-------------------------- MODULE ChangePodLifecycle --------------------------
(***************************************************************************)
(* What a ChangePod promises to whoever reads it (the ChangeWorkload        *)
(* controller above all), with no cache, worker or version: its batch of    *)
(* pods is written once, its status moves along the edges below, a done     *)
(* ChangePod records the status it was done from, and it disappears only    *)
(* before it is submitted to the platform.                                  *)
(***************************************************************************)
CONSTANT Pods

VARIABLES live, status, batch, outcome

absVars == <<live, status, batch, outcome>>

\* Steps of the reconciler and of the timeout loop.
Edges == {<<"Init", "PreWait">>,
          <<"PreWait", "PreSubmitted">>, <<"PreWait", "PreFailed">>,
          <<"PostWait", "PostSubmitted">>, <<"PostWait", "PostFailed">>,
          <<"PreSubmitted", "PreTimeout">>, <<"PostSubmitted", "PostTimeout">>}

\* Statuses from which a ChangePod becomes done.
Outcomes == {"PostFinish", "PreTimeout", "PostTimeout", "PreFailed", "PostFailed"}

\* A callback's patch may land on any status that follows a start submission:
\* the handler tests the status it read, not the status it overwrites.
AfterStart == {"PreSubmitted", "PreTimeout", "PostWait", "PostSubmitted",
               "PostFinish", "PostTimeout", "PostFailed", "ExecuteDone"}

AbsInit == live = TRUE /\ status = "Init" /\ batch = {} /\ outcome = "none"

Collect ==
    /\ live /\ status = "Init" /\ batch = {}
    /\ batch' \in (SUBSET Pods) \ {{}}
    /\ UNCHANGED <<live, status, outcome>>

Advance ==
    /\ live /\ <<status, status'>> \in Edges
    /\ UNCHANGED <<live, batch, outcome>>

Callback ==
    /\ live /\ status \in AfterStart
    /\ status' \in {"PostWait", "PostFinish"}
    /\ UNCHANGED <<live, batch, outcome>>

Finish ==
    /\ live /\ status \in Outcomes
    /\ status' = "ExecuteDone" /\ outcome' = status
    /\ UNCHANGED <<live, batch>>

Discard ==
    /\ live /\ status \in {"Init", "PreWait"}
    /\ live' = FALSE
    /\ UNCHANGED <<status, batch, outcome>>

AbsNext == Collect \/ Advance \/ Callback \/ Finish \/ Discard

AbsSpec == AbsInit /\ [][AbsNext]_absVars
=============================================================================
