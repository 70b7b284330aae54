----------------------------- MODULE Submission -----------------------------
(***************************************************************************)
(* What a submission to the platform promises its caller: a success is one  *)
(* that took effect, an error leaves open whether it did or still will, and *)
(* it takes effect no more often than it may be tried. ChangePod treats its *)
(* notifications as such submissions.                                       *)
(***************************************************************************)
EXTENDS Naturals

CONSTANTS Submissions,
          MaxEffects  \* attempts of one submission

VARIABLES outcome,  \* what the caller of each submission knows
          effects   \* how often each submission took effect

absVars == <<outcome, effects>>

AbsInit ==
    /\ outcome = [s \in Submissions |-> "none"]
    /\ effects = [s \in Submissions |-> 0]

Begin(s) ==
    /\ outcome[s] = "none"
    /\ outcome' = [outcome EXCEPT ![s] = "pending"]
    /\ UNCHANGED effects

\* Perhaps long after the caller has given up.
TakeEffect(s) ==
    /\ outcome[s] # "none" /\ effects[s] < MaxEffects
    /\ effects' = [effects EXCEPT ![s] = @ + 1]
    /\ UNCHANGED outcome

Succeed(s) ==
    /\ outcome[s] = "pending" /\ effects[s] > 0
    /\ outcome' = [outcome EXCEPT ![s] = "success"]
    /\ UNCHANGED effects

GiveUp(s) ==
    /\ outcome[s] = "pending"
    /\ outcome' = [outcome EXCEPT ![s] = "error"]
    /\ UNCHANGED effects

AbsNext == \E s \in Submissions : Begin(s) \/ TakeEffect(s) \/ Succeed(s) \/ GiveUp(s)

AbsSpec == AbsInit /\ [][AbsNext]_absVars
=============================================================================
