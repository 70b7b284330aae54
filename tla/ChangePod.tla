------------------------------ MODULE ChangePod ------------------------------
(***************************************************************************)
(* One ChangePod object (a batch of published pods sent for inspection)     *)
(* and everything that reads or writes it:                                  *)
(*   - the ChangePod reconciler (controllers/changepod_controller.go);      *)
(*   - the HTTP handler of the platform's callbacks                         *)
(*     (controllers/callback/nodecallbak_handle.go);                        *)
(*   - the timeout loop (runnable/run_changepod_timeout_valid.go).          *)
(*                                                                          *)
(* hist is the sequence of versions the API server has stored: the index of *)
(* a version is its resourceVersion, so a read from the informer's cache is *)
(* an index into hist, an Update succeeds only on the last index, and a     *)
(* merge Patch (which carries no resourceVersion) applies to the last       *)
(* version whatever the handler had read.                                   *)
(*                                                                          *)
(* Left out: the ChangeWorkload the reconciler looks up (it exists: its     *)
(* deletion would delete the ChangePod with it), the                        *)
(* identity of the platform's nodes (a callback for a node that the cache   *)
(* does not show changes nothing), wall-clock time (a deadline may have     *)
(* passed whenever the timeout loop looks).                                 *)
(***************************************************************************)
EXTENDS Integers, Sequences, FiniteSets

CONSTANTS Pods,           \* pods of the deployment's version
          Mortal,         \* those that may be deleted from the cluster
          Handlers,       \* concurrent invocations of the callback handler
          CountThreshold, \* ChangeWorkload.Spec.CountThreshold
          MaxCallbacks,   \* bound: callbacks that reach their Patch
          MaxFaults,      \* bound: API calls of the reconciler that fail
          MaxCrashes      \* bound: restarts of the operator

ASSUME ChangePodAssumption ==
    /\ IsFiniteSet(Pods)
    /\ Mortal \subseteq Pods
    /\ {CountThreshold, MaxCallbacks, MaxFaults, MaxCrashes} \subseteq Nat

VARIABLES hist,      \* versions of the ChangePod in the API server
          cache,     \* index of the version the informer's cache holds
          queued,    \* the ChangePod's key is in the work queue
          rec,       \* the reconciler: its step, the version read, the rest
          handler,   \* per callback handler: the stage and verdict it is to patch
          timer,     \* version the timeout loop is about to update, or 0
          pod,       \* labels of each pod in the API server
          podCache,  \* labels of each pod in the informer's cache
          finishSent,\* the platform has accepted a finish notification
          callbacks, faults, crashes  \* how often each bounded event happened

vars == <<hist, cache, queued, rec, handler, timer, pod, podCache,
          finishSent, callbacks, faults, crashes>>

bounds == <<callbacks, faults, crashes>>

-----------------------------------------------------------------------------
\* Status.Status of a ChangePod; ExecuteInit is the empty string.
ExecuteInit == "Init"
Submitted   == {"PreSubmitted", "PostSubmitted"}
Finished    == {"PostFinish", "PreTimeout", "PostTimeout", "PreFailed", "PostFailed"}
Statuses    == {ExecuteInit, "PreWait", "PostWait", "ExecuteDone"} \cup Submitted \cup Finished

Verdicts == {"pass", "fail"}

Version == [live     : BOOLEAN,
            status   : Statuses,
            message  : Finished \cup {"none"},
            podInfos : SUBSET Pods,
            node     : BOOLEAN,                \* Status.ChangePodId is set
            results  : Verdicts \cup {"none"}] \* verdict in Status.PodResults

\* Published and not yet in a batch: labelled finished, not labelled defensed.
PodStates == {"running", "finished", "defensed", "gone"}

NoWant == "none"
Idle   == [pc |-> "idle", base |-> 0, todo |-> {}, want |-> NoWant]
NoCall == [stage |-> "none", verdict |-> "pass"]

Latest == hist[Len(hist)]
Cached == hist[cache]
Fresh(i) == i = Len(hist)

-----------------------------------------------------------------------------
Init ==
    /\ hist = << [live |-> TRUE, status |-> ExecuteInit, message |-> "none",
                  podInfos |-> {}, node |-> FALSE, results |-> "none"] >>
    /\ cache = 1
    /\ queued = TRUE
    /\ rec = Idle
    /\ handler = [h \in Handlers |-> NoCall]
    /\ timer = 0
    /\ pod \in [Pods -> {"running", "finished"}]
    /\ podCache = pod
    /\ finishSent = FALSE
    /\ callbacks = 0 /\ faults = 0 /\ crashes = 0

-----------------------------------------------------------------------------
(* The cluster: pods start running (the pod controller labels them finished)*)
(* or disappear, and the informers follow the API server, one version of    *)
(* the ChangePod at a time.                                                 *)

PodPublished(p) ==
    /\ pod[p] = "running"
    /\ pod' = [pod EXCEPT ![p] = "finished"]
    /\ UNCHANGED <<hist, cache, queued, rec, handler, timer, podCache, finishSent, bounds>>

PodVanishes(p) ==
    /\ p \in Mortal /\ pod[p] # "gone"
    /\ pod' = [pod EXCEPT ![p] = "gone"]
    /\ UNCHANGED <<hist, cache, queued, rec, handler, timer, podCache, finishSent, bounds>>

PodCacheSync(p) ==
    /\ podCache[p] # pod[p]
    /\ podCache' = [podCache EXCEPT ![p] = pod[p]]
    /\ UNCHANGED <<hist, cache, queued, rec, handler, timer, pod, finishSent, bounds>>

\* The event filter drops versions that are ExecuteDone.
CacheSync ==
    /\ ~Fresh(cache)
    /\ cache' = cache + 1
    /\ queued' = (queued \/ hist[cache + 1].status # "ExecuteDone")
    /\ UNCHANGED <<hist, rec, handler, timer, pod, podCache, finishSent, bounds>>

\* The informer's periodic resync (every ten hours unless set) repeats its last event.
Resync ==
    /\ Cached.live /\ Cached.status # "ExecuteDone"
    /\ queued' = TRUE
    /\ UNCHANGED <<hist, cache, rec, handler, timer, pod, podCache, finishSent, bounds>>

-----------------------------------------------------------------------------
(* The reconciler. One worker at a time owns the key; an error puts the key *)
(* back in the queue.                                                       *)

Take(statuses) ==
    /\ rec.pc = "idle" /\ queued
    /\ Cached.live
    /\ Cached.status \in statuses

Requeue == rec' = Idle /\ queued' = TRUE

Unprocessed == {p \in Pods : podCache[p] = "finished"}

\* The list of unprocessed pods, cut to the threshold; the cache lists pods in any order.
IsBatch(batch) ==
    /\ batch \subseteq Unprocessed
    /\ \/ Cardinality(Unprocessed) <= CountThreshold /\ batch = Unprocessed
       \/ Cardinality(Unprocessed) > CountThreshold /\ Cardinality(batch) = CountThreshold

\* Nothing to do: the ChangePod is gone, or it waits for the platform, or it is done.
ReconcileNothing ==
    /\ rec.pc = "idle" /\ queued
    /\ ~Cached.live \/ Cached.status \in Submitted \cup {"ExecuteDone"}
    /\ queued' = FALSE
    /\ UNCHANGED <<hist, cache, rec, handler, timer, pod, podCache, finishSent, bounds>>

\* No unprocessed pod: delete the ChangePod, without a precondition on its version.
DeleteEmptyBatch ==
    /\ Take({ExecuteInit}) /\ Cached.podInfos = {}
    /\ Unprocessed = {}
    /\ hist' = IF Latest.live THEN Append(hist, [Latest EXCEPT !.live = FALSE]) ELSE hist
    /\ Requeue
    /\ UNCHANGED <<cache, handler, timer, pod, podCache, finishSent, bounds>>

\* Mutant: the pods are labelled without Spec.PodInfos having been written.
FillBatchUnsaved ==
    /\ Take({ExecuteInit}) /\ Cached.podInfos = {}
    /\ Unprocessed # {} /\ Fresh(cache)
    /\ \E batch \in SUBSET Unprocessed :
          /\ IsBatch(batch)
          /\ rec' = [pc |-> "write", base |-> cache, todo |-> batch, want |-> "PreWait"]
    /\ queued' = FALSE
    /\ UNCHANGED <<hist, cache, handler, timer, pod, podCache, finishSent, bounds>>

\* Mutant: the status becomes PreWait before the pods are labelled.
FillBatchUnlabelled ==
    /\ Take({ExecuteInit}) /\ Cached.podInfos = {}
    /\ Unprocessed # {} /\ Fresh(cache)
    /\ \E batch \in SUBSET Unprocessed :
          /\ IsBatch(batch)
          /\ hist' = IF batch = {} THEN hist ELSE Append(hist, [Cached EXCEPT !.podInfos = batch])
          /\ rec' = [pc |-> "write", base |-> Len(hist'), todo |-> {}, want |-> "PreWait"]
    /\ queued' = FALSE
    /\ UNCHANGED <<cache, handler, timer, pod, podCache, finishSent, bounds>>

\* The batch is written to Spec.PodInfos (an Update that changes nothing makes no
\* version); then its pods are labelled one by one and the status becomes PreWait.
FillBatch ==
    /\ Take({ExecuteInit}) /\ Cached.podInfos = {}
    /\ Unprocessed # {}
    /\ Fresh(cache)
    /\ \E batch \in SUBSET Unprocessed :
          /\ IsBatch(batch)
          /\ hist' = IF batch = {} THEN hist ELSE Append(hist, [Cached EXCEPT !.podInfos = batch])
          /\ rec' = [pc |-> "write", base |-> Len(hist'), todo |-> batch, want |-> "PreWait"]
    /\ queued' = FALSE
    /\ UNCHANGED <<cache, handler, timer, pod, podCache, finishSent, bounds>>

FillConflict ==
    /\ Take({ExecuteInit}) /\ Cached.podInfos = {}
    /\ Unprocessed # {}
    /\ ~Fresh(cache)
    /\ Requeue
    /\ UNCHANGED <<hist, cache, handler, timer, pod, podCache, finishSent, bounds>>

\* A retry finds the batch already written: only the labels are completed.
MarkDefensedPods ==
    /\ Take({ExecuteInit}) /\ Cached.podInfos # {}
    /\ rec' = [pc |-> "remark", base |-> cache, todo |-> Cached.podInfos, want |-> NoWant]
    /\ queued' = FALSE
    /\ UNCHANGED <<hist, cache, handler, timer, pod, podCache, finishSent, bounds>>

\* The pod lookup or the label patch fails: the pod has been deleted.
PodMissing(p) ==
    \/ rec.pc = "write" /\ pod[p] = "gone"
    \/ rec.pc = "remark" /\ podCache[p] = "gone"
    \/ rec.pc = "remark" /\ podCache[p] # "defensed" /\ pod[p] = "gone"

DefenseProcessedPod(p) ==
    /\ p \in rec.todo
    /\ IF PodMissing(p)
         THEN Requeue /\ UNCHANGED pod
         ELSE /\ pod' = [pod EXCEPT ![p] = IF @ = "gone" THEN @ ELSE "defensed"]
              /\ rec' = [rec EXCEPT !.todo = @ \ {p}]
              /\ UNCHANGED queued
    /\ UNCHANGED <<hist, cache, handler, timer, podCache, finishSent, bounds>>

\* executeInitChangePodHandle returns the result of markDefensedPods.
AllRemarked ==
    /\ rec.pc = "remark" /\ rec.todo = {}
    /\ rec' = Idle
    /\ UNCHANGED <<hist, cache, queued, handler, timer, pod, podCache, finishSent, bounds>>

WillWrite(status) ==
    /\ rec' = [pc |-> "write", base |-> cache, todo |-> {}, want |-> status]
    /\ queued' = FALSE
    /\ UNCHANGED <<hist, cache, handler, timer, pod, podCache, bounds>>

\* Submit the start notification: it may fail, or succeed without a nodeId.
PreWaitChangePodHandle ==
    /\ Take({"PreWait"})
    /\ \E status \in {"PreSubmitted", "PreFailed"} : WillWrite(status)
    /\ UNCHANGED finishSent

\* Submit the finish notification; an error does not mean the platform missed it.
PostWaitChangePodHandle ==
    /\ Take({"PostWait"})
    /\ \/ WillWrite("PostSubmitted") /\ finishSent' = TRUE
       \/ WillWrite("PostFailed") /\ finishSent' \in {finishSent, TRUE}

HandleFinishedChangePod ==
    /\ Take(Finished)
    /\ WillWrite("ExecuteDone")
    /\ UNCHANGED finishSent

\* Mutant: the message is taken after the status has been overwritten.
WantedMessageLate(v, want) ==
    [v EXCEPT !.status  = want,
              !.node    = @ \/ want = "PreSubmitted",
              !.message = IF want = "ExecuteDone" THEN want ELSE @]

\* The object the reconciler holds, once it has set the status it wants.
Wanted(v, want) ==
    [v EXCEPT !.status  = want,
              !.node    = @ \/ want = "PreSubmitted",
              !.message = IF want = "ExecuteDone" THEN v.status ELSE @]

\* Mutant: the status is written without the resourceVersion read.
UpdateWithoutVersion ==
    /\ rec.pc = "write" /\ rec.todo = {}
    /\ hist' = Append(hist, Wanted(hist[rec.base], rec.want))
    /\ rec' = Idle
    /\ UNCHANGED <<cache, queued, handler, timer, pod, podCache, finishSent, bounds>>

UpdateChangePodStatus ==
    /\ rec.pc = "write" /\ rec.todo = {}
    /\ IF Fresh(rec.base)
         THEN /\ hist' = Append(hist, Wanted(hist[rec.base], rec.want))
              /\ rec' = Idle
              /\ UNCHANGED queued
         ELSE Requeue /\ UNCHANGED hist
    /\ UNCHANGED <<cache, handler, timer, pod, podCache, finishSent, bounds>>

\* An API call of the reconciler fails: the handler returns the error.
ApiFault ==
    /\ rec.pc # "idle" /\ faults < MaxFaults
    /\ faults' = faults + 1
    /\ Requeue
    /\ UNCHANGED <<hist, cache, handler, timer, pod, podCache, finishSent, callbacks, crashes>>

Reconcile ==
    \/ ReconcileNothing \/ DeleteEmptyBatch \/ FillBatch \/ FillConflict \/ MarkDefensedPods
    \/ \E p \in Pods : DefenseProcessedPod(p)
    \/ AllRemarked
    \/ PreWaitChangePodHandle \/ PostWaitChangePodHandle \/ HandleFinishedChangePod
    \/ UpdateChangePodStatus

-----------------------------------------------------------------------------
(* The callback handler: it finds the ChangePod by nodeId in the cache,     *)
(* tests the status it read and patches the status. A callback whose node   *)
(* the cache does not show, or whose test fails, is answered and changes    *)
(* nothing. The platform may repeat a callback.                             *)

CheckCallBackHandler(h) ==
    /\ handler[h] = NoCall /\ callbacks < MaxCallbacks
    /\ Cached.live /\ Cached.node
    /\ \/ Cached.status = "PreSubmitted"
          /\ handler' = [handler EXCEPT ![h] = [stage |-> "pre", verdict |-> "pass"]]
       \/ Cached.status = "PostSubmitted" /\ finishSent
          /\ \E verdict \in Verdicts :
                handler' = [handler EXCEPT ![h] = [stage |-> "post", verdict |-> verdict]]
    /\ callbacks' = callbacks + 1
    /\ UNCHANGED <<hist, cache, queued, rec, timer, pod, podCache, finishSent, faults, crashes>>

\* Mutant: the verdicts of the callback are not stored.
PatchedWithoutResults(v, call) ==
    IF call.stage = "pre" THEN [v EXCEPT !.status = "PostWait"]
                          ELSE [v EXCEPT !.status = "PostFinish"]

\* What the merge patch of a callback makes of version v.
Patched(v, call) ==
    IF call.stage = "pre"
      THEN [v EXCEPT !.status = "PostWait"]
      ELSE [v EXCEPT !.status = "PostFinish", !.results = call.verdict]

CallbackPatch(h) ==
    /\ handler[h] # NoCall
    /\ handler' = [handler EXCEPT ![h] = NoCall]
    /\ hist' = IF Latest.live THEN Append(hist, Patched(Latest, handler[h])) ELSE hist
    /\ UNCHANGED <<cache, queued, rec, timer, pod, podCache, finishSent, bounds>>

-----------------------------------------------------------------------------
(* The timeout loop: it lists submitted ChangePods from the cache and       *)
(* Updates those past their deadline; a conflict is only logged.            *)

\* Mutant: only start notifications time out.
TimeoutListPre ==
    /\ timer = 0
    /\ Cached.live /\ Cached.status = "PreSubmitted"
    /\ timer' = cache
    /\ UNCHANGED <<hist, cache, queued, rec, handler, pod, podCache, finishSent, bounds>>

TimeoutList ==
    /\ timer = 0
    /\ Cached.live /\ Cached.status \in Submitted
    /\ timer' = cache
    /\ UNCHANGED <<hist, cache, queued, rec, handler, pod, podCache, finishSent, bounds>>

TimedOut(v) ==
    [v EXCEPT !.status = IF @ = "PreSubmitted" THEN "PreTimeout" ELSE "PostTimeout"]

\* Mutant: the timeout is patched, whatever the ChangePod has become.
TimeoutPatch ==
    /\ timer # 0
    /\ timer' = 0
    /\ hist' = IF Latest.live THEN Append(hist, TimedOut(Latest)) ELSE hist
    /\ UNCHANGED <<cache, queued, rec, handler, pod, podCache, finishSent, bounds>>

TimeoutUpdate ==
    /\ timer # 0
    /\ timer' = 0
    /\ hist' = IF Fresh(timer) THEN Append(hist, TimedOut(hist[timer])) ELSE hist
    /\ UNCHANGED <<cache, queued, rec, handler, pod, podCache, finishSent, bounds>>

-----------------------------------------------------------------------------
\* A restart: in-memory state is lost, the informers list again, and every
\* listed ChangePod that passes the filter is queued by its create event.
Crash ==
    /\ crashes < MaxCrashes
    /\ crashes' = crashes + 1
    /\ rec' = Idle
    /\ handler' = [h \in Handlers |-> NoCall]
    /\ timer' = 0
    /\ cache' = Len(hist)
    /\ podCache' = pod
    /\ queued' = (Latest.live /\ Latest.status # "ExecuteDone")
    /\ UNCHANGED <<hist, pod, finishSent, callbacks, faults>>

Next ==
    \/ \E p \in Pods : PodPublished(p) \/ PodVanishes(p) \/ PodCacheSync(p)
    \/ CacheSync \/ Resync
    \/ Reconcile \/ ApiFault
    \/ \E h \in Handlers : CheckCallBackHandler(h) \/ CallbackPatch(h)
    \/ TimeoutList \/ TimeoutUpdate
    \/ Crash

Spec == Init /\ [][Next]_vars

\* The informer delivers and resyncs, a queued key is worked on, and the timeout loop ticks.
\* Nothing is assumed of the platform, of the pods or of failures.
Fairness ==
    /\ WF_vars(CacheSync) /\ WF_vars(Resync)
    /\ WF_vars(Reconcile)
    /\ WF_vars(TimeoutList) /\ WF_vars(TimeoutUpdate)

FairSpec == Spec /\ Fairness

-----------------------------------------------------------------------------
(* Properties *)

Lifecycle == INSTANCE ChangePodLifecycle
    WITH live <- Latest.live, status <- Latest.status,
         batch <- Latest.podInfos, outcome <- Latest.message

\* Every write of the reconciler, the callback handler and the timeout loop is a
\* step of the abstract life cycle: resourceVersions keep stale writers off its edges.
LifecycleRefined == Lifecycle!AbsSpec

TypeOK ==
    /\ hist \in Seq(Version) /\ Len(hist) > 0
    /\ cache \in 1 .. Len(hist)
    /\ queued \in BOOLEAN /\ finishSent \in BOOLEAN
    /\ rec \in [pc   : {"idle", "remark", "write"},
                base : 0 .. Len(hist),
                todo : SUBSET Pods,
                want : Statuses \cup {NoWant}]
    /\ handler \in [Handlers -> [stage : {"none", "pre", "post"}, verdict : Verdicts]]
    /\ timer \in 0 .. Len(hist)
    /\ pod \in [Pods -> PodStates] /\ podCache \in [Pods -> PodStates]
    /\ {callbacks, faults, crashes} \subseteq Nat

\* A pod is labelled defensed only after it is recorded in the batch, so whatever fails or
\* stops between the two writes, the labelled pods (which no other ChangePod will take) are
\* named by this one, and the retry finds which are left (markDefensedPods). Whether they
\* are ever inspected is another question (FilledBatchStarts).
LabelledOnlyInBatch ==
    \A p \in Pods : pod[p] = "defensed" => p \in Latest.podInfos

\* A ChangePod that has left Init has labelled its whole batch: the next batch
\* cannot take the same pods (executeInitChangePodHandle's order of writes).
InspectedBatchIsLabelled ==
    Latest.status # ExecuteInit =>
        \A p \in Latest.podInfos : pod[p] \in {"defensed", "gone"}

\* ExecuteDone is written on the version whose status it records as Message, with
\* no write in between (handleFinishedChangePod's Update carries the version read).
DoneRecordsOutcome ==
    \A i \in 2 .. Len(hist) :
        (hist[i].live /\ hist[i].status = "ExecuteDone") =>
            hist[i].message = hist[i - 1].status

\* A ChangePod that shows PostFinish, or was done from it, has a verdict, and the platform
\* gave it for a finish notification it had accepted: an old callback of the start never
\* ends an inspection. (A timeout or a failed notification ends one without a verdict.)
OutcomeHasCause ==
    "PostFinish" \in {Latest.status, Latest.message} =>
        Latest.results \in Verdicts /\ finishSent /\ Latest.node

\* Whatever fails and whether or not the platform answers, a batch that has left
\* Init becomes done (or is deleted): the timeout loop and the queue see to it.
StartedBatchFinishes ==
    (Latest.live /\ Latest.status # ExecuteInit) ~>
        (~Latest.live \/ Latest.status = "ExecuteDone")

-----------------------------------------------------------------------------
(* What the safety properties rest on: with them, it is inductive *)

\* What each writer holds still agrees with the version it read, and only a version
\* out of Init can be patched by a pending callback.
WritersAgree ==
    /\ rec.pc # "idle" => rec.base > 0
    /\ rec.pc # "write" => rec.want = NoWant
    /\ rec.pc = "write" =>
          /\ rec.want \in Statuses \ {ExecuteInit, NoWant}
          /\ rec.want = "PreWait" =>
                \A p \in hist[rec.base].podInfos \ rec.todo : pod[p] \in {"defensed", "gone"}
          /\ rec.want # "PreWait" => hist[rec.base].status # ExecuteInit
          /\ rec.want = "ExecuteDone" => hist[rec.base].status \in Finished
    /\ rec.todo \subseteq Latest.podInfos
    /\ timer # 0 => hist[timer].status \in Submitted
    /\ \A h \in Handlers : handler[h] # NoCall =>
          /\ handler[h].stage \in {"pre", "post"}
          /\ Latest.status # ExecuteInit

\* The batch is written once and Init is never returned to.
HistoryGrows ==
    \A i \in 1 .. Len(hist) :
        /\ hist[i].podInfos # {} => hist[i].podInfos = Latest.podInfos
        /\ hist[i].status # ExecuteInit => Latest.status # ExecuteInit

IInv ==
    /\ TypeOK
    /\ WritersAgree
    /\ HistoryGrows
    /\ LabelledOnlyInBatch
    /\ InspectedBatchIsLabelled
    /\ DoneRecordsOutcome

\* Whoever is about to write read a live version, and the reconciler takes it along an
\* edge of the life cycle.
WritesFollowEdges ==
    /\ rec.pc = "write" =>
          /\ hist[rec.base].live
          /\ \/ <<hist[rec.base].status, rec.want>> \in Lifecycle!Edges
             \/ hist[rec.base].status \in Lifecycle!Outcomes /\ rec.want = "ExecuteDone"
    /\ timer # 0 => hist[timer].live

\* Callbacks come for a ChangePod that was submitted: its node is never lost.
NodesFollowStart ==
    /\ \A i \in 1 .. Len(hist) :
          hist[i].node => Latest.node /\ hist[i].status \in Lifecycle!AfterStart
    /\ \A h \in Handlers : handler[h] # NoCall =>
          /\ Latest.node
          /\ handler[h].stage = "post" => finishSent

\* As long as the cache shows Init, nobody but the reconciler of the first batch writes.
InitIsLeftOnce ==
    /\ \A i \in 2 .. Len(hist) :
          hist[i].status = ExecuteInit => hist[i - 1].status = ExecuteInit
    /\ Cached.status = ExecuteInit =>
          /\ Latest.status \in {ExecuteInit, "PreWait"}
          /\ timer = 0 /\ \A h \in Handlers : handler[h] = NoCall
          /\ rec.pc = "write" => rec.want = "PreWait"

\* What the causes of outcomes and the life cycle rest on.
LifeInv == IInv /\ WritesFollowEdges /\ NodesFollowStart /\ InitIsLeftOnce /\ OutcomeHasCause

-----------------------------------------------------------------------------
(* A statement of the repository's comments that the code does not keep *)

\* "ExecuteInit init status, not start execute": a batch that was filled starts.
FilledBatchStarts ==
    (Latest.live /\ Latest.podInfos # {}) ~> (~Latest.live \/ Latest.status # ExecuteInit)
=============================================================================
