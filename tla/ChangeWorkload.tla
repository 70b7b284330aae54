---------------------------- MODULE ChangeWorkload ----------------------------
(***************************************************************************)
(* The ChangeWorkload of one version of a deployment, and the controller    *)
(* that cuts the version's published pods into ChangePods, collects their   *)
(* outcomes and suspends the deployment when a pod fails                    *)
(* (controllers/changeworkload_controller.go, changeworkload_pod_control.go *)
(* and changeworkload_changepod_control.go).                                *)
(*                                                                          *)
(* Several workers reconcile the same workload at once, because its work    *)
(* queue holds many keys for it: the workload's name, its pods' and its     *)
(* ChangePods'. Each worker works on its own copy of the workload. The      *)
(* model only knows whether some key is queued: when two are, one more      *)
(* reconciliation is what a resync may ask for at any time.                 *)
(*                                                                          *)
(* A ChangePod takes a batch, labels it and is started in separate writes,  *)
(* between which a call may fail or the operator stop; a started one is     *)
(* inspected (the steps of ChangePod up to ExecuteDone are one) and is done *)
(* with an outcome that a late callback may still overturn. A reconciler    *)
(* that reads an old cache may delete it as empty. An informer's cache is a *)
(* past state of the API server, and jumps to the present one when it       *)
(* synchronises.                                                            *)
(*                                                                          *)
(* Left out: older and newer versions (the deployment stays at this one),   *)
(* the status TimeOutPreThreshold (its only writer tests                    *)
(* DefensePreparingPods, which nothing writes), entry times.                *)
(***************************************************************************)
EXTENDS Integers, FiniteSets

CONSTANTS Pods,           \* the pods the version may have, in the course of time
          Mortal,         \* those that may be deleted from the cluster, and replaced
          Replicas,       \* Spec.Replicas of the deployment
          Workers,        \* changeWorkLoadWorkCount
          CountThreshold, \* Spec.CountThreshold
          Blocking,       \* ConfigIsBlockingUp
          MaxChangePods,  \* bound: ChangePods that may exist at once
          MaxMishaps      \* bound: API calls that fail, callbacks that hit a ChangePod
                          \* which is done, and restarts of the operator, together

ASSUME ChangeWorkloadAssumption ==
    /\ IsFiniteSet(Pods) /\ Mortal \subseteq Pods
    /\ Cardinality(Pods \ Mortal) <= Replicas
    /\ "cache" \notin Workers
    /\ Blocking \in BOOLEAN
    /\ {Replicas, CountThreshold, MaxChangePods, MaxMishaps} \subseteq Nat

VARIABLES pod, podCache,         \* labels of the pods
          changePod, changePodCache, \* the ChangePods, by the number in their name
          rec,                   \* what the ChangePod reconciler is doing, by that number
          workload, workloadCache,
          fresh,                 \* holders of the workload's present version
          deployment, deploymentCache, \* labels of the deployment
          queued,                \* a key of the workload is in the work queue
          worker,                \* what each worker is doing, with its copy of the workload
          mishaps                \* how many mishaps there were

\* History variables, for the properties only.
VARIABLES passed,    \* pods of batches that were done and counted as passed
          stopped,   \* the deployment has carried the suspend label
          discarded  \* a started ChangePod was deleted as empty

history == <<passed, stopped, discarded>>
caches  == <<podCache, changePodCache, workloadCache, deploymentCache>>
cluster == <<pod, changePod, rec, deployment>>

vars == <<cluster, caches, workload, fresh, queued, worker, mishaps, history>>

-----------------------------------------------------------------------------
Numbers == 1 .. MaxChangePods

\* A pod that is not created or not published yet is nothing to the controller.
PodStates == {"unpublished", "finished", "defensed", "gone"}
Published == {"finished", "defensed"}

\* Started: submitted or about to be, until the ChangePod is done. outcome: how
\* syncChangeWorkloadStatus counts the batch then. A timeout or a failed notification
\* counts as a pass; a verdict is one for all pods.
ChangePods == [status  : {"none", "Init", "Started", "ExecuteDone"},
               batch   : SUBSET Pods,
               outcome : {"none", "pass", "fail"}]
NoChangePod == [status |-> "none", batch |-> {}, outcome |-> "none"]
NewChangePod == [NoChangePod EXCEPT !.status = "Init"]

\* A reconciler labels the pods left to do of the batch it wrote, or has found no pod.
Recs   == [pc : {"idle", "fill", "delete"}, todo : SUBSET Pods]
AtRest == [pc |-> "idle", todo |-> {}]

Workloads == [status : {"Init", "Running", "Success", "Suspend"},
              pass   : SUBSET Pods,  \* DefenseCheckPassPods
              fail   : SUBSET Pods]  \* DefenseCheckFailPods
NewWorkload == [status |-> "Init", pass |-> {}, fail |-> {}]

\* Who may hold a copy of the workload at its present resourceVersion.
Cache   == "cache"
Holders == Workers \cup {Cache}

\* The labels suspend, ignored-suspend and defense-status (the Processed mark).
Deployments == [suspend : BOOLEAN, ignored : BOOLEAN, mark : BOOLEAN]

\* number: the one a worker is about to create a ChangePod with.
WorkerPcs == {"idle", "create", "patch", "sync", "label", "update"}
Idle == [pc |-> "idle", copy |-> NewWorkload, number |-> 0]

Existing(objects) == {i \in Numbers : objects[i].status # "none"}

\* A ChangePod the cache shows done.
AnyDone == \E i \in Numbers : changePodCache[i].status = "ExecuteDone"

\* Pods the cache shows published and not in a batch.
Preparing == {p \in Pods : podCache[p] = "finished"}

\* The deployment controller has marked the deployment before it created the workload.
Init ==
    /\ pod = [p \in Pods |-> "unpublished"] /\ podCache = pod
    /\ changePod = [i \in Numbers |-> NoChangePod] /\ changePodCache = changePod
    /\ rec = [i \in Numbers |-> AtRest]
    /\ workload = NewWorkload /\ workloadCache = workload /\ fresh = {Cache}
    /\ deployment = [suspend |-> FALSE, ignored |-> FALSE, mark |-> TRUE]
    /\ deploymentCache = deployment
    /\ queued = FALSE
    /\ worker = [w \in Workers |-> Idle]
    /\ mishaps = 0
    /\ passed = {} /\ stopped = FALSE /\ discarded = FALSE

-----------------------------------------------------------------------------
(* The cluster *)

Live == {p \in Pods : pod[p] \in Published}

\* A pod that is being deleted may still exist when its replacement is published.
PodPublished(p) ==
    /\ pod[p] = "unpublished"
    /\ Cardinality(Live \ Mortal) < Replicas
    /\ pod' = [pod EXCEPT ![p] = "finished"]
    /\ UNCHANGED <<changePod, rec, deployment, caches, workload, fresh, queued, worker, mishaps, history>>

PodVanishes(p) ==
    /\ p \in Mortal \cap Live
    /\ pod' = [pod EXCEPT ![p] = "gone"]
    /\ UNCHANGED <<changePod, rec, deployment, caches, workload, fresh, queued, worker, mishaps, history>>

(* The ChangePod controller. One worker at a time reconciles ChangePod i. *)

\* The pods listed as unprocessed, cut to the threshold.
IsBatch(batch) ==
    /\ batch \subseteq Preparing
    /\ \/ Cardinality(Preparing) <= CountThreshold /\ batch = Preparing
       \/ Cardinality(Preparing) > CountThreshold /\ Cardinality(batch) = CountThreshold

\* The batch is written to Spec.PodInfos: an Update, refused if the copy read is old.
RecordBatch(i) ==
    /\ rec[i] = AtRest
    /\ changePodCache[i].status = "Init" /\ changePodCache[i].batch = {}
    /\ changePod[i] = changePodCache[i] /\ Preparing # {}
    /\ \E batch \in SUBSET Preparing :
          /\ IsBatch(batch)
          /\ changePod' = [changePod EXCEPT ![i] = [@ EXCEPT !.batch = batch]]
          /\ rec' = [rec EXCEPT ![i] = [pc |-> "fill", todo |-> batch]]
    /\ UNCHANGED <<pod, deployment, caches, workload, fresh, queued, worker, mishaps, history>>

\* A pod of the batch is labelled; on one that was deleted the patch fails.
DefenseProcessedPod(i, p) ==
    /\ p \in rec[i].todo
    /\ IF pod[p] = "gone"
         THEN rec' = [rec EXCEPT ![i] = AtRest] /\ UNCHANGED pod
         ELSE /\ rec' = [rec EXCEPT ![i].todo = @ \ {p}]
              /\ pod' = [pod EXCEPT ![p] = "defensed"]
    /\ UNCHANGED <<changePod, deployment, caches, workload, fresh, queued, worker, mishaps, history>>

\* All pods are labelled: the status becomes PreWait.
StartBatch(i) ==
    /\ rec[i] = [pc |-> "fill", todo |-> {}]
    /\ changePod' = [changePod EXCEPT ![i] = [@ EXCEPT !.status = "Started"]]
    /\ rec' = [rec EXCEPT ![i] = AtRest]
    /\ UNCHANGED <<pod, deployment, caches, workload, fresh, queued, worker, mishaps, history>>

\* A call fails: the retry finds the batch written and labels its pods, but does not start it.
BatchFault(i) ==
    /\ rec[i].pc = "fill" /\ mishaps < MaxMishaps
    /\ mishaps' = mishaps + 1
    /\ rec' = [rec EXCEPT ![i] = AtRest]
    /\ UNCHANGED <<pod, changePod, deployment, caches, workload, fresh, queued, worker, history>>

MarkDefensedPods(i, p) ==
    /\ rec[i] = AtRest
    /\ changePodCache[i].status = "Init" /\ p \in changePodCache[i].batch
    /\ podCache[p] = "finished" /\ pod[p] # "gone"
    /\ pod' = [pod EXCEPT ![p] = "defensed"]
    /\ UNCHANGED <<changePod, rec, deployment, caches, workload, fresh, queued, worker, mishaps, history>>

\* Two caches say that there is no pod for an empty batch; the deletion that follows has
\* no precondition, so it hits a ChangePod that has been started, or created again.
FindNoPod(i) ==
    /\ rec[i] = AtRest
    /\ changePodCache[i].status = "Init" /\ changePodCache[i].batch = {}
    /\ Preparing = {}
    /\ rec' = [rec EXCEPT ![i] = [pc |-> "delete", todo |-> {}]]
    /\ UNCHANGED <<pod, changePod, deployment, caches, workload, fresh, queued, worker, mishaps, history>>

DeleteEmptyBatch(i) ==
    /\ rec[i].pc = "delete"
    /\ changePod' = [changePod EXCEPT ![i] = NoChangePod]
    /\ rec' = [rec EXCEPT ![i] = AtRest]
    /\ discarded' = (discarded \/ changePod[i].status \notin {"none", "Init"})
    /\ UNCHANGED <<pod, deployment, caches, workload, fresh, queued, worker, mishaps, passed, stopped>>

\* Submission, the platform's answer or a timeout, and handleFinishedChangePod.
FinishBatch(i) ==
    /\ rec[i] = AtRest
    /\ changePodCache[i].status = "Started" /\ changePod[i].status = "Started"
    /\ \E outcome \in {"pass", "fail"} :
          /\ changePod' = [changePod EXCEPT ![i] = [@ EXCEPT !.status = "ExecuteDone", !.outcome = outcome]]
          /\ passed' = IF outcome = "pass" THEN passed \cup changePod[i].batch ELSE passed
    /\ UNCHANGED <<pod, rec, deployment, caches, workload, fresh, queued, worker, mishaps, stopped, discarded>>

\* A callback that read the ChangePod before it was done patches its status all the same:
\* it will be done again, perhaps with another outcome.
LateCallback(i) ==
    /\ changePod[i].status = "ExecuteDone" /\ mishaps < MaxMishaps
    /\ mishaps' = mishaps + 1
    /\ changePod' = [changePod EXCEPT ![i] = [@ EXCEPT !.status = "Started", !.outcome = "none"]]
    /\ UNCHANGED <<pod, rec, deployment, caches, workload, fresh, queued, worker, history>>

(* The webhook and the deployment controller. *)

\* ValidateUpdate: a suspended deployment is only changed with the ignored label.
Denied(labels) == deployment.suspend /\ ~labels.ignored

\* defenseProcessedDeployment: the mark is set and the ignored label of the copy read is
\* removed; a patch that is denied is retried.
DefenseProcessedDeployment ==
    LET labels == [deployment EXCEPT !.mark = TRUE, !.ignored = @ /\ ~deploymentCache.ignored]
    IN /\ ~deploymentCache.mark /\ ~Denied(labels)
       /\ deployment' = labels
       /\ UNCHANGED <<pod, changePod, rec, caches, workload, fresh, queued, worker, mishaps, history>>

-----------------------------------------------------------------------------
(* The informers and the event filters *)

\* Only a finished pod without the defensed label wakes the workload.
PodEvent ==
    /\ podCache # pod
    /\ podCache' = pod
    /\ queued' = (queued \/ \E p \in Pods : podCache[p] # "finished" /\ pod[p] = "finished")
    /\ UNCHANGED <<cluster, changePodCache, workloadCache, deploymentCache, workload, fresh, worker, mishaps, history>>

\* Only Init -> PreWait and -> ExecuteDone wake it, not a creation or a deletion.
ChangePodEvent ==
    /\ changePodCache # changePod
    /\ changePodCache' = changePod
    /\ queued' = \/ queued
                 \/ \E i \in Numbers :
                       /\ changePod[i] # changePodCache[i]
                       /\ \/ changePod[i].status = "ExecuteDone"
                          \/ changePod[i].status = "Started" /\ changePodCache[i].status # "ExecuteDone"
    /\ UNCHANGED <<cluster, podCache, workloadCache, deploymentCache, workload, fresh, worker, mishaps, history>>

\* A workload in Init does not wake itself.
WorkloadEvent ==
    /\ Cache \notin fresh
    /\ workloadCache' = workload /\ fresh' = fresh \cup {Cache}
    /\ queued' = (queued \/ workload.status # "Init")
    /\ UNCHANGED <<cluster, podCache, changePodCache, deploymentCache, workload, worker, mishaps, history>>

DeploymentSync ==
    /\ deploymentCache # deployment
    /\ deploymentCache' = deployment
    /\ UNCHANGED <<cluster, podCache, changePodCache, workloadCache, workload, fresh, queued, worker, mishaps, history>>

\* The informers' periodic resync (every ten hours unless set) repeats the update
\* events of what they hold.
Resync ==
    /\ queued' = (queued \/ workloadCache.status # "Init" \/ Preparing # {} \/ AnyDone)
    /\ UNCHANGED <<cluster, caches, workload, fresh, worker, mishaps, history>>

-----------------------------------------------------------------------------
(* Reconcile *)

\* Worker w takes a key; the same workload may be in other workers' hands.
Take(w) == worker[w].pc = "idle" /\ queued /\ queued' = FALSE

Step(w, pc, copy) ==
    worker' = [worker EXCEPT ![w] = [pc |-> pc, copy |-> copy, number |-> 0]]

\* An error: the key goes back to the queue.
Retry(w) ==
    /\ worker' = [worker EXCEPT ![w] = Idle]
    /\ queued' = TRUE /\ fresh' = fresh \ {w}

\* The worker's copy is the cache's, as fresh as the cache is.
CopyFromCache(w) ==
    fresh' = IF Cache \in fresh THEN fresh \cup {w} ELSE fresh \ {w}

\* initChangeWorkloadHandle
InitChangeWorkloadHandle(w) ==
    /\ Take(w) /\ workloadCache.status = "Init"
    /\ Step(w, "update", [workloadCache EXCEPT !.status = "Running"])
    /\ CopyFromCache(w)
    /\ UNCHANGED <<cluster, caches, workload, mishaps, history>>

\* ensureInitChangePodCreatedIfNecessary: a running workload waits for a full batch,
\* the others take what there is; an Init ChangePod is waited for. At the bound
\* MaxChangePods the model creates no more.
InitChangePodExists ==
    \E i \in Numbers : changePodCache[i].status = "Init"

\* Mutant: the first number is skipped.
NextNumberSkips == Cardinality(Existing(changePodCache)) + 2

\* A new ChangePod is named after the number of those the cache lists.
NextNumber == Cardinality(Existing(changePodCache)) + 1

\* Mutant: an Init ChangePod is not waited for.
NecessaryAnyway ==
    /\ NextNumber \in Numbers
    /\ IF workloadCache.status = "Running" THEN Cardinality(Preparing) >= CountThreshold
                                           ELSE Preparing # {}

\* Mutant: the threshold has to be exceeded.
NecessaryAbove ==
    /\ ~InitChangePodExists
    /\ NextNumber \in Numbers
    /\ IF workloadCache.status = "Running" THEN Cardinality(Preparing) > CountThreshold
                                           ELSE Preparing # {}

Necessary ==
    /\ ~InitChangePodExists
    /\ NextNumber \in Numbers
    /\ IF workloadCache.status = "Running" THEN Cardinality(Preparing) >= CountThreshold
                                           ELSE Preparing # {}

EnsureInitChangePod(w) ==
    /\ Take(w) /\ workloadCache.status # "Init"
    /\ IF Necessary
         THEN worker' = [worker EXCEPT ![w] = [pc |-> "create",
                                               copy |-> workloadCache, number |-> NextNumber]]
         ELSE Step(w, "sync", workloadCache)
    /\ CopyFromCache(w)
    /\ UNCHANGED <<cluster, caches, workload, mishaps, history>>

\* Create fails when the name is taken.
CreateNewChangePod(w) ==
    LET number == worker[w].number
    IN /\ worker[w].pc = "create"
       /\ IF changePod[number].status = "none"
            THEN /\ changePod' = [changePod EXCEPT ![number] = NewChangePod]
                 /\ Step(w, "patch", worker[w].copy)
                 /\ UNCHANGED <<fresh, queued>>
            ELSE Retry(w) /\ UNCHANGED changePod
       /\ UNCHANGED <<pod, rec, deployment, caches, workload, mishaps, history>>

\* The patch makes every other copy stale and returns the stored workload into the
\* worker's; one that fails is only logged.
PatchWorkloadEntryTime(w) ==
    /\ worker[w].pc = "patch"
    /\ \/ Step(w, "sync", workload) /\ fresh' = {w} /\ UNCHANGED mishaps
       \/ /\ mishaps < MaxMishaps /\ mishaps' = mishaps + 1
          /\ Step(w, "sync", worker[w].copy) /\ UNCHANGED fresh
    /\ UNCHANGED <<cluster, caches, workload, queued, history>>

\* syncChangeWorkloadStatus: pods of done ChangePods that still exist.
PodsOf(outcome) ==
    {p \in Pods : podCache[p] # "gone" /\
        \E i \in Numbers : /\ changePodCache[i].status = "ExecuteDone"
                           /\ changePodCache[i].outcome = outcome
                           /\ p \in changePodCache[i].batch}

SyncChangeWorkloadStatus(w) ==
    LET copy == worker[w].copy
        pass == PodsOf("pass")
        fail == PodsOf("fail")
    IN /\ worker[w].pc = "sync"
       /\ IF ~AnyDone \/ (pass = copy.pass /\ fail = copy.fail)
            THEN worker' = [worker EXCEPT ![w] = Idle] /\ fresh' = fresh \ {w}
            ELSE Step(w, "label", [copy EXCEPT !.pass = pass, !.fail = fail])
                 /\ UNCHANGED fresh
       /\ UNCHANGED <<cluster, caches, workload, queued, mishaps, history>>

\* validateChangeWorkloadSuccessOrSuspend, up to the patch of the deployment's labels.
FinishedPods == {p \in Pods : podCache[p] \in Published}

\* Mutant: a status the event filter drops.
VerdictFailed(copy) == IF copy.fail # {} THEN "Failed" ELSE copy.status

\* Mutant: the pods that passed are not counted.
VerdictAllFinished(copy) ==
    IF copy.fail # {} THEN "Suspend"
    ELSE IF Cardinality(FinishedPods) >= Replicas THEN "Success" ELSE copy.status

\* Mutant: more pods than replicas have to be finished.
VerdictMoreThanReplicas(copy) ==
    IF copy.fail # {} THEN "Suspend"
    ELSE IF Cardinality(FinishedPods) > Replicas /\ Cardinality(copy.pass) = Replicas
           THEN "Success"
           ELSE copy.status

Verdict(copy) ==
    IF copy.fail # {} THEN "Suspend"
    ELSE IF Cardinality(FinishedPods) >= Replicas /\ Cardinality(copy.pass) = Replicas
           THEN "Success"
           ELSE copy.status

\* Mutant: the labels stay as they are.
LabelNothing(suspend) == deployment

\* addOrRemoveDeploymentSuspendLabel: a merge patch of the difference between the copy
\* read and what is wanted, or no patch if the copy has the label as wanted.
AddOrRemoveDeploymentSuspendLabel(suspend) ==
    CASE suspend = deploymentCache.suspend -> deployment
      [] suspend /\ ~deploymentCache.suspend -> [deployment EXCEPT !.suspend = TRUE]
      [] ~suspend /\ deploymentCache.suspend ->
            [suspend |-> FALSE,
             ignored |-> deployment.ignored \/ ~deploymentCache.ignored,
             mark    |-> deployment.mark /\ ~deploymentCache.mark]

ValidateChangeWorkload(w) ==
    LET copy    == worker[w].copy
        suspend == copy.fail # {} /\ Blocking
        labels  == AddOrRemoveDeploymentSuspendLabel(suspend)
    IN /\ worker[w].pc = "label"
       /\ IF suspend # deploymentCache.suspend /\ Denied(labels)
            THEN Retry(w) /\ UNCHANGED <<deployment, stopped>>
            ELSE /\ deployment' = labels /\ stopped' = (stopped \/ labels.suspend)
                 /\ Step(w, "update", [copy EXCEPT !.status = Verdict(copy)])
                 /\ UNCHANGED <<queued, fresh>>
       /\ UNCHANGED <<pod, changePod, rec, caches, workload, mishaps, passed, discarded>>

\* Mutant: the status is written without the resourceVersion read.
UpdateWithoutVersion(w) ==
    /\ worker[w].pc = "update"
    /\ workload' = worker[w].copy /\ fresh' = {}
    /\ worker' = [worker EXCEPT ![w] = Idle]
    /\ UNCHANGED <<cluster, caches, queued, mishaps, history>>

\* updateWorkloadStatus: a conflict puts the key back in the queue.
UpdateWorkloadStatus(w) ==
    /\ worker[w].pc = "update"
    /\ IF w \in fresh
         THEN /\ workload' = worker[w].copy /\ fresh' = {}
              /\ worker' = [worker EXCEPT ![w] = Idle]
              /\ UNCHANGED queued
         ELSE Retry(w) /\ UNCHANGED workload
    /\ UNCHANGED <<cluster, caches, mishaps, history>>

\* A restart: the informers list again; create events wake the workload for itself
\* unless Init, for finished pods without a batch and for done ChangePods.
Crash ==
    /\ mishaps < MaxMishaps
    /\ mishaps' = mishaps + 1
    /\ worker' = [w \in Workers |-> Idle] /\ rec' = [i \in Numbers |-> AtRest]
    /\ podCache' = pod /\ changePodCache' = changePod
    /\ workloadCache' = workload /\ deploymentCache' = deployment
    /\ queued' = \/ workload.status # "Init"
                 \/ \E p \in Pods : pod[p] = "finished"
                 \/ \E i \in Numbers : changePod[i].status = "ExecuteDone"
    /\ fresh' = {Cache}
    /\ UNCHANGED <<pod, changePod, deployment, workload, history>>

-----------------------------------------------------------------------------
Work(w) ==
    \/ InitChangeWorkloadHandle(w) \/ EnsureInitChangePod(w)
    \/ CreateNewChangePod(w) \/ PatchWorkloadEntryTime(w)
    \/ SyncChangeWorkloadStatus(w) \/ ValidateChangeWorkload(w) \/ UpdateWorkloadStatus(w)

\* What the ChangePod controller does of itself.
ChangePodWork(i) ==
    \/ RecordBatch(i) \/ (\E p \in Pods : DefenseProcessedPod(i, p)) \/ StartBatch(i)
    \/ FindNoPod(i) \/ DeleteEmptyBatch(i) \/ FinishBatch(i)

ChangePodStep(i) ==
    \/ ChangePodWork(i)
    \/ \E p \in Pods : MarkDefensedPods(i, p)
    \/ BatchFault(i) \/ LateCallback(i)

Next ==
    \/ \E p \in Pods : PodPublished(p) \/ PodVanishes(p)
    \/ \E i \in Numbers : ChangePodStep(i)
    \/ PodEvent \/ ChangePodEvent \/ WorkloadEvent \/ DeploymentSync \/ Resync
    \/ DefenseProcessedDeployment
    \/ \E w \in Workers : Work(w)
    \/ Crash

Spec == Init /\ [][Next]_vars

\* Informers deliver and resync, workers take queued keys and finish what they started, and
\* the ChangePod controller works on the ChangePods it sees: a started one is done in the
\* end (ChangePod's StartedBatchFinishes), one in Init starts only if no call fails. A pod
\* that has been replaced is deleted in the end. Nothing is assumed of the other pods, of
\* faults, late callbacks, the deployment controller or restarts.
Fairness ==
    /\ \A p \in Mortal : WF_vars(Cardinality(Live) > Replicas /\ PodVanishes(p))
    /\ WF_vars(PodEvent) /\ WF_vars(ChangePodEvent) /\ WF_vars(WorkloadEvent) /\ WF_vars(DeploymentSync)
    /\ WF_vars(Resync)
    /\ \A i \in Numbers : WF_vars(ChangePodWork(i))
    /\ \A w \in Workers : WF_vars(Work(w))

FairSpec == Spec /\ Fairness

-----------------------------------------------------------------------------
(* Properties *)

TypeOK ==
    /\ {pod, podCache} \subseteq [Pods -> PodStates]
    /\ {changePod, changePodCache} \subseteq [Numbers -> ChangePods]
    /\ rec \in [Numbers -> Recs]
    /\ {workload, workloadCache} \subseteq Workloads
    /\ {deployment, deploymentCache} \subseteq Deployments
    /\ queued \in BOOLEAN /\ fresh \subseteq Holders
    /\ worker \in [Workers -> [pc : WorkerPcs, copy : Workloads, number : 0 .. MaxChangePods]]
    /\ mishaps \in Nat /\ passed \subseteq Pods /\ {stopped, discarded} \subseteq BOOLEAN

\* However many workers act on stale lists, a workload has at most one ChangePod that is
\* still to take its batch, because the names of two collide (createNewChangePod): unless
\* a started one was deleted as empty, which frees a name that was counted as taken.
AtMostOneInit ==
    ~discarded =>
        \A i, j \in Numbers :
            changePod[i].status = "Init" /\ changePod[j].status = "Init" => i = j

\* With the same exception ChangePods are numbered without a gap, so that counting them
\* names the next one; a gap would make the name computed the name of another one.
DenseNumbers ==
    ~discarded =>
        \A i \in Existing(changePod) : \A j \in 1 .. i : j \in Existing(changePod)

\* A workload succeeds only after as many pods as the deployment has replicas have each
\* been in a batch that was done and counted as passed, whatever late callbacks,
\* deletions and replacements have made of it since; a pod and its replacement are two.
SuccessIsEarned == workload.status = "Success" => Replicas <= Cardinality(passed)

\* The deployment is labelled before the workload says Suspend: no crash, stale read of
\* its labels or denial by the webhook leaves a suspended workload whose deployment was
\* never stopped. Whether it still is, nobody promises (FailureSuspends).
SuspendIsAnnounced == workload.status = "Suspend" /\ Blocking => stopped

Decided == {"Success", "Suspend"}

\* A decision is never taken back: no stale copy makes the workload run again.
DecisionIsFinal == [][workload.status \in Decided => workload'.status \in Decided]_vars

\* A pod is left for which the model has no ChangePod.
BoundReached == Existing(changePod) = Numbers /\ \E p \in Pods : pod[p] = "finished"

\* A ChangePod that was interrupted after its batch was written, and stays in Init.
Interrupted == \E i \in Numbers : changePod[i].status = "Init" /\ changePod[i].batch # {}

\* The number of ChangePods names one that exists, since another has been discarded.
NameTaken ==
    LET next == Cardinality(Existing(changePod)) + 1
    IN next \in Numbers /\ changePod[next].status # "none"

\* A pod labelled as inspected whose ChangePod has been discarded.
PodLost == \E p \in Pods : pod[p] = "defensed" /\ \A i \in Numbers : p \notin changePod[i].batch

\* Every published pod is eventually taken into a batch, whatever events are filtered and
\* whatever is deleted: unless a ChangePod is interrupted for good, or a name is taken for
\* good, there is no other way to starve.
PublishedPodsBatched ==
    \/ <>[](Interrupted \/ NameTaken)
    \/ \A p \in Pods : pod[p] = "finished" ~> (pod[p] # "finished" \/ BoundReached)

\* Once all replicas are published the workload reaches a decision, whatever callbacks
\* come late and patches are denied, unless it loses one of them again, or for one of
\* the reasons above, or because a pod is never inspected.
EventuallyDecided ==
    \/ <>[](Interrupted \/ NameTaken \/ PodLost)
    \/ Cardinality(Live) = Replicas ~>
           \/ workload.status \in Decided
           \/ BoundReached \/ Cardinality(Live) < Replicas

-----------------------------------------------------------------------------
(* What the safety properties rest on: with them, it is inductive *)

Started == {"Started", "ExecuteDone"}

\* Every ChangePod but the last one has started.
InSequence(objects) ==
    \A i, j \in Numbers :
        i < j /\ objects[j].status # "none" => objects[i].status \in Started

\* As long as no started ChangePod is discarded: what the cache shows started is, and a
\* worker about to create one has seen all before it started.
NumbersInSequence ==
    ~discarded =>
        /\ InSequence(changePod) /\ InSequence(changePodCache)
        /\ \A i \in Numbers :
              changePodCache[i].status \in Started => changePod[i].status \in Started
        /\ \A w \in Workers : worker[w].pc = "create" =>
              \A i \in Numbers : i < worker[w].number => changePod[i].status \in Started

\* A worker about to create a ChangePod has a number for it, and a reconciler that is
\* labelling has one whose batch is written and which is still in Init.
PendingWork ==
    /\ \A w \in Workers : worker[w].pc = "create" => worker[w].number \in Numbers
    /\ \A i \in Numbers : rec[i].pc = "fill" => changePod[i].status = "Init"

\* A copy that has the workload's present version knows if it is decided.
FreshCopiesAgree ==
    /\ Cache \in fresh => workloadCache = workload
    /\ \A w \in Workers :
          w \in fresh /\ worker[w].pc # "idle" /\ workload.status \in Decided =>
              worker[w].copy.status \in Decided

\* What makes a decision true, whoever holds it; nothing makes it false again.
Grounded(copy) ==
    /\ copy.status = "Success" => Replicas <= Cardinality(passed)
    /\ copy.status = "Suspend" /\ Blocking => stopped

\* The passes the stored and the cached ChangePods show.
PassesRecorded(objects) ==
    \A i \in Numbers :
        objects[i].status = "ExecuteDone" /\ objects[i].outcome = "pass" =>
            objects[i].batch \subseteq passed

DecisionsAreGrounded ==
    /\ PassesRecorded(changePod) /\ PassesRecorded(changePodCache)
    /\ Grounded(workload) /\ Grounded(workloadCache)
    /\ \A w \in Workers : /\ Grounded(worker[w].copy)
                          /\ worker[w].pc = "label" => worker[w].copy.pass \subseteq passed
    /\ deployment.suspend => stopped
    /\ deploymentCache.suspend => stopped

IInv == TypeOK /\ NumbersInSequence /\ PendingWork /\ FreshCopiesAgree /\ DecisionsAreGrounded

-----------------------------------------------------------------------------
(* Statements of the repository's comments that the code does not keep *)

Leftover == {p \in Pods : pod[p] = "finished"}

\* "the number of published that has not reached the threshold is used to generate
\* ChangePod": pods too few for a batch are batched all the same, after a while.
LeftoverPodsBatched ==
    Cardinality(Leftover) \in 1 .. CountThreshold - 1 ~> (Leftover = {} \/ BoundReached)

\* Nothing is in flight: every pod is inspected, seen and accounted for.
Quiet ==
    /\ ~queued /\ \A w \in Workers : worker[w].pc = "idle"
    /\ \A i \in Numbers : rec[i] = AtRest
    /\ podCache = pod /\ changePodCache = changePod
    /\ workloadCache = workload /\ deploymentCache = deployment
    /\ \A p \in Pods : pod[p] = "defensed"
    /\ \A i \in Existing(changePod) : changePod[i].status = "ExecuteDone"

\* "Suspend ... new release will be suspended": when all is quiet and failed pods are
\* recorded, the deployment carries the suspend label.
FailureSuspends ==
    Quiet /\ workload.fail # {} /\ Blocking => deployment.suspend
=============================================================================
