------------------------- MODULE ChangeWorkloadProofs -------------------------
(***************************************************************************)
(* Theorems about ChangeWorkload for any pods, workers, replicas, threshold *)
(* and bounds: the types, the numbering of ChangePods by workers that act   *)
(* on stale lists, and what a decision rests on and whether it stays.       *)
(***************************************************************************)
EXTENDS ChangeWorkload, FiniteSetTheorems, TLAPS

\* A record of the worker's, as Step makes it.
WorkerStates == [pc : WorkerPcs, copy : Workloads, number : 0 .. MaxChangePods]

\* A worker between two keys is in one of the states of a worker.
LEMMA IdleIsWorkerState == Idle \in WorkerStates
BY ChangeWorkloadAssumption DEF Idle, WorkerStates, WorkerPcs, Workloads, NewWorkload

-----------------------------------------------------------------------------
(* What the counting of ChangePods and of pods relies on *)

\* In a list without gaps, the numbers up to the count of its ChangePods are taken.
LEMMA CountedNumbersExist ==
    ASSUME NEW objects, InSequence(objects)
    PROVE  /\ Cardinality(Existing(objects)) \in Nat
           /\ \A i \in Numbers :
                 i <= Cardinality(Existing(objects)) => objects[i].status # "none"
<1> DEFINE E == Existing(objects)
<1>0. MaxChangePods \in Nat
    BY ChangeWorkloadAssumption
<1>1. IsFiniteSet(Numbers) /\ E \subseteq Numbers
    BY <1>0, FS_Interval DEF Numbers, Existing
<1>2. IsFiniteSet(E) /\ Cardinality(E) \in Nat
    BY <1>1, FS_Subset, FS_CardinalityType
<1>3. ASSUME NEW i \in Numbers, i <= Cardinality(E), objects[i].status = "none"
      PROVE  FALSE
    <2>1. \A j \in E : j < i
        BY <1>3, <1>0 DEF InSequence, Existing, Numbers, Started
    <2>2. E \subseteq 1 .. (i - 1)
        BY <2>1, <1>0 DEF Existing, Numbers
    <2>3. IsFiniteSet(1 .. (i - 1)) /\ Cardinality(1 .. (i - 1)) = i - 1
        BY <1>0, FS_Interval DEF Numbers
    <2>4. Cardinality(E) <= i - 1
        BY <2>2, <2>3, FS_Subset
    <2> QED
        BY <2>4, <1>2, <1>3, <1>0 DEF Numbers
<1> QED
    BY <1>2, <1>3

-----------------------------------------------------------------------------
(* Types *)

\* The first state is well typed.
LEMMA InitType == Init => TypeOK
<1> SUFFICES ASSUME Init PROVE TypeOK
    OBVIOUS
<1>1. worker \in [Workers -> WorkerStates]
    BY IdleIsWorkerState DEF Init
<1>2. rec \in [Numbers -> Recs]
    BY DEF Init, Recs, AtRest
<1>3. {deployment, deploymentCache} \subseteq Deployments
    BY DEF Init, Deployments
<1>4. {workload, workloadCache} \subseteq Workloads
    BY DEF Init, Workloads, NewWorkload
<1>5. {changePod, changePodCache} \subseteq [Numbers -> ChangePods]
    BY DEF Init, ChangePods, NoChangePod
<1>6. {pod, podCache} \subseteq [Pods -> PodStates]
    BY DEF Init, PodStates
<1>7. /\ queued \in BOOLEAN /\ fresh \subseteq Holders /\ mishaps \in Nat
      /\ passed \subseteq Pods /\ {stopped, discarded} \subseteq BOOLEAN
    BY DEF Init, Holders
<1> QED
    BY <1>1, <1>2, <1>3, <1>4, <1>5, <1>6, <1>7 DEF TypeOK, WorkerStates

\* A step of a ChangePod keeps the types of what it writes.
LEMMA ChangePodStepType ==
    ASSUME TypeOK, NEW i \in Numbers, ChangePodStep(i)
    PROVE  TypeOK'
<1>0. /\ pod \in [Pods -> PodStates] /\ changePod \in [Numbers -> ChangePods]
      /\ rec \in [Numbers -> Recs] /\ changePod[i] \in ChangePods /\ rec[i] \in Recs
      /\ mishaps \in Nat /\ passed \subseteq Pods /\ discarded \in BOOLEAN
    BY DEF TypeOK
<1>1. AtRest \in Recs /\ NoChangePod \in ChangePods /\ "defensed" \in PodStates
    BY DEF AtRest, Recs, NoChangePod, ChangePods, PodStates
<1>2. ASSUME UNCHANGED <<podCache, changePodCache, workload, workloadCache, deployment,
                         deploymentCache, queued, fresh, worker, stopped>>,
             pod' \in [Pods -> PodStates], changePod' \in [Numbers -> ChangePods],
             rec' \in [Numbers -> Recs], mishaps' \in Nat, passed' \subseteq Pods,
             discarded' \in BOOLEAN
      PROVE  TypeOK'
    BY <1>2 DEF TypeOK
<1>3. CASE RecordBatch(i)
    <2>1. PICK batch \in SUBSET Preparing :
              /\ changePod' = [changePod EXCEPT ![i] = [@ EXCEPT !.batch = batch]]
              /\ rec' = [rec EXCEPT ![i] = [pc |-> "fill", todo |-> batch]]
        BY <1>3 DEF RecordBatch
    <2>2. batch \in SUBSET Pods
        BY DEF Preparing
    <2>3. [changePod[i] EXCEPT !.batch = batch] \in ChangePods
        BY <1>0, <2>2 DEF ChangePods
    <2>4. [pc |-> "fill", todo |-> batch] \in Recs
        BY <2>2 DEF Recs
    <2>5. changePod' \in [Numbers -> ChangePods] /\ rec' \in [Numbers -> Recs]
        BY <1>0, <2>1, <2>3, <2>4
    <2> QED
        BY <1>0, <1>2, <1>3, <2>5 DEF RecordBatch, caches, history
<1>4. ASSUME NEW p \in Pods, DefenseProcessedPod(i, p)
      PROVE  TypeOK'
    <2>1. [rec[i] EXCEPT !.todo = @ \ {p}] \in Recs
        BY <1>0 DEF Recs
    <2>2. /\ pod' = pod \/ pod' = [pod EXCEPT ![p] = "defensed"]
          /\ \/ rec' = [rec EXCEPT ![i] = AtRest]
             \/ rec' = [rec EXCEPT ![i].todo = @ \ {p}]
        BY <1>4 DEF DefenseProcessedPod
    <2>3. pod' \in [Pods -> PodStates]
        BY <1>0, <1>1, <2>2
    <2>4. rec' \in [Numbers -> Recs]
        <3>1. CASE rec' = [rec EXCEPT ![i] = AtRest]
            BY <1>0, <1>1, <3>1
        <3>2. CASE rec' = [rec EXCEPT ![i].todo = @ \ {p}]
            BY <1>0, <3>2 DEF Recs
        <3> QED
            BY <2>2, <3>1, <3>2
    <2> QED
        BY <1>0, <1>2, <1>4, <2>3, <2>4 DEF DefenseProcessedPod, caches, history
<1>5. CASE StartBatch(i)
    <2>1. [changePod[i] EXCEPT !.status = "Started"] \in ChangePods
        BY <1>0 DEF ChangePods
    <2>2. changePod' \in [Numbers -> ChangePods] /\ rec' \in [Numbers -> Recs]
        BY <1>0, <1>1, <1>5, <2>1 DEF StartBatch
    <2> QED
        BY <1>0, <1>2, <1>5, <2>2 DEF StartBatch, caches, history
<1>6. CASE BatchFault(i)
    BY <1>0, <1>1, <1>2, <1>6 DEF BatchFault, caches, history
<1>7. ASSUME NEW p \in Pods, MarkDefensedPods(i, p)
      PROVE  TypeOK'
    BY <1>0, <1>1, <1>2, <1>7 DEF MarkDefensedPods, caches, history
<1>8. CASE FindNoPod(i)
    <2>1. [pc |-> "delete", todo |-> {}] \in Recs
        BY DEF Recs
    <2>2. rec' \in [Numbers -> Recs]
        BY <1>0, <1>8, <2>1 DEF FindNoPod
    <2> QED
        BY <1>0, <1>2, <1>8, <2>2 DEF FindNoPod, caches, history
<1>9. CASE DeleteEmptyBatch(i)
    BY <1>0, <1>1, <1>2, <1>9 DEF DeleteEmptyBatch, caches
<1>10. CASE FinishBatch(i)
    <2>1. PICK outcome \in {"pass", "fail"} :
              /\ changePod' = [changePod EXCEPT ![i] = [@ EXCEPT !.status = "ExecuteDone", !.outcome = outcome]]
              /\ passed' = IF outcome = "pass" THEN passed \cup changePod[i].batch ELSE passed
        BY <1>10 DEF FinishBatch
    <2>2. [changePod[i] EXCEPT !.status = "ExecuteDone", !.outcome = outcome] \in ChangePods
        BY <1>0 DEF ChangePods
    <2>3. changePod' \in [Numbers -> ChangePods]
        BY <1>0, <2>1, <2>2
    <2>4. passed' \subseteq Pods
        BY <1>0, <2>1 DEF ChangePods
    <2> QED
        BY <1>0, <1>2, <1>10, <2>3, <2>4 DEF FinishBatch, caches
<1>11. CASE LateCallback(i)
    <2>1. [changePod[i] EXCEPT !.status = "Started", !.outcome = "none"] \in ChangePods
        BY <1>0 DEF ChangePods
    <2>2. changePod' \in [Numbers -> ChangePods]
        BY <1>0, <1>11, <2>1 DEF LateCallback
    <2> QED
        BY <1>0, <1>2, <1>11, <2>2 DEF LateCallback, caches, history
<1> QED
    BY <1>3, <1>4, <1>5, <1>6, <1>7, <1>8, <1>9, <1>10, <1>11 DEF ChangePodStep, ChangePodWork

\* The pods, the caches and the deployment controller.
LEMMA ClusterType ==
    ASSUME TypeOK,
           \/ \E p \in Pods : PodPublished(p) \/ PodVanishes(p)
           \/ PodEvent \/ ChangePodEvent \/ WorkloadEvent \/ DeploymentSync \/ Resync
           \/ DefenseProcessedDeployment
    PROVE  TypeOK'
<1>1. ASSUME NEW p \in Pods, PodPublished(p) \/ PodVanishes(p)
      PROVE  TypeOK'
    <2>1. CASE PodPublished(p)
        BY <2>1 DEF PodPublished, TypeOK, PodStates, caches, history
    <2>2. CASE PodVanishes(p)
        BY <2>2 DEF PodVanishes, TypeOK, PodStates, caches, history
    <2> QED
        BY <1>1, <2>1, <2>2
<1>2. CASE PodEvent
    BY <1>2 DEF PodEvent, TypeOK, cluster, history
<1>3. CASE ChangePodEvent
    BY <1>3 DEF ChangePodEvent, TypeOK, cluster, history
<1>4. CASE WorkloadEvent
    BY <1>4 DEF WorkloadEvent, TypeOK, Holders, cluster, history
<1>5. CASE DeploymentSync
    BY <1>5 DEF DeploymentSync, TypeOK, cluster, history
<1>6. CASE Resync
    BY <1>6 DEF Resync, TypeOK, cluster, caches, history
<1>7. CASE DefenseProcessedDeployment
    <2>1. [deployment EXCEPT !.mark = TRUE, !.ignored = @ /\ ~deploymentCache.ignored] \in Deployments
        BY DEF TypeOK, Deployments
    <2>2. deployment' \in Deployments
        BY <1>7, <2>1 DEF DefenseProcessedDeployment
    <2> QED
        BY <1>7, <2>2 DEF DefenseProcessedDeployment, TypeOK, caches, history
<1> QED
    BY <1>1, <1>2, <1>3, <1>4, <1>5, <1>6, <1>7

\* What a worker that moves on does to its own record.
LEMMA StepType ==
    ASSUME TypeOK, NEW w \in Workers, NEW pc \in WorkerPcs, NEW copy \in Workloads,
           Step(w, pc, copy)
    PROVE  worker' \in [Workers -> WorkerStates]
BY ChangeWorkloadAssumption DEF TypeOK, Step, WorkerStates

\* Giving the key back keeps the types.
LEMMA RetryType ==
    ASSUME TypeOK, NEW w \in Workers, Retry(w)
    PROVE  worker' \in [Workers -> WorkerStates] /\ queued' \in BOOLEAN /\ fresh' \subseteq Holders
BY IdleIsWorkerState DEF TypeOK, Retry, WorkerStates

\* The labels that result from a patch are labels.
LEMMA LabelsType ==
    ASSUME TypeOK, NEW suspend \in BOOLEAN
    PROVE  AddOrRemoveDeploymentSuspendLabel(suspend) \in Deployments
<1>1. deployment \in Deployments /\ deploymentCache \in Deployments
    BY DEF TypeOK
<1>2. [deployment EXCEPT !.suspend = TRUE] \in Deployments
    BY <1>1 DEF Deployments
<1>3. [suspend |-> FALSE,
       ignored |-> deployment.ignored \/ ~deploymentCache.ignored,
       mark    |-> deployment.mark /\ ~deploymentCache.mark] \in Deployments
    BY <1>1 DEF Deployments
<1>4. deploymentCache.suspend \in BOOLEAN
    BY <1>1 DEF Deployments
<1> QED
    BY <1>1, <1>2, <1>3, <1>4 DEF AddOrRemoveDeploymentSuspendLabel

\* A step of a worker keeps the types.
LEMMA WorkType ==
    ASSUME TypeOK, NEW w \in Workers, Work(w)
    PROVE  TypeOK'
<1> USE DEF TypeOK
<1>0. /\ workloadCache \in Workloads /\ workload \in Workloads
      /\ worker[w].copy \in Workloads /\ worker[w].number \in 0 .. MaxChangePods
      /\ worker \in [Workers -> WorkerStates] /\ fresh \subseteq Holders /\ w \in Holders
      /\ MaxChangePods \in Nat
    BY ChangeWorkloadAssumption DEF WorkerStates, Holders
<1>1. CASE InitChangeWorkloadHandle(w)
    <2>1. [workloadCache EXCEPT !.status = "Running"] \in Workloads
        BY <1>0 DEF Workloads
    <2>2. worker' \in [Workers -> WorkerStates]
        BY <1>1, <2>1, StepType DEF InitChangeWorkloadHandle, WorkerPcs
    <2> QED
        BY <1>0, <1>1, <2>2
           DEF InitChangeWorkloadHandle, Take, CopyFromCache, WorkerStates, caches, cluster, history
<1>2. CASE EnsureInitChangePod(w)
    <2>1. worker' \in [Workers -> WorkerStates]
        <3>1. CASE Necessary
            <4>1. NextNumber \in 0 .. MaxChangePods
                BY <1>0, <3>1 DEF Necessary, Numbers
            <4>2. [pc |-> "create", copy |-> workloadCache, number |-> NextNumber] \in WorkerStates
                BY <1>0, <4>1 DEF WorkerStates, WorkerPcs
            <4> QED
                BY <1>0, <1>2, <3>1, <4>2 DEF EnsureInitChangePod
        <3>2. CASE ~Necessary
            BY <1>0, <1>2, <3>2, StepType DEF EnsureInitChangePod, WorkerPcs
        <3> QED
            BY <3>1, <3>2
    <2> QED
        BY <1>0, <1>2, <2>1
           DEF EnsureInitChangePod, Take, CopyFromCache, WorkerStates, caches, cluster, history
<1>3. CASE CreateNewChangePod(w)
    <2>1. /\ worker' \in [Workers -> WorkerStates] /\ queued' \in BOOLEAN /\ fresh' \subseteq Holders
        BY <1>0, <1>3, StepType, RetryType DEF CreateNewChangePod, WorkerPcs
    <2>2. NewChangePod \in ChangePods
        BY DEF ChangePods, NewChangePod, NoChangePod
    <2>3. changePod' \in [Numbers -> ChangePods]
        BY <1>3, <2>2 DEF CreateNewChangePod
    <2> QED
        BY <1>0, <1>3, <2>1, <2>3 DEF CreateNewChangePod, WorkerStates, caches, history
<1>4. CASE PatchWorkloadEntryTime(w)
    <2>1. worker' \in [Workers -> WorkerStates]
        BY <1>0, <1>4, StepType DEF PatchWorkloadEntryTime, WorkerPcs
    <2>2. fresh' \subseteq Holders /\ mishaps' \in Nat
        BY <1>0, <1>4 DEF PatchWorkloadEntryTime
    <2> QED
        BY <1>4, <2>1, <2>2 DEF PatchWorkloadEntryTime, WorkerStates, caches, cluster, history
<1>5. CASE SyncChangeWorkloadStatus(w)
    <2>1. worker' \in [Workers -> WorkerStates] /\ fresh' \subseteq Holders
        <3> DEFINE copy == [worker[w].copy EXCEPT !.pass = PodsOf("pass"), !.fail = PodsOf("fail")]
        <3>1. copy \in Workloads
            BY <1>0 DEF Workloads, PodsOf
        <3>2. \/ worker' = [worker EXCEPT ![w] = Idle] /\ fresh' = fresh \ {w}
              \/ Step(w, "label", copy) /\ UNCHANGED fresh
            BY <1>5 DEF SyncChangeWorkloadStatus
        <3> QED
            BY <1>0, <3>1, <3>2, IdleIsWorkerState, StepType DEF WorkerPcs
    <2> QED
        BY <1>5, <2>1 DEF SyncChangeWorkloadStatus, WorkerStates, caches, cluster, history
<1>6. CASE ValidateChangeWorkload(w)
    <2> DEFINE suspend == worker[w].copy.fail # {} /\ Blocking
               copy == [worker[w].copy EXCEPT !.status = Verdict(worker[w].copy)]
    <2>1. copy \in Workloads
        BY <1>0 DEF Workloads, Verdict
    <2>2. AddOrRemoveDeploymentSuspendLabel(suspend) \in Deployments
        BY LabelsType, ChangeWorkloadAssumption
    <2>3. \/ Retry(w) /\ UNCHANGED <<deployment, stopped>>
          \/ /\ deployment' = AddOrRemoveDeploymentSuspendLabel(suspend)
             /\ stopped' = (stopped \/ AddOrRemoveDeploymentSuspendLabel(suspend).suspend)
             /\ Step(w, "update", copy) /\ UNCHANGED <<queued, fresh>>
        BY <1>6 DEF ValidateChangeWorkload
    <2> HIDE DEF suspend, copy
    <2>4. worker' \in [Workers -> WorkerStates] /\ queued' \in BOOLEAN /\ fresh' \subseteq Holders
        BY <1>0, <2>1, <2>3, StepType, RetryType DEF WorkerPcs
    <2>5. deployment' \in Deployments /\ stopped' \in BOOLEAN
        BY <2>2, <2>3
    <2> QED
        BY <1>6, <2>4, <2>5 DEF ValidateChangeWorkload, WorkerStates, caches
<1>7. CASE UpdateWorkloadStatus(w)
    <2>1. /\ worker' \in [Workers -> WorkerStates] /\ queued' \in BOOLEAN
          /\ fresh' \subseteq Holders /\ workload' \in Workloads
        BY <1>0, <1>7, IdleIsWorkerState, RetryType DEF UpdateWorkloadStatus
    <2> QED
        BY <1>0, <1>7, <2>1 DEF UpdateWorkloadStatus, WorkerStates, caches, cluster, history
<1> QED
    BY <1>1, <1>2, <1>3, <1>4, <1>5, <1>6, <1>7 DEF Work

\* A restart keeps the types.
LEMMA CrashType ==
    ASSUME TypeOK, Crash
    PROVE  TypeOK'
<1>1. worker' \in [Workers -> WorkerStates] /\ rec' \in [Numbers -> Recs]
    BY IdleIsWorkerState DEF Crash, Recs, AtRest
<1> QED
    BY <1>1 DEF Crash, TypeOK, WorkerStates, Holders, history

\* Every step keeps the types.
LEMMA NextType ==
    ASSUME TypeOK, [Next]_vars
    PROVE  TypeOK'
<1>1. CASE UNCHANGED vars
    BY <1>1 DEF vars, TypeOK, cluster, caches, history
<1> QED
    BY <1>1, ChangePodStepType, ClusterType, WorkType, CrashType DEF Next

-----------------------------------------------------------------------------
(* The numbers of the ChangePods *)

\* What keeps the sequence: nothing is created or unseen, and what started stays started.
LEMMA SequenceKept ==
    ASSUME NumbersInSequence, ~discarded, changePodCache' = changePodCache,
           \A i \in Numbers : /\ changePod'[i].status # "none" => changePod[i].status # "none"
                              /\ changePod[i].status \in Started => changePod'[i].status \in Started,
           \A w \in Workers : worker'[w].pc = "create" =>
               worker[w].pc = "create" /\ worker'[w].number = worker[w].number
    PROVE  NumbersInSequence'
BY DEF NumbersInSequence, InSequence

\* A ChangePod only moves on, unless one that has started is discarded.
LEMMA ChangePodStepSequence ==
    ASSUME TypeOK, NumbersInSequence, PendingWork, NEW i \in Numbers, ChangePodStep(i)
    PROVE  NumbersInSequence'
<1> SUFFICES ASSUME ~discarded' PROVE NumbersInSequence'
    BY DEF NumbersInSequence
<1>0. changePod \in [Numbers -> ChangePods] /\ changePod[i] \in ChangePods
    BY DEF TypeOK
<1>1. ASSUME UNCHANGED <<changePodCache, worker>>, ~discarded,
             \A j \in Numbers \ {i} : changePod'[j] = changePod[j],
             changePod'[i].status # "none" => changePod[i].status # "none",
             changePod[i].status \in Started => changePod'[i].status \in Started
      PROVE  NumbersInSequence'
    BY <1>1, SequenceKept
<1>2. CASE RecordBatch(i)
    <2>1. PICK batch : changePod' = [changePod EXCEPT ![i] = [changePod[i] EXCEPT !.batch = batch]]
        BY <1>2 DEF RecordBatch
    <2>2. changePod'[i].status = changePod[i].status
        BY <1>0, <2>1 DEF ChangePods
    <2> QED
        BY <1>0, <1>1, <1>2, <2>1, <2>2 DEF RecordBatch, caches, history
<1>3. CASE StartBatch(i)
    <2>1. changePod[i].status = "Init"
        BY <1>3 DEF StartBatch, PendingWork
    <2>2. changePod'[i].status = "Started"
        BY <1>0, <1>3 DEF StartBatch, ChangePods
    <2> QED
        BY <1>0, <1>1, <1>3, <2>1, <2>2 DEF StartBatch, caches, history, Started
<1>4. CASE DeleteEmptyBatch(i)
    <2>1. changePod'[i] = NoChangePod /\ ~discarded /\ changePod[i].status \notin Started
        BY <1>0, <1>4 DEF DeleteEmptyBatch, Started, TypeOK
    <2> QED
        BY <1>0, <1>1, <1>4, <2>1 DEF DeleteEmptyBatch, NoChangePod, caches
<1>5. CASE FinishBatch(i)
    <2>1. PICK outcome : changePod' = [changePod EXCEPT
                  ![i] = [changePod[i] EXCEPT !.status = "ExecuteDone", !.outcome = outcome]]
        BY <1>5 DEF FinishBatch
    <2>2. changePod'[i].status = "ExecuteDone"
        BY <1>0, <2>1 DEF ChangePods
    <2> QED
        BY <1>0, <1>1, <1>5, <2>1, <2>2 DEF FinishBatch, caches, Started
<1>6. CASE LateCallback(i)
    <2>1. changePod'[i].status = "Started"
        BY <1>0, <1>6 DEF LateCallback, ChangePods
    <2> QED
        BY <1>0, <1>1, <1>6, <2>1 DEF LateCallback, caches, history, Started
<1>7. CASE UNCHANGED <<changePod, changePodCache, worker, discarded>>
    BY <1>1, <1>7
<1> QED
    BY <1>2, <1>3, <1>4, <1>5, <1>6, <1>7
       DEF ChangePodStep, ChangePodWork, DefenseProcessedPod, BatchFault, MarkDefensedPods,
           FindNoPod, caches, history

\* A worker counts a list that may be stale: all it counts has started.
LEMMA EnsureSequence ==
    ASSUME TypeOK, NumbersInSequence, NEW w \in Workers, EnsureInitChangePod(w)
    PROVE  NumbersInSequence'
<1> SUFFICES ASSUME ~discarded' PROVE NumbersInSequence'
    BY DEF NumbersInSequence
<1>0. /\ UNCHANGED <<changePod, changePodCache>> /\ ~discarded
      /\ worker \in [Workers -> [pc : WorkerPcs, copy : Workloads, number : 0 .. MaxChangePods]]
    BY DEF EnsureInitChangePod, caches, cluster, history, TypeOK
<1>1. CASE Necessary
    <2>1. worker' = [worker EXCEPT ![w] = [pc |-> "create", copy |-> workloadCache, number |-> NextNumber]]
        BY <1>1 DEF EnsureInitChangePod
    <2>2. ASSUME NEW i \in Numbers, i < NextNumber
          PROVE  changePod[i].status \in Started
        <3>1. /\ Cardinality(Existing(changePodCache)) \in Nat
              /\ i <= Cardinality(Existing(changePodCache)) => changePodCache[i].status # "none"
            BY <1>0, CountedNumbersExist DEF NumbersInSequence
        <3>2. changePodCache[i].status # "none"
            BY <2>2, <3>1 DEF NextNumber, Numbers
        <3>3. changePodCache[i].status \in Started
            BY <1>1, <3>2 DEF Necessary, InitChangePodExists, TypeOK, ChangePods, Started
        <3> QED
            BY <1>0, <3>3 DEF NumbersInSequence
    <2>3. \A v \in Workers : worker'[v].pc = "create" =>
              \A i \in Numbers : i < worker'[v].number => changePod[i].status \in Started
        BY <1>0, <2>1, <2>2 DEF NumbersInSequence
    <2> QED
        BY <1>0, <2>3 DEF NumbersInSequence, InSequence
<1>2. CASE ~Necessary
    BY <1>0, <1>2, SequenceKept DEF EnsureInitChangePod, Step
<1> QED
    BY <1>1, <1>2

\* The name is free only if the list was complete.
LEMMA CreateSequence ==
    ASSUME TypeOK, NumbersInSequence, PendingWork, NEW w \in Workers, CreateNewChangePod(w)
    PROVE  NumbersInSequence'
<1> SUFFICES ASSUME ~discarded' PROVE NumbersInSequence'
    BY DEF NumbersInSequence
<1> DEFINE n == worker[w].number
<1>0. /\ UNCHANGED changePodCache /\ ~discarded /\ n \in Numbers
      /\ \A i \in Numbers : i < n => changePod[i].status \in Started
      /\ changePod \in [Numbers -> ChangePods]
      /\ worker \in [Workers -> [pc : WorkerPcs, copy : Workloads, number : 0 .. MaxChangePods]]
    BY DEF CreateNewChangePod, caches, history, PendingWork, NumbersInSequence, TypeOK
<1>1. \A v \in Workers : worker'[v].pc = "create" =>
          worker[v].pc = "create" /\ worker'[v].number = worker[v].number
    BY <1>0 DEF CreateNewChangePod, Retry, Step, Idle
<1>2. CASE changePod[n].status = "none"
    <2>1. changePod' = [changePod EXCEPT ![n] = NewChangePod] /\ NewChangePod.status = "Init"
        BY <1>2 DEF CreateNewChangePod, NewChangePod, NoChangePod
    <2>2. ASSUME NEW j \in Numbers, changePod[j].status # "none"
          PROVE  j < n
        BY <1>0, <1>2, <2>2, ChangeWorkloadAssumption
           DEF NumbersInSequence, InSequence, Started, Numbers
    <2>3. \A i \in Numbers : changePod[i].status \in Started => changePod'[i] = changePod[i]
        BY <1>0, <1>2, <2>1 DEF Started
    <2>4. InSequence(changePod)'
        <3> SUFFICES ASSUME NEW i \in Numbers, NEW j \in Numbers, i < j,
                            changePod'[j].status # "none"
                     PROVE  changePod'[i].status \in Started
            BY DEF InSequence
        <3>1. CASE j = n
            BY <1>0, <2>3, <3>1
        <3>2. CASE j # n
            BY <1>0, <2>1, <2>3, <3>2 DEF NumbersInSequence, InSequence
        <3> QED
            BY <3>1, <3>2
    <2> HIDE DEF n
    <2> QED
        BY <1>0, <1>1, <2>3, <2>4 DEF NumbersInSequence, InSequence
<1>3. CASE changePod[n].status # "none"
    BY <1>0, <1>1, <1>3, SequenceKept DEF CreateNewChangePod
<1> QED
    BY <1>2, <1>3

\* Every step keeps the ChangePods in sequence, and the cache a past of theirs.
LEMMA NextSequence ==
    ASSUME TypeOK, NumbersInSequence, PendingWork, [Next]_vars
    PROVE  NumbersInSequence'
<1>0. worker \in [Workers -> [pc : WorkerPcs, copy : Workloads, number : 0 .. MaxChangePods]]
    BY DEF TypeOK
<1>1. CASE UNCHANGED <<changePod, changePodCache, worker, discarded>>
    BY <1>1, SequenceKept DEF NumbersInSequence
<1>2. CASE ChangePodEvent
    BY <1>2 DEF ChangePodEvent, NumbersInSequence, InSequence, cluster, history
<1>3. CASE Crash
    BY <1>3 DEF Crash, NumbersInSequence, InSequence, Idle, history
<1>4. ASSUME NEW w \in Workers, Work(w)
      PROVE  NumbersInSequence'
    <2>1. ASSUME UNCHANGED <<changePod, changePodCache, discarded>>,
                 NEW state, worker' = [worker EXCEPT ![w] = state], state.pc # "create"
          PROVE  NumbersInSequence'
        <3>1. \A v \in Workers : worker'[v].pc = "create" =>
                  worker[v].pc = "create" /\ worker'[v].number = worker[v].number
            BY <1>0, <2>1
        <3>2. CASE ~discarded
            BY <2>1, <3>1, <3>2, SequenceKept
        <3>3. CASE discarded
            BY <2>1, <3>3 DEF NumbersInSequence
        <3> QED
            BY <3>2, <3>3
    <2>2. CASE InitChangeWorkloadHandle(w)
        <3> DEFINE state == [pc |-> "update", number |-> 0,
                             copy |-> [workloadCache EXCEPT !.status = "Running"]]
        <3>1. /\ UNCHANGED <<changePod, changePodCache, discarded>>
              /\ worker' = [worker EXCEPT ![w] = state] /\ state.pc # "create"
            BY <2>2 DEF InitChangeWorkloadHandle, Step, caches, cluster, history
        <3> HIDE DEF state
        <3> QED
            BY <2>1, <3>1
    <2>3. CASE PatchWorkloadEntryTime(w)
        BY <2>1, <2>3 DEF PatchWorkloadEntryTime, Step, caches, cluster, history
    <2>4. CASE SyncChangeWorkloadStatus(w)
        BY <2>1, <2>4 DEF SyncChangeWorkloadStatus, Step, Idle, caches, cluster, history
    <2>5. CASE ValidateChangeWorkload(w)
        BY <2>1, <2>5 DEF ValidateChangeWorkload, Retry, Step, Idle, caches
    <2>6. CASE UpdateWorkloadStatus(w)
        BY <2>1, <2>6 DEF UpdateWorkloadStatus, Retry, Idle, caches, cluster, history
    <2> QED
        BY <1>4, <2>2, <2>3, <2>4, <2>5, <2>6, EnsureSequence, CreateSequence DEF Work
<1> QED
    BY <1>1, <1>2, <1>3, <1>4, ChangePodStepSequence
       DEF Next, vars, PodPublished, PodVanishes, PodEvent, WorkloadEvent, DeploymentSync, Resync,
           DefenseProcessedDeployment, caches, cluster, history

-----------------------------------------------------------------------------
(* What is about to be created and to be started *)

\* Every step keeps the pending numbers and batches as they should be.
LEMMA NextPending ==
    ASSUME TypeOK, PendingWork, [Next]_vars
    PROVE  PendingWork'
<1>0. /\ changePod \in [Numbers -> ChangePods] /\ rec \in [Numbers -> Recs]
      /\ worker \in [Workers -> [pc : WorkerPcs, copy : Workloads, number : 0 .. MaxChangePods]]
    BY DEF TypeOK
<1>1. CASE UNCHANGED <<changePod, rec, worker>>
    BY <1>1 DEF PendingWork
<1>2. CASE Crash
    BY <1>2 DEF Crash, PendingWork, Idle, AtRest
<1>3. ASSUME NEW i \in Numbers, ChangePodStep(i)
      PROVE  PendingWork'
    <2>0. changePod[i] \in ChangePods /\ rec[i] \in Recs
        BY <1>0
    <2>1. ASSUME UNCHANGED worker, \A j \in Numbers \ {i} : UNCHANGED <<changePod[j], rec[j]>>,
                 rec'[i].pc = "fill" => changePod'[i].status = "Init"
          PROVE  PendingWork'
        BY <2>1 DEF PendingWork
    <2>2. CASE RecordBatch(i)
        <3>1. PICK batch : /\ changePod' = [changePod EXCEPT ![i] = [changePod[i] EXCEPT !.batch = batch]]
                           /\ rec' = [rec EXCEPT ![i] = [pc |-> "fill", todo |-> batch]]
            BY <2>2 DEF RecordBatch
        <3>2. changePod'[i].status = "Init"
            BY <1>0, <2>0, <2>2, <3>1 DEF RecordBatch, ChangePods
        <3> QED
            BY <1>0, <2>1, <2>2, <3>1, <3>2 DEF RecordBatch
    <2>3. ASSUME NEW p \in Pods, DefenseProcessedPod(i, p)
          PROVE  PendingWork'
        <3>1. UNCHANGED <<changePod, worker>>
            BY <2>3 DEF DefenseProcessedPod
        <3>2. \/ rec' = [rec EXCEPT ![i] = AtRest]
              \/ rec' = [rec EXCEPT ![i].todo = @ \ {p}]
            BY <2>3 DEF DefenseProcessedPod
        <3>3. rec'[i].pc = "fill" => rec[i].pc = "fill"
            BY <1>0, <2>0, <3>2 DEF AtRest, Recs
        <3>4. \A j \in Numbers \ {i} : rec'[j] = rec[j]
            BY <1>0, <3>2
        <3> QED
            BY <2>1, <3>1, <3>3, <3>4 DEF PendingWork
    <2>4. CASE StartBatch(i)
        BY <1>0, <2>1, <2>4 DEF StartBatch, AtRest
    <2>5. CASE BatchFault(i)
        BY <1>0, <2>1, <2>5 DEF BatchFault, AtRest
    <2>6. ASSUME NEW p \in Pods, MarkDefensedPods(i, p)
          PROVE  PendingWork'
        BY <2>6, <1>1 DEF MarkDefensedPods
    <2>7. CASE FindNoPod(i)
        BY <1>0, <2>1, <2>7 DEF FindNoPod
    <2>8. CASE DeleteEmptyBatch(i)
        BY <1>0, <2>1, <2>8 DEF DeleteEmptyBatch, AtRest
    <2>9. CASE FinishBatch(i)
        BY <1>0, <2>1, <2>9 DEF FinishBatch, AtRest
    <2>10. CASE LateCallback(i)
        BY <1>0, <2>1, <2>10 DEF LateCallback, PendingWork
    <2> QED
        BY <1>3, <2>2, <2>3, <2>4, <2>5, <2>6, <2>7, <2>8, <2>9, <2>10 DEF ChangePodStep, ChangePodWork
<1>4. ASSUME NEW w \in Workers, Work(w)
      PROVE  PendingWork'
    <2>1. ASSUME UNCHANGED <<changePod, rec>>,
                 NEW state, worker' = [worker EXCEPT ![w] = state],
                 state.pc = "create" => state.number \in Numbers
          PROVE  PendingWork'
        BY <1>0, <2>1 DEF PendingWork
    <2>2. CASE InitChangeWorkloadHandle(w)
        BY <2>1, <2>2 DEF InitChangeWorkloadHandle, Step, cluster
    <2>3. CASE EnsureInitChangePod(w)
        BY <2>1, <2>3 DEF EnsureInitChangePod, Necessary, Step, cluster
    <2>4. CASE CreateNewChangePod(w)
        <3>1. UNCHANGED rec /\ worker[w].number \in Numbers
            BY <2>4 DEF CreateNewChangePod, PendingWork
        <3>2. \A v \in Workers : worker'[v].pc = "create" => worker'[v] = worker[v]
            BY <1>0, <2>4 DEF CreateNewChangePod, Retry, Step, Idle
        <3>3. \A i \in Numbers : changePod[i].status = "Init" => changePod'[i] = changePod[i]
            BY <1>0, <2>4, <3>1 DEF CreateNewChangePod
        <3> QED
            BY <3>1, <3>2, <3>3 DEF PendingWork
    <2>5. CASE PatchWorkloadEntryTime(w)
        BY <2>1, <2>5 DEF PatchWorkloadEntryTime, Step, cluster
    <2>6. CASE SyncChangeWorkloadStatus(w)
        BY <2>1, <2>6 DEF SyncChangeWorkloadStatus, Step, Idle, cluster
    <2>7. CASE ValidateChangeWorkload(w)
        BY <2>1, <2>7 DEF ValidateChangeWorkload, Retry, Step, Idle
    <2>8. CASE UpdateWorkloadStatus(w)
        BY <2>1, <2>8 DEF UpdateWorkloadStatus, Retry, Idle, cluster
    <2> QED
        BY <1>4, <2>2, <2>3, <2>4, <2>5, <2>6, <2>7, <2>8 DEF Work
<1> QED
    BY <1>1, <1>2, <1>3, <1>4
       DEF Next, vars, PodPublished, PodVanishes, PodEvent, ChangePodEvent, WorkloadEvent,
           DeploymentSync, Resync, DefenseProcessedDeployment, cluster

-----------------------------------------------------------------------------
(* Who has the present version *)

\* Every step keeps the holders of the present version in agreement with it.
LEMMA NextAgree ==
    ASSUME TypeOK, FreshCopiesAgree, [Next]_vars
    PROVE  FreshCopiesAgree'
<1>0. worker \in [Workers -> WorkerStates] /\ Cache \notin Workers
    BY ChangeWorkloadAssumption DEF TypeOK, WorkerStates, Cache
<1>1. CASE UNCHANGED <<workload, workloadCache, fresh, worker>>
    BY <1>1 DEF FreshCopiesAgree
<1>2. CASE WorkloadEvent
    BY <1>0, <1>2 DEF WorkloadEvent, FreshCopiesAgree
<1>3. CASE Crash
    BY <1>0, <1>3 DEF Crash, FreshCopiesAgree
<1>4. ASSUME NEW w \in Workers, Work(w)
      PROVE  FreshCopiesAgree'
    <2>1. ASSUME UNCHANGED <<workload, workloadCache>>, fresh' \subseteq fresh,
                 NEW state, worker' = [worker EXCEPT ![w] = state],
                 \/ w \notin fresh'
                 \/ worker[w].pc # "idle" /\ (worker[w].copy.status \in Decided => state.copy.status \in Decided)
          PROVE  FreshCopiesAgree'
        BY <1>0, <2>1 DEF FreshCopiesAgree
    <2>2. ASSUME UNCHANGED <<workload, workloadCache>>, Retry(w)
          PROVE  FreshCopiesAgree'
        BY <2>1, <2>2 DEF Retry
    <2>3. ASSUME UNCHANGED <<workload, workloadCache>>, CopyFromCache(w), NEW state,
                 worker' = [worker EXCEPT ![w] = state],
                 workloadCache.status \in Decided => state.copy.status \in Decided
          PROVE  FreshCopiesAgree'
        <3>1. \/ Cache \in fresh /\ fresh' = fresh \cup {w}
              \/ Cache \notin fresh /\ fresh' = fresh \ {w}
            BY <2>3 DEF CopyFromCache
        <3>2. CASE Cache \in fresh /\ fresh' = fresh \cup {w}
            BY <1>0, <2>3, <3>2 DEF FreshCopiesAgree
        <3>3. CASE Cache \notin fresh /\ fresh' = fresh \ {w}
            BY <1>0, <2>3, <3>3 DEF FreshCopiesAgree
        <3> QED
            BY <3>1, <3>2, <3>3
    <2>4. CASE InitChangeWorkloadHandle(w)
        BY <2>3, <2>4 DEF InitChangeWorkloadHandle, Step, Decided, caches
    <2>5. CASE EnsureInitChangePod(w)
        <3>1. CASE Necessary
            BY <2>3, <2>5, <3>1 DEF EnsureInitChangePod, caches
        <3>2. CASE ~Necessary
            BY <2>3, <2>5, <3>2 DEF EnsureInitChangePod, Step, caches
        <3> QED
            BY <3>1, <3>2
    <2>6. CASE CreateNewChangePod(w)
        <3>1. UNCHANGED <<workload, workloadCache>> /\ worker[w].pc = "create"
            BY <2>6 DEF CreateNewChangePod, caches
        <3>2. \/ Retry(w)
              \/ UNCHANGED fresh /\ Step(w, "patch", worker[w].copy)
            BY <2>6 DEF CreateNewChangePod
        <3> QED
            BY <2>1, <2>2, <3>1, <3>2 DEF Step
    <2>7. CASE PatchWorkloadEntryTime(w)
        <3>1. UNCHANGED <<workload, workloadCache>> /\ worker[w].pc = "patch"
            BY <2>7 DEF PatchWorkloadEntryTime, caches
        <3>2. CASE fresh' = {w} /\ Step(w, "sync", workload)
            BY <1>0, <3>1, <3>2 DEF Step, FreshCopiesAgree
        <3>3. CASE UNCHANGED fresh /\ Step(w, "sync", worker[w].copy)
            BY <2>1, <3>1, <3>3 DEF Step
        <3> QED
            BY <2>7, <3>2, <3>3 DEF PatchWorkloadEntryTime
    <2>8. CASE SyncChangeWorkloadStatus(w)
        <3> DEFINE copy == [worker[w].copy EXCEPT !.pass = PodsOf("pass"), !.fail = PodsOf("fail")]
        <3>1. UNCHANGED <<workload, workloadCache>> /\ worker[w].pc = "sync"
            BY <2>8 DEF SyncChangeWorkloadStatus, caches
        <3>2. \/ worker' = [worker EXCEPT ![w] = Idle] /\ fresh' = fresh \ {w}
              \/ UNCHANGED fresh /\ worker' = [worker EXCEPT ![w] = [pc |-> "label", copy |-> copy, number |-> 0]]
            BY <2>8 DEF SyncChangeWorkloadStatus, Step
        <3>3. copy.status = worker[w].copy.status
            BY <1>0 DEF WorkerStates, Workloads
        <3> HIDE DEF copy
        <3> QED
            BY <2>1, <3>1, <3>2, <3>3
    <2>9. CASE ValidateChangeWorkload(w)
        <3> DEFINE copy == [worker[w].copy EXCEPT !.status = Verdict(worker[w].copy)]
        <3>1. UNCHANGED <<workload, workloadCache>> /\ worker[w].pc = "label"
            BY <2>9 DEF ValidateChangeWorkload, caches
        <3>2. \/ Retry(w)
              \/ UNCHANGED fresh /\ worker' = [worker EXCEPT ![w] = [pc |-> "update", copy |-> copy, number |-> 0]]
            BY <2>9 DEF ValidateChangeWorkload, Step
        <3>3. worker[w].copy.status \in Decided => copy.status \in Decided
            BY <1>0 DEF WorkerStates, Workloads, Verdict, Decided
        <3> HIDE DEF copy
        <3> QED
            BY <2>1, <2>2, <3>1, <3>2, <3>3
    <2>10. CASE UpdateWorkloadStatus(w)
        <3>1. CASE w \in fresh
            BY <1>0, <2>10, <3>1 DEF UpdateWorkloadStatus, FreshCopiesAgree, caches
        <3>2. CASE w \notin fresh
            BY <2>2, <2>10, <3>2 DEF UpdateWorkloadStatus, caches
        <3> QED
            BY <3>1, <3>2
    <2> QED
        BY <1>4, <2>4, <2>5, <2>6, <2>7, <2>8, <2>9, <2>10 DEF Work
<1>5. ASSUME NEW i \in Numbers, ChangePodStep(i)
      PROVE  UNCHANGED <<workload, workloadCache, fresh, worker>>
    BY <1>5 DEF ChangePodStep, ChangePodWork, RecordBatch, DefenseProcessedPod, StartBatch, BatchFault,
                MarkDefensedPods, FindNoPod, DeleteEmptyBatch, FinishBatch, LateCallback, caches
<1> QED
    BY <1>1, <1>2, <1>3, <1>4, <1>5
       DEF Next, vars, PodPublished, PodVanishes, PodEvent, ChangePodEvent, DeploymentSync, Resync,
           DefenseProcessedDeployment, caches

-----------------------------------------------------------------------------
(* What a decision rests on *)

\* A set of passed pods has no more pods than have passed.
LEMMA PassedPodsCount ==
    ASSUME TypeOK, NEW pass \in SUBSET passed
    PROVE  /\ Cardinality(passed) \in Nat /\ Cardinality(pass) \in Nat
           /\ Cardinality(pass) <= Cardinality(passed)
<1>1. IsFiniteSet(passed)
    BY ChangeWorkloadAssumption, FS_Subset DEF TypeOK
<1> QED
    BY <1>1, FS_Subset, FS_CardinalityType

\* No step takes a passed pod or the announcement back.
LEMMA HistoryGrows ==
    ASSUME TypeOK, [Next]_vars
    PROVE  /\ passed \subseteq passed' /\ (stopped => stopped')
           /\ Cardinality(passed) \in Nat /\ Cardinality(passed') \in Nat
           /\ Cardinality(passed) <= Cardinality(passed')
<1>1. CASE UNCHANGED <<passed, stopped>>
    BY <1>1, PassedPodsCount
<1>2. passed' \in SUBSET Pods /\ TypeOK'
    BY NextType DEF TypeOK
<1>3. IsFiniteSet(passed')
    BY <1>2, ChangeWorkloadAssumption, FS_Subset
<1>4. ASSUME passed \subseteq passed'
      PROVE  /\ Cardinality(passed) \in Nat /\ Cardinality(passed') \in Nat
             /\ Cardinality(passed) <= Cardinality(passed')
    BY <1>3, <1>4, FS_Subset, FS_CardinalityType
<1>5. ASSUME NEW i \in Numbers, ChangePodStep(i)
      PROVE  passed \subseteq passed' /\ UNCHANGED stopped
    <2>1. CASE FinishBatch(i)
        BY <2>1 DEF FinishBatch
    <2> QED
        BY <1>5, <2>1 DEF ChangePodStep, ChangePodWork, RecordBatch, DefenseProcessedPod, StartBatch, BatchFault,
                MarkDefensedPods, FindNoPod, DeleteEmptyBatch, LateCallback, history
<1>6. ASSUME NEW w \in Workers, Work(w)
      PROVE  UNCHANGED passed /\ (stopped => stopped')
    <2>1. CASE ValidateChangeWorkload(w)
        BY <2>1 DEF ValidateChangeWorkload
    <2> QED
        BY <1>6, <2>1 DEF Work, InitChangeWorkloadHandle, EnsureInitChangePod, CreateNewChangePod,
                PatchWorkloadEntryTime, SyncChangeWorkloadStatus, UpdateWorkloadStatus, history
<1>7. CASE UNCHANGED history
    BY <1>1, <1>7 DEF history
<1> QED
    BY <1>4, <1>5, <1>6, <1>7
       DEF Next, vars, PodPublished, PodVanishes, PodEvent, ChangePodEvent, WorkloadEvent,
           DeploymentSync, Resync, DefenseProcessedDeployment, Crash

\* Every step keeps the passes of the stored and of the cached ChangePods recorded.
LEMMA NextPasses ==
    ASSUME TypeOK, PassesRecorded(changePod), PassesRecorded(changePodCache), [Next]_vars
    PROVE  PassesRecorded(changePod)' /\ PassesRecorded(changePodCache)'
<1>0. passed \subseteq passed' /\ changePod \in [Numbers -> ChangePods]
    BY HistoryGrows DEF TypeOK
<1>1. CASE UNCHANGED <<changePod, changePodCache>>
    BY <1>0, <1>1 DEF PassesRecorded
<1>2. CASE changePodCache' = changePod /\ UNCHANGED changePod
    BY <1>0, <1>2 DEF PassesRecorded
<1>3. ASSUME UNCHANGED changePodCache, NEW i \in Numbers, NEW object,
             changePod' = [changePod EXCEPT ![i] = object],
             object.status = "ExecuteDone" /\ object.outcome = "pass" => object.batch \subseteq passed'
      PROVE  PassesRecorded(changePod)' /\ PassesRecorded(changePodCache)'
    BY <1>0, <1>3 DEF PassesRecorded
<1>4. ASSUME NEW i \in Numbers, ChangePodStep(i)
      PROVE  PassesRecorded(changePod)' /\ PassesRecorded(changePodCache)'
    <2>0. changePod[i] \in ChangePods
        BY <1>0
    <2>1. CASE RecordBatch(i)
        <3>1. PICK batch : changePod' = [changePod EXCEPT ![i] = [changePod[i] EXCEPT !.batch = batch]]
            BY <2>1 DEF RecordBatch
        <3>2. [changePod[i] EXCEPT !.batch = batch].status = "Init"
            BY <2>0, <2>1 DEF RecordBatch, ChangePods
        <3> QED
            BY <1>3, <2>1, <3>1, <3>2 DEF RecordBatch, caches
    <2>2. CASE StartBatch(i)
        <3>1. [changePod[i] EXCEPT !.status = "Started"].status = "Started"
            BY <2>0 DEF ChangePods
        <3> QED
            BY <1>3, <2>2, <3>1 DEF StartBatch, caches
    <2>3. CASE DeleteEmptyBatch(i)
        BY <1>3, <2>3 DEF DeleteEmptyBatch, NoChangePod, caches
    <2>4. CASE FinishBatch(i)
        <3>1. PICK outcome \in {"pass", "fail"} :
                  /\ changePod' = [changePod EXCEPT
                        ![i] = [changePod[i] EXCEPT !.status = "ExecuteDone", !.outcome = outcome]]
                  /\ passed' = IF outcome = "pass" THEN passed \cup changePod[i].batch ELSE passed
            BY <2>4 DEF FinishBatch
        <3> DEFINE object == [changePod[i] EXCEPT !.status = "ExecuteDone", !.outcome = outcome]
        <3>2. object.outcome = outcome /\ object.batch = changePod[i].batch
            BY <2>0 DEF ChangePods
        <3>3. object.outcome = "pass" => object.batch \subseteq passed'
            BY <3>1, <3>2
        <3> HIDE DEF object
        <3>4. changePod' = [changePod EXCEPT ![i] = object]
            BY <3>1 DEF object
        <3> QED
            BY <1>3, <2>4, <3>3, <3>4 DEF FinishBatch, caches
    <2>5. CASE LateCallback(i)
        <3>1. [changePod[i] EXCEPT !.status = "Started", !.outcome = "none"].status = "Started"
            BY <2>0 DEF ChangePods
        <3> QED
            BY <1>3, <2>5, <3>1 DEF LateCallback, caches
    <2> QED
        BY <1>1, <1>4, <2>1, <2>2, <2>3, <2>4, <2>5
           DEF ChangePodStep, ChangePodWork, DefenseProcessedPod, BatchFault, MarkDefensedPods,
               FindNoPod, caches
<1>5. ASSUME NEW w \in Workers, Work(w)
      PROVE  PassesRecorded(changePod)' /\ PassesRecorded(changePodCache)'
    <2>1. CASE CreateNewChangePod(w)
        <3>1. UNCHANGED changePodCache
            BY <2>1 DEF CreateNewChangePod, caches
        <3>2. \/ UNCHANGED changePod
              \/ changePod' = [changePod EXCEPT ![worker[w].number] = NewChangePod]
            BY <2>1 DEF CreateNewChangePod
        <3> QED
            BY <1>0, <1>1, <3>1, <3>2 DEF PassesRecorded, NewChangePod, NoChangePod
    <2> QED
        BY <1>1, <1>5, <2>1
           DEF Work, InitChangeWorkloadHandle, EnsureInitChangePod, PatchWorkloadEntryTime,
               SyncChangeWorkloadStatus, ValidateChangeWorkload, UpdateWorkloadStatus, caches, cluster
<1> QED
    BY <1>1, <1>2, <1>4, <1>5
       DEF Next, vars, PodPublished, PodVanishes, PodEvent, ChangePodEvent, WorkloadEvent,
           DeploymentSync, Resync, DefenseProcessedDeployment, Crash, caches, cluster

\* Every step keeps a suspend label, stored or cached, a trace of the announcement.
LEMMA NextLabels ==
    ASSUME TypeOK, deployment.suspend => stopped, deploymentCache.suspend => stopped, [Next]_vars
    PROVE  (deployment.suspend => stopped)' /\ (deploymentCache.suspend => stopped)'
<1>0. stopped => stopped'
    BY HistoryGrows
<1>1. CASE UNCHANGED <<deployment, deploymentCache>>
    BY <1>0, <1>1
<1>2. CASE deploymentCache' = deployment /\ UNCHANGED deployment
    BY <1>0, <1>2
<1>3. CASE DefenseProcessedDeployment
    <2>1. UNCHANGED deploymentCache
        BY <1>3 DEF DefenseProcessedDeployment, caches
    <2>2. deployment' = [deployment EXCEPT !.mark = TRUE, !.ignored = @ /\ ~deploymentCache.ignored]
        BY <1>3 DEF DefenseProcessedDeployment
    <2>3. deployment'.suspend = deployment.suspend
        BY <2>2 DEF TypeOK, Deployments
    <2> QED
        BY <1>0, <2>1, <2>3
<1>4. ASSUME NEW w \in Workers, Work(w)
      PROVE  (deployment.suspend => stopped)' /\ (deploymentCache.suspend => stopped)'
    <2>1. CASE ValidateChangeWorkload(w)
        <3> DEFINE suspend == worker[w].copy.fail # {} /\ Blocking
                   labels  == AddOrRemoveDeploymentSuspendLabel(suspend)
        <3>1. \/ UNCHANGED <<deployment, stopped>>
              \/ deployment' = labels /\ stopped' = (stopped \/ labels.suspend)
            BY <2>1 DEF ValidateChangeWorkload
        <3>2. UNCHANGED deploymentCache
            BY <2>1 DEF ValidateChangeWorkload, caches
        <3> HIDE DEF labels
        <3>3. deployment'.suspend => stopped'
            BY <3>1
        <3> QED
            BY <1>0, <3>2, <3>3
    <2> QED
        BY <1>1, <1>4, <2>1
           DEF Work, InitChangeWorkloadHandle, EnsureInitChangePod, CreateNewChangePod,
               PatchWorkloadEntryTime, SyncChangeWorkloadStatus, UpdateWorkloadStatus, caches, cluster
<1>5. ASSUME NEW i \in Numbers, ChangePodStep(i)
      PROVE  UNCHANGED <<deployment, deploymentCache>>
    BY <1>5 DEF ChangePodStep, ChangePodWork, RecordBatch, DefenseProcessedPod, StartBatch, BatchFault,
                MarkDefensedPods, FindNoPod, DeleteEmptyBatch, FinishBatch, LateCallback, caches
<1> QED
    BY <1>1, <1>2, <1>3, <1>4, <1>5
       DEF Next, vars, PodPublished, PodVanishes, PodEvent, ChangePodEvent, WorkloadEvent,
           DeploymentSync, Resync, Crash, caches, cluster

\* The verdict rests on what the copy lists, and the label is set before it is held.
LEMMA VerdictGrounded ==
    ASSUME TypeOK, deploymentCache.suspend => stopped, NEW w \in Workers,
           Grounded(worker[w].copy), worker[w].copy.pass \subseteq passed,
           ValidateChangeWorkload(w), ~Retry(w)
    PROVE  /\ Verdict(worker[w].copy) = "Success" => Replicas <= Cardinality(passed)
           /\ Verdict(worker[w].copy) = "Suspend" /\ Blocking => stopped'
<1> DEFINE copy    == worker[w].copy
           suspend == copy.fail # {} /\ Blocking
           labels  == AddOrRemoveDeploymentSuspendLabel(suspend)
<1>1. stopped' = (stopped \/ labels.suspend)
    BY DEF ValidateChangeWorkload
<1>2. Verdict(copy) = "Success" => Replicas <= Cardinality(passed)
    <2>1. CASE copy.fail = {} /\ Cardinality(copy.pass) = Replicas
        BY <2>1, PassedPodsCount
    <2>2. CASE ~(copy.fail = {} /\ Cardinality(copy.pass) = Replicas)
        BY <2>2 DEF Verdict, Grounded
    <2> QED
        BY <2>1, <2>2
<1>3. CASE copy.fail = {}
    <2>1. Verdict(copy) = "Suspend" => copy.status = "Suspend"
        BY <1>3 DEF Verdict
    <2> QED
        BY <1>1, <1>2, <2>1 DEF Grounded
<1>4. CASE copy.fail # {} /\ Blocking
    <2>1. deploymentCache.suspend \in BOOLEAN /\ deployment \in Deployments
        BY DEF TypeOK, Deployments
    <2>2. CASE deploymentCache.suspend
        BY <1>1, <1>2, <2>2
    <2>3. CASE ~deploymentCache.suspend
        <3>1. labels = [deployment EXCEPT !.suspend = TRUE]
            BY <1>4, <2>1, <2>3 DEF AddOrRemoveDeploymentSuspendLabel
        <3>2. labels.suspend
            BY <2>1, <3>1 DEF Deployments
        <3> QED
            BY <1>1, <1>2, <3>2
    <2> QED
        BY <2>2, <2>3
<1> QED
    BY <1>2, <1>3, <1>4

\* The pods listed as passed have passed.
LEMMA ListedPodsPassed ==
    ASSUME PassesRecorded(changePodCache)
    PROVE  PodsOf("pass") \subseteq passed
BY DEF PodsOf, PassesRecorded

\* Every step keeps what decisions rest on, for whoever holds one.
LEMMA NextGrounded ==
    ASSUME TypeOK, DecisionsAreGrounded, [Next]_vars
    PROVE  DecisionsAreGrounded'
<1> DEFINE Holds(status) ==
        /\ status = "Success" => Replicas <= Cardinality(passed)
        /\ status = "Suspend" /\ Blocking => stopped
<1> DEFINE WorkerHolds(v) ==
        /\ Holds(worker[v].copy.status)
        /\ worker[v].pc = "label" => worker[v].copy.pass \subseteq passed
<1> DEFINE Held ==
        /\ Holds(workload.status) /\ Holds(workloadCache.status)
        /\ \A v \in Workers : WorkerHolds(v)
<1>0. /\ Held /\ PassesRecorded(changePodCache) /\ (deploymentCache.suspend => stopped)
      /\ Held' => DecisionsAreGrounded'
    BY NextPasses, NextLabels DEF DecisionsAreGrounded, Grounded
<1>1. /\ Cardinality(passed) \in Nat /\ Cardinality(passed') \in Nat
      /\ Cardinality(passed) <= Cardinality(passed')
      /\ passed \subseteq passed' /\ (stopped => stopped')
    BY HistoryGrows
<1>2. /\ Replicas \in Nat /\ worker \in [Workers -> WorkerStates]
      /\ workload \in Workloads /\ workloadCache \in Workloads
    BY ChangeWorkloadAssumption DEF TypeOK, WorkerStates
<1> SUFFICES Held'
    BY <1>0
<1>3. CASE UNCHANGED <<workload, workloadCache, worker>>
    BY <1>0, <1>1, <1>2, <1>3
<1>4. CASE WorkloadEvent
    BY <1>0, <1>1, <1>2, <1>4 DEF WorkloadEvent
<1>5. CASE Crash
    BY <1>0, <1>1, <1>2, <1>5 DEF Crash, Idle, NewWorkload
<1>6. ASSUME NEW w \in Workers, Work(w)
      PROVE  Held'
    <2>1. ASSUME UNCHANGED <<workload, workloadCache>>, NEW state,
                 worker' = [worker EXCEPT ![w] = state],
                 Holds(state.copy.status) \/ Holds(state.copy.status)',
                 state.pc = "label" => state.copy.pass \subseteq passed
          PROVE  Held'
        <3>1. WorkerHolds(w)'
            BY <1>1, <1>2, <2>1
        <3>2. \A v \in Workers \ {w} : WorkerHolds(v)'
            BY <1>0, <1>1, <1>2, <2>1
        <3>3. Holds(workload.status)' /\ Holds(workloadCache.status)'
            BY <1>0, <1>1, <1>2, <2>1
        <3> QED
            BY <3>1, <3>2, <3>3
    <2>2. ASSUME UNCHANGED <<workload, workloadCache>>, Retry(w)
          PROVE  Held'
        BY <2>1, <2>2 DEF Retry, Idle, NewWorkload
    <2>3. CASE InitChangeWorkloadHandle(w)
        <3>1. [workloadCache EXCEPT !.status = "Running"].status = "Running"
            BY <1>2 DEF Workloads
        <3> QED
            BY <2>1, <2>3, <3>1 DEF InitChangeWorkloadHandle, Step, caches
    <2>4. CASE EnsureInitChangePod(w)
        <3>1. CASE Necessary
            BY <1>0, <2>1, <2>4, <3>1 DEF EnsureInitChangePod, caches
        <3>2. CASE ~Necessary
            BY <1>0, <2>1, <2>4, <3>2 DEF EnsureInitChangePod, Step, caches
        <3> QED
            BY <3>1, <3>2
    <2>5. CASE CreateNewChangePod(w)
        <3>1. UNCHANGED <<workload, workloadCache>>
            BY <2>5 DEF CreateNewChangePod, caches
        <3>2. Retry(w) \/ Step(w, "patch", worker[w].copy)
            BY <2>5 DEF CreateNewChangePod
        <3> QED
            BY <1>0, <2>1, <2>2, <3>1, <3>2 DEF Step
    <2>6. CASE PatchWorkloadEntryTime(w)
        <3>1. UNCHANGED <<workload, workloadCache>>
            BY <2>6 DEF PatchWorkloadEntryTime, caches
        <3>2. Step(w, "sync", workload) \/ Step(w, "sync", worker[w].copy)
            BY <2>6 DEF PatchWorkloadEntryTime
        <3> QED
            BY <1>0, <2>1, <3>1, <3>2 DEF Step
    <2>7. CASE SyncChangeWorkloadStatus(w)
        <3> DEFINE copy == [worker[w].copy EXCEPT !.pass = PodsOf("pass"), !.fail = PodsOf("fail")]
        <3>1. UNCHANGED <<workload, workloadCache>>
            BY <2>7 DEF SyncChangeWorkloadStatus, caches
        <3>2. \/ worker' = [worker EXCEPT ![w] = Idle]
              \/ worker' = [worker EXCEPT ![w] = [pc |-> "label", copy |-> copy, number |-> 0]]
            BY <2>7 DEF SyncChangeWorkloadStatus, Step
        <3>3. copy.status = worker[w].copy.status /\ copy.pass \subseteq passed
            BY <1>0, <1>2, ListedPodsPassed DEF WorkerStates, Workloads
        <3> HIDE DEF copy
        <3> QED
            BY <1>0, <2>1, <3>1, <3>2, <3>3 DEF Idle, NewWorkload
    <2>8. CASE ValidateChangeWorkload(w)
        <3> DEFINE copy == [worker[w].copy EXCEPT !.status = Verdict(worker[w].copy)]
        <3>1. UNCHANGED <<workload, workloadCache>> /\ worker[w].pc = "label"
            BY <2>8 DEF ValidateChangeWorkload, caches
        <3>2. CASE Retry(w)
            BY <2>2, <3>1, <3>2
        <3>3. CASE ~Retry(w)
            <4>0. PICK state : state = [pc |-> "update", copy |-> copy, number |-> 0]
                OBVIOUS
            <4>1. worker' = [worker EXCEPT ![w] = state]
                BY <2>8, <3>3, <4>0 DEF ValidateChangeWorkload, Step
            <4>2. state.pc = "update" /\ state.copy.status = Verdict(worker[w].copy)
                BY <1>2, <4>0 DEF WorkerStates, Workloads
            <4>3. /\ state.copy.status = "Success" => Replicas <= Cardinality(passed)
                  /\ state.copy.status = "Suspend" /\ Blocking => stopped'
                <5>1. Grounded(worker[w].copy) /\ worker[w].copy.pass \subseteq passed
                    BY <1>0, <3>1 DEF Grounded
                <5> QED
                    BY <1>0, <2>8, <3>3, <4>2, <5>1, VerdictGrounded
            <4>4. Holds(state.copy.status)'
                BY <1>1, <1>2, <4>3
            <4> HIDE DEF copy, Holds, Held
            <4> QED
                BY <2>1, <3>1, <4>1, <4>2, <4>4
        <3> QED
            BY <3>2, <3>3
    <2>9. CASE UpdateWorkloadStatus(w)
        <3>1. CASE w \in fresh
            BY <1>0, <1>1, <1>2, <2>9, <3>1 DEF UpdateWorkloadStatus, Idle, NewWorkload, caches
        <3>2. CASE w \notin fresh
            BY <2>2, <2>9, <3>2 DEF UpdateWorkloadStatus, caches
        <3> QED
            BY <3>1, <3>2
    <2> QED
        BY <1>6, <2>3, <2>4, <2>5, <2>6, <2>7, <2>8, <2>9 DEF Work
<1>7. ASSUME NEW i \in Numbers, ChangePodStep(i)
      PROVE  UNCHANGED <<workload, workloadCache, worker>>
    BY <1>7 DEF ChangePodStep, ChangePodWork, RecordBatch, DefenseProcessedPod, StartBatch, BatchFault,
                MarkDefensedPods, FindNoPod, DeleteEmptyBatch, FinishBatch, LateCallback, caches
<1>8. CASE UNCHANGED vars
    BY <1>3, <1>8 DEF vars, caches
<1>9. CASE \/ \E p \in Pods : PodPublished(p) \/ PodVanishes(p)
           \/ PodEvent \/ ChangePodEvent \/ DeploymentSync \/ Resync
           \/ DefenseProcessedDeployment
    <2>1. UNCHANGED <<workload, workloadCache, worker>>
        BY <1>9 DEF PodPublished, PodVanishes, PodEvent, ChangePodEvent, DeploymentSync, Resync,
                    DefenseProcessedDeployment, caches
    <2> QED
        BY <1>3, <2>1
<1> HIDE DEF Held
<1> QED
    BY <1>3, <1>4, <1>5, <1>6, <1>7, <1>8, <1>9 DEF Next

-----------------------------------------------------------------------------
(* The theorems *)

\* A new workload has no ChangePod and no decision.
LEMMA InitInv == Init => IInv
<1> SUFFICES ASSUME Init PROVE IInv
    OBVIOUS
<1>1. NumbersInSequence
    BY DEF Init, NumbersInSequence, InSequence, NoChangePod, Started, Idle
<1>2. PendingWork
    BY DEF Init, PendingWork, Idle, AtRest
<1>3. FreshCopiesAgree
    BY ChangeWorkloadAssumption DEF Init, FreshCopiesAgree, Cache
<1>4. DecisionsAreGrounded
    BY DEF Init, DecisionsAreGrounded, PassesRecorded, Grounded, Idle, NewWorkload, NoChangePod
<1> QED
    BY <1>1, <1>2, <1>3, <1>4, InitType DEF IInv

\* The invariant holds in every reachable state.
THEOREM WorkloadInvariant == Spec => []IInv
<1>1. IInv /\ [Next]_vars => IInv'
    BY NextType, NextSequence, NextPending, NextAgree, NextGrounded DEF IInv
<1> QED
    BY <1>1, InitInv, PTL DEF Spec

\* Type correctness of the objects, the caches and the workers' copies.
THEOREM WorkloadTypes == Spec => []TypeOK
<1>1. IInv => TypeOK
    BY DEF IInv
<1> QED
    BY <1>1, WorkloadInvariant, PTL

\* Workers that act on stale lists never leave two ChangePods waiting for a batch, as long
\* as no ChangePod that has started is deleted as empty.
THEOREM OneInitAtATime == Spec => []AtMostOneInit
<1>1. IInv => AtMostOneInit
    BY ChangeWorkloadAssumption
       DEF IInv, NumbersInSequence, InSequence, AtMostOneInit, Started, Numbers
<1> QED
    BY <1>1, WorkloadInvariant, PTL

\* Under the same condition the ChangePods of a workload are numbered without a gap,
\* whichever empty ones were deleted and whoever was about to create one.
THEOREM NumbersAreDense == Spec => []DenseNumbers
<1>1. IInv => DenseNumbers
    BY ChangeWorkloadAssumption
       DEF IInv, NumbersInSequence, InSequence, DenseNumbers, Existing, Started, Numbers
<1> QED
    BY <1>1, WorkloadInvariant, PTL

\* Success is only ever stored when enough pods have been passed by some batch, whatever
\* late callbacks made of its outcome and whichever ChangePods were deleted.
THEOREM SuccessEarned == Spec => []SuccessIsEarned
<1>1. IInv => SuccessIsEarned
    BY DEF IInv, DecisionsAreGrounded, Grounded, SuccessIsEarned
<1> QED
    BY <1>1, WorkloadInvariant, PTL

\* Suspend is only ever stored when the deployment has carried the suspend label, whatever
\* was denied, retried or read from an old cache.
THEOREM SuspendAnnounced == Spec => []SuspendIsAnnounced
<1>1. IInv => SuspendIsAnnounced
    BY DEF IInv, DecisionsAreGrounded, Grounded, SuspendIsAnnounced
<1> QED
    BY <1>1, WorkloadInvariant, PTL

\* A decision stays, whichever worker writes the workload next.
THEOREM DecisionsStay == Spec => DecisionIsFinal
<1>1. ASSUME IInv, [Next]_vars
      PROVE  workload.status \in Decided => workload'.status \in Decided
    <2>1. ASSUME NEW w \in Workers, UpdateWorkloadStatus(w)
          PROVE  workload.status \in Decided => workload'.status \in Decided
        BY <1>1, <2>1 DEF UpdateWorkloadStatus, IInv, FreshCopiesAgree
    <2>2. ASSUME NEW w \in Workers, Work(w)
          PROVE  UpdateWorkloadStatus(w) \/ UNCHANGED workload
        BY <2>2 DEF Work, InitChangeWorkloadHandle, EnsureInitChangePod, CreateNewChangePod,
                    PatchWorkloadEntryTime, SyncChangeWorkloadStatus, ValidateChangeWorkload
    <2>3. ASSUME NEW i \in Numbers, ChangePodStep(i)
          PROVE  UNCHANGED workload
        BY <2>3 DEF ChangePodStep, ChangePodWork, RecordBatch, DefenseProcessedPod, StartBatch, BatchFault,
                    MarkDefensedPods, FindNoPod, DeleteEmptyBatch, FinishBatch, LateCallback
    <2>4. \/ UNCHANGED workload
          \/ \E w \in Workers : Work(w)
        BY <1>1, <2>3 DEF Next, vars, PodPublished, PodVanishes, PodEvent, ChangePodEvent, WorkloadEvent,
                    DeploymentSync, Resync, DefenseProcessedDeployment, Crash
    <2> QED
        BY <2>1, <2>2, <2>4
<1>2. IInv /\ [Next]_vars =>
          [workload.status \in Decided => workload'.status \in Decided]_vars
    BY <1>1
<1> QED
    BY <1>2, WorkloadInvariant, PTL DEF Spec, DecisionIsFinal
=============================================================================
