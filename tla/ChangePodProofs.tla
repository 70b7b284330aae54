---------------------------- MODULE ChangePodProofs ----------------------------
(* Proofs about ChangePod, for every set of pods and handlers and every bound. *)
EXTENDS ChangePod, TLAPS

-----------------------------------------------------------------------------
(* Sequences of versions *)

\* An appended history keeps its versions at their indices and ends in the new one.
LEMMA AppendVersion ==
    ASSUME NEW h \in Seq(Version), NEW v \in Version
    PROVE  /\ Append(h, v) \in Seq(Version)
           /\ Len(Append(h, v)) = Len(h) + 1
           /\ Append(h, v)[Len(h) + 1] = v
           /\ \A i \in 1 .. Len(h) : Append(h, v)[i] = h[i]
OBVIOUS

\* What each writer appends is a version, and what it changes of the one it overwrites.
LEMMA WantedVersion ==
    ASSUME NEW v \in Version, NEW want \in Statuses,
           want = "ExecuteDone" => v.status \in Finished
    PROVE  /\ Wanted(v, want) \in Version
           /\ Wanted(v, want).status = want
           /\ Wanted(v, want).podInfos = v.podInfos
           /\ want = "ExecuteDone" => Wanted(v, want).message = v.status
BY DEF Wanted, Version

\* A callback's patch keeps the batch and moves to one of two statuses.
LEMMA PatchedVersion ==
    ASSUME NEW v \in Version, NEW call \in [stage : {"none", "pre", "post"}, verdict : Verdicts]
    PROVE  /\ Patched(v, call) \in Version
           /\ Patched(v, call).status \in {"PostWait", "PostFinish"}
           /\ Patched(v, call).podInfos = v.podInfos
BY DEF Patched, Version, Statuses, Finished

\* A timeout keeps the batch and moves to one of the two timeouts.
LEMMA TimedOutVersion ==
    ASSUME NEW v \in Version, v.status \in Submitted
    PROVE  /\ TimedOut(v) \in Version
           /\ TimedOut(v).status \in {"PreTimeout", "PostTimeout"}
           /\ TimedOut(v).podInfos = v.podInfos
BY DEF TimedOut, Version, Statuses, Finished, Submitted

\* The reads of the cache and of the API server are versions.
LEMMA ReadsAreVersions ==
    ASSUME TypeOK
    PROVE  /\ Latest \in Version /\ Cached \in Version
           /\ \A i \in 1 .. Len(hist) : hist[i] \in Version
           /\ Len(hist) \in Nat \ {0} /\ Len(hist) \in 1 .. Len(hist)
BY DEF TypeOK, Latest, Cached

-----------------------------------------------------------------------------
\* A new ChangePod, with nothing read and no pod labelled, satisfies the invariant.
LEMMA InitInv == Init => IInv
<1> SUFFICES ASSUME Init PROVE IInv
    OBVIOUS
<1> DEFINE v0 == [live |-> TRUE, status |-> ExecuteInit, message |-> "none",
                  podInfos |-> {}, node |-> FALSE, results |-> "none"]
<1>1. v0 \in Version
    BY DEF Version, Statuses, ExecuteInit
<1>2. hist = <<v0>> /\ hist \in Seq(Version) /\ Len(hist) = 1 /\ Latest = v0
    BY <1>1 DEF Init, Latest
<1>3. TypeOK
    <2>1. cache \in 1 .. Len(hist) /\ timer \in 0 .. Len(hist)
        BY <1>2 DEF Init
    <2>2. queued \in BOOLEAN /\ finishSent \in BOOLEAN
        BY DEF Init
    <2>3. rec \in [pc : {"idle", "remark", "write"}, base : 0 .. Len(hist),
                   todo : SUBSET Pods, want : Statuses \cup {NoWant}]
        BY <1>2 DEF Init, Idle, NoWant
    <2>4. handler \in [Handlers -> [stage : {"none", "pre", "post"}, verdict : Verdicts]]
        BY DEF Init, NoCall, Verdicts
    <2>5. pod \in [Pods -> PodStates] /\ podCache \in [Pods -> PodStates]
        BY DEF Init, PodStates
    <2>6. {callbacks, faults, crashes} \subseteq Nat
        BY DEF Init
    <2> QED
        BY <1>2, <2>1, <2>2, <2>3, <2>4, <2>5, <2>6 DEF TypeOK
<1>4. WritersAgree
    BY <1>2 DEF WritersAgree, Init, Idle, NoWant
<1>5. HistoryGrows
    BY <1>2 DEF HistoryGrows
<1>6. LabelledOnlyInBatch
    BY DEF LabelledOnlyInBatch, Init
<1>7. InspectedBatchIsLabelled
    BY <1>2 DEF InspectedBatchIsLabelled
<1>8. DoneRecordsOutcome
    BY <1>2 DEF DoneRecordsOutcome
<1> QED
    BY <1>3, <1>4, <1>5, <1>6, <1>7, <1>8 DEF IInv

-----------------------------------------------------------------------------
(* The three kinds of steps: those that only lose labels, those that move a  *)
(* writer, and those that add a version.                                     *)

\* A step of the cluster or the informers: no writer and no version changes, a pod
\* is not labelled and a labelled pod keeps its label until it is gone.
LEMMA ClusterStep ==
    ASSUME IInv, TypeOK', UNCHANGED <<hist, rec, handler, timer>>,
           \A p \in Pods : /\ pod'[p] = "defensed" => pod[p] = "defensed"
                           /\ pod[p] \in {"defensed", "gone"} => pod'[p] \in {"defensed", "gone"}
    PROVE  IInv'
<1>1. /\ Latest' = Latest /\ Latest \in Version
      /\ \A i \in 1 .. Len(hist) : hist[i].podInfos \subseteq Pods
    BY ReadsAreVersions DEF IInv, Latest, Version
<1>2. WritersAgree'
    <2>1. rec.pc = "write" => rec.base \in 1 .. Len(hist)
        BY DEF IInv, TypeOK, WritersAgree
    <2> QED
        BY <1>1, <2>1 DEF IInv, WritersAgree
<1>3. HistoryGrows' /\ DoneRecordsOutcome'
    BY <1>1 DEF IInv, HistoryGrows, DoneRecordsOutcome
<1>4. LabelledOnlyInBatch'
    BY <1>1 DEF IInv, LabelledOnlyInBatch
<1>5. InspectedBatchIsLabelled'
    BY <1>1 DEF IInv, InspectedBatchIsLabelled, Version
<1> QED
    BY <1>2, <1>3, <1>4, <1>5 DEF IInv

\* A step that reads, gives up or prepares a write: versions and labels stay.
LEMMA WriterStep ==
    ASSUME IInv, TypeOK', WritersAgree', UNCHANGED <<hist, pod>>
    PROVE  IInv'
<1>1. Latest' = Latest
    BY DEF Latest
<1>2. HistoryGrows' /\ DoneRecordsOutcome'
    BY <1>1 DEF IInv, HistoryGrows, DoneRecordsOutcome
<1>3. LabelledOnlyInBatch' /\ InspectedBatchIsLabelled'
    BY <1>1 DEF IInv, LabelledOnlyInBatch, InspectedBatchIsLabelled
<1> QED
    BY <1>2, <1>3 DEF IInv

\* A step that adds version v to the history: what v must say for the invariant to stay.
LEMMA VersionStep ==
    ASSUME IInv, TypeOK', WritersAgree', UNCHANGED pod,
           NEW v \in Version, hist' = Append(hist, v),
           Latest.podInfos \in {v.podInfos, {}},
           v.status = ExecuteInit => Latest.status = ExecuteInit,
           v.status # ExecuteInit => \A p \in v.podInfos : pod[p] \in {"defensed", "gone"},
           (v.live /\ v.status = "ExecuteDone") => v.message = Latest.status
    PROVE  IInv'
<1>1. /\ Len(hist) \in Nat \ {0} /\ Len(hist') = Len(hist) + 1
      /\ hist'[Len(hist) + 1] = v /\ Latest' = v
      /\ \A i \in 1 .. Len(hist) : hist'[i] = hist[i]
    BY AppendVersion, ReadsAreVersions DEF IInv, TypeOK, Latest
<1>2. HistoryGrows'
    <2> SUFFICES ASSUME NEW i \in 1 .. Len(hist) + 1
                 PROVE  /\ hist'[i].podInfos # {} => hist'[i].podInfos = v.podInfos
                        /\ hist'[i].status # ExecuteInit => v.status # ExecuteInit
        BY <1>1 DEF HistoryGrows
    <2>1. CASE i = Len(hist) + 1
        BY <2>1, <1>1
    <2>2. CASE i \in 1 .. Len(hist)
        BY <2>2, <1>1 DEF IInv, HistoryGrows
    <2> QED
        BY <2>1, <2>2, <1>1
<1>3. LabelledOnlyInBatch'
    BY <1>1 DEF IInv, LabelledOnlyInBatch
<1>4. InspectedBatchIsLabelled'
    BY <1>1 DEF InspectedBatchIsLabelled
<1>5. DoneRecordsOutcome'
    <2> SUFFICES ASSUME NEW i \in 2 .. Len(hist) + 1,
                        hist'[i].live, hist'[i].status = "ExecuteDone"
                 PROVE  hist'[i].message = hist'[i - 1].status
        BY <1>1 DEF DoneRecordsOutcome
    <2>1. CASE i = Len(hist) + 1
        BY <2>1, <1>1 DEF Latest
    <2>2. CASE i \in 2 .. Len(hist)
        BY <2>2, <1>1 DEF IInv, DoneRecordsOutcome
    <2> QED
        BY <2>1, <2>2, <1>1
<1> QED
    BY <1>2, <1>3, <1>4, <1>5 DEF IInv

\* A version added by one writer leaves the others' agreement with what they read.
LEMMA OthersAgree ==
    ASSUME IInv, UNCHANGED pod,
           NEW v \in Version, hist' = Append(hist, v),
           Latest.podInfos \in {v.podInfos, {}},
           v.status = ExecuteInit => Latest.status = ExecuteInit,
           rec' \in {rec, Idle}, timer' \in {timer, 0},
           \A h \in Handlers : handler'[h] \in {handler[h], NoCall}
    PROVE  WritersAgree'
<1>1. /\ Len(hist) \in Nat \ {0} /\ Latest' = v
      /\ \A i \in 1 .. Len(hist) : hist'[i] = hist[i]
    BY AppendVersion, ReadsAreVersions DEF IInv, TypeOK, Latest
<1>2. rec.pc # "idle" => rec.base \in 1 .. Len(hist)
    BY DEF IInv, TypeOK, WritersAgree
<1>3. timer # 0 => timer \in 1 .. Len(hist)
    BY DEF IInv, TypeOK
<1>4. CASE rec' = rec
    <2>1. rec.todo \subseteq v.podInfos
        BY DEF IInv, WritersAgree
    <2> QED
        BY <1>1, <1>2, <1>3, <1>4, <2>1 DEF IInv, WritersAgree
<1>5. CASE rec' = Idle
    BY <1>1, <1>3, <1>5 DEF IInv, WritersAgree, Idle, NoWant
<1> QED
    BY <1>4, <1>5

-----------------------------------------------------------------------------
(* Every action keeps the invariant *)

\* The parts of TypeOK that most steps change together.
RecType(r, n) ==
    r \in [pc : {"idle", "remark", "write"}, base : 0 .. n,
           todo : SUBSET Pods, want : Statuses \cup {NoWant}]
HandlerType(c) == c \in [Handlers -> [stage : {"none", "pre", "post"}, verdict : Verdicts]]

\* The types of what a step leaves alone, and of what it resets.
LEMMA TypesOfParts ==
    ASSUME TypeOK
    PROVE  /\ RecType(rec, Len(hist)) /\ HandlerType(handler)
           /\ \A n \in Nat : RecType(Idle, n)
           /\ HandlerType([h \in Handlers |-> NoCall])
           /\ \A r, m : RecType(r, Len(hist)) => RecType(r, Len(hist) + 1)
BY ReadsAreVersions DEF TypeOK, RecType, HandlerType, Idle, NoWant, NoCall, Verdicts

\* Type correctness of a step that adds at most one version and moves its writers.
LEMMA TypeStep ==
    ASSUME TypeOK,
           hist' = hist \/ \E v \in Version : hist' = Append(hist, v),
           cache' \in 1 .. Len(hist), queued' \in BOOLEAN, finishSent' \in BOOLEAN,
           RecType(rec', Len(hist')), HandlerType(handler'), timer' \in 0 .. Len(hist),
           pod' \in [Pods -> PodStates], podCache' \in [Pods -> PodStates],
           callbacks' \in Nat, faults' \in Nat, crashes' \in Nat
    PROVE  TypeOK'
<1>1. hist' \in Seq(Version) /\ Len(hist') \in {Len(hist), Len(hist) + 1} /\ Len(hist) \in Nat \ {0}
    <2>1. hist \in Seq(Version) /\ Len(hist) \in Nat \ {0}
        BY ReadsAreVersions DEF TypeOK
    <2>2. CASE hist' = hist
        BY <2>1, <2>2
    <2>3. CASE \E v \in Version : hist' = Append(hist, v)
        BY <2>1, <2>3, AppendVersion
    <2> QED
        BY <2>1, <2>2, <2>3
<1>2. cache' \in 1 .. Len(hist') /\ timer' \in 0 .. Len(hist') /\ Len(hist') > 0
    BY <1>1
<1>3. {callbacks', faults', crashes'} \subseteq Nat
    OBVIOUS
<1> QED
    BY <1>1, <1>2, <1>3 DEF TypeOK, RecType, HandlerType

\* The steps that touch neither a writer nor a version.
LEMMA ClusterInv ==
    ASSUME IInv,
           \/ \E p \in Pods : PodPublished(p) \/ PodVanishes(p) \/ PodCacheSync(p)
           \/ CacheSync \/ Resync \/ ReconcileNothing \/ UNCHANGED vars
    PROVE  IInv'
<1> USE ReadsAreVersions, TypesOfParts DEF bounds
<1>0. TypeOK /\ {callbacks, faults, crashes} \subseteq Nat
    BY DEF IInv, TypeOK
<1>1. ASSUME NEW p \in Pods, PodPublished(p) PROVE IInv'
    <2>1. TypeOK'
        BY <1>0, <1>1, TypeStep DEF PodPublished, TypeOK, PodStates
    <2> QED
        BY <1>1, <2>1, ClusterStep DEF PodPublished, TypeOK
<1>2. ASSUME NEW p \in Pods, PodVanishes(p) PROVE IInv'
    <2>1. TypeOK'
        BY <1>0, <1>2, TypeStep DEF PodVanishes, TypeOK, PodStates
    <2> QED
        BY <1>0, <1>2, <2>1, ClusterStep DEF PodVanishes, TypeOK
<1>3. ASSUME NEW p \in Pods, PodCacheSync(p) PROVE IInv'
    <2>1. TypeOK'
        BY <1>0, <1>3, TypeStep DEF PodCacheSync, TypeOK, PodStates
    <2> QED
        BY <1>3, <2>1, ClusterStep DEF PodCacheSync
<1>4. CASE CacheSync
    <2>1. cache' \in 1 .. Len(hist)
        BY <1>0, <1>4 DEF CacheSync, Fresh, TypeOK
    <2>2. queued' \in BOOLEAN
        BY <1>0, <1>4 DEF CacheSync, TypeOK
    <2>3. TypeOK'
        BY <1>0, <1>4, <2>1, <2>2, TypeStep DEF CacheSync, TypeOK
    <2> QED
        BY <1>4, <2>3, ClusterStep DEF CacheSync
<1>5. CASE Resync
    <2>1. TypeOK'
        BY <1>0, <1>5, TypeStep DEF Resync, TypeOK
    <2> QED
        BY <1>5, <2>1, ClusterStep DEF Resync
<1>6. CASE ReconcileNothing
    <2>1. TypeOK'
        BY <1>0, <1>6, TypeStep DEF ReconcileNothing, TypeOK
    <2> QED
        BY <1>6, <2>1, ClusterStep DEF ReconcileNothing
<1>7. CASE UNCHANGED vars
    <2>1. TypeOK'
        BY <1>0, <1>7 DEF vars, TypeOK
    <2> QED
        BY <1>7, <2>1, ClusterStep DEF vars
<1> QED
    BY <1>1, <1>2, <1>3, <1>4, <1>5, <1>6, <1>7

\* A writer that gives up leaves the others' agreement with what they read.
LEMMA GivingUpAgrees ==
    ASSUME IInv, UNCHANGED <<hist, pod>>,
           rec' \in {rec, Idle}, timer' \in {timer, 0},
           \A h \in Handlers : handler'[h] \in {handler[h], NoCall}
    PROVE  WritersAgree'
<1>1. Latest' = Latest
    BY DEF Latest
<1>2. CASE rec' = rec
    BY <1>1, <1>2 DEF IInv, WritersAgree
<1>3. CASE rec' = Idle
    BY <1>1, <1>3 DEF IInv, WritersAgree, Idle, NoWant
<1> QED
    BY <1>2, <1>3

\* A reconciler that has read a version out of Init and prepares the next status.
LEMMA WillWriteInv ==
    ASSUME IInv, NEW status \in Statuses \ {ExecuteInit, "PreWait"},
           WillWrite(status), finishSent' \in BOOLEAN, Cached.status # ExecuteInit,
           status = "ExecuteDone" => Cached.status \in Finished
    PROVE  IInv'
<1> USE ReadsAreVersions, TypesOfParts DEF bounds
<1>0. TypeOK /\ {callbacks, faults, crashes} \subseteq Nat /\ status # NoWant
    BY DEF IInv, TypeOK, Statuses, Submitted, Finished, ExecuteInit, NoWant
<1>1. RecType(rec', Len(hist'))
    BY <1>0 DEF WillWrite, RecType, TypeOK
<1>2. TypeOK'
    BY <1>0, <1>1, TypeStep DEF WillWrite, TypeOK
<1>3. WritersAgree'
    <2>1. /\ rec' = [pc |-> "write", base |-> cache, todo |-> {}, want |-> status]
          /\ UNCHANGED <<hist, handler, timer, pod>> /\ Latest' = Latest
        BY DEF WillWrite, Latest
    <2>2. cache > 0
        BY <1>0 DEF TypeOK
    <2> QED
        BY <1>0, <2>1, <2>2 DEF IInv, WritersAgree, Cached
<1> QED
    BY <1>2, <1>3, WriterStep DEF WillWrite

\* The steps in which a writer reads, prepares its write or gives up.
LEMMA WriterInv ==
    ASSUME IInv,
           \/ FillConflict \/ MarkDefensedPods \/ AllRemarked
           \/ PreWaitChangePodHandle \/ PostWaitChangePodHandle \/ HandleFinishedChangePod
           \/ ApiFault \/ TimeoutList \/ Crash
           \/ \E h \in Handlers : CheckCallBackHandler(h)
    PROVE  IInv'
<1> USE ReadsAreVersions, TypesOfParts DEF bounds
<1>0. TypeOK /\ {callbacks, faults, crashes} \subseteq Nat
    BY DEF IInv, TypeOK
<1>1. CASE FillConflict
    <2>1. TypeOK'
        BY <1>0, <1>1, TypeStep DEF FillConflict, Requeue, TypeOK
    <2> QED
        BY <1>1, <2>1, GivingUpAgrees, WriterStep DEF FillConflict, Requeue
<1>2. CASE MarkDefensedPods
    <2>1. /\ rec' = [pc |-> "remark", base |-> cache, todo |-> Cached.podInfos, want |-> NoWant]
          /\ UNCHANGED <<hist, handler, timer, pod>> /\ Latest' = Latest
        BY <1>2 DEF MarkDefensedPods, Latest
    <2>2. RecType(rec', Len(hist'))
        BY <1>0, <2>1 DEF RecType, TypeOK, Version
    <2>3. TypeOK'
        BY <1>0, <1>2, <2>2, TypeStep DEF MarkDefensedPods, TypeOK
    <2>4. Cached.podInfos \subseteq Latest.podInfos /\ cache > 0
        BY <1>0 DEF IInv, HistoryGrows, Cached, TypeOK
    <2>5. WritersAgree'
        BY <2>1, <2>4 DEF IInv, WritersAgree
    <2> QED
        BY <2>1, <2>3, <2>5, WriterStep
<1>3. CASE AllRemarked
    <2>1. TypeOK'
        BY <1>0, <1>3, TypeStep DEF AllRemarked, TypeOK
    <2> QED
        BY <1>3, <2>1, GivingUpAgrees, WriterStep DEF AllRemarked
<1>4. CASE PreWaitChangePodHandle
    BY <1>0, <1>4, WillWriteInv
       DEF PreWaitChangePodHandle, Take, Statuses, Submitted, Finished, ExecuteInit, TypeOK
<1>5. CASE PostWaitChangePodHandle
    BY <1>0, <1>5, WillWriteInv
       DEF PostWaitChangePodHandle, Take, Statuses, Submitted, Finished, ExecuteInit, TypeOK
<1>6. CASE HandleFinishedChangePod
    BY <1>0, <1>6, WillWriteInv
       DEF HandleFinishedChangePod, Take, Statuses, Submitted, Finished, ExecuteInit, TypeOK
<1>7. CASE ApiFault
    <2>1. faults' \in Nat
        BY <1>0, <1>7 DEF ApiFault
    <2>2. TypeOK'
        BY <1>0, <1>7, <2>1, TypeStep DEF ApiFault, Requeue, TypeOK
    <2> QED
        BY <1>7, <2>2, GivingUpAgrees, WriterStep DEF ApiFault, Requeue
<1>8. CASE TimeoutList
    <2>1. TypeOK'
        BY <1>0, <1>8, TypeStep DEF TimeoutList, TypeOK
    <2>2. WritersAgree'
        <3>1. /\ timer' = cache /\ UNCHANGED <<hist, rec, handler, pod>> /\ Latest' = Latest
              /\ hist[cache].status \in Submitted
            BY <1>8 DEF TimeoutList, Latest, Cached
        <3> QED
            BY <3>1 DEF IInv, WritersAgree
    <2> QED
        BY <1>8, <2>1, <2>2, WriterStep DEF TimeoutList
<1>9. CASE Crash
    <2>1. crashes' \in Nat /\ queued' \in BOOLEAN
        BY <1>0, <1>9 DEF Crash, Version
    <2>2. TypeOK'
        BY <1>0, <1>9, <2>1, TypeStep DEF Crash, TypeOK
    <2> QED
        BY <1>9, <2>2, GivingUpAgrees, WriterStep DEF Crash
<1>10. ASSUME NEW h \in Handlers, CheckCallBackHandler(h) PROVE IInv'
    <2>1. PICK stage \in {"pre", "post"}, verdict \in Verdicts :
              handler' = [handler EXCEPT ![h] = [stage |-> stage, verdict |-> verdict]]
        BY <1>10 DEF CheckCallBackHandler, Verdicts
    <2>2. HandlerType(handler') /\ callbacks' \in Nat
        BY <1>0, <1>10, <2>1 DEF CheckCallBackHandler, HandlerType
    <2>3. TypeOK'
        BY <1>0, <1>10, <2>2, TypeStep DEF CheckCallBackHandler, TypeOK
    <2>4. WritersAgree'
        <3>1. UNCHANGED <<hist, rec, timer, pod>> /\ Latest' = Latest
            BY <1>10 DEF CheckCallBackHandler, Latest
        <3>2. Cached.status # ExecuteInit
            BY <1>10 DEF CheckCallBackHandler, ExecuteInit
        <3>3. Latest.status # ExecuteInit
            BY <1>0, <3>2 DEF IInv, HistoryGrows, Cached, TypeOK
        <3>4. \A k \in Handlers : handler'[k] # NoCall =>
                  handler'[k].stage \in {"pre", "post"} /\ Latest.status # ExecuteInit
            BY <2>1, <3>3, <1>0 DEF IInv, WritersAgree, TypeOK
        <3> QED
            BY <3>1, <3>4 DEF IInv, WritersAgree
    <2> QED
        BY <1>10, <2>3, <2>4, WriterStep DEF CheckCallBackHandler
<1> QED
    BY <1>1, <1>2, <1>3, <1>4, <1>5, <1>6, <1>7, <1>8, <1>9, <1>10

\* An update that finds the version it read to be the latest, or is refused.
LEMMA UpdateInv ==
    ASSUME IInv, UpdateChangePodStatus
    PROVE  IInv'
<1> USE ReadsAreVersions, TypesOfParts DEF bounds
<1>0. TypeOK /\ {callbacks, faults, crashes} \subseteq Nat
    BY DEF IInv, TypeOK
<1>1. CASE Fresh(rec.base)
    <2> DEFINE v == Wanted(Latest, rec.want)
    <2>1. /\ hist' = Append(hist, v) /\ rec' = Idle
          /\ UNCHANGED <<cache, queued, handler, timer, pod, podCache, finishSent, bounds>>
        BY <1>1 DEF UpdateChangePodStatus, Fresh, Latest
    <2>2. /\ rec.want \in Statuses \ {ExecuteInit}
          /\ rec.want = "PreWait" => \A p \in Latest.podInfos : pod[p] \in {"defensed", "gone"}
          /\ rec.want # "PreWait" => Latest.status # ExecuteInit
          /\ rec.want = "ExecuteDone" => Latest.status \in Finished
        BY <1>1 DEF UpdateChangePodStatus, Fresh, Latest, IInv, WritersAgree
    <2>3. /\ v \in Version /\ v.status = rec.want /\ v.podInfos = Latest.podInfos
          /\ rec.want = "ExecuteDone" => v.message = Latest.status
        BY <1>0, <2>2, WantedVersion
    <2>4. TypeOK'
        <3>1. RecType(rec', Len(hist'))
            BY <1>0, <2>1, <2>3, AppendVersion DEF TypeOK
        <3> HIDE DEF v
        <3> QED
            BY <1>0, <2>1, <2>3, <3>1, TypeStep DEF TypeOK
    <2>5. \A p \in v.podInfos : pod[p] \in {"defensed", "gone"}
        BY <2>2, <2>3 DEF IInv, InspectedBatchIsLabelled
    <2> HIDE DEF v
    <2>6. WritersAgree'
        BY <2>1, <2>2, <2>3, OthersAgree
    <2> QED
        BY <2>1, <2>2, <2>3, <2>4, <2>5, <2>6, VersionStep
<1>2. CASE ~Fresh(rec.base)
    <2>1. TypeOK'
        BY <1>0, <1>2, TypeStep DEF UpdateChangePodStatus, Requeue, TypeOK
    <2> QED
        BY <1>2, <2>1, GivingUpAgrees, WriterStep DEF UpdateChangePodStatus, Requeue
<1> QED
    BY <1>1, <1>2

\* An empty batch is deleted, or is found deleted already.
LEMMA DeleteInv ==
    ASSUME IInv, DeleteEmptyBatch
    PROVE  IInv'
<1> USE ReadsAreVersions, TypesOfParts DEF bounds
<1>0. TypeOK /\ {callbacks, faults, crashes} \subseteq Nat
    BY DEF IInv, TypeOK
<1>1. CASE Latest.live
    <2> DEFINE v == [Latest EXCEPT !.live = FALSE]
    <2>1. /\ hist' = Append(hist, v) /\ rec' = Idle /\ queued' = TRUE
          /\ UNCHANGED <<cache, handler, timer, pod, podCache, finishSent, bounds>>
        BY <1>1 DEF DeleteEmptyBatch, Requeue
    <2>2. /\ v \in Version /\ v.status = Latest.status /\ v.podInfos = Latest.podInfos
          /\ v.live = FALSE
        BY <1>0 DEF Version
    <2> HIDE DEF v
    <2>3. RecType(rec', Len(hist'))
        BY <1>0, <2>1, <2>2, AppendVersion DEF TypeOK
    <2>4. TypeOK'
        BY <1>0, <2>1, <2>2, <2>3, TypeStep DEF TypeOK
    <2>5. WritersAgree'
        BY <2>1, <2>2, OthersAgree
    <2>6. v.status # ExecuteInit => \A p \in v.podInfos : pod[p] \in {"defensed", "gone"}
        BY <2>2 DEF IInv, InspectedBatchIsLabelled
    <2> QED
        BY <2>1, <2>2, <2>4, <2>5, <2>6, VersionStep
<1>2. CASE ~Latest.live
    <2>1. TypeOK'
        BY <1>0, <1>2, TypeStep DEF DeleteEmptyBatch, Requeue, TypeOK
    <2> QED
        BY <1>2, <2>1, GivingUpAgrees, WriterStep DEF DeleteEmptyBatch, Requeue
<1> QED
    BY <1>1, <1>2

\* The batch is written on the version read, while no pod is labelled and no callback pends.
LEMMA FillInv ==
    ASSUME IInv, FillBatch
    PROVE  IInv'
<1> USE ReadsAreVersions, TypesOfParts DEF bounds
<1>0. TypeOK /\ {callbacks, faults, crashes} \subseteq Nat
    BY DEF IInv, TypeOK
<1>1. Latest = Cached /\ Latest.status = ExecuteInit /\ Latest.podInfos = {}
    BY DEF FillBatch, Take, Fresh, Latest, Cached
<1>2. PICK batch \in SUBSET Unprocessed :
          /\ hist' = IF batch = {} THEN hist ELSE Append(hist, [Cached EXCEPT !.podInfos = batch])
          /\ rec' = [pc |-> "write", base |-> Len(hist'), todo |-> batch, want |-> "PreWait"]
    BY DEF FillBatch
<1>3. queued' = FALSE /\ UNCHANGED <<cache, handler, timer, pod, podCache, finishSent, bounds>>
    BY DEF FillBatch
<1>4. batch \subseteq Pods
    BY DEF Unprocessed
<1>5. CASE batch = {}
    <2>1. hist' = hist /\ rec' = [pc |-> "write", base |-> Len(hist), todo |-> {}, want |-> "PreWait"]
        BY <1>2, <1>5
    <2>2. RecType(rec', Len(hist'))
        BY <1>0, <2>1 DEF RecType, Statuses
    <2>3. TypeOK'
        BY <1>0, <1>3, <2>1, <2>2, TypeStep DEF TypeOK
    <2>4. WritersAgree'
        <3>1. Latest' = Latest /\ Len(hist) > 0 /\ Latest = hist[Len(hist)]
            BY <1>0, <2>1 DEF Latest
        <3>2. "PreWait" \in Statuses \ {ExecuteInit, NoWant}
            BY DEF Statuses, ExecuteInit, NoWant
        <3> QED
            BY <1>1, <1>3, <2>1, <3>1, <3>2 DEF IInv, WritersAgree
    <2> QED
        BY <1>3, <2>1, <2>3, <2>4, WriterStep
<1>6. CASE batch # {}
    <2> DEFINE v == [Latest EXCEPT !.podInfos = batch]
    <2>1. v \in Version /\ v.status = Latest.status /\ v.podInfos = batch
        BY <1>0, <1>4 DEF Version
    <2>2. /\ hist' = Append(hist, v)
          /\ rec' = [pc |-> "write", base |-> Len(hist'), todo |-> batch, want |-> "PreWait"]
        BY <1>1, <1>2, <1>6
    <2> HIDE DEF v
    <2>3. /\ Len(hist') = Len(hist) + 1 /\ hist'[Len(hist')] = v /\ Latest' = v
          /\ \A i \in 1 .. Len(hist) : hist'[i] = hist[i]
        BY <1>0, <2>1, <2>2, AppendVersion DEF TypeOK, Latest
    <2>4. RecType(rec', Len(hist'))
        BY <1>0, <1>4, <2>2, <2>3 DEF RecType, Statuses
    <2>5. TypeOK'
        BY <1>0, <1>3, <2>1, <2>2, <2>4, TypeStep DEF TypeOK
    <2>6. WritersAgree'
        <3>1. timer \in 0 .. Len(hist)
            BY <1>0 DEF TypeOK
        <3>2. \A h \in Handlers : handler[h] = NoCall
            BY <1>1 DEF IInv, WritersAgree
        <3>3. "PreWait" \in Statuses \ {ExecuteInit, NoWant} /\ Len(hist) + 1 > 0
            BY <1>0 DEF Statuses, ExecuteInit, NoWant
        <3>4. timer # 0 => hist'[timer].status \in Submitted
            BY <1>0, <2>3, <3>1 DEF IInv, WritersAgree
        <3> QED
            BY <1>3, <2>1, <2>2, <2>3, <3>2, <3>3, <3>4 DEF WritersAgree
    <2> QED
        BY <1>1, <1>3, <2>1, <2>2, <2>5, <2>6, VersionStep, <1>0 DEF ExecuteInit
<1> QED
    BY <1>5, <1>6

\* A callback's patch applies to the latest version, which has left Init.
LEMMA CallbackInv ==
    ASSUME IInv, NEW h \in Handlers, CallbackPatch(h)
    PROVE  IInv'
<1> USE ReadsAreVersions, TypesOfParts DEF bounds
<1>0. TypeOK /\ {callbacks, faults, crashes} \subseteq Nat
    BY DEF IInv, TypeOK
<1>1. /\ handler' = [handler EXCEPT ![h] = NoCall]
      /\ UNCHANGED <<cache, queued, rec, timer, pod, podCache, finishSent, bounds>>
    BY DEF CallbackPatch
<1>2. HandlerType(handler') /\ \A k \in Handlers : handler'[k] \in {handler[k], NoCall}
    BY <1>0, <1>1 DEF HandlerType, NoCall, Verdicts
<1>3. CASE Latest.live
    <2> DEFINE v == Patched(Latest, handler[h])
    <2>1. hist' = Append(hist, v)
        BY <1>3 DEF CallbackPatch
    <2>2. /\ v \in Version /\ v.podInfos = Latest.podInfos
          /\ v.status # ExecuteInit /\ v.status # "ExecuteDone"
        BY <1>0, PatchedVersion DEF TypeOK, ExecuteInit
    <2>3. Latest.status # ExecuteInit
        BY DEF CallbackPatch, IInv, WritersAgree
    <2> HIDE DEF v
    <2>4. RecType(rec', Len(hist'))
        BY <1>0, <1>1, <2>1, <2>2, AppendVersion DEF TypeOK
    <2>5. TypeOK'
        BY <1>0, <1>1, <1>2, <2>1, <2>2, <2>4, TypeStep DEF TypeOK
    <2>6. WritersAgree'
        BY <1>1, <1>2, <2>1, <2>2, OthersAgree
    <2>7. \A p \in v.podInfos : pod[p] \in {"defensed", "gone"}
        BY <2>2, <2>3 DEF IInv, InspectedBatchIsLabelled
    <2> QED
        BY <1>1, <2>1, <2>2, <2>5, <2>6, <2>7, VersionStep
<1>4. CASE ~Latest.live
    <2>1. hist' = hist
        BY <1>4 DEF CallbackPatch
    <2>2. TypeOK'
        BY <1>0, <1>1, <1>2, <2>1, TypeStep DEF TypeOK
    <2> QED
        BY <1>1, <1>2, <2>1, <2>2, GivingUpAgrees, WriterStep
<1> QED
    BY <1>3, <1>4

\* The timeout loop's update finds the submitted version it listed, or is refused.
LEMMA TimeoutInv ==
    ASSUME IInv, TimeoutUpdate
    PROVE  IInv'
<1> USE ReadsAreVersions, TypesOfParts DEF bounds
<1>0. TypeOK /\ {callbacks, faults, crashes} \subseteq Nat
    BY DEF IInv, TypeOK
<1>1. timer' = 0 /\ UNCHANGED <<cache, queued, rec, handler, pod, podCache, finishSent, bounds>>
    BY DEF TimeoutUpdate
<1>2. CASE Fresh(timer)
    <2> DEFINE v == TimedOut(Latest)
    <2>1. hist' = Append(hist, v) /\ Latest.status \in Submitted
        BY <1>2 DEF TimeoutUpdate, Fresh, Latest, IInv, WritersAgree
    <2>2. /\ v \in Version /\ v.podInfos = Latest.podInfos
          /\ v.status # ExecuteInit /\ v.status # "ExecuteDone"
        BY <1>0, <2>1, TimedOutVersion DEF ExecuteInit
    <2>3. Latest.status # ExecuteInit
        BY <2>1 DEF Submitted, ExecuteInit
    <2> HIDE DEF v
    <2>4. RecType(rec', Len(hist'))
        BY <1>0, <1>1, <2>1, <2>2, AppendVersion DEF TypeOK
    <2>5. TypeOK'
        BY <1>0, <1>1, <2>1, <2>2, <2>4, TypeStep DEF TypeOK
    <2>6. WritersAgree'
        BY <1>1, <2>1, <2>2, OthersAgree
    <2>7. \A p \in v.podInfos : pod[p] \in {"defensed", "gone"}
        BY <2>2, <2>3 DEF IInv, InspectedBatchIsLabelled
    <2> QED
        BY <1>1, <2>1, <2>2, <2>5, <2>6, <2>7, VersionStep
<1>3. CASE ~Fresh(timer)
    <2>1. hist' = hist
        BY <1>3 DEF TimeoutUpdate
    <2>2. TypeOK'
        BY <1>0, <1>1, <2>1, TypeStep DEF TypeOK
    <2> QED
        BY <1>1, <2>1, <2>2, GivingUpAgrees, WriterStep
<1> QED
    BY <1>2, <1>3

\* A pod of the batch is labelled; the rest of the reconciler's list shrinks by it.
LEMMA LabelInv ==
    ASSUME IInv, NEW p \in Pods, DefenseProcessedPod(p)
    PROVE  IInv'
<1> USE ReadsAreVersions, TypesOfParts DEF bounds
<1>0. TypeOK /\ {callbacks, faults, crashes} \subseteq Nat
    BY DEF IInv, TypeOK
<1>1. p \in rec.todo /\ UNCHANGED <<hist, cache, handler, timer, podCache, finishSent, bounds>>
    BY DEF DefenseProcessedPod
<1>2. CASE PodMissing(p)
    <2>1. TypeOK'
        BY <1>0, <1>2, TypeStep DEF DefenseProcessedPod, Requeue, TypeOK
    <2> QED
        BY <1>2, <2>1, GivingUpAgrees, WriterStep DEF DefenseProcessedPod, Requeue
<1>3. CASE ~PodMissing(p)
    <2>1. /\ pod' = [pod EXCEPT ![p] = IF @ = "gone" THEN @ ELSE "defensed"]
          /\ rec' = [rec EXCEPT !.todo = @ \ {p}] /\ UNCHANGED queued
        BY <1>3 DEF DefenseProcessedPod
    <2>2. /\ pod' \in [Pods -> PodStates] /\ RecType(rec', Len(hist'))
          /\ rec'.pc = rec.pc /\ rec'.base = rec.base /\ rec'.want = rec.want
          /\ rec'.todo = rec.todo \ {p}
        BY <1>0, <1>1, <2>1 DEF TypeOK, PodStates, RecType
    <2>3. /\ pod'[p] \in {"defensed", "gone"}
          /\ \A q \in Pods \ {p} : pod'[q] = pod[q]
        BY <1>0, <2>1 DEF TypeOK
    <2>4. TypeOK'
        BY <1>0, <1>1, <2>1, <2>2, TypeStep DEF TypeOK
    <2>5. Latest' = Latest /\ p \in Latest.podInfos /\ Latest.podInfos \subseteq Pods
        BY <1>0, <1>1 DEF IInv, WritersAgree, Latest, Version
    <2>6. WritersAgree'
        <3>1. rec.pc = "write" => rec.base \in 1 .. Len(hist)
            BY <1>0 DEF IInv, TypeOK, WritersAgree
        <3>2. rec.pc = "write" => hist[rec.base].podInfos \subseteq Pods
            BY <1>0, <3>1 DEF Version
        <3>3. (rec.pc = "write" /\ rec.want = "PreWait") =>
                  \A q \in hist[rec.base].podInfos \ rec'.todo : pod'[q] \in {"defensed", "gone"}
            BY <2>2, <2>3, <3>2 DEF IInv, WritersAgree
        <3> QED
            BY <1>1, <2>2, <2>5, <3>3 DEF IInv, WritersAgree
    <2>7. HistoryGrows' /\ DoneRecordsOutcome'
        BY <1>1, <2>5 DEF IInv, HistoryGrows, DoneRecordsOutcome
    <2>8. LabelledOnlyInBatch' /\ InspectedBatchIsLabelled'
        BY <2>3, <2>5 DEF IInv, LabelledOnlyInBatch, InspectedBatchIsLabelled
    <2> QED
        BY <2>4, <2>6, <2>7, <2>8 DEF IInv
<1> QED
    BY <1>2, <1>3

\* Every step of the specification keeps the invariant.
LEMMA NextInv == IInv /\ [Next]_vars => IInv'
BY ClusterInv, WriterInv, UpdateInv, DeleteInv, FillInv, CallbackInv, TimeoutInv, LabelInv
   DEF Next, Reconcile

-----------------------------------------------------------------------------
(* Theorems *)

\* The invariant holds in every reachable state.
THEOREM InductiveInvariant == Spec => []IInv
BY InitInv, NextInv, PTL DEF Spec

\* Type correctness: the history holds versions, what the writers hold are indices
\* into it, and a status outside the code's constants is never written.
THEOREM TypeCorrect == Spec => []TypeOK
<1>1. IInv => TypeOK
    BY DEF IInv
<1> QED
    BY <1>1, InductiveInvariant, PTL

\* Whatever fails between the write of Spec.PodInfos and the label patches of
\* markDefensedPods, no pod is labelled that is not in the ChangePod's batch.
THEOREM LabelsFollowBatch == Spec => []LabelledOnlyInBatch
<1>1. IInv => LabelledOnlyInBatch
    BY DEF IInv
<1> QED
    BY <1>1, InductiveInvariant, PTL

\* executeInitChangePodHandle leaves Init only with its whole batch labelled, and no
\* stale writer or late callback gets the ChangePod out of Init before that.
THEOREM BatchLabelledBeforeInspection == Spec => []InspectedBatchIsLabelled
<1>1. IInv => InspectedBatchIsLabelled
    BY DEF IInv
<1> QED
    BY <1>1, InductiveInvariant, PTL

\* handleFinishedChangePod's Message is the status that its own Update replaced,
\* with any number of callbacks and timeouts racing it.
THEOREM OutcomeIsRecorded == Spec => []DoneRecordsOutcome
<1>1. IInv => DoneRecordsOutcome
    BY DEF IInv
<1> QED
    BY <1>1, InductiveInvariant, PTL
=============================================================================
