----------------------- MODULE ChangePodLifecycleProofs -----------------------
(* Proofs that ChangePod implements ChangePodLifecycle, for every set of pods *)
(* and handlers and every bound.                                              *)
EXTENDS ChangePodProofs

-----------------------------------------------------------------------------
(* What each writer makes of a version *)

\* The reconciler changes a status, notes a node on submission and an outcome on the way out.
LEMMA WantedFields ==
    ASSUME NEW v \in Version, NEW want \in Statuses,
           want = "ExecuteDone" => v.status \in Finished
    PROVE  LET w == Wanted(v, want) IN
           /\ w \in Version /\ w.status = want
           /\ w.live = v.live /\ w.podInfos = v.podInfos /\ w.results = v.results
           /\ w.node => v.node \/ want = "PreSubmitted"
           /\ v.node => w.node
           /\ w.message = IF want = "ExecuteDone" THEN v.status ELSE v.message
BY DEF Wanted, Version

\* A callback changes the status, and the second one stores its verdict.
LEMMA PatchedFields ==
    ASSUME NEW v \in Version, NEW call \in [stage : {"none", "pre", "post"}, verdict : Verdicts]
    PROVE  LET w == Patched(v, call) IN
           /\ w \in Version
           /\ w.status = IF call.stage = "pre" THEN "PostWait" ELSE "PostFinish"
           /\ w.live = v.live /\ w.podInfos = v.podInfos /\ w.node = v.node
           /\ w.message = v.message
           /\ w.results = IF call.stage = "pre" THEN v.results ELSE call.verdict
BY DEF Patched, Version, Statuses, Finished

\* A timeout changes the status only.
LEMMA TimedOutFields ==
    ASSUME NEW v \in Version, v.status \in Submitted
    PROVE  LET w == TimedOut(v) IN
           /\ w \in Version
           /\ w.status = IF v.status = "PreSubmitted" THEN "PreTimeout" ELSE "PostTimeout"
           /\ w.live = v.live /\ w.podInfos = v.podInfos /\ w.node = v.node
           /\ w.message = v.message /\ w.results = v.results
BY DEF TimedOut, Version, Statuses, Finished, Submitted

\* The indices that the writers hold are of stored versions.
LEMMA HeldVersions ==
    ASSUME IInv
    PROVE  /\ TypeOK /\ Latest \in Version /\ Cached \in Version
           /\ Len(hist) \in Nat \ {0} /\ cache \in 1 .. Len(hist)
           /\ rec.pc = "write" => rec.base \in 1 .. Len(hist)
           /\ timer # 0 => timer \in 1 .. Len(hist)
BY ReadsAreVersions DEF IInv, TypeOK, WritersAgree

-----------------------------------------------------------------------------
(* The additional parts of the invariant *)

Life == /\ WritesFollowEdges
        /\ NodesFollowStart
        /\ InitIsLeftOnce
        /\ OutcomeHasCause

\* A new ChangePod has no node, no outcome and no writer.
LEMMA InitLife == Init => LifeInv
<1> SUFFICES ASSUME Init PROVE LifeInv
    OBVIOUS
<1> DEFINE v0 == [live |-> TRUE, status |-> ExecuteInit, message |-> "none",
                  podInfos |-> {}, node |-> FALSE, results |-> "none"]
<1>1. hist = <<v0>> /\ Len(hist) = 1 /\ Latest = v0
    BY DEF Init, Latest
<1>2. /\ rec.pc = "idle" /\ timer = 0 /\ \A h \in Handlers : handler[h] = NoCall
    BY DEF Init, Idle
<1>3. /\ Latest.status = ExecuteInit /\ Latest.message = "none" /\ ~Latest.node
      /\ ~hist[1].node
    BY <1>1
<1>4. WritesFollowEdges
    BY <1>2 DEF WritesFollowEdges
<1>5. NodesFollowStart
    BY <1>1, <1>2, <1>3 DEF NodesFollowStart
<1>6. InitIsLeftOnce
    BY <1>1, <1>2, <1>3 DEF InitIsLeftOnce
<1>7. OutcomeHasCause
    BY <1>3 DEF OutcomeHasCause, ExecuteInit
<1> QED
    BY InitInv, <1>4, <1>5, <1>6, <1>7 DEF LifeInv

\* A step that adds no version and takes up no write.
LEMMA QuietStep ==
    ASSUME LifeInv, UNCHANGED hist, finishSent => finishSent',
           \/ rec'.pc # "write"
           \/ rec'.pc = rec.pc /\ rec'.base = rec.base /\ rec'.want = rec.want,
           timer' \in {timer, 0},
           \A h \in Handlers : handler'[h] \in {handler[h], NoCall},
           hist[cache'].status = ExecuteInit => Cached.status = ExecuteInit
    PROVE  Life'
<1>1. Latest' = Latest /\ Cached' = hist[cache']
    BY DEF Latest, Cached
<1>2. WritesFollowEdges'
    BY DEF LifeInv, WritesFollowEdges
<1>3. NodesFollowStart'
    BY <1>1 DEF LifeInv, NodesFollowStart
<1>4. InitIsLeftOnce'
    BY <1>1 DEF LifeInv, InitIsLeftOnce
<1>5. OutcomeHasCause'
    BY <1>1 DEF LifeInv, OutcomeHasCause
<1> QED
    BY <1>2, <1>3, <1>4, <1>5 DEF Life

\* A step in which a writer reads a version that has left Init.
LEMMA ReadStep ==
    ASSUME LifeInv, UNCHANGED <<hist, cache>>, finishSent => finishSent',
           Cached.status # ExecuteInit, WritesFollowEdges',
           \A h \in Handlers : handler'[h] # NoCall =>
               Latest.node /\ (handler'[h].stage = "post" => finishSent')
    PROVE  Life'
<1>1. Latest' = Latest /\ Cached' = Cached
    BY DEF Latest, Cached
<1>2. NodesFollowStart'
    BY <1>1 DEF LifeInv, NodesFollowStart
<1>3. InitIsLeftOnce'
    BY <1>1 DEF LifeInv, InitIsLeftOnce
<1>4. OutcomeHasCause'
    BY <1>1 DEF LifeInv, OutcomeHasCause
<1> QED
    BY <1>2, <1>3, <1>4 DEF Life

\* A step that adds version v: what v must say of the one it overwrites.
LEMMA LifeVersionStep ==
    ASSUME LifeInv, UNCHANGED <<cache, finishSent>>,
           NEW v \in Version, hist' = Append(hist, v),
           Latest.node => v.node,
           v.node => v.status \in Lifecycle!AfterStart,
           v.status = ExecuteInit => Latest.status = ExecuteInit,
           Cached.status = ExecuteInit => v.status \in {ExecuteInit, "PreWait"},
           "PostFinish" \in {v.status, v.message} =>
               v.results \in Verdicts /\ finishSent /\ v.node,
           \/ rec' \in {rec, Idle}
           \/ /\ rec'.pc = "write" /\ rec'.base = Len(hist) + 1 /\ rec'.want = "PreWait"
              /\ v.live /\ v.status = ExecuteInit,
           timer' \in {timer, 0},
           \A h \in Handlers : handler'[h] \in {handler[h], NoCall}
    PROVE  Life'
<1>1. /\ Len(hist) \in Nat \ {0} /\ Len(hist') = Len(hist) + 1
      /\ hist'[Len(hist) + 1] = v /\ Latest' = v /\ Cached' = Cached
      /\ \A i \in 1 .. Len(hist) : hist'[i] = hist[i]
    BY AppendVersion, HeldVersions DEF LifeInv, TypeOK, Latest, Cached
<1>2. WritesFollowEdges'
    <2>1. timer' # 0 => hist'[timer'].live
        BY <1>1, HeldVersions DEF LifeInv, WritesFollowEdges
    <2>2. CASE rec' = rec
        BY <1>1, <2>1, <2>2, HeldVersions DEF LifeInv, WritesFollowEdges
    <2>3. CASE rec' = Idle
        BY <2>1, <2>3 DEF WritesFollowEdges, Idle
    <2>4. CASE /\ rec'.pc = "write" /\ rec'.base = Len(hist) + 1 /\ rec'.want = "PreWait"
               /\ v.live /\ v.status = ExecuteInit
        BY <1>1, <2>1, <2>4 DEF WritesFollowEdges, Lifecycle!Edges, ExecuteInit
    <2> QED
        BY <2>2, <2>3, <2>4
<1>3. NodesFollowStart'
    <2>1. ASSUME NEW i \in 1 .. Len(hist) + 1, hist'[i].node
          PROVE  v.node /\ hist'[i].status \in Lifecycle!AfterStart
        <3>1. CASE i = Len(hist) + 1
            BY <1>1, <2>1, <3>1
        <3>2. CASE i \in 1 .. Len(hist)
            BY <1>1, <2>1, <3>2 DEF LifeInv, NodesFollowStart
        <3> QED
            BY <1>1, <3>1, <3>2
    <2>2. ASSUME NEW h \in Handlers, handler'[h] # NoCall
          PROVE  v.node /\ (handler'[h].stage = "post" => finishSent')
        BY <2>2 DEF LifeInv, NodesFollowStart
    <2> QED
        BY <1>1, <2>1, <2>2 DEF NodesFollowStart
<1>4. InitIsLeftOnce'
    <2>1. ASSUME NEW i \in 2 .. Len(hist) + 1, hist'[i].status = ExecuteInit
          PROVE  hist'[i - 1].status = ExecuteInit
        <3>1. CASE i = Len(hist) + 1
            BY <1>1, <2>1, <3>1 DEF Latest
        <3>2. CASE i \in 2 .. Len(hist)
            BY <1>1, <2>1, <3>2 DEF LifeInv, InitIsLeftOnce
        <3> QED
            BY <1>1, <3>1, <3>2
    <2>2. Cached.status = ExecuteInit =>
              /\ timer' = 0 /\ \A h \in Handlers : handler'[h] = NoCall
              /\ rec'.pc = "write" => rec'.want = "PreWait"
        BY DEF LifeInv, InitIsLeftOnce, Idle
    <2> QED
        BY <1>1, <2>1, <2>2 DEF InitIsLeftOnce
<1>5. OutcomeHasCause'
    BY <1>1 DEF OutcomeHasCause
<1> QED
    BY <1>2, <1>3, <1>4, <1>5 DEF Life

\* A step that adds no version is a stutter of the life cycle.
LEMMA Stutter == ASSUME UNCHANGED hist PROVE [Lifecycle!AbsNext]_(Lifecycle!absVars)
BY DEF Lifecycle!absVars, Latest

-----------------------------------------------------------------------------
(* Every action keeps the invariant and implements a step of the life cycle *)

AbsStep == [Lifecycle!AbsNext]_(Lifecycle!absVars)

\* The cluster, the informers, and a reconciler that labels a pod or gives up.
LEMMA QuietActions ==
    ASSUME LifeInv,
           \/ \E p \in Pods : PodPublished(p) \/ PodVanishes(p) \/ PodCacheSync(p)
           \/ CacheSync \/ Resync \/ ReconcileNothing \/ UNCHANGED vars
           \/ FillConflict \/ MarkDefensedPods \/ AllRemarked \/ ApiFault \/ Crash
           \/ \E p \in Pods : DefenseProcessedPod(p)
    PROVE  Life' /\ AbsStep
<1> USE DEF bounds
<1>0. Len(hist) \in Nat \ {0} /\ cache \in 1 .. Len(hist) /\ TypeOK
    BY HeldVersions DEF LifeInv
<1>1. UNCHANGED hist
    BY DEF PodPublished, PodVanishes, PodCacheSync, CacheSync, Resync, ReconcileNothing, vars,
           FillConflict, MarkDefensedPods, AllRemarked, ApiFault, Crash, DefenseProcessedPod
<1>2. /\ UNCHANGED finishSent /\ timer' \in {timer, 0}
      /\ \A h \in Handlers : handler'[h] \in {handler[h], NoCall}
    BY DEF PodPublished, PodVanishes, PodCacheSync, CacheSync, Resync, ReconcileNothing, vars,
           FillConflict, MarkDefensedPods, AllRemarked, ApiFault, Crash, DefenseProcessedPod
<1>3. \/ rec'.pc # "write"
      \/ rec'.pc = rec.pc /\ rec'.base = rec.base /\ rec'.want = rec.want
    <2>1. ASSUME NEW p \in Pods, DefenseProcessedPod(p)
          PROVE  \/ rec'.pc # "write"
                 \/ rec'.pc = rec.pc /\ rec'.base = rec.base /\ rec'.want = rec.want
        <3>1. rec' = Idle \/ rec' = [rec EXCEPT !.todo = @ \ {p}]
            BY <2>1 DEF DefenseProcessedPod, Requeue
        <3>2. CASE rec' = Idle
            BY <3>2 DEF Idle
        <3>3. CASE rec' = [rec EXCEPT !.todo = @ \ {p}]
            BY <3>3, <1>0 DEF TypeOK
        <3> QED
            BY <3>1, <3>2, <3>3
    <2>2. CASE MarkDefensedPods
        BY <2>2 DEF MarkDefensedPods
    <2>3. CASE FillConflict \/ AllRemarked \/ ApiFault \/ Crash
        BY <2>3 DEF FillConflict, AllRemarked, ApiFault, Crash, Requeue, Idle
    <2>4. CASE \/ \E p \in Pods : PodPublished(p) \/ PodVanishes(p) \/ PodCacheSync(p)
               \/ CacheSync \/ Resync \/ ReconcileNothing \/ UNCHANGED vars
        BY <2>4 DEF PodPublished, PodVanishes, PodCacheSync, CacheSync, Resync,
                    ReconcileNothing, vars
    <2> QED
        BY <2>1, <2>2, <2>3, <2>4
<1>4. hist[cache'].status = ExecuteInit => Cached.status = ExecuteInit
    <2>1. CASE CacheSync
        <3>1. cache' \in 2 .. Len(hist) /\ cache = cache' - 1
            BY <1>0, <2>1 DEF CacheSync, Fresh
        <3> QED
            BY <3>1 DEF LifeInv, InitIsLeftOnce, Cached
    <2>2. CASE Crash
        BY <1>0, <2>2 DEF Crash, LifeInv, IInv, HistoryGrows, Cached, Latest
    <2>3. CASE UNCHANGED cache
        BY <2>3 DEF Cached
    <2> QED
        BY <2>1, <2>2, <2>3
        DEF PodPublished, PodVanishes, PodCacheSync, Resync, ReconcileNothing, vars,
            FillConflict, MarkDefensedPods, AllRemarked, ApiFault, DefenseProcessedPod
<1>5. Life'
    BY <1>1, <1>2, <1>3, <1>4, QuietStep
<1> QED
    BY <1>1, <1>5, Stutter DEF AbsStep

\* The reconciler, the timeout loop and the callback handler take up a write.
LEMMA ReadActions ==
    ASSUME LifeInv,
           \/ PreWaitChangePodHandle \/ PostWaitChangePodHandle \/ HandleFinishedChangePod
           \/ TimeoutList
           \/ \E h \in Handlers : CheckCallBackHandler(h)
    PROVE  Life' /\ AbsStep
<1> USE DEF bounds
<1>0. Len(hist) \in Nat \ {0} /\ cache \in 1 .. Len(hist) /\ TypeOK
    BY HeldVersions DEF LifeInv
<1>1. UNCHANGED <<hist, cache>> /\ (finishSent => finishSent')
    <2>1. CASE PostWaitChangePodHandle
        <3>1. finishSent' = finishSent \/ finishSent' = TRUE
            BY <2>1 DEF PostWaitChangePodHandle
        <3>2. finishSent => finishSent'
            BY <3>1
        <3>3. UNCHANGED <<hist, cache>>
            BY <2>1 DEF PostWaitChangePodHandle, WillWrite
        <3> QED
            BY <3>2, <3>3
    <2>2. CASE PreWaitChangePodHandle \/ HandleFinishedChangePod
        BY <2>2 DEF PreWaitChangePodHandle, HandleFinishedChangePod, WillWrite
    <2>3. CASE TimeoutList \/ \E h \in Handlers : CheckCallBackHandler(h)
        BY <2>3 DEF TimeoutList, CheckCallBackHandler
    <2> QED
        BY <2>1, <2>2, <2>3
<1>2. Cached.status # ExecuteInit
    BY DEF PreWaitChangePodHandle, PostWaitChangePodHandle, HandleFinishedChangePod, Take,
           TimeoutList, CheckCallBackHandler, Finished, Submitted, ExecuteInit
<1>3. WritesFollowEdges'
    <2>1. ASSUME NEW status, WillWrite(status), Cached.live,
                 \/ <<Cached.status, status>> \in Lifecycle!Edges
                 \/ Cached.status \in Lifecycle!Outcomes /\ status = "ExecuteDone"
          PROVE  WritesFollowEdges'
        <3>1. /\ rec' = [pc |-> "write", base |-> cache, todo |-> {}, want |-> status]
              /\ UNCHANGED <<hist, timer>>
            BY <2>1 DEF WillWrite
        <3> QED
            BY <2>1, <3>1 DEF LifeInv, WritesFollowEdges, Cached
    <2>2. CASE PreWaitChangePodHandle
        BY <2>1, <2>2 DEF PreWaitChangePodHandle, Take, Lifecycle!Edges
    <2>3. CASE PostWaitChangePodHandle
        BY <2>1, <2>3 DEF PostWaitChangePodHandle, Take, Lifecycle!Edges
    <2>4. CASE HandleFinishedChangePod
        BY <2>1, <2>4 DEF HandleFinishedChangePod, Take, Lifecycle!Outcomes, Finished
    <2>5. CASE TimeoutList
        BY <2>5 DEF TimeoutList, Cached, LifeInv, WritesFollowEdges
    <2>6. CASE \E h \in Handlers : CheckCallBackHandler(h)
        BY <2>6 DEF CheckCallBackHandler, LifeInv, WritesFollowEdges
    <2> QED
        BY <2>2, <2>3, <2>4, <2>5, <2>6
<1>4. ASSUME NEW k \in Handlers, handler'[k] # NoCall
      PROVE  Latest.node /\ (handler'[k].stage = "post" => finishSent')
    <2>1. CASE UNCHANGED handler
        BY <1>1, <1>4, <2>1 DEF LifeInv, NodesFollowStart
    <2>2. ASSUME NEW h \in Handlers, CheckCallBackHandler(h)
          PROVE  Latest.node /\ (handler'[k].stage = "post" => finishSent')
        <3>1. Latest.node
            BY <1>0, <2>2 DEF CheckCallBackHandler, Cached, LifeInv, NodesFollowStart
        <3>2. PICK stage \in {"pre", "post"}, verdict \in Verdicts :
                  /\ handler' = [handler EXCEPT ![h] = [stage |-> stage, verdict |-> verdict]]
                  /\ stage = "post" => finishSent
            BY <2>2 DEF CheckCallBackHandler, Verdicts
        <3>3. handler'[k] \in {handler[k], [stage |-> stage, verdict |-> verdict]}
            BY <1>0, <3>2 DEF TypeOK
        <3>4. CASE handler'[k] = handler[k]
            BY <1>1, <1>4, <3>1, <3>4 DEF LifeInv, NodesFollowStart
        <3>5. CASE handler'[k] = [stage |-> stage, verdict |-> verdict]
            BY <1>1, <3>1, <3>2, <3>5
        <3> QED
            BY <3>3, <3>4, <3>5
    <2> QED
        BY <2>1, <2>2 DEF PreWaitChangePodHandle, PostWaitChangePodHandle,
                          HandleFinishedChangePod, WillWrite, TimeoutList
<1>5. Life'
    BY <1>1, <1>2, <1>3, <1>4, ReadStep
<1> QED
    BY <1>1, <1>5, Stutter DEF AbsStep

\* The version that a step adds is the one that readers of the API server see next.
LEMMA LatestIsAppended ==
    ASSUME LifeInv, NEW v \in Version, hist' = Append(hist, v)
    PROVE  Latest' = v
BY AppendVersion, HeldVersions DEF LifeInv, TypeOK, Latest

\* The node and the cause of a version hold of the one it overwrites.
LEMMA LatestLife ==
    ASSUME LifeInv
    PROVE  /\ Latest.node => Latest.status \in Lifecycle!AfterStart
           /\ "PostFinish" \in {Latest.status, Latest.message} =>
                  Latest.results \in Verdicts /\ finishSent /\ Latest.node
BY HeldVersions DEF LifeInv, NodesFollowStart, OutcomeHasCause, Latest

\* An update of the reconciler finds the version it read, and takes it along an edge.
LEMMA UpdateLife ==
    ASSUME LifeInv, UpdateChangePodStatus
    PROVE  Life' /\ AbsStep
<1>0. IInv /\ TypeOK /\ Latest \in Version /\ Len(hist) \in Nat \ {0}
    BY HeldVersions DEF LifeInv
<1>1. CASE Fresh(rec.base)
    <2> DEFINE v == Wanted(Latest, rec.want)
    <2>1. /\ hist' = Append(hist, v) /\ rec' = Idle /\ rec.pc = "write"
          /\ UNCHANGED <<cache, handler, timer, finishSent>>
        BY <1>1 DEF UpdateChangePodStatus, Fresh, Latest
    <2>2. /\ rec.want \in Statuses \ {ExecuteInit}
          /\ rec.want = "ExecuteDone" => Latest.status \in Finished
          /\ Latest.live
          /\ \/ <<Latest.status, rec.want>> \in Lifecycle!Edges
             \/ Latest.status \in Lifecycle!Outcomes /\ rec.want = "ExecuteDone"
        BY <1>0, <1>1, <2>1 DEF Fresh, Latest, IInv, LifeInv, WritersAgree, WritesFollowEdges
    <2>3. /\ v \in Version /\ v.status = rec.want
          /\ v.live = Latest.live /\ v.podInfos = Latest.podInfos /\ v.results = Latest.results
          /\ v.node => Latest.node \/ rec.want = "PreSubmitted"
          /\ Latest.node => v.node
          /\ v.message = IF rec.want = "ExecuteDone" THEN Latest.status ELSE Latest.message
        <3> DEFINE want == rec.want
        <3>1. want \in Statuses /\ (want = "ExecuteDone" => Latest.status \in Finished)
            BY <2>2
        <3> HIDE DEF want
        <3>2. LET w == Wanted(Latest, want) IN
              /\ w \in Version /\ w.status = want
              /\ w.live = Latest.live /\ w.podInfos = Latest.podInfos /\ w.results = Latest.results
              /\ w.node => Latest.node \/ want = "PreSubmitted"
              /\ Latest.node => w.node
              /\ w.message = IF want = "ExecuteDone" THEN Latest.status ELSE Latest.message
            BY <1>0, <3>1, WantedFields
        <3> QED
            BY <3>2 DEF want
    <2> HIDE DEF v
    <2>4. v.node => v.status \in Lifecycle!AfterStart
        <3>1. CASE rec.want = "PreSubmitted"
            BY <2>3, <3>1 DEF Lifecycle!AfterStart
        <3>2. CASE Latest.node /\ rec.want # "PreSubmitted"
            BY <2>2, <2>3, <3>2, LatestLife
               DEF Lifecycle!AfterStart, Lifecycle!Edges, Lifecycle!Outcomes
        <3> QED
            BY <2>3, <3>1, <3>2
    <2>5. Cached.status = ExecuteInit => v.status \in {ExecuteInit, "PreWait"}
        BY <2>1, <2>3 DEF LifeInv, InitIsLeftOnce
    <2>6. v.status # "PostFinish" /\ v.status # ExecuteInit
        BY <2>2, <2>3 DEF Lifecycle!Edges
    <2>7. "PostFinish" \in {v.status, v.message} =>
              v.results \in Verdicts /\ finishSent /\ v.node
        BY <2>3, <2>6, LatestLife
    <2>8. Life'
        BY <2>1, <2>3, <2>4, <2>5, <2>6, <2>7, LifeVersionStep
    <2>9. AbsStep
        <3>1. Latest' = v
            BY <2>1, <2>3, LatestIsAppended
        <3>2. CASE <<Latest.status, rec.want>> \in Lifecycle!Edges
            <4>1. rec.want # "ExecuteDone"
                BY <3>2 DEF Lifecycle!Edges
            <4> QED
                BY <2>2, <2>3, <3>1, <3>2, <4>1 DEF AbsStep, Lifecycle!AbsNext, Lifecycle!Advance
        <3>3. CASE Latest.status \in Lifecycle!Outcomes /\ rec.want = "ExecuteDone"
            BY <2>2, <2>3, <3>1, <3>3 DEF AbsStep, Lifecycle!AbsNext, Lifecycle!Finish
        <3> QED
            BY <2>2, <3>2, <3>3
    <2> QED
        BY <2>8, <2>9
<1>2. CASE ~Fresh(rec.base)
    <2>1. UNCHANGED <<hist, cache, handler, timer, finishSent>> /\ rec' = Idle
        BY <1>2 DEF UpdateChangePodStatus, Requeue
    <2>2. hist[cache'].status = ExecuteInit => Cached.status = ExecuteInit
        BY <2>1 DEF Cached
    <2>3. Life'
        BY <2>1, <2>2, QuietStep DEF Idle
    <2> QED
        BY <2>1, <2>3, Stutter DEF AbsStep
<1> QED
    BY <1>1, <1>2

\* An empty batch is deleted while the ChangePod has not been submitted.
LEMMA DeleteLife ==
    ASSUME LifeInv, DeleteEmptyBatch
    PROVE  Life' /\ AbsStep
<1>0. IInv /\ TypeOK /\ Latest \in Version /\ Len(hist) \in Nat \ {0}
    BY HeldVersions DEF LifeInv
<1>1. UNCHANGED <<cache, handler, timer, finishSent>> /\ rec' = Idle
    BY DEF DeleteEmptyBatch, Requeue
<1>2. Cached.status = ExecuteInit /\ Latest.status \in {ExecuteInit, "PreWait"}
    BY DEF DeleteEmptyBatch, Take, LifeInv, InitIsLeftOnce
<1>3. CASE Latest.live
    <2> DEFINE v == [Latest EXCEPT !.live = FALSE]
    <2>1. hist' = Append(hist, v)
        BY <1>3 DEF DeleteEmptyBatch
    <2>2. /\ v \in Version /\ v.live = FALSE /\ v.status = Latest.status
          /\ v.podInfos = Latest.podInfos /\ v.results = Latest.results
          /\ v.node = Latest.node /\ v.message = Latest.message
        BY <1>0 DEF Version
    <2> HIDE DEF v
    <2>3. Life'
        BY <1>1, <1>2, <2>1, <2>2, LatestLife, LifeVersionStep
    <2>4. Latest' = v
        BY <2>1, <2>2, LatestIsAppended
    <2> QED
        BY <1>2, <1>3, <2>2, <2>3, <2>4
        DEF AbsStep, Lifecycle!AbsNext, Lifecycle!Discard, ExecuteInit
<1>4. CASE ~Latest.live
    <2>1. UNCHANGED hist
        BY <1>4 DEF DeleteEmptyBatch
    <2>2. hist[cache'].status = ExecuteInit => Cached.status = ExecuteInit
        BY <1>2
    <2>3. Life'
        BY <1>1, <2>1, <2>2, QuietStep DEF Idle
    <2> QED
        BY <2>1, <2>3, Stutter DEF AbsStep
<1> QED
    BY <1>3, <1>4

\* The batch is written on a ChangePod that shows Init and has none.
LEMMA FillLife ==
    ASSUME LifeInv, FillBatch
    PROVE  Life' /\ AbsStep
<1>0. IInv /\ TypeOK /\ Latest \in Version /\ Len(hist) \in Nat \ {0}
    BY HeldVersions DEF LifeInv
<1>1. /\ Latest = Cached /\ Latest.live /\ Latest.status = ExecuteInit /\ Latest.podInfos = {}
      /\ UNCHANGED <<cache, handler, timer, finishSent>>
    BY DEF FillBatch, Take, Fresh, Latest, Cached
<1>2. PICK batch \in SUBSET Unprocessed :
          /\ hist' = IF batch = {} THEN hist ELSE Append(hist, [Cached EXCEPT !.podInfos = batch])
          /\ rec' = [pc |-> "write", base |-> Len(hist'), todo |-> batch, want |-> "PreWait"]
    BY DEF FillBatch
<1>3. batch \in SUBSET Pods
    BY DEF Unprocessed
<1>4. CASE batch = {}
    <2>1. UNCHANGED hist
        BY <1>2, <1>4
    <2>2. /\ rec'.pc = "write" /\ rec'.base = Len(hist) /\ rec'.want = "PreWait"
        BY <1>2, <2>1
    <2>3. WritesFollowEdges'
        BY <1>1, <2>1, <2>2
        DEF LifeInv, WritesFollowEdges, Latest, Lifecycle!Edges, ExecuteInit
    <2>4. NodesFollowStart' /\ OutcomeHasCause'
        BY <1>1, <2>1 DEF LifeInv, NodesFollowStart, OutcomeHasCause, Latest
    <2>5. InitIsLeftOnce'
        BY <1>1, <2>1, <2>2 DEF LifeInv, InitIsLeftOnce, Latest, Cached
    <2> QED
        BY <2>1, <2>3, <2>4, <2>5, Stutter DEF AbsStep, Life
<1>5. CASE batch # {}
    <2> DEFINE v == [Latest EXCEPT !.podInfos = batch]
    <2>1. /\ v \in Version /\ v.live = Latest.live /\ v.status = Latest.status
          /\ v.podInfos = batch /\ v.results = Latest.results
          /\ v.node = Latest.node /\ v.message = Latest.message
        BY <1>0, <1>3 DEF Version
    <2>2. hist' = Append(hist, v)
        BY <1>1, <1>2, <1>5
    <2> HIDE DEF v
    <2>3. /\ rec'.pc = "write" /\ rec'.base = Len(hist) + 1 /\ rec'.want = "PreWait"
        BY <1>0, <1>2, <2>1, <2>2, AppendVersion DEF TypeOK
    <2>4. Life'
        BY <1>1, <2>1, <2>2, <2>3, LatestLife, LifeVersionStep
    <2>5. Latest' = v
        BY <2>1, <2>2, LatestIsAppended
    <2> QED
        BY <1>1, <1>3, <1>5, <2>1, <2>4, <2>5
        DEF AbsStep, Lifecycle!AbsNext, Lifecycle!Collect, ExecuteInit
<1> QED
    BY <1>4, <1>5

\* A callback's patch lands on a ChangePod that was submitted.
LEMMA CallbackLife ==
    ASSUME LifeInv, NEW h \in Handlers, CallbackPatch(h)
    PROVE  Life' /\ AbsStep
<1>0. IInv /\ TypeOK /\ Latest \in Version /\ Len(hist) \in Nat \ {0}
    BY HeldVersions DEF LifeInv
<1>1. /\ handler' = [handler EXCEPT ![h] = NoCall] /\ handler[h] # NoCall
      /\ UNCHANGED <<cache, rec, timer, finishSent>>
    BY DEF CallbackPatch
<1>2. \A k \in Handlers : handler'[k] \in {handler[k], NoCall}
    BY <1>0, <1>1 DEF TypeOK
<1>3. /\ handler[h] \in [stage : {"none", "pre", "post"}, verdict : Verdicts]
      /\ handler[h].verdict \in Verdicts /\ handler[h].stage \in {"pre", "post"}
    BY <1>0, <1>1 DEF TypeOK, IInv, WritersAgree
<1>4. Latest.node /\ (handler[h].stage = "post" => finishSent) /\ Cached.status # ExecuteInit
    BY <1>1 DEF LifeInv, NodesFollowStart, InitIsLeftOnce
<1>5. CASE Latest.live
    <2> DEFINE v == Patched(Latest, handler[h])
    <2>1. hist' = Append(hist, v)
        BY <1>5 DEF CallbackPatch
    <2>2. /\ v \in Version
          /\ v.status = IF handler[h].stage = "pre" THEN "PostWait" ELSE "PostFinish"
          /\ v.live = Latest.live /\ v.podInfos = Latest.podInfos /\ v.node = Latest.node
          /\ v.message = Latest.message
          /\ v.results = IF handler[h].stage = "pre" THEN Latest.results ELSE handler[h].verdict
        BY <1>0, <1>3, PatchedFields
    <2> HIDE DEF v
    <2>3. v.status \in {"PostWait", "PostFinish"} /\ v.status # ExecuteInit
        BY <2>2 DEF ExecuteInit
    <2>4. v.status \in Lifecycle!AfterStart
        BY <2>3 DEF Lifecycle!AfterStart
    <2>5. "PostFinish" \in {v.status, v.message} =>
              v.results \in Verdicts /\ finishSent /\ v.node
        BY <1>3, <1>4, <2>2, LatestLife
    <2>6. Life'
        BY <1>1, <1>2, <1>4, <2>1, <2>2, <2>3, <2>4, <2>5, LifeVersionStep
    <2>7. Latest' = v
        BY <2>1, <2>2, LatestIsAppended
    <2> QED
        BY <1>4, <1>5, <2>2, <2>3, <2>6, <2>7, LatestLife
        DEF AbsStep, Lifecycle!AbsNext, Lifecycle!Callback
<1>6. CASE ~Latest.live
    <2>1. UNCHANGED hist
        BY <1>6 DEF CallbackPatch
    <2>2. hist[cache'].status = ExecuteInit => Cached.status = ExecuteInit
        BY <1>1 DEF Cached
    <2>3. Life'
        BY <1>1, <1>2, <2>1, <2>2, QuietStep
    <2> QED
        BY <2>1, <2>3, Stutter DEF AbsStep
<1> QED
    BY <1>5, <1>6

\* The timeout loop's update finds the submitted version that it listed.
LEMMA TimeoutLife ==
    ASSUME LifeInv, TimeoutUpdate
    PROVE  Life' /\ AbsStep
<1>0. IInv /\ TypeOK /\ Latest \in Version /\ Len(hist) \in Nat \ {0}
    BY HeldVersions DEF LifeInv
<1>1. timer # 0 /\ timer' = 0 /\ UNCHANGED <<cache, rec, handler, finishSent>>
    BY DEF TimeoutUpdate
<1>2. Cached.status # ExecuteInit
    BY <1>1 DEF LifeInv, InitIsLeftOnce
<1>3. CASE Fresh(timer)
    <2> DEFINE v == TimedOut(Latest)
    <2>1. hist' = Append(hist, v) /\ Latest.live /\ Latest.status \in Submitted
        BY <1>0, <1>1, <1>3
        DEF TimeoutUpdate, Fresh, Latest, IInv, LifeInv, WritersAgree, WritesFollowEdges
    <2>2. /\ v \in Version
          /\ v.status = IF Latest.status = "PreSubmitted" THEN "PreTimeout" ELSE "PostTimeout"
          /\ v.live = Latest.live /\ v.podInfos = Latest.podInfos /\ v.node = Latest.node
          /\ v.message = Latest.message /\ v.results = Latest.results
        BY <1>0, <2>1, TimedOutFields
    <2> HIDE DEF v
    <2>3. v.status \in {"PreTimeout", "PostTimeout"}
        BY <2>2
    <2>4. v.status \in Lifecycle!AfterStart /\ v.status # ExecuteInit /\ v.status # "PostFinish"
        BY <2>3 DEF Lifecycle!AfterStart, ExecuteInit
    <2>5. Life'
        BY <1>1, <1>2, <2>1, <2>2, <2>4, LatestLife, LifeVersionStep
    <2>6. Latest' = v /\ <<Latest.status, v.status>> \in Lifecycle!Edges
        BY <2>1, <2>2, LatestIsAppended DEF Submitted, Lifecycle!Edges
    <2> QED
        BY <2>1, <2>2, <2>5, <2>6 DEF AbsStep, Lifecycle!AbsNext, Lifecycle!Advance
<1>4. CASE ~Fresh(timer)
    <2>1. UNCHANGED hist
        BY <1>4 DEF TimeoutUpdate
    <2>2. hist[cache'].status = ExecuteInit => Cached.status = ExecuteInit
        BY <1>1 DEF Cached
    <2>3. Life'
        BY <1>1, <2>1, <2>2, QuietStep
    <2> QED
        BY <2>1, <2>3, Stutter DEF AbsStep
<1> QED
    BY <1>3, <1>4

\* Every step keeps the invariant and is one of the life cycle's, or none.
LEMMA NextLife == LifeInv /\ [Next]_vars => LifeInv' /\ AbsStep
<1> SUFFICES ASSUME LifeInv, [Next]_vars PROVE LifeInv' /\ AbsStep
    OBVIOUS
<1>1. Life' /\ AbsStep
    BY QuietActions, ReadActions, UpdateLife, DeleteLife, FillLife, CallbackLife, TimeoutLife
       DEF Next, Reconcile
<1>2. IInv'
    BY NextInv DEF LifeInv
<1> QED
    BY <1>1, <1>2 DEF Life, LifeInv

-----------------------------------------------------------------------------
(* Theorems *)

\* The invariant holds in every reachable state.
THEOREM LifecycleInvariant == Spec => []LifeInv
BY InitLife, NextLife, PTL DEF Spec

\* However callbacks, timeouts and restarts race, a ChangePod that shows PostFinish, or
\* was done from it, has the platform's verdict on a finish notification it accepted.
THEOREM OutcomesHaveCause == Spec => []OutcomeHasCause
<1>1. LifeInv => OutcomeHasCause
    BY DEF LifeInv
<1> QED
    BY <1>1, LifecycleInvariant, PTL

\* The writes of the reconciler, the callback handler and the timeout loop, each made
\* from a cache that may be stale, implement the life cycle of ChangePodLifecycle.
THEOREM LifecycleIsRefined == Spec => LifecycleRefined
<1>1. Init => Lifecycle!AbsInit
    <2> SUFFICES ASSUME Init PROVE Lifecycle!AbsInit
        OBVIOUS
    <2> DEFINE v0 == [live |-> TRUE, status |-> ExecuteInit, message |-> "none",
                      podInfos |-> {}, node |-> FALSE, results |-> "none"]
    <2>1. Latest = v0
        BY DEF Init, Latest
    <2> QED
        BY <2>1 DEF Lifecycle!AbsInit, ExecuteInit
<1>2. LifeInv /\ [Next]_vars => [Lifecycle!AbsNext]_(Lifecycle!absVars)
    BY NextLife DEF AbsStep
<1> QED
    BY <1>1, <1>2, LifecycleInvariant, PTL DEF Spec, LifecycleRefined, Lifecycle!AbsSpec
=============================================================================
