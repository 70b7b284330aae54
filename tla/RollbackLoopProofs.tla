-------------------------- MODULE RollbackLoopProofs --------------------------
(***************************************************************************)
(* Theorems about RollbackLoop for any deployments, versions and bounds:    *)
(* the loop takes the template only from a deployment that is unhealthy     *)
(* when it writes.                                                          *)
(***************************************************************************)
EXTENDS RollbackLoop, TLAPS

Steps == [pc : {"idle", "next", "choose", "update"}, todo : SUBSET ReplicaSets,
          at : ReplicaSets \cup {<<>>}, target : Versions, fresh : BOOLEAN]

\* A loop that waits for its timer is in one of the states of the loop.
LEMMA IdleLoopType == IdleLoop \in Steps
BY RollbackLoopAssumption DEF IdleLoop, Steps

\* The loop has looked at nothing yet.
LEMMA InitInv == Init => IInv
<1> SUFFICES ASSUME Init PROVE IInv
    OBVIOUS
<1>1. template \in [Deployments -> Versions]
    BY RollbackLoopAssumption DEF Init
<1>2. loop \in Steps /\ loop.pc = "idle"
    BY IdleLoopType DEF Init, IdleLoop
<1>3. rs \in [ReplicaSets -> PodsStates]
    BY DEF Init, PodsStates
<1> QED
    BY <1>1, <1>2, <1>3 DEF Init, IInv, TypeOK, CopyIsUnhealthy, Steps

\* A write of a deployment by others leaves the loop where it is, with a copy that is
\* no fresher, and none of that deployment.
LEMMA TouchedLoop ==
    ASSUME TypeOK, NEW d \in Deployments, loop' = Touched(d)
    PROVE  /\ loop' \in Steps /\ loop'.pc = loop.pc /\ loop'.at = loop.at
           /\ loop'.target = loop.target
           /\ loop'.fresh => loop.fresh /\ loop.at[1] # d
BY DEF TypeOK, Touched, Steps

\* A loop that has returned has no copy.
LEMMA TouchedIdle ==
    ASSUME NEW d, loop = IdleLoop, loop' = Touched(d)
    PROVE  loop' = IdleLoop
<1>1. loop.fresh = FALSE
    BY DEF IdleLoop
<1>2. loop' = [loop EXCEPT !.fresh = FALSE]
    BY <1>1 DEF Touched
<1> QED
    BY <1>2 DEF IdleLoop

\* Users, the suspend label and the cluster.
LEMMA ClusterInv ==
    ASSUME IInv, NEW d \in Deployments, NEW v \in Versions, NEW r \in ReplicaSets,
           \/ Release(d, v) \/ ScaleDown(d, v) \/ AddOrRemoveDeploymentSuspendLabel(d)
           \/ ScaleUp(d) \/ SyncStatus(d) \/ PodsProgress(r) \/ Evict(r)
    PROVE  IInv'
<1>0. /\ TypeOK /\ CopyIsUnhealthy
      /\ template \in [Deployments -> Versions] /\ rs \in [ReplicaSets -> PodsStates]
      /\ suspend \in [Deployments -> BOOLEAN] /\ healthy \in [Deployments -> BOOLEAN]
      /\ loop \in Steps
    BY DEF IInv, TypeOK, Steps
<1>1. CASE Release(d, v) \/ AddOrRemoveDeploymentSuspendLabel(d)
    <2>1. loop' = Touched(d) /\ UNCHANGED <<healthy, rs, evicted, running, evictions, mishaps>>
        BY <1>1 DEF Release, AddOrRemoveDeploymentSuspendLabel, bounds
    <2>2. template' \in [Deployments -> Versions] /\ suspend' \in [Deployments -> BOOLEAN]
          /\ releases' \in Nat
        <3>1. releases \in Nat
            BY DEF IInv, TypeOK
        <3>2. CASE Release(d, v)
            BY <1>0, <3>1, <3>2 DEF Release
        <3>3. CASE AddOrRemoveDeploymentSuspendLabel(d)
            BY <1>0, <3>1, <3>3 DEF AddOrRemoveDeploymentSuspendLabel, bounds
        <3> QED
            BY <1>1, <3>2, <3>3
    <2>3. CopyIsUnhealthy'
        BY <1>0, <2>1, TouchedLoop DEF CopyIsUnhealthy
    <2>4. ~running' => loop' = IdleLoop
        BY <1>0, <2>1, TouchedIdle DEF TypeOK
    <2> QED
        BY <1>0, <2>1, <2>2, <2>3, <2>4, TouchedLoop DEF IInv, TypeOK, Steps
<1>2. CASE SyncStatus(d)
    <2>1. loop' = Touched(d) /\ UNCHANGED <<template, suspend, rs, evicted, running, bounds>>
          /\ healthy' = [healthy EXCEPT ![d] = Health(d)] /\ Health(d) \in BOOLEAN
        BY <1>2 DEF SyncStatus, Health
    <2>2. healthy' \in [Deployments -> BOOLEAN]
        BY <1>0, <2>1
    <2>3. CopyIsUnhealthy'
        BY <1>0, <2>1, TouchedLoop DEF CopyIsUnhealthy
    <2>4. ~running' => loop' = IdleLoop
        BY <1>0, <2>1, TouchedIdle DEF TypeOK
    <2> QED
        BY <1>0, <2>1, <2>2, <2>3, <2>4, TouchedLoop DEF IInv, TypeOK, Steps, bounds
<1>3. ASSUME NEW q \in ReplicaSets, NEW states \in SUBSET PodsStates, Becomes(q, states),
             evicted' \subseteq ReplicaSets, evictions' \in Nat
      PROVE  IInv'
    <2>1. rs' \in [ReplicaSets -> PodsStates]
        BY <1>0, <1>3 DEF Becomes
    <2> QED
        BY <1>0, <1>3, <2>1 DEF Becomes, IInv, TypeOK, CopyIsUnhealthy
<1>4. CASE ScaleDown(d, v)
    BY <1>0, <1>3, <1>4 DEF ScaleDown, ReplicaSets, PodsStates, TypeOK
<1>5. CASE ScaleUp(d)
    <2>1. <<d, template[d]>> \in ReplicaSets
        BY <1>0 DEF ReplicaSets
    <2> QED
        BY <1>0, <1>3, <1>5, <2>1 DEF ScaleUp, PodsStates, TypeOK
<1>6. CASE PodsProgress(r)
    BY <1>0, <1>3, <1>6 DEF PodsProgress, PodsStates, TypeOK
<1>7. CASE Evict(r)
    BY <1>0, <1>3, <1>7 DEF Evict, PodsStates, TypeOK
<1> QED
    BY <1>1, <1>2, <1>4, <1>5, <1>6, <1>7

\* The loop and restarts.
LEMMA LoopInv ==
    ASSUME IInv, Loop \/ Crash
    PROVE  IInv'
<1>0. /\ TypeOK /\ loop \in Steps /\ template \in [Deployments -> Versions]
      /\ IdleLoop \in Steps /\ IdleLoop.pc = "idle"
    BY IdleLoopType DEF IInv, TypeOK, Steps, IdleLoop
<1>1. CASE GetNonRunningPods
    <2>1. loop' = [loop EXCEPT !.pc = "next", !.todo = Abnormal] /\ Abnormal \in SUBSET ReplicaSets
        BY <1>1 DEF GetNonRunningPods, Abnormal
    <2>2. loop' \in Steps /\ loop'.pc = "next" /\ running'
        BY <1>0, <1>1, <2>1 DEF Steps, GetNonRunningPods
    <2> QED
        BY <1>0, <1>1, <2>2 DEF GetNonRunningPods, IInv, TypeOK, CopyIsUnhealthy, Steps, bounds
<1>2. ASSUME NEW r \in ReplicaSets, CheckDeploymentStatus(r)
      PROVE  IInv'
    <2>1. CASE healthy[r[1]]
        BY <1>0, <1>2, <2>1 DEF CheckDeploymentStatus, IInv, TypeOK, CopyIsUnhealthy, Steps, bounds
    <2>2. CASE ~healthy[r[1]]
        <3>1. loop' = [loop EXCEPT !.pc = "choose", !.todo = @ \ {r}, !.at = r, !.fresh = TRUE]
            BY <1>2, <2>2 DEF CheckDeploymentStatus
        <3>2. loop' \in Steps /\ loop'.pc = "choose" /\ loop'.at = r
            BY <1>0, <3>1 DEF Steps
        <3>3. /\ running' /\ UNCHANGED <<template, suspend, healthy, rs, evicted, bounds>>
            BY <1>2, <2>2 DEF CheckDeploymentStatus
        <3> QED
            BY <1>0, <2>2, <3>2, <3>3 DEF IInv, TypeOK, CopyIsUnhealthy, Steps, bounds
    <2> QED
        BY <2>1, <2>2
<1>3. CASE GetNormalReplicaSet
    <2>0. /\ loop.pc = "choose" /\ running
          /\ UNCHANGED <<template, suspend, healthy, rs, evicted, releases, evictions>>
          /\ mishaps' \in {mishaps, mishaps + 1}
        BY <1>3 DEF GetNormalReplicaSet
    <2>3. mishaps' \in Nat
        <3>1. mishaps \in Nat
            BY <1>0 DEF TypeOK
        <3> QED
            BY <2>0, <3>1
    <2>1. CASE running' = FALSE /\ loop' = IdleLoop
        BY <1>0, <2>0, <2>1, <2>3 DEF IInv, TypeOK, CopyIsUnhealthy, Steps
    <2>2. CASE /\ \E v \in Normal(loop.at) : loop' = [loop EXCEPT !.pc = "update", !.target = v]
               /\ UNCHANGED running
        <3>1. PICK v \in Normal(loop.at) : loop' = [loop EXCEPT !.pc = "update", !.target = v]
            BY <2>2
        <3>2. v \in Versions /\ v # loop.at[2]
            BY DEF Normal
        <3>3. /\ loop' \in Steps /\ loop'.pc = "update" /\ loop'.at = loop.at /\ loop'.target = v
              /\ loop'.fresh = loop.fresh
            BY <1>0, <3>1, <3>2 DEF Steps
        <3> QED
            BY <1>0, <2>0, <2>2, <2>3, <3>2, <3>3 DEF IInv, TypeOK, CopyIsUnhealthy, Steps
    <2> QED
        BY <1>3, <2>1, <2>2 DEF GetNormalReplicaSet
<1>4. CASE UpdateDeployment
    <2>1. template' \in [Deployments -> Versions]
        BY <1>0, <1>4 DEF UpdateDeployment, Steps
    <2>2. Continued \in Steps /\ Continued.pc \in {"idle", "next"}
        BY <1>0 DEF Continued, Steps, IdleLoop
    <2> QED
        BY <1>0, <1>4, <2>1, <2>2 DEF UpdateDeployment, IInv, TypeOK, CopyIsUnhealthy, Steps, bounds
<1>5. CASE Crash
    BY <1>0, <1>5 DEF Crash, IInv, TypeOK, CopyIsUnhealthy, Steps
<1> QED
    BY <1>1, <1>2, <1>3, <1>4, <1>5 DEF Loop

\* Every step of the specification keeps the invariant.
LEMMA NextInv == IInv /\ [Next]_vars => IInv'
<1> SUFFICES ASSUME IInv, [Next]_vars PROVE IInv'
    OBVIOUS
<1>1. CASE UNCHANGED vars
    BY <1>1 DEF vars, IInv, TypeOK, CopyIsUnhealthy
<1>2. ASSUME NEW d \in Deployments, NEW v \in Versions, Release(d, v) \/ ScaleDown(d, v)
      PROVE  IInv'
    <2>1. <<d, v>> \in ReplicaSets
        BY DEF ReplicaSets
    <2> QED
        BY <1>2, <2>1, ClusterInv
<1>3. ASSUME NEW d \in Deployments,
             AddOrRemoveDeploymentSuspendLabel(d) \/ ScaleUp(d) \/ SyncStatus(d)
      PROVE  IInv'
    <2>1. First \in Versions /\ <<d, First>> \in ReplicaSets
        BY RollbackLoopAssumption DEF ReplicaSets
    <2> QED
        BY <1>3, <2>1, ClusterInv
<1>4. ASSUME NEW r \in ReplicaSets, PodsProgress(r) \/ Evict(r)
      PROVE  IInv'
    <2>1. r[1] \in Deployments /\ r[2] \in Versions
        BY DEF ReplicaSets
    <2> QED
        BY <1>4, <2>1, ClusterInv
<1> QED
    BY <1>1, <1>2, <1>3, <1>4, LoopInv DEF Next

-----------------------------------------------------------------------------
\* The inductive invariant: the types, and that a copy which is the deployment's present
\* version has the status the loop looked at.
THEOREM LoopInvariant == Spec => []IInv
<1> QED
    BY InitInv, NextInv, PTL DEF Spec

\* Types; with them, that the loop never replaces a ReplicaSet's template by itself
\* (getNormalReplicaSetByDeployment).
THEOREM LoopTypes == Spec => []TypeOK
<1>1. IInv => TypeOK
    BY DEF IInv
<1> QED
    BY <1>1, LoopInvariant, PTL

\* Only a deployment that is unhealthy at that moment is rolled back: the Update carries
\* the resourceVersion of the copy whose status was looked at (DeploymentStatusRollBackRun).
THEOREM RollbacksAreOfUnhealthy == Spec => OnlyUnhealthyRolledBack
<1>1. IInv => \A d \in Deployments :
         UpdateDeployment /\ template'[d] # template[d] => ~healthy[d]
    <2> SUFFICES ASSUME IInv, NEW d \in Deployments, UpdateDeployment, template'[d] # template[d]
                 PROVE  ~healthy[d]
        OBVIOUS
    <2>1. /\ loop.pc = "update" /\ loop.fresh
          /\ template' = [template EXCEPT ![loop.at[1]] = loop.target]
        BY DEF UpdateDeployment
    <2>2. d = loop.at[1]
        BY <2>1 DEF IInv, TypeOK
    <2> QED
        BY <2>1, <2>2 DEF IInv, CopyIsUnhealthy
<1> QED
    BY <1>1, LoopInvariant, PTL DEF Spec, OnlyUnhealthyRolledBack
=============================================================================
