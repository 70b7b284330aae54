------------------------- MODULE DeploymentGateProofs -------------------------
(* Proofs about DeploymentGate, for all versions and every number of releases, older  *)
(* manifests and restarts.                                                            *)
EXTENDS DeploymentGate, TLAPS

USE DeploymentGateAssumption

-----------------------------------------------------------------------------
(* The webhooks *)

\* The mutating webhook keeps the template and makes the version follow it.
LEMMA MutatedFollowsTemplate ==
    ASSUME NEW new \in Deployments
    PROVE  /\ Mutated(new) \in Deployments
           /\ Mutated(new).template = new.template
           /\ Mutated(new).version = new.template
           /\ Mutated(new).ignored = new.ignored
           /\ new.version # new.template => ~Mutated(new).defensed
           /\ new.version = new.template => Mutated(new) = new
BY DEF Mutated, Deployments

\* An admitted write that changes the version passes the gate.
LEMMA AdmittedPassesGate ==
    ASSUME NEW new \in Deployments, Admitted(new), dep' = Mutated(new)
    PROVE  ~dep.suspend \/ dep'.ignored
BY DEF Admitted, ValidateUpdate

-----------------------------------------------------------------------------
(* The operator's writes: deployments with the template and version they found *)

\* The patch that marks a deployment.
LEMMA ProcessedKeepsVersion ==
    ASSUME NEW d \in Deployments, NEW copy \in Deployments
    PROVE  /\ Processed(d, copy) \in Deployments
           /\ Processed(d, copy).template = d.template
           /\ Processed(d, copy).version = d.version
BY DEF Processed, Deployments

\* The patch that sets or lifts the suspend label.
LEMMA RelabelledKeepsVersion ==
    ASSUME NEW d \in Deployments, NEW copy \in Deployments, NEW fail \in BOOLEAN
    PROVE  /\ Relabelled(d, copy, fail) \in Deployments
           /\ Relabelled(d, copy, fail).template = d.template
           /\ Relabelled(d, copy, fail).version = d.version
           /\ Relabelled(d, copy, fail).defensed => d.defensed
BY DEF Relabelled, Deployments

-----------------------------------------------------------------------------
\* A new deployment satisfies the invariant.
LEMMA InitInv == Init => IInv
BY DEF Init, IInv, TypeOK, VersionIsTemplate, WorkloadsWereCreated, Deployments,
       NewDeployment, IdleRec, NoWorkloads, NoCleaners, NoCleaner

\* A user's release: any template, with or without the ignored label.
LEMMA ReleaseInv ==
    ASSUME IInv, NEW v \in Versions, NEW ignore \in BOOLEAN, Release(v, ignore)
    PROVE  /\ IInv'
           /\ dep'.template # dep.template => ~dep'.defensed
           /\ ~dep.suspend \/ dep'.ignored
           /\ ~dep.defensed => ~dep'.defensed
<1> DEFINE new == [dep EXCEPT !.template = v, !.ignored = @ \/ ignore]
<1>1. /\ new \in Deployments /\ new.template = v /\ new.version = dep.version
      /\ v # dep.template /\ dep.version = dep.template /\ dep \in Deployments
    BY DEF IInv, TypeOK, VersionIsTemplate, Deployments, Release
<1>2. Admitted(new) /\ dep' = Mutated(new) /\ current' \in BOOLEAN
    BY DEF Release, Write, IInv, TypeOK
<1>3. dep' \in Deployments /\ dep'.version = dep'.template /\ ~dep'.defensed
    BY <1>1, <1>2, MutatedFollowsTemplate
<1>4. ~dep.suspend \/ dep'.ignored
    BY <1>1, <1>2, AdmittedPassesGate
<1>5. /\ UNCHANGED <<depCache, workload, workloadCache, created, queued, rec, cleaner, crashes>>
      /\ releases' \in Nat
      /\ seen' = seen \cup {v}
    BY DEF Release, IInv, TypeOK
<1>6. TypeOK'
    BY <1>2, <1>3, <1>5 DEF IInv, TypeOK
<1>7. VersionIsTemplate'
    BY <1>1, <1>2, <1>3, <1>5, MutatedFollowsTemplate DEF VersionIsTemplate
<1> QED
    BY <1>3, <1>4, <1>5, <1>6, <1>7 DEF IInv, WorkloadsWereCreated

\* An older manifest: whatever labels it carries, its template has been stored before.
LEMMA ApplyOlderInv ==
    ASSUME IInv, NEW manifest \in Deployments, ApplyOlder(manifest)
    PROVE  /\ IInv'
           /\ dep'.template \in seen /\ dep'.template # dep.template
           /\ ~dep.suspend \/ dep'.ignored
<1>1. /\ dep' = manifest /\ current' \in BOOLEAN
      /\ manifest.version = manifest.template
      /\ manifest.template \in seen /\ manifest.template # dep.template
    BY MutatedFollowsTemplate DEF ApplyOlder, Write, IInv, TypeOK
<1>2. ~dep.suspend \/ dep'.ignored
    BY AdmittedPassesGate DEF ApplyOlder, Write
<1>3. /\ UNCHANGED <<depCache, workload, workloadCache, created, queued, rec, cleaner, crashes, seen>>
      /\ releases' \in Nat
    BY DEF ApplyOlder, IInv, TypeOK
<1>4. TypeOK'
    BY <1>1, <1>3 DEF IInv, TypeOK
<1> QED
    BY <1>1, <1>2, <1>3, <1>4 DEF IInv, VersionIsTemplate, WorkloadsWereCreated

\* The informers, the reconciler before its patch, and a restart: the deployment is
\* not written.
LEMMA ControllerInv ==
    ASSUME IInv, DeploymentEvent \/ WorkloadEvent \/ Reconcile \/ GetOrCreateChangeWorkload \/ Crash
    PROVE  IInv' /\ UNCHANGED dep
<1>1. CASE DeploymentEvent
    BY <1>1 DEF DeploymentEvent, IInv, TypeOK, VersionIsTemplate, WorkloadsWereCreated, bounds
<1>2. CASE WorkloadEvent
    BY <1>2 DEF WorkloadEvent, IInv, TypeOK, VersionIsTemplate, WorkloadsWereCreated, bounds
<1>3. CASE Reconcile
    BY <1>3 DEF Reconcile, IInv, TypeOK, VersionIsTemplate, WorkloadsWereCreated, bounds
<1>4. CASE GetOrCreateChangeWorkload
    <2>1. rec.copy.version \in Versions
        BY DEF IInv, TypeOK, Deployments
    <2>2. IdleRec \in [pc : {"idle", "get", "patch"}, copy : Deployments] /\ IdleRec.pc = "idle"
        BY DEF IdleRec, NewDeployment, Deployments
    <2>3. /\ workload' \in [Versions -> {"none", "Open", "Success"}]
          /\ created' \subseteq Versions /\ created \subseteq created'
          /\ \A v \in Versions : workload'[v] # "none" => workload[v] # "none" \/ v \in created'
        BY <1>4, <2>1 DEF GetOrCreateChangeWorkload, IInv, TypeOK
    <2>4. /\ rec' \in [pc : {"idle", "get", "patch"}, copy : Deployments]
          /\ rec'.pc = "patch" =>
                /\ rec'.copy = rec.copy
                /\ workloadCache[rec.copy.version] # "none" \/ rec.copy.version \in created'
        BY <1>4, <2>2 DEF GetOrCreateChangeWorkload, IInv, TypeOK
    <2>5. UNCHANGED <<dep, depCache, current, workloadCache, cleaner, releases, crashes, seen>>
        BY <1>4 DEF GetOrCreateChangeWorkload, bounds
    <2>6. queued' \in BOOLEAN
        BY <1>4 DEF GetOrCreateChangeWorkload, IInv, TypeOK
    <2>7. TypeOK'
        BY <2>3, <2>4, <2>5, <2>6 DEF IInv, TypeOK
    <2>8. WorkloadsWereCreated'
        BY <2>1, <2>3, <2>4, <2>5 DEF IInv, WorkloadsWereCreated
    <2> QED
        BY <2>5, <2>7, <2>8 DEF IInv, VersionIsTemplate
<1>5. CASE Crash
    BY <1>5 DEF Crash, IInv, TypeOK, VersionIsTemplate, WorkloadsWereCreated, IdleRec,
                NewDeployment, Deployments, NoCleaners, NoCleaner
<1> QED
    BY <1>1, <1>2, <1>3, <1>4, <1>5

\* The mark: denied, or put on the template and version that are stored.
LEMMA MarkInv ==
    ASSUME IInv, DefenseProcessedDeployment
    PROVE  /\ IInv'
           /\ dep'.version = dep.version /\ dep'.template = dep.template
           /\ rec.copy.version \in created
<1> DEFINE new == Processed(dep, rec.copy)
<1>1. dep \in Deployments /\ rec.copy \in Deployments /\ dep.version = dep.template
    BY DEF IInv, TypeOK, VersionIsTemplate
<1>2. new \in Deployments /\ new.version = new.template /\ new.template = dep.template
    BY <1>1, ProcessedKeepsVersion
<1>3. Mutated(new) = new
    BY <1>2, MutatedFollowsTemplate
<1>4. dep' = new \/ dep' = dep
    BY <1>3 DEF DefenseProcessedDeployment, Write
<1>5. dep' \in Deployments /\ dep'.version = dep.version /\ dep'.template = dep.template
    BY <1>1, <1>2, <1>4
<1>6. rec.copy.version \in created
    BY DEF DefenseProcessedDeployment, IInv, WorkloadsWereCreated
<1>7. current' \in BOOLEAN /\ queued' \in BOOLEAN /\ rec' = IdleRec
    BY DEF DefenseProcessedDeployment, Write, IInv, TypeOK
<1>8. TypeOK'
    BY <1>5, <1>7 DEF DefenseProcessedDeployment, IInv, TypeOK, bounds, IdleRec, NewDeployment, Deployments
<1>9. WorkloadsWereCreated'
    BY <1>7 DEF DefenseProcessedDeployment, IInv, WorkloadsWereCreated, bounds, IdleRec
<1>10. VersionIsTemplate'
    BY <1>1, <1>5 DEF DefenseProcessedDeployment, IInv, VersionIsTemplate
<1> QED
    BY <1>5, <1>6, <1>8, <1>9, <1>10 DEF IInv

\* A verdict: no label that it sets or lifts changes the version or marks a deployment.
LEMMA VerdictInv ==
    ASSUME IInv, NEW v \in Versions, ValidateChangeWorkload(v)
    PROVE  /\ IInv'
           /\ dep'.version = dep.version /\ dep'.template = dep.template
           /\ dep'.defensed => dep.defensed
<1>1. PICK verdict \in Verdicts :
          LET new == Relabelled(dep, depCache, verdict = "fail")
          IN /\ Write(new)
             /\ \/ UNCHANGED workload
                \/ /\ verdict = "pass" /\ workload[v] = "Open"
                   /\ workload' = [workload EXCEPT ![v] = "Success"]
    BY DEF ValidateChangeWorkload
<1> DEFINE new == Relabelled(dep, depCache, verdict = "fail")
<1>2. dep \in Deployments /\ depCache \in Deployments /\ dep.version = dep.template
    BY DEF IInv, TypeOK, VersionIsTemplate
<1>3. /\ new \in Deployments /\ new.version = new.template
      /\ new.template = dep.template /\ (new.defensed => dep.defensed)
    BY <1>2, RelabelledKeepsVersion
<1>4. dep' = new
    BY <1>1, <1>3, MutatedFollowsTemplate DEF Write
<1>5. current' \in BOOLEAN
    BY <1>1 DEF Write, IInv, TypeOK
<1>6. UNCHANGED <<depCache, workloadCache, created, queued, rec, cleaner, releases, crashes, seen>>
    BY DEF ValidateChangeWorkload, bounds
<1>7. /\ workload' \in [Versions -> {"none", "Open", "Success"}]
      /\ \A u \in Versions : workload'[u] # "none" => workload[u] # "none"
    BY <1>1 DEF IInv, TypeOK
<1>8. TypeOK'
    BY <1>3, <1>4, <1>5, <1>6, <1>7 DEF IInv, TypeOK
<1>9. WorkloadsWereCreated'
    BY <1>6, <1>7 DEF IInv, WorkloadsWereCreated
<1>10. VersionIsTemplate'
    BY <1>2, <1>3, <1>4, <1>6 DEF IInv, VersionIsTemplate
<1> QED
    BY <1>2, <1>3, <1>4, <1>8, <1>9, <1>10 DEF IInv

\* The removal of old workloads.
LEMMA CleanerInv ==
    ASSUME IInv, NEW v \in Versions,
           \/ CompareVersion(v) \/ ListOldChangeWorkloads(v)
           \/ \E u \in Versions : DeleteOldChangeWorkload(v, u)
    PROVE  IInv' /\ UNCHANGED dep
<1>0. cleaner \in [Versions -> [pc : {"idle", "list", "delete"}, todo : SUBSET Versions]]
    BY DEF IInv, TypeOK
<1>1. CASE CompareVersion(v)
    BY <1>0, <1>1 DEF CompareVersion, IInv, TypeOK, VersionIsTemplate, WorkloadsWereCreated, bounds
<1>2. CASE ListOldChangeWorkloads(v)
    BY <1>0, <1>2 DEF ListOldChangeWorkloads, IInv, TypeOK, VersionIsTemplate, WorkloadsWereCreated,
                bounds, NoCleaner
<1>3. CASE \E u \in Versions : DeleteOldChangeWorkload(v, u)
    <2>1. PICK u \in Versions : DeleteOldChangeWorkload(v, u)
        BY <1>3
    <2>2. /\ cleaner' \in [Versions -> [pc : {"idle", "list", "delete"}, todo : SUBSET Versions]]
          /\ \A w \in Versions : w \notin cleaner'[w].todo
        <3> DEFINE rest == cleaner[v].todo \ {u}
                   next == IF rest = {} THEN NoCleaner ELSE [pc |-> "delete", todo |-> rest]
        <3>1. cleaner[v].todo \subseteq Versions /\ v \notin cleaner[v].todo
            BY <1>0 DEF IInv, TypeOK
        <3>2. /\ next \in [pc : {"idle", "list", "delete"}, todo : SUBSET Versions]
              /\ v \notin next.todo
            BY <3>1 DEF NoCleaner
        <3>3. cleaner' = [cleaner EXCEPT ![v] = next]
            BY <2>1 DEF DeleteOldChangeWorkload
        <3> HIDE DEF next
        <3> QED
            BY <1>0, <3>2, <3>3 DEF IInv, TypeOK
    <2>3. /\ workload' \in [Versions -> {"none", "Open", "Success"}]
          /\ \A w \in Versions : workload'[w] # "none" => workload[w] # "none"
        BY <2>1 DEF DeleteOldChangeWorkload, IInv, TypeOK
    <2>4. UNCHANGED <<dep, depCache, current, workloadCache, created, queued, rec, releases, crashes, seen>>
        BY <2>1 DEF DeleteOldChangeWorkload, bounds
    <2> QED
        BY <2>2, <2>3, <2>4 DEF IInv, TypeOK, VersionIsTemplate, WorkloadsWereCreated
<1> QED
    BY <1>1, <1>2, <1>3

-----------------------------------------------------------------------------
\* Every step keeps the invariant and the three action properties.
LEMMA NextInv ==
    ASSUME IInv, [Next]_vars
    PROVE  /\ IInv'
           /\ dep'.version # dep.version => ~dep.suspend \/ dep'.ignored
           /\ dep'.template # dep.template /\ dep'.defensed => dep'.template \in seen
           /\ ~dep.defensed /\ dep'.defensed =>
                  rec.copy.version \in created \/ dep'.template # dep.template
<1>0. dep.version = dep.template
    BY DEF IInv, VersionIsTemplate
<1>1. CASE UNCHANGED vars
    BY <1>1 DEF vars, bounds, IInv, TypeOK, VersionIsTemplate, WorkloadsWereCreated
<1>2. CASE \E v \in Versions, ignore \in BOOLEAN : Release(v, ignore)
    BY <1>2, ReleaseInv DEF IInv, VersionIsTemplate
<1>7. CASE \E manifest \in Deployments : ApplyOlder(manifest)
    BY <1>7, ApplyOlderInv
<1>3. CASE DeploymentEvent \/ WorkloadEvent \/ Reconcile \/ GetOrCreateChangeWorkload \/ Crash
    BY <1>3, ControllerInv
<1>4. CASE DefenseProcessedDeployment
    BY <1>4, MarkInv
<1>5. CASE \E v \in Versions : ValidateChangeWorkload(v)
    BY <1>5, VerdictInv
<1>6. CASE \E v \in Versions : \/ CompareVersion(v) \/ ListOldChangeWorkloads(v)
                               \/ \E u \in Versions : DeleteOldChangeWorkload(v, u)
    BY <1>6, CleanerInv
<1> QED
    BY <1>1, <1>2, <1>3, <1>4, <1>5, <1>6, <1>7 DEF Next, Controller, Workload

\* The invariant holds in every reachable state.
THEOREM GateInvariant == Spec => []IInv
BY InitInv, NextInv, PTL DEF Spec

\* Type correctness of the deployment's copies, workloads and programs counters; no
\* ChangeWorkload ever removes itself (deleteOldChangeWorkload).
THEOREM GateTypes == Spec => []TypeOK
<1>1. IInv => TypeOK
    BY DEF IInv
<1> QED
    BY <1>1, GateInvariant, PTL

\* No writer gets a new version into a suspended deployment without the ignored label.
THEOREM SuspensionHolds == Spec => GateHolds
<1>1. IInv /\ [Next]_vars => [dep'.version # dep.version => ~dep.suspend \/ dep'.ignored]_vars
    BY NextInv
<1> QED
    BY <1>1, GateInvariant, PTL DEF Spec, GateHolds

\* A version that is released for the first time is never stored as already processed.
THEOREM ReleasesStartUnmarked == Spec => FirstReleaseIsUnmarked
<1>1. IInv /\ [Next]_vars =>
          [dep'.template # dep.template /\ dep'.defensed => dep'.template \in seen]_vars
    BY NextInv
<1> QED
    BY <1>1, GateInvariant, PTL DEF Spec, FirstReleaseIsUnmarked

\* The deployed template is only marked by a reconciliation whose version has had its
\* ChangeWorkload.
THEOREM MarksAreEarned == Spec => WorkloadBeforeMark
<1>1. IInv /\ [Next]_vars =>
          [~dep.defensed /\ dep'.defensed =>
              rec.copy.version \in created \/ dep'.template # dep.template]_vars
    BY NextInv
<1> QED
    BY <1>1, GateInvariant, PTL DEF Spec, WorkloadBeforeMark
=============================================================================
