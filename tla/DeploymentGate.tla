---------------------------- MODULE DeploymentGate ----------------------------
(***************************************************************************)
(* One deployment and everything that writes it: the users who release new  *)
(* versions, the admission webhooks every write goes through                *)
(* (apis/apps/v1/deployment_webhook.go), the deployment controller          *)
(* (controllers/deployment_controller.go), the suspend label that the       *)
(* ChangeWorkload of any version sets or lifts, and the removal of old      *)
(* ChangeWorkloads (controllers/changeworkload_controller.go).              *)
(*                                                                          *)
(* A version is the hash of the pod template. An informer's cache is a past *)
(* state of the API server, and jumps to the present one when it            *)
(* synchronises. A merge patch changes, in the stored deployment, the       *)
(* labels in which the sender's copy differs from what it read.             *)
(*                                                                          *)
(* Left out: how a ChangeWorkload comes to its verdict (ChangeWorkload      *)
(* models it: here any verdict is possible at any time), blocking switched  *)
(* off (no label is then set), the deletion of the deployment, the rollback *)
(* loop (RollbackLoop; to the gate it is one more user that releases).      *)
(***************************************************************************)
EXTENDS Integers, FiniteSets

CONSTANTS Versions,    \* templates the users release, and may return to
          First,       \* the one the deployment is created with
          MaxReleases, \* bound: releases by users and manifests they apply again, together
          MaxCrashes   \* bound: restarts of the operator

ASSUME DeploymentGateAssumption ==
    /\ First \in Versions
    /\ {MaxReleases, MaxCrashes} \subseteq Nat

VARIABLES dep, depCache,           \* the deployment: its template and labels
          current,                 \* depCache is at the deployment's resourceVersion
          workload, workloadCache, \* status of each version's ChangeWorkload
          created,                 \* versions that ever had a ChangeWorkload
          queued,                  \* the deployment's key is in the work queue
          rec,                     \* the deployment reconciler, with its copy
          cleaner,                 \* per version, its removal of the others' workloads
          releases, crashes

\* History variable, for the properties and the manifests users have: versions ever stored.
VARIABLE seen

bounds == <<releases, crashes>>

vars == <<dep, depCache, current, workload, workloadCache, created, queued, rec,
          cleaner, bounds, seen>>

-----------------------------------------------------------------------------
Deployments == [template : Versions,
                version  : Versions, \* label and template label of the mutating webhook
                defensed : BOOLEAN,  \* defense-status: Processed
                suspend  : BOOLEAN,
                ignored  : BOOLEAN]  \* ignored-suspend

Verdicts == {"pass", "fail"}

NewDeployment == [template |-> First, version |-> First,
                  defensed |-> FALSE, suspend |-> FALSE, ignored |-> FALSE]
IdleRec == [pc |-> "idle", copy |-> NewDeployment]

NoWorkloads == [v \in Versions |-> "none"]
NoCleaner   == [pc |-> "idle", todo |-> {}]
NoCleaners  == [v \in Versions |-> NoCleaner]

Init ==
    /\ dep = NewDeployment
    /\ depCache = dep /\ current = TRUE
    /\ workload = NoWorkloads /\ workloadCache = workload /\ created = {}
    /\ queued = TRUE
    /\ rec = IdleRec
    /\ cleaner = NoCleaners
    /\ releases = 0 /\ crashes = 0
    /\ seen = {First}

-----------------------------------------------------------------------------
(* The webhooks, which the operator's own writes go through as well *)

\* Mutant: the mark survives a new template.
MutatedKeepsMark(new) == [new EXCEPT !.version = new.template]

\* DeploymentMutator: a template whose hash is not the version label's is a release.
Mutated(new) ==
    IF new.version = new.template THEN new
    ELSE [new EXCEPT !.version = new.template, !.defensed = FALSE]

\* Mutant: the validating webhook admits everything.
ValidateNothing(new, old) == TRUE

\* DeploymentValidator: only the new object's ignored label opens a suspended deployment.
ValidateUpdate(new, old) == new.ignored \/ ~old.suspend

Admitted(new) == ValidateUpdate(Mutated(new), dep)

\* An admitted write; one that changes nothing makes no new resourceVersion.
Write(new) ==
    /\ dep' = Mutated(new)
    /\ current' = (current /\ dep' = dep)

-----------------------------------------------------------------------------
(* The users and the cluster *)

\* A release changes the template in the stored deployment.
Release(v, ignore) ==
    LET new == [dep EXCEPT !.template = v, !.ignored = @ \/ ignore]
    IN /\ releases < MaxReleases /\ v # dep.template
       /\ Admitted(new)
       /\ Write(new)
       /\ releases' = releases + 1
       /\ seen' = seen \cup {v}
       /\ UNCHANGED <<depCache, workload, workloadCache, created, queued, rec,
                      cleaner, crashes>>

\* A manifest saved from an older version carries that version's label, and perhaps a mark
\* and other labels: the mutating webhook takes it for a write that releases nothing.
ApplyOlder(manifest) ==
    /\ releases < MaxReleases
    /\ manifest.version = manifest.template
    /\ manifest.template \in seen \ {dep.template}
    /\ Admitted(manifest)
    /\ Write(manifest)
    /\ releases' = releases + 1
    /\ UNCHANGED <<depCache, workload, workloadCache, created, queued, rec,
                   cleaner, crashes, seen>>

\* Mutant: suspended deployments are filtered out as well.
DeploymentEventUnlessSuspended ==
    /\ ~current
    /\ depCache' = dep /\ current' = TRUE
    /\ queued' = (queued \/ (~dep.defensed /\ ~dep.suspend))
    /\ UNCHANGED <<dep, workload, workloadCache, created, rec, cleaner, bounds, seen>>

\* Mutant: only a new version queues the deployment, not a lost mark.
DeploymentEventOnNewVersion ==
    /\ ~current
    /\ depCache' = dep /\ current' = TRUE
    /\ queued' = (queued \/ (~dep.defensed /\ dep.version # depCache.version))
    /\ UNCHANGED <<dep, workload, workloadCache, created, rec, cleaner, bounds, seen>>

\* handleEvent: a deployment already processed is not queued.
DeploymentEvent ==
    /\ ~current
    /\ depCache' = dep /\ current' = TRUE
    /\ queued' = (queued \/ ~dep.defensed)
    /\ UNCHANGED <<dep, workload, workloadCache, created, rec, cleaner, bounds, seen>>

\* A workload's events queue the deployment that owns it.
WorkloadEvent ==
    /\ workloadCache # workload
    /\ workloadCache' = workload
    /\ queued' = TRUE
    /\ UNCHANGED <<dep, depCache, current, workload, created, rec, cleaner, bounds, seen>>

-----------------------------------------------------------------------------
(* The deployment controller *)

\* Mutant: the mark before the workload.
ReconcileMarksFirst ==
    /\ rec.pc = "idle" /\ queued
    /\ queued' = FALSE
    /\ rec' = IF depCache.defensed THEN rec ELSE [pc |-> "patch", copy |-> depCache]
    /\ UNCHANGED <<dep, depCache, current, workload, workloadCache, created, cleaner, bounds, seen>>

Reconcile ==
    /\ rec.pc = "idle" /\ queued
    /\ queued' = FALSE
    /\ rec' = IF depCache.defensed THEN rec ELSE [pc |-> "get", copy |-> depCache]
    /\ UNCHANGED <<dep, depCache, current, workload, workloadCache, created, cleaner, bounds, seen>>

\* A workload that exists and is not in the cache makes Create fail.
GetOrCreateChangeWorkload ==
    LET v == rec.copy.version
    IN /\ rec.pc = "get"
       /\ \/ /\ workloadCache[v] # "none"
             /\ rec' = [rec EXCEPT !.pc = "patch"]
             /\ UNCHANGED <<workload, created, queued>>
          \/ /\ workloadCache[v] = "none" /\ workload[v] = "none"
             /\ workload' = [workload EXCEPT ![v] = "Open"]
             /\ created' = created \cup {v}
             /\ rec' = [rec EXCEPT !.pc = "patch"]
             /\ UNCHANGED queued
          \/ /\ workloadCache[v] = "none" /\ workload[v] # "none"
             /\ rec' = IdleRec /\ queued' = TRUE
             /\ UNCHANGED <<workload, created>>
       /\ UNCHANGED <<dep, depCache, current, workloadCache, cleaner, bounds, seen>>

\* Mutant: the ignored label stays.
ProcessedStaysOpen(d, copy) == [d EXCEPT !.defensed = TRUE]

\* The stored deployment d after the patch of a reconciler that read copy.
Processed(d, copy) ==
    [d EXCEPT !.defensed = TRUE, !.ignored = IF copy.ignored THEN FALSE ELSE @]

DefenseProcessedDeployment ==
    LET new == Processed(dep, rec.copy)
    IN /\ rec.pc = "patch"
       /\ IF Admitted(new) THEN Write(new) /\ UNCHANGED queued
                           ELSE queued' = TRUE /\ UNCHANGED <<dep, current>>
       /\ rec' = IdleRec
       /\ UNCHANGED <<depCache, workload, workloadCache, created, cleaner, bounds, seen>>

-----------------------------------------------------------------------------
(* The ChangeWorkload controller, as far as it touches the deployment *)

\* addOrRemoveDeploymentSuspendLabel of a controller that read copy, on the stored d.
Relabelled(d, copy, fail) ==
    IF fail THEN IF copy.suspend THEN d ELSE [d EXCEPT !.suspend = TRUE]
    ELSE IF ~copy.suspend THEN d
    ELSE [d EXCEPT !.suspend  = FALSE,
                   !.ignored  = @ \/ ~copy.ignored,
                   !.defensed = @ /\ ~copy.defensed]

\* The verdict of a version's pods is put on the deployment, whatever version that is
\* at, and recorded in the workload's status; a denied patch ends the reconciliation.
ValidateChangeWorkload(v) ==
    /\ workloadCache[v] # "none"
    /\ \E verdict \in Verdicts :
          LET new == Relabelled(dep, depCache, verdict = "fail")
          IN /\ new = dep \/ Admitted(new)
             /\ Write(new)
             /\ \/ UNCHANGED workload
                \/ /\ verdict = "pass" /\ workload[v] = "Open"
                   /\ workload' = [workload EXCEPT ![v] = "Success"]
    /\ UNCHANGED <<depCache, workloadCache, created, queued, rec, cleaner, bounds, seen>>

\* deleteOldChangeWorkload: it compares versions, lists, and deletes one by one.
CompareVersion(v) ==
    /\ workloadCache[v] = "Success" /\ cleaner[v].pc = "idle"
    /\ depCache.version = v
    /\ cleaner' = [cleaner EXCEPT ![v].pc = "list"]
    /\ UNCHANGED <<dep, depCache, current, workload, workloadCache, created, queued, rec, bounds, seen>>

\* Mutant: the list is not compared with the workload's own name.
ListAllChangeWorkloads(v) ==
    /\ cleaner[v].pc = "list"
    /\ cleaner' = [cleaner EXCEPT ![v] =
          [pc |-> "delete", todo |-> {u \in Versions : workloadCache[u] # "none"}]]
    /\ UNCHANGED <<dep, depCache, current, workload, workloadCache, created, queued, rec, bounds, seen>>

ListOldChangeWorkloads(v) ==
    /\ cleaner[v].pc = "list"
    /\ LET old == {u \in Versions \ {v} : workloadCache[u] # "none"}
       IN cleaner' = [cleaner EXCEPT ![v] = IF old = {} THEN NoCleaner
                                            ELSE [pc |-> "delete", todo |-> old]]
    /\ UNCHANGED <<dep, depCache, current, workload, workloadCache, created, queued, rec, bounds, seen>>

DeleteOldChangeWorkload(v, u) ==
    /\ u \in cleaner[v].todo
    /\ workload' = [workload EXCEPT ![u] = "none"]
    /\ LET rest == cleaner[v].todo \ {u}
       IN cleaner' = [cleaner EXCEPT ![v] = IF rest = {} THEN NoCleaner
                                            ELSE [pc |-> "delete", todo |-> rest]]
    /\ UNCHANGED <<dep, depCache, current, workloadCache, created, queued, rec, bounds, seen>>

-----------------------------------------------------------------------------
\* A restart: the informers list again, and a deployment not processed is queued.
Crash ==
    /\ crashes < MaxCrashes
    /\ crashes' = crashes + 1
    /\ depCache' = dep /\ current' = TRUE /\ workloadCache' = workload
    /\ queued' = (~dep.defensed \/ workload # NoWorkloads)
    /\ rec' = IdleRec
    /\ cleaner' = NoCleaners
    /\ UNCHANGED <<dep, workload, created, releases, seen>>

Controller == Reconcile \/ GetOrCreateChangeWorkload \/ DefenseProcessedDeployment

Workload(v) ==
    \/ ValidateChangeWorkload(v)
    \/ CompareVersion(v) \/ ListOldChangeWorkloads(v)
    \/ \E u \in Versions : DeleteOldChangeWorkload(v, u)

Next ==
    \/ \E v \in Versions : \/ \E ignore \in BOOLEAN : Release(v, ignore)
                           \/ Workload(v)
    \/ \E manifest \in Deployments : ApplyOlder(manifest)
    \/ DeploymentEvent \/ WorkloadEvent
    \/ Controller
    \/ Crash

Spec == Init /\ [][Next]_vars

\* The informers deliver and a queued deployment is reconciled. Nothing is assumed of
\* users, verdicts or restarts.
Fairness ==
    /\ WF_vars(DeploymentEvent) /\ WF_vars(WorkloadEvent)
    /\ WF_vars(Controller)

FairSpec == Spec /\ Fairness

-----------------------------------------------------------------------------
(* Properties *)

TypeOK ==
    /\ {dep, depCache} \subseteq Deployments
    /\ {workload, workloadCache} \subseteq
          [Versions -> {"none", "Open", "Success"}]
    /\ created \subseteq Versions
    /\ {current, queued} \subseteq BOOLEAN
    /\ rec \in [pc : {"idle", "get", "patch"}, copy : Deployments]
    /\ cleaner \in [Versions -> [pc : {"idle", "list", "delete"}, todo : SUBSET Versions]]
    /\ \A v \in Versions : v \notin cleaner[v].todo
    /\ {releases, crashes} \subseteq Nat /\ seen \subseteq Versions

\* No writer, be it a user or the operator, changes the version of a suspended
\* deployment unless the written object carries the ignored label (ValidateUpdate).
GateHolds ==
    [][dep'.version # dep.version => ~dep.suspend \/ dep'.ignored]_vars

\* A version that is released for the first time is never stored as already processed,
\* whoever writes it and however the mark of the version before is written meanwhile. (A
\* manifest of an older version may bring a mark along: the mutating webhook keeps it.)
FirstReleaseIsUnmarked ==
    [][dep'.template # dep.template /\ dep'.defensed => dep'.template \in seen]_vars

\* On the template that is deployed, the mark is only written when the version that the
\* reconciler read has had its workload: a crash or an error in between leaves the release
\* unmarked and so to be retried.
WorkloadBeforeMark ==
    [][~dep.defensed /\ dep'.defensed =>
          rec.copy.version \in created \/ dep'.template # dep.template]_vars

\* A release is taken up whatever fails, and even while its mark is denied: it gets a
\* workload, unless it is replaced or an earlier reconciliation's mark hits it first.
ReleaseIsTaken ==
    \A v \in Versions :
        (dep.version = v /\ ~dep.defensed) ~>
            (v \in created \/ dep.version # v \/ dep.defensed)

\* A mark that the validating webhook denies is retried until the suspension is
\* lifted; only while suspended does a release stay unmarked.
ReleaseIsMarked ==
    (~dep.defensed /\ ~dep.suspend) ~> (dep.defensed \/ dep.suspend)

\* A gate that a release with the ignored label, or a lifted suspension, has opened is
\* closed by the reconciliation that sees it open, unless the version changes. (A mark written from a read that did
\* not see it leaves it open until the next release: the premise excludes that.)
GateCloses ==
    \A v \in Versions :
        (dep.version = v /\ dep.ignored /\ ~dep.defensed /\ current /\ rec.pc = "idle") ~>
            (~dep.ignored \/ dep.suspend \/ dep.version # v)

-----------------------------------------------------------------------------
(* What the action properties rest on: with them, the type invariant is inductive *)

\* The version label follows the template through every write, and has been seen.
VersionIsTemplate == dep.version = dep.template /\ dep.template \in seen

\* A workload that exists, is believed to exist, or is about to be vouched for by a
\* mark has been created.
WorkloadsWereCreated ==
    /\ \A v \in Versions : workload[v] # "none" \/ workloadCache[v] # "none" => v \in created
    /\ rec.pc = "patch" => rec.copy.version \in created

IInv == TypeOK /\ VersionIsTemplate /\ WorkloadsWereCreated

-----------------------------------------------------------------------------
(* Statements of the repository that the code does not keep *)

=============================================================================
