----------------------------- MODULE RollbackLoop -----------------------------
(***************************************************************************)
(* The loop that rolls abnormal deployments back                            *)
(* (runnable/run_deployment_status_vaild.go), among the deployments of a    *)
(* namespace under control: every second it lists the pods that started two *)
(* minutes ago and are not Running, one per ReplicaSet, and gives the       *)
(* deployment of each the template of another of its ReplicaSets whose      *)
(* pods are all ready. A pod that was never scheduled has no StartTime and  *)
(* is never listed.                                                         *)
(*                                                                          *)
(* Users, pods and the cluster's own deployment controller are external. A  *)
(* read from a lagging cache is a read made earlier: the loop's reads are   *)
(* steps of their own, and anything may happen in between. A pod that       *)
(* failed and was replaced (an eviction) is listed as long as it is kept,   *)
(* though its ReplicaSet is ready.                                          *)
(*                                                                          *)
(* Left out: time (a pod that is starting may be stuck at any moment), the  *)
(* ignored label, a read that fails before the deployment is looked at (its *)
(* pods are skipped until the next second). A List of ReplicaSets that      *)
(* fails is modelled: it looks like finding none.                           *)
(***************************************************************************)
EXTENDS Integers, FiniteSets

CONSTANTS Deployments, Versions,
          First,        \* the version every deployment starts with
          MaxReleases,  \* bound: releases by users
          MaxEvictions, \* bound: pods evicted and kept
          MaxMishaps    \* bound: restarts of the operator and failing Lists, together

ASSUME RollbackLoopAssumption ==
    /\ First \in Versions
    /\ {MaxReleases, MaxEvictions, MaxMishaps} \subseteq Nat

VARIABLES template,  \* of each deployment
          suspend,   \* its suspend label
          healthy,   \* its stored status: all its pods are updated and ready
          rs,        \* of each deployment and version, the ReplicaSet's pods
          evicted,   \* ReplicaSets that still have a failed pod
          running,   \* the loop's goroutine has not returned
          loop,      \* its step, the ReplicaSets left, the one at hand, its choice
          releases, evictions, mishaps

vars == <<template, suspend, healthy, rs, evicted, running, loop,
          releases, evictions, mishaps>>

bounds == <<releases, evictions, mishaps>>

-----------------------------------------------------------------------------
ReplicaSets == Deployments \X Versions

\* none: scaled to zero; unscheduled: some pod has no StartTime; stuck: some pod started
\* long ago and is not Running.
PodsStates == {"none", "unscheduled", "starting", "stuck", "ready"}

\* fresh: the deployment is still at the resourceVersion that was read.
IdleLoop == [pc |-> "idle", todo |-> {}, at |-> <<>>, target |-> First, fresh |-> FALSE]

\* A write of d makes the loop's copy of d stale.
Touched(d) ==
    [loop EXCEPT !.fresh = @ /\ loop.at[1] # d]

Init ==
    /\ template = [d \in Deployments |-> First]
    /\ suspend = [d \in Deployments |-> FALSE]
    /\ healthy = [d \in Deployments |-> TRUE]
    /\ rs = [r \in ReplicaSets |-> IF r[2] = First THEN "ready" ELSE "none"]
    /\ evicted = {}
    /\ running = TRUE
    /\ loop = IdleLoop
    /\ releases = 0 /\ evictions = 0 /\ mishaps = 0

-----------------------------------------------------------------------------
(* Users, the suspend label, and the cluster *)

\* DeploymentValidator: a suspended deployment is not updated.
ValidateUpdate(d) == ~suspend[d]

Release(d, v) ==
    /\ releases < MaxReleases /\ v # template[d]
    /\ ValidateUpdate(d)
    /\ releases' = releases + 1
    /\ template' = [template EXCEPT ![d] = v]
    /\ loop' = Touched(d)
    /\ UNCHANGED <<suspend, healthy, rs, evicted, running, evictions, mishaps>>

\* The ChangeWorkload of some version suspends the deployment, or lifts it.
AddOrRemoveDeploymentSuspendLabel(d) ==
    /\ suspend' = [suspend EXCEPT ![d] = ~@]
    /\ loop' = Touched(d)
    /\ UNCHANGED <<template, healthy, rs, evicted, running, bounds>>

Becomes(r, states) ==
    /\ \E s \in states : rs' = [rs EXCEPT ![r] = s]
    /\ UNCHANGED <<template, suspend, healthy, running, loop, releases, mishaps>>

ScaleUp(d) ==
    /\ rs[d, template[d]] = "none"
    /\ Becomes(<<d, template[d]>>, {"unscheduled", "starting"})
    /\ UNCHANGED <<evicted, evictions>>

PodsProgress(r) ==
    /\ \/ rs[r] = "unscheduled" /\ Becomes(r, {"starting"})
       \/ rs[r] = "starting"    /\ Becomes(r, {"ready", "stuck"})
       \/ rs[r] = "stuck"       /\ Becomes(r, {"ready"})
    /\ UNCHANGED <<evicted, evictions>>

\* An old ReplicaSet gives way to a ready one; its unready pods go at any time.
ScaleDown(d, v) ==
    /\ v # template[d] /\ rs[d, v] # "none"
    /\ rs[d, v] = "ready" => rs[d, template[d]] = "ready"
    /\ Becomes(<<d, v>>, {"none"})
    /\ UNCHANGED <<evicted, evictions>>

\* A pod fails and is replaced by a new one; the failed one is kept.
Evict(r) ==
    /\ evictions < MaxEvictions /\ rs[r] = "ready"
    /\ evictions' = evictions + 1
    /\ evicted' = evicted \cup {r}
    /\ Becomes(r, {"unscheduled", "starting"})

\* As many updated as ready pods, and no others: none at all is healthy as well.
Health(d) ==
    \A v \in Versions : rs[d, v] = "none" \/ (v = template[d] /\ rs[d, v] = "ready")

SyncStatus(d) ==
    /\ healthy[d] # Health(d)
    /\ healthy' = [healthy EXCEPT ![d] = Health(d)]
    /\ loop' = Touched(d)
    /\ UNCHANGED <<template, suspend, rs, evicted, running, bounds>>

-----------------------------------------------------------------------------
(* The loop *)

\* The ReplicaSets of the pods that are listed: not Running, with an old StartTime.
Abnormal == {r \in ReplicaSets : rs[r] = "stuck" \/ r \in evicted}

\* Mutant: only failed pods are listed.
ListFailedPods ==
    /\ running /\ loop.pc = "idle" /\ evicted # {}
    /\ loop' = [loop EXCEPT !.pc = "next", !.todo = evicted]
    /\ UNCHANGED <<template, suspend, healthy, rs, evicted, running, bounds>>

GetNonRunningPods ==
    /\ running /\ loop.pc = "idle" /\ Abnormal # {}
    /\ loop' = [loop EXCEPT !.pc = "next", !.todo = Abnormal]
    /\ UNCHANGED <<template, suspend, healthy, rs, evicted, running, bounds>>

\* A deployment whose status is healthy ends the loop: it returns.
CheckDeploymentStatus(r) ==
    /\ running /\ loop.pc = "next" /\ r \in loop.todo
    /\ IF healthy[r[1]]
         THEN running' = FALSE /\ loop' = IdleLoop
         ELSE /\ loop' = [loop EXCEPT !.pc = "choose", !.todo = @ \ {r},
                                      !.at = r, !.fresh = TRUE]
              /\ UNCHANGED running
    /\ UNCHANGED <<template, suspend, healthy, rs, evicted, bounds>>

\* Mutant: the abnormal ReplicaSet itself may be chosen.
NormalIncludingIt(r) ==
    {v \in Versions : rs[r[1], v] = "ready"}

\* A ReplicaSet other than the abnormal one, with pods, all ready.
Normal(r) ==
    {v \in Versions \ {r[2]} : rs[r[1], v] = "ready"}

\* Without one, or when the List fails, the loop returns as well.
GetNormalReplicaSet ==
    /\ running /\ loop.pc = "choose"
    /\ \/ /\ Normal(loop.at) = {}
          /\ running' = FALSE /\ loop' = IdleLoop
          /\ UNCHANGED mishaps
       \/ /\ mishaps < MaxMishaps
          /\ mishaps' = mishaps + 1
          /\ running' = FALSE /\ loop' = IdleLoop
       \/ /\ \E v \in Normal(loop.at) :
                 loop' = [loop EXCEPT !.pc = "update", !.target = v]
          /\ UNCHANGED <<running, mishaps>>
    /\ UNCHANGED <<template, suspend, healthy, rs, evicted, releases, evictions>>

Continued == IF loop.todo = {} THEN IdleLoop ELSE [IdleLoop EXCEPT !.pc = "next", !.todo = loop.todo]

\* Mutant: the template is patched, whatever the deployment has become.
PatchDeployment ==
    LET d == loop.at[1]
    IN /\ running /\ loop.pc = "update"
       /\ IF ValidateUpdate(d) THEN template' = [template EXCEPT ![d] = loop.target]
                               ELSE UNCHANGED template
       /\ loop' = Continued
       /\ UNCHANGED <<suspend, healthy, rs, evicted, running, bounds>>

\* A conflict and a denial are logged, and so is success after either.
UpdateDeployment ==
    LET d == loop.at[1]
    IN /\ running /\ loop.pc = "update"
       /\ IF loop.fresh /\ ValidateUpdate(d)
            THEN template' = [template EXCEPT ![d] = loop.target]
            ELSE UNCHANGED template
       /\ loop' = Continued
       /\ UNCHANGED <<suspend, healthy, rs, evicted, running, bounds>>

\* A restart starts the loop again.
Crash ==
    /\ mishaps < MaxMishaps
    /\ mishaps' = mishaps + 1
    /\ running' = TRUE /\ loop' = IdleLoop
    /\ UNCHANGED <<template, suspend, healthy, rs, evicted, releases, evictions>>

-----------------------------------------------------------------------------
Loop ==
    \/ GetNonRunningPods
    \/ \E r \in ReplicaSets : CheckDeploymentStatus(r)
    \/ GetNormalReplicaSet \/ UpdateDeployment

Next ==
    \/ \E d \in Deployments :
          \/ \E v \in Versions : Release(d, v) \/ ScaleDown(d, v)
          \/ AddOrRemoveDeploymentSuspendLabel(d)
          \/ ScaleUp(d) \/ SyncStatus(d)
    \/ \E r \in ReplicaSets : PodsProgress(r) \/ Evict(r)
    \/ Loop
    \/ Crash

Spec == Init /\ [][Next]_vars

\* The loop goes on until it returns, and statuses are kept up to date. Nothing is
\* assumed of users, pods, the suspend label or restarts.
Fairness ==
    /\ WF_vars(Loop)
    /\ \A d \in Deployments : WF_vars(SyncStatus(d))

FairSpec == Spec /\ Fairness

-----------------------------------------------------------------------------
(* Properties *)

TypeOK ==
    /\ template \in [Deployments -> Versions]
    /\ {suspend, healthy} \subseteq [Deployments -> BOOLEAN]
    /\ rs \in [ReplicaSets -> PodsStates]
    /\ evicted \subseteq ReplicaSets
    /\ running \in BOOLEAN /\ (~running => loop = IdleLoop)
    /\ loop \in [pc : {"idle", "next", "choose", "update"}, todo : SUBSET ReplicaSets,
                at : ReplicaSets \cup {<<>>}, target : Versions, fresh : BOOLEAN]
    /\ loop.pc \in {"choose", "update"} => loop.at \in ReplicaSets
    /\ loop.pc = "update" => loop.target # loop.at[2]
    /\ {releases, evictions, mishaps} \subseteq Nat

\* The loop never takes the template from a deployment whose status has become
\* healthy, however long ago it looked: its Update carries the version it read.
OnlyUnhealthyRolledBack ==
    [][\A d \in Deployments :
          UpdateDeployment /\ template'[d] # template[d] => ~healthy[d]]_vars

Stuck(d, v) ==
    /\ template[d] = v /\ rs[d, v] = "stuck"
    /\ \E u \in Versions \ {v} : rs[d, u] = "ready"

\* As long as the loop runs and the deployment is not suspended, a version with a pod that
\* started and does not become Running is rolled back when another version is ready next to
\* it, unless it recovers or a user replaces it. Nothing is promised of a version whose
\* pods were never scheduled.
StuckIsHandled ==
    \A d \in Deployments, v \in Versions :
        Stuck(d, v) ~> (~Stuck(d, v) \/ suspend[d] \/ ~running)

-----------------------------------------------------------------------------
(* Statements of the repository that the code does not keep *)

\* "Automatic rollback and self-healing, which automatically rolls back the abnormal
\* states of Deployment resources": the same without the loop as an excuse.
AbnormalIsRolledBack ==
    \A d \in Deployments, v \in Versions :
        Stuck(d, v) ~> (~Stuck(d, v) \/ suspend[d])

-----------------------------------------------------------------------------
(* What OnlyUnhealthyRolledBack rests on: with the types, it is inductive *)

\* The status the loop looked at is still the deployment's, as long as nobody wrote it.
CopyIsUnhealthy ==
    loop.pc \in {"choose", "update"} /\ loop.fresh => ~healthy[loop.at[1]]

IInv == TypeOK /\ CopyIsUnhealthy
=============================================================================
