-------------------------- MODULE ChangeNotification --------------------------
(***************************************************************************)
(* The notifications by which a ChangePod is announced to the platform, at  *)
(* the level of HTTP requests: the client's retry loop                      *)
(* (controllers/client/opscloud_client.go), a network that loses and delays *)
(* requests and answers, and the platform's nodes. A start creates a node;  *)
(* the finish and the callbacks name it. Around it, the handlers of         *)
(* changepod_controller.go that submit, and those writers of the ChangePod  *)
(* that may come between the answer and the Update that stores the node.    *)
(*                                                                          *)
(* ChangePod treats a submission as one step whose effect is unknown when   *)
(* it fails; SubmissionRefined says that this is what the client offers.    *)
(* What net/http does with a request whose body has been read is modelled   *)
(* from the library: on a new connection the attempt fails on its           *)
(* Content-Length, on a kept one, where that counts as nothing written, the *)
(* library rewinds the body and sends the request again.                    *)
(* Left out: what ChangePod models already (the batch, its labels, the work *)
(* queue: a waiting ChangePod may be reconciled again at any time);         *)
(* signing, JSON.                                                           *)
(***************************************************************************)
EXTENDS Integers, Sequences, FiniteSets

CONSTANTS MaxRetryCount,  \* doPost makes at most this many attempts and two
          MaxSubmissions, \* bound: notifications submitted
          MaxLosses,      \* bound: connections that break before the answer is read
          MaxCallbacks,   \* bound: callbacks that reach their Patch
          MaxCrashes      \* bound: restarts of the operator

ASSUME ChangeNotificationAssumption ==
    {MaxRetryCount, MaxSubmissions, MaxLosses, MaxCallbacks, MaxCrashes}
        \subseteq Nat

VARIABLES changePod, cache,  \* the ChangePod, stored and in the informer's cache
          fresh,             \* who holds its present version
          worker,            \* the reconciler, with the version it read
          call,              \* doPost: attempt, answer
          submitted,         \* notifications submitted so far: the last is the worker's
          outcome,           \* what the caller of each of them knows
          network,           \* requests on their way
          nodes,             \* platform: the submission each node was created for
          finishes,          \* platform: the finish notifications accepted
          handler,           \* the callback handler between its test and its Patch
          losses, callbacks, crashes

vars == <<changePod, cache, fresh, worker, call, submitted, outcome, network, nodes,
          finishes, handler, losses, callbacks, crashes>>

bounds == <<losses, callbacks, crashes>>
platform == <<network, nodes, finishes>>

-----------------------------------------------------------------------------
Submissions == 1 .. MaxSubmissions

MaxAttempts == MaxRetryCount + 2

Submitted == {"PreSubmitted", "PostSubmitted"}
Finished  == {"PostFinish", "PreTimeout", "PostTimeout", "PreFailed", "PostFailed"}
Waiting   == {"PreWait", "PostWait"}
Statuses  == Waiting \cup Submitted \cup Finished \cup {"ExecuteDone"}

NoNode  == 0
NodeIds == 1 .. MaxSubmissions * MaxAttempts

\* verdict: the node whose callback filled Status.PodResults.
ChangePods == [status  : Statuses,
               node    : NodeIds \cup {NoNode},    \* Status.ChangePodId
               verdict : NodeIds \cup {NoNode}]

Requests == [id : Submissions, attempt : 1 .. MaxAttempts,
             kind : {"start", "finish"}, node : NodeIds \cup {NoNode}]

NoAnswer == "none"
Answers  == {"success", "noNode", "refused"}
NoCall   == [attempt |-> 1, sent |-> FALSE, answer |-> NoAnswer, node |-> NoNode]

NewChangePod == [status |-> "PreWait", node |-> NoNode, verdict |-> NoNode]
Idle   == [pc |-> "idle", copy |-> NewChangePod]
NoPatch == [stage |-> "none", node |-> NoNode]

Init ==
    /\ changePod = NewChangePod /\ cache = changePod /\ fresh = {"cache"}
    /\ worker = Idle /\ call = NoCall
    /\ submitted = 0 /\ outcome = [s \in Submissions |-> "none"]
    /\ network = {} /\ nodes = <<>> /\ finishes = {}
    /\ handler = NoPatch
    /\ losses = 0 /\ callbacks = 0 /\ crashes = 0

-----------------------------------------------------------------------------
(* The reconciler: PreWaitChangePodHandle and PostWaitChangePodHandle *)

\* The request is built once for all attempts.
Submit ==
    /\ worker.pc = "idle" /\ cache.status \in Waiting
    /\ submitted < MaxSubmissions
    /\ submitted' = submitted + 1
    /\ outcome' = [outcome EXCEPT ![submitted'] = "pending"]
    /\ worker' = [pc |-> "post", copy |-> cache]
    /\ fresh' = IF "cache" \in fresh THEN fresh \cup {"worker"} ELSE fresh
    /\ call' = NoCall
    /\ UNCHANGED <<changePod, cache, platform, handler, bounds>>

Request == [id      |-> submitted,
            attempt |-> call.attempt,
            kind    |-> IF worker.copy.status = "PreWait" THEN "start" ELSE "finish",
            node    |-> worker.copy.node]

Outcome(success) == IF success THEN "success" ELSE "error"

\* Mutant: the node of the answer is not stored.
ReturnForgetsNode(success, node) ==
    LET copy == worker.copy
        wanted == IF copy.status = "PreWait"
                    THEN [copy EXCEPT !.status = IF success THEN "PreSubmitted" ELSE "PreFailed"]
                    ELSE [copy EXCEPT !.status = IF success THEN "PostSubmitted" ELSE "PostFailed"]
    IN /\ outcome' = [outcome EXCEPT ![submitted] = Outcome(success)]
       /\ worker' = [pc |-> "update", copy |-> wanted]
       /\ call' = NoCall

\* serviceTemplate and submitChangeStartNotifyAndGetNodeId return to the handler, which
\* sets the status it wants: the node of a start that succeeded, or a failure.
Return(success, node) ==
    LET copy == worker.copy
        wanted == IF copy.status = "PreWait"
                    THEN IF success THEN [copy EXCEPT !.status = "PreSubmitted", !.node = node]
                                    ELSE [copy EXCEPT !.status = "PreFailed"]
                    ELSE [copy EXCEPT !.status = IF success THEN "PostSubmitted" ELSE "PostFailed"]
    IN /\ outcome' = [outcome EXCEPT ![submitted] = Outcome(success)]
       /\ worker' = [pc |-> "update", copy |-> wanted]
       /\ call' = NoCall

\* Mutant: the node is stored whatever the ChangePod has become.
UpdateWithoutVersion ==
    /\ worker.pc = "update"
    /\ changePod' = worker.copy /\ fresh' = {}
    /\ worker' = Idle
    /\ UNCHANGED <<cache, call, submitted, outcome, platform, handler, bounds>>

\* A conflict forgets the answer: the ChangePod is submitted again if it still waits.
UpdateChangePodStatus ==
    /\ worker.pc = "update"
    /\ IF "worker" \in fresh THEN changePod' = worker.copy /\ fresh' = {}
                             ELSE UNCHANGED <<changePod, fresh>>
    /\ worker' = Idle
    /\ UNCHANGED <<cache, call, submitted, outcome, platform, handler, bounds>>

-----------------------------------------------------------------------------
(* doPost *)

\* Mutant: the attempts are counted from one on.
RetryOnceMore ==
    IF call.attempt <= MaxAttempts
      THEN /\ call' = [call EXCEPT !.attempt = @ + 1, !.sent = FALSE, !.answer = NoAnswer]
           /\ UNCHANGED <<worker, outcome>>
      ELSE Return(FALSE, NoNode)

\* An attempt has failed: the same request is tried again, or the error is returned.
RetryOrReturn ==
    IF call.attempt < MaxAttempts
      THEN /\ call' = [call EXCEPT !.attempt = @ + 1, !.sent = FALSE, !.answer = NoAnswer]
           /\ UNCHANGED <<worker, outcome>>
      ELSE Return(FALSE, NoNode)

Trying == worker.pc = "post" /\ ~call.sent

\* No connection, or a new one and a body that an earlier attempt has read.
AttemptFails ==
    /\ Trying
    /\ RetryOrReturn
    /\ UNCHANGED <<changePod, cache, fresh, submitted, platform, handler, bounds>>

\* The request goes out: for the first time, or again on a kept connection.
Send ==
    /\ Trying
    /\ call' = [call EXCEPT !.sent = TRUE]
    /\ network' = network \cup {Request}
    /\ UNCHANGED <<changePod, cache, fresh, worker, submitted, outcome, nodes, finishes,
                   handler, bounds>>

\* The connection breaks before the answer, if any, is read.
ConnectionLost ==
    /\ worker.pc = "post" /\ call.sent /\ losses < MaxLosses
    /\ losses' = losses + 1
    /\ RetryOrReturn
    /\ UNCHANGED <<changePod, cache, fresh, submitted, platform, handler, callbacks, crashes>>

\* The body of the answer cannot be read or decoded: no retry.
AnswerUnreadable ==
    /\ worker.pc = "post" /\ call.answer # NoAnswer
    /\ Return(FALSE, NoNode)
    /\ UNCHANGED <<changePod, cache, fresh, submitted, platform, handler, bounds>>

\* Mutant: an answer without a node counts as a success.
AnsweredWithoutNode == call.answer # "refused"

\* Success is true and, for a start, a node is given.
Answered == call.answer = "success"

\* Mutant: a refused submission is tried again.
AnswerReadUntilAccepted ==
    /\ worker.pc = "post" /\ call.answer # NoAnswer
    /\ IF Answered THEN Return(TRUE, call.node)
                   ELSE call' = NoCall /\ UNCHANGED <<worker, outcome>>
    /\ UNCHANGED <<changePod, cache, fresh, submitted, platform, handler, bounds>>

AnswerRead ==
    /\ worker.pc = "post" /\ call.answer # NoAnswer
    /\ Return(Answered, call.node)
    /\ UNCHANGED <<changePod, cache, fresh, submitted, platform, handler, bounds>>

-----------------------------------------------------------------------------
(* The network and the platform *)

\* A request that arrives is accepted or not, and answered if its caller is still there.
\* One that never arrives stays in network.
Handle(request) ==
    /\ request \in network
    /\ network' = network \ {request}
    /\ \E answer \in Answers :
          LET accepted == answer = "success"
              node == IF accepted /\ request.kind = "start" THEN Len(nodes) + 1 ELSE NoNode
          IN /\ answer = "noNode" => request.kind = "start"
             /\ nodes' = IF node # NoNode THEN Append(nodes, request.id) ELSE nodes
             /\ finishes' = IF accepted /\ request.kind = "finish" THEN finishes \cup {request}
                                                                   ELSE finishes
             /\ call' = IF /\ worker.pc = "post" /\ call.sent
                           /\ request.id = submitted /\ request.attempt = call.attempt
                          THEN [call EXCEPT !.answer = answer, !.node = node] ELSE call
    /\ UNCHANGED <<changePod, cache, fresh, worker, submitted, outcome, handler, bounds>>

-----------------------------------------------------------------------------
(* The other writers of the ChangePod *)

CacheSync ==
    /\ "cache" \notin fresh
    /\ cache' = changePod /\ fresh' = fresh \cup {"cache"}
    /\ UNCHANGED <<changePod, worker, call, submitted, outcome, platform, handler, bounds>>

FindByNode(node) == cache.node = node

\* CheckCallBackHandler up to its Patch, for a node the platform has created; it
\* gives a verdict once the node is finished.
CheckCallBackHandler(node) ==
    /\ handler = NoPatch /\ callbacks < MaxCallbacks
    /\ node \in DOMAIN nodes /\ FindByNode(node)
    /\ \/ /\ cache.status = "PreSubmitted"
          /\ handler' = [stage |-> "pre", node |-> node]
       \/ /\ cache.status = "PostSubmitted" /\ \E f \in finishes : f.node = node
          /\ handler' = [stage |-> "post", node |-> node]
    /\ callbacks' = callbacks + 1
    /\ UNCHANGED <<changePod, cache, fresh, worker, call, submitted, outcome, platform, losses, crashes>>

\* Mutant: the answers to the start and to the finish are not told apart.
CallbackPatchAnyStage ==
    /\ handler # NoPatch
    /\ changePod' = [changePod EXCEPT !.status = "PostFinish", !.verdict = handler.node]
    /\ fresh' = {}
    /\ handler' = NoPatch
    /\ UNCHANGED <<cache, worker, call, submitted, outcome, platform, bounds>>

CallbackPatch ==
    /\ handler # NoPatch
    /\ changePod' = IF handler.stage = "pre"
                      THEN [changePod EXCEPT !.status = "PostWait"]
                      ELSE [changePod EXCEPT !.status = "PostFinish", !.verdict = handler.node]
    /\ fresh' = {}
    /\ handler' = NoPatch
    /\ UNCHANGED <<cache, worker, call, submitted, outcome, platform, bounds>>

\* The timeout loop and HandleFinishedChangePod: an Update of the version in the cache.
UpdateFromCache ==
    /\ "cache" \in fresh
    /\ \/ /\ cache.status = "PreSubmitted" /\ changePod' = [cache EXCEPT !.status = "PreTimeout"]
       \/ /\ cache.status = "PostSubmitted" /\ changePod' = [cache EXCEPT !.status = "PostTimeout"]
       \/ /\ cache.status \in Finished /\ worker.pc = "idle"
          /\ changePod' = [cache EXCEPT !.status = "ExecuteDone"]
    /\ fresh' = {}
    /\ UNCHANGED <<cache, worker, call, submitted, outcome, platform, handler, bounds>>

\* A restart: the caller of a pending submission is gone, its request may still arrive.
Crash ==
    /\ crashes < MaxCrashes
    /\ crashes' = crashes + 1
    /\ outcome' = [s \in Submissions |-> IF outcome[s] = "pending" THEN "error" ELSE outcome[s]]
    /\ worker' = Idle /\ call' = NoCall /\ handler' = NoPatch
    /\ cache' = changePod /\ fresh' = {"cache"}
    /\ UNCHANGED <<changePod, submitted, platform, losses, callbacks>>

-----------------------------------------------------------------------------
DoPost ==
    \/ AttemptFails \/ Send \/ ConnectionLost \/ AnswerUnreadable \/ AnswerRead

Next ==
    \/ Submit \/ DoPost \/ UpdateChangePodStatus
    \/ \E request \in network : Handle(request)
    \/ CacheSync \/ UpdateFromCache
    \/ \E node \in NodeIds : CheckCallBackHandler(node)
    \/ CallbackPatch
    \/ Crash

Spec == Init /\ [][Next]_vars

HandleAwaited == worker.pc = "post" /\ call.sent /\ Handle(Request)

\* The client goes on. It sets no timeout (&http.Client{}), so that a request somebody
\* waits for is answered, or its connection breaks, is asked of the network.
Fairness == WF_vars(DoPost) /\ WF_vars(HandleAwaited)

FairSpec == Spec /\ Fairness

-----------------------------------------------------------------------------
(* Properties *)

TypeOK ==
    /\ {changePod, cache} \subseteq ChangePods
    /\ fresh \subseteq {"cache", "worker"}
    /\ worker \in [pc : {"idle", "post", "update"}, copy : ChangePods]
    /\ call \in [attempt : 1 .. MaxAttempts, sent : BOOLEAN,
                 answer : Answers \cup {NoAnswer}, node : NodeIds \cup {NoNode}]
    /\ submitted \in 0 .. MaxSubmissions
    /\ outcome \in [Submissions -> {"none", "pending", "success", "error"}]
    /\ network \subseteq Requests
    /\ nodes \in Seq(Submissions) /\ finishes \subseteq Requests
    /\ handler \in [stage : {"none", "pre", "post"}, node : NodeIds \cup {NoNode}]
    /\ {losses, callbacks, crashes} \subseteq Nat

\* How often the platform has accepted a submission.
Effects == [s \in Submissions |-> Cardinality({i \in DOMAIN nodes : nodes[i] = s})
                                + Cardinality({f \in finishes : f.id = s})]

Promise == INSTANCE Submission WITH effects <- Effects, MaxEffects <- MaxAttempts

\* Attempts, lost answers, delayed requests and restarts together are a submission that
\* takes effect at most once per attempt; a success took effect, an error may have
\* (doPost).
SubmissionRefined == Promise!AbsSpec

\* A ChangePod that the platform is to answer for has a node, and it is one that the
\* platform created for a start of this ChangePod and whose number was read.
NodeIsOurs ==
    /\ changePod.status \notin {"PreWait", "PreFailed", "ExecuteDone"} => changePod.node # NoNode
    /\ changePod.node # NoNode => /\ changePod.node \in DOMAIN nodes
                                  /\ outcome[nodes[changePod.node]] = "success"

\* However often the start is submitted again (a conflict, a restart, a stale cache), the
\* node that was stored first stays: the others are answered for by nobody.
NodeIsFinal == [][changePod.node # NoNode => changePod'.node = changePod.node]_vars

\* A verdict is one the platform gave for the ChangePod's own node, after it accepted the
\* finish notification of that node.
VerdictIsOurs ==
    changePod.verdict # NoNode =>
        /\ changePod.verdict = changePod.node
        /\ \E f \in finishes : f.node = changePod.node

\* A worker that submits does not try for ever.
SubmissionEnds == worker.pc = "post" ~> worker.pc # "post"

-----------------------------------------------------------------------------
(* What the safety properties and the refinement rest on: with them, it is inductive *)

\* What is true of every version of the ChangePod, whoever holds it.
Sound(copy) ==
    /\ copy.status \notin {"PreWait", "PreFailed", "ExecuteDone"} => copy.node # NoNode
    /\ copy.status = "PreWait" => copy.node = NoNode
    /\ copy.node # NoNode => /\ copy.node \in DOMAIN nodes
                             /\ outcome[nodes[copy.node]] = "success"
    /\ copy.verdict # NoNode => /\ copy.verdict = copy.node
                                /\ \E f \in finishes : f.node = copy.node

VersionsAreSound == Sound(changePod) /\ Sound(cache) /\ Sound(worker.copy)

\* A node that anybody holds for the ChangePod's is the one that is stored, and who has
\* the present version has not lost it.
HoldersAgree ==
    /\ "cache" \in fresh => cache = changePod
    /\ "worker" \in fresh =>
          /\ worker.pc # "idle" /\ worker.copy.verdict = changePod.verdict
          /\ changePod.node # NoNode => worker.copy.node = changePod.node
    /\ worker.pc = "post" => worker.copy.status \in Waiting
    /\ cache.node # NoNode => changePod.node = cache.node
    /\ handler # NoPatch =>
          /\ handler.node # NoNode /\ changePod.node = handler.node
          /\ handler.stage \in {"pre", "post"}
          /\ handler.stage = "post" => \E f \in finishes : f.node = handler.node

\* The answer at hand is one to the submission that is pending, and the platform did what
\* it says.
AnswersAreTrue ==
    /\ \A s \in Submissions : /\ outcome[s] = "none" <=> s > submitted
                              /\ outcome[s] = "pending" <=> s = submitted /\ worker.pc = "post"
    /\ worker.pc = "post" => submitted > 0
    /\ worker.pc # "post" => call = NoCall
    /\ \A request \in network :
          /\ request.id <= submitted
          /\ worker.pc = "post" /\ request.id = submitted => request.kind = Request.kind
    /\ call.answer = "success" =>
          IF worker.copy.status = "PreWait"
            THEN call.node \in DOMAIN nodes /\ nodes[call.node] = submitted
            ELSE \E f \in finishes : f.id = submitted

\* Attempts of the last submission that were sent, or have been given up.
Attempted ==
    IF worker.pc # "post" THEN MaxAttempts
    ELSE IF call.sent THEN call.attempt ELSE call.attempt - 1

\* Every request on its way, and every effect of one, is that of an attempt.
EffectsAreAttempts ==
    /\ IsFiniteSet(network) /\ IsFiniteSet(finishes)
    /\ Len(nodes) + Cardinality(network) <= (submitted - 1) * MaxAttempts + Attempted
    /\ \A s \in 1 .. submitted :
          Effects[s] + Cardinality({r \in network : r.id = s})
              <= IF s = submitted THEN Attempted ELSE MaxAttempts
    /\ \A s \in Submissions : s > submitted => Effects[s] = 0

IInv == TypeOK /\ VersionsAreSound /\ HoldersAgree /\ AnswersAreTrue /\ EffectsAreAttempts
=============================================================================
