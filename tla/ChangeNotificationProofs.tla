----------------------- MODULE ChangeNotificationProofs -----------------------
(***************************************************************************)
(* Theorems about ChangeNotification for any number of attempts and any     *)
(* bounds: whose node a ChangePod stores, whose verdict it believes, and    *)
(* that retries over a network that loses and delays are a Submission.      *)
(***************************************************************************)
EXTENDS ChangeNotification, FiniteSetTheorems, SequenceTheorems, TLAPS

\* The constants are numbers, and there are at least two attempts.
LEMMA ConstantsAreNat ==
    /\ MaxRetryCount \in Nat /\ MaxSubmissions \in Nat /\ MaxLosses \in Nat
    /\ MaxCallbacks \in Nat /\ MaxCrashes \in Nat
    /\ MaxAttempts \in Nat /\ MaxAttempts >= 2
BY ChangeNotificationAssumption DEF MaxAttempts

-----------------------------------------------------------------------------
(* Types *)

\* The first state is well typed.
LEMMA InitType == Init => TypeOK
BY ConstantsAreNat DEF Init, TypeOK, NewChangePod, ChangePods, Statuses, Waiting, NoNode, Idle,
    NoCall, NoAnswer, Answers, NoPatch, Submissions

\* What the client returns is well typed.
LEMMA ReturnType ==
    ASSUME TypeOK, submitted > 0, NEW success \in BOOLEAN, NEW node \in NodeIds \cup {NoNode},
           Return(success, node)
    PROVE  /\ worker' \in [pc : {"idle", "post", "update"}, copy : ChangePods]
           /\ outcome' \in [Submissions -> {"none", "pending", "success", "error"}]
           /\ call' = NoCall
<1>1. worker.copy \in ChangePods
    BY DEF TypeOK
<1> DEFINE wanted == worker'.copy
<1>2. wanted \in ChangePods /\ worker' = [pc |-> "update", copy |-> wanted]
    BY <1>1 DEF Return, ChangePods, Statuses, Submitted, Finished
<1>3. outcome' \in [Submissions -> {"none", "pending", "success", "error"}]
    BY DEF Return, Outcome, TypeOK, Submissions
<1> QED
    BY <1>2, <1>3 DEF Return

\* The state of a client that is not called is a state of the client.
LEMMA NoCallType ==
    NoCall \in [attempt : 1 .. MaxAttempts, sent : BOOLEAN,
                answer : Answers \cup {NoAnswer}, node : NodeIds \cup {NoNode}]
BY ConstantsAreNat DEF NoCall

\* A failed attempt is followed by another one within the bound.
LEMMA RetryType ==
    ASSUME TypeOK, submitted > 0, RetryOrReturn
    PROVE  /\ worker' \in [pc : {"idle", "post", "update"}, copy : ChangePods]
           /\ outcome' \in [Submissions -> {"none", "pending", "success", "error"}]
           /\ call' \in [attempt : 1 .. MaxAttempts, sent : BOOLEAN,
                         answer : Answers \cup {NoAnswer}, node : NodeIds \cup {NoNode}]
<1>1. CASE call.attempt < MaxAttempts
    <2>1. UNCHANGED <<worker, outcome>>
          /\ call' = [call EXCEPT !.attempt = @ + 1, !.sent = FALSE, !.answer = NoAnswer]
        BY <1>1 DEF RetryOrReturn
    <2>2. call.attempt + 1 \in 1 .. MaxAttempts
        BY <1>1, ConstantsAreNat DEF TypeOK
    <2> QED
        BY <2>1, <2>2 DEF TypeOK
<1>2. CASE ~(call.attempt < MaxAttempts)
    BY <1>2, ReturnType, NoCallType DEF RetryOrReturn
<1> QED
    BY <1>1, <1>2

\* The reconciler and its client.
LEMMA ClientType ==
    ASSUME TypeOK, AnswersAreTrue, Submit \/ DoPost \/ UpdateChangePodStatus
    PROVE  TypeOK'
<1>0. worker.pc = "post" => submitted > 0
    BY DEF AnswersAreTrue
<1>1. CASE Submit
    BY <1>1, NoCallType, ConstantsAreNat DEF Submit, TypeOK, Submissions, platform, bounds
<1>2. CASE AttemptFails
    <2>1. /\ worker' \in [pc : {"idle", "post", "update"}, copy : ChangePods]
          /\ outcome' \in [Submissions -> {"none", "pending", "success", "error"}]
          /\ call' \in [attempt : 1 .. MaxAttempts, sent : BOOLEAN,
                         answer : Answers \cup {NoAnswer}, node : NodeIds \cup {NoNode}]
        BY <1>0, <1>2, RetryType DEF AttemptFails, Trying
    <2> QED
        BY <1>2, <2>1 DEF AttemptFails, TypeOK, platform, bounds
<1>3. CASE Send
    <2>1. Request \in Requests
        BY <1>0, <1>3 DEF Send, Trying, Request, Requests, TypeOK, ChangePods, Submissions
    <2> QED
        BY <1>3, <2>1 DEF Send, TypeOK, bounds
<1>4. CASE ConnectionLost
    <2>1. /\ worker' \in [pc : {"idle", "post", "update"}, copy : ChangePods]
          /\ outcome' \in [Submissions -> {"none", "pending", "success", "error"}]
          /\ call' \in [attempt : 1 .. MaxAttempts, sent : BOOLEAN,
                         answer : Answers \cup {NoAnswer}, node : NodeIds \cup {NoNode}]
        BY <1>0, <1>4, RetryType DEF ConnectionLost
    <2> QED
        BY <1>4, <2>1 DEF ConnectionLost, TypeOK, platform
<1>5. CASE AnswerUnreadable
    <2>1. /\ worker' \in [pc : {"idle", "post", "update"}, copy : ChangePods]
          /\ outcome' \in [Submissions -> {"none", "pending", "success", "error"}]
          /\ call' = NoCall
        BY <1>0, <1>5, ReturnType DEF AnswerUnreadable
    <2> QED
        BY <1>5, <2>1, NoCallType DEF AnswerUnreadable, TypeOK, platform, bounds
<1>6. CASE AnswerRead
    <2>1. call.node \in NodeIds \cup {NoNode} /\ Answered \in BOOLEAN
        BY DEF TypeOK, Answered
    <2>2. /\ worker' \in [pc : {"idle", "post", "update"}, copy : ChangePods]
          /\ outcome' \in [Submissions -> {"none", "pending", "success", "error"}]
          /\ call' = NoCall
        BY <1>0, <1>6, <2>1, ReturnType DEF AnswerRead
    <2> QED
        BY <1>6, <2>2, NoCallType DEF AnswerRead, TypeOK, platform, bounds
<1>7. CASE UpdateChangePodStatus
    <2>1. /\ worker.copy \in ChangePods /\ changePod \in ChangePods
          /\ Idle \in [pc : {"idle", "post", "update"}, copy : ChangePods]
        BY DEF TypeOK, Idle, NewChangePod, ChangePods, Statuses, Waiting, NoNode
    <2>2. /\ changePod' \in ChangePods /\ fresh' \subseteq {"cache", "worker"}
          /\ worker' \in [pc : {"idle", "post", "update"}, copy : ChangePods]
        BY <1>7, <2>1 DEF UpdateChangePodStatus, TypeOK
    <2> QED
        BY <1>7, <2>2 DEF UpdateChangePodStatus, TypeOK, platform, bounds
<1> QED
    BY <1>1, <1>2, <1>3, <1>4, <1>5, <1>6, <1>7 DEF DoPost

\* There is a number left for the node that a request on its way may still create.
LEMMA NodeLeft ==
    ASSUME TypeOK, EffectsAreAttempts, NEW request \in network
    PROVE  Len(nodes) + 1 \in NodeIds
<1>1. /\ Cardinality(network) \in Nat /\ Cardinality(network) > 0
    BY FS_CardinalityType, FS_EmptySet DEF EffectsAreAttempts
<1>2. Attempted \in Int /\ Attempted <= MaxAttempts
    BY ConstantsAreNat DEF Attempted, TypeOK
<1>3. submitted \in Nat /\ submitted <= MaxSubmissions
    BY ConstantsAreNat DEF TypeOK
<1>4. (submitted - 1) * MaxAttempts + MaxAttempts = submitted * MaxAttempts
    BY <1>3, ConstantsAreNat
<1>5. submitted * MaxAttempts <= MaxSubmissions * MaxAttempts
    BY <1>3, ConstantsAreNat
<1>6. Len(nodes) \in Nat /\ submitted * MaxAttempts \in Int /\ MaxSubmissions * MaxAttempts \in Int
    BY <1>3, ConstantsAreNat, LenProperties DEF TypeOK
<1>7. (submitted - 1) * MaxAttempts \in Int
    BY <1>3, ConstantsAreNat
<1>8. Len(nodes) + Cardinality(network) <= (submitted - 1) * MaxAttempts + Attempted
    BY DEF EffectsAreAttempts
<1>9. Len(nodes) + 1 <= MaxSubmissions * MaxAttempts
    BY <1>1, <1>2, <1>4, <1>5, <1>6, <1>7, <1>8, ConstantsAreNat
<1> QED
    BY <1>6, <1>9 DEF NodeIds

\* The network, the platform and the other writers.
LEMMA EnvironmentType ==
    ASSUME TypeOK, EffectsAreAttempts,
           \/ \E request \in network : Handle(request)
           \/ CacheSync \/ UpdateFromCache \/ CallbackPatch \/ Crash
           \/ \E node \in NodeIds : CheckCallBackHandler(node)
    PROVE  TypeOK'
<1>0. changePod \in ChangePods /\ cache \in ChangePods
    BY DEF TypeOK
<1>1. ASSUME NEW request \in network, Handle(request)
      PROVE  TypeOK'
    <2>1. Len(nodes) + 1 \in NodeIds /\ request \in Requests
        BY NodeLeft DEF TypeOK
    <2>2. PICK answer \in Answers, node \in NodeIds \cup {NoNode} :
             /\ nodes' = nodes \/ nodes' = Append(nodes, request.id)
             /\ finishes' = finishes \/ finishes' = finishes \cup {request}
             /\ call' = call \/ call' = [call EXCEPT !.answer = answer, !.node = node]
        BY <1>1, <2>1 DEF Handle
    <2>3. nodes' \in Seq(Submissions) /\ finishes' \subseteq Requests
        <3>1. nodes \in Seq(Submissions) /\ request.id \in Submissions /\ finishes \subseteq Requests
            BY <2>1 DEF TypeOK, Requests
        <3>2. Append(nodes, request.id) \in Seq(Submissions)
            BY <3>1, AppendProperties
        <3> QED
            BY <2>1, <2>2, <3>1, <3>2
    <2>4. call' \in [attempt : 1 .. MaxAttempts, sent : BOOLEAN,
                     answer : Answers \cup {NoAnswer}, node : NodeIds \cup {NoNode}]
        <3> DEFINE Ids == NodeIds \cup {NoNode}
                   Calls == [attempt : 1 .. MaxAttempts, sent : BOOLEAN,
                             answer : Answers \cup {NoAnswer}, node : Ids]
        <3>1. call \in Calls /\ node \in Ids
            BY DEF TypeOK
        <3> HIDE DEF Ids
        <3>2. [call EXCEPT !.answer = answer, !.node = node] \in Calls
            BY <3>1
        <3>3. call' \in Calls
            BY <2>2, <3>1, <3>2
        <3> QED
            BY <3>3 DEF Ids
    <2> QED
        BY <1>1, <2>3, <2>4 DEF Handle, TypeOK, bounds
<1>2. CASE CacheSync
    BY <1>2 DEF CacheSync, TypeOK, platform, bounds
<1>3. CASE UpdateFromCache
    <2>1. changePod' \in ChangePods
        BY <1>0, <1>3 DEF UpdateFromCache, ChangePods, Statuses, Finished
    <2> QED
        BY <1>3, <2>1 DEF UpdateFromCache, TypeOK, platform, bounds
<1>4. CASE CallbackPatch
    <2>1. handler.node \in NodeIds \cup {NoNode}
        BY DEF TypeOK
    <2>2. changePod' \in ChangePods
        BY <1>0, <1>4, <2>1 DEF CallbackPatch, ChangePods, Statuses, Finished, Waiting
    <2> QED
        BY <1>4, <2>2 DEF CallbackPatch, TypeOK, NoPatch, platform, bounds
<1>5. CASE Crash
    <2>1. outcome' \in [Submissions -> {"none", "pending", "success", "error"}]
        BY <1>5 DEF Crash, TypeOK
    <2>2. worker' \in [pc : {"idle", "post", "update"}, copy : ChangePods]
        BY <1>5 DEF Crash, Idle, NewChangePod, ChangePods, Statuses, Waiting, NoNode
    <2> QED
        BY <1>5, <2>1, <2>2, NoCallType DEF Crash, TypeOK, NoPatch, platform
<1>6. ASSUME NEW node \in NodeIds, CheckCallBackHandler(node)
      PROVE  TypeOK'
    BY <1>6 DEF CheckCallBackHandler, TypeOK, platform
<1> QED
    BY <1>1, <1>2, <1>3, <1>4, <1>5, <1>6

\* Types are kept; that a node is left to number takes the account of the effects.
LEMMA NextType ==
    ASSUME TypeOK, AnswersAreTrue, EffectsAreAttempts, [Next]_vars
    PROVE  TypeOK'
<1>1. CASE UNCHANGED vars
    BY <1>1 DEF vars, TypeOK
<1> QED
    BY <1>1, ClientType, EnvironmentType DEF Next

-----------------------------------------------------------------------------
(* Whose answer it is *)

\* What the platform makes of a request.
LEMMA HandleEffect ==
    ASSUME TypeOK, NEW request \in network, Handle(request)
    PROVE  /\ request \in Requests /\ network' = network \ {request}
           /\ UNCHANGED <<changePod, cache, fresh, worker, submitted, outcome, handler>>
           /\ \E answer \in Answers :
                 LET accepted == answer = "success"
                     started  == accepted /\ request.kind = "start"
                 IN /\ nodes' = IF started THEN Append(nodes, request.id) ELSE nodes
                    /\ finishes' = IF accepted /\ request.kind = "finish"
                                     THEN finishes \cup {request} ELSE finishes
                    /\ \/ call' = call
                       \/ /\ worker.pc = "post" /\ request.id = submitted
                          /\ call' = [call EXCEPT !.answer = answer,
                                          !.node = IF started THEN Len(nodes) + 1 ELSE NoNode]
<1>1. Len(nodes) \in Nat
    BY LenProperties DEF TypeOK
<1>2. request \in Requests
    BY DEF TypeOK
<1>3. PICK answer \in Answers :
         LET accepted == answer = "success"
             node == IF accepted /\ request.kind = "start" THEN Len(nodes) + 1 ELSE NoNode
         IN /\ nodes' = IF node # NoNode THEN Append(nodes, request.id) ELSE nodes
            /\ finishes' = IF accepted /\ request.kind = "finish" THEN finishes \cup {request}
                                                                  ELSE finishes
            /\ \/ call' = call
               \/ /\ worker.pc = "post" /\ request.id = submitted
                  /\ call' = [call EXCEPT !.answer = answer, !.node = node]
    BY DEF Handle
<1>4. network' = network \ {request}
      /\ UNCHANGED <<changePod, cache, fresh, worker, submitted, outcome, handler>>
    BY DEF Handle
<1> DEFINE started == answer = "success" /\ request.kind = "start"
           node == IF started THEN Len(nodes) + 1 ELSE NoNode
<1>5. nodes' = IF started THEN Append(nodes, request.id) ELSE nodes
    BY <1>1, <1>3 DEF NoNode
<1>6. /\ finishes' = IF answer = "success" /\ request.kind = "finish"
                       THEN finishes \cup {request} ELSE finishes
      /\ \/ call' = call
         \/ /\ worker.pc = "post" /\ request.id = submitted
            /\ call' = [call EXCEPT !.answer = answer, !.node = node]
    BY <1>3
<1> QED
    BY <1>2, <1>4, <1>5, <1>6

\* Nodes and finishes are only ever added.
LEMMA PlatformRemembers ==
    ASSUME TypeOK, [Next]_vars
    PROVE  /\ finishes \subseteq finishes'
           /\ DOMAIN nodes \subseteq DOMAIN nodes'
           /\ \A n \in DOMAIN nodes : nodes'[n] = nodes[n] /\ nodes[n] \in Submissions
<1>1. \A n \in DOMAIN nodes : nodes[n] \in Submissions
    BY DEF TypeOK
<1>2. CASE UNCHANGED <<nodes, finishes>>
    BY <1>1, <1>2
<1>3. ASSUME NEW request \in network, Handle(request)
      PROVE  /\ finishes \subseteq finishes'
             /\ DOMAIN nodes \subseteq DOMAIN nodes'
             /\ \A n \in DOMAIN nodes : nodes'[n] = nodes[n]
    <2>1. /\ nodes' = nodes \/ nodes' = Append(nodes, request.id)
          /\ finishes \subseteq finishes'
          /\ request.id \in Submissions
        BY <1>3, HandleEffect DEF Requests
    <2>2. nodes \in Seq(Submissions)
        BY DEF TypeOK
    <2>3. /\ DOMAIN nodes = 1 .. Len(nodes) /\ Len(nodes) \in Nat
          /\ Len(Append(nodes, request.id)) = Len(nodes) + 1
          /\ DOMAIN Append(nodes, request.id) = 1 .. Len(Append(nodes, request.id))
          /\ \A n \in 1 .. Len(nodes) : Append(nodes, request.id)[n] = nodes[n]
        BY <2>1, <2>2, AppendProperties, LenProperties
    <2>4. CASE nodes' = nodes
        BY <2>1, <2>4
    <2>5. CASE nodes' = Append(nodes, request.id)
        BY <2>1, <2>3, <2>5
    <2> QED
        BY <2>1, <2>4, <2>5
<1> QED
    BY <1>1, <1>2, <1>3
       DEF Next, vars, Submit, DoPost, AttemptFails, Send, ConnectionLost, AnswerUnreadable,
           AnswerRead, UpdateChangePodStatus, CacheSync, UpdateFromCache, CheckCallBackHandler,
           CallbackPatch, Crash, platform

\* A submission ends with an outcome and without a call.
LEMMA ReturnEnds ==
    ASSUME NEW success \in BOOLEAN, NEW node, Return(success, node)
    PROVE  /\ worker'.pc = "update" /\ call' = NoCall
           /\ \E end \in {"success", "error"} : outcome' = [outcome EXCEPT ![submitted] = end]
BY DEF Return, Outcome

\* A failure names no node, whatever the answer said.
LEMMA FailureNamesNoNode ==
    ASSUME NEW a, NEW b, Return(FALSE, a)
    PROVE  Return(FALSE, b)
BY DEF Return

\* Every step keeps the answers true: the platform forgets nothing it has accepted.
LEMMA NextAnswers ==
    ASSUME TypeOK, AnswersAreTrue, [Next]_vars
    PROVE  AnswersAreTrue'
<1> DEFINE Known(s) ==
        /\ outcome[s] = "none" <=> s > submitted
        /\ outcome[s] = "pending" <=> s = submitted /\ worker.pc = "post"
<1>0. /\ submitted \in 0 .. MaxSubmissions /\ MaxSubmissions \in Nat
      /\ \A s \in Submissions : s \in 1 .. MaxSubmissions
      /\ outcome \in [Submissions -> {"none", "pending", "success", "error"}]
    BY ConstantsAreNat DEF TypeOK, Submissions
<1>1. ASSUME NEW success \in BOOLEAN, NEW node, Return(success, node),
             worker.pc = "post", UNCHANGED <<submitted, network>>
      PROVE  AnswersAreTrue'
    <2>1. PICK end \in {"success", "error"} : outcome' = [outcome EXCEPT ![submitted] = end]
        BY <1>1, ReturnEnds
    <2>2. worker'.pc = "update" /\ call' = NoCall
        BY <1>1, ReturnEnds
    <2>3. \A s \in Submissions : Known(s)'
        <3> TAKE s \in Submissions
        <3>1. Known(s) /\ submitted \in Submissions
            BY <1>0, <1>1 DEF AnswersAreTrue, Submissions
        <3>2. outcome'[s] = IF s = submitted THEN end ELSE outcome[s]
            BY <1>0, <2>1, <3>1
        <3>3. CASE s = submitted
            BY <1>0, <1>1, <2>2, <3>1, <3>2, <3>3
        <3>4. CASE s # submitted
            BY <1>0, <1>1, <2>2, <3>1, <3>2, <3>4
        <3> QED
            BY <3>3, <3>4
    <2> QED
        BY <1>1, <2>2, <2>3 DEF AnswersAreTrue, NoCall, NoAnswer
<1>2. ASSUME RetryOrReturn, worker.pc = "post", UNCHANGED <<submitted, network>>
      PROVE  AnswersAreTrue'
    <2>1. CASE call.attempt < MaxAttempts
        <3>1. /\ UNCHANGED <<worker, outcome>>
              /\ call' = [call EXCEPT !.attempt = @ + 1, !.sent = FALSE, !.answer = NoAnswer]
            BY <1>2, <2>1 DEF RetryOrReturn
        <3>2. call'.answer = NoAnswer
            BY <3>1 DEF TypeOK
        <3> QED
            BY <1>2, <3>1, <3>2 DEF AnswersAreTrue, NoAnswer, Request
    <2>2. CASE ~(call.attempt < MaxAttempts)
        BY <1>1, <1>2, <2>2 DEF RetryOrReturn
    <2> QED
        BY <2>1, <2>2
<1>3. CASE Submit
    <2>1. /\ submitted' = submitted + 1 /\ submitted' \in Submissions
          /\ outcome' = [outcome EXCEPT ![submitted'] = "pending"]
          /\ worker'.pc = "post" /\ call' = NoCall /\ worker.pc = "idle" /\ UNCHANGED network
        BY <1>0, <1>3 DEF Submit, Submissions, platform
    <2>2. \A s \in Submissions : Known(s)'
        <3> TAKE s \in Submissions
        <3>1. Known(s)
            BY DEF AnswersAreTrue
        <3>2. outcome'[s] = IF s = submitted + 1 THEN "pending" ELSE outcome[s]
            BY <1>0, <2>1
        <3> QED
            BY <1>0, <2>1, <3>1, <3>2
    <2>3. \A request \in network : request.id <= submitted /\ request.id \in Nat
        BY DEF AnswersAreTrue, TypeOK, Requests, Submissions
    <2> QED
        BY <1>0, <2>1, <2>2, <2>3 DEF AnswersAreTrue, NoCall, NoAnswer
<1>4. CASE DoPost
    <2>1. CASE AttemptFails
        BY <1>2, <2>1 DEF AttemptFails, Trying, platform
    <2>2. CASE ConnectionLost
        BY <1>2, <2>2 DEF ConnectionLost, platform
    <2>3. CASE AnswerUnreadable
        BY <1>1, <2>3 DEF AnswerUnreadable, platform
    <2>4. CASE AnswerRead
        <3>1. Answered \in BOOLEAN
            BY DEF Answered
        <3> QED
            BY <1>1, <2>4, <3>1 DEF AnswerRead, platform
    <2>5. CASE Send
        <3>2. /\ worker.pc = "post" /\ network' = network \cup {Request}
              /\ UNCHANGED <<worker, submitted, outcome, nodes, finishes>>
              /\ call' = [call EXCEPT !.sent = TRUE]
            BY <2>5 DEF Send, Trying
        <3>3. Request.id = submitted /\ Request'.kind = Request.kind
            BY <3>2 DEF Request
        <3>4. call'.answer = call.answer /\ call'.node = call.node
            BY <3>2 DEF TypeOK
        <3> QED
            BY <1>0, <3>2, <3>3, <3>4 DEF AnswersAreTrue
    <2> QED
        BY <1>4, <2>1, <2>2, <2>3, <2>4, <2>5 DEF DoPost
<1>5. CASE UpdateChangePodStatus
    BY <1>5 DEF UpdateChangePodStatus, AnswersAreTrue, Idle, NoCall, NoAnswer, platform
<1>6. ASSUME NEW request \in network, Handle(request)
      PROVE  AnswersAreTrue'
    <2>1. /\ UNCHANGED <<worker, submitted, outcome>> /\ network' \subseteq network
          /\ \A n \in DOMAIN nodes : nodes'[n] = nodes[n]
          /\ DOMAIN nodes \subseteq DOMAIN nodes' /\ finishes \subseteq finishes'
        BY <1>6, HandleEffect, PlatformRemembers
    <2>2. CASE call' = call
        BY <1>0, <2>1, <2>2 DEF AnswersAreTrue, Request
    <2>3. CASE call' # call
        <3>1. /\ call \in [attempt : 1 .. MaxAttempts, sent : BOOLEAN,
                           answer : Answers \cup {NoAnswer}, node : NodeIds \cup {NoNode}]
              /\ nodes \in Seq(Submissions) /\ request.id \in Submissions
            BY <1>6, HandleEffect DEF TypeOK, Requests
        <3>2. worker.pc = "post" /\ request.id = submitted /\ request.kind = Request.kind
            BY <1>6, <2>3, HandleEffect DEF AnswersAreTrue
        <3>3. call'.answer = "success" =>
                  IF worker.copy.status = "PreWait"
                    THEN nodes' = Append(nodes, submitted) /\ call'.node = Len(nodes) + 1
                    ELSE request \in finishes'
            BY <1>6, <2>3, <3>1, <3>2, HandleEffect DEF Request
        <3>4. Append(nodes, submitted)[Len(nodes) + 1] = submitted
              /\ Len(nodes) + 1 \in DOMAIN Append(nodes, submitted)
            BY <3>1, <3>2, AppendProperties, LenProperties
        <3>5. call'.answer = "success" =>
                  IF worker.copy.status = "PreWait"
                    THEN call'.node \in DOMAIN nodes' /\ nodes'[call'.node] = submitted
                    ELSE \E f \in finishes' : f.id = submitted
            BY <3>2, <3>3, <3>4
        <3> QED
            BY <1>0, <2>1, <3>2, <3>5 DEF AnswersAreTrue, Request
    <2> QED
        BY <2>2, <2>3
<1>7. CASE CacheSync \/ UpdateFromCache \/ CallbackPatch \/ \E node \in NodeIds : CheckCallBackHandler(node)
    BY <1>7 DEF CacheSync, UpdateFromCache, CallbackPatch, CheckCallBackHandler, AnswersAreTrue,
                Request, platform
<1>8. CASE Crash
    <2>1. /\ UNCHANGED <<submitted, network>> /\ worker'.pc = "idle" /\ call' = NoCall
          /\ \A s \in Submissions :
                outcome'[s] = IF outcome[s] = "pending" THEN "error" ELSE outcome[s]
        BY <1>8 DEF Crash, Idle, platform
    <2> QED
        BY <1>0, <2>1 DEF AnswersAreTrue, NoCall, NoAnswer
<1>9. CASE UNCHANGED vars
    BY <1>9 DEF vars, AnswersAreTrue, Request
<1> QED
    BY <1>3, <1>4, <1>5, <1>6, <1>7, <1>8, <1>9 DEF Next

-----------------------------------------------------------------------------
(* Whose node and verdict it is *)

\* What a version may be relied on for stays true of it.
LEMMA SoundStays ==
    ASSUME TypeOK, AnswersAreTrue, [Next]_vars
    PROVE  \A copy \in ChangePods :
              copy.node # NoNode /\ copy.node \in DOMAIN nodes
                  /\ outcome[nodes[copy.node]] = "success"
              => copy.node \in DOMAIN nodes' /\ outcome'[nodes'[copy.node]] = "success"
<1>1. /\ DOMAIN nodes \subseteq DOMAIN nodes'
      /\ \A n \in DOMAIN nodes : nodes'[n] = nodes[n] /\ nodes[n] \in Submissions
    BY PlatformRemembers
<1>2. ASSUME NEW s \in Submissions, outcome[s] = "success"
      PROVE  outcome'[s] = "success"
    <2>1. CASE UNCHANGED outcome
        BY <1>2, <2>1
    <2>2. ASSUME NEW t, NEW end, outcome' = [outcome EXCEPT ![t] = end], outcome[t] # "success"
          PROVE  outcome'[s] = "success"
        BY <1>2, <2>2 DEF TypeOK
    <2>3. CASE Submit
        <3>1. submitted + 1 \in Submissions /\ submitted \in Nat
            BY <2>3, ConstantsAreNat DEF Submit, TypeOK, Submissions
        <3>2. outcome[submitted + 1] = "none"
            BY <3>1 DEF AnswersAreTrue
        <3>3. outcome' = [outcome EXCEPT ![submitted + 1] = "pending"]
            BY <2>3 DEF Submit
        <3> QED
            BY <2>2, <3>2, <3>3
    <2>4. ASSUME NEW success \in BOOLEAN, NEW node, Return(success, node), worker.pc = "post"
          PROVE  outcome'[s] = "success"
        <3>1. outcome[submitted] = "pending"
            BY <2>4, ConstantsAreNat DEF AnswersAreTrue, TypeOK, Submissions
        <3> QED
            BY <2>2, <2>4, <3>1, ReturnEnds
    <2>5. CASE DoPost
        <3>1. CASE AttemptFails \/ ConnectionLost
            BY <2>1, <2>4, <3>1 DEF AttemptFails, ConnectionLost, Trying, RetryOrReturn
        <3>2. CASE AnswerUnreadable
            BY <2>4, <3>2 DEF AnswerUnreadable
        <3>3. CASE AnswerRead
            BY <2>4, <3>3 DEF AnswerRead, Answered
        <3>4. CASE Send
            BY <2>1, <3>4 DEF Send
        <3> QED
            BY <2>5, <3>1, <3>2, <3>3, <3>4 DEF DoPost
    <2>6. CASE Crash
        BY <1>2, <2>6 DEF Crash
    <2> QED
        BY <2>1, <2>3, <2>5, <2>6
           DEF Next, vars, UpdateChangePodStatus, Handle, CacheSync, UpdateFromCache,
               CheckCallBackHandler, CallbackPatch
<1> QED
    BY <1>1, <1>2

\* The version the client returns: the node of a start that succeeded is one of ours.
LEMMA ReturnSound ==
    ASSUME TypeOK, AnswersAreTrue, VersionsAreSound, HoldersAgree, [Next]_vars,
           NEW success \in BOOLEAN, Return(success, call.node),
           worker.pc = "post", success => call.answer = "success", UNCHANGED <<nodes, finishes>>
    PROVE  /\ Sound(worker.copy)' /\ worker'.copy.verdict = worker.copy.verdict
           /\ worker.copy.node # NoNode => worker'.copy.node = worker.copy.node
<1> DEFINE copy == worker.copy
<1>1. /\ copy \in ChangePods /\ Sound(copy) /\ copy.status \in {"PreWait", "PostWait"}
      /\ submitted \in Submissions /\ outcome \in [Submissions -> {"none", "pending", "success", "error"}]
    BY ConstantsAreNat DEF TypeOK, VersionsAreSound, HoldersAgree, Waiting, AnswersAreTrue, Submissions
<1>2. outcome' = [outcome EXCEPT ![submitted] = Outcome(success)]
    BY DEF Return
<1>3. CASE copy.status = "PostWait"
    <2>0. worker'.copy = [copy EXCEPT !.status = IF success THEN "PostSubmitted" ELSE "PostFailed"]
        BY <1>1, <1>3 DEF Return
    <2>1. /\ worker'.copy.status \in {"PostSubmitted", "PostFailed"}
          /\ worker'.copy.node = copy.node /\ worker'.copy.verdict = copy.verdict
        BY <1>1, <2>0 DEF ChangePods
    <2> QED
        BY <1>1, <1>3, <2>1, SoundStays DEF Sound
<1>4. CASE copy.status = "PreWait" /\ success
    <2>0. worker'.copy = [copy EXCEPT !.status = "PreSubmitted", !.node = call.node]
        BY <1>1, <1>4 DEF Return
    <2>1. /\ worker'.copy.status = "PreSubmitted"
          /\ worker'.copy.node = call.node /\ worker'.copy.verdict = copy.verdict
        BY <1>1, <2>0 DEF ChangePods
    <2>2. call.node \in DOMAIN nodes /\ nodes[call.node] = submitted
        BY <1>4 DEF AnswersAreTrue
    <2>3. call.node # NoNode
        BY <2>2, LenProperties DEF TypeOK, NoNode
    <2>4. outcome'[submitted] = "success"
        BY <1>1, <1>2, <1>4 DEF Outcome
    <2> QED
        BY <1>1, <1>4, <2>1, <2>2, <2>3, <2>4 DEF Sound
<1>5. CASE copy.status = "PreWait" /\ ~success
    <2>0. worker'.copy = [copy EXCEPT !.status = "PreFailed"]
        BY <1>1, <1>5 DEF Return
    <2>1. /\ worker'.copy.status = "PreFailed"
          /\ worker'.copy.node = copy.node /\ worker'.copy.verdict = copy.verdict
        BY <1>1, <2>0 DEF ChangePods
    <2> QED
        BY <1>1, <1>5, <2>1 DEF Sound
<1> QED
    BY <1>1, <1>3, <1>4, <1>5

\* The client and the reconciler; NextSound below is the whole step.
LEMMA ClientSound ==
    ASSUME TypeOK, AnswersAreTrue, VersionsAreSound, HoldersAgree, [Next]_vars,
           Submit \/ DoPost \/ UpdateChangePodStatus
    PROVE  VersionsAreSound' /\ HoldersAgree'
<1>0. /\ {changePod, cache, worker.copy} \subseteq ChangePods
      /\ Sound(changePod) /\ Sound(cache) /\ Sound(worker.copy)
    BY DEF TypeOK, VersionsAreSound
<1>1. ASSUME NEW success \in BOOLEAN, Return(success, call.node),
             success => call.answer = "success", worker.pc = "post",
             UNCHANGED <<changePod, cache, fresh, nodes, finishes, handler>>
      PROVE  VersionsAreSound' /\ HoldersAgree'
    <2>1. Sound(worker.copy)' /\ worker'.copy.verdict = worker.copy.verdict
          /\ (worker.copy.node # NoNode => worker'.copy.node = worker.copy.node)
        BY <1>1, ReturnSound
    <2>2. Sound(changePod)' /\ Sound(cache)'
        BY <1>0, <1>1, SoundStays DEF Sound
    <2>3. worker'.pc = "update"
        BY <1>1, ReturnEnds
    <2>4. HoldersAgree'
        BY <1>1, <2>1, <2>3 DEF HoldersAgree
    <2> QED
        BY <2>1, <2>2, <2>4 DEF VersionsAreSound
<1>2. ASSUME RetryOrReturn, worker.pc = "post",
             UNCHANGED <<changePod, cache, fresh, nodes, finishes, handler>>
      PROVE  VersionsAreSound' /\ HoldersAgree'
    <2>1. CASE call.attempt < MaxAttempts
        BY <1>2, <2>1 DEF RetryOrReturn, VersionsAreSound, HoldersAgree, Sound
    <2>2. CASE ~(call.attempt < MaxAttempts)
        BY <1>1, <1>2, <2>2, FailureNamesNoNode DEF RetryOrReturn
    <2> QED
        BY <2>1, <2>2
<1>3. CASE Submit
    <2>1. /\ worker' = [pc |-> "post", copy |-> cache] /\ cache.status \in Waiting
          /\ fresh' = IF "cache" \in fresh THEN fresh \cup {"worker"} ELSE fresh
          /\ worker.pc = "idle"
          /\ UNCHANGED <<changePod, cache, nodes, finishes, handler>>
        BY <1>3 DEF Submit, platform
    <2>2. Sound(changePod)' /\ Sound(cache)'
        BY <1>0, <2>1, SoundStays DEF Sound
    <2>3. Sound(worker.copy)'
        BY <2>1, <2>2 DEF Sound
    <2>4. HoldersAgree'
        BY <2>1 DEF HoldersAgree
    <2> QED
        BY <2>2, <2>3, <2>4 DEF VersionsAreSound
<1>4. CASE DoPost
    <2>1. CASE AttemptFails \/ ConnectionLost
        BY <1>2, <2>1 DEF AttemptFails, ConnectionLost, Trying, platform
    <2>2. CASE AnswerUnreadable
        BY <1>1, <2>2, FailureNamesNoNode DEF AnswerUnreadable, platform
    <2>3. CASE AnswerRead
        BY <1>1, <2>3 DEF AnswerRead, Answered, platform
    <2>4. CASE Send
        BY <2>4 DEF Send, VersionsAreSound, HoldersAgree, Sound
    <2> QED
        BY <1>4, <2>1, <2>2, <2>3, <2>4 DEF DoPost
<1>5. CASE UpdateChangePodStatus
    <2>1. /\ worker' = Idle /\ UNCHANGED <<cache, nodes, finishes, outcome, handler>>
          /\ \/ "worker" \in fresh /\ changePod' = worker.copy /\ fresh' = {}
             \/ "worker" \notin fresh /\ UNCHANGED <<changePod, fresh>>
        BY <1>5 DEF UpdateChangePodStatus, platform
    <2>2. Sound(changePod)' /\ Sound(cache)' /\ Sound(worker.copy)'
        BY <1>0, <2>1 DEF Sound, Idle, NewChangePod
    <2>3. HoldersAgree'
        BY <2>1 DEF HoldersAgree, Idle
    <2> QED
        BY <2>2, <2>3 DEF VersionsAreSound
<1> QED
    BY <1>3, <1>4, <1>5

\* The platform, the informer, the callback handler and a restart keep the versions sound.
LEMMA EnvironmentSound ==
    ASSUME TypeOK, AnswersAreTrue, VersionsAreSound, HoldersAgree, [Next]_vars,
           \/ \E request \in network : Handle(request)
           \/ CacheSync \/ UpdateFromCache \/ CallbackPatch \/ Crash
           \/ \E node \in NodeIds : CheckCallBackHandler(node)
    PROVE  VersionsAreSound' /\ HoldersAgree'
<1>0. /\ {changePod, cache, worker.copy} \subseteq ChangePods
      /\ Sound(changePod) /\ Sound(cache) /\ Sound(worker.copy)
    BY DEF TypeOK, VersionsAreSound
<1>1. CASE \E request \in network : Handle(request)
    <2>1. UNCHANGED <<changePod, cache, fresh, worker, handler>> /\ finishes \subseteq finishes'
        BY <1>1, HandleEffect, PlatformRemembers
    <2>2. Sound(changePod)' /\ Sound(cache)' /\ Sound(worker.copy)'
        BY <1>0, <2>1, SoundStays DEF Sound
    <2>3. HoldersAgree'
        BY <2>1 DEF HoldersAgree
    <2> QED
        BY <2>2, <2>3 DEF VersionsAreSound
<1>2. CASE CacheSync
    BY <1>0, <1>2 DEF CacheSync, VersionsAreSound, HoldersAgree, Sound, platform
<1>3. CASE UpdateFromCache
    <2>1. /\ cache = changePod /\ fresh' = {}
          /\ UNCHANGED <<cache, worker, nodes, finishes, outcome, handler>>
          /\ \/ changePod' = [cache EXCEPT !.status = "PreTimeout"] /\ cache.status = "PreSubmitted"
             \/ changePod' = [cache EXCEPT !.status = "PostTimeout"] /\ cache.status = "PostSubmitted"
             \/ changePod' = [cache EXCEPT !.status = "ExecuteDone"]
        BY <1>3 DEF UpdateFromCache, HoldersAgree, platform
    <2>2. changePod'.node = changePod.node /\ changePod'.verdict = changePod.verdict
        BY <1>0, <2>1 DEF ChangePods
    <2>3. \/ changePod'.status = "ExecuteDone"
          \/ changePod'.status \in {"PreTimeout", "PostTimeout"} /\ changePod.node # NoNode
        BY <1>0, <2>1 DEF ChangePods, Sound
    <2>4. Sound(changePod)' /\ Sound(cache)' /\ Sound(worker.copy)'
        BY <1>0, <2>1, <2>2, <2>3 DEF Sound
    <2>5. HoldersAgree'
        BY <2>1, <2>2 DEF HoldersAgree
    <2> QED
        BY <2>4, <2>5 DEF VersionsAreSound
<1>4. CASE CallbackPatch
    <2>1. /\ handler # NoPatch /\ handler' = NoPatch /\ fresh' = {}
          /\ UNCHANGED <<cache, worker, nodes, finishes, outcome>>
          /\ \/ handler.stage = "pre" /\ changePod' = [changePod EXCEPT !.status = "PostWait"]
             \/ handler.stage # "pre" /\ changePod' = [changePod EXCEPT !.status = "PostFinish",
                                                                   !.verdict = handler.node]
        BY <1>4 DEF CallbackPatch, platform
    <2>2. /\ changePod'.node = changePod.node /\ changePod.node # NoNode
          /\ changePod'.status \in {"PostWait", "PostFinish"}
          /\ \/ changePod'.verdict = changePod.verdict
             \/ changePod'.verdict = changePod.node /\ \E f \in finishes : f.node = changePod.node
        BY <1>0, <2>1 DEF ChangePods, HoldersAgree
    <2>3. Sound(changePod)' /\ Sound(cache)' /\ Sound(worker.copy)'
        BY <1>0, <2>1, <2>2 DEF Sound
    <2>4. HoldersAgree'
        BY <2>1, <2>2 DEF HoldersAgree
    <2> QED
        BY <2>3, <2>4 DEF VersionsAreSound
<1>5. CASE Crash
    <2>1. /\ worker' = Idle /\ handler' = NoPatch /\ cache' = changePod /\ fresh' = {"cache"}
          /\ UNCHANGED <<changePod, nodes, finishes>>
        BY <1>5 DEF Crash, platform
    <2>2. Sound(changePod)'
        BY <1>0, <2>1, SoundStays DEF Sound
    <2>3. Sound(cache)' /\ Sound(worker.copy)'
        BY <2>1, <2>2 DEF Sound, Idle, NewChangePod
    <2>4. HoldersAgree'
        BY <2>1 DEF HoldersAgree, Idle
    <2> QED
        BY <2>2, <2>3, <2>4 DEF VersionsAreSound
<1>6. ASSUME NEW node \in NodeIds, CheckCallBackHandler(node)
      PROVE  VersionsAreSound' /\ HoldersAgree'
    BY <1>0, <1>6, ConstantsAreNat
       DEF CheckCallBackHandler, FindByNode, VersionsAreSound, HoldersAgree, Sound, NodeIds, NoNode,
           platform
<1> QED
    BY <1>1, <1>2, <1>3, <1>4, <1>5, <1>6

\* Every step keeps the versions sound and their holders in agreement.
LEMMA NextSound ==
    ASSUME TypeOK, AnswersAreTrue, VersionsAreSound, HoldersAgree, [Next]_vars
    PROVE  VersionsAreSound' /\ HoldersAgree'
<1>1. CASE UNCHANGED vars
    BY <1>1 DEF vars, VersionsAreSound, HoldersAgree, Sound
<1> QED
    BY <1>1, ClientSound, EnvironmentSound DEF Next

-----------------------------------------------------------------------------
(* How many requests there are, and what they did *)

NodesOf(s)    == {i \in DOMAIN nodes : nodes[i] = s}
FinishesOf(s) == {f \in finishes : f.id = s}
RequestsOf(s) == {r \in network : r.id = s}

\* The sets that are counted are finite.
LEMMA Counted ==
    ASSUME TypeOK, IsFiniteSet(network), IsFiniteSet(finishes), NEW s \in Submissions
    PROVE  /\ IsFiniteSet(NodesOf(s)) /\ Cardinality(NodesOf(s)) \in Nat
           /\ IsFiniteSet(FinishesOf(s)) /\ Cardinality(FinishesOf(s)) \in Nat
           /\ IsFiniteSet(RequestsOf(s)) /\ Cardinality(RequestsOf(s)) \in Nat
           /\ Effects[s] = Cardinality(NodesOf(s)) + Cardinality(FinishesOf(s))
<1>1. IsFiniteSet(DOMAIN nodes)
    <2>1. DOMAIN nodes = 1 .. Len(nodes) /\ Len(nodes) \in Nat
        BY LenProperties DEF TypeOK
    <2> QED
        BY <2>1, FS_Interval
<1>2. /\ NodesOf(s) \in SUBSET DOMAIN nodes
      /\ FinishesOf(s) \in SUBSET finishes /\ RequestsOf(s) \in SUBSET network
    BY DEF NodesOf, FinishesOf, RequestsOf
<1>3. IsFiniteSet(NodesOf(s)) /\ IsFiniteSet(FinishesOf(s)) /\ IsFiniteSet(RequestsOf(s))
    BY <1>1, <1>2, FS_Subset
<1>4. Effects[s] = Cardinality(NodesOf(s)) + Cardinality(FinishesOf(s))
    BY DEF Effects, NodesOf, FinishesOf
<1> QED
    BY <1>3, <1>4, FS_CardinalityType

\* The platform takes one request off the network and counts it at most once.
LEMMA HandleCounts ==
    ASSUME TypeOK, TypeOK', IsFiniteSet(network), IsFiniteSet(finishes),
           NEW request \in network, Handle(request)
    PROVE  /\ IsFiniteSet(network') /\ IsFiniteSet(finishes')
           /\ Len(nodes') + Cardinality(network') <= Len(nodes) + Cardinality(network)
           /\ \A s \in Submissions :
                 IF s = request.id
                   THEN /\ Cardinality(RequestsOf(s)') = Cardinality(RequestsOf(s)) - 1
                        /\ Effects'[s] = Effects[s] \/ Effects'[s] = Effects[s] + 1
                   ELSE /\ Cardinality(RequestsOf(s)') = Cardinality(RequestsOf(s))
                        /\ Effects'[s] = Effects[s]
<1>1. /\ network' = network \ {request} /\ request.id \in Submissions
      /\ \/ nodes' = nodes /\ finishes' = finishes
         \/ nodes' = Append(nodes, request.id) /\ finishes' = finishes
         \/ nodes' = nodes /\ finishes' = finishes \cup {request}
    BY HandleEffect DEF Requests
<1>2. /\ IsFiniteSet(network') /\ IsFiniteSet(finishes')
      /\ Cardinality(network') = Cardinality(network) - 1
      /\ Cardinality(network) \in Nat
    BY <1>1, FS_RemoveElement, FS_AddElement, FS_CardinalityType
<1>3. /\ DOMAIN nodes = 1 .. Len(nodes) /\ Len(nodes) \in Nat
      /\ Len(Append(nodes, request.id)) = Len(nodes) + 1
      /\ DOMAIN Append(nodes, request.id) = 1 .. (Len(nodes) + 1)
      /\ \A i \in 1 .. Len(nodes) : Append(nodes, request.id)[i] = nodes[i]
      /\ Append(nodes, request.id)[Len(nodes) + 1] = request.id
    BY <1>1, AppendProperties, LenProperties DEF TypeOK
<1>4. Len(nodes') + Cardinality(network') <= Len(nodes) + Cardinality(network)
    BY <1>1, <1>2, <1>3
<1>5. ASSUME NEW s \in Submissions
      PROVE  IF s = request.id
               THEN /\ Cardinality(RequestsOf(s)') = Cardinality(RequestsOf(s)) - 1
                    /\ Effects'[s] = Effects[s] \/ Effects'[s] = Effects[s] + 1
               ELSE /\ Cardinality(RequestsOf(s)') = Cardinality(RequestsOf(s))
                    /\ Effects'[s] = Effects[s]
    <2>1. /\ IsFiniteSet(NodesOf(s)) /\ Cardinality(NodesOf(s)) \in Nat
          /\ IsFiniteSet(FinishesOf(s)) /\ Cardinality(FinishesOf(s)) \in Nat
          /\ IsFiniteSet(RequestsOf(s)) /\ Cardinality(RequestsOf(s)) \in Nat
          /\ Effects[s] = Cardinality(NodesOf(s)) + Cardinality(FinishesOf(s))
        BY Counted
    <2>2. Effects'[s] = Cardinality(NodesOf(s)') + Cardinality(FinishesOf(s)')
        BY DEF Effects, NodesOf, FinishesOf
    <2>3. IF s = request.id
            THEN Cardinality(RequestsOf(s)') = Cardinality(RequestsOf(s)) - 1
            ELSE Cardinality(RequestsOf(s)') = Cardinality(RequestsOf(s))
        <3>1. CASE s = request.id
            <4>1. RequestsOf(s)' = RequestsOf(s) \ {request} /\ request \in RequestsOf(s)
                BY <1>1, <3>1 DEF RequestsOf
            <4>2. Cardinality(RequestsOf(s) \ {request}) = Cardinality(RequestsOf(s)) - 1
                BY <2>1, <4>1, FS_RemoveElement
            <4>3. Cardinality(RequestsOf(s)') = Cardinality(RequestsOf(s)) - 1
                BY <4>1, <4>2
            <4> QED
                BY <3>1, <4>3
        <3>2. CASE s # request.id
            <4>1. RequestsOf(s)' = RequestsOf(s)
                BY <1>1, <3>2 DEF RequestsOf
            <4> QED
                BY <3>2, <4>1
        <3> QED
            BY <3>1, <3>2
    <2>4. IF s = request.id THEN Effects'[s] = Effects[s] \/ Effects'[s] = Effects[s] + 1
                            ELSE Effects'[s] = Effects[s]
        <3>1. CASE nodes' = nodes /\ finishes' = finishes
            <4>1. NodesOf(s)' = NodesOf(s) /\ FinishesOf(s)' = FinishesOf(s)
                BY <3>1 DEF NodesOf, FinishesOf
            <4> QED
                BY <2>1, <2>2, <4>1
        <3>2. CASE nodes' = Append(nodes, request.id) /\ finishes' = finishes
            <4>1. FinishesOf(s)' = FinishesOf(s)
                BY <3>2 DEF FinishesOf
            <4>2. NodesOf(s)' = IF s = request.id THEN NodesOf(s) \cup {Len(nodes) + 1} ELSE NodesOf(s)
                <5> DEFINE longer == Append(nodes, request.id)
                <5> HIDE DEF longer
                <5>1. /\ DOMAIN longer = 1 .. (Len(nodes) + 1)
                      /\ \A i \in 1 .. Len(nodes) : longer[i] = nodes[i]
                      /\ longer[Len(nodes) + 1] = request.id /\ nodes' = longer
                    BY <1>3, <3>2 DEF longer
                <5>2. CASE s = request.id
                    BY <1>3, <5>1, <5>2 DEF NodesOf
                <5>3. CASE s # request.id
                    BY <1>3, <5>1, <5>3 DEF NodesOf
                <5> QED
                    BY <5>2, <5>3
            <4>3. Cardinality(NodesOf(s)') \in IF s = request.id
                      THEN {Cardinality(NodesOf(s)), Cardinality(NodesOf(s)) + 1}
                      ELSE {Cardinality(NodesOf(s))}
                BY <2>1, <4>2, FS_AddElement
            <4> QED
                BY <2>1, <2>2, <4>1, <4>3
        <3>3. CASE nodes' = nodes /\ finishes' = finishes \cup {request}
            <4>1. NodesOf(s)' = NodesOf(s)
                BY <3>3 DEF NodesOf
            <4>2. FinishesOf(s)' = IF s = request.id THEN FinishesOf(s) \cup {request} ELSE FinishesOf(s)
                BY <3>3 DEF FinishesOf
            <4>3. Cardinality(FinishesOf(s)') \in IF s = request.id
                      THEN {Cardinality(FinishesOf(s)), Cardinality(FinishesOf(s)) + 1}
                      ELSE {Cardinality(FinishesOf(s))}
                BY <2>1, <4>2, FS_AddElement
            <4> QED
                BY <2>1, <2>2, <4>1, <4>3
        <3> QED
            BY <1>1, <3>1, <3>2, <3>3
    <2> QED
        BY <2>3, <2>4
<1> QED
    BY <1>2, <1>4, <1>5

\* A step that leaves the platform alone and gives no attempt back.
LEMMA NoEffect ==
    ASSUME TypeOK, TypeOK', EffectsAreAttempts, UNCHANGED <<submitted, network, nodes, finishes>>,
           Attempted \in Int, Attempted' \in Int, Attempted <= Attempted'
    PROVE  EffectsAreAttempts'
<1>1. \A s \in Submissions : /\ Effects'[s] = Effects[s] /\ Effects[s] \in Nat
                             /\ RequestsOf(s)' = RequestsOf(s)
                             /\ Cardinality(RequestsOf(s)) \in Nat
    <2> TAKE s \in Submissions
    <2>1. Effects'[s] = Effects[s] /\ RequestsOf(s)' = RequestsOf(s)
        BY DEF Effects, RequestsOf
    <2>2. Effects[s] \in Nat /\ Cardinality(RequestsOf(s)) \in Nat
        BY Counted DEF EffectsAreAttempts
    <2> QED
        BY <2>1, <2>2
<1>2. /\ Len(nodes) \in Nat /\ Cardinality(network) \in Nat
      /\ submitted \in Nat /\ (submitted - 1) * MaxAttempts \in Int
      /\ \A s \in 1 .. submitted : s \in Submissions
    BY ConstantsAreNat, LenProperties, FS_CardinalityType DEF TypeOK, EffectsAreAttempts, Submissions
<1> DEFINE B == (submitted - 1) * MaxAttempts
           T == Len(nodes) + Cardinality(network)
<1>3. T <= B + Attempted
    BY DEF EffectsAreAttempts
<1>4. T <= B + Attempted'
    <2> HIDE DEF B
    <2>1. B \in Int
        BY <1>2 DEF B
    <2> QED
        BY <1>2, <1>3, <2>1
<1>5. \A s \in 1 .. submitted :
         Effects'[s] + Cardinality(RequestsOf(s)') <= IF s = submitted THEN Attempted' ELSE MaxAttempts
    <2>1. \A s \in 1 .. submitted :
             Effects[s] + Cardinality(RequestsOf(s)) <= IF s = submitted THEN Attempted ELSE MaxAttempts
        BY DEF EffectsAreAttempts, RequestsOf
    <2> QED
        BY <1>1, <1>2, <2>1
<1>6. \A s \in Submissions : s > submitted => Effects'[s] = 0
    BY <1>1 DEF EffectsAreAttempts
<1> QED
    BY <1>4, <1>5, <1>6 DEF EffectsAreAttempts, RequestsOf

\* Attempts are counted, and within the bound.
LEMMA AttemptedType ==
    ASSUME TypeOK
    PROVE  Attempted \in Int /\ Attempted <= MaxAttempts /\ 0 <= Attempted
BY ConstantsAreNat DEF Attempted, TypeOK

\* Before the first submission nothing is on its way.
LEMMA InitEffects == Init => EffectsAreAttempts
<1> SUFFICES ASSUME Init PROVE EffectsAreAttempts
    OBVIOUS
<1>1. /\ network = {} /\ nodes = <<>> /\ finishes = {} /\ submitted = 0 /\ worker.pc = "idle"
      /\ IsFiniteSet({}) /\ Cardinality({}) = 0 /\ Len(nodes) = 0
    BY FS_EmptySet DEF Init, Idle
<1>2. \A s \in Submissions : Effects[s] = 0
    <2> TAKE s \in Submissions
    <2>1. {i \in DOMAIN nodes : nodes[i] = s} = {} /\ {f \in finishes : f.id = s} = {}
        BY <1>1
    <2> QED
        BY <1>1, <2>1 DEF Effects
<1> QED
    BY <1>1, <1>2, ConstantsAreNat DEF EffectsAreAttempts, Attempted

\* An attempt that is over is followed by another, or by the outcome.
LEMMA RetryEffects ==
    ASSUME TypeOK, TypeOK', EffectsAreAttempts, worker.pc = "post", RetryOrReturn,
           UNCHANGED <<submitted, network, nodes, finishes>>
    PROVE  EffectsAreAttempts'
<1>1. Attempted <= Attempted'
    <2>1. CASE call.attempt < MaxAttempts
        <3>1. call' = [call EXCEPT !.attempt = @ + 1, !.sent = FALSE, !.answer = NoAnswer]
              /\ worker' = worker
            BY <2>1 DEF RetryOrReturn
        <3>2. call'.attempt = call.attempt + 1 /\ call'.sent = FALSE /\ call.attempt \in Int
            BY <3>1 DEF TypeOK
        <3> QED
            BY <3>1, <3>2 DEF Attempted
    <2>2. CASE ~(call.attempt < MaxAttempts)
        <3>1. Return(FALSE, NoNode)
            BY <2>2 DEF RetryOrReturn
        <3>2. worker'.pc = "update"
            BY <3>1, ReturnEnds
        <3> QED
            BY <3>2, AttemptedType DEF Attempted
    <2> QED
        BY <2>1, <2>2
<1>2. Attempted \in Int /\ Attempted' \in Int
    BY AttemptedType, ConstantsAreNat DEF Attempted, TypeOK
<1> QED
    BY <1>1, <1>2, NoEffect

\* Each submission starts with an account of its own, and none of the earlier ones grows.
LEMMA SubmitEffects ==
    ASSUME TypeOK, TypeOK', AnswersAreTrue, EffectsAreAttempts, Submit
    PROVE  EffectsAreAttempts'
<1>1. /\ UNCHANGED <<network, nodes, finishes>> /\ submitted' = submitted + 1
      /\ worker'.pc = "post" /\ call' = NoCall
      /\ submitted \in Nat /\ submitted + 1 \in Submissions
    BY ConstantsAreNat DEF Submit, platform, TypeOK, Submissions
<1>2. Attempted' = 0
    BY <1>1 DEF Attempted, NoCall
<1>3. \A s \in Submissions : /\ Effects'[s] = Effects[s] /\ Effects[s] \in Nat
                             /\ RequestsOf(s)' = RequestsOf(s)
                             /\ Cardinality(RequestsOf(s)) \in Nat
    <2> TAKE s \in Submissions
    <2>1. Effects'[s] = Effects[s] /\ RequestsOf(s)' = RequestsOf(s)
        BY <1>1 DEF Effects, RequestsOf
    <2>2. Effects[s] \in Nat /\ Cardinality(RequestsOf(s)) \in Nat
        BY Counted DEF EffectsAreAttempts
    <2> QED
        BY <2>1, <2>2
<1>4. Len(nodes') + Cardinality(network') <= (submitted' - 1) * MaxAttempts + Attempted'
    <2> DEFINE T == Len(nodes) + Cardinality(network)
    <2>1. T \in Int
        BY LenProperties, FS_CardinalityType DEF TypeOK, EffectsAreAttempts
    <2>2. T <= (submitted - 1) * MaxAttempts + Attempted /\ Attempted \in Int /\ Attempted <= MaxAttempts
        BY AttemptedType DEF EffectsAreAttempts
    <2>3. /\ (submitted - 1) * MaxAttempts + MaxAttempts = submitted * MaxAttempts
          /\ (submitted - 1) * MaxAttempts \in Int /\ submitted * MaxAttempts \in Int
        BY <1>1, ConstantsAreNat
    <2>4. T <= submitted * MaxAttempts
        <3> HIDE DEF T
        <3> QED
            BY <2>1, <2>2, <2>3, ConstantsAreNat
    <2>5. submitted' - 1 = submitted
        BY <1>1
    <2> QED
        BY <1>1, <1>2, <2>3, <2>4, <2>5
<1>5. \A s \in 1 .. submitted' :
         Effects'[s] + Cardinality(RequestsOf(s)') <= IF s = submitted' THEN Attempted' ELSE MaxAttempts
    <2> TAKE s \in 1 .. submitted'
    <2>1. s \in Submissions
        BY <1>1, ConstantsAreNat DEF Submissions
    <2>2. CASE s = submitted'
        <3>1. Effects[s] = 0
            BY <1>1, <2>1, <2>2 DEF EffectsAreAttempts
        <3>2. RequestsOf(s) = {}
            BY <1>1, <2>2 DEF RequestsOf, AnswersAreTrue, TypeOK, Requests
        <3>3. Cardinality(RequestsOf(s)) = 0
            BY <3>2, FS_EmptySet
        <3> QED
            BY <1>2, <1>3, <2>1, <2>2, <3>1, <3>3
    <2>3. CASE s # submitted'
        <3>1. s \in 1 .. submitted
            BY <1>1, <2>3
        <3>2. Effects[s] + Cardinality(RequestsOf(s)) <= IF s = submitted THEN Attempted ELSE MaxAttempts
            BY <3>1 DEF EffectsAreAttempts, RequestsOf
        <3>3. Effects[s] + Cardinality(RequestsOf(s)) <= MaxAttempts
            BY <1>3, <2>1, <3>2, AttemptedType, ConstantsAreNat
        <3> QED
            BY <1>3, <2>1, <2>3, <3>3
    <2> QED
        BY <2>2, <2>3
<1>6. \A s \in Submissions : s > submitted' => Effects'[s] = 0
    BY <1>1, <1>3, ConstantsAreNat DEF EffectsAreAttempts, Submissions
<1>7. IsFiniteSet(network') /\ IsFiniteSet(finishes')
    BY <1>1 DEF EffectsAreAttempts
<1> QED
    BY <1>4, <1>5, <1>6, <1>7 DEF EffectsAreAttempts, RequestsOf

\* What is sent is the next attempt of the submission that is pending.
LEMMA SendEffects ==
    ASSUME TypeOK, TypeOK', AnswersAreTrue, EffectsAreAttempts, Send
    PROVE  EffectsAreAttempts'
<1>1. /\ UNCHANGED <<submitted, worker, nodes, finishes>> /\ network' = network \cup {Request}
      /\ worker.pc = "post" /\ ~call.sent /\ call' = [call EXCEPT !.sent = TRUE]
      /\ submitted \in Nat /\ submitted > 0 /\ Request.id = submitted
      /\ submitted \in Submissions
    <2>1. /\ UNCHANGED <<submitted, worker, nodes, finishes>> /\ network' = network \cup {Request}
          /\ worker.pc = "post" /\ ~call.sent /\ call' = [call EXCEPT !.sent = TRUE]
        BY DEF Send, Trying
    <2>2. submitted \in 0 .. MaxSubmissions /\ submitted > 0 /\ Request.id = submitted
        BY <2>1 DEF TypeOK, AnswersAreTrue, Request
    <2> QED
        BY <2>1, <2>2, ConstantsAreNat DEF Submissions
<1>2. Attempted' = Attempted + 1 /\ Attempted \in Int
    <2>1. call'.sent = TRUE /\ call'.attempt = call.attempt /\ call.attempt \in Int
        BY <1>1 DEF TypeOK
    <2> QED
        BY <1>1, <2>1 DEF Attempted
<1>3. /\ IsFiniteSet(network') /\ Cardinality(network') <= Cardinality(network) + 1
      /\ Cardinality(network) \in Nat /\ Cardinality(network') \in Nat
    <2>1. IsFiniteSet(network) /\ Cardinality(network) \in Nat
        BY FS_CardinalityType DEF EffectsAreAttempts
    <2>2. /\ IsFiniteSet(network')
          /\ Cardinality(network') = IF Request \in network THEN Cardinality(network)
                                                            ELSE Cardinality(network) + 1
        <3> HIDE DEF Request
        <3>1. network' = network \cup {Request}
            BY <1>1
        <3> QED
            BY <2>1, <3>1, FS_AddElement
    <2> QED
        BY <2>1, <2>2
<1>4. Len(nodes') + Cardinality(network') <= (submitted' - 1) * MaxAttempts + Attempted'
    <2> DEFINE B == (submitted - 1) * MaxAttempts
    <2>1. B \in Int /\ Len(nodes) \in Nat
        <3>1. submitted - 1 \in Int /\ MaxAttempts \in Int
            BY <1>1, ConstantsAreNat
        <3>2. Len(nodes) \in Nat
            BY LenProperties DEF TypeOK
        <3> QED
            BY <3>1, <3>2
    <2>2. Len(nodes) + Cardinality(network) <= B + Attempted
        BY DEF EffectsAreAttempts
    <2>3. Len(nodes) + Cardinality(network') <= B + (Attempted + 1)
        <3> HIDE DEF B
        <3> QED
            BY <1>2, <1>3, <2>1, <2>2
    <2> QED
        BY <1>1, <1>2, <2>3
<1>5. ASSUME NEW s \in 1 .. submitted'
      PROVE  Effects'[s] + Cardinality(RequestsOf(s)')
                 <= IF s = submitted' THEN Attempted' ELSE MaxAttempts
    <2>1. s \in Submissions /\ s \in 1 .. submitted
        BY <1>1, ConstantsAreNat DEF Submissions
    <2>2. /\ IsFiniteSet(RequestsOf(s)) /\ Cardinality(RequestsOf(s)) \in Nat /\ Effects[s] \in Nat
        BY <2>1, Counted DEF EffectsAreAttempts
    <2>3. Effects'[s] = Effects[s]
        BY <1>1, <2>1 DEF Effects
    <2>4. Effects[s] + Cardinality(RequestsOf(s)) <= IF s = submitted THEN Attempted ELSE MaxAttempts
        BY <2>1 DEF EffectsAreAttempts, RequestsOf
    <2>5. CASE s = submitted
        <3>1. RequestsOf(s)' = RequestsOf(s) \cup {Request}
            BY <1>1, <2>5 DEF RequestsOf
        <3>2. Cardinality(RequestsOf(s)') \in {Cardinality(RequestsOf(s)), Cardinality(RequestsOf(s)) + 1}
            BY <2>2, <3>1, FS_AddElement
        <3> QED
            BY <1>1, <1>2, <2>2, <2>3, <2>4, <2>5, <3>2
    <2>6. CASE s # submitted
        <3>1. RequestsOf(s)' = RequestsOf(s)
            BY <1>1, <2>6 DEF RequestsOf
        <3> QED
            BY <1>1, <2>3, <2>4, <2>6, <3>1
    <2> QED
        BY <2>5, <2>6
<1>6. \A s \in Submissions : s > submitted' => Effects'[s] = 0
    BY <1>1 DEF EffectsAreAttempts, Effects
<1> QED
    BY <1>1, <1>3, <1>4, <1>5, <1>6 DEF EffectsAreAttempts, RequestsOf

\* A request that is handled becomes the effect it had stood for.
LEMMA HandleEffects ==
    ASSUME TypeOK, TypeOK', AnswersAreTrue, EffectsAreAttempts,
           NEW request \in network, Handle(request)
    PROVE  EffectsAreAttempts'
<1>1. /\ IsFiniteSet(network') /\ IsFiniteSet(finishes')
      /\ Len(nodes') + Cardinality(network') <= Len(nodes) + Cardinality(network)
      /\ \A s \in Submissions :
            IF s = request.id
              THEN /\ Cardinality(RequestsOf(s)') = Cardinality(RequestsOf(s)) - 1
                   /\ Effects'[s] = Effects[s] \/ Effects'[s] = Effects[s] + 1
              ELSE /\ Cardinality(RequestsOf(s)') = Cardinality(RequestsOf(s))
                   /\ Effects'[s] = Effects[s]
    BY HandleCounts DEF EffectsAreAttempts
<1>2. UNCHANGED <<submitted, worker>> /\ call'.sent = call.sent /\ call'.attempt = call.attempt
    <2>1. /\ UNCHANGED <<submitted, worker>>
          /\ \/ call' = call
             \/ \E answer, node : call' = [call EXCEPT !.answer = answer, !.node = node]
        BY HandleEffect
    <2>2. call \in [attempt : 1 .. MaxAttempts, sent : BOOLEAN,
                   answer : Answers \cup {NoAnswer}, node : NodeIds \cup {NoNode}]
        BY DEF TypeOK
    <2> QED
        BY <2>1, <2>2
<1>3. Attempted' = Attempted /\ Attempted \in Int
    BY <1>2, AttemptedType DEF Attempted
<1>4. /\ submitted \in Nat /\ Len(nodes) \in Nat /\ Len(nodes') \in Nat
      /\ Cardinality(network) \in Nat /\ Cardinality(network') \in Nat
      /\ \A s \in 1 .. submitted : s \in Submissions
      /\ request.id <= submitted
    BY <1>1, ConstantsAreNat, LenProperties, FS_CardinalityType
       DEF TypeOK, Submissions, EffectsAreAttempts, AnswersAreTrue
<1>5. Len(nodes') + Cardinality(network') <= (submitted' - 1) * MaxAttempts + Attempted'
    <2> DEFINE B == (submitted - 1) * MaxAttempts
    <2>1. B \in Int /\ Len(nodes) + Cardinality(network) <= B + Attempted
        BY <1>4, ConstantsAreNat DEF EffectsAreAttempts
    <2>2. Len(nodes') + Cardinality(network') <= B + Attempted
        <3> HIDE DEF B
        <3> QED
            BY <1>1, <1>3, <1>4, <2>1
    <2> QED
        BY <1>2, <1>3, <2>2
<1>6. ASSUME NEW s \in 1 .. submitted'
      PROVE  Effects'[s] + Cardinality(RequestsOf(s)')
                 <= IF s = submitted' THEN Attempted' ELSE MaxAttempts
    <2>1. s \in Submissions /\ s \in 1 .. submitted
        BY <1>2, <1>4
    <2>2. Cardinality(RequestsOf(s)) \in Nat /\ Effects[s] \in Nat
        BY <2>1, Counted DEF EffectsAreAttempts
    <2>3. Effects[s] + Cardinality(RequestsOf(s)) <= IF s = submitted THEN Attempted ELSE MaxAttempts
        BY <2>1 DEF EffectsAreAttempts, RequestsOf
    <2>4. Effects'[s] + Cardinality(RequestsOf(s)') <= Effects[s] + Cardinality(RequestsOf(s))
        BY <1>1, <2>1, <2>2
    <2>5. Effects'[s] + Cardinality(RequestsOf(s)') \in Int
        BY <1>1, <2>1, <2>2
    <2> QED
        BY <1>2, <1>3, <2>2, <2>3, <2>4, <2>5, ConstantsAreNat
<1>7. \A s \in Submissions : s > submitted' => Effects'[s] = 0
    BY <1>1, <1>2, <1>4 DEF EffectsAreAttempts, Submissions
<1> QED
    BY <1>1, <1>5, <1>6, <1>7 DEF EffectsAreAttempts, RequestsOf

\* Every step keeps the account of the effects: only an attempt adds a request.
LEMMA NextEffects ==
    ASSUME TypeOK, TypeOK', AnswersAreTrue, EffectsAreAttempts, [Next]_vars
    PROVE  EffectsAreAttempts'
<1>1. CASE Submit
    BY <1>1, SubmitEffects
<1>2. CASE Send
    BY <1>2, SendEffects
<1>3. CASE AttemptFails \/ ConnectionLost
    BY <1>3, RetryEffects DEF AttemptFails, ConnectionLost, Trying, platform
<1>4. ASSUME worker'.pc # "post", UNCHANGED <<submitted, network, nodes, finishes>>
      PROVE  EffectsAreAttempts'
    <2>1. Attempted' = MaxAttempts
        BY <1>4 DEF Attempted
    <2> QED
        BY <1>4, <2>1, AttemptedType, ConstantsAreNat, NoEffect
<1>5. CASE AnswerUnreadable
    BY <1>4, <1>5, ReturnEnds DEF AnswerUnreadable, platform
<1>6. CASE AnswerRead
    BY <1>4, <1>6, ReturnEnds DEF AnswerRead, Answered, platform
<1>7. CASE UpdateChangePodStatus \/ Crash
    BY <1>4, <1>7 DEF UpdateChangePodStatus, Crash, Idle, platform
<1>8. ASSUME NEW request \in network, Handle(request)
      PROVE  EffectsAreAttempts'
    BY <1>8, HandleEffects
<1>9. CASE UNCHANGED <<worker, call, submitted, network, nodes, finishes>>
    <2>1. Attempted' = Attempted
        BY <1>9 DEF Attempted
    <2> QED
        BY <1>9, <2>1, AttemptedType, NoEffect
<1> QED
    BY <1>1, <1>2, <1>3, <1>5, <1>6, <1>7, <1>8, <1>9
       DEF Next, DoPost, vars, CacheSync, UpdateFromCache, CallbackPatch, CheckCallBackHandler,
           platform

-----------------------------------------------------------------------------
(* The theorems *)

\* Nothing has been submitted, so there is nothing to account for.
LEMMA InitInv == Init => IInv
<1> SUFFICES ASSUME Init PROVE IInv
    OBVIOUS
<1>1. TypeOK /\ EffectsAreAttempts
    BY InitType, InitEffects
<1>2. AnswersAreTrue
    BY ConstantsAreNat DEF Init, AnswersAreTrue, Idle, NoCall, NoAnswer, Submissions
<1>3. VersionsAreSound /\ HoldersAgree
    BY DEF Init, VersionsAreSound, HoldersAgree, Sound, Idle, NewChangePod, NoPatch
<1> QED
    BY <1>1, <1>2, <1>3 DEF IInv

\* Every step of the specification keeps the invariant.
LEMMA NextInv == IInv /\ [Next]_vars => IInv'
<1> SUFFICES ASSUME IInv, [Next]_vars PROVE IInv'
    OBVIOUS
<1>1. TypeOK'
    BY NextType DEF IInv
<1>2. AnswersAreTrue'
    BY NextAnswers DEF IInv
<1>3. VersionsAreSound' /\ HoldersAgree'
    BY NextSound DEF IInv
<1>4. EffectsAreAttempts'
    BY <1>1, NextEffects DEF IInv
<1> QED
    BY <1>1, <1>2, <1>3, <1>4 DEF IInv

\* The inductive invariant: versions, holders, answers and the account of the effects.
THEOREM NotificationInvariant == Spec => []IInv
<1> QED
    BY InitInv, NextInv, PTL DEF Spec

\* Types; with them, that the platform never runs out of the nodes the model numbers.
THEOREM NotificationTypes == Spec => []TypeOK
<1>1. IInv => TypeOK
    BY DEF IInv
<1> QED
    BY <1>1, NotificationInvariant, PTL

\* A ChangePod the platform is to answer for names a node created for its own start, and
\* one that the submission which reports it has read (PreWaitChangePodHandle, doPost).
THEOREM NodesAreOurs == Spec => []NodeIsOurs
<1>1. IInv => NodeIsOurs
    BY DEF IInv, NodeIsOurs, VersionsAreSound, Sound
<1> QED
    BY <1>1, NotificationInvariant, PTL

\* A verdict is the one on the ChangePod's node, after its finish was accepted
\* (CheckCallBackHandler).
THEOREM VerdictsAreOurs == Spec => []VerdictIsOurs
<1>1. IInv => VerdictIsOurs
    BY DEF IInv, VerdictIsOurs, VersionsAreSound, Sound
<1> QED
    BY <1>1, NotificationInvariant, PTL

\* No writer replaces a node that is stored: it holds the same one, or is refused.
LEMMA NodeStays ==
    ASSUME IInv, [Next]_vars, changePod.node # NoNode
    PROVE  changePod'.node = changePod.node
<1>1. changePod \in ChangePods /\ cache \in ChangePods
    BY DEF IInv, TypeOK
<1>2. CASE UNCHANGED changePod
    BY <1>2
<1>3. CASE UpdateChangePodStatus
    BY <1>3 DEF UpdateChangePodStatus, IInv, HoldersAgree
<1>4. CASE UpdateFromCache
    <2>1. cache = changePod
        BY <1>4 DEF UpdateFromCache, IInv, HoldersAgree
    <2> QED
        BY <1>1, <1>4, <2>1 DEF UpdateFromCache, ChangePods
<1>5. CASE CallbackPatch
    BY <1>1, <1>5 DEF CallbackPatch, ChangePods
<1>6. ASSUME NEW request \in network, Handle(request)
      PROVE  UNCHANGED changePod
    BY <1>6 DEF Handle
<1> QED
    BY <1>2, <1>3, <1>4, <1>5, <1>6
       DEF Next, vars, Submit, DoPost, AttemptFails, Send, ConnectionLost, AnswerUnreadable,
           AnswerRead, CacheSync, CheckCallBackHandler, Crash

\* The node stored first stays, however often the start is submitted again
\* (UpdateChangePodStatus, the Patch of the callback handler).
THEOREM NodesAreFinal == Spec => NodeIsFinal
<1>1. IInv /\ [Next]_vars => [changePod.node # NoNode => changePod'.node = changePod.node]_vars
    BY NodeStays
<1> QED
    BY <1>1, NotificationInvariant, PTL DEF Spec, NodeIsFinal

\* No submission has begun.
LEMMA InitRefines == Init => Promise!AbsInit
<1> SUFFICES ASSUME Init PROVE Promise!AbsInit
    OBVIOUS
<1>1. outcome = [s \in Submissions |-> "none"] /\ submitted = 0
    BY DEF Init
<1>2. \A s \in Submissions : Effects[s] = 0
    BY <1>1, InitEffects, ConstantsAreNat DEF EffectsAreAttempts, Submissions
<1>3. Effects = [s \in Submissions |-> 0]
    BY <1>2 DEF Effects
<1> QED
    BY <1>1, <1>3 DEF Promise!AbsInit

\* A submission that ends was pending, and is either given up or a success that took effect.
LEMMA EndRefines ==
    ASSUME IInv, NEW success \in BOOLEAN, NEW node, Return(success, node), worker.pc = "post",
           success => call.answer = "success", UNCHANGED <<nodes, finishes>>
    PROVE  Promise!AbsNext
<1>1. /\ submitted \in Submissions /\ outcome[submitted] = "pending"
      /\ outcome' = [outcome EXCEPT ![submitted] = IF success THEN "success" ELSE "error"]
    BY ConstantsAreNat DEF IInv, TypeOK, AnswersAreTrue, Submissions, Return, Outcome
<1>2. UNCHANGED Effects
    BY DEF Effects
<1>3. CASE ~success
    BY <1>1, <1>2, <1>3 DEF Promise!AbsNext, Promise!GiveUp
<1>4. CASE success
    <2>1. /\ IsFiniteSet(NodesOf(submitted)) /\ Cardinality(NodesOf(submitted)) \in Nat
          /\ IsFiniteSet(FinishesOf(submitted)) /\ Cardinality(FinishesOf(submitted)) \in Nat
          /\ Effects[submitted] = Cardinality(NodesOf(submitted)) + Cardinality(FinishesOf(submitted))
        BY <1>1, Counted DEF IInv, EffectsAreAttempts
    <2>2. NodesOf(submitted) # {} \/ FinishesOf(submitted) # {}
        BY <1>4 DEF IInv, AnswersAreTrue, NodesOf, FinishesOf
    <2>3. Cardinality(NodesOf(submitted)) # 0 \/ Cardinality(FinishesOf(submitted)) # 0
        BY <2>1, <2>2, FS_EmptySet
    <2>4. Effects[submitted] > 0
        BY <2>1, <2>3
    <2> QED
        BY <1>1, <1>2, <1>4, <2>4 DEF Promise!AbsNext, Promise!Succeed
<1> QED
    BY <1>3, <1>4

\* A request on its way is an attempt that has not taken effect: there is room for it.
LEMMA HandleRefines ==
    ASSUME IInv, IInv', NEW request \in network, Handle(request)
    PROVE  [Promise!AbsNext]_(Promise!absVars)
<1> DEFINE s == request.id
<1>1. /\ s \in Submissions /\ s <= submitted /\ s \in 1 .. submitted
      /\ outcome[s] # "none" /\ UNCHANGED outcome
    <2>1. TypeOK /\ AnswersAreTrue
        BY DEF IInv
    <2>2. request \in Requests /\ UNCHANGED outcome
        BY <2>1, HandleEffect
    <2>3. s \in Submissions /\ s <= submitted /\ submitted \in 0 .. MaxSubmissions
        BY <2>1, <2>2 DEF TypeOK, AnswersAreTrue, Requests
    <2>4. s \in 1 .. submitted /\ ~(s > submitted)
        BY <2>3, ConstantsAreNat DEF Submissions
    <2> QED
        BY <2>1, <2>2, <2>3, <2>4 DEF AnswersAreTrue
<1>2. /\ Effects'[s] = Effects[s] \/ Effects'[s] = Effects[s] + 1
      /\ \A t \in Submissions : t # s => Effects'[t] = Effects[t]
    BY <1>1, HandleCounts DEF IInv, EffectsAreAttempts
<1>3. Effects[s] < MaxAttempts
    <2>1. /\ IsFiniteSet(RequestsOf(s)) /\ Cardinality(RequestsOf(s)) \in Nat /\ Effects[s] \in Nat
        BY <1>1, Counted DEF IInv, EffectsAreAttempts
    <2>2. request \in RequestsOf(s)
        BY DEF RequestsOf
    <2>3. Cardinality(RequestsOf(s)) > 0
        BY <2>1, <2>2, FS_EmptySet
    <2>4. Effects[s] + Cardinality(RequestsOf(s)) <= IF s = submitted THEN Attempted ELSE MaxAttempts
        BY <1>1 DEF IInv, EffectsAreAttempts, RequestsOf
    <2> QED
        BY <2>1, <2>3, <2>4, AttemptedType, ConstantsAreNat DEF IInv
<1>4. DOMAIN Effects = Submissions /\ DOMAIN Effects' = Submissions
      /\ Effects = [t \in Submissions |-> Effects[t]] /\ Effects' = [t \in Submissions |-> Effects'[t]]
    BY DEF Effects
<1>5. CASE Effects'[s] = Effects[s]
    <2>1. UNCHANGED Effects
        BY <1>2, <1>4, <1>5
    <2> QED
        BY <1>1, <2>1 DEF Promise!absVars
<1>6. CASE Effects'[s] = Effects[s] + 1
    <2>1. Effects' = [Effects EXCEPT ![s] = @ + 1]
        BY <1>1, <1>2, <1>4, <1>6
    <2> QED
        BY <1>1, <1>3, <2>1 DEF Promise!AbsNext, Promise!TakeEffect
<1> QED
    BY <1>2, <1>5, <1>6

\* Every step is one of the Submission's, or none.
LEMMA NextRefines ==
    ASSUME IInv, IInv', [Next]_vars
    PROVE  [Promise!AbsNext]_(Promise!absVars)
<1>1. ASSUME UNCHANGED <<outcome, nodes, finishes>>
      PROVE  [Promise!AbsNext]_(Promise!absVars)
    BY <1>1 DEF Promise!absVars, Effects
<1>2. CASE Submit
    <2>1. /\ submitted + 1 \in Submissions /\ submitted \in Nat
          /\ outcome' = [outcome EXCEPT ![submitted + 1] = "pending"]
          /\ UNCHANGED <<nodes, finishes>>
        BY <1>2, ConstantsAreNat DEF Submit, platform, IInv, TypeOK, Submissions
    <2>2. outcome[submitted + 1] = "none"
        BY <2>1 DEF IInv, AnswersAreTrue
    <2>3. UNCHANGED Effects
        BY <2>1 DEF Effects
    <2> QED
        BY <2>1, <2>2, <2>3 DEF Promise!AbsNext, Promise!Begin
<1>3. CASE AttemptFails \/ ConnectionLost
    <2>1. worker.pc = "post" /\ RetryOrReturn /\ UNCHANGED <<nodes, finishes>>
        BY <1>3 DEF AttemptFails, ConnectionLost, Trying, platform
    <2>2. CASE call.attempt < MaxAttempts
        BY <1>1, <2>1, <2>2 DEF RetryOrReturn
    <2>3. CASE ~(call.attempt < MaxAttempts)
        BY <2>1, <2>3, EndRefines DEF RetryOrReturn
    <2> QED
        BY <2>2, <2>3
<1>4. CASE AnswerUnreadable
    BY <1>4, EndRefines DEF AnswerUnreadable, platform
<1>5. CASE AnswerRead
    BY <1>5, EndRefines DEF AnswerRead, Answered, platform
<1>6. ASSUME NEW request \in network, Handle(request)
      PROVE  [Promise!AbsNext]_(Promise!absVars)
    BY <1>6, HandleRefines
<1>7. CASE Crash
    <2>1. /\ outcome' = [s \in Submissions |-> IF outcome[s] = "pending" THEN "error" ELSE outcome[s]]
          /\ UNCHANGED <<nodes, finishes>>
        BY <1>7 DEF Crash, platform
    <2>2. outcome = [s \in Submissions |-> outcome[s]]
        BY DEF IInv, TypeOK
    <2>3. CASE worker.pc = "post"
        <3>1. /\ submitted \in Submissions /\ outcome[submitted] = "pending"
              /\ \A s \in Submissions : outcome[s] = "pending" => s = submitted
            BY <2>3, ConstantsAreNat DEF IInv, AnswersAreTrue, TypeOK, Submissions
        <3>2. outcome' = [outcome EXCEPT ![submitted] = "error"]
            BY <2>1, <2>2, <3>1
        <3>3. UNCHANGED Effects
            BY <2>1 DEF Effects
        <3> QED
            BY <3>1, <3>2, <3>3 DEF Promise!AbsNext, Promise!GiveUp
    <2>4. CASE worker.pc # "post"
        <3>1. \A s \in Submissions : outcome[s] # "pending"
            BY <2>4 DEF IInv, AnswersAreTrue
        <3>2. outcome' = outcome
            BY <2>1, <2>2, <3>1
        <3> QED
            BY <1>1, <2>1, <3>2
    <2> QED
        BY <2>3, <2>4
<1> QED
    BY <1>1, <1>2, <1>3, <1>4, <1>5, <1>6, <1>7
       DEF Next, DoPost, vars, Send, UpdateChangePodStatus, CacheSync, UpdateFromCache,
           CallbackPatch, CheckCallBackHandler, platform

\* Attempts, lost answers, delayed requests and restarts implement Submission: a success
\* took effect, an error may have, and no submission takes effect more often than it is
\* tried (doPost).
THEOREM SubmissionIsRefined == Spec => SubmissionRefined
<1>1. Init => Promise!AbsInit
    BY InitRefines
<1>2. IInv /\ IInv' /\ [Next]_vars => [Promise!AbsNext]_(Promise!absVars)
    BY NextRefines
<1> QED
    BY <1>1, <1>2, NotificationInvariant, PTL DEF Spec, SubmissionRefined, Promise!AbsSpec
=============================================================================
