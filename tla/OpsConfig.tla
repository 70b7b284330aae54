------------------------------ MODULE OpsConfig ------------------------------
(***************************************************************************)
(* The operator's configuration: two OpsConfigInfo objects that an          *)
(* administrator edits, the reconciler that hands their values over         *)
(* unbuffered channels (controllers/opsconfiginfo_controller.go), the       *)
(* goroutine that receives them into package variables, the one that        *)
(* creates missing objects, and the getters that make a worker wait until   *)
(* there is a first value (controllers/utils/config.go).                    *)
(*                                                                          *)
(* The readers are the workers of other controllers: one that creates a     *)
(* ChangeWorkload (resource/changeworkload_factory.go), or one that sets a  *)
(* suspend label (addOrRemoveDeploymentSuspendLabel).                       *)
(*                                                                          *)
(* The variables are shared without a lock (each getter locks a mutex of    *)
(* its own). A variable is written before its ready flag and read after it, *)
(* and the image is built for amd64, where stores and loads keep their      *)
(* order: a getter that finds the flag set reads a value no older than it.  *)
(* Spec.Type is a free string: an object of neither type is ignored, and    *)
(* under one of the two names it keeps the default from being created.      *)
(***************************************************************************)
EXTENDS Integers, FiniteSets, Utilities

CONSTANTS Counts,        \* integers an administrator writes into Spec.Content
          NotANumber,    \* any content that strconv.Atoi refuses
          ReplicaCounts, \* Spec.Replicas of deployments
          Readers,       \* workers that read the configuration
          IntBound,      \* int is -IntBound .. IntBound - 1
          MaxChanges     \* bound: edits by the administrator and restarts, together

ASSUME OpsConfigAssumption ==
    /\ Counts \subseteq Int /\ 10 \in Counts /\ NotANumber \notin Int
    /\ ReplicaCounts \subseteq Nat
    /\ IntBound \in Nat \ {0} /\ MaxChanges \in Nat

VARIABLES object, cache,     \* OpsConfigInfo objects, by name
          unseen,            \* names with an event on its way to the informer
          queue,             \* names in the reconciler's work queue
          rec,               \* the reconciler: where it is, and the object it read
          receiver,          \* ConfigRun: "select", or the channel just received from
          value, ready,      \* the package variables and their ready flags
          reader,            \* per reader: the getter it is in, and what it has read
          stored,            \* history: what the two objects have held
          changes

vars == <<object, cache, unseen, queue, rec, receiver, value, ready, reader, stored, changes>>

-----------------------------------------------------------------------------
Branch   == "branch"
Blocking == "blocking"
Configs  == {Branch, Blocking}
\* A configuration under another name, and one in another namespace.
Strays   == {"misnamed", "elsewhere"}
Names    == Configs \cup Strays

Channels == {"isBatch", "batchCount", "isBlockingUp"}

Types    == Configs \cup {"unknown"}
Contents == Counts \cup {NotANumber}
Objects  == [exists : BOOLEAN, type : Types, enable : BOOLEAN, content : Contents]
NoObject == [exists |-> FALSE, type |-> "unknown", enable |-> FALSE, content |-> NotANumber]

\* NewOpsConfigInfoBatchFunc, NewOpsConfigInfoBlockFunc
DefaultOf(name) ==
    [exists  |-> TRUE,
     type    |-> name,
     enable  |-> name = Blocking,
     content |-> IF name = Branch THEN 10 ELSE NotANumber]

\* What Reconcile makes of an object: a configuration to hand over, or one to delete.
Delivers(name, o)  == o.exists /\ name \in Configs /\ o.type = name
Misplaced(name, o) ==
    o.exists /\ (name = "elsewhere" \/ (o.type \in Configs /\ o.type # name))

Unread == [pc |-> "idle", replicas |-> 0, threshold |-> {}, blocks |-> {}]
Idle   == [pc |-> "idle", copy |-> NoObject]

InitialValue == [isBatch |-> FALSE, batchCount |-> 1, isBlockingUp |-> TRUE]

Listed(objects) == {name \in Names : objects[name].exists}

Init ==
    /\ object \in {[name \in Names |-> NoObject],
                   [name \in Names |-> IF name \in Configs THEN DefaultOf(name) ELSE NoObject]}
    /\ cache = object /\ unseen = {} /\ queue = Listed(object)
    /\ rec = Idle /\ receiver = "select"
    /\ value = InitialValue /\ ready = [channel \in Channels |-> FALSE]
    /\ reader = [r \in Readers |-> Unread]
    /\ stored = [name \in Configs |-> {o \in {object[name]} : Delivers(name, o)}]
    /\ changes = 0

-----------------------------------------------------------------------------
(* The API server and the informer *)

Store(name, new) ==
    /\ object' = [object EXCEPT ![name] = new] /\ unseen' = unseen \cup {name}
    /\ stored' = [n \in Configs |-> IF n = name THEN stored[n] \cup {o \in {new} : Delivers(n, o)}
                                                ELSE stored[n]]

\* The administrator creates, edits or deletes an object.
Edit(name) ==
    /\ changes < MaxChanges
    /\ changes' = changes + 1
    /\ \E new \in {o \in Objects : o.exists} \cup {NoObject} :
          /\ new # object[name]
          /\ name # Branch \/ ~Delivers(name, new) \/ ~new.enable => new.content = NotANumber
          /\ new.exists /\ ~Delivers(name, new) => new.enable
          /\ name \in Strays /\ new.exists => new.type # Blocking
          /\ Store(name, new)
    /\ UNCHANGED <<cache, queue, rec, receiver, value, ready, reader>>

\* Nothing filters the events.
CacheSync(name) ==
    /\ name \in unseen
    /\ unseen' = unseen \ {name}
    /\ cache' = [cache EXCEPT ![name] = object[name]]
    /\ queue' = queue \cup {name}
    /\ UNCHANGED <<object, rec, receiver, value, ready, reader, stored, changes>>

\* Mutant: the test for not-found is inverted.
CreateDefaultFound(name) ==
    /\ cache[name].exists /\ ~object[name].exists
    /\ Store(name, DefaultOf(name))
    /\ UNCHANGED <<cache, queue, rec, receiver, value, ready, reader, changes>>

\* newBatchConfig, newBlockUpConfig: every second; Create fails on an object that exists.
CreateDefault(name) ==
    /\ ~cache[name].exists /\ ~object[name].exists
    /\ Store(name, DefaultOf(name))
    /\ UNCHANGED <<cache, queue, rec, receiver, value, ready, reader, changes>>

-----------------------------------------------------------------------------
(* The reconciler (one worker) and ConfigRun *)

\* Mutant: only the namespace is looked at, not the name.
ReconcileStrayElsewhere(name) ==
    /\ rec.pc = "idle" /\ name \in queue /\ ~Delivers(name, cache[name])
    /\ queue' = queue \ {name}
    /\ IF Misplaced(name, cache[name]) /\ name = "elsewhere"
         THEN object[name].exists /\ Store(name, NoObject)
         ELSE UNCHANGED <<object, unseen, stored>>
    /\ UNCHANGED <<cache, rec, receiver, value, ready, reader, changes>>

\* An object in the wrong place is deleted, whatever is stored there by now (a Delete that
\* finds nothing is retried); one that is gone or of an unknown type is ignored.
ReconcileStray(name) ==
    /\ rec.pc = "idle" /\ name \in queue /\ ~Delivers(name, cache[name])
    /\ queue' = queue \ {name}
    /\ IF Misplaced(name, cache[name])
         THEN object[name].exists /\ Store(name, NoObject)
         ELSE UNCHANGED <<object, unseen, stored>>
    /\ UNCHANGED <<cache, rec, receiver, value, ready, reader, changes>>

\* configTypeIsBranchHandel and configTypeIsBlockingUpHandel begin to send.
ReconcileConfig(name) ==
    /\ rec.pc = "idle" /\ name \in queue /\ Delivers(name, cache[name])
    /\ queue' = queue \ {name}
    /\ rec' = [pc   |-> IF name = Branch THEN "isBatch" ELSE "isBlockingUp",
               copy |-> cache[name]]
    /\ UNCHANGED <<object, cache, unseen, receiver, value, ready, reader, stored, changes>>

\* Mutant: the content is sent as it is.
CountUnparsed(o) == IF o.enable THEN o.content ELSE 1

\* The count that goes with an object: 1 if it is disabled or its content is no number.
CountOf(o) == IF o.enable /\ o.content # NotANumber THEN o.content ELSE 1

Sent(channel, o) == IF channel = "batchCount" THEN CountOf(o) ELSE o.enable

\* Mutant: a disabled configuration is sent without a count.
NextSendDisabled(r) ==
    IF r.pc = "isBatch" /\ r.copy.enable THEN [r EXCEPT !.pc = "batchCount"] ELSE Idle

\* The object whose value the channel carries.
ConfigOf(channel) == IF channel = "isBlockingUp" THEN Blocking ELSE Branch

\* The count is sent after the flag.
NextSend(r) == IF r.pc = "isBatch" THEN [r EXCEPT !.pc = "batchCount"] ELSE Idle

\* Mutant: once ready, a variable keeps its value.
ReceiveFirst ==
    /\ rec.pc \in Channels /\ receiver = "select"
    /\ value' = IF ready[rec.pc] THEN value ELSE [value EXCEPT ![rec.pc] = Sent(rec.pc, rec.copy)]
    /\ receiver' = rec.pc
    /\ rec' = NextSend(rec)
    /\ UNCHANGED <<object, cache, unseen, queue, ready, reader, stored, changes>>

\* The channels are unbuffered: a value is sent when ConfigRun receives it.
Receive ==
    /\ rec.pc \in Channels /\ receiver = "select"
    /\ value' = [value EXCEPT ![rec.pc] = Sent(rec.pc, rec.copy)]
    /\ receiver' = rec.pc
    /\ rec' = NextSend(rec)
    /\ UNCHANGED <<object, cache, unseen, queue, ready, reader, stored, changes>>

MarkReady ==
    /\ receiver \in Channels
    /\ ready' = [ready EXCEPT ![receiver] = TRUE]
    /\ receiver' = "select"
    /\ UNCHANGED <<object, cache, unseen, queue, rec, value, reader, stored, changes>>

-----------------------------------------------------------------------------
(* The readers *)

Enter(r) ==
    /\ reader[r].pc = "idle"
    /\ \E getter \in {"isBatch", "isBlockingUp"}, replicas \in ReplicaCounts :
          reader' = [reader EXCEPT ![r] = [Unread EXCEPT !.pc = getter, !.replicas = replicas]]
    /\ UNCHANGED <<object, cache, unseen, queue, rec, receiver, value, ready, stored, changes>>

\* Mutant: the getter does not wait.
ReadableAtOnce(getter) == getter \in Channels

\* ConfigIsBatch, ConfigBatchCount and ConfigIsBlockingUp sleep and look again until then.
Readable(getter) == getter \in Channels /\ ready[getter]

\* The threshold is computed from the flag and, if set, from the count read after it.
Read(r) ==
    LET getter == reader[r].pc
    IN /\ Readable(getter)
       /\ \/ /\ getter = "isBatch" /\ value.isBatch
             /\ reader' = [reader EXCEPT ![r] = [@ EXCEPT !.pc = "batchCount"]]
          \/ /\ getter = "isBatch" /\ ~value.isBatch
             /\ reader' = [reader EXCEPT ![r] = [@ EXCEPT !.pc = "idle", !.threshold = {1}]]
          \/ /\ getter = "batchCount"
             /\ reader' = [reader EXCEPT ![r] = [@ EXCEPT !.pc = "idle",
                  !.threshold = {Percent(reader[r].replicas, value.batchCount, IntBound)}]]
          \/ /\ getter = "isBlockingUp"
             /\ reader' = [reader EXCEPT ![r] = [@ EXCEPT !.pc = "idle",
                  !.blocks = {value.isBlockingUp}]]
       /\ UNCHANGED <<object, cache, unseen, queue, rec, receiver, value, ready, stored, changes>>

-----------------------------------------------------------------------------
\* A restart: the variables start anew, the informer lists again.
Crash ==
    /\ changes < MaxChanges
    /\ changes' = changes + 1
    /\ cache' = object /\ unseen' = {} /\ queue' = Listed(object)
    /\ rec' = Idle /\ receiver' = "select"
    /\ value' = InitialValue /\ ready' = [channel \in Channels |-> FALSE]
    /\ reader' = [r \in Readers |-> Unread]
    /\ UNCHANGED <<object, stored>>

Informer == \E name \in Names : CacheSync(name)

Reconcile == \E name \in Names : ReconcileStray(name) \/ ReconcileConfig(name)

ConfigInit == \E name \in Configs : CreateDefault(name)

Next ==
    \/ \E name \in Names : Edit(name)
    \/ Informer \/ Reconcile \/ ConfigInit
    \/ Receive \/ MarkReady
    \/ \E r \in Readers : Enter(r) \/ Read(r)
    \/ Crash

Spec == Init /\ [][Next]_vars

\* The informer delivers, the reconciler and the two goroutines run, a sleeping getter
\* looks again. Nothing is assumed of the administrator or of restarts.
Fairness ==
    /\ WF_vars(Informer) /\ WF_vars(Reconcile) /\ WF_vars(ConfigInit)
    /\ WF_vars(Receive) /\ WF_vars(MarkReady)
    /\ \A r \in Readers : WF_vars(Read(r))

FairSpec == Spec /\ Fairness

-----------------------------------------------------------------------------
(* Properties *)

TypeOK ==
    /\ {object, cache} \subseteq [Names -> Objects]
    /\ {unseen, queue} \subseteq SUBSET Names
    /\ rec \in [pc : Channels \cup {"idle"}, copy : Objects]
    /\ receiver \in Channels \cup {"select"}
    /\ value \in [isBatch : BOOLEAN, batchCount : Int, isBlockingUp : BOOLEAN]
    /\ ready \in [Channels -> BOOLEAN]
    /\ reader \in [Readers -> [pc : Channels \cup {"idle"}, replicas : ReplicaCounts \cup {0},
                              threshold : SUBSET Int, blocks : SUBSET BOOLEAN]]
    /\ stored \in [Configs -> SUBSET Objects]
    /\ changes \in Nat

\* Flag and count that a getter may return, each from an object that was stored.
Flags       == {o.enable : o \in stored[Branch]}
StoredCounts == {CountOf(o) : o \in stored[Branch]}

\* Whatever the administrator writes, the threshold of a new ChangeWorkload can cut a list
\* of pods (podArray[:CountThreshold]), and a batch of that many pods can fill unless
\* the percentage overflows an int.
ThresholdInRange ==
    \A r \in Readers : \A t \in reader[r].threshold :
        /\ t >= 0
        /\ \/ t <= 1 \/ t <= reader[r].replicas
           \/ \E c \in StoredCounts :
                 Wrapped(reader[r].replicas * c, IntBound) # reader[r].replicas * c

BlocksConfigured(r) ==
    \A b \in reader[r].blocks : \E o \in stored[Blocking] : b = o.enable

ThresholdConfigured(r) ==
    \A t \in reader[r].threshold :
        \/ t = 1 /\ FALSE \in Flags
        \/ /\ TRUE \in Flags
           /\ \E c \in StoredCounts : t = Percent(reader[r].replicas, c, IntBound)

\* No worker acts on the values the package variables are born with: what the getters
\* return was in an object of the right name and type, even right after a restart.
ReadsWereConfigured ==
    \A r \in Readers : BlocksConfigured(r) /\ ThresholdConfigured(r)

\* Except between the two sends, flag and count belong to one configuration: a
\* workload created at rest is not cut by the count of another one.
PairIsOneConfig ==
    rec.pc # "batchCount" /\ receiver # "isBatch" /\ ready["batchCount"] =>
        \E o \in stored[Branch] : value.isBatch = o.enable /\ value.batchCount = CountOf(o)

\* What the administrator has written last is what the workers get in the end, unless its
\* type is unknown; a configuration that is missing, or of the other's type, comes back.
ConfigurationArrives ==
    <>[](/\ \A name \in Configs : object[name].exists /\ ~Misplaced(name, object[name])
         /\ Delivers(Branch, object[Branch]) =>
                /\ value.isBatch = object[Branch].enable
                /\ value.batchCount = CountOf(object[Branch])
         /\ Delivers(Blocking, object[Blocking]) => value.isBlockingUp = object[Blocking].enable)

\* A worker that waits in a getter does not wait for ever, unless the object its value
\* comes from has an unknown type: that one is not handed over, and no default replaces it.
ReadersServed ==
    \A r \in Readers : \A name \in Configs :
        (reader[r].pc # "idle" /\ ConfigOf(reader[r].pc) = name) ~>
            (reader[r].pc = "idle" \/ (object[name].exists /\ object[name].type = "unknown"))

\* A configuration in the wrong place is deleted or put right.
StraysRemoved ==
    \A name \in Names : Misplaced(name, object[name]) ~> ~Misplaced(name, object[name])

-----------------------------------------------------------------------------
(* What the safety properties rest on: with them, they are inductive *)

\* An object that is handed over was stored, and so was the one the reconciler sends.
ObjectsAreRecorded ==
    /\ \A name \in Configs : \A o \in {object[name], cache[name]} :
          Delivers(name, o) => o \in stored[name]
    /\ rec.pc # "idle" => rec.copy \in stored[ConfigOf(rec.pc)]

\* A variable that is ready, or about to be, has left the value it was born with.
ValuesAreRecorded ==
    \A channel \in Channels :
        ready[channel] \/ receiver = channel =>
            \E o \in stored[ConfigOf(channel)] : value[channel] = Sent(channel, o)

\* The count follows the flag of the same object, in the reconciler and in a getter.
CountFollowsFlag ==
    /\ rec.pc = "batchCount" => value.isBatch = rec.copy.enable
    /\ receiver = "isBatch" => rec.pc = "batchCount"
    /\ rec.pc # "batchCount" /\ (ready["batchCount"] \/ receiver = "batchCount") =>
          \E o \in stored[Branch] : value.isBatch = o.enable /\ value.batchCount = CountOf(o)
    /\ \A r \in Readers : reader[r].pc = "batchCount" => TRUE \in Flags

IInv ==
    TypeOK /\ ObjectsAreRecorded /\ ValuesAreRecorded /\ CountFollowsFlag /\ ReadsWereConfigured
=============================================================================
