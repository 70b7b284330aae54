--------------------------- MODULE OpsConfigProofs ---------------------------
(***************************************************************************)
(* Theorems about OpsConfig for any counts, readers, width of int and       *)
(* bounds: what the getters return was configured, flag and count belong    *)
(* together at rest, and the threshold a workload is created with can cut   *)
(* a list of pods.                                                          *)
(***************************************************************************)
EXTENDS OpsConfig, TLAPS

-----------------------------------------------------------------------------
(* Percent *)

\* What is kept of a number is a number.
LEMMA WrappedType ==
    ASSUME NEW n \in Int, NEW bound \in Nat \ {0}
    PROVE  Wrapped(n, bound) \in Int
BY DEF Wrapped

\* A percentage of a number is a number.
LEMMA PercentType ==
    ASSUME NEW v \in Nat, NEW percent \in Int, NEW bound \in Nat \ {0}
    PROVE  Percent(v, percent, bound) \in Int
<1> DEFINE product == Wrapped(v * percent, bound)
<1>1. product \in Int
    BY WrappedType
<1>2. Quotient(product, 100) \in Int
    <2> HIDE DEF product
    <2> QED
        BY <1>1 DEF Quotient
<1> QED
    BY <1>2 DEF Percent

\* A percentage of at most a hundred, of a product that fits, is not more than the value.
LEMMA PercentAtMostValue ==
    ASSUME NEW v \in Nat, NEW percent \in Int, percent <= 100, v * percent >= 0
    PROVE  (v * percent) \div 100 <= v
OBVIOUS

\* The reference definition of Percent (common_utils.go), for all inputs and widths of int:
\* never negative, and at most the value unless the product overflows.
THEOREM PercentIsInRange ==
    ASSUME NEW v \in Nat, NEW percent \in Int, NEW bound \in Nat \ {0}
    PROVE  PercentInRange(v, percent, bound)
<1> DEFINE product == Wrapped(v * percent, bound)
           result == Quotient(product, 100)
<1>1. product \in Int /\ result \in Int
    <2>1. product \in Int
        BY WrappedType
    <2> HIDE DEF product
    <2> QED
        BY <2>1 DEF Quotient
<1>2. CASE percent = 0 \/ v = 0 \/ percent > 100
    BY <1>2 DEF PercentInRange, Percent
<1>3. CASE percent # 0 /\ v # 0 /\ percent <= 100
    <2>1. Percent(v, percent, bound) = IF result < 0 THEN 1 ELSE result
        BY <1>3 DEF Percent
    <2>2. product = v * percent /\ result >= 0 => result <= v
        <3> SUFFICES ASSUME product = v * percent, result >= 0, v * percent >= 0
                     PROVE  result <= v
            <4> HIDE DEF product
            <4>1. product < 0 => result <= 0
                BY <1>1 DEF Quotient
            <4> QED
                BY <1>1, <4>1
        <3>1. result = (v * percent) \div 100
            BY DEF Quotient
        <3> QED
            BY <1>3, <3>1, PercentAtMostValue
    <2> HIDE DEF result, product
    <2>3. Percent(v, percent, bound) >= 0
          /\ (product = v * percent => Percent(v, percent, bound) <= v)
        BY <1>1, <1>3, <2>1, <2>2
    <2> QED
        BY <1>3, <2>3 DEF PercentInRange, product
<1> QED
    BY <1>2, <1>3

-----------------------------------------------------------------------------
(* Types *)

\* The names, channels and constants are what the types say.
LEMMA NamesAndChannels ==
    /\ Branch \in Configs /\ Blocking \in Configs /\ Branch # Blocking
    /\ \A name \in Configs : name \in Names
    /\ \A channel \in Channels : ConfigOf(channel) \in Configs
    /\ \A name \in Configs : DefaultOf(name) \in Objects /\ Delivers(name, DefaultOf(name))
    /\ NoObject \in Objects /\ \A name \in Names : ~Delivers(name, NoObject)
    /\ IntBound \in Nat \ {0} /\ MaxChanges \in Nat
<1>1. /\ Branch \in Configs /\ Blocking \in Configs /\ Branch # Blocking
      /\ \A name \in Configs : name \in Names
      /\ \A channel \in Channels : ConfigOf(channel) \in Configs
    BY DEF Branch, Blocking, Configs, Names, ConfigOf
<1>2. IntBound \in Nat \ {0} /\ MaxChanges \in Nat
    BY OpsConfigAssumption
<1>3. 10 \in Contents /\ NotANumber \in Contents
    BY OpsConfigAssumption DEF Contents
<1> QED
    BY <1>1, <1>2, <1>3 DEF DefaultOf, NoObject, Objects, Types, Delivers

\* What is sent over a channel has the type of the variable it is for.
LEMMA SentType ==
    ASSUME NEW o \in Objects
    PROVE  /\ CountOf(o) \in Int
           /\ \A channel \in Channels : channel # "batchCount" => Sent(channel, o) \in BOOLEAN
           /\ Sent("batchCount", o) \in Int
<1>1. o.enable \in BOOLEAN /\ o.content \in Counts \cup {NotANumber}
    BY DEF Objects, Contents
<1>2. CountOf(o) \in Int
    <2>1. \A c \in Counts : c \in Int
        BY OpsConfigAssumption
    <2>2. CASE o.enable /\ o.content # NotANumber
        BY <1>1, <2>1, <2>2 DEF CountOf
    <2>3. CASE ~(o.enable /\ o.content # NotANumber)
        <3>1. CountOf(o) = 1
            BY <2>3 DEF CountOf
        <3> QED
            BY <3>1
    <2> QED
        BY <2>2, <2>3
<1> QED
    BY <1>1, <1>2 DEF Sent

\* The first state is well typed.
LEMMA InitType == Init => TypeOK
<1> SUFFICES ASSUME Init PROVE TypeOK
    OBVIOUS
<1>1. object \in [Names -> Objects] /\ cache = object
    BY NamesAndChannels DEF Init
<1>2. stored \in [Configs -> SUBSET Objects]
    <2>1. \A name \in Configs : {o \in {object[name]} : Delivers(name, o)} \in SUBSET Objects
        BY <1>1, NamesAndChannels
    <2> QED
        BY <2>1 DEF Init
<1>3. queue \subseteq Names /\ unseen = {}
    BY DEF Init, Listed
<1>4. /\ rec \in [pc : Channels \cup {"idle"}, copy : Objects]
      /\ receiver \in Channels \cup {"select"}
      /\ value \in [isBatch : BOOLEAN, batchCount : Int, isBlockingUp : BOOLEAN]
      /\ ready \in [Channels -> BOOLEAN]
    BY NamesAndChannels DEF Init, Idle, InitialValue
<1>5. reader \in [Readers -> [pc : Channels \cup {"idle"}, replicas : ReplicaCounts \cup {0},
                            threshold : SUBSET Int, blocks : SUBSET BOOLEAN]]
    BY DEF Init, Unread
<1> QED
    BY <1>1, <1>2, <1>3, <1>4, <1>5 DEF Init, TypeOK

\* What is stored is recorded, and nothing recorded is forgotten.
LEMMA StoreKeeps ==
    ASSUME TypeOK, NEW name \in Names, NEW new \in Objects, Store(name, new)
    PROVE  /\ object' \in [Names -> Objects] /\ unseen' \subseteq Names
           /\ stored' \in [Configs -> SUBSET Objects]
           /\ \A n \in Configs : stored[n] \subseteq stored'[n]
           /\ \A n \in Configs : object'[n] = object[n] \/ ~Delivers(n, object'[n])
                                   \/ object'[n] \in stored'[n]
<1>1. /\ object \in [Names -> Objects] /\ stored \in [Configs -> SUBSET Objects]
      /\ unseen \subseteq Names
    BY DEF TypeOK
<1>2. /\ object' = [object EXCEPT ![name] = new] /\ unseen' = unseen \cup {name}
      /\ stored' = [n \in Configs |-> IF n = name THEN stored[n] \cup {o \in {new} : Delivers(n, o)}
                                                  ELSE stored[n]]
    BY DEF Store
<1> QED
    BY <1>1, <1>2, NamesAndChannels

\* The objects an administrator may write.
LEMMA EditStores ==
    ASSUME NEW name \in Names, Edit(name)
    PROVE  \E new \in Objects : Store(name, new)
BY NamesAndChannels DEF Edit

\* Every step keeps the types.
LEMMA NextType ==
    ASSUME TypeOK, [Next]_vars
    PROVE  TypeOK'
<1>0. /\ object \in [Names -> Objects] /\ cache \in [Names -> Objects]
      /\ unseen \subseteq Names /\ queue \subseteq Names
      /\ stored \in [Configs -> SUBSET Objects]
      /\ rec \in [pc : Channels \cup {"idle"}, copy : Objects]
      /\ receiver \in Channels \cup {"select"}
      /\ value \in [isBatch : BOOLEAN, batchCount : Int, isBlockingUp : BOOLEAN]
      /\ ready \in [Channels -> BOOLEAN]
      /\ changes \in Nat
    BY DEF TypeOK
<1>1. ASSUME NEW name \in Names, Edit(name)
      PROVE  TypeOK'
    <2>1. object' \in [Names -> Objects] /\ unseen' \subseteq Names
          /\ stored' \in [Configs -> SUBSET Objects]
        BY <1>1, EditStores, StoreKeeps
    <2> QED
        BY <1>0, <1>1, <2>1 DEF Edit, TypeOK
<1>2. ASSUME NEW name \in Names, CacheSync(name)
      PROVE  TypeOK'
    BY <1>0, <1>2 DEF CacheSync, TypeOK
<1>3. ASSUME NEW name \in Names, ReconcileStray(name)
      PROVE  TypeOK'
    <2>1. object' \in [Names -> Objects] /\ unseen' \subseteq Names
          /\ stored' \in [Configs -> SUBSET Objects] /\ queue' \subseteq Names
        BY <1>0, <1>3, StoreKeeps, NamesAndChannels DEF ReconcileStray
    <2> QED
        BY <1>0, <1>3, <2>1 DEF ReconcileStray, TypeOK
<1>4. ASSUME NEW name \in Configs, CreateDefault(name)
      PROVE  TypeOK'
    <2>1. object' \in [Names -> Objects] /\ unseen' \subseteq Names
          /\ stored' \in [Configs -> SUBSET Objects]
        BY <1>4, StoreKeeps, NamesAndChannels DEF CreateDefault
    <2> QED
        BY <1>0, <1>4, <2>1 DEF CreateDefault, TypeOK
<1>5. ASSUME NEW name \in Names, ReconcileConfig(name)
      PROVE  TypeOK'
    <2>1. rec' \in [pc : Channels \cup {"idle"}, copy : Objects]
        BY <1>0, <1>5, NamesAndChannels DEF ReconcileConfig, Channels
    <2> QED
        BY <1>0, <1>5, <2>1 DEF ReconcileConfig, TypeOK
<1>6. CASE Receive
    <2>1. rec' \in [pc : Channels \cup {"idle"}, copy : Objects]
        BY <1>0, <1>6, NamesAndChannels DEF Receive, NextSend, Idle, Channels
    <2>2. value' \in [isBatch : BOOLEAN, batchCount : Int, isBlockingUp : BOOLEAN]
        <3>1. rec.pc \in {"isBatch", "batchCount", "isBlockingUp"} /\ rec.copy \in Objects
              /\ value' = [value EXCEPT ![rec.pc] = Sent(rec.pc, rec.copy)]
            BY <1>0, <1>6 DEF Receive, Channels
        <3>2. CASE rec.pc = "isBatch"
            BY <1>0, <3>1, <3>2, SentType DEF Channels
        <3>3. CASE rec.pc = "batchCount"
            BY <1>0, <3>1, <3>3, SentType
        <3>4. CASE rec.pc = "isBlockingUp"
            BY <1>0, <3>1, <3>4, SentType DEF Channels
        <3> QED
            BY <3>1, <3>2, <3>3, <3>4
    <2>3. receiver' \in Channels
        BY <1>6 DEF Receive
    <2> QED
        BY <1>0, <1>6, <2>1, <2>2, <2>3 DEF Receive, TypeOK
<1>7. CASE MarkReady
    BY <1>0, <1>7 DEF MarkReady, TypeOK
<1>8. ASSUME NEW r \in Readers, Enter(r)
      PROVE  TypeOK'
    <2>1. PICK getter \in {"isBatch", "isBlockingUp"}, replicas \in ReplicaCounts :
             reader' = [reader EXCEPT ![r] = [Unread EXCEPT !.pc = getter, !.replicas = replicas]]
        BY <1>8 DEF Enter
    <2> QED
        BY <1>0, <1>8, <2>1 DEF Enter, TypeOK, Unread, Channels
<1>9. ASSUME NEW r \in Readers, Read(r)
      PROVE  TypeOK'
    <2> DEFINE Records == [pc : Channels \cup {"idle"}, replicas : ReplicaCounts \cup {0},
                           threshold : SUBSET Int, blocks : SUBSET BOOLEAN]
    <2>1. reader \in [Readers -> Records] /\ reader[r] \in Records
        BY DEF TypeOK
    <2>2. Percent(reader[r].replicas, value.batchCount, IntBound) \in Int
        <3>1. reader[r].replicas \in Nat
            <4>1. \A c \in ReplicaCounts : c \in Nat
                BY OpsConfigAssumption
            <4>2. reader[r].replicas \in ReplicaCounts \cup {0}
                BY <2>1
            <4> QED
                BY <4>1, <4>2
        <3> QED
            BY <1>0, <3>1, PercentType, NamesAndChannels
    <2>3. \E new \in Records : reader' = [reader EXCEPT ![r] = new]
        <3> DEFINE threshold == Percent(reader[r].replicas, value.batchCount, IntBound)
        <3>1. {1} \in SUBSET Int /\ {threshold} \in SUBSET Int
              /\ {value.isBlockingUp} \in SUBSET BOOLEAN
            BY <1>0, <2>2
        <3> HIDE DEF threshold
        <3>2. /\ [reader[r] EXCEPT !.pc = "batchCount"] \in Records
              /\ [reader[r] EXCEPT !.pc = "idle", !.threshold = {1}] \in Records
              /\ [reader[r] EXCEPT !.pc = "idle", !.threshold = {threshold}] \in Records
              /\ [reader[r] EXCEPT !.pc = "idle", !.blocks = {value.isBlockingUp}] \in Records
            BY <2>1, <3>1 DEF Channels
        <3> HIDE DEF Records
        <3> QED
            BY <1>9, <3>2 DEF Read, threshold
    <2>4. reader' \in [Readers -> Records]
        BY <2>1, <2>3
    <2> QED
        BY <1>0, <1>9, <2>4 DEF Read, TypeOK
<1>10. CASE Crash
    <2>1. queue' \subseteq Names
        BY <1>10 DEF Crash, Listed
    <2> QED
        BY <1>0, <1>10, <2>1, NamesAndChannels DEF Crash, TypeOK, Idle, InitialValue, Unread
<1>11. CASE UNCHANGED vars
    BY <1>11 DEF vars, TypeOK
<1> QED
    BY <1>1, <1>2, <1>3, <1>4, <1>5, <1>6, <1>7, <1>8, <1>9, <1>10, <1>11
       DEF Next, Informer, Reconcile, ConfigInit

-----------------------------------------------------------------------------
(* What was stored *)

\* At the start nothing is ready, nothing was read and nothing is on its way.
LEMMA InitInv == Init => IInv
<1> SUFFICES ASSUME Init PROVE IInv
    OBVIOUS
<1>1. TypeOK
    BY InitType
<1>2. ObjectsAreRecorded
    <2>1. /\ cache = object /\ rec.pc = "idle"
          /\ \A name \in Configs : stored[name] = {o \in {object[name]} : Delivers(name, o)}
        BY NamesAndChannels DEF Init, Idle
    <2> QED
        BY <2>1 DEF ObjectsAreRecorded
<1>3. ValuesAreRecorded /\ CountFollowsFlag
    BY DEF Init, ValuesAreRecorded, CountFollowsFlag, Idle, Channels, Unread
<1>4. ReadsWereConfigured
    BY DEF Init, ReadsWereConfigured, BlocksConfigured, ThresholdConfigured, Unread
<1> QED
    BY <1>1, <1>2, <1>3, <1>4 DEF IInv

\* The record of what was stored only grows.
LEMMA StoredGrows ==
    ASSUME TypeOK, [Next]_vars
    PROVE  \A n \in Configs : stored[n] \subseteq stored'[n]
<1>1. CASE UNCHANGED stored
    BY <1>1
<1>2. ASSUME NEW name \in Names, Edit(name) \/ ReconcileStray(name)
      PROVE  \A n \in Configs : stored[n] \subseteq stored'[n]
    BY <1>2, EditStores, StoreKeeps, NamesAndChannels DEF ReconcileStray
<1>3. ASSUME NEW name \in Configs, CreateDefault(name)
      PROVE  \A n \in Configs : stored[n] \subseteq stored'[n]
    BY <1>3, StoreKeeps, NamesAndChannels DEF CreateDefault
<1> QED
    BY <1>1, <1>2, <1>3
       DEF Next, Informer, Reconcile, ConfigInit, vars, CacheSync, ReconcileConfig, Receive, MarkReady,
           Enter, Read, Crash

\* Every step records what the two objects hold, and the reconciler sends no other.
LEMMA NextRecorded ==
    ASSUME TypeOK, TypeOK', ObjectsAreRecorded, [Next]_vars
    PROVE  ObjectsAreRecorded'
<1> USE NamesAndChannels
<1>1. \A n \in Configs : stored[n] \subseteq stored'[n]
    BY StoredGrows
<1>2. /\ \A n \in Configs : Delivers(n, object[n]) => object[n] \in stored[n]
      /\ \A n \in Configs : Delivers(n, cache[n]) => cache[n] \in stored[n]
      /\ rec.pc # "idle" => rec.copy \in stored[ConfigOf(rec.pc)]
      /\ object \in [Names -> Objects] /\ cache \in [Names -> Objects]
      /\ rec.pc # "idle" => rec.pc \in Channels
    BY DEF ObjectsAreRecorded, TypeOK
<1>3. ASSUME NEW name \in Names, NEW new \in Objects, Store(name, new), UNCHANGED <<cache, rec>>
      PROVE  ObjectsAreRecorded'
    <2>1. \A n \in Configs : object'[n] = object[n] \/ ~Delivers(n, object'[n])
                                \/ object'[n] \in stored'[n]
        BY <1>3, StoreKeeps
    <2>2. \A n \in Configs : Delivers(n, object'[n]) => object'[n] \in stored'[n]
        BY <1>1, <1>2, <2>1
    <2> QED
        BY <1>1, <1>2, <1>3, <2>2 DEF ObjectsAreRecorded
<1>4. ASSUME NEW name \in Names, Edit(name)
      PROVE  ObjectsAreRecorded'
    BY <1>3, <1>4, EditStores DEF Edit
<1>5. ASSUME UNCHANGED <<object, cache, rec>>
      PROVE  ObjectsAreRecorded'
    BY <1>1, <1>2, <1>5 DEF ObjectsAreRecorded
<1>6. ASSUME NEW name \in Names, ReconcileStray(name)
      PROVE  ObjectsAreRecorded'
    BY <1>3, <1>5, <1>6 DEF ReconcileStray
<1>7. ASSUME NEW name \in Configs, CreateDefault(name)
      PROVE  ObjectsAreRecorded'
    BY <1>3, <1>7 DEF CreateDefault
<1>8. ASSUME NEW name \in Names, CacheSync(name)
      PROVE  ObjectsAreRecorded'
    <2>1. /\ UNCHANGED <<object, rec, stored>>
          /\ \A n \in Configs : cache'[n] \in {cache[n], object[n]}
        BY <1>2, <1>8 DEF CacheSync
    <2> QED
        BY <1>2, <2>1 DEF ObjectsAreRecorded
<1>9. ASSUME NEW name \in Names, ReconcileConfig(name)
      PROVE  ObjectsAreRecorded'
    <2>1. rec'.pc # "idle" => rec'.copy \in stored[ConfigOf(rec'.pc)]
        BY <1>2, <1>9 DEF ReconcileConfig, Delivers, ConfigOf, Configs
    <2> QED
        BY <1>2, <1>9, <2>1 DEF ReconcileConfig, ObjectsAreRecorded
<1>10. CASE Receive
    <2>1. rec'.pc # "idle" => rec'.copy = rec.copy /\ ConfigOf(rec'.pc) = ConfigOf(rec.pc)
                              /\ rec.pc # "idle"
        BY <1>10 DEF Receive, NextSend, Idle, ConfigOf, TypeOK
    <2> QED
        BY <1>2, <1>10, <2>1 DEF Receive, ObjectsAreRecorded
<1>11. CASE Crash
    BY <1>2, <1>11 DEF Crash, Idle, ObjectsAreRecorded
<1> QED
    BY <1>4, <1>5, <1>6, <1>7, <1>8, <1>9, <1>10, <1>11
       DEF Next, Informer, Reconcile, ConfigInit, vars, MarkReady, Enter, Read

\* Every step leaves in a variable that is ready a value that was sent from an object.
LEMMA NextValues ==
    ASSUME TypeOK, TypeOK', ObjectsAreRecorded, ValuesAreRecorded, [Next]_vars
    PROVE  ValuesAreRecorded'
<1> USE NamesAndChannels
<1>1. \A channel \in Channels : stored[ConfigOf(channel)] \subseteq stored'[ConfigOf(channel)]
    BY StoredGrows
<1>2. ASSUME UNCHANGED <<ready, receiver, value>>
      PROVE  ValuesAreRecorded'
    BY <1>1, <1>2 DEF ValuesAreRecorded
<1>3. CASE Receive
    <2>1. /\ rec.pc \in Channels /\ rec.copy \in stored[ConfigOf(rec.pc)]
          /\ receiver' = rec.pc /\ receiver = "select" /\ UNCHANGED <<ready, stored>>
          /\ value' = [value EXCEPT ![rec.pc] = Sent(rec.pc, rec.copy)]
        BY <1>3 DEF Receive, ObjectsAreRecorded, Channels
    <2>2. /\ value'[rec.pc] = Sent(rec.pc, rec.copy)
          /\ \A channel \in Channels : channel # rec.pc => value'[channel] = value[channel]
        BY <2>1 DEF TypeOK, Channels
    <2>3. ASSUME NEW channel \in Channels, ready'[channel] \/ receiver' = channel
          PROVE  \E o \in stored'[ConfigOf(channel)] : value'[channel] = Sent(channel, o)
        BY <2>1, <2>2, <2>3 DEF ValuesAreRecorded
    <2> QED
        BY <2>3 DEF ValuesAreRecorded
<1>4. CASE MarkReady
    <2>1. /\ receiver \in Channels /\ receiver' = "select" /\ UNCHANGED <<value, stored>>
          /\ \A channel \in Channels : ready'[channel] => ready[channel] \/ receiver = channel
          /\ "select" \notin Channels
        BY <1>4 DEF MarkReady, TypeOK, Channels
    <2> QED
        BY <2>1 DEF ValuesAreRecorded
<1>5. CASE Crash
    BY <1>5 DEF Crash, ValuesAreRecorded, Channels
<1> QED
    BY <1>2, <1>3, <1>4, <1>5
       DEF Next, Informer, Reconcile, ConfigInit, vars,
           Edit, CacheSync, ReconcileStray, CreateDefault, ReconcileConfig, Enter, Read

\* Flags that were stored stay among those that were.
LEMMA FlagsGrow ==
    ASSUME TypeOK, [Next]_vars
    PROVE  Flags \subseteq Flags' /\ StoredCounts \subseteq StoredCounts'
BY StoredGrows, NamesAndChannels DEF Flags, StoredCounts

\* Every step keeps flag and count together, outside of the two sends.
LEMMA NextCounts ==
    ASSUME TypeOK, TypeOK', ObjectsAreRecorded, ValuesAreRecorded, CountFollowsFlag, [Next]_vars
    PROVE  CountFollowsFlag'
<1> DEFINE Paired == \E o \in stored[Branch] : value.isBatch = o.enable /\ value.batchCount = CountOf(o)
           GettersSaw == \A r \in Readers : reader[r].pc = "batchCount" => TRUE \in Flags
<1>1. stored[Branch] \subseteq stored'[Branch] /\ Flags \subseteq Flags'
    BY StoredGrows, FlagsGrow, NamesAndChannels
<1>2. UNCHANGED reader => GettersSaw'
    BY <1>1 DEF CountFollowsFlag
<1>3. ASSUME UNCHANGED <<ready, receiver, value>>, GettersSaw',
             UNCHANGED rec \/ (rec.pc = "idle" /\ rec'.pc # "batchCount")
      PROVE  CountFollowsFlag'
    <2>1. UNCHANGED value /\ Paired => Paired'
        BY <1>1
    <2> QED
        BY <1>3, <2>1 DEF CountFollowsFlag
<1>4. CASE Receive
    <2>1. /\ rec.pc \in Channels /\ receiver' = rec.pc /\ receiver = "select"
          /\ UNCHANGED <<ready, stored, reader>> /\ rec' = NextSend(rec)
          /\ value' = [value EXCEPT ![rec.pc] = Sent(rec.pc, rec.copy)]
          /\ rec.copy \in stored[ConfigOf(rec.pc)]
          /\ value \in [isBatch : BOOLEAN, batchCount : Int, isBlockingUp : BOOLEAN]
          /\ rec \in [pc : Channels \cup {"idle"}, copy : Objects]
        BY <1>4 DEF Receive, ObjectsAreRecorded, Channels, TypeOK
    <2>2. CASE rec.pc = "isBatch"
        <3>1. rec'.pc = "batchCount" /\ rec'.copy = rec.copy
            BY <2>1, <2>2 DEF NextSend
        <3>2. value'.isBatch = rec.copy.enable
            BY <2>1, <2>2 DEF Sent
        <3> QED
            BY <1>2, <2>1, <2>2, <3>1, <3>2 DEF CountFollowsFlag
    <2>3. CASE rec.pc = "batchCount"
        <3>1. rec'.pc = "idle"
            BY <2>1, <2>3 DEF NextSend, Idle
        <3>2. value'.batchCount = CountOf(rec.copy) /\ value'.isBatch = rec.copy.enable
            BY <2>1, <2>3 DEF Sent, CountFollowsFlag
        <3>3. rec.copy \in stored'[Branch]
            BY <2>1, <2>3 DEF ConfigOf
        <3> QED
            BY <1>2, <2>1, <2>3, <3>1, <3>2, <3>3 DEF CountFollowsFlag
    <2>4. CASE rec.pc = "isBlockingUp"
        <3>1. rec'.pc = "idle"
            BY <2>1, <2>4 DEF NextSend, Idle
        <3>2. value'.batchCount = value.batchCount /\ value'.isBatch = value.isBatch
            BY <2>1, <2>4
        <3> QED
            BY <1>2, <2>1, <2>4, <3>1, <3>2 DEF CountFollowsFlag
    <2> QED
        BY <2>1, <2>2, <2>3, <2>4 DEF Channels
<1>5. CASE MarkReady
    <2>1. /\ receiver' = "select" /\ UNCHANGED <<value, stored, rec, reader>>
          /\ ready'["batchCount"] => ready["batchCount"] \/ receiver = "batchCount"
        BY <1>5 DEF MarkReady, TypeOK, Channels
    <2> QED
        BY <1>2, <2>1 DEF CountFollowsFlag
<1>6. ASSUME NEW name \in Names, ReconcileConfig(name)
      PROVE  CountFollowsFlag'
    <2>1. /\ UNCHANGED <<ready, receiver, value, reader>> /\ rec.pc = "idle"
          /\ rec'.pc # "batchCount"
        BY <1>6 DEF ReconcileConfig
    <2> QED
        BY <1>2, <1>3, <2>1
<1>7. ASSUME NEW r \in Readers, Enter(r)
      PROVE  CountFollowsFlag'
    <2>1. UNCHANGED <<ready, receiver, value, rec>>
        BY <1>7 DEF Enter
    <2>2. \A q \in Readers : reader'[q].pc = "batchCount" => reader[q].pc = "batchCount"
        BY <1>7 DEF Enter, TypeOK, Unread
    <2>3. GettersSaw'
        BY <1>1, <2>2 DEF CountFollowsFlag
    <2> QED
        BY <1>3, <2>1, <2>3
<1>8. ASSUME NEW r \in Readers, Read(r)
      PROVE  CountFollowsFlag'
    <2>1. UNCHANGED <<ready, receiver, value, rec, stored>>
        BY <1>8 DEF Read
    <2>2. \A q \in Readers : reader'[q].pc = "batchCount" =>
             \/ reader[q].pc = "batchCount"
             \/ ready["isBatch"] /\ value.isBatch
        <3>1. CASE reader[r].pc = "isBatch" /\ value.isBatch
            BY <1>8, <3>1 DEF Read, Readable, TypeOK
        <3>2. CASE ~(reader[r].pc = "isBatch" /\ value.isBatch)
            <4>1. reader \in [Readers -> [pc : Channels \cup {"idle"}, replicas : ReplicaCounts \cup {0},
                                        threshold : SUBSET Int, blocks : SUBSET BOOLEAN]]
                BY DEF TypeOK
            <4>2. PICK threshold, blocks :
                     \/ reader' = [reader EXCEPT ![r] = [@ EXCEPT !.pc = "idle", !.threshold = threshold]]
                     \/ reader' = [reader EXCEPT ![r] = [@ EXCEPT !.pc = "idle", !.blocks = blocks]]
                BY <1>8, <3>2 DEF Read
            <4>3. reader'[r].pc = "idle"
                BY <4>1, <4>2
            <4>4. \A q \in Readers : q # r => reader'[q] = reader[q]
                BY <4>1, <4>2
            <4> QED
                BY <4>3, <4>4
        <3> QED
            BY <3>1, <3>2
    <2>3. ready["isBatch"] /\ value.isBatch => TRUE \in Flags
        <3> SUFFICES ASSUME ready["isBatch"], value.isBatch PROVE TRUE \in Flags
            OBVIOUS
        <3>1. PICK o \in stored[Branch] : value.isBatch = o.enable
            BY DEF ValuesAreRecorded, Channels, ConfigOf, Sent
        <3>2. o \in Objects
            BY <3>1, NamesAndChannels DEF TypeOK
        <3> QED
            BY <3>1, <3>2 DEF Flags, Objects
    <2>4. GettersSaw'
        BY <1>1, <2>2, <2>3 DEF CountFollowsFlag
    <2> QED
        BY <1>3, <2>1, <2>4
<1>9. CASE Crash
    BY <1>9 DEF Crash, CountFollowsFlag, Idle, Unread, Channels
<1> QED
    BY <1>2, <1>3, <1>4, <1>5, <1>6, <1>7, <1>8, <1>9
       DEF Next, Informer, Reconcile, ConfigInit, vars,
           Edit, CacheSync, ReconcileStray, CreateDefault

\* Every step of a getter returns a value that was configured.
LEMMA NextReads ==
    ASSUME TypeOK, TypeOK', ValuesAreRecorded, CountFollowsFlag, ReadsWereConfigured, [Next]_vars
    PROVE  ReadsWereConfigured'
<1>1. /\ stored[Blocking] \subseteq stored'[Blocking]
      /\ Flags \subseteq Flags' /\ StoredCounts \subseteq StoredCounts'
    BY StoredGrows, FlagsGrow, NamesAndChannels
<1>2. \A r \in Readers : BlocksConfigured(r) /\ ThresholdConfigured(r)
    BY DEF ReadsWereConfigured
<1>3. ASSUME NEW r \in Readers, reader'[r].blocks = reader[r].blocks
      PROVE  BlocksConfigured(r)'
    BY <1>1, <1>2, <1>3 DEF BlocksConfigured
<1>4. ASSUME NEW r \in Readers, reader'[r].threshold = reader[r].threshold,
             reader'[r].replicas = reader[r].replicas
      PROVE  ThresholdConfigured(r)'
    <2> SUFFICES ASSUME NEW t \in reader[r].threshold
                 PROVE  \/ t = 1 /\ FALSE \in Flags'
                        \/ /\ TRUE \in Flags'
                           /\ \E c \in StoredCounts' : t = Percent(reader[r].replicas, c, IntBound)
        BY <1>4 DEF ThresholdConfigured
    <2>1. \/ t = 1 /\ FALSE \in Flags
          \/ TRUE \in Flags /\ \E c \in StoredCounts : t = Percent(reader[r].replicas, c, IntBound)
        BY <1>2 DEF ThresholdConfigured
    <2> QED
        BY <1>1, <2>1
<1>5. CASE UNCHANGED reader
    BY <1>3, <1>4, <1>5 DEF ReadsWereConfigured
<1>6. ASSUME NEW r \in Readers, Enter(r)
      PROVE  ReadsWereConfigured'
    <2>1. /\ reader'[r].blocks = {} /\ reader'[r].threshold = {}
          /\ \A q \in Readers : q # r => reader'[q] = reader[q]
        BY <1>6 DEF Enter, TypeOK, Unread
    <2>2. BlocksConfigured(r)' /\ ThresholdConfigured(r)'
        BY <2>1 DEF BlocksConfigured, ThresholdConfigured
    <2> QED
        BY <1>3, <1>4, <2>1, <2>2 DEF ReadsWereConfigured
<1>7. ASSUME NEW r \in Readers, Read(r)
      PROVE  ReadsWereConfigured'
    <2>1. \A q \in Readers : q # r => reader'[q] = reader[q]
        BY <1>7 DEF Read, TypeOK
    <2>2. /\ reader[r].pc \in Channels /\ ready[reader[r].pc] /\ UNCHANGED stored
          /\ reader \in [Readers -> [pc : Channels \cup {"idle"}, replicas : ReplicaCounts \cup {0},
                                    threshold : SUBSET Int, blocks : SUBSET BOOLEAN]]
        BY <1>7 DEF Read, Readable, TypeOK
    <2>3. PICK o \in stored[ConfigOf(reader[r].pc)] : value[reader[r].pc] = Sent(reader[r].pc, o)
        BY <2>2 DEF ValuesAreRecorded
    <2>4. SUFFICES BlocksConfigured(r)' /\ ThresholdConfigured(r)'
        BY <1>3, <1>4, <2>1 DEF ReadsWereConfigured
    <2>5. CASE reader[r].pc = "isBatch" /\ value.isBatch
        <3>1. reader' = [reader EXCEPT ![r] = [@ EXCEPT !.pc = "batchCount"]]
            BY <1>7, <2>5 DEF Read
        <3>2. /\ reader'[r].blocks = reader[r].blocks /\ reader'[r].threshold = reader[r].threshold
              /\ reader'[r].replicas = reader[r].replicas
            BY <2>2, <3>1
        <3> QED
            BY <1>3, <1>4, <3>2
    <2>6. CASE reader[r].pc = "isBatch" /\ ~value.isBatch
        <3>1. reader' = [reader EXCEPT ![r] = [@ EXCEPT !.pc = "idle", !.threshold = {1}]]
            BY <1>7, <2>6 DEF Read
        <3>2. reader'[r].threshold = {1} /\ reader'[r].blocks = reader[r].blocks
            BY <2>2, <3>1
        <3>3. o \in stored[Branch] /\ value.isBatch = o.enable
            BY <2>3, <2>6 DEF ConfigOf, Sent
        <3>4. FALSE \in Flags
            BY <2>6, <3>3 DEF Flags, TypeOK
        <3>5. ThresholdConfigured(r)'
            BY <1>1, <3>2, <3>4 DEF ThresholdConfigured
        <3> QED
            BY <1>3, <3>2, <3>5
    <2>7. CASE reader[r].pc = "batchCount"
        <3> DEFINE threshold == Percent(reader[r].replicas, value.batchCount, IntBound)
        <3> HIDE DEF threshold
        <3>1. reader' = [reader EXCEPT ![r] = [@ EXCEPT !.pc = "idle", !.threshold = {threshold}]]
            BY <1>7, <2>7 DEF Read, threshold
        <3>2. /\ reader'[r].threshold = {threshold}
              /\ reader'[r].blocks = reader[r].blocks /\ reader'[r].replicas = reader[r].replicas
            BY <2>2, <3>1
        <3>3. o \in stored[Branch] /\ value.batchCount = CountOf(o)
            BY <2>3, <2>7 DEF ConfigOf, Sent
        <3>4. value.batchCount \in StoredCounts /\ TRUE \in Flags
            BY <2>7, <3>3 DEF StoredCounts, CountFollowsFlag
        <3>5. ThresholdConfigured(r)'
            BY <1>1, <3>2, <3>4 DEF ThresholdConfigured, threshold
        <3> QED
            BY <1>3, <3>2, <3>5
    <2>8. CASE reader[r].pc = "isBlockingUp"
        <3>1. reader' = [reader EXCEPT ![r] = [@ EXCEPT !.pc = "idle", !.blocks = {value.isBlockingUp}]]
            BY <1>7, <2>8 DEF Read
        <3>2. /\ reader'[r].blocks = {value.isBlockingUp}
              /\ reader'[r].threshold = reader[r].threshold /\ reader'[r].replicas = reader[r].replicas
            BY <2>2, <3>1
        <3>3. o \in stored[Blocking] /\ value.isBlockingUp = o.enable
            BY <2>3, <2>8 DEF ConfigOf, Sent
        <3>4. BlocksConfigured(r)'
            BY <2>2, <3>2, <3>3 DEF BlocksConfigured
        <3> QED
            BY <1>4, <3>2, <3>4
    <2> QED
        BY <2>2, <2>5, <2>6, <2>7, <2>8 DEF Channels
<1>8. CASE Crash
    BY <1>8 DEF Crash, ReadsWereConfigured, BlocksConfigured, ThresholdConfigured, Unread
<1> QED
    BY <1>5, <1>6, <1>7, <1>8
       DEF Next, Informer, Reconcile, ConfigInit, vars,
           Edit, CacheSync, ReconcileStray, CreateDefault, ReconcileConfig, Receive,
           MarkReady

\* Every step of the specification keeps the invariant.
LEMMA NextInv == IInv /\ [Next]_vars => IInv'
<1> SUFFICES ASSUME IInv, [Next]_vars PROVE IInv'
    OBVIOUS
<1>1. TypeOK'
    BY NextType DEF IInv
<1> QED
    BY <1>1, NextRecorded, NextValues, NextCounts, NextReads DEF IInv

-----------------------------------------------------------------------------
(* The theorems *)

\* The inductive invariant: where objects, values, pairs and what was read come from.
THEOREM ConfigInvariant == Spec => []IInv
<1> QED
    BY InitInv, NextInv, PTL DEF Spec

\* Types: whatever is written as a count, an int arrives (configTypeIsBranchHandel).
THEOREM ConfigTypes == Spec => []TypeOK
<1>1. IInv => TypeOK
    BY DEF IInv
<1> QED
    BY <1>1, ConfigInvariant, PTL

\* No getter returns the value a package variable is born with (ConfigRun, ConfigIsBatch,
\* ConfigBatchCount, ConfigIsBlockingUp).
THEOREM ReadsAreConfigured == Spec => []ReadsWereConfigured
<1>1. IInv => ReadsWereConfigured
    BY DEF IInv
<1> QED
    BY <1>1, ConfigInvariant, PTL

\* Flag and count are of one object, except between the two sends
\* (configTypeIsBranchHandel).
THEOREM PairsAreOneConfig == Spec => []PairIsOneConfig
<1>1. IInv => PairIsOneConfig
    BY DEF IInv, CountFollowsFlag, PairIsOneConfig
<1> QED
    BY <1>1, ConfigInvariant, PTL

\* A threshold of counts that were configured is in range.
LEMMA ReadsAreInRange == IInv => ThresholdInRange
<1> SUFFICES ASSUME IInv, NEW r \in Readers, NEW t \in reader[r].threshold
             PROVE  /\ t >= 0
                    /\ \/ t <= 1 \/ t <= reader[r].replicas
                       \/ \E c \in StoredCounts :
                             Wrapped(reader[r].replicas * c, IntBound) # reader[r].replicas * c
    BY DEF ThresholdInRange
<1>1. reader[r].replicas \in Nat
    <2>1. \A c \in ReplicaCounts : c \in Nat
        BY OpsConfigAssumption
    <2>2. reader[r].replicas \in ReplicaCounts \cup {0}
        BY DEF IInv, TypeOK
    <2> QED
        BY <2>1, <2>2
<1>2. \A c \in StoredCounts : c \in Int
    <2>1. stored[Branch] \subseteq Objects
        BY NamesAndChannels DEF IInv, TypeOK
    <2> QED
        BY <2>1, SentType DEF StoredCounts
<1>3. CASE t = 1
    BY <1>3
<1>4. ASSUME NEW c \in StoredCounts, t = Percent(reader[r].replicas, c, IntBound)
      PROVE  /\ t >= 0
             /\ \/ t <= 1 \/ t <= reader[r].replicas
                \/ Wrapped(reader[r].replicas * c, IntBound) # reader[r].replicas * c
    <2>1. PercentInRange(reader[r].replicas, c, IntBound)
        BY <1>1, <1>2, PercentIsInRange, NamesAndChannels
    <2> QED
        BY <1>1, <1>4, <2>1 DEF PercentInRange
<1> QED
    BY <1>3, <1>4 DEF IInv, ReadsWereConfigured, ThresholdConfigured

\* The threshold of a new workload is never negative, and at most its replicas unless the
\* percentage overflows (NewChangeWorkload, Percent).
THEOREM ThresholdsAreInRange == Spec => []ThresholdInRange
<1> QED
    BY ReadsAreInRange, ConfigInvariant, PTL
=============================================================================
