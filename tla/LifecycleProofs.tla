---------------------------- MODULE LifecycleProofs ----------------------------
(***************************************************************************)
(* Theorems about Lifecycle, for every set of keys and addresses and every *)
(* queue capacity.                                                         *)
(***************************************************************************)
EXTENDS Lifecycle, TLAPS

Deleted == Elements(deletedProcessors) \ {Null}

\* What the script thread is pushing.
Removing == (Pushing \ Outputs) \ {Null}

(***************************************************************************)
(* The ring, as long as no two threads have been in push together: the     *)
(* slot that has been found is the one after the last, and what is stored  *)
(* is stored once.                                                         *)
(***************************************************************************)
Ring ==
    /\ \A x, y \in Pushing : x = y
    /\ \A x \in Pushing : claims[x] = Len(deletedProcessors) /\ claims[x] < DelCapacity
    /\ \A i, j \in DOMAIN deletedProcessors :
          deletedProcessors[i] = deletedProcessors[j] /\ deletedProcessors[i] # Null => i = j

(***************************************************************************)
(* Ownership: every allocated processor is in exactly one of five places,  *)
(* and the engine holds it until it reaches the last, the collector.       *)
(***************************************************************************)
KeysDistinct ==
    \A k, l \in Keys : instanceMap[k] \in Procs /\ instanceMap[k] = instanceMap[l] => k = l

KindsMatch ==
    \A k \in Keys : instanceMap[k] \in Procs => (k \in OscKeys <=> instanceMap[k] \in Outputs)

OneOwner ==
    /\ Cached \cap (Retiring \cup Removing \cup Deleted \cup objectQueue) = {}
    /\ Retiring \cap (Removing \cup Deleted \cup objectQueue) = {}
    /\ Removing \cap (Deleted \cup objectQueue) = {}
    /\ Deleted \cap objectQueue = {}

HeapIsOwned == heap = Cached \cup Retiring \cup Removing \cup Deleted \cup objectQueue

EngineHolds ==
    /\ addQueue \cup activeProcessors = Cached \cup Retiring \cup Removing \cup Deleted
    /\ addQueue \cap activeProcessors = {}

ThreadsRun ==
    /\ Cached \cap cancelled = {}
    /\ Cached \cap Outputs \subseteq threads
    /\ threads \subseteq Cached \cup cancelled
    /\ Pushing \cap Outputs \subseteq Retiring

Ownership ==
    /\ Ring
    /\ activeScriptObjects \subseteq Cached
    /\ KeysDistinct
    /\ OneOwner
    /\ HeapIsOwned
    /\ EngineHolds
    /\ ThreadsRun

(***************************************************************************)
(* Handshake: the flags follow the script thread, and a restart that the   *)
(* engine asks for in time is asked for with the add queue drained.        *)
(***************************************************************************)
FlagsFollow ==
    /\ spc = "run" => runningFlag
    /\ spc \in {"complete", "wait", "clear", "raise"} => ~runningFlag
    /\ sawWaiting => spc \in {"complete", "wait", "clear", "shutdown", "exited"}
    /\ spc = "clear" => restartFlag
    /\ spc \in {"shutdown", "exited"} /\ ~runningFlag => unvisited = {}

RestartIsDue == restartFlag \/ (ppc = "restart" /\ sawWaiting)

Drained ==
    /\ spc \in {"run", "raise"} => addQueue \subseteq activeScriptObjects
    /\ spc = "complete" =>
          \A k \in unvisited : instanceMap[k] \in addQueue => instanceMap[k] \in activeScriptObjects
    /\ spc = "complete" /\ RestartIsDue => addQueue = {}
    /\ spc \in {"wait", "clear"} /\ RestartIsDue => addQueue \subseteq activeScriptObjects

Handshake ==
    /\ ~unsolicited => Drained
    /\ \/ unsolicited
       \/ runningFlag /\ spc \in {"shutdown", "exited"}
       \/ Retiring \cup Removing \cup Deleted \subseteq activeProcessors

\* What holds whatever has happened to the ring.
Always ==
    /\ unvisited \subseteq Entries
    /\ KindsMatch
    /\ FlagsFollow
    /\ restartFlag /\ spc \in {"raise", "run"} => unsolicited

IInv == TypeOK /\ Always /\ (~overlapped => Ownership /\ Handshake)

--------------------------------------------------------------------------------
(***************************************************************************)
(* How Cached follows the three ways in which a cache's map changes.       *)
(***************************************************************************)
\* Registering an object adds it (registerObject).
LEMMA CachedRegister ==
    ASSUME TypeOK, NEW k \in Keys, NEW p \in Procs, instanceMap[k] \notin Procs,
           instanceMap' = [instanceMap EXCEPT ![k] = p]
    PROVE  Cached' = Cached \cup {p}
  BY DEF TypeOK, ScriptTypes, Cached

\* A null entry changes nothing (findObject followed by an error).
LEMMA CachedNull ==
    ASSUME TypeOK, NEW k \in Keys, instanceMap[k] \notin Procs,
           instanceMap' = [instanceMap EXCEPT ![k] = Null]
    PROVE  Cached' = Cached
  BY PointerAssumption DEF TypeOK, ScriptTypes, Cached

\* Erasing an entry takes exactly its object away (scriptComplete, removeAll).
LEMMA CachedErase ==
    ASSUME TypeOK, KeysDistinct, NEW k \in Keys,
           instanceMap' = [instanceMap EXCEPT ![k] = NoEntry]
    PROVE  Cached' = Cached \ {instanceMap[k]}
  BY PointerAssumption DEF TypeOK, ScriptTypes, Cached, KeysDistinct

--------------------------------------------------------------------------------
(***************************************************************************)
(* How the ring changes (removeProcessor's push, and pop).                 *)
(***************************************************************************)
\* A step that leaves the ring alone leaves what is in it and what is being pushed.
LEMMA RingKept ==
    ASSUME UNCHANGED deletedVars
    PROVE  /\ Deleted' = Deleted /\ Pushing' = Pushing /\ Removing' = Removing
           /\ Ring => Ring'
  BY DEF deletedVars, Deleted, Pushing, Removing, Ring

\* Without an overlap a push that finds a slot is the only one.
LEMMA Claimed ==
    ASSUME TypeOK, NEW x \in Procs \cup {Null}, Claim(x), ~overlapped', Ring
    PROVE  /\ ~overlapped
           /\ Pushing = {} /\ Pushing' = {x}
           /\ Deleted' = Deleted
           /\ Removing = {} /\ Removing' = {x} \ (Outputs \cup {Null})
           /\ Ring'
  <1>1. ~overlapped /\ Pushing = {}
    BY DEF Claim, TypeOK, FlagTypes
  <1>2. claims' = [y \in {x} |-> Len(deletedProcessors)]
    BY <1>1 DEF Claim
  <1>3. Pushing' = {x} /\ claims'[x] = Len(deletedProcessors)
    BY <1>2 DEF Pushing
  <1>4. Deleted' = Deleted /\ deletedProcessors' = deletedProcessors
    BY DEF Claim, Deleted
  <1> QED
    BY <1>1, <1>3, <1>4 DEF Claim, Ring, Removing

\* It stores what it pushes behind the last.
LEMMA Stored ==
    ASSUME TypeOK, Ring, NEW x, Store(x), x # Null => x \notin Deleted
    PROVE  /\ Pushing = {x} /\ Pushing' = {}
           /\ Deleted' = Deleted \cup ({x} \ {Null})
           /\ Removing = {x} \ (Outputs \cup {Null}) /\ Removing' = {}
           /\ Ring'
  <1> DEFINE n == Len(deletedProcessors)
  <1>1. /\ x \in Pushing /\ Pushing = {x} /\ claims[x] = n /\ n < DelCapacity /\ n \in Nat
        /\ deletedProcessors \in Seq(Procs \cup {Null}) /\ DOMAIN deletedProcessors = 1..n
    BY DEF Store, Ring, TypeOK, EngineTypes
  <1>2. (n + 1) % (DelCapacity + 1) = n + 1
    <2>1. n + 1 \in 0..DelCapacity
      BY <1>1, BoundsAssumption
    <2> HIDE DEF n
    <2> QED
      BY <2>1, BoundsAssumption
  <1>3. /\ deletedProcessors' \in [1..(n + 1) -> Procs \cup {Null}]
        /\ \A i \in 1..(n + 1) : /\ i = n + 1 => deletedProcessors'[i] = x
                                 /\ i <= n => deletedProcessors'[i] = deletedProcessors[i]
    <2>1. deletedProcessors' \in Written(x, n)
      BY <1>1 DEF Store
    <2>2. Written(x, n) = {s \in [1..(n + 1) -> Procs \cup {Null}] :
            \A i \in DOMAIN s :
              /\ i = n + 1 => s[i] = x
              /\ i <= n /\ i <= n => s[i] = deletedProcessors[i]}
      BY <1>2 DEF Written
    <2> HIDE DEF n
    <2> QED
      BY <2>1, <2>2
  <1> HIDE DEF n
  <1>4. claims' = [y \in {} |-> claims[y]]
    BY <1>1 DEF Store
  <1>5. Pushing' = {}
    BY <1>4 DEF Pushing
  <1>6. DOMAIN deletedProcessors' = 1..(n + 1)
    BY <1>3
  <1>7. Elements(deletedProcessors') = Elements(deletedProcessors) \cup {x}
    <2>1. ASSUME NEW y \in Elements(deletedProcessors') PROVE y \in Elements(deletedProcessors) \cup {x}
      <3>1. PICK i \in 1..(n + 1) : y = deletedProcessors'[i]
        BY <1>6, <2>1 DEF Elements
      <3>2. CASE i = n + 1
        BY <1>3, <3>1, <3>2
      <3>3. CASE i # n + 1
        <4>1. i \in 1..n
          BY <1>1, <3>3
        <4> QED
          BY <1>1, <1>3, <3>1, <4>1 DEF Elements
      <3> QED
        BY <3>2, <3>3
    <2>2. ASSUME NEW y \in Elements(deletedProcessors) PROVE y \in Elements(deletedProcessors')
      <3>1. PICK i \in 1..n : y = deletedProcessors[i]
        BY <1>1, <2>2 DEF Elements
      <3>2. i \in 1..(n + 1) /\ i <= n
        BY <1>1
      <3> QED
        BY <1>3, <1>6, <3>1, <3>2 DEF Elements
    <2>3. x \in Elements(deletedProcessors')
      <3>1. n + 1 \in 1..(n + 1)
        BY <1>1
      <3> QED
        BY <1>3, <1>6, <3>1 DEF Elements
    <2> QED
      BY <2>1, <2>2, <2>3
  <1>8. Deleted' = Deleted \cup ({x} \ {Null})
    BY <1>7 DEF Deleted
  <1>9. ASSUME NEW i \in 1..(n + 1), NEW j \in 1..(n + 1),
               deletedProcessors'[i] = deletedProcessors'[j], deletedProcessors'[i] # Null
        PROVE  i = j
    <2>1. \A l \in 1..n : x # Null => deletedProcessors[l] # x
      BY <1>1 DEF Deleted, Elements
    <2>2. CASE i \in 1..n /\ j \in 1..n
      <3>1. deletedProcessors[i] = deletedProcessors[j] /\ deletedProcessors[i] # Null
        BY <1>1, <1>3, <1>9, <2>2
      <3> QED
        BY <1>1, <2>2, <3>1 DEF Ring
    <2>3. CASE i \in 1..n /\ j = n + 1
      BY <1>1, <1>3, <1>9, <2>1, <2>3
    <2>4. CASE i = n + 1 /\ j \in 1..n
      BY <1>1, <1>3, <1>9, <2>1, <2>4
    <2> QED
      BY <1>1, <2>2, <2>3, <2>4
  <1> QED
    BY <1>1, <1>5, <1>6, <1>8, <1>9 DEF Ring, Removing

\* A pop takes the first out, and the slot that has been found stays the next one.
LEMMA Popped ==
    ASSUME TypeOK, Ring, deletedProcessors # <<>>, Head(deletedProcessors) # Null, Pop
    PROVE  /\ Head(deletedProcessors) \in Deleted
           /\ Deleted' = Deleted \ {Head(deletedProcessors)}
           /\ Pushing' = Pushing /\ Removing' = Removing
           /\ Ring'
  <1> DEFINE n == Len(deletedProcessors)
  <1> DEFINE h == Head(deletedProcessors)
  <1>1. /\ deletedProcessors \in Seq(Procs \cup {Null}) /\ n \in Nat \ {0}
        /\ DOMAIN deletedProcessors = 1..n /\ h = deletedProcessors[1]
    BY DEF TypeOK, EngineTypes
  <1>2. /\ DOMAIN deletedProcessors' = 1..(n - 1) /\ Len(deletedProcessors') = n - 1
        /\ \A i \in 1..(n - 1) : deletedProcessors'[i] = deletedProcessors[i + 1]
    BY <1>1 DEF Pop
  <1> HIDE DEF n, h
  <1>3. Elements(deletedProcessors') = Elements(deletedProcessors) \ {h}
    <2>1. ASSUME NEW y \in Elements(deletedProcessors')
          PROVE  y \in Elements(deletedProcessors) \ {h}
      <3>1. PICK i \in 1..(n - 1) : y = deletedProcessors[i + 1]
        BY <1>2, <2>1 DEF Elements
      <3>2. i + 1 \in 1..n /\ 1 \in 1..n /\ i + 1 # 1
        BY <1>1
      <3>3. y # h
        BY <1>1, <3>1, <3>2 DEF Ring, h
      <3> QED
        BY <1>1, <3>1, <3>2, <3>3 DEF Elements
    <2>2. ASSUME NEW y \in Elements(deletedProcessors) \ {h}
          PROVE  y \in Elements(deletedProcessors')
      <3>1. PICK i \in 1..n : y = deletedProcessors[i]
        BY <1>1, <2>2 DEF Elements
      <3>2. i # 1
        BY <1>1, <2>2, <3>1
      <3>3. i - 1 \in 1..(n - 1) /\ (i - 1) + 1 = i
        BY <1>1, <3>2
      <3> QED
        BY <1>2, <3>1, <3>3 DEF Elements
    <2> QED
      BY <2>1, <2>2
  <1>4. h \in Elements(deletedProcessors) /\ h # Null
    <2>1. 1 \in 1..n
      BY <1>1
    <2> QED
      BY <1>1, <2>1 DEF Elements, h
  <1>5. Pushing' = Pushing
    BY DEF Pop, Pushing
  <1>6. ASSUME NEW x \in Pushing' PROVE claims'[x] = n - 1 /\ n - 1 < DelCapacity
    <2>1. x \in Pushing /\ claims[x] = n /\ n < DelCapacity /\ n # 0
      BY <1>1, <1>5, <1>6 DEF Ring, n
    <2>2. claims'[x] = claims[x] - 1
      BY <2>1 DEF Pop
    <2> QED
      BY <1>1, <2>1, <2>2, BoundsAssumption
  <1>7. ASSUME NEW i \in 1..(n - 1), NEW j \in 1..(n - 1),
               deletedProcessors'[i] = deletedProcessors'[j], deletedProcessors'[i] # Null
        PROVE  i = j
    <2>1. i + 1 \in 1..n /\ j + 1 \in 1..n
      BY <1>1
    <2>2. i + 1 = j + 1
      BY <1>1, <1>2, <1>7, <2>1 DEF Ring
    <2> QED
      BY <2>2
  <1> QED
    BY <1>2, <1>3, <1>4, <1>5, <1>6, <1>7 DEF Ring, Removing, Deleted, h

--------------------------------------------------------------------------------
\* The initial state satisfies the invariant.
LEMMA InitIInv == Init => IInv
  <1> SUFFICES ASSUME Init PROVE IInv
    OBVIOUS
  <1>1. Pushing = {} /\ claims \in [Pushing -> 0..DelCapacity] /\ Elements(deletedProcessors) = {}
    BY DEF Init, Pushing, Elements
  <1>2. TypeOK
    <2>1. ScriptTypes /\ EngineTypes /\ OutputTypes /\ EventTypes
      BY <1>1, BoundsAssumption DEF Init, ScriptTypes, EngineTypes, OutputTypes, EventTypes
    <2>2. FlagTypes
      BY Zenon DEF Init, FlagTypes
    <2>3. JackTypes
      BY BoundsAssumption DEF Init, JackTypes
    <2> QED
      BY <2>1, <2>2, <2>3 DEF TypeOK
  <1>3. Cached = {} /\ Entries = {}
    BY PointerAssumption DEF Init, Cached, Entries
  <1>4. Ring
    BY <1>1 DEF Init, Ring
  <1>5. Ownership
    BY <1>1, <1>3, <1>4, PointerAssumption DEF Init, Ownership, KeysDistinct, OneOwner,
       HeapIsOwned, EngineHolds, ThreadsRun, Retiring, Removing, Deleted
  <1>6. Handshake
    BY <1>1 DEF Init, Handshake, Drained, RestartIsDue, Retiring, Removing, Deleted
  <1>7. Always
    BY <1>3, PointerAssumption DEF Init, Always, KindsMatch, FlagsFollow
  <1> QED
    BY <1>2, <1>5, <1>6, <1>7 DEF IInv

--------------------------------------------------------------------------------
\* What is pushed and what is stored keep the ring's types, overlapped or not.
LEMMA RingTypes ==
    ASSUME TypeOK, NEW x \in Procs \cup {Null}, Claim(x) \/ Store(x)
    PROVE  /\ deletedProcessors' \in Seq(Procs \cup {Null})
           /\ Len(deletedProcessors') <= DelCapacity
           /\ claims' \in [Pushing' -> 0..DelCapacity] /\ Pushing' \subseteq Procs \cup {Null}
  <1>0. EngineTypes /\ Len(deletedProcessors) \in 0..DelCapacity
    BY BoundsAssumption DEF TypeOK, EngineTypes
  <1>1. CASE Claim(x)
    <2>1. /\ claims' = [y \in Pushing \cup {x} |->
                           IF y = x THEN Len(deletedProcessors) ELSE claims[y]]
          /\ deletedProcessors' = deletedProcessors
      BY <1>1 DEF Claim
    <2>2. Pushing' = Pushing \cup {x}
      BY <2>1 DEF Pushing
    <2> QED
      BY <1>0, <2>1, <2>2 DEF EngineTypes
  <1>2. CASE Store(x)
    <2>1. /\ claims' = [y \in Pushing \ {x} |-> claims[y]]
          /\ x \in Pushing /\ deletedProcessors' \in Written(x, claims[x])
      BY <1>2 DEF Store
    <2>2. Pushing' = Pushing \ {x}
      BY <2>1 DEF Pushing
    <2> DEFINE m == (claims[x] + 1) % (DelCapacity + 1)
    <2>3. m \in 0..DelCapacity
      <3>1. claims[x] + 1 \in Nat /\ DelCapacity + 1 \in Nat \ {0}
        BY <1>0, <2>1, BoundsAssumption DEF EngineTypes
      <3> DEFINE a == claims[x] + 1
                 b == DelCapacity + 1
      <3> HIDE DEF a, b
      <3>2. a % b \in 0..(b - 1)
        BY <3>1 DEF a, b
      <3> QED
        BY <3>2, BoundsAssumption DEF a, b
    <2>4. deletedProcessors' \in [1..m -> Procs \cup {Null}]
      BY <2>1 DEF Written
    <2> HIDE DEF m
    <2>5. deletedProcessors' \in Seq(Procs \cup {Null}) /\ Len(deletedProcessors') = m
      BY <2>3, <2>4
    <2> QED
      BY <1>0, <2>1, <2>2, <2>3, <2>5 DEF EngineTypes
  <1> QED
    BY <1>1, <1>2

\* A pop keeps them, too.
LEMMA PopTypes ==
    ASSUME TypeOK, deletedProcessors # <<>>, Pop
    PROVE  /\ deletedProcessors' \in Seq(Procs \cup {Null})
           /\ Len(deletedProcessors') <= DelCapacity
           /\ claims' \in [Pushing' -> 0..DelCapacity] /\ Pushing' \subseteq Procs \cup {Null}
  <1>0. EngineTypes
    BY DEF TypeOK
  <1>1. Pushing' = Pushing /\ deletedProcessors' = Tail(deletedProcessors)
    BY DEF Pop, Pushing
  <1>2. \A x \in Pushing : claims'[x] \in 0..DelCapacity
    <2> TAKE x \in Pushing
    <2>1. claims[x] \in 0..DelCapacity /\ DelCapacity \in Nat
      BY <1>0, BoundsAssumption DEF EngineTypes
    <2>2. claims'[x] = IF claims[x] = 0 THEN DelCapacity ELSE claims[x] - 1
      BY DEF Pop
    <2> QED
      BY <2>1, <2>2
  <1>3. claims' \in [Pushing -> 0..DelCapacity]
    BY <1>2 DEF Pop
  <1>4. Tail(deletedProcessors) \in Seq(Procs \cup {Null})
        /\ Len(Tail(deletedProcessors)) <= DelCapacity
    BY <1>0, BoundsAssumption DEF EngineTypes
  <1> QED
    BY <1>0, <1>1, <1>3, <1>4 DEF EngineTypes

\* Every step keeps the types.  RemoveEntry hands over an entry that exists, and
\* CancelOutput cancels an Output, by the part that always holds.
LEMMA TypeStep == IInv /\ [Next]_vars => TypeOK'
  <1> SUFFICES ASSUME IInv, [Next]_vars PROVE TypeOK'
    OBVIOUS
  <1> USE DEF vars, scriptVars, flagVars, deletedVars, engineVars, jackVars, oscVars, eventVars,
       historyVars,
       Next, ScriptThread, ProcessThread, OutputThread, Jack, Rest,
       GetCached, GetNew, GetFails, Schedule, ScriptReturns, ScriptFails, KeepEntry, RemoveEntry,
       CancelOutput, LeaveScriptComplete, Deactivate, SeeRestart, ClearRestart, RaiseRunning,
       FreeCollected, Locate, SyncTimeout, SyncBegin, DropDeleted, DropDone, NotifyAll,
       CheckRunning, CheckObjects, RequestRestart, ProcessBegin, ProcessAll, OutputReset,
       OutputPlay, OutputDone, OutputExit, RemoveStored
  <1>0. /\ ScriptTypes /\ FlagTypes /\ EngineTypes /\ JackTypes /\ OutputTypes /\ EventTypes
        /\ unvisited \subseteq Entries /\ KindsMatch /\ TypeOK
    BY DEF IInv, TypeOK, Always
  <1>1. ScriptTypes'
    BY <1>0, PointerAssumption DEF ScriptTypes, Entries
  <1>2. EngineTypes'
    <2>1. \/ UNCHANGED deletedVars
          \/ \E x \in Procs \cup {Null} : Claim(x) \/ Store(x)
          \/ deletedProcessors # <<>> /\ Pop
      <3>1. \A k \in unvisited : instanceMap[k] \in Procs \cup {Null}
        BY <1>0 DEF ScriptTypes, Entries
      <3>2. Pushing \subseteq Procs \cup {Null}
        BY <1>0 DEF EngineTypes
      <3> QED
        BY <3>1, <3>2, ProcsAssumption DEF Store
    <2>2. /\ deletedProcessors' \in Seq(Procs \cup {Null})
          /\ Len(deletedProcessors') <= DelCapacity
          /\ claims' \in [Pushing' -> 0..DelCapacity] /\ Pushing' \subseteq Procs \cup {Null}
      <3>1. CASE UNCHANGED deletedVars
        BY <1>0, <3>1 DEF EngineTypes, Pushing
      <3> QED
        BY <1>0, <2>1, <3>1, RingTypes, PopTypes
    <2>3. /\ addQueue' \subseteq Procs /\ activeProcessors' \subseteq Procs
          /\ objectQueue' \subseteq Procs /\ heap' \subseteq Procs
      BY <1>0, ProcsAssumption DEF EngineTypes, GetFirst
    <2> QED
      BY <2>2, <2>3 DEF EngineTypes
  <1>3. JackTypes'
    BY <1>0, BoundsAssumption DEF JackTypes
  <1>4. OutputTypes'
    BY <1>0, KeysAssumption, PointerAssumption DEF OutputTypes, ScriptTypes, KindsMatch, Retiring
  <1>5. EventTypes'
    BY <1>0, ProcsAssumption DEF EventTypes, EngineTypes
  <1>6. FlagTypes'
    <2>0. {activeObjects, restartFlag, runningFlag, overlapped, sawWaiting, unsolicited,
           crashed} \subseteq BOOLEAN
      BY <1>0 DEF FlagTypes
    <2>1. activeObjects' \in BOOLEAN
      BY <2>0
    <2>2. restartFlag' \in BOOLEAN /\ runningFlag' \in BOOLEAN
      BY <2>0
    <2>3. overlapped' \in BOOLEAN
      BY <2>0 DEF Claim, Store, Pop
    <2>4. sawWaiting' \in BOOLEAN /\ unsolicited' \in BOOLEAN
      BY <2>0
    <2>5. crashed' \in BOOLEAN
      BY <2>0
    <2> QED
      BY <2>1, <2>2, <2>3, <2>4, <2>5 DEF FlagTypes
  <1> QED
    BY <1>1, <1>2, <1>3, <1>4, <1>5, <1>6 DEF TypeOK

--------------------------------------------------------------------------------
\* Every step keeps what holds whatever has happened to the ring.
LEMMA AlwaysStep == IInv /\ [Next]_vars => Always'
  <1> SUFFICES ASSUME IInv, [Next]_vars PROVE Always'
    OBVIOUS
  <1> USE DEF vars, scriptVars, flagVars, deletedVars, engineVars, jackVars, oscVars, eventVars,
       historyVars, Always, FlagsFollow
  <1>0. ScriptTypes /\ FlagTypes /\ Always
    BY DEF IInv, TypeOK
  <1>1. ASSUME NEW k \in Keys,
               GetCached(k) \/ GetFails(k) \/ KeepEntry(k) \/ RemoveEntry(k) \/ CancelOutput(k)
        PROVE  Always'
    <2>1. (unvisited \subseteq Entries /\ KindsMatch)'
      BY <1>0, <1>1, PointerAssumption DEF ScriptTypes, Entries, KindsMatch, GetCached, GetFails,
         KeepEntry, RemoveEntry, CancelOutput
    <2>2. (FlagsFollow /\ (restartFlag /\ spc \in {"raise", "run"} => unsolicited))'
      BY <1>0, <1>1 DEF GetCached, GetFails, KeepEntry, RemoveEntry, CancelOutput
    <2> QED
      BY <2>1, <2>2
  <1>2. ASSUME NEW k \in Keys, NEW p \in Procs, GetNew(k, p) PROVE Always'
    BY <1>0, <1>2, PointerAssumption DEF ScriptTypes, Entries, KindsMatch, GetNew
  <1>3. CASE ScriptReturns \/ ScriptFails
    BY <1>0, <1>3 DEF ScriptReturns, ScriptFails, Entries, KindsMatch
  <1>4. CASE LeaveScriptComplete \/ Deactivate \/ SeeRestart \/ ClearRestart \/ RaiseRunning
    <2>1. UNCHANGED <<instanceMap, unvisited>>
      BY <1>4 DEF LeaveScriptComplete, Deactivate, SeeRestart, ClearRestart, RaiseRunning
    <2>2. (unvisited \subseteq Entries /\ KindsMatch)'
      BY <1>0, <2>1 DEF Entries, KindsMatch
    <2>3. CASE LeaveScriptComplete \/ Deactivate
      BY <1>0, <2>2, <2>3 DEF LeaveScriptComplete, Deactivate, AtEntry
    <2>4. CASE SeeRestart \/ ClearRestart
      BY <1>0, <2>2, <2>4 DEF SeeRestart, ClearRestart
    <2>5. CASE RaiseRunning
      BY <1>0, <2>2, <2>5 DEF RaiseRunning
    <2> QED
      BY <1>4, <2>3, <2>4, <2>5
  <1>5. ASSUME UNCHANGED <<scriptVars, flagVars, historyVars>> PROVE Always'
    BY <1>0, <1>5 DEF Entries, KindsMatch
  <1>6. CASE CheckRunning \/ RequestRestart
    <2>1. UNCHANGED <<instanceMap, unvisited>>
      BY <1>6 DEF CheckRunning, RequestRestart
    <2>2. (unvisited \subseteq Entries /\ KindsMatch)'
      BY <1>0, <2>1 DEF Entries, KindsMatch
    <2>3. CASE CheckRunning
      <3>1. UNCHANGED <<spc, flagVars, unsolicited>>
        BY <2>3 DEF CheckRunning
      <3>2. sawWaiting' => sawWaiting \/ (~runningFlag /\ spc # "raise")
        BY <2>3 DEF CheckRunning
      <3>3. sawWaiting' => spc \in {"complete", "wait", "clear", "shutdown", "exited"}
        BY <1>0, <3>2 DEF ScriptTypes
      <3> QED
        BY <1>0, <2>1, <2>2, <3>1, <3>3
    <2>4. CASE RequestRestart
      BY <1>0, <2>2, <2>4 DEF RequestRestart
    <2> QED
      BY <1>6, <2>3, <2>4
  <1>7. CASE ScriptThread
    BY <1>1, <1>2, <1>3, <1>4, <1>5, <1>7 DEF ScriptThread, Schedule, FreeCollected, RemoveStored
  <1>8. CASE ProcessThread
    BY <1>5, <1>6, <1>8 DEF ProcessThread, SyncBegin, DropDone, NotifyAll, CheckObjects,
       ProcessBegin, ProcessAll, DropDeleted
  <1>9. CASE OutputThread
    BY <1>5, <1>9 DEF OutputThread, OutputReset, OutputPlay, OutputDone, OutputExit
  <1>10. CASE Jack \/ UNCHANGED vars
    BY <1>5, <1>10 DEF Jack, SyncTimeout, Locate
  <1> QED
    BY <1>7, <1>8, <1>9, <1>10 DEF Next, Rest

--------------------------------------------------------------------------------
\* Until two threads meet in push, every step keeps every processor in its one place.
LEMMA OwnershipStep == IInv /\ [Next]_vars /\ ~overlapped' => Ownership'
  <1> SUFFICES ASSUME IInv, [Next]_vars, ~overlapped' PROVE Ownership'
    OBVIOUS
  <1> USE DEF scriptVars, flagVars, engineVars, jackVars, oscVars, eventVars, historyVars,
       ScriptTypes, EngineTypes, OutputTypes, KindsMatch
  <1> DEFINE Places == /\ KeysDistinct /\ OneOwner /\ HeapIsOwned /\ EngineHolds /\ ThreadsRun
                       /\ activeScriptObjects \subseteq Cached
  <1>0. ScriptTypes /\ EngineTypes /\ OutputTypes /\ TypeOK /\ Always /\ KindsMatch
    BY DEF IInv, TypeOK, Always
  <1>1. ~overlapped => Ring /\ Places
    BY DEF IInv, Ownership
  <1>2. ASSUME Places', Ring' PROVE Ownership'
    BY <1>2 DEF Ownership
  <1>3. ASSUME UNCHANGED deletedVars
        PROVE  /\ ~overlapped /\ Ring /\ Ring' /\ Places
               /\ Deleted' = Deleted /\ Pushing' = Pushing /\ Removing' = Removing
    BY <1>1, <1>3, RingKept DEF deletedVars
  <1> USE DEF KeysDistinct, OneOwner, HeapIsOwned, EngineHolds, ThreadsRun, Retiring
  <1>4. ASSUME NEW k \in Keys, GetCached(k) PROVE Ownership'
    <2>1. Cached' = Cached /\ instanceMap[k] \in Cached
      BY <1>0, <1>4 DEF Cached, GetCached
    <2> QED
      BY <1>2, <1>3, <1>4, <2>1 DEF GetCached
  <1>5. ASSUME NEW k \in Keys, NEW p \in Procs, GetNew(k, p) PROVE Ownership'
    <2>1. Cached' = Cached \cup {p}
      BY <1>0, <1>5, CachedRegister DEF GetNew
    <2>2. \A l \in Keys : instanceMap[l] # p
      BY <1>0, <1>3, <1>5 DEF GetNew, Cached
    <2>3. p \in Outputs => p \notin Pushing
      BY <1>3, <1>5, ProcsAssumption DEF GetNew
    <2> QED
      BY <1>0, <1>2, <1>3, <1>5, <2>1, <2>2, <2>3, PointerAssumption, KeysAssumption DEF GetNew
  <1>6. ASSUME NEW k \in Keys, GetFails(k) PROVE Ownership'
    <2>1. Cached' = Cached
      BY <1>0, <1>6, CachedNull DEF GetFails
    <2> QED
      BY <1>0, <1>2, <1>3, <1>6, <2>1, PointerAssumption DEF GetFails
  <1>7. ASSUME NEW k \in Keys, KeepEntry(k) PROVE Ownership'
    BY <1>0, <1>2, <1>3, <1>7 DEF KeepEntry, Cached
  <1>8. ASSUME NEW k \in Keys, RemoveEntry(k) PROVE Ownership'
    <2>0. ~overlapped /\ Ring /\ Places
      BY <1>0, <1>1, <1>8 DEF RemoveEntry, Claim, TypeOK, FlagTypes
    <2>1. Cached' = Cached \ {instanceMap[k]}
      BY <1>0, <1>8, <2>0, CachedErase DEF RemoveEntry
    <2>2. instanceMap[k] = Null \/ instanceMap[k] \in Cached \ Outputs
      BY <1>0, <1>8 DEF RemoveEntry, Cached, Always, Entries
    <2>3. /\ Pushing = {} /\ Pushing' = {instanceMap[k]}
          /\ Deleted' = Deleted /\ Removing = {}
          /\ Removing' = {instanceMap[k]} \ (Outputs \cup {Null}) /\ Ring'
      BY <1>0, <1>8, <2>0, <2>2, Claimed DEF RemoveEntry, Cached
    <2> QED
      BY <1>0, <1>2, <1>8, <2>0, <2>1, <2>2, <2>3, PointerAssumption, ProcsAssumption DEF RemoveEntry
  <1>9. ASSUME NEW k \in Keys, CancelOutput(k) PROVE Ownership'
    <2>1. Cached' = Cached \ {instanceMap[k]}
      BY <1>0, <1>3, <1>9, CachedErase DEF CancelOutput
    <2>2. instanceMap[k] = Null \/ instanceMap[k] \in Cached \cap Outputs
      BY <1>0, <1>9 DEF CancelOutput, Cached, Always, Entries
    <2> QED
      BY <1>0, <1>2, <1>3, <1>9, <2>1, <2>2, PointerAssumption, ProcsAssumption DEF CancelOutput
  <1>10. ASSUME NEW p \in Procs, FreeCollected(p) PROVE Ownership'
    <2>1. Cached' = Cached
      BY <1>10 DEF FreeCollected, Cached
    <2> QED
      BY <1>0, <1>2, <1>3, <1>10, <2>1 DEF FreeCollected
  <1>11. ASSUME DropDeleted PROVE Ownership'
    <2>1. Cached' = Cached
      BY <1>11 DEF DropDeleted, Cached
    <2>2. CASE UNCHANGED deletedVars
      BY <1>0, <1>2, <1>3, <1>11, <2>1, <2>2 DEF DropDeleted, Pop, deletedVars
    <2>3. CASE Pop /\ Head(deletedProcessors) \in activeProcessors
      <3>1. ~overlapped /\ Ring /\ Places
        BY <1>0, <1>1, <2>3 DEF Pop
      <3>2. /\ Head(deletedProcessors) \in Deleted
            /\ Deleted' = Deleted \ {Head(deletedProcessors)}
            /\ Pushing' = Pushing /\ Removing' = Removing /\ Ring'
        BY <1>0, <1>11, <2>3, <3>1, Popped, PointerAssumption DEF DropDeleted
      <3>3. /\ activeProcessors' = activeProcessors \ {Head(deletedProcessors)}
            /\ objectQueue' = objectQueue \cup {Head(deletedProcessors)}
            /\ UNCHANGED <<scriptVars, oscVars, addQueue, heap>>
        BY <1>11, <2>3 DEF DropDeleted
      <3> QED
        BY <1>0, <1>2, <2>1, <2>3, <3>1, <3>2, <3>3
    <2> QED
      BY <1>11, <2>2, <2>3 DEF DropDeleted
  <1>12. ASSUME GetFirst,
                UNCHANGED <<scriptVars, deletedVars, objectQueue, heap, threads, cancelled>>
         PROVE  Ownership'
    <2>1. Cached' = Cached
      BY <1>12 DEF Cached
    <2> QED
      BY <1>0, <1>2, <1>3, <1>12, <2>1 DEF GetFirst
  <1>13. ASSUME NEW p \in Outputs, OutputDone(p) PROVE Ownership'
    <2>1. Cached' = Cached
      BY <1>13 DEF OutputDone, Cached
    <2>2. ~overlapped /\ Ring /\ Places
      BY <1>0, <1>1, <1>13 DEF OutputDone, Claim, TypeOK, FlagTypes
    <2>3. /\ Pushing' = {p} /\ Deleted' = Deleted
          /\ Removing = {} /\ Removing' = {p} \ (Outputs \cup {Null}) /\ Ring'
      BY <1>0, <1>13, <2>2, Claimed, ProcsAssumption DEF OutputDone
    <2> QED
      BY <1>0, <1>2, <1>13, <2>1, <2>2, <2>3 DEF OutputDone
  <1>14. ASSUME NEW p \in Outputs, OutputExit(p) PROVE Ownership'
    <2>1. Cached' = Cached
      BY <1>14 DEF OutputExit, Cached
    <2>2. Ring /\ Places
      BY <1>1, <1>14 DEF OutputExit, Store
    <2>3. p \in Retiring
      BY <1>14, <2>2 DEF OutputExit, Store
    <2>4. /\ Pushing' = {} /\ Deleted' = Deleted \cup ({p} \ {Null})
          /\ Removing = {p} \ (Outputs \cup {Null}) /\ Removing' = {} /\ Ring'
      BY <1>0, <1>14, <2>2, <2>3, Stored DEF OutputExit
    <2> QED
      BY <1>0, <1>2, <1>14, <2>1, <2>2, <2>3, <2>4, ProcsAssumption, PointerAssumption DEF OutputExit
  <1>15. ASSUME RemoveStored PROVE Ownership'
    <2>1. Cached' = Cached
      BY <1>15 DEF RemoveStored, Cached
    <2>2. PICK x \in Pushing \ Outputs : Store(x)
      BY <1>15 DEF RemoveStored
    <2>3. Ring /\ Places
      BY <1>1, <2>2 DEF Store
    <2>4. x # Null => x \in Removing /\ x \notin Deleted
      BY <2>2, <2>3 DEF Removing
    <2>5. /\ Pushing' = {} /\ Deleted' = Deleted \cup ({x} \ {Null})
          /\ Removing = {x} \ (Outputs \cup {Null}) /\ Removing' = {} /\ Ring'
      BY <1>0, <2>2, <2>3, <2>4, Stored
    <2> QED
      BY <1>0, <1>2, <1>15, <2>1, <2>2, <2>3, <2>5, PointerAssumption DEF RemoveStored
  <1>16. ASSUME UNCHANGED <<instanceMap, activeScriptObjects, engineVars, threads, cancelled>>
         PROVE  Ownership'
    <2>1. Cached' = Cached
      BY <1>16 DEF Cached
    <2> QED
      BY <1>2, <1>3, <1>16, <2>1
  <1>17. CASE ScriptThread
    BY <1>4, <1>5, <1>6, <1>7, <1>8, <1>9, <1>10, <1>15, <1>16, <1>17 DEF ScriptThread, Schedule,
       ScriptReturns, ScriptFails, LeaveScriptComplete, Deactivate, SeeRestart, ClearRestart,
       RaiseRunning
  <1>18. CASE ProcessThread
    BY <1>11, <1>12, <1>16, <1>18 DEF ProcessThread, SyncBegin, DropDone, NotifyAll,
       CheckRunning, CheckObjects, RequestRestart, ProcessBegin, ProcessAll
  <1>19. CASE OutputThread
    BY <1>13, <1>14, <1>16, <1>19 DEF OutputThread, OutputReset, OutputPlay
  <1>20. CASE Jack \/ UNCHANGED vars
    BY <1>16, <1>20 DEF Jack, SyncTimeout, Locate, vars
  <1> QED
    BY <1>17, <1>18, <1>19, <1>20 DEF Next, Rest

--------------------------------------------------------------------------------
\* Until two threads meet in push, every step keeps the handshake part.
LEMMA HandshakeStep == IInv /\ [Next]_vars /\ ~overlapped' => Handshake'
  <1> SUFFICES ASSUME IInv, [Next]_vars, ~overlapped' PROVE Handshake'
    OBVIOUS
  <1> USE DEF scriptVars, flagVars, engineVars, jackVars, oscVars, eventVars, historyVars,
       ScriptTypes, EngineTypes, OutputTypes, Handshake, FlagsFollow, Drained, RestartIsDue,
       Retiring
  <1> DEFINE Held == /\ Ring /\ KeysDistinct /\ EngineHolds /\ OneOwner /\ HeapIsOwned
                     /\ ThreadsRun /\ activeScriptObjects \subseteq Cached /\ Handshake
  <1>0. /\ ScriptTypes /\ FlagTypes /\ EngineTypes /\ OutputTypes /\ TypeOK
        /\ unvisited \subseteq Entries /\ FlagsFollow
        /\ (restartFlag /\ spc \in {"raise", "run"} => unsolicited)
    BY DEF IInv, TypeOK, Always
  <1>1. ~overlapped => Held
    BY DEF IInv, Ownership
  <1>2. ASSUME UNCHANGED deletedVars
        PROVE  /\ ~overlapped /\ Held /\ Deleted' = Deleted /\ Removing' = Removing
    BY <1>1, <1>2, RingKept DEF deletedVars
  <1>3. ASSUME NEW k \in Keys, GetCached(k) PROVE Handshake'
    BY <1>0, <1>2, <1>3 DEF GetCached, ScriptCode
  <1>4. ASSUME NEW k \in Keys, NEW p \in Procs, GetNew(k, p) PROVE Handshake'
    <2>1. p \notin Deleted \cup Removing \cup Retiring /\ p \notin cancelled'
      BY <1>0, <1>2, <1>4 DEF GetNew, HeapIsOwned
    <2> QED
      BY <1>0, <1>2, <1>4, <2>1 DEF GetNew, ScriptCode
  <1>5. ASSUME NEW k \in Keys, GetFails(k) PROVE Handshake'
    BY <1>0, <1>2, <1>5 DEF GetFails, ScriptCode
  <1>6. ASSUME NEW k \in Keys, KeepEntry(k) PROVE Handshake'
    <2>1. \A l \in unvisited \ {k} : instanceMap[l] \in activeScriptObjects =>
              instanceMap[l] \in activeScriptObjects \ {instanceMap[k]}
      BY <1>0, <1>2, <1>6 DEF KeepEntry, KeysDistinct
    <2> QED
      BY <1>0, <1>2, <1>6, <2>1 DEF KeepEntry, AtEntry
  <1>7. ASSUME NEW k \in Keys, RemoveEntry(k) PROVE Handshake'
    <2>0. Claim(instanceMap[k]) /\ ~overlapped /\ Held
      BY <1>0, <1>1, <1>7 DEF RemoveEntry, Claim, TypeOK, FlagTypes
    <2>1. instanceMap[k] = Null \/ instanceMap[k] \in Procs
      BY <1>0, <1>7 DEF RemoveEntry, Entries
    <2>2. instanceMap[k] \in Procs => instanceMap[k] \in addQueue \cup activeProcessors
      BY <1>7, <2>0 DEF RemoveEntry, EngineHolds, Cached
    <2>3. ~unsolicited => (instanceMap[k] = Null \/ instanceMap[k] \in activeProcessors)
      BY <1>0, <1>7, <2>0, <2>1, <2>2 DEF RemoveEntry, AtEntry
    <2>4. /\ Deleted' = Deleted /\ Removing = {}
          /\ Removing' = {instanceMap[k]} \ (Outputs \cup {Null})
      BY <1>0, <2>0, <2>1, Claimed
    <2> QED
      BY <1>0, <1>7, <2>0, <2>3, <2>4 DEF RemoveEntry, AtEntry
  <1>8. ASSUME NEW k \in Keys, CancelOutput(k) PROVE Handshake'
    <2>1. instanceMap[k] \in Procs => instanceMap[k] \in addQueue \cup activeProcessors
      BY <1>0, <1>2, <1>8 DEF CancelOutput, EngineHolds, Cached
    <2>2. CASE spc = "complete"
      <3>1. ~unsolicited => (instanceMap[k] \notin Procs \/ instanceMap[k] \in activeProcessors)
        BY <1>0, <1>2, <1>8, <2>1, <2>2 DEF CancelOutput
      <3> QED
        BY <1>0, <1>2, <1>8, <2>2, <3>1 DEF CancelOutput
    <2>3. CASE spc = "shutdown"
      BY <1>0, <1>2, <1>8, <2>3 DEF CancelOutput
    <2> QED
      BY <1>8, <2>2, <2>3 DEF CancelOutput, AtEntry
  <1>9. ASSUME ScriptReturns PROVE Handshake'
    BY <1>0, <1>2, <1>9 DEF ScriptReturns
  <1>10. ASSUME ScriptFails PROVE Handshake'
    BY <1>0, <1>2, <1>10 DEF ScriptFails
  <1>11. ASSUME LeaveScriptComplete \/ Deactivate PROVE Handshake'
    BY <1>0, <1>2, <1>11 DEF LeaveScriptComplete, Deactivate, AtEntry
  <1>12. ASSUME SeeRestart PROVE Handshake'
    BY <1>0, <1>2, <1>12 DEF SeeRestart
  <1>13. ASSUME ClearRestart PROVE Handshake'
    BY <1>0, <1>2, <1>13 DEF ClearRestart
  <1>14. ASSUME RaiseRunning PROVE Handshake'
    BY <1>0, <1>2, <1>14 DEF RaiseRunning
  <1>15. ASSUME DropDeleted PROVE Handshake'
    <2>1. CASE UNCHANGED deletedVars
      BY <1>0, <1>2, <1>15, <2>1 DEF DropDeleted, Pop, deletedVars
    <2>2. CASE Pop /\ Head(deletedProcessors) \in activeProcessors
      <3>1. ~overlapped /\ Held
        BY <1>1, <2>2 DEF Pop
      <3>2. /\ Head(deletedProcessors) \in Deleted
            /\ Deleted' = Deleted \ {Head(deletedProcessors)} /\ Removing' = Removing
        BY <1>0, <1>15, <2>2, <3>1, Popped, PointerAssumption DEF DropDeleted
      <3>3. /\ activeProcessors' = activeProcessors \ {Head(deletedProcessors)}
            /\ UNCHANGED <<scriptVars, flagVars, addQueue, oscVars, historyVars>>
            /\ UNCHANGED ppc
        BY <1>15, <2>2 DEF DropDeleted
      <3> QED
        BY <1>0, <3>1, <3>2, <3>3 DEF OneOwner
    <2> QED
      BY <1>15, <2>1, <2>2 DEF DropDeleted
  <1>16. ASSUME NotifyAll \/ (\E played \in SUBSET (Buffered \ Outputs) : ProcessAll(played))
         PROVE  Handshake'
    BY <1>0, <1>2, <1>16 DEF NotifyAll, ProcessAll, GetFirst
  <1>17. ASSUME CheckRunning PROVE Handshake'
    BY <1>0, <1>2, <1>17 DEF CheckRunning
  <1>18. ASSUME CheckObjects PROVE Handshake'
    BY <1>0, <1>2, <1>18 DEF CheckObjects, GetFirst
  <1>19. ASSUME RequestRestart PROVE Handshake'
    BY <1>0, <1>2, <1>19 DEF RequestRestart
  <1>20. ASSUME NEW p \in Outputs, OutputDone(p) PROVE Handshake'
    <2>1. Claim(p) /\ ~overlapped /\ Held
      BY <1>0, <1>1, <1>20 DEF OutputDone, Claim, TypeOK, FlagTypes
    <2>2. Deleted' = Deleted /\ Removing = {} /\ Removing' = {p} \ (Outputs \cup {Null})
      BY <1>0, <2>1, Claimed, ProcsAssumption
    <2> QED
      BY <1>0, <1>20, <2>1, <2>2 DEF OutputDone
  <1>21. ASSUME NEW x, Store(x), x \in Removing \cup Retiring \cup {Null},
                UNCHANGED <<scriptVars, flagVars, addQueue, activeProcessors, cancelled,
                            historyVars, ppc>>,
                x \in Outputs \/ UNCHANGED threads, threads' \subseteq threads
         PROVE  Handshake'
    <2>1. Held
      BY <1>1, <1>21 DEF Store
    <2>2. x # Null => x \notin Deleted
      BY <1>21, <2>1 DEF OneOwner
    <2>3. Deleted' = Deleted \cup ({x} \ {Null}) /\ Removing' = {}
      BY <1>0, <1>21, <2>1, <2>2, Stored
    <2> QED
      BY <1>0, <1>21, <2>1, <2>3
  <1>22. ASSUME NEW p \in Outputs, OutputExit(p) PROVE Handshake'
    <2>1. p \in Retiring
      BY <1>1, <1>22 DEF OutputExit, Store, ThreadsRun
    <2> QED
      BY <1>21, <1>22, <2>1 DEF OutputExit
  <1>23. ASSUME RemoveStored PROVE Handshake'
    <2>1. PICK x \in Pushing \ Outputs : Store(x)
      BY <1>23 DEF RemoveStored
    <2>2. x \in Removing \cup Retiring \cup {Null}
      BY <2>1 DEF Removing
    <2> QED
      BY <1>21, <1>23, <2>1, <2>2 DEF RemoveStored
  <1>24. ASSUME UNCHANGED <<scriptVars, flagVars, addQueue, activeProcessors,
                            deletedVars, threads, cancelled, historyVars>>,
                ppc' # "restart"
         PROVE  Handshake'
    BY <1>0, <1>2, <1>24
  <1>25. ASSUME UNCHANGED <<scriptVars, flagVars, addQueue, activeProcessors,
                            deletedVars, threads, cancelled, historyVars, ppc>>
         PROVE  Handshake'
    BY <1>0, <1>2, <1>25
  <1>26. CASE ScriptThread
    BY <1>3, <1>4, <1>5, <1>6, <1>7, <1>8, <1>9, <1>10, <1>11, <1>12, <1>13, <1>14, <1>23, <1>25,
       <1>26 DEF ScriptThread, Schedule, FreeCollected
  <1>27. CASE ProcessThread
    BY <1>15, <1>16, <1>17, <1>18, <1>19, <1>24, <1>27 DEF ProcessThread, SyncBegin,
       DropDone, ProcessBegin
  <1>28. CASE OutputThread
    BY <1>20, <1>22, <1>25, <1>28 DEF OutputThread, OutputReset, OutputPlay
  <1>29. CASE Jack \/ UNCHANGED vars
    BY <1>25, <1>29 DEF Jack, SyncTimeout, Locate, vars
  <1> QED
    BY <1>26, <1>27, <1>28, <1>29 DEF Next, Rest

--------------------------------------------------------------------------------
\* IInv is an inductive invariant of the specification.
THEOREM Invariance == Spec => []IInv
  <1>1. IInv /\ [Next]_vars => IInv'
    BY TypeStep, AlwaysStep, OwnershipStep, HandshakeStep DEF IInv
  <1> QED
    BY InitIInv, <1>1, PTL DEF Spec

\* Every variable of the restart handshake and of the caches keeps its type.
THEOREM TypeCorrect == Spec => []TypeOK
  <1>1. IInv => TypeOK
    BY DEF IInv
  <1> QED
    BY Invariance, <1>1, PTL

\* Whatever is being pushed or stored is being removed, retires or is in the ring.
LEMMA HandedOver ==
    ASSUME TypeOK, Ownership
    PROVE  /\ Handed \subseteq Removing \cup Retiring \cup Deleted
           /\ Removing \cup Deleted \subseteq Handed
  BY DEF Handed, Removing, Deleted, Ownership, ThreadsRun

\* No thread can reach a processor that ObjectCollector::free has deleted, until two
\* threads meet in push.
THEOREM MemorySafe == Spec => []NoUseAfterFree
  <1>1. IInv => NoUseAfterFree
    BY HandedOver DEF IInv, TypeOK, EngineTypes, OutputTypes, Ownership, NoUseAfterFree,
       HeapIsOwned, EngineHolds, ThreadsRun, Retiring
  <1> QED
    BY Invariance, <1>1, PTL

\* An allocated processor is cached or on its way to the collector, until two threads
\* meet in push.
THEOREM NothingLost == Spec => []NoLeak
  <1>1. IInv => NoLeak
    BY HandedOver DEF IInv, Ownership, NoLeak, HeapIsOwned
  <1> QED
    BY Invariance, <1>1, PTL

\* What findObject gives to the script is hosted by the engine, until two threads
\* meet in push.
THEOREM CacheIsHosted == Spec => []CachedIsHosted
  <1>1. IInv => CachedIsHosted
    <2> SUFFICES ASSUME IInv, ~overlapped PROVE CachedIsHosted
      BY DEF CachedIsHosted
    <2>1. Ownership /\ Handed \subseteq Removing \cup Retiring \cup Deleted
      BY HandedOver DEF IInv
    <2> QED
      BY <2>1, PointerAssumption DEF Ownership, CachedIsHosted, EngineHolds, OneOwner
  <1> QED
    BY Invariance, <1>1, PTL

\* List::remove finds the processor it looks for, unless restart() came too late,
\* the script failed or two threads have met in push.
THEOREM RemovalSafe == Spec => []RemovalFindsProcessor
  <1>1. IInv => RemovalFindsProcessor
    BY DEF IInv, Handshake, RemovalFindsProcessor, Deleted
  <1> QED
    BY Invariance, <1>1, PTL

\* A restart request does not stand while the script runs, unless it came too late.
THEOREM RestartInTime == Spec => []RestartOnlyWhileWaiting
  <1>1. IInv => RestartOnlyWhileWaiting
    BY DEF IInv, Always, RestartOnlyWhileWaiting
  <1> QED
    BY Invariance, <1>1, PTL
================================================================================
