# A TLA+ verification of bipscript

bipscript runs a Squirrel script as a JACK client.  The script asks for ports,
plugins, mixers and trackers, connects them and schedules events at musical
positions; a real-time thread plays them.  When the transport is moved back the
whole script runs again, on the objects that it used the last time.

What is hard about it is the sharing between threads that may not block each
other: objects travel through lock-free queues, are deleted by another thread
than the one that stops using them, and a restart is a handshake of two flags.

All line numbers refer to `src/src/` unless a path says otherwise.

## 1. Inventory

| part | state | operations | talks to |
|---|---|---|---|
| `ScriptHost` (scripthost.*) | `restartFlag`, `runningFlag`, the run table | `run`, `waitForRestart`, `restart`, `running` | caches, engine, method queue, collector |
| `ActiveCache`, `ProcessorCache` (objectcache.h) | `instanceMap`, `activeScriptObjects` | `findObject`, `registerObject`, `scriptComplete`, `removeAll` | engine |
| `AudioEngine` (audioengine.*) | `activeProcessors` (list and add queue), `deletedProcessors`, `multiplePeriodRestart`, `runningFrame` | `sync`, `reposition`, `process`, `shutdown` | JACK, processors, script host, collector |
| `ObjectCollector` (objectcollector.*) | `objectQueue`, `waitingList` | `recycle`, `recycleAll`, `update`, `free` | any thread to the script thread |
| `EventBuffer`, `EventList` (eventbuffer.h, eventlist.h) | `eventQueue`, `sortedEvents` | `addEvent`, `update`, `getNextEvent`, `recycleRemaining` | script thread to process thread |
| connections (audioconnection.h, midiconnection.h, source.h, processor.h) | one pointer per input, `processedUntil` | `setConnection`, `connectsTo`, `process` | script thread writes, process thread follows |
| `Mixer` (mixer.*) | inputs, `connectedInputs`, gains, controllers | `connect`, `scheduleGain`, `addGainController`, `doProcess`, `reposition` | its sources |
| `lv2::Plugin`, `Worker` (lv2plugin.*) | inputs, controls, ring buffers | `getPlugin`, `connect`, `schedule`, `doProcess`, `scheduleWork`, `respond` | its sources, a worker thread |
| `osc::Output` (oscoutput.*) | `repositionNeeded`, `cancelled`, an event buffer | its own thread, `cancel`, `reposition` | engine |
| `osc::Input`, `MethodQueue`, `EventClosure` | `dispatchQueue`, a memory pool | `dispatch`, `next`, `execute`, `recycle` | process and liblo threads to the script thread |
| `transport::Master`, beat trackers | tempo, count-in, handlers | `setTime`, `forceBeat`, `countInEvent`, `stopIfSilent` | JACK's timebase callback |
| `Position`, `Duration` | fractions of a bar | `normalize`, `<`, `<=`, `+=`, `calculateFrameOffset` | every event |
| TLSF pool (tlsf.c) | block headers, free lists, two levels of bitmaps | `tlsf_malloc`, `tlsf_free` | the process thread, through `MemoryPool` |
| notation readers (mmlreader.*, abcreader.*, drumtabreader.*) with tinymml and abcmidi | what a reader keeps between texts; abcmidi's globals | `read`, `readTune` | script thread only |
| Squirrel bindings (bindings/) | instances, their user pointers and release hooks | every registered function | virtual machine, all other parts |
| extensions, system, IO, random | plain data | files, environment, shared libraries | script thread only |

What makes each part correct:

- **handshake and caches**: nothing that a cache, a queue, the engine's list or a
  thread still leads to has been deleted; nothing is forgotten; a removal never overtakes the addition; a restart that
  has begun ends and is followed by a run; a run starts without the events of
  the last one.
- **event buffer**: events come out by position, equal positions in the order of
  scheduling, each once; one that was scheduled in time is played.
- **connections**: everything a reader reads was computed in this period, once,
  although what says so is a frame time that wraps; the calls end; no reader
  follows a null pointer.
- **method queue**: no thread waits for a thread that waits for it; closures are
  executed in the order of their dispatch, and each is returned to its pool once.
- **transport**: the BBT position JACK is given is consistent; nobody uses a
  deleted Master.
- **collector**: the links of the two lists say what the lists are meant to hold
  through every splice; what waits is deleted in the end.
- **controls**: every scheduled or received value reaches its gain or port in the
  period in which it is due; no connection leaks or is used after it was recycled.
- **bindings**: a call reaches an implementation exactly when an overload of it
  documents these arguments; an instance owns one live object.
- **readers**: a text becomes the notes it means, at the times it means, although
  they come out of stacks, queues and jumps and are sums of wrapped words.

`PROJECT.json` lists the hazards of this code at their lines, with the
properties that cover them.

## 2. Modules

| module | models | how |
|---|---|---|
| `Lifecycle` | handshake, caches, processor list, collector, OSC threads | one action per access to shared state |
| `EventBuffer` | event buffer, list, a MIDI port as its owner | list as a sequence, position as a frame |
| `EventStore` | what event buffer and collector promise together | abstract specification |
| `Collector` | `List`, `EventList`, `ObjectCollector` with their links | one action per push, pop and splice; implements `EventStore` |
| `Routing` | connections, loop check, pulling through plugins, mixers, ports | explicit call stack |
| `Mixing` | gains and controls of mixers and plugins, their controllers | one frame loop per period |
| `Tempo` | transport master, MIDI beat tracker, BBT position | a period is one frame |
| `Tlsf` | the allocator behind `MemoryPool` | operators on a pool |
| `Dispatch` | method queue, closures, OSC input; extends `Tlsf` | three threads and a ring |
| `Positions` | durations and positions | operators on machine words |
| `Readers` | the readers for MML, ABC and drum tabs | operators on texts; extends `Mml`; takes ABC as the calls made for it |
| `Mml` | tinymml | symbols to notes and rests |
| `AbcParse`, `AbcStore`, `AbcFinish`, `AbcMidi` | abcmidi, stage by stage | tokens to features to MIDI calls |
| `AbcMeaning` | nothing: what plain ABC music means | reference definition |
| `BindCommon`, `BindTypes` | what the generated bindings share | argument kinds, overloads, checks |
| `BindAudio` ... `BindTransport`, `Bindings` | every registered function, one definition each | records of overloads |
| `Api` | instances, the C++ objects behind them, the calls of a script | one class per behaviour; extends `Readers`; abcmidi is a constant operator |
| `Reading` | `Api` with abcmidi behind it, and what its notes have to do with the text | extends `Api`, `AbcMeaning` and the parsers |
| `...Proofs` | | theorems, see section 4 |
| `MC...` | | instances for TLC, one configuration per run |

`Lifecycle`, `EventBuffer`, `Collector`, `Routing`, `Mixing`, `Tempo`, `Dispatch`
and `Api` are state machines; each models the threads that meet in its part of the
program.  Where one part uses another only through what it promises, the other is
abstract there: a processor's buffer is `freshEvents` and `staleEvents` in
`Lifecycle`, a sequence in `EventBuffer` and `Mixing`, and linked lists only in
`Collector`, which is shown to implement such a store.

### Lifecycle

`spc` is where the script thread is: `run` (in `sqstd_dofile`), `complete`
(offering the entries `unvisited` to `scriptComplete`), `wait` (the loop of
`waitForRestart`), `clear` and `raise` (lines 61 and 62), `shutdown`, `exited`.
`ppc` is where the process thread is: `reposition` and `drop` pop
`deletedProcessors`, `notify`, `ready`, `objects` and `restart` are the steps of
`AudioEngine::reposition`, `process` and `work` those of `process`.  Both
threads, every `osc::Output` thread and JACK interleave freely, with one access
to shared state per action.

Abstractions:

- The add queue is a set with a capacity: the list it feeds is walked in full, so the
  order cannot be seen.
- `deletedProcessors` is boost's ring for a single producer, to which the script
  thread and every `osc::Output` thread push (oscoutput.cpp:99).  A push is two
  actions: `Claim` finds a slot, `Store` writes the pointer and the index.  When two
  threads are between these (`overlapped`), one pointer overwrites the other, or the
  index moves over slots that hold what was pushed long ago (`Written`).  An Output
  that is lost in this way leaks, stays in the engine's list, and keeps every later
  reposition waiting, for no thread is left to take its flag down.  From then on the
  script asks for no more objects and nobody relocates (`Undamaged`, a bound); the
  properties speak of what is before.
- The connections that `Plugin::reposition` (lv2plugin.cpp:701) and
  `AudioOutputPort::reposition` (audioport.h:88) follow are not in this module: what
  a thread can reach is what caches, queues, the list and Output threads lead to.
- All caches together are one map; a key belongs to the `OutputFactory` or to a
  `ProcessorCache`.  `MasterCache` and the OSC input cache are not processors.
- `multiplePeriodRestart` stays at 1 however many attempts failed; only zero and
  non-zero are told apart.
- `GetFails` is a creation that throws after `findObject` has inserted its null
  entry.  A script that catches the error goes on.
- A stopped JACK transport behaves as a starting one for which `sync` is not
  called yet.
- `freshEvents` and `staleEvents` tell only whether a processor holds events of
  this run or of an earlier one.
- `sawWaiting`, `unsolicited` and `crashed` are history: `unsolicited` is set by
  a `restart()` whose `running()` was read before the flag it sets was cleared.

### EventBuffer

`eventQueue` and `sortedEvents` are the two members, `objectQueue` the
collector.  One `ppc` cycle is one period of the owner: `update` pops up to
`UpdateMax` events, `select` is the rest of `getNextEvent`, which returns to
`update` after every event as the owner calls again.  `Insert` is
`EventList::insert` with its three branches; `Passed` is how far its walk goes.
`Relocate` moves the transport; a move back leads to `flush`, which is
`recycleRemaining`.  The list goes to the collector in one step; the pointers
that `recycleAll` follows after pushing are in `Collector`.

`agenda`, `ontime`, `backlog`, `overloaded`, `tookMore`, `missed` and
`disordered` record what the properties speak of and influence nothing.

### EventStore and Collector

`EventStore` has four variables (`queued`, `held`, `returned`, `at`): an event is
queued, kept in order of position, returned once and deleted.  `Collector` has the
`next` pointer of every element, `first` and `last` of the two lists
`sortedEvents` and `waitingList`, and the collector's queue.  `ppc` is where the
process thread is: `push` and `pop` are the two statements of the loop in
`recycleAll` and `update`, between which the script thread may delete the element;
`flush` is `recycleRemaining`, which appends the whole list (`AddAll`) and then
clears it (`Clear`).  Undefined behaviour ends the program: `fault` is `read` when a
`next` pointer is read from a deleted element.

`objectQueue` is a `boost::lockfree::queue`, whose `push` allocates a node when there
is none and does not fail (objectcollector.h:27).  So `recycle` never adds to the
waiting list (line 27), the loops go on until it is empty, and elements wait in it only
while `recycleAll` is under way.

The refinement mapping takes the two lists that the pointers make up as `held` and
as part of `returned`.  `Held` is empty while `recycleRemaining` has appended the
list to the other and not yet cleared it.

### Routing

`audioInput` and `connectedInputs` are what the script writes and the process
thread reads.  `stack` is the process thread's nest of `doProcess` calls; a frame
holds the next input to look at, the length of the mixer's array of buffers and
the sources it has used.  `Mixer::connect` is two actions, since it counts the
input before it stores the connection.  `WalkFault` is what becomes of
`connectsTo` on a graph it cannot finish.  `fault` names what brought the program
down: `null` and `bounds` (a mixer's input), `nullwalk` (`connectsTo` follows a
mixer's input that is counted and null, mixer.cpp:283), `slot` (the overload of
`Mixer::connect` that does not check for room), `walk` and `overflow` (endless
recursion of `connectsTo` and of `process`).

`processedUntil` and `time` are numbers modulo `TimeRange`, as `jack_nframes_t` is
modulo 2^32; one unit is a buffer, and a period may begin several after the last one.
`UpToDate` is the comparison of processor.h:36.  Once the time has come round
(`wrapped`) a processor whose mark is ahead of it is not computed again until the time
catches up, and what it hands out is old: `FreshInputs` names this as its exception.

Every source has one output.  Connections of events (MIDI inputs, and the sources of
controllers: mixer.cpp:36, 319-323; lv2plugin.cpp:671) are not in the graph:
`process` follows them too, and `connectsTo` does not look at them.

### Mixing

A behaviour is about one `unit`, a mixer or a plugin: the two classes keep their
control connections in the same members.  `adding` is an `addGainController` or
`addController` under way, between its two spinning pushes; `connQueue`,
`connList`, `mapQueue`, `mappings` and `recycled` are the ways a control connection
can go; `index` is `eventCount`, with `NULL` for a count that was never set.  A
period is `PullMappings`, the MIDI events (`MixerControls` and `FrameControls`, or
`PluginEvents` and `PluginControls`), the gain of each frame (`FrameGain`), and
`EndPeriod`.  Gain events carry their offset to the period and a flag `fresh` for
those scheduled since it began.  Samples are left out.  Once a controller has been
added across a reposition (`raced`) the script starts nothing new, a bound.

### Tempo

The script gets the master and the tracker from their caches in every run, and the
caches are completed one after the other (`CompleteMaster`, `CompleteTracker`);
`master`, `tracker`, `onCountHandler` and `loaded` say what has become of the objects
behind the pointers.  The process thread counts in (`Count`, `Abandon`,
`StartTransport`), forces beats (`Rolling`), stops on silence, and JACK asks for
the position (`SetTime`, with `Advanced`, `NewPosition` and `Forced`).  A tempo is
the length of its beat in frames; `lastTick` is counted in half ticks, so that the
rounding of the position is there.  `since` and `untilStart` are clocks, `manual`,
`signed` and `used` history.  `silent` is the time since the last note.  It starts at
frame 0 of JACK's time (beattracker.h:117), so that a tracker that is made while the
transport rolls may find a silence that is too long at once (`LongSilence`); it stops
the transport and sends it to the start of the song (`rewound`).

### Tlsf and Dispatch

`Tlsf` defines a pool as the headers of its blocks, a sequence for each free list
and the two bitmaps as sets; `Malloc` and `FreeBlock` follow `tlsf_malloc` and
`tlsf_free` through search, split and merge.  `Dispatch` has the ring with its two
indices, the two producers' places (`idle`, `dispatch`: reading the write index
and spinning while the ring is full, `store`: between the store and the index), the
pool, the heaps of the two kinds of closures that are not in the pool, and the event
buffer of the transport, whose bounded queue is the other one a thread spins on.
`overlapped` is set when liblo's thread and the process thread are in `push`
together.  A restart leaves the ring as it is: closures of an earlier run are executed
by the next one, and `RingIsFifo` is about their order only.

### Positions, readers and parsers

`Positions` has the operators of `Position` and `Duration` in words that wrap
around, with `normalize` and the exceptions it throws.  A reader is an operator
from what it has kept and a text to the notes it makes and what it keeps.
Characters are not modelled: a text is a sequence of symbols (MML), of lines of
tokens (ABC) or of lines of strokes (drum tabs).  The four stages of abcmidi are
four modules; the globals that no tune resets (the tuplet and the chord under way)
are part of the state they pass on.  Left out are `%%MIDI` directives, guitar
chords, drums, lyrics, ornaments, microtones, voice overlays and stress patterns.
`AbcMeaning`, and `PlainMML` with `MMLMeans` in `Mml`, are written without looking at the
parsers: they say what plain texts mean.

The operators of the three readers were compared with the compiled sources on about
6000 generated texts and 1800 pairs of texts read one after the other: the calls
they make and the notes they give are the same.

### Bindings and Api

The bindings are generated code of one pattern, so each registered function is one
record: its overloads, how each is picked, and how each argument is read.
`BindCommon` says what these readers do with an argument of any kind, the missing
`return` of the getters of single classes included.  In `Api` a behaviour follows
one class or package: instances are made, called with fitting and unfitting
arguments, cloned, dropped, and kept over runs.  `slots` are the script's variables,
`objects` the C++ objects, and `hook` is the release hook of an instance.

`copied` is what objects held when they were cloned.  The time signature that `read`
finds in the transport is one of `TimeBases`.  The default key and length are modelled,
the overloads of `read` with a key, a length, a meter or a rhythm only bind their
arguments.

Which calls abcmidi makes for a text is the constant operator `abcmidi(_, _, _, _)` of
`Api`: instances and objects depend only on how many tunes the calls begin and on
where they end, and what is proved of them holds for any parser.  `Reading` defines
the operator by the model of abcmidi, and `MCApi` gives it to TLC.

## 3. What is checked

| run | shows | states |
|---|---|---|
| `lifecycle_safety` | `TypeOK`, `NoUseAfterFree`, `NoLeak`, `RemovalFindsProcessor`, `RestartOnlyWhileWaiting` | 2.9 million |
| `lifecycle_liveness` | `RepositionCompletes`, `RestartLeadsToRun` | 480 000 |
| `lifecycle_stale` | counterexample to `RunStartsClean` | |
| `lifecycle_crash` | counterexample to `RemovesProcessorsOnly` | |
| `event_buffer` | `Sorted`, `Stable`, `OnePlace`, `TimelyEventsPlay`, `WrittenInOrder` | 1.5 million |
| `routing` | `FreshInputs`, `OncePerPeriod`, `MixerInputsComplete` | 4.1 million |
| `routing_loop` | counterexample to `NoLoop` | |
| `collector` | `LastIsLast`, `OnlyFlushRaces`, `Implements` (the refinement of `EventStore`), `FlushDeletes` | 87 000 |
| `dispatch` | `PoolSound`, `ClosuresAccounted`, `RingIsFifo`, `FaultsExplained`, `DispatchReturns` | 150 000 |
| `mixing` | `ConnectionsAccounted`, `MappingsLive`, `GainsApplied`, `ControlsApplied`, `CountsSet`, `ControllerAdded` | 850 000 |
| `tempo` | `TrackerHasMaster`, `PositionSound`, `NeverBack`, `StartsOnBeat`, `CountInStarts`, `SilenceStops` | 920 000 |
| `api` | `CallsSound`, `InstancesSound`, `ReadsFaithful`, `LifetimesExplained` | 360 000 |

Each property of a passing run has a mutant: a variant of one action or operator,
marked `Mutant` in the module, under which TLC finds the property violated.

### What the properties say

The properties of `Lifecycle`, `EventBuffer` and `Routing` are introduced in
section 1.  Many of them name an exception, which is a fact about the code: the
property says that nothing else goes wrong.

- Two threads that are in `removeProcessor` together may lose a processor
  (`NoLeak`), or bring one back that was taken out (`NoUseAfterFree`).
- A removal can overtake an addition after an unsolicited restart or a script error
  (`RemovalFindsProcessor`).
- An event on time is dropped when more than `UpdateMax` are queued
  (`TimelyEventsPlay`), and offsets can decrease within a period when an event
  arrives during it (`WrittenInOrder`).
- An input replaced during a period makes a processor run twice in it
  (`OncePerPeriod`); a mixer can follow a null input while, or after a refused
  connect, the script connects to it, and so can `connectsTo` on its way back to the
  mixer that is being connected, as in `plugin.connect(mixer); mixer.connect(plugin)`
  (`MixerInputsComplete`).  After the frame time has wrapped a stale mark stands for a
  fresh one (`FreshInputs`).
- The loop of `recycleAll` reads `next` after the push that gave the element away; no
  other code does, since nothing else finds elements that wait (`OnlyFlushRaces`).
- What a flush finds is deleted in the end, if the flush ends: its first loop goes on
  as long as the script thread schedules (`FlushDeletes`).
- liblo's thread is a second producer of a ring made for one; without that overlap
  closures are accounted for and dispatched in order (`ClosuresAccounted`,
  `RingIsFifo`).  A message before `onReceive` meets a pointer that was never
  initialised, and a pool that has run out gives a null pointer
  (`Dispatch!FaultsExplained`).
- `dispatch()` returns, but for the case that the process thread waits for room in
  the ring while the script thread waits for room in the transport's event queue
  (`DispatchReturns`, `MutualWait`).
- A controller that is added across a reposition leaves a mapping to a recycled
  connection (`MappingsLive`), and one that is added during a period is met with an
  unset count (`CountsSet`).  `updateGains` reads one event too far and leaves it
  (`ControlsApplied`); a late gain event keeps those behind it back for the period
  (`GainsApplied`).
- The master outlives a tracker that was asked for in this run
  (`TrackerHasMaster`); a tracker that is being dropped can meet it deleted.
- A user who rolls the transport in the middle of a count-in leaves the count behind
  (`StartsOnBeat`); a signature that changes within the song leaves `bar_start_tick`
  wrong until the next relocation (`PositionSound`).
- A tracker told to stop on silence does stop the transport (`SilenceStops`): only a
  note, or another stop, ends the silence otherwise.
- A call reaches an implementation exactly when an overload documents its arguments,
  except where a getter without `return` is met (`CallsSound`).  Clones share what
  their originals delete, and an instance kept from an earlier run holds an object
  its cache may have dropped (`InstancesSound`).  `LifetimesExplained` says that these
  are the only ways to a deleted object: the instance that is followed to it is a part
  whose owner was deleted or was last asked for more than a run ago, or the MML reader
  that is called is a copy; and what is deleted twice was held by an object when that
  was cloned, and is held by the one that is now deleted.  Other undefined behaviour
  (a getter without `return`, a borrowed method, a clone of nothing, an index out of
  range) is recorded in `fault`, where it ends the behaviour, and is not what the
  property is about.
- `ReadsFaithful` holds for a reader that has nothing left from earlier texts, as long
  as bars are short enough for the words (`ShortBars`): tunes
  of a text with errors stay in an `ABCReader`, its meter persists, and a text that
  ends within a tuplet or a chord changes the next one.  A meter that changes while
  a note sounds makes `operator-` throw through the C parser.

### Disagreements between code and comments

- `lifecycle_stale`: `reposition()` notifies processors on the first attempt only
  (audioengine.cpp:209).  A script that is still running goes on scheduling, and
  those events are played in the next run.  The comment (processor.h:43) says
  objects "flush/recycle queued events".
- `lifecycle_crash`: `findObject` leaves a null entry when the creation throws;
  the end of the run hands it to the engine's list, which follows it
  (objectcache.h:58, listable.h:64-76).
- `routing_loop`: "Cannot connect infinite loop" (audioconnection.h:85), but only
  a source connected to itself is refused.

### Bounds

- `Lifecycle`: a processor key and an OSC key, two addresses for processors so
  that an old object is still on its way out while its successor lives under the
  same key, one OSC output, `deletedProcessors` of size 1 so that it fills and its two
  slots come round, two frames so that the transport can move back.
- `EventBuffer`: three events, a queue of 2 that fills, `UpdateMax` 1 so that a
  backlog appears with two events, a grace of 1 and periods of 2 frames up to frame
  4, so that an event can be early, in this period, within the grace and too late.
- `Collector`: three events at two positions, so that an insertion has a place
  before, between and after and equals to pass, and one is being recycled while others
  wait; an event queue of 2, which fills.
- `Routing`: a plugin, a mixer with two inputs and an output port; the loop of plugin
  and mixer and every re-wiring exist, and the stack holds two more calls than there
  are processors, so that it overflows only when a processor is entered twice.  The
  time wraps at 3, so that it comes round in a few periods, whether these follow each
  other or not.  `routing_loop` has an input port and a second plugin.
- `Mixing`: two connections, so that one is new while the other is in use, both
  queues of size 1, two frames, up to two MIDI events in one or both frames, gain
  events before, in and after the period.
- `Tempo`: a second has three frames and the script asks for one beat a second, so
  that counts come a frame early or in time; signatures of one and two beats, bars
  up to 1 (`MaxBar`).  Silence is counted up to the first
  length that is too long (`TooSilent`), since every longer one is compared alike; the
  one a new tracker may find is a second longer (`LongSilence`).
- `Dispatch`: a ring of 2, which wraps and has an order, and an event queue of 1, two
  asynchronous closures and one message, a pool with room for two closures.
  `LargePoolSound` in `MCDispatch` evaluates the allocator alone on a larger pool:
  every sequence of six allocations of four sizes and frees.
- `Api`: three variables of the script, two to six objects and none to two restarts
  per class (`MCBound`), short texts chosen for their cases, and all plain texts of
  a few symbols as `MCMMLStudies` and `MCABCStudies`, read in 4/4 and in 6/8.  Words of
  15 bits and 12 ticks to a quarter, so that bars too long for a word exist among short
  texts.

### Fairness

- `Lifecycle`: the script ends (a script that never ends never restarts, by
  design); the script thread's own steps after that; the process thread, which JACK
  calls in every cycle; and each OSC thread, which polls its flags every 10 ms.
  Nothing is assumed of the users of the transport.  `RepositionCompletes` lets
  JACK's sync timeout end the wait, as JACK does.
- `Collector`: the script thread comes to wait and frees; a flush and a loop that have
  begun go on.  That a flush ends is a premise of `FlushDeletes`, not assumed.
- `Dispatch`: runs and executed closures end, a thread goes on unless it spins, the
  process thread ends its push and fetches events in every period.  Its `Claim` and
  `FetchEvent` are strongly fair: other work of the same thread disables them again
  and again.
- `Mixing`, `Tempo`: JACK runs one cycle after the other; in `Mixing` a push is
  repeated until it succeeds.

## 4. What is proved

The theorems hold for every value of the constants that meets the assumptions
named in the modules: sizes of queues and lengths of periods are positive, pointers
are told apart from null, JACK delivers the MIDI events of a period in the order of
their frames, ports, plugins, mixers and sinks are different things.  TLC evaluates
the assumptions for the instances it checks.  An invariant of a run is seldom
inductive; what follows is what had to be added to each.

Each module states the facts about finite sequences, sets and least elements that it
needs, as its first lemmas.

**LifecycleProofs** proves the invariants of `lifecycle_safety` for every set of
keys, processors and outputs, every failing key and every capacity.  The invariant
is `IInv == TypeOK /\ Always /\ (~overlapped => Ownership /\ Handshake)`.  `Ownership` says for each place a
processor can be (cached, retiring, deleted, collected; in the add queue or the
list) which others exclude it, since `NoUseAfterFree` alone does not say that a
freed address was in no queue.  `Handshake` relates `spc`, `ppc` and the flags.
`FlagsFollow` fixes what each place of the script thread says of `runningFlag` and
`restartFlag`; `Drained` says that, unless a restart was raised while no script
waited (`unsolicited`), the add queue holds only objects of the running script, and
is empty when a restart is due while the script is complete; so what the sweep
retires or deletes is always in the engine's list.  `Ring` says what `claims` and
`deletedProcessors` hold together as long as one thread pushes at a time; `Always` is
what holds after an overlap too, when types and flags are all that is known.

**EventBufferProofs** proves all five invariants of `event_buffer` for every set of
events and every size, grace and period.  The core is `InsertShape`: on an ordered
list the walk of `EventList::insert` stops inside the list, and the result is the
old list with the event after everything that is not later; the `CHOOSE` of `Passed`
has a witness because a set of naturals has a least element.  Order and one place
are proved together (`IInv`): a new event may be given its position only because it
is in no list.  `StableInv` adds that everything in the list, or further ahead in
the queue, was scheduled before what is behind it.  `TimeInv` carries the two
timed properties: as long as no update had to leave events behind (`overloaded`),
what is on time and not yet played lies within the grace of the current frame
(`OnTime`), and what is still in the list is not before the last offset written,
unless an event was taken in after the first of the period (`Ahead`).

**CollectorProofs** proves that the linked lists implement `EventStore`
(`StoreImplemented`), that `last` points to the end (`LastsKept`), and that elements
wait, and are read too late, in the loop of `recycleAll` only (`OtherLoopsSafe`).  The refinement mapping follows
pointers (`Chain`), about which nothing can be computed; so the first part shows
that `IsList(next, first, s)` has at most one solution `s` and what remains of it
when an element is taken, inserted or spliced in.  The invariant says that the
pointers make up two lists (`Shape`), that no event is in two of the four places or
twice in one, but for the one that has been pushed and not yet popped (`Apart`), and
that each list is ordered and ends at its `last` (`Ends`).  With it every step maps to a step
of `EventStore` or to a stutter; after the first undefined step there are only
stutters.

**RoutingProofs** proves the three invariants of `routing` for every graph, looped
or not.  `FreshInv` says that what is computed is up to date, and that until the time
comes round no mark is ahead of it, so that within a period only what is computed is
up to date.  `MixInv` bounds what a
mixer under way can meet: connections and counts agree but for the one connect under
way, and as long as that one did not meet the mixer on the stack (`Overlaps`), the
size it read is still the count (`RoomInv`).  `PathInv` says that without a loop or a
replaced input the stack is a path along the connections through processors not
yet processed; since a path that meets a processor twice is a cycle, and one that
does not is no longer than there are processors, nothing runs twice and the stack is
deep enough (a pigeonhole argument on `StackDepth`).

**MixingProofs** proves the five invariants of `mixing`.  `ConnInv`: a connection has
one holder.  `LiveInv`: mappings lead to connections in use unless one was added
across a reposition.  `IndexInv`, `CountInv` and `ReachInv` follow the loops over
the MIDI events of a period: the index of every listed connection stands behind
exactly the events of earlier frames, all of which are applied or are the one left
over.  `GainInv`: the buffer is ordered, and what is in it is fresh or not before the
event in hand.

**TempoProofs** proves `TrackerHasMaster` (from `CacheInv`, the places of the two
cached objects through the two sweeps), the count-in (`Counting`: types, the ranges
of the sums of periods, and that a finished count-in has its clock running),
`StartsOnBeat`, and from `PlaceInv` the position's `PositionSound` and `NeverBack`,
with the arithmetic of beats, bars and rounding as lemmas for every signature and
tempo.

**DispatchProofs** proves the four invariants of `dispatch`, and with `PoolSound` the
allocator, for every size of the pool, of the ring and of the requests, and every
number of subdivisions of a class.  It assumes what the program has: the pool has
room for a block, closures have addresses of their own, and a pool that is all free
(32 KiB in the program) has room for a closure of any kind.

The allocator comes first, in four parts.  `ClassFits`: what `mapping_search` rounds up to and
`search_suitable_block` then finds is large enough (`FlsValue`, `ClassOf` and
`SearchRoundsUp` for the two levels of classes; powers of two are a recursive
function whose values are established first, `BitValue`).  `Lists`: lists and bitmaps
hold given blocks exactly.  `Chained` and `Tagged`: the blocks fill the pool one
behind the other, and each knows whether and where the one before it is free.
`PoolOK` joins them and says that no two free blocks are neighbours.  Within a call
this fails twice, for the block that is about to be split and for the one that is
about to be merged; `Open` is what holds then, with the block in hand free but not
listed.  `MallocSound` and `FreeSound` go from `PoolOK` through `Open` back to
`PoolOK`, `Used` gains or loses exactly the block in question, and `Checked` shows
that `PoolOK` implies all that `tlsf_check` and `tlsf_check_pool` test.

The invariant of `Dispatch` adds to `PoolOK` that one producer at a time stores
(`OneProducer`) as long as no two overlapped, and that every allocated closure is in
exactly one place (`Whole`) as long as nothing failed either.  `Whole` counts elements
where `ClosuresAccounted` counts indices, and adds that no queue holds an element
twice.  `RingNext` and `RingStore` show what the ring looks like after an index has
gone on, with and without a wrap.  That `malloc` on a pool without used blocks
succeeds (`FaultsExplained`) is `LocatedAgain`: whatever happened before, such a pool
is one block, and what is found in it is what is found in a new one.

**ApiProofs** proves `CallsSound`, `InstancesSound` and `LifetimesExplained` for every set of classes and
packages that is followed, every number of slots, objects and runs, all texts and any
parser of ABC.  The assumptions are about the generated bindings and are named in
`Api`; TLC evaluates them for all functions the program registers.
`FormsAssumption` says how the overloads of a function are told apart (`WellFormed`
in `BindCommon`): no overload hides a later one, and an argument an overload is told
apart by is there when its test is made.  `HooksAssumption` and `PartsAssumption` say
which classes have a release hook and which methods return a part of their object;
`NamesAssumption` keeps classes, packages and inner objects apart.

`CallsSound` is first proved of a single call (`CallDecided`): the first overload
whose test passes reads its arguments one after the other, and the readers that lack
a `return` are the only way in or out that is not documented.  `InstancesSound` is
not inductive, since what a hook may delete depends on what an object holds and on
which cache it is in.  `IInv == CallsSound /\ (fault = "none" => Consistent)` adds
to it:

- `Shape` and `Framed`: the types, and that the call under way is one of a registered
  function;
- `Owned`: an instance with a hook has a living object of its class, which no other
  instance deletes and no cache keeps;
- `Matching`: the instances of tunes, files and readers have objects of their own
  class, so that an implementation finds the parts it follows;
- `Valued`: those parts have the class they need (the tracks of a tune, the tunes of
  an ABC reader, the pattern an MML reader writes to);
- `Caching`: what a cache keeps was asked for in this run, or in the one before;
- `Deletable`: an object of the script that was not lost has an instance with a hook;
- `Apart`: what a tune, a file or an ABC reader holds is alive, and no other object
  holds it, unless it was held when its owner was cloned (`copied`).

`LifetimesExplainedAlways` then says that every step to a deleted object has one of the
causes `Explained` lists: a dead object is followed only through a part, an instance
two runs old or a copied MML reader (`Owned`, `Caching`, `Valued`), and something is
deleted again only if it is in `copied` and held by what deletes it (`Apart`).

The proof has one step for each action, and for the reading of ABC, which makes,
fills and deletes several objects at once, one for each state it passes through.  TLC
checked `IInv` on the run before it was proved.

Two things came to light.  Two arms of a `CASE` in the model of `ABCReader::read`
overlapped, so that the value of a tune given to the script was not determined by the
definition (TLC took the first arm, which is what the code does); they are disjoint
now.  And the overloads of all functions are `WellFormed`, which the generator does
not check: an overload that was hidden by an earlier one could never be called.

### Only model-checked

- `RepositionCompletes`, `RestartLeadsToRun`, `FlushDeletes`, `DispatchReturns`,
  `ControllerAdded`, `CountInStarts` and `SilenceStops` rest on fairness, which the
  proof system does not reason about.
- `ReadsFaithful` relates the notes to the text through two recursive parsers; it is
  checked on all short plain texts.
- The three counterexamples.

## 5. Not modelled

Signal processing, the LV2 worker and state files, the beat detection of BTrack,
JACK beyond what is described, the parts of abcmidi named above, the compiler and
the virtual machine of Squirrel, and extensions.  `PROJECT.json` lists every part
with its reason.

## 6. Plan

Done: `Lifecycle`, `EventBuffer`, `Routing`; `Collector` with its abstract
specification; `Dispatch` with the allocator; `Mixing`; `Tempo`; the bindings and the
readers; proofs of the safety properties of all state machines, those named under
"Only model-checked" excepted.

Left: the lists of `tlsf.c` with their pointers, as an implementation of the
sequences in `Tlsf`.
