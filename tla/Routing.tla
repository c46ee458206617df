-------------------------------- MODULE Routing --------------------------------
(***************************************************************************)
(* The audio connection graph.  The script thread connects sources to the  *)
(* inputs of plugins, mixers and output ports while the process thread     *)
(* pulls audio through them: doProcess of a reader calls process of every  *)
(* source it is connected to, and processedUntil keeps a source from being *)
(* computed more than once in a period.                                    *)
(*                                                                         *)
(* Every source has one output.  The process thread's call stack is        *)
(* explicit: a frame is a doProcess that has not returned.  Once a thread  *)
(* has followed a bad pointer or run out of stack nothing more happens.    *)
(* JACK's frame time is a number that wraps, counted in buffers.           *)
(*                                                                         *)
(* Connections of events are left out: process() follows those of control  *)
(* connections and MIDI inputs too, and connectsTo does not look at them.  *)
(***************************************************************************)
EXTENDS Integers, Sequences, FiniteSets

CONSTANTS
    Ports,          \* AudioInputPorts, sources without inputs
    Plugins, Mixers,
    Sinks,          \* AudioOutputPorts, not sources
    InputCount,     \* audioInputCount of every reader
    None,           \* a null AudioConnection pointer
    StackDepth,     \* more nested calls than this overflow the stack
    TimeRange       \* the frame time wraps at this number of buffers (2^32 frames)

Sources == Ports \cup Plugins \cup Mixers
Readers == Plugins \cup Mixers \cup Sinks
Processors == Ports \cup Readers

ASSUME KindsAssumption ==
    /\ Ports \cap Readers = {} /\ Plugins \cap (Mixers \cup Sinks) = {}
    /\ Mixers \cap Sinks = {} /\ None \notin Processors
ASSUME NoneAssumption == None \notin [mixer : Mixers, index : Nat, source : Sources]
ASSUME InputsAssumption == InputCount \in [Readers -> Nat \ {0}]
ASSUME StackAssumption ==
    /\ IsFiniteSet(Processors)
    /\ StackDepth \in Nat /\ StackDepth > Cardinality(Processors)

ASSUME TimeAssumption == TimeRange \in Nat /\ TimeRange >= 2

VARIABLES
    audioInput,         \* the connection stored in every input
    connectedInputs,    \* of every mixer
    slot,               \* the mixer input being connected, or None
    due,                \* processors the engine has still to call in this period
    stack,              \* the process thread's calls of doProcess
    processedUntil,     \* the period each processor was computed in last
    time,               \* jack_last_frame_time of the period
    fault,              \* what brought the program down, or "none"
    computed,           \* those whose doProcess has ended in this period
    doubled,            \* one of them has been computed twice in this period
    looped,             \* the connections formed a loop during this period
    rewired,            \* a connection was replaced while a period was under way
    overlapped,         \* a mixer was connected to while it was processing
    failed,             \* a refused connection left a mixer's input counted
    wrapped             \* the frame time has come round to smaller numbers

graphVars == <<audioInput, connectedInputs, slot>>
markVars == <<processedUntil, time>>
pullVars == <<due, stack, markVars>>
historyVars == <<computed, doubled, looped, rewired, overlapped, failed, wrapped>>
vars == <<graphVars, pullVars, fault, historyVars>>

\* Mutant: a mixer looks at all its inputs, connected or not.
InputsOfAll(n) == IF n \in Ports THEN {} ELSE 1..InputCount[n]

\* The inputs that a reader looks at.
InputsOf(n) ==
    IF n \in Ports THEN {}
    ELSE IF n \in Mixers THEN 1..connectedInputs[n] ELSE 1..InputCount[n]

Upstream(n) == {audioInput[n][i] : i \in InputsOf(n)} \ {None}

\* The sources a walk from n along the inputs can meet: they are in every set that
\* has n and with each source also what it reads.
Walked(n) ==
    {m \in Sources : \A P \in SUBSET Sources :
        n \in P /\ (\A x \in P : Upstream(x) \subseteq P) => m \in P}

\* Each source of the set reads another one of it, and a walk can go on in it for ever.
Circle(P) == P # {} /\ \A n \in P : Upstream(n) \cap P # {}

Endless(n) == \E P \in SUBSET Walked(n) : Circle(P)
Cyclic == \E P \in SUBSET Sources : Circle(P)

Init ==
    /\ audioInput = [n \in Readers |-> [i \in 1..InputCount[n] |-> None]]
    /\ connectedInputs = [m \in Mixers |-> 0]
    /\ slot = None
    /\ due = {}
    /\ stack = <<>>
    /\ processedUntil = [n \in Processors |-> 0]
    /\ time \in 0..(TimeRange - 1)
    /\ fault = "none"
    /\ computed = {}
    /\ doubled = FALSE
    /\ looped = FALSE
    /\ rewired = FALSE
    /\ overlapped = FALSE
    /\ failed = FALSE
    /\ wrapped = FALSE

--------------------------------------------------------------------------------
(***************************************************************************)
(* Script thread.                                                          *)
(***************************************************************************)
\* What a source answers to connectsTo by itself: an input port says no, and the
\* other sources only pass on what theirs say.
OwnAnswer(n, source) == FALSE

ConnectsTo(n, source) == \E m \in Walked(n) : OwnAnswer(m, source)

\* A mixer's walk follows every counted input, without a look at the pointer.
MissingInput(n) ==
    \E m \in Walked(n) \cap Mixers : \E i \in InputsOf(m) : audioInput[m][i] = None

\* setConnection refuses a loop, if the walk that looks for one ends.
Refused(s, n) == s = n \/ ConnectsTo(s, n)

WalkFault(s, n) ==
    IF s # n /\ MissingInput(s) THEN "nullwalk"
    ELSE IF s # n /\ Endless(s) THEN "walk" ELSE "none"

Store(n, i, s) ==
    /\ audioInput' = [audioInput EXCEPT ![n][i] = s]
    /\ rewired' = (rewired \/ (stack # <<>> /\ audioInput[n][i] \notin {None, s}))

\* Plugin::connect on one channel; a refusal leaves everything as it was.
PluginConnect(p, i, s) ==
    /\ slot = None
    /\ fault' = WalkFault(s, p)
    /\ fault' = "none" => ~Refused(s, p)
    /\ IF fault' = "none" THEN Store(p, i, s) ELSE UNCHANGED <<audioInput, rewired>>
    /\ UNCHANGED <<connectedInputs, slot, pullVars, computed, doubled, overlapped, failed, wrapped>>
    /\ looped' = (looped \/ Cyclic')

\* AudioOutputPort::connect; no source can be reached through an output port.
SinkConnect(o, s) ==
    /\ slot = None
    /\ Store(o, 1, s)
    /\ UNCHANGED <<connectedInputs, slot, pullVars, fault, computed, doubled, looped,
                   overlapped, failed, wrapped>>

Processing(n) == \E k \in DOMAIN stack : stack[k].node = n

\* Mixer::connect counts the input first.
Claim(m, s) ==
    /\ connectedInputs' = [connectedInputs EXCEPT ![m] = @ + 1]
    /\ slot' = [mixer |-> m, index |-> connectedInputs[m] + 1, source |-> s]
    /\ overlapped' = (overlapped \/ Processing(m))
    /\ UNCHANGED <<audioInput, pullVars, computed, doubled, rewired, failed, wrapped>>
    /\ looped' = (looped \/ Cyclic')

MixerClaim(m, s) ==
    /\ slot = None
    /\ connectedInputs[m] < InputCount[m]
    /\ Claim(m, s)
    /\ UNCHANGED fault

\* The overload with an array of gains does not ask whether an input is left.
MixerClaimGains(m, s) ==
    /\ slot = None
    /\ \/ connectedInputs[m] < InputCount[m] /\ Claim(m, s) /\ UNCHANGED fault
       \/ /\ connectedInputs[m] = InputCount[m]
          /\ fault' = "slot"
          /\ UNCHANGED <<graphVars, pullVars, historyVars>>

\* Then it sets the connection; a refusal leaves the counted input as it was.  The
\* walk from the source may itself come to the input that is counted and still null.
MixerStore ==
    /\ slot # None
    /\ fault' = WalkFault(slot.source, slot.mixer)
    /\ \/ /\ fault' = "none"
          /\ ~Refused(slot.source, slot.mixer)
          /\ Store(slot.mixer, slot.index, slot.source)
          /\ slot' = None
          /\ UNCHANGED failed
       \/ /\ fault' = "none"
          /\ Refused(slot.source, slot.mixer)
          /\ failed' = TRUE
          /\ slot' = None
          /\ UNCHANGED <<audioInput, rewired>>
       \/ fault' # "none" /\ UNCHANGED <<audioInput, slot, rewired, failed>>
    /\ UNCHANGED <<connectedInputs, pullVars, computed, doubled, overlapped, wrapped>>
    /\ looped' = (looped \/ Cyclic')

--------------------------------------------------------------------------------
(***************************************************************************)
(* Process thread.                                                         *)
(***************************************************************************)
Idle == due = {} /\ stack = <<>>

\* The condition with which process() returns at once.
UpToDate == {n \in Processors : processedUntil[n] >= time}

\* Mixer::reposition: the inputs are not counted any more, the pointers stay.
Reposition ==
    /\ Idle
    /\ connectedInputs' = [m \in Mixers |-> 0]
    /\ failed' = FALSE
    /\ UNCHANGED <<audioInput, slot, pullVars, fault, computed, doubled, looped,
                   rewired, overlapped, wrapped>>

\* A period begins one buffer after the last one, or later after an xrun.  What is in
\* the engine's list by then depends on the additions and removals (see Lifecycle).
PeriodBegin ==
    /\ Idle
    /\ due' \in SUBSET Processors
    /\ \E buffers \in 1..(TimeRange - 1) :
          /\ time' = (time + buffers) % TimeRange
          /\ wrapped' = (wrapped \/ time + buffers >= TimeRange)
    /\ computed' = {}
    /\ doubled' = FALSE
    /\ looped' = Cyclic
    /\ rewired' = FALSE
    /\ overlapped' = FALSE
    /\ UNCHANGED <<graphVars, stack, processedUntil, fault, failed>>

\* doProcess of n begins; a mixer makes room for the inputs counted so far.
Frame(n) == [node |-> n, next |-> 1, mixing |-> FALSE, used |-> {},
             size |-> IF n \in Mixers THEN connectedInputs[n] ELSE 0]

\* process() of a processor that is not up to date.
Enter(frames, n) ==
    /\ stack' = Append(frames, Frame(n))
    /\ overlapped' = (overlapped \/ (slot # None /\ slot.mixer = n))

\* The engine calls process() of every processor in its list.
CallNext(n) ==
    /\ stack = <<>>
    /\ n \in due
    /\ due' = due \ {n}
    /\ \/ n \in UpToDate /\ UNCHANGED <<stack, overlapped>>
       \/ n \notin UpToDate /\ Enter(<<>>, n)
    /\ UNCHANGED <<graphVars, markVars, fault, computed, doubled, looped, rewired, failed, wrapped>>

Top == stack[Len(stack)]
InputsLeft == stack # <<>> /\ ~Top.mixing /\ Top.next \in InputsOf(Top.node)
NextSource == audioInput[Top.node][Top.next]

\* The calling frame with its next input taken care of.
Advanced(s) ==
    [stack EXCEPT ![Len(stack)] =
        [node |-> Top.node, next |-> Top.next + 1, mixing |-> FALSE,
         used |-> Top.used \cup ({s} \ {None}), size |-> Top.size]]

\* An unconnected input of a plugin or port reads the dummy buffer, or silence.
FetchNothing ==
    /\ InputsLeft
    /\ Top.node \notin Mixers
    /\ NextSource = None
    /\ stack' = Advanced(None)
    /\ UNCHANGED <<graphVars, due, markVars, fault, historyVars>>

\* A mixer follows the pointer and stores the buffer in an array of Top.size.
FetchFails ==
    /\ InputsLeft
    /\ Top.node \in Mixers
    /\ \/ NextSource = None /\ fault' = "null"
       \/ NextSource # None /\ Top.next > Top.size /\ fault' = "bounds"
    /\ UNCHANGED <<graphVars, pullVars, historyVars>>

FetchReady == InputsLeft /\ NextSource # None /\ (Top.node \in Mixers => Top.next <= Top.size)

\* The source is up to date in this period: its buffer is used.
FetchDone ==
    /\ FetchReady
    /\ NextSource \in UpToDate
    /\ stack' = Advanced(NextSource)
    /\ UNCHANGED <<graphVars, due, markVars, fault, historyVars>>

\* The source has to be processed first.
FetchCall ==
    /\ FetchReady
    /\ NextSource \notin UpToDate
    /\ IF Len(stack) < StackDepth
       THEN Enter(Advanced(NextSource), NextSource) /\ UNCHANGED fault
       ELSE fault' = "overflow" /\ UNCHANGED <<stack, overlapped>>
    /\ UNCHANGED <<graphVars, due, markVars, computed, doubled, looped, rewired, failed, wrapped>>

\* A mixer has all its inputs; connectedInputs is read again while it mixes.
BeginMixing ==
    /\ stack # <<>>
    /\ Top.node \in Mixers
    /\ ~Top.mixing
    /\ Top.next \notin InputsOf(Top.node)
    /\ stack' = [stack EXCEPT ![Len(stack)] = [Top EXCEPT !.mixing = TRUE]]
    /\ UNCHANGED <<graphVars, due, markVars, fault, historyVars>>

\* The frame that ends, and the mark it leaves.
RunMarking(until) ==
    /\ stack # <<>>
    /\ IF Top.node \in Mixers THEN Top.mixing ELSE Top.next \notin InputsOf(Top.node)
    /\ IF Top.node \in Mixers /\ Top.next <= connectedInputs[Top.node]
       THEN fault' = "bounds" /\ UNCHANGED <<stack, processedUntil, computed, doubled>>
       ELSE /\ stack' = SubSeq(stack, 1, Len(stack) - 1)
            /\ processedUntil' = [processedUntil EXCEPT ![Top.node] = until]
            /\ computed' = computed \cup {Top.node}
            /\ doubled' = (doubled \/ Top.node \in computed)
            /\ UNCHANGED fault
    /\ UNCHANGED <<graphVars, due, time, looped, rewired, overlapped, failed, wrapped>>

\* Mutant: processedUntil is left as it was.
RunUnmarked == RunMarking(processedUntil[Top.node])

\* Mutant: processedUntil is set to the end of the period, where the next one begins.
RunMarkingEnd == RunMarking((time + 1) % TimeRange)

\* doProcess ends and processedUntil is set.
Run == RunMarking(time)

--------------------------------------------------------------------------------
ScriptThread ==
    \/ \E p \in Plugins, s \in Sources : \E i \in 1..InputCount[p] : PluginConnect(p, i, s)
    \/ \E o \in Sinks, s \in Sources : SinkConnect(o, s)
    \/ \E m \in Mixers, s \in Sources : MixerClaim(m, s) \/ MixerClaimGains(m, s)
    \/ MixerStore

ProcessThread ==
    \/ Reposition \/ PeriodBegin
    \/ \E n \in Processors : CallNext(n)
    \/ FetchNothing \/ FetchFails \/ FetchDone \/ FetchCall \/ BeginMixing \/ Run

\* A program that has come down does nothing more.
Rest == fault # "none" /\ UNCHANGED vars

Next ==
    \/ fault = "none" /\ (ScriptThread \/ ProcessThread)
    \/ Rest

Spec == Init /\ [][Next]_vars

--------------------------------------------------------------------------------
\* Every variable keeps its type.
TypeOK ==
    /\ DOMAIN audioInput = Readers
    /\ \A n \in Readers : audioInput[n] \in [1..InputCount[n] -> Sources \cup {None}]
    /\ connectedInputs \in [Mixers -> Nat]
    /\ \A m \in Mixers : connectedInputs[m] <= InputCount[m]
    /\ slot = None \/ slot \in [mixer : Mixers, index : Nat, source : Sources]
    /\ due \subseteq Processors
    /\ processedUntil \in [Processors -> 0..(TimeRange - 1)]
    /\ time \in 0..(TimeRange - 1)
    /\ computed \subseteq Processors
    /\ stack \in Seq([node : Processors, next : Nat \ {0}, size : Nat,
                     mixing : BOOLEAN, used : SUBSET Sources])
    /\ Len(stack) <= StackDepth
    /\ fault \in {"none", "null", "nullwalk", "bounds", "slot", "walk", "overflow"}
    /\ {doubled, looped, rewired, overlapped, failed, wrapped} \subseteq BOOLEAN

\* Whatever a reader has taken a buffer from was computed in this very period, or is
\* being computed by the call under way, however the script changes the connections
\* meanwhile (Processor::process, Plugin::doProcess, Mixer::doProcess): a mark left by
\* an earlier period, or the 0 of a processor never computed, is older than the time.
\* That ends when the 32 bits of the frame time come round: the marks are ahead then.
FreshInputs ==
    wrapped \/ \A k \in DOMAIN stack :
        stack[k].used \ {stack[j].node : j \in {k + 1} \cap DOMAIN stack} \subseteq computed

\* A processor is computed at most once in a period and the calls do not nest without
\* end, unless the connections form a loop or one is replaced during the period.
OncePerPeriod == doubled \/ fault = "overflow" => looped \/ rewired

\* A mixer follows a null input, or reads beyond its array of buffers, only when the
\* script connects to it while it is processing or a refused connection was counted.
\* The walk of connectsTo follows one only in the latter case, or when it comes back to
\* the mixer that is being connected, whose input has been counted first.
MixerInputsComplete ==
    /\ fault \in {"null", "bounds"} => overlapped \/ failed
    /\ fault = "nullwalk" => failed \/ (slot # None /\ slot.mixer \in Walked(slot.source))

\* As setConnection says when it throws, "Cannot connect infinite loop".
NoLoop == ~Cyclic
================================================================================
