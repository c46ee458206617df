--------------------------------- MODULE Api ---------------------------------
(***************************************************************************)
(* The scripting API: Squirrel instances of the classes the bindings       *)
(* register, the C++ objects behind them, and the calls a script makes.    *)
(*                                                                         *)
(* A behaviour follows one class (or one package of static functions): the *)
(* script makes instances of it, calls its methods with arguments of any   *)
(* kind and number, clones and drops instances, keeps some of them from    *)
(* one run of the script to the next, and is started again.  Everything    *)
(* here happens on the script's thread; what the implementation of a call  *)
(* does elsewhere (ports, connections, events, transport) is the subject   *)
(* of the other modules, and here such a call only returns or throws.      *)
(***************************************************************************)
EXTENDS BindCommon, Readers

CONSTANTS
    Class,          \* the classes the bindings register, by typetag
    Package,        \* the static functions they register, by package
    Pushed,         \* what they make for the parameter of a handler
    Followed,       \* the classes and packages whose behaviours are explored
    Slots,          \* the variables of the script that may hold an instance
    Bound,          \* for each of these, the instances held at a time (held), the C++ objects ever
                    \* made (objects) and the times the script is started again (runs)
    OtherKinds,     \* classes whose instances are passed, and methods called, where others belong
    Pitches,        \* pitches the script gives to notes
    Amounts,        \* amounts it transposes by
    MaxNotes,       \* bound: notes of a pattern the script adds to
    MMLTexts, ABCTexts, DrumTexts,  \* texts given to the readers at any time; an ABC text that
                    \* changes its meter has no chords
    MMLStudies, ABCStudies,         \* bound: texts only given to a new reader, as the script's last act
    TimeBases,      \* bound: the time signatures that read() may find in the transport
    abcmidi(_, _, _, _),            \* abcmidi as a function of its globals, the method that called it, the
                    \* transport's time signature and the text: the calls it makes back, its globals
                    \* then, and how many tunes it wrote before the end of the text
    Untouched                       \* its globals before the first text

VARIABLES
    class,      \* the class or package this behaviour follows
    slots,      \* the instances the script holds
    objects,    \* the C++ objects
    frame,      \* the native call under way
    phase,      \* "script", "waiting" (for a restart), "studied" (after a study), "closed"
    run,        \* the number of scriptComplete() so far
    refs,       \* references sq_addref took for calls that were then refused (bound: 1)
    left,       \* what abcmidi still has from the last text: its globals, and whether a tune is open
    copied,     \* what objects held when they were cloned, and the MML readers that were (history)
    fault       \* undefined behaviour that was reached, or "none"

vars == <<class, slots, objects, frame, phase, run, refs, left, copied, fault>>

-----------------------------------------------------------------------------
(***************************************************************************)
(* What the bindings register.                                             *)
(***************************************************************************)
Packages == {"Midi", "System", "Transport"}

Members(t) ==
    IF t \in Packages THEN DOMAIN Package[t] ELSE (DOMAIN Class[t].methods) \cup {"constructor"}

NativeOf(t, m) ==
    IF t \in Packages THEN Package[t][m]
    ELSE IF m = "constructor" THEN Class[t].constructor ELSE Class[t].methods[m]

(***************************************************************************)
(* Objects of these classes have parts of their own, or lists of other     *)
(* objects; the inner ones are not the script's.                           *)
(***************************************************************************)
Inner == {"buffer", "tracks", "tune", "reader"}
Holders == {"Midi.Tune", "IO.File", "Midi.MMLReader", "Midi.ABCReader", "reader"}

ASSUME NamesAssumption ==
    /\ Followed \subseteq (DOMAIN Class) \cup Packages
    /\ OtherKinds \subseteq DOMAIN Class
    /\ (DOMAIN Class) \cap (Packages \cup Inner \cup {"none", NoHook}) = {}
    /\ \A t \in Followed : Bound[t].objects \in Nat
    /\ "Midi" \in Followed => Bound["Midi"].objects > 0

ASSUME FormsAssumption ==
    /\ \A t \in DOMAIN Class :
          /\ WellFormed(Class[t].constructor.forms) /\ Class[t].constructor.kind = "constructor"
          /\ \A m \in DOMAIN Class[t].methods :
                /\ m # "constructor" /\ Class[t].methods[m].kind = "method"
                /\ WellFormed(Class[t].methods[m].forms)
    /\ \A t \in Packages : \A m \in DOMAIN Package[t] :
          Package[t][m].kind = "static" /\ WellFormed(Package[t][m].forms)

(***************************************************************************)
(* A hook deletes objects of the class of its instance, and the instances  *)
(* of a class that anything but the constructor hooks are hooked by the    *)
(* constructor as well.                                                    *)
(***************************************************************************)
Hookable(t) == t \in DOMAIN Class /\ Class[t].constructor.hook = t

ASSUME HooksAssumption ==
    /\ \A t \in DOMAIN Class :
          /\ Class[t].constructor.hook \in {NoHook, t}
          /\ Class[t].cloned.clones => Hookable(t) /\ Class[t].cloned.hook = t
    /\ \A p \in Pushed : Hookable(p.of) /\ p.of \notin Holders /\ p.hook = p.of
    /\ \A t \in {"Midi.Pattern", "Midi.Tune", "Transport.TimeSignature"} : Hookable(t)
    /\ \A t \in {"Midi.MMLReader", "Midi.DrumTabReader", "Midi.ABCReader"} :
          Class[t].methods["read"].gives.hook = "Midi.Pattern"
    /\ Class["Midi.ABCReader"].methods["readTune"].gives.hook = "Midi.Tune"
    /\ Class["Midi.Tune"].methods["timeSignature"].gives.hook = "Transport.TimeSignature"
    /\ \A m \in DOMAIN Package["Midi"] :
          m # "readTune" /\ Package["Midi"][m].gives.hook = "Midi.Pattern"

(***************************************************************************)
(* The methods that return a part of their object: of a class without      *)
(* hooks, but for the notes of a pattern and the tracks of a tune.         *)
(***************************************************************************)
PartGiver(native) == native.gives.instance /\ native.gives.hook = NoHook

ASSUME PartsAssumption ==
    \A t \in DOMAIN Class :
        /\ ~PartGiver(Class[t].constructor)
        /\ \A m \in DOMAIN Class[t].methods :
              PartGiver(Class[t].methods[m]) =>
                  /\ Class[t].methods[m].gives.of \in (DOMAIN Class) \ Holders
                  /\ t \in Holders <=> m = "track"
                  /\ m = "track" => t = "Midi.Tune"
                  /\ m \notin {"note", "track"} => Class[t].constructor.hook = NoHook

(***************************************************************************)
(* The arguments of a call: what some overload takes, cut short, one too   *)
(* many, or with one argument of any kind in place of another.             *)
(***************************************************************************)
Kinds == {"null", "bool", "integer", "float", "string", "array", "table", "function", "empty"}
           \cup OtherKinds

Fitting(form) == [i \in DOMAIN form.takes |-> CHOOSE k \in form.takes[i].accepts : TRUE]

Lists(native) ==
    UNION {LET a == Fitting(native.forms[f])
           IN  {SubSeq(a, 1, n) : n \in 0..Len(a)}
                 \cup {Append(a, "integer")}
                 \cup {[a EXCEPT ![i] = k] : i \in DOMAIN a, k \in Kinds}
          : f \in DOMAIN native.forms}

ArgLists == [t \in Followed |-> [m \in Members(t) |-> Lists(NativeOf(t, m))]]

FittingLists(native) == {Fitting(native.forms[f]) : f \in DOMAIN native.forms}

StaleKinds(native, args) ==
    IF \E f \in DOMAIN native.forms :
          native.forms[f].test = "kind" /\ native.forms[f].at > Len(args)
    THEN Kinds ELSE {"null"}

-----------------------------------------------------------------------------
(***************************************************************************)
(* Instances and objects.  An instance without an object has not been      *)
(* constructed.  `path' leads from the object to the part of it that an    *)
(* instance stands for: a note of a pattern, a track of a tune.            *)
(***************************************************************************)
NoInstance == [cls |-> "none", obj |-> 0, path |-> << >>, hook |-> NoHook, run |-> 0]
NewInstance(t) == [NoInstance EXCEPT !.cls = t]
Owner(t, o, hook) == [NoInstance EXCEPT !.cls = t, !.obj = o, !.hook = hook]

Unused == [cls |-> "none", live |-> FALSE, cached |-> FALSE, wanted |-> FALSE, lost |-> FALSE,
           val |-> << >>]
Object(t, v) == [Unused EXCEPT !.cls = t, !.live = TRUE, !.val = v]
Dead(o) == [Unused EXCEPT !.cls = o.cls, !.cached = o.cached]

NoRead == [text |-> << >>, calls |-> << >>, clean |-> FALSE, made |-> 0]
NoFrame == [cls |-> "none", method |-> "none", native |-> Uninstantiable, this |-> 0, args |-> << >>, verdict |-> "none",
            read |-> NoRead]

Idle == frame.verdict = "none" /\ fault = "none" /\ phase \in {"script", "waiting"}
Occupied == {s \in Slots : slots[s] # NoInstance}
FreeSlots == IF Cardinality(Occupied) < Bound[class].held THEN Slots \ Occupied ELSE {}
UnusedObjects == {o \in DOMAIN objects : objects[o].cls = "none"}
Room(n) == Cardinality(UnusedObjects) >= n
Fresh(n) == CHOOSE o \in UnusedObjects : Cardinality({p \in UnusedObjects : p < o}) = n - 1

Part(v, path) ==
    CASE Len(path) = 0 -> v
      [] Len(path) = 1 -> v[path[1]]
      [] OTHER -> v[path[1]][path[2]]

Replace(v, path, new) ==
    CASE Len(path) = 0 -> new
      [] Len(path) = 1 -> [v EXCEPT ![path[1]] = new]
      [] OTHER -> [v EXCEPT ![path[1]][path[2]] = new]

(***************************************************************************)
(* What an ABC reader has at first.  Midi.abc has one of its own, which is *)
(* never deleted.                                                          *)
(***************************************************************************)
NewReader == [meter |-> CommonTime, tunes |-> << >>]
StaticReader == 1
NothingLeft == [globals |-> Untouched, open |-> FALSE]

Init ==
    /\ class \in Followed
    /\ slots = [s \in Slots |-> NoInstance]
    /\ objects = [o \in 1..Bound[class].objects |->
                     IF class = "Midi" /\ o = StaticReader THEN Object("reader", NewReader) ELSE Unused]
    /\ frame = NoFrame
    /\ phase = "script"
    /\ run = 0
    /\ refs = 0
    /\ left = NothingLeft
    /\ copied = {}
    /\ fault = "none"

(***************************************************************************)
(* Deleting an object.  A tune deletes its tracks and a file its buffer;   *)
(* when a copy already has, they are deleted twice.                        *)
(***************************************************************************)
PartsOf(o) == IF o.live /\ o.cls \in {"Midi.Tune", "IO.File"} THEN {o.val} \ {0} ELSE {}

TunesOf(o) ==
    IF o.live /\ o.cls \in {"Midi.ABCReader", "reader"}
    THEN {o.val.tunes[n] : n \in DOMAIN o.val.tunes} ELSE {}

Deleted(gone) ==
    LET all == gone \cup UNION {PartsOf(objects[o]) : o \in gone}
    IN  [o \in DOMAIN objects |-> IF o \in all THEN Dead(objects[o]) ELSE objects[o]]

DeletedTwice(gone) ==
    \/ \E o \in gone : ~objects[o].live
    \/ \E o \in gone : \E p \in PartsOf(objects[o]) :
          ~objects[p].live \/ \E q \in gone \ {o} : p \in PartsOf(objects[q])

(***************************************************************************)
(* The release hooks of the instances in a set of slots.                   *)
(***************************************************************************)
Hooked(S) == {slots[s].obj : s \in {r \in S : slots[r].hook # NoHook}}

Release(S) ==
    /\ objects' = Deleted(Hooked(S))
    /\ fault' = IF DeletedTwice(Hooked(S)) THEN "double delete" ELSE "none"

-----------------------------------------------------------------------------
(***************************************************************************)
(* The script makes an instance.  Its constructor is a call of its own:    *)
(* the class of the instance may be derived from the registered one and    *)
(* never call it, or call it twice.                                        *)
(***************************************************************************)
CreateInstance(s) ==
    /\ Idle /\ s \in FreeSlots /\ class \notin Packages
    /\ slots' = [slots EXCEPT ![s] = NewInstance(class)]
    /\ UNCHANGED <<class, objects, frame, phase, run, refs, left, copied, fault>>

(***************************************************************************)
(* The last reference to an instance goes.                                 *)
(***************************************************************************)
DropInstance(s) ==
    /\ Idle /\ s \in Occupied
    /\ Release({s})
    /\ slots' = [slots EXCEPT ![s] = NoInstance]
    /\ UNCHANGED <<class, frame, phase, run, refs, left, copied>>

\* Mutant: the clone takes the pointer of the original.
CloneShares(s, t) ==
    /\ Idle /\ s \in Occupied /\ t \in FreeSlots /\ slots[s].obj # 0
    /\ Class[slots[s].cls].cloned.clones
    /\ slots' = [slots EXCEPT ![t] = slots[s]]
    /\ UNCHANGED <<class, objects, frame, phase, run, refs, left, copied, fault>>

(***************************************************************************)
(* What an object and its copy have in common: the objects that the one    *)
(* holds and, of an MML reader, itself, for its parser calls it.           *)
(***************************************************************************)
Shared(o) ==
    PartsOf(objects[o]) \cup TunesOf(objects[o])
        \cup {p \in {o} : objects[o].cls = "Midi.MMLReader"}

(***************************************************************************)
(* clone: SQInstance::Clone leaves the user pointer and the hook of the    *)
(* copy empty, then the _cloned metamethod of the class sets both, from    *)
(* the copy constructor of the object.  It does not look whether there is  *)
(* an object.                                                              *)
(***************************************************************************)
CloneInstance(s, t) ==
    LET i == slots[s] IN
    /\ Idle /\ s \in Occupied /\ t \in FreeSlots
    /\ Class[i.cls].cloned.clones
    /\ \/ /\ i.obj = 0
          /\ fault' = "null clone"
          /\ UNCHANGED <<slots, objects, copied>>
       \/ /\ i.obj # 0 /\ ~objects[i.obj].live
          /\ fault' = "dangling"
          /\ UNCHANGED <<slots, objects, copied>>
       \/ /\ i.obj # 0 /\ objects[i.obj].live /\ Room(1)
          /\ objects' = [objects EXCEPT ![Fresh(1)] =
                            Object(i.cls, Part(objects[i.obj].val, i.path))]
          /\ slots' = [slots EXCEPT ![t] = Owner(i.cls, Fresh(1), Class[i.cls].cloned.hook)]
          /\ copied' = copied \cup Shared(i.obj)
          /\ UNCHANGED fault
    /\ UNCHANGED <<class, frame, phase, run, refs, left>>

CloneRefused(s) ==
    /\ Idle /\ s \in Occupied /\ ~Class[slots[s].cls].cloned.clones
    /\ UNCHANGED vars

(***************************************************************************)
(* A handler is called with a parameter of the class.                      *)
(***************************************************************************)
PushParameter(s) ==
    \E p \in Pushed :
        /\ Idle /\ phase = "waiting" /\ class = p.of /\ s \in FreeSlots /\ Room(1)
        /\ objects' = [objects EXCEPT ![Fresh(1)] = Object(class, << >>)]
        /\ slots' = [slots EXCEPT ![s] = Owner(class, Fresh(1), p.hook)]
        /\ UNCHANGED <<class, frame, phase, run, refs, left, copied, fault>>

-----------------------------------------------------------------------------
(***************************************************************************)
(* A call, up to the implementation.  The method may be that of another    *)
(* class than the instance's (though not its constructor): `this' is not   *)
(* checked for its type.                                                   *)
(***************************************************************************)
ThisKind(s, t) ==
    IF t \in Packages THEN "table"
    ELSE IF slots[s].obj = 0 THEN "empty"
    ELSE IF slots[s].cls = t THEN "instance" ELSE "other"

(***************************************************************************)
(* Bound: what a call comes to depends on `this' and its arguments alone,  *)
(* so calls that do not fit and methods of other classes are only tried    *)
(* before the script has made a second object.                             *)
(***************************************************************************)
Early == run = 0 /\ Cardinality(Occupied) <= 1 /\ Room(Bound[class].objects - 1)

Callable(s) ==
    IF s = 0 THEN {class} \cap Packages
    ELSE {class} \cup {t \in {slots[s].cls} : slots[s].path # << >>}
                 \cup {t \in OtherKinds : Early}

Call(s, t) ==
    /\ \E m \in Members(t) \ {n \in {"constructor"} : s # 0 /\ t # slots[s].cls} :
       \E native \in {NativeOf(t, m)} :
       \E args \in IF Early /\ t = class THEN ArgLists[t][m] ELSE FittingLists(native) :
       \E stale \in StaleKinds(native, args) :
       \E v \in Verdicts(native, args, ThisKind(s, t), stale) :
          /\ frame' = [cls |-> t, method |-> m, native |-> native, this |-> s, args |-> args,
                       verdict |-> v, read |-> NoRead]
          /\ refs' = IF v = "refused"
                     THEN Max({refs, Referenced(native, args, ThisKind(s, t))}) ELSE refs
    /\ UNCHANGED <<class, slots, objects, phase, run, left, copied, fault>>

(***************************************************************************)
(* The call is refused, or what it returned has been taken.                *)
(***************************************************************************)
Return ==
    /\ fault = "none" /\ frame.verdict \in {"refused", "returned", "threw"}
    /\ frame' = NoFrame
    /\ UNCHANGED <<class, slots, objects, phase, run, refs, left, copied, fault>>

-----------------------------------------------------------------------------
(***************************************************************************)
(* The implementations.                                                    *)
(***************************************************************************)
It == slots[frame.this]
Its == Part(objects[It.obj].val, It.path)

(***************************************************************************)
(* The implementation is reached with pointers it can follow.              *)
(***************************************************************************)
Followable ==
    /\ frame.cls \notin Packages /\ It.cls = frame.cls
    /\ frame.method # "constructor" => objects[It.obj].live

Served == fault = "none" /\ frame.verdict = "reached" /\ Followable

Reached(t, m) == Served /\ frame.cls = t /\ frame.method = m

Finished ==
    /\ frame' = NoFrame
    /\ UNCHANGED <<class, phase, run, refs, copied>>

Done == Finished /\ UNCHANGED left

Throw == Done /\ UNCHANGED <<slots, objects, fault>>

Undefined ==
    /\ fault = "none"
    /\ \/ frame.verdict = "garbage"
       \/ frame.verdict = "reached" /\ frame.cls \notin Packages /\ ~Followable
    /\ fault' = IF frame.verdict = "garbage" THEN "garbage"
                ELSE IF It.cls # frame.cls THEN "confused" ELSE "dangling"
    /\ Done /\ UNCHANGED <<slots, objects>>

(***************************************************************************)
(* Constructors.  Those of the objects the caches keep look for an object  *)
(* with the same name before they make one.  A second call overwrites the  *)
(* user pointer: an object the instance owned is then never deleted.       *)
(***************************************************************************)
MayThrow == {"Audio.Mixer", "Audio.OnsetDetector", "Audio.SystemOut", "Audio.SystemIn",
             "Audio.StereoIn", "Audio.StereoOut", "Audio.BeatTracker", "Lv2.Plugin", "Lv2.State",
             "Midi.SystemIn", "Midi.SystemOut", "Midi.Note", "Midi.BeatTracker", "Osc.Input",
             "Osc.Output", "Transport.Master", "Transport.Position"}

Cached == frame.native.hook = NoHook

Constructed(o) ==
    slots' = [slots EXCEPT ![frame.this] =
                [@ EXCEPT !.obj = o, !.path = << >>, !.hook = frame.native.hook,
                          !.run = IF Cached THEN run ELSE 0]]

Lose(objs) ==
    IF It.hook # NoHook THEN [objs EXCEPT ![It.obj].lost = TRUE] ELSE objs

NewValues(t) ==
    CASE t = "Midi.Note" -> {[pitch |-> p] : p \in Pitches}
      [] t = "Midi.Tune" -> {Fresh(2)}
      [] t = "IO.File" -> {0}
      [] t = "Midi.MMLReader" -> {[self |-> Fresh(1), chord |-> << >>, out |-> 0]}
      [] t = "Midi.ABCReader" -> {NewReader}
      [] OTHER -> {<< >>}

Made(t, v) == [Object(t, v) EXCEPT !.cached = Cached, !.wanted = Cached]

Construct ==
    LET t == frame.cls IN
    /\ Served /\ frame.method = "constructor"
    /\ \/ t \in MayThrow /\ Throw
       \/ /\ Room(2)
          /\ \E v \in NewValues(t) :
                objects' = IF t = "Midi.Tune"
                           THEN Lose([objects EXCEPT ![Fresh(1)] = Made(t, v),
                                                     ![v] = Object("tracks", <<<< >>>>)])
                           ELSE Lose([objects EXCEPT ![Fresh(1)] = Made(t, v)])
          /\ Constructed(Fresh(1))
          /\ Done /\ UNCHANGED fault
       \/ /\ Cached
          /\ \E o \in DOMAIN objects :
                /\ objects[o].cls = t /\ objects[o].live
                /\ objects' = [objects EXCEPT ![o].wanted = TRUE]
                /\ Constructed(o)
          /\ Done /\ UNCHANGED fault

(***************************************************************************)
(* Note::transpose and Pattern::transpose: the notes of a pattern are      *)
(* transposed one after the other, and stay so when a later one throws.    *)
(***************************************************************************)
Transposes(pitch, amount) == pitch + amount \in 0..127

SetPart(v) == objects' = [objects EXCEPT ![It.obj].val = Replace(@, It.path, v)]

NoteTranspose ==
    /\ Reached("Midi.Note", "transpose")
    /\ \E a \in Amounts :
        IF Transposes(Its.pitch, a) THEN SetPart([Its EXCEPT !.pitch = @ + a])
        ELSE UNCHANGED objects
    /\ Done /\ UNCHANGED <<slots, fault>>

TransposedNotes(notes, a) ==
    LET stuck == {i \in DOMAIN notes : ~Transposes(notes[i].pitch, a)}
    IN  [i \in DOMAIN notes |-> IF \E j \in stuck : j <= i THEN notes[i]
                                ELSE [notes[i] EXCEPT !.pitch = @ + a]]

PatternTranspose ==
    /\ Reached("Midi.Pattern", "transpose")
    /\ \E a \in Amounts : SetPart(TransposedNotes(Its, a))
    /\ Done /\ UNCHANGED <<slots, fault>>

(***************************************************************************)
(* Pattern::addNote copies the note to the end, or throws when the         *)
(* position is refused.                                                    *)
(***************************************************************************)
PatternAdd ==
    /\ Reached("Midi.Pattern", "add")
    /\ \/ /\ Len(Its) < MaxNotes
          /\ \E p \in Pitches :
                SetPart(Append(Its, Note(p, FirstPosition, NewDuration(0, 1, 4))))
          /\ Done /\ UNCHANGED <<slots, fault>>
       \/ Throw

(***************************************************************************)
(* Methods that return a part of their object, without a hook: the outputs *)
(* of a source, a note of a pattern, a track of a tune.  The last two      *)
(* check the index, that of a track against a number the tune keeps beside *)
(* the array, which may be gone with a copy of the tune.  A result nobody  *)
(* takes is dropped at once.                                               *)
(***************************************************************************)
Gives == frame.native.gives
GivesPart == PartGiver(frame.native)

Given(i) ==
    \/ UNCHANGED slots
    \/ \E s \in FreeSlots : slots' = [slots EXCEPT ![s] = i]

PartIndexes ==
    CASE frame.method = "note" -> 1..Len(Its)
      [] frame.method = "track" -> IF objects[Its].live THEN DOMAIN objects[Its].val ELSE {1}
      [] OTHER -> {1}

TakePart ==
    /\ Served /\ GivesPart
    /\ \/ Throw
       \/ /\ \E i \in PartIndexes :
               Given([cls |-> Gives.of, hook |-> NoHook, run |-> It.run,
                      obj |-> IF frame.method = "track" THEN Its ELSE It.obj,
                      path |-> IF frame.method \in {"note", "track"} THEN Append(It.path, i)
                               ELSE It.path])
          /\ Done /\ UNCHANGED <<objects, fault>>

(***************************************************************************)
(* Tune::getTimeSignature returns a copy the caller owns.                  *)
(***************************************************************************)
TuneTimeSignature ==
    /\ Reached("Midi.Tune", "timeSignature") /\ Room(1)
    /\ \E s \in FreeSlots :
          /\ objects' = [objects EXCEPT ![Fresh(1)] = Object("Transport.TimeSignature", << >>)]
          /\ slots' = [slots EXCEPT ![s] = Owner("Transport.TimeSignature", Fresh(1),
                                              Gives.hook)]
    /\ Done /\ UNCHANGED fault

(***************************************************************************)
(* File::readAll frees the buffer of the last call and keeps a new one.    *)
(***************************************************************************)
FileReadAll ==
    /\ Reached("IO.File", "readAll")
    /\ \/ Throw
       \/ /\ Room(1)
          /\ IF Its # 0 /\ ~objects[Its].live
             THEN fault' = "double delete" /\ UNCHANGED objects
             ELSE /\ objects' = [o \in DOMAIN objects |->
                        IF o = It.obj THEN [objects[o] EXCEPT !.val = Fresh(1)]
                        ELSE IF o = Fresh(1) THEN Object("buffer", << >>)
                        ELSE IF o = Its THEN Dead(objects[o])
                        ELSE objects[o]]
                  /\ UNCHANGED fault
          /\ Done /\ UNCHANGED slots

(***************************************************************************)
(* osc::Message::add appends a parameter; arg(i) does not check its index. *)
(***************************************************************************)
MessageAdd ==
    /\ Reached("Osc.Message", "add")
    /\ Len(Its) < MaxNotes
    /\ SetPart(Append(Its, "parameter"))
    /\ Done /\ UNCHANGED <<slots, fault>>

MessageArg ==
    /\ Reached("Osc.Message", "arg")
    /\ \E i \in 0..MaxNotes :
          fault' = IF i < Len(Its) THEN "none" ELSE "index"
    /\ Done /\ UNCHANGED <<slots, objects>>

-----------------------------------------------------------------------------
(***************************************************************************)
(* The readers.  A read makes a pattern the script owns; `frame.read'      *)
(* keeps what was read until the script has taken it, the calls that the   *)
(* parser made for it, and whether the reader had nothing left over from   *)
(* earlier reads.                                                          *)
(***************************************************************************)
ReadEnds(verdict, text, calls, texts, clean, o) ==
    /\ frame' = [frame EXCEPT !.verdict = verdict,
                              !.read = [text |-> text, calls |-> calls, clean |-> clean, made |-> o]]
    /\ phase' = IF text \in texts THEN phase ELSE "studied"
    /\ UNCHANGED <<class, run, refs, copied>>

ReadReturns(text, calls, texts, clean, o) ==
    /\ ReadEnds("returned", text, calls, texts, clean, o)
    /\ \E s \in FreeSlots : slots' = [slots EXCEPT ![s] = Owner(objects'[o].cls, o, Gives.hook)]

(***************************************************************************)
(* DrumTabReader::read.                                                    *)
(***************************************************************************)
DrumTabRead ==
    /\ Reached("Midi.DrumTabReader", "read") /\ Room(1) /\ FreeSlots # {}
    /\ \E text \in DrumTexts :
          /\ objects' = [objects EXCEPT ![Fresh(1)] = Object("Midi.Pattern", DrumRead(text))]
          /\ ReadReturns(text, << >>, DrumTexts, TRUE, Fresh(1))
    /\ UNCHANGED <<left, fault>>

(***************************************************************************)
(* MMLReader::read makes the pattern it returns, but the notes come to the *)
(* reader the parser was set up with: a clone's parser still calls the     *)
(* original, which adds them to the pattern of its own last read.          *)
(***************************************************************************)
MMLReaderRead ==
    /\ Reached("Midi.MMLReader", "read") /\ Room(1) /\ FreeSlots # {}
    /\ \E text \in MMLTexts \cup (IF Early THEN MMLStudies ELSE {}) :
       \E calls \in {MMLCalls(text)} :
        LET self == Its.self
            to == IF self = It.obj THEN Fresh(1) ELSE objects[self].val.out
            read == MMLRead(objects[self].val.chord, calls)
            adds == read.notes # << >>
            sound == objects[self].live /\ (adds => to # 0)
                        /\ (adds /\ to # Fresh(1) => objects[to].live)
        IN  IF ~sound
            THEN /\ fault' = "dangling"
                 /\ Done /\ UNCHANGED <<slots, objects>>
            ELSE /\ objects' = [o \in DOMAIN objects |->
                        CASE o = It.obj /\ o = self ->
                                [objects[o] EXCEPT !.val.out = Fresh(1), !.val.chord = read.chord]
                          [] o = It.obj /\ o # self -> [objects[o] EXCEPT !.val.out = Fresh(1)]
                          [] o = self /\ o # It.obj -> [objects[o] EXCEPT !.val.chord = read.chord]
                          [] o = Fresh(1) ->
                                Object("Midi.Pattern", IF to = o THEN read.notes ELSE << >>)
                          [] o = to /\ o # Fresh(1) -> [objects[o] EXCEPT !.val = @ \o read.notes]
                          [] OTHER -> objects[o]]
                 /\ ReadReturns(text, calls, MMLTexts, self = It.obj /\ Its.chord = << >>, Fresh(1))
                 /\ UNCHANGED <<left, fault>>

(***************************************************************************)
(* ABCReader::read and readTune, and Midi.abc.  The tunes of a text that   *)
(* failed stay in the reader, and the next text that is read deletes all   *)
(* but the oldest, of which read() copies a track before it deletes it     *)
(* too, and which readTune() returns.  A copy of the reader shares them.   *)
(***************************************************************************)
ABCReader == IF frame.cls = "Midi" THEN StaticReader ELSE It.obj
Kept == objects[ABCReader].val

Keeps(parsed) ==
    [o \in DOMAIN objects |->
        IF \E n \in 1..Len(parsed.tunes) : o = Fresh(n)
        THEN Object("tune", parsed.tunes[CHOOSE n \in 1..Len(parsed.tunes) : o = Fresh(n)])
        ELSE objects[o]]

ABCGives(kept, tunes, made) ==
    LET spared == IF frame.method = "readTune" THEN {tunes[1]} ELSE {}
        deleted == {tunes[n] : n \in DOMAIN tunes} \ spared
    IN  [o \in DOMAIN objects |->
           CASE o = ABCReader -> [kept[o] EXCEPT !.val.tunes = << >>]
             [] o = made -> IF frame.method = "readTune"
                            THEN Object("Midi.Tune", tunes[1])
                            ELSE Object("Midi.Pattern", ReadTrack(kept[tunes[1]].val))
             [] OTHER -> IF o \in deleted THEN Dead(kept[o]) ELSE kept[o]]

Clean ==
    /\ Kept = NewReader
    /\ left.globals.tuple.count = 0 /\ left.globals.chord.notes = 0

ABCReturns(text, calls, parsed, tunes, kept, next) ==
    \/ /\ ABCFails(parsed)
       /\ objects' = kept
       /\ ReadEnds("threw", text, calls, ABCTexts, Clean, 0) /\ UNCHANGED <<slots, fault>>
    \/ /\ ~ABCFails(parsed) /\ tunes = << >>
       /\ fault' = "index" /\ Finished /\ UNCHANGED <<slots, objects>>
    \/ /\ ~ABCFails(parsed) /\ \E n \in DOMAIN tunes : ~kept[tunes[n]].live
       /\ fault' = "double delete" /\ Finished /\ UNCHANGED <<slots, objects>>
    \/ /\ ~ABCFails(parsed) /\ tunes # << >> /\ \A n \in DOMAIN tunes : kept[tunes[n]].live
       /\ objects' = ABCGives(kept, tunes, Fresh(next))
       /\ ReadReturns(text, calls, ABCTexts, Clean, Fresh(next))
       /\ UNCHANGED fault

ABCRead(text, calls, parsed) ==
    \E tunes \in {Kept.tunes \o [n \in 1..Len(parsed.tunes) |-> Fresh(n)]} :
    \E kept \in {[Keeps(parsed) EXCEPT ![ABCReader].val = [meter |-> parsed.meter, tunes |-> tunes]]} :
        ABCReturns(text, calls, parsed, tunes, kept, Len(parsed.tunes) + 1)

(***************************************************************************)
(* When an exception leaves abcmidi while it writes a tune before the end  *)
(* of its text, that tune stays open, and the next text that any reader    *)
(* reads writes it again from an array that is not filled.                 *)
(***************************************************************************)
ReadABC(text) ==
    \E time \in TimeBases :
    \E result \in {abcmidi(left.globals, frame.method, time, text)} :
    \E parsed \in {ABCParse(Kept.meter, result.calls)} :
        /\ Len(parsed.tunes) \in 0..(Cardinality(UnusedObjects) - 1)
        /\ left' = [globals |-> result.globals,
                    open |-> parsed.thrown /\ Len(parsed.tunes) <= result.ended]
        /\ \/ /\ parsed.fault \in {"division by zero", "uninitialized"}
              /\ fault' = parsed.fault /\ Finished /\ UNCHANGED <<slots, objects>>
           \/ parsed.fault = "none" /\ ABCRead(text, result.calls, parsed)

ABCReaderRead ==
    /\ \/ Reached("Midi.ABCReader", "read") \/ Reached("Midi.ABCReader", "readTune")
       \/ fault = "none" /\ frame.verdict = "reached" /\ frame.cls = "Midi"
    /\ FreeSlots # {}
    /\ \/ /\ ~left.open
          /\ \E text \in ABCTexts \cup (IF Early /\ frame.method = "read" THEN ABCStudies ELSE {}) :
                ReadABC(text)
       \/ /\ left.open
          /\ fault' = "stale tune" /\ Done /\ UNCHANGED <<slots, objects>>

(***************************************************************************)
(* Every other implementation: it returns or throws, and what it does      *)
(* besides belongs to the other modules.                                   *)
(***************************************************************************)
Special == {<<"Midi.Note", "transpose">>, <<"Midi.Pattern", "transpose">>, <<"Midi.Pattern", "add">>,
            <<"Midi.Tune", "timeSignature">>, <<"IO.File", "readAll">>, <<"Osc.Message", "add">>,
            <<"Osc.Message", "arg">>, <<"Midi.DrumTabReader", "read">>, <<"Midi.MMLReader", "read">>,
            <<"Midi.ABCReader", "read">>, <<"Midi.ABCReader", "readTune">>}

Serve ==
    /\ Served /\ frame.method # "constructor"
    /\ <<frame.cls, frame.method>> \notin Special /\ ~GivesPart
    /\ Throw

ServeStatic ==
    /\ fault = "none" /\ frame.verdict = "reached" /\ frame.cls \in Packages \ {"Midi"}
    /\ Throw

-----------------------------------------------------------------------------
(***************************************************************************)
(* The end of a run: the caches drop the objects the run did not ask for.  *)
(* The program goes on while any object is active, of whatever class.      *)
(***************************************************************************)
\* Mutant: what the run asked for again is not kept.
DroppedAnyway == {o \in DOMAIN objects : objects[o].live /\ objects[o].cached}

Dropped == {o \in DOMAIN objects :
               objects[o].live /\ objects[o].cached /\ ~objects[o].wanted}

EndScript ==
    /\ Idle /\ phase = "script" /\ run < Bound[class].runs
    /\ objects' = [o \in DOMAIN objects |->
                     IF o \in Dropped THEN Dead(objects[o])
                     ELSE [objects[o] EXCEPT !.wanted = FALSE]]
    /\ phase' = "waiting"
    /\ run' = run + 1
    /\ UNCHANGED <<class, slots, frame, refs, left, copied, fault>>

(***************************************************************************)
(* The next run: the table of the last one is released and with it the     *)
(* instances it held; those in the root table, or in a handler, stay.      *)
(***************************************************************************)
Restart ==
    \E kept \in SUBSET Occupied :
        /\ Idle /\ phase = "waiting"
        /\ Release(Occupied \ kept)
        /\ slots' = [s \in Slots |-> IF s \in kept THEN slots[s] ELSE NoInstance]
        /\ phase' = "script"
        /\ UNCHANGED <<class, frame, run, refs, left, copied>>

(***************************************************************************)
(* sq_close when the script ends without any active object.                *)
(***************************************************************************)
Close ==
    /\ Idle /\ phase = "script"
    /\ ~\E o \in DOMAIN objects : objects[o].live /\ objects[o].cached /\ objects[o].wanted
    /\ Release(Occupied)
    /\ slots' = [s \in Slots |-> NoInstance]
    /\ phase' = "closed"
    /\ UNCHANGED <<class, frame, run, refs, left, copied>>

Next ==
    \/ \E s \in Slots : CreateInstance(s) \/ DropInstance(s) \/ CloneRefused(s) \/ PushParameter(s)
    \/ \E s, t \in Slots : CloneInstance(s, t)
    \/ Idle /\ \E s \in Occupied \cup {0} : \E t \in Callable(s) : Call(s, t)
    \/ Return \/ Undefined \/ Construct \/ TakePart \/ Serve \/ ServeStatic
    \/ NoteTranspose \/ PatternTranspose \/ PatternAdd \/ TuneTimeSignature \/ FileReadAll
    \/ MessageAdd \/ MessageArg \/ DrumTabRead \/ MMLReaderRead \/ ABCReaderRead
    \/ EndScript \/ Restart \/ Close

Spec == Init /\ [][Next]_vars

-----------------------------------------------------------------------------
(***************************************************************************)
(* Properties.                                                             *)
(***************************************************************************)

(***************************************************************************)
(* An overload documents a list of arguments when there are neither too    *)
(* few nor too many of them and it takes each.                             *)
(***************************************************************************)
Documents(form, args) ==
    /\ form.least <= Len(args) /\ Len(args) <= Len(form.takes)
    /\ \A i \in DOMAIN args : args[i] \in TakenAt(form, i).accepts
    /\ form.test = "kind" => form.at <= Len(args)

Unread(reader, k) == ~reader.returns /\ k \notin reader.accepts

(***************************************************************************)
(* CallsSound: whatever the order in which a native function tells its     *)
(* overloads apart and checks its arguments, an implementation is reached  *)
(* exactly by the calls one of its overloads documents, on an instance     *)
(* that has been constructed; every other call is refused.  The exceptions *)
(* are calls that hand an argument of another kind to a getter that lacks  *)
(* a return statement: they may be refused although another overload       *)
(* documents them, or go on with a pointer that was never read.            *)
(***************************************************************************)
CallsSound ==
    frame.verdict \in {"reached", "refused", "garbage"} =>
        LET native == frame.native
            forms == native.forms
            documented == \E f \in DOMAIN forms : Documents(forms[f], frame.args)
            constructed == native.kind = "method" => slots[frame.this].obj # 0
            unread == \E f \in DOMAIN forms :
                         \E i \in (DOMAIN frame.args) \cap (DOMAIN forms[f].takes) :
                             Unread(forms[f].takes[i], frame.args[i])
        IN  CASE frame.verdict = "reached" -> documented /\ constructed
              [] frame.verdict = "refused" -> ~documented \/ ~constructed \/ unread
              [] OTHER -> unread

(***************************************************************************)
(* InstancesSound: the hooks delete every object exactly once.  As long as *)
(* nothing undefined has happened, an instance with a hook has an object   *)
(* that lives and that no other instance deletes; an object the script     *)
(* owns and that was not lost to a second constructor call has an instance *)
(* that will delete it; and an object of a cache outlives the instances    *)
(* made for it in the current run and the one before.                      *)
(***************************************************************************)
HookedSlots == {s \in Slots : slots[s].hook # NoHook}

InstancesSound ==
    fault = "none" =>
        /\ \A s \in HookedSlots :
              /\ objects[slots[s].obj].live /\ slots[s].path = << >>
              /\ objects[slots[s].obj].cls = slots[s].hook
              /\ \A t \in HookedSlots \ {s} : slots[t].obj # slots[s].obj
        /\ \A o \in DOMAIN objects :
              /\ objects[o].live /\ objects[o].cls \notin Inner
              /\ ~objects[o].cached /\ ~objects[o].lost
              => \E s \in HookedSlots : slots[s].obj = o
        /\ \A s \in Occupied :
              /\ slots[s].obj # 0 /\ slots[s].path = << >> /\ slots[s].hook = NoHook
              /\ run - slots[s].run <= 1
              => objects[slots[s].obj].live

(***************************************************************************)
(* LifetimesExplained: a script meets an object that is gone only where an *)
(* instance may outlive it, and deletes one again only when it was shared. *)
(* The instance that is followed to a dead object deletes nothing itself:  *)
(* it stands for a note or a track whose owner was deleted, or for an      *)
(* object of a cache that was last asked for more than a run ago; or else  *)
(* the reader that is called is a copy, whose parser calls the original.   *)
(* And an object that dies twice is one that a tune, a file or an ABC      *)
(* reader held when it was cloned; what is now deleting it holds it.       *)
(* (Other undefined behaviour is recorded where the code comes to it, and  *)
(* is no concern of this property.)                                        *)
(***************************************************************************)
Follows(s) ==
    IF frame.verdict = "none" THEN \E t \in Slots : CloneInstance(s, t) ELSE frame.this = s

Stranded(s) ==
    /\ slots[s].obj # 0 /\ ~objects[slots[s].obj].live /\ slots[s].hook = NoHook
    /\ slots[s].path # << >>
         \/ (objects[slots[s].obj].cached /\ run - slots[s].run > 1)

CalledByCopy ==
    /\ frame.cls = "Midi.MMLReader" /\ frame.method = "read"
    /\ Its.self # It.obj /\ Its.self \in copied

Deleters ==
    IF frame.verdict = "none"
    THEN {slots[s].obj : s \in {r \in HookedSlots : slots'[r] # slots[r]}}
    ELSE {IF frame.cls = "Midi" THEN StaticReader ELSE It.obj}

DeletedAgain(o) ==
    \E p \in (PartsOf(objects[o]) \cup TunesOf(objects[o])) \cap copied :
        ~objects[p].live \/ \E q \in Deleters \ {o} : p \in PartsOf(objects[q])

Explained ==
    /\ fault' = "dangling" => CalledByCopy \/ \E s \in Occupied : Follows(s) /\ Stranded(s)
    /\ fault' = "double delete" => \E o \in Deleters : DeletedAgain(o)

LifetimesExplained == [][Explained]_vars
=============================================================================
