------------------------------- MODULE ApiProofs -------------------------------
(***************************************************************************)
(* Theorems about Api, for every set of classes, packages, slots, texts    *)
(* and bounds, and for every parser of ABC: native functions are reached   *)
(* by the calls they document and by no others, the hooks delete every     *)
(* object exactly once, and what goes wrong has one of the causes that     *)
(* FaultsExplained names, but for two faults that the parser decides on.   *)
(***************************************************************************)
EXTENDS Api, FiniteSetTheorems, SequenceTheorems, TLAPS

\* A non-empty set of natural numbers has a least element.
LEMMA LeastNatural ==
    ASSUME NEW T, T \subseteq Nat, T # {}
    PROVE  \E m \in T : \A n \in T : m <= n
  <1> DEFINE Below == {ss \in Nat \X Nat : ss[1] < ss[2]}
  <1>1. IsWellFoundedOn(Below, Nat)
    BY NatLessThanWellFounded, Zenon DEF OpToRel
  <1>2. PICK m \in T : \A n \in T : ~(<<n, m>> \in Below)
    <2> HIDE DEF Below
    <2> QED
      BY <1>1, WFMin
  <1>3. \A n \in T : n < m => <<n, m>> \in Below
    OBVIOUS
  <1> HIDE DEF Below
  <1>4. \A n \in T : ~(n < m)
    BY <1>2, <1>3
  <1>5. ASSUME NEW n \in T PROVE m <= n
    <2>1. n \in Nat /\ m \in Nat /\ ~(n < m)
      BY <1>4
    <2> QED
      BY <2>1
  <1> QED
    BY <1>5

FrameFields == {"cls", "method", "native", "this", "args", "verdict", "read"}

(***************************************************************************)
(* The lists of arguments a call is made with are sequences.               *)
(***************************************************************************)
IsList(a) == Len(a) \in Nat /\ DOMAIN a = 1..Len(a)

\* The kinds an overload takes, one for each reader, are a list of arguments.
LEMMA FittingIsList ==
    ASSUME NEW form, WellFormedAlone(form)
    PROVE  IsList(Fitting(form)) /\ Len(Fitting(form)) = Len(form.takes)
  <1> DEFINE n == Len(form.takes)
  <1> DEFINE a == [i \in 1..n |-> CHOOSE k \in form.takes[i].accepts : TRUE]
  <1>1. n \in Nat /\ DOMAIN form.takes = 1..n
    BY DEF WellFormedAlone
  <1>2. Fitting(form) = a
    BY <1>1 DEF Fitting
  <1>3. Len(a) = n /\ DOMAIN a = 1..n
    <2> HIDE DEF n
    <2>1. a \in Seq({a[i] : i \in 1..n})
      BY <1>1
    <2>2. DOMAIN a = 1..n
      OBVIOUS
    <2> HIDE DEF a
    <2> QED
      BY <1>1, <2>1, <2>2
  <1> QED
    BY <1>1, <1>2, <1>3 DEF IsList

\* So are these lists cut short, one too long, or with one argument of another kind.
LEMMA ListsAreLists ==
    ASSUME NEW native, WellFormed(native.forms), NEW args \in Lists(native) \cup FittingLists(native)
    PROVE  IsList(args)
  <1>1. CASE args \in FittingLists(native)
    BY <1>1, FittingIsList DEF FittingLists, WellFormed
  <1>2. CASE args \in Lists(native)
    <2>1. PICK f \in DOMAIN native.forms :
             LET a == Fitting(native.forms[f])
             IN  args \in {SubSeq(a, 1, n) : n \in 0..Len(a)} \cup {Append(a, "integer")}
                            \cup {[a EXCEPT ![i] = k] : i \in DOMAIN a, k \in Kinds}
      BY <1>2 DEF Lists
    <2> DEFINE a == Fitting(native.forms[f])
    <2>2. Len(a) \in Nat /\ DOMAIN a = 1..Len(a)
      BY FittingIsList DEF WellFormed, IsList
    <2>3. a \in Seq({a[i] : i \in 1..Len(a)})
      <3>1. a = [i \in 1..Len(a) |-> a[i]]
        BY <2>2 DEF Fitting
      <3> HIDE DEF a
      <3> QED
        BY <2>2, <3>1
    <2>4. \/ \E n \in 0..Len(a) : args = SubSeq(a, 1, n)
          \/ args = Append(a, "integer")
          \/ \E i \in DOMAIN a, k \in Kinds : args = [a EXCEPT ![i] = k]
      BY <2>1
    <2> HIDE DEF a
    <2>5. CASE \E n \in 0..Len(a) : args = SubSeq(a, 1, n)
      BY <2>2, <2>3, <2>5 DEF IsList
    <2>6. CASE args = Append(a, "integer")
      <3> DEFINE P == {a[i] : i \in 1..Len(a)} \cup {"integer"}
      <3>1. a \in Seq(P) /\ "integer" \in P
        BY <2>3
      <3> HIDE DEF P
      <3> QED
        BY <2>6, <3>1 DEF IsList
    <2>7. CASE \E i \in DOMAIN a, k \in Kinds : args = [a EXCEPT ![i] = k]
      <3>1. PICK i \in DOMAIN a, k \in Kinds : args = [a EXCEPT ![i] = k]
        BY <2>7
      <3> DEFINE P == {a[j] : j \in 1..Len(a)} \cup {k}
      <3>2. a \in Seq(P) /\ k \in P
        BY <2>3
      <3> HIDE DEF P
      <3> QED
        BY <2>2, <3>1, <3>2 DEF IsList
    <2> QED
      BY <2>4, <2>5, <2>6, <2>7
  <1> QED
    BY <1>1, <1>2

(***************************************************************************)
(* What CallsSound says of one call, with what it depends on as            *)
(* parameters.                                                             *)
(***************************************************************************)
Documented(forms, args) == \E f \in DOMAIN forms : Documents(forms[f], args)

SomeUnread(forms, args) ==
    \E f \in DOMAIN forms : \E i \in (DOMAIN args) \cap (DOMAIN forms[f].takes) :
        Unread(forms[f].takes[i], args[i])

Decided(forms, args, constructed, v) ==
    /\ v = "reached" => Documented(forms, args) /\ constructed
    /\ v = "refused" => ~Documented(forms, args) \/ ~constructed \/ SomeUnread(forms, args)
    /\ v = "garbage" => SomeUnread(forms, args)

\* An overload never passes over a call it documents.
LEMMA DocumentedPasses ==
    ASSUME NEW form, WellFormedAlone(form), NEW args, IsList(args), NEW stale,
           Documents(form, args)
    PROVE  "null" \notin Passes(form, args, stale)
  <1>1. CASE form.test = "none"
    BY <1>1 DEF Passes
  <1>2. CASE form.test = "absent"
    BY <1>2 DEF Passes, Documents, WellFormedAlone, IsList
  <1>3. CASE form.test = "kind"
    <2>1. form.at \in DOMAIN args /\ form.at <= Len(args)
      BY <1>3 DEF Documents, WellFormedAlone, IsList
    <2>2. args[form.at] \in form.is.accepts
      BY <1>3, <2>1 DEF Documents, TakenAt
    <2> QED
      BY <1>3, <2>1, <2>2 DEF Passes, Kind, Reads
  <1> QED
    BY <1>1, <1>2, <1>3 DEF WellFormedAlone

\* When an overload told apart by a kind is taken and the number of arguments is
\* right, that argument was passed.
LEMMA TakenIsThere ==
    ASSUME NEW forms, WellFormed(forms), NEW args, IsList(args), NEW stale,
           NEW s \in Selected(forms, args, stale), Counted(forms[s[1]], args),
           forms[s[1]].test = "kind"
    PROVE  forms[s[1]].at \in DOMAIN args
  <1> DEFINE f == s[1]
  <1>1. f \in DOMAIN forms /\ \A j \in 1..(f - 1) : "null" \in Passes(forms[j], args, stale)
    BY DEF Selected
  <1>2. WellFormedAlone(forms[f]) /\ forms[f].at \in Nat /\ forms[f].at > 0
    BY <1>1 DEF WellFormed, WellFormedAlone
  <1>3. Len(args) \in Nat /\ forms[f].least <= Len(args) /\ forms[f].least \in Nat
    BY <1>2 DEF Counted, WellFormedAlone, IsList
  <1>4. CASE forms[f].at <= forms[f].least
    BY <1>2, <1>3, <1>4 DEF IsList
  <1>5. ASSUME NEW g \in 1..(f - 1), forms[g].test = "absent", forms[g].at >= forms[f].at
        PROVE  forms[f].at <= Len(args)
    <2>1. g \in DOMAIN forms
      BY <1>1 DEF WellFormed
    <2>2. WellFormedAlone(forms[g]) /\ forms[g].at \in Nat
      BY <2>1 DEF WellFormed, WellFormedAlone
    <2>3. ~(Len(args) < forms[g].at)
      BY <1>1, <1>5 DEF Passes
    <2> QED
      BY <1>2, <1>3, <1>5, <2>2, <2>3
  <1>6. forms[f].at <= forms[f].least \/ \E g \in 1..(f - 1) : forms[g].test = "absent" /\ forms[g].at >= forms[f].at
    BY <1>1 DEF WellFormed
  <1> QED
    BY <1>2, <1>3, <1>4, <1>5, <1>6 DEF IsList

\* A form that is taken fits the argument it is told apart by, or was never read it.
LEMMA TakenFits ==
    ASSUME NEW forms, WellFormed(forms), NEW args, IsList(args), NEW stale,
           NEW s \in Selected(forms, args, stale),
           forms[s[1]].test = "kind", forms[s[1]].at \in DOMAIN args
    PROVE  /\ s[2] = "value" => args[forms[s[1]].at] \in forms[s[1]].is.accepts
           /\ s[2] = "garbage" => SomeUnread(forms, args)
  <1> DEFINE f == s[1]
  <1> DEFINE i == forms[f].at
  <1>1. f \in DOMAIN forms /\ s[2] \in Passes(forms[f], args, stale)
    BY DEF Selected
  <1>2. i \in DOMAIN args /\ i <= Len(args)
    BY DEF IsList
  <1>3. s[2] \in Reads(forms[f].is, args[i])
    BY <1>1, <1>2 DEF Passes, Kind
  <1>4. ASSUME s[2] = "garbage" PROVE SomeUnread(forms, args)
    <2>1. args[i] \notin forms[f].is.accepts /\ ~forms[f].is.returns
      BY <1>3, <1>4 DEF Reads
    <2>2. WellFormedAlone(forms[f])
      BY <1>1 DEF WellFormed
    <2>3. i \in DOMAIN forms[f].takes /\ forms[f].takes[i] = forms[f].is
      BY <2>1, <2>2 DEF WellFormedAlone
    <2>4. Unread(forms[f].takes[i], args[i])
      BY <2>1, <2>3 DEF Unread
    <2> QED
      BY <1>1, <1>2, <2>3, <2>4 DEF SomeUnread
  <1>5. s[2] = "value" => args[i] \in forms[f].is.accepts
    BY <1>3 DEF Reads
  <1> QED
    BY <1>4, <1>5

\* A form that is taken documents the call, or refuses it, or never read an argument.
LEMMA TakenDocuments ==
    ASSUME NEW forms, WellFormed(forms), NEW args, IsList(args), NEW stale,
           NEW s \in Selected(forms, args, stale), Counted(forms[s[1]], args)
    PROVE  /\ s[2] \in {"value", "garbage"}
           /\ s[2] = "garbage" => SomeUnread(forms, args)
           /\ s[2] = "value" /\ Misfits(forms[s[1]], args) = {} => Documents(forms[s[1]], args)
  <1> DEFINE f == s[1]
  <1> DEFINE form == forms[f]
  <1>1. f \in DOMAIN forms /\ s[2] \in {"value", "garbage"} /\ s[2] \in Passes(form, args, stale)
    BY DEF Selected
  <1>2. WellFormedAlone(form)
    BY <1>1 DEF WellFormed
  <1>3. ASSUME s[2] = "garbage" PROVE SomeUnread(forms, args)
    <2>1. form.test = "kind"
      BY <1>1, <1>2, <1>3 DEF Passes, WellFormedAlone
    <2> QED
      BY <1>3, <2>1, TakenFits, TakenIsThere
  <1>4. ASSUME s[2] = "value", Misfits(form, args) = {} PROVE Documents(form, args)
    <2>1. form.least <= Len(args) /\ Len(args) <= Len(form.takes)
      BY DEF Counted
    <2>2. form.test = "kind" => form.at \in DOMAIN args /\ args[form.at] \in form.is.accepts
      BY <1>4, TakenFits, TakenIsThere
    <2>3. form.test = "kind" => form.at <= Len(args)
      BY <2>2 DEF IsList
    <2>4. ASSUME NEW i \in DOMAIN args PROVE args[i] \in TakenAt(form, i).accepts
      BY <1>4, <2>2 DEF Misfits, TakenAt
    <2> QED
      BY <2>1, <2>3, <2>4 DEF Documents
  <1> QED
    BY <1>1, <1>3, <1>4

\* No overload before the documented one is taken, unless an argument was never read.
LEMMA NoneBefore ==
    ASSUME NEW forms, WellFormed(forms), NEW args, IsList(args), NEW stale,
           NEW s \in Selected(forms, args, stale),
           NEW f \in DOMAIN forms, Documents(forms[f], args), s[1] < f
    PROVE  SomeUnread(forms, args)
  <1> DEFINE g == s[1]
  <1>1. g \in DOMAIN forms /\ s[2] \in {"value", "garbage"} /\ s[2] \in Passes(forms[g], args, stale)
    BY DEF Selected
  <1>2. g \in 1..(f - 1) /\ ~Hides(forms[g], forms[f])
    BY <1>1 DEF WellFormed
  <1>3. WellFormedAlone(forms[g]) /\ WellFormedAlone(forms[f])
    BY <1>1 DEF WellFormed
  <1>4. forms[g].at <= Len(args)
    <2>1. forms[f].least <= Len(args) /\ (forms[f].test = "kind" => forms[f].at <= Len(args))
      BY DEF Documents
    <2>2. ~(forms[g].at > forms[f].least) \/ (forms[f].test = "kind" /\ forms[g].at <= forms[f].at)
      BY <1>2 DEF Hides
    <2>3. forms[g].at \in Nat /\ forms[f].at \in Nat /\ forms[f].least \in Nat /\ Len(args) \in Nat
      BY <1>3 DEF WellFormedAlone, IsList
    <2> QED
      BY <2>1, <2>2, <2>3
  <1>5. forms[g].test = "kind"
    <2>1. forms[g].test # "none"
      BY <1>2 DEF Hides
    <2>2. ASSUME forms[g].test = "absent" PROVE FALSE
      <3>1. Len(args) < forms[g].at
        BY <1>1, <2>2 DEF Passes
      <3> QED
        BY <1>3, <1>4, <3>1 DEF WellFormedAlone, IsList
    <2> QED
      BY <1>3, <2>1, <2>2 DEF WellFormedAlone
  <1>6. forms[g].at \in DOMAIN args
    BY <1>3, <1>4, <1>5 DEF WellFormedAlone, IsList
  <1>7. s[2] # "value"
    <2> SUFFICES ASSUME s[2] = "value" PROVE FALSE
      OBVIOUS
    <2>1. forms[g].at \in DOMAIN args /\ args[forms[g].at] \in forms[g].is.accepts
      BY <1>5, <1>6, TakenFits
    <2>2. args[forms[g].at] \in TakenAt(forms[f], forms[g].at).accepts
      BY <2>1 DEF Documents
    <2> QED
      BY <1>2, <1>5, <2>1, <2>2 DEF Hides
  <1> QED
    BY <1>1, <1>5, <1>6, <1>7, TakenFits

(***************************************************************************)
(* Whatever the order in which a native function tells its overloads apart *)
(* and checks its arguments, what a call comes to is decided by what the   *)
(* overloads document.                                                     *)
(***************************************************************************)
LEMMA VerdictDecided ==
    ASSUME NEW native, WellFormed(native.forms), NEW args, IsList(args), NEW stale, NEW this,
           NEW v \in Verdicts(native, args, this, stale)
    PROVE  Decided(native.forms, args, This(native, this), v)
  <1> DEFINE forms == native.forms
  <1>1. CASE SelectsNone(forms, args, stale) /\ v = "refused"
    <2>1. ~Documented(forms, args)
      BY <1>1, DocumentedPasses DEF Documented, SelectsNone, WellFormed
    <2> QED
      BY <1>1, <2>1 DEF Decided
  <1>2. ASSUME NEW s \in Selected(forms, args, stale),
               NEW w \in Checked(native, forms[s[1]], args, this),
               v = IF w = "reached" /\ s[2] = "garbage" THEN "garbage" ELSE w
        PROVE  Decided(forms, args, This(native, this), v)
    <2> DEFINE g == s[1]
    <2> DEFINE form == forms[g]
    <2>1. g \in DOMAIN forms /\ \A j \in 1..(g - 1) : "null" \in Passes(forms[j], args, stale)
      BY DEF Selected
    <2>2. ASSUME ~Documents(form, args), Documented(forms, args) PROVE SomeUnread(forms, args)
      <3>1. PICK f \in DOMAIN forms : Documents(forms[f], args)
        BY <2>2 DEF Documented
      <3>2. f # g /\ f \in Nat /\ g \in Nat
        BY <2>1, <2>2, <3>1 DEF WellFormed
      <3>3. ~(f < g)
        <4> SUFFICES ASSUME f < g PROVE FALSE
          OBVIOUS
        <4>1. f \in 1..(g - 1)
          BY <3>2 DEF WellFormed
        <4> QED
          BY <2>1, <3>1, <4>1, DocumentedPasses DEF WellFormed
      <3>4. g < f
        BY <3>2, <3>3
      <3> QED
        BY <3>1, <3>4, NoneBefore
    <2>3. CASE ~This(native, this)
      <3>1. v = "refused"
        BY <1>2, <2>3 DEF Checked
      <3> QED
        BY <2>3, <3>1 DEF Decided
    <2>4. CASE This(native, this) /\ ~Counted(form, args)
      <3>1. v = "refused"
        BY <1>2, <2>4 DEF Checked
      <3>2. ~Documents(form, args)
        BY <2>1, <2>4 DEF Documents, Counted, WellFormed, WellFormedAlone, IsList
      <3> QED
        BY <3>1, <3>2, <2>2 DEF Decided
    <2>5. CASE This(native, this) /\ Counted(form, args)
      <3>1. /\ s[2] \in {"value", "garbage"}
            /\ s[2] = "garbage" => SomeUnread(forms, args)
            /\ s[2] = "value" /\ Misfits(form, args) = {} => Documents(form, args)
        BY <2>5, TakenDocuments
      <3>2. CASE Misfits(form, args) = {}
        <4>1. w = "reached"
          BY <2>5, <3>2 DEF Checked
        <4>2. CASE s[2] = "value"
          BY <1>2, <2>1, <2>5, <3>1, <3>2, <4>1, <4>2 DEF Decided, Documented
        <4>3. CASE s[2] = "garbage"
          BY <1>2, <3>1, <4>1, <4>3 DEF Decided
        <4> QED
          BY <3>1, <4>2, <4>3
      <3>3. CASE Misfits(form, args) # {}
        <4>1. v \in {"refused", "garbage"}
          BY <1>2, <2>5, <3>3 DEF Checked
        <4>2. ~Documents(form, args)
          BY <3>3 DEF Misfits, Documents, TakenAt
        <4>3. ASSUME v = "garbage" PROVE SomeUnread(forms, args)
          <5>1. PICK i : i \in Misfits(form, args)
            BY <3>3
          <5>2. ~form.takes[i].returns
            BY <1>2, <2>5, <3>3, <4>3, <5>1 DEF Checked
          <5>3. i \in DOMAIN args /\ Unread(form.takes[i], args[i])
            BY <5>1, <5>2 DEF Misfits, Unread
          <5>4. i \in DOMAIN form.takes
            BY <2>1, <2>5, <5>3 DEF WellFormed, WellFormedAlone, IsList, Counted
          <5> QED
            BY <2>1, <5>3, <5>4 DEF SomeUnread
        <4> QED
          BY <4>1, <4>2, <4>3, <2>2 DEF Decided
      <3> QED
        BY <3>2, <3>3
    <2> QED
      BY <2>3, <2>4, <2>5
  <1> QED
    BY <1>1, <1>2 DEF Verdicts

(***************************************************************************)
(* The inductive invariant.                                                *)
(***************************************************************************)
ObjectFields == {"cls", "live", "cached", "wanted", "lost", "val"}
SlotFields == {"cls", "obj", "path", "hook", "run"}

ObjectShape(x) ==
    /\ DOMAIN x = ObjectFields
    /\ x.live \in BOOLEAN /\ x.cached \in BOOLEAN /\ x.wanted \in BOOLEAN /\ x.lost \in BOOLEAN
    /\ x.cls = "none" => ~x.live /\ ~x.cached
    /\ x.cached \/ x.cls \in Inner \cup {"none"} \/ Hookable(x.cls)

IsPath(p) == p \in Seq({p[i] : i \in DOMAIN p})

SlotShape(x) ==
    /\ DOMAIN x = SlotFields
    /\ x.obj \in {0} \cup DOMAIN objects
    /\ x.obj # 0 => objects[x.obj].cls # "none"
    /\ IsPath(x.path)
    /\ x.run \in 0..run
    /\ x.cls \in (DOMAIN Class) \cup {"none"}
    /\ x.cls = "none" => x = NoInstance

\* Every variable has its type; the reader of Midi.abc is the first object.
Shape ==
    /\ class \in Followed /\ run \in Nat
    /\ Bound[class].objects \in Nat
    /\ DOMAIN objects = 1..Bound[class].objects
    /\ \A o \in DOMAIN objects : ObjectShape(objects[o])
    /\ DOMAIN slots = Slots
    /\ \A s \in Slots : SlotShape(slots[s])
    /\ class = "Midi" => /\ StaticReader \in DOMAIN objects
                         /\ objects[StaticReader].cls = "reader" /\ objects[StaticReader].live

\* The call under way is one of a registered native function.
Framed ==
    /\ DOMAIN frame = FrameFields
    /\ frame.verdict # "none" =>
          /\ frame.method \in Members(frame.cls)
          /\ frame.native = NativeOf(frame.cls, frame.method)
          /\ \/ frame.cls \in Packages /\ class = frame.cls
             \/ frame.cls \in DOMAIN Class /\ frame.this \in Slots

\* An instance with a hook has a living object of its own class that no cache keeps
\* and no other instance deletes.
HookOf(s) ==
    /\ Hookable(slots[s].cls) /\ slots[s].hook = slots[s].cls
    /\ slots[s].obj # 0 /\ slots[s].path = << >>
    /\ objects[slots[s].obj].live /\ objects[slots[s].obj].cls = slots[s].cls
    /\ ~objects[slots[s].obj].cached

Owned ==
    /\ \A s \in HookedSlots : HookOf(s)
    /\ \A s, t \in HookedSlots : s # t => slots[s].obj # slots[t].obj

\* An instance and an object of which one holds other objects are of one class.
Matched(s) ==
    slots[s].obj # 0 /\ (slots[s].cls \in Holders \/ objects[slots[s].obj].cls \in Holders)
        => slots[s].cls = objects[slots[s].obj].cls /\ slots[s].path = << >>

Matching == \A s \in Slots : Matched(s)

\* What an object holds has the class it needs.
Lister(o) == objects[o].cls \in {"Midi.ABCReader", "reader"}

ValueOf(o) ==
    /\ objects[o].cls = "Midi.Tune" =>
          objects[o].val \in DOMAIN objects /\ objects[objects[o].val].cls \in {"tracks", "tune"}
    /\ objects[o].cls = "IO.File" /\ objects[o].val # 0 =>
          objects[o].val \in DOMAIN objects /\ objects[objects[o].val].cls = "buffer"
    /\ Lister(o) =>
          /\ DOMAIN objects[o].val = {"meter", "tunes"}
          /\ objects[o].val.tunes \in Seq(DOMAIN objects)
          /\ \A n \in DOMAIN objects[o].val.tunes : objects[objects[o].val.tunes[n]].cls = "tune"
    /\ objects[o].cls = "Midi.MMLReader" =>
          /\ DOMAIN objects[o].val = {"self", "chord", "out"}
          /\ objects[o].val.self \in DOMAIN objects
          /\ objects[objects[o].val.self].cls = "Midi.MMLReader"
          /\ objects[o].val.out # 0 =>
                /\ objects[o].val.out \in DOMAIN objects
                /\ objects[objects[o].val.out].cls = "Midi.Pattern"
          /\ objects[o].val.self = o \/ objects[o].val.self \in copied

Valued == \A o \in DOMAIN objects : objects[o].live => ValueOf(o)

\* A cache keeps what was asked for in this run, and what was asked for in the one
\* before until the next ends.
KeptFor(s) ==
    slots[s].obj # 0 /\ slots[s].path = << >> /\ slots[s].hook = NoHook =>
        /\ objects[slots[s].obj].cached
        /\ slots[s].run = run => objects[slots[s].obj].live /\ objects[slots[s].obj].wanted
        /\ slots[s].run + 1 = run => objects[slots[s].obj].live

Caching ==
    /\ \A o \in DOMAIN objects : objects[o].cached => objects[o].cls \notin Inner
    /\ \A s \in Slots : KeptFor(s)

\* An object of the script that was not lost has an instance that will delete it.
OwnObject(o) == /\ objects[o].live /\ objects[o].cls \notin Inner
                /\ ~objects[o].cached /\ ~objects[o].lost

Deletable == \A o \in DOMAIN objects : OwnObject(o) => \E s \in HookedSlots : slots[s].obj = o

\* x deletes p or gives it away: the tracks of a tune, the buffer of a file, a tune that a
\* reader keeps.
Holding(x, p) ==
    /\ x.live
    /\ \/ x.cls \in {"Midi.Tune", "IO.File"} /\ p = x.val /\ p # 0
       \/ x.cls \in {"Midi.ABCReader", "reader"} /\ \E n \in DOMAIN x.val.tunes : p = x.val.tunes[n]

\* Unless what held it was cloned, what an object holds lives, and no other object holds it.
Apart ==
    \A o, p \in DOMAIN objects :
        Holding(objects[o], p) /\ p \notin copied =>
            /\ objects[p].live
            /\ \A q \in DOMAIN objects : Holding(objects[q], p) => q = o

Consistent == Shape /\ Framed /\ Owned /\ Matching /\ Valued /\ Caching /\ Deletable /\ Apart

IInv == CallsSound /\ (fault = "none" => Consistent)

-----------------------------------------------------------------------------
(***************************************************************************)
(* Facts about the constants and the operators of the model.               *)
(***************************************************************************)

\* No class is named like a package, an inner object, or nothing at all.
LEMMA ClassNames ==
    ASSUME NEW t \in DOMAIN Class
    PROVE  t \notin Packages /\ t \notin Inner /\ t # "none" /\ t # NoHook /\ NoHook # "none"
  BY NamesAssumption DEF NoHook

\* Whatever can be called has well-formed overloads; only functions of a package are static.
LEMMA CallablesWellFormed ==
    ASSUME NEW t \in (DOMAIN Class) \cup Packages, NEW m \in Members(t)
    PROVE  /\ WellFormed(NativeOf(t, m).forms)
           /\ t \in Packages => NativeOf(t, m).kind = "static"
           /\ t \in DOMAIN Class /\ m = "constructor" => NativeOf(t, m) = Class[t].constructor
           /\ t \in DOMAIN Class /\ m # "constructor" =>
                 /\ NativeOf(t, m) = Class[t].methods[m] /\ m \in DOMAIN Class[t].methods
                 /\ NativeOf(t, m).kind = "method"
           /\ NativeOf(t, m).kind = "method" => t \in DOMAIN Class /\ m # "constructor"
  BY FormsAssumption, ClassNames DEF Members, NativeOf

\* The path to a part of a part is a path, and not the empty one.
LEMMA Paths ==
    /\ IsPath(<< >>)
    /\ \A p, i : IsPath(p) => IsPath(Append(p, i)) /\ Append(p, i) # << >>
  <1>1. IsPath(<< >>)
    BY DEF IsPath
  <1>2. ASSUME NEW p, NEW i, IsPath(p)
        PROVE  IsPath(Append(p, i)) /\ Append(p, i) # << >>
    <2> DEFINE T == {p[k] : k \in DOMAIN p} \cup {i}
    <2> DEFINE q == Append(p, i)
    <2>1. p \in Seq(T)
      BY <1>2 DEF IsPath
    <2> HIDE DEF T
    <2>2. i \in T
      BY DEF T
    <2>3. q \in Seq(T) /\ Len(q) = Len(p) + 1 /\ Len(p) \in Nat
      BY <2>1, <2>2
    <2> HIDE DEF q
    <2>4. q = [k \in 1..Len(q) |-> q[k]] /\ Len(q) \in Nat /\ DOMAIN q = 1..Len(q)
      BY <2>3
    <2>5. \A k \in 1..Len(q) : q[k] \in {q[j] : j \in DOMAIN q}
      BY <2>4
    <2>6. q \in Seq({q[j] : j \in DOMAIN q})
      BY <2>4, <2>5
    <2>7. q # << >>
      BY <2>3
    <2> QED
      BY <2>6, <2>7 DEF IsPath, q
  <1> QED
    BY <1>1, <1>2

\* The unused objects come one after the other.
LEMMA FreshOnes ==
    ASSUME Shape
    PROVE  /\ Cardinality(UnusedObjects) \in Nat
           /\ \A n \in 1..Cardinality(UnusedObjects) :
                 Fresh(n) \in DOMAIN objects /\ objects[Fresh(n)].cls = "none"
           /\ \A m, n \in 1..Cardinality(UnusedObjects) : m # n => Fresh(m) # Fresh(n)
  <1> DEFINE N == Bound[class].objects
  <1> DEFINE U == UnusedObjects
  <1> DEFINE To(m) == {p \in U : p <= m}
  <1>1. U \subseteq 1..N /\ N \in Nat
    BY DEF Shape, UnusedObjects
  <1>2. IsFiniteSet(U) /\ Cardinality(U) \in Nat
    <2>1. IsFiniteSet(1..N)
      BY <1>1, FS_Interval
    <2> QED
      BY <1>1, <2>1, FS_Subset, FS_CardinalityType
  <1> HIDE DEF U, N
  <1>3. ASSUME NEW p \in U PROVE p \in Nat /\ 0 < p /\ p <= N
    BY <1>1
  <1>4. ASSUME NEW n \in 1..Cardinality(U)
        PROVE  \E o \in U : Cardinality({p \in U : p < o}) = n - 1
    <2> DEFINE T == {m \in Nat : n <= Cardinality(To(m))}
    <2>1. N \in T
      <3>1. To(N) = U
        BY <1>3
      <3> QED
        BY <1>1, <1>2, <3>1
    <2>2. PICK m \in T : \A k \in T : m <= k
      <3>1. T \subseteq Nat /\ T # {}
        BY <2>1
      <3> HIDE DEF T
      <3> QED
        BY <3>1, LeastNatural
    <2>3. m # 0
      <3>1. To(0) = {}
        BY <1>3
      <3>2. Cardinality(To(0)) = 0
        BY <3>1, FS_EmptySet
      <3> QED
        BY <2>2, <3>2
    <2>4. m - 1 \in Nat /\ m \in Nat
      BY <2>2, <2>3
    <2>5. m - 1 \notin T
      BY <2>2, <2>4
    <2>6. IsFiniteSet(To(m - 1)) /\ Cardinality(To(m - 1)) \in Nat
      <3>1. To(m - 1) \in SUBSET U
        OBVIOUS
      <3> HIDE DEF To
      <3> QED
        BY <1>2, <3>1, FS_Subset, FS_CardinalityType
    <2>7. Cardinality(To(m - 1)) < n
      BY <2>4, <2>5, <2>6
    <2>8. m \in U
      <3> SUFFICES ASSUME m \notin U PROVE FALSE
        OBVIOUS
      <3>1. To(m) = To(m - 1)
        <4>1. ASSUME NEW p \in U PROVE p <= m <=> p <= m - 1
          BY <1>3, <2>4
        <4> QED
          BY <4>1
      <3> QED
        BY <2>2, <2>6, <2>7, <3>1
    <2>9. To(m) = To(m - 1) \cup {m} /\ m \notin To(m - 1)
      <3>1. ASSUME NEW p \in U PROVE p <= m <=> p <= m - 1 \/ p = m
        BY <1>3, <2>4
      <3>2. ~(m <= m - 1)
        BY <2>4
      <3> QED
        BY <2>4, <2>8, <3>1, <3>2
    <2>10. Cardinality(To(m)) = Cardinality(To(m - 1)) + 1
      <3> HIDE DEF To
      <3> QED
        BY <2>6, <2>9, FS_AddElement
    <2>11. Cardinality(To(m - 1)) = n - 1
      BY <2>2, <2>6, <2>7, <2>10
    <2>12. {p \in U : p < m} = To(m - 1)
      <3>1. ASSUME NEW p \in U PROVE p < m <=> p <= m - 1
        BY <1>3, <2>4
      <3> QED
        BY <3>1
    <2> QED
      BY <2>8, <2>11, <2>12
  <1>5. \A n \in 1..Cardinality(U) : Fresh(n) \in U /\ Cardinality({p \in U : p < Fresh(n)}) = n - 1
    BY <1>4 DEF Fresh, U
  <1>6. ASSUME NEW m \in 1..Cardinality(U), NEW n \in 1..Cardinality(U), Fresh(m) = Fresh(n)
        PROVE  m = n
    <2>1. {p \in U : p < Fresh(m)} = {p \in U : p < Fresh(n)}
      BY <1>6
    <2>2. m - 1 = n - 1
      BY <1>5, <2>1
    <2> QED
      BY <2>2
  <1>7. \A o \in U : o \in DOMAIN objects /\ objects[o].cls = "none"
    BY DEF U, UnusedObjects
  <1> QED
    BY <1>2, <1>5, <1>6, <1>7 DEF U

\* With room for one or two more objects there are one or two.
LEMMA RoomForOne ==
    ASSUME Shape, Room(1)
    PROVE  Fresh(1) \in DOMAIN objects /\ objects[Fresh(1)].cls = "none" /\ Fresh(1) # 0
  BY FreshOnes DEF Room, Shape

\* So there are two.
LEMMA RoomForTwo ==
    ASSUME Shape, Room(2)
    PROVE  /\ Fresh(1) \in DOMAIN objects /\ objects[Fresh(1)].cls = "none" /\ Fresh(1) # 0
           /\ Fresh(2) \in DOMAIN objects /\ objects[Fresh(2)].cls = "none" /\ Fresh(2) # 0
           /\ Fresh(1) # Fresh(2)
  BY FreshOnes DEF Room, Shape

-----------------------------------------------------------------------------
(***************************************************************************)
(* Calls.                                                                  *)
(***************************************************************************)

\* What is called is registered.
LEMMA CallableNames ==
    ASSUME Shape, NEW s \in Occupied \cup {0}, NEW t \in Callable(s)
    PROVE  (t \in Packages /\ class = t) \/ (t \in DOMAIN Class /\ t \notin Packages /\ s \in Slots)
  <1>1. CASE s = 0
    BY <1>1 DEF Callable
  <1>2. CASE s # 0
    <2>1. s \in Slots
      BY <1>2 DEF Occupied
    <2>2. t = class \/ (t = slots[s].cls /\ slots[s].path # << >>) \/ t \in OtherKinds
      BY <1>2 DEF Callable
    <2>3. CASE t = class
      BY <2>1, <2>3, NamesAssumption, ClassNames DEF Shape
    <2>4. CASE t = slots[s].cls /\ slots[s].path # << >>
      <3>1. t # "none"
        BY <2>1, <2>4 DEF Shape, SlotShape, NoInstance
      <3> QED
        BY <2>1, <2>4, <3>1, ClassNames DEF Shape, SlotShape
    <2>5. CASE t \in OtherKinds
      BY <2>1, <2>5, NamesAssumption, ClassNames
    <2> QED
      BY <2>2, <2>3, <2>4, <2>5
  <1> QED
    BY <1>1, <1>2

\* `this' is accepted when the instance has been constructed.
LEMMA ThisConstructed ==
    ASSUME NEW s, NEW t, NEW native, native.kind = "method" => t \notin Packages
    PROVE  This(native, ThisKind(s, t)) <=> (native.kind = "method" => slots[s].obj # 0)
  BY DEF This, ThisKind

\* Every call comes to what its overloads document.
LEMMA CallDecided ==
    ASSUME Shape, NEW s \in Occupied \cup {0}, NEW t \in Callable(s), Call(s, t)
    PROVE  /\ Decided(frame'.native.forms, frame'.args,
                      frame'.native.kind = "method" => slots'[frame'.this].obj # 0, frame'.verdict)
           /\ Framed'
  <1>1. PICK m \in Members(t) : \E native \in {NativeOf(t, m)} :
           \E args \in IF Early /\ t = class THEN ArgLists[t][m] ELSE FittingLists(native) :
           \E stale \in StaleKinds(native, args) :
           \E v \in Verdicts(native, args, ThisKind(s, t), stale) :
              frame' = [cls |-> t, method |-> m, native |-> native, this |-> s, args |-> args,
                        verdict |-> v, read |-> NoRead]
    BY DEF Call
  <1> DEFINE native == NativeOf(t, m)
  <1>2. PICK args \in IF Early /\ t = class THEN ArgLists[t][m] ELSE FittingLists(native) :
           \E stale \in StaleKinds(native, args) :
           \E v \in Verdicts(native, args, ThisKind(s, t), stale) :
              frame' = [cls |-> t, method |-> m, native |-> native, this |-> s, args |-> args,
                        verdict |-> v, read |-> NoRead]
    BY <1>1
  <1>3. PICK stale, v : /\ v \in Verdicts(native, args, ThisKind(s, t), stale)
                        /\ frame' = [cls |-> t, method |-> m, native |-> native, this |-> s,
                                     args |-> args, verdict |-> v, read |-> NoRead]
    BY <1>2
  <1>4. (t \in Packages /\ class = t) \/ (t \in DOMAIN Class /\ t \notin Packages /\ s \in Slots)
    BY CallableNames
  <1>5. WellFormed(native.forms) /\ (native.kind = "method" => t \notin Packages)
    BY <1>4, CallablesWellFormed, ClassNames
  <1>6. args \in Lists(native) \cup FittingLists(native)
    <2>1. t = class => ArgLists[t][m] = Lists(native)
      BY DEF ArgLists, Shape
    <2> QED
      BY <1>2, <2>1
  <1>7. IsList(args)
    <2> HIDE DEF native
    <2> QED
      BY <1>5, <1>6, ListsAreLists
  <1>8. Decided(native.forms, args, This(native, ThisKind(s, t)), v)
    <2> HIDE DEF native
    <2> QED
      BY <1>3, <1>5, <1>7, VerdictDecided
  <1>9. slots' = slots /\ class' = class
    BY DEF Call
  <1>10. Decided(native.forms, args, native.kind = "method" => slots[s].obj # 0, v)
    <2> HIDE DEF native
    <2> QED
      BY <1>5, <1>8, ThisConstructed DEF Decided
  <1>11. Framed'
    <2>1. DOMAIN frame' = FrameFields
      BY <1>3 DEF FrameFields
    <2> QED
      BY <1>1, <1>3, <1>4, <1>9, <2>1 DEF Framed, NativeOf, Members
  <1> QED
    BY <1>3, <1>9, <1>10, <1>11

\* No call is under way afterwards.
LEMMA NoCall ==
    ASSUME frame' = NoFrame
    PROVE  CallsSound' /\ Framed'
  <1>1. frame'.verdict = "none" /\ DOMAIN frame' = FrameFields
    BY DEF NoFrame, FrameFields
  <1> QED
    BY <1>1 DEF CallsSound, Framed

\* No call is under way before or after.
LEMMA IdleStep ==
    ASSUME Idle, Framed, frame' = frame
    PROVE  CallsSound' /\ Framed'
  BY DEF Idle, CallsSound, Framed

\* A read ends its call.
LEMMA ReadEndsCall ==
    ASSUME Framed, frame.verdict = "reached", NEW w \in {"threw", "returned"}, NEW text, NEW calls, NEW texts,
           NEW clean, NEW o, ReadEnds(w, text, calls, texts, clean, o)
    PROVE  CallsSound' /\ Framed' /\ class' = class /\ run' = run /\ copied' = copied
  <1>1. /\ DOMAIN frame' = FrameFields /\ frame'.verdict = w
        /\ frame'.cls = frame.cls /\ frame'.method = frame.method /\ frame'.native = frame.native
        /\ frame'.this = frame.this
    BY DEF ReadEnds, Framed, FrameFields
  <1>2. class' = class /\ run' = run /\ copied' = copied
    BY DEF ReadEnds
  <1> QED
    BY <1>1, <1>2 DEF CallsSound, Framed, Members, NativeOf

\* A read that returns does so too, and gives the script its result.
LEMMA ReadReturnsCall ==
    ASSUME Framed, frame.verdict = "reached", NEW text, NEW calls, NEW texts, NEW clean, NEW o,
           ReadReturns(text, calls, texts, clean, o)
    PROVE  /\ CallsSound' /\ Framed' /\ class' = class /\ run' = run /\ copied' = copied
           /\ \E s \in FreeSlots : slots' = [slots EXCEPT ![s] = Owner(objects'[o].cls, o, Gives.hook)]
  <1>1. ReadEnds("returned", text, calls, texts, clean, o)
    BY DEF ReadReturns
  <1>2. CallsSound' /\ Framed' /\ class' = class /\ run' = run /\ copied' = copied
    BY <1>1, ReadEndsCall
  <1> QED
    BY <1>2 DEF ReadReturns

\* Every step leaves the call under way sound.
LEMMA NextFrames ==
    ASSUME fault = "none" => Consistent, CallsSound, Next
    PROVE  CallsSound' /\ Framed'
  <1> USE DEF Consistent
  <1>1. ASSUME NEW s \in Slots, CreateInstance(s) \/ DropInstance(s) \/ CloneRefused(s) \/ PushParameter(s)
        PROVE  CallsSound' /\ Framed'
    <2>1. Idle /\ frame' = frame
      BY <1>1 DEF CreateInstance, DropInstance, CloneRefused, PushParameter, vars
    <2> QED
      BY <2>1, IdleStep DEF Idle
  <1>2. ASSUME NEW s \in Slots, NEW t \in Slots, CloneInstance(s, t)
        PROVE  CallsSound' /\ Framed'
    <2>1. Idle /\ frame' = frame
      BY <1>2 DEF CloneInstance
    <2> QED
      BY <2>1, IdleStep DEF Idle
  <1>3. ASSUME Idle, NEW s \in Occupied \cup {0}, NEW t \in Callable(s), Call(s, t)
        PROVE  CallsSound' /\ Framed'
    <2>1. Shape
      BY <1>3 DEF Idle
    <2>2. /\ Decided(frame'.native.forms, frame'.args,
                     frame'.native.kind = "method" => slots'[frame'.this].obj # 0, frame'.verdict)
          /\ Framed'
      BY <1>3, <2>1, CallDecided
    <2> QED
      BY <2>2 DEF Decided, CallsSound, Documented, SomeUnread
  <1>4. CASE Return
    BY <1>4, NoCall DEF Return
  <1>5. CASE Undefined
    BY <1>5, NoCall DEF Undefined, Done, Finished
  <1>6. CASE Construct
    BY <1>6, NoCall DEF Construct, Throw, Done, Finished
  <1>7. CASE TakePart
    BY <1>7, NoCall DEF TakePart, Throw, Done, Finished
  <1>8. CASE Serve \/ ServeStatic
    BY <1>8, NoCall DEF Serve, ServeStatic, Throw, Done, Finished
  <1>9. CASE NoteTranspose \/ PatternTranspose \/ PatternAdd
    BY <1>9, NoCall DEF NoteTranspose, PatternTranspose, PatternAdd, Throw, Done, Finished
  <1>10. CASE TuneTimeSignature \/ FileReadAll \/ MessageAdd \/ MessageArg
    BY <1>10, NoCall DEF TuneTimeSignature, FileReadAll, MessageAdd, MessageArg, Throw, Done, Finished
  <1>11. CASE DrumTabRead
    <2>1. Framed /\ frame.verdict = "reached"
      BY <1>11 DEF DrumTabRead, Reached, Served
    <2>2. PICK text : ReadReturns(text, << >>, DrumTexts, TRUE, Fresh(1))
      BY <1>11 DEF DrumTabRead
    <2> QED
      BY <2>1, <2>2, ReadReturnsCall
  <1>12. CASE MMLReaderRead
    <2>1. Framed /\ frame.verdict = "reached"
      BY <1>12 DEF MMLReaderRead, Reached, Served
    <2>2. Done \/ \E text, calls, clean : ReadReturns(text, calls, MMLTexts, clean, Fresh(1))
      BY <1>12 DEF MMLReaderRead
    <2>3. ASSUME NEW text, NEW calls, NEW clean, ReadReturns(text, calls, MMLTexts, clean, Fresh(1))
          PROVE  CallsSound' /\ Framed'
      BY <2>1, <2>3, ReadReturnsCall
    <2> QED
      BY <2>2, <2>3, NoCall DEF Done, Finished
  <1>13. CASE ABCReaderRead
    <2>1. Framed /\ frame.verdict = "reached"
      BY <1>13 DEF ABCReaderRead, Reached, Served
    <2>2. Done \/ \E text : ReadABC(text)
      BY <1>13 DEF ABCReaderRead
    <2>3. ASSUME NEW text, NEW calls, NEW parsed, NEW tunes, NEW kept, NEW n,
                 ABCReturns(text, calls, parsed, tunes, kept, n)
          PROVE  CallsSound' /\ Framed'
      <3>1. \/ ReadEnds("threw", text, calls, ABCTexts, Clean, 0)
            \/ Finished
            \/ ReadReturns(text, calls, ABCTexts, Clean, Fresh(n))
        BY <2>3 DEF ABCReturns
      <3> QED
        BY <2>1, <3>1, ReadEndsCall, ReadReturnsCall, NoCall DEF Finished
    <2>4. ASSUME NEW text, ReadABC(text) PROVE CallsSound' /\ Framed'
      <3>1. Finished \/ \E calls, parsed : ABCRead(text, calls, parsed)
        BY <2>4 DEF ReadABC
      <3>2. ASSUME NEW calls, NEW parsed, ABCRead(text, calls, parsed) PROVE CallsSound' /\ Framed'
        BY <2>3, <3>2 DEF ABCRead
      <3> QED
        BY <3>1, <3>2, NoCall DEF Finished
    <2> QED
      BY <2>2, <2>4, NoCall DEF Done, Finished
  <1>14. CASE EndScript \/ Restart \/ Close
    <2>1. Idle /\ frame' = frame
      BY <1>14 DEF EndScript, Restart, Close
    <2> QED
      BY <2>1, IdleStep DEF Idle
  <1> QED
    BY <1>1, <1>2, <1>3, <1>4, <1>5, <1>6, <1>7, <1>8, <1>9, <1>10, <1>11, <1>12, <1>13, <1>14
    DEF Next

-----------------------------------------------------------------------------
(***************************************************************************)
(* What a step leaves as it is.                                            *)
(***************************************************************************)

\* The instance in a slot stays, and its object keeps its class and, if the instance
\* stands for the whole of it, its life and its place in a cache.
SlotStays(r) ==
    /\ slots'[r] = slots[r]
    /\ slots[r].obj # 0 =>
          /\ objects'[slots[r].obj].cls = objects[slots[r].obj].cls
          /\ slots[r].path = << >> =>
                /\ objects'[slots[r].obj].cached = objects[slots[r].obj].cached
                /\ objects[slots[r].obj].live => objects'[slots[r].obj].live
                /\ objects[slots[r].obj].live /\ objects[slots[r].obj].wanted
                      => objects'[slots[r].obj].wanted

\* The classes, one by one, of the objects that objects of the script are made of.
Parts == {"buffer", "tracks", "tune"}

\* The objects in N are new, and of these only those in own are the script's; of the
\* others only parts of objects die.
Grows(N, own) ==
    /\ class' = class /\ run' = run /\ copied \subseteq copied' /\ DOMAIN objects' = DOMAIN objects
    /\ \A o \in DOMAIN objects :
          /\ ObjectShape(objects'[o])
          /\ o \in N => /\ objects[o].cls = "none" /\ ~objects'[o].cached
                        /\ o \notin own => objects'[o].cls \in Inner
          /\ o \notin N =>
                /\ objects'[o].cls = objects[o].cls /\ objects'[o].cached = objects[o].cached
                /\ objects[o].live /\ objects[o].cls \notin Parts => objects'[o].live
                /\ objects'[o].live =>
                      /\ objects[o].live /\ objects'[o].wanted = objects[o].wanted
                      /\ objects'[o].lost = objects[o].lost

\* A free slot gets an instance that deletes the new object o.
Gains(s, o, c) ==
    /\ s \in FreeSlots /\ slots' = [slots EXCEPT ![s] = Owner(c, o, c)]
    /\ o \in DOMAIN objects /\ objects[o].cls = "none" /\ Hookable(c)
    /\ objects'[o].cls = c /\ objects'[o].live /\ ~objects'[o].cached

\* What a slot that stays needs, it keeps.
LEMMA StayingSlot ==
    ASSUME Shape, Owned, Matching, Caching, class' = class, run' = run, DOMAIN objects' = DOMAIN objects,
           NEW r \in Slots, SlotStays(r)
    PROVE  /\ SlotShape(slots[r])' /\ Matched(r)' /\ KeptFor(r)'
           /\ slots[r].hook # NoHook => HookOf(r)'
  <1>1. SlotShape(slots[r]) /\ Matched(r) /\ KeptFor(r) /\ (slots[r].hook # NoHook => HookOf(r))
    BY DEF Shape, Owned, Matching, Caching, HookedSlots
  <1>2. SlotShape(slots[r])'
    BY <1>1 DEF SlotShape, SlotStays
  <1>3. Matched(r)'
    BY <1>1 DEF Matched, SlotStays
  <1>4. KeptFor(r)'
    BY <1>1 DEF KeptFor, SlotStays
  <1>5. slots[r].hook # NoHook => HookOf(r)'
    BY <1>1 DEF HookOf, SlotStays
  <1> QED
    BY <1>2, <1>3, <1>4, <1>5

\* The object of an instance that stands for the whole of one is not a part of another.
LEMMA WholeObject ==
    ASSUME Shape, Owned, Caching, NEW r \in Slots, slots[r].obj # 0, slots[r].path = << >>
    PROVE  objects[slots[r].obj].cls \notin Inner
  <1>1. CASE slots[r].hook # NoHook
    <2>1. HookOf(r)
      BY <1>1 DEF Owned, HookedSlots
    <2> QED
      BY <2>1, ClassNames DEF HookOf, Hookable
  <1>2. CASE slots[r].hook = NoHook
    BY <1>2 DEF Caching, KeptFor, Shape, SlotShape
  <1> QED
    BY <1>1, <1>2

\* When new objects come, every slot that is not overwritten stays.
LEMMA GrowingSlot ==
    ASSUME Shape, Owned, Caching, NEW N, NEW own, Grows(N, own), NEW r \in Slots, slots'[r] = slots[r]
    PROVE  SlotStays(r)
  <1> SUFFICES ASSUME slots[r].obj # 0
               PROVE  SlotStays(r)
    BY DEF SlotStays
  <1> DEFINE o == slots[r].obj
  <1>1. o \in DOMAIN objects /\ objects[o].cls # "none"
    BY DEF Shape, SlotShape
  <1>2. o \notin N
    BY <1>1 DEF Grows
  <1>3. slots[r].path = << >> => objects[o].cls \notin Parts
    BY WholeObject DEF Parts, Inner
  <1> QED
    BY <1>1, <1>2, <1>3 DEF SlotStays, Grows

\* The instance a slot gains is sound.
LEMMA GainedSlot ==
    ASSUME Shape, NEW N, NEW own, Grows(N, own), NEW s, NEW o, NEW c, Gains(s, o, c)
    PROVE  /\ s \in Slots /\ slots[s] = NoInstance /\ slots'[s].obj = o
           /\ \A r \in Slots : r # s => slots'[r] = slots[r]
           /\ SlotShape(slots[s])' /\ Matched(s)' /\ KeptFor(s)' /\ HookOf(s)'
  <1>1. s \in Slots /\ slots[s] = NoInstance
    BY DEF Gains, FreeSlots, Occupied
  <1>2. /\ slots'[s].cls = c /\ slots'[s].obj = o /\ slots'[s].path = << >> /\ slots'[s].hook = c
        /\ slots'[s].run = 0 /\ DOMAIN slots'[s] = SlotFields
    BY <1>1 DEF Gains, Owner, NoInstance, Shape, SlotFields
  <1>3. \A r \in Slots : r # s => slots'[r] = slots[r]
    BY DEF Gains, Shape
  <1>4. /\ o \in DOMAIN objects' /\ o # 0 /\ objects'[o].cls = c /\ objects'[o].live
        /\ ~objects'[o].cached /\ c \in DOMAIN Class /\ c # "none" /\ c # NoHook /\ Hookable(c)
    BY ClassNames DEF Gains, Grows, Hookable, Shape
  <1>5. run' = run /\ run \in Nat
    BY DEF Grows, Shape
  <1>6. SlotShape(slots[s])'
    <2>1. IsPath(slots'[s].path)
      BY <1>2, Paths
    <2> QED
      BY <1>2, <1>4, <1>5, <2>1 DEF SlotShape
  <1>7. Matched(s)'
    BY <1>2, <1>4 DEF Matched
  <1>8. KeptFor(s)'
    BY <1>2, <1>4 DEF KeptFor
  <1>9. HookOf(s)'
    BY <1>2, <1>4 DEF HookOf
  <1> QED
    BY <1>1, <1>2, <1>3, <1>6, <1>7, <1>8, <1>9

\* A step that only makes new objects keeps everything but the values in order.
LEMMA GrowingSound ==
    ASSUME Consistent, NEW N, NEW own, Grows(N, own),
           \/ own = {} /\ slots' = slots
           \/ \E s \in FreeSlots : \E o, c : own = {o} /\ Gains(s, o, c)
    PROVE  Shape' /\ Owned' /\ Matching' /\ Caching' /\ Deletable'
  <1> USE DEF Consistent
  <1>1. class' = class /\ run' = run /\ DOMAIN objects' = DOMAIN objects
    BY DEF Grows
  <1>2. ASSUME NEW r \in Slots, slots'[r] = slots[r]
        PROVE  /\ SlotShape(slots[r])' /\ Matched(r)' /\ KeptFor(r)'
               /\ slots[r].hook # NoHook => HookOf(r)'
    BY <1>1, <1>2, GrowingSlot, StayingSlot
  <1>3. DOMAIN slots' = Slots
    BY DEF Gains, Shape
  <1>4. /\ \A o \in DOMAIN objects' : ObjectShape(objects[o])'
        /\ \A o \in DOMAIN objects' : objects'[o].cached => objects'[o].cls \notin Inner
    BY <1>1 DEF Grows, Caching
  <1>5. class' = "Midi" => /\ StaticReader \in DOMAIN objects'
                           /\ objects'[StaticReader].cls = "reader" /\ objects'[StaticReader].live
    BY <1>1 DEF Grows, Shape, Parts
  <1>6. CASE own = {} /\ slots' = slots
    <2>1. \A r \in Slots : /\ SlotShape(slots[r])' /\ Matched(r)' /\ KeptFor(r)'
                           /\ slots[r].hook # NoHook => HookOf(r)'
      BY <1>2, <1>6
    <2>2. Shape'
      BY <1>1, <1>3, <1>4, <1>5, <2>1 DEF Shape
    <2>3. Owned'
      BY <1>6, <2>1 DEF Owned, HookedSlots
    <2>4. ASSUME NEW o \in DOMAIN objects, OwnObject(o)'
          PROVE  \E s \in HookedSlots' : slots'[s].obj = o
      <3>1. o \notin N
        BY <1>6, <2>4 DEF OwnObject, Grows
      <3>2. OwnObject(o)
        BY <2>4, <3>1 DEF OwnObject, Grows
      <3> QED
        BY <1>6, <3>2 DEF Deletable, HookedSlots
    <2> QED
      BY <1>1, <1>4, <2>1, <2>2, <2>3, <2>4 DEF Matching, Caching, Deletable
  <1>7. ASSUME NEW s, NEW o, NEW c, own = {o}, Gains(s, o, c)
        PROVE  Shape' /\ Owned' /\ Matching' /\ Caching' /\ Deletable'
    <2>1. /\ s \in Slots /\ slots[s] = NoInstance /\ slots'[s].obj = o
          /\ \A r \in Slots : r # s => slots'[r] = slots[r]
          /\ SlotShape(slots[s])' /\ Matched(s)' /\ KeptFor(s)' /\ HookOf(s)'
      BY <1>7, GainedSlot
    <2>2. \A r \in Slots : /\ SlotShape(slots[r])' /\ Matched(r)' /\ KeptFor(r)'
                           /\ slots'[r].hook # NoHook => HookOf(r)'
      BY <1>2, <2>1
    <2>3. Shape'
      BY <1>1, <1>3, <1>4, <1>5, <2>2 DEF Shape
    <2>4. ASSUME NEW r \in HookedSlots', NEW t \in HookedSlots', r # t
          PROVE  slots'[r].obj # slots'[t].obj
      <3>1. ASSUME NEW u \in HookedSlots', u # s PROVE u \in HookedSlots /\ slots'[u] = slots[u] /\ slots[u].obj # o
        <4>1. u \in HookedSlots /\ slots'[u] = slots[u]
          BY <2>1, <3>1 DEF HookedSlots
        <4>2. HookOf(u)
          BY <4>1 DEF Owned
        <4>3. objects[slots[u].obj].cls # "none"
          BY <4>2, ClassNames DEF HookOf, Hookable
        <4> QED
          BY <1>7, <4>1, <4>3 DEF Gains
      <3>2. CASE r = s
        BY <2>1, <2>4, <3>1, <3>2
      <3>3. CASE t = s
        BY <2>1, <2>4, <3>1, <3>3
      <3>4. CASE r # s /\ t # s
        BY <2>4, <3>1, <3>4 DEF Owned
      <3> QED
        BY <3>2, <3>3, <3>4
    <2>5. Owned'
      BY <2>2, <2>4 DEF Owned, HookedSlots
    <2>6. ASSUME NEW p \in DOMAIN objects, OwnObject(p)'
          PROVE  \E r \in HookedSlots' : slots'[r].obj = p
      <3>1. CASE p = o
        <4>1. s \in HookedSlots'
          BY <2>1, ClassNames DEF HookedSlots, HookOf, Hookable
        <4> QED
          BY <2>1, <3>1, <4>1
      <3>2. CASE p # o
        <4>1. p \notin N
          BY <1>7, <2>6, <3>2 DEF OwnObject, Grows
        <4>2. OwnObject(p)
          BY <2>6, <4>1 DEF OwnObject, Grows
        <4>3. PICK r \in HookedSlots : slots[r].obj = p
          BY <4>2 DEF Deletable
        <4>4. r # s
          BY <2>1, <4>3 DEF HookedSlots, NoInstance
        <4> QED
          BY <2>1, <4>3, <4>4 DEF HookedSlots
      <3> QED
        BY <3>1, <3>2
    <2> QED
      BY <1>1, <1>4, <2>2, <2>3, <2>5, <2>6 DEF Matching, Caching, Deletable
  <1> QED
    BY <1>6, <1>7

\* What an object holds is of the right class as long as other objects keep theirs.
LEMMA StayingValue ==
    ASSUME NEW o \in DOMAIN objects, ValueOf(o), DOMAIN objects' = DOMAIN objects, copied \subseteq copied',
           objects'[o].cls = objects[o].cls, objects'[o].val = objects[o].val,
           \A p \in DOMAIN objects : objects[p].cls # "none" => objects'[p].cls = objects[p].cls
    PROVE  ValueOf(o)'
  <1>1. ASSUME objects[o].cls = "Midi.Tune"
        PROVE  objects'[o].val \in DOMAIN objects' /\ objects'[objects'[o].val].cls \in {"tracks", "tune"}
    BY <1>1 DEF ValueOf
  <1>2. ASSUME objects[o].cls = "IO.File", objects[o].val # 0
        PROVE  objects'[o].val \in DOMAIN objects' /\ objects'[objects'[o].val].cls = "buffer"
    BY <1>2 DEF ValueOf
  <1>3. ASSUME Lister(o)
        PROVE  /\ DOMAIN objects'[o].val = {"meter", "tunes"}
               /\ objects'[o].val.tunes \in Seq(DOMAIN objects')
               /\ \A n \in DOMAIN objects'[o].val.tunes : objects'[objects'[o].val.tunes[n]].cls = "tune"
    <2>1. /\ DOMAIN objects[o].val = {"meter", "tunes"} /\ objects[o].val.tunes \in Seq(DOMAIN objects)
          /\ \A n \in DOMAIN objects[o].val.tunes : objects[objects[o].val.tunes[n]].cls = "tune"
      BY <1>3 DEF ValueOf
    <2>2. \A n \in DOMAIN objects[o].val.tunes : objects[o].val.tunes[n] \in DOMAIN objects
      BY <2>1
    <2> QED
      BY <2>1, <2>2
  <1>4. ASSUME objects[o].cls = "Midi.MMLReader"
        PROVE  /\ DOMAIN objects'[o].val = {"self", "chord", "out"}
               /\ objects'[o].val.self \in DOMAIN objects'
               /\ objects'[objects'[o].val.self].cls = "Midi.MMLReader"
               /\ objects'[o].val.out # 0 =>
                     /\ objects'[o].val.out \in DOMAIN objects'
                     /\ objects'[objects'[o].val.out].cls = "Midi.Pattern"
               /\ objects'[o].val.self = o \/ objects'[o].val.self \in copied'
    BY <1>4 DEF ValueOf
  <1> QED
    BY <1>1, <1>2, <1>3, <1>4 DEF ValueOf, Lister

\* So it is when new objects have come.
LEMMA GrowingValue ==
    ASSUME Shape, Valued, NEW N, NEW own, Grows(N, own), NEW o \in DOMAIN objects, o \notin N,
           objects'[o].live, objects'[o].val = objects[o].val
    PROVE  ValueOf(o)'
  <1>1. /\ objects[o].live /\ objects'[o].cls = objects[o].cls /\ DOMAIN objects' = DOMAIN objects
        /\ copied \subseteq copied'
    BY DEF Grows
  <1>2. ValueOf(o)
    BY <1>1 DEF Valued
  <1>3. ASSUME NEW p \in DOMAIN objects, objects[p].cls # "none" PROVE objects'[p].cls = objects[p].cls
    BY <1>3 DEF Grows
  <1> QED
    BY <1>1, <1>2, <1>3, StayingValue

\* Copies aside, only w comes to hold anything, which no other object holds; what the others
\* go on holding goes on living.
HandsOver(w) ==
    \A o, p \in DOMAIN objects :
        Holding(objects'[o], p) /\ p \notin copied' =>
           IF o = w
           THEN objects'[p].live /\ \A q \in DOMAIN objects : Holding(objects'[q], p) => q = w
           ELSE Holding(objects[o], p) /\ (objects[p].live => objects'[p].live)

\* Then what objects hold stays apart.
LEMMA HandedOver ==
    ASSUME Apart, DOMAIN objects' = DOMAIN objects, copied \subseteq copied', \E w : HandsOver(w)
    PROVE  Apart'
  <1>1. PICK w : HandsOver(w)
    OBVIOUS
  <1>2. ASSUME NEW o \in DOMAIN objects, NEW p \in DOMAIN objects, Holding(objects'[o], p), p \notin copied'
        PROVE  /\ objects'[p].live
               /\ \A q \in DOMAIN objects : Holding(objects'[q], p) => q = o
    <2>1. CASE o = w
      BY <1>1, <1>2, <2>1 DEF HandsOver
    <2>2. CASE o # w
      <3>1. Holding(objects[o], p) /\ (objects[p].live => objects'[p].live) /\ p \notin copied
        BY <1>1, <1>2, <2>2 DEF HandsOver
      <3>2. objects[p].live /\ \A q \in DOMAIN objects : Holding(objects[q], p) => q = o
        BY <3>1 DEF Apart
      <3>3. ASSUME NEW q \in DOMAIN objects, Holding(objects'[q], p) PROVE q = o
        <4>1. CASE q = w
          BY <1>1, <1>2, <2>2, <3>3, <4>1 DEF HandsOver
        <4>2. CASE q # w
          BY <1>1, <1>2, <3>2, <3>3, <4>2 DEF HandsOver
        <4> QED
          BY <4>1, <4>2
      <3> QED
        BY <3>1, <3>2, <3>3
    <2> QED
      BY <2>1, <2>2
  <1> QED
    BY <1>2 DEF Apart

\* What is held is a part.
LEMMA HeldPart ==
    ASSUME Shape, Valued, NEW o \in DOMAIN objects, NEW p, Holding(objects[o], p)
    PROVE  p \in DOMAIN objects /\ objects[p].cls \in Parts
  <1>1. ValueOf(o)
    BY DEF Valued, Holding
  <1>2. CASE objects[o].cls \in {"Midi.Tune", "IO.File"} /\ p = objects[o].val /\ p # 0
    BY <1>1, <1>2 DEF ValueOf, Parts
  <1>3. CASE /\ objects[o].cls \in {"Midi.ABCReader", "reader"}
             /\ \E n \in DOMAIN objects[o].val.tunes : p = objects[o].val.tunes[n]
    <2>1. PICK n \in DOMAIN objects[o].val.tunes : p = objects[o].val.tunes[n]
      BY <1>3
    <2>2. objects[o].val.tunes \in Seq(DOMAIN objects) /\ objects[p].cls = "tune"
      BY <1>1, <1>3, <2>1 DEF ValueOf, Lister
    <2>3. p \in DOMAIN objects
      BY ONLY <2>1, <2>2
    <2> QED
      BY <2>2, <2>3 DEF Parts
  <1> QED
    BY <1>2, <1>3 DEF Holding

\* The classes of objects that hold others.
Keepers == {"Midi.Tune", "IO.File", "Midi.ABCReader", "reader"}

\* No part dies, and no object that holds parts changes.
Quiet ==
    /\ \A o \in DOMAIN objects :
          objects'[o].live /\ objects'[o].cls \in Keepers =>
             objects[o].live /\ objects'[o].cls = objects[o].cls /\ objects'[o].val = objects[o].val
    /\ \A p \in DOMAIN objects : objects[p].live /\ objects[p].cls \in Parts => objects'[p].live

\* Then nothing is handed over.
LEMMA QuietStep ==
    ASSUME Shape, Valued, Quiet
    PROVE  \E w : HandsOver(w)
  <1>1. 0 \notin DOMAIN objects
    BY DEF Shape
  <1>2. ASSUME NEW o \in DOMAIN objects, NEW p \in DOMAIN objects, Holding(objects'[o], p)
        PROVE  Holding(objects[o], p) /\ (objects[p].live => objects'[p].live)
    <2>1. objects'[o].live /\ objects'[o].cls \in Keepers
      BY <1>2 DEF Holding, Keepers
    <2>2. objects[o].live /\ objects'[o].cls = objects[o].cls /\ objects'[o].val = objects[o].val
      BY <2>1 DEF Quiet
    <2>3. Holding(objects[o], p)
      BY <1>2, <2>2 DEF Holding
    <2>4. objects[p].cls \in Parts
      BY <2>3, HeldPart
    <2> QED
      BY <2>3, <2>4 DEF Quiet
  <1>3. HandsOver(0)
    BY <1>1, <1>2 DEF HandsOver
  <1> QED
    BY <1>3

\* So do they when no object changes.
LEMMA UnchangedApart ==
    ASSUME Apart, objects' = objects, copied \subseteq copied'
    PROVE  Apart'
  BY DEF Apart, Holding

\* Everything but the call under way is in order.
Ordered == Shape /\ Owned /\ Matching /\ Valued /\ Caching /\ Deletable /\ Apart

\* A step that makes new objects keeps everything in order when the values of the new
\* and the changed objects are.
LEMMA GrowingOrdered ==
    ASSUME Consistent, NEW N, NEW own, Grows(N, own),
           \/ own = {} /\ slots' = slots
           \/ \E s \in FreeSlots : \E o, c : own = {o} /\ Gains(s, o, c),
           \A o \in DOMAIN objects :
              objects'[o].live => (o \notin N /\ objects'[o].val = objects[o].val) \/ ValueOf(o)',
           \E w : HandsOver(w)
    PROVE  Ordered'
  <1>1. Shape' /\ Owned' /\ Matching' /\ Caching' /\ Deletable'
    BY GrowingSound
  <1>2. DOMAIN objects' = DOMAIN objects /\ copied \subseteq copied'
    BY DEF Grows
  <1>3. ASSUME NEW o \in DOMAIN objects, objects'[o].live
        PROVE  ValueOf(o)'
    BY <1>3, GrowingValue DEF Consistent
  <1>4. Valued'
    BY <1>2, <1>3 DEF Valued
  <1>5. Apart'
    BY <1>2, HandedOver DEF Consistent
  <1> QED
    BY <1>1, <1>4, <1>5 DEF Ordered

-----------------------------------------------------------------------------
(***************************************************************************)
(* The implementations.                                                    *)
(***************************************************************************)

\* An implementation other than a constructor has a living object to work on.
LEMMA ServedCall ==
    ASSUME Consistent, CallsSound, Served, frame.method # "constructor"
    PROVE  /\ frame.this \in Slots /\ It.cls = frame.cls /\ frame.cls \in DOMAIN Class
           /\ frame.method \in DOMAIN Class[frame.cls].methods
           /\ frame.native = Class[frame.cls].methods[frame.method]
           /\ It.obj \in DOMAIN objects /\ It.obj # 0
           /\ objects[It.obj].live /\ objects[It.obj].cls # "none"
  <1>1. frame.verdict = "reached" /\ frame.cls \notin Packages /\ It.cls = frame.cls /\ objects[It.obj].live
    BY DEF Served, Followable
  <1>2. /\ frame.cls \in DOMAIN Class /\ frame.this \in Slots /\ frame.method \in Members(frame.cls)
        /\ frame.native = NativeOf(frame.cls, frame.method)
    BY <1>1 DEF Consistent, Framed
  <1>3. /\ frame.native = Class[frame.cls].methods[frame.method] /\ frame.native.kind = "method"
        /\ frame.method \in DOMAIN Class[frame.cls].methods
    BY <1>2, CallablesWellFormed
  <1>4. It.obj # 0
    BY <1>1, <1>3 DEF CallsSound, It
  <1>5. It.obj \in DOMAIN objects /\ objects[It.obj].cls # "none"
    BY <1>2, <1>4 DEF Consistent, Shape, SlotShape, It
  <1> QED
    BY <1>1, <1>2, <1>3, <1>4, <1>5

\* Its object is of the class of the method when either holds other objects.
LEMMA ServedHolder ==
    ASSUME Consistent, CallsSound, Served, frame.method # "constructor"
    PROVE  /\ frame.cls \in Holders => /\ objects[It.obj].cls = frame.cls
                                      /\ Its = objects[It.obj].val
                                      /\ ValueOf(It.obj)
           /\ frame.cls \notin Holders => objects[It.obj].cls \notin Holders
  <1>1. Matched(frame.this) /\ It.obj # 0 /\ It.cls = frame.cls /\ It.obj \in DOMAIN objects
    BY ServedCall DEF Consistent, Matching
  <1>2. frame.cls \in Holders => objects[It.obj].cls = frame.cls /\ It.path = << >>
    BY <1>1 DEF Matched, It
  <1>3. frame.cls \notin Holders => objects[It.obj].cls \notin Holders
    BY <1>1 DEF Matched, It
  <1>4. It.path = << >> => Its = objects[It.obj].val
    BY DEF Its, Part
  <1>5. ValueOf(It.obj)
    BY <1>1, ServedCall DEF Consistent, Valued
  <1> QED
    BY <1>2, <1>3, <1>4, <1>5

\* A part of an object that holds no other is set.
LEMMA SettingPart ==
    ASSUME Consistent, CallsSound, Served, frame.method # "constructor", frame.cls \notin Holders,
           NEW v, SetPart(v), slots' = slots, class' = class, run' = run, copied' = copied
    PROVE  Ordered'
  <1>1. /\ It.obj \in DOMAIN objects /\ objects[It.obj].cls \notin Holders
    BY ServedCall, ServedHolder
  <1>2. /\ DOMAIN objects' = DOMAIN objects
        /\ \A o \in DOMAIN objects : o # It.obj => objects'[o] = objects[o]
        /\ objects'[It.obj] = [objects[It.obj] EXCEPT !.val = Replace(@, It.path, v)]
    BY <1>1 DEF SetPart
  <1>3. \A o \in DOMAIN objects : ObjectShape(objects[o])
    BY DEF Consistent, Shape
  <1>4. /\ objects'[It.obj].cls = objects[It.obj].cls /\ objects'[It.obj].live = objects[It.obj].live
        /\ objects'[It.obj].cached = objects[It.obj].cached
        /\ objects'[It.obj].wanted = objects[It.obj].wanted
        /\ objects'[It.obj].lost = objects[It.obj].lost
        /\ ObjectShape(objects'[It.obj])
    BY <1>1, <1>2, <1>3 DEF ObjectShape, ObjectFields
  <1>5. Grows({}, {})
    BY <1>2, <1>3, <1>4 DEF Grows
  <1>6. ASSUME NEW o \in DOMAIN objects, o = It.obj
        PROVE  ValueOf(o)'
    BY <1>1, <1>4, <1>6 DEF ValueOf, Lister, Holders
  <1>7. Quiet
    BY <1>1, <1>2, <1>4 DEF Quiet, Keepers, Holders
  <1>8. \E w : HandsOver(w)
    BY <1>7, QuietStep DEF Consistent
  <1> QED
    BY <1>2, <1>5, <1>6, <1>8, GrowingOrdered

\* A new object.
LEMMA NewObject ==
    ASSUME NEW c, NEW v, c # "none", c \in Inner \/ Hookable(c)
    PROVE  /\ ObjectShape(Object(c, v)) /\ Object(c, v).cls = c /\ Object(c, v).val = v
           /\ Object(c, v).live /\ ~Object(c, v).cached /\ ~Object(c, v).lost
  BY DEF Object, Unused, ObjectShape, ObjectFields

\* A dead object is of the class and in the cache it was in.
LEMMA DeadObject ==
    ASSUME NEW x, ObjectShape(x)
    PROVE  ObjectShape(Dead(x)) /\ Dead(x).cls = x.cls /\ Dead(x).cached = x.cached /\ ~Dead(x).live
  BY DEF Dead, Unused, ObjectShape, ObjectFields

\* An object with a new value.
LEMMA ChangedObject ==
    ASSUME NEW x, ObjectShape(x), NEW v
    PROVE  /\ ObjectShape([x EXCEPT !.val = v]) /\ [x EXCEPT !.val = v].cls = x.cls
           /\ [x EXCEPT !.val = v].val = v
           /\ [x EXCEPT !.val = v].live = x.live /\ [x EXCEPT !.val = v].cached = x.cached
           /\ [x EXCEPT !.val = v].wanted = x.wanted /\ [x EXCEPT !.val = v].lost = x.lost
  BY DEF ObjectShape, ObjectFields

\* A step makes one object and an instance that deletes it.
LEMMA OneMore ==
    ASSUME Consistent, Room(1), NEW s \in FreeSlots, NEW c, Hookable(c), NEW v, class' = class, run' = run, copied \subseteq copied',
           objects' = [objects EXCEPT ![Fresh(1)] = Object(c, v)],
           slots' = [slots EXCEPT ![s] = Owner(c, Fresh(1), c)],
           NEW o, o = Fresh(1),
           c \notin Holders \/ (ValueOf(o)' /\ (c \in Keepers => HandsOver(0)))
    PROVE  Ordered'
  <1>1. /\ o \in DOMAIN objects /\ objects[o].cls = "none"
    BY RoomForOne DEF Consistent
  <1>2. c \in DOMAIN Class /\ c # "none" /\ c \notin Inner
    BY ClassNames DEF Hookable
  <1>3. /\ DOMAIN objects' = DOMAIN objects
        /\ \A p \in DOMAIN objects : p # o => objects'[p] = objects[p]
        /\ objects'[o] = Object(c, v)
    BY <1>1
  <1>4. \A p \in DOMAIN objects : ObjectShape(objects[p])
    BY DEF Consistent, Shape
  <1>5. /\ ObjectShape(objects'[o]) /\ objects'[o].cls = c /\ objects'[o].live /\ ~objects'[o].cached
    BY <1>2, <1>3, NewObject
  <1>6. Grows({o}, {o})
    BY <1>1, <1>3, <1>4, <1>5 DEF Grows
  <1>7. Gains(s, o, c)
    BY <1>1, <1>5 DEF Gains
  <1>8. ValueOf(o)'
    <2>1. CASE c \notin Holders
      BY <1>2, <1>5, <2>1 DEF ValueOf, Lister, Holders, Inner
    <2> QED
      BY <2>1
  <1>9. \E r \in FreeSlots : \E p, d : {o} = {p} /\ Gains(r, p, d)
    BY <1>7
  <1>10. \A p \in DOMAIN objects :
            objects'[p].live => (p \notin {o} /\ objects'[p].val = objects[p].val) \/ ValueOf(p)'
    BY <1>3, <1>8
  <1>11. \E w : HandsOver(w)
    <2>1. CASE c \in Keepers
      BY <2>1 DEF Keepers, Holders
    <2>2. CASE c \notin Keepers
      <3>1. ~objects[o].live
        BY <1>1, <1>4 DEF ObjectShape
      <3>2. Quiet
        BY <1>3, <1>5, <2>2, <3>1 DEF Quiet
      <3> QED
        BY <3>2, QuietStep DEF Consistent
    <2> QED
      BY <2>1, <2>2
  <1> QED
    BY <1>6, <1>9, <1>10, <1>11, GrowingOrdered

\* A pattern, a note or a message is changed.
LEMMA ChangesOrdered ==
    ASSUME Consistent, CallsSound, NoteTranspose \/ PatternTranspose \/ PatternAdd \/ MessageAdd
    PROVE  Ordered'
  <1>1. /\ Served /\ frame.cls \in {"Midi.Note", "Midi.Pattern", "Osc.Message"}
        /\ frame.method \in {"transpose", "add"}
    BY DEF NoteTranspose, PatternTranspose, PatternAdd, MessageAdd, Reached
  <1>2. frame.method # "constructor" /\ frame.cls \notin Holders
    BY <1>1 DEF Holders
  <1>3. class' = class /\ run' = run /\ copied' = copied /\ slots' = slots
    BY DEF NoteTranspose, PatternTranspose, PatternAdd, MessageAdd, Throw, Done, Finished
  <1>4. objects' = objects \/ \E v : SetPart(v)
    BY DEF NoteTranspose, PatternTranspose, PatternAdd, MessageAdd, Throw
  <1>5. CASE objects' = objects
    BY <1>3, <1>5, UnchangedApart DEF Consistent, Ordered, Shape, Owned, Matching, Valued, Caching, Deletable,
       HookedSlots, ObjectShape, SlotShape, HookOf, Matched, ValueOf, Lister, KeptFor, OwnObject
  <1>6. ASSUME NEW v, SetPart(v) PROVE Ordered'
    BY <1>1, <1>2, <1>3, <1>6, SettingPart
  <1> QED
    BY <1>4, <1>5, <1>6

\* A tune gives a copy of its time signature.
LEMMA TuneTimeSignatureOrdered ==
    ASSUME Consistent, CallsSound, TuneTimeSignature
    PROVE  Ordered'
  <1> DEFINE c == "Transport.TimeSignature"
  <1>1. Served /\ frame.cls = "Midi.Tune" /\ frame.method = "timeSignature" /\ Room(1)
    BY DEF TuneTimeSignature, Reached
  <1>2. frame.native = Class["Midi.Tune"].methods["timeSignature"]
    BY <1>1, ServedCall
  <1>3. Gives.hook = c /\ Hookable(c)
    BY <1>2, HooksAssumption DEF Gives
  <1>4. PICK s \in FreeSlots : slots' = [slots EXCEPT ![s] = Owner(c, Fresh(1), c)]
    BY <1>3 DEF TuneTimeSignature
  <1>5. objects' = [objects EXCEPT ![Fresh(1)] = Object(c, << >>)] /\ class' = class /\ run' = run /\ copied' = copied
    BY DEF TuneTimeSignature, Done, Finished
  <1>6. c \notin Holders
    BY DEF Holders
  <1> QED
    BY <1>1, <1>3, <1>4, <1>5, <1>6, OneMore

\* A drum tab reader makes a pattern.
LEMMA DrumTabReadOrdered ==
    ASSUME Consistent, CallsSound, DrumTabRead
    PROVE  Ordered'
  <1> DEFINE c == "Midi.Pattern"
  <1>1. Served /\ frame.cls = "Midi.DrumTabReader" /\ frame.method = "read" /\ Room(1)
    BY DEF DrumTabRead, Reached
  <1>2. frame.native = Class["Midi.DrumTabReader"].methods["read"]
    BY <1>1, ServedCall
  <1>3. Gives.hook = c /\ Hookable(c)
    BY <1>2, HooksAssumption DEF Gives
  <1>4. PICK text : /\ objects' = [objects EXCEPT ![Fresh(1)] = Object(c, DrumRead(text))]
                    /\ ReadReturns(text, << >>, DrumTexts, TRUE, Fresh(1))
    BY DEF DrumTabRead
  <1>5. PICK s \in FreeSlots : slots' = [slots EXCEPT ![s] = Owner(objects'[Fresh(1)].cls, Fresh(1), Gives.hook)]
    BY <1>4 DEF ReadReturns
  <1>6. objects'[Fresh(1)].cls = c
    BY <1>1, <1>3, <1>4, RoomForOne, NewObject DEF Consistent
  <1>7. class' = class /\ run' = run /\ copied' = copied
    BY <1>4 DEF ReadReturns, ReadEnds
  <1>8. c \notin Holders
    BY DEF Holders
  <1>9. slots' = [slots EXCEPT ![s] = Owner(c, Fresh(1), c)]
    BY <1>3, <1>5, <1>6
  <1> QED
    BY <1>1, <1>3, <1>4, <1>7, <1>8, <1>9, OneMore

\* A handler gets a parameter.
LEMMA PushParameterOrdered ==
    ASSUME Consistent, NEW s \in Slots, PushParameter(s)
    PROVE  Ordered'
  <1>1. PICK p \in Pushed :
           /\ class = p.of /\ s \in FreeSlots /\ Room(1)
           /\ objects' = [objects EXCEPT ![Fresh(1)] = Object(class, << >>)]
           /\ slots' = [slots EXCEPT ![s] = Owner(class, Fresh(1), p.hook)]
           /\ class' = class /\ run' = run /\ copied' = copied
    BY DEF PushParameter
  <1>2. Hookable(class) /\ p.hook = class /\ class \notin Holders
    BY <1>1, HooksAssumption
  <1> QED
    BY <1>1, <1>2, OneMore

\* A clone is an object of its own, around what the original holds.
LEMMA CloneInstanceOrdered ==
    ASSUME Consistent, NEW s \in Slots, NEW t \in Slots, CloneInstance(s, t), fault' = "none"
    PROVE  Ordered'
  <1> DEFINE i == slots[s]
  <1> DEFINE x == objects[i.obj]
  <1>1. /\ t \in FreeSlots /\ Class[i.cls].cloned.clones /\ Room(1)
        /\ i.obj # 0 /\ x.live /\ s \in Occupied
        /\ objects' = [objects EXCEPT ![Fresh(1)] = Object(i.cls, Part(x.val, i.path))]
        /\ slots' = [slots EXCEPT ![t] = Owner(i.cls, Fresh(1), Class[i.cls].cloned.hook)]
        /\ class' = class /\ run' = run /\ copied' = copied \cup Shared(i.obj)
    BY DEF CloneInstance
  <1>2. i.cls \in DOMAIN Class /\ i.obj \in DOMAIN objects
    BY <1>1 DEF Consistent, Shape, SlotShape, Occupied
  <1>3. Hookable(i.cls) /\ Class[i.cls].cloned.hook = i.cls
    BY <1>1, <1>2, HooksAssumption
  <1>4. ASSUME NEW o, o = Fresh(1), i.cls \in Holders
        PROVE  ValueOf(o)'
    <2>1. i.cls = x.cls /\ i.path = << >>
      BY <1>1, <1>4 DEF Consistent, Matching, Matched
    <2>2. Part(x.val, i.path) = x.val
      BY <2>1 DEF Part
    <2>3. o \in DOMAIN objects /\ objects[o].cls = "none" /\ DOMAIN objects' = DOMAIN objects
      BY <1>1, <1>4, RoomForOne DEF Consistent
    <2>4. objects'[o].cls = x.cls /\ objects'[o].val = x.val
      BY <1>1, <1>2, <1>3, <1>4, <2>1, <2>2, <2>3, NewObject, ClassNames
    <2>5. ASSUME NEW p \in DOMAIN objects, objects[p].cls # "none" PROVE objects'[p].cls = objects[p].cls
      BY <1>1, <1>4, <2>3, <2>5
    <2>6. ValueOf(i.obj)
      BY <1>1, <1>2 DEF Consistent, Valued
    <2>8. ASSUME x.cls = "Midi.MMLReader" PROVE x.val.self \in copied'
      <3>1. x.val.self = i.obj \/ x.val.self \in copied
        BY <2>6, <2>8 DEF ValueOf
      <3>2. i.obj \in Shared(i.obj)
        BY <2>8 DEF Shared
      <3> QED
        BY <1>1, <3>1, <3>2
    <2> HIDE DEF i
    <2>7. ASSUME Lister(i.obj)
          PROVE  /\ DOMAIN x.val = {"meter", "tunes"} /\ x.val.tunes \in Seq(DOMAIN objects')
                 /\ \A n \in DOMAIN x.val.tunes : objects'[x.val.tunes[n]].cls = "tune"
      <3>1. /\ DOMAIN x.val = {"meter", "tunes"} /\ x.val.tunes \in Seq(DOMAIN objects)
            /\ \A n \in DOMAIN x.val.tunes : objects[x.val.tunes[n]].cls = "tune"
        BY <2>6, <2>7 DEF ValueOf
      <3>2. \A n \in DOMAIN x.val.tunes : x.val.tunes[n] \in DOMAIN objects
        BY <3>1
      <3> QED
        BY <2>3, <2>5, <3>1, <3>2
    <2> QED
      BY <2>3, <2>4, <2>5, <2>6, <2>7, <2>8 DEF ValueOf, Lister
  <1>5. ASSUME i.cls \in Keepers PROVE HandsOver(0)
    <2>1. PICK o : o = Fresh(1)
      OBVIOUS
    <2>2. i.cls = x.cls /\ i.path = << >>
      BY <1>1, <1>5 DEF Consistent, Matching, Matched, Keepers, Holders
    <2>3. Part(x.val, i.path) = x.val
      BY <2>2 DEF Part
    <2>4. o \in DOMAIN objects /\ 0 \notin DOMAIN objects
      BY <1>1, <2>1, RoomForOne DEF Consistent, Shape
    <2>5. objects'[o].cls = x.cls /\ objects'[o].val = x.val
      BY <1>1, <1>2, <1>3, <2>1, <2>2, <2>3, <2>4, NewObject, ClassNames
    <2>6. \A q \in DOMAIN objects : q # o => objects'[q] = objects[q]
      BY <1>1, <2>1
    <2>7. copied' = copied \cup Shared(i.obj)
      BY <1>1
    <2>8. ASSUME NEW p \in DOMAIN objects, Holding(objects'[o], p) PROVE p \in copied'
      <3>1. Holding(x, p)
        BY <1>1, <2>5, <2>8 DEF Holding
      <3>2. p \in Shared(i.obj)
        BY <3>1 DEF Holding, Shared, PartsOf, TunesOf
      <3> QED
        BY <2>7, <3>2
    <2>9. ASSUME NEW q \in DOMAIN objects, NEW p \in DOMAIN objects, Holding(objects'[q], p), p \notin copied'
          PROVE  Holding(objects[q], p) /\ (objects[p].live => objects'[p].live)
      <3>1. q # o
        BY <2>8, <2>9
      <3>2. Holding(objects[q], p)
        BY <2>6, <2>9, <3>1
      <3>3. objects[p].cls # "none"
        BY <3>2, HeldPart DEF Consistent, Parts
      <3>4. p # o
        BY <1>1, <2>1, <3>3, RoomForOne DEF Consistent
      <3> QED
        BY <2>6, <3>2, <3>4
    <2> QED
      BY <2>4, <2>9 DEF HandsOver
  <1>6. copied \subseteq copied'
    BY <1>1
  <1> QED
    BY <1>1, <1>3, <1>4, <1>5, <1>6, OneMore

\* A file frees the buffer it had and keeps a new one.
LEMMA FileReadAllOrdered ==
    ASSUME Consistent, CallsSound, FileReadAll, fault' = "none", objects' # objects
    PROVE  Ordered'
  <1>1. Served /\ frame.cls = "IO.File" /\ frame.method = "readAll" /\ Room(1)
    BY DEF FileReadAll, Reached, Throw
  <1>2. /\ It.obj \in DOMAIN objects /\ objects[It.obj].live /\ objects[It.obj].cls = "IO.File"
        /\ Its = objects[It.obj].val /\ ValueOf(It.obj)
    BY <1>1, ServedCall, ServedHolder DEF Holders
  <1>3. PICK f \in DOMAIN objects : f = It.obj
    BY <1>2
  <1>4. PICK n : n = Fresh(1) /\ n \in DOMAIN objects /\ objects[n].cls = "none" /\ n # 0
    BY <1>1, RoomForOne DEF Consistent
  <1>5. Its # 0 => Its \in DOMAIN objects /\ objects[Its].cls = "buffer"
    BY <1>2 DEF ValueOf
  <1>6. /\ class' = class /\ run' = run /\ copied' = copied /\ slots' = slots
        /\ objects' = [o \in DOMAIN objects |->
                        IF o = f THEN [objects[o] EXCEPT !.val = n]
                        ELSE IF o = n THEN Object("buffer", << >>)
                        ELSE IF o = Its THEN Dead(objects[o])
                        ELSE objects[o]]
    BY <1>3, <1>4 DEF FileReadAll, Throw, Done, Finished
  <1>7. \A o \in DOMAIN objects : ObjectShape(objects[o])
    BY DEF Consistent, Shape
  <1>8. f # n /\ objects[f].cls = "IO.File" /\ objects[f].live
    BY <1>2, <1>3, <1>4
  <1>9. /\ ObjectShape(objects'[f]) /\ objects'[f].cls = objects[f].cls /\ objects'[f].val = n
        /\ objects'[f].live = objects[f].live /\ objects'[f].cached = objects[f].cached
        /\ objects'[f].wanted = objects[f].wanted /\ objects'[f].lost = objects[f].lost
    <2>1. objects'[f] = [objects[f] EXCEPT !.val = n]
      BY <1>6
    <2> QED
      BY <1>7, <2>1, ChangedObject
  <1>10. /\ ObjectShape(objects'[n]) /\ objects'[n].cls = "buffer" /\ ~objects'[n].cached
    <2>1. objects'[n] = Object("buffer", << >>)
      BY <1>4, <1>6, <1>8
    <2> QED
      BY <2>1, NewObject DEF Inner
  <1>11. ASSUME NEW o \in DOMAIN objects, o # f, o # n
         PROVE  /\ ObjectShape(objects'[o]) /\ objects'[o].cls = objects[o].cls
                /\ objects'[o].cached = objects[o].cached
                /\ objects'[o].live => objects'[o] = objects[o]
                /\ objects[o].live /\ objects[o].cls # "buffer" => objects'[o].live
    <2>1. CASE o = Its
      <3>1. objects'[o] = Dead(objects[o])
        BY <1>6, <1>11, <2>1
      <3>2. o # 0 => objects[o].cls = "buffer"
        BY <1>5, <2>1
      <3>3. o # 0
        BY <1>11 DEF Consistent, Shape
      <3> QED
        BY <1>7, <3>1, <3>2, <3>3, DeadObject
    <2>2. CASE o # Its
      <3>1. objects'[o] = objects[o]
        BY <1>6, <1>11, <2>2
      <3> QED
        BY <1>7, <3>1
    <2> QED
      BY <2>1, <2>2
  <1>12. DOMAIN objects' = DOMAIN objects
    BY <1>6
  <1>13. Grows({n}, {})
    BY <1>4, <1>6, <1>8, <1>9, <1>10, <1>11, <1>12 DEF Grows, Parts, Inner
  <1>14. ValueOf(n)'
    BY <1>10 DEF ValueOf, Lister
  <1>15. ValueOf(f)'
    BY <1>4, <1>8, <1>9, <1>10, <1>12 DEF ValueOf, Lister
  <1>16. ASSUME NEW o \in DOMAIN objects, objects'[o].live
         PROVE  (o \notin {n} /\ objects'[o].val = objects[o].val) \/ ValueOf(o)'
    BY <1>11, <1>14, <1>15, <1>16
  <1>17. HandsOver(f)
    <2>1. objects'[n].live /\ n # f
      <3>1. objects'[n] = Object("buffer", << >>)
        BY <1>4, <1>6, <1>8
      <3> QED
        BY <1>8, <3>1, NewObject DEF Inner
    <2>3. ASSUME NEW o \in DOMAIN objects, NEW p \in DOMAIN objects, Holding(objects'[o], p), o # f
          PROVE  Holding(objects[o], p) /\ objects[p].cls \in Parts
      <3>1. o # n
        BY <1>10, <2>3 DEF Holding
      <3>2. objects'[o] = objects[o]
        BY <1>11, <2>3, <3>1 DEF Holding
      <3> QED
        BY <2>3, <3>2, HeldPart DEF Consistent
    <2>4. ASSUME NEW p \in DOMAIN objects, Holding(objects'[f], p)
          PROVE  p = n
      BY <1>8, <1>9, <2>4 DEF Holding
    <2>5. ASSUME NEW o \in DOMAIN objects, NEW p \in DOMAIN objects, Holding(objects'[o], p), o # f,
                 objects[p].live, p \notin copied
          PROVE  objects'[p].live
      <3>1. CASE p = Its
        <4>1. p # 0
          BY DEF Consistent, Shape
        <4>2. Holding(objects[f], p)
          BY <1>2, <1>3, <3>1, <4>1 DEF Holding
        <4> QED
          BY <2>3, <2>5, <4>2 DEF Consistent, Apart
      <3>2. CASE p # Its
        <4>1. p # n /\ p # f
          BY <1>4, <1>8, <2>3, <2>5 DEF Parts
        <4>2. objects'[p] = objects[p]
          BY <1>6, <3>2, <4>1
        <4> QED
          BY <2>5, <4>2
      <3> QED
        BY <3>1, <3>2
    <2>6. ASSUME NEW q \in DOMAIN objects, Holding(objects'[q], n) PROVE q = f
      BY <1>4, <2>3, <2>6 DEF Parts
    <2> QED
      BY <1>6, <2>1, <2>3, <2>4, <2>5, <2>6 DEF HandsOver
  <1>18. \E w : HandsOver(w)
    BY <1>17
  <1> QED
    BY <1>6, <1>13, <1>16, <1>18, GrowingOrdered

\* An MML reader makes a pattern; the notes may go to that of another reader.
LEMMA MMLReaderReadOrdered ==
    ASSUME Consistent, CallsSound, MMLReaderRead, fault' = "none"
    PROVE  Ordered'
  <1> DEFINE c == "Midi.Pattern"
  <1>1. Served /\ frame.cls = "Midi.MMLReader" /\ frame.method = "read" /\ Room(1)
    BY DEF MMLReaderRead, Reached
  <1>2. frame.native = Class["Midi.MMLReader"].methods["read"]
    BY <1>1, ServedCall
  <1>3. Gives.hook = c /\ Hookable(c)
    BY <1>2, HooksAssumption DEF Gives
  <1>4. /\ It.obj \in DOMAIN objects /\ objects[It.obj].live /\ objects[It.obj].cls = "Midi.MMLReader"
        /\ Its = objects[It.obj].val /\ ValueOf(It.obj)
    BY <1>1, ServedCall, ServedHolder DEF Holders
  <1>5. PICK i \in DOMAIN objects : i = It.obj
    BY <1>4
  <1>6. PICK n : n = Fresh(1) /\ n \in DOMAIN objects /\ objects[n].cls = "none" /\ n # 0
    BY <1>1, RoomForOne DEF Consistent
  <1>7. PICK self \in DOMAIN objects : self = Its.self /\ objects[self].cls = "Midi.MMLReader"
    BY <1>4 DEF ValueOf
  <1>8. PICK text, calls :
            LET caller == Its.self
                to == IF caller = It.obj THEN Fresh(1) ELSE objects[caller].val.out
                read == MMLRead(objects[caller].val.chord, calls)
                adds == read.notes # << >>
                sound == objects[caller].live /\ (adds => to # 0)
                            /\ (adds /\ to # Fresh(1) => objects[to].live)
            IN  IF ~sound
                THEN fault' = "dangling"
                ELSE /\ objects' = [o \in DOMAIN objects |->
                        CASE o = It.obj /\ o = caller ->
                                [objects[o] EXCEPT !.val.out = Fresh(1), !.val.chord = read.chord]
                          [] o = It.obj /\ o # caller -> [objects[o] EXCEPT !.val.out = Fresh(1)]
                          [] o = caller /\ o # It.obj -> [objects[o] EXCEPT !.val.chord = read.chord]
                          [] o = Fresh(1) ->
                                Object("Midi.Pattern", IF to = o THEN read.notes ELSE << >>)
                          [] o = to /\ o # Fresh(1) -> [objects[o] EXCEPT !.val = @ \o read.notes]
                          [] OTHER -> objects[o]]
                     /\ ReadReturns(text, calls, MMLTexts, caller = It.obj /\ Its.chord = << >>, Fresh(1))
    BY DEF MMLReaderRead
  <1> DEFINE caller == Its.self
  <1> DEFINE to == IF caller = It.obj THEN Fresh(1) ELSE objects[caller].val.out
  <1> DEFINE read == MMLRead(objects[caller].val.chord, calls)
  <1> DEFINE first == IF to = n THEN read.notes ELSE << >>
  <1> DEFINE chord == read.chord
  <1> DEFINE notes == read.notes
  <1>9. /\ DOMAIN objects' = DOMAIN objects
        /\ \A o \in DOMAIN objects :
              /\ o = i /\ o = self =>
                    objects'[o] = [objects[o] EXCEPT !.val.out = n, !.val.chord = chord]
              /\ o = i /\ o # self => objects'[o] = [objects[o] EXCEPT !.val.out = n]
              /\ o = self /\ o # i => objects'[o] = [objects[o] EXCEPT !.val.chord = chord]
              /\ o # self /\ o # i /\ o = n => objects'[o] = Object(c, first)
              /\ o # self /\ o # i /\ o # n /\ o = to =>
                    objects'[o] = [objects[o] EXCEPT !.val = @ \o notes]
              /\ o # self /\ o # i /\ o # n /\ o # to => objects'[o] = objects[o]
        /\ to = n \/ to = objects[self].val.out
    <2>1. objects' = [o \in DOMAIN objects |->
                        CASE o = It.obj /\ o = caller ->
                                [objects[o] EXCEPT !.val.out = Fresh(1), !.val.chord = read.chord]
                          [] o = It.obj /\ o # caller -> [objects[o] EXCEPT !.val.out = Fresh(1)]
                          [] o = caller /\ o # It.obj -> [objects[o] EXCEPT !.val.chord = read.chord]
                          [] o = Fresh(1) ->
                                Object("Midi.Pattern", IF to = o THEN read.notes ELSE << >>)
                          [] o = to /\ o # Fresh(1) -> [objects[o] EXCEPT !.val = @ \o read.notes]
                          [] OTHER -> objects[o]]
      BY <1>8
    <2>2. to = n \/ to = objects[self].val.out
      BY <1>6, <1>7
    <2> HIDE DEF read, to, first, chord, notes
    <2>3. DOMAIN objects' = DOMAIN objects
      BY <2>1
    <2>4. ASSUME NEW o \in DOMAIN objects
          PROVE  /\ o = i /\ o = self =>
                       objects'[o] = [objects[o] EXCEPT !.val.out = n, !.val.chord = read.chord]
                 /\ o = i /\ o # self => objects'[o] = [objects[o] EXCEPT !.val.out = n]
                 /\ o = self /\ o # i => objects'[o] = [objects[o] EXCEPT !.val.chord = read.chord]
                 /\ o # self /\ o # i /\ o = n => objects'[o] = Object(c, first)
                 /\ o # self /\ o # i /\ o # n /\ o = to =>
                       objects'[o] = [objects[o] EXCEPT !.val = @ \o read.notes]
                 /\ o # self /\ o # i /\ o # n /\ o # to => objects'[o] = objects[o]
      <3>1. i = It.obj /\ n = Fresh(1) /\ self = caller /\ i # n /\ self # n
        BY <1>4, <1>5, <1>6, <1>7
      <3> DEFINE both == [objects[o] EXCEPT !.val.out = n, !.val.chord = read.chord]
      <3> DEFINE mine == [objects[o] EXCEPT !.val.out = n]
      <3> DEFINE its == [objects[o] EXCEPT !.val.chord = read.chord]
      <3> DEFINE new == Object(c, IF to = o THEN read.notes ELSE << >>)
      <3> DEFINE more == [objects[o] EXCEPT !.val = @ \o read.notes]
      <3>2. objects'[o] = CASE o = i /\ o = self -> both
                            [] o = i /\ o # self -> mine
                            [] o = self /\ o # i -> its
                            [] o = n -> new
                            [] o = to /\ o # n -> more
                            [] OTHER -> objects[o]
        BY <2>1, <3>1
      <3>3. o = to /\ o # n => o # i /\ o # self
        <4>1. 0 \notin DOMAIN objects
          BY DEF Consistent, Shape
        <4>2. ASSUME objects[self].live
              PROVE  objects[self].val.out = 0 \/ objects[objects[self].val.out].cls = c
          <5>1. ValueOf(self)
            BY <4>2 DEF Consistent, Valued
          <5> QED
            BY <1>7, <5>1 DEF ValueOf
        <4>3. o = to /\ o # n => objects[o].cls = c
          BY <1>8, <2>2, <4>1, <4>2, <3>1
        <4> QED
          BY <1>4, <1>5, <1>7, <4>3
      <3>4. o = n => new = Object(c, first)
        BY DEF first
      <3> HIDE DEF both, mine, its, new, more
      <3>5. /\ o = i /\ o = self => objects'[o] = both
            /\ o = i /\ o # self => objects'[o] = mine
            /\ o = self /\ o # i => objects'[o] = its
            /\ o # self /\ o # i /\ o = n => objects'[o] = new
            /\ o # self /\ o # i /\ o # n /\ o = to => objects'[o] = more
            /\ o # self /\ o # i /\ o # n /\ o # to => objects'[o] = objects[o]
        BY <3>1, <3>2, <3>3
      <3> QED
        BY ONLY <3>4, <3>5, Zenon DEF both, mine, its, more
    <2>5. \A o \in DOMAIN objects :
                 /\ o = i /\ o = self =>
                       objects'[o] = [objects[o] EXCEPT !.val.out = n, !.val.chord = chord]
                 /\ o = i /\ o # self => objects'[o] = [objects[o] EXCEPT !.val.out = n]
                 /\ o = self /\ o # i => objects'[o] = [objects[o] EXCEPT !.val.chord = chord]
                 /\ o # self /\ o # i /\ o = n => objects'[o] = Object(c, first)
                 /\ o # self /\ o # i /\ o # n /\ o = to =>
                       objects'[o] = [objects[o] EXCEPT !.val = @ \o notes]
                 /\ o # self /\ o # i /\ o # n /\ o # to => objects'[o] = objects[o]
      BY <2>4, Zenon DEF chord, notes
    <2> QED
      BY <2>2, <2>3, <2>5, Zenon
  <1>10. /\ class' = class /\ run' = run /\ copied' = copied /\ objects[self].live
         /\ \E s \in FreeSlots : slots' = [slots EXCEPT ![s] = Owner(objects'[n].cls, n, Gives.hook)]
    BY <1>6, <1>7, <1>8 DEF ReadReturns, ReadEnds
  <1> HIDE DEF caller, to, read, first, chord, notes
  <1>11. \A o \in DOMAIN objects : ObjectShape(objects[o])
    BY DEF Consistent, Shape
  <1>12. i # n /\ self # n /\ objects[i].cls = "Midi.MMLReader" /\ objects[i].live
    BY <1>4, <1>5, <1>6, <1>7
  <1>13. ValueOf(i) /\ ValueOf(self)
    BY <1>12, <1>10 DEF Consistent, Valued
  <1>14. DOMAIN objects' = DOMAIN objects
    BY <1>9
  <1>15. objects'[n] = Object(c, first)
    BY <1>6, <1>12, <1>9
  <1>16. /\ ObjectShape(objects'[n]) /\ objects'[n].cls = c /\ objects'[n].live /\ ~objects'[n].cached
    BY <1>3, <1>15, NewObject
  <1>17. to # n => to # i /\ to # self
    <2>1. 0 \notin DOMAIN objects
      BY DEF Consistent, Shape
    <2>2. objects[self].val.out = 0 \/ objects[objects[self].val.out].cls = c
      BY <1>7, <1>13 DEF ValueOf
    <2>3. to # n => to = 0 \/ objects[to].cls = c
      BY <1>9, <2>2
    <2> QED
      BY <1>7, <1>12, <2>1, <2>3
  <1>18. ASSUME NEW o \in DOMAIN objects, o # n
         PROVE  \/ objects'[o] = objects[o]
                \/ \E v : objects'[o] = [objects[o] EXCEPT !.val = v]
    <2>1. CASE o = i /\ o = self
      <3>1. objects'[o] = [objects[o] EXCEPT !.val = [@ EXCEPT !.out = n, !.chord = chord]]
        BY <1>9, <2>1
      <3> QED
        BY <3>1
    <2>2. CASE o = i /\ o # self
      <3>1. objects'[o] = [objects[o] EXCEPT !.val = [@ EXCEPT !.out = n]]
        BY <1>9, <2>2
      <3> QED
        BY <3>1
    <2>3. CASE o = self /\ o # i
      <3>1. objects'[o] = [objects[o] EXCEPT !.val = [@ EXCEPT !.chord = chord]]
        BY <1>9, <2>3
      <3> QED
        BY <3>1
    <2>4. CASE o # self /\ o # i /\ o = to
      <3>1. objects'[o] = [objects[o] EXCEPT !.val = @ \o notes]
        BY <1>18, <1>9, <2>4
      <3> QED
        BY <3>1
    <2>5. CASE o # self /\ o # i /\ o # to
      BY <1>18, <1>9, <2>5
    <2> QED
      BY <2>1, <2>2, <2>3, <2>4, <2>5
  <1>19. ASSUME NEW o \in DOMAIN objects, o # n
         PROVE  /\ ObjectShape(objects'[o]) /\ objects'[o].cls = objects[o].cls
                /\ objects'[o].live = objects[o].live /\ objects'[o].cached = objects[o].cached
                /\ objects'[o].wanted = objects[o].wanted /\ objects'[o].lost = objects[o].lost
    <2>1. CASE objects'[o] = objects[o]
      BY <1>11, <2>1
    <2>2. ASSUME NEW v, objects'[o] = [objects[o] EXCEPT !.val = v]
          PROVE  /\ ObjectShape(objects'[o]) /\ objects'[o].cls = objects[o].cls
                 /\ objects'[o].live = objects[o].live /\ objects'[o].cached = objects[o].cached
                 /\ objects'[o].wanted = objects[o].wanted /\ objects'[o].lost = objects[o].lost
      BY <1>11, <2>2, ChangedObject
    <2> QED
      BY <1>18, <1>19, <2>1, <2>2
  <1>20. Grows({n}, {n})
    BY <1>6, <1>14, <1>16, <1>19, <1>10 DEF Grows
  <1>21. \E s \in FreeSlots : Gains(s, n, c)
    BY <1>3, <1>6, <1>16, <1>10 DEF Gains
  <1>22. ValueOf(n)'
    BY <1>16 DEF ValueOf, Lister
  <1>23. DOMAIN objects[i].val = {"self", "chord", "out"} /\ DOMAIN objects[self].val = {"self", "chord", "out"}
    BY <1>7, <1>12, <1>13 DEF ValueOf
  <1>24. ObjectShape(objects[i]) /\ ObjectShape(objects[self])
    BY <1>11
  <1>25. /\ DOMAIN objects'[i].val = {"self", "chord", "out"}
         /\ objects'[i].val.self = objects[i].val.self /\ objects'[i].val.out = n
    <2>1. CASE i = self
      <3>1. objects'[i] = [objects[i] EXCEPT !.val.out = n, !.val.chord = chord]
        BY <1>9, <2>1
      <3> QED
        BY <1>23, <1>24, <3>1 DEF ObjectShape, ObjectFields
    <2>2. CASE i # self
      <3>1. objects'[i] = [objects[i] EXCEPT !.val.out = n]
        BY <1>9, <2>2
      <3> QED
        BY <1>23, <1>24, <3>1 DEF ObjectShape, ObjectFields
    <2> QED
      BY <2>1, <2>2
  <1>26. self # i =>
         /\ DOMAIN objects'[self].val = {"self", "chord", "out"}
         /\ objects'[self].val.self = objects[self].val.self
         /\ objects'[self].val.out = objects[self].val.out
    <2> SUFFICES ASSUME self # i
                 PROVE  /\ DOMAIN objects'[self].val = {"self", "chord", "out"}
                        /\ objects'[self].val.self = objects[self].val.self
                        /\ objects'[self].val.out = objects[self].val.out
      OBVIOUS
    <2>1. objects'[self] = [objects[self] EXCEPT !.val.chord = chord]
      BY <1>9
    <2> QED
      BY <1>23, <1>24, <2>1 DEF ObjectShape, ObjectFields
  <1>27. ASSUME NEW o \in DOMAIN objects, objects[o].cls # "none" PROVE objects'[o].cls = objects[o].cls
    BY <1>6, <1>19, <1>27
  <1>28. ValueOf(i)'
    <2>1. objects'[i].cls = "Midi.MMLReader" /\ objects'[i].val.self = self
      BY <1>5, <1>7, <1>12, <1>19, <1>25, <1>4
    <2>2. objects'[self].cls = "Midi.MMLReader" /\ objects'[n].cls = c
      BY <1>7, <1>12, <1>16, <1>19
    <2>3. self = i \/ self \in copied'
      BY <1>4, <1>5, <1>7, <1>10, <1>12, <1>13 DEF ValueOf
    <2> QED
      BY <1>6, <1>14, <1>25, <2>1, <2>2, <2>3 DEF ValueOf, Lister
  <1>29. self # i => ValueOf(self)'
    BY <1>7, <1>10, <1>12, <1>13, <1>14, <1>19, <1>26, <1>27 DEF ValueOf, Lister
  <1>30. ASSUME NEW o \in DOMAIN objects, objects'[o].live, o # n, o # i, o # self
         PROVE  objects'[o].val = objects[o].val \/ objects'[o].cls = c
    <2>1. CASE o = to
      <3>1. objects[o].cls = c
        <4>1. 0 \notin DOMAIN objects
          BY DEF Consistent, Shape
        <4>2. o = objects[self].val.out /\ o # 0
          BY <1>30, <1>9, <2>1, <4>1
        <4> QED
          BY <1>7, <1>13, <4>2 DEF ValueOf
      <3> QED
        BY <1>19, <1>30, <3>1
    <2>2. CASE o # to
      BY <1>30, <1>9, <2>2
    <2> QED
      BY <2>1, <2>2
  <1>31. ASSUME NEW o \in DOMAIN objects, objects'[o].live
         PROVE  (o \notin {n} /\ objects'[o].val = objects[o].val) \/ ValueOf(o)'
    <2>1. CASE o \in {n, i, self}
      BY <1>22, <1>28, <1>29, <1>31, <2>1
    <2>2. CASE o \notin {n, i, self} /\ objects'[o].cls = c
      BY <2>2 DEF ValueOf, Lister
    <2>3. CASE o \notin {n, i, self} /\ objects'[o].cls # c
      BY <1>30, <1>31, <2>3
    <2> QED
      BY <2>1, <2>2, <2>3
  <1>32. \E s \in FreeSlots : \E o, d : {n} = {o} /\ Gains(s, o, d)
    BY <1>21
  <1>33. Quiet
    <2>1. ASSUME NEW o \in DOMAIN objects, objects'[o].live, objects'[o].cls \in Keepers
          PROVE  objects[o].live /\ objects'[o].cls = objects[o].cls /\ objects'[o].val = objects[o].val
      <3>1. o # n
        BY <1>16, <2>1 DEF Keepers
      <3>2. objects'[o].live = objects[o].live /\ objects'[o].cls = objects[o].cls
        BY <1>19, <3>1
      <3>3. o # i /\ o # self
        BY <1>7, <1>12, <2>1, <3>2 DEF Keepers
      <3> QED
        BY <1>30, <2>1, <3>1, <3>2, <3>3 DEF Keepers
    <2>2. ASSUME NEW p \in DOMAIN objects, objects[p].live, objects[p].cls \in Parts
          PROVE  objects'[p].live
      BY <1>6, <1>19, <2>2 DEF Parts
    <2> QED
      BY <2>1, <2>2 DEF Quiet
  <1>34. \E w : HandsOver(w)
    BY <1>33, QuietStep DEF Consistent
  <1> QED
    BY <1>20, <1>31, <1>32, <1>34, GrowingOrdered

\* What changes neither instances nor objects leaves them in order.
LEMMA UnchangedOrdered ==
    ASSUME Consistent, class' = class, run' = run, copied' = copied, slots' = slots, objects' = objects
    PROVE  Ordered'
  BY UnchangedApart DEF Consistent, Ordered, Shape, Owned, Matching, Valued, Caching, Deletable,
     HookedSlots, ObjectShape, SlotShape, HookOf, Matched, ValueOf, Lister, KeptFor, OwnObject

\* One instance changes; the others stay.
LEMMA OneSlotOrdered ==
    ASSUME Consistent, NEW s \in Slots, class' = class, run' = run, copied' = copied,
           DOMAIN slots' = Slots, DOMAIN objects' = DOMAIN objects,
           \A r \in Slots : r # s => SlotStays(r),
           SlotShape(slots[s])' /\ Matched(s)' /\ KeptFor(s)',
           slots'[s].hook # NoHook => HookOf(s)',
           slots'[s].hook # NoHook => \A r \in HookedSlots \ {s} : slots[r].obj # slots'[s].obj,
           \A o \in DOMAIN objects :
              /\ ObjectShape(objects'[o]) /\ (objects'[o].cached => objects'[o].cls \notin Inner)
              /\ objects'[o].live => ValueOf(o)'
              /\ OwnObject(o)' => \/ OwnObject(o) /\ (slots[s].hook # NoHook => slots[s].obj # o)
                                  \/ slots'[s].hook # NoHook /\ slots'[s].obj = o,
           class = "Midi" => objects'[StaticReader].cls = "reader" /\ objects'[StaticReader].live,
           Apart'
    PROVE  Ordered'
  <1> USE DEF Consistent
  <1>1. ASSUME NEW r \in Slots
        PROVE  /\ SlotShape(slots[r])' /\ Matched(r)' /\ KeptFor(r)'
               /\ slots'[r].hook # NoHook => HookOf(r)'
    <2>1. CASE r = s
      BY <2>1
    <2>2. CASE r # s
      BY <2>2, StayingSlot DEF SlotStays
    <2> QED
      BY <2>1, <2>2
  <1>2. Shape'
    BY <1>1 DEF Shape
  <1>3. ASSUME NEW r \in HookedSlots', NEW t \in HookedSlots', r # t
        PROVE  slots'[r].obj # slots'[t].obj
    <2>1. ASSUME NEW u \in HookedSlots', u # s PROVE u \in HookedSlots /\ slots'[u] = slots[u]
      BY <2>1 DEF HookedSlots, SlotStays
    <2>2. CASE r = s
      BY <1>3, <2>1, <2>2 DEF HookedSlots
    <2>3. CASE t = s
      BY <1>3, <2>1, <2>3 DEF HookedSlots
    <2>4. CASE r # s /\ t # s
      BY <1>3, <2>1, <2>4 DEF Owned
    <2> QED
      BY <2>2, <2>3, <2>4
  <1>4. Owned'
    BY <1>1, <1>3 DEF Owned, HookedSlots
  <1>5. Valued'
    BY DEF Valued
  <1>6. Matching' /\ Caching'
    BY <1>1 DEF Matching, Caching
  <1>7. ASSUME NEW o \in DOMAIN objects, OwnObject(o)'
        PROVE  \E r \in HookedSlots' : slots'[r].obj = o
    <2>1. CASE slots'[s].hook # NoHook /\ slots'[s].obj = o
      BY <2>1 DEF HookedSlots
    <2>2. CASE OwnObject(o) /\ (slots[s].hook # NoHook => slots[s].obj # o)
      <3>1. PICK r \in HookedSlots : slots[r].obj = o
        BY <2>2 DEF Deletable
      <3>2. r # s /\ r \in Slots
        BY <2>2, <3>1 DEF HookedSlots
      <3>3. slots'[r] = slots[r]
        BY <3>2 DEF SlotStays
      <3> QED
        BY <3>1, <3>2, <3>3 DEF HookedSlots
    <2> QED
      BY <1>7, <2>1, <2>2
  <1>8. Deletable'
    BY <1>7 DEF Deletable
  <1> QED
    BY <1>2, <1>4, <1>5, <1>6, <1>8 DEF Ordered

\* A free slot gets an instance without a hook, and no object changes.
LEMMA OneInstance ==
    ASSUME Consistent, NEW s \in FreeSlots, NEW i, slots' = [slots EXCEPT ![s] = i],
           class' = class, run' = run, copied' = copied, objects' = objects, i.hook = NoHook, SlotShape(i),
           i.obj # 0 /\ (i.cls \in Holders \/ objects[i.obj].cls \in Holders)
              => i.cls = objects[i.obj].cls /\ i.path = << >>,
           i.obj # 0 /\ i.path = << >> =>
              /\ objects[i.obj].cached
              /\ i.run = run => objects[i.obj].live /\ objects[i.obj].wanted
              /\ i.run + 1 = run => objects[i.obj].live
    PROVE  Ordered'
  <1>1. s \in Slots /\ slots[s].hook = NoHook
    BY DEF FreeSlots, Occupied, NoInstance
  <1>2. slots'[s] = i /\ DOMAIN slots' = Slots /\ \A r \in Slots : r # s => slots'[r] = slots[r]
    BY <1>1 DEF Consistent, Shape
  <1>3. \A r \in Slots : r # s => SlotStays(r)
    BY <1>2 DEF SlotStays
  <1>4. SlotShape(slots[s])' /\ Matched(s)' /\ KeptFor(s)'
    BY <1>2 DEF SlotShape, Matched, KeptFor
  <1>5. ASSUME NEW o \in DOMAIN objects
        PROVE  /\ ObjectShape(objects'[o]) /\ (objects'[o].cached => objects'[o].cls \notin Inner)
               /\ objects'[o].live => ValueOf(o)'
               /\ OwnObject(o)' => OwnObject(o)
    <2>1. ObjectShape(objects[o]) /\ (objects[o].cached => objects[o].cls \notin Inner)
      BY DEF Consistent, Shape, Caching
    <2>2. objects[o].live => ValueOf(o)
      BY DEF Consistent, Valued
    <2>3. ValueOf(o) => ValueOf(o)'
      BY DEF ValueOf, Lister
    <2> QED
      BY <2>1, <2>2, <2>3 DEF OwnObject
  <1>6. class = "Midi" => objects'[StaticReader].cls = "reader" /\ objects'[StaticReader].live
    BY DEF Consistent, Shape
  <1>7. Apart'
    BY DEF Consistent, Apart, Holding
  <1> QED
    BY <1>1, <1>2, <1>3, <1>4, <1>5, <1>6, <1>7, OneSlotOrdered

\* A new instance has no object yet.
LEMMA CreateInstanceOrdered ==
    ASSUME Consistent, NEW s \in Slots, CreateInstance(s)
    PROVE  Ordered'
  <1> DEFINE i == NewInstance(class)
  <1>1. class \in DOMAIN Class
    BY NamesAssumption DEF CreateInstance, Consistent, Shape
  <1>2. /\ DOMAIN i = SlotFields /\ i.cls = class /\ i.obj = 0 /\ i.path = << >> /\ i.hook = NoHook /\ i.run = 0
    BY DEF NewInstance, NoInstance, SlotFields
  <1>3. SlotShape(i)
    <2> HIDE DEF i
    <2>1. run \in Nat /\ class # "none"
      BY <1>1, ClassNames DEF Consistent, Shape
    <2> QED
      BY <1>1, <1>2, <2>1, Paths DEF SlotShape
  <1>4. /\ s \in FreeSlots /\ slots' = [slots EXCEPT ![s] = i]
        /\ class' = class /\ run' = run /\ copied' = copied /\ objects' = objects
    BY DEF CreateInstance
  <1> HIDE DEF i
  <1> QED
    BY <1>2, <1>3, <1>4, OneInstance

\* A part of an object is handed out.
LEMMA TakePartOrdered ==
    ASSUME Consistent, CallsSound, TakePart
    PROVE  Ordered'
  <1>1. Served /\ PartGiver(frame.native) /\ class' = class /\ run' = run /\ copied' = copied /\ objects' = objects
    BY DEF TakePart, GivesPart, Throw, Done, Finished
  <1>2. CASE slots' = slots
    BY <1>1, <1>2, UnchangedOrdered
  <1>3. CASE slots' # slots
    <2>1. PICK x \in PartIndexes :
             Given([cls |-> Gives.of, hook |-> NoHook, run |-> It.run,
                    obj |-> IF frame.method = "track" THEN Its ELSE It.obj,
                    path |-> IF frame.method \in {"note", "track"} THEN Append(It.path, x) ELSE It.path])
      BY <1>3 DEF TakePart, Throw
    <2> DEFINE i == [cls |-> Gives.of, hook |-> NoHook, run |-> It.run,
                     obj |-> IF frame.method = "track" THEN Its ELSE It.obj,
                     path |-> IF frame.method \in {"note", "track"} THEN Append(It.path, x) ELSE It.path]
    <2>2. PICK s \in FreeSlots : slots' = [slots EXCEPT ![s] = i]
      BY <1>3, <2>1 DEF Given
    <2>3. frame.method # "constructor"
      <3>1. frame.method = "constructor" => frame.native = Class[frame.cls].constructor
        BY <1>1, CallablesWellFormed DEF Consistent, Framed, Served, Followable
      <3>2. frame.cls \in DOMAIN Class
        BY <1>1 DEF Consistent, Framed, Served, Followable
      <3> QED
        BY <1>1, <3>1, <3>2, PartsAssumption
    <2> DEFINE t == frame.cls
    <2> DEFINE m == frame.method
    <2>4. /\ frame.this \in Slots /\ It.cls = t /\ t \in DOMAIN Class
          /\ It.obj \in DOMAIN objects /\ It.obj # 0 /\ objects[It.obj].live /\ objects[It.obj].cls # "none"
          /\ m \in DOMAIN Class[t].methods /\ frame.native = Class[t].methods[m]
      BY <1>1, <2>3, ServedCall
    <2>5. /\ t \in Holders => Its = objects[It.obj].val /\ ValueOf(It.obj) /\ objects[It.obj].cls = t
          /\ t \notin Holders => objects[It.obj].cls \notin Holders
      BY <1>1, <2>3, ServedHolder
    <2>6. /\ Gives.of \in (DOMAIN Class) \ Holders /\ Gives.of # "none"
          /\ t \in Holders <=> m = "track"
          /\ m = "track" => t = "Midi.Tune"
          /\ m \notin {"note", "track"} => Class[t].constructor.hook = NoHook
      BY <1>1, <2>4, PartsAssumption, ClassNames DEF Gives
    <2>7. SlotShape(It) /\ KeptFor(frame.this) /\ (It.hook # NoHook => HookOf(frame.this))
      BY <2>4 DEF Consistent, Shape, Caching, Owned, HookedSlots, It
    <2>8. It.run \in 0..run /\ IsPath(It.path)
      BY <2>7 DEF SlotShape
    <2>9. /\ i.cls = Gives.of /\ i.hook = NoHook /\ i.run = It.run /\ DOMAIN i = SlotFields
          /\ i.obj = (IF m = "track" THEN Its ELSE It.obj)
          /\ i.path = (IF m \in {"note", "track"} THEN Append(It.path, x) ELSE It.path)
      BY DEF SlotFields
    <2> HIDE DEF i
    <2>10. /\ i.obj \in DOMAIN objects /\ objects[i.obj].cls # "none" /\ objects[i.obj].cls \notin Holders
      <3>1. CASE m = "track"
        BY <2>5, <2>6, <2>9, <3>1 DEF ValueOf, Holders
      <3>2. CASE m # "track"
        BY <2>4, <2>5, <2>6, <2>9, <3>2
      <3> QED
        BY <3>1, <3>2
    <2>11. IsPath(i.path) /\ (m \in {"note", "track"} => i.path # << >>)
      BY <2>8, <2>9, Paths
    <2>12. SlotShape(i)
      BY <2>6, <2>8, <2>9, <2>10, <2>11 DEF SlotShape
    <2>13. ASSUME i.path = << >>
           PROVE  /\ objects[i.obj].cached
                  /\ i.run = run => objects[i.obj].live /\ objects[i.obj].wanted
                  /\ i.run + 1 = run => objects[i.obj].live
      <3>1. m \notin {"note", "track"}
        BY <2>11, <2>13
      <3>2. i.obj = It.obj /\ i.path = It.path /\ i.run = It.run
        BY <2>9, <3>1
      <3>3. It.hook = NoHook
        BY <2>4, <2>6, <2>7, <3>1, ClassNames DEF HookOf, Hookable, It
      <3> QED
        BY <2>4, <2>7, <2>13, <3>2, <3>3 DEF KeptFor, It
    <2> HIDE DEF t, m
    <2> QED
      BY <1>1, <2>2, <2>6, <2>9, <2>10, <2>12, <2>13, OneInstance
  <1> QED
    BY <1>2, <1>3

\* An object the instance owned is lost.
LEMMA LostObject ==
    ASSUME NEW x, ObjectShape(x)
    PROVE  /\ ObjectShape([x EXCEPT !.lost = TRUE]) /\ [x EXCEPT !.lost = TRUE].cls = x.cls
           /\ [x EXCEPT !.lost = TRUE].live = x.live /\ [x EXCEPT !.lost = TRUE].cached = x.cached
           /\ [x EXCEPT !.lost = TRUE].wanted = x.wanted /\ [x EXCEPT !.lost = TRUE].lost
           /\ [x EXCEPT !.lost = TRUE].val = x.val
  BY DEF ObjectShape, ObjectFields

\* An object of a cache is wanted again.
LEMMA WantedObject ==
    ASSUME NEW x, ObjectShape(x)
    PROVE  /\ ObjectShape([x EXCEPT !.wanted = TRUE]) /\ [x EXCEPT !.wanted = TRUE].cls = x.cls
           /\ [x EXCEPT !.wanted = TRUE].live = x.live /\ [x EXCEPT !.wanted = TRUE].cached = x.cached
           /\ [x EXCEPT !.wanted = TRUE].wanted /\ [x EXCEPT !.wanted = TRUE].lost = x.lost
           /\ [x EXCEPT !.wanted = TRUE].val = x.val
  BY DEF ObjectShape, ObjectFields

\* An object a constructor makes is in a cache or will be deleted by its instance.
LEMMA MadeObject ==
    ASSUME NEW c, NEW v, c # "none", Cached \/ Hookable(c)
    PROVE  /\ ObjectShape(Made(c, v)) /\ Made(c, v).cls = c /\ Made(c, v).val = v
           /\ Made(c, v).live /\ Made(c, v).cached = Cached /\ Made(c, v).wanted = Cached
  <1>1. ObjectShape([Unused EXCEPT !.cls = c, !.live = TRUE, !.val = v, !.cached = Cached, !.wanted = Cached])
    BY DEF ObjectShape, ObjectFields, Unused, Cached
  <1> QED
    BY DEF Made, Object, Unused, ObjectShape, ObjectFields, Cached

\* What a constructor is called for.
LEMMA ServedConstructor ==
    ASSUME Consistent, Served, frame.method = "constructor"
    PROVE  /\ frame.this \in Slots /\ It.cls = frame.cls /\ frame.cls \in DOMAIN Class
           /\ frame.native.hook = Class[frame.cls].constructor.hook
           /\ frame.native.hook \in {NoHook, frame.cls}
           /\ ~Cached => Hookable(frame.cls) /\ frame.native.hook = frame.cls
           /\ Cached => It.hook = NoHook /\ ~Hookable(frame.cls)
  <1>1. frame.this \in Slots /\ It.cls = frame.cls /\ frame.cls \in DOMAIN Class
    BY DEF Served, Followable, Consistent, Framed
  <1>2. frame.native = Class[frame.cls].constructor
    BY <1>1, CallablesWellFormed DEF Served, Followable, Consistent, Framed
  <1>3. frame.native.hook \in {NoHook, frame.cls}
    BY <1>1, <1>2, HooksAssumption
  <1>4. ~Cached => Hookable(frame.cls) /\ frame.native.hook = frame.cls
    BY <1>1, <1>2, <1>3 DEF Cached, Hookable
  <1>5. Cached => ~Hookable(frame.cls)
    BY <1>1, <1>2, ClassNames DEF Cached, Hookable
  <1>6. It.hook # NoHook => Hookable(It.cls)
    BY <1>1 DEF Consistent, Owned, HookedSlots, HookOf, It
  <1> QED
    BY <1>1, <1>2, <1>3, <1>4, <1>5, <1>6

\* The instance a constructor has served.
LEMMA ConstructedSlot ==
    ASSUME Consistent, Served, frame.method = "constructor", NEW o \in DOMAIN objects, Constructed(o),
           NEW s, s = frame.this, class' = class, run' = run, copied' = copied, DOMAIN objects' = DOMAIN objects,
           objects'[o].cls = frame.cls, objects'[o].live,
           Cached => objects'[o].cached /\ objects'[o].wanted,
           ~Cached => ~objects'[o].cached
    PROVE  /\ DOMAIN slots' = Slots /\ \A r \in Slots : r # s => slots'[r] = slots[r]
           /\ slots'[s].obj = o /\ slots'[s].hook = frame.native.hook
           /\ SlotShape(slots[s])' /\ Matched(s)' /\ KeptFor(s)'
           /\ slots'[s].hook # NoHook => HookOf(s)'
  <1>1. /\ s \in Slots /\ It.cls = frame.cls /\ frame.cls \in DOMAIN Class /\ frame.cls # "none"
        /\ ~Cached => Hookable(frame.cls) /\ frame.native.hook = frame.cls
    BY ServedConstructor, ClassNames
  <1>2. /\ DOMAIN slots' = Slots /\ \A r \in Slots : r # s => slots'[r] = slots[r]
        /\ slots'[s] = [slots[s] EXCEPT !.obj = o, !.path = << >>, !.hook = frame.native.hook,
                                        !.run = IF Cached THEN run ELSE 0]
    BY <1>1 DEF Constructed, Consistent, Shape
  <1>3. DOMAIN slots[s] = SlotFields /\ run \in Nat
    BY <1>1 DEF Consistent, Shape, SlotShape
  <1>4. /\ DOMAIN slots'[s] = SlotFields /\ slots'[s].cls = frame.cls /\ slots'[s].obj = o
        /\ slots'[s].path = << >> /\ slots'[s].hook = frame.native.hook
        /\ slots'[s].run = IF Cached THEN run ELSE 0
    BY <1>1, <1>2, <1>3 DEF SlotFields, It
  <1>5. 0 \notin DOMAIN objects
    BY DEF Consistent, Shape
  <1>6. SlotShape(slots[s])'
    BY <1>1, <1>3, <1>4, Paths DEF SlotShape
  <1>7. Matched(s)'
    BY <1>4 DEF Matched
  <1>8. KeptFor(s)'
    <2>1. CASE Cached
      BY <1>3, <1>4, <2>1 DEF KeptFor
    <2>2. CASE ~Cached
      BY <1>1, <1>4, <2>2, ClassNames DEF KeptFor
    <2> QED
      BY <2>1, <2>2
  <1>9. slots'[s].hook # NoHook => HookOf(s)'
    <2>1. CASE Cached
      BY <1>4, <2>1 DEF Cached
    <2>2. CASE ~Cached
      BY <1>1, <1>4, <1>5, <2>2 DEF HookOf
    <2> QED
      BY <2>1, <2>2
  <1> QED
    BY <1>2, <1>4, <1>6, <1>7, <1>8, <1>9

\* A constructor finds an object of its cache.
LEMMA FoundOrdered ==
    ASSUME Consistent, Served, frame.method = "constructor", Cached, class' = class, run' = run, copied' = copied,
           NEW o \in DOMAIN objects, objects[o].cls = frame.cls, objects[o].live,
           objects' = [objects EXCEPT ![o].wanted = TRUE], Constructed(o)
    PROVE  Ordered'
  <1>1. PICK s : s = frame.this
    OBVIOUS
  <1>2. /\ s \in Slots /\ frame.cls \in DOMAIN Class /\ slots[s].hook = NoHook /\ ~Hookable(frame.cls)
        /\ frame.native.hook = NoHook
    BY <1>1, ServedConstructor DEF It, Cached
  <1>3. \A p \in DOMAIN objects : ObjectShape(objects[p])
    BY DEF Consistent, Shape
  <1>4. objects[o].cached
    BY <1>2, <1>3, ClassNames DEF ObjectShape
  <1>5. DOMAIN objects' = DOMAIN objects /\ \A p \in DOMAIN objects : p # o => objects'[p] = objects[p]
    OBVIOUS
  <1>6. objects'[o] = [objects[o] EXCEPT !.wanted = TRUE]
    OBVIOUS
  <1>7. /\ ObjectShape(objects'[o]) /\ objects'[o].cls = objects[o].cls
        /\ objects'[o].live = objects[o].live /\ objects'[o].cached = objects[o].cached
        /\ objects'[o].wanted /\ objects'[o].lost = objects[o].lost /\ objects'[o].val = objects[o].val
    BY <1>3, <1>6, WantedObject
  <1>8. /\ DOMAIN slots' = Slots /\ \A r \in Slots : r # s => slots'[r] = slots[r]
        /\ slots'[s].obj = o /\ slots'[s].hook = NoHook
        /\ SlotShape(slots[s])' /\ Matched(s)' /\ KeptFor(s)'
    BY <1>1, <1>2, <1>4, <1>5, <1>7, ConstructedSlot
  <1>9. ASSUME NEW p \in DOMAIN objects
        PROVE  /\ ObjectShape(objects'[p]) /\ objects'[p].cls = objects[p].cls
               /\ objects'[p].live = objects[p].live /\ objects'[p].cached = objects[p].cached
               /\ objects[p].wanted => objects'[p].wanted
               /\ objects'[p].lost = objects[p].lost /\ objects'[p].val = objects[p].val
    BY <1>3, <1>5, <1>7
  <1>10. ASSUME NEW r \in Slots, r # s PROVE SlotStays(r)
    <2>1. slots[r].obj # 0 => slots[r].obj \in DOMAIN objects
      BY DEF Consistent, Shape, SlotShape
    <2> QED
      BY <1>8, <1>9, <1>10, <2>1 DEF SlotStays
  <1>11. ASSUME NEW p \in DOMAIN objects, objects'[p].live PROVE ValueOf(p)'
    <2>1. ValueOf(p)
      BY <1>9, <1>11 DEF Consistent, Valued
    <2> QED
      BY <1>5, <1>9, <2>1 DEF ValueOf, Lister
  <1>12. ASSUME NEW p \in DOMAIN objects
         PROVE  /\ objects'[p].cached => objects'[p].cls \notin Inner
                /\ OwnObject(p)' => OwnObject(p)
    BY <1>9 DEF OwnObject, Consistent, Caching
  <1>13. class = "Midi" => objects'[StaticReader].cls = "reader" /\ objects'[StaticReader].live
    BY <1>9 DEF Consistent, Shape
  <1>14. Apart'
    <2>1. Quiet
      BY <1>9 DEF Quiet
    <2>2. \E w : HandsOver(w)
      BY <2>1, QuietStep DEF Consistent
    <2> QED
      BY <1>5, <1>9, <2>2, HandedOver DEF Consistent
  <1> QED
    BY <1>2, <1>5, <1>8, <1>9, <1>10, <1>11, <1>12, <1>13, <1>14, OneSlotOrdered

\* What a new object holds.
LEMMA NewValue ==
    ASSUME Consistent, frame.cls \in DOMAIN Class, NEW v \in NewValues(frame.cls),
           DOMAIN objects' = DOMAIN objects,
           NEW o \in DOMAIN objects, o = Fresh(1), objects'[o].cls = frame.cls, objects'[o].val = v,
           frame.cls = "Midi.Tune" => v \in DOMAIN objects /\ objects'[v].cls = "tracks"
    PROVE  ValueOf(o)'
  <1>1. frame.cls \notin {"reader", "none"}
    BY ClassNames DEF Inner
  <1>2. CASE frame.cls = "Midi.Tune"
    BY <1>2 DEF ValueOf, Lister
  <1>3. CASE frame.cls = "IO.File"
    BY <1>3 DEF ValueOf, Lister, NewValues
  <1>4. CASE frame.cls = "Midi.MMLReader"
    <2>1. v = [self |-> o, chord |-> << >>, out |-> 0]
      BY <1>4 DEF NewValues
    <2> QED
      BY <1>4, <2>1 DEF ValueOf, Lister
  <1>5. CASE frame.cls = "Midi.ABCReader"
    <2>1. v = [meter |-> CommonTime, tunes |-> << >>]
      BY <1>5 DEF NewValues, NewReader
    <2>2. /\ DOMAIN v = {"meter", "tunes"} /\ v.tunes = << >>
      BY <2>1
    <2> QED
      BY <1>5, <2>2 DEF ValueOf, Lister
  <1>6. CASE frame.cls \notin {"Midi.Tune", "IO.File", "Midi.MMLReader", "Midi.ABCReader"}
    BY <1>1, <1>6 DEF ValueOf, Lister
  <1> QED
    BY <1>2, <1>3, <1>4, <1>5, <1>6

\* A constructor makes an object; the one the instance had before is lost.
LEMMA MadeOrdered ==
    ASSUME Consistent, Served, frame.method = "constructor", Room(2), class' = class, run' = run, copied' = copied,
           NEW v \in NewValues(frame.cls),
           objects' = IF frame.cls = "Midi.Tune"
                      THEN Lose([objects EXCEPT ![Fresh(1)] = Made(frame.cls, v),
                                                ![v] = Object("tracks", <<<< >>>>)])
                      ELSE Lose([objects EXCEPT ![Fresh(1)] = Made(frame.cls, v)]),
           Constructed(Fresh(1))
    PROVE  Ordered'
  <1>1. PICK s : s = frame.this
    OBVIOUS
  <1>2. PICK o : o = Fresh(1)
    OBVIOUS
  <1> DEFINE c == frame.cls
  <1> DEFINE tune == c = "Midi.Tune"
  <1>3. /\ s \in Slots /\ c \in DOMAIN Class /\ c # "none" /\ c \notin Inner
        /\ ~Cached => Hookable(c) /\ frame.native.hook = c /\ frame.native.hook # NoHook
        /\ Cached => It.hook = NoHook
        /\ slots[s] = It
    BY <1>1, ServedConstructor, ClassNames DEF It
  <1>4. /\ o \in DOMAIN objects /\ objects[o].cls = "none" /\ o # 0
        /\ Fresh(2) \in DOMAIN objects /\ objects[Fresh(2)].cls = "none" /\ Fresh(2) # o
    BY <1>2, RoomForTwo DEF Consistent
  <1>5. tune => v = Fresh(2)
    BY DEF NewValues
  <1> DEFINE made == IF tune THEN [objects EXCEPT ![o] = Made(c, v), ![v] = Object("tracks", <<<< >>>>)]
                     ELSE [objects EXCEPT ![o] = Made(c, v)]
  <1>6. objects' = Lose(made)
    BY <1>2
  <1>7. /\ DOMAIN made = DOMAIN objects /\ made[o] = Made(c, v)
        /\ tune => made[v] = Object("tracks", <<<< >>>>)
        /\ \A p \in DOMAIN objects : p # o /\ ~(tune /\ p = v) => made[p] = objects[p]
    BY <1>4, <1>5
  <1> HIDE DEF made
  <1>8. SlotShape(slots[s]) /\ slots[s].obj \in {0} \cup DOMAIN objects
        /\ (slots[s].obj # 0 => objects[slots[s].obj].cls # "none")
    BY <1>3 DEF Consistent, Shape, SlotShape
  <1>9. slots[s].hook # NoHook => slots[s].obj \in DOMAIN objects /\ objects[slots[s].obj].cls # "none"
    BY <1>3, <1>8 DEF Consistent, Owned, HookedSlots, HookOf
  <1> DEFINE Loses(p) == slots[s].hook # NoHook /\ p = slots[s].obj
  <1>10. /\ DOMAIN objects' = DOMAIN objects
         /\ \A p \in DOMAIN objects : ~Loses(p) => objects'[p] = made[p]
         /\ \A p \in DOMAIN objects : Loses(p) => objects'[p] = [made[p] EXCEPT !.lost = TRUE]
    <2>1. CASE slots[s].hook # NoHook
      <3>1. objects' = [made EXCEPT ![slots[s].obj].lost = TRUE]
        BY <1>3, <1>6, <2>1 DEF Lose
      <3> QED
        BY <1>7, <1>9, <2>1, <3>1
    <2>2. CASE slots[s].hook = NoHook
      <3>1. objects' = made
        BY <1>3, <1>6, <2>2 DEF Lose
      <3> QED
        BY <1>7, <2>2, <3>1
    <2> QED
      BY <2>1, <2>2
  <1>11. ~Loses(o) /\ (tune => ~Loses(v))
    BY <1>4, <1>5, <1>9
  <1> HIDE DEF Loses
  <1>12. /\ ObjectShape(objects'[o]) /\ objects'[o].cls = c /\ objects'[o].val = v
         /\ objects'[o].live /\ objects'[o].cached = Cached /\ objects'[o].wanted = Cached
    <2>1. objects'[o] = Made(c, v)
      BY <1>4, <1>7, <1>10, <1>11
    <2> QED
      BY <1>3, <2>1, MadeObject
  <1>13. tune => /\ v \in DOMAIN objects /\ v # o
                 /\ ObjectShape(objects'[v]) /\ objects'[v].cls = "tracks" /\ ~objects'[v].cached
    <2>1. tune => v \in DOMAIN objects /\ v # o /\ objects'[v] = Object("tracks", <<<< >>>>)
      BY <1>4, <1>5, <1>7, <1>10, <1>11
    <2> HIDE DEF tune
    <2> QED
      BY <2>1, NewObject DEF Inner
  <1>14. \A p \in DOMAIN objects : ObjectShape(objects[p])
    BY DEF Consistent, Shape
  <1>15. ASSUME NEW p \in DOMAIN objects, p # o, ~(tune /\ p = v)
         PROVE  /\ ObjectShape(objects'[p]) /\ objects'[p].cls = objects[p].cls
                /\ objects'[p].live = objects[p].live /\ objects'[p].cached = objects[p].cached
                /\ objects'[p].wanted = objects[p].wanted /\ objects'[p].val = objects[p].val
                /\ Loses(p) => objects'[p].lost
                /\ ~Loses(p) => objects'[p].lost = objects[p].lost
    <2>1. made[p] = objects[p] /\ ObjectShape(objects[p])
      BY <1>7, <1>14, <1>15
    <2>2. CASE Loses(p)
      <3>1. objects'[p] = [objects[p] EXCEPT !.lost = TRUE]
        BY <1>10, <2>1, <2>2
      <3>2. /\ ObjectShape(objects'[p]) /\ objects'[p].cls = objects[p].cls
            /\ objects'[p].live = objects[p].live /\ objects'[p].cached = objects[p].cached
            /\ objects'[p].wanted = objects[p].wanted /\ objects'[p].val = objects[p].val
            /\ objects'[p].lost
        BY ONLY p \in DOMAIN objects, <1>14, <3>1, LostObject
      <3> QED
        BY <2>2, <3>2
    <2>3. CASE ~Loses(p)
      BY <1>10, <2>1, <2>3
    <2> QED
      BY <2>2, <2>3
  <1>16. /\ DOMAIN slots' = Slots /\ \A r \in Slots : r # s => slots'[r] = slots[r]
         /\ slots'[s].obj = o /\ slots'[s].hook = frame.native.hook
         /\ SlotShape(slots[s])' /\ Matched(s)' /\ KeptFor(s)'
         /\ slots'[s].hook # NoHook => HookOf(s)'
    <2>1. Constructed(o)
      BY <1>2
    <2>2. (Cached => objects'[o].cached /\ objects'[o].wanted) /\ (~Cached => ~objects'[o].cached)
      BY <1>12, Zenon
    <2>3. objects'[o].cls = frame.cls /\ objects'[o].live
      BY <1>12
    <2> HIDE DEF tune, c
    <2>4. CASE Cached
      <3>1. o \in DOMAIN objects /\ s = frame.this /\ DOMAIN objects' = DOMAIN objects
        BY <1>1, <1>4, <1>10
      <3>2. objects'[o].cached /\ objects'[o].wanted
        BY <2>2, <2>4
      <3> QED
        BY ONLY Consistent, Served, frame.method = "constructor", class' = class, run' = run, copied' = copied,
           <2>1, <2>3, <2>4, <3>1, <3>2, ConstructedSlot
    <2>5. CASE ~Cached
      <3>1. o \in DOMAIN objects /\ s = frame.this /\ DOMAIN objects' = DOMAIN objects
        BY <1>1, <1>4, <1>10
      <3>2. ~objects'[o].cached
        BY <2>2, <2>5
      <3> QED
        BY ONLY Consistent, Served, frame.method = "constructor", class' = class, run' = run, copied' = copied,
           <2>1, <2>3, <2>5, <3>1, <3>2, ConstructedSlot
    <2> QED
      BY <2>4, <2>5
  <1>17. ASSUME NEW p \in DOMAIN objects, objects[p].cls # "none" PROVE p # o /\ ~(tune /\ p = v)
    BY <1>4, <1>5, <1>17
  <1> HIDE DEF tune
  <1>18. ASSUME NEW r \in Slots, r # s PROVE SlotStays(r)
    <2>1. slots[r].obj # 0 => slots[r].obj \in DOMAIN objects /\ objects[slots[r].obj].cls # "none"
      BY DEF Consistent, Shape, SlotShape
    <2> QED
      BY <1>15, <1>16, <1>17, <1>18, <2>1 DEF SlotStays
  <1>19. ValueOf(o)'
    BY <1>2, <1>3, <1>4, <1>10, <1>12, <1>13, NewValue DEF tune
  <1>20. ASSUME NEW p \in DOMAIN objects, objects'[p].live
         PROVE  ValueOf(p)'
    <2>1. CASE p = o
      BY <1>19, <2>1
    <2>2. CASE tune /\ p = v
      BY <1>13, <2>2 DEF ValueOf, Lister
    <2>3. CASE p # o /\ ~(tune /\ p = v)
      <3>1. objects'[p].cls = objects[p].cls /\ objects'[p].val = objects[p].val
        BY <1>15, <2>3
      <3>2. ValueOf(p)
        BY <1>15, <1>20, <2>3 DEF Consistent, Valued
      <3>3. ASSUME NEW q \in DOMAIN objects, objects[q].cls # "none" PROVE objects'[q].cls = objects[q].cls
        BY <1>15, <1>17, <3>3
      <3> QED
        BY <1>10, <3>1, <3>2, <3>3, StayingValue
    <2> QED
      BY <2>1, <2>2, <2>3
  <1>21. ASSUME NEW p \in DOMAIN objects
         PROVE  /\ ObjectShape(objects'[p]) /\ (objects'[p].cached => objects'[p].cls \notin Inner)
                /\ OwnObject(p)' => \/ OwnObject(p) /\ (slots[s].hook # NoHook => slots[s].obj # p)
                                    \/ slots'[s].hook # NoHook /\ slots'[s].obj = p
    <2>1. CASE p = o
      BY <1>3, <1>12, <1>16, <2>1 DEF OwnObject
    <2>2. CASE tune /\ p = v
      BY <1>13, <2>2 DEF OwnObject, Inner
    <2>3. CASE p # o /\ ~(tune /\ p = v)
      BY <1>15, <2>3 DEF OwnObject, Consistent, Caching, Loses
    <2> QED
      BY <2>1, <2>2, <2>3
  <1>22. class = "Midi" => objects'[StaticReader].cls = "reader" /\ objects'[StaticReader].live
    <2>1. class = "Midi" => /\ StaticReader \in DOMAIN objects
                            /\ objects[StaticReader].cls = "reader" /\ objects[StaticReader].live
      BY DEF Consistent, Shape
    <2> QED
      BY <1>15, <1>17, <2>1
  <1>23. slots'[s].hook # NoHook => \A r \in HookedSlots \ {s} : slots[r].obj # slots'[s].obj
    <2>1. ASSUME NEW r \in HookedSlots PROVE slots[r].obj # o
      BY <1>4, ClassNames DEF Consistent, Owned, HookOf, Hookable
    <2> QED
      BY <1>16, <2>1
  <1>24. Apart'
    <2>1. tune => objects'[v].live /\ objects[v].cls = "none"
      <3>1. tune => v \in DOMAIN objects /\ objects'[v] = Object("tracks", <<<< >>>>) /\ objects[v].cls = "none"
        BY <1>4, <1>5, <1>7, <1>10, <1>11
      <3> QED
        BY <3>1, NewObject DEF Inner
    <2>2. ASSUME NEW p \in DOMAIN objects, Holding(objects'[o], p) PROVE tune /\ p = v
      <3>1. CASE c = "Midi.Tune"
        BY <1>12, <2>2, <3>1 DEF Holding, tune
      <3>2. CASE c = "IO.File"
        BY <1>12, <2>2, <3>2 DEF Holding, NewValues
      <3>3. CASE c = "Midi.ABCReader"
        <4>1. v = [meter |-> CommonTime, tunes |-> << >>]
          BY <3>3 DEF NewValues, NewReader
        <4>2. v.tunes = << >> /\ DOMAIN << >> = {}
          BY <4>1
        <4> QED
          BY <1>12, <2>2, <3>3, <4>2 DEF Holding
      <3>4. CASE c \notin {"Midi.Tune", "IO.File", "Midi.ABCReader"}
        BY <1>3, <1>12, <2>2, <3>4 DEF Holding, Inner
      <3> QED
        BY <3>1, <3>2, <3>3, <3>4
    <2>3. ASSUME NEW q \in DOMAIN objects, NEW p \in DOMAIN objects, Holding(objects'[q], p), q # o
          PROVE  Holding(objects[q], p) /\ objects[p].cls \in Parts
      <3>1. ~(tune /\ q = v)
        BY <1>13, <2>3 DEF Holding
      <3>2. objects'[q].cls = objects[q].cls /\ objects'[q].live = objects[q].live /\ objects'[q].val = objects[q].val
        BY <1>15, <2>3, <3>1
      <3>3. Holding(objects[q], p)
        BY <2>3, <3>2 DEF Holding
      <3> QED
        BY <3>3, HeldPart DEF Consistent
    <2>4. ASSUME NEW p \in DOMAIN objects, objects[p].live PROVE objects'[p].live
      <3>1. objects[p].cls # "none"
        BY <1>14, <2>4 DEF ObjectShape
      <3> QED
        BY <1>15, <1>17, <2>4, <3>1
    <2>5. ASSUME NEW q \in DOMAIN objects, tune, Holding(objects'[q], v) PROVE q = o
      BY <1>13, <2>1, <2>3, <2>5 DEF Parts
    <2>6. HandsOver(o)
      BY <2>1, <2>2, <2>3, <2>4, <2>5 DEF HandsOver
    <2>7. \A p \in DOMAIN objects : objects[p].cls # "none" => objects'[p].cls = objects[p].cls
      BY <1>15, <1>17
    <2> QED
      BY <1>10, <2>6, <2>7, HandedOver DEF Consistent
  <1> QED
    BY <1>3, <1>10, <1>16, <1>18, <1>20, <1>21, <1>22, <1>23, <1>24, OneSlotOrdered

\* Whatever a constructor does, everything is in order.
LEMMA ConstructOrdered ==
    ASSUME Consistent, Construct
    PROVE  Ordered'
  <1>1. Served /\ frame.method = "constructor" /\ class' = class /\ run' = run /\ copied' = copied
    BY DEF Construct, Throw, Done, Finished
  <1>2. CASE Throw
    BY <1>1, <1>2, UnchangedOrdered DEF Throw
  <1>3. ASSUME Room(2), Constructed(Fresh(1)), NEW v \in NewValues(frame.cls),
               objects' = IF frame.cls = "Midi.Tune"
                          THEN Lose([objects EXCEPT ![Fresh(1)] = Made(frame.cls, v),
                                                    ![v] = Object("tracks", <<<< >>>>)])
                          ELSE Lose([objects EXCEPT ![Fresh(1)] = Made(frame.cls, v)])
        PROVE  Ordered'
    BY <1>1, <1>3, MadeOrdered
  <1>4. ASSUME Cached, NEW o \in DOMAIN objects, objects[o].cls = frame.cls, objects[o].live,
               objects' = [objects EXCEPT ![o].wanted = TRUE], Constructed(o)
        PROVE  Ordered'
    BY <1>1, <1>4, FoundOrdered
  <1> QED
    BY <1>2, <1>3, <1>4 DEF Construct

-----------------------------------------------------------------------------
(***************************************************************************)
(* The end of instances and of runs.                                       *)
(***************************************************************************)

\* An object that dies with instances was theirs, or is a part of one that was.
LEMMA DyingObject ==
    ASSUME Consistent, NEW S, S \subseteq Slots,
           NEW o \in Hooked(S) \cup UNION {PartsOf(objects[p]) : p \in Hooked(S)}
    PROVE  /\ o \in DOMAIN objects /\ ~objects[o].cached
           /\ \/ \E s \in S : s \in HookedSlots /\ slots[s].obj = o /\ objects[o].cls \in DOMAIN Class
              \/ objects[o].cls \in Parts /\ \E p \in Hooked(S) : p \in DOMAIN objects /\ Holding(objects[p], o)
  <1>1. ASSUME NEW p \in Hooked(S)
        PROVE  /\ p \in DOMAIN objects /\ ~objects[p].cached /\ objects[p].live
               /\ \E s \in S : s \in HookedSlots /\ slots[s].obj = p /\ objects[p].cls \in DOMAIN Class
    <2>1. PICK s \in S : slots[s].hook # NoHook /\ p = slots[s].obj
      BY <1>1 DEF Hooked
    <2>2. s \in HookedSlots /\ s \in Slots
      BY <2>1 DEF HookedSlots
    <2>3. HookOf(s) /\ SlotShape(slots[s])
      BY <2>2 DEF Consistent, Owned, Shape
    <2> QED
      BY <2>1, <2>2, <2>3 DEF HookOf, Hookable, SlotShape
  <1>2. ASSUME NEW p \in Hooked(S), o \in PartsOf(objects[p])
        PROVE  o \in DOMAIN objects /\ objects[o].cls \in Parts /\ Holding(objects[p], o) /\ p \in DOMAIN objects
    <2>1. p \in DOMAIN objects /\ objects[p].live
      BY <1>1
    <2>2. o = objects[p].val /\ o # 0 /\ objects[p].cls \in {"Midi.Tune", "IO.File"}
      BY <1>2 DEF PartsOf
    <2>3. ValueOf(p)
      BY <2>1 DEF Consistent, Valued
    <2> QED
      BY <2>1, <2>2, <2>3 DEF ValueOf, Parts, Holding
  <1>3. \A p \in DOMAIN objects : objects[p].cls \in Parts => ~objects[p].cached
    BY DEF Consistent, Caching, Parts, Inner
  <1> QED
    BY <1>1, <1>2, <1>3

\* Instances go, with the objects they delete.
LEMMA ReleaseOrdered ==
    ASSUME Consistent, NEW S, S \subseteq Slots, Release(S), class' = class, run' = run, copied' = copied,
           slots' = [r \in Slots |-> IF r \in S THEN NoInstance ELSE slots[r]]
    PROVE  Ordered'
  <1> DEFINE all == Hooked(S) \cup UNION {PartsOf(objects[p]) : p \in Hooked(S)}
  <1>1. objects' = [o \in DOMAIN objects |-> IF o \in all THEN Dead(objects[o]) ELSE objects[o]]
    BY DEF Release, Deleted
  <1>2. ASSUME NEW o \in all
        PROVE  /\ o \in DOMAIN objects /\ ~objects[o].cached
               /\ \/ \E s \in S : s \in HookedSlots /\ slots[s].obj = o /\ objects[o].cls \in DOMAIN Class
                  \/ objects[o].cls \in Parts /\ \E p \in all : p \in DOMAIN objects /\ Holding(objects[p], o)
    BY <1>2, DyingObject
  <1>3. \A s \in S : s \in HookedSlots => slots[s].obj \in all
    BY DEF Hooked, HookedSlots
  <1> HIDE DEF all
  <1>4. \A o \in DOMAIN objects : ObjectShape(objects[o])
    BY DEF Consistent, Shape
  <1>5. DOMAIN objects' = DOMAIN objects
    BY <1>1
  <1>6. ASSUME NEW o \in DOMAIN objects
        PROVE  /\ ObjectShape(objects'[o]) /\ objects'[o].cls = objects[o].cls
               /\ objects'[o].cached = objects[o].cached
               /\ o \notin all => objects'[o] = objects[o]
               /\ o \in all => ~objects'[o].live
    <2>1. CASE o \in all
      <3>1. objects'[o] = Dead(objects[o])
        BY <1>1, <2>1
      <3> QED
        BY <1>4, <2>1, <3>1, DeadObject
    <2>2. CASE o \notin all
      BY <1>1, <1>4, <2>2
    <2> QED
      BY <2>1, <2>2
  <1>7. ASSUME NEW r \in Slots, r \notin S
        PROVE  SlotStays(r)
    <2> SUFFICES ASSUME slots[r].obj # 0
                 PROVE  SlotStays(r)
      BY <1>7 DEF SlotStays
    <2>1. slots'[r] = slots[r] /\ slots[r].obj \in DOMAIN objects
      BY <1>7 DEF Consistent, Shape, SlotShape
    <2>2. ASSUME slots[r].path = << >>, slots[r].obj \in all PROVE FALSE
      <3>1. objects[slots[r].obj].cls \notin Parts
        BY <2>2, WholeObject DEF Consistent, Parts, Inner
      <3>2. PICK s \in S : s \in HookedSlots /\ slots[s].obj = slots[r].obj
        BY <1>2, <2>2, <3>1
      <3>3. CASE slots[r].hook # NoHook
        <4>1. r \in HookedSlots /\ r # s
          BY <1>7, <3>3 DEF HookedSlots
        <4> QED
          BY <3>2, <4>1 DEF Consistent, Owned
      <3>4. CASE slots[r].hook = NoHook
        <4>1. objects[slots[r].obj].cached
          BY <2>2, <3>4 DEF Consistent, Caching, KeptFor
        <4> QED
          BY <1>2, <2>2, <4>1
      <3> QED
        BY <3>3, <3>4
    <2> QED
      BY <1>6, <2>1, <2>2 DEF SlotStays
  <1>8. ASSUME NEW r \in Slots
        PROVE  /\ SlotShape(slots[r])' /\ Matched(r)' /\ KeptFor(r)'
               /\ slots'[r].hook # NoHook => HookOf(r)' /\ r \notin S
    <2>1. CASE r \in S
      <3>1. slots'[r] = NoInstance
        BY <2>1
      <3>2. /\ DOMAIN NoInstance = SlotFields /\ NoInstance.obj = 0 /\ NoInstance.cls = "none"
            /\ NoInstance.path = << >> /\ NoInstance.run = 0 /\ NoInstance.hook = NoHook
        BY DEF NoInstance, SlotFields
      <3>3. run \in Nat /\ run' = run
        BY DEF Consistent, Shape
      <3>4. SlotShape(slots[r])'
        BY <3>1, <3>2, <3>3, Paths DEF SlotShape
      <3> QED
        BY <3>1, <3>2, <3>4 DEF Matched, KeptFor
    <2>2. CASE r \notin S
      <3>1. slots'[r] = slots[r]
        BY <2>2
      <3> QED
        BY <1>5, <1>7, <2>2, <3>1, StayingSlot DEF Consistent
    <2> QED
      BY <2>1, <2>2
  <1>9. class = "Midi" => objects'[StaticReader].cls = "reader" /\ objects'[StaticReader].live
    <2>1. class = "Midi" => /\ StaticReader \in DOMAIN objects
                            /\ objects[StaticReader].cls = "reader" /\ objects[StaticReader].live
      BY DEF Consistent, Shape
    <2>2. class = "Midi" => StaticReader \notin all
      BY <1>2, <2>1, ClassNames DEF Parts, Inner
    <2> QED
      BY <1>6, <2>1, <2>2
  <1>10. Shape'
    BY <1>5, <1>6, <1>8, <1>9 DEF Shape, Consistent
  <1>11. Owned'
    <2>1. ASSUME NEW r \in HookedSlots' PROVE r \in HookedSlots /\ slots'[r] = slots[r] /\ HookOf(r)'
      BY <1>7, <1>8, <2>1 DEF HookedSlots, SlotStays
    <2> QED
      BY <2>1 DEF Owned, Consistent
  <1>12. Matching'
    BY <1>8 DEF Matching
  <1>13. Valued'
    <2>1. ASSUME NEW o \in DOMAIN objects, objects'[o].live PROVE ValueOf(o)'
      <3>1. o \notin all /\ objects'[o] = objects[o]
        BY <1>6, <2>1
      <3>2. ValueOf(o)
        BY <2>1, <3>1 DEF Consistent, Valued
      <3> QED
        BY <1>5, <1>6, <3>1, <3>2, StayingValue
    <2> QED
      BY <1>5, <2>1 DEF Valued
  <1>14. Caching'
    BY <1>5, <1>6, <1>8 DEF Caching, Consistent
  <1>15. Deletable'
    <2>1. ASSUME NEW o \in DOMAIN objects, OwnObject(o)'
          PROVE  \E r \in HookedSlots' : slots'[r].obj = o
      <3>1. o \notin all /\ objects'[o] = objects[o]
        BY <1>6, <2>1 DEF OwnObject
      <3>2. OwnObject(o)
        BY <2>1, <3>1 DEF OwnObject
      <3>3. PICK r \in HookedSlots : slots[r].obj = o
        BY <3>2 DEF Consistent, Deletable
      <3>4. r \notin S /\ r \in Slots
        BY <1>3, <3>1, <3>3 DEF HookedSlots
      <3>5. slots'[r] = slots[r]
        BY <3>4
      <3> QED
        BY <3>3, <3>4, <3>5 DEF HookedSlots
    <2> QED
      BY <1>5, <2>1 DEF Deletable
  <1>16. Apart'
    <2>1. HandsOver(0)
      <3>1. 0 \notin DOMAIN objects
        BY DEF Consistent, Shape
      <3>2. ASSUME NEW o \in DOMAIN objects, NEW p \in DOMAIN objects, Holding(objects'[o], p), p \notin copied
            PROVE  Holding(objects[o], p) /\ (objects[p].live => objects'[p].live)
        <4>1. o \notin all /\ objects'[o] = objects[o]
          BY <1>6, <3>2 DEF Holding
        <4>2. Holding(objects[o], p) /\ objects[p].cls \in Parts
          BY <3>2, <4>1, HeldPart DEF Consistent
        <4>3. objects[p].cls \notin DOMAIN Class
          BY <4>2, ClassNames DEF Parts, Inner
        <4>4. p \notin all
          <5> SUFFICES ASSUME p \in all PROVE FALSE
            OBVIOUS
          <5>1. PICK q \in all : q \in DOMAIN objects /\ Holding(objects[q], p)
            BY <1>2, <4>3
          <5>2. q = o
            BY <3>2, <4>2, <5>1 DEF Consistent, Apart
          <5> QED
            BY <4>1, <5>1, <5>2
        <4> QED
          BY <1>6, <4>2, <4>4
      <3> QED
        BY <3>1, <3>2 DEF HandsOver
    <2> QED
      BY <1>5, <2>1, HandedOver DEF Consistent
  <1> QED
    BY <1>10, <1>11, <1>12, <1>13, <1>14, <1>15, <1>16 DEF Ordered

\* One instance goes, or all of the last run, or all there are.
LEMMA ReleasesOrdered ==
    ASSUME Consistent, (\E s \in Slots : DropInstance(s)) \/ Restart \/ Close
    PROVE  Ordered'
  <1>1. DOMAIN slots = Slots
    BY DEF Consistent, Shape
  <1>2. ASSUME NEW s \in Slots, DropInstance(s) PROVE Ordered'
    <2>1. /\ Release({s}) /\ slots' = [slots EXCEPT ![s] = NoInstance]
          /\ class' = class /\ run' = run /\ copied' = copied
      BY <1>2 DEF DropInstance
    <2>2. slots' = [r \in Slots |-> IF r \in {s} THEN NoInstance ELSE slots[r]]
      BY <1>1, <2>1
    <2>3. {s} \subseteq Slots
      OBVIOUS
    <2> QED
      BY <2>1, <2>2, <2>3, ReleaseOrdered
  <1>3. CASE Restart
    <2>1. PICK kept \in SUBSET Occupied :
             /\ Release(Occupied \ kept) /\ class' = class /\ run' = run /\ copied' = copied
             /\ slots' = [s \in Slots |-> IF s \in kept THEN slots[s] ELSE NoInstance]
      BY <1>3 DEF Restart
    <2> DEFINE S == Occupied \ kept
    <2>2. S \subseteq Slots
      BY DEF Occupied
    <2>3. ASSUME NEW r \in Slots, r \notin S, r \notin kept PROVE slots[r] = NoInstance
      BY <2>3 DEF Occupied
    <2>4. slots' = [r \in Slots |-> IF r \in S THEN NoInstance ELSE slots[r]]
      BY <2>1, <2>3
    <2> HIDE DEF S
    <2>5. Release(S)
      BY <2>1 DEF S
    <2> QED
      BY <2>1, <2>2, <2>4, <2>5, ReleaseOrdered
  <1>4. CASE Close
    <2>1. /\ Release(Occupied) /\ class' = class /\ run' = run /\ copied' = copied
          /\ slots' = [s \in Slots |-> NoInstance]
      BY <1>4 DEF Close
    <2>2. Occupied \subseteq Slots /\ \A r \in Slots : r \notin Occupied => slots[r] = NoInstance
      BY DEF Occupied
    <2>3. slots' = [r \in Slots |-> IF r \in Occupied THEN NoInstance ELSE slots[r]]
      BY <2>1, <2>2
    <2> QED
      BY <2>1, <2>2, <2>3, ReleaseOrdered
  <1> QED
    BY <1>2, <1>3, <1>4

\* At the end of a run the caches drop what the run did not ask for.
LEMMA EndScriptOrdered ==
    ASSUME Consistent, EndScript
    PROVE  Ordered'
  <1>1. /\ objects' = [o \in DOMAIN objects |-> IF o \in Dropped THEN Dead(objects[o])
                                                ELSE [objects[o] EXCEPT !.wanted = FALSE]]
        /\ class' = class /\ run' = run + 1 /\ copied' = copied /\ slots' = slots /\ run \in Nat
    BY DEF EndScript, Consistent, Shape
  <1>2. DOMAIN objects' = DOMAIN objects
    BY <1>1
  <1>3. \A o \in DOMAIN objects : ObjectShape(objects[o])
    BY DEF Consistent, Shape
  <1>4. ASSUME NEW o \in DOMAIN objects
        PROVE  /\ ObjectShape(objects'[o]) /\ objects'[o].cls = objects[o].cls
               /\ objects'[o].cached = objects[o].cached
               /\ o \in Dropped => ~objects'[o].live
               /\ o \notin Dropped =>
                     /\ objects'[o].live = objects[o].live /\ objects'[o].val = objects[o].val
                     /\ objects'[o].lost = objects[o].lost
    <2>1. CASE o \in Dropped
      <3>1. objects'[o] = Dead(objects[o])
        BY <1>1, <2>1
      <3> QED
        BY <1>3, <2>1, <3>1, DeadObject
    <2>2. CASE o \notin Dropped
      <3>1. objects'[o] = [objects[o] EXCEPT !.wanted = FALSE]
        BY <1>1, <2>2
      <3>2. ObjectShape(objects[o])
        BY <1>3
      <3>3. /\ ObjectShape(objects'[o]) /\ objects'[o].cls = objects[o].cls
            /\ objects'[o].cached = objects[o].cached
            /\ objects'[o].live = objects[o].live /\ objects'[o].val = objects[o].val
            /\ objects'[o].lost = objects[o].lost
        BY ONLY <3>1, <3>2 DEF ObjectShape, ObjectFields
      <3> QED
        BY <2>2, <3>3
    <2> QED
      BY <2>1, <2>2
  <1>5. ASSUME NEW o \in DOMAIN objects, ~objects[o].cached PROVE o \notin Dropped
    BY <1>5 DEF Dropped
  <1>6. ASSUME NEW r \in Slots
        PROVE  /\ SlotShape(slots[r])' /\ Matched(r)' /\ KeptFor(r)'
               /\ slots[r].hook # NoHook => HookOf(r)'
    <2>1. /\ SlotShape(slots[r]) /\ Matched(r) /\ KeptFor(r)
          /\ slots[r].hook # NoHook => HookOf(r)
      BY DEF Consistent, Shape, Matching, Caching, Owned, HookedSlots
    <2>2. SlotShape(slots[r])'
      <3>1. 0..run \subseteq 0..run'
        BY <1>1
      <3>2. slots[r].obj \in DOMAIN objects => objects'[slots[r].obj].cls = objects[slots[r].obj].cls
        BY <1>4
      <3> QED
        BY <1>1, <1>2, <2>1, <3>1, <3>2 DEF SlotShape
    <2>3. Matched(r)'
      BY <1>1, <1>4, <2>1 DEF Matched, SlotShape
    <2>4. slots[r].hook # NoHook => HookOf(r)'
      BY <1>1, <1>4, <1>5, <2>1 DEF HookOf, SlotShape
    <2>5. KeptFor(r)'
      <3> SUFFICES ASSUME slots[r].obj # 0, slots[r].path = << >>, slots[r].hook = NoHook
                   PROVE  KeptFor(r)'
        BY <1>1 DEF KeptFor
      <3>1. slots[r].obj \in DOMAIN objects /\ slots[r].run \in 0..run
        BY <2>1 DEF SlotShape
      <3>2. objects'[slots[r].obj].cached
        BY <1>4, <2>1, <3>1 DEF KeptFor
      <3>3. slots[r].run # run + 1
        BY <1>1, <3>1
      <3>4. ASSUME slots[r].run + 1 = run + 1 PROVE objects'[slots[r].obj].live
        <4>1. slots[r].run = run
          BY <1>1, <3>1, <3>4
        <4>2. objects[slots[r].obj].live /\ objects[slots[r].obj].wanted
          BY <2>1, <4>1 DEF KeptFor
        <4>3. slots[r].obj \notin Dropped
          BY <4>2 DEF Dropped
        <4> QED
          BY <1>4, <3>1, <4>2, <4>3
      <3> QED
        BY <1>1, <3>2, <3>3, <3>4 DEF KeptFor
    <2> QED
      BY <2>2, <2>3, <2>4, <2>5
  <1>7. class = "Midi" => objects'[StaticReader].cls = "reader" /\ objects'[StaticReader].live
    <2>1. class = "Midi" => /\ StaticReader \in DOMAIN objects
                            /\ objects[StaticReader].cls = "reader" /\ objects[StaticReader].live
      BY DEF Consistent, Shape
    <2>2. class = "Midi" => ~objects[StaticReader].cached
      BY <2>1 DEF Consistent, Caching, Inner
    <2> QED
      BY <1>4, <1>5, <2>1, <2>2
  <1>8. Shape'
    <2>1. class' \in Followed /\ run' \in Nat /\ Bound[class'].objects \in Nat
      BY <1>1 DEF Shape, Consistent
    <2> QED
      BY <1>1, <1>2, <1>4, <1>6, <1>7, <2>1 DEF Shape, Consistent
  <1>9. Owned'
    BY <1>1, <1>6 DEF Owned, HookedSlots, Consistent
  <1>10. Matching' /\ Caching'
    BY <1>2, <1>4, <1>6 DEF Matching, Caching, Consistent
  <1>11. Valued'
    <2>1. ASSUME NEW o \in DOMAIN objects, objects'[o].live PROVE ValueOf(o)'
      <3>1. o \notin Dropped /\ objects[o].live
        BY <1>4, <2>1
      <3>2. ValueOf(o)
        BY <3>1 DEF Consistent, Valued
      <3> QED
        BY <1>1, <1>2, <1>4, <3>1, <3>2, StayingValue
    <2> QED
      BY <1>2, <2>1 DEF Valued
  <1>12. Deletable'
    <2>1. ASSUME NEW o \in DOMAIN objects, OwnObject(o)' PROVE OwnObject(o)
      BY <1>4, <2>1 DEF OwnObject
    <2> QED
      BY <1>1, <1>2, <2>1 DEF Deletable, HookedSlots, Consistent
  <1>13. Apart'
    <2>1. ASSUME NEW p \in DOMAIN objects, objects[p].live, objects[p].cls \in Parts
          PROVE  objects'[p].live
      <3>1. ~objects[p].cached
        BY <2>1 DEF Consistent, Caching, Parts, Inner
      <3> QED
        BY <1>4, <1>5, <2>1, <3>1
    <2>2. Quiet
      BY <1>4, <2>1 DEF Quiet
    <2>3. \E w : HandsOver(w)
      BY <2>2, QuietStep DEF Consistent
    <2> QED
      BY <1>1, <1>2, <2>3, HandedOver DEF Consistent
  <1> QED
    BY <1>8, <1>9, <1>10, <1>11, <1>12, <1>13 DEF Ordered

-----------------------------------------------------------------------------
(***************************************************************************)
(* Reading ABC.                                                            *)
(***************************************************************************)

\* The reader that reads a text, and the class of what it makes.
LEMMA ReadingABC ==
    ASSUME Consistent, CallsSound, ABCReaderRead
    PROVE  /\ ABCReader \in DOMAIN objects /\ objects[ABCReader].live /\ Lister(ABCReader)
           /\ Gives.hook = IF frame.method = "readTune" THEN "Midi.Tune" ELSE "Midi.Pattern"
  <1>1. CASE frame.cls = "Midi"
    <2>1. frame.verdict = "reached"
      BY <1>1 DEF ABCReaderRead, Reached, Served, Followable, Packages
    <2>2. /\ class = "Midi" /\ frame.method \in Members("Midi")
          /\ frame.native = NativeOf("Midi", frame.method)
      BY <1>1, <2>1, ClassNames DEF Consistent, Framed, Packages
    <2>3. ABCReader = StaticReader
      BY <1>1 DEF ABCReader
    <2>4. ABCReader \in DOMAIN objects /\ objects[ABCReader].live /\ Lister(ABCReader)
      BY <2>2, <2>3 DEF Consistent, Shape, Lister
    <2>5. frame.method \in DOMAIN Package["Midi"] /\ frame.native = Package["Midi"][frame.method]
      BY <2>2 DEF Members, NativeOf, Packages
    <2> QED
      BY <2>4, <2>5, HooksAssumption DEF Gives
  <1>2. CASE frame.cls # "Midi"
    <2>1. /\ Served /\ frame.cls = "Midi.ABCReader" /\ frame.method \in {"read", "readTune"}
      BY <1>2 DEF ABCReaderRead, Reached
    <2>2. /\ It.obj \in DOMAIN objects /\ objects[It.obj].live
          /\ frame.native = Class["Midi.ABCReader"].methods[frame.method]
      BY <2>1, ServedCall
    <2>3. objects[It.obj].cls = "Midi.ABCReader"
      BY <2>1, ServedHolder DEF Holders
    <2>4. ABCReader = It.obj
      BY <1>2 DEF ABCReader
    <2> QED
      BY <2>1, <2>2, <2>3, <2>4, HooksAssumption DEF Gives, Lister
  <1> QED
    BY <1>1, <1>2

\* A list that follows another holds what either does, all of the second among it.
Joins(c, a, b) ==
    /\ \A n \in DOMAIN c : (\E m \in DOMAIN a : c[n] = a[m]) \/ \E m \in DOMAIN b : c[n] = b[m]
    /\ \A m \in DOMAIN b : \E n \in DOMAIN c : c[n] = b[m]

\* So does one list appended to another.
LEMMA Joined ==
    ASSUME NEW T, NEW a \in Seq(T), NEW b \in Seq(T)
    PROVE  a \o b \in Seq(T) /\ Joins(a \o b, a, b)
  <1> DEFINE c == a \o b
  <1>1. /\ c \in Seq(T) /\ Len(c) = Len(a) + Len(b)
        /\ \A i \in 1..Len(c) : c[i] = IF i <= Len(a) THEN a[i] ELSE b[i - Len(a)]
    BY ConcatProperties
  <1>2. /\ Len(a) \in Nat /\ Len(b) \in Nat
        /\ DOMAIN a = 1..Len(a) /\ DOMAIN b = 1..Len(b) /\ DOMAIN c = 1..Len(c)
    BY <1>1
  <1> HIDE DEF c
  <1> DEFINE p == Len(a)
  <1> DEFINE q == Len(b)
  <1>3. p \in Nat /\ q \in Nat /\ Len(c) = p + q
    BY <1>1, <1>2
  <1>4. \A i \in 1..p + q : c[i] = IF i <= p THEN a[i] ELSE b[i - p]
    BY <1>1
  <1>5. DOMAIN a = 1..p /\ DOMAIN b = 1..q /\ DOMAIN c = 1..p + q
    BY <1>2, <1>3
  <1> HIDE DEF p, q
  <1>6. ASSUME NEW n \in 1..p + q
        PROVE  (\E m \in 1..p : c[n] = a[m]) \/ \E m \in 1..q : c[n] = b[m]
    <2>1. CASE n <= p
      <3>1. n \in 1..p
        BY <1>3, <2>1
      <3> QED
        BY <1>4, <2>1, <3>1
    <2>2. CASE ~(n <= p)
      <3>1. n - p \in 1..q
        BY <1>3, <2>2
      <3> QED
        BY <1>4, <2>2, <3>1
    <2> QED
      BY <2>1, <2>2
  <1>7. ASSUME NEW m \in 1..q
        PROVE  \E n \in 1..p + q : c[n] = b[m]
    <2>1. PICK i : i = m + p
      OBVIOUS
    <2>2. i \in 1..p + q /\ ~(i <= p) /\ i - p = m
      BY <1>3, <2>1
    <2>3. c[i] = b[m]
      BY <1>4, <2>2
    <2> QED
      BY <2>2, <2>3
  <1>8. c \in Seq(T)
    BY <1>1
  <1> QED
    BY ONLY <1>5, <1>6, <1>7, <1>8 DEF c, Joins

\* The reader R keeps the tunes of a text after those it has.
Tuned(R, parsed, k, tunes, kept, made) ==
    /\ k = Len(parsed.tunes) /\ k \in 0..(Cardinality(UnusedObjects) - 1)
    /\ tunes = objects[R].val.tunes \o [n \in 1..k |-> Fresh(n)]
    /\ kept = [Keeps(parsed) EXCEPT ![R].val = [meter |-> parsed.meter, tunes |-> tunes]]
    /\ made = Fresh(k + 1)

\* Of the objects, only the reader and those that become tunes of its list change.
TunesKept(R, meter, tunes, kept, made) ==
    /\ tunes \in Seq(DOMAIN objects) /\ DOMAIN kept = DOMAIN objects
    /\ made \in DOMAIN objects /\ objects[made].cls = "none" /\ kept[made] = objects[made]
    /\ \A n \in DOMAIN tunes :
          /\ tunes[n] # made /\ tunes[n] # R /\ kept[tunes[n]].cls = "tune"
          /\ Holding(objects[R], tunes[n]) \/ (objects[tunes[n]].cls = "none" /\ kept[tunes[n]].live)
    /\ \A o \in DOMAIN objects : objects[o].cls = "none" /\ kept[o].cls # "none" =>
          /\ \E n \in DOMAIN tunes : o = tunes[n]
          /\ ObjectShape(kept[o]) /\ kept[o].cls = "tune" /\ ~kept[o].cached
    /\ \A o \in DOMAIN objects :
          kept[o].cls = "none" \/ (objects[o].cls # "none" /\ o # R) => kept[o] = objects[o]
    /\ kept[R] = [objects[R] EXCEPT !.val = [meter |-> meter, tunes |-> tunes]]

\* The tunes of a text come after those of the texts that failed.
LEMMA ABCKeeps ==
    ASSUME Consistent, NEW R \in DOMAIN objects, objects[R].live, Lister(R),
           NEW parsed, NEW k, NEW tunes, NEW kept, NEW made, Tuned(R, parsed, k, tunes, kept, made)
    PROVE  TunesKept(R, parsed.meter, tunes, kept, made)
  <1> PICK meter : meter = parsed.meter
    OBVIOUS
  <1> /\ k = Len(parsed.tunes) /\ k \in 0..(Cardinality(UnusedObjects) - 1)
      /\ tunes = objects[R].val.tunes \o [n \in 1..k |-> Fresh(n)]
      /\ kept = [Keeps(parsed) EXCEPT ![R].val = [meter |-> meter, tunes |-> tunes]]
      /\ made = Fresh(k + 1)
    BY DEF Tuned
  <1> DEFINE new == [n \in 1..k |-> Fresh(n)]
  <1>1. /\ Cardinality(UnusedObjects) \in Nat /\ k \in Nat
        /\ \A n \in 1..Cardinality(UnusedObjects) : Fresh(n) \in DOMAIN objects /\ objects[Fresh(n)].cls = "none"
        /\ \A m, n \in 1..Cardinality(UnusedObjects) : m # n => Fresh(m) # Fresh(n)
    BY FreshOnes DEF Consistent
  <1>2. /\ 1..k \subseteq 1..Cardinality(UnusedObjects) /\ k + 1 \in 1..Cardinality(UnusedObjects)
        /\ k + 1 \notin 1..k
    BY <1>1
  <1>3. \A n \in 1..k : /\ Fresh(n) \in DOMAIN objects /\ objects[Fresh(n)].cls = "none"
                        /\ Fresh(n) # made
    BY <1>1, <1>2
  <1>4. made \in DOMAIN objects /\ objects[made].cls = "none"
    BY <1>1, <1>2
  <1>5. objects[R].cls \in {"Midi.ABCReader", "reader"}
    BY DEF Lister
  <1>6. /\ DOMAIN objects[R].val = {"meter", "tunes"} /\ objects[R].val.tunes \in Seq(DOMAIN objects)
        /\ \A n \in DOMAIN objects[R].val.tunes : objects[objects[R].val.tunes[n]].cls = "tune"
    <2>1. ValueOf(R)
      BY DEF Consistent, Valued
    <2> QED
      BY <2>1 DEF ValueOf
  <1> DEFINE old == objects[R].val.tunes
  <1>7. new \in Seq(DOMAIN objects) /\ Len(new) = k /\ DOMAIN new = 1..k /\ \A n \in 1..k : new[n] = Fresh(n)
    BY <1>1, <1>3
  <1>8. old \in Seq(DOMAIN objects)
    BY <1>6
  <1>9. tunes = old \o new
    OBVIOUS
  <1> HIDE DEF new, old
  <1>10. /\ tunes \in Seq(DOMAIN objects)
         /\ \A n \in DOMAIN tunes :
               (\E m \in DOMAIN old : tunes[n] = old[m]) \/ \E m \in 1..k : tunes[n] = new[m]
         /\ \A m \in 1..k : \E n \in DOMAIN tunes : tunes[n] = new[m]
    <2>1. PICK T : T = DOMAIN objects
      OBVIOUS
    <2>2. old \in Seq(T) /\ new \in Seq(T)
      BY <1>7, <1>8, <2>1
    <2>3. old \o new \in Seq(T) /\ Joins(old \o new, old, new)
      BY ONLY <2>2, Joined
    <2>4. DOMAIN new = 1..k
      BY <1>7
    <2>5. tunes \in Seq(DOMAIN objects) /\ Joins(tunes, old, new)
      BY ONLY <1>9, <2>1, <2>3
    <2> QED
      BY ONLY <2>4, <2>5 DEF Joins
  <1> DEFINE base == Keeps(parsed)
  <1>11. /\ DOMAIN base = DOMAIN objects
         /\ \A o \in DOMAIN objects :
               IF \E n \in 1..k : o = Fresh(n)
               THEN base[o] = Object("tune", parsed.tunes[CHOOSE n \in 1..k : o = Fresh(n)])
               ELSE base[o] = objects[o]
    BY DEF Keeps
  <1>12. ASSUME NEW o \in DOMAIN objects, NEW n \in 1..k, o = Fresh(n)
         PROVE  ObjectShape(base[o]) /\ base[o].cls = "tune" /\ ~base[o].cached /\ base[o].live
    <2>1. PICK v : base[o] = Object("tune", v)
      BY <1>11, <1>12
    <2> QED
      BY <2>1, NewObject DEF Inner
  <1>13. ASSUME NEW o \in DOMAIN objects, \A n \in 1..k : o # Fresh(n)
         PROVE  base[o] = objects[o]
    BY <1>11, <1>13
  <1> HIDE DEF base
  <1>14. /\ DOMAIN kept = DOMAIN objects
         /\ \A o \in DOMAIN objects : o # R => kept[o] = base[o]
         /\ kept[R] = [base[R] EXCEPT !.val = [meter |-> meter, tunes |-> tunes]]
    BY <1>11 DEF base
  <1>15. \A n \in 1..k : R # Fresh(n)
    BY <1>3, <1>5
  <1>16. kept[R] = [objects[R] EXCEPT !.val = [meter |-> meter, tunes |-> tunes]]
    BY <1>13, <1>14, <1>15
  <1>17. made # R /\ kept[made] = objects[made]
    <2>1. made # R
      BY ONLY <1>4, <1>5
    <2>2. \A n \in 1..k : made # Fresh(n)
      BY ONLY <1>3
    <2> QED
      BY ONLY <1>4, <1>13, <1>14, <2>1, <2>2
  <1>18. ASSUME NEW n \in DOMAIN tunes
         PROVE  /\ tunes[n] # made /\ tunes[n] # R /\ kept[tunes[n]].cls = "tune"
                /\ \/ Holding(objects[R], tunes[n])
                   \/ objects[tunes[n]].cls = "none" /\ kept[tunes[n]].live
    <2>1. tunes[n] \in DOMAIN objects
      BY ONLY n \in DOMAIN tunes, <1>10
    <2>2. ASSUME NEW m \in DOMAIN old, tunes[n] = old[m]
          PROVE  /\ tunes[n] # made /\ tunes[n] # R /\ kept[tunes[n]].cls = "tune"
                 /\ Holding(objects[R], tunes[n])
      <3>1. objects[tunes[n]].cls = "tune"
        BY <1>6, <2>2 DEF old
      <3>2. \A j \in 1..k : tunes[n] # Fresh(j)
        BY <1>3, <3>1
      <3>3. tunes[n] # made /\ tunes[n] # R
        BY <1>4, <1>5, <3>1
      <3>4. kept[tunes[n]] = objects[tunes[n]]
        BY <1>13, <1>14, <2>1, <3>2, <3>3
      <3>5. Holding(objects[R], tunes[n])
        <4>1. \E j \in DOMAIN objects[R].val.tunes : tunes[n] = objects[R].val.tunes[j]
          BY ONLY m \in DOMAIN old, <2>2 DEF old
        <4> QED
          BY ONLY objects[R].live, <1>5, <4>1 DEF Holding
      <3> QED
        BY <3>1, <3>3, <3>4, <3>5
    <2>3. ASSUME NEW m \in 1..k, tunes[n] = new[m]
          PROVE  /\ tunes[n] # made /\ tunes[n] # R /\ kept[tunes[n]].cls = "tune"
                 /\ objects[tunes[n]].cls = "none" /\ kept[tunes[n]].live
      <3>1. tunes[n] = Fresh(m)
        BY <1>7, <2>3
      <3>2. tunes[n] # made /\ tunes[n] # R /\ objects[tunes[n]].cls = "none"
        BY <1>3, <1>15, <3>1
      <3>3. base[tunes[n]].cls = "tune" /\ base[tunes[n]].live
        BY <1>12, <2>1, <3>1
      <3>4. kept[tunes[n]] = base[tunes[n]]
        BY <1>14, <2>1, <3>2
      <3> QED
        BY <3>2, <3>3, <3>4
    <2>4. (\E m \in DOMAIN old : tunes[n] = old[m]) \/ \E m \in 1..k : tunes[n] = new[m]
      BY ONLY n \in DOMAIN tunes, <1>10
    <2> QED
      BY ONLY <2>2, <2>3, <2>4
  <1>19. ASSUME NEW o \in DOMAIN objects, objects[o].cls = "none", kept[o].cls # "none"
         PROVE  /\ \E n \in DOMAIN tunes : o = tunes[n]
                /\ ObjectShape(kept[o]) /\ kept[o].cls = "tune" /\ ~kept[o].cached
    <2>1. o # R
      BY <1>5, <1>19
    <2>2. kept[o] = base[o]
      BY <1>14, <2>1
    <2>3. PICK n \in 1..k : o = Fresh(n)
      BY <1>13, <1>19, <2>2
    <2>4. ObjectShape(base[o]) /\ base[o].cls = "tune" /\ ~base[o].cached
      BY <1>12, <2>3
    <2>5. \E j \in DOMAIN tunes : o = tunes[j]
      <3>1. new[n] = o
        BY <1>7, <2>3
      <3> QED
        BY ONLY <1>10, <2>3, <3>1
    <2> QED
      BY <2>2, <2>4, <2>5
  <1>20. ASSUME NEW o \in DOMAIN objects, kept[o].cls = "none" \/ (objects[o].cls # "none" /\ o # R)
         PROVE  kept[o] = objects[o]
    <2>1. o # R
      <3>1. ObjectShape(objects[R])
        BY DEF Consistent, Shape
      <3>2. kept[R].cls = objects[R].cls
        BY ONLY <1>16, <3>1, ChangedObject
      <3> QED
        BY <1>5, <1>20, <3>2
    <2>2. kept[o] = base[o]
      BY <1>14, <2>1
    <2>3. \A n \in 1..k : o # Fresh(n)
      BY <1>3, <1>12, <1>20, <2>2
    <2> QED
      BY <1>13, <2>2, <2>3
  <1> QED
    BY <1>4, <1>10, <1>14, <1>16, <1>17, <1>18, <1>19, <1>20 DEF TunesKept

\* A text is read: its tunes are kept when it fails, and otherwise the first of all the tunes
\* that are kept is given and the others deleted.
LEMMA ABCReadOrdered ==
    ASSUME Consistent, CallsSound, ABCReaderRead, NEW text, NEW calls, NEW parsed,
           Len(parsed.tunes) \in 0..(Cardinality(UnusedObjects) - 1), ABCRead(text, calls, parsed)
    PROVE  Ordered'
  <1>1. PICK R \in DOMAIN objects : R = ABCReader /\ objects[R].live /\ Lister(R)
    BY ReadingABC
  <1>2. PICK k \in 0..(Cardinality(UnusedObjects) - 1) : k = Len(parsed.tunes)
    OBVIOUS
  <1>3. PICK made : made = Fresh(k + 1)
    OBVIOUS
  <1>4. PICK tunes, kept :
           /\ tunes = objects[R].val.tunes \o [n \in 1..k |-> Fresh(n)]
           /\ kept = [Keeps(parsed) EXCEPT ![R].val = [meter |-> parsed.meter, tunes |-> tunes]]
           /\ ABCReturns(text, calls, parsed, tunes, kept, k + 1)
    BY <1>1, <1>2 DEF ABCRead, Kept
  <1>5. /\ tunes \in Seq(DOMAIN objects) /\ DOMAIN kept = DOMAIN objects
        /\ made \in DOMAIN objects /\ objects[made].cls = "none" /\ kept[made] = objects[made]
        /\ \A n \in DOMAIN tunes :
              /\ tunes[n] # made /\ tunes[n] # R /\ kept[tunes[n]].cls = "tune"
              /\ \/ Holding(objects[R], tunes[n])
                 \/ objects[tunes[n]].cls = "none" /\ kept[tunes[n]].live
        /\ \A o \in DOMAIN objects : objects[o].cls = "none" /\ kept[o].cls # "none" =>
              /\ \E n \in DOMAIN tunes : o = tunes[n]
              /\ ObjectShape(kept[o]) /\ kept[o].cls = "tune" /\ ~kept[o].cached
        /\ \A o \in DOMAIN objects :
              kept[o].cls = "none" \/ (objects[o].cls # "none" /\ o # R) => kept[o] = objects[o]
        /\ kept[R] = [objects[R] EXCEPT !.val = [meter |-> parsed.meter, tunes |-> tunes]]
    <2>1. Tuned(R, parsed, k, tunes, kept, made)
      BY <1>2, <1>3, <1>4 DEF Tuned
    <2>2. TunesKept(R, parsed.meter, tunes, kept, made)
      BY ONLY Consistent, R \in DOMAIN objects, <1>1, <2>1, ABCKeeps
    <2> QED
      BY ONLY <2>2 DEF TunesKept
  <1> DEFINE new == {o \in DOMAIN objects : objects[o].cls = "none" /\ kept[o].cls # "none"}
  <1>6. \A o \in DOMAIN objects : ObjectShape(objects[o])
    BY DEF Consistent, Shape
  <1>7. objects[R].cls \in {"Midi.ABCReader", "reader"} /\ R # made
    BY <1>1, <1>5 DEF Lister
  <1>8. class' = class /\ run' = run /\ copied' = copied
    BY <1>4 DEF ABCReturns, ReadReturns, ReadEnds, Finished
  <1>9. CASE objects' = objects /\ slots' = slots
    BY <1>8, <1>9, UnchangedOrdered
  <1>10. ASSUME NEW o \in DOMAIN objects, NEW p \in DOMAIN objects, Holding(objects[o], p)
        PROVE  objects[o].cls \in Keepers /\ objects[p].cls \in Parts /\ p # R /\ p # made
    <2>1. objects[p].cls \in Parts
      BY <1>10, HeldPart DEF Consistent
    <2> QED
      BY <1>5, <1>7, <1>10, <2>1 DEF Holding, Keepers, Parts
  <1>11. ASSUME NEW o \in DOMAIN objects, NEW n \in DOMAIN tunes, Holding(objects[o], tunes[n]), o # R,
               tunes[n] \notin copied
        PROVE  FALSE
    <2>1. tunes[n] \in DOMAIN objects
      BY ONLY n \in DOMAIN tunes, <1>5
    <2>2. Holding(objects[R], tunes[n])
      BY <1>5, <1>10, <1>11, <2>1 DEF Parts
    <2>3. Apart
      BY DEF Consistent
    <2> QED
      BY ONLY o \in DOMAIN objects, R \in DOMAIN objects, <1>11, <2>1, <2>2, <2>3 DEF Apart
  <1>13. /\ kept[R] = [objects[R] EXCEPT !.val = [meter |-> parsed.meter, tunes |-> tunes]]
         /\ ObjectShape(objects[R])
    BY ONLY <1>5, <1>6, R \in DOMAIN objects
  <1>14. CASE objects' = kept /\ slots' = slots
    <2>1. /\ ObjectShape(kept[R]) /\ kept[R].cls = objects[R].cls
          /\ kept[R].val = [meter |-> parsed.meter, tunes |-> tunes]
          /\ kept[R].live = objects[R].live /\ kept[R].cached = objects[R].cached
          /\ kept[R].wanted = objects[R].wanted /\ kept[R].lost = objects[R].lost
      BY ONLY <1>13, ChangedObject
    <2>2. Grows(new, {})
      <3>1. ASSUME NEW o \in DOMAIN objects, o \in new
            PROVE  /\ ObjectShape(objects'[o]) /\ objects[o].cls = "none" /\ ~objects'[o].cached
                   /\ objects'[o].cls \in Inner
        BY <1>5, <1>14, <3>1 DEF Inner
      <3>2. ASSUME NEW o \in DOMAIN objects, o \notin new, o # R
            PROVE  objects'[o] = objects[o]
        BY <1>5, <1>14, <3>2
      <3>3. R \notin new
        BY <1>7
      <3> HIDE DEF new
      <3> QED
        BY <1>5, <1>6, <1>8, <1>14, <2>1, <3>1, <3>2, <3>3 DEF Grows
    <2>3. ValueOf(R)'
      <3>1. objects'[R].val.tunes = tunes /\ DOMAIN objects'[R].val = {"meter", "tunes"}
        BY <1>14, <2>1
      <3> QED
        BY <1>5, <1>7, <1>14, <2>1, <3>1 DEF ValueOf, Lister
    <2>4. ASSUME NEW o \in DOMAIN objects, objects'[o].live
          PROVE  (o \notin new /\ objects'[o].val = objects[o].val) \/ ValueOf(o)'
      <3>1. CASE o \in new
        <4>1. objects'[o].cls = "tune"
          BY <1>5, <1>14, <3>1
        <4> QED
          BY <4>1 DEF ValueOf, Lister
      <3>2. CASE o \notin new /\ o # R
        BY <1>5, <1>14, <3>2
      <3> QED
        BY <2>3, <3>1, <3>2
    <2>5. \E w : HandsOver(w)
      <3>2. ASSUME NEW o \in DOMAIN objects, NEW p \in DOMAIN objects, Holding(objects'[o], p), o # R
            PROVE  Holding(objects[o], p) /\ objects'[p] = objects[p]
        <4>1. objects'[o].cls # "tune"
          BY <3>2 DEF Holding
        <4>2. objects'[o] = objects[o]
          BY <1>5, <1>14, <3>2, <4>1
        <4> QED
          BY <1>5, <1>14, <1>10, <3>2, <4>2 DEF Parts
      <3>3. ASSUME NEW p \in DOMAIN objects, Holding(objects'[R], p), p \notin copied
            PROVE  objects'[p].live /\ \A q \in DOMAIN objects : Holding(objects'[q], p) => q = R
        <4>1. PICK n \in DOMAIN tunes : p = tunes[n]
          BY <1>7, <1>14, <2>1, <3>3 DEF Holding
        <4>2. objects'[p].live
          <5>1. CASE Holding(objects[R], p)
            BY <1>5, <1>14, <1>10, <3>3, <5>1 DEF Consistent, Apart, Parts
          <5>2. CASE kept[p].live
            BY <1>14, <5>2
          <5> QED
            BY <1>5, <4>1, <5>1, <5>2
        <4> QED
          BY <1>11, <3>2, <3>3, <4>1, <4>2
      <3>4. HandsOver(R)
        BY <1>8, <3>2, <3>3 DEF HandsOver
      <3> QED
        BY <3>4
    <2> HIDE DEF new
    <2> QED
      BY <1>14, <2>2, <2>4, <2>5, GrowingOrdered
  <1>15. CASE /\ tunes # << >> /\ \A n \in DOMAIN tunes : kept[tunes[n]].live
              /\ objects' = ABCGives(kept, tunes, made)
              /\ \E s \in FreeSlots : slots' = [slots EXCEPT ![s] = Owner(objects'[made].cls, made, Gives.hook)]
    <2> DEFINE N == new \cup {made}
    <2> DEFINE c == IF frame.method = "readTune" THEN "Midi.Tune" ELSE "Midi.Pattern"
    <2>1. /\ DOMAIN objects' = DOMAIN objects
          /\ objects'[R] = [kept[R] EXCEPT !.val.tunes = << >>]
          /\ frame.method = "readTune" => /\ objects'[made] = Object(c, tunes[1])
                                          /\ objects'[tunes[1]] = kept[tunes[1]]
          /\ frame.method # "readTune" => \E v : objects'[made] = Object(c, v)
          /\ \A o \in DOMAIN objects : o # R /\ o # made =>
                /\ (\E n \in DOMAIN tunes : o = tunes[n])
                      => objects'[o] = kept[o] \/ objects'[o] = Dead(kept[o])
                /\ (\A n \in DOMAIN tunes : o # tunes[n]) => objects'[o] = objects[o]
      <3>1. tunes[1] # R /\ tunes[1] # made /\ tunes[1] \in DOMAIN objects
        <4>1. 1 \in DOMAIN tunes
          BY ONLY <1>5, <1>15
        <4> QED
          BY ONLY <1>5, <4>1
      <3> DEFINE empty == [kept[R] EXCEPT !.val.tunes = << >>]
      <3> DEFINE copy == ReadTrack(kept[tunes[1]].val)
      <3> DEFINE spared == IF frame.method = "readTune" THEN {tunes[1]} ELSE {}
      <3> DEFINE deleted == {tunes[n] : n \in DOMAIN tunes} \ spared
      <3> DEFINE F(o) ==
            CASE o = R -> [kept[o] EXCEPT !.val.tunes = << >>]
              [] o = made -> IF frame.method = "readTune"
                             THEN Object("Midi.Tune", tunes[1])
                             ELSE Object("Midi.Pattern", copy)
              [] OTHER -> IF o \in deleted THEN Dead(kept[o]) ELSE kept[o]
      <3>2. objects' = [o \in DOMAIN objects |-> F(o)]
        BY <1>1, <1>15 DEF ABCGives
      <3> HIDE DEF copy, deleted
      <3>3. F(R) = empty
        BY <1>7
      <3> HIDE DEF empty
      <3>4. frame.method = "readTune" => F(made) = Object(c, tunes[1])
        BY <1>7
      <3>5. frame.method # "readTune" => F(made) = Object(c, copy)
        BY <1>7
      <3>6. ASSUME NEW o \in DOMAIN objects, o # R, o # made
            PROVE  F(o) = IF o \in deleted THEN Dead(kept[o]) ELSE kept[o]
        BY <3>6
      <3>7. ASSUME NEW o \in DOMAIN objects, o # R, o # made
            PROVE  /\ (\E n \in DOMAIN tunes : o = tunes[n])
                          => F(o) = kept[o] \/ F(o) = Dead(kept[o])
                   /\ (\A n \in DOMAIN tunes : o # tunes[n]) => F(o) = objects[o]
        <4> HIDE DEF F
        <4>1. F(o) = kept[o] \/ F(o) = Dead(kept[o])
          BY <3>6, <3>7
        <4>2. ASSUME \A n \in DOMAIN tunes : o # tunes[n]
              PROVE  F(o) = objects[o]
          <5>1. o \notin deleted
            BY <4>2 DEF deleted
          <5>2. kept[o] = objects[o]
            BY ONLY o \in DOMAIN objects, <1>5, <3>7, <4>2
          <5> QED
            BY <3>6, <3>7, <5>1, <5>2
        <4> QED
          BY <4>1, <4>2
      <3>8. frame.method = "readTune" => F(tunes[1]) = kept[tunes[1]]
        <4> HIDE DEF F
        <4> SUFFICES ASSUME frame.method = "readTune" PROVE F(tunes[1]) = kept[tunes[1]]
          OBVIOUS
        <4>1. tunes[1] \notin deleted
          BY DEF deleted
        <4> QED
          BY <3>1, <3>6, <4>1
      <3> HIDE DEF F
      <3> QED
        BY <1>1, <1>5, <3>1, <3>2, <3>3, <3>4, <3>5, <3>7, <3>8 DEF empty
    <2>2. Hookable(c) /\ c \notin Inner /\ Gives.hook = c /\ c # "none"
      <3>1. Hookable(c) /\ Gives.hook = c
        BY HooksAssumption, ReadingABC
      <3> QED
        BY <3>1, ClassNames DEF Hookable
    <2>3. objects'[made].cls = c /\ ObjectShape(objects'[made]) /\ objects'[made].live /\ ~objects'[made].cached
      <3>1. PICK v : objects'[made] = Object(c, v)
        <4> HIDE DEF c
        <4> QED
          BY ONLY <2>1
      <3> QED
        BY ONLY <2>2, <3>1, NewObject
    <2>4. /\ ObjectShape(objects'[R]) /\ objects'[R].cls = objects[R].cls
          /\ objects'[R].live = objects[R].live /\ objects'[R].cached = objects[R].cached
          /\ objects'[R].wanted = objects[R].wanted /\ objects'[R].lost = objects[R].lost
          /\ DOMAIN objects'[R].val = {"meter", "tunes"} /\ objects'[R].val.tunes = << >>
      <3>1. /\ ObjectShape(kept[R]) /\ kept[R].cls = objects[R].cls
            /\ kept[R].live = objects[R].live /\ kept[R].cached = objects[R].cached
            /\ kept[R].wanted = objects[R].wanted /\ kept[R].lost = objects[R].lost
            /\ kept[R].val = [meter |-> parsed.meter, tunes |-> tunes]
        BY ONLY <1>13, ChangedObject
      <3>2. PICK v : v = [kept[R].val EXCEPT !.tunes = << >>]
        OBVIOUS
      <3>3. objects'[R] = [kept[R] EXCEPT !.val = v]
        BY ONLY <2>1, <3>2
      <3>4. DOMAIN v = {"meter", "tunes"} /\ v.tunes = << >>
        BY ONLY <3>1, <3>2
      <3> QED
        BY ONLY <3>1, <3>3, <3>4, ChangedObject
    <2>5. ASSUME NEW o \in DOMAIN objects, o # R, o # made, \E n \in DOMAIN tunes : o = tunes[n]
          PROVE  /\ ObjectShape(objects'[o]) /\ objects'[o].cls = "tune" /\ (o \in new => ~objects'[o].cached)
                 /\ o \notin new => /\ objects[o].cls = "tune" /\ objects'[o].cached = objects[o].cached
                                    /\ objects'[o].live => objects'[o] = objects[o]
      <3>1. kept[o].cls = "tune" /\ (objects'[o] = kept[o] \/ objects'[o] = Dead(kept[o]))
        BY ONLY <1>5, <2>1, <2>5
      <3>2. /\ ObjectShape(kept[o]) /\ (o \in new => ~kept[o].cached)
            /\ o \notin new => kept[o] = objects[o]
        BY <1>5, <1>6, <2>5, <3>1
      <3>3. /\ ObjectShape(objects'[o]) /\ objects'[o].cls = kept[o].cls
            /\ objects'[o].cached = kept[o].cached
            /\ objects'[o].live => objects'[o] = kept[o]
        BY ONLY <3>1, <3>2, DeadObject
      <3> QED
        BY ONLY <3>1, <3>2, <3>3
    <2>6. ASSUME NEW o \in DOMAIN objects, o # R, o # made, \A n \in DOMAIN tunes : o # tunes[n]
          PROVE  objects'[o] = objects[o] /\ o \notin new
      BY <1>5, <2>1, <2>6
    <2>7. R \notin N /\ made \in N /\ made \in DOMAIN objects /\ objects[made].cls = "none"
      BY <1>5, <1>7
    <2>8. \A o \in new : objects[o].cls = "none"
      OBVIOUS
    <2>9. Grows(N, {made})
      <3> HIDE DEF new, c
      <3>1. \A o \in DOMAIN objects : o # made => (o \in N <=> o \in new)
        OBVIOUS
      <3> HIDE DEF N
      <3>2. ASSUME NEW o \in DOMAIN objects
            PROVE  /\ ObjectShape(objects'[o])
                   /\ o \in N => /\ objects[o].cls = "none" /\ ~objects'[o].cached
                                 /\ o \notin {made} => objects'[o].cls \in Inner
                   /\ o \notin N =>
                         /\ objects'[o].cls = objects[o].cls /\ objects'[o].cached = objects[o].cached
                         /\ objects[o].live /\ objects[o].cls \notin Parts => objects'[o].live
                         /\ objects'[o].live =>
                               /\ objects[o].live /\ objects'[o].wanted = objects[o].wanted
                               /\ objects'[o].lost = objects[o].lost
        <4>1. CASE o = R
          BY ONLY <2>4, <2>7, <4>1
        <4>2. CASE o = made
          BY ONLY <2>3, <2>7, <4>2
        <4>3. CASE o # R /\ o # made /\ \E n \in DOMAIN tunes : o = tunes[n]
          BY ONLY o \in DOMAIN objects, <2>5, <2>8, <3>1, <4>3 DEF Parts, Inner
        <4>4. CASE o # R /\ o # made /\ \A n \in DOMAIN tunes : o # tunes[n]
          BY ONLY o \in DOMAIN objects, <1>6, <2>6, <3>1, <4>4
        <4> QED
          BY <4>1, <4>2, <4>3, <4>4
      <3> QED
        BY ONLY <1>8, <2>1, <3>2 DEF Grows
    <2>10. PICK s \in FreeSlots : Gains(s, made, c)
      BY <1>15, <2>2, <2>3, <2>7 DEF Gains
    <2>11. ASSUME NEW o \in DOMAIN objects, objects'[o].live
           PROVE  (o \notin N /\ objects'[o].val = objects[o].val) \/ ValueOf(o)'
      <3>1. CASE o = R
        <4>1. << >> \in Seq(DOMAIN objects') /\ DOMAIN << >> = {}
          OBVIOUS
        <4>2. objects'[o].cls \in {"Midi.ABCReader", "reader"}
          BY ONLY <1>7, <2>4, <3>1
        <4>3. /\ DOMAIN objects'[o].val = {"meter", "tunes"}
              /\ objects'[o].val.tunes \in Seq(DOMAIN objects') /\ DOMAIN objects'[o].val.tunes = {}
          BY ONLY <2>4, <3>1, <4>1
        <4> QED
          BY ONLY <4>2, <4>3 DEF ValueOf, Lister
      <3>2. CASE o = made /\ frame.method = "readTune"
        <4>1. objects'[o].cls = "Midi.Tune" /\ objects'[o].val = tunes[1]
          <5>1. c # "none" /\ (c \in Inner \/ Hookable(c)) /\ objects'[o] = Object(c, tunes[1])
            BY ONLY <2>1, <2>2, <3>2
          <5>2. c = "Midi.Tune"
            BY <3>2
          <5> HIDE DEF c
          <5> QED
            BY ONLY <5>1, <5>2, NewObject
        <4>2. 1 \in DOMAIN tunes
          BY ONLY <1>5, <1>15
        <4>3. tunes[1] \in DOMAIN objects /\ tunes[1] # R /\ tunes[1] # made
          BY ONLY <1>5, <4>2
        <4>4. objects'[tunes[1]].cls = "tune"
          BY ONLY <2>5, <4>2, <4>3
        <4> QED
          BY ONLY <2>1, <4>1, <4>3, <4>4 DEF ValueOf, Lister
      <3>3. CASE o = made /\ frame.method # "readTune"
        <4>1. objects'[o].cls = "Midi.Pattern"
          BY <2>3, <3>3
        <4> QED
          BY ONLY <4>1 DEF ValueOf, Lister
      <3>4. CASE o # R /\ o # made /\ \E n \in DOMAIN tunes : o = tunes[n]
        <4>1. objects'[o].cls = "tune"
          BY ONLY o \in DOMAIN objects, <2>5, <3>4
        <4> QED
          BY ONLY <4>1 DEF ValueOf, Lister
      <3>5. CASE o # R /\ o # made /\ \A n \in DOMAIN tunes : o # tunes[n]
        BY <2>6, <3>5
      <3> QED
        BY <3>1, <3>2, <3>3, <3>4, <3>5
    <2>12. \E w : HandsOver(w)
      <3>2. ASSUME NEW p \in DOMAIN objects, Holding(objects'[R], p)
            PROVE  FALSE
        <4>1. DOMAIN objects'[R].val.tunes = {}
          BY ONLY <2>4
        <4> QED
          BY <1>7, <2>4, <3>2, <4>1 DEF Holding
      <3>3. ASSUME NEW o \in DOMAIN objects, NEW p \in DOMAIN objects, Holding(objects'[o], p), o # R, o # made
            PROVE  Holding(objects[o], p)
        <4>1. objects'[o].cls # "tune"
          BY <3>3 DEF Holding
        <4> QED
          BY <2>5, <2>6, <3>3, <4>1
      <3>4. ASSUME NEW o \in DOMAIN objects, NEW p \in DOMAIN objects, Holding(objects'[o], p),
                   o # R, o # made, p \notin copied
            PROVE  Holding(objects[o], p) /\ (objects[p].live => objects'[p].live)
        <4>1. Holding(objects[o], p)
          BY <3>3, <3>4
        <4>2. p # R /\ p # made /\ \A n \in DOMAIN tunes : p # tunes[n]
          BY <1>10, <1>11, <3>4, <4>1
        <4> QED
          BY <2>6, <4>1, <4>2
      <3>5. ASSUME NEW p \in DOMAIN objects, Holding(objects'[made], p), p \notin copied
            PROVE  objects'[p].live /\ \A q \in DOMAIN objects : Holding(objects'[q], p) => q = made
        <4>1. frame.method = "readTune"
          <5>1. objects'[made].cls \in Keepers
            BY <3>5 DEF Holding, Keepers
          <5> QED
            BY <2>3, <5>1 DEF Keepers
        <4>2. c = "Midi.Tune"
          BY <4>1
        <4>3. objects'[made] = Object("Midi.Tune", tunes[1])
          BY <2>1, <4>1, <4>2
        <4>4. 1 \in DOMAIN tunes
          BY ONLY <1>5, <1>15
        <4>5. p = tunes[1]
          BY <3>5, <4>3 DEF Holding, Object, Unused
        <4>6. objects'[p].live
          BY <1>15, <2>1, <4>1, <4>4, <4>5
        <4> QED
          BY <1>11, <3>2, <3>3, <3>5, <4>4, <4>5, <4>6
      <3>6. HandsOver(made)
        <4> HIDE DEF new, c, N
        <4> QED
          BY <1>8, <3>2, <3>4, <3>5 DEF HandsOver
      <3> QED
        BY <3>6
    <2> HIDE DEF N, c, new
    <2> QED
      BY <2>9, <2>10, <2>11, <2>12, GrowingOrdered
  <1>16. ReadReturns(text, calls, ABCTexts, Clean, made) =>
            \E s \in FreeSlots : slots' = [slots EXCEPT ![s] = Owner(objects'[made].cls, made, Gives.hook)]
    BY DEF ReadReturns
  <1> HIDE DEF new
  <1> QED
    BY <1>3, <1>4, <1>9, <1>14, <1>15, <1>16 DEF ABCReturns

\* A call that returns, throws or is refused, one that is undefined, and those that change
\* nothing here.
LEMMA NothingOrdered ==
    ASSUME Consistent,
           \/ \E s \in Slots : CloneRefused(s)
           \/ \E s \in Occupied \cup {0} : \E t \in Callable(s) : Call(s, t)
           \/ Return \/ Undefined \/ Serve \/ ServeStatic \/ MessageArg
    PROVE  Ordered'
  <1>1. UNCHANGED <<class, run, slots, objects, copied>>
    BY DEF CloneRefused, vars, Call, Return, Undefined, Serve, ServeStatic, MessageArg,
           Throw, Done, Finished
  <1> QED
    BY <1>1, UnchangedOrdered

\* A text is not read at all, or read.
LEMMA ABCReaderReadOrdered ==
    ASSUME Consistent, CallsSound, ABCReaderRead
    PROVE  Ordered'
  <1>1. (Finished /\ UNCHANGED <<slots, objects>>) \/ \E text : ReadABC(text)
    BY DEF ABCReaderRead, Done
  <1>2. ASSUME NEW text, ReadABC(text)
        PROVE  Ordered'
    <2>1. \/ Finished /\ UNCHANGED <<slots, objects>>
          \/ \E calls, parsed : /\ Len(parsed.tunes) \in 0..(Cardinality(UnusedObjects) - 1)
                                /\ ABCRead(text, calls, parsed)
      BY <1>2 DEF ReadABC
    <2>2. ASSUME NEW calls, NEW parsed, Len(parsed.tunes) \in 0..(Cardinality(UnusedObjects) - 1),
                 ABCRead(text, calls, parsed)
          PROVE  Ordered'
      BY <2>2, ABCReadOrdered
    <2>3. CASE Finished /\ UNCHANGED <<slots, objects>>
      BY <2>3, UnchangedOrdered DEF Finished
    <2> QED
      BY <2>1, <2>2, <2>3
  <1>3. CASE Finished /\ UNCHANGED <<slots, objects>>
    BY <1>3, UnchangedOrdered DEF Finished
  <1> QED
    BY <1>1, <1>2, <1>3

\* A step that ends without undefined behaviour leaves the objects and instances in order.
LEMMA NextOrdered ==
    ASSUME fault = "none" => Consistent, CallsSound, Next, fault' = "none"
    PROVE  Consistent'
  <1>1. fault = "none"
    BY DEF Next, CreateInstance, DropInstance, CloneRefused, PushParameter, CloneInstance, Return,
           Undefined, Construct, TakePart, Serve, ServeStatic, NoteTranspose, PatternTranspose,
           PatternAdd, TuneTimeSignature, FileReadAll, MessageAdd, MessageArg, DrumTabRead,
           MMLReaderRead, ABCReaderRead, EndScript, Restart, Close, Idle, Reached, Served
  <1>2. Consistent
    BY <1>1
  <1>3. Framed'
    BY NextFrames
  <1> SUFFICES Ordered'
    BY <1>3 DEF Ordered, Consistent
  <1>4. CASE \E s \in Slots : CreateInstance(s) \/ DropInstance(s) \/ CloneRefused(s) \/ PushParameter(s)
    <2>1. ASSUME NEW s \in Slots, CreateInstance(s) PROVE Ordered'
      BY <1>2, <2>1, CreateInstanceOrdered
    <2>2. ASSUME NEW s \in Slots, PushParameter(s) PROVE Ordered'
      BY <1>2, <2>2, PushParameterOrdered
    <2> QED
      BY <1>2, <1>4, <2>1, <2>2, ReleasesOrdered, NothingOrdered
  <1>5. CASE \E s, t \in Slots : CloneInstance(s, t)
    BY <1>2, <1>5, CloneInstanceOrdered
  <1>6. CASE \/ Idle /\ \E s \in Occupied \cup {0} : \E t \in Callable(s) : Call(s, t)
             \/ Return \/ Undefined \/ Serve \/ ServeStatic \/ MessageArg
    BY <1>2, <1>6, NothingOrdered
  <1>7. CASE Construct \/ TakePart
    BY <1>2, <1>7, ConstructOrdered, TakePartOrdered
  <1>8. CASE NoteTranspose \/ PatternTranspose \/ PatternAdd \/ MessageAdd
    BY <1>2, <1>8, ChangesOrdered
  <1>9. CASE TuneTimeSignature \/ DrumTabRead \/ MMLReaderRead \/ ABCReaderRead
    BY <1>2, <1>9, TuneTimeSignatureOrdered, DrumTabReadOrdered, MMLReaderReadOrdered,
       ABCReaderReadOrdered
  <1>10. CASE FileReadAll
    <2>1. CASE objects' = objects
      <3>1. UNCHANGED <<class, run, slots, objects, copied>>
        BY <1>10, <2>1 DEF FileReadAll, Throw, Done, Finished
      <3> QED
        BY <1>2, <3>1, UnchangedOrdered
    <2> QED
      BY <1>2, <1>10, <2>1, FileReadAllOrdered
  <1>11. CASE EndScript \/ Restart \/ Close
    BY <1>2, <1>11, EndScriptOrdered, ReleasesOrdered
  <1> QED
    BY <1>4, <1>5, <1>6, <1>7, <1>8, <1>9, <1>10, <1>11 DEF Next

\* At the start there is nothing, but for the reader of Midi.abc.
LEMMA InitConsistent ==
    ASSUME Init
    PROVE  CallsSound /\ Consistent
  <1>1. /\ class \in Followed /\ Bound[class].objects \in Nat
        /\ class = "Midi" => StaticReader \in 1..Bound[class].objects
    BY NamesAssumption DEF Init, StaticReader
  <1>2. /\ DOMAIN objects = 1..Bound[class].objects
        /\ \A o \in DOMAIN objects :
              \/ objects[o] = Unused
              \/ class = "Midi" /\ o = StaticReader /\ objects[o] = Object("reader", NewReader)
        /\ class = "Midi" => objects[StaticReader] = Object("reader", NewReader)
    BY <1>1 DEF Init
  <1>3. slots = [s \in Slots |-> NoInstance] /\ frame = NoFrame /\ run = 0
    BY DEF Init
  <1>4. /\ ObjectShape(Unused) /\ Unused.cls = "none" /\ ~Unused.live /\ ~Unused.cached
        /\ ObjectShape(Object("reader", NewReader)) /\ Object("reader", NewReader).cls = "reader"
        /\ Object("reader", NewReader).live /\ ~Object("reader", NewReader).cached
        /\ Object("reader", NewReader).val = NewReader
    BY DEF Unused, Object, ObjectShape, ObjectFields, Inner
  <1>5. /\ DOMAIN NoInstance = SlotFields /\ NoInstance.obj = 0 /\ NoInstance.path = << >>
        /\ NoInstance.run = 0 /\ NoInstance.cls = "none" /\ NoInstance.hook = NoHook
    BY DEF NoInstance, SlotFields
  <1>6. Shape
    <2>1. \A s \in Slots : SlotShape(slots[s])
      BY <1>3, <1>5, Paths DEF SlotShape
    <2> QED
      BY <1>1, <1>2, <1>3, <1>4, <2>1 DEF Shape
  <1>7. CallsSound /\ Framed
    BY <1>3 DEF CallsSound, Framed, NoFrame, FrameFields
  <1>8. HookedSlots = {}
    BY <1>3, <1>5 DEF HookedSlots
  <1>9. Owned /\ Matching /\ Caching
    BY <1>2, <1>3, <1>4, <1>5, <1>8 DEF Owned, Matching, Matched, Caching, KeptFor
  <1>10. Valued
    <2>1. ASSUME NEW o \in DOMAIN objects, objects[o].live
          PROVE  ValueOf(o)
      <3>1. objects[o].cls = "reader" /\ objects[o].val = NewReader
        BY <1>2, <1>4, <2>1
      <3>2. DOMAIN NewReader = {"meter", "tunes"} /\ NewReader.tunes = << >>
        BY DEF NewReader
      <3>3. << >> \in Seq(DOMAIN objects) /\ DOMAIN << >> = {}
        OBVIOUS
      <3> QED
        BY ONLY <3>1, <3>2, <3>3 DEF ValueOf, Lister
    <2> QED
      BY <2>1 DEF Valued
  <1>11. Deletable
    BY <1>2, <1>4 DEF Deletable, OwnObject, Inner
  <1>12. Apart
    <2>1. ASSUME NEW o \in DOMAIN objects, NEW p, Holding(objects[o], p) PROVE FALSE
      <3>1. objects[o].cls = "reader" /\ objects[o].val = NewReader
        BY <1>2, <1>4, <2>1 DEF Holding
      <3>2. NewReader.tunes = << >> /\ DOMAIN << >> = {}
        BY DEF NewReader
      <3> QED
        BY <2>1, <3>1, <3>2 DEF Holding
    <2> QED
      BY <2>1 DEF Apart
  <1> QED
    BY <1>6, <1>7, <1>9, <1>10, <1>11, <1>12 DEF Consistent

\* An instance and its object are what InstancesSound says.
LEMMA ConsistentSound ==
    ASSUME fault = "none" => Consistent
    PROVE  InstancesSound
  <1> SUFFICES ASSUME fault = "none", Consistent
               PROVE  InstancesSound
    BY DEF InstancesSound
  <1>1. ASSUME NEW s \in HookedSlots
        PROVE  /\ objects[slots[s].obj].live /\ slots[s].path = << >>
               /\ objects[slots[s].obj].cls = slots[s].hook
               /\ \A t \in HookedSlots \ {s} : slots[t].obj # slots[s].obj
    <2>1. HookOf(s) /\ \A t \in HookedSlots : s # t => slots[s].obj # slots[t].obj
      BY <1>1 DEF Consistent, Owned
    <2> QED
      BY <2>1 DEF HookOf
  <1>2. ASSUME NEW o \in DOMAIN objects, objects[o].live, objects[o].cls \notin Inner,
               ~objects[o].cached, ~objects[o].lost
        PROVE  \E s \in HookedSlots : slots[s].obj = o
    BY <1>2 DEF Consistent, Deletable, OwnObject
  <1>3. ASSUME NEW s \in Occupied, slots[s].obj # 0, slots[s].path = << >>, slots[s].hook = NoHook,
               run - slots[s].run <= 1
        PROVE  objects[slots[s].obj].live
    <2>1. s \in Slots /\ slots[s].run \in 0..run /\ run \in Nat /\ KeptFor(s)
      BY <1>3 DEF Consistent, Shape, SlotShape, Caching, Occupied
    <2>2. slots[s].run = run \/ slots[s].run + 1 = run
      BY <1>3, <2>1
    <2> QED
      BY <1>3, <2>1, <2>2 DEF KeptFor
  <1> QED
    BY <1>1, <1>2, <1>3 DEF InstancesSound

-----------------------------------------------------------------------------
(***************************************************************************)
(* Undefined behaviour.                                                    *)
(***************************************************************************)

\* What an object holds, it deletes with itself or keeps in its list.
LEMMA HeldParts ==
    ASSUME NEW x, NEW p
    PROVE  Holding(x, p) <=> p \in PartsOf(x) \cup TunesOf(x)
  BY DEF Holding, PartsOf, TunesOf

\* An instance of a dead object has no hook, and it stands for a part or is two runs old.
LEMMA DanglingInstance ==
    ASSUME Consistent, NEW s \in Slots, slots[s].obj # 0, ~objects[slots[s].obj].live
    PROVE  s \in Occupied /\ Stranded(s)
  <1>1. slots[s].hook = NoHook
    BY DEF Consistent, Owned, HookedSlots, HookOf
  <1>2. /\ run \in Nat /\ slots[s].run \in 0..run
    BY DEF Consistent, Shape, SlotShape
  <1>3. s \in Occupied
    BY DEF Occupied, NoInstance
  <1>4. slots[s].path # << >> \/ (objects[slots[s].obj].cached /\ run - slots[s].run > 1)
    <2>1. KeptFor(s)
      BY DEF Consistent, Caching
    <2>2. slots[s].path = << >> =>
             objects[slots[s].obj].cached /\ slots[s].run # run /\ slots[s].run + 1 # run
      BY <1>1, <2>1 DEF KeptFor
    <2> QED
      BY <1>2, <2>2
  <1> QED
    BY <1>1, <1>3, <1>4 DEF Stranded

\* A call goes on with a pointer that was never read, to an object of another class, or to
\* one that is dead.
LEMMA UndefinedExplained ==
    ASSUME Consistent, CallsSound, Undefined
    PROVE  Explained
  <1>1. CASE fault' \in {"garbage", "confused"}
    BY <1>1 DEF Explained
  <1>2. CASE fault' \notin {"garbage", "confused"}
    <2>1. /\ fault' = "dangling" /\ frame.verdict = "reached" /\ frame.cls \notin Packages
          /\ frame.method # "constructor" /\ ~objects[It.obj].live
      BY <1>2 DEF Undefined, Followable
    <2>2. /\ frame.cls \in DOMAIN Class /\ frame.this \in Slots /\ frame.method \in Members(frame.cls)
          /\ frame.native = NativeOf(frame.cls, frame.method)
      BY <2>1 DEF Consistent, Framed
    <2>3. frame.native.kind = "method"
      BY <2>1, <2>2, CallablesWellFormed
    <2>4. It.obj # 0
      BY <2>1, <2>3 DEF CallsSound, It
    <2>5. frame.this \in Occupied /\ Stranded(frame.this)
      BY <2>1, <2>2, <2>4, DanglingInstance DEF It
    <2>6. Follows(frame.this)
      BY <2>1 DEF Follows
    <2> QED
      BY <2>1, <2>5, <2>6 DEF Explained
  <1> QED
    BY <1>1, <1>2

\* So does a clone of an instance.
LEMMA CloneExplained ==
    ASSUME Consistent, NEW s \in Slots, NEW t \in Slots, CloneInstance(s, t)
    PROVE  Explained
  <1>1. fault = "none" /\ frame.verdict = "none"
    BY DEF CloneInstance, Idle
  <1>2. CASE fault' \in {"none", "null clone"}
    BY <1>2 DEF Explained
  <1>3. CASE slots[s].obj # 0 /\ ~objects[slots[s].obj].live /\ fault' = "dangling"
    <2>1. s \in Occupied /\ Stranded(s)
      BY <1>3, DanglingInstance
    <2>2. Follows(s)
      BY <1>1 DEF Follows
    <2> QED
      BY <1>3, <2>1, <2>2 DEF Explained
  <1> QED
    BY <1>1, <1>2, <1>3 DEF CloneInstance

\* Of what the hooks delete, only what was held by an object that was cloned dies twice.
LEMMA ReleaseExplained ==
    ASSUME Consistent, NEW S \in SUBSET Slots, Release(S), frame.verdict = "none",
           \A s \in S : slots'[s] = NoInstance
    PROVE  Explained
  <1> DEFINE gone == Hooked(S)
  <1>1. \A o \in gone : o \in DOMAIN objects /\ objects[o].live
    BY DEF Consistent, Owned, HookedSlots, HookOf, Hooked, Shape, SlotShape
  <1>2. gone \subseteq Deleters
    <2> SUFFICES ASSUME NEW o \in gone PROVE o \in Deleters
      OBVIOUS
    <2>1. PICK s \in S : slots[s].hook # NoHook /\ o = slots[s].obj
      BY DEF Hooked
    <2>2. slots'[s] # slots[s]
      BY <2>1 DEF NoInstance
    <2>3. s \in {r \in HookedSlots : slots'[r] # slots[r]}
      BY <2>1, <2>2 DEF HookedSlots
    <2> QED
      BY <2>1, <2>3 DEF Deleters
  <1>3. fault' \in {"none", "double delete"} /\ (fault' = "double delete" => DeletedTwice(gone))
    BY DEF Release
  <1> HIDE DEF gone
  <1>4. ASSUME DeletedTwice(gone) PROVE \E o \in Deleters : DeletedAgain(o)
    <2>1. PICK o \in gone : \E p \in PartsOf(objects[o]) :
             ~objects[p].live \/ \E q \in gone \ {o} : p \in PartsOf(objects[q])
      BY <1>1, <1>4 DEF DeletedTwice
    <2>2. PICK p \in PartsOf(objects[o]) :
             ~objects[p].live \/ \E q \in gone \ {o} : p \in PartsOf(objects[q])
      BY <2>1
    <2>3. o \in DOMAIN objects /\ Holding(objects[o], p)
      BY <1>1, <2>1, <2>2, HeldParts
    <2>4. p \in DOMAIN objects
      BY <2>3, HeldPart DEF Consistent
    <2>5. p \in copied
      <3> SUFFICES ASSUME p \notin copied PROVE FALSE
        OBVIOUS
      <3>1. objects[p].live /\ \A q \in DOMAIN objects : Holding(objects[q], p) => q = o
        BY <2>3, <2>4 DEF Consistent, Apart
      <3> QED
        BY <1>1, <2>2, <3>1, HeldParts
    <2>6. ~objects[p].live \/ \E q \in Deleters \ {o} : p \in PartsOf(objects[q])
      BY <1>2, <2>2
    <2>7. DeletedAgain(o)
      BY <2>2, <2>5, <2>6 DEF DeletedAgain
    <2> QED
      BY <1>2, <2>7
  <1> QED
    BY <1>3, <1>4 DEF Explained

\* Nor does the buffer of a file die twice otherwise.
LEMMA FileReadAllExplained ==
    ASSUME Consistent, CallsSound, FileReadAll
    PROVE  Explained
  <1>1. Served /\ fault = "none" /\ frame.verdict = "reached" /\ frame.cls = "IO.File" /\ frame.method = "readAll"
    BY DEF FileReadAll, Reached, Served
  <1>2. CASE fault' = fault
    BY <1>1, <1>2 DEF Explained
  <1>3. CASE fault' = "double delete" /\ Its # 0 /\ ~objects[Its].live
    <2>1. /\ It.obj \in DOMAIN objects /\ objects[It.obj].live
          /\ objects[It.obj].cls = "IO.File" /\ Its = objects[It.obj].val
      BY <1>1, ServedCall, ServedHolder DEF Holders
    <2>2. Holding(objects[It.obj], Its)
      BY <1>3, <2>1 DEF Holding
    <2>3. Its \in DOMAIN objects
      BY <2>1, <2>2, HeldPart DEF Consistent
    <2>4. Its \in copied
      BY <1>3, <2>1, <2>2, <2>3 DEF Consistent, Apart
    <2>5. DeletedAgain(It.obj)
      BY <1>3, <2>2, <2>4, HeldParts DEF DeletedAgain
    <2>6. It.obj \in Deleters
      BY <1>1 DEF Deleters
    <2> QED
      BY <1>3, <2>5, <2>6 DEF Explained
  <1> QED
    BY <1>2, <1>3 DEF FileReadAll, Throw

\* Only the parser of a copy follows a reader or a pattern that is dead.
LEMMA MMLReaderReadExplained ==
    ASSUME Consistent, CallsSound, MMLReaderRead
    PROVE  Explained
  <1>1. /\ Served /\ fault = "none" /\ Room(1)
        /\ frame.cls = "Midi.MMLReader" /\ frame.method = "read"
    BY DEF MMLReaderRead, Reached, Served
  <1>2. /\ It.obj \in DOMAIN objects /\ objects[It.obj].live
        /\ objects[It.obj].cls = "Midi.MMLReader" /\ Its = objects[It.obj].val
        /\ Its.self \in DOMAIN objects /\ (Its.self = It.obj \/ Its.self \in copied)
    <2>1. /\ It.obj \in DOMAIN objects /\ objects[It.obj].live
          /\ objects[It.obj].cls = "Midi.MMLReader" /\ Its = objects[It.obj].val /\ ValueOf(It.obj)
      BY <1>1, ServedCall, ServedHolder DEF Holders
    <2> QED
      BY <2>1 DEF ValueOf
  <1>3. CASE Its.self = It.obj
    <2>1. Fresh(1) # 0
      BY <1>1, RoomForOne DEF Consistent, Shape
    <2>2. fault' = fault
      BY <1>2, <1>3, <2>1 DEF MMLReaderRead
    <2> QED
      BY <1>1, <2>2 DEF Explained
  <1>4. CASE Its.self # It.obj
    <2>1. CalledByCopy
      BY <1>1, <1>2, <1>4 DEF CalledByCopy
    <2>2. fault' = fault \/ fault' = "dangling"
      BY DEF MMLReaderRead
    <2> QED
      BY <1>1, <2>1, <2>2 DEF Explained
  <1> QED
    BY <1>3, <1>4

\* A reader deletes a tune twice when a copy of it has.
LEMMA ABCReadExplained ==
    ASSUME Consistent, CallsSound, ABCReaderRead, fault = "none", frame.verdict = "reached",
           NEW text, NEW calls, NEW parsed,
           Len(parsed.tunes) \in 0..(Cardinality(UnusedObjects) - 1), ABCRead(text, calls, parsed)
    PROVE  Explained
  <1>1. PICK R \in DOMAIN objects : R = ABCReader /\ objects[R].live /\ Lister(R)
    BY ReadingABC
  <1>2. PICK k \in 0..(Cardinality(UnusedObjects) - 1) : k = Len(parsed.tunes)
    OBVIOUS
  <1>3. PICK made : made = Fresh(k + 1)
    OBVIOUS
  <1>4. PICK tunes, kept :
           /\ tunes = objects[R].val.tunes \o [n \in 1..k |-> Fresh(n)]
           /\ kept = [Keeps(parsed) EXCEPT ![R].val = [meter |-> parsed.meter, tunes |-> tunes]]
           /\ ABCReturns(text, calls, parsed, tunes, kept, k + 1)
    BY <1>1, <1>2 DEF ABCRead, Kept
  <1>5. TunesKept(R, parsed.meter, tunes, kept, made)
    <2>1. Tuned(R, parsed, k, tunes, kept, made)
      BY <1>2, <1>3, <1>4 DEF Tuned
    <2> QED
      BY ONLY Consistent, R \in DOMAIN objects, <1>1, <2>1, ABCKeeps
  <1>6. CASE fault' \in {"none", "index"}
    BY <1>6 DEF Explained
  <1>7. CASE fault' = "double delete" /\ \E n \in DOMAIN tunes : ~kept[tunes[n]].live
    <2>1. PICK n \in DOMAIN tunes : ~kept[tunes[n]].live
      BY <1>7
    <2>2. /\ tunes \in Seq(DOMAIN objects) /\ tunes[n] # R /\ Holding(objects[R], tunes[n])
          /\ \A o \in DOMAIN objects : objects[o].cls # "none" /\ o # R => kept[o] = objects[o]
      BY ONLY n \in DOMAIN tunes, <1>5, <2>1 DEF TunesKept
    <2>3. tunes[n] \in DOMAIN objects /\ objects[tunes[n]].cls \in Parts
      BY <2>2, HeldPart DEF Consistent
    <2>4. ~objects[tunes[n]].live
      BY <2>1, <2>2, <2>3 DEF Parts
    <2>5. Apart
      BY DEF Consistent
    <2>6. tunes[n] \in copied
      BY ONLY R \in DOMAIN objects, <2>2, <2>3, <2>4, <2>5 DEF Apart
    <2>7. DeletedAgain(R)
      BY <2>2, <2>4, <2>6, HeldParts DEF DeletedAgain
    <2>8. R \in Deleters
      BY <1>1 DEF Deleters, ABCReader
    <2> QED
      BY <1>7, <2>7, <2>8 DEF Explained
  <1> QED
    BY <1>4, <1>6, <1>7 DEF ABCReturns

\* A text is read, or abcmidi fails on it before.
LEMMA ABCReaderReadExplained ==
    ASSUME Consistent, CallsSound, ABCReaderRead
    PROVE  Explained
  <1>1. fault = "none" /\ frame.verdict = "reached"
    BY DEF ABCReaderRead, Reached, Served
  <1>2. ASSUME NEW text, ReadABC(text)
        PROVE  Explained
    <2>1. \/ fault' \in {"division by zero", "uninitialized"}
          \/ \E calls, parsed : /\ Len(parsed.tunes) \in 0..(Cardinality(UnusedObjects) - 1)
                                /\ ABCRead(text, calls, parsed)
      BY <1>2 DEF ReadABC
    <2>2. CASE fault' \in {"division by zero", "uninitialized"}
      BY <2>2 DEF Explained
    <2>3. ASSUME NEW calls, NEW parsed, Len(parsed.tunes) \in 0..(Cardinality(UnusedObjects) - 1),
                 ABCRead(text, calls, parsed)
          PROVE  Explained
      BY <1>1, <2>3, ABCReadExplained
    <2> QED
      BY <2>1, <2>2, <2>3
  <1>3. CASE fault' = "stale tune"
    BY <1>3 DEF Explained
  <1> QED
    BY <1>2, <1>3 DEF ABCReaderRead

\* Whatever dead object is met in a step, or dies twice, is explained.
LEMMA NextExplained ==
    ASSUME fault = "none" => Consistent, CallsSound, Next
    PROVE  Explained
  <1>1. fault = "none"
    BY DEF Next, CreateInstance, DropInstance, CloneRefused, PushParameter, CloneInstance, Return,
           Undefined, Construct, TakePart, Serve, ServeStatic, NoteTranspose, PatternTranspose,
           PatternAdd, TuneTimeSignature, FileReadAll, MessageAdd, MessageArg, DrumTabRead,
           MMLReaderRead, ABCReaderRead, EndScript, Restart, Close, Idle, Reached, Served
  <1>2. Consistent
    BY <1>1
  <1>3. ASSUME fault' = fault PROVE Explained
    BY <1>1, <1>3 DEF Explained
  <1>4. CASE \E s \in Slots : CreateInstance(s) \/ CloneRefused(s) \/ PushParameter(s)
    <2>1. fault' = fault
      BY <1>4 DEF CreateInstance, CloneRefused, PushParameter, vars
    <2> QED
      BY <1>3, <2>1
  <1>5. CASE \/ \E s \in Slots : DropInstance(s)
             \/ Restart \/ Close
    <2>1. PICK S \in SUBSET Slots : Release(S) /\ \A s \in S : slots'[s] = NoInstance
      <3>1. DOMAIN slots = Slots /\ Occupied \subseteq Slots
        BY <1>2 DEF Consistent, Shape, Occupied
      <3>2. CASE \E s \in Slots : DropInstance(s)
        BY <3>1, <3>2 DEF DropInstance
      <3>3. CASE Restart
        <4>1. PICK kept \in SUBSET Occupied :
                 /\ Release(Occupied \ kept)
                 /\ slots' = [s \in Slots |-> IF s \in kept THEN slots[s] ELSE NoInstance]
          BY <3>3 DEF Restart
        <4>2. Occupied \ kept \in SUBSET Slots
          BY <3>1
        <4> QED
          BY <4>1, <4>2
      <3>4. CASE Close
        BY <3>1, <3>4 DEF Close
      <3> QED
        BY <1>5, <3>2, <3>3, <3>4
    <2>2. frame.verdict = "none"
      BY <1>5 DEF DropInstance, Restart, Close, Idle
    <2> QED
      BY <1>2, <2>1, <2>2, ReleaseExplained
  <1>6. CASE \E s, t \in Slots : CloneInstance(s, t)
    BY <1>2, <1>6, CloneExplained
  <1>7. CASE \E s \in Occupied \cup {0} : \E t \in Callable(s) : Call(s, t)
    <2>1. fault' = fault
      BY <1>7 DEF Call
    <2> QED
      BY <1>3, <2>1
  <1>8. CASE Undefined \/ FileReadAll \/ MMLReaderRead \/ ABCReaderRead
    BY <1>2, <1>8, UndefinedExplained, FileReadAllExplained, MMLReaderReadExplained, ABCReaderReadExplained
  <1>9. CASE MessageArg
    BY <1>9 DEF MessageArg, Explained
  <1>10. CASE \/ Return \/ Construct \/ TakePart \/ Serve \/ ServeStatic
              \/ NoteTranspose \/ PatternTranspose \/ PatternAdd \/ TuneTimeSignature
              \/ MessageAdd \/ DrumTabRead \/ EndScript
    <2>1. fault' = fault
      BY <1>10 DEF Return, Construct, TakePart, Serve, ServeStatic, NoteTranspose, PatternTranspose,
         PatternAdd, TuneTimeSignature, MessageAdd, DrumTabRead, EndScript, Throw
    <2> QED
      BY <1>3, <2>1
  <1> QED
    BY <1>4, <1>5, <1>6, <1>7, <1>8, <1>9, <1>10 DEF Next

-----------------------------------------------------------------------------
(***************************************************************************)
(* The theorems.                                                           *)
(***************************************************************************)

\* The invariant holds at the start and every step keeps it.
THEOREM Inductive == Spec => []IInv
  <1>1. Init => IInv
    BY InitConsistent DEF IInv
  <1>2. IInv /\ [Next]_vars => IInv'
    <2> SUFFICES ASSUME IInv, [Next]_vars
                 PROVE  IInv'
      OBVIOUS
    <2>1. CASE Next
      <3>1. CallsSound'
        BY <2>1, NextFrames DEF IInv
      <3>2. fault' = "none" => Consistent'
        BY <2>1, NextOrdered DEF IInv
      <3> QED
        BY <3>1, <3>2 DEF IInv
    <2>2. CASE UNCHANGED vars
      <3>1. CallsSound'
        BY <2>2 DEF IInv, CallsSound, vars, Documents, Unread
      <3>2. fault = "none" => Framed' /\ Ordered'
        <4>1. UNCHANGED <<class, run, slots, objects, copied, frame, fault>>
          BY <2>2 DEF vars
        <4>2. ASSUME Consistent PROVE Framed'
          BY <4>1, <4>2 DEF Consistent, Framed
        <4>3. ASSUME Consistent PROVE Ordered'
          BY <4>1, <4>3, UnchangedOrdered
        <4> QED
          BY <4>2, <4>3 DEF IInv
      <3> QED
        BY <2>2, <3>1, <3>2 DEF IInv, Consistent, Ordered, vars
    <2> QED
      BY <2>1, <2>2
  <1> QED
    BY <1>1, <1>2, PTL DEF Spec

\* An implementation is reached exactly by the calls one of its overloads documents.
THEOREM CallsSoundAlways == Spec => []CallsSound
  BY Inductive, PTL DEF IInv

\* The hooks delete every object exactly once.
THEOREM InstancesSoundAlways == Spec => []InstancesSound
  <1>1. IInv => InstancesSound
    BY ConsistentSound DEF IInv
  <1> QED
    BY <1>1, Inductive, PTL

\* A script meets a dead object only where an instance may outlive it, and deletes one again
\* only when what held it was cloned.
THEOREM LifetimesExplainedAlways == Spec => LifetimesExplained
  <1>1. IInv /\ [Next]_vars => [Explained]_vars
    BY NextExplained DEF IInv
  <1> QED
    BY <1>1, Inductive, PTL DEF Spec, LifetimesExplained

================================================================================
