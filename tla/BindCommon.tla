------------------------------ MODULE BindCommon ------------------------------
(***************************************************************************)
(* What the generated bindings share: how a native function of the         *)
(* scripting API reads its arguments from the Squirrel stack, picks one of *)
(* its overloads, and checks the number and the kinds of its arguments     *)
(* before it calls the C++ implementation.                                 *)
(*                                                                         *)
(* An argument is abstracted to its kind: a Squirrel type, the typetag of  *)
(* the class of a constructed instance, or "empty" for an instance whose   *)
(* constructor was never called (its user pointer is NULL).  A native      *)
(* function is a record of its forms, one per overload; the modules        *)
(* BindAudio, BindIO, BindLv2, BindMath, BindMidi, BindOsc, BindSystem and *)
(* BindTransport hold one definition per function, named as in the source. *)
(***************************************************************************)
EXTENDS Naturals, Sequences

(***************************************************************************)
(* Reading one argument.  `accepts' are the kinds the reader takes;        *)
(* `returns' is FALSE for the readers of instances whose function ends     *)
(* without a return statement when the argument does not fit: what the     *)
(* caller then gets is undefined.                                          *)
(***************************************************************************)
Reader(accepts, returns) == [accepts |-> accepts, returns |-> returns]

sq_getinteger == Reader({"integer", "float"}, TRUE)
sq_getfloat   == Reader({"integer", "float"}, TRUE)
sq_getbool    == Reader({"bool"}, TRUE)
sq_getstring  == Reader({"string"}, TRUE)
OT_ARRAY      == Reader({"array"}, TRUE)
OT_TABLE      == Reader({"table"}, TRUE)
OT_NULL       == Reader({"null"}, TRUE)
OT_FLOAT      == Reader({"float"}, TRUE)
OT_INTEGER    == Reader({"integer"}, TRUE)
OT_STRING     == Reader({"string"}, TRUE)
OT_BOOL       == Reader({"bool"}, TRUE)
OT_CLOSURE    == Reader({"function"}, TRUE)

Integers(n) == [i \in 1..n |-> sq_getinteger]
Strings(n) == [i \in 1..n |-> sq_getstring]

(***************************************************************************)
(* What reading an argument of kind k gives: the value, NULL, or (when the *)
(* reader ends without a return) whatever was in the return register.      *)
(***************************************************************************)
Reads(reader, k) ==
    IF k \in reader.accepts THEN {"value"}
    ELSE IF reader.returns THEN {"null"} ELSE {"null", "garbage"}

(***************************************************************************)
(* An overload.  Plain: taken whenever it is reached.  Short: taken when   *)
(* the argument at `at', which the other overloads are told apart by, is   *)
(* not there.  On: taken when the argument at `at' is read by `is'.        *)
(* `least' arguments must be there; `takes' are the readers of all.        *)
(***************************************************************************)
Form(at, test, is, least, takes) ==
    [at |-> at, test |-> test, is |-> is, least |-> least, takes |-> takes]
Plain(least, takes) == Form(0, "none", OT_NULL, least, takes)
Short(at, least, takes) == Form(at, "absent", OT_NULL, least, takes)
On(at, is, least, takes) == Form(at, "kind", is, least, takes)

(***************************************************************************)
(* Release hooks: NULL for instances of the objects the caches and the     *)
(* other objects keep, otherwise the class whose object it deletes.        *)
(***************************************************************************)
NoHook == "NULL"
Deletes(c) == c

(***************************************************************************)
(* What a function returns: nothing, a plain value, or a new instance of a *)
(* class around a C++ object, with or without a release hook.              *)
(***************************************************************************)
Nothing == [instance |-> FALSE, of |-> "nothing", hook |-> NoHook]
Value == [instance |-> FALSE, of |-> "value", hook |-> NoHook]
Instance(c, hook) == [instance |-> TRUE, of |-> c, hook |-> hook]

(***************************************************************************)
(* Native functions.  A constructor has the hook it sets; one that cannot  *)
(* be called has no form at all.                                           *)
(***************************************************************************)
Native(kind, gives, hook, forms) ==
    [kind |-> kind, gives |-> gives, hook |-> hook, forms |-> forms]
Ctor(hook, forms) == Native("constructor", Nothing, hook, forms)
Method(gives, forms) == Native("method", gives, NoHook, forms)
Static(gives, forms) == Native("static", gives, NoHook, forms)
Uninstantiable == Ctor(NoHook, << >>)

(***************************************************************************)
(* The _cloned metamethod of a class: refuse, or copy the C++ object of    *)
(* the original and set the hook.                                          *)
(***************************************************************************)
unclonable == [clones |-> FALSE, hook |-> NoHook]
Copies(hook) == [clones |-> TRUE, hook |-> hook]

(***************************************************************************)
(* The parameters handed to a handler: a new instance around a copy of the *)
(* object, with a hook.                                                    *)
(***************************************************************************)
Pushes(c, hook) == Instance(c, hook)

-----------------------------------------------------------------------------
(***************************************************************************)
(* What the forms of every native function have in common: the readers are *)
(* a sequence; the argument an overload is told apart by can be passed to  *)
(* it, is there when no overload before it is taken and, if its kind is    *)
(* read without a return, is read the same way again; an overload for      *)
(* fewer arguments takes no more; and no overload hides a later one.       *)
(***************************************************************************)
TakenAt(form, i) == IF form.test = "kind" /\ i = form.at THEN form.is ELSE form.takes[i]

WellFormedAlone(form) ==
    /\ Len(form.takes) \in Nat /\ DOMAIN form.takes = 1..Len(form.takes)
    /\ form.test \in {"none", "absent", "kind"} /\ form.at \in Nat /\ form.least \in Nat
    /\ form.test = "absent" => Len(form.takes) < form.at
    /\ form.test = "kind" =>
          /\ form.at \in DOMAIN form.takes
          /\ form.is.returns \/ form.takes[form.at] = form.is

Hides(form, later) ==
    \/ form.test = "none"
    \/ form.at > later.least /\ ~(later.test = "kind" /\ form.at <= later.at)
    \/ form.test = "kind" /\ form.is.accepts \cap TakenAt(later, form.at).accepts # {}

WellFormed(forms) ==
    /\ Len(forms) \in Nat /\ DOMAIN forms = 1..Len(forms)
    /\ \A f \in DOMAIN forms :
          /\ WellFormedAlone(forms[f])
          /\ forms[f].test = "kind" =>
                \/ forms[f].at <= forms[f].least
                \/ \E g \in 1..(f - 1) : forms[g].test = "absent" /\ forms[g].at >= forms[f].at
          /\ \A g \in 1..(f - 1) : ~Hides(forms[g], forms[f])

-----------------------------------------------------------------------------
(***************************************************************************)
(* The overload a call takes.  `stale' is the kind that happens to be in   *)
(* the stack slot of an argument that was not passed: sq_gettype does not  *)
(* look at the top of the stack.                                           *)
(***************************************************************************)
Kind(args, i, stale) == IF i <= Len(args) THEN args[i] ELSE stale

Passes(form, args, stale) ==
    CASE form.test = "none" -> {"value"}
      [] form.test = "absent" -> IF Len(args) < form.at THEN {"value"} ELSE {"null"}
      [] OTHER -> Reads(form.is, Kind(args, form.at, stale))

Selected(forms, args, stale) ==
    {s \in (DOMAIN forms) \X {"value", "garbage"} :
        /\ s[2] \in Passes(forms[s[1]], args, stale)
        /\ \A j \in 1..(s[1] - 1) : "null" \in Passes(forms[j], args, stale)}

SelectsNone(forms, args, stale) ==
    \A i \in DOMAIN forms : "null" \in Passes(forms[i], args, stale)

(***************************************************************************)
(* The checks of the form that was taken, in their order: too many         *)
(* arguments, too few, `this' (a method needs a constructed instance, of   *)
(* whatever class), then each argument in turn.                            *)
(***************************************************************************)
This(native, this) == native.kind = "method" => this \in {"instance", "other"}

\* Mutant: too few arguments are not noticed.
CountedAtMost(form, args) == Len(args) <= Len(form.takes)

Counted(form, args) == Len(args) \in form.least..Len(form.takes)

Misfits(form, args) ==
    {i \in DOMAIN args : /\ ~(form.test = "kind" /\ i = form.at)
                         /\ args[i] \notin form.takes[i].accepts}

Checked(native, form, args, this) ==
    IF ~Counted(form, args) \/ ~This(native, this) THEN {"refused"}
    ELSE IF Misfits(form, args) = {} THEN {"reached"}
    ELSE {"refused"} \cup {v \in {"garbage"} :
                             \A i \in Misfits(form, args) : ~form.takes[i].returns}

(***************************************************************************)
(* Everything a call may come to: refused with an error, the               *)
(* implementation reached, or reached with a pointer that was never read.  *)
(***************************************************************************)
Verdicts(native, args, this, stale) ==
    (IF SelectsNone(native.forms, args, stale) THEN {"refused"} ELSE {})
      \cup UNION {{IF v = "reached" /\ s[2] = "garbage" THEN "garbage" ELSE v :
                     v \in Checked(native, native.forms[s[1]], args, this)} :
                   s \in Selected(native.forms, args, stale)}

(***************************************************************************)
(* The references sq_addref has taken when a call ends its checks: one per *)
(* function argument before the first bad one.  None is given back when    *)
(* the call is refused.                                                    *)
(***************************************************************************)
Referenced(native, args, this) ==
    LET form == native.forms[1] IN
    IF native.forms = << >> \/ ~Counted(form, args) \/ ~This(native, this) THEN 0
    ELSE IF \E i \in DOMAIN args : /\ form.takes[i] = OT_CLOSURE
                                   /\ \A j \in 1..i : args[j] \in form.takes[j].accepts
         THEN 1 ELSE 0
=============================================================================
