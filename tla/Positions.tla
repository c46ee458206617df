------------------------------ MODULE Positions ------------------------------
(***************************************************************************)
(* Durations and musical positions (position.h, position.cpp): a whole     *)
(* number of bars and a fraction of a bar, in unsigned machine words.  All *)
(* sums and products wrap around.                                          *)
(***************************************************************************)
EXTENDS Integers, Sequences, FiniteSetsExt, SequencesExt

CONSTANTS
    Word,               \* one more than the largest unsigned int (2^32 in the build)
    MAX_DENOMINATOR     \* the division above which fractions are reduced (384000)

ASSUME WordAssumption == /\ Word \in Nat \ {0}
                         /\ MAX_DENOMINATOR \in 1..(Word - 1)

Wrap(n) == n % Word

Duration(whole, position, division) ==
    [whole |-> whole, position |-> position, division |-> division]

(***************************************************************************)
(* normalize(): carry what is over unity, then, when the division is       *)
(* large, divide position and division by 7, 6, 5, 4, 3 and 2 as often as  *)
(* each divides both.                                                      *)
(***************************************************************************)
Carry(d) ==
    IF d.position >= d.division
    THEN [d EXCEPT !.whole = Wrap(@ + (d.position \div d.division)),
                   !.position = d.position % d.division]
    ELSE d

DivideOut(d, factor) ==
    LET position(q) == d.position \div (d.division \div q)
        left[q \in 1..d.division] ==
            IF position(q) % factor = 0 /\ q % factor = 0 THEN left[q \div factor] ELSE q
    IN  [d EXCEPT !.position = position(left[d.division]), !.division = left[d.division]]

DivideAll(d) ==
    DivideOut(DivideOut(DivideOut(DivideOut(DivideOut(DivideOut(d, 7), 6), 5), 4), 3), 2)

Normalize(d) ==
    LET c == Carry(d) IN
    IF c.division > MAX_DENOMINATOR THEN DivideAll(c) ELSE c

(***************************************************************************)
(* The constructors: a division of zero is refused, and a position in bar  *)
(* zero.                                                                   *)
(***************************************************************************)
MakesDuration(division) == division # 0
MakesPosition(bar, division) == division # 0 /\ bar # 0

NewDuration(whole, position, division) == Normalize(Duration(whole, position, division))
NewPosition(bar, position, division) == NewDuration(bar, position, division)

(***************************************************************************)
(* operator< and operator<=: by bars, then by cross-multiplication.        *)
(***************************************************************************)
Less(a, b) ==
    \/ a.whole < b.whole
    \/ /\ a.whole = b.whole
       /\ Wrap(a.position * b.division) < Wrap(b.position * a.division)

LessOrEqual(a, b) ==
    \/ a.whole < b.whole
    \/ /\ a.whole = b.whole
       /\ Wrap(a.position * b.division) <= Wrap(b.position * a.division)

(***************************************************************************)
(* operator-: only for equal divisions, otherwise it throws.  The bars of  *)
(* the difference are counted into its position.                           *)
(***************************************************************************)
Subtracts(a, b) == a.division = b.division

Minus(a, b) ==
    LET bars == IF a.whole > b.whole THEN a.whole - b.whole ELSE 0
    IN  Duration(0, Wrap(a.position + bars * a.division - b.position), a.division)

(***************************************************************************)
(* operator+=.  The product of the divisions may wrap to zero, and the     *)
(* division by it in normalize() then ends the program.                    *)
(***************************************************************************)
Sum(a, d) ==
    IF a.division = d.division
    THEN Duration(Wrap(a.whole + d.whole), Wrap(a.position + d.position), a.division)
    ELSE Duration(Wrap(a.whole + d.whole),
                  Wrap(a.position * d.division + d.position * a.division),
                  Wrap(a.division * d.division))

Adds(a, d) == Sum(a, d).division # 0
Plus(a, d) == Normalize(Sum(a, d))

-----------------------------------------------------------------------------
(***************************************************************************)
(* What the operations stand for, in exact arithmetic: the same point in   *)
(* time, and whether the words were large enough for a sum.                *)
(***************************************************************************)
SameTime(a, b) ==
    (a.whole * a.division + a.position) * b.division =
        (b.whole * b.division + b.position) * a.division

Fits(a, d) == a.position * d.division + d.position * a.division < Word
              /\ a.division * d.division < Word
=============================================================================
