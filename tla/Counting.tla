------------------------------ MODULE Counting ------------------------------
(***************************************************************************)
(* Loops that count, in generated code: for .. to, for .. downto, and a    *)
(* while whose condition compares a counter that its body increments or    *)
(* decrements.  INT is a machine word.  The word is the same for signed    *)
(* and unsigned integers, but a comparison is one or the other, and        *)
(* codegen() takes < and <= unsigned, > and >= signed.                     *)
(***************************************************************************)
EXTENDS Integers

CONSTANT Half  \* half the number of words, 2^31 for an i32

ASSUME HalfAssumption == Half \in Nat \ {0}

VARIABLES
  loop,    \* which loop it is
  writes,  \* does the body assign to what the bound is computed from?
  first,   \* the first value of the counter
  i,       \* the counter
  to,      \* the bound, which is computed again for each round
  block    \* "loop", "body" or "endfor", the blocks of ForExpr::codegen()

vars == <<loop, writes, first, i, to, block>>

-----------------------------------------------------------------------------
(* Words.                                                                  *)

Words == 0..2 * Half - 1

Signed(w) == IF w < Half THEN w ELSE w - 2 * Half

\* The largest and the smallest signed integer, and -1.
IntMax == Half - 1

IntMin == Half

MinusOne == 2 * Half - 1

SameSign(a, b) == (a < Half) <=> (b < Half)

\* Mutant of Add: the sum does not fit.
AddWide(a, b) == a + b

Add(a, b) == (a + b) % (2 * Half)

Sub(a, b) == (a - b) % (2 * Half)

Mul(a, b) == (a * b) % (2 * Half)

\* Mutant of Minus: not of all bits, as for SIG_PLUS.
MinusInverts(w) == 2 * Half - 1 - w

\* SIG_MINUS multiplies by -1; SIG_PLUS is a not of all bits.
Minus(w) == Mul(w, MinusOne)

Plus(w) == 2 * Half - 1 - w

\* Mutant of L: signed, like G.
LSigned(a, b) == Signed(a) < Signed(b)

\* L and LE.
L(a, b) == a < b

LE(a, b) == a <= b

\* G and GE.
G(a, b) == Signed(a) > Signed(b)

\* Mutant of GE: unsigned, like LE.
GEUnsigned(a, b) == a >= b

GE(a, b) == Signed(a) >= Signed(b)

-----------------------------------------------------------------------------
(* Loops.                                                                  *)

Loops == {"to", "downto", "while_less", "while_greater"}

\* Mutant of Continues: for excludes its bound.
ContinuesBefore(l, a, b) ==
  \/ l = "to" /\ L(a, b)
  \/ l = "downto" /\ GE(a, b)
  \/ l = "while_less" /\ L(a, b)
  \/ l = "while_greater" /\ G(a, b)

\* loop_cond.
Continues(l, a, b) ==
  \/ l = "to" /\ LE(a, b)
  \/ l = "downto" /\ GE(a, b)
  \/ l = "while_less" /\ L(a, b)
  \/ l = "while_greater" /\ G(a, b)

Up == loop \in {"to", "while_less"}

\* The condition, with the bound that it is evaluated for.
Loop ==
  /\ block = "loop"
  /\ block' = IF Continues(loop, i, to) THEN "body" ELSE "endfor"
  /\ UNCHANGED <<loop, writes, first, i, to>>

\* What follows a counter: "remaining", and what incr and decr store.
Following(w) == IF Up THEN Add(w, 1) ELSE Sub(w, 1)

\* The body, which may be any that ends.
Body ==
  /\ block = "body"
  /\ i' = Following(i)
  /\ to' \in IF writes THEN Words ELSE {to}
  /\ block' = "loop"
  /\ UNCHANGED <<loop, writes, first>>

Init ==
  /\ loop \in Loops /\ writes \in BOOLEAN
  /\ first \in Words /\ i = first
  /\ to \in Words
  /\ block = "loop"

Next == Loop \/ Body

Spec == Init /\ [][Next]_vars

\* The program runs, and the body ends.
FairSpec == Spec /\ WF_vars(Next)

-----------------------------------------------------------------------------
(* Properties.                                                             *)

\* All is a word.
TypeOK ==
  /\ loop \in Loops /\ writes \in BOOLEAN
  /\ first \in Words /\ i \in Words /\ to \in Words
  /\ block \in {"loop", "body", "endfor"}

\* The bounds at which a for does not end: every word is at most -1 when
\* unsigned, and at least the smallest integer when signed.
AtLimit ==
  \/ loop = "to" /\ to = MinusOne
  \/ loop = "downto" /\ to = IntMin

\* The loops that do what they say: those whose bound is no limit and, if
\* they count up, has the sign of the first value.
Regular == ~AtLimit /\ (Up => SameSign(first, to))

\* The word w, as the loop counts: unsigned from the start of the half in
\* which it begins, so that a loop up to the largest integer may step over it.
Count(w) ==
  IF Up THEN (IF first < Half THEN w ELSE w - 2 * Half) ELSE -Signed(w)

\* The last value with a round.
LastValue == IF loop \in {"to", "downto"} THEN Count(to) ELSE Count(to) - 1

Where == IF block = "loop" THEN "test" ELSE IF block = "body" THEN "body" ELSE "after"

Ideal == INSTANCE CountedLoop WITH
  at <- Count(i), bound <- LastValue, where <- Where

\* A loop that is regular does what a loop over the integers does, however
\* its body moves the bound: each value once, in order, none after the bound,
\* and an end when there is none left; also if the bound is the largest
\* integer, at which a signed comparison would never end.
CountsAsWritten == [][Regular => Ideal!Next]_vars

\* Every loop with a bound that stays ends, whatever its first value, except
\* at the two limits.
EndsUnlessAtLimit == ~writes ~> (block = "endfor" \/ AtLimit)

\* At the limits it does not end: for i = a to -1 is endless for every a.
EndlessAtLimit == ~writes /\ AtLimit => block # "endfor"

\* a < b and b > a mean the same for integers of the same sign, and are never
\* the same for others; so do a <= b and b >= a.
ComparisonsAgree ==
  /\ (L(i, to) <=> G(to, i)) <=> (SameSign(i, to) \/ i = to)
  /\ (LE(i, to) <=> GE(to, i)) <=> SameSign(i, to)

\* A sign: minus is the negation, and plus is never what it is written for:
\* it is the negation less one.
Signs ==
  /\ i # IntMin => Signed(Minus(i)) = -Signed(i)
  /\ Signed(Plus(i)) = -Signed(i) - 1

\* What the operators on integers mean to a program: comparisons and signs.
OperatorsMean == ComparisonsAgree /\ Signs
=============================================================================
