--------------------------- MODULE CountingProofs ---------------------------
(***************************************************************************)
(* The safety properties of Counting, for words of any size.               *)
(***************************************************************************)
EXTENDS Counting, TLAPS

\* A word is its own remainder.
LEMMA SmallModulo ==
  ASSUME NEW w \in Words
  PROVE  w % (2 * Half) = w
<1>1. 2 * Half \in Nat \ {0}
  BY HalfAssumption
<1>2. w \in Int /\ 0 <= w /\ w < 2 * Half
  BY HalfAssumption DEF Words
<1> QED BY <1>1, <1>2

\* One more than a word is a word, except after the last.
LEMMA AddOne ==
  ASSUME NEW w \in Words
  PROVE  Add(w, 1) = IF w = MinusOne THEN 0 ELSE w + 1
<1>1. CASE w = MinusOne
  <2>1. w + 1 = 2 * Half
    BY <1>1, HalfAssumption DEF MinusOne
  <2>2. (2 * Half) % (2 * Half) = 0
    BY HalfAssumption
  <2> QED BY <1>1, <2>1, <2>2 DEF Add
<1>2. CASE w # MinusOne
  <2>1. w + 1 \in Words
    BY <1>2, HalfAssumption DEF MinusOne, Words
  <2> QED BY <1>2, <2>1, SmallModulo DEF Add
<1> QED BY <1>1, <1>2

\* One less than a word is a word, except before the first.
LEMMA SubOne ==
  ASSUME NEW w \in Words
  PROVE  Sub(w, 1) = IF w = 0 THEN MinusOne ELSE w - 1
<1>1. CASE w = 0
  <2>1. (-1) % (2 * Half) = 2 * Half - 1
    BY HalfAssumption
  <2> QED BY <1>1, <2>1 DEF Sub, MinusOne
<1>2. CASE w # 0
  <2>1. w - 1 \in Words
    BY <1>2, HalfAssumption DEF Words
  <2> QED BY <1>2, <2>1, SmallModulo DEF Sub
<1> QED BY <1>1, <1>2

\* Following a counter is one further, except where the words wrap round.
LEMMA FollowingCounts ==
  ASSUME TypeOK
  PROVE  Following(i) = IF Up THEN (IF i = MinusOne THEN 0 ELSE i + 1)
                        ELSE (IF i = 0 THEN MinusOne ELSE i - 1)
<1>1. i \in Words
  BY DEF TypeOK
<1> QED BY <1>1, AddOne, SubOne DEF Following

-----------------------------------------------------------------------------
(* The invariant: in the body, the bound is still the one for which the    *)
(* condition was true.                                                     *)

IInv ==
  /\ TypeOK
  /\ block = "body" => Continues(loop, i, to)
  /\ EndlessAtLimit

\* It holds at the start.
LEMMA InitIInv == Init => IInv
BY HalfAssumption DEF Init, IInv, TypeOK, EndlessAtLimit

\* A condition leads into the body only if it is true, and is always true at
\* a limit.
LEMMA LoopKeeps ==
  ASSUME IInv, Loop
  PROVE  IInv'
<1>1. TypeOK'
  BY DEF IInv, TypeOK, Loop
<1>2. block' = "body" => Continues(loop', i', to')
  BY DEF Loop
<1>3. EndlessAtLimit'
  <2> SUFFICES ASSUME (~writes /\ AtLimit)' PROVE block' # "endfor"
    BY DEF EndlessAtLimit
  <2>1. AtLimit /\ i \in Words
    BY DEF Loop, AtLimit, IInv, TypeOK
  <2>2. CASE loop = "to" /\ to = MinusOne
    BY <2>1, <2>2, HalfAssumption DEF Loop, Continues, LE, Words, MinusOne
  <2>3. CASE loop = "downto" /\ to = IntMin
    BY <2>1, <2>3, HalfAssumption DEF Loop, Continues, GE, Signed, Words, IntMin
  <2> QED BY <2>1, <2>2, <2>3 DEF AtLimit
<1> QED BY <1>1, <1>2, <1>3 DEF IInv

\* The body leaves words, and goes back to the condition.
LEMMA BodyKeeps ==
  ASSUME IInv, Body
  PROVE  IInv'
<1>1. i \in Words /\ to \in Words
  BY DEF IInv, TypeOK
<1>2. i' \in Words
  <2>1. i' = IF Up THEN (IF i = MinusOne THEN 0 ELSE i + 1)
             ELSE (IF i = 0 THEN MinusOne ELSE i - 1)
    BY FollowingCounts DEF IInv, Body
  <2> QED BY <1>1, <2>1, HalfAssumption DEF Words, MinusOne
<1>3. to' \in Words
  BY <1>1 DEF Body
<1> QED BY <1>2, <1>3 DEF IInv, TypeOK, EndlessAtLimit, Body

\* The invariant holds in every state, for words of every size.
THEOREM CountingCorrect == Spec => []IInv
<1>1. IInv /\ [Next]_vars => IInv'
  <2> SUFFICES ASSUME IInv, [Next]_vars PROVE IInv'
    OBVIOUS
  <2>1. CASE Loop
    BY <2>1, LoopKeeps
  <2>2. CASE Body
    BY <2>2, BodyKeeps
  <2>3. CASE UNCHANGED vars
    BY <2>3 DEF vars, IInv, TypeOK, EndlessAtLimit, AtLimit
  <2> QED BY <2>1, <2>2, <2>3 DEF Next
<1> QED BY InitIInv, <1>1, PTL DEF Spec

\* The variables hold words.
THEOREM CountingTypes == Spec => []TypeOK
<1>1. IInv => TypeOK
  BY DEF IInv
<1> QED BY CountingCorrect, <1>1, PTL

\* A for to the largest unsigned word, or down to the smallest integer, does
\* not end.
THEOREM EndlessLoops == Spec => []EndlessAtLimit
<1>1. IInv => EndlessAtLimit
  BY DEF IInv
<1> QED BY CountingCorrect, <1>1, PTL

-----------------------------------------------------------------------------
(* The loop over the integers.                                             *)

\* The condition in words is the condition in integers.
LEMMA ConditionCounts ==
  ASSUME IInv, Regular
  PROVE  /\ Count(i) \in Int /\ LastValue \in Int
         /\ Continues(loop, i, to) <=> Count(i) <= LastValue
<1>1. /\ i \in Words /\ to \in Words /\ first \in Words /\ loop \in Loops
  BY DEF IInv, TypeOK
<1>2. CASE loop = "to"
  BY <1>1, <1>2, HalfAssumption
     DEF Words, Regular, Up, SameSign, Count, LastValue, Continues, LE
<1>3. CASE loop = "downto"
  BY <1>1, <1>3, HalfAssumption
     DEF Words, Up, Count, LastValue, Continues, GE, Signed
<1>4. CASE loop = "while_less"
  BY <1>1, <1>4, HalfAssumption
     DEF Words, Regular, Up, SameSign, Count, LastValue, Continues, L
<1>5. CASE loop = "while_greater"
  BY <1>1, <1>5, HalfAssumption
     DEF Words, Up, Count, LastValue, Continues, G, Signed
<1> QED BY <1>1, <1>2, <1>3, <1>4, <1>5 DEF Loops

\* In the body of a regular loop, the counter has a successor.
LEMMA FollowingIsNext ==
  ASSUME IInv, Regular, Body
  PROVE  (Count(i))' = Count(i) + 1
<1>1. /\ i \in Words /\ to \in Words /\ first \in Words /\ loop \in Loops
      /\ Continues(loop, i, to)
  BY DEF IInv, TypeOK, Body
<1>2. i' = IF Up THEN (IF i = MinusOne THEN 0 ELSE i + 1)
           ELSE (IF i = 0 THEN MinusOne ELSE i - 1)
  BY FollowingCounts DEF IInv, Body
<1>3. UNCHANGED <<loop, first>>
  BY DEF Body
<1>4. CASE loop = "to"
  BY <1>1, <1>2, <1>3, <1>4, HalfAssumption
     DEF Words, Regular, AtLimit, Up, Count, Continues, LE, MinusOne
<1>5. CASE loop = "downto"
  BY <1>1, <1>2, <1>3, <1>5, HalfAssumption
     DEF Words, Regular, AtLimit, Up, Count, Continues, GE, Signed, MinusOne, IntMin
<1>6. CASE loop = "while_less"
  BY <1>1, <1>2, <1>3, <1>6, HalfAssumption
     DEF Words, Up, Count, Continues, L, MinusOne
<1>7. CASE loop = "while_greater"
  BY <1>1, <1>2, <1>3, <1>7, HalfAssumption
     DEF Words, Up, Count, Continues, G, Signed, MinusOne
<1> QED BY <1>1, <1>4, <1>5, <1>6, <1>7 DEF Loops

\* A step of a regular loop is a step of the loop over the integers.
LEMMA LoopIsIdeal ==
  ASSUME IInv, Regular, Loop
  PROVE  Ideal!Next
<1>1. /\ Count(i) \in Int /\ LastValue \in Int
      /\ Continues(loop, i, to) <=> Count(i) <= LastValue
  BY ConditionCounts
<1>2. UNCHANGED <<Count(i), LastValue>>
  BY DEF Loop, Count, LastValue, Up, Signed
<1>3. CASE Continues(loop, i, to)
  BY <1>1, <1>2, <1>3 DEF Loop, Where, Ideal!Next, Ideal!Enter
<1>4. CASE ~Continues(loop, i, to)
  BY <1>1, <1>2, <1>4 DEF Loop, Where, Ideal!Next, Ideal!Leave
<1> QED BY <1>3, <1>4

\* So is a round.
LEMMA BodyIsIdeal ==
  ASSUME IInv, Regular, Body
  PROVE  Ideal!Next
<1>1. (Count(i))' = Count(i) + 1
  BY FollowingIsNext
<1>2. LastValue' \in Int
  <2>1. to' \in Words /\ first' \in Words
    BY BodyKeeps DEF IInv, TypeOK
  <2> QED BY <2>1, HalfAssumption DEF LastValue, Count, Signed, Words
<1>3. Where = "body" /\ Where' = "test"
  BY DEF Body, Where
<1> QED BY <1>1, <1>2, <1>3 DEF Ideal!Next, Ideal!Round

\* Regular loops count as a loop over the integers does, for words of every
\* size, however the bound moves.
THEOREM LoopsCount == Spec => CountsAsWritten
<1>1. IInv /\ [Next]_vars => [Regular => Ideal!Next]_vars
  BY LoopIsIdeal, BodyIsIdeal DEF Next
<1> QED BY CountingCorrect, <1>1, PTL DEF Spec, CountsAsWritten

-----------------------------------------------------------------------------
(* Comparisons and signs.                                                  *)

\* Less and greater agree for integers of the same sign, and only for those.
THEOREM LessMeansGreater == Spec => []ComparisonsAgree
<1>1. IInv => ComparisonsAgree
  BY HalfAssumption
     DEF IInv, TypeOK, Words, ComparisonsAgree, SameSign, L, LE, G, GE, Signed
<1> QED BY CountingCorrect, <1>1, PTL

\* Whole turns do not change a word.
LEMMA Remainder ==
  ASSUME NEW w \in Words, NEW k \in Nat
  PROVE  (k * (2 * Half) + w) % (2 * Half) = w
<1> DEFINE n == 2 * Half
<1>1. n \in Nat \ {0} /\ w \in Int /\ 0 <= w /\ w < n
  BY HalfAssumption DEF Words
<1> HIDE DEF n
<1>2. (k * n + w) % n = w
  BY <1>1
<1> QED BY <1>2 DEF n

\* A product with the word for -1 is the negation.
LEMMA MinusNegates ==
  ASSUME NEW w \in Words
  PROVE  Minus(w) = IF w = 0 THEN 0 ELSE 2 * Half - w
<1>1. CASE w = 0
  BY <1>1, HalfAssumption DEF Minus, Mul, MinusOne
<1>2. CASE w # 0
  <2>1. w * (2 * Half - 1) = (w - 1) * (2 * Half) + (2 * Half - w)
    BY HalfAssumption DEF Words
  <2>2. 2 * Half - w \in Words /\ w - 1 \in Nat
    BY <1>2, HalfAssumption DEF Words
  <2>3. ((w - 1) * (2 * Half) + (2 * Half - w)) % (2 * Half) = 2 * Half - w
    BY <2>2, Remainder
  <2> QED BY <1>2, <2>1, <2>3 DEF Minus, Mul, MinusOne
<1> QED BY <1>1, <1>2

\* Minus negates; plus negates too, and takes one off.
THEOREM SignsMean == Spec => []Signs
<1>1. IInv => Signs
  <2> SUFFICES ASSUME IInv PROVE Signs
    OBVIOUS
  <2>1. i \in Words
    BY DEF IInv, TypeOK
  <2>2. i # IntMin => Signed(Minus(i)) = -Signed(i)
    BY <2>1, MinusNegates, HalfAssumption DEF Words, Signed, IntMin
  <2>3. Signed(Plus(i)) = -Signed(i) - 1
    BY <2>1, HalfAssumption DEF Words, Signed, Plus
  <2> QED BY <2>2, <2>3 DEF Signs
<1> QED BY CountingCorrect, <1>1, PTL

\* Both are what the operators mean, at every width.
THEOREM OperatorsRight == Spec => []OperatorsMean
<1>1. ComparisonsAgree /\ Signs => OperatorsMean
  BY DEF OperatorsMean
<1> QED BY LessMeansGreater, SignsMean, <1>1, PTL
=============================================================================
