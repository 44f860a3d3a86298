--------------------------- MODULE TypeCellsProofs ---------------------------
(***************************************************************************)
(* What sem() accepts about types that := completes in place stays right,  *)
(* for any number of types and of assignments, also with types that        *)
(* contain themselves: where a walk over types ends, what it said is true. *)
(***************************************************************************)
EXTENDS TypeCells, FiniteSetTheorems, WellFoundedInduction, TLAPS

-----------------------------------------------------------------------------
(* Functions that are made step by step.                                   *)

\* A set of numbers has a least one.
LEMMA Least ==
  ASSUME NEW S \in SUBSET Nat, S # {}
  PROVE  \E n \in S : \A m \in S : n <= m
<1>1. PICK n \in S : \A m \in S : <<m, n>> \notin OpToRel(<, Nat)
  BY NatLessThanWellFounded, WFMin
<1>2. \A m \in S : ~ (m < n)
  BY <1>1 DEF OpToRel
<1> QED
  BY <1>2

\* Induction along a path, from position b to position n.
LEMMA Onward ==
  ASSUME NEW b \in Nat, NEW n \in Nat, NEW S, b \in S,
         \A i \in b..n - 1 : i \in S => i + 1 \in S
  PROVE  \A i \in b..n : i \in S
<1> DEFINE X == {k \in b..n : k \notin S}
<1> SUFFICES X = {}
  OBVIOUS
<1> SUFFICES ASSUME X # {} PROVE FALSE
  OBVIOUS
<1>1. PICK k \in X : \A j \in X : k <= j
  <2>1. X \in SUBSET Nat
    OBVIOUS
  <2> HIDE DEF X
  <2> QED
    BY <2>1, Least
<1>2. k \in b..n /\ k \notin S /\ k # b
  BY <1>1
<1>3. k - 1 \in b..n - 1 /\ ~(k <= k - 1) /\ (k - 1) + 1 = k /\ k - 1 \in b..n
  BY <1>2
<1>4. k - 1 \in S
  BY <1>1, <1>3
<1> QED
  BY <1>2, <1>3, <1>4

\* Function f goes n steps by F, from s.
Steps(n, s, F, f) == f[1] = s /\ \A i \in 1..n - 1 : f[i + 1] = F[f[i]]

\* There is such a function.
LEMMA StepsExist ==
  ASSUME NEW n \in Nat, n # 0, NEW T, NEW s \in T, NEW F \in [T -> T]
  PROVE  \E f \in [1..n -> T] : Steps(n, s, F, f)
<1> DEFINE Can(m) == \E f \in [1..m -> T] : Steps(m, s, F, f)
           S == {m \in 1..n : Can(m)}
<1>1. 1 \in S
  <2> DEFINE f == [i \in 1..1 |-> s]
  <2>1. f \in [1..1 -> T] /\ f[1] = s /\ \A i \in 1..1 - 1 : FALSE
    OBVIOUS
  <2> HIDE DEF f
  <2>2. Can(1)
    BY <2>1 DEF Steps
  <2>3. 1 \in 1..n
    OBVIOUS
  <2> QED
    BY <2>2, <2>3
<1>2. ASSUME NEW m \in 1..n - 1, m \in S
      PROVE  m + 1 \in S
  <2>1. PICK g \in [1..m -> T] : Steps(m, s, F, g)
    BY <1>2
  <2> DEFINE f == [i \in 1..m + 1 |-> IF i = m + 1 THEN F[g[m]] ELSE g[i]]
  <2>2. m \in 1..m /\ m + 1 \in 1..m + 1 /\ 1 \in 1..m /\ m # 0
        /\ \A i \in 1..m : i \in 1..m + 1 /\ i # m + 1
    OBVIOUS
  <2>3. g[m] \in T /\ F[g[m]] \in T
    BY <2>1, <2>2
  <2>4. \A i \in 1..m + 1 : i # m + 1 => i \in 1..m
    OBVIOUS
  <2>5. f \in [1..m + 1 -> T]
    BY <2>1, <2>3, <2>4
  <2>6. f[m + 1] = F[g[m]] /\ \A i \in 1..m : f[i] = g[i]
    BY <2>2
  <2> HIDE DEF f
  <2>7. f[1] = s
    BY <2>1, <2>2, <2>6 DEF Steps
  <2>8. ASSUME NEW i \in 1..(m + 1) - 1
        PROVE  f[i + 1] = F[f[i]]
    <3>1. i \in 1..m
      OBVIOUS
    <3>2. CASE i = m
      BY <2>6, <3>1, <3>2
    <3>3. CASE i # m
      <4>1. i \in 1..m - 1 /\ i + 1 \in 1..m
        BY <3>1, <3>3
      <4> QED
        BY <2>1, <2>6, <3>1, <4>1 DEF Steps
    <3> QED
      BY <3>2, <3>3
  <2>9. Can(m + 1)
    BY <2>5, <2>7, <2>8 DEF Steps
  <2>10. m + 1 \in 1..n
    OBVIOUS
  <2> QED
    BY <2>9, <2>10
<1>3. n \in S
  <2>1. n \in 1..n /\ 1 \in Nat
    OBVIOUS
  <2> DEFINE one == 1
  <2>2. one \in Nat /\ one \in S /\ \A i \in one..n - 1 : i \in S => i + 1 \in S
    BY <1>1, <1>2
  <2>3. n \in one..n
    OBVIOUS
  <2> HIDE DEF S, one
  <2> QED
    BY <2>2, <2>3, Onward
<1> QED
  BY <1>3

-----------------------------------------------------------------------------
(* Types in a heap c, so that lemmas can be used of two states.            *)

\* Every cell there may be.
Cells == [class : {"int", "ref", "array"}, dims : Nat, inside : Nat]

\* The heap holds types; the simple one has no dimensions, and what is in an
\* array is a ref.
Heap(c) ==
  /\ c \in Seq(Cells) /\ Len(c) <= MaxCells
  /\ \A p \in 1..Len(c) :
       /\ c[p].inside \in 0..Len(c)
       /\ c[p].class = "int" => c[p].dims = 0
       /\ c[p].class = "array" => c[p].inside # Null /\ c[c[p].inside].class = "ref"

\* Class() in heap c.
ClassIn(c, p) == IF p = Null THEN "null" ELSE c[p].class

\* Further() in heap c.
FurtherIn(c, p) == IF ClassIn(c, p) \in {"ref", "array"} THEN c[p].inside ELSE p

\* Path() in heap c.
PathIn(c, p) ==
  LET after[q \in Nat] == FurtherIn(c, q)
      at[i \in 1..MaxCells + 1] == IF i = 1 THEN p ELSE after[at[i - 1]]
  IN [i \in 1..MaxCells + 1 |-> at[i]]

\* Complete() in heap c.
CompleteIn(c, p) == ClassIn(c, PathIn(c, p)[MaxCells + 1]) = "int"

\* Reads() in heap c.
ReadsIn(c, p) ==
  LET path == PathIn(c, p) IN
    [i \in DOMAIN path |->
      IF path[i] = Null THEN Cell("unit", 0, Null)
      ELSE Cell(ClassIn(c, path[i]), c[path[i]].dims, Null)]

\* SameType() in heap c.
SameIn(c, p, q) == CompleteIn(c, p) /\ ReadsIn(c, p) = ReadsIn(c, q)

\* The operators of the model are those of its heap.
LEMMA InCells ==
  /\ \A p : Class(p) = ClassIn(cells, p) /\ Further(p) = FurtherIn(cells, p)
  /\ \A p : Path(p) = PathIn(cells, p)
  /\ \A p : Complete(p) = CompleteIn(cells, p)
  /\ \A p : Reads(p) = ReadsIn(cells, p)
  /\ \A p, q : SameType(p, q) = SameIn(cells, p, q)
<1>1. \A p : Class(p) = ClassIn(cells, p) /\ Further(p) = FurtherIn(cells, p)
  BY DEF Class, Further, Inside, ClassIn, FurtherIn
<1>2. \A p : Path(p) = PathIn(cells, p)
  BY DEF Path, PathIn, Class, Further, Inside, ClassIn, FurtherIn
<1>3. \A p : Complete(p) = CompleteIn(cells, p)
  BY <1>1, <1>2 DEF Complete, CompleteIn, IsSimple
<1>4. \A p : Reads(p) = ReadsIn(cells, p)
  BY <1>1, <1>2 DEF Reads, ReadsIn
<1>5. \A p, q : SameType(p, q) = SameIn(cells, p, q)
  BY <1>3, <1>4 DEF SameType, SameIn
<1> QED
  BY <1>1, <1>2, <1>3, <1>4, <1>5

\* Types in the heap and none.
Places(c) == 0..Len(c)

\* Where a walk from p is after each step, in heap c.
Goes(c, p, f) ==
  /\ f \in [1..MaxCells + 1 -> Places(c)]
  /\ f[1] = p /\ \A i \in 1..MaxCells : f[i + 1] = FurtherIn(c, f[i])

\* From a type a walk goes to a type or to none.
LEMMA FurtherStays ==
  ASSUME NEW c, Heap(c), NEW p \in Places(c)
  PROVE  FurtherIn(c, p) \in Places(c)
<1>1. CASE p = Null
  BY <1>1 DEF FurtherIn, ClassIn, Places, Null
<1>2. CASE p # Null
  <2>1. p \in 1..Len(c)
    BY <1>2 DEF Places, Null, Heap
  <2> QED
    BY <2>1 DEF FurtherIn, Places, Heap
<1> QED
  BY <1>1, <1>2

\* Path() is that.
LEMMA PathGoes ==
  ASSUME NEW c, Heap(c), NEW p \in Places(c)
  PROVE  Goes(c, p, PathIn(c, p))
<1> DEFINE n == MaxCells + 1
           T == Places(c)
           F == [q \in T |-> FurtherIn(c, q)]
           after == [q \in Nat |-> FurtherIn(c, q)]
           Up(f) == [i \in 1..n |-> IF i = 1 THEN p ELSE after[f[i - 1]]]
           at == CHOOSE f : f = Up(f)
<1>1. n \in Nat /\ n # 0 /\ n - 1 = MaxCells
  BY BoundsAssumption
<1>2. T \subseteq Nat
  BY DEF Places
<1>3. PathIn(c, p) = [i \in 1..n |-> at[i]]
  BY DEF PathIn
<1>4. F \in [T -> T] /\ \A q \in T : F[q] = FurtherIn(c, q) /\ after[q] = F[q]
  BY <1>2, FurtherStays
<1> HIDE DEF F, after, T, n
<1>5. PICK g \in [1..n -> T] : Steps(n, p, F, g)
  <2>1. n \in Nat /\ n # 0 /\ p \in T /\ F \in [T -> T]
    BY <1>1, <1>4 DEF T
  <2> QED
    BY ONLY <2>1, StepsExist
<1>6. g = Up(g)
  <2>1. g[1] = p /\ \A i \in 1..n - 1 : g[i + 1] = F[g[i]]
    BY <1>5 DEF Steps
  <2>2. \A i \in 1..n : i # 1 => i - 1 \in 1..n - 1 /\ i - 1 \in 1..n /\ (i - 1) + 1 = i
    BY <1>1
  <2>3. \A i \in 1..n : i # 1 => g[i] = after[g[i - 1]]
    BY <1>4, <1>5, <2>1, <2>2
  <2>4. \A i \in 1..n : g[i] = IF i = 1 THEN p ELSE after[g[i - 1]]
    BY <2>1, <2>3
  <2>5. g = [i \in 1..n |-> g[i]]
    BY <1>5
  <2> QED
    BY <2>4, <2>5
<1>7. at = Up(at)
  <2> HIDE DEF Up
  <2> QED
    BY <1>6
<1> HIDE DEF at
<1>8. \A i \in 1..n : at[i] = IF i = 1 THEN p ELSE after[at[i - 1]]
  BY <1>7
<1>9. at[1] = p /\ \A i \in 1..n - 1 : at[i + 1] = after[at[i]]
  <2>1. 1 \in 1..n /\ \A i \in 1..n - 1 : i + 1 \in 1..n /\ i + 1 # 1 /\ (i + 1) - 1 = i
    BY <1>1
  <2> HIDE DEF Up
  <2> QED
    BY <1>8, <2>1
<1>10. \A i \in 1..n : at[i] \in T
  <2> DEFINE S == {i \in 1..n : at[i] \in T}
             one == 1
  <2>1. one \in S
    BY <1>1, <1>9 DEF T
  <2>2. \A i \in one..n - 1 : i \in S => i + 1 \in S
    BY <1>1, <1>4, <1>9
  <2>3. one \in Nat
    OBVIOUS
  <2> HIDE DEF one
  <2>4. \A i \in one..n : i \in S
    <3> HIDE DEF S
    <3> QED
      BY <1>1, <2>1, <2>2, <2>3, Onward
  <2> QED
    BY <2>4 DEF one
<1> DEFINE f == PathIn(c, p)
<1>11. f \in [1..n -> T] /\ \A i \in 1..n : f[i] = at[i]
  BY <1>3, <1>10
<1> HIDE DEF f
<1>12. f[1] = p /\ \A i \in 1..n - 1 : f[i + 1] = FurtherIn(c, f[i])
  <2>1. 1 \in 1..n /\ \A i \in 1..n - 1 : i \in 1..n /\ i + 1 \in 1..n
    BY <1>1
  <2> QED
    BY <1>4, <1>9, <1>10, <1>11, <2>1
<1> QED
  BY <1>1, <1>11, <1>12 DEF Goes, f, n, T

\* It is the only such function.
LEMMA GoesOne ==
  ASSUME NEW c, NEW p, NEW f, NEW g, Goes(c, p, f), NEW d, Goes(d, p, g),
         \A i \in 1..MaxCells : FurtherIn(d, f[i]) = FurtherIn(c, f[i])
  PROVE  f = g
<1> DEFINE n == MaxCells + 1
           one == 1
           S == {i \in 1..n : f[i] = g[i]}
<1>1. n \in Nat /\ n - 1 = MaxCells /\ 1 \in 1..n
      /\ \A i \in 1..MaxCells : i \in 1..n /\ i + 1 \in 1..n
  BY BoundsAssumption
<1>2. one \in S
  BY <1>1 DEF Goes
<1>3. \A i \in one..n - 1 : i \in S => i + 1 \in S
  BY <1>1 DEF Goes
<1>4. one \in Nat
  OBVIOUS
<1> HIDE DEF one
<1>5. \A i \in one..n : i \in S
  <2> HIDE DEF S, n
  <2> QED
    BY <1>1, <1>2, <1>3, <1>4, Onward
<1>6. \A i \in 1..n : f[i] = g[i]
  BY <1>5 DEF one
<1>7. DOMAIN f = 1..n /\ f = [i \in 1..n |-> f[i]] /\ g = [i \in 1..n |-> g[i]]
  BY DEF Goes
<1> HIDE DEF n, S
<1> QED
  BY ONLY <1>6, <1>7

\* The steps of a walk in heap c.
LEMMA PathFacts ==
  ASSUME NEW c, Heap(c), NEW p \in Places(c)
  PROVE  /\ PathIn(c, p)[1] = p
         /\ \A i \in 1..MaxCells + 1 : PathIn(c, p)[i] \in Places(c)
         /\ \A i \in 1..MaxCells : PathIn(c, p)[i + 1] = FurtherIn(c, PathIn(c, p)[i])
         /\ DOMAIN PathIn(c, p) = 1..MaxCells + 1
         /\ Goes(c, p, PathIn(c, p))
<1>1. Goes(c, p, PathIn(c, p))
  BY PathGoes
<1>2. MaxCells \in Nat
  BY BoundsAssumption
<1> QED
  BY <1>1, <1>2 DEF Goes

\* A walk stays at a simple type and at none.
LEMMA StaysThere ==
  ASSUME NEW c, Heap(c), NEW p \in Places(c), NEW k \in 1..MaxCells + 1,
         ClassIn(c, PathIn(c, p)[k]) \notin {"ref", "array"}
  PROVE  \A i \in k..MaxCells + 1 : PathIn(c, p)[i] = PathIn(c, p)[k]
<1> DEFINE f == PathIn(c, p)
           n == MaxCells + 1
           S == {i \in k..n : f[i] = f[k]}
<1>1. k \in Nat /\ n \in Nat /\ n - 1 = MaxCells /\ k \in k..n /\ 1 <= k
  BY BoundsAssumption
<1>2. k \in S
  BY <1>1
<1>3. ASSUME NEW i \in k..n - 1, i \in S
      PROVE  i + 1 \in S
  <2>1. i \in 1..MaxCells /\ i + 1 \in k..n
    BY <1>1
  <2>2. f[i + 1] = FurtherIn(c, f[i])
    BY <2>1, PathFacts
  <2>3. f[i] = f[k]
    BY <1>3
  <2>4. FurtherIn(c, f[k]) = f[k]
    BY DEF FurtherIn
  <2> QED
    BY <2>1, <2>2, <2>3, <2>4
<1>4. \A i \in k..n : i \in S
  <2> HIDE DEF S, n
  <2> QED
    BY <1>1, <1>2, <1>3, Onward
<1> QED
  BY <1>4

\* A complete type has types all along its path.
LEMMA CompletePath ==
  ASSUME NEW c, Heap(c), NEW p \in Places(c), CompleteIn(c, p)
  PROVE  \A i \in 1..MaxCells + 1 : PathIn(c, p)[i] \in 1..Len(c)
<1> SUFFICES ASSUME NEW i \in 1..MaxCells + 1
             PROVE  PathIn(c, p)[i] \in 1..Len(c)
  OBVIOUS
<1> DEFINE f == PathIn(c, p)
           n == MaxCells + 1
<1>1. f[i] \in Places(c) /\ ClassIn(c, f[n]) = "int"
  BY PathFacts DEF CompleteIn
<1>2. n \in i..n
  BY BoundsAssumption
<1>3. ASSUME f[i] = Null
      PROVE  FALSE
  <2>1. ClassIn(c, f[i]) = "null"
    BY <1>3 DEF ClassIn
  <2>2. f[n] = f[i]
    BY <1>2, <2>1, StaysThere
  <2> QED
    BY <1>1, <2>1, <2>2
<1> HIDE DEF f
<1>4. Len(c) \in Nat
  BY DEF Heap
<1>5. f[i] \in 1..Len(c)
  BY <1>1, <1>3, <1>4 DEF Places, Null
<1> QED
  BY <1>5 DEF f

\* A ref of which the content is not known yet.
UnknownIn(c, p) == c[p].class = "ref" /\ c[p].inside = Null

\* Heap d has more types than c, or has completed some.
Grows(c, d) ==
  /\ Heap(c) /\ Heap(d) /\ Len(c) <= Len(d)
  /\ \A x \in 1..Len(c) : d[x] = c[x] \/ (UnknownIn(c, x) /\ d[x].class = c[x].class)

\* A complete type stays what it is.
LEMMA CompleteKept ==
  ASSUME NEW c, NEW d, Grows(c, d), NEW p \in Places(c), CompleteIn(c, p)
  PROVE  PathIn(d, p) = PathIn(c, p) /\ CompleteIn(d, p) /\ ReadsIn(d, p) = ReadsIn(c, p)
<1> DEFINE f == PathIn(c, p)
           n == MaxCells + 1
<1>1. /\ Heap(c) /\ Heap(d) /\ Len(c) \in Nat /\ Len(d) \in Nat /\ Len(c) <= Len(d)
      /\ MaxCells \in Nat
  BY BoundsAssumption DEF Grows, Heap
<1>2. p \in Places(d)
  BY <1>1 DEF Places
<1>3. \A i \in 1..n : f[i] \in 1..Len(c) /\ f[i] # Null
  BY <1>1, CompletePath DEF Null
<1>4. Goes(c, p, f) /\ f[1] = p /\ \A i \in 1..MaxCells : f[i + 1] = FurtherIn(c, f[i])
  BY <1>1, PathFacts
<1>5. ASSUME NEW i \in 1..n
      PROVE  d[f[i]] = c[f[i]]
  <2>1. CASE i = n
    <3>1. ClassIn(c, f[i]) = "int"
      BY <2>1 DEF CompleteIn
    <3>2. c[f[i]].class = "int"
      BY <1>3, <3>1 DEF ClassIn
    <3> HIDE DEF f
    <3> QED
      BY <1>3, <3>2 DEF Grows, UnknownIn
  <2>2. CASE i # n
    <3>1. i \in 1..MaxCells /\ i + 1 \in 1..n
      BY <1>1, <2>2
    <3>2. f[i + 1] = FurtherIn(c, f[i]) /\ f[i + 1] # Null /\ f[i] # Null /\ f[i] \in 1..Len(c)
      BY <1>3, <1>4, <3>1
    <3> HIDE DEF f
    <3>3. ~UnknownIn(c, f[i])
      BY <3>2 DEF UnknownIn, FurtherIn, ClassIn
    <3> QED
      BY <3>2, <3>3 DEF Grows
  <2> QED
    BY <2>1, <2>2
<1>6. PathIn(d, p) = f
  <2>1. Goes(d, p, PathIn(d, p))
    BY <1>1, <1>2, PathFacts
  <2>2. \A i \in 1..MaxCells : i \in 1..n
    BY <1>1
  <2> HIDE DEF f, n
  <2>3. \A i \in 1..MaxCells : FurtherIn(d, f[i]) = FurtherIn(c, f[i])
    BY <1>5, <2>2 DEF FurtherIn, ClassIn
  <2> QED
    BY <1>4, <2>1, <2>3, GoesOne
<1>7. \A i \in 1..n : ClassIn(d, f[i]) = ClassIn(c, f[i])
  BY <1>5 DEF ClassIn
<1>8. n \in 1..n /\ DOMAIN f = 1..n
  BY <1>1, PathFacts
<1> HIDE DEF f, n
<1>9. CompleteIn(d, p)
  BY <1>6, <1>7, <1>8 DEF CompleteIn, f, n
<1>10. ReadsIn(d, p) = ReadsIn(c, p)
  <2>1. /\ ReadsIn(c, p) = [i \in 1..n |-> IF f[i] = Null THEN Cell("unit", 0, Null)
                              ELSE Cell(ClassIn(c, f[i]), c[f[i]].dims, Null)]
        /\ ReadsIn(d, p) = [i \in 1..n |-> IF f[i] = Null THEN Cell("unit", 0, Null)
                              ELSE Cell(ClassIn(d, f[i]), d[f[i]].dims, Null)]
    BY <1>6, <1>8 DEF ReadsIn, f
  <2> QED
    BY <1>5, <1>7, <2>1
<1> QED
  BY <1>6, <1>9, <1>10 DEF f

\* How types read, in terms of their paths.
LEMMA ReadsAt ==
  ASSUME NEW c, Heap(c), NEW p \in Places(c), NEW i \in 1..MaxCells + 1
  PROVE  /\ PathIn(c, p)[i] # Null =>
              /\ ReadsIn(c, p)[i].class = ClassIn(c, PathIn(c, p)[i])
              /\ ReadsIn(c, p)[i].dims = c[PathIn(c, p)[i]].dims
         /\ PathIn(c, p)[i] = Null => ReadsIn(c, p)[i].class = "unit"
<1>1. DOMAIN PathIn(c, p) = 1..MaxCells + 1
  BY PathFacts
<1> QED
  BY <1>1 DEF ReadsIn, Cell

\* A type that reads as a complete one is complete.
LEMMA SameComplete ==
  ASSUME NEW c, Heap(c), NEW p \in Places(c), NEW q \in Places(c), SameIn(c, p, q)
  PROVE  CompleteIn(c, q)
<1> DEFINE n == MaxCells + 1
           x == PathIn(c, p)[n]
           y == PathIn(c, q)[n]
<1>1. n \in 1..n
  BY BoundsAssumption
<1>2. ClassIn(c, x) = "int" /\ ReadsIn(c, p) = ReadsIn(c, q)
  BY DEF SameIn, CompleteIn
<1>3. x # Null
  BY <1>2 DEF ClassIn
<1>4. ReadsIn(c, p)[n].class = "int"
  BY <1>1, <1>2, <1>3, ReadsAt
<1>5. y = Null => ReadsIn(c, q)[n].class = "unit"
  BY <1>1, ReadsAt
<1>6. y # Null => ReadsIn(c, q)[n].class = ClassIn(c, y)
  BY <1>1, ReadsAt
<1>7. ClassIn(c, y) = "int"
  BY <1>2, <1>4, <1>5, <1>6
<1> QED
  BY <1>7 DEF CompleteIn

\* Types that are equal stay equal.
LEMMA SameKept ==
  ASSUME NEW c, NEW d, Grows(c, d), NEW p \in Places(c), NEW q \in Places(c), SameIn(c, p, q)
  PROVE  SameIn(d, p, q)
<1>1. CompleteIn(c, p) /\ CompleteIn(c, q) /\ ReadsIn(c, p) = ReadsIn(c, q)
  BY SameComplete DEF SameIn, Grows
<1> QED
  BY <1>1, CompleteKept DEF SameIn

-----------------------------------------------------------------------------
(* A call of equal_types() in progress.                                    *)

\* The classes that a walk goes through.
Wraps == {"ref", "array"}

\* The first k - 1 steps from p and q met refs and arrays of the same classes.
EvenTo(c, p, q, k) ==
  \A i \in 1..k - 1 :
    /\ ClassIn(c, PathIn(c, p)[i]) \in Wraps
    /\ ClassIn(c, PathIn(c, q)[i]) = ClassIn(c, PathIn(c, p)[i])

\* And of the same dimensions.
AlikeTo(c, p, q, k) ==
  \A i \in 1..k - 1 : c[PathIn(c, p)[i]].dims = c[PathIn(c, q)[i]].dims

\* From x there is no way to a simple type.
Endless(c, x) ==
  \E C \in SUBSET (1..Len(c)) :
    x \in C /\ \A y \in C : ClassIn(c, y) \in Wraps /\ c[y].inside \in C

\* The call that began with p and q is now at l and r; same says whether
\* dimensions agreed.
Walked(c, p, q, l, r, same) ==
  \/ \E k \in 1..MaxCells + 1 :
       /\ l = PathIn(c, p)[k] /\ r = PathIn(c, q)[k]
       /\ EvenTo(c, p, q, k) /\ (same <=> AlikeTo(c, p, q, k))
  \/ Endless(c, l) /\ ~CompleteIn(c, p)

\* It begins there.
LEMMA WalkBegins ==
  ASSUME NEW c, Heap(c), NEW p \in Places(c), NEW q \in Places(c)
  PROVE  Walked(c, p, q, p, q, TRUE)
<1>1. 1 \in 1..MaxCells + 1 /\ \A i \in 1..1 - 1 : FALSE
  BY BoundsAssumption
<1>2. p = PathIn(c, p)[1] /\ q = PathIn(c, q)[1]
  BY PathFacts
<1>3. EvenTo(c, p, q, 1) /\ AlikeTo(c, p, q, 1)
  BY <1>1 DEF EvenTo, AlikeTo
<1> QED
  BY <1>1, <1>2, <1>3 DEF Walked

\* A walk through more types than there are has no end.
LEMMA TooLong ==
  ASSUME NEW c, Heap(c), NEW p \in Places(c),
         \A i \in 1..MaxCells + 1 : ClassIn(c, PathIn(c, p)[i]) \in Wraps
  PROVE  /\ ~CompleteIn(c, p)
         /\ Endless(c, FurtherIn(c, PathIn(c, p)[MaxCells + 1]))
<1> DEFINE n == MaxCells + 1
           f == PathIn(c, p)
           N == 1..n
           L == 1..Len(c)
<1>1. n \in Nat /\ n # 0 /\ n \in N /\ Len(c) \in Nat /\ Len(c) < n /\ MaxCells \in Nat
  BY BoundsAssumption DEF Heap
<1>2. \A i \in N : f[i] \in L /\ c[f[i]].class \in Wraps /\ f[i] # Null
  <2> SUFFICES ASSUME NEW i \in N
               PROVE  f[i] \in L /\ c[f[i]].class \in Wraps /\ f[i] # Null
    OBVIOUS
  <2>1. f[i] \in Places(c) /\ ClassIn(c, f[i]) \in Wraps
    BY PathFacts
  <2> HIDE DEF f, N
  <2> QED
    BY <1>1, <2>1 DEF Places, ClassIn, Null, Wraps
<1>3. DOMAIN f = N /\ Goes(c, p, f) /\ \A i \in 1..MaxCells : f[i + 1] = FurtherIn(c, f[i])
  BY PathFacts
<1>4. \A x \in L : c[x].class \in Wraps => FurtherIn(c, x) = c[x].inside /\ ClassIn(c, x) = c[x].class
  BY DEF FurtherIn, ClassIn, Null, Wraps
<1> HIDE DEF f
<1>5. f \in [N -> L]
  <2>1. f \in [N -> Places(c)]
    BY <1>3 DEF Goes
  <2> QED
    BY <1>2, <2>1
<1>6. PICK i, j \in N : i # j /\ f[i] = f[j]
  <2>1. IsFiniteSet(N) /\ Cardinality(N) = n
    <3> DEFINE one == 1
    <3>1. one \in Int /\ n \in Int
      BY <1>1
    <3> HIDE DEF one, n
    <3>2. IsFiniteSet(one..n) /\ Cardinality(one..n) = IF one > n THEN 0 ELSE n - one + 1
      BY ONLY <3>1, FS_Interval
    <3> QED
      BY <1>1, <3>2 DEF one
  <2>2. IsFiniteSet(L) /\ Cardinality(L) = Len(c)
    <3> DEFINE one == 1
               m == Len(c)
    <3>1. one \in Int /\ m \in Int
      BY <1>1
    <3> HIDE DEF one, m
    <3>2. IsFiniteSet(one..m) /\ Cardinality(one..m) = IF one > m THEN 0 ELSE m - one + 1
      BY ONLY <3>1, FS_Interval
    <3> QED
      BY <1>1, <3>2 DEF one, m
  <2>3. Cardinality(L) < Cardinality(N)
    BY <1>1, <2>1, <2>2
  <2> HIDE DEF N, L
  <2> QED
    BY <1>5, <2>1, <2>2, <2>3, FS_PigeonHole
<1>7. PICK a, b \in N : a < b /\ f[a] = f[b]
  <2>1. i < j \/ j < i
    BY <1>6
  <2> QED
    BY <1>6, <2>1
<1> DEFINE C == {f[k] : k \in N}
<1>8. ASSUME NEW k \in N
      PROVE  c[f[k]].inside \in C
  <2> DEFINE S == {m \in b..n : \E e \in 1..b - 1 : f[m] = f[e]}
  <2>1. b \in S
    BY <1>7
  <2>2. ASSUME NEW m \in b..n - 1, m \in S
        PROVE  m + 1 \in S
    <3>1. PICK e \in 1..b - 1 : f[m] = f[e]
      BY <2>2
    <3>2. m \in 1..MaxCells /\ e \in 1..MaxCells /\ m + 1 \in b..n
      BY <1>1
    <3>3. f[m + 1] = f[e + 1]
      BY <1>3, <3>1, <3>2
    <3>4. CASE e + 1 = b
      <4>1. f[m + 1] = f[a] /\ a \in 1..b - 1
        BY <1>7, <3>3, <3>4
      <4> QED
        BY <3>2, <4>1
    <3>5. CASE e + 1 # b
      <4>1. e + 1 \in 1..b - 1
        BY <3>5
      <4> QED
        BY <3>2, <3>3, <4>1
    <3> QED
      BY <3>4, <3>5
  <2>3. \A m \in b..n : m \in S
    <3> HIDE DEF S
    <3>1. b \in Nat
      OBVIOUS
    <3> QED
      BY <1>1, <2>1, <2>2, <3>1, Onward
  <2>4. n \in b..n
    BY <1>1
  <2>5. PICK e \in 1..b - 1 : f[n] = f[e]
    BY <2>3, <2>4
  <2>6. c[f[k]].inside = FurtherIn(c, f[k])
    BY <1>2, <1>4
  <2>7. CASE k # n
    <3>1. k \in 1..MaxCells /\ k + 1 \in N
      BY <1>1, <2>7
    <3> QED
      BY <1>3, <2>6, <3>1
  <2>8. CASE k = n
    <3>1. e \in 1..MaxCells /\ e + 1 \in N
      BY <1>1
    <3>2. FurtherIn(c, f[k]) = f[e + 1]
      BY <1>3, <2>5, <2>8, <3>1
    <3> QED
      BY <2>6, <3>1, <3>2
  <2> QED
    BY <2>7, <2>8
<1>9. Endless(c, FurtherIn(c, f[n]))
  <2>1. C \in SUBSET L
    BY <1>2
  <2>2. ASSUME NEW y \in C
        PROVE  ClassIn(c, y) \in Wraps /\ c[y].inside \in C
    <3>1. PICK k \in N : y = f[k]
      OBVIOUS
    <3>2. f[k] \in L /\ c[f[k]].class \in Wraps /\ c[f[k]].inside \in C
      BY <1>2, <1>8
    <3> HIDE DEF C, N, L
    <3> QED
      BY <1>4, <3>1, <3>2
  <2>3. FurtherIn(c, f[n]) \in C
    <3>1. FurtherIn(c, f[n]) = c[f[n]].inside
      BY <1>1, <1>2, <1>4
    <3> QED
      BY <1>1, <1>8, <3>1
  <2> HIDE DEF C
  <2> QED
    BY <2>1, <2>2, <2>3 DEF Endless
<1>10. ~CompleteIn(c, p)
  <2>1. ClassIn(c, f[n]) \in Wraps
    BY <1>1, <1>2, <1>4
  <2> QED
    BY <2>1 DEF CompleteIn, Wraps, f
<1> QED
  BY <1>9, <1>10 DEF f

\* It goes one type inwards on both sides.
LEMMA WalkGoesOn ==
  ASSUME NEW c, Heap(c), NEW p \in Places(c), NEW q \in Places(c), NEW l, NEW r, NEW same,
         Walked(c, p, q, l, r, same), ClassIn(c, l) \in Wraps, ClassIn(c, l) = ClassIn(c, r),
         NEW new, new <=> (same /\ c[l].dims = c[r].dims)
  PROVE  Walked(c, p, q, c[l].inside, c[r].inside, new)
<1>1. ASSUME NEW k \in 1..MaxCells + 1, l = PathIn(c, p)[k], r = PathIn(c, q)[k],
             EvenTo(c, p, q, k), same <=> AlikeTo(c, p, q, k)
      PROVE  Walked(c, p, q, c[l].inside, c[r].inside, new)
  <2>1. c[l].inside = FurtherIn(c, l) /\ c[r].inside = FurtherIn(c, r)
    BY DEF FurtherIn, Wraps
  <2>2. \A i \in 1..(k + 1) - 1 : i \in 1..k - 1 \/ i = k
    OBVIOUS
  <2>3. EvenTo(c, p, q, k + 1)
    BY <1>1, <2>2 DEF EvenTo
  <2>4. CASE k # MaxCells + 1
    <3>1. k \in 1..MaxCells /\ k + 1 \in 1..MaxCells + 1
      BY <2>4, BoundsAssumption
    <3>2. /\ c[l].inside = PathIn(c, p)[k + 1] /\ c[r].inside = PathIn(c, q)[k + 1]
      BY <1>1, <2>1, <3>1, PathFacts
    <3>3. new <=> AlikeTo(c, p, q, k + 1)
      <4>1. AlikeTo(c, p, q, k + 1) <=> AlikeTo(c, p, q, k) /\ c[l].dims = c[r].dims
        <5>1. k \in 1..(k + 1) - 1 /\ \A i \in 1..k - 1 : i \in 1..(k + 1) - 1
          OBVIOUS
        <5> QED
          BY <1>1, <2>2, <5>1 DEF AlikeTo
      <4> QED
        BY <1>1, <4>1
    <3> QED
      BY <2>3, <3>1, <3>2, <3>3 DEF Walked
  <2>5. CASE k = MaxCells + 1
    <3>1. \A i \in 1..MaxCells + 1 : ClassIn(c, PathIn(c, p)[i]) \in Wraps
      <4>1. \A i \in 1..MaxCells + 1 : i \in 1..(k + 1) - 1
        BY <2>5, BoundsAssumption
      <4> QED
        BY <2>3, <4>1 DEF EvenTo
    <3>2. ~CompleteIn(c, p) /\ Endless(c, FurtherIn(c, PathIn(c, p)[MaxCells + 1]))
      BY <3>1, TooLong
    <3>3. Endless(c, c[l].inside)
      BY <1>1, <2>1, <2>5, <3>2
    <3> QED
      BY <3>2, <3>3 DEF Walked
  <2> QED
    BY <2>4, <2>5
<1>2. CASE Endless(c, l) /\ ~CompleteIn(c, p)
  <2>1. Endless(c, c[l].inside)
    BY <1>2 DEF Endless
  <2> QED
    BY <1>2, <2>1 DEF Walked
<1> QED
  BY <1>1, <1>2 DEF Walked

\* Where it accepts, the types are complete and read the same.
LEMMA WalkAccepts ==
  ASSUME NEW c, Heap(c), NEW p \in Places(c), NEW q \in Places(c), NEW l, NEW r, NEW same,
         Walked(c, p, q, l, r, same), same, ClassIn(c, l) = "int", ClassIn(c, r) = "int"
  PROVE  SameIn(c, p, q)
<1> DEFINE n == MaxCells + 1
           f == PathIn(c, p)
           g == PathIn(c, q)
<1>1. ~Endless(c, l)
  BY DEF Endless, Wraps
<1>2. PICK k \in 1..n : /\ l = f[k] /\ r = g[k] /\ EvenTo(c, p, q, k)
                        /\ (same <=> AlikeTo(c, p, q, k))
  BY <1>1 DEF Walked
<1>3. (\A i \in k..n : f[i] = l) /\ (\A i \in k..n : g[i] = r)
  BY <1>2, StaysThere
<1>4. n \in k..n /\ n \in Nat
  BY BoundsAssumption
<1>5. CompleteIn(c, p)
  BY <1>3, <1>4 DEF CompleteIn
<1>6. \A i \in 1..n : f[i] \in Places(c) /\ g[i] \in Places(c)
  BY PathFacts
<1>7. Len(c) \in Nat
  BY DEF Heap
<1>8. c[l].dims = 0 /\ c[r].dims = 0 /\ l # Null /\ r # Null
  <2>1. l \in Places(c) /\ r \in Places(c) /\ l # Null /\ r # Null
    BY <1>2, <1>6 DEF ClassIn
  <2>2. l \in 1..Len(c) /\ r \in 1..Len(c)
    BY <1>7, <2>1 DEF Places, Null
  <2>3. c[l].class = "int" /\ c[r].class = "int"
    BY <2>1 DEF ClassIn
  <2> QED
    BY <2>1, <2>2, <2>3 DEF Heap
<1>9. ASSUME NEW i \in 1..n
      PROVE  /\ f[i] # Null /\ g[i] # Null /\ ClassIn(c, f[i]) = ClassIn(c, g[i])
             /\ c[f[i]].dims = c[g[i]].dims
  <2>1. CASE i \in 1..k - 1
    <3>1. ClassIn(c, f[i]) \in Wraps /\ ClassIn(c, g[i]) = ClassIn(c, f[i])
      BY <1>2, <2>1 DEF EvenTo
    <3>2. c[f[i]].dims = c[g[i]].dims
      BY <1>2, <2>1 DEF AlikeTo
    <3> QED
      BY <3>1, <3>2 DEF ClassIn, Wraps
  <2>2. CASE i \in k..n
    BY <1>3, <1>8, <2>2
  <2> QED
    BY <1>4, <2>1, <2>2
<1>10. ReadsIn(c, p) = ReadsIn(c, q)
  <2>1. DOMAIN f = 1..n /\ DOMAIN g = 1..n
    BY PathFacts
  <2>2. ReadsIn(c, p) = [i \in 1..n |-> IF f[i] = Null THEN Cell("unit", 0, Null)
                              ELSE Cell(ClassIn(c, f[i]), c[f[i]].dims, Null)]
    BY <2>1 DEF ReadsIn
  <2>3. ReadsIn(c, q) = [i \in 1..n |-> IF g[i] = Null THEN Cell("unit", 0, Null)
                              ELSE Cell(ClassIn(c, g[i]), c[g[i]].dims, Null)]
    BY <2>1 DEF ReadsIn
  <2> HIDE DEF f, g
  <2> QED
    BY <1>9, <2>2, <2>3
<1> QED
  BY <1>5, <1>10 DEF SameIn

\* Where it rejects, they are not.
LEMMA WalkRejects ==
  ASSUME NEW c, Heap(c), NEW p \in Places(c), NEW q \in Places(c), NEW l, NEW r, NEW same,
         Walked(c, p, q, l, r, same),
         \/ l = Null
         \/ ClassIn(c, l) # ClassIn(c, r)
         \/ ~same
  PROVE  ~SameIn(c, p, q)
<1> SUFFICES ASSUME SameIn(c, p, q)
             PROVE  FALSE
  OBVIOUS
<1> DEFINE n == MaxCells + 1
           f == PathIn(c, p)
           g == PathIn(c, q)
<1>1. CompleteIn(c, p) /\ CompleteIn(c, q) /\ ReadsIn(c, p) = ReadsIn(c, q)
  BY SameComplete DEF SameIn
<1>2. PICK k \in 1..n : /\ l = f[k] /\ r = g[k] /\ EvenTo(c, p, q, k)
                        /\ (same <=> AlikeTo(c, p, q, k))
  BY <1>1 DEF Walked
<1>3. \A i \in 1..n : f[i] \in 1..Len(c) /\ g[i] \in 1..Len(c)
  BY <1>1, CompletePath
<1>4. \A i \in 1..n : f[i] # Null /\ g[i] # Null
  BY <1>3 DEF Null
<1>5. ASSUME NEW i \in 1..n
      PROVE  ClassIn(c, f[i]) = ClassIn(c, g[i]) /\ c[f[i]].dims = c[g[i]].dims
  <2>1. ReadsIn(c, p)[i].class = ClassIn(c, f[i]) /\ ReadsIn(c, p)[i].dims = c[f[i]].dims
    BY <1>4, ReadsAt
  <2>2. ReadsIn(c, q)[i].class = ClassIn(c, g[i]) /\ ReadsIn(c, q)[i].dims = c[g[i]].dims
    BY <1>4, ReadsAt
  <2> QED
    BY <1>1, <2>1, <2>2
<1>6. l # Null /\ ClassIn(c, l) = ClassIn(c, r)
  BY <1>2, <1>4, <1>5
<1>7. AlikeTo(c, p, q, k)
  <2>1. \A i \in 1..k - 1 : i \in 1..n
    BY BoundsAssumption
  <2> QED
    BY <1>5, <2>1 DEF AlikeTo
<1> QED
  BY <1>2, <1>6, <1>7

\* What contains a complete type is complete.
LEMMA CompleteInside ==
  ASSUME NEW c, Heap(c), NEW p \in Places(c), CompleteIn(c, p)
  PROVE  CompleteIn(c, FurtherIn(c, p))
<1> DEFINE n == MaxCells + 1
           f == PathIn(c, p)
           g == [i \in 1..n |-> FurtherIn(c, f[i])]
           s == FurtherIn(c, p)
<1>1. MaxCells \in Nat /\ n \in 1..n /\ 1 \in 1..n
      /\ \A i \in 1..MaxCells : i \in 1..n /\ i + 1 \in 1..n
  BY BoundsAssumption
<1>2. /\ f[1] = p /\ \A i \in 1..n : f[i] \in Places(c)
      /\ \A i \in 1..MaxCells : f[i + 1] = FurtherIn(c, f[i])
  BY PathFacts
<1>3. \A i \in 1..n : FurtherIn(c, f[i]) \in Places(c)
  BY <1>2, FurtherStays
<1>4. g \in [1..n -> Places(c)] /\ \A i \in 1..n : g[i] = FurtherIn(c, f[i])
  BY <1>3
<1> HIDE DEF f, g
<1>5. g[1] = s /\ \A i \in 1..MaxCells : g[i + 1] = FurtherIn(c, g[i])
  BY <1>1, <1>2, <1>4
<1>6. Goes(c, s, g)
  BY <1>4, <1>5 DEF Goes
<1>7. s \in Places(c)
  BY FurtherStays
<1>8. Goes(c, s, PathIn(c, s))
  BY <1>7, PathFacts
<1>9. g = PathIn(c, s)
  BY ONLY <1>6, <1>8, GoesOne
<1>10. ClassIn(c, f[n]) = "int"
  BY DEF CompleteIn, f
<1>11. g[n] = f[n]
  <2>1. FurtherIn(c, f[n]) = f[n]
    BY <1>10 DEF FurtherIn
  <2> QED
    BY <1>1, <1>4, <2>1
<1> QED
  BY <1>9, <1>10, <1>11 DEF CompleteIn

\* None is not complete.
LEMMA NullIncomplete ==
  ASSUME NEW c, Heap(c)
  PROVE  ~CompleteIn(c, Null)
<1>1. Null \in Places(c)
  BY DEF Null, Places, Heap
<1>2. 1 \in 1..MaxCells + 1 /\ MaxCells + 1 \in 1..MaxCells + 1
  BY BoundsAssumption
<1>3. PathIn(c, Null)[1] = Null
  BY <1>1, PathFacts
<1>4. PathIn(c, Null)[1] \notin 1..Len(c)
  BY <1>3 DEF Null
<1> QED
  BY <1>1, <1>2, <1>4, CompletePath

-----------------------------------------------------------------------------
(* The inductive invariant.                                                *)

\* A call in progress, w, while the compiler is at o: of equal_types() it is
\* where it should be, of getLLVMType() it knows whether it met an array.
WalkOK(c, w, o) ==
  \/ w = NoWalk
  \/ /\ o = "sem"
     /\ \E p, q \in Places(c), same \in BOOLEAN : \E l, r :
          /\ w = [for |-> "equal", left |-> l, right |-> r, start |-> <<p, q>>, same |-> same]
          /\ Walked(c, p, q, l, r, same)
  \/ /\ o = "gen"
     /\ \E l \in Places(c), same \in BOOLEAN : \E r, start :
          /\ w = [for |-> "llvm", left |-> l, right |-> r, start |-> start, same |-> same]
          /\ ~same => \E a \in 1..Len(c) :
                        c[a].class = "array" /\ (CompleteIn(c, a) => CompleteIn(c, l))

\* An assignment is to a reference, of a type if it has one.
StoreIn(c, s) ==
  /\ s \in Assignment /\ s.to \in 1..Len(c)
  /\ s.value.known => s.value.cell \in 1..Len(c)

\* The reference contains what was stored: the same type, or one that reads
\* the same.
Fine(c, s) ==
  s.value.known =>
    \/ c[s.to].inside = s.value.cell
    \/ SameIn(c, c[s.to].inside, s.value.cell)

\* Or this is being examined.
Pending(c, w, s) ==
  w.for = "equal" /\ w.start = <<c[s.to].inside, s.value.cell>>

\* All assignments st, unless the program is rejected.
StoresOK(c, w, o, st) ==
  /\ \A s \in st : StoreIn(c, s)
  /\ o # "rejected" => \A s \in st : Fine(c, s) \/ Pending(c, w, s)

\* ValueReads() in heap c.
ValueReadsIn(c, e) ==
  ReadsIn(c, IF e.known THEN e.cell ELSE IF e.cell = Null THEN Null ELSE c[e.cell].inside)

\* Fits() in heap c.
FitsIn(c, s) == ReadsIn(c, c[s.to].inside) = ValueReadsIn(c, s.value)

\* FitsThere() in heap c.
FitsThereIn(c, u) == ReadsIn(c, u.type) = ValueReadsIn(c, u.value)

\* How the compiler ended, with assignments st and un in unchecked places.
EndsOK(c, o, st, un) ==
  /\ o = "bad IR" =>
       \/ \E s \in st : ~s.value.known /\ ~FitsIn(c, s)
       \/ \E u \in un : ~FitsThereIn(c, u)
  /\ o = "crash" => \E a \in 1..Len(c) : c[a].class = "array" /\ ~CompleteIn(c, a)

\* The results of functions are held in refs.
ResultsOK(c, rs) == \A x \in rs : x \in 1..Len(c) /\ c[x].class = "ref"

\* Where the compiler may be.
Outcomes == {"sem", "gen", "rejected", "crash in sem", "crash", "compiled", "bad IR"}

\* The types are a heap, the call in progress is where it should be, and the
\* assignments that it does not examine fit.
IInv ==
  /\ Heap(cells) /\ late \subseteq Addresses
  /\ ResultsOK(cells, results) /\ unchecked \subseteq Place
  /\ outcome \in Outcomes /\ next \in Len(Basic) + 1..MaxCells + 1
  /\ WalkOK(cells, walk, outcome)
  /\ StoresOK(cells, walk, outcome, stores)
  /\ EndsOK(cells, outcome, stores, unchecked)

\* An assignment that was accepted stays right.
LEMMA FineKept ==
  ASSUME NEW c, NEW d, Grows(c, d), NEW s, StoreIn(c, s), Fine(c, s)
  PROVE  StoreIn(d, s) /\ Fine(d, s)
<1>1. /\ Heap(c) /\ Heap(d) /\ Len(c) \in Nat /\ Len(d) \in Nat /\ Len(c) <= Len(d)
      /\ \A x \in 1..Len(c) : d[x] = c[x] \/ UnknownIn(c, x)
  BY DEF Grows, Heap
<1>2. StoreIn(d, s)
  BY <1>1 DEF StoreIn
<1>3. ASSUME s.value.known
      PROVE  c[s.to].inside = s.value.cell \/ SameIn(c, c[s.to].inside, s.value.cell)
  BY <1>3 DEF Fine
<1>4. ASSUME s.value.known
      PROVE  d[s.to].inside = s.value.cell \/ SameIn(d, d[s.to].inside, s.value.cell)
  <2> DEFINE t == s.to
             v == s.value.cell
             i == c[t].inside
  <2>1. t \in 1..Len(c) /\ v \in 1..Len(c) /\ i \in Places(c) /\ v \in Places(c)
    BY <1>1, <1>4 DEF StoreIn, Heap, Places
  <2>2. i = v \/ SameIn(c, i, v)
    BY <1>3, <1>4
  <2>3. i # Null
    <3>1. ~CompleteIn(c, Null)
      BY <1>1, NullIncomplete
    <3>2. v # Null
      BY <2>1 DEF Null
    <3> HIDE DEF v, i
    <3> QED
      BY <2>2, <3>1, <3>2 DEF SameIn
  <2>4. d[t] = c[t]
    BY <1>1, <2>1, <2>3 DEF UnknownIn
  <2>5. i = v \/ SameIn(d, i, v)
    BY <2>1, <2>2, SameKept
  <2> QED
    BY <2>4, <2>5
<1> QED
  BY <1>2, <1>4 DEF Fine

\* What the verifier looks at, in the heap of the model.
LEMMA FitsInCells ==
  (\A s : Fits(s) = FitsIn(cells, s)) /\ \A u : FitsThere(u) = FitsThereIn(cells, u)
<1>1. \A e : ValueReads(e) = ValueReadsIn(cells, e)
  BY InCells DEF ValueReads, ValueReadsIn, Inside
<1> QED
  BY <1>1, InCells DEF Fits, FitsIn, FitsThere, FitsThereIn, Inside

\* And means that the verifier accepts it.
LEMMA FineFits ==
  ASSUME NEW s, Fine(cells, s), s.value.known
  PROVE  Fits(s)
<1>1. ReadsIn(cells, cells[s.to].inside) = ReadsIn(cells, s.value.cell)
  BY DEF Fine, SameIn
<1> QED
  BY <1>1, InCells DEF Fits, ValueReads, Inside

\* An expression has a type of the heap, or none.
LEMMA ExpressionFacts ==
  ASSUME IInv, NEW e \in Expressions
  PROVE  /\ e = [known |-> e.known, cell |-> e.cell] /\ e.known \in BOOLEAN
         /\ e.cell \in Places(cells) /\ TypePtr(e) \in Places(cells)
         /\ e.known => e.cell \in 1..Len(cells) /\ TypePtr(e) = e.cell
         /\ ~e.known => TypePtr(e) = Null
         /\ e \in [known : BOOLEAN, cell : 0..MaxCells]
<1>1. Heap(cells) /\ late \subseteq 1..Len(cells) /\ Len(cells) \in Nat /\ Len(cells) <= MaxCells
      /\ MaxCells \in Nat
  BY BoundsAssumption DEF IInv, Heap, Addresses
<1>2. Null \in Places(cells) /\ \A p \in 1..Len(cells) : p \in Places(cells)
  BY <1>1 DEF Places, Null
<1>3. CASE e \in {Of(p) : p \in Types}
  <2>1. PICK p \in 1..Len(cells) : e = Of(p)
    BY <1>3 DEF Types, Addresses
  <2> QED
    BY <1>1, <1>2, <2>1 DEF Of, TypePtr
<1>4. CASE e \in {Late(c) : c \in {Null} \union late}
  <2>1. PICK p \in Places(cells) : e = Late(p)
    BY <1>1, <1>2, <1>4
  <2>2. p \in 0..MaxCells
    BY <1>1 DEF Places
  <2> QED
    BY <1>2, <2>1, <2>2 DEF Late, TypePtr
<1> QED
  BY <1>3, <1>4 DEF Expressions

\* What the steps of sem() rely on.
LEMMA AtSem ==
  ASSUME IInv, CanSem
  PROVE  /\ walk = NoWalk /\ outcome = "sem" /\ Heap(cells)
         /\ \A s \in stores : StoreIn(cells, s) /\ Fine(cells, s)
<1>1. walk = NoWalk /\ outcome = "sem"
  BY DEF CanSem, Idle
<1>2. ~(walk.for = "equal")
  BY <1>1 DEF NoWalk
<1> QED
  BY <1>1, <1>2 DEF IInv, StoresOK, Pending

\* More types, or a completed one, and perhaps an assignment or a function more.
LEMMA GrowKeeps ==
  ASSUME IInv, CanSem, Grows(cells, cells'), UNCHANGED <<unchecked, walk, outcome, next>>,
         late' \subseteq 1..Len(cells'),
         \A x \in results' : x \in results \/ (x \in 1..Len(cells') /\ cells'[x].class = "ref"),
         \A s \in stores' : s \in stores \/ (StoreIn(cells', s) /\ Fine(cells', s))
  PROVE  IInv'
<1>1. /\ walk = NoWalk /\ outcome = "sem" /\ Heap(cells)
      /\ \A s \in stores : StoreIn(cells, s) /\ Fine(cells, s)
  BY AtSem
<1>2. Heap(cells') /\ Len(cells) \in Nat /\ Len(cells') \in Nat /\ Len(cells) <= Len(cells')
  BY <1>1 DEF Grows, Heap
<1>3. late' \subseteq Addresses' /\ unchecked' \subseteq Place
  BY DEF IInv, Addresses
<1>4. \A s \in stores' : StoreIn(cells', s) /\ Fine(cells', s)
  BY <1>1, FineKept
<1>5. WalkOK(cells', walk', outcome')
  BY <1>1 DEF WalkOK
<1>6. StoresOK(cells', walk', outcome', stores')
  BY <1>4 DEF StoresOK
<1>7. EndsOK(cells', outcome', stores', unchecked')
  BY <1>1 DEF EndsOK
<1>8. outcome' \in Outcomes /\ next' \in Len(Basic) + 1..MaxCells + 1
  BY DEF IInv
<1>9. ResultsOK(cells', results')
  <2>1. ASSUME NEW x \in results
        PROVE  x \in 1..Len(cells') /\ cells'[x].class = "ref"
    <3>1. x \in 1..Len(cells) /\ cells[x].class = "ref"
      BY DEF IInv, ResultsOK
    <3>2. cells'[x].class = cells[x].class
      BY <3>1 DEF Grows
    <3> QED
      BY <1>2, <3>1, <3>2
  <2> QED
    BY <2>1 DEF ResultsOK
<1> QED
  BY <1>2, <1>3, <1>5, <1>6, <1>7, <1>8, <1>9 DEF IInv

\* A rejection ends everything.
LEMMA RejectKeeps ==
  ASSUME IInv, Rejected, UNCHANGED <<program, next>>
  PROVE  IInv'
<1>1. /\ outcome' = "rejected" /\ walk' = NoWalk /\ cells' = cells /\ late' = late
      /\ stores' = stores /\ results' = results /\ unchecked' = unchecked /\ next' = next
  BY DEF Rejected, program
<1>2. WalkOK(cells', walk', outcome')
  BY <1>1 DEF WalkOK
<1>3. StoresOK(cells', walk', outcome', stores')
  BY <1>1 DEF IInv, StoresOK
<1>4. EndsOK(cells', outcome', stores', unchecked')
  BY <1>1 DEF EndsOK
<1>5. /\ Heap(cells') /\ late' \subseteq Addresses' /\ outcome' \in Outcomes
      /\ next' \in Len(Basic) + 1..MaxCells + 1
      /\ ResultsOK(cells', results') /\ unchecked' \subseteq Place
  BY <1>1 DEF IInv, Addresses, Outcomes
<1> QED
  BY <1>2, <1>3, <1>4, <1>5 DEF IInv

-----------------------------------------------------------------------------
(* The steps of sem().                                                     *)

\* The compiler starts with what programs write down.
LEMMA InitIInv ==
  Init => IInv
<1> SUFFICES ASSUME Init PROVE IInv
  OBVIOUS
<1>1. /\ cells = Basic /\ late = {} /\ results = {} /\ stores = {} /\ unchecked = {}
      /\ walk = NoWalk /\ outcome = "sem" /\ next = Len(Basic) + 1
  BY DEF Init
<1>2. Len(Basic) = 3 /\ MaxCells \in Nat /\ 3 <= MaxCells
  BY BoundsAssumption DEF Basic
<1>3. Heap(Basic)
  BY <1>2 DEF Heap, Basic, Cells, Cell, Null
<1> QED
  BY <1>1, <1>2, <1>3 DEF IInv, ResultsOK, WalkOK, StoresOK, EndsOK, Outcomes

\* More types make the heap grow.
LEMMA MoreGrows ==
  ASSUME NEW c, Heap(c), NEW d \in Seq(Cells), Len(c) <= Len(d), Len(d) <= MaxCells,
         \A x \in 1..Len(c) : d[x] = c[x],
         \A x \in Len(c) + 1..Len(d) :
           /\ d[x].inside \in 0..Len(d)
           /\ d[x].class = "int" => d[x].dims = 0
           /\ d[x].class = "array" => d[x].inside # Null /\ d[d[x].inside].class = "ref"
  PROVE  Grows(c, d)
<1>1. Len(c) \in Nat /\ Len(d) \in Nat
  BY DEF Heap
<1>2. ASSUME NEW p \in 1..Len(d)
      PROVE  /\ d[p].inside \in 0..Len(d)
             /\ d[p].class = "int" => d[p].dims = 0
             /\ d[p].class = "array" => d[p].inside # Null /\ d[d[p].inside].class = "ref"
  <2>1. CASE p \in 1..Len(c)
    <3>1. /\ c[p].inside \in 0..Len(c) /\ d[p] = c[p]
          /\ c[p].class = "int" => c[p].dims = 0
          /\ c[p].class = "array" => c[p].inside # Null /\ c[c[p].inside].class = "ref"
      BY <2>1 DEF Heap
    <3>2. c[p].inside # Null => c[p].inside \in 1..Len(c)
      BY <1>1, <3>1 DEF Null
    <3>3. c[p].inside \in 0..Len(d)
      BY <1>1, <3>1
    <3> QED
      BY <3>1, <3>2, <3>3
  <2>2. CASE p \in Len(c) + 1..Len(d)
    BY <2>2
  <2> QED
    BY <1>1, <2>1, <2>2
<1>3. Heap(d)
  BY <1>2 DEF Heap
<1> QED
  BY <1>3 DEF Grows

\* What is written down is a type of the heap, or none.
LEMMA WrittenPlaces ==
  ASSUME Heap(cells)
  PROVE  Written \subseteq 0..Len(cells) /\ Len(cells) \in Nat
BY DEF Written, Types, Addresses, Heap, Null

\* A new ref.
LEMMA NewRefGrows ==
  ASSUME IInv, CanSem, Len(cells) + 1 <= MaxCells, NEW t \in Written, NewRef(t)
  PROVE  /\ Grows(cells, cells') /\ late' \subseteq 1..Len(cells')
         /\ Len(cells) + 1 \in 1..Len(cells') /\ cells'[Len(cells) + 1].class = "ref"
<1>1. Heap(cells) /\ Len(cells) \in Nat /\ t \in 0..Len(cells)
  <2>1. Heap(cells)
    BY DEF IInv
  <2> QED
    BY <2>1, WrittenPlaces
<1>2. cells' = Append(cells, Cell("ref", 0, t)) /\ late' \subseteq late \union {Len(cells) + 1}
  BY DEF NewRef, LateIf
<1> DEFINE n == Cell("ref", 0, t)
<1>4. n \in Cells /\ n.class = "ref" /\ n.inside = t
  BY <1>1 DEF Cell, Cells
<1> HIDE DEF n
<1>5. cells \in Seq(Cells)
  BY <1>1 DEF Heap
<1>6. /\ cells' \in Seq(Cells) /\ Len(cells') = Len(cells) + 1
      /\ \A x \in 1..Len(cells) : cells'[x] = cells[x]
      /\ cells'[Len(cells) + 1] = n
  BY <1>2, <1>4, <1>5 DEF n
<1>7. \A x \in Len(cells) + 1..Len(cells') :
        /\ cells'[x].inside \in 0..Len(cells')
        /\ cells'[x].class = "int" => cells'[x].dims = 0
        /\ cells'[x].class = "array" =>
             cells'[x].inside # Null /\ cells'[cells'[x].inside].class = "ref"
  BY <1>1, <1>4, <1>6
<1>8. Grows(cells, cells')
  BY <1>1, <1>6, <1>7, MoreGrows
<1>9. late' \subseteq 1..Len(cells')
  BY <1>1, <1>2, <1>6 DEF IInv, Addresses
<1> QED
  BY <1>1, <1>4, <1>6, <1>8, <1>9

\* mutable x.
LEMMA MutableDefIInv ==
  ASSUME IInv, MutableDef
  PROVE  IInv' /\ Grows(cells, cells')
<1>1. /\ CanSem /\ Len(cells) + 1 <= MaxCells
      /\ UNCHANGED <<results, stores, unchecked, walk, outcome, next>>
  BY DEF MutableDef, Room
<1>2. PICK t \in Written : NewRef(t)
  BY DEF MutableDef
<1>3. Grows(cells, cells') /\ late' \subseteq 1..Len(cells')
  BY <1>1, <1>2, NewRefGrows
<1> QED
  BY <1>1, <1>3, GrowKeeps

\* mutable x[..].
LEMMA MutableArrayDefIInv ==
  ASSUME IInv, MutableArrayDef
  PROVE  IInv' /\ Grows(cells, cells')
<1>1. Heap(cells) /\ Len(cells) \in Nat
  BY DEF IInv, Heap
<1>2. /\ CanSem /\ Len(cells) + 2 <= MaxCells
      /\ UNCHANGED <<results, stores, unchecked, walk, outcome, next>>
  BY DEF MutableArrayDef, Room
<1>3. PICK t \in 0..Len(cells), dims \in ArrayDims :
        /\ cells' = cells \o <<Cell("ref", 0, t), Cell("array", dims, Len(cells) + 1)>>
        /\ late' \subseteq late \union {Len(cells) + 1}
  BY <1>1, WrittenPlaces DEF MutableArrayDef, LateIf
<1> DEFINE m == Cell("ref", 0, t)
           n == Cell("array", dims, Len(cells) + 1)
<1>4. /\ m \in Cells /\ m.class = "ref" /\ m.inside = t
      /\ n \in Cells /\ n.class = "array" /\ n.inside = Len(cells) + 1
  BY <1>1, BoundsAssumption DEF Cell, Cells
<1> HIDE DEF m, n
<1>5. cells \in Seq(Cells) /\ <<m, n>> \in Seq(Cells)
  BY <1>1, <1>4 DEF Heap
<1>6. /\ cells' \in Seq(Cells) /\ Len(cells') = Len(cells) + 2
      /\ \A x \in 1..Len(cells) : cells'[x] = cells[x]
      /\ cells'[Len(cells) + 1] = m /\ cells'[Len(cells) + 2] = n
  BY <1>3, <1>5 DEF m, n
<1>7. \A x \in Len(cells) + 1..Len(cells') :
        /\ cells'[x].inside \in 0..Len(cells')
        /\ cells'[x].class = "int" => cells'[x].dims = 0
        /\ cells'[x].class = "array" =>
             cells'[x].inside # Null /\ cells'[cells'[x].inside].class = "ref"
  <2>1. \A x \in Len(cells) + 1..Len(cells') : x = Len(cells) + 1 \/ x = Len(cells) + 2
    BY <1>1, <1>6
  <2>2. t \in 0..Len(cells) + 2 /\ Len(cells) + 1 \in 0..Len(cells) + 2 /\ Len(cells) + 1 # Null
    BY <1>1 DEF Null
  <2> QED
    BY <1>4, <1>6, <2>1, <2>2
<1>8. Grows(cells, cells')
  BY <1>1, <1>2, <1>6, <1>7, MoreGrows
<1>9. late' \subseteq 1..Len(cells')
  BY <1>1, <1>3, <1>6 DEF IInv, Addresses
<1> QED
  BY <1>2, <1>8, <1>9, GrowKeeps

\* !e.
LEMMA DerefIInv ==
  ASSUME IInv, Deref
  PROVE  IInv'
<1>1. Rejected /\ UNCHANGED <<program, next>>
  BY DEF Deref
<1> QED
  BY <1>1, RejectKeeps

\* x[..].
LEMMA IndexIInv ==
  ASSUME IInv, Index
  PROVE  IInv'
<1>1. CanSem /\ UNCHANGED <<cells, late, results, stores, unchecked, walk, next>>
      /\ outcome' \in {"rejected", "crash in sem"}
  BY DEF Index, program
<1>2. walk = NoWalk /\ outcome = "sem"
  BY <1>1, AtSem
<1>3. WalkOK(cells', walk', outcome') /\ EndsOK(cells', outcome', stores', unchecked')
  BY <1>1, <1>2 DEF WalkOK, EndsOK
<1>4. StoresOK(cells', walk', outcome', stores')
  BY <1>1, <1>2 DEF IInv, StoresOK
<1> QED
  BY <1>1, <1>3, <1>4 DEF IInv, Outcomes, Addresses

\* A call of equal_types(), and perhaps an assignment that waits for it.
LEMMA WalkKeeps ==
  ASSUME IInv, CanSem, NEW p \in Places(cells), NEW q \in Places(cells),
         walk' = Walk("equal", p, q), 
         UNCHANGED <<cells, late, results, unchecked, outcome, next>>,
         \A s \in stores' :
           s \in stores \/ (StoreIn(cells, s) /\ (Fine(cells, s) \/ Pending(cells, walk', s)))
  PROVE  IInv'
<1>1. /\ walk = NoWalk /\ outcome = "sem" /\ Heap(cells)
      /\ \A s \in stores : StoreIn(cells, s) /\ Fine(cells, s)
  BY AtSem
<1>2. /\ cells' = cells /\ late' = late /\ results' = results /\ unchecked' = unchecked
      /\ outcome' = outcome /\ next' = next
  OBVIOUS
<1>3. Walked(cells, p, q, p, q, TRUE)
  BY <1>1, WalkBegins
<1>4. walk' = [for |-> "equal", left |-> p, right |-> q, start |-> <<p, q>>, same |-> TRUE]
  BY DEF Walk
<1>5. WalkOK(cells, walk', outcome)
  BY <1>1, <1>3, <1>4 DEF WalkOK
<1>6. StoresOK(cells, walk', outcome, stores')
  BY <1>1 DEF StoresOK
<1>7. EndsOK(cells, outcome, stores', unchecked')
  BY <1>1 DEF EndsOK
<1>8. /\ Heap(cells') /\ late' \subseteq Addresses' /\ outcome' \in Outcomes
      /\ next' \in Len(Basic) + 1..MaxCells + 1
      /\ ResultsOK(cells', results') /\ unchecked' \subseteq Place
  BY <1>2 DEF IInv, Addresses
<1> QED
  BY <1>2, <1>5, <1>6, <1>7, <1>8 DEF IInv

\* The other places where two types must be equal.
LEMMA CompareIInv ==
  ASSUME IInv, Compare
  PROVE  IInv'
<1>1. PICK e \in Expressions, f \in Expressions : MustEqual(e, f)
  BY DEF Compare
<1>2. CanSem /\ UNCHANGED <<cells, late, results, stores, unchecked, outcome, next>>
  BY DEF Compare, program
<1>3. TypePtr(e) \in Places(cells) /\ TypePtr(f) \in Places(cells)
  BY ExpressionFacts
<1>4. walk' = Walk("equal", TypePtr(e), TypePtr(f))
  BY <1>1 DEF MustEqual
<1>5. \A s \in stores' : s \in stores
  BY <1>2
<1> QED
  BY <1>2, <1>3, <1>4, <1>5, WalkKeeps

\* A type without content, of which nothing was known, gets some.
LEMMA CompletesGrows ==
  ASSUME NEW c, Heap(c), NEW a \in 1..Len(c), UnknownIn(c, a), NEW q \in Places(c)
  PROVE  /\ Grows(c, [c EXCEPT ![a].inside = q])
         /\ [c EXCEPT ![a].inside = q][a].inside = q
<1> DEFINE d == [c EXCEPT ![a].inside = q]
<1>1. c \in Seq(Cells) /\ Len(c) \in Nat /\ c[a] \in Cells /\ q \in Nat /\ c[a].class = "ref"
  BY DEF Heap, Places, UnknownIn
<1>2. d \in Seq(Cells) /\ Len(d) = Len(c)
  <2>1. [c[a] EXCEPT !.inside = q] \in Cells
    BY <1>1 DEF Cells
  <2> QED
    BY <1>1, <2>1
<1>3. \A x \in 1..Len(c) : x # a => d[x] = c[x]
  BY <1>1
<1>4. d[a].inside = q /\ d[a].class = "ref"
  BY <1>1 DEF Cells
<1>5. \A x \in 1..Len(c) : d[x].class = c[x].class
  BY <1>1, <1>3, <1>4
<1> HIDE DEF d
<1>6. ASSUME NEW x \in 1..Len(d)
      PROVE  /\ d[x].inside \in 0..Len(d)
             /\ d[x].class = "int" => d[x].dims = 0
             /\ d[x].class = "array" => d[x].inside # Null /\ d[d[x].inside].class = "ref"
  <2>1. x \in 1..Len(c)
    BY <1>2
  <2>2. CASE x = a
    BY <1>2, <1>4, <2>2 DEF Places
  <2>3. CASE x # a
    <3>1. /\ d[x] = c[x] /\ c[x].inside \in 0..Len(c)
          /\ c[x].class = "int" => c[x].dims = 0
          /\ c[x].class = "array" => c[x].inside # Null /\ c[c[x].inside].class = "ref"
      BY <1>3, <2>1, <2>3 DEF Heap
    <3>2. c[x].inside # Null => c[x].inside \in 1..Len(c)
      BY <1>1, <3>1 DEF Null
    <3> QED
      BY <1>2, <1>5, <3>1, <3>2
  <2> QED
    BY <2>2, <2>3
<1>7. Heap(d)
  BY <1>2, <1>6 DEF Heap
<1>8. Grows(c, d)
  BY <1>1, <1>2, <1>3, <1>5, <1>7 DEF Grows
<1> QED
  BY <1>4, <1>8 DEF d

\* The ref a, unknown or of a type that is compared, is given r.
LEMMA TakesKeeps ==
  ASSUME IInv, CanSem, UNCHANGED <<late, results, unchecked, next>>,
         NEW a \in 1..Len(cells), NEW r \in Expressions, Record(a, r),
         \/ Unknown(a) /\ cells' = Complement(a, r) /\ UNCHANGED <<walk, outcome>>
         \/ MustEqual(Of(Inside(a)), r) /\ UNCHANGED <<cells, outcome>>
  PROVE  IInv' /\ (cells' = cells \/ Grows(cells, cells'))
<1> DEFINE s == [to |-> a, value |-> r]
           q == TypePtr(r)
<1>1. /\ Heap(cells) /\ Len(cells) \in Nat /\ Len(cells) <= MaxCells /\ MaxCells \in Nat
      /\ late \subseteq 1..Len(cells)
  BY BoundsAssumption DEF IInv, Heap, Addresses
<1>2. q \in Places(cells) /\ (r.known => q = r.cell)
  BY ExpressionFacts
<1>3. StoreIn(cells, s)
  <2>1. r \in [known : BOOLEAN, cell : 0..MaxCells] /\ (r.known => r.cell \in 1..Len(cells))
    BY ExpressionFacts
  <2>2. a \in 1..MaxCells
    BY <1>1
  <2>3. s \in Assignment /\ s.to = a /\ s.value = r
    BY <2>1, <2>2 DEF Assignment, Expression
  <2> HIDE DEF s
  <2> QED
    BY <2>1, <2>3 DEF StoreIn
<1>4. s.to = a /\ s.value = r /\ stores' = stores \union {s}
  BY DEF Record
<1>5. CASE Unknown(a) /\ cells' = Complement(a, r) /\ UNCHANGED <<walk, outcome>>
  <2>1. UnknownIn(cells, a)
    BY <1>5, InCells DEF Unknown, IsRef, UnknownIn, Inside, ClassIn
  <2>2. cells' = [cells EXCEPT ![a].inside = q]
    BY <1>5 DEF Complement
  <2> HIDE DEF q, s
  <2>3. Grows(cells, cells') /\ cells'[a].inside = q
    BY <1>1, <1>2, <2>1, <2>2, CompletesGrows
  <2>4. Len(cells') \in Nat /\ Len(cells) <= Len(cells')
    BY <2>3 DEF Grows, Heap
  <2>5. StoreIn(cells', s)
    BY <1>1, <1>3, <2>4 DEF StoreIn
  <2>6. Fine(cells', s)
    BY <1>2, <1>4, <2>3 DEF Fine
  <2>7. \A x \in stores' : x \in stores \/ (StoreIn(cells', x) /\ Fine(cells', x))
    BY <1>4, <2>5, <2>6
  <2>8. late' \subseteq 1..Len(cells')
    BY <1>1, <2>4
  <2> QED
    BY <1>5, <2>3, <2>7, <2>8, GrowKeeps
<1>6. CASE MustEqual(Of(Inside(a)), r) /\ UNCHANGED <<cells, outcome>>
  <2> DEFINE p == cells[a].inside
  <2>1. p \in Places(cells)
    BY <1>1 DEF Heap, Places
  <2>2. walk' = Walk("equal", p, q)
    BY <1>6 DEF MustEqual, Of, TypePtr, Inside
  <2>3. Fine(cells, s) \/ Pending(cells, walk', s)
    <3>1. walk'.for = "equal" /\ walk'.start = <<p, q>>
      BY <2>2 DEF Walk
    <3> HIDE DEF q, s
    <3> QED
      BY <1>2, <1>4, <3>1 DEF Pending, Fine
  <2> HIDE DEF p, q, s
  <2>4. \A x \in stores' :
          x \in stores \/ (StoreIn(cells, x) /\ (Fine(cells, x) \/ Pending(cells, walk', x)))
    BY <1>3, <1>4, <2>3
  <2> QED
    BY <1>2, <1>6, <2>1, <2>2, <2>4, WalkKeeps
<1> QED
  BY <1>5, <1>6

\* l := r.
LEMMA AssignIInv ==
  ASSUME IInv, Assign
  PROVE  IInv' /\ (cells' = cells \/ Grows(cells, cells'))
<1>1. CanSem /\ UNCHANGED <<late, results, unchecked, next>>
  BY DEF Assign
<1>2. PICK l \in Expressions, r \in Expressions :
       \/ ~(l.known /\ IsRef(l.cell)) /\ Rejected /\ UNCHANGED <<cells, stores>>
       \/ /\ l.known /\ Unknown(l.cell)
          /\ cells' = Complement(l.cell, r)
          /\ Record(l.cell, r)
          /\ UNCHANGED <<walk, outcome>>
       \/ /\ l.known /\ IsRef(l.cell) /\ ~Unknown(l.cell)
          /\ MustEqual(Of(Inside(l.cell)), r)
          /\ Record(l.cell, r)
          /\ UNCHANGED <<cells, outcome>>
  BY DEF Assign
<1>3. CASE Rejected /\ UNCHANGED <<cells, stores>>
  <2>1. UNCHANGED <<program, next>>
    BY <1>1, <1>3 DEF program
  <2> QED
    BY <1>3, <2>1, RejectKeeps
<1>4. CASE /\ l.known /\ Record(l.cell, r)
           /\ \/ Unknown(l.cell) /\ cells' = Complement(l.cell, r) /\ UNCHANGED <<walk, outcome>>
              \/ MustEqual(Of(Inside(l.cell)), r) /\ UNCHANGED <<cells, outcome>>
  <2>1. l.cell \in 1..Len(cells)
    BY <1>4, ExpressionFacts
  <2> QED
    BY <1>1, <1>4, <2>1, TakesKeeps
<1> QED
  BY <1>2, <1>3, <1>4

\* A function, before its body.
LEMMA FunctionSemIInv ==
  ASSUME IInv, FunctionSem
  PROVE  IInv' /\ Grows(cells, cells')
<1>1. /\ CanSem /\ Len(cells) + 1 <= MaxCells /\ results' = results \union {Len(cells) + 1}
      /\ UNCHANGED <<stores, unchecked, walk, outcome, next>>
  BY DEF FunctionSem, Room
<1>2. PICK t \in Written : NewRef(t)
  BY DEF FunctionSem
<1>3. /\ Grows(cells, cells') /\ late' \subseteq 1..Len(cells')
      /\ Len(cells) + 1 \in 1..Len(cells') /\ cells'[Len(cells) + 1].class = "ref"
  BY <1>1, <1>2, NewRefGrows
<1> QED
  BY <1>1, <1>3, GrowKeeps

\* And with its body.
LEMMA FunctionDeclIInv ==
  ASSUME IInv, FunctionDecl
  PROVE  IInv' /\ (cells' = cells \/ Grows(cells, cells'))
<1>1. CanSem /\ UNCHANGED <<late, results, unchecked, next>>
  BY DEF FunctionDecl
<1>2. PICK c \in Undeclared, r \in Expressions :
        /\ Record(c, r)
        /\ \/ Unknown(c) /\ cells' = Complement(c, r) /\ UNCHANGED <<walk, outcome>>
           \/ MustEqual(Of(Inside(c)), r) /\ UNCHANGED <<cells, outcome>>
  BY DEF FunctionDecl
<1>3. c \in 1..Len(cells)
  BY DEF Undeclared, IInv, ResultsOK
<1> QED
  BY <1>1, <1>2, <1>3, TakesKeeps

\* A call is at a type, or at none.
LEMMA WalkedClass ==
  ASSUME NEW c, Heap(c), NEW p \in Places(c), NEW q \in Places(c), NEW l, NEW r, NEW same,
         Walked(c, p, q, l, r, same)
  PROVE  l = Null \/ ClassIn(c, l) \in Wraps \union {"int"}
<1>1. ASSUME NEW k \in 1..MaxCells + 1, l = PathIn(c, p)[k]
      PROVE  l = Null \/ ClassIn(c, l) \in Wraps \union {"int"}
  <2>1. l \in Places(c)
    BY <1>1, PathFacts
  <2>2. CASE l = Null
    BY <2>2
  <2>3. CASE l # Null
    <3>1. l \in 1..Len(c) /\ c \in Seq(Cells)
      BY <2>1, <2>3 DEF Places, Null, Heap
    <3>2. c[l] \in Cells
      BY <3>1
    <3> QED
      BY <2>3, <3>2 DEF ClassIn, Cells, Wraps
  <2> QED
    BY <2>2, <2>3
<1>2. CASE Endless(c, l)
  BY <1>2 DEF Endless
<1> QED
  BY <1>1, <1>2 DEF Walked

\* What is known of a call of equal_types().
LEMMA InWalk ==
  ASSUME IInv, walk.for = "equal"
  PROVE  /\ outcome = "sem" /\ Heap(cells)
         /\ \E p, q \in Places(cells), same \in BOOLEAN : \E l, r :
              /\ walk = [for |-> "equal", left |-> l, right |-> r, start |-> <<p, q>>,
                         same |-> same]
              /\ Walked(cells, p, q, l, r, same)
<1>1. walk # NoWalk
  BY DEF NoWalk
<1>2. ~(\E l \in Places(cells), same \in BOOLEAN : \E r, start :
          walk = [for |-> "llvm", left |-> l, right |-> r, start |-> start, same |-> same])
  OBVIOUS
<1> QED
  BY <1>1, <1>2 DEF IInv, WalkOK

\* A step of equal_types(), and what it ends with.
LEMMA EqualStepFacts ==
  ASSUME IInv, EqualStep
  PROVE  /\ UNCHANGED <<program, next>>
         /\ \/ /\ Rejected
               /\ ~SameIn(cells, walk.start[1], walk.start[2])
            \/ /\ UNCHANGED outcome /\ WalkOK(cells, walk', outcome)
               /\ walk'.for = "equal" /\ walk'.start = walk.start
            \/ /\ UNCHANGED outcome /\ walk' = NoWalk
               /\ SameIn(cells, walk.start[1], walk.start[2])
<1>1. walk.for = "equal" /\ UNCHANGED <<program, next>>
  BY DEF EqualStep
<1>0. PICK p \in Places(cells), q \in Places(cells), same \in BOOLEAN : \E l, r :
        /\ walk = [for |-> "equal", left |-> l, right |-> r, start |-> <<p, q>>, same |-> same]
        /\ Walked(cells, p, q, l, r, same)
  BY <1>1, InWalk
<1>2. PICK l, r :
        /\ walk = [for |-> "equal", left |-> l, right |-> r, start |-> <<p, q>>, same |-> same]
        /\ Walked(cells, p, q, l, r, same)
  BY <1>0
<1>3. Heap(cells) /\ outcome = "sem"
  BY <1>1, InWalk
<1>4. walk.left = l /\ walk.right = r /\ walk.same = same /\ walk.start = <<p, q>>
      /\ walk.start[1] = p /\ walk.start[2] = q
  BY <1>2
<1>5. \A x : Class(x) = ClassIn(cells, x) /\ (IsSimple(x) <=> ClassIn(cells, x) = "int")
  BY InCells DEF IsSimple
<1>6. \/ ~(l # Null /\ Class(l) = Class(r)) /\ Rejected
      \/ /\ l # Null /\ Class(l) = Class(r) /\ ~IsSimple(l)
         /\ walk' = [walk EXCEPT !.left = Inside(l), !.right = Inside(r),
                                 !.same = @ /\ cells[l].dims = cells[r].dims]
         /\ UNCHANGED outcome
      \/ l # Null /\ Class(l) = Class(r) /\ IsSimple(l) /\ ~same /\ Rejected
      \/ /\ l # Null /\ Class(l) = Class(r) /\ IsSimple(l) /\ same
         /\ walk' = NoWalk /\ UNCHANGED outcome
  BY <1>4 DEF EqualStep
<1>7. CASE ~(l # Null /\ Class(l) = Class(r)) /\ Rejected
  <2>1. l = Null \/ ClassIn(cells, l) # ClassIn(cells, r)
    BY <1>5, <1>7
  <2>2. ~SameIn(cells, p, q)
    BY <1>2, <1>3, <2>1, WalkRejects
  <2> QED
    BY <1>1, <1>4, <1>7, <2>2
<1>8. CASE l # Null /\ Class(l) = Class(r) /\ IsSimple(l) /\ ~same /\ Rejected
  <2>1. ~SameIn(cells, p, q)
    BY <1>2, <1>3, <1>8, WalkRejects
  <2> QED
    BY <1>1, <1>4, <1>8, <2>1
<1>9. CASE /\ l # Null /\ Class(l) = Class(r) /\ IsSimple(l) /\ same
           /\ walk' = NoWalk /\ UNCHANGED outcome
  <2>1. ClassIn(cells, l) = "int" /\ ClassIn(cells, r) = "int"
    BY <1>5, <1>9
  <2>2. SameIn(cells, p, q)
    BY <1>2, <1>3, <1>9, <2>1, WalkAccepts
  <2> QED
    BY <1>1, <1>4, <1>9, <2>2
<1>10. CASE /\ l # Null /\ Class(l) = Class(r) /\ ~IsSimple(l)
            /\ walk' = [walk EXCEPT !.left = Inside(l), !.right = Inside(r),
                                    !.same = @ /\ cells[l].dims = cells[r].dims]
            /\ UNCHANGED outcome
  <2> DEFINE new == same /\ cells[l].dims = cells[r].dims
             u == cells[l].inside
             v == cells[r].inside
  <2>1. ClassIn(cells, l) \in Wraps /\ ClassIn(cells, l) = ClassIn(cells, r)
    <3>1. l = Null \/ ClassIn(cells, l) \in Wraps \union {"int"}
      BY <1>2, <1>3, WalkedClass
    <3> QED
      BY <1>5, <1>10, <3>1
  <2>2. Walked(cells, p, q, u, v, new)
    BY <1>2, <1>3, <2>1, WalkGoesOn
  <2>3. new \in BOOLEAN
    OBVIOUS
  <2>4. walk' = [for |-> "equal", left |-> u, right |-> v, start |-> <<p, q>>, same |-> new]
    BY <1>2, <1>10 DEF Inside
  <2> HIDE DEF new, u, v
  <2>5. WalkOK(cells, walk', outcome)
    BY <1>3, <2>2, <2>3, <2>4 DEF WalkOK
  <2>6. walk'.for = "equal" /\ walk'.start = walk.start
    BY <1>4, <2>4
  <2> QED
    BY <1>1, <1>10, <2>5, <2>6
<1> QED
  BY <1>6, <1>7, <1>8, <1>9, <1>10

\* equal_types() calls itself, or answers.
LEMMA EqualStepIInv ==
  ASSUME IInv, EqualStep
  PROVE  IInv'
<1>0. UNCHANGED <<program, next>>
  BY EqualStepFacts
<1>1. UNCHANGED <<cells, late, results, stores, unchecked, next>> /\ walk.for = "equal"
  BY <1>0 DEF EqualStep, program
<1>2. /\ Heap(cells) /\ outcome = "sem"
      /\ \A s \in stores : StoreIn(cells, s) /\ (Fine(cells, s) \/ Pending(cells, walk, s))
  BY <1>1, InWalk DEF IInv, StoresOK
<1>3. CASE Rejected
  BY <1>0, <1>3, RejectKeeps
<1>4. CASE /\ UNCHANGED outcome /\ WalkOK(cells, walk', outcome)
           /\ walk'.for = "equal" /\ walk'.start = walk.start
  <2>1. \A s \in stores : Fine(cells, s) \/ Pending(cells, walk', s)
    BY <1>1, <1>2, <1>4 DEF Pending
  <2>2. StoresOK(cells', walk', outcome', stores') /\ EndsOK(cells', outcome', stores', unchecked')
    BY <1>1, <1>2, <1>4, <2>1 DEF StoresOK, EndsOK
  <2>3. WalkOK(cells', walk', outcome')
    BY <1>1, <1>4
  <2> QED
    BY <1>1, <1>4, <2>2, <2>3 DEF IInv, Addresses
<1>5. CASE /\ UNCHANGED outcome /\ walk' = NoWalk
           /\ SameIn(cells, walk.start[1], walk.start[2])
  <2>1. ASSUME NEW s \in stores
        PROVE  Fine(cells, s)
    <3>1. CASE Pending(cells, walk, s)
      <4>1. walk.start[1] = cells[s.to].inside /\ walk.start[2] = s.value.cell
        BY <3>1 DEF Pending
      <4> QED
        BY <1>5, <4>1 DEF Fine
    <3> QED
      BY <1>2, <3>1
  <2>2. StoresOK(cells', walk', outcome', stores') /\ EndsOK(cells', outcome', stores', unchecked')
    BY <1>1, <1>2, <1>5, <2>1 DEF StoresOK, EndsOK
  <2>3. WalkOK(cells', walk', outcome')
    BY <1>5 DEF WalkOK
  <2> QED
    BY <1>1, <1>5, <2>2, <2>3 DEF IInv, Addresses
<1> QED
  BY <1>3, <1>4, <1>5, EqualStepFacts

-----------------------------------------------------------------------------
(* The steps of codegen().                                                 *)

\* sem() has accepted the program.
LEMMA EndSemIInv ==
  ASSUME IInv, EndSem
  PROVE  IInv'
<1>1. CanSem /\ outcome' = "gen" /\ UNCHANGED <<cells, late, results, stores, unchecked, walk, next>>
  BY DEF EndSem, program
<1>2. walk = NoWalk /\ \A s \in stores : StoreIn(cells, s) /\ Fine(cells, s)
  BY <1>1, AtSem
<1>3. /\ WalkOK(cells', walk', outcome') /\ EndsOK(cells', outcome', stores', unchecked')
      /\ StoresOK(cells', walk', outcome', stores')
  BY <1>1, <1>2 DEF WalkOK, EndsOK, StoresOK
<1> QED
  BY <1>1, <1>3 DEF IInv, Outcomes, Addresses

\* After sem() no assignment waits.
LEMMA AtGen ==
  ASSUME IInv, outcome = "gen"
  PROVE  /\ Heap(cells) /\ Len(cells) \in Nat /\ Len(cells) <= MaxCells
         /\ \A s \in stores : StoreIn(cells, s) /\ Fine(cells, s)
<1>1. walk.for # "equal"
  BY DEF IInv, WalkOK, NoWalk
<1> QED
  BY <1>1 DEF IInv, StoresOK, Pending, Heap

\* A definition asks for the type of its value.
LEMMA GenDefinitionIInv ==
  ASSUME IInv, GenDefinition
  PROVE  IInv'
<1>1. /\ outcome = "gen" /\ next <= Len(cells) /\ walk' = Walk("llvm", next, Null)
      /\ next' = next + 1 /\ UNCHANGED <<cells, late, results, stores, unchecked, outcome>>
  BY DEF GenDefinition, program
<1>2. /\ Heap(cells) /\ Len(cells) \in Nat /\ Len(cells) <= MaxCells
      /\ \A s \in stores : StoreIn(cells, s) /\ Fine(cells, s)
  BY <1>1, AtGen
<1>3. Len(Basic) = 3 /\ MaxCells \in Nat /\ next \in Len(Basic) + 1..MaxCells + 1
  BY BoundsAssumption DEF Basic, IInv
<1>4. next \in Places(cells) /\ next' \in Len(Basic) + 1..MaxCells + 1
  BY <1>1, <1>2, <1>3 DEF Places
<1>5. walk' = [for |-> "llvm", left |-> next, right |-> Null, start |-> <<next, Null>>,
               same |-> TRUE]
  BY <1>1 DEF Walk
<1>6. WalkOK(cells', walk', outcome')
  BY <1>1, <1>4, <1>5 DEF WalkOK
<1>7. StoresOK(cells', walk', outcome', stores') /\ EndsOK(cells', outcome', stores', unchecked')
  BY <1>1, <1>2 DEF StoresOK, EndsOK
<1> QED
  BY <1>1, <1>4, <1>6, <1>7 DEF IInv, Addresses

\* getLLVMType() calls itself or ends, for a null pointer within an array with
\* a crash.
LEMMA LLVMStepIInv ==
  ASSUME IInv, LLVMStep
  PROVE  IInv'
<1>1. walk.for = "llvm" /\ UNCHANGED <<cells, late, results, stores, unchecked, next>>
  BY DEF LLVMStep, program
<1>2. /\ outcome = "gen"
      /\ \E l \in Places(cells), same \in BOOLEAN : \E r, start :
           /\ walk = [for |-> "llvm", left |-> l, right |-> r, start |-> start, same |-> same]
           /\ ~same => \E a \in 1..Len(cells) :
                cells[a].class = "array" /\ (CompleteIn(cells, a) => CompleteIn(cells, l))
  BY <1>1 DEF IInv, WalkOK, NoWalk
<1>3. PICK l \in Places(cells), same \in BOOLEAN : \E r, start :
        /\ walk = [for |-> "llvm", left |-> l, right |-> r, start |-> start, same |-> same]
        /\ ~same => \E a \in 1..Len(cells) :
             cells[a].class = "array" /\ (CompleteIn(cells, a) => CompleteIn(cells, l))
  BY <1>2
<1>4. PICK r, start :
        /\ walk = [for |-> "llvm", left |-> l, right |-> r, start |-> start, same |-> same]
        /\ ~same => \E a \in 1..Len(cells) :
             cells[a].class = "array" /\ (CompleteIn(cells, a) => CompleteIn(cells, l))
  BY <1>3
<1>5. /\ Heap(cells) /\ Len(cells) \in Nat
      /\ \A s \in stores : StoreIn(cells, s) /\ Fine(cells, s)
  BY <1>2, AtGen
<1>6. walk.left = l /\ walk.same = same
  BY <1>4
<1>7. \/ /\ Class(l) \in {"ref", "array"}
         /\ walk' = [walk EXCEPT !.left = Inside(l), !.same = @ /\ ~IsArray(l)]
         /\ UNCHANGED outcome
      \/ walk' = NoWalk /\ UNCHANGED outcome
      \/ l = Null /\ ~same /\ walk' = NoWalk /\ outcome' = "crash"
  BY <1>6 DEF LLVMStep
<1>8. /\ Heap(cells') /\ late' \subseteq Addresses' /\ next' \in Len(Basic) + 1..MaxCells + 1
      /\ ResultsOK(cells', results') /\ unchecked' \subseteq Place
  BY <1>1 DEF IInv, Addresses
<1>9. outcome' \in {"gen", "crash"} => StoresOK(cells', walk', outcome', stores')
  BY <1>1, <1>5 DEF StoresOK
<1>10. CASE /\ Class(l) \in {"ref", "array"}
            /\ walk' = [walk EXCEPT !.left = Inside(l), !.same = @ /\ ~IsArray(l)]
            /\ UNCHANGED outcome
  <2> DEFINE i == cells[l].inside
             new == same /\ cells[l].class # "array"
  <2>1. l # Null /\ l \in 1..Len(cells) /\ Class(l) = cells[l].class
    <3>1. l # Null
      BY <1>10 DEF Class
    <3> QED
      BY <1>5, <3>1 DEF Class, Places, Null
  <2>2. i \in Places(cells)
    BY <1>5, <2>1 DEF Heap, Places
  <2>3. CompleteIn(cells, l) => CompleteIn(cells, i)
    <3>1. FurtherIn(cells, l) = i
      BY <1>10, <2>1 DEF FurtherIn, ClassIn
    <3> QED
      BY <1>5, <3>1, CompleteInside
  <2>4. ~new => \E a \in 1..Len(cells) :
          cells[a].class = "array" /\ (CompleteIn(cells, a) => CompleteIn(cells, i))
    BY <1>4, <2>1, <2>3
  <2>5. walk' = [for |-> "llvm", left |-> i, right |-> r, start |-> start, same |-> new]
    BY <1>4, <1>10, <2>1 DEF Inside, IsArray
  <2>6. new \in BOOLEAN
    OBVIOUS
  <2> HIDE DEF i, new
  <2>7. WalkOK(cells', walk', outcome')
    <3>1. WalkOK(cells, walk', "gen")
      BY <2>2, <2>4, <2>5, <2>6 DEF WalkOK
    <3> QED
      BY <1>1, <1>2, <1>10, <3>1
  <2>8. EndsOK(cells', outcome', stores', unchecked') /\ outcome' \in Outcomes
    BY <1>2, <1>10 DEF EndsOK, Outcomes
  <2>9. StoresOK(cells', walk', outcome', stores')
    BY <1>2, <1>9, <1>10
  <2> QED
    BY <1>8, <2>7, <2>8, <2>9 DEF IInv
<1>11. CASE walk' = NoWalk /\ UNCHANGED outcome
  <2>1. WalkOK(cells', walk', outcome') /\ EndsOK(cells', outcome', stores', unchecked')
    BY <1>2, <1>11 DEF WalkOK, EndsOK
  <2>2. StoresOK(cells', walk', outcome', stores') /\ outcome' \in Outcomes
    BY <1>2, <1>9, <1>11 DEF Outcomes
  <2> QED
    BY <1>8, <2>1, <2>2 DEF IInv
<1>12. CASE l = Null /\ ~same /\ walk' = NoWalk /\ outcome' = "crash"
  <2>1. \E a \in 1..Len(cells) : cells[a].class = "array" /\ ~CompleteIn(cells, a)
    BY <1>4, <1>5, <1>12, NullIncomplete
  <2>2. WalkOK(cells', walk', outcome') /\ EndsOK(cells', outcome', stores', unchecked')
    BY <1>1, <1>12, <2>1 DEF WalkOK, EndsOK
  <2>3. StoresOK(cells', walk', outcome', stores') /\ outcome' \in Outcomes
    BY <1>9, <1>12 DEF Outcomes
  <2> QED
    BY <1>8, <2>2, <2>3 DEF IInv
<1> QED
  BY <1>7, <1>10, <1>11, <1>12

\* A value in an unchecked place.
LEMMA GenUncheckedIInv ==
  ASSUME IInv, GenUnchecked
  PROVE  IInv'
<1>1. /\ outcome = "gen" /\ walk = NoWalk
      /\ UNCHANGED <<cells, late, results, stores, walk, outcome, next>>
  BY DEF GenUnchecked, Idle
<1>2. PICK e \in Expressions, t \in {Null, 1} :
        unchecked' = unchecked \union {[type |-> t, value |-> e]}
  BY DEF GenUnchecked
<1>3. e \in Expression
  BY ExpressionFacts DEF Expression
<1>4. unchecked' \subseteq Place
  BY <1>2, <1>3 DEF IInv, Place
<1>5. EndsOK(cells', outcome', stores', unchecked')
  BY <1>1 DEF EndsOK
<1> QED
  BY <1>1, <1>4, <1>5 DEF IInv, Addresses

\* The verifier accepts all but values of unknown type, and those in places
\* that sem() has not looked at.
LEMMA GenEndIInv ==
  ASSUME IInv, GenEnd
  PROVE  IInv'
<1>1. /\ outcome = "gen" /\ walk = NoWalk
      /\ outcome' = IF (\A s \in stores : Fits(s)) /\ (\A u \in unchecked : FitsThere(u))
                      THEN "compiled" ELSE "bad IR"
      /\ UNCHANGED <<cells, late, results, stores, unchecked, walk, next>>
  BY DEF GenEnd, Idle, program
<1>2. \A s \in stores : StoreIn(cells, s) /\ Fine(cells, s)
  BY <1>1, AtGen
<1>3. outcome' = "bad IR" =>
        \/ \E s \in stores : ~s.value.known /\ ~FitsIn(cells, s)
        \/ \E u \in unchecked : ~FitsThereIn(cells, u)
  <2>1. \A s \in stores : s.value.known => Fits(s)
    BY <1>2, FineFits
  <2> QED
    BY <1>1, <2>1, FitsInCells
<1>4. EndsOK(cells', outcome', stores', unchecked')
  BY <1>1, <1>3 DEF EndsOK
<1>5. WalkOK(cells', walk', outcome') /\ StoresOK(cells', walk', outcome', stores')
  BY <1>1, <1>2 DEF WalkOK, StoresOK
<1> QED
  BY <1>1, <1>4, <1>5 DEF IInv, Outcomes, Addresses

-----------------------------------------------------------------------------
(* Every step, and what follows.                                           *)

\* No step breaks the invariant.
LEMMA NextIInv ==
  IInv /\ [Next]_vars => IInv'
<1> SUFFICES ASSUME IInv, [Next]_vars PROVE IInv'
  OBVIOUS
<1>1. CASE MutableDef
  BY <1>1, MutableDefIInv
<1>2. CASE MutableArrayDef
  BY <1>2, MutableArrayDefIInv
<1>3. CASE Deref
  BY <1>3, DerefIInv
<1>4. CASE Index
  BY <1>4, IndexIInv
<1>5. CASE Compare
  BY <1>5, CompareIInv
<1>6. CASE Assign
  BY <1>6, AssignIInv
<1>7. CASE EqualStep
  BY <1>7, EqualStepIInv
<1>8. CASE EndSem
  BY <1>8, EndSemIInv
<1>9. CASE GenDefinition
  BY <1>9, GenDefinitionIInv
<1>10. CASE LLVMStep
  BY <1>10, LLVMStepIInv
<1>11. CASE GenEnd
  BY <1>11, GenEndIInv
<1>12. CASE FunctionSem
  BY <1>12, FunctionSemIInv
<1>13. CASE FunctionDecl
  BY <1>13, FunctionDeclIInv
<1>14. CASE GenUnchecked
  BY <1>14, GenUncheckedIInv
<1>15. CASE UNCHANGED vars
  BY <1>15 DEF vars, program, IInv, Addresses
<1> QED
  BY <1>1, <1>2, <1>3, <1>4, <1>5, <1>6, <1>7, <1>8, <1>9, <1>10, <1>11, <1>12, <1>13,
     <1>14, <1>15 DEF Next

\* Types become more, or complete, and nothing else.
LEMMA NextGrows ==
  ASSUME IInv, Next
  PROVE  cells' = cells \/ Grows(cells, cells')
<1>1. CASE MutableDef
  BY <1>1, MutableDefIInv
<1>2. CASE MutableArrayDef
  BY <1>2, MutableArrayDefIInv
<1>3. CASE Assign
  BY <1>3, AssignIInv
<1>4. CASE FunctionSem
  BY <1>4, FunctionSemIInv
<1>5. CASE FunctionDecl
  BY <1>5, FunctionDeclIInv
<1>6. CASE \/ Deref \/ Index \/ Compare \/ EqualStep \/ EndSem \/ GenDefinition
           \/ LLVMStep \/ GenUnchecked \/ GenEnd
  BY <1>6 DEF Deref, Index, Compare, EqualStep, EndSem, GenDefinition, LLVMStep, GenUnchecked,
              GenEnd, program
<1> QED
  BY <1>1, <1>2, <1>3, <1>4, <1>5, <1>6 DEF Next

\* A type invariant.
LEMMA IInvTypeOK ==
  IInv => TypeOK
<1> SUFFICES ASSUME IInv PROVE TypeOK
  OBVIOUS
<1>1. Heap(cells) /\ late \subseteq Addresses /\ outcome \in Outcomes
      /\ next \in Len(Basic) + 1..MaxCells + 1 /\ \A s \in stores : StoreIn(cells, s)
  BY DEF IInv, StoresOK
<1>2. ASSUME NEW p \in Addresses
      PROVE  /\ cells[p].class \in {"int", "ref", "array"}
             /\ Inside(p) \in 0..Len(cells)
             /\ IsArray(p) => Inside(p) # Null /\ IsRef(Inside(p))
  <2>1. p \in 1..Len(cells) /\ p # Null /\ cells \in Seq(Cells)
    BY <1>1 DEF Addresses, Heap, Null
  <2>2. cells[p] \in Cells
    BY <2>1
  <2>3. /\ cells[p].inside \in 0..Len(cells)
        /\ cells[p].class = "array" =>
             cells[p].inside # Null /\ cells[cells[p].inside].class = "ref"
    BY <1>1, <2>1 DEF Heap
  <2> QED
    BY <2>1, <2>2, <2>3 DEF Cells, Inside, IsArray, IsRef, Class
<1>3. /\ stores \subseteq Assignment /\ unchecked \subseteq Place
      /\ results \subseteq {p \in Addresses : IsRef(p)}
  <2>1. \A x \in results : x \in Addresses /\ x # Null /\ cells[x].class = "ref"
    BY <1>1 DEF IInv, ResultsOK, Addresses, Null, Heap
  <2> QED
    BY <1>1, <2>1 DEF StoreIn, IInv, IsRef, Class
<1>4. walk.for \in {"none", "equal", "llvm"}
  BY DEF IInv, WalkOK, NoWalk
<1>5. Len(cells) <= MaxCells
  BY <1>1 DEF Heap
<1> QED
  BY <1>1, <1>2, <1>3, <1>4, <1>5 DEF TypeOK, Outcomes

\* What was stored fits.
LEMMA IInvStoresFit ==
  IInv => StoresFit
<1> SUFFICES ASSUME IInv, Idle, outcome # "rejected", NEW s \in stores, s.value.known
             PROVE  Fits(s)
  BY DEF StoresFit
<1>1. ~Pending(cells, walk, s)
  BY DEF Pending, Idle, NoWalk
<1>2. Fine(cells, s)
  BY <1>1 DEF IInv, StoresOK
<1> QED
  BY <1>2, FineFits

\* The two ends that sem() does not prevent.
LEMMA IInvAcceptedCompiles ==
  IInv => AcceptedCompiles
<1> SUFFICES ASSUME IInv PROVE AcceptedCompiles
  OBVIOUS
<1>1. EndsOK(cells, outcome, stores, unchecked) /\ Heap(cells)
  BY DEF IInv
<1>2. outcome = "crash" => \E p \in Addresses : IsArray(p) /\ ~Complete(p)
  <2>1. \A a \in 1..Len(cells) : a # Null
    BY <1>1 DEF Null, Heap
  <2> QED
    BY <1>1, <2>1, InCells DEF EndsOK, Addresses, IsArray, Class
<1> QED
  BY <1>1, <1>2, FitsInCells DEF EndsOK, AcceptedCompiles

\* What equal types are, in one state and the next.
LEMMA SameInCells ==
  \A x, y : SameType(x, y) = SameIn(cells, x, y)
BY InCells

\* And after a step.
LEMMA SameInPrimed ==
  (\A x, y : SameType(x, y) = SameIn(cells, x, y))'
BY SameInCells, PTL

\* Of each step: what equal_types() says is true, and stays true.
LEMMA StepEqual ==
  ASSUME IInv, Next
  PROVE  /\ walk.for = "equal" /\ walk'.for = "none"
              => ((outcome' = "sem") <=> SameType(walk.start[1], walk.start[2]))
         /\ cells' # cells =>
              \A p, q \in Addresses : SameType(p, q) => SameType(p, q)'
<1>1. ASSUME walk.for = "equal", walk'.for = "none"
      PROVE  (outcome' = "sem") <=> SameType(walk.start[1], walk.start[2])
  <2>1. EqualStep
    <3>1. ~Idle
      BY <1>1 DEF Idle, NoWalk
    <3> QED
      BY <1>1, <3>1 DEF Next, MutableDef, MutableArrayDef, Room, Deref, Index, Compare,
                        Assign, FunctionSem, FunctionDecl, CanSem, EndSem, GenDefinition,
                        LLVMStep, GenUnchecked, GenEnd
  <2>2. outcome = "sem"
    BY <1>1, InWalk
  <2>3. \/ outcome' = "rejected" /\ ~SameIn(cells, walk.start[1], walk.start[2])
        \/ outcome' = "sem" /\ SameIn(cells, walk.start[1], walk.start[2])
    BY <1>1, <2>1, <2>2, EqualStepFacts DEF Rejected
  <2> QED
    BY <2>3, InCells
<1>2. ASSUME cells' # cells, NEW p \in Addresses, NEW q \in Addresses, SameType(p, q)
      PROVE  SameType(p, q)'
  <2>1. Grows(cells, cells')
    BY <1>2, NextGrows
  <2>2. p \in Places(cells) /\ q \in Places(cells)
    BY DEF IInv, Heap, Addresses, Places
  <2>3. SameIn(cells, p, q)
    BY <1>2, InCells
  <2>4. SameIn(cells', p, q)
    BY <2>1, <2>2, <2>3, SameKept
  <2> QED
    BY <2>4, SameInPrimed
<1> QED
  BY <1>1, <1>2

-----------------------------------------------------------------------------
(* Theorems.                                                               *)

\* The invariant holds in every behaviour.
LEMMA AlwaysIInv ==
  FairSpec => []IInv
BY InitIInv, NextIInv, PTL DEF FairSpec

\* setType() completes types in place and they stay types: what is in an array
\* is always a ref, and no address is outside of the heap.
THEOREM TypesAlwaysTypes ==
  FairSpec => []TypeOK
BY AlwaysIInv, IInvTypeOK, PTL

\* What sem() of := accepted fits the reference at the end, and what decl()
\* accepted fits the result of the function, whatever was completed since it was
\* compared, and whatever types contain themselves.
THEOREM StoresAlwaysFit ==
  FairSpec => []StoresFit
BY AlwaysIInv, IInvStoresFit, PTL

\* Generated code is not well typed only where a value of unknown type was
\* assigned or returned, or a value is in a place that sem() does not look at
\* and has not the type that is needed; getLLVMType() fails only for an array
\* without a type.
THEOREM AcceptedAlwaysCompiles ==
  FairSpec => []AcceptedCompiles
BY AlwaysIInv, IInvAcceptedCompiles, PTL

\* When equal_types() answers, it answers what it should, dimensions included,
\* and no later := makes equal types different.
THEOREM EqualStaysEqual ==
  FairSpec => EqualForEver
<1> DEFINE A == /\ walk.for = "equal" /\ walk'.for = "none"
                    => ((outcome' = "sem") <=> SameType(walk.start[1], walk.start[2]))
                /\ cells' # cells =>
                     \A p, q \in Addresses : SameType(p, q) => SameType(p, q)'
<1>1. IInv /\ [Next]_vars => [A]_vars
  BY StepEqual
<1> QED
  BY <1>1, AlwaysIInv, PTL DEF FairSpec, EqualForEver
=============================================================================
