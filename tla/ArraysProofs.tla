---------------------------- MODULE ArraysProofs -----------------------------
(***************************************************************************)
(* The layout of arrays is right, and the heap implements a store of       *)
(* arrays, for any number of arrays, of dimensions, and of elements.       *)
(***************************************************************************)
EXTENDS Arrays, FiniteSetTheorems, FunctionTheorems, WellFoundedInduction, TLAPS

-----------------------------------------------------------------------------
(* Recursive functions.                                                    *)

\* A set of numbers has a least one.
LEMMA Least ==
  ASSUME NEW S \in SUBSET Nat, S # {}
  PROVE  \E n \in S : \A m \in S : n <= m
<1>1. PICK n \in S : \A m \in S : <<m, n>> \notin OpToRel(<, Nat)
  BY NatLessThanWellFounded, WFMin
<1>2. \A m \in S : ~ (m < n)
  BY <1>1 DEF OpToRel
<1> QED
  BY <1>2

\* Induction from the last to the first.
LEMMA Downward ==
  ASSUME NEW n \in Nat, n # 0, NEW S, n \in S, \A i \in 1..n - 1 : i + 1 \in S => i \in S
  PROVE  1..n \subseteq S
<1> DEFINE X == {k \in Nat : k < n /\ n - k \notin S}
<1>1. X = {}
  <2> SUFFICES ASSUME X # {} PROVE FALSE
    OBVIOUS
  <2>1. PICK k \in X : \A j \in X : k <= j
    <3>1. X \in SUBSET Nat
      OBVIOUS
    <3> HIDE DEF X
    <3> QED
      BY <3>1, Least
  <2>2. k \in Nat /\ k < n /\ n - k \notin S
    BY <2>1
  <2>3. k # 0
    <3>1. n - 0 = n
      OBVIOUS
    <3> QED
      BY <2>2, <3>1
  <2>4. /\ k - 1 \in Nat /\ k - 1 < n /\ ~(k <= k - 1) /\ n - k \in 1..n - 1
        /\ (n - k) + 1 = n - (k - 1)
    BY <2>2, <2>3
  <2>5. n - (k - 1) \in S
    BY <2>1, <2>4
  <2> HIDE DEF X
  <2> QED
    BY <2>2, <2>4, <2>5
<1>2. ASSUME NEW i \in 1..n PROVE i \in S
  <2>1. n - i \in Nat /\ n - i < n /\ n - (n - i) = i
    OBVIOUS
  <2>2. n - i \notin X
    BY <1>1
  <2> QED
    BY <2>1, <2>2
<1> QED
  BY <1>2

\* What makes a number from a number, in each of n rounds.
Rounds(n) == [1..n -> [Nat -> Nat]]

\* The numbers that the rounds s make, each from the one before.
Iterated(n, c, s, f) ==
  f \in [0..n -> Nat] /\ f[0] = c /\ \A k \in 1..n : f[k] = s[k][f[k - 1]]

\* There are such numbers.
LEMMA Iterate ==
  ASSUME NEW n \in Nat, NEW c \in Nat, NEW s \in Rounds(n)
  PROVE  \E f : Iterated(n, c, s, f)
<1> USE DEF Rounds
<1> DEFINE Run(m, f) == f[0] = c /\ \A k \in 1..m : f[k] = s[k][f[k - 1]]
           X == {m \in Nat : m <= n /\ ~ \E f \in [0..m -> Nat] : Run(m, f)}
<1>1. X = {}
  <2> SUFFICES ASSUME X # {} PROVE FALSE
    OBVIOUS
  <2>1. PICK m \in X : \A j \in X : m <= j
    <3>1. X \in SUBSET Nat
      OBVIOUS
    <3> HIDE DEF X
    <3> QED
      BY <3>1, Least
  <2>2. m \in Nat /\ m <= n /\ ~ \E f \in [0..m -> Nat] : Run(m, f)
    BY <2>1
  <2> HIDE DEF X, Run
  <2>3. CASE m = 0
    <3> DEFINE f == [k \in 0..m |-> c]
    <3>1. f \in [0..m -> Nat]
      OBVIOUS
    <3>2. f[0] = c /\ 1..m = {}
      BY <2>3
    <3>3. Run(m, f)
      BY <3>2 DEF Run
    <3> QED
      BY <2>2, <3>1, <3>3
  <2>4. CASE m # 0
    <3>1. m - 1 \in Nat /\ m - 1 <= n /\ ~(m <= m - 1) /\ m \in 1..n
      BY <2>2, <2>4
    <3>2. m - 1 \notin X
      BY <2>1, <3>1
    <3>3. PICK g \in [0..m - 1 -> Nat] : Run(m - 1, g)
      BY <3>1, <3>2 DEF X
    <3> DEFINE f == [k \in 0..m |-> IF k = m THEN s[m][g[m - 1]] ELSE g[k]]
    <3>4. g[m - 1] \in Nat /\ s[m][g[m - 1]] \in Nat
      <4>1. m - 1 \in 0..m - 1
        BY <3>1
      <4>2. g[m - 1] \in Nat
        BY <3>3, <4>1
      <4> QED
        BY <3>1, <4>2
    <3>5. f \in [0..m -> Nat]
      <4>1. \A k \in 0..m : k # m => k \in 0..m - 1
        BY <2>2
      <4> QED
        BY <3>3, <3>4, <4>1
    <3>6. f[m] = s[m][g[m - 1]] /\ \A k \in 0..m - 1 : f[k] = g[k]
      BY <2>2, <3>1
    <3> HIDE DEF f
    <3>7. f[0] = c
      <4>1. 0 \in 0..m - 1
        BY <3>1
      <4> QED
        BY <3>3, <3>6, <4>1 DEF Run
    <3>8. ASSUME NEW k \in 1..m PROVE f[k] = s[k][f[k - 1]]
      <4>1. k - 1 \in 0..m - 1
        BY <2>2
      <4>4. f[k - 1] = g[k - 1]
        BY <3>6, <4>1
      <4>2. CASE k = m
        BY <3>6, <4>4, <4>2
      <4>3. CASE k # m
        <5>1. k \in 1..m - 1 /\ k \in 0..m - 1
          BY <2>2, <4>3
        <5> QED
          BY <3>3, <3>6, <4>4, <5>1 DEF Run
      <4> QED
        BY <4>2, <4>3
    <3> QED
      BY <2>2, <3>5, <3>7, <3>8 DEF Run
  <2> QED
    BY <2>3, <2>4
<1>2. \E f \in [0..n -> Nat] : Run(n, f)
  <2>1. n \notin X /\ n <= n
    <3> HIDE DEF X
    <3> QED
      BY <1>1
  <2> HIDE DEF Run
  <2> QED
    BY <2>1
<1> QED
  BY <1>2 DEF Run, Iterated

\* The numbers that the rounds s make, from the last to the first.
Made(n, c, s, f) ==
  f \in [1..n -> Nat] /\ f[n] = c /\ \A i \in 1..n - 1 : f[i] = s[i][f[i + 1]]

\* The same from the last to the first.
LEMMA IterateDown ==
  ASSUME NEW n \in Nat, n # 0, NEW c \in Nat, NEW s \in Rounds(n)
  PROVE  \E f : Made(n, c, s, f)
<1> USE DEF Rounds
<1> DEFINE t == [k \in 1..n - 1 |-> s[n - k]]
<1>1. t \in [1..n - 1 -> [Nat -> Nat]]
  <2>1. \A k \in 1..n - 1 : n - k \in 1..n
    OBVIOUS
  <2> QED
    BY <2>1
<1>2. \A k \in 1..n - 1 : \A x \in Nat : t[k][x] = s[n - k][x]
  OBVIOUS
<1>3. n - 1 \in Nat
  OBVIOUS
<1> HIDE DEF t
<1>4. PICK g \in [0..n - 1 -> Nat] : g[0] = c /\ \A k \in 1..n - 1 : g[k] = t[k][g[k - 1]]
  <2>1. \E g : Iterated(n - 1, c, t, g)
    <3>1. c \in Nat /\ t \in Rounds(n - 1)
      BY <1>1
    <3> HIDE DEF Rounds
    <3> QED
      BY ONLY <1>3, <3>1, Iterate
  <2> QED
    BY <2>1 DEF Iterated
<1> DEFINE f == [i \in 1..n |-> g[n - i]]
<1>5. f \in [1..n -> Nat]
  <2>1. \A i \in 1..n : n - i \in 0..n - 1
    OBVIOUS
  <2> QED
    BY <1>4, <2>1
<1>6. f[n] = c
  <2>1. n \in 1..n /\ n - n = 0
    OBVIOUS
  <2>2. f[n] = g[n - n]
    BY <2>1
  <2> QED
    BY <1>4, <2>1, <2>2
<1>7. ASSUME NEW i \in 1..n - 1 PROVE f[i] = s[i][f[i + 1]]
  <2> DEFINE k == n - i
  <2>1. k \in 1..n - 1 /\ n - k = i /\ n - (i + 1) = k - 1 /\ k - 1 \in 0..n - 1
        /\ i \in 1..n /\ i + 1 \in 1..n
    OBVIOUS
  <2>2. f[i] = g[k] /\ f[i + 1] = g[k - 1]
    BY <2>1
  <2>3. g[k - 1] \in Nat
    BY <1>4, <2>1
  <2> HIDE DEF f, k
  <2> QED
    BY <1>2, <1>4, <2>1, <2>2, <2>3
<1> QED
  BY <1>5, <1>6, <1>7 DEF Made

-----------------------------------------------------------------------------
(* Offsets.                                                                *)

\* Dimensions: at least one.
Sized(dims) == dims \in Seq(Nat) /\ dims # <<>>

\* The products of the dimensions after each.
Strides(dims, M) ==
  /\ M \in [1..Len(dims) -> Nat] /\ M[Len(dims)] = 1
  /\ \A i \in 1..Len(dims) - 1 : M[i] = M[i + 1] * dims[i + 1]

\* The sums from each index to the last.
Sums(dims, M, idx, A) ==
  /\ A \in [1..Len(dims) -> Nat] /\ A[Len(dims)] = idx[Len(dims)]
  /\ \A i \in 1..Len(dims) - 1 : A[i] = A[i + 1] + M[i] * idx[i]

\* In heap h the struct has the dimensions where an index expression looks for
\* them.
Reads(h, struct, dims) == \A k \in 1..Len(dims) : h[struct + (k + 1)] = dims[k]

\* What the index expression computes there: Offset, of any heap.
OffsetIn(h, struct, idx) ==
  LET n == Len(idx)
      mulTemp[i \in 1..n] == IF i = n THEN 1 ELSE mulTemp[i + 1] * h[struct + (i + 2)]
      accessEl[i \in 1..n] ==
        IF i = n THEN idx[n] ELSE accessEl[i + 1] + mulTemp[i] * idx[i]
  IN accessEl[1]

\* The product of two numbers is a number.
LEMMA Times == \A a, b \in Nat : a * b \in Nat
OBVIOUS

\* Indices are numbers below the dimensions.
LEMMA IndicesMean ==
  ASSUME NEW dims, Sized(dims)
  PROVE  /\ Len(dims) \in Nat /\ Len(dims) # 0 /\ dims \in [1..Len(dims) -> Nat]
         /\ Indices(dims) = {idx \in [1..Len(dims) -> Nat] :
                               \A d \in 1..Len(dims) : idx[d] < dims[d]}
         /\ \A idx \in Indices(dims) : Len(idx) = Len(dims)
<1> DEFINE n == Len(dims)
           all == UNION {0..dims[d] - 1 : d \in DOMAIN dims}
<1>1. n \in Nat /\ n # 0 /\ dims \in [1..n -> Nat] /\ DOMAIN dims = 1..n
  BY DEF Sized
<1>2. ASSUME NEW idx
      PROVE  idx \in Indices(dims) <=>
               idx \in [1..n -> Nat] /\ \A d \in 1..n : idx[d] < dims[d]
  <2>1. ASSUME idx \in Indices(dims)
        PROVE  idx \in [1..n -> Nat] /\ \A d \in 1..n : idx[d] < dims[d]
    <3>1. idx \in [1..n -> all] /\ \A d \in 1..n : idx[d] < dims[d]
      BY <1>1, <2>1 DEF Indices
    <3>2. \A x \in all : x \in Nat
      BY <1>1
    <3> QED
      BY <3>1, <3>2
  <2>2. ASSUME idx \in [1..n -> Nat], \A d \in 1..n : idx[d] < dims[d]
        PROVE  idx \in Indices(dims)
    <3>1. \A d \in 1..n : idx[d] \in 0..dims[d] - 1
      BY <1>1, <2>2
    <3>2. \A d \in 1..n : idx[d] \in all
      BY <1>1, <3>1
    <3> HIDE DEF all
    <3>3. idx \in [1..n -> all]
      BY <2>2, <3>2
    <3> QED
      BY <1>1, <2>2, <3>3 DEF Indices, all
  <2> QED
    BY <2>1, <2>2
<1>3. \A idx \in Indices(dims) : Len(idx) = n
  <2> SUFFICES ASSUME NEW idx \in Indices(dims) PROVE Len(idx) = n
    OBVIOUS
  <2>1. idx \in [1..n -> Nat]
    BY <1>2
  <2> HIDE DEF n
  <2> QED
    BY <1>1, <2>1
<1> HIDE DEF n
<1> QED
  BY <1>1, <1>2, <1>3 DEF n

\* Every shape has strides.
LEMMA StridesExist ==
  ASSUME NEW dims, Sized(dims)
  PROVE  \E M : Strides(dims, M)
<1> DEFINE n == Len(dims)
           s == [i \in 1..n |-> [x \in Nat |-> IF i = n THEN x ELSE x * dims[i + 1]]]
           one == 1
<1>1. n \in Nat /\ n # 0 /\ one \in Nat /\ dims \in [1..n -> Nat]
  BY IndicesMean
<1> HIDE DEF n
<1>2. \A i \in 1..n - 1 : i + 1 \in 1..n /\ i \in 1..n /\ i # n
  BY <1>1
<1>3. s \in Rounds(n)
  <2>1. \A i \in 1..n : \A x \in Nat : (IF i = n THEN x ELSE x * dims[i + 1]) \in Nat
    <3>1. \A i \in 1..n : i # n => i \in 1..n - 1
      BY <1>1
    <3> QED
      BY <1>1, <1>2, <3>1, Times
  <2> QED
    BY <2>1 DEF Rounds
<1>4. \A i \in 1..n - 1 : \A x \in Nat : s[i][x] = x * dims[i + 1]
  BY <1>1, <1>2
<1> HIDE DEF s
<1>5. PICK f : Made(n, one, s, f)
  <2> HIDE DEF one
  <2> QED
    BY ONLY <1>1, <1>3, IterateDown
<1>6. f \in [1..n -> Nat] /\ f[n] = 1 /\ \A i \in 1..n - 1 : f[i] = f[i + 1] * dims[i + 1]
  BY <1>2, <1>4, <1>5 DEF Made
<1> QED
  BY <1>6 DEF Strides, n

\* The two variables of the loop are strides and sums.
LEMMA OffsetSums ==
  ASSUME NEW h, NEW struct, NEW dims, Sized(dims), Reads(h, struct, dims),
         NEW idx \in Indices(dims)
  PROVE  \E M, A : Strides(dims, M) /\ Sums(dims, M, idx, A) /\ OffsetIn(h, struct, idx) = A[1]
<1> DEFINE n == Len(dims)
<1>1. n \in Nat /\ n # 0 /\ dims \in [1..n -> Nat] /\ idx \in [1..n -> Nat] /\ Len(idx) = n
  BY IndicesMean
<1>2. \A i \in 1..n - 1 : i + 1 \in 1..n /\ i \in 1..n /\ h[struct + (i + 2)] = dims[i + 1]
  <2>1. \A i \in 1..n - 1 : i + 1 \in 1..n /\ i \in 1..n /\ (i + 1) + 1 = i + 2
    BY <1>1
  <2> QED
    BY <2>1 DEF Reads
<1> HIDE DEF n
<1> DEFINE Mul(f) == [i \in 1..n |-> IF i = n THEN 1 ELSE f[i + 1] * h[struct + (i + 2)]]
           Mf == CHOOSE f : f = Mul(f)
           Acc(f) == [i \in 1..n |-> IF i = n THEN idx[n] ELSE f[i + 1] + Mf[i] * idx[i]]
           Af == CHOOSE f : f = Acc(f)
<1>3. OffsetIn(h, struct, idx) = Af[1]
  BY <1>1 DEF OffsetIn
<1>4. Mf = Mul(Mf)
  <2>1. PICK f : Strides(dims, f)
    BY StridesExist
  <2>2. f \in [1..n -> Nat] /\ f[n] = 1 /\ \A i \in 1..n - 1 : f[i] = f[i + 1] * dims[i + 1]
    BY <2>1 DEF Strides, n
  <2>3. \A i \in 1..n : f[i] = IF i = n THEN 1 ELSE f[i + 1] * h[struct + (i + 2)]
    <3>1. \A i \in 1..n : i # n => i \in 1..n - 1
      BY <1>1
    <3> QED
      BY <1>2, <2>2, <3>1
  <2>4. f = Mul(f)
    BY <2>2, <2>3
  <2> HIDE DEF Mul
  <2> QED
    BY <2>4
<1> HIDE DEF Mf
<1>5. /\ Mf[n] = 1 /\ \A i \in 1..n - 1 : Mf[i] = Mf[i + 1] * dims[i + 1]
      /\ DOMAIN Mf = 1..n
  <2>1. \A i \in 1..n : Mf[i] = IF i = n THEN 1 ELSE Mf[i + 1] * h[struct + (i + 2)]
    BY <1>4
  <2>2. n \in 1..n /\ \A i \in 1..n - 1 : i # n
    BY <1>1
  <2>3. DOMAIN Mf = 1..n
    BY <1>4
  <2> HIDE DEF Mul
  <2> QED
    BY <1>2, <2>1, <2>2, <2>3
<1>6. Mf \in [1..n -> Nat]
  <2> DEFINE S == {i \in 1..n : Mf[i] \in Nat}
  <2>1. n \in S
    BY <1>1, <1>5
  <2>2. \A i \in 1..n - 1 : i + 1 \in S => i \in S
    BY <1>1, <1>2, <1>5, Times
  <2>3. 1..n \subseteq S
    <3> HIDE DEF S
    <3> QED
      BY <1>1, <2>1, <2>2, Downward
  <2>4. Mf = [i \in 1..n |-> Mf[i]]
    BY <1>4
  <2> QED
    BY <2>3, <2>4
<1>7. Strides(dims, Mf)
  BY <1>5, <1>6 DEF Strides, n
<1>8. Af = Acc(Af)
  <2> DEFINE s == [i \in 1..n |-> [x \in Nat |-> x + Mf[i] * idx[i]]]
  <2>1. s \in Rounds(n)
    <3>1. \A i \in 1..n : Mf[i] * idx[i] \in Nat
      BY <1>1, <1>6, Times
    <3>2. \A i \in 1..n : \A x \in Nat : x + Mf[i] * idx[i] \in Nat
      BY <3>1
    <3> QED
      BY <3>2 DEF Rounds
  <2>2. \A i \in 1..n - 1 : \A x \in Nat : s[i][x] = x + Mf[i] * idx[i]
    BY <1>1, <1>2
  <2> HIDE DEF s
  <2>3. PICK f \in [1..n -> Nat] : f[n] = idx[n] /\ \A i \in 1..n - 1 : f[i] = s[i][f[i + 1]]
    <3>1. n \in Nat /\ n # 0 /\ idx[n] \in Nat
      BY <1>1
    <3>2. \E f : Made(n, idx[n], s, f)
      BY ONLY <2>1, <3>1, IterateDown
    <3> QED
      BY <3>2 DEF Made
  <2>4. \A i \in 1..n - 1 : f[i] = f[i + 1] + Mf[i] * idx[i]
    BY <1>2, <2>2, <2>3
  <2>5. \A i \in 1..n : f[i] = IF i = n THEN idx[n] ELSE f[i + 1] + Mf[i] * idx[i]
    <3>1. \A i \in 1..n : i # n => i \in 1..n - 1
      BY <1>1
    <3> QED
      BY <2>3, <2>4, <3>1
  <2>6. f = Acc(f)
    BY <2>3, <2>5
  <2> HIDE DEF Acc
  <2> QED
    BY <2>6
<1> HIDE DEF Af
<1>9. /\ Af[n] = idx[n] /\ \A i \in 1..n - 1 : Af[i] = Af[i + 1] + Mf[i] * idx[i]
  <2>1. \A i \in 1..n : Af[i] = IF i = n THEN idx[n] ELSE Af[i + 1] + Mf[i] * idx[i]
    BY <1>8
  <2>2. n \in 1..n /\ \A i \in 1..n - 1 : i # n
    BY <1>1
  <2> HIDE DEF Acc
  <2> QED
    BY <1>2, <2>1, <2>2
<1>10. Af \in [1..n -> Nat]
  <2> DEFINE S == {i \in 1..n : Af[i] \in Nat}
  <2>1. n \in S
    BY <1>1, <1>9
  <2>2. \A i \in 1..n - 1 : i + 1 \in S => i \in S
    <3>1. \A i \in 1..n - 1 : Mf[i] * idx[i] \in Nat
      BY <1>1, <1>2, <1>6, Times
    <3>2. \A i \in 1..n - 1 : i \in 1..n /\ Af[i] = Af[i + 1] + Mf[i] * idx[i]
      BY <1>2, <1>9
    <3> QED
      BY <3>1, <3>2
  <2>3. 1..n \subseteq S
    <3> HIDE DEF S
    <3> QED
      BY <1>1, <2>1, <2>2, Downward
  <2>4. Af = [i \in 1..n |-> Af[i]]
    BY <1>8
  <2> HIDE DEF Acc
  <2> QED
    BY <2>3, <2>4
<1>11. Sums(dims, Mf, idx, Af)
  BY <1>9, <1>10 DEF Sums, n
<1> QED
  BY <1>3, <1>7, <1>11

\* Induction from the first to the last.
LEMMA Upward ==
  ASSUME NEW n \in Nat, n # 0, NEW S, 1 \in S, \A i \in 1..n - 1 : i \in S => i + 1 \in S
  PROVE  1..n \subseteq S
<1> DEFINE T == {i \in 1..n : (n + 1) - i \in S}
<1>1. n \in T
  <2>1. (n + 1) - n = 1 /\ n \in 1..n
    OBVIOUS
  <2> QED
    BY <2>1
<1>2. \A i \in 1..n - 1 : i + 1 \in T => i \in T
  <2> SUFFICES ASSUME NEW i \in 1..n - 1, i + 1 \in T PROVE i \in T
    OBVIOUS
  <2> DEFINE j == (n + 1) - (i + 1)
  <2>1. j \in 1..n - 1 /\ j \in S /\ j + 1 = (n + 1) - i /\ i \in 1..n
    OBVIOUS
  <2> HIDE DEF j
  <2> QED
    BY <2>1
<1>3. 1..n \subseteq T
  <2> HIDE DEF T
  <2> QED
    BY <1>1, <1>2, Downward
<1>4. ASSUME NEW i \in 1..n PROVE i \in S
  <2>1. (n + 1) - i \in 1..n /\ (n + 1) - ((n + 1) - i) = i
    OBVIOUS
  <2> QED
    BY <1>3, <2>1
<1> QED
  BY <1>4

\* Arithmetic of one digit: what is below m times d is a multiple of m below d
\* and a rest below m, in one way.
LEMMA DigitBelow ==
  ASSUME NEW a \in Nat, NEW m \in Nat, NEW x \in Nat, NEW d \in Nat, a < m, x < d
  PROVE  a + m * x < m * d
<1>1. m * (x + 1) <= m * d
  <2>1. PICK e \in Nat : d = (x + 1) + e
    <3>1. d - (x + 1) \in Nat /\ d = (x + 1) + (d - (x + 1))
      OBVIOUS
    <3> QED
      BY <3>1
  <2>2. m * d = m * (x + 1) + m * e
    BY <2>1
  <2>3. m * e \in Nat /\ m * (x + 1) \in Nat
    BY Times
  <2> QED
    BY <2>2, <2>3
<1>2. m * (x + 1) = m * x + m
  OBVIOUS
<1>3. m * x \in Nat /\ m * d \in Nat
  BY Times
<1> QED
  BY <1>1, <1>2, <1>3

\* It is one way only.
LEMMA DigitUnique ==
  ASSUME NEW a \in Nat, NEW b \in Nat, NEW m \in Nat, NEW x \in Nat, NEW y \in Nat,
         a < m, b < m, a + m * x = b + m * y
  PROVE  x = y /\ a = b
<1>1. m * x \in Nat /\ m * y \in Nat
  BY Times
<1>2. ~(x < y)
  <2> SUFFICES ASSUME x < y PROVE FALSE
    OBVIOUS
  <2>1. a + m * x < m * y
    BY DigitBelow
  <2> QED
    BY <1>1, <2>1
<1>3. ~(y < x)
  <2> SUFFICES ASSUME y < x PROVE FALSE
    OBVIOUS
  <2>1. b + m * y < m * x
    BY DigitBelow
  <2> QED
    BY <1>1, <2>1
<1>4. x = y
  BY <1>2, <1>3
<1> QED
  BY <1>1, <1>4

\* z is a multiple of m and a rest.
Divided(m, z) == \E q, r \in Nat : r < m /\ z = r + m * q

\* There is one way.
LEMMA DigitExists ==
  ASSUME NEW m \in Nat, NEW d \in Nat, NEW x \in Nat, x < m * d
  PROVE  \E q, r \in Nat : r < m /\ q < d /\ x = r + m * q
<1>1. m # 0
  OBVIOUS
<1> DEFINE X == {z \in Nat : ~Divided(m, z)}
<1>2. X = {}
  <2> SUFFICES ASSUME X # {} PROVE FALSE
    OBVIOUS
  <2>1. PICK z \in X : \A j \in X : z <= j
    <3>1. X \in SUBSET Nat
      OBVIOUS
    <3> HIDE DEF X
    <3> QED
      BY <3>1, Least
  <2>2. z \in Nat /\ ~Divided(m, z)
    BY <2>1
  <2>3. z # 0
    <3>1. 0 < m /\ 0 = 0 + m * 0
      BY <1>1
    <3>2. Divided(m, 0)
      BY <3>1 DEF Divided
    <3> QED
      BY <2>2, <3>2
  <2>4. z - 1 \in Nat /\ ~(z <= z - 1)
    BY <2>2, <2>3
  <2>5. Divided(m, z - 1)
    <3>1. z - 1 \notin X
      <4> HIDE DEF X
      <4> QED
        BY <2>1, <2>4
    <3> QED
      BY <2>2, <2>4, <3>1
  <2>6. PICK q \in Nat, r \in Nat : r < m /\ z - 1 = r + m * q
    BY <2>5 DEF Divided
  <2>7. m * q \in Nat
    BY Times
  <2>8. CASE r + 1 < m
    <3>1. z = (r + 1) + m * q
      BY <2>2, <2>6, <2>7
    <3>2. Divided(m, z)
      BY <2>6, <2>8, <3>1 DEF Divided
    <3> QED
      BY <2>2, <3>2
  <2>9. CASE ~(r + 1 < m)
    <3>1. m = r + 1
      BY <2>6, <2>9
    <3>2. z = m + m * q
      BY <2>2, <2>6, <2>7, <3>1
    <3>3. z = 0 + m * (q + 1) /\ 0 < m
      BY <1>1, <3>2
    <3>4. Divided(m, z)
      BY <2>6, <3>3 DEF Divided
    <3> QED
      BY <2>2, <3>4
  <2> QED
    BY <2>8, <2>9
<1>3. Divided(m, x)
  BY <1>2
<1>4. PICK q \in Nat, r \in Nat : r < m /\ x = r + m * q
  BY <1>3 DEF Divided
<1>5. q < d
  <2> SUFFICES ASSUME ~(q < d) PROVE FALSE
    OBVIOUS
  <2>1. PICK e \in Nat : q = d + e
    <3>1. q - d \in Nat /\ q = d + (q - d)
      OBVIOUS
    <3> QED
      BY <3>1
  <2>2. m * q = m * d + m * e
    BY <2>1
  <2>3. m * d \in Nat /\ m * e \in Nat
    BY Times
  <2> QED
    BY <1>4, <2>2, <2>3
<1> QED
  BY <1>4, <1>5

\* The strides are the same, whatever the indices.
LEMMA StridesUnique ==
  ASSUME NEW dims, Sized(dims), NEW M, NEW K, Strides(dims, M), Strides(dims, K)
  PROVE  M = K
<1> DEFINE n == Len(dims)
           S == {i \in 1..n : M[i] = K[i]}
<1>1. n \in Nat /\ n # 0
  BY IndicesMean
<1>2. /\ M \in [1..n -> Nat] /\ M[n] = 1 /\ \A i \in 1..n - 1 : M[i] = M[i + 1] * dims[i + 1]
      /\ K \in [1..n -> Nat] /\ K[n] = 1 /\ \A i \in 1..n - 1 : K[i] = K[i + 1] * dims[i + 1]
  BY DEF Strides
<1> HIDE DEF n
<1>3. n \in S
  BY <1>1, <1>2
<1>4. \A i \in 1..n - 1 : i + 1 \in S => i \in S
  BY <1>1, <1>2
<1>5. 1..n \subseteq S
  <2> HIDE DEF S
  <2> QED
    BY <1>1, <1>3, <1>4, Downward
<1>6. \A i \in 1..n : M[i] = K[i]
  BY <1>5
<1>7. M = [i \in 1..n |-> M[i]] /\ K = [i \in 1..n |-> K[i]]
  BY <1>2
<1> HIDE DEF S
<1> QED
  BY <1>6, <1>7

\* The sum from an index on is below the product of the dimensions from it on.
LEMMA SumsBelow ==
  ASSUME NEW dims, Sized(dims), NEW M, Strides(dims, M), NEW idx \in Indices(dims),
         NEW A, Sums(dims, M, idx, A)
  PROVE  \A i \in 1..Len(dims) : A[i] < M[i] * dims[i]
<1> DEFINE n == Len(dims)
           S == {i \in 1..n : A[i] < M[i] * dims[i]}
<1>1. /\ n \in Nat /\ n # 0 /\ dims \in [1..n -> Nat]
      /\ idx \in [1..n -> Nat] /\ \A i \in 1..n : idx[i] < dims[i]
  BY IndicesMean
<1>2. /\ M \in [1..n -> Nat] /\ M[n] = 1 /\ \A i \in 1..n - 1 : M[i] = M[i + 1] * dims[i + 1]
      /\ A \in [1..n -> Nat] /\ A[n] = idx[n]
      /\ \A i \in 1..n - 1 : A[i] = A[i + 1] + M[i] * idx[i]
  BY DEF Strides, Sums
<1> HIDE DEF n
<1>3. n \in S
  <2>1. n \in 1..n /\ idx[n] \in Nat /\ dims[n] \in Nat /\ idx[n] < dims[n]
    BY <1>1
  <2>2. M[n] * dims[n] = dims[n]
    BY <1>2, <2>1
  <2> QED
    BY <1>2, <2>1, <2>2
<1>4. \A i \in 1..n - 1 : i + 1 \in S => i \in S
  <2> SUFFICES ASSUME NEW i \in 1..n - 1, i + 1 \in S PROVE i \in S
    OBVIOUS
  <2>1. i \in 1..n /\ i + 1 \in 1..n
    BY <1>1
  <2>2. /\ A[i + 1] \in Nat /\ M[i] \in Nat /\ idx[i] \in Nat /\ dims[i] \in Nat
        /\ idx[i] < dims[i]
    BY <1>1, <1>2, <2>1
  <2>3. A[i + 1] < M[i]
    BY <1>2
  <2>4. A[i + 1] + M[i] * idx[i] < M[i] * dims[i]
    BY ONLY <2>2, <2>3, DigitBelow
  <2> QED
    BY <1>2, <2>1, <2>4
<1>5. 1..n \subseteq S
  <2> HIDE DEF S
  <2> QED
    BY <1>1, <1>3, <1>4, Downward
<1> QED
  BY <1>5 DEF n

\* An index has one sequence of sums.
LEMMA SumsSame ==
  ASSUME NEW dims, Sized(dims), NEW M, NEW idx, NEW A, NEW B,
         Sums(dims, M, idx, A), Sums(dims, M, idx, B)
  PROVE  A = B
<1> DEFINE n == Len(dims)
           S == {i \in 1..n : A[i] = B[i]}
<1>1. n \in Nat /\ n # 0
  BY IndicesMean
<1>2. /\ A \in [1..n -> Nat] /\ A[n] = idx[n]
      /\ \A i \in 1..n - 1 : A[i] = A[i + 1] + M[i] * idx[i]
      /\ B \in [1..n -> Nat] /\ B[n] = idx[n]
      /\ \A i \in 1..n - 1 : B[i] = B[i + 1] + M[i] * idx[i]
  BY DEF Sums
<1> HIDE DEF n
<1>3. n \in S
  BY <1>1, <1>2
<1>4. \A i \in 1..n - 1 : i + 1 \in S => i \in S
  BY <1>1, <1>2
<1>5. 1..n \subseteq S
  <2> HIDE DEF S
  <2> QED
    BY <1>1, <1>3, <1>4, Downward
<1>6. \A i \in 1..n : A[i] = B[i]
  BY <1>5
<1>7. A = [i \in 1..n |-> A[i]] /\ B = [i \in 1..n |-> B[i]]
  BY <1>2
<1> HIDE DEF S
<1> QED
  BY <1>6, <1>7

\* Different indices have different sums.
LEMMA SumsUnique ==
  ASSUME NEW dims, Sized(dims), NEW M, Strides(dims, M),
         NEW idx \in Indices(dims), NEW A, Sums(dims, M, idx, A),
         NEW jdx \in Indices(dims), NEW B, Sums(dims, M, jdx, B), A[1] = B[1]
  PROVE  idx = jdx
<1> DEFINE n == Len(dims)
           S == {i \in 1..n : A[i] = B[i]}
<1>1. /\ n \in Nat /\ n # 0 /\ dims \in [1..n -> Nat]
      /\ idx \in [1..n -> Nat] /\ jdx \in [1..n -> Nat]
  BY IndicesMean
<1>2. /\ M \in [1..n -> Nat] /\ \A i \in 1..n - 1 : M[i] = M[i + 1] * dims[i + 1]
      /\ A \in [1..n -> Nat] /\ A[n] = idx[n]
      /\ \A i \in 1..n - 1 : A[i] = A[i + 1] + M[i] * idx[i]
      /\ B \in [1..n -> Nat] /\ B[n] = jdx[n]
      /\ \A i \in 1..n - 1 : B[i] = B[i + 1] + M[i] * jdx[i]
  BY DEF Strides, Sums
<1>3. \A i \in 1..n : A[i] < M[i] * dims[i] /\ B[i] < M[i] * dims[i]
  BY SumsBelow
<1> HIDE DEF n
<1>4. ASSUME NEW i \in 1..n - 1, A[i] = B[i]
      PROVE  idx[i] = jdx[i] /\ A[i + 1] = B[i + 1]
  <2>1. i \in 1..n /\ i + 1 \in 1..n
    BY <1>1
  <2>2. /\ A[i + 1] \in Nat /\ B[i + 1] \in Nat /\ M[i] \in Nat
        /\ idx[i] \in Nat /\ jdx[i] \in Nat
    BY <1>1, <1>2, <2>1
  <2>3. A[i + 1] < M[i] /\ B[i + 1] < M[i]
    BY <1>2, <1>3, <2>1
  <2>4. A[i + 1] + M[i] * idx[i] = B[i + 1] + M[i] * jdx[i]
    BY <1>2, <1>4
  <2> QED
    BY ONLY <2>2, <2>3, <2>4, DigitUnique
<1>5. 1..n \subseteq S
  <2>1. 1 \in S
    BY <1>1
  <2>2. \A i \in 1..n - 1 : i \in S => i + 1 \in S
    <3>1. \A i \in 1..n - 1 : i + 1 \in 1..n
      BY <1>1
    <3> QED
      BY <1>4, <3>1
  <2> HIDE DEF S
  <2> QED
    BY <1>1, <2>1, <2>2, Upward
<1>6. \A i \in 1..n : idx[i] = jdx[i]
  <2> SUFFICES ASSUME NEW i \in 1..n PROVE idx[i] = jdx[i]
    OBVIOUS
  <2>1. A[i] = B[i]
    BY <1>5
  <2>2. CASE i = n
    BY <1>2, <2>1, <2>2
  <2>3. CASE i # n
    <3>1. i \in 1..n - 1
      BY <1>1, <2>3
    <3> QED
      BY <1>4, <2>1, <3>1
  <2> QED
    BY <2>2, <2>3
<1> QED
  BY <1>1, <1>6

\* The indices from the i-th on are below the dimensions, with sums up to x.
Reach(dims, M, i, idx, A, x) ==
  LET n == Len(dims) IN
    /\ idx \in [1..n -> Nat] /\ \A j \in i..n : idx[j] < dims[j]
    /\ A \in [1..n -> Nat] /\ A[n] = idx[n]
    /\ \A j \in i..n - 1 : A[j] = A[j + 1] + M[j] * idx[j]
    /\ A[i] = x

\* All numbers below the product of the dimensions from i on are reached.
Onto(dims, M, i) ==
  \A z \in Nat : z < M[i] * dims[i] => \E idx, A : Reach(dims, M, i, idx, A, z)

\* Every number below the product of the dimensions is the sum of an index.
LEMMA SumsOnto ==
  ASSUME NEW dims, Sized(dims), NEW M, Strides(dims, M),
         NEW x \in Nat, x < M[1] * dims[1]
  PROVE  \E idx \in Indices(dims) : \E A : Sums(dims, M, idx, A) /\ A[1] = x
<1> DEFINE n == Len(dims)
           S == {i \in 1..n : Onto(dims, M, i)}
<1>1. n \in Nat /\ n # 0 /\ dims \in [1..n -> Nat]
  BY IndicesMean
<1>2. M \in [1..n -> Nat] /\ M[n] = 1 /\ \A i \in 1..n - 1 : M[i] = M[i + 1] * dims[i + 1]
  BY DEF Strides
<1>3. \A i, idx, A, z : Reach(dims, M, i, idx, A, z) <=>
        /\ idx \in [1..n -> Nat] /\ \A j \in i..n : idx[j] < dims[j]
        /\ A \in [1..n -> Nat] /\ A[n] = idx[n]
        /\ \A j \in i..n - 1 : A[j] = A[j + 1] + M[j] * idx[j]
        /\ A[i] = z
  BY DEF Reach
<1> HIDE DEF n
<1>4. n \in S
  <2> SUFFICES ASSUME NEW z \in Nat, z < M[n] * dims[n]
               PROVE  \E idx, A : Reach(dims, M, n, idx, A, z)
    BY <1>1 DEF Onto
  <2> DEFINE f == [j \in 1..n |-> z]
  <2>1. f \in [1..n -> Nat] /\ f[n] = z /\ n..n - 1 = {}
    BY <1>1
  <2>2. z < dims[n]
    <3>1. dims[n] \in Nat /\ M[n] * dims[n] = dims[n]
      BY <1>1, <1>2
    <3> QED
      BY <3>1
  <2>3. \A j \in n..n : j = n
    BY <1>1
  <2> HIDE DEF f
  <2>4. Reach(dims, M, n, f, f, z)
    BY <1>3, <2>1, <2>2, <2>3
  <2> QED
    BY <2>4
<1>5. \A i \in 1..n - 1 : i + 1 \in S => i \in S
  <2> SUFFICES ASSUME NEW i \in 1..n - 1, Onto(dims, M, i + 1)
               PROVE  Onto(dims, M, i)
    BY <1>1
  <2> SUFFICES ASSUME NEW z \in Nat, z < M[i] * dims[i]
               PROVE  \E idx, A : Reach(dims, M, i, idx, A, z)
    BY DEF Onto
  <2>1. i \in 1..n /\ i + 1 \in 1..n /\ i # n /\ M[i] \in Nat /\ dims[i] \in Nat
    BY <1>1, <1>2
  <2>2. PICK q \in Nat, r \in Nat : r < M[i] /\ q < dims[i] /\ z = r + M[i] * q
    <3>1. M[i] \in Nat /\ dims[i] \in Nat /\ z \in Nat /\ z < M[i] * dims[i]
      BY <2>1
    <3>2. \E q, r \in Nat : r < M[i] /\ q < dims[i] /\ z = r + M[i] * q
      BY ONLY <3>1, DigitExists
    <3> QED
      BY <3>2
  <2>3. r < M[i + 1] * dims[i + 1]
    BY <1>2, <2>2
  <2>4. PICK idx, A : Reach(dims, M, i + 1, idx, A, r)
    BY <2>3 DEF Onto
  <2>5. /\ idx \in [1..n -> Nat] /\ \A j \in i + 1..n : idx[j] < dims[j]
        /\ A \in [1..n -> Nat] /\ A[n] = idx[n]
        /\ \A j \in i + 1..n - 1 : A[j] = A[j + 1] + M[j] * idx[j]
        /\ A[i + 1] = r
    BY <1>3, <2>4
  <2> DEFINE f == [idx EXCEPT ![i] = q]
             B == [A EXCEPT ![i] = z]
  <2>6. /\ f \in [1..n -> Nat] /\ f[i] = q /\ \A j \in 1..n : j # i => f[j] = idx[j]
        /\ B \in [1..n -> Nat] /\ B[i] = z /\ \A j \in 1..n : j # i => B[j] = A[j]
    BY <2>1, <2>5
  <2> HIDE DEF f, B
  <2>7. \A j \in i..n : f[j] < dims[j]
    <3> SUFFICES ASSUME NEW j \in i..n PROVE f[j] < dims[j]
      OBVIOUS
    <3>1. CASE j = i
      BY <2>2, <2>6, <3>1
    <3>2. CASE j # i
      <4>1. j \in i + 1..n /\ j \in 1..n
        BY <1>1, <3>2
      <4> QED
        BY <2>5, <2>6, <3>2, <4>1
    <3> QED
      BY <3>1, <3>2
  <2>8. \A j \in i..n - 1 : B[j] = B[j + 1] + M[j] * f[j]
    <3> SUFFICES ASSUME NEW j \in i..n - 1 PROVE B[j] = B[j + 1] + M[j] * f[j]
      OBVIOUS
    <3>1. j \in 1..n /\ j + 1 \in 1..n /\ j + 1 # i
      BY <1>1
    <3>2. B[j + 1] = A[j + 1]
      BY <2>6, <3>1
    <3>3. CASE j = i
      BY <2>2, <2>5, <2>6, <3>2, <3>3
    <3>4. CASE j # i
      <4>1. j \in i + 1..n - 1
        BY <1>1, <3>4
      <4> QED
        BY <2>5, <2>6, <3>1, <3>2, <3>4, <4>1
    <3> QED
      BY <3>3, <3>4
  <2>9. B[n] = f[n]
    <3>1. n \in 1..n
      BY <1>1
    <3> QED
      BY <2>1, <2>5, <2>6, <3>1
  <2>10. Reach(dims, M, i, f, B, z)
    BY <1>3, <2>6, <2>7, <2>8, <2>9
  <2> QED
    BY <2>10
<1>6. 1 \in S
  <2>1. 1..n \subseteq S
    <3> HIDE DEF S
    <3> QED
      BY <1>1, <1>4, <1>5, Downward
  <2>2. 1 \in 1..n
    BY <1>1
  <2> HIDE DEF S
  <2> QED
    BY <2>1, <2>2
<1>7. PICK idx, A : Reach(dims, M, 1, idx, A, x)
  BY <1>6 DEF Onto
<1>8. idx \in Indices(dims) /\ Sums(dims, M, idx, A) /\ A[1] = x
  BY <1>3, <1>7, IndicesMean DEF Sums, n
<1> QED
  BY <1>8

\* The number of elements is the product of the dimensions, taken from either
\* end.
LEMMA ProductStrides ==
  ASSUME NEW dims, Sized(dims), NEW M, Strides(dims, M)
  PROVE  Product(dims) = M[1] * dims[1] /\ Product(dims) \in Nat
<1> DEFINE n == Len(dims)
<1>1. n \in Nat /\ n # 0 /\ dims \in [1..n -> Nat]
  BY IndicesMean
<1>2. M \in [1..n -> Nat] /\ M[n] = 1 /\ \A i \in 1..n - 1 : M[i] = M[i + 1] * dims[i + 1]
  BY DEF Strides
<1> HIDE DEF n
<1> DEFINE Up(f) == [k \in 0..n |-> IF k = 0 THEN 1 ELSE f[k - 1] * dims[k]]
           P == CHOOSE f : f = Up(f)
<1>3. Product(dims) = P[n]
  BY DEF Product, n
<1>4. P = Up(P)
  <2> DEFINE s == [k \in 1..n |-> [x \in Nat |-> x * dims[k]]]
             one == 1
  <2>1. s \in Rounds(n)
    <3>1. \A k \in 1..n : \A x \in Nat : x * dims[k] \in Nat
      BY <1>1, Times
    <3> QED
      BY <3>1 DEF Rounds
  <2>2. \A k \in 1..n : \A x \in Nat : s[k][x] = x * dims[k]
    OBVIOUS
  <2>3. n \in Nat /\ one \in Nat
    BY <1>1
  <2> HIDE DEF s
  <2>4. PICK f : Iterated(n, one, s, f)
    <3> HIDE DEF one
    <3> QED
      BY ONLY <2>1, <2>3, Iterate
  <2>5. f \in [0..n -> Nat] /\ f[0] = 1 /\ \A k \in 1..n : f[k] = s[k][f[k - 1]]
    BY <2>4 DEF Iterated
  <2>6. \A k \in 0..n : f[k] = IF k = 0 THEN 1 ELSE f[k - 1] * dims[k]
    <3>1. \A k \in 0..n : k # 0 => k \in 1..n /\ k - 1 \in 0..n
      BY <1>1
    <3> QED
      BY <2>2, <2>5, <3>1
  <2>7. f = Up(f)
    BY <2>5, <2>6
  <2> HIDE DEF Up
  <2> QED
    BY <2>7
<1> HIDE DEF P
<1>5. P[0] = 1 /\ \A k \in 1..n : P[k] = P[k - 1] * dims[k]
  <2>1. \A k \in 0..n : P[k] = IF k = 0 THEN 1 ELSE P[k - 1] * dims[k]
    BY <1>4
  <2>2. 0 \in 0..n /\ \A k \in 1..n : k \in 0..n /\ k # 0
    BY <1>1
  <2> HIDE DEF Up
  <2> QED
    BY <2>1, <2>2
<1> DEFINE S == {i \in 1..n : P[i] \in Nat /\ P[i] * M[i] = M[1] * dims[1]}
<1>6. 1 \in S
  <2>1. 1 \in 1..n /\ 1 - 1 = 0 /\ dims[1] \in Nat /\ M[1] \in Nat
    BY <1>1, <1>2
  <2>2. P[1] = 1 * dims[1]
    BY <1>5, <2>1
  <2>3. P[1] = dims[1]
    BY <2>1, <2>2
  <2>4. dims[1] * M[1] = M[1] * dims[1]
    BY <2>1
  <2> QED
    BY <2>1, <2>3, <2>4
<1>7. \A i \in 1..n - 1 : i \in S => i + 1 \in S
  <2> SUFFICES ASSUME NEW i \in 1..n - 1, i \in S PROVE i + 1 \in S
    OBVIOUS
  <2>1. /\ i + 1 \in 1..n /\ (i + 1) - 1 = i /\ P[i] \in Nat /\ M[i + 1] \in Nat
        /\ dims[i + 1] \in Nat
    BY <1>1, <1>2
  <2>2. P[i + 1] = P[i] * dims[i + 1]
    BY <1>5, <2>1
  <2>3. M[i] = M[i + 1] * dims[i + 1]
    BY <1>2
  <2>4. (P[i] * dims[i + 1]) * M[i + 1] = P[i] * (M[i + 1] * dims[i + 1])
    <3>1. \A a, b, c \in Nat : (a * b) * c = a * (c * b)
      OBVIOUS
    <3> QED
      BY <2>1, <3>1
  <2>5. P[i + 1] \in Nat
    BY <2>1, <2>2, Times
  <2>6. P[i] * M[i] = M[1] * dims[1]
    OBVIOUS
  <2> QED
    BY <2>1, <2>2, <2>3, <2>4, <2>5, <2>6
<1>8. n \in S
  <2>1. 1..n \subseteq S
    <3> HIDE DEF S
    <3> QED
      BY <1>1, <1>6, <1>7, Upward
  <2>2. n \in 1..n
    BY <1>1
  <2> HIDE DEF S
  <2> QED
    BY <2>1, <2>2
<1>9. P[n] \in Nat /\ P[n] * 1 = M[1] * dims[1]
  BY <1>2, <1>8
<1> QED
  BY <1>3, <1>9

\* An index expression computes the place of an element: every index has one
\* of its own below the number of elements, and every place has an index.
OffsetsRight(h, struct, dims) ==
  /\ \A idx \in Indices(dims) : OffsetIn(h, struct, idx) \in 0..Product(dims) - 1
  /\ \A idx, jdx \in Indices(dims) : OffsetIn(h, struct, idx) = OffsetIn(h, struct, jdx) => idx = jdx
  /\ \A x \in 0..Product(dims) - 1 : \E idx \in Indices(dims) : OffsetIn(h, struct, idx) = x

\* The loop of IdHighPrioExpr::codegen() does, for any number of dimensions.
LEMMA OffsetRight ==
  ASSUME NEW h, NEW struct, NEW dims, Sized(dims), Reads(h, struct, dims)
  PROVE  OffsetsRight(h, struct, dims) /\ Product(dims) \in Nat
<1>1. Len(dims) \in Nat /\ Len(dims) # 0 /\ dims \in [1..Len(dims) -> Nat] /\ 1 \in 1..Len(dims)
  BY IndicesMean
<1>2. PICK M : Strides(dims, M)
  BY StridesExist
<1>3. Product(dims) = M[1] * dims[1] /\ Product(dims) \in Nat
  BY <1>2, ProductStrides
<1>4. ASSUME NEW idx \in Indices(dims)
      PROVE  \E A : Sums(dims, M, idx, A) /\ OffsetIn(h, struct, idx) = A[1]
  <2>1. PICK K, A : Strides(dims, K) /\ Sums(dims, K, idx, A) /\ OffsetIn(h, struct, idx) = A[1]
    BY <1>4, OffsetSums
  <2>2. K = M
    BY <1>2, <2>1, StridesUnique
  <2> QED
    BY <2>1, <2>2
<1>5. ASSUME NEW idx \in Indices(dims) PROVE OffsetIn(h, struct, idx) \in 0..Product(dims) - 1
  <2>1. PICK A : Sums(dims, M, idx, A) /\ OffsetIn(h, struct, idx) = A[1]
    BY <1>4
  <2>2. A[1] < M[1] * dims[1]
    BY <1>1, <1>2, <2>1, SumsBelow
  <2>3. A[1] \in Nat
    BY <1>1, <2>1 DEF Sums
  <2> QED
    BY <1>3, <2>1, <2>2, <2>3
<1>6. ASSUME NEW idx \in Indices(dims), NEW jdx \in Indices(dims),
             OffsetIn(h, struct, idx) = OffsetIn(h, struct, jdx)
      PROVE  idx = jdx
  <2>1. PICK A : Sums(dims, M, idx, A) /\ OffsetIn(h, struct, idx) = A[1]
    BY <1>4
  <2>2. PICK B : Sums(dims, M, jdx, B) /\ OffsetIn(h, struct, jdx) = B[1]
    BY <1>4
  <2>3. A[1] = B[1]
    BY <1>6, <2>1, <2>2
  <2> QED
    BY <1>2, <2>1, <2>2, <2>3, SumsUnique
<1>7. ASSUME NEW x \in 0..Product(dims) - 1
      PROVE  \E idx \in Indices(dims) : OffsetIn(h, struct, idx) = x
  <2>1. x \in Nat /\ x < M[1] * dims[1]
    BY <1>3
  <2>2. PICK idx \in Indices(dims) : \E A : Sums(dims, M, idx, A) /\ A[1] = x
    BY <1>2, <2>1, SumsOnto
  <2>5. PICK A : Sums(dims, M, idx, A) /\ A[1] = x
    BY <2>2
  <2>3. PICK B : Sums(dims, M, idx, B) /\ OffsetIn(h, struct, idx) = B[1]
    BY <1>4
  <2>4. A = B
    BY <1>1, <2>5, <2>3, SumsSame
  <2> QED
    BY <2>5, <2>3, <2>4
<1> QED
  BY <1>3, <1>5, <1>6, <1>7 DEF OffsetsRight

-----------------------------------------------------------------------------
(* The heap.                                                               *)

\* Words, of which numbers are sizes and pointers.
Words == Nat \cup Values \cup {Unset}

\* The shapes that there are: those of definitions, and those of literals.
Defined == Shapes \cup {<<Len(s)>> : s \in Strings}

\* The parts of a struct in heap h, and the pointer to an element.
DimsIn(h, struct) == h[struct + 1]
PointerIn(h, struct) == h[struct + 0]
ShapeIn(h, struct) == [k \in 1..DimsIn(h, struct) |-> h[struct + (k + 1)]]
ElementIn(h, struct, idx) == PointerIn(h, struct) + OffsetIn(h, struct, idx)

\* The first address behind the elements.
EndIn(h, struct) == PointerIn(h, struct) + Product(ShapeIn(h, struct))

\* The words of a struct, and those of its elements.
StructIn(h, struct) == struct..struct + 1 + DimsIn(h, struct)
BlockIn(h, struct) == PointerIn(h, struct)..EndIn(h, struct) - 1

\* A struct with its elements behind it.
Laid(h, struct) ==
  /\ struct \in Nat /\ struct # 0
  /\ DimsIn(h, struct) \in Nat /\ ShapeIn(h, struct) \in Defined
  /\ PointerIn(h, struct) = struct + 2 + DimsIn(h, struct)
  /\ EndIn(h, struct) <= Len(h) + 1

\* All arrays are laid out one behind the other.
Sound(h, arr) ==
  /\ h \in Seq(Words) /\ arr \in Seq(Nat)
  /\ \A a \in DOMAIN arr : Laid(h, arr[a])
  /\ \A a, b \in DOMAIN arr : a < b => EndIn(h, arr[a]) <= arr[b]

\* The pointer that the program holds was made from an index of an array.
Pointed(h, arr, r, o) ==
  \/ r = 0 /\ o = <<>>
  \/ \E a \in DOMAIN arr : \E idx \in Indices(ShapeIn(h, arr[a])) :
       r = ElementIn(h, arr[a], idx) /\ o = <<a, idx>>

\* The inductive invariant.
IInv ==
  /\ Len(arrays) <= MaxArrays /\ Len(heap) <= MaxWords
  /\ Sound(heap, arrays) /\ Pointed(heap, arrays, ref, of)

\* Shapes have at least one dimension.
LEMMA DefinedSized ==
  ASSUME NEW dims \in Defined
  PROVE  Sized(dims)
<1>1. CASE dims \in Shapes
  BY <1>1, ShapesAssumption DEF Sized
<1>2. CASE dims \in {<<Len(s)>> : s \in Strings}
  <2>1. PICK s \in Strings : dims = <<Len(s)>>
    BY <1>2
  <2>2. Len(s) \in Nat
    BY StringsAssumption
  <2> QED
    BY <2>1, <2>2 DEF Sized
<1> QED
  BY <1>1, <1>2 DEF Defined

\* Where a struct is, and what an index expression finds in it.
LEMMA LaidFacts ==
  ASSUME NEW h, NEW struct, h \in Seq(Words), Laid(h, struct)
  PROVE  /\ Sized(ShapeIn(h, struct)) /\ Len(ShapeIn(h, struct)) = DimsIn(h, struct)
         /\ Reads(h, struct, ShapeIn(h, struct))
         /\ DimsIn(h, struct) \in Nat /\ DimsIn(h, struct) # 0
         /\ Product(ShapeIn(h, struct)) \in Nat
         /\ PointerIn(h, struct) = struct + 2 + DimsIn(h, struct)
         /\ EndIn(h, struct) = PointerIn(h, struct) + Product(ShapeIn(h, struct))
         /\ EndIn(h, struct) <= Len(h) + 1
         /\ OffsetsRight(h, struct, ShapeIn(h, struct))
<1> DEFINE D == DimsIn(h, struct)
           dims == ShapeIn(h, struct)
<1>1. D \in Nat /\ dims \in Defined
  BY DEF Laid
<1>2. Sized(dims)
  BY <1>1, DefinedSized
<1>3. dims = [k \in 1..D |-> h[struct + (k + 1)]]
  BY DEF ShapeIn
<1> HIDE DEF D, dims
<1>4. Len(dims) = D
  <2>1. dims \in Seq(Nat) /\ DOMAIN dims = 1..D
    BY <1>2, <1>3 DEF Sized
  <2> QED
    BY <1>1, <2>1
<1>5. D # 0
  BY <1>2, <1>4, IndicesMean
<1>6. Reads(h, struct, dims)
  BY <1>3, <1>4 DEF Reads
<1>7. OffsetsRight(h, struct, dims) /\ Product(dims) \in Nat
  BY <1>2, <1>6, OffsetRight
<1> QED
  BY <1>1, <1>2, <1>4, <1>5, <1>6, <1>7 DEF Laid, EndIn, D, dims

\* The elements of an array are its block, one for each index.
LEMMA ElementsOf ==
  ASSUME NEW h, NEW struct, h \in Seq(Words), Laid(h, struct)
  PROVE  LET I == Indices(ShapeIn(h, struct)) IN
         /\ \A idx \in I : ElementIn(h, struct, idx) \in PointerIn(h, struct)..EndIn(h, struct) - 1
         /\ \A idx, jdx \in I : ElementIn(h, struct, idx) = ElementIn(h, struct, jdx) => idx = jdx
         /\ \A x \in PointerIn(h, struct)..EndIn(h, struct) - 1 :
              \E idx \in I : ElementIn(h, struct, idx) = x
         /\ Cardinality(I) = Product(ShapeIn(h, struct))
<1> DEFINE dims == ShapeIn(h, struct)
           I == Indices(dims)
           p == PointerIn(h, struct)
           n == Product(dims)
           T == 0..n - 1
           f == [idx \in I |-> OffsetIn(h, struct, idx)]
<1>1. /\ p \in Nat /\ n \in Nat /\ EndIn(h, struct) = p + n
      /\ OffsetsRight(h, struct, dims)
  <2>1. struct \in Nat
    BY DEF Laid
  <2> QED
    BY <2>1, LaidFacts
<1> HIDE DEF dims, p, n
<1>2. /\ \A idx \in I : OffsetIn(h, struct, idx) \in T
      /\ \A idx, jdx \in I : OffsetIn(h, struct, idx) = OffsetIn(h, struct, jdx) => idx = jdx
      /\ \A x \in T : \E idx \in I : OffsetIn(h, struct, idx) = x
  BY <1>1 DEF OffsetsRight, n
<1>3. Cardinality(I) = n
  <2>1. f \in [I -> T] /\ \A idx \in I : f[idx] = OffsetIn(h, struct, idx)
    BY <1>2
  <2> HIDE DEF f, I, T
  <2>2. \A idx, jdx \in I : f[idx] = f[jdx] => idx = jdx
    BY <1>2, <2>1
  <2>3. \A x \in T : \E idx \in I : f[idx] = x
    BY <1>2, <2>1
  <2>4. f \in Bijection(I, T)
    BY <2>1, <2>2, <2>3 DEF Bijection, Injection, Surjection, IsInjective
  <2>5. ExistsBijection(I, T)
    BY <2>4 DEF ExistsBijection
  <2>6. ExistsBijection(T, I)
    BY <2>5, Fun_ExistsBijSymmetric
  <2>7. IsFiniteSet(T) /\ Cardinality(T) = n
    <3>1. 0 \in Int /\ n - 1 \in Int
      BY <1>1
    <3>2. IsFiniteSet(0..n - 1) /\ Cardinality(0..n - 1) = IF 0 > n - 1 THEN 0 ELSE n - 1 - 0 + 1
      BY ONLY <3>1, FS_Interval
    <3> QED
      BY <1>1, <3>2 DEF T
  <2> QED
    BY <2>6, <2>7, FS_Bijection
<1> HIDE DEF I
<1>4. \A idx \in I : ElementIn(h, struct, idx) = p + OffsetIn(h, struct, idx)
  BY DEF ElementIn, p
<1>5. \A idx \in I : ElementIn(h, struct, idx) \in p..(p + n) - 1
  BY <1>1, <1>2, <1>4
<1>6. \A idx, jdx \in I : ElementIn(h, struct, idx) = ElementIn(h, struct, jdx) => idx = jdx
  BY <1>1, <1>2, <1>4
<1>7. \A x \in p..(p + n) - 1 : \E idx \in I : ElementIn(h, struct, idx) = x
  <2> SUFFICES ASSUME NEW x \in p..(p + n) - 1
               PROVE  \E idx \in I : ElementIn(h, struct, idx) = x
    OBVIOUS
  <2>1. x - p \in T /\ p + (x - p) = x
    BY <1>1
  <2>2. PICK idx \in I : OffsetIn(h, struct, idx) = x - p
    BY <1>2, <2>1
  <2> QED
    BY <1>4, <2>1, <2>2
<1> QED
  BY <1>1, <1>3, <1>5, <1>6, <1>7 DEF I, dims, p, n

\* The same dimensions give the same places in every heap.
LEMMA OffsetSame ==
  ASSUME NEW dims, Sized(dims), NEW h, NEW s, Reads(h, s, dims),
         NEW g, NEW t, Reads(g, t, dims), NEW idx \in Indices(dims)
  PROVE  OffsetIn(h, s, idx) = OffsetIn(g, t, idx)
<1>1. PICK M, A : Strides(dims, M) /\ Sums(dims, M, idx, A) /\ OffsetIn(h, s, idx) = A[1]
  BY OffsetSums
<1>2. PICK K, B : Strides(dims, K) /\ Sums(dims, K, idx, B) /\ OffsetIn(g, t, idx) = B[1]
  BY OffsetSums
<1>3. M = K
  BY <1>1, <1>2, StridesUnique
<1>4. A = B
  BY <1>1, <1>2, <1>3, SumsSame
<1> QED
  BY <1>1, <1>2, <1>4

\* The struct is in heap g what it is in h.
SameStruct(h, g, struct) ==
  /\ Laid(g, struct)
  /\ DimsIn(g, struct) = DimsIn(h, struct) /\ ShapeIn(g, struct) = ShapeIn(h, struct)
  /\ PointerIn(g, struct) = PointerIn(h, struct) /\ EndIn(g, struct) = EndIn(h, struct)
  /\ \A idx \in Indices(ShapeIn(h, struct)) :
       ElementIn(g, struct, idx) = ElementIn(h, struct, idx)

\* So it is if its words are.
LEMMA LaidKept ==
  ASSUME NEW h, NEW g, NEW struct, h \in Seq(Words), g \in Seq(Words), Laid(h, struct),
         Len(h) <= Len(g),
         \A x \in struct..struct + 1 + DimsIn(h, struct) : g[x] = h[x]
  PROVE  SameStruct(h, g, struct)
<1> DEFINE D == DimsIn(h, struct)
           dims == ShapeIn(h, struct)
<1>1. struct \in Nat /\ D \in Nat /\ dims \in Defined /\ EndIn(h, struct) <= Len(h) + 1
  BY DEF Laid
<1>2. struct + 0 \in struct..struct + 1 + D /\ struct + 1 \in struct..struct + 1 + D
  BY <1>1
<1>3. DimsIn(g, struct) = D /\ PointerIn(g, struct) = PointerIn(h, struct)
  BY <1>2 DEF DimsIn, PointerIn
<1>4. ShapeIn(g, struct) = dims
  <2>1. \A k \in 1..D : struct + (k + 1) \in struct..struct + 1 + D
    BY <1>1
  <2>2. \A k \in 1..D : g[struct + (k + 1)] = h[struct + (k + 1)]
    BY <2>1
  <2>3. /\ ShapeIn(g, struct) = [k \in 1..D |-> g[struct + (k + 1)]]
        /\ dims = [k \in 1..D |-> h[struct + (k + 1)]]
    BY <1>3 DEF ShapeIn
  <2> HIDE DEF D, dims
  <2> QED
    BY <2>2, <2>3
<1>5. EndIn(g, struct) = EndIn(h, struct)
  BY <1>3, <1>4 DEF EndIn
<1>6. Laid(g, struct)
  <2>1. EndIn(g, struct) <= Len(g) + 1
    <3>1. EndIn(h, struct) \in Nat
      <4>1. /\ PointerIn(h, struct) = struct + 2 + D /\ Product(dims) \in Nat
            /\ EndIn(h, struct) = PointerIn(h, struct) + Product(dims)
        BY LaidFacts
      <4> QED
        BY <1>1, <4>1
    <3>2. Len(h) \in Nat /\ Len(g) \in Nat
      OBVIOUS
    <3> QED
      BY <1>1, <1>5, <3>1, <3>2
  <2> QED
    BY <1>3, <1>4, <2>1 DEF Laid
<1>7. ASSUME NEW idx \in Indices(dims)
      PROVE  ElementIn(g, struct, idx) = ElementIn(h, struct, idx)
  <2>1. Sized(dims) /\ Reads(h, struct, dims)
    BY LaidFacts
  <2>2. Reads(g, struct, dims)
    BY <1>4, <1>6, LaidFacts
  <2>3. OffsetIn(g, struct, idx) = OffsetIn(h, struct, idx)
    BY <1>7, <2>1, <2>2, OffsetSame
  <2> QED
    BY <1>3, <2>3 DEF ElementIn
<1> QED
  BY <1>3, <1>4, <1>5, <1>6, <1>7 DEF SameStruct

\* Arrays stay what they are if no struct is written to.
LEMMA SoundKept ==
  ASSUME NEW h, NEW g, NEW arr, Sound(h, arr), g \in Seq(Words), Len(h) <= Len(g),
         \A a \in DOMAIN arr : \A x \in arr[a]..arr[a] + 1 + DimsIn(h, arr[a]) : g[x] = h[x]
  PROVE  Sound(g, arr) /\ \A a \in DOMAIN arr : SameStruct(h, g, arr[a])
<1>1. \A a \in DOMAIN arr : SameStruct(h, g, arr[a])
  BY LaidKept DEF Sound
<1> QED
  BY <1>1 DEF Sound, SameStruct

\* A shape of one dimension has as many elements.
LEMMA ProductOne ==
  ASSUME NEW n \in Nat
  PROVE  Product(<<n>>) = n
<1>1. Sized(<<n>>) /\ Len(<<n>>) = 1 /\ <<n>>[1] = n
  BY DEF Sized
<1>2. PICK M : Strides(<<n>>, M)
  BY <1>1, StridesExist
<1>3. M[1] = 1
  BY <1>1, <1>2 DEF Strides
<1>4. Product(<<n>>) = M[1] * <<n>>[1]
  BY <1>1, <1>2, ProductStrides
<1> QED
  BY <1>1, <1>3, <1>4

\* One sequence behind another.
LEMMA Concat ==
  ASSUME NEW T, NEW s \in Seq(T), NEW t \in Seq(T), NEW r, r = s \o t
  PROVE  /\ r \in Seq(T) /\ Len(r) = Len(s) + Len(t)
         /\ \A x \in 1..Len(s) : r[x] = s[x]
         /\ \A k \in 1..Len(t) : r[Len(s) + k] = t[k]
<1>1. r \in Seq(T)
  OBVIOUS
<1>2. Len(r) = Len(s) + Len(t)
  OBVIOUS
<1>3. \A x \in 1..Len(s) : r[x] = s[x]
  OBVIOUS
<1>4. \A k \in 1..Len(t) : r[Len(s) + k] = t[k]
  OBVIOUS
<1> QED
  BY <1>1, <1>2, <1>3, <1>4

\* The heap after an allocation.
Allocated(h, dims, elements) ==
  h \o <<(Len(h) + 1) + 2 + Len(dims), Len(dims)>> \o dims \o elements

\* It has a new array at the end, with its elements behind it.
LEMMA LaidNew ==
  ASSUME NEW h \in Seq(Words), NEW dims \in Defined, NEW elements \in Seq(Words),
         Len(elements) = Product(dims)
  PROVE  LET g == Allocated(h, dims, elements)
             struct == Len(h) + 1
         IN /\ g \in Seq(Words) /\ Len(g) = Len(h) + 2 + Len(dims) + Len(elements)
            /\ \A x \in 1..Len(h) : g[x] = h[x]
            /\ Laid(g, struct) /\ ShapeIn(g, struct) = dims
            /\ PointerIn(g, struct) = struct + 2 + Len(dims)
            /\ DimsIn(g, struct) = Len(dims)
            /\ \A k \in 1..Len(elements) : g[(PointerIn(g, struct) + k) - 1] = elements[k]
<1> DEFINE g == Allocated(h, dims, elements)
           L == Len(h)
           struct == L + 1
           D == Len(dims)
           E == Len(elements)
           head == <<struct + 2 + D, D>>
<1>1. Sized(dims)
  BY DefinedSized
<1>2. L \in Nat /\ D \in Nat /\ E \in Nat /\ dims \in Seq(Nat) /\ dims \in [1..D -> Nat]
  BY <1>1 DEF Sized
<1>3. head \in Seq(Words) /\ Len(head) = 2 /\ head[1] = struct + 2 + D /\ head[2] = D
  <2>1. struct + 2 + D \in Words /\ D \in Words
    BY <1>2 DEF Words
  <2> HIDE DEF struct, D
  <2> QED
    BY <2>1
<1>4. dims \in Seq(Words)
  BY <1>2 DEF Words
<1>5. g = ((h \o head) \o dims) \o elements
  BY DEF Allocated
<1> DEFINE u == h \o head
           w == u \o dims
<1>6. /\ u \in Seq(Words) /\ Len(u) = L + 2
      /\ \A x \in 1..L : u[x] = h[x]
      /\ u[L + 1] = head[1] /\ u[L + 2] = head[2]
  <2>0. h \in Seq(Words) /\ head \in Seq(Words) /\ u = h \o head
    BY <1>3
  <2> HIDE DEF head, u
  <2>1. /\ u \in Seq(Words) /\ Len(u) = Len(h) + Len(head)
        /\ \A x \in 1..Len(h) : u[x] = h[x]
        /\ \A k \in 1..Len(head) : u[Len(h) + k] = head[k]
    BY ONLY <2>0, Concat
  <2> QED
    BY <1>3, <2>1
<1>7. /\ w \in Seq(Words) /\ Len(w) = L + 2 + D
      /\ \A x \in 1..L + 2 : w[x] = u[x]
      /\ \A k \in 1..D : w[L + 2 + k] = dims[k]
  <2>0. u \in Seq(Words) /\ dims \in Seq(Words) /\ w = u \o dims
    BY <1>4, <1>6
  <2> HIDE DEF u, w
  <2>1. /\ w \in Seq(Words) /\ Len(w) = Len(u) + Len(dims)
        /\ \A x \in 1..Len(u) : w[x] = u[x]
        /\ \A k \in 1..Len(dims) : w[Len(u) + k] = dims[k]
    BY ONLY <2>0, Concat
  <2> QED
    BY <1>6, <2>1
<1>8. /\ g \in Seq(Words) /\ Len(g) = L + 2 + D + E
      /\ \A x \in 1..L + 2 + D : g[x] = w[x]
      /\ \A k \in 1..E : g[L + 2 + D + k] = elements[k]
  <2>0. w \in Seq(Words) /\ elements \in Seq(Words) /\ g = w \o elements
    BY <1>5, <1>7
  <2> HIDE DEF w, g
  <2>1. /\ g \in Seq(Words) /\ Len(g) = Len(w) + Len(elements)
        /\ \A x \in 1..Len(w) : g[x] = w[x]
        /\ \A k \in 1..Len(elements) : g[Len(w) + k] = elements[k]
    BY ONLY <2>0, Concat
  <2> QED
    BY <1>7, <2>1
<1> HIDE DEF g, head, D, E, L, u, w
<1>9. \A x \in 1..L : g[x] = h[x]
  <2>1. \A x \in 1..L : x \in 1..L + 2 /\ x \in 1..L + 2 + D
    BY <1>2
  <2> QED
    BY <1>6, <1>7, <1>8, <2>1
<1>10. g[L + 1] = struct + 2 + D /\ g[L + 2] = D
  <2>1. L + 1 \in 1..L + 2 /\ L + 2 \in 1..L + 2 /\ L + 1 \in 1..L + 2 + D /\ L + 2 \in 1..L + 2 + D
    BY <1>2
  <2> QED
    BY <1>3, <1>6, <1>7, <1>8, <2>1
<1>11. \A k \in 1..D : g[L + 2 + k] = dims[k]
  <2>1. \A k \in 1..D : L + 2 + k \in 1..L + 2 + D
    BY <1>2
  <2> QED
    BY <1>7, <1>8, <2>1
<1>12. PointerIn(g, struct) = struct + 2 + D /\ DimsIn(g, struct) = D
  <2>1. struct + 0 = L + 1 /\ struct + 1 = L + 2
    BY <1>2
  <2> QED
    BY <1>10, <2>1 DEF PointerIn, DimsIn
<1>13. ShapeIn(g, struct) = dims
  <2>1. \A k \in 1..D : struct + (k + 1) = L + 2 + k
    BY <1>2
  <2>2. \A k \in 1..D : g[struct + (k + 1)] = dims[k]
    BY <1>11, <2>1
  <2>3. ShapeIn(g, struct) = [k \in 1..D |-> g[struct + (k + 1)]]
    BY <1>12 DEF ShapeIn
  <2> HIDE DEF struct
  <2> QED
    BY <1>2, <2>2, <2>3
<1>14. Laid(g, struct)
  <2>1. EndIn(g, struct) = struct + 2 + D + E
    BY <1>12, <1>13 DEF EndIn, E
  <2>2. EndIn(g, struct) <= Len(g) + 1
    BY <1>2, <1>8, <2>1
  <2> QED
    BY <1>2, <1>12, <1>13, <2>2 DEF Laid
<1>15. \A k \in 1..E : g[(PointerIn(g, struct) + k) - 1] = elements[k]
  <2>1. \A k \in 1..E : (PointerIn(g, struct) + k) - 1 = L + 2 + D + k
    BY <1>2, <1>12
  <2> QED
    BY <1>8, <2>1
<1> QED
  BY <1>8, <1>9, <1>12, <1>13, <1>14, <1>15 DEF g, D, E, L

\* The addresses of an array in numbers.
LEMMA Addresses ==
  ASSUME NEW h, NEW struct, h \in Seq(Words), Laid(h, struct)
  PROVE  /\ struct \in Nat /\ struct # 0 /\ Len(h) \in Nat
         /\ DimsIn(h, struct) \in Nat
         /\ PointerIn(h, struct) \in Nat
         /\ PointerIn(h, struct) = struct + 2 + DimsIn(h, struct)
         /\ EndIn(h, struct) \in Nat /\ PointerIn(h, struct) <= EndIn(h, struct)
         /\ EndIn(h, struct) <= Len(h) + 1
         /\ \A x \in struct..struct + 1 + DimsIn(h, struct) : x \in 1..Len(h)
<1> DEFINE L == Len(h)
           D == DimsIn(h, struct)
           P == PointerIn(h, struct)
           E == EndIn(h, struct)
           N == Product(ShapeIn(h, struct))
<1>1. struct \in Nat /\ struct # 0
  BY DEF Laid
<1>2. D \in Nat /\ N \in Nat /\ P = struct + 2 + D /\ E = P + N /\ E <= L + 1
  BY LaidFacts
<1>3. L \in Nat
  OBVIOUS
<1> HIDE DEF L, D, P, E, N
<1>4. P \in Nat /\ E \in Nat /\ P <= E
  BY ONLY <1>1, <1>2
<1>5. \A x \in struct..struct + 1 + D : x \in 1..L
  BY ONLY <1>1, <1>2, <1>3
<1> QED
  BY <1>1, <1>2, <1>3, <1>4, <1>5 DEF L, D, P, E

\* No element of an array is a word of a struct, or an element of another.
LEMMA Apart ==
  ASSUME NEW h, NEW arr, Sound(h, arr), NEW a \in DOMAIN arr, NEW b \in DOMAIN arr,
         NEW x \in BlockIn(h, arr[a])
  PROVE  /\ a # b => x \notin BlockIn(h, arr[b])
         /\ x \notin StructIn(h, arr[b])
<1> DEFINE s == arr[a]
           t == arr[b]
           p == PointerIn(h, s)
           q == PointerIn(h, t)
           d == DimsIn(h, s)
           e == DimsIn(h, t)
           i == EndIn(h, s)
           j == EndIn(h, t)
<1>1. /\ s \in Nat /\ d \in Nat /\ p \in Nat /\ i \in Nat /\ p = s + 2 + d /\ p <= i
      /\ t \in Nat /\ e \in Nat /\ q \in Nat /\ j \in Nat /\ q = t + 2 + e /\ q <= j
  BY Addresses DEF Sound
<1>2. a \in Int /\ b \in Int
  <2>1. arr \in Seq(Nat)
    BY DEF Sound
  <2> QED
    BY <2>1
<1>3. (a < b => i <= t) /\ (b < a => j <= s)
  BY DEF Sound
<1>4. a = b => s = t /\ p = q /\ e = d
  OBVIOUS
<1>5. x \in p..i - 1
  BY DEF BlockIn
<1> SUFFICES (a # b => x \notin q..j - 1) /\ x \notin t..t + 1 + e
  BY DEF BlockIn, StructIn
<1> HIDE DEF s, t, p, q, d, e, i, j
<1>6. a < b \/ b < a \/ a = b
  BY ONLY <1>2
<1>7. CASE a < b
  BY ONLY <1>1, <1>2, <1>3, <1>5, <1>7
<1>8. CASE b < a
  BY ONLY <1>1, <1>2, <1>3, <1>5, <1>8
<1>9. CASE a = b
  BY ONLY <1>1, <1>4, <1>5, <1>9
<1> QED
  BY ONLY <1>6, <1>7, <1>8, <1>9

\* A definition of an array, of dims that holds elements: what the heap and the
\* pointers to structs are before and after it.
Grown(h, arr, dims, elements, g, new) ==
  g = Allocated(h, dims, elements) /\ new = Append(arr, Len(h) + 1)

\* A definition adds an array and leaves the others what they are.
LEMMA SoundNew ==
  ASSUME NEW h, NEW arr, Sound(h, arr), NEW dims \in Defined, NEW elements \in Seq(Words),
         Len(elements) = Product(dims),
         NEW g, NEW new, Grown(h, arr, dims, elements, g, new)
  PROVE  /\ Sound(g, new)
         /\ Len(new) = Len(arr) + 1 /\ new[Len(new)] = Len(h) + 1
         /\ \A a \in DOMAIN arr : new[a] = arr[a] /\ SameStruct(h, g, arr[a])
<1> DEFINE n == Len(arr)
           L == Len(h)
           struct == L + 1
<1>1. h \in Seq(Words) /\ arr \in Seq(Nat) /\ n \in Nat /\ L \in Nat
  BY DEF Sound
<1>g. g = Allocated(h, dims, elements) /\ new = Append(arr, struct)
  BY DEF Grown
<1>2. /\ g \in Seq(Words) /\ Len(g) = L + 2 + Len(dims) + Len(elements)
      /\ \A x \in 1..L : g[x] = h[x]
      /\ Laid(g, struct)
  BY <1>1, <1>g, LaidNew
<1>3. Len(dims) \in Nat /\ Len(elements) \in Nat
  <2>1. Sized(dims)
    BY DefinedSized
  <2> QED
    BY <2>1 DEF Sized
<1>4. L <= Len(g)
  BY ONLY <1>1, <1>2, <1>3
<1>5. ASSUME NEW a \in DOMAIN arr, NEW x \in arr[a]..arr[a] + 1 + DimsIn(h, arr[a])
      PROVE  g[x] = h[x]
  <2>1. x \in 1..L
    BY <1>5, Addresses DEF Sound
  <2> QED
    BY <1>2, <2>1
<1>6. Sound(g, arr) /\ \A a \in DOMAIN arr : SameStruct(h, g, arr[a])
  BY <1>2, <1>4, <1>5, SoundKept
<1>7. /\ new \in Seq(Nat) /\ Len(new) = n + 1 /\ new[n + 1] = struct
      /\ \A a \in 1..n : new[a] = arr[a]
  <2>1. struct \in Nat
    BY <1>1
  <2> HIDE DEF struct
  <2> QED
    BY <1>1, <1>g, <2>1
<1>8. DOMAIN new = 1..n + 1 /\ DOMAIN arr = 1..n
  BY <1>1, <1>7
<1> HIDE DEF n, struct, L
<1>9. \A a \in DOMAIN new : Laid(g, new[a])
  <2> SUFFICES ASSUME NEW a \in DOMAIN new
               PROVE  Laid(g, new[a])
    OBVIOUS
  <2>1. CASE a = n + 1
    BY <1>2, <1>7, <2>1
  <2>2. CASE a \in 1..n
    BY <1>6, <1>7, <1>8, <2>2 DEF Sound
  <2> QED
    BY <1>1, <1>8, <2>1, <2>2
<1>10. ASSUME NEW a \in DOMAIN new, NEW b \in DOMAIN new, a < b
       PROVE  EndIn(g, new[a]) <= new[b]
  <2>1. a \in 1..n /\ b \in 1..n + 1
    BY <1>1, <1>8, <1>10
  <2>2. CASE b = n + 1
    <3>1. EndIn(h, arr[a]) <= L + 1
      BY <1>8, <2>1, Addresses DEF Sound, L
    <3>2. EndIn(g, arr[a]) = EndIn(h, arr[a])
      BY <1>6, <1>8, <2>1 DEF SameStruct
    <3> QED
      BY <1>7, <2>1, <2>2, <3>1, <3>2 DEF struct
  <2>3. CASE b \in 1..n
    BY <1>6, <1>7, <1>8, <1>10, <2>1, <2>3 DEF Sound
  <2> QED
    BY <1>1, <2>1, <2>2, <2>3
<1>11. Sound(g, new)
  BY <1>2, <1>7, <1>9, <1>10 DEF Sound
<1> QED
  BY <1>6, <1>7, <1>8, <1>11 DEF n, struct, L

\* The pointer that the program holds points at an element.
LEMMA PointedIn ==
  ASSUME NEW h, NEW arr, NEW r, NEW o, Sound(h, arr), Pointed(h, arr, r, o), r # 0
  PROVE  \E a \in DOMAIN arr : \E idx \in Indices(ShapeIn(h, arr[a])) :
           /\ o = <<a, idx>> /\ r = ElementIn(h, arr[a], idx)
           /\ r \in BlockIn(h, arr[a])
           /\ r \in 1..Len(h)
<1>1. PICK a \in DOMAIN arr : \E idx \in Indices(ShapeIn(h, arr[a])) :
        r = ElementIn(h, arr[a], idx) /\ o = <<a, idx>>
  BY DEF Pointed
<1>2. PICK idx \in Indices(ShapeIn(h, arr[a])) :
        r = ElementIn(h, arr[a], idx) /\ o = <<a, idx>>
  BY <1>1
<1> DEFINE s == arr[a]
           p == PointerIn(h, s)
           e == EndIn(h, s)
           L == Len(h)
<1>3. h \in Seq(Words) /\ Laid(h, s)
  BY DEF Sound
<1>4. r \in p..e - 1
  BY <1>2, <1>3, ElementsOf
<1>5. p \in Nat /\ e \in Nat /\ s \in Nat /\ s # 0 /\ DimsIn(h, s) \in Nat
      /\ p = s + 2 + DimsIn(h, s) /\ e <= L + 1 /\ L \in Nat
  BY <1>3, Addresses
<1>6. r \in 1..L
  <2> HIDE DEF p, e, L, s
  <2> QED
    BY ONLY <1>4, <1>5
<1> QED
  BY <1>2, <1>4, <1>6 DEF BlockIn

\* It stays one while structs stay.
LEMMA PointedKept ==
  ASSUME NEW h, NEW arr, NEW r, NEW o, Pointed(h, arr, r, o), NEW g, NEW new,
         \A a \in DOMAIN arr : a \in DOMAIN new /\ new[a] = arr[a] /\ SameStruct(h, g, arr[a])
  PROVE  Pointed(g, new, r, o)
<1>1. CASE r = 0 /\ o = <<>>
  BY <1>1 DEF Pointed
<1>2. CASE \E a \in DOMAIN arr : \E idx \in Indices(ShapeIn(h, arr[a])) :
             r = ElementIn(h, arr[a], idx) /\ o = <<a, idx>>
  <2>1. PICK a \in DOMAIN arr : \E idx \in Indices(ShapeIn(h, arr[a])) :
          r = ElementIn(h, arr[a], idx) /\ o = <<a, idx>>
    BY <1>2
  <2>2. PICK idx \in Indices(ShapeIn(h, arr[a])) :
          r = ElementIn(h, arr[a], idx) /\ o = <<a, idx>>
    BY <2>1
  <2>3. /\ a \in DOMAIN new /\ new[a] = arr[a]
        /\ ShapeIn(g, new[a]) = ShapeIn(h, arr[a])
        /\ ElementIn(g, new[a], idx) = ElementIn(h, arr[a], idx)
    BY DEF SameStruct
  <2> QED
    BY <2>2, <2>3 DEF Pointed
<1> QED
  BY <1>1, <1>2 DEF Pointed

\* The number of elements is a number.
LEMMA ProductNat ==
  ASSUME NEW dims \in Defined
  PROVE  Product(dims) \in Nat
<1>1. Sized(dims)
  BY DefinedSized
<1>2. PICK M : Strides(dims, M)
  BY <1>1, StridesExist
<1> QED
  BY <1>1, <1>2, ProductStrides

\* Parts of the model in terms of the heap.
LEMMA InHeap ==
  ASSUME NEW struct
  PROVE  /\ Dims(struct) = DimsIn(heap, struct) /\ Pointer(struct) = PointerIn(heap, struct)
         /\ Shape(struct) = ShapeIn(heap, struct)
         /\ \A idx : Element(struct, idx) = ElementIn(heap, struct, idx)
<1>1. Dims(struct) = DimsIn(heap, struct) /\ Pointer(struct) = PointerIn(heap, struct)
  BY DEF Dims, Pointer, Field, DimsIn, PointerIn
<1>2. Shape(struct) = ShapeIn(heap, struct)
  BY DEF Shape, Dims, Field, ShapeIn, DimsIn
<1>3. ASSUME NEW idx
      PROVE  Offset(struct, idx) = OffsetIn(heap, struct, idx)
  BY DEF Offset, OffsetIn, Field
<1> QED
  BY <1>1, <1>3, <1>2 DEF Element, ElementIn

\* An allocation in these terms.
LEMMA AllocateMeans ==
  ASSUME NEW dims, NEW elements, Allocate(dims, elements)
  PROVE  /\ heap' = Allocated(heap, dims, elements) /\ arrays' = Append(arrays, Len(heap) + 1)
         /\ ref' = ref /\ of' = of /\ result' = result
         /\ Len(arrays) < MaxArrays
         /\ Len(heap) + 2 + Len(dims) + Len(elements) <= MaxWords
<1>1. heap' = Allocated(heap, dims, elements)
  BY ZenonT(30) DEF Allocate, Allocated
<1>2. arrays' = Append(arrays, Len(heap) + 1)
  BY DEF Allocate
<1>3. ref' = ref /\ of' = of /\ result' = result
  BY DEF Allocate
<1>4. Len(arrays) < MaxArrays
  BY DEF Allocate
<1>5. Len(heap) + 2 + Len(dims) + Len(elements) <= MaxWords
  BY DEF Allocate
<1> QED
  BY <1>1, <1>2, <1>3, <1>4, <1>5

\* An allocation keeps the invariant.
LEMMA AllocateKeeps ==
  ASSUME IInv, NEW dims \in Defined, NEW elements \in Seq(Words),
         Len(elements) = Product(dims), Allocate(dims, elements)
  PROVE  IInv'
<1>1. Sound(heap, arrays) /\ Pointed(heap, arrays, ref, of) /\ heap \in Seq(Words)
      /\ arrays \in Seq(Nat)
  BY DEF IInv, Sound
<1>2. /\ heap' = Allocated(heap, dims, elements) /\ arrays' = Append(arrays, Len(heap) + 1)
      /\ ref' = ref /\ of' = of
      /\ Len(arrays) < MaxArrays
      /\ Len(heap) + 2 + Len(dims) + Len(elements) <= MaxWords
  BY AllocateMeans
<1>3. /\ Sound(heap', arrays') /\ Len(arrays') = Len(arrays) + 1
      /\ \A a \in DOMAIN arrays : arrays'[a] = arrays[a] /\ SameStruct(heap, heap', arrays[a])
  <2>1. /\ Sound(heap, arrays) /\ dims \in Defined /\ elements \in Seq(Words)
        /\ Len(elements) = Product(dims)
        /\ Grown(heap, arrays, dims, elements, heap', arrays')
    BY <1>1, <1>2 DEF Grown
  <2> QED
    BY ONLY <2>1, SoundNew
<1>4. Len(heap') = Len(heap) + 2 + Len(dims) + Len(elements)
  BY <1>1, <1>2, LaidNew
<1>5. Len(heap') <= MaxWords
  BY <1>2, <1>4
<1>6. Len(arrays) \in Nat /\ Len(arrays') <= MaxArrays
  BY <1>1, <1>2, <1>3, BoundsAssumption
<1>7. \A a \in DOMAIN arrays : a \in DOMAIN arrays'
  <2>1. arrays' \in Seq(Nat)
    BY <1>3 DEF Sound
  <2> QED
    BY <1>1, <1>3, <1>6, <2>1
<1>8. Pointed(heap', arrays', ref', of')
  BY <1>1, <1>2, <1>3, <1>7, PointedKept
<1> QED
  BY <1>3, <1>5, <1>6, <1>8 DEF IInv

\* The memory of a mutable array: as many words as its dimensions say.
LEMMA UnwrittenWords ==
  ASSUME NEW dims \in Defined
  PROVE  /\ Unwritten(Product(dims)) \in Seq(Words)
         /\ Len(Unwritten(Product(dims))) = Product(dims)
<1> DEFINE n == Product(dims)
<1>1. n \in Nat
  BY ProductNat
<1> HIDE DEF n
<1>2. Unset \in Words
  BY DEF Words
<1>3. Unwritten(n) \in Seq(Words) /\ Len(Unwritten(n)) = n
  BY <1>1, <1>2 DEF Unwritten
<1> QED
  BY <1>3 DEF n

\* A literal has the words of its string.
LEMMA LiteralWords ==
  ASSUME NEW s \in Strings
  PROVE  s \in Seq(Words) /\ <<Len(s)>> \in Defined /\ Len(s) = Product(<<Len(s)>>)
<1>1. s \in Seq(Values) /\ Len(s) \in Nat
  BY StringsAssumption
<1>2. s \in Seq(Words)
  BY <1>1 DEF Words
<1> QED
  BY <1>1, <1>2, ProductOne DEF Defined

\* An assignment writes no struct.
LEMMA AssignKeeps ==
  ASSUME IInv, Assign
  PROVE  /\ IInv' /\ Len(heap') = Len(heap)
         /\ \A a \in DOMAIN arrays : SameStruct(heap, heap', arrays[a])
<1>1. Sound(heap, arrays) /\ Pointed(heap, arrays, ref, of) /\ heap \in Seq(Words)
      /\ Len(heap) <= MaxWords /\ Len(arrays) <= MaxArrays
  BY DEF IInv, Sound
<1>2. PICK v \in Values : heap' = [heap EXCEPT ![ref] = v]
  BY DEF Assign
<1>3. ref # 0 /\ arrays' = arrays /\ ref' = ref /\ of' = of
  BY DEF Assign
<1>4. PICK a \in DOMAIN arrays :
        ref \in BlockIn(heap, arrays[a]) /\ ref \in 1..Len(heap)
  BY <1>1, <1>3, PointedIn
<1>5. heap' \in Seq(Words) /\ Len(heap') = Len(heap) /\ Len(heap) \in Nat
  <2> DEFINE n == Len(heap)
  <2>1. v \in Words
    BY DEF Words
  <2>2. n \in Nat /\ heap \in [1..n -> Words]
    BY <1>1
  <2>3. heap' \in [1..n -> Words]
    BY <1>2, <2>1, <2>2
  <2> HIDE DEF n
  <2>4. heap' \in Seq(Words) /\ Len(heap') = n
    BY <2>2, <2>3
  <2> QED
    BY <2>2, <2>4 DEF n
<1>6. ASSUME NEW b \in DOMAIN arrays,
             NEW x \in arrays[b]..arrays[b] + 1 + DimsIn(heap, arrays[b])
      PROVE  heap'[x] = heap[x]
  <2>1. ref \notin StructIn(heap, arrays[b])
    BY <1>1, <1>4, Apart
  <2>2. x # ref
    BY <1>6, <2>1 DEF StructIn
  <2>3. x \in 1..Len(heap)
    BY <1>1, <1>6, Addresses DEF Sound
  <2> QED
    BY <1>1, <1>2, <2>2, <2>3
<1>7. Len(heap) <= Len(heap')
  BY <1>5
<1>8. Sound(heap', arrays) /\ \A b \in DOMAIN arrays : SameStruct(heap, heap', arrays[b])
  BY <1>1, <1>5, <1>6, <1>7, SoundKept
<1>9. Pointed(heap', arrays, ref, of)
  BY <1>1, <1>8, PointedKept
<1> QED
  BY <1>1, <1>3, <1>5, <1>8, <1>9 DEF IInv

\* The invariant holds at the start.
LEMMA InitIInv == Init => IInv
<1> SUFFICES ASSUME Init
             PROVE  IInv
  OBVIOUS
<1>1. heap = <<>> /\ arrays = <<>> /\ ref = 0 /\ of = <<>>
  BY DEF Init
<1>2. Sound(heap, arrays)
  BY <1>1 DEF Sound
<1>3. Pointed(heap, arrays, ref, of)
  BY <1>1 DEF Pointed
<1>4. Len(arrays) <= MaxArrays /\ Len(heap) <= MaxWords
  BY <1>1, BoundsAssumption
<1> QED
  BY <1>2, <1>3, <1>4 DEF IInv

\* Every step keeps it.
LEMMA NextIInv == IInv /\ [Next]_vars => IInv'
<1> SUFFICES ASSUME IInv, [Next]_vars
             PROVE  IInv'
  OBVIOUS
<1>1. CASE MutableArrayDef
  <2>1. PICK dims \in Shapes : Allocate(dims, Unwritten(Product(dims)))
    BY <1>1 DEF MutableArrayDef
  <2>2. dims \in Defined
    BY DEF Defined
  <2> QED
    BY <2>1, <2>2, UnwrittenWords, AllocateKeeps
<1>2. CASE Literal
  <2>1. PICK s \in Strings : Allocate(<<Len(s)>>, s)
    BY <1>2 DEF Literal
  <2> QED
    BY <2>1, LiteralWords, AllocateKeeps
<1>3. CASE Index
  <2>1. PICK a \in DOMAIN arrays : \E idx \in Indices(Shape(arrays[a])) :
          ref' = Element(arrays[a], idx) /\ of' = <<a, idx>>
    BY <1>3 DEF Index
  <2>2. heap' = heap /\ arrays' = arrays
    BY <1>3 DEF Index
  <2>3. Pointed(heap, arrays, ref', of')
    BY <2>1, InHeap DEF Pointed
  <2> QED
    BY <2>2, <2>3 DEF IInv
<1>4. CASE Assign
  BY <1>4, AssignKeeps
<1>5. CASE Deref
  BY <1>5 DEF Deref, IInv
<1>6. CASE Dim
  BY <1>6 DEF Dim, IInv
<1>7. CASE UNCHANGED vars
  BY <1>7 DEF vars, IInv
<1> QED
  BY <1>1, <1>2, <1>3, <1>4, <1>5, <1>6, <1>7 DEF Next

\* The addresses of the elements, as index expressions give them.
LEMMA BlockIs ==
  ASSUME NEW struct, heap \in Seq(Words), Laid(heap, struct)
  PROVE  Block(struct) = BlockIn(heap, struct)
<1>1. Block(struct) = {ElementIn(heap, struct, idx) : idx \in Indices(ShapeIn(heap, struct))}
  BY InHeap DEF Block
<1>2. /\ \A idx \in Indices(ShapeIn(heap, struct)) :
           ElementIn(heap, struct, idx) \in BlockIn(heap, struct)
      /\ \A x \in BlockIn(heap, struct) :
           \E idx \in Indices(ShapeIn(heap, struct)) : ElementIn(heap, struct, idx) = x
  BY ElementsOf DEF BlockIn
<1> QED
  BY <1>1, <1>2

\* The invariant says what pointers point to.
LEMMA TypesHold == IInv => TypeOK
<1> SUFFICES ASSUME IInv
             PROVE  TypeOK
  OBVIOUS
<1>1. Sound(heap, arrays) /\ Pointed(heap, arrays, ref, of) /\ heap \in Seq(Words)
  BY DEF IInv, Sound
<1>2. ASSUME NEW a \in DOMAIN arrays
      PROVE  /\ arrays[a] + 1 \in DOMAIN heap
             /\ Shape(arrays[a]) \in Shapes \union {<<Len(s)>> : s \in Strings}
  <2>1. Laid(heap, arrays[a])
    BY <1>1 DEF Sound
  <2>2. ShapeIn(heap, arrays[a]) \in Defined
    BY <2>1 DEF Laid
  <2>3. Shape(arrays[a]) \in Shapes \union {<<Len(s)>> : s \in Strings}
    BY <2>2, InHeap DEF Defined
  <2>4. arrays[a] \in Nat /\ DimsIn(heap, arrays[a]) \in Nat
    BY <1>1, <2>1, Addresses
  <2>5. arrays[a] + 1 \in arrays[a]..arrays[a] + 1 + DimsIn(heap, arrays[a])
    BY <2>4
  <2>6. arrays[a] + 1 \in 1..Len(heap)
    BY <1>1, <2>1, <2>5, Addresses
  <2> QED
    BY <1>1, <2>3, <2>6
<1>3. ref \in DOMAIN heap \union {0}
  <2>1. CASE ref # 0
    BY <1>1, <2>1, PointedIn
  <2> QED
    BY <2>1
<1> QED
  BY <1>2, <1>3 DEF IInv, TypeOK

\* It says how the elements lie.
LEMMA LayoutHolds == IInv => LayoutRight
<1> SUFFICES ASSUME IInv
             PROVE  LayoutRight
  OBVIOUS
<1>1. Sound(heap, arrays) /\ heap \in Seq(Words)
      /\ \A a \in DOMAIN arrays : Laid(heap, arrays[a])
  BY DEF IInv, Sound
<1>2. ASSUME NEW a \in DOMAIN arrays
      PROVE  Block(arrays[a]) =
               Pointer(arrays[a])..Pointer(arrays[a]) + Cardinality(Indices(Shape(arrays[a]))) - 1
  <2> DEFINE s == arrays[a]
             p == Pointer(s)
             n == Cardinality(Indices(Shape(s)))
             e == EndIn(heap, s)
  <2>1. Laid(heap, s)
    BY <1>1
  <2>2. Block(s) = p..e - 1
    BY <1>1, <2>1, BlockIs, InHeap DEF BlockIn
  <2>3. p \in Nat /\ e \in Nat /\ n \in Nat /\ e = p + n
    <3>1. n = Product(ShapeIn(heap, s))
      BY <1>1, <2>1, InHeap, ElementsOf
    <3>2. PointerIn(heap, s) \in Nat /\ e \in Nat
      BY <1>1, <2>1, Addresses
    <3>3. Product(ShapeIn(heap, s)) \in Nat /\ e = PointerIn(heap, s) + Product(ShapeIn(heap, s))
      BY <1>1, <2>1, LaidFacts
    <3> HIDE DEF e, n
    <3> QED
      BY <3>1, <3>2, <3>3, InHeap
  <2> HIDE DEF s, p, n, e
  <2>4. Block(s) = p..p + n - 1
    BY ONLY <2>2, <2>3
  <2> QED
    BY <2>4 DEF s, p, n
<1>3. ElementsFillBlock
  BY <1>2 DEF ElementsFillBlock
<1>4. ASSUME NEW a \in DOMAIN arrays, NEW b \in DOMAIN arrays
      PROVE  /\ a # b => Block(arrays[a]) \intersect Block(arrays[b]) = {}
             /\ Block(arrays[a]) \intersect
                  arrays[b]..arrays[b] + 1 + Dims(arrays[b]) = {}
  <2>1. Block(arrays[a]) = BlockIn(heap, arrays[a]) /\ Block(arrays[b]) = BlockIn(heap, arrays[b])
    BY <1>1, BlockIs
  <2>2. arrays[b]..arrays[b] + 1 + Dims(arrays[b]) = StructIn(heap, arrays[b])
    BY InHeap DEF StructIn
  <2>3. \A x \in BlockIn(heap, arrays[a]) :
          (a # b => x \notin BlockIn(heap, arrays[b])) /\ x \notin StructIn(heap, arrays[b])
    BY <1>1, Apart
  <2> QED
    BY <2>1, <2>2, <2>3
<1>5. ArraysApart
  BY <1>4 DEF ArraysApart
<1> QED
  BY <1>3, <1>5 DEF LayoutRight

\* The invariant always holds.
LEMMA Always == Spec => []IInv
  BY InitIInv, NextIInv, PTL DEF Spec

\* Pointers to structs are pointers to structs, and the pointer that an index
\* expression gave stays one to a word of the heap, for any shapes and strings.
THEOREM ArraysTypes == Spec => []TypeOK
  BY Always, TypesHold, PTL

\* The loop of definitions writes the dimensions where index expressions read
\* them, and the sum that these compute takes each index to an element of its
\* own, fills the memory that was allocated, and meets no struct and no other
\* array: for any number of dimensions, and any definitions and assignments.
THEOREM LayoutAlwaysRight == Spec => []LayoutRight
  BY Always, LayoutHolds, PTL

-----------------------------------------------------------------------------
(* The store of arrays that the heap implements.                           *)

\* An array in heap h, and all of them.
ArrayIn(h, struct) ==
  [dims |-> ShapeIn(h, struct),
   elements |-> [idx \in Indices(ShapeIn(h, struct)) |-> h[ElementIn(h, struct, idx)]]]
View(h, arr) == [a \in DOMAIN arr |-> ArrayIn(h, arr[a])]

\* What the refinement says the store holds.
LEMMA HeldIs == Held = View(heap, arrays)
<1>1. \A struct : \A idx : Element(struct, idx) = ElementIn(heap, struct, idx)
  BY InHeap
<1>2. \A struct : Shape(struct) = ShapeIn(heap, struct)
  BY InHeap
<1>3. ASSUME NEW a \in DOMAIN arrays
      PROVE  [dims |-> Shape(arrays[a]),
              elements |-> [idx \in Indices(Shape(arrays[a])) |-> heap[Element(arrays[a], idx)]]]
             = ArrayIn(heap, arrays[a])
  BY <1>1, <1>2 DEF ArrayIn
<1> QED
  BY <1>3 DEF Held, View

\* A step of the model is the same step of the store if that holds before and
\* after it.
LEMMA HeldNext == Held' = View(heap', arrays')
<1>1. (Held = View(heap, arrays))'
  BY HeldIs, PTL
<1> QED
  BY <1>1

\* The indices of the store are those of the model.
LEMMA SameIndices == \A dims : Store!Indices(dims) = Indices(dims)
  BY DEF Store!Indices, Indices

\* Function r is s, which has n elements, with e behind them.
Extends(n, s, e, r) ==
  /\ s \in [1..n -> {s[a] : a \in 1..n}]
  /\ r = [a \in 1..n + 1 |-> r[a]]
  /\ r[n + 1] = e /\ \A a \in 1..n : r[a] = s[a]

\* So it is the sequence.
LEMMA AppendIs ==
  ASSUME NEW n \in Nat, NEW s, NEW e, NEW r, Extends(n, s, e, r)
  PROVE  r = Append(s, e)
<1> DEFINE S == {s[a] : a \in 1..n}
           R == S \cup {e}
           t == Append(s, e)
<1>1. s \in [1..n -> S]
  BY DEF Extends
<1> HIDE DEF S
<1>2. e \in R /\ \A x \in S : x \in R
  OBVIOUS
<1> HIDE DEF R
<1>3. s \in [1..n -> R]
  BY ONLY <1>1, <1>2
<1>4. s \in Seq(R) /\ Len(s) = n
  BY ONLY <1>3, n \in Nat
<1>5. t \in Seq(R) /\ Len(t) = n + 1
  BY ONLY <1>2, <1>4, n \in Nat
<1>6. t[n + 1] = e
  BY ONLY <1>2, <1>4, n \in Nat
<1>7. ASSUME NEW a \in 1..n
      PROVE  t[a] = s[a]
  <2>1. a \in Nat /\ 1 <= a /\ a <= Len(s)
    BY ONLY <1>4, n \in Nat, a \in 1..n
  <2> QED
    BY ONLY <1>2, <1>4, <2>1
<1> HIDE DEF t
<1>8. t \in [1..n + 1 -> R]
  BY ONLY <1>5, n \in Nat
<1>9. \A a \in 1..n + 1 : t[a] = r[a]
  <2>1. \A a \in 1..n + 1 : a \in 1..n \/ a = n + 1
    OBVIOUS
  <2>2. r[n + 1] = e /\ \A a \in 1..n : r[a] = s[a]
    BY DEF Extends
  <2> QED
    BY ONLY <1>6, <1>7, <2>1, <2>2
<1>10. t = [a \in 1..n + 1 |-> t[a]]
  BY ONLY <1>8
<1>11. r = [a \in 1..n + 1 |-> r[a]]
  BY DEF Extends
<1>12. t = r
  BY ONLY <1>9, <1>10, <1>11
<1> QED
  BY <1>12 DEF t

\* An array stays what it is if its struct and its elements do.
LEMMA ArrayKept ==
  ASSUME NEW h, NEW g, NEW struct, h \in Seq(Words), Laid(h, struct),
         SameStruct(h, g, struct), \A x \in BlockIn(h, struct) : g[x] = h[x]
  PROVE  ArrayIn(g, struct) = ArrayIn(h, struct)
<1> DEFINE I == Indices(ShapeIn(h, struct))
<1>1. ShapeIn(g, struct) = ShapeIn(h, struct)
      /\ \A idx \in I : ElementIn(g, struct, idx) = ElementIn(h, struct, idx)
  BY DEF SameStruct
<1>2. \A idx \in I : ElementIn(h, struct, idx) \in BlockIn(h, struct)
  BY ElementsOf DEF BlockIn
<1>3. \A idx \in I : g[ElementIn(g, struct, idx)] = h[ElementIn(h, struct, idx)]
  BY <1>1, <1>2
<1> QED
  BY <1>1, <1>3 DEF ArrayIn

\* The memory of an array lies in the heap.
LEMMA BlockInHeap ==
  ASSUME NEW h, NEW struct, h \in Seq(Words), Laid(h, struct), NEW x \in BlockIn(h, struct)
  PROVE  x \in 1..Len(h)
<1> DEFINE L == Len(h)
           D == DimsIn(h, struct)
           P == PointerIn(h, struct)
           E == EndIn(h, struct)
<1>1. /\ struct \in Nat /\ L \in Nat /\ D \in Nat /\ P \in Nat /\ P = struct + 2 + D
      /\ E \in Nat /\ E <= L + 1
  BY Addresses
<1>2. x \in P..E - 1
  BY DEF BlockIn
<1> SUFFICES x \in 1..L
  OBVIOUS
<1> HIDE DEF L, D, P, E
<1> QED
  BY ONLY <1>1, <1>2

\* A definition appends its array to the store.
LEMMA ViewNew ==
  ASSUME NEW h, NEW arr, Sound(h, arr), NEW dims \in Defined, NEW elements \in Seq(Words),
         Len(elements) = Product(dims),
         NEW g, NEW new, Grown(h, arr, dims, elements, g, new)
  PROVE  View(g, new) = Append(View(h, arr), ArrayIn(g, Len(h) + 1))
<1> DEFINE n == Len(arr)
           s == View(h, arr)
           r == View(g, new)
           e == ArrayIn(g, Len(h) + 1)
<1>1. h \in Seq(Words) /\ arr \in Seq(Nat) /\ n \in Nat /\ DOMAIN arr = 1..n
  BY DEF Sound
<1>2. /\ new \in Seq(Nat) /\ Len(new) = n + 1 /\ new[n + 1] = Len(h) + 1
      /\ \A a \in DOMAIN arr : new[a] = arr[a] /\ SameStruct(h, g, arr[a])
  <2>1. /\ Sound(g, new) /\ Len(new) = Len(arr) + 1 /\ new[Len(new)] = Len(h) + 1
        /\ \A a \in DOMAIN arr : new[a] = arr[a] /\ SameStruct(h, g, arr[a])
    BY SoundNew
  <2> QED
    BY <2>1 DEF Sound
<1>3. DOMAIN new = 1..n + 1
  BY <1>1, <1>2
<1>4. \A x \in 1..Len(h) : g[x] = h[x]
  BY <1>1, LaidNew DEF Grown
<1>5. ASSUME NEW a \in 1..n
      PROVE  ArrayIn(g, new[a]) = ArrayIn(h, arr[a])
  <2>1. a \in DOMAIN arr /\ Laid(h, arr[a]) /\ new[a] = arr[a] /\ SameStruct(h, g, arr[a])
    BY <1>1, <1>2 DEF Sound
  <2>2. \A x \in BlockIn(h, arr[a]) : g[x] = h[x]
    BY <1>1, <1>4, <2>1, BlockInHeap
  <2> QED
    BY <1>1, <2>1, <2>2, ArrayKept
<1>6. s = [a \in 1..n |-> ArrayIn(h, arr[a])] /\ r = [a \in 1..n + 1 |-> ArrayIn(g, new[a])]
  BY <1>1, <1>3 DEF View
<1> HIDE DEF s, r, e, n
<1>7. s \in [1..n -> {s[a] : a \in 1..n}]
  BY ONLY <1>6
<1>8. r = [a \in 1..n + 1 |-> r[a]]
  BY ONLY <1>6
<1>9. n + 1 \in 1..n + 1 /\ \A a \in 1..n : a \in 1..n + 1
  BY <1>1
<1>10. r[n + 1] = e
  BY <1>2, <1>6, <1>9 DEF e
<1>11. \A a \in 1..n : r[a] = s[a]
  BY <1>5, <1>6, <1>9
<1>12. r = Append(s, e)
  <2>1. n \in Nat /\ Extends(n, s, e, r)
    BY <1>1, <1>7, <1>8, <1>10, <1>11 DEF Extends
  <2> QED
    BY ONLY <2>1, AppendIs
<1> QED
  BY <1>12 DEF r, s, e

\* Its elements are the words that the memory was filled with.
LEMMA NewElement ==
  ASSUME NEW h \in Seq(Words), NEW dims \in Defined, NEW elements \in Seq(Words),
         Len(elements) = Product(dims), NEW g, g = Allocated(h, dims, elements),
         NEW idx \in Indices(dims)
  PROVE  /\ ShapeIn(g, Len(h) + 1) = dims /\ Reads(g, Len(h) + 1, dims)
         /\ OffsetIn(g, Len(h) + 1, idx) \in 0..Len(elements) - 1
         /\ g[ElementIn(g, Len(h) + 1, idx)] = elements[OffsetIn(g, Len(h) + 1, idx) + 1]
<1> DEFINE struct == Len(h) + 1
           o == OffsetIn(g, struct, idx)
           p == PointerIn(g, struct)
           n == Len(elements)
<1>1. /\ g \in Seq(Words) /\ Laid(g, struct) /\ ShapeIn(g, struct) = dims
      /\ \A k \in 1..n : g[(p + k) - 1] = elements[k]
  BY LaidNew
<1> HIDE DEF struct
<1>2. Reads(g, struct, dims) /\ OffsetsRight(g, struct, dims) /\ p \in Nat
  BY <1>1, LaidFacts, Addresses
<1>3. o \in 0..n - 1
  BY <1>2 DEF OffsetsRight
<1>4. n \in Nat
  OBVIOUS
<1>5. ElementIn(g, struct, idx) = p + o
  BY DEF ElementIn
<1> HIDE DEF o, p, n
<1>6. o + 1 \in 1..n /\ (p + (o + 1)) - 1 = p + o
  BY <1>2, <1>3, <1>4
<1>7. g[p + o] = elements[o + 1]
  BY <1>1, <1>6
<1> QED
  BY <1>1, <1>2, <1>3, <1>5, <1>7 DEF o, n, struct

\* With one dimension the index is the place.
LEMMA OneIndex ==
  ASSUME NEW n \in Nat, NEW h, NEW struct, NEW dims, dims = <<n>>, Reads(h, struct, dims),
         NEW idx \in Indices(dims)
  PROVE  OffsetIn(h, struct, idx) = idx[1]
<1>1. Sized(dims) /\ Len(dims) = 1
  BY DEF Sized
<1>2. PICK M, A : Strides(dims, M) /\ Sums(dims, M, idx, A) /\ OffsetIn(h, struct, idx) = A[1]
  BY <1>1, OffsetSums
<1>3. A[1] = idx[1]
  BY <1>1, <1>2 DEF Sums
<1> QED
  BY <1>2, <1>3

\* A definition of a mutable array is one of the store.
LEMMA StoreDefine ==
  ASSUME IInv, NEW dims \in Shapes, Allocate(dims, Unwritten(Product(dims)))
  PROVE  Store!Define(dims)
<1> DEFINE elements == Unwritten(Product(dims))
           struct == Len(heap) + 1
<1>1. /\ dims \in Defined /\ Sound(heap, arrays) /\ heap \in Seq(Words)
      /\ elements \in Seq(Words) /\ Len(elements) = Product(dims)
  BY UnwrittenWords DEF Defined, IInv, Sound
<1>2. Product(dims) \in Nat /\ \A k \in 1..Product(dims) : elements[k] = Unset
  BY <1>1, ProductNat DEF Unwritten
<1> HIDE DEF elements
<1>3. /\ heap' = Allocated(heap, dims, elements) /\ Grown(heap, arrays, dims, elements, heap', arrays')
      /\ UNCHANGED <<of, result>>
  BY AllocateMeans DEF elements, Grown
<1>4. View(heap', arrays') = Append(View(heap, arrays), ArrayIn(heap', struct))
  BY <1>1, <1>3, ViewNew
<1>5. \A idx \in Indices(dims) :
        /\ OffsetIn(heap', struct, idx) \in 0..Product(dims) - 1
        /\ heap'[ElementIn(heap', struct, idx)] = elements[OffsetIn(heap', struct, idx) + 1]
  BY <1>1, <1>3, NewElement
<1>6. ShapeIn(heap', struct) = dims
  BY <1>1, <1>3, LaidNew
<1> HIDE DEF struct
<1>7. ASSUME NEW idx \in Indices(dims)
      PROVE  heap'[ElementIn(heap', struct, idx)] = Unset
  <2> DEFINE o == OffsetIn(heap', struct, idx)
  <2>1. o \in 0..Product(dims) - 1 /\ heap'[ElementIn(heap', struct, idx)] = elements[o + 1]
    BY <1>5
  <2> HIDE DEF o
  <2>2. o + 1 \in 1..Product(dims)
    BY <1>2, <2>1
  <2> QED
    BY <1>2, <2>1, <2>2
<1>8. ArrayIn(heap', struct) = [dims |-> dims, elements |-> [idx \in Indices(dims) |-> Unset]]
  BY <1>6, <1>7 DEF ArrayIn
<1>9. Held' = Append(Held, Store!Array(dims, [idx \in Store!Indices(dims) |-> Unset]))
  BY <1>4, <1>8, HeldIs, HeldNext, SameIndices DEF Store!Array
<1> QED
  BY <1>3, <1>9 DEF Store!Define

\* A literal is one of the store.
LEMMA StoreLiteral ==
  ASSUME IInv, NEW s \in Strings, Allocate(<<Len(s)>>, s)
  PROVE  Store!Literal(s)
<1> DEFINE dims == <<Len(s)>>
           struct == Len(heap) + 1
<1>1. /\ dims \in Defined /\ Sound(heap, arrays) /\ heap \in Seq(Words)
      /\ s \in Seq(Words) /\ Len(s) = Product(dims)
  BY LiteralWords DEF IInv, Sound
<1>2. Len(s) \in Nat
  BY <1>1
<1>3. /\ heap' = Allocated(heap, dims, s) /\ Grown(heap, arrays, dims, s, heap', arrays')
      /\ UNCHANGED <<of, result>>
  BY AllocateMeans DEF Grown
<1>d. dims = <<Len(s)>>
  OBVIOUS
<1> HIDE DEF dims
<1>4. View(heap', arrays') = Append(View(heap, arrays), ArrayIn(heap', struct))
  BY <1>1, <1>3, ViewNew
<1>5. \A idx \in Indices(dims) :
        heap'[ElementIn(heap', struct, idx)] = s[OffsetIn(heap', struct, idx) + 1]
  BY <1>1, <1>3, NewElement
<1>6. ShapeIn(heap', struct) = dims /\ Laid(heap', struct) /\ heap' \in Seq(Words)
  BY <1>1, <1>3, LaidNew
<1> HIDE DEF struct
<1>7. Reads(heap', struct, dims)
  BY <1>6, LaidFacts
<1>8. \A idx \in Indices(dims) : OffsetIn(heap', struct, idx) = idx[1]
  BY <1>2, <1>d, <1>7, OneIndex
<1>9. ArrayIn(heap', struct) = [dims |-> dims, elements |-> [idx \in Indices(dims) |-> s[idx[1] + 1]]]
  BY <1>5, <1>6, <1>8 DEF ArrayIn
<1>10. Held' = Append(Held, Store!Array(<<Len(s)>>, [idx \in Store!Indices(<<Len(s)>>) |-> s[idx[1] + 1]]))
  BY <1>4, <1>9, <1>d, HeldIs, HeldNext, SameIndices DEF Store!Array
<1> QED
  BY <1>3, <1>10 DEF Store!Literal

\* Heap g is h with v in the element at idx.
Writes(h, g, struct, idx, v) == g = [h EXCEPT ![ElementIn(h, struct, idx)] = v]

\* A store through the pointer writes the element in the array, and no other.
LEMMA ArrayWritten ==
  ASSUME NEW h, NEW g, NEW struct, h \in Seq(Words), Laid(h, struct), SameStruct(h, g, struct),
         NEW idx \in Indices(ShapeIn(h, struct)), NEW v, Writes(h, g, struct, idx, v)
  PROVE  ArrayIn(g, struct) = [ArrayIn(h, struct) EXCEPT !.elements[idx] = v]
<1> DEFINE I == Indices(ShapeIn(h, struct))
           f == [j \in I |-> h[ElementIn(h, struct, j)]]
           k == [j \in I |-> g[ElementIn(g, struct, j)]]
<1>1. /\ ShapeIn(g, struct) = ShapeIn(h, struct)
      /\ \A j \in I : ElementIn(g, struct, j) = ElementIn(h, struct, j)
  BY DEF SameStruct
<1>2. \A j \in I : ElementIn(h, struct, j) \in BlockIn(h, struct)
  BY ElementsOf DEF BlockIn
<1>3. \A j \in I : ElementIn(h, struct, j) \in DOMAIN h
  BY <1>2, BlockInHeap
<1>4. \A j \in I : ElementIn(h, struct, j) = ElementIn(h, struct, idx) => j = idx
  BY ElementsOf
<1>5. \A j \in I : g[ElementIn(h, struct, j)] = IF j = idx THEN v ELSE h[ElementIn(h, struct, j)]
  BY <1>3, <1>4 DEF Writes
<1>6. \A j \in I : k[j] = IF j = idx THEN v ELSE f[j]
  BY <1>1, <1>5
<1>7. ArrayIn(h, struct) = [dims |-> ShapeIn(h, struct), elements |-> f]
      /\ ArrayIn(g, struct) = [dims |-> ShapeIn(h, struct), elements |-> k]
  BY <1>1 DEF ArrayIn
<1>8. f = [j \in I |-> f[j]] /\ k = [j \in I |-> k[j]]
  OBVIOUS
<1> HIDE DEF f, k, I
<1>9. k = [f EXCEPT ![idx] = v]
  BY <1>6, <1>8
<1>10. [ArrayIn(h, struct) EXCEPT !.elements[idx] = v]
         = [dims |-> ShapeIn(h, struct), elements |-> [f EXCEPT ![idx] = v]]
  BY <1>7
<1> QED
  BY <1>7, <1>9, <1>10

\* What the store has of an array.
LEMMA HeldArray ==
  ASSUME IInv, NEW a \in DOMAIN arrays
  PROVE  /\ a \in DOMAIN Held /\ Held[a] = ArrayIn(heap, arrays[a])
         /\ Held[a].dims = ShapeIn(heap, arrays[a])
         /\ \A idx \in Indices(ShapeIn(heap, arrays[a])) :
              Held[a].elements[idx] = heap[ElementIn(heap, arrays[a], idx)]
         /\ Laid(heap, arrays[a]) /\ heap \in Seq(Words)
<1>1. a \in DOMAIN Held /\ Held[a] = ArrayIn(heap, arrays[a])
  BY HeldIs DEF View
<1>2. Laid(heap, arrays[a]) /\ heap \in Seq(Words)
  BY DEF IInv, Sound
<1> QED
  BY <1>1, <1>2 DEF ArrayIn

\* Where heap and arrays stay, the store stays.
LEMMA HeldStays ==
  ASSUME heap' = heap, arrays' = arrays
  PROVE  Held' = Held
  BY HeldIs, HeldNext

\* An index expression is one of the store.
LEMMA StoreIndex ==
  ASSUME IInv, Index
  PROVE  \E a \in DOMAIN Held : \E idx \in Store!Indices(Held[a].dims) : Store!Index(a, idx)
<1>1. PICK a \in DOMAIN arrays : \E idx \in Indices(Shape(arrays[a])) :
        ref' = Element(arrays[a], idx) /\ of' = <<a, idx>>
  BY DEF Index
<1>2. PICK idx \in Indices(Shape(arrays[a])) : of' = <<a, idx>>
  BY <1>1
<1>3. a \in DOMAIN Held /\ Held[a].dims = Shape(arrays[a])
  BY HeldArray, InHeap
<1>4. idx \in Store!Indices(Held[a].dims)
  BY <1>2, <1>3, SameIndices
<1>5. Held' = Held /\ result' = result
  BY HeldStays DEF Index
<1>6. Store!Index(a, idx)
  BY <1>2, <1>5 DEF Store!Index
<1> QED
  BY <1>3, <1>4, <1>6

\* The pointer and what it was made from.
LEMMA Points ==
  ASSUME IInv, ref # 0
  PROVE  \E a \in DOMAIN arrays : \E idx \in Indices(ShapeIn(heap, arrays[a])) :
           /\ of = <<a, idx>> /\ ref = ElementIn(heap, arrays[a], idx)
           /\ ref \in BlockIn(heap, arrays[a])
  BY PointedIn DEF IInv

\* An assignment is a write to the store.
LEMMA StoreWrite ==
  ASSUME IInv, Assign
  PROVE  \E v \in Values : Store!Write(v)
<1>1. PICK v \in Values : heap' = [heap EXCEPT ![ref] = v]
  BY DEF Assign
<1>2. ref # 0 /\ arrays' = arrays /\ of' = of /\ result' = result
  BY DEF Assign
<1>3. PICK a \in DOMAIN arrays : \E idx \in Indices(ShapeIn(heap, arrays[a])) :
        of = <<a, idx>> /\ ref = ElementIn(heap, arrays[a], idx) /\ ref \in BlockIn(heap, arrays[a])
  BY <1>2, Points
<1>4. PICK idx \in Indices(ShapeIn(heap, arrays[a])) :
        of = <<a, idx>> /\ ref = ElementIn(heap, arrays[a], idx) /\ ref \in BlockIn(heap, arrays[a])
  BY <1>3
<1>5. \A b \in DOMAIN arrays : SameStruct(heap, heap', arrays[b])
  BY AssignKeeps
<1>6. Sound(heap, arrays) /\ heap \in Seq(Words) /\ \A b \in DOMAIN arrays : Laid(heap, arrays[b])
  BY DEF IInv, Sound
<1>7. ArrayIn(heap', arrays[a]) = [ArrayIn(heap, arrays[a]) EXCEPT !.elements[idx] = v]
  <2>1. Writes(heap, heap', arrays[a], idx, v)
    BY <1>1, <1>4 DEF Writes
  <2> QED
    BY <1>4, <1>5, <1>6, <2>1, ArrayWritten
<1>8. ASSUME NEW b \in DOMAIN arrays, b # a
      PROVE  ArrayIn(heap', arrays[b]) = ArrayIn(heap, arrays[b])
  <2>1. ref \notin BlockIn(heap, arrays[b])
    BY <1>4, <1>6, <1>8, Apart
  <2>2. \A x \in BlockIn(heap, arrays[b]) : x \in DOMAIN heap
    BY <1>6, BlockInHeap
  <2>3. \A x \in BlockIn(heap, arrays[b]) : heap'[x] = heap[x]
    BY <1>1, <2>1, <2>2
  <2> QED
    BY <1>5, <1>6, <2>3, ArrayKept
<1>9. View(heap', arrays) = [View(heap, arrays) EXCEPT ![a].elements[idx] = v]
  <2> DEFINE s == [b \in DOMAIN arrays |-> ArrayIn(heap, arrays[b])]
             t == [b \in DOMAIN arrays |-> ArrayIn(heap', arrays[b])]
  <2>1. \A b \in DOMAIN arrays :
          t[b] = IF b = a THEN [s[b] EXCEPT !.elements[idx] = v] ELSE s[b]
    BY <1>7, <1>8
  <2>2. t = [s EXCEPT ![a].elements[idx] = v]
    BY <2>1
  <2> QED
    BY <2>2 DEF View
<1>10. Held' = [Held EXCEPT ![of[1]].elements[of[2]] = v]
  BY <1>2, <1>4, <1>9, HeldIs, HeldNext
<1>11. of # <<>>
  BY <1>4
<1> QED
  BY <1>2, <1>10, <1>11 DEF Store!Write

\* A dereference is a read of the store.
LEMMA StoreRead ==
  ASSUME IInv, Deref
  PROVE  Store!Read
<1>1. ref # 0 /\ heap' = heap /\ arrays' = arrays /\ of' = of /\ result' = heap[ref]
  BY DEF Deref
<1>2. PICK a \in DOMAIN arrays : \E idx \in Indices(ShapeIn(heap, arrays[a])) :
        of = <<a, idx>> /\ ref = ElementIn(heap, arrays[a], idx)
  BY <1>1, Points
<1>3. PICK idx \in Indices(ShapeIn(heap, arrays[a])) :
        of = <<a, idx>> /\ ref = ElementIn(heap, arrays[a], idx)
  BY <1>2
<1>4. Held[a].elements[idx] = heap[ref]
  BY <1>3, HeldArray
<1>5. of # <<>> /\ result' = Held[of[1]].elements[of[2]]
  BY <1>1, <1>3, <1>4
<1>6. Held' = Held
  BY <1>1, HeldStays
<1> QED
  BY <1>1, <1>5, <1>6 DEF Store!Read

\* dim is one of the store.
LEMMA StoreDim ==
  ASSUME IInv, Dim
  PROVE  \E a \in DOMAIN Held : \E k \in 0..Len(Held[a].dims) : Store!Dim(a, k)
<1>1. PICK a \in DOMAIN arrays : \E k \in 0..Dims(arrays[a]) : result' = Field(arrays[a], k + 1)
  BY DEF Dim
<1>2. PICK k \in 0..Dims(arrays[a]) : result' = Field(arrays[a], k + 1)
  BY <1>1
<1> DEFINE s == arrays[a]
           dims == ShapeIn(heap, s)
           D == DimsIn(heap, s)
<1>3. /\ a \in DOMAIN Held /\ Held[a].dims = dims /\ Laid(heap, s) /\ heap \in Seq(Words)
  BY HeldArray
<1>4. /\ D \in Nat /\ Len(dims) = D /\ Reads(heap, s, dims) /\ s \in Nat
  BY <1>3, LaidFacts, Addresses
<1>5. k \in 0..D /\ result' = heap[s + (k + 1)]
  BY <1>2, InHeap DEF Field
<1>6. D = heap[s + 1]
  BY DEF DimsIn
<1> HIDE DEF dims, D, s
<1>7. result' = IF k = 0 THEN Len(dims) ELSE dims[k]
  <2>1. CASE k = 0
    <3>1. s + (k + 1) = s + 1
      BY <1>4, <2>1
    <3> QED
      BY <1>4, <1>5, <1>6, <2>1, <3>1
  <2>2. CASE k # 0
    <3>1. k \in 1..Len(dims)
      BY <1>4, <1>5, <2>2
    <3> QED
      BY <1>4, <1>5, <2>2, <3>1 DEF Reads
  <2> QED
    BY <2>1, <2>2
<1>8. Held' = Held /\ of' = of
  BY HeldStays DEF Dim
<1>9. k \in 0..Len(Held[a].dims)
  BY <1>3, <1>4, <1>5
<1>10. Store!Dim(a, k)
  BY <1>3, <1>7, <1>8 DEF Store!Dim
<1> QED
  BY <1>3, <1>9, <1>10

\* At the start there is no array.
LEMMA StoreInit == Init => Store!Init
<1> SUFFICES ASSUME Init
             PROVE  Store!Init
  OBVIOUS
<1>1. arrays = <<>> /\ of = <<>> /\ result = Unset
  BY DEF Init
<1>2. DOMAIN arrays = {}
  BY <1>1
<1>3. Held = <<>>
  BY <1>2 DEF Held
<1> QED
  BY <1>1, <1>3 DEF Store!Init

\* A step of the model is a step of the store, or leaves it as it is.
LEMMA StoreNext == IInv /\ [Next]_vars => [Store!Next]_<<of, result, Held>>
<1> SUFFICES ASSUME IInv, [Next]_vars
             PROVE  [Store!Next]_<<of, result, Held>>
  OBVIOUS
<1>1. CASE MutableArrayDef
  <2>1. \E dims \in Shapes : Store!Define(dims)
    BY <1>1, StoreDefine DEF MutableArrayDef
  <2> QED
    BY <2>1 DEF Store!Next
<1>2. CASE Literal
  <2>1. \E s \in Strings : Store!Literal(s)
    BY <1>2, StoreLiteral DEF Literal
  <2> QED
    BY <2>1 DEF Store!Next
<1>3. CASE Index
  BY <1>3, StoreIndex DEF Store!Next
<1>4. CASE Assign
  BY <1>4, StoreWrite DEF Store!Next
<1>5. CASE Deref
  BY <1>5, StoreRead DEF Store!Next
<1>6. CASE Dim
  BY <1>6, StoreDim DEF Store!Next
<1>7. CASE UNCHANGED vars
  <2>1. Held' = Held
    BY <1>7, HeldStays DEF vars
  <2> QED
    BY <1>7, <2>1 DEF vars
<1> QED
  BY <1>1, <1>2, <1>3, <1>4, <1>5, <1>6, <1>7 DEF Next

\* The code that is generated for definitions, literals, index expressions,
\* assignments, ! and dim keeps what the language promises of arrays, for any
\* shapes and strings and any order of steps: each definition makes a new array
\* whose dimensions stay, and a write changes one element of one array.
THEOREM ArraysImplementStore == Spec => Implements
<1>1. Init => Store!Init
  BY StoreInit
<1>2. IInv /\ [Next]_vars => [Store!Next]_<<of, result, Held>>
  BY StoreNext
<1> QED
  BY <1>1, <1>2, Always, PTL DEF Spec, Implements, Store!Spec
=============================================================================
