---------------------------- MODULE TypingProofs ----------------------------
(***************************************************************************)
(* Proofs about Typing, for every nesting of types and any number of       *)
(* operands.  An operand is Good if its value has the LLVM type that its   *)
(* type asks for, or is one of those that are known not to; every class    *)
(* makes a good operand of good ones, and operands that fit leave no fault *)
(* but those that sem() overlooks.                                         *)
(***************************************************************************)
EXTENDS Typing, TLAPS

Good(v) ==
  \/ Fits(v)
  \/ ~Wrapped(v.llvm) /\ (IsComparison(v) \/ IsBits(v) \/ IsLost(v))

AllGood == \A i \in 1..Len(operands) : Good(operands[i])

\* The inductive invariant.
TypingInv == TypeOK /\ AllGood /\ AcceptedIsWellFormed

\* The top k operands have values of their types.
Fit(k) == \A i \in 0..k - 1 : Fits(Top(i))

-----------------------------------------------------------------------------
(* Types and their LLVM types.                                             *)

\* The dimensions of types may be any of these.
LEMMA BoundIsNat == MaxWraps \in Nat /\ Pointer \in 0..MaxWraps
  BY BoundsAssumption DEF BoundsAssumption, Pointer

\* The simple types are types, and so are the types of the library.
LEMMA SimpleTypes ==
  /\ intType \in Type /\ charType \in Type
  /\ boolType \in Type /\ unitType \in Type
  /\ stringType \in Type /\ IntRef \in Type
<1>1. /\ intType \in Type /\ charType \in Type
      /\ boolType \in Type /\ unitType \in Type
  BY DEF intType, charType, boolType, unitType, Simple, Type, Wraps, Proper, Base
<1>2. 1 \in 0..MaxWraps /\ Pointer \in 0..MaxWraps
  BY BoundsAssumption DEF BoundsAssumption, Pointer
<1>3. IntRef \in Type
  BY <1>2 DEF IntRef, Ref, Wrap, intType, Simple, Type, Wraps, Proper, Base
<1>4. stringType = [base |-> "char", wraps |-> <<Pointer, 1>>]
  BY DEF stringType, ArrayOf, Ref, Wrap, charType, Simple
<1>5. stringType \in Type
  BY <1>2, <1>4 DEF Type, Wraps, Proper, Base, Pointer
<1> QED BY <1>1, <1>3, <1>5

\* Every type of the program is a type.
LEMMA SomeTypesAreTypes == SomeType \subseteq Type
<1>1. SUFFICES ASSUME NEW t \in SomeType PROVE t \in Type
  OBVIOUS
<1>2. t \in [base: Base, wraps: SomeWraps]
  BY <1>1 DEF SomeType
<1>3. PICK n \in 0..2 * MaxWraps : t.wraps \in [1..n -> 0..MaxWraps]
  BY <1>2 DEF SomeWraps
<1>4. t.wraps \in Seq(0..MaxWraps) /\ Proper(t.wraps)
  BY <1>2, <1>3, BoundIsNat DEF SomeWraps
<1> QED BY <1>2, <1>4 DEF Type, Wraps

\* The beginning of a sequence.
LEMMA FrontOf ==
  ASSUME NEW S, NEW w \in Seq(S), NEW n \in 0..Len(w)
  PROVE  /\ SubSeq(w, 1, n) \in Seq(S) /\ Len(SubSeq(w, 1, n)) = n
         /\ \A i \in 1..n : SubSeq(w, 1, n)[i] = w[i]
  OBVIOUS

\* What a sequence with an element more holds.
LEMMA AppendOf ==
  ASSUME NEW S, NEW w \in Seq(S), NEW e \in S
  PROVE  /\ Append(w, e) \in Seq(S) /\ Len(Append(w, e)) = Len(w) + 1
         /\ \A i \in 1..Len(w) : Append(w, e)[i] = w[i]
         /\ Append(w, e)[Len(w) + 1] = e
  OBVIOUS

\* getLLVMType() keeps what is around a base type: what it unwraps is a ref.
LEMMA LLVMOfProper ==
  ASSUME NEW t \in Type
  PROVE  LLVMOf(t) = [base |-> Machine[t.base], wraps |-> t.wraps]
<1> DEFINE w == t.wraps
           ofElement(i) == i < Len(w) /\ w[i + 1] # Pointer
           l == [i \in 1..Len(w) |-> IF ofElement(i) THEN Pointer ELSE w[i]]
<1>1. w \in Seq(0..MaxWraps) /\ Proper(w)
  BY DEF Type, Wraps
<1>2. ASSUME NEW i \in 1..Len(w) PROVE l[i] = w[i]
  <2>1. CASE ofElement(i)
    <3>1. i + 1 \in 1..Len(w) /\ (i + 1) - 1 = i /\ Len(w) \in Nat
      BY <1>1, <2>1
    <3>2. w[i] = Pointer
      BY <1>1, <2>1, <3>1 DEF Proper
    <3> QED BY <3>2
  <2> QED BY <2>1
<1>3. l = w
  <2>1. w = [i \in 1..Len(w) |-> w[i]]
    BY <1>1
  <2>2. l = [i \in 1..Len(w) |-> w[i]]
    BY <1>2
  <2> QED BY <2>1, <2>2
<1>4. LLVMOf(t) = [base |-> Machine[t.base], wraps |-> l]
  BY DEF LLVMOf
<1> QED BY <1>3, <1>4

\* getLLVMType() keeps refs and arrays.
LEMMA LLVMOfType ==
  ASSUME NEW t \in Type
  PROVE  /\ LLVMOf(t) \in LLVMType
         /\ LLVMOf(t) # NoValue
         /\ Wrapped(LLVMOf(t)) <=> Wrapped(t)
         /\ IsRef(LLVMOf(t)) <=> IsRef(t)
         /\ IsArray(LLVMOf(t)) <=> IsArray(t)
<1>1. t.base \in Base /\ t.wraps \in Wraps
  BY DEF Type
<1>2. Machine[t.base] \in {"unit", "i32", "i8", "i1"}
  BY <1>1 DEF Base, Machine
<1>3. LLVMOf(t).base = Machine[t.base] /\ LLVMOf(t).wraps = t.wraps
  BY LLVMOfProper
<1>4. LLVMOf(t) \in LLVMType
  BY <1>1, <1>2, LLVMOfProper DEF LLVMType
<1>5. LLVMOf(t) # NoValue
  BY <1>2, <1>3 DEF NoValue
<1> QED BY <1>3, <1>4, <1>5 DEF Wrapped, IsRef, IsArray, Outer

\* What a ref points to and the refs that an array holds are types.
LEMMA InsideType ==
  ASSUME NEW t \in Type, Wrapped(t)
  PROVE  /\ Inside(t) \in Type
         /\ LLVMOf(Inside(t)) = Inside(LLVMOf(t))
<1> DEFINE w == t.wraps
           s == SubSeq(w, 1, Len(w) - 1)
<1>1. t.base \in Base /\ w \in Seq(0..MaxWraps) /\ Proper(w) /\ w # <<>>
  BY DEF Type, Wraps, Wrapped
<1>2. /\ s \in Seq(0..MaxWraps) /\ Len(s) = Len(w) - 1
      /\ \A i \in 1..Len(s) : s[i] = w[i]
  <2> HIDE DEF w
  <2>1. w \in Seq(0..MaxWraps) /\ Len(w) - 1 \in 0..Len(w)
    BY <1>1
  <2> QED BY <2>1, FrontOf
<1>3. Proper(s)
  BY <1>1, <1>2 DEF Proper
<1>4. Inside(t) = [base |-> t.base, wraps |-> s] /\ Inside(t) \in Type
  BY <1>1, <1>2, <1>3 DEF Inside, Type, Wraps
<1>5. LLVMOf(Inside(t)) = [base |-> Machine[t.base], wraps |-> s]
  BY <1>4, LLVMOfProper
<1>6. Inside(LLVMOf(t)) = [base |-> Machine[t.base], wraps |-> s]
  <2>1. LLVMOf(t).base = Machine[t.base] /\ LLVMOf(t).wraps = w
    BY LLVMOfProper
  <2> QED BY <2>1 DEF Inside
<1> QED BY <1>4, <1>5, <1>6

\* A ref to a type is one.
LEMMA RefType ==
  ASSUME NEW t \in Type
  PROVE  /\ Ref(t) \in Type
         /\ LLVMOf(Ref(t)) = Ref(LLVMOf(t))
<1> DEFINE w == t.wraps
           s == Append(w, Pointer)
<1>1. t.base \in Base /\ w \in Seq(0..MaxWraps) /\ Proper(w)
  BY DEF Type, Wraps
<1>2. s \in Seq(0..MaxWraps) /\ Proper(s)
  <2> HIDE DEF w
  <2>1. /\ s \in Seq(0..MaxWraps) /\ Len(s) = Len(w) + 1
        /\ \A i \in 1..Len(w) : s[i] = w[i]
        /\ s[Len(w) + 1] = Pointer /\ Len(w) \in Nat
    BY <1>1, BoundIsNat, AppendOf
  <2> QED BY <1>1, <2>1 DEF Proper
<1>3. Ref(t) = [base |-> t.base, wraps |-> s] /\ Ref(t) \in Type
  BY <1>1, <1>2 DEF Ref, Wrap, Type, Wraps
<1>4. LLVMOf(Ref(t)) = [base |-> Machine[t.base], wraps |-> s]
  BY <1>3, LLVMOfProper
<1>5. Ref(LLVMOf(t)) = [base |-> Machine[t.base], wraps |-> s]
  BY LLVMOfProper DEF Ref, Wrap
<1> QED BY <1>3, <1>4, <1>5

\* An array of a type is one.
LEMMA ArrayType ==
  ASSUME NEW t \in Type, NEW k \in 1..MaxWraps
  PROVE  ArrayOf(t, k) \in Type
<1> DEFINE w == Ref(t).wraps
           s == Append(w, k)
<1>1. /\ Ref(t).base \in Base /\ w \in Seq(0..MaxWraps) /\ Proper(w)
      /\ w # <<>> /\ w[Len(w)] = Pointer
  <2>1. /\ Ref(t).base \in Base /\ w \in Seq(0..MaxWraps) /\ Proper(w)
    BY RefType DEF Type, Wraps
  <2>2. t.wraps \in Seq(0..MaxWraps) /\ w = Append(t.wraps, Pointer)
    BY DEF Type, Wraps, Ref, Wrap
  <2>3. Len(w) = Len(t.wraps) + 1 /\ w[Len(t.wraps) + 1] = Pointer
    BY <2>2, BoundIsNat, AppendOf
  <2> QED BY <2>1, <2>3
<1>2. k \in 0..MaxWraps
  BY BoundIsNat
<1>3. s \in Seq(0..MaxWraps) /\ Proper(s)
  <2> HIDE DEF w
  <2>1. /\ s \in Seq(0..MaxWraps) /\ Len(s) = Len(w) + 1
        /\ \A i \in 1..Len(w) : s[i] = w[i]
        /\ s[Len(w) + 1] = k /\ Len(w) \in Nat \ {0}
    BY <1>1, <1>2, AppendOf
  <2> QED BY <1>1, <2>1 DEF Proper
<1> QED BY <1>1, <1>3 DEF ArrayOf, Wrap, Type, Wraps

\* A ref type is a ref to what it points to.
LEMMA RefOfInside ==
  ASSUME NEW t \in Type, IsRef(t)
  PROVE  Ref(Inside(t)) = t
<1>1. t = [base |-> t.base, wraps |-> t.wraps] /\ t.wraps \in Seq(0..MaxWraps)
  BY DEF Type, Wraps
<1> DEFINE w == t.wraps
<1>2. w # <<>> /\ w[Len(w)] = Pointer
  BY DEF IsRef, Wrapped, Outer
<1>3. Append(SubSeq(w, 1, Len(w) - 1), Pointer) = w
  BY <1>1, <1>2, BoundIsNat
<1> QED BY <1>1, <1>3 DEF Ref, Wrap, Inside

\* The LLVM types of the simple types.
LEMMA SimpleLLVM ==
  /\ LLVMOf(intType) = I32 /\ LLVMOf(charType) = I8
  /\ LLVMOf(boolType) = I1 /\ LLVMOf(unitType) = UnitValue
  BY SimpleTypes, LLVMOfProper
     DEF intType, charType, boolType, unitType, Simple, Machine,
         I32, I8, I1, UnitValue

\* Integers are no pointers, and nothing is an integer and no value.
LEMMA Integers ==
  /\ \A l \in Integer : l \in LLVMType /\ ~Wrapped(l) /\ l # NoValue
  /\ UnitValue \in LLVMType /\ ~Wrapped(UnitValue) /\ UnitValue # NoValue
  /\ NoValue \in LLVMType /\ ~Wrapped(NoValue)
  BY DEF Integer, I32, I8, I1, UnitValue, NoValue, LLVMType, Wraps, Proper, Wrapped

-----------------------------------------------------------------------------
(* The library.                                                            *)

\* The prototypes of codegenLibs() are the signatures of
\* insertFunctionsToScope() in LLVM types.
LEMMA PrototypesAgree ==
  ASSUME NEW f \in DOMAIN Signature
  PROVE  /\ Len(Signature[f].params) \in {1, 2}
         /\ Signature[f].result \in Type
         /\ Prototype[f].result = LLVMOf(Signature[f].result)
         /\ \A i \in 1..Len(Signature[f].params) :
              Prototype[f].params[i] = LLVMOf(Signature[f].params[i])
<1>1. /\ LLVMOf(stringType) = StringPtr
      /\ LLVMOf(IntRef) = I32Ptr
  BY SimpleTypes, LLVMOfProper
     DEF IntRef, Ref, Wrap, intType, Simple, Machine, StringPtr, I32Ptr
<1> USE <1>1, SimpleLLVM, SimpleTypes
<1>2. CASE f \in {"print_int", "print_string", "print_char", "print_bool"}
  BY <1>2, SMTT(40) DEF Signature, Prototype, Fn
<1>3. CASE f \in {"read_int", "read_bool", "read_char", "read_string"}
  BY <1>3, SMTT(40) DEF Signature, Prototype, Fn
<1>4. CASE f \in {"abs", "incr", "decr", "int_of_char", "char_of_int"}
  BY <1>4, SMTT(40) DEF Signature, Prototype, Fn
<1>5. CASE f = "strlen"
  BY <1>5 DEF Signature, Prototype, Fn
<1>7. CASE f \in {"strcmp", "strcpy", "strcat"}
  <2>1. Signature[f].params = <<stringType, stringType>>
    BY <1>7 DEF Signature, Fn
  <2>2. Prototype[f].params = <<StringPtr, StringPtr>>
    BY <1>7 DEF Prototype, Fn
  <2>3. \/ Signature[f].result = intType /\ Prototype[f].result = I32
        \/ Signature[f].result = unitType /\ Prototype[f].result = UnitValue
    BY <1>7 DEF Signature, Prototype, Fn
  <2> QED BY <2>1, <2>2, <2>3
<1>6. \/ f \in {"print_int", "print_string", "print_char", "print_bool"}
      \/ f \in {"read_int", "read_bool", "read_char", "read_string"}
      \/ f \in {"abs", "incr", "decr", "int_of_char", "char_of_int"}
      \/ f = "strlen" \/ f \in {"strcmp", "strcpy", "strcat"}
  BY DEF Signature
<1> QED BY <1>2, <1>3, <1>4, <1>5, <1>6, <1>7

-----------------------------------------------------------------------------
(* What a step leaves.                                                     *)

\* The operands at hand are good values.
LEMMA TopIsGood ==
  ASSUME TypingInv, NEW k \in Nat, Has(k), NEW i \in 0..k - 1
  PROVE  Top(i) \in Value /\ Good(Top(i))
<1>1. Len(operands) - i \in 1..Len(operands)
  BY DEF TypingInv, TypeOK, Has
<1>2. Top(i) \in Value
  BY <1>1 DEF Top, TypingInv, TypeOK
<1>3. Good(Top(i))
  BY <1>1 DEF Top, TypingInv, AllGood
<1> QED BY <1>2, <1>3

\* Operands that are replaced by a good one are good.
LEMMA ReduceKeeps ==
  ASSUME TypingInv, NEW k \in Nat, Has(k), NEW v \in Value, Good(v),
         Reduce(k, v)
  PROVE  TypingInv'
<1> DEFINE n == Len(operands) - k
           rest == SubSeq(operands, 1, n)
<1>1. operands \in Seq(Value) /\ n \in 0..Len(operands)
  BY DEF TypingInv, TypeOK, Has
<1>2. /\ rest \in Seq(Value) /\ Len(rest) = n
      /\ \A i \in 1..n : rest[i] = operands[i]
  BY <1>1
<1>3. operands' = Append(rest, v) /\ UNCHANGED outcome
  BY DEF Reduce
<1>4. operands' \in Seq(Value) /\ Len(operands') = n + 1
  BY <1>1, <1>2, <1>3
<1>5. ASSUME NEW i \in 1..Len(operands') PROVE Good(operands'[i])
  <2>1. CASE i = n + 1
    BY <1>1, <1>2, <1>3, <2>1
  <2>2. CASE i # n + 1
    <3>1. i \in 1..n
      BY <1>1, <1>4, <2>2
    <3>2. operands'[i] = operands[i] /\ i \in 1..Len(operands)
      BY <1>1, <1>2, <1>3, <3>1
    <3> QED BY <3>2 DEF TypingInv, AllGood
  <2> QED BY <2>1, <2>2
<1>6. TypeOK'
  BY <1>3, <1>4 DEF TypingInv, TypeOK
<1>9. outcome = "ok" /\ "ok" \notin Faults
  BY DEF Has, Running, Faults
<1>7. AllGood'
  BY <1>5 DEF AllGood
<1>8. AcceptedIsWellFormed'
  BY <1>3, <1>9 DEF AcceptedIsWellFormed
<1> QED BY <1>6, <1>7, <1>8 DEF TypingInv

\* The operands of an expression are those on top.
LEMMA LastOperands ==
  ASSUME TypingInv, NEW k \in Nat, Has(k)
  PROVE  /\ Last(k) \in Seq(Value) /\ Len(Last(k)) = k
         /\ \A j \in 1..k : k - j \in 0..k - 1 /\ Last(k)[j] = Top(k - j)
         /\ \A j \in 1..k : Good(Last(k)[j])
<1> DEFINE n == Len(operands)
<1>1. operands \in Seq(Value) /\ n \in Nat /\ k <= n
  BY DEF TypingInv, TypeOK, Has
<1>2. /\ Last(k) \in Seq(Value) /\ Len(Last(k)) = k
      /\ \A j \in 1..k : Last(k)[j] = operands[n - k + j]
  BY <1>1 DEF Last
<1>3. ASSUME NEW j \in 1..k PROVE k - j \in 0..k - 1 /\ Last(k)[j] = Top(k - j)
  BY <1>1, <1>2 DEF Top
<1>4. ASSUME NEW j \in 1..k PROVE Good(Last(k)[j])
  BY <1>3, TopIsGood
<1> QED BY <1>2, <1>3, <1>4

\* The compiler may stop on what sem() rejects, or on a fault that it overlooks, or
\* of operands that do not fit.
LEMMA StopKeeps ==
  ASSUME TypingInv, NEW w \in Faults \cup {"rejected"}, NEW at \in Seq(Value),
         Stop(w, at), \A i \in 1..Len(at) : Good(at[i]),
         w \in Faults => Overlooked(w, at) \/ \E i \in 1..Len(at) : ~Fits(at[i])
  PROVE  TypingInv'
<1>1. operands' = at /\ outcome' = w
  BY DEF Stop
<1>2. TypeOK'
  BY <1>1 DEF TypingInv, TypeOK
<1>3. AllGood'
  BY <1>1 DEF AllGood
<1>4. AcceptedIsWellFormed'
  BY <1>1 DEF AcceptedIsWellFormed
<1> QED BY <1>2, <1>3, <1>4 DEF TypingInv

\* What sem() rejects and what has a fault stop the compiler; the rest has a
\* good value.
LEMMA CheckAtKeeps ==
  ASSUME TypingInv, NEW accepted, NEW faults \in SUBSET Faults,
         NEW at \in Seq(Value), NEW k \in Nat, Has(k), NEW v,
         accepted \in BOOLEAN,
         \A i \in 1..Len(at) : Good(at[i]),
         accepted /\ (\A i \in 1..Len(at) : Fits(at[i]))
           => \A w \in faults : Overlooked(w, at),
         accepted /\ faults = {} => v \in Value /\ Good(v),
         CheckAt(accepted, faults, at, k, v)
  PROVE  TypingInv'
<1>1. CASE ~accepted /\ Stop("rejected", <<>>)
  <2>1. "rejected" \notin Faults
    BY DEF Faults
  <2>2. <<>> \in Seq(Value) /\ Len(<<>>) = 0
    OBVIOUS
  <2>3. \A i \in 1..Len(<<>>) : Good(<<>>[i])
    BY <2>2
  <2> QED BY <1>1, <2>1, <2>2, <2>3, StopKeeps
<1>2. CASE accepted /\ \E w \in faults : Stop(w, at)
  <2>1. PICK w \in faults : Stop(w, at)
    BY <1>2
  <2>2. Overlooked(w, at) \/ \E i \in 1..Len(at) : ~Fits(at[i])
    BY <1>2, <2>1
  <2> QED BY <2>1, <2>2, StopKeeps
<1>3. CASE accepted /\ faults = {} /\ Reduce(k, v)
  BY <1>3, ReduceKeeps
<1> QED BY <1>1, <1>2, <1>3 DEF CheckAt

\* The same of the operands on top, if all instructions are made of these.
LEMMA CheckKeeps ==
  ASSUME TypingInv, NEW accepted, NEW faults \in SUBSET Faults,
         NEW k \in Nat, Has(k), NEW v,
         accepted \in BOOLEAN,
         accepted /\ Fit(k) => \A w \in faults : Overlooked(w, Last(k)),
         accepted /\ faults = {} => v \in Value /\ Good(v),
         Check(accepted, faults, k, v)
  PROVE  TypingInv'
<1>1. /\ Last(k) \in Seq(Value) /\ Len(Last(k)) = k
      /\ \A j \in 1..k : Good(Last(k)[j])
  BY LastOperands
<1>2. ASSUME \A i \in 1..Len(Last(k)) : Fits(Last(k)[i]) PROVE Fit(k)
  <2>1. ASSUME NEW i \in 0..k - 1 PROVE Fits(Top(i))
    <3>1. k - i \in 1..k /\ k - (k - i) = i
      OBVIOUS
    <3> QED BY <1>1, <1>2, <3>1, LastOperands
  <2> QED BY <2>1 DEF Fit
<1>3. accepted /\ (\A i \in 1..Len(Last(k)) : Fits(Last(k)[i]))
        => \A w \in faults : Overlooked(w, Last(k))
  BY <1>2
<1>4. CheckAt(accepted, faults, Last(k), k, v)
  BY DEF Check
<1> QED BY <1>1, <1>3, <1>4, CheckAtKeeps

\* The value of a type is good.
LEMMA OfIsGood ==
  ASSUME NEW t \in Type
  PROVE  Of(t) \in Value /\ Fits(Of(t)) /\ Good(Of(t))
<1>1. Of(t).type = t /\ Of(t).llvm = LLVMOf(t)
  BY DEF Of
<1>2. Of(t) \in Value
  BY LLVMOfType DEF Of, Value
<1> QED BY <1>1, <1>2 DEF Fits, Good

\* A value is good if it fits, or is no pointer and one of the exceptions.
LEMMA AsIsGood ==
  ASSUME NEW t \in Type, NEW l \in LLVMType,
         \/ l = LLVMOf(t)
         \/ /\ ~Wrapped(l)
            /\ \/ t = intType /\ l = I1
               \/ t = boolType /\ l = I32
               \/ l \in {UnitValue, NoValue}
  PROVE  As(t, l) \in Value /\ Good(As(t, l))
<1>1. As(t, l).type = t /\ As(t, l).llvm = l
  BY DEF As
<1>2. As(t, l) \in Value
  BY DEF As, Value
<1> QED BY <1>1, <1>2 DEF Fits, Good, IsComparison, IsBits, IsLost

\* What has the type and the value of a good operand is good.
LEMMA SameIsGood ==
  ASSUME NEW u \in Value, Good(u)
  PROVE  As(u.type, u.llvm) \in Value /\ Good(As(u.type, u.llvm))
  BY DEF As, Value, Good, Fits, IsComparison, IsBits, IsLost

\* The integers among the good values of type INT or BOOL.
LEMMA GoodIntegers ==
  ASSUME NEW u \in Value, Good(u), u.llvm \in Integer,
         u.type \in {boolType, intType}
  PROVE  u.llvm \in {I32, I1}
<1>1. UnitValue \notin Integer /\ NoValue \notin Integer
  BY DEF UnitValue, NoValue, Integer, I32, I8, I1
<1> QED BY <1>1, SimpleLLVM DEF Good, Fits, IsComparison, IsBits, IsLost

-----------------------------------------------------------------------------
(* Variables, definitions and literals.                                    *)

\* A good value that is put on top of the others.
LEMMA PushKeeps ==
  ASSUME TypingInv, NEW v \in Value, Good(v), Push(v)
  PROVE  TypingInv'
<1>1. Has(0)
  BY DEF Push, Has, TypingInv, TypeOK
<1> QED BY <1>1, ReduceKeeps DEF Push

\* A literal has the value of its type.
LEMMA LiteralKeeps == TypingInv /\ Literal => TypingInv'
<1> SUFFICES ASSUME TypingInv, Literal PROVE TypingInv'
  OBVIOUS
<1>1. PICK t \in {intType, charType, boolType, unitType, stringType} :
        Push(Of(t))
  BY DEF Literal
<1>2. t \in Type
  BY SimpleTypes
<1> QED BY <1>1, <1>2, OfIsGood, PushKeeps

\* A parameter, a mutable variable and a new have the value of their type.
LEMMA VariableKeeps == TypingInv /\ Variable => TypingInv'
<1> SUFFICES ASSUME TypingInv, Variable PROVE TypingInv'
  OBVIOUS
<1>1. PICK t \in SomeType : Push(Of(t))
  BY DEF Variable
<1>2. t \in Type
  BY SomeTypesAreTypes
<1> QED BY <1>1, <1>2, OfIsGood, PushKeeps

\* A name of a let has the type and the value of its expression.
LEMMA LetVariableKeeps == TypingInv /\ LetVariable => TypingInv'
<1> SUFFICES ASSUME TypingInv, LetVariable PROVE TypingInv'
  OBVIOUS
<1>1. PICK i \in 1..Len(operands) : Push(operands[i])
  BY DEF LetVariable
<1>2. operands[i] \in Value /\ Good(operands[i])
  BY DEF TypingInv, TypeOK, AllGood
<1> QED BY <1>1, <1>2, PushKeeps

-----------------------------------------------------------------------------
(* Operators.                                                              *)

\* SigOpExpr with NOT: the value stays.
LEMMA NotKeeps == TypingInv /\ Not => TypingInv'
<1> SUFFICES ASSUME TypingInv, Not PROVE TypingInv'
  OBVIOUS
<1> DEFINE accepted == Top(0).type = boolType
           v == As(boolType, Top(0).llvm)
<1>1. Has(1) /\ Check(accepted, {}, 1, v)
  BY DEF Not
<1>2. Top(0) \in Value /\ Good(Top(0))
  BY <1>1, TopIsGood
<1>3. accepted => v \in Value /\ Good(v)
  BY <1>2, SameIsGood
<1>4. accepted \in BOOLEAN
  OBVIOUS
<1> HIDE DEF accepted, v
<1> QED BY <1>1, <1>3, <1>4, CheckKeeps

\* SigOpExpr with SIG_MINUS.
LEMMA MinusKeeps == TypingInv /\ Minus => TypingInv'
<1> SUFFICES ASSUME TypingInv, Minus PROVE TypingInv'
  OBVIOUS
<1> DEFINE accepted == Top(0).type = intType
           faults == Fault("operand", Top(0).llvm # I32)
<1>1. Has(1) /\ Check(accepted, faults, 1, Of(intType))
  BY DEF Minus
<1>2. faults \in SUBSET Faults /\ accepted \in BOOLEAN
  BY DEF Fault, Faults
<1>3. accepted /\ Fit(1) => faults = {}
  BY SimpleLLVM DEF Fault, Fit, Fits
<1>4. Of(intType) \in Value /\ Good(Of(intType))
  BY OfIsGood, SimpleTypes
<1> HIDE DEF accepted, faults
<1> QED BY <1>1, <1>2, <1>3, <1>4, CheckKeeps

\* SigOpExpr with SIG_PLUS: the value keeps its width.
LEMMA PlusKeeps == TypingInv /\ Plus => TypingInv'
<1> SUFFICES ASSUME TypingInv, Plus PROVE TypingInv'
  OBVIOUS
<1> DEFINE accepted == Top(0).type = intType
           faults == Fault("operand", Top(0).llvm \notin Integer)
           v == As(intType, Top(0).llvm)
<1>1. Has(1) /\ Check(accepted, faults, 1, v)
  BY DEF Plus
<1>2. faults \in SUBSET Faults /\ accepted \in BOOLEAN
  BY DEF Fault, Faults
<1>3. accepted /\ Fit(1) => faults = {}
  BY SimpleLLVM DEF Fault, Fit, Fits, Integer
<1>4. Top(0) \in Value /\ Good(Top(0))
  BY <1>1, TopIsGood
<1>5. accepted => v \in Value /\ Good(v)
  BY <1>4, SameIsGood
<1> HIDE DEF accepted, faults, v
<1> QED BY <1>1, <1>2, <1>3, <1>5, CheckKeeps

\* DeRefHighPrioExpr: what is loaded has the type inside the ref, or nothing
\* is loaded.
LEMMA DerefKeeps == TypingInv /\ Deref => TypingInv'
<1> SUFFICES ASSUME TypingInv, Deref PROVE TypingInv'
  OBVIOUS
<1> DEFINE u == Top(0)
           accepted == IsRef(u.type)
           faults == Fault("operand", u.llvm = NoValue)
           l == IF IsRef(u.llvm) THEN Inside(u.llvm) ELSE NoValue
           v == As(Inside(u.type), l)
<1>1. Has(1) /\ Check(accepted, faults, 1, v)
  BY DEF Deref
<1>2. u \in Value /\ Good(u) /\ (Fit(1) => Fits(u))
  BY <1>1, TopIsGood DEF Fit
<1>3. u.type \in Type /\ u.llvm \in LLVMType
  BY <1>2 DEF Value
<1>4. faults \in SUBSET Faults /\ accepted \in BOOLEAN
  BY DEF Fault, Faults, IsRef
<1>5. Fit(1) => faults = {}
  BY <1>2, <1>3, LLVMOfType DEF Fault, Fits
<1>6. accepted => v \in Value /\ Good(v)
  <2> SUFFICES ASSUME accepted PROVE v \in Value /\ Good(v)
    OBVIOUS
  <2>1. Wrapped(u.type) /\ Inside(u.type) \in Type
    BY <1>3, InsideType DEF IsRef
  <2>2. CASE IsRef(u.llvm)
    <3>1. u.llvm = LLVMOf(u.type)
      BY <1>2, <2>2 DEF IsRef, Good, Fits
    <3>2. l = LLVMOf(Inside(u.type)) /\ l \in LLVMType
      BY <1>3, <2>1, <2>2, <3>1, InsideType, LLVMOfType
    <3> QED BY <2>1, <3>2, AsIsGood
  <2>3. CASE ~IsRef(u.llvm)
    <3> HIDE DEF u, accepted
    <3> QED BY <2>1, <2>3, Integers, AsIsGood
  <2> QED BY <2>2, <2>3
<1> HIDE DEF u, accepted, faults, v
<1> QED BY <1>1, <1>4, <1>5, <1>6, CheckKeeps

\* DeleteExpr.
LEMMA DeleteKeeps == TypingInv /\ Delete => TypingInv'
<1> SUFFICES ASSUME TypingInv, Delete PROVE TypingInv'
  OBVIOUS
<1> DEFINE accepted == IsRef(Top(0).type)
           faults == Fault("operand", ~Wrapped(Top(0).llvm))
<1>1. Has(1) /\ Check(accepted, faults, 1, Of(unitType))
  BY DEF Delete
<1>2. Top(0).type \in Type /\ (Fit(1) => Fits(Top(0)))
  BY <1>1, TopIsGood DEF Fit, Value
<1>3. faults \in SUBSET Faults /\ accepted \in BOOLEAN
  BY DEF Fault, Faults, IsRef, IsArray
<1>4. accepted /\ Fit(1) => faults = {}
  BY <1>2, LLVMOfType DEF Fault, Fits, IsRef
<1>5. Of(unitType) \in Value /\ Good(Of(unitType))
  BY OfIsGood, SimpleTypes
<1> HIDE DEF accepted, faults
<1> QED BY <1>1, <1>3, <1>4, <1>5, CheckKeeps

\* DimExpr.
LEMMA DimKeeps == TypingInv /\ Dim => TypingInv'
<1> SUFFICES ASSUME TypingInv, Dim PROVE TypingInv'
  OBVIOUS
<1> PICK k \in 0..MaxWraps :
      /\ Has(1)
      /\ Check(IsArray(Top(0).type) /\ k <= Outer(Top(0).type),
               Fault("operand", ~IsArray(Top(0).llvm)), 1, Of(intType))
  BY DEF Dim
<1> DEFINE accepted == IsArray(Top(0).type) /\ k <= Outer(Top(0).type)
           faults == Fault("operand", ~IsArray(Top(0).llvm))
<1>1. Has(1) /\ Check(accepted, faults, 1, Of(intType))
  OBVIOUS
<1>2. Top(0).type \in Type /\ (Fit(1) => Fits(Top(0)))
  BY <1>1, TopIsGood DEF Fit, Value
<1>3. faults \in SUBSET Faults /\ accepted \in BOOLEAN
  BY DEF Fault, Faults, IsRef, IsArray
<1>4. accepted /\ Fit(1) => faults = {}
  BY <1>2, LLVMOfType DEF Fault, Fits
<1>5. Of(intType) \in Value /\ Good(Of(intType))
  BY OfIsGood, SimpleTypes
<1> HIDE DEF accepted, faults
<1> QED BY <1>1, <1>3, <1>4, <1>5, CheckKeeps

\* MutableArrayDef: dimensions of type INT are I32.
LEMMA MutableArrayKeeps == TypingInv /\ MutableArray => TypingInv'
<1> SUFFICES ASSUME TypingInv, MutableArray PROVE TypingInv'
  OBVIOUS
<1>1. PICK t \in SomeType, k \in 1..MaxWraps :
        /\ Has(k)
        /\ Check(TRUE, Fault("dimension", ~AllI32(k)), k, Of(ArrayOf(t, k)))
  BY DEF MutableArray
<1> DEFINE accepted == TRUE
           faults == Fault("dimension", ~AllI32(k))
           v == Of(ArrayOf(t, k))
<1>2. Has(k) /\ Check(accepted, faults, k, v)
  BY <1>1
<1>3. k \in Nat /\ ArrayOf(t, k) \in Type
  BY SomeTypesAreTypes, ArrayType, BoundIsNat
<1>4. faults \in SUBSET Faults /\ accepted \in BOOLEAN
  BY DEF Fault, Faults
<1>5. ASSUME Fit(k), NEW w \in faults PROVE Overlooked(w, Last(k))
  <2>1. w = "dimension" /\ ~AllI32(k)
    BY <1>5 DEF Fault
  <2>2. PICK i \in 0..k - 1 : Top(i).llvm # I32
    BY <2>1 DEF AllI32
  <2>3. Top(i).type # intType
    BY <1>5, <2>2, SimpleLLVM DEF Fit, Fits
  <2>4. k - i \in 1..k /\ k - (k - i) = i
    BY <1>3
  <2>5. Last(k)[k - i].type # intType /\ Len(Last(k)) = k
    BY <1>2, <1>3, <2>3, <2>4, LastOperands
  <2> QED BY <2>1, <2>4, <2>5 DEF Overlooked
<1>6. v \in Value /\ Good(v)
  BY <1>3, OfIsGood
<1> HIDE DEF accepted, faults, v
<1> QED BY <1>2, <1>3, <1>4, <1>5, <1>6, CheckKeeps

\* IdHighPrioExpr: the element of an array of the type's own LLVM type.
LEMMA IndexKeeps == TypingInv /\ Index => TypingInv'
<1> SUFFICES ASSUME TypingInv, Index PROVE TypingInv'
  OBVIOUS
<1>1. PICK k \in 1..MaxWraps :
        /\ Has(k + 1)
        /\ LET v == Top(k) IN
             Check(IsArray(v.type) /\ Outer(v.type) = k,
                   Fault("operand", ~IsArray(v.llvm)) \union Fault("index", ~IndicesFit(k)),
                   k + 1, As(Inside(v.type), Inside(v.llvm)))
  BY DEF Index
<1> DEFINE u == Top(k)
           accepted == IsArray(u.type) /\ Outer(u.type) = k
           faults == Fault("operand", ~IsArray(u.llvm)) \union Fault("index", ~IndicesFit(k))
           v == As(Inside(u.type), Inside(u.llvm))
<1>2. Has(k + 1) /\ Check(accepted, faults, k + 1, v)
  BY <1>1
<1>3. k \in 0..(k + 1) - 1 /\ k \in Nat \ {0} /\ k + 1 \in Nat
  BY BoundIsNat
<1>4. u \in Value /\ Good(u) /\ (Fit(k + 1) => Fits(u))
  BY <1>2, <1>3, TopIsGood DEF Fit
<1>5. u.type \in Type /\ u.llvm \in LLVMType
  BY <1>4 DEF Value
<1>6. faults \in SUBSET Faults /\ accepted \in BOOLEAN
  BY DEF Fault, Faults, IsArray
<1>7. ASSUME Fit(k + 1), ~IndicesFit(k) PROVE Overlooked("index", Last(k + 1))
  <2>1. PICK i \in 0..k - 1 : Top(i).llvm # I32
    <3>1. I32 \in Integer /\ 0 \in 0..k - 1
      BY <1>3 DEF Integer
    <3> QED BY <1>7, <3>1 DEF IndicesFit, AllI32
  <2>2. i \in 0..(k + 1) - 1
    BY <1>3
  <2>3. Top(i).type # intType
    BY <1>7, <2>1, <2>2, SimpleLLVM DEF Fit, Fits
  <2>4. (k + 1) - i \in 2..k + 1 /\ (k + 1) - ((k + 1) - i) = i
    BY <1>3
  <2>5. (k + 1) - i \in 1..k + 1
    BY <1>3, <2>4
  <2>6. Last(k + 1)[(k + 1) - i] = Top(i) /\ Len(Last(k + 1)) = k + 1
    BY <1>2, <1>3, <2>4, <2>5, LastOperands
  <2> QED BY <2>3, <2>4, <2>6 DEF Overlooked
<1>8. ASSUME accepted, Fit(k + 1), NEW w \in faults PROVE Overlooked(w, Last(k + 1))
  <2>1. IsArray(u.llvm)
    BY <1>4, <1>5, <1>8, LLVMOfType DEF Fits
  <2>2. w = "index" /\ ~IndicesFit(k)
    BY <1>8, <2>1 DEF Fault
  <2> QED BY <1>7, <1>8, <2>2
<1>9. accepted /\ faults = {} => v \in Value /\ Good(v)
  <2> SUFFICES ASSUME accepted, faults = {} PROVE v \in Value /\ Good(v)
    OBVIOUS
  <2>1. IsArray(u.llvm)
    BY DEF Fault
  <2>2. u.llvm = LLVMOf(u.type)
    BY <1>4, <2>1 DEF IsArray, Good, Fits
  <2>3. Wrapped(u.type)
    BY DEF IsArray
  <2>4. Inside(u.type) \in Type /\ Inside(u.llvm) = LLVMOf(Inside(u.type))
    BY <1>5, <2>2, <2>3, InsideType
  <2>5. Inside(u.llvm) \in LLVMType
    BY <2>4, LLVMOfType
  <2> QED BY <2>4, <2>5, AsIsGood
<1> HIDE DEF u, accepted, faults, v
<1> QED BY <1>2, <1>3, <1>6, <1>8, <1>9, CheckKeeps

\* The two operands of an operator.
LEMMA TwoOperands ==
  ASSUME TypingInv, Has(2)
  PROVE  /\ Top(1) \in Value /\ Good(Top(1)) /\ Top(0) \in Value /\ Good(Top(0))
         /\ Fit(2) => Fits(Top(1)) /\ Fits(Top(0))
  BY TopIsGood DEF Fit

\* BinOpExpr with BIN_PLUS, BIN_MINUS, STAR, DIV or MOD.
LEMMA ArithmeticKeeps == TypingInv /\ Arithmetic => TypingInv'
<1> SUFFICES ASSUME TypingInv, Arithmetic PROVE TypingInv'
  OBVIOUS
<1> DEFINE accepted == BothInt
           faults == Fault("operand", ~SameInteger)
           v == As(intType, Top(1).llvm)
<1>1. Has(2) /\ Check(accepted, faults, 2, v)
  BY DEF Arithmetic
<1>2. faults \in SUBSET Faults /\ accepted \in BOOLEAN
  BY DEF Fault, Faults, BothInt
<1>3. accepted /\ Fit(2) => faults = {}
  BY <1>1, TwoOperands, SimpleLLVM DEF Fits, BothInt, SameInteger, Integer, Fault
<1>4. accepted => v \in Value /\ Good(v)
  BY <1>1, TwoOperands, SameIsGood DEF BothInt
<1> HIDE DEF accepted, faults, v
<1> QED BY <1>1, <1>2, <1>3, <1>4, CheckKeeps

\* BinOpExpr with L, G, LE or GE: the value does not have the LLVM type of the
\* type.
LEMMA CompareKeeps == TypingInv /\ Compare => TypingInv'
<1> SUFFICES ASSUME TypingInv, Compare PROVE TypingInv'
  OBVIOUS
<1> DEFINE accepted == BothInt
           faults == Fault("operand", ~SameInteger)
           v == As(intType, I1)
<1>1. Has(2) /\ Check(accepted, faults, 2, v)
  BY DEF Compare
<1>2. faults \in SUBSET Faults /\ accepted \in BOOLEAN
  BY DEF Fault, Faults, BothInt
<1>3. accepted /\ Fit(2) => faults = {}
  BY <1>1, TwoOperands, SimpleLLVM DEF Fits, BothInt, SameInteger, Integer, Fault
<1>4. I1 \in Integer
  BY DEF Integer
<1>5. v \in Value /\ Good(v)
  BY <1>4, Integers, SimpleTypes, AsIsGood
<1> HIDE DEF accepted, faults, v
<1> QED BY <1>1, <1>2, <1>3, <1>5, CheckKeeps

\* Fitting operands of type INT or BOOL have integer values.
LEMMA SimpleOperands ==
  ASSUME TypingInv, Has(2), Fit(2), BothSimple
  PROVE  SameInteger
  BY TwoOperands, SimpleLLVM DEF Fits, BothSimple, SameInteger, Integer

\* BinOpExpr with STRUCT_EQ or STRUCT_NE.
LEMMA EqualKeeps == TypingInv /\ Equal => TypingInv'
<1> SUFFICES ASSUME TypingInv, Equal PROVE TypingInv'
  OBVIOUS
<1> DEFINE accepted == BothSimple
           faults == Fault("operand", ~SameInteger)
<1>1. Has(2) /\ Check(accepted, faults, 2, Of(boolType))
  BY DEF Equal
<1>2. faults \in SUBSET Faults /\ accepted \in BOOLEAN
  BY DEF Fault, Faults, BothSimple
<1>3. accepted /\ Fit(2) => faults = {}
  BY <1>1, SimpleOperands DEF Fault
<1>4. Of(boolType) \in Value /\ Good(Of(boolType))
  BY OfIsGood, SimpleTypes
<1> HIDE DEF accepted, faults
<1> QED BY <1>1, <1>2, <1>3, <1>4, CheckKeeps

\* BinOpExpr with EQ or NE: no value.
LEMMA SameKeeps == TypingInv /\ Same => TypingInv'
<1> SUFFICES ASSUME TypingInv, Same PROVE TypingInv'
  OBVIOUS
<1> DEFINE accepted == BothSimple
           v == As(boolType, NoValue)
<1>1. Has(2) /\ Check(accepted, {}, 2, v)
  BY DEF Same
<1>2. accepted \in BOOLEAN
  BY DEF BothSimple
<1>3. v \in Value /\ Good(v)
  BY <1>1, Integers, SimpleTypes, AsIsGood
<1> HIDE DEF accepted, v
<1> QED BY <1>1, <1>2, <1>3, CheckKeeps

\* BinOpExpr with AND or OR: bits, or words if both are of type INT.
LEMMA AndOrKeeps == TypingInv /\ AndOr => TypingInv'
<1> SUFFICES ASSUME TypingInv, AndOr PROVE TypingInv'
  OBVIOUS
<1> DEFINE accepted == BothSimple
           faults == Fault("operand", ~SameInteger)
           v == As(boolType, Top(1).llvm)
<1>1. Has(2) /\ Check(accepted, faults, 2, v)
  BY DEF AndOr
<1>2. faults \in SUBSET Faults /\ accepted \in BOOLEAN
  BY DEF Fault, Faults, BothSimple
<1>3. accepted /\ Fit(2) => faults = {}
  BY <1>1, SimpleOperands DEF Fault
<1>4. accepted /\ faults = {} => v \in Value /\ Good(v)
  <2> SUFFICES ASSUME accepted, faults = {} PROVE v \in Value /\ Good(v)
    OBVIOUS
  <2>1. Top(1).llvm \in Integer /\ Top(1).type \in {boolType, intType}
    BY DEF Fault, SameInteger, BothSimple
  <2>2. Top(1).llvm \in {I32, I1}
    BY <1>1, <2>1, TwoOperands, GoodIntegers
  <2> QED BY <2>1, <2>2, Integers, SimpleTypes, SimpleLLVM, AsIsGood
<1> HIDE DEF accepted, faults, v
<1> QED BY <1>1, <1>2, <1>3, <1>4, CheckKeeps

\* BinOpExpr with ASSIGN: a ref to a type points to a value of that type.
LEMMA AssignKeeps == TypingInv /\ Assign => TypingInv'
<1> SUFFICES ASSUME TypingInv, Assign PROVE TypingInv'
  OBVIOUS
<1> DEFINE accepted == IsRef(Top(1).type) /\ Inside(Top(1).type) = Top(0).type
           faults == Fault("store", Top(1).llvm # Ref(Top(0).llvm))
<1>1. Has(2) /\ Check(accepted, faults, 2, Of(unitType))
  BY DEF Assign
<1>2. faults \in SUBSET Faults /\ accepted \in BOOLEAN
  BY DEF Fault, Faults, IsRef
<1>3. accepted /\ Fit(2) => faults = {}
  <2> SUFFICES ASSUME accepted, Fit(2) PROVE faults = {}
    OBVIOUS
  <2>1. Top(1) \in Value /\ Top(0) \in Value /\ Fits(Top(1)) /\ Fits(Top(0))
    BY <1>1, TwoOperands
  <2>2. Top(1).type \in Type /\ Top(0).type \in Type
    BY <2>1 DEF Value
  <2>3. Ref(Top(0).type) = Top(1).type
    BY <2>2, RefOfInside
  <2>4. Top(1).llvm = Ref(Top(0).llvm)
    BY <2>1, <2>2, <2>3, RefType DEF Fits
  <2> QED BY <2>4 DEF Fault
<1>4. Of(unitType) \in Value /\ Good(Of(unitType))
  BY OfIsGood, SimpleTypes
<1> HIDE DEF accepted, faults
<1> QED BY <1>1, <1>2, <1>3, <1>4, CheckKeeps

\* BinOpExpr with PAR: the value is lost.
LEMMA SemicolonKeeps == TypingInv /\ Semicolon => TypingInv'
<1> SUFFICES ASSUME TypingInv, Semicolon PROVE TypingInv'
  OBVIOUS
<1> DEFINE v == As(Top(0).type, UnitValue)
<1>1. Has(2) /\ Reduce(2, v)
  BY DEF Semicolon
<1>2. Top(0).type \in Type
  BY <1>1, TopIsGood DEF Value
<1>3. v \in Value /\ Good(v)
  BY <1>2, Integers, AsIsGood
<1> HIDE DEF v
<1> QED BY <1>1, <1>3, ReduceKeeps

-----------------------------------------------------------------------------
(* Control structures and calls.                                           *)

\* The condition of an if or a while is the first of the operands.
LEMMA ConditionOverlooked ==
  ASSUME TypingInv, NEW k \in Nat \ {0}, Has(k), Fit(k), IsCondition(Top(k - 1)),
         NEW w \in BadCondition(Top(k - 1))
  PROVE  Overlooked(w, Last(k))
<1>1. k - 1 \in 0..k - 1 /\ 1 \in 1..k
  OBVIOUS
<1>2. w = "condition" /\ Top(k - 1).llvm # I1 /\ Fits(Top(k - 1))
  BY <1>1 DEF BadCondition, Fault, Fit
<1>3. Top(k - 1).type = intType
  BY <1>2, SimpleLLVM DEF IsCondition, Fits
<1>4. Last(k)[1] = Top(k - 1)
  BY <1>1, LastOperands
<1> QED BY <1>2, <1>3, <1>4 DEF Overlooked

\* IfThenElseExpr with an else part: both parts are of one LLVM type.
LEMMA IfKeeps == TypingInv /\ If => TypingInv'
<1> SUFFICES ASSUME TypingInv, If PROVE TypingInv'
  OBVIOUS
<1> DEFINE accepted == IsCondition(Top(2)) /\ Top(1).type = Top(0).type
           faults == BadCondition(Top(2)) \union Fault("phi", ~SameLLVM)
<1>1. Has(3) /\ Check(accepted, faults, 3, Top(1))
  BY DEF If
<1>2. /\ Top(1) \in Value /\ Good(Top(1)) /\ Top(0) \in Value
      /\ Fit(3) => Fits(Top(1)) /\ Fits(Top(0))
  BY <1>1, TopIsGood DEF Fit
<1>3. faults \in SUBSET Faults /\ accepted \in BOOLEAN
  BY DEF Fault, BadCondition, Faults, IsCondition
<1>4. ASSUME accepted, Fit(3), NEW w \in faults PROVE Overlooked(w, Last(3))
  <2>1. SameLLVM
    BY <1>2, <1>4, LLVMOfType DEF Fits, SameLLVM, Value
  <2>2. w \in BadCondition(Top(2)) /\ IsCondition(Top(2))
    BY <1>4, <2>1 DEF Fault
  <2>3. 3 \in Nat \ {0} /\ 3 - 1 = 2
    OBVIOUS
  <2> QED BY <1>1, <1>4, <2>2, <2>3, ConditionOverlooked
<1> HIDE DEF accepted, faults
<1> QED BY <1>1, <1>2, <1>3, <1>4, CheckKeeps

\* IfThenElseExpr without an else part: a then part that is not of type UNIT is
\* overlooked.
LEMMA IfThenKeeps == TypingInv /\ IfThen => TypingInv'
<1> SUFFICES ASSUME TypingInv, IfThen PROVE TypingInv'
  OBVIOUS
<1> DEFINE accepted == IsCondition(Top(1))
           faults == BadCondition(Top(1))
                       \union Fault("else", Top(0).llvm # UnitValue)
<1>1. Has(2) /\ Check(accepted, faults, 2, Top(0))
  BY DEF IfThen
<1>2. faults \in SUBSET Faults /\ accepted \in BOOLEAN
  BY DEF Fault, BadCondition, Faults, IsCondition
<1>3. ASSUME accepted, Fit(2), NEW w \in faults PROVE Overlooked(w, Last(2))
  <2>1. CASE w \in BadCondition(Top(1))
    <3>1. 2 \in Nat \ {0} /\ 2 - 1 = 1
      OBVIOUS
    <3> QED BY <1>1, <1>3, <2>1, <3>1, ConditionOverlooked
  <2>2. CASE w \notin BadCondition(Top(1))
    <3>1. w = "else" /\ Top(0).llvm # UnitValue
      BY <1>3, <2>2 DEF Fault
    <3>2. Top(0).type # unitType
      BY <1>1, <1>3, <3>1, TwoOperands, SimpleLLVM DEF Fits
    <3>3. Last(2)[2] = Top(0)
      BY <1>1, LastOperands
    <3> QED BY <3>1, <3>2, <3>3 DEF Overlooked
  <2> QED BY <2>1, <2>2
<1>4. Top(0) \in Value /\ Good(Top(0))
  BY <1>1, TwoOperands
<1> HIDE DEF accepted, faults
<1> QED BY <1>1, <1>2, <1>3, <1>4, CheckKeeps

\* WhileExpr.
LEMMA WhileKeeps == TypingInv /\ While => TypingInv'
<1> SUFFICES ASSUME TypingInv, While PROVE TypingInv'
  OBVIOUS
<1> DEFINE accepted == IsCondition(Top(1))
           faults == BadCondition(Top(1))
<1>1. Has(2) /\ Check(accepted, faults, 2, Of(unitType))
  BY DEF While
<1>2. faults \in SUBSET Faults /\ accepted \in BOOLEAN
  BY DEF Fault, BadCondition, Faults, IsCondition
<1>3. 2 \in Nat \ {0} /\ 2 - 1 = 1
  OBVIOUS
<1>4. accepted /\ Fit(2) => \A w \in faults : Overlooked(w, Last(2))
  BY <1>1, <1>3, ConditionOverlooked
<1>5. Of(unitType) \in Value /\ Good(Of(unitType))
  BY OfIsGood, SimpleTypes
<1> HIDE DEF accepted, faults
<1> QED BY <1>1, <1>2, <1>4, <1>5, CheckKeeps

\* ForExpr: a first value that is no INT is overlooked.
LEMMA ForKeeps == TypingInv /\ For => TypingInv'
<1> SUFFICES ASSUME TypingInv, For PROVE TypingInv'
  OBVIOUS
<1> DEFINE accepted == Top(1).type = intType
           faults == Fault("operand", Top(1).llvm # I32)
                       \union Fault("first", Top(2).llvm # I32)
<1>1. Has(3) /\ Check(accepted, faults, 3, Of(unitType))
  BY DEF For
<1>2. faults \in SUBSET Faults /\ accepted \in BOOLEAN
  BY DEF Fault, Faults
<1>3. ASSUME accepted, Fit(3), NEW w \in faults PROVE Overlooked(w, Last(3))
  <2>1. Fits(Top(2)) /\ Fits(Top(1))
    BY <1>3 DEF Fit
  <2>2. w = "first" /\ Top(2).llvm # I32
    BY <1>3, <2>1, SimpleLLVM DEF Fault, Fits
  <2>3. Top(2).type # intType
    BY <2>1, <2>2, SimpleLLVM DEF Fits
  <2>4. Last(3)[1] = Top(2)
    BY <1>1, LastOperands
  <2> QED BY <2>2, <2>3, <2>4 DEF Overlooked
<1>4. Of(unitType) \in Value /\ Good(Of(unitType))
  BY OfIsGood, SimpleTypes
<1> HIDE DEF accepted, faults
<1> QED BY <1>1, <1>2, <1>3, <1>4, CheckKeeps

\* MatchExpr: the values of the clauses are of one LLVM type; a pattern of another
\* type than the scrutinee is overlooked.
LEMMA MatchKeeps == TypingInv /\ Match => TypingInv'
<1> SUFFICES ASSUME TypingInv, Match PROVE TypingInv'
  OBVIOUS
<1>1. PICK p \in PatternType(Top(2)), same \in BOOLEAN :
        CheckAt(same /\ Top(1).type = Top(0).type,
                Fault("pattern", LLVMOf(p) # Top(2).llvm \/ p = unitType)
                  \union Fault("phi", ~SameLLVM),
                Append(Last(3), Of(p)), 3, Top(1))
  BY DEF Match
<1> DEFINE accepted == same /\ Top(1).type = Top(0).type
           faults == Fault("pattern", LLVMOf(p) # Top(2).llvm \/ p = unitType)
                       \union Fault("phi", ~SameLLVM)
           at == Append(Last(3), Of(p))
<1>2. Has(3) /\ CheckAt(accepted, faults, at, 3, Top(1))
  BY <1>1 DEF Match
<1>3. /\ Top(2) \in Value /\ Top(1) \in Value /\ Good(Top(1)) /\ Top(0) \in Value
      /\ p \in Type
  <2>1. Top(2) \in Value /\ Top(1) \in Value /\ Good(Top(1)) /\ Top(0) \in Value
    BY <1>2, TopIsGood
  <2> QED BY <2>1, SimpleTypes DEF PatternType, Value
<1>4. /\ Last(3) \in Seq(Value) /\ Len(Last(3)) = 3
      /\ Last(3)[1] = Top(2) /\ Last(3)[2] = Top(1) /\ Last(3)[3] = Top(0)
      /\ \A j \in 1..3 : Good(Last(3)[j])
  <2>1. /\ Last(3) \in Seq(Value) /\ Len(Last(3)) = 3
        /\ \A j \in 1..3 : 3 - j \in 0..3 - 1 /\ Last(3)[j] = Top(3 - j)
        /\ \A j \in 1..3 : Good(Last(3)[j])
    BY <1>2, LastOperands
  <2>2. 1 \in 1..3 /\ 2 \in 1..3 /\ 3 \in 1..3 /\ 3 - 1 = 2 /\ 3 - 2 = 1 /\ 3 - 3 = 0
    OBVIOUS
  <2> QED BY <2>1, <2>2
<1>5. Of(p) \in Value /\ Good(Of(p)) /\ Of(p).type = p
  BY <1>3, OfIsGood DEF Of
<1>6. /\ at \in Seq(Value) /\ Len(at) = 4
      /\ at[1] = Top(2) /\ at[2] = Top(1) /\ at[3] = Top(0) /\ at[4] = Of(p)
  <2> HIDE DEF at
  <2>1. /\ at \in Seq(Value) /\ Len(at) = Len(Last(3)) + 1
        /\ \A i \in 1..Len(Last(3)) : at[i] = Last(3)[i]
        /\ at[Len(Last(3)) + 1] = Of(p)
    BY <1>4, <1>5, AppendOf DEF at
  <2>2. \A i \in 1..3 : at[i] = Last(3)[i]
    BY <1>4, <2>1
  <2>3. Len(at) = 4 /\ at[4] = Of(p)
    BY <1>4, <2>1
  <2>4. at[1] = Top(2) /\ at[2] = Top(1) /\ at[3] = Top(0)
    BY <1>4, <2>2
  <2> QED BY <2>1, <2>3, <2>4
<1>7. \A i \in 1..Len(at) : Good(at[i])
  <2>1. \A i \in 1..3 : at[i] = Last(3)[i]
    BY <1>4, <1>6
  <2> QED BY <1>4, <1>5, <1>6, <2>1
<1>8. faults \in SUBSET Faults /\ accepted \in BOOLEAN
  BY DEF Fault, Faults
<1>9. ASSUME accepted, \A i \in 1..Len(at) : Fits(at[i]), NEW w \in faults
      PROVE  Overlooked(w, at)
  <2>1. Fits(Top(2)) /\ Fits(Top(1)) /\ Fits(Top(0))
    BY <1>6, <1>9
  <2>2. SameLLVM
    BY <1>3, <1>9, <2>1, LLVMOfType DEF Fits, SameLLVM, Value
  <2>3. w = "pattern" /\ (LLVMOf(p) # Top(2).llvm \/ p = unitType)
    BY <1>9, <2>2 DEF Fault
  <2>4. p # Top(2).type \/ Top(2).type = unitType
    BY <2>1, <2>3 DEF Fits
  <2> QED BY <1>5, <1>6, <2>3, <2>4 DEF Overlooked
<1>10. accepted /\ (\A i \in 1..Len(at) : Fits(at[i]))
          => \A w \in faults : Overlooked(w, at)
  BY <1>9
<1>11. accepted /\ faults = {} => Top(1) \in Value /\ Good(Top(1))
  BY <1>3
<1>12. CheckAt(accepted, faults, at, 3, Top(1))
  BY <1>2
<1>13. at \in Seq(Value)
  BY <1>6
<1>14. 3 \in Nat
  OBVIOUS
<1>15. Has(3)
  BY <1>2
<1>16. faults \in SUBSET Faults
  BY <1>8
<1>17. accepted \in BOOLEAN
  BY <1>8
<1>18. TypingInv
  OBVIOUS
<1> HIDE DEF accepted, faults, at
<1> QED BY ONLY <1>7, <1>10, <1>11, <1>12, <1>13, <1>14, <1>15, <1>16, <1>17,
             <1>18, CheckAtKeeps, SMTT(60)

\* FunctionCall of a function of the library.
LEMMA CallLibraryKeeps == TypingInv /\ CallLibrary => TypingInv'
<1> SUFFICES ASSUME TypingInv, CallLibrary PROVE TypingInv'
  OBVIOUS
<1>1. PICK f \in DOMAIN Signature :
        LET k == Len(Signature[f].params) IN
          /\ Has(k)
          /\ Check(\A i \in 1..k : Top(k - i).type = Signature[f].params[i],
                   Fault("call", \E i \in 1..k :
                                   Top(k - i).llvm # Prototype[f].params[i]),
                   k, As(Signature[f].result, Prototype[f].result))
  BY DEF CallLibrary
<1> DEFINE k == Len(Signature[f].params)
           accepted == \A i \in 1..k : Top(k - i).type = Signature[f].params[i]
           faults == Fault("call", \E i \in 1..k :
                                     Top(k - i).llvm # Prototype[f].params[i])
           v == As(Signature[f].result, Prototype[f].result)
<1>2. Has(k) /\ Check(accepted, faults, k, v)
  BY <1>1
<1>3. k \in {1, 2} /\ k \in Nat
  BY PrototypesAgree
<1>4. faults \in SUBSET Faults /\ accepted \in BOOLEAN
  BY DEF Fault, Faults
<1>5. accepted /\ Fit(k) => faults = {}
  <2> SUFFICES ASSUME accepted, Fit(k) PROVE faults = {}
    OBVIOUS
  <2>1. ASSUME NEW i \in 1..k
        PROVE  Top(k - i).llvm = Prototype[f].params[i]
    <3>1. k - i \in 0..k - 1
      BY <1>3
    <3>2. Fits(Top(k - i))
      BY <3>1 DEF Fit
    <3>3. Top(k - i).type = Signature[f].params[i]
      OBVIOUS
    <3> QED BY <3>2, <3>3, PrototypesAgree DEF Fits
  <2> QED BY <2>1 DEF Fault
<1>6. v \in Value /\ Good(v)
  BY PrototypesAgree, LLVMOfType, AsIsGood
<1> HIDE DEF k, accepted, faults, v
<1> QED BY <1>2, <1>3, <1>4, <1>5, <1>6, CheckKeeps

\* FunctionCall of a function of the program, and its definition.
LEMMA CallFunctionKeeps == TypingInv /\ CallFunction => TypingInv'
<1> SUFFICES ASSUME TypingInv, CallFunction PROVE TypingInv'
  OBVIOUS
<1>1. PICK same \in BOOLEAN :
        Check(same,
              Fault("return", Returned(Top(0)) # LLVMOf(Top(0).type))
                \union Fault("call", ~Fits(Top(1))),
              2, Of(Top(0).type))
  BY DEF CallFunction
<1> DEFINE faults == Fault("return", Returned(Top(0)) # LLVMOf(Top(0).type))
                       \union Fault("call", ~Fits(Top(1)))
<1>2. Has(2) /\ Check(same, faults, 2, Of(Top(0).type))
  BY <1>1 DEF CallFunction
<1>3. Top(0).type \in Type /\ (Fit(2) => Fits(Top(1)) /\ Fits(Top(0)))
  BY <1>2, TwoOperands DEF Value
<1>4. faults \in SUBSET Faults
  BY DEF Fault, Faults
<1>5. Fit(2) => faults = {}
  BY <1>3, LLVMOfType DEF Fault, Returned, Fits
<1>6. Of(Top(0).type) \in Value /\ Good(Of(Top(0).type))
  BY <1>3, OfIsGood
<1> HIDE DEF faults
<1> QED BY <1>2, <1>4, <1>5, <1>6, CheckKeeps

-----------------------------------------------------------------------------
(* The theorems.                                                           *)

\* Before the first expression there is nothing at hand.
LEMMA InitTypingInv == Init => TypingInv
<1> SUFFICES ASSUME Init PROVE TypingInv
  OBVIOUS
<1>1. operands = <<>> /\ outcome = "ok"
  BY DEF Init
<1> QED BY <1>1 DEF TypingInv, TypeOK, AllGood, AcceptedIsWellFormed, Faults

\* Every class of src/ast keeps the operands good.
LEMMA NextTypingInv == TypingInv /\ [Next]_vars => TypingInv'
<1> SUFFICES ASSUME TypingInv, [Next]_vars PROVE TypingInv'
  OBVIOUS
<1>1. CASE Next
  <2>1. CASE Literal
    BY <2>1, LiteralKeeps
  <2>2. CASE Variable
    BY <2>2, VariableKeeps
  <2>3. CASE LetVariable
    BY <2>3, LetVariableKeeps
  <2>4. CASE MutableArray
    BY <2>4, MutableArrayKeeps
  <2>5. CASE Not
    BY <2>5, NotKeeps
  <2>6. CASE Minus
    BY <2>6, MinusKeeps
  <2>25. CASE Plus
    BY <2>25, PlusKeeps
  <2>7. CASE Deref
    BY <2>7, DerefKeeps
  <2>8. CASE Delete
    BY <2>8, DeleteKeeps
  <2>9. CASE Index
    BY <2>9, IndexKeeps
  <2>10. CASE Dim
    BY <2>10, DimKeeps
  <2>11. CASE Arithmetic
    BY <2>11, ArithmeticKeeps
  <2>12. CASE Compare
    BY <2>12, CompareKeeps
  <2>13. CASE Equal
    BY <2>13, EqualKeeps
  <2>14. CASE Same
    BY <2>14, SameKeeps
  <2>15. CASE AndOr
    BY <2>15, AndOrKeeps
  <2>16. CASE Assign
    BY <2>16, AssignKeeps
  <2>17. CASE Semicolon
    BY <2>17, SemicolonKeeps
  <2>18. CASE If
    BY <2>18, IfKeeps
  <2>19. CASE IfThen
    BY <2>19, IfThenKeeps
  <2>20. CASE While
    BY <2>20, WhileKeeps
  <2>21. CASE For
    BY <2>21, ForKeeps
  <2>22. CASE Match
    BY <2>22, MatchKeeps
  <2>23. CASE CallLibrary
    BY <2>23, CallLibraryKeeps
  <2>24. CASE CallFunction
    BY <2>24, CallFunctionKeeps
  <2> QED BY <1>1, <2>1, <2>2, <2>3, <2>4, <2>5, <2>6, <2>7, <2>8, <2>9,
            <2>10, <2>11, <2>12, <2>13, <2>14, <2>15, <2>16, <2>17,
            <2>18, <2>19, <2>20, <2>21, <2>22, <2>23, <2>24,
            <2>25
         DEF Next
<1>2. CASE UNCHANGED vars
  BY <1>2 DEF vars, TypingInv, TypeOK, AllGood, AcceptedIsWellFormed
<1> QED BY <1>1, <1>2

\* The operands are good throughout.
THEOREM TypingCorrect == Spec => []TypingInv
  BY InitTypingInv, NextTypingInv, PTL DEF Spec

\* Operands are typed values, and the compiler stops for a known reason.
THEOREM TypingTypes == Spec => []TypeOK
<1>1. TypingInv => TypeOK
  BY DEF TypingInv
<1> QED BY <1>1, TypingCorrect, PTL

\* The LLVM type of every value that is no pointer is that of the type of its
\* expression, but for comparisons, AND and OR of integers, and lost values.
THEOREM Values == Spec => []ValuesHaveTheirTypes
<1>1. TypingInv => ValuesHaveTheirTypes
  BY DEF TypingInv, AllGood, Good, ValuesHaveTheirTypes
<1> QED BY <1>1, TypingCorrect, PTL

\* What sem() accepts has no ill-formed instruction, but where sem() overlooks a
\* type or an operand does not have the value of its type.
THEOREM Accepted == Spec => []AcceptedIsWellFormed
<1>1. TypingInv => AcceptedIsWellFormed
  BY DEF TypingInv
<1> QED BY <1>1, TypingCorrect, PTL

\* In any program, a pointer points to what its type says.
THEOREM Pointers == Spec => []PointersHaveTheirTypes
<1>1. TypingInv => PointersHaveTheirTypes
  BY DEF TypingInv, AllGood, Good, PointersHaveTheirTypes
<1> QED BY <1>1, TypingCorrect, PTL

=============================================================================
