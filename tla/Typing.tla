------------------------------- MODULE Typing -------------------------------
(***************************************************************************)
(* What sem() accepts, and what LLVM types the values have that codegen()  *)
(* makes of it.  The two are written apart, class by class: the type that  *)
(* sem() gives to an expression says what its users may do with it, the    *)
(* LLVM type of its value decides whether the instructions they emit are   *)
(* well formed.                                                            *)
(*                                                                         *)
(* Expressions are built from their operands upwards: the values of the    *)
(* expressions that wait to become operands are on a stack, and an action  *)
(* is the sem() and the codegen() of one class of src/ast.                 *)
(***************************************************************************)
EXTENDS Integers, Sequences
LOCAL INSTANCE Functions

CONSTANTS
  MaxWraps,     \* bound: refs, and dimensions of arrays, around a base type
  MaxOperands   \* bound: values that wait to become operands

ASSUME BoundsAssumption ==
  MaxWraps \in Nat \ {0} /\ MaxOperands \in Nat \ {0}

VARIABLES
  operands,  \* the values at hand, the last one on top; when the compiler has
             \* stopped for a fault, those of the expression at fault
  outcome    \* "ok", or why the compiler stopped

vars == <<operands, outcome>>

Base == {"unit", "int", "char", "bool"}

\* A type is a base type and what is around it, outermost last: Pointer for
\* ref, or the number of dimensions of an array, which is an array of refs.  An
\* LLVM type is the same over the machine types: a pointer for Pointer, and for
\* dimensions a pointer to a struct, whose first field is the pointer below them.
Pointer == 0

Proper(wraps) ==
  \A i \in 1..Len(wraps) : wraps[i] # Pointer => i > 1 /\ wraps[i - 1] = Pointer

Wraps == {w \in Seq(0..MaxWraps) : Proper(w)}

Type == [base: Base, wraps: Wraps]

LLVMType == [base: {"unit", "i32", "i8", "i1", "null"}, wraps: Wraps]

Simple(b) == [base |-> b, wraps |-> <<>>]

intType  == Simple("int")
charType == Simple("char")
boolType == Simple("bool")
unitType == Simple("unit")

Wrap(t, w) == [base |-> t.base, wraps |-> Append(t.wraps, w)]

Ref(t) == Wrap(t, Pointer)

\* An array of t with k dimensions: the constructor makes a ref of t.
ArrayOf(t, k) == Wrap(Ref(t), k)

stringType == ArrayOf(charType, 1)

Wrapped(t) == t.wraps # <<>>

Outer(t) == t.wraps[Len(t.wraps)]

IsRef(t) == Wrapped(t) /\ Outer(t) = Pointer

IsArray(t) == Wrapped(t) /\ Outer(t) # Pointer

\* What a ref points to, what an array holds.
Inside(t) ==
  [base |-> t.base, wraps |-> SubSeq(t.wraps, 1, Len(t.wraps) - 1)]

\* Mutant of Machine: BOOL is a byte.
MachineByte == [unit |-> "unit", int |-> "i32", char |-> "i8", bool |-> "i8"]

Machine == [unit |-> "unit", int |-> "i32", char |-> "i8", bool |-> "i1"]

\* Mutant of LLVMOf: the first field of the struct is a pointer to the LLVM type
\* of the element, which is one already.
LLVMOfTwice(t) ==
  [base  |-> Machine[t.base],
   wraps |-> IF IsArray(t) THEN Inside(t).wraps \o <<Pointer, Outer(t)>> ELSE t.wraps]

\* getLLVMType().  The first field of the struct of an array is a pointer to
\* what the LLVM type of the element points to, which takes it for a pointer.
LLVMOf(t) ==
  LET ofElement(i) == i < Len(t.wraps) /\ t.wraps[i + 1] # Pointer IN
    [base  |-> Machine[t.base],
     wraps |-> [i \in 1..Len(t.wraps) |-> IF ofElement(i) THEN Pointer ELSE t.wraps[i]]]

I32 == [base |-> "i32", wraps |-> <<>>]
I8  == [base |-> "i8", wraps |-> <<>>]
I1  == [base |-> "i1", wraps |-> <<>>]

\* The LLVM types of integers.
Integer == {I32, I8, I1}

UnitValue == [base |-> "unit", wraps |-> <<>>]

\* The nullptr that some codegen() return.
NoValue == [base |-> "null", wraps |-> <<>>]

StringPtr == LLVMOf(stringType)

\* An expression: its type, and the LLVM type of its value.
Value == [type: Type, llvm: LLVMType]

Of(t) == [type |-> t, llvm |-> LLVMOf(t)]

As(t, l) == [type |-> t, llvm |-> l]

Faults ==
  {"operand", "dimension", "index", "condition", "phi", "else", "first",
   "pattern", "store", "return", "call"}

-----------------------------------------------------------------------------
(* The functions of the library, as Library::insertFunctionsToScope()      *)
(* declares them for sem() and AST::codegenLibs() for codegen().           *)

Fn(params, result) == [params |-> params, result |-> result]

IntRef == Ref(intType)

I32Ptr == [base |-> "i32", wraps |-> <<Pointer>>]

Signature ==
  [print_int    |-> Fn(<<intType>>, unitType),
   print_string |-> Fn(<<stringType>>, unitType),
   print_char   |-> Fn(<<charType>>, unitType),
   print_bool   |-> Fn(<<boolType>>, unitType),
   read_int     |-> Fn(<<unitType>>, intType),
   read_bool    |-> Fn(<<unitType>>, boolType),
   read_char    |-> Fn(<<unitType>>, charType),
   read_string  |-> Fn(<<stringType>>, unitType),
   abs          |-> Fn(<<intType>>, intType),
   incr         |-> Fn(<<IntRef>>, unitType),
   decr         |-> Fn(<<IntRef>>, unitType),
   int_of_char  |-> Fn(<<charType>>, intType),
   char_of_int  |-> Fn(<<intType>>, charType),
   strlen       |-> Fn(<<stringType>>, intType),
   strcmp       |-> Fn(<<stringType, stringType>>, intType),
   strcpy       |-> Fn(<<stringType, stringType>>, unitType),
   strcat       |-> Fn(<<stringType, stringType>>, unitType)]

\* What codegenLibs() makes of them.
Prototype ==
  [print_string |-> Fn(<<StringPtr>>, UnitValue),
   print_int    |-> Fn(<<I32>>, UnitValue), print_char  |-> Fn(<<I8>>, UnitValue),
   print_bool   |-> Fn(<<I1>>, UnitValue),  read_int    |-> Fn(<<UnitValue>>, I32),
   read_bool    |-> Fn(<<UnitValue>>, I1),  read_char   |-> Fn(<<UnitValue>>, I8),
   read_string  |-> Fn(<<StringPtr>>, UnitValue),
   abs          |-> Fn(<<I32>>, I32),       incr        |-> Fn(<<I32Ptr>>, UnitValue),
   decr         |-> Fn(<<I32Ptr>>, UnitValue),
   int_of_char  |-> Fn(<<I8>>, I32),        char_of_int |-> Fn(<<I32>>, I8),
   strlen       |-> Fn(<<StringPtr>>, I32),
   strcmp       |-> Fn(<<StringPtr, StringPtr>>, I32),
   strcpy       |-> Fn(<<StringPtr, StringPtr>>, UnitValue),
   strcat       |-> Fn(<<StringPtr, StringPtr>>, UnitValue)]

-----------------------------------------------------------------------------
(* Steps.                                                                  *)

Running == outcome = "ok"

Has(k) == Running /\ Len(operands) >= k

\* The top operand is Top(0).
Top(i) == operands[Len(operands) - i]

Fits(v) == v.llvm = LLVMOf(v.type)

Last(k) == SubSeq(operands, Len(operands) - k + 1, Len(operands))

\* The compiler exits: sem() has a message, or the IR is bad.
Stop(why, at) == outcome' = why /\ operands' = at

\* k operands become value v.
Reduce(k, v) ==
  /\ operands' = Append(SubSeq(operands, 1, Len(operands) - k), v)
  /\ UNCHANGED outcome

Fault(why, bad) == {w \in {why} : bad}

\* sem() checks; if the instructions are well formed there is a value.  at is
\* what the instructions are made of.
CheckAt(accepted, faults, at, k, v) ==
  \/ ~accepted /\ Stop("rejected", <<>>)
  \/ accepted /\ \E w \in faults : Stop(w, at)
  \/ accepted /\ faults = {} /\ Reduce(k, v)

Check(accepted, faults, k, v) == CheckAt(accepted, faults, Last(k), k, v)

Push(v) ==
  /\ Running /\ Len(operands) < MaxOperands
  /\ Reduce(0, v)

Literal == \E t \in {intType, charType, boolType, unitType, stringType} : Push(Of(t))

\* The refs and the dimensions around a base type.
Weight(wraps) ==
  FoldFunction(LAMBDA w, n : n + IF w = Pointer THEN 1 ELSE w - 1, 0, wraps)

SomeWraps ==
  {w \in UNION {[1..n -> 0..MaxWraps] : n \in 0..2 * MaxWraps} :
     Proper(w) /\ Weight(w) <= MaxWraps}

SomeType == [base: Base, wraps: SomeWraps]

\* A parameter, a mutable variable, or the result of a new.
Variable == \E t \in SomeType : Push(Of(t))

\* A name that a let gave to an expression: it has the type and the value.
LetVariable == \E i \in 1..Len(operands) : Push(operands[i])

AllI32(k) == \A i \in 0..k - 1 : Top(i).llvm = I32

\* Mutant of MutableArray: one dimension for the array itself.
MutableArrayWider ==
  \E t \in SomeType, k \in 1..MaxWraps :
    /\ Has(k) /\ Weight(t.wraps) + k <= MaxWraps
    /\ Check(TRUE, Fault("dimension", ~AllI32(k)), k, Of(ArrayOf(t, k + 1)))

\* A mutable array: its dimensions are not checked.
MutableArray ==
  \E t \in SomeType, k \in 1..MaxWraps :
    /\ Has(k) /\ Weight(t.wraps) + k <= MaxWraps
    /\ Check(TRUE, Fault("dimension", ~AllI32(k)), k, Of(ArrayOf(t, k)))

\* NOT leaves the value as it is.
Not ==
  /\ Has(1)
  /\ Check(Top(0).type = boolType, {}, 1, As(boolType, Top(0).llvm))

\* SIG_MINUS multiplies by a word.
Minus ==
  /\ Has(1)
  /\ Check(Top(0).type = intType, Fault("operand", Top(0).llvm # I32),
           1, Of(intType))

\* SIG_PLUS inverts bits, of any width.
Plus ==
  /\ Has(1)
  /\ Check(Top(0).type = intType, Fault("operand", Top(0).llvm \notin Integer),
           1, As(intType, Top(0).llvm))

\* A value that is not a pointer has nothing to load.
Deref ==
  /\ Has(1)
  /\ LET v == Top(0) IN
       Check(IsRef(v.type), Fault("operand", v.llvm = NoValue), 1,
             As(Inside(v.type),
                IF IsRef(v.llvm) THEN Inside(v.llvm) ELSE NoValue))

Delete ==
  /\ Has(1)
  /\ Check(IsRef(Top(0).type), Fault("operand", ~Wrapped(Top(0).llvm)),
           1, Of(unitType))

\* A single index may be an integer of any width.
IndicesFit(k) ==
  IF k = 1 THEN Top(0).llvm \in Integer ELSE AllI32(k)

\* An array and as many indices as it has dimensions; these are not checked.  The
\* type is the ref in the type of the array, the value is made from the pointer
\* in its struct.
Index ==
  \E k \in 1..MaxWraps :
    /\ Has(k + 1)
    /\ LET v == Top(k) IN
         Check(IsArray(v.type) /\ Outer(v.type) = k,
               Fault("operand", ~IsArray(v.llvm)) \union Fault("index", ~IndicesFit(k)),
               k + 1, As(Inside(v.type), Inside(v.llvm)))

\* dim k x, for a variable; dim 0 x is not refused.
Dim ==
  \E k \in 0..MaxWraps :
    /\ Has(1)
    /\ Check(IsArray(Top(0).type) /\ k <= Outer(Top(0).type),
             Fault("operand", ~IsArray(Top(0).llvm)), 1, Of(intType))

SameLLVM == Top(1).llvm = Top(0).llvm /\ Top(0).llvm # NoValue

SameInteger == Top(1).llvm = Top(0).llvm /\ Top(0).llvm \in Integer

BothInt == Top(1).type = intType /\ Top(0).type = intType

\* BIN_PLUS, BIN_MINUS, STAR, DIV and MOD.
Arithmetic ==
  /\ Has(2)
  /\ Check(BothInt, Fault("operand", ~SameInteger), 2,
           As(intType, Top(1).llvm))

\* L, G, LE and GE have type INT and a value of one bit.
Compare ==
  /\ Has(2)
  /\ Check(BothInt, Fault("operand", ~SameInteger), 2, As(intType, I1))

BothSimple ==
  /\ Top(1).type = Top(0).type
  /\ Top(1).type \in {boolType, intType}

\* STRUCT_EQ and STRUCT_NE.
Equal ==
  /\ Has(2)
  /\ Check(BothSimple, Fault("operand", ~SameInteger), 2, Of(boolType))

\* EQ and NE are accepted and not implemented.
Same ==
  /\ Has(2)
  /\ Check(BothSimple, {}, 2, As(boolType, NoValue))

\* AND and OR work on bits: INT is accepted for the sake of comparisons.
AndOr ==
  /\ Has(2)
  /\ Check(BothSimple, Fault("operand", ~SameInteger), 2,
           As(boolType, Top(1).llvm))

\* Mutant of Assign: what is stored is not compared.
AssignUnchecked ==
  /\ Has(2)
  /\ Check(IsRef(Top(1).type),
           Fault("store", Top(1).llvm # Ref(Top(0).llvm)), 2, Of(unitType))

Assign ==
  /\ Has(2)
  /\ Check(IsRef(Top(1).type) /\ Inside(Top(1).type) = Top(0).type,
           Fault("store", Top(1).llvm # Ref(Top(0).llvm)), 2, Of(unitType))

\* PAR has the type of its right operand, and always the unit value.
Semicolon == Has(2) /\ Reduce(2, As(Top(0).type, UnitValue))

IsCondition(v) == v.type \in {boolType, intType}

BadCondition(v) == Fault("condition", v.llvm # I1)

If ==
  /\ Has(3)
  /\ Check(IsCondition(Top(2)) /\ Top(1).type = Top(0).type,
           BadCondition(Top(2)) \union Fault("phi", ~SameLLVM), 3, Top(1))

\* Without an else part, the type is that of the then part, whatever it is, and
\* the PHI has the unit value for the else part.
IfThen ==
  /\ Has(2)
  /\ Check(IsCondition(Top(1)),
           BadCondition(Top(1)) \union Fault("else", Top(0).llvm # UnitValue),
           2, Top(0))

While ==
  /\ Has(2)
  /\ Check(IsCondition(Top(1)), BadCondition(Top(1)), 2, Of(unitType))

\* First value, target and body; the first value is not checked.
For ==
  /\ Has(3)
  /\ Check(Top(1).type = intType,
           Fault("operand", Top(1).llvm # I32) \union Fault("first", Top(2).llvm # I32),
           3, Of(unitType))

\* The types of patterns: literals, and a variable of the scrutinee's type.  A
\* variable of any other type is as wrong as some literal.
PatternType(scrutinee) == {intType, charType, boolType, scrutinee.type}

\* A scrutinee and the values of two clauses.  The patterns are of one type
\* or not: sem() compares them with each other, but not with the scrutinee.
Match ==
  /\ Has(3)
  /\ \E p \in PatternType(Top(2)), same \in BOOLEAN :
       CheckAt(same /\ Top(1).type = Top(0).type,
               Fault("pattern", LLVMOf(p) # Top(2).llvm \/ p = unitType)
                 \union Fault("phi", ~SameLLVM),
               Append(Last(3), Of(p)), 3, Top(1))

\* A call of a function of the library.
CallLibrary ==
  \E f \in DOMAIN Signature :
    LET k == Len(Signature[f].params) IN
      /\ Has(k)
      /\ Check(\A i \in 1..k : Top(k - i).type = Signature[f].params[i],
               Fault("call", \E i \in 1..k :
                               Top(k - i).llvm # Prototype[f].params[i]),
               k, As(Signature[f].result, Prototype[f].result))

\* What a function returns if its body has value v.
Returned(v) == IF v.llvm = NoValue THEN UnitValue ELSE v.llvm

\* A call of a function of the program, with one argument, which has the
\* type of the parameter or not.  The top operand is the body: the function
\* has its type, and returns its value.
CallFunction ==
  /\ Has(2)
  /\ \E same \in BOOLEAN :
       Check(same,
             Fault("return", Returned(Top(0)) # LLVMOf(Top(0).type))
               \union Fault("call", ~Fits(Top(1))),
             2, Of(Top(0).type))

-----------------------------------------------------------------------------
Init == operands = <<>> /\ outcome = "ok"

Next ==
  \/ Literal \/ Variable \/ LetVariable \/ MutableArray
  \/ Not \/ Minus \/ Plus \/ Deref \/ Delete \/ Index \/ Dim
  \/ Arithmetic \/ Compare \/ Equal \/ Same \/ AndOr \/ Assign \/ Semicolon
  \/ If \/ IfThen \/ While \/ For \/ Match
  \/ CallLibrary \/ CallFunction

Spec == Init /\ [][Next]_vars
-----------------------------------------------------------------------------
(* Properties.                                                             *)

\* Operands are typed values, and the compiler stops for a known reason.
TypeOK ==
  /\ operands \in Seq(Value)
  /\ outcome \in {"ok", "rejected"} \cup Faults

\* The result of a comparison: its type is INT, its value is a bit.
IsComparison(v) == v.type = intType /\ v.llvm = I1

\* AND and OR of integers: the type is BOOL, the value a word.
IsBits(v) == v.type = boolType /\ v.llvm = I32

\* The value of a sequence is unit, whatever its last expression; == and != have
\* none, nor has what is loaded through something that is no pointer.
IsLost(v) == v.llvm \in {UnitValue, NoValue}

\* In every program that sem() accepts so far, a value that is no pointer has the
\* LLVM type that follows from the type of its expression, through every
\* operator, call and control structure, but for comparisons, AND and OR of
\* integers, and values that are lost.
ValuesHaveTheirTypes ==
  \A i \in 1..Len(operands) :
    LET v == operands[i] IN
      ~Wrapped(v.llvm) => Fits(v) \/ IsComparison(v) \/ IsBits(v) \/ IsLost(v)

\* Where sem() does not look at a type, or not for the one that codegen() needs:
\* dimensions, indices and the first value of a loop may be anything, INT is a
\* condition, the then part without an else may have a value, and a pattern need
\* not be of the type of the scrutinee.
Overlooked(fault, of) ==
  \/ fault = "dimension" /\ \E i \in 1..Len(of) : of[i].type # intType
  \/ fault = "index" /\ \E i \in 2..Len(of) : of[i].type # intType
  \/ fault = "first" /\ of[1].type # intType
  \/ fault = "condition" /\ of[1].type = intType
  \/ fault = "else" /\ of[2].type # unitType
  \/ fault = "pattern" /\ (of[4].type # of[1].type \/ of[1].type = unitType)

\* Of what sem() accepts, an instruction is made that LLVM does not accept only
\* where sem() overlooks a type, or of an operand that does not have the value
\* of its type: with these apart, operands, conditions, the incoming values of a
\* PHI, the arguments of a call and the result of a function are what they must
\* be.
AcceptedIsWellFormed ==
  outcome \in Faults =>
    \/ Overlooked(outcome, operands)
    \/ \E i \in 1..Len(operands) : ~Fits(operands[i])

\* A value that is a pointer has the LLVM type of its expression, whatever
\* the program: nothing is ever loaded or stored through a pointer to
\* something else, also not in arrays, whose element type one class wraps and
\* another unwraps.
PointersHaveTheirTypes ==
  \A i \in 1..Len(operands) :
    Wrapped(operands[i].llvm) => Fits(operands[i])
=============================================================================
