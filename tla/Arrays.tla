------------------------------- MODULE Arrays --------------------------------
(***************************************************************************)
(* Arrays in generated code.  An array is a pointer to a struct in the     *)
(* heap: a pointer to the elements, the number of dimensions, and the      *)
(* dimensions.  The definition writes it, with the dimensions in a loop of *)
(* the compiler; an index expression and dim, which know only the number   *)
(* of dimensions, read it, with field numbers of their own; strings and    *)
(* the library expect one dimension in field 2.                            *)
(*                                                                         *)
(* The heap is a sequence of words; malloc() takes from its end.  Indices  *)
(* are within the dimensions: the code generated does not check them.      *)
(***************************************************************************)
EXTENDS Integers, Sequences, FiniteSets

CONSTANTS
  Values,    \* what elements hold
  Unset,     \* a word that was never written
  Shapes,    \* dimensions that programs define arrays with
  Strings,   \* their literals
  MaxArrays, \* bound: definitions that are executed
  MaxWords   \* bound: the heap

ASSUME ShapesAssumption == \A dims \in Shapes : dims \in Seq(Nat) /\ dims # <<>>

ASSUME StringsAssumption == \A s \in Strings : s \in Seq(Values)

ASSUME BoundsAssumption == MaxArrays \in Nat /\ MaxWords \in Nat

VARIABLES
  heap,    \* the words of the heap, by address
  arrays,  \* the pointers to structs, in the order of their definitions
  ref,     \* the pointer to an element that the program holds, 0 for none
  of,      \* history: <<array, indices>> that it was made from
  result   \* what it read last

vars == <<heap, arrays, ref, of, result>>

-----------------------------------------------------------------------------
(* The struct: fields count from 0.                                        *)

Field(struct, f) == heap[struct + f]

Pointer(struct) == Field(struct, 0)

Dims(struct) == Field(struct, 1)

Shape(struct) == [k \in 1..Dims(struct) |-> Field(struct, k + 1)]

\* Mutant of Product: the last dimension is all there is.
ProductLast(dims) == dims[Len(dims)]

\* The number of elements.
Product(dims) ==
  LET upTo[k \in 0..Len(dims)] == IF k = 0 THEN 1 ELSE upTo[k - 1] * dims[k]
  IN upTo[Len(dims)]

\* Mutant of Allocate: the dimensions before their number.
AllocateSwapped(dims, elements) ==
  /\ Len(arrays) < MaxArrays
  /\ Len(heap) + 2 + Len(dims) + Len(elements) <= MaxWords
  /\ LET struct == Len(heap) + 1
         pointer == struct + 2 + Len(dims)
     IN /\ heap' = heap \o <<pointer>> \o dims \o <<Len(dims)>> \o elements
        /\ arrays' = Append(arrays, struct)
  /\ UNCHANGED <<ref, of, result>>

Unwritten(n) == [k \in 1..n |-> Unset]

\* Two malloc(), and the fields: the new struct is at the end of the heap.
Allocate(dims, elements) ==
  /\ Len(arrays) < MaxArrays
  /\ Len(heap) + 2 + Len(dims) + Len(elements) <= MaxWords
  /\ LET struct == Len(heap) + 1
         pointer == struct + 2 + Len(dims)
     IN /\ heap' = heap \o <<pointer, Len(dims)>> \o dims \o elements
        /\ arrays' = Append(arrays, struct)
  /\ UNCHANGED <<ref, of, result>>

MutableArrayDef == \E dims \in Shapes : Allocate(dims, Unwritten(Product(dims)))

\* The string is copied from a global one, which is never written.
Literal == \E s \in Strings : Allocate(<<Len(s)>>, s)

-----------------------------------------------------------------------------
(* Index expressions.                                                      *)

Indices(dims) ==
  LET all == UNION {0..dims[d] - 1 : d \in DOMAIN dims} IN
    {idx \in [DOMAIN dims -> all] : \A d \in DOMAIN dims : idx[d] < dims[d]}

\* Mutant of Offset: the dimension of the index itself, not of the one after.
OffsetOwn(struct, idx) ==
  LET n == Len(idx)
      mulTemp[i \in 1..n] == IF i = n THEN 1 ELSE mulTemp[i + 1] * Field(struct, i + 1)
      accessEl[i \in 1..n] ==
        IF i = n THEN idx[n] ELSE accessEl[i + 1] + mulTemp[i] * idx[i]
  IN accessEl[1]

\* Mutant of Offset: mulTemp starts anew for each index.
OffsetForgets(struct, idx) ==
  LET n == Len(idx)
      mulTemp[i \in 1..n] == IF i = n THEN 1 ELSE Field(struct, i + 2)
      accessEl[i \in 1..n] ==
        IF i = n THEN idx[n] ELSE accessEl[i + 1] + mulTemp[i] * idx[i]
  IN accessEl[1]

\* From the last index to the first, each times the product of the dimensions
\* after it: what the two variables are after the round for index i.
Offset(struct, idx) ==
  LET n == Len(idx)
      mulTemp[i \in 1..n] == IF i = n THEN 1 ELSE mulTemp[i + 1] * Field(struct, i + 2)
      accessEl[i \in 1..n] ==
        IF i = n THEN idx[n] ELSE accessEl[i + 1] + mulTemp[i] * idx[i]
  IN accessEl[1]

Element(struct, idx) == Pointer(struct) + Offset(struct, idx)

\* x[...]: a pointer to an element.
Index ==
  /\ \E a \in DOMAIN arrays : \E idx \in Indices(Shape(arrays[a])) :
       ref' = Element(arrays[a], idx) /\ of' = <<a, idx>>
  /\ UNCHANGED <<heap, arrays, result>>

\* := stores through the pointer, ! loads.
Assign ==
  /\ ref # 0
  /\ \E v \in Values : heap' = [heap EXCEPT ![ref] = v]
  /\ UNCHANGED <<arrays, ref, of, result>>

Deref ==
  /\ ref # 0
  /\ result' = heap[ref]
  /\ UNCHANGED <<heap, arrays, ref, of>>

\* dim k x, which sem() accepts for the dimensions that there are, and for 0:
\* that is the number of dimensions.
Dim ==
  /\ \E a \in DOMAIN arrays : \E k \in 0..Dims(arrays[a]) :
       result' = Field(arrays[a], k + 1)
  /\ UNCHANGED <<heap, arrays, ref, of>>

-----------------------------------------------------------------------------
Init == heap = <<>> /\ arrays = <<>> /\ ref = 0 /\ of = <<>> /\ result = Unset

Next == MutableArrayDef \/ Literal \/ Index \/ Assign \/ Deref \/ Dim

Spec == Init /\ [][Next]_vars

-----------------------------------------------------------------------------
(* Properties.                                                             *)

\* Pointers point into the heap, to structs that fit it.
TypeOK ==
  /\ Len(arrays) <= MaxArrays /\ Len(heap) <= MaxWords
  /\ \A a \in DOMAIN arrays :
       /\ arrays[a] + 1 \in DOMAIN heap
       /\ Shape(arrays[a]) \in Shapes \union {<<Len(s)>> : s \in Strings}
  /\ ref \in DOMAIN heap \union {0}

\* The addresses of the elements of an array.
Block(struct) == {Element(struct, idx) : idx \in Indices(Shape(struct))}

\* Each index has an element of its own, and they are as many as were
\* allocated: the block has no holes.
ElementsFillBlock ==
  \A a \in DOMAIN arrays :
    LET struct == arrays[a]
        size == Cardinality(Indices(Shape(struct)))
    IN Block(struct) = Pointer(struct)..Pointer(struct) + size - 1

\* No element of an array lies in the struct of another, or in its block:
\* what a definition says of its array stays true whatever is assigned.
ArraysApart ==
  \A a, b \in DOMAIN arrays :
    /\ a # b => Block(arrays[a]) \intersect Block(arrays[b]) = {}
    /\ Block(arrays[a]) \intersect
         arrays[b]..arrays[b] + 1 + Dims(arrays[b]) = {}

\* How arrays lie in memory: every element in one place of its own.
LayoutRight == ElementsFillBlock /\ ArraysApart

\* The arrays that the heap holds: the dimensions of their structs, and what is
\* at the addresses of their elements.
Held ==
  [a \in DOMAIN arrays |->
     [dims |-> Shape(arrays[a]),
      elements |-> [idx \in Indices(Shape(arrays[a])) |-> heap[Element(arrays[a], idx)]]]]

Store == INSTANCE ArrayStore WITH arrays <- Held, ref <- of

\* Definition, index, assignment and dim agree on the struct and the order of
\* elements: together they are a store of arrays.
Implements == Store!Spec
=============================================================================
