----------------------------- MODULE ArrayStore ------------------------------
(***************************************************************************)
(* What arrays promise to a program: each definition makes a new array,    *)
(* whose dimensions stay; as many indices as it has dimensions denote one  *)
(* element of one array, and a write to it changes nothing else.           *)
(***************************************************************************)
EXTENDS Integers, Sequences

CONSTANTS
  Values,  \* what elements hold
  Unset,   \* an element that was never written
  Shapes,  \* dimensions, as sequences of numbers
  Strings  \* literals

VARIABLES
  arrays,  \* the arrays made so far: their dimensions and their elements
  ref,     \* the element that the program refers to, <<array, indices>>
  result   \* what it read last

\* The indices of an array: for each dimension a number below it.
Indices(dims) ==
  LET all == UNION {0..dims[d] - 1 : d \in DOMAIN dims} IN
    {idx \in [DOMAIN dims -> all] : \A d \in DOMAIN dims : idx[d] < dims[d]}

Array(dims, elements) == [dims |-> dims, elements |-> elements]

\* A definition.  A string is an array of one dimension that has its
\* characters.
Define(dims) ==
  /\ UNCHANGED <<ref, result>>
  /\ arrays' = Append(arrays, Array(dims, [idx \in Indices(dims) |-> Unset]))

Literal(s) ==
  /\ UNCHANGED <<ref, result>>
  /\ arrays' = Append(arrays, Array(<<Len(s)>>, [idx \in Indices(<<Len(s)>>) |-> s[idx[1] + 1]]))

Index(a, idx) == ref' = <<a, idx>> /\ UNCHANGED <<result, arrays>>

Write(v) ==
  /\ ref # <<>>
  /\ UNCHANGED <<ref, result>>
  /\ arrays' = [arrays EXCEPT ![ref[1]].elements[ref[2]] = v]

Read ==
  /\ ref # <<>>
  /\ result' = arrays[ref[1]].elements[ref[2]]
  /\ UNCHANGED <<ref, arrays>>

\* The k-th dimension, or how many there are.
Dim(a, k) ==
  /\ UNCHANGED ref
  /\ result' = IF k = 0 THEN Len(arrays[a].dims) ELSE arrays[a].dims[k]
  /\ UNCHANGED arrays

Init == arrays = <<>> /\ ref = <<>> /\ result = Unset

Next ==
  \/ Read
  \/ \E a \in DOMAIN arrays :
       \/ \E idx \in Indices(arrays[a].dims) : Index(a, idx)
       \/ \E k \in 0..Len(arrays[a].dims) : Dim(a, k)
  \/ \E v \in Values : Write(v)
  \/ \E dims \in Shapes : Define(dims)
  \/ \E s \in Strings : Literal(s)

Spec == Init /\ [][Next]_<<ref, result, arrays>>
=============================================================================
