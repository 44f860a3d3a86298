------------------------------ MODULE MCArrays -------------------------------
(***************************************************************************)
(* Arrays of one, two and three dimensions of different sizes.             *)
(***************************************************************************)
EXTENDS Arrays

MCShapes == {<<2>>, <<2, 3>>, <<2, 1, 2>>}

MCStrings == {[k \in 1..2 |-> v] : v \in Values}
=============================================================================
