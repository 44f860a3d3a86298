------------------------------ MODULE MCDriver ------------------------------
(***************************************************************************)
(* Three versions: a right one, one with wrong output, one with an error.  *)
(***************************************************************************)
EXTENDS Driver
=============================================================================
