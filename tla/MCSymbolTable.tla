--------------------------- MODULE MCSymbolTable ---------------------------
(***************************************************************************)
(* SymbolTable on two buckets: "x" and "y" collide, "z" does not.          *)
(***************************************************************************)
EXTENDS SymbolTable

MCNames == {"x", "y", "z"}
MCHash == [n \in MCNames |-> IF n = "z" THEN 1 ELSE 0]
=============================================================================
