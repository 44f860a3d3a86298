----------------------------- MODULE MCTypeCells -----------------------------
EXTENDS TypeCells
=============================================================================
