------------------------------ MODULE MCPasses ------------------------------
EXTENDS Passes

\* Programs with lets of variables, or of functions, only.
Variables == {"unit", "use", "let", "var"}
Functions == {"unit", "use", "let", "fun"}

AllKinds == Exprs \cup Defs
=============================================================================
