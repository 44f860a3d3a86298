------------------------------- MODULE MCLexer -------------------------------
(***************************************************************************)
(* All short programs, longer ones of the characters of comments, and      *)
(* string literals with escapes.                                           *)
(***************************************************************************)
EXTENDS Lexer

Words(characters, n) == UNION {[1..k -> characters] : k \in 0..n}

MCInputs ==
  Words({"(", "*", ")", "-", "nl", "quote", "tick", "back", "percent", "n", "0"}, 3)
    \union Words({"(", "*", ")", "-", "nl", "quote"}, 5)
    \union Words({"(", "*", ")", "percent", "nl"}, 5)
    \union Words({"(", "*", ")"}, 7)
    \union {<<"quote">> \o w \o <<"quote">> : w \in Words({"back", "n", "0", "tick"}, 4)}
=============================================================================
