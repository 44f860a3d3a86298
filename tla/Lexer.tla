-------------------------------- MODULE Lexer --------------------------------
(***************************************************************************)
(* The scanner that flex makes of lexer.l, and the decoding of string      *)
(* literals by the constructor of their node.  flex takes the rule that    *)
(* matches the longest prefix of what is left, the first of them if there  *)
(* are several; comments nest, and are the only state.                     *)
(*                                                                         *)
(* A letter stands for all letters, a digit for all digits, an operator    *)
(* character for all those that are tokens by themselves; nl is the end of *)
(* a line, quote and tick delimit strings and characters, back is the      *)
(* backslash.  Comments are those in parentheses, those from two dashes to *)
(* the end of the line, and those from a percent sign through the end of   *)
(* the line.                                                               *)
(***************************************************************************)
EXTENDS Integers, Sequences

CONSTANT Inputs  \* the programs

VARIABLES
  input,     \* the program
  rest,      \* what is left of it
  condition, \* flex's start condition
  level,     \* comment_level
  tokens,    \* the tokens so far
  literal,   \* the string that is being decoded, and the escape to look for
  outcome    \* "scan", "eof" or "illegal"

vars == <<input, rest, condition, level, tokens, literal, outcome>>

Letters == {"n", "a"}

Digits == {"0"}

Operators == {"(", ")", "*", "-"}

-----------------------------------------------------------------------------
(* Rules.                                                                  *)

After(s, k) == SubSeq(s, k + 1, Len(s))

BeginsWith(s, p) == Len(s) >= Len(p) /\ SubSeq(s, 1, Len(p)) = p

\* The length of the longest prefix of s without the characters in set, and of
\* the longest with only those.
Until(s, set) ==
  CHOOSE k \in 0..Len(s) : /\ k = Len(s) \/ s[k + 1] \in set
                          /\ \A j \in 1..k : s[j] \notin set

While(s, set) ==
  CHOOSE k \in 0..Len(s) : /\ k = Len(s) \/ s[k + 1] \notin set
                          /\ \A j \in 1..k : s[j] \in set

Escaped == {"n", "0", "back", "tick", "quote"}

\* A quote, and the next one on the same line.
StringLength(s) ==
  LET k == Until(After(s, 1), {"quote", "nl"}) + 2 IN
    IF k <= Len(s) /\ s[1] = "quote" /\ s[k] = "quote" THEN k ELSE 0

CharLength(s) ==
  IF BeginsWith(s, <<"tick", "back">>) /\ Len(s) >= 4 /\ s[3] \in Escaped /\ s[4] = "tick"
    THEN 4
  ELSE IF Len(s) >= 3 /\ s[1] = "tick" /\ s[2] \notin {"tick", "back", "quote"} /\ s[3] = "tick"
    THEN 3 ELSE 0

Length(matches, k) == IF matches THEN k ELSE 0

\* From a percent sign to the end of its line, which has to be there.
PercentLength(s) == LET k == Until(s, {"nl"}) IN Length(s[1] = "percent" /\ k < Len(s), k + 1)

\* The rules of a start condition, in their order, with the lengths that they
\* match.
InitialRules(s) ==
  <<<<"operator", Length(s[1] \in Operators, 1)>>,
    <<"string", StringLength(s)>>,
    <<"char", CharLength(s)>>,
    <<"int", While(s, Digits)>>,
    <<"id", Length(s[1] \in Letters, While(s, Letters \union Digits))>>,
    <<"percent", PercentLength(s)>>,
    <<"line", Length(BeginsWith(s, <<"-", "-">>), Until(s, {"nl"}))>>,
    <<"open", Length(BeginsWith(s, <<"(", "*">>), 2)>>,
    <<"skip", Length(s[1] = "nl", 1)>>,
    <<"illegal", Length(s[1] # "nl", 1)>>>>

\* Mutant of CommentRules: a parenthesis is left to flex.
CommentRulesStar(s) ==
  <<<<"open", Length(BeginsWith(s, <<"(", "*">>), 2)>>,
    <<"close", Length(BeginsWith(s, <<"*", ")">>), 2)>>,
    <<"skip", Length(s[1] \in {"nl", "*"}, 1)>>,
    <<"skip", Until(s, {"(", "*", "nl"})>>>>

CommentRules(s) ==
  <<<<"open", Length(BeginsWith(s, <<"(", "*">>), 2)>>,
    <<"close", Length(BeginsWith(s, <<"*", ")">>), 2)>>,
    <<"skip", Length(s[1] \in {"nl", "*", "("}, 1)>>,
    <<"skip", Until(s, {"(", "*", "nl"})>>>>

\* The longest of them, the first if there are several; echo is flex's default
\* rule, for what no rule matches.
Longest(rules) ==
  LET best == CHOOSE k \in DOMAIN rules :
                /\ \A j \in DOMAIN rules : rules[j][2] <= rules[k][2]
                /\ \A j \in 1..k - 1 : rules[j][2] < rules[k][2]
  IN IF rules[best][2] = 0 THEN <<"echo", 1>> ELSE rules[best]

Taken == Longest(IF condition = "COMMENT" THEN CommentRules(rest) ELSE InitialRules(rest))

Scanning == outcome = "scan" /\ literal = <<>> /\ rest # <<>>

Token(kind, text) == tokens' = Append(tokens, [kind |-> kind, text |-> text])

-----------------------------------------------------------------------------
(* Actions: what the taken rule does with its text.                        *)

Text(rule) == SubSeq(rest, 1, rule[2])

Simple(rule) ==
  /\ rule[1] \in {"operator", "int", "id"} /\ Token(rule[1], Text(rule))
  /\ UNCHANGED <<condition, level, literal, outcome>>

\* The second character of the text is the value, for an escape too.
Char(rule) ==
  /\ rule[1] = "char" /\ Token("char", <<rest[2]>>)
  /\ UNCHANGED <<condition, level, literal, outcome>>

\* A string, without its quotes, goes to the constructor.
String(rule) ==
  /\ rule[1] = "string"
  /\ literal' = <<SubSeq(rest, 2, rule[2] - 1), 1>>
  /\ UNCHANGED <<condition, level, tokens, outcome>>

\* Text without value: in comments too.
Skip(rule) ==
  /\ rule[1] \in {"percent", "line", "skip"}
  /\ UNCHANGED <<condition, level, tokens, literal, outcome>>

\* Mutant of Open: comments do not nest.
OpenFlat(rule) ==
  /\ rule[1] = "open"
  /\ level' = 1 /\ condition' = "COMMENT"
  /\ UNCHANGED <<tokens, literal, outcome>>

Open(rule) ==
  /\ rule[1] = "open"
  /\ level' = level + 1 /\ condition' = "COMMENT"
  /\ UNCHANGED <<tokens, literal, outcome>>

\* Mutant of Close: the level is looked at before it is lowered.
CloseLate(rule) ==
  /\ rule[1] = "close"
  /\ level' = level - 1
  /\ condition' = IF level = 0 THEN "INITIAL" ELSE "COMMENT"
  /\ UNCHANGED <<tokens, literal, outcome>>

Close(rule) ==
  /\ rule[1] = "close"
  /\ level' = level - 1
  /\ condition' = IF level' = 0 THEN "INITIAL" ELSE "COMMENT"
  /\ UNCHANGED <<tokens, literal, outcome>>

\* yyerror() ends the program.
Illegal(rule) ==
  /\ rule[1] = "illegal" /\ outcome' = "illegal"
  /\ UNCHANGED <<condition, level, tokens, literal>>

\* The end of the file, in a comment too.
Eof ==
  /\ outcome = "scan" /\ literal = <<>> /\ rest = <<>>
  /\ outcome' = "eof"
  /\ UNCHANGED <<input, rest, condition, level, tokens, literal>>

\* The escapes that the constructor replaces, in this order, and by what:
\* n stands for t and r too, and "\0" is an empty string.
Replacements ==
  <<<<"n", <<"nl">>>>, <<"0", <<>>>>, <<"back", <<"back">>>>,
    <<"tick", <<"tick">>>>, <<"quote", <<"quote">>>>>>

\* Where an escape first is in a text, 0 if it is not.
Find(text, escape) ==
  LET at(k) == text[k] = "back" /\ text[k + 1] = escape
      found == {k \in 1..Len(text) - 1 : at(k)}
  IN IF found = {} THEN 0 ELSE CHOOSE k \in found : \A j \in found : k <= j

\* Mutant of Replace: the backslash stays.
ReplaceKeeps ==
  /\ literal # <<>> /\ literal[2] <= Len(Replacements)
  /\ LET text == literal[1]
         replacement == Replacements[literal[2]]
         k == Find(text, replacement[1])
     IN literal' = IF k = 0 THEN <<text, literal[2] + 1>>
                   ELSE <<SubSeq(text, 1, k) \o replacement[2] \o After(text, k + 1),
                          literal[2]>>
  /\ UNCHANGED <<input, rest, condition, level, tokens, outcome>>

\* Mutant of Replace: only the first of an escape.
ReplaceOnce ==
  /\ literal # <<>> /\ literal[2] <= Len(Replacements)
  /\ LET text == literal[1]
         replacement == Replacements[literal[2]]
         k == Find(text, replacement[1])
     IN literal' = IF k = 0 THEN <<text, literal[2] + 1>>
                   ELSE <<SubSeq(text, 1, k - 1) \o replacement[2] \o After(text, k + 1),
                          literal[2] + 1>>
  /\ UNCHANGED <<input, rest, condition, level, tokens, outcome>>

\* A while loop for each escape: as long as there is one, the first goes.
Replace ==
  /\ literal # <<>> /\ literal[2] <= Len(Replacements)
  /\ LET text == literal[1]
         replacement == Replacements[literal[2]]
         k == Find(text, replacement[1])
     IN literal' = IF k = 0 THEN <<text, literal[2] + 1>>
                   ELSE <<SubSeq(text, 1, k - 1) \o replacement[2] \o After(text, k + 1),
                          literal[2]>>
  /\ UNCHANGED <<input, rest, condition, level, tokens, outcome>>

Decoded ==
  /\ literal # <<>> /\ literal[2] > Len(Replacements)
  /\ Token("string", literal[1])
  /\ literal' = <<>>
  /\ UNCHANGED <<input, rest, condition, level, outcome>>

-----------------------------------------------------------------------------
Init ==
  /\ input \in Inputs /\ rest = input
  /\ condition = "INITIAL" /\ level = 0
  /\ tokens = <<>> /\ literal = <<>> /\ outcome = "scan"

Next ==
  \/ \E rule \in (IF Scanning THEN {Taken} ELSE {}) :
       /\ rest' = After(rest, rule[2]) /\ UNCHANGED input
       /\ \/ Simple(rule) \/ Char(rule) \/ String(rule) \/ Skip(rule)
          \/ Open(rule) \/ Close(rule) \/ Illegal(rule)
  \/ Eof \/ Replace \/ Decoded

\* The parser asks for tokens until the end.
FairSpec == Init /\ [][Next]_vars /\ WF_vars(Next)

-----------------------------------------------------------------------------
(* The language, character by character.                                   *)

\* What is left of s after the comment that it begins in: a comment within is
\* skipped first.
Commented ==
  LET skip[s \in Seq(STRING)] ==
        IF s = <<>> THEN <<>>
        ELSE IF BeginsWith(s, <<"(", "*">>) THEN skip[skip[After(s, 2)]]
        ELSE IF BeginsWith(s, <<"*", ")">>) THEN After(s, 2)
        ELSE skip[After(s, 1)]
  IN skip

\* The value of an escape, and of the text of a string, from left to right.
ValueOf(c) == CASE c = "n" -> "nl" [] c = "0" -> "nul" [] OTHER -> c

Value(text) ==
  LET decode[s, done \in Seq(STRING)] ==
        IF s = <<>> THEN done
        ELSE IF s[1] = "back" /\ Len(s) > 1 /\ s[2] \in Escaped
          THEN decode[After(s, 2), Append(done, ValueOf(s[2]))]
        ELSE decode[After(s, 1), Append(done, s[1])]
  IN decode[text, <<>>]

\* The tokens of a program, which end with an illegal one if there is one.
Meaning ==
  LET scan[s \in Seq(STRING), done \in Seq([kind : STRING, text : Seq(STRING)])] ==
        LET with(kind, text, k) == scan[After(s, k), Append(done, [kind |-> kind, text |-> text])]
        IN IF s = <<>> THEN done
           ELSE IF BeginsWith(s, <<"(", "*">>) THEN scan[Commented[After(s, 2)], done]
           ELSE IF BeginsWith(s, <<"-", "-">>) THEN scan[After(s, Until(s, {"nl"})), done]
           ELSE IF s[1] = "percent" /\ \E k \in DOMAIN s : s[k] = "nl" THEN
             scan[After(s, Until(s, {"nl"}) + 1), done]
           ELSE IF s[1] = "nl" THEN scan[After(s, 1), done]
           ELSE IF s[1] \in Operators THEN with("operator", <<s[1]>>, 1)
           ELSE IF s[1] \in Digits THEN
             LET n == While(s, Digits) IN with("int", SubSeq(s, 1, n), n)
           ELSE IF s[1] \in Letters THEN
             LET n == While(s, Letters \union Digits) IN with("id", SubSeq(s, 1, n), n)
           ELSE IF StringLength(s) > 0 THEN
             with("string", Value(SubSeq(s, 2, StringLength(s) - 1)), StringLength(s))
           ELSE IF CharLength(s) > 0 THEN
             with("char", Value(SubSeq(s, 2, CharLength(s) - 1)), CharLength(s))
           ELSE Append(done, [kind |-> "illegal", text |-> <<>>])
  IN scan[input, <<>>]

Has(pair) == \E k \in 1..Len(input) - 1 : SubSeq(input, k, k + 1) = pair

\* The escapes that the code treats as the language does: in strings, and not
\* those that contain a backslash twice, a zero, or a quote.
Regular ==
  /\ ~Has(<<"tick", "back">>)
  /\ \A c \in {"back", "0", "quote"} : ~Has(<<"back", c>>)

-----------------------------------------------------------------------------
(* Properties.                                                             *)

\* The scanner is in a comment if and only if a comment is open, and what it
\* keeps is of its input.
TypeOK ==
  /\ rest = After(input, Len(input) - Len(rest))
  /\ condition \in {"INITIAL", "COMMENT"}
  /\ level \in Nat /\ (condition = "COMMENT" <=> level > 0)
  /\ outcome \in {"scan", "eof", "illegal"}

\* The tokens are those of the language, however comments, strings and line
\* comments contain each other's delimiters.
TokensOfLanguage ==
  Regular =>
    /\ outcome = "eof" => tokens = Meaning
    /\ outcome = "illegal" => Append(tokens, [kind |-> "illegal", text |-> <<>>]) = Meaning

\* Scanning and decoding end, for any program: flex never falls back on its
\* default rule, which would copy the characters of a comment to the standard
\* output, where the generated code goes; and every loop over a literal ends,
\* though a replacement may make up a new escape.
ScanningEnds == <>(outcome # "scan")
=============================================================================
