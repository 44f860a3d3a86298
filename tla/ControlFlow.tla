---------------------------- MODULE ControlFlow ----------------------------
(***************************************************************************)
(* How codegen() turns the expressions of src/ast into the basic blocks of *)
(* LLVM functions.  One Builder with one insert block is shared by all the *)
(* calls of codegen() that are in progress: a call may leave the insert    *)
(* block anywhere, and its caller goes on from there.                      *)
(*                                                                         *)
(* The program is not given: whenever codegen() of a subexpression is      *)
(* called, any kind of expression may be there.  An action is the code     *)
(* between two such calls.  A value is known by the block that defines it: *)
(* this is what verifyModule() needs to know of it.                        *)
(*                                                                         *)
(* A name gives a value that LLVMValueStore holds when it is looked up.    *)
(* That may be the value of a let that is over, or of another function;    *)
(* these are the strays.                                                   *)
(***************************************************************************)
EXTENDS Integers, Sequences, FiniteSets

CONSTANTS
  MaxBlocks,     \* bound: basic blocks created over a whole behaviour
  MaxDepth,      \* bound: calls of codegen() in progress at once
  MaxClauses,    \* bound: clauses of a match
  MaxNames,      \* bound: values that names of lets have in a scope at once
  ElseBranches   \* may the else part of an if hold if, match, for, while?

ASSUME BoundsAssumption ==
  /\ MaxBlocks \in Nat \ {0} /\ MaxDepth \in Nat \ {0}
  /\ MaxClauses \in Nat \ {0} /\ MaxNames \in Nat
  /\ ElseBranches \in BOOLEAN

VARIABLES
  blocks,  \* every basic block created so far
  at,      \* the insert block of Builder
  stack,   \* the calls of codegen() in progress, the innermost last
  value,   \* what the last call returned, or Awaited
  table,   \* the scopes of LLVMValueStore: the values of the names in each
  strays   \* values that a name gave where its definition is not around it

vars == <<blocks, at, stack, value, table, strays>>

names == <<table, strays>>

\* Constants, functions and the unit value are defined in no block.
Const == 0

\* codegen() has been called on a subexpression.
Awaited == -1

\* fun: the entry block of the function that it is part of, Nowhere when it
\* is created without one.  operands: the blocks of the values it uses.
\* ends: its terminator.  phi: the incoming pairs of its PHI, if any.
Block ==
  [fun: Nat, ends: {"open", "br", "ret"}, succs: SUBSET Nat,
   operands: SUBSET Nat, phi: Seq([val: Nat, from: Nat])]

Nowhere == 0

Kinds == {"main", "fun", "let", "two", "if", "match", "for", "while"}

\* What a call waits for: a subexpression in this position.
Steps ==
  {"body", "left", "right", "def", "cond", "then", "else", "expr", "pattern",
   "clause", "from", "to"}

Branching == {"if", "match", "for", "while"}

\* The locals of a call of codegen().  start: the insert block at the call,
\* which funGen() comes back to.  mark: the number of blocks before it.
\* next, after: the blocks it goes on with.  held: a value it keeps.
\* incoming: the pairs its PHI will have.  more: is there an else part?
Frame ==
  [kind: Kinds, step: Steps, start: Nat, mark: Nat, next: Nat, after: Nat,
   held: Nat, incoming: Seq([val: Nat, from: Nat]), more: BOOLEAN]

Top == stack[Len(stack)]

Below == SubSeq(stack, 1, Len(stack) - 1)

Done == stack = <<>>

-----------------------------------------------------------------------------
(* The operations of Builder and of BasicBlock.                            *)

\* BasicBlock::Create(), with the function it is added to.
Fresh(f) ==
  [fun |-> f, ends |-> "open", succs |-> {}, operands |-> {}, phi |-> <<>>]

CurrentFun == blocks[at].fun

\* An instruction in block b that uses the values vs.
Use(bs, b, vs) == [bs EXCEPT ![b].operands = @ \cup (vs \ {Const})]

\* CreateBr(), CreateCondBr().
Branch(bs, b, targets) == [bs EXCEPT ![b].ends = "br", ![b].succs = targets]

CondBranch(bs, b, cond, targets) == Branch(Use(bs, b, {cond}), b, targets)

\* getBasicBlockList().push_back().
Attach(bs, b, f) == [bs EXCEPT ![b].fun = f]

Phi(bs, b, pairs) == [bs EXCEPT ![b].phi = pairs]

Pair(v, b) == [val |-> v, from |-> b]

-----------------------------------------------------------------------------
(* Calling codegen() and returning from it.                                *)

Awaiting == ~Done /\ value = Awaited

\* Does the function that is being generated stand in an else part?
InElse ==
  \E i \in 1..Len(stack) :
    /\ stack[i].kind = "if" /\ stack[i].step = "else"
    /\ \A j \in i..Len(stack) : stack[j].kind # "fun"

FrameOf(kind, step) ==
  [kind |-> kind, step |-> step, start |-> at, mark |-> Len(blocks),
   next |-> Nowhere, after |-> Nowhere, held |-> Const,
   incoming |-> <<>>, more |-> FALSE]

\* The call of a subexpression's codegen() from frame f, new or changed.
Enter(f) ==
  /\ Len(stack) < MaxDepth
  /\ stack' = Append(stack, f)
  /\ value' = Awaited

Proceed(f) == stack' = Append(Below, f) /\ value' = Awaited

Return(v) == stack' = Below /\ value' = v

\* The top call has got the value of the subexpression it was waiting for.
Resumed(kind, step) ==
  /\ ~Done /\ value # Awaited
  /\ Top.kind = kind /\ Top.step = step

Room(n) == Len(blocks) + n <= MaxBlocks

-----------------------------------------------------------------------------
(* LLVMValueStore.                                                         *)

OpenScope(vs) == table' = Append(table, vs) /\ UNCHANGED strays

CloseScope == table' = SubSeq(table, 1, Len(table) - 1) /\ UNCHANGED strays

\* DefBlock::codegen(): a name gets its value when its let is defined, in the
\* scope that it has been defined in before, or in the innermost one.  What it
\* was before is lost, and names that are not used again are left out.
Name(v) ==
  /\ \E i \in DOMAIN table :
       \E vs \in SUBSET (table[i] \cup ({v} \ {Const})) :
         /\ Cardinality(vs) <= MaxNames
         /\ table' = [table EXCEPT ![i] = vs]
  /\ UNCHANGED strays

-----------------------------------------------------------------------------
(* Expressions without subexpressions.                                     *)

\* A literal, the name of a function, a unit value.
Constant ==
  /\ Awaiting
  /\ value' = Const
  /\ UNCHANGED <<blocks, at, stack, names>>

\* A new, a load, a call without arguments: an instruction in the insert block.
Instruction ==
  /\ Awaiting
  /\ value' = at
  /\ UNCHANGED <<blocks, at, stack, names>>

\* The values of the definitions around, within the function.
InScope ==
  {stack[i].held : i \in
     {i \in 1..Len(stack) :
        /\ \/ stack[i].kind \in {"let", "fun"} /\ stack[i].step = "body"
           \/ stack[i].kind = "for" /\ stack[i].step \in {"to", "body"}
        /\ \A j \in i + 1..Len(stack) : stack[j].kind # "fun"}}

\* The values that names have, which are more: LetInExpr opens no scope, and
\* functions see the scopes around them.
Found == {b \in 1..Len(blocks) : \E i \in DOMAIN table : b \in table[i]}

\* IdHighPrioExpr::codegen() of a local returns the value it has in
\* LLVMValueStore.
Local ==
  /\ Awaiting
  /\ \E v \in Found :
       /\ value' = v
       /\ strays' = IF v \in InScope THEN strays ELSE strays \cup {v}
  /\ UNCHANGED <<blocks, at, stack, table>>

-----------------------------------------------------------------------------
(* Operators and calls: one operand, then the other, then the instruction. *)

TwoStart ==
  /\ Awaiting
  /\ Enter(FrameOf("two", "left"))
  /\ UNCHANGED <<blocks, at, names>>

TwoLeft ==
  /\ Resumed("two", "left")
  /\ Proceed([Top EXCEPT !.step = "right", !.held = value])
  /\ UNCHANGED <<blocks, at, names>>

TwoRight ==
  /\ Resumed("two", "right")
  /\ blocks' = Use(blocks, at, {Top.held, value})
  /\ Return(at)
  /\ UNCHANGED <<at, names>>

-----------------------------------------------------------------------------
(* Let: the value of the definition is held while the body is generated.   *)

LetStart ==
  /\ Awaiting
  /\ Enter(FrameOf("let", "def"))
  /\ UNCHANGED <<blocks, at, names>>

LetDef ==
  /\ Resumed("let", "def")
  /\ Proceed([Top EXCEPT !.step = "body", !.held = value])
  /\ Name(value)
  /\ UNCHANGED <<blocks, at, strays>>

\* MutableDef: an alloca in the entry block of the function.
LetMutable ==
  /\ Awaiting
  /\ Enter([FrameOf("let", "body") EXCEPT !.held = CurrentFun])
  /\ Name(CurrentFun)
  /\ UNCHANGED <<blocks, at, strays>>

LetBody ==
  /\ Resumed("let", "body")
  /\ Return(value)
  /\ UNCHANGED <<blocks, at, names>>

\* ImmutableDefFunc::funGen(): a new function becomes the place to insert at.
\* Its argument is defined where it is entered.
FunStart ==
  /\ Awaiting /\ Room(1)
  /\ LET entry == Len(blocks) + 1 IN
       /\ blocks' = Append(blocks, Fresh(entry))
       /\ at' = entry
       /\ Enter([FrameOf("fun", "body") EXCEPT !.held = entry])
       /\ OpenScope({entry})

\* Mutant of FunBody: Builder stays in the function.
FunBodyStays ==
  /\ Resumed("fun", "body")
  /\ blocks' = [Use(blocks, at, {value}) EXCEPT ![at].ends = "ret"]
  /\ UNCHANGED at
  /\ Proceed([Top EXCEPT !.kind = "let", !.held = Const])
  /\ CloseScope

\* The end of funGen(); the body of the let that defines the function is next.
FunBody ==
  /\ Resumed("fun", "body")
  /\ blocks' = [Use(blocks, at, {value}) EXCEPT ![at].ends = "ret"]
  /\ at' = Top.start
  /\ Proceed([Top EXCEPT !.kind = "let", !.held = Const])
  /\ CloseScope

-----------------------------------------------------------------------------
(* IfThenElseExpr::codegen().                                              *)

MayBranch == ~ElseBranches => ~InElse

IfStart ==
  /\ Awaiting /\ MayBranch /\ Room(3)
  /\ \E else \in BOOLEAN : Enter([FrameOf("if", "cond") EXCEPT !.more = else])
  /\ UNCHANGED <<blocks, at, names>>

IfCond ==
  /\ Resumed("if", "cond") /\ Room(3)
  /\ LET then  == Len(blocks) + 1
         else  == Len(blocks) + 2
         after == Len(blocks) + 3
         bs    == blocks \o [i \in 1..3 |-> Fresh(CurrentFun)]
     IN /\ blocks' = CondBranch(bs, at, value, {then, else})
        /\ at' = then
        /\ Proceed([Top EXCEPT !.step = "then", !.next = else, !.after = after,
                               !.held = then])
  /\ UNCHANGED names

\* Mutant of IfEnd: the value of the then part is returned, not the PHI.
IfEndThenValue(bs, pairs) ==
  /\ blocks' = Phi(bs, Top.after, pairs)
  /\ at' = Top.after
  /\ Return(pairs[1].val)
  /\ UNCHANGED names

\* The PHI of endif, and the value of the if.
IfEnd(bs, pairs) ==
  /\ blocks' = Phi(bs, Top.after, pairs)
  /\ at' = Top.after
  /\ Return(Top.after)
  /\ UNCHANGED names

\* Mutant of ThenPair: ThenBB is not refreshed after the then part.
ThenPairStale == Pair(value, Top.held)

\* The then part may have left the block that it started in.
ThenPair == Pair(value, at)

\* Mutant of NoElse: elseValue is not assigned.
NoElseUnset == Awaited

\* Without an else part the value of the if is that of unit.
NoElse == Const

IfThen ==
  /\ Resumed("if", "then")
  /\ LET bs == Branch(blocks, at, {Top.after}) IN
       IF Top.more
       THEN /\ blocks' = bs
            /\ at' = Top.next
            /\ Proceed([Top EXCEPT !.step = "else",
                                   !.incoming = <<ThenPair>>])
            /\ UNCHANGED names
       ELSE IfEnd(Branch(bs, Top.next, {Top.after}),
                  <<ThenPair, Pair(NoElse, Top.next)>>)

\* ElseBB is the block that the else part started in.
IfElse ==
  /\ Resumed("if", "else")
  /\ IfEnd(Branch(blocks, at, {Top.after}),
           Append(Top.incoming, Pair(value, Top.next)))

-----------------------------------------------------------------------------
(* MatchExpr::codegen().                                                   *)

MatchStart ==
  /\ Awaiting /\ MayBranch /\ Room(4)
  /\ Enter(FrameOf("match", "expr"))
  /\ UNCHANGED <<blocks, at, names>>

\* The block of the first clause is added to the function, the last one,
\* where the clauses meet, is not.
MatchExpr ==
  /\ Resumed("match", "expr") /\ Room(2)
  /\ LET after == Len(blocks) + 1
         next  == Len(blocks) + 2
     IN /\ blocks' =
             Branch(Attach(blocks \o <<Fresh(Nowhere), Fresh(Nowhere)>>,
                           next, CurrentFun), at, {next})
        /\ at' = next
        /\ Proceed([Top EXCEPT !.step = "pattern", !.held = value,
                               !.next = next, !.after = after])
  /\ UNCHANGED names

\* The value of the pattern of a clause is at hand.  The scrutinee is compared
\* with it; the next clause gets a block of its own.
MatchPattern ==
  /\ Resumed("match", "pattern") /\ Room(2)
  /\ LET next == Len(blocks) + 1
         val  == Len(blocks) + 2
         bs   == Use(blocks \o <<Fresh(Nowhere), Fresh(CurrentFun)>>, at,
                     {value, Top.held})
     IN /\ blocks' = Branch(bs, at, {val, next})
        /\ at' = val
        /\ Proceed([Top EXCEPT !.step = "clause", !.next = next])
  /\ UNCHANGED names

\* Mutant of MatchTrap: the trap block is left without a terminator.
MatchTrapOpen(bs) == Attach(bs, Top.next, CurrentFun)

\* Nothing matched: the block after the last clause traps, and loops.
MatchTrap(bs) == Branch(Attach(bs, Top.next, CurrentFun), Top.next, {Top.next})

MatchClause ==
  /\ Resumed("match", "clause")
  /\ LET bs    == Branch(blocks, at, {Top.after})
         pairs == Append(Top.incoming, Pair(value, at))
     IN \/ /\ Len(pairs) < MaxClauses
           /\ blocks' = Attach(bs, Top.next, CurrentFun)
           /\ at' = Top.next
           /\ Proceed([Top EXCEPT !.step = "pattern", !.incoming = pairs])
        \/ /\ blocks' = Phi(Attach(MatchTrap(bs), Top.after, CurrentFun),
                            Top.after, pairs)
           /\ at' = Top.after
           /\ Return(Top.after)
  /\ UNCHANGED names

-----------------------------------------------------------------------------
(* ForExpr::codegen() and WhileExpr::codegen().                            *)

ForStart ==
  /\ Awaiting /\ MayBranch /\ Room(3)
  /\ Enter(FrameOf("for", "from"))
  /\ UNCHANGED <<blocks, at, names>>

\* The loop counter is a PHI; one of its incoming values is known.
ForFrom ==
  /\ Resumed("for", "from") /\ Room(3)
  /\ LET loop == Len(blocks) + 1
         bs   == Phi(blocks \o [i \in 1..3 |-> Fresh(CurrentFun)], loop,
                     <<Pair(value, at)>>)
     IN /\ blocks' = Branch(bs, at, {loop})
        /\ at' = loop
        /\ Proceed([Top EXCEPT !.step = "to", !.held = loop,
                               !.next = loop + 1, !.after = loop + 2])
        /\ OpenScope({loop})

ForTo ==
  /\ Resumed("for", "to")
  /\ blocks' = Branch(Use(blocks, at, {Top.held, value}), at,
                      {Top.next, Top.after})
  /\ at' = Top.next
  /\ Proceed([Top EXCEPT !.step = "body"])
  /\ UNCHANGED names

\* The next value of the counter is computed at the start of the body, and
\* comes back from the block that the body ends in.
ForBody ==
  /\ Resumed("for", "body")
  /\ LET loop == Top.held
         bs   == Use(blocks, Top.next, {loop})
     IN blocks' =
          Branch(Phi(bs, loop, Append(bs[loop].phi, Pair(Top.next, at))),
                 at, {loop})
  /\ at' = Top.after
  /\ Return(Const)
  /\ CloseScope

WhileStart ==
  /\ Awaiting /\ MayBranch /\ Room(3)
  /\ LET while == Len(blocks) + 1
         bs    == blocks \o [i \in 1..3 |-> Fresh(CurrentFun)]
     IN /\ blocks' = Branch(bs, at, {while})
        /\ at' = while
        /\ Enter([FrameOf("while", "cond") EXCEPT
                    !.held = while, !.next = while + 1, !.after = while + 2])
  /\ UNCHANGED names

\* Mutant of WhileCond: the condition does not matter, the body is next.
WhileCondIgnored ==
  /\ Resumed("while", "cond")
  /\ blocks' = CondBranch(blocks, at, value, {Top.next})
  /\ at' = Top.next
  /\ Proceed([Top EXCEPT !.step = "body"])
  /\ UNCHANGED names

WhileCond ==
  /\ Resumed("while", "cond")
  /\ blocks' = CondBranch(blocks, at, value, {Top.next, Top.after})
  /\ at' = Top.next
  /\ Proceed([Top EXCEPT !.step = "body"])
  /\ UNCHANGED names

WhileBody ==
  /\ Resumed("while", "body")
  /\ blocks' = Branch(blocks, at, {Top.held})
  /\ at' = Top.after
  /\ Return(Const)
  /\ UNCHANGED names

-----------------------------------------------------------------------------
\* main() starts with its entry block.
Init ==
  /\ blocks = <<Fresh(1)>>
  /\ at = 1
  /\ stack = <<[kind |-> "main", step |-> "body", start |-> 1, mark |-> 1,
                next |-> Nowhere, after |-> Nowhere, held |-> Const,
                incoming |-> <<>>, more |-> FALSE]>>
  /\ value = Awaited
  /\ table = <<{}>> /\ strays = {}

\* The program is generated: main() returns 0.
MainEnd ==
  /\ Resumed("main", "body")
  /\ blocks' = [blocks EXCEPT ![at].ends = "ret"]
  /\ Return(Const)
  /\ CloseScope
  /\ UNCHANGED at

Next ==
  \/ Constant \/ Instruction \/ Local
  \/ TwoStart \/ TwoLeft \/ TwoRight
  \/ LetStart \/ LetDef \/ LetMutable \/ LetBody \/ FunStart \/ FunBody
  \/ IfStart \/ IfCond \/ IfThen \/ IfElse
  \/ MatchStart \/ MatchExpr \/ MatchPattern \/ MatchClause
  \/ ForStart \/ ForFrom \/ ForTo \/ ForBody
  \/ WhileStart \/ WhileCond \/ WhileBody
  \/ MainEnd

Spec == Init /\ [][Next]_vars
-----------------------------------------------------------------------------
(* Properties.                                                             *)

Ids == 1..Len(blocks)

\* Block numbers are those of blocks that exist, and a frame is a frame.
TypeOK ==
  /\ blocks \in Seq(Block)
  /\ \A b \in Ids : blocks[b].succs \cup blocks[b].operands \subseteq Ids
  /\ at \in Ids
  /\ stack \in Seq(Frame)
  /\ value \in Ids \cup {Const, Awaited}
  /\ table \in Seq(SUBSET Nat) /\ strays \subseteq Nat

Preds(b) == {p \in Ids : b \in blocks[p].succs}

\* Whatever a call of codegen() left behind, the next instruction goes into a
\* block that belongs to a function and has no terminator yet: no block gets
\* two terminators, and nothing is inserted after one.
InsertPointOpen ==
  ~Done => blocks[at].ends = "open" /\ CurrentFun # Nowhere

\* The frames of the function that is being generated, innermost last.
Current ==
  {i \in 1..Len(stack) :
     \A j \in i + 1..Len(stack) : stack[j].kind # "fun"}

\* The code of an expression is a region: it is entered from the insert block
\* at the call only, it is left through the insert block at the return only,
\* and generating a function inside leaves no edge to or from the function.
RegionsNested ==
  InsertPointOpen /\ \A i \in Current :
    LET Created == {b \in Ids : b > stack[i].mark} IN
      /\ at \in Created \cup {stack[i].start}
      /\ stack[i].kind # "fun" => CurrentFun = blocks[stack[i].start].fun
      /\ \A b \in Created :
           /\ blocks[b].succs \subseteq Created
           /\ Preds(b) \subseteq Created \cup {stack[i].start}

\* When the program is generated, every block is in a function, ends with a
\* terminator, branches within its function, and never to an entry block.
BlocksClosed ==
  Done =>
    \A b \in Ids :
      /\ blocks[b].fun \in Ids /\ blocks[b].ends # "open"
      /\ \A s \in blocks[b].succs :
           blocks[s].fun = blocks[b].fun /\ s # blocks[s].fun

\* The check of verifyModule() on PHI nodes: one incoming value for every
\* predecessor, and for nothing else.  Calls nested in the then part, in a
\* clause or in the body of a loop move the insert block on.
PhisMatchPredecessors ==
  Done =>
    \A b \in Ids :
      LET phi == blocks[b].phi IN
        phi # <<>> =>
          /\ {phi[i].from : i \in DOMAIN phi} = Preds(b)
          /\ Len(phi) = Cardinality(Preds(b))

\* Blocks reached from block f within n branches, never through d.
Reached(f, d) ==
  LET step[n \in Nat] ==
        IF n = 0 THEN {f} \ {d}
        ELSE LET r == step[n - 1]
             IN (r \cup UNION {blocks[b].succs : b \in r}) \ {d}
  IN step[Len(blocks)]

Dominates(d, b) ==
  /\ blocks[d].fun = blocks[b].fun
  /\ d = b \/ b \notin Reached(blocks[b].fun, d)

\* The other check of verifyModule(): a value is defined on every path to its
\* uses, in the same function.  The left operand, the scrutinee of a match and
\* the locals are kept while other expressions make blocks in between.  Nobody
\* sees to it that strays are defined where a name gave them, so uses of those
\* are excepted, and only those.
DefinitionsDominateUses ==
  Done =>
    \A b \in Ids :
      /\ \A d \in blocks[b].operands \ strays : Dominates(d, b)
      /\ \A i \in DOMAIN blocks[b].phi :
           LET p == blocks[b].phi[i] IN
             p.val \notin strays \cup {Const} => Dominates(p.val, p.from)

\* No code is dead, and only a match without a matching clause gets stuck:
\* from every other block control can reach the end of the function.
ControlReachesEverything ==
  Done =>
    \A b \in Ids :
      /\ b \in Reached(blocks[b].fun, Nowhere)
      /\ \/ \E e \in Reached(b, Nowhere) : blocks[e].ends = "ret"
         \/ blocks[b].succs = {b}
=============================================================================
