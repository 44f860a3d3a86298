------------------------------- MODULE Passes -------------------------------
(***************************************************************************)
(* The two walks over the syntax tree, sem() and codegen(), and what they  *)
(* make of the names in it.  Each pass has a symbol table of its own; they *)
(* declare, rebind and forget names at different moments, so that a name   *)
(* that sem() checked against one definition may stand for the value of    *)
(* another one in codegen(), or for none.                                  *)
(*                                                                         *)
(* The tree is not given: a node gets its kind and its names when it is    *)
(* first visited.  The methods run on an explicit stack of tasks, each     *)
(* call of a method being replaced by what it does in order.  A table is a *)
(* stack of maps, which is what SymbolTable is shown to implement; what it *)
(* maps names to is the node of a definition.                              *)
(***************************************************************************)
EXTENDS Integers, Sequences, FiniteSets, TLC

CONSTANTS
  Names,        \* identifiers
  Libs,         \* those that Library::insertFunctionsToScope() declares
  Kinds,        \* the kinds of expressions that programs are made of
  MaxNodes,     \* bound: nodes of the tree
  MaxDefs,      \* bound: definitions of a let, joined by "and"
  Redefine,     \* may a let define a name that the table already knows, or
                \* that has a definition in scope?
  LexicalOnly   \* are names used only where a definition is in scope?

Exprs == {"unit", "use", "index", "seq", "for", "let", "letrec"}
Defs  == {"var", "fun", "array"}

ASSUME ConstantsAssumption ==
  /\ Libs \subseteq Names /\ Names # {}
  /\ Kinds \subseteq Exprs \cup Defs /\ "unit" \in Kinds
  /\ MaxNodes \in Nat \ {0} /\ MaxDefs \in Nat \ {0}
  /\ Redefine \in BOOLEAN /\ LexicalOnly \in BOOLEAN

VARIABLES
  tree,   \* the nodes, parents before children
  pass,   \* "sem", "codegen", or "done"
  tasks,  \* what is left to do, first task first
  env,    \* the scopes of the table of the pass, innermost last
  error   \* the message that ended the compiler, if any

vars == <<tree, pass, tasks, env, error>>

\* What a name may stand for besides the node of its definition.
Unbound == -1
Library == 0

\* The parameter of the function defined at node i.
Parameter(i) == MaxNodes + i

Referents == Library..(2 * MaxNodes)

\* The name was not looked up yet.
Unseen == -2

\* name: what the node uses or defines.  par: the parameter of a function.
\* sem, codegen: what the name stood for when the pass looked it up.
Node ==
  [kind: Exprs \cup Defs \cup {"open"}, name: Names, par: Names,
   parent: Nat, kids: Seq(Nat), sem: Referents \cup {Unseen},
   codegen: Referents \cup {Unseen}]

Tasks == {"visit", "decl", "define", "bind", "type", "open", "close"}

AnyName == CHOOSE n \in Names : TRUE

Open(parent) ==
  [kind |-> "open", name |-> AnyName, par |-> AnyName, parent |-> parent,
   kids |-> <<>>, sem |-> Unseen, codegen |-> Unseen]

-----------------------------------------------------------------------------
(* The tables.                                                             *)

\* The innermost scope that has n, 0 if there is none.
LevelOf(n) ==
  LET Has == {l \in 1..Len(env) : n \in DOMAIN env[l]} IN
    IF Has = {} THEN 0 ELSE CHOOSE l \in Has : \A k \in Has : k <= l

LookupEntry(n) ==
  IF LevelOf(n) = 0 THEN Unbound ELSE env[LevelOf(n)][n]

\* env with n standing for d in scope l.
With(n, d, l) ==
  [env EXCEPT ![l] = [m \in {n} \cup DOMAIN @ |-> IF m = n THEN d ELSE @[m]]]

Here == Len(env)

\* The scope of the library, and the one of the program.
InitialEnv == <<[n \in Libs |-> Library], <<>>>>

-----------------------------------------------------------------------------
(* Lexical scope: the definition that a name should stand for, by its place *)
(* in the tree alone.                                                      *)

IsDefinitionOf(i, n) == tree[i].kind \in Defs /\ tree[i].name = n

\* The definitions of n in a let p that its subexpression k sees.
Sees(p, k, n) ==
  LET Kids == tree[p].kids IN
    {d \in {Kids[j] : j \in DOMAIN Kids} :
       /\ IsDefinitionOf(d, n)
       /\ k = Kids[Len(Kids)] \/ (tree[p].kind = "letrec" /\ tree[d].kind = "fun")}

\* What n stands for at k, if outer gives what it stands for further out.
Meaning(outer, k, n) ==
  LET p == tree[k].parent IN
    IF p = 0 THEN (IF n \in Libs THEN Library ELSE Unbound)
    ELSE IF tree[p].kind \in {"let", "letrec"} /\ Sees(p, k, n) # {}
      THEN CHOOSE d \in Sees(p, k, n) : \A e \in Sees(p, k, n) : e <= d
    ELSE IF tree[p].kind = "fun" /\ tree[p].par = n THEN Parameter(p)
    ELSE IF tree[p].kind = "for" /\ tree[p].name = n
            /\ k = tree[p].kids[Len(tree[p].kids)] THEN p
    ELSE outer[p]

\* What n stands for at node i.
Lexical(i, n) ==
  LET at[k \in 1..Len(tree)] == Meaning(at, k, n) IN at[i]

-----------------------------------------------------------------------------
(* The tree.                                                               *)

Task(do, i) == [do |-> do, node |-> i, level |-> 0]

Visit(i) == Task("visit", i)

First == Head(tasks)

At(p, do, kind) ==
  /\ pass = p /\ error = "" /\ tasks # <<>>
  /\ First.do = do /\ tree[First.node].kind = kind

\* The first task is replaced by others.
Then(ts) == tasks' = ts \o Tail(tasks)

N == tree[First.node]

Kid(k) == N.kids[k]

Body == N.kids[Len(N.kids)]

\* The definitions of a let.
DefsOf == SubSeq(N.kids, 1, Len(N.kids) - 1)

\* Node i becomes of a kind, with names, and k subexpressions.
Grow(i, kind, n, p, k) ==
  [tree EXCEPT ![i].kind = kind, ![i].name = n, ![i].par = p,
               ![i].kids = [j \in 1..k |-> Len(tree) + j]]
  \o [j \in 1..k |-> Open(i)]

Room(k) == Len(tree) + k <= MaxNodes

Arity == [unit |-> 0, use |-> 0, index |-> 1, seq |-> 2, for |-> 2]

\* The parser has put an expression here.  "use" is any lookup of a name, by
\* a variable, a call, a pattern or dim; "index" has an index expression;
\* "seq" is any expression that only visits its subexpressions in order;
\* "for" has the first value of the counter and, in one, its target and body.
ChooseExpr ==
  /\ pass # "done" /\ error = "" /\ tasks # <<>>
  /\ First.do = "visit" /\ N.kind = "open"
  /\ \E kind \in Kinds \cap DOMAIN Arity :
     \E n \in IF kind \in {"use", "index", "for"} THEN Names ELSE {AnyName} :
       /\ Room(Arity[kind])
       /\ kind \in {"use", "index"} /\ LexicalOnly =>
            Lexical(First.node, n) # Unbound
       /\ tree' = Grow(First.node, kind, n, AnyName, Arity[kind])
  /\ UNCHANGED <<pass, tasks, env, error>>

\* Definitions, joined by "and": [kind, name, parameter].
Heads ==
  {h \in [kind: Kinds \cap Defs, name: Names, par: Names] :
     /\ h.kind # "fun" => h.par = AnyName
     /\ \/ Redefine
        \/ LookupEntry(h.name) = Unbound /\ Lexical(First.node, h.name) = Unbound}

\* A let, its definitions, joined by "and", and its body.
ChooseLet ==
  /\ pass # "done" /\ error = "" /\ tasks # <<>>
  /\ First.do = "visit" /\ N.kind = "open"
  /\ \E kind \in Kinds \cap {"let", "letrec"} :
     \E k \in 1..MaxDefs :
     \E hs \in [1..k -> Heads] :
       LET i      == First.node
           len    == Len(tree)
           Def(j) == [Open(i) EXCEPT
                        !.kind = hs[j].kind, !.name = hs[j].name,
                        !.par = hs[j].par, !.kids = <<len + k + 1 + j>>]
       IN /\ Room(2 * k + 1)
          /\ Redefine \/ \A a, b \in 1..k : hs[a].name = hs[b].name => a = b
          /\ tree' = [tree EXCEPT ![i].kind = kind,
                                  ![i].kids = [j \in 1..k + 1 |-> len + j]]
                     \o [j \in 1..k |-> Def(j)] \o <<Open(i)>>
                     \o [j \in 1..k |-> Open(len + j)]
  /\ UNCHANGED <<pass, tasks, env, error>>

-----------------------------------------------------------------------------
(* Steps of both passes.                                                   *)

Each(do, nodes) == [j \in DOMAIN nodes |-> Task(do, nodes[j])]

\* Literals have no names; most expressions visit their subexpressions.
VisitPlain ==
  /\ pass # "done" /\ error = "" /\ tasks # <<>>
  /\ First.do = "visit" /\ N.kind \in {"unit", "seq"}
  /\ Then(Each("visit", N.kids))
  /\ UNCHANGED <<tree, pass, env, error>>

\* lookupEntry(id, true): the meaning, or "Unknown identifier".
Resolve(rest) ==
  IF LookupEntry(N.name) = Unbound
  THEN /\ error' = "unknown"
       /\ UNCHANGED <<tree, tasks>>
  ELSE /\ tree' = [tree EXCEPT ![First.node][pass] = LookupEntry(N.name)]
       /\ Then(rest)
       /\ UNCHANGED error

VisitUse ==
  /\ \E p \in {"sem", "codegen"} : At(p, "visit", "use")
  /\ Resolve(<<>>)
  /\ UNCHANGED <<pass, env>>

\* Mutant of Close: the entries of the scope stay.
CloseKeeps ==
  /\ error = "" /\ tasks # <<>> /\ First.do = "close"
  /\ env' = Append(SubSeq(env, 1, Here - 2), env[Here] @@ env[Here - 1])
  /\ Then(<<>>)
  /\ UNCHANGED <<tree, pass, error>>

Close ==
  /\ error = "" /\ tasks # <<>> /\ First.do = "close"
  /\ env' = SubSeq(env, 1, Here - 1)
  /\ Then(<<>>)
  /\ UNCHANGED <<tree, pass, error>>

\* openScope(), and the parameter of the function or the counter of the loop.
OpenWith(n, d) == env' = Append(env, [m \in {n} |-> d])

-----------------------------------------------------------------------------
(* sem().                                                                  *)

\* DefBlock::sem() finishes each definition before the next one.
SemLet ==
  /\ At("sem", "visit", "let")
  /\ Then(Append(Each("define", DefsOf), Visit(Body)))
  /\ UNCHANGED <<tree, pass, env, error>>

IsFun(i) == tree[i].kind = "fun"

\* The nodes of s that are in S, in their order.
Only(s, S) ==
  LET kept[k \in 0..Len(s)] ==
        IF k = 0 THEN <<>>
        ELSE IF s[k] \in S THEN Append(kept[k - 1], s[k]) ELSE kept[k - 1]
  IN kept[Len(s)]

FunDefs == {i \in 1..Len(tree) : IsFun(i)}

OtherDefs == 1..Len(tree) \ FunDefs

SemDefine ==
  /\ pass = "sem" /\ error = "" /\ tasks # <<>> /\ First.do = "define"
  /\ Then(IF IsFun(First.node)
          THEN <<Visit(First.node), Task("decl", First.node)>>
          ELSE <<Visit(First.node)>>)
  /\ UNCHANGED <<tree, pass, env, error>>

\* DefBlock::recSem() declares all names before it looks at function bodies.
SemLetRec ==
  /\ At("sem", "visit", "letrec")
  /\ Then(Each("visit", DefsOf) \o Each("decl", Only(DefsOf, FunDefs))
            \o <<Visit(Body)>>)
  /\ UNCHANGED <<tree, pass, env, error>>

TypeTask(l) == [do |-> "type", node |-> First.node, level |-> l]

\* ImmutableDefVar::sem(): an entry of any scope will do; a new one is there
\* before the expression that defines the variable is checked.
SemVar ==
  /\ At("sem", "visit", "var")
  /\ IF LookupEntry(N.name) = Unbound
     THEN /\ env' = With(N.name, First.node, Here)
          /\ Then(<<Visit(Kid(1)), TypeTask(Here)>>)
     ELSE /\ Then(<<Visit(Kid(1)), TypeTask(LevelOf(N.name))>>)
          /\ UNCHANGED env
  /\ UNCHANGED <<tree, pass, error>>

\* The entry gets the type of this definition, whichever it was made for.
SemType ==
  /\ error = "" /\ tasks # <<>> /\ First.do = "type"
  /\ env' = With(N.name, First.node, First.level)
  /\ Then(<<>>)
  /\ UNCHANGED <<tree, pass, error>>

\* ImmutableDefFunc::sem() and the two mutable definitions: an entry of the
\* current scope.  The dimensions of an array are not visited.
SemNew ==
  /\ pass = "sem" /\ error = "" /\ tasks # <<>>
  /\ First.do = "visit" /\ N.kind \in {"fun", "array"}
  /\ IF N.name \in DOMAIN env[Here]
     THEN error' = "duplicate" /\ UNCHANGED <<env, tasks>>
     ELSE /\ env' = With(N.name, First.node, Here)
          /\ Then(<<>>)
          /\ UNCHANGED error
  /\ UNCHANGED <<tree, pass>>

\* Mutant of SemDecl: endFunctionDef() closes the scope as well.
SemDeclClosesTwice ==
  /\ At("sem", "decl", "fun")
  /\ OpenWith(N.par, Parameter(First.node))
  /\ Then(<<Visit(Kid(1)), Task("close", First.node),
            Task("close", First.node)>>)
  /\ UNCHANGED <<tree, pass, error>>

\* ImmutableDefFunc::decl().
SemDecl ==
  /\ At("sem", "decl", "fun")
  /\ OpenWith(N.par, Parameter(First.node))
  /\ Then(<<Visit(Kid(1)), Task("close", First.node)>>)
  /\ UNCHANGED <<tree, pass, error>>

\* ForExpr::sem(): the first value of the counter is not visited.
SemFor ==
  /\ At("sem", "visit", "for")
  /\ OpenWith(N.name, First.node)
  /\ Then(<<Visit(Body), Task("close", First.node)>>)
  /\ UNCHANGED <<tree, pass, error>>

\* IdHighPrioExpr::sem(): the index is not visited.
SemIndex ==
  /\ At("sem", "visit", "index")
  /\ Resolve(<<>>)
  /\ UNCHANGED <<pass, env>>

\* The tree is checked; code generation starts with a table of its own.
SemDone ==
  /\ pass = "sem" /\ error = "" /\ tasks = <<>>
  /\ pass' = "codegen"
  /\ tasks' = <<Visit(1)>>
  /\ env' = InitialEnv
  /\ UNCHANGED <<tree, error>>

-----------------------------------------------------------------------------
(* codegen().                                                              *)

\* DefBlock::codegen() binds the names when all the values are there.
GenLet ==
  /\ At("codegen", "visit", "let")
  /\ Then(Each("visit", DefsOf) \o Each("bind", DefsOf) \o <<Visit(Body)>>)
  /\ UNCHANGED <<tree, pass, env, error>>

\* Mutant of GenLetRec: the functions are bound with the variables.
GenLetRecLate ==
  /\ At("codegen", "visit", "letrec")
  /\ Then(Each("visit", DefsOf) \o Each("bind", DefsOf) \o <<Visit(Body)>>)
  /\ UNCHANGED <<tree, pass, env, error>>

\* DefBlock::recCodegen() binds the functions first, the variables last.
GenLetRec ==
  /\ At("codegen", "visit", "letrec")
  /\ Then(Each("bind", Only(DefsOf, FunDefs)) \o Each("visit", DefsOf)
            \o Each("bind", Only(DefsOf, OtherDefs)) \o <<Visit(Body)>>)
  /\ UNCHANGED <<tree, pass, env, error>>

\* Whatever entry has the name gets the value, in whichever scope it is.
Bind ==
  /\ error = "" /\ tasks # <<>> /\ First.do = "bind"
  /\ env' = With(N.name, First.node,
                 IF LevelOf(N.name) = 0 THEN Here ELSE LevelOf(N.name))
  /\ Then(<<>>)
  /\ UNCHANGED <<tree, pass, error>>

\* The value of a variable, the dimensions of an array.
GenVar ==
  /\ pass = "codegen" /\ error = "" /\ tasks # <<>>
  /\ First.do = "visit" /\ N.kind \in {"var", "array"}
  /\ Then(<<Visit(Kid(1))>>)
  /\ UNCHANGED <<tree, pass, env, error>>

\* Mutant of GenFun: the parameter is not bound to the argument.
GenFunNoParameter ==
  /\ At("codegen", "visit", "fun")
  /\ env' = Append(env, <<>>)
  /\ Then(<<Visit(Kid(1)), Task("close", First.node)>>)
  /\ UNCHANGED <<tree, pass, error>>

\* ImmutableDefFunc::funGen().
GenFun ==
  /\ At("codegen", "visit", "fun")
  /\ OpenWith(N.par, Parameter(First.node))
  /\ Then(<<Visit(Kid(1)), Task("close", First.node)>>)
  /\ UNCHANGED <<tree, pass, error>>

\* Mutant of GenFor: the scope is opened before the first value.
GenForOpensFirst ==
  /\ At("codegen", "visit", "for")
  /\ OpenWith(N.name, First.node)
  /\ Then(<<Visit(Kid(1)), Visit(Body), Task("close", First.node)>>)
  /\ UNCHANGED <<tree, pass, error>>

\* ForExpr::codegen(): the first value of the counter comes before its scope.
GenFor ==
  /\ At("codegen", "visit", "for")
  /\ Then(<<Visit(Kid(1)), Task("open", First.node)>>)
  /\ UNCHANGED <<tree, pass, env, error>>

GenForOpen ==
  /\ At("codegen", "open", "for")
  /\ OpenWith(N.name, First.node)
  /\ Then(<<Visit(Body), Task("close", First.node)>>)
  /\ UNCHANGED <<tree, pass, error>>

GenIndex ==
  /\ At("codegen", "visit", "index")
  /\ Resolve(<<Visit(Kid(1))>>)
  /\ UNCHANGED <<pass, env>>

GenDone ==
  /\ pass = "codegen" /\ error = "" /\ tasks = <<>>
  /\ pass' = "done"
  /\ UNCHANGED <<tree, tasks, env, error>>

-----------------------------------------------------------------------------
Init ==
  /\ tree = <<Open(0)>>
  /\ pass = "sem" /\ tasks = <<Visit(1)>>
  /\ env = InitialEnv
  /\ error = ""

Next ==
  \/ ChooseExpr \/ ChooseLet
  \/ VisitPlain \/ VisitUse \/ Close
  \/ SemLet \/ SemDefine \/ SemLetRec \/ SemVar \/ SemType \/ SemNew
  \/ SemDecl \/ SemFor \/ SemIndex \/ SemDone
  \/ GenLet \/ GenLetRec \/ Bind \/ GenVar \/ GenFun \/ GenFor \/ GenForOpen
  \/ GenIndex \/ GenDone

Spec == Init /\ [][Next]_vars
-----------------------------------------------------------------------------
(* Properties.                                                             *)

Nodes == 1..Len(tree)

\* The tasks before the q-th that close a scope.
Closing(ts, q) == {r \in 1..q - 1 : ts[r].do = "close"}

\* The scope that is the innermost one when the q-th task is next.
LevelAt(q) == Len(env) - Cardinality(Closing(tasks, q))

\* The name that a function or a loop has opened its scope for.
OpenedFor(node) == IF node.kind = "fun" THEN node.par ELSE node.name

\* Each pass has one scope open for the library, one for the program, and one
\* for every function and loop that it is in, the innermost last: no scope
\* outlives what opened it, and none is closed twice.
ScopesFollowTree ==
  /\ LevelAt(Len(tasks) + 1) = 2
  /\ \A q \in 1..Len(tasks) : tasks[q].do = "close" =>
       OpenedFor(tree[tasks[q].node]) \in DOMAIN env[LevelAt(q)]

\* Nodes, tasks and scopes are what they should be, and so is a message.
TypeOK ==
  /\ tree \in Seq(Node) /\ Len(tree) <= MaxNodes
  /\ pass \in {"sem", "codegen", "done"}
  /\ tasks \in Seq([do: Tasks, node: Nodes, level: Nat])
  /\ ScopesFollowTree
  /\ \A l \in 1..Len(env) :
       DOMAIN env[l] \subseteq Names
         /\ \A n \in DOMAIN env[l] : env[l][n] \in Referents
  /\ error \in {"", "unknown", "duplicate"}

\* Where a definition of a name is in scope, the type that sem() gives to the
\* name belongs to the innermost one, and never to a definition that a let or
\* an earlier function has left behind.
SemIsLexical ==
  \A i \in Nodes :
    tree[i].sem # Unseen /\ Lexical(i, tree[i].name) # Unbound
      => tree[i].sem = Lexical(i, tree[i].name)

\* The value that codegen() takes for the name does, too.
CodegenIsLexical ==
  \A i \in Nodes :
    tree[i].codegen # Unseen /\ Lexical(i, tree[i].name) # Unbound
      => tree[i].codegen = Lexical(i, tree[i].name)

\* codegen() says "Unknown identifier" only of a name that has no definition
\* in scope, also in the places that sem() does not look at (the first value
\* of a loop, indices, dimensions).
CodegenKnowsNames ==
  pass = "codegen" /\ error = "unknown" =>
    Lexical(First.node, N.name) = Unbound

\* Is node i where sem() does not look: in an index, in the dimensions of an
\* array, in the first value of a loop?
Unchecked(i) ==
  LET at[k \in 1..Len(tree)] ==
        LET p == tree[k].parent IN
          /\ p # 0
          /\ \/ at[p]
             \/ tree[p].kind \in {"index", "array"}
             \/ tree[p].kind = "for" /\ k = tree[p].kids[1]
  IN at[i]

\* Both passes take the same definition for a name, also for one that is used
\* outside of its scope: unless a let that sem() has not looked at defines the
\* name, too, and codegen() meets it first.
PassesAgree ==
  \A i \in Nodes :
    tree[i].sem # Unseen /\ tree[i].codegen # Unseen
      => \/ tree[i].sem = tree[i].codegen
         \/ \E d \in Nodes : IsDefinitionOf(d, tree[i].name) /\ Unchecked(d)

\* A program that uses a name where nothing defines it is rejected.
UndeclaredRejected ==
  pass = "done" =>
    \A i \in Nodes :
      tree[i].sem # Unseen => Lexical(i, tree[i].name) # Unbound
=============================================================================
