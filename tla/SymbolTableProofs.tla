------------------------- MODULE SymbolTableProofs -------------------------
(***************************************************************************)
(* SymbolTable keeps its invariant, whatever the names, the types, the     *)
(* hash function, the number of buckets and the bounds, and it implements  *)
(* ScopedEnv: a call takes effect in one step, which is closeScope()'s     *)
(* first and any other call's last, and all other steps leave the stack of *)
(* maps alone.                                                             *)
(***************************************************************************)
EXTENDS SymbolTable, TLAPS

LEMMA AnyTyped == AnyName \in Names /\ AnyType \in Types
BY SomeAssumption DEF AnyName, AnyType

LEMMA ConstantsTyped ==
  /\ Returned \in Call
  /\ [name |-> AnyName, type |-> AnyType] \in Reply
  /\ Freed \in Entry
BY AnyTyped DEF Returned, CallAt, Freed, Call, Entry, Exits, Null, Reply

\* What the type invariant says of one entry and of one scope.
LEMMA EntryTyped ==
  ASSUME NEW m \in Entry
  PROVE  /\ m.id \in Names /\ m.type \in Types /\ m.level \in Nat \ {0}
         /\ m.nextInHashTable \in Nat /\ m.nextInScope \in Nat
         /\ m.firstArgument \in Nat /\ m.lastArgument \in Nat
         /\ m.nextParam \in Nat
BY DEF Entry

LEMMA LiveTyped ==
  ASSUME TypeOK, NEW e \in live
  PROVE  /\ e \in Nat /\ e # Null /\ e <= Len(mem) /\ e \in 1..Len(mem)
         /\ mem[e] \in Entry
         /\ mem[e].id \in Names /\ mem[e].type \in Types
         /\ mem[e].level \in Nat \ {0}
         /\ mem[e].nextInHashTable \in Nat /\ mem[e].nextInScope \in Nat
         /\ mem[e].firstArgument \in Nat /\ mem[e].lastArgument \in Nat
         /\ mem[e].nextParam \in Nat
         /\ Hash[mem[e].id] \in Buckets
<1>1. e \in 1..Len(mem) /\ mem[e] \in Entry /\ Len(mem) \in Nat
  BY DEF TypeOK
<1> QED
  BY <1>1, EntryTyped, HashAssumption DEF Null

LEMMA ScopeTyped ==
  ASSUME TypeOK
  PROVE  /\ Level \in Nat
         /\ \A l \in 1..Level : /\ scopes[l] \in Scope
                                /\ scopes[l].entries \in Nat
                                /\ scopes[l].owner \in Nat
<1>1. Level \in Nat /\ \A l \in 1..Level : scopes[l] \in Scope
  BY DEF TypeOK, Level
<1> QED
  BY <1>1 DEF Scope

\* The invariant of the initial state.
LEMMA InitInductive == Init => Inductive
<1> SUFFICES ASSUME Init PROVE Inductive
  OBVIOUS
<1> USE DEF Init
<1>1. TypeOK
  BY AnyTyped, ConstantsTyped DEF TypeOK, Null
<1>2. ChainsOrdered
  BY DEF ChainsOrdered, IsNewest, InBucket
<1>3. ScopeListsOrdered /\ LevelsGrow /\ UniquePerScope
  BY DEF ScopeListsOrdered, LevelsGrow, UniquePerScope, Level
<1>4. WalkCovers /\ FunctionOfCall /\ NoInternalError
  BY DEF WalkCovers, FunctionOfCall, NoInternalError, Returned, CallAt, Looking, Declaring
<1>5. OwnersInDefinition /\ ArgumentsInOrder /\ NoArgumentsBefore
  BY DEF OwnersInDefinition, ArgumentsInOrder, NoArgumentsBefore, Level
<1> QED
  BY <1>1, <1>2, <1>3, <1>4, <1>5 DEF Inductive

-----------------------------------------------------------------------------
(* Steps that only move the call: the table stays as it is.                *)

\* The conjuncts of the invariant that are about the table, not the call.
TableInv ==
  /\ ChainsOrdered /\ ScopeListsOrdered /\ LevelsGrow /\ UniquePerScope
  /\ OwnersInDefinition /\ ArgumentsInOrder /\ NoArgumentsBefore

LEMMA TableFrame ==
  ASSUME TypeOK, TableInv, call.op # "close", call'.op # "close",
         UNCHANGED <<mem, live, hashTable, scopes>>
  PROVE  TableInv'
<1>1. ChainsOrdered'
  BY DEF TableInv, ChainsOrdered, IsNewest, InBucket, OlderThan
<1>2. ScopeListsOrdered'
  BY DEF TableInv, ScopeListsOrdered, IsNewest, OlderThan, Declared, ScopeHead, Level
<1>3. LevelsGrow' /\ UniquePerScope'
  BY DEF TableInv, LevelsGrow, UniquePerScope, Level
<1>4. OwnersInDefinition'
  BY DEF TableInv, OwnersInDefinition, BeingDeclared, InDefinition, Level
<1>5. ArgumentsInOrder'
  BY DEF TableInv, ArgumentsInOrder, ArgumentsOf, BeingDeclared, Parameters, Level
<1>6. NoArgumentsBefore'
  BY DEF TableInv, NoArgumentsBefore, BeingDeclared, InDefinition, Level
<1> QED
  BY <1>1, <1>2, <1>3, <1>4, <1>5, <1>6 DEF TableInv

\* A lookup starts with everything of its name ahead of it.
LEMMA LookForCovers ==
  ASSUME Inductive, NEW op \in Looking, NEW n \in Names, NEW t \in Types,
         NEW f \in Nat, LookFor(op, n, t, f), UNCHANGED <<mem, live, scopes>>,
         op \in Declaring \cup {"bind"} => Level > 0
  PROVE  call' \in Call /\ call'.op = op /\ call'.name = n /\ call'.fun = f
         /\ WalkCovers'
<1>1. Hash[n] \in Buckets /\ hashTable[Hash[n]] \in Nat
  BY HashAssumption DEF Inductive, TypeOK
<1>2. call' \in Call /\ call'.op = op /\ call'.name = n /\ call'.fun = f
      /\ call'.cursor = hashTable[Hash[n]]
  BY <1>1 DEF LookFor, Call, Looking
<1>3. IsNewest(hashTable[Hash[n]], InBucket(Hash[n]))
  BY <1>1 DEF Inductive, ChainsOrdered
<1>4. WalkCovers'
  BY <1>1, <1>2, <1>3
  DEF WalkCovers, IsNewest, InBucket, Bindings, Looking, Declaring, Level, Null
<1> QED
  BY <1>2, <1>4

\* A step of the call that leaves the table alone.
LEMMA CallStep ==
  ASSUME Inductive, call.op # "close", call'.op # "close",
         UNCHANGED <<mem, live, hashTable, scopes>>,
         call' \in Call, reply' \in Reply,
         WalkCovers', FunctionOfCall', NoInternalError'
  PROVE  Inductive'
<1>1. TypeOK'
  BY DEF Inductive, TypeOK
<1>2. TableInv'
  BY TableFrame DEF Inductive, TableInv
<1> QED
  BY <1>1, <1>2 DEF Inductive, TableInv

\* Nothing is asked of a call that is over.
LEMMA CallOver ==
  ASSUME NEW why \in {"none", "duplicate", "unknown"}, NEW n \in Names,
         call' = CallAt(why, n, Null)
  PROVE  /\ call' \in Call /\ call'.op = why
         /\ WalkCovers' /\ FunctionOfCall' /\ NoInternalError'
BY AnyTyped DEF CallAt, Call, Exits, Null, WalkCovers, FunctionOfCall,
   NoInternalError, Looking, Declaring

LEMMA LookupKeeps ==
  ASSUME Inductive, NEW n \in Names, Lookup(n)  PROVE Inductive'
<1>1. call'.op = "lookup" /\ call' \in Call /\ WalkCovers'
  BY LookForCovers, AnyTyped DEF Lookup, Looking, Declaring, Null
<1>2. FunctionOfCall' /\ NoInternalError'
  BY <1>1 DEF FunctionOfCall, NoInternalError
<1> QED
  BY <1>1, <1>2, CallStep DEF Lookup, Idle, Inductive, TypeOK

LEMMA BindKeeps ==
  ASSUME Inductive, NEW n \in Names, NEW t \in Types, Bind(n, t)
  PROVE  Inductive'
<1>1. call'.op = "bind" /\ call' \in Call /\ WalkCovers'
  BY LookForCovers DEF Bind, Looking, Declaring, Null
<1>2. FunctionOfCall' /\ NoInternalError'
  BY <1>1 DEF FunctionOfCall, NoInternalError
<1> QED
  BY <1>1, <1>2, CallStep DEF Bind, Idle, Inductive, TypeOK

LEMMA NewEntryKeeps ==
  ASSUME Inductive, NEW n \in Names, NEW t \in Types,
         NEW op \in {"variable", "function"}, NewEntry(op, n, t)
  PROVE  Inductive'
<1>1. call'.op = op /\ call' \in Call /\ WalkCovers'
  BY LookForCovers DEF NewEntry, Looking, Declaring, Null
<1>2. FunctionOfCall' /\ NoInternalError'
  BY <1>1 DEF FunctionOfCall, NoInternalError
<1> QED
  BY <1>1, <1>2, CallStep DEF NewEntry, Idle, Inductive, TypeOK

LEMMA NewParameterKeeps ==
  ASSUME Inductive, NEW n \in Names, NEW t \in Types, NewParameter(n, t)
  PROVE  Inductive'
<1> DEFINE f == scopes[Level].owner
<1>1. Level \in 1..Level /\ f # Null /\ f \in Nat
  BY ScopeTyped DEF NewParameter, Inductive
<1>2. mem[f].entryType = "function" /\ mem[f].status = "define"
  BY <1>1 DEF NewParameter, Inductive, OwnersInDefinition, BeingDeclared,
              InDefinition, Idle
<1>3. LookFor("parameter", n, t, f)
  BY <1>2 DEF NewParameter
<1>4. call'.op = "parameter" /\ call'.fun = f /\ call' \in Call /\ WalkCovers'
  BY <1>1, <1>3, LookForCovers DEF NewParameter, Looking, Declaring
<1>5. FunctionOfCall' /\ NoInternalError'
  BY <1>1, <1>4 DEF FunctionOfCall, NoInternalError, NewParameter, Level
<1> QED
  BY <1>4, <1>5, CallStep DEF NewParameter, Idle, Inductive, TypeOK

LEMMA DeclKeeps ==
  ASSUME Inductive, NEW f \in live, Decl(f)  PROVE Inductive'
<1>1. f \in Nat /\ mem[f].id \in Names
  BY LiveTyped DEF Inductive
<1>2. call'.op = "decl" /\ call'.fun = f /\ call'.name = mem[f].id
      /\ call' \in Call /\ WalkCovers'
  BY <1>1, AnyTyped, LookForCovers DEF Decl, Looking, Declaring
<1>3. FunctionOfCall' /\ NoInternalError'
  BY <1>2 DEF FunctionOfCall, NoInternalError, Decl, Level, InDefinition
<1> QED
  BY <1>2, <1>3, CallStep DEF Decl, Idle, Inductive, TypeOK

LEMMA WalkChainKeeps ==
  ASSUME Inductive, WalkChain  PROVE Inductive'
<1> DEFINE e == call.cursor
           p == mem[e].nextInHashTable
<1>1. e \in live /\ mem[e] \in Entry /\ e \in Nat /\ e # Null /\ p \in Nat
      /\ Hash[mem[e].id] = Hash[call.name]
  BY LiveTyped DEF WalkChain, Inductive, WalkCovers
<1>2. call' \in Call /\ call'.op = call.op /\ call'.name = call.name
      /\ call'.fun = call.fun /\ call'.cursor = p
  BY <1>1 DEF WalkChain, MovedTo, Inductive, TypeOK, Call
<1>3. IsNewest(p, OlderThan(e, InBucket(Hash[call.name])))
  BY <1>1 DEF Inductive, ChainsOrdered
<1>4. \A x \in Bindings(call.name) : x <= p
  <2> SUFFICES ASSUME NEW x \in Bindings(call.name) PROVE x <= p
    OBVIOUS
  <2>1. x \in live /\ x \in Nat /\ mem[x].id = call.name /\ x <= e /\ x # e
    BY DEF Bindings, WalkChain, Inductive, TypeOK, WalkCovers
  <2>2. x \in OlderThan(e, InBucket(Hash[call.name]))
    BY <1>1, <2>1 DEF OlderThan, InBucket
  <2> QED
    BY <1>3, <2>2 DEF IsNewest
<1>5. WalkCovers'
  BY <1>2, <1>3, <1>4
  DEF WalkChain, Inductive, WalkCovers, Bindings, Level, IsNewest, OlderThan,
      InBucket, Looking, Declaring
<1>6. FunctionOfCall' /\ NoInternalError'
  BY <1>2 DEF Inductive, FunctionOfCall, NoInternalError, WalkChain, Level,
              InDefinition
<1>7. call.op # "close" /\ call'.op # "close" /\ reply' \in Reply
  BY <1>2 DEF WalkChain, Looking, Declaring, Inductive, TypeOK
<1> QED
  BY <1>2, <1>5, <1>6, <1>7, CallStep DEF WalkChain

LEMMA LookupDoneKeeps ==
  ASSUME Inductive, LookupDone  PROVE Inductive'
<1>1. ASSUME Found PROVE mem[call.cursor].type \in Types
  <2>1. call.cursor \in live
    BY <1>1 DEF Found, Inductive, WalkCovers
  <2> QED
    BY <2>1, LiveTyped DEF Inductive
<1>2. call.name \in Names
  BY DEF Inductive, TypeOK, Call
<1>3. reply' \in Reply
  BY <1>1, <1>2 DEF LookupDone, Inductive, TypeOK, Reply
<1>4. PICK why \in {"none", "unknown"}, n \in Names : call' = CallAt(why, n, Null)
  BY <1>2, AnyTyped DEF LookupDone, Returned, Exited
<1> QED
  BY <1>3, <1>4, CallOver, CallStep DEF LookupDone

LEMMA DuplicateEntryKeeps ==
  ASSUME Inductive, DuplicateEntry  PROVE Inductive'
<1>1. call' = CallAt("duplicate", call.name, Null) /\ call.name \in Names
  BY DEF DuplicateEntry, Exited, Inductive, TypeOK, Call
<1> QED
  BY <1>1, CallOver, CallStep
  DEF DuplicateEntry, Declaring, Inductive, TypeOK

-----------------------------------------------------------------------------
(* Opening a scope.                                                        *)

\* A new scope is empty; if a function owns it, decl() found it just now, and
\* its argument list is still empty.
LEMMA Opened ==
  ASSUME Inductive, call.op # "close",
         call'.op = "none", call'.cursor = Null, call' \in Call,
         NEW o \in Nat,
         o # Null => InDefinition(o) /\ mem[o].level = Level,
         scopes' = Append(scopes, [entries |-> Null, owner |-> o]),
         UNCHANGED <<mem, live, hashTable, reply>>
  PROVE  Inductive'
<1>0. PICK top \in Nat : top = Level + 1 /\ Level \in Nat
  BY ScopeTyped DEF Inductive
<1>r. /\ \A l \in 1..top : l = top \/ l \in 1..Level
      /\ \A l \in 1..Level : l \in 1..top
      /\ Level = top - 1 /\ Level \in Nat
  BY <1>0
<1>1. /\ Level \in Nat /\ Level' = top /\ top = Level + 1
      /\ \A l \in 1..Level : scopes'[l] = scopes[l]
      /\ scopes'[top].entries = Null /\ scopes'[top].owner = o
      /\ scopes' \in Seq(Scope)
  <2> DEFINE s == [entries |-> Null, owner |-> o]
  <2>1. s \in Scope /\ s.entries = Null /\ s.owner = o
    BY DEF Scope, Null
  <2> HIDE DEF s
  <2>2. scopes \in Seq(Scope) /\ scopes' = Append(scopes, s)
    BY DEF Inductive, TypeOK, s
  <2> QED
    BY <1>0, <2>1, <2>2 DEF Level
<1>2. TypeOK'
  BY <1>1 DEF Inductive, TypeOK
<1>3. ChainsOrdered'
  BY DEF Inductive, ChainsOrdered, IsNewest, InBucket, OlderThan
<1>4. LevelsGrow' /\ UniquePerScope'
  BY <1>1 DEF Inductive, LevelsGrow, UniquePerScope
<1>5. ScopeListsOrdered'
  <2>1. Declared(top)' = {}
    BY <1>1 DEF Inductive, LevelsGrow, Declared
  <2>2. \A l \in 1..Level : ScopeHead(l)' = ScopeHead(l) /\ Declared(l)' = Declared(l)
    BY <1>1 DEF ScopeHead, Declared
  <2>3. ScopeHead(top)' = Null
    BY <1>1 DEF ScopeHead
  <2>4. ASSUME NEW l \in 1..top PROVE IsNewest(ScopeHead(l), Declared(l))'
    BY <1>1, <2>1, <2>2, <2>3 DEF Inductive, ScopeListsOrdered, IsNewest
  <2>5. ASSUME NEW e \in live
        PROVE IsNewest(mem[e].nextInScope, OlderThan(e, Declared(mem[e].level)))'
    BY DEF Inductive, ScopeListsOrdered, IsNewest, OlderThan, Declared
  <2> QED
    BY <1>1, <2>4, <2>5 DEF ScopeListsOrdered
<1>6. WalkCovers' /\ FunctionOfCall' /\ NoInternalError'
  BY DEF WalkCovers, FunctionOfCall, NoInternalError, Looking, Declaring
<1>7. \A l \in 1..Level : BeingDeclared(l)' = BeingDeclared(l)
  BY <1>1 DEF BeingDeclared
<1>8. BeingDeclared(top)' => o # Null
  BY <1>1 DEF BeingDeclared
<1>9. OwnersInDefinition'
  <2> SUFFICES ASSUME NEW l \in 1..top, BeingDeclared(l)'
               PROVE  InDefinition(scopes'[l].owner) /\ mem[scopes'[l].owner].level = l - 1
    BY <1>1 DEF OwnersInDefinition, InDefinition
  <2>1. CASE l = top
    BY <1>1, <1>r, <2>1 DEF BeingDeclared
  <2>2. CASE l \in 1..Level
    BY <1>1, <2>2 DEF Inductive, OwnersInDefinition, BeingDeclared
  <2> QED
    BY <1>r, <2>1, <2>2
<1>10. o # Null => mem[o].firstArgument = Null /\ mem[o].lastArgument = Null
  BY <1>1 DEF Inductive, OwnersInDefinition, NoArgumentsBefore, InDefinition
<1>11. ArgumentsInOrder'
  <2>1. Parameters(top)' = {}
    BY <1>1 DEF Inductive, LevelsGrow, Parameters
  <2>2. \A l \in 1..Level : Parameters(l)' = Parameters(l)
    BY DEF Parameters
  <2>3. \A l \in 1..Level : BeingDeclared(l)' => ArgumentsOf(l)'
    BY <1>1, <1>7, <2>2, ZenonT(40) DEF Inductive, ArgumentsInOrder, ArgumentsOf
  <2>4. BeingDeclared(top)' => ArgumentsOf(top)'
    BY <1>1, <1>8, <1>10, <2>1 DEF ArgumentsOf, Null
  <2> QED
    BY <1>1, <2>3, <2>4 DEF ArgumentsInOrder
<1>12. NoArgumentsBefore'
  <2> SUFFICES ASSUME NEW f \in live, InDefinition(f),
                      \A l \in 1..top : BeingDeclared(l)' => scopes'[l].owner # f
               PROVE  mem[f].firstArgument = Null /\ mem[f].lastArgument = Null
    BY <1>1 DEF NoArgumentsBefore, InDefinition
  <2>1. \A l \in 1..Level : BeingDeclared(l) => scopes[l].owner # f
    BY <1>1, <1>r DEF BeingDeclared
  <2> QED
    BY <2>1 DEF Inductive, NoArgumentsBefore
<1> QED
  BY <1>2, <1>3, <1>4, <1>5, <1>6, <1>9, <1>11, <1>12 DEF Inductive

LEMMA OpenScopeKeeps ==
  ASSUME Inductive, OpenScope  PROVE Inductive'
<1>1. call.op = "none" /\ call'.op = "none" /\ call' \in Call /\ call'.cursor = Null
  BY DEF OpenScope, Idle, Inductive, TypeOK, WalkCovers, Looking, Declaring
<1> QED
  BY <1>1, Opened DEF OpenScope, Null

\* decl() finds its function: no entry of the name is deeper than the current
\* scope, and the scope has only one.
LEMMA DeclFinds ==
  ASSUME Inductive  PROVE DeclFindsItsFunction
<1> DEFINE f == call.fun
           c == call.cursor
<1> SUFFICES ASSUME call.op = "decl" PROVE ~Missing /\ (Found => c = f)
  BY DEF DeclFindsItsFunction
<1>1. InDefinition(f) /\ mem[f].id = call.name /\ mem[f].level = Level
  BY DEF Inductive, FunctionOfCall
<1>2. f \in Bindings(call.name) /\ f <= c /\ f # Null /\ f \in Nat
  BY <1>1, LiveTyped DEF Inductive, WalkCovers, Looking, Bindings, InDefinition
<1>3. c # Null
  BY <1>2 DEF Null
<1>4. ASSUME Found PROVE c = f
  <2>1. c \in live /\ mem[c].id = call.name
    BY <1>4 DEF Found, Inductive, WalkCovers
  <2>2. mem[c].level \in 1..Level
    BY <2>1 DEF Inductive, LevelsGrow
  <2>3. f < c => mem[f].level <= mem[c].level
    BY <1>1, <2>1 DEF Inductive, LevelsGrow, InDefinition
  <2>4. c \in Nat /\ Level \in Nat
    BY <2>1, LiveTyped, ScopeTyped DEF Inductive
  <2>5. c # f => mem[c].level = Level
    BY <1>1, <1>2, <2>2, <2>3, <2>4
  <2> QED
    BY <1>1, <2>1, <2>5 DEF Inductive, UniquePerScope, InDefinition
<1> QED
  BY <1>3, <1>4 DEF Missing

LEMMA DeclDoneKeeps ==
  ASSUME Inductive, DeclDone  PROVE Inductive'
<1> DEFINE f == call.fun
<1>1. InDefinition(f) /\ mem[f].level = Level /\ f \in live
  BY DEF Inductive, FunctionOfCall, DeclDone, InDefinition
<1>2. f # Null /\ f \in Nat
  BY <1>1, LiveTyped DEF Inductive
<1>3. Found /\ call.cursor = f
  BY DeclFinds DEF DeclDone, DeclFindsItsFunction, Answered
<1>4. scopes' = Append(scopes, [entries |-> Null, owner |-> f])
      /\ call' = CallAt("none", AnyName, Null)
  BY <1>3 DEF DeclDone, Returned
<1>5. call' \in Call /\ call'.op = "none" /\ call'.cursor = Null
  BY <1>4, AnyTyped, CallOver DEF CallAt
<1> QED
  BY <1>1, <1>2, <1>4, <1>5, Opened DEF DeclDone

-----------------------------------------------------------------------------
(* Closing a scope, up to the loop of closeScope().                        *)

\* Two contents of an entry that lookups, closeScope() and the argument
\* lists cannot tell apart.
SameLinks(w, m) ==
  /\ w.id = m.id /\ w.level = m.level /\ w.entryType = m.entryType
  /\ w.nextInHashTable = m.nextInHashTable /\ w.nextInScope = m.nextInScope

SameArguments(w, m) ==
  /\ w.nextParam = m.nextParam
  /\ w.firstArgument = m.firstArgument /\ w.lastArgument = m.lastArgument

LEMMA Closing ==
  ASSUME Inductive, call.op = "none", Level > 0,
         call' = CallAt("close", AnyName, scopes[Level].entries),
         UNCHANGED <<live, hashTable, scopes, reply>>,
         mem' \in Seq(Entry), Len(mem') = Len(mem),
         NEW o \in Nat, o = scopes[Level].owner,
         \A e \in live :
           /\ SameLinks(mem'[e], mem[e]) /\ SameArguments(mem'[e], mem[e])
           /\ e # o => mem'[e].status = mem[e].status
           /\ e = o => mem'[e].status = "complete"
  PROVE  Inductive'
<1>1. Level \in Nat /\ Level \in 1..Level /\ Level' = Level
      /\ scopes[Level].entries \in Nat
  BY ScopeTyped DEF Inductive, Level
<1>2. call' \in Call /\ call'.op = "close" /\ call'.cursor = scopes[Level].entries
  BY <1>1, AnyTyped DEF CallAt, Call, Null
<1>3. TypeOK'
  BY <1>2 DEF Inductive, TypeOK
<1>4. ChainsOrdered'
  <2>1. \A b : InBucket(b)' = InBucket(b)
    BY DEF InBucket, SameLinks
  <2> QED
    BY <2>1 DEF Inductive, ChainsOrdered, IsNewest, OlderThan, SameLinks
<1>5. LevelsGrow' /\ UniquePerScope'
  BY <1>1 DEF Inductive, LevelsGrow, UniquePerScope, SameLinks
<1>6. ScopeListsOrdered'
  <2>1. \A l : Declared(l)' = Declared(l)
    BY DEF Declared, SameLinks
  <2>2. \A l \in 1..Level : ScopeHead(l)' = ScopeHead(l)
    BY <1>1, <1>2 DEF ScopeHead
  <2> QED
    BY <1>1, <2>1, <2>2 DEF Inductive, ScopeListsOrdered, IsNewest, OlderThan, SameLinks
<1>7. WalkCovers' /\ FunctionOfCall' /\ NoInternalError'
  BY <1>1, <1>2 DEF WalkCovers, FunctionOfCall, NoInternalError, Looking, Declaring
<1>8. \A l \in 1..Level : BeingDeclared(l)' <=> BeingDeclared(l) /\ l # Level
  BY <1>1, <1>2 DEF BeingDeclared
<1>9. \A l \in 1..Level : BeingDeclared(l)' => scopes[l].owner # o
  BY <1>1, <1>8 DEF Inductive, OwnersInDefinition, BeingDeclared
<1>10. OwnersInDefinition'
  BY <1>1, <1>8, <1>9 DEF Inductive, OwnersInDefinition, InDefinition, SameLinks
<1>11. ArgumentsInOrder'
  <2>1. \A l : Parameters(l)' = Parameters(l)
    BY DEF Parameters, SameLinks
  <2>2. \A l \in 1..Level : Parameters(l) \subseteq live
    BY DEF Parameters, SameLinks
  <2>3. ASSUME NEW l \in 1..Level, BeingDeclared(l)'
        PROVE  /\ scopes'[l] = scopes[l] /\ scopes[l].owner \in live
               /\ BeingDeclared(l)
    BY <1>8, <2>3 DEF Inductive, OwnersInDefinition, InDefinition, SameLinks
  <2> QED
    BY <1>1, <2>1, <2>2, <2>3, SMTT(20) DEF Inductive, ArgumentsInOrder, ArgumentsOf, SameArguments
<1>12. NoArgumentsBefore'
  <2> SUFFICES ASSUME NEW f \in live, InDefinition(f)',
                      \A l \in 1..Level : BeingDeclared(l)' => scopes[l].owner # f
               PROVE  mem[f].firstArgument = Null /\ mem[f].lastArgument = Null
    BY <1>1 DEF NoArgumentsBefore, SameArguments
  <2>1. f # o /\ InDefinition(f)
    BY DEF InDefinition, SameLinks
  <2>2. \A l \in 1..Level : BeingDeclared(l) => scopes[l].owner # f
    BY <1>8, <2>1
  <2> QED
    BY <2>1, <2>2 DEF Inductive, NoArgumentsBefore
<1> QED
  BY <1>3, <1>4, <1>5, <1>6, <1>7, <1>10, <1>11, <1>12 DEF Inductive

\* Assigning one field of an entry leaves the others.
LEMMA EntryUpdate ==
  ASSUME NEW m \in Entry, NEW t \in Types, NEW a \in Nat
  PROVE  /\ LET w == [m EXCEPT !.status = "complete"] IN
              /\ w \in Entry /\ w.status = "complete"
              /\ SameLinks(w, m) /\ SameArguments(w, m)
         /\ LET w == [m EXCEPT !.type = t] IN
              /\ w \in Entry /\ w.status = m.status
              /\ SameLinks(w, m) /\ SameArguments(w, m)
BY DEF Entry, SameLinks, SameArguments

LEMMA CloseScopeKeeps ==
  ASSUME Inductive, CloseScope  PROVE Inductive'
<1>1. /\ call.op = "none" /\ Level > 0 /\ scopes[Level].owner = Null
      /\ UNCHANGED <<mem, live, hashTable, scopes, reply>>
      /\ call' = CallAt("close", AnyName, scopes[Level].entries)
  BY DEF CloseScope, Idle
<1>2. mem' \in Seq(Entry) /\ Len(mem') = Len(mem) /\ Null \in Nat
  BY <1>1 DEF Inductive, TypeOK, Null
<1>3. \A e \in live : e # Null
  BY LiveTyped DEF Inductive
<1> QED
  BY <1>1, <1>2, <1>3, Closing DEF SameLinks, SameArguments

LEMMA EndDeclKeeps ==
  ASSUME Inductive, EndDecl  PROVE Inductive'
<1> DEFINE f == scopes[Level].owner
<1>1. /\ call.op = "none" /\ Level > 0 /\ f # Null /\ f \in Nat
      /\ UNCHANGED <<live, hashTable, scopes, reply>>
  BY ScopeTyped DEF EndDecl, Idle, Inductive
<1>2. InDefinition(f)
  BY <1>1, ScopeTyped DEF Inductive, OwnersInDefinition, BeingDeclared
<1>3. /\ mem' = [mem EXCEPT ![f].status = "complete"]
      /\ call' = CallAt("close", AnyName, scopes[Level].entries)
  BY <1>2 DEF EndDecl, InDefinition
<1>4. f \in 1..Len(mem) /\ mem[f] \in Entry /\ mem \in Seq(Entry)
  BY <1>2, LiveTyped DEF InDefinition, Inductive, TypeOK
<1> DEFINE w == [mem[f] EXCEPT !.status = "complete"]
<1>5. w \in Entry /\ mem' = [mem EXCEPT ![f] = w]
  BY <1>3, <1>4, EntryUpdate, AnyTyped
<1>6. /\ w.status = "complete"
      /\ SameLinks(w, mem[f]) /\ SameArguments(w, mem[f])
  BY <1>4, EntryUpdate, AnyTyped
<1> HIDE DEF w
<1>7. mem' \in Seq(Entry) /\ Len(mem') = Len(mem) /\ mem'[f] = w
      /\ \A e \in live : e # f => mem'[e] = mem[e]
  BY <1>4, <1>5, LiveTyped DEF Inductive
<1> HIDE DEF f
<1>8. \A e \in live :
           /\ SameLinks(mem'[e], mem[e]) /\ SameArguments(mem'[e], mem[e])
           /\ e # f => mem'[e].status = mem[e].status
           /\ e = f => mem'[e].status = "complete"
  BY <1>6, <1>7 DEF SameLinks, SameArguments
<1> QED
  BY <1>1, <1>3, <1>7, <1>8, Closing DEF f

-----------------------------------------------------------------------------
(* Binding a name again.                                                   *)

\* The type of an entry is nothing to the lists.
LEMMA Rebound ==
  ASSUME Inductive, call.op # "close", call' = CallAt("none", AnyName, Null),
         UNCHANGED <<live, hashTable, scopes, reply>>,
         mem' \in Seq(Entry), Len(mem') = Len(mem),
         \A e \in live :
           /\ SameLinks(mem'[e], mem[e]) /\ SameArguments(mem'[e], mem[e])
           /\ mem'[e].status = mem[e].status
  PROVE  Inductive'
<1>1. call' \in Call /\ call'.op = "none"
      /\ WalkCovers' /\ FunctionOfCall' /\ NoInternalError'
  BY AnyTyped, CallOver
<1>2. Level' = Level /\ Level \in Nat
  BY ScopeTyped DEF Level, Inductive
<1>3. TypeOK'
  BY <1>1 DEF Inductive, TypeOK
<1>4. ChainsOrdered'
  <2>1. \A b : InBucket(b)' = InBucket(b)
    BY DEF InBucket, SameLinks
  <2> QED
    BY <2>1 DEF Inductive, ChainsOrdered, IsNewest, OlderThan, SameLinks
<1>5. LevelsGrow' /\ UniquePerScope'
  BY <1>2 DEF Inductive, LevelsGrow, UniquePerScope, SameLinks
<1>6. ScopeListsOrdered'
  <2>1. \A l : Declared(l)' = Declared(l)
    BY DEF Declared, SameLinks
  <2>2. \A l \in 1..Level : ScopeHead(l)' = ScopeHead(l)
    BY <1>1, <1>2 DEF ScopeHead
  <2> QED
    BY <1>2, <2>1, <2>2 DEF Inductive, ScopeListsOrdered, IsNewest, OlderThan, SameLinks
<1>7. \A l \in 1..Level : BeingDeclared(l)' <=> BeingDeclared(l)
  BY <1>1, <1>2 DEF BeingDeclared
<1>8. OwnersInDefinition'
  BY <1>2, <1>7 DEF Inductive, OwnersInDefinition, InDefinition, SameLinks
<1>9. ArgumentsInOrder'
  <2>1. \A l : Parameters(l)' = Parameters(l)
    BY DEF Parameters, SameLinks
  <2>2. \A l \in 1..Level : Parameters(l) \subseteq live
    BY DEF Parameters, SameLinks
  <2>3. \A l \in 1..Level : BeingDeclared(l) => scopes[l].owner \in live
    BY DEF Inductive, OwnersInDefinition, InDefinition, SameLinks
  <2> QED
    BY <1>2, <1>7, <2>1, <2>2, <2>3 DEF Inductive, ArgumentsInOrder, ArgumentsOf, SameArguments
<1>10. NoArgumentsBefore'
  BY <1>2, <1>7 DEF Inductive, NoArgumentsBefore, InDefinition, SameLinks, SameArguments
<1> QED
  BY <1>1, <1>3, <1>4, <1>5, <1>6, <1>8, <1>9, <1>10 DEF Inductive

LEMMA BindDoneKeeps ==
  ASSUME Inductive, BindDone  PROVE Inductive'
<1> DEFINE p == call.cursor
<1>1. call.op = "bind" /\ call \in Call /\ call.name \in Names /\ call.type \in Types
      /\ Level > 0
  BY DEF BindDone, Inductive, TypeOK, Call, WalkCovers
<1>2. CASE Found
  <2>1. /\ mem' = [mem EXCEPT ![p].type = call.type]
        /\ call' = CallAt("none", AnyName, Null)
    BY <1>2 DEF BindDone, Returned, Found, Missing
  <2>2. p \in live /\ p \in 1..Len(mem) /\ mem[p] \in Entry /\ mem \in Seq(Entry)
    BY <1>2, LiveTyped DEF Found, WalkCovers, Inductive, TypeOK
  <2> DEFINE w == [mem[p] EXCEPT !.type = call.type]
  <2>3. w \in Entry /\ mem' = [mem EXCEPT ![p] = w]
    BY <1>1, <2>1, <2>2, EntryUpdate
  <2>4. /\ w.status = mem[p].status
        /\ SameLinks(w, mem[p]) /\ SameArguments(w, mem[p])
    BY <1>1, <2>2, EntryUpdate
  <2> HIDE DEF w
  <2>5. mem' \in Seq(Entry) /\ Len(mem') = Len(mem) /\ mem'[p] = w
        /\ \A e \in live : e # p => mem'[e] = mem[e]
    BY <2>2, <2>3, LiveTyped DEF Inductive
  <2>6. \A e \in live :
           /\ SameLinks(mem'[e], mem[e]) /\ SameArguments(mem'[e], mem[e])
           /\ mem'[e].status = mem[e].status
    BY <2>4, <2>5 DEF SameLinks, SameArguments
  <2> QED
    BY <1>1, <2>1, <2>5, <2>6, Rebound DEF BindDone
<1>3. CASE Missing
  <2>1. LookFor("variable", call.name, call.type, Null)
        /\ UNCHANGED <<mem, live, hashTable, scopes, reply>>
    BY <1>3 DEF BindDone, Found, Missing
  <2>2. call'.op = "variable" /\ call' \in Call /\ WalkCovers'
    BY <1>1, <2>1, LookForCovers DEF Looking, Declaring, Null
  <2>3. FunctionOfCall' /\ NoInternalError'
    BY <2>2 DEF FunctionOfCall, NoInternalError
  <2> QED
    BY <1>1, <2>1, <2>2, <2>3, CallStep DEF Inductive, TypeOK
<1> QED
  BY <1>2, <1>3 DEF BindDone

-----------------------------------------------------------------------------
(* Inserting an entry.                                                     *)

\* newEntry(): a new address is above all others, so it belongs at the head
\* of its bucket and of its scope; and no live entry of the scope has its
\* name, because the lookup would have ended at that entry.
LEMMA Inserted ==
  ASSUME Inductive, call.op \in Declaring, Answered, ~Duplicate,
         call' = CallAt("none", AnyName, Null), reply' = reply,
         NEW n \in Nat, n = Len(mem) + 1, Link(n),
         mem' \in Seq(Entry), Len(mem') = n,
         SameLinks(mem'[n], FreshEntry),
         \A e \in live : /\ SameLinks(mem'[e], mem[e])
                         /\ mem'[e].status = mem[e].status
  PROVE  /\ TypeOK' /\ ChainsOrdered' /\ ScopeListsOrdered' /\ LevelsGrow'
         /\ UniquePerScope' /\ WalkCovers' /\ FunctionOfCall'
         /\ OwnersInDefinition' /\ NoInternalError'
         /\ Level' = Level /\ Level \in Nat
         /\ \A l \in 1..Level : scopes'[l].owner = scopes[l].owner
<1>1. /\ live' = live \cup {n}
      /\ hashTable' = [hashTable EXCEPT ![Hash[call.name]] = n]
      /\ scopes' = [scopes EXCEPT ![Level].entries = n]
  BY DEF Link
<1>2. /\ Level \in Nat /\ Level \in 1..Level /\ scopes \in Seq(Scope)
      /\ call.name \in Names /\ Hash[call.name] \in Buckets
      /\ scopes[Level] \in Scope
  BY ScopeTyped, HashAssumption
  DEF Inductive, TypeOK, WalkCovers, Call, Declaring
<1>r. PICK h \in Buckets, top \in Nat : h = Hash[call.name] /\ top = Level
  BY <1>2
<1>3. \A e \in live : e < n /\ e \in Nat /\ e # Null /\ e # n
  BY LiveTyped DEF Inductive, TypeOK
<1>4. /\ Level' = Level /\ scopes' \in Seq(Scope)
      /\ scopes'[Level].entries = n
      /\ \A l \in 1..Level : /\ scopes'[l].owner = scopes[l].owner
                             /\ l # Level => scopes'[l] = scopes[l]
  <2> DEFINE s == [scopes[Level] EXCEPT !.entries = n]
  <2>1. s \in Scope /\ s.entries = n /\ s.owner = scopes[Level].owner
    BY <1>2 DEF Scope
  <2>2. scopes' = [scopes EXCEPT ![Level] = s]
    BY <1>1, <1>2
  <2> HIDE DEF s
  <2> QED
    BY <1>2, <2>1, <2>2 DEF Level
<1>5. /\ mem'[n].id = call.name /\ mem'[n].level = Level
      /\ mem'[n].entryType = call.op
      /\ mem'[n].nextInHashTable = hashTable[Hash[call.name]]
      /\ mem'[n].nextInScope = scopes[Level].entries
  BY DEF FreshEntry, SameLinks
<1>6. call' \in Call /\ call'.op = "none"
      /\ WalkCovers' /\ FunctionOfCall' /\ NoInternalError'
  BY AnyTyped, CallOver
<1>7. TypeOK'
  BY <1>1, <1>2, <1>3, <1>4, <1>6 DEF Inductive, TypeOK
<1>8. ChainsOrdered'
  <2>1. InBucket(h)' = InBucket(h) \cup {n}
    BY <1>1, <1>3, <1>5, <1>r DEF InBucket, SameLinks
  <2>2. \A b : b # h => InBucket(b)' = InBucket(b)
    BY <1>1, <1>3, <1>5, <1>r DEF InBucket, SameLinks
  <2>3. \A b : InBucket(b) \subseteq live
    BY DEF InBucket
  <2>4. \A b \in Buckets : IsNewest(hashTable[b], InBucket(b))
    BY DEF Inductive, ChainsOrdered
  <2>5. hashTable'[h] = n /\ \A b \in Buckets : b # h => hashTable'[b] = hashTable[b]
    BY <1>1, <1>r DEF Inductive, TypeOK
  <2>6. ASSUME NEW b \in Buckets PROVE IsNewest(hashTable'[b], InBucket(b)')
    BY <1>3, <2>1, <2>2, <2>3, <2>4, <2>5 DEF IsNewest
  <2>7. IsNewest(mem'[n].nextInHashTable, OlderThan(n, InBucket(h)'))
    <3>1. OlderThan(n, InBucket(h)') = InBucket(h)
      BY <1>3, <2>1, <2>3 DEF OlderThan
    <3> QED
      BY <1>r, <1>5, <2>4, <3>1
  <2>8. ASSUME NEW e \in live, NEW b \in Buckets, b = Hash[mem[e].id]
        PROVE  IsNewest(mem'[e].nextInHashTable, OlderThan(e, InBucket(b)'))
    <3>1. OlderThan(e, InBucket(b)') = OlderThan(e, InBucket(b))
      BY <1>3, <2>1, <2>2 DEF OlderThan
    <3> QED
      BY <2>8, <3>1 DEF Inductive, ChainsOrdered, SameLinks
  <2>9. ASSUME NEW e \in live'
        PROVE  IsNewest(mem[e].nextInHashTable,
                        OlderThan(e, InBucket(Hash[mem[e].id])))'
    <3>1. CASE e = n
      BY <1>5, <1>r, <2>7, <3>1 DEF OlderThan, InBucket, IsNewest
    <3>2. CASE e \in live
      <4>1. PICK b \in Buckets : b = Hash[mem[e].id]
        BY <3>2, LiveTyped DEF Inductive
      <4>2. Hash[mem'[e].id] = b
        BY <3>2, <4>1 DEF SameLinks
      <4> QED
        BY <2>8, <3>2, <4>1, <4>2 DEF OlderThan, InBucket, IsNewest
    <3> QED
      BY <1>1, <3>1, <3>2
  <2> QED
    BY <2>6, <2>9 DEF ChainsOrdered, IsNewest
<1>9. LevelsGrow'
  <2>1. \A e \in live : mem'[e].level = mem[e].level /\ mem[e].level \in 1..Level
    BY DEF Inductive, LevelsGrow, SameLinks
  <2>2. \A e, x \in live : x < e => mem'[x].level <= mem'[e].level
    BY <2>1 DEF Inductive, LevelsGrow
  <2>3. mem'[n].level = Level /\ \A x \in live : mem'[x].level <= Level /\ ~(n < x)
    BY <1>2, <1>3, <1>5, <2>1
  <2>4. \A e \in live' : mem'[e].level \in 1..Level
    BY <1>1, <1>2, <1>5, <2>1
  <2>5. ASSUME NEW e \in live', NEW x \in live', x < e
        PROVE  mem'[x].level <= mem'[e].level
    BY <1>1, <1>2, <1>3, <2>2, <2>3, <2>5
  <2> QED
    BY <1>4, <2>4, <2>5 DEF LevelsGrow
<1>10. UniquePerScope'
  <2>1. \A e \in live : mem[e].id = call.name => mem[e].level # Level
    <3> SUFFICES ASSUME NEW e \in live, mem[e].id = call.name
                 PROVE  mem[e].level # Level
      OBVIOUS
    <3> DEFINE c == call.cursor
    <3>1. e <= c /\ c \in live \cup {Null} /\ e \in Nat /\ e # 0
      BY LiveTyped DEF Inductive, WalkCovers, Bindings, Looking, Null
    <3>2. c \in live /\ c # Null
      BY <3>1 DEF Null
    <3>3. Found /\ mem[c].level # Level
      BY <3>2 DEF Answered, Found, Missing, Duplicate
    <3>4. mem[c].level \in 1..Level /\ (e < c => mem[e].level <= mem[c].level)
      BY <3>2 DEF Inductive, LevelsGrow
    <3>5. c \in Nat /\ mem[e].level \in Nat
      BY <3>2, LiveTyped DEF Inductive
    <3> QED
      BY <1>2, <3>1, <3>3, <3>4, <3>5
  <2> QED
    BY <1>1, <1>5, <2>1 DEF Inductive, UniquePerScope, SameLinks
<1>11. call.op # "close"
  BY DEF Declaring
<1>12. ScopeListsOrdered'
  <2>1. Declared(top)' = Declared(top) \cup {n}
    BY <1>1, <1>r, <1>5 DEF Declared, SameLinks
  <2>2. \A l : l # top => Declared(l)' = Declared(l)
    BY <1>1, <1>r, <1>5 DEF Declared, SameLinks
  <2>3. \A l : Declared(l) \subseteq live
    BY DEF Declared
  <2>4. \A l \in 1..Level : IsNewest(scopes[l].entries, Declared(l))
    BY <1>11 DEF Inductive, ScopeListsOrdered, ScopeHead
  <2>5. ASSUME NEW l \in 1..top
        PROVE  IsNewest(scopes'[l].entries, Declared(l)')
    <3>1. CASE l = top
      BY <1>3, <1>4, <1>r, <2>1, <2>3, <3>1 DEF IsNewest
    <3>2. CASE l # top
      BY <1>4, <1>r, <2>2, <2>4, <3>2
    <3> QED
      BY <3>1, <3>2
  <2>6. IsNewest(mem'[n].nextInScope, OlderThan(n, Declared(top)'))
    <3>1. OlderThan(n, Declared(top)') = Declared(top)
      BY <1>3, <2>1, <2>3 DEF OlderThan
    <3> QED
      BY <1>2, <1>r, <1>5, <2>4, <3>1
  <2>7. ASSUME NEW e \in live, NEW l \in Nat, l = mem[e].level
        PROVE  IsNewest(mem'[e].nextInScope, OlderThan(e, Declared(l)'))
    <3>1. OlderThan(e, Declared(l)') = OlderThan(e, Declared(l))
      BY <1>3, <2>1, <2>2 DEF OlderThan
    <3> QED
      BY <2>7, <3>1 DEF Inductive, ScopeListsOrdered, SameLinks
  <2>8. ASSUME NEW e \in live'
        PROVE  IsNewest(mem[e].nextInScope,
                        OlderThan(e, Declared(mem[e].level)))'
    <3>1. CASE e = n
      BY <1>5, <1>r, <2>6, <3>1 DEF OlderThan, Declared, IsNewest
    <3>2. CASE e \in live
      <4>1. PICK l \in Nat : l = mem[e].level
        BY <3>2, LiveTyped DEF Inductive
      <4>2. mem'[e].level = l
        BY <3>2, <4>1 DEF SameLinks
      <4> QED
        BY <2>7, <3>2, <4>1, <4>2 DEF OlderThan, Declared, IsNewest
    <3> QED
      BY <1>1, <3>1, <3>2
  <2> QED
    BY <1>4, <1>6, <1>r, <2>5, <2>8 DEF ScopeListsOrdered, ScopeHead, IsNewest
<1>13. OwnersInDefinition'
  <2>1. \A l \in 1..Level : BeingDeclared(l)' => BeingDeclared(l)
    BY <1>4, <1>11 DEF BeingDeclared
  <2>2. \A f \in live : InDefinition(f) => InDefinition(f)' /\ mem'[f].level = mem[f].level
    BY <1>1 DEF InDefinition, SameLinks
  <2>3. \A l \in 1..Level : BeingDeclared(l) => scopes[l].owner \in live
    BY DEF Inductive, OwnersInDefinition, InDefinition
  <2> QED
    BY <1>4, <2>1, <2>2, <2>3 DEF Inductive, OwnersInDefinition, InDefinition
<1> QED
  BY <1>2, <1>4, <1>6, <1>7, <1>8, <1>9, <1>10, <1>12, <1>13

LEMMA FreshEntryTyped ==
  ASSUME Inductive, call.op \in Declaring, Level > 0
  PROVE  /\ FreshEntry \in Entry /\ FreshEntry.entryType = call.op
         /\ FreshEntry.nextParam = Null
         /\ FreshEntry.firstArgument = Null /\ FreshEntry.lastArgument = Null
<1>1. call.name \in Names /\ call.type \in Types
  BY DEF Inductive, TypeOK, Call
<1>2. hashTable[Hash[call.name]] \in Nat
  BY <1>1, HashAssumption DEF Inductive, TypeOK
<1>3. Level \in Nat \ {0} /\ scopes[Level].entries \in Nat
  BY ScopeTyped DEF Inductive
<1> QED
  BY <1>1, <1>2, <1>3 DEF FreshEntry, Entry, Declaring, Null

LEMMA InsertEntryKeeps ==
  ASSUME Inductive, InsertEntry  PROVE Inductive'
<1>1. /\ call.op \in {"variable", "function"} /\ call.op \in Declaring
      /\ Answered /\ ~Duplicate /\ call' = CallAt("none", AnyName, Null)
      /\ mem' = Append(mem, FreshEntry) /\ Link(Len(mem) + 1) /\ reply' = reply
  BY DEF InsertEntry, Declaring, Returned, Link
<1>2. Level > 0
  BY <1>1 DEF Inductive, WalkCovers
<1>3. FreshEntry \in Entry /\ FreshEntry.entryType = call.op
      /\ FreshEntry.firstArgument = Null /\ FreshEntry.lastArgument = Null
  BY <1>1, <1>2, FreshEntryTyped
<1>r. PICK n \in Nat : n = Len(mem) + 1
  BY DEF Inductive, TypeOK
<1>4. /\ mem' \in Seq(Entry) /\ Len(mem') = n /\ mem'[n] = FreshEntry
      /\ \A e \in live : mem'[e] = mem[e] /\ e # n
  <2>1. mem \in Seq(Entry) /\ \A e \in live : e \in 1..Len(mem)
    BY LiveTyped DEF Inductive, TypeOK
  <2> QED
    BY <1>1, <1>3, <1>r, <2>1
<1>5. /\ SameLinks(mem'[n], FreshEntry)
      /\ \A e \in live : SameLinks(mem'[e], mem[e]) /\ mem'[e].status = mem[e].status
  BY <1>4 DEF SameLinks
<1>6. /\ TypeOK' /\ ChainsOrdered' /\ ScopeListsOrdered' /\ LevelsGrow'
      /\ UniquePerScope' /\ WalkCovers' /\ FunctionOfCall'
      /\ OwnersInDefinition' /\ NoInternalError'
      /\ Level' = Level /\ Level \in Nat
      /\ \A l \in 1..Level : scopes'[l].owner = scopes[l].owner
  BY <1>1, <1>r, <1>4, <1>5, Inserted
<1>7. live' = live \cup {n}
  BY <1>1, <1>r DEF Link
<1>8. \A l \in 1..Level : BeingDeclared(l)' <=> BeingDeclared(l)
  BY <1>1, <1>6 DEF BeingDeclared, CallAt
<1>9. ArgumentsInOrder'
  <2>1. \A l : Parameters(l)' = Parameters(l)
    BY <1>1, <1>3, <1>4, <1>7 DEF Parameters
  <2>2. \A l : Parameters(l) \subseteq live
    BY DEF Parameters
  <2>3. \A l \in 1..Level : BeingDeclared(l) => scopes[l].owner \in live
    BY DEF Inductive, OwnersInDefinition, InDefinition
  <2> QED
    BY <1>4, <1>6, <1>8, <2>1, <2>2, <2>3
    DEF Inductive, ArgumentsInOrder, ArgumentsOf
<1>10. NoArgumentsBefore'
  <2> SUFFICES ASSUME NEW f \in live', InDefinition(f)',
                      \A l \in 1..Level : BeingDeclared(l) => scopes[l].owner # f
               PROVE  mem'[f].firstArgument = Null /\ mem'[f].lastArgument = Null
    BY <1>6, <1>8 DEF NoArgumentsBefore
  <2>1. CASE f = n
    BY <1>3, <1>4, <2>1
  <2>2. CASE f \in live
    BY <1>4, <2>2 DEF Inductive, NoArgumentsBefore, InDefinition
  <2> QED
    BY <1>7, <2>1, <2>2
<1> QED
  BY <1>6, <1>9, <1>10 DEF Inductive

\* What newParameter() writes in the entries that are there: the end of the
\* list of f, and its beginning or the link of its former last parameter.
LEMMA WithArgumentValue ==
  ASSUME mem \in Seq(Entry), NEW n \in Nat, NEW f \in 1..Len(mem),
         NEW last \in Nat, last = mem[f].lastArgument, last # f,
         last # Null => last \in 1..Len(mem)
  PROVE  /\ WithArgument(f, n) \in Seq(Entry)
         /\ Len(WithArgument(f, n)) = Len(mem)
         /\ \A e \in 1..Len(mem) :
              /\ SameLinks(WithArgument(f, n)[e], mem[e])
              /\ WithArgument(f, n)[e].status = mem[e].status
              /\ e # f /\ e # last => WithArgument(f, n)[e] = mem[e]
         /\ WithArgument(f, n)[f].lastArgument = n
         /\ last = Null => WithArgument(f, n)[f].firstArgument = n
         /\ last # Null =>
              /\ WithArgument(f, n)[f].firstArgument = mem[f].firstArgument
              /\ WithArgument(f, n)[last].nextParam = n
<1>1. mem[f] \in Entry
  OBVIOUS
<1>2. CASE last = Null
  <2> DEFINE w == [mem[f] EXCEPT !.firstArgument = n, !.lastArgument = n]
  <2>1. /\ w \in Entry /\ SameLinks(w, mem[f]) /\ w.status = mem[f].status
        /\ w.firstArgument = n /\ w.lastArgument = n
    BY <1>1 DEF Entry, SameLinks
  <2>2. WithArgument(f, n) = [mem EXCEPT ![f] = w]
    BY <1>1, <1>2 DEF WithArgument
  <2> HIDE DEF w
  <2> QED
    BY <1>2, <2>1, <2>2 DEF SameLinks
<1>3. CASE last # Null
  <2> DEFINE w == [mem[f] EXCEPT !.lastArgument = n]
             v == [mem[last] EXCEPT !.nextParam = n]
  <2>1. /\ w \in Entry /\ SameLinks(w, mem[f]) /\ w.status = mem[f].status
        /\ w.firstArgument = mem[f].firstArgument /\ w.lastArgument = n
    BY <1>1 DEF Entry, SameLinks
  <2>2. mem[last] \in Entry
    BY <1>3
  <2>3. /\ v \in Entry /\ SameLinks(v, mem[last]) /\ v.status = mem[last].status
        /\ v.nextParam = n
    BY <2>2 DEF Entry, SameLinks
  <2>4. WithArgument(f, n) = [mem EXCEPT ![last] = v, ![f] = w]
    BY <1>1, <1>3, <2>2 DEF WithArgument
  <2> HIDE DEF w, v
  <2> QED
    BY <1>3, <2>1, <2>3, <2>4 DEF SameLinks
<1> QED
  BY <1>2, <1>3

LEMMA InsertParameterKeeps ==
  ASSUME Inductive, InsertParameter  PROVE Inductive'
<1>1. /\ call.op = "parameter" /\ call.op \in Declaring
      /\ Answered /\ ~Duplicate /\ Level > 0 /\ Level \in 1..Level
  BY ScopeTyped DEF InsertParameter, Declaring, Inductive, WalkCovers
<1>r. PICK n \in Nat, f \in Nat, top \in Nat, last \in Nat :
        /\ n = Len(mem) + 1 /\ f = scopes[Level].owner /\ top = Level
        /\ f = call.fun /\ last = mem[f].lastArgument
        /\ f \in live /\ f # Null
  <2>1. Level \in Nat /\ scopes[Level].owner \in Nat /\ Len(mem) + 1 \in Nat
        /\ call.fun = scopes[Level].owner /\ call.fun # Null
    BY <1>1, ScopeTyped DEF Inductive, TypeOK, FunctionOfCall
  <2>2. scopes[Level].owner \in live
    BY <1>1, <2>1
    DEF Inductive, OwnersInDefinition, BeingDeclared, InDefinition
  <2>3. mem[call.fun].lastArgument \in Nat
    BY <2>1, <2>2, LiveTyped DEF Inductive
  <2> QED
    BY <2>1, <2>2, <2>3
<1>2. /\ BeingDeclared(top) /\ InDefinition(f) /\ mem[f].level = top - 1
      /\ top \in 1..Level
  BY <1>1, <1>r DEF Inductive, OwnersInDefinition, BeingDeclared
<1>3. /\ last \in Parameters(top) \cup {Null} /\ last # f
      /\ last # Null => last \in live
  BY <1>1, <1>2, <1>r
  DEF Inductive, ArgumentsInOrder, ArgumentsOf, Parameters, InDefinition, Null
<1>4. /\ mem' = Append(WithArgument(f, n), FreshEntry) /\ Link(n)
      /\ call' = CallAt("none", AnyName, Null) /\ reply' = reply
  BY <1>3, <1>r DEF InsertParameter, Returned, Link
<1>5. /\ FreshEntry \in Entry /\ FreshEntry.entryType = "parameter"
      /\ FreshEntry.nextParam = Null /\ SameLinks(FreshEntry, FreshEntry)
  BY <1>1, FreshEntryTyped DEF SameLinks
<1> DEFINE m == WithArgument(f, n)
<1>6. /\ m \in Seq(Entry) /\ Len(m) = Len(mem)
      /\ \A e \in live :
           /\ SameLinks(m[e], mem[e]) /\ m[e].status = mem[e].status
           /\ e # f /\ e # last => m[e] = mem[e]
      /\ m[f].lastArgument = n
      /\ last = Null => m[f].firstArgument = n
      /\ last # Null => /\ m[f].firstArgument = mem[f].firstArgument
                        /\ m[last].nextParam = n
  <2>1. /\ mem \in Seq(Entry) /\ f \in 1..Len(mem)
        /\ last # Null => last \in 1..Len(mem)
        /\ \A e \in live : e \in 1..Len(mem)
    BY <1>3, <1>r, LiveTyped DEF Inductive, TypeOK
  <2>2. /\ m \in Seq(Entry) /\ Len(m) = Len(mem)
        /\ \A e \in 1..Len(mem) :
             /\ SameLinks(m[e], mem[e]) /\ m[e].status = mem[e].status
             /\ e # f /\ e # last => m[e] = mem[e]
        /\ m[f].lastArgument = n
        /\ last = Null => m[f].firstArgument = n
        /\ last # Null => /\ m[f].firstArgument = mem[f].firstArgument
                          /\ m[last].nextParam = n
    <3>1. mem[f].lastArgument = last /\ last # f
      BY <1>3, <1>r
    <3> QED
      BY <2>1, <3>1, WithArgumentValue
  <2> HIDE DEF m
  <2> QED
    BY <2>1, <2>2
<1> HIDE DEF m
<1>7. /\ mem' \in Seq(Entry) /\ Len(mem') = n /\ mem'[n] = FreshEntry
      /\ \A e \in live : mem'[e] = m[e] /\ e # n /\ e < n /\ e \in Nat
  <2>1. /\ mem' = Append(m, FreshEntry) /\ Len(m) + 1 = n
        /\ \A e \in live : e \in 1..Len(m) /\ e \in Nat
    BY <1>4, <1>6, <1>r, LiveTyped DEF Inductive, m
  <2>2. m \in Seq(Entry) /\ FreshEntry \in Entry
    BY <1>5, <1>6
  <2>3. /\ mem' \in Seq(Entry) /\ Len(mem') = n /\ mem'[n] = FreshEntry
        /\ \A e \in 1..Len(m) : mem'[e] = m[e]
    BY <2>1, <2>2
  <2>4. \A e \in 1..Len(m) : e # n /\ e < n
    BY <2>1, <2>2
  <2> QED
    BY <2>1, <2>3, <2>4
<1>8. /\ SameLinks(mem'[n], FreshEntry)
      /\ \A e \in live : SameLinks(mem'[e], mem[e]) /\ mem'[e].status = mem[e].status
  BY <1>5, <1>6, <1>7
<1>9. /\ TypeOK' /\ ChainsOrdered' /\ ScopeListsOrdered' /\ LevelsGrow'
      /\ UniquePerScope' /\ WalkCovers' /\ FunctionOfCall'
      /\ OwnersInDefinition' /\ NoInternalError'
      /\ Level' = Level /\ Level \in Nat
      /\ \A l \in 1..Level : scopes'[l].owner = scopes[l].owner
  BY <1>1, <1>4, <1>7, <1>8, <1>r, Inserted
<1>10. live' = live \cup {n} /\ mem'[n].level = top
  BY <1>4, <1>7, <1>r DEF Link, FreshEntry
<1>11. \A l \in 1..Level : BeingDeclared(l)' <=> BeingDeclared(l)
  BY <1>1, <1>4, <1>9 DEF BeingDeclared, CallAt
<1>12. ArgumentsInOrder'
  <2>1. Parameters(top)' = Parameters(top) \cup {n}
    BY <1>5, <1>7, <1>8, <1>10 DEF Parameters, SameLinks
  <2>2. \A l : l # top => Parameters(l)' = Parameters(l)
    BY <1>7, <1>8, <1>10 DEF Parameters, SameLinks
  <2>3. \A l : Parameters(l) \subseteq live /\ f \notin Parameters(l)
               /\ (l # top => last \notin Parameters(l))
    BY <1>2, <1>3, LiveTyped DEF Parameters, InDefinition, Inductive
  <2>4. ASSUME NEW l \in 1..Level, l # top, BeingDeclared(l)
        PROVE  ArgumentsOf(l)'
    <3>1. /\ scopes[l].owner \in live /\ mem[scopes[l].owner].level = l - 1
          /\ mem[scopes[l].owner].entryType = "function"
      BY <2>4 DEF Inductive, OwnersInDefinition, InDefinition
    <3>2. scopes[l].owner # f /\ scopes[l].owner # last
      <4>1. last # Null => mem[last].entryType = "parameter"
        BY <1>3 DEF Parameters
      <4>2. scopes[l].owner # Null
        BY <2>4 DEF BeingDeclared
      <4> QED
        BY <1>2, <2>4, <3>1, <4>1, <4>2
    <3>3. mem'[scopes[l].owner] = mem[scopes[l].owner]
      BY <1>6, <1>7, <3>1, <3>2
    <3>4. \A e \in Parameters(l) : mem'[e] = mem[e]
      BY <1>6, <1>7, <2>3, <2>4
    <3>5. ArgumentsOf(l)
      BY <2>4 DEF Inductive, ArgumentsInOrder
    <3> QED
      BY <1>9, <2>2, <2>4, <3>3, <3>4, <3>5 DEF ArgumentsOf
  <2>5. ArgumentsOf(top)'
    <3>1. ArgumentsOf(top)
      BY <1>2 DEF Inductive, ArgumentsInOrder
    <3>2. mem'[f] = m[f] /\ scopes'[top].owner = f /\ scopes[top].owner = f
      BY <1>2, <1>7, <1>9, <1>r
    <3>3. \A e \in Parameters(top) : e # f /\ e < n /\ e # n /\ e \in Nat /\ e # Null
      BY <1>7, <2>3, LiveTyped DEF Inductive
    <3>4. \A e \in Parameters(top) : e # last => mem'[e] = mem[e]
      BY <1>6, <1>7, <2>3
    <3>5. mem'[n].nextParam = Null /\ n # Null
      BY <1>5, <1>7, <1>r DEF Null
    <3>6. CASE last = Null
      <4>1. Parameters(top) = {}
        BY <1>r, <3>1, <3>2, <3>3, <3>6 DEF ArgumentsOf, Null
      <4> QED
        BY <1>6, <2>1, <3>2, <3>5, <3>6, <4>1 DEF ArgumentsOf
    <3>7. CASE last # Null
      <4>1. /\ mem'[f].firstArgument = mem[f].firstArgument
            /\ mem'[f].lastArgument = n /\ mem'[last].nextParam = n
            /\ last \in Parameters(top)
        BY <1>3, <1>6, <1>7, <3>2, <3>7
      <4>2. /\ mem[f].firstArgument \in Parameters(top)
            /\ mem[f].firstArgument # Null
        BY <1>r, <3>1, <3>2, <3>7 DEF ArgumentsOf
      <4>3. ASSUME NEW e \in Parameters(top)
            PROVE  /\ mem[f].firstArgument <= e /\ e <= n
                   /\ mem'[e].nextParam \in Parameters(top) \cup {n}
                   /\ e < mem'[e].nextParam
                   /\ \A p \in Parameters(top) \cup {n} :
                        p <= e \/ mem'[e].nextParam <= p
        <5>1. mem[f].firstArgument <= e /\ e <= n /\ e <= last
          BY <1>r, <3>1, <3>2, <3>3 DEF ArgumentsOf
        <5>2. CASE e = last
          <6>1. \A p \in Parameters(top) : p <= e
            BY <1>r, <3>1, <3>2, <5>2 DEF ArgumentsOf
          <6>2. mem'[e].nextParam = n /\ e < n
            BY <3>3, <4>1, <5>2
          <6>3. n <= n
            OBVIOUS
          <6> QED
            BY <5>1, <6>1, <6>2, <6>3
        <5>3. CASE e # last
          <6>1. /\ mem'[e].nextParam \in Parameters(top)
                /\ e < mem'[e].nextParam
                /\ \A p \in Parameters(top) : p <= e \/ mem'[e].nextParam <= p
            BY <1>r, <3>1, <3>2, <3>4, <5>3 DEF ArgumentsOf
          <6> QED
            BY <3>3, <5>1, <6>1
        <5> QED
          BY <5>2, <5>3
      <4>4. mem[f].firstArgument <= n
        BY <3>3, <4>2
      <4>5. ASSUME NEW e \in Parameters(top) \cup {n}
            PROVE  /\ mem'[f].firstArgument <= e /\ e <= mem'[f].lastArgument
                   /\ mem'[f].firstArgument # Null
                   /\ \/ mem'[e].nextParam = Null /\ e = mem'[f].lastArgument
                      \/ /\ mem'[e].nextParam \in Parameters(top) \cup {n}
                         /\ e < mem'[e].nextParam
                         /\ \A p \in Parameters(top) \cup {n} :
                              p <= e \/ mem'[e].nextParam <= p
        <5>1. CASE e = n
          BY <3>5, <4>1, <4>2, <4>4, <5>1
        <5>2. CASE e \in Parameters(top)
          BY <4>1, <4>2, <4>3, <5>2
        <5> QED
          BY <5>1, <5>2
      <4>6. /\ mem'[f].firstArgument \in Parameters(top) \cup {n}
            /\ mem'[f].lastArgument \in Parameters(top) \cup {n}
            /\ mem'[f].firstArgument # Null /\ mem'[f].lastArgument # Null
        BY <3>5, <4>1, <4>2
      <4> QED
        BY <2>1, <3>2, <4>5, <4>6 DEF ArgumentsOf
    <3> QED
      BY <3>6, <3>7
  <2> QED
    BY <1>9, <1>11, <2>4, <2>5, <1>r DEF ArgumentsInOrder
<1>13. NoArgumentsBefore'
  <2> SUFFICES ASSUME NEW g \in live', InDefinition(g)',
                      \A l \in 1..Level : BeingDeclared(l) => scopes[l].owner # g
               PROVE  mem'[g].firstArgument = Null /\ mem'[g].lastArgument = Null
    BY <1>9, <1>11 DEF NoArgumentsBefore
  <2>1. g \in live /\ g # f
    BY <1>2, <1>5, <1>7, <1>10, <1>r DEF InDefinition
  <2>2. InDefinition(g)
    BY <1>8, <2>1 DEF InDefinition, SameLinks
  <2>3. g # last
    BY <1>3, <2>1, <2>2, LiveTyped DEF InDefinition, Parameters, Inductive
  <2>4. mem'[g] = mem[g]
    BY <1>6, <1>7, <2>1, <2>3
  <2> QED
    BY <2>1, <2>2, <2>4 DEF Inductive, NoArgumentsBefore
<1> QED
  BY <1>9, <1>12, <1>13 DEF Inductive

-----------------------------------------------------------------------------
(* Unlinking an entry, and the end of closeScope().                        *)

\* The heart of the matter: the entry that closeScope() unlinks is the newest
\* of all live entries, so it is the head of its bucket, and its successor is
\* the newest of what is left there.
LEMMA CloseEntryKeeps ==
  ASSUME Inductive, CloseEntry  PROVE Inductive'
<1>1. /\ call.op = "close" /\ call.cursor # Null /\ call \in Call
      /\ Level > 0 /\ Level \in Nat /\ Level \in 1..Level
  BY ScopeTyped DEF CloseEntry, Inductive, TypeOK, WalkCovers
<1>r. PICK c \in Nat, top \in Nat : c = call.cursor /\ top = Level
  BY <1>1 DEF Call
<1>2. c \in Declared(top) /\ (\A e \in Declared(top) : e <= c) /\ c \in live
      /\ mem[c].level = top
  BY <1>1, <1>r DEF Inductive, ScopeListsOrdered, ScopeHead, IsNewest, Declared
<1>3. \A e \in live : e <= c /\ e \in Nat /\ e # Null /\ e \in 1..Len(mem)
  <2> SUFFICES ASSUME NEW e \in live, ~(e <= c) PROVE FALSE
    BY LiveTyped DEF Inductive
  <2>1. e \in Nat /\ c < e /\ mem[e].level \in 1..Level /\ mem[c].level <= mem[e].level
    BY <1>2, LiveTyped DEF Inductive, LevelsGrow
  <2>2. mem[e].level = top
    BY <1>1, <1>2, <1>r, <2>1
  <2> QED
    BY <1>2, <2>1, <2>2 DEF Declared
<1>4. /\ mem[c].id \in Names /\ Hash[mem[c].id] \in Buckets
      /\ mem[c].nextInHashTable \in Nat /\ mem[c].nextInScope \in Nat
      /\ c \in 1..Len(mem) /\ mem \in Seq(Entry)
  BY <1>2, LiveTyped DEF Inductive, TypeOK
<1>4a. PICK h \in Buckets : h = Hash[mem[c].id]
  BY <1>4
<1>5. /\ hashTable' = [hashTable EXCEPT ![h] = mem[c].nextInHashTable]
      /\ live' = live \ {c} /\ mem' = [mem EXCEPT ![c] = Freed]
      /\ call' = MovedTo(mem[c].nextInScope)
      /\ UNCHANGED <<scopes, reply>>
  BY <1>r, <1>4a DEF CloseEntry
<1>6. /\ call' \in Call /\ call'.op = "close" /\ call'.cursor = mem[c].nextInScope
      /\ Level' = top
  BY <1>1, <1>4, <1>5, <1>r DEF MovedTo, Call, Level
<1>7. /\ mem' \in Seq(Entry) /\ Len(mem') = Len(mem)
      /\ \A e \in live' : /\ mem'[e] = mem[e] /\ e \in live /\ e # c /\ e < c
                          /\ e \in Nat
  BY <1>3, <1>4, <1>5, ConstantsTyped
<1>8. TypeOK'
  BY <1>3, <1>4, <1>5, <1>6, <1>7 DEF Inductive, TypeOK
<1>9. ChainsOrdered'
  <2>1. \A b : InBucket(b)' = InBucket(b) \ {c}
    BY <1>5, <1>7 DEF InBucket
  <2>2. InBucket(h)' = OlderThan(c, InBucket(h))
    BY <1>3, <2>1 DEF OlderThan, InBucket
  <2>3. \A b \in Buckets : b # h => InBucket(b)' = InBucket(b)
    BY <1>4a, <2>1 DEF InBucket
  <2>4. hashTable'[h] = mem[c].nextInHashTable
        /\ \A b \in Buckets : b # h => hashTable'[b] = hashTable[b]
    BY <1>5 DEF Inductive, TypeOK
  <2>5. ASSUME NEW b \in Buckets PROVE IsNewest(hashTable'[b], InBucket(b)')
    <3>1. CASE b = h
      BY <1>2, <1>4a, <2>2, <2>4, <3>1 DEF Inductive, ChainsOrdered, IsNewest
    <3>2. CASE b # h
      BY <2>3, <2>4, <3>2 DEF Inductive, ChainsOrdered
    <3> QED
      BY <3>1, <3>2
  <2>6. ASSUME NEW e \in live'
        PROVE  IsNewest(mem[e].nextInHashTable,
                        OlderThan(e, InBucket(Hash[mem[e].id])))'
    <3>1. PICK b \in Buckets : b = Hash[mem[e].id]
      BY <1>7, LiveTyped DEF Inductive
    <3>2. OlderThan(e, InBucket(b)') = OlderThan(e, InBucket(b))
      BY <1>7, <2>1 DEF OlderThan
    <3>3. IsNewest(mem'[e].nextInHashTable, OlderThan(e, InBucket(b)'))
      BY <1>7, <3>1, <3>2 DEF Inductive, ChainsOrdered
    <3> QED
      BY <1>7, <3>1, <3>3 DEF IsNewest, OlderThan, InBucket
  <2> QED
    BY <2>5, <2>6 DEF ChainsOrdered, IsNewest
<1>10. ScopeListsOrdered'
  <2>1. \A l : Declared(l)' = Declared(l) \ {c}
    BY <1>5, <1>7 DEF Declared
  <2>2. Declared(top)' = OlderThan(c, Declared(top))
    <3>1. \A x \in Declared(top) : x \in Nat /\ x <= c
      BY <1>3 DEF Declared
    <3> QED
      BY <2>1, <3>1 DEF OlderThan
  <2>3. \A l \in 1..top : l # top => Declared(l)' = Declared(l)
    BY <1>2, <2>1 DEF Declared
  <2>4. ASSUME NEW l \in 1..top PROVE IsNewest(ScopeHead(l), Declared(l))'
    <3>1. CASE l = top
      BY <1>2, <1>6, <2>2, <3>1
      DEF ScopeHead, Inductive, ScopeListsOrdered, IsNewest
    <3>2. CASE l # top
      BY <1>5, <1>6, <1>r, <2>3, <3>2
      DEF ScopeHead, Inductive, ScopeListsOrdered, IsNewest
    <3> QED
      BY <3>1, <3>2
  <2>5. ASSUME NEW e \in live'
        PROVE  IsNewest(mem[e].nextInScope, OlderThan(e, Declared(mem[e].level)))'
    <3>1. PICK l \in Nat : l = mem[e].level
      BY <1>7, LiveTyped DEF Inductive
    <3>2. OlderThan(e, Declared(l)') = OlderThan(e, Declared(l))
      BY <1>7, <2>1 DEF OlderThan
    <3>3. IsNewest(mem'[e].nextInScope, OlderThan(e, Declared(l)'))
      BY <1>7, <3>1, <3>2 DEF Inductive, ScopeListsOrdered
    <3> QED
      BY <1>7, <3>1, <3>3 DEF IsNewest, OlderThan, Declared
  <2> QED
    BY <1>6, <2>4, <2>5 DEF ScopeListsOrdered
<1>11. LevelsGrow' /\ UniquePerScope'
  BY <1>6, <1>7, <1>r, SMTT(20) DEF Inductive, LevelsGrow, UniquePerScope
<1>12. WalkCovers' /\ FunctionOfCall' /\ NoInternalError'
  BY <1>1, <1>6, <1>r DEF WalkCovers, FunctionOfCall, NoInternalError, Looking, Declaring
<1>13. /\ \A l \in 1..top : BeingDeclared(l)' <=> BeingDeclared(l)
       /\ \A l \in 1..top : BeingDeclared(l) => l < top
  BY <1>1, <1>5, <1>6, <1>r DEF BeingDeclared
<1>14. \A l \in 1..top : BeingDeclared(l) =>
         /\ scopes[l].owner \in live /\ mem[scopes[l].owner].level = l - 1
         /\ scopes[l].owner # c
  BY <1>2, <1>13, <1>r DEF Inductive, OwnersInDefinition, InDefinition
<1>15. OwnersInDefinition'
  BY <1>5, <1>6, <1>7, <1>13, <1>14, <1>r
  DEF Inductive, OwnersInDefinition, InDefinition
<1>16. ArgumentsInOrder'
  <2>1. \A l \in 1..top : l < top => Parameters(l)' = Parameters(l)
    BY <1>2, <1>5, <1>7 DEF Parameters
  <2>2. \A l \in 1..top : l < top => \A e \in Parameters(l) : mem'[e] = mem[e]
    BY <1>2, <1>5, <1>7 DEF Parameters
  <2>3. \A l \in 1..top : BeingDeclared(l) => mem'[scopes[l].owner] = mem[scopes[l].owner]
    BY <1>5, <1>7, <1>14
  <2> QED
    BY <1>5, <1>6, <1>13, <1>r, <2>1, <2>2, <2>3
    DEF Inductive, ArgumentsInOrder, ArgumentsOf
<1>17. NoArgumentsBefore'
  BY <1>5, <1>6, <1>7, <1>13, <1>r DEF Inductive, NoArgumentsBefore, InDefinition
<1> QED
  BY <1>8, <1>9, <1>10, <1>11, <1>12, <1>15, <1>16, <1>17 DEF Inductive

LEMMA CloseDoneKeeps ==
  ASSUME Inductive, CloseDone  PROVE Inductive'
<1>1. /\ call.op = "close" /\ call.cursor = Null
      /\ Level > 0 /\ Level \in Nat /\ Level \in 1..Level
      /\ scopes' = SubSeq(scopes, 1, Level - 1) /\ call' = CallAt("none", AnyName, Null)
      /\ UNCHANGED <<mem, live, hashTable, reply>>
  BY ScopeTyped DEF CloseDone, Inductive, WalkCovers, Returned
<1>r. PICK top \in Nat, low \in Nat : top = Level /\ low = top - 1
  BY <1>1
<1>2. /\ scopes' \in Seq(Scope) /\ Level' = low
      /\ \A l \in 1..low : scopes'[l] = scopes[l] /\ l \in 1..top /\ l # top
  BY <1>1, <1>r DEF Inductive, TypeOK, Level
<1>3. call' \in Call /\ call'.op = "none"
      /\ WalkCovers' /\ FunctionOfCall' /\ NoInternalError'
  BY <1>1, AnyTyped, CallOver
<1>4. TypeOK'
  BY <1>1, <1>2, <1>3 DEF Inductive, TypeOK
<1>5. ChainsOrdered'
  BY <1>1 DEF Inductive, ChainsOrdered, IsNewest, InBucket, OlderThan
<1>6. \A e \in live : mem[e].level \in 1..low
  <2> SUFFICES ASSUME NEW e \in live PROVE mem[e].level \in 1..low
    OBVIOUS
  <2>1. mem[e].level \in 1..top /\ e \in Nat /\ e # Null /\ e > 0
    BY <1>r, LiveTyped DEF Inductive, LevelsGrow, Null
  <2>2. IsNewest(Null, Declared(top))
    BY <1>1, <1>r DEF Inductive, ScopeListsOrdered, ScopeHead
  <2>3. mem[e].level # top
    BY <2>1, <2>2 DEF IsNewest, Declared, Null
  <2> QED
    BY <1>r, <2>1, <2>3
<1>7. LevelsGrow' /\ UniquePerScope'
  BY <1>1, <1>2, <1>6 DEF Inductive, LevelsGrow, UniquePerScope
<1>8. ScopeListsOrdered'
  <2>1. \A l : Declared(l)' = Declared(l)
    BY <1>1 DEF Declared
  <2>2. \A l \in 1..low : ScopeHead(l)' = ScopeHead(l)
    BY <1>2, <1>3, <1>r DEF ScopeHead
  <2>3. \A l \in 1..low : IsNewest(ScopeHead(l), Declared(l))
    BY <1>2, <1>r DEF Inductive, ScopeListsOrdered
  <2> QED
    BY <1>1, <1>2, <2>1, <2>2, <2>3
    DEF Inductive, ScopeListsOrdered, IsNewest, OlderThan
<1>9. \A l \in 1..low : BeingDeclared(l)' <=> BeingDeclared(l)
  BY <1>2, <1>3, <1>r DEF BeingDeclared
<1>10. \A l \in 1..top : BeingDeclared(l) => l \in 1..low
  BY <1>1, <1>r DEF BeingDeclared
<1>11. OwnersInDefinition'
  BY <1>1, <1>2, <1>9, <1>r DEF Inductive, OwnersInDefinition, InDefinition
<1>12. ArgumentsInOrder'
  <2>1. \A l : Parameters(l)' = Parameters(l)
    BY <1>1 DEF Parameters
  <2>2. \A l \in 1..low : BeingDeclared(l) => ArgumentsOf(l)
    BY <1>2, <1>r DEF Inductive, ArgumentsInOrder
  <2> QED
    BY <1>1, <1>2, <1>9, <2>1, <2>2, ZenonT(40) DEF ArgumentsInOrder, ArgumentsOf
<1>13. NoArgumentsBefore'
  <2> SUFFICES ASSUME NEW f \in live, InDefinition(f),
                      \A l \in 1..low : BeingDeclared(l)' => scopes'[l].owner # f
               PROVE  mem[f].firstArgument = Null /\ mem[f].lastArgument = Null
    BY <1>1, <1>2 DEF NoArgumentsBefore, InDefinition
  <2>1. \A l \in 1..top : BeingDeclared(l) => scopes[l].owner # f
    BY <1>2, <1>9, <1>10
  <2> QED
    BY <1>r, <2>1 DEF Inductive, NoArgumentsBefore
<1> QED
  BY <1>3, <1>4, <1>5, <1>7, <1>8, <1>11, <1>12, <1>13 DEF Inductive

-----------------------------------------------------------------------------
(* The theorems.                                                           *)

LEMMA StutterKeeps ==
  ASSUME Inductive, UNCHANGED vars  PROVE Inductive'
<1>1. TypeOK'
  BY DEF vars, Inductive, TypeOK
<1>2. ChainsOrdered'
  BY DEF vars, Inductive, ChainsOrdered, IsNewest, InBucket, OlderThan
<1>3. ScopeListsOrdered'
  BY DEF vars, Inductive, ScopeListsOrdered, IsNewest, OlderThan, Declared,
         ScopeHead, Level
<1>4. LevelsGrow' /\ UniquePerScope'
  BY DEF vars, Inductive, LevelsGrow, UniquePerScope, Level
<1>5. WalkCovers'
  BY DEF vars, Inductive, WalkCovers, Bindings, Level
<1>6. FunctionOfCall' /\ NoInternalError'
  BY DEF vars, Inductive, FunctionOfCall, NoInternalError, InDefinition, Level
<1>7. OwnersInDefinition'
  BY DEF vars, Inductive, OwnersInDefinition, BeingDeclared, InDefinition, Level
<1>8. ArgumentsInOrder'
  BY DEF vars, Inductive, ArgumentsInOrder, BeingDeclared, ArgumentsOf,
         Parameters, Level
<1>9. NoArgumentsBefore'
  BY DEF vars, Inductive, NoArgumentsBefore, BeingDeclared, InDefinition, Level
<1> QED
  BY <1>1, <1>2, <1>3, <1>4, <1>5, <1>6, <1>7, <1>8, <1>9 DEF Inductive

LEMMA StepKeeps ==
  ASSUME Inductive, [Next]_vars  PROVE Inductive'
<1>1. CASE Start
  BY <1>1, OpenScopeKeeps, CloseScopeKeeps, EndDeclKeeps, LookupKeeps,
     BindKeeps, NewParameterKeeps, NewEntryKeeps, DeclKeeps DEF Start
<1>2. CASE Continue
  BY <1>2, WalkChainKeeps, LookupDoneKeeps, BindDoneKeeps, DeclDoneKeeps,
     DuplicateEntryKeeps, InsertEntryKeeps, InsertParameterKeeps,
     CloseEntryKeeps, CloseDoneKeeps DEF Continue
<1>3. CASE UNCHANGED vars
  BY <1>3, StutterKeeps
<1> QED
  BY <1>1, <1>2, <1>3 DEF Next

\* Every step keeps all buckets and all scope lists complete and ordered.
THEOREM InductiveInvariant == Spec => []Inductive
<1>1. Init => Inductive
  BY InitInductive
<1>2. Inductive /\ [Next]_vars => Inductive'
  BY StepKeeps
<1> QED
  BY <1>1, <1>2, PTL DEF Spec

\* The table never holds anything but entries, scopes and addresses.
THEOREM TypeCorrect == Spec => []TypeOK
<1>1. Inductive => TypeOK
  BY DEF Inductive
<1> QED
  BY <1>1, InductiveInvariant, PTL

\* The invariant leaves a lookup only one entry to return.
LEMMA InnermostFound ==
  ASSUME Inductive  PROVE InnermostWins
<1> DEFINE c == call.cursor
<1>1. \A e \in Bindings(call.name) :
        e \in live /\ e \in Nat /\ e # 0 /\ mem[e].id = call.name
  BY LiveTyped DEF Bindings, Inductive, Null
<1>2. ASSUME Missing PROVE Bindings(call.name) = {}
  BY <1>1, <1>2 DEF Missing, Inductive, WalkCovers, Null
<1>3. ASSUME Found, NEW e \in Bindings(call.name), e # c
      PROVE  mem[e].level < mem[c].level
  <2>1. c \in live /\ c \in Nat /\ e <= c /\ mem[c].id = call.name
    BY <1>3, LiveTyped DEF Found, Inductive, WalkCovers
  <2>2. /\ mem[e].level \in Nat /\ mem[c].level \in Nat
        /\ mem[e].level <= mem[c].level
    BY <1>1, <1>3, <2>1, LiveTyped DEF Inductive, LevelsGrow
  <2>3. mem[e].level # mem[c].level
    BY <1>1, <1>3, <2>1 DEF Inductive, UniquePerScope
  <2> QED
    BY <2>2, <2>3
<1>4. Found => c \in live
  BY DEF Found, Inductive, WalkCovers
<1> QED
  BY <1>2, <1>3, <1>4 DEF InnermostWins

\* Lexical scoping: lookupEntry() returns the innermost live entry of a name,
\* though it compares no levels.
THEOREM LookupIsLexical == Spec => []InnermostWins
<1>1. Inductive => InnermostWins
  BY InnermostFound
<1> QED
  BY <1>1, InductiveInvariant, PTL

\* A scope never has two entries of one name.
THEOREM NamesUniquePerScope == Spec => []UniquePerScope
<1>1. Inductive => UniquePerScope
  BY DEF Inductive
<1> QED
  BY <1>1, InductiveInvariant, PTL

\* closeScope() leaves no pointer to what it deleted.
THEOREM DeletesNothingInUse == Spec => []NoDangling
<1>1. ASSUME Inductive PROVE NoDangling
  <2>1. \A b \in Buckets : hashTable[b] \in live \cup {Null}
    BY <1>1 DEF Inductive, ChainsOrdered, IsNewest, InBucket
  <2>2. \A l \in 1..Level :
          (call.op = "close" /\ l = Level) \/ scopes[l].entries \in live \cup {Null}
    BY <1>1 DEF Inductive, ScopeListsOrdered, ScopeHead, IsNewest, Declared
  <2>3. \A e \in live : /\ mem[e].nextInHashTable \in live \cup {Null}
                        /\ mem[e].nextInScope \in live \cup {Null}
    BY <1>1 DEF Inductive, ChainsOrdered, ScopeListsOrdered, IsNewest, InBucket,
                OlderThan, Declared
  <2>4. call.cursor \in live \cup {Null}
    <3>1. CASE call.op \in Looking
      BY <1>1, <3>1 DEF Inductive, WalkCovers
    <3>2. CASE call.op = "close"
      BY <1>1, <3>2, ScopeTyped
      DEF Inductive, WalkCovers, ScopeListsOrdered, ScopeHead, IsNewest, Declared
    <3>3. CASE call.op \notin Looking \cup {"close"}
      BY <1>1, <3>3 DEF Inductive, WalkCovers
    <3> QED
      BY <3>1, <3>2, <3>3
  <2> QED
    BY <2>1, <2>2, <2>3, <2>4 DEF NoDangling
<1> QED
  BY <1>1, InductiveInvariant, PTL

\* decl() looks its function up by name and gets the entry that sem() made.
THEOREM DeclFindsItsOwn == Spec => []DeclFindsItsFunction
<1>1. Inductive => DeclFindsItsFunction
  BY DeclFinds
<1> QED
  BY <1>1, InductiveInvariant, PTL

\* newParameter() and endFunctionDef() never meet the states that they reject.
THEOREM InternalErrorsUnreachable == Spec => []NoInternalError
<1>1. Inductive => NoInternalError
  BY DEF Inductive
<1> QED
  BY <1>1, InductiveInvariant, PTL

\* The argument list of a function holds its parameters in their order.
THEOREM ArgumentListsInOrder == Spec => []ArgumentsInOrder
<1>1. Inductive => ArgumentsInOrder
  BY DEF Inductive
<1> QED
  BY <1>1, InductiveInvariant, PTL

-----------------------------------------------------------------------------
(* The table implements ScopedEnv.                                         *)

\* The variables of ScopedEnv, as SymbolTable instantiates them.
Env == [l \in 1..OpenDepth |-> ScopeMap(l)]

\* The error of a call that ends the compiler.
Error == IF call.op \in Exits THEN <<call.op, call.name>> ELSE <<>>

-----------------------------------------------------------------------------
(* Sets of entries as maps.                                                *)

\* What the entries in S map, if they are as in heap m.
MapIn(m, S) ==
  [n \in {m[e].id : e \in S} |-> m[CHOOSE e \in S : m[e].id = n].type]

\* The map of a scope, as SymbolTable writes it.
LEMMA ScopeMapIs ==
  ASSUME NEW l  PROVE ScopeMap(l) = MapIn(mem, Declared(l))
BY DEF ScopeMap, MapIn

\* The names of a scope have one entry each.
OneEach(m, S) == \A e, f \in S : m[e].id = m[f].id => e = f

\* A map has the types of its entries.
LEMMA MapInValue ==
  ASSUME NEW m, NEW S, OneEach(m, S), NEW e \in S
  PROVE  /\ m[e].id \in DOMAIN MapIn(m, S)
         /\ MapIn(m, S)[m[e].id] = m[e].type
<1> DEFINE c == CHOOSE x \in S : m[x].id = m[e].id
<1>1. c \in S /\ m[c].id = m[e].id
  OBVIOUS
<1>2. c = e
  BY <1>1 DEF OneEach
<1>3. m[e].id \in {m[x].id : x \in S}
  OBVIOUS
<1>4. MapIn(m, S)[m[e].id] = m[c].type
  BY <1>3 DEF MapIn
<1> QED
  BY <1>2, <1>3, <1>4 DEF MapIn

\* Only names and types matter.
LEMMA MapInSame ==
  ASSUME NEW m, NEW w, NEW S, OneEach(m, S),
         \A e \in S : w[e].id = m[e].id /\ w[e].type = m[e].type
  PROVE  MapIn(w, S) = MapIn(m, S)
<1>1. OneEach(w, S)
  BY DEF OneEach
<1>2. DOMAIN MapIn(w, S) = DOMAIN MapIn(m, S)
  BY DEF MapIn
<1>3. ASSUME NEW n \in DOMAIN MapIn(m, S) PROVE MapIn(w, S)[n] = MapIn(m, S)[n]
  <2>1. PICK e \in S : n = m[e].id
    BY DEF MapIn
  <2> QED
    BY <1>1, <2>1, MapInValue
<1> QED
  BY <1>2, <1>3 DEF MapIn

\* An entry more is a name more.
LEMMA MapInMore ==
  ASSUME NEW m, NEW w, NEW S, NEW p, OneEach(m, S), p \notin S,
         \A e \in S : w[e].id = m[e].id /\ w[e].type = m[e].type,
         w[p].id \notin DOMAIN MapIn(m, S)
  PROVE  MapIn(w, S \cup {p}) = Abstract!Binding(MapIn(m, S), w[p].id, w[p].type)
<1> DEFINE T == S \cup {p}
           new == Abstract!Binding(MapIn(m, S), w[p].id, w[p].type)
<1>1. \A e \in S : m[e].id \in DOMAIN MapIn(m, S) /\ m[e].id # w[p].id
  BY DEF MapIn
<1>2. OneEach(w, T)
  BY <1>1 DEF OneEach
<1>3. DOMAIN MapIn(w, T) = (DOMAIN MapIn(m, S)) \cup {w[p].id}
  BY DEF MapIn
<1>4. /\ DOMAIN new = (DOMAIN MapIn(m, S)) \cup {w[p].id}
      /\ \A n \in DOMAIN new :
           new[n] = IF n = w[p].id THEN w[p].type ELSE MapIn(m, S)[n]
  BY DEF Abstract!Binding
<1>5. ASSUME NEW n \in DOMAIN new PROVE MapIn(w, T)[n] = new[n]
  <2>1. CASE n = w[p].id
    BY <1>2, <1>4, <2>1, MapInValue
  <2>2. CASE n # w[p].id
    <3>1. PICK e \in S : n = m[e].id
      BY <1>4, <1>5, <2>2 DEF MapIn
    <3>2. MapIn(m, S)[n] = m[e].type
      BY <3>1, MapInValue
    <3>3. MapIn(w, T)[n] = w[e].type
      BY <1>2, <3>1, MapInValue
    <3> QED
      BY <1>4, <2>2, <3>1, <3>2, <3>3
  <2> QED
    BY <2>1, <2>2
<1>6. new = [n \in DOMAIN new |-> new[n]]
  BY DEF Abstract!Binding
<1>7. MapIn(w, T) = [n \in DOMAIN MapIn(w, T) |-> MapIn(w, T)[n]]
  BY DEF MapIn
<1> HIDE DEF new
<1> QED
  BY <1>3, <1>4, <1>5, <1>6, <1>7 DEF new

\* Another type for an entry is another value for its name.
LEMMA MapInOther ==
  ASSUME NEW m, NEW w, NEW S, NEW p \in S, OneEach(m, S),
         \A e \in S : w[e].id = m[e].id,
         \A e \in S : e # p => w[e].type = m[e].type
  PROVE  MapIn(w, S) = Abstract!Binding(MapIn(m, S), m[p].id, w[p].type)
<1> DEFINE new == Abstract!Binding(MapIn(m, S), m[p].id, w[p].type)
<1>2. OneEach(w, S)
  BY DEF OneEach
<1>3. DOMAIN MapIn(w, S) = (DOMAIN MapIn(m, S)) \cup {m[p].id}
  BY DEF MapIn
<1>4. /\ DOMAIN new = (DOMAIN MapIn(m, S)) \cup {m[p].id}
      /\ \A n \in DOMAIN new :
           new[n] = IF n = m[p].id THEN w[p].type ELSE MapIn(m, S)[n]
  BY DEF Abstract!Binding
<1>5. ASSUME NEW n \in DOMAIN new PROVE MapIn(w, S)[n] = new[n]
  <2>1. PICK e \in S : n = m[e].id
    BY <1>4, <1>5 DEF MapIn
  <2>2. MapIn(m, S)[n] = m[e].type /\ MapIn(w, S)[n] = w[e].type
    BY <1>2, <2>1, MapInValue
  <2> QED
    BY <1>4, <2>1, <2>2 DEF OneEach
<1>6. new = [n \in DOMAIN new |-> new[n]]
  BY DEF Abstract!Binding
<1>7. MapIn(w, S) = [n \in DOMAIN MapIn(w, S) |-> MapIn(w, S)[n]]
  BY DEF MapIn
<1> HIDE DEF new
<1> QED
  BY <1>3, <1>4, <1>5, <1>6, <1>7 DEF new

-----------------------------------------------------------------------------
(* The stack.                                                              *)

\* The maps are those of the entries, and what ScopedEnv asks of the stack is
\* asked of the live entries.
LEMMA EnvIs ==
  ASSUME Inductive
  PROVE  /\ OpenDepth \in Nat
         /\ Len(Env) = OpenDepth
         /\ \A l \in 1..OpenDepth :
              /\ Env[l] = MapIn(mem, Declared(l)) /\ OneEach(mem, Declared(l))
              /\ DOMAIN Env[l] = {mem[e].id : e \in Declared(l)}
         /\ call.op \in Looking => OpenDepth = Level
<1>1. OpenDepth \in Nat
  BY ScopeTyped DEF Inductive, OpenDepth, WalkCovers
<1>2. Len(Env) = OpenDepth
  BY <1>1 DEF Env
<1>3. ASSUME NEW l \in 1..OpenDepth
      PROVE  /\ Env[l] = MapIn(mem, Declared(l)) /\ OneEach(mem, Declared(l))
             /\ DOMAIN Env[l] = {mem[e].id : e \in Declared(l)}
  BY ScopeMapIs DEF Env, Inductive, UniquePerScope, OneEach, Declared, MapIn
<1>4. call.op \in Looking => OpenDepth = Level
  BY DEF OpenDepth, Looking, Declaring
<1> QED
  BY <1>1, <1>2, <1>3, <1>4

\* The maps after a step.
LEMMA EnvNext ==
  ASSUME NEW d \in Nat, OpenDepth' = d
  PROVE  /\ Env' = [l \in 1..d |-> MapIn(mem', Declared(l)')]
         /\ Len(Env') = d
<1>1. Env' = [l \in 1..d |-> ScopeMap(l)']
  BY DEF Env
<1>2. \A l : ScopeMap(l)' = MapIn(mem', Declared(l)')
  BY DEF ScopeMap, MapIn, Declared
<1>3. Env' = [l \in 1..d |-> MapIn(mem', Declared(l)')]
  BY <1>1, <1>2
<1> QED
  BY <1>3

\* A step that leaves names and types alone leaves the maps alone.
LEMMA EnvStays ==
  ASSUME Inductive, OpenDepth' = OpenDepth,
         \A l \in 1..OpenDepth :
           /\ Declared(l)' = Declared(l)
           /\ \A e \in Declared(l) : mem'[e].id = mem[e].id /\ mem'[e].type = mem[e].type
  PROVE  Env' = Env
<1>1. PICK d \in Nat : d = OpenDepth /\ OpenDepth' = d
  BY EnvIs
<1>2. Env' = [l \in 1..d |-> MapIn(mem', Declared(l)')]
  BY <1>1, EnvNext
<1>3. ASSUME NEW l \in 1..d PROVE MapIn(mem', Declared(l)') = MapIn(mem, Declared(l))
  BY <1>1, EnvIs, MapInSame
<1>4. Env = [l \in 1..d |-> MapIn(mem, Declared(l))]
  BY <1>1, ScopeMapIs DEF Env
<1> QED
  BY <1>2, <1>3, <1>4

-----------------------------------------------------------------------------
(* The steps of ScopedEnv, said of Env and Error.                          *)

\* What is not an error of the table is none of ScopedEnv.
LEMMA NoError == call.op \notin Exits => Error = <<>>
BY DEF Error

\* A step of the table that ScopedEnv does not see.
Unseen == Env' = Env /\ reply' = reply /\ Error' = Error

\* Steps that the abstract table does not see are stutters of it.
LEMMA Stutters ==
  ASSUME Unseen  PROVE UNCHANGED Abstract!vars
BY DEF Unseen, Abstract!vars, Env, Error

\* A new empty map on top is Enter,
LEMMA Enters ==
  ASSUME Error = <<>>, Error' = <<>>, reply' = reply,
         Env' = Append(Env, [n \in {} |-> n])
  PROVE  Abstract!Next
BY DEF Abstract!Next, Abstract!Enter, Env, Error

\* the top map gone is Leave,
LEMMA Leaves ==
  ASSUME Error = <<>>, Error' = <<>>, reply' = reply, Env # <<>>,
         Env' = SubSeq(Env, 1, Len(Env) - 1)
  PROVE  Abstract!Next
BY DEF Abstract!Next, Abstract!Leave, Abstract!Depth, Env, Error

\* a name added to the top map is Declare,
LEMMA Declares ==
  ASSUME Error = <<>>, Error' = <<>>, reply' = reply, Env # <<>>,
         NEW n \in Names, NEW t \in Types, n \notin DOMAIN Env[Len(Env)],
         Env' = [Env EXCEPT ![Len(Env)] = Abstract!Binding(@, n, t)]
  PROVE  Abstract!Next
BY DEF Abstract!Next, Abstract!Declare, Abstract!Depth, Env, Error

\* l is the deepest of the maps that have n.
Deepest(l, n) ==
  /\ l \in 1..Len(Env) /\ n \in DOMAIN Env[l]
  /\ \A k \in 1..Len(Env) : n \in DOMAIN Env[k] => k <= l

\* a new type for the innermost binding of a name is Rebind,
LEMMA Rebinds ==
  ASSUME Error = <<>>, Error' = <<>>, reply' = reply,
         NEW n \in Names, NEW t \in Types, NEW l, Deepest(l, n),
         Env' = [Env EXCEPT ![l] = Abstract!Binding(@, n, t)]
  PROVE  Abstract!Next
BY DEF Abstract!Next, Abstract!Rebind, Abstract!IsInnermost, Abstract!Binders,
       Abstract!Depth, Deepest, Env, Error

\* a reply with the type of the innermost binding is Find,
LEMMA Finds ==
  ASSUME Error = <<>>, Error' = <<>>, Env' = Env,
         NEW n \in Names, NEW l, Deepest(l, n),
         reply' = [name |-> n, type |-> Env[l][n]]
  PROVE  Abstract!Next
BY DEF Abstract!Next, Abstract!Find, Abstract!IsInnermost, Abstract!Binders,
       Abstract!Depth, Deepest, Env, Error

\* an error for a name that the top map has is Duplicate,
LEMMA Duplicates ==
  ASSUME Error = <<>>, NEW n \in Names, Error' = <<"duplicate", n>>,
         Env' = Env, reply' = reply, Env # <<>>, n \in DOMAIN Env[Len(Env)]
  PROVE  Abstract!Next
BY DEF Abstract!Next, Abstract!Duplicate, Abstract!Depth, Env, Error

\* and one for a name that no map has is Unknown.
LEMMA Unknowns ==
  ASSUME Error = <<>>, NEW n \in Names, Error' = <<"unknown", n>>,
         Env' = Env, reply' = reply,
         \A k \in 1..Len(Env) : n \notin DOMAIN Env[k]
  PROVE  Abstract!Next
BY DEF Abstract!Next, Abstract!Unknown, Abstract!Binders, Abstract!Depth, Env, Error

-----------------------------------------------------------------------------
(* The steps of the table.                                                 *)

\* A step of the call that ends in no error and leaves the table alone.
LEMMA CallMoves ==
  ASSUME Inductive, call.op \notin Exits \cup {"close"},
         call'.op \notin Exits \cup {"close"},
         UNCHANGED <<mem, live, scopes, reply>>
  PROVE  Unseen
<1>1. OpenDepth' = OpenDepth
  BY DEF OpenDepth, Level
<1>2. \A l : Declared(l)' = Declared(l)
  BY DEF Declared
<1>3. Env' = Env
  BY <1>1, <1>2, EnvStays
<1> QED
  BY <1>3 DEF Unseen, Error

\* The calls start, and a lookup walks along its chain, unseen.
LEMMA StartsUnseen ==
  ASSUME Inductive, Inductive',
         \/ \E n \in Names : Lookup(n)
         \/ \E n \in Names, t \in Types :
              \/ Bind(n, t) \/ NewParameter(n, t)
              \/ \E op \in {"variable", "function"} : NewEntry(op, n, t)
         \/ \E f \in live : Decl(f)
         \/ WalkChain
  PROVE  Unseen
<1>1. call.op \notin Exits \cup {"close"} /\ UNCHANGED <<mem, live, scopes, reply>>
  BY DEF Lookup, Bind, NewParameter, NewEntry, Decl, WalkChain, Idle, Exits,
         Looking, Declaring
<1>2. call'.op \notin Exits \cup {"close"}
  <2>1. ASSUME NEW n \in Names, NEW t \in Types, NewParameter(n, t)
        PROVE call'.op \in {"internal", "fatal", "parameter"}
    BY <2>1 DEF NewParameter, Exited, CallAt, LookFor
  <2>2. call'.op \notin {"internal", "fatal"}
    BY DEF Inductive, NoInternalError
  <2> QED
    BY <2>1, <2>2
    DEF Lookup, Bind, NewEntry, Decl, WalkChain, LookFor, MovedTo, Exits,
        Looking, Declaring
<1> QED
  BY <1>1, <1>2, CallMoves

\* A scope is opened at once.
LEMMA OpensScope ==
  ASSUME Inductive, call.op \in {"none", "decl"}, call'.op = "none",
         NEW s, scopes' = Append(scopes, s), s \in Scope,
         UNCHANGED <<mem, live, reply>>
  PROVE  Abstract!Next
<1>1. PICK d \in Nat : d = Level /\ Level' = d + 1
  BY DEF Inductive, TypeOK, Level
<1>2. OpenDepth = d /\ OpenDepth' = d + 1
  BY <1>1 DEF OpenDepth
<1>3. /\ Env = [l \in 1..d |-> MapIn(mem, Declared(l))]
      /\ Env' = [l \in 1..(d + 1) |-> MapIn(mem', Declared(l)')]
  BY <1>2, EnvNext, ScopeMapIs DEF Env
<1>4. \A l : Declared(l)' = Declared(l) /\ mem' = mem
  BY DEF Declared
<1>5. Declared(d + 1) = {}
  BY <1>1 DEF Inductive, LevelsGrow, Declared
<1>6. MapIn(mem, {}) = [n \in {} |-> n]
  BY DEF MapIn
<1> DEFINE new == [n \in {} |-> n]
<1>7. Env' = Append(Env, new)
  <2>1. \A l \in 1..d : Env'[l] = Env[l] /\ l \in 1..(d + 1)
    BY <1>3, <1>4
  <2>2. Env'[d + 1] = new
    <3>1. Env'[d + 1] = MapIn(mem', Declared(d + 1)')
      BY <1>3
    <3>2. Declared(d + 1)' = {}
      BY <1>5 DEF Declared
    <3> QED
      BY <3>1, <3>2, <1>6, mem' = mem
  <2>3. Len(Env) = d /\ Env = [l \in 1..d |-> Env[l]]
        /\ Env' = [l \in 1..(d + 1) |-> Env'[l]]
    BY <1>3
  <2> HIDE DEF new
  <2> QED
    BY <2>1, <2>2, <2>3
<1>8. Error = <<>> /\ Error' = <<>>
  BY DEF Error, Exits
<1> QED
  BY <1>7, <1>8, Enters

\* A scope is closed with the first step of the call.
LEMMA ClosesScope ==
  ASSUME Inductive, call.op = "none", call'.op = "close", Level > 0,
         UNCHANGED <<live, scopes, reply>>,
         \A e \in live :
           /\ mem'[e].id = mem[e].id /\ mem'[e].type = mem[e].type
           /\ mem'[e].level = mem[e].level
  PROVE  Abstract!Next
<1>1. PICK d \in Nat, low \in Nat :
        d = Level /\ Level' = d /\ low = d - 1 /\ d = low + 1
  BY ScopeTyped DEF Inductive, Level
<1>2. OpenDepth = d /\ OpenDepth' = low
  BY <1>1 DEF OpenDepth
<1>3. /\ Env = [l \in 1..d |-> MapIn(mem, Declared(l))]
      /\ Env' = [l \in 1..low |-> MapIn(mem', Declared(l)')]
  BY <1>2, EnvNext, ScopeMapIs DEF Env
<1>4. \A l : Declared(l)' = Declared(l)
  BY DEF Declared
<1>5. ASSUME NEW l \in 1..low PROVE MapIn(mem', Declared(l)') = MapIn(mem, Declared(l))
  <2>1. OneEach(mem, Declared(l))
    BY <1>1, <1>2, EnvIs
  <2>2. \A e \in Declared(l) : mem'[e].id = mem[e].id /\ mem'[e].type = mem[e].type
    BY DEF Declared
  <2> QED
    BY <1>4, <2>1, <2>2, MapInSame
<1>6. Len(Env) = d /\ Env # <<>>
  BY <1>1, <1>3
<1>7. Env' = SubSeq(Env, 1, Len(Env) - 1)
  BY <1>1, <1>3, <1>5, <1>6
<1>8. Error = <<>> /\ Error' = <<>>
  BY DEF Error, Exits
<1> QED
  BY <1>6, <1>7, <1>8, Leaves

\* What a lookup finds is the binding of the deepest map that has the name.
LEMMA FoundIsDeepest ==
  ASSUME Inductive, Found
  PROVE  /\ call.cursor \in live /\ mem[call.cursor].id = call.name
         /\ Deepest(mem[call.cursor].level, call.name)
         /\ Env[mem[call.cursor].level][call.name] = mem[call.cursor].type
<1> DEFINE c == call.cursor
<1>0. c \in live /\ mem[c].id = call.name /\ call.op \in Looking
  BY InnermostFound DEF Found, InnermostWins
<1>1. PICK l \in 1..Level : l = mem[c].level
  BY <1>0 DEF Inductive, LevelsGrow
<1>2. OpenDepth = Level /\ Len(Env) = Level /\ Level \in Nat
  BY <1>0, EnvIs
<1>3. c \in Declared(l)
  BY <1>0, <1>1 DEF Declared
<1>4. /\ Env[l] = MapIn(mem, Declared(l)) /\ OneEach(mem, Declared(l))
      /\ call.name \in DOMAIN Env[l]
  BY <1>0, <1>1, <1>2, <1>3, EnvIs
<1>5. Env[l][call.name] = mem[c].type
  BY <1>0, <1>3, <1>4, MapInValue
<1>6. ASSUME NEW k \in 1..Level, call.name \in DOMAIN Env[k] PROVE k <= l
  <2>1. PICK e \in Declared(k) : mem[e].id = call.name
    BY <1>2, <1>6, EnvIs
  <2>2. e \in Bindings(call.name) /\ mem[e].level = k
    BY <2>1 DEF Bindings, Declared
  <2>3. e = c \/ mem[e].level < mem[c].level
    BY <2>2, InnermostFound DEF InnermostWins
  <2> QED
    BY <1>1, <1>2, <2>2, <2>3
<1> QED
  BY <1>0, <1>1, <1>2, <1>4, <1>5, <1>6 DEF Deepest

\* What a lookup misses is in no map.
LEMMA MissingIsUnbound ==
  ASSUME Inductive, Missing
  PROVE  \A k \in 1..Len(Env) : call.name \notin DOMAIN Env[k]
<1>1. Bindings(call.name) = {} /\ Len(Env) = OpenDepth
  BY InnermostFound, EnvIs DEF InnermostWins
<1>2. \A k \in 1..OpenDepth : DOMAIN Env[k] = {mem[e].id : e \in Declared(k)}
  BY EnvIs
<1>3. \A k : \A e \in Declared(k) : mem[e].id # call.name
  BY <1>1 DEF Bindings, Declared
<1> QED
  BY <1>1, <1>2, <1>3

\* A use of a name finds its innermost binding, or ends in an error.
LEMMA LookupDoneFinds ==
  ASSUME Inductive, LookupDone  PROVE Abstract!Next
<1>1. call.op = "lookup" /\ UNCHANGED <<mem, live, scopes>>
      /\ call.name \in Names /\ Error = <<>>
  BY DEF LookupDone, Inductive, TypeOK, Call, Error, Exits
<1>2. call'.op \in {"none", "unknown"}
  BY DEF LookupDone, Returned, Exited, CallAt
<1>3. Env' = Env
  BY <1>1, <1>2, EnvStays DEF OpenDepth, Level, Declared
<1>4. CASE Found
  <2>1. /\ reply' = [name |-> call.name, type |-> mem[call.cursor].type]
        /\ Error' = <<>>
    BY <1>4 DEF LookupDone, Found, Missing, Returned, CallAt, Error, Exits
  <2> QED
    BY <1>1, <1>3, <1>4, <2>1, FoundIsDeepest, Finds
<1>5. CASE Missing
  <2>1. reply' = reply /\ Error' = <<"unknown", call.name>>
    BY <1>5 DEF LookupDone, Found, Missing, Exited, CallAt, Error, Exits
  <2> QED
    BY <1>1, <1>3, <1>5, <2>1, MissingIsUnbound, Unknowns
<1> QED
  BY <1>4, <1>5 DEF LookupDone

\* The last loop of DefBlock::codegen() overwrites the innermost binding, or
\* goes on to make one.
LEMMA BindDoneRebinds ==
  ASSUME Inductive, BindDone  PROVE Abstract!Next \/ Unseen
<1> DEFINE p == call.cursor
<1>1. /\ call.op = "bind" /\ UNCHANGED <<live, scopes, reply>>
      /\ call.name \in Names /\ call.type \in Types
  BY DEF BindDone, Inductive, TypeOK, Call
<1>2. CASE Found
  <2>1. /\ mem' = [mem EXCEPT ![p].type = call.type]
        /\ call'.op = "none"
    BY <1>2 DEF BindDone, Returned, CallAt, Found, Missing
  <2>2. /\ p \in live /\ mem[p] \in Entry /\ mem[p].id = call.name
        /\ \A e \in live : e \in 1..Len(mem)
    BY <1>2, LiveTyped, FoundIsDeepest DEF Inductive
  <2> DEFINE w == [mem[p] EXCEPT !.type = call.type]
  <2>3. /\ w.id = mem[p].id /\ w.level = mem[p].level /\ w.type = call.type
        /\ mem' = [mem EXCEPT ![p] = w]
    BY <2>1, <2>2 DEF Entry
  <2> HIDE DEF w
  <2>4. /\ mem'[p].type = call.type
        /\ \A e \in live :
             /\ mem'[e].id = mem[e].id /\ mem'[e].level = mem[e].level
             /\ e # p => mem'[e] = mem[e]
    <3>1. mem \in Seq(Entry)
      BY DEF Inductive, TypeOK
    <3>2. mem'[p] = w /\ \A e \in live : e # p => mem'[e] = mem[e]
      BY <2>2, <2>3, <3>1
    <3> QED
      BY <2>3, <3>2
  <2>5. PICK d \in Nat, l \in Nat :
          /\ l \in 1..d /\ d = OpenDepth /\ OpenDepth' = d /\ Len(Env) = d /\ l = mem[p].level
          /\ Deepest(l, call.name)
    <3>1. OpenDepth' = OpenDepth
      BY <1>1, <2>1 DEF OpenDepth, Level
    <3> QED
      BY <1>2, <3>1, EnvIs, FoundIsDeepest DEF Deepest
  <2>6. \A k : Declared(k)' = Declared(k)
    BY <1>1, <2>4 DEF Declared
  <2>7. p \in Declared(l)
    BY <2>2, <2>5 DEF Declared
  <2>8. /\ Env = [k \in 1..d |-> MapIn(mem, Declared(k))]
        /\ Env' = [k \in 1..d |-> MapIn(mem', Declared(k)')]
        /\ \A k \in 1..d : OneEach(mem, Declared(k))
    BY <2>5, EnvIs, EnvNext, ScopeMapIs DEF Env
  <2>9. MapIn(mem', Declared(l)')
          = Abstract!Binding(MapIn(mem, Declared(l)), call.name, call.type)
    <3>1. /\ OneEach(mem, Declared(l))
          /\ \A e \in Declared(l) : mem'[e].id = mem[e].id
          /\ \A e \in Declared(l) : e # p => mem'[e].type = mem[e].type
      BY <2>4, <2>5, <2>8 DEF Declared
    <3>2. MapIn(mem', Declared(l))
            = Abstract!Binding(MapIn(mem, Declared(l)), mem[p].id, mem'[p].type)
      BY <2>7, <3>1, MapInOther
    <3> QED
      BY <2>2, <2>4, <2>6, <3>2
  <2>10. ASSUME NEW k \in 1..d, k # l
         PROVE  MapIn(mem', Declared(k)') = MapIn(mem, Declared(k))
    <3>1. \A e \in Declared(k) : e \in live /\ e # p
      BY <2>5, <2>10 DEF Declared
    <3> QED
      BY <2>4, <2>6, <2>8, <3>1, MapInSame
  <2>11. Env' = [Env EXCEPT ![l] = Abstract!Binding(@, call.name, call.type)]
    BY <2>8, <2>9, <2>10
  <2>12. Error = <<>> /\ Error' = <<>>
    BY <1>1, <2>1 DEF Error, Exits
  <2> QED
    BY <1>1, <2>5, <2>11, <2>12, Rebinds
<1>3. CASE Missing
  <2>1. call'.op = "variable" /\ UNCHANGED mem
    BY <1>3 DEF BindDone, LookFor, Found, Missing
  <2> QED
    BY <1>1, <2>1, CallMoves DEF Exits
<1> QED
  BY <1>2, <1>3 DEF BindDone

\* newEntry() rejects a name just if the innermost map has it.
LEMMA DuplicateIsBound ==
  ASSUME Inductive, call.op \in Declaring, Answered
  PROVE  /\ Len(Env) = Level /\ Level \in Nat /\ Level > 0 /\ Env # <<>>
         /\ Duplicate <=> call.name \in DOMAIN Env[Level]
<1>1. /\ Len(Env) = Level /\ OpenDepth = Level /\ Level \in Nat /\ Level > 0
      /\ Env # <<>> /\ Level \in 1..Level
  BY EnvIs DEF Looking, Inductive, WalkCovers
<1>2. ASSUME Duplicate PROVE call.name \in DOMAIN Env[Level]
  BY <1>2, FoundIsDeepest DEF Duplicate, Deepest
<1>3. ASSUME call.name \in DOMAIN Env[Level] PROVE Duplicate
  <2>1. Found
    BY <1>1, <1>3, MissingIsUnbound DEF Answered
  <2>2. mem[call.cursor].level \in 1..Level /\ Level <= mem[call.cursor].level
    BY <1>1, <1>3, <2>1, FoundIsDeepest DEF Deepest
  <2> QED
    BY <1>1, <2>1, <2>2 DEF Duplicate
<1> QED
  BY <1>1, <1>2, <1>3

\* A second declaration is an error.
LEMMA DuplicateEntryReports ==
  ASSUME Inductive, DuplicateEntry  PROVE Abstract!Next
<1>1. /\ call.op \in Declaring /\ call.name \in Names /\ Answered /\ Duplicate
      /\ UNCHANGED <<mem, live, scopes, reply>> /\ call' = Exited("duplicate")
  BY DEF DuplicateEntry, Inductive, TypeOK, Call, Duplicate, Answered
<1>2. /\ Error = <<>> /\ Error' = <<"duplicate", call.name>>
      /\ OpenDepth = Level /\ OpenDepth' = Level
  BY <1>1 DEF Error, Exits, Declaring, Exited, CallAt, OpenDepth, Level
<1>3. Env' = Env
  BY <1>1, <1>2, EnvStays DEF Declared
<1> QED
  BY <1>1, <1>2, <1>3, DuplicateIsBound, Duplicates

\* newEntry() extends the innermost map by the new entry.
LEMMA InsertDeclares ==
  ASSUME Inductive, call.op \in Declaring, Answered, ~Duplicate,
         call'.op = "none", reply' = reply,
         NEW n \in Nat, n = Len(mem) + 1, Link(n),
         mem'[n].id = call.name, mem'[n].type = call.type, mem'[n].level = Level,
         \A e \in live :
           /\ mem'[e].id = mem[e].id /\ mem'[e].type = mem[e].type
           /\ mem'[e].level = mem[e].level
  PROVE  Abstract!Next
<1>1. PICK d \in Nat :
        /\ d = Level /\ Len(Env) = d /\ d > 0 /\ d \in 1..d /\ Env # <<>>
        /\ call.name \notin DOMAIN Env[d]
  BY DuplicateIsBound
<1>2. /\ live' = live \cup {n} /\ Level' = d /\ OpenDepth = d /\ OpenDepth' = d
      /\ n \notin live
      /\ call.name \in Names /\ call.type \in Types
  BY <1>1, LiveTyped DEF Link, Level, OpenDepth, Declaring, Inductive, TypeOK, Call
<1>3. /\ \A l \in 1..d : Env[l] = MapIn(mem, Declared(l)) /\ OneEach(mem, Declared(l))
      /\ Env = [l \in 1..d |-> MapIn(mem, Declared(l))]
      /\ Env' = [l \in 1..d |-> MapIn(mem', Declared(l)')]
  BY <1>2, EnvIs, EnvNext, ScopeMapIs DEF Env
<1>4. /\ n \notin Declared(d) /\ Declared(d)' = Declared(d) \cup {n}
      /\ \A l \in 1..d : l # d => Declared(l)' = Declared(l)
  BY <1>1, <1>2 DEF Declared
<1>5. \A l : \A e \in Declared(l) : mem'[e].id = mem[e].id /\ mem'[e].type = mem[e].type
  BY DEF Declared
<1>6. MapIn(mem', Declared(d)')
        = Abstract!Binding(MapIn(mem, Declared(d)), call.name, call.type)
  <2>1. mem'[n].id \notin DOMAIN MapIn(mem, Declared(d))
    BY <1>1, <1>3
  <2>2. MapIn(mem', Declared(d) \cup {n})
          = Abstract!Binding(MapIn(mem, Declared(d)), mem'[n].id, mem'[n].type)
    BY <1>1, <1>3, <1>4, <1>5, <2>1, MapInMore
  <2> QED
    BY <1>4, <2>2
<1>7. \A l \in 1..d : l # d => MapIn(mem', Declared(l)') = MapIn(mem, Declared(l))
  BY <1>3, <1>4, <1>5, MapInSame
<1>8. Env' = [Env EXCEPT ![Len(Env)] = Abstract!Binding(@, call.name, call.type)]
  BY <1>1, <1>3, <1>6, <1>7
<1>9. Error = <<>> /\ Error' = <<>>
  BY DEF Error, Exits, Declaring
<1> QED
  BY <1>1, <1>2, <1>8, <1>9, Declares

\* newVariable() and newFunction() declare.
LEMMA InsertEntryDeclares ==
  ASSUME Inductive, InsertEntry  PROVE Abstract!Next
<1>1. /\ call.op \in {"variable", "function"} /\ call.op \in Declaring
      /\ Answered /\ ~Duplicate /\ call'.op = "none"
      /\ mem' = Append(mem, FreshEntry) /\ Link(Len(mem) + 1) /\ reply' = reply
  BY DEF InsertEntry, Declaring, Returned, CallAt, Link
<1>2. PICK n \in Nat : n = Len(mem) + 1
  BY DEF Inductive, TypeOK
<1>3. /\ FreshEntry.id = call.name /\ FreshEntry.type = call.type
      /\ FreshEntry.level = Level
  BY DEF FreshEntry
<1>4. mem \in Seq(Entry) /\ \A e \in live : e \in 1..Len(mem)
  BY LiveTyped DEF Inductive, TypeOK
<1>5. mem'[n] = FreshEntry /\ \A e \in live : mem'[e] = mem[e]
  BY <1>1, <1>2, <1>4
<1> QED
  BY <1>1, <1>2, <1>3, <1>5, InsertDeclares

\* The links of an argument list are no part of a map.
LEMMA WithArgumentSays ==
  ASSUME mem \in Seq(Entry), NEW n \in Nat, NEW f \in 1..Len(mem),
         NEW last \in Nat, last = mem[f].lastArgument,
         last # Null => last \in 1..Len(mem)
  PROVE  /\ WithArgument(f, n) \in Seq(Entry) /\ Len(WithArgument(f, n)) = Len(mem)
         /\ \A e \in 1..Len(mem) :
              /\ WithArgument(f, n)[e].id = mem[e].id
              /\ WithArgument(f, n)[e].type = mem[e].type
              /\ WithArgument(f, n)[e].level = mem[e].level
<1> DEFINE Says(x, y) == x.id = y.id /\ x.type = y.type /\ x.level = y.level
<1>1. \A m \in Entry :
        /\ LET w == [m EXCEPT !.firstArgument = n, !.lastArgument = n] IN
             w \in Entry /\ Says(w, m)
        /\ LET w == [m EXCEPT !.lastArgument = n] IN w \in Entry /\ Says(w, m)
        /\ LET w == [m EXCEPT !.nextParam = n] IN w \in Entry /\ Says(w, m)
  BY DEF Entry
<1>0. mem[f] \in Entry /\ (last # Null => mem[last] \in Entry)
  OBVIOUS
<1>2. CASE last = Null
  <2> DEFINE w == [mem[f] EXCEPT !.firstArgument = n, !.lastArgument = n]
  <2>1. w \in Entry /\ Says(w, mem[f])
    BY <1>0, <1>1
  <2>2. WithArgument(f, n) = [mem EXCEPT ![f] = w]
    BY <1>0, <1>2 DEF WithArgument
  <2> HIDE DEF w
  <2> QED
    BY <2>1, <2>2
<1>3. CASE last # Null
  <2> DEFINE v == [mem[last] EXCEPT !.nextParam = n]
             one == [mem EXCEPT ![last] = v]
             w == [one[f] EXCEPT !.lastArgument = n]
  <2>1. v \in Entry /\ Says(v, mem[last])
    BY <1>0, <1>1, <1>3
  <2>2. one \in Seq(Entry) /\ Len(one) = Len(mem)
        /\ \A e \in 1..Len(mem) : one[e] = IF e = last THEN v ELSE mem[e]
    <3> HIDE DEF v
    <3> QED
      BY <1>3, <2>1
  <2>3. w \in Entry /\ Says(w, one[f])
    <3>1. one[f] \in Entry
      BY <2>2
    <3> HIDE DEF one
    <3> QED
      BY <1>1, <3>1
  <2>4. WithArgument(f, n) = [one EXCEPT ![f] = w]
    BY <1>3 DEF WithArgument
  <2> HIDE DEF v, w, one
  <2> QED
    BY <1>3, <2>1, <2>2, <2>3, <2>4
<1> QED
  BY <1>2, <1>3

\* newParameter() declares.
LEMMA InsertParameterDeclares ==
  ASSUME Inductive, Inductive', InsertParameter  PROVE Abstract!Next
<1>1. /\ call.op = "parameter" /\ call.op \in Declaring /\ Answered /\ ~Duplicate
      /\ Level > 0 /\ Level \in 1..Level /\ call.fun # Null
      /\ call.fun = scopes[Level].owner
  BY ScopeTyped
  DEF InsertParameter, Declaring, Inductive, WalkCovers, FunctionOfCall
<1>2. PICK f \in live : f = call.fun /\ f \in 1..Len(mem)
  BY <1>1, LiveTyped
  DEF Inductive, OwnersInDefinition, BeingDeclared, InDefinition
<1>3. PICK n \in Nat, last \in Nat : n = Len(mem) + 1 /\ last = mem[f].lastArgument
  BY <1>2, LiveTyped DEF Inductive, TypeOK
<1> DEFINE m == WithArgument(f, n)
<1>4. /\ last \in live \cup {Null}
      /\ mem' = Append(m, FreshEntry) /\ Link(n)
      /\ call'.op = "none" /\ reply' = reply
  BY <1>2, <1>3
  DEF InsertParameter, Inductive, NoInternalError, Exited, Returned, CallAt, Link
<1>5. /\ mem \in Seq(Entry) /\ \A e \in live : e \in 1..Len(mem)
      /\ last # Null => last \in 1..Len(mem)
  BY <1>4, LiveTyped DEF Inductive, TypeOK
<1>6. /\ m \in Seq(Entry) /\ Len(m) = Len(mem)
      /\ \A e \in live :
           /\ e \in 1..Len(m)
           /\ m[e].id = mem[e].id /\ m[e].type = mem[e].type
           /\ m[e].level = mem[e].level
  BY <1>2, <1>3, <1>5, WithArgumentSays
<1> HIDE DEF m
<1>7. mem'[n] = FreshEntry /\ \A e \in live : mem'[e] = m[e]
  BY <1>1, <1>3, <1>4, <1>6, FreshEntryTyped
<1>8. /\ FreshEntry.id = call.name /\ FreshEntry.type = call.type
      /\ FreshEntry.level = Level
  BY DEF FreshEntry
<1> QED
  BY <1>1, <1>3, <1>4, <1>6, <1>7, <1>8, InsertDeclares

\* closeScope() unlinks what its first step already took out of the stack.
LEMMA CloseEntryUnseen ==
  ASSUME Inductive, CloseEntry  PROVE Unseen
<1> DEFINE c == call.cursor
<1>1. /\ call.op = "close" /\ call'.op = "close" /\ c # Null
      /\ live' = live \ {c} /\ mem' = [mem EXCEPT ![c] = Freed]
      /\ UNCHANGED <<scopes, reply>>
  BY DEF CloseEntry, MovedTo
<1>2. PICK d \in Nat : d = Level /\ d > 0 /\ d \in 1..d
  BY <1>1, ScopeTyped DEF Inductive, WalkCovers
<1>3. c \in live /\ mem[c].level = d
  BY <1>1, <1>2 DEF Inductive, ScopeListsOrdered, ScopeHead, IsNewest, Declared
<1>4. OpenDepth = d - 1 /\ OpenDepth' = OpenDepth
  BY <1>1, <1>2 DEF OpenDepth, Level
<1>5. \A e \in live : e # c => mem'[e] = mem[e]
  BY <1>1, LiveTyped DEF Inductive, TypeOK
<1>6. \A l \in 1..OpenDepth : Declared(l)' = Declared(l) /\ c \notin Declared(l)
  BY <1>1, <1>2, <1>3, <1>4, <1>5 DEF Declared
<1>7. Env' = Env
  BY <1>4, <1>5, <1>6, EnvStays DEF Declared
<1> QED
  BY <1>1, <1>7 DEF Unseen, Error, Exits

\* And so does its end.
LEMMA CloseDoneUnseen ==
  ASSUME Inductive, CloseDone  PROVE Unseen
<1>1. /\ call.op = "close" /\ call'.op = "none" /\ scopes' = SubSeq(scopes, 1, Level - 1)
      /\ UNCHANGED <<mem, live, reply>>
  BY DEF CloseDone, Returned, CallAt
<1>2. PICK d \in Nat, low \in Nat : d = Level /\ low = d - 1 /\ d > 0
  BY <1>1, ScopeTyped DEF Inductive, WalkCovers
<1>3. Level' = low
  BY <1>1, <1>2 DEF Inductive, TypeOK, Level
<1>4. OpenDepth' = OpenDepth
  BY <1>1, <1>2, <1>3 DEF OpenDepth
<1>5. Env' = Env
  BY <1>1, <1>4, EnvStays DEF Declared
<1> QED
  BY <1>1, <1>5 DEF Unseen, Error, Exits

\* OpenScope and decl()'s openScope() enter a scope.
LEMMA Entering ==
  ASSUME Inductive, OpenScope \/ DeclDone  PROVE Abstract!Next
<1>1. /\ call.op \in {"none", "decl"} /\ UNCHANGED <<mem, live, reply>>
      /\ call.op = "decl" => Answered
  BY DEF OpenScope, DeclDone, Idle
<1>2. call.op = "decl" => Found
  BY <1>1, DeclFinds DEF DeclFindsItsFunction, Answered
<1>3. PICK o : /\ scopes' = Append(scopes, [entries |-> Null, owner |-> o])
               /\ o \in Nat /\ call'.op = "none"
  <2>1. CASE OpenScope
    BY <2>1 DEF OpenScope, Idle, Null
  <2>2. CASE DeclDone
    BY <1>2, <2>2 DEF DeclDone, Returned, CallAt, Inductive, TypeOK, Call
  <2> QED
    BY <2>1, <2>2
<1>4. [entries |-> Null, owner |-> o] \in Scope
  BY <1>3 DEF Scope, Null
<1> QED
  BY <1>1, <1>3, <1>4, OpensScope

\* CloseScope and EndDecl leave one.
LEMMA Leaving ==
  ASSUME Inductive, Inductive', CloseScope \/ EndDecl  PROVE Abstract!Next
<1>1. /\ call.op = "none" /\ Level > 0 /\ UNCHANGED <<live, scopes, reply>>
  BY DEF CloseScope, EndDecl, Idle
<1>2. \A m \in Entry : LET w == [m EXCEPT !.status = "complete"] IN
        w.id = m.id /\ w.type = m.type /\ w.level = m.level
  BY DEF Entry
<1>3. /\ call'.op = "close"
      /\ \A e \in live :
           /\ mem'[e].id = mem[e].id /\ mem'[e].type = mem[e].type
           /\ mem'[e].level = mem[e].level
  <2>1. CASE CloseScope
    BY <2>1 DEF CloseScope, CallAt
  <2>2. CASE EndDecl
    <3> DEFINE f == scopes[Level].owner
               w == [mem[f] EXCEPT !.status = "complete"]
    <3>1. call'.op = "close" /\ mem' = [mem EXCEPT ![f] = w]
      BY <2>2 DEF EndDecl, Exited, CallAt, Inductive, NoInternalError
    <3>2. \A e \in live : e \in 1..Len(mem) /\ mem[e] \in Entry
      BY LiveTyped DEF Inductive
    <3>3. \A e \in live : mem'[e] = IF e = f THEN w ELSE mem[e]
      BY <3>1, <3>2 DEF Inductive, TypeOK
    <3> QED
      BY <1>2, <3>1, <3>2, <3>3
  <2> QED
    BY <2>1, <2>2
<1> QED
  BY <1>1, <1>3, ClosesScope

\* Every step of the table is a step of ScopedEnv or none.
LEMMA StepImplements ==
  ASSUME Inductive, Inductive', [Next]_vars
  PROVE  [Abstract!Next]_(Abstract!vars)
<1>1. CASE UNCHANGED vars
  <2>1. Unseen
    BY <1>1, EnvStays DEF vars, Unseen, Error, OpenDepth, Level, Declared
  <2> QED
    BY <2>1, Stutters
<1>2. CASE Start
  BY <1>2, Entering, Leaving, StartsUnseen, Stutters DEF Start
<1>3. CASE Continue
  BY <1>3, StartsUnseen, Stutters, LookupDoneFinds, BindDoneRebinds, Entering,
     DuplicateEntryReports, InsertEntryDeclares, InsertParameterDeclares,
     CloseEntryUnseen, CloseDoneUnseen DEF Continue
<1> QED
  BY <1>1, <1>2, <1>3 DEF Next

\* The table starts as an empty stack.
LEMMA InitImplements == Init => Abstract!Init
<1> SUFFICES ASSUME Init PROVE Abstract!Init
  OBVIOUS
<1>1. OpenDepth = 0 /\ Error = <<>>
  BY DEF Init, OpenDepth, Level, Error, Returned, CallAt, Exits
<1>2. Env = <<>>
  BY <1>1 DEF Env
<1>3. reply \in [name: Names, type: Types]
  BY AnyTyped DEF Init
<1> QED
  BY <1>1, <1>2, <1>3 DEF Abstract!Init, Env, Error

\* The two passes may take the table for a stack of maps: hashing, chains,
\* the steps of the loops and the deletion of entries are not to be seen.
THEOREM TableImplementsEnv == Spec => Implements
<1>1. Init => Abstract!Init
  BY InitImplements
<1>2. Inductive /\ Inductive' /\ [Next]_vars => [Abstract!Next]_(Abstract!vars)
  BY StepImplements
<1> QED
  BY <1>1, <1>2, InductiveInvariant, PTL DEF Spec, Implements, Abstract!Spec
=============================================================================
