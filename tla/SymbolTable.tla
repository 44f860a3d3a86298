---------------------------- MODULE SymbolTable ----------------------------
(***************************************************************************)
(* The symbol table of src/symbol, as the compiler uses it twice: for the  *)
(* types of the semantic pass (symbolTable, 10000 buckets) and for the     *)
(* LLVM values of code generation (LLVMValueStore, 42 buckets).            *)
(*                                                                         *)
(* Entries live in a heap and are linked twice: along the bucket of their  *)
(* hash value, newest first, and along the scope that declared them.       *)
(* closeScope() frees the entries of the scope and, without ever searching *)
(* for a predecessor, makes each bucket start at the successor of the      *)
(* freed entry; that this is right rests on the order of all insertions    *)
(* since the scope was opened, which is what this module is about.         *)
(*                                                                         *)
(* A call is a sequence of steps: each iteration of the loop of            *)
(* lookupEntry() and of closeScope() is an action.  The compiler is        *)
(* sequential, so one call runs at a time; who calls what is left open,    *)
(* up to the discipline of ImmutableDefFunc::decl().                       *)
(***************************************************************************)
EXTENDS Integers, Sequences

CONSTANTS
  Names,       \* identifiers
  Types,       \* what an entry carries: its Type*, or its llvm::Value*
  Buckets,     \* indices of hashTable
  Hash,        \* PJW_hash(name) % hashTableSize
  MaxEntries,  \* bound: entries allocated over a whole behaviour
  MaxDepth     \* bound: scopes open at once

ASSUME HashAssumption == Hash \in [Names -> Buckets]

ASSUME SomeAssumption == Names # {} /\ Types # {}

VARIABLES
  mem,        \* the heap: every entry ever allocated, by address
  live,       \* the addresses not yet deleted
  hashTable,  \* per bucket, the newest entry of its chain
  scopes,     \* the open scopes, currentScope last
  call,       \* the call in progress, and where its loop stands
  reply       \* what the last lookup found

vars == <<mem, live, hashTable, scopes, call, reply>>

\* Address 0 is nullptr.  new never returns an address twice, so that a
\* pointer to a deleted entry is told from a pointer to a later one.
Null == 0

Entry ==
  [id: Names, type: Types, level: Nat \ {0},
   entryType: {"variable", "function", "parameter"},
   nextInHashTable: Nat, nextInScope: Nat,
   status: {"define", "complete"},
   firstArgument: Nat, lastArgument: Nat, nextParam: Nat]

\* owner: the function whose decl() opened the scope, or Null.
Scope == [entries: Nat, owner: Nat]

Declaring == {"variable", "function", "parameter"}

\* The calls that are inside lookupEntry().
Looking == Declaring \cup {"lookup", "bind", "decl"}

\* The reasons to exit: the first two are messages to the user, the others
\* are internal errors and undefined behaviour.
Exits == {"duplicate", "unknown", "internal", "fatal", "dangling"}

Call ==
  [op: Looking \cup {"none", "close"} \cup Exits,
   name: Names, type: Types, fun: Nat, cursor: Nat]

\* The type, or the value, of the last name that was looked up.
Reply == [name: Names, type: Types]

Idle == call.op = "none"

Level == Len(scopes)

\* What is in a place whose content no longer matters.
AnyName == CHOOSE n \in Names : TRUE
AnyType == CHOOSE t \in Types : TRUE

\* A call that needs no type and no function.
CallAt(op, n, p) ==
  [op |-> op, name |-> n, type |-> AnyType, fun |-> Null, cursor |-> p]

\* The call in progress, its loop at entry p.
MovedTo(p) ==
  [op |-> call.op, name |-> call.name, type |-> call.type, fun |-> call.fun,
   cursor |-> p]

\* No call is running: the last one returned, or it ended the program.
Returned == CallAt("none", AnyName, Null)

Exited(why) == CallAt(why, call.name, Null)

\* The memory of an entry after its delete.
Freed ==
  [id |-> AnyName, type |-> AnyType, level |-> 1, entryType |-> "variable",
   nextInHashTable |-> Null, nextInScope |-> Null, status |-> "define",
   firstArgument |-> Null, lastArgument |-> Null, nextParam |-> Null]

-----------------------------------------------------------------------------
(* Starting a call.                                                        *)

\* lookupEntry() starts at the newest entry of the bucket of the name.
LookFor(op, n, t, f) ==
  call' = [op |-> op, name |-> n, type |-> t, fun |-> f,
           cursor |-> hashTable[Hash[n]]]

OpenScope ==
  /\ Idle /\ Level < MaxDepth
  /\ scopes' = Append(scopes, [entries |-> Null, owner |-> Null])
  /\ UNCHANGED <<mem, live, hashTable, call, reply>>

\* closeScope(), up to its loop.
CloseScope ==
  /\ Idle /\ Level > 0
  /\ scopes[Level].owner = Null
  /\ call' = CallAt("close", AnyName, scopes[Level].entries)
  /\ UNCHANGED <<mem, live, hashTable, scopes, reply>>

\* Mutant of EndDecl: endFunctionDef() leaves the status as it is.
EndDeclStillOpen ==
  /\ Idle /\ Level > 0
  /\ scopes[Level].owner # Null
  /\ call' = CallAt("close", AnyName, scopes[Level].entries)
  /\ UNCHANGED <<mem, live, hashTable, scopes, reply>>

\* The end of ImmutableDefFunc::decl(): endFunctionDef(), then closeScope().
EndDecl ==
  /\ Idle /\ Level > 0
  /\ scopes[Level].owner # Null
  /\ LET f == scopes[Level].owner IN
       IF mem[f].entryType = "function" /\ mem[f].status = "define"
       THEN /\ mem' = [mem EXCEPT ![f].status = "complete"]
            /\ call' = CallAt("close", AnyName, scopes[Level].entries)
       ELSE /\ call' = Exited("internal")
            /\ UNCHANGED mem
  /\ UNCHANGED <<live, hashTable, scopes, reply>>

\* A use of an identifier: lookupEntry(id, true).
Lookup(n) ==
  /\ Idle
  /\ LookFor("lookup", n, AnyType, Null)
  /\ UNCHANGED <<mem, live, hashTable, scopes, reply>>

\* The last loop of DefBlock::codegen(): the entry of the name is overwritten
\* if there is one, and created otherwise.
Bind(n, t) ==
  /\ Idle /\ Level > 0 /\ Len(mem) < MaxEntries
  /\ LookFor("bind", n, t, Null)
  /\ UNCHANGED <<mem, live, hashTable, scopes, reply>>

\* newVariable() and newLLVMValue(), or newFunction().
NewEntry(op, n, t) ==
  /\ op \in {"variable", "function"}
  /\ Idle /\ Level > 0 /\ Len(mem) < MaxEntries
  /\ LookFor(op, n, t, Null)
  /\ UNCHANGED <<mem, live, hashTable, scopes, reply>>

\* newParameter(), called by decl() on the function that it declares, before
\* anything else is declared in the scope of the function.
NewParameter(n, t) ==
  /\ Idle /\ Level > 0 /\ Len(mem) < MaxEntries
  /\ scopes[Level].owner # Null
  /\ scopes[Level].entries # Null =>
       mem[scopes[Level].entries].entryType = "parameter"
  /\ LET f == scopes[Level].owner IN
       IF mem[f].entryType # "function" THEN call' = Exited("internal")
       ELSE IF mem[f].status = "complete" THEN call' = Exited("fatal")
       ELSE LookFor("parameter", n, t, f)
  /\ UNCHANGED <<mem, live, hashTable, scopes, reply>>

\* Callers run decl() once per function, in the scope that declares it,
\* and decl() looks the function up by its name.
Decl(f) ==
  /\ Idle /\ Level < MaxDepth
  /\ f \in live
  /\ mem[f].entryType = "function" /\ mem[f].status = "define"
  /\ mem[f].level = Level
  /\ LookFor("decl", mem[f].id, AnyType, f)
  /\ UNCHANGED <<mem, live, hashTable, scopes, reply>>

-----------------------------------------------------------------------------
(* The steps of a call.                                                    *)

\* The loop of lookupEntry() goes on.
WalkChain ==
  /\ call.op \in Looking
  /\ call.cursor # Null
  /\ mem[call.cursor].id # call.name
  /\ call' = MovedTo(mem[call.cursor].nextInHashTable)
  /\ UNCHANGED <<mem, live, hashTable, scopes, reply>>

\* lookupEntry() returns: nullptr, or the first entry with the name.
Found ==
  /\ call.op \in Looking
  /\ call.cursor # Null
  /\ mem[call.cursor].id = call.name

Missing == call.op \in Looking /\ call.cursor = Null

Answered == Found \/ Missing

LookupDone ==
  /\ call.op = "lookup"
  /\ \/ /\ Found
        /\ reply' = [name |-> call.name, type |-> mem[call.cursor].type]
        /\ call' = Returned
     \/ Missing /\ call' = Exited("unknown") /\ UNCHANGED reply
  /\ UNCHANGED <<mem, live, hashTable, scopes>>

BindDone ==
  /\ call.op = "bind"
  /\ \/ /\ Found
        /\ mem' = [mem EXCEPT ![call.cursor].type = call.type]
        /\ call' = Returned
     \/ /\ Missing
        /\ LookFor("variable", call.name, call.type, Null)
        /\ UNCHANGED mem
  /\ UNCHANGED <<live, hashTable, scopes, reply>>

DeclDone ==
  /\ call.op = "decl" /\ Answered
  /\ IF Found
     THEN /\ scopes' = Append(scopes, [entries |-> Null, owner |-> call.cursor])
          /\ call' = Returned
     ELSE call' = Exited("dangling") /\ UNCHANGED scopes
  /\ UNCHANGED <<mem, live, hashTable, reply>>

\* Mutants of Duplicate: any declaration counts; one in an outer scope counts.
DuplicateAnywhere == Found
DuplicateOutside == Found /\ mem[call.cursor].level < Level

\* newEntry(): the name is already declared in the current scope.
Duplicate == Found /\ mem[call.cursor].level = Level

DuplicateEntry ==
  /\ call.op \in Declaring
  /\ Duplicate
  /\ call' = Exited("duplicate")
  /\ UNCHANGED <<mem, live, hashTable, scopes, reply>>

\* Mutant of FreshEntry: hashTable is written before it is read.
FreshEntryLoops ==
  [id |-> call.name, type |-> call.type, level |-> Level,
   entryType |-> call.op,
   nextInHashTable |-> Len(mem) + 1,
   nextInScope |-> scopes[Level].entries,
   status |-> "define",
   firstArgument |-> Null, lastArgument |-> Null, nextParam |-> Null]

FreshEntry ==
  [id |-> call.name, type |-> call.type, level |-> Level,
   entryType |-> call.op,
   nextInHashTable |-> hashTable[Hash[call.name]],
   nextInScope |-> scopes[Level].entries,
   status |-> "define",
   firstArgument |-> Null, lastArgument |-> Null, nextParam |-> Null]

\* newEntry(): the entry becomes the head of its bucket and of its scope.
Link(e) ==
  /\ live' = live \cup {e}
  /\ hashTable' = [hashTable EXCEPT ![Hash[call.name]] = e]
  /\ scopes' = [scopes EXCEPT ![Level].entries = e]
  /\ UNCHANGED reply

InsertEntry ==
  /\ call.op \in {"variable", "function"}
  /\ Answered /\ ~Duplicate
  /\ mem' = Append(mem, FreshEntry)
  /\ Link(Len(mem) + 1)
  /\ call' = Returned

\* Mutant of WithArgument: the list is extended, its end is not moved.
WithArgumentKeepsEnd(f, e) ==
  IF mem[f].lastArgument = Null
  THEN [mem EXCEPT ![f].firstArgument = e, ![f].lastArgument = e]
  ELSE [mem EXCEPT ![mem[f].lastArgument].nextParam = e]

\* newParameter(), after newEntry(): parameter e ends f's argument list.
WithArgument(f, e) ==
  IF mem[f].lastArgument = Null
  THEN [mem EXCEPT ![f].firstArgument = e, ![f].lastArgument = e]
  ELSE [mem EXCEPT ![mem[f].lastArgument].nextParam = e,
                   ![f].lastArgument = e]

InsertParameter ==
  /\ call.op = "parameter"
  /\ Answered /\ ~Duplicate
  /\ IF mem[call.fun].lastArgument \in live \cup {Null}
     THEN /\ mem' = Append(WithArgument(call.fun, Len(mem) + 1), FreshEntry)
          /\ Link(Len(mem) + 1)
          /\ call' = Returned
     ELSE /\ call' = Exited("dangling")
          /\ UNCHANGED <<mem, live, hashTable, scopes, reply>>

\* Mutant of CloseEntry: the bucket is emptied instead of unlinking its head.
CloseEntryEmpties ==
  /\ call.op = "close"
  /\ call.cursor # Null
  /\ LET e == mem[call.cursor] IN
       /\ hashTable' = [hashTable EXCEPT ![Hash[e.id]] = Null]
       /\ live' = live \ {call.cursor}
       /\ call' = MovedTo(e.nextInScope)
       /\ mem' = [mem EXCEPT ![call.cursor] = Freed]
  /\ UNCHANGED <<scopes, reply>>

\* Mutant of CloseEntry: the entry is freed and stays in its bucket.
CloseEntryStays ==
  /\ call.op = "close"
  /\ call.cursor # Null
  /\ live' = live \ {call.cursor}
  /\ call' = MovedTo(mem[call.cursor].nextInScope)
  /\ mem' = [mem EXCEPT ![call.cursor] = Freed]
  /\ UNCHANGED <<hashTable, scopes, reply>>

\* One iteration of the loop of closeScope().
CloseEntry ==
  /\ call.op = "close"
  /\ call.cursor # Null
  /\ LET e == mem[call.cursor] IN
       /\ hashTable' = [hashTable EXCEPT ![Hash[e.id]] = e.nextInHashTable]
       /\ live' = live \ {call.cursor}
       /\ call' = MovedTo(e.nextInScope)
       /\ mem' = [mem EXCEPT ![call.cursor] = Freed]
  /\ UNCHANGED <<scopes, reply>>

CloseDone ==
  /\ call.op = "close"
  /\ call.cursor = Null
  /\ scopes' = SubSeq(scopes, 1, Level - 1)
  /\ call' = Returned
  /\ UNCHANGED <<mem, live, hashTable, reply>>
-----------------------------------------------------------------------------
Init ==
  /\ mem = <<>> /\ live = {}
  /\ hashTable = [b \in Buckets |-> Null]
  /\ scopes = <<>>
  /\ call = Returned
  /\ reply = [name |-> AnyName, type |-> AnyType]

Start ==
  \/ OpenScope \/ CloseScope \/ EndDecl
  \/ \E n \in Names : Lookup(n)
  \/ \E n \in Names, t \in Types :
       \/ Bind(n, t) \/ NewParameter(n, t)
       \/ \E op \in {"variable", "function"} : NewEntry(op, n, t)
  \/ \E f \in live : Decl(f)

Continue ==
  \/ WalkChain \/ LookupDone \/ BindDone \/ DeclDone
  \/ DuplicateEntry \/ InsertEntry \/ InsertParameter
  \/ CloseEntry \/ CloseDone

Next == Start \/ Continue

Spec == Init /\ [][Next]_vars

\* The one thread of the compiler goes on with the call it is in.
FairSpec == Spec /\ WF_vars(Continue)
-----------------------------------------------------------------------------
(* Properties.                                                             *)

\* Every pointer is an address, every entry has a level of at least 1, and
\* only allocated entries are live.
TypeOK ==
  /\ mem \in Seq(Entry)
  /\ live \subseteq 1..Len(mem)
  /\ hashTable \in [Buckets -> Nat]
  /\ scopes \in Seq(Scope)
  /\ call \in Call
  /\ reply \in Reply

Bindings(n) == {e \in live : mem[e].id = n}

\* Identifiers are lexically scoped: what lookupEntry() returns is the live
\* entry of the name with the deepest level, and nullptr only if there is
\* none.  A bucket mixes names and scopes, and nothing in lookupEntry()
\* compares levels: this is up to the order that insertions and closeScope()
\* keep in every chain.
InnermostWins ==
  /\ Missing => Bindings(call.name) = {}
  /\ Found => /\ call.cursor \in live
              /\ \A e \in Bindings(call.name) :
                   e # call.cursor => mem[e].level < mem[call.cursor].level

\* One scope never holds two entries of a name, though newEntry() checks only
\* the first entry that a lookup finds, which may belong to another scope.
UniquePerScope ==
  \A e, f \in live :
    mem[e].id = mem[f].id /\ mem[e].level = mem[f].level => e = f

\* closeScope() deletes an entry only when no pointer that the table still
\* follows leads to it: buckets, scope lists, both links of the entries that
\* are left, and the cursor of the loop that is running.
NoDangling ==
  LET Valid(p) == p \in live \cup {Null} IN
    /\ \A b \in Buckets : Valid(hashTable[b])
    /\ \A l \in 1..Level :
         (call.op = "close" /\ l = Level) \/ Valid(scopes[l].entries)
    /\ \A e \in live : Valid(mem[e].nextInHashTable) /\ Valid(mem[e].nextInScope)
    /\ Valid(call.cursor)

\* decl() looks its function up by name, in LetDef::recSem() long after sem()
\* created it, and gets the entry of that function.
DeclFindsItsFunction ==
  call.op = "decl" =>
    /\ ~Missing
    /\ Found => call.cursor = call.fun

\* The internal errors of newParameter() and endFunctionDef() are unreachable,
\* and so is the use of an argument that closeScope() deleted.
NoInternalError == call.op \notin {"internal", "fatal", "dangling"}

\* Scope l was opened by a decl() that has not ended.
BeingDeclared(l) ==
  scopes[l].owner # Null /\ ~(call.op = "close" /\ l = Level)

Parameters(l) ==
  {e \in live : mem[e].level = l /\ mem[e].entryType = "parameter"}

ArgumentsOf(l) ==
  LET f    == mem[scopes[l].owner]
      Pars == Parameters(l)
  IN /\ f.firstArgument \in Pars \cup {Null}
     /\ f.lastArgument \in Pars \cup {Null}
     /\ f.firstArgument = Null <=> f.lastArgument = Null
     /\ \A e \in Pars :
          /\ f.firstArgument <= e /\ e <= f.lastArgument
          /\ f.firstArgument # Null
          /\ \/ mem[e].nextParam = Null /\ e = f.lastArgument
             \/ /\ mem[e].nextParam \in Pars /\ e < mem[e].nextParam
                /\ \A p \in Pars : p <= e \/ mem[e].nextParam <= p

\* While a function is being declared, its argument list holds, in the order
\* of their declaration, the parameters of the scope that decl() opened.
ArgumentsInOrder == \A l \in 1..Level : BeingDeclared(l) => ArgumentsOf(l)

\* The scopes as the two passes see them: a scope ends with the call of
\* closeScope(), whatever entries are still to be unlinked and freed.
OpenDepth == IF call.op = "close" THEN Level - 1 ELSE Level

Declared(l) == {e \in live : mem[e].level = l}

ScopeMap(l) ==
  [n \in {mem[e].id : e \in Declared(l)} |->
     mem[CHOOSE e \in Declared(l) : mem[e].id = n].type]

Abstract == INSTANCE ScopedEnv WITH
  env <- [l \in 1..OpenDepth |-> ScopeMap(l)],
  reply <- reply,
  error <- IF call.op \in Exits THEN <<call.op, call.name>> ELSE <<>>

\* The table is a stack of maps: entries, chains, the step by step loops and
\* the freeing of entries cannot be told from ScopedEnv by its callers.
Implements == Abstract!Spec

\* Every call returns or reports an error: no chain and no scope list that a
\* loop follows has a cycle.
EveryCallReturns == ~Idle ~> (Idle \/ call.op \in Exits)
-----------------------------------------------------------------------------
(* The inductive invariant.  Addresses grow with time, so "the newest entry  *)
(* of a set" is its greatest address, and the lists need no recursion: an    *)
(* entry is followed by the newest of the entries that are older than it.    *)

IsNewest(p, S) == p \in S \cup {Null} /\ \A x \in S : x <= p

InBucket(b) == {e \in live : Hash[mem[e].id] = b}

OlderThan(e, S) == {x \in S : x < e}

\* A bucket holds the live entries of its hash value, the newest first.
ChainsOrdered ==
  /\ \A b \in Buckets : IsNewest(hashTable[b], InBucket(b))
  /\ \A e \in live :
       IsNewest(mem[e].nextInHashTable,
                OlderThan(e, InBucket(Hash[mem[e].id])))

\* What is left of the list of scope l: closeScope() unlinks from its front.
ScopeHead(l) ==
  IF call.op = "close" /\ l = Level THEN call.cursor ELSE scopes[l].entries

ScopeListsOrdered ==
  /\ \A l \in 1..Level : IsNewest(ScopeHead(l), Declared(l))
  /\ \A e \in live :
       IsNewest(mem[e].nextInScope, OlderThan(e, Declared(mem[e].level)))

\* Only the innermost scope gets entries: a newer entry is not further out.
LevelsGrow ==
  /\ \A e \in live : mem[e].level \in 1..Level
  /\ \A e, x \in live : x < e => mem[x].level <= mem[e].level

\* The entries of the name that a lookup looks for are still ahead of it.
WalkCovers ==
  /\ call.op \in Looking =>
       /\ call.cursor \in live \cup {Null}
       /\ call.cursor # Null => Hash[mem[call.cursor].id] = Hash[call.name]
       /\ \A e \in Bindings(call.name) : e <= call.cursor
  /\ call.op \in Declaring \cup {"bind", "close"} => Level > 0
  /\ call.op \notin Looking \cup {"close"} => call.cursor = Null

InDefinition(f) ==
  f \in live /\ mem[f].entryType = "function" /\ mem[f].status = "define"

\* The function that decl() is about to find, or adds a parameter to.
FunctionOfCall ==
  /\ call.op = "decl" =>
       /\ InDefinition(call.fun)
       /\ mem[call.fun].id = call.name /\ mem[call.fun].level = Level
  /\ call.op = "parameter" =>
       call.fun # Null /\ call.fun = scopes[Level].owner

OwnersInDefinition ==
  \A l \in 1..Level :
    BeingDeclared(l) =>
      InDefinition(scopes[l].owner) /\ mem[scopes[l].owner].level = l - 1

\* decl() has not yet run on the functions that no open scope belongs to.
NoArgumentsBefore ==
  \A f \in live :
    InDefinition(f) /\ (\A l \in 1..Level : BeingDeclared(l) => scopes[l].owner # f)
      => mem[f].firstArgument = Null /\ mem[f].lastArgument = Null

\* The invariant that every step of the table keeps: it implies the safety
\* properties above, for every value of the constants.
Inductive ==
  /\ TypeOK /\ ChainsOrdered /\ ScopeListsOrdered /\ LevelsGrow
  /\ UniquePerScope /\ WalkCovers /\ FunctionOfCall
  /\ OwnersInDefinition /\ ArgumentsInOrder /\ NoArgumentsBefore
  /\ NoInternalError
=============================================================================
