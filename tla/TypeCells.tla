------------------------------ MODULE TypeCells ------------------------------
(***************************************************************************)
(* Types that are not written down.  A mutable variable without a type has *)
(* type ref of nothing yet (a null pointer); the first := to it completes  *)
(* the type, in place, with a pointer to the type of its right side.       *)
(* Types are therefore objects with an identity, shared by all expressions *)
(* that have them, and their comparison is a walk over a heap.             *)
(*                                                                         *)
(* cells is the heap.  A cell is the type of some expression: a literal, a *)
(* variable, an element of an array, what a reference contains.  Where !x  *)
(* was checked before x was complete, and only there, does an expression   *)
(* keep a null pointer for good, whatever becomes of x.  A program can     *)
(* give it a name while x is unknown and use it at any time: late are the  *)
(* x that were unknown.                                                    *)
(*                                                                         *)
(* The result of a function has no type either until decl() has seen the   *)
(* body, unless it is written down, and a call that comes before keeps the *)
(* null pointer.  It is held as the content of a ref is, in a cell that no *)
(* expression has for a type: results are these cells.                     *)
(***************************************************************************)
EXTENDS Integers, Sequences, FiniteSets

CONSTANTS
  MaxCells,   \* bound: the types of a program
  ArrayDims,  \* the numbers of dimensions that definitions choose from
  MaxStores,  \* bound: its assignments and functions
  MaxPlaces,  \* bound: its values in unchecked places
  Cycles      \* may a := store into a ref what has the type of the ref?

ASSUME BoundsAssumption ==
  /\ MaxCells \in Nat \ 0..2 /\ MaxStores \in Nat /\ MaxPlaces \in Nat
  /\ ArrayDims \subseteq Nat \ {0}

ASSUME CyclesAssumption == Cycles \in BOOLEAN

VARIABLES
  cells,      \* the types, by address
  late,       \* the refs and results that were made with an unknown content
  results,    \* the cells that hold the result of a function
  stores,     \* what is accepted so far: assignments, and bodies for results
  unchecked,  \* the values generated in places whose type sem() does not look at
  walk,       \* the call of equal_types() or getLLVMType() in progress
  outcome,    \* "sem", "gen", or how the compiler ended
  next        \* the next cell of which codegen() needs the LLVM type

\* What the program has so far.
program == <<cells, late, results, stores, unchecked>>

vars == <<program, walk, outcome, next>>

-----------------------------------------------------------------------------
(* Types.                                                                  *)

Null == 0

Cell(class, dims, inside) == [class |-> class, dims |-> dims, inside |-> inside]

\* What programs write down: int, ref of it, array [*, *] of it.
Basic == <<Cell("int", 0, Null), Cell("ref", 0, 1), Cell("array", 2, 2)>>

Addresses == 1..Len(cells)

\* The types of expressions.
Types == Addresses \ results

Class(p) == IF p = Null THEN "null" ELSE cells[p].class

IsSimple(p) == Class(p) \in {"int"}

IsRef(p) == Class(p) = "ref"

IsArray(p) == Class(p) = "array"

Inside(p) == cells[p].inside

Further(p) == IF Class(p) \in {"ref", "array"} THEN Inside(p) ELSE p

\* Where a walk from p inwards is after its steps: it stays at a simple or an
\* unknown type.
Path(p) ==
  LET after[q \in Nat] == Further(q)
      at[i \in 1..MaxCells + 1] == IF i = 1 THEN p ELSE after[at[i - 1]]
  IN [i \in 1..MaxCells + 1 |-> at[i]]

Complete(p) == IsSimple(Path(p)[MaxCells + 1])

\* A type as it reads, without addresses; unknown is how getLLVMType() takes
\* it, for unit.
Reads(p) ==
  LET path == Path(p) IN
    [i \in DOMAIN path |->
      IF path[i] = Null THEN Cell("unit", 0, Null)
      ELSE Cell(Class(path[i]), cells[path[i]].dims, Null)]

\* What equal_types() is for.
SameType(p, q) == Complete(p) /\ Reads(p) = Reads(q)

\* The type of an expression, or the null pointer that it got because the
\* content of ref or result cell was unknown; of no cell for a parameter without a
\* type.
Of(p) == [known |-> TRUE, cell |-> p]

Late(c) == [known |-> FALSE, cell |-> c]

Unknown(c) == IsRef(c) /\ Inside(c) = Null

Expressions ==
  {Of(p) : p \in Types}
    \union {Late(c) : c \in {Null} \union late}

TypePtr(e) == IF e.known THEN e.cell ELSE Null

\* The LLVM type of its value, once all types are what they are.
ValueReads(e) ==
  Reads(IF e.known THEN e.cell ELSE IF e.cell = Null THEN Null ELSE Inside(e.cell))

Expression == [known : BOOLEAN, cell : 0..MaxCells]

Assignment == [to : 1..MaxCells, value : Expression]

\* Unchecked places are for integers (the first value of a loop, indices and
\* dimensions, a scrutinee beside its patterns) or for unit (a then part without
\* an else), which is what null stands for.
Place == [type : {Null, 1}, value : Expression]

-----------------------------------------------------------------------------
(* Walks.                                                                  *)

NoWalk == [for |-> "none", left |-> Null, right |-> Null, start |-> <<>>,
           same |-> TRUE]

Walk(for, p, q) == [for |-> for, left |-> p, right |-> q, start |-> <<p, q>>,
                    same |-> TRUE]

Idle == walk = NoWalk

CanSem == outcome = "sem" /\ Idle

Rejected == outcome' = "rejected" /\ walk' = NoWalk

\* Both sides must have the same type: equal_types() is called.
MustEqual(e, f) == walk' = Walk("equal", TypePtr(e), TypePtr(f))

\* Mutant of EqualStep: arrays are equal if their elements are.
EqualStepIgnoresStars ==
  /\ walk.for = "equal"
  /\ LET p == walk.left
         q == walk.right
         comparable == p # Null /\ Class(p) = Class(q)
     IN \/ ~comparable /\ Rejected
        \/ /\ comparable /\ ~IsSimple(p)
           /\ walk' = [walk EXCEPT !.left = Inside(p), !.right = Inside(q)]
           /\ UNCHANGED outcome
        \/ comparable /\ IsSimple(p) /\ walk' = NoWalk /\ UNCHANGED outcome
  /\ UNCHANGED <<program, next>>

\* A call of equal_types(): null is equal to nothing; the insides of refs and
\* of arrays are compared first, the dimensions of arrays when that is done.
EqualStep ==
  /\ walk.for = "equal"
  /\ LET p == walk.left
         q == walk.right
         comparable == p # Null /\ Class(p) = Class(q)
     IN \/ ~comparable /\ Rejected
        \/ /\ comparable /\ ~IsSimple(p)
           /\ walk' = [walk EXCEPT !.left = Inside(p), !.right = Inside(q),
                                   !.same = @ /\ cells[p].dims = cells[q].dims]
           /\ UNCHANGED outcome
        \/ comparable /\ IsSimple(p) /\ ~walk.same /\ Rejected
        \/ /\ comparable /\ IsSimple(p) /\ walk.same
           /\ walk' = NoWalk /\ UNCHANGED outcome
  /\ UNCHANGED <<program, next>>

-----------------------------------------------------------------------------
(* sem().                                                                  *)

Room(k) == CanSem /\ Len(cells) + k <= MaxCells

\* A type that is written down is complete.
Written == {Null} \union {p \in Types : Complete(p)}

\* Ref number p is made, with content t.
LateIf(p, t) == late' = IF t = Null THEN late \union {p} ELSE late

NewRef(t) ==
  cells' = Append(cells, Cell("ref", 0, t)) /\ LateIf(Len(cells) + 1, t)

\* mutable x, with a type or without.
MutableDef ==
  /\ Room(1)
  /\ \E t \in Written : NewRef(t)
  /\ UNCHANGED <<results, stores, unchecked, walk, outcome, next>>

\* Mutant of MutableArrayDef: the element type is not wrapped.
MutableArrayDefBare ==
  /\ Room(2)
  /\ \E t \in Written, dims \in ArrayDims :
       /\ cells' = cells \o <<Cell("ref", 0, t), Cell("array", dims, t)>>
       /\ LateIf(Len(cells) + 1, t)
  /\ UNCHANGED <<results, stores, unchecked, walk, outcome, next>>

\* mutable x[..]: an array of references.
MutableArrayDef ==
  /\ Room(2)
  /\ \E t \in Written, dims \in ArrayDims :
       /\ cells' = cells \o <<Cell("ref", 0, t), Cell("array", dims, Len(cells) + 1)>>
       /\ LateIf(Len(cells) + 1, t)
  /\ UNCHANGED <<results, stores, unchecked, walk, outcome, next>>

\* !e has the type that e contains by now, which an expression has already, or
\* none.
Deref ==
  /\ CanSem
  /\ \E e \in Expressions : ~(e.known /\ IsRef(e.cell)) /\ Rejected
  /\ UNCHANGED <<program, next>>

\* x[..] asks the class of the type of x, which may be null.
Index ==
  /\ CanSem
  /\ \E e \in Expressions, dims \in 1..2 :
       \/ ~e.known /\ outcome' = "crash in sem"
       \/ /\ e.known /\ ~(IsArray(e.cell) /\ cells[e.cell].dims = dims)
          /\ outcome' = "rejected"
  /\ UNCHANGED <<program, walk, next>>

\* The other places where two types must be equal: if, match, let with a
\* type, arguments.
Compare ==
  /\ CanSem
  /\ \E e, f \in Expressions : MustEqual(e, f)
  /\ UNCHANGED <<program, outcome, next>>

\* Functions whose body is not checked yet.
Undeclared == {c \in results : \A s \in stores : s.to # c}

Spare == Cardinality(stores) + Cardinality(Undeclared) < MaxStores

Record(l, r) == stores' = stores \union {[to |-> l, value |-> r]}

\* Does p contain q?
Reaches(p, q) == \E i \in 1..MaxCells : Path(p)[i] = q

\* Mutant of Complement: the ref completes itself.
ComplementSwapped(l, r) == [cells EXCEPT ![l].inside = l]

\* setType(): the ref takes the type of the right side, if it has one.
Complement(l, r) == [cells EXCEPT ![l].inside = TypePtr(r)]

\* Mutant of Assign: the ref gets a type of its own that reads the same.
AssignCopies ==
  /\ CanSem /\ Spare
  /\ \E l, r \in Expressions :
       /\ l.known /\ Unknown(l.cell)
       /\ ~(r.known /\ Reaches(r.cell, l.cell))
       /\ IF r.known /\ Room(1)
            THEN cells' = Append([cells EXCEPT ![l.cell].inside = Len(cells) + 1],
                                 cells[r.cell])
            ELSE cells' = Complement(l.cell, r)
       /\ Record(l.cell, r)
       /\ UNCHANGED <<walk, outcome>>
  /\ UNCHANGED <<late, results, unchecked, next>>

\* l := r.
Assign ==
  /\ CanSem /\ Spare
  /\ \E l, r \in Expressions :
       \/ ~(l.known /\ IsRef(l.cell)) /\ Rejected /\ UNCHANGED <<cells, stores>>
       \/ /\ l.known /\ Unknown(l.cell)
          /\ Cycles \/ ~(r.known /\ Reaches(r.cell, l.cell))
          /\ cells' = Complement(l.cell, r)
          /\ Record(l.cell, r)
          /\ UNCHANGED <<walk, outcome>>
       \/ /\ l.known /\ IsRef(l.cell) /\ ~Unknown(l.cell)
          /\ MustEqual(Of(Inside(l.cell)), r)
          /\ Record(l.cell, r)
          /\ UNCHANGED <<cells, outcome>>
  /\ UNCHANGED <<late, results, unchecked, next>>

\* A function, with a type for its result or without: it can be called.
FunctionSem ==
  /\ Room(1) /\ Spare
  /\ \E t \in Written : NewRef(t)
  /\ results' = results \union {Len(cells) + 1}
  /\ UNCHANGED <<stores, unchecked, walk, outcome, next>>

\* decl(): the body must have the type that is written, or gives its own to the
\* result, if it has one.
FunctionDecl ==
  /\ CanSem
  /\ \E c \in Undeclared, r \in Expressions :
       /\ \/ /\ Unknown(c)
             /\ cells' = Complement(c, r)
             /\ UNCHANGED <<walk, outcome>>
          \/ /\ ~Unknown(c)
             /\ MustEqual(Of(Inside(c)), r)
             /\ UNCHANGED <<cells, outcome>>
       /\ Record(c, r)
  /\ UNCHANGED <<late, results, unchecked, next>>

-----------------------------------------------------------------------------
(* codegen().                                                              *)

EndSem ==
  /\ CanSem /\ Undeclared = {}
  /\ outcome' = "gen"
  /\ UNCHANGED <<program, walk, next>>

\* A definition allocates room for a value of its type; defCodeGen() declares a
\* function with that of its result.
GenDefinition ==
  /\ outcome = "gen" /\ Idle /\ next <= Len(cells)
  /\ walk' = Walk("llvm", next, Null)
  /\ next' = next + 1
  /\ UNCHANGED <<program, outcome>>

\* Mutant of LLVMStep: typeName() is asked for references too.
LLVMStepNamesAll ==
  /\ walk.for = "llvm"
  /\ LET p == walk.left IN
       \/ /\ Class(p) \in {"ref", "array"}
          /\ walk' = [walk EXCEPT !.left = Inside(p)]
          /\ UNCHANGED outcome
       \/ IsSimple(p) /\ walk' = NoWalk /\ UNCHANGED outcome
       \/ p = Null /\ walk' = NoWalk /\ outcome' = "crash"
  /\ UNCHANGED <<program, next>>

\* getLLVMType() asks arrays for their name, typeName() follows the same path
\* and does not expect a null pointer; getLLVMType() itself takes it for unit.
\* Of a walk with this name, same says that no array was passed.
LLVMStep ==
  /\ walk.for = "llvm"
  /\ LET p == walk.left IN
       \/ /\ Class(p) \in {"ref", "array"}
          /\ walk' = [walk EXCEPT !.left = Inside(p), !.same = @ /\ ~IsArray(p)]
          /\ UNCHANGED outcome
       \/ IsSimple(p) /\ walk' = NoWalk /\ UNCHANGED outcome
       \/ p = Null /\ walk.same /\ walk' = NoWalk /\ UNCHANGED outcome
       \/ p = Null /\ ~walk.same /\ walk' = NoWalk /\ outcome' = "crash"
  /\ UNCHANGED <<program, next>>

Fits(s) == Reads(Inside(s.to)) = ValueReads(s.value)

\* The value of some expression in a place where sem() has looked at no type.
GenUnchecked ==
  /\ outcome = "gen" /\ Idle /\ next > Len(cells) /\ Cardinality(unchecked) < MaxPlaces
  /\ \E e \in Expressions, t \in {Null, 1} :
       unchecked' = unchecked \union {[type |-> t, value |-> e]}
  /\ UNCHANGED <<cells, late, results, stores, walk, outcome, next>>

FitsThere(u) == Reads(u.type) = ValueReads(u.value)

\* The verifier looks at every store and every return, and at the instructions
\* that are made of values in unchecked places.
GenEnd ==
  /\ outcome = "gen" /\ Idle /\ next > Len(cells)
  /\ outcome' = IF (\A s \in stores : Fits(s)) /\ (\A u \in unchecked : FitsThere(u))
                  THEN "compiled" ELSE "bad IR"
  /\ UNCHANGED <<program, walk, next>>

-----------------------------------------------------------------------------
Init ==
  /\ cells = Basic /\ late = {} /\ results = {} /\ stores = {} /\ unchecked = {}
  /\ walk = NoWalk /\ outcome = "sem" /\ next = Len(Basic) + 1

Next ==
  \/ MutableDef \/ MutableArrayDef \/ Deref \/ Index \/ Compare \/ Assign
  \/ FunctionSem \/ FunctionDecl
  \/ EqualStep \/ EndSem \/ GenDefinition \/ LLVMStep
  \/ GenUnchecked \/ GenEnd

\* A method that was called goes on.
FairSpec == Init /\ [][Next]_vars /\ WF_vars(EqualStep) /\ WF_vars(LLVMStep)

-----------------------------------------------------------------------------
(* Properties.                                                             *)

\* The heap holds types only, and a ref within an array is always a ref.
TypeOK ==
  /\ Len(cells) <= MaxCells
  /\ \A p \in Addresses :
       /\ cells[p].class \in {"int", "ref", "array"}
       /\ Inside(p) \in 0..Len(cells)
       /\ IsArray(p) => Inside(p) # Null /\ IsRef(Inside(p))
  /\ late \subseteq Addresses
  /\ results \subseteq {p \in Addresses : IsRef(p)}
  /\ stores \subseteq Assignment /\ unchecked \subseteq Place
  /\ walk.for \in {"none", "equal", "llvm"}
  /\ outcome \in {"sem", "gen", "rejected", "crash in sem",
                  "crash", "compiled", "bad IR"}
  /\ next \in Len(Basic) + 1..MaxCells + 1

\* The walk of equal_types() accepts what it should: two types that are
\* complete and read the same, dimensions included.  And what it accepts early
\* it would accept at the end, though := changes types all the time: equal
\* types stay equal.
EqualForEver ==
  [][/\ walk.for = "equal" /\ walk'.for = "none"
          => ((outcome' = "sem") <=> SameType(walk.start[1], walk.start[2]))
     /\ cells' # cells =>
          \A p, q \in Addresses : SameType(p, q) => SameType(p, q)']_vars

\* An accepted assignment stores a value of the type that the reference ends
\* up with, also if both were completed, or only partly known, when it was
\* checked: the two share one type.  So does a function return a value of its
\* type.  Except for values of unknown type, which an unknown reference or result
\* takes without any check.
StoresFit ==
  Idle /\ outcome # "rejected" =>
    \A s \in stores : s.value.known => Fits(s)

\* codegen() fails for what sem() accepted only for a value of unknown type that
\* is stored or returned, for a value in an unchecked place that does not have
\* the type that is needed there, or for an array that was never given a type.
AcceptedCompiles ==
  /\ outcome = "bad IR" =>
       \/ \E s \in stores : ~s.value.known /\ ~Fits(s)
       \/ \E u \in unchecked : ~FitsThere(u)
  /\ outcome = "crash" =>
       \E p \in Addresses : IsArray(p) /\ ~Complete(p)

\* "Left and right side of assignment operator := have not the same type":
\* every walk over a type ends, since no type contains itself.
EveryWalkEnds == (walk.for # "none") ~> (walk.for = "none")
=============================================================================
