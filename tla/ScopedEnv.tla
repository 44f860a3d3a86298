----------------------------- MODULE ScopedEnv -----------------------------
(***************************************************************************)
(* What the two passes of the compiler expect of a symbol table: a stack   *)
(* of scopes, each a finite map from identifiers to what they denote (a    *)
(* type for the semantic pass, an LLVM value for code generation).  There  *)
(* is no hash table, no pointer and no memory here; SymbolTable is shown   *)
(* to implement this module.                                               *)
(***************************************************************************)
EXTENDS Naturals, Sequences

CONSTANTS Names,  \* identifiers of the compiled program
          Types   \* what an identifier may denote

VARIABLES env,     \* the open scopes, the innermost last
          reply,   \* the name last looked up, and what it denoted
          error    \* the message that ended the compilation, or <<>>

vars == <<env, reply, error>>

Depth == Len(env)

\* The scopes that bind n; the innermost of them is the one that counts.
Binders(n) == {l \in 1..Depth : n \in DOMAIN env[l]}

IsInnermost(l, n) == l \in Binders(n) /\ \A k \in Binders(n) : k <= l

\* Map m, with n (re)bound to t.
Binding(m, n, t) ==
  [k \in (DOMAIN m) \cup {n} |-> IF k = n THEN t ELSE m[k]]
-----------------------------------------------------------------------------
Init == env = <<>> /\ error = <<>> /\ reply \in [name: Names, type: Types]

Enter ==
  /\ env' = Append(env, [n \in {} |-> n])
  /\ UNCHANGED <<reply, error>>

Leave ==
  /\ env # <<>>
  /\ env' = SubSeq(env, 1, Depth - 1)
  /\ UNCHANGED <<reply, error>>

\* A declaration extends the innermost scope, which must not have the name.
Declare(n, t) ==
  /\ env # <<>>
  /\ n \notin DOMAIN env[Depth]
  /\ env' = [env EXCEPT ![Depth] = Binding(@, n, t)]
  /\ UNCHANGED <<reply, error>>

\* A definition of a name that is bound overwrites its innermost binding.
Rebind(n, t) ==
  \E l \in 1..Depth :
    /\ IsInnermost(l, n)
    /\ env' = [env EXCEPT ![l] = Binding(@, n, t)]
    /\ UNCHANGED <<reply, error>>

Find(n) ==
  \E l \in 1..Depth :
    /\ IsInnermost(l, n)
    /\ reply' = [name |-> n, type |-> env[l][n]]
    /\ UNCHANGED <<env, error>>

\* The only errors: a second declaration of n in a scope, an unbound name.
Duplicate(n) ==
  /\ env # <<>> /\ n \in DOMAIN env[Depth]
  /\ error' = <<"duplicate", n>>
  /\ UNCHANGED <<env, reply>>

Unknown(n) ==
  /\ Binders(n) = {}
  /\ error' = <<"unknown", n>>
  /\ UNCHANGED <<env, reply>>

Next ==
  /\ error = <<>>
  /\ \/ Enter
     \/ Leave
     \/ \E n \in Names : Find(n) \/ Duplicate(n) \/ Unknown(n)
     \/ \E n \in Names, t \in Types : Declare(n, t) \/ Rebind(n, t)

Spec == Init /\ [][Next]_vars
=============================================================================
