----------------------------- MODULE CountedLoop -----------------------------
(***************************************************************************)
(* What a loop that counts promises, over the integers: rounds as long as  *)
(* the counter is not past the bound, which the body may change, and the   *)
(* counter one further after each.  A loop that counts down is the same on *)
(* the negated integers.                                                   *)
(***************************************************************************)
EXTENDS Integers

VARIABLES
  at,     \* the counter
  bound,  \* the last value with a round
  where   \* "test", "body" or "after"

Enter == where = "test" /\ at <= bound /\ where' = "body" /\ UNCHANGED <<at, bound>>

Leave == where = "test" /\ at > bound /\ where' = "after" /\ UNCHANGED <<at, bound>>

Round == where = "body" /\ at' = at + 1 /\ bound' \in Int /\ where' = "test"

Next == Enter \/ Leave \/ Round
=============================================================================
