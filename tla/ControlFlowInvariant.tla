------------------------ MODULE ControlFlowInvariant ------------------------
(***************************************************************************)
(* What holds of the blocks, the calls in progress and the insert block    *)
(* between any two steps of ControlFlow.  Inductive is about the shape of  *)
(* the code, Dominance about the values that are available in a block, and *)
(* Flowing about where control comes from and gets to.  For the proofs     *)
(* that steps keep these, there is also what is said of two states.        *)
(***************************************************************************)
EXTENDS ControlFlow

-----------------------------------------------------------------------------
(* The shape of the code.  It is stated of a sequence of blocks bs, a      *)
(* stack st and an insert block p, so that lemmas can be of two states.    *)

\* Frame f is of that kind, and waits at one of the steps.
At(f, kind, steps) == f.kind = kind /\ f.step \in steps

\* Frames that will go on in block next, in block after, and those of loops.
HasNext(f) ==
  \/ At(f, "if", {"then"}) \/ At(f, "match", {"clause"})
  \/ At(f, "for", {"to"}) \/ At(f, "while", {"cond"})

\* It goes on in block after.
HasAfter(f) ==
  \/ At(f, "if", {"then", "else"}) \/ At(f, "match", {"pattern", "clause"})
  \/ At(f, "for", {"to", "body"}) \/ At(f, "while", {"cond", "body"})

\* Loops come back to block held.
HasHeader(f) == At(f, "for", {"to", "body"}) \/ At(f, "while", {"cond", "body"})

\* The PHI of the loop has one value so far.
Counts(f) == At(f, "for", {"to", "body"})

\* Block b is open although the insert block is elsewhere: f comes back to it.
Reserves(f, b) ==
  \/ HasNext(f) /\ b = f.next
  \/ HasAfter(f) /\ b = f.after
  \/ f.kind = "fun" /\ b = f.start

\* Block b of a match is not in the function yet.
Unplaced(f, b) ==
  \/ At(f, "match", {"pattern", "clause"}) /\ b = f.after
  \/ At(f, "match", {"clause"}) /\ b = f.next

\* The blocks of a frame were created since the call.
Framed(bs, f) ==
  /\ f.start \in 1..Len(bs) /\ f.mark \in f.start..Len(bs)
  /\ f.held \in 0..Len(bs) /\ f.next \in 0..Len(bs)
  /\ HasAfter(f) => f.after \in f.mark + 1..Len(bs)
  /\ HasNext(f) \/ HasHeader(f) => f.next > f.mark /\ f.next # f.after
  /\ HasHeader(f) => f.held > f.mark /\ f.held # f.after /\ f.held # f.next

\* They are in the function that the call was made in.
Placed(bs, f) ==
  LET F == bs[f.start].fun IN
    /\ HasNext(f) /\ ~Unplaced(f, f.next) => bs[f.next].fun = F
    /\ HasAfter(f) /\ ~Unplaced(f, f.after) => bs[f.after].fun = F
    /\ HasHeader(f) => bs[f.held].fun = F

\* No edge leaves what was created since the call, and edges enter it from
\* the insert block at the call only.
Region(bs, f) ==
  \A b \in 1..Len(bs) : \A s \in bs[b].succs :
    /\ b > f.mark => s > f.mark
    /\ s > f.mark => b > f.mark \/ b = f.start

\* The blocks that a PHI has values for.
Froms(phi) == {phi[k].from : k \in 1..Len(phi)}

\* The blocks that end with a branch to b.
PredsIn(bs, b) == {p \in 1..Len(bs) : b \in bs[p].succs}

\* The PHI has one value for a block at most.
Distinct(phi) == \A k, l \in 1..Len(phi) : phi[k].from = phi[l].from => k = l

\* The PHI of b has one value for each predecessor, and no other.
Complete(bs, b) == Froms(bs[b].phi) = PredsIn(bs, b) /\ Distinct(bs[b].phi)

\* What f knows of the PHIs it has yet to make or to complete.
PhiFacts(bs, f) ==
  /\ HasAfter(f) => bs[f.after].phi = <<>>
  /\ HasNext(f) => bs[f.next].phi = <<>>
  /\ At(f, "if", {"then"}) => PredsIn(bs, f.after) = {}
  /\ At(f, "if", {"else"}) => Len(f.incoming) = 1
  /\ At(f, "if", {"else"}) \/ At(f, "match", {"pattern", "clause"}) =>
       PredsIn(bs, f.after) = Froms(f.incoming) /\ Distinct(f.incoming)
  /\ At(f, "match", {"expr"}) => f.incoming = <<>>
  /\ Counts(f) =>
       Len(bs[f.held].phi) = 1 /\ PredsIn(bs, f.held) = Froms(bs[f.held].phi)
  /\ At(f, "while", {"cond", "body"}) => bs[f.held].phi = <<>>

\* All that a frame knows of the blocks.
FrameInv(bs, f) ==
  Framed(bs, f) /\ Placed(bs, f) /\ Region(bs, f) /\ PhiFacts(bs, f)

\* The blocks of f are older than the call with mark m.
Under(f, m) ==
  /\ f.mark <= m
  /\ HasNext(f) => f.next <= m
  /\ HasAfter(f) => f.after <= m
  /\ HasHeader(f) => f.held <= m

\* Block p is where f, or a call that f made, may insert.
Here(f, p) == (p = f.start \/ p > f.mark) /\ ~Reserves(f, p)

\* Frame g is of a call that was made in the region of f.
Nested(f, g) ==
  /\ Under(f, g.mark)
  /\ g.start = f.start \/ g.start > f.mark
  /\ g.kind = "fun" => ~Reserves(f, g.start)

\* Every frame keeps its invariant, and lies in those below it.
Stacked(bs, st, p) ==
  /\ \A i \in 1..Len(st) : FrameInv(bs, st[i]) /\ Here(st[i], p)
  /\ \A i, j \in 1..Len(st) : i < j => Nested(st[i], st[j])
  /\ \A i \in 1..Len(st) : st[i].kind = "main" <=> i = 1

\* No function is generated between frames i and j.
NoFun(st, i, j) == \A k \in i..j : st[k].kind # "fun"

\* Calls are made in the function that their caller is in.
SameFun(bs, st, p) ==
  /\ \A i, j \in 1..Len(st) :
       i < j /\ NoFun(st, i, j - 1) => bs[st[j].start].fun = bs[st[i].start].fun
  /\ \A i \in 1..Len(st) :
       NoFun(st, i, Len(st)) => bs[p].fun = bs[st[i].start].fun

\* The open blocks are the insert block and those that frames come back to.
OpenOnly(bs, st, p) ==
  \A b \in 1..Len(bs) :
    /\ bs[b].ends = "open" <=>
         st # <<>> /\ (b = p \/ \E i \in 1..Len(st) : Reserves(st[i], b))
    /\ bs[b].ends = "open" => bs[b].succs = {}

\* One of the first k frames has yet to place b.
SomeUnplaced(st, k, b) == \E i \in 1..k : Unplaced(st[i], b)

\* All other blocks are in a function, which has an entry block.
Attached(bs, st) ==
  \A b \in 1..Len(bs) :
    IF SomeUnplaced(st, Len(st), b)
    THEN bs[b].fun = Nowhere
    ELSE bs[b].fun \in 1..b /\ bs[bs[b].fun].fun = bs[b].fun

\* Branches stay in their function, and are never to its entry.
Edges(bs, st) ==
  \A b \in 1..Len(bs) : \A s \in bs[b].succs :
    /\ s # bs[s].fun
    /\ \/ bs[s].fun = bs[b].fun
       \/ \E i \in 1..Len(st) :
            Unplaced(st[i], s) /\ bs[b].fun = bs[st[i].start].fun

\* A PHI is complete, unless a for is still in its loop.
PhisDone(bs, st) ==
  \A b \in 1..Len(bs) :
    \/ bs[b].phi = <<>> \/ Complete(bs, b)
    \/ \E i \in 1..Len(st) : Counts(st[i]) /\ st[i].held = b

\* Without branches in it, an else part ends in the block it started in.
ElseStays(st, p) ==
  \A i \in 1..Len(st) :
    At(st[i], "if", {"else"}) =>
      /\ \A j \in i + 1..Len(st) :
           NoFun(st, i + 1, j - 1) =>
             st[j].start = st[i].next /\ st[j].kind \notin Branching
      /\ NoFun(st, i + 1, Len(st)) => p = st[i].next

\* What holds of every program.
Shape(bs, st, p) ==
  /\ Stacked(bs, st, p) /\ SameFun(bs, st, p) /\ OpenOnly(bs, st, p)
  /\ Attached(bs, st) /\ Edges(bs, st)

\* The blocks are typed, and name blocks that exist.
Blocks(bs) ==
  /\ bs \in Seq(Block)
  /\ \A b \in 1..Len(bs) : bs[b].succs \cup bs[b].operands \subseteq 1..Len(bs)

\* PHIs are matched as long as no else part branches (IfExpr.cpp).
Sound(bs, st, p, v) ==
  /\ Blocks(bs) /\ st \in Seq(Frame) /\ p \in 1..Len(bs)
  /\ v \in 1..Len(bs) \cup {Const, Awaited}
  /\ Shape(bs, st, p)
  /\ ~ElseBranches => PhisDone(bs, st) /\ ElseStays(st, p)

\* What LLVMValueStore has, and what has been found in it.
Tabled == table \in Seq(SUBSET Nat) /\ strays \subseteq Nat

\* The inductive invariant.
Inductive == Sound(blocks, stack, at, value)

-----------------------------------------------------------------------------
(* A step from blocks bs to cs and from stack st to ts, by a call with     *)
(* mark m whose frame is f, on top of k others.                            *)

\* Two blocks that differ in their instructions at most.
Alike(x, y) ==
  x.fun = y.fun /\ x.ends = y.ends /\ x.succs = y.succs /\ x.phi = y.phi

\* From bs to cs, a call with mark m has changed its own blocks only, and has
\* ended the insert block p with branches to its own blocks only.
Grown(bs, cs, p, m) ==
  /\ Len(bs) \in Nat /\ Len(cs) \in Nat /\ m \in 1..Len(bs) /\ p \in 1..Len(bs)
  /\ Len(bs) <= Len(cs)
  /\ \A b \in 1..m : /\ b # p => Alike(cs[b], bs[b])
                    /\ cs[b].fun = bs[b].fun /\ cs[b].phi = bs[b].phi
  /\ \A b \in 1..Len(bs) : bs[b].succs \subseteq cs[b].succs
  /\ \A b \in 1..Len(cs) : \A s \in cs[b].succs :
       s \in 1..Len(cs) /\ (s > m \/ (b \in 1..m /\ s \in bs[b].succs))

\* From st to ts, the frames 1..k are kept; they are older than mark m, and
\* the blocks of the others are not.
Kept(st, ts, k, m) ==
  /\ Len(st) \in Nat /\ k \in 0..Len(st) /\ Len(ts) \in {k, k + 1}
  /\ \A i \in 1..k : ts[i] = st[i] /\ Under(st[i], m)
  /\ \A i \in k + 1..Len(st) :
       /\ \A b : Unplaced(st[i], b) => b > m
       /\ Counts(st[i]) => st[i].held > m

\* The frame on top of those kept, if any, reserves b.
New(ts, k, b) == Len(ts) = k + 1 /\ Reserves(ts[k + 1], b)

\* A frame of st above k comes back to b.
Old(st, k, b) == \E i \in k + 1..Len(st) : Reserves(st[i], b)

\* The frame above k, where there is one, has yet to place b.
UnplacedNow(ts, k, b) == Len(ts) = k + 1 /\ Unplaced(ts[k + 1], b)

\* New blocks may have come, and those in T, which are the call's own, have
\* got a place, a PHI or an edge.  The insert block p has got its branches.
Changed(bs, cs, p, m, T) ==
  /\ Blocks(bs) /\ Blocks(cs)
  /\ m \in 1..Len(bs) /\ p \in 1..Len(bs) /\ Len(bs) <= Len(cs)
  /\ \A b \in T : b \in 1..Len(bs) /\ b > m
  /\ \A b \in 1..Len(bs) :
       /\ b # p /\ b \notin T => Alike(cs[b], bs[b])
       /\ bs[b].fun # Nowhere => cs[b].fun = bs[b].fun
       /\ bs[b].succs \subseteq cs[b].succs
  /\ cs[p].fun = bs[p].fun
  /\ p \notin T => cs[p].phi = bs[p].phi
  /\ \A b \in 1..Len(cs) : \A s \in cs[b].succs :
       s \in T \/ s > Len(bs) \/ (b \in 1..Len(bs) /\ s \in bs[b].succs)

\* No edge leaves the blocks after m.
Closed(bs, m) == \A b \in m + 1..Len(bs) : \A s \in bs[b].succs : s > m

\* The call's frame, if it is not kept, has yet to place b.
UnplacedOld(st, k, b) == \E i \in k + 1..Len(st) : Unplaced(st[i], b)

\* What is known when the call of frame f, on top of k others, goes on.
OnTop(bs, st, p, k, f) ==
  /\ Blocks(bs) /\ st \in Seq(Frame) /\ p \in 1..Len(bs)
  /\ k \in Nat /\ Len(st) = k + 1 /\ f = st[k + 1]
  /\ Shape(bs, st, p)

\* The stack with g in place of its top, or without its top.
Replaced(st, ts, k, g) == g \in Frame /\ ts = Append(SubSeq(st, 1, k), g)

\* The frames above the k lowest have returned.
Dropped(st, ts, k) == ts = SubSeq(st, 1, k)

\* New blocks have no edges yet.
Joined(bs, fs) == bs \o fs

\* Blocks as they are created.
AllFresh(fs) ==
  fs \in Seq(Block) /\ \A i \in 1..Len(fs) : fs[i] = Fresh(fs[i].fun)

\* cs has the blocks of bs, and those of fs without anything in them.
Grows(bs, fs, cs) ==
  /\ Blocks(cs) /\ Len(cs) = Len(bs) + Len(fs) /\ Len(bs) \in Nat
  /\ \A c \in 1..Len(bs) : cs[c] = bs[c]
  /\ \A i \in 1..Len(fs) : cs[Len(bs) + i] = fs[i]
  /\ \A c \in 1..Len(cs) : c > Len(bs) =>
       /\ cs[c].succs = {} /\ cs[c].ends = "open" /\ cs[c].phi = <<>>
       /\ cs[c].operands = {}
       /\ c - Len(bs) \in 1..Len(fs) /\ cs[c].fun = fs[c - Len(bs)].fun

-----------------------------------------------------------------------------
(* Dominance.  dom gives a set for each of the blocks bs.                  *)

\* Values that need not be available: what is defined in no block, and what a
\* name has given where its definition is not around it.
Free == {Const} \cup strays

\* What the value p of a PHI needs: it is available where it comes from.
Given(dom, p) == p.val \in Free \/ (p.from \in DOMAIN dom /\ p.val \in dom[p.from])

\* Block b agrees with dom.
Fits(dom, bs, b) ==
  /\ b \in dom[b]
  /\ \A s \in bs[b].succs : dom[s] \ {s} \subseteq dom[b]
  /\ bs[b].fun = b => dom[b] = {b}
  /\ bs[b].fun # Nowhere => bs[b].fun \in dom[b]
  /\ \A d \in dom[b] \ {b} :
       bs[d].fun # Nowhere /\ bs[b].fun \in {Nowhere, bs[d].fun}
  /\ bs[b].operands \ Free \subseteq dom[b]
  /\ \A k \in 1..Len(bs[b].phi) : Given(dom, bs[b].phi[k])

\* The blocks bs are well formed, and all agree with dom.
Solves(dom, bs) ==
  /\ Blocks(bs)
  /\ dom \in [1..Len(bs) -> SUBSET (1..Len(bs))]
  /\ \A b \in 1..Len(bs) : Fits(dom, bs, b)

\* Frame f keeps a value for later.
Holds(f) ==
  \/ At(f, "two", {"right"}) \/ At(f, "let", {"body"})
  \/ At(f, "match", {"pattern", "clause"})

\* What is available to the subexpression that f waits for.
Avail(dom, f) ==
  IF f.kind = "fun" THEN {f.held}
  ELSE dom[f.start]
       \cup {v \in {f.held} : HasHeader(f) \/ (Holds(f) /\ v \notin Free)}
       \cup {b \in {f.next} : At(f, "for", {"body"})}

\* What the frame f of a call remembers is available where it goes on.
FrameDom(dom, bs, f) ==
  /\ bs[f.start].fun # Nowhere
  /\ HasAfter(f) => dom[f.after] = dom[f.start] \cup {f.after}
  /\ HasHeader(f) => dom[f.held] = dom[f.start] \cup {f.held}
  /\ At(f, "for", {"to", "body"}) \/ At(f, "while", {"cond"}) =>
       dom[f.next] = dom[f.held] \cup {f.next}
  /\ At(f, "if", {"then"}) => dom[f.start] \subseteq dom[f.next]
  /\ At(f, "match", {"clause"}) =>
       /\ Avail(dom, f) \subseteq dom[f.next]
       /\ \A d \in dom[f.next] \ {f.next} : bs[d].fun = bs[f.start].fun
  /\ \A k \in 1..Len(f.incoming) : Given(dom, f.incoming[k])

\* The insert block after the subexpression that frame i waits for has begun.
Begins(st, p, i) == IF i = Len(st) THEN p ELSE st[i + 1].start

\* Every frame leaves what it promises to the part that is generated in it.
Chain(dom, bs, st, p) ==
  \A i \in 1..Len(st) :
    FrameDom(dom, bs, st[i]) /\ Avail(dom, st[i]) \subseteq dom[Begins(st, p, i)]

\* dom is a solution the frames st, the insert block p and the value v are in.
DomInv(dom, bs, st, p, v) ==
  /\ Solves(dom, bs) /\ Chain(dom, bs, st, p)
  /\ st # <<>> => v \in Free \cup {Awaited} \/ v \in dom[p]

\* Some solution agrees with the calls in progress.
Agrees(bs, st, p, v) ==
  \E dom \in [1..Len(bs) -> SUBSET (1..Len(bs))] : DomInv(dom, bs, st, p, v)

Dominance == Agrees(blocks, stack, at, value)

\* A step ends like that, by the strays that there were before it.
Agreed == Agrees(blocks', stack', at', value')

-----------------------------------------------------------------------------
(* A step from the solution dom for the blocks bs to dm for cs.            *)

\* The same blocks, in the same functions.
SameFuns(bs, cs) ==
  Len(cs) = Len(bs) /\ \A b \in 1..Len(bs) : cs[b].fun = bs[b].fun

\* Block b is the only one that is placed, in function F.
Places(bs, cs, b, F) ==
  /\ Len(cs) = Len(bs) /\ cs[b].fun = F
  /\ \A c \in 1..Len(bs) : c # b => cs[c].fun = bs[c].fun

\* dm goes on from dom, and cs from bs.
Later(dom, bs, dm, cs) ==
  /\ Len(bs) \in Nat /\ Len(cs) \in Nat /\ Len(bs) <= Len(cs)
  /\ DOMAIN dom = 1..Len(bs) /\ DOMAIN dm = 1..Len(cs)
  /\ \A b \in 1..Len(bs) : dm[b] = dom[b]
  /\ \A b \in 1..Len(bs) : bs[b].fun # Nowhere => cs[b].fun = bs[b].fun

\* What a new block b may start with.
Begun(dm, cs, b) ==
  /\ b \in dm[b] /\ dm[b] \subseteq 1..Len(cs)
  /\ cs[b].fun = b => dm[b] = {b}
  /\ cs[b].fun # Nowhere => cs[b].fun \in dm[b]
  /\ \A d \in dm[b] \ {b} :
       cs[d].fun # Nowhere /\ cs[b].fun \in {Nowhere, cs[d].fun}

\* dom is a solution where a step begins.
Known(dom) ==
  Inductive /\ stack # <<>> /\ DomInv(dom, blocks, stack, at, value)

\* dom for the first n blocks; us, and themselves, for those after them.
Extended(dom, n, us) ==
  [b \in 1..n + Len(us) |-> IF b <= n THEN dom[b] ELSE us[b - n] \cup {b}]

\* b is available where all of A is, and it is itself.
With(A, b) == A \cup {b}

\* A new block is in function F, or in none yet.
Home(F, G) == G \in {Nowhere, F}

\* The blocks of us[i], all of function F, are available in new block i.
Supplied(bs, fs, us, F) ==
  /\ AllFresh(fs) /\ Len(us) = Len(fs)
  /\ \A i \in 1..Len(fs) :
       /\ Home(F, fs[i].fun) /\ F \in us[i]
       /\ \A d \in us[i] : d \in 1..Len(Joined(bs, fs)) /\ Joined(bs, fs)[d].fun = F

\* A has blocks of function F among bs, and new ones up to m.
Inside(bs, F, m, A) ==
  /\ F \in A
  /\ \A d \in A : d \in Len(bs) + 1..m \/ (d \in 1..Len(bs) /\ bs[d].fun = F)

\* dom with three blocks more, A, B and C being available in them.
WithThree(dom, n, A, B, C) == Extended(dom, n, <<A, B, C>>)

\* dom with two blocks more, A and B being available in them.
WithTwo(dom, n, A, B) == Extended(dom, n, <<A, B>>)

-----------------------------------------------------------------------------
(* Reached(f, d) is the last value of a recursive function, and what walks *)
(* through the blocks come to.                                             *)

\* The recursive function in Reached.
Stepped(f, d) ==
  CHOOSE g : g = [n \in Nat |->
    IF n = 0 THEN {f} \ {d}
    ELSE LET r == g[n - 1]
         IN (r \cup UNION {blocks[b].succs : b \in r}) \ {d}]

\* One more branch, never to d.
Farther(r, d) == (r \cup UNION {blocks[b].succs : b \in r}) \ {d}

\* n branches from f, or rests, that avoid d.
Walks(f, d, n) ==
  {p \in [0..n -> Ids \ {d}] :
     /\ p[0] = f
     /\ \A i \in 1..n : p[i] = p[i - 1] \/ p[i] \in blocks[p[i - 1]].succs}

\* Where they end.
Ends(f, d, n) == {p[n] : p \in Walks(f, d, n)}

-----------------------------------------------------------------------------
(* Where control comes from and gets to.  A set of blocks that holds the   *)
(* entries and all that its blocks branch to holds every block; one that   *)
(* holds the blocks that return and all that branch into it does so too.   *)
(* While calls are in progress some blocks are not entered yet, and some   *)
(* do not go on yet: the frames know which.                                *)

\* S holds the entries, and all that its blocks branch to.
Upward(bs, S) ==
  \A b \in 1..Len(bs) :
    /\ bs[b].fun = b => b \in S
    /\ b \in S => bs[b].succs \subseteq S

\* T holds the blocks that return, and all that branch into it.
Backward(bs, T) ==
  \A b \in 1..Len(bs) :
    /\ bs[b].ends = "ret" => b \in T
    /\ bs[b].succs \cap T # {} => b \in T

\* Nothing may branch to b yet: f has still to do that, or its subexpressions.
Hides(f, b) ==
  \/ HasAfter(f) /\ f.kind \in {"if", "match"} /\ b = f.after
  \/ HasHeader(f) /\ HasNext(f) /\ b \in {f.next, f.after}

\* The block for what no clause has matched so far: it may be the trap.
Spare(f, b) == At(f, "match", {"clause"}) /\ b = f.next

\* The other blocks that f comes back to, and goes on from.
Targets(f) ==
  {b \in {f.next} : HasNext(f) /\ f.kind # "match"}
    \cup {b \in {f.after} : HasAfter(f)} \cup {b \in {f.start} : f.kind = "fun"}

\* Every block is entered, or hidden.
Forth(bs, st) ==
  \A S : Upward(bs, S) =>
    \A b \in 1..Len(bs) : b \in S \/ \E i \in 1..Len(st) : Hides(st[i], b)

\* T holds the insert block and those that the frames above i come back to.
Above(st, p, i, T) ==
  p \in T /\ \A j \in i + 1..Len(st) : Targets(st[j]) \subseteq T

\* Every block leads to the end of a function or to an open block, but traps.
Back(bs, st, p) ==
  \A T : Backward(bs, T) /\ Above(st, p, 0, T) =>
    \A b \in 1..Len(bs) :
      b \in T \/ bs[b].succs = {b} \/ \E i \in 1..Len(st) : Spare(st[i], b)

\* While the condition of a loop is generated, its header leads to where that
\* is; when it has been, to the block after the loop.
Way(st, p, i, T) == IF HasNext(st[i]) THEN Above(st, p, i, T) ELSE st[i].after \in T

\* So a header leads on without its loop.
Loops(bs, st, p) ==
  \A T : Backward(bs, T) =>
    \A i \in 1..Len(st) : HasHeader(st[i]) /\ Way(st, p, i, T) => st[i].held \in T

\* All that is known of the ways of control.
Flow(bs, st, p) ==
  /\ Forth(bs, st) /\ Back(bs, st, p) /\ Loops(bs, st, p)
  /\ st = <<>> => bs[p].ends = "ret"

\* The invariant of the specification.
Flowing == Flow(blocks, stack, at)

-----------------------------------------------------------------------------
(* A step from blocks bs and insert block p to cs and q, while the top     *)
(* frame f becomes g.                                                      *)

\* A frame without blocks to come back to.
Idle(f) == f.kind # "fun" /\ ~HasNext(f) /\ ~HasAfter(f) /\ ~HasHeader(f)

\* f is the frame above the k lowest; where there is none, it stands for none.
TopIs(st, k, f) ==
  \/ Len(st) = k /\ Idle(f)
  \/ Len(st) = k + 1 /\ f = st[k + 1]

\* Way() for the frame on top.
Looped(f, p, T) ==
  HasHeader(f) /\ (IF HasNext(f) THEN p \in T ELSE f.after \in T) => f.held \in T

\* The blocks of bs are in cs, and only those that did not branch do so now.
Widened(bs, cs) ==
  /\ Len(bs) \in Nat /\ Len(cs) \in Nat /\ Len(bs) <= Len(cs)
  /\ \A b \in 1..Len(bs) :
       /\ bs[b].fun = b => cs[b].fun = b
       /\ bs[b].ends = "ret" => cs[b].ends = "ret"
       /\ bs[b].succs = {} \/ cs[b].succs = bs[b].succs

\* Blocks that are new, or that f has hidden, are entered from p, or g hides them.
Onward(bs, cs, p, f, g) ==
  \A S : Upward(cs, S) /\ p \in S =>
    \A b \in 1..Len(cs) : b > Len(bs) \/ Hides(f, b) => b \in S \/ Hides(g, b)

\* Blocks that are new, or that f came back to, lead to q or to what g keeps.
Homeward(bs, cs, p, q, f, g) ==
  \A T : Backward(cs, T) /\ q \in T /\ Targets(g) \subseteq T /\ Looped(f, p, T) =>
    /\ p \in T /\ Targets(f) \subseteq T
    /\ \A b \in 1..Len(cs) :
         b > Len(bs) \/ Spare(f, b) => b \in T \/ cs[b].succs = {b} \/ Spare(g, b)

\* The header of g leads on because that of f did.
Turning(cs, p, q, f, g) ==
  \A T : Backward(cs, T) /\ Looped(f, p, T) => Looped(g, q, T)

\* It stands for a frame where there is none.
Blank == [kind |-> "two", step |-> "left"]

\* Blocks and steps before and after, and the top frame f that becomes g.
Flows(f, g) ==
  /\ Widened(blocks, blocks') /\ Onward(blocks, blocks', at, f, g)
  /\ Homeward(blocks, blocks', at, at', f, g) /\ Turning(blocks', at, at', f, g)

\* The branches and the ends of all blocks are as before.
Quiet(bs, cs) ==
  /\ Blocks(cs) /\ Len(cs) = Len(bs) /\ Widened(bs, cs)
  /\ \A b \in 1..Len(bs) : cs[b].succs = bs[b].succs /\ cs[b].ends = bs[b].ends

\* Block b branches to T; all others are as before.
Jumps(bs, cs, b, T) ==
  /\ Blocks(cs) /\ Len(cs) = Len(bs) /\ Widened(bs, cs)
  /\ cs[b].succs = T
  /\ \A c \in 1..Len(bs) : c # b =>
       cs[c].succs = bs[c].succs /\ cs[c].ends = bs[c].ends
  /\ \A c \in 1..Len(bs) : cs[c].fun = bs[c].fun
=============================================================================
