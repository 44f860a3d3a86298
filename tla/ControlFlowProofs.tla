------------------------- MODULE ControlFlowProofs -------------------------
(***************************************************************************)
(* ControlFlow keeps its regions nested, its blocks closed and its PHIs    *)
(* complete, whatever program is compiled and however deep it is.  A value *)
(* is used only where it is defined on every path: for that, the invariant *)
(* is a solution of the dataflow problem for dominators, which gives for   *)
(* each block a set of blocks without which control cannot get there.      *)
(* Control reaches all blocks and gets from them to an end: the invariant  *)
(* is about all sets of blocks that branches do not leave, or not enter.   *)
(***************************************************************************)
EXTENDS ControlFlowInvariant, FiniteSetTheorems, WellFoundedInduction, TLAPS

-----------------------------------------------------------------------------
(* What a step does to the blocks, for the frames below. *)

\* A call leaves the functions, PHIs and predecessors of older blocks alone.
LEMMA GrownFacts ==
  ASSUME NEW bs, NEW cs, NEW p, NEW m, Grown(bs, cs, p, m)
  PROVE  /\ m \in Nat
         /\ \A b \in 1..m : /\ b \in 1..Len(bs) /\ b \in 1..Len(cs)
                            /\ cs[b].fun = bs[b].fun /\ cs[b].phi = bs[b].phi
                            /\ PredsIn(cs, b) = PredsIn(bs, b)
<1>1. m \in Nat /\ \A b \in 1..m : /\ b \in 1..Len(bs) /\ b \in 1..Len(cs)
                                   /\ cs[b].fun = bs[b].fun /\ cs[b].phi = bs[b].phi
  BY DEF Grown, Alike
<1>2. ASSUME NEW b \in 1..m PROVE PredsIn(cs, b) = PredsIn(bs, b)
  <2>1. ASSUME NEW q \in PredsIn(cs, b) PROVE q \in PredsIn(bs, b)
    BY <1>1 DEF PredsIn, Grown
  <2>2. ASSUME NEW q \in PredsIn(bs, b) PROVE q \in PredsIn(cs, b)
    BY <1>1 DEF PredsIn, Grown
  <2> QED
    BY <2>1, <2>2
<1> QED
  BY <1>1, <1>2

\* The frames below keep what they know.
LEMMA LowerKept ==
  ASSUME NEW bs, NEW cs, NEW p, NEW m, Grown(bs, cs, p, m),
         NEW f, FrameInv(bs, f), Under(f, m), Here(f, p)
  PROVE  FrameInv(cs, f)
<1>0. /\ f.start \in 1..m /\ f.mark \in Nat /\ f.mark <= m /\ m \in Nat
      /\ HasNext(f) => f.next \in 1..m
      /\ HasAfter(f) => f.after \in 1..m
      /\ HasHeader(f) => f.held \in 1..m
  BY DEF FrameInv, Framed, Under, Grown
<1>f. \A b \in 1..m : /\ cs[b].fun = bs[b].fun /\ cs[b].phi = bs[b].phi
                      /\ PredsIn(cs, b) = PredsIn(bs, b)
  BY GrownFacts
<1>1. Framed(cs, f)
  BY DEF FrameInv, Framed, Grown
<1>2. Placed(cs, f)
  BY <1>0, <1>f DEF FrameInv, Placed
<1>3. Region(cs, f)
  <2> SUFFICES ASSUME NEW b \in 1..Len(cs), NEW s \in cs[b].succs
               PROVE  /\ b > f.mark => s > f.mark
                      /\ s > f.mark => b > f.mark \/ b = f.start
    BY DEF Region
  <2>1. CASE b \in 1..Len(bs) /\ s \in bs[b].succs
    BY <2>1 DEF FrameInv, Region
  <2>2. CASE s > m /\ (b > m \/ b = p)
    BY <1>0, <2>2 DEF Here, Grown
  <2>3. CASE s > m /\ b <= m /\ b # p
    BY <1>0, <2>1, <2>3 DEF Grown, Alike
  <2> QED
    BY <1>0, <2>1, <2>2, <2>3 DEF Grown
<1>4. PhiFacts(cs, f)
  BY <1>0, <1>f DEF FrameInv, PhiFacts, Counts, HasHeader, HasAfter, At
<1> QED
  BY <1>1, <1>2, <1>3, <1>4 DEF FrameInv

-----------------------------------------------------------------------------
(* What a step does to the stack. *)

\* Blocks newer than those of f are where f may insert.
LEMMA HereMoves ==
  ASSUME NEW bs, NEW f, NEW m \in Nat, NEW q \in Nat,
         Framed(bs, f), Len(bs) \in Nat, Under(f, m), q > m
  PROVE  Here(f, q)
BY DEF Framed, Under, Here, Reserves

\* The frames below a call stay nested, and the top one has to be checked only.
LEMMA StackedKept ==
  ASSUME NEW bs, NEW cs, NEW st, NEW ts, NEW p, NEW q, NEW k, NEW m,
         Stacked(bs, st, p), Grown(bs, cs, p, m), Kept(st, ts, k, m),
         \A i \in 1..k : Here(st[i], q),
         Len(ts) = k + 1 =>
           /\ FrameInv(cs, ts[k + 1]) /\ Here(ts[k + 1], q)
           /\ \A i \in 1..k : Nested(st[i], ts[k + 1])
           /\ ts[k + 1].kind = "main" <=> k = 0
  PROVE  Stacked(cs, ts, q)
<1>1. k \in Nat /\ Len(ts) \in {k, k + 1}
      /\ \A i \in 1..k : i \in 1..Len(st) /\ ts[i] = st[i]
  BY DEF Kept
<1>2. ASSUME NEW i \in 1..k PROVE FrameInv(cs, ts[i])
  BY <1>1, LowerKept DEF Stacked, Kept
<1>3. \A i \in 1..Len(ts) : i \in 1..k \/ (i = k + 1 /\ Len(ts) = k + 1)
  BY <1>1
<1>4. \A i \in 1..Len(ts) : FrameInv(cs, ts[i]) /\ Here(ts[i], q)
  BY <1>1, <1>2, <1>3
<1>5. ASSUME NEW i \in 1..Len(ts), NEW j \in 1..Len(ts), i < j
      PROVE  Nested(ts[i], ts[j])
  <2>1. i \in 1..k
    BY <1>1, <1>5
  <2>2. CASE j \in 1..k
    BY <1>1, <1>5, <2>1, <2>2 DEF Stacked
  <2>3. CASE j = k + 1 /\ Len(ts) = k + 1
    BY <1>1, <2>1, <2>3
  <2> QED
    BY <1>3, <2>2, <2>3
<1>6. ASSUME NEW i \in 1..Len(ts) PROVE ts[i].kind = "main" <=> i = 1
  BY <1>1, <1>3 DEF Stacked
<1> QED
  BY <1>4, <1>5, <1>6 DEF Stacked

\* g: the frame on top of those kept, if there is one, and else f, which was.
LEMMA SameFunKept ==
  ASSUME NEW bs, NEW cs, NEW st, NEW ts, NEW p, NEW q, NEW k, NEW m,
         Stacked(bs, st, p), SameFun(bs, st, p),
         Grown(bs, cs, p, m), Kept(st, ts, k, m),
         Len(ts) = k => /\ Len(st) = k + 1 /\ st[k + 1].kind # "fun"
                        /\ cs[q].fun = bs[st[k + 1].start].fun,
         Len(ts) = k + 1 =>
           /\ ts[k + 1].kind # "fun" => cs[q].fun = cs[ts[k + 1].start].fun
           /\ \/ Len(st) = k /\ ts[k + 1].start = p
              \/ Len(st) = k + 1 /\ ts[k + 1].start = st[k + 1].start
           /\ cs[ts[k + 1].start].fun = bs[ts[k + 1].start].fun
  PROVE  SameFun(cs, ts, q)
<1>1. k \in Nat /\ Len(ts) \in {k, k + 1}
      /\ \A i \in 1..k : i \in 1..Len(st) /\ ts[i] = st[i]
  BY DEF Kept
<1>2. \A i \in 1..k : cs[ts[i].start].fun = bs[st[i].start].fun
  <2> SUFFICES ASSUME NEW i \in 1..k PROVE cs[ts[i].start].fun = bs[st[i].start].fun
    OBVIOUS
  <2>1. ts[i].start \in 1..m
    <3>1. Framed(bs, st[i]) /\ Under(st[i], m) /\ m \in Nat
      BY <1>1 DEF Kept, Stacked, FrameInv, Grown
    <3> QED
      BY <1>1, <3>1 DEF Framed, Under
  <2>2. cs[ts[i].start].fun = bs[ts[i].start].fun
    BY <2>1, GrownFacts
  <2> QED
    BY <1>1, <2>2
<1>3. \A i \in 1..Len(ts) : i \in 1..k \/ (i = k + 1 /\ Len(ts) = k + 1)
  BY <1>1
<1>4. ASSUME NEW i \in 1..k, NEW j \in 1..k, i < j, NoFun(ts, i, j - 1)
      PROVE  cs[ts[j].start].fun = cs[ts[i].start].fun
  <2>1. NoFun(st, i, j - 1)
    BY <1>1, <1>4 DEF NoFun
  <2> QED
    BY <1>1, <1>2, <1>4, <2>1 DEF SameFun
<1>5. ASSUME NEW i \in 1..k, NoFun(ts, i, k), Len(ts) = k + 1
      PROVE  cs[ts[k + 1].start].fun = cs[ts[i].start].fun
  <2>1. NoFun(st, i, k)
    BY <1>1, <1>5 DEF NoFun
  <2>2. CASE Len(st) = k /\ ts[k + 1].start = p
    BY <1>1, <1>2, <1>5, <2>1, <2>2 DEF SameFun
  <2>3. CASE Len(st) = k + 1 /\ ts[k + 1].start = st[k + 1].start
    <3>1. i < k + 1 /\ k + 1 \in 1..Len(st) /\ i \in 1..Len(st) /\ (k + 1) - 1 = k
      BY <1>1, <2>3
    <3> QED
      BY <1>1, <1>2, <1>5, <2>1, <2>3, <3>1 DEF SameFun
  <2> QED
    BY <1>5, <2>2, <2>3
<1>6. ASSUME NEW i \in 1..Len(ts), NEW j \in 1..Len(ts), i < j, NoFun(ts, i, j - 1)
      PROVE  cs[ts[j].start].fun = cs[ts[i].start].fun
  <2>1. i \in 1..k
    BY <1>1, <1>6
  <2>2. CASE j \in 1..k
    BY <1>4, <1>6, <2>1, <2>2
  <2>3. CASE j = k + 1 /\ Len(ts) = k + 1
    <3>1. j - 1 = k
      BY <1>1, <2>3
    <3> QED
      BY <1>5, <1>6, <2>1, <2>3, <3>1
  <2> QED
    BY <1>3, <2>2, <2>3
<1>7. ASSUME NEW i \in 1..Len(ts), NoFun(ts, i, Len(ts))
      PROVE  cs[q].fun = cs[ts[i].start].fun
  <2>1. CASE Len(ts) = k
    <3>1. NoFun(st, i, k) /\ i \in 1..k
      BY <1>1, <1>7, <2>1 DEF NoFun
    <3>2. i < k + 1 /\ k + 1 \in 1..Len(st) /\ i \in 1..Len(st) /\ (k + 1) - 1 = k
      BY <1>1, <2>1, <3>1
    <3>3. bs[st[k + 1].start].fun = bs[st[i].start].fun
      BY <3>1, <3>2 DEF SameFun
    <3> QED
      BY <1>2, <2>1, <3>1, <3>3
  <2>2. CASE Len(ts) = k + 1
    <3>1. k + 1 \in i..Len(ts)
      BY <1>1, <2>2
    <3>2. ts[k + 1].kind # "fun"
      BY <1>7, <3>1 DEF NoFun
    <3>3. CASE i = k + 1
      BY <2>2, <3>2, <3>3
    <3>4. CASE i \in 1..k
      <4>1. NoFun(ts, i, k)
        BY <1>1, <1>7, <2>2 DEF NoFun
      <4> QED
        BY <1>5, <2>2, <3>2, <3>4, <4>1
    <3> QED
      BY <1>3, <3>3, <3>4
  <2> QED
    BY <1>1, <2>1, <2>2
<1> QED
  BY <1>6, <1>7 DEF SameFun

\* The frames kept reserve neither the insert block nor a block of the call.
LEMMA LowReserves ==
  ASSUME NEW bs, NEW st, NEW ts, NEW p, NEW k, NEW m, NEW i \in 1..k, NEW b,
         Stacked(bs, st, p), Kept(st, ts, k, m), m \in 1..Len(bs), Len(bs) \in Nat,
         Reserves(st[i], b)
  PROVE  b \in 1..m /\ b # p
<1>1. i \in 1..Len(st) /\ Framed(bs, st[i]) /\ Here(st[i], p) /\ Under(st[i], m)
  BY DEF Stacked, Kept, FrameInv
<1> QED
  BY <1>1 DEF Here, Reserves, Framed, Under, HasNext, HasAfter

\* Only blocks that the call may touch have to be checked to be open or not.
LEMMA OpenKept ==
  ASSUME NEW bs, NEW cs, NEW st, NEW ts, NEW p, NEW q, NEW k, NEW m,
         Stacked(bs, st, p), OpenOnly(bs, st, p), st # <<>>, ts # <<>>,
         Grown(bs, cs, p, m), Kept(st, ts, k, m),
         \A b \in 1..m : b # p => (Old(st, k, b) <=> b = q \/ New(ts, k, b)),
         \A b \in 1..Len(cs) : b > m \/ b = p =>
           /\ cs[b].ends = "open" <=> b = q \/ New(ts, k, b)
           /\ cs[b].ends = "open" => cs[b].succs = {}
  PROVE  OpenOnly(cs, ts, q)
<1> DEFINE Low(b) == \E i \in 1..k : Reserves(st[i], b)
<1>1. k \in Nat /\ Len(ts) \in {k, k + 1} /\ Len(st) \in Nat /\ k <= Len(st)
      /\ \A i \in 1..k : i \in 1..Len(st) /\ ts[i] = st[i]
  BY DEF Kept
<1>2. m \in 1..Len(bs) /\ Len(bs) \in Nat /\ Len(cs) \in Nat /\ Len(bs) <= Len(cs)
      /\ p \in 1..Len(bs)
  BY DEF Grown
<1>3. \A b : Low(b) => b \in 1..m /\ b # p
  BY <1>2, LowReserves
<1>4. \A b : (\E i \in 1..Len(st) : Reserves(st[i], b)) <=> Low(b) \/ Old(st, k, b)
  <2>1. \A i \in 1..Len(st) : i \in 1..k \/ i \in k + 1..Len(st)
    BY <1>1
  <2>2. \A i \in k + 1..Len(st) : i \in 1..Len(st)
    BY <1>1
  <2> QED
    BY <1>1, <2>1, <2>2 DEF Old
<1>5. \A b : (\E i \in 1..Len(ts) : Reserves(ts[i], b)) <=> Low(b) \/ New(ts, k, b)
  <2>1. \A i \in 1..Len(ts) : i \in 1..k \/ (i = k + 1 /\ Len(ts) = k + 1)
    BY <1>1
  <2>2. /\ \A i \in 1..k : i \in 1..Len(ts)
        /\ Len(ts) = k + 1 => k + 1 \in 1..Len(ts)
    BY <1>1
  <2> QED
    BY <1>1, <2>1, <2>2 DEF New
<1> HIDE DEF Low
<1>6. ASSUME NEW b \in 1..Len(cs), b > m \/ b = p
      PROVE  /\ cs[b].ends = "open" <=> b = q \/ \E i \in 1..Len(ts) : Reserves(ts[i], b)
             /\ cs[b].ends = "open" => cs[b].succs = {}
  BY <1>2, <1>3, <1>5, <1>6
<1>7. ASSUME NEW b \in 1..Len(cs), b <= m, b # p
      PROVE  /\ cs[b].ends = "open" <=> b = q \/ \E i \in 1..Len(ts) : Reserves(ts[i], b)
             /\ cs[b].ends = "open" => cs[b].succs = {}
  <2>1. b \in 1..m /\ b \in 1..Len(bs) /\ Alike(cs[b], bs[b])
    BY <1>2, <1>7 DEF Grown
  <2>2. bs[b].ends = "open" <=> Low(b) \/ Old(st, k, b)
    BY <1>4, <1>7, <2>1 DEF OpenOnly
  <2>3. bs[b].ends = "open" => bs[b].succs = {}
    BY <2>1 DEF OpenOnly
  <2> QED
    BY <1>5, <1>7, <2>1, <2>2, <2>3 DEF Alike
<1>8. \A b \in 1..Len(cs) : b > m \/ b = p \/ (b <= m /\ b # p)
  BY <1>2
<1> QED
  BY <1>6, <1>7, <1>8 DEF OpenOnly

\* What is unplaced is reserved.
LEMMA UnplacedReserved ==
  ASSUME NEW f, NEW b, Unplaced(f, b)  PROVE Reserves(f, b)
BY DEF Unplaced, Reserves, HasNext, HasAfter, At

\* Frames below a call have the same blocks to place as before it.
LEMMA UnplacedKept ==
  ASSUME NEW bs, NEW st, NEW ts, NEW p, NEW k, NEW m,
         Stacked(bs, st, p), Kept(st, ts, k, m), m \in 1..Len(bs), Len(bs) \in Nat
  PROVE  /\ \A b : SomeUnplaced(ts, Len(ts), b) <=>
                     SomeUnplaced(st, k, b) \/ UnplacedNow(ts, k, b)
         /\ \A b \in 1..m : SomeUnplaced(st, Len(st), b) <=> SomeUnplaced(st, k, b)
         /\ \A b : SomeUnplaced(st, k, b) => b \in 1..m /\ b # p
<1>1. k \in Nat /\ Len(ts) \in {k, k + 1} /\ Len(st) \in Nat /\ k <= Len(st)
      /\ \A i \in 1..k : i \in 1..Len(st) /\ ts[i] = st[i]
  BY DEF Kept
<1>2. \A b : SomeUnplaced(st, k, b) => b \in 1..m /\ b # p
  BY LowReserves, UnplacedReserved DEF SomeUnplaced
<1>3. \A b \in 1..m : SomeUnplaced(st, Len(st), b) <=> SomeUnplaced(st, k, b)
  <2>1. \A i \in 1..Len(st) : i \in 1..k \/ i \in k + 1..Len(st)
    BY <1>1
  <2>2. \A i \in k + 1..Len(st) : \A b \in 1..m : ~Unplaced(st[i], b)
    BY DEF Kept
  <2> QED
    BY <1>1, <2>1, <2>2 DEF SomeUnplaced
<1>4. \A b : SomeUnplaced(ts, Len(ts), b) <=>
               SomeUnplaced(st, k, b) \/ UnplacedNow(ts, k, b)
  <2>1. \A i \in 1..Len(ts) : i \in 1..k \/ (i = k + 1 /\ Len(ts) = k + 1)
    BY <1>1
  <2>2. /\ \A i \in 1..k : i \in 1..Len(ts)
        /\ Len(ts) = k + 1 => k + 1 \in 1..Len(ts)
    BY <1>1
  <2> QED
    BY <1>1, <2>1, <2>2 DEF UnplacedNow, SomeUnplaced
<1> QED
  BY <1>2, <1>3, <1>4

\* Only new blocks have to be checked to be in a function.
LEMMA AttachedKept ==
  ASSUME NEW bs, NEW cs, NEW st, NEW ts, NEW p, NEW k, NEW m,
         Stacked(bs, st, p), Attached(bs, st),
         Grown(bs, cs, p, m), Kept(st, ts, k, m),
         \A b \in 1..m : ~UnplacedNow(ts, k, b),
         \A b \in 1..Len(cs) : b > m =>
           IF UnplacedNow(ts, k, b) THEN cs[b].fun = Nowhere
           ELSE cs[b].fun \in 1..b /\ cs[cs[b].fun].fun = cs[b].fun
  PROVE  Attached(cs, ts)
<1>1. m \in 1..Len(bs) /\ Len(bs) \in Nat /\ Len(cs) \in Nat /\ m \in Nat
  BY DEF Grown
<1>2. \A b \in 1..m : b \in 1..Len(bs) /\ cs[b].fun = bs[b].fun
  BY GrownFacts
<1>3. /\ \A b : SomeUnplaced(ts, Len(ts), b) <=>
                  SomeUnplaced(st, k, b) \/ UnplacedNow(ts, k, b)
      /\ \A b \in 1..m : SomeUnplaced(st, Len(st), b) <=> SomeUnplaced(st, k, b)
      /\ \A b : SomeUnplaced(st, k, b) => b \in 1..m /\ b # p
  BY <1>1, UnplacedKept
<1>4. ASSUME NEW b \in 1..m
      PROVE  IF SomeUnplaced(ts, Len(ts), b) THEN cs[b].fun = Nowhere
             ELSE cs[b].fun \in 1..b /\ cs[cs[b].fun].fun = cs[b].fun
  <2>1. SomeUnplaced(ts, Len(ts), b) <=> SomeUnplaced(st, Len(st), b)
    BY <1>3
  <2>2. CASE SomeUnplaced(st, Len(st), b)
    BY <1>2, <2>1, <2>2 DEF Attached
  <2>3. CASE ~SomeUnplaced(st, Len(st), b)
    <3>1. bs[b].fun \in 1..b /\ bs[bs[b].fun].fun = bs[b].fun
      BY <1>2, <2>3 DEF Attached
    <3>2. bs[b].fun \in 1..m
      BY <1>1, <3>1
    <3> QED
      BY <1>2, <2>1, <2>3, <3>1, <3>2
  <2> QED
    BY <2>2, <2>3
<1>5. ASSUME NEW b \in 1..Len(cs), b > m
      PROVE  IF SomeUnplaced(ts, Len(ts), b) THEN cs[b].fun = Nowhere
             ELSE cs[b].fun \in 1..b /\ cs[cs[b].fun].fun = cs[b].fun
  <2>1. b \notin 1..m
    BY <1>1, <1>5
  <2>2. SomeUnplaced(ts, Len(ts), b) <=> UnplacedNow(ts, k, b)
    BY <1>3, <2>1
  <2> QED
    BY <1>5, <2>2
<1>6. \A b \in 1..Len(cs) : b \in 1..m \/ b > m
  BY <1>1
<1> QED
  BY <1>4, <1>5, <1>6 DEF Attached

\* Edges into what is older than the call are as they were.
LEMMA EdgesKept ==
  ASSUME NEW bs, NEW cs, NEW st, NEW ts, NEW p, NEW k, NEW m,
         Stacked(bs, st, p), Edges(bs, st),
         Grown(bs, cs, p, m), Kept(st, ts, k, m),
         \A b \in 1..Len(cs) : \A s \in cs[b].succs : s > m =>
           /\ s # cs[s].fun
           /\ \/ cs[s].fun = cs[b].fun
              \/ UnplacedNow(ts, k, s) /\ cs[b].fun = cs[ts[k + 1].start].fun
  PROVE  Edges(cs, ts)
<1>1. /\ m \in 1..Len(bs) /\ Len(bs) \in Nat /\ Len(cs) \in Nat /\ m \in Nat
      /\ k \in Nat /\ Len(ts) \in {k, k + 1} /\ Len(st) \in Nat /\ k <= Len(st)
      /\ \A i \in 1..k : i \in 1..Len(st) /\ i \in 1..Len(ts) /\ ts[i] = st[i]
  BY DEF Grown, Kept
<1>2. \A b \in 1..m : b \in 1..Len(bs) /\ cs[b].fun = bs[b].fun
  BY GrownFacts
<1> SUFFICES ASSUME NEW b \in 1..Len(cs), NEW s \in cs[b].succs
             PROVE  /\ s # cs[s].fun
                    /\ \/ cs[s].fun = cs[b].fun
                       \/ \E i \in 1..Len(ts) :
                            Unplaced(ts[i], s) /\ cs[b].fun = cs[ts[i].start].fun
  BY DEF Edges
<1>3. CASE s > m
  <2>1. CASE UnplacedNow(ts, k, s) /\ cs[b].fun = cs[ts[k + 1].start].fun
    <3>1. k + 1 \in 1..Len(ts) /\ Unplaced(ts[k + 1], s)
      BY <1>1, <2>1 DEF UnplacedNow
    <3> QED
      BY <1>3, <2>1, <3>1
  <2> QED
    BY <1>3, <2>1
<1>4. CASE ~(s > m)
  <2>1. b \in 1..m /\ s \in bs[b].succs /\ s \in 1..m
    BY <1>1, <1>4 DEF Grown
  <2>2. /\ s # bs[s].fun
        /\ \/ bs[s].fun = bs[b].fun
           \/ \E i \in 1..Len(st) :
                Unplaced(st[i], s) /\ bs[b].fun = bs[st[i].start].fun
    BY <1>2, <2>1, ZenonT(40) DEF Edges
  <2>3. ASSUME NEW i \in 1..Len(st), Unplaced(st[i], s),
               bs[b].fun = bs[st[i].start].fun
        PROVE  \E j \in 1..Len(ts) :
                 Unplaced(ts[j], s) /\ cs[b].fun = cs[ts[j].start].fun
    <3>1. i \in 1..k
      <4>1. \A j \in 1..Len(st) : j \in 1..k \/ j \in k + 1..Len(st)
        BY <1>1
      <4>2. i \in k + 1..Len(st) => s > m
        BY <2>3 DEF Kept
      <4>3. ~(s > m)
        BY <1>4
      <4> QED
        BY <4>1, <4>2, <4>3
    <3>2. st[i].start \in 1..m
      BY <1>1, <3>1 DEF Kept, Stacked, FrameInv, Framed, Under
    <3> QED
      BY <1>1, <1>2, <2>1, <2>3, <3>1, <3>2
  <2> QED
    BY <1>2, <2>1, <2>2, <2>3
<1> QED
  BY <1>3, <1>4

\* Only new blocks have to be checked for their PHIs.
LEMMA PhisKept ==
  ASSUME NEW bs, NEW cs, NEW st, NEW ts, NEW p, NEW k, NEW m,
         PhisDone(bs, st), Grown(bs, cs, p, m), Kept(st, ts, k, m),
         \A b \in 1..Len(cs) : b > m =>
           \/ cs[b].phi = <<>> \/ Complete(cs, b)
           \/ Len(ts) = k + 1 /\ Counts(ts[k + 1]) /\ ts[k + 1].held = b
  PROVE  PhisDone(cs, ts)
<1>1. /\ m \in 1..Len(bs) /\ Len(bs) \in Nat /\ Len(cs) \in Nat /\ m \in Nat
      /\ k \in Nat /\ Len(ts) \in {k, k + 1} /\ Len(st) \in Nat /\ k <= Len(st)
      /\ \A i \in 1..k : i \in 1..Len(st) /\ i \in 1..Len(ts) /\ ts[i] = st[i]
      /\ Len(ts) = k + 1 => k + 1 \in 1..Len(ts)
  BY DEF Grown, Kept
<1>2. \A b \in 1..m : /\ b \in 1..Len(bs) /\ cs[b].phi = bs[b].phi
                      /\ PredsIn(cs, b) = PredsIn(bs, b)
  BY GrownFacts
<1>3. ASSUME NEW b \in 1..m
      PROVE  \/ cs[b].phi = <<>> \/ Complete(cs, b)
             \/ \E i \in 1..Len(ts) : Counts(ts[i]) /\ ts[i].held = b
  <2>1. \A i \in 1..Len(st) : Counts(st[i]) /\ st[i].held = b => i \in 1..k
    BY <1>1 DEF Kept
  <2> QED
    BY <1>1, <1>2, <2>1, SMTT(30) DEF PhisDone, Complete
<1>4. \A b \in 1..Len(cs) : b \in 1..m \/ b > m
  BY <1>1
<1> QED
  BY <1>1, <1>3, <1>4 DEF PhisDone

-----------------------------------------------------------------------------
(* A step on the blocks, of a call with mark m. *)

\* A step that changes p, blocks in T and new ones is within its call.
LEMMA ChangedGrows ==
  ASSUME NEW bs, NEW cs, NEW p, NEW m, NEW T,
         Changed(bs, cs, p, m, T), Closed(bs, m)
  PROVE  Grown(bs, cs, p, m)
<1>1. Len(bs) \in Nat /\ Len(cs) \in Nat /\ m \in Nat
  BY DEF Changed, Blocks
<1>2. ASSUME NEW b \in 1..m
      PROVE  /\ b # p => Alike(cs[b], bs[b])
             /\ cs[b].fun = bs[b].fun /\ cs[b].phi = bs[b].phi
  <2>1. b \in 1..Len(bs) /\ b \notin T
    BY <1>1 DEF Changed
  <2> QED
    BY <2>1 DEF Changed, Alike
<1>3. ASSUME NEW b \in 1..Len(cs), NEW s \in cs[b].succs
      PROVE  s \in 1..Len(cs) /\ (s > m \/ (b \in 1..m /\ s \in bs[b].succs))
  <2>1. s \in 1..Len(cs)
    BY <1>3 DEF Changed, Blocks
  <2>2. CASE s \in T \/ s > Len(bs)
    BY <1>1, <2>1, <2>2 DEF Changed
  <2>3. CASE b \in 1..Len(bs) /\ s \in bs[b].succs
    BY <1>1, <2>1, <2>3 DEF Closed
  <2> QED
    BY <2>2, <2>3 DEF Changed
<1> QED
  BY <1>1, <1>2, <1>3 DEF Grown, Changed

\* A block that is not in T has the edges to it that it had.
LEMMA ChangedPreds ==
  ASSUME NEW bs, NEW cs, NEW p, NEW m, NEW T, Changed(bs, cs, p, m, T),
         NEW b \in 1..Len(bs), b \notin T
  PROVE  PredsIn(cs, b) = PredsIn(bs, b) /\ cs[b].phi = bs[b].phi
<1>1. Len(bs) \in Nat /\ Len(cs) \in Nat /\ ~(b > Len(bs))
  BY DEF Changed, Blocks
<1>2. ASSUME NEW a \in PredsIn(cs, b) PROVE a \in PredsIn(bs, b)
  BY <1>1 DEF PredsIn, Changed
<1>3. ASSUME NEW a \in PredsIn(bs, b) PROVE a \in PredsIn(cs, b)
  BY <1>1 DEF PredsIn, Changed
<1>4. cs[b].phi = bs[b].phi
  BY DEF Changed, Alike
<1> QED
  BY <1>2, <1>3, <1>4

\* The call's region stays one.
LEMMA ChangedRegion ==
  ASSUME NEW bs, NEW cs, NEW p, NEW m, NEW T, Changed(bs, cs, p, m, T),
         NEW f, Region(bs, f), f.mark = m, p = f.start \/ p > f.mark,
         NEW g, g.mark = f.mark, g.start = f.start
  PROVE  Region(cs, g)
<1>1. Len(bs) \in Nat /\ Len(cs) \in Nat /\ m \in Nat /\ m <= Len(bs)
  BY DEF Changed, Blocks
<1> SUFFICES ASSUME NEW b \in 1..Len(cs), NEW s \in cs[b].succs
             PROVE  /\ b > m => s > m
                    /\ s > m => b > m \/ b = f.start
  BY DEF Region
<1>2. s \in 1..Len(cs)
  BY DEF Changed, Blocks
<1>3. CASE b \in 1..Len(bs) /\ s \in bs[b].succs
  BY <1>3 DEF Region
<1>4. CASE s \in T \/ s > Len(bs)
  <2>1. s > m
    BY <1>1, <1>2, <1>4 DEF Changed
  <2>2. CASE b \in 1..m /\ b # p
    <3>1. b \in 1..Len(bs) /\ b \notin T
      BY <1>1, <2>2 DEF Changed
    <3>2. s \in bs[b].succs
      BY <2>2, <3>1 DEF Changed, Alike
    <3> QED
      BY <1>3, <3>1, <3>2
  <2>3. b \in 1..m \/ b > m
    BY <1>1
  <2> QED
    BY <2>1, <2>2, <2>3
<1> QED
  BY <1>3, <1>4 DEF Changed

\* For the open blocks, only those that the step touches count.
LEMMA OpenChanged ==
  ASSUME NEW bs, NEW cs, NEW st, NEW ts, NEW p, NEW q, NEW k, NEW m, NEW T,
         Stacked(bs, st, p), OpenOnly(bs, st, p), st # <<>>, ts # <<>>,
         Changed(bs, cs, p, m, T), Closed(bs, m), Kept(st, ts, k, m),
         \A b \in 1..Len(bs) : b # p /\ b \notin T =>
           (Old(st, k, b) <=> b = q \/ New(ts, k, b)),
         \A b \in 1..Len(cs) : b = p \/ b \in T \/ b > Len(bs) =>
           /\ cs[b].ends = "open" <=> b = q \/ New(ts, k, b)
           /\ cs[b].ends = "open" => cs[b].succs = {}
  PROVE  OpenOnly(cs, ts, q)
<1>1. Grown(bs, cs, p, m)
  BY ChangedGrows
<1>2. Len(bs) \in Nat /\ Len(cs) \in Nat /\ m \in Nat /\ m <= Len(bs) /\ m \in 1..Len(bs)
  BY DEF Changed, Blocks
<1>3. k \in Nat /\ Len(st) \in Nat /\ \A i \in 1..Len(st) : i \in 1..k \/ i \in k + 1..Len(st)
  BY DEF Kept
<1>4. ASSUME NEW b \in 1..m, b # p
      PROVE  Old(st, k, b) <=> b = q \/ New(ts, k, b)
  BY <1>2, <1>4 DEF Changed
<1>5. ASSUME NEW b \in 1..Len(cs), b > m, b # p, b \notin T, b \in 1..Len(bs)
      PROVE  /\ cs[b].ends = "open" <=> b = q \/ New(ts, k, b)
             /\ cs[b].ends = "open" => cs[b].succs = {}
  <2>1. ASSUME NEW i \in 1..k PROVE ~Reserves(st[i], b)
    <3>1. Reserves(st[i], b) => b \in 1..m
      BY <1>2, LowReserves
    <3> QED
      BY <1>2, <1>5, <3>1
  <2>2. (\E i \in 1..Len(st) : Reserves(st[i], b)) <=> Old(st, k, b)
    BY <1>3, <2>1 DEF Old
  <2>3. /\ bs[b].ends = "open" <=> Old(st, k, b)
        /\ bs[b].ends = "open" => bs[b].succs = {}
    BY <1>5, <2>2 DEF OpenOnly
  <2>4. Alike(cs[b], bs[b])
    BY <1>5 DEF Changed
  <2> QED
    BY <1>5, <2>3, <2>4 DEF Alike
<1>6. ASSUME NEW b \in 1..Len(cs), b > m \/ b = p
      PROVE  /\ cs[b].ends = "open" <=> b = q \/ New(ts, k, b)
             /\ cs[b].ends = "open" => cs[b].succs = {}
  <2>1. b = p \/ b \in T \/ b > Len(bs) \/ (b # p /\ b \notin T /\ b \in 1..Len(bs))
    BY <1>2
  <2> QED
    BY <1>5, <1>6, <2>1
<1> QED
  BY <1>1, <1>4, <1>6, OpenKept

\* As AttachedKept, when only the blocks in T are changed by the step.
LEMMA AttachedChanged ==
  ASSUME NEW bs, NEW cs, NEW st, NEW ts, NEW p, NEW k, NEW m, NEW T,
         Stacked(bs, st, p), Attached(bs, st),
         Changed(bs, cs, p, m, T), Closed(bs, m), Kept(st, ts, k, m),
         \A b : UnplacedNow(ts, k, b) => b > m,
         \A b \in 1..Len(bs) : b \notin T =>
           (UnplacedOld(st, k, b) <=> UnplacedNow(ts, k, b)),
         \A b \in 1..Len(cs) : b \in T \/ b > Len(bs) =>
           IF UnplacedNow(ts, k, b) THEN cs[b].fun = Nowhere
           ELSE cs[b].fun \in 1..b /\ cs[cs[b].fun].fun = cs[b].fun
  PROVE  Attached(cs, ts)
<1>1. Grown(bs, cs, p, m)
  BY ChangedGrows
<1>2. Len(bs) \in Nat /\ Len(cs) \in Nat /\ m \in Nat /\ m <= Len(bs) /\ m \in 1..Len(bs)
  BY DEF Changed, Blocks
<1>3. /\ k \in Nat /\ Len(st) \in Nat /\ k <= Len(st)
      /\ \A i \in 1..Len(st) : i \in 1..k \/ i \in k + 1..Len(st)
      /\ \A i \in k + 1..Len(st) : i \in 1..Len(st)
  BY DEF Kept
<1>4. ASSUME NEW b \in 1..Len(cs), b > m
      PROVE  IF UnplacedNow(ts, k, b) THEN cs[b].fun = Nowhere
             ELSE cs[b].fun \in 1..b /\ cs[cs[b].fun].fun = cs[b].fun
  <2>1. CASE b \in T \/ b > Len(bs)
    BY <2>1
  <2>2. CASE b \notin T /\ b \in 1..Len(bs)
    <3>1. ~SomeUnplaced(st, k, b)
      <4>1. SomeUnplaced(st, k, b) => b \in 1..m
        BY <1>2, UnplacedKept
      <4> QED
        BY <1>2, <1>4, <4>1
    <3>2. SomeUnplaced(st, Len(st), b) <=> UnplacedNow(ts, k, b)
      <4>1. SomeUnplaced(st, Len(st), b) <=> UnplacedOld(st, k, b)
        BY <1>3, <3>1 DEF SomeUnplaced, UnplacedOld
      <4> QED
        BY <2>2, <4>1
    <3>3. cs[b].fun = bs[b].fun
      BY <2>2 DEF Changed, Alike
    <3>4. CASE UnplacedNow(ts, k, b)
      BY <2>2, <3>2, <3>3, <3>4 DEF Attached
    <3>5. CASE ~UnplacedNow(ts, k, b)
      <4>1. bs[b].fun \in 1..b /\ bs[bs[b].fun].fun = bs[b].fun
        BY <2>2, <3>2, <3>5 DEF Attached
      <4>2. bs[b].fun \in 1..Len(bs) /\ bs[b].fun # Nowhere
        BY <1>2, <2>2, <4>1 DEF Nowhere
      <4>3. cs[bs[b].fun].fun = bs[b].fun
        BY <4>1, <4>2 DEF Changed
      <4> QED
        BY <3>3, <3>5, <4>1, <4>3
    <3> QED
      BY <3>4, <3>5
  <2> QED
    BY <1>2, <2>1, <2>2
<1>5. \A b \in 1..m : ~UnplacedNow(ts, k, b)
  BY <1>2
<1> QED
  BY <1>1, <1>4, <1>5, AttachedKept

\* Placed or not yet: where the edges go that the call has made so far.
LEMMA EdgesChanged ==
  ASSUME NEW bs, NEW cs, NEW st, NEW ts, NEW p, NEW k, NEW m, NEW T,
         Stacked(bs, st, p), Edges(bs, st), Attached(bs, st), OpenOnly(bs, st, p),
         st # <<>>, Changed(bs, cs, p, m, T), Closed(bs, m), Kept(st, ts, k, m),
         \A i \in k + 1..Len(st) : \A s : Unplaced(st[i], s) =>
           \/ UnplacedNow(ts, k, s) /\ cs[ts[k + 1].start].fun = bs[st[i].start].fun
           \/ cs[s].fun = bs[st[i].start].fun,
         \A s \in 1..Len(bs) : s = cs[s].fun => s = bs[s].fun,
         \A b \in 1..Len(cs) : \A s \in cs[b].succs :
           s \in T \/ s > Len(bs) =>
             \/ b \in 1..Len(bs) /\ s \in bs[b].succs
             \/ /\ s # cs[s].fun
                /\ \/ cs[s].fun = cs[b].fun
                   \/ UnplacedNow(ts, k, s) /\ cs[b].fun = cs[ts[k + 1].start].fun
  PROVE  Edges(cs, ts)
<1>1. Grown(bs, cs, p, m)
  BY ChangedGrows
<1>2. Len(bs) \in Nat /\ Len(cs) \in Nat /\ m \in Nat /\ m <= Len(bs) /\ m \in 1..Len(bs)
  BY DEF Changed, Blocks
<1>3. k \in Nat /\ Len(st) \in Nat /\ k <= Len(st)
      /\ \A i \in 1..Len(st) : i \in 1..k \/ i \in k + 1..Len(st)
  BY DEF Kept
<1>4. ASSUME NEW b \in 1..Len(bs), NEW s \in bs[b].succs, s > m
      PROVE  /\ s # cs[s].fun
             /\ \/ cs[s].fun = cs[b].fun
                \/ UnplacedNow(ts, k, s) /\ cs[b].fun = cs[ts[k + 1].start].fun
  <2>1. s \in 1..Len(bs) /\ s # bs[s].fun
    BY DEF Changed, Blocks, Edges
  <2>2. bs[b].fun # Nowhere /\ cs[b].fun = bs[b].fun
    <3>1. bs[b].ends # "open"
      BY DEF OpenOnly
    <3>2. ~SomeUnplaced(st, Len(st), b)
      BY <3>1, UnplacedReserved DEF OpenOnly, SomeUnplaced
    <3>3. bs[b].fun \in 1..b
      BY <3>2 DEF Attached
    <3> QED
      BY <3>3 DEF Changed, Nowhere
  <2>3. CASE bs[s].fun = bs[b].fun
    BY <2>1, <2>2, <2>3 DEF Changed
  <2>4. CASE \E i \in 1..Len(st) :
               Unplaced(st[i], s) /\ bs[b].fun = bs[st[i].start].fun
    <3>1. PICK i \in 1..Len(st) :
            Unplaced(st[i], s) /\ bs[b].fun = bs[st[i].start].fun
      BY <2>4
    <3>2. i \notin 1..k
      <4>1. i \in 1..k => SomeUnplaced(st, k, s)
        BY <3>1 DEF SomeUnplaced
      <4>2. SomeUnplaced(st, k, s) => s \in 1..m
        BY <1>2, UnplacedKept
      <4> QED
        BY <1>2, <1>4, <4>1, <4>2
    <3>3. i \in k + 1..Len(st)
      BY <1>3, <3>2
    <3> QED
      BY <2>1, <2>2, <3>1, <3>3
  <2> QED
    BY <2>3, <2>4 DEF Edges
<1>5. ASSUME NEW b \in 1..Len(cs), NEW s \in cs[b].succs, s > m
      PROVE  /\ s # cs[s].fun
             /\ \/ cs[s].fun = cs[b].fun
                \/ UnplacedNow(ts, k, s) /\ cs[b].fun = cs[ts[k + 1].start].fun
  <2>1. CASE b \in 1..Len(bs) /\ s \in bs[b].succs
    BY <1>4, <1>5, <2>1
  <2>2. CASE ~(b \in 1..Len(bs) /\ s \in bs[b].succs)
    BY <2>2 DEF Changed
  <2> QED
    BY <2>1, <2>2
<1> QED
  BY <1>1, <1>5, EdgesKept

\* As PhisKept, when only the blocks in T are changed by the step.
LEMMA PhisChanged ==
  ASSUME NEW bs, NEW cs, NEW st, NEW ts, NEW p, NEW k, NEW m, NEW T,
         PhisDone(bs, st),
         Changed(bs, cs, p, m, T), Closed(bs, m), Kept(st, ts, k, m),
         \A i \in 1..k : Counts(st[i]) => st[i].held <= m,
         \A b \in 1..Len(bs) : b \notin T =>
           \A i \in k + 1..Len(st) : Counts(st[i]) /\ st[i].held = b =>
             Len(ts) = k + 1 /\ Counts(ts[k + 1]) /\ ts[k + 1].held = b,
         \A b \in 1..Len(cs) : b \in T \/ b > Len(bs) =>
           \/ cs[b].phi = <<>> \/ Complete(cs, b)
           \/ Len(ts) = k + 1 /\ Counts(ts[k + 1]) /\ ts[k + 1].held = b
  PROVE  PhisDone(cs, ts)
<1>1. Grown(bs, cs, p, m)
  BY ChangedGrows
<1>2. Len(bs) \in Nat /\ Len(cs) \in Nat /\ m \in Nat /\ m <= Len(bs)
  BY DEF Changed, Blocks
<1>3. k \in Nat /\ Len(st) \in Nat
      /\ \A i \in 1..Len(st) : i \in 1..k \/ i \in k + 1..Len(st)
  BY DEF Kept
<1>4. ASSUME NEW b \in 1..Len(cs), b > m, b \in 1..Len(bs), b \notin T
      PROVE  \/ cs[b].phi = <<>> \/ Complete(cs, b)
             \/ Len(ts) = k + 1 /\ Counts(ts[k + 1]) /\ ts[k + 1].held = b
  <2>1. PredsIn(cs, b) = PredsIn(bs, b) /\ cs[b].phi = bs[b].phi
    BY <1>4, ChangedPreds
  <2>2. \A i \in 1..Len(st) : Counts(st[i]) /\ st[i].held = b => i \in k + 1..Len(st)
    BY <1>2, <1>3, <1>4
  <2> QED
    BY <1>4, <2>1, <2>2 DEF PhisDone, Complete
<1>5. \A b \in 1..Len(cs) : b \in 1..Len(bs) \/ b > Len(bs)
  BY <1>2
<1>6. \A b \in 1..Len(cs) : b > m =>
        \/ cs[b].phi = <<>> \/ Complete(cs, b)
        \/ Len(ts) = k + 1 /\ Counts(ts[k + 1]) /\ ts[k + 1].held = b
  BY <1>4, <1>5
<1> QED
  BY <1>1, <1>6, PhisKept

-----------------------------------------------------------------------------
(* The call on top of the stack goes on or returns. *)

\* What the frame on top of the stack knows.
LEMMA TopFrame ==
  ASSUME NEW bs, NEW st, NEW p, NEW k, NEW f, OnTop(bs, st, p, k, f)
  PROVE  /\ f \in Frame /\ FrameInv(bs, f) /\ Here(f, p) /\ Closed(bs, f.mark)
         /\ Len(bs) \in Nat /\ f.mark \in 1..Len(bs) /\ f.start \in 1..f.mark
         /\ \A i \in 1..k : Nested(st[i], f) /\ FrameInv(bs, st[i])
         /\ f.kind = "main" <=> k = 0
         /\ bs[p].ends = "open" /\ bs[p].succs = {}
         /\ bs[p].fun \in 1..p /\ bs[bs[p].fun].fun = bs[p].fun
         /\ f.kind # "fun" => bs[f.start].fun = bs[p].fun /\ bs[p].fun <= f.mark
<1>1. k + 1 \in 1..Len(st) /\ \A i \in 1..k : i \in 1..Len(st) /\ i < k + 1
  BY DEF OnTop
<1>2. f \in Frame /\ FrameInv(bs, f) /\ Here(f, p) /\ (f.kind = "main" <=> k = 0)
  BY <1>1 DEF OnTop, Shape, Stacked
<1>3. \A i \in 1..k : Nested(st[i], f) /\ FrameInv(bs, st[i])
  BY <1>1 DEF OnTop, Shape, Stacked
<1>4. Len(bs) \in Nat /\ f.mark \in 1..Len(bs) /\ f.start \in 1..f.mark
  BY <1>2 DEF OnTop, Blocks, FrameInv, Framed
<1>5. Closed(bs, f.mark)
  BY <1>2, <1>4 DEF FrameInv, Region, Closed
<1>6. bs[p].ends = "open" /\ bs[p].succs = {}
  BY <1>1 DEF OnTop, Shape, OpenOnly
<1>7. bs[p].fun \in 1..p /\ bs[bs[p].fun].fun = bs[p].fun
  <2>1. ~SomeUnplaced(st, Len(st), p)
    BY UnplacedReserved DEF OnTop, Shape, Stacked, Here, SomeUnplaced
  <2> QED
    BY <2>1 DEF OnTop, Shape, Attached
<1>8. ASSUME f.kind # "fun"
      PROVE  bs[f.start].fun = bs[p].fun /\ bs[p].fun <= f.mark
  <2>1. NoFun(st, k + 1, Len(st))
    BY <1>1, <1>8 DEF OnTop, NoFun
  <2>2. bs[f.start].fun = bs[p].fun
    BY <1>1, <2>1 DEF OnTop, Shape, SameFun
  <2>3. f.start \in 1..Len(bs) /\ bs[f.start].fun # Nowhere
    BY <1>4, <1>7, <2>2 DEF Nowhere
  <2>4. bs[f.start].fun \in 1..f.start
    BY <2>3 DEF OnTop, Shape, Attached
  <2> QED
    BY <1>4, <2>2, <2>4
<1> QED
  BY <1>2, <1>3, <1>4, <1>5, <1>6, <1>7, <1>8

\* A step of the top frame keeps the frames below it.
LEMMA BelowKept ==
  ASSUME NEW bs, NEW st, NEW p, NEW k, NEW f, OnTop(bs, st, p, k, f),
         NEW ts, NEW g, Replaced(st, ts, k, g) \/ Dropped(st, ts, k)
  PROVE  /\ Kept(st, ts, k, f.mark)
         /\ Replaced(st, ts, k, g) => Len(ts) = k + 1 /\ ts[k + 1] = g
         /\ Dropped(st, ts, k) => Len(ts) = k
<1>1. /\ Len(ts) \in {k, k + 1} /\ \A i \in 1..k : ts[i] = st[i]
      /\ Replaced(st, ts, k, g) => Len(ts) = k + 1 /\ ts[k + 1] = g
      /\ Dropped(st, ts, k) => Len(ts) = k
  <2> DEFINE B == SubSeq(st, 1, k)
  <2>1. /\ k \in Nat /\ B \in Seq(Frame) /\ Len(B) = k
        /\ \A i \in 1..k : B[i] = st[i]
    BY DEF OnTop
  <2> HIDE DEF B
  <2>2. Replaced(st, ts, k, g) =>
          Len(ts) = k + 1 /\ ts[k + 1] = g /\ \A i \in 1..k : ts[i] = st[i]
    <3>1. Replaced(st, ts, k, g) => g \in Frame /\ ts = Append(B, g)
      BY DEF Replaced, B
    <3> QED
      BY <2>1, <3>1
  <2>3. Dropped(st, ts, k) => Len(ts) = k /\ \A i \in 1..k : ts[i] = st[i]
    <3>1. Dropped(st, ts, k) => ts = B
      BY DEF Dropped, B
    <3> QED
      BY <2>1, <3>1
  <2> QED
    BY <2>2, <2>3
<1>2. /\ Framed(bs, f) /\ f.mark \in 1..Len(bs) /\ Len(bs) \in Nat
      /\ \A i \in 1..k : Nested(st[i], f)
  BY TopFrame DEF FrameInv
<1>3. ASSUME NEW i \in k + 1..Len(st)
      PROVE  /\ \A b : Unplaced(st[i], b) => b > f.mark
             /\ Counts(st[i]) => st[i].held > f.mark
  <2>1. st[i] = f
    BY DEF OnTop
  <2>2. \A b : Unplaced(f, b) => b > f.mark
    BY <1>2 DEF Framed, Unplaced, HasNext, HasAfter, At
  <2>3. Counts(f) => f.held > f.mark
    BY <1>2 DEF Framed, Counts, HasHeader
  <2> QED
    BY <2>1, <2>2, <2>3
<1>4. \A i \in 1..k : Under(st[i], f.mark)
  BY <1>2 DEF Nested
<1> QED
  BY <1>1, <1>3, <1>4 DEF Kept, OnTop

\* A call that is not of funGen() or of main() goes on as g or returns, and
\* leaves the insert block at q.  All that it touches is in its function.
LEMMA TopChanged ==
  ASSUME NEW bs, NEW cs, NEW st, NEW ts, NEW p, NEW q \in Nat, NEW k, NEW f, NEW g,
         NEW T, OnTop(bs, st, p, k, f), f.kind \notin {"fun", "main"},
         Changed(bs, cs, p, f.mark, T),
         \/ /\ Replaced(st, ts, k, g)
            /\ g.kind = f.kind /\ g.start = f.start /\ g.mark = f.mark
            /\ Framed(cs, g) /\ Placed(cs, g) /\ PhiFacts(cs, g) /\ Here(g, q)
         \/ Dropped(st, ts, k),
         q = p \/ q > f.mark, cs[q].fun = bs[p].fun,
         \A b \in 1..Len(bs) : b # p /\ b \notin T =>
           (Reserves(f, b) <=> b = q \/ New(ts, k, b)),
         \A b \in 1..Len(cs) : b = p \/ b \in T \/ b > Len(bs) =>
           /\ cs[b].ends = "open" <=> b = q \/ New(ts, k, b)
           /\ cs[b].ends = "open" => cs[b].succs = {},
         \A b \in 1..Len(bs) : b \notin T =>
           (Unplaced(f, b) <=> UnplacedNow(ts, k, b)),
         \A b \in 1..Len(cs) : b \in T \/ b > Len(bs) =>
           cs[b].fun = IF UnplacedNow(ts, k, b) THEN Nowhere ELSE bs[p].fun
  PROVE  Shape(cs, ts, q)
<1> DEFINE m == f.mark
           F == bs[p].fun
<1>1. /\ FrameInv(bs, f) /\ Here(f, p) /\ Closed(bs, m)
      /\ Len(bs) \in Nat /\ m \in 1..Len(bs) /\ f.start \in 1..m
      /\ \A i \in 1..k : Nested(st[i], f) /\ FrameInv(bs, st[i])
      /\ k # 0 /\ F \in 1..p /\ bs[F].fun = F /\ bs[f.start].fun = F /\ F <= m
  BY TopFrame
<1>2. /\ Kept(st, ts, k, m)
      /\ Replaced(st, ts, k, g) => Len(ts) = k + 1 /\ ts[k + 1] = g
      /\ Dropped(st, ts, k) => Len(ts) = k
  BY BelowKept
<1>3. Grown(bs, cs, p, m)
  BY <1>1, ChangedGrows
<1>4. /\ Stacked(bs, st, p) /\ SameFun(bs, st, p) /\ OpenOnly(bs, st, p)
      /\ Attached(bs, st) /\ Edges(bs, st) /\ k \in Nat /\ Len(st) = k + 1
      /\ st[k + 1] = f /\ Len(cs) \in Nat /\ Len(bs) <= Len(cs) /\ p \in 1..Len(bs)
      /\ st # <<>> /\ F \in 1..Len(bs)
  BY <1>1 DEF OnTop, Shape, Changed, Blocks
<1>5. cs[F].fun = F /\ cs[f.start].fun = F /\ cs[p].fun = F
  <2>1. bs[F].fun = F /\ bs[f.start].fun = F /\ F # Nowhere
        /\ F \in 1..Len(bs) /\ f.start \in 1..Len(bs)
    BY <1>1, <1>4 DEF Nowhere
  <2> HIDE DEF F
  <2>2. \A b \in 1..Len(bs) : bs[b].fun # Nowhere => cs[b].fun = bs[b].fun
    BY DEF Changed
  <2>3. cs[p].fun = F
    BY DEF Changed, F
  <2> QED
    BY <2>1, <2>2, <2>3
<1>o. \A b : /\ Old(st, k, b) <=> Reserves(f, b)
             /\ UnplacedOld(st, k, b) <=> Unplaced(f, b)
  <2>1. \A i : i \in k + 1..Len(st) <=> i = k + 1
    BY <1>4
  <2> QED
    BY <1>4, <2>1 DEF Old, UnplacedOld
<1>u. \A b : UnplacedNow(ts, k, b) => b > m /\ b \in 1..Len(cs)
  <2> SUFFICES ASSUME NEW b, UnplacedNow(ts, k, b) PROVE b > m /\ b \in 1..Len(cs)
    OBVIOUS
  <2>1. Len(ts) = k + 1 /\ ~Dropped(st, ts, k)
    BY <1>2, <1>4 DEF UnplacedNow
  <2>2. Framed(cs, g) /\ g.mark = m /\ Unplaced(g, b)
    BY <1>2, <2>1 DEF UnplacedNow
  <2> QED
    BY <1>1, <1>4, <2>2, SMTT(40) DEF Framed, Unplaced, HasNext, HasAfter, At
<1> HIDE DEF m, F
<1>6. Stacked(cs, ts, q)
  <2>1. \A i \in 1..k : Here(st[i], q)
    <3> SUFFICES ASSUME NEW i \in 1..k PROVE Here(st[i], q)
      OBVIOUS
    <3>1. CASE q = p
      BY <1>4, <3>1 DEF Stacked
    <3>2. CASE q > m
      <4>1. Framed(bs, st[i]) /\ Under(st[i], m)
        BY <1>1 DEF FrameInv, Nested, m
      <4> QED
        BY <1>1, <3>2, <4>1, HereMoves
    <3> QED
      BY <3>1, <3>2 DEF m
  <2>2. ASSUME Len(ts) = k + 1
        PROVE  /\ FrameInv(cs, ts[k + 1]) /\ Here(ts[k + 1], q)
               /\ \A i \in 1..k : Nested(st[i], ts[k + 1])
               /\ ts[k + 1].kind = "main" <=> k = 0
    <3>1. ~Dropped(st, ts, k)
      BY <1>2, <1>4, <2>2
    <3>2. /\ ts[k + 1] = g /\ g.kind = f.kind /\ g.start = f.start /\ g.mark = f.mark
          /\ Framed(cs, g) /\ Placed(cs, g) /\ PhiFacts(cs, g) /\ Here(g, q)
      BY <1>2, <3>1
    <3>3. Region(bs, f) /\ (p = f.start \/ p > f.mark)
      BY <1>1 DEF FrameInv, Here
    <3>4. Region(cs, g)
      BY <3>2, <3>3, ChangedRegion
    <3>5. \A i \in 1..k : Nested(st[i], g)
      BY <1>1, <3>2 DEF Nested
    <3> QED
      BY <1>1, <3>2, <3>4, <3>5 DEF FrameInv
  <2> QED
    BY <1>2, <1>3, <1>4, <2>1, <2>2, StackedKept
<1>7. SameFun(cs, ts, q)
  <2>1. Len(ts) = k => /\ Len(st) = k + 1 /\ st[k + 1].kind # "fun"
                       /\ cs[q].fun = bs[st[k + 1].start].fun
    BY <1>1, <1>4 DEF F
  <2>2. ASSUME Len(ts) = k + 1
        PROVE  /\ ts[k + 1].start = f.start
               /\ cs[ts[k + 1].start].fun = F
    <3>1. ~Dropped(st, ts, k)
      BY <1>2, <1>4, <2>2
    <3> QED
      BY <1>2, <1>5, <3>1
  <2> QED
    BY <1>1, <1>2, <1>3, <1>4, <2>1, <2>2, SameFunKept DEF F
<1>8. OpenOnly(cs, ts, q)
  <2>1. ts # <<>>
    BY <1>1, <1>2, <1>4 DEF Kept
  <2>2. \A b \in 1..Len(bs) : b # p /\ b \notin T =>
           (Old(st, k, b) <=> b = q \/ New(ts, k, b))
    BY <1>o
  <2>3. Changed(bs, cs, p, m, T)
    BY DEF m
  <2> QED
    BY <1>1, <1>2, <1>4, <2>1, <2>2, <2>3, OpenChanged
<1>9. Attached(cs, ts)
  <2>1. ASSUME NEW b \in 1..Len(cs), b \in T \/ b > Len(bs)
        PROVE  IF UnplacedNow(ts, k, b) THEN cs[b].fun = Nowhere
               ELSE cs[b].fun \in 1..b /\ cs[cs[b].fun].fun = cs[b].fun
    <3>1. b > m
      BY <1>1, <1>4, <2>1 DEF Changed, m
    <3>2. F \in 1..b
      BY <1>1, <1>4, <3>1 DEF m, F
    <3> QED
      BY <1>5, <2>1, <3>2 DEF F
  <2>2. \A b \in 1..Len(bs) : b \notin T =>
           (UnplacedOld(st, k, b) <=> UnplacedNow(ts, k, b))
    BY <1>o
  <2>3. Changed(bs, cs, p, m, T)
    BY DEF m
  <2> QED
    BY <1>1, <1>2, <1>4, <1>u, <2>1, <2>2, <2>3, AttachedChanged
<1>10. Edges(cs, ts)
  <2>1. ASSUME NEW i \in k + 1..Len(st), NEW s, Unplaced(st[i], s)
        PROVE  \/ UnplacedNow(ts, k, s) /\ cs[ts[k + 1].start].fun = bs[st[i].start].fun
               \/ cs[s].fun = bs[st[i].start].fun
    <3>1. i = k + 1 /\ st[i] = f
      BY <1>4
    <3>2. s \in 1..Len(bs)
      <4>1. Framed(bs, f) /\ Unplaced(f, s) /\ m \in Nat /\ f.mark = m
        BY <1>1, <2>1, <3>1 DEF FrameInv, m
      <4> QED
        BY <1>1, <4>1 DEF Framed, Unplaced, HasNext, HasAfter, At
    <3>3. UnplacedNow(ts, k, s) => ts[k + 1].start = f.start
      BY <1>2, <1>4 DEF UnplacedNow
    <3>4. s \in 1..Len(cs)
      BY <1>4, <3>2
    <3>5. CASE s \in T
      BY <1>1, <1>5, <3>1, <3>3, <3>4, <3>5 DEF F
    <3>6. CASE s \notin T
      BY <1>1, <1>5, <2>1, <3>1, <3>2, <3>3, <3>6 DEF F
    <3> QED
      BY <3>5, <3>6
  <2>2. ASSUME NEW s \in 1..Len(bs), s = cs[s].fun PROVE s = bs[s].fun
    <3>1. CASE bs[s].fun # Nowhere
      BY <2>2, <3>1 DEF Changed
    <3>2. CASE bs[s].fun = Nowhere /\ s \in T
      <4>1. s > m /\ s \in 1..Len(cs)
        BY <1>4, <3>2 DEF Changed, m
      <4> QED
        BY <1>1, <1>4, <2>2, <3>2, <4>1 DEF Nowhere, m, F
    <3>3. CASE bs[s].fun = Nowhere /\ s \notin T
      <4>1. s # p
        BY <1>1, <3>3 DEF Nowhere, F
      <4> QED
        BY <2>2, <3>3, <4>1 DEF Changed, Alike
    <3> QED
      BY <3>1, <3>2, <3>3
  <2>3. ASSUME NEW b \in 1..Len(cs), NEW s \in cs[b].succs, s \in T \/ s > Len(bs),
               ~(b \in 1..Len(bs) /\ s \in bs[b].succs)
        PROVE  /\ s # cs[s].fun
               /\ \/ cs[s].fun = cs[b].fun
                  \/ UnplacedNow(ts, k, s) /\ cs[b].fun = cs[ts[k + 1].start].fun
    <3>1. s \in 1..Len(cs) /\ s > m
      BY <1>1, <1>4, <2>3, SMTT(40) DEF Changed, Blocks, m
    <3>2. cs[s].fun = IF UnplacedNow(ts, k, s) THEN Nowhere ELSE F
      BY <2>3, <3>1 DEF F
    <3>3. s # cs[s].fun
      BY <1>1, <3>1, <3>2 DEF Nowhere, m, F
    <3>4. b = p \/ b \in T \/ b > Len(bs)
      <4>1. b \in 1..Len(bs) /\ b # p /\ b \notin T => cs[b].succs = bs[b].succs
        BY DEF Changed, Alike
      <4>2. b \in 1..Len(bs) \/ b > Len(bs)
        BY <1>1
      <4> QED
        BY <2>3, <4>1, <4>2
    <3>5. cs[b].fun = F
      <4>1. cs[b].ends # "open"
        BY <2>3, <3>4
      <4>2. ~New(ts, k, b)
        BY <3>4, <4>1
      <4>3. ~UnplacedNow(ts, k, b)
        BY <4>2, UnplacedReserved DEF New, UnplacedNow
      <4> QED
        BY <1>5, <3>4, <4>3 DEF F
    <3>6. UnplacedNow(ts, k, s) => cs[ts[k + 1].start].fun = F
      BY <1>2, <1>4, <1>5 DEF UnplacedNow
    <3> QED
      BY <3>2, <3>3, <3>5, <3>6
  <2>4. Changed(bs, cs, p, m, T)
    BY DEF m
  <2>5. \A i \in k + 1..Len(st) : \A s : Unplaced(st[i], s) =>
           \/ UnplacedNow(ts, k, s) /\ cs[ts[k + 1].start].fun = bs[st[i].start].fun
           \/ cs[s].fun = bs[st[i].start].fun
    BY <2>1
  <2>6. \A s \in 1..Len(bs) : s = cs[s].fun => s = bs[s].fun
    BY <2>2
  <2>7. \A b \in 1..Len(cs) : \A s \in cs[b].succs :
           s \in T \/ s > Len(bs) =>
             \/ b \in 1..Len(bs) /\ s \in bs[b].succs
             \/ /\ s # cs[s].fun
                /\ \/ cs[s].fun = cs[b].fun
                   \/ UnplacedNow(ts, k, s) /\ cs[b].fun = cs[ts[k + 1].start].fun
    BY <2>3
  <2> QED
    BY <1>1, <1>2, <1>4, <2>4, <2>5, <2>6, <2>7, EdgesChanged
<1> QED
  BY <1>6, <1>7, <1>8, <1>9, <1>10 DEF Shape

\* The same, if it goes on as g.
LEMMA GoesOn ==
  ASSUME NEW bs, NEW cs, NEW st, NEW ts, NEW p, NEW q \in Nat, NEW k, NEW f, NEW g,
         NEW T, OnTop(bs, st, p, k, f), f.kind \notin {"fun", "main"},
         Changed(bs, cs, p, f.mark, T), Replaced(st, ts, k, g),
         g.kind = f.kind, g.start = f.start, g.mark = f.mark,
         Framed(cs, g), Placed(cs, g), PhiFacts(cs, g), Here(g, q),
         q = p \/ q > f.mark, cs[q].fun = bs[p].fun,
         \A b \in 1..Len(bs) : b # p /\ b \notin T =>
           (Reserves(f, b) <=> b = q \/ Reserves(g, b)),
         \A b \in 1..Len(cs) : b = p \/ b \in T \/ b > Len(bs) =>
           /\ cs[b].ends = "open" <=> b = q \/ Reserves(g, b)
           /\ cs[b].ends = "open" => cs[b].succs = {},
         \A b \in 1..Len(bs) : b \notin T => (Unplaced(f, b) <=> Unplaced(g, b)),
         \A b \in 1..Len(cs) : b \in T \/ b > Len(bs) =>
           cs[b].fun = IF Unplaced(g, b) THEN Nowhere ELSE bs[p].fun
  PROVE  Shape(cs, ts, q)
<1>1. \A b : /\ New(ts, k, b) <=> Reserves(g, b)
             /\ UnplacedNow(ts, k, b) <=> Unplaced(g, b)
  BY BelowKept DEF New, UnplacedNow
<1> QED
  BY <1>1, TopChanged

\* The same, if it returns.
LEMMA Returns ==
  ASSUME NEW bs, NEW cs, NEW st, NEW ts, NEW p, NEW q \in Nat, NEW k, NEW f,
         NEW T, OnTop(bs, st, p, k, f), f.kind \notin {"fun", "main"},
         Changed(bs, cs, p, f.mark, T), Dropped(st, ts, k),
         q = p \/ q > f.mark, cs[q].fun = bs[p].fun,
         \A b \in 1..Len(bs) : b # p /\ b \notin T => (Reserves(f, b) <=> b = q),
         \A b \in 1..Len(cs) : b = p \/ b \in T \/ b > Len(bs) =>
           /\ cs[b].ends = "open" <=> b = q
           /\ cs[b].ends = "open" => cs[b].succs = {},
         \A b \in 1..Len(bs) : Unplaced(f, b) => b \in T,
         \A b \in 1..Len(cs) : b \in T \/ b > Len(bs) => cs[b].fun = bs[p].fun
  PROVE  Shape(cs, ts, q)
<1>1. Len(ts) = k /\ k \in Nat
  <2>1. k \in Nat
    BY DEF OnTop
  <2>2. Replaced(st, ts, k, f) \/ Dropped(st, ts, k)
    OBVIOUS
  <2> QED
    BY <2>1, <2>2, BelowKept
<1>2. \A b : ~New(ts, k, b) /\ ~UnplacedNow(ts, k, b)
  BY <1>1 DEF New, UnplacedNow
<1> QED
  BY <1>2, TopChanged

\* The PHIs of the blocks that the step touches are those to look at.
LEMMA TopPhis ==
  ASSUME NEW bs, NEW cs, NEW st, NEW ts, NEW p, NEW k, NEW f, NEW g, NEW T,
         OnTop(bs, st, p, k, f), Changed(bs, cs, p, f.mark, T),
         Replaced(st, ts, k, g) \/ Dropped(st, ts, k), PhisDone(bs, st),
         Counts(f) /\ f.held \notin T =>
           Replaced(st, ts, k, g) /\ Counts(g) /\ g.held = f.held,
         \A b \in 1..Len(cs) : b \in T \/ b > Len(bs) =>
           \/ cs[b].phi = <<>> \/ Complete(cs, b)
           \/ Replaced(st, ts, k, g) /\ Counts(g) /\ g.held = b
  PROVE  PhisDone(cs, ts)
<1>1. /\ Kept(st, ts, k, f.mark) /\ k \in Nat
      /\ Replaced(st, ts, k, g) => Len(ts) = k + 1 /\ ts[k + 1] = g
  <2>1. k \in Nat
    BY DEF OnTop
  <2> QED
    BY <2>1, BelowKept
<1>2. Closed(bs, f.mark) /\ \A i \in 1..k : Nested(st[i], f)
  BY TopFrame
<1>3. \A i \in 1..k : Counts(st[i]) => st[i].held <= f.mark
  BY <1>2 DEF Nested, Under, Counts, HasHeader
<1>4. \A i \in k + 1..Len(st) : st[i] = f
  BY DEF OnTop
<1>5. \A b \in 1..Len(bs) : b \notin T =>
        \A i \in k + 1..Len(st) : Counts(st[i]) /\ st[i].held = b =>
          Len(ts) = k + 1 /\ Counts(ts[k + 1]) /\ ts[k + 1].held = b
  BY <1>1, <1>4
<1>6. \A b \in 1..Len(cs) : b \in T \/ b > Len(bs) =>
        \/ cs[b].phi = <<>> \/ Complete(cs, b)
        \/ Len(ts) = k + 1 /\ Counts(ts[k + 1]) /\ ts[k + 1].held = b
  BY <1>1
<1> QED
  BY <1>1, <1>2, <1>3, <1>5, <1>6, PhisChanged

\* PHIs stay matched when the top frame goes on as g.
LEMMA GoesOnPhis ==
  ASSUME NEW bs, NEW cs, NEW st, NEW ts, NEW p, NEW k, NEW f, NEW g, NEW T,
         OnTop(bs, st, p, k, f), Changed(bs, cs, p, f.mark, T),
         Replaced(st, ts, k, g), PhisDone(bs, st),
         Counts(f) /\ f.held \notin T => Counts(g) /\ g.held = f.held,
         \A b \in 1..Len(cs) : b \in T \/ b > Len(bs) =>
           cs[b].phi = <<>> \/ Complete(cs, b) \/ (Counts(g) /\ g.held = b)
  PROVE  PhisDone(cs, ts)
<1>1. Replaced(st, ts, k, g) \/ Dropped(st, ts, k)
  OBVIOUS
<1>2. \A b \in 1..Len(cs) : b \in T \/ b > Len(bs) =>
        \/ cs[b].phi = <<>> \/ Complete(cs, b)
        \/ Replaced(st, ts, k, g) /\ Counts(g) /\ g.held = b
  OBVIOUS
<1>3. Counts(f) /\ f.held \notin T =>
        Replaced(st, ts, k, g) /\ Counts(g) /\ g.held = f.held
  OBVIOUS
<1> QED
  BY <1>1, <1>2, <1>3, TopPhis

\* PHIs stay matched when the top frame returns.
LEMMA ReturnsPhis ==
  ASSUME NEW bs, NEW cs, NEW st, NEW ts, NEW p, NEW k, NEW f, NEW T,
         OnTop(bs, st, p, k, f), Changed(bs, cs, p, f.mark, T),
         Dropped(st, ts, k), PhisDone(bs, st), Counts(f) => f.held \in T,
         \A b \in 1..Len(cs) : b \in T \/ b > Len(bs) =>
           cs[b].phi = <<>> \/ Complete(cs, b)
  PROVE  PhisDone(cs, ts)
<1>1. Replaced(st, ts, k, f) \/ Dropped(st, ts, k)
  OBVIOUS
<1>2. \A b \in 1..Len(cs) : b \in T \/ b > Len(bs) =>
        \/ cs[b].phi = <<>> \/ Complete(cs, b)
        \/ Replaced(st, ts, k, f) /\ Counts(f) /\ f.held = b
  OBVIOUS
<1>3. Counts(f) /\ f.held \notin T =>
        Replaced(st, ts, k, f) /\ Counts(f) /\ f.held = f.held
  OBVIOUS
<1> QED
  BY <1>1, <1>2, <1>3, TopPhis

\* Else parts stay where they are when a frame goes on or returns.
LEMMA TopElse ==
  ASSUME NEW bs, NEW st, NEW ts, NEW p, NEW q, NEW k, NEW f, NEW g,
         OnTop(bs, st, p, k, f), ElseStays(st, p), f.kind # "fun",
         \/ /\ Replaced(st, ts, k, g) /\ g.kind = f.kind /\ g.start = f.start
            /\ At(g, "if", {"else"}) => q = g.next
         \/ Dropped(st, ts, k),
         q = p \/ f.kind \in Branching
  PROVE  ElseStays(ts, q)
<1>1. /\ k \in Nat /\ Len(st) = k + 1 /\ st[k + 1] = f
      /\ Len(ts) \in {k, k + 1} /\ \A i \in 1..k : ts[i] = st[i]
      /\ Len(ts) = k + 1 => /\ ts[k + 1] = g /\ g.kind = f.kind /\ g.start = f.start
                            /\ At(g, "if", {"else"}) => q = g.next
  <2>1. k \in Nat /\ Len(st) = k + 1 /\ st[k + 1] = f
    BY DEF OnTop
  <2>2. /\ Kept(st, ts, k, f.mark)
        /\ Replaced(st, ts, k, g) => Len(ts) = k + 1 /\ ts[k + 1] = g
        /\ Dropped(st, ts, k) => Len(ts) = k
    BY BelowKept
  <2>3. Len(ts) \in {k, k + 1} /\ \A i \in 1..k : ts[i] = st[i]
    BY <2>2 DEF Kept
  <2> QED
    BY <2>1, <2>2, <2>3
<1> SUFFICES ASSUME NEW i \in 1..Len(ts), At(ts[i], "if", {"else"})
             PROVE  /\ \A j \in i + 1..Len(ts) :
                         NoFun(ts, i + 1, j - 1) =>
                           ts[j].start = ts[i].next /\ ts[j].kind \notin Branching
                    /\ NoFun(ts, i + 1, Len(ts)) => q = ts[i].next
  BY DEF ElseStays
<1>2. CASE i \in 1..k
  <2>1. i \in 1..Len(st) /\ ts[i] = st[i] /\ At(st[i], "if", {"else"})
    BY <1>1, <1>2
  <2>2. \A j \in i + 1..k + 1 : NoFun(ts, i + 1, j - 1) => NoFun(st, i + 1, j - 1)
    BY <1>1, <1>2 DEF NoFun
  <2>3. \A j \in i + 1..k + 1 : NoFun(ts, i + 1, j - 1) =>
          st[j].start = st[i].next /\ st[j].kind \notin Branching
    BY <1>1, <2>1, <2>2 DEF ElseStays
  <2>4. ASSUME NEW j \in i + 1..Len(ts), NoFun(ts, i + 1, j - 1)
        PROVE  ts[j].start = ts[i].next /\ ts[j].kind \notin Branching
    <3>1. j \in i + 1..k + 1 /\ (j \in 1..k \/ (j = k + 1 /\ Len(ts) = k + 1))
      BY <1>1, <1>2
    <3>2. st[j].start = st[i].next /\ st[j].kind \notin Branching
      BY <2>3, <2>4, <3>1
    <3> QED
      BY <1>1, <2>1, <3>1, <3>2
  <2>5. ASSUME NoFun(ts, i + 1, Len(ts)) PROVE q = ts[i].next
    <3>1. NoFun(ts, i + 1, (k + 1) - 1) /\ k + 1 \in i + 1..k + 1
      BY <1>1, <1>2, <2>5 DEF NoFun
    <3>2. f.kind \notin Branching
      BY <1>1, <2>3, <3>1
    <3>3. NoFun(st, i + 1, k + 1)
      <4>1. NoFun(st, i + 1, (k + 1) - 1)
        BY <2>2, <3>1
      <4> QED
        BY <1>1, <4>1 DEF NoFun
    <3>4. p = st[i].next
      BY <1>1, <2>1, <3>3 DEF ElseStays
    <3> QED
      BY <2>1, <3>2, <3>4
  <2> QED
    BY <2>4, <2>5
<1>3. CASE i = k + 1
  BY <1>1, <1>3
<1> QED
  BY <1>1, <1>2, <1>3

-----------------------------------------------------------------------------
(* A call of codegen() begins. *)

\* The frame g that comes on top reserves new blocks only.
OpensOnly(bs, cs, p, q, g) ==
  /\ \A b \in 1..Len(bs) : b # p => b # q /\ ~Reserves(g, b)
  /\ \A b \in 1..Len(cs) : b = p \/ b > Len(bs) =>
       /\ cs[b].ends = "open" <=> b = q \/ Reserves(g, b)
       /\ cs[b].ends = "open" => cs[b].succs = {}

\* New blocks are in a function, and come after the insert block if at all.
AddsOnly(bs, cs, p) ==
  /\ \A b \in 1..Len(cs) : b > Len(bs) =>
       cs[b].succs = {} /\ cs[b].fun \in 1..b /\ cs[cs[b].fun].fun = cs[b].fun
  /\ \A s \in cs[p].succs :
       s > Len(bs) => s # cs[s].fun /\ cs[s].fun = cs[p].fun

\* The stack with g on top.
Pushed(st, ts, g) == g \in Frame /\ ts = Append(st, g)

\* Which blocks are open after a call has been entered.
LEMMA EntersOpen ==
  ASSUME NEW bs, NEW cs, NEW st, NEW ts, NEW p, NEW q, NEW l, NEW m, NEW g,
         Stacked(bs, st, p), OpenOnly(bs, st, p), st # <<>>, ts # <<>>,
         Grown(bs, cs, p, m), Kept(st, ts, l, m),
         \A b : (New(ts, l, b) <=> Reserves(g, b)) /\ ~Old(st, l, b),
         \A b \in 1..m : b # p => b # q /\ ~Reserves(g, b),
         \A b \in 1..Len(cs) : b = p \/ b > m =>
           /\ cs[b].ends = "open" <=> b = q \/ Reserves(g, b)
           /\ cs[b].ends = "open" => cs[b].succs = {}
  PROVE  OpenOnly(cs, ts, q)
<1>1. ASSUME NEW b \in 1..m, b # p
      PROVE  Old(st, l, b) <=> b = q \/ New(ts, l, b)
  BY <1>1
<1>2. ASSUME NEW b \in 1..Len(cs), b > m \/ b = p
      PROVE  /\ cs[b].ends = "open" <=> b = q \/ New(ts, l, b)
             /\ cs[b].ends = "open" => cs[b].succs = {}
  BY <1>2
<1> QED
  BY <1>1, <1>2, OpenKept

\* The shape is kept by a call whose own frame is well formed.
LEMMA Enters ==
  ASSUME NEW bs, NEW cs, NEW st, NEW ts, NEW p, NEW q \in Nat, NEW k, NEW f, NEW g,
         OnTop(bs, st, p, k, f), Changed(bs, cs, p, Len(bs), {}),
         Pushed(st, ts, g), g.kind # "main",
         g.start = p, g.mark = Len(bs),
         Framed(cs, g), Placed(cs, g), PhiFacts(cs, g), Here(g, q),
         g.kind # "fun" => cs[q].fun = bs[p].fun,
         OpensOnly(bs, cs, p, q, g), AddsOnly(bs, cs, p), \A b : ~Unplaced(g, b)
  PROVE  Shape(cs, ts, q)
<1> DEFINE l == Len(st)
           m == Len(bs)
<1>1. /\ Stacked(bs, st, p) /\ SameFun(bs, st, p) /\ OpenOnly(bs, st, p)
      /\ Attached(bs, st) /\ Edges(bs, st) /\ l \in Nat /\ l # 0
      /\ Len(cs) \in Nat /\ m \in Nat /\ m \in 1..m /\ p \in 1..m /\ m <= Len(cs)
      /\ st # <<>>
  BY DEF OnTop, Shape, Changed, Blocks
<1>2. Len(ts) = l + 1 /\ ts[l + 1] = g /\ ts # <<>> /\ \A i \in 1..l : ts[i] = st[i]
  BY DEF OnTop, Pushed
<1>3. Closed(bs, m)
  BY <1>1 DEF Closed
<1>4. Grown(bs, cs, p, m)
  BY <1>3, ChangedGrows
<1>5. ASSUME NEW i \in 1..l PROVE Under(st[i], m) /\ Nested(st[i], g)
  <2>1. Framed(bs, st[i]) /\ Here(st[i], p)
    BY <1>1 DEF Stacked, FrameInv
  <2>2. Under(st[i], m)
    BY <1>1, <2>1 DEF Framed, Under
  <2> QED
    BY <2>1, <2>2 DEF Nested, Here
<1>6. Kept(st, ts, l, m) /\ \A i : i \notin l + 1..l
  BY <1>1, <1>2, <1>5 DEF Kept
<1>7. \A b : /\ New(ts, l, b) <=> Reserves(g, b)
             /\ ~UnplacedNow(ts, l, b) /\ ~UnplacedOld(st, l, b) /\ ~Old(st, l, b)
  BY <1>2, <1>6 DEF New, UnplacedNow, UnplacedOld, Old
<1>8. ASSUME NEW b \in 1..Len(cs), NEW s \in cs[b].succs
      PROVE  b <= m /\ (s > m => b = p)
  <2>1. b \in 1..m /\ s \in 1..Len(cs)
    BY <1>1, <1>8 DEF Changed, Blocks, AddsOnly
  <2>2. b # p => s \in bs[b].succs
    BY <2>1 DEF Changed, Alike
  <2>3. s \in bs[b].succs => s \in 1..m
    BY <2>1 DEF Changed, Blocks
  <2> QED
    BY <1>1, <2>1, <2>2, <2>3
<1> HIDE DEF l, m
<1>9. Stacked(cs, ts, q)
  <2>1. ASSUME NEW i \in 1..l PROVE Here(st[i], q)
    <3>1. Framed(bs, st[i]) /\ Here(st[i], p)
      BY <1>1, <2>1 DEF Stacked, FrameInv, l
    <3>2. q = p \/ q > m
      BY <1>1 DEF Here, m
    <3> QED
      BY <1>1, <1>5, <3>1, <3>2, HereMoves DEF m
  <2>2. FrameInv(cs, g)
    <3>1. Region(cs, g)
      BY <1>1, <1>8 DEF Region, m
    <3> QED
      BY <3>1 DEF FrameInv
  <2>3. /\ FrameInv(cs, ts[l + 1]) /\ Here(ts[l + 1], q)
        /\ \A i \in 1..l : Nested(st[i], ts[l + 1])
        /\ ts[l + 1].kind = "main" <=> l = 0
    BY <1>1, <1>2, <1>5, <2>2
  <2> QED
    BY <1>1, <1>4, <1>6, <2>1, <2>3, StackedKept
<1>10. SameFun(cs, ts, q)
  <2>1. g.start = p /\ cs[p].fun = bs[p].fun
    BY DEF Changed
  <2>2. /\ ts[l + 1].kind # "fun" => cs[q].fun = cs[ts[l + 1].start].fun
        /\ Len(st) = l /\ ts[l + 1].start = p
        /\ cs[ts[l + 1].start].fun = bs[ts[l + 1].start].fun
    BY <1>2, <2>1 DEF l
  <2>3. Len(ts) # l
    BY <1>1, <1>2
  <2> QED
    BY <1>1, <1>4, <1>6, <2>2, <2>3, SameFunKept
<1>11. OpenOnly(cs, ts, q)
  <2>1. Stacked(bs, st, p) /\ OpenOnly(bs, st, p) /\ st # <<>> /\ ts # <<>>
    BY <1>1, <1>2
  <2>2. \A b \in 1..m : b # p => b # q /\ ~Reserves(g, b)
    BY DEF OpensOnly, m
  <2>3. \A b \in 1..Len(cs) : b = p \/ b > m =>
           /\ cs[b].ends = "open" <=> b = q \/ Reserves(g, b)
           /\ cs[b].ends = "open" => cs[b].succs = {}
    BY DEF OpensOnly, m
  <2> QED
    BY <1>4, <1>6, <1>7, <2>1, <2>2, <2>3, EntersOpen
<1>12. Attached(cs, ts)
  <2>1. \A b \in 1..Len(cs) : b > m =>
          IF UnplacedNow(ts, l, b) THEN cs[b].fun = Nowhere
          ELSE cs[b].fun \in 1..b /\ cs[cs[b].fun].fun = cs[b].fun
    BY <1>7 DEF AddsOnly, m
  <2> QED
    BY <1>1, <1>4, <1>6, <1>7, <2>1, AttachedKept
<1>13. Edges(cs, ts)
  <2>1. \A b \in 1..Len(cs) : \A s \in cs[b].succs : s > m =>
          s # cs[s].fun /\ cs[s].fun = cs[b].fun
    BY <1>8 DEF AddsOnly, m
  <2> QED
    BY <1>1, <1>4, <1>6, <2>1, EdgesKept
<1> QED
  BY <1>9, <1>10, <1>11, <1>12, <1>13 DEF Shape

\* PHIs stay matched when a call is entered.
LEMMA EntersPhis ==
  ASSUME NEW bs, NEW cs, NEW st, NEW ts, NEW p, NEW k, NEW f, NEW g,
         OnTop(bs, st, p, k, f), Changed(bs, cs, p, Len(bs), {}),
         Pushed(st, ts, g), PhisDone(bs, st),
         \A b \in 1..Len(cs) : b > Len(bs) => cs[b].phi = <<>>
  PROVE  PhisDone(cs, ts)
<1>1. /\ Stacked(bs, st, p) /\ Len(st) \in Nat /\ Len(bs) \in Nat
      /\ Len(bs) \in 1..Len(bs)
  BY DEF OnTop, Shape, Changed, Blocks
<1>2. Len(ts) = Len(st) + 1 /\ \A i \in 1..Len(st) : ts[i] = st[i]
  BY DEF OnTop, Pushed
<1>3. Closed(bs, Len(bs))
  BY <1>1 DEF Closed
<1>4. ASSUME NEW i \in 1..Len(st)
      PROVE  Under(st[i], Len(bs)) /\ (Counts(st[i]) => st[i].held <= Len(bs))
  <2>1. Framed(bs, st[i])
    BY <1>1 DEF Stacked, FrameInv
  <2> QED
    BY <1>1, <2>1 DEF Framed, Under, Counts, HasHeader
<1>5. \A i : i \notin Len(st) + 1..Len(st)
  BY <1>1
<1>6. Kept(st, ts, Len(st), Len(bs))
  BY <1>1, <1>2, <1>4, <1>5 DEF Kept
<1> QED
  BY <1>3, <1>4, <1>5, <1>6, PhisChanged

\* Else parts stay where they are when a call is entered.
LEMMA EntersElse ==
  ASSUME NEW bs, NEW st, NEW ts, NEW p, NEW q, NEW k, NEW f, NEW g,
         OnTop(bs, st, p, k, f), ElseStays(st, p), Pushed(st, ts, g),
         g.start = p, ~At(g, "if", {"else"}),
         q = p \/ g.kind = "fun" \/ g.kind \in Branching,
         g.kind \in Branching => \A i \in 1..Len(st) :
           At(st[i], "if", {"else"}) => ~NoFun(st, i, Len(st))
  PROVE  ElseStays(ts, q)
<1> DEFINE l == Len(st)
<1>1. l \in Nat
  BY DEF OnTop
<1>2. Len(ts) = l + 1 /\ ts[l + 1] = g /\ \A i \in 1..l : ts[i] = st[i]
  BY DEF OnTop, Pushed
<1> SUFFICES ASSUME NEW i \in 1..Len(ts), At(ts[i], "if", {"else"})
             PROVE  /\ \A j \in i + 1..Len(ts) :
                         NoFun(ts, i + 1, j - 1) =>
                           ts[j].start = ts[i].next /\ ts[j].kind \notin Branching
                    /\ NoFun(ts, i + 1, Len(ts)) => q = ts[i].next
  BY DEF ElseStays
<1>3. i \in 1..l /\ ts[i] = st[i] /\ At(st[i], "if", {"else"})
  BY <1>1, <1>2
<1>4. \A j \in i + 1..l + 1 : NoFun(ts, i + 1, j - 1) => NoFun(st, i + 1, j - 1)
  BY <1>1, <1>2, <1>3 DEF NoFun
<1>5. ASSUME NoFun(st, i + 1, l) PROVE p = st[i].next /\ g.kind \notin Branching
  <2>1. NoFun(st, i, l)
    BY <1>1, <1>3, <1>5 DEF NoFun, At
  <2> QED
    BY <1>3, <1>5, <2>1 DEF ElseStays
<1>6. ASSUME NEW j \in i + 1..Len(ts), NoFun(ts, i + 1, j - 1)
      PROVE  ts[j].start = ts[i].next /\ ts[j].kind \notin Branching
  <2>1. CASE j \in i + 1..l
    <3>1. j \in i + 1..l + 1 /\ j \in 1..l
      BY <1>1, <1>3, <2>1
    <3>2. NoFun(st, i + 1, j - 1)
      BY <1>4, <1>6, <3>1
    <3>3. st[j].start = st[i].next /\ st[j].kind \notin Branching
      BY <1>3, <2>1, <3>2 DEF ElseStays
    <3> QED
      BY <1>2, <1>3, <3>1, <3>3
  <2>2. CASE j = l + 1
    <3>1. j \in i + 1..l + 1 /\ j - 1 = l
      BY <1>1, <1>3, <2>2
    <3>2. NoFun(st, i + 1, l)
      BY <1>4, <1>6, <3>1
    <3> QED
      BY <1>2, <1>3, <1>5, <2>2, <3>2
  <2>3. j \in i + 1..l \/ j = l + 1
    BY <1>1, <1>2, <1>3
  <2> QED
    BY <2>1, <2>2, <2>3
<1>7. ASSUME NoFun(ts, i + 1, Len(ts)) PROVE q = ts[i].next
  <2>1. l + 1 \in i + 1..Len(ts) /\ l + 1 \in i + 1..l + 1 /\ (l + 1) - 1 = l
    BY <1>1, <1>2, <1>3
  <2>2. g.kind # "fun"
    BY <1>2, <1>7, <2>1 DEF NoFun
  <2>3. NoFun(ts, i + 1, l)
    BY <1>1, <1>2, <1>3, <1>7 DEF NoFun
  <2>4. NoFun(st, i + 1, l)
    BY <1>4, <2>1, <2>3
  <2> QED
    BY <1>3, <1>5, <2>2, <2>4
<1> QED
  BY <1>6, <1>7

-----------------------------------------------------------------------------
(* What the operations on blocks do. *)

\* Use() changes operands only.
LEMMA UseBlocks ==
  ASSUME NEW bs, Blocks(bs), NEW b \in 1..Len(bs), NEW vs \in SUBSET (0..Len(bs))
  PROVE  /\ Blocks(Use(bs, b, vs)) /\ Len(Use(bs, b, vs)) = Len(bs)
         /\ \A c \in 1..Len(bs) : Alike(Use(bs, b, vs)[c], bs[c])
<1> DEFINE x == [bs[b] EXCEPT !.operands = @ \cup (vs \ {Const})]
           cs == [bs EXCEPT ![b] = x]
<1>1. Use(bs, b, vs) = cs
  BY DEF Use
<1>2. bs \in Seq(Block) /\ Len(bs) \in Nat /\ \A c \in 1..Len(bs) : bs[c] \in Block
  BY DEF Blocks
<1>3. x \in Block /\ Alike(x, bs[b]) /\ x.succs = bs[b].succs
      /\ x.operands \subseteq 1..Len(bs)
  <2>1. bs[b].operands \subseteq 1..Len(bs)
    BY DEF Blocks
  <2>2. vs \ {Const} \subseteq 1..Len(bs)
    BY <1>2 DEF Const
  <2>3. bs[b].operands \cup (vs \ {Const}) \in SUBSET Nat
    BY <1>2, <2>1, <2>2
  <2>4. x \in Block
    BY <1>2, <2>3 DEF Block
  <2>5. Alike(x, bs[b]) /\ x.succs = bs[b].succs
        /\ x.operands = bs[b].operands \cup (vs \ {Const})
    BY <1>2 DEF Alike, Block
  <2> QED
    BY <2>1, <2>2, <2>4, <2>5
<1> HIDE DEF x
<1>4. cs \in Seq(Block) /\ Len(cs) = Len(bs) /\ cs[b] = x
      /\ \A c \in 1..Len(bs) : c # b => cs[c] = bs[c]
  BY <1>2, <1>3
<1> HIDE DEF cs
<1>5. Blocks(cs)
  BY <1>2, <1>3, <1>4 DEF Blocks
<1> QED
  BY <1>1, <1>3, <1>4, <1>5 DEF Alike

\* Branch() ends its block, and changes no other.
LEMMA BranchBlocks ==
  ASSUME NEW bs, Blocks(bs), NEW b \in 1..Len(bs), NEW to \in SUBSET (1..Len(bs)),
         NEW cs, cs = Branch(bs, b, to)
  PROVE  /\ Blocks(cs) /\ Len(cs) = Len(bs)
         /\ \A c \in 1..Len(bs) : c # b => cs[c] = bs[c]
         /\ cs[b].fun = bs[b].fun /\ cs[b].phi = bs[b].phi
         /\ cs[b].ends = "br" /\ cs[b].succs = to
<1> DEFINE x == [bs[b] EXCEPT !.ends = "br", !.succs = to]
           ds == [bs EXCEPT ![b] = x]
<1>1. cs = ds
  BY DEF Branch
<1>2. bs \in Seq(Block) /\ Len(bs) \in Nat /\ \A c \in 1..Len(bs) : bs[c] \in Block
  BY DEF Blocks
<1>3. x \in Block /\ x.fun = bs[b].fun /\ x.phi = bs[b].phi /\ x.ends = "br"
      /\ x.succs = to /\ x.operands = bs[b].operands
  <2>1. to \in SUBSET Nat
    BY <1>2
  <2> QED
    BY <1>2, <2>1 DEF Block
<1> HIDE DEF x
<1>4. ds \in Seq(Block) /\ Len(ds) = Len(bs) /\ ds[b] = x
      /\ \A c \in 1..Len(bs) : c # b => ds[c] = bs[c]
  BY <1>2, <1>3
<1> HIDE DEF ds
<1>5. Blocks(ds)
  BY <1>2, <1>3, <1>4 DEF Blocks
<1> QED
  BY <1>1, <1>3, <1>4, <1>5

\* Attach() places its block, and changes no other.
LEMMA AttachBlocks ==
  ASSUME NEW bs, Blocks(bs), NEW b \in 1..Len(bs), NEW F \in Nat,
         NEW cs, cs = Attach(bs, b, F)
  PROVE  /\ Blocks(cs) /\ Len(cs) = Len(bs)
         /\ \A c \in 1..Len(bs) : c # b => cs[c] = bs[c]
         /\ cs[b].fun = F /\ cs[b].phi = bs[b].phi
         /\ cs[b].ends = bs[b].ends /\ cs[b].succs = bs[b].succs
<1> DEFINE x == [bs[b] EXCEPT !.fun = F]
           ds == [bs EXCEPT ![b] = x]
<1>1. cs = ds
  BY DEF Attach
<1>2. bs \in Seq(Block) /\ Len(bs) \in Nat /\ \A c \in 1..Len(bs) : bs[c] \in Block
  BY DEF Blocks
<1>3. x \in Block /\ x.fun = F /\ x.phi = bs[b].phi /\ x.ends = bs[b].ends
      /\ x.succs = bs[b].succs /\ x.operands = bs[b].operands
  BY <1>2 DEF Block
<1> HIDE DEF x
<1>4. ds \in Seq(Block) /\ Len(ds) = Len(bs) /\ ds[b] = x
      /\ \A c \in 1..Len(bs) : c # b => ds[c] = bs[c]
  BY <1>2, <1>3
<1> HIDE DEF ds
<1>5. Blocks(ds)
  BY <1>2, <1>3, <1>4 DEF Blocks
<1> QED
  BY <1>1, <1>3, <1>4, <1>5

\* Phi() sets the PHI of its block, and changes no other.
LEMMA PhiBlocks ==
  ASSUME NEW bs, Blocks(bs), NEW b \in 1..Len(bs),
         NEW phi \in Seq([val: Nat, from: Nat]), NEW cs, cs = Phi(bs, b, phi)
  PROVE  /\ Blocks(cs) /\ Len(cs) = Len(bs)
         /\ \A c \in 1..Len(bs) : c # b => cs[c] = bs[c]
         /\ cs[b].fun = bs[b].fun /\ cs[b].phi = phi
         /\ cs[b].ends = bs[b].ends /\ cs[b].succs = bs[b].succs
<1> DEFINE x == [bs[b] EXCEPT !.phi = phi]
           ds == [bs EXCEPT ![b] = x]
<1>1. cs = ds
  BY DEF Phi
<1>2. bs \in Seq(Block) /\ Len(bs) \in Nat /\ \A c \in 1..Len(bs) : bs[c] \in Block
  BY DEF Blocks
<1>3. x \in Block /\ x.fun = bs[b].fun /\ x.phi = phi /\ x.ends = bs[b].ends
      /\ x.succs = bs[b].succs /\ x.operands = bs[b].operands
  BY <1>2 DEF Block
<1> HIDE DEF x
<1>4. ds \in Seq(Block) /\ Len(ds) = Len(bs) /\ ds[b] = x
      /\ \A c \in 1..Len(bs) : c # b => ds[c] = bs[c]
  BY <1>2, <1>3
<1> HIDE DEF ds
<1>5. Blocks(ds)
  BY <1>2, <1>3, <1>4 DEF Blocks
<1> QED
  BY <1>1, <1>3, <1>4, <1>5

\* CreateRet().
Ret(bs, b) == [bs EXCEPT ![b].ends = "ret"]

\* Ret() ends its block, and changes no other.
LEMMA RetBlocks ==
  ASSUME NEW bs, Blocks(bs), NEW b \in 1..Len(bs), NEW cs, cs = Ret(bs, b)
  PROVE  /\ Blocks(cs) /\ Len(cs) = Len(bs)
         /\ \A c \in 1..Len(bs) : c # b => cs[c] = bs[c]
         /\ cs[b].fun = bs[b].fun /\ cs[b].phi = bs[b].phi
         /\ cs[b].ends = "ret" /\ cs[b].succs = bs[b].succs
<1> DEFINE x == [bs[b] EXCEPT !.ends = "ret"]
           ds == [bs EXCEPT ![b] = x]
<1>1. cs = ds
  BY DEF Ret
<1>2. bs \in Seq(Block) /\ Len(bs) \in Nat /\ \A c \in 1..Len(bs) : bs[c] \in Block
  BY DEF Blocks
<1>3. x \in Block /\ x.fun = bs[b].fun /\ x.phi = bs[b].phi /\ x.ends = "ret"
      /\ x.succs = bs[b].succs /\ x.operands = bs[b].operands
  BY <1>2 DEF Block
<1> HIDE DEF x
<1>4. ds \in Seq(Block) /\ Len(ds) = Len(bs) /\ ds[b] = x
      /\ \A c \in 1..Len(bs) : c # b => ds[c] = bs[c]
  BY <1>2, <1>3
<1> HIDE DEF ds
<1>5. Blocks(ds)
  BY <1>2, <1>3, <1>4 DEF Blocks
<1> QED
  BY <1>1, <1>3, <1>4, <1>5

\* Creating blocks changes none of the older ones.
LEMMA FreshBlocks ==
  ASSUME NEW bs, Blocks(bs), NEW fs, AllFresh(fs), NEW cs, cs = Joined(bs, fs)
  PROVE  Grows(bs, fs, cs)
<1>1. /\ bs \in Seq(Block) /\ Len(bs) \in Nat
      /\ fs \in Seq(Block) /\ Len(fs) \in Nat
      /\ \A i \in 1..Len(fs) : fs[i] = Fresh(fs[i].fun)
  BY DEF Blocks, AllFresh
<1>2. cs \in Seq(Block) /\ Len(cs) = Len(bs) + Len(fs)
      /\ (\A c \in 1..Len(bs) : cs[c] = bs[c])
      /\ (\A c \in 1..Len(cs) : c > Len(bs) => cs[c] = fs[c - Len(bs)])
  <2>1. cs \in Seq(Block) /\ Len(cs) = Len(bs) + Len(fs)
    BY <1>1 DEF Joined
  <2>2. \A c \in 1..Len(bs) : cs[c] = bs[c]
    BY <1>1 DEF Joined
  <2>3. \A c \in 1..Len(cs) : c > Len(bs) => cs[c] = fs[c - Len(bs)]
    BY <1>1, <2>1 DEF Joined
  <2> QED
    BY <2>1, <2>2, <2>3
<1>3. ASSUME NEW c \in 1..Len(cs), c > Len(bs)
      PROVE  /\ cs[c].succs = {} /\ cs[c].ends = "open" /\ cs[c].phi = <<>>
             /\ cs[c].operands = {}
             /\ c - Len(bs) \in 1..Len(fs) /\ cs[c].fun = fs[c - Len(bs)].fun
  <2>1. c - Len(bs) \in 1..Len(fs) /\ cs[c] = fs[c - Len(bs)]
    BY <1>1, <1>2, <1>3
  <2>2. fs[c - Len(bs)] = Fresh(fs[c - Len(bs)].fun)
    BY <1>1, <2>1
  <2> QED
    BY <2>1, <2>2 DEF Fresh
<1>4. Blocks(cs)
  <2>1. ASSUME NEW c \in 1..Len(cs)
        PROVE  cs[c].succs \cup cs[c].operands \subseteq 1..Len(cs)
    <3>1. CASE c \in 1..Len(bs)
      BY <1>1, <1>2, <3>1 DEF Blocks
    <3>2. CASE c > Len(bs)
      BY <1>3, <3>2
    <3> QED
      BY <1>1, <1>2, <3>1, <3>2
  <2> QED
    BY <1>2, <2>1 DEF Blocks
<1>5. ASSUME NEW i \in 1..Len(fs) PROVE cs[Len(bs) + i] = fs[i]
  <2>1. Len(bs) + i \in 1..Len(cs) /\ Len(bs) + i > Len(bs) /\ (Len(bs) + i) - Len(bs) = i
    BY <1>1, <1>2
  <2> QED
    BY <1>2, <2>1
<1> QED
  BY <1>1, <1>2, <1>3, <1>4, <1>5 DEF Grows

\* A step that adds instructions only changes no block's shape.
LEMMA ChangedSame ==
  ASSUME NEW bs, NEW cs, NEW p, NEW m, Blocks(bs), Blocks(cs), Len(cs) = Len(bs),
         m \in 1..Len(bs), p \in 1..Len(bs),
         \A b \in 1..Len(bs) : Alike(cs[b], bs[b])
  PROVE  Changed(bs, cs, p, m, {})
BY DEF Changed, Blocks, Alike

-----------------------------------------------------------------------------
(* Steps that leave the blocks alone or add instructions to them. *)

\* A frame that waits for an operand and has no blocks of its own.
Plain(f) ==
  /\ f.kind \notin {"main", "fun"}
  /\ ~HasNext(f) /\ ~HasAfter(f) /\ ~HasHeader(f)

\* Frames that have made no block of their own come back to none.
LEMMA PlainFacts ==
  ASSUME NEW f, Plain(f)
  PROVE  /\ \A b : ~Reserves(f, b) /\ ~Unplaced(f, b)
         /\ ~Counts(f) /\ ~At(f, "if", {"else"})
BY DEF Plain, Reserves, Unplaced, HasNext, HasAfter, HasHeader, Counts, At

\* Such frames are well formed as soon as their numbers are.
LEMMA PlainFrame ==
  ASSUME NEW cs, NEW g, Plain(g), Blocks(cs), g.start \in 1..Len(cs),
         g.mark \in g.start..Len(cs), g.held \in 0..Len(cs), g.next \in 0..Len(cs),
         At(g, "match", {"expr"}) => g.incoming = <<>>
  PROVE  Framed(cs, g) /\ Placed(cs, g) /\ PhiFacts(cs, g)
<1>1. Framed(cs, g) /\ Placed(cs, g)
  BY DEF Plain, Framed, Placed
<1>2. ~At(g, "if", {"then"}) /\ ~At(g, "if", {"else"}) /\ ~Counts(g)
      /\ ~At(g, "match", {"pattern", "clause"}) /\ ~At(g, "while", {"cond", "body"})
  BY DEF Plain, HasAfter, HasHeader, Counts, At
<1>3. PhiFacts(cs, g)
  BY <1>2 DEF Plain, PhiFacts
<1> QED
  BY <1>1, <1>3

\* A call that makes no block keeps the invariant.
LEMMA EntersPlain ==
  ASSUME NEW bs, NEW st, NEW ts, NEW p, NEW k, NEW f, NEW g,
         OnTop(bs, st, p, k, f), Pushed(st, ts, g), Plain(g),
         g.start = p, g.mark = Len(bs), g.held \in 0..Len(bs), g.next = Nowhere,
         At(g, "match", {"expr"}) => g.incoming = <<>>
  PROVE  /\ Shape(bs, ts, p)
         /\ PhisDone(bs, st) => PhisDone(bs, ts)
         /\ ElseStays(st, p)
            /\ (g.kind \in Branching => \A i \in 1..Len(st) :
                  At(st[i], "if", {"else"}) => ~NoFun(st, i, Len(st)))
              => ElseStays(ts, p)
<1>1. Blocks(bs) /\ Len(bs) \in Nat /\ p \in 1..Len(bs) /\ Len(bs) \in 1..Len(bs)
      /\ p \in Nat
  BY DEF OnTop, Blocks
<1>2. Changed(bs, bs, p, Len(bs), {})
  BY <1>1, ChangedSame DEF Alike
<1>3. (\A b : ~Reserves(g, b) /\ ~Unplaced(g, b)) /\ ~At(g, "if", {"else"})
  BY PlainFacts
<1>4. Framed(bs, g) /\ Placed(bs, g) /\ PhiFacts(bs, g)
  BY <1>1, PlainFrame DEF Nowhere
<1>5. Here(g, p) /\ g.kind \notin {"main", "fun"}
  BY <1>3 DEF Here, Plain
<1>6. bs[p].ends = "open" /\ bs[p].succs = {}
  BY TopFrame
<1>7. OpensOnly(bs, bs, p, p, g)
  BY <1>1, <1>3, <1>6 DEF OpensOnly
<1>8. AddsOnly(bs, bs, p)
  BY <1>1, <1>6 DEF AddsOnly
<1>9. Shape(bs, ts, p)
  BY <1>1, <1>2, <1>3, <1>4, <1>5, <1>7, <1>8, Enters
<1>10. PhisDone(bs, st) => PhisDone(bs, ts)
  <2>1. \A b \in 1..Len(bs) : b > Len(bs) => bs[b].phi = <<>>
    BY <1>1
  <2> QED
    BY <1>2, <2>1, EntersPhis
<1> QED
  BY <1>3, <1>9, <1>10, EntersElse

\* So does one that goes on without one,
LEMMA GoesOnPlain ==
  ASSUME NEW bs, NEW st, NEW ts, NEW p, NEW k, NEW f, NEW g,
         OnTop(bs, st, p, k, f), Plain(f), Plain(g), Replaced(st, ts, k, g),
         g.kind = f.kind, g.start = f.start, g.mark = f.mark, g.next = f.next,
         g.held \in 0..Len(bs), ~At(g, "match", {"expr"})
  PROVE  /\ Shape(bs, ts, p)
         /\ PhisDone(bs, st) => PhisDone(bs, ts)
         /\ ElseStays(st, p) => ElseStays(ts, p)
<1>1. /\ Len(bs) \in Nat /\ f.mark \in 1..Len(bs) /\ f.start \in 1..f.mark
      /\ FrameInv(bs, f) /\ Here(f, p) /\ bs[p].ends = "open" /\ bs[p].succs = {}
  BY TopFrame
<1>2. Blocks(bs) /\ p \in 1..Len(bs) /\ p \in Nat /\ f.kind \notin {"fun", "main"}
  BY DEF OnTop, Plain
<1>3. Changed(bs, bs, p, f.mark, {})
  BY <1>1, <1>2, ChangedSame DEF Alike
<1>4. /\ \A b : /\ ~Reserves(g, b) /\ ~Unplaced(g, b)
                /\ ~Reserves(f, b) /\ ~Unplaced(f, b)
      /\ ~At(g, "if", {"else"}) /\ ~Counts(f)
  BY PlainFacts
<1>5. Framed(bs, g) /\ Placed(bs, g) /\ PhiFacts(bs, g)
  <2>1. /\ g.start \in 1..Len(bs) /\ g.mark \in g.start..Len(bs)
        /\ g.next \in 0..Len(bs)
    BY <1>1 DEF FrameInv, Framed
  <2> QED
    BY <1>2, <2>1, PlainFrame
<1>6. Here(g, p)
  BY <1>1, <1>4 DEF Here
<1>7. p = p \/ p > f.mark
  OBVIOUS
<1>8. \A b \in 1..Len(bs) : b = p \/ b \in {} \/ b > Len(bs) =>
        /\ bs[b].ends = "open" <=> b = p \/ Reserves(g, b)
        /\ bs[b].ends = "open" => bs[b].succs = {}
  BY <1>1, <1>2, <1>4
<1>9. \A b \in 1..Len(bs) : b \in {} \/ b > Len(bs) =>
           bs[b].fun = IF Unplaced(g, b) THEN Nowhere ELSE bs[p].fun
  BY <1>1
<1>10. Shape(bs, ts, p)
  BY <1>2, <1>3, <1>4, <1>5, <1>6, <1>8, <1>9, GoesOn
<1>11. PhisDone(bs, st) => PhisDone(bs, ts)
  <2> DEFINE T == {}
  <2>1. Changed(bs, bs, p, f.mark, T) /\ \A b : b \notin T
    BY <1>3
  <2> HIDE DEF T
  <2>2. \A b \in 1..Len(bs) : b \in T \/ b > Len(bs) =>
          bs[b].phi = <<>> \/ Complete(bs, b) \/ (Counts(g) /\ g.held = b)
    BY <1>1, <2>1
  <2> QED
    BY <1>4, <2>1, <2>2, GoesOnPhis
<1>12. ElseStays(st, p) => ElseStays(ts, p)
  BY <1>2, <1>4, TopElse
<1> QED
  BY <1>10, <1>11, <1>12

\* and one that returns without one.
LEMMA ReturnsPlain ==
  ASSUME NEW bs, NEW cs, NEW st, NEW ts, NEW p, NEW k, NEW f,
         OnTop(bs, st, p, k, f), Plain(f), Dropped(st, ts, k),
         Blocks(cs), Len(cs) = Len(bs), \A b \in 1..Len(bs) : Alike(cs[b], bs[b])
  PROVE  /\ Shape(cs, ts, p)
         /\ PhisDone(bs, st) => PhisDone(cs, ts)
         /\ ElseStays(st, p) => ElseStays(ts, p)
<1>1. /\ Len(bs) \in Nat /\ f.mark \in 1..Len(bs)
      /\ bs[p].ends = "open" /\ bs[p].succs = {}
  BY TopFrame
<1>2. /\ Blocks(bs) /\ p \in 1..Len(bs) /\ p \in Nat /\ f.kind \notin {"fun", "main"}
      /\ \A b \in 1..Len(cs) : ~(b \in {} \/ b > Len(bs))
      /\ Alike(cs[p], bs[p])
  BY <1>1 DEF OnTop, Plain
<1>3. Changed(bs, cs, p, f.mark, {})
  BY <1>1, <1>2, ChangedSame
<1>4. /\ \A b : ~Reserves(f, b) /\ ~Unplaced(f, b)
      /\ ~Counts(f)
  BY PlainFacts
<1>5. \A b \in 1..Len(cs) : b = p \/ b \in {} \/ b > Len(bs) =>
        /\ cs[b].ends = "open" <=> b = p
        /\ cs[b].ends = "open" => cs[b].succs = {}
  BY <1>1, <1>2 DEF Alike
<1>6. Shape(cs, ts, p)
  <2>1. cs[p].fun = bs[p].fun
    BY <1>2 DEF Alike
  <2>2. \A b \in 1..Len(bs) : b # p /\ b \notin {} => (Reserves(f, b) <=> b = p)
    BY <1>4
  <2>3. \A b \in 1..Len(cs) : b \in {} \/ b > Len(bs) => cs[b].fun = bs[p].fun
    BY <1>2
  <2>4. \A b \in 1..Len(bs) : Unplaced(f, b) => b \in {}
    BY <1>4
  <2> QED
    BY <1>2, <1>3, <1>5, <2>1, <2>2, <2>3, <2>4, Returns
<1>7. PhisDone(bs, st) => PhisDone(cs, ts)
  <2> DEFINE T == {}
  <2>1. Changed(bs, cs, p, f.mark, T) /\ \A b : b \notin T
    BY <1>3
  <2> HIDE DEF T
  <2>2. \A b \in 1..Len(cs) : b \in T \/ b > Len(bs) =>
          cs[b].phi = <<>> \/ Complete(cs, b)
    BY <1>2, <2>1
  <2> QED
    BY <1>4, <2>1, <2>2, ReturnsPhis
<1>8. ElseStays(st, p) => ElseStays(ts, p)
  BY <1>2, TopElse
<1> QED
  BY <1>6, <1>7, <1>8

\* The stack stays a sequence of frames.
LEMMA StackTyped ==
  ASSUME NEW bs, NEW st, NEW p, NEW k, NEW f, OnTop(bs, st, p, k, f),
         NEW ts, NEW g, Pushed(st, ts, g) \/ Replaced(st, ts, k, g) \/ Dropped(st, ts, k)
  PROVE  ts \in Seq(Frame)
<1>1. st \in Seq(Frame) /\ k \in Nat /\ SubSeq(st, 1, k) \in Seq(Frame)
  BY DEF OnTop
<1>2. Pushed(st, ts, g) => ts \in Seq(Frame)
  BY <1>1 DEF Pushed
<1>3. Replaced(st, ts, k, g) => ts \in Seq(Frame)
  BY <1>1 DEF Replaced
<1>4. Dropped(st, ts, k) => ts \in Seq(Frame)
  BY <1>1 DEF Dropped
<1> QED
  BY <1>2, <1>3, <1>4

-----------------------------------------------------------------------------
(* The actions.  First those that leave the blocks alone or use Use. *)

\* Where there is a frame, there is one on top.
LEMMA Awaits ==
  ASSUME Inductive, stack # <<>>
  PROVE  OnTop(blocks, stack, at, Len(stack) - 1, Top) /\ Len(blocks) \in Nat
<1>1. stack \in Seq(Frame) /\ Len(stack) \in Nat /\ Len(stack) # 0 /\ Len(blocks) \in Nat
  BY DEF Inductive, Sound, Blocks
<1> QED
  BY <1>1 DEF Inductive, Sound, OnTop, Top

\* What an action that resumes the top frame starts from.
LEMMA Resumes ==
  ASSUME Inductive, NEW kind, NEW step, Resumed(kind, step)
  PROVE  /\ OnTop(blocks, stack, at, Len(stack) - 1, Top)
         /\ Top.kind = kind /\ Top.step = step /\ value \in 0..Len(blocks)
         /\ Len(blocks) \in Nat
<1>1. stack # <<>> /\ value # Awaited /\ Top.kind = kind /\ Top.step = step
  BY DEF Resumed, Done
<1>2. value \in 0..Len(blocks)
  BY <1>1, Awaits DEF Inductive, Sound, Const, Awaited
<1> QED
  BY <1>1, <1>2, Awaits

\* Expressions without subexpressions: literals, loads, names.
LEMMA ValueSound ==
  ASSUME Inductive, Constant \/ Instruction \/ Local
  PROVE  Inductive'
<1>1. UNCHANGED <<blocks, at, stack>>
  BY DEF Constant, Instruction, Local
<1>2. value' \in 1..Len(blocks) \cup {Const, Awaited}
  <2>1. CASE Constant
    BY <2>1 DEF Constant
  <2>2. CASE Instruction
    BY <2>2 DEF Instruction, Inductive, Sound
  <2>3. CASE Local
    BY <2>3 DEF Local, Found
  <2> QED
    BY <2>1, <2>2, <2>3
<1> QED
  BY <1>1, <1>2 DEF Inductive, Sound

\* A call that makes no blocks at its start.
LEMMA EntersSound ==
  ASSUME Inductive, Awaiting, NEW g, Enter(g), UNCHANGED <<blocks, at>>,
         g \in Frame, Plain(g), g.start = at, g.mark = Len(blocks),
         g.held \in 0..Len(blocks), g.next = Nowhere, g.incoming = <<>>,
         g.kind \in Branching => MayBranch
  PROVE  Inductive'
<1>1. /\ OnTop(blocks, stack, at, Len(stack) - 1, Top)
      /\ Pushed(stack, stack', g) /\ value' = Awaited
  BY Awaits DEF Awaiting, Done, Enter, Pushed
<1>2. /\ Shape(blocks, stack', at)
      /\ PhisDone(blocks, stack) => PhisDone(blocks, stack')
      /\ ElseStays(stack, at)
         /\ (g.kind \in Branching => \A i \in 1..Len(stack) :
               At(stack[i], "if", {"else"}) => ~NoFun(stack, i, Len(stack)))
           => ElseStays(stack', at)
  BY <1>1, EntersPlain
<1>3. ASSUME ~ElseBranches, g.kind \in Branching, NEW i \in 1..Len(stack),
             At(stack[i], "if", {"else"})
      PROVE  ~NoFun(stack, i, Len(stack))
  BY <1>3 DEF MayBranch, InElse, NoFun, At
<1>4. stack' \in Seq(Frame)
  BY <1>1, StackTyped
<1>5. blocks' = blocks /\ at' = at
  OBVIOUS
<1> QED
  BY <1>1, <1>2, <1>3, <1>4, <1>5 DEF Inductive, Sound

\* Calls that make no block before their first subexpression.
LEMMA StartsSound ==
  ASSUME Inductive,
         TwoStart \/ LetStart \/ LetMutable \/ IfStart \/ MatchStart \/ ForStart
  PROVE  Inductive'
<1>0. /\ Const \in 0..Len(blocks) /\ Len(blocks) \in Nat /\ at \in Nat
      /\ <<>> \in Seq([val: Nat, from: Nat])
  BY DEF Inductive, Sound, Blocks, Const
<1>1. CASE TwoStart
  <2> DEFINE g == FrameOf("two", "left")
  <2>1. "two" \in Kinds /\ "left" \in Steps
    BY DEF Kinds, Steps
  <2>2. /\ g \in Frame /\ g.kind = "two" /\ g.step = "left"
        /\ g.start = at /\ g.mark = Len(blocks) /\ g.next = Nowhere
        /\ g.incoming = <<>> /\ g.held = Const
    BY <1>0, <2>1 DEF FrameOf, Frame, Nowhere, Const
  <2>3. Awaiting /\ Enter(g) /\ UNCHANGED <<blocks, at>>
    BY <1>1 DEF TwoStart
  <2> HIDE DEF g
  <2>4. Plain(g) /\ (g.kind \in Branching => MayBranch)
    BY <2>2 DEF Plain, HasNext, HasAfter, HasHeader, At, Branching
  <2> QED
    BY <1>0, <2>2, <2>3, <2>4, EntersSound
<1>2. CASE LetStart
  <2> DEFINE g == FrameOf("let", "def")
  <2>1. "let" \in Kinds /\ "def" \in Steps
    BY DEF Kinds, Steps
  <2>2. /\ g \in Frame /\ g.kind = "let" /\ g.step = "def"
        /\ g.start = at /\ g.mark = Len(blocks) /\ g.next = Nowhere
        /\ g.incoming = <<>> /\ g.held = Const
    BY <1>0, <2>1 DEF FrameOf, Frame, Nowhere, Const
  <2>3. Awaiting /\ Enter(g) /\ UNCHANGED <<blocks, at>>
    BY <1>2 DEF LetStart
  <2> HIDE DEF g
  <2>4. Plain(g) /\ (g.kind \in Branching => MayBranch)
    BY <2>2 DEF Plain, HasNext, HasAfter, HasHeader, At, Branching
  <2> QED
    BY <1>0, <2>2, <2>3, <2>4, EntersSound
<1>3. CASE LetMutable
  <2> DEFINE e == FrameOf("let", "body")
             g == [e EXCEPT !.held = CurrentFun]
  <2>1. "let" \in Kinds /\ "body" \in Steps
    BY DEF Kinds, Steps
  <2>2. e \in Frame /\ e.kind = "let" /\ e.step = "body"
        /\ e.start = at /\ e.mark = Len(blocks) /\ e.next = Nowhere
        /\ e.incoming = <<>>
    BY <1>0, <2>1 DEF FrameOf, Frame, Nowhere, Const
  <2>3. CurrentFun \in 0..Len(blocks)
    <3>1. Awaiting /\ OnTop(blocks, stack, at, Len(stack) - 1, Top)
      BY <1>3, Awaits DEF LetMutable, Awaiting, Done
    <3>2. blocks[at].fun \in 1..at /\ at \in 1..Len(blocks)
      BY <3>1, TopFrame DEF OnTop
    <3> QED
      BY <1>0, <3>2 DEF CurrentFun
  <2>c. CurrentFun \in Nat
    BY <1>0, <2>3
  <2> HIDE DEF e
  <2>4. g \in Frame /\ g.kind = "let" /\ g.step = "body"
        /\ g.start = at /\ g.mark = Len(blocks) /\ g.next = Nowhere
        /\ g.incoming = <<>> /\ g.held = CurrentFun
    BY <2>2, <2>c DEF Frame
  <2>5. Awaiting /\ Enter(g) /\ UNCHANGED <<blocks, at>>
    BY <1>3 DEF LetMutable, e
  <2> HIDE DEF g
  <2>6. Plain(g) /\ g.kind \notin Branching
    BY <2>4 DEF Plain, HasNext, HasAfter, HasHeader, At, Branching
  <2> QED
    BY <2>3, <2>4, <2>5, <2>6, EntersSound
<1>4. CASE IfStart
  <2> DEFINE e == FrameOf("if", "cond")
  <2>1. PICK else \in BOOLEAN : Enter([e EXCEPT !.more = else])
    BY <1>4 DEF IfStart
  <2> DEFINE g == [e EXCEPT !.more = else]
  <2>2. "if" \in Kinds /\ "cond" \in Steps
    BY DEF Kinds, Steps
  <2>3. e \in Frame /\ e.kind = "if" /\ e.step = "cond"
        /\ e.start = at /\ e.mark = Len(blocks) /\ e.next = Nowhere
        /\ e.incoming = <<>> /\ e.held = Const
    BY <1>0, <2>2 DEF FrameOf, Frame, Nowhere, Const
  <2> HIDE DEF e
  <2>4. g \in Frame /\ g.kind = "if" /\ g.step = "cond"
        /\ g.start = at /\ g.mark = Len(blocks) /\ g.next = Nowhere
        /\ g.incoming = <<>> /\ g.held = Const
    BY <2>3 DEF Frame
  <2>5. Awaiting /\ Enter(g) /\ UNCHANGED <<blocks, at>> /\ MayBranch
    BY <1>4, <2>1 DEF IfStart
  <2> HIDE DEF g
  <2>6. Plain(g)
    BY <2>4 DEF Plain, HasNext, HasAfter, HasHeader, At
  <2> QED
    BY <1>0, <2>4, <2>5, <2>6, EntersSound
<1>5. CASE MatchStart
  <2> DEFINE g == FrameOf("match", "expr")
  <2>1. "match" \in Kinds /\ "expr" \in Steps
    BY DEF Kinds, Steps
  <2>2. /\ g \in Frame /\ g.kind = "match" /\ g.step = "expr"
        /\ g.start = at /\ g.mark = Len(blocks) /\ g.next = Nowhere
        /\ g.incoming = <<>> /\ g.held = Const
    BY <1>0, <2>1 DEF FrameOf, Frame, Nowhere, Const
  <2>3. Awaiting /\ Enter(g) /\ UNCHANGED <<blocks, at>> /\ MayBranch
    BY <1>5 DEF MatchStart
  <2> HIDE DEF g
  <2>4. Plain(g) /\ (g.kind \in Branching => MayBranch)
    BY <2>2, <2>3 DEF Plain, HasNext, HasAfter, HasHeader, At, Branching
  <2> QED
    BY <1>0, <2>2, <2>3, <2>4, EntersSound
<1>6. CASE ForStart
  <2> DEFINE g == FrameOf("for", "from")
  <2>1. "for" \in Kinds /\ "from" \in Steps
    BY DEF Kinds, Steps
  <2>2. /\ g \in Frame /\ g.kind = "for" /\ g.step = "from"
        /\ g.start = at /\ g.mark = Len(blocks) /\ g.next = Nowhere
        /\ g.incoming = <<>> /\ g.held = Const
    BY <1>0, <2>1 DEF FrameOf, Frame, Nowhere, Const
  <2>3. Awaiting /\ Enter(g) /\ UNCHANGED <<blocks, at>> /\ MayBranch
    BY <1>6 DEF ForStart
  <2> HIDE DEF g
  <2>4. Plain(g) /\ (g.kind \in Branching => MayBranch)
    BY <2>2, <2>3 DEF Plain, HasNext, HasAfter, HasHeader, At, Branching
  <2> QED
    BY <1>0, <2>2, <2>3, <2>4, EntersSound
<1> QED
  BY <1>1, <1>2, <1>3, <1>4, <1>5, <1>6

\* A call goes on with frame g, or returns, after an operand.
LEMMA OperandSound ==
  ASSUME Inductive, TwoLeft \/ LetDef
  PROVE  Inductive'
<1> DEFINE k == Len(stack) - 1
<1>1. ASSUME NEW kind \in {"two", "let"}, NEW step \in {"left", "def"},
             Resumed(kind, step), UNCHANGED <<blocks, at>>,
             NEW to \in {"right", "body"}, kind = "two" <=> to = "right",
             Proceed([Top EXCEPT !.step = to, !.held = value])
      PROVE  Inductive'
  <2> DEFINE g == [Top EXCEPT !.step = to, !.held = value]
  <2>1. /\ OnTop(blocks, stack, at, k, Top) /\ Top.kind = kind /\ Top.step = step
        /\ value \in 0..Len(blocks) /\ Len(blocks) \in Nat /\ Top \in Frame
    BY <1>1, Resumes, TopFrame
  <2>2. to \in Steps /\ value \in Nat
    BY <2>1 DEF Steps
  <2>3. g \in Frame /\ g.kind = kind /\ g.step = to /\ g.start = Top.start
        /\ g.mark = Top.mark /\ g.next = Top.next /\ g.held = value
    BY <2>1, <2>2 DEF Frame
  <2>4. Replaced(stack, stack', k, g) /\ value' = Awaited
    BY <1>1, <2>3 DEF Proceed, Below, Replaced
  <2> HIDE DEF g, k
  <2>5. Plain(Top) /\ Plain(g) /\ ~At(g, "match", {"expr"})
    BY <1>1, <2>1, <2>3 DEF Plain, HasNext, HasAfter, HasHeader, At
  <2>6. /\ Shape(blocks, stack', at)
        /\ PhisDone(blocks, stack) => PhisDone(blocks, stack')
        /\ ElseStays(stack, at) => ElseStays(stack', at)
    BY <2>1, <2>3, <2>4, <2>5, GoesOnPlain
  <2>7. stack' \in Seq(Frame)
    BY <2>1, <2>4, StackTyped
  <2>8. blocks' = blocks /\ at' = at
    BY <1>1
  <2> QED
    BY <2>4, <2>6, <2>7, <2>8 DEF Inductive, Sound
<1>2. CASE TwoLeft
  <2>1. /\ Resumed("two", "left") /\ UNCHANGED <<blocks, at>>
        /\ Proceed([Top EXCEPT !.step = "right", !.held = value])
    BY <1>2 DEF TwoLeft
  <2> QED
    BY <1>1, <2>1
<1>3. CASE LetDef
  <2>1. /\ Resumed("let", "def") /\ UNCHANGED <<blocks, at>>
        /\ Proceed([Top EXCEPT !.step = "body", !.held = value])
    BY <1>3 DEF LetDef
  <2> QED
    BY <1>1, <2>1
<1> QED
  BY <1>2, <1>3

\* Calls that return without a block of their own.
LEMMA LastSound ==
  ASSUME Inductive, TwoRight \/ LetBody
  PROVE  Inductive'
<1> DEFINE k == Len(stack) - 1
<1>1. /\ OnTop(blocks, stack, at, k, Top) /\ value \in 0..Len(blocks)
      /\ Len(blocks) \in Nat /\ Top.kind \in {"two", "let"}
      /\ FrameInv(blocks, Top) /\ Blocks(blocks) /\ at \in 1..Len(blocks)
  <2>1. Resumed("two", "right") \/ Resumed("let", "body")
    BY DEF TwoRight, LetBody
  <2>2. Blocks(blocks) /\ at \in 1..Len(blocks)
    BY DEF Inductive, Sound
  <2> QED
    BY <2>1, <2>2, Resumes, TopFrame
<1>2. Dropped(stack, stack', k) /\ at' = at /\ value' \in 1..Len(blocks) \cup {Const, Awaited}
  BY <1>1 DEF TwoRight, LetBody, Return, Below, Dropped, Const
<1>3. /\ Blocks(blocks') /\ Len(blocks') = Len(blocks)
      /\ \A b \in 1..Len(blocks) : Alike(blocks'[b], blocks[b])
  <2>1. CASE TwoRight
    <3>1. {Top.held, value} \in SUBSET (0..Len(blocks))
      BY <1>1 DEF FrameInv, Framed
    <3> QED
      BY <1>1, <2>1, <3>1, UseBlocks DEF TwoRight
  <2>2. CASE LetBody
    BY <1>1, <2>2 DEF LetBody, Alike
  <2> QED
    BY <2>1, <2>2
<1> HIDE DEF k
<1>4. Plain(Top)
  BY <1>1 DEF Plain, HasNext, HasAfter, HasHeader, At
<1>5. /\ Shape(blocks', stack', at)
      /\ PhisDone(blocks, stack) => PhisDone(blocks', stack')
      /\ ElseStays(stack, at) => ElseStays(stack', at)
  BY <1>1, <1>2, <1>3, <1>4, ReturnsPlain
<1>6. stack' \in Seq(Frame)
  BY <1>1, <1>2, StackTyped
<1> QED
  BY <1>1, <1>2, <1>3, <1>5, <1>6 DEF Inductive, Sound

-----------------------------------------------------------------------------
(* funGen(): the insert block leaves the function and comes back to it. *)

\* A function's entry block is new, and the caller's is left open.
LEMMA FunStartSound ==
  ASSUME Inductive, FunStart
  PROVE  Inductive'
<1> DEFINE entry == Len(blocks) + 1
           e == FrameOf("fun", "body")
           g == [e EXCEPT !.held = entry]
           k == Len(stack) - 1
<1>1. /\ Awaiting /\ blocks' = Append(blocks, Fresh(entry)) /\ at' = entry
      /\ Enter(g)
  BY DEF FunStart
<1>2. /\ OnTop(blocks, stack, at, k, Top) /\ Blocks(blocks) /\ at \in 1..Len(blocks)
      /\ Len(blocks) \in Nat /\ blocks \in Seq(Block)
      /\ blocks[at].ends = "open" /\ blocks[at].succs = {}
  BY <1>1, Awaits, TopFrame DEF Awaiting, Done, Inductive, Sound, Blocks
<1>3. "fun" \in Kinds /\ "body" \in Steps /\ <<>> \in Seq([val: Nat, from: Nat])
  BY DEF Kinds, Steps
<1>4. e \in Frame /\ e.kind = "fun" /\ e.step = "body" /\ e.start = at
      /\ e.mark = Len(blocks) /\ e.next = Nowhere
  BY <1>2, <1>3 DEF FrameOf, Frame, Nowhere, Const
<1>5. entry \in Nat /\ entry = Len(blocks) + 1
  BY <1>2
<1> HIDE DEF e
<1>6. g \in Frame /\ g.kind = "fun" /\ g.step = "body" /\ g.start = at
      /\ g.mark = Len(blocks) /\ g.next = Nowhere /\ g.held = entry
  BY <1>4, <1>5 DEF Frame
<1>7. Pushed(stack, stack', g) /\ value' = Awaited
  BY <1>1, <1>6 DEF Enter, Pushed
<1> HIDE DEF g, entry, k
<1>8. Fresh(entry) \in Block /\ Fresh(entry).succs = {} /\ Fresh(entry).operands = {}
      /\ Fresh(entry).ends = "open" /\ Fresh(entry).phi = <<>> /\ Fresh(entry).fun = entry
  BY <1>3, <1>5 DEF Fresh, Block
<1> DEFINE cs == blocks'
<1>9. /\ cs \in Seq(Block) /\ Len(cs) = entry /\ cs[entry] = Fresh(entry)
      /\ \A b \in 1..Len(blocks) : cs[b] = blocks[b]
  BY <1>1, <1>2, <1>5, <1>8
<1> HIDE DEF cs
<1>10. \A b \in 1..Len(cs) : b \in 1..Len(blocks) \/ b = entry
  BY <1>2, <1>5, <1>9
<1>11. Blocks(cs)
  <2>1. ASSUME NEW b \in 1..Len(cs)
        PROVE  cs[b].succs \cup cs[b].operands \subseteq 1..Len(cs)
    <3>1. CASE b \in 1..Len(blocks)
      BY <1>2, <1>5, <1>9, <3>1 DEF Blocks
    <3>2. CASE b = entry
      BY <1>8, <1>9, <3>2
    <3> QED
      BY <1>10, <3>1, <3>2
  <2> QED
    BY <1>9, <2>1 DEF Blocks
<1>12. Changed(blocks, cs, at, Len(blocks), {})
  <2>1. Len(blocks) \in 1..Len(blocks) /\ Len(blocks) <= Len(cs)
    BY <1>2, <1>5, <1>9
  <2>2. \A b \in 1..Len(cs) : \A s \in cs[b].succs :
          b \in 1..Len(blocks) /\ s \in blocks[b].succs
    BY <1>8, <1>9, <1>10
  <2> QED
    BY <1>2, <1>9, <1>11, <2>1, <2>2 DEF Changed, Alike
<1>13. ~HasNext(g) /\ ~HasAfter(g) /\ ~HasHeader(g) /\ ~Counts(g)
       /\ (\A b : ~Unplaced(g, b)) /\ (\A b : Reserves(g, b) <=> b = at)
  BY <1>6 DEF HasNext, HasAfter, HasHeader, Counts, Unplaced, Reserves, At
<1>14. Framed(cs, g) /\ Placed(cs, g)
  BY <1>2, <1>5, <1>6, <1>9, <1>13 DEF Framed, Placed, Nowhere
<1>15. PhiFacts(cs, g)
  BY <1>6, <1>13 DEF PhiFacts, At
<1>16. Here(g, entry)
  BY <1>2, <1>5, <1>6, <1>13 DEF Here
<1>17. OpensOnly(blocks, cs, at, entry, g)
  <2>1. \A b \in 1..Len(blocks) : b # at => b # entry /\ ~Reserves(g, b)
    BY <1>2, <1>5, <1>13
  <2>2. \A b \in 1..Len(cs) : b = at \/ b > Len(blocks) =>
          /\ cs[b].ends = "open" <=> b = entry \/ Reserves(g, b)
          /\ cs[b].ends = "open" => cs[b].succs = {}
    BY <1>2, <1>5, <1>8, <1>9, <1>10, <1>13
  <2> QED
    BY <2>1, <2>2 DEF OpensOnly
<1>18. AddsOnly(blocks, cs, at)
  BY <1>2, <1>5, <1>8, <1>9, <1>10 DEF AddsOnly
<1>19. Shape(cs, stack', entry)
  BY <1>2, <1>5, <1>6, <1>7, <1>12, <1>13, <1>14, <1>15, <1>16, <1>17, <1>18, Enters
<1>20. PhisDone(blocks, stack) => PhisDone(cs, stack')
  <2>1. \A b \in 1..Len(cs) : b > Len(blocks) => cs[b].phi = <<>>
    BY <1>2, <1>8, <1>9, <1>10
  <2> QED
    BY <1>2, <1>7, <1>12, <2>1, EntersPhis
<1>21. ElseStays(stack, at) => ElseStays(stack', entry)
  <2>1. g.kind \notin Branching /\ ~At(g, "if", {"else"})
    BY <1>6 DEF Branching, At
  <2> QED
    BY <1>2, <1>6, <1>7, <2>1, EntersElse
<1>22. stack' \in Seq(Frame)
  BY <1>2, <1>7, StackTyped
<1>23. at' = entry /\ entry \in 1..Len(cs)
  BY <1>1, <1>5, <1>9 DEF entry
<1> QED
  BY <1>7, <1>11, <1>19, <1>20, <1>21, <1>22, <1>23 DEF Inductive, Sound, cs

\* The frame of funGen() becomes that of the let around it.
LEMMA FunEnds ==
  ASSUME NEW bs, NEW cs, NEW st, NEW ts, NEW p, NEW k, NEW f, NEW g,
         OnTop(bs, st, p, k, f), f.kind = "fun", Replaced(st, ts, k, g), Plain(g),
         g.kind = "let", g.start = f.start, g.mark = f.mark, g.next = f.next,
         g.held = Const, Blocks(cs), Len(cs) = Len(bs),
         \A b \in 1..Len(bs) : b # p => Alike(cs[b], bs[b]),
         cs[p].ends = "ret", cs[p].succs = {}, cs[p].fun = bs[p].fun, cs[p].phi = bs[p].phi
  PROVE  /\ Shape(cs, ts, f.start)
         /\ PhisDone(bs, st) => PhisDone(cs, ts)
         /\ ElseStays(st, p) => ElseStays(ts, f.start)
<1> DEFINE m == f.mark
           q == f.start
<1>1. /\ FrameInv(bs, f) /\ Here(f, p) /\ Closed(bs, m)
      /\ Len(bs) \in Nat /\ m \in 1..Len(bs) /\ q \in 1..m
      /\ \A i \in 1..k : Nested(st[i], f)
      /\ k # 0 /\ bs[p].succs = {} /\ bs[p].fun \in 1..p
  BY TopFrame
<1>2. Kept(st, ts, k, m) /\ Len(ts) = k + 1 /\ ts[k + 1] = g
  BY BelowKept
<1>3. /\ Stacked(bs, st, p) /\ SameFun(bs, st, p) /\ OpenOnly(bs, st, p)
      /\ Attached(bs, st) /\ Edges(bs, st) /\ k \in Nat /\ Len(st) = k + 1
      /\ st[k + 1] = f /\ p \in 1..Len(bs) /\ Blocks(bs) /\ q \in 1..Len(bs)
      /\ st # <<>>
  BY <1>1 DEF OnTop, Shape
<1> DEFINE T == {}
<1>4. \A b : b \notin T
  OBVIOUS
<1> HIDE DEF T
<1>5. Changed(bs, cs, p, m, T)
  <2>1. \A b \in 1..Len(cs) : \A s \in cs[b].succs :
          b \in 1..Len(bs) /\ s \in bs[b].succs
    BY DEF Alike
  <2> QED
    BY <1>1, <1>3, <1>4, <2>1 DEF Changed, Alike
<1>6. Grown(bs, cs, p, m)
  BY <1>1, <1>5, ChangedGrows
<1>7. /\ \A b : ~Reserves(g, b) /\ ~Unplaced(g, b)
      /\ ~Counts(f) /\ \A b : ~Unplaced(f, b) /\ (Reserves(f, b) <=> b = q)
  BY PlainFacts DEF Counts, Unplaced, Reserves, HasNext, HasAfter, At
<1>8. \A b : /\ Old(st, k, b) <=> b = q
             /\ ~UnplacedOld(st, k, b) /\ ~New(ts, k, b) /\ ~UnplacedNow(ts, k, b)
  <2>1. \A i : i \in k + 1..Len(st) <=> i = k + 1
    BY <1>3
  <2> QED
    BY <1>2, <1>3, <1>7, <2>1 DEF Old, UnplacedOld, New, UnplacedNow
<1>9. \A b \in 1..Len(cs) : ~(b \in T \/ b > Len(bs))
  BY <1>1, <1>4
<1>10. p # q /\ (p = f.start \/ p > f.mark)
  BY <1>1, <1>7 DEF Here
<1> HIDE DEF m, q
<1>11. FrameInv(cs, g) /\ Here(g, q)
  <2>1. Framed(cs, g) /\ Placed(cs, g) /\ PhiFacts(cs, g)
    <3>1. /\ g.start \in 1..Len(cs) /\ g.mark \in g.start..Len(cs)
          /\ g.held \in 0..Len(cs) /\ g.next \in 0..Len(cs)
          /\ ~At(g, "match", {"expr"})
      BY <1>1 DEF FrameInv, Framed, Const, At, m, q
    <3> QED
      BY <3>1, PlainFrame
  <2>2. Region(cs, g)
    <3>1. Region(bs, f) /\ f.mark = m
      BY <1>1 DEF FrameInv, m
    <3> QED
      BY <1>5, <1>10, <3>1, ChangedRegion
  <2>3. Here(g, q)
    BY <1>7 DEF Here, q
  <2> QED
    BY <2>1, <2>2, <2>3 DEF FrameInv
<1>12. Stacked(cs, ts, q)
  <2>1. \A i \in 1..k : Here(st[i], q) /\ Nested(st[i], g)
    BY <1>1 DEF Nested, Here, q
  <2>2. Len(ts) = k + 1 =>
          /\ FrameInv(cs, ts[k + 1]) /\ Here(ts[k + 1], q)
          /\ \A i \in 1..k : Nested(st[i], ts[k + 1])
          /\ ts[k + 1].kind = "main" <=> k = 0
    BY <1>1, <1>2, <1>11, <2>1
  <2> QED
    BY <1>2, <1>3, <1>6, <2>1, <2>2, StackedKept
<1>13. SameFun(cs, ts, q)
  <2>1. cs[q].fun = bs[q].fun
    BY <1>3 DEF Alike
  <2>2. /\ ts[k + 1].kind # "fun" => cs[q].fun = cs[ts[k + 1].start].fun
        /\ Len(st) = k + 1 /\ ts[k + 1].start = st[k + 1].start
        /\ cs[ts[k + 1].start].fun = bs[ts[k + 1].start].fun
    BY <1>2, <1>3, <2>1 DEF q
  <2>3. Len(ts) # k
    BY <1>2, <1>3
  <2> QED
    BY <1>2, <1>3, <1>6, <2>2, <2>3, SameFunKept
<1>14. OpenOnly(cs, ts, q)
  <2>1. ts # <<>>
    BY <1>2, <1>3
  <2>2. \A b \in 1..Len(bs) : b # p /\ b \notin T =>
          (Old(st, k, b) <=> b = q \/ New(ts, k, b))
    BY <1>8
  <2>3. \A b \in 1..Len(cs) : b = p \/ b \in T \/ b > Len(bs) =>
          /\ cs[b].ends = "open" <=> b = q \/ New(ts, k, b)
          /\ cs[b].ends = "open" => cs[b].succs = {}
    BY <1>8, <1>9, <1>10
  <2>4. Closed(bs, m) /\ Stacked(bs, st, p) /\ OpenOnly(bs, st, p) /\ st # <<>>
    BY <1>1, <1>3 DEF m
  <2> QED
    BY <1>2, <1>5, <2>1, <2>2, <2>3, <2>4, OpenChanged
<1>15. Attached(cs, ts)
  <2>1. \A b \in 1..Len(cs) : b \in T \/ b > Len(bs) =>
           IF UnplacedNow(ts, k, b) THEN cs[b].fun = Nowhere
           ELSE cs[b].fun \in 1..b /\ cs[cs[b].fun].fun = cs[b].fun
    BY <1>9
  <2>2. Closed(bs, m) /\ Stacked(bs, st, p) /\ Attached(bs, st)
    BY <1>1, <1>3 DEF m
  <2> QED
    BY <1>2, <1>5, <1>8, <2>1, <2>2, AttachedChanged
<1>16. Edges(cs, ts)
  <2>1. \A b \in 1..Len(cs) : \A s \in cs[b].succs :
           s > m => /\ s # cs[s].fun
                    /\ \/ cs[s].fun = cs[b].fun
                       \/ UnplacedNow(ts, k, s) /\ cs[b].fun = cs[ts[k + 1].start].fun
    <3> SUFFICES ASSUME NEW b \in 1..Len(cs), NEW s \in cs[b].succs, s > m
                 PROVE  s # cs[s].fun /\ cs[s].fun = cs[b].fun
      OBVIOUS
    <3>1. b \in 1..Len(bs) /\ b # p /\ s \in bs[b].succs /\ s \in 1..Len(bs)
      <4>1. b \in 1..Len(bs) /\ b # p
        OBVIOUS
      <4>2. s \in bs[b].succs
        BY <4>1 DEF Alike
      <4> QED
        BY <1>3, <4>1, <4>2 DEF Blocks
    <3>2. cs[s].fun = bs[s].fun /\ cs[b].fun = bs[b].fun
      BY <3>1 DEF Alike
    <3>3. ~\E i \in 1..Len(st) : Unplaced(st[i], s)
      <4>1. \A i \in k + 1..Len(st) : st[i] = f
        BY <1>3
      <4>2. \A i \in 1..Len(st) : i \in 1..k \/ i \in k + 1..Len(st)
        BY <1>3
      <4>3. \A i \in 1..k : Unplaced(st[i], s) => s \in 1..m
        <5>1. SomeUnplaced(st, k, s) => s \in 1..m
          BY <1>1, <1>2, <1>3, UnplacedKept DEF m
        <5> QED
          BY <5>1 DEF SomeUnplaced
      <4> QED
        BY <1>1, <1>7, <4>1, <4>2, <4>3 DEF m
    <3> QED
      BY <1>3, <3>1, <3>2, <3>3 DEF Edges
  <2>2. Stacked(bs, st, p) /\ Edges(bs, st)
    BY <1>3
  <2> QED
    BY <1>2, <1>6, <2>1, <2>2, EdgesKept
<1>17. PhisDone(bs, st) => PhisDone(cs, ts)
  <2>1. \A b \in 1..Len(cs) : b \in T \/ b > Len(bs) =>
          cs[b].phi = <<>> \/ Complete(cs, b) \/ (Counts(g) /\ g.held = b)
    BY <1>9
  <2>2. Changed(bs, cs, p, f.mark, T)
    BY <1>5 DEF m
  <2> QED
    BY <1>7, <2>1, <2>2, GoesOnPhis
<1>18. ASSUME ElseStays(st, p) PROVE ElseStays(ts, q)
  <2>1. /\ g.kind \notin Branching /\ ~At(g, "if", {"else"})
        /\ \A i \in 1..k : i \in 1..Len(st) /\ ts[i] = st[i]
    BY <1>2, <1>3 DEF Branching, At, Kept
  <2> SUFFICES ASSUME NEW i \in 1..Len(ts), At(ts[i], "if", {"else"})
               PROVE  /\ \A j \in i + 1..Len(ts) :
                           NoFun(ts, i + 1, j - 1) =>
                             ts[j].start = ts[i].next /\ ts[j].kind \notin Branching
                      /\ NoFun(ts, i + 1, Len(ts)) => q = ts[i].next
    BY DEF ElseStays
  <2>2. i \in 1..k /\ i \in 1..Len(st) /\ ts[i] = st[i] /\ At(st[i], "if", {"else"})
    BY <1>2, <1>3, <2>1
  <2>3. ASSUME NEW j \in i + 1..Len(ts), NoFun(ts, i + 1, j - 1)
        PROVE  ts[j].start = ts[i].next /\ ts[j].kind \notin Branching
    <3>1. NoFun(st, i + 1, j - 1) /\ j \in i + 1..Len(st)
      BY <1>2, <1>3, <2>1, <2>2, <2>3 DEF NoFun
    <3>2. st[j].start = st[i].next /\ st[j].kind \notin Branching
      BY <1>18, <2>2, <3>1 DEF ElseStays
    <3>3. j \in 1..k \/ j = k + 1
      BY <1>2, <1>3, <2>2
    <3> QED
      BY <1>2, <1>3, <2>1, <2>2, <3>2, <3>3
  <2>4. ASSUME NoFun(ts, i + 1, Len(ts)) PROVE q = ts[i].next
    <3>1. NoFun(ts, i + 1, (k + 1) - 1) /\ k + 1 \in i + 1..Len(ts)
      BY <1>2, <1>3, <2>2, <2>4 DEF NoFun
    <3> QED
      BY <1>2, <2>3, <3>1 DEF q
  <2> QED
    BY <2>3, <2>4
<1> QED
  BY <1>12, <1>13, <1>14, <1>15, <1>16, <1>17, <1>18 DEF Shape, q

\* The end of a function goes back to where its definition stands.
LEMMA FunBodySound ==
  ASSUME Inductive, FunBody
  PROVE  Inductive'
<1> DEFINE k == Len(stack) - 1
           g == [Top EXCEPT !.kind = "let", !.held = Const]
           us == Use(blocks, at, {value})
<1>1. /\ Resumed("fun", "body") /\ blocks' = Ret(us, at)
      /\ at' = Top.start /\ Proceed(g)
  BY DEF FunBody, Ret
<1>2. /\ OnTop(blocks, stack, at, k, Top) /\ Top.kind = "fun" /\ Top.step = "body"
      /\ value \in 0..Len(blocks) /\ Len(blocks) \in Nat /\ Top \in Frame
      /\ Blocks(blocks) /\ at \in 1..Len(blocks)
      /\ Top.mark \in 1..Len(blocks) /\ Top.start \in 1..Top.mark
      /\ blocks[at].succs = {}
  <2>1. Blocks(blocks) /\ at \in 1..Len(blocks)
    BY DEF Inductive, Sound
  <2> QED
    BY <1>1, <2>1, Resumes, TopFrame
<1>3. /\ g \in Frame /\ g.kind = "let" /\ g.start = Top.start
      /\ g.mark = Top.mark /\ g.next = Top.next /\ g.held = Const /\ g.step = "body"
  <2>1. "let" \in Kinds /\ Const \in Nat
    BY DEF Kinds, Const
  <2> QED
    BY <1>2, <2>1 DEF Frame
<1>4. Replaced(stack, stack', k, g) /\ value' = Awaited
  BY <1>1, <1>3 DEF Proceed, Below, Replaced
<1>5. /\ Blocks(us) /\ Len(us) = Len(blocks)
      /\ \A b \in 1..Len(blocks) : Alike(us[b], blocks[b])
  <2>1. {value} \in SUBSET (0..Len(blocks))
    BY <1>2
  <2> QED
    BY <1>2, <2>1, UseBlocks
<1> HIDE DEF us, k, g
<1>6. /\ Blocks(blocks') /\ Len(blocks') = Len(us)
      /\ \A c \in 1..Len(us) : c # at => blocks'[c] = us[c]
      /\ blocks'[at].fun = us[at].fun /\ blocks'[at].phi = us[at].phi
      /\ blocks'[at].ends = "ret" /\ blocks'[at].succs = us[at].succs
  BY <1>1, <1>2, <1>5, RetBlocks
<1>7. /\ Len(blocks') = Len(blocks)
      /\ \A b \in 1..Len(blocks) : b # at => Alike(blocks'[b], blocks[b])
      /\ blocks'[at].fun = blocks[at].fun /\ blocks'[at].phi = blocks[at].phi
      /\ blocks'[at].succs = {}
  BY <1>2, <1>5, <1>6 DEF Alike
<1>8. Plain(g)
  BY <1>3 DEF Plain, HasNext, HasAfter, HasHeader, At
<1>9. /\ Shape(blocks', stack', Top.start)
      /\ PhisDone(blocks, stack) => PhisDone(blocks', stack')
      /\ ElseStays(stack, at) => ElseStays(stack', Top.start)
  BY <1>2, <1>3, <1>4, <1>6, <1>7, <1>8, FunEnds
<1>10. stack' \in Seq(Frame)
  BY <1>2, <1>4, StackTyped
<1>11. at' = Top.start /\ Top.start \in 1..Len(blocks')
  BY <1>1, <1>2, <1>7
<1> QED
  BY <1>4, <1>6, <1>9, <1>10, <1>11 DEF Inductive, Sound

-----------------------------------------------------------------------------
(* The branching expressions. *)

\* Three blocks that a function F has got.
More(bs, F) == bs \o [i \in 1..3 |-> Fresh(F)]

\* What three new blocks change.
LEMMA ThreeMore ==
  ASSUME NEW bs, Blocks(bs), NEW F \in Nat, NEW cs, cs = More(bs, F)
  PROVE  /\ Blocks(cs) /\ Len(cs) = Len(bs) + 3
         /\ \A b \in 1..Len(bs) : cs[b] = bs[b]
         /\ \A b \in 1..Len(cs) : b > Len(bs) =>
              /\ cs[b].succs = {} /\ cs[b].ends = "open" /\ cs[b].phi = <<>>
              /\ cs[b].fun = F
<1> DEFINE fs == [i \in 1..3 |-> Fresh(F)]
<1>1. Fresh(F) \in Block /\ Fresh(F).fun = F
  <2>1. <<>> \in Seq([val: Nat, from: Nat])
    OBVIOUS
  <2> QED
    BY <2>1 DEF Fresh, Block
<1>2. fs \in Seq(Block) /\ Len(fs) = 3 /\ \A i \in 1..3 : fs[i] = Fresh(F)
  BY <1>1
<1>3. cs = Joined(bs, fs)
  BY DEF More, Joined
<1> HIDE DEF fs
<1>4. AllFresh(fs) /\ Len(fs) = 3 /\ \A i \in 1..3 : fs[i].fun = F
  BY <1>1, <1>2 DEF AllFresh
<1>5. /\ Blocks(cs) /\ Len(cs) = Len(bs) + Len(fs)
      /\ \A c \in 1..Len(bs) : cs[c] = bs[c]
      /\ \A c \in 1..Len(cs) : c > Len(bs) =>
           /\ cs[c].succs = {} /\ cs[c].ends = "open" /\ cs[c].phi = <<>>
           /\ c - Len(bs) \in 1..Len(fs) /\ cs[c].fun = fs[c - Len(bs)].fun
  <2>1. AllFresh(fs)
    BY <1>4
  <2> QED
    <3>1. Grows(bs, fs, cs)
      BY <1>3, <2>1, FreshBlocks
    <3> QED
      BY <3>1 DEF Grows
<1> QED
  BY <1>4, <1>5

\* The branch of an if opens its then, else and end blocks.
LEMMA IfCondSound ==
  ASSUME Inductive, IfCond
  PROVE  Inductive'
<1> DEFINE k == Len(stack) - 1
           n == Len(blocks)
           more == More(blocks, CurrentFun)
           us == Use(more, at, {value})
           g == [Top EXCEPT !.step = "then", !.next = n + 2, !.after = n + 3,
                            !.held = n + 1]
           cs == blocks'
<1>1. /\ Resumed("if", "cond") /\ cs = Branch(us, at, {n + 1, n + 2})
      /\ at' = n + 1 /\ Proceed(g)
  BY DEF IfCond, CondBranch, More
<1>2. /\ OnTop(blocks, stack, at, k, Top) /\ Top.kind = "if" /\ Top.step = "cond"
      /\ value \in 0..n /\ n \in Nat /\ Top \in Frame /\ FrameInv(blocks, Top)
      /\ Blocks(blocks) /\ at \in 1..n /\ Top.mark \in 1..n /\ Top.start \in 1..Top.mark
      /\ blocks[at].succs = {} /\ CurrentFun = blocks[at].fun /\ CurrentFun \in 1..at
      /\ blocks[Top.start].fun = CurrentFun
  <2>1. Blocks(blocks) /\ at \in 1..n /\ CurrentFun = blocks[at].fun
    BY DEF Inductive, Sound, CurrentFun
  <2> QED
    BY <1>1, <2>1, Resumes, TopFrame
<1> HIDE DEF n
<1>3. /\ g \in Frame /\ g.kind = "if" /\ g.start = Top.start /\ g.mark = Top.mark
      /\ g.step = "then" /\ g.next = n + 2 /\ g.after = n + 3 /\ g.held = n + 1
  <2>1. "then" \in Steps /\ n + 1 \in Nat /\ n + 2 \in Nat /\ n + 3 \in Nat
    BY <1>2 DEF Steps
  <2> QED
    BY <1>2, <2>1 DEF Frame
<1>4. Replaced(stack, stack', k, g) /\ value' = Awaited
  BY <1>1, <1>3 DEF Proceed, Below, Replaced
<1>5. /\ Blocks(more) /\ Len(more) = n + 3
      /\ \A b \in 1..n : more[b] = blocks[b]
      /\ \A b \in 1..Len(more) : b > n =>
           /\ more[b].succs = {} /\ more[b].ends = "open" /\ more[b].phi = <<>>
           /\ more[b].fun = CurrentFun
  BY <1>2, ThreeMore DEF n
<1> HIDE DEF more, g, k, cs
<1>6. /\ Blocks(us) /\ Len(us) = n + 3
      /\ \A b \in 1..n + 3 : Alike(us[b], more[b])
  <2>1. {value} \in SUBSET (0..Len(more)) /\ at \in 1..Len(more)
    BY <1>2, <1>5
  <2> QED
    BY <1>5, <2>1, UseBlocks
<1> HIDE DEF us
<1>7. /\ Blocks(cs) /\ Len(cs) = n + 3
      /\ \A b \in 1..n + 3 : b # at => cs[b] = us[b]
      /\ cs[at].fun = us[at].fun /\ cs[at].phi = us[at].phi
      /\ cs[at].ends = "br" /\ cs[at].succs = {n + 1, n + 2}
  <2>1. {n + 1, n + 2} \in SUBSET (1..Len(us)) /\ at \in 1..Len(us)
    BY <1>2, <1>6
  <2> QED
    BY <1>1, <1>6, <2>1, BranchBlocks
<1>8. /\ \A b \in 1..n : b # at => Alike(cs[b], blocks[b])
      /\ cs[at].fun = CurrentFun /\ cs[at].phi = blocks[at].phi
      /\ \A b \in 1..Len(cs) : b > n =>
           /\ cs[b].succs = {} /\ cs[b].ends = "open" /\ cs[b].phi = <<>>
           /\ cs[b].fun = CurrentFun /\ b \in {n + 1, n + 2, n + 3}
  <2>1. \A b \in 1..n : b \in 1..n + 3
    BY <1>2
  <2>2. ASSUME NEW b \in 1..n, b # at PROVE Alike(cs[b], blocks[b])
    BY <1>5, <1>6, <1>7, <2>1, <2>2 DEF Alike
  <2>3. cs[at].fun = CurrentFun /\ cs[at].phi = blocks[at].phi
    BY <1>2, <1>5, <1>6, <1>7, <2>1 DEF Alike
  <2>4. ASSUME NEW b \in 1..Len(cs), b > n
        PROVE  /\ cs[b].succs = {} /\ cs[b].ends = "open" /\ cs[b].phi = <<>>
               /\ cs[b].fun = CurrentFun /\ b \in {n + 1, n + 2, n + 3}
    <3>1. b \in 1..n + 3 /\ b \in 1..Len(more) /\ b # at
      BY <1>2, <1>5, <1>7, <2>4
    <3>2. cs[b] = us[b] /\ Alike(us[b], more[b])
      BY <1>6, <1>7, <3>1
    <3>3. b \in {n + 1, n + 2, n + 3}
      BY <1>2, <2>4, <3>1
    <3> QED
      BY <1>5, <2>4, <3>1, <3>2, <3>3 DEF Alike
  <2> QED
    BY <2>2, <2>3, <2>4
<1> DEFINE T == {}
<1>9. \A b : b \notin T
  OBVIOUS
<1> HIDE DEF T
<1>10. Changed(blocks, cs, at, Top.mark, T)
  <2>1. \A b \in 1..n : b = at \/ b # at
    OBVIOUS
  <2>2. \A b \in 1..n : /\ b # at => Alike(cs[b], blocks[b])
                        /\ cs[b].fun = blocks[b].fun
                        /\ blocks[b].succs \subseteq cs[b].succs
    BY <1>2, <1>8 DEF Alike
  <2>3. ASSUME NEW b \in 1..Len(cs), NEW s \in cs[b].succs
        PROVE  s \in T \/ s > n \/ (b \in 1..n /\ s \in blocks[b].succs)
    <3>1. b \in 1..n \/ b > n
      BY <1>2
    <3> QED
      BY <1>2, <1>7, <1>8, <2>3, <3>1 DEF Alike
  <2>4. n <= Len(cs)
    BY <1>2, <1>7
  <2> QED
    BY <1>2, <1>7, <1>8, <1>9, <2>2, <2>3, <2>4 DEF Changed, n
<1>11. /\ HasNext(g) /\ HasAfter(g) /\ ~HasHeader(g) /\ ~Counts(g) /\ ~Counts(Top)
       /\ \A b : ~Unplaced(g, b) /\ ~Unplaced(Top, b) /\ ~Reserves(Top, b)
       /\ \A b : Reserves(g, b) <=> b \in {n + 2, n + 3}
  BY <1>2, <1>3 DEF HasNext, HasAfter, HasHeader, Counts, Unplaced, Reserves, At
<1>12. Framed(cs, g) /\ Placed(cs, g)
  BY <1>2, <1>3, <1>7, <1>8, <1>11 DEF Framed, Placed, Alike
<1>13. PhiFacts(cs, g)
  <2>1. PredsIn(cs, n + 3) = {}
    <3>1. ASSUME NEW b \in 1..Len(cs), n + 3 \in cs[b].succs PROVE FALSE
      <4>1. b \in 1..n \/ b > n
        BY <1>2
      <4>2. n + 3 \in T \/ n + 3 > n \/ (b \in 1..n /\ n + 3 \in blocks[b].succs)
        BY <1>2
      <4>3. \A c \in 1..n : n + 3 \notin blocks[c].succs
        BY <1>2 DEF Blocks, n
      <4> QED
        BY <1>2, <1>7, <1>8, <3>1, <4>1, <4>3 DEF Alike
    <3> QED
      BY <3>1 DEF PredsIn
  <2> QED
    BY <1>2, <1>3, <1>7, <1>8, <1>11, <2>1 DEF PhiFacts, At
<1>14. Here(g, n + 1) /\ n + 1 > Top.mark /\ n + 1 \in Nat /\ cs[n + 1].fun = blocks[at].fun
  BY <1>2, <1>3, <1>7, <1>8, <1>11 DEF Here
<1>15. Shape(cs, stack', n + 1)
  <2>1. \A b \in 1..Len(blocks) : b # at /\ b \notin T =>
           (Reserves(Top, b) <=> b = n + 1 \/ Reserves(g, b))
    BY <1>2, <1>11 DEF n
  <2>2. \A b \in 1..Len(cs) : b = at \/ b \in T \/ b > Len(blocks) =>
           /\ cs[b].ends = "open" <=> b = n + 1 \/ Reserves(g, b)
           /\ cs[b].ends = "open" => cs[b].succs = {}
    BY <1>2, <1>7, <1>8, <1>9, <1>11 DEF n
  <2>3. \A b \in 1..Len(blocks) : b \notin T => (Unplaced(Top, b) <=> Unplaced(g, b))
    BY <1>11
  <2>4. \A b \in 1..Len(cs) : b \in T \/ b > Len(blocks) =>
           cs[b].fun = IF Unplaced(g, b) THEN Nowhere ELSE blocks[at].fun
    BY <1>2, <1>8, <1>9, <1>11 DEF n
  <2> QED
    BY <1>2, <1>3, <1>4, <1>10, <1>12, <1>13, <1>14, <2>1, <2>2, <2>3, <2>4, GoesOn
<1>16. PhisDone(blocks, stack) => PhisDone(cs, stack')
  <2>1. \A b \in 1..Len(cs) : b \in T \/ b > Len(blocks) =>
          cs[b].phi = <<>> \/ Complete(cs, b) \/ (Counts(g) /\ g.held = b)
    BY <1>8, <1>9 DEF n
  <2> QED
    BY <1>2, <1>4, <1>10, <1>11, <2>1, GoesOnPhis
<1>17. ElseStays(stack, at) => ElseStays(stack', n + 1)
  <2>1. Top.kind \in Branching /\ ~At(g, "if", {"else"}) /\ Top.kind # "fun"
    BY <1>2, <1>3 DEF Branching, At
  <2> QED
    BY <1>2, <1>3, <1>4, <2>1, TopElse
<1>18. stack' \in Seq(Frame)
  BY <1>2, <1>4, StackTyped
<1>19. at' = n + 1 /\ n + 1 \in 1..Len(cs)
  BY <1>1, <1>2, <1>7
<1> QED
  BY <1>4, <1>7, <1>15, <1>16, <1>17, <1>18, <1>19 DEF Inductive, Sound, cs

-----------------------------------------------------------------------------
(* The blocks that the top frame goes on with, and their predecessors. *)

\* They are open, empty, and in the function unless it has yet to place them.
LEMMA TopReserved ==
  ASSUME NEW bs, NEW st, NEW p, NEW k, NEW f, OnTop(bs, st, p, k, f)
  PROVE  \A b \in 1..Len(bs) :
           /\ Reserves(f, b) => bs[b].ends = "open" /\ bs[b].succs = {}
           /\ Unplaced(f, b) => bs[b].fun = Nowhere
           /\ b > f.mark /\ b # p /\ ~Reserves(f, b) => bs[b].ends # "open"
<1>1. /\ k + 1 \in 1..Len(st) /\ f = st[k + 1] /\ st # <<>>
      /\ OpenOnly(bs, st, p) /\ Attached(bs, st)
  BY DEF OnTop, Shape
<1>2. \A b \in 1..Len(bs) : Reserves(f, b) => bs[b].ends = "open" /\ bs[b].succs = {}
  BY <1>1 DEF OpenOnly
<1>3. \A b \in 1..Len(bs) : Unplaced(f, b) => bs[b].fun = Nowhere
  <2>1. \A b : Unplaced(f, b) => SomeUnplaced(st, Len(st), b)
    BY <1>1 DEF SomeUnplaced
  <2> QED
    BY <1>1, <2>1 DEF Attached
<1>4. ASSUME NEW b \in 1..Len(bs), b > f.mark, b # p, ~Reserves(f, b)
      PROVE  bs[b].ends # "open"
  <2>1. ASSUME NEW i \in 1..k PROVE ~Reserves(st[i], b)
    <3>1. Nested(st[i], f) /\ FrameInv(bs, st[i]) /\ f.mark \in 1..Len(bs) /\ Len(bs) \in Nat
      BY TopFrame
    <3> QED
      BY <1>4, <3>1 DEF Nested, Under, FrameInv, Framed, Reserves
  <2>2. \A i \in 1..Len(st) : i \in 1..k \/ i = k + 1
    BY DEF OnTop
  <2> QED
    BY <1>1, <1>4, <2>1, <2>2 DEF OpenOnly
<1> QED
  BY <1>2, <1>3, <1>4

\* Block p is the only one that has got an edge to t.
GetsEdge(bs, cs, p, t) ==
  /\ Len(bs) \in Nat /\ Len(cs) \in Nat /\ Len(bs) <= Len(cs) /\ p \in 1..Len(cs)
  /\ \A b \in 1..Len(cs) :
       t \in cs[b].succs <=> (b \in 1..Len(bs) /\ t \in bs[b].succs) \/ b = p

\* Then it is one more predecessor.
LEMMA PredsMove ==
  ASSUME NEW bs, NEW cs, NEW t, NEW p, GetsEdge(bs, cs, p, t)
  PROVE  PredsIn(cs, t) = PredsIn(bs, t) \cup {p}
<1>1. \A b \in 1..Len(bs) : b \in 1..Len(cs)
  BY DEF GetsEdge
<1>2. ASSUME NEW b \in PredsIn(cs, t) PROVE b \in PredsIn(bs, t) \cup {p}
  BY DEF PredsIn, GetsEdge
<1>3. ASSUME NEW b \in PredsIn(bs, t) \cup {p} PROVE b \in PredsIn(cs, t)
  BY <1>1 DEF PredsIn, GetsEdge
<1> QED
  BY <1>2, <1>3

\* The values of PHIs.
Pairs == Seq([val: Nat, from: Nat])

\* One more incoming value, from another block.
LEMMA FromsAppend ==
  ASSUME NEW phi \in Pairs, NEW v \in Nat, NEW b \in Nat
  PROVE  /\ Append(phi, Pair(v, b)) \in Pairs
         /\ Len(Append(phi, Pair(v, b))) = Len(phi) + 1
         /\ Froms(Append(phi, Pair(v, b))) = Froms(phi) \cup {b}
         /\ Distinct(phi) /\ b \notin Froms(phi) => Distinct(Append(phi, Pair(v, b)))
<1> DEFINE x == Pair(v, b)
           psi == Append(phi, x)
<1>1. x \in [val: Nat, from: Nat] /\ x.from = b
  BY DEF Pair
<1>2. Len(phi) \in Nat /\ phi \in Seq([val: Nat, from: Nat])
  BY DEF Pairs
<1>3. /\ psi \in Pairs /\ Len(psi) = Len(phi) + 1
      /\ \A k \in 1..Len(phi) : psi[k] = phi[k]
      /\ psi[Len(phi) + 1] = x
  BY <1>1, <1>2 DEF Pairs
<1>4. \A k \in 1..Len(psi) : k \in 1..Len(phi) \/ k = Len(phi) + 1
  BY <1>2, <1>3
<1>5. \A k \in 1..Len(phi) : k \in 1..Len(psi)
  BY <1>2, <1>3
<1>6. Len(phi) + 1 \in 1..Len(psi)
  BY <1>2, <1>3
<1> HIDE DEF psi, x
<1>7. Froms(psi) = Froms(phi) \cup {b}
  <2>1. ASSUME NEW c \in Froms(psi) PROVE c \in Froms(phi) \cup {b}
    BY <1>1, <1>3, <1>4, <2>1 DEF Froms
  <2>2. ASSUME NEW c \in Froms(phi) PROVE c \in Froms(psi)
    BY <1>3, <1>5, <2>2 DEF Froms
  <2>3. b \in Froms(psi)
    BY <1>1, <1>3, <1>6 DEF Froms
  <2> QED
    BY <2>1, <2>2, <2>3
<1>8. ASSUME Distinct(phi), b \notin Froms(phi) PROVE Distinct(psi)
  <2> SUFFICES ASSUME NEW k \in 1..Len(psi), NEW l \in 1..Len(psi),
                      psi[k].from = psi[l].from
               PROVE  k = l
    BY DEF Distinct
  <2>1. CASE k \in 1..Len(phi) /\ l \in 1..Len(phi)
    BY <1>3, <1>8, <2>1 DEF Distinct
  <2>2. CASE k \in 1..Len(phi) /\ l = Len(phi) + 1
    BY <1>1, <1>3, <1>8, <2>2 DEF Froms
  <2>3. CASE k = Len(phi) + 1 /\ l \in 1..Len(phi)
    BY <1>1, <1>3, <1>8, <2>3 DEF Froms
  <2> QED
    BY <1>4, <2>1, <2>2, <2>3
<1> QED
  BY <1>3, <1>7, <1>8 DEF psi, x

\* The first one.
LEMMA FromsOne ==
  ASSUME NEW v \in Nat, NEW b \in Nat
  PROVE  /\ <<Pair(v, b)>> \in Pairs /\ Len(<<Pair(v, b)>>) = 1
         /\ Froms(<<Pair(v, b)>>) = {b} /\ Distinct(<<Pair(v, b)>>)
<1>1. Pair(v, b) \in [val: Nat, from: Nat] /\ Pair(v, b).from = b
  BY DEF Pair
<1>2. \A k \in 1..1 : k = 1
  OBVIOUS
<1> QED
  BY <1>1, <1>2 DEF Pairs, Froms, Distinct

-----------------------------------------------------------------------------
(* A branching expression goes on after a subexpression, or returns. *)

\* What is left to show when the call goes on in block at' with frame g, and
\* has touched the blocks T of its own.
LEMMA ProceedSound ==
  ASSUME Inductive, NEW kind \in Branching, NEW step, Resumed(kind, step),
         NEW g, Proceed(g), g \in Frame,
         g.kind = kind, g.start = Top.start, g.mark = Top.mark,
         NEW T, Changed(blocks, blocks', at, Top.mark, T),
         Framed(blocks', g), Placed(blocks', g), PhiFacts(blocks', g), Here(g, at'),
         at' \in 1..Len(blocks'), at' = at \/ at' > Top.mark,
         blocks'[at'].fun = blocks[at].fun,
         \A b \in 1..Len(blocks) : b # at /\ b \notin T =>
           (Reserves(Top, b) <=> b = at' \/ Reserves(g, b)),
         \A b \in 1..Len(blocks') : b = at \/ b \in T \/ b > Len(blocks) =>
           /\ blocks'[b].ends = "open" <=> b = at' \/ Reserves(g, b)
           /\ blocks'[b].ends = "open" => blocks'[b].succs = {},
         \A b \in 1..Len(blocks) : b \notin T => (Unplaced(Top, b) <=> Unplaced(g, b)),
         \A b \in 1..Len(blocks') : b \in T \/ b > Len(blocks) =>
           blocks'[b].fun = IF Unplaced(g, b) THEN Nowhere ELSE blocks[at].fun,
         Counts(Top) /\ Top.held \notin T => Counts(g) /\ g.held = Top.held,
         \A b \in 1..Len(blocks') : b \in T \/ b > Len(blocks) =>
           \/ blocks'[b].phi = <<>> \/ Complete(blocks', b)
           \/ Counts(g) /\ g.held = b,
         At(g, "if", {"else"}) => at' = g.next
  PROVE  Inductive'
<1> DEFINE k == Len(stack) - 1
<1>1. OnTop(blocks, stack, at, k, Top) /\ Top.kind = kind
  BY Resumes
<1>2. Replaced(stack, stack', k, g) /\ value' = Awaited
  BY DEF Proceed, Below, Replaced
<1>3. Top.kind \notin {"fun", "main"} /\ Top.kind \in Branching
  BY <1>1 DEF Branching
<1>4. Blocks(blocks') /\ Len(blocks') \in Nat
  BY DEF Changed, Blocks
<1>5. at' \in Nat
  BY <1>4
<1> HIDE DEF k
<1>6. Shape(blocks', stack', at')
  <2>1. /\ Framed(blocks', g) /\ Placed(blocks', g) /\ PhiFacts(blocks', g)
        /\ Here(g, at') /\ Changed(blocks, blocks', at, Top.mark, T)
        /\ g.kind = Top.kind /\ g.start = Top.start /\ g.mark = Top.mark
        /\ at' = at \/ at' > Top.mark
        /\ blocks'[at'].fun = blocks[at].fun
    BY <1>1
  <2>2. \A b \in 1..Len(blocks) : b # at /\ b \notin T =>
          (Reserves(Top, b) <=> b = at' \/ Reserves(g, b))
    OBVIOUS
  <2>3. \A b \in 1..Len(blocks') : b = at \/ b \in T \/ b > Len(blocks) =>
          /\ blocks'[b].ends = "open" <=> b = at' \/ Reserves(g, b)
          /\ blocks'[b].ends = "open" => blocks'[b].succs = {}
    OBVIOUS
  <2>4. \A b \in 1..Len(blocks) : b \notin T => (Unplaced(Top, b) <=> Unplaced(g, b))
    OBVIOUS
  <2>5. \A b \in 1..Len(blocks') : b \in T \/ b > Len(blocks) =>
          blocks'[b].fun = IF Unplaced(g, b) THEN Nowhere ELSE blocks[at].fun
    OBVIOUS
  <2> QED
    BY ONLY <1>1, <1>2, <1>3, <1>5, <2>1, <2>2, <2>3, <2>4, <2>5, GoesOn
<1>7. PhisDone(blocks, stack) => PhisDone(blocks', stack')
  BY <1>1, <1>2, GoesOnPhis
<1>8. ElseStays(stack, at) => ElseStays(stack', at')
  BY <1>1, <1>2, <1>3, TopElse
<1>9. stack' \in Seq(Frame)
  BY <1>1, <1>2, StackTyped
<1> QED
  BY <1>2, <1>4, <1>6, <1>7, <1>8, <1>9 DEF Inductive, Sound

\* The same when it returns, and all of its blocks are done with.
LEMMA ReturnSound ==
  ASSUME Inductive, NEW kind \in Branching, NEW step, Resumed(kind, step),
         NEW v, Return(v), v \in 0..Len(blocks'),
         NEW T, Changed(blocks, blocks', at, Top.mark, T),
         at' \in 1..Len(blocks'), at' > Top.mark,
         blocks'[at'].fun = blocks[at].fun,
         \A b \in 1..Len(blocks) : b # at /\ b \notin T => (Reserves(Top, b) <=> b = at'),
         \A b \in 1..Len(blocks') : b = at \/ b \in T \/ b > Len(blocks) =>
           /\ blocks'[b].ends = "open" <=> b = at'
           /\ blocks'[b].ends = "open" => blocks'[b].succs = {},
         \A b \in 1..Len(blocks) : Unplaced(Top, b) => b \in T,
         \A b \in 1..Len(blocks') : b \in T \/ b > Len(blocks) =>
           blocks'[b].fun = blocks[at].fun,
         Counts(Top) => Top.held \in T,
         ~ElseBranches /\ ElseStays(stack, at) =>
           \A b \in 1..Len(blocks') : b \in T \/ b > Len(blocks) =>
             blocks'[b].phi = <<>> \/ Complete(blocks', b)
  PROVE  Inductive'
<1> DEFINE k == Len(stack) - 1
<1>1. OnTop(blocks, stack, at, k, Top) /\ Top.kind = kind
  BY Resumes
<1>2. Dropped(stack, stack', k) /\ value' = v
  BY DEF Return, Below, Dropped
<1>3. Top.kind \notin {"fun", "main"} /\ Top.kind # "fun" /\ Top.kind \in Branching
  BY <1>1 DEF Branching
<1>4. Blocks(blocks') /\ Len(blocks') \in Nat
  BY DEF Changed, Blocks
<1>5. at' \in Nat
  BY <1>4
<1> HIDE DEF k
<1>6. Shape(blocks', stack', at')
  BY <1>1, <1>2, <1>3, <1>5, Returns
<1>7. ~ElseBranches => PhisDone(blocks', stack')
  <2>1. ~ElseBranches => PhisDone(blocks, stack) /\ ElseStays(stack, at)
    BY DEF Inductive, Sound
  <2> QED
    BY <1>1, <1>2, <2>1, ReturnsPhis
<1>8. ElseStays(stack, at) => ElseStays(stack', at')
  BY <1>1, <1>2, <1>3, TopElse
<1>9. stack' \in Seq(Frame)
  BY <1>1, <1>2, StackTyped
<1>10. value' \in 1..Len(blocks') \cup {Const, Awaited}
  BY <1>2, <1>4 DEF Const
<1> QED
  BY <1>4, <1>6, <1>7, <1>8, <1>9, <1>10 DEF Inductive, Sound

\* What a branching expression finds when it goes on.
LEMMA CallFacts ==
  ASSUME Inductive, NEW kind \in Branching, NEW step, Resumed(kind, step)
  PROVE  /\ Blocks(blocks) /\ Len(blocks) \in Nat /\ at \in 1..Len(blocks)
         /\ Top \in Frame /\ Top.kind = kind /\ Top.step = step
         /\ Framed(blocks, Top) /\ Placed(blocks, Top) /\ PhiFacts(blocks, Top)
         /\ Top.mark \in 1..Len(blocks) /\ Top.start \in 1..Top.mark
         /\ at = Top.start \/ at > Top.mark
         /\ value \in 0..Len(blocks)
         /\ blocks[at].succs = {} /\ blocks[at].ends = "open"
         /\ CurrentFun = blocks[at].fun /\ CurrentFun \in 1..at
         /\ blocks[Top.start].fun = CurrentFun
         /\ \A b : Reserves(Top, b) => b # at
         /\ \A b \in 1..Len(blocks) :
              /\ Reserves(Top, b) => blocks[b].ends = "open" /\ blocks[b].succs = {}
              /\ Unplaced(Top, b) => blocks[b].fun = Nowhere
              /\ b > Top.mark /\ b # at /\ ~Reserves(Top, b) => blocks[b].ends # "open"
              /\ blocks[b].succs \subseteq 1..Len(blocks) /\ at \notin PredsIn(blocks, b)
<1> DEFINE k == Len(stack) - 1
<1>1. /\ OnTop(blocks, stack, at, k, Top) /\ Top.kind = kind /\ Top.step = step
      /\ value \in 0..Len(blocks) /\ Len(blocks) \in Nat
  BY Resumes
<1> HIDE DEF k
<1>2. /\ Top \in Frame /\ FrameInv(blocks, Top) /\ Here(Top, at)
      /\ Top.mark \in 1..Len(blocks) /\ Top.start \in 1..Top.mark
      /\ blocks[at].succs = {} /\ blocks[at].ends = "open"
      /\ blocks[at].fun \in 1..at
      /\ Top.kind # "fun" => blocks[Top.start].fun = blocks[at].fun
  BY <1>1, TopFrame
<1>3. Top.kind # "fun"
  BY <1>1 DEF Branching
<1>4. \A b \in 1..Len(blocks) :
        /\ Reserves(Top, b) => blocks[b].ends = "open" /\ blocks[b].succs = {}
        /\ Unplaced(Top, b) => blocks[b].fun = Nowhere
        /\ b > Top.mark /\ b # at /\ ~Reserves(Top, b) => blocks[b].ends # "open"
  BY <1>1, TopReserved
<1>5. Blocks(blocks) /\ at \in 1..Len(blocks)
  BY DEF Inductive, Sound
<1>6. \A b \in 1..Len(blocks) :
        blocks[b].succs \subseteq 1..Len(blocks) /\ at \notin PredsIn(blocks, b)
  BY <1>2, <1>5 DEF Blocks, PredsIn
<1> QED
  BY <1>1, <1>2, <1>3, <1>4, <1>5, <1>6 DEF FrameInv, Here, CurrentFun

\* The then part has ended, and the else part follows.
LEMMA IfThenElseSound ==
  ASSUME Inductive, IfThen, Top.more
  PROVE  Inductive'
<1> DEFINE n == Len(blocks)
           g == [Top EXCEPT !.step = "else", !.incoming = <<Pair(value, at)>>]
           cs == blocks'
           T == {Top.after}
<1>1. /\ Resumed("if", "then") /\ cs = Branch(blocks, at, {Top.after})
      /\ at' = Top.next /\ Proceed(g)
  BY DEF IfThen, ThenPair
<1>q. Resumed("if", "then") /\ Proceed(g)
  BY <1>1
<1>2. "if" \in Branching
  BY DEF Branching
<1>3. /\ Blocks(blocks) /\ n \in Nat /\ at \in 1..n /\ Top \in Frame
      /\ Top.kind = "if" /\ Top.step = "then" /\ value \in 0..n
      /\ Framed(blocks, Top) /\ Placed(blocks, Top) /\ PhiFacts(blocks, Top)
      /\ Top.mark \in 1..n /\ Top.start \in 1..Top.mark
      /\ CurrentFun = blocks[at].fun /\ CurrentFun \in 1..at
      /\ blocks[Top.start].fun = CurrentFun /\ blocks[at].succs = {}
      /\ \A b : Reserves(Top, b) => b # at
      /\ \A b \in 1..n : /\ Reserves(Top, b) => blocks[b].ends = "open" /\ blocks[b].succs = {}
                         /\ at \notin PredsIn(blocks, b)
  BY <1>1, <1>2, CallFacts
<1>4. /\ HasNext(Top) /\ HasAfter(Top) /\ ~Counts(Top) /\ ~HasHeader(Top)
      /\ \A b : ~Unplaced(Top, b)
      /\ \A b : Reserves(Top, b) <=> b \in {Top.next, Top.after}
  BY <1>3 DEF HasNext, HasAfter, HasHeader, Counts, Unplaced, Reserves, At
<1>5. /\ Top.after \in 1..n /\ Top.next \in 1..n /\ Top.after # Top.next
      /\ Top.after > Top.mark /\ Top.next > Top.mark
      /\ blocks[Top.after].fun = CurrentFun /\ blocks[Top.next].fun = CurrentFun
      /\ blocks[Top.after].phi = <<>> /\ PredsIn(blocks, Top.after) = {}
      /\ Top.after # at /\ Top.next # at
  BY <1>3, <1>4 DEF Framed, Placed, PhiFacts, At
<1> HIDE DEF n
<1>6. /\ Blocks(cs) /\ Len(cs) = n
      /\ \A b \in 1..n : b # at => cs[b] = blocks[b]
      /\ cs[at].fun = blocks[at].fun /\ cs[at].phi = blocks[at].phi
      /\ cs[at].ends = "br" /\ cs[at].succs = {Top.after}
  <2>1. T \in SUBSET (1..Len(blocks)) /\ at \in 1..Len(blocks)
    BY <1>3, <1>5 DEF n
  <2>2. cs = Branch(blocks, at, T)
    BY <1>1
  <2> HIDE DEF T
  <2>3. /\ Blocks(cs) /\ Len(cs) = Len(blocks)
        /\ \A b \in 1..Len(blocks) : b # at => cs[b] = blocks[b]
        /\ cs[at].fun = blocks[at].fun /\ cs[at].phi = blocks[at].phi
        /\ cs[at].ends = "br" /\ cs[at].succs = T
    BY <1>3, <2>1, <2>2, BranchBlocks
  <2> QED
    BY <2>3 DEF n, T
<1>7. /\ g \in Frame /\ g.kind = "if" /\ g.start = Top.start /\ g.mark = Top.mark
      /\ g.step = "else" /\ g.next = Top.next /\ g.after = Top.after /\ g.held = Top.held
      /\ g.incoming = <<Pair(value, at)>>
  <2>1. "else" \in Steps /\ <<Pair(value, at)>> \in Seq([val: Nat, from: Nat])
    <3>1. value \in Nat /\ at \in Nat
      BY <1>3
    <3> QED
      BY <3>1, FromsOne DEF Steps, Pairs
  <2> QED
    BY <1>3, <2>1 DEF Frame
<1>8. /\ Len(g.incoming) = 1 /\ Froms(g.incoming) = {at} /\ Distinct(g.incoming)
  BY <1>3, <1>7, FromsOne
<1> HIDE DEF cs, g
<1>9. \A b : b \in T <=> b = Top.after
  OBVIOUS
<1> HIDE DEF T
<1>10. Changed(blocks, cs, at, Top.mark, T)
  <2>1. \A b \in 1..Len(cs) : \A s \in cs[b].succs :
          s \in T \/ s > n \/ (b \in 1..n /\ s \in blocks[b].succs)
    BY <1>3, <1>6, <1>9
  <2>2. \A b \in 1..n : /\ b # at /\ b \notin T => Alike(cs[b], blocks[b])
                        /\ blocks[b].fun # Nowhere => cs[b].fun = blocks[b].fun
                        /\ blocks[b].succs \subseteq cs[b].succs
    BY <1>3, <1>6 DEF Alike
  <2> QED
    BY <1>3, <1>5, <1>6, <1>9, <2>1, <2>2 DEF Changed, n
<1>11. /\ ~HasNext(g) /\ HasAfter(g) /\ ~HasHeader(g) /\ ~Counts(g)
       /\ \A b : ~Unplaced(g, b)
       /\ \A b : Reserves(g, b) <=> b = Top.after
  BY <1>7 DEF HasNext, HasAfter, HasHeader, Counts, Unplaced, Reserves, At
<1>12. Framed(cs, g) /\ Placed(cs, g)
  <2>1. Framed(cs, g)
    BY <1>3, <1>5, <1>6, <1>7, <1>11 DEF Framed, n
  <2>2. cs[Top.after].fun = CurrentFun /\ cs[Top.start].fun = CurrentFun
    BY <1>3, <1>5, <1>6
  <2>3. Placed(cs, g)
    BY <1>7, <1>11, <2>2 DEF Placed
  <2> QED
    BY <2>1, <2>3
<1>13. PredsIn(cs, Top.after) = {at}
  <2>1. \A b \in 1..Len(cs) :
          Top.after \in cs[b].succs
            <=> (b \in 1..Len(blocks) /\ Top.after \in blocks[b].succs) \/ b \in {at}
    BY <1>3, <1>6 DEF n
  <2> QED
    BY <1>5, <1>6, <1>3, <2>1 DEF PredsIn, n
<1>14. PhiFacts(cs, g)
  BY <1>5, <1>6, <1>7, <1>8, <1>11, <1>13 DEF PhiFacts, At
<1>15. /\ Here(g, at') /\ at' \in 1..Len(cs) /\ at' > Top.mark
       /\ cs[at'].fun = blocks[at].fun /\ at' = g.next
  BY <1>1, <1>3, <1>5, <1>6, <1>7, <1>11 DEF Here
<1>16. \A b \in 1..Len(cs) : b = at \/ b \in T \/ b > Len(blocks) =>
         /\ cs[b].ends = "open" <=> b = at' \/ Reserves(g, b)
         /\ cs[b].ends = "open" => cs[b].succs = {}
         /\ b # at => cs[b].fun = CurrentFun /\ cs[b].phi = <<>>
  <2>1. \A b \in 1..Len(cs) : b = at \/ b \in T \/ b > Len(blocks) =>
          b = at \/ b = Top.after
    BY <1>3, <1>6, <1>9 DEF n
  <2>2. cs[at].ends # "open" /\ at # at' /\ ~Reserves(g, at)
    BY <1>1, <1>5, <1>6, <1>11
  <2>3. /\ cs[Top.after].ends = "open" /\ cs[Top.after].succs = {}
        /\ cs[Top.after].fun = CurrentFun /\ cs[Top.after].phi = <<>>
        /\ Reserves(g, Top.after)
    BY <1>3, <1>4, <1>5, <1>6, <1>11
  <2> QED
    BY <2>1, <2>2, <2>3
<1>17. at \notin T
  BY <1>5, <1>9
<1>18. \A b \in 1..Len(blocks) : b # at /\ b \notin T =>
         (Reserves(Top, b) <=> b = at' \/ Reserves(g, b))
  BY <1>1, <1>4, <1>11, <1>9
<1>19. \A b \in 1..Len(cs) : b \in T \/ b > Len(blocks) =>
         /\ cs[b].fun = IF Unplaced(g, b) THEN Nowhere ELSE blocks[at].fun
         /\ cs[b].phi = <<>>
  BY <1>3, <1>11, <1>16, <1>17 DEF n
<1>20. /\ g \in Frame /\ g.kind = "if" /\ g.start = Top.start /\ g.mark = Top.mark
       /\ \A b : ~Unplaced(g, b) /\ ~Unplaced(Top, b)
       /\ ~Counts(Top) /\ ~Counts(g)
  BY <1>4, <1>7, <1>11
<1> QED
  BY <1>q, <1>2, <1>10, <1>12, <1>14, <1>15, <1>16, <1>18, <1>19, <1>20,
     ProceedSound DEF cs

\* Branches to one block.
LEMMA BranchOne ==
  ASSUME NEW bs, Blocks(bs), NEW b \in 1..Len(bs), NEW t \in 1..Len(bs),
         NEW cs, cs = Branch(bs, b, {t})
  PROVE  /\ Blocks(cs) /\ Len(cs) = Len(bs)
         /\ \A c \in 1..Len(bs) : c # b => cs[c] = bs[c]
         /\ cs[b].fun = bs[b].fun /\ cs[b].phi = bs[b].phi
         /\ cs[b].ends = "br" /\ cs[b].succs = {t}
<1> DEFINE to == {t}
<1>1. to \in SUBSET (1..Len(bs)) /\ cs = Branch(bs, b, to)
  OBVIOUS
<1> HIDE DEF to
<1>2. /\ Blocks(cs) /\ Len(cs) = Len(bs)
      /\ \A c \in 1..Len(bs) : c # b => cs[c] = bs[c]
      /\ cs[b].fun = bs[b].fun /\ cs[b].phi = bs[b].phi
      /\ cs[b].ends = "br" /\ cs[b].succs = to
  BY <1>1, BranchBlocks
<1> QED
  BY <1>2 DEF to

\* The then part has ended, and there is no else part.
LEMMA IfThenEndSound ==
  ASSUME Inductive, IfThen, ~Top.more
  PROVE  Inductive'
<1> DEFINE n == Len(blocks)
           a == Top.after
           e == Top.next
           pairs == <<Pair(value, at), Pair(Const, e)>>
           bs == Branch(blocks, at, {a})
           ds == Branch(bs, e, {a})
           cs == blocks'
           T == {e, a}
<1>1. /\ Resumed("if", "then") /\ cs = Phi(ds, a, pairs) /\ at' = a /\ Return(a)
  BY DEF IfThen, ThenPair, IfEnd, NoElse
<1>q. Resumed("if", "then") /\ Return(a)
  BY <1>1
<1>2. "if" \in Branching
  BY DEF Branching
<1>3. /\ Blocks(blocks) /\ n \in Nat /\ at \in 1..n /\ Top \in Frame
      /\ Top.kind = "if" /\ Top.step = "then" /\ value \in 0..n
      /\ Framed(blocks, Top) /\ Placed(blocks, Top) /\ PhiFacts(blocks, Top)
      /\ Top.mark \in 1..n /\ Top.start \in 1..Top.mark
      /\ CurrentFun = blocks[at].fun /\ CurrentFun \in 1..at
      /\ blocks[Top.start].fun = CurrentFun /\ blocks[at].succs = {}
      /\ \A b : Reserves(Top, b) => b # at
      /\ \A b \in 1..n : Reserves(Top, b) => blocks[b].ends = "open" /\ blocks[b].succs = {}
  BY <1>1, <1>2, CallFacts
<1>4. /\ HasNext(Top) /\ HasAfter(Top) /\ ~Counts(Top)
      /\ \A b : ~Unplaced(Top, b)
      /\ \A b : Reserves(Top, b) <=> b \in {e, a}
  BY <1>3 DEF HasNext, HasAfter, HasHeader, Counts, Unplaced, Reserves, At
<1>5. /\ a \in 1..n /\ e \in 1..n /\ a # e /\ a > Top.mark /\ e > Top.mark
      /\ blocks[a].fun = CurrentFun /\ blocks[e].fun = CurrentFun
      /\ blocks[a].phi = <<>> /\ blocks[e].phi = <<>> /\ PredsIn(blocks, a) = {}
      /\ a # at /\ e # at
  BY <1>3, <1>4 DEF Framed, Placed, PhiFacts, At
<1>6. /\ pairs \in Pairs /\ Froms(pairs) = {at, e} /\ Distinct(pairs)
  <2>1. value \in Nat /\ at \in Nat /\ e \in Nat /\ Const \in Nat
    BY <1>3, <1>5 DEF Const
  <2>2. pairs = Append(<<Pair(value, at)>>, Pair(Const, e))
    OBVIOUS
  <2>3. <<Pair(value, at)>> \in Pairs
        /\ Froms(<<Pair(value, at)>>) = {at} /\ Distinct(<<Pair(value, at)>>)
    BY <2>1, FromsOne
  <2> DEFINE one == <<Pair(value, at)>>
  <2> HIDE DEF one, e
  <2>4. /\ Append(one, Pair(Const, e)) \in Pairs
        /\ Froms(Append(one, Pair(Const, e))) = Froms(one) \cup {e}
        /\ Distinct(one) /\ e \notin Froms(one) => Distinct(Append(one, Pair(Const, e)))
    BY <2>1, <2>3, FromsAppend DEF one
  <2> QED
    BY <1>5, <2>2, <2>3, <2>4 DEF one
<1> HIDE DEF n, pairs, a, e
<1>7. /\ Blocks(bs) /\ Len(bs) = n
      /\ \A b \in 1..n : b # at => bs[b] = blocks[b]
      /\ bs[at].fun = blocks[at].fun /\ bs[at].phi = blocks[at].phi
      /\ bs[at].ends = "br" /\ bs[at].succs = {a}
  BY <1>3, <1>5, BranchOne DEF n
<1> HIDE DEF bs
<1>8. /\ Blocks(ds) /\ Len(ds) = n
      /\ \A b \in 1..n : b # e => ds[b] = bs[b]
      /\ ds[e].fun = bs[e].fun /\ ds[e].phi = bs[e].phi
      /\ ds[e].ends = "br" /\ ds[e].succs = {a}
  BY <1>5, <1>7, BranchOne
<1> HIDE DEF ds
<1>9. /\ Blocks(cs) /\ Len(cs) = n
      /\ \A b \in 1..n : b # a => cs[b] = ds[b]
      /\ cs[a].fun = ds[a].fun /\ cs[a].phi = pairs
      /\ cs[a].ends = ds[a].ends /\ cs[a].succs = ds[a].succs
  BY <1>1, <1>5, <1>6, <1>8, PhiBlocks, SMTT(40) DEF Pairs
<1> HIDE DEF cs
<1>10. /\ \A b \in 1..n : b \notin {at, e, a} => cs[b] = blocks[b]
       /\ cs[at].fun = CurrentFun /\ cs[at].phi = blocks[at].phi
       /\ cs[at].ends = "br" /\ cs[at].succs = {a}
       /\ cs[e].fun = CurrentFun /\ cs[e].phi = <<>>
       /\ cs[e].ends = "br" /\ cs[e].succs = {a}
       /\ cs[a].fun = CurrentFun /\ cs[a].phi = pairs
       /\ cs[a].ends = "open" /\ cs[a].succs = {}
  BY <1>3, <1>4, <1>5, <1>7, <1>8, <1>9
<1>11. (\A b : b \in T <=> b = e \/ b = a) /\ at \notin T
  BY <1>5
<1> HIDE DEF T
<1>12. Changed(blocks, cs, at, Top.mark, T)
  <2>1. \A b \in 1..Len(cs) : \A s \in cs[b].succs :
          s \in T \/ s > n \/ (b \in 1..n /\ s \in blocks[b].succs)
    BY <1>3, <1>9, <1>10, <1>11
  <2>2. \A b \in 1..n : /\ b # at /\ b \notin T => Alike(cs[b], blocks[b])
                        /\ blocks[b].fun # Nowhere => cs[b].fun = blocks[b].fun
                        /\ blocks[b].succs \subseteq cs[b].succs
    BY <1>3, <1>4, <1>5, <1>10, <1>11 DEF Alike
  <2> QED
    BY <1>3, <1>5, <1>9, <1>10, <1>11, <2>1, <2>2 DEF Changed, n
<1>13. Complete(cs, a)
  <2>1. \A b \in 1..Len(cs) : a \in cs[b].succs <=> b \in {at, e}
    <3>1. \A b \in 1..n : a \notin blocks[b].succs
      BY <1>5 DEF PredsIn, n
    <3> QED
      BY <1>5, <1>9, <1>10, <3>1
  <2>2. PredsIn(cs, a) = {at, e}
    BY <1>3, <1>5, <1>9, <2>1 DEF PredsIn
  <2> QED
    BY <1>6, <1>10, <2>2 DEF Complete
<1>14. /\ at' \in 1..Len(cs) /\ at' > Top.mark /\ cs[at'].fun = blocks[at].fun
       /\ a \in 0..Len(cs)
  BY <1>1, <1>3, <1>5, <1>9, <1>10
<1>15. \A b \in 1..Len(blocks) : b # at /\ b \notin T => (Reserves(Top, b) <=> b = at')
  BY <1>1, <1>4, <1>11
<1>16. \A b \in 1..Len(cs) : b \in T \/ b > Len(blocks) => b = e \/ b = a
  BY <1>3, <1>9, <1>11 DEF n
<1>17. \A b \in 1..Len(cs) : b = at \/ b \in T \/ b > Len(blocks) =>
         /\ cs[b].ends = "open" <=> b = at'
         /\ cs[b].ends = "open" => cs[b].succs = {}
  BY <1>1, <1>5, <1>10, <1>16
<1>18. \A b \in 1..Len(cs) : b \in T \/ b > Len(blocks) =>
         /\ cs[b].fun = blocks[at].fun
         /\ cs[b].phi = <<>> \/ Complete(cs, b)
  BY <1>3, <1>10, <1>13, <1>16
<1> QED
  BY <1>q, <1>2, <1>4, <1>12, <1>14, <1>15, <1>17, <1>18, ReturnSound DEF cs

\* The else part has ended, and the end block has its PHI.
LEMMA IfElseSound ==
  ASSUME Inductive, IfElse
  PROVE  Inductive'
<1> DEFINE n == Len(blocks)
           a == Top.after
           e == Top.next
           pairs == Append(Top.incoming, Pair(value, e))
           bs == Branch(blocks, at, {a})
           cs == blocks'
           T == {a}
<1>1. /\ Resumed("if", "else") /\ cs = Phi(bs, a, pairs) /\ at' = a /\ Return(a)
  BY DEF IfElse, IfEnd
<1>q. Resumed("if", "else") /\ Return(a)
  BY <1>1
<1>2. "if" \in Branching
  BY DEF Branching
<1>3. /\ Blocks(blocks) /\ n \in Nat /\ at \in 1..n /\ Top \in Frame
      /\ Top.kind = "if" /\ Top.step = "else" /\ value \in 0..n
      /\ Framed(blocks, Top) /\ Placed(blocks, Top) /\ PhiFacts(blocks, Top)
      /\ Top.mark \in 1..n /\ Top.start \in 1..Top.mark
      /\ CurrentFun = blocks[at].fun /\ CurrentFun \in 1..at
      /\ blocks[Top.start].fun = CurrentFun /\ blocks[at].succs = {}
      /\ \A b : Reserves(Top, b) => b # at
      /\ \A b \in 1..n : /\ Reserves(Top, b) => blocks[b].ends = "open" /\ blocks[b].succs = {}
                         /\ at \notin PredsIn(blocks, b)
  BY <1>1, <1>2, CallFacts
<1>4. /\ HasAfter(Top) /\ ~Counts(Top) /\ \A b : ~Unplaced(Top, b)
      /\ \A b : Reserves(Top, b) <=> b = a
  BY <1>3 DEF HasNext, HasAfter, HasHeader, Counts, Unplaced, Reserves, At
<1>5. /\ a \in 1..n /\ e \in Nat /\ a > Top.mark /\ blocks[a].fun = CurrentFun
      /\ blocks[a].phi = <<>> /\ a # at
      /\ PredsIn(blocks, a) = Froms(Top.incoming) /\ Distinct(Top.incoming)
  BY <1>3, <1>4 DEF Framed, Placed, PhiFacts, At
<1>6. /\ pairs \in Pairs /\ Froms(pairs) = Froms(Top.incoming) \cup {e}
      /\ e \notin Froms(Top.incoming) => Distinct(pairs)
  <2>1. Top.incoming \in Pairs /\ value \in Nat
    BY <1>3 DEF Frame, Pairs
  <2> QED
    BY <1>5, <2>1, FromsAppend
<1>7. ElseStays(stack, at) => at = e
  <2>1. Len(stack) \in 1..Len(stack) /\ Len(stack) \in Nat
    BY <1>1 DEF Inductive, Sound, Resumed, Done
  <2>2. NoFun(stack, Len(stack) + 1, Len(stack))
    BY <2>1 DEF NoFun
  <2>3. At(stack[Len(stack)], "if", {"else"})
    BY <1>3 DEF At, Top
  <2> QED
    BY <2>1, <2>2, <2>3 DEF ElseStays, Top
<1> HIDE DEF n, pairs, a, e
<1>8. /\ Blocks(bs) /\ Len(bs) = n
      /\ \A b \in 1..n : b # at => bs[b] = blocks[b]
      /\ bs[at].fun = blocks[at].fun /\ bs[at].phi = blocks[at].phi
      /\ bs[at].ends = "br" /\ bs[at].succs = {a}
  BY <1>3, <1>5, BranchOne, SMTT(30) DEF n
<1> HIDE DEF bs
<1>9. /\ Blocks(cs) /\ Len(cs) = n
      /\ \A b \in 1..n : b # a => cs[b] = bs[b]
      /\ cs[a].fun = bs[a].fun /\ cs[a].phi = pairs
      /\ cs[a].ends = bs[a].ends /\ cs[a].succs = bs[a].succs
  <2>1. pairs \in Seq([val: Nat, from: Nat]) /\ a \in 1..Len(bs) /\ cs = Phi(bs, a, pairs)
    BY <1>1, <1>5, <1>6, <1>8 DEF Pairs
  <2> HIDE DEF cs
  <2>2. Blocks(bs)
    BY <1>8
  <2>3. /\ Blocks(cs) /\ Len(cs) = Len(bs)
        /\ \A b \in 1..Len(bs) : b # a => cs[b] = bs[b]
        /\ cs[a].fun = bs[a].fun /\ cs[a].phi = pairs
        /\ cs[a].ends = bs[a].ends /\ cs[a].succs = bs[a].succs
    BY ONLY <2>1, <2>2, PhiBlocks
  <2> QED
    BY <1>8, <2>3
<1> HIDE DEF cs
<1>10. /\ \A b \in 1..n : b \notin {at, a} => cs[b] = blocks[b]
       /\ cs[at].fun = CurrentFun /\ cs[at].phi = blocks[at].phi
       /\ cs[at].ends = "br" /\ cs[at].succs = {a}
       /\ cs[a].fun = CurrentFun /\ cs[a].phi = pairs
       /\ cs[a].ends = "open" /\ cs[a].succs = {}
  BY <1>3, <1>4, <1>5, <1>8, <1>9
<1>11. (\A b : b \in T <=> b = a) /\ at \notin T
  BY <1>5
<1> HIDE DEF T
<1>12. Changed(blocks, cs, at, Top.mark, T)
  <2>1. \A b \in 1..Len(cs) : \A s \in cs[b].succs :
          s \in T \/ s > n \/ (b \in 1..n /\ s \in blocks[b].succs)
    BY <1>3, <1>9, <1>10, <1>11
  <2>2. \A b \in 1..n : /\ b # at /\ b \notin T => Alike(cs[b], blocks[b])
                        /\ blocks[b].fun # Nowhere => cs[b].fun = blocks[b].fun
                        /\ blocks[b].succs \subseteq cs[b].succs
    BY <1>3, <1>4, <1>5, <1>10, <1>11 DEF Alike
  <2> QED
    BY <1>3, <1>5, <1>9, <1>10, <1>11, <2>1, <2>2 DEF Changed, n
<1>13. ElseStays(stack, at) => Complete(cs, a)
  <2>1. \A b \in 1..Len(cs) :
          a \in cs[b].succs <=> (b \in 1..Len(blocks) /\ a \in blocks[b].succs) \/ b \in {at}
    BY <1>3, <1>4, <1>5, <1>9, <1>10 DEF n
  <2>2. PredsIn(cs, a) = PredsIn(blocks, a) \cup {at}
    <3>1. GetsEdge(blocks, cs, at, a)
      BY <1>3, <1>9, <2>1 DEF GetsEdge, n
    <3> QED
      BY <3>1, PredsMove
  <2>3. at \notin PredsIn(blocks, a)
    BY <1>3, <1>5
  <2> QED
    BY <1>5, <1>6, <1>7, <1>10, <2>2, <2>3 DEF Complete
<1>14. /\ at' \in 1..Len(cs) /\ at' > Top.mark /\ cs[at'].fun = blocks[at].fun
       /\ a \in 0..Len(cs)
  BY <1>1, <1>3, <1>5, <1>9, <1>10
<1>15. \A b \in 1..Len(blocks) : b # at /\ b \notin T => (Reserves(Top, b) <=> b = at')
  BY <1>1, <1>4, <1>11
<1>16. \A b \in 1..Len(cs) : b \in T \/ b > Len(blocks) => b = a
  BY <1>3, <1>9, <1>11 DEF n
<1>17. \A b \in 1..Len(cs) : b = at \/ b \in T \/ b > Len(blocks) =>
         /\ cs[b].ends = "open" <=> b = at'
         /\ cs[b].ends = "open" => cs[b].succs = {}
  BY <1>1, <1>5, <1>10, <1>16
<1>18. \A b \in 1..Len(cs) : b \in T \/ b > Len(blocks) =>
         /\ cs[b].fun = blocks[at].fun
         /\ ElseStays(stack, at) => cs[b].phi = <<>> \/ Complete(cs, b)
  BY <1>3, <1>10, <1>13, <1>16
<1> QED
  BY <1>q, <1>2, <1>4, <1>12, <1>14, <1>15, <1>17, <1>18, ReturnSound DEF cs

\* A while opens its condition, loop and end blocks.
LEMMA WhileStartSound ==
  ASSUME Inductive, WhileStart
  PROVE  Inductive'
<1> DEFINE n == Len(blocks)
           w == n + 1
           e == FrameOf("while", "cond")
           g == [e EXCEPT !.held = w, !.next = w + 1, !.after = w + 2]
           k == Len(stack) - 1
           more == More(blocks, CurrentFun)
           cs == blocks'
<1>1. /\ Awaiting /\ MayBranch /\ cs = Branch(more, at, {w}) /\ at' = w /\ Enter(g)
  BY DEF WhileStart, More
<1>2. /\ OnTop(blocks, stack, at, k, Top) /\ Blocks(blocks) /\ at \in 1..n
      /\ n \in Nat /\ blocks[at].ends = "open" /\ blocks[at].succs = {}
      /\ CurrentFun = blocks[at].fun /\ CurrentFun \in 1..at
      /\ blocks[CurrentFun].fun = CurrentFun
  BY <1>1, Awaits, TopFrame DEF Awaiting, Done, Inductive, Sound, CurrentFun
<1>3. "while" \in Kinds /\ "cond" \in Steps /\ <<>> \in Seq([val: Nat, from: Nat])
  BY DEF Kinds, Steps
<1>4. e \in Frame /\ e.kind = "while" /\ e.step = "cond" /\ e.start = at /\ e.mark = n
  BY <1>2, <1>3 DEF FrameOf, Frame, Nowhere, Const
<1>5. w \in Nat /\ w + 1 \in Nat /\ w + 2 \in Nat /\ w = n + 1
  BY <1>2
<1> HIDE DEF e
<1>6. g \in Frame /\ g.kind = "while" /\ g.step = "cond" /\ g.start = at
      /\ g.mark = n /\ g.held = w /\ g.next = w + 1 /\ g.after = w + 2
  BY <1>4, <1>5 DEF Frame
<1>7. Pushed(stack, stack', g) /\ value' = Awaited
  BY <1>1, <1>6 DEF Enter, Pushed
<1> HIDE DEF g, k, n, w
<1>8. /\ Blocks(more) /\ Len(more) = n + 3
      /\ \A b \in 1..n : more[b] = blocks[b]
      /\ \A b \in 1..Len(more) : b > n =>
           /\ more[b].succs = {} /\ more[b].ends = "open" /\ more[b].phi = <<>>
           /\ more[b].fun = CurrentFun
  BY <1>2, ThreeMore DEF n
<1> HIDE DEF more
<1>9. /\ Blocks(cs) /\ Len(cs) = n + 3
      /\ \A b \in 1..n + 3 : b # at => cs[b] = more[b]
      /\ cs[at].fun = more[at].fun /\ cs[at].phi = more[at].phi
      /\ cs[at].ends = "br" /\ cs[at].succs = {w}
  <2>1. w \in 1..Len(more) /\ at \in 1..Len(more)
    BY <1>2, <1>5, <1>8
  <2> QED
    BY <1>1, <1>8, <2>1, BranchOne
<1> HIDE DEF cs
<1>10. /\ \A b \in 1..n : b # at => cs[b] = blocks[b]
       /\ cs[at].fun = CurrentFun /\ cs[at].phi = blocks[at].phi
       /\ \A b \in 1..n : cs[b].fun = blocks[b].fun
       /\ \A b \in 1..Len(cs) : b > n =>
            /\ cs[b].succs = {} /\ cs[b].ends = "open" /\ cs[b].phi = <<>>
            /\ cs[b].fun = CurrentFun /\ b \in {w, w + 1, w + 2} /\ b # at
  <2>1. \A b \in 1..n : b \in 1..n + 3
    BY <1>2
  <2>2. \A b \in 1..Len(cs) : b > n => b \in 1..n + 3 /\ b # at /\ b \in {w, w + 1, w + 2}
    BY <1>2, <1>5, <1>9
  <2> QED
    BY <1>2, <1>8, <1>9, <2>1, <2>2
<1>11. Changed(blocks, cs, at, Len(blocks), {})
  <2>1. n \in 1..n /\ n <= Len(cs)
    BY <1>2, <1>9
  <2>2. ASSUME NEW b \in 1..Len(cs), NEW s \in cs[b].succs
        PROVE  s > n \/ (b \in 1..n /\ s \in blocks[b].succs)
    <3>1. b \in 1..n \/ b > n
      BY <1>2
    <3> QED
      BY <1>2, <1>5, <1>9, <1>10, <2>2, <3>1
  <2>3. \A b \in 1..n : /\ b # at => Alike(cs[b], blocks[b])
                        /\ blocks[b].succs \subseteq cs[b].succs
    BY <1>2, <1>10 DEF Alike
  <2> QED
    BY <1>2, <1>9, <1>10, <2>1, <2>2, <2>3 DEF Changed, n
<1>12. /\ HasNext(g) /\ HasAfter(g) /\ HasHeader(g) /\ ~Counts(g)
       /\ \A b : ~Unplaced(g, b)
       /\ \A b : Reserves(g, b) <=> b \in {w + 1, w + 2}
  BY <1>6 DEF HasNext, HasAfter, HasHeader, Counts, Unplaced, Reserves, At
<1>13. Framed(cs, g)
  BY <1>2, <1>5, <1>6, <1>9, <1>12 DEF Framed
<1>14. \A b \in {w, w + 1, w + 2} :
         /\ b \in 1..Len(cs) /\ b > n /\ cs[b].succs = {} /\ cs[b].ends = "open"
         /\ cs[b].phi = <<>> /\ cs[b].fun = CurrentFun
  BY <1>2, <1>5, <1>9, <1>10
<1>15. Placed(cs, g) /\ PhiFacts(cs, g)
  BY <1>6, <1>10, <1>12, <1>14 DEF Placed, PhiFacts, At
<1>16. Here(g, w) /\ w \in Nat /\ cs[w].fun = blocks[at].fun
  BY <1>2, <1>5, <1>6, <1>12, <1>14 DEF Here
<1>17. OpensOnly(blocks, cs, at, w, g)
  <2>1. \A b \in 1..Len(blocks) : b # at => b # w /\ ~Reserves(g, b)
    BY <1>2, <1>5, <1>12 DEF n
  <2>2. \A b \in 1..Len(cs) : b = at \/ b > Len(blocks) =>
          /\ cs[b].ends = "open" <=> b = w \/ Reserves(g, b)
          /\ cs[b].ends = "open" => cs[b].succs = {}
    <3>1. cs[at].ends # "open" /\ at # w /\ ~Reserves(g, at)
      BY <1>2, <1>5, <1>9, <1>12
    <3> QED
      BY <1>10, <1>12, <3>1 DEF n
  <2> QED
    BY <2>1, <2>2 DEF OpensOnly
<1>18. AddsOnly(blocks, cs, at)
  <2>1. cs[CurrentFun].fun = CurrentFun
    BY <1>2, <1>10
  <2>2. \A b \in 1..Len(cs) : b > Len(blocks) =>
          cs[b].succs = {} /\ cs[b].fun \in 1..b /\ cs[cs[b].fun].fun = cs[b].fun
    BY <1>2, <1>10, <2>1 DEF n
  <2>3. \A s \in cs[at].succs :
          s > Len(blocks) => s # cs[s].fun /\ cs[s].fun = cs[at].fun
    BY <1>2, <1>5, <1>9, <1>10, <1>14
  <2> QED
    BY <2>2, <2>3 DEF AddsOnly
<1>19. Shape(cs, stack', w)
  <2>1. g.kind # "main" /\ g.start = at /\ g.mark = Len(blocks)
    BY <1>6 DEF n
  <2> QED
    BY <1>2, <1>7, <1>11, <1>12, <1>13, <1>15, <1>16, <1>17, <1>18, <2>1, Enters
<1>20. PhisDone(blocks, stack) => PhisDone(cs, stack')
  <2>1. \A b \in 1..Len(cs) : b > Len(blocks) => cs[b].phi = <<>>
    BY <1>10 DEF n
  <2> QED
    BY <1>2, <1>7, <1>11, <2>1, EntersPhis
<1>21. ~ElseBranches /\ ElseStays(stack, at) => ElseStays(stack', w)
  <2>1. ASSUME ~ElseBranches, NEW i \in 1..Len(stack), At(stack[i], "if", {"else"})
        PROVE  ~NoFun(stack, i, Len(stack))
    BY <1>1, <2>1 DEF MayBranch, InElse, NoFun, At
  <2>2. g.kind \in Branching /\ ~At(g, "if", {"else"})
    BY <1>6 DEF Branching, At
  <2> QED
    BY <1>2, <1>6, <1>7, <2>1, <2>2, EntersElse
<1>22. stack' \in Seq(Frame)
  BY <1>2, <1>7, StackTyped
<1>23. at' = w /\ w \in 1..Len(cs)
  BY <1>1, <1>14
<1> QED
  BY <1>7, <1>9, <1>19, <1>20, <1>21, <1>22, <1>23 DEF Inductive, Sound, cs

\* A branch to two blocks, after an instruction that uses vs.
Fork(bs, b, v, w, s, t) == Branch(Use(bs, b, {v, w}), b, {s, t})

\* A conditional branch that uses two values.
LEMMA BranchTwo ==
  ASSUME NEW bs, Blocks(bs), NEW b \in 1..Len(bs), NEW s \in 1..Len(bs),
         NEW t \in 1..Len(bs), NEW v \in 0..Len(bs), NEW w \in 0..Len(bs),
         NEW cs, cs = Fork(bs, b, v, w, s, t)
  PROVE  /\ Blocks(cs) /\ Len(cs) = Len(bs)
         /\ \A c \in 1..Len(bs) : c # b => Alike(cs[c], bs[c])
         /\ cs[b].fun = bs[b].fun /\ cs[b].phi = bs[b].phi
         /\ cs[b].ends = "br" /\ cs[b].succs = {s, t}
<1> DEFINE vs == {v, w}
           to == {s, t}
           us == Use(bs, b, vs)
<1>1. vs \in SUBSET (0..Len(bs)) /\ to \in SUBSET (1..Len(bs)) /\ cs = Branch(us, b, to)
  BY DEF Fork
<1> HIDE DEF vs, to
<1>2. /\ Blocks(us) /\ Len(us) = Len(bs)
      /\ \A c \in 1..Len(bs) : Alike(us[c], bs[c])
  BY <1>1, UseBlocks
<1> HIDE DEF us
<1>3. /\ Blocks(cs) /\ Len(cs) = Len(us)
      /\ \A c \in 1..Len(us) : c # b => cs[c] = us[c]
      /\ cs[b].fun = us[b].fun /\ cs[b].phi = us[b].phi
      /\ cs[b].ends = "br" /\ cs[b].succs = to
  <2>1. b \in 1..Len(us) /\ to \in SUBSET (1..Len(us))
    BY <1>1, <1>2
  <2>2. Blocks(us) /\ cs = Branch(us, b, to)
    BY <1>1, <1>2
  <2> QED
    BY ONLY <2>1, <2>2, BranchBlocks
<1> QED
  BY <1>2, <1>3 DEF to, Alike

\* The condition of a while branches into the loop or past it.
LEMMA WhileCondSound ==
  ASSUME Inductive, WhileCond
  PROVE  Inductive'
<1> DEFINE n == Len(blocks)
           a == Top.after
           e == Top.next
           g == [Top EXCEPT !.step = "body"]
           cs == blocks'
           T == {e, a}
<1>1. /\ Resumed("while", "cond") /\ cs = Fork(blocks, at, value, value, e, a)
      /\ at' = e /\ Proceed(g)
  BY DEF WhileCond, CondBranch, Fork
<1>q. Resumed("while", "cond") /\ Proceed(g)
  BY <1>1
<1>2. "while" \in Branching
  BY DEF Branching
<1>3. /\ Blocks(blocks) /\ n \in Nat /\ at \in 1..n /\ Top \in Frame
      /\ Top.kind = "while" /\ Top.step = "cond" /\ value \in 0..n
      /\ Framed(blocks, Top) /\ Placed(blocks, Top) /\ PhiFacts(blocks, Top)
      /\ Top.mark \in 1..n /\ Top.start \in 1..Top.mark
      /\ CurrentFun = blocks[at].fun /\ CurrentFun \in 1..at
      /\ blocks[Top.start].fun = CurrentFun /\ blocks[at].succs = {}
      /\ \A b : Reserves(Top, b) => b # at
      /\ \A b \in 1..n : Reserves(Top, b) => blocks[b].ends = "open" /\ blocks[b].succs = {}
  BY <1>1, <1>2, CallFacts
<1>4. /\ HasNext(Top) /\ HasAfter(Top) /\ HasHeader(Top) /\ ~Counts(Top)
      /\ \A b : ~Unplaced(Top, b)
      /\ \A b : Reserves(Top, b) <=> b \in {e, a}
  BY <1>3 DEF HasNext, HasAfter, HasHeader, Counts, Unplaced, Reserves, At
<1>5. /\ a \in 1..n /\ e \in 1..n /\ Top.held \in 1..n
      /\ a # e /\ a > Top.mark /\ e > Top.mark
      /\ Top.held > Top.mark /\ Top.held # a /\ Top.held # e
      /\ blocks[a].fun = CurrentFun /\ blocks[e].fun = CurrentFun
      /\ blocks[Top.held].fun = CurrentFun
      /\ blocks[a].phi = <<>> /\ blocks[e].phi = <<>> /\ blocks[Top.held].phi = <<>>
      /\ a # at /\ e # at
  BY <1>3, <1>4, SMTT(30) DEF Framed, Placed, PhiFacts, At
<1>6. g \in Frame /\ g.kind = "while" /\ g.step = "body" /\ g.start = Top.start
      /\ g.mark = Top.mark /\ g.next = e /\ g.after = a /\ g.held = Top.held
  <2>1. "body" \in Steps
    BY DEF Steps
  <2> QED
    BY <1>3, <2>1 DEF Frame
<1> HIDE DEF n, a, e, g
<1>7. /\ Blocks(cs) /\ Len(cs) = n
      /\ \A b \in 1..n : b # at => Alike(cs[b], blocks[b])
      /\ cs[at].fun = blocks[at].fun /\ cs[at].phi = blocks[at].phi
      /\ cs[at].ends = "br" /\ cs[at].succs = {e, a}
  <2>1. /\ Blocks(blocks) /\ at \in 1..Len(blocks) /\ e \in 1..Len(blocks)
        /\ a \in 1..Len(blocks) /\ value \in 0..Len(blocks)
    BY <1>3, <1>5 DEF n
  <2>2. cs = Fork(blocks, at, value, value, e, a)
    BY <1>1
  <2> HIDE DEF cs
  <2> QED
    BY ONLY <2>1, <2>2, BranchTwo DEF n
<1> HIDE DEF cs
<1>8. (\A b : b \in T <=> b = e \/ b = a) /\ at \notin T
  BY <1>5
<1> HIDE DEF T
<1>9. Changed(blocks, cs, at, Top.mark, T)
  <2>1. \A b \in 1..Len(cs) : \A s \in cs[b].succs :
          \/ s \in T \/ s > Len(blocks)
          \/ (b \in 1..Len(blocks) /\ s \in blocks[b].succs)
    BY <1>3, <1>7, <1>8 DEF Alike, n
  <2>2. \A b \in 1..Len(blocks) :
          /\ b # at /\ b \notin T => Alike(cs[b], blocks[b])
          /\ blocks[b].fun # Nowhere => cs[b].fun = blocks[b].fun
          /\ blocks[b].succs \subseteq cs[b].succs
    BY <1>3, <1>7 DEF Alike, n
  <2>3. /\ Blocks(blocks) /\ Blocks(cs) /\ Top.mark \in 1..Len(blocks)
        /\ at \in 1..Len(blocks) /\ Len(blocks) <= Len(cs)
        /\ cs[at].fun = blocks[at].fun /\ cs[at].phi = blocks[at].phi
        /\ \A b \in T : b \in 1..Len(blocks) /\ b > Top.mark
    BY <1>3, <1>5, <1>7, <1>8 DEF n
  <2> QED
    BY <2>1, <2>2, <2>3 DEF Changed
<1>10. /\ ~HasNext(g) /\ HasAfter(g) /\ HasHeader(g) /\ ~Counts(g)
       /\ \A b : ~Unplaced(g, b)
       /\ \A b : Reserves(g, b) <=> b = a
  BY <1>6 DEF HasNext, HasAfter, HasHeader, Counts, Unplaced, Reserves, At
<1>11. \A b \in 1..n : cs[b].fun = blocks[b].fun /\ cs[b].phi = blocks[b].phi
  BY <1>3, <1>7 DEF Alike
<1>12. Framed(cs, g)
  BY <1>3, <1>5, <1>6, <1>7, <1>10 DEF Framed
<1>13. Placed(cs, g) /\ PhiFacts(cs, g)
  <2>1. cs[a].fun = CurrentFun /\ cs[Top.start].fun = CurrentFun
        /\ cs[Top.held].fun = CurrentFun /\ cs[a].phi = <<>> /\ cs[Top.held].phi = <<>>
    BY <1>3, <1>5, <1>11, SMTT(30)
  <2>2. Placed(cs, g)
    BY <1>6, <1>10, <2>1 DEF Placed
  <2>3. PhiFacts(cs, g)
    BY <1>6, <1>10, <2>1 DEF PhiFacts, At
  <2> QED
    BY <2>2, <2>3
<1>14. /\ Here(g, at') /\ at' \in 1..Len(cs) /\ at' > Top.mark
       /\ cs[at'].fun = blocks[at].fun
  BY <1>1, <1>3, <1>5, <1>6, <1>7, <1>10, <1>11 DEF Here
<1>15. \A b \in 1..Len(cs) : b \in T \/ b > Len(blocks) => b = e \/ b = a
  BY <1>3, <1>7, <1>8 DEF n
<1>16. \A b \in 1..Len(cs) : b = at \/ b \in T \/ b > Len(blocks) =>
         /\ cs[b].ends = "open" <=> b = at' \/ Reserves(g, b)
         /\ cs[b].ends = "open" => cs[b].succs = {}
  <2>1. cs[at].ends # "open" /\ at # at' /\ ~Reserves(g, at)
    BY <1>1, <1>5, <1>7, <1>10
  <2>2. \A b \in {e, a} : /\ cs[b].ends = "open" /\ cs[b].succs = {}
                          /\ b = at' \/ Reserves(g, b)
    BY <1>1, <1>3, <1>4, <1>5, <1>7, <1>10 DEF Alike
  <2> QED
    BY <1>15, <2>1, <2>2
<1>17. \A b \in 1..Len(blocks) : b # at /\ b \notin T =>
         (Reserves(Top, b) <=> b = at' \/ Reserves(g, b))
  BY <1>1, <1>4, <1>8, <1>10
<1>18. \A b \in 1..Len(cs) : b \in T \/ b > Len(blocks) =>
         /\ cs[b].fun = IF Unplaced(g, b) THEN Nowhere ELSE blocks[at].fun
         /\ cs[b].phi = <<>>
  BY <1>3, <1>5, <1>10, <1>11, <1>15
<1>19. /\ g \in Frame /\ g.kind = "while" /\ g.start = Top.start /\ g.mark = Top.mark
       /\ \A b : ~Unplaced(g, b) /\ ~Unplaced(Top, b)
       /\ ~Counts(Top) /\ ~At(g, "if", {"else"})
  BY <1>4, <1>6, <1>10 DEF At
<1> QED
  BY <1>q, <1>2, <1>9, <1>12, <1>13, <1>14, <1>16, <1>17, <1>18, <1>19,
     ProceedSound DEF cs

\* The loop of a while goes back to its condition.
LEMMA WhileBodySound ==
  ASSUME Inductive, WhileBody
  PROVE  Inductive'
<1> DEFINE n == Len(blocks)
           a == Top.after
           h == Top.held
           cs == blocks'
           T == {h}
<1>1. /\ Resumed("while", "body") /\ cs = Branch(blocks, at, {h})
      /\ at' = a /\ Return(Const)
  BY DEF WhileBody
<1>q. Resumed("while", "body") /\ Return(Const)
  BY <1>1
<1>2. "while" \in Branching
  BY DEF Branching
<1>3. /\ Blocks(blocks) /\ n \in Nat /\ at \in 1..n /\ Top \in Frame
      /\ Top.kind = "while" /\ Top.step = "body"
      /\ Framed(blocks, Top) /\ Placed(blocks, Top) /\ PhiFacts(blocks, Top)
      /\ Top.mark \in 1..n /\ Top.start \in 1..Top.mark
      /\ CurrentFun = blocks[at].fun /\ CurrentFun \in 1..at
      /\ blocks[Top.start].fun = CurrentFun /\ blocks[at].succs = {}
      /\ \A b : Reserves(Top, b) => b # at
      /\ \A b \in 1..n :
           /\ Reserves(Top, b) => blocks[b].ends = "open" /\ blocks[b].succs = {}
           /\ b > Top.mark /\ b # at /\ ~Reserves(Top, b) => blocks[b].ends # "open"
  BY <1>1, <1>2, CallFacts
<1>4. /\ HasAfter(Top) /\ HasHeader(Top) /\ ~Counts(Top)
      /\ \A b : ~Unplaced(Top, b)
      /\ \A b : Reserves(Top, b) <=> b = a
  BY <1>3 DEF HasNext, HasAfter, HasHeader, Counts, Unplaced, Reserves, At
<1>5. /\ a \in 1..n /\ h \in 1..n /\ a > Top.mark /\ h > Top.mark /\ h # a
      /\ blocks[a].fun = CurrentFun /\ blocks[h].fun = CurrentFun
      /\ blocks[a].phi = <<>> /\ blocks[h].phi = <<>> /\ a # at
  BY <1>3, <1>4 DEF Framed, Placed, PhiFacts, At
<1> HIDE DEF n, a, h
<1>6. /\ Blocks(cs) /\ Len(cs) = n
      /\ \A b \in 1..n : b # at => cs[b] = blocks[b]
      /\ cs[at].fun = blocks[at].fun /\ cs[at].phi = blocks[at].phi
      /\ cs[at].ends = "br" /\ cs[at].succs = {h}
  <2>1. Blocks(blocks) /\ at \in 1..Len(blocks) /\ h \in 1..Len(blocks)
    BY <1>3, <1>5 DEF n
  <2>2. cs = Branch(blocks, at, {h})
    BY <1>1
  <2> HIDE DEF cs
  <2> QED
    BY ONLY <2>1, <2>2, BranchOne DEF n
<1> HIDE DEF cs
<1>7. \A b : b \in T <=> b = h
  OBVIOUS
<1> HIDE DEF T
<1>8. Changed(blocks, cs, at, Top.mark, T)
  <2>1. \A b \in 1..Len(cs) : \A s \in cs[b].succs :
          \/ s \in T \/ s > Len(blocks)
          \/ (b \in 1..Len(blocks) /\ s \in blocks[b].succs)
    BY <1>3, <1>6, <1>7 DEF n
  <2>2. \A b \in 1..Len(blocks) :
          /\ b # at /\ b \notin T => Alike(cs[b], blocks[b])
          /\ blocks[b].fun # Nowhere => cs[b].fun = blocks[b].fun
          /\ blocks[b].succs \subseteq cs[b].succs
    BY <1>3, <1>6 DEF Alike, n
  <2>3. /\ Blocks(blocks) /\ Blocks(cs) /\ Top.mark \in 1..Len(blocks)
        /\ at \in 1..Len(blocks) /\ Len(blocks) <= Len(cs)
        /\ cs[at].fun = blocks[at].fun /\ cs[at].phi = blocks[at].phi
        /\ \A b \in T : b \in 1..Len(blocks) /\ b > Top.mark
    BY <1>3, <1>5, <1>6, <1>7 DEF n
  <2> QED
    BY <2>1, <2>2, <2>3 DEF Changed
<1>9. /\ at' \in 1..Len(cs) /\ at' > Top.mark /\ cs[at'].fun = blocks[at].fun
      /\ Const \in 0..Len(cs)
  <2>1. a \in 1..Len(cs) /\ cs[a].fun = blocks[at].fun /\ Const \in 0..Len(cs)
    BY <1>3, <1>5, <1>6 DEF Const
  <2> QED
    BY <1>1, <1>5, <2>1
<1>10. \A b \in 1..Len(blocks) : b # at /\ b \notin T => (Reserves(Top, b) <=> b = at')
  BY <1>1, <1>4
<1>11. \A b \in 1..Len(cs) : b \in T \/ b > Len(blocks) => b = h
  BY <1>3, <1>6, <1>7 DEF n
<1>12. cs[h].ends # "open" /\ cs[h].fun = CurrentFun /\ cs[h].phi = <<>>
  BY <1>3, <1>4, <1>5, <1>6
<1>13. \A b \in 1..Len(cs) : b = at \/ b \in T \/ b > Len(blocks) =>
         /\ cs[b].ends = "open" <=> b = at'
         /\ cs[b].ends = "open" => cs[b].succs = {}
  BY <1>1, <1>5, <1>6, <1>11, <1>12
<1>14. \A b \in 1..Len(cs) : b \in T \/ b > Len(blocks) =>
         cs[b].fun = blocks[at].fun /\ cs[b].phi = <<>>
  BY <1>3, <1>11, <1>12
<1> QED
  BY <1>q, <1>2, <1>4, <1>8, <1>9, <1>10, <1>13, <1>14, ReturnSound DEF cs

\* The first bound of a for has been found, and its loop block starts.
LEMMA ForFromSound ==
  ASSUME Inductive, ForFrom
  PROVE  Inductive'
<1> DEFINE n == Len(blocks)
           h == n + 1
           g == [Top EXCEPT !.step = "to", !.held = h, !.next = h + 1, !.after = h + 2]
           pairs == <<Pair(value, at)>>
           more == More(blocks, CurrentFun)
           bs == Phi(more, h, pairs)
           cs == blocks'
           T == {}
<1>1. /\ Resumed("for", "from") /\ cs = Branch(bs, at, {h})
      /\ at' = h /\ Proceed(g)
  BY DEF ForFrom, More
<1>q. Resumed("for", "from") /\ Proceed(g)
  BY <1>1
<1>2. "for" \in Branching
  BY DEF Branching
<1>3. /\ Blocks(blocks) /\ n \in Nat /\ at \in 1..n /\ Top \in Frame
      /\ Top.kind = "for" /\ Top.step = "from" /\ value \in 0..n
      /\ Top.mark \in 1..n /\ Top.start \in 1..Top.mark
      /\ CurrentFun = blocks[at].fun /\ CurrentFun \in 1..at
      /\ blocks[Top.start].fun = CurrentFun /\ blocks[at].succs = {}
      /\ \A b \in 1..n : blocks[b].succs \subseteq 1..n
  BY <1>1, <1>2, CallFacts
<1>4. h \in Nat /\ h + 1 \in Nat /\ h + 2 \in Nat /\ h = n + 1 /\ value \in Nat /\ at \in Nat
  BY <1>3
<1>5. pairs \in Pairs /\ Len(pairs) = 1 /\ Froms(pairs) = {at}
  BY <1>4, FromsOne
<1>6. g \in Frame /\ g.kind = "for" /\ g.step = "to" /\ g.start = Top.start
      /\ g.mark = Top.mark /\ g.held = h /\ g.next = h + 1 /\ g.after = h + 2
  <2>1. "to" \in Steps
    BY DEF Steps
  <2> QED
    BY <1>3, <1>4, <2>1 DEF Frame
<1> HIDE DEF n, h, g, pairs
<1>7. /\ Blocks(more) /\ Len(more) = n + 3
      /\ \A b \in 1..n : more[b] = blocks[b]
      /\ \A b \in 1..Len(more) : b > n =>
           /\ more[b].succs = {} /\ more[b].ends = "open" /\ more[b].phi = <<>>
           /\ more[b].fun = CurrentFun
  BY <1>3, ThreeMore DEF n
<1> HIDE DEF more
<1>8. /\ Blocks(bs) /\ Len(bs) = Len(more)
      /\ \A b \in 1..Len(more) : b # h => bs[b] = more[b]
      /\ bs[h].fun = more[h].fun /\ bs[h].phi = pairs
      /\ bs[h].ends = more[h].ends /\ bs[h].succs = more[h].succs
  <2>1. /\ Blocks(more) /\ h \in 1..Len(more)
        /\ pairs \in Seq([val: Nat, from: Nat])
    BY <1>3, <1>4, <1>5, <1>7 DEF Pairs
  <2> QED
    BY ONLY <2>1, PhiBlocks
<1> HIDE DEF bs
<1>9. /\ Blocks(cs) /\ Len(cs) = Len(bs)
      /\ \A b \in 1..Len(bs) : b # at => cs[b] = bs[b]
      /\ cs[at].fun = bs[at].fun /\ cs[at].phi = bs[at].phi
      /\ cs[at].ends = "br" /\ cs[at].succs = {h}
  <2>1. Blocks(bs) /\ at \in 1..Len(bs) /\ h \in 1..Len(bs) /\ cs = Branch(bs, at, {h})
    BY <1>1, <1>3, <1>4, <1>7, <1>8
  <2> HIDE DEF cs
  <2> QED
    BY ONLY <2>1, BranchOne
<1> HIDE DEF cs
<1>10. /\ Len(cs) = n + 3
       /\ \A b \in 1..n : b # at => cs[b] = blocks[b]
       /\ cs[at].fun = CurrentFun /\ cs[at].phi = blocks[at].phi
       /\ \A b \in 1..n : cs[b].fun = blocks[b].fun
       /\ cs[h].phi = pairs
       /\ \A b \in 1..Len(cs) : b > n =>
            /\ cs[b].succs = {} /\ cs[b].ends = "open"
            /\ b # h => cs[b].phi = <<>>
            /\ cs[b].fun = CurrentFun /\ b \in {h, h + 1, h + 2} /\ b # at
  <2>1. \A b \in 1..n : b \in 1..n + 3 /\ b # h
    BY <1>3, <1>4
  <2>2. \A b \in 1..n + 3 : b > n => b # at /\ b \in {h, h + 1, h + 2}
    BY <1>3, <1>4
  <2>3. h \in 1..n + 3 /\ h > n /\ h # at /\ at \in 1..n + 3
    BY <1>3, <1>4
  <2>4. ASSUME NEW b \in 1..n
        PROVE  /\ b # at => cs[b] = blocks[b]
               /\ cs[b].fun = blocks[b].fun
    BY <1>3, <1>7, <1>8, <1>9, <2>1
  <2>5. /\ cs[at].fun = CurrentFun /\ cs[at].phi = blocks[at].phi
        /\ Len(cs) = n + 3 /\ cs[h].phi = pairs
    BY <1>3, <1>7, <1>8, <1>9, <2>1, <2>3
  <2>6. ASSUME NEW b \in 1..n + 3, b > n
        PROVE  /\ cs[b].succs = {} /\ cs[b].ends = "open"
               /\ b # h => cs[b].phi = <<>>
               /\ cs[b].fun = CurrentFun
    <3>1. b # at /\ b \in 1..Len(bs) /\ b \in 1..Len(more)
      BY <1>7, <1>8, <2>2, <2>6
    <3>2. cs[b] = bs[b]
      BY <1>9, <3>1
    <3>3. CASE b = h
      BY <1>7, <1>8, <2>6, <3>1, <3>2, <3>3
    <3>4. CASE b # h
      BY <1>7, <1>8, <2>6, <3>1, <3>2, <3>4
    <3> QED
      BY <3>3, <3>4
  <2> QED
    BY <2>2, <2>4, <2>5, <2>6
<1>11. \A b : b \notin T
  OBVIOUS
<1> HIDE DEF T
<1>12. Changed(blocks, cs, at, Top.mark, T)
  <2>1. ASSUME NEW b \in 1..Len(cs), NEW s \in cs[b].succs
        PROVE  s \in T \/ s > Len(blocks) \/ (b \in 1..Len(blocks) /\ s \in blocks[b].succs)
    <3>1. b \in 1..n \/ b > n
      BY <1>3
    <3> QED
      BY <1>3, <1>4, <1>9, <1>10, <2>1, <3>1 DEF n
  <2>2. \A b \in 1..Len(blocks) :
          /\ b # at /\ b \notin T => Alike(cs[b], blocks[b])
          /\ blocks[b].fun # Nowhere => cs[b].fun = blocks[b].fun
          /\ blocks[b].succs \subseteq cs[b].succs
    BY <1>3, <1>10 DEF Alike, n
  <2>3. /\ Blocks(blocks) /\ Blocks(cs) /\ Top.mark \in 1..Len(blocks)
        /\ at \in 1..Len(blocks) /\ Len(blocks) <= Len(cs)
        /\ cs[at].fun = blocks[at].fun /\ cs[at].phi = blocks[at].phi
        /\ \A b \in T : b \in 1..Len(blocks) /\ b > Top.mark
    BY <1>3, <1>9, <1>10, <1>11 DEF n
  <2> QED
    BY <2>1, <2>2, <2>3 DEF Changed
<1>13. /\ HasNext(g) /\ HasAfter(g) /\ HasHeader(g) /\ Counts(g) /\ ~Counts(Top)
       /\ \A b : ~Unplaced(g, b) /\ ~Unplaced(Top, b) /\ ~Reserves(Top, b)
       /\ \A b : Reserves(g, b) <=> b \in {h + 1, h + 2}
  BY <1>3, <1>6 DEF HasNext, HasAfter, HasHeader, Counts, Unplaced, Reserves, At
<1>14. \A b \in {h, h + 1, h + 2} :
         /\ b \in 1..Len(cs) /\ b > n /\ cs[b].succs = {} /\ cs[b].ends = "open"
         /\ b # h => cs[b].phi = <<>>
         /\ cs[b].fun = CurrentFun
  BY <1>3, <1>4, <1>10, SMTT(30)
<1>15. Framed(cs, g)
  BY <1>3, <1>4, <1>6, <1>10, <1>13 DEF Framed
<1>16. PredsIn(cs, h) = {at}
  <2>1. \A b \in 1..Len(cs) : h \in cs[b].succs <=> b = at
    <3>1. \A b \in 1..Len(cs) : b \in 1..n \/ b > n
      BY <1>3
    <3>2. \A b \in 1..n : h \notin blocks[b].succs
      BY <1>3, <1>4
    <3> QED
      BY <1>3, <1>9, <1>10, <3>1, <3>2
  <2>2. at \in 1..Len(cs)
    BY <1>3, <1>10
  <2> QED
    BY <2>1, <2>2 DEF PredsIn
<1>17. Placed(cs, g)
  <2>1. cs[Top.start].fun = CurrentFun
    BY <1>3, <1>10
  <2> QED
    BY <1>6, <1>13, <1>14, <2>1 DEF Placed
<1>18. PhiFacts(cs, g)
  <2>1. h + 1 # h /\ h + 2 # h
    BY <1>4
  <2> QED
    BY <1>5, <1>6, <1>10, <1>13, <1>14, <1>16, <2>1 DEF PhiFacts, At
<1>19. /\ Here(g, at') /\ at' \in 1..Len(cs) /\ at' > Top.mark
       /\ cs[at'].fun = blocks[at].fun
  <2>1. h > Top.mark /\ h \notin {h + 1, h + 2}
    BY <1>3, <1>4
  <2> QED
    BY <1>1, <1>3, <1>6, <1>13, <1>14, <2>1 DEF Here
<1>20. \A b \in 1..Len(cs) : b = at \/ b \in T \/ b > Len(blocks) =>
         /\ cs[b].ends = "open" <=> b = at' \/ Reserves(g, b)
         /\ cs[b].ends = "open" => cs[b].succs = {}
  <2>1. cs[at].ends # "open" /\ at # at' /\ ~Reserves(g, at)
    BY <1>1, <1>3, <1>4, <1>9, <1>13
  <2> QED
    BY <1>1, <1>10, <1>11, <1>13, <2>1 DEF n
<1>21. \A b \in 1..Len(blocks) : b # at /\ b \notin T =>
         (Reserves(Top, b) <=> b = at' \/ Reserves(g, b))
  <2>1. \A b \in 1..n : b # h /\ b # h + 1 /\ b # h + 2
    BY <1>3, <1>4
  <2> QED
    BY <1>1, <1>13, <2>1 DEF n
<1>22. \A b \in 1..Len(cs) : b \in T \/ b > Len(blocks) =>
         /\ cs[b].fun = IF Unplaced(g, b) THEN Nowhere ELSE blocks[at].fun
         /\ cs[b].phi = <<>> \/ (Counts(g) /\ g.held = b)
  BY <1>3, <1>6, <1>10, <1>11, <1>13 DEF n
<1>23. /\ g \in Frame /\ g.kind = "for" /\ g.start = Top.start /\ g.mark = Top.mark
       /\ \A b : ~Unplaced(g, b) /\ ~Unplaced(Top, b)
       /\ ~Counts(Top) /\ ~At(g, "if", {"else"})
  BY <1>6, <1>13 DEF At
<1> QED
  BY <1>q, <1>2, <1>12, <1>15, <1>17, <1>18, <1>19, <1>20, <1>21, <1>22, <1>23,
     ProceedSound DEF cs

\* The loop block of a for has its first value and its branch.
LEMMA ForToSound ==
  ASSUME Inductive, ForTo
  PROVE  Inductive'
<1> DEFINE n == Len(blocks)
           a == Top.after
           e == Top.next
           h == Top.held
           g == [Top EXCEPT !.step = "body"]
           cs == blocks'
           T == {e, a}
<1>1. /\ Resumed("for", "to") /\ cs = Fork(blocks, at, h, value, e, a)
      /\ at' = e /\ Proceed(g)
  BY DEF ForTo, Fork
<1>q. Resumed("for", "to") /\ Proceed(g)
  BY <1>1
<1>2. "for" \in Branching
  BY DEF Branching
<1>3. /\ Blocks(blocks) /\ n \in Nat /\ at \in 1..n /\ Top \in Frame
      /\ Top.kind = "for" /\ Top.step = "to" /\ value \in 0..n
      /\ Framed(blocks, Top) /\ Placed(blocks, Top) /\ PhiFacts(blocks, Top)
      /\ Top.mark \in 1..n /\ Top.start \in 1..Top.mark
      /\ CurrentFun = blocks[at].fun /\ CurrentFun \in 1..at
      /\ blocks[Top.start].fun = CurrentFun /\ blocks[at].succs = {}
      /\ \A b : Reserves(Top, b) => b # at
      /\ \A b \in 1..n : Reserves(Top, b) => blocks[b].ends = "open" /\ blocks[b].succs = {}
  BY <1>1, <1>2, CallFacts
<1>4. /\ HasNext(Top) /\ HasAfter(Top) /\ HasHeader(Top) /\ Counts(Top)
      /\ \A b : ~Unplaced(Top, b)
      /\ \A b : Reserves(Top, b) <=> b \in {e, a}
  BY <1>3 DEF HasNext, HasAfter, HasHeader, Counts, Unplaced, Reserves, At
<1>5. /\ a \in 1..n /\ e \in 1..n /\ h \in 1..n
      /\ a # e /\ a > Top.mark /\ e > Top.mark
      /\ h > Top.mark /\ h # a /\ h # e
      /\ blocks[a].fun = CurrentFun /\ blocks[e].fun = CurrentFun
      /\ blocks[h].fun = CurrentFun
      /\ blocks[a].phi = <<>> /\ blocks[e].phi = <<>>
      /\ Len(blocks[h].phi) = 1 /\ PredsIn(blocks, h) = Froms(blocks[h].phi)
      /\ a # at /\ e # at
  BY <1>3, <1>4, SMTT(30) DEF Framed, Placed, PhiFacts, At
<1>6. g \in Frame /\ g.kind = "for" /\ g.step = "body" /\ g.start = Top.start
      /\ g.mark = Top.mark /\ g.next = e /\ g.after = a /\ g.held = h
  <2>1. "body" \in Steps
    BY DEF Steps
  <2> QED
    BY <1>3, <2>1 DEF Frame
<1> HIDE DEF n, a, e, g, h
<1>7. /\ Blocks(cs) /\ Len(cs) = n
      /\ \A b \in 1..n : b # at => Alike(cs[b], blocks[b])
      /\ cs[at].fun = blocks[at].fun /\ cs[at].phi = blocks[at].phi
      /\ cs[at].ends = "br" /\ cs[at].succs = {e, a}
  <2>1. /\ Blocks(blocks) /\ at \in 1..Len(blocks) /\ e \in 1..Len(blocks)
        /\ a \in 1..Len(blocks) /\ value \in 0..Len(blocks) /\ h \in 0..Len(blocks)
    BY <1>3, <1>5 DEF n
  <2>2. cs = Fork(blocks, at, h, value, e, a)
    BY <1>1
  <2> HIDE DEF cs
  <2> QED
    BY ONLY <2>1, <2>2, BranchTwo DEF n
<1> HIDE DEF cs
<1>8. (\A b : b \in T <=> b = e \/ b = a) /\ at \notin T /\ h \notin T
  BY <1>5
<1> HIDE DEF T
<1>9. Changed(blocks, cs, at, Top.mark, T)
  <2>1. \A b \in 1..Len(cs) : \A s \in cs[b].succs :
          \/ s \in T \/ s > Len(blocks)
          \/ (b \in 1..Len(blocks) /\ s \in blocks[b].succs)
    BY <1>3, <1>7, <1>8 DEF Alike, n
  <2>2. \A b \in 1..Len(blocks) :
          /\ b # at /\ b \notin T => Alike(cs[b], blocks[b])
          /\ blocks[b].fun # Nowhere => cs[b].fun = blocks[b].fun
          /\ blocks[b].succs \subseteq cs[b].succs
    BY <1>3, <1>7 DEF Alike, n
  <2>3. /\ Blocks(blocks) /\ Blocks(cs) /\ Top.mark \in 1..Len(blocks)
        /\ at \in 1..Len(blocks) /\ Len(blocks) <= Len(cs)
        /\ cs[at].fun = blocks[at].fun /\ cs[at].phi = blocks[at].phi
        /\ \A b \in T : b \in 1..Len(blocks) /\ b > Top.mark
    BY <1>3, <1>5, <1>7, <1>8 DEF n
  <2> QED
    BY <2>1, <2>2, <2>3 DEF Changed
<1>10. /\ ~HasNext(g) /\ HasAfter(g) /\ HasHeader(g) /\ Counts(g)
       /\ \A b : ~Unplaced(g, b)
       /\ \A b : Reserves(g, b) <=> b = a
  BY <1>6 DEF HasNext, HasAfter, HasHeader, Counts, Unplaced, Reserves, At
<1>11. \A b \in 1..n : cs[b].fun = blocks[b].fun /\ cs[b].phi = blocks[b].phi
  BY <1>3, <1>7 DEF Alike
<1>12. Framed(cs, g)
  BY <1>3, <1>5, <1>6, <1>7, <1>10 DEF Framed
<1>13. Placed(cs, g) /\ PhiFacts(cs, g)
  <2>1. cs[a].fun = CurrentFun /\ cs[Top.start].fun = CurrentFun
        /\ cs[h].fun = CurrentFun /\ cs[a].phi = <<>> /\ cs[h].phi = blocks[h].phi
    BY <1>3, <1>5, <1>11, SMTT(40)
  <2>2. Placed(cs, g)
    BY <1>6, <1>10, <2>1 DEF Placed
  <2>3. PredsIn(cs, h) = PredsIn(blocks, h)
    <3>1. h \in 1..Len(blocks)
      BY <1>5 DEF n
    <3> QED
      BY <1>8, <1>9, <3>1, ChangedPreds
  <2>4. PhiFacts(cs, g)
    BY <1>5, <1>6, <1>10, <2>1, <2>3 DEF PhiFacts, At
  <2> QED
    BY <2>2, <2>4
<1>14. /\ Here(g, at') /\ at' \in 1..Len(cs) /\ at' > Top.mark
       /\ cs[at'].fun = blocks[at].fun
  BY <1>1, <1>3, <1>5, <1>6, <1>7, <1>10, <1>11 DEF Here
<1>15. \A b \in 1..Len(cs) : b \in T \/ b > Len(blocks) => b = e \/ b = a
  BY <1>3, <1>7, <1>8 DEF n
<1>16. \A b \in 1..Len(cs) : b = at \/ b \in T \/ b > Len(blocks) =>
         /\ cs[b].ends = "open" <=> b = at' \/ Reserves(g, b)
         /\ cs[b].ends = "open" => cs[b].succs = {}
  <2>1. cs[at].ends # "open" /\ at # at' /\ ~Reserves(g, at)
    BY <1>1, <1>5, <1>7, <1>10
  <2>2. \A b \in {e, a} : /\ cs[b].ends = "open" /\ cs[b].succs = {}
                          /\ b = at' \/ Reserves(g, b)
    BY <1>1, <1>3, <1>4, <1>5, <1>7, <1>10 DEF Alike
  <2> QED
    BY <1>15, <2>1, <2>2
<1>17. \A b \in 1..Len(blocks) : b # at /\ b \notin T =>
         (Reserves(Top, b) <=> b = at' \/ Reserves(g, b))
  BY <1>1, <1>4, <1>8, <1>10
<1>18. \A b \in 1..Len(cs) : b \in T \/ b > Len(blocks) =>
         /\ cs[b].fun = IF Unplaced(g, b) THEN Nowhere ELSE blocks[at].fun
         /\ cs[b].phi = <<>>
  BY <1>3, <1>5, <1>10, <1>11, <1>15
<1>19. /\ g \in Frame /\ g.kind = "for" /\ g.start = Top.start /\ g.mark = Top.mark
       /\ \A b : ~Unplaced(g, b) /\ ~Unplaced(Top, b)
       /\ Counts(g) /\ g.held = Top.held /\ ~At(g, "if", {"else"})
  BY <1>4, <1>6, <1>10 DEF At, h
<1> QED
  BY <1>q, <1>2, <1>9, <1>12, <1>13, <1>14, <1>16, <1>17, <1>18, <1>19,
     ProceedSound DEF cs

\* The loop of a for goes back to its header, whose PHI is complete.
LEMMA ForBodySound ==
  ASSUME Inductive, ForBody
  PROVE  Inductive'
<1> DEFINE n == Len(blocks)
           a == Top.after
           e == Top.next
           h == Top.held
           us == Use(blocks, e, {h})
           pairs == Append(us[h].phi, Pair(e, at))
           bs == Phi(us, h, pairs)
           cs == blocks'
           T == {h}
<1>1. /\ Resumed("for", "body") /\ cs = Branch(bs, at, {h})
      /\ at' = a /\ Return(Const)
  BY DEF ForBody
<1>q. Resumed("for", "body") /\ Return(Const)
  BY <1>1
<1>2. "for" \in Branching
  BY DEF Branching
<1>3. /\ Blocks(blocks) /\ n \in Nat /\ at \in 1..n /\ Top \in Frame
      /\ Top.kind = "for" /\ Top.step = "body"
      /\ Framed(blocks, Top) /\ Placed(blocks, Top) /\ PhiFacts(blocks, Top)
      /\ Top.mark \in 1..n /\ Top.start \in 1..Top.mark
      /\ CurrentFun = blocks[at].fun /\ CurrentFun \in 1..at
      /\ blocks[Top.start].fun = CurrentFun /\ blocks[at].succs = {}
      /\ \A b : Reserves(Top, b) => b # at
      /\ \A b \in 1..n :
           /\ Reserves(Top, b) => blocks[b].ends = "open" /\ blocks[b].succs = {}
           /\ b > Top.mark /\ b # at /\ ~Reserves(Top, b) => blocks[b].ends # "open"
           /\ at \notin PredsIn(blocks, b)
  BY <1>1, <1>2, CallFacts
<1>4. /\ HasAfter(Top) /\ HasHeader(Top) /\ Counts(Top)
      /\ \A b : ~Unplaced(Top, b)
      /\ \A b : Reserves(Top, b) <=> b = a
  BY <1>3 DEF HasNext, HasAfter, HasHeader, Counts, Unplaced, Reserves, At
<1>5. /\ a \in 1..n /\ h \in 1..n /\ e \in 1..n /\ a > Top.mark /\ h > Top.mark /\ h # a
      /\ blocks[a].fun = CurrentFun /\ blocks[h].fun = CurrentFun
      /\ blocks[a].phi = <<>> /\ a # at
      /\ Len(blocks[h].phi) = 1 /\ PredsIn(blocks, h) = Froms(blocks[h].phi)
  BY <1>3, <1>4 DEF Framed, Placed, PhiFacts, At
<1> HIDE DEF n, a, h, e
<1>6. /\ Blocks(us) /\ Len(us) = n
      /\ \A b \in 1..n : Alike(us[b], blocks[b])
  <2>1. /\ Blocks(blocks) /\ e \in 1..Len(blocks) /\ {h} \in SUBSET (0..Len(blocks))
    BY <1>3, <1>5 DEF n
  <2> QED
    BY ONLY <2>1, UseBlocks DEF n
<1> HIDE DEF us
<1>7. /\ pairs \in Pairs /\ Froms(pairs) = Froms(blocks[h].phi) \cup {at} /\ Distinct(pairs)
  <2> DEFINE phi == us[h].phi
  <2>1. phi \in Pairs /\ e \in Nat /\ at \in Nat /\ phi = blocks[h].phi
    <3>1. us[h] \in Block
      BY <1>5, <1>6 DEF Blocks
    <3> QED
      BY <1>3, <1>5, <1>6, <3>1 DEF Block, Pairs, Alike
  <2>2. Distinct(blocks[h].phi)
    BY <1>5 DEF Distinct
  <2>3. at \notin Froms(blocks[h].phi)
    BY <1>3, <1>5
  <2> HIDE DEF phi
  <2>4. /\ Append(phi, Pair(e, at)) \in Pairs
        /\ Froms(Append(phi, Pair(e, at))) = Froms(phi) \cup {at}
        /\ Distinct(phi) /\ at \notin Froms(phi) => Distinct(Append(phi, Pair(e, at)))
    BY <2>1, FromsAppend
  <2> QED
    BY <2>1, <2>2, <2>3, <2>4 DEF phi
<1> HIDE DEF pairs
<1>8. /\ Blocks(bs) /\ Len(bs) = Len(us)
      /\ \A b \in 1..Len(us) : b # h => bs[b] = us[b]
      /\ bs[h].fun = us[h].fun /\ bs[h].phi = pairs
      /\ bs[h].ends = us[h].ends /\ bs[h].succs = us[h].succs
  <2>1. /\ Blocks(us) /\ h \in 1..Len(us) /\ pairs \in Seq([val: Nat, from: Nat])
    BY <1>5, <1>6, <1>7 DEF Pairs
  <2> QED
    BY ONLY <2>1, PhiBlocks
<1> HIDE DEF bs
<1>9. /\ Blocks(cs) /\ Len(cs) = Len(bs)
      /\ \A b \in 1..Len(bs) : b # at => cs[b] = bs[b]
      /\ cs[at].fun = bs[at].fun /\ cs[at].phi = bs[at].phi
      /\ cs[at].ends = "br" /\ cs[at].succs = {h}
  <2>1. Blocks(bs) /\ at \in 1..Len(bs) /\ h \in 1..Len(bs) /\ cs = Branch(bs, at, {h})
    BY <1>1, <1>3, <1>5, <1>6, <1>8
  <2> HIDE DEF cs
  <2> QED
    BY ONLY <2>1, BranchOne
<1> HIDE DEF cs
<1>10. /\ Len(cs) = n
       /\ \A b \in 1..n : b # at /\ b # h => Alike(cs[b], blocks[b])
       /\ \A b \in 1..n : cs[b].fun = blocks[b].fun
       /\ \A b \in 1..n : b # at => cs[b].ends = blocks[b].ends /\ cs[b].succs = blocks[b].succs
       /\ cs[h].phi = pairs
       /\ h # at => cs[at].phi = blocks[at].phi
  <2>1. \A b \in 1..n : b # at /\ b # h => Alike(cs[b], blocks[b])
    BY <1>6, <1>8, <1>9 DEF Alike
  <2>2. /\ \A b \in 1..n : bs[b].fun = blocks[b].fun /\ bs[b].ends = blocks[b].ends
                           /\ bs[b].succs = blocks[b].succs
        /\ \A b \in 1..n : b # h => bs[b].phi = blocks[b].phi
    BY <1>6, <1>8 DEF Alike
  <2> QED
    BY <1>3, <1>5, <1>6, <1>8, <1>9, <2>1, <2>2
<1>11. \A b : b \in T <=> b = h
  OBVIOUS
<1> HIDE DEF T
<1>12. Changed(blocks, cs, at, Top.mark, T)
  <2>1. \A b \in 1..Len(cs) : \A s \in cs[b].succs :
          \/ s \in T \/ s > Len(blocks)
          \/ (b \in 1..Len(blocks) /\ s \in blocks[b].succs)
    BY <1>3, <1>9, <1>10, <1>11 DEF n
  <2>2. \A b \in 1..Len(blocks) :
          /\ b # at /\ b \notin T => Alike(cs[b], blocks[b])
          /\ blocks[b].fun # Nowhere => cs[b].fun = blocks[b].fun
          /\ blocks[b].succs \subseteq cs[b].succs
    BY <1>3, <1>10, <1>11 DEF n
  <2>3. /\ Blocks(blocks) /\ Blocks(cs) /\ Top.mark \in 1..Len(blocks)
        /\ at \in 1..Len(blocks) /\ Len(blocks) <= Len(cs)
        /\ cs[at].fun = blocks[at].fun /\ at \notin T => cs[at].phi = blocks[at].phi
    BY <1>3, <1>9, <1>10, <1>11 DEF n
  <2>4. \A b \in T : b \in 1..Len(blocks) /\ b > Top.mark
    BY <1>5, <1>11 DEF n
  <2>5. cs[at].fun = blocks[at].fun
    BY <1>3, <1>10
  <2> QED
    BY <2>1, <2>2, <2>3, <2>4, <2>5 DEF Changed
<1>13. Complete(cs, h)
  <2>1. \A b \in 1..Len(cs) :
          h \in cs[b].succs <=> (b \in 1..Len(blocks) /\ h \in blocks[b].succs) \/ b = at
    BY <1>3, <1>9, <1>10 DEF n
  <2>2. GetsEdge(blocks, cs, at, h)
    BY <1>3, <1>10, <2>1 DEF GetsEdge, n
  <2>3. PredsIn(cs, h) = PredsIn(blocks, h) \cup {at}
    BY <2>2, PredsMove
  <2> QED
    BY <1>5, <1>7, <1>10, <2>3 DEF Complete
<1>14. /\ at' \in 1..Len(cs) /\ at' > Top.mark /\ cs[at'].fun = blocks[at].fun
       /\ Const \in 0..Len(cs)
  <2>1. a \in 1..Len(cs) /\ cs[a].fun = blocks[at].fun /\ Const \in 0..Len(cs)
    BY <1>3, <1>5, <1>10 DEF Const
  <2> QED
    BY <1>1, <1>5, <2>1
<1>15. \A b \in 1..Len(blocks) : b # at /\ b \notin T => (Reserves(Top, b) <=> b = at')
  BY <1>1, <1>4
<1>16. \A b \in 1..Len(cs) : b \in T \/ b > Len(blocks) => b = h
  BY <1>3, <1>10, <1>11 DEF n
<1>17. h # at => cs[h].ends # "open"
  BY <1>3, <1>4, <1>5, <1>10
<1>18. \A b \in 1..Len(cs) : b = at \/ b \in T \/ b > Len(blocks) =>
         /\ cs[b].ends = "open" <=> b = at'
         /\ cs[b].ends = "open" => cs[b].succs = {}
  <2>1. cs[at].ends # "open" /\ at # at' /\ h # at'
    BY <1>1, <1>5, <1>9
  <2> QED
    BY <1>16, <1>17, <2>1
<1>19. \A b \in 1..Len(cs) : b \in T \/ b > Len(blocks) =>
         /\ cs[b].fun = blocks[at].fun
         /\ cs[b].phi = <<>> \/ Complete(cs, b)
  BY <1>3, <1>5, <1>10, <1>13, <1>16
<1>20. Counts(Top) => Top.held \in T
  BY <1>11 DEF h
<1> QED
  BY <1>q, <1>2, <1>4, <1>12, <1>14, <1>15, <1>18, <1>19, <1>20, ReturnSound DEF cs

\* Two blocks, in functions F and G or nowhere.
AndTwo(bs, F, G) == bs \o <<Fresh(F), Fresh(G)>>

\* What two new blocks change.
LEMMA TwoMore ==
  ASSUME NEW bs, Blocks(bs), NEW F \in Nat, NEW G \in Nat, NEW cs, cs = AndTwo(bs, F, G)
  PROVE  /\ Blocks(cs) /\ Len(cs) = Len(bs) + 2
         /\ \A b \in 1..Len(bs) : cs[b] = bs[b]
         /\ \A b \in 1..Len(cs) : b > Len(bs) =>
              cs[b].succs = {} /\ cs[b].ends = "open" /\ cs[b].phi = <<>>
         /\ cs[Len(bs) + 1].fun = F /\ cs[Len(bs) + 2].fun = G
<1> DEFINE fs == <<Fresh(F), Fresh(G)>>
<1>1. /\ Fresh(F) \in Block /\ Fresh(F).fun = F
      /\ Fresh(G) \in Block /\ Fresh(G).fun = G
  <2>1. <<>> \in Seq([val: Nat, from: Nat])
    OBVIOUS
  <2> QED
    BY <2>1 DEF Fresh, Block
<1>2. fs \in Seq(Block) /\ Len(fs) = 2 /\ fs[1] = Fresh(F) /\ fs[2] = Fresh(G)
  BY <1>1
<1>3. cs = Joined(bs, fs)
  BY DEF AndTwo, Joined
<1> HIDE DEF fs
<1>4. AllFresh(fs)
  <2>1. \A i \in 1..Len(fs) : i = 1 \/ i = 2
    BY <1>2
  <2> QED
    BY <1>1, <1>2, <2>1 DEF AllFresh
<1>5. /\ Blocks(cs) /\ Len(cs) = Len(bs) + Len(fs) /\ Len(bs) \in Nat
      /\ \A c \in 1..Len(bs) : cs[c] = bs[c]
      /\ \A c \in 1..Len(cs) : c > Len(bs) =>
           /\ cs[c].succs = {} /\ cs[c].ends = "open" /\ cs[c].phi = <<>>
           /\ c - Len(bs) \in 1..Len(fs) /\ cs[c].fun = fs[c - Len(bs)].fun
  <2>1. Grows(bs, fs, cs)
    BY <1>3, <1>4, FreshBlocks
  <2> QED
    BY <2>1 DEF Grows
<1>6. cs[Len(bs) + 1].fun = F /\ cs[Len(bs) + 2].fun = G
  <2>1. \A i \in {1, 2} : /\ Len(bs) + i \in 1..Len(cs) /\ Len(bs) + i > Len(bs)
                           /\ (Len(bs) + i) - Len(bs) = i
    BY <1>2, <1>5
  <2> QED
    BY <1>1, <1>2, <1>5, <2>1
<1> QED
  BY <1>2, <1>5, <1>6

\* The scrutinee has been found, and the first pattern is tried.
LEMMA MatchExprSound ==
  ASSUME Inductive, MatchExpr
  PROVE  Inductive'
<1> DEFINE n == Len(blocks)
           a == n + 1
           e == n + 2
           g == [Top EXCEPT !.step = "pattern", !.held = value, !.next = e, !.after = a]
           more == AndTwo(blocks, Nowhere, Nowhere)
           bs == Attach(more, e, CurrentFun)
           cs == blocks'
           T == {}
<1>1. /\ Resumed("match", "expr") /\ cs = Branch(bs, at, {e})
      /\ at' = e /\ Proceed(g)
  BY DEF MatchExpr, AndTwo
<1>q. Resumed("match", "expr") /\ Proceed(g)
  BY <1>1
<1>2. "match" \in Branching
  BY DEF Branching
<1>3. /\ Blocks(blocks) /\ n \in Nat /\ at \in 1..n /\ Top \in Frame
      /\ Top.kind = "match" /\ Top.step = "expr" /\ value \in 0..n
      /\ PhiFacts(blocks, Top)
      /\ Top.mark \in 1..n /\ Top.start \in 1..Top.mark
      /\ CurrentFun = blocks[at].fun /\ CurrentFun \in 1..at
      /\ blocks[Top.start].fun = CurrentFun /\ blocks[at].succs = {}
      /\ \A b \in 1..n : blocks[b].succs \subseteq 1..n
  BY <1>1, <1>2, CallFacts
<1>4. /\ a \in Nat /\ e \in Nat /\ a = n + 1 /\ e = n + 2 /\ value \in Nat
      /\ Nowhere \in Nat /\ CurrentFun \in Nat
  BY <1>3 DEF Nowhere
<1>5. Top.incoming = <<>> /\ Froms(Top.incoming) = {} /\ Distinct(Top.incoming)
  <2>1. Top.incoming = <<>>
    BY <1>3 DEF PhiFacts, At
  <2> QED
    BY <2>1 DEF Froms, Distinct
<1>6. g \in Frame /\ g.kind = "match" /\ g.step = "pattern" /\ g.start = Top.start
      /\ g.mark = Top.mark /\ g.held = value /\ g.next = e /\ g.after = a
      /\ g.incoming = Top.incoming
  <2>1. "pattern" \in Steps
    BY DEF Steps
  <2> QED
    BY <1>3, <1>4, <2>1 DEF Frame
<1> HIDE DEF n, a, e, g
<1>7. /\ Blocks(more) /\ Len(more) = n + 2
      /\ \A b \in 1..n : more[b] = blocks[b]
      /\ \A b \in 1..Len(more) : b > n =>
           more[b].succs = {} /\ more[b].ends = "open" /\ more[b].phi = <<>>
      /\ more[n + 1].fun = Nowhere
  BY <1>3, <1>4, TwoMore, SMTT(30) DEF n
<1> HIDE DEF more
<1>8. /\ Blocks(bs) /\ Len(bs) = Len(more)
      /\ \A b \in 1..Len(more) : b # e => bs[b] = more[b]
      /\ bs[e].fun = CurrentFun /\ bs[e].phi = more[e].phi
      /\ bs[e].ends = more[e].ends /\ bs[e].succs = more[e].succs
  <2>1. Blocks(more) /\ e \in 1..Len(more) /\ CurrentFun \in Nat
    BY <1>3, <1>4, <1>7
  <2> QED
    BY ONLY <2>1, AttachBlocks
<1> HIDE DEF bs
<1>9. /\ Blocks(cs) /\ Len(cs) = Len(bs)
      /\ \A b \in 1..Len(bs) : b # at => cs[b] = bs[b]
      /\ cs[at].fun = bs[at].fun /\ cs[at].phi = bs[at].phi
      /\ cs[at].ends = "br" /\ cs[at].succs = {e}
  <2>1. Blocks(bs) /\ at \in 1..Len(bs) /\ e \in 1..Len(bs) /\ cs = Branch(bs, at, {e})
    BY <1>1, <1>3, <1>4, <1>7, <1>8
  <2> HIDE DEF cs
  <2> QED
    BY ONLY <2>1, BranchOne
<1> HIDE DEF cs
<1>10. /\ Len(cs) = n + 2
       /\ \A b \in 1..n : /\ b # at => cs[b] = blocks[b]
                          /\ cs[b].fun = blocks[b].fun
       /\ cs[at].fun = CurrentFun /\ cs[at].phi = blocks[at].phi
       /\ \A b \in {a, e} : /\ cs[b].succs = {} /\ cs[b].ends = "open" /\ cs[b].phi = <<>>
                            /\ b \in 1..Len(cs) /\ b > n /\ b # at
       /\ cs[a].fun = Nowhere /\ cs[e].fun = CurrentFun
  <2>1. \A b \in 1..n : b \in 1..n + 2 /\ b # e
    BY <1>3, <1>4
  <2>2. \A b \in {a, e} : b \in 1..n + 2 /\ b > n /\ b # at
    BY <1>3, <1>4
  <2>3. ASSUME NEW b \in 1..n
        PROVE  /\ b # at => cs[b] = blocks[b]
               /\ cs[b].fun = blocks[b].fun
    BY <1>3, <1>7, <1>8, <1>9, <2>1
  <2>4. Len(cs) = n + 2 /\ cs[at].fun = CurrentFun /\ cs[at].phi = blocks[at].phi
    BY <1>3, <1>7, <1>8, <1>9, <2>1
  <2>5. a # e
    BY <1>3, <1>4
  <2>6. cs[a] = bs[a] /\ cs[e] = bs[e] /\ bs[a] = more[a]
    BY <1>7, <1>8, <1>9, <2>2, <2>5
  <2>7. more[a].fun = Nowhere
    BY <1>4, <1>7
  <2>8. \A b \in {a, e} : cs[b].succs = {} /\ cs[b].ends = "open" /\ cs[b].phi = <<>>
    BY <1>7, <1>8, <2>2, <2>6
  <2>9. cs[a].fun = Nowhere /\ cs[e].fun = CurrentFun
    BY <1>8, <2>6, <2>7
  <2> QED
    BY <2>2, <2>3, <2>4, <2>8, <2>9
<1>11. \A b : b \notin T
  OBVIOUS
<1> HIDE DEF T
<1>12. \A b \in 1..Len(cs) : b \in 1..n \/ b = a \/ b = e
  BY <1>3, <1>4, <1>10
<1>13. Changed(blocks, cs, at, Top.mark, T)
  <2>1. ASSUME NEW b \in 1..Len(cs), NEW s \in cs[b].succs
        PROVE  s \in T \/ s > Len(blocks) \/ (b \in 1..Len(blocks) /\ s \in blocks[b].succs)
    BY <1>3, <1>4, <1>9, <1>10, <1>12, <2>1 DEF n
  <2>2. \A b \in 1..Len(blocks) :
          /\ b # at /\ b \notin T => Alike(cs[b], blocks[b])
          /\ blocks[b].fun # Nowhere => cs[b].fun = blocks[b].fun
          /\ blocks[b].succs \subseteq cs[b].succs
    BY <1>3, <1>10 DEF Alike, n
  <2>3. /\ Blocks(blocks) /\ Blocks(cs) /\ Top.mark \in 1..Len(blocks)
        /\ at \in 1..Len(blocks) /\ Len(blocks) <= Len(cs)
        /\ cs[at].fun = blocks[at].fun /\ cs[at].phi = blocks[at].phi
        /\ \A b \in T : b \in 1..Len(blocks) /\ b > Top.mark
    BY <1>3, <1>9, <1>10, <1>11 DEF n
  <2> QED
    BY <2>1, <2>2, <2>3 DEF Changed
<1>14. /\ ~HasNext(g) /\ HasAfter(g) /\ ~HasHeader(g) /\ ~Counts(g) /\ ~Counts(Top)
       /\ \A b : ~Unplaced(Top, b) /\ ~Reserves(Top, b)
       /\ \A b : Unplaced(g, b) <=> b = a
       /\ \A b : Reserves(g, b) <=> b = a
  BY <1>3, <1>6 DEF HasNext, HasAfter, HasHeader, Counts, Unplaced, Reserves, At
<1>15. Framed(cs, g)
  BY <1>3, <1>4, <1>6, <1>10, <1>14 DEF Framed
<1>16. Placed(cs, g)
  BY <1>6, <1>14 DEF Placed
<1>17. PredsIn(cs, a) = {}
  <2>1. \A b \in 1..n : a \notin blocks[b].succs
    BY <1>3, <1>4
  <2>2. a # e
    BY <1>3, <1>4
  <2> QED
    BY <1>3, <1>9, <1>10, <1>12, <2>1, <2>2 DEF PredsIn
<1>18. PhiFacts(cs, g)
  BY <1>5, <1>6, <1>10, <1>14, <1>17 DEF PhiFacts, At
<1>19. /\ Here(g, at') /\ at' \in 1..Len(cs) /\ at' > Top.mark
       /\ cs[at'].fun = blocks[at].fun
  <2>1. e > Top.mark /\ e # a
    BY <1>3, <1>4
  <2> QED
    BY <1>1, <1>3, <1>6, <1>10, <1>14, <2>1 DEF Here
<1>20. \A b \in 1..Len(cs) : b = at \/ b \in T \/ b > Len(blocks) =>
         /\ cs[b].ends = "open" <=> b = at' \/ Reserves(g, b)
         /\ cs[b].ends = "open" => cs[b].succs = {}
  <2>1. cs[at].ends # "open" /\ at # at' /\ ~Reserves(g, at)
    BY <1>1, <1>9, <1>10, <1>14
  <2>2. \A b \in 1..Len(cs) : b > Len(blocks) => b = a \/ b = e
    BY <1>3, <1>12 DEF n
  <2> QED
    BY <1>1, <1>10, <1>11, <1>14, <2>1, <2>2
<1>21. \A b \in 1..Len(blocks) : b # a /\ b # e
  BY <1>3, <1>4 DEF n
<1>22. \A b \in 1..Len(blocks) : b # at /\ b \notin T =>
         (Reserves(Top, b) <=> b = at' \/ Reserves(g, b))
  BY <1>1, <1>14, <1>21
<1>23. \A b \in 1..Len(blocks) : b \notin T => (Unplaced(Top, b) <=> Unplaced(g, b))
  BY <1>14, <1>21
<1>24. \A b \in 1..Len(cs) : b \in T \/ b > Len(blocks) =>
         /\ cs[b].fun = IF Unplaced(g, b) THEN Nowhere ELSE blocks[at].fun
         /\ cs[b].phi = <<>>
  <2>1. \A b \in 1..Len(cs) : b > Len(blocks) => b = a \/ b = e
    BY <1>3, <1>12 DEF n
  <2>2. a # e
    BY <1>3, <1>4
  <2> QED
    BY <1>3, <1>10, <1>11, <1>14, <2>1, <2>2
<1>25. /\ g \in Frame /\ g.kind = "match" /\ g.start = Top.start /\ g.mark = Top.mark
       /\ ~Counts(Top) /\ ~At(g, "if", {"else"})
  BY <1>6, <1>14 DEF At
<1> QED
  BY <1>q, <1>2, <1>13, <1>15, <1>16, <1>18, <1>19, <1>20, <1>22, <1>23, <1>24, <1>25,
     ProceedSound DEF cs

\* A pattern has been tested, and its clause follows.
LEMMA MatchPatternSound ==
  ASSUME Inductive, MatchPattern
  PROVE  Inductive'
<1> DEFINE n == Len(blocks)
           a == Top.after
           e == n + 1
           v == n + 2
           h == Top.held
           F == CurrentFun
           g == [Top EXCEPT !.step = "clause", !.next = e]
           more == AndTwo(blocks, Nowhere, F)
           cs == blocks'
           T == {}
<1>1. /\ Resumed("match", "pattern") /\ cs = Fork(more, at, value, h, v, e)
      /\ at' = v /\ Proceed(g)
  BY DEF MatchPattern, AndTwo, Fork
<1>q. Resumed("match", "pattern") /\ Proceed(g)
  BY <1>1
<1>2. "match" \in Branching
  BY DEF Branching
<1>3. /\ Blocks(blocks) /\ n \in Nat /\ at \in 1..n /\ Top \in Frame
      /\ Top.kind = "match" /\ Top.step = "pattern" /\ value \in 0..n
      /\ Framed(blocks, Top) /\ PhiFacts(blocks, Top)
      /\ Top.mark \in 1..n /\ Top.start \in 1..Top.mark
      /\ CurrentFun = blocks[at].fun /\ CurrentFun \in 1..at
      /\ blocks[Top.start].fun = CurrentFun /\ blocks[at].succs = {}
      /\ \A b : Reserves(Top, b) => b # at
      /\ \A b \in 1..n : blocks[b].succs \subseteq 1..n
  BY <1>1, <1>2, CallFacts
<1>4. /\ e \in Nat /\ v \in Nat /\ e = n + 1 /\ v = n + 2
      /\ Nowhere \in Nat /\ CurrentFun \in Nat
  BY <1>3 DEF Nowhere
<1>5. /\ HasAfter(Top) /\ ~Counts(Top)
      /\ \A b : Unplaced(Top, b) <=> b = a
      /\ \A b : Reserves(Top, b) <=> b = a
  BY <1>3 DEF HasNext, HasAfter, HasHeader, Counts, Unplaced, Reserves, At
<1>6. /\ a \in 1..n /\ a > Top.mark /\ a # at /\ h \in 0..n
      /\ blocks[a].phi = <<>>
      /\ PredsIn(blocks, a) = Froms(Top.incoming) /\ Distinct(Top.incoming)
  BY <1>3, <1>5 DEF Framed, PhiFacts, At
<1>7. g \in Frame /\ g.kind = "match" /\ g.step = "clause" /\ g.start = Top.start
      /\ g.mark = Top.mark /\ g.held = h /\ g.next = e /\ g.after = a
      /\ g.incoming = Top.incoming
  <2>1. "clause" \in Steps
    BY DEF Steps
  <2> QED
    BY <1>3, <1>4, <2>1 DEF Frame
<1> HIDE DEF n, a, e, v, g, h, F
<1>8. /\ Blocks(more) /\ Len(more) = n + 2
      /\ \A b \in 1..n : more[b] = blocks[b]
      /\ \A b \in 1..Len(more) : b > n =>
           more[b].succs = {} /\ more[b].ends = "open" /\ more[b].phi = <<>>
      /\ more[n + 1].fun = Nowhere /\ more[n + 2].fun = CurrentFun
  <2>1. Blocks(blocks) /\ Nowhere \in Nat /\ F \in Nat /\ F = CurrentFun
    BY <1>3, <1>4 DEF F
  <2> HIDE DEF more
  <2>2. more = AndTwo(blocks, Nowhere, F)
    BY DEF more
  <2>3. /\ Blocks(more) /\ Len(more) = Len(blocks) + 2
        /\ \A b \in 1..Len(blocks) : more[b] = blocks[b]
        /\ \A b \in 1..Len(more) : b > Len(blocks) =>
             more[b].succs = {} /\ more[b].ends = "open" /\ more[b].phi = <<>>
        /\ more[Len(blocks) + 1].fun = Nowhere /\ more[Len(blocks) + 2].fun = F
    BY ONLY <2>1, <2>2, TwoMore
  <2> QED
    BY <2>1, <2>3 DEF n
<1> HIDE DEF more
<1>9. /\ Blocks(cs) /\ Len(cs) = Len(more)
      /\ \A b \in 1..Len(more) : b # at => Alike(cs[b], more[b])
      /\ cs[at].fun = more[at].fun /\ cs[at].phi = more[at].phi
      /\ cs[at].ends = "br" /\ cs[at].succs = {v, e}
  <2>1. /\ Blocks(more) /\ at \in 1..Len(more) /\ e \in 1..Len(more)
        /\ v \in 1..Len(more) /\ value \in 0..Len(more) /\ h \in 0..Len(more)
    BY <1>3, <1>4, <1>6, <1>8
  <2>2. cs = Fork(more, at, value, h, v, e)
    BY <1>1
  <2> HIDE DEF cs
  <2> QED
    BY ONLY <2>1, <2>2, BranchTwo
<1> HIDE DEF cs
<1>10. /\ Len(cs) = n + 2
       /\ \A b \in 1..n : /\ b # at => Alike(cs[b], blocks[b])
                          /\ cs[b].fun = blocks[b].fun /\ cs[b].phi = blocks[b].phi
       /\ cs[at].fun = CurrentFun /\ cs[at].phi = blocks[at].phi
       /\ \A b \in {e, v} : /\ cs[b].succs = {} /\ cs[b].ends = "open" /\ cs[b].phi = <<>>
                            /\ b \in 1..Len(cs) /\ b > n /\ b # at
       /\ cs[e].fun = Nowhere /\ cs[v].fun = CurrentFun /\ e # v
  <2>1. \A b \in 1..n : b \in 1..n + 2
    BY <1>3
  <2>2. \A b \in {e, v} : b \in 1..n + 2 /\ b > n /\ b # at
    BY <1>3, <1>4
  <2>3. ASSUME NEW b \in 1..n
        PROVE  /\ b # at => Alike(cs[b], blocks[b])
               /\ cs[b].fun = blocks[b].fun /\ cs[b].phi = blocks[b].phi
    BY <1>3, <1>8, <1>9, <2>1 DEF Alike
  <2>4. Len(cs) = n + 2 /\ cs[at].fun = CurrentFun /\ cs[at].phi = blocks[at].phi
    BY <1>3, <1>8, <1>9, <2>1
  <2>5. \A b \in {e, v} : Alike(cs[b], more[b])
    BY <1>8, <1>9, <2>2
  <2>6. \A b \in {e, v} : cs[b].succs = {} /\ cs[b].ends = "open" /\ cs[b].phi = <<>>
    BY <1>8, <2>2, <2>5 DEF Alike
  <2>7. cs[e].fun = Nowhere /\ cs[v].fun = CurrentFun /\ e # v
    BY <1>3, <1>4, <1>8, <2>5 DEF Alike
  <2> QED
    BY <1>8, <1>9, <2>2, <2>3, <2>4, <2>6, <2>7
<1>11. \A b : b \notin T
  OBVIOUS
<1> HIDE DEF T
<1>12. \A b \in 1..Len(cs) : b \in 1..n \/ b = e \/ b = v
  BY <1>3, <1>4, <1>10
<1>13. Changed(blocks, cs, at, Top.mark, T)
  <2>1. ASSUME NEW b \in 1..Len(cs), NEW s \in cs[b].succs
        PROVE  s \in T \/ s > Len(blocks) \/ (b \in 1..Len(blocks) /\ s \in blocks[b].succs)
    BY <1>3, <1>4, <1>9, <1>10, <1>12, <2>1, ZenonT(40) DEF Alike, n
  <2>2. \A b \in 1..Len(blocks) :
          /\ b # at /\ b \notin T => Alike(cs[b], blocks[b])
          /\ blocks[b].fun # Nowhere => cs[b].fun = blocks[b].fun
          /\ blocks[b].succs \subseteq cs[b].succs
    BY <1>3, <1>10 DEF Alike, n
  <2>3. /\ Blocks(blocks) /\ Blocks(cs) /\ Top.mark \in 1..Len(blocks)
        /\ at \in 1..Len(blocks) /\ Len(blocks) <= Len(cs)
        /\ cs[at].fun = blocks[at].fun /\ cs[at].phi = blocks[at].phi
        /\ \A b \in T : b \in 1..Len(blocks) /\ b > Top.mark
    BY <1>3, <1>9, <1>10, <1>11 DEF n
  <2> QED
    BY <2>1, <2>2, <2>3 DEF Changed
<1>14. /\ HasNext(g) /\ HasAfter(g) /\ ~HasHeader(g)
       /\ ~Counts(g)
       /\ \A b : Unplaced(g, b) <=> b \in {a, e}
       /\ \A b : Reserves(g, b) <=> b \in {a, e}
  BY <1>7 DEF HasNext, HasAfter, HasHeader, Counts, Unplaced, Reserves, At
<1>15. Framed(cs, g)
  BY <1>3, <1>4, <1>6, <1>7, <1>10, <1>14, SMTT(30) DEF Framed
<1>16. Placed(cs, g)
  BY <1>7, <1>14 DEF Placed
<1>17. PredsIn(cs, a) = PredsIn(blocks, a)
  <2>1. a \in 1..Len(blocks)
    BY <1>6 DEF n
  <2> QED
    BY <1>11, <1>13, <2>1, ChangedPreds
<1>18. PhiFacts(cs, g)
  BY <1>6, <1>7, <1>10, <1>14, <1>17 DEF PhiFacts, At
<1>19. /\ Here(g, at') /\ at' \in 1..Len(cs) /\ at' > Top.mark
       /\ cs[at'].fun = blocks[at].fun
  <2>1. v > Top.mark /\ v # a /\ v # e
    BY <1>3, <1>4, <1>6
  <2> QED
    BY <1>1, <1>3, <1>7, <1>10, <1>14, <2>1 DEF Here
<1>20. \A b \in 1..Len(cs) : b > Len(blocks) => b = e \/ b = v
  BY <1>3, <1>12 DEF n
<1>21. \A b \in 1..Len(cs) : b = at \/ b \in T \/ b > Len(blocks) =>
         /\ cs[b].ends = "open" <=> b = at' \/ Reserves(g, b)
         /\ cs[b].ends = "open" => cs[b].succs = {}
  <2>1. cs[at].ends # "open" /\ at # at' /\ ~Reserves(g, at)
    BY <1>1, <1>6, <1>9, <1>10, <1>14
  <2> QED
    BY <1>1, <1>10, <1>11, <1>14, <1>20, <2>1
<1>22. \A b \in 1..Len(blocks) : b # v /\ b # e
  BY <1>3, <1>4 DEF n
<1>23. \A b \in 1..Len(blocks) : b # at /\ b \notin T =>
         (Reserves(Top, b) <=> b = at' \/ Reserves(g, b))
  BY <1>1, <1>5, <1>14, <1>22
<1>24. \A b \in 1..Len(blocks) : b \notin T => (Unplaced(Top, b) <=> Unplaced(g, b))
  BY <1>5, <1>14, <1>22
<1>25. \A b \in 1..Len(cs) : b \in T \/ b > Len(blocks) =>
         /\ cs[b].fun = IF Unplaced(g, b) THEN Nowhere ELSE blocks[at].fun
         /\ cs[b].phi = <<>>
  <2>1. v # a
    BY <1>3, <1>4, <1>6
  <2> QED
    BY <1>3, <1>10, <1>11, <1>14, <1>20, <2>1
<1>26. /\ g \in Frame /\ g.kind = "match" /\ g.start = Top.start /\ g.mark = Top.mark
       /\ ~Counts(Top) /\ ~At(g, "if", {"else"})
  BY <1>5, <1>7 DEF At
<1> QED
  BY <1>q, <1>2, <1>13, <1>15, <1>16, <1>18, <1>19, <1>21, <1>23, <1>24, <1>25, <1>26,
     ProceedSound DEF cs

\* Another clause follows, or the last one is done.
LEMMA MatchClauseSound ==
  ASSUME Inductive, MatchClause
  PROVE  Inductive'
<1> DEFINE n == Len(blocks)
           a == Top.after
           e == Top.next
           pairs == Append(Top.incoming, Pair(value, at))
           g == [Top EXCEPT !.step = "pattern", !.incoming = pairs]
           bs == Branch(blocks, at, {a})
           ds == Attach(bs, e, CurrentFun)
           es == Branch(ds, e, {e})
           fs == Attach(es, a, CurrentFun)
           cs == blocks'
           T == {a, e}
<1>1. /\ Resumed("match", "clause")
      /\ \/ cs = ds /\ at' = e /\ Proceed(g)
         \/ cs = Phi(fs, a, pairs) /\ at' = a /\ Return(a)
  BY DEF MatchClause, MatchTrap
<1>2. "match" \in Branching
  BY DEF Branching
<1>3. /\ Blocks(blocks) /\ n \in Nat /\ at \in 1..n /\ Top \in Frame
      /\ Top.kind = "match" /\ Top.step = "clause" /\ value \in 0..n
      /\ Framed(blocks, Top) /\ PhiFacts(blocks, Top)
      /\ Top.mark \in 1..n /\ Top.start \in 1..Top.mark
      /\ CurrentFun = blocks[at].fun /\ CurrentFun \in 1..at
      /\ blocks[Top.start].fun = CurrentFun /\ blocks[at].succs = {}
      /\ \A b : Reserves(Top, b) => b # at
      /\ \A b \in 1..n :
           /\ Reserves(Top, b) => blocks[b].ends = "open" /\ blocks[b].succs = {}
           /\ Unplaced(Top, b) => blocks[b].fun = Nowhere
           /\ at \notin PredsIn(blocks, b)
  BY <1>1, <1>2, CallFacts
<1>4. /\ HasAfter(Top) /\ HasNext(Top) /\ ~Counts(Top)
      /\ \A b : Unplaced(Top, b) <=> b \in {a, e}
      /\ \A b : Reserves(Top, b) <=> b \in {a, e}
  BY <1>3 DEF HasNext, HasAfter, HasHeader, Counts, Unplaced, Reserves, At
<1>5. /\ a \in 1..n /\ e \in 1..n /\ a # e /\ a > Top.mark /\ e > Top.mark
      /\ a # at /\ e # at /\ Top.held \in 0..n
      /\ blocks[a].phi = <<>> /\ blocks[e].phi = <<>>
      /\ PredsIn(blocks, a) = Froms(Top.incoming) /\ Distinct(Top.incoming)
  BY <1>3, <1>4, SMTT(40) DEF Framed, PhiFacts, At
<1>6. pairs \in Pairs /\ Froms(pairs) = PredsIn(blocks, a) \cup {at} /\ Distinct(pairs)
  <2>1. Top.incoming \in Pairs /\ value \in Nat /\ at \in Nat
    BY <1>3 DEF Frame, Pairs
  <2>2. at \notin Froms(Top.incoming)
    BY <1>3, <1>5
  <2> QED
    BY <1>5, <2>1, <2>2, FromsAppend, ZenonT(40)
<1>7. g \in Frame /\ g.kind = "match" /\ g.step = "pattern" /\ g.start = Top.start
      /\ g.mark = Top.mark /\ g.held = Top.held /\ g.next = e /\ g.after = a
      /\ g.incoming = pairs
  <2>1. "pattern" \in Steps
    BY DEF Steps
  <2> QED
    BY <1>3, <1>6, <2>1 DEF Frame, Pairs
<1> HIDE DEF n, a, e, g, pairs
<1>8. /\ Blocks(bs) /\ Len(bs) = n
      /\ \A b \in 1..n : b # at => bs[b] = blocks[b]
      /\ bs[at].fun = blocks[at].fun /\ bs[at].phi = blocks[at].phi
      /\ bs[at].ends = "br" /\ bs[at].succs = {a}
  <2>1. Blocks(blocks) /\ at \in 1..Len(blocks) /\ a \in 1..Len(blocks)
    BY <1>3, <1>5 DEF n
  <2> QED
    BY ONLY <2>1, BranchOne DEF n
<1> HIDE DEF bs
<1>9. /\ Blocks(ds) /\ Len(ds) = Len(bs)
      /\ \A b \in 1..Len(bs) : b # e => ds[b] = bs[b]
      /\ ds[e].fun = CurrentFun /\ ds[e].phi = bs[e].phi
      /\ ds[e].ends = bs[e].ends /\ ds[e].succs = bs[e].succs
  <2>1. Blocks(bs) /\ e \in 1..Len(bs) /\ CurrentFun \in Nat
    BY <1>3, <1>5, <1>8
  <2> QED
    BY ONLY <2>1, AttachBlocks
<1> HIDE DEF ds
<1>10. /\ Len(ds) = n
       /\ \A b \in 1..n : b \notin {at, e} => ds[b] = blocks[b]
       /\ ds[at].fun = CurrentFun /\ ds[at].phi = blocks[at].phi
       /\ ds[at].ends = "br" /\ ds[at].succs = {a}
       /\ ds[e].fun = CurrentFun /\ ds[e].phi = <<>> /\ ds[e].ends = "open"
       /\ ds[e].succs = {}
       /\ ds[a] = blocks[a]
  BY <1>3, <1>4, <1>5, <1>8, <1>9
<1>11. (\A b : b \in T <=> b = a \/ b = e) /\ at \notin T
  BY <1>5
<1> HIDE DEF T
<1>12. blocks[a].ends = "open" /\ blocks[a].succs = {} /\ blocks[a].fun = Nowhere
       /\ blocks[e].succs = {} /\ blocks[e].fun = Nowhere
  BY <1>3, <1>4, <1>5
<1>13. CASE cs = ds /\ at' = e /\ Proceed(g)
  <2> HIDE DEF cs
  <2>1. /\ Blocks(cs) /\ Len(cs) = n
        /\ \A b \in 1..n : b \notin {at, e} => cs[b] = blocks[b]
        /\ cs[at].fun = CurrentFun /\ cs[at].phi = blocks[at].phi
        /\ cs[at].ends = "br" /\ cs[at].succs = {a}
        /\ cs[e].fun = CurrentFun /\ cs[e].phi = <<>> /\ cs[e].ends = "open"
        /\ cs[e].succs = {} /\ cs[a] = blocks[a]
    BY <1>9, <1>10, <1>13
  <2>2. Changed(blocks, cs, at, Top.mark, T)
    <3>1. \A b \in 1..Len(cs) : \A s \in cs[b].succs :
            \/ s \in T \/ s > Len(blocks)
            \/ (b \in 1..Len(blocks) /\ s \in blocks[b].succs)
      BY <1>3, <1>11, <2>1 DEF n
    <3>2. \A b \in 1..Len(blocks) :
            /\ b # at /\ b \notin T => Alike(cs[b], blocks[b])
            /\ blocks[b].fun # Nowhere => cs[b].fun = blocks[b].fun
            /\ blocks[b].succs \subseteq cs[b].succs
      BY <1>3, <1>11, <1>12, <2>1 DEF Alike, n
    <3>3. /\ Blocks(blocks) /\ Blocks(cs) /\ Top.mark \in 1..Len(blocks)
          /\ at \in 1..Len(blocks) /\ Len(blocks) <= Len(cs)
          /\ cs[at].fun = blocks[at].fun /\ cs[at].phi = blocks[at].phi
          /\ \A b \in T : b \in 1..Len(blocks) /\ b > Top.mark
      BY <1>3, <1>5, <1>11, <2>1 DEF n
    <3> QED
      BY <3>1, <3>2, <3>3 DEF Changed
  <2>3. /\ ~HasNext(g) /\ HasAfter(g) /\ ~HasHeader(g) /\ ~Counts(g)
        /\ \A b : Unplaced(g, b) <=> b = a
        /\ \A b : Reserves(g, b) <=> b = a
    BY <1>7 DEF HasNext, HasAfter, HasHeader, Counts, Unplaced, Reserves, At
  <2>4. Framed(cs, g)
    BY <1>3, <1>5, <1>7, <2>1, <2>3 DEF Framed
  <2>5. Placed(cs, g)
    BY <1>7, <2>3 DEF Placed
  <2>6. PredsIn(cs, a) = PredsIn(blocks, a) \cup {at}
    <3>1. \A b \in 1..Len(cs) :
            a \in cs[b].succs <=> (b \in 1..Len(blocks) /\ a \in blocks[b].succs) \/ b = at
      BY <1>3, <1>12, <2>1 DEF n
    <3>2. GetsEdge(blocks, cs, at, a)
      BY <1>3, <2>1, <3>1 DEF GetsEdge, n
    <3> QED
      BY <3>2, PredsMove
  <2>7. PhiFacts(cs, g)
    BY <1>5, <1>6, <1>7, <2>1, <2>3, <2>6 DEF PhiFacts, At
  <2>8. /\ Here(g, at') /\ at' \in 1..Len(cs) /\ at' > Top.mark
        /\ cs[at'].fun = blocks[at].fun
    BY <1>3, <1>5, <1>7, <1>13, <2>1, <2>3 DEF Here
  <2>9. \A b \in 1..Len(cs) : b \in T \/ b > Len(blocks) => b = a \/ b = e
    BY <1>3, <1>11, <2>1 DEF n
  <2>10. \A b \in 1..Len(cs) : b = at \/ b \in T \/ b > Len(blocks) =>
           /\ cs[b].ends = "open" <=> b = at' \/ Reserves(g, b)
           /\ cs[b].ends = "open" => cs[b].succs = {}
    <3>1. cs[at].ends # "open" /\ at # at' /\ ~Reserves(g, at)
      BY <1>5, <1>13, <2>1, <2>3
    <3> QED
      BY <1>12, <1>13, <2>1, <2>3, <2>9, <3>1
  <2>11. \A b \in 1..Len(blocks) : b # at /\ b \notin T =>
           (Reserves(Top, b) <=> b = at' \/ Reserves(g, b))
    BY <1>4, <1>11, <1>13, <2>3
  <2>12. \A b \in 1..Len(blocks) : b \notin T => (Unplaced(Top, b) <=> Unplaced(g, b))
    BY <1>4, <1>11, <2>3
  <2>13. \A b \in 1..Len(cs) : b \in T \/ b > Len(blocks) =>
           /\ cs[b].fun = IF Unplaced(g, b) THEN Nowhere ELSE blocks[at].fun
           /\ cs[b].phi = <<>>
    BY <1>3, <1>5, <1>12, <2>1, <2>3, <2>9
  <2>14. /\ g \in Frame /\ g.kind = "match" /\ g.start = Top.start /\ g.mark = Top.mark
         /\ ~Counts(Top) /\ ~At(g, "if", {"else"})
    BY <1>4, <1>7 DEF At
  <2>15. Resumed("match", "clause") /\ Proceed(g)
    BY <1>1, <1>13
  <2> QED
    BY <1>2, <2>2, <2>4, <2>5, <2>7, <2>8, <2>10, <2>11, <2>12, <2>13, <2>14, <2>15,
       ProceedSound DEF cs
<1>14. CASE cs = Phi(fs, a, pairs) /\ at' = a /\ Return(a)
  <2>1. /\ Blocks(es) /\ Len(es) = Len(ds)
        /\ \A b \in 1..Len(ds) : b # e => es[b] = ds[b]
        /\ es[e].fun = ds[e].fun /\ es[e].phi = ds[e].phi
        /\ es[e].ends = "br" /\ es[e].succs = {e}
    <3>1. Blocks(ds) /\ e \in 1..Len(ds)
      BY <1>5, <1>9, <1>10
    <3> QED
      BY ONLY <3>1, BranchOne
  <2> HIDE DEF es
  <2>2. /\ Blocks(fs) /\ Len(fs) = Len(es)
        /\ \A b \in 1..Len(es) : b # a => fs[b] = es[b]
        /\ fs[a].fun = CurrentFun /\ fs[a].phi = es[a].phi
        /\ fs[a].ends = es[a].ends /\ fs[a].succs = es[a].succs
    <3>1. Blocks(es) /\ a \in 1..Len(es) /\ CurrentFun \in Nat
      BY <1>3, <1>5, <1>10, <2>1
    <3> QED
      BY ONLY <3>1, AttachBlocks
  <2> HIDE DEF fs, cs
  <2>3. /\ Blocks(cs) /\ Len(cs) = Len(fs)
        /\ \A b \in 1..Len(fs) : b # a => cs[b] = fs[b]
        /\ cs[a].fun = fs[a].fun /\ cs[a].phi = pairs
        /\ cs[a].ends = fs[a].ends /\ cs[a].succs = fs[a].succs
    <3>1. /\ Blocks(fs) /\ a \in 1..Len(fs) /\ pairs \in Seq([val: Nat, from: Nat])
          /\ cs = Phi(fs, a, pairs)
      BY <1>5, <1>6, <1>10, <1>14, <2>1, <2>2 DEF Pairs
    <3> QED
      BY ONLY <3>1, PhiBlocks
  <2>4. /\ Len(cs) = n
        /\ \A b \in 1..n : b \notin {at, e, a} => cs[b] = blocks[b]
        /\ cs[at].fun = CurrentFun /\ cs[at].phi = blocks[at].phi
        /\ cs[at].ends = "br" /\ cs[at].succs = {a}
        /\ cs[e].fun = CurrentFun /\ cs[e].phi = <<>> /\ cs[e].ends = "br"
        /\ cs[e].succs = {e}
        /\ cs[a].fun = CurrentFun /\ cs[a].phi = pairs /\ cs[a].ends = "open"
        /\ cs[a].succs = {}
    BY <1>3, <1>5, <1>10, <1>12, <2>1, <2>2, <2>3
  <2>5. Changed(blocks, cs, at, Top.mark, T)
    <3>1. \A b \in 1..Len(cs) : \A s \in cs[b].succs :
            \/ s \in T \/ s > Len(blocks)
            \/ (b \in 1..Len(blocks) /\ s \in blocks[b].succs)
      BY <1>3, <1>11, <2>4 DEF n
    <3>2. \A b \in 1..Len(blocks) :
            /\ b # at /\ b \notin T => Alike(cs[b], blocks[b])
            /\ blocks[b].fun # Nowhere => cs[b].fun = blocks[b].fun
            /\ blocks[b].succs \subseteq cs[b].succs
      BY <1>3, <1>11, <1>12, <2>4 DEF Alike, n
    <3>3. /\ Blocks(blocks) /\ Blocks(cs) /\ Top.mark \in 1..Len(blocks)
          /\ at \in 1..Len(blocks) /\ Len(blocks) <= Len(cs)
          /\ cs[at].fun = blocks[at].fun /\ cs[at].phi = blocks[at].phi
          /\ \A b \in T : b \in 1..Len(blocks) /\ b > Top.mark
      BY <1>3, <1>5, <1>11, <2>3, <2>4 DEF n
    <3> QED
      BY <3>1, <3>2, <3>3 DEF Changed
  <2>6. Complete(cs, a)
    <3>1. \A b \in 1..Len(cs) :
            a \in cs[b].succs <=> (b \in 1..Len(blocks) /\ a \in blocks[b].succs) \/ b = at
      BY <1>3, <1>5, <1>12, <2>4 DEF n
    <3>2. GetsEdge(blocks, cs, at, a)
      BY <1>3, <2>4, <3>1 DEF GetsEdge, n
    <3>3. PredsIn(cs, a) = PredsIn(blocks, a) \cup {at}
      BY <3>2, PredsMove
    <3> QED
      BY <1>6, <2>4, <3>3 DEF Complete
  <2>7. /\ at' \in 1..Len(cs) /\ at' > Top.mark /\ cs[at'].fun = blocks[at].fun
        /\ a \in 0..Len(cs)
    BY <1>3, <1>5, <1>14, <2>4
  <2>8. \A b \in 1..Len(blocks) : b # at /\ b \notin T => (Reserves(Top, b) <=> b = at')
    BY <1>4, <1>11, <1>14
  <2>9. \A b \in 1..Len(cs) : b \in T \/ b > Len(blocks) => b = a \/ b = e
    BY <1>3, <1>11, <2>4 DEF n
  <2>10. \A b \in 1..Len(cs) : b = at \/ b \in T \/ b > Len(blocks) =>
           /\ cs[b].ends = "open" <=> b = at'
           /\ cs[b].ends = "open" => cs[b].succs = {}
    BY <1>5, <1>14, <2>4, <2>9
  <2>11. \A b \in 1..Len(cs) : b \in T \/ b > Len(blocks) =>
           /\ cs[b].fun = blocks[at].fun
           /\ cs[b].phi = <<>> \/ Complete(cs, b)
    BY <1>3, <2>4, <2>6, <2>9
  <2>12. \A b \in 1..Len(blocks) : Unplaced(Top, b) => b \in T
    BY <1>4, <1>11
  <2>13. Resumed("match", "clause") /\ Return(a)
    BY <1>1, <1>14
  <2> QED
    BY <1>2, <1>4, <2>5, <2>7, <2>8, <2>10, <2>11, <2>12, <2>13, ReturnSound DEF cs
<1> QED
  BY <1>1, <1>13, <1>14

-----------------------------------------------------------------------------
(* The end of main(), the first state, and the theorems. *)

\* When main() returns, no call is left, and every block has a terminator.
LEMMA MainEnds ==
  ASSUME NEW bs, NEW cs, NEW st, NEW p, NEW k, NEW f,
         OnTop(bs, st, p, k, f), f.kind = "main", cs = Ret(bs, p)
  PROVE  /\ Blocks(cs) /\ Len(cs) = Len(bs) /\ SubSeq(st, 1, k) = <<>>
         /\ Shape(cs, <<>>, p)
         /\ PhisDone(bs, st) => PhisDone(cs, <<>>)
         /\ ElseStays(<<>>, p)
<1>1. /\ Blocks(bs) /\ p \in 1..Len(bs) /\ st \in Seq(Frame) /\ Len(st) = k + 1
      /\ k \in Nat /\ f = st[k + 1]
      /\ OpenOnly(bs, st, p) /\ Attached(bs, st) /\ Edges(bs, st)
  BY DEF OnTop, Shape
<1>2. k = 0 /\ bs[p].ends = "open" /\ bs[p].succs = {}
  BY TopFrame
<1>3. /\ Blocks(cs) /\ Len(cs) = Len(bs)
      /\ \A b \in 1..Len(bs) : b # p => cs[b] = bs[b]
      /\ cs[p].fun = bs[p].fun /\ cs[p].phi = bs[p].phi
      /\ cs[p].ends = "ret" /\ cs[p].succs = bs[p].succs
  <2>1. cs = Ret(bs, p)
    OBVIOUS
  <2> QED
    BY ONLY <1>1, <2>1, RetBlocks
<1>4. SubSeq(st, 1, k) = <<>>
  BY <1>1, <1>2
<1>5. /\ \A i \in 1..Len(st) : st[i] = f
      /\ \A b : ~Reserves(f, b) /\ ~Unplaced(f, b)
      /\ ~Counts(f) /\ st # <<>>
  <2>1. \A i \in 1..Len(st) : i = k + 1
    BY <1>1, <1>2
  <2>2. \A b : ~Reserves(f, b) /\ ~Unplaced(f, b)
    BY DEF Reserves, Unplaced, HasNext, HasAfter, At
  <2>3. ~Counts(f)
    BY DEF Counts, At
  <2> QED
    BY <1>1, <2>1, <2>2, <2>3
<1> DEFINE none == <<>>
<1>6. Len(none) = 0 /\ \A i \in 1..Len(none) : FALSE
  OBVIOUS
<1>7. none = <<>>
  OBVIOUS
<1>8. /\ \A b \in 1..Len(bs) : cs[b].fun = bs[b].fun /\ cs[b].succs = bs[b].succs
                               /\ cs[b].phi = bs[b].phi
      /\ \A b \in 1..Len(bs) : cs[b].ends # "open"
  BY <1>1, <1>3, <1>5 DEF OpenOnly
<1> HIDE DEF none
<1>9. Stacked(cs, none, p) /\ SameFun(cs, none, p)
  BY <1>6 DEF Stacked, SameFun
<1>10. OpenOnly(cs, none, p)
  BY <1>3, <1>7, <1>8 DEF OpenOnly
<1>11. Attached(cs, none)
  <2>1. \A b : ~SomeUnplaced(st, Len(st), b)
    BY <1>5 DEF SomeUnplaced
  <2>2. \A b : ~SomeUnplaced(none, Len(none), b)
    BY <1>6 DEF SomeUnplaced
  <2>3. \A b \in 1..Len(bs) : bs[b].fun \in 1..b /\ bs[bs[b].fun].fun = bs[b].fun
    BY <1>1, <2>1 DEF Attached
  <2>4. \A b \in 1..Len(bs) : \A c \in 1..b : c \in 1..Len(bs)
    OBVIOUS
  <2>5. \A b \in 1..Len(bs) : cs[b].fun \in 1..b /\ cs[cs[b].fun].fun = cs[b].fun
    BY <1>8, <2>3, <2>4
  <2> QED
    BY <1>3, <2>2, <2>5 DEF Attached
<1>12. Edges(cs, none)
  <2>1. \A b \in 1..Len(bs) : \A s \in bs[b].succs :
          s # bs[s].fun /\ bs[s].fun = bs[b].fun /\ s \in 1..Len(bs)
    BY <1>1, <1>5 DEF Edges, Blocks
  <2>2. \A b \in 1..Len(cs) : \A s \in cs[b].succs :
          s # cs[s].fun /\ cs[s].fun = cs[b].fun
    BY <1>3, <1>8, <2>1
  <2> QED
    BY <2>2 DEF Edges
<1>13. PhisDone(bs, st) => PhisDone(cs, none)
  <2>1. \A b \in 1..Len(bs) : PredsIn(cs, b) = PredsIn(bs, b)
    BY <1>3, <1>8 DEF PredsIn
  <2> QED
    BY <1>3, <1>5, <1>8, <2>1 DEF PhisDone, Complete
<1>14. ElseStays(none, p)
  BY <1>6 DEF ElseStays
<1> QED
  BY <1>3, <1>4, <1>7, <1>9, <1>10, <1>11, <1>12, <1>13, <1>14 DEF Shape

\* The end of main closes the last block.
LEMMA MainEndSound ==
  ASSUME Inductive, MainEnd
  PROVE  Inductive'
<1> DEFINE k == Len(stack) - 1
           cs == blocks'
           none == <<>>
<1>1. /\ OnTop(blocks, stack, at, k, Top) /\ Top.kind = "main"
      /\ at \in 1..Len(blocks)
  BY Resumes DEF MainEnd, Inductive, Sound
<1>2. cs = Ret(blocks, at) /\ stack' = SubSeq(stack, 1, k) /\ at' = at /\ value' = Const
  BY DEF MainEnd, Ret, Return, Below
<1> HIDE DEF k, cs
<1>3. /\ Blocks(cs) /\ Len(cs) = Len(blocks) /\ SubSeq(stack, 1, k) = <<>>
      /\ Shape(cs, <<>>, at)
      /\ PhisDone(blocks, stack) => PhisDone(cs, <<>>)
      /\ ElseStays(<<>>, at)
  BY ONLY <1>1, <1>2, MainEnds
<1>4. stack' = none
  BY <1>2, <1>3
<1>5. none \in Seq(Frame)
  OBVIOUS
<1> QED
  BY <1>1, <1>2, <1>3, <1>4, <1>5 DEF Inductive, Sound, cs

\* It holds when main() starts.
LEMMA InitSound == Init => Inductive
<1> SUFFICES ASSUME Init PROVE Inductive
  OBVIOUS
<1>1. /\ Len(blocks) = 1 /\ blocks[1] = Fresh(1) /\ blocks \in Seq(Block)
      /\ Fresh(1).fun = 1 /\ Fresh(1).ends = "open" /\ Fresh(1).succs = {}
      /\ Fresh(1).operands = {} /\ Fresh(1).phi = <<>>
  <2>1. <<>> \in Seq([val: Nat, from: Nat])
    OBVIOUS
  <2>2. Fresh(1) \in Block
    BY <2>1 DEF Fresh, Block
  <2> QED
    BY <2>2 DEF Init, Fresh
<1> DEFINE f == stack[1]
<1>2. /\ Len(stack) = 1 /\ stack \in Seq(Frame) /\ stack # <<>>
      /\ f.kind = "main" /\ f.step = "body" /\ f.start = 1 /\ f.mark = 1
      /\ f.next = 0 /\ f.after = 0 /\ f.held = 0
  <2>1. <<>> \in Seq([val: Nat, from: Nat]) /\ "main" \in Kinds /\ "body" \in Steps
    BY DEF Kinds, Steps
  <2> QED
    BY <2>1 DEF Init, Frame, Nowhere, Const
<1>3. at = 1 /\ value = Awaited
  BY DEF Init
<1>4. /\ \A b \in 1..Len(blocks) : b = 1 /\ blocks[b] = Fresh(1)
      /\ \A i \in 1..Len(stack) : i = 1
  BY <1>1, <1>2
<1> HIDE DEF f
<1>5. /\ ~HasNext(f) /\ ~HasAfter(f) /\ ~HasHeader(f) /\ ~Counts(f)
      /\ \A b : ~Reserves(f, b) /\ ~Unplaced(f, b)
  BY <1>2 DEF HasNext, HasAfter, HasHeader, Counts, Reserves, Unplaced, At
<1>6. Blocks(blocks)
  BY <1>1, <1>4 DEF Blocks
<1>7. FrameInv(blocks, f) /\ Here(f, at)
  <2>1. Framed(blocks, f)
    BY <1>1, <1>2, <1>5 DEF Framed
  <2>2. Placed(blocks, f)
    BY <1>5 DEF Placed
  <2>3. Region(blocks, f)
    BY <1>1, <1>4 DEF Region
  <2>4. PhiFacts(blocks, f)
    BY <1>2, <1>5 DEF PhiFacts, At
  <2> QED
    BY <1>2, <1>3, <1>5, <2>1, <2>2, <2>3, <2>4 DEF FrameInv, Here
<1>8. Stacked(blocks, stack, at)
  <2>1. \A i, j \in 1..Len(stack) : ~(i < j)
    BY <1>2
  <2> QED
    BY <1>2, <1>4, <1>7, <2>1 DEF Stacked, f
<1>9. SameFun(blocks, stack, at)
  <2>1. \A i, j \in 1..Len(stack) : ~(i < j)
    BY <1>2
  <2>2. blocks[at].fun = blocks[stack[1].start].fun
    BY <1>2, <1>3 DEF f
  <2> QED
    BY <1>4, <2>1, <2>2 DEF SameFun
<1>10. OpenOnly(blocks, stack, at)
  BY <1>1, <1>2, <1>3, <1>4 DEF OpenOnly
<1>11. Attached(blocks, stack)
  <2>1. \A b : ~SomeUnplaced(stack, Len(stack), b)
    BY <1>4, <1>5 DEF SomeUnplaced, f
  <2>2. \A b \in 1..Len(blocks) :
          blocks[b].fun \in 1..b /\ blocks[blocks[b].fun].fun = blocks[b].fun
    BY <1>1, <1>4
  <2> QED
    BY <2>1, <2>2 DEF Attached
<1>12. Edges(blocks, stack)
  BY <1>1, <1>4 DEF Edges
<1>13. PhisDone(blocks, stack)
  BY <1>1, <1>4 DEF PhisDone
<1>14. ElseStays(stack, at)
  <2>1. ~At(f, "if", {"else"})
    BY <1>2 DEF At
  <2> QED
    BY <1>4, <2>1 DEF ElseStays, f
<1> QED
  BY <1>1, <1>2, <1>3, <1>6, <1>8, <1>9, <1>10, <1>11, <1>12, <1>13, <1>14
     DEF Inductive, Sound, Shape

\* Every action keeps it.
LEMMA NextSound == Inductive /\ [Next]_vars => Inductive'
<1> SUFFICES ASSUME Inductive, [Next]_vars PROVE Inductive'
  OBVIOUS
<1>1. CASE Next
  BY <1>1, ValueSound, StartsSound, OperandSound, LastSound, FunStartSound, FunBodySound,
     IfCondSound, IfThenElseSound, IfThenEndSound, IfElseSound,
     MatchExprSound, MatchPatternSound, MatchClauseSound,
     ForFromSound, ForToSound, ForBodySound,
     WhileStartSound, WhileCondSound, WhileBodySound, MainEndSound DEF Next
<1>2. CASE UNCHANGED vars
  BY <1>2 DEF vars, Inductive
<1> QED
  BY <1>1, <1>2

\* The invariant of the whole generator.
THEOREM AlwaysInductive == Spec => []Inductive
  BY InitSound, NextSound, PTL DEF Spec

\* The operations of LLVMValueStore keep scopes of values.
LEMMA NextTabled == Inductive /\ Tabled /\ [Next]_vars => Tabled'
<1> SUFFICES ASSUME Inductive, Tabled, [Next]_vars PROVE Tabled'
  OBVIOUS
<1>1. CASE UNCHANGED names \/ UNCHANGED vars
  BY <1>1 DEF names, vars, Tabled
<1>2. CASE Local
  BY <1>2 DEF Local, Found, Tabled
<1>3. ASSUME NEW v \in Nat, Name(v) PROVE Tabled'
  <2>1. PICK i, vs : /\ i \in DOMAIN table /\ vs \subseteq table[i] \cup ({v} \ {Const})
                     /\ table' = [table EXCEPT ![i] = vs] /\ strays' = strays
    BY <1>3 DEF Name
  <2> DEFINE n == Len(table)
  <2>2. table \in [1..n -> SUBSET Nat] /\ i \in 1..n /\ n \in Nat /\ strays' \subseteq Nat
    BY <2>1 DEF Tabled
  <2>3. vs \in SUBSET Nat
    BY <2>1, <2>2
  <2>4. table' \in [1..n -> SUBSET Nat]
    BY <2>1, <2>2, <2>3
  <2> QED
    BY <2>2, <2>4 DEF Tabled
<1>4. ASSUME NEW vs \in SUBSET Nat, OpenScope(vs) PROVE Tabled'
  BY <1>4 DEF OpenScope, Tabled
<1>5. CASE CloseScope
  BY <1>5 DEF CloseScope, Tabled
<1>6. CASE LetDef \/ LetMutable \/ FunStart \/ ForFrom
  <2>1. /\ Len(blocks) \in Nat /\ blocks[at] \in Block
        /\ value \in Nat \cup {Awaited}
    BY DEF Inductive, Sound, Blocks, Const
  <2>2. CurrentFun \in Nat
    BY <2>1 DEF CurrentFun, Block
  <2> QED
    BY <1>3, <1>4, <1>6, <2>1, <2>2 DEF LetDef, LetMutable, FunStart, ForFrom, Resumed
<1> QED
  BY <1>1, <1>2, <1>5, <1>6 DEF Next, Constant, Instruction, TwoStart, TwoLeft,
     TwoRight, LetStart, LetBody, FunBody, IfStart, IfCond, IfThen, IfElse, IfEnd,
     MatchStart, MatchExpr, MatchPattern, MatchClause, ForStart, ForTo, ForBody,
     WhileStart, WhileCond, WhileBody, MainEnd

\* Blocks, frames and scopes are what they are meant to be.
THEOREM TypeCorrect == Spec => []TypeOK
<1>1. Init => Tabled
  BY DEF Init, Tabled
<1>2. Inductive /\ Tabled => TypeOK
  BY DEF Inductive, Sound, Blocks, TypeOK, Ids, Tabled
<1> QED
  BY <1>1, <1>2, NextTabled, AlwaysInductive, PTL DEF Spec

\* Code is only added to an open block of the function, and the code of every
\* expression has one entry and one exit.
THEOREM RegionsAlwaysNested == Spec => []RegionsNested
<1>1. ASSUME Inductive PROVE InsertPointOpen
  <2> SUFFICES ASSUME ~Done PROVE blocks[at].ends = "open" /\ CurrentFun # Nowhere
    BY DEF InsertPointOpen
  <2>1. OnTop(blocks, stack, at, Len(stack) - 1, Top)
    BY <1>1, Awaits DEF Done
  <2>2. blocks[at].ends = "open" /\ blocks[at].fun \in 1..at
    BY <2>1, TopFrame
  <2> QED
    BY <2>2 DEF CurrentFun, Nowhere
<1>2. ASSUME Inductive, NEW i \in Current
      PROVE  LET Created == {b \in Ids : b > stack[i].mark} IN
               /\ at \in Created \cup {stack[i].start}
               /\ stack[i].kind # "fun" => CurrentFun = blocks[stack[i].start].fun
               /\ \A b \in Created :
                    /\ blocks[b].succs \subseteq Created
                    /\ Preds(b) \subseteq Created \cup {stack[i].start}
  <2> DEFINE Created == {b \in Ids : b > stack[i].mark}
  <2>1. /\ i \in 1..Len(stack) /\ Len(stack) \in Nat
        /\ \A j \in i + 1..Len(stack) : stack[j].kind # "fun"
    BY <1>2 DEF Current, Inductive, Sound
  <2>2. /\ Blocks(blocks) /\ at \in Ids
        /\ FrameInv(blocks, stack[i]) /\ Here(stack[i], at)
        /\ NoFun(stack, i, Len(stack)) => blocks[at].fun = blocks[stack[i].start].fun
    BY <1>2, <2>1 DEF Inductive, Sound, Shape, Stacked, SameFun, Ids
  <2>3. at \in Created \cup {stack[i].start}
    BY <2>2 DEF Here
  <2>4. ASSUME stack[i].kind # "fun" PROVE CurrentFun = blocks[stack[i].start].fun
    <3>1. \A j \in i..Len(stack) : j = i \/ j \in i + 1..Len(stack)
      BY <2>1
    <3> QED
      BY <2>1, <2>2, <2>4, <3>1 DEF NoFun, CurrentFun
  <2>5. ASSUME NEW b \in Created
        PROVE  /\ blocks[b].succs \subseteq Created
               /\ Preds(b) \subseteq Created \cup {stack[i].start}
    <3>1. \A s \in blocks[b].succs : s \in Ids
      BY <2>2 DEF Blocks, Ids
    <3> QED
      BY <2>2, <3>1 DEF FrameInv, Region, Preds, Ids
  <2> QED
    BY <2>3, <2>4, <2>5
<1>3. Inductive => RegionsNested
  BY <1>1, <1>2 DEF RegionsNested
<1> QED
  BY <1>3, AlwaysInductive, PTL

\* The finished module has no open block, no block without a function, and no
\* branch into another function or to an entry block.
THEOREM BlocksAlwaysClosed == Spec => []BlocksClosed
<1>1. ASSUME Inductive, Done, NEW b \in Ids
      PROVE  /\ blocks[b].fun \in Ids /\ blocks[b].ends # "open"
             /\ \A s \in blocks[b].succs :
                  blocks[s].fun = blocks[b].fun /\ s # blocks[s].fun
  <2>1. /\ OpenOnly(blocks, stack, at) /\ Attached(blocks, stack)
        /\ Edges(blocks, stack) /\ b \in 1..Len(blocks)
    BY <1>1 DEF Inductive, Sound, Shape, Ids
  <2>2. stack = <<>> /\ \A i \in 1..Len(stack) : FALSE
    BY <1>1 DEF Done
  <2>3. blocks[b].ends # "open"
    BY <2>1, <2>2 DEF OpenOnly
  <2>4. blocks[b].fun \in Ids
    <3>1. ~SomeUnplaced(stack, Len(stack), b)
      BY <2>2 DEF SomeUnplaced
    <3> QED
      BY <2>1, <3>1 DEF Attached, Ids
  <2>5. \A s \in blocks[b].succs : blocks[s].fun = blocks[b].fun /\ s # blocks[s].fun
    BY <2>1, <2>2 DEF Edges
  <2> QED
    BY <2>3, <2>4, <2>5
<1>2. Inductive => BlocksClosed
  BY <1>1 DEF BlocksClosed
<1> QED
  BY <1>2, AlwaysInductive, PTL

\* As many blocks as pairs, when none comes twice.
LEMMA CountFroms ==
  ASSUME NEW phi \in Seq([val: Nat, from: Nat]), Distinct(phi)
  PROVE  Cardinality(Froms(phi)) = Len(phi)
<1> DEFINE n == Len(phi)
           S == Froms(phi)
           F == [k \in 1..n |-> phi[k].from]
<1>1. n \in Nat
  OBVIOUS
<1>2. F \in [1..n -> S]
  BY DEF Froms
<1>3. \A k, l \in 1..n : F[k] = F[l] => k = l
  BY DEF Distinct
<1>4. \A b \in S : \E k \in 1..n : F[k] = b
  BY DEF Froms
<1> HIDE DEF F, n, S
<1>5. F \in Bijection(1..n, S)
  <2>1. DOMAIN F = 1..n
    BY <1>2
  <2>2. F \in Injection(1..n, S)
    BY <1>2, <1>3, <2>1 DEF Injection, IsInjective
  <2>3. F \in Surjection(1..n, S)
    BY <1>2, <1>4 DEF Surjection
  <2> QED
    BY <2>2, <2>3 DEF Bijection
<1>6. ExistsBijection(1..n, S)
  BY <1>5 DEF ExistsBijection
<1> QED
  BY <1>1, <1>6, FS_CountingElements DEF n, S

\* Where no else part branches, every PHI of the finished module has one value
\* for every predecessor of its block, and no other.
THEOREM PhisAlwaysMatch ==
  ASSUME ~ElseBranches
  PROVE  Spec => []PhisMatchPredecessors
<1>1. ASSUME Inductive, Done, NEW b \in Ids, blocks[b].phi # <<>>
      PROVE  /\ {blocks[b].phi[i].from : i \in DOMAIN blocks[b].phi} = Preds(b)
             /\ Len(blocks[b].phi) = Cardinality(Preds(b))
  <2> DEFINE phi == blocks[b].phi
  <2>1. PhisDone(blocks, stack) /\ b \in 1..Len(blocks) /\ Blocks(blocks)
    BY <1>1 DEF Inductive, Sound, Ids
  <2>2. \A i \in 1..Len(stack) : FALSE
    BY <1>1 DEF Done
  <2>3. Complete(blocks, b)
    BY <1>1, <2>1, <2>2 DEF PhisDone
  <2>4. Preds(b) = PredsIn(blocks, b)
    BY DEF Preds, PredsIn, Ids
  <2>5. phi \in Seq([val: Nat, from: Nat])
    <3>1. blocks \in Seq(Block)
      BY <2>1 DEF Blocks
    <3>2. blocks[b] \in Block
      BY <2>1, <3>1
    <3> QED
      BY <3>2 DEF Block
  <2>6. Froms(phi) = Preds(b) /\ Distinct(phi)
    BY <2>3, <2>4 DEF Complete
  <2>7. DOMAIN phi = 1..Len(phi)
    BY <2>5
  <2> HIDE DEF phi
  <2>8. Len(phi) = Cardinality(Preds(b))
    BY <2>5, <2>6, CountFroms
  <2>9. {phi[i].from : i \in DOMAIN phi} = Preds(b)
    BY <2>6, <2>7 DEF Froms
  <2> QED
    BY <2>8, <2>9 DEF phi
<1>2. Inductive => PhisMatchPredecessors
  BY <1>1 DEF PhisMatchPredecessors
<1> QED
  BY <1>2, AlwaysInductive, PTL

-----------------------------------------------------------------------------
(* What the operations on blocks keep. *)

\* Only block b is another, and it still fits.
LEMMA OneChanged ==
  ASSUME NEW dom, NEW bs, NEW cs, NEW b \in 1..Len(bs), Solves(dom, bs), Blocks(cs),
         SameFuns(bs, cs), \A c \in 1..Len(bs) : c # b => cs[c] = bs[c],
         \A s \in cs[b].succs : dom[s] \ {s} \subseteq dom[b],
         cs[b].operands \ Free \subseteq dom[b],
         \A k \in 1..Len(cs[b].phi) : Given(dom, cs[b].phi[k])
  PROVE  Solves(dom, cs)
<1>1. ASSUME NEW c \in 1..Len(cs) PROVE Fits(dom, cs, c)
  <2>1. Fits(dom, bs, c) /\ c \in 1..Len(bs) /\ dom[c] \subseteq 1..Len(bs)
    BY DEF Solves, SameFuns
  <2>2. \A d \in 1..Len(bs) : cs[d].fun = bs[d].fun
    BY DEF SameFuns
  <2>3. CASE c = b
    BY <2>1, <2>2, <2>3 DEF Fits
  <2>4. CASE c # b
    <3>1. cs[c] = bs[c]
      BY <2>1, <2>4
    <3> QED
      BY <2>1, <2>2, <3>1 DEF Fits
  <2> QED
    BY <2>3, <2>4
<1> QED
  BY <1>1 DEF Solves, SameFuns

\* An instruction may use what is available in its block.
LEMMA UseSolves ==
  ASSUME NEW dom, NEW bs, Solves(dom, bs), NEW b \in 1..Len(bs),
         NEW vs \in SUBSET (0..Len(bs)), \A v \in vs : v \in Free \/ v \in dom[b]
  PROVE  Solves(dom, Use(bs, b, vs)) /\ SameFuns(bs, Use(bs, b, vs))
<1> DEFINE cs == Use(bs, b, vs)
<1>1. Blocks(bs) /\ Fits(dom, bs, b) /\ dom[b] \subseteq 1..Len(bs)
  BY DEF Solves
<1>3. /\ Blocks(cs) /\ Len(cs) = Len(bs)
      /\ \A c \in 1..Len(bs) : Alike(cs[c], bs[c])
  BY <1>1, UseBlocks
<1>4. /\ \A c \in 1..Len(bs) : c # b => cs[c] = bs[c]
      /\ cs[b].operands = bs[b].operands \cup (vs \ {Const})
  <2>1. bs \in Seq(Block) /\ bs[b] \in Block
    BY <1>1 DEF Blocks
  <2>2. cs = [bs EXCEPT ![b].operands = @ \cup (vs \ {Const})]
    BY DEF Use
  <2> QED
    BY <2>1, <2>2 DEF Block
<1> HIDE DEF cs
<1>5. SameFuns(bs, cs) /\ cs[b].succs = bs[b].succs /\ cs[b].phi = bs[b].phi
  BY <1>3 DEF SameFuns, Alike
<1>6. cs[b].operands \ Free \subseteq dom[b]
  BY <1>1, <1>4 DEF Fits, Free
<1>7. /\ \A s \in cs[b].succs : dom[s] \ {s} \subseteq dom[b]
      /\ \A k \in 1..Len(cs[b].phi) : Given(dom, cs[b].phi[k])
  BY <1>1, <1>5 DEF Fits
<1>8. Solves(dom, cs)
  BY <1>3, <1>4, <1>5, <1>6, <1>7, OneChanged
<1> QED
  BY <1>5, <1>8 DEF cs

\* A branch goes to blocks with nothing more available, but for themselves.
LEMMA BranchSolves ==
  ASSUME NEW dom, NEW bs, Solves(dom, bs), NEW b \in 1..Len(bs),
         NEW to \in SUBSET (1..Len(bs)), \A s \in to : dom[s] \ {s} \subseteq dom[b]
  PROVE  Solves(dom, Branch(bs, b, to)) /\ SameFuns(bs, Branch(bs, b, to))
<1> DEFINE cs == Branch(bs, b, to)
<1>1. Blocks(bs) /\ Fits(dom, bs, b)
  BY DEF Solves
<1>2. /\ Blocks(cs) /\ Len(cs) = Len(bs)
      /\ \A c \in 1..Len(bs) : c # b => cs[c] = bs[c]
      /\ cs[b].fun = bs[b].fun /\ cs[b].phi = bs[b].phi /\ cs[b].succs = to
  BY <1>1, BranchBlocks
<1>3. cs[b].operands = bs[b].operands
  <2>1. bs \in Seq(Block) /\ bs[b] \in Block
    BY <1>1 DEF Blocks
  <2>2. cs = [bs EXCEPT ![b].ends = "br", ![b].succs = to]
    BY DEF Branch
  <2> QED
    BY <2>1, <2>2 DEF Block
<1> HIDE DEF cs
<1>4. SameFuns(bs, cs)
  BY <1>2 DEF SameFuns
<1>5. Solves(dom, cs)
  <2>1. /\ cs[b].operands \ Free \subseteq dom[b]
        /\ \A k \in 1..Len(cs[b].phi) : Given(dom, cs[b].phi[k])
        /\ \A s \in cs[b].succs : dom[s] \ {s} \subseteq dom[b]
    BY <1>1, <1>2, <1>3 DEF Fits
  <2> QED
    BY <1>2, <1>4, <2>1, OneChanged
<1> QED
  BY <1>4, <1>5 DEF cs

\* A PHI may use what is available at the ends of the blocks before it.
LEMMA PhiSolves ==
  ASSUME NEW dom, NEW bs, Solves(dom, bs), NEW b \in 1..Len(bs),
         NEW phi \in Seq([val: Nat, from: Nat]),
         \A k \in 1..Len(phi) : Given(dom, phi[k])
  PROVE  Solves(dom, Phi(bs, b, phi)) /\ SameFuns(bs, Phi(bs, b, phi))
<1> DEFINE cs == Phi(bs, b, phi)
<1>1. Blocks(bs) /\ Fits(dom, bs, b)
  BY DEF Solves
<1>2. /\ Blocks(cs) /\ Len(cs) = Len(bs)
      /\ \A c \in 1..Len(bs) : c # b => cs[c] = bs[c]
      /\ cs[b].fun = bs[b].fun /\ cs[b].phi = phi /\ cs[b].succs = bs[b].succs
  BY <1>1, PhiBlocks
<1>3. cs[b].operands = bs[b].operands
  <2>1. bs \in Seq(Block) /\ bs[b] \in Block
    BY <1>1 DEF Blocks
  <2>2. cs = [bs EXCEPT ![b].phi = phi]
    BY DEF Phi
  <2> QED
    BY <2>1, <2>2 DEF Block
<1> HIDE DEF cs
<1>4. SameFuns(bs, cs)
  BY <1>2 DEF SameFuns
<1>5. Solves(dom, cs)
  <2>1. /\ cs[b].operands \ Free \subseteq dom[b]
        /\ \A k \in 1..Len(cs[b].phi) : Given(dom, cs[b].phi[k])
        /\ \A s \in cs[b].succs : dom[s] \ {s} \subseteq dom[b]
    BY <1>1, <1>2, <1>3 DEF Fits
  <2> QED
    BY <1>2, <1>4, <2>1, OneChanged
<1> QED
  BY <1>4, <1>5 DEF cs

\* The end of a function changes nothing that matters here.
LEMMA RetSolves ==
  ASSUME NEW dom, NEW bs, Solves(dom, bs), NEW b \in 1..Len(bs)
  PROVE  Solves(dom, Ret(bs, b)) /\ SameFuns(bs, Ret(bs, b))
<1> DEFINE cs == Ret(bs, b)
<1>1. Blocks(bs) /\ Fits(dom, bs, b)
  BY DEF Solves
<1>2. /\ Blocks(cs) /\ Len(cs) = Len(bs)
      /\ \A c \in 1..Len(bs) : c # b => cs[c] = bs[c]
      /\ cs[b].fun = bs[b].fun /\ cs[b].phi = bs[b].phi
      /\ cs[b].succs = bs[b].succs
  BY <1>1, RetBlocks
<1>3. cs[b].operands = bs[b].operands
  <2>1. bs \in Seq(Block) /\ bs[b] \in Block
    BY <1>1 DEF Blocks
  <2>2. cs = [bs EXCEPT ![b].ends = "ret"]
    BY DEF Ret
  <2> QED
    BY <2>1, <2>2 DEF Block
<1> HIDE DEF cs
<1>4. SameFuns(bs, cs)
  BY <1>2 DEF SameFuns
<1>5. Solves(dom, cs)
  <2>1. /\ cs[b].operands \ Free \subseteq dom[b]
        /\ \A k \in 1..Len(cs[b].phi) : Given(dom, cs[b].phi[k])
        /\ \A s \in cs[b].succs : dom[s] \ {s} \subseteq dom[b]
    BY <1>1, <1>2, <1>3 DEF Fits
  <2> QED
    BY <1>2, <1>4, <2>1, OneChanged
<1> QED
  BY <1>4, <1>5 DEF cs

\* A block can be placed in the function of all that is available in it.
LEMMA AttachSolves ==
  ASSUME NEW dom, NEW bs, Solves(dom, bs), NEW b \in 1..Len(bs), NEW F \in Nat,
         bs[b].fun = Nowhere, F # Nowhere, F # b, F \in dom[b],
         \A d \in dom[b] \ {b} : bs[d].fun = F
  PROVE  Solves(dom, Attach(bs, b, F)) /\ Places(bs, Attach(bs, b, F), b, F)
<1> DEFINE cs == Attach(bs, b, F)
<1>1. Blocks(bs) /\ \A c \in 1..Len(bs) : Fits(dom, bs, c) /\ dom[c] \subseteq 1..Len(bs)
  BY DEF Solves
<1>2. /\ Blocks(cs) /\ Len(cs) = Len(bs)
      /\ \A c \in 1..Len(bs) : c # b => cs[c] = bs[c]
      /\ cs[b].fun = F /\ cs[b].phi = bs[b].phi /\ cs[b].succs = bs[b].succs
  BY <1>1, AttachBlocks
<1>3. cs[b].operands = bs[b].operands
  <2>1. bs \in Seq(Block) /\ bs[b] \in Block
    BY <1>1 DEF Blocks
  <2>2. cs = [bs EXCEPT ![b].fun = F]
    BY DEF Attach
  <2> QED
    BY <2>1, <2>2 DEF Block
<1> HIDE DEF cs
<1>4. ASSUME NEW c \in 1..Len(cs) PROVE Fits(dom, cs, c)
  <2>1. c \in 1..Len(bs) /\ Fits(dom, bs, c) /\ dom[c] \subseteq 1..Len(bs)
    BY <1>1, <1>2
  <2>2. CASE c = b
    <3>1. \A d \in dom[b] \ {b} : cs[d].fun = F
      BY <1>2, <2>1, <2>2
    <3> QED
      BY <1>2, <1>3, <2>1, <2>2, <3>1 DEF Fits
  <2>3. CASE c # b
    <3>1. cs[c] = bs[c] /\ b \notin dom[c]
      BY <1>2, <2>1, <2>3 DEF Fits
    <3>2. \A d \in dom[c] : cs[d].fun = bs[d].fun
      BY <1>2, <2>1, <3>1
    <3> QED
      BY <2>1, <3>1, <3>2 DEF Fits
  <2> QED
    BY <2>2, <2>3
<1>5. Solves(dom, cs)
  BY <1>2, <1>4 DEF Solves
<1> QED
  BY <1>2, <1>5 DEF Places, cs

\* New blocks, and what is available in them.
LEMMA FreshSolves ==
  ASSUME NEW dom, NEW bs, Solves(dom, bs), NEW fs, AllFresh(fs),
         NEW dm, NEW X, dm \in [1..Len(Joined(bs, fs)) -> X],
         \A b \in 1..Len(bs) : dm[b] = dom[b],
         \A b \in 1..Len(Joined(bs, fs)) :
           b > Len(bs) => Begun(dm, Joined(bs, fs), b)
  PROVE  Solves(dm, Joined(bs, fs)) /\ Later(dom, bs, dm, Joined(bs, fs))
<1> DEFINE cs == Joined(bs, fs)
<1>1. Blocks(bs) /\ dom \in [1..Len(bs) -> SUBSET (1..Len(bs))]
      /\ \A c \in 1..Len(bs) : Fits(dom, bs, c) /\ dom[c] \subseteq 1..Len(bs)
  BY DEF Solves
<1>2. /\ Blocks(cs) /\ Len(cs) = Len(bs) + Len(fs) /\ Len(bs) \in Nat
      /\ \A c \in 1..Len(bs) : cs[c] = bs[c]
      /\ \A c \in 1..Len(cs) : c > Len(bs) =>
           cs[c].succs = {} /\ cs[c].phi = <<>> /\ cs[c].operands = {}
  <2>0. AllFresh(fs) /\ cs = Joined(bs, fs)
    OBVIOUS
  <2> HIDE DEF cs
  <2>1. Grows(bs, fs, cs)
    BY <1>1, <2>0, FreshBlocks
  <2> QED
    BY <2>1 DEF Grows
<1>3. Len(fs) \in Nat /\ Len(bs) <= Len(cs) /\ Len(cs) \in Nat
  BY <1>2 DEF AllFresh
<1> HIDE DEF cs
<1>d. /\ DOMAIN dm = 1..Len(cs) /\ dm \in [1..Len(cs) -> X]
      /\ \A b \in 1..Len(cs) : b > Len(bs) => Begun(dm, cs, b)
  BY DEF cs
<1>4. dm \in [1..Len(cs) -> SUBSET (1..Len(cs))]
  <2>1. \A b \in 1..Len(cs) : dm[b] \subseteq 1..Len(cs)
    <3> SUFFICES ASSUME NEW b \in 1..Len(cs) PROVE dm[b] \subseteq 1..Len(cs)
      OBVIOUS
    <3>1. CASE b \in 1..Len(bs)
      <4>1. dm[b] = dom[b] /\ dom[b] \subseteq 1..Len(bs)
        BY <1>1, <3>1
      <4> QED
        BY <1>2, <1>3, <4>1
    <3>2. CASE b > Len(bs)
      BY <1>d, <3>2 DEF Begun
    <3> QED
      BY <1>2, <3>1, <3>2
  <2> QED
    BY <1>1, <1>d, <2>1
<1>5. ASSUME NEW c \in 1..Len(cs) PROVE Fits(dm, cs, c)
  <2>1. CASE c \in 1..Len(bs)
    <3>1. /\ Fits(dom, bs, c) /\ dm[c] = dom[c] /\ cs[c] = bs[c]
          /\ dom[c] \subseteq 1..Len(bs)
      BY <1>1, <1>2, <2>1
    <3>2. \A s \in bs[c].succs : s \in 1..Len(bs) /\ dm[s] = dom[s]
      BY <1>1, <2>1 DEF Blocks
    <3>3. \A d \in dom[c] : cs[d] = bs[d]
      BY <1>2, <3>1
    <3>4. \A k \in 1..Len(bs[c].phi) : Given(dm, bs[c].phi[k])
      <4>1. \A k \in 1..Len(bs[c].phi) : Given(dom, bs[c].phi[k])
        BY <3>1 DEF Fits
      <4> QED
        BY <1>1, <1>2, <1>3, <1>d, <4>1, SMTT(40) DEF Given
    <3> QED
      BY <3>1, <3>2, <3>3, <3>4 DEF Fits
  <2>2. CASE c > Len(bs)
    BY <1>2, <1>d, <2>2 DEF Begun, Fits
  <2> QED
    BY <1>2, <2>1, <2>2
<1>6. Solves(dm, cs)
  BY <1>2, <1>4, <1>5 DEF Solves
<1>7. Later(dom, bs, dm, cs)
  BY <1>1, <1>2, <1>3, <1>d DEF Later
<1> QED
  BY <1>6, <1>7 DEF cs

-----------------------------------------------------------------------------
(* What a step keeps of the frames. *)

\* Nothing has happened yet.
LEMMA LaterRefl ==
  ASSUME NEW dom, NEW bs, Solves(dom, bs)
  PROVE  Later(dom, bs, dom, bs)
BY DEF Solves, Blocks, Later

\* An operation that moves no block to a function may follow,
LEMMA LaterSame ==
  ASSUME NEW dom, NEW bs, NEW dm, NEW ms, NEW cs,
         Later(dom, bs, dm, ms), SameFuns(ms, cs)
  PROVE  Later(dom, bs, dm, cs)
<1>1. Len(bs) \in Nat /\ Len(ms) \in Nat /\ Len(bs) <= Len(ms)
  BY DEF Later
<1>2. \A c \in 1..Len(bs) : c \in 1..Len(ms)
  BY <1>1
<1> QED
  BY <1>1, <1>2 DEF Later, SameFuns

\* and so may one that places a block.
LEMMA LaterPlaces ==
  ASSUME NEW dom, NEW bs, NEW dm, NEW ms, NEW cs, NEW b, NEW F,
         Later(dom, bs, dm, ms), Places(ms, cs, b, F), ms[b].fun = Nowhere
  PROVE  Later(dom, bs, dm, cs)
<1>0. Len(bs) \in Nat /\ Len(ms) \in Nat /\ Len(bs) <= Len(ms)
  BY DEF Later
<1>1. \A c \in 1..Len(bs) : c \in 1..Len(ms)
  BY <1>0
<1>2. ASSUME NEW c \in 1..Len(bs), bs[c].fun # Nowhere PROVE cs[c].fun = bs[c].fun
  <2>1. ms[c].fun = bs[c].fun /\ c # b
    BY <1>2 DEF Later
  <2> QED
    BY <1>1, <2>1 DEF Places
<1> QED
  BY <1>0, <1>1, <1>2 DEF Later, Places

\* What is available to a frame stays so,
LEMMA AvailKept ==
  ASSUME NEW dom, NEW bs, NEW dm, NEW cs, Later(dom, bs, dm, cs),
         NEW f, Framed(bs, f)
  PROVE  Avail(dm, f) = Avail(dom, f) /\ dm[f.start] = dom[f.start]
BY DEF Later, Framed, Avail

\* and it stays right.
LEMMA FrameDomKept ==
  ASSUME NEW dom, NEW bs, NEW dm, NEW cs, Solves(dom, bs), Later(dom, bs, dm, cs),
         NEW f, Framed(bs, f), FrameDom(dom, bs, f)
  PROVE  FrameDom(dm, cs, f)
<1>1. /\ f.start \in 1..Len(bs) /\ Len(bs) \in Nat /\ f.mark \in Nat
      /\ bs[f.start].fun # Nowhere /\ cs[f.start].fun = bs[f.start].fun
      /\ \A b \in 1..Len(bs) : dm[b] = dom[b]
      /\ Avail(dm, f) = Avail(dom, f)
      /\ DOMAIN dom = 1..Len(bs) /\ DOMAIN dm = 1..Len(cs) /\ Len(bs) <= Len(cs)
      /\ Len(cs) \in Nat
  <2>1. /\ Len(bs) \in Nat /\ Len(cs) \in Nat /\ Len(bs) <= Len(cs)
        /\ DOMAIN dom = 1..Len(bs) /\ DOMAIN dm = 1..Len(cs)
        /\ \A b \in 1..Len(bs) : dm[b] = dom[b]
        /\ \A b \in 1..Len(bs) : bs[b].fun # Nowhere => cs[b].fun = bs[b].fun
    BY DEF Later
  <2>2. f.start \in 1..Len(bs) /\ f.mark \in f.start..Len(bs)
    BY DEF Framed
  <2>3. bs[f.start].fun # Nowhere
    BY DEF FrameDom
  <2>4. Avail(dm, f) = Avail(dom, f)
    BY AvailKept
  <2> QED
    BY ONLY <2>1, <2>2, <2>3, <2>4
<1>2. /\ HasAfter(f) => f.after \in 1..Len(bs)
      /\ HasHeader(f) => f.held \in 1..Len(bs)
      /\ HasHeader(f) \/ HasNext(f) => f.next \in 1..Len(bs)
  BY <1>1 DEF Framed
<1>3. /\ At(f, "for", {"to", "body"}) \/ At(f, "while", {"cond"}) => HasHeader(f)
      /\ At(f, "if", {"then"}) \/ At(f, "match", {"clause"}) => HasNext(f)
  BY DEF HasHeader, HasNext, At
<1>4. /\ HasAfter(f) => dm[f.after] = dm[f.start] \cup {f.after}
      /\ HasHeader(f) => dm[f.held] = dm[f.start] \cup {f.held}
  BY <1>1, <1>2 DEF FrameDom
<1>5. At(f, "for", {"to", "body"}) \/ At(f, "while", {"cond"}) =>
        dm[f.next] = dm[f.held] \cup {f.next}
  BY <1>1, <1>2, <1>3 DEF FrameDom
<1>6. At(f, "if", {"then"}) => dm[f.start] \subseteq dm[f.next]
  BY <1>1, <1>2, <1>3 DEF FrameDom
<1>7. ASSUME At(f, "match", {"clause"})
      PROVE  /\ Avail(dm, f) \subseteq dm[f.next]
             /\ \A d \in dm[f.next] \ {f.next} : cs[d].fun = cs[f.start].fun
  <2>1. /\ Avail(dom, f) \subseteq dom[f.next] /\ f.next \in 1..Len(bs)
        /\ \A d \in dom[f.next] \ {f.next} : bs[d].fun = bs[f.start].fun
    BY <1>2, <1>3, <1>7 DEF FrameDom
  <2>2. dom[f.next] \subseteq 1..Len(bs) /\ dm[f.next] = dom[f.next]
    BY <1>1, <2>1 DEF Solves
  <2>3. \A d \in 1..Len(bs) : bs[d].fun # Nowhere => cs[d].fun = bs[d].fun
    BY DEF Later
  <2> QED
    BY <1>1, <2>1, <2>2, <2>3
<1>8. \A k \in 1..Len(f.incoming) : Given(dm, f.incoming[k])
  BY <1>1 DEF FrameDom, Given
<1> QED
  BY <1>1, <1>4, <1>5, <1>6, <1>7, <1>8 DEF FrameDom

\* A call goes on as g, or returns, where what it started with is available.
LEMMA ChainStays ==
  ASSUME NEW dom, NEW bs, NEW dm, NEW cs, NEW st, NEW ts, NEW p, NEW q, NEW k,
         NEW f, NEW g, OnTop(bs, st, p, k, f), Solves(dom, bs),
         Chain(dom, bs, st, p), Later(dom, bs, dm, cs),
         \/ /\ Replaced(st, ts, k, g) /\ g.start = f.start
            /\ FrameDom(dm, cs, g) /\ Avail(dm, g) \subseteq dm[q]
         \/ Dropped(st, ts, k) /\ dm[f.start] \subseteq dm[q]
  PROVE  Chain(dm, cs, ts, q)
<1>1. /\ k \in Nat /\ Len(st) = k + 1 /\ f = st[k + 1]
      /\ \A i \in 1..Len(st) : Framed(bs, st[i])
  BY DEF OnTop, Shape, Stacked, FrameInv
<1>2. /\ \A i \in 1..k : ts[i] = st[i]
      /\ Replaced(st, ts, k, g) => Len(ts) = k + 1 /\ ts[k + 1] = g
      /\ Dropped(st, ts, k) => Len(ts) = k
  BY BelowKept DEF Kept
<1>3. ASSUME NEW i \in 1..k
      PROVE  FrameDom(dm, cs, ts[i]) /\ Avail(dm, ts[i]) \subseteq dm[st[i + 1].start]
  <2>1. /\ i \in 1..Len(st) /\ i + 1 \in 1..Len(st) /\ i # Len(st)
        /\ FrameDom(dom, bs, st[i]) /\ Framed(bs, st[i]) /\ Framed(bs, st[i + 1])
    BY <1>1 DEF Chain
  <2>2. Avail(dom, st[i]) \subseteq dom[st[i + 1].start]
    BY <2>1 DEF Chain, Begins
  <2>3. FrameDom(dm, cs, st[i])
    BY <2>1, FrameDomKept
  <2>4. Avail(dm, st[i]) = Avail(dom, st[i]) /\ dm[st[i + 1].start] = dom[st[i + 1].start]
    BY <2>1, AvailKept
  <2> QED
    BY <1>2, <2>2, <2>3, <2>4
<1>4. CASE /\ Replaced(st, ts, k, g) /\ g.start = f.start
           /\ FrameDom(dm, cs, g) /\ Avail(dm, g) \subseteq dm[q]
  <2>1. Len(ts) = k + 1 /\ ts[k + 1] = g
    BY <1>2, <1>4
  <2>2. ASSUME NEW i \in 1..Len(ts)
        PROVE  FrameDom(dm, cs, ts[i]) /\ Avail(dm, ts[i]) \subseteq dm[Begins(ts, q, i)]
    <3>1. CASE i \in 1..k
      <4>1. i # Len(ts) /\ ts[i + 1].start = st[i + 1].start
        <5>1. CASE i = k
          BY <1>1, <1>4, <2>1, <5>1
        <5>2. CASE i # k
          BY <1>1, <1>2, <2>1, <3>1, <5>2
        <5> QED
          BY <5>1, <5>2
      <4> QED
        BY <1>3, <3>1, <4>1 DEF Begins
    <3>2. CASE i = k + 1
      BY <1>4, <2>1, <3>2 DEF Begins
    <3> QED
      BY <1>1, <2>1, <3>1, <3>2
  <2> QED
    BY <2>2 DEF Chain
<1>5. CASE Dropped(st, ts, k) /\ dm[f.start] \subseteq dm[q]
  <2>1. Len(ts) = k
    BY <1>2, <1>5
  <2>2. ASSUME NEW i \in 1..k
        PROVE  FrameDom(dm, cs, ts[i]) /\ Avail(dm, ts[i]) \subseteq dm[Begins(ts, q, i)]
    <3>1. CASE i = k
      BY <1>1, <1>3, <1>5, <2>1, <3>1 DEF Begins
    <3>2. CASE i # k
      <4>1. i + 1 \in 1..k
        BY <1>1, <3>2
      <4>2. ts[i + 1] = st[i + 1]
        BY <1>2, <4>1
      <4> QED
        BY <1>3, <2>1, <3>2, <4>2 DEF Begins
    <3> QED
      BY <3>1, <3>2
  <2> QED
    BY <2>1, <2>2 DEF Chain
<1> QED
  BY <1>4, <1>5

\* A call starts where what its caller has is available.
LEMMA ChainGrows ==
  ASSUME NEW dom, NEW bs, NEW dm, NEW cs, NEW st, NEW ts, NEW p, NEW q, NEW k,
         NEW f, NEW g, OnTop(bs, st, p, k, f), Solves(dom, bs),
         Chain(dom, bs, st, p), Later(dom, bs, dm, cs),
         Pushed(st, ts, g), g.start = p, FrameDom(dm, cs, g),
         Avail(dm, g) \subseteq dm[q]
  PROVE  Chain(dm, cs, ts, q)
<1> DEFINE l == Len(st)
<1>1. /\ l \in Nat /\ st \in Seq(Frame) /\ p \in 1..Len(bs)
      /\ \A i \in 1..l : Framed(bs, st[i])
  BY DEF OnTop, Shape, Stacked, FrameInv
<1>2. Len(ts) = l + 1 /\ ts[l + 1] = g /\ \A i \in 1..l : ts[i] = st[i]
  BY <1>1 DEF Pushed
<1> HIDE DEF l
<1>3. ASSUME NEW i \in 1..l
      PROVE  FrameDom(dm, cs, ts[i]) /\ Avail(dm, ts[i]) \subseteq dm[ts[i + 1].start]
  <2>1. /\ FrameDom(dom, bs, st[i]) /\ Framed(bs, st[i])
        /\ Avail(dom, st[i]) \subseteq dom[Begins(st, p, i)]
    BY <1>1 DEF Chain, l
  <2>2. FrameDom(dm, cs, st[i]) /\ Avail(dm, st[i]) = Avail(dom, st[i])
    BY <2>1, FrameDomKept, AvailKept
  <2>3. Begins(st, p, i) = ts[i + 1].start /\ Begins(st, p, i) \in 1..Len(bs)
    <3>1. CASE i = l
      BY <1>1, <1>2, <3>1 DEF Begins, l
    <3>2. CASE i # l
      <4>1. i + 1 \in 1..l
        BY <1>1, <3>2
      <4>2. ts[i + 1] = st[i + 1] /\ Framed(bs, st[i + 1])
        BY <1>1, <1>2, <4>1
      <4> QED
        BY <3>2, <4>2 DEF Begins, Framed, l
    <3> QED
      BY <3>1, <3>2
  <2>4. dm[Begins(st, p, i)] = dom[Begins(st, p, i)]
    BY <2>3 DEF Later
  <2> QED
    BY <1>2, <2>1, <2>2, <2>3, <2>4
<1>4. ASSUME NEW i \in 1..Len(ts)
      PROVE  FrameDom(dm, cs, ts[i]) /\ Avail(dm, ts[i]) \subseteq dm[Begins(ts, q, i)]
  <2>1. CASE i \in 1..l
    BY <1>1, <1>2, <1>3, <2>1 DEF Begins
  <2>2. CASE i = l + 1
    BY <1>2, <2>2 DEF Begins
  <2> QED
    BY <1>1, <1>2, <2>1, <2>2
<1> QED
  BY <1>4 DEF Chain

-----------------------------------------------------------------------------
(* The invariant of the specification. *)

\* What the solution says of the top frame and of the insert block.
LEMMA TopKnown ==
  ASSUME NEW dom, Known(dom)
  PROVE  /\ Solves(dom, blocks) /\ Len(blocks) \in Nat /\ at \in 1..Len(blocks)
         /\ \A b \in 1..Len(blocks) : dom[b] \subseteq 1..Len(blocks) /\ b \in dom[b]
         /\ Top \in Frame /\ Framed(blocks, Top) /\ FrameDom(dom, blocks, Top)
         /\ Avail(dom, Top) \subseteq dom[at]
         /\ Top.kind # "fun" =>
              dom[Top.start] \subseteq dom[at] /\ blocks[Top.start].fun = CurrentFun
         /\ Top.start \in 1..Len(blocks)
         /\ CurrentFun = blocks[at].fun /\ CurrentFun \in 1..Len(blocks)
         /\ CurrentFun # Nowhere /\ CurrentFun \in dom[at]
         /\ \A d \in dom[at] : blocks[d].fun = CurrentFun
         /\ \A d \in dom[Top.start] : blocks[d].fun = blocks[Top.start].fun
         /\ value # Awaited => /\ value \in 0..Len(blocks)
                               /\ value \in Free \/ value \in dom[at]
<1> DEFINE k == Len(stack) - 1
<1>1. /\ OnTop(blocks, stack, at, k, Top) /\ Len(blocks) \in Nat
      /\ DomInv(dom, blocks, stack, at, value) /\ stack # <<>>
      /\ at \in 1..Len(blocks)
  BY Awaits DEF Known, Inductive, Sound
<1>2. k \in Nat /\ Len(stack) = k + 1 /\ Top = stack[k + 1] /\ k + 1 \in 1..Len(stack)
  BY <1>1 DEF OnTop
<1> HIDE DEF k
<1>3. /\ Top \in Frame /\ Framed(blocks, Top) /\ Top.start \in 1..Len(blocks)
      /\ blocks[at].fun \in 1..at
      /\ Top.kind # "fun" => blocks[Top.start].fun = blocks[at].fun
  BY <1>1, TopFrame DEF FrameInv, Framed
<1>4. FrameDom(dom, blocks, Top) /\ Avail(dom, Top) \subseteq dom[at]
  <2>1. Begins(stack, at, k + 1) = at
    BY <1>2 DEF Begins
  <2> QED
    BY <1>1, <1>2, <2>1 DEF DomInv, Chain
<1>5. Top.kind # "fun" => dom[Top.start] \subseteq dom[at]
  BY <1>4 DEF Avail
<1>6. /\ Solves(dom, blocks)
      /\ \A b \in 1..Len(blocks) :
           Fits(dom, blocks, b) /\ b \in dom[b] /\ dom[b] \subseteq 1..Len(blocks)
  BY <1>1 DEF DomInv, Solves, Fits
<1>7. /\ CurrentFun = blocks[at].fun /\ CurrentFun \in 1..Len(blocks)
      /\ CurrentFun # Nowhere /\ blocks[Top.start].fun # Nowhere
  BY <1>1, <1>3, <1>4 DEF CurrentFun, Nowhere, FrameDom
<1>8. ASSUME NEW b \in 1..Len(blocks), blocks[b].fun # Nowhere, NEW d \in dom[b]
      PROVE  blocks[d].fun = blocks[b].fun
  BY <1>6, <1>8 DEF Fits
<1>9. CurrentFun \in dom[at]
  BY <1>1, <1>6, <1>7 DEF Fits
<1>10. value # Awaited => /\ value \in 0..Len(blocks)
                          /\ value \in Free \/ value \in dom[at]
  BY <1>1 DEF DomInv, Known, Inductive, Sound, Const
<1> QED
  BY <1>1, <1>3, <1>4, <1>5, <1>6, <1>7, <1>8, <1>9, <1>10

\* The invariant holds of a solution for the next state.
LEMMA NextKnown ==
  ASSUME NEW dm, Solves(dm, blocks'), Chain(dm, blocks', stack', at'),
         stack' # <<>> => value' \in Free \cup {Awaited} \/ value' \in dm[at']
  PROVE  Agreed
<1>1. dm \in [1..Len(blocks') -> SUBSET (1..Len(blocks'))]
  BY DEF Solves
<1>2. DomInv(dm, blocks', stack', at', value')
  BY DEF DomInv
<1> QED
  BY <1>1, <1>2 DEF Agrees, Agreed

\* The top frame goes on as g.
LEMMA ProceedDom ==
  ASSUME NEW dom, Known(dom), NEW dm, Solves(dm, blocks'),
         Later(dom, blocks, dm, blocks'), NEW g \in Frame, Proceed(g),
         g.start = Top.start, FrameDom(dm, blocks', g), Avail(dm, g) \subseteq dm[at']
  PROVE  Agreed
<1> DEFINE k == Len(stack) - 1
<1>1. /\ OnTop(blocks, stack, at, k, Top) /\ Solves(dom, blocks)
      /\ Chain(dom, blocks, stack, at)
  BY Awaits DEF Known, DomInv
<1>2. Replaced(stack, stack', k, g) /\ value' = Awaited
  BY DEF Proceed, Below, Replaced
<1> HIDE DEF k
<1>3. Chain(dm, blocks', stack', at')
  BY <1>1, <1>2, ChainStays
<1> QED
  BY <1>2, <1>3, NextKnown

\* It returns v.
LEMMA ReturnDom ==
  ASSUME NEW dom, Known(dom), NEW dm, Solves(dm, blocks'),
         Later(dom, blocks, dm, blocks'), NEW v, Return(v),
         dm[Top.start] \subseteq dm[at'], v \in Free \/ v \in dm[at']
  PROVE  Agreed
<1> DEFINE k == Len(stack) - 1
<1>1. /\ OnTop(blocks, stack, at, k, Top) /\ Solves(dom, blocks)
      /\ Chain(dom, blocks, stack, at)
  BY Awaits DEF Known, DomInv
<1>2. Dropped(stack, stack', k) /\ value' = v
  BY DEF Return, Below, Dropped
<1> HIDE DEF k
<1>3. Chain(dm, blocks', stack', at')
  BY <1>1, <1>2, ChainStays
<1> QED
  BY <1>2, <1>3, NextKnown

\* It calls codegen() of a subexpression, which has frame g.
LEMMA EnterDom ==
  ASSUME NEW dom, Known(dom), NEW dm, Solves(dm, blocks'),
         Later(dom, blocks, dm, blocks'), NEW g \in Frame, Enter(g),
         g.start = at, FrameDom(dm, blocks', g), Avail(dm, g) \subseteq dm[at']
  PROVE  Agreed
<1> DEFINE k == Len(stack) - 1
<1>1. /\ OnTop(blocks, stack, at, k, Top) /\ Solves(dom, blocks)
      /\ Chain(dom, blocks, stack, at)
  BY Awaits DEF Known, DomInv
<1>2. Pushed(stack, stack', g) /\ value' = Awaited
  BY DEF Enter, Pushed
<1> HIDE DEF k
<1>3. Chain(dm, blocks', stack', at')
  BY <1>1, <1>2, ChainGrows
<1> QED
  BY <1>2, <1>3, NextKnown

-----------------------------------------------------------------------------
(* Steps that make no blocks and end none. *)

\* A set of numbers that is not empty has a smallest.
LEMMA Smallest ==
  ASSUME NEW S \in SUBSET Nat, S # {}
  PROVE  \E n \in S : \A m \in S : n <= m
<1>1. PICK n \in S : \A m \in S : <<m, n>> \notin OpToRel(<, Nat)
  BY NatLessThanWellFounded, WFMin
<1>2. \A m \in S : ~ (m < n)
  BY <1>1 DEF OpToRel
<1> QED
  BY <1>2

\* What is available to a frame is so in all that it calls, but in functions.
LEMMA ScopeAvail ==
  ASSUME NEW dom, NEW bs, NEW st, NEW p, Chain(dom, bs, st, p), Len(st) \in Nat,
         NEW i \in 1..Len(st), NoFun(st, i + 1, Len(st))
  PROVE  Avail(dom, st[i]) \subseteq dom[p]
<1> DEFINE l == Len(st)
           Bad(j) == NoFun(st, j + 1, l) /\ ~ (Avail(dom, st[j]) \subseteq dom[p])
           S == {n \in Nat : \E j \in 1..l : n = l - j /\ Bad(j)}
<1> SUFFICES ASSUME ~ (Avail(dom, st[i]) \subseteq dom[p]) PROVE FALSE
  OBVIOUS
<1>1. l - i \in S /\ S \in SUBSET Nat
  OBVIOUS
<1> HIDE DEF S
<1>2. PICK n \in S : \A m \in S : n <= m
  BY <1>1, Smallest
<1>3. PICK j \in 1..l : n = l - j /\ Bad(j)
  BY <1>2 DEF S
<1>4. j # l
  BY <1>3 DEF Chain, Begins
<1>5. /\ j + 1 \in 1..l /\ j + 1 \in j + 1..l
      /\ Avail(dom, st[j]) \subseteq dom[st[j + 1].start]
  BY <1>3, <1>4 DEF Chain, Begins
<1>6. st[j + 1].kind # "fun" /\ NoFun(st, (j + 1) + 1, l)
  BY <1>3, <1>5 DEF NoFun
<1>7. dom[st[j + 1].start] \subseteq Avail(dom, st[j + 1])
  BY <1>6 DEF Avail
<1>8. Bad(j + 1)
  BY <1>3, <1>5, <1>6, <1>7
<1>9. l - (j + 1) \in S
  <2>1. l - (j + 1) \in Nat
    BY <1>5
  <2> HIDE DEF Bad
  <2> QED
    BY <1>5, <1>8, <2>1 DEF S
<1> QED
  BY <1>2, <1>3, <1>5, <1>9

\* Literals, instructions without operands, and names.  A name may give what
\* is not available, which is a stray then.
LEMMA ValueDom ==
  ASSUME NEW dom, Known(dom), Constant \/ Instruction \/ Local
  PROVE  /\ strays \subseteq strays'
         /\ \E v : /\ Agrees(blocks', stack', at', v)
                   /\ value' = v \/ value' \in strays'
<1>1. UNCHANGED <<blocks, at, stack>> /\ value = Awaited /\ strays \subseteq strays'
  BY DEF Constant, Instruction, Local, Awaiting, names
<1>2. Solves(dom, blocks) /\ at \in dom[at]
  BY TopKnown
<1>3. Chain(dom, blocks, stack, at) /\ Len(stack) \in Nat
  BY DEF Known, DomInv, Inductive, Sound
<1>4. ASSUME NEW v, v \in Free \cup {Awaited} \/ v \in dom[at]
      PROVE  Agrees(blocks', stack', at', v)
  <2>1. DomInv(dom, blocks', stack', at', v)
    BY <1>1, <1>2, <1>3, <1>4 DEF DomInv
  <2> QED
    BY <1>1, <1>2, <2>1 DEF Agrees, Solves
<1>5. Agrees(blocks', stack', at', Awaited)
  BY <1>4
<1>6. value' \in Free \/ value' \in dom[at] \/ value' \in strays'
  <2>1. CASE Constant
    BY <2>1 DEF Constant, Free
  <2>2. CASE Instruction
    BY <1>2, <2>2 DEF Instruction
  <2>3. CASE Local /\ value' \in InScope
    <3>1. PICK i \in 1..Len(stack) :
            /\ value' = stack[i].held /\ NoFun(stack, i + 1, Len(stack))
            /\ \/ stack[i].kind \in {"let", "fun"} /\ stack[i].step = "body"
               \/ stack[i].kind = "for" /\ stack[i].step \in {"to", "body"}
      BY <2>3 DEF InScope, NoFun
    <3>2. Avail(dom, stack[i]) \subseteq dom[at]
      BY <1>3, <3>1, ScopeAvail
    <3>3. stack[i].held \in Free \/ stack[i].held \in Avail(dom, stack[i])
      BY <3>1 DEF Avail, Holds, HasHeader, At
    <3> QED
      BY <3>1, <3>2, <3>3
  <2>4. CASE Local /\ value' \notin InScope
    BY <2>4 DEF Local
  <2> QED
    BY <2>1, <2>2, <2>3, <2>4
<1> QED
  BY <1>1, <1>4, <1>5, <1>6

\* With more strays less is asked for, and a value may be one of them.
LEMMA StraysGrow ==
  ASSUME NEW v, Agrees(blocks', stack', at', v), strays \subseteq strays',
         value' = v \/ value' \in strays'
  PROVE  Dominance'
<1>1. PICK dom \in [1..Len(blocks') -> SUBSET (1..Len(blocks'))] :
        DomInv(dom, blocks', stack', at', v)
  BY DEF Agrees
<1>2. Free \subseteq Free'
  BY DEF Free
<1>3. \A x : Given(dom, x) => Given(dom, x)'
  BY <1>2 DEF Given
<1>4. ASSUME NEW b \in 1..Len(blocks') PROVE Fits(dom, blocks, b)'
  <2>1. Fits(dom, blocks', b)
    BY <1>1 DEF DomInv, Solves
  <2> QED
    BY <1>2, <1>3, <2>1 DEF Fits
<1>5. Solves(dom, blocks)'
  <2>1. Blocks(blocks)'
    BY <1>1 DEF DomInv, Solves, Blocks
  <2> QED
    BY <1>1, <1>4, <2>1 DEF Solves
<1>6. ASSUME NEW i \in 1..Len(stack')
      PROVE  /\ FrameDom(dom, blocks, stack[i])'
             /\ (Avail(dom, stack[i]) \subseteq dom[Begins(stack, at, i)])'
  <2>1. /\ FrameDom(dom, blocks', stack'[i])
        /\ Avail(dom, stack'[i]) \subseteq dom[Begins(stack', at', i)]
    BY <1>1 DEF DomInv, Chain
  <2>2. Avail(dom, stack[i])' \subseteq Avail(dom, stack'[i])
    BY <1>2 DEF Avail, HasHeader, Holds, At
  <2>3. (Avail(dom, stack[i]) \subseteq dom[Begins(stack, at, i)])'
    BY <2>1, <2>2 DEF Begins
  <2>4. FrameDom(dom, blocks, stack[i])'
    BY <1>3, <2>1, <2>2 DEF FrameDom, HasAfter, HasHeader, At
  <2> QED
    BY <2>3, <2>4
<1>7. DomInv(dom, blocks, stack, at, value)'
  BY <1>1, <1>2, <1>5, <1>6 DEF DomInv, Chain, Free
<1> QED
  BY <1>7 DEF Dominance, Agrees

\* A frame without blocks of its own asks little of the solution.
LEMMA PlainDom ==
  ASSUME NEW dom, NEW bs, NEW g, Plain(g), bs[g.start].fun # Nowhere,
         \A k \in 1..Len(g.incoming) : Given(dom, g.incoming[k])
  PROVE  /\ FrameDom(dom, bs, g)
         /\ Avail(dom, g) =
              dom[g.start] \cup {v \in {g.held} : Holds(g) /\ v \notin Free}
<1>1. /\ ~At(g, "for", {"to", "body"}) /\ ~At(g, "while", {"cond"})
      /\ ~At(g, "if", {"then"}) /\ ~At(g, "match", {"clause"})
      /\ ~At(g, "for", {"body"}) /\ g.kind # "fun"
  BY DEF Plain, HasNext, HasAfter, HasHeader, At
<1> QED
  BY <1>1 DEF FrameDom, Avail, Plain

\* A call that makes no blocks at its start.
LEMMA EntersDom ==
  ASSUME NEW dom, Known(dom), NEW g \in Frame, Enter(g), UNCHANGED <<blocks, at>>,
         Plain(g), g.start = at, g.held \in Free \/ g.held \in dom[at],
         g.incoming = <<>>
  PROVE  Agreed
<1>1. /\ Solves(dom, blocks) /\ Later(dom, blocks, dom, blocks)
      /\ blocks[at].fun # Nowhere
  BY TopKnown, LaterRefl
<1>2. FrameDom(dom, blocks, g) /\ Avail(dom, g) \subseteq dom[at]
  <2>1. blocks[g.start].fun # Nowhere
    BY <1>1
  <2>2. \A k \in 1..Len(g.incoming) : Given(dom, g.incoming[k])
    OBVIOUS
  <2>3. /\ FrameDom(dom, blocks, g)
        /\ Avail(dom, g) =
             dom[g.start] \cup {v \in {g.held} : Holds(g) /\ v \notin Free}
    BY <2>1, <2>2, PlainDom
  <2> QED
    BY <2>3
<1> QED
  BY <1>1, <1>2, EnterDom

\* What FrameOf() makes.
LEMMA NewFrame ==
  ASSUME Inductive, NEW kind \in Kinds, NEW step \in Steps, NEW f,
         f = FrameOf(kind, step)
  PROVE  /\ f \in Frame /\ f.kind = kind /\ f.step = step /\ f.start = at
         /\ f.mark = Len(blocks) /\ f.held = Const /\ f.incoming = <<>>
<1>1. at \in Nat /\ Len(blocks) \in Nat /\ <<>> \in Seq([val: Nat, from: Nat])
  BY DEF Inductive, Sound, Blocks
<1> QED
  BY <1>1 DEF FrameOf, Frame, Nowhere, Const

\* Calls that make no block before their first subexpression.
LEMMA StartsDom ==
  ASSUME NEW dom, Known(dom),
         TwoStart \/ LetStart \/ LetMutable \/ IfStart \/ MatchStart \/ ForStart
  PROVE  Agreed
<1>1. /\ {"two", "let", "if", "match", "for"} \subseteq Kinds
      /\ {"left", "def", "body", "cond", "expr", "from"} \subseteq Steps
      /\ Inductive
  BY DEF Kinds, Steps, Known
<1>2. UNCHANGED <<blocks, at>>
  BY DEF TwoStart, LetStart, LetMutable, IfStart, MatchStart, ForStart
<1>3. CASE TwoStart \/ LetStart \/ MatchStart \/ ForStart
  <2>1. PICK kind \in {"two", "let", "match", "for"},
             step \in {"left", "def", "expr", "from"} :
          /\ Enter(FrameOf(kind, step))
          /\ kind = "match" => step = "expr"
          /\ kind = "for" => step = "from"
          /\ kind = "let" => step = "def"
          /\ kind = "two" => step = "left"
    BY <1>3 DEF TwoStart, LetStart, MatchStart, ForStart
  <2> DEFINE g == FrameOf(kind, step)
  <2>2. /\ g \in Frame /\ g.kind = kind /\ g.step = step /\ g.start = at
        /\ g.held = Const /\ g.incoming = <<>>
    BY <1>1, NewFrame
  <2>3. Enter(g)
    BY <2>1
  <2> HIDE DEF g
  <2>4. Plain(g)
    BY <2>1, <2>2 DEF Plain, HasNext, HasAfter, HasHeader, At
  <2> QED
    BY <1>2, <2>2, <2>3, <2>4, EntersDom DEF Free
<1>4. CASE IfStart
  <2>1. PICK else \in BOOLEAN : Enter([FrameOf("if", "cond") EXCEPT !.more = else])
    BY <1>4 DEF IfStart
  <2> DEFINE f == FrameOf("if", "cond")
             g == [f EXCEPT !.more = else]
  <2>2. /\ f \in Frame /\ f.kind = "if" /\ f.step = "cond" /\ f.start = at
        /\ f.held = Const /\ f.incoming = <<>>
    BY <1>1, NewFrame
  <2>3. Enter(g)
    BY <2>1
  <2> HIDE DEF f
  <2>4. /\ g \in Frame /\ g.kind = "if" /\ g.step = "cond" /\ g.start = at
        /\ g.held = Const /\ g.incoming = <<>>
    BY <2>2 DEF Frame
  <2> HIDE DEF g
  <2>5. Plain(g)
    BY <2>4 DEF Plain, HasNext, HasAfter, HasHeader, At
  <2> QED
    BY <1>2, <2>3, <2>4, <2>5, EntersDom DEF Free
<1>5. CASE LetMutable
  <2> DEFINE f == FrameOf("let", "body")
             g == [f EXCEPT !.held = CurrentFun]
  <2>1. Enter(g)
    BY <1>5 DEF LetMutable
  <2>2. /\ f \in Frame /\ f.kind = "let" /\ f.step = "body" /\ f.start = at
        /\ f.incoming = <<>>
    BY <1>1, NewFrame
  <2>3. CurrentFun \in Nat /\ CurrentFun \in dom[at]
    BY TopKnown
  <2> HIDE DEF f
  <2>4. /\ g \in Frame /\ g.kind = "let" /\ g.step = "body" /\ g.start = at
        /\ g.held = CurrentFun /\ g.incoming = <<>>
    BY <2>2, <2>3 DEF Frame
  <2> HIDE DEF g
  <2>5. Plain(g)
    BY <2>4 DEF Plain, HasNext, HasAfter, HasHeader, At
  <2> QED
    BY <1>2, <2>1, <2>3, <2>4, <2>5, EntersDom
<1> QED
  BY <1>3, <1>4, <1>5

\* An operand, or the value of a definition, is kept.
LEMMA OperandDom ==
  ASSUME NEW dom, Known(dom), TwoLeft \/ LetDef
  PROVE  Agreed
<1>1. PICK kind \in {"two", "let"}, step \in {"left", "def"},
           next \in {"right", "body"} :
        /\ Resumed(kind, step)
        /\ Proceed([Top EXCEPT !.step = next, !.held = value])
        /\ UNCHANGED <<blocks, at>>
  BY DEF TwoLeft, LetDef
<1>2. Top.kind = kind /\ value # Awaited
  BY <1>1 DEF Resumed
<1>3. /\ Solves(dom, blocks) /\ Later(dom, blocks, dom, blocks)
      /\ value \in Free \/ value \in dom[at]
      /\ Top \in Frame /\ dom[Top.start] \subseteq dom[at]
      /\ FrameDom(dom, blocks, Top) /\ Top.kind # "fun"
      /\ value \in Nat
  BY <1>1, <1>2, TopKnown, LaterRefl DEF Const
<1> DEFINE g == [Top EXCEPT !.step = next, !.held = value]
<1>4. /\ g \in Frame /\ g.kind = kind /\ g.step = next /\ g.start = Top.start
      /\ g.held = value /\ g.incoming = Top.incoming
  <2>1. next \in Steps
    BY DEF Steps
  <2> QED
    BY <1>2, <1>3, <2>1 DEF Frame
<1>5. Proceed(g)
  BY <1>1
<1> HIDE DEF g
<1>6. Plain(g)
  BY <1>4 DEF Plain, HasNext, HasAfter, HasHeader, At
<1>7. FrameDom(dom, blocks, g) /\ Avail(dom, g) \subseteq dom[at]
  <2>1. /\ blocks[g.start].fun # Nowhere
        /\ \A k \in 1..Len(g.incoming) : Given(dom, g.incoming[k])
    BY <1>3, <1>4 DEF FrameDom
  <2>2. /\ FrameDom(dom, blocks, g)
        /\ Avail(dom, g) =
             dom[g.start] \cup {v \in {g.held} : Holds(g) /\ v \notin Free}
    BY <1>6, <2>1, PlainDom
  <2> QED
    BY <1>3, <1>4, <2>2
<1> QED
  BY <1>1, <1>3, <1>4, <1>5, <1>7, ProceedDom

\* The instruction of an operator, and the end of a let.
LEMMA LastDom ==
  ASSUME NEW dom, Known(dom), TwoRight \/ LetBody
  PROVE  Agreed
<1>1. CASE LetBody
  <2>1. Resumed("let", "body") /\ Return(value) /\ UNCHANGED <<blocks, at>>
    BY <1>1 DEF LetBody
  <2>2. /\ Solves(dom, blocks) /\ Later(dom, blocks, dom, blocks)
        /\ value \in Free \/ value \in dom[at]
        /\ dom[Top.start] \subseteq dom[at]
    BY <2>1, TopKnown, LaterRefl DEF Resumed
  <2> QED
    BY <2>1, <2>2, ReturnDom
<1>2. CASE TwoRight
  <2> DEFINE T == {Top.held, value}
             cs == Use(blocks, at, T)
  <2>1. Resumed("two", "right") /\ Return(at) /\ blocks' = cs /\ at' = at
    BY <1>2 DEF TwoRight
  <2>2. /\ Solves(dom, blocks) /\ Later(dom, blocks, dom, blocks)
        /\ value \in 0..Len(blocks) /\ (value \in Free \/ value \in dom[at])
        /\ dom[Top.start] \subseteq dom[at] /\ Avail(dom, Top) \subseteq dom[at]
        /\ Framed(blocks, Top)
        /\ Top.kind = "two" /\ Top.step = "right" /\ at \in dom[at]
        /\ at \in 1..Len(blocks)
    BY <2>1, TopKnown, LaterRefl DEF Resumed
  <2>3. Top.held \in Free \/ Top.held \in dom[at]
    BY <2>2 DEF Avail, Holds, At
  <2>4. T \in SUBSET (0..Len(blocks)) /\ \A v \in T : v \in Free \/ v \in dom[at]
    BY <2>2, <2>3 DEF Framed
  <2> HIDE DEF T
  <2>5. Solves(dom, cs) /\ SameFuns(blocks, cs)
    BY <2>2, <2>4, UseSolves
  <2>6. Later(dom, blocks, dom, cs)
    BY <2>2, <2>5, LaterSame
  <2> HIDE DEF cs
  <2> QED
    BY <2>1, <2>2, <2>5, <2>6, ReturnDom
<1> QED
  BY <1>1, <1>2

-----------------------------------------------------------------------------
(* Steps that make blocks. *)

\* New blocks of function F, where blocks of F are available.
LEMMA ExtendSolves ==
  ASSUME NEW dom, NEW bs, Solves(dom, bs), NEW F \in 1..Len(bs),
         NEW fs, NEW us, Supplied(bs, fs, us, F),
         NEW dm, dm = Extended(dom, Len(bs), us)
  PROVE  /\ Solves(dm, Joined(bs, fs)) /\ Later(dom, bs, dm, Joined(bs, fs))
         /\ \A i \in 1..Len(fs) : dm[Len(bs) + i] = With(us[i], Len(bs) + i)
<1> DEFINE n == Len(bs)
           cs == Joined(bs, fs)
           X == {dm[b] : b \in 1..Len(cs)}
<1>1. Blocks(bs) /\ AllFresh(fs) /\ Len(us) = Len(fs) /\ Len(fs) \in Nat
  BY DEF Solves, AllFresh, Supplied
<1>2. /\ Len(cs) = n + Len(fs) /\ n \in Nat
      /\ \A c \in 1..Len(cs) : c > n =>
           c - n \in 1..Len(fs) /\ cs[c].fun = fs[c - n].fun
  <2>1. Grows(bs, fs, cs)
    BY <1>1, FreshBlocks
  <2> QED
    BY <2>1 DEF Grows
<1>3. /\ \A b \in 1..n : dm[b] = dom[b]
      /\ \A b \in 1..Len(cs) : b > n => dm[b] = us[b - n] \cup {b}
  BY <1>1, <1>2 DEF Extended
<1>4. dm \in [1..Len(cs) -> X]
  BY <1>1, <1>2 DEF Extended
<1>c. F # Nowhere /\ F \in 1..n
  BY <1>2 DEF Nowhere
<1>d. \A i \in 1..Len(fs) :
        /\ Home(F, fs[i].fun) /\ F \in us[i]
        /\ \A d \in us[i] : d \in 1..Len(cs) /\ cs[d].fun = F
  BY DEF Supplied
<1> HIDE DEF n, cs, X
<1>5. ASSUME NEW b \in 1..Len(cs), b > n PROVE Begun(dm, cs, b)
  <2>1. /\ b - n \in 1..Len(fs) /\ cs[b].fun = fs[b - n].fun
        /\ dm[b] = us[b - n] \cup {b}
    BY <1>2, <1>3, <1>5
  <2>2. cs[b].fun \in {Nowhere, F} /\ cs[b].fun # b
    BY <1>2, <1>5, <1>c, <1>d, <2>1 DEF Nowhere, Home
  <2>3. F \in us[b - n] /\ \A d \in us[b - n] : d \in 1..Len(cs) /\ cs[d].fun = F
    BY <1>d, <2>1
  <2> QED
    BY <1>c, <2>1, <2>2, <2>3 DEF Begun
<1>6. Solves(dm, cs) /\ Later(dom, bs, dm, cs)
  <2>1. /\ dm \in [1..Len(Joined(bs, fs)) -> X]
        /\ \A b \in 1..Len(bs) : dm[b] = dom[b]
        /\ \A b \in 1..Len(Joined(bs, fs)) :
             b > Len(bs) => Begun(dm, Joined(bs, fs), b)
    BY <1>3, <1>4, <1>5 DEF n, cs
  <2>2. Solves(dom, bs) /\ AllFresh(fs)
    BY <1>1
  <2> QED
    BY ONLY <2>1, <2>2, FreshSolves DEF cs
<1>7. ASSUME NEW i \in 1..Len(fs) PROVE dm[n + i] = With(us[i], n + i)
  <2>1. n + i \in 1..Len(cs) /\ n + i > n /\ (n + i) - n = i
    BY <1>1, <1>2
  <2> QED
    BY <1>3, <2>1 DEF With
<1> QED
  BY <1>6, <1>7 DEF n, cs

\* dom is a solution for bs; dm gives A, B and C to three blocks more.
GivesThree(dm, dom, bs, n, F, A, B, C) ==
  /\ Solves(dom, bs) /\ n \in Nat /\ n = Len(bs) /\ F \in 1..n
  /\ Inside(bs, F, n + 3, A) /\ Inside(bs, F, n + 3, B) /\ Inside(bs, F, n + 3, C)
  /\ dm = WithThree(dom, n, A, B, C)

\* Three blocks, A, B and C being available in them.
LEMMA MoreSolves ==
  ASSUME NEW n, NEW F, NEW dom, NEW bs, NEW A, NEW B, NEW C, NEW dm,
         GivesThree(dm, dom, bs, n, F, A, B, C)
  PROVE  /\ Solves(dm, More(bs, F)) /\ Later(dom, bs, dm, More(bs, F))
         /\ dm[n + 1] = With(A, n + 1) /\ dm[n + 2] = With(B, n + 2)
         /\ dm[n + 3] = With(C, n + 3)
<1> DEFINE fs == [i \in 1..3 |-> Fresh(F)]
           us == <<A, B, C>>
           d3 == Extended(dom, Len(bs), us)
<1> n \in Nat /\ F \in Nat /\ n = Len(bs) /\ F \in 1..n
  BY DEF GivesThree
<1> Solves(dom, bs) /\ Inside(bs, F, n + 3, A) /\ Inside(bs, F, n + 3, B)
      /\ Inside(bs, F, n + 3, C) /\ dm = WithThree(dom, n, A, B, C)
  BY DEF GivesThree
<1>0. dm = d3
  BY DEF WithThree
<1>1. Blocks(bs) /\ n \in Nat /\ F \in Nat
  BY DEF Solves, Blocks
<1>2. /\ fs \in Seq(Block) /\ Len(fs) = 3
      /\ \A i \in 1..3 : fs[i] = Fresh(F) /\ fs[i].fun = F
  <2>1. Fresh(F) \in Block /\ Fresh(F).fun = F
    BY <1>1 DEF Fresh, Block
  <2> QED
    BY <2>1
<1>3. More(bs, F) = Joined(bs, fs)
  BY DEF More, Joined
<1>4. Len(us) = 3 /\ us[1] = A /\ us[2] = B /\ us[3] = C
  OBVIOUS
<1> HIDE DEF fs, us, d3
<1>5. AllFresh(fs) /\ Len(us) = Len(fs) /\ \A i \in 1..Len(fs) : Home(F, fs[i].fun)
  BY <1>2, <1>4 DEF AllFresh, Home
<1>6. /\ Len(More(bs, F)) = n + 3
      /\ \A b \in 1..n : More(bs, F)[b] = bs[b]
      /\ \A b \in 1..n + 3 : b > n => More(bs, F)[b].fun = F
  BY <1>1, ThreeMore
<1>7. ASSUME NEW d \in A \cup B \cup C
      PROVE  d \in 1..Len(More(bs, F)) /\ More(bs, F)[d].fun = F
  <2>1. d \in n + 1..n + 3 \/ (d \in 1..n /\ bs[d].fun = F)
    BY <1>7 DEF Inside
  <2>2. d \in 1..n + 3
    BY <1>1, <2>1
  <2> QED
    BY <1>1, <1>6, <2>1, <2>2
<1>8. \A i \in 1..Len(fs) : F \in us[i] /\
        \A d \in us[i] : d \in 1..Len(Joined(bs, fs)) /\ Joined(bs, fs)[d].fun = F
  <2>1. \A i \in 1..Len(fs) : i = 1 \/ i = 2 \/ i = 3
    BY <1>2
  <2>2. \A i \in 1..Len(fs) : us[i] \in {A, B, C}
    BY <1>4, <2>1
  <2> QED
    BY <1>3, <1>7, <2>2 DEF Inside
<1>9. /\ Solves(d3, Joined(bs, fs)) /\ Later(dom, bs, d3, Joined(bs, fs))
      /\ \A i \in 1..Len(fs) : d3[Len(bs) + i] = With(us[i], Len(bs) + i)
  <2>1. Solves(dom, bs) /\ F \in 1..Len(bs)
    OBVIOUS
  <2>2. Supplied(bs, fs, us, F)
    BY <1>5, <1>8 DEF Supplied
  <2>3. d3 = Extended(dom, Len(bs), us)
    BY DEF d3
  <2> QED
    BY ONLY <2>1, <2>2, <2>3, ExtendSolves
<1>10. /\ d3[n + 1] = With(A, n + 1) /\ d3[n + 2] = With(B, n + 2)
       /\ d3[n + 3] = With(C, n + 3)
  <2>1. 1 \in 1..Len(fs) /\ 2 \in 1..Len(fs) /\ 3 \in 1..Len(fs)
    BY <1>2
  <2> QED
    BY <1>4, <1>9, <2>1
<1> QED
  BY <1>0, <1>3, <1>9, <1>10

\* Two blocks, each in F or not yet in a function.
LEMMA TwoSolves ==
  ASSUME NEW n \in Nat, NEW F \in Nat, NEW G \in Nat, NEW H \in Nat,
         NEW dom, NEW bs, NEW A, NEW B, Solves(dom, bs), n = Len(bs), F \in 1..n,
         Home(F, G), Home(F, H), Inside(bs, F, n, A),
         Inside(bs, F, n, B), NEW dm, dm = WithTwo(dom, n, A, B)
  PROVE  /\ Solves(dm, AndTwo(bs, G, H)) /\ Later(dom, bs, dm, AndTwo(bs, G, H))
         /\ dm[n + 1] = With(A, n + 1) /\ dm[n + 2] = With(B, n + 2)
<1> DEFINE fs == <<Fresh(G), Fresh(H)>>
           us == <<A, B>>
           d2 == Extended(dom, Len(bs), us)
<1>0. dm = d2
  BY DEF WithTwo
<1>1. Blocks(bs) /\ n \in Nat /\ G \in Nat /\ H \in Nat
  BY DEF Solves, Blocks, Nowhere
<1>2. /\ fs \in Seq(Block) /\ Len(fs) = 2
      /\ fs[1] = Fresh(G) /\ fs[1].fun = G /\ fs[2] = Fresh(H) /\ fs[2].fun = H
  <2>1. /\ Fresh(G) \in Block /\ Fresh(G).fun = G
        /\ Fresh(H) \in Block /\ Fresh(H).fun = H
    BY <1>1 DEF Fresh, Block
  <2> QED
    BY <2>1
<1>3. AndTwo(bs, G, H) = Joined(bs, fs)
  BY DEF AndTwo, Joined
<1>4. Len(us) = 2 /\ us[1] = A /\ us[2] = B
  OBVIOUS
<1> HIDE DEF fs, us, d2
<1>i. \A i \in 1..Len(fs) : i = 1 \/ i = 2
  BY <1>2
<1>5. AllFresh(fs) /\ Len(us) = Len(fs) /\ \A i \in 1..Len(fs) : Home(F, fs[i].fun)
  BY <1>2, <1>4, <1>i DEF AllFresh
<1>6. /\ Len(AndTwo(bs, G, H)) = n + 2
      /\ \A b \in 1..n : AndTwo(bs, G, H)[b] = bs[b]
  <2> DEFINE ts == AndTwo(bs, G, H)
  <2>1. Blocks(bs) /\ G \in Nat /\ H \in Nat /\ ts = AndTwo(bs, G, H)
    BY <1>1
  <2> HIDE DEF ts
  <2>2. /\ Len(ts) = Len(bs) + 2
        /\ \A b \in 1..Len(bs) : ts[b] = bs[b]
    BY ONLY <2>1, TwoMore
  <2> QED
    BY <2>2 DEF ts
<1>7. ASSUME NEW d \in A \cup B
      PROVE  d \in 1..Len(AndTwo(bs, G, H)) /\ AndTwo(bs, G, H)[d].fun = F
  <2>1. d \in n + 1..n \/ (d \in 1..n /\ bs[d].fun = F)
    BY <1>7 DEF Inside
  <2>2. d \in 1..n /\ bs[d].fun = F
    BY <1>1, <2>1
  <2>3. d \in 1..n + 2
    BY <1>1, <2>2
  <2> QED
    BY <1>6, <2>2, <2>3
<1>8. \A i \in 1..Len(fs) : F \in us[i] /\
        \A d \in us[i] : d \in 1..Len(Joined(bs, fs)) /\ Joined(bs, fs)[d].fun = F
  <2>1. \A i \in 1..Len(fs) : us[i] \in {A, B}
    BY <1>4, <1>i
  <2> QED
    BY <1>3, <1>7, <2>1 DEF Inside
<1>9. /\ Solves(d2, Joined(bs, fs)) /\ Later(dom, bs, d2, Joined(bs, fs))
      /\ \A i \in 1..Len(fs) : d2[Len(bs) + i] = With(us[i], Len(bs) + i)
  <2>1. Solves(dom, bs) /\ F \in 1..Len(bs)
    OBVIOUS
  <2>2. Supplied(bs, fs, us, F)
    BY <1>5, <1>8 DEF Supplied
  <2>3. d2 = Extended(dom, Len(bs), us)
    BY DEF d2
  <2> QED
    BY ONLY <2>1, <2>2, <2>3, ExtendSolves
<1>10. d2[n + 1] = With(A, n + 1) /\ d2[n + 2] = With(B, n + 2)
  <2>1. 1 \in 1..Len(fs) /\ 2 \in 1..Len(fs)
    BY <1>2
  <2> QED
    BY <1>4, <1>9, <2>1
<1> QED
  BY <1>0, <1>3, <1>9, <1>10

\* The insert block, and the start of the top call, are as before.
LEMMA LaterAt ==
  ASSUME NEW dom, Known(dom), NEW dm, NEW cs, Later(dom, blocks, dm, cs)
  PROVE  /\ dm[at] = dom[at] /\ dm[Top.start] = dom[Top.start]
         /\ cs[at].fun = CurrentFun /\ cs[Top.start].fun = blocks[Top.start].fun
         /\ cs[at].fun # Nowhere /\ cs[Top.start].fun # Nowhere
         /\ Len(cs) \in Nat /\ Len(blocks) <= Len(cs) /\ at \in 1..Len(cs)
<1>1. /\ at \in 1..Len(blocks) /\ Top.start \in 1..Len(blocks)
      /\ CurrentFun = blocks[at].fun /\ CurrentFun # Nowhere
      /\ blocks[Top.start].fun # Nowhere
  BY TopKnown DEF FrameDom
<1>2. Len(blocks) \in Nat /\ Len(cs) \in Nat /\ Len(blocks) <= Len(cs)
  BY DEF Later
<1> QED
  BY <1>1, <1>2 DEF Later

\* A function starts with an entry block, which nothing comes before.
LEMMA FunStartDom ==
  ASSUME NEW dom, Known(dom), FunStart
  PROVE  Agreed
<1> DEFINE n == Len(blocks)
           e == n + 1
           f == FrameOf("fun", "body")
           g == [f EXCEPT !.held = e]
           fs == <<Fresh(e)>>
           cs == Joined(blocks, fs)
           dm == [b \in 1..Len(cs) |-> IF b <= n THEN dom[b] ELSE {b}]
           X == {dm[b] : b \in 1..Len(cs)}
<1>1. blocks' = Append(blocks, Fresh(e)) /\ at' = e /\ Enter(g)
  BY DEF FunStart
<1>2. /\ Solves(dom, blocks) /\ n \in Nat /\ at \in 1..n /\ Inductive
      /\ Blocks(blocks) /\ blocks \in Seq(Block)
  BY TopKnown DEF Known, Solves, Blocks
<1>3. Fresh(e) \in Block /\ Fresh(e).fun = e /\ e \in Nat
  BY <1>2 DEF Fresh, Block
<1>4. /\ fs \in Seq(Block) /\ Len(fs) = 1 /\ fs[1] = Fresh(e) /\ AllFresh(fs)
  <2>1. fs \in Seq(Block) /\ Len(fs) = 1 /\ fs[1] = Fresh(e)
    BY <1>3
  <2> QED
    BY <1>3, <2>1 DEF AllFresh
<1>5. blocks' = cs
  BY <1>1, <1>2, <1>3 DEF Joined
<1>6. /\ f \in Frame /\ f.kind = "fun" /\ f.step = "body" /\ f.start = at
      /\ f.incoming = <<>>
  <2>1. "fun" \in Kinds /\ "body" \in Steps
    BY DEF Kinds, Steps
  <2> QED
    BY <1>2, <2>1, NewFrame
<1> HIDE DEF f, fs
<1>7. /\ g \in Frame /\ g.kind = "fun" /\ g.step = "body" /\ g.start = at
      /\ g.incoming = <<>> /\ g.held = e
  BY <1>3, <1>6 DEF Frame
<1> HIDE DEF g
<1>8. /\ Len(cs) = n + 1
      /\ \A c \in 1..Len(cs) : c > n => c = e /\ cs[c].fun = e
  <2>a. Blocks(blocks) /\ AllFresh(fs) /\ cs = Joined(blocks, fs)
    BY <1>2, <1>4
  <2> HIDE DEF cs, dm, X
  <2>0. /\ Len(cs) = Len(blocks) + Len(fs)
        /\ \A c \in 1..Len(cs) : c > Len(blocks) =>
             c - Len(blocks) \in 1..Len(fs) /\ cs[c].fun = fs[c - Len(blocks)].fun
    <3>1. Grows(blocks, fs, cs)
      BY <2>a, FreshBlocks
    <3> QED
      BY <3>1 DEF Grows
  <2>1. /\ Len(cs) = n + 1
        /\ \A c \in 1..Len(cs) : c > n => c - n \in 1..1 /\ cs[c].fun = fs[c - n].fun
    BY <1>4, <2>0
  <2>2. ASSUME NEW c \in 1..Len(cs), c > n PROVE c = e /\ cs[c].fun = e
    <3>1. c = e /\ c - n = 1
      BY <1>2, <2>1, <2>2
    <3> QED
      BY <1>3, <1>4, <2>1, <2>2, <3>1
  <2> QED
    BY <2>1, <2>2
<1> HIDE DEF cs
<1>9. /\ dm \in [1..Len(cs) -> X] /\ \A b \in 1..n : dm[b] = dom[b]
      /\ dm[e] = {e} /\ e \in 1..Len(cs) /\ e > n
  BY <1>2, <1>8
<1> HIDE DEF dm, X
<1>10. \A b \in 1..Len(cs) : b > n => Begun(dm, cs, b)
  BY <1>8, <1>9 DEF Begun
<1>11. Solves(dm, cs) /\ Later(dom, blocks, dm, cs)
  <2>1. /\ dm \in [1..Len(Joined(blocks, fs)) -> X]
        /\ \A b \in 1..Len(blocks) : dm[b] = dom[b]
        /\ \A b \in 1..Len(Joined(blocks, fs)) :
             b > Len(blocks) => Begun(dm, Joined(blocks, fs), b)
    BY <1>9, <1>10 DEF cs
  <2> QED
    BY ONLY <1>2, <1>4, <2>1, FreshSolves DEF cs
<1> HIDE DEF n, e
<1>12. cs[at].fun # Nowhere
  BY <1>11, LaterAt
<1>13. Avail(dm, g) \subseteq dm[e]
  BY <1>7, <1>9 DEF Avail
<1>14. FrameDom(dm, cs, g)
  <2>1. \A k \in 1..Len(g.incoming) : Given(dm, g.incoming[k])
    BY <1>7
  <2> QED
    BY <1>7, <1>12, <2>1 DEF FrameDom, HasAfter, HasHeader, At
<1> QED
  BY <1>1, <1>5, <1>7, <1>11, <1>13, <1>14, EnterDom

\* At the end of a function its value is used; what stands around it goes on.
LEMMA FunBodyDom ==
  ASSUME NEW dom, Known(dom), FunBody
  PROVE  Agreed
<1> DEFINE T == {value}
           us == Use(blocks, at, T)
           cs == Ret(us, at)
           g == [Top EXCEPT !.kind = "let", !.held = Const]
<1>1. /\ Resumed("fun", "body") /\ blocks' = cs /\ at' = Top.start /\ Proceed(g)
  BY DEF FunBody, Ret
<1>2. /\ Solves(dom, blocks) /\ Later(dom, blocks, dom, blocks)
      /\ value \in 0..Len(blocks) /\ (value \in Free \/ value \in dom[at])
      /\ at \in 1..Len(blocks) /\ Top.step = "body" /\ Top \in Frame
      /\ FrameDom(dom, blocks, Top)
  BY <1>1, TopKnown, LaterRefl DEF Resumed
<1>3. /\ g \in Frame /\ g.kind = "let" /\ g.start = Top.start /\ g.held = Const
      /\ g.step = "body" /\ g.incoming = Top.incoming
  <2>1. "let" \in Kinds /\ Const \in Nat
    BY DEF Kinds, Const
  <2> QED
    BY <1>2, <2>1 DEF Frame
<1>4. T \in SUBSET (0..Len(blocks)) /\ \A v \in T : v \in Free \/ v \in dom[at]
  BY <1>2
<1> HIDE DEF T, g
<1>5. Solves(dom, us) /\ SameFuns(blocks, us)
  BY <1>2, <1>4, UseSolves
<1> HIDE DEF us
<1>6. Solves(dom, cs) /\ SameFuns(us, cs)
  <2>1. at \in 1..Len(us)
    BY <1>2, <1>5 DEF SameFuns
  <2> QED
    BY <1>5, <2>1, RetSolves
<1>7. Later(dom, blocks, dom, cs)
  <2>1. Later(dom, blocks, dom, us)
    BY <1>2, <1>5, LaterSame
  <2> QED
    BY <1>6, <2>1, LaterSame
<1> HIDE DEF cs
<1>8. cs[g.start].fun # Nowhere
  BY <1>3, <1>7, LaterAt
<1>9. Plain(g) /\ \A k \in 1..Len(g.incoming) : Given(dom, g.incoming[k])
  BY <1>2, <1>3 DEF Plain, HasNext, HasAfter, HasHeader, At, FrameDom
<1>10. FrameDom(dom, cs, g) /\ Avail(dom, g) \subseteq dom[Top.start]
  <2>1. /\ FrameDom(dom, cs, g)
        /\ Avail(dom, g) =
             dom[g.start] \cup {v \in {g.held} : Holds(g) /\ v \notin Free}
    BY <1>8, <1>9, PlainDom
  <2> QED
    BY <1>3, <2>1 DEF Free
<1> QED
  BY <1>1, <1>3, <1>6, <1>7, <1>10, ProceedDom

\* The program ends.
LEMMA MainEndDom ==
  ASSUME NEW dom, Known(dom), MainEnd
  PROVE  Agreed
<1> DEFINE cs == Ret(blocks, at)
<1>1. Resumed("main", "body") /\ blocks' = cs /\ Return(Const) /\ at' = at
  BY DEF MainEnd, Ret
<1>2. /\ Solves(dom, blocks) /\ Later(dom, blocks, dom, blocks)
      /\ at \in 1..Len(blocks) /\ dom[Top.start] \subseteq dom[at]
  BY <1>1, TopKnown, LaterRefl DEF Resumed
<1>3. Solves(dom, cs) /\ SameFuns(blocks, cs)
  BY <1>2, RetSolves
<1>4. Later(dom, blocks, dom, cs)
  BY <1>2, <1>3, LaterSame
<1> HIDE DEF cs
<1> QED
  BY <1>1, <1>2, <1>3, <1>4, ReturnDom DEF Free

-----------------------------------------------------------------------------
(* Steps that end blocks. *)

\* A branch on values that are available.
LEMMA ForkSolves ==
  ASSUME NEW dom, NEW bs, Solves(dom, bs), NEW b \in 1..Len(bs),
         NEW vs \in SUBSET (0..Len(bs)), \A v \in vs : v \in Free \/ v \in dom[b],
         NEW to \in SUBSET (1..Len(bs)), \A s \in to : dom[s] \ {s} \subseteq dom[b]
  PROVE  /\ Solves(dom, Branch(Use(bs, b, vs), b, to))
         /\ SameFuns(bs, Branch(Use(bs, b, vs), b, to))
<1> DEFINE us == Use(bs, b, vs)
<1>1. Solves(dom, us) /\ SameFuns(bs, us)
  BY UseSolves
<1> HIDE DEF us
<1>2. b \in 1..Len(us) /\ to \in SUBSET (1..Len(us))
  BY <1>1 DEF SameFuns
<1>3. Solves(dom, Branch(us, b, to)) /\ SameFuns(us, Branch(us, b, to))
  BY <1>1, <1>2, BranchSolves
<1>4. SameFuns(bs, Branch(us, b, to))
  BY <1>1, <1>3 DEF SameFuns
<1> QED
  BY <1>3, <1>4 DEF us

\* A PHI gets one more pair.
LEMMA AppendGiven ==
  ASSUME NEW dom, NEW phi \in Pairs, \A k \in 1..Len(phi) : Given(dom, phi[k]),
         NEW v \in Nat, NEW b \in Nat, v \in Free \/ (b \in DOMAIN dom /\ v \in dom[b])
  PROVE  /\ Append(phi, Pair(v, b)) \in Pairs
         /\ \A k \in 1..Len(Append(phi, Pair(v, b))) : Given(dom, Append(phi, Pair(v, b))[k])
<1> DEFINE p == Pair(v, b)
           ps == Append(phi, p)
<1>1. p \in [val: Nat, from: Nat] /\ Given(dom, p)
  BY DEF Pair, Given
<1> HIDE DEF p
<1>2. /\ ps \in Pairs /\ Len(phi) \in Nat /\ Len(ps) = Len(phi) + 1
      /\ \A k \in 1..Len(phi) : ps[k] = phi[k]
      /\ ps[Len(phi) + 1] = p
  BY <1>1 DEF Pairs
<1> HIDE DEF ps
<1>3. ASSUME NEW k \in 1..Len(ps) PROVE Given(dom, ps[k])
  <2>1. k \in 1..Len(phi) \/ k = Len(phi) + 1
    BY <1>2
  <2> QED
    BY <1>1, <1>2, <2>1
<1> QED
  BY <1>2, <1>3 DEF ps, p

\* A PHI starts with one pair.
LEMMA OneGiven ==
  ASSUME NEW dom, NEW v \in Nat, NEW b \in Nat,
         v \in Free \/ (b \in DOMAIN dom /\ v \in dom[b])
  PROVE  /\ <<Pair(v, b)>> \in Pairs
         /\ \A k \in 1..Len(<<Pair(v, b)>>) : Given(dom, <<Pair(v, b)>>[k])
<1> DEFINE p == Pair(v, b)
<1>1. p \in [val: Nat, from: Nat] /\ Given(dom, p)
  BY DEF Pair, Given
<1> HIDE DEF p
<1>2. <<p>> \in Pairs /\ Len(<<p>>) = 1 /\ <<p>>[1] = p
  BY <1>1 DEF Pairs
<1>3. \A k \in 1..Len(<<p>>) : k = 1
  BY <1>2
<1>4. \A k \in 1..Len(<<p>>) : Given(dom, <<p>>[k])
  BY <1>1, <1>2, <1>3
<1> QED
  BY <1>2, <1>4 DEF p

\* What is known when an if, a match or a loop goes on.
LEMMA GoingOn ==
  ASSUME NEW dom, Known(dom), NEW kind \in Branching, NEW step, Resumed(kind, step)
  PROVE  /\ Solves(dom, blocks) /\ Later(dom, blocks, dom, blocks)
         /\ Len(blocks) \in Nat /\ at \in 1..Len(blocks) /\ Inductive
         /\ Top \in Frame /\ Top.kind = kind /\ Top.step = step
         /\ Framed(blocks, Top) /\ FrameDom(dom, blocks, Top)
         /\ Top.start \in 1..Len(blocks)
         /\ Avail(dom, Top) \subseteq dom[at] /\ dom[Top.start] \subseteq dom[at]
         /\ blocks[Top.start].fun = CurrentFun /\ CurrentFun = blocks[at].fun
         /\ CurrentFun \in 1..Len(blocks) /\ CurrentFun # Nowhere
         /\ CurrentFun \in dom[at] /\ CurrentFun \in dom[Top.start]
         /\ \A d \in dom[at] : d \in 1..Len(blocks) /\ blocks[d].fun = CurrentFun
         /\ \A b \in 1..Len(blocks) : dom[b] \subseteq 1..Len(blocks) /\ b \in dom[b]
         /\ \A b \in 1..Len(blocks) : Unplaced(Top, b) => blocks[b].fun = Nowhere
         /\ value \in 0..Len(blocks) /\ (value \in Free \/ value \in dom[at])
         /\ DOMAIN dom = 1..Len(blocks) /\ Blocks(blocks)
<1>1. /\ Top.kind = kind /\ Top.step = step /\ value # Awaited /\ kind # "fun"
      /\ Inductive
  BY DEF Resumed, Branching, Known
<1>2. /\ Solves(dom, blocks) /\ Len(blocks) \in Nat /\ at \in 1..Len(blocks)
      /\ \A b \in 1..Len(blocks) : dom[b] \subseteq 1..Len(blocks) /\ b \in dom[b]
      /\ Top \in Frame /\ Framed(blocks, Top) /\ FrameDom(dom, blocks, Top)
      /\ Avail(dom, Top) \subseteq dom[at]
      /\ dom[Top.start] \subseteq dom[at] /\ blocks[Top.start].fun = CurrentFun
      /\ Top.start \in 1..Len(blocks)
      /\ CurrentFun = blocks[at].fun /\ CurrentFun \in 1..Len(blocks)
      /\ CurrentFun # Nowhere /\ CurrentFun \in dom[at]
      /\ \A d \in dom[at] : blocks[d].fun = CurrentFun
      /\ value \in 0..Len(blocks) /\ (value \in Free \/ value \in dom[at])
  BY <1>1, TopKnown
<1>3. /\ \A b \in 1..Len(blocks) : Unplaced(Top, b) => blocks[b].fun = Nowhere
  BY <1>1, CallFacts
<1>4. CurrentFun \in dom[Top.start]
  BY <1>2 DEF Solves, Fits
<1>5. Later(dom, blocks, dom, blocks)
  BY <1>2, LaterRefl
<1>6. DOMAIN dom = 1..Len(blocks) /\ Blocks(blocks)
  BY <1>2 DEF Solves
<1> QED
  BY <1>1, <1>2, <1>3, <1>4, <1>5, <1>6

\* The header of a loop comes before its body, and before what follows it.
LEMMA LoopDom ==
  ASSUME NEW dom, NEW bs, NEW f, Framed(bs, f), HasHeader(f), HasAfter(f),
         FrameDom(dom, bs, f), Len(bs) \in Nat
  PROVE  /\ f.held \in 1..Len(bs) /\ f.after \in 1..Len(bs) /\ f.next \in 1..Len(bs)
         /\ dom[f.after] = dom[f.start] \cup {f.after}
         /\ dom[f.held] = dom[f.start] \cup {f.held}
         /\ dom[f.start] \cup {f.held} \subseteq Avail(dom, f)
<1>1. /\ f.mark \in Nat /\ f.held > f.mark /\ f.after > f.mark /\ f.next > f.mark
      /\ f.held \in 0..Len(bs) /\ f.next \in 0..Len(bs) /\ f.after \in f.mark + 1..Len(bs)
  BY DEF Framed
<1>2. HasHeader(f) /\ f.kind # "fun"
  BY DEF HasHeader, At
<1> QED
  BY <1>1, <1>2 DEF FrameDom, Avail

\* The condition of a while has been generated.
LEMMA WhileCondDom ==
  ASSUME NEW dom, Known(dom), WhileCond
  PROVE  Agreed
<1> DEFINE a == Top.after
           e == Top.next
           g == [Top EXCEPT !.step = "body"]
           V == {value}
           T == {e, a}
           cs == Branch(Use(blocks, at, V), at, T)
<1>1. Resumed("while", "cond") /\ blocks' = cs /\ at' = e /\ Proceed(g)
  BY DEF WhileCond, CondBranch
<1>2. /\ Solves(dom, blocks) /\ Later(dom, blocks, dom, blocks)
      /\ Len(blocks) \in Nat /\ at \in 1..Len(blocks)
      /\ Top \in Frame /\ Top.kind = "while" /\ Top.step = "cond"
      /\ Framed(blocks, Top) /\ FrameDom(dom, blocks, Top)
      /\ Avail(dom, Top) \subseteq dom[at]
      /\ value \in 0..Len(blocks) /\ (value \in Free \/ value \in dom[at])
  BY <1>1, GoingOn DEF Branching
<1>3. HasHeader(Top) /\ HasAfter(Top) /\ At(Top, "while", {"cond"})
  BY <1>2 DEF HasHeader, HasAfter, At
<1>4. /\ Top.held \in 1..Len(blocks) /\ a \in 1..Len(blocks) /\ e \in 1..Len(blocks)
      /\ dom[a] = dom[Top.start] \cup {a} /\ dom[Top.held] = dom[Top.start] \cup {Top.held}
      /\ dom[e] = dom[Top.held] \cup {e}
      /\ dom[Top.start] \cup {Top.held} \subseteq dom[at]
  <2>1. dom[e] = dom[Top.held] \cup {e}
    BY <1>2, <1>3 DEF FrameDom
  <2> QED
    BY <1>2, <1>3, <2>1, LoopDom
<1>5. /\ g \in Frame /\ g.kind = "while" /\ g.step = "body" /\ g.start = Top.start
      /\ g.held = Top.held /\ g.after = a /\ g.next = e /\ g.incoming = Top.incoming
  <2>1. "body" \in Steps
    BY DEF Steps
  <2> QED
    BY <1>2, <2>1 DEF Frame
<1>6. /\ V \in SUBSET (0..Len(blocks)) /\ \A v \in V : v \in Free \/ v \in dom[at]
      /\ T \in SUBSET (1..Len(blocks)) /\ \A s \in T : dom[s] \ {s} \subseteq dom[at]
  BY <1>2, <1>4
<1> HIDE DEF a, e, g, V, T
<1>7. Solves(dom, cs) /\ SameFuns(blocks, cs)
  BY <1>2, <1>6, ForkSolves
<1> HIDE DEF cs
<1>8. Later(dom, blocks, dom, cs)
  BY <1>2, <1>7, LaterSame
<1>9. cs[g.start].fun # Nowhere
  BY <1>5, <1>8, LaterAt
<1>10. FrameDom(dom, cs, g)
  <2>1. \A k \in 1..Len(g.incoming) : Given(dom, g.incoming[k])
    BY <1>2, <1>5 DEF FrameDom
  <2> QED
    BY <1>4, <1>5, <1>9, <2>1 DEF FrameDom, At
<1>11. Avail(dom, g) \subseteq dom[e]
  BY <1>4, <1>5 DEF Avail, At
<1> QED
  BY <1>1, <1>5, <1>7, <1>8, <1>10, <1>11, ProceedDom

\* The body of a while has been generated.
LEMMA WhileBodyDom ==
  ASSUME NEW dom, Known(dom), WhileBody
  PROVE  Agreed
<1> DEFINE T == {Top.held}
           cs == Branch(blocks, at, T)
<1>1. Resumed("while", "body") /\ blocks' = cs /\ at' = Top.after /\ Return(Const)
  BY DEF WhileBody
<1>2. /\ Solves(dom, blocks) /\ Later(dom, blocks, dom, blocks)
      /\ Len(blocks) \in Nat /\ at \in 1..Len(blocks)
      /\ Top.kind = "while" /\ Top.step = "body"
      /\ Framed(blocks, Top) /\ FrameDom(dom, blocks, Top)
      /\ Avail(dom, Top) \subseteq dom[at]
  BY <1>1, GoingOn DEF Branching
<1>3. HasHeader(Top) /\ HasAfter(Top)
  BY <1>2 DEF HasHeader, HasAfter, At
<1>4. /\ Top.held \in 1..Len(blocks)
      /\ dom[Top.after] = dom[Top.start] \cup {Top.after}
      /\ dom[Top.held] = dom[Top.start] \cup {Top.held}
      /\ dom[Top.start] \cup {Top.held} \subseteq dom[at]
  BY <1>2, <1>3, LoopDom
<1>5. T \in SUBSET (1..Len(blocks)) /\ \A s \in T : dom[s] \ {s} \subseteq dom[at]
  BY <1>4
<1> HIDE DEF T
<1>6. Solves(dom, cs) /\ SameFuns(blocks, cs)
  BY <1>2, <1>5, BranchSolves
<1> HIDE DEF cs
<1>7. Later(dom, blocks, dom, cs)
  BY <1>2, <1>6, LaterSame
<1> QED
  BY <1>1, <1>4, <1>6, <1>7, ReturnDom DEF Free

\* The end of a for is known: the body is entered, or the loop is left.
LEMMA ForToDom ==
  ASSUME NEW dom, Known(dom), ForTo
  PROVE  Agreed
<1> DEFINE a == Top.after
           e == Top.next
           g == [Top EXCEPT !.step = "body"]
           V == {Top.held, value}
           T == {e, a}
           cs == Branch(Use(blocks, at, V), at, T)
<1>1. Resumed("for", "to") /\ blocks' = cs /\ at' = e /\ Proceed(g)
  BY DEF ForTo
<1>2. /\ Solves(dom, blocks) /\ Later(dom, blocks, dom, blocks)
      /\ Len(blocks) \in Nat /\ at \in 1..Len(blocks)
      /\ Top \in Frame /\ Top.kind = "for" /\ Top.step = "to"
      /\ Framed(blocks, Top) /\ FrameDom(dom, blocks, Top)
      /\ Avail(dom, Top) \subseteq dom[at]
      /\ value \in 0..Len(blocks) /\ (value \in Free \/ value \in dom[at])
  BY <1>1, GoingOn DEF Branching
<1>3. HasHeader(Top) /\ HasAfter(Top) /\ At(Top, "for", {"to", "body"})
  BY <1>2 DEF HasHeader, HasAfter, At
<1>4. /\ Top.held \in 1..Len(blocks) /\ a \in 1..Len(blocks) /\ e \in 1..Len(blocks)
      /\ dom[a] = dom[Top.start] \cup {a} /\ dom[Top.held] = dom[Top.start] \cup {Top.held}
      /\ dom[e] = dom[Top.held] \cup {e}
      /\ dom[Top.start] \cup {Top.held} \subseteq dom[at]
  <2>1. dom[e] = dom[Top.held] \cup {e}
    BY <1>2, <1>3 DEF FrameDom
  <2> QED
    BY <1>2, <1>3, <2>1, LoopDom
<1>5. /\ g \in Frame /\ g.kind = "for" /\ g.step = "body" /\ g.start = Top.start
      /\ g.held = Top.held /\ g.after = a /\ g.next = e /\ g.incoming = Top.incoming
  <2>1. "body" \in Steps
    BY DEF Steps
  <2> QED
    BY <1>2, <2>1 DEF Frame
<1>6. /\ V \in SUBSET (0..Len(blocks)) /\ \A v \in V : v \in Free \/ v \in dom[at]
      /\ T \in SUBSET (1..Len(blocks)) /\ \A s \in T : dom[s] \ {s} \subseteq dom[at]
  BY <1>2, <1>4
<1> HIDE DEF a, e, g, V, T
<1>7. Solves(dom, cs) /\ SameFuns(blocks, cs)
  BY <1>2, <1>6, ForkSolves
<1> HIDE DEF cs
<1>8. Later(dom, blocks, dom, cs)
  BY <1>2, <1>7, LaterSame
<1>9. cs[g.start].fun # Nowhere
  BY <1>5, <1>8, LaterAt
<1>10. FrameDom(dom, cs, g)
  <2>1. \A k \in 1..Len(g.incoming) : Given(dom, g.incoming[k])
    BY <1>2, <1>5 DEF FrameDom
  <2> QED
    BY <1>4, <1>5, <1>9, <2>1 DEF FrameDom, At
<1>11. Avail(dom, g) \subseteq dom[e]
  BY <1>4, <1>5 DEF Avail, At
<1> QED
  BY <1>1, <1>5, <1>7, <1>8, <1>10, <1>11, ProceedDom

\* The body of a for comes back with the next value of the counter.
LEMMA ForBodyDom ==
  ASSUME NEW dom, Known(dom), ForBody
  PROVE  Agreed
<1> DEFINE l == Top.held
           e == Top.next
           V == {l}
           T == {l}
           us == Use(blocks, e, V)
           ps == Append(us[l].phi, Pair(e, at))
           bs == Phi(us, l, ps)
           cs == Branch(bs, at, T)
<1>1. Resumed("for", "body") /\ blocks' = cs /\ at' = Top.after /\ Return(Const)
  BY DEF ForBody
<1>2. /\ Solves(dom, blocks) /\ Later(dom, blocks, dom, blocks)
      /\ Len(blocks) \in Nat /\ at \in 1..Len(blocks)
      /\ Top.kind = "for" /\ Top.step = "body"
      /\ Framed(blocks, Top) /\ FrameDom(dom, blocks, Top)
      /\ Avail(dom, Top) \subseteq dom[at] /\ DOMAIN dom = 1..Len(blocks)
  BY <1>1, GoingOn DEF Branching
<1>3. HasHeader(Top) /\ HasAfter(Top) /\ At(Top, "for", {"to", "body"})
  BY <1>2 DEF HasHeader, HasAfter, At
<1>4. /\ l \in 1..Len(blocks) /\ e \in 1..Len(blocks)
      /\ dom[Top.after] = dom[Top.start] \cup {Top.after}
      /\ dom[l] = dom[Top.start] \cup {l} /\ dom[e] = dom[l] \cup {e}
      /\ dom[Top.start] \cup {l} \subseteq dom[at] /\ e \in dom[at]
  <2>1. dom[e] = dom[l] \cup {e}
    BY <1>2, <1>3 DEF FrameDom
  <2>2. e \in Avail(dom, Top)
    BY <1>2 DEF Avail, At
  <2> QED
    BY <1>2, <1>3, <2>1, <2>2, LoopDom
<1>5. /\ V \in SUBSET (0..Len(blocks)) /\ \A v \in V : v \in Free \/ v \in dom[e]
      /\ T \in SUBSET (1..Len(blocks)) /\ \A s \in T : dom[s] \ {s} \subseteq dom[at]
  BY <1>4
<1> HIDE DEF l, e, V, T
<1>6. Solves(dom, us) /\ SameFuns(blocks, us)
  BY <1>2, <1>4, <1>5, UseSolves
<1> HIDE DEF us
<1>7. Len(us) = Len(blocks) /\ l \in 1..Len(us) /\ at \in 1..Len(us)
  BY <1>2, <1>4, <1>6 DEF SameFuns
<1>8. ps \in Pairs /\ \A k \in 1..Len(ps) : Given(dom, ps[k])
  <2>1. us[l].phi \in Pairs /\ \A k \in 1..Len(us[l].phi) : Given(dom, us[l].phi[k])
    <3>1. us[l] \in Block /\ Fits(dom, us, l)
      BY <1>6, <1>7 DEF Solves, Blocks
    <3> QED
      BY <3>1 DEF Block, Pairs, Fits
  <2>2. e \in Nat /\ at \in Nat /\ at \in DOMAIN dom /\ e \in dom[at]
    BY <1>2, <1>4
  <2> QED
    BY <2>1, <2>2, AppendGiven
<1> HIDE DEF ps
<1>9. Solves(dom, bs) /\ SameFuns(us, bs)
  BY <1>6, <1>7, <1>8, PhiSolves DEF Pairs
<1> HIDE DEF bs
<1>10. Solves(dom, cs) /\ SameFuns(bs, cs)
  <2>1. at \in 1..Len(bs) /\ T \in SUBSET (1..Len(bs))
    BY <1>5, <1>7, <1>9 DEF SameFuns
  <2> QED
    BY <1>5, <1>9, <2>1, BranchSolves
<1> HIDE DEF cs
<1>11. Later(dom, blocks, dom, cs)
  <2>1. Later(dom, blocks, dom, us)
    BY <1>2, <1>6, LaterSame
  <2>2. Later(dom, blocks, dom, bs)
    BY <1>9, <2>1, LaterSame
  <2> QED
    BY <1>10, <2>2, LaterSame
<1> QED
  BY <1>1, <1>4, <1>10, <1>11, ReturnDom DEF Free

\* Three blocks are made in the function of the insert block.
LEMMA ThreeDom ==
  ASSUME NEW n \in Nat, NEW dom, NEW A, NEW B, NEW C, n = Len(blocks), Known(dom),
         Inside(blocks, CurrentFun, n + 3, A), Inside(blocks, CurrentFun, n + 3, B),
         Inside(blocks, CurrentFun, n + 3, C),
         NEW dm, dm = WithThree(dom, n, A, B, C)
  PROVE  /\ Solves(dm, More(blocks, CurrentFun))
         /\ Later(dom, blocks, dm, More(blocks, CurrentFun))
         /\ dm[n + 1] = With(A, n + 1) /\ dm[n + 2] = With(B, n + 2)
         /\ dm[n + 3] = With(C, n + 3)
         /\ dm[at] = dom[at] /\ dm[Top.start] = dom[Top.start]
         /\ DOMAIN dm = 1..n + 3 /\ Len(More(blocks, CurrentFun)) = n + 3
<1> DEFINE F == CurrentFun
           more == More(blocks, F)
<1>1. /\ Solves(dom, blocks) /\ n \in Nat /\ at \in 1..n /\ F \in 1..n
      /\ \A d \in dom[at] : d \in 1..n /\ blocks[d].fun = F
  BY TopKnown
<1>2. /\ n \in Nat /\ F \in Nat /\ Solves(dom, blocks) /\ n = Len(blocks) /\ F \in 1..n
      /\ Inside(blocks, F, n + 3, A) /\ Inside(blocks, F, n + 3, B)
      /\ Inside(blocks, F, n + 3, C)
  BY <1>1
<1>3. Len(More(blocks, CurrentFun)) = n + 3
  <2>1. Blocks(blocks) /\ F \in Nat
    BY <1>1 DEF Solves
  <2> HIDE DEF F, more
  <2>2. Len(More(blocks, F)) = Len(blocks) + 3
    BY ONLY <2>1, ThreeMore
  <2> QED
    BY <2>2 DEF F
<1> HIDE DEF F, more
<1>4. /\ Solves(dm, More(blocks, F)) /\ Later(dom, blocks, dm, More(blocks, F))
      /\ dm[n + 1] = With(A, n + 1) /\ dm[n + 2] = With(B, n + 2)
      /\ dm[n + 3] = With(C, n + 3)
  <2>1. GivesThree(dm, dom, blocks, n, F, A, B, C)
    BY <1>2 DEF GivesThree
  <2> QED
    BY ONLY <2>1, MoreSolves
<1>5. /\ Solves(dm, More(blocks, CurrentFun))
      /\ Later(dom, blocks, dm, More(blocks, CurrentFun))
  BY <1>4 DEF F
<1>6. dm[at] = dom[at] /\ dm[Top.start] = dom[Top.start] /\ DOMAIN dm = 1..n + 3
  BY <1>3, <1>5, LaterAt DEF Later
<1> QED
  BY <1>3, <1>4, <1>5, <1>6

\* The start of a for is known: the loop is entered.
LEMMA ForFromDom ==
  ASSUME NEW dom, Known(dom), ForFrom
  PROVE  Agreed
<1> DEFINE n == Len(blocks)
           h == n + 1
           D == dom[Top.start]
           B == D \cup {h}
           g == [Top EXCEPT !.step = "to", !.held = h, !.next = h + 1, !.after = h + 2]
           ps == <<Pair(value, at)>>
           T == {h}
           more == More(blocks, CurrentFun)
           bs == Phi(more, h, ps)
           cs == Branch(bs, at, T)
<1>1. Resumed("for", "from") /\ blocks' = cs /\ at' = h /\ Proceed(g)
  BY DEF ForFrom, More
<1>2. /\ Solves(dom, blocks) /\ n \in Nat /\ at \in 1..n
      /\ Top \in Frame /\ Top.kind = "for" /\ Top.step = "from"
      /\ Framed(blocks, Top) /\ FrameDom(dom, blocks, Top)
      /\ D \subseteq dom[at] /\ CurrentFun \in 1..n /\ CurrentFun \in D
      /\ \A d \in dom[at] : d \in 1..n /\ blocks[d].fun = CurrentFun
      /\ value \in Nat /\ (value \in Free \/ value \in dom[at])
      /\ Top.start \in 1..n
  BY <1>1, GoingOn DEF Branching
<1>3. h \in Nat /\ h + 1 \in Nat /\ h + 2 \in Nat /\ h = n + 1 /\ at \in Nat
      /\ h # Const
  BY <1>2 DEF Const
<1>4. /\ g \in Frame /\ g.kind = "for" /\ g.step = "to" /\ g.start = Top.start
      /\ g.held = h /\ g.next = h + 1 /\ g.after = h + 2 /\ g.incoming = Top.incoming
  <2>1. "to" \in Steps
    BY DEF Steps
  <2> QED
    BY <1>2, <1>3, <2>1 DEF Frame
<1>5. /\ Inside(blocks, CurrentFun, n + 3, D) /\ Inside(blocks, CurrentFun, n + 3, B)
      /\ B = D \cup {h} /\ n = Len(blocks)
  BY <1>2 DEF Inside
<1> HIDE DEF g, B, n, D
<1> DEFINE dm == WithThree(dom, n, D, B, D)
<1>6. /\ Solves(dm, more) /\ Later(dom, blocks, dm, more)
      /\ dm[n + 1] = With(D, n + 1) /\ dm[n + 2] = With(B, n + 2)
      /\ dm[n + 3] = With(D, n + 3)
      /\ dm[at] = dom[at] /\ dm[Top.start] = dom[Top.start]
      /\ DOMAIN dm = 1..n + 3 /\ Len(more) = n + 3
  BY <1>2, <1>5, ThreeDom
<1> HIDE DEF dm
<1> HIDE DEF more
<1>7. /\ dm[h] = D \cup {h} /\ dm[h + 1] = dm[h] \cup {h + 1}
      /\ dm[h + 2] = D \cup {h + 2}
  BY <1>3, <1>5, <1>6 DEF With
<1>8. /\ dm[at] = dom[at] /\ dm[Top.start] = D
      /\ at \in 1..Len(more) /\ h \in 1..Len(more) /\ DOMAIN dm = 1..Len(more)
  BY <1>2, <1>3, <1>6 DEF D
<1> HIDE DEF D, h
<1>9. ps \in Pairs /\ \A k \in 1..Len(ps) : Given(dm, ps[k])
  BY <1>2, <1>3, <1>8, OneGiven
<1> HIDE DEF ps
<1>10. Solves(dm, bs) /\ SameFuns(more, bs)
  BY <1>6, <1>8, <1>9, PhiSolves DEF Pairs
<1> HIDE DEF bs
<1>11. Solves(dm, cs) /\ SameFuns(bs, cs)
  <2>1. at \in 1..Len(bs) /\ T \in SUBSET (1..Len(bs))
    BY <1>8, <1>10 DEF SameFuns
  <2>2. \A s \in T : dm[s] \ {s} \subseteq dm[at]
    BY <1>2, <1>7, <1>8
  <2> HIDE DEF T
  <2> QED
    BY <1>10, <2>1, <2>2, BranchSolves
<1> HIDE DEF cs
<1>12. Later(dom, blocks, dm, cs)
  <2>1. Later(dom, blocks, dm, bs)
    BY <1>6, <1>10, LaterSame
  <2> QED
    BY <1>11, <2>1, LaterSame
<1>13. FrameDom(dm, cs, Top) /\ cs[Top.start].fun # Nowhere
  BY <1>2, <1>12, FrameDomKept, LaterAt
<1>14. FrameDom(dm, cs, g)
  <2>1. \A k \in 1..Len(g.incoming) : Given(dm, g.incoming[k])
    BY <1>4, <1>13 DEF FrameDom
  <2> QED
    BY <1>4, <1>7, <1>8, <1>13, <2>1 DEF FrameDom, At
<1>15. Avail(dm, g) \subseteq dm[h]
  BY <1>4, <1>7, <1>8 DEF Avail, At
<1> QED
  BY <1>1, <1>4, <1>11, <1>12, <1>14, <1>15, ProceedDom

\* A while starts: its condition is next.
LEMMA WhileStartDom ==
  ASSUME NEW dom, Known(dom), WhileStart
  PROVE  Agreed
<1> DEFINE n == Len(blocks)
           h == n + 1
           D == dom[at]
           B == D \cup {h}
           f == FrameOf("while", "cond")
           g == [f EXCEPT !.held = h, !.next = h + 1, !.after = h + 2]
           T == {h}
           more == More(blocks, CurrentFun)
           cs == Branch(more, at, T)
<1>1. blocks' = cs /\ at' = h /\ Enter(g)
  BY DEF WhileStart, More
<1>2. /\ Solves(dom, blocks) /\ n \in Nat /\ at \in 1..n /\ Inductive
      /\ CurrentFun \in 1..n /\ CurrentFun \in D
      /\ \A d \in D : d \in 1..n /\ blocks[d].fun = CurrentFun
  BY TopKnown DEF Known
<1>3. h \in Nat /\ h + 1 \in Nat /\ h + 2 \in Nat /\ h = n + 1
  BY <1>2
<1>f. /\ f \in Frame /\ f.kind = "while" /\ f.step = "cond" /\ f.start = at
      /\ f.incoming = <<>>
  <2>1. "while" \in Kinds /\ "cond" \in Steps
    BY DEF Kinds, Steps
  <2> QED
    BY <1>2, <2>1, NewFrame
<1> HIDE DEF f
<1>4. /\ g \in Frame /\ g.kind = "while" /\ g.step = "cond" /\ g.start = at
      /\ g.held = h /\ g.next = h + 1 /\ g.after = h + 2 /\ g.incoming = <<>>
  BY <1>3, <1>f DEF Frame
<1>5. /\ Inside(blocks, CurrentFun, n + 3, D) /\ Inside(blocks, CurrentFun, n + 3, B)
      /\ B = D \cup {h} /\ n = Len(blocks)
  BY <1>2 DEF Inside
<1> HIDE DEF g, B, n, D
<1> DEFINE dm == WithThree(dom, n, D, B, D)
<1>6. /\ Solves(dm, more) /\ Later(dom, blocks, dm, more)
      /\ dm[n + 1] = With(D, n + 1) /\ dm[n + 2] = With(B, n + 2)
      /\ dm[n + 3] = With(D, n + 3)
      /\ dm[at] = dom[at] /\ Len(more) = n + 3
  BY <1>2, <1>5, ThreeDom
<1> HIDE DEF dm, more
<1>7. /\ dm[h] = D \cup {h} /\ dm[h + 1] = dm[h] \cup {h + 1}
      /\ dm[h + 2] = D \cup {h + 2} /\ dm[at] = D
      /\ at \in 1..Len(more) /\ h \in 1..Len(more)
  BY <1>2, <1>3, <1>5, <1>6 DEF With, D
<1> HIDE DEF h
<1>8. Solves(dm, cs) /\ SameFuns(more, cs)
  <2>1. T \in SUBSET (1..Len(more)) /\ \A s \in T : dm[s] \ {s} \subseteq dm[at]
    BY <1>7
  <2> HIDE DEF T
  <2> QED
    BY <1>6, <1>7, <2>1, BranchSolves
<1> HIDE DEF cs
<1>9. Later(dom, blocks, dm, cs)
  BY <1>6, <1>8, LaterSame
<1>10. cs[at].fun # Nowhere
  BY <1>9, LaterAt
<1>11. FrameDom(dm, cs, g)
  <2>1. \A k \in 1..Len(g.incoming) : Given(dm, g.incoming[k])
    BY <1>4
  <2> QED
    BY <1>4, <1>7, <1>10, <2>1 DEF FrameDom, At
<1>12. Avail(dm, g) \subseteq dm[h]
  BY <1>4, <1>7 DEF Avail, At
<1> QED
  BY <1>1, <1>4, <1>8, <1>9, <1>11, <1>12, EnterDom

\* The condition of an if has been generated, and the then part is next.
LEMMA IfCondDom ==
  ASSUME NEW dom, Known(dom), IfCond
  PROVE  Agreed
<1> DEFINE n == Len(blocks)
           h == n + 1
           D == dom[Top.start]
           B == dom[at]
           g == [Top EXCEPT !.step = "then", !.next = n + 2, !.after = n + 3,
                            !.held = h]
           V == {value}
           T == {n + 1, n + 2}
           more == More(blocks, CurrentFun)
           cs == Branch(Use(more, at, V), at, T)
<1>1. Resumed("if", "cond") /\ blocks' = cs /\ at' = h /\ Proceed(g)
  BY DEF IfCond, CondBranch, More
<1>2. /\ Solves(dom, blocks) /\ n \in Nat /\ at \in 1..n
      /\ Top \in Frame /\ Top.kind = "if" /\ Top.step = "cond"
      /\ Framed(blocks, Top) /\ FrameDom(dom, blocks, Top)
      /\ D \subseteq B /\ CurrentFun \in 1..n /\ CurrentFun \in D
      /\ \A d \in B : d \in 1..n /\ blocks[d].fun = CurrentFun
      /\ value \in 0..n /\ (value \in Free \/ value \in B)
      /\ Top.start \in 1..n
  BY <1>1, GoingOn DEF Branching
<1>3. h \in Nat /\ n + 2 \in Nat /\ n + 3 \in Nat /\ h = n + 1
  BY <1>2
<1>4. /\ g \in Frame /\ g.kind = "if" /\ g.step = "then" /\ g.start = Top.start
      /\ g.next = n + 2 /\ g.after = n + 3 /\ g.incoming = Top.incoming
  <2>1. "then" \in Steps
    BY DEF Steps
  <2> QED
    BY <1>2, <1>3, <2>1 DEF Frame
<1>5. /\ Inside(blocks, CurrentFun, n + 3, D) /\ Inside(blocks, CurrentFun, n + 3, B)
      /\ n = Len(blocks)
  BY <1>2 DEF Inside
<1> HIDE DEF g, B, n, D
<1> DEFINE dm == WithThree(dom, n, B, B, D)
<1>6. /\ Solves(dm, more) /\ Later(dom, blocks, dm, more)
      /\ dm[n + 1] = With(B, n + 1) /\ dm[n + 2] = With(B, n + 2)
      /\ dm[n + 3] = With(D, n + 3)
      /\ dm[at] = dom[at] /\ dm[Top.start] = dom[Top.start]
      /\ Len(more) = n + 3
  BY <1>2, <1>5, ThreeDom
<1> HIDE DEF dm, more
<1>7. /\ dm[h] = B \cup {h} /\ dm[n + 2] = B \cup {n + 2}
      /\ dm[n + 3] = D \cup {n + 3} /\ dm[at] = B /\ dm[Top.start] = D
      /\ at \in 1..Len(more) /\ n + 1 \in 1..Len(more) /\ n + 2 \in 1..Len(more)
  BY <1>2, <1>3, <1>6 DEF With, B, D
<1>8. Solves(dm, cs) /\ SameFuns(more, cs)
  <2>1. /\ T \in SUBSET (1..Len(more)) /\ \A s \in T : dm[s] \ {s} \subseteq dm[at]
        /\ V \in SUBSET (0..Len(more)) /\ \A v \in V : v \in Free \/ v \in dm[at]
    BY <1>2, <1>3, <1>6, <1>7
  <2> HIDE DEF T, V
  <2> QED
    BY <1>6, <1>7, <2>1, ForkSolves
<1> HIDE DEF cs, h
<1>9. Later(dom, blocks, dm, cs)
  BY <1>6, <1>8, LaterSame
<1>10. FrameDom(dm, cs, Top)
  <2> HIDE DEF T, V
  <2> QED
    BY <1>2, <1>9, FrameDomKept
<1>11. FrameDom(dm, cs, g)
  <2>1. \A k \in 1..Len(g.incoming) : Given(dm, g.incoming[k])
    BY <1>4, <1>10 DEF FrameDom
  <2>2. cs[g.start].fun # Nowhere
    BY <1>4, <1>10 DEF FrameDom
  <2> QED
    BY <1>2, <1>4, <1>7, <2>1, <2>2 DEF FrameDom, HasHeader, At
<1>12. Avail(dm, g) \subseteq dm[h]
  BY <1>2, <1>4, <1>7 DEF Avail, Holds, HasHeader, At
<1> QED
  BY <1>1, <1>4, <1>8, <1>9, <1>11, <1>12, ProceedDom

\* The then part has been generated, and there is an else part.
LEMMA IfThenElseDom ==
  ASSUME NEW dom, Known(dom), IfThen, Top.more
  PROVE  Agreed
<1> DEFINE a == Top.after
           e == Top.next
           ps == <<Pair(value, at)>>
           g == [Top EXCEPT !.step = "else", !.incoming = ps]
           T == {a}
           cs == Branch(blocks, at, T)
<1>1. Resumed("if", "then") /\ blocks' = cs /\ at' = e /\ Proceed(g)
  BY DEF IfThen, ThenPair
<1>2. /\ Solves(dom, blocks) /\ Later(dom, blocks, dom, blocks)
      /\ Len(blocks) \in Nat /\ at \in 1..Len(blocks)
      /\ Top \in Frame /\ Top.kind = "if" /\ Top.step = "then"
      /\ Framed(blocks, Top) /\ FrameDom(dom, blocks, Top)
      /\ dom[Top.start] \subseteq dom[at] /\ DOMAIN dom = 1..Len(blocks)
      /\ value \in Nat /\ (value \in Free \/ value \in dom[at])
  BY <1>1, GoingOn DEF Branching
<1>3. HasAfter(Top) /\ At(Top, "if", {"then"})
  BY <1>2 DEF HasAfter, At
<1>4. /\ a \in 1..Len(blocks) /\ dom[a] = dom[Top.start] \cup {a}
      /\ dom[Top.start] \subseteq dom[e]
  BY <1>2, <1>3 DEF Framed, FrameDom
<1>5. ps \in Pairs /\ \A k \in 1..Len(ps) : Given(dom, ps[k])
  <2>1. at \in Nat
    BY <1>2
  <2> QED
    BY <1>2, <2>1, OneGiven
<1> HIDE DEF ps
<1>6. /\ g \in Frame /\ g.kind = "if" /\ g.step = "else" /\ g.start = Top.start
      /\ g.after = a /\ g.incoming = ps
  <2>1. "else" \in Steps
    BY DEF Steps
  <2> QED
    BY <1>2, <1>5, <2>1 DEF Frame, Pairs
<1>7. T \in SUBSET (1..Len(blocks)) /\ \A s \in T : dom[s] \ {s} \subseteq dom[at]
  BY <1>2, <1>4
<1> HIDE DEF a, e, g, T
<1>8. Solves(dom, cs) /\ SameFuns(blocks, cs)
  BY <1>2, <1>7, BranchSolves
<1> HIDE DEF cs
<1>9. Later(dom, blocks, dom, cs)
  BY <1>2, <1>8, LaterSame
<1>10. cs[g.start].fun # Nowhere
  BY <1>6, <1>9, LaterAt
<1>11. FrameDom(dom, cs, g)
  BY <1>4, <1>5, <1>6, <1>10 DEF FrameDom, HasHeader, At
<1>12. Avail(dom, g) \subseteq dom[e]
  BY <1>4, <1>6 DEF Avail, Holds, HasHeader, At
<1> QED
  BY <1>1, <1>6, <1>8, <1>9, <1>11, <1>12, ProceedDom

\* The then part has been generated, and there is no else part.
LEMMA IfThenEndDom ==
  ASSUME NEW dom, Known(dom), IfThen, ~Top.more
  PROVE  Agreed
<1> DEFINE a == Top.after
           e == Top.next
           ps == <<Pair(value, at), Pair(Const, e)>>
           T == {a}
           bs == Branch(blocks, at, T)
           es == Branch(bs, e, T)
           cs == Phi(es, a, ps)
<1>1. Resumed("if", "then") /\ blocks' = cs /\ at' = a /\ Return(a)
  BY DEF IfThen, IfEnd, ThenPair, NoElse
<1>2. /\ Solves(dom, blocks) /\ Later(dom, blocks, dom, blocks)
      /\ Len(blocks) \in Nat /\ at \in 1..Len(blocks)
      /\ Top \in Frame /\ Top.kind = "if" /\ Top.step = "then"
      /\ Framed(blocks, Top) /\ FrameDom(dom, blocks, Top)
      /\ dom[Top.start] \subseteq dom[at] /\ DOMAIN dom = 1..Len(blocks)
      /\ value \in Nat /\ (value \in Free \/ value \in dom[at])
  BY <1>1, GoingOn DEF Branching
<1>3. HasAfter(Top) /\ HasNext(Top) /\ At(Top, "if", {"then"})
  BY <1>2 DEF HasAfter, HasNext, At
<1>4. /\ a \in 1..Len(blocks) /\ dom[a] = dom[Top.start] \cup {a}
      /\ dom[Top.start] \subseteq dom[e] /\ e \in 1..Len(blocks)
  <2>1. /\ Top.mark \in Nat /\ a \in Top.mark + 1..Len(blocks)
        /\ e \in 0..Len(blocks) /\ e > Top.mark
    BY <1>2, <1>3 DEF Framed
  <2> QED
    BY <1>2, <1>3, <2>1 DEF FrameDom
<1>5. ps \in Pairs /\ \A k \in 1..Len(ps) : Given(dom, ps[k])
  <2> DEFINE p == Pair(value, at)
             q == Pair(Const, e)
  <2>1. /\ p \in [val: Nat, from: Nat] /\ Given(dom, p)
        /\ q \in [val: Nat, from: Nat] /\ Given(dom, q)
    BY <1>2, <1>4 DEF Pair, Given, Const, Free
  <2> HIDE DEF p, q
  <2>2. ps \in Pairs /\ Len(ps) = 2 /\ ps[1] = p /\ ps[2] = q
    BY <2>1 DEF Pairs, p, q
  <2>3. \A k \in 1..Len(ps) : k = 1 \/ k = 2
    BY <2>2
  <2> QED
    BY <2>1, <2>2, <2>3
<1>6. /\ T \in SUBSET (1..Len(blocks)) /\ \A s \in T : dom[s] \ {s} \subseteq dom[at]
      /\ \A s \in T : dom[s] \ {s} \subseteq dom[e]
  BY <1>2, <1>4
<1> HIDE DEF a, e, ps, T
<1>7. Solves(dom, bs) /\ SameFuns(blocks, bs)
  BY <1>2, <1>6, BranchSolves
<1> HIDE DEF bs
<1>8. Solves(dom, es) /\ SameFuns(bs, es)
  <2>1. e \in 1..Len(bs) /\ T \in SUBSET (1..Len(bs))
    BY <1>4, <1>6, <1>7 DEF SameFuns
  <2> QED
    BY <1>6, <1>7, <2>1, BranchSolves
<1> HIDE DEF es
<1>9. Solves(dom, cs) /\ SameFuns(es, cs)
  <2>1. a \in 1..Len(es)
    BY <1>4, <1>7, <1>8 DEF SameFuns
  <2> QED
    BY <1>5, <1>8, <2>1, PhiSolves DEF Pairs
<1> HIDE DEF cs
<1>10. Later(dom, blocks, dom, cs)
  <2>1. Later(dom, blocks, dom, bs)
    BY <1>2, <1>7, LaterSame
  <2>2. Later(dom, blocks, dom, es)
    BY <1>8, <2>1, LaterSame
  <2> QED
    BY <1>9, <2>2, LaterSame
<1>11. dom[Top.start] \subseteq dom[a] /\ a \in dom[a]
  BY <1>4
<1> QED
  BY <1>1, <1>9, <1>10, <1>11, ReturnDom

\* The else part has been generated.  It ends in the block it started in, as
\* long as no else part branches: the PHI names that block.
LEMMA IfElseDom ==
  ASSUME NEW dom, Known(dom), ~ElseBranches, IfElse
  PROVE  Agreed
<1> DEFINE a == Top.after
           e == Top.next
           ps == Append(Top.incoming, Pair(value, e))
           T == {a}
           bs == Branch(blocks, at, T)
           cs == Phi(bs, a, ps)
<1>1. Resumed("if", "else") /\ blocks' = cs /\ at' = a /\ Return(a)
  BY DEF IfElse, IfEnd
<1>2. /\ Solves(dom, blocks) /\ Later(dom, blocks, dom, blocks)
      /\ Len(blocks) \in Nat /\ at \in 1..Len(blocks) /\ Inductive
      /\ Top \in Frame /\ Top.kind = "if" /\ Top.step = "else"
      /\ Framed(blocks, Top) /\ FrameDom(dom, blocks, Top)
      /\ dom[Top.start] \subseteq dom[at] /\ DOMAIN dom = 1..Len(blocks)
      /\ value \in Nat /\ (value \in Free \/ value \in dom[at])
  BY <1>1, GoingOn DEF Branching
<1>3. HasAfter(Top)
  BY <1>2 DEF HasAfter, At
<1>4. a \in 1..Len(blocks) /\ dom[a] = dom[Top.start] \cup {a}
  BY <1>2, <1>3 DEF Framed, FrameDom
<1>5. at = e
  <2>0. ElseStays(stack, at)
    BY <1>2 DEF Inductive, Sound
  <2>1. Len(stack) \in 1..Len(stack) /\ Len(stack) \in Nat
    BY <1>1, <1>2 DEF Inductive, Sound, Resumed, Done
  <2>2. NoFun(stack, Len(stack) + 1, Len(stack))
    BY <2>1 DEF NoFun
  <2>3. At(stack[Len(stack)], "if", {"else"})
    BY <1>2 DEF At, Top
  <2> QED
    BY <2>0, <2>1, <2>2, <2>3 DEF ElseStays, Top
<1>6. ps \in Pairs /\ \A k \in 1..Len(ps) : Given(dom, ps[k])
  <2>1. Top.incoming \in Pairs /\ \A k \in 1..Len(Top.incoming) : Given(dom, Top.incoming[k])
    BY <1>2 DEF Frame, Pairs, FrameDom
  <2>2. e \in Nat /\ e \in DOMAIN dom /\ (value \in Free \/ value \in dom[e])
    BY <1>2, <1>5
  <2> HIDE DEF e
  <2> QED
    BY <1>2, <2>1, <2>2, AppendGiven
<1>7. T \in SUBSET (1..Len(blocks)) /\ \A s \in T : dom[s] \ {s} \subseteq dom[at]
  BY <1>2, <1>4
<1> HIDE DEF a, e, ps, T
<1>8. Solves(dom, bs) /\ SameFuns(blocks, bs)
  BY <1>2, <1>7, BranchSolves
<1> HIDE DEF bs
<1>9. Solves(dom, cs) /\ SameFuns(bs, cs)
  <2>1. a \in 1..Len(bs)
    BY <1>4, <1>8 DEF SameFuns
  <2> QED
    BY <1>6, <1>8, <2>1, PhiSolves DEF Pairs
<1> HIDE DEF cs
<1>10. Later(dom, blocks, dom, cs)
  <2>1. Later(dom, blocks, dom, bs)
    BY <1>2, <1>8, LaterSame
  <2> QED
    BY <1>9, <2>1, LaterSame
<1>11. dom[Top.start] \subseteq dom[a] /\ a \in dom[a]
  BY <1>4
<1> QED
  BY <1>1, <1>9, <1>10, <1>11, ReturnDom

\* Two blocks are made.
LEMMA TwoDom ==
  ASSUME NEW n \in Nat, NEW dom, NEW A, NEW B, n = Len(blocks), Known(dom),
         NEW G, NEW H, Home(CurrentFun, G), Home(CurrentFun, H),
         Inside(blocks, CurrentFun, n, A), Inside(blocks, CurrentFun, n, B),
         NEW dm, dm = WithTwo(dom, n, A, B)
  PROVE  /\ Solves(dm, AndTwo(blocks, G, H))
         /\ Later(dom, blocks, dm, AndTwo(blocks, G, H))
         /\ dm[n + 1] = With(A, n + 1) /\ dm[n + 2] = With(B, n + 2)
         /\ dm[at] = dom[at] /\ dm[Top.start] = dom[Top.start]
         /\ Len(AndTwo(blocks, G, H)) = n + 2
         /\ \A b \in 1..n : AndTwo(blocks, G, H)[b] = blocks[b]
         /\ AndTwo(blocks, G, H)[n + 1].fun = G /\ AndTwo(blocks, G, H)[n + 2].fun = H
<1> DEFINE F == CurrentFun
           ts == AndTwo(blocks, G, H)
<1>1. Solves(dom, blocks) /\ Blocks(blocks) /\ F \in 1..n /\ F \in Nat
  BY TopKnown DEF Solves
<1>2. /\ n \in Nat /\ F \in Nat /\ G \in Nat /\ H \in Nat
      /\ Solves(dom, blocks) /\ n = Len(blocks) /\ F \in 1..n
      /\ Home(F, G) /\ Home(F, H) /\ Inside(blocks, F, n, A)
      /\ Inside(blocks, F, n, B) /\ dm = WithTwo(dom, n, A, B)
  BY <1>1 DEF Nowhere, Home
<1> HIDE DEF F
<1>3. /\ Solves(dm, ts) /\ Later(dom, blocks, dm, ts)
      /\ dm[n + 1] = With(A, n + 1) /\ dm[n + 2] = With(B, n + 2)
  <2>1. ts = AndTwo(blocks, G, H)
    OBVIOUS
  <2> HIDE DEF ts
  <2>2. Solves(dm, AndTwo(blocks, G, H))
    BY ONLY <1>2, TwoSolves
  <2>3. Later(dom, blocks, dm, AndTwo(blocks, G, H))
    BY ONLY <1>2, TwoSolves
  <2>4. dm[n + 1] = With(A, n + 1) /\ dm[n + 2] = With(B, n + 2)
    BY ONLY <1>2, <2>2, TwoSolves
  <2> QED
    BY <2>1, <2>2, <2>3, <2>4
<1>4. /\ Len(ts) = Len(blocks) + 2
      /\ \A b \in 1..Len(blocks) : ts[b] = blocks[b]
      /\ ts[Len(blocks) + 1].fun = G /\ ts[Len(blocks) + 2].fun = H
  <2>1. Blocks(blocks) /\ G \in Nat /\ H \in Nat /\ ts = AndTwo(blocks, G, H)
    BY <1>1, <1>2
  <2> HIDE DEF ts
  <2> QED
    BY ONLY <2>1, TwoMore
<1> HIDE DEF ts
<1>5. dm[at] = dom[at] /\ dm[Top.start] = dom[Top.start]
  BY <1>3, LaterAt
<1> QED
  BY <1>2, <1>3, <1>4, <1>5 DEF ts

\* The scrutinee of a match has been generated, and the first pattern is next.
LEMMA MatchExprDom ==
  ASSUME NEW dom, Known(dom), MatchExpr
  PROVE  Agreed
<1> DEFINE n == Len(blocks)
           a == n + 1
           e == n + 2
           D == dom[Top.start]
           B == dom[at]
           g == [Top EXCEPT !.step = "pattern", !.held = value, !.next = e, !.after = a]
           T == {e}
           more == AndTwo(blocks, Nowhere, Nowhere)
           bs == Attach(more, e, CurrentFun)
           cs == Branch(bs, at, T)
<1>1. Resumed("match", "expr") /\ blocks' = cs /\ at' = e /\ Proceed(g)
  BY DEF MatchExpr, AndTwo
<1>2. /\ Solves(dom, blocks) /\ n \in Nat /\ at \in 1..n
      /\ Top \in Frame /\ Top.kind = "match" /\ Top.step = "expr"
      /\ Framed(blocks, Top) /\ FrameDom(dom, blocks, Top)
      /\ D \subseteq B /\ CurrentFun \in 1..n /\ CurrentFun \in D
      /\ CurrentFun # Nowhere
      /\ \A d \in B : d \in 1..n /\ blocks[d].fun = CurrentFun
      /\ value \in Nat /\ (value \in Free \/ value \in B)
      /\ Top.start \in 1..n
  BY <1>1, GoingOn DEF Branching
<1>3. a \in Nat /\ e \in Nat /\ a = n + 1 /\ e = n + 2 /\ CurrentFun # e
  BY <1>2
<1>4. /\ g \in Frame /\ g.kind = "match" /\ g.step = "pattern" /\ g.start = Top.start
      /\ g.held = value /\ g.next = e /\ g.after = a /\ g.incoming = Top.incoming
  <2>1. "pattern" \in Steps
    BY DEF Steps
  <2> QED
    BY <1>2, <1>3, <2>1 DEF Frame
<1>5. /\ Inside(blocks, CurrentFun, n, D) /\ Inside(blocks, CurrentFun, n, B)
      /\ n = Len(blocks) /\ Home(CurrentFun, Nowhere)
  BY <1>2 DEF Inside, Home
<1> HIDE DEF g, B, n, D
<1> DEFINE dm == WithTwo(dom, n, D, B)
<1>6. /\ Solves(dm, more) /\ Later(dom, blocks, dm, more)
      /\ dm[n + 1] = With(D, n + 1) /\ dm[n + 2] = With(B, n + 2)
      /\ dm[at] = dom[at] /\ dm[Top.start] = dom[Top.start]
      /\ Len(more) = n + 2 /\ \A b \in 1..n : more[b] = blocks[b]
      /\ more[n + 2].fun = Nowhere
  BY <1>2, <1>5, TwoDom
<1> HIDE DEF dm, more
<1>7. /\ dm[a] = D \cup {a} /\ dm[e] = B \cup {e} /\ dm[at] = B /\ dm[Top.start] = D
      /\ at \in 1..Len(more) /\ e \in 1..Len(more) /\ more[e].fun = Nowhere
  BY <1>2, <1>3, <1>6 DEF With, B, D
<1> HIDE DEF a, e
<1>8. Solves(dm, bs) /\ Places(more, bs, e, CurrentFun)
  <2>0. CurrentFun \in Nat /\ CurrentFun \in B
    BY <1>2
  <2>a. ASSUME NEW d \in B PROVE more[d].fun = CurrentFun
    <3>1. d \in 1..n /\ blocks[d].fun = CurrentFun
      BY <1>2
    <3> QED
      BY <1>6, <3>1
  <2>1. /\ CurrentFun \in Nat /\ CurrentFun \in dm[e]
        /\ \A d \in dm[e] \ {e} : more[d].fun = CurrentFun
    BY <1>7, <2>0, <2>a
  <2>2. /\ Solves(dm, more) /\ e \in 1..Len(more) /\ more[e].fun = Nowhere
        /\ CurrentFun # Nowhere /\ CurrentFun # e
    BY <1>2, <1>3, <1>6, <1>7
  <2> QED
    BY ONLY <2>1, <2>2, AttachSolves
<1> HIDE DEF bs
<1>9. Solves(dm, cs) /\ SameFuns(bs, cs)
  <2>1. at \in 1..Len(bs) /\ T \in SUBSET (1..Len(bs))
    BY <1>7, <1>8 DEF Places
  <2>2. \A s \in T : dm[s] \ {s} \subseteq dm[at]
    BY <1>7
  <2> HIDE DEF T
  <2> QED
    BY <1>8, <2>1, <2>2, BranchSolves
<1> HIDE DEF cs
<1>10. Later(dom, blocks, dm, cs)
  <2>1. Later(dom, blocks, dm, bs)
    BY <1>6, <1>7, <1>8, LaterPlaces
  <2> QED
    BY <1>9, <2>1, LaterSame
<1>11. FrameDom(dm, cs, Top)
  <2> HIDE DEF T
  <2> QED
    BY <1>2, <1>10, FrameDomKept
<1>12. FrameDom(dm, cs, g)
  <2>1. \A k \in 1..Len(g.incoming) : Given(dm, g.incoming[k])
    BY <1>4, <1>11 DEF FrameDom
  <2>2. cs[g.start].fun # Nowhere
    BY <1>4, <1>11 DEF FrameDom
  <2> QED
    BY <1>4, <1>7, <2>1, <2>2 DEF FrameDom, HasHeader, At
<1>13. Avail(dm, g) \subseteq dm[e]
  BY <1>2, <1>4, <1>7 DEF Avail, HasHeader, At
<1> QED
  BY <1>1, <1>4, <1>9, <1>10, <1>12, <1>13, ProceedDom

\* A pattern has been generated, and its clause is next.
LEMMA MatchPatternDom ==
  ASSUME NEW dom, Known(dom), MatchPattern
  PROVE  Agreed
<1> DEFINE n == Len(blocks)
           e == n + 1
           v == n + 2
           B == dom[at]
           g == [Top EXCEPT !.step = "clause", !.next = e]
           V == {value, Top.held}
           T == {v, e}
           more == AndTwo(blocks, Nowhere, CurrentFun)
           cs == Branch(Use(more, at, V), at, T)
<1>1. Resumed("match", "pattern") /\ blocks' = cs /\ at' = v /\ Proceed(g)
  BY DEF MatchPattern, AndTwo
<1>2. /\ Solves(dom, blocks) /\ n \in Nat /\ at \in 1..n
      /\ Top \in Frame /\ Top.kind = "match" /\ Top.step = "pattern"
      /\ Framed(blocks, Top) /\ FrameDom(dom, blocks, Top)
      /\ CurrentFun \in 1..n /\ CurrentFun \in B
      /\ \A d \in B : d \in 1..n /\ blocks[d].fun = CurrentFun
      /\ value \in 0..n /\ (value \in Free \/ value \in B)
      /\ Avail(dom, Top) \subseteq B
      /\ Top.start \in 1..n /\ blocks[Top.start].fun = CurrentFun
  BY <1>1, GoingOn DEF Branching
<1>3. e \in Nat /\ v \in Nat /\ e = n + 1 /\ v = n + 2
  BY <1>2
<1>4. /\ g \in Frame /\ g.kind = "match" /\ g.step = "clause" /\ g.start = Top.start
      /\ g.held = Top.held /\ g.next = e /\ g.after = Top.after
      /\ g.incoming = Top.incoming
  <2>1. "clause" \in Steps
    BY DEF Steps
  <2> QED
    BY <1>2, <1>3, <2>1 DEF Frame
<1>5. /\ Inside(blocks, CurrentFun, n, B)
      /\ n = Len(blocks) /\ Home(CurrentFun, Nowhere) /\ Home(CurrentFun, CurrentFun)
  BY <1>2 DEF Inside, Home
<1>h. Top.held \in 0..n /\ (Top.held \in Free \/ Top.held \in B)
  BY <1>2 DEF Avail, Holds, At, Framed
<1> HIDE DEF g, B, n
<1> DEFINE dm == WithTwo(dom, n, B, B)
<1>6. /\ Solves(dm, more) /\ Later(dom, blocks, dm, more)
      /\ dm[n + 1] = With(B, n + 1) /\ dm[n + 2] = With(B, n + 2)
      /\ dm[at] = dom[at] /\ Len(more) = n + 2
  BY <1>2, <1>5, TwoDom
<1> HIDE DEF dm, more
<1>7. /\ dm[e] = B \cup {e} /\ dm[v] = B \cup {v} /\ dm[at] = B
      /\ at \in 1..Len(more) /\ e \in 1..Len(more) /\ v \in 1..Len(more)
  BY <1>2, <1>3, <1>6 DEF With, B
<1> HIDE DEF e, v
<1>8. Solves(dm, cs) /\ SameFuns(more, cs)
  <2>1. /\ T \in SUBSET (1..Len(more)) /\ \A s \in T : dm[s] \ {s} \subseteq dm[at]
        /\ V \in SUBSET (0..Len(more)) /\ \A x \in V : x \in Free \/ x \in dm[at]
    BY <1>2, <1>6, <1>7, <1>h
  <2> HIDE DEF T, V
  <2> QED
    BY <1>6, <1>7, <2>1, ForkSolves
<1> HIDE DEF cs, V, T
<1>9. Later(dom, blocks, dm, cs)
  BY <1>6, <1>8, LaterSame
<1>10. FrameDom(dm, cs, Top) /\ Avail(dm, Top) = Avail(dom, Top)
  BY <1>2, <1>9, FrameDomKept, AvailKept
<1>11. Avail(dm, g) = Avail(dm, Top)
  BY <1>2, <1>4 DEF Avail, Holds, HasHeader, At
<1>12. FrameDom(dm, cs, g)
  <2>1. \A k \in 1..Len(g.incoming) : Given(dm, g.incoming[k])
    BY <1>4, <1>10 DEF FrameDom
  <2>2. cs[g.start].fun # Nowhere /\ dm[g.after] = dm[g.start] \cup {g.after}
    BY <1>2, <1>4, <1>10 DEF FrameDom, HasAfter, At
  <2>3. \A d \in dm[e] \ {e} : cs[d].fun = cs[g.start].fun
    <3>1. cs[g.start].fun = CurrentFun
      BY <1>2, <1>4, <1>9, LaterAt
    <3>2. ASSUME NEW d \in B PROVE cs[d].fun = CurrentFun
      <4>1. d \in 1..Len(blocks) /\ blocks[d].fun = CurrentFun /\ CurrentFun # Nowhere
        BY <1>2, <1>5, TopKnown
      <4> QED
        BY <1>9, <4>1 DEF Later
    <3> QED
      BY <1>7, <3>1, <3>2
  <2>4. Avail(dm, g) \subseteq dm[e]
    BY <1>2, <1>7, <1>10, <1>11
  <2> QED
    BY <1>4, <2>1, <2>2, <2>3, <2>4 DEF FrameDom, HasHeader, At
<1>13. Avail(dm, g) \subseteq dm[v]
  BY <1>2, <1>7, <1>10, <1>11
<1> QED
  BY <1>1, <1>4, <1>8, <1>9, <1>12, <1>13, ProceedDom

\* A clause has been generated: it goes on behind the match, and the block that
\* comes next is placed.
LEMMA MatchTurn ==
  ASSUME NEW dom, Known(dom), Resumed("match", "clause"), NEW a, a = Top.after,
         NEW e, e = Top.next
  PROVE  /\ a \in 1..Len(blocks) /\ e \in 1..Len(blocks) /\ a # e
         /\ dom[a] = dom[Top.start] \cup {a} /\ Avail(dom, Top) \subseteq dom[e]
         /\ blocks[a].fun = Nowhere
         /\ Solves(dom, Attach(Branch(blocks, at, {a}), e, CurrentFun))
         /\ Later(dom, blocks, dom, Attach(Branch(blocks, at, {a}), e, CurrentFun))
         /\ Len(Attach(Branch(blocks, at, {a}), e, CurrentFun)) = Len(blocks)
         /\ \A b \in 1..Len(blocks) :
              b # e => Attach(Branch(blocks, at, {a}), e, CurrentFun)[b].fun = blocks[b].fun
         /\ Append(Top.incoming, Pair(value, at)) \in Pairs
         /\ \A k \in 1..Len(Append(Top.incoming, Pair(value, at))) :
              Given(dom, Append(Top.incoming, Pair(value, at))[k])
<1> DEFINE T == {a}
           bs == Branch(blocks, at, T)
           cs == Attach(bs, e, CurrentFun)
           ps == Append(Top.incoming, Pair(value, at))
<1>1. /\ Solves(dom, blocks) /\ Later(dom, blocks, dom, blocks)
      /\ Len(blocks) \in Nat /\ at \in 1..Len(blocks)
      /\ Top \in Frame /\ Top.kind = "match" /\ Top.step = "clause"
      /\ Framed(blocks, Top) /\ FrameDom(dom, blocks, Top)
      /\ dom[Top.start] \subseteq dom[at] /\ DOMAIN dom = 1..Len(blocks)
      /\ Top.start \in 1..Len(blocks) /\ blocks[Top.start].fun = CurrentFun
      /\ CurrentFun \in 1..Len(blocks) /\ CurrentFun # Nowhere
      /\ CurrentFun \in dom[Top.start]
      /\ \A d \in dom[at] : d \in 1..Len(blocks) /\ blocks[d].fun = CurrentFun
      /\ \A b \in 1..Len(blocks) : Unplaced(Top, b) => blocks[b].fun = Nowhere
      /\ value \in Nat /\ (value \in Free \/ value \in dom[at])
  BY GoingOn DEF Branching
<1>2. /\ HasAfter(Top) /\ HasNext(Top) /\ At(Top, "match", {"clause"})
      /\ Unplaced(Top, a) /\ Unplaced(Top, e)
  BY <1>1 DEF HasAfter, HasNext, Unplaced, At
<1>3. a \in 1..Len(blocks) /\ e \in 1..Len(blocks) /\ a # e
  <2>1. /\ Top.mark \in Nat /\ a \in Top.mark + 1..Len(blocks)
        /\ e \in 0..Len(blocks) /\ e > Top.mark /\ a # e
    BY <1>1, <1>2 DEF Framed
  <2> QED
    BY <2>1
<1>4. /\ blocks[a].fun = Nowhere /\ blocks[e].fun = Nowhere
      /\ dom[a] = dom[Top.start] \cup {a} /\ Avail(dom, Top) \subseteq dom[e]
      /\ \A d \in dom[e] \ {e} : blocks[d].fun = CurrentFun
  BY <1>1, <1>2, <1>3 DEF FrameDom
<1>5. T \in SUBSET (1..Len(blocks)) /\ \A s \in T : dom[s] \ {s} \subseteq dom[at]
  BY <1>1, <1>3, <1>4
<1>6. CurrentFun \in dom[e] /\ CurrentFun # e /\ dom[e] \subseteq 1..Len(blocks)
  <2>1. dom[Top.start] \subseteq Avail(dom, Top)
    BY <1>1 DEF Avail
  <2>2. blocks[CurrentFun].fun = CurrentFun
    BY <1>1
  <2>3. dom[e] \subseteq 1..Len(blocks)
    BY <1>1, <1>3 DEF Solves
  <2> QED
    BY <1>1, <1>4, <2>1, <2>2, <2>3
<1> HIDE DEF T
<1>7. Solves(dom, bs) /\ SameFuns(blocks, bs)
  BY <1>1, <1>5, BranchSolves
<1> HIDE DEF bs
<1>8. Solves(dom, cs) /\ Places(bs, cs, e, CurrentFun)
  <2>1. /\ Solves(dom, bs) /\ e \in 1..Len(bs) /\ bs[e].fun = Nowhere
        /\ CurrentFun \in Nat /\ CurrentFun # Nowhere /\ CurrentFun # e
        /\ CurrentFun \in dom[e]
    BY <1>1, <1>3, <1>4, <1>6, <1>7 DEF SameFuns
  <2>2. ASSUME NEW d \in dom[e] \ {e} PROVE bs[d].fun = CurrentFun
    BY <1>4, <1>6, <1>7 DEF SameFuns
  <2> QED
    BY ONLY <2>1, <2>2, AttachSolves
<1> HIDE DEF cs
<1>9. Later(dom, blocks, dom, cs)
  <2>1. Later(dom, blocks, dom, bs)
    BY <1>1, <1>7, LaterSame
  <2>2. bs[e].fun = Nowhere
    BY <1>3, <1>4, <1>7 DEF SameFuns
  <2> QED
    BY <1>8, <2>1, <2>2, LaterPlaces
<1>10. /\ Len(cs) = Len(blocks)
       /\ \A b \in 1..Len(blocks) : b # e => cs[b].fun = blocks[b].fun
  BY <1>7, <1>8 DEF SameFuns, Places
<1>11. ps \in Pairs /\ \A k \in 1..Len(ps) : Given(dom, ps[k])
  <2>1. Top.incoming \in Pairs /\ \A k \in 1..Len(Top.incoming) : Given(dom, Top.incoming[k])
    BY <1>1 DEF Frame, Pairs, FrameDom
  <2>2. at \in Nat /\ at \in DOMAIN dom
    BY <1>1
  <2> QED
    BY <1>1, <2>1, <2>2, AppendGiven
<1> QED
  BY <1>3, <1>4, <1>8, <1>9, <1>10, <1>11 DEF T, bs, cs

\* The next clause follows, or none is left and the clauses meet.
LEMMA MatchClauseDom ==
  ASSUME NEW dom, Known(dom), MatchClause
  PROVE  Agreed
<1> DEFINE a == Top.after
           e == Top.next
           ps == Append(Top.incoming, Pair(value, at))
           bs == Attach(Branch(blocks, at, {a}), e, CurrentFun)
           T == {e}
           ts == Branch(bs, e, T)
           us == Attach(ts, a, CurrentFun)
           cs == Phi(us, a, ps)
           g == [Top EXCEPT !.step = "pattern", !.incoming = ps]
<1>1. /\ Resumed("match", "clause")
      /\ \/ blocks' = bs /\ at' = e /\ Proceed(g)
         \/ blocks' = cs /\ at' = a /\ Return(a)
  BY DEF MatchClause, MatchTrap
<1>2. /\ Solves(dom, blocks) /\ Len(blocks) \in Nat
      /\ Top \in Frame /\ Top.kind = "match" /\ Top.step = "clause"
      /\ Framed(blocks, Top) /\ FrameDom(dom, blocks, Top)
      /\ dom[Top.start] \subseteq dom[at]
      /\ CurrentFun \in 1..Len(blocks) /\ CurrentFun # Nowhere
      /\ CurrentFun \in dom[Top.start]
      /\ \A d \in dom[at] : d \in 1..Len(blocks) /\ blocks[d].fun = CurrentFun
      /\ \A b \in 1..Len(blocks) : Unplaced(Top, b) => blocks[b].fun = Nowhere
  BY <1>1, GoingOn DEF Branching
<1>3. /\ a \in 1..Len(blocks) /\ e \in 1..Len(blocks) /\ a # e
      /\ dom[a] = dom[Top.start] \cup {a} /\ Avail(dom, Top) \subseteq dom[e]
      /\ blocks[a].fun = Nowhere
      /\ Solves(dom, bs) /\ Later(dom, blocks, dom, bs) /\ Len(bs) = Len(blocks)
      /\ \A b \in 1..Len(blocks) : b # e => bs[b].fun = blocks[b].fun
      /\ ps \in Pairs /\ \A k \in 1..Len(ps) : Given(dom, ps[k])
  BY <1>1, MatchTurn, SMTT(30)
<1>4. blocks[e].fun = Nowhere
  BY <1>2, <1>3 DEF Unplaced, At
<1>5. /\ g \in Frame /\ g.kind = "match" /\ g.step = "pattern" /\ g.start = Top.start
      /\ g.held = Top.held /\ g.after = a /\ g.incoming = ps
  <2>1. "pattern" \in Steps
    BY DEF Steps
  <2> HIDE DEF ps
  <2> QED
    BY <1>2, <1>3, <2>1 DEF Frame, Pairs
<1> HIDE DEF a, e, ps, bs, g
<1>6. CASE blocks' = bs /\ at' = e /\ Proceed(g)
  <2>1. bs[g.start].fun # Nowhere
    BY <1>3, <1>5, LaterAt
  <2>2. FrameDom(dom, bs, g)
    BY <1>3, <1>5, <2>1 DEF FrameDom, HasHeader, At
  <2>3. Avail(dom, g) \subseteq dom[e]
    BY <1>2, <1>3, <1>5 DEF Avail, Holds, HasHeader, At
  <2> QED
    BY <1>3, <1>5, <1>6, <2>2, <2>3, ProceedDom
<1>7. CASE blocks' = cs /\ at' = a /\ Return(a)
  <2>1. Solves(dom, ts) /\ SameFuns(bs, ts)
    <3>1. /\ e \in 1..Len(bs) /\ T \in SUBSET (1..Len(bs))
          /\ \A s \in T : dom[s] \ {s} \subseteq dom[e]
      BY <1>3
    <3> HIDE DEF T
    <3> QED
      BY <1>3, <3>1, BranchSolves
  <2> HIDE DEF ts, T
  <2>2. /\ Len(ts) = Len(blocks)
        /\ \A b \in 1..Len(blocks) : b # e => ts[b].fun = blocks[b].fun
    BY <1>3, <2>1 DEF SameFuns
  <2>3. ts[a].fun = Nowhere
    BY <1>3, <2>2
  <2>4. Solves(dom, us) /\ Places(ts, us, a, CurrentFun)
    <3>1. \A d \in dom[Top.start] : ts[d].fun = CurrentFun
      <4> SUFFICES ASSUME NEW d \in dom[Top.start] PROVE ts[d].fun = CurrentFun
        OBVIOUS
      <4>1. d \in 1..Len(blocks) /\ blocks[d].fun = CurrentFun
        BY <1>2
      <4>2. d # e
        BY <1>2, <1>4, <4>1
      <4> QED
        BY <2>2, <4>1, <4>2
    <3>2. CurrentFun # a
      BY <1>2, <2>3, <3>1
    <3>3. /\ Solves(dom, ts) /\ a \in 1..Len(ts) /\ CurrentFun \in Nat
          /\ ts[a].fun = Nowhere /\ CurrentFun # Nowhere /\ CurrentFun # a
          /\ CurrentFun \in dom[a]
      BY <1>2, <1>3, <2>1, <2>2, <2>3, <3>2
    <3>4. \A d \in dom[a] \ {a} : ts[d].fun = CurrentFun
      BY <1>3, <3>1
    <3> QED
      BY ONLY <3>3, <3>4, AttachSolves
  <2> HIDE DEF us
  <2>5. Solves(dom, cs) /\ SameFuns(us, cs)
    <3>1. a \in 1..Len(us)
      BY <1>3, <2>2, <2>4 DEF Places
    <3> QED
      BY <1>3, <2>4, <3>1, PhiSolves DEF Pairs
  <2> HIDE DEF cs
  <2>6. Later(dom, blocks, dom, cs)
    <3>1. Later(dom, blocks, dom, ts)
      BY <1>3, <2>1, LaterSame
    <3>2. Later(dom, blocks, dom, us)
      BY <2>3, <2>4, <3>1, LaterPlaces
    <3> QED
      BY <2>5, <3>2, LaterSame
  <2>7. dom[Top.start] \subseteq dom[a] /\ a \in dom[a]
    BY <1>3
  <2> QED
    BY <1>7, <2>5, <2>6, <2>7, ReturnDom
<1> QED
  BY <1>1, <1>6, <1>7

-----------------------------------------------------------------------------
(* The invariant holds always. *)

\* In the beginning there is the entry block of main() only.
LEMMA InitDom == Init => Dominance
<1> SUFFICES ASSUME Init PROVE Dominance
  OBVIOUS
<1> DEFINE f == [kind |-> "main", step |-> "body", start |-> 1, mark |-> 1,
                 next |-> Nowhere, after |-> Nowhere, held |-> Const,
                 incoming |-> <<>>, more |-> FALSE]
           dom == [b \in 1..1 |-> {1}]
<1>1. /\ blocks = <<Fresh(1)>> /\ at = 1 /\ value = Awaited
      /\ stack = <<f>> /\ Inductive
  BY InitSound DEF Init
<1>2. f.kind = "main" /\ f.start = 1 /\ f.incoming = <<>>
  OBVIOUS
<1> HIDE DEF f
<1>3. /\ Len(blocks) = 1 /\ blocks[1] = Fresh(1) /\ Blocks(blocks)
      /\ Len(stack) = 1 /\ stack[1] = f
  BY <1>1 DEF Inductive, Sound
<1>4. /\ blocks[1].fun = 1 /\ blocks[1].succs = {} /\ blocks[1].operands = {}
      /\ blocks[1].phi = <<>>
  BY <1>3 DEF Fresh
<1>5. dom \in [1..1 -> SUBSET (1..1)] /\ dom[1] = {1}
  OBVIOUS
<1> HIDE DEF dom
<1>6. Fits(dom, blocks, 1)
  <2>1. \A k \in 1..Len(blocks[1].phi) : Given(dom, blocks[1].phi[k])
    BY <1>4
  <2> QED
    BY <1>4, <1>5, <2>1 DEF Fits
<1>7. Solves(dom, blocks)
  <2>1. \A b \in 1..Len(blocks) : b = 1
    BY <1>3
  <2> QED
    BY <1>3, <1>5, <1>6, <2>1 DEF Solves
<1>8. FrameDom(dom, blocks, f) /\ Avail(dom, f) = dom[1]
  <2>1. \A k \in 1..Len(f.incoming) : Given(dom, f.incoming[k])
    BY <1>2
  <2> QED
    BY <1>2, <1>4, <2>1 DEF FrameDom, Avail, Holds, HasAfter, HasHeader, At, Nowhere
<1>9. Chain(dom, blocks, stack, at)
  <2>1. \A i \in 1..Len(stack) : i = 1 /\ i = Len(stack)
    BY <1>3
  <2> QED
    BY <1>1, <1>3, <1>8, <2>1 DEF Chain, Begins
<1>10. DomInv(dom, blocks, stack, at, value)
  BY <1>1, <1>7, <1>9 DEF DomInv
<1>11. dom \in [1..Len(blocks) -> SUBSET (1..Len(blocks))]
  BY <1>3, <1>5
<1> QED
  BY <1>10, <1>11 DEF Dominance, Agrees

\* There is a call in progress, and only a name makes strays.
LEMMA InProgress == Next => stack # <<>> /\ (strays' = strays \/ Local)
  BY DEF Next, Constant, Instruction, TwoStart, TwoLeft, TwoRight, LetStart, LetDef,
     LetMutable, LetBody, FunStart, FunBody, IfStart, IfCond, IfThen, IfElse,
     MatchStart, MatchExpr, MatchPattern, MatchClause, ForStart, ForFrom, ForTo,
     ForBody, WhileStart, WhileCond, WhileBody, MainEnd, Local, Awaiting, Resumed,
     Done, IfEnd, names, OpenScope, CloseScope

\* Every step keeps it.
LEMMA NextDom ==
  ASSUME ~ElseBranches, Inductive, Dominance, [Next]_vars
  PROVE  Dominance'
<1>1. CASE UNCHANGED vars
  BY <1>1, StraysGrow DEF vars, Dominance
<1>2. CASE Next
  <2>1. stack # <<>> /\ (strays' = strays \/ Local)
    BY <1>2, InProgress
  <2>2. PICK dom : DomInv(dom, blocks, stack, at, value)
    BY DEF Dominance, Agrees
  <2>3. Known(dom)
    BY <2>1, <2>2 DEF Known
  <2>4. CASE Constant \/ Instruction \/ Local
    BY <2>3, <2>4, ValueDom, StraysGrow
  <2>5. ASSUME ~ (Constant \/ Instruction \/ Local) PROVE Agreed
    <3>1. CASE TwoStart \/ LetStart \/ LetMutable \/ IfStart \/ MatchStart \/ ForStart
      BY <2>3, <3>1, StartsDom
    <3>2. CASE TwoLeft \/ LetDef \/ TwoRight \/ LetBody
      BY <2>3, <3>2, OperandDom, LastDom
    <3>3. CASE FunStart \/ FunBody \/ MainEnd
      BY <2>3, <3>3, FunStartDom, FunBodyDom, MainEndDom
    <3>4. CASE IfCond \/ IfThen \/ IfElse
      BY <2>3, <3>4, IfCondDom, IfThenElseDom, IfThenEndDom, IfElseDom
    <3>5. CASE MatchExpr \/ MatchPattern \/ MatchClause
      BY <2>3, <3>5, MatchExprDom, MatchPatternDom, MatchClauseDom
    <3>6. CASE ForFrom \/ ForTo \/ ForBody
      BY <2>3, <3>6, ForFromDom, ForToDom, ForBodyDom
    <3>7. CASE WhileStart \/ WhileCond \/ WhileBody
      BY <2>3, <3>7, WhileStartDom, WhileCondDom, WhileBodyDom
    <3> QED
      BY <1>2, <2>5, <3>1, <3>2, <3>3, <3>4, <3>5, <3>6, <3>7 DEF Next
  <2> QED
    BY <2>1, <2>4, <2>5, StraysGrow DEF Agreed
<1> QED
  BY <1>1, <1>2

-----------------------------------------------------------------------------
(* What is in dom dominates.  Reached(f, d) is the last value of a         *)
(* recursive function; that it exists is shown by the walks through the    *)
(* blocks, which need no recursion.                                        *)

\* A walk is a shorter one and a branch.
LEMMA WalkOn ==
  ASSUME Blocks(blocks), NEW f \in Ids, NEW d, NEW n \in Nat, n # 0
  PROVE  Ends(f, d, n) = Farther(Ends(f, d, n - 1), d)
<1> DEFINE m == n - 1
<1>0. m \in Nat /\ n = m + 1 /\ 0 \in 0..m /\ m \in 0..m /\ n \in 0..n /\ 0 \in 0..n
  OBVIOUS
<1>i. /\ \A i \in 0..n : i \in 0..m \/ i = n
      /\ \A i \in 0..m : i \in 0..n /\ i # n
      /\ \A i \in 1..m : i \in 0..m /\ i - 1 \in 0..m /\ i \in 1..n
      /\ \A i \in 1..n : i \in 0..n /\ i - 1 \in 0..m /\ (i \in 1..m \/ i = n)
      /\ n \in 1..n /\ n - 1 = m /\ 0 # n
  BY <1>0
<1> HIDE DEF m
<1>1. ASSUME NEW k \in Ends(f, d, n) PROVE k \in Farther(Ends(f, d, m), d)
  <2>1. PICK p \in Walks(f, d, n) : k = p[n]
    BY <1>1 DEF Ends
  <2>2. /\ p \in [0..n -> Ids \ {d}] /\ p[0] = f
        /\ \A i \in 1..n : p[i] = p[i - 1] \/ p[i] \in blocks[p[i - 1]].succs
    BY <2>1 DEF Walks
  <2> DEFINE q == [i \in 0..m |-> p[i]]
  <2>3. q \in [0..m -> Ids \ {d}] /\ q[0] = f /\ \A i \in 0..m : q[i] = p[i]
    BY <1>0, <1>i, <2>2
  <2> HIDE DEF q
  <2>4. \A i \in 1..m : q[i] = q[i - 1] \/ q[i] \in blocks[q[i - 1]].succs
    BY <1>i, <2>2, <2>3
  <2>5. p[m] \in Ends(f, d, m)
    BY <1>0, <2>3, <2>4 DEF Ends, Walks
  <2>6. k # d /\ (k = p[m] \/ k \in blocks[p[m]].succs)
    BY <1>0, <1>i, <2>1, <2>2
  <2> QED
    BY <2>5, <2>6 DEF Farther
<1>2. ASSUME NEW k \in Farther(Ends(f, d, m), d) PROVE k \in Ends(f, d, n)
  <2>1. PICK c \in Ends(f, d, m) : k # d /\ (k = c \/ k \in blocks[c].succs)
    BY <1>2 DEF Farther
  <2>2. PICK q \in Walks(f, d, m) : c = q[m]
    BY <2>1 DEF Ends
  <2>3. /\ q \in [0..m -> Ids \ {d}] /\ q[0] = f
        /\ \A i \in 1..m : q[i] = q[i - 1] \/ q[i] \in blocks[q[i - 1]].succs
    BY <2>2 DEF Walks
  <2>4. k \in Ids \ {d}
    <3>1. c \in Ids
      BY <1>0, <2>2, <2>3
    <3> QED
      BY <2>1, <3>1 DEF Blocks, Ids
  <2> DEFINE p == [i \in 0..n |-> IF i = n THEN k ELSE q[i]]
  <2>5. /\ p \in [0..n -> Ids \ {d}] /\ p[n] = k
        /\ \A i \in 0..m : p[i] = q[i]
    BY <1>0, <1>i, <2>3, <2>4
  <2> HIDE DEF p
  <2>6. p[0] = f
    BY <1>0, <2>3, <2>5
  <2>7. ASSUME NEW i \in 1..n
        PROVE  p[i] = p[i - 1] \/ p[i] \in blocks[p[i - 1]].succs
    <3>1. CASE i \in 1..m
      BY <1>i, <2>3, <2>5, <3>1
    <3>2. CASE i = n
      BY <1>0, <1>i, <2>1, <2>2, <2>5, <3>2
    <3> QED
      BY <1>i, <3>1, <3>2
  <2>8. p \in Walks(f, d, n)
    BY <2>5, <2>6, <2>7 DEF Walks
  <2> QED
    BY <2>5, <2>8 DEF Ends
<1> QED
  BY <1>1, <1>2 DEF m

\* The recursive function has the values that it is defined with.
LEMMA SteppedValues ==
  ASSUME Blocks(blocks), NEW f \in Ids, NEW d
  PROVE  /\ Stepped(f, d)[0] = {f} \ {d}
         /\ \A n \in Nat : n # 0 => Stepped(f, d)[n] = Farther(Stepped(f, d)[n - 1], d)
<1> DEFINE Eq(g) ==
             g = [n \in Nat |->
               IF n = 0 THEN {f} \ {d}
               ELSE LET r == g[n - 1]
                    IN (r \cup UNION {blocks[b].succs : b \in r}) \ {d}]
           h == [n \in Nat |-> Ends(f, d, n)]
<1>1. Ends(f, d, 0) = {f} \ {d}
  <2>1. ASSUME NEW k \in Ends(f, d, 0) PROVE k \in {f} \ {d}
    BY <2>1 DEF Ends, Walks
  <2>2. ASSUME f # d PROVE f \in Ends(f, d, 0)
    <3> DEFINE p == [i \in 0..0 |-> f]
    <3>1. p \in [0..0 -> Ids \ {d}] /\ p[0] = f
      BY <2>2
    <3> HIDE DEF p
    <3> QED
      BY <3>1 DEF Ends, Walks
  <2> QED
    BY <2>1, <2>2
<1>2. Eq(h)
  <2>1. ASSUME NEW n \in Nat
        PROVE  h[n] = IF n = 0 THEN {f} \ {d}
                      ELSE LET r == h[n - 1]
                           IN (r \cup UNION {blocks[b].succs : b \in r}) \ {d}
    <3>1. CASE n = 0
      BY <1>1, <3>1
    <3>2. CASE n # 0
      <4>1. n - 1 \in Nat
        BY <3>2
      <4>2. h[n] = Ends(f, d, n) /\ h[n - 1] = Ends(f, d, n - 1)
        BY <4>1
      <4>3. Ends(f, d, n) = Farther(Ends(f, d, n - 1), d)
        BY <3>2, WalkOn
      <4> HIDE DEF h
      <4> QED
        BY <3>2, <4>2, <4>3 DEF Farther
    <3> QED
      BY <3>1, <3>2
  <2>2. h = [n \in Nat |-> h[n]]
    OBVIOUS
  <2> HIDE DEF h
  <2> QED
    BY <2>1, <2>2
<1> DEFINE s == Stepped(f, d)
<1>3. s = CHOOSE g : Eq(g)
  BY DEF Stepped
<1> HIDE DEF Eq, h, s
<1>4. Eq(s)
  BY <1>2, <1>3
<1>5. s[0] = {f} \ {d}
  BY <1>4 DEF Eq
<1>6. ASSUME NEW n \in Nat, n # 0 PROVE s[n] = Farther(s[n - 1], d)
  BY <1>4, <1>6 DEF Eq, Farther
<1> QED
  BY <1>5, <1>6 DEF s

\* Without d no walk from the entry gets to a block that has d in its set.
LEMMA NotReached ==
  ASSUME NEW dom, Solves(dom, blocks), NEW f \in Ids, blocks[f].fun = f,
         NEW d, NEW b \in Ids, d \in dom[b]
  PROVE  b \notin Reached(f, d)
<1> DEFINE s == Stepped(f, d)
           S == {n \in Nat : \E k \in s[n] : k \notin Ids \/ d \in dom[k]}
<1>1. /\ Blocks(blocks) /\ dom[f] = {f} /\ Len(blocks) \in Nat
      /\ \A c \in Ids : \A k \in blocks[c].succs :
           k \in Ids /\ dom[k] \ {k} \subseteq dom[c]
  BY DEF Solves, Fits, Ids, Blocks
<1>2. s[0] = {f} \ {d} /\ \A n \in Nat : n # 0 => s[n] = Farther(s[n - 1], d)
  BY <1>1, SteppedValues
<1>3. Reached(f, d) = s[Len(blocks)]
  BY DEF Reached, Stepped
<1> HIDE DEF s
<1>4. S = {}
  <2> SUFFICES ASSUME S # {} PROVE FALSE
    OBVIOUS
  <2>1. S \in SUBSET Nat
    OBVIOUS
  <2>2. PICK n \in S : \A m \in S : n <= m
    <3> HIDE DEF S
    <3> QED
      BY <2>1, Smallest
  <2>3. n \in Nat /\ \E k \in s[n] : k \notin Ids \/ d \in dom[k]
    BY <2>2
  <2>4. n # 0
    BY <1>1, <1>2, <2>3
  <2>5. n - 1 \in Nat /\ n - 1 \notin S
    BY <2>2, <2>3, <2>4
  <2>6. \A k \in s[n - 1] : k \in Ids /\ d \notin dom[k]
    BY <2>5
  <2>7. s[n] = Farther(s[n - 1], d)
    BY <1>2, <2>3, <2>4
  <2>8. ASSUME NEW k \in s[n] PROVE k \in Ids /\ d \notin dom[k]
    <3>1. k # d /\ (k \in s[n - 1] \/ \E c \in s[n - 1] : k \in blocks[c].succs)
      BY <2>7, <2>8 DEF Farther
    <3>2. CASE k \in s[n - 1]
      BY <2>6, <3>2
    <3>3. CASE \E c \in s[n - 1] : k \in blocks[c].succs
      BY <1>1, <2>6, <3>1, <3>3
    <3> QED
      BY <3>1, <3>2, <3>3
  <2> QED
    BY <2>3, <2>8
<1>5. \A k \in s[Len(blocks)] : d \notin dom[k]
  BY <1>1, <1>4
<1> QED
  BY <1>3, <1>5

\* When the program is generated, all that the solution says is so.
LEMMA SolutionDominates ==
  Inductive /\ Dominance => DefinitionsDominateUses
<1> SUFFICES ASSUME Inductive, Dominance, Done PROVE DefinitionsDominateUses
  BY DEF DefinitionsDominateUses
<1>1. PICK dom : Solves(dom, blocks)
  BY DEF Dominance, Agrees, DomInv
<1>2. /\ Blocks(blocks) /\ Len(blocks) \in Nat /\ DOMAIN dom = Ids
      /\ \A b \in Ids : Fits(dom, blocks, b) /\ dom[b] \subseteq Ids
  BY <1>1 DEF Solves, Ids, Blocks
<1>3. \A b \in Ids : /\ blocks[b].fun \in Ids /\ blocks[b].fun # Nowhere
                     /\ blocks[blocks[b].fun].fun = blocks[b].fun
  <2>1. Attached(blocks, stack) /\ Len(stack) = 0
    BY DEF Inductive, Sound, Shape, Done
  <2>2. \A b : ~SomeUnplaced(stack, Len(stack), b)
    BY <2>1 DEF SomeUnplaced
  <2>3. \A b \in Ids : /\ blocks[b].fun \in 1..b
                       /\ blocks[blocks[b].fun].fun = blocks[b].fun
    BY <2>1, <2>2 DEF Attached, Ids
  <2> QED
    BY <1>2, <2>3 DEF Ids, Nowhere
<1>4. ASSUME NEW b \in Ids, NEW d \in dom[b] PROVE Dominates(d, b)
  <2>1. blocks[d].fun = blocks[b].fun
    BY <1>2, <1>3, <1>4 DEF Fits
  <2>2. b \notin Reached(blocks[b].fun, d)
    BY <1>1, <1>3, NotReached
  <2> QED
    BY <2>1, <2>2 DEF Dominates
<1>5. ASSUME NEW b \in Ids, NEW i \in DOMAIN blocks[b].phi,
             blocks[b].phi[i].val \notin Free
      PROVE  Dominates(blocks[b].phi[i].val, blocks[b].phi[i].from)
  <2>1. blocks[b].phi \in Seq([val: Nat, from: Nat])
    <3>1. blocks \in Seq(Block) /\ b \in 1..Len(blocks)
      BY <1>2 DEF Blocks, Ids
    <3>2. blocks[b] \in Block
      BY <3>1
    <3> QED
      BY <3>2 DEF Block
  <2>2. i \in 1..Len(blocks[b].phi)
    BY <2>1
  <2>3. Given(dom, blocks[b].phi[i])
    BY <1>2, <2>2 DEF Fits
  <2> QED
    BY <1>2, <1>4, <1>5, <2>3 DEF Given
<1>6. ASSUME NEW b \in Ids, NEW d \in blocks[b].operands \ strays PROVE d \in dom[b]
  BY <1>2, <1>6 DEF Fits, Blocks, Free, Const, Ids
<1> QED
  BY <1>4, <1>5, <1>6 DEF DefinitionsDominateUses, Free

\* No program gets a value that is used where it may not be defined, as long
\* as no else part branches, but those that a name gave outside the expression
\* that its definition is made for.
THEOREM DominatesAlways ==
  ASSUME ~ElseBranches
  PROVE  Spec => []DefinitionsDominateUses
<1>1. Inductive /\ Dominance /\ [Next]_vars => Dominance'
  BY NextDom
<1> QED
  BY <1>1, InitDom, AlwaysInductive, SolutionDominates, PTL DEF Spec

-----------------------------------------------------------------------------
(* Control reaches everything. *)

\* A frame that keeps no block keeps control from none.
LEMMA IdleFacts ==
  ASSUME NEW f, Idle(f)
  PROVE  /\ \A b : ~Hides(f, b) /\ ~Spare(f, b)
         /\ Targets(f) = {} /\ \A p, T : Looped(f, p, T)
BY DEF Idle, Hides, Spare, Targets, Looped, HasNext, HasAfter, HasHeader, At

\* A step from frame f to frame g, above k others.
LEMMA FlowKept ==
  ASSUME NEW bs, NEW cs, NEW st, NEW ts, NEW p, NEW q, NEW k \in Nat, NEW f, NEW g,
         Flow(bs, st, p), Widened(bs, cs), p \in 1..Len(bs),
         \A i \in 1..Len(st) : ~Hides(st[i], p),
         TopIs(st, k, f), TopIs(ts, k, g), \A i \in 1..k : ts[i] = st[i],
         Onward(bs, cs, p, f, g), Homeward(bs, cs, p, q, f, g),
         Turning(cs, p, q, f, g), ts = <<>> => cs[q].ends = "ret"
  PROVE  Flow(cs, ts, q)
<1>1. /\ Len(st) = k \/ Len(st) = k + 1
      /\ Len(ts) = k \/ Len(ts) = k + 1
      /\ \A i \in 1..k : i \in 1..Len(st) /\ i \in 1..Len(ts)
      /\ \A i \in 1..Len(st) : i \in 1..k \/ (i = k + 1 /\ Len(st) = k + 1 /\ f = st[k + 1])
      /\ \A i \in 1..Len(ts) : i \in 1..k \/ (i = k + 1 /\ Len(ts) = k + 1 /\ g = ts[k + 1])
      /\ Len(st) = k => Idle(f)
      /\ Len(ts) = k => Idle(g)
      /\ Len(ts) = k + 1 => g = ts[k + 1] /\ k + 1 \in 1..Len(ts)
      /\ Len(st) = k + 1 => f = st[k + 1] /\ k + 1 \in 1..Len(st)
  BY DEF TopIs
<1>2. ASSUME NEW S, Upward(cs, S) PROVE Upward(bs, S)
  <2> SUFFICES ASSUME NEW b \in 1..Len(bs)
               PROVE  /\ bs[b].fun = b => b \in S
                      /\ b \in S => bs[b].succs \subseteq S
    BY DEF Upward
  <2>1. b \in 1..Len(cs)
    BY DEF Widened
  <2>2. /\ cs[b].fun = b => b \in S
        /\ b \in S => cs[b].succs \subseteq S
    BY <1>2, <2>1 DEF Upward
  <2> QED
    BY <2>2 DEF Widened
<1>3. ASSUME NEW T, Backward(cs, T) PROVE Backward(bs, T)
  <2> SUFFICES ASSUME NEW b \in 1..Len(bs)
               PROVE  /\ bs[b].ends = "ret" => b \in T
                      /\ bs[b].succs \cap T # {} => b \in T
    BY DEF Backward
  <2>1. b \in 1..Len(cs)
    BY DEF Widened
  <2>2. /\ cs[b].ends = "ret" => b \in T
        /\ cs[b].succs \cap T # {} => b \in T
    BY <1>3, <2>1 DEF Backward
  <2> QED
    BY <2>2 DEF Widened
<1>4. Forth(cs, ts)
  <2> SUFFICES ASSUME NEW S, Upward(cs, S), NEW b \in 1..Len(cs),
                      b \notin S, \A i \in 1..Len(ts) : ~Hides(ts[i], b)
               PROVE  FALSE
    BY DEF Forth
  <2>1. \A c \in 1..Len(bs) : c \in S \/ \E i \in 1..Len(st) : Hides(st[i], c)
    BY <1>2 DEF Flow, Forth
  <2>2. p \in S
    BY <2>1
  <2>3. \A i \in 1..k : ~Hides(st[i], b)
    BY <1>1
  <2>4. ~Hides(g, b)
    BY <1>1, IdleFacts
  <2>5. b > Len(bs) \/ Hides(f, b)
    <3>1. CASE b \in 1..Len(bs)
      BY <1>1, <2>1, <2>3, <3>1
    <3> QED
      BY <3>1 DEF Widened
  <2> QED
    BY <2>2, <2>4, <2>5 DEF Onward
<1>5. ASSUME NEW T, Backward(cs, T), NEW i \in 0..k, Above(ts, q, i, T)
      PROVE  q \in T /\ Targets(g) \subseteq T /\ \A j \in i + 1..k : Targets(st[j]) \subseteq T
  <2>1. Targets(g) \subseteq T
    <3>1. CASE Len(ts) = k
      BY <1>1, <3>1, IdleFacts
    <3>2. CASE Len(ts) = k + 1
      BY <1>1, <1>5, <3>2 DEF Above
    <3> QED
      BY <1>1, <3>1, <3>2
  <2>2. \A j \in i + 1..k : j \in 1..k /\ j \in i + 1..Len(ts)
    BY <1>1
  <2> QED
    BY <1>5, <2>1, <2>2 DEF Above
<1>6. ASSUME NEW T, Backward(cs, T) PROVE Looped(f, p, T)
  <2>1. CASE Len(st) = k
    BY <1>1, <2>1, IdleFacts
  <2>2. CASE Len(st) = k + 1
    <3>1. p \in T => Above(st, p, k + 1, T)
      BY <2>2 DEF Above
    <3>2. HasHeader(f) /\ Way(st, p, k + 1, T) => f.held \in T
      BY <1>1, <1>3, <1>6, <2>2 DEF Flow, Loops
    <3> QED
      BY <1>1, <2>2, <3>1, <3>2 DEF Looped, Way
  <2> QED
    BY <1>1, <2>1, <2>2
<1>7. ASSUME NEW T, Backward(cs, T), q \in T, Targets(g) \subseteq T
      PROVE  /\ p \in T /\ Targets(f) \subseteq T
             /\ \A b \in 1..Len(cs) :
                  b > Len(bs) \/ Spare(f, b) => b \in T \/ cs[b].succs = {b} \/ Spare(g, b)
  BY <1>6, <1>7 DEF Homeward
<1>8. ASSUME NEW T, Backward(cs, T), NEW i \in 0..k, Above(ts, q, i, T)
      PROVE  Above(st, p, i, T)
  <2>1. /\ q \in T /\ Targets(g) \subseteq T
        /\ \A j \in i + 1..k : Targets(st[j]) \subseteq T
    BY <1>5, <1>8
  <2>2. p \in T /\ Targets(f) \subseteq T
    BY <1>7, <1>8, <2>1
  <2>3. ASSUME NEW j \in i + 1..Len(st) PROVE Targets(st[j]) \subseteq T
    <3>1. j \in i + 1..k \/ (j = k + 1 /\ f = st[k + 1])
      BY <1>1
    <3> QED
      BY <2>1, <2>2, <3>1
  <2> QED
    BY <2>2, <2>3 DEF Above
<1>9. Loops(cs, ts, q)
  <2> SUFFICES ASSUME NEW T, Backward(cs, T), NEW i \in 1..Len(ts),
                      HasHeader(ts[i]), Way(ts, q, i, T)
               PROVE  ts[i].held \in T
    BY DEF Loops
  <2>1. CASE i \in 1..k
    <3>1. Way(st, p, i, T)
      BY <1>8, <2>1 DEF Way
    <3> QED
      BY <1>1, <1>3, <2>1, <3>1 DEF Flow, Loops
  <2>2. CASE i = k + 1 /\ g = ts[k + 1]
    <3>1. Looped(g, q, T)
      BY <1>6 DEF Turning
    <3> QED
      BY <2>2, <3>1 DEF Looped, Way, Above
  <2> QED
    BY <1>1, <2>1, <2>2
<1>10. Back(cs, ts, q)
  <2> SUFFICES ASSUME NEW T, Backward(cs, T), Above(ts, q, 0, T), NEW b \in 1..Len(cs),
                      b \notin T, cs[b].succs # {b}, \A i \in 1..Len(ts) : ~Spare(ts[i], b)
               PROVE  FALSE
    BY DEF Back
  <2>1. Above(st, p, 0, T) /\ q \in T /\ Targets(g) \subseteq T
    BY <1>5, <1>8
  <2>2. \A c \in 1..Len(bs) :
          c \in T \/ bs[c].succs = {c} \/ \E i \in 1..Len(st) : Spare(st[i], c)
    BY <1>3, <2>1 DEF Flow, Back
  <2>3. \A i \in 1..k : ~Spare(st[i], b)
    BY <1>1
  <2>4. ~Spare(g, b)
    BY <1>1, IdleFacts
  <2>5. b > Len(bs) \/ Spare(f, b)
    <3>1. CASE b \in 1..Len(bs)
      <4>1. bs[b].succs # {b}
        BY <3>1 DEF Widened
      <4> QED
        BY <1>1, <2>2, <2>3, <3>1, <4>1
    <3> QED
      BY <3>1 DEF Widened
  <2> QED
    BY <1>7, <2>1, <2>4, <2>5
<1> QED
  BY <1>4, <1>9, <1>10 DEF Flow

\* No frame hides the insert block.
LEMMA InsertShown ==
  ASSUME Inductive
  PROVE  \A i \in 1..Len(stack) : ~Hides(stack[i], at)
<1> SUFFICES ASSUME NEW i \in 1..Len(stack), Hides(stack[i], at) PROVE FALSE
  OBVIOUS
<1>1. ~Reserves(stack[i], at)
  BY DEF Inductive, Sound, Shape, Stacked, Here
<1> QED
  BY <1>1 DEF Hides, Reserves, HasNext, HasAfter, HasHeader, At

\* The top frame goes on as g.
LEMMA ProceedFlow ==
  ASSUME Inductive, Flowing, stack # <<>>, NEW g \in Frame, Proceed(g), Flows(Top, g)
  PROVE  Flowing'
<1> DEFINE k == Len(stack) - 1
<1>1. /\ k \in Nat /\ Len(stack) = k + 1 /\ Top = stack[k + 1]
      /\ stack \in Seq(Frame) /\ at \in 1..Len(blocks)
  BY Awaits DEF OnTop
<1>2. stack' = Append(SubSeq(stack, 1, k), g)
  BY DEF Proceed, Below
<1> HIDE DEF k
<1>3. /\ Len(stack') = k + 1 /\ stack'[k + 1] = g
      /\ \A i \in 1..k : stack'[i] = stack[i]
  BY <1>1, <1>2
<1>4. TopIs(stack, k, Top) /\ TopIs(stack', k, g)
  BY <1>1, <1>3 DEF TopIs
<1>5. stack' # <<>> /\ \A i \in 1..Len(stack) : ~Hides(stack[i], at)
  BY <1>1, <1>3, InsertShown
<1> QED
  BY <1>1, <1>3, <1>4, <1>5, FlowKept DEF Flowing, Flows

\* It returns.
LEMMA ReturnFlow ==
  ASSUME Inductive, Flowing, stack # <<>>, NEW v, Return(v), Flows(Top, Blank),
         Top.kind = "main" => blocks'[at'].ends = "ret"
  PROVE  Flowing'
<1> DEFINE k == Len(stack) - 1
<1>1. /\ k \in Nat /\ Len(stack) = k + 1 /\ Top = stack[k + 1]
      /\ stack \in Seq(Frame) /\ at \in 1..Len(blocks)
      /\ (Top.kind = "main" <=> k = 0)
  <2>1. OnTop(blocks, stack, at, k, Top)
    BY Awaits
  <2> HIDE DEF k
  <2>2. Top.kind = "main" <=> k = 0
    BY <2>1, TopFrame
  <2> QED
    BY <2>1, <2>2 DEF OnTop
<1>2. stack' = SubSeq(stack, 1, k)
  BY DEF Return, Below
<1> HIDE DEF k
<1>3. Len(stack') = k /\ \A i \in 1..k : stack'[i] = stack[i]
  BY <1>1, <1>2
<1>4. TopIs(stack, k, Top) /\ TopIs(stack', k, Blank)
  BY <1>1, <1>3 DEF TopIs, Idle, Blank, HasNext, HasAfter, HasHeader, At
<1>5. stack' = <<>> => blocks'[at'].ends = "ret"
  BY <1>1, <1>3
<1>6. \A i \in 1..Len(stack) : ~Hides(stack[i], at)
  BY InsertShown
<1> QED
  BY <1>1, <1>3, <1>4, <1>5, <1>6, FlowKept DEF Flowing, Flows

\* It calls codegen() of a subexpression, which has frame g.
LEMMA EnterFlow ==
  ASSUME Inductive, Flowing, stack # <<>>, NEW g \in Frame, Enter(g), Flows(Blank, g)
  PROVE  Flowing'
<1> DEFINE k == Len(stack)
<1>1. k \in Nat /\ k # 0 /\ stack \in Seq(Frame) /\ at \in 1..Len(blocks)
  BY Awaits DEF OnTop
<1>2. stack' = Append(stack, g)
  BY DEF Enter
<1>3. /\ Len(stack') = k + 1 /\ stack'[k + 1] = g
      /\ \A i \in 1..k : stack'[i] = stack[i]
  BY <1>1, <1>2
<1>4. TopIs(stack, k, Blank) /\ TopIs(stack', k, g)
  BY <1>1, <1>3 DEF TopIs, Idle, Blank, HasNext, HasAfter, HasHeader, At
<1>5. stack' # <<>> /\ \A i \in 1..Len(stack) : ~Hides(stack[i], at)
  BY <1>1, <1>3, InsertShown
<1> HIDE DEF k
<1> QED
  BY <1>1, <1>3, <1>4, <1>5, FlowKept DEF Flowing, Flows

-----------------------------------------------------------------------------
(* Steps that end no block. *)

\* The blocks may have more operands, and the top frame has no blocks.
LEMMA QuietFlows ==
  ASSUME Inductive, NEW f, NEW g, Idle(f), Idle(g), at' = at,
         Len(blocks') = Len(blocks),
         \A b \in 1..Len(blocks) : Alike(blocks'[b], blocks[b])
  PROVE  Flows(f, g)
<1>1. Len(blocks) \in Nat
  BY DEF Inductive, Sound, Blocks
<1>2. Widened(blocks, blocks')
  BY <1>1 DEF Widened, Alike
<1>3. \A b \in 1..Len(blocks') : ~(b > Len(blocks))
  BY <1>1
<1> QED
  BY <1>2, <1>3, IdleFacts DEF Flows, Onward, Homeward, Turning

\* Calls without blocks of their own, and those that have none yet.
LEMMA PlainFlow ==
  ASSUME Inductive, Flowing, stack # <<>>,
         \/ TwoStart \/ LetStart \/ LetMutable \/ IfStart \/ MatchStart \/ ForStart
         \/ TwoLeft \/ LetDef \/ TwoRight \/ LetBody
  PROVE  Flowing'
<1>1. /\ Blocks(blocks) /\ Len(blocks) \in Nat /\ at \in 1..Len(blocks)
      /\ Top \in Frame
  <2>1. OnTop(blocks, stack, at, Len(stack) - 1, Top) /\ Len(blocks) \in Nat
    BY Awaits
  <2> QED
    BY <2>1, TopFrame DEF OnTop
<1>2. Idle(Blank)
  BY DEF Idle, Blank, HasNext, HasAfter, HasHeader, At
<1>3. \A b \in 1..Len(blocks) : Alike(blocks[b], blocks[b])
  BY DEF Alike
<1>4. /\ {"two", "let", "if", "match", "for"} \subseteq Kinds
      /\ {"left", "right", "def", "body", "cond", "expr", "from"} \subseteq Steps
  BY DEF Kinds, Steps
<1>5. CASE TwoStart \/ LetStart \/ LetMutable \/ IfStart \/ MatchStart \/ ForStart
  <2>1. PICK g \in Frame :
          /\ Enter(g)
          /\ \/ g.kind = "two" /\ g.step = "left"
             \/ g.kind = "let" /\ g.step = "def"
             \/ g.kind = "let" /\ g.step = "body"
             \/ g.kind = "if" /\ g.step = "cond"
             \/ g.kind = "match" /\ g.step = "expr"
             \/ g.kind = "for" /\ g.step = "from"
    <3>1. CASE TwoStart
      BY <1>4, <3>1, NewFrame DEF TwoStart
    <3>2. CASE LetStart
      BY <1>4, <3>2, NewFrame DEF LetStart
    <3>3. CASE MatchStart
      BY <1>4, <3>3, NewFrame DEF MatchStart
    <3>4. CASE ForStart
      BY <1>4, <3>4, NewFrame DEF ForStart
    <3>5. CASE IfStart
      <4>1. PICK else \in BOOLEAN : Enter([FrameOf("if", "cond") EXCEPT !.more = else])
        BY <3>5 DEF IfStart
      <4> DEFINE h == FrameOf("if", "cond")
                 g == [h EXCEPT !.more = else]
      <4>2. h \in Frame /\ h.kind = "if" /\ h.step = "cond"
        BY <1>4, NewFrame
      <4>3. Enter(g)
        BY <4>1
      <4> HIDE DEF h
      <4>4. g \in Frame /\ g.kind = "if" /\ g.step = "cond"
        BY <4>2 DEF Frame
      <4> QED
        BY <4>3, <4>4
    <3>6. CASE LetMutable
      <4> DEFINE h == FrameOf("let", "body")
                 g == [h EXCEPT !.held = CurrentFun]
      <4>1. h \in Frame /\ h.kind = "let" /\ h.step = "body"
        BY <1>4, NewFrame
      <4>2. Enter(g)
        BY <3>6 DEF LetMutable
      <4>3. CurrentFun \in Nat
        <5>1. blocks[at] \in Block
          BY <1>1 DEF Blocks
        <5> QED
          BY <5>1 DEF Block, CurrentFun
      <4> HIDE DEF h
      <4>4. g \in Frame /\ g.kind = "let" /\ g.step = "body"
        BY <4>1, <4>3 DEF Frame
      <4> QED
        BY <4>2, <4>4
    <3> QED
      BY <1>5, <3>1, <3>2, <3>3, <3>4, <3>5, <3>6
  <2>2. Idle(g)
    BY <2>1 DEF Idle, HasNext, HasAfter, HasHeader, At
  <2>3. UNCHANGED <<blocks, at>>
    BY <1>5 DEF TwoStart, LetStart, LetMutable, IfStart, MatchStart, ForStart
  <2>4. Flows(Blank, g)
    BY <1>2, <1>3, <2>2, <2>3, QuietFlows
  <2> QED
    BY <2>1, <2>4, EnterFlow
<1>6. CASE TwoLeft \/ LetDef
  <2>1. PICK kind \in {"two", "let"}, step \in {"left", "def"},
             next \in {"right", "body"} :
          /\ Resumed(kind, step)
          /\ Proceed([Top EXCEPT !.step = next, !.held = value])
          /\ UNCHANGED <<blocks, at>>
    BY <1>6 DEF TwoLeft, LetDef
  <2>2. Top.kind = kind /\ value \in Nat
    BY <2>1, Resumes
  <2> DEFINE g == [Top EXCEPT !.step = next, !.held = value]
  <2>3. g \in Frame /\ g.kind = kind
    BY <1>1, <1>4, <2>2 DEF Frame
  <2>4. Proceed(g)
    BY <2>1
  <2> HIDE DEF g
  <2>5. Idle(Top) /\ Idle(g)
    BY <2>2, <2>3 DEF Idle, HasNext, HasAfter, HasHeader, At
  <2>6. Flows(Top, g)
    BY <1>3, <2>1, <2>5, QuietFlows
  <2> QED
    BY <2>3, <2>4, <2>6, ProceedFlow
<1>7. CASE TwoRight
  <2> DEFINE T == {Top.held, value}
             cs == Use(blocks, at, T)
  <2>1. Resumed("two", "right") /\ blocks' = cs /\ at' = at /\ Return(at)
    BY <1>7 DEF TwoRight
  <2>2. Top.kind = "two" /\ value \in 0..Len(blocks) /\ Top.held \in 0..Len(blocks)
    BY <1>1, <2>1, Resumes, TopFrame DEF FrameInv, Framed
  <2>3. T \in SUBSET (0..Len(blocks))
    BY <2>2
  <2> HIDE DEF T
  <2>4. Len(cs) = Len(blocks) /\ \A b \in 1..Len(blocks) : Alike(cs[b], blocks[b])
    BY <1>1, <2>3, UseBlocks
  <2> HIDE DEF cs
  <2>5. Idle(Top) /\ Top.kind # "main"
    BY <2>2 DEF Idle, HasNext, HasAfter, HasHeader, At
  <2>6. Flows(Top, Blank)
    BY <1>2, <2>1, <2>4, <2>5, QuietFlows
  <2> QED
    BY <2>1, <2>5, <2>6, ReturnFlow
<1>8. CASE LetBody
  <2>1. Resumed("let", "body") /\ UNCHANGED <<blocks, at>> /\ Return(value)
    BY <1>8 DEF LetBody
  <2>2. Top.kind = "let"
    BY <2>1, Resumes
  <2>3. Idle(Top) /\ Top.kind # "main"
    BY <2>2 DEF Idle, HasNext, HasAfter, HasHeader, At
  <2>4. Flows(Top, Blank)
    BY <1>2, <1>3, <2>1, <2>3, QuietFlows
  <2> QED
    BY <2>1, <2>3, <2>4, ReturnFlow
<1> QED
  BY <1>5, <1>6, <1>7, <1>8

-----------------------------------------------------------------------------
(* The operations of Builder widen the blocks. *)

\* One after the other.
LEMMA WidensOn ==
  ASSUME NEW bs, NEW cs, NEW ds, Widened(bs, cs), Widened(cs, ds)
  PROVE  Widened(bs, ds)
<1>1. \A b \in 1..Len(bs) : b \in 1..Len(cs)
  BY DEF Widened
<1>2. Len(bs) \in Nat /\ Len(cs) \in Nat /\ Len(ds) \in Nat /\ Len(bs) <= Len(ds)
  BY DEF Widened
<1> QED
  BY <1>1, <1>2 DEF Widened

\* A PHI, and an instruction.
LEMMA PhiQuiet ==
  ASSUME NEW bs, Blocks(bs), NEW b \in 1..Len(bs), NEW phi \in Pairs
  PROVE  Quiet(bs, Phi(bs, b, phi))
<1> DEFINE cs == Phi(bs, b, phi)
<1>1. /\ Blocks(cs) /\ Len(cs) = Len(bs)
      /\ \A c \in 1..Len(bs) : c # b => cs[c] = bs[c]
      /\ cs[b].fun = bs[b].fun /\ cs[b].ends = bs[b].ends /\ cs[b].succs = bs[b].succs
  BY PhiBlocks DEF Pairs
<1>2. Len(bs) \in Nat
  BY DEF Blocks
<1> HIDE DEF cs
<1>3. \A c \in 1..Len(bs) : /\ cs[c].fun = bs[c].fun /\ cs[c].ends = bs[c].ends
                            /\ cs[c].succs = bs[c].succs
  BY <1>1
<1>4. Widened(bs, cs)
  BY <1>1, <1>2, <1>3 DEF Widened
<1> QED
  BY <1>1, <1>3, <1>4 DEF Quiet, cs

\* A block that is in no function yet gets into one.
LEMMA AttachQuiet ==
  ASSUME NEW bs, Blocks(bs), NEW b \in 1..Len(bs), NEW F \in Nat, bs[b].fun = Nowhere
  PROVE  Quiet(bs, Attach(bs, b, F))
<1> DEFINE cs == Attach(bs, b, F)
<1>1. /\ Blocks(cs) /\ Len(cs) = Len(bs)
      /\ \A c \in 1..Len(bs) : c # b => cs[c] = bs[c]
      /\ cs[b].ends = bs[b].ends /\ cs[b].succs = bs[b].succs
  BY AttachBlocks
<1>2. Len(bs) \in Nat /\ bs[b].fun # b
  BY DEF Blocks, Nowhere
<1> HIDE DEF cs
<1>3. \A c \in 1..Len(bs) : cs[c].ends = bs[c].ends /\ cs[c].succs = bs[c].succs
  BY <1>1
<1>4. \A c \in 1..Len(bs) : bs[c].fun = c => cs[c].fun = c
  BY <1>1, <1>2
<1>5. Widened(bs, cs)
  BY <1>1, <1>2, <1>3, <1>4 DEF Widened
<1> QED
  BY <1>1, <1>3, <1>5 DEF Quiet, cs

\* An open block ends with a branch.
LEMMA BranchJumps ==
  ASSUME NEW bs, Blocks(bs), NEW b \in 1..Len(bs), NEW t \in 1..Len(bs),
         bs[b].succs = {}, bs[b].ends = "open"
  PROVE  Jumps(bs, Branch(bs, b, {t}), b, {t})
<1> DEFINE cs == Branch(bs, b, {t})
<1>1. /\ Blocks(cs) /\ Len(cs) = Len(bs)
      /\ \A c \in 1..Len(bs) : c # b => cs[c] = bs[c]
      /\ cs[b].fun = bs[b].fun /\ cs[b].ends = "br" /\ cs[b].succs = {t}
  BY BranchOne
<1>2. Len(bs) \in Nat
  BY DEF Blocks
<1> HIDE DEF cs
<1>3. \A c \in 1..Len(bs) : cs[c].fun = bs[c].fun
  BY <1>1
<1>4. Widened(bs, cs)
  BY <1>1, <1>2, <1>3 DEF Widened
<1> QED
  BY <1>1, <1>3, <1>4 DEF Jumps, cs

\* An open block ends with a conditional branch.
LEMMA ForkJumps ==
  ASSUME NEW bs, Blocks(bs), NEW b \in 1..Len(bs), NEW s \in 1..Len(bs),
         NEW t \in 1..Len(bs), NEW v \in 0..Len(bs), NEW w \in 0..Len(bs),
         bs[b].succs = {}, bs[b].ends = "open"
  PROVE  Jumps(bs, Fork(bs, b, v, w, s, t), b, {s, t})
<1> DEFINE cs == Fork(bs, b, v, w, s, t)
<1>1. /\ Blocks(cs) /\ Len(cs) = Len(bs)
      /\ \A c \in 1..Len(bs) : c # b => Alike(cs[c], bs[c])
      /\ cs[b].fun = bs[b].fun /\ cs[b].ends = "br" /\ cs[b].succs = {s, t}
  BY BranchTwo
<1>2. Len(bs) \in Nat
  BY DEF Blocks
<1> HIDE DEF cs
<1>3. /\ \A c \in 1..Len(bs) : cs[c].fun = bs[c].fun
      /\ \A c \in 1..Len(bs) : c # b =>
           cs[c].succs = bs[c].succs /\ cs[c].ends = bs[c].ends
  BY <1>1 DEF Alike
<1>4. Widened(bs, cs)
  BY <1>1, <1>2, <1>3 DEF Widened
<1> QED
  BY <1>1, <1>3, <1>4 DEF Jumps, cs

\* The insert block is open.
LEMMA InsertFacts ==
  ASSUME Inductive, stack # <<>>
  PROVE  /\ Blocks(blocks) /\ Len(blocks) \in Nat /\ at \in 1..Len(blocks)
         /\ blocks[at].succs = {} /\ blocks[at].ends = "open"
         /\ CurrentFun \in Nat /\ Top \in Frame /\ Framed(blocks, Top)
<1> DEFINE k == Len(stack) - 1
<1>1. OnTop(blocks, stack, at, k, Top) /\ Len(blocks) \in Nat
  BY Awaits
<1> HIDE DEF k
<1>2. /\ Top \in Frame /\ FrameInv(blocks, Top) /\ blocks[at].fun \in 1..at
      /\ blocks[at].succs = {} /\ blocks[at].ends = "open"
  BY <1>1, TopFrame
<1> QED
  BY <1>1, <1>2 DEF OnTop, CurrentFun, FrameInv

\* The insert block, and the new blocks, when three are made.
LEMMA MoreWidens ==
  ASSUME Inductive, stack # <<>>, NEW n, n = Len(blocks),
         NEW ms, ms = More(blocks, CurrentFun)
  PROVE  /\ Blocks(ms) /\ Len(ms) = n + 3 /\ Widened(blocks, ms) /\ n \in Nat
         /\ at \in 1..n /\ at \in 1..Len(ms)
         /\ ms[at].succs = {} /\ ms[at].ends = "open"
         /\ n + 1 \in 1..Len(ms) /\ n + 2 \in 1..Len(ms) /\ n + 3 \in 1..Len(ms)
<1>2. /\ Blocks(blocks) /\ n \in Nat /\ at \in 1..n /\ blocks[at].succs = {}
      /\ blocks[at].ends = "open" /\ CurrentFun \in Nat
  BY InsertFacts
<1>3. /\ Blocks(ms) /\ Len(ms) = n + 3 /\ \A b \in 1..n : ms[b] = blocks[b]
  <2>1. Blocks(blocks) /\ CurrentFun \in Nat /\ ms = More(blocks, CurrentFun)
    BY <1>2
  <2>2. /\ Blocks(ms) /\ Len(ms) = Len(blocks) + 3
        /\ \A b \in 1..Len(blocks) : ms[b] = blocks[b]
    BY ONLY <2>1, ThreeMore
  <2> QED
    BY <2>2
<1>4. Widened(blocks, ms)
  <2>1. Len(blocks) \in Nat /\ Len(ms) \in Nat /\ Len(blocks) <= Len(ms)
    BY <1>2, <1>3
  <2> QED
    BY <1>3, <2>1 DEF Widened
<1> QED
  BY <1>2, <1>3, <1>4

\* ms has two blocks more, in functions F and G.
TwoMade(ms, F, G) == ms = AndTwo(blocks, F, G)

\* The same when two are made.
LEMMA TwoWidens ==
  ASSUME Inductive, stack # <<>>, NEW n, n = Len(blocks), NEW F \in Nat, NEW G \in Nat,
         NEW ms, TwoMade(ms, F, G)
  PROVE  /\ Blocks(ms) /\ Len(ms) = n + 2 /\ Widened(blocks, ms) /\ n \in Nat
         /\ at \in 1..n /\ at \in 1..Len(ms)
         /\ ms[at].succs = {} /\ ms[at].ends = "open"
         /\ n + 1 \in 1..Len(ms) /\ n + 2 \in 1..Len(ms) /\ ms[n + 2].fun = G
         /\ CurrentFun \in Nat
<1>2. /\ Blocks(blocks) /\ n \in Nat /\ at \in 1..n /\ blocks[at].succs = {}
      /\ blocks[at].ends = "open" /\ CurrentFun \in Nat
  BY InsertFacts
<1>3. /\ Blocks(ms) /\ Len(ms) = n + 2 /\ (\A b \in 1..n : ms[b] = blocks[b])
      /\ ms[n + 2].fun = G
  <2>1. Blocks(blocks) /\ F \in Nat /\ G \in Nat /\ ms = AndTwo(blocks, F, G)
    BY <1>2 DEF TwoMade
  <2>2. /\ Blocks(ms) /\ Len(ms) = Len(blocks) + 2
        /\ \A b \in 1..Len(blocks) : ms[b] = blocks[b]
        /\ ms[Len(blocks) + 2].fun = G
    BY ONLY <2>1, TwoMore
  <2> QED
    BY <2>2
<1>4. Widened(blocks, ms)
  <2>1. Len(blocks) \in Nat /\ Len(ms) \in Nat /\ Len(blocks) <= Len(ms)
    BY <1>2, <1>3
  <2> QED
    BY <1>3, <2>1 DEF Widened
<1> QED
  BY <1>2, <1>3, <1>4

-----------------------------------------------------------------------------
(* Steps that end blocks or make new ones. *)

\* What follows when block b branches to c.
LEMMA Follows ==
  ASSUME NEW cs, NEW b \in 1..Len(cs), NEW c, c \in cs[b].succs
  PROVE  /\ \A S : Upward(cs, S) /\ b \in S => c \in S
         /\ \A T : Backward(cs, T) /\ c \in T => b \in T
BY DEF Upward, Backward

\* The condition of an if has been generated.
LEMMA IfCondFlow ==
  ASSUME Inductive, Flowing, IfCond
  PROVE  Flowing'
<1> DEFINE n == Len(blocks)
           x == n + 1
           y == n + 2
           z == n + 3
           ms == More(blocks, CurrentFun)
           cs == Fork(ms, at, value, value, x, y)
           g == [Top EXCEPT !.step = "then", !.next = y, !.after = z, !.held = x]
<1>1. Resumed("if", "cond") /\ blocks' = cs /\ at' = x /\ Proceed(g)
  <2>1. {value, value} = {value}
    OBVIOUS
  <2> QED
    BY <2>1 DEF IfCond, CondBranch, More, Fork
<1>2. stack # <<>> /\ Top.kind = "if" /\ Top.step = "cond" /\ value \in 0..n
  BY <1>1, Resumes DEF Resumed, Done
<1>3. /\ Blocks(ms) /\ Len(ms) = n + 3 /\ Widened(blocks, ms) /\ n \in Nat
      /\ at \in 1..n /\ at \in 1..Len(ms)
      /\ ms[at].succs = {} /\ ms[at].ends = "open"
      /\ x \in 1..Len(ms) /\ y \in 1..Len(ms) /\ z \in 1..Len(ms)
  BY <1>2, MoreWidens
<1>4. /\ g \in Frame /\ g.kind = "if" /\ g.step = "then" /\ g.next = y /\ g.after = z
  <2>1. Top \in Frame /\ "then" \in Steps
    BY <1>2, InsertFacts DEF Steps
  <2>2. x \in Nat /\ y \in Nat /\ z \in Nat
    BY <1>3
  <2> HIDE DEF x, y, z
  <2> QED
    BY <1>2, <2>1, <2>2 DEF Frame
<1>n. \A b \in 1..n + 3 : b > n => b \in {x, y, z}
  BY <1>3
<1> HIDE DEF x, y, z, ms, g
<1>5. /\ Widened(blocks, cs) /\ Len(cs) = n + 3 /\ cs[at].succs = {x, y}
      /\ at \in 1..Len(cs)
  <2>1. value \in 0..Len(ms)
    BY <1>2, <1>3
  <2>2. Jumps(ms, cs, at, {x, y})
    BY <1>3, <2>1, ForkJumps
  <2> QED
    BY <1>3, <2>2, WidensOn DEF Jumps
<1> HIDE DEF n, cs
<1>6. Idle(Top) /\ Hides(g, z) /\ Targets(g) = {y, z}
  BY <1>2, <1>4 DEF Idle, Hides, Targets, HasNext, HasAfter, HasHeader, At
<1>c. \A b \in 1..Len(cs) : b > Len(blocks) => b \in {x, y, z}
  BY <1>5, <1>n DEF n
<1>7. Onward(blocks, cs, at, Top, g)
  BY <1>5, <1>6, <1>c, Follows, IdleFacts DEF Onward
<1>8. Homeward(blocks, cs, at, x, Top, g)
  BY <1>5, <1>6, <1>c, Follows, IdleFacts DEF Homeward
<1>9. Turning(cs, at, x, Top, g)
  BY <1>4 DEF Turning, Looped, HasHeader, At
<1> QED
  BY <1>1, <1>2, <1>4, <1>5, <1>7, <1>8, <1>9, ProceedFlow DEF Flows

\* The condition of a while has been generated.
LEMMA WhileCondFlow ==
  ASSUME Inductive, Flowing, WhileCond
  PROVE  Flowing'
<1> DEFINE n == Len(blocks)
           e == Top.next
           a == Top.after
           cs == Fork(blocks, at, value, value, e, a)
           g == [Top EXCEPT !.step = "body"]
<1>1. Resumed("while", "cond") /\ blocks' = cs /\ at' = e /\ Proceed(g)
  <2>1. {value, value} = {value}
    OBVIOUS
  <2> QED
    BY <2>1 DEF WhileCond, CondBranch, Fork
<1>2. stack # <<>> /\ Top.kind = "while" /\ Top.step = "cond" /\ value \in 0..n
  BY <1>1, Resumes DEF Resumed, Done
<1>3. /\ Blocks(blocks) /\ n \in Nat /\ at \in 1..n
      /\ blocks[at].succs = {} /\ blocks[at].ends = "open"
      /\ Top \in Frame /\ Framed(blocks, Top)
  BY <1>2, InsertFacts
<1>4. HasNext(Top) /\ HasAfter(Top) /\ HasHeader(Top)
  BY <1>2 DEF HasNext, HasAfter, HasHeader, At
<1>5. e \in 1..n /\ a \in 1..n
  BY <1>3, <1>4 DEF Framed
<1>6. /\ g \in Frame /\ g.kind = "while" /\ g.step = "body" /\ g.next = e /\ g.after = a
      /\ g.held = Top.held
  <2>1. "body" \in Steps
    BY DEF Steps
  <2> QED
    BY <1>2, <1>3, <2>1 DEF Frame
<1> HIDE DEF g
<1>7. Jumps(blocks, cs, at, {e, a})
  BY <1>2, <1>3, <1>5, ForkJumps
<1> HIDE DEF cs
<1>8. /\ Widened(blocks, cs) /\ Len(cs) = Len(blocks) /\ cs[at].succs = {e, a}
      /\ at \in 1..Len(cs)
  BY <1>3, <1>7 DEF Jumps
<1>9. /\ \A b : Hides(Top, b) => b \in {e, a}
      /\ \A b : ~Spare(Top, b)
      /\ Targets(Top) = {e, a} /\ Targets(g) = {a}
  BY <1>2, <1>6 DEF Hides, Spare, Targets, HasNext, HasAfter, HasHeader, At
<1>10. \A b \in 1..Len(cs) : ~(b > Len(blocks))
  BY <1>3, <1>8
<1> HIDE DEF n, e, a
<1>11. Onward(blocks, cs, at, Top, g)
  BY <1>8, <1>9, <1>10, Follows DEF Onward
<1>12. Homeward(blocks, cs, at, e, Top, g)
  BY <1>8, <1>9, <1>10, Follows DEF Homeward
<1>13. Turning(cs, at, e, Top, g)
  <2>1. \A T : Looped(g, e, T) <=> (a \in T => Top.held \in T)
    BY <1>6 DEF Looped, HasHeader, HasNext, At
  <2>2. \A T : Looped(Top, at, T) => (at \in T => Top.held \in T)
    BY <1>4 DEF Looped
  <2> QED
    BY <1>8, <2>1, <2>2, Follows DEF Turning
<1> QED
  BY <1>1, <1>2, <1>6, <1>8, <1>11, <1>12, <1>13, ProceedFlow DEF Flows

\* The body of a while has been generated.
LEMMA WhileBodyFlow ==
  ASSUME Inductive, Flowing, WhileBody
  PROVE  Flowing'
<1> DEFINE n == Len(blocks)
           h == Top.held
           a == Top.after
           cs == Branch(blocks, at, {h})
<1>1. Resumed("while", "body") /\ blocks' = cs /\ at' = a /\ Return(Const)
  BY DEF WhileBody
<1>2. stack # <<>> /\ Top.kind = "while" /\ Top.step = "body"
  BY <1>1, Resumes DEF Resumed, Done
<1>3. /\ Blocks(blocks) /\ n \in Nat /\ at \in 1..n
      /\ blocks[at].succs = {} /\ blocks[at].ends = "open"
      /\ Top \in Frame /\ Framed(blocks, Top)
  BY <1>2, InsertFacts
<1>4. ~HasNext(Top) /\ HasAfter(Top) /\ HasHeader(Top) /\ Top.kind # "main"
  BY <1>2 DEF HasNext, HasAfter, HasHeader, At
<1>5. h \in 1..n
  BY <1>3, <1>4 DEF Framed
<1>7. Jumps(blocks, cs, at, {h})
  BY <1>3, <1>5, BranchJumps
<1> HIDE DEF cs
<1>8. /\ Widened(blocks, cs) /\ Len(cs) = Len(blocks) /\ h \in cs[at].succs
      /\ at \in 1..Len(cs)
  BY <1>3, <1>7 DEF Jumps
<1>9. /\ \A b : ~Hides(Top, b) /\ ~Spare(Top, b)
      /\ Targets(Top) = {a} /\ Idle(Blank)
      /\ \A T : Looped(Top, at, T) => (a \in T => h \in T)
  BY <1>2 DEF Hides, Spare, Targets, Looped, Idle, Blank, HasNext, HasAfter, HasHeader, At
<1>10. \A b \in 1..Len(cs) : ~(b > Len(blocks))
  BY <1>3, <1>8
<1> HIDE DEF n, h, a
<1>11. Onward(blocks, cs, at, Top, Blank)
  BY <1>9, <1>10 DEF Onward
<1>12. Homeward(blocks, cs, at, a, Top, Blank)
  BY <1>8, <1>9, <1>10, Follows DEF Homeward
<1>13. Turning(cs, at, a, Top, Blank)
  BY <1>9, IdleFacts DEF Turning
<1> QED
  BY <1>1, <1>2, <1>4, <1>8, <1>11, <1>12, <1>13, ReturnFlow DEF Flows

\* The then part has been generated, and the else part is next.
LEMMA IfThenElseFlow ==
  ASSUME Inductive, Flowing, IfThen, Top.more
  PROVE  Flowing'
<1> DEFINE n == Len(blocks)
           e == Top.next
           a == Top.after
           ps == <<ThenPair>>
           cs == Branch(blocks, at, {a})
           g == [Top EXCEPT !.step = "else", !.incoming = ps]
<1>1. Resumed("if", "then") /\ blocks' = cs /\ at' = e /\ Proceed(g)
  BY DEF IfThen
<1>2. stack # <<>> /\ Top.kind = "if" /\ Top.step = "then" /\ value \in 0..n
  BY <1>1, Resumes DEF Resumed, Done
<1>3. /\ Blocks(blocks) /\ n \in Nat /\ at \in 1..n
      /\ blocks[at].succs = {} /\ blocks[at].ends = "open"
      /\ Top \in Frame /\ Framed(blocks, Top)
  BY <1>2, InsertFacts
<1>4. HasAfter(Top)
  BY <1>2 DEF HasAfter, At
<1>5. a \in 1..n
  BY <1>3, <1>4 DEF Framed
<1>6. /\ g \in Frame /\ g.kind = "if" /\ g.step = "else" /\ g.after = a
  <2>1. "else" \in Steps /\ ps \in Pairs
    <3>1. ThenPair \in [val: Nat, from: Nat]
      BY <1>2, <1>3 DEF ThenPair, Pair
    <3> QED
      BY <3>1 DEF Steps, Pairs
  <2> HIDE DEF ps
  <2> QED
    BY <1>2, <1>3, <2>1 DEF Frame, Pairs
<1> HIDE DEF g, ps
<1>7. Jumps(blocks, cs, at, {a})
  BY <1>3, <1>5, BranchJumps
<1> HIDE DEF cs
<1>8. /\ Widened(blocks, cs) /\ Len(cs) = Len(blocks) /\ a \in cs[at].succs
      /\ at \in 1..Len(cs)
  BY <1>3, <1>7 DEF Jumps
<1>9. /\ \A b : Hides(Top, b) => b = a
      /\ \A b : ~Spare(Top, b)
      /\ Targets(Top) = {e, a} /\ Targets(g) = {a} /\ ~HasHeader(g)
  BY <1>2, <1>6 DEF Hides, Spare, Targets, HasNext, HasAfter, HasHeader, At
<1>10. \A b \in 1..Len(cs) : ~(b > Len(blocks))
  BY <1>3, <1>8
<1> HIDE DEF n, e, a
<1>11. Onward(blocks, cs, at, Top, g)
  BY <1>8, <1>9, <1>10, Follows DEF Onward
<1>12. Homeward(blocks, cs, at, e, Top, g)
  BY <1>8, <1>9, <1>10, Follows DEF Homeward
<1>13. Turning(cs, at, e, Top, g)
  BY <1>9 DEF Turning, Looped
<1> QED
  BY <1>1, <1>2, <1>6, <1>8, <1>11, <1>12, <1>13, ProceedFlow DEF Flows

\* The then part has been generated, and there is no else part.
LEMMA IfThenEndFlow ==
  ASSUME Inductive, Flowing, IfThen, ~Top.more
  PROVE  Flowing'
<1> DEFINE n == Len(blocks)
           e == Top.next
           a == Top.after
           ps == <<ThenPair, Pair(NoElse, e)>>
           bs == Branch(blocks, at, {a})
           es == Branch(bs, e, {a})
           cs == Phi(es, a, ps)
<1>1. Resumed("if", "then") /\ blocks' = cs /\ at' = a /\ Return(a)
  BY DEF IfThen, IfEnd
<1>2. stack # <<>> /\ Top.kind = "if" /\ Top.step = "then" /\ value \in 0..n
  BY <1>1, Resumes DEF Resumed, Done
<1>3. /\ Blocks(blocks) /\ n \in Nat /\ at \in 1..n
      /\ blocks[at].succs = {} /\ blocks[at].ends = "open"
      /\ Top \in Frame /\ Framed(blocks, Top)
  BY <1>2, InsertFacts
<1>4. HasAfter(Top) /\ HasNext(Top) /\ Top.kind # "main"
  BY <1>2 DEF HasAfter, HasNext, At
<1>5. a \in 1..n /\ e \in 1..n
  BY <1>3, <1>4 DEF Framed
<1>6. e # at /\ blocks[e].succs = {} /\ blocks[e].ends = "open"
  <2>1. "if" \in Branching /\ Reserves(Top, e)
    BY <1>4 DEF Branching, Reserves
  <2> QED
    BY <1>1, <1>5, <2>1, CallFacts
<1>p. ps \in Pairs
  <2>1. /\ ThenPair \in [val: Nat, from: Nat]
        /\ Pair(NoElse, e) \in [val: Nat, from: Nat]
    BY <1>2, <1>3, <1>5 DEF ThenPair, Pair, NoElse, Const
  <2> HIDE DEF e
  <2> QED
    BY <2>1 DEF Pairs
<1> HIDE DEF ps
<1>7. Jumps(blocks, bs, at, {a})
  BY <1>3, <1>5, BranchJumps
<1> HIDE DEF bs
<1>8. /\ Blocks(bs) /\ e \in 1..Len(bs) /\ a \in 1..Len(bs)
      /\ bs[e].succs = {} /\ bs[e].ends = "open"
  BY <1>5, <1>6, <1>7 DEF Jumps
<1>9. Jumps(bs, es, e, {a})
  BY <1>8, BranchJumps
<1> HIDE DEF es
<1>10. Quiet(es, cs)
  <2>1. Blocks(es) /\ a \in 1..Len(es)
    BY <1>8, <1>9 DEF Jumps
  <2> QED
    BY <1>p, <2>1, PhiQuiet
<1> HIDE DEF cs
<1>11. /\ Len(cs) = Len(blocks) /\ at \in 1..Len(cs) /\ e \in 1..Len(cs)
       /\ a \in cs[at].succs /\ a \in cs[e].succs
  BY <1>3, <1>5, <1>6, <1>7, <1>9, <1>10 DEF Jumps, Quiet
<1>12. Widened(blocks, cs)
  BY <1>7, <1>9, <1>10, WidensOn DEF Jumps, Quiet
<1>13. /\ \A b : Hides(Top, b) => b = a
       /\ \A b : ~Spare(Top, b)
       /\ Targets(Top) = {e, a} /\ Idle(Blank)
  BY <1>2 DEF Hides, Spare, Targets, Idle, Blank, HasNext, HasAfter, HasHeader, At
<1>14. \A b \in 1..Len(cs) : ~(b > Len(blocks))
  BY <1>3, <1>11
<1> HIDE DEF n, e, a
<1>15. Onward(blocks, cs, at, Top, Blank)
  BY <1>11, <1>13, <1>14, Follows DEF Onward
<1>16. Homeward(blocks, cs, at, a, Top, Blank)
  BY <1>11, <1>13, <1>14, Follows DEF Homeward
<1>17. Turning(cs, at, a, Top, Blank)
  BY <1>13, IdleFacts DEF Turning
<1> QED
  BY <1>1, <1>2, <1>4, <1>12, <1>15, <1>16, <1>17, ReturnFlow DEF Flows

\* The else part has been generated.
LEMMA IfElseFlow ==
  ASSUME Inductive, Flowing, IfElse
  PROVE  Flowing'
<1> DEFINE n == Len(blocks)
           e == Top.next
           a == Top.after
           ps == Append(Top.incoming, Pair(value, e))
           bs == Branch(blocks, at, {a})
           cs == Phi(bs, a, ps)
<1>1. Resumed("if", "else") /\ blocks' = cs /\ at' = a /\ Return(a)
  BY DEF IfElse, IfEnd
<1>2. stack # <<>> /\ Top.kind = "if" /\ Top.step = "else" /\ value \in 0..n
  BY <1>1, Resumes DEF Resumed, Done
<1>3. /\ Blocks(blocks) /\ n \in Nat /\ at \in 1..n
      /\ blocks[at].succs = {} /\ blocks[at].ends = "open"
      /\ Top \in Frame /\ Framed(blocks, Top)
  BY <1>2, InsertFacts
<1>4. HasAfter(Top) /\ Top.kind # "main"
  BY <1>2 DEF HasAfter, At
<1>5. a \in 1..n /\ e \in Nat
  BY <1>3, <1>4 DEF Framed
<1>p. ps \in Pairs
  <2>1. /\ Top.incoming \in Seq([val: Nat, from: Nat])
        /\ Pair(value, e) \in [val: Nat, from: Nat]
    BY <1>2, <1>3, <1>5 DEF Pair, Frame
  <2> HIDE DEF e
  <2> QED
    BY <2>1 DEF Pairs
<1> HIDE DEF ps
<1>7. Jumps(blocks, bs, at, {a})
  BY <1>3, <1>5, BranchJumps
<1> HIDE DEF bs
<1>10. Quiet(bs, cs)
  <2>1. Blocks(bs) /\ a \in 1..Len(bs)
    BY <1>5, <1>7 DEF Jumps
  <2> QED
    BY <1>p, <2>1, PhiQuiet
<1> HIDE DEF cs
<1>11. /\ Len(cs) = Len(blocks) /\ at \in 1..Len(cs) /\ a \in cs[at].succs
  BY <1>3, <1>7, <1>10 DEF Jumps, Quiet
<1>12. Widened(blocks, cs)
  BY <1>7, <1>10, WidensOn DEF Jumps, Quiet
<1>13. /\ \A b : Hides(Top, b) => b = a
       /\ \A b : ~Spare(Top, b)
       /\ Targets(Top) = {a} /\ Idle(Blank)
  BY <1>2 DEF Hides, Spare, Targets, Idle, Blank, HasNext, HasAfter, HasHeader, At
<1>14. \A b \in 1..Len(cs) : ~(b > Len(blocks))
  BY <1>3, <1>11
<1> HIDE DEF n, e, a
<1>15. Onward(blocks, cs, at, Top, Blank)
  BY <1>11, <1>13, <1>14, Follows DEF Onward
<1>16. Homeward(blocks, cs, at, a, Top, Blank)
  BY <1>11, <1>13, <1>14, Follows DEF Homeward
<1>17. Turning(cs, at, a, Top, Blank)
  BY <1>13, IdleFacts DEF Turning
<1> QED
  BY <1>1, <1>2, <1>4, <1>12, <1>15, <1>16, <1>17, ReturnFlow DEF Flows

\* The scrutinee of a match has been generated.
LEMMA MatchExprFlow ==
  ASSUME Inductive, Flowing, MatchExpr
  PROVE  Flowing'
<1> DEFINE n == Len(blocks)
           a == n + 1
           e == n + 2
           ms == AndTwo(blocks, Nowhere, Nowhere)
           bs == Attach(ms, e, CurrentFun)
           cs == Branch(bs, at, {e})
           g == [Top EXCEPT !.step = "pattern", !.held = value, !.next = e, !.after = a]
<1>1. Resumed("match", "expr") /\ blocks' = cs /\ at' = e /\ Proceed(g)
  BY DEF MatchExpr, AndTwo
<1>2. stack # <<>> /\ Top.kind = "match" /\ Top.step = "expr" /\ value \in 0..n
  BY <1>1, Resumes DEF Resumed, Done
<1>3. /\ Blocks(ms) /\ Len(ms) = n + 2 /\ Widened(blocks, ms) /\ n \in Nat
      /\ at \in 1..n /\ at \in 1..Len(ms)
      /\ ms[at].succs = {} /\ ms[at].ends = "open"
      /\ a \in 1..Len(ms) /\ e \in 1..Len(ms) /\ ms[e].fun = Nowhere
      /\ CurrentFun \in Nat
  <2>1. Nowhere \in Nat /\ TwoMade(ms, Nowhere, Nowhere)
    BY DEF Nowhere, TwoMade
  <2> QED
    BY <1>2, <2>1, TwoWidens
<1>4. g \in Frame /\ g.kind = "match" /\ g.step = "pattern" /\ g.after = a
  <2>1. Top \in Frame /\ "pattern" \in Steps /\ value \in Nat
    BY <1>2, InsertFacts DEF Steps
  <2>2. a \in Nat /\ e \in Nat
    BY <1>3
  <2> HIDE DEF a, e
  <2> QED
    BY <1>2, <2>1, <2>2 DEF Frame
<1>n. \A b \in 1..n + 2 : b > n => b \in {a, e}
  BY <1>3
<1> HIDE DEF a, e, ms, g
<1>5. Quiet(ms, bs)
  BY <1>3, AttachQuiet
<1> HIDE DEF bs
<1>6. Jumps(bs, cs, at, {e})
  <2>1. /\ Blocks(bs) /\ at \in 1..Len(bs) /\ e \in 1..Len(bs)
        /\ bs[at].succs = {} /\ bs[at].ends = "open"
    BY <1>3, <1>5 DEF Quiet
  <2> QED
    BY <2>1, BranchJumps
<1> HIDE DEF cs
<1>7. /\ Len(cs) = n + 2 /\ e \in cs[at].succs /\ at \in 1..Len(cs)
  BY <1>3, <1>5, <1>6 DEF Jumps, Quiet
<1>8. Widened(blocks, cs)
  BY <1>3, <1>5, <1>6, WidensOn DEF Jumps, Quiet
<1>9. Idle(Top) /\ Hides(g, a) /\ Targets(g) = {a} /\ ~HasHeader(g)
  BY <1>2, <1>4 DEF Idle, Hides, Targets, HasNext, HasAfter, HasHeader, At
<1>10. \A b \in 1..Len(cs) : b > Len(blocks) => b \in {a, e}
  BY <1>7, <1>n
<1> HIDE DEF n
<1>11. Onward(blocks, cs, at, Top, g)
  BY <1>7, <1>9, <1>10, Follows, IdleFacts DEF Onward
<1>12. Homeward(blocks, cs, at, e, Top, g)
  BY <1>7, <1>9, <1>10, Follows, IdleFacts DEF Homeward
<1>13. Turning(cs, at, e, Top, g)
  BY <1>9 DEF Turning, Looped
<1> QED
  BY <1>1, <1>2, <1>4, <1>8, <1>11, <1>12, <1>13, ProceedFlow DEF Flows

\* A pattern has been generated: its clause is next, or another pattern.
LEMMA MatchPatternFlow ==
  ASSUME Inductive, Flowing, MatchPattern
  PROVE  Flowing'
<1> DEFINE n == Len(blocks)
           e == n + 1
           x == n + 2
           a == Top.after
           ms == AndTwo(blocks, Nowhere, CurrentFun)
           cs == Fork(ms, at, value, Top.held, x, e)
           g == [Top EXCEPT !.step = "clause", !.next = e]
<1>1. Resumed("match", "pattern") /\ blocks' = cs /\ at' = x /\ Proceed(g)
  BY DEF MatchPattern, AndTwo, Fork
<1>2. stack # <<>> /\ Top.kind = "match" /\ Top.step = "pattern" /\ value \in 0..n
  BY <1>1, Resumes DEF Resumed, Done
<1>3. /\ Blocks(ms) /\ Len(ms) = n + 2 /\ Widened(blocks, ms) /\ n \in Nat
      /\ at \in 1..n /\ at \in 1..Len(ms)
      /\ ms[at].succs = {} /\ ms[at].ends = "open"
      /\ e \in 1..Len(ms) /\ x \in 1..Len(ms)
  <2>1. /\ Inductive /\ stack # <<>> /\ n = Len(blocks)
        /\ Nowhere \in Nat /\ CurrentFun \in Nat
        /\ TwoMade(ms, Nowhere, CurrentFun)
    BY <1>2, InsertFacts DEF Nowhere, TwoMade
  <2> HIDE DEF n, ms
  <2>2. /\ Blocks(ms) /\ Len(ms) = n + 2 /\ Widened(blocks, ms) /\ n \in Nat
        /\ at \in 1..n /\ at \in 1..Len(ms)
        /\ ms[at].succs = {} /\ ms[at].ends = "open"
        /\ n + 1 \in 1..Len(ms) /\ n + 2 \in 1..Len(ms)
    BY ONLY <2>1, TwoWidens
  <2> QED
    BY <2>2
<1>4. Top \in Frame /\ Framed(blocks, Top)
  BY <1>2, InsertFacts
<1>5. /\ g \in Frame /\ g.kind = "match" /\ g.step = "clause" /\ g.after = a
      /\ g.next = e
  <2>1. "clause" \in Steps /\ e \in Nat
    BY <1>3 DEF Steps
  <2> HIDE DEF e
  <2> QED
    BY <1>2, <1>4, <2>1 DEF Frame
<1>n. \A b \in 1..n + 2 : b > n => b \in {e, x}
  BY <1>3
<1>6. Jumps(ms, cs, at, {x, e})
  <2>1. value \in 0..Len(ms) /\ Top.held \in 0..Len(ms)
    BY <1>2, <1>3, <1>4 DEF Framed
  <2> HIDE DEF ms, e, x
  <2> QED
    BY <1>3, <2>1, ForkJumps
<1> HIDE DEF a, e, x, ms, g, cs
<1>7. /\ Len(cs) = n + 2 /\ x \in cs[at].succs /\ e \in cs[at].succs
      /\ at \in 1..Len(cs)
  BY <1>3, <1>6 DEF Jumps
<1>8. Widened(blocks, cs)
  BY <1>3, <1>6, WidensOn DEF Jumps
<1>9. /\ \A b : Hides(Top, b) => Hides(g, b)
      /\ \A b : ~Spare(Top, b)
      /\ Spare(g, e) /\ Targets(Top) = {a} /\ Targets(g) = {a} /\ ~HasHeader(g)
  BY <1>2, <1>5 DEF Hides, Spare, Targets, HasNext, HasAfter, HasHeader, At, a
<1>10. \A b \in 1..Len(cs) : b > Len(blocks) => b \in {e, x}
  BY <1>7, <1>n
<1> HIDE DEF n
<1>11. Onward(blocks, cs, at, Top, g)
  BY <1>7, <1>9, <1>10, Follows DEF Onward
<1>12. Homeward(blocks, cs, at, x, Top, g)
  BY <1>7, <1>9, <1>10, Follows DEF Homeward
<1>13. Turning(cs, at, x, Top, g)
  BY <1>9 DEF Turning, Looped
<1> QED
  BY <1>1, <1>2, <1>5, <1>8, <1>11, <1>12, <1>13, ProceedFlow DEF Flows

\* A clause has been generated: what no clause matched goes on, or traps.
LEMMA MatchClauseFlow ==
  ASSUME Inductive, Flowing, MatchClause
  PROVE  Flowing'
<1> DEFINE n == Len(blocks)
           e == Top.next
           a == Top.after
           ps == Append(Top.incoming, Pair(value, at))
           bs == Branch(blocks, at, {a})
           es == Attach(bs, e, CurrentFun)
           ts == Branch(es, e, {e})
           us == Attach(ts, a, CurrentFun)
           cs == Phi(us, a, ps)
           g == [Top EXCEPT !.step = "pattern", !.incoming = ps]
<1>1. /\ Resumed("match", "clause")
      /\ \/ blocks' = es /\ at' = e /\ Proceed(g)
         \/ blocks' = cs /\ at' = a /\ Return(a)
  BY DEF MatchClause, MatchTrap
<1>2. stack # <<>> /\ Top.kind = "match" /\ Top.step = "clause" /\ value \in 0..n
  BY <1>1, Resumes DEF Resumed, Done
<1>3. /\ Blocks(blocks) /\ n \in Nat /\ at \in 1..n
      /\ blocks[at].succs = {} /\ blocks[at].ends = "open" /\ CurrentFun \in Nat
      /\ Top \in Frame /\ Framed(blocks, Top)
  BY <1>2, InsertFacts
<1>4. HasAfter(Top) /\ HasNext(Top) /\ Top.kind # "main"
  BY <1>2 DEF HasAfter, HasNext, At
<1>5. a \in 1..n /\ e \in 1..n /\ e # a
  BY <1>3, <1>4 DEF Framed
<1>6. /\ e # at /\ blocks[e].succs = {} /\ blocks[e].ends = "open"
      /\ blocks[e].fun = Nowhere /\ blocks[a].fun = Nowhere
  <2>1. "match" \in Branching /\ Reserves(Top, e) /\ Unplaced(Top, e) /\ Unplaced(Top, a)
    BY <1>2, <1>4 DEF Branching, Reserves, Unplaced, At
  <2> QED
    BY <1>1, <1>5, <2>1, CallFacts
<1>p. ps \in Pairs
  <2>1. /\ Top.incoming \in Seq([val: Nat, from: Nat])
        /\ Pair(value, at) \in [val: Nat, from: Nat]
    BY <1>2, <1>3 DEF Pair, Frame
  <2> QED
    BY <2>1 DEF Pairs
<1>g. g \in Frame /\ g.kind = "match" /\ g.step = "pattern" /\ g.after = a
  <2>1. "pattern" \in Steps
    BY DEF Steps
  <2> HIDE DEF ps
  <2> QED
    BY <1>2, <1>3, <1>p, <2>1 DEF Frame, Pairs
<1> HIDE DEF ps, g
<1>7. Jumps(blocks, bs, at, {a})
  BY <1>3, <1>5, BranchJumps
<1> HIDE DEF bs
<1>8. Quiet(bs, es)
  <2>1. Blocks(bs) /\ e \in 1..Len(bs) /\ bs[e].fun = Nowhere
    BY <1>5, <1>6, <1>7 DEF Jumps
  <2> QED
    BY <1>3, <2>1, AttachQuiet
<1>9. es[a].fun = Nowhere /\ Blocks(es) /\ Len(es) = n
      /\ es[e].succs = {} /\ es[e].ends = "open"
  <2>1. Blocks(bs) /\ e \in 1..Len(bs) /\ a \in 1..Len(bs) /\ bs[a].fun = Nowhere
    BY <1>5, <1>6, <1>7 DEF Jumps
  <2>2. es[a] = bs[a]
    BY <1>3, <1>5, <2>1, AttachBlocks
  <2> QED
    BY <1>5, <1>6, <1>7, <1>8, <2>1, <2>2 DEF Jumps, Quiet
<1> HIDE DEF es
<1>10. Widened(blocks, es)
  BY <1>7, <1>8, WidensOn DEF Jumps, Quiet
<1>11. at \in 1..Len(es) /\ a \in es[at].succs
  BY <1>3, <1>7, <1>8 DEF Jumps, Quiet
<1>12. /\ \A b : Hides(Top, b) => b = a
       /\ \A b : Hides(Top, b) => Hides(g, b)
       /\ \A b : Spare(Top, b) => b = e
       /\ Targets(Top) = {a} /\ Targets(g) = {a} /\ ~HasHeader(g) /\ Idle(Blank)
  BY <1>2, <1>g DEF Hides, Spare, Targets, Idle, Blank, HasNext, HasAfter, HasHeader, At
<1>13. CASE blocks' = es /\ at' = e /\ Proceed(g)
  <2>1. \A b \in 1..Len(es) : ~(b > Len(blocks))
    BY <1>3, <1>9
  <2> HIDE DEF n, e, a
  <2>2. Onward(blocks, es, at, Top, g)
    BY <1>12, <2>1 DEF Onward
  <2>3. Homeward(blocks, es, at, e, Top, g)
    BY <1>11, <1>12, <2>1, Follows DEF Homeward
  <2>4. Turning(es, at, e, Top, g)
    BY <1>12 DEF Turning, Looped
  <2> QED
    BY <1>2, <1>g, <1>10, <1>13, <2>2, <2>3, <2>4, ProceedFlow DEF Flows
<1>14. CASE blocks' = cs /\ at' = a /\ Return(a)
  <2>1. Jumps(es, ts, e, {e})
    <3>1. e \in 1..Len(es)
      BY <1>5, <1>9
    <3> QED
      BY <1>9, <3>1, BranchJumps
  <2> HIDE DEF ts
  <2>2. Quiet(ts, us)
    <3>1. Blocks(ts) /\ a \in 1..Len(ts) /\ ts[a].fun = Nowhere
      BY <1>5, <1>9, <2>1 DEF Jumps
    <3> QED
      BY <1>3, <3>1, AttachQuiet
  <2> HIDE DEF us
  <2>3. Quiet(us, cs)
    <3>1. Blocks(us) /\ a \in 1..Len(us)
      BY <1>5, <1>9, <2>1, <2>2 DEF Jumps, Quiet
    <3> QED
      BY <1>p, <3>1, PhiQuiet
  <2> HIDE DEF cs
  <2>4. Widened(blocks, cs)
    BY <1>10, <2>1, <2>2, <2>3, WidensOn DEF Jumps, Quiet
  <2>5. /\ Len(cs) = Len(blocks) /\ at \in 1..Len(cs)
        /\ a \in cs[at].succs /\ cs[e].succs = {e}
    <3>1. /\ \A b \in 1..n : cs[b].succs = ts[b].succs
          /\ Len(cs) = n
      BY <1>9, <2>1, <2>2, <2>3 DEF Jumps, Quiet
    <3>2. ts[at].succs = es[at].succs /\ ts[e].succs = {e}
      BY <1>3, <1>6, <1>9, <2>1 DEF Jumps
    <3> QED
      BY <1>3, <1>5, <1>11, <3>1, <3>2
  <2>6. \A b \in 1..Len(cs) : ~(b > Len(blocks))
    BY <1>3, <2>5
  <2> HIDE DEF n, e, a
  <2>7. Onward(blocks, cs, at, Top, Blank)
    BY <1>12, <2>5, <2>6, Follows DEF Onward
  <2>8. Homeward(blocks, cs, at, a, Top, Blank)
    BY <1>12, <2>5, <2>6, Follows DEF Homeward
  <2>9. Turning(cs, at, a, Top, Blank)
    BY <1>12, IdleFacts DEF Turning
  <2> QED
    BY <1>2, <1>4, <1>14, <2>4, <2>7, <2>8, <2>9, ReturnFlow DEF Flows
<1> QED
  BY <1>1, <1>13, <1>14

\* The first value of a for has been generated.
LEMMA ForFromFlow ==
  ASSUME Inductive, Flowing, ForFrom
  PROVE  Flowing'
<1> DEFINE n == Len(blocks)
           h == n + 1
           e == h + 1
           a == h + 2
           ps == <<Pair(value, at)>>
           ms == More(blocks, CurrentFun)
           bs == Phi(ms, h, ps)
           cs == Branch(bs, at, {h})
           g == [Top EXCEPT !.step = "to", !.held = h, !.next = e, !.after = a]
<1>1. Resumed("for", "from") /\ blocks' = cs /\ at' = h /\ Proceed(g)
  BY DEF ForFrom, More
<1>2. stack # <<>> /\ Top.kind = "for" /\ Top.step = "from" /\ value \in 0..n
  BY <1>1, Resumes DEF Resumed, Done
<1>3. /\ Blocks(ms) /\ Len(ms) = n + 3 /\ Widened(blocks, ms) /\ n \in Nat
      /\ at \in 1..n /\ at \in 1..Len(ms)
      /\ ms[at].succs = {} /\ ms[at].ends = "open"
      /\ h \in 1..Len(ms) /\ e \in 1..Len(ms) /\ a \in 1..Len(ms)
  <2>1. e = n + 2 /\ a = n + 3
    BY <1>2, InsertFacts
  <2> HIDE DEF e, a
  <2> QED
    BY <1>2, <2>1, MoreWidens
<1>p. ps \in Pairs
  <2>1. Pair(value, at) \in [val: Nat, from: Nat]
    BY <1>2, <1>3 DEF Pair
  <2> QED
    BY <2>1 DEF Pairs
<1>n. \A b \in 1..n + 3 : b > n => b \in {h, e, a}
  BY <1>3
<1>4. /\ g \in Frame /\ g.kind = "for" /\ g.step = "to" /\ g.held = h /\ g.next = e
      /\ g.after = a
  <2>1. Top \in Frame /\ "to" \in Steps
    BY <1>2, InsertFacts DEF Steps
  <2>2. h \in Nat /\ e \in Nat /\ a \in Nat
    BY <1>3
  <2> HIDE DEF h, e, a
  <2> QED
    BY <1>2, <2>1, <2>2 DEF Frame
<1> HIDE DEF h, e, a, ms, g, ps
<1>5. Quiet(ms, bs)
  BY <1>3, <1>p, PhiQuiet
<1> HIDE DEF bs
<1>6. Jumps(bs, cs, at, {h})
  <2>1. /\ Blocks(bs) /\ at \in 1..Len(bs) /\ h \in 1..Len(bs)
        /\ bs[at].succs = {} /\ bs[at].ends = "open"
    BY <1>3, <1>5 DEF Quiet
  <2> QED
    BY <2>1, BranchJumps
<1> HIDE DEF cs
<1>7. /\ Len(cs) = n + 3 /\ h \in cs[at].succs /\ at \in 1..Len(cs)
  BY <1>3, <1>5, <1>6 DEF Jumps, Quiet
<1>8. Widened(blocks, cs)
  BY <1>3, <1>5, <1>6, WidensOn DEF Jumps, Quiet
<1>9. /\ Idle(Top) /\ Hides(g, e) /\ Hides(g, a) /\ Targets(g) = {e, a}
      /\ HasNext(g)
  BY <1>2, <1>4 DEF Idle, Hides, Targets, HasNext, HasAfter, HasHeader, At
<1>10. \A b \in 1..Len(cs) : b > Len(blocks) => b \in {h, e, a}
  BY <1>7, <1>n
<1> HIDE DEF n
<1>11. Onward(blocks, cs, at, Top, g)
  BY <1>7, <1>9, <1>10, Follows, IdleFacts DEF Onward
<1>12. Homeward(blocks, cs, at, h, Top, g)
  BY <1>7, <1>9, <1>10, Follows, IdleFacts DEF Homeward
<1>13. Turning(cs, at, h, Top, g)
  BY <1>4, <1>9 DEF Turning, Looped
<1> QED
  BY <1>1, <1>2, <1>4, <1>8, <1>11, <1>12, <1>13, ProceedFlow DEF Flows

\* The last value of a for has been generated.
LEMMA ForToFlow ==
  ASSUME Inductive, Flowing, ForTo
  PROVE  Flowing'
<1> DEFINE n == Len(blocks)
           e == Top.next
           a == Top.after
           cs == Fork(blocks, at, Top.held, value, e, a)
           g == [Top EXCEPT !.step = "body"]
<1>1. Resumed("for", "to") /\ blocks' = cs /\ at' = e /\ Proceed(g)
  BY DEF ForTo, Fork
<1>2. stack # <<>> /\ Top.kind = "for" /\ Top.step = "to" /\ value \in 0..n
  BY <1>1, Resumes DEF Resumed, Done
<1>3. /\ Blocks(blocks) /\ n \in Nat /\ at \in 1..n
      /\ blocks[at].succs = {} /\ blocks[at].ends = "open"
      /\ Top \in Frame /\ Framed(blocks, Top)
  BY <1>2, InsertFacts
<1>4. HasNext(Top) /\ HasAfter(Top) /\ HasHeader(Top)
  BY <1>2 DEF HasNext, HasAfter, HasHeader, At
<1>5. e \in 1..n /\ a \in 1..n /\ Top.held \in 0..n
  BY <1>3, <1>4 DEF Framed
<1>6. /\ g \in Frame /\ g.kind = "for" /\ g.step = "body" /\ g.next = e /\ g.after = a
      /\ g.held = Top.held
  <2>1. "body" \in Steps
    BY DEF Steps
  <2> QED
    BY <1>2, <1>3, <2>1 DEF Frame
<1> HIDE DEF g
<1>7. Jumps(blocks, cs, at, {e, a})
  BY <1>2, <1>3, <1>5, ForkJumps
<1> HIDE DEF cs
<1>8. /\ Widened(blocks, cs) /\ Len(cs) = Len(blocks) /\ cs[at].succs = {e, a}
      /\ at \in 1..Len(cs)
  BY <1>3, <1>7 DEF Jumps
<1>9. /\ \A b : Hides(Top, b) => b \in {e, a}
      /\ \A b : ~Spare(Top, b)
      /\ Targets(Top) = {e, a} /\ Targets(g) = {a}
  BY <1>2, <1>6 DEF Hides, Spare, Targets, HasNext, HasAfter, HasHeader, At
<1>10. \A b \in 1..Len(cs) : ~(b > Len(blocks))
  BY <1>3, <1>8
<1> HIDE DEF n, e, a
<1>11. Onward(blocks, cs, at, Top, g)
  BY <1>8, <1>9, <1>10, Follows DEF Onward
<1>12. Homeward(blocks, cs, at, e, Top, g)
  BY <1>8, <1>9, <1>10, Follows DEF Homeward
<1>13. Turning(cs, at, e, Top, g)
  <2>1. \A T : Looped(g, e, T) <=> (a \in T => Top.held \in T)
    BY <1>6 DEF Looped, HasHeader, HasNext, At
  <2>2. \A T : Looped(Top, at, T) => (at \in T => Top.held \in T)
    BY <1>4 DEF Looped
  <2> QED
    BY <1>8, <2>1, <2>2, Follows DEF Turning
<1> QED
  BY <1>1, <1>2, <1>6, <1>8, <1>11, <1>12, <1>13, ProceedFlow DEF Flows

\* The body of a for has been generated.
LEMMA ForBodyFlow ==
  ASSUME Inductive, Flowing, ForBody
  PROVE  Flowing'
<1> DEFINE n == Len(blocks)
           h == Top.held
           e == Top.next
           a == Top.after
           V == {h}
           bs == Use(blocks, e, V)
           ps == Append(bs[h].phi, Pair(e, at))
           es == Phi(bs, h, ps)
           cs == Branch(es, at, {h})
<1>1. Resumed("for", "body") /\ blocks' = cs /\ at' = a /\ Return(Const)
  BY DEF ForBody
<1>2. stack # <<>> /\ Top.kind = "for" /\ Top.step = "body"
  BY <1>1, Resumes DEF Resumed, Done
<1>3. /\ Blocks(blocks) /\ n \in Nat /\ at \in 1..n
      /\ blocks[at].succs = {} /\ blocks[at].ends = "open"
      /\ Top \in Frame /\ Framed(blocks, Top)
  BY <1>2, InsertFacts
<1>4. ~HasNext(Top) /\ HasAfter(Top) /\ HasHeader(Top) /\ Top.kind # "main"
  BY <1>2 DEF HasNext, HasAfter, HasHeader, At
<1>5. h \in 1..n /\ e \in 1..n /\ V \in SUBSET (0..n)
  BY <1>3, <1>4 DEF Framed
<1> HIDE DEF V
<1>6. /\ Blocks(bs) /\ Len(bs) = n /\ Widened(blocks, bs)
      /\ bs[at].succs = {} /\ bs[at].ends = "open"
  <2>1. /\ Blocks(bs) /\ Len(bs) = Len(blocks)
        /\ \A b \in 1..Len(blocks) : Alike(bs[b], blocks[b])
    BY <1>3, <1>5, UseBlocks
  <2> HIDE DEF bs
  <2> QED
    BY <1>3, <2>1 DEF Alike, Widened
<1> HIDE DEF bs
<1>p. ps \in Pairs
  <2>1. bs[h] \in Block
    BY <1>5, <1>6 DEF Blocks
  <2>2. bs[h].phi \in Pairs /\ Pair(e, at) \in [val: Nat, from: Nat]
    BY <1>3, <1>5, <2>1 DEF Block, Pairs, Pair
  <2> HIDE DEF e
  <2> QED
    BY <2>2 DEF Pairs
<1> HIDE DEF ps
<1>7. Quiet(bs, es)
  BY <1>5, <1>6, <1>p, PhiQuiet
<1> HIDE DEF es
<1>8. Jumps(es, cs, at, {h})
  <2>1. /\ Blocks(es) /\ at \in 1..Len(es) /\ h \in 1..Len(es)
        /\ es[at].succs = {} /\ es[at].ends = "open"
    BY <1>3, <1>5, <1>6, <1>7 DEF Quiet
  <2> QED
    BY <2>1, BranchJumps
<1> HIDE DEF cs
<1>9. /\ Widened(blocks, cs) /\ Len(cs) = Len(blocks) /\ h \in cs[at].succs
      /\ at \in 1..Len(cs)
  <2>1. Widened(blocks, cs)
    BY <1>6, <1>7, <1>8, WidensOn DEF Jumps, Quiet
  <2> QED
    BY <1>3, <1>6, <1>7, <1>8, <2>1 DEF Jumps, Quiet
<1>10. /\ \A b : ~Hides(Top, b) /\ ~Spare(Top, b)
       /\ Targets(Top) = {a} /\ Idle(Blank)
       /\ \A T : Looped(Top, at, T) => (a \in T => h \in T)
  BY <1>2 DEF Hides, Spare, Targets, Looped, Idle, Blank, HasNext, HasAfter, HasHeader, At
<1>11. \A b \in 1..Len(cs) : ~(b > Len(blocks))
  BY <1>3, <1>9
<1> HIDE DEF n, h, e, a
<1>12. Onward(blocks, cs, at, Top, Blank)
  BY <1>10, <1>11 DEF Onward
<1>13. Homeward(blocks, cs, at, a, Top, Blank)
  BY <1>9, <1>10, <1>11, Follows DEF Homeward
<1>14. Turning(cs, at, a, Top, Blank)
  BY <1>10, IdleFacts DEF Turning
<1> QED
  BY <1>1, <1>2, <1>4, <1>9, <1>12, <1>13, <1>14, ReturnFlow DEF Flows

\* A while has been met.
LEMMA WhileStartFlow ==
  ASSUME Inductive, Flowing, stack # <<>>, WhileStart
  PROVE  Flowing'
<1> DEFINE n == Len(blocks)
           h == n + 1
           e == h + 1
           a == h + 2
           ms == More(blocks, CurrentFun)
           cs == Branch(ms, at, {h})
           f == FrameOf("while", "cond")
           g == [f EXCEPT !.held = h, !.next = e, !.after = a]
<1>1. blocks' = cs /\ at' = h /\ Enter(g)
  BY DEF WhileStart, More
<1>3. /\ Blocks(ms) /\ Len(ms) = n + 3 /\ Widened(blocks, ms) /\ n \in Nat
      /\ at \in 1..n /\ at \in 1..Len(ms)
      /\ ms[at].succs = {} /\ ms[at].ends = "open"
      /\ h \in 1..Len(ms) /\ e \in 1..Len(ms) /\ a \in 1..Len(ms)
  <2>1. e = n + 2 /\ a = n + 3
    BY InsertFacts
  <2> HIDE DEF e, a
  <2> QED
    BY <2>1, MoreWidens
<1>n. \A b \in 1..n + 3 : b > n => b \in {h, e, a}
  BY <1>3
<1>4. /\ g \in Frame /\ g.kind = "while" /\ g.step = "cond" /\ g.held = h
      /\ g.next = e /\ g.after = a
  <2>1. f \in Frame /\ f.kind = "while" /\ f.step = "cond"
    <3>1. "while" \in Kinds /\ "cond" \in Steps
      BY DEF Kinds, Steps
    <3> QED
      BY <3>1, NewFrame
  <2>2. h \in Nat /\ e \in Nat /\ a \in Nat
    BY <1>3
  <2> HIDE DEF h, e, a, f
  <2> QED
    BY <2>1, <2>2 DEF Frame
<1> HIDE DEF h, e, a, ms, g
<1>6. Jumps(ms, cs, at, {h})
  BY <1>3, BranchJumps
<1> HIDE DEF cs
<1>7. /\ Len(cs) = n + 3 /\ h \in cs[at].succs /\ at \in 1..Len(cs)
  BY <1>3, <1>6 DEF Jumps
<1>8. Widened(blocks, cs)
  BY <1>3, <1>6, WidensOn DEF Jumps
<1>9. /\ Idle(Blank) /\ Hides(g, e) /\ Hides(g, a) /\ Targets(g) = {e, a}
      /\ HasNext(g)
  BY <1>4 DEF Blank, Idle, Hides, Targets, HasNext, HasAfter, HasHeader, At
<1>10. \A b \in 1..Len(cs) : b > Len(blocks) => b \in {h, e, a}
  BY <1>7, <1>n
<1> HIDE DEF n
<1>11. Onward(blocks, cs, at, Blank, g)
  BY <1>7, <1>9, <1>10, Follows, IdleFacts DEF Onward
<1>12. Homeward(blocks, cs, at, h, Blank, g)
  BY <1>7, <1>9, <1>10, Follows, IdleFacts DEF Homeward
<1>13. Turning(cs, at, h, Blank, g)
  BY <1>4, <1>9 DEF Turning, Looped
<1> QED
  BY <1>1, <1>4, <1>8, <1>11, <1>12, <1>13, EnterFlow DEF Flows

\* A function is defined: its entry is a block that none branches to.
LEMMA FunStartFlow ==
  ASSUME Inductive, Flowing, stack # <<>>, FunStart
  PROVE  Flowing'
<1> DEFINE n == Len(blocks)
           e == n + 1
           f == FrameOf("fun", "body")
           g == [f EXCEPT !.held = e]
           cs == Append(blocks, Fresh(e))
<1>1. blocks' = cs /\ at' = e /\ Enter(g)
  BY DEF FunStart
<1>2. Blocks(blocks) /\ n \in Nat /\ at \in 1..n
  BY InsertFacts
<1>3. Fresh(e) \in Block /\ Fresh(e).fun = e /\ e \in Nat
  BY <1>2 DEF Fresh, Block
<1>4. /\ Len(cs) = n + 1 /\ cs[e] = Fresh(e) /\ e \in 1..Len(cs)
      /\ \A b \in 1..n : cs[b] = blocks[b]
  BY <1>2, <1>3 DEF Blocks
<1>5. /\ g \in Frame /\ g.kind = "fun" /\ g.start = at
  <2>1. f \in Frame /\ f.kind = "fun" /\ f.start = at
    <3>1. "fun" \in Kinds /\ "body" \in Steps
      BY DEF Kinds, Steps
    <3> QED
      BY <3>1, NewFrame
  <2> HIDE DEF f, e
  <2> QED
    BY <1>3, <2>1 DEF Frame
<1> HIDE DEF cs, g
<1>6. Widened(blocks, cs)
  <2>1. Len(blocks) \in Nat /\ Len(cs) \in Nat /\ Len(blocks) <= Len(cs)
    BY <1>2, <1>4
  <2> QED
    BY <1>4, <2>1 DEF Widened
<1>7. \A b \in 1..Len(cs) : b > Len(blocks) => b = e
  BY <1>2, <1>4
<1>8. \A S : Upward(cs, S) => e \in S
  <2>1. cs[e].fun = e
    BY <1>3, <1>4
  <2> HIDE DEF e
  <2> QED
    BY <1>4, <2>1 DEF Upward
<1>9. Idle(Blank) /\ Targets(g) = {at} /\ ~HasHeader(g)
  BY <1>5 DEF Blank, Idle, Targets, HasNext, HasAfter, HasHeader, At
<1> HIDE DEF n, e
<1>10. Onward(blocks, cs, at, Blank, g)
  BY <1>7, <1>8, <1>9, IdleFacts DEF Onward
<1>11. Homeward(blocks, cs, at, e, Blank, g)
  BY <1>7, <1>9, IdleFacts DEF Homeward
<1>12. Turning(cs, at, e, Blank, g)
  BY <1>9 DEF Turning, Looped
<1> QED
  BY <1>1, <1>5, <1>6, <1>10, <1>11, <1>12, EnterFlow DEF Flows

\* The insert block returns.
LEMMA RetWidens ==
  ASSUME NEW bs, Blocks(bs), NEW b \in 1..Len(bs)
  PROVE  /\ Widened(bs, Ret(bs, b)) /\ Len(Ret(bs, b)) = Len(bs)
         /\ Ret(bs, b)[b].ends = "ret"
         /\ \A T : Backward(Ret(bs, b), T) => b \in T
<1> DEFINE cs == Ret(bs, b)
<1>1. /\ Blocks(cs) /\ Len(cs) = Len(bs)
      /\ \A c \in 1..Len(bs) : c # b => cs[c] = bs[c]
      /\ cs[b].fun = bs[b].fun /\ cs[b].ends = "ret" /\ cs[b].succs = bs[b].succs
  BY RetBlocks
<1>2. Len(bs) \in Nat
  BY DEF Blocks
<1> HIDE DEF cs
<1>3. Widened(bs, cs)
  BY <1>1, <1>2 DEF Widened
<1>4. \A T : Backward(cs, T) => b \in T
  BY <1>1 DEF Backward
<1> QED
  BY <1>1, <1>3, <1>4 DEF cs

\* The body of a function has been generated.
LEMMA FunBodyFlow ==
  ASSUME Inductive, Flowing, FunBody
  PROVE  Flowing'
<1> DEFINE V == {value}
           us == Use(blocks, at, V)
           cs == Ret(us, at)
           s == Top.start
           g == [Top EXCEPT !.kind = "let", !.held = Const]
<1>1. /\ Resumed("fun", "body") /\ blocks' = cs /\ at' = s /\ Proceed(g)
  BY DEF FunBody, Ret
<1>2. stack # <<>> /\ Top.kind = "fun" /\ Top.step = "body" /\ value \in 0..Len(blocks)
  BY <1>1, Resumes DEF Resumed, Done
<1>3. Blocks(blocks) /\ at \in 1..Len(blocks) /\ Top \in Frame /\ Len(blocks) \in Nat
  BY <1>2, InsertFacts
<1>4. g \in Frame /\ g.kind = "let"
  <2>1. "let" \in Kinds /\ Const \in Nat
    BY DEF Kinds, Const
  <2> QED
    BY <1>3, <2>1 DEF Frame
<1>5. V \in SUBSET (0..Len(blocks))
  BY <1>2
<1> HIDE DEF V, g
<1>6. Quiet(blocks, us)
  <2>1. /\ Blocks(us) /\ Len(us) = Len(blocks)
        /\ \A b \in 1..Len(blocks) : Alike(us[b], blocks[b])
    BY <1>3, <1>5, UseBlocks
  <2> HIDE DEF us
  <2> QED
    BY <1>3, <2>1 DEF Alike, Widened, Quiet
<1> HIDE DEF us
<1>7. /\ Widened(us, cs) /\ Len(cs) = Len(us) /\ \A T : Backward(cs, T) => at \in T
  <2>1. Blocks(us) /\ at \in 1..Len(us)
    BY <1>3, <1>6 DEF Quiet
  <2> QED
    BY <2>1, RetWidens
<1> HIDE DEF cs
<1>8. Widened(blocks, cs)
  BY <1>6, <1>7, WidensOn DEF Quiet
<1>9. \A b \in 1..Len(cs) : ~(b > Len(blocks))
  BY <1>3, <1>6, <1>7 DEF Quiet
<1>10. /\ \A b : ~Hides(Top, b) /\ ~Spare(Top, b)
       /\ Targets(Top) = {s} /\ ~HasHeader(g)
  BY <1>2, <1>4 DEF Hides, Spare, Targets, HasNext, HasAfter, HasHeader, At
<1> HIDE DEF s
<1>11. Onward(blocks, cs, at, Top, g)
  BY <1>9, <1>10 DEF Onward
<1>12. Homeward(blocks, cs, at, s, Top, g)
  BY <1>7, <1>9, <1>10 DEF Homeward
<1>13. Turning(cs, at, s, Top, g)
  BY <1>10 DEF Turning, Looped
<1> QED
  BY <1>1, <1>2, <1>4, <1>8, <1>11, <1>12, <1>13, ProceedFlow DEF Flows

\* The program ends.
LEMMA MainEndFlow ==
  ASSUME Inductive, Flowing, MainEnd
  PROVE  Flowing'
<1> DEFINE cs == Ret(blocks, at)
<1>1. Resumed("main", "body") /\ blocks' = cs /\ Return(Const) /\ at' = at
  BY DEF MainEnd, Ret
<1>2. stack # <<>> /\ Top.kind = "main"
  BY <1>1, Resumes DEF Resumed, Done
<1>3. Blocks(blocks) /\ at \in 1..Len(blocks) /\ Len(blocks) \in Nat
  BY <1>2, InsertFacts
<1>4. /\ Widened(blocks, cs) /\ Len(cs) = Len(blocks) /\ cs[at].ends = "ret"
      /\ \A T : Backward(cs, T) => at \in T
  BY <1>3, RetWidens
<1> HIDE DEF cs
<1>5. \A b \in 1..Len(cs) : ~(b > Len(blocks))
  BY <1>3, <1>4
<1>6. Idle(Top) /\ Idle(Blank)
  BY <1>2 DEF Blank, Idle, HasNext, HasAfter, HasHeader, At
<1>7. Flows(Top, Blank)
  BY <1>1, <1>4, <1>5, <1>6, IdleFacts DEF Flows, Onward, Homeward, Turning
<1> QED
  BY <1>1, <1>2, <1>4, <1>7, ReturnFlow

\* In the beginning there is the entry of main(), and it goes on.
LEMMA InitFlow == Init => Flowing
<1> SUFFICES ASSUME Init PROVE Flowing
  OBVIOUS
<1> DEFINE f == [kind |-> "main", step |-> "body", start |-> 1, mark |-> 1,
                 next |-> Nowhere, after |-> Nowhere, held |-> Const,
                 incoming |-> <<>>, more |-> FALSE]
<1>1. blocks = <<Fresh(1)>> /\ at = 1 /\ stack = <<f>>
  BY DEF Init
<1>2. f.kind = "main"
  OBVIOUS
<1> HIDE DEF f
<1>3. /\ Len(blocks) = 1 /\ blocks[1].fun = 1
      /\ Len(stack) = 1 /\ stack[1] = f /\ stack # <<>>
  BY <1>1 DEF Fresh
<1>4. /\ \A b \in 1..Len(blocks) : b = 1
      /\ \A i \in 1..Len(stack) : i = 1
      /\ 1 \in 1..Len(blocks)
  BY <1>3
<1>5. Forth(blocks, stack)
  BY <1>3, <1>4 DEF Forth, Upward
<1>6. Back(blocks, stack, at)
  BY <1>1, <1>4 DEF Back, Above
<1>7. ~HasHeader(f)
  BY <1>2 DEF HasHeader, At
<1>8. Loops(blocks, stack, at)
  BY <1>3, <1>4, <1>7 DEF Loops
<1> QED
  BY <1>3, <1>5, <1>6, <1>8 DEF Flowing, Flow

\* Every step keeps the ways of control.
LEMMA NextFlow ==
  ASSUME Inductive, Flowing, [Next]_vars
  PROVE  Flowing'
<1>1. CASE UNCHANGED vars
  BY <1>1 DEF vars, Flowing
<1>2. CASE Next
  <2>1. stack # <<>>
    BY <1>2, InProgress
  <2>2. CASE Constant \/ Instruction \/ Local
    BY <2>2 DEF Constant, Instruction, Local, Flowing
  <2>3. CASE \/ TwoStart \/ LetStart \/ LetMutable \/ IfStart \/ MatchStart \/ ForStart
             \/ TwoLeft \/ LetDef \/ TwoRight \/ LetBody
    BY <2>1, <2>3, PlainFlow
  <2>4. CASE FunStart \/ FunBody \/ MainEnd
    BY <2>1, <2>4, FunStartFlow, FunBodyFlow, MainEndFlow
  <2>5. CASE IfCond \/ IfThen \/ IfElse
    BY <2>5, IfCondFlow, IfThenElseFlow, IfThenEndFlow, IfElseFlow
  <2>6. CASE MatchExpr \/ MatchPattern \/ MatchClause
    BY <2>6, MatchExprFlow, MatchPatternFlow, MatchClauseFlow
  <2>7. CASE ForFrom \/ ForTo \/ ForBody
    BY <2>7, ForFromFlow, ForToFlow, ForBodyFlow
  <2>8. CASE WhileStart \/ WhileCond \/ WhileBody
    BY <2>1, <2>8, WhileStartFlow, WhileCondFlow, WhileBodyFlow
  <2> QED
    BY <1>2, <2>2, <2>3, <2>4, <2>5, <2>6, <2>7, <2>8 DEF Next
<1> QED
  BY <1>1, <1>2

\* Len(blocks) branches are enough to get to all that is reached from f: as
\* long as a branch adds something, there is a block more for every branch.
LEMMA ReachedClosed ==
  ASSUME Blocks(blocks), NEW f \in Ids
  PROVE  /\ f \in Reached(f, Nowhere) /\ Reached(f, Nowhere) \subseteq Ids
         /\ \A b \in Reached(f, Nowhere) : blocks[b].succs \subseteq Reached(f, Nowhere)
<1> DEFINE s == Stepped(f, Nowhere)
           l == Len(blocks)
           Full(r) == \A b \in r : blocks[b].succs \subseteq r
           Good(n) == /\ s[n] \subseteq Ids /\ f \in s[n]
                      /\ Full(s[n]) \/ Cardinality(s[n]) > n
           S == {n \in Nat : ~Good(n)}
<1>1. /\ l \in Nat /\ Ids = 1..l /\ f # Nowhere
      /\ \A c \in Ids : blocks[c].succs \subseteq Ids
      /\ \A c \in Ids : c # Nowhere
  BY DEF Blocks, Ids, Nowhere
<1>2. s[0] = {f} \ {Nowhere} /\ \A n \in Nat : n # 0 => s[n] = Farther(s[n - 1], Nowhere)
  BY SteppedValues
<1>3. Reached(f, Nowhere) = s[l]
  BY DEF Reached, Stepped
<1>4. IsFiniteSet(Ids) /\ Cardinality(Ids) = l
  <2> HIDE DEF s, l
  <2>1. 1 \in Int /\ l \in Int /\ Ids = 1..l /\ ~(1 > l) /\ (l - 1) + 1 = l
    BY <1>1
  <2>2. IsFiniteSet(1..l) /\ Cardinality(1..l) = IF 1 > l THEN 0 ELSE (l - 1) + 1
    BY ONLY <2>1, FS_Interval
  <2> QED
    BY <2>1, <2>2
<1>5. \A r \in SUBSET Ids : IsFiniteSet(r) /\ Cardinality(r) \in Nat /\ Cardinality(r) <= l
  BY <1>4, FS_Subset, FS_CardinalityType
<1> HIDE DEF s, l
<1>6. Good(0)
  <2>1. s[0] = {f}
    BY <1>1, <1>2
  <2>2. Cardinality({f}) = 1
    BY FS_Singleton
  <2> QED
    BY <2>1, <2>2
<1>7. ASSUME NEW n \in Nat, Good(n) PROVE Good(n + 1)
  <2>1. s[n + 1] = Farther(s[n], Nowhere)
    BY <1>2
  <2>2. /\ \A c : c \in s[n + 1] <=> c \in s[n] \/ \E b \in s[n] : c \in blocks[b].succs
        /\ s[n] \subseteq s[n + 1] /\ s[n + 1] \subseteq Ids /\ f \in s[n + 1]
    BY <1>1, <1>7, <2>1 DEF Farther
  <2>3. CASE Full(s[n])
    <3>1. s[n + 1] = s[n]
      BY <2>2, <2>3
    <3> QED
      BY <1>7, <2>3, <3>1
  <2>4. CASE ~Full(s[n])
    <3>1. s[n + 1] # s[n] /\ Cardinality(s[n]) > n
      BY <1>7, <2>2, <2>4
    <3>2. /\ Cardinality(s[n]) \in Nat /\ Cardinality(s[n + 1]) \in Nat
          /\ IsFiniteSet(s[n + 1])
      BY <1>5, <1>7, <2>2
    <3>3. /\ Cardinality(s[n]) <= Cardinality(s[n + 1])
          /\ Cardinality(s[n]) # Cardinality(s[n + 1])
      BY <2>2, <3>1, <3>2, FS_Subset
    <3>4. Cardinality(s[n + 1]) > n + 1
      BY <3>1, <3>2, <3>3
    <3> QED
      BY <2>2, <3>4
  <2> QED
    BY <2>3, <2>4
<1> HIDE DEF Good
<1>8. S = {}
  <2> SUFFICES ASSUME S # {} PROVE FALSE
    OBVIOUS
  <2>1. S \in SUBSET Nat
    OBVIOUS
  <2>2. PICK n \in S : \A m \in S : n <= m
    <3> HIDE DEF S
    <3> QED
      BY <2>1, Smallest
  <2>3. n \in Nat /\ ~Good(n) /\ n # 0
    BY <1>6, <2>2
  <2>4. n - 1 \in Nat /\ (n - 1) + 1 = n /\ Good(n - 1)
    BY <2>2, <2>3
  <2> QED
    BY <1>7, <2>3, <2>4
<1>9. Good(l)
  BY <1>1, <1>8
<1>10. s[l] \subseteq Ids /\ f \in s[l] /\ (Full(s[l]) \/ Cardinality(s[l]) > l)
  BY <1>9 DEF Good
<1>11. Full(s[l])
  BY <1>1, <1>5, <1>10
<1> QED
  BY <1>3, <1>10, <1>11

\* When the program is generated, the sets are those of Reached().
LEMMA FlowReaches ==
  Inductive /\ Flowing => ControlReachesEverything
<1> SUFFICES ASSUME Inductive, Flowing, Done, NEW b \in Ids
             PROVE  /\ b \in Reached(blocks[b].fun, Nowhere)
                    /\ \/ \E e \in Reached(b, Nowhere) : blocks[e].ends = "ret"
                       \/ blocks[b].succs = {b}
  BY DEF ControlReachesEverything
<1>1. /\ Blocks(blocks) /\ Len(blocks) \in Nat /\ at \in 1..Len(blocks)
      /\ Attached(blocks, stack) /\ Edges(blocks, stack)
      /\ Len(stack) = 0 /\ stack = <<>>
  BY DEF Inductive, Sound, Shape, Blocks, Done
<1>2. \A i \in 1..Len(stack) : FALSE
  BY <1>1
<1>3. \A c \in Ids : blocks[c].fun \in Ids
  <2>1. \A c \in 1..Len(blocks) : ~SomeUnplaced(stack, Len(stack), c)
    BY <1>2 DEF SomeUnplaced
  <2>2. \A c \in 1..Len(blocks) : blocks[c].fun \in 1..c
    BY <1>1, <2>1 DEF Attached
  <2> QED
    BY <1>1, <2>2 DEF Ids
<1>4. \A c \in Ids : \A d \in blocks[c].succs : blocks[d].fun = blocks[c].fun
  BY <1>1, <1>2 DEF Edges, Ids
<1>5. b \in Reached(blocks[b].fun, Nowhere)
  <2> DEFINE f == blocks[b].fun
             R == Reached(f, Nowhere)
             S == R \cup {c \in Ids : blocks[c].fun # f}
  <2>1. f \in Ids
    BY <1>3
  <2> HIDE DEF f
  <2>2. f \in R /\ R \subseteq Ids /\ \A c \in R : blocks[c].succs \subseteq R
    BY <1>1, <2>1, ReachedClosed
  <2> HIDE DEF R
  <2>3. \A c \in Ids : blocks[c].succs \subseteq Ids
    BY <1>1 DEF Blocks, Ids
  <2>4. ASSUME NEW c \in Ids, c \in S PROVE blocks[c].succs \subseteq S
    <3>1. CASE c \in R
      BY <2>2, <3>1
    <3>2. CASE blocks[c].fun # f
      BY <1>4, <2>3, <3>2
    <3> QED
      BY <2>4, <3>1, <3>2
  <2>5. ASSUME NEW c \in Ids, blocks[c].fun = c PROVE c \in S
    BY <2>2, <2>5
  <2> HIDE DEF S
  <2>6. Upward(blocks, S)
    BY <2>4, <2>5 DEF Upward, Ids
  <2>7. b \in S
    BY <1>2, <2>6 DEF Flowing, Flow, Forth, Ids
  <2>8. b \in R
    BY <2>7 DEF S, f
  <2> QED
    BY <2>8 DEF R, f
<1>6. ASSUME \A e \in Reached(b, Nowhere) : blocks[e].ends # "ret"
      PROVE  blocks[b].succs = {b}
  <2> DEFINE R == Reached(b, Nowhere)
             T == Ids \ R
  <2>1. b \in R /\ R \subseteq Ids /\ \A c \in R : blocks[c].succs \subseteq R
    BY <1>1, ReachedClosed
  <2>2. \A e \in R : blocks[e].ends # "ret"
    BY <1>6
  <2> HIDE DEF R
  <2>3. Backward(blocks, T)
    BY <2>1, <2>2 DEF Backward, Ids
  <2>4. b \notin T
    BY <2>1
  <2> HIDE DEF T
  <2>5. at \in T
    BY <1>1, <2>3 DEF Flowing, Flow, Backward
  <2>6. Above(stack, at, 0, T)
    BY <1>1, <2>5 DEF Above
  <2> QED
    BY <1>2, <2>3, <2>4, <2>6 DEF Flowing, Flow, Back, Ids
<1> QED
  BY <1>5, <1>6

\* Whatever program is compiled, no block is dead, and control can get from
\* every block to the end of its function, or the block is the trap of a match.
THEOREM ControlAlwaysReaches == Spec => []ControlReachesEverything
<1>1. Inductive /\ Flowing /\ [Next]_vars => Flowing'
  BY NextFlow
<1> QED
  BY <1>1, InitFlow, AlwaysInductive, FlowReaches, PTL DEF Spec
=============================================================================
