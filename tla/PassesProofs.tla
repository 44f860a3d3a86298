----------------------------- MODULE PassesProofs -----------------------------
(***************************************************************************)
(* Scopes are opened and closed in pairs by both passes, and codegen()     *)
(* knows every name that has a definition in scope.  If no let defines a   *)
(* name that the table knows or that is in scope, codegen() gives it the   *)
(* value of that definition, whatever else was entered into the table, and *)
(* in whichever scope.  The theorems hold for trees of any size.           *)
(***************************************************************************)
EXTENDS Passes, FiniteSetTheorems, WellFoundedInduction, TLAPS

-----------------------------------------------------------------------------
(* The invariant: trees, tasks and scopes.                                 *)

\* The subexpressions of node i are as many and of the kinds that its own
\* kind asks for.
Shape(tr, i) ==
  LET kind == tr[i].kind
      kids == tr[i].kids
  IN /\ kind \in {"open", "unit", "use"} => Len(kids) = 0
     /\ kind \in {"index", "var", "fun", "array"} => Len(kids) = 1
     /\ kind \in {"seq", "for"} => Len(kids) = 2 /\ kids[1] # kids[2]
     /\ kind \in {"let", "letrec"} =>
          /\ Len(kids) >= 2
          /\ \A j \in 1..Len(kids) - 1 : tr[kids[j]].kind \in Defs
          /\ tr[kids[Len(kids)]].kind \notin Defs

\* Parents come before their subexpressions and know them.
Tree(tr) ==
  /\ tr \in Seq(Node) /\ Len(tr) \in 1..MaxNodes
  /\ tr[1].parent = 0
  /\ \A i \in 1..Len(tr) :
       /\ Shape(tr, i)
       /\ \A j \in 1..Len(tr[i].kids) :
            tr[i].kids[j] \in 1..Len(tr) /\ tr[tr[i].kids[j]].parent = i
       /\ tr[i].parent < i
       /\ tr[i].parent # 0 => tr[tr[i].parent].kind # "open"

\* The tasks that there may be for the nodes of a tree.
TasksOf(tr) ==
  {t \in [do: Tasks, node: 1..Len(tr), level: Nat] :
     /\ t.do = "close" => tr[t.node].kind \in {"fun", "for"}
     /\ t.do = "open" => tr[t.node].kind = "for"
     /\ t.do = "bind" => tr[t.node].kind \in Defs}

\* What a table may have in one scope.
Scopes == UNION {[D -> Referents] : D \in SUBSET Names}

\* How many scopes the tasks before the q-th close.
Closed(ts, q) == Cardinality(Closing(ts, q))

\* ScopesFollowTree, of any tree, tasks and scopes.
Scoped(tr, ts, e) ==
  /\ Len(e) - Closed(ts, Len(ts) + 1) = 2
  /\ \A q \in 1..Len(ts) : ts[q].do = "close" =>
       OpenedFor(tr[ts[q].node]) \in DOMAIN e[Len(e) - Closed(ts, q)]

\* Tree, tasks and scopes are sound.
Good(tr, ts, e) ==
  /\ Tree(tr) /\ ts \in Seq(TasksOf(tr)) /\ e \in Seq(Scopes)
  /\ Scoped(tr, ts, e)

-----------------------------------------------------------------------------
(* Counting scopes.                                                        *)

\* A set of numbers has a least one.
LEMMA Least ==
  ASSUME NEW S \in SUBSET Nat, S # {}
  PROVE  \E n \in S : \A m \in S : n <= m
<1>1. PICK n \in S : \A m \in S : <<m, n>> \notin OpToRel(<, Nat)
  BY NatLessThanWellFounded, WFMin
<1>2. \A m \in S : ~ (m < n)
  BY <1>1 DEF OpToRel
<1> QED
  BY <1>2

\* Task q counts for those after it.
LEMMA ClosedNext ==
  ASSUME NEW T, NEW ts \in Seq(T)
  PROVE  /\ Closed(ts, 1) = 0
         /\ \A q \in 1..Len(ts) + 1 : Closed(ts, q) \in Nat
         /\ \A q \in 1..Len(ts) :
              Closed(ts, q + 1) = IF ts[q].do = "close" THEN Closed(ts, q) + 1
                                                       ELSE Closed(ts, q)
<1>1. Closed(ts, 1) = 0
  <2>1. Closing(ts, 1) = {}
    BY DEF Closing
  <2> QED
    BY <2>1, FS_EmptySet DEF Closed
<1>2. \A q \in 1..Len(ts) + 1 : IsFiniteSet(Closing(ts, q)) /\ Closed(ts, q) \in Nat
  <2> SUFFICES ASSUME NEW q \in 1..Len(ts) + 1
               PROVE  IsFiniteSet(Closing(ts, q)) /\ Closed(ts, q) \in Nat
    OBVIOUS
  <2>1. q - 1 \in Int /\ 1 \in Int
    OBVIOUS
  <2>2. IsFiniteSet(1..q - 1)
    BY <2>1, FS_Interval
  <2>3. IsFiniteSet(Closing(ts, q))
    BY <2>2, FS_Subset DEF Closing
  <2> QED
    BY <2>3, FS_CardinalityType DEF Closed
<1>3. ASSUME NEW q \in 1..Len(ts)
      PROVE  Closed(ts, q + 1) = IF ts[q].do = "close" THEN Closed(ts, q) + 1
                                                       ELSE Closed(ts, q)
  <2>1. q \in 1..Len(ts) + 1
    OBVIOUS
  <2>2. CASE ts[q].do = "close"
    <3>1. Closing(ts, q + 1) = Closing(ts, q) \cup {q} /\ q \notin Closing(ts, q)
      BY <2>2 DEF Closing
    <3> QED
      BY <1>2, <2>1, <2>2, <3>1, FS_AddElement DEF Closed
  <2>3. CASE ts[q].do # "close"
    <3>1. Closing(ts, q + 1) = Closing(ts, q)
      BY <2>3 DEF Closing
    <3> QED
      BY <2>3, <3>1 DEF Closed
  <2> QED
    BY <2>2, <2>3
<1> QED
  BY <1>1, <1>2, <1>3

\* Later tasks have no more scopes around them.
LEMMA ClosedGrows ==
  ASSUME NEW T, NEW ts \in Seq(T), NEW q \in 1..Len(ts) + 1, NEW r \in q..Len(ts) + 1
  PROVE  Closed(ts, q) <= Closed(ts, r)
<1>1. r \in 1..Len(ts) + 1 /\ Closing(ts, q) \subseteq Closing(ts, r)
  BY DEF Closing
<1>2. IsFiniteSet(Closing(ts, r))
  <2>1. r - 1 \in Int /\ 1 \in Int
    OBVIOUS
  <2>2. IsFiniteSet(1..r - 1)
    BY <2>1, FS_Interval
  <2> QED
    BY <2>2, FS_Subset DEF Closing
<1> QED
  BY <1>1, <1>2, FS_Subset DEF Closed

\* In a sequence of two parts the count of the first part goes on.
LEMMA ClosedConcat ==
  ASSUME NEW T, NEW us \in Seq(T), NEW vs \in Seq(T)
  PROVE  /\ \A q \in 1..Len(us) + 1 : Closed(us \o vs, q) = Closed(us, q)
         /\ \A q \in 1..Len(vs) + 1 :
              Closed(us \o vs, Len(us) + q) = Closed(us, Len(us) + 1) + Closed(vs, q)
<1> DEFINE ts == us \o vs
           m == Len(us)
           S == {q \in Nat : /\ q \in 1..Len(vs) + 1
                             /\ Closed(ts, m + q) # Closed(us, m + 1) + Closed(vs, q)}
<1>1. /\ ts \in Seq(T) /\ Len(ts) = m + Len(vs) /\ m \in Nat /\ Len(vs) \in Nat
      /\ \A q \in 1..m : ts[q] = us[q]
      /\ \A q \in 1..Len(vs) : ts[m + q] = vs[q]
  OBVIOUS
<1> HIDE DEF ts, m
<1>2. ASSUME NEW q \in 1..m + 1 PROVE Closed(ts, q) = Closed(us, q)
  <2>1. Closing(ts, q) = Closing(us, q)
    BY <1>1 DEF Closing
  <2> QED
    BY <2>1 DEF Closed
<1>3. S = {}
  <2> SUFFICES ASSUME S # {} PROVE FALSE
    OBVIOUS
  <2>1. S \in SUBSET Nat
    OBVIOUS
  <2>2. PICK q \in S : \A p \in S : q <= p
    <3> HIDE DEF S
    <3> QED
      BY <2>1, Least
  <2>3. /\ q \in 1..Len(vs) + 1
        /\ Closed(ts, m + q) # Closed(us, m + 1) + Closed(vs, q)
    BY <2>2
  <2>4. CASE q = 1
    <3>1. Closed(ts, m + 1) = Closed(us, m + 1) /\ Closed(vs, 1) = 0
          /\ Closed(us, m + 1) \in Nat
      BY <1>1, <1>2, ClosedNext DEF m
    <3> QED
      BY <2>3, <2>4, <3>1
  <2>5. CASE q # 1
    <3> DEFINE p == q - 1
    <3>1. p \in 1..Len(vs) /\ q = p + 1 /\ p \in 1..Len(vs) + 1 /\ p < q
      BY <1>1, <2>3, <2>5
    <3>2. m + p \in 1..Len(ts) /\ m + q = (m + p) + 1 /\ ts[m + p] = vs[p]
      BY <1>1, <3>1
    <3>3. Closed(ts, m + p) = Closed(us, m + 1) + Closed(vs, p)
      BY <2>2, <3>1
    <3>4. Closed(ts, m + q) = IF vs[p].do = "close" THEN Closed(ts, m + p) + 1
                                                   ELSE Closed(ts, m + p)
      BY <1>1, <3>2, ClosedNext, ZenonT(40)
    <3>5. Closed(vs, q) = IF vs[p].do = "close" THEN Closed(vs, p) + 1
                                              ELSE Closed(vs, p)
      BY <3>1, ClosedNext
    <3>6. Closed(vs, p) \in Nat /\ Closed(us, m + 1) \in Nat
      BY <1>1, <3>1, ClosedNext, SMTT(40) DEF m
    <3> QED
      BY <2>3, <3>3, <3>4, <3>5, <3>6
  <2> QED
    BY <2>4, <2>5
<1> QED
  BY <1>1, <1>2, <1>3 DEF ts, m

-----------------------------------------------------------------------------
(* A task is replaced by others.                                           *)

\* The tasks us instead of the first of ts.
Instead(ts, us) == us \o Tail(ts)

\* vs is us and what follows the first of ts.
Replaced(ts, us, vs) ==
  /\ Len(vs) = Len(us) + (Len(ts) - 1)
  /\ \A q \in 1..Len(us) : vs[q] = us[q] /\ Closed(vs, q) = Closed(us, q)
  /\ \A q \in 2..Len(ts) : vs[Len(us) + (q - 1)] = ts[q]
  /\ \A q \in 2..Len(ts) + 1 :
       Closed(vs, Len(us) + (q - 1))
         = Closed(us, Len(us) + 1) + (Closed(ts, q) - Closed(ts, 2))

\* The others have the same scopes around them as before.
LEMMA ClosedTail ==
  ASSUME NEW T, NEW ts \in Seq(T), ts # <<>>, NEW us \in Seq(T)
  PROVE  Instead(ts, us) \in Seq(T) /\ Replaced(ts, us, Instead(ts, us))
<1> DEFINE hs == <<Head(ts)>>
           vs == Tail(ts)
           m  == Len(us)
<1>1. /\ hs \in Seq(T) /\ vs \in Seq(T) /\ Len(hs) = 1 /\ Len(vs) = Len(ts) - 1
      /\ Len(ts) \in Nat /\ m \in Nat /\ Len(ts) # 0
      /\ \A q \in 2..Len(ts) : vs[q - 1] = ts[q]
  OBVIOUS
<1>2. hs \o vs = ts
  OBVIOUS
<1>3. /\ us \o vs \in Seq(T) /\ Len(us \o vs) = m + Len(vs)
      /\ \A q \in 1..m : (us \o vs)[q] = us[q]
      /\ \A q \in 1..Len(vs) : (us \o vs)[m + q] = vs[q]
  OBVIOUS
<1> HIDE DEF hs, vs, m
<1>4. /\ \A q \in 1..m + 1 : Closed(us \o vs, q) = Closed(us, q)
      /\ \A q \in 1..Len(vs) + 1 :
           Closed(us \o vs, m + q) = Closed(us, m + 1) + Closed(vs, q)
  BY <1>1, ClosedConcat DEF m
<1>5. \A q \in 1..Len(vs) + 1 : Closed(ts, 1 + q) = Closed(hs, 2) + Closed(vs, q)
  <2>1. \A q \in 1..Len(vs) + 1 :
          Closed(hs \o vs, Len(hs) + q) = Closed(hs, Len(hs) + 1) + Closed(vs, q)
    <3>1. hs \in Seq(T) /\ vs \in Seq(T)
      BY <1>1
    <3> QED
      BY ONLY <3>1, ClosedConcat
  <2> QED
    BY <1>1, <1>2, <2>1
<1>6. Closed(ts, 2) = Closed(hs, 2) /\ Closed(hs, 2) \in Nat
  <2>1. Closed(hs, 2) \in Nat /\ Closed(vs, 1) = 0
    <3>1. hs \in Seq(T) /\ vs \in Seq(T) /\ 2 \in 1..Len(hs) + 1
      BY <1>1
    <3> QED
      BY ONLY <3>1, ClosedNext
  <2>2. 1 \in 1..Len(vs) + 1
    BY <1>1
  <2> QED
    BY <1>5, <2>1, <2>2
<1>7. \A q \in 1..m : (us \o vs)[q] = us[q] /\ Closed(us \o vs, q) = Closed(us, q)
  BY <1>1, <1>3, <1>4
<1>8. ASSUME NEW q \in 2..Len(ts) PROVE (us \o vs)[m + (q - 1)] = ts[q]
  <2>1. q - 1 \in 1..Len(vs)
    BY <1>1
  <2> QED
    BY <1>1, <1>3, <2>1
<1>9. ASSUME NEW q \in 2..Len(ts) + 1
      PROVE  Closed(us \o vs, m + (q - 1))
               = Closed(us, m + 1) + (Closed(ts, q) - Closed(ts, 2))
  <2>1. q - 1 \in 1..Len(vs) + 1 /\ 1 + (q - 1) = q
    BY <1>1
  <2>2. /\ Closed(us \o vs, m + (q - 1)) = Closed(us, m + 1) + Closed(vs, q - 1)
        /\ Closed(ts, q) = Closed(hs, 2) + Closed(vs, q - 1)
    BY <1>4, <1>5, <2>1
  <2>3. Closed(vs, q - 1) \in Nat /\ Closed(us, m + 1) \in Nat
    BY <1>1, <2>1, ClosedNext DEF m
  <2> QED
    BY <1>6, <2>2, <2>3
<1> QED
  BY <1>1, <1>3, <1>7, <1>8, <1>9 DEF Instead, Replaced, vs, m

\* The scopes d suit the tasks us, and leave to the others at least the names
\* that they have in e.
Fit(ts, us, e, d) ==
  /\ Len(d) - Closed(us, Len(us) + 1) = Len(e) - Closed(ts, 2)
  /\ \A l \in 1..Len(e) - Closed(ts, 2) : DOMAIN e[l] \subseteq DOMAIN d[l]

\* The scopes that us closes are those that were opened for it.
Opened(tr, us, d) ==
  \A q \in 1..Len(us) : us[q].do = "close" =>
    OpenedFor(tr[us[q].node]) \in DOMAIN d[Len(d) - Closed(us, q)]

\* All is well when the tasks us and the scopes d fit.
LEMMA Follows ==
  ASSUME NEW tr, NEW ts, NEW e, Good(tr, ts, e), ts # <<>>,
         NEW us \in Seq(TasksOf(tr)), NEW d \in Seq(Scopes),
         Fit(ts, us, e, d), Opened(tr, us, d)
  PROVE  Good(tr, Instead(ts, us), d)
<1> DEFINE vs == Instead(ts, us)
           m  == Len(us)
           c  == Closed(us, m + 1)
           c2 == Closed(ts, 2)
<1>1. /\ ts \in Seq(TasksOf(tr)) /\ Tree(tr) /\ Len(ts) \in Nat /\ Len(ts) # 0
      /\ m \in Nat /\ Len(e) \in Nat /\ Len(d) \in Nat
  BY DEF Good
<1>2. /\ vs \in Seq(TasksOf(tr)) /\ Len(vs) = m + (Len(ts) - 1)
      /\ \A q \in 1..m : vs[q] = us[q] /\ Closed(vs, q) = Closed(us, q)
      /\ \A q \in 2..Len(ts) : vs[m + (q - 1)] = ts[q]
      /\ \A q \in 2..Len(ts) + 1 :
           Closed(vs, m + (q - 1)) = c + (Closed(ts, q) - c2)
  <2>1. ts \in Seq(TasksOf(tr)) /\ ts # <<>> /\ us \in Seq(TasksOf(tr))
    BY <1>1
  <2>2. vs \in Seq(TasksOf(tr)) /\ Replaced(ts, us, vs)
    BY ONLY <2>1, ClosedTail
  <2> HIDE DEF vs
  <2> QED
    BY <2>2 DEF Replaced
<1>3. c \in Nat /\ c2 \in Nat /\ \A q \in 1..Len(ts) + 1 : Closed(ts, q) \in Nat
  <2>1. m + 1 \in 1..m + 1 /\ 2 \in 1..Len(ts) + 1
    BY <1>1
  <2> QED
    BY <1>1, <2>1, ClosedNext
<1>4. /\ Len(d) - c = Len(e) - c2
      /\ \A l \in 1..Len(e) - c2 : DOMAIN e[l] \subseteq DOMAIN d[l]
  BY DEF Fit
<1>5. /\ Len(e) - Closed(ts, Len(ts) + 1) = 2
      /\ \A q \in 1..Len(ts) : ts[q].do = "close" =>
           OpenedFor(tr[ts[q].node]) \in DOMAIN e[Len(e) - Closed(ts, q)]
  BY DEF Good, Scoped
<1>s. \A q \in 1..m : us[q].do = "close" =>
        OpenedFor(tr[us[q].node]) \in DOMAIN d[Len(d) - Closed(us, q)]
  BY DEF Opened
<1>6. \A q \in 2..Len(ts) : /\ Closed(ts, q) <= Closed(ts, Len(ts) + 1)
                            /\ c2 <= Closed(ts, q)
  <2> SUFFICES ASSUME NEW q \in 2..Len(ts)
               PROVE  Closed(ts, q) <= Closed(ts, Len(ts) + 1) /\ c2 <= Closed(ts, q)
    OBVIOUS
  <2>1. /\ q \in 1..Len(ts) + 1 /\ Len(ts) + 1 \in q..Len(ts) + 1
        /\ 2 \in 1..Len(ts) + 1 /\ q \in 2..Len(ts) + 1
    BY <1>1
  <2> QED
    BY <1>1, <2>1, ClosedGrows
<1> HIDE DEF vs, m, c, c2
<1>7. Len(d) - Closed(vs, Len(vs) + 1) = 2
  <2>1. Len(ts) + 1 \in 2..Len(ts) + 1 /\ m + ((Len(ts) + 1) - 1) = Len(vs) + 1
    BY <1>1, <1>2
  <2>2. Closed(vs, Len(vs) + 1) = c + (Closed(ts, Len(ts) + 1) - c2)
    BY <1>2, <2>1
  <2>3. Closed(ts, Len(ts) + 1) \in Nat
    BY <1>1, <1>3
  <2> QED
    BY <1>1, <1>3, <1>4, <1>5, <2>2, <2>3, SMTT(40)
<1>8. ASSUME NEW p \in 1..Len(vs), vs[p].do = "close"
      PROVE  OpenedFor(tr[vs[p].node]) \in DOMAIN d[Len(d) - Closed(vs, p)]
  <2>1. CASE p <= m
    <3>1. p \in 1..m
      BY <1>1, <2>1
    <3> QED
      BY <1>2, <1>8, <1>s, <3>1
  <2>2. CASE p > m
    <3> DEFINE q == p - m + 1
    <3>1. q \in 2..Len(ts) /\ q \in 1..Len(ts) /\ q \in 2..Len(ts) + 1 /\ q \in 1..Len(ts) + 1
          /\ m + (q - 1) = p
      BY <1>1, <1>2, <2>2
    <3> HIDE DEF q
    <3>2. vs[p] = ts[q] /\ Closed(vs, p) = c + (Closed(ts, q) - c2)
      BY <1>2, <3>1
    <3>3. /\ c2 <= Closed(ts, q) /\ Closed(ts, q) <= Closed(ts, Len(ts) + 1)
          /\ Closed(ts, q) \in Nat /\ Closed(ts, Len(ts) + 1) \in Nat
      BY <1>1, <1>3, <1>6, <3>1
    <3> DEFINE l == Len(e) - Closed(ts, q)
    <3>4. l \in 1..Len(e) - c2 /\ Len(d) - Closed(vs, p) = l
      <4>1. /\ Len(d) - c = Len(e) - c2 /\ Len(e) - Closed(ts, Len(ts) + 1) = 2
            /\ Closed(vs, p) = c + (Closed(ts, q) - c2)
            /\ Len(e) \in Nat /\ Len(d) \in Nat /\ c \in Nat /\ c2 \in Nat
        BY <1>1, <1>3, <1>4, <1>5, <3>2
      <4>2. Len(d) - Closed(vs, p) = l
        <5>1. /\ Len(d) = c + (Len(e) - c2)
              /\ Closed(vs, p) = c + (Closed(ts, q) - c2)
          BY ONLY <4>1
        <5>2. Len(d) - Closed(vs, p)
                = (c + (Len(e) - c2)) - (c + (Closed(ts, q) - c2))
          BY ONLY <5>1
        <5>3. (c + (Len(e) - c2)) - (c + (Closed(ts, q) - c2))
                = Len(e) - Closed(ts, q)
          BY ONLY <4>1, <3>3, SMTT(40)
        <5> QED
          BY ONLY <5>2, <5>3
      <4>3. 1 <= l /\ l <= Len(e) - c2
        BY ONLY <4>1, <3>3, SMTT(40)
      <4> QED
        BY ONLY <4>1, <4>2, <4>3, <3>3
    <3>5. OpenedFor(tr[ts[q].node]) \in DOMAIN e[l]
      BY <1>5, <1>8, <3>1, <3>2
    <3> HIDE DEF l
    <3> QED
      BY <1>4, <3>2, <3>4, <3>5
  <2> QED
    BY <1>1, <1>2, <2>1, <2>2
<1>9. Scoped(tr, vs, d)
  BY <1>7, <1>8 DEF Scoped
<1> QED
  BY <1>1, <1>2, <1>9 DEF Good, vs

\* No task of us closes a scope.
NoClose(us) == \A q \in 1..Len(us) : us[q].do # "close"

\* They leave the count where it is.
LEMMA NoCloseClosed ==
  ASSUME NEW T, NEW us \in Seq(T), NoClose(us)
  PROVE  \A q \in 1..Len(us) + 1 : Closed(us, q) = 0
<1> SUFFICES ASSUME NEW q \in 1..Len(us) + 1 PROVE Closed(us, q) = 0
  OBVIOUS
<1>1. Closing(us, q) = {}
  BY DEF Closing, NoClose
<1> QED
  BY <1>1, FS_EmptySet DEF Closed

\* After the first task there are as many scopes, or one less.
LEMMA ClosedSecond ==
  ASSUME NEW T, NEW ts \in Seq(T), ts # <<>>
  PROVE  Closed(ts, 2) = IF ts[1].do = "close" THEN 1 ELSE 0
<1>1. 1 \in 1..Len(ts) /\ 1 + 1 = 2
  OBVIOUS
<1>2. Closed(ts, 1) = 0
  BY ClosedNext
<1>3. Closed(ts, 1 + 1) = IF ts[1].do = "close" THEN Closed(ts, 1) + 1 ELSE Closed(ts, 1)
  BY <1>1, ClosedNext
<1> QED
  BY <1>1, <1>2, <1>3

\* d has the scopes of e, with the same names or more.
Covers(d, e) ==
  Len(d) = Len(e) /\ \A l \in 1..Len(e) : DOMAIN e[l] \subseteq DOMAIN d[l]

\* A step that leaves the scopes open.
LEMMA PlainFits ==
  ASSUME NEW T, NEW ts \in Seq(T), ts # <<>>, ts[1].do # "close",
         NEW us \in Seq(T), NoClose(us), NEW e \in Seq(Scopes), NEW d, Covers(d, e)
  PROVE  Fit(ts, us, e, d)
<1>1. Closed(us, Len(us) + 1) = 0
  <2>1. Len(us) + 1 \in 1..Len(us) + 1
    OBVIOUS
  <2> QED
    BY <2>1, NoCloseClosed
<1>2. Closed(ts, 2) = 0
  BY ClosedSecond
<1>3. Len(e) \in Nat /\ Len(e) - 0 = Len(e)
  OBVIOUS
<1> QED
  BY <1>1, <1>2, <1>3 DEF Fit, Covers

\* It keeps trees, tasks and scopes sound.
LEMMA PlainStep ==
  ASSUME NEW tr, NEW ts, NEW e, Good(tr, ts, e), ts # <<>>, ts[1].do # "close",
         NEW us \in Seq(TasksOf(tr)), NoClose(us), NEW d \in Seq(Scopes), Covers(d, e)
  PROVE  Good(tr, Instead(ts, us), d) /\ Fit(ts, us, e, d)
<1>1. Fit(ts, us, e, d)
  <2>1. ts \in Seq(TasksOf(tr)) /\ e \in Seq(Scopes)
    BY DEF Good
  <2> QED
    BY <2>1, PlainFits
<1>2. Opened(tr, us, d)
  BY DEF Opened, NoClose
<1> QED
  BY <1>1, <1>2, Follows

\* A step that opens a scope, for the task a and with the names s in it.
LEMMA OpenStep ==
  ASSUME NEW tr, NEW ts, NEW e, Good(tr, ts, e), ts # <<>>, ts[1].do # "close",
         NEW a, NEW b, <<a, b>> \in Seq(TasksOf(tr)), a.do # "close", b.do = "close",
         NEW s \in Scopes, OpenedFor(tr[b.node]) \in DOMAIN s
  PROVE  /\ Good(tr, Instead(ts, <<a, b>>), Append(e, s))
         /\ Fit(ts, <<a, b>>, e, Append(e, s))
<1> DEFINE us == <<a, b>>
           d  == Append(e, s)
<1>0. Len(us) = 2 /\ us[1] = a /\ us[2] = b
  OBVIOUS
<1>1. ts \in Seq(TasksOf(tr)) /\ e \in Seq(Scopes) /\ us \in Seq(TasksOf(tr))
  BY DEF Good
<1>2. /\ d \in Seq(Scopes) /\ Len(d) = Len(e) + 1 /\ Len(e) \in Nat /\ d[Len(e) + 1] = s
      /\ \A l \in 1..Len(e) : d[l] = e[l]
  BY <1>1
<1> HIDE DEF us, d
<1>3. Closed(us, 2) = 0 /\ Closed(us, 3) = 1 /\ Closed(ts, 2) = 0
  <2>1. Closed(us, 2) = 0
    <3>1. us # <<>>
      BY <1>0
    <3> QED
      BY <1>0, <1>1, <3>1, ClosedSecond
  <2>2. 2 \in 1..Len(us) /\ 2 + 1 = 3
    BY <1>0
  <2>3. Closed(us, 2 + 1) = Closed(us, 2) + 1
    BY <1>0, <1>1, <2>2, ClosedNext
  <2>4. Closed(ts, 2) = 0
    BY <1>1, ClosedSecond
  <2> QED
    BY <2>1, <2>2, <2>3, <2>4
<1>4. Fit(ts, us, e, d)
  <2>1. /\ Len(d) - Closed(us, Len(us) + 1) = Len(e)
        /\ Len(e) - Closed(ts, 2) = Len(e)
    BY <1>0, <1>2, <1>3
  <2> QED
    BY <1>2, <2>1 DEF Fit
<1>5. Opened(tr, us, d)
  <2> SUFFICES ASSUME NEW q \in 1..Len(us), us[q].do = "close"
               PROVE  OpenedFor(tr[us[q].node]) \in DOMAIN d[Len(d) - Closed(us, q)]
    BY DEF Opened
  <2>1. q = 2
    BY <1>0
  <2>2. Len(d) - Closed(us, q) = Len(e) + 1
    BY <1>2, <1>3, <2>1
  <2> QED
    BY <1>0, <1>2, <2>1, <2>2
<1>6. Good(tr, Instead(ts, us), d)
  BY <1>1, <1>2, <1>4, <1>5, Follows
<1> QED
  BY <1>4, <1>6 DEF us, d

\* A step that closes a scope.
LEMMA CloseStep ==
  ASSUME NEW tr, NEW ts, NEW e, Good(tr, ts, e), ts # <<>>, ts[1].do = "close"
  PROVE  /\ Good(tr, Instead(ts, <<>>), SubSeq(e, 1, Len(e) - 1))
         /\ Fit(ts, <<>>, e, SubSeq(e, 1, Len(e) - 1))
<1> DEFINE us == <<>>
           d  == SubSeq(e, 1, Len(e) - 1)
<1>1. ts \in Seq(TasksOf(tr)) /\ e \in Seq(Scopes) /\ us \in Seq(TasksOf(tr)) /\ Len(us) = 0
  BY DEF Good
<1>2. Closed(ts, 2) = 1 /\ Closed(us, 1) = 0
  BY <1>1, ClosedSecond, ClosedNext
<1>3. Len(e) \in Nat /\ Len(e) >= 3
  <2>1. 2 \in 1..Len(ts) + 1 /\ Len(ts) + 1 \in 2..Len(ts) + 1
    BY <1>1
  <2>2. Closed(ts, 2) <= Closed(ts, Len(ts) + 1)
    BY <1>1, <2>1, ClosedGrows
  <2>3. Len(e) - Closed(ts, Len(ts) + 1) = 2
    BY DEF Good, Scoped
  <2>4. Closed(ts, Len(ts) + 1) \in Nat
    BY <1>1, <2>1, ClosedNext
  <2> QED
    BY <1>1, <1>2, <2>2, <2>3, <2>4
<1>4. /\ d \in Seq(Scopes) /\ Len(d) = Len(e) - 1
      /\ \A l \in 1..Len(e) - 1 : d[l] = e[l]
  BY <1>1, <1>3
<1> HIDE DEF us, d
<1>5. Fit(ts, us, e, d)
  <2>1. /\ Len(d) - Closed(us, Len(us) + 1) = Len(e) - 1
        /\ Len(e) - Closed(ts, 2) = Len(e) - 1
    BY <1>1, <1>2, <1>3, <1>4
  <2> QED
    BY <1>4, <2>1 DEF Fit
<1>6. Opened(tr, us, d)
  BY <1>1 DEF Opened
<1>7. Good(tr, Instead(ts, us), d)
  BY <1>1, <1>4, <1>5, <1>6, Follows
<1> QED
  BY <1>5, <1>7 DEF us, d

-----------------------------------------------------------------------------
(* The tree grows.                                                         *)

\* cs has the nodes of tr, as far as they were known, and maybe more.
Extends(tr, cs) ==
  /\ Len(tr) <= Len(cs)
  /\ \A m \in 1..Len(tr) :
       /\ cs[m].parent = tr[m].parent
       /\ tr[m].kind = "open" => cs[m].kind \notin Defs
       /\ tr[m].kind # "open" =>
            /\ cs[m].kind = tr[m].kind /\ cs[m].kids = tr[m].kids
            /\ cs[m].name = tr[m].name /\ cs[m].par = tr[m].par

\* Tasks and scopes suit the larger tree.
LEMMA GoodExtends ==
  ASSUME NEW tr, NEW cs, NEW ts, NEW e, Good(tr, ts, e), Tree(cs), Extends(tr, cs)
  PROVE  Good(cs, ts, e)
<1>1. Tree(tr) /\ ts \in Seq(TasksOf(tr)) /\ e \in Seq(Scopes) /\ Scoped(tr, ts, e)
  BY DEF Good
<1>2. Len(tr) \in Nat /\ Len(cs) \in Nat
  BY <1>1 DEF Tree
<1>3. TasksOf(tr) \subseteq TasksOf(cs)
  <2> SUFFICES ASSUME NEW t \in TasksOf(tr) PROVE t \in TasksOf(cs)
    OBVIOUS
  <2>1. /\ t \in [do: Tasks, node: 1..Len(tr), level: Nat]
        /\ t.do = "close" => tr[t.node].kind \in {"fun", "for"}
        /\ t.do = "open" => tr[t.node].kind = "for"
        /\ t.do = "bind" => tr[t.node].kind \in Defs
    BY DEF TasksOf
  <2>2. t.node \in 1..Len(tr) /\ t.node \in 1..Len(cs)
    BY <1>2, <2>1 DEF Extends
  <2>3. tr[t.node].kind # "open" => cs[t.node].kind = tr[t.node].kind
    BY <2>2 DEF Extends
  <2> QED
    BY <2>1, <2>2, <2>3 DEF TasksOf, Defs
<1>4. ts \in Seq(TasksOf(cs))
  BY <1>1, <1>3
<1>5. Scoped(cs, ts, e)
  <2> SUFFICES ASSUME NEW q \in 1..Len(ts), ts[q].do = "close"
               PROVE  OpenedFor(cs[ts[q].node]) = OpenedFor(tr[ts[q].node])
    BY <1>1 DEF Scoped
  <2>1. ts[q] \in TasksOf(tr)
    BY <1>1
  <2>2. ts[q].node \in 1..Len(tr) /\ tr[ts[q].node].kind \in {"fun", "for"}
    BY <2>1 DEF TasksOf
  <2> QED
    BY <2>2 DEF Extends, OpenedFor
<1> QED
  BY <1>1, <1>4, <1>5 DEF Good

\* A node that nothing is known of.
LEMMA OpenNode ==
  ASSUME NEW i \in Nat
  PROVE  /\ Open(i) \in Node /\ Open(i).kind = "open" /\ Open(i).parent = i
         /\ Open(i).kids = <<>> /\ AnyName \in Names
         /\ Open(i).sem = Unseen /\ Open(i).codegen = Unseen
<1>1. AnyName \in Names
  BY ConstantsAssumption DEF AnyName
<1>2. <<>> \in Seq(Nat) /\ Unseen \in Referents \cup {Unseen}
  OBVIOUS
<1> QED
  BY <1>1, <1>2 DEF Open, Node

\* m is a well formed node of tr.
Fine(tr, m) ==
  /\ Shape(tr, m)
  /\ \A j \in 1..Len(tr[m].kids) :
       tr[m].kids[j] \in 1..Len(tr) /\ tr[tr[m].kids[j]].parent = m
  /\ tr[m].parent < m
  /\ tr[m].parent # 0 => tr[tr[m].parent].kind # "open"

\* What a node is made of.
LEMMA NodeFields ==
  ASSUME NEW tr \in Seq(Node), NEW m \in 1..Len(tr)
  PROVE  /\ tr[m].parent \in Nat /\ tr[m].kids \in Seq(Nat)
         /\ tr[m].name \in Names /\ tr[m].par \in Names
         /\ tr[m].kind \in Exprs \cup Defs \cup {"open"}
<1>1. tr[m] \in Node
  OBVIOUS
<1> QED
  BY <1>1 DEF Node

\* The nodes of tr are definitions, or known, in cs if they are so in tr.
Alike(tr, cs) ==
  /\ Len(tr) <= Len(cs) /\ Len(cs) \in Nat
  /\ \A m \in 1..Len(tr) : /\ cs[m].parent = tr[m].parent
                           /\ cs[m].kind \in Defs <=> tr[m].kind \in Defs
                           /\ tr[m].kind # "open" => cs[m].kind # "open"

\* Nodes that stay as they are stay well formed.
LEMMA FineKept ==
  ASSUME NEW tr, Tree(tr), NEW cs, Alike(tr, cs), NEW m \in 1..Len(tr),
         cs[m].kind = tr[m].kind, cs[m].kids = tr[m].kids
  PROVE  Fine(cs, m)
<1>1. Fine(tr, m) /\ tr \in Seq(Node) /\ Len(tr) \in Nat
  BY DEF Tree, Fine
<1>2. tr[m].parent \in Nat /\ tr[m].kids \in Seq(Nat)
  BY <1>1, NodeFields
<1>3. \A j \in 1..Len(tr[m].kids) :
        /\ tr[m].kids[j] \in 1..Len(tr) /\ tr[tr[m].kids[j]].parent = m
  BY <1>1 DEF Fine
<1>4. \A j \in 1..Len(cs[m].kids) :
        cs[m].kids[j] \in 1..Len(cs) /\ cs[cs[m].kids[j]].parent = m
  BY <1>1, <1>3 DEF Alike
<1>5. cs[m].parent < m /\ (cs[m].parent # 0 => cs[cs[m].parent].kind # "open")
  <2>1. tr[m].parent < m /\ (tr[m].parent # 0 => tr[tr[m].parent].kind # "open")
    BY <1>1 DEF Fine
  <2>2. tr[m].parent # 0 => tr[m].parent \in 1..Len(tr)
    BY <1>1, <1>2, <2>1
  <2> QED
    BY <2>1, <2>2 DEF Alike
<1>6. Shape(cs, m)
  <2>1. \A j \in 1..Len(tr[m].kids) :
          cs[tr[m].kids[j]].kind \in Defs <=> tr[tr[m].kids[j]].kind \in Defs
    BY <1>3 DEF Alike
  <2>2. Len(tr[m].kids) >= 2 =>
          /\ Len(tr[m].kids) \in 1..Len(tr[m].kids)
          /\ \A j \in 1..Len(tr[m].kids) - 1 : j \in 1..Len(tr[m].kids)
    BY <1>2
  <2>3. CASE tr[m].kind \in {"let", "letrec"}
    <3>1. /\ Len(tr[m].kids) >= 2
          /\ \A j \in 1..Len(tr[m].kids) - 1 : tr[tr[m].kids[j]].kind \in Defs
          /\ tr[tr[m].kids[Len(tr[m].kids)]].kind \notin Defs
      BY <1>1, <2>3 DEF Fine, Shape
    <3>2. /\ \A j \in 1..Len(tr[m].kids) - 1 : cs[tr[m].kids[j]].kind \in Defs
          /\ cs[tr[m].kids[Len(tr[m].kids)]].kind \notin Defs
      BY <2>1, <2>2, <3>1
    <3> QED
      BY <2>3, <3>1, <3>2 DEF Shape
  <2>4. CASE tr[m].kind \notin {"let", "letrec"}
    BY <1>1, <2>4 DEF Fine, Shape
  <2> QED
    BY <2>3, <2>4
<1> QED
  BY <1>4, <1>5, <1>6 DEF Fine

\* The open node i becomes known, and nodes are added.
Grown(tr, i, cs) ==
  /\ cs \in Seq(Node) /\ Len(tr) <= Len(cs) /\ Len(cs) <= MaxNodes
  /\ \A m \in 1..Len(tr) : m # i => cs[m] = tr[m]
  /\ tr[i].kind = "open" /\ cs[i].kind # "open" /\ cs[i].kind \notin Defs
  /\ cs[i].parent = tr[i].parent

\* The result is a tree if the new nodes are well formed.
LEMMA GrownTree ==
  ASSUME NEW tr, Tree(tr), NEW i \in 1..Len(tr), NEW cs, Grown(tr, i, cs),
         Shape(cs, i),
         \A j \in 1..Len(cs[i].kids) :
           cs[i].kids[j] \in 1..Len(cs) /\ cs[cs[i].kids[j]].parent = i,
         \A m \in Len(tr) + 1..Len(cs) : Fine(cs, m)
  PROVE  Tree(cs) /\ Extends(tr, cs)
<1>1. /\ tr \in Seq(Node) /\ Len(tr) \in Nat /\ Len(tr) >= 1 /\ MaxNodes \in Nat
      /\ tr[1].parent = 0
      /\ \A m \in 1..Len(tr) : Fine(tr, m)
  BY ConstantsAssumption DEF Tree, Fine
<1>2. /\ cs \in Seq(Node) /\ Len(cs) \in Nat /\ Len(tr) <= Len(cs) /\ Len(cs) <= MaxNodes
      /\ \A m \in 1..Len(tr) : m # i => cs[m] = tr[m]
      /\ tr[i].kind = "open" /\ cs[i].kind # "open" /\ cs[i].kind \notin Defs
      /\ cs[i].parent = tr[i].parent
  BY DEF Grown
<1>3. \A m \in 1..Len(tr) : /\ m \in 1..Len(cs) /\ cs[m].parent = tr[m].parent
                            /\ cs[m].kind \in Defs <=> tr[m].kind \in Defs
                            /\ tr[m].kind # "open" => cs[m].kind # "open"
  BY <1>1, <1>2 DEF Defs
<1>4. ASSUME NEW m \in 1..Len(tr), m # i PROVE Fine(cs, m)
  <2>1. Alike(tr, cs)
    BY <1>2, <1>3 DEF Alike
  <2>2. cs[m] = tr[m]
    BY <1>2, <1>4
  <2> QED
    BY <2>1, <2>2, FineKept
<1>5. Fine(cs, i)
  <2>1. Fine(tr, i)
    BY <1>1
  <2>2. tr[i].parent \in Nat
    BY <1>1, NodeFields
  <2>3. tr[i].parent # 0 => tr[i].parent \in 1..Len(tr)
    BY <1>1, <2>1, <2>2 DEF Fine
  <2> QED
    BY <1>2, <1>3, <2>1, <2>3 DEF Fine
<1>6. \A m \in 1..Len(cs) : Fine(cs, m)
  <2> SUFFICES ASSUME NEW m \in 1..Len(cs) PROVE Fine(cs, m)
    OBVIOUS
  <2>1. m \in 1..Len(tr) \/ m \in Len(tr) + 1..Len(cs)
    BY <1>1, <1>2
  <2> QED
    BY <1>4, <1>5, <2>1
<1>7. Tree(cs)
  <2>1. Len(cs) \in 1..MaxNodes /\ cs[1].parent = 0
    BY <1>1, <1>2, <1>3
  <2> QED
    BY <1>2, <1>6, <2>1 DEF Tree, Fine
<1>8. Extends(tr, cs)
  BY <1>2, <1>3 DEF Extends
<1> QED
  BY <1>7, <1>8

\* What a name stands for is noted.
LEMMA NotedTree ==
  ASSUME NEW tr, Tree(tr), NEW i \in 1..Len(tr), NEW v \in Referents,
         NEW cs, cs = [tr EXCEPT ![i].sem = v] \/ cs = [tr EXCEPT ![i].codegen = v]
  PROVE  Tree(cs) /\ Extends(tr, cs)
<1>1. /\ tr \in Seq(Node) /\ Len(tr) \in Nat /\ Len(tr) \in 1..MaxNodes
      /\ tr[1].parent = 0
      /\ \A m \in 1..Len(tr) : Fine(tr, m)
  BY DEF Tree, Fine
<1>2. /\ cs \in Seq(Node) /\ Len(cs) = Len(tr)
      /\ \A m \in 1..Len(tr) :
           /\ cs[m].parent = tr[m].parent /\ cs[m].kind = tr[m].kind
           /\ cs[m].kids = tr[m].kids
           /\ cs[m].name = tr[m].name /\ cs[m].par = tr[m].par
  <2>1. tr[i] \in Node
    BY <1>1
  <2>2. [tr[i] EXCEPT !.sem = v] \in Node /\ [tr[i] EXCEPT !.codegen = v] \in Node
    BY <2>1 DEF Node
  <2>3. Len(cs) = Len(tr) /\ cs \in Seq(Node)
    BY <1>1, <2>2
  <2>4. \A m \in 1..Len(tr) : m # i => cs[m] = tr[m]
    BY <1>1
  <2>5. cs[i] = [tr[i] EXCEPT !.sem = v] \/ cs[i] = [tr[i] EXCEPT !.codegen = v]
    BY <1>1
  <2>6. /\ cs[i].parent = tr[i].parent /\ cs[i].kind = tr[i].kind
        /\ cs[i].kids = tr[i].kids
        /\ cs[i].name = tr[i].name /\ cs[i].par = tr[i].par
    BY <2>1, <2>5 DEF Node
  <2> QED
    BY <2>3, <2>4, <2>6
<1>3. ASSUME NEW m \in 1..Len(cs) PROVE Fine(cs, m)
  <2>1. Alike(tr, cs)
    BY <1>1, <1>2 DEF Alike
  <2>2. m \in 1..Len(tr) /\ cs[m].kind = tr[m].kind /\ cs[m].kids = tr[m].kids
    BY <1>2
  <2> QED
    BY <2>1, <2>2, FineKept
<1>4. Tree(cs)
  BY <1>1, <1>2, <1>3 DEF Tree, Fine
<1>5. Extends(tr, cs)
  BY <1>1, <1>2 DEF Extends, Defs
<1> QED
  BY <1>4, <1>5

\* Sequences: of k elements, joined, and with one element replaced.
LEMMA Elements ==
  ASSUME NEW T, NEW k \in Nat, NEW s \in [1..k -> T]
  PROVE  s \in Seq(T) /\ Len(s) = k
OBVIOUS

\* What two sequences make together.
JoinOf(a, b, c) ==
  /\ Len(c) = Len(a) + Len(b)
  /\ \A m \in 1..Len(a) : c[m] = a[m]
  /\ \A j \in 1..Len(b) : c[Len(a) + j] = b[j]

\* That is what \o is.
LEMMA Joined ==
  ASSUME NEW T, NEW a \in Seq(T), NEW b \in Seq(T)
  PROVE  a \o b \in Seq(T) /\ JoinOf(a, b, a \o b)
BY DEF JoinOf

\* s with w at i.
ExceptOf(s, i, w, t) ==
  /\ Len(t) = Len(s) /\ t[i] = w
  /\ \A m \in 1..Len(s) : m # i => t[m] = s[m]

\* That is what EXCEPT gives.
LEMMA Excepted ==
  ASSUME NEW T, NEW s \in Seq(T), NEW i \in 1..Len(s), NEW w \in T
  PROVE  [s EXCEPT ![i] = w] \in Seq(T) /\ ExceptOf(s, i, w, [s EXCEPT ![i] = w])
BY DEF ExceptOf

\* New nodes are below old ones, or below new ones that are.
Family(tr, cs) ==
  \A m \in Len(tr) + 1..Len(cs) :
    /\ cs[m].parent \in 1..m - 1
    /\ cs[m].parent <= Len(tr) \/ cs[cs[m].parent].parent \in 1..Len(tr)

\* When node i of tr has become an expression and nodes were added, no pass has
\* noted anything of the new ones, and none of them is a let.
Sprouts(tr, i, cs) ==
  /\ \A m \in 1..Len(tr) : cs[m].sem = tr[m].sem /\ cs[m].codegen = tr[m].codegen
  /\ \A m \in Len(tr) + 1..Len(cs) : cs[m].sem = Unseen /\ cs[m].codegen = Unseen
  /\ \A m \in 1..Len(cs) : cs[m].kind \in {"let", "letrec"} =>
       m = i \/ (m \in 1..Len(tr) /\ tr[m].kind = cs[m].kind)

\* Node i is a let whose definitions have the names of hs.
Defines(cs, i, k, hs) ==
  /\ cs[i].kind \in {"let", "letrec"} /\ Len(cs[i].kids) = k + 1
  /\ \A j \in 1..k : cs[cs[i].kids[j]].name = hs[j].name

\* Node i has become an expression without definitions.
ExprTree(tr, i, kind, n, p) ==
  [tr EXCEPT ![i].kind = kind, ![i].name = n, ![i].par = p,
             ![i].kids = [j \in 1..Arity[kind] |-> Len(tr) + j]]
  \o [j \in 1..Arity[kind] |-> Open(i)]

\* The tree with it is sound, and extends the other.
LEMMA ExprGrown ==
  ASSUME NEW tr, Tree(tr), NEW i \in 1..Len(tr), tr[i].kind = "open",
         NEW kind \in DOMAIN Arity, NEW n \in Names, NEW p \in Names,
         Len(tr) + Arity[kind] <= MaxNodes
  PROVE  LET cs == ExprTree(tr, i, kind, n, p) IN
           /\ Tree(cs) /\ Extends(tr, cs) /\ Family(tr, cs)
           /\ Sprouts(tr, i, cs) /\ cs[i].kind = kind
<1> DEFINE k  == Arity[kind]
           ks == [j \in 1..k |-> Len(tr) + j]
           x  == [tr EXCEPT ![i].kind = kind, ![i].name = n, ![i].par = p, ![i].kids = ks]
           y  == [j \in 1..k |-> Open(i)]
           cs == x \o y
<1>1. /\ k \in Nat
      /\ kind \in {"unit", "use"} => k = 0
      /\ kind = "index" => k = 1
      /\ kind \in {"seq", "for"} => k = 2
      /\ kind \in Exprs /\ kind # "open" /\ kind \notin Defs
      /\ kind \notin {"open", "var", "fun", "array", "let", "letrec"}
  BY DEF Arity, Exprs, Defs
<1>2. tr \in Seq(Node) /\ Len(tr) \in Nat /\ Len(tr) >= 1 /\ tr[i] \in Node
  BY DEF Tree
<1> HIDE DEF k
<1>3. /\ ks \in Seq(Nat) /\ Len(ks) = k /\ \A j \in 1..k : ks[j] = Len(tr) + j
      /\ y \in Seq(Node) /\ Len(y) = k /\ \A j \in 1..k : y[j] = Open(i)
  <2>1. ks \in [1..k -> Nat] /\ \A j \in 1..k : ks[j] = Len(tr) + j
    BY <1>1, <1>2
  <2>2. Open(i) \in Node
    BY <1>2, OpenNode
  <2>3. y \in [1..k -> Node] /\ \A j \in 1..k : y[j] = Open(i)
    BY <2>2
  <2> HIDE DEF ks, y
  <2> QED
    BY <1>1, <2>1, <2>3, Elements
<1> HIDE DEF ks, y
<1>4. /\ x \in Seq(Node) /\ Len(x) = Len(tr)
      /\ \A m \in 1..Len(tr) : m # i => x[m] = tr[m]
      /\ x[i].kind = kind /\ x[i].kids = ks /\ x[i].parent = tr[i].parent
      /\ x[i].sem = tr[i].sem /\ x[i].codegen = tr[i].codegen
  <2> DEFINE z == [tr[i] EXCEPT !.kind = kind, !.name = n, !.par = p, !.kids = ks]
  <2>1. /\ z \in Node /\ z.kind = kind /\ z.kids = ks /\ z.parent = tr[i].parent
        /\ z.sem = tr[i].sem /\ z.codegen = tr[i].codegen
    BY <1>1, <1>2, <1>3 DEF Node
  <2>2. x = [tr EXCEPT ![i] = z]
    BY <1>2 DEF Node
  <2> HIDE DEF x, z
  <2>3. x \in Seq(Node) /\ ExceptOf(tr, i, z, x)
    <3>1. z \in Node
      BY <2>1
    <3> QED
      BY ONLY <1>2, <2>2, <3>1, i \in 1..Len(tr), Excepted
  <2> QED
    BY <2>1, <2>3 DEF ExceptOf
<1> HIDE DEF x
<1>5. /\ cs \in Seq(Node) /\ Len(cs) = Len(tr) + k
      /\ \A m \in 1..Len(tr) : cs[m] = x[m]
      /\ \A j \in 1..k : cs[Len(tr) + j] = Open(i)
  <2>1. x \in Seq(Node) /\ y \in Seq(Node)
    BY <1>3, <1>4
  <2>2. cs \in Seq(Node) /\ JoinOf(x, y, cs)
    BY ONLY <2>1, Joined
  <2> HIDE DEF cs
  <2> QED
    BY <1>3, <1>4, <2>2 DEF JoinOf
<1>c. cs = ExprTree(tr, i, kind, n, p)
  BY DEF ExprTree, k, ks, x, y
<1> HIDE DEF cs
<1>6. /\ cs[i].kind = kind /\ cs[i].kids = ks /\ cs[i].parent = tr[i].parent
      /\ cs[i].sem = tr[i].sem /\ cs[i].codegen = tr[i].codegen
      /\ \A m \in 1..Len(tr) : m # i => cs[m] = tr[m]
  BY <1>4, <1>5
<1>7. \A m \in Len(tr) + 1..Len(cs) :
        /\ cs[m].kind = "open" /\ cs[m].parent = i /\ cs[m].kids = <<>>
        /\ cs[m].sem = Unseen /\ cs[m].codegen = Unseen
  <2> SUFFICES ASSUME NEW m \in Len(tr) + 1..Len(cs)
               PROVE  /\ cs[m].kind = "open" /\ cs[m].parent = i /\ cs[m].kids = <<>>
                      /\ cs[m].sem = Unseen /\ cs[m].codegen = Unseen
    OBVIOUS
  <2>1. m - Len(tr) \in 1..k /\ Len(tr) + (m - Len(tr)) = m
    BY <1>1, <1>2, <1>5
  <2>2. cs[m] = Open(i)
    BY <1>5, <2>1
  <2> QED
    BY <2>2, OpenNode
<1>8. Grown(tr, i, cs)
  BY <1>1, <1>2, <1>5, <1>6 DEF Grown, k
<1>9. Shape(cs, i)
  BY <1>1, <1>3, <1>6 DEF Shape
<1>10. \A j \in 1..Len(cs[i].kids) :
         cs[i].kids[j] \in 1..Len(cs) /\ cs[cs[i].kids[j]].parent = i
  <2> SUFFICES ASSUME NEW j \in 1..k PROVE ks[j] \in 1..Len(cs) /\ cs[ks[j]].parent = i
    BY <1>3, <1>6
  <2>1. ks[j] \in Len(tr) + 1..Len(cs) /\ ks[j] \in 1..Len(cs)
    BY <1>1, <1>2, <1>3, <1>5
  <2> QED
    BY <1>7, <2>1
<1>11. \A m \in Len(tr) + 1..Len(cs) : Fine(cs, m)
  <2> SUFFICES ASSUME NEW m \in Len(tr) + 1..Len(cs) PROVE Fine(cs, m)
    OBVIOUS
  <2>1. cs[m].kind = "open" /\ cs[m].parent = i /\ Len(cs[m].kids) = 0 /\ i < m
    BY <1>2, <1>7
  <2>2. cs[i].kind # "open"
    BY <1>1, <1>6
  <2>3. Shape(cs, m)
    BY <2>1 DEF Shape
  <2> QED
    BY <2>1, <2>2, <2>3 DEF Fine
<1>12. Tree(cs) /\ Extends(tr, cs)
  BY <1>8, <1>9, <1>10, <1>11, GrownTree
<1>13. Family(tr, cs)
  BY <1>2, <1>7 DEF Family
<1>14. Sprouts(tr, i, cs)
  <2>1. \A m \in 1..Len(tr) : cs[m].sem = tr[m].sem /\ cs[m].codegen = tr[m].codegen
    BY <1>6
  <2>2. ASSUME NEW m \in 1..Len(cs), cs[m].kind \in {"let", "letrec"}
        PROVE  m = i \/ (m \in 1..Len(tr) /\ tr[m].kind = cs[m].kind)
    <3>1. m \in Len(tr) + 1..Len(cs) => cs[m].kind = "open"
      BY <1>7
    <3>2. m \in 1..Len(tr)
      BY <1>2, <2>2, <3>1
    <3> QED
      BY <1>6, <3>2
  <2> QED
    BY <1>7, <2>1, <2>2 DEF Sprouts
<1> QED
  BY <1>6, <1>12, <1>13, <1>14, <1>c

\* The j-th of k definitions, of the let i.
DefNode(tr, i, k, hs, j) ==
  [Open(i) EXCEPT !.kind = hs[j].kind, !.name = hs[j].name, !.par = hs[j].par,
                  !.kids = <<Len(tr) + k + 1 + j>>]

\* Node i has become a let with the k definitions hs.
LetTree(tr, i, kind, k, hs) ==
  [tr EXCEPT ![i].kind = kind, ![i].kids = [j \in 1..k + 1 |-> Len(tr) + j]]
  \o [j \in 1..k |-> DefNode(tr, i, k, hs, j)] \o <<Open(i)>>
  \o [j \in 1..k |-> Open(Len(tr) + j)]

\* The tree with it is sound, and extends the other.
LEMMA LetGrown ==
  ASSUME NEW tr, Tree(tr), NEW i \in 1..Len(tr), tr[i].kind = "open",
         NEW kind \in {"let", "letrec"}, NEW k \in Nat, k >= 1,
         NEW hs \in [1..k -> [kind: Defs, name: Names, par: Names]],
         Len(tr) + (2 * k + 1) <= MaxNodes
  PROVE  LET cs == LetTree(tr, i, kind, k, hs) IN
           /\ Tree(cs) /\ Extends(tr, cs) /\ Family(tr, cs)
           /\ Sprouts(tr, i, cs) /\ Defines(cs, i, k, hs)
<1> DEFINE n  == Len(tr)
           ks == [j \in 1..k + 1 |-> n + j]
           x  == [tr EXCEPT ![i].kind = kind, ![i].kids = ks]
           y  == [j \in 1..k |-> DefNode(tr, i, k, hs, j)]
           z  == [j \in 1..k |-> Open(n + j)]
           cs == x \o y \o <<Open(i)>> \o z
<1>1. tr \in Seq(Node) /\ n \in Nat /\ n >= 1 /\ tr[i] \in Node
  BY DEF Tree
<1> HIDE DEF n
<1>2. ASSUME NEW j \in 1..k
      PROVE  LET d == DefNode(tr, i, k, hs, j) IN
               /\ d \in Node /\ d.kind \in Defs /\ d.kids = <<n + k + 1 + j>>
               /\ d.parent = i /\ d.name = hs[j].name
               /\ d.sem = Unseen /\ d.codegen = Unseen
  <2>1. /\ Open(i) \in Node /\ Open(i).parent = i
        /\ Open(i).sem = Unseen /\ Open(i).codegen = Unseen
    BY <1>1, OpenNode DEF n
  <2>2. hs[j].kind \in Defs /\ hs[j].name \in Names /\ hs[j].par \in Names
    OBVIOUS
  <2>3. <<n + k + 1 + j>> \in Seq(Nat)
    BY <1>1
  <2> QED
    BY <2>1, <2>2, <2>3 DEF DefNode, Node, n
<1>3. /\ ks \in Seq(Nat) /\ Len(ks) = k + 1 /\ \A j \in 1..k + 1 : ks[j] = n + j
      /\ y \in Seq(Node) /\ Len(y) = k /\ \A j \in 1..k : y[j] = DefNode(tr, i, k, hs, j)
      /\ z \in Seq(Node) /\ Len(z) = k /\ \A j \in 1..k : z[j] = Open(n + j)
      /\ <<Open(i)>> \in Seq(Node)
  <2>1. \A j \in 1..k : DefNode(tr, i, k, hs, j) \in Node
    BY <1>2
  <2>2. \A j \in 1..k : n + j \in Nat /\ Open(n + j) \in Node
    BY <1>1, OpenNode
  <2>3. Open(i) \in Node
    BY <1>1, OpenNode DEF n
  <2>4. y \in Seq(Node) /\ Len(y) = k /\ \A j \in 1..k : y[j] = DefNode(tr, i, k, hs, j)
    BY <2>1
  <2>5. z \in Seq(Node) /\ Len(z) = k /\ \A j \in 1..k : z[j] = Open(n + j)
    BY <2>2
  <2> QED
    BY <1>1, <2>3, <2>4, <2>5
<1> HIDE DEF ks, y, z
<1>4. /\ x \in Seq(Node) /\ Len(x) = n
      /\ \A m \in 1..n : m # i => x[m] = tr[m]
      /\ x[i].kind = kind /\ x[i].kids = ks /\ x[i].parent = tr[i].parent
      /\ x[i].sem = tr[i].sem /\ x[i].codegen = tr[i].codegen
  <2> DEFINE w == [tr[i] EXCEPT !.kind = kind, !.kids = ks]
  <2>1. kind \in Exprs \cup Defs \cup {"open"}
    BY DEF Exprs
  <2>2. /\ w \in Node /\ w.kind = kind /\ w.kids = ks /\ w.parent = tr[i].parent
        /\ w.sem = tr[i].sem /\ w.codegen = tr[i].codegen
    BY <1>1, <1>3, <2>1 DEF Node
  <2>3. x = [tr EXCEPT ![i] = w]
    BY <1>1 DEF Node
  <2> HIDE DEF x, w
  <2>4. x \in Seq(Node) /\ ExceptOf(tr, i, w, x)
    <3>1. w \in Node
      BY <2>2
    <3> QED
      BY ONLY <1>1, <2>3, <3>1, i \in 1..Len(tr), Excepted
  <2> QED
    BY <2>2, <2>4 DEF ExceptOf, n
<1> HIDE DEF x
<1>5. /\ cs \in Seq(Node) /\ Len(cs) = n + k + 1 + k
      /\ \A m \in 1..n : cs[m] = x[m]
      /\ \A j \in 1..k : cs[n + j] = DefNode(tr, i, k, hs, j)
      /\ cs[n + k + 1] = Open(i)
      /\ \A j \in 1..k : cs[n + k + 1 + j] = Open(n + j)
  <2> DEFINE u == x \o y
             v == u \o <<Open(i)>>
  <2>1. /\ u \in Seq(Node) /\ Len(u) = n + k
        /\ \A m \in 1..n : u[m] = x[m]
        /\ \A j \in 1..k : u[n + j] = y[j]
    <3>1. x \in Seq(Node) /\ y \in Seq(Node)
      BY <1>3, <1>4
    <3>2. u \in Seq(Node) /\ JoinOf(x, y, u)
      BY ONLY <3>1, Joined
    <3> HIDE DEF u
    <3> QED
      BY <1>3, <1>4, <3>2 DEF JoinOf
  <2> HIDE DEF u
  <2>2. /\ v \in Seq(Node) /\ Len(v) = n + k + 1
        /\ \A m \in 1..n + k : v[m] = u[m]
        /\ v[n + k + 1] = Open(i)
    <3> DEFINE o == <<Open(i)>>
    <3>1. u \in Seq(Node) /\ o \in Seq(Node)
      BY <1>3, <2>1
    <3>2. v \in Seq(Node) /\ JoinOf(u, o, v)
      BY ONLY <3>1, Joined
    <3>3. Len(o) = 1 /\ o[1] = Open(i) /\ 1 \in 1..1
      OBVIOUS
    <3> HIDE DEF v, o
    <3> QED
      BY <2>1, <3>2, <3>3 DEF JoinOf
  <2> HIDE DEF v
  <2>3. /\ v \o z \in Seq(Node) /\ Len(v \o z) = n + k + 1 + k
        /\ \A m \in 1..n + k + 1 : (v \o z)[m] = v[m]
        /\ \A j \in 1..k : (v \o z)[n + k + 1 + j] = z[j]
    <3>1. v \in Seq(Node) /\ z \in Seq(Node)
      BY <1>3, <2>2
    <3>2. v \o z \in Seq(Node) /\ JoinOf(v, z, v \o z)
      BY ONLY <3>1, Joined
    <3> QED
      BY <1>3, <2>2, <3>2 DEF JoinOf
  <2>4. \A m \in 1..n : m \in 1..n + k /\ m \in 1..n + k + 1
    BY <1>1
  <2>5. /\ \A j \in 1..k : n + j \in 1..n + k /\ n + j \in 1..n + k + 1
        /\ n + k + 1 \in 1..n + k + 1
    BY <1>1
  <2>6. cs = v \o z
    BY DEF u, v
  <2> HIDE DEF cs
  <2>7. \A m \in 1..n : cs[m] = x[m]
    BY <2>1, <2>2, <2>3, <2>4, <2>6
  <2>8. \A j \in 1..k : cs[n + j] = y[j]
    BY <2>1, <2>2, <2>3, <2>5, <2>6
  <2>9. cs[n + k + 1] = Open(i)
    BY <2>2, <2>3, <2>5, <2>6
  <2> QED
    BY <1>3, <2>3, <2>6, <2>7, <2>8, <2>9
<1>c. cs = LetTree(tr, i, kind, k, hs)
  BY DEF LetTree, n, ks, x, y, z
<1> HIDE DEF cs
<1>6. /\ cs[i].kind = kind /\ cs[i].kids = ks /\ cs[i].parent = tr[i].parent
      /\ cs[i].sem = tr[i].sem /\ cs[i].codegen = tr[i].codegen
      /\ \A m \in 1..n : m # i => cs[m] = tr[m]
  BY <1>4, <1>5 DEF n
<1>7. /\ \A j \in 1..k : /\ cs[n + j].kind \in Defs /\ cs[n + j].parent = i
                         /\ cs[n + j].kids = <<n + k + 1 + j>>
      /\ cs[n + k + 1].kind = "open" /\ cs[n + k + 1].parent = i
      /\ cs[n + k + 1].kids = <<>>
      /\ \A j \in 1..k : /\ cs[n + k + 1 + j].kind = "open"
                         /\ cs[n + k + 1 + j].parent = n + j
                         /\ cs[n + k + 1 + j].kids = <<>>
  <2>1. i \in Nat /\ \A j \in 1..k : n + j \in Nat
    BY <1>1 DEF n
  <2>2. ASSUME NEW j \in 1..k
        PROVE  /\ cs[n + j].kind \in Defs /\ cs[n + j].parent = i
               /\ cs[n + j].kids = <<n + k + 1 + j>>
    BY <1>2, <1>5
  <2>3. /\ cs[n + k + 1].kind = "open" /\ cs[n + k + 1].parent = i
        /\ cs[n + k + 1].kids = <<>>
    BY <1>5, <2>1, OpenNode
  <2>4. ASSUME NEW j \in 1..k
        PROVE  /\ cs[n + k + 1 + j].kind = "open"
               /\ cs[n + k + 1 + j].parent = n + j
               /\ cs[n + k + 1 + j].kids = <<>>
    BY <1>5, <2>1, OpenNode, SMTT(40)
  <2> QED
    BY <2>2, <2>3, <2>4
<1>s. \A m \in n + 1..Len(cs) :
        \/ m = n + k + 1 \/ \E j \in 1..k : m = n + j \/ m = n + k + 1 + j
  <2> SUFFICES ASSUME NEW m \in n + 1..Len(cs)
               PROVE  \/ m = n + k + 1 \/ \E j \in 1..k : m = n + j \/ m = n + k + 1 + j
    OBVIOUS
  <2>1. CASE m <= n + k
    <3>1. m - n \in 1..k /\ m = n + (m - n)
      BY <1>1, <2>1
    <3> QED
      BY <3>1
  <2>2. CASE m > n + k + 1
    <3>1. m - (n + k + 1) \in 1..k /\ m = n + k + 1 + (m - (n + k + 1))
      BY <1>1, <1>5, <2>2
    <3> QED
      BY <3>1
  <2> QED
    BY <1>1, <2>1, <2>2
<1>8. Grown(tr, i, cs)
  <2>1. Len(cs) <= MaxNodes /\ n <= Len(cs)
    <3>1. n + (2 * k + 1) <= MaxNodes /\ MaxNodes \in Nat
      BY ConstantsAssumption DEF n
    <3> QED
      BY <1>1, <1>5, <3>1
  <2> QED
    BY <1>1, <1>5, <1>6, <2>1 DEF Grown, Defs, n
<1>9. Shape(cs, i)
  <2>1. /\ Len(cs[i].kids) = k + 1 /\ k + 1 >= 2
        /\ cs[i].kids[k + 1] = n + k + 1
    <3>1. k + 1 \in 1..k + 1 /\ n + (k + 1) = n + k + 1
      BY <1>1
    <3> QED
      BY <1>3, <1>6, <3>1
  <2>2. \A j \in 1..k + 1 - 1 : cs[i].kids[j] = n + j /\ j \in 1..k
    BY <1>3, <1>6
  <2>3. "open" \notin Defs
    BY DEF Defs
  <2> QED
    BY <1>6, <1>7, <2>1, <2>2, <2>3 DEF Shape
<1>10. \A j \in 1..Len(cs[i].kids) :
         cs[i].kids[j] \in 1..Len(cs) /\ cs[cs[i].kids[j]].parent = i
  <2> SUFFICES ASSUME NEW j \in 1..k + 1 PROVE n + j \in 1..Len(cs) /\ cs[n + j].parent = i
    BY <1>3, <1>6
  <2>1. n + j \in 1..Len(cs)
    BY <1>1, <1>5, SMTT(40)
  <2>2. j \in 1..k \/ n + j = n + k + 1
    BY <1>1
  <2> QED
    BY <1>7, <2>1, <2>2
<1>11. \A m \in n + 1..Len(cs) : Fine(cs, m)
  <2>o. cs[i].kind # "open" /\ i \in 1..n
    BY <1>6 DEF n
  <2>1. ASSUME NEW j \in 1..k PROVE Fine(cs, n + j)
    <3>1. Len(cs[n + j].kids) = 1 /\ cs[n + j].kids[1] = n + k + 1 + j
      <4>1. cs[n + j].kids = <<n + k + 1 + j>>
        BY <1>7
      <4> QED
        BY <4>1
    <3>2. Shape(cs, n + j)
      BY <1>7, <3>1 DEF Shape, Defs
    <3>3. n + k + 1 + j \in 1..Len(cs) /\ i < n + j
      BY <1>1, <1>5, <2>o, SMTT(40)
    <3> QED
      BY <1>7, <2>o, <3>1, <3>2, <3>3 DEF Fine
  <2>2. Fine(cs, n + k + 1)
    <3>1. Len(cs[n + k + 1].kids) = 0 /\ i < n + k + 1
      BY <1>1, <1>7, <2>o
    <3>2. Shape(cs, n + k + 1)
      BY <1>7, <3>1 DEF Shape
    <3> QED
      BY <1>7, <2>o, <3>1, <3>2 DEF Fine
  <2>3. ASSUME NEW j \in 1..k PROVE Fine(cs, n + k + 1 + j)
    <3>1. Len(cs[n + k + 1 + j].kids) = 0 /\ n + j < n + k + 1 + j
      BY <1>1, <1>7
    <3>2. Shape(cs, n + k + 1 + j)
      BY <1>7, <3>1 DEF Shape
    <3>3. cs[n + j].kind # "open"
      BY <1>7 DEF Defs
    <3> QED
      BY <1>7, <3>1, <3>2, <3>3 DEF Fine
  <2> QED
    BY <1>s, <2>1, <2>2, <2>3
<1>12. Tree(cs) /\ Extends(tr, cs)
  BY <1>8, <1>9, <1>10, <1>11, GrownTree DEF n
<1>13. Family(tr, cs)
  <2> SUFFICES ASSUME NEW m \in n + 1..Len(cs)
               PROVE  /\ cs[m].parent \in 1..m - 1
                      /\ cs[m].parent <= n \/ cs[cs[m].parent].parent \in 1..n
    BY DEF Family, n
  <2>i. i \in 1..n
    BY DEF n
  <2>1. CASE m = n + k + 1
    BY <1>1, <1>7, <2>1, <2>i
  <2>2. ASSUME NEW j \in 1..k, m = n + j
        PROVE  cs[m].parent \in 1..m - 1 /\ cs[m].parent <= n
    <3>1. cs[m].parent = i
      BY <1>7, <2>2
    <3> QED
      BY <1>1, <2>2, <2>i, <3>1
  <2>3. ASSUME NEW j \in 1..k, m = n + k + 1 + j
        PROVE  cs[m].parent \in 1..m - 1 /\ cs[cs[m].parent].parent \in 1..n
    <3>1. cs[m].parent = n + j /\ cs[n + j].parent = i
      BY <1>7, <2>3
    <3> QED
      BY <1>1, <2>3, <2>i, <3>1
  <2> QED
    BY <1>s, <2>1, <2>2, <2>3, <2>i
<1>14. Sprouts(tr, i, cs)
  <2>1. \A m \in 1..n : cs[m].sem = tr[m].sem /\ cs[m].codegen = tr[m].codegen
    BY <1>6
  <2>2. ASSUME NEW m \in n + 1..Len(cs)
        PROVE  /\ cs[m].sem = Unseen /\ cs[m].codegen = Unseen
               /\ cs[m].kind \notin {"let", "letrec"}
    <3>1. CASE m = n + k + 1
      BY <1>1, <1>5, <1>7, <3>1, OpenNode DEF n
    <3>2. ASSUME NEW j \in 1..k, m = n + j
          PROVE  cs[m].sem = Unseen /\ cs[m].codegen = Unseen /\ cs[m].kind \in Defs
      BY <1>2, <1>5, <3>2
    <3>3. ASSUME NEW j \in 1..k, m = n + k + 1 + j
          PROVE  cs[m].sem = Unseen /\ cs[m].codegen = Unseen /\ cs[m].kind = "open"
      <4>1. n + j \in Nat
        BY <1>1
      <4>2. cs[m] = Open(n + j)
        BY <1>5, <3>3
      <4> QED
        BY <4>1, <4>2, OpenNode
    <3> QED
      BY <1>s, <3>1, <3>2, <3>3, <1>7 DEF Defs
  <2>3. ASSUME NEW m \in 1..Len(cs), cs[m].kind \in {"let", "letrec"}
        PROVE  m = i \/ (m \in 1..n /\ tr[m].kind = cs[m].kind)
    <3>1. m \in 1..n
      BY <1>1, <1>5, <2>2, <2>3
    <3> QED
      BY <1>6, <3>1
  <2> QED
    BY <2>1, <2>2, <2>3 DEF Sprouts, n
<1>15. Defines(cs, i, k, hs)
  <2>1. \A j \in 1..k : cs[i].kids[j] = n + j
    BY <1>3, <1>6
  <2>2. \A j \in 1..k : cs[n + j].name = hs[j].name
    BY <1>2, <1>5
  <2> QED
    BY <1>3, <1>6, <2>1, <2>2 DEF Defines
<1> QED
  BY <1>12, <1>13, <1>14, <1>15, <1>c

-----------------------------------------------------------------------------
(* Scopes and tasks.                                                       *)

\* A name gets a meaning, in scope l if there is one.
Binding(e, n, v, l) ==
  [e EXCEPT ![l] = [m \in {n} \cup DOMAIN @ |-> IF m = n THEN v ELSE @[m]]]

\* No scope loses a name, and the name has one if the scope exists.
LEMMA BindingCovers ==
  ASSUME NEW e \in Seq(Scopes), NEW n \in Names, NEW v \in Referents, NEW l
  PROVE  /\ Binding(e, n, v, l) \in Seq(Scopes) /\ Covers(Binding(e, n, v, l), e)
         /\ l \in 1..Len(e) => n \in DOMAIN Binding(e, n, v, l)[l]
<1> DEFINE f == [m \in {n} \cup DOMAIN e[l] |-> IF m = n THEN v ELSE e[l][m]]
           d == Binding(e, n, v, l)
<1>1. d = [e EXCEPT ![l] = f]
  BY DEF Binding
<1>2. DOMAIN f = {n} \cup DOMAIN e[l]
  OBVIOUS
<1>3. CASE l \in 1..Len(e)
  <2>1. f \in Scopes
    <3>1. PICK D \in SUBSET Names : e[l] \in [D -> Referents]
      <4>1. e[l] \in Scopes
        BY <1>3
      <4> QED
        BY <4>1 DEF Scopes
    <3>2. {n} \cup D \in SUBSET Names /\ f \in [{n} \cup D -> Referents]
      BY <3>1
    <3> QED
      BY <3>2 DEF Scopes
  <2> HIDE DEF d, f
  <2>2. d \in Seq(Scopes) /\ ExceptOf(e, l, f, d)
    BY ONLY e \in Seq(Scopes), <1>1, <1>3, <2>1, Excepted
  <2> QED
    BY <1>2, <1>3, <2>2 DEF Covers, ExceptOf, d
<1>4. CASE l \notin 1..Len(e)
  <2> HIDE DEF f, d
  <2>1. d = e
    BY <1>1, <1>4
  <2> QED
    BY <1>4, <2>1 DEF Covers, d
<1> QED
  BY <1>3, <1>4

\* One name alone.
LEMMA NewScope ==
  ASSUME NEW n \in Names, NEW v \in Referents
  PROVE  [m \in {n} |-> v] \in Scopes /\ DOMAIN [m \in {n} |-> v] = {n}
<1>1. {n} \in SUBSET Names /\ [m \in {n} |-> v] \in [{n} -> Referents]
  OBVIOUS
<1> QED
  BY <1>1 DEF Scopes

\* What may be done at node i.
LEMMA TaskOf ==
  ASSUME NEW tr, NEW i \in 1..Len(tr), NEW do \in Tasks,
         do = "close" => tr[i].kind \in {"fun", "for"},
         do = "open" => tr[i].kind = "for",
         do = "bind" => tr[i].kind \in Defs
  PROVE  Task(do, i) \in TasksOf(tr) /\ Task(do, i).do = do /\ Task(do, i).node = i
BY DEF Task, TasksOf

\* The same for each of several nodes.
EachOf(do, nodes, ts) ==
  /\ Len(ts) = Len(nodes)
  /\ \A j \in 1..Len(nodes) : ts[j].do = do /\ ts[j].node = nodes[j]

\* Each() makes such tasks, and they close no scope.
LEMMA EachTask ==
  ASSUME NEW tr, NEW nodes \in Seq(1..Len(tr)), NEW do \in {"visit", "decl", "define", "bind"},
         do = "bind" => \A j \in 1..Len(nodes) : tr[nodes[j]].kind \in Defs
  PROVE  /\ Each(do, nodes) \in Seq(TasksOf(tr)) /\ EachOf(do, nodes, Each(do, nodes))
         /\ NoClose(Each(do, nodes))
<1> DEFINE ts == Each(do, nodes)
<1>1. Len(nodes) \in Nat /\ DOMAIN nodes = 1..Len(nodes) /\ do \in Tasks
  BY DEF Tasks
<1>2. ASSUME NEW j \in 1..Len(nodes)
      PROVE  Task(do, nodes[j]) \in TasksOf(tr) /\ Task(do, nodes[j]).do = do
             /\ Task(do, nodes[j]).node = nodes[j]
  <2>1. nodes[j] \in 1..Len(tr)
    OBVIOUS
  <2> QED
    BY <1>1, <2>1, TaskOf
<1>3. ts \in [1..Len(nodes) -> TasksOf(tr)] /\ \A j \in 1..Len(nodes) : ts[j] = Task(do, nodes[j])
  BY <1>1, <1>2 DEF Each
<1> HIDE DEF ts
<1>4. ts \in Seq(TasksOf(tr)) /\ Len(ts) = Len(nodes)
  BY <1>1, <1>3, Elements
<1> QED
  BY <1>2, <1>3, <1>4 DEF EachOf, NoClose, ts

\* A sequence of one or two tasks.
LEMMA OneTask ==
  ASSUME NEW T, NEW a \in T
  PROVE  <<a>> \in Seq(T) /\ Len(<<a>>) = 1 /\ <<a>>[1] = a
OBVIOUS

\* Of two.
LEMMA TwoTasks ==
  ASSUME NEW T, NEW a \in T, NEW b \in T
  PROVE  <<a, b>> \in Seq(T) /\ Len(<<a, b>>) = 2 /\ <<a, b>>[1] = a /\ <<a, b>>[2] = b
OBVIOUS

\* Two such sequences make another one.
LEMMA NoCloseJoined ==
  ASSUME NEW T, NEW us \in Seq(T), NEW vs \in Seq(T), NoClose(us), NoClose(vs)
  PROVE  NoClose(us \o vs)
<1>1. JoinOf(us, vs, us \o vs) /\ Len(us) \in Nat /\ Len(vs) \in Nat
  BY Joined
<1> SUFFICES ASSUME NEW q \in 1..Len(us) + Len(vs) PROVE (us \o vs)[q].do # "close"
  BY <1>1 DEF NoClose, JoinOf
<1>2. q \in 1..Len(us) \/ (q - Len(us) \in 1..Len(vs) /\ Len(us) + (q - Len(us)) = q)
  BY <1>1
<1> QED
  BY <1>1, <1>2 DEF NoClose, JoinOf

\* ks has those of the first k elements of s that are in S.
OnlyOf(s, k, S, ks) ==
  /\ \A j \in 1..Len(ks) : ks[j] \in S /\ \E i \in 1..k : ks[j] = s[i]
  /\ \A i \in 1..k : s[i] \in S => \E j \in 1..Len(ks) : ks[j] = s[i]

\* Only() is what its name says; by induction on the first k elements.
LEMMA OnlyElements ==
  ASSUME NEW T, NEW s \in Seq(T), NEW S
  PROVE  Only(s, S) \in Seq(T) /\ OnlyOf(s, Len(s), S, Only(s, S))
<1> DEFINE Val(g, k) == IF k = 0 THEN <<>>
                        ELSE IF s[k] \in S THEN Append(g[k - 1], s[k]) ELSE g[k - 1]
           Eq(m, g) == g = [k \in 0..m |-> Val(g, k)]
           X == {m \in Nat : m <= Len(s) /\ ~ \E g : Eq(m, g)}
<1>1. Len(s) \in Nat
  OBVIOUS
<1>2. X = {}
  <2> SUFFICES ASSUME X # {} PROVE FALSE
    OBVIOUS
  <2>1. PICK m \in X : \A j \in X : m <= j
    <3>1. X \in SUBSET Nat
      OBVIOUS
    <3> HIDE DEF X
    <3> QED
      BY <3>1, Least
  <2>2. m \in Nat /\ m <= Len(s) /\ ~ \E g : Eq(m, g)
    BY <2>1
  <2>3. CASE m = 0
    <3> DEFINE g == [k \in 0..0 |-> <<>>]
    <3>1. Eq(0, g)
      OBVIOUS
    <3> QED
      BY <2>2, <2>3, <3>1
  <2>4. CASE m # 0
    <3>1. m - 1 \in Nat /\ m - 1 <= Len(s) /\ ~(m <= m - 1)
      BY <1>1, <2>2, <2>4
    <3>2. m - 1 \notin X
      BY <2>1, <3>1
    <3>3. PICK g : Eq(m - 1, g)
      BY <3>1, <3>2
    <3> DEFINE h == [k \in 0..m |-> IF k = m THEN Val(g, m) ELSE g[k]]
    <3>4. ASSUME NEW k \in 0..m PROVE h[k] = Val(h, k)
      <4>1. CASE k = 0
        <5>1. 0 \in 0..m - 1 /\ 0 # m
          BY <2>2, <2>4
        <5>2. g[0] = <<>>
          BY <3>3, <5>1
        <5> QED
          BY <4>1, <5>1, <5>2
      <4>2. CASE k # 0 /\ k # m
        <5>1. k \in 0..m - 1 /\ k - 1 \in 0..m - 1 /\ k - 1 # m /\ k - 1 \in 0..m
          BY <2>2, <4>2
        <5>2. g[k] = Val(g, k)
          BY <3>3, <5>1
        <5>3. h[k] = g[k] /\ h[k - 1] = g[k - 1]
          BY <4>2, <5>1
        <5> QED
          BY <5>2, <5>3
      <4>3. CASE k = m
        <5>1. m - 1 \in 0..m /\ m - 1 # m /\ m \in 0..m
          BY <2>2, <2>4
        <5>2. h[m] = Val(g, m) /\ h[m - 1] = g[m - 1]
          BY <5>1
        <5> QED
          BY <2>4, <4>3, <5>2
      <4> QED
        BY <4>1, <4>2, <4>3
    <3>5. h = [k \in 0..m |-> h[k]]
      OBVIOUS
    <3>6. Eq(m, h)
      <4> HIDE DEF h, Val
      <4> QED
        BY <3>4, <3>5
    <3> QED
      BY <2>2, <3>6
  <2> QED
    BY <2>3, <2>4
<1> DEFINE K == CHOOSE g : Eq(Len(s), g)
<1>3. Only(s, S) = K[Len(s)]
  BY DEF Only
<1>4. Eq(Len(s), K)
  <2>1. \E g : Eq(Len(s), g)
    <3>1. Len(s) \notin X
      BY <1>2
    <3> HIDE DEF Eq
    <3> QED
      BY <1>1, <3>1
  <2> HIDE DEF Eq
  <2> QED
    BY <2>1
<1> HIDE DEF K
<1>5. \A k \in 0..Len(s) : K[k] = Val(K, k)
  BY <1>4
<1> HIDE DEF Eq, X
<1> DEFINE Bad == {k \in Nat : k <= Len(s) /\ ~(K[k] \in Seq(T) /\ OnlyOf(s, k, S, K[k]))}
<1>6. Bad = {}
  <2> SUFFICES ASSUME Bad # {} PROVE FALSE
    OBVIOUS
  <2>1. PICK k \in Bad : \A j \in Bad : k <= j
    <3>1. Bad \in SUBSET Nat
      OBVIOUS
    <3> HIDE DEF Bad
    <3> QED
      BY <3>1, Least
  <2>2. k \in Nat /\ k <= Len(s) /\ ~(K[k] \in Seq(T) /\ OnlyOf(s, k, S, K[k]))
    BY <2>1
  <2>3. CASE k = 0
    <3>1. K[k] = <<>>
      BY <1>1, <1>5, <2>3
    <3>2. OnlyOf(s, k, S, K[k])
      BY <2>3, <3>1 DEF OnlyOf
    <3> QED
      BY <2>2, <3>1, <3>2
  <2>4. CASE k # 0
    <3> DEFINE r == k - 1
               a == K[r]
               b == K[k]
    <3>1. r \in Nat /\ r <= Len(s) /\ r < k /\ k \in 1..Len(s) /\ k \in 0..Len(s) /\ k = r + 1
      BY <1>1, <2>2, <2>4
    <3>2. r \notin Bad
      BY <2>1, <3>1
    <3>3. a \in Seq(T) /\ OnlyOf(s, r, S, a)
      BY <3>1, <3>2
    <3>5. b = IF s[k] \in S THEN Append(a, s[k]) ELSE a
      BY <1>5, <2>4, <3>1
    <3> HIDE DEF r, a, b
    <3>6. /\ \A j \in 1..Len(a) : a[j] \in S /\ \E i \in 1..r : a[j] = s[i]
          /\ \A i \in 1..r : s[i] \in S => \E j \in 1..Len(a) : a[j] = s[i]
          /\ Len(a) \in Nat
      BY <3>3 DEF OnlyOf
    <3>7. \A i \in 1..k : i \in 1..r \/ i = k
      BY <3>1
    <3>8. \A i \in 1..r : i \in 1..k
      BY <3>1
    <3>9. CASE s[k] \in S
      <4>1. /\ b \in Seq(T) /\ Len(b) = Len(a) + 1 /\ b[Len(a) + 1] = s[k]
            /\ \A j \in 1..Len(a) : b[j] = a[j]
        <5>1. s[k] \in T
          BY <3>1
        <5> QED
          BY <3>3, <3>5, <3>9, <5>1
      <4>2. \A j \in 1..Len(b) : j \in 1..Len(a) \/ j = Len(a) + 1
        BY <3>6, <4>1
      <4>3. Len(a) + 1 \in 1..Len(b) /\ \A j \in 1..Len(a) : j \in 1..Len(b)
        BY <3>6, <4>1
      <4>4. \A j \in 1..Len(b) : b[j] \in S /\ \E i \in 1..k : b[j] = s[i]
        <5> SUFFICES ASSUME NEW j \in 1..Len(b)
                     PROVE  b[j] \in S /\ \E i \in 1..k : b[j] = s[i]
          OBVIOUS
        <5>1. CASE j \in 1..Len(a)
          BY <3>6, <3>8, <4>1, <5>1, SMTT(40)
        <5>2. CASE j = Len(a) + 1
          <6>1. k \in 1..k
            BY <3>1
          <6> QED
            BY <3>9, <4>1, <5>2, <6>1
        <5> QED
          BY <4>2, <5>1, <5>2
      <4>5. \A i \in 1..k : s[i] \in S => \E j \in 1..Len(b) : b[j] = s[i]
        <5> SUFFICES ASSUME NEW i \in 1..k, s[i] \in S
                     PROVE  \E j \in 1..Len(b) : b[j] = s[i]
          OBVIOUS
        <5>1. CASE i \in 1..r
          BY <3>6, <4>1, <4>3, <5>1
        <5>2. CASE i = k
          BY <4>1, <4>3, <5>2
        <5> QED
          BY <3>7, <5>1, <5>2
      <4>6. OnlyOf(s, k, S, b)
        BY <4>4, <4>5 DEF OnlyOf
      <4> QED
        BY <2>2, <4>1, <4>6 DEF b
    <3>10. CASE s[k] \notin S
      <4>1. b = a
        BY <3>5, <3>10
      <4>2. \A j \in 1..Len(b) : b[j] \in S /\ \E i \in 1..k : b[j] = s[i]
        BY <3>6, <3>8, <4>1
      <4>3. \A i \in 1..k : s[i] \in S => \E j \in 1..Len(b) : b[j] = s[i]
        BY <3>6, <3>7, <3>10, <4>1
      <4>4. OnlyOf(s, k, S, b)
        BY <4>2, <4>3 DEF OnlyOf
      <4> QED
        BY <2>2, <3>3, <4>1, <4>4 DEF b
    <3> QED
      BY <3>9, <3>10
  <2> QED
    BY <2>3, <2>4
<1>7. K[Len(s)] \in Seq(T) /\ OnlyOf(s, Len(s), S, K[Len(s)])
  BY <1>1, <1>6
<1> QED
  BY <1>3, <1>7

-----------------------------------------------------------------------------
(* Where a step starts.                                                    *)

\* The first task, and what else there is.
LEMMA FirstTask ==
  ASSUME NEW tr, NEW ts, NEW e, Good(tr, ts, e), ts # <<>>
  PROVE  /\ Tree(tr) /\ ts \in Seq(TasksOf(tr)) /\ e \in Seq(Scopes)
         /\ Head(ts) = ts[1] /\ ts[1] \in TasksOf(tr)
         /\ ts[1].node \in 1..Len(tr) /\ ts[1].node \in Referents
         /\ ts[1].do \in Tasks /\ ts[1].level \in Nat
<1>1. Tree(tr) /\ ts \in Seq(TasksOf(tr)) /\ e \in Seq(Scopes)
  BY DEF Good
<1>2. ts[1] \in TasksOf(tr) /\ Head(ts) = ts[1]
  <2>1. Len(ts) \in Nat /\ Len(ts) # 0
    BY <1>1
  <2>2. 1 \in 1..Len(ts)
    BY <2>1
  <2> QED
    BY <1>1, <2>2
<1>3. /\ ts[1].node \in 1..Len(tr) /\ ts[1].do \in Tasks /\ ts[1].level \in Nat
  BY <1>2 DEF TasksOf
<1>4. ts[1].node \in Referents
  <2>1. Len(tr) \in 1..MaxNodes /\ MaxNodes \in Nat
    BY <1>1, ConstantsAssumption DEF Tree
  <2>2. ts[1].node \in Nat /\ ts[1].node <= 2 * MaxNodes
    BY <1>3, <2>1
  <2> QED
    BY <2>2 DEF Referents, Library
<1> QED
  BY <1>1, <1>2, <1>3, <1>4

\* The subexpressions of node i.
LEMMA KidsOf ==
  ASSUME NEW tr, Tree(tr), NEW i \in 1..Len(tr)
  PROVE  /\ tr[i].kids \in Seq(1..Len(tr)) /\ Len(tr[i].kids) \in Nat /\ Shape(tr, i)
         /\ \A j \in 1..Len(tr[i].kids) :
              tr[i].kids[j] \in 1..Len(tr) /\ tr[tr[i].kids[j]].parent = i
<1>1. /\ tr \in Seq(Node) /\ Shape(tr, i)
      /\ \A j \in 1..Len(tr[i].kids) :
           tr[i].kids[j] \in 1..Len(tr) /\ tr[tr[i].kids[j]].parent = i
  BY DEF Tree
<1>2. tr[i].kids \in Seq(Nat)
  BY <1>1, NodeFields
<1>3. tr[i].kids \in Seq(1..Len(tr))
  <2> DEFINE ks == tr[i].kids
  <2>1. ks \in Seq(Nat) /\ \A j \in 1..Len(ks) : ks[j] \in 1..Len(tr)
    BY <1>1, <1>2
  <2> HIDE DEF ks
  <2>2. ks \in [1..Len(ks) -> 1..Len(tr)] /\ Len(ks) \in Nat
    BY <2>1
  <2>3. ks \in Seq(1..Len(tr))
    BY <2>2, Elements
  <2> QED
    BY <2>3 DEF ks
<1> QED
  BY <1>1, <1>2, <1>3

\* An expression of the first task, the first or the only one of its node.
LEMMA FirstKid ==
  ASSUME NEW tr, Tree(tr), NEW i \in 1..Len(tr),
         tr[i].kind \in {"index", "var", "fun", "array", "seq", "for"}
  PROVE  tr[i].kids[1] \in 1..Len(tr) /\ tr[tr[i].kids[1]].parent = i
<1>1. Shape(tr, i)
  BY KidsOf
<1>2. Len(tr[i].kids) = 1 \/ Len(tr[i].kids) = 2
  BY <1>1 DEF Shape
<1>3. 1 \in 1..Len(tr[i].kids)
  <2> DEFINE m == Len(tr[i].kids)
  <2>1. m = 1 \/ m = 2
    BY <1>2
  <2> HIDE DEF m
  <2>2. 1 \in 1..m
    BY ONLY <2>1
  <2> QED
    BY <2>2 DEF m
<1> QED
  BY <1>3, KidsOf

\* All its subexpressions but the last.
Front(tr, i) == SubSeq(tr[i].kids, 1, Len(tr[i].kids) - 1)

\* The last.
Last(tr, i) == tr[i].kids[Len(tr[i].kids)]

\* It is a node of the tree, too.
LEMMA LastKid ==
  ASSUME NEW tr, Tree(tr), NEW i \in 1..Len(tr),
         tr[i].kind \in {"seq", "for", "let", "letrec"}
  PROVE  Last(tr, i) \in 1..Len(tr) /\ tr[Last(tr, i)].parent = i
<1>1. Shape(tr, i) /\ Len(tr[i].kids) \in Nat
  BY KidsOf
<1>2. Len(tr[i].kids) = 2 \/ Len(tr[i].kids) >= 2
  BY <1>1 DEF Shape
<1>3. Len(tr[i].kids) \in 1..Len(tr[i].kids)
  <2> DEFINE m == Len(tr[i].kids)
  <2>1. m \in Nat /\ (m = 2 \/ m >= 2)
    BY <1>1, <1>2
  <2> HIDE DEF m
  <2>2. m \in 1..m
    BY ONLY <2>1
  <2> QED
    BY <2>2 DEF m
<1> QED
  BY <1>3, KidsOf DEF Last

\* A let has definitions and a body.
LEMMA LetKids ==
  ASSUME NEW tr, Tree(tr), NEW i \in 1..Len(tr), tr[i].kind \in {"let", "letrec"}
  PROVE  /\ Front(tr, i) \in Seq(1..Len(tr)) /\ Len(Front(tr, i)) \in Nat
         /\ Len(Front(tr, i)) = Len(tr[i].kids) - 1
         /\ \A j \in 1..Len(Front(tr, i)) :
              /\ j \in 1..Len(tr[i].kids) /\ Front(tr, i)[j] = tr[i].kids[j]
              /\ tr[Front(tr, i)[j]].kind \in Defs
         /\ tr[Last(tr, i)].kind \notin Defs
<1> DEFINE ks == tr[i].kids
<1>1. /\ ks \in Seq(1..Len(tr)) /\ Len(ks) \in Nat /\ Len(ks) >= 2
      /\ \A j \in 1..Len(ks) - 1 : tr[ks[j]].kind \in Defs
      /\ tr[ks[Len(ks)]].kind \notin Defs
  BY KidsOf DEF Shape
<1> DEFINE fs == SubSeq(ks, 1, Len(ks) - 1)
<1>2. Front(tr, i) = fs /\ Last(tr, i) = ks[Len(ks)]
  BY DEF Front, Last
<1> HIDE DEF ks
<1>3. /\ fs \in Seq(1..Len(tr)) /\ Len(fs) = Len(ks) - 1
      /\ \A j \in 1..Len(fs) : fs[j] = ks[j]
  BY <1>1, SMTT(40)
<1> HIDE DEF fs
<1>4. \A j \in 1..Len(fs) : j \in 1..Len(ks) /\ j \in 1..Len(ks) - 1
  BY <1>1, <1>3
<1>5. Len(fs) \in Nat
  BY <1>3
<1> QED
  BY <1>1, <1>2, <1>3, <1>4, <1>5 DEF ks

\* The definitions of a let that are in S.
LEMMA OnlyDefs ==
  ASSUME NEW tr, Tree(tr), NEW i \in 1..Len(tr), tr[i].kind \in {"let", "letrec"}, NEW S
  PROVE  /\ Only(Front(tr, i), S) \in Seq(1..Len(tr))
         /\ OnlyOf(Front(tr, i), Len(Front(tr, i)), S, Only(Front(tr, i), S))
         /\ \A j \in 1..Len(Only(Front(tr, i), S)) :
              tr[Only(Front(tr, i), S)[j]].kind \in Defs
<1> DEFINE fs == Front(tr, i)
           ks == Only(fs, S)
<1>1. fs \in Seq(1..Len(tr)) /\ \A j \in 1..Len(fs) : tr[fs[j]].kind \in Defs
  BY LetKids
<1> HIDE DEF fs
<1>2. ks \in Seq(1..Len(tr)) /\ OnlyOf(fs, Len(fs), S, ks)
  BY <1>1, OnlyElements
<1> HIDE DEF ks
<1>3. \A j \in 1..Len(ks) : \E m \in 1..Len(fs) : ks[j] = fs[m]
  BY <1>2 DEF OnlyOf
<1>4. \A j \in 1..Len(ks) : tr[ks[j]].kind \in Defs
  BY <1>1, <1>3
<1> QED
  BY <1>2, <1>4 DEF fs, ks

\* Some scope has the name n.
Known(e, n) == \E l \in 1..Len(e) : n \in DOMAIN e[l]

\* A table finds the names that its scopes have, and nothing else.
LEMMA Lookup ==
  ASSUME env \in Seq(Scopes), NEW n
  PROVE  /\ LevelOf(n) \in 0..Len(env)
         /\ LevelOf(n) # 0 => n \in DOMAIN env[LevelOf(n)]
         /\ LookupEntry(n) # Unbound => LookupEntry(n) \in Referents
         /\ LookupEntry(n) = Unbound <=> ~ Known(env, n)
         /\ \A l \in 1..Len(env) : n \in DOMAIN env[l] => l <= LevelOf(n)
<1> DEFINE Has == {l \in 1..Len(env) : n \in DOMAIN env[l]}
           Up == {k \in Nat : \E l \in Has : k = Len(env) - l}
<1>1. Len(env) \in Nat
  OBVIOUS
<1>2. CASE Has = {}
  <2>1. LevelOf(n) = 0 /\ LookupEntry(n) = Unbound
    BY <1>2 DEF LevelOf, LookupEntry
  <2>2. ~ Known(env, n)
    BY <1>2 DEF Known
  <2>3. \A l \in 1..Len(env) : n \notin DOMAIN env[l]
    BY <1>2
  <2> QED
    BY <1>1, <2>1, <2>2, <2>3
<1>3. CASE Has # {}
  <2>1. Up \in SUBSET Nat /\ Up # {}
    <3>1. PICK l \in Has : TRUE
      BY <1>3
    <3>2. Len(env) - l \in Nat
      BY <1>1, <3>1
    <3>3. Len(env) - l \in Up
      BY <3>1, <3>2
    <3> QED
      BY <3>3
  <2>2. PICK k \in Up : \A j \in Up : k <= j
    <3> HIDE DEF Up
    <3> QED
      BY <2>1, Least
  <2>3. PICK l \in Has : k = Len(env) - l
    BY <2>2
  <2>4. \A j \in Has : j <= l
    <3> SUFFICES ASSUME NEW j \in Has PROVE j <= l
      OBVIOUS
    <3>1. j \in 1..Len(env) /\ l \in 1..Len(env)
      OBVIOUS
    <3>2. Len(env) - j \in Up
      BY <1>1, <3>1
    <3>3. k <= Len(env) - j
      BY <2>2, <3>2
    <3> QED
      BY <1>1, <2>3, <3>1, <3>3
  <2>5. LevelOf(n) = CHOOSE m \in Has : \A j \in Has : j <= m
    BY <1>3 DEF LevelOf
  <2>6. LevelOf(n) \in Has
    <3> HIDE DEF Has
    <3> QED
      BY <2>4, <2>5
  <2>7. LevelOf(n) \in 1..Len(env) /\ n \in DOMAIN env[LevelOf(n)]
    BY <2>6
  <2>11. \A j \in 1..Len(env) : n \in DOMAIN env[j] => j <= LevelOf(n)
    <3>1. \A j \in Has : j <= LevelOf(n)
      <4> HIDE DEF Has
      <4> QED
        BY <2>4, <2>5
    <3> QED
      BY <3>1
  <2>8. LookupEntry(n) = env[LevelOf(n)][n]
    BY <2>7 DEF LookupEntry
  <2>9. LookupEntry(n) \in Referents
    <3>1. env[LevelOf(n)] \in Scopes
      BY <2>7
    <3>2. PICK D \in SUBSET Names : env[LevelOf(n)] \in [D -> Referents]
      BY <3>1 DEF Scopes
    <3> QED
      BY <2>7, <2>8, <3>2
  <2>10. Unbound \notin Referents
    BY ConstantsAssumption DEF Unbound, Referents, Library
  <2> QED
    BY <1>1, <2>7, <2>9, <2>10, <2>11 DEF Known
<1> QED
  BY <1>2, <1>3

-----------------------------------------------------------------------------
(* The names that codegen() finds.                                         *)

\* The names that node p adds to those that its subexpression k may use.
Adds(tr, p, k) ==
  {n \in Names :
     \/ /\ tr[p].kind \in {"let", "letrec"}
        /\ \E j \in 1..Len(tr[p].kids) - 1 :
             /\ tr[tr[p].kids[j]].name = n
             /\ \/ k = Last(tr, p)
                \/ tr[p].kind = "letrec" /\ tr[tr[p].kids[j]].kind = "fun"
     \/ tr[p].kind = "fun" /\ tr[p].par = n
     \/ tr[p].kind = "for" /\ tr[p].name = n /\ k = Last(tr, p)}

\* vis has the names that have a definition in scope, for each node.
Visible(tr, vis) ==
  /\ vis \in [1..Len(tr) -> SUBSET Names]
  /\ \A m \in 1..Len(tr) :
       vis[m] = IF tr[m].parent = 0 THEN Libs
                ELSE vis[tr[m].parent] \cup Adds(tr, tr[m].parent, m)

\* When the q-th task is next the name n is known: one of the scopes that are
\* left has it, or will have it because an earlier task binds it there.
Bound(tr, ts, e, q, n) ==
  \/ \E l \in 1..Len(e) - Closed(ts, q) : n \in DOMAIN e[l]
  \/ \E r \in 1..q - 1 : /\ ts[r].do = "bind" /\ tr[ts[r].node].name = n
                         /\ Closed(ts, r) = Closed(ts, q)

\* The q-th task finds all the names that are visible where it works.
ReadyAt(tr, vis, ts, e, q) ==
  ts[q].do \in {"visit", "open"} =>
    \A n \in vis[ts[q].node] : Bound(tr, ts, e, q, n)

\* All tasks do.
Ready(tr, vis, ts, e) == \A q \in 1..Len(ts) : ReadyAt(tr, vis, ts, e, q)

\* Where the tasks are that replace the first one, and those after it, and
\* which scope is the innermost for them.
Levels(ts, us, e, d, vs) ==
  /\ Len(vs) = Len(us) + (Len(ts) - 1)
  /\ \A p \in 1..Len(us) : vs[p] = us[p] /\ Closed(vs, p) = Closed(us, p)
  /\ \A q \in 2..Len(ts) :
       /\ vs[Len(us) + (q - 1)] = ts[q]
       /\ Len(d) - Closed(vs, Len(us) + (q - 1)) = Len(e) - Closed(ts, q)
       /\ Closed(vs, Len(us) + (q - 1)) = Closed(ts, q) + (Len(d) - Len(e))
       /\ Len(e) - Closed(ts, q) <= Len(e) - Closed(ts, 2)

\* Tasks and scopes that fit put them there.
LEMMA LevelsKept ==
  ASSUME NEW tr, NEW ts, NEW e, Good(tr, ts, e), ts # <<>>,
         NEW us \in Seq(TasksOf(tr)), NEW d \in Seq(Scopes), Fit(ts, us, e, d)
  PROVE  Levels(ts, us, e, d, Instead(ts, us))
<1> DEFINE vs == Instead(ts, us)
           m  == Len(us)
           c  == Closed(us, m + 1)
           c2 == Closed(ts, 2)
<1>1. /\ ts \in Seq(TasksOf(tr)) /\ Tree(tr) /\ Len(ts) \in Nat /\ Len(ts) # 0
      /\ m \in Nat /\ Len(e) \in Nat /\ Len(d) \in Nat
  BY DEF Good
<1>2. Replaced(ts, us, vs)
  <2>1. ts \in Seq(TasksOf(tr)) /\ ts # <<>> /\ us \in Seq(TasksOf(tr))
    BY <1>1
  <2> QED
    BY ONLY <2>1, ClosedTail
<1>3. c \in Nat /\ c2 \in Nat /\ \A q \in 1..Len(ts) + 1 : Closed(ts, q) \in Nat
  <2>1. m + 1 \in 1..m + 1 /\ 2 \in 1..Len(ts) + 1
    BY <1>1
  <2> QED
    BY <1>1, <2>1, ClosedNext
<1>4. Len(d) - c = Len(e) - c2
  BY DEF Fit
<1> HIDE DEF vs
<1>5. /\ Len(vs) = m + (Len(ts) - 1)
      /\ \A p \in 1..m : vs[p] = us[p] /\ Closed(vs, p) = Closed(us, p)
      /\ \A q \in 2..Len(ts) : vs[m + (q - 1)] = ts[q]
      /\ \A q \in 2..Len(ts) + 1 : Closed(vs, m + (q - 1)) = c + (Closed(ts, q) - c2)
  BY <1>2 DEF Replaced
<1> HIDE DEF m, c, c2
<1>6. ASSUME NEW q \in 2..Len(ts)
      PROVE  /\ vs[m + (q - 1)] = ts[q]
             /\ Len(d) - Closed(vs, m + (q - 1)) = Len(e) - Closed(ts, q)
             /\ Closed(vs, m + (q - 1)) = Closed(ts, q) + (Len(d) - Len(e))
             /\ Len(e) - Closed(ts, q) <= Len(e) - c2
  <2>1. /\ q \in 1..Len(ts) + 1 /\ q \in 2..Len(ts) + 1 /\ 2 \in 1..Len(ts) + 1
    BY <1>1
  <2>2. c2 <= Closed(ts, q)
    BY <1>1, <2>1, ClosedGrows DEF c2
  <2>3. Closed(vs, m + (q - 1)) = c + (Closed(ts, q) - c2)
    BY <1>5, <2>1
  <2> DEFINE x == Closed(vs, m + (q - 1))
             y == Closed(ts, q)
  <2>4. /\ x = c + (y - c2) /\ Len(d) - c = Len(e) - c2 /\ y \in Nat /\ c \in Nat
        /\ c2 \in Nat /\ Len(e) \in Nat /\ Len(d) \in Nat /\ c2 <= y
    BY <1>1, <1>3, <1>4, <2>1, <2>2, <2>3
  <2>5. vs[m + (q - 1)] = ts[q]
    BY <1>5
  <2> HIDE DEF x, y
  <2>6. Len(d) = c + (Len(e) - c2)
    BY ONLY <2>4
  <2>7. /\ Len(d) - x = (c + (Len(e) - c2)) - (c + (y - c2))
        /\ y + (Len(d) - Len(e)) = y + ((c + (Len(e) - c2)) - Len(e))
    BY ONLY <2>4, <2>6
  <2>8. /\ (c + (Len(e) - c2)) - (c + (y - c2)) = Len(e) - y
        /\ y + ((c + (Len(e) - c2)) - Len(e)) = c + (y - c2)
        /\ Len(e) - y <= Len(e) - c2
    BY ONLY <2>4
  <2>9. Len(d) - x = Len(e) - y /\ x = y + (Len(d) - Len(e)) /\ Len(e) - y <= Len(e) - c2
    BY ONLY <2>4, <2>7, <2>8
  <2> QED
    BY <2>5, <2>9 DEF x, y
<1> QED
  BY <1>5, <1>6 DEF Levels, vs, m, c2

\* The new tasks find their names; the others still find theirs.
LEMMA ReadyFollows ==
  ASSUME NEW tr, NEW ts, NEW e, Good(tr, ts, e), ts # <<>>,
         NEW us \in Seq(TasksOf(tr)), NEW d \in Seq(Scopes), Fit(ts, us, e, d),
         NEW vis, Ready(tr, vis, ts, e), Ready(tr, vis, us, d),
         ts[1].do = "bind" => us = <<>> /\ Known(d, tr[ts[1].node].name)
  PROVE  Ready(tr, vis, Instead(ts, us), d)
<1> DEFINE vs == Instead(ts, us)
           m  == Len(us)
<1>1. /\ ts \in Seq(TasksOf(tr)) /\ Len(ts) \in Nat /\ Len(ts) # 0
      /\ m \in Nat /\ Len(e) \in Nat /\ Len(d) \in Nat
  BY DEF Good
<1>2. Levels(ts, us, e, d, vs)
  BY LevelsKept
<1> HIDE DEF vs
<1>3. /\ Len(vs) = m + (Len(ts) - 1)
      /\ \A p \in 1..m : vs[p] = us[p] /\ Closed(vs, p) = Closed(us, p)
      /\ \A q \in 2..Len(ts) :
           /\ vs[m + (q - 1)] = ts[q]
           /\ Len(d) - Closed(vs, m + (q - 1)) = Len(e) - Closed(ts, q)
           /\ Closed(vs, m + (q - 1)) = Closed(ts, q) + (Len(d) - Len(e))
           /\ Len(e) - Closed(ts, q) <= Len(e) - Closed(ts, 2)
  BY <1>2 DEF Levels
<1>4. \A l \in 1..Len(e) - Closed(ts, 2) : DOMAIN e[l] \subseteq DOMAIN d[l]
  BY DEF Fit
<1>5. \A q \in 1..Len(ts) + 1 : Closed(ts, q) \in Nat
  BY <1>1, ClosedNext
<1> SUFFICES ASSUME NEW p \in 1..Len(vs), vs[p].do \in {"visit", "open"},
                    NEW n \in vis[vs[p].node]
             PROVE  Bound(tr, vs, d, p, n)
  BY DEF Ready, ReadyAt, vs
<1>6. CASE p <= m
  <2>1. p \in 1..m
    BY <1>1, <1>6
  <2>2. vs[p] = us[p] /\ Closed(vs, p) = Closed(us, p)
    BY <1>3, <2>1
  <2>3. Bound(tr, us, d, p, n)
    BY <2>1, <2>2 DEF Ready, ReadyAt
  <2>4. CASE \E l \in 1..Len(d) - Closed(us, p) : n \in DOMAIN d[l]
    BY <2>2, <2>4 DEF Bound
  <2>5. CASE \E r \in 1..p - 1 : /\ us[r].do = "bind" /\ tr[us[r].node].name = n
                                 /\ Closed(us, r) = Closed(us, p)
    <3>1. PICK r \in 1..p - 1 : /\ us[r].do = "bind" /\ tr[us[r].node].name = n
                                /\ Closed(us, r) = Closed(us, p)
      BY <2>5
    <3>2. r \in 1..m
      BY <1>1, <2>1
    <3>3. vs[r] = us[r] /\ Closed(vs, r) = Closed(us, r)
      BY <1>3, <3>2
    <3> QED
      BY <2>2, <3>1, <3>3 DEF Bound
  <2> QED
    BY <2>3, <2>4, <2>5 DEF Bound
<1>7. CASE p > m
  <2> DEFINE q == p - m + 1
  <2>1. q \in 2..Len(ts) /\ q \in 1..Len(ts) /\ q \in 1..Len(ts) + 1 /\ m + (q - 1) = p
    BY <1>1, <1>3, <1>7
  <2> HIDE DEF q
  <2>2. /\ vs[p] = ts[q] /\ Len(d) - Closed(vs, p) = Len(e) - Closed(ts, q)
        /\ Closed(vs, p) = Closed(ts, q) + (Len(d) - Len(e))
        /\ Len(e) - Closed(ts, q) <= Len(e) - Closed(ts, 2)
    BY <1>3, <2>1
  <2>3. Bound(tr, ts, e, q, n)
    BY <2>1, <2>2 DEF Ready, ReadyAt
  <2>4. CASE \E l \in 1..Len(e) - Closed(ts, q) : n \in DOMAIN e[l]
    <3>1. PICK l \in 1..Len(e) - Closed(ts, q) : n \in DOMAIN e[l]
      BY <2>4
    <3>2. l \in 1..Len(e) - Closed(ts, 2) /\ l \in 1..Len(d) - Closed(vs, p)
      <4>1. Closed(ts, q) \in Nat /\ Closed(ts, 2) \in Nat
        <5>1. 2 \in 1..Len(ts) + 1
          BY <1>1
        <5> QED
          BY <1>5, <2>1, <5>1
      <4> QED
        BY <1>1, <2>2, <4>1
    <3> QED
      BY <1>4, <3>1, <3>2 DEF Bound
  <2>5. CASE \E r \in 1..q - 1 : /\ ts[r].do = "bind" /\ tr[ts[r].node].name = n
                                 /\ Closed(ts, r) = Closed(ts, q)
    <3>1. PICK r \in 1..q - 1 : /\ ts[r].do = "bind" /\ tr[ts[r].node].name = n
                                /\ Closed(ts, r) = Closed(ts, q)
      BY <2>5
    <3>2. CASE r # 1
      <4> DEFINE k == m + (r - 1)
      <4>1. r \in 2..Len(ts) /\ k \in 1..p - 1
        <5>1. /\ r \in Int /\ r >= 1 /\ r # 1 /\ r <= q - 1 /\ q \in Int
              /\ q <= Len(ts) /\ m \in Nat /\ p = m + (q - 1)
          BY <1>1, <2>1, <3>2
        <5>2. r \in 2..Len(ts)
          BY <1>1, <5>1
        <5>3. k \in Int /\ 1 <= k /\ k <= p - 1
          BY ONLY <5>1
        <5> QED
          BY <5>1, <5>2, <5>3
      <4>2. vs[k] = ts[r] /\ Closed(vs, k) = Closed(ts, r) + (Len(d) - Len(e))
        BY <1>3, <4>1
      <4>3. Closed(vs, k) = Closed(vs, p)
        BY <2>2, <3>1, <4>2
      <4> HIDE DEF k
      <4> QED
        BY <3>1, <4>1, <4>2, <4>3 DEF Bound
    <3>3. CASE r = 1
      <4>1. us = <<>> /\ Known(d, n)
        BY <3>1, <3>3
      <4>2. Closed(ts, q) = 0
        BY <1>1, <3>1, <3>3, ClosedNext
      <4>3. Len(d) = Len(e)
        <5>1. Closed(us, 1) = 0 /\ Closed(ts, 2) = 0 /\ m = 0
          <6>1. Closed(us, 1) = 0 /\ m = 0
            BY <4>1, ClosedNext DEF m
          <6>2. Closed(ts, 2) = 0
            BY <1>1, <3>1, <3>3, ClosedSecond
          <6> QED
            BY <6>1, <6>2
        <5>2. Len(d) - Closed(us, m + 1) = Len(e) - Closed(ts, 2)
          BY DEF Fit, m
        <5> QED
          BY <1>1, <5>1, <5>2
      <4>4. Len(d) - Closed(vs, p) = Len(d)
        BY <1>1, <2>2, <4>2, <4>3
      <4> QED
        BY <4>1, <4>4 DEF Bound, Known
    <3> QED
      BY <3>2, <3>3
  <2> QED
    BY <2>3, <2>4, <2>5 DEF Bound
<1> QED
  BY <1>1, <1>3, <1>6, <1>7

\* What a known node adds does not change when the tree grows.
LEMMA SameAdds ==
  ASSUME NEW tr, Tree(tr), NEW cs, Extends(tr, cs), NEW p \in 1..Len(tr),
         tr[p].kind # "open", NEW k
  PROVE  Adds(cs, p, k) = Adds(tr, p, k)
<1>1. /\ cs[p].kind = tr[p].kind /\ cs[p].kids = tr[p].kids
      /\ cs[p].name = tr[p].name /\ cs[p].par = tr[p].par
  BY DEF Extends
<1>2. Last(cs, p) = Last(tr, p)
  BY <1>1 DEF Last
<1>3. CASE tr[p].kind \in {"let", "letrec"}
  <2>1. ASSUME NEW j \in 1..Len(tr[p].kids) - 1
        PROVE  /\ cs[tr[p].kids[j]].name = tr[tr[p].kids[j]].name
               /\ cs[tr[p].kids[j]].kind = tr[tr[p].kids[j]].kind
    <3>1. Shape(tr, p) /\ Len(tr[p].kids) \in Nat
      BY KidsOf
    <3>2. tr[tr[p].kids[j]].kind \in Defs
      BY <1>3, <3>1 DEF Shape
    <3>3. j \in 1..Len(tr[p].kids)
      BY <3>1
    <3>4. tr[p].kids[j] \in 1..Len(tr)
      BY <3>3, KidsOf
    <3> QED
      BY <3>2, <3>4 DEF Extends, Defs
  <2> DEFINE Kids == tr[p].kids
             Is(n, t, j) == /\ t[Kids[j]].name = n
                            /\ \/ k = Last(tr, p)
                               \/ tr[p].kind = "letrec" /\ t[Kids[j]].kind = "fun"
  <2>2. \A n : \A j \in 1..Len(Kids) - 1 : Is(n, cs, j) <=> Is(n, tr, j)
    BY <2>1
  <2>3. tr[p].kind # "fun" /\ tr[p].kind # "for"
    BY <1>3
  <2>4. Adds(cs, p, k) = {n \in Names : \E j \in 1..Len(Kids) - 1 : Is(n, cs, j)}
    BY <1>1, <1>2, <1>3, <2>3 DEF Adds
  <2>5. Adds(tr, p, k) = {n \in Names : \E j \in 1..Len(Kids) - 1 : Is(n, tr, j)}
    BY <1>3, <2>3 DEF Adds
  <2> HIDE DEF Is
  <2> QED
    BY <2>2, <2>4, <2>5
<1>4. CASE tr[p].kind \notin {"let", "letrec"}
  BY <1>1, <1>2, <1>4 DEF Adds
<1> QED
  BY <1>3, <1>4

\* Old nodes see what they saw.
LEMMA VisibleExtends ==
  ASSUME NEW tr, Tree(tr), NEW cs, Tree(cs), Extends(tr, cs), Family(tr, cs),
         NEW vis, Visible(tr, vis)
  PROVE  \E w : Visible(cs, w) /\ \A m \in 1..Len(tr) : w[m] = vis[m]
<1> DEFINE P(m) == cs[m].parent
           New(m) == vis[P(m)] \cup Adds(cs, P(m), m)
           Newer(m) == New(P(m)) \cup Adds(cs, P(m), m)
           w == [m \in 1..Len(cs) |-> IF m <= Len(tr) THEN vis[m]
                                      ELSE IF P(m) <= Len(tr) THEN New(m) ELSE Newer(m)]
<1>1. /\ Len(tr) \in Nat /\ Len(cs) \in Nat /\ Len(tr) <= Len(cs)
      /\ \A m \in 1..Len(tr) : vis[m] \subseteq Names
  BY DEF Tree, Extends, Visible
<1>2. \A m \in 1..Len(cs) : P(m) \in Nat /\ P(m) < m
  BY NodeFields DEF Tree
<1>3. \A m, k : Adds(cs, m, k) \subseteq Names
  BY DEF Adds
<1>4. \A m \in Len(tr) + 1..Len(cs) :
        P(m) \in 1..m - 1 /\ (P(m) <= Len(tr) \/ P(P(m)) \in 1..Len(tr))
  BY DEF Family
<1> HIDE DEF P
<1>5. ASSUME NEW m \in 1..Len(tr) PROVE m \in 1..Len(cs) /\ w[m] = vis[m]
  <2>1. m \in 1..Len(cs) /\ m <= Len(tr)
    BY <1>1
  <2> QED
    BY <2>1
<1>6. ASSUME NEW m \in Len(tr) + 1..Len(cs)
      PROVE  /\ m \in 1..Len(cs) /\ w[m] \subseteq Names /\ P(m) # 0
             /\ w[m] = w[P(m)] \cup Adds(cs, P(m), m)
  <2>1. /\ m \in 1..Len(cs) /\ ~(m <= Len(tr)) /\ P(m) \in 1..m - 1 /\ P(m) \in 1..Len(cs)
        /\ P(m) # 0
    BY <1>1, <1>4
  <2>2. CASE P(m) <= Len(tr)
    <3>1. P(m) \in 1..Len(tr)
      BY <1>1, <2>1, <2>2
    <3>2. w[m] = New(m) /\ w[P(m)] = vis[P(m)]
      BY <1>5, <2>1, <2>2, <3>1
    <3> QED
      BY <1>1, <1>3, <2>1, <3>1, <3>2
  <2>3. CASE ~(P(m) <= Len(tr))
    <3>1. P(P(m)) \in 1..Len(tr) /\ P(P(m)) <= Len(tr)
      BY <1>1, <1>4, <2>3
    <3>2. w[m] = Newer(m) /\ w[P(m)] = New(P(m))
      BY <2>1, <2>3, <3>1
    <3>3. vis[P(P(m))] \subseteq Names
      BY <1>1, <3>1
    <3> QED
      BY <1>3, <2>1, <3>2, <3>3
  <2> QED
    BY <2>2, <2>3
<1>7. ASSUME NEW m \in 1..Len(tr)
      PROVE  /\ w[m] \subseteq Names
             /\ w[m] = IF P(m) = 0 THEN Libs ELSE w[P(m)] \cup Adds(cs, P(m), m)
  <2>1. w[m] = vis[m] /\ vis[m] \subseteq Names /\ P(m) = tr[m].parent
    BY <1>1, <1>5 DEF Extends, P
  <2>2. vis[m] = IF P(m) = 0 THEN Libs ELSE vis[P(m)] \cup Adds(tr, P(m), m)
    BY <2>1 DEF Visible
  <2>3. CASE P(m) = 0
    BY <2>1, <2>2, <2>3
  <2>4. CASE P(m) # 0
    <3>1. P(m) \in 1..Len(tr)
      <4>1. m \in 1..Len(cs)
        BY <1>5
      <4>2. P(m) \in Nat /\ P(m) < m
        BY <1>2, <4>1 DEF P
      <4> QED
        BY <1>1, <2>4, <4>2
    <3>2. tr[P(m)].kind # "open"
      BY <2>1, <2>4 DEF Tree
    <3>3. Adds(cs, P(m), m) = Adds(tr, P(m), m)
      BY <3>1, <3>2, SameAdds
    <3>4. w[P(m)] = vis[P(m)]
      BY <1>5, <3>1
    <3> QED
      BY <2>1, <2>2, <2>4, <3>3, <3>4
  <2> QED
    BY <2>3, <2>4
<1>8. \A m \in 1..Len(cs) : m \in 1..Len(tr) \/ m \in Len(tr) + 1..Len(cs)
  BY <1>1
<1>9. w = [m \in 1..Len(cs) |-> w[m]]
  OBVIOUS
<1> HIDE DEF w
<1>10. \A m \in 1..Len(cs) :
         /\ w[m] \subseteq Names
         /\ w[m] = IF P(m) = 0 THEN Libs ELSE w[P(m)] \cup Adds(cs, P(m), m)
  BY <1>6, <1>7, <1>8
<1>11. w \in [1..Len(cs) -> SUBSET Names]
  BY <1>9, <1>10
<1>12. Visible(cs, w)
  BY <1>10, <1>11 DEF Visible, P
<1> QED
  BY <1>5, <1>12

\* And the tasks find what they found.
LEMMA ReadyExtends ==
  ASSUME NEW tr, NEW cs, NEW ts, NEW e, Good(tr, ts, e), Extends(tr, cs),
         NEW vis, Ready(tr, vis, ts, e),
         NEW w, \A m \in 1..Len(tr) : w[m] = vis[m]
  PROVE  Ready(cs, w, ts, e)
<1>1. \A q \in 1..Len(ts) :
        /\ ts[q].node \in 1..Len(tr)
        /\ ts[q].do = "bind" => tr[ts[q].node].kind \in Defs
  BY DEF Good, TasksOf
<1>2. \A q \in 1..Len(ts) :
        ts[q].do = "bind" => cs[ts[q].node].name = tr[ts[q].node].name
  BY <1>1 DEF Extends, Defs
<1>3. Len(ts) \in Nat
  BY DEF Good
<1> SUFFICES ASSUME NEW q \in 1..Len(ts), ts[q].do \in {"visit", "open"},
                    NEW n \in w[ts[q].node]
             PROVE  Bound(cs, ts, e, q, n)
  BY DEF Ready, ReadyAt
<1>4. n \in vis[ts[q].node]
  BY <1>1
<1>5. Bound(tr, ts, e, q, n)
  BY <1>4 DEF Ready, ReadyAt
<1>6. \A r \in 1..q - 1 : r \in 1..Len(ts)
  BY <1>3
<1> QED
  BY <1>2, <1>5, <1>6 DEF Bound

\* Each task finds the names that are visible where it works.
Finds(tr, ts, e) == \E vis : Visible(tr, vis) /\ Ready(tr, vis, ts, e)

\* That is so still when the tree has grown.
LEMMA FindsExtends ==
  ASSUME NEW tr, NEW cs, NEW ts, NEW e, Good(tr, ts, e), Tree(cs), Extends(tr, cs),
         Family(tr, cs), Finds(tr, ts, e)
  PROVE  Finds(cs, ts, e)
<1>1. PICK vis : Visible(tr, vis) /\ Ready(tr, vis, ts, e)
  BY DEF Finds
<1>2. Tree(tr)
  BY DEF Good
<1>3. PICK w : Visible(cs, w) /\ \A m \in 1..Len(tr) : w[m] = vis[m]
  BY <1>1, <1>2, VisibleExtends
<1>4. Ready(cs, w, ts, e)
  BY <1>1, <1>3, ReadyExtends
<1> QED
  BY <1>3, <1>4 DEF Finds

\* What a subexpression sees.
LEMMA VisibleKid ==
  ASSUME NEW tr, Tree(tr), NEW vis, Visible(tr, vis), NEW i \in 1..Len(tr),
         NEW k \in 1..Len(tr), tr[k].parent = i
  PROVE  vis[k] = vis[i] \cup Adds(tr, i, k)
BY DEF Visible

\* The tasks us at node i find the names of their nodes: they are visible at
\* i, or in s, or bound by an earlier one of us.
Enough(tr, i, us, s) ==
  \A vis : Visible(tr, vis) =>
    \A q \in 1..Len(us) : us[q].do \in {"visit", "open"} =>
      \A n \in vis[us[q].node] :
        n \in vis[i] \/ n \in s
          \/ \E r \in 1..q - 1 : us[r].do = "bind" /\ tr[us[r].node].name = n

\* The first task finds its names in the table.
LEMMA KnownNow ==
  ASSUME NEW tr, NEW ts, NEW e, Good(tr, ts, e), ts # <<>>, NEW vis,
         Ready(tr, vis, ts, e), ts[1].do \in {"visit", "open"}
  PROVE  \A n \in vis[ts[1].node] : Known(e, n)
<1>1. ts \in Seq(TasksOf(tr)) /\ Len(ts) \in Nat /\ Len(ts) # 0 /\ Len(e) \in Nat
  BY DEF Good
<1>2. Closed(ts, 1) = 0
  BY <1>1, ClosedNext
<1>3. 1 \in 1..Len(ts)
  BY <1>1
<1> SUFFICES ASSUME NEW n \in vis[ts[1].node] PROVE Known(e, n)
  OBVIOUS
<1>4. Bound(tr, ts, e, 1, n)
  BY <1>3 DEF Ready, ReadyAt
<1>5. 1..1 - 1 = {} /\ Len(e) - Closed(ts, 1) = Len(e)
  BY <1>1, <1>2
<1> QED
  BY <1>4, <1>5 DEF Bound, Known

\* Tasks that find what they need, before a scope is closed.
LEMMA EnoughReady ==
  ASSUME NEW tr, NEW us \in Seq(TasksOf(tr)), NEW d \in Seq(Scopes), NEW vis,
         Visible(tr, vis), NEW i, NEW s, Enough(tr, i, us, s),
         \A n \in vis[i] : Known(d, n), \A n \in s : Known(d, n),
         \A q \in 1..Len(us) : us[q].do = "close" => q = Len(us)
  PROVE  Ready(tr, vis, us, d)
<1>1. Len(us) \in Nat /\ Len(d) \in Nat
  OBVIOUS
<1>2. ASSUME NEW q \in 1..Len(us) PROVE Closed(us, q) = 0
  <2>1. Closing(us, q) = {}
    <3>1. \A r \in 1..q - 1 : r \in 1..Len(us) /\ r # Len(us)
      BY <1>1
    <3> QED
      BY <3>1 DEF Closing
  <2> QED
    BY <2>1, FS_EmptySet DEF Closed
<1> SUFFICES ASSUME NEW q \in 1..Len(us), us[q].do \in {"visit", "open"},
                    NEW n \in vis[us[q].node]
             PROVE  Bound(tr, us, d, q, n)
  BY DEF Ready, ReadyAt
<1>3. Len(d) - Closed(us, q) = Len(d)
  BY <1>1, <1>2
<1>4. \/ n \in vis[i] \/ n \in s
      \/ \E r \in 1..q - 1 : us[r].do = "bind" /\ tr[us[r].node].name = n
  BY DEF Enough
<1>5. CASE n \in vis[i] \/ n \in s
  <2>1. Known(d, n)
    BY <1>5
  <2> QED
    BY <1>3, <2>1 DEF Known, Bound
<1>6. CASE \E r \in 1..q - 1 : us[r].do = "bind" /\ tr[us[r].node].name = n
  <2>1. PICK r \in 1..q - 1 : us[r].do = "bind" /\ tr[us[r].node].name = n
    BY <1>6
  <2>2. r \in 1..Len(us)
    BY <1>1
  <2>3. Closed(us, r) = Closed(us, q)
    BY <1>2, <2>2
  <2> QED
    BY <2>1, <2>3 DEF Bound
<1> QED
  BY <1>4, <1>5, <1>6

\* A step that leaves the scopes open keeps what is known.
LEMMA PlainMove ==
  ASSUME NEW tr, NEW ts, NEW e, Good(tr, ts, e), ts # <<>>,
         ts[1].do \in {"visit", "open"}, NEW us \in Seq(TasksOf(tr)), NoClose(us),
         Enough(tr, ts[1].node, us, {}), Finds(tr, ts, e)
  PROVE  Finds(tr, Instead(ts, us), e)
<1>1. PICK vis : Visible(tr, vis) /\ Ready(tr, vis, ts, e)
  BY DEF Finds
<1>2. e \in Seq(Scopes) /\ Covers(e, e)
  BY DEF Good, Covers
<1>3. Fit(ts, us, e, e)
  BY <1>2, PlainStep
<1>4. \A n \in vis[ts[1].node] : Known(e, n)
  BY <1>1, KnownNow
<1>5. Ready(tr, vis, us, e)
  BY <1>1, <1>2, <1>4, EnoughReady DEF NoClose
<1>6. ts[1].do # "bind"
  OBVIOUS
<1>7. Ready(tr, vis, Instead(ts, us), e)
  BY <1>1, <1>2, <1>3, <1>5, <1>6, ReadyFollows
<1> QED
  BY <1>1, <1>7 DEF Finds

\* So does one that opens a scope for the task a.
LEMMA OpenMove ==
  ASSUME NEW tr, NEW ts, NEW e, Good(tr, ts, e), ts # <<>>,
         ts[1].do \in {"visit", "open"},
         NEW a, NEW b, <<a, b>> \in Seq(TasksOf(tr)), a.do # "close", b.do = "close",
         NEW s \in Scopes, OpenedFor(tr[b.node]) \in DOMAIN s,
         Enough(tr, ts[1].node, <<a, b>>, DOMAIN s), Finds(tr, ts, e)
  PROVE  Finds(tr, Instead(ts, <<a, b>>), Append(e, s))
<1> DEFINE us == <<a, b>>
           d == Append(e, s)
<1>1. PICK vis : Visible(tr, vis) /\ Ready(tr, vis, ts, e)
  BY DEF Finds
<1>2. /\ e \in Seq(Scopes) /\ d \in Seq(Scopes) /\ Len(e) \in Nat /\ Len(d) = Len(e) + 1
      /\ d[Len(e) + 1] = s /\ \A l \in 1..Len(e) : d[l] = e[l]
  BY DEF Good
<1>3. Fit(ts, us, e, d)
  BY OpenStep
<1>4. \A n \in vis[ts[1].node] : Known(e, n)
  BY <1>1, KnownNow
<1>5. Len(us) = 2 /\ us[1] = a /\ us[2] = b /\ us \in Seq(TasksOf(tr))
  OBVIOUS
<1> HIDE DEF us, d
<1>6. \A n \in vis[ts[1].node] : Known(d, n)
  <2>1. \A l \in 1..Len(e) : l \in 1..Len(d)
    BY <1>2
  <2> QED
    BY <1>2, <1>4, <2>1 DEF Known
<1>7. \A n \in DOMAIN s : Known(d, n)
  <2>1. Len(e) + 1 \in 1..Len(d)
    BY <1>2
  <2> QED
    BY <1>2, <2>1 DEF Known
<1>8. \A q \in 1..Len(us) : us[q].do = "close" => q = Len(us)
  BY <1>5
<1>9. Enough(tr, ts[1].node, us, DOMAIN s)
  BY DEF us
<1>10. Ready(tr, vis, us, d)
  BY <1>1, <1>2, <1>5, <1>6, <1>7, <1>8, <1>9, EnoughReady
<1>11. ts[1].do # "bind"
  OBVIOUS
<1>12. Ready(tr, vis, Instead(ts, us), d)
  BY <1>1, <1>2, <1>3, <1>5, <1>10, <1>11, ReadyFollows
<1> QED
  BY <1>1, <1>12 DEF Finds, us, d

\* So does one that only finishes its task, if it is not to bind a name that
\* it does not bind.
LEMMA EndMove ==
  ASSUME NEW tr, NEW ts, NEW e, Good(tr, ts, e), ts # <<>>, NEW d \in Seq(Scopes),
         Fit(ts, <<>>, e, d), Finds(tr, ts, e),
         ts[1].do = "bind" => Known(d, tr[ts[1].node].name)
  PROVE  Finds(tr, Instead(ts, <<>>), d)
<1>1. PICK vis : Visible(tr, vis) /\ Ready(tr, vis, ts, e)
  BY DEF Finds
<1> DEFINE us == <<>>
<1>2. us \in Seq(TasksOf(tr)) /\ Len(us) = 0
  OBVIOUS
<1>3. Ready(tr, vis, us, d)
  BY <1>2 DEF Ready
<1>4. Ready(tr, vis, Instead(ts, us), d)
  <2>1. Fit(ts, us, e, d) /\ (ts[1].do = "bind" => us = <<>> /\ Known(d, tr[ts[1].node].name))
    OBVIOUS
  <2> HIDE DEF us
  <2> QED
    BY <1>1, <1>2, <1>3, <2>1, ReadyFollows
<1> QED
  BY <1>1, <1>4 DEF Finds

\* The names that the tasks us bind.
BoundBy(tr, us) == {n \in Names : \E r \in 1..Len(us) :
                                    us[r].do = "bind" /\ tr[us[r].node].name = n}

\* What the tasks us bind is there for those after them.
LEMMA EnoughJoined ==
  ASSUME NEW tr, Tree(tr), NEW i, NEW s, NEW us \in Seq(TasksOf(tr)),
         NEW vs \in Seq(TasksOf(tr)), Enough(tr, i, us, s),
         Enough(tr, i, vs, s \cup BoundBy(tr, us))
  PROVE  Enough(tr, i, us \o vs, s)
<1> DEFINE ws == us \o vs
           m == Len(us)
<1>1. JoinOf(us, vs, ws)
  BY Joined
<1>2. m \in Nat /\ Len(vs) \in Nat
  OBVIOUS
<1> HIDE DEF ws
<1>3. /\ Len(ws) = m + Len(vs)
      /\ \A q \in 1..m : ws[q] = us[q]
      /\ \A q \in 1..Len(vs) : ws[m + q] = vs[q]
  BY <1>1 DEF JoinOf
<1> HIDE DEF m
<1> SUFFICES ASSUME NEW vis, Visible(tr, vis), NEW p \in 1..Len(ws),
                    ws[p].do \in {"visit", "open"}, NEW n \in vis[ws[p].node]
             PROVE  n \in vis[i] \/ n \in s
                      \/ \E r \in 1..p - 1 : ws[r].do = "bind" /\ tr[ws[r].node].name = n
  BY DEF Enough, ws
<1>4. CASE p <= m
  <2>1. p \in 1..m /\ ws[p] = us[p]
    BY <1>2, <1>3, <1>4
  <2>2. n \in vis[i] \/ n \in s
          \/ \E r \in 1..p - 1 : us[r].do = "bind" /\ tr[us[r].node].name = n
    BY <2>1 DEF Enough, m
  <2>3. \A r \in 1..p - 1 : ws[r] = us[r]
    BY <1>2, <1>3, <2>1
  <2> QED
    BY <2>2, <2>3
<1>5. CASE p > m
  <2> DEFINE q == p - m
  <2>1. q \in 1..Len(vs) /\ m + q = p
    BY <1>2, <1>3, <1>5
  <2> HIDE DEF q
  <2>2. ws[p] = vs[q]
    BY <1>3, <2>1
  <2>3. n \in vis[i] \/ n \in s \cup BoundBy(tr, us)
          \/ \E r \in 1..q - 1 : vs[r].do = "bind" /\ tr[vs[r].node].name = n
    BY <2>1, <2>2 DEF Enough
  <2>4. CASE n \in BoundBy(tr, us)
    <3>1. PICK r \in 1..m : us[r].do = "bind" /\ tr[us[r].node].name = n
      BY <2>4 DEF BoundBy, m
    <3>2. r \in 1..p - 1 /\ ws[r] = us[r]
      BY <1>2, <1>3, <1>5, <3>1
    <3> QED
      BY <3>1, <3>2
  <2>5. CASE \E r \in 1..q - 1 : vs[r].do = "bind" /\ tr[vs[r].node].name = n
    <3>1. PICK r \in 1..q - 1 : vs[r].do = "bind" /\ tr[vs[r].node].name = n
      BY <2>5
    <3>2. r \in 1..Len(vs) /\ m + r \in 1..p - 1
      BY <1>2, <2>1, <3>1
    <3>3. ws[m + r] = vs[r]
      BY <1>3, <3>2
    <3> QED
      BY <3>1, <3>2, <3>3
  <2> QED
    BY <2>3, <2>4, <2>5
<1> QED
  BY <1>2, <1>3, <1>4, <1>5

\* Both parts bind their names.
LEMMA BoundByJoined ==
  ASSUME NEW tr, NEW T, NEW us \in Seq(T), NEW vs \in Seq(T)
  PROVE  BoundBy(tr, us) \cup BoundBy(tr, vs) \subseteq BoundBy(tr, us \o vs)
<1> DEFINE ws == us \o vs
<1>1. JoinOf(us, vs, ws)
  BY Joined
<1>2. Len(us) \in Nat /\ Len(vs) \in Nat
  OBVIOUS
<1> HIDE DEF ws
<1>3. \A r \in 1..Len(us) : r \in 1..Len(ws) /\ ws[r] = us[r]
  BY <1>1, <1>2 DEF JoinOf
<1>4. \A r \in 1..Len(vs) : Len(us) + r \in 1..Len(ws) /\ ws[Len(us) + r] = vs[r]
  BY <1>1, <1>2 DEF JoinOf
<1>5. BoundBy(tr, us) \subseteq BoundBy(tr, ws)
  BY <1>3 DEF BoundBy
<1>6. BoundBy(tr, vs) \subseteq BoundBy(tr, ws)
  BY <1>4 DEF BoundBy
<1> QED
  BY <1>5, <1>6 DEF ws

\* Visits to nodes that see no more than is known.
LEMMA EnoughVisits ==
  ASSUME NEW tr, NEW i, NEW s, NEW us,
         \A q \in 1..Len(us) : us[q].do \in {"visit", "open"} =>
           \A vis : Visible(tr, vis) => vis[us[q].node] \subseteq vis[i] \cup s
  PROVE  Enough(tr, i, us, s)
BY DEF Enough

\* Binding needs no names, and binds those of its nodes.
LEMMA EachBinds ==
  ASSUME NEW tr, Tree(tr), NEW ks \in Seq(1..Len(tr)),
         \A j \in 1..Len(ks) : tr[ks[j]].kind \in Defs, NEW i, NEW s
  PROVE  /\ Enough(tr, i, Each("bind", ks), s)
         /\ \A j \in 1..Len(ks) : tr[ks[j]].name \in BoundBy(tr, Each("bind", ks))
<1> DEFINE us == Each("bind", ks)
<1>1. EachOf("bind", ks, us)
  <2>1. "bind" \in {"visit", "decl", "define", "bind"}
    OBVIOUS
  <2> QED
    BY <2>1, EachTask
<1> HIDE DEF us
<1>2. Len(us) = Len(ks) /\ \A j \in 1..Len(ks) : us[j].do = "bind" /\ us[j].node = ks[j]
  BY <1>1 DEF EachOf
<1>3. Enough(tr, i, us, s)
  BY <1>2 DEF Enough
<1>4. ASSUME NEW j \in 1..Len(ks) PROVE tr[ks[j]].name \in BoundBy(tr, us)
  <2>1. ks[j] \in 1..Len(tr)
    OBVIOUS
  <2>2. tr[ks[j]].name \in Names
    BY <2>1, NodeFields DEF Tree
  <2> QED
    BY <1>2, <2>2 DEF BoundBy
<1> QED
  BY <1>3, <1>4 DEF us

\* Which names the kinds of nodes add.
LEMMA AddsWhat ==
  ASSUME NEW tr, Tree(tr), NEW i \in 1..Len(tr), NEW k \in 1..Len(tr)
  PROVE  /\ tr[i].kind \notin {"let", "letrec", "fun", "for"} => Adds(tr, i, k) = {}
         /\ tr[i].kind = "for" =>
              Adds(tr, i, k) \subseteq {tr[i].name} /\ (k # Last(tr, i) => Adds(tr, i, k) = {})
         /\ tr[i].kind = "fun" => Adds(tr, i, k) \subseteq {tr[i].par}
         /\ tr[i].kind = "let" /\ tr[k].kind \in Defs => Adds(tr, i, k) = {}
<1>1. tr[i].kind = "let" /\ tr[k].kind \in Defs => k # Last(tr, i)
  BY LetKids
<1> QED
  BY <1>1 DEF Adds

\* A let adds the names of its definitions; for the definitions themselves
\* those of the functions, if it is recursive.
LEMMA AddsOfLet ==
  ASSUME NEW tr, Tree(tr), NEW i \in 1..Len(tr), tr[i].kind \in {"let", "letrec"},
         NEW k \in 1..Len(tr), NEW n \in Adds(tr, i, k)
  PROVE  \E j \in 1..Len(Front(tr, i)) :
           /\ tr[Front(tr, i)[j]].name = n
           /\ k # Last(tr, i) => tr[Front(tr, i)[j]].kind = "fun"
<1>1. PICK j \in 1..Len(tr[i].kids) - 1 :
        /\ tr[tr[i].kids[j]].name = n
        /\ k = Last(tr, i) \/ tr[tr[i].kids[j]].kind = "fun"
  BY DEF Adds
<1>2. j \in 1..Len(Front(tr, i)) /\ Front(tr, i)[j] = tr[i].kids[j]
  BY LetKids
<1> QED
  BY <1>1, <1>2

\* The tasks us suit node i: they find their names, if those of s are known.
Serves(tr, i, us, s) ==
  us \in Seq(TasksOf(tr)) /\ NoClose(us) /\ Enough(tr, i, us, s)

\* First some, then others.
LEMMA ServesJoined ==
  ASSUME NEW tr, Tree(tr), NEW i, NEW s, NEW us, NEW vs, Serves(tr, i, us, s),
         Serves(tr, i, vs, s \cup BoundBy(tr, us))
  PROVE  Serves(tr, i, us \o vs, s)
<1>1. us \in Seq(TasksOf(tr)) /\ vs \in Seq(TasksOf(tr)) /\ NoClose(us) /\ NoClose(vs)
  BY DEF Serves
<1>2. us \o vs \in Seq(TasksOf(tr))
  BY <1>1
<1>3. NoClose(us \o vs)
  BY <1>1, NoCloseJoined
<1>4. Enough(tr, i, us, s) /\ Enough(tr, i, vs, s \cup BoundBy(tr, us))
  BY DEF Serves
<1>5. Enough(tr, i, us \o vs, s)
  BY <1>1, <1>4, EnoughJoined
<1> QED
  BY <1>2, <1>3, <1>5 DEF Serves

\* The body of a let finds its names when the definitions are bound.
LEMMA BodyFinds ==
  ASSUME NEW tr, Tree(tr), NEW i \in 1..Len(tr), tr[i].kind \in {"let", "letrec"}, NEW s,
         \A j \in 1..Len(Front(tr, i)) : tr[Front(tr, i)[j]].name \in s
  PROVE  Serves(tr, i, <<Visit(Last(tr, i))>>, s)
<1> DEFINE b == Last(tr, i)
           us == <<Visit(b)>>
<1>1. b \in 1..Len(tr) /\ tr[b].parent = i
  BY LastKid
<1>2. Visit(b) \in TasksOf(tr) /\ Visit(b).do = "visit" /\ Visit(b).node = b
  <2>1. "visit" \in Tasks
    BY DEF Tasks
  <2> QED
    BY <1>1, <2>1, TaskOf DEF Visit
<1>3. us \in Seq(TasksOf(tr)) /\ Len(us) = 1 /\ us[1] = Visit(b)
  BY <1>2, OneTask
<1> HIDE DEF us
<1>4. \A q \in 1..Len(us) : us[q].do = "visit" /\ us[q].node = b
  BY <1>2, <1>3
<1>5. ASSUME NEW vis, Visible(tr, vis) PROVE vis[b] \subseteq vis[i] \cup s
  <2>1. vis[b] = vis[i] \cup Adds(tr, i, b)
    BY <1>1, <1>5, VisibleKid
  <2>2. Adds(tr, i, b) \subseteq s
    BY <1>1, AddsOfLet
  <2> QED
    BY <2>1, <2>2
<1>6. Enough(tr, i, us, s)
  BY <1>4, <1>5, EnoughVisits
<1>7. NoClose(us)
  BY <1>4 DEF NoClose
<1> QED
  BY <1>3, <1>6, <1>7 DEF us, Serves

\* So do its definitions, when those of the functions are, if there need be.
LEMMA DefsFind ==
  ASSUME NEW tr, Tree(tr), NEW i \in 1..Len(tr), tr[i].kind \in {"let", "letrec"}, NEW s,
         tr[i].kind = "letrec" =>
           \A j \in 1..Len(Front(tr, i)) :
             tr[Front(tr, i)[j]].kind = "fun" => tr[Front(tr, i)[j]].name \in s
  PROVE  Serves(tr, i, Each("visit", Front(tr, i)), s)
<1> DEFINE fs == Front(tr, i)
           us == Each("visit", fs)
<1>1. /\ fs \in Seq(1..Len(tr)) /\ tr[Last(tr, i)].kind \notin Defs
      /\ \A j \in 1..Len(fs) : /\ j \in 1..Len(tr[i].kids) /\ fs[j] = tr[i].kids[j]
                               /\ tr[fs[j]].kind \in Defs
  BY LetKids
<1>2. us \in Seq(TasksOf(tr)) /\ EachOf("visit", fs, us) /\ NoClose(us)
  <2>1. "visit" \in {"visit", "decl", "define", "bind"} /\ "visit" # "bind"
    OBVIOUS
  <2> QED
    BY <1>1, <2>1, EachTask
<1> HIDE DEF us
<1>3. ASSUME NEW q \in 1..Len(us), NEW vis, Visible(tr, vis)
      PROVE  vis[us[q].node] \subseteq vis[i] \cup s
  <2>1. q \in 1..Len(fs) /\ us[q].node = fs[q]
    BY <1>2 DEF EachOf
  <2> DEFINE k == fs[q]
  <2>2. k \in 1..Len(tr) /\ tr[k].parent = i /\ tr[k].kind \in Defs /\ k # Last(tr, i)
    <3>1. q \in 1..Len(tr[i].kids) /\ k = tr[i].kids[q] /\ tr[k].kind \in Defs
      BY <1>1, <2>1
    <3>2. k \in 1..Len(tr) /\ tr[k].parent = i
      BY <3>1, KidsOf
    <3> QED
      BY <1>1, <3>1, <3>2
  <2> HIDE DEF k
  <2>3. vis[k] = vis[i] \cup Adds(tr, i, k)
    BY <1>3, <2>2, VisibleKid
  <2>4. CASE tr[i].kind = "let"
    BY <2>1, <2>2, <2>3, <2>4, AddsWhat DEF k
  <2>5. CASE tr[i].kind = "letrec"
    <3>1. Adds(tr, i, k) \subseteq s
      <4> SUFFICES ASSUME NEW n \in Adds(tr, i, k) PROVE n \in s
        OBVIOUS
      <4>1. PICK j \in 1..Len(Front(tr, i)) : /\ tr[Front(tr, i)[j]].name = n
                                              /\ tr[Front(tr, i)[j]].kind = "fun"
        BY <2>2, AddsOfLet
      <4> QED
        BY <2>5, <4>1
    <3> QED
      BY <2>1, <2>3, <3>1 DEF k
  <2> QED
    BY <2>4, <2>5
<1>4. Enough(tr, i, us, s)
  BY <1>3, EnoughVisits
<1> QED
  BY <1>2, <1>4 DEF us, Serves

\* Binding some of the definitions.
LEMMA BindsFind ==
  ASSUME NEW tr, Tree(tr), NEW i \in 1..Len(tr), NEW ks \in Seq(1..Len(tr)),
         \A j \in 1..Len(ks) : tr[ks[j]].kind \in Defs
  PROVE  /\ \A s : Serves(tr, i, Each("bind", ks), s)
         /\ \A j \in 1..Len(ks) : tr[ks[j]].name \in BoundBy(tr, Each("bind", ks))
<1>1. "bind" \in {"visit", "decl", "define", "bind"}
  OBVIOUS
<1>2. Each("bind", ks) \in Seq(TasksOf(tr)) /\ NoClose(Each("bind", ks))
  BY <1>1, EachTask
<1> QED
  BY <1>2, EachBinds DEF Serves

\* The tasks that a let becomes in codegen().
LEMMA LetFinds ==
  ASSUME NEW tr, Tree(tr), NEW i \in 1..Len(tr), tr[i].kind = "let",
         NEW us, us = Each("visit", Front(tr, i)) \o Each("bind", Front(tr, i))
                        \o <<Visit(Last(tr, i))>>
  PROVE  Serves(tr, i, us, {})
<1> DEFINE fs == Front(tr, i)
           V == Each("visit", fs)
           B == Each("bind", fs)
           L == <<Visit(Last(tr, i))>>
           W == V \o B
<1>1. Serves(tr, i, V, {})
  BY DefsFind
<1>2. fs \in Seq(1..Len(tr)) /\ \A j \in 1..Len(fs) : tr[fs[j]].kind \in Defs
  BY LetKids
<1>3. /\ \A s : Serves(tr, i, B, s)
      /\ \A j \in 1..Len(fs) : tr[fs[j]].name \in BoundBy(tr, B)
  BY <1>2, BindsFind
<1>4. Serves(tr, i, L, BoundBy(tr, W))
  <2>1. BoundBy(tr, B) \subseteq BoundBy(tr, W)
    <3>1. V \in Seq(TasksOf(tr)) /\ B \in Seq(TasksOf(tr))
      BY <1>1, <1>3 DEF Serves
    <3> HIDE DEF V, B
    <3> QED
      BY <3>1, BoundByJoined
  <2>2. \A j \in 1..Len(Front(tr, i)) : tr[Front(tr, i)[j]].name \in BoundBy(tr, W)
    BY <1>3, <2>1
  <2> HIDE DEF W
  <2> QED
    BY <2>2, BodyFinds
<1>5. us = W \o L
  OBVIOUS
<1> HIDE DEF V, B, L
<1>6. Serves(tr, i, W, {})
  <2>1. Serves(tr, i, B, {} \cup BoundBy(tr, V))
    BY <1>3
  <2> QED
    BY <1>1, <2>1, ServesJoined
<1> HIDE DEF W
<1>7. Serves(tr, i, L, {} \cup BoundBy(tr, W))
  <2>1. {} \cup BoundBy(tr, W) = BoundBy(tr, W)
    OBVIOUS
  <2> QED
    BY <1>4, <2>1
<1> QED
  BY <1>5, <1>6, <1>7, ServesJoined

\* Of a letrec: first the functions S are bound, the others R after all
\* definitions.
LEMMA LetRecFinds ==
  ASSUME NEW tr, Tree(tr), NEW i \in 1..Len(tr), tr[i].kind = "letrec",
         NEW S, \A d \in 1..Len(tr) : tr[d].kind = "fun" => d \in S,
         NEW R, \A d \in 1..Len(tr) : d \in S \/ d \in R,
         NEW us, us = Each("bind", Only(Front(tr, i), S)) \o Each("visit", Front(tr, i))
                        \o Each("bind", Only(Front(tr, i), R)) \o <<Visit(Last(tr, i))>>
  PROVE  Serves(tr, i, us, {})
<1> DEFINE fs == Front(tr, i)
           A == Each("bind", Only(fs, S))
           V == Each("visit", fs)
           B == Each("bind", Only(fs, R))
           L == <<Visit(Last(tr, i))>>
           AV == A \o V
           W == AV \o B
<1>1. /\ \A s : Serves(tr, i, A, s) /\ Serves(tr, i, B, s)
      /\ \A j \in 1..Len(fs) :
           /\ fs[j] \in S => tr[fs[j]].name \in BoundBy(tr, A)
           /\ fs[j] \in R => tr[fs[j]].name \in BoundBy(tr, B)
  <2>1. ASSUME NEW X
        PROVE  /\ \A s : Serves(tr, i, Each("bind", Only(fs, X)), s)
               /\ \A j \in 1..Len(fs) : fs[j] \in X =>
                    tr[fs[j]].name \in BoundBy(tr, Each("bind", Only(fs, X)))
    <3> DEFINE ks == Only(fs, X)
    <3>1. /\ ks \in Seq(1..Len(tr)) /\ OnlyOf(fs, Len(fs), X, ks)
          /\ \A j \in 1..Len(ks) : tr[ks[j]].kind \in Defs
      BY OnlyDefs
    <3> HIDE DEF ks
    <3>2. /\ \A s : Serves(tr, i, Each("bind", ks), s)
          /\ \A j \in 1..Len(ks) : tr[ks[j]].name \in BoundBy(tr, Each("bind", ks))
      BY <3>1, BindsFind
    <3>3. \A j \in 1..Len(fs) : fs[j] \in X => \E m \in 1..Len(ks) : ks[m] = fs[j]
      BY <3>1 DEF OnlyOf
    <3> HIDE DEF fs
    <3>4. \A j \in 1..Len(fs) : fs[j] \in X =>
            tr[fs[j]].name \in BoundBy(tr, Each("bind", ks))
      BY <3>2, <3>3
    <3> QED
      BY <3>2, <3>4 DEF ks
  <2> HIDE DEF fs
  <2>2. /\ \A s : Serves(tr, i, A, s)
        /\ \A j \in 1..Len(fs) : fs[j] \in S => tr[fs[j]].name \in BoundBy(tr, A)
    BY <2>1
  <2>3. /\ \A s : Serves(tr, i, B, s)
        /\ \A j \in 1..Len(fs) : fs[j] \in R => tr[fs[j]].name \in BoundBy(tr, B)
    BY <2>1
  <2> HIDE DEF A, B
  <2> QED
    BY <2>2, <2>3
<1>2. \A j \in 1..Len(fs) : fs[j] \in 1..Len(tr)
  BY LetKids
<1>3. Serves(tr, i, V, BoundBy(tr, A))
  <2>1. \A j \in 1..Len(Front(tr, i)) :
          tr[Front(tr, i)[j]].kind = "fun" => tr[Front(tr, i)[j]].name \in BoundBy(tr, A)
    BY <1>1, <1>2
  <2> HIDE DEF A
  <2> QED
    BY <2>1, DefsFind
<1>4. Serves(tr, i, L, BoundBy(tr, W))
  <2>1. BoundBy(tr, A) \cup BoundBy(tr, B) \subseteq BoundBy(tr, W)
    <3>1. /\ A \in Seq(TasksOf(tr)) /\ V \in Seq(TasksOf(tr)) /\ B \in Seq(TasksOf(tr))
      BY <1>1, <1>3 DEF Serves
    <3> HIDE DEF A, V, B
    <3>2. AV \in Seq(TasksOf(tr)) /\ BoundBy(tr, A) \subseteq BoundBy(tr, AV)
      BY <3>1, BoundByJoined
    <3> HIDE DEF AV
    <3>3. BoundBy(tr, AV) \cup BoundBy(tr, B) \subseteq BoundBy(tr, W)
      BY <3>1, <3>2, BoundByJoined
    <3> QED
      BY <3>2, <3>3
  <2>2. \A j \in 1..Len(Front(tr, i)) : tr[Front(tr, i)[j]].name \in BoundBy(tr, W)
    BY <1>1, <1>2, <2>1
  <2> HIDE DEF W
  <2> QED
    BY <2>2, BodyFinds
<1>5. us = W \o L
  OBVIOUS
<1> HIDE DEF A, V, B, L
<1>6. \A x : {} \cup x = x
  OBVIOUS
<1>7. Serves(tr, i, AV, {})
  <2>1. Serves(tr, i, A, {}) /\ Serves(tr, i, V, {} \cup BoundBy(tr, A))
    BY <1>1, <1>3, <1>6
  <2> QED
    BY <2>1, ServesJoined
<1> HIDE DEF AV
<1>8. Serves(tr, i, W, {})
  <2>1. Serves(tr, i, B, {} \cup BoundBy(tr, AV))
    BY <1>1
  <2> QED
    BY <1>7, <2>1, ServesJoined
<1> HIDE DEF W
<1>9. Serves(tr, i, L, {} \cup BoundBy(tr, W))
  BY <1>4, <1>6
<1> QED
  BY <1>5, <1>8, <1>9, ServesJoined

-----------------------------------------------------------------------------
(* The steps.                                                              *)

\* Each node has its visible names.
Seen(tr) == \E vis : Visible(tr, vis)

\* Trees, tasks and scopes stay sound, and the tasks find their names.
Moves(tr, ts, e, cs, us, d) ==
  /\ Good(cs, us, d)
  /\ Seen(tr) => Seen(cs)
  /\ Finds(tr, ts, e) => Finds(cs, us, d)

\* So it is when the tree has grown.
LEMMA SeenExtends ==
  ASSUME NEW tr, Tree(tr), NEW cs, Tree(cs), Extends(tr, cs), Family(tr, cs), Seen(tr)
  PROVE  Seen(cs)
BY VisibleExtends DEF Seen

\* The first task is replaced by others that suit it.
LEMMA ServesMoves ==
  ASSUME NEW tr, NEW ts, NEW e, Good(tr, ts, e), ts # <<>>,
         ts[1].do \in {"visit", "open"}, NEW us, Serves(tr, ts[1].node, us, {})
  PROVE  Moves(tr, ts, e, tr, Instead(ts, us), e)
<1>1. us \in Seq(TasksOf(tr)) /\ NoClose(us) /\ Enough(tr, ts[1].node, us, {})
  BY DEF Serves
<1>2. e \in Seq(Scopes) /\ Covers(e, e) /\ ts[1].do # "close"
  BY DEF Good, Covers
<1>3. Good(tr, Instead(ts, us), e)
  BY <1>1, <1>2, PlainStep
<1>4. Finds(tr, ts, e) => Finds(tr, Instead(ts, us), e)
  BY <1>1, PlainMove
<1> QED
  BY <1>3, <1>4 DEF Moves

\* The first task is over.
LEMMA NothingServes ==
  ASSUME NEW tr, NEW i
  PROVE  Serves(tr, i, <<>>, {})
<1> DEFINE us == <<>>
<1>1. us \in Seq(TasksOf(tr)) /\ Len(us) = 0
  OBVIOUS
<1> HIDE DEF us
<1>2. Serves(tr, i, us, {})
  BY <1>1 DEF Serves, NoClose, Enough
<1> QED
  BY <1>2 DEF us

\* A visit to the first subexpression of a node that adds no names for it.
LEMMA VisitServes ==
  ASSUME NEW tr, Tree(tr), NEW i \in 1..Len(tr), tr[i].kind \in {"index", "var", "array"}
  PROVE  Serves(tr, i, <<Visit(tr[i].kids[1])>>, {})
<1> DEFINE k == tr[i].kids[1]
           us == <<Visit(k)>>
<1>1. k \in 1..Len(tr) /\ tr[k].parent = i
  BY FirstKid
<1>2. Visit(k) \in TasksOf(tr) /\ Visit(k).do = "visit" /\ Visit(k).node = k
  <2>1. "visit" \in Tasks
    BY DEF Tasks
  <2> QED
    BY <1>1, <2>1, TaskOf DEF Visit
<1>3. us \in Seq(TasksOf(tr)) /\ Len(us) = 1 /\ us[1] = Visit(k)
  BY <1>2, OneTask
<1> HIDE DEF us, k
<1>4. \A q \in 1..Len(us) : us[q].do = "visit" /\ us[q].node = k
  BY <1>2, <1>3
<1>5. ASSUME NEW vis, Visible(tr, vis) PROVE vis[k] \subseteq vis[i] \cup {}
  <2>1. vis[k] = vis[i] \cup Adds(tr, i, k)
    BY <1>1, <1>5, VisibleKid
  <2>2. Adds(tr, i, k) = {}
    BY <1>1, AddsWhat
  <2> QED
    BY <2>1, <2>2
<1>6. Enough(tr, i, us, {})
  BY <1>4, <1>5, EnoughVisits
<1>7. NoClose(us)
  BY <1>4 DEF NoClose
<1> QED
  BY <1>3, <1>6, <1>7 DEF us, k, Serves

\* Visits to all subexpressions of a node that adds no names.
LEMMA KidsServe ==
  ASSUME NEW tr, Tree(tr), NEW i \in 1..Len(tr), tr[i].kind \in {"unit", "seq"}
  PROVE  Serves(tr, i, Each("visit", tr[i].kids), {})
<1> DEFINE ks == tr[i].kids
           us == Each("visit", ks)
<1>1. /\ ks \in Seq(1..Len(tr))
      /\ \A j \in 1..Len(ks) : ks[j] \in 1..Len(tr) /\ tr[ks[j]].parent = i
  BY KidsOf
<1>2. us \in Seq(TasksOf(tr)) /\ EachOf("visit", ks, us) /\ NoClose(us)
  <2>1. "visit" \in {"visit", "decl", "define", "bind"} /\ "visit" # "bind"
    OBVIOUS
  <2> HIDE DEF ks
  <2> QED
    BY <1>1, <2>1, EachTask
<1> HIDE DEF us, ks
<1>3. ASSUME NEW q \in 1..Len(us), NEW vis, Visible(tr, vis)
      PROVE  vis[us[q].node] \subseteq vis[i] \cup {}
  <2>1. q \in 1..Len(ks) /\ us[q].node = ks[q]
    BY <1>2 DEF EachOf
  <2> DEFINE k == ks[q]
  <2>2. k \in 1..Len(tr) /\ tr[k].parent = i
    BY <1>1, <2>1
  <2> HIDE DEF k
  <2>3. vis[k] = vis[i] \cup Adds(tr, i, k)
    BY <1>3, <2>2, VisibleKid
  <2>4. Adds(tr, i, k) = {}
    BY <2>2, AddsWhat
  <2> QED
    BY <2>1, <2>3, <2>4 DEF k
<1>4. Enough(tr, i, us, {})
  BY <1>3, EnoughVisits
<1> QED
  BY <1>2, <1>4 DEF us, ks, Serves

\* The first value of a loop, before its scope is opened.
LEMMA LoopServes ==
  ASSUME NEW tr, Tree(tr), NEW i \in 1..Len(tr), tr[i].kind = "for"
  PROVE  Serves(tr, i, <<Visit(tr[i].kids[1]), Task("open", i)>>, {})
<1> DEFINE k == tr[i].kids[1]
           a == Visit(k)
           b == Task("open", i)
           us == <<a, b>>
<1>1. k \in 1..Len(tr) /\ tr[k].parent = i
  BY FirstKid
<1>2. k # Last(tr, i)
  <2>1. Shape(tr, i)
    BY KidsOf
  <2> QED
    BY <2>1 DEF Shape, Last
<1>3. a \in TasksOf(tr) /\ a.do = "visit" /\ a.node = k
  <2>1. "visit" \in Tasks
    BY DEF Tasks
  <2> HIDE DEF k
  <2> QED
    BY <1>1, <2>1, TaskOf DEF Visit
<1>4. b \in TasksOf(tr) /\ b.do = "open" /\ b.node = i
  <2>1. "open" \in Tasks
    BY DEF Tasks
  <2> QED
    BY <2>1, TaskOf
<1>5. us \in Seq(TasksOf(tr)) /\ Len(us) = 2 /\ us[1] = a /\ us[2] = b
  <2> HIDE DEF a, b
  <2> QED
    BY <1>3, <1>4, TwoTasks
<1> HIDE DEF us, a, b, k
<1>6. \A q \in 1..Len(us) : us[q].do # "close" /\ (us[q].node = k \/ us[q].node = i)
  BY <1>3, <1>4, <1>5
<1>7. ASSUME NEW vis, Visible(tr, vis) PROVE vis[k] \subseteq vis[i] \cup {}
  <2>1. vis[k] = vis[i] \cup Adds(tr, i, k)
    BY <1>1, <1>7, VisibleKid
  <2>2. Adds(tr, i, k) = {}
    BY <1>1, <1>2, AddsWhat
  <2> QED
    BY <2>1, <2>2
<1>8. Enough(tr, i, us, {})
  BY <1>6, <1>7, EnoughVisits
<1>9. NoClose(us)
  BY <1>6 DEF NoClose
<1> QED
  BY <1>5, <1>8, <1>9 DEF us, a, b, k, Serves

\* A visit to k in a scope that i closes, and a scope with one name.
Inside(k, i) == <<Visit(k), Task("close", i)>>

\* A scope that has one name.
Alone(n, v) == [m \in {n} |-> v]

\* A scope is opened for the expression k of node i, with the name n in it.
LEMMA OpenMoves ==
  ASSUME NEW tr, NEW ts, NEW e, Good(tr, ts, e), ts # <<>>,
         ts[1].do \in {"visit", "open", "decl"}, NEW i, i = ts[1].node,
         tr[i].kind \in {"fun", "for"}, NEW k \in 1..Len(tr), tr[k].parent = i,
         NEW n, n = OpenedFor(tr[i]), NEW v \in Referents
  PROVE  /\ Good(tr, Instead(ts, Inside(k, i)), Append(e, Alone(n, v)))
         /\ ts[1].do # "decl" =>
              Moves(tr, ts, e, tr, Instead(ts, Inside(k, i)), Append(e, Alone(n, v)))
<1> DEFINE a == Visit(k)
           b == Task("close", i)
           us == <<a, b>>
           s == [m \in {n} |-> v]
<1>1. Tree(tr) /\ i \in 1..Len(tr)
  BY FirstTask
<1>2. n \in Names
  BY <1>1, NodeFields DEF OpenedFor, Tree
<1>3. s \in Scopes /\ DOMAIN s = {n}
  BY <1>2, NewScope
<1>4. a \in TasksOf(tr) /\ a.do = "visit" /\ a.node = k
  <2>1. "visit" \in Tasks
    BY DEF Tasks
  <2> QED
    BY <1>1, <2>1, TaskOf DEF Visit
<1>5. b \in TasksOf(tr) /\ b.do = "close" /\ b.node = i
  <2>1. "close" \in Tasks
    BY DEF Tasks
  <2> QED
    BY <1>1, <2>1, TaskOf
<1> HIDE DEF a, b, s
<1>6. us \in Seq(TasksOf(tr)) /\ Len(us) = 2 /\ us[1] = a /\ us[2] = b
  BY <1>4, <1>5, TwoTasks
<1>7. OpenedFor(tr[b.node]) \in DOMAIN s /\ a.do # "close" /\ ts[1].do # "close"
  BY <1>3, <1>4, <1>5
<1>8. Good(tr, Instead(ts, us), Append(e, s))
  BY <1>3, <1>5, <1>6, <1>7, OpenStep
<1>9. Enough(tr, i, us, {n})
  <2> HIDE DEF us
  <2>1. \A q \in 1..Len(us) : us[q].do \in {"visit", "open"} => us[q].node = k
    BY <1>4, <1>5, <1>6
  <2>2. ASSUME NEW vis, Visible(tr, vis) PROVE vis[k] \subseteq vis[i] \cup {n}
    <3>1. vis[k] = vis[i] \cup Adds(tr, i, k)
      BY <1>1, <2>2, VisibleKid
    <3>2. Adds(tr, i, k) \subseteq {n}
      BY <1>1, AddsWhat DEF OpenedFor
    <3> QED
      BY <3>1, <3>2
  <2> QED
    BY <2>1, <2>2, EnoughVisits
<1>10. ASSUME ts[1].do # "decl", Finds(tr, ts, e)
       PROVE  Finds(tr, Instead(ts, us), Append(e, s))
  <2>1. ts[1].do \in {"visit", "open"} /\ Enough(tr, ts[1].node, us, DOMAIN s)
    BY <1>3, <1>9, <1>10
  <2> QED
    BY <1>3, <1>5, <1>6, <1>7, <1>10, <2>1, OpenMove
<1> QED
  BY <1>8, <1>10 DEF Moves, Inside, Alone, a, b, s

\* The step replaces the first task by us.
LEMMA ThenInstead ==
  ASSUME NEW us, Then(us)
  PROVE  tasks' = Instead(tasks, us)
BY DEF Then, Instead

\* What a step starts from.
LEMMA Start ==
  ASSUME Good(tree, tasks, env), tasks # <<>>
  PROVE  /\ Tree(tree) /\ env \in Seq(Scopes) /\ First = tasks[1]
         /\ First \in TasksOf(tree) /\ First.node \in 1..Len(tree)
         /\ First.node \in Referents /\ Parameter(First.node) \in Referents
         /\ First.level \in Nat /\ N.name \in Names /\ N.par \in Names
<1>1. /\ Tree(tree) /\ env \in Seq(Scopes) /\ Head(tasks) = tasks[1]
      /\ tasks[1] \in TasksOf(tree) /\ tasks[1].node \in 1..Len(tree)
      /\ tasks[1].node \in Referents /\ tasks[1].level \in Nat
  BY FirstTask
<1>2. Parameter(tasks[1].node) \in Referents
  <2>1. Len(tree) \in 1..MaxNodes /\ MaxNodes \in Nat
    BY <1>1, ConstantsAssumption DEF Tree
  <2> QED
    BY <1>1, <2>1 DEF Parameter, Referents, Library
<1>3. tree[tasks[1].node].name \in Names /\ tree[tasks[1].node].par \in Names
  BY <1>1, NodeFields DEF Tree
<1> QED
  BY <1>1, <1>2, <1>3 DEF First, N

\* What all steps do.
Moving == Moves(tree, tasks, env, tree', tasks', env')

\* Expressions without names.
LEMMA VisitPlainMoves ==
  ASSUME Good(tree, tasks, env), VisitPlain
  PROVE  Moving
<1>1. tasks # <<>> /\ First.do = "visit" /\ N.kind \in {"unit", "seq"}
  BY DEF VisitPlain
<1>2. Serves(tree, First.node, Each("visit", N.kids), {})
  BY <1>1, Start, KidsServe DEF N
<1>3. tasks' = Instead(tasks, Each("visit", N.kids)) /\ tree' = tree /\ env' = env
  BY ThenInstead DEF VisitPlain
<1> QED
  BY <1>1, <1>2, <1>3, Start, ServesMoves DEF Moving

\* The scope that is closed has no task left that needs it.
LEMMA CloseMoves ==
  ASSUME Good(tree, tasks, env), Close
  PROVE  Moving
<1>1. tasks # <<>> /\ First.do = "close" /\ First = tasks[1] /\ env \in Seq(Scopes)
  BY Start DEF Close
<1> DEFINE d == SubSeq(env, 1, Len(env) - 1)
<1>2. tasks' = Instead(tasks, <<>>) /\ tree' = tree /\ env' = d
  BY ThenInstead DEF Close, Here
<1>3. Good(tree, Instead(tasks, <<>>), d) /\ Fit(tasks, <<>>, env, d)
  BY <1>1, CloseStep
<1>4. d \in Seq(Scopes)
  BY <1>3 DEF Good
<1> HIDE DEF d
<1>5. Finds(tree, tasks, env) => Finds(tree, Instead(tasks, <<>>), d)
  BY <1>1, <1>3, <1>4, EndMove
<1> QED
  BY <1>2, <1>3, <1>5 DEF Moving, Moves

\* A name is looked up, and its meaning noted.
LEMMA ResolveMoves ==
  ASSUME Good(tree, tasks, env), tasks # <<>>, First.do = "visit",
         pass \in {"sem", "codegen"}, NEW us, Serves(tree, First.node, us, {}),
         Resolve(us), UNCHANGED <<pass, env>>
  PROVE  Moving
<1>1. CASE LookupEntry(N.name) = Unbound
  <2>1. tree' = tree /\ tasks' = tasks /\ env' = env
    BY <1>1 DEF Resolve
  <2> QED
    BY <2>1 DEF Moving, Moves
<1>2. CASE LookupEntry(N.name) # Unbound
  <2> DEFINE i == First.node
             v == LookupEntry(N.name)
             cs == [tree EXCEPT ![i][pass] = v]
  <2>1. tree' = cs /\ Then(us) /\ env' = env
    BY <1>2 DEF Resolve
  <2>2. Tree(tree) /\ i \in 1..Len(tree) /\ First = tasks[1] /\ env \in Seq(Scopes)
    BY Start
  <2>3. v \in Referents
    BY <1>2, <2>2, Lookup
  <2>4. tasks' = Instead(tasks, us)
    BY <2>1, ThenInstead
  <2>5. cs = [tree EXCEPT ![i].sem = v] \/ cs = [tree EXCEPT ![i].codegen = v]
    <3>1. CASE pass = "sem"
      <4>1. tree[i] \in Node
        BY <2>2 DEF Tree
      <4>2. [tree[i] EXCEPT ![pass] = v] = [tree[i] EXCEPT !.sem = v]
        BY <3>1
      <4> QED
        BY <3>1, <4>2
    <3>2. CASE pass = "codegen"
      <4>2. [tree[i] EXCEPT ![pass] = v] = [tree[i] EXCEPT !.codegen = v]
        BY <3>2
      <4> QED
        BY <3>2, <4>2
    <3> QED
      BY <3>1, <3>2
  <2> HIDE DEF cs, v
  <2>6. Tree(cs) /\ Extends(tree, cs)
    BY <2>2, <2>3, <2>5, NotedTree
  <2>7. Family(tree, cs)
    <3>1. Len(cs) = Len(tree) /\ Len(tree) \in Nat
      BY <2>2, <2>5 DEF Tree
    <3>2. Len(tree) + 1..Len(cs) = {}
      BY <3>1
    <3> QED
      BY <3>2 DEF Family
  <2>8. Moves(tree, tasks, env, tree, Instead(tasks, us), env)
    BY <2>2, ServesMoves
  <2> DEFINE ws == Instead(tasks, us)
  <2> HIDE DEF ws
  <2>9. Good(tree, ws, env) /\ (Finds(tree, tasks, env) => Finds(tree, ws, env))
    BY <2>8 DEF Moves, ws
  <2>10. Good(cs, ws, env)
    BY <2>6, <2>9, GoodExtends
  <2>11. Finds(tree, tasks, env) => Finds(cs, ws, env)
    BY <2>6, <2>7, <2>9, FindsExtends
  <2> QED
    BY <2>1, <2>2, <2>4, <2>6, <2>7, <2>10, <2>11, SeenExtends DEF Moving, Moves, ws
<1> QED
  BY <1>1, <1>2

\* A name is used.
LEMMA VisitUseMoves ==
  ASSUME Good(tree, tasks, env), VisitUse
  PROVE  Moving
<1>1. tasks # <<>> /\ First.do = "visit" /\ pass \in {"sem", "codegen"}
  BY DEF VisitUse, At
<1>2. Serves(tree, First.node, <<>>, {})
  BY NothingServes
<1> QED
  BY <1>1, <1>2, ResolveMoves DEF VisitUse

\* sem() of x[..] looks up x alone.
LEMMA SemIndexMoves ==
  ASSUME Good(tree, tasks, env), SemIndex
  PROVE  Moving
<1>1. tasks # <<>> /\ First.do = "visit" /\ pass \in {"sem", "codegen"}
  BY DEF SemIndex, At
<1>2. Serves(tree, First.node, <<>>, {})
  BY NothingServes
<1> QED
  BY <1>1, <1>2, ResolveMoves DEF SemIndex

\* codegen() visits the index as well.
LEMMA GenIndexMoves ==
  ASSUME Good(tree, tasks, env), GenIndex
  PROVE  Moving
<1>1. /\ tasks # <<>> /\ First.do = "visit" /\ pass \in {"sem", "codegen"}
      /\ tree[First.node].kind = "index"
  BY DEF GenIndex, At
<1>2. Serves(tree, First.node, <<Visit(Kid(1))>>, {})
  BY <1>1, Start, VisitServes DEF Kid, N
<1> QED
  BY <1>1, <1>2, ResolveMoves DEF GenIndex

\* codegen() of a let.
LEMMA GenLetMoves ==
  ASSUME Good(tree, tasks, env), GenLet
  PROVE  Moving
<1> DEFINE us == Each("visit", DefsOf) \o Each("bind", DefsOf) \o <<Visit(Body)>>
<1>1. tasks # <<>> /\ First.do = "visit" /\ tree[First.node].kind = "let"
  BY DEF GenLet, At
<1>2. DefsOf = Front(tree, First.node) /\ Body = Last(tree, First.node)
  BY DEF DefsOf, Front, Body, Last, N
<1>3. Serves(tree, First.node, us, {})
  BY <1>1, <1>2, Start, LetFinds
<1>4. tasks' = Instead(tasks, us) /\ tree' = tree /\ env' = env
  BY ThenInstead DEF GenLet
<1> HIDE DEF us
<1> QED
  BY <1>1, <1>3, <1>4, Start, ServesMoves DEF Moving

\* codegen() of a recursive let.
LEMMA GenLetRecMoves ==
  ASSUME Good(tree, tasks, env), GenLetRec
  PROVE  Moving
<1> DEFINE us == Each("bind", Only(DefsOf, FunDefs)) \o Each("visit", DefsOf)
                   \o Each("bind", Only(DefsOf, OtherDefs)) \o <<Visit(Body)>>
<1>1. tasks # <<>> /\ First.do = "visit" /\ tree[First.node].kind = "letrec"
  BY DEF GenLetRec, At
<1>2. DefsOf = Front(tree, First.node) /\ Body = Last(tree, First.node)
  BY DEF DefsOf, Front, Body, Last, N
<1>3. /\ \A d \in 1..Len(tree) : tree[d].kind = "fun" => d \in FunDefs
      /\ \A d \in 1..Len(tree) : d \in FunDefs \/ d \in OtherDefs
  BY DEF FunDefs, OtherDefs, IsFun
<1>4. Serves(tree, First.node, us, {})
  BY <1>1, <1>2, <1>3, Start, LetRecFinds
<1>5. tasks' = Instead(tasks, us) /\ tree' = tree /\ env' = env
  BY ThenInstead DEF GenLetRec
<1> HIDE DEF us
<1> QED
  BY <1>1, <1>4, <1>5, Start, ServesMoves DEF Moving

\* codegen() of a variable or an array.
LEMMA GenVarMoves ==
  ASSUME Good(tree, tasks, env), GenVar
  PROVE  Moving
<1>1. tasks # <<>> /\ First.do = "visit" /\ N.kind \in {"var", "array"}
  BY DEF GenVar
<1>2. Serves(tree, First.node, <<Visit(Kid(1))>>, {})
  BY <1>1, Start, VisitServes DEF Kid, N
<1>3. tasks' = Instead(tasks, <<Visit(Kid(1))>>) /\ tree' = tree /\ env' = env
  BY ThenInstead DEF GenVar
<1> QED
  BY <1>1, <1>2, <1>3, Start, ServesMoves DEF Moving

\* codegen() of a loop, up to its scope.
LEMMA GenForMoves ==
  ASSUME Good(tree, tasks, env), GenFor
  PROVE  Moving
<1> DEFINE us == <<Visit(Kid(1)), Task("open", First.node)>>
<1>1. tasks # <<>> /\ First.do = "visit" /\ tree[First.node].kind = "for"
  BY DEF GenFor, At
<1>2. Serves(tree, First.node, us, {})
  BY <1>1, Start, LoopServes DEF Kid, N
<1>3. tasks' = Instead(tasks, us) /\ tree' = tree /\ env' = env
  BY ThenInstead DEF GenFor
<1> HIDE DEF us
<1> QED
  BY <1>1, <1>2, <1>3, Start, ServesMoves DEF Moving

\* codegen() of a function opens a scope for its parameter.
LEMMA GenFunMoves ==
  ASSUME Good(tree, tasks, env), GenFun
  PROVE  Moving
<1> DEFINE i == First.node
           k == tree[i].kids[1]
           n == tree[i].par
           v == Parameter(i)
<1>1. /\ tasks # <<>> /\ tasks[1].do = "visit" /\ tree[i].kind = "fun" /\ i = tasks[1].node
      /\ Tree(tree) /\ i \in 1..Len(tree) /\ v \in Referents
  BY Start DEF GenFun, At
<1>2. n = OpenedFor(tree[i])
  BY <1>1 DEF OpenedFor
<1>3. k \in 1..Len(tree) /\ tree[k].parent = i
  BY <1>1, FirstKid
<1>4. /\ tasks' = Instead(tasks, Inside(k, i)) /\ tree' = tree
      /\ env' = Append(env, Alone(n, v))
  BY ThenInstead DEF GenFun, OpenWith, Inside, Alone, Kid, N
<1> HIDE DEF i, k, n, v
<1>5. Moves(tree, tasks, env, tree, Instead(tasks, Inside(k, i)), Append(env, Alone(n, v)))
  <2>1. tree[i].kind \in {"fun", "for"} /\ tasks[1].do \in {"visit", "open", "decl"}
        /\ tasks[1].do # "decl"
    BY <1>1
  <2> QED
    BY <1>1, <1>2, <1>3, <2>1, OpenMoves
<1> QED
  BY <1>4, <1>5 DEF Moving

\* codegen() of a loop opens one for its counter.
LEMMA GenForOpenMoves ==
  ASSUME Good(tree, tasks, env), GenForOpen
  PROVE  Moving
<1> DEFINE i == First.node
           k == Last(tree, i)
           n == tree[i].name
<1>1. /\ tasks # <<>> /\ tasks[1].do = "open" /\ tree[i].kind = "for" /\ i = tasks[1].node
      /\ Tree(tree) /\ i \in 1..Len(tree) /\ i \in Referents
  BY Start DEF GenForOpen, At
<1>2. n = OpenedFor(tree[i])
  BY <1>1 DEF OpenedFor
<1>3. k \in 1..Len(tree) /\ tree[k].parent = i
  BY <1>1, LastKid
<1>4. /\ tasks' = Instead(tasks, Inside(k, i)) /\ tree' = tree
      /\ env' = Append(env, Alone(n, i))
  BY ThenInstead DEF GenForOpen, OpenWith, Inside, Alone, Body, Last, N
<1> HIDE DEF i, k, n
<1>5. Moves(tree, tasks, env, tree, Instead(tasks, Inside(k, i)), Append(env, Alone(n, i)))
  <2>1. tree[i].kind \in {"fun", "for"} /\ tasks[1].do \in {"visit", "open", "decl"}
        /\ tasks[1].do # "decl"
    BY <1>1
  <2> QED
    BY <1>1, <1>2, <1>3, <2>1, OpenMoves
<1> QED
  BY <1>4, <1>5 DEF Moving

\* There are always the scopes of the library and of the program.
LEMMA TwoScopes ==
  ASSUME NEW tr, NEW ts, NEW e, Good(tr, ts, e)
  PROVE  Len(e) \in 1..Len(e) /\ Len(e) \in Nat
<1>1. ts \in Seq(TasksOf(tr)) /\ Len(ts) \in Nat /\ Len(e) \in Nat
  BY DEF Good
<1>2. Len(ts) + 1 \in 1..Len(ts) + 1
  BY <1>1
<1>3. Closed(ts, Len(ts) + 1) \in Nat
  BY <1>1, <1>2, ClosedNext
<1>4. Len(e) - Closed(ts, Len(ts) + 1) = 2
  BY DEF Good, Scoped
<1>5. Len(e) >= 1
  BY <1>1, <1>3, <1>4
<1> QED
  BY <1>1, <1>5

\* A definition is bound: those that wait for its name may rely on it.
LEMMA BindMoves ==
  ASSUME Good(tree, tasks, env), Bind
  PROVE  Moving
<1> DEFINE n == N.name
           i == First.node
           l == IF LevelOf(n) = 0 THEN Here ELSE LevelOf(n)
           d == Binding(env, n, i, l)
<1>1. /\ tasks # <<>> /\ tasks[1].do = "bind" /\ i = tasks[1].node /\ n = tree[i].name
      /\ Tree(tree) /\ env \in Seq(Scopes) /\ n \in Names /\ i \in Referents
  BY Start DEF Bind, N
<1>2. tasks' = Instead(tasks, <<>>) /\ tree' = tree /\ env' = d
  BY ThenInstead DEF Bind, With, Binding
<1>3. l \in 1..Len(env)
  <2>1. Len(env) \in 1..Len(env) /\ Len(env) \in Nat /\ LevelOf(n) \in 0..Len(env)
    BY <1>1, TwoScopes, Lookup
  <2> HIDE DEF n
  <2> QED
    BY <2>1 DEF Here
<1> HIDE DEF n, i, l, d
<1>4. d \in Seq(Scopes) /\ Covers(d, env) /\ n \in DOMAIN d[l]
  BY <1>1, <1>3, BindingCovers DEF d
<1>5. Known(d, n)
  BY <1>3, <1>4 DEF Known, Covers
<1> DEFINE us == <<>>
<1>6. us \in Seq(TasksOf(tree)) /\ NoClose(us)
  BY DEF NoClose
<1> HIDE DEF us
<1>7. tasks[1].do # "close"
  BY <1>1
<1>8. Good(tree, Instead(tasks, us), d) /\ Fit(tasks, us, env, d)
  BY <1>1, <1>4, <1>6, <1>7, PlainStep
<1>9. Finds(tree, tasks, env) => Finds(tree, Instead(tasks, us), d)
  BY <1>1, <1>4, <1>5, <1>8, EndMove DEF us
<1> QED
  BY <1>2, <1>8, <1>9 DEF Moving, Moves, us

\* The expression at the first task is chosen.
LEMMA ChooseExprMoves ==
  ASSUME Good(tree, tasks, env), ChooseExpr
  PROVE  Moving
<1>1. /\ tasks # <<>> /\ First.do = "visit" /\ N.kind = "open"
      /\ tasks' = tasks /\ env' = env
  BY DEF ChooseExpr
<1>2. PICK kind \in Kinds \cap DOMAIN Arity, n \in Names :
        /\ Room(Arity[kind])
        /\ tree' = Grow(First.node, kind, n, AnyName, Arity[kind])
  <2>1. PICK kind \in Kinds \cap DOMAIN Arity :
          \E n \in IF kind \in {"use", "index", "for"} THEN Names ELSE {AnyName} :
            /\ Room(Arity[kind])
            /\ tree' = Grow(First.node, kind, n, AnyName, Arity[kind])
    BY DEF ChooseExpr
  <2>2. AnyName \in Names
    BY OpenNode
  <2> QED
    BY <2>1, <2>2
<1> DEFINE i == First.node
           cs == ExprTree(tree, i, kind, n, AnyName)
<1>3. tree' = cs
  BY <1>2 DEF Grow, ExprTree
<1>4. Tree(tree) /\ i \in 1..Len(tree) /\ tree[i].kind = "open"
  BY <1>1, Start DEF N
<1>5. Tree(cs) /\ Extends(tree, cs) /\ Family(tree, cs)
  <2>1. /\ kind \in DOMAIN Arity /\ AnyName \in Names
        /\ Len(tree) + Arity[kind] <= MaxNodes
    BY <1>2, OpenNode DEF Room
  <2> HIDE DEF i
  <2> QED
    BY <1>4, <2>1, ExprGrown
<1> HIDE DEF cs
<1>6. Good(cs, tasks, env) /\ (Seen(tree) => Seen(cs))
  BY <1>4, <1>5, GoodExtends, SeenExtends
<1>7. Finds(tree, tasks, env) => Finds(cs, tasks, env)
  BY <1>5, FindsExtends
<1> QED
  BY <1>1, <1>3, <1>6, <1>7 DEF Moving, Moves

\* So is the let, with its definitions.
LEMMA ChooseLetMoves ==
  ASSUME Good(tree, tasks, env), ChooseLet
  PROVE  Moving
<1>1. /\ tasks # <<>> /\ First.do = "visit" /\ N.kind = "open"
      /\ tasks' = tasks /\ env' = env
  BY ZenonT(40) DEF ChooseLet
<1> DEFINE i == First.node
<1>2. PICK kind \in Kinds \cap {"let", "letrec"}, k \in 1..MaxDefs :
        \E hs \in [1..k -> Heads] :
          Room(2 * k + 1) /\ tree' = LetTree(tree, i, kind, k, hs)
  BY DEF ChooseLet, LetTree, DefNode
<1>3. PICK hs \in [1..k -> Heads] :
        Room(2 * k + 1) /\ tree' = LetTree(tree, i, kind, k, hs)
  BY <1>2
<1> DEFINE cs == LetTree(tree, i, kind, k, hs)
<1>4. Tree(tree) /\ i \in 1..Len(tree) /\ tree[i].kind = "open"
  BY <1>1, Start DEF N
<1>5. Tree(cs) /\ Extends(tree, cs) /\ Family(tree, cs)
  <2>1. kind \in {"let", "letrec"} /\ k \in Nat /\ k >= 1 /\ Len(tree) + (2 * k + 1) <= MaxNodes
    BY <1>3, ConstantsAssumption DEF Room
  <2>2. hs \in [1..k -> [kind: Defs, name: Names, par: Names]]
    <3>1. Heads \subseteq [kind: Defs, name: Names, par: Names]
      BY DEF Heads
    <3> QED
      BY <1>3, <3>1
  <2> HIDE DEF i
  <2> QED
    BY <1>4, <2>1, <2>2, LetGrown
<1> HIDE DEF cs
<1>6. Good(cs, tasks, env) /\ (Seen(tree) => Seen(cs))
  BY <1>4, <1>5, GoodExtends, SeenExtends
<1>7. Finds(tree, tasks, env) => Finds(cs, tasks, env)
  BY <1>5, FindsExtends
<1> QED
  BY <1>1, <1>3, <1>6, <1>7 DEF Moving, Moves, cs

\* The tasks us suit node i if their names need not be known yet.
Suits(tr, us) == us \in Seq(TasksOf(tr)) /\ NoClose(us)

\* A visit to the only or the last subexpression, and other single tasks.
LEMMA TaskSuits ==
  ASSUME NEW tr, NEW i \in 1..Len(tr), NEW do \in {"visit", "decl"}
  PROVE  Suits(tr, <<Task(do, i)>>)
<1> DEFINE a == Task(do, i)
           us == <<a>>
<1>1. a \in TasksOf(tr) /\ a.do = do
  <2>1. do \in Tasks
    BY DEF Tasks
  <2> QED
    BY <2>1, TaskOf
<1>2. us \in Seq(TasksOf(tr)) /\ Len(us) = 1 /\ us[1] = a
  <2> HIDE DEF a
  <2> QED
    BY <1>1, OneTask
<1> HIDE DEF us
<1>3. NoClose(us)
  BY <1>1, <1>2 DEF NoClose
<1> QED
  BY <1>2, <1>3 DEF us, Suits

\* First some, then others.
LEMMA SuitsJoined ==
  ASSUME NEW tr, NEW us, NEW vs, Suits(tr, us), Suits(tr, vs)
  PROVE  Suits(tr, us \o vs)
<1>1. us \in Seq(TasksOf(tr)) /\ vs \in Seq(TasksOf(tr)) /\ NoClose(us) /\ NoClose(vs)
  BY DEF Suits
<1>2. NoClose(us \o vs)
  BY <1>1, NoCloseJoined
<1> QED
  BY <1>1, <1>2 DEF Suits

\* One task for each of several nodes.
LEMMA EachSuits ==
  ASSUME NEW tr, NEW nodes \in Seq(1..Len(tr)), NEW do \in {"visit", "decl", "define"}
  PROVE  Suits(tr, Each(do, nodes))
<1>1. do # "bind" /\ do \in {"visit", "decl", "define", "bind"}
  OBVIOUS
<1> QED
  BY <1>1, EachTask DEF Suits

\* A step that leaves the scopes open, and the tree as it is.
GoodNext == Good(tree', tasks', env') /\ tree' = tree

\* It keeps trees, tasks and scopes sound.
LEMMA SuitsGood ==
  ASSUME NEW tr, NEW ts, NEW e, Good(tr, ts, e), ts # <<>>, ts[1].do # "close",
         NEW us, Suits(tr, us), NEW d \in Seq(Scopes), Covers(d, e)
  PROVE  Good(tr, Instead(ts, us), d)
BY PlainStep DEF Suits

\* sem() of a let.
LEMMA SemLetGood ==
  ASSUME Good(tree, tasks, env), SemLet
  PROVE  GoodNext
<1> DEFINE i == First.node
           A == Each("define", DefsOf)
           B == <<Task("visit", Body)>>
<1>1. /\ tasks # <<>> /\ tasks[1].do = "visit" /\ tree[i].kind = "let"
      /\ Tree(tree) /\ i \in 1..Len(tree) /\ env \in Seq(Scopes)
  BY Start DEF SemLet, At
<1>2. DefsOf \in Seq(1..Len(tree)) /\ Body \in 1..Len(tree)
  <2>1. DefsOf = Front(tree, i) /\ Body = Last(tree, i)
    BY DEF DefsOf, Front, Body, Last, N
  <2> HIDE DEF i
  <2> QED
    BY <1>1, <2>1, LetKids, LastKid
<1>3. Suits(tree, A) /\ Suits(tree, B)
  BY <1>2, EachSuits, TaskSuits
<1>4. Append(A, Visit(Body)) = A \o B
  <2>1. A \in Seq(TasksOf(tree))
    BY <1>3 DEF Suits
  <2> HIDE DEF A
  <2> QED
    BY <2>1 DEF Visit
<1>5. tasks' = Instead(tasks, A \o B) /\ tree' = tree /\ env' = env
  <2>1. Then(Append(A, Visit(Body)))
    BY DEF SemLet
  <2> HIDE DEF A, B
  <2>2. Then(A \o B)
    BY <1>4, <2>1
  <2> QED
    BY <2>2, ThenInstead DEF SemLet
<1> HIDE DEF A, B
<1>6. Suits(tree, A \o B) /\ Covers(env, env) /\ tasks[1].do # "close"
  BY <1>1, <1>3, SuitsJoined DEF Covers
<1> QED
  BY <1>1, <1>5, <1>6, SuitsGood DEF GoodNext

\* sem() of one of its definitions.
LEMMA SemDefineGood ==
  ASSUME Good(tree, tasks, env), SemDefine
  PROVE  GoodNext
<1> DEFINE i == First.node
           A == <<Task("visit", i)>>
           B == <<Task("decl", i)>>
           us == IF IsFun(i) THEN A \o B ELSE A
<1>1. /\ tasks # <<>> /\ tasks[1].do = "define" /\ i \in 1..Len(tree) /\ env \in Seq(Scopes)
  BY Start DEF SemDefine
<1>2. Suits(tree, A) /\ Suits(tree, B)
  BY <1>1, TaskSuits
<1>3. tasks' = Instead(tasks, us) /\ tree' = tree /\ env' = env
  <2>1. <<Visit(i), Task("decl", i)>> = A \o B /\ <<Visit(i)>> = A
    BY DEF Visit
  <2>2. Then(us)
    BY <2>1 DEF SemDefine
  <2> HIDE DEF us
  <2> QED
    BY <2>2, ThenInstead DEF SemDefine
<1> HIDE DEF A, B
<1>4. Suits(tree, us) /\ Covers(env, env) /\ tasks[1].do # "close"
  BY <1>1, <1>2, SuitsJoined DEF Covers
<1> HIDE DEF us
<1> QED
  BY <1>1, <1>3, <1>4, SuitsGood DEF GoodNext

\* sem() of a recursive let.
LEMMA SemLetRecGood ==
  ASSUME Good(tree, tasks, env), SemLetRec
  PROVE  GoodNext
<1> DEFINE i == First.node
           A == Each("visit", DefsOf)
           B == Each("decl", Only(DefsOf, FunDefs))
           C == <<Task("visit", Body)>>
           us == (A \o B) \o C
<1>1. /\ tasks # <<>> /\ tasks[1].do = "visit" /\ tree[i].kind = "letrec"
      /\ Tree(tree) /\ i \in 1..Len(tree) /\ env \in Seq(Scopes)
  BY Start DEF SemLetRec, At
<1>2. /\ DefsOf \in Seq(1..Len(tree)) /\ Body \in 1..Len(tree)
      /\ Only(DefsOf, FunDefs) \in Seq(1..Len(tree))
  <2>1. DefsOf = Front(tree, i) /\ Body = Last(tree, i)
    BY DEF DefsOf, Front, Body, Last, N
  <2> HIDE DEF i
  <2> QED
    BY <1>1, <2>1, LetKids, LastKid, OnlyDefs
<1>3. Suits(tree, A) /\ Suits(tree, B) /\ Suits(tree, C)
  BY <1>2, EachSuits, TaskSuits
<1>4. tasks' = Instead(tasks, us) /\ tree' = tree /\ env' = env
  <2>1. Then(us)
    BY DEF SemLetRec, Visit
  <2> HIDE DEF us
  <2> QED
    BY <2>1, ThenInstead DEF SemLetRec
<1> HIDE DEF A, B, C
<1>5. Suits(tree, us) /\ Covers(env, env) /\ tasks[1].do # "close"
  BY <1>1, <1>3, SuitsJoined DEF Covers
<1> HIDE DEF us
<1> QED
  BY <1>1, <1>4, <1>5, SuitsGood DEF GoodNext

\* sem() of a variable.
LEMMA SemVarGood ==
  ASSUME Good(tree, tasks, env), SemVar
  PROVE  GoodNext
<1> DEFINE i == First.node
           k == Kid(1)
           us(l) == <<Visit(k), TypeTask(l)>>
           d == Binding(env, N.name, i, Here)
<1>1. /\ tasks # <<>> /\ tasks[1].do = "visit" /\ tree[i].kind = "var" /\ tree' = tree
      /\ Tree(tree) /\ i \in 1..Len(tree) /\ i \in Referents /\ env \in Seq(Scopes)
      /\ N.name \in Names
  BY Start DEF SemVar, At
<1>2. k \in 1..Len(tree)
  BY <1>1, FirstKid DEF Kid, N
<1>3. ASSUME NEW l \in Nat PROVE Suits(tree, us(l))
  <2> DEFINE a == Visit(k)
             b == TypeTask(l)
  <2>1. a \in TasksOf(tree) /\ a.do = "visit"
    BY <1>2, TaskOf DEF Visit, Tasks
  <2>2. b \in TasksOf(tree) /\ b.do = "type"
    BY <1>1 DEF TypeTask, TasksOf, Tasks
  <2> HIDE DEF a, b
  <2>3. <<a, b>> \in Seq(TasksOf(tree)) /\ Len(<<a, b>>) = 2
        /\ <<a, b>>[1] = a /\ <<a, b>>[2] = b
    BY <2>1, <2>2, TwoTasks
  <2>4. NoClose(<<a, b>>)
    BY <2>1, <2>2, <2>3 DEF NoClose
  <2> QED
    BY <2>3, <2>4 DEF Suits, a, b
<1>4. d \in Seq(Scopes) /\ Covers(d, env) /\ Covers(env, env)
  BY <1>1, BindingCovers DEF Covers
<1>5. Here \in Nat /\ LevelOf(N.name) \in Nat
  <2>1. Len(env) \in Nat /\ LevelOf(N.name) \in 0..Len(env)
    BY <1>1, Lookup
  <2> QED
    BY <2>1 DEF Here
<1>6. \/ env' = d /\ Then(us(Here))
      \/ env' = env /\ Then(us(LevelOf(N.name)))
  BY DEF SemVar, With, Binding
<1> HIDE DEF us, d
<1>7. PICK l \in Nat : (env' = d \/ env' = env) /\ Then(us(l))
  BY <1>5, <1>6
<1>8. tasks' = Instead(tasks, us(l))
  BY <1>7, ThenInstead
<1>9. Suits(tree, us(l)) /\ env' \in Seq(Scopes) /\ Covers(env', env) /\ tasks[1].do # "close"
  BY <1>1, <1>3, <1>4, <1>7
<1> QED
  BY <1>1, <1>8, <1>9, SuitsGood DEF GoodNext

\* No tasks at all.
LEMMA NothingSuits ==
  ASSUME NEW tr
  PROVE  Suits(tr, <<>>)
<1> DEFINE us == <<>>
<1>1. us \in Seq(TasksOf(tr)) /\ Len(us) = 0
  OBVIOUS
<1> HIDE DEF us
<1>2. Suits(tr, us)
  BY <1>1 DEF Suits, NoClose
<1> QED
  BY <1>2 DEF us

\* The entry of a variable gets its type.
LEMMA SemTypeMoves ==
  ASSUME Good(tree, tasks, env), SemType
  PROVE  Moving
<1> DEFINE d == Binding(env, N.name, First.node, First.level)
<1>1. /\ tasks # <<>> /\ tasks[1].do = "type" /\ env \in Seq(Scopes)
      /\ First.node \in Referents /\ N.name \in Names
  BY Start DEF SemType
<1>2. tasks' = Instead(tasks, <<>>) /\ tree' = tree /\ env' = d
  BY ThenInstead DEF SemType, With, Binding
<1>3. d \in Seq(Scopes) /\ Covers(d, env)
  BY <1>1, BindingCovers
<1> HIDE DEF d
<1>4. tasks[1].do # "close" /\ tasks[1].do # "bind"
  BY <1>1
<1> DEFINE us == <<>>
<1>5. us \in Seq(TasksOf(tree)) /\ NoClose(us)
  BY NothingSuits DEF Suits
<1> HIDE DEF us
<1>6. Good(tree, Instead(tasks, us), d) /\ Fit(tasks, us, env, d)
  BY <1>1, <1>3, <1>4, <1>5, PlainStep
<1>7. Finds(tree, tasks, env) => Finds(tree, Instead(tasks, us), d)
  BY <1>1, <1>3, <1>4, <1>6, EndMove DEF us
<1> QED
  BY <1>2, <1>6, <1>7 DEF Moving, Moves, us

\* sem() of a function or an array.
LEMMA SemNewGood ==
  ASSUME Good(tree, tasks, env), SemNew
  PROVE  GoodNext
<1> DEFINE d == Binding(env, N.name, First.node, Here)
<1>1. /\ tasks # <<>> /\ tasks[1].do # "close" /\ env \in Seq(Scopes) /\ tree' = tree
      /\ First.node \in Referents /\ N.name \in Names
  BY Start DEF SemNew
<1>2. \/ tasks' = tasks /\ env' = env
      \/ Then(<<>>) /\ env' = d
  BY DEF SemNew, With, Binding
<1>3. d \in Seq(Scopes) /\ Covers(d, env)
  BY <1>1, BindingCovers
<1> HIDE DEF d
<1>4. CASE tasks' = tasks /\ env' = env
  BY <1>1, <1>4 DEF GoodNext
<1>5. CASE Then(<<>>) /\ env' = d
  <2>1. tasks' = Instead(tasks, <<>>)
    BY <1>5, ThenInstead
  <2> QED
    BY <1>1, <1>3, <1>5, <2>1, NothingSuits, SuitsGood DEF GoodNext
<1> QED
  BY <1>2, <1>4, <1>5

\* sem() of the body of a function, with its parameter.
LEMMA SemDeclGood ==
  ASSUME Good(tree, tasks, env), SemDecl
  PROVE  GoodNext
<1> DEFINE i == First.node
           k == tree[i].kids[1]
           n == tree[i].par
           v == Parameter(i)
<1>1. /\ tasks # <<>> /\ tasks[1].do = "decl" /\ tree[i].kind = "fun" /\ i = tasks[1].node
      /\ Tree(tree) /\ i \in 1..Len(tree) /\ v \in Referents
  BY Start DEF SemDecl, At
<1>2. n = OpenedFor(tree[i])
  BY <1>1 DEF OpenedFor
<1>3. k \in 1..Len(tree) /\ tree[k].parent = i
  BY <1>1, FirstKid
<1>4. /\ tasks' = Instead(tasks, Inside(k, i)) /\ tree' = tree
      /\ env' = Append(env, Alone(n, v))
  BY ThenInstead DEF SemDecl, OpenWith, Inside, Alone, Kid, N
<1> HIDE DEF i, k, n, v
<1>5. Good(tree, Instead(tasks, Inside(k, i)), Append(env, Alone(n, v)))
  <2>1. tree[i].kind \in {"fun", "for"} /\ tasks[1].do \in {"visit", "open", "decl"}
    BY <1>1
  <2> QED
    BY <1>1, <1>2, <1>3, <2>1, OpenMoves
<1> QED
  BY <1>4, <1>5 DEF GoodNext

\* sem() of a loop.
LEMMA SemForGood ==
  ASSUME Good(tree, tasks, env), SemFor
  PROVE  GoodNext
<1> DEFINE i == First.node
           k == Last(tree, i)
           n == tree[i].name
<1>1. /\ tasks # <<>> /\ tasks[1].do = "visit" /\ tree[i].kind = "for" /\ i = tasks[1].node
      /\ Tree(tree) /\ i \in 1..Len(tree) /\ i \in Referents
  BY Start DEF SemFor, At
<1>2. n = OpenedFor(tree[i])
  BY <1>1 DEF OpenedFor
<1>3. k \in 1..Len(tree) /\ tree[k].parent = i
  BY <1>1, LastKid
<1>4. /\ tasks' = Instead(tasks, Inside(k, i)) /\ tree' = tree
      /\ env' = Append(env, Alone(n, i))
  BY ThenInstead DEF SemFor, OpenWith, Inside, Alone, Body, Last, N
<1> HIDE DEF i, k, n
<1>5. Good(tree, Instead(tasks, Inside(k, i)), Append(env, Alone(n, i)))
  <2>1. tree[i].kind \in {"fun", "for"} /\ tasks[1].do \in {"visit", "open", "decl"}
    BY <1>1
  <2> QED
    BY <1>1, <1>2, <1>3, <2>1, OpenMoves
<1> QED
  BY <1>4, <1>5 DEF GoodNext

-----------------------------------------------------------------------------
(* The invariant.                                                          *)

\* When codegen() has stopped, it is at a name that no scope has.
Stopped ==
  pass = "codegen" /\ error = "unknown" =>
    tasks # <<>> /\ First.do = "visit" /\ ~ Known(env, N.name)

\* The inductive invariant.
Inductive ==
  /\ Good(tree, tasks, env) /\ Seen(tree)
  /\ pass \in {"sem", "codegen", "done"}
  /\ error \in {"", "unknown", "duplicate"}
  /\ pass = "codegen" => Finds(tree, tasks, env)
  /\ Stopped

\* A pass starts at the root, with the names of the library.
LEMMA PassStarts ==
  ASSUME NEW tr, Tree(tr)
  PROVE  /\ Good(tr, <<Visit(1)>>, InitialEnv)
         /\ Seen(tr) => Finds(tr, <<Visit(1)>>, InitialEnv)
<1> DEFINE ts == <<Visit(1)>>
           e == InitialEnv
           a == [n \in Libs |-> Library]
<1>1. 1 \in 1..Len(tr) /\ tr[1].parent = 0
  BY DEF Tree
<1>2. Visit(1) \in TasksOf(tr) /\ Visit(1).do = "visit" /\ Visit(1).node = 1
  <2>1. "visit" \in Tasks
    BY DEF Tasks
  <2> QED
    BY <1>1, <2>1, TaskOf DEF Visit
<1>3. ts \in Seq(TasksOf(tr)) /\ Len(ts) = 1 /\ ts[1] = Visit(1)
  BY <1>2, OneTask
<1>4. a \in Scopes /\ <<>> \in Scopes
  <2>1. Library \in Referents
    BY ConstantsAssumption DEF Library, Referents
  <2>2. a \in [Libs -> Referents] /\ Libs \in SUBSET Names
    BY <2>1, ConstantsAssumption
  <2>3. <<>> \in [{} -> Referents] /\ {} \in SUBSET Names
    OBVIOUS
  <2>4. a \in Scopes
    <3> HIDE DEF a
    <3> QED
      BY <2>2 DEF Scopes
  <2> QED
    BY <2>3, <2>4 DEF Scopes
<1>5. e = <<a, <<>>>>
  BY DEF InitialEnv
<1>6. DOMAIN a = Libs
  OBVIOUS
<1> HIDE DEF ts, e, a
<1>7. e \in Seq(Scopes) /\ Len(e) = 2 /\ e[1] = a
  <2> DEFINE b == <<>>
  <2>1. a \in Scopes /\ b \in Scopes /\ e = <<a, b>>
    BY <1>4, <1>5
  <2> HIDE DEF b
  <2> QED
    BY <2>1, TwoTasks
<1>8. Closed(ts, 1) = 0 /\ Closed(ts, 2) = 0
  <2>1. NoClose(ts)
    BY <1>2, <1>3 DEF NoClose
  <2>2. \A q \in 1..Len(ts) + 1 : Closed(ts, q) = 0
    BY <1>3, <2>1, NoCloseClosed
  <2> QED
    BY <1>3, <2>2
<1>9. \A q \in 1..Len(ts) : q = 1
  BY <1>3
<1>10. Scoped(tr, ts, e)
  <2>1. Len(ts) + 1 = 2 /\ Len(e) - Closed(ts, 2) = 2
    BY <1>3, <1>7, <1>8
  <2>2. \A q \in 1..Len(ts) : ts[q].do # "close"
    BY <1>2, <1>3, <1>9
  <2> QED
    BY <2>1, <2>2 DEF Scoped
<1>11. Good(tr, ts, e)
  BY <1>3, <1>7, <1>10 DEF Good
<1>12. ASSUME Seen(tr) PROVE Finds(tr, ts, e)
  <2>1. PICK vis : Visible(tr, vis)
    BY <1>12 DEF Seen
  <2>2. vis[1] = Libs
    BY <1>1, <2>1 DEF Visible
  <2>3. 1 \in 1..Len(e) - Closed(ts, 1)
    BY <1>7, <1>8
  <2>4. \A n \in vis[1] : Bound(tr, ts, e, 1, n)
    BY <1>6, <1>7, <2>2, <2>3 DEF Bound
  <2>5. Ready(tr, vis, ts, e)
    BY <1>2, <1>3, <1>9, <2>4 DEF Ready, ReadyAt
  <2> QED
    BY <2>1, <2>5 DEF Finds
<1> QED
  BY <1>11, <1>12 DEF ts, e

\* The tree that is nothing but its root.
LEMMA RootTree == Tree(<<Open(0)>>) /\ Seen(<<Open(0)>>)
<1> DEFINE o == Open(0)
           tr == <<o>>
<1>1. /\ o \in Node /\ o.kind = "open" /\ o.parent = 0 /\ o.kids = <<>>
  BY OpenNode
<1> HIDE DEF o
<1>2. tr \in Seq(Node) /\ Len(tr) = 1 /\ tr[1] = o
  BY <1>1, OneTask
<1> HIDE DEF tr
<1>3. Len(o.kids) = 0
  BY <1>1
<1>4. \A i \in 1..Len(tr) : i = 1
  BY <1>2
<1>5. 1..Len(tr[1].kids) = {}
  BY <1>2, <1>3
<1>6. Shape(tr, 1)
  BY <1>1, <1>2, <1>3 DEF Shape
<1>7. Len(tr) \in 1..MaxNodes
  BY <1>2, ConstantsAssumption
<1>8. \A i \in 1..Len(tr) :
        /\ Shape(tr, i)
        /\ \A j \in 1..Len(tr[i].kids) :
             tr[i].kids[j] \in 1..Len(tr) /\ tr[tr[i].kids[j]].parent = i
        /\ tr[i].parent < i
        /\ tr[i].parent # 0 => tr[tr[i].parent].kind # "open"
  BY <1>1, <1>2, <1>4, <1>5, <1>6
<1>9. Tree(tr)
  BY <1>1, <1>2, <1>7, <1>8 DEF Tree
<1>10. Seen(tr)
  <2> DEFINE vis == [m \in 1..Len(tr) |-> Libs]
  <2>1. vis \in [1..Len(tr) -> SUBSET Names]
    BY ConstantsAssumption
  <2>2. \A m \in 1..Len(tr) : tr[m].parent = 0 /\ vis[m] = Libs
    BY <1>1, <1>2, <1>4
  <2> HIDE DEF vis
  <2>3. Visible(tr, vis)
    BY <2>1, <2>2 DEF Visible
  <2> QED
    BY <2>3 DEF Seen
<1> QED
  BY <1>9, <1>10 DEF tr, o

\* It holds at the start.
LEMMA InductiveInit == Init => Inductive
<1> SUFFICES ASSUME Init PROVE Inductive
  OBVIOUS
<1>1. tree = <<Open(0)>> /\ tasks = <<Visit(1)>> /\ env = InitialEnv
  BY DEF Init
<1>2. Tree(tree) /\ Seen(tree)
  BY <1>1, RootTree
<1>3. Good(tree, tasks, env)
  BY <1>1, <1>2, PassStarts
<1>4. pass = "sem" /\ error = ""
  BY DEF Init
<1> QED
  BY <1>2, <1>3, <1>4 DEF Inductive, Stopped

\* A lookup that fails leaves the name as it was not found.
LEMMA ResolveStops ==
  ASSUME Good(tree, tasks, env), tasks # <<>>, First.do = "visit", error = "", NEW us,
         Resolve(us), UNCHANGED <<pass, env>>
  PROVE  Stopped' /\ error' \in {"", "unknown", "duplicate"}
<1>1. CASE LookupEntry(N.name) = Unbound
  <2>1. ~ Known(env, N.name)
    BY <1>1, Start, Lookup
  <2>2. tree' = tree /\ tasks' = tasks /\ env' = env /\ error' = "unknown"
    BY <1>1 DEF Resolve
  <2>3. First' = First /\ N' = N
    BY <2>2 DEF First, N
  <2> QED
    BY <2>1, <2>2, <2>3 DEF Stopped
<1>2. CASE LookupEntry(N.name) # Unbound
  <2>1. error' = ""
    BY <1>2 DEF Resolve
  <2> QED
    BY <2>1 DEF Stopped
<1> QED
  BY <1>1, <1>2

\* Every step keeps it.
LEMMA InductiveStep == Inductive /\ [Next]_vars => Inductive'
<1> SUFFICES ASSUME Inductive, [Next]_vars PROVE Inductive'
  OBVIOUS
<1>g. /\ Good(tree, tasks, env) /\ Seen(tree)
      /\ pass \in {"sem", "codegen", "done"} /\ error \in {"", "unknown", "duplicate"}
      /\ pass = "codegen" => Finds(tree, tasks, env)
  BY DEF Inductive
<1>m. ASSUME Moving, UNCHANGED pass, Stopped', error' \in {"", "unknown", "duplicate"}
      PROVE  Inductive'
  BY <1>g, <1>m DEF Moving, Moves, Inductive
<1>s. ASSUME GoodNext, pass' # "codegen", pass' \in {"sem", "codegen", "done"},
             error' \in {"", "unknown", "duplicate"}
      PROVE  Inductive'
  BY <1>g, <1>s DEF GoodNext, Inductive, Stopped
<1>e. ASSUME error = "", UNCHANGED error PROVE Stopped'
  BY <1>e DEF Stopped
<1>1. CASE ChooseExpr
  <2>1. error = "" /\ UNCHANGED <<pass, error>>
    BY <1>1 DEF ChooseExpr
  <2> QED
    BY <1>1, <1>g, <1>m, <1>e, <2>1, ChooseExprMoves
<1>2. CASE ChooseLet
  <2>1. error = "" /\ UNCHANGED <<pass, error>>
    BY <1>2 DEF ChooseLet
  <2> QED
    BY <1>2, <1>g, <1>m, <1>e, <2>1, ChooseLetMoves
<1>3. CASE VisitPlain
  <2>1. error = "" /\ UNCHANGED <<pass, error>>
    BY <1>3 DEF VisitPlain
  <2> QED
    BY <1>3, <1>g, <1>m, <1>e, <2>1, VisitPlainMoves
<1>4. CASE VisitUse
  <2>1. /\ error = "" /\ UNCHANGED pass /\ tasks # <<>> /\ First.do = "visit"
        /\ Resolve(<<>>) /\ UNCHANGED <<pass, env>>
    BY <1>4 DEF VisitUse, At
  <2>2. Stopped' /\ error' \in {"", "unknown", "duplicate"}
    BY <1>g, <2>1, ResolveStops
  <2> QED
    BY <1>4, <1>g, <1>m, <2>1, <2>2, VisitUseMoves
<1>5. CASE Close
  <2>1. error = "" /\ UNCHANGED <<pass, error>>
    BY <1>5 DEF Close
  <2> QED
    BY <1>5, <1>g, <1>m, <1>e, <2>1, CloseMoves
<1>6. CASE SemLet
  <2>1. pass' # "codegen" /\ pass' = pass /\ error' = error
    BY <1>6 DEF SemLet, At
  <2> QED
    BY <1>6, <1>g, <1>s, <2>1, SemLetGood
<1>7. CASE SemDefine
  <2>1. pass' # "codegen" /\ pass' = pass /\ error' = error
    BY <1>7 DEF SemDefine
  <2> QED
    BY <1>7, <1>g, <1>s, <2>1, SemDefineGood
<1>8. CASE SemLetRec
  <2>1. pass' # "codegen" /\ pass' = pass /\ error' = error
    BY <1>8 DEF SemLetRec, At
  <2> QED
    BY <1>8, <1>g, <1>s, <2>1, SemLetRecGood
<1>9. CASE SemVar
  <2>1. pass' # "codegen" /\ pass' = pass /\ error' = error
    BY <1>9 DEF SemVar, At
  <2> QED
    BY <1>9, <1>g, <1>s, <2>1, SemVarGood
<1>10. CASE SemType
  <2>1. error = "" /\ UNCHANGED <<pass, error>>
    BY <1>10 DEF SemType
  <2> QED
    BY <1>10, <1>g, <1>m, <1>e, <2>1, SemTypeMoves
<1>11. CASE SemNew
  <2>1. /\ pass' # "codegen" /\ pass' = pass
        /\ error' \in {"", "unknown", "duplicate"}
    BY <1>11, <1>g DEF SemNew
  <2> QED
    BY <1>11, <1>g, <1>s, <2>1, SemNewGood
<1>12. CASE SemDecl
  <2>1. pass' # "codegen" /\ pass' = pass /\ error' = error
    BY <1>12 DEF SemDecl, At
  <2> QED
    BY <1>12, <1>g, <1>s, <2>1, SemDeclGood
<1>13. CASE SemFor
  <2>1. pass' # "codegen" /\ pass' = pass /\ error' = error
    BY <1>13 DEF SemFor, At
  <2> QED
    BY <1>13, <1>g, <1>s, <2>1, SemForGood
<1>14. CASE SemIndex
  <2>1. /\ error = "" /\ UNCHANGED pass /\ tasks # <<>> /\ First.do = "visit"
        /\ Resolve(<<>>) /\ UNCHANGED <<pass, env>>
    BY <1>14 DEF SemIndex, At
  <2>2. Stopped' /\ error' \in {"", "unknown", "duplicate"}
    BY <1>g, <2>1, ResolveStops
  <2> QED
    BY <1>14, <1>g, <1>m, <2>1, <2>2, SemIndexMoves
<1>15. CASE SemDone
  <2>1. /\ error = "" /\ error' = "" /\ pass' = "codegen" /\ tree' = tree
        /\ tasks' = <<Visit(1)>> /\ env' = InitialEnv
    BY <1>15 DEF SemDone
  <2>2. Tree(tree)
    BY <1>g DEF Good
  <2>3. Good(tree', tasks', env') /\ Finds(tree', tasks', env')
    BY <1>g, <2>1, <2>2, PassStarts
  <2> QED
    BY <1>g, <2>1, <2>3 DEF Inductive, Stopped
<1>16. CASE GenLet
  <2>1. error = "" /\ UNCHANGED <<pass, error>>
    BY <1>16 DEF GenLet, At
  <2> QED
    BY <1>16, <1>g, <1>m, <1>e, <2>1, GenLetMoves
<1>17. CASE GenLetRec
  <2>1. error = "" /\ UNCHANGED <<pass, error>>
    BY <1>17 DEF GenLetRec, At
  <2> QED
    BY <1>17, <1>g, <1>m, <1>e, <2>1, GenLetRecMoves
<1>18. CASE Bind
  <2>1. error = "" /\ UNCHANGED <<pass, error>>
    BY <1>18 DEF Bind
  <2> QED
    BY <1>18, <1>g, <1>m, <1>e, <2>1, BindMoves
<1>19. CASE GenVar
  <2>1. error = "" /\ UNCHANGED <<pass, error>>
    BY <1>19 DEF GenVar
  <2> QED
    BY <1>19, <1>g, <1>m, <1>e, <2>1, GenVarMoves
<1>20. CASE GenFun
  <2>1. error = "" /\ UNCHANGED <<pass, error>>
    BY <1>20 DEF GenFun, At
  <2> QED
    BY <1>20, <1>g, <1>m, <1>e, <2>1, GenFunMoves
<1>21. CASE GenFor
  <2>1. error = "" /\ UNCHANGED <<pass, error>>
    BY <1>21 DEF GenFor, At
  <2> QED
    BY <1>21, <1>g, <1>m, <1>e, <2>1, GenForMoves
<1>22. CASE GenForOpen
  <2>1. error = "" /\ UNCHANGED <<pass, error>>
    BY <1>22 DEF GenForOpen, At
  <2> QED
    BY <1>22, <1>g, <1>m, <1>e, <2>1, GenForOpenMoves
<1>23. CASE GenIndex
  <2>1. /\ error = "" /\ UNCHANGED pass /\ tasks # <<>> /\ First.do = "visit"
        /\ Resolve(<<Visit(Kid(1))>>) /\ UNCHANGED <<pass, env>>
    BY <1>23 DEF GenIndex, At
  <2>2. Stopped' /\ error' \in {"", "unknown", "duplicate"}
    BY <1>g, <2>1, ResolveStops
  <2> QED
    BY <1>23, <1>g, <1>m, <2>1, <2>2, GenIndexMoves
<1>24. CASE GenDone
  <2>1. /\ pass' = "done" /\ UNCHANGED <<tree, tasks, env, error>>
    BY <1>24 DEF GenDone
  <2> QED
    BY <1>g, <2>1 DEF Inductive, Stopped
<1>25. CASE UNCHANGED vars
  <2>1. Stopped'
    <3>1. Stopped /\ UNCHANGED <<tree, pass, tasks, env, error>>
      BY <1>25 DEF vars, Inductive
    <3>2. First' = First /\ N' = N
      BY <3>1 DEF First, N
    <3> QED
      BY <3>1, <3>2 DEF Stopped
  <2> QED
    BY <1>25, <1>g, <2>1 DEF vars, Inductive
<1> QED
  BY <1>1, <1>2, <1>3, <1>4, <1>5, <1>6, <1>7, <1>8, <1>9, <1>10, <1>11, <1>12, <1>13, <1>14, <1>15,
     <1>16, <1>17, <1>18, <1>19, <1>20, <1>21, <1>22, <1>23, <1>24, <1>25 DEF Next

\* So it holds always.
LEMMA InductiveAlways == Spec => []Inductive
BY InductiveInit, InductiveStep, PTL DEF Spec

-----------------------------------------------------------------------------
(* What it says.                                                           *)

\* Whatever the two walks meet, nodes, tasks and tables are what they should
\* be; in particular scopes are closed by what opened them, and neither the
\* scope of the library nor that of the program is ever closed.
THEOREM TypeCorrect == Spec => []TypeOK
<1>1. Inductive => TypeOK
  <2> SUFFICES ASSUME Inductive PROVE TypeOK
    OBVIOUS
  <2>1. /\ Tree(tree) /\ tasks \in Seq(TasksOf(tree)) /\ env \in Seq(Scopes)
        /\ Scoped(tree, tasks, env)
    BY DEF Inductive, Good
  <2>2. tree \in Seq(Node) /\ Len(tree) <= MaxNodes
    BY <2>1, ConstantsAssumption DEF Tree
  <2>3. tasks \in Seq([do: Tasks, node: Nodes, level: Nat])
    <3>1. TasksOf(tree) \subseteq [do: Tasks, node: Nodes, level: Nat]
      BY DEF TasksOf, Nodes
    <3>2. \A q \in 1..Len(tasks) : tasks[q] \in TasksOf(tree)
      BY <2>1
    <3>3. tasks \in [1..Len(tasks) -> [do: Tasks, node: Nodes, level: Nat]]
          /\ Len(tasks) \in Nat
      BY <2>1, <3>1, <3>2
    <3> QED
      BY <3>3, Elements
  <2>4. ScopesFollowTree
    BY <2>1 DEF Scoped, ScopesFollowTree, LevelAt, Closed
  <2>5. ASSUME NEW l \in 1..Len(env)
        PROVE  DOMAIN env[l] \subseteq Names /\ \A n \in DOMAIN env[l] : env[l][n] \in Referents
    <3>1. env[l] \in Scopes
      BY <2>1
    <3>2. PICK D \in SUBSET Names : env[l] \in [D -> Referents]
      BY <3>1 DEF Scopes
    <3> QED
      BY <3>2
  <2> QED
    BY <2>2, <2>3, <2>4, <2>5 DEF TypeOK, Inductive
<1> QED
  BY <1>1, InductiveAlways, PTL

\* Sees, Meaning and Lexical, of any tree.
SeenIn(tr, p, k, n) ==
  {d \in {tr[p].kids[j] : j \in DOMAIN tr[p].kids} :
     /\ tr[d].kind \in Defs /\ tr[d].name = n
     /\ k = Last(tr, p) \/ (tr[p].kind = "letrec" /\ tr[d].kind = "fun")}

\* What n stands for at k, if it stands for outer at its parent.
MeanBy(tr, k, n, outer) ==
  LET p == tr[k].parent IN
    IF p = 0 THEN (IF n \in Libs THEN Library ELSE Unbound)
    ELSE IF tr[p].kind \in {"let", "letrec"} /\ SeenIn(tr, p, k, n) # {}
      THEN CHOOSE d \in SeenIn(tr, p, k, n) : \A e \in SeenIn(tr, p, k, n) : e <= d
    ELSE IF tr[p].kind = "fun" /\ tr[p].par = n THEN Parameter(p)
    ELSE IF tr[p].kind = "for" /\ tr[p].name = n /\ k = Last(tr, p) THEN p
    ELSE outer

\* What n stands for at node i.
Mean(tr, i, n) ==
  LET at[k \in 1..Len(tr)] == MeanBy(tr, k, n, at[tr[k].parent]) IN at[i]

\* Lexical scope is recursive in the parents: there is such a function.
LEMMA MeanEq ==
  ASSUME NEW tr, Tree(tr), NEW n
  PROVE  \A i \in 1..Len(tr) : Mean(tr, i, n) = MeanBy(tr, i, n, Mean(tr, tr[i].parent, n))
<1> DEFINE Up(g, k) == MeanBy(tr, k, n, g[tr[k].parent])
           Eq(m, g) == \A k \in 1..m : g[k] = Up(g, k)
           L == Len(tr)
           X == {m \in Nat : m <= L /\ ~ \E g : g = [k \in 1..m |-> g[k]] /\ Eq(m, g)}
<1>1. L \in Nat /\ \A k \in 1..L : tr[k].parent \in Nat /\ tr[k].parent < k
  BY NodeFields DEF Tree
<1>2. ASSUME NEW g, NEW h, NEW k, tr[k].parent # 0 => g[tr[k].parent] = h[tr[k].parent]
      PROVE  Up(g, k) = Up(h, k)
  BY <1>2 DEF MeanBy
<1>3. X = {}
  <2> SUFFICES ASSUME X # {} PROVE FALSE
    OBVIOUS
  <2>1. PICK m \in X : \A j \in X : m <= j
    <3>1. X \in SUBSET Nat
      OBVIOUS
    <3> HIDE DEF X
    <3> QED
      BY <3>1, Least
  <2>2. m \in Nat /\ m <= L /\ ~ \E g : g = [k \in 1..m |-> g[k]] /\ Eq(m, g)
    BY <2>1
  <2>3. CASE m = 0
    <3> DEFINE g == [k \in 1..m |-> 0]
    <3>1. g = [k \in 1..m |-> g[k]] /\ Eq(m, g)
      BY <2>3
    <3> QED
      BY <2>2, <3>1
  <2>4. CASE m # 0
    <3>1. m - 1 \in Nat /\ m - 1 <= L /\ ~(m <= m - 1) /\ m \in 1..L
      BY <1>1, <2>2, <2>4
    <3>2. m - 1 \notin X
      BY <2>1, <3>1
    <3>3. PICK g : g = [k \in 1..m - 1 |-> g[k]] /\ Eq(m - 1, g)
      <4> HIDE DEF Eq
      <4> QED
        BY <3>1, <3>2
    <3> DEFINE h == [k \in 1..m |-> IF k = m THEN Up(g, m) ELSE g[k]]
    <3>4. \A k \in 1..m - 1 : k \in 1..m /\ k # m /\ h[k] = g[k] /\ k \in 1..L
      BY <1>1, <2>2
    <3>5. h[m] = Up(g, m)
      BY <3>1
    <3>6. h = [k \in 1..m |-> h[k]]
      OBVIOUS
    <3> HIDE DEF h
    <3>7. ASSUME NEW k \in 1..m PROVE h[k] = Up(h, k)
      <4> DEFINE p == tr[k].parent
      <4>1. k \in 1..L
        BY <1>1, <2>2
      <4>2. p \in Nat /\ p < k
        BY <1>1, <4>1
      <4>3. p # 0 => p \in 1..m - 1
        BY <2>2, <4>2
      <4>4. p # 0 => h[p] = g[p]
        BY <3>4, <4>3
      <4>5. Up(h, k) = Up(g, k)
        BY <1>2, <4>4
      <4>6. CASE k = m
        BY <3>5, <4>5, <4>6
      <4>7. CASE k # m
        <5>1. k \in 1..m - 1
          BY <2>2, <4>7
        <5> QED
          BY <3>3, <3>4, <4>5, <5>1
      <4> QED
        BY <4>6, <4>7
    <3>8. Eq(m, h)
      BY <3>7
    <3> HIDE DEF Eq
    <3> QED
      BY <2>2, <3>6, <3>8
  <2> QED
    BY <2>3, <2>4
<1> DEFINE at == CHOOSE g : g = [k \in 1..L |-> Up(g, k)]
<1>4. \A i : Mean(tr, i, n) = at[i]
  BY DEF Mean
<1>5. PICK g : g = [k \in 1..L |-> g[k]] /\ Eq(L, g)
  <2>1. L \notin X
    BY <1>3
  <2> HIDE DEF Eq
  <2> QED
    BY <1>1, <2>1
<1>6. g = [k \in 1..L |-> Up(g, k)]
  BY <1>5
<1>7. at = [k \in 1..L |-> Up(at, k)]
  BY <1>6
<1> HIDE DEF at
<1>8. \A k \in 1..L : at[k] = Up(at, k)
  BY <1>7
<1> QED
  BY <1>4, <1>8

\* Of the tree that there is, it is what Lexical says.
LEMMA LexicalMean ==
  ASSUME Tree(tree), NEW i, NEW n
  PROVE  Lexical(i, n) = Mean(tree, i, n)
BY DEF Lexical, Mean, Meaning, MeanBy, Sees, SeenIn, IsDefinitionOf, Last

\* The definitions of a let.
DefKids(tr, p) == {tr[p].kids[j] : j \in 1..Len(tr[p].kids) - 1}

\* Those of a name are what an expression of the let may see.
LEMMA SeenDefs ==
  ASSUME NEW tr, Tree(tr), NEW p \in 1..Len(tr), tr[p].kind \in {"let", "letrec"},
         NEW k, NEW n
  PROVE  SeenIn(tr, p, k, n) =
           {d \in DefKids(tr, p) :
              /\ tr[d].name = n
              /\ k = Last(tr, p) \/ (tr[p].kind = "letrec" /\ tr[d].kind = "fun")}
<1> DEFINE Kids == tr[p].kids
           m == Len(Kids)
           b == Last(tr, p)
<1>1. /\ Kids \in Seq(1..Len(tr)) /\ m \in Nat /\ m >= 2
      /\ \A j \in 1..m - 1 : tr[Kids[j]].kind \in Defs
  BY KidsOf DEF Shape
<1>2. tr[Kids[m]].kind \notin Defs
  BY LetKids DEF Last
<1>3. DOMAIN Kids = 1..m
  BY <1>1
<1> HIDE DEF Kids, m, b
<1>4. \A j \in 1..m : j = m \/ j \in 1..m - 1
  BY <1>1
<1>5. {d \in {Kids[j] : j \in 1..m} : tr[d].kind \in Defs} = {Kids[j] : j \in 1..m - 1}
  <2>1. \A j \in 1..m - 1 : j \in 1..m
    BY <1>1
  <2> QED
    BY <1>1, <1>2, <1>4, <2>1
<1>6. SeenIn(tr, p, k, n) =
        {d \in {d \in {Kids[j] : j \in 1..m} : tr[d].kind \in Defs} :
           /\ tr[d].name = n
           /\ k = b \/ (tr[p].kind = "letrec" /\ tr[d].kind = "fun")}
  BY <1>3 DEF SeenIn, Kids, b
<1> QED
  BY <1>5, <1>6 DEF DefKids, Kids, m, b

\* A name that has a definition in scope is visible.
LEMMA LexicalVisible ==
  ASSUME Tree(tree), NEW vis, Visible(tree, vis), NEW i \in 1..Len(tree), NEW n \in Names,
         Lexical(i, n) # Unbound
  PROVE  n \in vis[i]
<1> DEFINE L == Len(tree)
           at(k) == Mean(tree, k, n)
           X == {k \in Nat : k \in 1..L /\ at(k) # Unbound /\ n \notin vis[k]}
<1>1. \A k \in 1..L : at(k) = MeanBy(tree, k, n, at(tree[k].parent))
  BY MeanEq
<1> HIDE DEF at
<1>2. X = {}
  <2> SUFFICES ASSUME X # {} PROVE FALSE
    OBVIOUS
  <2>1. PICK k \in X : \A j \in X : k <= j
    <3>1. X \in SUBSET Nat
      OBVIOUS
    <3> HIDE DEF X
    <3> QED
      BY <3>1, Least
  <2> DEFINE p == tree[k].parent
  <2>2. k \in 1..L /\ at(k) # Unbound /\ n \notin vis[k]
    BY <2>1
  <2>3. p \in Nat /\ p < k /\ tree \in Seq(Node)
    BY <2>2, NodeFields DEF Tree
  <2>4. vis[k] = IF p = 0 THEN Libs ELSE vis[p] \cup Adds(tree, p, k)
    BY <2>2 DEF Visible
  <2>5. CASE p = 0
    <3>1. n \notin Libs
      BY <2>2, <2>4, <2>5
    <3>2. at(k) = Unbound
      BY <1>1, <2>2, <2>5, <3>1 DEF MeanBy
    <3> QED
      BY <2>2, <3>2
  <2>6. CASE p # 0
    <3>1. p \in 1..L
      BY <2>2, <2>3, <2>6
    <3>2. n \notin vis[p] /\ n \notin Adds(tree, p, k)
      BY <2>2, <2>4, <2>6
    <3>3. at(p) = Unbound
      <4>1. p \notin X
        <5>1. k \in Nat /\ ~(k <= p)
          BY <2>2, <2>3
        <5> HIDE DEF X
        <5> QED
          BY <2>1, <5>1
      <4> QED
        BY <2>3, <3>1, <3>2, <4>1
    <3>4. tree[p].kind \in {"let", "letrec"} => SeenIn(tree, p, k, n) = {}
      <4> SUFFICES ASSUME tree[p].kind \in {"let", "letrec"}, NEW d \in SeenIn(tree, p, k, n)
                   PROVE  FALSE
        OBVIOUS
      <4>1. /\ d \in DefKids(tree, p) /\ tree[d].name = n
            /\ k = Last(tree, p) \/ (tree[p].kind = "letrec" /\ tree[d].kind = "fun")
        BY <3>1, SeenDefs
      <4>2. PICK j \in 1..Len(tree[p].kids) - 1 : d = tree[p].kids[j]
        BY <4>1 DEF DefKids
      <4> QED
        BY <3>2, <4>1, <4>2 DEF Adds
    <3>5. ~(tree[p].kind = "fun" /\ tree[p].par = n)
      BY <3>2, ZenonT(40) DEF Adds
    <3>6. ~(tree[p].kind = "for" /\ tree[p].name = n /\ k = Last(tree, p))
      BY <3>2 DEF Adds
    <3>7. MeanBy(tree, k, n, at(p)) = at(p)
      BY <2>6, <3>4, <3>5, <3>6 DEF MeanBy
    <3> QED
      BY <1>1, <2>2, <3>3, <3>7
  <2> QED
    BY <2>5, <2>6
<1>3. i \in Nat /\ i \notin X /\ at(i) # Unbound
  BY <1>2, LexicalMean DEF at
<1> QED
  BY <1>3

\* codegen() says "Unknown identifier" only of a name without a definition in
\* scope: it finds all others, whether sem() has looked at them or not.
THEOREM KnowsNames == Spec => []CodegenKnowsNames
<1>1. Inductive => CodegenKnowsNames
  <2> SUFFICES ASSUME Inductive, pass = "codegen", error = "unknown"
               PROVE  Lexical(First.node, N.name) = Unbound
    BY DEF CodegenKnowsNames
  <2>1. /\ Good(tree, tasks, env) /\ tasks # <<>> /\ First.do = "visit"
        /\ ~ Known(env, N.name) /\ Finds(tree, tasks, env)
    BY DEF Inductive, Stopped
  <2>2. /\ Tree(tree) /\ First.node \in 1..Len(tree) /\ First = tasks[1] /\ N.name \in Names
    BY <2>1, Start
  <2>3. PICK vis : Visible(tree, vis) /\ Ready(tree, vis, tasks, env)
    BY <2>1 DEF Finds
  <2>4. \A n \in vis[First.node] : Known(env, n)
    BY <2>1, <2>2, <2>3, KnownNow
  <2>5. N.name \notin vis[First.node]
    BY <2>1, <2>4
  <2> QED
    BY <2>2, <2>3, <2>5, LexicalVisible
<1> QED
  BY <1>1, InductiveAlways, PTL

-----------------------------------------------------------------------------
(* What a name stands for in a subexpression.                              *)

\* The definitions of let p have different names, none of which is in scope.
Distinct(tr, p) ==
  \A d \in DefKids(tr, p) :
    /\ Mean(tr, p, tr[d].name) = Unbound
    /\ \A c \in DefKids(tr, p) : tr[c].name = tr[d].name => c = d

\* So it is in every let.
Scoping(tr) == \A p \in 1..Len(tr) : tr[p].kind \in {"let", "letrec"} => Distinct(tr, p)

\* Definitions are nodes.
LEMMA DefKidsOf ==
  ASSUME NEW tr, Tree(tr), NEW p \in 1..Len(tr), tr[p].kind \in {"let", "letrec"},
         NEW d \in DefKids(tr, p)
  PROVE  /\ d \in 1..Len(tr) /\ tr[d].parent = p /\ tr[d].kind \in Defs
         /\ tr[d].name \in Names /\ d # Unbound
<1>1. PICK j \in 1..Len(tr[p].kids) - 1 : d = tr[p].kids[j]
  BY DEF DefKids
<1>2. Len(tr[p].kids) \in Nat /\ Shape(tr, p)
  BY KidsOf
<1>3. j \in 1..Len(tr[p].kids)
  BY <1>2
<1>4. d \in 1..Len(tr) /\ tr[d].parent = p
  BY <1>1, <1>3, KidsOf
<1>5. tr[d].kind \in Defs
  BY <1>1, <1>2 DEF Shape
<1>6. tr[d].name \in Names
  BY <1>4, NodeFields DEF Tree
<1> QED
  BY <1>4, <1>5, <1>6 DEF Unbound

\* An expression of a let sees one definition of a name at most, and what it
\* does not see there stands for the same as further out.
LEMMA MeanLet ==
  ASSUME NEW tr, Tree(tr), Scoping(tr), NEW p \in 1..Len(tr),
         tr[p].kind \in {"let", "letrec"},
         NEW k \in 1..Len(tr), tr[k].parent = p, NEW n
  PROVE  /\ \A d \in SeenIn(tr, p, k, n) : Mean(tr, k, n) = d /\ Mean(tr, p, n) = Unbound
         /\ SeenIn(tr, p, k, n) = {} => Mean(tr, k, n) = Mean(tr, p, n)
<1> DEFINE S == SeenIn(tr, p, k, n)
<1>1. Mean(tr, k, n) = MeanBy(tr, k, n, Mean(tr, p, n))
  BY MeanEq
<1>2. p # 0 /\ tr[p].kind \notin {"fun", "for"}
  OBVIOUS
<1>3. Mean(tr, k, n) = IF S # {} THEN CHOOSE d \in S : \A e \in S : e <= d
                       ELSE Mean(tr, p, n)
  BY <1>1, <1>2 DEF MeanBy
<1>4. ASSUME NEW d \in S PROVE Mean(tr, k, n) = d /\ Mean(tr, p, n) = Unbound
  <2>1. d \in DefKids(tr, p) /\ tr[d].name = n
    BY <1>4, SeenDefs
  <2>2. \A e \in S : e = d
    BY <2>1, SeenDefs DEF Scoping, Distinct
  <2>3. S = {d} /\ d \in Nat
    BY <2>1, <2>2, DefKidsOf
  <2>4. (CHOOSE c \in {d} : \A e \in {d} : e <= c) = d
    BY <2>3
  <2>5. Mean(tr, p, n) = Unbound
    BY <2>1 DEF Scoping, Distinct
  <2> HIDE DEF S
  <2> QED
    BY <1>3, <2>3, <2>4, <2>5
<1> QED
  BY <1>3, <1>4

\* So it is in a function and in a loop, but for what they are opened for, and
\* in all other expressions.
LEMMA MeanOther ==
  ASSUME NEW tr, Tree(tr), NEW p \in 1..Len(tr), tr[p].kind \notin {"let", "letrec"},
         NEW k \in 1..Len(tr), tr[k].parent = p, NEW n
  PROVE  Mean(tr, k, n) =
           IF tr[p].kind = "fun" /\ tr[p].par = n THEN Parameter(p)
           ELSE IF tr[p].kind = "for" /\ tr[p].name = n /\ k = Last(tr, p) THEN p
           ELSE Mean(tr, p, n)
<1>1. Mean(tr, k, n) = MeanBy(tr, k, n, Mean(tr, p, n))
  BY MeanEq
<1>2. p # 0
  OBVIOUS
<1> QED
  BY <1>1, <1>2 DEF MeanBy

\* A name that is in scope is so in all subexpressions.
LEMMA Inherits ==
  ASSUME NEW tr, Tree(tr), Scoping(tr), NEW p \in 1..Len(tr),
         NEW k \in 1..Len(tr), tr[k].parent = p, NEW n, Mean(tr, p, n) # Unbound
  PROVE  Mean(tr, k, n) # Unbound
<1>1. CASE tr[p].kind \in {"let", "letrec"}
  <2>1. SeenIn(tr, p, k, n) = {}
    BY <1>1, MeanLet
  <2> QED
    BY <1>1, <2>1, MeanLet
<1>2. CASE tr[p].kind \notin {"let", "letrec"}
  <2>1. Parameter(p) # Unbound /\ p # Unbound
    BY ConstantsAssumption DEF Parameter, Unbound
  <2> QED
    BY <1>2, <2>1, MeanOther
<1> QED
  BY <1>1, <1>2

\* The root knows the names of the library.
LEMMA MeanRoot ==
  ASSUME NEW tr, Tree(tr), NEW n
  PROVE  Mean(tr, 1, n) = IF n \in Libs THEN Library ELSE Unbound
<1>1. 1 \in 1..Len(tr) /\ tr[1].parent = 0
  BY DEF Tree
<1>2. Mean(tr, 1, n) = MeanBy(tr, 1, n, Mean(tr, 0, n))
  BY <1>1, MeanEq
<1> QED
  BY <1>1, <1>2 DEF MeanBy

\* What a name stands for does not change when the tree grows.
LEMMA MeanExtends ==
  ASSUME NEW tr, Tree(tr), NEW cs, Tree(cs), Extends(tr, cs), NEW n
  PROVE  \A i \in 1..Len(tr) : Mean(cs, i, n) = Mean(tr, i, n)
<1> DEFINE X == {i \in Nat : i \in 1..Len(tr) /\ Mean(cs, i, n) # Mean(tr, i, n)}
<1>1. X = {}
  <2> SUFFICES ASSUME X # {} PROVE FALSE
    OBVIOUS
  <2>1. PICK i \in X : \A j \in X : i <= j
    <3>1. X \in SUBSET Nat
      OBVIOUS
    <3> HIDE DEF X
    <3> QED
      BY <3>1, Least
  <2> DEFINE p == tr[i].parent
  <2>2. i \in 1..Len(tr) /\ Mean(cs, i, n) # Mean(tr, i, n)
    BY <2>1
  <2>3. i \in 1..Len(cs) /\ cs[i].parent = p
    BY <2>2 DEF Extends, Tree
  <2>4. /\ Mean(cs, i, n) = MeanBy(cs, i, n, Mean(cs, p, n))
        /\ Mean(tr, i, n) = MeanBy(tr, i, n, Mean(tr, p, n))
    BY <2>2, <2>3, MeanEq
  <2>5. p \in Nat /\ p < i /\ (p # 0 => tr[p].kind # "open")
    BY <2>2, NodeFields DEF Tree
  <2>6. CASE p = 0
    BY <2>2, <2>3, <2>4, <2>6 DEF MeanBy
  <2>7. CASE p # 0
    <3>1. p \in 1..Len(tr) /\ p \in 1..Len(cs)
      BY <2>2, <2>5, <2>7 DEF Extends, Tree
    <3>2. /\ cs[p].kind = tr[p].kind /\ cs[p].kids = tr[p].kids
          /\ cs[p].name = tr[p].name /\ cs[p].par = tr[p].par
      BY <2>5, <2>7, <3>1 DEF Extends
    <3>3. Mean(cs, p, n) = Mean(tr, p, n)
      <4>1. ~(i <= p) /\ p \in Nat
        BY <2>2, <2>5
      <4>2. p \notin X
        <5> HIDE DEF X
        <5> QED
          BY <2>1, <4>1
      <4> QED
        BY <3>1, <4>1, <4>2
    <3>4. Last(cs, p) = Last(tr, p) /\ DefKids(cs, p) = DefKids(tr, p)
      BY <3>2 DEF Last, DefKids
    <3>5. tr[p].kind \in {"let", "letrec"} => SeenIn(cs, p, i, n) = SeenIn(tr, p, i, n)
      <4> SUFFICES ASSUME tr[p].kind \in {"let", "letrec"}
                   PROVE  SeenIn(cs, p, i, n) = SeenIn(tr, p, i, n)
        OBVIOUS
      <4>1. \A d \in DefKids(tr, p) : cs[d].name = tr[d].name /\ cs[d].kind = tr[d].kind
        <5>1. \A d \in DefKids(tr, p) : d \in 1..Len(tr) /\ tr[d].kind # "open"
          BY <3>1, DefKidsOf DEF Defs
        <5> QED
          BY <5>1 DEF Extends
      <4> DEFINE D == DefKids(tr, p)
                 Has(x, d) == /\ x[d].name = n
                              /\ i = Last(x, p) \/ (x[p].kind = "letrec" /\ x[d].kind = "fun")
      <4>2. SeenIn(tr, p, i, n) = {d \in D : Has(tr, d)}
        BY <3>1, SeenDefs
      <4>3. SeenIn(cs, p, i, n) = {d \in D : Has(cs, d)}
        <5>1. cs[p].kind \in {"let", "letrec"}
          BY <3>2
        <5>2. SeenIn(cs, p, i, n) = {d \in DefKids(cs, p) : Has(cs, d)}
          BY <3>1, <5>1, SeenDefs
        <5> QED
          BY <3>4, <5>2
      <4>4. \A d \in D : Has(cs, d) <=> Has(tr, d)
        BY <3>2, <3>4, <4>1
      <4> HIDE DEF D, Has
      <4> QED
        BY <4>2, <4>3, <4>4
    <3> QED
      BY <2>2, <2>3, <2>4, <2>7, <3>2, <3>3, <3>4, <3>5 DEF MeanBy
  <2> QED
    BY <2>6, <2>7
<1> QED
  BY <1>1

-----------------------------------------------------------------------------
(* The definitions that codegen() finds.                                   *)

\* The innermost of the first h scopes that has n, if any, has the meaning v.
Gives(e, h, n, v) ==
  \A l \in 1..h :
    n \in DOMAIN e[l] /\ (\A j \in l + 1..h : n \notin DOMAIN e[j]) => e[l][n] = v

\* The task gives n no other meaning than v, whatever it visits.
Safe(tr, t, n, v) ==
  /\ t.do = "bind" /\ tr[t.node].name = n => t.node = v
  /\ t.do \in {"visit", "open"} => Mean(tr, t.node, n) # Unbound

\* When the q-th task is next the table gives n its lexical meaning: it does
\* so now, or a task before it binds that, and those in between are safe.
ExactAt(tr, ts, e, q, n) ==
  LET v == Mean(tr, ts[q].node, n) IN
    \/ /\ Gives(e, Len(e) - Closed(ts, q), n, v)
       /\ \A r \in 1..q - 1 : Safe(tr, ts[r], n, v)
    \/ \E r \in 1..q - 1 :
         /\ ts[r].do = "bind" /\ ts[r].node = v /\ tr[v].name = n
         /\ Closed(ts, r) = Closed(ts, q)
         /\ \A s \in r + 1..q - 1 : Safe(tr, ts[s], n, v)

\* It does so for all tasks and all names in scope.
Exact(tr, ts, e) ==
  \A q \in 1..Len(ts) :
    /\ ts[q].do # "type"
    /\ ts[q].do \in {"visit", "open"} =>
         \A n \in Names : Mean(tr, ts[q].node, n) # Unbound => ExactAt(tr, ts, e, q, n)

\* What codegen() has noted of the names in scope is their lexical meaning.
Noted(tr) ==
  \A i \in 1..Len(tr) :
    /\ tr[i].kind = "open" => tr[i].codegen = Unseen
    /\ tr[i].codegen # Unseen /\ Mean(tr, i, tr[i].name) # Unbound
         => tr[i].codegen = Mean(tr, i, tr[i].name)

\* What is always true of the tree.
Lawful(tr) == Scoping(tr) /\ Noted(tr)

\* What is always true of the walk, besides what Inductive says.
Lexed ==
  /\ Lawful(tree)
  /\ pass = "codegen" => Exact(tree, tasks, env)

-----------------------------------------------------------------------------
(* The walk.                                                               *)

\* ExactAt depends on the tasks up to the q-th only.
LEMMA ExactPrefix ==
  ASSUME NEW tr, NEW us, NEW vs, NEW e, NEW q \in Nat, q >= 1, NEW n,
         \A r \in 1..q : vs[r] = us[r] /\ Closed(vs, r) = Closed(us, r),
         ExactAt(tr, us, e, q, n)
  PROVE  ExactAt(tr, vs, e, q, n)
<1> DEFINE v == Mean(tr, us[q].node, n)
<1>1. vs[q] = us[q] /\ Closed(vs, q) = Closed(us, q) /\ Mean(tr, vs[q].node, n) = v
  OBVIOUS
<1>2. \A r \in 1..q - 1 : r \in 1..q /\ \A s \in r + 1..q - 1 : s \in 1..q
  OBVIOUS
<1>3. CASE /\ Gives(e, Len(e) - Closed(us, q), n, v)
           /\ \A r \in 1..q - 1 : Safe(tr, us[r], n, v)
  BY <1>1, <1>2, <1>3 DEF ExactAt
<1>4. CASE \E r \in 1..q - 1 :
             /\ us[r].do = "bind" /\ us[r].node = v /\ tr[v].name = n
             /\ Closed(us, r) = Closed(us, q)
             /\ \A s \in r + 1..q - 1 : Safe(tr, us[s], n, v)
  <2>1. PICK r \in 1..q - 1 :
             /\ us[r].do = "bind" /\ us[r].node = v /\ tr[v].name = n
             /\ Closed(us, r) = Closed(us, q)
             /\ \A s \in r + 1..q - 1 : Safe(tr, us[s], n, v)
    BY <1>4
  <2>2. vs[r] = us[r] /\ Closed(vs, r) = Closed(us, r)
    BY <1>2
  <2>3. \A s \in r + 1..q - 1 : Safe(tr, vs[s], n, v)
    BY <1>2, <2>1
  <2> HIDE DEF v
  <2> QED
    BY <1>1, <2>1, <2>2, <2>3 DEF ExactAt
<1> QED
  BY <1>3, <1>4 DEF ExactAt

\* What is safe for the first of ts is so for the tasks us that replace it, and
\* the scopes d, below those that ts[1] closes, give no other meaning than e.
Calm(tr, ts, us, e, d) ==
  \A n \in Names : \A v : Safe(tr, ts[1], n, v) =>
    /\ \A q \in 1..Len(us) : Safe(tr, us[q], n, v)
    /\ \A h \in Int : h <= Len(e) - Closed(ts, 2) /\ Gives(e, h, n, v) => Gives(d, h, n, v)

\* A task that binds a definition has the table give it to its name.
Binds(tr, t, us, e, d) ==
  t.do = "bind" =>
    /\ us = <<>> /\ Len(d) = Len(e)
    /\ Gives(d, Len(d), tr[t.node].name, t.node)

\* The tasks that follow find what they need when the tasks us and the scopes d
\* have replaced the first one.
LEMMA ExactFollows ==
  ASSUME NEW tr, NEW ts, NEW e, Good(tr, ts, e), ts # <<>>,
         NEW us \in Seq(TasksOf(tr)), NEW d \in Seq(Scopes), Fit(ts, us, e, d),
         Exact(tr, ts, e), Exact(tr, us, d), Calm(tr, ts, us, e, d),
         Binds(tr, ts[1], us, e, d)
  PROVE  Exact(tr, Instead(ts, us), d)
<1> DEFINE vs == Instead(ts, us)
           L == Len(us)
           m == Len(ts)
<1>1. Levels(ts, us, e, d, vs)
  BY LevelsKept
<1>2. /\ m \in Nat /\ m >= 1 /\ L \in Nat /\ Len(e) \in Nat /\ Len(d) \in Nat
      /\ ts \in Seq(TasksOf(tr))
  BY DEF Good
<1>3. Closed(ts, 1) = 0 /\ \A q \in 1..m : Closed(ts, q) \in Nat
  BY <1>2, ClosedNext
<1>4. /\ Len(vs) = L + (m - 1)
      /\ \A p \in 1..L : vs[p] = us[p] /\ Closed(vs, p) = Closed(us, p)
      /\ \A q \in 2..m :
           /\ vs[L + (q - 1)] = ts[q]
           /\ Len(d) - Closed(vs, L + (q - 1)) = Len(e) - Closed(ts, q)
           /\ Closed(vs, L + (q - 1)) = Closed(ts, q) + (Len(d) - Len(e))
           /\ Len(e) - Closed(ts, q) <= Len(e) - Closed(ts, 2)
  BY <1>1 DEF Levels
<1> HIDE DEF vs, L, m
<1>5. ASSUME NEW p \in 1..L
      PROVE  /\ vs[p].do # "type"
             /\ vs[p].do \in {"visit", "open"} =>
                  \A n \in Names : Mean(tr, vs[p].node, n) # Unbound => ExactAt(tr, vs, d, p, n)
  <2>1. vs[p] = us[p] /\ p \in Nat /\ p >= 1
    BY <1>2, <1>4
  <2>2. \A r \in 1..p : vs[r] = us[r] /\ Closed(vs, r) = Closed(us, r)
    BY <1>2, <1>4
  <2>3. \A n : ExactAt(tr, us, d, p, n) => ExactAt(tr, vs, d, p, n)
    BY ONLY <2>1, <2>2, ExactPrefix
  <2> QED
    BY <2>1, <2>3 DEF Exact, L
<1>6. ASSUME NEW q \in 2..m
      PROVE  /\ vs[L + (q - 1)].do # "type"
             /\ vs[L + (q - 1)].do \in {"visit", "open"} =>
                  \A n \in Names : Mean(tr, vs[L + (q - 1)].node, n) # Unbound
                    => ExactAt(tr, vs, d, L + (q - 1), n)
  <2> DEFINE p == L + (q - 1)
  <2>1. vs[p] = ts[q] /\ Len(d) - Closed(vs, p) = Len(e) - Closed(ts, q)
        /\ Closed(vs, p) = Closed(ts, q) + (Len(d) - Len(e))
        /\ Len(e) - Closed(ts, q) <= Len(e) - Closed(ts, 2)
    BY <1>4
  <2>2. ts[q].do # "type" /\ q \in 1..Len(ts)
    BY <1>2 DEF Exact, m
  <2> SUFFICES ASSUME ts[q].do \in {"visit", "open"}, NEW n \in Names,
                      Mean(tr, ts[q].node, n) # Unbound
               PROVE  ExactAt(tr, vs, d, p, n)
    BY <2>1, <2>2
  <2> DEFINE v == Mean(tr, ts[q].node, n)
             h == Len(e) - Closed(ts, q)
  <2>3. ExactAt(tr, ts, e, q, n)
    BY <2>2 DEF Exact
  <2>4. p \in Nat /\ q \in Nat /\ h \in Int /\ Len(d) - Closed(vs, p) = h
    <3>1. q \in 1..m /\ q \in Nat /\ p \in Nat
      BY <1>2
    <3>2. Closed(ts, q) \in Nat
      BY <1>3, <3>1
    <3>3. h \in Int
      BY <1>2, <3>2
    <3> QED
      BY <2>1, <3>1, <3>3
  <2>5. Mean(tr, vs[p].node, n) = v
    BY <2>1
  <2> HIDE DEF v, h
  <2>6. CASE Gives(e, h, n, v) /\ \A r \in 1..q - 1 : Safe(tr, ts[r], n, v)
    <3>1. Safe(tr, ts[1], n, v)
      BY <2>6, <1>2
    <3>2. \A r \in 1..L : Safe(tr, us[r], n, v)
      BY <3>1 DEF Calm, L
    <3>3. Gives(d, h, n, v)
      BY <2>1, <2>4, <2>6, <3>1 DEF Calm, h
    <3>4. ASSUME NEW r \in 1..p - 1 PROVE Safe(tr, vs[r], n, v)
      <4>1. CASE r <= L
        BY <1>2, <1>4, <3>2, <4>1
      <4>2. CASE r > L
        <5>1. r - L + 1 \in 2..m /\ r - L + 1 \in 1..q - 1 /\ L + ((r - L + 1) - 1) = r
          BY <1>2, <4>2
        <5>2. vs[r] = ts[r - L + 1]
          BY <1>4, <5>1
        <5> QED
          BY <2>6, <5>1, <5>2
      <4> QED
        BY <1>2, <4>1, <4>2
    <3> QED
      BY <2>4, <2>5, <3>3, <3>4 DEF ExactAt
  <2>7. CASE \E r \in 1..q - 1 :
               /\ ts[r].do = "bind" /\ ts[r].node = v /\ tr[v].name = n
               /\ Closed(ts, r) = Closed(ts, q)
               /\ \A s \in r + 1..q - 1 : Safe(tr, ts[s], n, v)
    <3>1. PICK r \in 1..q - 1 :
               /\ ts[r].do = "bind" /\ ts[r].node = v /\ tr[v].name = n
               /\ Closed(ts, r) = Closed(ts, q)
               /\ \A s \in r + 1..q - 1 : Safe(tr, ts[s], n, v)
      BY <2>7
    <3>2. ASSUME NEW s \in Nat, s > L, s >= L + r, s <= p - 1
          PROVE  Safe(tr, vs[s], n, v)
      <4>1. s - L + 1 \in 2..m /\ s - L + 1 \in r + 1..q - 1 /\ L + ((s - L + 1) - 1) = s
        BY <1>2, <3>2, <3>1
      <4>2. vs[s] = ts[s - L + 1]
        BY <1>4, <4>1
      <4> QED
        BY <3>1, <4>1, <4>2
    <3>3. CASE r = 1
      <4>1. us = <<>> /\ Len(d) = Len(e) /\ Gives(d, Len(d), n, v)
        BY <3>1, <3>3 DEF Binds
      <4>2. L = 0
        BY <4>1 DEF L
      <4>3. h = Len(d)
        BY <1>2, <1>3, <3>1, <3>3, <4>1 DEF h
      <4>4. \A s \in 1..p - 1 : Safe(tr, vs[s], n, v)
        BY <3>2, <3>3, <4>2
      <4> QED
        BY <2>4, <2>5, <4>1, <4>3, <4>4 DEF ExactAt
    <3>4. CASE r >= 2
      <4> DEFINE rr == L + (r - 1)
      <4>0. /\ r \in Int /\ q \in Int /\ m \in Int /\ L \in Int /\ L >= 0
            /\ r >= 2 /\ r <= q - 1 /\ q <= m
        BY <1>2, <3>4
      <4>1. r \in 2..m /\ rr \in 1..p - 1
        BY ONLY <4>0
      <4>2. vs[rr] = ts[r] /\ Closed(vs, rr) = Closed(ts, r) + (Len(d) - Len(e))
        BY <1>4, <4>1
      <4>3. Closed(vs, rr) = Closed(vs, p)
        BY <2>1, <3>1, <4>2
      <4>4. ASSUME NEW s \in rr + 1..p - 1
            PROVE  Safe(tr, vs[s], n, v)
        <5>1. s \in Nat /\ s > L /\ s >= L + r /\ s <= p - 1
          BY <4>0
        <5> QED
          BY <3>2, <5>1
      <4> HIDE DEF rr, p
      <4> QED
        BY <2>5, <3>1, <4>1, <4>2, <4>3, <4>4 DEF ExactAt
    <3> QED
      BY <3>3, <3>4
  <2> QED
    BY <2>3, <2>6, <2>7 DEF ExactAt, v, h
<1>7. ASSUME NEW p \in 1..Len(vs), p > L
      PROVE  p - L + 1 \in 2..m /\ L + ((p - L + 1) - 1) = p
  BY <1>2, <1>4, <1>7
<1>8. \A p \in 1..Len(vs) :
        /\ vs[p].do # "type"
        /\ vs[p].do \in {"visit", "open"} =>
             \A n \in Names : Mean(tr, vs[p].node, n) # Unbound => ExactAt(tr, vs, d, p, n)
  <2> TAKE p \in 1..Len(vs)
  <2>1. CASE p <= L
    BY <1>2, <1>4, <1>5, <2>1
  <2>2. CASE p > L
    BY <1>6, <1>7, <2>2
  <2> QED
    BY <1>2, <1>4, <2>1, <2>2
<1> QED
  BY <1>8 DEF Exact, vs

\* Safe tasks are so in the larger tree.
LEMMA SafeExtends ==
  ASSUME NEW tr, Tree(tr), NEW cs, Tree(cs), Extends(tr, cs),
         NEW t \in TasksOf(tr), NEW n, NEW v, Safe(tr, t, n, v)
  PROVE  Safe(cs, t, n, v)
<1>1. t.node \in 1..Len(tr) /\ (t.do = "bind" => tr[t.node].kind \in Defs)
  BY DEF TasksOf
<1>2. Mean(cs, t.node, n) = Mean(tr, t.node, n)
  BY <1>1, MeanExtends
<1>3. t.do = "bind" => cs[t.node].name = tr[t.node].name
  BY <1>1 DEF Extends, Defs
<1> QED
  BY <1>2, <1>3 DEF Safe

\* The table suits the larger tree.
LEMMA ExactExtends ==
  ASSUME NEW tr, NEW ts, NEW e, Good(tr, ts, e), NEW cs, Tree(cs), Extends(tr, cs),
         Exact(tr, ts, e)
  PROVE  Exact(cs, ts, e)
<1>1. Tree(tr) /\ ts \in Seq(TasksOf(tr))
  BY DEF Good
<1>2. \A r \in 1..Len(ts) : ts[r] \in TasksOf(tr)
  BY <1>1
<1>3. \A r \in 1..Len(ts) : \A n : \A v : Safe(tr, ts[r], n, v) => Safe(cs, ts[r], n, v)
  BY <1>1, <1>2, SafeExtends
<1>4. ASSUME NEW q \in 1..Len(ts), ts[q].do \in {"visit", "open"}, NEW n \in Names,
             Mean(cs, ts[q].node, n) # Unbound
      PROVE  ExactAt(cs, ts, e, q, n)
  <2> DEFINE v == Mean(tr, ts[q].node, n)
  <2>1. Mean(cs, ts[q].node, n) = v
    <3>1. ts[q].node \in 1..Len(tr)
      BY <1>2 DEF TasksOf
    <3> QED
      BY <1>1, <3>1, MeanExtends
  <2>2. ExactAt(tr, ts, e, q, n)
    BY <1>4, <2>1 DEF Exact
  <2>3. \A r \in 1..q - 1 : r \in 1..Len(ts)
    BY <1>1
  <2>4. CASE Gives(e, Len(e) - Closed(ts, q), n, v) /\ \A r \in 1..q - 1 : Safe(tr, ts[r], n, v)
    <3>1. \A r \in 1..q - 1 : Safe(cs, ts[r], n, v)
      BY <1>3, <2>3, <2>4
    <3> HIDE DEF v
    <3> QED
      BY <2>1, <2>4, <3>1 DEF ExactAt
  <2>5. CASE \E r \in 1..q - 1 :
               /\ ts[r].do = "bind" /\ ts[r].node = v /\ tr[v].name = n
               /\ Closed(ts, r) = Closed(ts, q)
               /\ \A s \in r + 1..q - 1 : Safe(tr, ts[s], n, v)
    <3>1. PICK r \in 1..q - 1 :
               /\ ts[r].do = "bind" /\ ts[r].node = v /\ tr[v].name = n
               /\ Closed(ts, r) = Closed(ts, q)
               /\ \A s \in r + 1..q - 1 : Safe(tr, ts[s], n, v)
      BY <2>5
    <3>2. \A s \in r + 1..q - 1 : s \in 1..q - 1
      OBVIOUS
    <3>3. \A s \in r + 1..q - 1 : Safe(cs, ts[s], n, v)
      BY <1>3, <2>3, <3>1, <3>2
    <3>4. cs[v].name = n
      <4>1. ts[r] \in TasksOf(tr)
        BY <1>2, <2>3
      <4>2. v \in 1..Len(tr) /\ tr[v].kind \in Defs
        BY <3>1, <4>1 DEF TasksOf
      <4> HIDE DEF v
      <4> QED
        BY <3>1, <4>2 DEF Extends, Defs
    <3> HIDE DEF v
    <3> QED
      BY <2>1, <3>1, <3>3, <3>4 DEF ExactAt
  <2> QED
    BY <2>2, <2>4, <2>5 DEF ExactAt
<1> QED
  BY <1>4 DEF Exact

\* The lets of the larger tree are lawful if the new ones are.
LEMMA ScopingExtends ==
  ASSUME NEW tr, Tree(tr), NEW cs, Tree(cs), Extends(tr, cs), Scoping(tr), NEW i,
         \A m \in 1..Len(cs) : cs[m].kind \in {"let", "letrec"} =>
           m = i \/ (m \in 1..Len(tr) /\ tr[m].kind = cs[m].kind),
         i \in 1..Len(cs) /\ cs[i].kind \in {"let", "letrec"} => Distinct(cs, i)
  PROVE  Scoping(cs)
<1> SUFFICES ASSUME NEW p \in 1..Len(cs), cs[p].kind \in {"let", "letrec"}, p # i
             PROVE  Distinct(cs, p)
  BY DEF Scoping
<1>1. p \in 1..Len(tr) /\ tr[p].kind \in {"let", "letrec"}
  OBVIOUS
<1>2. Distinct(tr, p) /\ cs[p].kids = tr[p].kids
  BY <1>1 DEF Scoping, Extends
<1>3. DefKids(cs, p) = DefKids(tr, p)
  BY <1>2 DEF DefKids
<1>4. \A d \in DefKids(tr, p) : cs[d].name = tr[d].name
  <2>1. \A d \in DefKids(tr, p) : d \in 1..Len(tr) /\ tr[d].kind # "open"
    BY <1>1, DefKidsOf DEF Defs
  <2> QED
    BY <2>1 DEF Extends
<1>5. \A n : Mean(cs, p, n) = Mean(tr, p, n)
  BY <1>1, MeanExtends
<1> HIDE DEF Scoping
<1> QED
  BY <1>2, <1>3, <1>4, <1>5 DEF Distinct

\* What was noted stays right when the tree has grown.
LEMMA NotedExtends ==
  ASSUME NEW tr, Tree(tr), NEW cs, Tree(cs), Extends(tr, cs), Noted(tr),
         \A m \in 1..Len(tr) : cs[m].codegen = tr[m].codegen,
         \A m \in Len(tr) + 1..Len(cs) : cs[m].codegen = Unseen
  PROVE  Noted(cs)
<1>1. ASSUME NEW m \in 1..Len(cs)
      PROVE  /\ cs[m].kind = "open" => cs[m].codegen = Unseen
             /\ cs[m].codegen # Unseen /\ Mean(cs, m, cs[m].name) # Unbound
                  => cs[m].codegen = Mean(cs, m, cs[m].name)
  <2>1. CASE m \in Len(tr) + 1..Len(cs)
    BY <2>1
  <2>2. CASE m \in 1..Len(tr)
    <3>1. cs[m].codegen = tr[m].codegen
      BY <2>2
    <3>2. CASE tr[m].kind = "open"
      BY <2>2, <3>1, <3>2 DEF Noted
    <3>3. CASE tr[m].kind # "open"
      <4>1. cs[m].kind = tr[m].kind /\ cs[m].name = tr[m].name
        BY <2>2, <3>3 DEF Extends
      <4>2. Mean(cs, m, cs[m].name) = Mean(tr, m, tr[m].name)
        BY <2>2, <4>1, MeanExtends
      <4> QED
        BY <2>2, <3>1, <3>3, <4>1, <4>2 DEF Noted
    <3> QED
      BY <3>2, <3>3
  <2>3. m \in 1..Len(tr) \/ m \in Len(tr) + 1..Len(cs)
    BY DEF Tree
  <2> QED
    BY <2>1, <2>2, <2>3
<1> QED
  BY <1>1 DEF Noted

-----------------------------------------------------------------------------
(* Steps that leave the scopes alone.                                      *)

\* An expression that is visited next has for n the meaning of node i, or that
\* of a definition bound before it; and if one of that name is bound, that one.
KnowsAt(tr, i, us, q) ==
  us[q].do \in {"visit", "open"} => \A n \in Names :
    /\ \/ Mean(tr, us[q].node, n) = Mean(tr, i, n)
       \/ \E r \in 1..q - 1 : /\ us[r].do = "bind" /\ tr[us[r].node].name = n
                              /\ us[r].node = Mean(tr, us[q].node, n)
    /\ \A r \in 1..q - 1 : us[r].do = "bind" /\ tr[us[r].node].name = n
                             => Mean(tr, us[q].node, n) = us[r].node

\* The tasks us are for the subexpressions and definitions of node i, in order.
Arranged(tr, i, us) ==
  /\ Suits(tr, us)
  /\ \A q \in 1..Len(us) :
       /\ \/ /\ us[q].do = "bind" /\ tr[i].kind \in {"let", "letrec"}
             /\ us[q].node \in DefKids(tr, i)
          \/ us[q].do = "open" /\ us[q].node = i
          \/ us[q].do = "visit" /\ us[q].node \in 1..Len(tr) /\ tr[us[q].node].parent = i
       /\ KnowsAt(tr, i, us, q)

\* A name in scope at i keeps its meaning while those tasks are done.
LEMMA ArrangedSafe ==
  ASSUME NEW tr, Tree(tr), Scoping(tr), NEW i \in 1..Len(tr), NEW us, Arranged(tr, i, us),
         NEW n, NEW v, Mean(tr, i, n) # Unbound, NEW q \in 1..Len(us)
  PROVE  Safe(tr, us[q], n, v)
<1>1. CASE us[q].do = "bind"
  <2>1. tr[i].kind \in {"let", "letrec"} /\ us[q].node \in DefKids(tr, i)
    BY <1>1 DEF Arranged
  <2>2. Mean(tr, i, tr[us[q].node].name) = Unbound
    BY <2>1 DEF Scoping, Distinct
  <2> QED
    BY <1>1, <2>2 DEF Safe
<1>2. CASE us[q].do = "open"
  BY <1>2 DEF Arranged, Safe
<1>3. CASE us[q].do = "visit"
  <2>1. us[q].node \in 1..Len(tr) /\ tr[us[q].node].parent = i
    BY <1>3 DEF Arranged
  <2>2. Mean(tr, us[q].node, n) # Unbound
    BY <2>1, Inherits
  <2> QED
    BY <1>3, <2>2 DEF Safe
<1> QED
  BY <1>1, <1>2, <1>3 DEF Arranged

\* The tasks of an expression find what they need.
LEMMA ArrangedExact ==
  ASSUME NEW tr, Tree(tr), Scoping(tr), NEW i \in 1..Len(tr), NEW us, Arranged(tr, i, us),
         NEW e,
         \A n \in Names : Mean(tr, i, n) # Unbound => Gives(e, Len(e), n, Mean(tr, i, n))
  PROVE  Exact(tr, us, e)
<1>1. us \in Seq(TasksOf(tr)) /\ NoClose(us) /\ Len(us) \in Nat
  BY DEF Arranged, Suits
<1>2. \A q \in 1..Len(us) : us[q].do # "type"
  BY DEF Arranged
<1>3. \A q \in 1..Len(us) : Closed(us, q) = 0
  <2>1. \A q \in 1..Len(us) + 1 : Closed(us, q) = 0
    BY <1>1, NoCloseClosed
  <2> QED
    BY <1>1, <2>1
<1>4. ASSUME NEW q \in 1..Len(us), us[q].do \in {"visit", "open"}, NEW n \in Names,
             Mean(tr, us[q].node, n) # Unbound
      PROVE  ExactAt(tr, us, e, q, n)
  <2> DEFINE v == Mean(tr, us[q].node, n)
  <2>1. KnowsAt(tr, i, us, q) /\ \A r \in 1..q - 1 : r \in 1..Len(us)
    BY <1>1 DEF Arranged
  <2>2. CASE v = Mean(tr, i, n)
    <3>1. Gives(e, Len(e), n, v)
      BY <1>4, <2>2
    <3>2. Mean(tr, i, n) # Unbound
      BY <1>4, <2>2
    <3>3. \A r \in 1..q - 1 : Safe(tr, us[r], n, v)
      BY <2>1, <3>2, ArrangedSafe
    <3>4. Len(e) - Closed(us, q) = Len(e)
      BY <1>3
    <3> HIDE DEF v
    <3> QED
      BY <3>1, <3>3, <3>4 DEF ExactAt, v
  <2>3. CASE v # Mean(tr, i, n)
    <3>1. PICK r \in 1..q - 1 : us[r].do = "bind" /\ tr[us[r].node].name = n /\ us[r].node = v
      BY <1>4, <2>1, <2>3 DEF KnowsAt
    <3>2. ASSUME NEW s \in r + 1..q - 1 PROVE Safe(tr, us[s], n, v)
      <4>1. s \in 1..q - 1 /\ s \in 1..Len(us) /\ r \in 1..s - 1
        BY <1>1
      <4>2. us[s].do = "bind" /\ tr[us[s].node].name = n => us[s].node = v
        BY <1>4, <2>1, <4>1 DEF KnowsAt
      <4>3. us[s].do \in {"visit", "open"} => Mean(tr, us[s].node, n) # Unbound
        <5>1. KnowsAt(tr, i, us, s)
          BY <4>1 DEF Arranged
        <5>2. us[s].do \in {"visit", "open"} => Mean(tr, us[s].node, n) = v
          BY <3>1, <4>1, <5>1 DEF KnowsAt
        <5> QED
          BY <1>4, <5>2
      <4> QED
        BY <4>2, <4>3 DEF Safe
    <3>3. Closed(us, r) = Closed(us, q)
      BY <1>3, <2>1
    <3> QED
      BY <3>1, <3>2, <3>3 DEF ExactAt
  <2> QED
    BY <2>2, <2>3
<1> QED
  BY <1>2, <1>4 DEF Exact

\* At the first task the table gives every name in scope its meaning.
LEMMA ExactNow ==
  ASSUME NEW tr, NEW ts, NEW e, Good(tr, ts, e), ts # <<>>, Exact(tr, ts, e),
         ts[1].do \in {"visit", "open"}, NEW n \in Names, Mean(tr, ts[1].node, n) # Unbound
  PROVE  Gives(e, Len(e), n, Mean(tr, ts[1].node, n))
<1>1. ts \in Seq(TasksOf(tr)) /\ 1 \in 1..Len(ts) /\ Len(e) \in Nat
  BY DEF Good
<1>2. ExactAt(tr, ts, e, 1, n)
  BY <1>1 DEF Exact
<1>3. Closed(ts, 1) = 0 /\ Len(e) - 0 = Len(e)
  BY <1>1, ClosedNext
<1>4. \A r \in 1..1 - 1 : FALSE
  OBVIOUS
<1> QED
  BY <1>2, <1>3, <1>4 DEF ExactAt

\* So all goes on when an expression is replaced by its tasks.
LEMMA PlainExact ==
  ASSUME NEW tr, NEW ts, NEW e, Good(tr, ts, e), ts # <<>>, Exact(tr, ts, e), Scoping(tr),
         ts[1].do = "visit", NEW us, Arranged(tr, ts[1].node, us)
  PROVE  Exact(tr, Instead(ts, us), e)
<1> DEFINE i == ts[1].node
<1>1. /\ Tree(tr) /\ i \in 1..Len(tr) /\ e \in Seq(Scopes) /\ ts \in Seq(TasksOf(tr))
      /\ ts[1].do # "close" /\ ts[1].do # "bind" /\ ts[1].do \in {"visit", "open"}
  BY FirstTask
<1>2. us \in Seq(TasksOf(tr)) /\ NoClose(us)
  BY DEF Arranged, Suits
<1>3. Fit(ts, us, e, e)
  <2>1. Covers(e, e)
    BY DEF Covers
  <2> QED
    BY <1>1, <1>2, <2>1, PlainStep
<1>4. Exact(tr, us, e)
  <2>1. \A n \in Names : Mean(tr, i, n) # Unbound => Gives(e, Len(e), n, Mean(tr, i, n))
    BY <1>1, ExactNow
  <2>2. Arranged(tr, i, us)
    OBVIOUS
  <2> HIDE DEF i
  <2> QED
    BY <1>1, <2>1, <2>2, ArrangedExact
<1>5. Calm(tr, ts, us, e, e)
  <2> SUFFICES ASSUME NEW n \in Names, NEW v, Safe(tr, ts[1], n, v)
               PROVE  \A q \in 1..Len(us) : Safe(tr, us[q], n, v)
    BY DEF Calm
  <2>1. Mean(tr, i, n) # Unbound
    BY <1>1 DEF Safe
  <2>2. Arranged(tr, i, us)
    OBVIOUS
  <2> HIDE DEF i
  <2> QED
    BY <1>1, <2>1, <2>2, ArrangedSafe
<1>6. Binds(tr, ts[1], us, e, e)
  BY <1>1 DEF Binds
<1> QED
  BY <1>1, <1>2, <1>3, <1>4, <1>5, <1>6, ExactFollows

\* Expressions that bring no name into scope visit subexpressions.
LEMMA StraightArranged ==
  ASSUME NEW tr, Tree(tr), NEW i \in 1..Len(tr), NEW us, Suits(tr, us),
         tr[i].kind \notin {"let", "letrec", "fun"},
         \A q \in 1..Len(us) :
           \/ us[q].do = "open" /\ us[q].node = i
           \/ /\ us[q].do = "visit" /\ us[q].node \in 1..Len(tr)
              /\ tr[us[q].node].parent = i
              /\ tr[i].kind = "for" => us[q].node # Last(tr, i)
  PROVE  Arranged(tr, i, us)
<1>1. ASSUME NEW q \in 1..Len(us) PROVE KnowsAt(tr, i, us, q)
  <2>1. ASSUME NEW n, us[q].do = "visit"
        PROVE  Mean(tr, us[q].node, n) = Mean(tr, i, n)
    <3> DEFINE k == us[q].node
    <3>1. k \in 1..Len(tr) /\ tr[k].parent = i /\ (tr[i].kind = "for" => k # Last(tr, i))
      BY <2>1
    <3>2. tr[i].kind \notin {"let", "letrec"} /\ tr[i].kind # "fun"
      OBVIOUS
    <3> HIDE DEF k
    <3>3. Mean(tr, k, n) = Mean(tr, i, n)
      BY <3>1, <3>2, MeanOther
    <3> QED
      BY <3>3 DEF k
  <2>2. \A n : Mean(tr, us[q].node, n) = Mean(tr, i, n)
    BY <2>1
  <2>3. \A r \in 1..q - 1 : us[r].do # "bind"
    <3>1. \A r \in 1..q - 1 : r \in 1..Len(us)
      BY DEF Suits
    <3> QED
      BY <3>1
  <2> QED
    BY <2>2, <2>3 DEF KnowsAt
<1> QED
  BY <1>1 DEF Arranged

\* May the expression k of the let i see its definition d?
SeesDef(tr, i, k, d) == k = Last(tr, i) \/ (tr[i].kind = "letrec" /\ tr[d].kind = "fun")

\* The definitions that the tasks before the q-th bind.
BoundUntil(us, q) == {us[r].node : r \in {s \in 1..q - 1 : us[s].do = "bind"}}

\* The expressions of the let i are visited when those definitions that they
\* see are bound, by us or already in B, and no others.
Ordered(tr, i, us, B) ==
  /\ Suits(tr, us)
  /\ \A q \in 1..Len(us) :
       \/ us[q].do = "bind" /\ us[q].node \in DefKids(tr, i)
       \/ /\ us[q].do = "visit" /\ us[q].node \in 1..Len(tr) /\ tr[us[q].node].parent = i
          /\ \A d \in DefKids(tr, i) :
               SeesDef(tr, i, us[q].node, d) <=> d \in B \cup BoundUntil(us, q)

\* All the definitions that us binds.
BoundAll(us) == BoundUntil(us, Len(us) + 1)

\* First some tasks, then others.
LEMMA BoundJoined ==
  ASSUME NEW T, NEW us \in Seq(T), NEW vs \in Seq(T)
  PROVE  /\ \A q \in 1..Len(us) + 1 : BoundUntil(us \o vs, q) = BoundUntil(us, q)
         /\ \A q \in 1..Len(vs) + 1 :
              BoundUntil(us \o vs, Len(us) + q) = BoundAll(us) \cup BoundUntil(vs, q)
<1> DEFINE ws == us \o vs
           L == Len(us)
<1>1. /\ L \in Nat /\ Len(vs) \in Nat /\ Len(ws) = L + Len(vs)
      /\ \A r \in 1..L : ws[r] = us[r]
      /\ \A r \in 1..Len(vs) : ws[L + r] = vs[r]
  BY Joined DEF JoinOf
<1> HIDE DEF ws
<1>2. ASSUME NEW q \in 1..L + 1 PROVE BoundUntil(ws, q) = BoundUntil(us, q)
  <2>1. \A r \in 1..q - 1 : ws[r] = us[r]
    BY <1>1
  <2> QED
    BY <2>1 DEF BoundUntil
<1>3. ASSUME NEW q \in 1..Len(vs) + 1
      PROVE  BoundUntil(ws, L + q) = BoundAll(us) \cup BoundUntil(vs, q)
  <2>1. ASSUME NEW x \in BoundUntil(ws, L + q)
        PROVE  x \in BoundAll(us) \cup BoundUntil(vs, q)
    <3>1. PICK r \in 1..(L + q) - 1 : ws[r].do = "bind" /\ x = ws[r].node
      BY <2>1 DEF BoundUntil
    <3>2. CASE r <= L
      <4>1. r \in 1..(L + 1) - 1 /\ ws[r] = us[r]
        BY <1>1, <3>2
      <4> QED
        BY <3>1, <4>1 DEF BoundUntil, BoundAll, L
    <3>3. CASE r > L
      <4>1. r - L \in 1..q - 1 /\ r - L \in 1..Len(vs) /\ L + (r - L) = r
        BY <1>1, <3>3
      <4>2. ws[r] = vs[r - L]
        BY <1>1, <4>1
      <4> QED
        BY <3>1, <4>1, <4>2 DEF BoundUntil
    <3> QED
      BY <1>1, <3>2, <3>3
  <2>2. ASSUME NEW x \in BoundAll(us) PROVE x \in BoundUntil(ws, L + q)
    <3>1. PICK r \in 1..(L + 1) - 1 : us[r].do = "bind" /\ x = us[r].node
      BY <2>2 DEF BoundUntil, BoundAll, L
    <3>2. r \in 1..L /\ r \in 1..(L + q) - 1
      BY <1>1
    <3>3. ws[r] = us[r]
      BY <1>1, <3>2
    <3> QED
      BY <3>1, <3>2, <3>3 DEF BoundUntil
  <2>3. ASSUME NEW x \in BoundUntil(vs, q) PROVE x \in BoundUntil(ws, L + q)
    <3>1. PICK r \in 1..q - 1 : vs[r].do = "bind" /\ x = vs[r].node
      BY <2>3 DEF BoundUntil
    <3>2. r \in 1..Len(vs) /\ L + r \in 1..(L + q) - 1
      BY <1>1
    <3>3. ws[L + r] = vs[r]
      BY <1>1, <3>2
    <3> QED
      BY <3>1, <3>2, <3>3 DEF BoundUntil
  <2> QED
    BY <2>1, <2>2, <2>3
<1> QED
  BY <1>2, <1>3 DEF ws

\* The order is kept.
LEMMA OrderedJoined ==
  ASSUME NEW tr, NEW i, NEW B, NEW us, NEW vs, Ordered(tr, i, us, B),
         Ordered(tr, i, vs, B \cup BoundAll(us))
  PROVE  Ordered(tr, i, us \o vs, B)
<1> DEFINE ws == us \o vs
           L == Len(us)
           T == TasksOf(tr)
<1>1. us \in Seq(T) /\ vs \in Seq(T) /\ Suits(tr, ws)
  <2>1. Suits(tr, us) /\ Suits(tr, vs)
    BY DEF Ordered
  <2> QED
    BY <2>1, SuitsJoined DEF Suits
<1> HIDE DEF T
<1>2. /\ L \in Nat /\ Len(vs) \in Nat /\ Len(ws) = L + Len(vs)
      /\ \A r \in 1..L : ws[r] = us[r]
      /\ \A r \in 1..Len(vs) : ws[L + r] = vs[r]
  BY <1>1, Joined DEF JoinOf
<1>3. /\ \A q \in 1..L + 1 : BoundUntil(ws, q) = BoundUntil(us, q)
      /\ \A q \in 1..Len(vs) + 1 :
           BoundUntil(ws, L + q) = BoundAll(us) \cup BoundUntil(vs, q)
  BY <1>1, BoundJoined
<1> HIDE DEF ws, L
<1> DEFINE Right(xs, q, D) ==
             \/ xs[q].do = "bind" /\ xs[q].node \in DefKids(tr, i)
             \/ /\ xs[q].do = "visit" /\ xs[q].node \in 1..Len(tr)
                /\ tr[xs[q].node].parent = i
                /\ \A d \in DefKids(tr, i) : SeesDef(tr, i, xs[q].node, d) <=> d \in D
<1>4. ASSUME NEW q \in 1..L PROVE Right(ws, q, B \cup BoundUntil(ws, q))
  <2>1. ws[q] = us[q] /\ BoundUntil(ws, q) = BoundUntil(us, q)
    BY <1>2, <1>3
  <2>2. Right(us, q, B \cup BoundUntil(us, q))
    BY DEF Ordered, L
  <2> QED
    BY <2>1, <2>2
<1>5. ASSUME NEW q \in 1..Len(vs) PROVE Right(ws, L + q, B \cup BoundUntil(ws, L + q))
  <2>1. ws[L + q] = vs[q] /\ BoundUntil(ws, L + q) = BoundAll(us) \cup BoundUntil(vs, q)
    BY <1>2, <1>3
  <2>2. Right(vs, q, (B \cup BoundAll(us)) \cup BoundUntil(vs, q))
    BY DEF Ordered
  <2> QED
    BY <2>1, <2>2
<1>6. ASSUME NEW q \in 1..Len(ws) PROVE Right(ws, q, B \cup BoundUntil(ws, q))
  <2>1. CASE q <= L
    BY <1>2, <1>4, <2>1
  <2>2. CASE q > L
    <3>1. q - L \in 1..Len(vs) /\ L + (q - L) = q
      BY <1>2, <2>2
    <3> HIDE DEF Right
    <3> QED
      BY <1>5, <3>1
  <2> HIDE DEF Right
  <2> QED
    BY <1>2, <2>1, <2>2
<1> QED
  BY <1>1, <1>6 DEF Ordered, ws

\* All that two lists of tasks bind.
LEMMA BoundAllJoined ==
  ASSUME NEW T, NEW us \in Seq(T), NEW vs \in Seq(T)
  PROVE  BoundAll(us \o vs) = BoundAll(us) \cup BoundAll(vs)
<1>1. /\ Len(us \o vs) = Len(us) + Len(vs) /\ Len(us) \in Nat /\ Len(vs) \in Nat
      /\ Len(vs) + 1 \in 1..Len(vs) + 1
  BY Joined DEF JoinOf
<1>2. BoundUntil(us \o vs, Len(us) + (Len(vs) + 1)) = BoundAll(us) \cup BoundUntil(vs, Len(vs) + 1)
  BY <1>1, BoundJoined
<1>3. Len(us) + (Len(vs) + 1) = Len(us \o vs) + 1
  BY <1>1
<1> QED
  BY <1>2, <1>3 DEF BoundAll

\* That is the order in which names get their meanings.
LEMMA OrderedArranged ==
  ASSUME NEW tr, Tree(tr), Scoping(tr), NEW i \in 1..Len(tr),
         tr[i].kind \in {"let", "letrec"}, NEW us, Ordered(tr, i, us, {})
  PROVE  Arranged(tr, i, us)
<1>1. Suits(tr, us)
  BY DEF Ordered
<1>2. ASSUME NEW q \in 1..Len(us) PROVE KnowsAt(tr, i, us, q)
  <2> SUFFICES ASSUME us[q].do = "visit", NEW n \in Names
               PROVE  LET v == Mean(tr, us[q].node, n) IN
                      /\ \/ v = Mean(tr, i, n)
                         \/ \E r \in 1..q - 1 : /\ us[r].do = "bind" /\ tr[us[r].node].name = n
                                                /\ us[r].node = v
                      /\ \A r \in 1..q - 1 : us[r].do = "bind" /\ tr[us[r].node].name = n
                                               => v = us[r].node
    BY DEF KnowsAt, Ordered
  <2> DEFINE k == us[q].node
             v == Mean(tr, k, n)
             S == SeenIn(tr, i, k, n)
  <2>1. /\ k \in 1..Len(tr) /\ tr[k].parent = i
        /\ \A d \in DefKids(tr, i) : SeesDef(tr, i, k, d) <=> d \in BoundUntil(us, q)
    BY DEF Ordered
  <2>2. S = {d \in DefKids(tr, i) : tr[d].name = n /\ SeesDef(tr, i, k, d)}
    BY SeenDefs DEF SeesDef
  <2>3. (\A d \in S : v = d) /\ (S = {} => v = Mean(tr, i, n))
    BY <2>1, MeanLet
  <2> HIDE DEF S, v, k
  <2>4. CASE S = {}
    <3>1. ASSUME NEW r \in 1..q - 1, us[r].do = "bind", tr[us[r].node].name = n
          PROVE  FALSE
      <4>1. r \in 1..Len(us)
        BY <1>1 DEF Suits
      <4>2. us[r].node \in DefKids(tr, i)
        BY <3>1, <4>1 DEF Ordered
      <4>3. us[r].node \in BoundUntil(us, q)
        BY <3>1 DEF BoundUntil
      <4> QED
        BY <2>1, <2>2, <2>4, <3>1, <4>2, <4>3
    <3> QED
      BY <2>3, <2>4, <3>1 DEF v, k
  <2>5. CASE S # {}
    <3>1. v \in S /\ S = {v}
      BY <2>3, <2>5
    <3>2. v \in BoundUntil(us, q) /\ tr[v].name = n
      BY <2>1, <2>2, <3>1
    <3>3. PICK r \in 1..q - 1 : us[r].do = "bind" /\ us[r].node = v
      BY <3>2 DEF BoundUntil
    <3>4. ASSUME NEW s \in 1..q - 1, us[s].do = "bind", tr[us[s].node].name = n
          PROVE  v = us[s].node
      <4>1. s \in 1..Len(us)
        BY <1>1 DEF Suits
      <4>2. us[s].node \in DefKids(tr, i)
        BY <3>4, <4>1 DEF Ordered
      <4>3. us[s].node \in BoundUntil(us, q)
        BY <3>4 DEF BoundUntil
      <4> QED
        BY <2>1, <2>2, <2>3, <3>4, <4>2, <4>3
    <3> QED
      BY <3>2, <3>3, <3>4 DEF v, k
  <2> QED
    BY <2>4, <2>5
<1> QED
  BY <1>1, <1>2 DEF Arranged, Ordered

\* Visits that see what is bound, and nothing else.
LEMMA OrderedVisits ==
  ASSUME NEW tr, NEW i, NEW ks \in Seq(1..Len(tr)), NEW B,
         \A j \in 1..Len(ks) : tr[ks[j]].parent = i,
         \A j \in 1..Len(ks) : \A d \in DefKids(tr, i) : SeesDef(tr, i, ks[j], d) <=> d \in B
  PROVE  Ordered(tr, i, Each("visit", ks), B) /\ BoundAll(Each("visit", ks)) = {}
<1> DEFINE us == Each("visit", ks)
<1>1. Suits(tr, us) /\ EachOf("visit", ks, us)
  <2>1. "visit" \in {"visit", "decl", "define", "bind"} /\ "visit" # "bind"
    OBVIOUS
  <2>2. us \in Seq(TasksOf(tr)) /\ EachOf("visit", ks, us) /\ NoClose(us)
    BY <2>1, EachTask
  <2> QED
    BY <2>2 DEF Suits
<1> HIDE DEF us
<1>2. /\ Len(us) = Len(ks) /\ Len(us) \in Nat
      /\ \A j \in 1..Len(us) : us[j].do = "visit" /\ us[j].node = ks[j] /\ ks[j] \in 1..Len(tr)
  BY <1>1 DEF EachOf
<1>3. ASSUME NEW q \in 1..Len(us) + 1 PROVE BoundUntil(us, q) = {}
  <2>1. \A r \in 1..q - 1 : us[r].do = "visit"
    BY <1>2
  <2> QED
    BY <2>1 DEF BoundUntil
<1>4. Len(us) + 1 \in 1..Len(us) + 1 /\ \A q \in 1..Len(us) : q \in 1..Len(us) + 1
  BY <1>2
<1> QED
  BY <1>1, <1>2, <1>3, <1>4 DEF Ordered, BoundAll, us

\* The body sees all definitions.
LEMMA OrderedBody ==
  ASSUME NEW tr, Tree(tr), NEW i \in 1..Len(tr), tr[i].kind \in {"let", "letrec"}, NEW B,
         \A d \in DefKids(tr, i) : d \in B
  PROVE  Ordered(tr, i, <<Visit(Last(tr, i))>>, B)
<1> DEFINE us == <<Visit(Last(tr, i))>>
<1>1. Last(tr, i) \in 1..Len(tr) /\ tr[Last(tr, i)].parent = i
  BY LastKid
<1>2. Suits(tr, us)
  BY <1>1, TaskSuits DEF Visit
<1>3. \A q \in 1..Len(us) : us[q].do = "visit" /\ us[q].node = Last(tr, i)
  BY DEF Visit, Task
<1> HIDE DEF us
<1> QED
  BY <1>1, <1>2, <1>3 DEF Ordered, SeesDef, us

\* Definitions may be bound at any time.
LEMMA OrderedBinds ==
  ASSUME NEW tr, Tree(tr), NEW i \in 1..Len(tr), tr[i].kind \in {"let", "letrec"},
         NEW ks \in Seq(1..Len(tr)), \A j \in 1..Len(ks) : ks[j] \in DefKids(tr, i)
  PROVE  /\ \A B : Ordered(tr, i, Each("bind", ks), B)
         /\ BoundAll(Each("bind", ks)) = {ks[j] : j \in 1..Len(ks)}
<1> DEFINE us == Each("bind", ks)
<1>1. Suits(tr, us) /\ EachOf("bind", ks, us)
  <2>1. \A j \in 1..Len(ks) : tr[ks[j]].kind \in Defs
    BY DefKidsOf
  <2>2. "bind" \in {"visit", "decl", "define", "bind"}
    OBVIOUS
  <2>3. us \in Seq(TasksOf(tr)) /\ EachOf("bind", ks, us) /\ NoClose(us)
    BY <2>1, <2>2, EachTask
  <2> QED
    BY <2>3 DEF Suits
<1> HIDE DEF us
<1>2. /\ Len(us) = Len(ks) /\ Len(us) \in Nat
      /\ \A j \in 1..Len(us) : us[j].do = "bind" /\ us[j].node = ks[j]
  BY <1>1 DEF EachOf
<1>3. \A B : Ordered(tr, i, us, B)
  BY <1>1, <1>2 DEF Ordered
<1>4. BoundAll(us) = {ks[j] : j \in 1..Len(ks)}
  <2>1. 1..(Len(us) + 1) - 1 = 1..Len(ks)
    BY <1>2
  <2>2. {s \in 1..Len(ks) : us[s].do = "bind"} = 1..Len(ks)
    BY <1>2
  <2> QED
    BY <1>2, <2>1, <2>2 DEF BoundAll, BoundUntil
<1> QED
  BY <1>3, <1>4 DEF us

\* The definitions of a let are all but the last of its subexpressions.
LEMMA FrontDefs ==
  ASSUME NEW tr, Tree(tr), NEW i \in 1..Len(tr), tr[i].kind \in {"let", "letrec"}
  PROVE  /\ \A j \in 1..Len(Front(tr, i)) :
              /\ Front(tr, i)[j] \in DefKids(tr, i) /\ Front(tr, i)[j] # Last(tr, i)
              /\ tr[Front(tr, i)[j]].parent = i
         /\ \A d \in DefKids(tr, i) : \E j \in 1..Len(Front(tr, i)) : d = Front(tr, i)[j]
<1> DEFINE fs == Front(tr, i)
<1>1. /\ Len(fs) = Len(tr[i].kids) - 1
      /\ \A j \in 1..Len(fs) : /\ j \in 1..Len(tr[i].kids) /\ fs[j] = tr[i].kids[j]
                               /\ tr[fs[j]].kind \in Defs
      /\ tr[Last(tr, i)].kind \notin Defs
  BY LetKids
<1>2. \A j \in 1..Len(tr[i].kids) : tr[tr[i].kids[j]].parent = i
  BY KidsOf
<1> HIDE DEF fs
<1> QED
  BY <1>1, <1>2 DEF DefKids, fs

\* DefBlock::codegen(): all values are there before the first name is bound.
LEMMA LetArranged ==
  ASSUME NEW tr, Tree(tr), Scoping(tr), NEW i \in 1..Len(tr), tr[i].kind = "let",
         NEW us, us = Each("visit", Front(tr, i)) \o Each("bind", Front(tr, i))
                        \o <<Visit(Last(tr, i))>>
  PROVE  Arranged(tr, i, us)
<1> DEFINE fs == Front(tr, i)
           a  == Each("visit", fs)
           b  == Each("bind", fs)
           c  == <<Visit(Last(tr, i))>>
<1>1. /\ \A j \in 1..Len(fs) : /\ fs[j] \in DefKids(tr, i) /\ fs[j] # Last(tr, i)
                               /\ tr[fs[j]].parent = i
      /\ \A d \in DefKids(tr, i) : \E j \in 1..Len(fs) : d = fs[j]
      /\ fs \in Seq(1..Len(tr))
  BY FrontDefs, LetKids
<1>2. tr[i].kind \in {"let", "letrec"}
  OBVIOUS
<1> HIDE DEF fs
<1>3. Ordered(tr, i, a, {}) /\ BoundAll(a) = {}
  <2>1. \A j \in 1..Len(fs) : \A d \in DefKids(tr, i) : SeesDef(tr, i, fs[j], d) <=> d \in {}
    BY <1>1 DEF SeesDef
  <2>2. fs \in Seq(1..Len(tr)) /\ \A j \in 1..Len(fs) : tr[fs[j]].parent = i
    BY <1>1
  <2> QED
    BY ONLY <2>1, <2>2, OrderedVisits
<1>4. (\A B : Ordered(tr, i, b, B)) /\ BoundAll(b) = {fs[j] : j \in 1..Len(fs)}
  BY <1>1, <1>2, OrderedBinds
<1>5. Ordered(tr, i, c, {} \cup BoundAll(a \o b))
  <2>1. a \in Seq(TasksOf(tr)) /\ b \in Seq(TasksOf(tr))
    BY <1>3, <1>4 DEF Ordered, Suits
  <2> HIDE DEF a, b
  <2>2. BoundAll(a \o b) = BoundAll(a) \cup BoundAll(b)
    BY <2>1, BoundAllJoined
  <2>3. \A d \in DefKids(tr, i) : d \in {} \cup BoundAll(a \o b)
    BY <1>1, <1>4, <2>2
  <2> QED
    BY <1>2, <2>3, OrderedBody
<1> HIDE DEF a, b, c
<1>6. Ordered(tr, i, a \o b, {})
  BY <1>3, <1>4, OrderedJoined
<1>7. Ordered(tr, i, (a \o b) \o c, {})
  BY <1>5, <1>6, OrderedJoined
<1>8. us = (a \o b) \o c
  BY DEF a, b, c, fs
<1> QED
  BY <1>2, <1>7, <1>8, OrderedArranged

\* DefBlock::recCodegen(): the functions are bound first, the rest last.
LEMMA LetRecArranged ==
  ASSUME NEW tr, Tree(tr), Scoping(tr), NEW i \in 1..Len(tr), tr[i].kind = "letrec",
         NEW S, \A d \in 1..Len(tr) : d \in S <=> tr[d].kind = "fun",
         NEW R, \A d \in 1..Len(tr) : d \in S \/ d \in R,
         NEW us, us = Each("bind", Only(Front(tr, i), S)) \o Each("visit", Front(tr, i))
                        \o Each("bind", Only(Front(tr, i), R)) \o <<Visit(Last(tr, i))>>
  PROVE  Arranged(tr, i, us)
<1> DEFINE fs == Front(tr, i)
           f  == Only(fs, S)
           g  == Only(fs, R)
           a  == Each("bind", f)
           b  == Each("visit", fs)
           c  == Each("bind", g)
           o  == <<Visit(Last(tr, i))>>
           X  == {f[j] : j \in 1..Len(f)}
           Y  == {g[j] : j \in 1..Len(g)}
<1>1. tr[i].kind \in {"let", "letrec"} /\ i \in 1..Len(tr) /\ Tree(tr)
  OBVIOUS
<1>2. /\ \A j \in 1..Len(fs) : /\ fs[j] \in DefKids(tr, i) /\ fs[j] # Last(tr, i)
                               /\ tr[fs[j]].parent = i
      /\ \A d \in DefKids(tr, i) : \E j \in 1..Len(fs) : d = fs[j]
      /\ fs \in Seq(1..Len(tr))
  <2>1. fs \in Seq(1..Len(tr))
    BY ONLY <1>1, LetKids
  <2> QED
    BY ONLY <1>1, <2>1, FrontDefs
<1>3. /\ f \in Seq(1..Len(tr)) /\ OnlyOf(fs, Len(fs), S, f)
      /\ g \in Seq(1..Len(tr)) /\ OnlyOf(fs, Len(fs), R, g)
  <2>1. \A Z : /\ Only(Front(tr, i), Z) \in Seq(1..Len(tr))
               /\ OnlyOf(Front(tr, i), Len(Front(tr, i)), Z, Only(Front(tr, i), Z))
    BY <1>1, OnlyDefs
  <2> QED
    BY ONLY <2>1
<1> HIDE DEF fs, f, g
<1>4. /\ \A j \in 1..Len(f) : f[j] \in DefKids(tr, i)
      /\ \A j \in 1..Len(g) : g[j] \in DefKids(tr, i)
  <2>1. \A j \in 1..Len(f) : \E m \in 1..Len(fs) : f[j] = fs[m]
    BY <1>3 DEF OnlyOf
  <2>2. \A j \in 1..Len(g) : \E m \in 1..Len(fs) : g[j] = fs[m]
    BY <1>3 DEF OnlyOf
  <2>3. \A m \in 1..Len(fs) : fs[m] \in DefKids(tr, i)
    BY <1>2
  <2> QED
    BY ONLY <2>1, <2>2, <2>3
<1>5. \A d \in DefKids(tr, i) : (d \in X <=> tr[d].kind = "fun") /\ (d \in X \/ d \in Y)
  <2> TAKE d \in DefKids(tr, i)
  <2>1. PICK j \in 1..Len(fs) : d = fs[j]
    BY <1>2
  <2>2. d \in 1..Len(tr)
    BY <1>1, DefKidsOf
  <2>3. d \in S <=> d \in X
    <3>1. OnlyOf(fs, Len(fs), S, f)
      BY <1>3
    <3> QED
      BY ONLY <2>1, <3>1 DEF OnlyOf, X
  <2>4. d \in R => d \in Y
    <3>1. OnlyOf(fs, Len(fs), R, g)
      BY <1>3
    <3> QED
      BY ONLY <2>1, <3>1 DEF OnlyOf, Y
  <2> QED
    BY <2>2, <2>3, <2>4
<1>6. (\A B : Ordered(tr, i, a, B)) /\ BoundAll(a) = X
  <2>1. f \in Seq(1..Len(tr)) /\ \A j \in 1..Len(f) : f[j] \in DefKids(tr, i)
    BY <1>3, <1>4
  <2> QED
    BY ONLY <1>1, <2>1, OrderedBinds
<1>7. (\A B : Ordered(tr, i, c, B)) /\ BoundAll(c) = Y
  <2>1. g \in Seq(1..Len(tr)) /\ \A j \in 1..Len(g) : g[j] \in DefKids(tr, i)
    BY <1>3, <1>4
  <2> QED
    BY ONLY <1>1, <2>1, OrderedBinds
<1> HIDE DEF X, Y
<1>8. Ordered(tr, i, b, X) /\ BoundAll(b) = {}
  <2>1. \A j \in 1..Len(fs) : \A d \in DefKids(tr, i) : SeesDef(tr, i, fs[j], d) <=> d \in X
    BY <1>2, <1>5 DEF SeesDef
  <2>2. fs \in Seq(1..Len(tr)) /\ \A j \in 1..Len(fs) : tr[fs[j]].parent = i
    BY <1>2
  <2> QED
    BY ONLY <2>1, <2>2, OrderedVisits
<1>9. /\ a \in Seq(TasksOf(tr)) /\ b \in Seq(TasksOf(tr)) /\ c \in Seq(TasksOf(tr))
      /\ a \o b \in Seq(TasksOf(tr))
  <2>1. a \in Seq(TasksOf(tr)) /\ b \in Seq(TasksOf(tr)) /\ c \in Seq(TasksOf(tr))
    BY <1>6, <1>7, <1>8 DEF Ordered, Suits
  <2> QED
    BY <2>1
<1> HIDE DEF a, b, c
<1>10. BoundAll((a \o b) \o c) = X \cup Y
  <2>1. BoundAll(a \o b) = BoundAll(a) \cup BoundAll(b)
    BY ONLY <1>9, BoundAllJoined
  <2>2. BoundAll((a \o b) \o c) = BoundAll(a \o b) \cup BoundAll(c)
    BY ONLY <1>9, BoundAllJoined
  <2>3. BoundAll(a) = X /\ BoundAll(b) = {} /\ BoundAll(c) = Y
    BY <1>6, <1>7, <1>8
  <2>4. BoundAll(a \o b) = X
    BY ONLY <2>1, <2>3
  <2> QED
    BY ONLY <2>2, <2>3, <2>4
<1>11. Ordered(tr, i, o, {} \cup BoundAll((a \o b) \o c))
  <2>1. \A d \in DefKids(tr, i) : d \in {} \cup BoundAll((a \o b) \o c)
    BY <1>5, <1>10
  <2> QED
    BY <1>1, <2>1, OrderedBody
<1> HIDE DEF o
<1>12. Ordered(tr, i, b, {} \cup BoundAll(a))
  <2>1. {} \cup BoundAll(a) = X
    BY <1>6
  <2> QED
    BY <1>8, <2>1
<1>13. Ordered(tr, i, a \o b, {})
  BY <1>6, <1>12, OrderedJoined
<1>14. Ordered(tr, i, (a \o b) \o c, {})
  BY <1>7, <1>13, OrderedJoined
<1>15. Ordered(tr, i, ((a \o b) \o c) \o o, {})
  BY <1>11, <1>14, OrderedJoined
<1>16. us = ((a \o b) \o c) \o o
  BY DEF a, b, c, o, f, g, fs
<1> QED
  BY <1>1, <1>15, <1>16, OrderedArranged

\* Visits to the first subexpression, or to all.
LEMMA VisitArranged ==
  ASSUME NEW tr, Tree(tr), NEW i \in 1..Len(tr), tr[i].kind \in {"index", "var", "array"}
  PROVE  Arranged(tr, i, <<Visit(tr[i].kids[1])>>)
<1> DEFINE us == <<Visit(tr[i].kids[1])>>
<1>1. tr[i].kids[1] \in 1..Len(tr) /\ tr[tr[i].kids[1]].parent = i
  BY FirstKid
<1>2. Suits(tr, us)
  BY <1>1, TaskSuits DEF Visit
<1>3. \A q \in 1..Len(us) : us[q].do = "visit" /\ us[q].node = tr[i].kids[1]
  BY DEF Visit, Task
<1>4. tr[i].kind \notin {"let", "letrec", "fun"} /\ tr[i].kind # "for"
  OBVIOUS
<1> HIDE DEF us
<1>5. Arranged(tr, i, us)
  BY <1>1, <1>2, <1>3, <1>4, StraightArranged
<1> QED
  BY <1>5 DEF us

\* Expressions that only visit their subexpressions.
LEMMA KidsArranged ==
  ASSUME NEW tr, Tree(tr), NEW i \in 1..Len(tr), tr[i].kind \in {"unit", "seq"}
  PROVE  Arranged(tr, i, Each("visit", tr[i].kids))
<1> DEFINE us == Each("visit", tr[i].kids)
           ks == tr[i].kids
<1>1. ks \in Seq(1..Len(tr)) /\ \A j \in 1..Len(ks) : ks[j] \in 1..Len(tr) /\ tr[ks[j]].parent = i
  BY KidsOf
<1> HIDE DEF ks
<1>2. Suits(tr, Each("visit", ks)) /\ EachOf("visit", ks, Each("visit", ks))
  <2>1. "visit" \in {"visit", "decl", "define", "bind"} /\ "visit" # "bind"
    OBVIOUS
  <2>2. /\ Each("visit", ks) \in Seq(TasksOf(tr)) /\ EachOf("visit", ks, Each("visit", ks))
        /\ NoClose(Each("visit", ks))
    BY <1>1, <2>1, EachTask
  <2> QED
    BY <2>2 DEF Suits
<1>3. us = Each("visit", ks)
  BY DEF ks
<1> HIDE DEF us
<1>4. \A q \in 1..Len(us) : /\ us[q].do = "visit" /\ us[q].node \in 1..Len(tr)
                            /\ tr[us[q].node].parent = i
  BY <1>1, <1>2, <1>3 DEF EachOf
<1>5. tr[i].kind \notin {"let", "letrec", "fun"} /\ tr[i].kind # "for"
  OBVIOUS
<1>6. Arranged(tr, i, us)
  BY <1>2, <1>3, <1>4, <1>5, StraightArranged
<1> QED
  BY <1>6 DEF us

\* ForExpr::codegen() until the scope is opened.
LEMMA LoopArranged ==
  ASSUME NEW tr, Tree(tr), NEW i \in 1..Len(tr), tr[i].kind = "for"
  PROVE  Arranged(tr, i, <<Visit(tr[i].kids[1]), Task("open", i)>>)
<1> DEFINE us == <<Visit(tr[i].kids[1]), Task("open", i)>>
           k  == tr[i].kids[1]
<1>1. k \in 1..Len(tr) /\ tr[k].parent = i
  BY FirstKid
<1>2. k # Last(tr, i)
  <2>1. Len(tr[i].kids) = 2 /\ tr[i].kids[1] # tr[i].kids[2]
    BY DEF Tree, Shape
  <2> QED
    BY <2>1 DEF Last
<1>3. Suits(tr, us)
  <2>1. us \in Seq(TasksOf(tr)) /\ NoClose(us)
    BY LoopServes DEF Serves
  <2> QED
    BY <2>1 DEF Suits
<1>4. \A q \in 1..Len(us) : \/ us[q].do = "open" /\ us[q].node = i
                            \/ us[q].do = "visit" /\ us[q].node = k
  BY DEF Visit, Task
<1>5. tr[i].kind \notin {"let", "letrec", "fun"}
  OBVIOUS
<1> HIDE DEF us, k
<1>6. Arranged(tr, i, us)
  BY <1>1, <1>2, <1>3, <1>4, <1>5, StraightArranged
<1> QED
  BY <1>6 DEF us

\* Names, and the end of an expression, leave nothing to do.
LEMMA NothingArranged ==
  ASSUME NEW tr, NEW i
  PROVE  Arranged(tr, i, <<>>)
BY NothingSuits DEF Arranged

-----------------------------------------------------------------------------
(* Steps that open and close scopes, and bindings.                         *)

\* The scopes below are as before.
LEMMA GivesSame ==
  ASSUME NEW e, NEW d, NEW h \in Int, NEW n, NEW v,
         \A l \in 1..h : d[l] = e[l], Gives(e, h, n, v)
  PROVE  Gives(d, h, n, v)
<1> SUFFICES ASSUME NEW l \in 1..h, n \in DOMAIN d[l],
                    \A j \in l + 1..h : n \notin DOMAIN d[j]
             PROVE  d[l][n] = v
  BY DEF Gives
<1>1. \A j \in l + 1..h : j \in 1..h
  OBVIOUS
<1>2. n \in DOMAIN e[l] /\ \A j \in l + 1..h : n \notin DOMAIN e[j]
  BY <1>1
<1>3. e[l][n] = v
  BY <1>2 DEF Gives
<1> QED
  BY <1>3

\* d is e with one more scope, that gives w to m; other names it gives as e.
Topped(e, m, w, d) ==
  /\ Len(d) = Len(e) + 1 /\ \A l \in 1..Len(e) : d[l] = e[l]
  /\ Gives(d, Len(d), m, w)
  /\ \A n : \A v : n # m /\ Gives(e, Len(e), n, v) => Gives(d, Len(d), n, v)

\* So it is with a scope for one name.
LEMMA GivesAppended ==
  ASSUME NEW e \in Seq(Scopes), NEW m, NEW w
  PROVE  Topped(e, m, w, Append(e, Alone(m, w)))
<1> DEFINE s == Alone(m, w)
           d == Append(e, s)
           L == Len(e)
<1>1. /\ L \in Nat /\ Len(d) = L + 1 /\ d[L + 1] = s
      /\ \A l \in 1..L : d[l] = e[l]
  OBVIOUS
<1>2. DOMAIN s = {m} /\ s[m] = w
  BY DEF Alone
<1> HIDE DEF s, d, L
<1>3. Gives(d, Len(d), m, w)
  <2> SUFFICES ASSUME NEW l \in 1..L + 1, m \in DOMAIN d[l],
                      \A j \in l + 1..L + 1 : m \notin DOMAIN d[j]
               PROVE  d[l][m] = w
    BY <1>1 DEF Gives
  <2>1. L + 1 \notin l + 1..L + 1
    BY <1>1, <1>2
  <2>2. l = L + 1
    BY <1>1, <2>1
  <2> QED
    BY <1>1, <1>2, <2>2
<1>4. ASSUME NEW n, NEW v, n # m, Gives(e, L, n, v)
      PROVE  Gives(d, Len(d), n, v)
  <2> SUFFICES ASSUME NEW l \in 1..L + 1, n \in DOMAIN d[l],
                      \A j \in l + 1..L + 1 : n \notin DOMAIN d[j]
               PROVE  d[l][n] = v
    BY <1>1 DEF Gives
  <2>1. l # L + 1
    BY <1>1, <1>2, <1>4
  <2>2. l \in 1..L /\ \A j \in l + 1..L : j \in l + 1..L + 1 /\ j \in 1..L
    BY <1>1, <2>1
  <2>3. n \in DOMAIN e[l] /\ \A j \in l + 1..L : n \notin DOMAIN e[j]
    BY <1>1, <2>2
  <2>4. e[l][n] = v
    BY <1>4, <2>2, <2>3 DEF Gives
  <2> QED
    BY <1>1, <2>2, <2>4
<1> QED
  BY <1>1, <1>3, <1>4 DEF Topped, L, d, s

\* A scope is opened for the expression k of node i.
LEMMA OpenExact ==
  ASSUME NEW tr, NEW ts, NEW e, Good(tr, ts, e), ts # <<>>, Exact(tr, ts, e), Scoping(tr),
         ts[1].do \in {"visit", "open"}, NEW i, i = ts[1].node,
         tr[i].kind \in {"fun", "for"}, NEW k \in 1..Len(tr), tr[k].parent = i,
         NEW m, m = OpenedFor(tr[i]), NEW w \in Referents, m \in Names,
         \A n : Mean(tr, k, n) = IF n = m THEN w ELSE Mean(tr, i, n)
  PROVE  Exact(tr, Instead(ts, Inside(k, i)), Append(e, Alone(m, w)))
<1> DEFINE us == Inside(k, i)
           d  == Append(e, Alone(m, w))
           a  == Visit(k)
           b  == Task("close", i)
<1>1. /\ Tree(tr) /\ i \in 1..Len(tr) /\ e \in Seq(Scopes) /\ ts \in Seq(TasksOf(tr))
      /\ ts[1].do # "close" /\ ts[1].do # "bind"
  BY FirstTask
<1>2. Alone(m, w) \in Scopes /\ DOMAIN Alone(m, w) = {m}
  BY NewScope DEF Alone
<1>3. /\ a \in TasksOf(tr) /\ a.do = "visit" /\ a.node = k
      /\ b \in TasksOf(tr) /\ b.do = "close" /\ b.node = i
  <2>1. "visit" \in Tasks /\ "close" \in Tasks
    BY DEF Tasks
  <2> QED
    BY <1>1, <2>1, TaskOf DEF Visit
<1> HIDE DEF a, b
<1>4. us = <<a, b>> /\ us \in Seq(TasksOf(tr)) /\ Len(us) = 2 /\ us[1] = a /\ us[2] = b
  <2>1. us = <<a, b>>
    BY DEF a, b, Inside
  <2> QED
    BY <1>3, <2>1, TwoTasks
<1>5. Fit(ts, us, e, d)
  <2>1. OpenedFor(tr[b.node]) \in DOMAIN Alone(m, w) /\ a.do # "close"
    BY <1>2, <1>3
  <2>2. <<a, b>> \in Seq(TasksOf(tr))
    BY <1>4
  <2>3. Fit(ts, <<a, b>>, e, Append(e, Alone(m, w)))
    BY <1>1, <1>2, <1>3, <2>1, <2>2, OpenStep
  <2> QED
    BY <1>4, <2>3
<1>6. /\ Len(d) = Len(e) + 1 /\ \A l \in 1..Len(e) : d[l] = e[l]
      /\ Gives(d, Len(d), m, w)
      /\ \A n : \A v : n # m /\ Gives(e, Len(e), n, v) => Gives(d, Len(d), n, v)
  <2>1. Topped(e, m, w, d)
    BY <1>1, GivesAppended
  <2> HIDE DEF d
  <2> QED
    BY <2>1 DEF Topped
<1>7. d \in Seq(Scopes)
  <2> DEFINE s == Alone(m, w)
  <2>1. e \in Seq(Scopes) /\ s \in Scopes
    BY <1>1, <1>2
  <2> HIDE DEF s
  <2>2. Append(e, s) \in Seq(Scopes)
    BY ONLY <2>1
  <2> QED
    BY <2>2 DEF s
<1> HIDE DEF us, d
<1>8. Exact(tr, us, d)
  <2>1. ASSUME NEW n \in Names, Mean(tr, k, n) # Unbound
        PROVE  ExactAt(tr, us, d, 1, n)
    <3>1. Gives(d, Len(d), n, Mean(tr, k, n))
      <4>1. CASE n = m
        BY <1>6, <4>1
      <4>2. CASE n # m
        <5>1. Mean(tr, k, n) = Mean(tr, i, n) /\ Mean(tr, i, n) # Unbound
          BY <2>1, <4>2
        <5>2. Gives(e, Len(e), n, Mean(tr, i, n))
          <6>1. Mean(tr, ts[1].node, n) # Unbound
            BY <5>1
          <6>2. Gives(e, Len(e), n, Mean(tr, ts[1].node, n))
            BY <6>1, ExactNow
          <6> QED
            BY <6>2
        <5> QED
          BY <1>6, <4>2, <5>1, <5>2
      <4> QED
        BY <4>1, <4>2
    <3>2. Closed(us, 1) = 0 /\ Len(d) - 0 = Len(d)
      <4>1. us \in Seq(TasksOf(tr)) /\ Len(d) \in Nat
        BY <1>4, <1>7
      <4>2. Closed(us, 1) = 0
        BY ONLY <4>1, ClosedNext
      <4> QED
        BY <4>1, <4>2
    <3>3. \A r \in 1..1 - 1 : FALSE
      OBVIOUS
    <3> QED
      BY <1>3, <1>4, <3>1, <3>2, <3>3 DEF ExactAt
  <2>2. \A q \in 1..Len(us) : q = 1 \/ us[q].do = "close"
    BY <1>3, <1>4
  <2> QED
    BY <1>3, <1>4, <2>1, <2>2 DEF Exact
<1>9. Calm(tr, ts, us, e, d)
  <2> SUFFICES ASSUME NEW n \in Names, NEW v, Safe(tr, ts[1], n, v)
               PROVE  /\ \A q \in 1..Len(us) : Safe(tr, us[q], n, v)
                      /\ \A h \in Int : h <= Len(e) - Closed(ts, 2) /\ Gives(e, h, n, v)
                           => Gives(d, h, n, v)
    BY DEF Calm
  <2>1. Mean(tr, i, n) # Unbound
    BY DEF Safe
  <2>2. Mean(tr, k, n) # Unbound
    BY <1>1, <2>1, Inherits
  <2>3. \A q \in 1..Len(us) : Safe(tr, us[q], n, v)
    <3>1. \A q \in 1..Len(us) : us[q] = a \/ us[q].do = "close"
      BY <1>3, <1>4
    <3> QED
      BY <1>3, <2>2, <3>1 DEF Safe
  <2>4. ASSUME NEW h \in Int, h <= Len(e) - Closed(ts, 2), Gives(e, h, n, v)
        PROVE  Gives(d, h, n, v)
    <3>1. Closed(ts, 2) = 0
      BY <1>1, ClosedSecond
    <3>2. \A l \in 1..h : l \in 1..Len(e)
      BY <1>1, <2>4, <3>1
    <3>3. \A l \in 1..h : d[l] = e[l]
      BY <1>6, <3>2
    <3> QED
      BY <2>4, <3>3, GivesSame
  <2> QED
    BY <2>3, <2>4
<1>10. Binds(tr, ts[1], us, e, d)
  BY <1>1 DEF Binds
<1>11. Exact(tr, Instead(ts, us), d)
  BY <1>4, <1>5, <1>7, <1>8, <1>9, <1>10, ExactFollows
<1> QED
  BY <1>11 DEF us, d

\* The innermost scope is closed.
LEMMA CloseExact ==
  ASSUME NEW tr, NEW ts, NEW e, Good(tr, ts, e), ts # <<>>, Exact(tr, ts, e),
         ts[1].do = "close"
  PROVE  Exact(tr, Instead(ts, <<>>), SubSeq(e, 1, Len(e) - 1))
<1> DEFINE us == <<>>
           d  == SubSeq(e, 1, Len(e) - 1)
<1>1. e \in Seq(Scopes) /\ ts \in Seq(TasksOf(tr)) /\ Len(e) \in Nat
  BY FirstTask
<1>2. Good(tr, Instead(ts, us), d) /\ Fit(ts, us, e, d)
  BY CloseStep
<1>3. d \in Seq(Scopes) /\ us \in Seq(TasksOf(tr)) /\ Len(us) = 0
  BY <1>2 DEF Good
<1>4. \A l \in 1..Len(e) - 1 : d[l] = e[l]
  BY <1>1
<1> HIDE DEF us, d
<1>5. Exact(tr, us, d)
  BY <1>3 DEF Exact
<1>6. Calm(tr, ts, us, e, d)
  <2> SUFFICES ASSUME NEW n \in Names, NEW v, NEW h \in Int,
                      h <= Len(e) - Closed(ts, 2), Gives(e, h, n, v)
               PROVE  Gives(d, h, n, v)
    BY <1>3 DEF Calm
  <2>1. Closed(ts, 2) = 1
    BY <1>1, ClosedSecond
  <2>2. \A l \in 1..h : d[l] = e[l]
    BY <1>1, <1>4, <2>1
  <2> QED
    BY <2>2, GivesSame
<1>7. Binds(tr, ts[1], us, e, d)
  BY DEF Binds
<1>8. Exact(tr, Instead(ts, us), d)
  BY <1>2, <1>3, <1>5, <1>6, <1>7, ExactFollows
<1> QED
  BY <1>8 DEF us, d

\* d is e where one scope that has m, or the last one, gives w to it.
Rebound(e, m, w, d) ==
  /\ Len(d) = Len(e) /\ Gives(d, Len(d), m, w)
  /\ \A n : \A v : \A h \in Int :
       h <= Len(e) /\ (n = m => v = w) /\ Gives(e, h, n, v) => Gives(d, h, n, v)

\* The innermost scope that has the name is where a definition is bound.
LEMMA GivesBound ==
  ASSUME env \in Seq(Scopes), NEW m, NEW w, NEW l \in 1..Len(env),
         l = IF LevelOf(m) = 0 THEN Len(env) ELSE LevelOf(m)
  PROVE  Rebound(env, m, w, Binding(env, m, w, l))
<1> DEFINE d == Binding(env, m, w, l)
           L == Len(env)
           f == [x \in {m} \cup DOMAIN env[l] |-> IF x = m THEN w ELSE env[l][x]]
<1>1. L \in Nat /\ Len(d) = L /\ d[l] = f /\ \A k \in 1..L : k # l => d[k] = env[k]
  BY DEF Binding
<1>2. /\ DOMAIN f = {m} \cup DOMAIN env[l] /\ f[m] = w
      /\ \A x \in DOMAIN env[l] : x # m => f[x] = env[l][x]
  OBVIOUS
<1> HIDE DEF d, f
<1>3. \A k \in 1..L : m \in DOMAIN env[k] => k <= l
  <2>1. /\ LevelOf(m) \in 0..L
        /\ \A k \in 1..L : m \in DOMAIN env[k] => k <= LevelOf(m)
    BY Lookup
  <2>2. l \in 1..L /\ l = IF LevelOf(m) = 0 THEN L ELSE LevelOf(m)
    OBVIOUS
  <2> HIDE DEF L
  <2> QED
    BY ONLY <1>1, <2>1, <2>2
<1>4. \A k \in 1..L : m \in DOMAIN d[k] => k <= l
  BY <1>1, <1>3
<1>i. l \in 1..L
  OBVIOUS
<1> HIDE DEF L
<1>5. ASSUME NEW h \in Int, h <= L, h < l => Gives(env, h, m, w)
      PROVE  Gives(d, h, m, w)
  <2> SUFFICES ASSUME NEW k \in 1..h, m \in DOMAIN d[k],
                      \A j \in k + 1..h : m \notin DOMAIN d[j]
               PROVE  d[k][m] = w
    BY DEF Gives
  <2>1. k \in 1..L /\ k <= l
    BY <1>1, <1>4, <1>5
  <2>2. CASE k = l
    BY <1>1, <1>2, <2>2
  <2>3. CASE k # l
    <3>1. l \notin k + 1..h
      BY <1>1, <1>2
    <3>2. h < l
      BY <1>1, <1>i, <2>1, <2>3, <3>1
    <3>3. \A j \in k..h : j \in 1..L /\ j # l
      BY <1>1, <1>5, <1>i, <3>2
    <3>4. \A j \in k..h : d[j] = env[j]
      BY <1>1, <3>3
    <3>5. k \in k..h /\ \A j \in k + 1..h : j \in k..h
      BY <2>1
    <3>6. m \in DOMAIN env[k] /\ \A j \in k + 1..h : m \notin DOMAIN env[j]
      BY <3>4, <3>5
    <3>7. env[k][m] = w
      BY <1>5, <3>2, <3>6 DEF Gives
    <3> QED
      BY <3>4, <3>5, <3>7
  <2> QED
    BY <2>2, <2>3
<1>6. ASSUME NEW h \in Int, h <= L, NEW n, n # m, NEW v, Gives(env, h, n, v)
      PROVE  Gives(d, h, n, v)
  <2>1. \A k \in 1..L : /\ n \in DOMAIN d[k] <=> n \in DOMAIN env[k]
                        /\ n \in DOMAIN d[k] => d[k][n] = env[k][n]
    BY <1>1, <1>2, <1>6
  <2>2. \A k \in 1..h : k \in 1..L /\ \A j \in k + 1..h : j \in 1..L
    BY <1>1, <1>6
  <2> QED
    BY <1>6, <2>1, <2>2 DEF Gives
<1>7. Gives(d, L, m, w)
  BY <1>1, <1>5, <1>i
<1>8. ASSUME NEW n, NEW v, NEW h \in Int, h <= L, n = m => v = w, Gives(env, h, n, v)
      PROVE  Gives(d, h, n, v)
  <2>1. CASE n = m
    BY <1>5, <1>8, <2>1
  <2>2. CASE n # m
    BY <1>6, <1>8, <2>2
  <2> QED
    BY <2>1, <2>2
<1> QED
  BY <1>1, <1>7, <1>8 DEF Rebound, L, d

\* What a lookup finds is what the table gives.
LEMMA GivesLookup ==
  ASSUME env \in Seq(Scopes), NEW n, NEW v, Gives(env, Len(env), n, v),
         LookupEntry(n) # Unbound
  PROVE  LookupEntry(n) = v
<1> DEFINE l == LevelOf(n)
<1>1. l # 0 /\ LookupEntry(n) = env[l][n]
  BY DEF LookupEntry
<1>2. /\ l \in 0..Len(env) /\ (l # 0 => n \in DOMAIN env[l])
      /\ \A k \in 1..Len(env) : n \in DOMAIN env[k] => k <= l
  BY Lookup
<1> HIDE DEF l
<1>3. l \in 1..Len(env) /\ \A j \in l + 1..Len(env) : j \in 1..Len(env) /\ ~(j <= l)
  BY <1>1, <1>2
<1> QED
  BY <1>1, <1>2, <1>3 DEF Gives

-----------------------------------------------------------------------------
(* Steps.                                                                  *)

\* A step that leaves the tree alone.
LEMMA LexedKept ==
  ASSUME Lexed, tree' = tree, pass' = pass,
         pass = "codegen" => Exact(tree, tasks', env')
  PROVE  Lexed'
BY DEF Lexed

\* An expression without a name of its own is replaced by its tasks.
LEMMA PlainLexed ==
  ASSUME Good(tree, tasks, env), Lexed, pass = "codegen", tasks # <<>>,
         First.do = "visit", NEW us, Arranged(tree, First.node, us),
         Then(us), UNCHANGED <<tree, pass, env>>
  PROVE  Lexed'
<1>1. First = tasks[1]
  BY Start
<1>2. tasks' = Instead(tasks, us)
  BY ThenInstead
<1>3. Exact(tree, tasks, env) /\ Scoping(tree)
  BY DEF Lexed, Lawful
<1>4. Exact(tree, Instead(tasks, us), env)
  BY <1>1, <1>3, PlainExact
<1> QED
  BY <1>2, <1>4, LexedKept

\* Expressions that only visit their subexpressions.
LEMMA VisitPlainLexed ==
  ASSUME Good(tree, tasks, env), Lexed, VisitPlain
  PROVE  Lexed'
<1>1. /\ tasks # <<>> /\ First.do = "visit" /\ tree[First.node].kind \in {"unit", "seq"}
      /\ UNCHANGED <<tree, pass, env>> /\ Then(Each("visit", tree[First.node].kids))
  BY DEF VisitPlain, N
<1>2. Arranged(tree, First.node, Each("visit", tree[First.node].kids))
  BY <1>1, Start, KidsArranged
<1>3. CASE pass = "codegen"
  BY <1>1, <1>2, <1>3, PlainLexed
<1>4. CASE pass # "codegen"
  BY <1>1, <1>4, LexedKept
<1> QED
  BY <1>3, <1>4

\* A let.
LEMMA GenLetLexed ==
  ASSUME Good(tree, tasks, env), Lexed, GenLet
  PROVE  Lexed'
<1> DEFINE us == Each("visit", DefsOf) \o Each("bind", DefsOf) \o <<Visit(Body)>>
<1>1. /\ tasks # <<>> /\ First.do = "visit" /\ tree[First.node].kind = "let"
      /\ pass = "codegen" /\ UNCHANGED <<tree, pass, env>> /\ Then(us)
  BY DEF GenLet, At
<1>2. DefsOf = Front(tree, First.node) /\ Body = Last(tree, First.node)
  BY DEF DefsOf, Front, Body, Last, N
<1>3. Arranged(tree, First.node, us)
  BY <1>1, <1>2, Start, LetArranged DEF Lexed, Lawful
<1> HIDE DEF us
<1> QED
  BY <1>1, <1>3, PlainLexed

\* A let rec.
LEMMA GenLetRecLexed ==
  ASSUME Good(tree, tasks, env), Lexed, GenLetRec
  PROVE  Lexed'
<1> DEFINE us == Each("bind", Only(DefsOf, FunDefs)) \o Each("visit", DefsOf)
                   \o Each("bind", Only(DefsOf, OtherDefs)) \o <<Visit(Body)>>
<1>1. /\ tasks # <<>> /\ First.do = "visit" /\ tree[First.node].kind = "letrec"
      /\ pass = "codegen" /\ UNCHANGED <<tree, pass, env>> /\ Then(us)
  BY DEF GenLetRec, At
<1>2. DefsOf = Front(tree, First.node) /\ Body = Last(tree, First.node)
  BY DEF DefsOf, Front, Body, Last, N
<1>3. /\ \A d \in 1..Len(tree) : d \in FunDefs <=> tree[d].kind = "fun"
      /\ \A d \in 1..Len(tree) : d \in FunDefs \/ d \in OtherDefs
  BY DEF FunDefs, OtherDefs, IsFun
<1>4. Arranged(tree, First.node, us)
  BY <1>1, <1>2, <1>3, Start, LetRecArranged DEF Lexed, Lawful
<1> HIDE DEF us
<1> QED
  BY <1>1, <1>4, PlainLexed

\* The expression of a variable, the dimensions of an array.
LEMMA GenVarLexed ==
  ASSUME Good(tree, tasks, env), Lexed, GenVar
  PROVE  Lexed'
<1>1. /\ tasks # <<>> /\ First.do = "visit" /\ tree[First.node].kind \in {"var", "array"}
      /\ pass = "codegen" /\ UNCHANGED <<tree, pass, env>>
      /\ Then(<<Visit(tree[First.node].kids[1])>>)
  BY DEF GenVar, Kid, N
<1>2. Arranged(tree, First.node, <<Visit(tree[First.node].kids[1])>>)
  BY <1>1, Start, VisitArranged
<1> QED
  BY <1>1, <1>2, PlainLexed

\* A loop, before its scope is opened.
LEMMA GenForLexed ==
  ASSUME Good(tree, tasks, env), Lexed, GenFor
  PROVE  Lexed'
<1>1. /\ tasks # <<>> /\ First.do = "visit" /\ tree[First.node].kind = "for"
      /\ pass = "codegen" /\ UNCHANGED <<tree, pass, env>>
      /\ Then(<<Visit(tree[First.node].kids[1]), Task("open", First.node)>>)
  BY DEF GenFor, At, Kid, N
<1>2. Arranged(tree, First.node, <<Visit(tree[First.node].kids[1]), Task("open", First.node)>>)
  BY <1>1, Start, LoopArranged
<1> QED
  BY <1>1, <1>2, PlainLexed

\* ImmutableDefFunc::funGen().
LEMMA GenFunLexed ==
  ASSUME Good(tree, tasks, env), Lexed, GenFun
  PROVE  Lexed'
<1> DEFINE i == First.node
           k == tree[i].kids[1]
           m == tree[i].par
           w == Parameter(i)
<1>1. /\ tasks # <<>> /\ tasks[1].do = "visit" /\ tree[i].kind = "fun" /\ i = tasks[1].node
      /\ Tree(tree) /\ i \in 1..Len(tree) /\ w \in Referents /\ m \in Names
  BY Start DEF GenFun, At, N
<1>2. m = OpenedFor(tree[i])
  BY <1>1 DEF OpenedFor
<1>3. k \in 1..Len(tree) /\ tree[k].parent = i
  BY <1>1, FirstKid
<1>4. /\ tasks' = Instead(tasks, Inside(k, i)) /\ tree' = tree /\ pass' = pass
      /\ env' = Append(env, Alone(m, w)) /\ pass = "codegen"
  BY ThenInstead DEF GenFun, At, OpenWith, Inside, Alone, Kid, N
<1>5. Exact(tree, tasks, env) /\ Scoping(tree)
  BY <1>4 DEF Lexed, Lawful
<1>6. \A n : Mean(tree, k, n) = IF n = m THEN w ELSE Mean(tree, i, n)
  <2>1. tree[i].kind \notin {"let", "letrec"} /\ tree[i].kind # "for"
    BY <1>1
  <2> HIDE DEF i, k
  <2> QED
    BY <1>1, <1>3, <2>1, MeanOther
<1> HIDE DEF i, k, m, w
<1>7. Exact(tree, Instead(tasks, Inside(k, i)), Append(env, Alone(m, w)))
  <2>1. tree[i].kind \in {"fun", "for"} /\ tasks[1].do \in {"visit", "open"}
    BY <1>1
  <2> QED
    BY <1>1, <1>2, <1>3, <1>5, <1>6, <2>1, OpenExact
<1> QED
  BY <1>4, <1>7, LexedKept

\* ForExpr::codegen() opens the scope of the counter.
LEMMA GenForOpenLexed ==
  ASSUME Good(tree, tasks, env), Lexed, GenForOpen
  PROVE  Lexed'
<1> DEFINE i == First.node
           k == Last(tree, i)
           m == tree[i].name
<1>1. /\ tasks # <<>> /\ tasks[1].do = "open" /\ tree[i].kind = "for" /\ i = tasks[1].node
      /\ Tree(tree) /\ i \in 1..Len(tree) /\ i \in Referents /\ m \in Names
  BY Start DEF GenForOpen, At, N
<1>2. m = OpenedFor(tree[i])
  BY <1>1 DEF OpenedFor
<1>3. k \in 1..Len(tree) /\ tree[k].parent = i
  BY <1>1, LastKid
<1>4. /\ tasks' = Instead(tasks, Inside(k, i)) /\ tree' = tree /\ pass' = pass
      /\ env' = Append(env, Alone(m, i)) /\ pass = "codegen"
  BY ThenInstead DEF GenForOpen, At, OpenWith, Inside, Alone, Body, Last, N
<1>5. Exact(tree, tasks, env) /\ Scoping(tree)
  BY <1>4 DEF Lexed, Lawful
<1>6. \A n : Mean(tree, k, n) = IF n = m THEN i ELSE Mean(tree, i, n)
  <2>1. tree[i].kind \notin {"let", "letrec"} /\ tree[i].kind # "fun" /\ k = Last(tree, i)
    BY <1>1
  <2> HIDE DEF i, k
  <2> QED
    BY <1>1, <1>3, <2>1, MeanOther
<1> HIDE DEF i, k, m
<1>7. Exact(tree, Instead(tasks, Inside(k, i)), Append(env, Alone(m, i)))
  <2>1. tree[i].kind \in {"fun", "for"} /\ tasks[1].do \in {"visit", "open"}
    BY <1>1
  <2> QED
    BY <1>1, <1>2, <1>3, <1>5, <1>6, <2>1, OpenExact
<1> QED
  BY <1>4, <1>7, LexedKept

\* A scope is closed.
LEMMA CloseLexed ==
  ASSUME Good(tree, tasks, env), Lexed, Close
  PROVE  Lexed'
<1>1. tasks # <<>> /\ First.do = "close" /\ First = tasks[1]
  BY Start DEF Close
<1>2. /\ tasks' = Instead(tasks, <<>>) /\ tree' = tree /\ pass' = pass
      /\ env' = SubSeq(env, 1, Len(env) - 1)
  BY ThenInstead DEF Close, Here
<1>3. pass = "codegen" => Exact(tree, Instead(tasks, <<>>), SubSeq(env, 1, Len(env) - 1))
  BY <1>1, CloseExact DEF Lexed
<1> QED
  BY <1>2, <1>3, LexedKept

\* A name is bound to its definition.
LEMMA BindLexed ==
  ASSUME Good(tree, tasks, env), Lexed, Bind
  PROVE  Lexed'
<1> DEFINE m == N.name
           i == First.node
           l == IF LevelOf(m) = 0 THEN Here ELSE LevelOf(m)
           d == Binding(env, m, i, l)
           us == <<>>
<1>1. /\ tasks # <<>> /\ tasks[1].do = "bind" /\ i = tasks[1].node /\ m = tree[i].name
      /\ Tree(tree) /\ env \in Seq(Scopes) /\ m \in Names /\ i \in Referents
      /\ tasks \in Seq(TasksOf(tree)) /\ tasks[1].do # "close"
  BY Start DEF Bind, N, Good
<1>2. tasks' = Instead(tasks, us) /\ tree' = tree /\ env' = d /\ pass' = pass
  BY ThenInstead DEF Bind, With, Binding
<1>3. /\ l \in 1..Len(env)
      /\ l = IF LevelOf(m) = 0 THEN Len(env) ELSE LevelOf(m)
  <2>1. Len(env) \in 1..Len(env) /\ Len(env) \in Nat /\ LevelOf(m) \in 0..Len(env)
    BY <1>1, TwoScopes, Lookup
  <2> HIDE DEF m
  <2> QED
    BY <2>1 DEF Here
<1> HIDE DEF m, i, l
<1>4. Rebound(env, m, i, d)
  BY <1>1, <1>3, GivesBound
<1>5. d \in Seq(Scopes) /\ Covers(d, env)
  BY <1>1, BindingCovers
<1> HIDE DEF d
<1>6. us \in Seq(TasksOf(tree)) /\ NoClose(us) /\ Len(us) = 0
  BY DEF NoClose
<1> HIDE DEF us
<1>7. Fit(tasks, us, env, d)
  BY <1>1, <1>5, <1>6, PlainStep
<1>8. Exact(tree, us, d)
  BY <1>6 DEF Exact
<1>9. Calm(tree, tasks, us, env, d)
  <2> SUFFICES ASSUME NEW n \in Names, NEW v, Safe(tree, tasks[1], n, v), NEW h \in Int,
                      h <= Len(env) - Closed(tasks, 2), Gives(env, h, n, v)
               PROVE  Gives(d, h, n, v)
    BY <1>6 DEF Calm
  <2>1. Closed(tasks, 2) = 0
    BY <1>1, ClosedSecond
  <2>2. h <= Len(env)
    BY <1>1, <2>1
  <2>3. n = m => v = i
    BY <1>1 DEF Safe
  <2> QED
    BY <1>4, <2>2, <2>3 DEF Rebound
<1>10. Binds(tree, tasks[1], us, env, d)
  BY <1>1, <1>4 DEF Binds, Rebound, us
<1>11. pass = "codegen" => Exact(tree, Instead(tasks, us), d)
  BY <1>1, <1>5, <1>6, <1>7, <1>8, <1>9, <1>10, ExactFollows DEF Lexed
<1> QED
  BY <1>2, <1>11, LexedKept

\* A name is looked up.
LEMMA ResolveLexed ==
  ASSUME Good(tree, tasks, env), Lexed, tasks # <<>>, First.do = "visit",
         N.kind # "open", pass \in {"sem", "codegen"}, NEW us,
         Arranged(tree, First.node, us), Resolve(us), UNCHANGED <<pass, env>>
  PROVE  Lexed'
<1>1. CASE LookupEntry(N.name) = Unbound
  <2>1. tree' = tree /\ tasks' = tasks /\ env' = env /\ pass' = pass
    BY <1>1 DEF Resolve
  <2> QED
    BY <2>1, LexedKept DEF Lexed
<1>2. CASE LookupEntry(N.name) # Unbound
  <2> DEFINE i == First.node
             v == LookupEntry(N.name)
             cs == [tree EXCEPT ![i][pass] = v]
  <2>1. tree' = cs /\ Then(us) /\ env' = env /\ pass' = pass
    BY <1>2 DEF Resolve
  <2>2. /\ Tree(tree) /\ i \in 1..Len(tree) /\ First = tasks[1] /\ env \in Seq(Scopes)
        /\ tree \in Seq(Node) /\ tree[i] \in Node /\ N = tree[i] /\ N.name \in Names
    BY Start DEF Tree, N
  <2>3. v \in Referents
    BY <1>2, <2>2, Lookup
  <2>4. tasks' = Instead(tasks, us)
    BY <2>1, ThenInstead
  <2>5. \/ pass = "sem" /\ cs = [tree EXCEPT ![i].sem = v]
        \/ pass = "codegen" /\ cs = [tree EXCEPT ![i].codegen = v]
    <3>1. CASE pass = "sem"
      <4>1. [tree[i] EXCEPT ![pass] = v] = [tree[i] EXCEPT !.sem = v]
        BY <3>1
      <4> QED
        BY <3>1, <4>1
    <3>2. CASE pass = "codegen"
      <4>1. [tree[i] EXCEPT ![pass] = v] = [tree[i] EXCEPT !.codegen = v]
        BY <3>2
      <4> QED
        BY <3>2, <4>1
    <3> QED
      BY <3>1, <3>2
  <2> HIDE DEF cs
  <2>6. Tree(cs) /\ Extends(tree, cs)
    <3> HIDE DEF i, v
    <3> QED
      BY <2>2, <2>3, <2>5, NotedTree
  <2>7. /\ Len(cs) = Len(tree)
        /\ \A m \in 1..Len(tree) :
             /\ cs[m].kind = tree[m].kind /\ cs[m].name = tree[m].name
             /\ m # i \/ pass = "sem" => cs[m].codegen = tree[m].codegen
        /\ pass = "codegen" => cs[i].codegen = v
    <3> DEFINE z == IF pass = "sem" THEN [tree[i] EXCEPT !.sem = v]
                                    ELSE [tree[i] EXCEPT !.codegen = v]
    <3> HIDE DEF i, v
    <3>1. /\ z.kind = tree[i].kind /\ z.name = tree[i].name
          /\ pass = "sem" => z.codegen = tree[i].codegen
          /\ pass = "codegen" => z.codegen = v
      BY <2>2 DEF Node
    <3>2. cs = [tree EXCEPT ![i] = z]
      BY <2>2, <2>5
    <3> HIDE DEF z
    <3>3. /\ Len(cs) = Len(tree) /\ cs[i] = z
          /\ \A m \in 1..Len(tree) : m # i => cs[m] = tree[m]
      BY <2>2, <3>2
    <3> QED
      BY <3>1, <3>3
  <2>8. Scoping(cs)
    <3>1. \A m \in 1..Len(cs) : cs[m].kind \in {"let", "letrec"} =>
            m = 0 \/ (m \in 1..Len(tree) /\ tree[m].kind = cs[m].kind)
      BY <2>7
    <3>2. 0 \in 1..Len(cs) /\ cs[0].kind \in {"let", "letrec"} => Distinct(cs, 0)
      OBVIOUS
    <3>3. Tree(tree) /\ Tree(cs) /\ Extends(tree, cs) /\ Scoping(tree)
      BY <2>2, <2>6 DEF Lexed, Lawful
    <3> QED
      BY ONLY <3>1, <3>2, <3>3, ScopingExtends
  <2>9. pass = "codegen" => Exact(tree, Instead(tasks, us), env)
    <3> SUFFICES ASSUME pass = "codegen" PROVE Exact(tree, Instead(tasks, us), env)
      OBVIOUS
    <3>1. Exact(tree, tasks, env) /\ Scoping(tree)
      BY DEF Lexed, Lawful
    <3>2. tasks[1].do = "visit" /\ Arranged(tree, tasks[1].node, us)
      BY <2>2
    <3> QED
      BY <3>1, <3>2, PlainExact
  <2>10. pass = "codegen" => Exact(cs, Instead(tasks, us), env)
    <3>1. Good(tree, Instead(tasks, us), env)
      <4>1. Suits(tree, us) /\ Covers(env, env) /\ tasks[1].do # "close"
        BY <2>2 DEF Arranged, Covers
      <4> QED
        BY <2>2, <4>1, SuitsGood
    <3> QED
      BY <2>6, <2>9, <3>1, ExactExtends
  <2>11. Noted(cs)
    <3>1. CASE pass = "sem"
      <4>1. \A m \in 1..Len(tree) : cs[m].codegen = tree[m].codegen
        BY <2>7, <3>1
      <4>2. \A m \in Len(tree) + 1..Len(cs) : cs[m].codegen = Unseen
        BY <2>2, <2>7
      <4> QED
        BY <2>2, <2>6, <4>1, <4>2, NotedExtends DEF Lexed, Lawful
    <3>2. CASE pass = "codegen"
      <4>1. ASSUME Mean(tree, i, N.name) # Unbound
            PROVE  v = Mean(tree, i, N.name)
        <5>1. Gives(env, Len(env), N.name, Mean(tree, i, N.name))
          BY <2>2, <3>2, <4>1, ExactNow DEF Lexed
        <5> QED
          BY <1>2, <2>2, <5>1, GivesLookup
      <4>2. \A m \in 1..Len(tree) : \A n : Mean(cs, m, n) = Mean(tree, m, n)
        BY <2>2, <2>6, MeanExtends
      <4>3. ASSUME NEW m \in 1..Len(cs)
            PROVE  /\ cs[m].kind = "open" => cs[m].codegen = Unseen
                   /\ cs[m].codegen # Unseen /\ Mean(cs, m, cs[m].name) # Unbound
                        => cs[m].codegen = Mean(cs, m, cs[m].name)
        <5>1. /\ m \in 1..Len(tree) /\ cs[m].kind = tree[m].kind /\ cs[m].name = tree[m].name
              /\ Mean(cs, m, cs[m].name) = Mean(tree, m, tree[m].name)
          BY <2>7, <4>2
        <5>2. CASE m = i
          BY <2>2, <2>7, <3>2, <4>1, <5>1, <5>2
        <5>3. CASE m # i
          <6>1. cs[m].codegen = tree[m].codegen
            BY <2>7, <5>1, <5>3
          <6> QED
            BY <5>1, <6>1 DEF Lexed, Lawful, Noted
        <5> QED
          BY <5>2, <5>3
      <4> QED
        BY <4>3 DEF Noted
    <3> QED
      BY <3>1, <3>2
  <2> QED
    BY <2>1, <2>4, <2>8, <2>10, <2>11 DEF Lexed, Lawful
<1> QED
  BY <1>1, <1>2

\* A use of a name.
LEMMA VisitUseLexed ==
  ASSUME Good(tree, tasks, env), Lexed, VisitUse
  PROVE  Lexed'
<1>1. /\ tasks # <<>> /\ First.do = "visit" /\ pass \in {"sem", "codegen"}
      /\ N.kind # "open" /\ Resolve(<<>>) /\ UNCHANGED <<pass, env>>
  BY DEF VisitUse, At, N
<1>2. Arranged(tree, First.node, <<>>)
  BY NothingArranged
<1> QED
  BY <1>1, <1>2, ResolveLexed

\* An element of an array; sem() does not look at the index.
LEMMA SemIndexLexed ==
  ASSUME Good(tree, tasks, env), Lexed, SemIndex
  PROVE  Lexed'
<1>1. /\ tasks # <<>> /\ First.do = "visit" /\ pass \in {"sem", "codegen"}
      /\ N.kind # "open" /\ Resolve(<<>>) /\ UNCHANGED <<pass, env>>
  BY DEF SemIndex, At, N
<1>2. Arranged(tree, First.node, <<>>)
  BY NothingArranged
<1> QED
  BY <1>1, <1>2, ResolveLexed

\* codegen() does.
LEMMA GenIndexLexed ==
  ASSUME Good(tree, tasks, env), Lexed, GenIndex
  PROVE  Lexed'
<1>1. /\ tasks # <<>> /\ First.do = "visit" /\ pass \in {"sem", "codegen"}
      /\ N.kind # "open" /\ tree[First.node].kind = "index"
      /\ Resolve(<<Visit(tree[First.node].kids[1])>>) /\ UNCHANGED <<pass, env>>
  BY DEF GenIndex, At, N, Kid
<1>2. Arranged(tree, First.node, <<Visit(tree[First.node].kids[1])>>)
  BY <1>1, Start, VisitArranged
<1> QED
  BY <1>1, <1>2, ResolveLexed

\* The tree grows at node i, which is no let, or one with lawful definitions.
LEMMA GrownLexed ==
  ASSUME Good(tree, tasks, env), Lexed, NEW i \in 1..Len(tree), NEW cs, Tree(cs),
         Extends(tree, cs), Sprouts(tree, i, cs),
         cs[i].kind \in {"let", "letrec"} => Distinct(cs, i),
         tree' = cs, UNCHANGED <<pass, tasks, env>>
  PROVE  Lexed'
<1>1. Tree(tree) /\ Scoping(tree) /\ Noted(tree)
  BY DEF Good, Lexed, Lawful
<1>2. Scoping(cs)
  <2>1. \A m \in 1..Len(cs) : cs[m].kind \in {"let", "letrec"} =>
          m = i \/ (m \in 1..Len(tree) /\ tree[m].kind = cs[m].kind)
    BY DEF Sprouts
  <2>2. i \in 1..Len(cs) /\ cs[i].kind \in {"let", "letrec"} => Distinct(cs, i)
    OBVIOUS
  <2>3. Tree(tree) /\ Tree(cs) /\ Extends(tree, cs) /\ Scoping(tree)
    BY <1>1
  <2> QED
    BY ONLY <2>1, <2>2, <2>3, ScopingExtends
<1>3. Noted(cs)
  BY <1>1, NotedExtends DEF Sprouts
<1>4. pass = "codegen" => Exact(cs, tasks, env)
  BY ExactExtends DEF Lexed
<1> QED
  BY <1>2, <1>3, <1>4 DEF Lexed, Lawful

\* The parser has put an expression here.
LEMMA ChooseExprLexed ==
  ASSUME Good(tree, tasks, env), Lexed, ChooseExpr
  PROVE  Lexed'
<1>1. /\ tasks # <<>> /\ First.do = "visit" /\ N.kind = "open"
      /\ UNCHANGED <<pass, tasks, env>>
  BY DEF ChooseExpr
<1>2. PICK kind \in Kinds \cap DOMAIN Arity, n \in Names :
        /\ Room(Arity[kind])
        /\ tree' = Grow(First.node, kind, n, AnyName, Arity[kind])
  <2>1. PICK kind \in Kinds \cap DOMAIN Arity :
          \E n \in IF kind \in {"use", "index", "for"} THEN Names ELSE {AnyName} :
            /\ Room(Arity[kind])
            /\ tree' = Grow(First.node, kind, n, AnyName, Arity[kind])
    BY DEF ChooseExpr
  <2>2. AnyName \in Names
    BY OpenNode
  <2> QED
    BY <2>1, <2>2
<1> DEFINE i == First.node
           cs == ExprTree(tree, i, kind, n, AnyName)
<1>3. tree' = cs
  BY <1>2 DEF Grow, ExprTree
<1>4. Tree(tree) /\ i \in 1..Len(tree) /\ tree[i].kind = "open"
  BY <1>1, Start DEF N
<1>5. Tree(cs) /\ Extends(tree, cs) /\ Sprouts(tree, i, cs) /\ cs[i].kind = kind
  <2>1. /\ kind \in DOMAIN Arity /\ AnyName \in Names
        /\ Len(tree) + Arity[kind] <= MaxNodes
    BY <1>2, OpenNode DEF Room
  <2> HIDE DEF i
  <2> QED
    BY <1>4, <2>1, ExprGrown
<1>6. kind \notin {"let", "letrec"}
  BY <1>2 DEF Arity
<1> HIDE DEF cs, i
<1> QED
  BY <1>1, <1>3, <1>4, <1>5, <1>6, GrownLexed

\* A let of names that are not known, and not in scope.
LEMMA ChooseLetLexed ==
  ASSUME ~ Redefine, Good(tree, tasks, env), Lexed, ChooseLet
  PROVE  Lexed'
<1>1. /\ tasks # <<>> /\ First.do = "visit" /\ N.kind = "open"
      /\ UNCHANGED <<pass, tasks, env>>
  BY ZenonT(40) DEF ChooseLet
<1> DEFINE i == First.node
<1>2. PICK kind \in Kinds \cap {"let", "letrec"}, k \in 1..MaxDefs :
        \E hs \in [1..k -> Heads] :
          /\ Room(2 * k + 1) /\ tree' = LetTree(tree, i, kind, k, hs)
          /\ Redefine \/ \A a, b \in 1..k : hs[a].name = hs[b].name => a = b
  BY DEF ChooseLet, LetTree, DefNode
<1>3. PICK hs \in [1..k -> Heads] :
        /\ Room(2 * k + 1) /\ tree' = LetTree(tree, i, kind, k, hs)
        /\ Redefine \/ \A a, b \in 1..k : hs[a].name = hs[b].name => a = b
  BY <1>2
<1> DEFINE cs == LetTree(tree, i, kind, k, hs)
<1>4. Tree(tree) /\ i \in 1..Len(tree) /\ tree[i].kind = "open"
  BY <1>1, Start DEF N
<1>5. Tree(cs) /\ Extends(tree, cs) /\ Sprouts(tree, i, cs) /\ Defines(cs, i, k, hs)
  <2>1. kind \in {"let", "letrec"} /\ k \in Nat /\ k >= 1 /\ Len(tree) + (2 * k + 1) <= MaxNodes
    BY <1>3, ConstantsAssumption DEF Room
  <2>2. hs \in [1..k -> [kind: Defs, name: Names, par: Names]]
    <3>1. Heads \subseteq [kind: Defs, name: Names, par: Names]
      BY DEF Heads
    <3> QED
      BY <1>3, <3>1
  <2> HIDE DEF i
  <2> QED
    BY <1>4, <2>1, <2>2, LetGrown
<1>6. \A j \in 1..k : Mean(tree, i, hs[j].name) = Unbound
  <2> TAKE j \in 1..k
  <2>1. hs[j] \in Heads
    BY <1>3
  <2>2. Lexical(i, hs[j].name) = Unbound
    BY <2>1 DEF Heads
  <2> QED
    BY <1>4, <2>2, LexicalMean
<1>7. \A a, b \in 1..k : hs[a].name = hs[b].name => a = b
  BY <1>3
<1>c. tree' = cs
  BY <1>3
<1>k. k \in Nat
  BY ConstantsAssumption
<1> HIDE DEF cs, i
<1>8. Distinct(cs, i)
  <2>1. /\ Len(cs[i].kids) = k + 1
        /\ \A j \in 1..k : cs[cs[i].kids[j]].name = hs[j].name
    BY <1>5 DEF Defines
  <2>2. ASSUME NEW d \in DefKids(cs, i)
        PROVE  \E j \in 1..k : d = cs[i].kids[j]
    BY <1>k, <2>1 DEF DefKids
  <2>3. ASSUME NEW d \in DefKids(cs, i)
        PROVE  Mean(cs, i, cs[d].name) = Unbound
    <3>1. PICK j \in 1..k : d = cs[i].kids[j]
      BY <2>2
    <3>2. cs[d].name = hs[j].name
      BY <2>1, <3>1
    <3>3. Mean(cs, i, cs[d].name) = Mean(tree, i, cs[d].name)
      BY <1>4, <1>5, MeanExtends
    <3> QED
      BY <1>6, <3>2, <3>3
  <2>4. ASSUME NEW d \in DefKids(cs, i), NEW c \in DefKids(cs, i), cs[c].name = cs[d].name
        PROVE  c = d
    <3>1. PICK a \in 1..k : d = cs[i].kids[a]
      BY <2>2
    <3>2. PICK b \in 1..k : c = cs[i].kids[b]
      BY <2>2
    <3>3. hs[a].name = hs[b].name
      BY <2>1, <2>4, <3>1, <3>2
    <3> QED
      BY <1>7, <3>1, <3>2, <3>3
  <2> QED
    BY <2>3, <2>4 DEF Distinct
<1> QED
  BY <1>1, <1>4, <1>5, <1>8, <1>c, GrownLexed

\* Code generation starts at the root.
LEMMA StartExact ==
  ASSUME NEW tr, Tree(tr)
  PROVE  Exact(tr, <<Visit(1)>>, InitialEnv)
<1> DEFINE ts == <<Visit(1)>>
           e  == InitialEnv
<1>1. Len(ts) = 1 /\ ts[1].do = "visit" /\ ts[1].node = 1
  BY DEF Visit, Task
<1>2. /\ Len(e) = 2 /\ e[2] = <<>> /\ DOMAIN e[1] = Libs
      /\ \A n \in Libs : e[1][n] = Library
  BY DEF InitialEnv
<1>3. Good(tr, ts, e)
  BY PassStarts
<1>4. Closed(ts, 1) = 0
  BY <1>3, ClosedNext DEF Good
<1> HIDE DEF ts, e
<1>5. ASSUME NEW n \in Names, Mean(tr, 1, n) # Unbound
      PROVE  ExactAt(tr, ts, e, 1, n)
  <2>1. n \in Libs /\ Mean(tr, 1, n) = Library
    BY <1>5, MeanRoot
  <2>2. DOMAIN e[2] = {}
    BY <1>2
  <2>3. Gives(e, 2, n, Library)
    <3> SUFFICES ASSUME NEW l \in 1..2, n \in DOMAIN e[l] PROVE e[l][n] = Library
      BY DEF Gives
    <3>1. l = 1
      BY <2>2
    <3> QED
      BY <1>2, <2>1, <3>1
  <2>4. Len(e) - Closed(ts, 1) = 2
    BY <1>2, <1>4
  <2>5. \A r \in 1..1 - 1 : FALSE
    OBVIOUS
  <2> QED
    BY <1>1, <2>1, <2>3, <2>4, <2>5 DEF ExactAt
<1>6. Exact(tr, ts, e)
  BY <1>1, <1>5 DEF Exact
<1> QED
  BY <1>6 DEF ts, e

\* There is one node, of which nothing is known.
LEMMA LexedInit == Init => Lexed
<1> SUFFICES ASSUME Init PROVE Lexed
  OBVIOUS
<1>1. tree = <<Open(0)>> /\ pass = "sem"
  BY DEF Init
<1>2. /\ Len(tree) = 1 /\ tree[1].kind = "open" /\ tree[1].codegen = Unseen
  BY <1>1, OpenNode
<1>3. \A p \in 1..Len(tree) : p = 1
  BY <1>2
<1>4. Scoping(tree) /\ Noted(tree)
  BY <1>2, <1>3 DEF Scoping, Noted
<1> QED
  BY <1>1, <1>4 DEF Lexed, Lawful

-----------------------------------------------------------------------------
\* Every step keeps what is said of the tree, and of the walk of codegen().
LEMMA LexedStep ==
  ~ Redefine /\ Inductive /\ Lexed /\ [Next]_vars => Lexed'
<1> SUFFICES ASSUME ~ Redefine, Inductive, Lexed, [Next]_vars PROVE Lexed'
  OBVIOUS
<1>g. Good(tree, tasks, env)
  BY DEF Inductive
<1>s. ASSUME UNCHANGED <<tree, pass>>, pass # "codegen" PROVE Lexed'
  BY <1>s, LexedKept
<1>1. CASE ChooseExpr
  BY <1>1, <1>g, ChooseExprLexed
<1>2. CASE ChooseLet
  BY <1>2, <1>g, ChooseLetLexed
<1>3. CASE VisitPlain
  BY <1>3, <1>g, VisitPlainLexed
<1>4. CASE VisitUse
  BY <1>4, <1>g, VisitUseLexed
<1>5. CASE Close
  BY <1>5, <1>g, CloseLexed
<1>6. CASE SemLet
  BY <1>6, <1>s DEF SemLet, At
<1>7. CASE SemDefine
  BY <1>7, <1>s DEF SemDefine
<1>8. CASE SemLetRec
  BY <1>8, <1>s DEF SemLetRec, At
<1>9. CASE SemVar
  BY <1>9, <1>s DEF SemVar, At
<1>10. CASE SemType
  <2>1. /\ tasks # <<>> /\ First.do = "type" /\ UNCHANGED <<tree, pass>>
    BY <1>10 DEF SemType
  <2>2. First = tasks[1] /\ 1 \in 1..Len(tasks)
    BY <1>g, <2>1, Start DEF Good
  <2>3. pass # "codegen"
    BY <2>1, <2>2 DEF Lexed, Exact
  <2> QED
    BY <1>s, <2>1, <2>3
<1>11. CASE SemNew
  BY <1>11, <1>s DEF SemNew
<1>12. CASE SemDecl
  BY <1>12, <1>s DEF SemDecl, At
<1>13. CASE SemFor
  BY <1>13, <1>s DEF SemFor, At
<1>14. CASE SemIndex
  BY <1>14, <1>g, SemIndexLexed
<1>15. CASE SemDone
  <2>1. tree' = tree /\ tasks' = <<Visit(1)>> /\ env' = InitialEnv
    BY <1>15 DEF SemDone
  <2>2. Exact(tree, <<Visit(1)>>, InitialEnv)
    BY <1>g, StartExact DEF Good
  <2> QED
    BY <2>1, <2>2 DEF Lexed
<1>16. CASE GenLet
  BY <1>16, <1>g, GenLetLexed
<1>17. CASE GenLetRec
  BY <1>17, <1>g, GenLetRecLexed
<1>18. CASE Bind
  BY <1>18, <1>g, BindLexed
<1>19. CASE GenVar
  BY <1>19, <1>g, GenVarLexed
<1>20. CASE GenFun
  BY <1>20, <1>g, GenFunLexed
<1>21. CASE GenFor
  BY <1>21, <1>g, GenForLexed
<1>22. CASE GenForOpen
  BY <1>22, <1>g, GenForOpenLexed
<1>23. CASE GenIndex
  BY <1>23, <1>g, GenIndexLexed
<1>24. CASE GenDone
  <2>1. pass' = "done" /\ tree' = tree
    BY <1>24 DEF GenDone
  <2> QED
    BY <2>1 DEF Lexed
<1>25. CASE UNCHANGED vars
  BY <1>25 DEF vars, Lexed
<1> QED
  BY <1>1, <1>2, <1>3, <1>4, <1>5, <1>6, <1>7, <1>8, <1>9, <1>10, <1>11, <1>12, <1>13, <1>14, <1>15,
     <1>16, <1>17, <1>18, <1>19, <1>20, <1>21, <1>22, <1>23, <1>24, <1>25 DEF Next

\* If no let defines a name that is known or in scope, the value that codegen()
\* takes for a name that has a definition in scope is that definition's, in
\* trees of any size: of the entries that other parts of the program have left
\* in the table, none is taken for it (DefBlock::codegen(), updateEntry()).
THEOREM CodegenLexical == ~ Redefine => (Spec => []CodegenIsLexical)
<1> SUFFICES ASSUME ~ Redefine PROVE Spec => []CodegenIsLexical
  OBVIOUS
<1>1. Init => Lexed
  BY LexedInit
<1>2. Inductive /\ Lexed /\ [Next]_vars => Lexed'
  BY LexedStep
<1>3. Inductive /\ Lexed => CodegenIsLexical
  <2> SUFFICES ASSUME Inductive, Lexed, NEW i \in Nodes, tree[i].codegen # Unseen,
                      Lexical(i, tree[i].name) # Unbound
               PROVE  tree[i].codegen = Lexical(i, tree[i].name)
    BY DEF CodegenIsLexical
  <2>1. i \in 1..Len(tree) /\ Tree(tree)
    BY DEF Nodes, Inductive, Good
  <2>2. Lexical(i, tree[i].name) = Mean(tree, i, tree[i].name)
    BY <2>1, LexicalMean
  <2> QED
    BY <2>1, <2>2 DEF Lexed, Lawful, Noted
<1> QED
  BY <1>1, <1>2, <1>3, InductiveAlways, PTL DEF Spec
=============================================================================
