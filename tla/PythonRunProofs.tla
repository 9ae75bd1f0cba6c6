-------------------------- MODULE PythonRunProofs --------------------------
(*****************************************************************************)
(* The code property graph of any Python module, its search, and what comes    *)
(* of running the module.                                                      *)
(*                                                                             *)
(* The search of any graph: every sink is reported once for each kind of       *)
(* source that comes to it, and no path of whatever length is missed.          *)
(*                                                                             *)
(* The walk of any module: it makes a graph, with the statements it has gone   *)
(* past, and every use of a variable in it is linked to each definition above  *)
(* it that it may mean.                                                        *)
(*                                                                             *)
(* Any run of the module: a value that comes from a source to a sink through   *)
(* variables is reported.                                                      *)
(*****************************************************************************)
EXTENDS PythonRun, FiniteSetTheorems, WellFoundedInduction, TLAPS

-------------------------------------------------------------------------------
(* Induction over data, and sequences. *)
(* A set of natural numbers has a least element. *)
LEMMA Smallest ==
    ASSUME NEW T, T \subseteq Nat, T # {}
    PROVE  \E x \in T : \A y \in T : ~(y < x)
<1> DEFINE R == OpToRel(<, Nat)
<1>1. IsWellFoundedOn(R, Nat)
  BY NatLessThanWellFounded
<1>2. \A x, y \in Nat : y < x => <<y, x>> \in R
  BY DEF OpToRel
<1> HIDE DEF R
<1>3. PICK x \in T : \A y \in T : ~(<<y, x>> \in R)
  BY <1>1, WFMin
<1> QED
  BY <1>2, <1>3

(* Induction over the natural numbers, for a set in place of a predicate. *)
LEMMA SetInduction ==
    ASSUME NEW S, 0 \in S, \A n \in Nat : n \in S => n + 1 \in S
    PROVE  Nat \subseteq S
<1> DEFINE T == Nat \ S
<1> SUFFICES ASSUME T # {} PROVE FALSE
  OBVIOUS
<1>1. PICK x \in T : \A y \in T : ~(y < x)
  BY Smallest
<1>2. x # 0 /\ x - 1 \in Nat
  BY <1>1
<1>3. x - 1 \in S
  BY <1>1, <1>2
<1>4. (x - 1) + 1 \in S /\ (x - 1) + 1 = x
  BY <1>1, <1>2, <1>3
<1> QED
  BY <1>1, <1>4

(* f holds the values that steps make of base, one after the other. *)
Unrolls(f, base, n, step) ==
    f[0] = base /\ \A i \in 1 .. n : f[i] = step[<<i, f[i - 1]>>]

StepsOver(n, X) == [(1 .. n) \X X -> X]

(* Values each computed from the one before exist. *)
LEMMA Recursion ==
    ASSUME NEW X, NEW base \in X, NEW n \in Nat, NEW step \in StepsOver(n, X)
    PROVE  \E f \in [0 .. n -> X] : Unrolls(f, base, n, step)
<1> USE DEF Unrolls, StepsOver
<1> DEFINE Good(f, m) == f[0] = base /\ \A i \in 1 .. m : f[i] = step[<<i, f[i - 1]>>]
           S == {m \in Nat : m <= n => \E f \in [0 .. m -> X] : Good(f, m)}
<1>1. 0 \in S
  <2>1. [i \in 0 .. 0 |-> base] \in [0 .. 0 -> X] /\ Good([i \in 0 .. 0 |-> base], 0)
    OBVIOUS
  <2> QED
    BY <2>1
<1>2. ASSUME NEW m \in Nat, m \in S PROVE m + 1 \in S
  <2> SUFFICES ASSUME m + 1 <= n PROVE \E f \in [0 .. m + 1 -> X] : Good(f, m + 1)
    OBVIOUS
  <2>1. PICK f \in [0 .. m -> X] : Good(f, m)
    BY <1>2
  <2> DEFINE g == [i \in 0 .. m + 1 |-> IF i \in 0 .. m THEN f[i] ELSE step[<<i, f[m]>>]]
  <2>2. <<m + 1, f[m]>> \in (1 .. n) \X X /\ step[<<m + 1, f[m]>>] \in X
    <3>1. m + 1 \in 1 .. n /\ f[m] \in X
      OBVIOUS
    <3> QED
      BY <3>1
  <2>3. g \in [0 .. m + 1 -> X]
    BY <2>2
  <2>4. g[0] = base
    BY <2>1
  <2>5. ASSUME NEW i \in 1 .. m + 1 PROVE g[i] = step[<<i, g[i - 1]>>]
    <3>1. i - 1 \in 0 .. m /\ g[i - 1] = f[i - 1]
      OBVIOUS
    <3>2. CASE i \in 1 .. m
      BY <2>1, <3>1, <3>2
    <3>3. CASE i = m + 1
      BY <3>1, <3>3
    <3> QED
      BY <3>2, <3>3
  <2> HIDE DEF g
  <2> QED
    BY <2>3, <2>4, <2>5
<1> HIDE DEF S
<1>3. Nat \subseteq S
  BY <1>1, <1>2, SetInduction
<1> QED
  BY <1>3 DEF S

(* The elements of a sequence with one more, *)
LEMMA RangeOfAppend ==
    ASSUME NEW T, NEW s \in Seq(T), NEW x \in T
    PROVE  Append(s, x) \in Seq(T) /\ Range(Append(s, x)) = Range(s) \cup {x}
<1> DEFINE n == Len(s)
           t == Append(s, x)
<1>1. t \in Seq(T) /\ n \in Nat /\ DOMAIN s = 1 .. n /\ DOMAIN t = 1 .. n + 1
  OBVIOUS
<1>2. t[n + 1] = x /\ \A i \in 1 .. n : t[i] = s[i]
  OBVIOUS
<1> HIDE DEF n, t
<1>3. Range(t) = {t[i] : i \in 1 .. n + 1} /\ Range(s) = {s[i] : i \in 1 .. n}
  BY <1>1 DEF Range
<1>4. 1 .. n + 1 = (1 .. n) \cup {n + 1}
  BY <1>1
<1> QED
  BY <1>1, <1>2, <1>3, <1>4 DEF t

(* and of two sequences. *)
LEMMA RangeOfConcat ==
    ASSUME NEW T, NEW s \in Seq(T), NEW t \in Seq(T)
    PROVE  s \o t \in Seq(T) /\ Range(s \o t) = Range(s) \cup Range(t)
<1> DEFINE n == Len(s)
           k == Len(t)
           u == s \o t
<1>1. /\ u \in Seq(T) /\ n \in Nat /\ k \in Nat
      /\ DOMAIN s = 1 .. n /\ DOMAIN t = 1 .. k /\ DOMAIN u = 1 .. n + k
  OBVIOUS
<1>2. (\A i \in 1 .. n : u[i] = s[i]) /\ \A i \in 1 .. k : u[n + i] = t[i]
  OBVIOUS
<1>3. \A i \in 1 .. n + k : i \in 1 .. n \/ (i - n \in 1 .. k /\ n + (i - n) = i)
  BY <1>1
<1> HIDE DEF n, k, u
<1>4. Range(u) \subseteq Range(s) \cup Range(t)
  <2> SUFFICES ASSUME NEW i \in 1 .. n + k PROVE u[i] \in Range(s) \cup Range(t)
    BY <1>1 DEF Range
  <2>1. CASE i \in 1 .. n
    BY <1>1, <1>2, <2>1 DEF Range
  <2>2. CASE i \notin 1 .. n
    <3>1. i - n \in 1 .. k /\ u[i] = t[i - n]
      BY <1>2, <1>3, <2>2
    <3> QED
      BY <1>1, <3>1 DEF Range
  <2> QED
    BY <2>1, <2>2
<1>5. \A i \in 1 .. n : i \in 1 .. n + k
  BY <1>1
<1>6. \A i \in 1 .. k : n + i \in 1 .. n + k
  BY <1>1
<1>7. Range(s) \cup Range(t) \subseteq Range(u)
  BY <1>1, <1>2, <1>5, <1>6 DEF Range
<1> QED
  BY <1>1, <1>4, <1>7 DEF u

(* Kept is a recursive function: what it is follows by induction over s. *)
LEMMA KeptIs ==
    ASSUME NEW T, NEW s \in Seq(T), NEW S
    PROVE  Kept(s, S) \in Seq(T) /\ Range(Kept(s, S)) = Range(s) \cap S
<1> DEFINE n == Len(s)
           Step(k, i) == IF s[i] \in S THEN Append(k, s[i]) ELSE k
           Is(f) == f = [i \in 0 .. Len(s) |->
                          IF i = 0 THEN <<>>
                          ELSE IF s[i] \in S THEN Append(f[i - 1], s[i]) ELSE f[i - 1]]
           kept == CHOOSE f : Is(f)
           step == [p \in (1 .. n) \X Seq(T) |-> Step(p[2], p[1])]
<1>1. n \in Nat /\ \A i \in 1 .. n : s[i] \in T
  OBVIOUS
<1>2. step \in [(1 .. n) \X Seq(T) -> Seq(T)]
  BY <1>1
<1>3. PICK f \in [0 .. n -> Seq(T)] :
        f[0] = <<>> /\ \A i \in 1 .. n : f[i] = step[<<i, f[i - 1]>>]
  <2> DEFINE X == Seq(T)
             base == <<>>
  <2>1. base \in X /\ n \in Nat /\ step \in StepsOver(n, X)
    BY <1>1, <1>2 DEF StepsOver
  <2> HIDE DEF step, n, X, base
  <2>2. \E f \in [0 .. n -> X] : Unrolls(f, base, n, step)
    BY <2>1, Recursion
  <2> QED
    BY <2>2 DEF Unrolls, X, base
<1>4. Is(f)
  <2>1. ASSUME NEW i \in 1 .. n PROVE f[i] = Step(f[i - 1], i)
    <3>1. <<i, f[i - 1]>> \in (1 .. n) \X Seq(T)
      BY <1>1, <1>3, SMTT(30)
    <3>2. f[i] = step[<<i, f[i - 1]>>]
      BY <1>3
    <3> QED
      BY <3>1, <3>2
  <2>2. \A i \in 0 .. n : f[i] = IF i = 0 THEN <<>> ELSE Step(f[i - 1], i)
    <3> TAKE i \in 0 .. n
    <3>1. CASE i = 0
      BY <1>3, <3>1
    <3>2. CASE i # 0
      <4>1. i \in 1 .. n
        BY <1>1, <3>2
      <4> QED
        BY <2>1, <3>2, <4>1
    <3> QED
      BY <3>1, <3>2
  <2> QED
    BY <1>3, <2>2
<1>5. Is(kept)
  BY <1>4
<1>6. Kept(s, S) = kept[n]
  BY Zenon DEF Kept
<1> DEFINE P == {m \in Nat : m <= n =>
                   kept[m] \in Seq(T) /\ Range(kept[m]) = {s[i] : i \in 1 .. m} \cap S}
<1> HIDE DEF kept
<1>7. 0 \in P
  BY <1>5, <1>1 DEF Range
<1>8. ASSUME NEW m \in Nat, m \in P PROVE m + 1 \in P
  <2> SUFFICES ASSUME m + 1 <= n
               PROVE  kept[m + 1] \in Seq(T)
                      /\ Range(kept[m + 1]) = {s[i] : i \in 1 .. m + 1} \cap S
    OBVIOUS
  <2>1. kept[m] \in Seq(T) /\ Range(kept[m]) = {s[i] : i \in 1 .. m} \cap S
    <3>1. m <= n
      BY <1>1
    <3> QED
      BY <1>8, <3>1
  <2>2. kept[m + 1] = Step(kept[m], m + 1)
    <3>1. m + 1 \in 0 .. Len(s) /\ m + 1 # 0 /\ (m + 1) - 1 = m
      BY <1>1
    <3> QED
      BY <1>5, <3>1
  <2>3. {s[i] : i \in 1 .. m + 1} = {s[i] : i \in 1 .. m} \cup {s[m + 1]}
    OBVIOUS
  <2>4. s[m + 1] \in T
    BY <1>1
  <2>5. CASE s[m + 1] \in S
    <3>1. kept[m + 1] = Append(kept[m], s[m + 1])
      BY <2>2, <2>5
    <3>2. /\ Append(kept[m], s[m + 1]) \in Seq(T)
          /\ Range(Append(kept[m], s[m + 1])) = Range(kept[m]) \cup {s[m + 1]}
      BY <2>1, <2>4, RangeOfAppend
    <3> QED
      BY <2>1, <2>3, <2>4, <2>5, <3>1, <3>2
  <2>6. CASE s[m + 1] \notin S
    BY <2>1, <2>2, <2>3, <2>6
  <2> QED
    BY <2>5, <2>6
<1>9. Nat \subseteq P
  <2> HIDE DEF P
  <2> QED
    BY <1>7, <1>8, SetInduction
<1>10. kept[n] \in Seq(T) /\ Range(kept[n]) = {s[i] : i \in 1 .. n} \cap S
  <2>1. n <= n
    BY <1>1
  <2> HIDE DEF n
  <2> QED
    BY <1>1, <1>9, <2>1
<1>11. {s[i] : i \in 1 .. n} = Range(s)
  <2>1. DOMAIN s = 1 .. n
    OBVIOUS
  <2> HIDE DEF n
  <2> QED
    BY <2>1 DEF Range
<1> QED
  BY <1>6, <1>10, <1>11

-------------------------------------------------------------------------------
(* The search: what a step does to the worklist, as a set. *)
Item == [node : Nodes, tags : SUBSET TagNames, path : Seq(Nodes)]
TaintPath == [source : Nodes, sink : Nodes, tags : SUBSET TagNames, path : Seq(Nodes)]

(* The kinds of edges, in their order. *)
LEMMA KindsAre ==
    EdgeKinds = {KindOrder[1], KindOrder[2], KindOrder[3], KindOrder[4], KindOrder[5]}
<1>1. DOMAIN KindOrder = 1 .. 5
  BY DEF KindOrder
<1>2. 1 .. 5 = {1, 2, 3, 4, 5}
  OBVIOUS
<1> QED
  BY <1>1, <1>2 DEF EdgeKinds, Range

(* The tags of a node are tags. *)
LEMMA TagsAreTags ==
    ASSUME IsCpg(cpg), NEW n \in Nodes
    PROVE  Tags(n) \in SUBSET TagNames
BY DEF Tags, TagNames

(* The successors of a node are pushed, in whatever order. *)
LEMMA SuccessorsPushed ==
    ASSUME IsCpg(cpg), NEW n \in Nodes
    PROVE  /\ PropagatedTo(n) \in Seq(Nodes)
           /\ Range(PropagatedTo(n)) = Successors(n)
<1> DEFINE Along(kind) == Kept(cpg.edges[n][kind], PropagatedAlong(n, kind))
<1>1. ASSUME NEW k \in EdgeKinds
      PROVE  Along(k) \in Seq(Nodes) /\ Range(Along(k)) = PropagatedAlong(n, k)
  <2>1. cpg.edges[n][k] \in Seq(Nodes)
    BY DEF IsCpg, Nodes
  <2>2. Along(k) \in Seq(Nodes)
        /\ Range(Along(k)) = Range(cpg.edges[n][k]) \cap PropagatedAlong(n, k)
    BY <2>1, KeptIs
  <2>3. PropagatedAlong(n, k) \subseteq Range(cpg.edges[n][k])
    BY DEF PropagatedAlong
  <2> QED
    BY <2>2, <2>3
<1> DEFINE a1 == Along(KindOrder[1])
           a2 == Along(KindOrder[2])
           a3 == Along(KindOrder[3])
           a4 == Along(KindOrder[4])
           a5 == Along(KindOrder[5])
<1>2. PropagatedTo(n) = a1 \o a2 \o a3 \o a4 \o a5
  BY DEF PropagatedTo
<1>3. Successors(n) = PropagatedAlong(n, KindOrder[1]) \cup PropagatedAlong(n, KindOrder[2])
        \cup PropagatedAlong(n, KindOrder[3]) \cup PropagatedAlong(n, KindOrder[4])
        \cup PropagatedAlong(n, KindOrder[5])
  BY KindsAre DEF Successors
<1>4. /\ a1 \in Seq(Nodes) /\ Range(a1) = PropagatedAlong(n, KindOrder[1])
      /\ a2 \in Seq(Nodes) /\ Range(a2) = PropagatedAlong(n, KindOrder[2])
      /\ a3 \in Seq(Nodes) /\ Range(a3) = PropagatedAlong(n, KindOrder[3])
      /\ a4 \in Seq(Nodes) /\ Range(a4) = PropagatedAlong(n, KindOrder[4])
      /\ a5 \in Seq(Nodes) /\ Range(a5) = PropagatedAlong(n, KindOrder[5])
  BY <1>1, KindsAre
<1> HIDE DEF a1, a2, a3, a4, a5
<1> DEFINE a12 == a1 \o a2
           a123 == a12 \o a3
           a1234 == a123 \o a4
<1>5. a12 \in Seq(Nodes) /\ Range(a12) = Range(a1) \cup Range(a2)
  BY <1>4, RangeOfConcat
<1> HIDE DEF a12
<1>6. a123 \in Seq(Nodes) /\ Range(a123) = Range(a12) \cup Range(a3)
  BY <1>4, <1>5, RangeOfConcat
<1> HIDE DEF a123
<1>7. a1234 \in Seq(Nodes) /\ Range(a1234) = Range(a123) \cup Range(a4)
  BY <1>4, <1>6, RangeOfConcat
<1> HIDE DEF a1234
<1>8. a1234 \o a5 \in Seq(Nodes) /\ Range(a1234 \o a5) = Range(a1234) \cup Range(a5)
  BY <1>4, <1>7, RangeOfConcat
<1>9. PropagatedTo(n) = a1234 \o a5
  BY <1>2 DEF a12, a123, a1234
<1> QED
  BY <1>3, <1>4, <1>5, <1>6, <1>7, <1>8, <1>9

(* Taint stays in the graph. *)
LEMMA SuccessorsAreNodes ==
    ASSUME IsCpg(cpg), NEW n \in Nodes
    PROVE  Successors(n) \subseteq Nodes
BY SuccessorsPushed DEF Range

(* What depends on the graph alone is the same while the graph is. *)
LEMMA GraphStays ==
    ASSUME cpg' = cpg
    PROVE  /\ Nodes' = Nodes /\ Sources' = Sources /\ Item' = Item /\ TaintPath' = TaintPath
           /\ TagNames' = TagNames
           /\ \A n : IsSource(n)' = IsSource(n) /\ IsSink(n)' = IsSink(n) /\ Tags(n)' = Tags(n)
           /\ \A n : Successors(n)' = Successors(n)
           /\ \A q : IsTaintPath(q)' = IsTaintPath(q)
           /\ \A p : IsFlow(p)' = IsFlow(p)
BY DEF Nodes, Sources, Item, TagNames, TaintPath, IsSource, IsSink, Tags, OpOf, CallOf, Successors,
       PropagatedAlong, Propagates, GuardStrips, IsTaintPath, IsFlow

Extended(item, m) == [node |-> m, tags |-> item.tags, path |-> Append(item.path, m)]
Pushed(item) == {Extended(item, m) : m \in Successors(item.node)}

(* The item visited is taken from the worklist. *)
LEMMA PopsLast ==
    ASSUME NEW T, worklist \in Seq(T), worklist # <<>>
    PROVE  /\ Popped \in T /\ Remaining \in Seq(T)
           /\ Range(worklist) = Range(Remaining) \cup {Popped}
<1> DEFINE n == Len(worklist)
           rest == SubSeq(worklist, 1, n - 1)
<1>1. n \in Nat /\ n # 0 /\ DOMAIN worklist = 1 .. n /\ n - 1 \in Nat
  OBVIOUS
<1>2. rest \in Seq(T) /\ DOMAIN rest = 1 .. n - 1 /\ \A i \in 1 .. n - 1 : rest[i] = worklist[i]
  OBVIOUS
<1>3. 1 .. n = (1 .. n - 1) \cup {n}
  BY <1>1
<1>4. worklist[n] \in T
  BY <1>1
<1> HIDE DEF n, rest
<1>5. Range(worklist) = {worklist[i] : i \in 1 .. n} /\ Range(rest) = {rest[i] : i \in 1 .. n - 1}
  BY <1>1, <1>2 DEF Range
<1>6. Range(worklist) = Range(rest) \cup {worklist[n]}
  BY <1>2, <1>3, <1>5
<1> QED
  BY <1>2, <1>4, <1>6 DEF Popped, Remaining, n, rest

(* What SkipVisited and *)
LEMMA SkipDoes ==
    ASSUME SearchTypeOK, SkipVisited
    PROVE  /\ Popped \in Item /\ StateKey(Popped) \in visited
           /\ Range(worklist) = Range(worklist') \cup {Popped} /\ worklist' \in Seq(Item)
           /\ UNCHANGED <<cpg, visited, nodeTaint, paths>>
BY PopsLast DEF SkipVisited, SearchTypeOK, Item

(* VisitNode do to worklist and visited states. *)
LEMMA VisitDoes ==
    ASSUME SearchTypeOK, VisitNode
    PROVE  /\ Popped \in Item /\ StateKey(Popped) \notin visited /\ cpg' = cpg
           /\ visited' = visited \cup {StateKey(Popped)}
           /\ nodeTaint' = [nodeTaint EXCEPT ![Popped.node] = @ \cup Popped.tags]
           /\ worklist' \in Seq(Item)
           /\ Remaining \in Seq(Item) /\ Range(worklist) = Range(Remaining) \cup {Popped}
           /\ IsSink(Popped.node) =>
                /\ paths' = Append(paths, [source |-> Popped.path[1], sink |-> Popped.node,
                                           tags |-> Popped.tags, path |-> Popped.path])
                /\ Range(worklist') = Range(Remaining)
           /\ ~IsSink(Popped.node) =>
                paths' = paths /\ Range(worklist') = Range(Remaining) \cup Pushed(Popped)
<1> DEFINE item == Popped
           next == PropagatedTo(item.node)
           pushed == [i \in DOMAIN next |-> Extended(item, next[i])]
<1>1. worklist \in Seq(Item) /\ worklist # <<>>
  BY DEF VisitNode, SearchTypeOK, Item
<1>2. Popped \in Item /\ Remaining \in Seq(Item) /\ Range(worklist) = Range(Remaining) \cup {Popped}
  BY <1>1, PopsLast
<1>3. IsCpg(cpg) /\ item.node \in Nodes
  BY <1>2 DEF SearchTypeOK, Item
<1>4. next \in Seq(Nodes) /\ Range(next) = Successors(item.node)
  BY <1>3, SuccessorsPushed
<1>5. pushed \in Seq(Item) /\ Range(pushed) = Pushed(item)
  <2>1. ASSUME NEW m \in Nodes PROVE Extended(item, m) \in Item
    <3>1. Append(item.path, m) \in Seq(Nodes) /\ item.tags \in SUBSET TagNames
      BY <1>2 DEF Item
    <3> QED
      BY <3>1 DEF Extended, Item
  <2> DEFINE k == Len(next)
  <2>2. k \in Nat /\ DOMAIN next = 1 .. k /\ \A i \in 1 .. k : next[i] \in Nodes
    BY <1>4
  <2> HIDE DEF next, item, k
  <2>3. pushed \in Seq(Item) /\ DOMAIN pushed = DOMAIN next
    BY <2>1, <2>2
  <2>4. Range(pushed) = {Extended(item, m) : m \in Range(next)}
    BY <2>3 DEF Range
  <2> QED
    BY <1>4, <2>3, <2>4 DEF Pushed
<1>6. Remaining \o pushed \in Seq(Item)
      /\ Range(Remaining \o pushed) = Range(Remaining) \cup Pushed(item)
  <2> HIDE DEF pushed, item
  <2> QED
    BY <1>2, <1>5, RangeOfConcat
<1>7. /\ StateKey(item) \notin visited /\ cpg' = cpg
      /\ visited' = visited \cup {StateKey(item)}
      /\ nodeTaint' = [nodeTaint EXCEPT ![item.node] = @ \cup item.tags]
      /\ IF IsSink(item.node)
         THEN /\ paths' = Append(paths, [source |-> item.path[1], sink |-> item.node,
                                         tags |-> item.tags, path |-> item.path])
              /\ worklist' = Remaining
         ELSE worklist' = Remaining \o pushed /\ paths' = paths
  BY DEF VisitNode, Extended
<1> HIDE DEF pushed, next
<1> QED
  BY <1>2, <1>6, <1>7

-------------------------------------------------------------------------------
(* What is on the worklist is a path, and what was visited was followed or is
   a sink that was reported. *)
IsWalk(w) ==
    IsTaintPath(w.path) /\ w.path[Len(w.path)] = w.node /\ w.tags = Tags(w.path[1])
Walks == \A w \in Range(worklist) : IsWalk(w)

(* The states that were visited or will be. *)
Met == visited \cup {StateKey(w) : w \in Range(worklist)}
Seeded == \A s \in Sources : <<s, Tags(s)>> \in Met

Reported(n, tags) == \E i \in DOMAIN paths : paths[i].sink = n /\ paths[i].tags = tags
Followed ==
    \A k \in visited :
        IF IsSink(k[1]) THEN Reported(k[1], k[2])
        ELSE \A m \in Successors(k[1]) : <<m, k[2]>> \in Met

Reports ==
    /\ \A i \in DOMAIN paths : IsFlow(paths[i]) /\ <<paths[i].sink, paths[i].tags>> \in visited
    /\ \A i, j \in DOMAIN paths :
          paths[i].sink = paths[j].sink /\ paths[i].tags = paths[j].tags => i = j

SearchInv == SearchTypeOK /\ Walks /\ Seeded /\ Followed /\ Reports

(* The seeds are sources. *)
LEMMA SearchStarts == IsCpg(cpg) /\ SearchStart => SearchInv
<1> SUFFICES ASSUME IsCpg(cpg), SearchStart PROVE SearchInv
  OBVIOUS
<1> DEFINE all == [n \in Nodes |-> n]
           sources == Kept(all, Sources)
           seed(n) == [node |-> n, tags |-> Tags(n), path |-> <<n>>]
<1>1. all \in Seq(Nodes) /\ Range(all) = Nodes
  <2>1. Len(cpg.nodes) \in Nat /\ Nodes = 1 .. Len(cpg.nodes)
    BY DEF IsCpg, Nodes
  <2> DEFINE k == Len(cpg.nodes)
  <2>2. all = [n \in 1 .. k |-> n]
    BY <2>1
  <2> HIDE DEF all, k
  <2>3. all \in Seq(1 .. k)
    BY <2>1, <2>2 DEF k
  <2>4. Range(all) = 1 .. k
    BY <2>2 DEF Range
  <2> QED
    BY <2>1, <2>3, <2>4 DEF k
<1>2. sources \in Seq(Nodes) /\ Range(sources) = Sources
  <2>1. Sources \subseteq Nodes
    BY DEF Sources
  <2> HIDE DEF all
  <2>2. sources \in Seq(Nodes) /\ Range(sources) = Range(all) \cap Sources
    BY <1>1, KeptIs
  <2> QED
    BY <1>1, <2>1, <2>2
<1>3. worklist = [i \in DOMAIN sources |-> seed(sources[i])]
  BY DEF SearchStart, Seeds
<1> HIDE DEF sources
<1>4. \A n \in Nodes : seed(n) \in Item
  <2> SUFFICES ASSUME NEW n \in Nodes PROVE seed(n) \in Item
    OBVIOUS
  <2>1. Tags(n) \in SUBSET TagNames /\ <<n>> \in Seq(Nodes)
    BY TagsAreTags
  <2> QED
    BY <2>1 DEF Item
<1> DEFINE k == Len(sources)
<1>5. k \in Nat /\ DOMAIN sources = 1 .. k /\ \A i \in 1 .. k : sources[i] \in Nodes
  BY <1>2
<1> HIDE DEF k, seed
<1>6. worklist \in Seq(Item)
  BY <1>3, <1>4, <1>5
<1>7. Range(worklist) = {seed(s) : s \in Sources}
  BY <1>2, <1>3 DEF Range
<1> USE DEF seed
<1>8. SearchTypeOK
  <2>1. nodeTaint \in [Nodes -> SUBSET TagNames]
    BY DEF SearchStart, Untainted
  <2> QED
    BY <1>6, <2>1 DEF SearchTypeOK, SearchStart, Item
<1>9. Walks
  <2> SUFFICES ASSUME NEW s \in Sources PROVE IsWalk(seed(s))
    BY <1>7 DEF Walks
  <2> QED
    BY DEF IsWalk, IsTaintPath, Sources
<1>10. Seeded
  <2> SUFFICES ASSUME NEW s \in Sources PROVE <<s, Tags(s)>> \in Met
    BY DEF Seeded
  <2>1. seed(s) \in Range(worklist) /\ StateKey(seed(s)) = <<s, Tags(s)>>
    BY <1>7 DEF StateKey
  <2> QED
    BY <2>1 DEF Met
<1>11. Followed /\ Reports
  BY DEF SearchStart, Followed, Reports
<1> QED
  BY <1>8, <1>9, <1>10, <1>11 DEF SearchInv

(* Both steps of the search keep its invariant. *)
LEMMA SkipStep == SearchInv /\ SkipVisited => SearchInv'
<1> SUFFICES ASSUME SearchInv, SkipVisited PROVE SearchInv'
  OBVIOUS
<1> USE DEF SearchInv
<1>1. /\ Popped \in Item /\ StateKey(Popped) \in visited
      /\ Range(worklist) = Range(worklist') \cup {Popped} /\ worklist' \in Seq(Item)
      /\ UNCHANGED <<cpg, visited, nodeTaint, paths>>
  BY SkipDoes
<1>2. SearchTypeOK'
  BY <1>1, GraphStays DEF SearchTypeOK, Item
<1>3. Walks'
  BY <1>1, GraphStays DEF Walks, IsWalk
<1>4. Met' = Met
  BY <1>1 DEF Met, StateKey
<1>5. Seeded'
  BY <1>1, <1>4, GraphStays DEF Seeded
<1>6. Followed'
  BY <1>1, <1>4, GraphStays DEF Followed, Reported
<1>7. Reports'
  BY <1>1, GraphStays DEF Reports
<1> QED
  BY <1>2, <1>3, <1>5, <1>6, <1>7

(* A node visited is followed or reported. *)
LEMMA VisitStep == SearchInv /\ VisitNode => SearchInv'
<1> SUFFICES ASSUME SearchInv, VisitNode, NEW item, item = Popped PROVE SearchInv'
  OBVIOUS
<1> USE DEF SearchInv
<1> DEFINE n == item.node
           found == [source |-> item.path[1], sink |-> n, tags |-> item.tags, path |-> item.path]
<1>1. /\ item \in Item /\ StateKey(item) \notin visited /\ cpg' = cpg
      /\ visited' = visited \cup {StateKey(item)}
      /\ nodeTaint' = [nodeTaint EXCEPT ![n] = @ \cup item.tags]
      /\ worklist' \in Seq(Item)
      /\ Remaining \in Seq(Item) /\ Range(worklist) = Range(Remaining) \cup {item}
      /\ IsSink(n) => paths' = Append(paths, found) /\ Range(worklist') = Range(Remaining)
      /\ ~IsSink(n) => paths' = paths /\ Range(worklist') = Range(Remaining) \cup Pushed(item)
  BY VisitDoes
<1>2. /\ n \in Nodes /\ item.tags \in SUBSET TagNames /\ item.path \in Seq(Nodes)
      /\ StateKey(item) = <<n, item.tags>>
  BY <1>1 DEF Item, StateKey
<1>3. IsWalk(item)
  BY <1>1 DEF Walks
<1>4. item.path # <<>> /\ item.path[1] \in Nodes /\ Len(item.path) \in Nat \ {0}
  BY <1>2, <1>3 DEF IsWalk, IsTaintPath
<1>5. IsSink(n) => found \in TaintPath /\ IsFlow(found)
  BY <1>2, <1>3, <1>4 DEF TaintPath, IsFlow, IsWalk
<1>6. SearchTypeOK'
  <2>1. visited' \subseteq Nodes \X SUBSET TagNames
    BY <1>1, <1>2 DEF SearchTypeOK
  <2>2. nodeTaint' \in [Nodes -> SUBSET TagNames]
    BY <1>1, <1>2 DEF SearchTypeOK
  <2>3. paths' \in Seq(TaintPath)
    <3>1. paths \in Seq(TaintPath)
      BY DEF SearchTypeOK, TaintPath
    <3> HIDE DEF found
    <3>2. CASE IsSink(n)
      <4>1. found \in TaintPath
        BY <1>5, <3>2
      <4>2. Append(paths, found) \in Seq(TaintPath)
        BY <3>1, <4>1, RangeOfAppend
      <4> QED
        BY <1>1, <3>2, <4>2
    <3>3. CASE ~IsSink(n)
      BY <1>1, <3>1, <3>3
    <3> QED
      BY <3>2, <3>3
  <2>4. IsCpg(cpg)'
    BY <1>1 DEF SearchTypeOK
  <2>5. /\ Nodes' = Nodes /\ TagNames' = TagNames /\ Item' = Item /\ TaintPath' = TaintPath
    BY <1>1, GraphStays
  <2> QED
    BY <1>1, <2>1, <2>2, <2>3, <2>4, <2>5 DEF SearchTypeOK, Item, TaintPath
<1>7. Walks'
  <2>1. ASSUME NEW m \in Successors(n), ~IsSink(n) PROVE IsWalk(Extended(item, m))
    <3> DEFINE q == item.path
               k == Len(q)
               r == Append(q, m)
    <3>1. m \in Nodes
      BY <1>2, SuccessorsAreNodes DEF SearchTypeOK
    <3>2. /\ r \in Seq(Nodes) /\ Len(r) = k + 1 /\ k \in Nat \ {0} /\ r[k + 1] = m
          /\ \A i \in 1 .. k : r[i] = q[i]
      BY <1>2, <1>4, <3>1
    <3>3. q[k] = n /\ IsSource(q[1]) /\ item.tags = Tags(q[1])
          /\ \A i \in 1 .. k - 1 : q[i + 1] \in Successors(q[i]) /\ ~IsSink(q[i])
      BY <1>3 DEF IsWalk, IsTaintPath
    <3> HIDE DEF q, k, r
    <3>4. ASSUME NEW i \in 1 .. Len(r) - 1
          PROVE  r[i + 1] \in Successors(r[i]) /\ ~IsSink(r[i])
      <4>1. CASE i = k
        BY <2>1, <3>2, <3>3, <4>1
      <4>2. CASE i # k
        <5>1. i \in 1 .. k - 1 /\ i \in 1 .. k /\ i + 1 \in 1 .. k
          BY <3>2, <4>2
        <5> QED
          BY <3>2, <3>3, <5>1
      <4> QED
        BY <4>1, <4>2
    <3>5. r # <<>> /\ r[1] = q[1]
      BY <3>2
    <3>6. IsTaintPath(r)
      BY <3>3, <3>4, <3>5 DEF IsTaintPath
    <3> QED
      BY <3>2, <3>3, <3>5, <3>6 DEF IsWalk, Extended, q, r
  <2>2. \A w \in Range(worklist') : IsWalk(w)
    BY <1>1, <2>1 DEF Walks, Pushed
  <2> QED
    BY <1>1, <2>2, GraphStays DEF Walks, IsWalk
<1>8. Met \subseteq Met'
  BY <1>1 DEF Met, StateKey
<1>9. Seeded'
  BY <1>1, <1>8, GraphStays DEF Seeded
<1>10. \A s, t : Reported(s, t) => Reported(s, t)'
  <2> SUFFICES ASSUME NEW i \in DOMAIN paths PROVE i \in DOMAIN paths' /\ paths'[i] = paths[i]
    BY DEF Reported
  <2>1. paths \in Seq(TaintPath)
    BY DEF SearchTypeOK, TaintPath
  <2> HIDE DEF found
  <2>2. CASE IsSink(n)
    <3>1. paths' = Append(paths, found)
      BY <1>1, <2>2
    <3> QED
      BY <2>1, <3>1
  <2>3. CASE ~IsSink(n)
    BY <1>1, <2>3
  <2> QED
    BY <2>2, <2>3
<1>11. IsSink(n) => Reported(n, item.tags)'
  <2> SUFFICES ASSUME IsSink(n) PROVE Reported(n, item.tags)'
    OBVIOUS
  <2>1. paths \in Seq(TaintPath) /\ paths' = Append(paths, found)
    BY <1>1 DEF SearchTypeOK, TaintPath
  <2>2. found.sink = n /\ found.tags = item.tags
    OBVIOUS
  <2> HIDE DEF found
  <2>3. Len(paths) + 1 \in DOMAIN paths' /\ paths'[Len(paths) + 1] = found
    BY <2>1
  <2> QED
    BY <2>2, <2>3 DEF Reported
<1>12. ~IsSink(n) => \A m \in Successors(n) : <<m, item.tags>> \in Met'
  <2> SUFFICES ASSUME ~IsSink(n), NEW m \in Successors(n)
               PROVE  <<m, item.tags>> \in Met'
    OBVIOUS
  <2>1. Extended(item, m) \in Range(worklist')
    BY <1>1 DEF Pushed
  <2>2. StateKey(Extended(item, m)) = <<m, item.tags>>
    BY DEF StateKey, Extended
  <2> QED
    BY <2>1, <2>2 DEF Met, StateKey
<1>13. Followed'
  <2> SUFFICES ASSUME NEW k \in visited'
               PROVE  IF IsSink(k[1]) THEN Reported(k[1], k[2])'
                      ELSE \A m \in Successors(k[1]) : <<m, k[2]>> \in Met'
    BY <1>1, GraphStays DEF Followed
  <2>1. CASE k \in visited
    BY <1>8, <1>10, <2>1 DEF Followed
  <2>2. CASE k = <<n, item.tags>>
    <3>1. k[1] = n /\ k[2] = item.tags
      BY <2>2
    <3> QED
      BY <1>11, <1>12, <3>1
  <2> QED
    BY <1>1, <1>2, <2>1, <2>2
<1>14. Reports'
  <2>1. CASE ~IsSink(n)
    BY <1>1, <2>1, GraphStays DEF Reports
  <2>2. CASE IsSink(n)
    <3> DEFINE k == Len(paths)
    <3>1. paths \in Seq(TaintPath) /\ paths' = Append(paths, found)
      BY <1>1, <2>2 DEF SearchTypeOK, TaintPath
    <3>2. found.sink = n /\ found.tags = item.tags /\ IsFlow(found)
      BY <1>5, <2>2
    <3> HIDE DEF found
    <3>3. /\ k \in Nat /\ DOMAIN paths = 1 .. k /\ DOMAIN paths' = 1 .. k + 1
          /\ paths'[k + 1] = found /\ \A i \in 1 .. k : paths'[i] = paths[i]
      BY <3>1
    <3> HIDE DEF k
    <3>4. \A i \in 1 .. k : IsFlow(paths[i]) /\ <<paths[i].sink, paths[i].tags>> \in visited
      BY <3>3 DEF Reports
    <3>5. \A i \in 1 .. k : ~(paths[i].sink = n /\ paths[i].tags = item.tags)
      BY <1>1, <1>2, <3>4
    <3>6. \A i \in 1 .. k + 1 : i \in 1 .. k \/ i = k + 1
      BY <3>3
    <3>7. \A i \in 1 .. k + 1 :
             IsFlow(paths'[i]) /\ <<paths'[i].sink, paths'[i].tags>> \in visited'
      BY <1>1, <1>2, <3>2, <3>3, <3>4, <3>6
    <3>8. \A i, j \in 1 .. k + 1 :
             paths'[i].sink = paths'[j].sink /\ paths'[i].tags = paths'[j].tags => i = j
      BY <3>2, <3>3, <3>5, <3>6 DEF Reports
    <3> QED
      BY <1>1, <3>3, <3>7, <3>8, GraphStays DEF Reports
  <2> QED
    BY <2>1, <2>2
<1> QED
  BY <1>6, <1>7, <1>9, <1>13, <1>14

(* A search that stands still keeps its invariant. *)
LEMMA SearchStays == SearchInv /\ UNCHANGED searchVars => SearchInv'
<1> SUFFICES ASSUME SearchInv, UNCHANGED searchVars PROVE SearchInv'
  OBVIOUS
<1>1. UNCHANGED <<cpg, worklist, visited, nodeTaint, paths>>
  BY DEF searchVars
<1>2. SearchTypeOK'
  BY <1>1, GraphStays DEF SearchInv, SearchTypeOK
<1>3. Walks'
  BY <1>1, GraphStays DEF SearchInv, Walks, IsWalk
<1>4. Met' = Met
  BY <1>1 DEF Met, StateKey
<1>5. Seeded'
  BY <1>1, <1>4, GraphStays DEF SearchInv, Seeded
<1>6. Followed'
  BY <1>1, <1>4, GraphStays DEF SearchInv, Followed, Reported
<1>7. Reports'
  BY <1>1, GraphStays DEF SearchInv, Reports
<1> QED
  BY <1>2, <1>3, <1>5, <1>6, <1>7 DEF SearchInv

(* The invariant of the search. *)
LEMMA SearchInvHolds == SearchSpec => []SearchInv
<1>1. SearchInv /\ [SearchStep]_searchVars => SearchInv'
  BY SearchStays, SkipStep, VisitStep DEF SearchStep
<1> QED
  BY <1>1, SearchStarts, PTL DEF SearchSpec

-------------------------------------------------------------------------------
(* Where the search has been, no node reached without crossing a sink is left out. *)
LEMMA ReachedIsVisited ==
    ASSUME SearchInv, Searched, NEW s \in Sources
    PROVE  \A n \in ReachedFrom(s) : <<n, Tags(s)>> \in visited
<1> DEFINE size == Len(cpg.nodes)
           Is(f) == f = [i \in 0 .. Len(cpg.nodes) |->
                           IF i = 0 THEN {s} ELSE Expanded(f[i - 1])]
           reached == CHOOSE f : Is(f)
           step == [p \in (1 .. size) \X SUBSET Nodes |-> Expanded(p[2])]
           R == {n \in Nodes : <<n, Tags(s)>> \in visited}
<1>1. size \in Nat /\ IsCpg(cpg)
  BY DEF SearchInv, SearchTypeOK, IsCpg
<1>2. ASSUME NEW ns \in SUBSET Nodes PROVE Expanded(ns) \in SUBSET Nodes
  BY <1>1, SuccessorsAreNodes DEF Expanded
<1>3. \E f : Is(f)
  <2> DEFINE X == SUBSET Nodes
             base == {s}
  <2>1. base \in X /\ step \in StepsOver(size, X)
    <3>1. base \in X
      BY DEF Sources
    <3>2. \A p \in (1 .. size) \X X : step[p] \in X
      BY <1>2
    <3> QED
      BY <3>1, <3>2 DEF StepsOver
  <2> HIDE DEF step, size, X, base
  <2>2. PICK f \in [0 .. size -> X] : Unrolls(f, base, size, step)
    BY <1>1, <2>1, Recursion
  <2>3. f[0] = {s} /\ \A i \in 1 .. size : f[i] = step[<<i, f[i - 1]>>]
    BY <2>2 DEF Unrolls, base
  <2>4. ASSUME NEW i \in 0 .. size PROVE f[i] = IF i = 0 THEN {s} ELSE Expanded(f[i - 1])
    <3>1. CASE i = 0
      BY <2>3, <3>1
    <3>2. CASE i # 0
      <4>1. i \in 1 .. size /\ i - 1 \in 0 .. size
        BY <1>1, <3>2
      <4>2. <<i, f[i - 1]>> \in (1 .. size) \X SUBSET Nodes
        BY <2>2, <4>1 DEF X
      <4>3. step[<<i, f[i - 1]>>] = Expanded(f[i - 1])
        BY <4>2 DEF step
      <4> QED
        BY <2>3, <3>2, <4>1, <4>3
    <3> QED
      BY <3>1, <3>2
  <2> QED
    BY <2>2, <2>4 DEF size
<1>4. Is(reached)
  BY <1>3
<1>5. ReachedFrom(s) = reached[size]
  BY Zenon DEF ReachedFrom
<1> HIDE DEF reached
<1>6. s \in R
  <2>1. Range(worklist) = {}
    BY DEF Searched, Range
  <2> QED
    BY <2>1 DEF SearchInv, Seeded, Met, Sources
<1>7. ASSUME NEW ns \in SUBSET R PROVE Expanded(ns) \subseteq R
  <2> SUFFICES ASSUME NEW n \in ns, ~IsSink(n), NEW m \in Successors(n) PROVE m \in R
    BY DEF Expanded
  <2>1. n \in Nodes /\ <<n, Tags(s)>> \in visited
    OBVIOUS
  <2>2. m \in Nodes
    BY <1>1, <2>1, SuccessorsAreNodes
  <2>3. <<m, Tags(s)>> \in Met
    BY <2>1 DEF SearchInv, Followed
  <2>4. Met = visited
    BY DEF Met, Searched, Range
  <2> QED
    BY <2>2, <2>3, <2>4
<1> DEFINE P == {i \in Nat : i <= size => reached[i] \subseteq R}
<1>8. 0 \in P
  <2>1. 0 \in 0 .. Len(cpg.nodes)
    BY <1>1
  <2>2. reached[0] = {s}
    BY <1>4, <2>1
  <2> QED
    BY <1>6, <2>2
<1>9. ASSUME NEW i \in Nat, i \in P PROVE i + 1 \in P
  <2> SUFFICES ASSUME i + 1 <= size PROVE reached[i + 1] \subseteq R
    OBVIOUS
  <2>1. i <= size /\ i + 1 \in 0 .. Len(cpg.nodes) /\ i + 1 # 0 /\ (i + 1) - 1 = i
    BY <1>1
  <2>2. reached[i] \subseteq R
    BY <1>9, <2>1
  <2>3. reached[i + 1] = Expanded(reached[i])
    BY <1>4, <2>1
  <2> QED
    BY <1>7, <2>2, <2>3
<1>10. Nat \subseteq P
  <2> HIDE DEF P
  <2> QED
    BY <1>8, <1>9, SetInduction
<1>11. reached[size] \subseteq R
  <2>1. size <= size
    BY <1>1
  <2> HIDE DEF size
  <2> QED
    BY <1>1, <1>10, <2>1
<1> QED
  BY <1>5, <1>11

(* A visited sink was reported with the tags it was visited with. *)
LEMMA ReportsAreExact == SearchInv => ReportsExact
<1> SUFFICES ASSUME SearchInv PROVE ReportsExact
  OBVIOUS
<1>1. ASSUME Searched, NEW f \in Flows
      PROVE  \E i \in DOMAIN paths : paths[i].sink = f[2] /\ paths[i].tags = Tags(f[1])
  <2> DEFINE s == f[1]
             n == f[2]
             k == <<n, Tags(s)>>
  <2>1. s \in Sources /\ IsSink(n) /\ n \in ReachedFrom(s)
    BY DEF Flows
  <2>2. k \in visited /\ k[1] = n /\ k[2] = Tags(s)
    BY <1>1, <2>1, ReachedIsVisited
  <2> HIDE DEF s, n, k
  <2>3. Reported(k[1], k[2])
    BY <2>1, <2>2 DEF SearchInv, Followed
  <2> QED
    BY <2>2, <2>3 DEF Reported, s, n
<1> QED
  BY <1>1 DEF SearchInv, Reports, ReportsExact

(* The search keeps to the nodes of the graph it is given. *)
THEOREM SearchTypeCorrect == SearchSpec => []SearchTypeOK
BY SearchInvHolds, PTL DEF SearchInv

(* Of any graph the search reports exactly the sinks that taint comes to, each
   once for each kind of source. *)
THEOREM SearchIsExact == SearchSpec => []ReportsExact
BY SearchInvHolds, ReportsAreExact, PTL

(* Paths of any length, with any cycles in them. *)
PathsReported ==
    Searched => \A q \in Seq(Nodes) :
        IsTaintPath(q) /\ IsSink(q[Len(q)]) => Reported(q[Len(q)], Tags(q[1]))

(* By induction along a path: each of its nodes was visited with the tags of its source. *)
LEMMA PathIsVisited ==
    ASSUME SearchInv, Searched, NEW q \in Seq(Nodes), IsTaintPath(q)
    PROVE  \A i \in 1 .. Len(q) : <<q[i], Tags(q[1])>> \in visited
<1> DEFINE size == Len(q)
           t == Tags(q[1])
           P == {i \in Nat : i + 1 <= size => <<q[i + 1], t>> \in visited}
<1>1. size \in Nat \ {0} /\ IsSource(q[1]) /\ q[1] \in Nodes
      /\ \A i \in 1 .. size - 1 : q[i + 1] \in Successors(q[i]) /\ ~IsSink(q[i])
  BY DEF IsTaintPath
<1>2. Met = visited
  BY DEF Met, Searched, Range
<1>3. 0 \in P
  BY <1>1, <1>2 DEF SearchInv, Seeded, Sources
<1>4. ASSUME NEW i \in Nat, i \in P PROVE i + 1 \in P
  <2> SUFFICES ASSUME (i + 1) + 1 <= size PROVE <<q[(i + 1) + 1], t>> \in visited
    OBVIOUS
  <2> DEFINE k == <<q[i + 1], t>>
  <2>1. i + 1 <= size /\ i + 1 \in 1 .. size - 1
    BY <1>1
  <2>2. k \in visited
    BY <1>4, <2>1
  <2>3. k[1] = q[i + 1] /\ k[2] = t
    OBVIOUS
  <2>4. ~IsSink(q[i + 1]) /\ q[(i + 1) + 1] \in Successors(q[i + 1])
    BY <1>1, <2>1
  <2> HIDE DEF k, t
  <2>5. \A m \in Successors(q[i + 1]) : <<m, t>> \in Met
    BY <2>2, <2>3, <2>4 DEF SearchInv, Followed
  <2> QED
    BY <1>2, <2>4, <2>5
<1>5. Nat \subseteq P
  <2> HIDE DEF P
  <2> QED
    BY <1>3, <1>4, SetInduction
<1> SUFFICES ASSUME NEW i \in 1 .. size PROVE <<q[i], t>> \in visited
  OBVIOUS
<1>6. i - 1 \in Nat /\ (i - 1) + 1 = i /\ i <= size
  BY <1>1
<1>7. i - 1 \in P
  BY <1>5, <1>6
<1> QED
  BY <1>6, <1>7

(* When the search ends, no path from a source to a sink, whatever its length, is
   without its report. *)
THEOREM NoPathIsMissed == SearchSpec => []PathsReported
<1>1. SearchInv => PathsReported
  <2> SUFFICES ASSUME SearchInv, Searched, NEW q \in Seq(Nodes), IsTaintPath(q), IsSink(q[Len(q)])
               PROVE  Reported(q[Len(q)], Tags(q[1]))
    BY DEF PathsReported
  <2> DEFINE k == <<q[Len(q)], Tags(q[1])>>
  <2>1. Len(q) \in 1 .. Len(q)
    BY DEF IsTaintPath
  <2>2. k \in visited /\ k[1] = q[Len(q)] /\ k[2] = Tags(q[1])
    BY <2>1, PathIsVisited
  <2> HIDE DEF k
  <2> QED
    BY <2>2 DEF SearchInv, Followed
<1> QED
  BY <1>1, SearchInvHolds, PTL

-------------------------------------------------------------------------------
(* The states that are still to be visited: finitely many in any graph. *)
ToVisit == (Nodes \X SUBSET TagNames) \ visited

(* The states of a search are finitely many. *)
LEMMA FewToVisit == SearchTypeOK => IsFiniteSet(ToVisit)
<1> SUFFICES ASSUME SearchTypeOK PROVE IsFiniteSet(ToVisit)
  OBVIOUS
<1>1. IsFiniteSet(Nodes)
  <2>1. Len(cpg.nodes) \in Nat /\ Nodes = 1 .. Len(cpg.nodes)
    BY DEF SearchTypeOK, IsCpg, Nodes
  <2> QED
    BY <2>1, FS_Interval
<1>2. IsFiniteSet(TagNames)
  <2> DEFINE calls == {CallOf(n) : n \in Nodes}
             f == [n \in Nodes |-> CallOf(n)]
  <2>1. f \in Surjection(Nodes, calls)
    BY DEF Surjection
  <2>2. IsFiniteSet(calls)
    BY <1>1, <2>1, FS_Surjection
  <2> HIDE DEF calls
  <2>3. IsFiniteSet({"user_controlled"} \cup calls)
    BY <2>2, FS_Singleton, FS_Union
  <2> QED
    BY <2>3 DEF TagNames, calls
<1>3. IsFiniteSet(Nodes \X SUBSET TagNames)
  BY <1>1, <1>2, FS_SUBSET, FS_Product
<1> QED
  BY <1>3, FS_Subset DEF ToVisit

(* A search has few states to visit, and each step of it either visits one or
   takes a state from the worklist: no graph, however many cycles it has, keeps
   find_taint_paths going for ever. *)
THEOREM SearchRunsOut ==
    SearchSpec =>
        /\ []IsFiniteSet(ToVisit)
        /\ [][\/ ToVisit' \subseteq ToVisit /\ ToVisit' # ToVisit
              \/ ToVisit' = ToVisit /\ Len(worklist') < Len(worklist)]_searchVars
<1> DEFINE Advance ==
      \/ ToVisit' \subseteq ToVisit /\ ToVisit' # ToVisit
      \/ ToVisit' = ToVisit /\ Len(worklist') < Len(worklist)
<1>1. SearchInv => IsFiniteSet(ToVisit)
  BY FewToVisit DEF SearchInv
<1>2. SearchInv /\ [SearchStep]_searchVars => [Advance]_searchVars
  <2> SUFFICES ASSUME SearchTypeOK, SearchStep PROVE Advance
    BY DEF SearchInv
  <2>1. CASE SkipVisited
    <3>1. worklist \in Seq(Item) /\ worklist # <<>> /\ worklist' = Remaining
      BY <2>1 DEF SkipVisited, SearchTypeOK, Item
    <3>2. Len(worklist) \in Nat /\ Len(worklist) # 0
      BY <3>1
    <3>3. Len(Remaining) = Len(worklist) - 1
      <4>1. ASSUME NEW n \in Nat, n # 0, NEW w \in Seq(Item), Len(w) = n
            PROVE  Len(SubSeq(w, 1, n - 1)) = n - 1
        BY <4>1
      <4> QED
        BY <3>1, <3>2, <4>1 DEF Remaining
    <3>4. ToVisit' = ToVisit
      BY <2>1 DEF SkipVisited, ToVisit, Nodes, TagNames, CallOf
    <3> QED
      BY <3>1, <3>2, <3>3, <3>4
  <2>2. CASE VisitNode
    <3>1. /\ Popped \in Item /\ StateKey(Popped) \notin visited /\ cpg' = cpg
          /\ visited' = visited \cup {StateKey(Popped)}
      BY <2>2, VisitDoes
    <3>2. StateKey(Popped) \in Nodes \X SUBSET TagNames
      BY <3>1 DEF StateKey, Item
    <3>3. ToVisit' = ToVisit \ {StateKey(Popped)}
      BY <3>1 DEF ToVisit, Nodes, TagNames, CallOf
    <3> QED
      BY <3>1, <3>2, <3>3 DEF ToVisit
  <2> QED
    BY <2>1, <2>2 DEF SearchStep
<1> QED
  BY <1>1, <1>2, SearchInvHolds, PTL DEF SearchSpec

-------------------------------------------------------------------------------
(* What the builder makes of its graph, operator by operator. *)
(* The builder: a record of its attributes that holds a graph. *)
Definitions(n) == [Vars -> SUBSET (1 .. n)]
EdgeLists(n) == {s \in Seq([Kinds -> Seq(1 .. n)]) : Len(s) = n}

HasAttributes(b) ==
    b = [nodes |-> b.nodes, edges |-> b.edges, prev |-> b.prev, breaks |-> b.breaks,
         scopes |-> b.scopes, defs |-> b.defs]

IsBuilder(b) ==
    /\ HasAttributes(b)
    /\ b.nodes \in Seq(NodeType)
    /\ b.edges \in EdgeLists(NewestNode(b))
    /\ b.scopes \in Seq(Definitions(NewestNode(b)))
    /\ b.defs \in Definitions(NewestNode(b))

HasEdge(b, d, k, m) == m \in Range(b.edges[d][k])

(* The edges of b are there in c, *)
Grown(b, c) ==
    \A d \in 1 .. NewestNode(b), k \in Kinds : Range(b.edges[d][k]) \subseteq Range(c.edges[d][k])

(* and c is b with more edges, or with a node more as well. *)
Rewired(b, c) ==
    IsBuilder(c) /\ c.nodes = b.nodes /\ c.scopes = b.scopes /\ c.defs = b.defs /\ Grown(b, c)
Added(b, c, node) ==
    /\ IsBuilder(c) /\ c.nodes = Append(b.nodes, node) /\ c.scopes = b.scopes /\ c.defs = b.defs
    /\ Grown(b, c)

(* What held n nodes may hold one more. *)
LEMMA MoreNodes ==
    ASSUME NEW n \in Nat
    PROVE  /\ Definitions(n) \subseteq Definitions(n + 1)
           /\ Seq(Definitions(n)) \subseteq Seq(Definitions(n + 1))
           /\ [Kinds -> Seq(1 .. n)] \subseteq [Kinds -> Seq(1 .. n + 1)]
<1>1. 1 .. n \subseteq 1 .. n + 1
  OBVIOUS
<1>2. Seq(1 .. n) \subseteq Seq(1 .. n + 1)
  BY <1>1
<1>3. Definitions(n) \subseteq Definitions(n + 1)
  BY <1>1 DEF Definitions
<1> QED
  BY <1>2, <1>3

(* AddNode makes a builder with one node more, and nothing else is lost. *)
LEMMA AddNodeDoes ==
    ASSUME NEW b, IsBuilder(b), NEW node \in NodeType
    PROVE  /\ Added(b, AddNode(b, node), node)
           /\ NewestNode(AddNode(b, node)) = NewestNode(b) + 1 /\ NewestNode(b) \in Nat
<1> DEFINE none == [k \in Kinds |-> <<>>]
           n == NewestNode(b)
           c == AddNode(b, node)
           edges == Append(b.edges, none)
<1>1. /\ n \in Nat /\ b.nodes \in Seq(NodeType) /\ Len(b.nodes) = n
      /\ b.edges \in Seq([Kinds -> Seq(1 .. n)]) /\ Len(b.edges) = n
      /\ b.scopes \in Seq(Definitions(n)) /\ b.defs \in Definitions(n)
  BY DEF IsBuilder, EdgeLists, NewestNode
<1>2. c = [b EXCEPT !.nodes = Append(b.nodes, node), !.edges = edges]
  BY DEF AddNode
<1>4. b.edges \in Seq([Kinds -> Seq(1 .. n + 1)]) /\ none \in [Kinds -> Seq(1 .. n + 1)]
  BY <1>1, MoreNodes
<1> HIDE DEF none
<1>5. edges \in Seq([Kinds -> Seq(1 .. n + 1)]) /\ Len(edges) = n + 1
      /\ \A d \in 1 .. n : edges[d] = b.edges[d]
  BY <1>1, <1>4
<1>6. Append(b.nodes, node) \in Seq(NodeType) /\ Len(Append(b.nodes, node)) = n + 1
  BY <1>1
<1>7. b.scopes \in Seq(Definitions(n + 1)) /\ b.defs \in Definitions(n + 1)
  BY <1>1, MoreNodes
<1> HIDE DEF c, edges
<1>3. HasAttributes(b)
  BY DEF IsBuilder
<1>8. /\ HasAttributes(c) /\ c.edges = edges /\ c.nodes = Append(b.nodes, node)
      /\ c.scopes = b.scopes /\ c.defs = b.defs
  BY ONLY <1>2, <1>3, Zenon DEF HasAttributes
<1>9. NewestNode(c) = n + 1
  BY <1>6, <1>8 DEF NewestNode
<1>10. IsBuilder(c)
  BY <1>5, <1>6, <1>7, <1>8, <1>9 DEF IsBuilder, EdgeLists
<1>11. Grown(b, c)
  BY <1>5, <1>8 DEF Grown
<1> QED
  BY <1>1, <1>8, <1>9, <1>10, <1>11 DEF c, Added

(* AddEdges makes a builder with those edges, and none is lost. *)
LEMMA AddEdgesDoes ==
    ASSUME NEW b, IsBuilder(b), NEW sources, NEW kind \in Kinds,
           NEW target, sources # {} => target \in 1 .. NewestNode(b)
    PROVE  LET c == AddEdges(b, sources, kind, target) IN
           /\ Rewired(b, c)
           /\ \A d \in 1 .. NewestNode(b) : d \in sources => HasEdge(c, d, kind, target)
<1> DEFINE Edges(d) == IF d \in sources /\ target \notin Range(b.edges[d][kind])
                       THEN [b.edges[d] EXCEPT ![kind] = Append(@, target)]
                       ELSE b.edges[d]
           edges == [d \in DOMAIN b.edges |-> Edges(d)]
           c == AddEdges(b, sources, kind, target)
           n == NewestNode(b)
<1>1. /\ n \in Nat
      /\ b.edges \in Seq([Kinds -> Seq(1 .. n)]) /\ Len(b.edges) = n /\ DOMAIN b.edges = 1 .. n
      /\ \A d \in 1 .. n : b.edges[d] \in [Kinds -> Seq(1 .. n)]
  BY DEF IsBuilder, EdgeLists, NewestNode
<1>2. HasAttributes(b)
  BY DEF IsBuilder
<1>3. c = [b EXCEPT !.edges = edges]
  BY DEF AddEdges
<1>4. ASSUME NEW d \in 1 .. n
      PROVE  /\ Edges(d) \in [Kinds -> Seq(1 .. n)]
             /\ \A k \in Kinds : Range(b.edges[d][k]) \subseteq Range(Edges(d)[k])
             /\ d \in sources => target \in Range(Edges(d)[kind])
  <2>1. CASE d \in sources /\ target \notin Range(b.edges[d][kind])
    <3>1. target \in 1 .. n
      BY <2>1
    <3>2. b.edges[d][kind] \in Seq(1 .. n)
      BY <1>1
    <3>3. /\ Append(b.edges[d][kind], target) \in Seq(1 .. n)
          /\ Range(Append(b.edges[d][kind], target)) = Range(b.edges[d][kind]) \cup {target}
      <4> DEFINE T == 1 .. n
                 s == b.edges[d][kind]
      <4>1. target \in T /\ s \in Seq(T)
        BY <3>1, <3>2
      <4> HIDE DEF T, s
      <4>2. Append(s, target) \in Seq(T) /\ Range(Append(s, target)) = Range(s) \cup {target}
        BY <4>1, RangeOfAppend
      <4> QED
        BY <4>2 DEF T, s
    <3>4. /\ Edges(d) = [k \in Kinds |-> IF k = kind THEN Append(b.edges[d][kind], target)
                                                      ELSE b.edges[d][k]]
      BY <1>1, <2>1
    <3> QED
      BY <1>1, <2>1, <3>3, <3>4
  <2>2. CASE ~(d \in sources /\ target \notin Range(b.edges[d][kind]))
    BY <1>1, <2>2
  <2> QED
    BY <2>1, <2>2
<1> HIDE DEF Edges
<1>5. edges = [d \in 1 .. n |-> Edges(d)]
  BY <1>1
<1> HIDE DEF edges
<1>6. edges \in Seq([Kinds -> Seq(1 .. n)]) /\ Len(edges) = n
  <2> DEFINE lists == [Kinds -> Seq(1 .. n)]
  <2>1. \A d \in 1 .. n : Edges(d) \in lists
    BY <1>4
  <2> HIDE DEF lists, n
  <2> QED
    BY ONLY <1>1, <1>5, <2>1 DEF lists
<1> HIDE DEF c
<1>7. /\ HasAttributes(c) /\ c.edges = edges /\ c.nodes = b.nodes
      /\ c.scopes = b.scopes /\ c.defs = b.defs
  BY ONLY <1>2, <1>3, Zenon DEF HasAttributes
<1>8. NewestNode(c) = n
  BY <1>7 DEF NewestNode
<1>9. IsBuilder(c)
  BY <1>6, <1>7, <1>8 DEF IsBuilder, EdgeLists
<1>10. ASSUME NEW d \in 1 .. n
       PROVE  /\ \A k \in Kinds : Range(b.edges[d][k]) \subseteq Range(c.edges[d][k])
              /\ d \in sources => HasEdge(c, d, kind, target)
  <2>1. c.edges[d] = Edges(d)
    BY <1>5, <1>7
  <2> QED
    BY <1>4, <2>1 DEF HasEdge
<1>11. Grown(b, c)
  BY <1>10 DEF Grown
<1> QED
  BY <1>7, <1>9, <1>10, <1>11 DEF c, Rewired

(* prev and breaks are no part of the graph. *)
LEMMA SameGraph ==
    ASSUME NEW b, IsBuilder(b), NEW c, HasAttributes(c), c.edges = b.edges, c.nodes = b.nodes,
           c.scopes = b.scopes, c.defs = b.defs
    PROVE  Rewired(b, c)
<1>1. NewestNode(c) = NewestNode(b)
  BY DEF NewestNode
<1> QED
  BY <1>1 DEF Rewired, IsBuilder, Grown

(* Where control comes from is no part of the graph. *)
LEMMA SetPrevDoes ==
    ASSUME NEW b, IsBuilder(b), NEW x, NEW y
    PROVE  /\ Rewired(b, [b EXCEPT !.prev = x])
           /\ Rewired(b, [b EXCEPT !.breaks = y])
           /\ Rewired(b, [b EXCEPT !.breaks = y, !.prev = x])
<1>1. HasAttributes(b)
  BY DEF IsBuilder
<1>2. ASSUME NEW c, c = [b EXCEPT !.prev = x] PROVE Rewired(b, c)
  <2>1. /\ HasAttributes(c) /\ c.edges = b.edges /\ c.nodes = b.nodes
        /\ c.scopes = b.scopes /\ c.defs = b.defs
    BY ONLY <1>1, <1>2, Zenon DEF HasAttributes
  <2> QED
    BY <2>1, SameGraph
<1>3. ASSUME NEW c, c = [b EXCEPT !.breaks = y] PROVE Rewired(b, c)
  <2>1. /\ HasAttributes(c) /\ c.edges = b.edges /\ c.nodes = b.nodes
        /\ c.scopes = b.scopes /\ c.defs = b.defs
    BY ONLY <1>1, <1>3, Zenon DEF HasAttributes
  <2> QED
    BY <2>1, SameGraph
<1>4. ASSUME NEW c, c = [b EXCEPT !.breaks = y, !.prev = x] PROVE Rewired(b, c)
  <2>1. /\ HasAttributes(c) /\ c.edges = b.edges /\ c.nodes = b.nodes
        /\ c.scopes = b.scopes /\ c.defs = b.defs
    BY ONLY <1>1, <1>4, Zenon DEF HasAttributes
  <2> QED
    BY <2>1, SameGraph
<1> QED
  BY <1>2, <1>3, <1>4

(* Rewiring twice is rewiring. *)
LEMMA RewiredTwice ==
    ASSUME NEW a, NEW b, NEW c, Rewired(b, c)
    PROVE  /\ Rewired(a, b) => Rewired(a, c)
           /\ \A node : Added(a, b, node) /\ IsBuilder(a) => Added(a, c, node)
<1>1. \A x : Grown(x, b) /\ NewestNode(x) \in Nat /\ NewestNode(x) <= NewestNode(b)
                /\ NewestNode(b) \in Nat => Grown(x, c)
  BY DEF Rewired, Grown
<1>2. Rewired(a, b) => Rewired(a, c)
  BY DEF Rewired, Grown, NewestNode
<1>3. ASSUME NEW node, Added(a, b, node), IsBuilder(a) PROVE Added(a, c, node)
  <2>1. NewestNode(a) \in Nat /\ NewestNode(b) = NewestNode(a) + 1
    BY <1>3 DEF IsBuilder, Added, NewestNode
  <2> QED
    BY <1>1, <1>3, <2>1 DEF Rewired, Added
<1> QED
  BY <1>2, <1>3

(* UseVars links the definitions it is told of and loses no edge. *)
LEMMA UseVarsDoes ==
    ASSUME NEW b, IsBuilder(b), NEW names, NEW n \in 1 .. NewestNode(b)
    PROVE  LET c == UseVars(b, names, n) IN
           /\ Rewired(b, c)
           /\ \A v \in names, d \in 1 .. NewestNode(b) :
                 d \in DefinitionsOf(b, v) => HasEdge(c, d, "DATA_DEPENDENCY", n)
<1> DEFINE sources == UNION {DefinitionsOf(b, v) : v \in names}
<1>1. "DATA_DEPENDENCY" \in Kinds
  BY DEF Kinds
<1> HIDE DEF sources
<1>2. LET c == AddEdges(b, sources, "DATA_DEPENDENCY", n) IN
      /\ Rewired(b, c)
      /\ \A d \in 1 .. NewestNode(b) : d \in sources => HasEdge(c, d, "DATA_DEPENDENCY", n)
  BY <1>1, AddEdgesDoes
<1> QED
  BY <1>2 DEF UseVars, sources

(* A new definition goes to the innermost scope. *)
Defined(b, c, names, n) ==
    /\ IsBuilder(c) /\ c.nodes = b.nodes /\ c.edges = b.edges
    /\ Len(c.scopes) = Len(b.scopes)
    /\ \A i \in 1 .. Len(b.scopes) - 1 : c.scopes[i] = b.scopes[i]
    /\ c.scopes[Len(b.scopes)] = WithDefinition(b.scopes[Len(b.scopes)], names, n)
    /\ c.defs = WithDefinition(b.defs, names, n)

(* The definitions of a scope with one more. *)
LEMMA WithDefinitionIs ==
    ASSUME NEW k \in Nat, NEW defs \in Definitions(k), NEW names, NEW n \in 1 .. k
    PROVE  /\ WithDefinition(defs, names, n) \in Definitions(k)
           /\ \A v \in Vars : WithDefinition(defs, names, n)[v] =
                IF v \in names THEN defs[v] \cup {n} ELSE defs[v]
           /\ names = {} => WithDefinition(defs, names, n) = defs
BY DEF Definitions, WithDefinition

(* DefineVars adds a definition to the innermost scope alone. *)
LEMMA DefineVarsDoes ==
    ASSUME NEW b, IsBuilder(b), b.scopes # <<>>, NEW names, NEW n \in 1 .. NewestNode(b)
    PROVE  Defined(b, DefineVars(b, names, n), names, n)
<1> DEFINE k == NewestNode(b)
           m == Len(b.scopes)
           top == WithDefinition(b.scopes[m], names, n)
           scopes == [b.scopes EXCEPT ![m] = top]
           defs == WithDefinition(b.defs, names, n)
           c == DefineVars(b, names, n)
<1>1. /\ HasAttributes(b) /\ k \in Nat /\ b.scopes \in Seq(Definitions(k))
           /\ b.defs \in Definitions(k)
      /\ m \in Nat \ {0} /\ b.scopes[m] \in Definitions(k)
  BY DEF IsBuilder, NewestNode
<1>2. top \in Definitions(k) /\ defs \in Definitions(k)
  BY <1>1, WithDefinitionIs
<1>3. c = [b EXCEPT !.scopes = scopes, !.defs = defs]
  BY DEF DefineVars
<1> HIDE DEF top, defs, k
<1>4. scopes \in Seq(Definitions(k)) /\ Len(scopes) = m /\ scopes[m] = top
      /\ \A i \in 1 .. m - 1 : scopes[i] = b.scopes[i]
  BY <1>1, <1>2
<1> HIDE DEF scopes, c, m
<1>5. /\ HasAttributes(c) /\ c.scopes = scopes /\ c.defs = defs
      /\ c.nodes = b.nodes /\ c.edges = b.edges
  BY ONLY <1>1, <1>3, Zenon DEF HasAttributes
<1>6. NewestNode(c) = k
  BY <1>5 DEF NewestNode, k
<1>7. IsBuilder(c)
  BY <1>2, <1>4, <1>5, <1>6 DEF IsBuilder, k
<1> QED
  BY <1>4, <1>5, <1>7 DEF Defined, c, m, top, defs

-------------------------------------------------------------------------------
(* What a visitor does to the graph for the statement at l. *)
StatementAdded(b, c, op, l) ==
    /\ IsBuilder(c) /\ Grown(b, c)
    /\ c.nodes = Append(b.nodes, NodeFor(op, l, prog[l].call, prog[l].uses))
    /\ Len(c.scopes) = Len(b.scopes)
    /\ \A i \in 1 .. Len(b.scopes) - 1 : c.scopes[i] = b.scopes[i]
    /\ c.scopes[Len(b.scopes)] =
         WithDefinition(b.scopes[Len(b.scopes)], prog[l].def, NewestNode(b) + 1)
    /\ c.defs = WithDefinition(b.defs, prog[l].def, NewestNode(b) + 1)

UsesLinked(b, c, l) ==
    \A v \in prog[l].uses, d \in 1 .. NewestNode(b) :
       d \in DefinitionsOf(b, v) => HasEdge(c, d, "DATA_DEPENDENCY", NewestNode(b) + 1)

(* The fields of a statement of a program. *)
LEMMA ProgramIs ==
    ASSUME IsProgram(prog), NEW l \in DOMAIN prog
    PROVE  /\ prog \in Seq(StatementType) /\ Len(prog) \in Nat \ {0} /\ DOMAIN prog = 1 .. Len(prog)
           /\ prog[l].op \in Ops /\ prog[l].call \in STRING \cup {"none"}
           /\ prog[l].def \in SUBSET Vars /\ prog[l].uses \in SUBSET Vars
           /\ prog[l].body \in Nat /\ prog[l].handlers \in Nat /\ prog[l].orelse \in Nat
                /\ prog[l].final \in Nat
           /\ l <= prog[l].body /\ prog[l].body <= prog[l].handlers
           /\ prog[l].handlers <= prog[l].orelse /\ prog[l].orelse <= prog[l].final
           /\ prog[l].final <= Len(prog)
           /\ prog[l].op # "try" => prog[l].handlers = prog[l].body /\ prog[l].final = prog[l].orelse
           /\ prog[l].op \in {"if", "try", "break", "continue", "return", "raise"} => prog[l].def = {}
           /\ prog[l].op = "augassign" => \A v, w \in prog[l].def : v = w
           /\ prog[l].op = "def" => /\ prog[l].body = prog[l].final
                                    /\ \A m \in l + 1 .. prog[l].final : prog[m].op # "def"
<1>1. prog \in Seq(StatementType) /\ prog # <<>>
  BY DEF IsProgram
<1>2. prog[l] \in StatementType /\ Len(prog) \in Nat \ {0} /\ DOMAIN prog = 1 .. Len(prog)
  BY <1>1
<1>3. /\ l <= prog[l].body /\ prog[l].body <= prog[l].handlers
      /\ prog[l].handlers <= prog[l].orelse /\ prog[l].orelse <= prog[l].final
      /\ prog[l].final <= Len(prog)
      /\ prog[l].op # "try" => prog[l].handlers = prog[l].body /\ prog[l].final = prog[l].orelse
      /\ prog[l].orelse > prog[l].handlers => prog[l].op \in {"if", "loop", "try"}
      /\ prog[l].op = "def" => \A m \in l + 1 .. prog[l].final : prog[m].op # "def"
      /\ prog[l].op \in {"if", "try", "break", "continue", "return", "raise"} => prog[l].def = {}
      /\ prog[l].op = "augassign" => \A v, w \in prog[l].def : v = w
  BY DEF IsProgram
<1>4. /\ prog[l].op \in Ops /\ prog[l].call \in STRING \cup {"none"}
      /\ prog[l].def \in SUBSET Vars /\ prog[l].uses \in SUBSET Vars
      /\ prog[l].body \in Nat /\ prog[l].handlers \in Nat /\ prog[l].orelse \in Nat
           /\ prog[l].final \in Nat
  BY <1>2 DEF StatementType
<1> QED
  BY <1>1, <1>2, <1>3, <1>4

(* A statement in a block ends with it. *)
LEMMA NestedEnds ==
    ASSUME IsProgram(prog), NEW l \in DOMAIN prog, NEW m \in l + 1 .. prog[l].final
    PROVE  /\ m \in DOMAIN prog /\ prog[m].final <= prog[l].final
           /\ m <= prog[l].body => prog[m].final <= prog[l].body
           /\ m <= prog[l].handlers => prog[m].final <= prog[l].handlers
           /\ m <= prog[l].orelse => prog[m].final <= prog[l].orelse
<1>1. prog[m].final <= EndAround(prog[l], m)
  BY DEF IsProgram
<1>2. m \in DOMAIN prog
  BY ProgramIs
<1>3. prog[m].final \in Nat
  BY <1>2, ProgramIs
<1> QED
  BY <1>1, <1>2, <1>3, ProgramIs DEF EndAround

(* The node of a statement is a node, *)
LEMMA StatementNodes ==
    ASSUME IsProgram(prog), NEW l \in DOMAIN prog, NEW op \in NodeKinds
    PROVE  NodeFor(op, l, prog[l].call, prog[l].uses) \in NodeType
<1>1. prog[l].uses \in SUBSET Vars /\ prog[l].call \in STRING \cup {"none"} /\ l \in Nat
  BY ProgramIs
<1>2. Vars \subseteq STRING
  BY BuilderAssumption
<1> QED
  BY <1>1, <1>2 DEF NodeFor, NodeType

(* EnterNode makes a builder with that node, *)
LEMMA EnterNodeDoes ==
    ASSUME NEW b, IsBuilder(b), IsProgram(prog), NEW l \in DOMAIN prog, NEW op \in NodeKinds
    PROVE  LET c == EnterNode(b, op, l) IN
           /\ Added(b, c, NodeFor(op, l, prog[l].call, prog[l].uses))
           /\ NewestNode(c) = NewestNode(b) + 1 /\ NewestNode(b) \in Nat
<1> DEFINE node == NodeFor(op, l, prog[l].call, prog[l].uses)
           added == AddNode(b, node)
           n == NewestNode(added)
           linked == AddEdges(added, b.prev, "CFG_NEXT", n)
           c == [linked EXCEPT !.prev = {n}]
<1>1. node \in NodeType /\ "CFG_NEXT" \in Kinds
  BY StatementNodes DEF Kinds
<1> HIDE DEF node
<1>2. Added(b, added, node) /\ n = NewestNode(b) + 1 /\ NewestNode(b) \in Nat
  BY <1>1, AddNodeDoes
<1>3. IsBuilder(added) /\ n \in 1 .. n
  BY <1>2 DEF Added
<1> HIDE DEF added
<1>4. Rewired(added, linked)
  BY <1>1, <1>3, AddEdgesDoes
<1>5. IsBuilder(linked)
  BY <1>4 DEF Rewired
<1> HIDE DEF linked
<1>6. Rewired(linked, c)
  BY <1>5, SetPrevDoes
<1> HIDE DEF c
<1>7. Added(b, c, node)
  BY <1>2, <1>4, <1>6, RewiredTwice
<1>8. NewestNode(c) = NewestNode(b) + 1
  BY <1>2, <1>4, <1>6 DEF Rewired, NewestNode
<1> QED
  BY <1>2, <1>7, <1>8 DEF EnterNode, c, linked, added, node

(* which is the one of the statement visited, *)
LEMMA AddedIsStatement ==
    ASSUME NEW b, IsBuilder(b), b.scopes # <<>>, IsProgram(prog), NEW l \in DOMAIN prog, NEW op,
           NEW c, Added(b, c, NodeFor(op, l, prog[l].call, prog[l].uses))
    PROVE  /\ NewestNode(c) = NewestNode(b) + 1 /\ NewestNode(b) \in Nat
           /\ prog[l].def = {} => StatementAdded(b, c, op, l)
           /\ \A d : Defined(c, d, prog[l].def, NewestNode(c)) => StatementAdded(b, d, op, l)
<1> DEFINE n == NewestNode(b)
           node == NodeFor(op, l, prog[l].call, prog[l].uses)
<1>1. /\ IsBuilder(c) /\ c.nodes = Append(b.nodes, node) /\ c.scopes = b.scopes /\ c.defs = b.defs
      /\ Grown(b, c)
  BY DEF Added
<1>2. n \in Nat /\ NewestNode(c) = n + 1
  BY <1>1 DEF NewestNode, IsBuilder
<1>3. b.scopes[Len(b.scopes)] \in Definitions(n + 1) /\ b.defs \in Definitions(n + 1)
  BY <1>1, <1>2 DEF IsBuilder
<1> HIDE DEF node
<1>4. ASSUME prog[l].def = {} PROVE StatementAdded(b, c, op, l)
  <2>1. /\ b.scopes[Len(b.scopes)] = WithDefinition(b.scopes[Len(b.scopes)], {}, n + 1)
        /\ b.defs = WithDefinition(b.defs, {}, n + 1)
    BY <1>2, <1>3, WithDefinitionIs
  <2> QED
    BY <1>1, <1>4, <2>1 DEF StatementAdded, node
<1>5. ASSUME NEW d, Defined(c, d, prog[l].def, n + 1) PROVE StatementAdded(b, d, op, l)
  BY <1>1, <1>5 DEF Defined, StatementAdded, Grown, node
<1> QED
  BY <1>2, <1>4, <1>5

(* and AddStatement links its uses to all they may mean and defines its variables. *)
LEMMA AddStatementDoes ==
    ASSUME NEW b, IsBuilder(b), b.scopes # <<>>, IsProgram(prog), NEW l \in DOMAIN prog, NEW op \in NodeKinds
    PROVE  LET c == AddStatement(b, op, l) IN
           StatementAdded(b, c, op, l) /\ UsesLinked(b, c, l)
<1> DEFINE node == NodeFor(op, l, prog[l].call, prog[l].uses)
           entered == EnterNode(b, op, l)
           n == NewestNode(entered)
           used == UseVars(entered, prog[l].uses, n)
           c == DefineVars(used, prog[l].def, n)
<1>1. Added(b, entered, node) /\ n = NewestNode(b) + 1 /\ NewestNode(b) \in Nat
  BY EnterNodeDoes
<1> HIDE DEF node, entered
<1>2. IsBuilder(entered) /\ entered.scopes = b.scopes /\ n \in 1 .. n
  BY <1>1 DEF Added
<1>3. /\ Rewired(entered, used)
      /\ \A v \in prog[l].uses, d \in 1 .. n :
            d \in DefinitionsOf(entered, v) => HasEdge(used, d, "DATA_DEPENDENCY", n)
  BY <1>2, UseVarsDoes
<1> HIDE DEF used
<1>4. IsBuilder(used) /\ used.scopes = b.scopes /\ NewestNode(used) = n
  BY <1>2, <1>3 DEF Rewired, NewestNode
<1>5. Defined(used, c, prog[l].def, n)
  BY <1>2, <1>4, DefineVarsDoes
<1>6. Added(b, used, node)
  BY <1>1, <1>3, RewiredTwice
<1> HIDE DEF c
<1>7. StatementAdded(b, c, op, l)
  BY <1>4, <1>5, <1>6, AddedIsStatement DEF node
<1>8. UsesLinked(b, c, l)
  <2> SUFFICES ASSUME NEW v \in prog[l].uses, NEW d \in 1 .. NewestNode(b), d \in DefinitionsOf(b, v)
               PROVE  HasEdge(c, d, "DATA_DEPENDENCY", NewestNode(b) + 1)
    BY DEF UsesLinked
  <2>1. d \in DefinitionsOf(entered, v) /\ d \in 1 .. n
    BY <1>1, <1>2 DEF DefinitionsOf
  <2>2. HasEdge(used, d, "DATA_DEPENDENCY", n) /\ c.edges = used.edges
    BY <1>3, <1>5, <2>1 DEF Defined
  <2> QED
    BY <1>1, <2>2 DEF HasEdge
<1> QED
  BY <1>7, <1>8 DEF AddStatement, c, used, entered

(* Stacks. *)
IsStack(s) == s \in Seq(Range(s))

(* A sequence over any set is a stack. *)
LEMMA Stacks ==
    ASSUME NEW R, NEW s \in Seq(R)
    PROVE  IsStack(s) /\ Len(s) \in Nat /\ DOMAIN s = 1 .. Len(s) /\ (s # <<>>
             => Len(s) \in Nat \ {0})
<1>1. Len(s) \in Nat /\ DOMAIN s = 1 .. Len(s) /\ s = [i \in 1 .. Len(s) |-> s[i]]
  OBVIOUS
<1>2. \A i \in 1 .. Len(s) : s[i] \in Range(s)
  BY <1>1 DEF Range
<1>3. s # <<>> => Len(s) # 0
  OBVIOUS
<1> QED
  BY <1>1, <1>2, <1>3 DEF IsStack

(* A frame is pushed on the others, *)
LEMMA PushIs ==
    ASSUME NEW s, IsStack(s), NEW x
    PROVE  /\ IsStack(Append(s, x)) /\ Len(Append(s, x)) = Len(s) + 1 /\ Len(s) \in Nat
           /\ Append(s, x)[Len(s) + 1] = x /\ \A i \in 1 .. Len(s) : Append(s, x)[i] = s[i]
<1> DEFINE S == Range(s)
           T == S \cup {x}
<1>1. s \in Seq(S)
  BY DEF IsStack
<1> HIDE DEF S
<1>2. x \in T /\ s \in Seq(T)
  BY <1>1
<1> HIDE DEF T
<1>3. /\ Append(s, x) \in Seq(T) /\ Len(Append(s, x)) = Len(s) + 1 /\ Len(s) \in Nat
      /\ Append(s, x)[Len(s) + 1] = x /\ \A i \in 1 .. Len(s) : Append(s, x)[i] = s[i]
  BY <1>2
<1> QED
  BY <1>3, Stacks

(* taken from them, *)
LEMMA PopIs ==
    ASSUME NEW s, IsStack(s), s # <<>>
    PROVE  LET p == SubSeq(s, 1, Len(s) - 1) IN
           /\ IsStack(p) /\ Len(p) = Len(s) - 1 /\ Len(s) \in Nat \ {0}
           /\ \A i \in 1 .. Len(s) - 1 : p[i] = s[i]
<1> DEFINE S == Range(s)
           n == Len(s)
           p == SubSeq(s, 1, n - 1)
<1>1. s \in Seq(S) /\ n \in Nat \ {0} /\ s \in [1 .. n -> S]
  <2>1. s \in Seq(S)
    BY DEF IsStack
  <2> HIDE DEF S
  <2> QED
    BY <2>1
<1> HIDE DEF S
<1>2. p \in Seq(S) /\ Len(p) = n - 1
  BY <1>1
<1>3. \A i \in 1 .. n - 1 : p[i] = s[i]
  BY <1>1
<1>4. IsStack(p)
  BY <1>2, Stacks
<1> QED
  BY <1>1, <1>2, <1>3, <1>4

(* or put in the place of the last one. *)
LEMMA ReplaceIs ==
    ASSUME NEW s, IsStack(s), s # <<>>, NEW x
    PROVE  LET r == [s EXCEPT ![Len(s)] = x] IN
           /\ IsStack(r) /\ Len(r) = Len(s) /\ Len(s) \in Nat \ {0}
           /\ r[Len(s)] = x /\ \A i \in 1 .. Len(s) - 1 : r[i] = s[i]
<1> DEFINE S == Range(s)
           T == S \cup {x}
           n == Len(s)
           r == [s EXCEPT ![n] = x]
<1>1. s \in Seq(S) /\ n \in Nat \ {0}
  BY Stacks DEF IsStack
<1> HIDE DEF S
<1>2. x \in T /\ s \in [1 .. n -> T]
  BY <1>1
<1> HIDE DEF T
<1>3. r \in [1 .. n -> T] /\ r[n] = x /\ \A i \in 1 .. n - 1 : r[i] = s[i]
  BY <1>1, <1>2
<1> HIDE DEF r
<1>4. r \in Seq(T) /\ Len(r) = n
  BY <1>1, <1>3
<1>5. IsStack(r)
  BY <1>4, Stacks
<1> QED
  BY <1>1, <1>3, <1>4, <1>5 DEF r

-------------------------------------------------------------------------------
(* The names of a program: each line belongs to a function, or to the module. *)
FunctionLines == {k \in DOMAIN prog : prog[k].op = "def"}
Scopes == {0} \cup FunctionLines
LinesIn(c) ==
    IF c = 0 THEN {l \in DOMAIN prog : \A k \in FunctionLines : l \notin k .. prog[k].final}
    ELSE c .. prog[c].final

NodeOp(l) == IF prog[l].op = "if" THEN "test" ELSE prog[l].op
StatementNode(l) == NodeFor(NodeOp(l), l, prog[l].call, prog[l].uses)

(* Node d of a graph defines v in a scope, *)
IsReal(g, d) == g.nodes[d].op # "phi"
LineAt(g, d) == g.nodes[d].line
Binds(g, c, v, d) ==
    IsReal(g, d) /\ LineAt(g, d) \in LinesIn(c) /\ v \in prog[LineAt(g, d)].def

(* and a use of v in it may mean that definition. *)
MayMean(g, c, v, d) ==
    Binds(g, c, v, d) \/ (c # 0 /\ v \notin LocalsOf(c) /\ Binds(g, 0, v, d))

Linking == {"assign", "annassign", "augassign", "expr", "with", "if", "loop"}

(* The parts of the builder's invariant. *)
NodesOK(b, l) ==
    /\ IsBuilder(b)
    /\ \A d \in 1 .. NewestNode(b) :
          LineAt(b, d) \in 1 .. l - 1 /\ (IsReal(b, d) => b.nodes[d] = StatementNode(LineAt(b, d)))
    /\ \A m \in 1 .. l - 1 : \E d \in 1 .. NewestNode(b) : IsReal(b, d) /\ LineAt(b, d) = m

IsFrame(f) ==
    f = [stmt |-> f.stmt, part |-> f.part, node |-> f.node, split |-> f.split,
         exits |-> f.exits, handled |-> f.handled]
FrameOK(b, l, f) ==
    /\ IsFrame(f)
    /\ f.stmt \in 1 .. l - 1 /\ f.part \in Parts /\ l <= prog[f.stmt].final + 1
    /\ f.node \in 1 .. NewestNode(b) /\ f.split \in 1 .. NewestNode(b)
    /\ \A d \in 1 .. NewestNode(b) : d > f.node => LineAt(b, d) >= f.stmt
OpenOK(b, l, o) ==
    /\ IsStack(o)
    /\ \A i \in 1 .. Len(o) : FrameOK(b, l, o[i])
    /\ \A i, j \in 1 .. Len(o) :
          i < j => o[i].stmt < o[j].stmt /\ prog[o[j].stmt].final <= prog[o[i].stmt].final

IsOpen(o, k) == \E i \in 1 .. Len(o) : o[i].stmt = k
FunctionsOpen(l, o) == \A k \in FunctionLines : k < l /\ l <= prog[k].final => IsOpen(o, k)

(* The function that is being visited. *)
Current(o, c) == IF c = 0 THEN \A k \in FunctionLines : ~IsOpen(o, k) ELSE IsOpen(o, c)

ScopeOK(b, c) ==
    /\ Len(b.scopes) = IF c = 0 THEN 1 ELSE 2
    /\ \A v \in Vars, d \in 1 .. NewestNode(b) : Binds(b, 0, v, d) => d \in b.scopes[1][v]
    /\ c # 0 => \A v \in Vars :
                   /\ \A d \in 1 .. NewestNode(b) : Binds(b, c, v, d) => d \in b.scopes[2][v]
                   /\ v \notin LocalsOf(c) => b.scopes[2][v] = {}
ScopesOK(b, o) == \A c \in Scopes : Current(o, c) => ScopeOK(b, c)

DefsOK(b) ==
    \A v \in Vars, k \in FunctionLines : \A d \in b.defs[v] :
       LineAt(b, d) \in LinesIn(k) => v \in LocalsOf(k)

UsesOK(b, n) ==
    IsReal(b, n) /\ prog[LineAt(b, n)].op \in Linking =>
       \A c \in Scopes, v \in prog[LineAt(b, n)].uses, d \in 1 .. n - 1 :
          LineAt(b, n) \in LinesIn(c) /\ MayMean(b, c, v, d) => HasEdge(b, d, "DATA_DEPENDENCY", n)
LinkedOK(b) == \A n \in 1 .. NewestNode(b) : UsesOK(b, n)

BuildInvOf(b, l, o) ==
    /\ IsProgram(prog) /\ l \in 1 .. Len(prog) + 1
    /\ NodesOK(b, l) /\ OpenOK(b, l, o) /\ FunctionsOpen(l, o) /\ ScopesOK(b, o) /\ DefsOK(b)
    /\ LinkedOK(b)
BuildInv == BuildInvOf(builder, line, open)

-------------------------------------------------------------------------------

(* The line that is visited is in the innermost open statement, and the end of its block is. *)
LEMMA BlockEndIs ==
    ASSUME BuildInv
    PROVE  /\ BlockEnd \in Nat /\ BlockEnd <= Len(prog)
           /\ \A i \in 1 .. Len(open) : BlockEnd <= prog[open[i].stmt].final
           /\ open # <<>> => /\ Len(open) \in 1 .. Len(open) /\ Enclosing.stmt \in DOMAIN prog
                             /\ Enclosing.part \in Parts /\ FrameOK(builder, line, Enclosing)
                             /\ BlockEnd = prog[Enclosing.stmt][Enclosing.part]
<1>1. /\ IsProgram(prog) /\ line \in 1 .. Len(prog) + 1 /\ OpenOK(builder, line, open)
      /\ Len(prog) \in Nat \ {0} /\ DOMAIN prog = 1 .. Len(prog)
  <2>1. IsProgram(prog) /\ line \in 1 .. Len(prog) + 1 /\ OpenOK(builder, line, open)
    BY DEF BuildInv, BuildInvOf
  <2>2. prog \in Seq(StatementType) /\ prog # <<>>
    BY <2>1 DEF IsProgram
  <2> QED
    BY <2>1, <2>2
<1>2. IsStack(open) /\ Len(open) \in Nat /\ (open # <<>> => Len(open) \in 1 .. Len(open))
  BY <1>1, Stacks DEF OpenOK, IsStack
<1>3. CASE open = <<>>
  BY <1>1, <1>3 DEF BlockEnd
<1>4. CASE open # <<>>
  <2>1. FrameOK(builder, line, Enclosing) /\ BlockEnd = prog[Enclosing.stmt][Enclosing.part]
    BY <1>1, <1>2, <1>4 DEF OpenOK, Enclosing, BlockEnd
  <2>2. Enclosing.stmt \in DOMAIN prog /\ Enclosing.part \in Parts
    BY <1>1, <2>1 DEF FrameOK
  <2>3. BlockEnd \in Nat /\ BlockEnd <= prog[Enclosing.stmt].final
          /\ prog[Enclosing.stmt].final <= Len(prog)
        /\ prog[Enclosing.stmt].final \in Nat
    <3> DEFINE s == Enclosing.stmt
    <3>1. prog[s]["body"] = prog[s].body /\ prog[s]["handlers"] = prog[s].handlers
          /\ prog[s]["orelse"] = prog[s].orelse /\ prog[s]["final"] = prog[s].final
      OBVIOUS
    <3>2. BlockEnd \in {prog[s].body, prog[s].handlers, prog[s].orelse, prog[s].final}
      BY <2>1, <2>2, <3>1, Zenon DEF Parts
    <3> HIDE DEF s
    <3>3. s \in DOMAIN prog
      BY <2>2 DEF s
    <3>4. /\ prog[s].body \in Nat /\ prog[s].handlers \in Nat /\ prog[s].orelse \in Nat
          /\ prog[s].final \in Nat /\ prog[s].body <= prog[s].handlers
          /\ prog[s].handlers <= prog[s].orelse /\ prog[s].orelse <= prog[s].final
          /\ prog[s].final <= Len(prog)
      BY <1>1, <3>3, ProgramIs
    <3> QED
      BY <3>2, <3>4 DEF s
  <2>4. ASSUME NEW i \in 1 .. Len(open) PROVE BlockEnd <= prog[open[i].stmt].final
    <3>1. CASE i = Len(open)
      BY <2>3, <3>1 DEF Enclosing
    <3>2. CASE i < Len(open)
      <4>1. prog[Enclosing.stmt].final <= prog[open[i].stmt].final
        BY <1>1, <1>2, <1>4, <3>2 DEF OpenOK, Enclosing
      <4>2. open[i].stmt \in DOMAIN prog
        BY <1>1 DEF OpenOK, FrameOK
      <4>3. prog[open[i].stmt].final \in Nat
        BY <1>1, <4>2, ProgramIs
      <4> QED
        BY <2>3, <4>1, <4>3
    <3> QED
      BY <1>2, <3>1, <3>2
  <2> QED
    BY <1>2, <1>4, <2>1, <2>2, <2>3, <2>4
<1> QED
  BY <1>3, <1>4

(* Functions do not nest: no other one is open, and a line is in the function that
   is open. *)
LEMMA LinesAreInScopes ==
    ASSUME IsProgram(prog)
    PROVE  /\ \A k \in FunctionLines : k \in DOMAIN prog /\ k \in Nat \ {0} /\ prog[k].final \in Nat
                /\ k <= prog[k].final
           /\ \A c \in Scopes : \A m \in LinesIn(c) : m \in DOMAIN prog /\ m \in Nat
           /\ \A j, k \in FunctionLines : k \in LinesIn(j) => j = k
           /\ \A c, e \in Scopes : \A m \in LinesIn(c) : m \in LinesIn(e) => c = e
<1>1. \A k \in FunctionLines : /\ k \in DOMAIN prog /\ k \in Nat \ {0} /\ prog[k].final \in Nat
        /\ k <= prog[k].final
                               /\ prog[k].final <= Len(prog) /\ Len(prog) \in Nat
                               /\ DOMAIN prog = 1 .. Len(prog)
  BY ProgramIs DEF FunctionLines
<1>2. ASSUME NEW c \in Scopes, NEW m \in LinesIn(c) PROVE m \in DOMAIN prog /\ m \in Nat
  <2>1. CASE c = 0
    <3>1. m \in DOMAIN prog
      BY <2>1 DEF LinesIn
    <3> QED
      BY <3>1, ProgramIs
  <2>2. CASE c # 0
    BY <1>1, <2>2 DEF LinesIn, Scopes
  <2> QED
    BY <2>1, <2>2
<1>3. ASSUME NEW j \in FunctionLines, NEW k \in FunctionLines, k \in LinesIn(j), j # k PROVE FALSE
  <2>1. k \in j + 1 .. prog[j].final
    BY <1>1, <1>3 DEF LinesIn
  <2> QED
    BY <1>1, <2>1, ProgramIs DEF FunctionLines
<1>4. ASSUME NEW c \in Scopes, NEW e \in Scopes, NEW m \in LinesIn(c), m \in LinesIn(e), c # e
      PROVE FALSE
  <2>1. CASE c # 0 /\ e # 0
    <3>1. c \in FunctionLines /\ e \in FunctionLines /\ m \in Nat
      BY <1>2, <2>1 DEF Scopes
    <3>2. c \in LinesIn(e) \/ e \in LinesIn(c)
      BY <1>1, <1>4, <2>1, <3>1 DEF LinesIn
    <3> QED
      BY <1>3, <1>4, <3>1, <3>2
  <2>2. CASE c = 0 \/ e = 0
    BY <1>1, <1>4, <2>2 DEF LinesIn, Scopes
  <2> QED
    BY <2>1, <2>2
<1> QED
  BY <1>1, <1>2, <1>3, <1>4

(* A line that is visited is in the scope that is current. *)
LEMMA CurrentScope ==
    ASSUME BuildInv, line <= BlockEnd
    PROVE  /\ \A k \in FunctionLines : k # line => (line \in LinesIn(k) <=> IsOpen(open, k))
           /\ line \in DOMAIN prog /\ line \in Nat \ {0}
           /\ prog[line].op # "def" => \A c \in Scopes : line \in LinesIn(c) <=> Current(open, c)
           /\ prog[line].op = "def" => Current(open, 0) /\ line \in FunctionLines
<1>1. /\ IsProgram(prog) /\ line \in 1 .. Len(prog) + 1 /\ OpenOK(builder, line, open)
      /\ FunctionsOpen(line, open)
  BY DEF BuildInv, BuildInvOf
<1>2. line \in DOMAIN prog /\ line \in Nat \ {0}
  <2>1. prog \in Seq(StatementType)
    BY <1>1 DEF IsProgram
  <2> QED
    BY <1>1, <2>1, BlockEndIs
<1>3. ASSUME NEW k \in FunctionLines, k # line PROVE line \in LinesIn(k) <=> IsOpen(open, k)
  <2>1. k \in Nat \ {0} /\ prog[k].final \in Nat
    BY <1>1, LinesAreInScopes
  <2>2. ASSUME line \in LinesIn(k) PROVE IsOpen(open, k)
    BY <1>1, <1>2, <1>3, <2>1, <2>2 DEF LinesIn, FunctionsOpen
  <2>3. ASSUME IsOpen(open, k) PROVE line \in LinesIn(k)
    <3>1. PICK i \in 1 .. Len(open) : open[i].stmt = k
      BY <2>3 DEF IsOpen
    <3>2. k < line
      BY <1>1, <1>2, <3>1 DEF OpenOK, FrameOK
    <3>3. BlockEnd <= prog[k].final /\ BlockEnd \in Nat
      BY <3>1, BlockEndIs
    <3> QED
      BY <1>2, <2>1, <3>2, <3>3 DEF LinesIn
  <2> QED
    BY <2>2, <2>3
<1>4. ASSUME prog[line].op # "def", NEW c \in Scopes PROVE line \in LinesIn(c) <=> Current(open, c)
  <2>1. line \notin FunctionLines
    BY <1>4 DEF FunctionLines
  <2>2. CASE c # 0
    BY <1>3, <2>1, <2>2 DEF Scopes, Current
  <2>3. CASE c = 0
    <3>1. line \in LinesIn(0) <=> \A k \in FunctionLines : line \notin k .. prog[k].final
      BY <1>2 DEF LinesIn
    <3>2. \A k \in FunctionLines : LinesIn(k) = k .. prog[k].final
      BY <1>1, LinesAreInScopes DEF LinesIn
    <3> QED
      BY <1>3, <2>1, <2>3, <3>1, <3>2 DEF Current
  <2> QED
    BY <2>2, <2>3
<1>5. ASSUME prog[line].op = "def" PROVE Current(open, 0) /\ line \in FunctionLines
  <2>1. line \in FunctionLines
    BY <1>2, <1>5 DEF FunctionLines
  <2>2. ASSUME NEW k \in FunctionLines, IsOpen(open, k) PROVE FALSE
    <3>1. k # line
      BY <1>1, <1>2, <2>2 DEF IsOpen, OpenOK, FrameOK
    <3> QED
      BY <1>1, <1>3, <2>1, <2>2, <3>1, LinesAreInScopes
  <2> QED
    BY <2>1, <2>2 DEF Current
<1> QED
  BY <1>2, <1>3, <1>4, <1>5

-------------------------------------------------------------------------------
(* Where the walk is: the statements whose blocks are open. *)
(* More nodes and edges leave what is linked linked. *)
LEMMA OldUses ==
    ASSUME NEW b, NEW c, NewestNode(b) \in Nat, LinkedOK(b), Grown(b, c),
           \A d \in 1 .. NewestNode(b) : c.nodes[d] = b.nodes[d]
    PROVE  /\ \A d \in 1 .. NewestNode(b) : IsReal(c, d) = IsReal(b, d) /\ LineAt(c, d) = LineAt(b, d)
           /\ \A e, v : \A d \in 1 .. NewestNode(b) : Binds(c, e, v, d) = Binds(b, e, v, d)
           /\ \A e, v : \A d \in 1 .. NewestNode(b) : MayMean(c, e, v, d) = MayMean(b, e, v, d)
           /\ \A n \in 1 .. NewestNode(b) : UsesOK(c, n)
<1>1. \A d \in 1 .. NewestNode(b) : IsReal(c, d) = IsReal(b, d) /\ LineAt(c, d) = LineAt(b, d)
  BY DEF IsReal, LineAt
<1>2. \A e, v : \A d \in 1 .. NewestNode(b) : Binds(c, e, v, d) = Binds(b, e, v, d)
  BY <1>1 DEF Binds
<1>3. \A e, v : \A d \in 1 .. NewestNode(b) : MayMean(c, e, v, d) = MayMean(b, e, v, d)
  BY <1>2 DEF MayMean
<1>4. ASSUME NEW n \in 1 .. NewestNode(b), IsReal(c, n), prog[LineAt(c, n)].op \in Linking,
             NEW e \in Scopes, NEW v \in prog[LineAt(c, n)].uses, NEW d \in 1 .. n - 1,
             LineAt(c, n) \in LinesIn(e), MayMean(c, e, v, d)
      PROVE  HasEdge(c, d, "DATA_DEPENDENCY", n)
  <2>1. d \in 1 .. NewestNode(b) /\ "DATA_DEPENDENCY" \in Kinds
    BY DEF Kinds
  <2>2. UsesOK(b, n) /\ IsReal(b, n) /\ LineAt(b, n) = LineAt(c, n) /\ MayMean(b, e, v, d)
    BY <1>1, <1>3, <1>4, <2>1 DEF LinkedOK
  <2>3. HasEdge(b, d, "DATA_DEPENDENCY", n)
    BY <1>4, <2>2 DEF UsesOK
  <2> QED
    BY <2>1, <2>3 DEF HasEdge, Grown
<1>5. \A n \in 1 .. NewestNode(b) : UsesOK(c, n)
  BY <1>4 DEF UsesOK
<1> QED
  BY <1>1, <1>2, <1>3, <1>5

(* In a scope that has one, the definitions of the innermost; else the module's. *)
LEMMA DefinitionsAre ==
    ASSUME NEW b, IsBuilder(b), NEW v \in Vars
    PROVE  /\ Len(b.scopes) = 1 => b.scopes[1][v] \subseteq DefinitionsOf(b, v)
           /\ Len(b.scopes) = 2 =>
                IF b.scopes[2][v] # {} THEN b.scopes[2][v] \subseteq DefinitionsOf(b, v)
                ELSE b.scopes[1][v] \subseteq DefinitionsOf(b, v)
<1> DEFINE known == {i \in DOMAIN b.scopes : b.scopes[i][v] # {}}
<1>1. b.scopes \in Seq(Definitions(NewestNode(b))) /\ DOMAIN b.scopes = 1 .. Len(b.scopes)
  BY DEF IsBuilder
<1>2. ASSUME NEW i \in known, \A j \in known : j <= i
      PROVE  DefinitionsOf(b, v) = b.scopes[i][v]
  <2>1. known \subseteq Int /\ i \in known
    BY <1>1
  <2> HIDE DEF known
  <2>2. Max(known) \in known /\ \A j \in known : Max(known) >= j
    <3>1. \E x \in known : \A y \in known : x >= y
      BY <1>2, <2>1
    <3> QED
      BY <3>1 DEF Max
  <2>3. Max(known) = i
    <3> DEFINE m == Max(known)
    <3>1. m \in Int /\ i \in Int /\ m >= i
      BY <2>1, <2>2
    <3>2. m <= i
      BY <1>2, <2>2
    <3> HIDE DEF m
    <3>3. m = i
      BY <3>1, <3>2
    <3> QED
      BY <3>3 DEF m
  <2> QED
    BY <1>2, <2>3 DEF DefinitionsOf, known
<1>3. ASSUME Len(b.scopes) = 1, b.scopes[1][v] # {} PROVE DefinitionsOf(b, v) = b.scopes[1][v]
  BY <1>1, <1>2, <1>3
<1>4. ASSUME Len(b.scopes) = 2, b.scopes[2][v] # {} PROVE DefinitionsOf(b, v) = b.scopes[2][v]
  BY <1>1, <1>2, <1>4
<1>5. ASSUME Len(b.scopes) = 2, b.scopes[2][v] = {}, b.scopes[1][v] # {}
      PROVE  DefinitionsOf(b, v) = b.scopes[1][v]
  BY <1>1, <1>2, <1>5
<1> QED
  BY <1>3, <1>4, <1>5

(* What a use may mean is among them. *)
LEMMA MeaningsAreDefinitions ==
    ASSUME IsProgram(prog), IsBuilder(builder), NEW c \in Scopes, ScopeOK(builder, c), NEW v \in Vars,
           NEW d \in 1 .. NewestNode(builder), MayMean(builder, c, v, d)
    PROVE  d \in DefinitionsOf(builder, v)
<1>1. CASE c = 0
  BY <1>1, DefinitionsAre DEF ScopeOK, MayMean
<1>2. CASE c # 0 /\ Binds(builder, c, v, d)
  BY <1>2, DefinitionsAre DEF ScopeOK
<1>3. CASE c # 0 /\ v \notin LocalsOf(c) /\ Binds(builder, 0, v, d)
  BY <1>3, DefinitionsAre DEF ScopeOK
<1> QED
  BY <1>1, <1>2, <1>3 DEF MayMean

(* The names a line defines are local to the function it is in. *)
LEMMA BindsLocals ==
    ASSUME IsProgram(prog), NEW k \in FunctionLines, NEW m \in LinesIn(k)
    PROVE  prog[m].def \subseteq LocalsOf(k)
<1>1. m \in k .. prog[k].final
  BY LinesAreInScopes DEF LinesIn
<1> QED
  BY <1>1 DEF LocalsOf

-------------------------------------------------------------------------------
(* A visitor adds the node of its statement, unless that is a function. *)
Opened(b, o) ==
    \/ o = open
    \/ \E f : /\ o = Append(open, f) /\ IsFrame(f) /\ f.stmt = line /\ f.part \in Parts
              /\ f.node = NewestNode(b) /\ f.split = NewestNode(b)

(* A visitor that opens a statement keeps the invariant of the walk. *)
LEMMA OpenedKeeps ==
    ASSUME BuildInv, line <= BlockEnd, NEW b, NewestNode(b) = NewestNode(builder) + 1,
           NewestNode(builder) \in Nat,
           \A d \in 1 .. NewestNode(builder) : LineAt(b, d) = LineAt(builder, d),
           LineAt(b, NewestNode(b)) = line, NEW o, Opened(b, o)
    PROVE  /\ OpenOK(b, line + 1, o)
           /\ \A k : k # line => (IsOpen(o, k) <=> IsOpen(open, k))
           /\ o # open => IsOpen(o, line)
<1>1. /\ IsProgram(prog) /\ OpenOK(builder, line, open) /\ NodesOK(builder, line)
  BY DEF BuildInv, BuildInvOf
<1>2. IsStack(open) /\ Len(open) \in Nat /\ line \in DOMAIN prog /\ line \in Nat \ {0}
      /\ prog[line].final \in Nat /\ line <= prog[line].final
  <2>1. line \in DOMAIN prog /\ line \in Nat \ {0}
    BY CurrentScope
  <2>2. prog[line].body \in Nat /\ prog[line].handlers \in Nat /\ prog[line].orelse \in Nat
        /\ prog[line].final \in Nat /\ line <= prog[line].body
             /\ prog[line].body <= prog[line].handlers
        /\ prog[line].handlers <= prog[line].orelse /\ prog[line].orelse <= prog[line].final
    BY <1>1, <2>1, ProgramIs
  <2>3. IsStack(open) /\ Len(open) \in Nat
    BY <1>1, Stacks DEF OpenOK, IsStack
  <2> QED
    BY <2>1, <2>2, <2>3
<1> DEFINE k == Len(open)
           n == NewestNode(builder)
<1>3. ASSUME NEW i \in 1 .. k PROVE FrameOK(b, line + 1, open[i]) /\ open[i].stmt \in 1 .. line - 1
  <2>1. FrameOK(builder, line, open[i])
    BY <1>1 DEF OpenOK
  <2>2. line <= prog[open[i].stmt].final /\ open[i].stmt \in DOMAIN prog
    <3>1. line <= BlockEnd /\ BlockEnd \in Nat /\ BlockEnd <= prog[open[i].stmt].final
      BY BlockEndIs
    <3>2. open[i].stmt \in DOMAIN prog
      BY <1>2, <2>1, ProgramIs, <1>1 DEF FrameOK
    <3> QED
      BY <1>1, <1>2, <3>1, <3>2, ProgramIs
  <2>3. prog[open[i].stmt].final \in Nat
    BY <1>1, <2>2, ProgramIs
  <2>4. \A d \in 1 .. n + 1 : d > open[i].node => LineAt(b, d) >= open[i].stmt
    <3>1. open[i].stmt \in 1 .. line - 1 /\ \A d \in 1 .. n : d > open[i].node
            => LineAt(b, d) >= open[i].stmt
      BY <2>1 DEF FrameOK
    <3> QED
      BY <1>2, <3>1
  <2>5. IsFrame(open[i]) /\ open[i].stmt \in 1 .. line - 1 /\ open[i].part \in Parts
        /\ open[i].node \in 1 .. n /\ open[i].split \in 1 .. n
    BY <2>1 DEF FrameOK
  <2>7. n \in Nat
    OBVIOUS
  <2> HIDE DEF n
  <2>6. open[i].stmt \in 1 .. (line + 1) - 1 /\ line + 1 <= prog[open[i].stmt].final + 1
        /\ open[i].node \in 1 .. n + 1 /\ open[i].split \in 1 .. n + 1
    <3>1. \A x \in 1 .. n : x \in 1 .. n + 1
      BY <2>7
    <3>2. \A x \in 1 .. line - 1 : x \in 1 .. (line + 1) - 1
      BY <1>2
    <3>3. line + 1 <= prog[open[i].stmt].final + 1
      BY <1>2, <2>2, <2>3
    <3> QED
      BY <2>5, <3>1, <3>2, <3>3
  <2> QED
    BY <2>4, <2>5, <2>6 DEF FrameOK, n
<1>4. CASE o = open
  <2>1. OpenOK(b, line + 1, o)
    BY <1>1, <1>3, <1>4 DEF OpenOK
  <2> QED
    BY <1>4, <2>1
<1>5. CASE o # open
  <2>1. PICK f : /\ o = Append(open, f) /\ IsFrame(f) /\ f.stmt = line /\ f.part \in Parts
                 /\ f.node = n + 1 /\ f.split = n + 1
    BY <1>5 DEF Opened
  <2>2. IsStack(o) /\ Len(o) = k + 1 /\ o[k + 1] = f /\ \A i \in 1 .. k : o[i] = open[i]
    <3>1. /\ IsStack(Append(open, f)) /\ Len(Append(open, f)) = Len(open) + 1
          /\ Append(open, f)[Len(open) + 1] = f
          /\ \A i \in 1 .. Len(open) : Append(open, f)[i] = open[i]
      BY <1>2, PushIs
    <3> QED
      BY <2>1, <3>1
  <2>3. FrameOK(b, line + 1, f)
    BY <1>2, <2>1 DEF FrameOK
  <2>4. ASSUME NEW i \in 1 .. k + 1 PROVE FrameOK(b, line + 1, o[i])
    <3>1. CASE i = k + 1
      BY <2>2, <2>3, <3>1
    <3>2. CASE i # k + 1
      <4>1. i \in 1 .. k
        BY <1>2, <3>2
      <4> QED
        BY <1>3, <2>2, <4>1
    <3> QED
      BY <3>1, <3>2
  <2>5. ASSUME NEW i \in 1 .. k + 1, NEW j \in 1 .. k + 1, i < j
        PROVE  o[i].stmt < o[j].stmt /\ prog[o[j].stmt].final <= prog[o[i].stmt].final
    <3>1. CASE j \in 1 .. k
      BY <1>1, <1>2, <2>2, <2>5, <3>1 DEF OpenOK
    <3>2. CASE j = k + 1
      <4>1. i \in 1 .. k /\ o[i] = open[i] /\ o[j].stmt = line
        BY <1>2, <2>1, <2>2, <2>5, <3>2
      <4>2. open[i].stmt \in 1 .. line - 1 /\ open[i].stmt \in DOMAIN prog
        BY <1>1, <1>2, <1>3, <4>1, ProgramIs
      <4>3. line <= prog[open[i].stmt].final /\ prog[open[i].stmt].final \in Nat
        <5>1. line <= BlockEnd /\ BlockEnd \in Nat /\ BlockEnd <= prog[open[i].stmt].final
          BY <4>1, BlockEndIs
        <5> QED
          BY <1>1, <1>2, <4>2, <5>1, ProgramIs, SMTT(30)
      <4>4. line \in open[i].stmt + 1 .. prog[open[i].stmt].final
        BY <1>2, <4>2, <4>3
      <4> QED
        BY <1>1, <1>2, <4>1, <4>2, <4>4, NestedEnds
    <3> QED
      BY <1>2, <3>1, <3>2
  <2>6. OpenOK(b, line + 1, o)
    BY <2>2, <2>4, <2>5 DEF OpenOK
  <2>7. ASSUME NEW m, m # line PROVE IsOpen(o, m) <=> IsOpen(open, m)
    BY <1>2, <2>1, <2>2, <2>7, SMTT(30) DEF IsOpen
  <2>8. IsOpen(o, line)
    BY <1>2, <2>1, <2>2, SMTT(30) DEF IsOpen
  <2> QED
    BY <2>6, <2>7, <2>8
<1> QED
  BY <1>4, <1>5

(* Of a statement added: which scopes bind what, and what its uses are linked to. *)
LEMMA StatementNodeIs ==
    ASSUME NEW b, IsBuilder(builder), NEW l, NEW op, op # "phi",
           IsBuilder(b), b.nodes = Append(builder.nodes, NodeFor(op, l, prog[l].call, prog[l].uses))
    PROVE  /\ NewestNode(builder) \in Nat /\ NewestNode(b) = NewestNode(builder) + 1
           /\ \A d \in 1 .. NewestNode(builder) : b.nodes[d] = builder.nodes[d]
           /\ b.nodes[NewestNode(b)] = NodeFor(op, l, prog[l].call, prog[l].uses)
           /\ LineAt(b, NewestNode(b)) = l /\ IsReal(b, NewestNode(b))
<1> DEFINE node == NodeFor(op, l, prog[l].call, prog[l].uses)
           n == NewestNode(builder)
<1>1. builder.nodes \in Seq(NodeType) /\ n = Len(builder.nodes) /\ n \in Nat
  BY DEF IsBuilder, NewestNode
<1>2. node.line = l /\ node.op = op
  BY DEF NodeFor
<1> HIDE DEF node
<1>3. Len(b.nodes) = n + 1 /\ b.nodes[n + 1] = node /\ \A d \in 1 .. n : b.nodes[d] = builder.nodes[d]
  BY <1>1 DEF node
<1>4. NewestNode(b) = n + 1
  BY <1>3 DEF NewestNode
<1> HIDE DEF n
<1> QED
  BY <1>1, <1>2, <1>3, <1>4 DEF LineAt, IsReal, n, node

(* A statement added at the line that is visited keeps the invariant. *)
LEMMA VisitKeeps ==
    ASSUME BuildInv, line <= BlockEnd, prog[line].op \notin {"def", "phi"},
           NEW b, StatementAdded(builder, b, NodeOp(line), line),
           prog[line].op \in Linking => UsesLinked(builder, b, line),
           NEW o, Opened(b, o)
    PROVE  BuildInvOf(b, line + 1, o)
<1> DEFINE n == NewestNode(builder)
           m == Len(builder.scopes)
<1>1. /\ IsProgram(prog) /\ NodesOK(builder, line) /\ OpenOK(builder, line, open)
      /\ FunctionsOpen(line, open) /\ ScopesOK(builder, open) /\ DefsOK(builder) /\ LinkedOK(builder)
      /\ IsBuilder(builder)
  BY DEF BuildInv, BuildInvOf, NodesOK
<1>2. /\ line \in DOMAIN prog /\ line \in Nat \ {0} /\ line \notin FunctionLines
           /\ line + 1 \in 1 .. Len(prog) + 1
      /\ \A k \in FunctionLines : k # line => (line \in LinesIn(k) <=> IsOpen(open, k))
      /\ \A c \in Scopes : line \in LinesIn(c) <=> Current(open, c)
  <2>1. Len(prog) \in Nat /\ DOMAIN prog = 1 .. Len(prog) /\ line \in DOMAIN prog
    BY <1>1, CurrentScope, ProgramIs
  <2> QED
    BY <2>1, CurrentScope DEF FunctionLines
<1>3. /\ IsBuilder(b) /\ Grown(builder, b) /\ Len(b.scopes) = m
      /\ b.nodes = Append(builder.nodes, StatementNode(line))
      /\ \A i \in 1 .. m - 1 : b.scopes[i] = builder.scopes[i]
      /\ b.scopes[m] = WithDefinition(builder.scopes[m], prog[line].def, n + 1)
      /\ b.defs = WithDefinition(builder.defs, prog[line].def, n + 1)
  BY DEF StatementAdded, StatementNode
<1>4. NodeOp(line) # "phi"
  BY DEF NodeOp
<1>5. /\ n \in Nat /\ NewestNode(b) = n + 1 /\ \A d \in 1 .. n : b.nodes[d] = builder.nodes[d]
      /\ b.nodes[n + 1] = StatementNode(line) /\ LineAt(b, n + 1) = line /\ IsReal(b, n + 1)
  <2> DEFINE op == NodeOp(line)
  <2>1. op # "phi" /\ b.nodes = Append(builder.nodes, NodeFor(op, line, prog[line].call, prog[line].uses))
    BY <1>3, <1>4 DEF StatementNode
  <2> HIDE DEF op
  <2>2. /\ NewestNode(builder) \in Nat /\ NewestNode(b) = NewestNode(builder) + 1
        /\ \A d \in 1 .. NewestNode(builder) : b.nodes[d] = builder.nodes[d]
        /\ b.nodes[NewestNode(b)] = NodeFor(op, line, prog[line].call, prog[line].uses)
        /\ LineAt(b, NewestNode(b)) = line /\ IsReal(b, NewestNode(b))
    BY <1>1, <1>3, <2>1, StatementNodeIs, Zenon
  <2> QED
    BY <2>2 DEF StatementNode, op
<1> HIDE DEF n, m
<1>6. /\ \A d \in 1 .. n : IsReal(b, d) = IsReal(builder, d) /\ LineAt(b, d) = LineAt(builder, d)
      /\ \A e, v : \A d \in 1 .. n : Binds(b, e, v, d) = Binds(builder, e, v, d)
      /\ \A e, v : \A d \in 1 .. n : MayMean(b, e, v, d) = MayMean(builder, e, v, d)
      /\ \A i \in 1 .. n : UsesOK(b, i)
  <2>1. NewestNode(builder) \in Nat /\ \A d \in 1 .. NewestNode(builder) : b.nodes[d] = builder.nodes[d]
    BY <1>5 DEF n
  <2>2. LinkedOK(builder) /\ Grown(builder, b)
    BY <1>1, <1>3
  <2>3. /\ \A d \in 1 .. NewestNode(builder) : IsReal(b, d) = IsReal(builder, d)
             /\ LineAt(b, d) = LineAt(builder, d)
        /\ \A e, v : \A d \in 1 .. NewestNode(builder) : Binds(b, e, v, d) = Binds(builder, e, v, d)
        /\ \A e, v : \A d \in 1 .. NewestNode(builder) : MayMean(b, e, v, d) = MayMean(builder, e, v, d)
        /\ \A i \in 1 .. NewestNode(builder) : UsesOK(b, i)
    BY <2>1, <2>2, OldUses, Zenon
  <2> QED
    BY <2>3 DEF n
<1>7. NodesOK(b, line + 1)
  <2>1. \A d \in 1 .. n : LineAt(b, d) \in 1 .. line - 1 /\ (IsReal(b, d)
          => b.nodes[d] = StatementNode(LineAt(b, d)))
    BY <1>1, <1>5, <1>6 DEF NodesOK, n
  <2>2. \A d \in 1 .. n + 1 : /\ LineAt(b, d) \in 1 .. (line + 1) - 1
                              /\ IsReal(b, d) => b.nodes[d] = StatementNode(LineAt(b, d))
    BY <1>2, <1>5, <2>1
  <2>3. ASSUME NEW l \in 1 .. (line + 1) - 1 PROVE \E d \in 1 .. n + 1 : IsReal(b, d)
                 /\ LineAt(b, d) = l
    <3>1. CASE l = line
      BY <1>5, <3>1
    <3>2. CASE l # line
      <4>1. PICK d \in 1 .. n : IsReal(builder, d) /\ LineAt(builder, d) = l
        BY <1>1, <1>2, <2>3, <3>2 DEF NodesOK, n
      <4> QED
        BY <1>5, <1>6, <4>1
    <3> QED
      BY <3>1, <3>2
  <2> QED
    BY <1>3, <1>5, <2>2, <2>3 DEF NodesOK
<1>8. OpenOK(b, line + 1, o) /\ \A k \in FunctionLines : IsOpen(o, k) <=> IsOpen(open, k)
  <2>1. /\ OpenOK(b, line + 1, o)
        /\ \A k : k # line => (IsOpen(o, k) <=> IsOpen(open, k))
    BY <1>5, <1>6, OpenedKeeps DEF n
  <2> QED
    BY <1>2, <2>1
<1>9. FunctionsOpen(line + 1, o)
  <2> SUFFICES ASSUME NEW k \in FunctionLines, k < line + 1, line + 1 <= prog[k].final
        PROVE IsOpen(o, k)
    BY DEF FunctionsOpen
  <2>1. k \in Nat /\ prog[k].final \in Nat
    BY <1>1, LinesAreInScopes
  <2>2. k < line /\ line <= prog[k].final
    BY <1>2, <2>1
  <2> QED
    BY <1>1, <1>8, <2>2 DEF FunctionsOpen
<1>10. \A c \in Scopes : Current(o, c) => Current(open, c) /\ line \in LinesIn(c)
  BY <1>2, <1>8 DEF Current, Scopes
<1>11. /\ builder.scopes \in Seq(Definitions(n)) /\ builder.defs \in Definitions(n)
  BY <1>1 DEF IsBuilder, n
<1>12. ASSUME NEW defs \in Definitions(n), NEW v \in Vars
       PROVE  WithDefinition(defs, prog[line].def, n + 1)[v] =
                IF v \in prog[line].def THEN defs[v] \cup {n + 1} ELSE defs[v]
  BY DEF WithDefinition
<1>13. ScopesOK(b, o)
  <2> SUFFICES ASSUME NEW c \in Scopes, Current(o, c) PROVE ScopeOK(b, c)
    BY DEF ScopesOK
  <2>1. ScopeOK(builder, c) /\ line \in LinesIn(c)
    BY <1>1, <1>10 DEF ScopesOK
  <2>2. ASSUME NEW v \in Vars, NEW d \in 1 .. n + 1, NEW e, Binds(b, e, v, d)
        PROVE  (d \in 1 .. n /\ Binds(builder, e, v, d)) \/ (d = n + 1 /\ line \in LinesIn(e)
                 /\ v \in prog[line].def)
    <3>1. CASE d \in 1 .. n
      BY <1>6, <2>2, <3>1
    <3>2. CASE d \notin 1 .. n
      <4>1. d = n + 1
        BY <1>5, <3>2
      <4> QED
        BY <1>5, <2>2, <4>1 DEF Binds
    <3> QED
      BY <3>1, <3>2
  <2>3. CASE c = 0
    <3>1. m = 1 /\ builder.scopes[1] \in Definitions(n)
      BY <1>11, <2>1, <2>3 DEF ScopeOK, m
    <3>2. ASSUME NEW v \in Vars, NEW d \in 1 .. n + 1, Binds(b, 0, v, d) PROVE d \in b.scopes[1][v]
      <4>1. b.scopes[1][v] = IF v \in prog[line].def THEN builder.scopes[1][v] \cup {n + 1}
              ELSE builder.scopes[1][v]
        <5>1. b.scopes[1] = WithDefinition(builder.scopes[1], prog[line].def, n + 1)
          BY <1>3, <3>1
        <5> QED
          BY <1>12, <3>1, <5>1
      <4> QED
        <5>1. CASE d \in 1 .. n /\ Binds(builder, 0, v, d)
          BY <2>1, <4>1, <5>1 DEF ScopeOK, n
        <5>2. CASE d = n + 1 /\ v \in prog[line].def
          BY <4>1, <5>2
        <5> QED
          BY <2>2, <3>2, <5>1, <5>2
    <3> QED
      BY <1>3, <1>5, <2>3, <3>1, <3>2 DEF ScopeOK
  <2>4. CASE c # 0
    <3>1. m = 2 /\ builder.scopes[2] \in Definitions(n) /\ c \in FunctionLines
      BY <1>11, <2>1, <2>4 DEF ScopeOK, m, Scopes
    <3>2. ASSUME NEW v \in Vars, NEW d \in 1 .. n + 1, Binds(b, 0, v, d) PROVE d \in b.scopes[1][v]
      <4>1. b.scopes[1] = builder.scopes[1]
        BY <1>3, <3>1
      <4>2. line \notin LinesIn(0)
        BY <1>1, <2>1, <2>4, LinesAreInScopes DEF Scopes
      <4> QED
        <5>1. d \in 1 .. n /\ Binds(builder, 0, v, d)
          BY <2>2, <3>2, <4>2
        <5> QED
          BY <2>1, <4>1, <5>1 DEF ScopeOK, n
    <3>3. ASSUME NEW v \in Vars
          PROVE  /\ \A d \in 1 .. n + 1 : Binds(b, c, v, d) => d \in b.scopes[2][v]
                 /\ v \notin LocalsOf(c) => b.scopes[2][v] = {}
      <4>1. b.scopes[2][v] = IF v \in prog[line].def THEN builder.scopes[2][v] \cup {n + 1}
              ELSE builder.scopes[2][v]
        <5>1. b.scopes[2] = WithDefinition(builder.scopes[2], prog[line].def, n + 1)
          BY <1>3, <3>1
        <5> QED
          BY <1>12, <3>1, <5>1
      <4>2. prog[line].def \subseteq LocalsOf(c)
        BY <1>1, <2>1, <3>1, BindsLocals
      <4> QED
        <5>1. ASSUME NEW d \in 1 .. n + 1, Binds(b, c, v, d) PROVE d \in b.scopes[2][v]
          <6>1. CASE d \in 1 .. n /\ Binds(builder, c, v, d)
            BY <2>1, <2>4, <4>1, <6>1 DEF ScopeOK, n
          <6>2. CASE d = n + 1 /\ v \in prog[line].def
            BY <4>1, <6>2
          <6> QED
            BY <2>2, <5>1, <6>1, <6>2
        <5>2. v \notin LocalsOf(c) => builder.scopes[2][v] = {}
          BY <2>1, <2>4 DEF ScopeOK
        <5> QED
          BY <4>1, <4>2, <5>1, <5>2
    <3> QED
      BY <1>3, <1>5, <2>4, <3>1, <3>2, <3>3 DEF ScopeOK
  <2> QED
    BY <2>3, <2>4
<1>14. DefsOK(b)
  <2> SUFFICES ASSUME NEW v \in Vars, NEW k \in FunctionLines, NEW d \in b.defs[v], LineAt(b, d) \in LinesIn(k)
               PROVE  v \in LocalsOf(k)
    BY DEF DefsOK
  <2>1. b.defs[v] = IF v \in prog[line].def THEN builder.defs[v] \cup {n + 1} ELSE builder.defs[v]
    BY <1>3, <1>11, <1>12, ZenonT(40)
  <2>2. CASE d \in builder.defs[v]
    <3>1. d \in 1 .. n
      BY <1>11, <2>2 DEF Definitions
    <3> QED
      BY <1>1, <1>6, <2>2, <3>1 DEF DefsOK
  <2>3. CASE d \notin builder.defs[v]
    <3>1. d = n + 1 /\ v \in prog[line].def
      BY <2>1, <2>3
    <3> QED
      BY <1>1, <1>5, <3>1, BindsLocals
  <2> QED
    BY <2>2, <2>3
<1>15. UsesOK(b, n + 1)
  <2> SUFFICES ASSUME prog[line].op \in Linking, NEW c \in Scopes, NEW v \in prog[line].uses, NEW d \in 1 .. n,
                      line \in LinesIn(c), MayMean(b, c, v, d)
               PROVE  HasEdge(b, d, "DATA_DEPENDENCY", n + 1)
    BY <1>5 DEF UsesOK
  <2>1. ScopeOK(builder, c) /\ MayMean(builder, c, v, d)
    BY <1>1, <1>2, <1>6 DEF ScopesOK
  <2>2. v \in Vars
    BY <1>1, <1>2, ProgramIs
  <2>3. d \in DefinitionsOf(builder, v)
    BY <1>1, <2>1, <2>2, MeaningsAreDefinitions DEF n
  <2> QED
    BY <2>3 DEF UsesLinked, n
<1>16. LinkedOK(b)
  BY <1>5, <1>6, <1>15 DEF LinkedOK
<1> QED
  BY <1>1, <1>2, <1>7, <1>8, <1>9, <1>13, <1>14, <1>16 DEF BuildInvOf

(* A block ends: its statement goes on with the next one, or is closed. *)
LEMMA EnclosingIs ==
    ASSUME BuildInv, open # <<>>
    PROVE  /\ IsStack(open) /\ Len(open) \in Nat \ {0} /\ Enclosing = open[Len(open)]
           /\ FrameOK(builder, line, Enclosing) /\ Enclosing.stmt \in DOMAIN prog
           /\ prog[Enclosing.stmt].final \in Nat /\ Enclosing.stmt \in Nat \ {0} /\ line \in Nat \ {0}
           /\ \A i \in 1 .. Len(open) - 1 :
                 /\ open[i].stmt \in DOMAIN prog /\ open[i].stmt < Enclosing.stmt
                 /\ prog[Enclosing.stmt].final <= prog[open[i].stmt].final
                 /\ Enclosing.stmt \in open[i].stmt + 1 .. prog[open[i].stmt].final
<1>1. IsProgram(prog) /\ line \in 1 .. Len(prog) + 1 /\ OpenOK(builder, line, open)
  BY DEF BuildInv, BuildInvOf
<1>2. IsStack(open) /\ Len(open) \in Nat \ {0}
  BY <1>1, PopIs DEF OpenOK
<1>3. Enclosing = open[Len(open)] /\ FrameOK(builder, line, Enclosing)
        /\ Enclosing.stmt \in DOMAIN prog
  BY <1>2, BlockEndIs DEF Enclosing
<1>4. /\ prog[Enclosing.stmt].final \in Nat /\ Enclosing.stmt \in Nat \ {0} /\ line \in Nat \ {0}
      /\ Enclosing.stmt <= prog[Enclosing.stmt].final
  <2>1. prog \in Seq(StatementType)
    BY <1>1 DEF IsProgram
  <2>2. Len(prog) \in Nat /\ DOMAIN prog = 1 .. Len(prog)
    BY <2>1
  <2>3. /\ Enclosing.stmt \in 1 .. Len(prog) /\ prog[Enclosing.stmt].final \in Nat
        /\ prog[Enclosing.stmt].body \in Nat /\ prog[Enclosing.stmt].handlers \in Nat
        /\ prog[Enclosing.stmt].orelse \in Nat
        /\ Enclosing.stmt <= prog[Enclosing.stmt].body
        /\ prog[Enclosing.stmt].body <= prog[Enclosing.stmt].handlers
        /\ prog[Enclosing.stmt].handlers <= prog[Enclosing.stmt].orelse
        /\ prog[Enclosing.stmt].orelse <= prog[Enclosing.stmt].final
    BY <1>1, <1>3, <2>2, ProgramIs
  <2> QED
    BY <1>1, <2>2, <2>3
<1>5. ASSUME NEW i \in 1 .. Len(open) - 1
      PROVE  /\ open[i].stmt \in DOMAIN prog /\ open[i].stmt < Enclosing.stmt
             /\ prog[Enclosing.stmt].final <= prog[open[i].stmt].final
             /\ Enclosing.stmt \in open[i].stmt + 1 .. prog[open[i].stmt].final
  <2>1. i \in 1 .. Len(open) /\ i < Len(open) /\ Len(open) \in 1 .. Len(open)
    BY <1>2
  <2>2. /\ open[i].stmt < Enclosing.stmt /\ prog[Enclosing.stmt].final <= prog[open[i].stmt].final
        /\ open[i].stmt \in 1 .. line - 1
    BY <1>1, <1>3, <2>1 DEF OpenOK, FrameOK
  <2>3. open[i].stmt \in DOMAIN prog
    <3>1. Len(prog) \in Nat /\ DOMAIN prog = 1 .. Len(prog)
      BY <1>1, <1>3, ProgramIs
    <3>2. open[i].stmt \in Nat \ {0} /\ open[i].stmt <= line - 1
      BY <1>4, <2>2
    <3> QED
      BY <1>1, <3>1, <3>2
  <2>4. prog[open[i].stmt].final \in Nat /\ open[i].stmt \in Nat
    BY <1>1, <2>2, <2>3, ProgramIs
  <2> QED
    BY <1>4, <2>2, <2>3, <2>4
<1> QED
  BY <1>2, <1>3, <1>4, <1>5

Resumed(o) ==
    \E f : /\ o = [open EXCEPT ![Len(open)] = f] /\ IsFrame(f) /\ f.stmt = Enclosing.stmt
      /\ f.node = Enclosing.node
           /\ f.part \in Parts /\ f.split \in 1 .. NewestNode(builder)
Closed(o) == o = SubSeq(open, 1, Len(open) - 1)

(* A frame resumed at its next block keeps it, *)
LEMMA ResumedKeeps ==
    ASSUME BuildInv, open # <<>>, NEW b, NewestNode(b) = NewestNode(builder),
           \A d \in 1 .. NewestNode(builder) : LineAt(b, d) = LineAt(builder, d), NEW o, Resumed(o)
    PROVE  OpenOK(b, line, o) /\ \A k : IsOpen(o, k) <=> IsOpen(open, k)
<1>1. OpenOK(builder, line, open)
  BY DEF BuildInv, BuildInvOf
<1>2. PICK f : /\ o = [open EXCEPT ![Len(open)] = f] /\ IsFrame(f) /\ f.stmt = Enclosing.stmt
                    /\ f.node = Enclosing.node
               /\ f.part \in Parts /\ f.split \in 1 .. NewestNode(builder)
  BY DEF Resumed
<1>3. IsStack(o) /\ Len(o) = Len(open) /\ Len(open) \in Nat \ {0} /\ o[Len(open)] = f
      /\ \A i \in 1 .. Len(open) - 1 : o[i] = open[i]
  <2>1. IsStack(open)
    BY <1>1 DEF OpenOK
  <2>2. LET r == [open EXCEPT ![Len(open)] = f] IN
        /\ IsStack(r) /\ Len(r) = Len(open) /\ Len(open) \in Nat \ {0}
        /\ r[Len(open)] = f /\ \A i \in 1 .. Len(open) - 1 : r[i] = open[i]
    BY <2>1, ReplaceIs, Zenon
  <2> QED
    BY <1>2, <2>2
<1>4. \A i \in 1 .. Len(open) : o[i].stmt = open[i].stmt
  <2>1. o[Len(open)].stmt = open[Len(open)].stmt
    BY <1>2, <1>3 DEF Enclosing
  <2>2. \A i \in 1 .. Len(open) : i = Len(open) \/ i \in 1 .. Len(open) - 1
    BY <1>3
  <2> QED
    BY <1>3, <2>1, <2>2
<1>5. FrameOK(b, line, f)
  <2>1. FrameOK(builder, line, Enclosing)
    BY EnclosingIs
  <2> QED
    BY <1>2, <2>1 DEF FrameOK
<1>6. ASSUME NEW i \in 1 .. Len(open) PROVE FrameOK(b, line, o[i])
  <2>1. CASE i = Len(open)
    BY <1>3, <1>5, <2>1
  <2>2. CASE i # Len(open)
    <3>1. o[i] = open[i] /\ FrameOK(builder, line, open[i])
      BY <1>1, <1>3, <2>2 DEF OpenOK
    <3> QED
      BY <3>1 DEF FrameOK
  <2> QED
    BY <2>1, <2>2
<1> QED
  BY <1>1, <1>3, <1>4, <1>6 DEF OpenOK, IsOpen

(* and one that is closed. *)
LEMMA ClosedKeeps ==
    ASSUME BuildInv, open # <<>>, NEW b, NEW o, Closed(o),
           NewestNode(b) \in Nat, NewestNode(builder) \in Nat, NewestNode(b) >= NewestNode(builder),
           \A d \in 1 .. NewestNode(builder) : LineAt(b, d) = LineAt(builder, d),
           \A d \in 1 .. NewestNode(b) : d > NewestNode(builder) => LineAt(b, d) = Enclosing.stmt
    PROVE  /\ OpenOK(b, line, o)
           /\ \A k : IsOpen(o, k) <=> IsOpen(open, k) /\ k # Enclosing.stmt
<1> DEFINE m == Len(open)
<1>1. OpenOK(builder, line, open)
  BY DEF BuildInv, BuildInvOf
<1>2. IsStack(o) /\ Len(o) = m - 1 /\ m \in Nat \ {0} /\ \A i \in 1 .. m - 1 : o[i] = open[i]
  BY <1>1, PopIs DEF OpenOK, Closed
<1>3. ASSUME NEW i \in 1 .. m - 1
      PROVE  FrameOK(b, line, open[i]) /\ open[i].stmt # Enclosing.stmt
  <2>1. FrameOK(builder, line, open[i]) /\ i \in 1 .. m
    BY <1>1, <1>2 DEF OpenOK
  <2>2. open[i].stmt \in Nat /\ open[i].stmt < Enclosing.stmt /\ Enclosing.stmt \in Nat
    BY <2>1, EnclosingIs, SMTT(30) DEF FrameOK
  <2>3. ASSUME NEW d \in 1 .. NewestNode(b), d > open[i].node PROVE LineAt(b, d) >= open[i].stmt
    <3>1. CASE d \in 1 .. NewestNode(builder)
      BY <2>1, <2>3, <3>1 DEF FrameOK
    <3>2. CASE d \notin 1 .. NewestNode(builder)
      BY <2>2, <3>2
    <3> QED
      BY <3>1, <3>2
  <2> QED
    BY <2>1, <2>2, <2>3 DEF FrameOK
<1>4. OpenOK(b, line, o)
  BY <1>1, <1>2, <1>3 DEF OpenOK
<1>5. \A k : IsOpen(o, k) <=> \E i \in 1 .. m - 1 : open[i].stmt = k
  BY <1>2 DEF IsOpen
<1>6. open[m].stmt = Enclosing.stmt
  BY DEF Enclosing
<1>7. \A i \in 1 .. m : i \in 1 .. m - 1 \/ i = m
  BY <1>2
<1>8. \A i \in 1 .. m - 1 : i \in 1 .. m
  BY <1>2
<1> HIDE DEF m
<1>9. \A k : IsOpen(open, k) <=> \E i \in 1 .. m : open[i].stmt = k
  BY DEF IsOpen, m
<1>10. \A i \in 1 .. m - 1 : open[i].stmt # Enclosing.stmt
  BY <1>3 DEF m
<1> QED
  BY <1>4, <1>5, <1>6, <1>7, <1>8, <1>9, <1>10

(* More edges, and neither a statement nor a function less. *)
LEMMA RewiredKeeps ==
    ASSUME BuildInv, open # <<>>, NEW b, Rewired(builder, b), NEW o,
           Resumed(o) \/ (Closed(o) /\ prog[Enclosing.stmt].op # "def")
    PROVE  BuildInvOf(b, line, o)
<1>1. /\ IsProgram(prog) /\ line \in 1 .. Len(prog) + 1 /\ NodesOK(builder, line)
      /\ OpenOK(builder, line, open) /\ FunctionsOpen(line, open) /\ ScopesOK(builder, open)
      /\ DefsOK(builder) /\ LinkedOK(builder) /\ IsBuilder(builder)
  BY DEF BuildInv, BuildInvOf, NodesOK
<1>2. /\ IsBuilder(b) /\ b.nodes = builder.nodes /\ b.scopes = builder.scopes /\ b.defs = builder.defs
      /\ Grown(builder, b)
  BY DEF Rewired
<1>3. NewestNode(b) = NewestNode(builder) /\ NewestNode(builder) \in Nat
  BY <1>1, <1>2 DEF NewestNode, IsBuilder
<1>4. /\ \A d : IsReal(b, d) = IsReal(builder, d) /\ LineAt(b, d) = LineAt(builder, d)
      /\ \A c, v, d : Binds(b, c, v, d) = Binds(builder, c, v, d)
  BY <1>2 DEF IsReal, LineAt, Binds
<1>5. OpenOK(b, line, o) /\ \A k \in FunctionLines : IsOpen(o, k) <=> IsOpen(open, k)
  <2>1. CASE Resumed(o)
    BY <1>3, <1>4, <2>1, ResumedKeeps
  <2>2. CASE Closed(o) /\ prog[Enclosing.stmt].op # "def"
    <3>1. /\ OpenOK(b, line, o)
          /\ \A k : IsOpen(o, k) <=> IsOpen(open, k) /\ k # Enclosing.stmt
      <4>1. NewestNode(b) >= NewestNode(builder) /\ NewestNode(b) \in Nat
        BY <1>3
      <4> QED
        BY <1>3, <1>4, <2>2, <4>1, ClosedKeeps
    <3> QED
      BY <2>2, <3>1 DEF FunctionLines
  <2> QED
    BY <2>1, <2>2
<1>6. NodesOK(b, line)
  BY <1>1, <1>2, <1>3, <1>4 DEF NodesOK
<1>7. FunctionsOpen(line, o)
  BY <1>1, <1>5 DEF FunctionsOpen
<1>8. ScopesOK(b, o)
  <2> SUFFICES ASSUME NEW c \in Scopes, Current(o, c) PROVE ScopeOK(b, c)
    BY DEF ScopesOK
  <2>1. Current(open, c)
    BY <1>5 DEF Current, Scopes
  <2>2. ScopeOK(builder, c)
    BY <1>1, <2>1 DEF ScopesOK
  <2> QED
    BY <1>2, <1>3, <1>4, <2>2 DEF ScopeOK
<1>9. DefsOK(b)
  BY <1>1, <1>2, <1>4 DEF DefsOK
<1>10. LinkedOK(b)
  <2>1. \A n \in 1 .. NewestNode(builder) : UsesOK(b, n)
    BY <1>1, <1>2, <1>3, OldUses
  <2> QED
    BY <1>3, <2>1 DEF LinkedOK
<1> QED
  BY <1>1, <1>5, <1>6, <1>7, <1>8, <1>9, <1>10 DEF BuildInvOf

(* The phi node of a test joins definitions that stand below the test. *)
PhiAdded(b, names) ==
    /\ IsBuilder(b) /\ Grown(builder, b)
    /\ b.nodes = Append(builder.nodes, NodeFor("phi", Enclosing.stmt, "none", {}))
    /\ Len(b.scopes) = Len(builder.scopes)
    /\ \A i \in 1 .. Len(builder.scopes) - 1 : b.scopes[i] = builder.scopes[i]
    /\ b.scopes[Len(builder.scopes)] =
         WithDefinition(builder.scopes[Len(builder.scopes)], names, NewestNode(builder) + 1)
    /\ b.defs = WithDefinition(builder.defs, names, NewestNode(builder) + 1)

(* A phi node where branches join is no statement of its own. *)
LEMMA PhiKeeps ==
    ASSUME BuildInv, open # <<>>, prog[Enclosing.stmt].op # "def", NEW names \in SUBSET Vars,
           \A v \in names : \E d \in builder.defs[v] : d > Enclosing.node,
           NEW b, PhiAdded(b, names), NEW o, Closed(o)
    PROVE  BuildInvOf(b, line, o)
<1> DEFINE n == NewestNode(builder)
           m == Len(builder.scopes)
           test == Enclosing.stmt
           node == NodeFor("phi", test, "none", {})
<1>1. /\ IsProgram(prog) /\ line \in 1 .. Len(prog) + 1 /\ NodesOK(builder, line)
      /\ OpenOK(builder, line, open) /\ FunctionsOpen(line, open) /\ ScopesOK(builder, open)
      /\ DefsOK(builder) /\ LinkedOK(builder) /\ IsBuilder(builder)
  BY DEF BuildInv, BuildInvOf, NodesOK
<1>2. /\ IsBuilder(b) /\ Grown(builder, b) /\ Len(b.scopes) = m
      /\ b.nodes = Append(builder.nodes, node)
      /\ \A i \in 1 .. m - 1 : b.scopes[i] = builder.scopes[i]
      /\ b.scopes[m] = WithDefinition(builder.scopes[m], names, n + 1)
      /\ b.defs = WithDefinition(builder.defs, names, n + 1)
  BY DEF PhiAdded
<1>3. node.op = "phi" /\ node.line = test
  BY DEF NodeFor
<1>4. /\ FrameOK(builder, line, Enclosing) /\ test \in DOMAIN prog /\ test \in Nat \ {0}
           /\ line \in Nat \ {0}
      /\ prog[test].final \in Nat /\ test \in 1 .. line - 1 /\ line <= prog[test].final + 1
      /\ \A d \in 1 .. n : d > Enclosing.node => LineAt(builder, d) >= test
  BY EnclosingIs DEF FrameOK
<1> HIDE DEF node
<1>5. /\ n \in Nat /\ NewestNode(b) = n + 1 /\ \A d \in 1 .. n : b.nodes[d] = builder.nodes[d]
      /\ LineAt(b, n + 1) = test /\ ~IsReal(b, n + 1)
  <2>1. builder.nodes \in Seq(NodeType) /\ n = Len(builder.nodes) /\ n \in Nat
    BY <1>1 DEF IsBuilder, NewestNode
  <2> HIDE DEF n
  <2>2. Len(b.nodes) = n + 1 /\ b.nodes[n + 1] = node /\ \A d \in 1 .. n : b.nodes[d] = builder.nodes[d]
    BY <1>2, <2>1
  <2> QED
    BY <1>3, <2>1, <2>2 DEF LineAt, IsReal, NewestNode
<1> HIDE DEF n, m
<1>6. /\ \A d \in 1 .. n : IsReal(b, d) = IsReal(builder, d) /\ LineAt(b, d) = LineAt(builder, d)
      /\ \A e, v : \A d \in 1 .. n : Binds(b, e, v, d) = Binds(builder, e, v, d)
      /\ \A i \in 1 .. n : UsesOK(b, i)
  <2>1. NewestNode(builder) \in Nat /\ \A d \in 1 .. NewestNode(builder) : b.nodes[d] = builder.nodes[d]
    BY <1>5 DEF n
  <2>2. LinkedOK(builder) /\ Grown(builder, b)
    BY <1>1, <1>2
  <2>3. /\ \A d \in 1 .. NewestNode(builder) : IsReal(b, d) = IsReal(builder, d)
             /\ LineAt(b, d) = LineAt(builder, d)
        /\ \A e, v : \A d \in 1 .. NewestNode(builder) : Binds(b, e, v, d) = Binds(builder, e, v, d)
        /\ \A i \in 1 .. NewestNode(builder) : UsesOK(b, i)
    BY <2>1, <2>2, OldUses, Zenon
  <2> QED
    BY <2>3 DEF n
<1>7. \A e, v : ~Binds(b, e, v, n + 1)
  BY <1>5 DEF Binds
<1>8. \A d \in 1 .. n + 1 : d \in 1 .. n \/ d = n + 1
  BY <1>5
<1>9. NodesOK(b, line)
  <2>1. /\ \A d \in 1 .. n : LineAt(b, d) \in 1 .. line - 1 /\ (IsReal(b, d)
             => b.nodes[d] = StatementNode(LineAt(b, d)))
        /\ \A l \in 1 .. line - 1 : \E d \in 1 .. n : IsReal(b, d) /\ LineAt(b, d) = l
    BY <1>1, <1>5, <1>6 DEF NodesOK, n
  <2>2. \A d \in 1 .. n : d \in 1 .. n + 1
    BY <1>5
  <2> QED
    BY <1>2, <1>4, <1>5, <1>8, <2>1, <2>2 DEF NodesOK
<1>10. /\ OpenOK(b, line, o)
       /\ \A k : IsOpen(o, k) <=> IsOpen(open, k) /\ k # test
  <2>1. /\ \A d \in 1 .. n : LineAt(b, d) = LineAt(builder, d)
        /\ \A d \in 1 .. n + 1 : d > n => LineAt(b, d) = Enclosing.stmt
        /\ n + 1 >= n
    BY <1>5, <1>6
  <2>2. /\ NewestNode(b) \in Nat /\ NewestNode(builder) \in Nat
             /\ NewestNode(b) >= NewestNode(builder)
        /\ \A d \in 1 .. NewestNode(builder) : LineAt(b, d) = LineAt(builder, d)
        /\ \A d \in 1 .. NewestNode(b) : d > NewestNode(builder) => LineAt(b, d) = Enclosing.stmt
    BY <1>5, <2>1 DEF n
  <2> QED
    BY <2>2, ClosedKeeps
<1>11. \A k \in FunctionLines : IsOpen(o, k) <=> IsOpen(open, k)
  BY <1>10 DEF FunctionLines
<1>12. FunctionsOpen(line, o)
  BY <1>1, <1>11 DEF FunctionsOpen
<1>13. ASSUME NEW k \in FunctionLines, test \in LinesIn(k) PROVE names \subseteq LocalsOf(k)
  <2> SUFFICES ASSUME NEW v \in names PROVE v \in LocalsOf(k)
    OBVIOUS
  <2>1. PICK d \in builder.defs[v] : d > Enclosing.node
    OBVIOUS
  <2>2. d \in 1 .. n
    <3>1. builder.defs \in [Vars -> SUBSET (1 .. n)] /\ v \in Vars
      BY <1>1 DEF IsBuilder, Definitions, n
    <3> QED
      BY <3>1
  <2>3. LineAt(builder, d) \in 1 .. line - 1 /\ LineAt(builder, d) >= test
    <3>1. \A e \in 1 .. n : LineAt(builder, e) \in 1 .. line - 1
      BY <1>1 DEF NodesOK, n
    <3> QED
      BY <1>4, <2>1, <2>2, <3>1
  <2>4. k \in DOMAIN prog /\ k \in Nat /\ prog[k].final \in Nat /\ test \in k + 1 .. prog[k].final
    <3>1. k \in DOMAIN prog /\ k \in Nat \ {0} /\ prog[k].final \in Nat
      BY <1>1, LinesAreInScopes
    <3>2. test # k
      BY DEF FunctionLines
    <3> QED
      BY <1>4, <1>13, <3>1, <3>2 DEF LinesIn
  <2>5. prog[test].final <= prog[k].final
    BY <1>1, <2>4, NestedEnds
  <2>6. LineAt(builder, d) \in k .. prog[k].final
    BY <1>4, <2>3, <2>4, <2>5
  <2>7. LineAt(builder, d) \in LinesIn(k)
    BY <2>4, <2>6, <1>1, LinesAreInScopes DEF LinesIn
  <2> QED
    BY <1>1, <2>7 DEF DefsOK
<1>14. /\ builder.scopes \in Seq(Definitions(n)) /\ builder.defs \in Definitions(n)
  BY <1>1 DEF IsBuilder, n
<1>15. ASSUME NEW defs \in Definitions(n), NEW v \in Vars
       PROVE  WithDefinition(defs, names, n + 1)[v] = IF v \in names THEN defs[v] \cup {n + 1}
                ELSE defs[v]
  BY DEF WithDefinition
<1>16. ScopesOK(b, o)
  <2> SUFFICES ASSUME NEW c \in Scopes, Current(o, c) PROVE ScopeOK(b, c)
    BY DEF ScopesOK
  <2>1. Current(open, c)
    BY <1>11 DEF Current, Scopes
  <2>2. ScopeOK(builder, c)
    BY <1>1, <2>1 DEF ScopesOK
  <2>3. ASSUME NEW v \in Vars, NEW d \in 1 .. n + 1, NEW e, Binds(b, e, v, d)
        PROVE  d \in 1 .. n /\ Binds(builder, e, v, d)
    BY <1>6, <1>7, <1>8, <2>3
  <2>4. CASE c = 0
    <3>1. m = 1 /\ builder.scopes[1] \in Definitions(n)
      BY <1>14, <2>2, <2>4 DEF ScopeOK, m
    <3>2. ASSUME NEW v \in Vars, NEW d \in 1 .. n + 1, Binds(b, 0, v, d) PROVE d \in b.scopes[1][v]
      <4>1. b.scopes[1] = WithDefinition(builder.scopes[1], names, n + 1)
        BY <1>2, <3>1
      <4>2. builder.scopes[1][v] \subseteq b.scopes[1][v]
        BY <1>15, <3>1, <4>1, ZenonT(40)
      <4> QED
        BY <2>2, <2>3, <3>2, <4>2 DEF ScopeOK, n
    <3> QED
      BY <1>2, <1>5, <2>4, <3>1, <3>2 DEF ScopeOK
  <2>5. CASE c # 0
    <3>1. m = 2 /\ builder.scopes[2] \in Definitions(n) /\ c \in FunctionLines
      BY <1>14, <2>2, <2>5 DEF ScopeOK, m, Scopes
    <3>2. ASSUME NEW v \in Vars, NEW d \in 1 .. n + 1, Binds(b, 0, v, d) PROVE d \in b.scopes[1][v]
      <4>1. b.scopes[1] = builder.scopes[1]
        BY <1>2, <3>1
      <4> QED
        BY <2>2, <2>3, <3>2, <4>1 DEF ScopeOK, n
    <3>3. names \subseteq LocalsOf(c)
      <4>1. PICK i \in 1 .. Len(open) : open[i].stmt = c
        BY <2>1, <2>5 DEF Current, IsOpen
      <4>2. i \in 1 .. Len(open) - 1
        <5>1. open[Len(open)].stmt = test /\ test # c
          BY <3>1 DEF FunctionLines, Enclosing
        <5>2. Len(open) \in Nat
          BY EnclosingIs
        <5> QED
          BY <4>1, <5>1, <5>2
      <4>3. test \in c + 1 .. prog[c].final
        BY <4>1, <4>2, EnclosingIs
      <4>4. test \in LinesIn(c)
        BY <1>1, <3>1, <4>3, LinesAreInScopes DEF LinesIn
      <4> QED
        BY <1>13, <3>1, <4>4
    <3>4. ASSUME NEW v \in Vars
          PROVE  /\ \A d \in 1 .. n + 1 : Binds(b, c, v, d) => d \in b.scopes[2][v]
                 /\ v \notin LocalsOf(c) => b.scopes[2][v] = {}
      <4>1. b.scopes[2] = WithDefinition(builder.scopes[2], names, n + 1)
        BY <1>2, <3>1
      <4>2. b.scopes[2][v] = IF v \in names THEN builder.scopes[2][v] \cup {n + 1}
              ELSE builder.scopes[2][v]
        BY <1>15, <3>1, <4>1, ZenonT(40)
      <4>3. ASSUME NEW d \in 1 .. n + 1, Binds(b, c, v, d) PROVE d \in b.scopes[2][v]
        <5>1. d \in 1 .. n /\ Binds(builder, c, v, d)
          BY <2>3, <4>3
        <5> QED
          BY <2>2, <2>5, <4>2, <5>1 DEF ScopeOK, n
      <4>4. v \notin LocalsOf(c) => builder.scopes[2][v] = {}
        BY <2>2, <2>5 DEF ScopeOK
      <4> QED
        BY <3>3, <4>2, <4>3, <4>4
    <3> QED
      BY <1>2, <1>5, <2>5, <3>1, <3>2, <3>4 DEF ScopeOK
  <2> QED
    BY <2>4, <2>5
<1>17. DefsOK(b)
  <2> SUFFICES ASSUME NEW v \in Vars, NEW k \in FunctionLines, NEW d \in b.defs[v], LineAt(b, d) \in LinesIn(k)
               PROVE  v \in LocalsOf(k)
    BY DEF DefsOK
  <2>1. b.defs[v] = IF v \in names THEN builder.defs[v] \cup {n + 1} ELSE builder.defs[v]
    BY <1>2, <1>14, <1>15
  <2>2. CASE d \in builder.defs[v]
    <3>1. d \in 1 .. n
      BY <1>14, <2>2 DEF Definitions
    <3> QED
      BY <1>1, <1>6, <2>2, <3>1 DEF DefsOK
  <2>3. CASE d \notin builder.defs[v]
    <3>1. d = n + 1 /\ v \in names
      BY <2>1, <2>3
    <3> QED
      BY <1>5, <1>13, <3>1
  <2> QED
    BY <2>2, <2>3
<1>18. LinkedOK(b)
  <2>1. UsesOK(b, n + 1)
    BY <1>5 DEF UsesOK
  <2> QED
    BY <1>5, <1>6, <1>8, <2>1 DEF LinkedOK
<1> QED
  BY <1>1, <1>9, <1>10, <1>12, <1>16, <1>17, <1>18 DEF BuildInvOf

(* A function definition opens a scope with its parameters, *)
FunctionAdded(b) ==
    /\ IsBuilder(b) /\ Grown(builder, b)
    /\ b.nodes = Append(builder.nodes, NodeFor("def", line, prog[line].call, prog[line].uses))
    /\ Len(b.scopes) = Len(builder.scopes) + 1
    /\ \A i \in 1 .. Len(builder.scopes) : b.scopes[i] = builder.scopes[i]
    /\ b.scopes[Len(builder.scopes) + 1] =
         WithDefinition(NoDefs, prog[line].def, NewestNode(builder) + 1)
    /\ b.defs = WithDefinition(builder.defs, prog[line].def, NewestNode(builder) + 1)

(* The scope of a function starts empty but for its parameters, *)
LEMMA FunctionKeeps ==
    ASSUME BuildInv, line <= BlockEnd, prog[line].op = "def",
           NEW b, FunctionAdded(b), NEW o, Opened(b, o), o # open
    PROVE  BuildInvOf(b, line + 1, o)
<1> DEFINE n == NewestNode(builder)
<1>1. /\ IsProgram(prog) /\ NodesOK(builder, line) /\ OpenOK(builder, line, open)
      /\ FunctionsOpen(line, open) /\ ScopesOK(builder, open) /\ DefsOK(builder) /\ LinkedOK(builder)
      /\ IsBuilder(builder)
  BY DEF BuildInv, BuildInvOf, NodesOK
<1>2. /\ line \in DOMAIN prog /\ line \in Nat \ {0} /\ line \in FunctionLines
           /\ line + 1 \in 1 .. Len(prog) + 1
      /\ Current(open, 0)
  <2>1. Len(prog) \in Nat /\ DOMAIN prog = 1 .. Len(prog) /\ line \in DOMAIN prog
    BY <1>1, CurrentScope, ProgramIs
  <2> QED
    BY <2>1, CurrentScope
<1>3. /\ Len(builder.scopes) = 1
      /\ \A v \in Vars, d \in 1 .. n : Binds(builder, 0, v, d) => d \in builder.scopes[1][v]
  BY <1>1, <1>2 DEF ScopesOK, ScopeOK, Scopes
<1>4. /\ IsBuilder(b) /\ Grown(builder, b) /\ Len(b.scopes) = 2
      /\ b.nodes = Append(builder.nodes, StatementNode(line))
      /\ b.scopes[1] = builder.scopes[1]
      /\ b.scopes[2] = WithDefinition(NoDefs, prog[line].def, n + 1)
      /\ b.defs = WithDefinition(builder.defs, prog[line].def, n + 1)
  BY <1>3 DEF FunctionAdded, StatementNode, NodeOp
<1>5. /\ n \in Nat /\ NewestNode(b) = n + 1 /\ \A d \in 1 .. n : b.nodes[d] = builder.nodes[d]
      /\ b.nodes[n + 1] = StatementNode(line) /\ LineAt(b, n + 1) = line /\ IsReal(b, n + 1)
  <2> DEFINE op == NodeOp(line)
  <2>1. op # "phi" /\ b.nodes = Append(builder.nodes, NodeFor(op, line, prog[line].call, prog[line].uses))
    BY <1>4 DEF StatementNode, NodeOp
  <2> HIDE DEF op
  <2>2. /\ NewestNode(builder) \in Nat /\ NewestNode(b) = NewestNode(builder) + 1
        /\ \A d \in 1 .. NewestNode(builder) : b.nodes[d] = builder.nodes[d]
        /\ b.nodes[NewestNode(b)] = NodeFor(op, line, prog[line].call, prog[line].uses)
        /\ LineAt(b, NewestNode(b)) = line /\ IsReal(b, NewestNode(b))
    BY <1>1, <1>4, <2>1, StatementNodeIs, Zenon
  <2> QED
    BY <2>2 DEF StatementNode, op
<1> HIDE DEF n
<1>6. /\ \A d \in 1 .. n : IsReal(b, d) = IsReal(builder, d) /\ LineAt(b, d) = LineAt(builder, d)
      /\ \A e, v : \A d \in 1 .. n : Binds(b, e, v, d) = Binds(builder, e, v, d)
      /\ \A i \in 1 .. n : UsesOK(b, i)
  <2>1. NewestNode(builder) \in Nat /\ \A d \in 1 .. NewestNode(builder) : b.nodes[d] = builder.nodes[d]
    BY <1>5 DEF n
  <2>2. LinkedOK(builder) /\ Grown(builder, b)
    BY <1>1, <1>4
  <2>3. /\ \A d \in 1 .. NewestNode(builder) : IsReal(b, d) = IsReal(builder, d)
             /\ LineAt(b, d) = LineAt(builder, d)
        /\ \A e, v : \A d \in 1 .. NewestNode(builder) : Binds(b, e, v, d) = Binds(builder, e, v, d)
        /\ \A i \in 1 .. NewestNode(builder) : UsesOK(b, i)
    BY <2>1, <2>2, OldUses, Zenon
  <2> QED
    BY <2>3 DEF n
<1>7. \A d \in 1 .. n + 1 : d \in 1 .. n \/ d = n + 1
  BY <1>5
<1>8. /\ \A d \in 1 .. n : LineAt(builder, d) \in 1 .. line - 1
      /\ \A d \in 1 .. n : IsReal(builder, d) => builder.nodes[d] = StatementNode(LineAt(builder, d))
      /\ \A l \in 1 .. line - 1 : \E d \in 1 .. n : IsReal(builder, d) /\ LineAt(builder, d) = l
  BY <1>1 DEF NodesOK, n
<1>9. NodesOK(b, line + 1)
  <2>1. \A d \in 1 .. n + 1 : /\ LineAt(b, d) \in 1 .. (line + 1) - 1
                              /\ IsReal(b, d) => b.nodes[d] = StatementNode(LineAt(b, d))
    <3> SUFFICES ASSUME NEW d \in 1 .. n + 1
                 PROVE  /\ LineAt(b, d) \in 1 .. (line + 1) - 1
                        /\ IsReal(b, d) => b.nodes[d] = StatementNode(LineAt(b, d))
      OBVIOUS
    <3>1. CASE d \in 1 .. n
      <4>1. LineAt(b, d) \in 1 .. line - 1 /\ (IsReal(b, d) => b.nodes[d] = StatementNode(LineAt(b, d)))
        BY <1>5, <1>6, <1>8, <3>1
      <4> QED
        BY <1>2, <4>1
    <3>2. CASE d = n + 1
      BY <1>2, <1>5, <3>2
    <3> QED
      BY <1>7, <3>1, <3>2
  <2>2. ASSUME NEW l \in 1 .. (line + 1) - 1 PROVE \E d \in 1 .. n + 1 : IsReal(b, d)
                 /\ LineAt(b, d) = l
    <3>1. CASE l = line
      BY <1>5, <3>1
    <3>2. CASE l # line
      <4>1. PICK d \in 1 .. n : IsReal(builder, d) /\ LineAt(builder, d) = l
        <5>1. l \in 1 .. line - 1
          BY <1>2, <2>2, <3>2
        <5> QED
          BY <1>8, <5>1
      <4> QED
        BY <1>5, <1>6, <4>1
    <3> QED
      BY <3>1, <3>2
  <2> QED
    BY <1>4, <1>5, <2>1, <2>2 DEF NodesOK
<1>10. /\ OpenOK(b, line + 1, o) /\ IsOpen(o, line)
       /\ \A k : k # line => (IsOpen(o, k) <=> IsOpen(open, k))
  BY <1>5, <1>6, OpenedKeeps DEF n
<1>11. FunctionsOpen(line + 1, o)
  <2> SUFFICES ASSUME NEW k \in FunctionLines, k < line + 1, line + 1 <= prog[k].final
        PROVE IsOpen(o, k)
    BY DEF FunctionsOpen
  <2>1. CASE k = line
    BY <1>10, <2>1
  <2>2. CASE k # line
    <3>1. k \in Nat /\ prog[k].final \in Nat
      BY <1>1, LinesAreInScopes
    <3>2. k < line /\ line <= prog[k].final
      BY <1>2, <2>2, <3>1
    <3> QED
      BY <1>1, <1>10, <2>2, <3>2 DEF FunctionsOpen
  <2> QED
    BY <2>1, <2>2
<1>12. ASSUME NEW c \in Scopes, Current(o, c) PROVE c = line
  <2>1. c # 0
    BY <1>2, <1>10, <1>12 DEF Current
  <2>2. c \in FunctionLines /\ IsOpen(o, c)
    BY <1>12, <2>1 DEF Current, Scopes
  <2>3. ~IsOpen(open, c)
    BY <1>2, <2>2 DEF Current
  <2> QED
    BY <1>10, <2>2, <2>3
<1>13. prog[line].def \subseteq LocalsOf(line) /\ line \in LinesIn(line)
         /\ LinesIn(line) = line .. prog[line].final
       /\ line \notin LinesIn(0)
  <2>1. LinesIn(line) = line .. prog[line].final /\ prog[line].final \in Nat
          /\ line <= prog[line].final
    BY <1>1, <1>2, LinesAreInScopes DEF LinesIn
  <2>2. line \in LinesIn(line)
    BY <1>2, <2>1
  <2>3. line \notin LinesIn(0)
    BY <1>2, <2>1, <2>2 DEF LinesIn
  <2> QED
    BY <1>1, <1>2, <2>1, <2>2, <2>3, BindsLocals
<1>14. ScopesOK(b, o)
  <2> SUFFICES ScopeOK(b, line)
    BY <1>12 DEF ScopesOK
  <2>1. ASSUME NEW v \in Vars, NEW d \in 1 .. n + 1, Binds(b, 0, v, d) PROVE d \in b.scopes[1][v]
    <3>1. d # n + 1
      BY <1>5, <1>13, <2>1 DEF Binds
    <3>2. d \in 1 .. n /\ Binds(builder, 0, v, d)
      BY <1>6, <1>7, <2>1, <3>1
    <3> QED
      BY <1>3, <1>4, <3>2
  <2>2. ASSUME NEW v \in Vars PROVE b.scopes[2][v] = IF v \in prog[line].def THEN {n + 1} ELSE {}
    BY <1>4 DEF WithDefinition, NoDefs
  <2>3. ASSUME NEW v \in Vars, NEW d \in 1 .. n + 1, Binds(b, line, v, d) PROVE d \in b.scopes[2][v]
    <3>1. LineAt(b, d) \in line .. prog[line].final
      BY <1>13, <2>3 DEF Binds
    <3>2. d \notin 1 .. n
      BY <1>2, <1>6, <1>8, <3>1
    <3>3. d = n + 1 /\ v \in prog[line].def
      BY <1>5, <1>7, <2>3, <3>2 DEF Binds
    <3> QED
      BY <2>2, <3>3
  <2>4. \A v \in Vars : v \notin LocalsOf(line) => b.scopes[2][v] = {}
    BY <1>13, <2>2
  <2> QED
    BY <1>2, <1>4, <1>5, <2>1, <2>3, <2>4 DEF ScopeOK
<1>15. DefsOK(b)
  <2> SUFFICES ASSUME NEW v \in Vars, NEW k \in FunctionLines, NEW d \in b.defs[v], LineAt(b, d) \in LinesIn(k)
               PROVE  v \in LocalsOf(k)
    BY DEF DefsOK
  <2>1. b.defs[v] = IF v \in prog[line].def THEN builder.defs[v] \cup {n + 1} ELSE builder.defs[v]
    BY <1>4 DEF WithDefinition
  <2>2. CASE d \in builder.defs[v]
    <3>1. builder.defs \in [Vars -> SUBSET (1 .. n)]
      BY <1>1 DEF IsBuilder, Definitions, n
    <3>2. d \in 1 .. n
      BY <2>2, <3>1
    <3> QED
      BY <1>1, <1>6, <2>2, <3>2 DEF DefsOK
  <2>3. CASE d \notin builder.defs[v]
    <3>1. d = n + 1 /\ v \in prog[line].def
      BY <2>1, <2>3
    <3> QED
      BY <1>1, <1>5, <3>1, BindsLocals
  <2> QED
    BY <2>2, <2>3
<1>16. LinkedOK(b)
  <2>1. UsesOK(b, n + 1)
    BY <1>2, <1>5 DEF UsesOK, FunctionLines, Linking
  <2> QED
    BY <1>5, <1>6, <1>7, <2>1 DEF LinkedOK
<1> QED
  BY <1>1, <1>2, <1>9, <1>10, <1>11, <1>14, <1>15, <1>16 DEF BuildInvOf

(* and its end closes it. *)
FunctionLeft(b) ==
    /\ IsBuilder(b) /\ b.nodes = builder.nodes /\ b.edges = builder.edges /\ b.defs = builder.defs
    /\ b.scopes = SubSeq(builder.scopes, 1, Len(builder.scopes) - 1)

(* and the scope around it is current again after it. *)
LEMMA FunctionLeftKeeps ==
    ASSUME BuildInv, open # <<>>, line > BlockEnd, prog[Enclosing.stmt].op = "def", Enclosing.part = "body",
           NEW b, FunctionLeft(b), NEW o, Closed(o)
    PROVE  BuildInvOf(b, line, o)
<1> DEFINE f == Enclosing.stmt
<1>1. /\ IsProgram(prog) /\ line \in 1 .. Len(prog) + 1 /\ NodesOK(builder, line)
      /\ OpenOK(builder, line, open) /\ FunctionsOpen(line, open) /\ ScopesOK(builder, open)
      /\ DefsOK(builder) /\ LinkedOK(builder) /\ IsBuilder(builder)
  BY DEF BuildInv, BuildInvOf, NodesOK
<1>2. /\ IsBuilder(b) /\ b.nodes = builder.nodes /\ b.edges = builder.edges /\ b.defs = builder.defs
      /\ b.scopes = SubSeq(builder.scopes, 1, Len(builder.scopes) - 1)
  BY DEF FunctionLeft
<1>3. NewestNode(b) = NewestNode(builder) /\ NewestNode(builder) \in Nat
  BY <1>1, <1>2 DEF NewestNode, IsBuilder
<1>4. /\ \A d : IsReal(b, d) = IsReal(builder, d) /\ LineAt(b, d) = LineAt(builder, d)
      /\ \A c, v, d : Binds(b, c, v, d) = Binds(builder, c, v, d)
  BY <1>2 DEF IsReal, LineAt, Binds
<1>5. /\ OpenOK(b, line, o)
      /\ \A k : IsOpen(o, k) <=> IsOpen(open, k) /\ k # f
  <2>1. NewestNode(b) >= NewestNode(builder) /\ NewestNode(b) \in Nat
    BY <1>3
  <2> QED
    BY <1>3, <1>4, <2>1, ClosedKeeps
<1>6. f \in FunctionLines /\ line > prog[f].final
  <2>1. f \in DOMAIN prog /\ prog[f].op = "def" /\ prog[f].body = prog[f].final
    BY <1>1, EnclosingIs, ProgramIs
  <2>2. BlockEnd = prog[f]["body"] /\ prog[f]["body"] = prog[f].body
    BY BlockEndIs
  <2> QED
    BY <2>1, <2>2 DEF FunctionLines
<1>7. NodesOK(b, line)
  BY <1>1, <1>2, <1>3, <1>4 DEF NodesOK
<1>8. FunctionsOpen(line, o)
  <2> SUFFICES ASSUME NEW k \in FunctionLines, k < line, line <= prog[k].final PROVE IsOpen(o, k)
    BY DEF FunctionsOpen
  <2>1. prog[k].final \in Nat /\ prog[f].final \in Nat /\ line \in Nat
    BY <1>1, EnclosingIs, LinesAreInScopes
  <2>2. k # f
    BY <1>6, <2>1
  <2> QED
    BY <1>1, <1>5, <2>2 DEF FunctionsOpen
<1>9. ASSUME NEW k \in FunctionLines, IsOpen(open, k) PROVE k = f
  <2>1. PICK i \in 1 .. Len(open) : open[i].stmt = k
    BY <1>9 DEF IsOpen
  <2>2. CASE i = Len(open)
    BY <2>1, <2>2 DEF Enclosing
  <2>3. CASE i # Len(open)
    <3>1. i \in 1 .. Len(open) - 1
      BY <2>1, <2>3, EnclosingIs
    <3>2. f \in k + 1 .. prog[k].final
      BY <2>1, <3>1, EnclosingIs
    <3>3. f \in LinesIn(k)
      BY <1>1, <3>2, LinesAreInScopes DEF LinesIn
    <3> QED
      BY <1>1, <1>6, <3>3, LinesAreInScopes
  <2> QED
    BY <2>2, <2>3
<1>10. ScopesOK(b, o)
  <2> SUFFICES ASSUME NEW c \in Scopes, Current(o, c) PROVE ScopeOK(b, c)
    BY DEF ScopesOK
  <2>1. c = 0
    BY <1>5, <1>9 DEF Current, Scopes
  <2>2. f # 0 /\ f \in Scopes /\ Current(open, f)
    <3>1. open[Len(open)].stmt = f /\ Len(open) \in 1 .. Len(open) /\ f # 0
      BY EnclosingIs DEF Enclosing
    <3> QED
      BY <1>6, <3>1 DEF Current, IsOpen, Scopes
  <2>3. ScopeOK(builder, f)
    BY <1>1, <2>2 DEF ScopesOK
  <2>4. Len(builder.scopes) = 2 /\ builder.scopes \in Seq(Definitions(NewestNode(builder)))
    BY <1>1, <2>2, <2>3 DEF ScopeOK, IsBuilder
  <2>5. Len(b.scopes) = 1 /\ b.scopes[1] = builder.scopes[1]
    BY <1>2, <2>4
  <2> QED
    BY <1>3, <1>4, <2>1, <2>3, <2>5 DEF ScopeOK
<1>11. DefsOK(b)
  BY <1>1, <1>2, <1>4 DEF DefsOK
<1>12. LinkedOK(b)
  <2>1. Grown(builder, b)
    BY <1>2 DEF Grown
  <2>2. \A n \in 1 .. NewestNode(builder) : UsesOK(b, n)
    BY <1>1, <1>2, <1>3, <2>1, OldUses
  <2> QED
    BY <1>3, <2>2 DEF LinkedOK
<1> QED
  BY <1>1, <1>5, <1>7, <1>8, <1>10, <1>11, <1>12 DEF BuildInvOf

-------------------------------------------------------------------------------
(* Every step of the walk keeps the invariant: the visits, *)
LEMMA BuildInvPrimed ==
    ASSUME prog' = prog, BuildInvOf(builder', line', open')
    PROVE  BuildInv'
<1>1. IsProgram(prog)' = IsProgram(prog) /\ FunctionLines' = FunctionLines
  BY DEF IsProgram, FunctionLines, IsChild
<1>2. /\ Scopes' = Scopes /\ \A c : LinesIn(c)' = LinesIn(c) /\ LocalsOf(c)' = LocalsOf(c)
  BY <1>1 DEF Scopes, LinesIn, LocalsOf
<1> QED
  BY <1>1, <1>2 DEF BuildInv, BuildInvOf, NodesOK, OpenOK, FrameOK, FunctionsOpen, ScopesOK, Current, ScopeOK,
       DefsOK, LinkedOK, UsesOK, MayMean, Binds, StatementNode, NodeOp

(* Some scope is current. *)
LEMMA SomeScope ==
    ASSUME BuildInv
    PROVE  builder.scopes # <<>> /\ IsBuilder(builder) /\ IsProgram(prog)
<1>1. ScopesOK(builder, open) /\ IsBuilder(builder) /\ IsProgram(prog)
  BY DEF BuildInv, BuildInvOf, NodesOK
<1>2. \E c \in Scopes : Current(open, c)
  <2>1. CASE \A k \in FunctionLines : ~IsOpen(open, k)
    BY <2>1 DEF Current, Scopes
  <2>2. CASE \E k \in FunctionLines : IsOpen(open, k)
    <3>1. PICK k \in FunctionLines : IsOpen(open, k)
      BY <2>2
    <3>2. k # 0
      BY <1>1, LinesAreInScopes
    <3> QED
      BY <3>1, <3>2 DEF Current, Scopes
  <2> QED
    BY <2>1, <2>2
<1>3. Len(builder.scopes) \in {1, 2}
  BY <1>1, <1>2 DEF ScopesOK, ScopeOK
<1> QED
  BY <1>1, <1>3

(* A statement is added, then only edges: the invariant is kept. *)
LEMMA StatementThenRewired ==
    ASSUME NEW c, NEW op, StatementAdded(builder, c, op, line), NEW d, Rewired(c, d), IsBuilder(builder)
    PROVE  /\ StatementAdded(builder, d, op, line) /\ NewestNode(d) = NewestNode(c)
           /\ UsesLinked(builder, c, line) => UsesLinked(builder, d, line)
<1>1. /\ IsBuilder(d) /\ d.nodes = c.nodes /\ d.scopes = c.scopes /\ d.defs = c.defs /\ Grown(c, d)
  BY DEF Rewired
<1>2. NewestNode(builder) \in Nat /\ NewestNode(c) = NewestNode(builder) + 1
        /\ NewestNode(d) = NewestNode(c)
  <2> DEFINE node == NodeFor(op, line, prog[line].call, prog[line].uses)
  <2>1. builder.nodes \in Seq(NodeType) /\ c.nodes = Append(builder.nodes, node)
    BY DEF IsBuilder, StatementAdded
  <2> HIDE DEF node
  <2>2. Len(builder.nodes) \in Nat /\ Len(c.nodes) = Len(builder.nodes) + 1
    BY <2>1
  <2> QED
    BY <1>1, <2>2 DEF NewestNode
<1>3. Grown(builder, d)
  <2>1. \A x \in 1 .. NewestNode(builder) : x \in 1 .. NewestNode(c)
    BY <1>2
  <2>2. Grown(builder, c)
    BY DEF StatementAdded
  <2> QED
    BY <1>1, <2>1, <2>2 DEF Grown
<1>4. StatementAdded(builder, d, op, line)
  BY <1>1, <1>3 DEF StatementAdded
<1>5. ASSUME UsesLinked(builder, c, line) PROVE UsesLinked(builder, d, line)
  <2>1. \A x \in 1 .. NewestNode(builder) : x \in 1 .. NewestNode(c)
    BY <1>2
  <2>2. "DATA_DEPENDENCY" \in Kinds
    BY DEF Kinds
  <2> QED
    BY <1>1, <1>5, <2>1, <2>2 DEF UsesLinked, HasEdge, Grown
<1> QED
  BY <1>2, <1>4, <1>5

(* Going on with the next line, in the same block or one level deeper. *)
LEMMA OneDeeper ==
    ASSUME NEW b, open' = open \/ Open(b), builder' = b
    PROVE  Opened(builder', open')
<1>1. CASE open' = open
  BY <1>1 DEF Opened
<1>2. CASE Open(b)
  <2> DEFINE f == [stmt |-> line, part |-> "body", node |-> NewestNode(b), split |-> NewestNode(b),
                   exits |-> {}, handled |-> {}]
  <2>1. open' = Append(open, f)
    BY <1>2 DEF Open
  <2>2. IsFrame(f) /\ f.stmt = line /\ f.part \in Parts /\ f.node = NewestNode(b)
          /\ f.split = NewestNode(b)
    BY DEF Parts, IsFrame
  <2> HIDE DEF f
  <2> QED
    BY <2>1, <2>2 DEF Opened
<1> QED
  BY <1>1, <1>2

(* As VisitKeeps, where no block is opened. *)
LEMMA VisitStays ==
    ASSUME BuildInv, line <= BlockEnd, prog[line].op \notin {"def", "phi"},
           StatementAdded(builder, builder', NodeOp(line), line),
           prog[line].op \in Linking => UsesLinked(builder, builder', line),
           GoOn \/ Open(builder')
    PROVE  BuildInv'
<1>1. line' = line + 1 /\ prog' = prog /\ Opened(builder', open')
  BY OneDeeper DEF GoOn, Open
<1>2. BuildInvOf(builder', line + 1, open')
  BY <1>1, VisitKeeps
<1> QED
  BY <1>1, <1>2, BuildInvPrimed

(* VisitSimple *)
LEMMA SimpleStep == BuildInv /\ VisitSimple => BuildInv'
<1> SUFFICES ASSUME BuildInv, VisitSimple PROVE BuildInv'
  OBVIOUS
<1> DEFINE op == prog[line].op
<1>1. /\ line <= BlockEnd /\ op \in {"assign", "annassign", "augassign", "expr", "with"}
      /\ builder' = AddStatement(builder, op, line) /\ GoOn
  BY DEF VisitSimple, Visiting
<1>2. line \in DOMAIN prog /\ op \in NodeKinds /\ NodeOp(line) = op
  BY <1>1, CurrentScope, SomeScope, ProgramIs DEF NodeOp, NodeKinds
<1>3. StatementAdded(builder, builder', op, line) /\ UsesLinked(builder, builder', line)
  BY <1>1, <1>2, SomeScope, AddStatementDoes
<1> QED
  BY <1>1, <1>2, <1>3, VisitStays

(* VisitTerminator *)
LEMMA TerminatorStep == BuildInv /\ VisitTerminator => BuildInv'
<1> SUFFICES ASSUME BuildInv, VisitTerminator PROVE BuildInv'
  OBVIOUS
<1> DEFINE op == prog[line].op
           c == AddStatement(builder, op, line)
<1>1. /\ line <= BlockEnd /\ op \in {"return", "raise"}
      /\ builder' = [c EXCEPT !.prev = {}] /\ GoOn
  BY DEF VisitTerminator, Visiting
<1>2. line \in DOMAIN prog /\ op \in NodeKinds /\ NodeOp(line) = op
  BY <1>1, CurrentScope, SomeScope, ProgramIs DEF NodeOp, NodeKinds
<1>3. StatementAdded(builder, c, op, line)
  BY <1>1, <1>2, SomeScope, AddStatementDoes
<1> HIDE DEF c
<1>4. Rewired(c, builder')
  BY <1>1, <1>3, SetPrevDoes DEF StatementAdded
<1>5. StatementAdded(builder, builder', op, line)
  BY <1>3, <1>4, SomeScope, StatementThenRewired
<1> QED
  BY <1>1, <1>2, <1>5, VisitStays DEF Linking

(* A node without uses or definitions of its own. *)
LEMMA BareStatement ==
    ASSUME BuildInv, line <= BlockEnd, prog[line].op \in {"break", "continue", "try"},
           NEW d, \/ d = EnterNode(builder, prog[line].op, line)
                  \/ Rewired(EnterNode(builder, prog[line].op, line), d)
    PROVE  StatementAdded(builder, d, NodeOp(line), line)
<1> DEFINE op == prog[line].op
           c == EnterNode(builder, op, line)
<1>1. line \in DOMAIN prog /\ op \in NodeKinds /\ NodeOp(line) = op /\ prog[line].def = {}
  BY CurrentScope, SomeScope, ProgramIs DEF NodeOp, NodeKinds
<1>2. Added(builder, c, NodeFor(op, line, prog[line].call, prog[line].uses))
  BY <1>1, SomeScope, EnterNodeDoes
<1> HIDE DEF c
<1>3. StatementAdded(builder, c, op, line)
  BY <1>1, <1>2, SomeScope, AddedIsStatement
<1>4. CASE d = c
  BY <1>1, <1>3, <1>4
<1>5. CASE Rewired(c, d)
  BY <1>1, <1>3, <1>5, SomeScope, StatementThenRewired
<1> QED
  BY <1>4, <1>5 DEF c

(* VisitBreak and VisitContinue *)
LEMMA JumpStep == BuildInv /\ (VisitBreak \/ VisitContinue) => BuildInv'
<1> SUFFICES ASSUME BuildInv, VisitBreak \/ VisitContinue PROVE BuildInv'
  OBVIOUS
<1> DEFINE c == EnterNode(builder, prog[line].op, line)
<1>1. line <= BlockEnd /\ prog[line].op \in {"break", "continue"} /\ GoOn
  BY DEF VisitBreak, VisitContinue, Visiting
<1>2. IsBuilder(c)
  <2>1. line \in DOMAIN prog /\ prog[line].op \in NodeKinds
    BY <1>1, CurrentScope, SomeScope, ProgramIs DEF NodeKinds
  <2> QED
    BY <2>1, SomeScope, EnterNodeDoes DEF Added
<1>3. Rewired(c, builder')
  <2>1. CASE VisitBreak
    <3> DEFINE loop == Len(c.breaks)
               y == IF loop = 0 THEN c.breaks ELSE [c.breaks EXCEPT ![loop] = @ \cup {NewestNode(c)}]
    <3>1. prog[line].op = "break" /\ builder' = [c EXCEPT !.breaks = y, !.prev = {}]
      BY <2>1 DEF VisitBreak, Visiting
    <3> HIDE DEF y, c
    <3> QED
      BY <1>2, <3>1, SetPrevDoes
  <2>2. CASE VisitContinue
    <3>1. builder' = [c EXCEPT !.prev = {}]
      BY <2>2 DEF VisitContinue, Visiting
    <3> QED
      BY <1>2, <3>1, SetPrevDoes
  <2> QED
    BY <2>1, <2>2
<1>4. StatementAdded(builder, builder', NodeOp(line), line)
  BY <1>1, <1>3, BareStatement
<1> QED
  BY <1>1, <1>4, VisitStays DEF Linking

(* VisitIf *)
LEMMA IfStep == BuildInv /\ VisitIf => BuildInv'
<1> SUFFICES ASSUME BuildInv, VisitIf PROVE BuildInv'
  OBVIOUS
<1> DEFINE op == "test"
           c == EnterNode(builder, op, line)
           d == UseVars(c, prog[line].uses, NewestNode(c))
<1>1. line <= BlockEnd /\ prog[line].op = "if" /\ Open(d)
  BY DEF VisitIf, Visiting
<1>2. line \in DOMAIN prog /\ NodeOp(line) = op /\ op \in NodeKinds /\ prog[line].def = {}
  BY <1>1, CurrentScope, SomeScope, ProgramIs DEF NodeOp, NodeKinds
<1> HIDE DEF op
<1>3. /\ Added(builder, c, NodeFor(op, line, prog[line].call, prog[line].uses))
      /\ NewestNode(c) = NewestNode(builder) + 1 /\ NewestNode(builder) \in Nat
  BY <1>2, SomeScope, EnterNodeDoes
<1> HIDE DEF c
<1>4. IsBuilder(c) /\ c.scopes = builder.scopes /\ StatementAdded(builder, c, op, line)
  BY <1>2, <1>3, SomeScope, AddedIsStatement DEF Added
<1>5. /\ Rewired(c, d)
      /\ \A v \in prog[line].uses, x \in 1 .. NewestNode(c) :
            x \in DefinitionsOf(c, v) => HasEdge(d, x, "DATA_DEPENDENCY", NewestNode(c))
  BY <1>3, <1>4, UseVarsDoes
<1> HIDE DEF d
<1>6. StatementAdded(builder, d, op, line)
  BY <1>4, <1>5, SomeScope, StatementThenRewired
<1>7. UsesLinked(builder, d, line)
  <2>1. \A v : DefinitionsOf(c, v) = DefinitionsOf(builder, v)
    BY <1>4 DEF DefinitionsOf
  <2>2. \A x \in 1 .. NewestNode(builder) : x \in 1 .. NewestNode(c)
    BY <1>3
  <2> QED
    BY <1>3, <1>5, <2>1, <2>2 DEF UsesLinked
<1>8. builder' = d
  BY <1>1 DEF Open
<1> QED
  BY <1>1, <1>2, <1>6, <1>7, <1>8, VisitStays

(* VisitLoop *)
LEMMA LoopStep == BuildInv /\ VisitLoop => BuildInv'
<1> SUFFICES ASSUME BuildInv, VisitLoop PROVE BuildInv'
  OBVIOUS
<1> DEFINE op == "loop"
           c == AddStatement(builder, op, line)
           d == [c EXCEPT !.breaks = Append(c.breaks, {})]
<1>1. line <= BlockEnd /\ prog[line].op = "loop" /\ Open(d)
  BY DEF VisitLoop, Visiting
<1>2. line \in DOMAIN prog /\ NodeOp(line) = op /\ op \in NodeKinds
  BY <1>1, CurrentScope DEF NodeOp, NodeKinds
<1> HIDE DEF op
<1>3. StatementAdded(builder, c, op, line) /\ UsesLinked(builder, c, line)
  BY <1>1, <1>2, SomeScope, AddStatementDoes
<1> HIDE DEF c
<1>4. Rewired(c, d)
  BY <1>3, SetPrevDoes DEF StatementAdded
<1> HIDE DEF d
<1>5. StatementAdded(builder, d, op, line) /\ UsesLinked(builder, d, line)
  BY <1>3, <1>4, SomeScope, StatementThenRewired
<1>6. builder' = d
  BY <1>1 DEF Open
<1> QED
  BY <1>1, <1>2, <1>5, <1>6, VisitStays

(* VisitTry *)
LEMMA TryStep == BuildInv /\ VisitTry => BuildInv'
<1> SUFFICES ASSUME BuildInv, VisitTry PROVE BuildInv'
  OBVIOUS
<1> DEFINE c == EnterNode(builder, "try", line)
<1>1. line <= BlockEnd /\ prog[line].op = "try" /\ Open(c)
  BY DEF VisitTry, Visiting
<1>2. builder' = c
  BY <1>1 DEF Open
<1>3. StatementAdded(builder, c, NodeOp(line), line)
  BY <1>1, BareStatement
<1> QED
  BY <1>1, <1>2, <1>3, VisitStays DEF Linking

(* VisitHandler *)
LEMMA HandlerStep == BuildInv /\ VisitHandler => BuildInv'
<1> SUFFICES ASSUME BuildInv, VisitHandler PROVE BuildInv'
  OBVIOUS
<1> DEFINE op == "except"
           node == NodeFor(op, line, prog[line].call, prog[line].uses)
           added == AddNode(builder, node)
           n == NewestNode(added)
           linked == AddEdges(added, {Enclosing.node}, "CFG_EXCEPT", n)
           c == DefineVars(linked, prog[line].def, n)
<1>1. line <= BlockEnd /\ prog[line].op = "except" /\ builder' = [c EXCEPT !.prev = {n}] /\ GoOn
  BY DEF VisitHandler, Visiting
<1>2. line \in DOMAIN prog /\ NodeOp(line) = op /\ op \in NodeKinds /\ op \notin Linking
  BY <1>1, CurrentScope DEF NodeOp, NodeKinds, Linking
<1>20. prog[line].op = op
  BY <1>1
<1> HIDE DEF op
<1>3. node \in NodeType
  BY <1>2, SomeScope, StatementNodes
<1> HIDE DEF node
<1>4. Added(builder, added, node) /\ n = NewestNode(builder) + 1 /\ NewestNode(builder) \in Nat
  BY <1>3, SomeScope, AddNodeDoes
<1>5. IsBuilder(added) /\ n \in 1 .. n /\ "CFG_EXCEPT" \in Kinds
  BY <1>4 DEF Added, Kinds
<1> HIDE DEF added
<1>6. Rewired(added, linked)
  BY <1>5, AddEdgesDoes
<1> HIDE DEF linked
<1>7. Added(builder, linked, node) /\ NewestNode(linked) = n
  BY <1>4, <1>6, SomeScope, RewiredTwice DEF Rewired, NewestNode
<1>8. IsBuilder(linked) /\ linked.scopes # <<>>
  BY <1>7, SomeScope DEF Added
<1>9. Defined(linked, c, prog[line].def, n)
  BY <1>5, <1>7, <1>8, DefineVarsDoes
<1> HIDE DEF c
<1>10. StatementAdded(builder, c, op, line)
  BY <1>2, <1>7, <1>9, SomeScope, AddedIsStatement DEF node
<1>11. Rewired(c, builder')
  BY <1>1, <1>9, SetPrevDoes DEF Defined
<1>12. StatementAdded(builder, builder', op, line)
  BY <1>10, <1>11, SomeScope, StatementThenRewired
<1> QED
  BY <1>1, <1>2, <1>12, <1>20, VisitStays

(* VisitFunctionDef *)
LEMMA FunctionStep == BuildInv /\ VisitFunctionDef => BuildInv'
<1> SUFFICES ASSUME BuildInv, VisitFunctionDef PROVE BuildInv'
  OBVIOUS
<1> DEFINE op == "def"
           c == EnterNode(builder, op, line)
           n == NewestNode(c)
           m == Len(builder.scopes)
           d == [c EXCEPT !.scopes = Append(c.scopes, NoDefs), !.breaks = Append(c.breaks, {})]
           e == DefineVars(d, prog[line].def, n)
           node == NodeFor(op, line, prog[line].call, prog[line].uses)
<1>1. line <= BlockEnd /\ prog[line].op = "def" /\ Open(e)
  BY DEF VisitFunctionDef, Visiting
<1>2. line \in DOMAIN prog /\ op \in NodeKinds
  BY <1>1, CurrentScope DEF NodeKinds
<1> HIDE DEF op
<1>3. Added(builder, c, node) /\ n = NewestNode(builder) + 1 /\ NewestNode(builder) \in Nat
  BY <1>2, SomeScope, EnterNodeDoes
<1> HIDE DEF node, c
<1>4. /\ IsBuilder(c) /\ c.nodes = Append(builder.nodes, node) /\ c.scopes = builder.scopes
      /\ c.defs = builder.defs /\ Grown(builder, c) /\ HasAttributes(c)
  BY <1>3 DEF Added, IsBuilder
<1>5. /\ HasAttributes(d) /\ d.scopes = Append(c.scopes, NoDefs) /\ d.nodes = c.nodes
      /\ d.edges = c.edges /\ d.defs = c.defs
  <2> DEFINE x == Append(c.scopes, NoDefs)
             y == Append(c.breaks, {})
  <2>1. d = [c EXCEPT !.scopes = x, !.breaks = y]
    OBVIOUS
  <2> HIDE DEF x, y, d
  <2>2. /\ HasAttributes(d) /\ d.scopes = x /\ d.nodes = c.nodes /\ d.edges = c.edges
             /\ d.defs = c.defs
    BY ONLY <1>4, <2>1, Zenon DEF HasAttributes
  <2> QED
    BY <2>2 DEF x
<1> HIDE DEF d
<1>6. NoDefs \in Definitions(n) /\ c.scopes \in Seq(Definitions(n)) /\ m \in Nat
  BY <1>4 DEF NoDefs, Definitions, IsBuilder
<1>7. /\ d.scopes \in Seq(Definitions(n)) /\ Len(d.scopes) = m + 1 /\ d.scopes[m + 1] = NoDefs
      /\ \A i \in 1 .. m : d.scopes[i] = builder.scopes[i]
  BY <1>4, <1>5, <1>6
<1>8. NewestNode(d) = n
  BY <1>5 DEF NewestNode
<1>9. IsBuilder(d)
  BY <1>4, <1>5, <1>7, <1>8 DEF IsBuilder
<1>10. d.scopes # <<>> /\ n \in 1 .. NewestNode(d)
  BY <1>3, <1>6, <1>7, <1>8
<1>11. Defined(d, e, prog[line].def, n)
  BY <1>9, <1>10, DefineVarsDoes
<1> HIDE DEF e, n, m
<1>12. /\ IsBuilder(e) /\ e.nodes = Append(builder.nodes, node) /\ Len(e.scopes) = m + 1
       /\ e.scopes[m + 1] = WithDefinition(NoDefs, prog[line].def, n)
       /\ e.defs = WithDefinition(builder.defs, prog[line].def, n)
       /\ \A i \in 1 .. m : e.scopes[i] = builder.scopes[i]
  BY <1>4, <1>5, <1>6, <1>7, <1>11 DEF Defined
<1>13. Grown(builder, e)
  BY <1>4, <1>5, <1>11 DEF Grown, Defined
<1>14. FunctionAdded(e)
  BY <1>3, <1>12, <1>13 DEF FunctionAdded, node, m, op, n
<1>15. builder' = e /\ prog' = prog /\ line' = line + 1
  BY <1>1 DEF Open
<1>16. Opened(builder', open') /\ open' # open
  <2>1. Opened(builder', open')
    BY <1>1, <1>15, OneDeeper
  <2>2. OpenOK(builder, line, open)
    BY DEF BuildInv, BuildInvOf
  <2>3. \A f : Len(Append(open, f)) = Len(open) + 1 /\ Len(open) \in Nat
    BY <2>2, PushIs DEF OpenOK
  <2>4. \E f : open' = Append(open, f)
    BY <1>1 DEF Open
  <2> QED
    BY <2>1, <2>3, <2>4
<1>17. BuildInvOf(builder', line + 1, open')
  BY <1>1, <1>14, <1>15, <1>16, FunctionKeeps
<1> QED
  BY <1>15, <1>17, BuildInvPrimed

-------------------------------------------------------------------------------
(* and what comes after the blocks. *)
(* The end of a block. *)
LEMMA ResumedWith ==
    ASSUME BuildInv, open # <<>>, NEW frame, Resume(frame), IsFrame(frame),
           frame.stmt = Enclosing.stmt, frame.node = Enclosing.node, frame.part \in Parts,
           frame.split \in 1 .. NewestNode(builder), Rewired(builder, builder')
    PROVE  BuildInv'
<1>1. prog' = prog /\ line' = line /\ open' = [open EXCEPT ![Len(open)] = frame]
  BY DEF Resume
<1>2. Resumed(open')
  BY <1>1 DEF Resumed
<1>3. BuildInvOf(builder', line, open')
  BY <1>2, RewiredKeeps
<1> QED
  BY <1>1, <1>3, BuildInvPrimed

(* A statement closed with more edges, *)
LEMMA ClosedWith ==
    ASSUME BuildInv, open # <<>>, prog[Enclosing.stmt].op # "def", Close, Rewired(builder, builder')
    PROVE  BuildInv'
<1>1. prog' = prog /\ line' = line /\ Closed(open')
  BY DEF Close, Closed
<1>2. BuildInvOf(builder', line, open')
  BY <1>1, RewiredKeeps
<1> QED
  BY <1>1, <1>2, BuildInvPrimed

(* The frame of a statement whose next block is visited. *)
NextPart(f, g, part, split) ==
    \E y : \/ g = [f EXCEPT !.part = part, !.exits = y, !.split = split]
           \/ g = [f EXCEPT !.part = part, !.exits = y] /\ split = f.split
           \/ g = [f EXCEPT !.part = part, !.handled = y] /\ split = f.split

(* and one that goes on with its next part. *)
LEMMA NextPartIs ==
    ASSUME NEW f, IsFrame(f), NEW x, NEW z, NEW g, NextPart(f, g, x, z)
    PROVE  IsFrame(g) /\ g.part = x /\ g.split = z /\ g.stmt = f.stmt /\ g.node = f.node
<1>1. PICK y : \/ g = [f EXCEPT !.part = x, !.exits = y, !.split = z]
               \/ g = [f EXCEPT !.part = x, !.exits = y] /\ z = f.split
               \/ g = [f EXCEPT !.part = x, !.handled = y] /\ z = f.split
  BY DEF NextPart
<1>2. CASE g = [f EXCEPT !.part = x, !.exits = y, !.split = z]
  BY <1>2, Zenon DEF IsFrame
<1>3. CASE g = [f EXCEPT !.part = x, !.exits = y] /\ z = f.split
  BY <1>3, Zenon DEF IsFrame
<1>4. CASE g = [f EXCEPT !.part = x, !.handled = y] /\ z = f.split
  BY <1>4, Zenon DEF IsFrame
<1> QED
  BY <1>1, <1>2, <1>3, <1>4

(* A builder rewires to itself. *)
LEMMA SelfRewired ==
    ASSUME NEW b, IsBuilder(b)
    PROVE  Rewired(b, b)
BY DEF Rewired, Grown

(* LinkBranch adds an edge to a node that is there, or none. *)
LEMMA LinkBranchDoes ==
    ASSUME BuildInv, open # <<>>, NEW kind \in Kinds
    PROVE  Rewired(builder, LinkBranch(builder, kind)) /\ IsBuilder(LinkBranch(builder, kind))
<1> DEFINE sources == IF NewestNode(builder) > Enclosing.split THEN {Enclosing.node} ELSE {}
           target == Enclosing.split + 1
<1>1. sources # {} => target \in 1 .. NewestNode(builder)
  <2>1. NewestNode(builder) \in Nat
    BY SomeScope DEF IsBuilder, NewestNode
  <2>2. Enclosing.split \in 1 .. NewestNode(builder)
    BY EnclosingIs DEF FrameOK
  <2> QED
    BY <2>1, <2>2
<1> HIDE DEF sources, target
<1>2. Rewired(builder, AddEdges(builder, sources, kind, target))
  BY <1>1, SomeScope, AddEdgesDoes
<1> QED
  BY <1>2 DEF LinkBranch, sources, target, Rewired

(* AfterThen *)
LEMMA AfterThenStep == BuildInv /\ AfterThen => BuildInv'
<1> SUFFICES ASSUME BuildInv, AfterThen PROVE BuildInv'
  OBVIOUS
<1> DEFINE kind == "CFG_BRANCH_TRUE"
           c == LinkBranch(builder, kind)
           x == "orelse"
           y == builder.prev
           z == NewestNode(builder)
           frame == [Enclosing EXCEPT !.part = x, !.exits = y, !.split = z]
<1>1. /\ open # <<>> /\ builder' = [c EXCEPT !.prev = {Enclosing.node}] /\ Resume(frame)
  BY DEF AfterThen, AfterBlock
<1>2. kind \in Kinds
  BY DEF Kinds
<1> HIDE DEF kind
<1>3. Rewired(builder, c) /\ IsBuilder(c)
  BY <1>1, <1>2, LinkBranchDoes
<1> HIDE DEF c
<1>4. Rewired(builder, builder')
  BY <1>1, <1>3, SetPrevDoes, RewiredTwice
<1>5. FrameOK(builder, line, Enclosing)
  BY <1>1, EnclosingIs
<1> HIDE DEF x, y, z
<1>6. /\ IsFrame(frame) /\ frame.part = x /\ frame.split = z
      /\ frame.stmt = Enclosing.stmt /\ frame.node = Enclosing.node
  <2>1. IsFrame(Enclosing)
    BY <1>5 DEF FrameOK
  <2>2. NextPart(Enclosing, frame, x, z)
    BY Zenon DEF NextPart
  <2> HIDE DEF frame
  <2> QED
    BY <2>1, <2>2, NextPartIs
<1> HIDE DEF frame
<1>7. frame.part \in Parts /\ frame.split \in 1 .. NewestNode(builder)
  <2>1. Enclosing.node \in 1 .. NewestNode(builder) /\ NewestNode(builder) \in Nat
    BY <1>5, SomeScope DEF FrameOK, IsBuilder, NewestNode
  <2> QED
    BY <1>6, <2>1 DEF Parts, x, z
<1> QED
  BY <1>1, <1>4, <1>6, <1>7, ResumedWith

(* AfterLoopBody *)
LEMMA AfterLoopBodyStep == BuildInv /\ AfterLoopBody => BuildInv'
<1> SUFFICES ASSUME BuildInv, AfterLoopBody PROVE BuildInv'
  OBVIOUS
<1> DEFINE kind == "CFG_NEXT"
           c == AddEdges(builder, builder.prev, kind, Enclosing.node)
           y == SubSeq(c.breaks, 1, Len(c.breaks) - 1)
           x == "orelse"
           z == Breaks
           frame == [Enclosing EXCEPT !.part = x, !.exits = z]
<1>1. /\ open # <<>> /\ builder' = [c EXCEPT !.breaks = y, !.prev = {Enclosing.node}] /\ Resume(frame)
  BY DEF AfterLoopBody, AfterBlock
<1>2. kind \in Kinds
  BY DEF Kinds
<1> HIDE DEF kind, y
<1>3. FrameOK(builder, line, Enclosing) /\ IsBuilder(builder)
  BY <1>1, EnclosingIs, SomeScope
<1>4. Rewired(builder, c)
  BY <1>2, <1>3, AddEdgesDoes DEF FrameOK
<1> HIDE DEF c
<1>5. Rewired(builder, builder')
  <2>1. IsBuilder(c)
    BY <1>4 DEF Rewired
  <2>2. Rewired(c, builder')
    BY <1>1, <2>1, SetPrevDoes
  <2> QED
    BY <1>4, <2>2, RewiredTwice
<1> HIDE DEF x, z
<1>6. /\ IsFrame(frame) /\ frame.part = x /\ frame.split = Enclosing.split
      /\ frame.stmt = Enclosing.stmt /\ frame.node = Enclosing.node
  <2>1. IsFrame(Enclosing)
    BY <1>3 DEF FrameOK
  <2>2. NextPart(Enclosing, frame, x, Enclosing.split)
    BY Zenon DEF NextPart
  <2> HIDE DEF frame
  <2> QED
    BY <2>1, <2>2, NextPartIs
<1> HIDE DEF frame
<1>7. frame.part \in Parts /\ frame.split \in 1 .. NewestNode(builder)
  BY <1>3, <1>6 DEF FrameOK, Parts, x
<1> QED
  BY <1>1, <1>5, <1>6, <1>7, ResumedWith

(* AfterLoop and AfterTry *)
LEMMA AfterLoopStep == BuildInv /\ (AfterLoop \/ AfterTry) => BuildInv'
<1> SUFFICES ASSUME BuildInv, AfterLoop \/ AfterTry PROVE BuildInv'
  OBVIOUS
<1>1. /\ open # <<>> /\ prog[Enclosing.stmt].op # "def" /\ Close
      /\ \E x : builder' = [builder EXCEPT !.prev = x]
  BY DEF AfterLoop, AfterTry, AfterBlock
<1>2. Rewired(builder, builder')
  <2>1. PICK x : builder' = [builder EXCEPT !.prev = x]
    BY <1>1
  <2> QED
    BY <2>1, SomeScope, SetPrevDoes
<1> QED
  BY <1>1, <1>2, ClosedWith

(* AfterTryBody, AfterHandlers and AfterTryElse *)
LEMMA AfterTryPartStep == BuildInv /\ (AfterTryBody \/ AfterHandlers \/ AfterTryElse) => BuildInv'
<1> SUFFICES ASSUME BuildInv, AfterTryBody \/ AfterHandlers \/ AfterTryElse PROVE BuildInv'
  OBVIOUS
<1>1. open # <<>>
  BY DEF AfterTryBody, AfterHandlers, AfterTryElse, AfterBlock
<1>2. FrameOK(builder, line, Enclosing) /\ IsFrame(Enclosing) /\ IsBuilder(builder)
  BY <1>1, EnclosingIs, SomeScope DEF FrameOK
<1>3. ASSUME NEW frame, Resume(frame), Rewired(builder, builder'),
             NEW x \in Parts, NextPart(Enclosing, frame, x, Enclosing.split)
      PROVE  BuildInv'
  <2>1. /\ IsFrame(frame) /\ frame.part = x /\ frame.split = Enclosing.split
        /\ frame.stmt = Enclosing.stmt /\ frame.node = Enclosing.node
    BY <1>2, <1>3, NextPartIs
  <2>2. frame.part \in Parts /\ frame.split \in 1 .. NewestNode(builder)
    BY <1>2, <1>3, <2>1 DEF FrameOK
  <2> QED
    BY <1>1, <1>3, <2>1, <2>2, ResumedWith
<1>4. CASE AfterTryBody
  <2> DEFINE frame == [Enclosing EXCEPT !.part = "handlers", !.exits = builder.prev]
  <2>1. Resume(frame) /\ builder' = builder
    BY <1>4 DEF AfterTryBody
  <2>2. Rewired(builder, builder') /\ "handlers" \in Parts
    BY <1>2, <2>1, SelfRewired DEF Parts
  <2>3. NextPart(Enclosing, frame, "handlers", Enclosing.split)
    BY Zenon DEF NextPart
  <2> QED
    BY <1>3, <2>1, <2>2, <2>3
<1>5. CASE AfterHandlers
  <2> DEFINE frame == [Enclosing EXCEPT !.part = "orelse", !.handled = builder.prev]
  <2>1. Resume(frame) /\ builder' = [builder EXCEPT !.prev = Enclosing.exits]
    BY <1>5 DEF AfterHandlers
  <2>2. Rewired(builder, builder') /\ "orelse" \in Parts
    BY <1>2, <2>1, SetPrevDoes DEF Parts
  <2>3. NextPart(Enclosing, frame, "orelse", Enclosing.split)
    BY Zenon DEF NextPart
  <2> QED
    BY <1>3, <2>1, <2>2, <2>3
<1>6. CASE AfterTryElse
  <2> DEFINE exits == Enclosing.exits \cup Enclosing.handled \cup builder.prev
             frame == [Enclosing EXCEPT !.part = "final", !.exits = exits]
  <2>1. Resume(frame) /\ builder' = [builder EXCEPT !.prev = exits]
    BY <1>6 DEF AfterTryElse
  <2>2. Rewired(builder, builder') /\ "final" \in Parts
    BY <1>2, <2>1, SetPrevDoes DEF Parts
  <2>3. NextPart(Enclosing, frame, "final", Enclosing.split)
    BY Zenon DEF NextPart
  <2> QED
    BY <1>3, <2>1, <2>2, <2>3
<1> QED
  BY <1>4, <1>5, <1>6

(* AfterFunction *)
LEMMA AfterFunctionStep == BuildInv /\ AfterFunction => BuildInv'
<1> SUFFICES ASSUME BuildInv, AfterFunction PROVE BuildInv'
  OBVIOUS
<1> DEFINE m == Len(builder.scopes)
           x == SubSeq(builder.scopes, 1, m - 1)
           y == SubSeq(builder.breaks, 1, Len(builder.breaks) - 1)
           z == {Enclosing.node}
           n == NewestNode(builder)
<1>1. /\ open # <<>> /\ line > BlockEnd /\ prog[Enclosing.stmt].op = "def" /\ Enclosing.part = "body"
      /\ Close /\ builder' = [builder EXCEPT !.scopes = x, !.breaks = y, !.prev = z]
  BY DEF AfterFunction, AfterBlock
<1>2. /\ IsBuilder(builder) /\ HasAttributes(builder) /\ builder.scopes # <<>>
      /\ builder.scopes \in Seq(Definitions(n))
  BY SomeScope DEF IsBuilder
<1>3. x \in Seq(Definitions(n))
  <2> DEFINE S == Definitions(n)
  <2>1. builder.scopes \in Seq(S) /\ m \in Nat \ {0}
    BY <1>2
  <2> HIDE DEF S
  <2>2. x \in Seq(S)
    BY <2>1
  <2> QED
    BY <2>2 DEF S
<1> DEFINE b == builder'
<1>4. b = [builder EXCEPT !.scopes = x, !.breaks = y, !.prev = z]
  BY <1>1
<1> HIDE DEF x, y, z, b
<1>5. /\ HasAttributes(b) /\ b.scopes = x /\ b.defs = builder.defs
      /\ b.nodes = builder.nodes /\ b.edges = builder.edges
  BY ONLY <1>2, <1>4, Zenon DEF HasAttributes
<1>6. NewestNode(b) = n
  BY <1>5 DEF NewestNode
<1>7. IsBuilder(b)
  BY <1>2, <1>3, <1>5, <1>6 DEF IsBuilder
<1>8. FunctionLeft(b)
  BY <1>5, <1>7 DEF FunctionLeft, x, m
<1>9. prog' = prog /\ line' = line /\ Closed(open')
  BY <1>1 DEF Close, Closed
<1>10. BuildInvOf(builder', line, open')
  BY <1>1, <1>8, <1>9, FunctionLeftKeeps DEF b
<1> QED
  BY <1>9, <1>10, BuildInvPrimed

(* AddPhi makes a builder with a phi node. *)
LEMMA AddPhiDoes ==
    ASSUME BuildInv, open # <<>>, NEW c, Rewired(builder, c), NEW names, NEW branches, NEW exits
    PROVE  PhiAdded(AddPhi(c, names, branches, exits), names)
<1> DEFINE node == NodeFor("phi", Enclosing.stmt, "none", {})
           added == AddNode(c, node)
           p == NewestNode(added)
           next == "CFG_NEXT"
           flow == AddEdges(added, exits, next, p)
           sources == UNION {c.defs[v] \cap branches : v \in names}
           use == "DATA_DEPENDENCY"
           data == AddEdges(flow, sources, use, p)
           e == DefineVars(data, names, p)
           b == [e EXCEPT !.prev = {p}]
<1>1. b = AddPhi(c, names, branches, exits) /\ next \in Kinds /\ use \in Kinds
  BY DEF AddPhi, Kinds
<1>2. /\ IsBuilder(builder) /\ builder.scopes # <<>>
      /\ IsBuilder(c) /\ c.nodes = builder.nodes /\ c.scopes = builder.scopes
      /\ c.defs = builder.defs /\ Grown(builder, c)
  BY SomeScope DEF Rewired
<1>3. node \in NodeType
  BY EnclosingIs DEF NodeType, NodeFor, NodeKinds
<1> HIDE DEF node, next, use, sources
<1>4. Added(c, added, node) /\ p = NewestNode(c) + 1 /\ NewestNode(c) \in Nat
  BY <1>2, <1>3, AddNodeDoes
<1> HIDE DEF added
<1>5. /\ IsBuilder(added) /\ p \in 1 .. p /\ added.nodes = Append(builder.nodes, node)
      /\ added.scopes = builder.scopes /\ added.defs = builder.defs
      /\ p = NewestNode(builder) + 1 /\ NewestNode(builder) \in Nat
  BY <1>2, <1>4 DEF Added, NewestNode
<1>6. Grown(builder, added)
  <2>1. NewestNode(c) = NewestNode(builder)
    BY <1>2 DEF NewestNode
  <2> QED
    BY <1>2, <1>4, <2>1 DEF Grown, Added
<1>7. Rewired(added, flow)
  BY <1>1, <1>5, AddEdgesDoes
<1>8. IsBuilder(flow) /\ NewestNode(flow) = p
  BY <1>5, <1>7 DEF Rewired, NewestNode
<1> HIDE DEF flow
<1>9. Rewired(flow, data)
  BY <1>1, <1>5, <1>8, AddEdgesDoes
<1>10. Rewired(added, data)
  BY <1>7, <1>9, RewiredTwice
<1> HIDE DEF data
<1>11. /\ IsBuilder(data) /\ data.nodes = Append(builder.nodes, node) /\ data.scopes = builder.scopes
       /\ data.defs = builder.defs /\ Grown(builder, data) /\ NewestNode(data) = p
  <2>1. Grown(added, data) /\ \A d \in 1 .. NewestNode(builder) : d \in 1 .. NewestNode(added)
    BY <1>5, <1>10 DEF Rewired
  <2>2. Grown(builder, data)
    BY <1>6, <2>1 DEF Grown
  <2> QED
    BY <1>5, <1>10, <2>2 DEF Rewired, NewestNode
<1>12. Defined(data, e, names, p)
  BY <1>2, <1>5, <1>11, DefineVarsDoes
<1> HIDE DEF e
<1>13. Rewired(e, b)
  BY <1>12, SetPrevDoes DEF Defined
<1> HIDE DEF b
<1>14. /\ IsBuilder(b) /\ b.nodes = Append(builder.nodes, node) /\ Len(b.scopes) = Len(builder.scopes)
       /\ \A i \in 1 .. Len(builder.scopes) - 1 : b.scopes[i] = builder.scopes[i]
       /\ b.scopes[Len(builder.scopes)] = WithDefinition(builder.scopes[Len(builder.scopes)], names, p)
       /\ b.defs = WithDefinition(builder.defs, names, p)
  BY <1>11, <1>12, <1>13 DEF Defined, Rewired
<1>15. Grown(builder, b)
  <2>1. e.edges = data.edges /\ NewestNode(e) = p /\ Grown(e, b)
    BY <1>11, <1>12, <1>13 DEF Defined, Rewired, NewestNode
  <2>2. \A d \in 1 .. NewestNode(builder) : d \in 1 .. NewestNode(e)
    BY <1>5, <2>1
  <2> QED
    BY <1>11, <2>1, <2>2 DEF Grown
<1>16. PhiAdded(b, names)
  BY <1>5, <1>14, <1>15 DEF PhiAdded, node
<1> QED
  BY <1>1, <1>16

(* AfterIf *)
LEMMA AfterIfStep == BuildInv /\ AfterIf => BuildInv'
<1> SUFFICES ASSUME BuildInv, AfterIf PROVE BuildInv'
  OBVIOUS
<1> DEFINE kind == "CFG_BRANCH_FALSE"
           linked == LinkBranch(builder, kind)
           inTrue == Enclosing.node + 1 .. Enclosing.split
           inFalse == Enclosing.split + 1 .. NewestNode(builder)
           phi == {v \in Vars : linked.defs[v] \cap inTrue # {} /\ linked.defs[v] \cap inFalse # {}}
           exits == Enclosing.exits \cup builder.prev
           joined == AddPhi(linked, phi, inTrue \cup inFalse, exits)
<1>1. /\ open # <<>> /\ prog[Enclosing.stmt].op = "if" /\ Close
      /\ builder' = joined \/ builder' = [linked EXCEPT !.prev = exits]
  BY DEF AfterIf, AfterBlock
<1>2. kind \in Kinds
  BY DEF Kinds
<1> HIDE DEF kind
<1>3. Rewired(builder, linked) /\ IsBuilder(linked)
  BY <1>1, <1>2, LinkBranchDoes
<1> HIDE DEF linked, exits
<1>4. CASE builder' = [linked EXCEPT !.prev = exits]
  <2>1. Rewired(builder, builder')
    BY <1>3, <1>4, SetPrevDoes, RewiredTwice
  <2> QED
    BY <1>1, <2>1, ClosedWith
<1>5. CASE builder' = joined
  <2>1. FrameOK(builder, line, Enclosing)
    BY <1>1, EnclosingIs
  <2>2. ASSUME NEW v \in phi PROVE \E d \in builder.defs[v] : d > Enclosing.node
    <3>1. PICK d \in linked.defs[v] : d \in inTrue
      OBVIOUS
    <3>2. d > Enclosing.node
      BY <2>1, <3>1 DEF FrameOK
    <3> QED
      BY <1>3, <3>1, <3>2 DEF Rewired
  <2> DEFINE branches == inTrue \cup inFalse
  <2>3. phi \in SUBSET Vars
    OBVIOUS
  <2> HIDE DEF phi, branches
  <2>4. PhiAdded(builder', phi)
    BY <1>1, <1>3, <1>5, AddPhiDoes DEF branches
  <2>5. prog' = prog /\ line' = line /\ Closed(open')
    BY <1>1 DEF Close, Closed
  <2>6. BuildInvOf(builder', line, open')
    BY <1>1, <2>2, <2>3, <2>4, <2>5, PhiKeeps
  <2> QED
    BY <2>5, <2>6, BuildInvPrimed
<1> QED
  BY <1>1, <1>4, <1>5

(* All steps of the walk. *)
LEMMA BuildStepKeeps == BuildInv /\ BuildStep => BuildInv'
BY SimpleStep, TerminatorStep, JumpStep, IfStep, LoopStep, TryStep, HandlerStep, FunctionStep,
   AfterThenStep, AfterIfStep, AfterLoopBodyStep, AfterLoopStep, AfterTryPartStep, AfterFunctionStep
   DEF BuildStep

(* An empty builder at the first line. *)
LEMMA BuildStarts == BuildStart => BuildInv
<1> SUFFICES ASSUME BuildStart PROVE BuildInv
  OBVIOUS
<1>1. prog \in Programs /\ line = 1 /\ builder = EmptyBuilder /\ open = <<>>
  BY DEF BuildStart
<1>2. IsProgram(prog) /\ Len(prog) \in Nat \ {0} /\ DOMAIN prog = 1 .. Len(prog)
  <2>1. IsProgram(prog)
    BY <1>1, BuilderAssumption
  <2>2. prog \in Seq(StatementType) /\ prog # <<>>
    BY <2>1 DEF IsProgram
  <2> QED
    BY <2>1, <2>2
<1>3. /\ HasAttributes(builder) /\ builder.nodes = <<>> /\ builder.edges = <<>>
      /\ builder.scopes = <<NoDefs>> /\ builder.defs = NoDefs
  BY <1>1, Zenon DEF EmptyBuilder, HasAttributes
<1>4. NewestNode(builder) = 0
  BY <1>3 DEF NewestNode
<1>5. NoDefs \in Definitions(0) /\ \A v \in Vars : NoDefs[v] = {}
  BY DEF NoDefs, Definitions
<1>6. IsBuilder(builder)
  <2>1. builder.edges \in EdgeLists(0)
    BY <1>3 DEF EdgeLists
  <2>2. builder.scopes \in Seq(Definitions(0))
    BY <1>3, <1>5
  <2> QED
    BY <1>3, <1>4, <1>5, <2>1, <2>2 DEF IsBuilder
<1>7. NodesOK(builder, 1)
  BY <1>4, <1>6 DEF NodesOK
<1>8. OpenOK(builder, 1, <<>>) /\ \A k : ~IsOpen(<<>>, k)
  BY DEF OpenOK, IsStack, IsOpen
<1>9. FunctionsOpen(1, <<>>)
  BY <1>2, LinesAreInScopes DEF FunctionsOpen
<1>10. ScopesOK(builder, <<>>)
  <2> SUFFICES ASSUME NEW c \in Scopes, Current(<<>>, c) PROVE ScopeOK(builder, c)
    BY DEF ScopesOK
  <2>1. c = 0
    BY <1>8 DEF Current
  <2> QED
    BY <1>3, <1>4, <2>1 DEF ScopeOK
<1>11. DefsOK(builder)
  BY <1>3, <1>5 DEF DefsOK
<1>12. LinkedOK(builder)
  BY <1>4 DEF LinkedOK
<1> QED
  BY <1>1, <1>2, <1>7, <1>8, <1>9, <1>10, <1>11, <1>12 DEF BuildInv, BuildInvOf

(* A builder holds a graph. *)
LEMMA BuiltIsCpg ==
    ASSUME BuildInv
    PROVE  IsCpg([nodes |-> builder.nodes, edges |-> builder.edges])
<1> DEFINE g == [nodes |-> builder.nodes, edges |-> builder.edges]
           n == NewestNode(builder)
<1>1. builder.nodes \in Seq(NodeType) /\ builder.edges \in EdgeLists(n) /\ n = Len(builder.nodes)
  BY SomeScope DEF IsBuilder, NewestNode
<1>2. DOMAIN builder.nodes = 1 .. n
  BY <1>1
<1>3. EdgeKinds = Kinds
  BY DEF EdgeKinds, KindOrder, Kinds, Range
<1>4. builder.edges \in [1 .. n -> [Kinds -> Seq(1 .. n)]]
  <2> DEFINE T == [Kinds -> Seq(1 .. n)]
  <2>1. builder.edges \in Seq(T) /\ Len(builder.edges) = n
    BY <1>1 DEF EdgeLists
  <2> HIDE DEF T
  <2>2. builder.edges \in [1 .. n -> T]
    BY <2>1
  <2> QED
    BY <2>2 DEF T
<1>5. g.nodes = builder.nodes /\ g.edges = builder.edges
  OBVIOUS
<1> HIDE DEF g, n
<1> QED
  BY <1>1, <1>2, <1>3, <1>4, <1>5 DEF IsCpg, g

-------------------------------------------------------------------------------
(* The run: the lines that are left to do are lines of one scope. *)
(* The lines of a scope that are left to do. *)
EndOf(c) == IF c = 0 THEN Len(prog) ELSE prog[c].final
Clear(c, m) == IF c = 0 THEN \A k \in FunctionLines : k < m => prog[k].final < m ELSE c < m

BlockOK(first, last, c) ==
    first \in Nat \ {0} /\ last \in Nat /\ last <= EndOf(c) /\ Clear(c, first)
StatementOK(l, c) ==
    l \in DOMAIN prog /\ prog[l].op # "def" /\ l <= EndOf(c) /\ Clear(c, l)

(* A line of a scope that is not a definition is a statement of that scope, and ends in it. *)
LEMMA ScopeEnds ==
    ASSUME IsProgram(prog), NEW c \in Scopes, NEW l \in DOMAIN prog, Clear(c, l), l <= EndOf(c)
    PROVE  /\ EndOf(c) \in Nat /\ EndOf(c) <= Len(prog) /\ prog[l].final <= EndOf(c)
           /\ c # 0 => prog[l].op # "def"
           /\ prog[l].op # "def" => StatementOK(l, c) /\ l \in LinesIn(c)
<1>1. l \in Nat \ {0} /\ prog[l].final \in Nat /\ l <= prog[l].final /\ prog[l].final <= Len(prog)
      /\ Len(prog) \in Nat
  BY ProgramIs, SMTT(30)
<1>2. CASE c = 0
  <2>1. EndOf(c) = Len(prog)
    BY <1>2 DEF EndOf
  <2>2. ASSUME prog[l].op # "def" PROVE l \in LinesIn(0)
    <3>1. ASSUME NEW k \in FunctionLines, l \in k .. prog[k].final PROVE FALSE
      <4>1. k \in Nat /\ prog[k].final \in Nat /\ prog[k].op = "def"
        BY LinesAreInScopes DEF FunctionLines
      <4>2. k # l
        BY <2>2, <4>1
      <4>3. k < l => prog[k].final < l
        BY <1>2 DEF Clear
      <4> QED
        BY <1>1, <3>1, <4>1, <4>2, <4>3
    <3> QED
      BY <3>1 DEF LinesIn
  <2> QED
    BY <1>1, <1>2, <2>1, <2>2 DEF StatementOK
<1>3. CASE c # 0
  <2>1. c \in FunctionLines /\ c \in DOMAIN prog /\ c \in Nat /\ prog[c].final \in Nat
          /\ prog[c].op = "def"
        /\ prog[c].final <= Len(prog)
    BY <1>3, LinesAreInScopes, ProgramIs DEF Scopes, FunctionLines
  <2>2. EndOf(c) = prog[c].final /\ c < l
    BY <1>3 DEF EndOf, Clear
  <2>3. l \in c + 1 .. prog[c].final
    BY <1>1, <2>1, <2>2
  <2>4. prog[l].final <= prog[c].final /\ prog[l].op # "def"
    BY <2>1, <2>3, NestedEnds, ProgramIs
  <2>5. l \in LinesIn(c)
    BY <1>1, <1>3, <2>1, <2>2 DEF LinesIn
  <2> QED
    BY <1>3, <2>1, <2>2, <2>4, <2>5 DEF StatementOK
<1> QED
  BY <1>2, <1>3

(* After a statement or a block of it, and past a number of its lines. *)
LEMMA ClearAfter ==
    ASSUME IsProgram(prog), NEW c \in Scopes, NEW l \in DOMAIN prog, Clear(c, l),
           NEW m \in Nat, l <= m, prog[l].op # "def" \/ prog[l].final <= m,
           \A k \in FunctionLines : l < k /\ k <= m => prog[k].final <= m
    PROVE  Clear(c, m + 1)
<1>1. l \in Nat \ {0} /\ prog[l].final \in Nat
  BY ProgramIs
<1>2. CASE c = 0
  <2>1. ASSUME NEW k \in FunctionLines, k < m + 1 PROVE prog[k].final < m + 1
    <3>1. k \in Nat /\ prog[k].final \in Nat /\ prog[k].op = "def"
      BY LinesAreInScopes DEF FunctionLines
    <3>2. CASE k < l
      BY <1>1, <1>2, <3>1, <3>2 DEF Clear
    <3>3. CASE k = l
      BY <1>1, <3>1, <3>3
    <3>4. CASE l < k
      BY <1>1, <2>1, <3>1, <3>4
    <3> QED
      BY <1>1, <3>1, <3>2, <3>3, <3>4
  <2> QED
    BY <1>2, <2>1 DEF Clear
<1>3. CASE c # 0
  <2>1. c \in Nat
    BY <1>3, LinesAreInScopes DEF Scopes
  <2> QED
    BY <1>1, <1>3, <2>1 DEF Clear
<1> QED
  BY <1>2, <1>3

(* A function in a block of a statement ends in that block. *)
LEMMA NestedFunctions ==
    ASSUME IsProgram(prog), NEW l \in DOMAIN prog
    PROVE  /\ \A k \in FunctionLines : l < k /\ k <= prog[l].body => prog[k].final <= prog[l].body
           /\ \A k \in FunctionLines : l < k /\ k <= prog[l].handlers
                => prog[k].final <= prog[l].handlers
           /\ \A k \in FunctionLines : l < k /\ k <= prog[l].orelse => prog[k].final <= prog[l].orelse
           /\ \A k \in FunctionLines : l < k /\ k <= prog[l].final => prog[k].final <= prog[l].final
<1>1. /\ l \in Nat /\ prog[l].final \in Nat /\ prog[l].body \in Nat /\ prog[l].handlers \in Nat
           /\ prog[l].orelse \in Nat
      /\ prog[l].body <= prog[l].handlers /\ prog[l].handlers <= prog[l].orelse
           /\ prog[l].orelse <= prog[l].final
  BY ProgramIs
<1>2. ASSUME NEW k \in FunctionLines, l < k, k <= prog[l].final
      PROVE  k \in Nat /\ k \in l + 1 .. prog[l].final
  <2>1. k \in Nat
    BY LinesAreInScopes
  <2> QED
    BY <1>1, <1>2, <2>1
<1>3. \A k \in FunctionLines : k \in Nat
  BY LinesAreInScopes
<1>4. ASSUME NEW k \in FunctionLines, l < k, k <= prog[l].final
      PROVE  /\ prog[k].final <= prog[l].final
             /\ k <= prog[l].body => prog[k].final <= prog[l].body
             /\ k <= prog[l].handlers => prog[k].final <= prog[l].handlers
             /\ k <= prog[l].orelse => prog[k].final <= prog[l].orelse
  BY <1>2, <1>4, NestedEnds
<1> QED
  BY <1>1, <1>3, <1>4

(* What follows a statement in a block is a block, *)
LEMMA AfterStatement ==
    ASSUME IsProgram(prog), NEW c \in Scopes, NEW first, NEW last, BlockOK(first, last, c), first <= last
    PROVE  /\ first \in DOMAIN prog /\ Clear(c, first) /\ first <= EndOf(c)
           /\ BlockOK(prog[first].final + 1, last, c)
<1>1. first \in Nat \ {0} /\ last \in Nat /\ last <= EndOf(c) /\ Clear(c, first)
  BY DEF BlockOK
<1>2. EndOf(c) \in Nat /\ EndOf(c) <= Len(prog) /\ Len(prog) \in Nat /\ DOMAIN prog = 1 .. Len(prog)
  <2>1. prog \in Seq(StatementType)
    BY DEF IsProgram
  <2>2. Len(prog) \in Nat /\ DOMAIN prog = 1 .. Len(prog)
    BY <2>1
  <2>3. CASE c = 0
    BY <2>2, <2>3 DEF EndOf
  <2>4. CASE c # 0
    BY <2>2, <2>4, LinesAreInScopes, ProgramIs DEF EndOf, Scopes
  <2> QED
    BY <2>2, <2>3, <2>4
<1>3. first \in DOMAIN prog /\ first <= EndOf(c)
  BY <1>1, <1>2
<1>4. prog[first].final \in Nat /\ first <= prog[first].final
  BY <1>3, ProgramIs, SMTT(30)
<1>5. Clear(c, prog[first].final + 1)
  BY <1>1, <1>3, <1>4, ClearAfter, NestedFunctions
<1> QED
  BY <1>1, <1>3, <1>4, <1>5 DEF BlockOK

(* and so are the blocks of a statement, its handlers among them. *)
LEMMA Children ==
    ASSUME IsProgram(prog), NEW c \in Scopes, NEW l, StatementOK(l, c)
    PROVE  /\ BlockOK(l + 1, prog[l].body, c)
           /\ BlockOK(prog[l].handlers + 1, prog[l].orelse, c)
           /\ BlockOK(prog[l].orelse + 1, prog[l].final, c)
           /\ \A h \in HandlersOf(l) : StatementOK(h, c)
<1>1. l \in DOMAIN prog /\ prog[l].op # "def" /\ l <= EndOf(c) /\ Clear(c, l)
  BY DEF StatementOK
<1>2. /\ l \in Nat \ {0} /\ prog[l].final \in Nat /\ prog[l].body \in Nat /\ prog[l].handlers \in Nat
      /\ prog[l].orelse \in Nat /\ l <= prog[l].body
      /\ prog[l].body <= prog[l].handlers /\ prog[l].handlers <= prog[l].orelse
           /\ prog[l].orelse <= prog[l].final
  BY <1>1, ProgramIs
<1>3. EndOf(c) \in Nat /\ prog[l].final <= EndOf(c)
  BY <1>1, ScopeEnds
<1>4. \A k \in FunctionLines : k \in Nat
  BY LinesAreInScopes
<1>5. BlockOK(l + 1, prog[l].body, c)
  <2>1. Clear(c, l + 1)
    BY <1>1, <1>2, <1>4, ClearAfter
  <2> QED
    BY <1>2, <1>3, <2>1 DEF BlockOK
<1>6. BlockOK(prog[l].handlers + 1, prog[l].orelse, c)
  <2>1. Clear(c, prog[l].handlers + 1)
    BY <1>1, <1>2, ClearAfter, NestedFunctions
  <2> QED
    BY <1>2, <1>3, <2>1 DEF BlockOK
<1>7. BlockOK(prog[l].orelse + 1, prog[l].final, c)
  <2>1. Clear(c, prog[l].orelse + 1)
    BY <1>1, <1>2, ClearAfter, NestedFunctions
  <2> QED
    BY <1>2, <1>3, <2>1 DEF BlockOK
<1>8. ASSUME NEW h \in HandlersOf(l) PROVE StatementOK(h, c)
  <2>1. /\ h \in prog[l].body + 1 .. prog[l].handlers /\ h \in l + 1 .. prog[l].final
        /\ \A k \in l + 1 .. h - 1 : prog[k].final < h
        /\ IsChild(prog, l, h)
    BY <1>2 DEF HandlersOf, IsChild
  <2>2. h \in DOMAIN prog /\ prog[h].op = "except"
    <3>1. prog[l].body < h /\ h <= prog[l].handlers
      BY <1>2, <2>1
    <3>2. h \in DOMAIN prog
      BY <1>1, <2>1, NestedEnds
    <3> QED
      BY <1>1, <2>1, <3>1, <3>2 DEF IsProgram
  <2>3. h - 1 \in Nat /\ l <= h - 1 /\ h = (h - 1) + 1 /\ h \in Nat
    BY <1>2, <2>1
  <2>4. \A k \in FunctionLines : l < k /\ k <= h - 1 => prog[k].final <= h - 1
    <3>1. ASSUME NEW k \in FunctionLines, l < k, k <= h - 1 PROVE prog[k].final <= h - 1
      <4>1. k \in l + 1 .. h - 1 /\ prog[k].final \in Nat
        BY <1>2, <1>4, <2>3, <3>1, LinesAreInScopes
      <4> QED
        BY <2>1, <2>3, <4>1
    <3> QED
      BY <3>1
  <2>5. Clear(c, (h - 1) + 1)
    BY <1>1, <2>3, <2>4, ClearAfter
  <2>6. h <= EndOf(c)
    BY <1>2, <1>3, <2>1
  <2> QED
    BY <2>2, <2>3, <2>5, <2>6 DEF StatementOK
<1> QED
  BY <1>5, <1>6, <1>7, <1>8

-------------------------------------------------------------------------------
(* The values of the variables and the stack of what is left to do. *)
(* A source has come to a node along a path of the graph, *)
ComesTo(o, n) ==
    \E q \in Seq(Nodes) : IsTaintPath(q) /\ q[1] = o /\ q[Len(q)] = n
(* and so has what is in a variable to its assignment, unless it took a detour. *)
ValueOK(c, v, value) ==
    /\ value.def \in Nat
    /\ \A o \in value.from : o.detours = {} =>
          \E d \in Nodes :
             d <= value.def /\ Binds(cpg, c, v, d) /\ ~IsSink(d) /\ ComesTo(o.source, d)

LocalNames(c) == IF c = 0 THEN {} ELSE LocalsOf(c)
LocalOK(c, values) ==
    DOMAIN values = LocalNames(c) /\ \A v \in LocalNames(c) : ValueOK(c, v, values[v])
EnvOK(values) == DOMAIN values = Vars /\ \A v \in Vars : ValueOK(0, v, values[v])

(* A call, from a statement of the scope it returns to. *)
CallOK(f, c) ==
    /\ f.scope = c /\ LocalOK(c, f.saved)
    /\ f.stmt \in DOMAIN prog /\ f.stmt \in LinesIn(c)
    /\ \A v \in prog[f.stmt].def : ValueOK(c, v, [def |-> NodeOf(f.stmt), from |-> f.own])

(* What is left to do: a frame belongs to the scope that the frames on it leave. *)
RunFrameOK(f, c) ==
    /\ f.kind = "block" => BlockOK(f.first, f.last, c)
    /\ f.kind \in {"loop", "try"} => StatementOK(f.stmt, c)
Entered(f, c, d) ==
    IF f.kind = "call" THEN CallOK(f, c) ELSE c = d /\ RunFrameOK(f, d)
ScopedBy(s, scopes) == \A i \in 1 .. Len(s) : Entered(s[i], scopes[i], scopes[i + 1])
StackOK(s, c) ==
    /\ IsStack(s)
    /\ \E scopes \in [1 .. Len(s) + 1 -> Scopes] : scopes[Len(s) + 1] = c /\ ScopedBy(s, scopes)

(* A frame that fits its scope is pushed, *)
LEMMA PushKeeps ==
    ASSUME NEW s, NEW c, StackOK(s, c), NEW f, NEW d \in Scopes, Entered(f, c, d)
    PROVE  StackOK(Append(s, f), d)
<1> DEFINE n == Len(s)
           t == Append(s, f)
<1>1. PICK scopes \in [1 .. n + 1 -> Scopes] : scopes[n + 1] = c /\ ScopedBy(s, scopes)
  BY DEF StackOK
<1>2. IsStack(t) /\ Len(t) = n + 1 /\ n \in Nat /\ t[n + 1] = f /\ \A i \in 1 .. n : t[i] = s[i]
  BY PushIs DEF StackOK
<1> DEFINE more == [i \in 1 .. (n + 1) + 1 |-> IF i = n + 2 THEN d ELSE scopes[i]]
<1>3. /\ more \in [1 .. (n + 1) + 1 -> Scopes] /\ more[(n + 1) + 1] = d
      /\ \A i \in 1 .. n + 1 : more[i] = scopes[i]
  BY <1>1, <1>2
<1> HIDE DEF more, t
<1>4. ASSUME NEW i \in 1 .. n + 1 PROVE Entered(t[i], more[i], more[i + 1])
  <2>1. CASE i = n + 1
    BY <1>1, <1>2, <1>3, <2>1
  <2>2. CASE i # n + 1
    <3>1. i \in 1 .. n /\ i \in 1 .. n + 1 /\ i + 1 \in 1 .. n + 1
      BY <1>2, <2>2
    <3>2. Entered(s[i], scopes[i], scopes[i + 1])
      BY <1>1, <3>1 DEF ScopedBy
    <3> QED
      BY <1>2, <1>3, <3>1, <3>2
  <2> QED
    BY <2>1, <2>2
<1>5. ScopedBy(t, more)
  BY <1>2, <1>4 DEF ScopedBy
<1> QED
  BY <1>2, <1>3, <1>5 DEF StackOK, t

(* and popped, to the scope it was entered from. *)
LEMMA PopKeeps ==
    ASSUME NEW s, NEW c, StackOK(s, c), s # <<>>
    PROVE  \E d \in Scopes : Entered(s[Len(s)], d, c) /\ StackOK(SubSeq(s, 1, Len(s) - 1), d)
<1> DEFINE n == Len(s)
           p == SubSeq(s, 1, n - 1)
<1>1. PICK scopes \in [1 .. n + 1 -> Scopes] : scopes[n + 1] = c /\ ScopedBy(s, scopes)
  BY DEF StackOK
<1>2. IsStack(p) /\ Len(p) = n - 1 /\ n \in Nat \ {0} /\ \A i \in 1 .. n - 1 : p[i] = s[i]
  BY PopIs DEF StackOK
<1> DEFINE fewer == [i \in 1 .. (n - 1) + 1 |-> scopes[i]]
<1>3. /\ fewer \in [1 .. (n - 1) + 1 -> Scopes] /\ fewer[(n - 1) + 1] = scopes[n]
      /\ scopes[n] \in Scopes
      /\ \A i \in 1 .. n : fewer[i] = scopes[i]
  BY <1>1, <1>2
<1>4. Entered(s[n], scopes[n], c)
  BY <1>1, <1>2 DEF ScopedBy
<1> HIDE DEF fewer, p
<1>5. ASSUME NEW i \in 1 .. n - 1 PROVE Entered(p[i], fewer[i], fewer[i + 1])
  <2>1. i \in 1 .. n /\ i + 1 \in 1 .. n
    BY <1>2
  <2>2. Entered(s[i], scopes[i], scopes[i + 1])
    BY <1>1, <2>1 DEF ScopedBy
  <2> QED
    BY <1>2, <1>3, <2>1, <2>2
<1>6. ScopedBy(p, fewer)
  BY <1>2, <1>5 DEF ScopedBy
<1>7. StackOK(p, scopes[n])
  BY <1>2, <1>3, <1>6 DEF StackOK
<1> QED
  BY <1>3, <1>4, <1>7 DEF p

(* Nothing is left to do in the module. *)
LEMMA EmptyStack == StackOK(<<>>, 0)
<1> DEFINE s == <<>>
           scopes == [i \in 1 .. 1 |-> 0]
<1>1. IsStack(s) /\ Len(s) = 0
  BY DEF IsStack
<1>2. scopes \in [1 .. 0 + 1 -> Scopes] /\ scopes[0 + 1] = 0
  BY DEF Scopes
<1> HIDE DEF s, scopes
<1>3. ScopedBy(s, scopes)
  BY <1>1 DEF ScopedBy
<1>4. StackOK(s, 0)
  BY <1>1, <1>2, <1>3 DEF StackOK
<1> QED
  BY <1>4 DEF s

(* A few frames on a stack are pushed one after the other. *)
LEMMA ConcatIs ==
    ASSUME NEW s, IsStack(s), NEW x, NEW y
    PROVE  /\ s \o <<>> = s /\ s \o <<x>> = Append(s, x)
           /\ s \o <<x, y>> = Append(Append(s, x), y)
<1> DEFINE S == Range(s)
           T == S \cup {x, y}
<1>1. s \in Seq(S)
  BY DEF IsStack
<1> HIDE DEF S
<1>2. s \in Seq(T) /\ x \in T /\ y \in T
  BY <1>1
<1> HIDE DEF T
<1>3. s \o <<>> = s
  BY <1>2
<1>4. s \o <<x>> = Append(s, x)
  BY <1>2
<1>5. s \o <<x, y>> = Append(Append(s, x), y)
  BY <1>2
<1> QED
  BY <1>3, <1>4, <1>5

(* No frame, one or two on the others. *)
LEMMA PushesKeep ==
    ASSUME NEW s, NEW c, StackOK(s, c), c \in Scopes, NEW x, NEW y
    PROVE  /\ StackOK(s \o <<>>, c)
           /\ Entered(x, c, c) => StackOK(s \o <<x>>, c)
           /\ \A d \in Scopes : Entered(x, c, d) /\ Entered(y, d, d) => StackOK(s \o <<x, y>>, d)
<1>1. IsStack(s)
  BY DEF StackOK
<1>2. s \o <<>> = s /\ s \o <<x>> = Append(s, x) /\ s \o <<x, y>> = Append(Append(s, x), y)
  BY <1>1, ConcatIs
<1>3. Entered(x, c, c) => StackOK(Append(s, x), c)
  BY PushKeeps
<1>4. ASSUME NEW d \in Scopes, Entered(x, c, d), Entered(y, d, d)
      PROVE StackOK(Append(Append(s, x), y), d)
  <2>1. StackOK(Append(s, x), d)
    BY <1>4, PushKeeps
  <2> QED
    BY <1>4, <2>1, PushKeeps
<1> QED
  BY <1>2, <1>3, <1>4

(* The graph that is searched is the one that was built. *)
GraphBuilt ==
    BuildInv /\ SearchInv /\ Built /\ cpg = [nodes |-> builder.nodes, edges |-> builder.edges]

(* The graph is that of the finished builder. *)
LEMMA GraphIs ==
    ASSUME GraphBuilt
    PROVE  /\ IsProgram(prog) /\ IsCpg(cpg) /\ cpg.nodes = builder.nodes /\ cpg.edges = builder.edges
           /\ Nodes = 1 .. NewestNode(builder) /\ NewestNode(builder) \in Nat /\ line = Len(prog) + 1
           /\ DOMAIN prog = 1 .. Len(prog) /\ Len(prog) \in Nat
<1>1. IsProgram(prog) /\ IsCpg(cpg) /\ line \in 1 .. Len(prog) + 1 /\ line > Len(prog)
  BY DEF GraphBuilt, BuildInv, BuildInvOf, SearchInv, SearchTypeOK, Built
<1>2. cpg.nodes = builder.nodes /\ cpg.edges = builder.edges
  BY DEF GraphBuilt
<1>3. builder.nodes \in Seq(NodeType)
  BY SomeScope DEF GraphBuilt, IsBuilder
<1>4. Nodes = 1 .. NewestNode(builder) /\ NewestNode(builder) \in Nat
  BY <1>2, <1>3 DEF Nodes, NewestNode
<1>5. prog \in Seq(StatementType)
  BY <1>1 DEF IsProgram
<1>6. DOMAIN prog = 1 .. Len(prog) /\ Len(prog) \in Nat
  BY <1>5
<1> QED
  BY <1>1, <1>2, <1>4, <1>6

(* Every statement has its node. *)
LEMMA NodeIs ==
    ASSUME GraphBuilt, NEW l \in DOMAIN prog
    PROVE  /\ NodeOf(l) \in Nodes /\ NodeOf(l) \in Nat /\ IsReal(cpg, NodeOf(l))
           /\ LineAt(cpg, NodeOf(l)) = l /\ OpOf(NodeOf(l)) = NodeOp(l)
<1>1. NodesOK(builder, line)
  BY DEF GraphBuilt, BuildInv, BuildInvOf
<1>2. l \in 1 .. line - 1
  BY GraphIs
<1>3. \E d \in Nodes : cpg.nodes[d].line = l /\ OpOf(d) # "phi"
  <2>1. PICK d \in 1 .. NewestNode(builder) : IsReal(builder, d) /\ LineAt(builder, d) = l
    BY <1>1, <1>2 DEF NodesOK
  <2> QED
    BY <2>1, GraphIs DEF IsReal, LineAt, OpOf
<1>4. NodeOf(l) \in Nodes /\ cpg.nodes[NodeOf(l)].line = l /\ OpOf(NodeOf(l)) # "phi"
  BY <1>3 DEF NodeOf
<1>5. builder.nodes[NodeOf(l)] = StatementNode(l)
  BY <1>1, <1>4, GraphIs DEF NodesOK, IsReal, LineAt, OpOf
<1>6. OpOf(NodeOf(l)) = NodeOp(l)
  BY <1>5, GraphIs DEF OpOf, StatementNode, NodeFor
<1> QED
  BY <1>4, <1>6, GraphIs DEF IsReal, LineAt, OpOf

(* A definition that a use may mean propagates to it. *)
LEMMA UsesPropagate ==
    ASSUME GraphBuilt, NEW c \in Scopes, NEW l \in DOMAIN prog, l \in LinesIn(c),
           prog[l].op \in Linking, NEW v \in prog[l].uses,
           NEW d \in Nodes, d < NodeOf(l), MayMean(cpg, c, v, d)
    PROVE  NodeOf(l) \in Successors(d)
<1> DEFINE n == NodeOf(l)
<1>1. n \in Nodes /\ IsReal(cpg, n) /\ LineAt(cpg, n) = l
  BY NodeIs
<1>2. \A m : IsReal(builder, m) = IsReal(cpg, m) /\ LineAt(builder, m) = LineAt(cpg, m)
  BY GraphIs DEF IsReal, LineAt
<1>3. MayMean(builder, c, v, d)
  BY <1>2 DEF MayMean, Binds
<1>4. UsesOK(builder, n)
  BY <1>1, GraphIs DEF GraphBuilt, BuildInv, BuildInvOf, LinkedOK
<1> HIDE DEF n
<1>5. d \in 1 .. n - 1
  BY <1>1, GraphIs DEF n
<1>6. n \in Range(cpg.edges[d]["DATA_DEPENDENCY"])
  BY <1>1, <1>2, <1>3, <1>4, <1>5, GraphIs DEF UsesOK, HasEdge
<1>7. Propagates(d, "DATA_DEPENDENCY", n)
  BY DEF Propagates
<1>8. "DATA_DEPENDENCY" \in EdgeKinds
  BY KindsAre DEF KindOrder
<1> QED
  BY <1>6, <1>7, <1>8 DEF Successors, PropagatedAlong, n

(* A value comes from its source and goes along edges that propagate it. *)
LEMMA ComesFurther ==
    ASSUME IsCpg(cpg)
    PROVE  /\ \A n \in Nodes : IsSource(n) => ComesTo(n, n)
           /\ \A o, d, n : ComesTo(o, d) /\ ~IsSink(d) /\ n \in Nodes /\ n \in Successors(d)
                => ComesTo(o, n)
<1>1. ASSUME NEW n \in Nodes, IsSource(n) PROVE ComesTo(n, n)
  <2> DEFINE q == <<n>>
  <2>1. q \in Seq(Nodes) /\ q[1] = n /\ Len(q) = 1 /\ q # <<>>
    OBVIOUS
  <2> HIDE DEF q
  <2>2. IsTaintPath(q)
    BY <1>1, <2>1 DEF IsTaintPath
  <2> QED
    BY <2>1, <2>2 DEF ComesTo
<1>2. ASSUME NEW o, NEW d, ComesTo(o, d), ~IsSink(d), NEW n \in Nodes, n \in Successors(d)
      PROVE ComesTo(o, n)
  <2>1. PICK q \in Seq(Nodes) : IsTaintPath(q) /\ q[1] = o /\ q[Len(q)] = d
    BY <1>2 DEF ComesTo
  <2> DEFINE k == Len(q)
             r == Append(q, n)
  <2>2. k \in Nat \ {0}
    BY <2>1 DEF IsTaintPath
  <2>3. r \in Seq(Nodes) /\ Len(r) = k + 1 /\ r[k + 1] = n /\ \A i \in 1 .. k : r[i] = q[i]
    BY <2>1
  <2> HIDE DEF r, k
  <2>4. r # <<>> /\ r[1] = o /\ r[Len(r)] = n
    BY <2>1, <2>2, <2>3
  <2>5. \A i \in 1 .. k - 1 : q[i + 1] \in Successors(q[i]) /\ ~IsSink(q[i])
    BY <2>1 DEF IsTaintPath, k
  <2>6. ASSUME NEW i \in 1 .. (k + 1) - 1 PROVE r[i + 1] \in Successors(r[i]) /\ ~IsSink(r[i])
    <3>1. CASE i = k
      BY <1>2, <2>1, <2>2, <2>3, <3>1 DEF k
    <3>2. CASE i # k
      <4>1. i \in 1 .. k - 1 /\ i \in 1 .. k /\ i + 1 \in 1 .. k
        BY <2>2, <3>2
      <4> QED
        BY <2>3, <2>5, <4>1
    <3> QED
      BY <3>1, <3>2
  <2>7. IsSource(r[1])
    BY <2>1, <2>4 DEF IsTaintPath
  <2>8. IsTaintPath(r)
    BY <2>3, <2>4, <2>6, <2>7 DEF IsTaintPath
  <2> QED
    BY <2>3, <2>4, <2>8 DEF ComesTo
<1> QED
  BY <1>1, <1>2

(* The values of the names that are visible in the scope. *)
LEMMA ReadIs ==
    ASSUME GraphBuilt, scope \in Scopes, LocalOK(scope, local), EnvOK(env), NEW v \in Vars
    PROVE  /\ Read(v).def \in Nat
           /\ \A o \in Read(v).from : o.detours = {} =>
                 \E d \in Nodes : /\ d <= Read(v).def /\ MayMean(cpg, scope, v, d)
                                  /\ ~IsSink(d) /\ ComesTo(o.source, d)
           /\ scope = 0 \/ v \in LocalNames(scope) => ValueOK(scope, v, Read(v))
<1>1. CASE v \in LocalNames(scope)
  <2>1. Read(v) = local[v] /\ ValueOK(scope, v, local[v])
    BY <1>1 DEF Read, LocalOK
  <2> QED
    BY <1>1, <2>1 DEF ValueOK, MayMean
<1>2. CASE v \notin LocalNames(scope)
  <2>1. Read(v) = env[v] /\ ValueOK(0, v, env[v])
    BY <1>2 DEF Read, LocalOK, EnvOK
  <2>2. scope = 0 \/ v \notin LocalsOf(scope)
    BY <1>2 DEF LocalNames
  <2> QED
    BY <1>2, <2>1, <2>2 DEF ValueOK, MayMean
<1> QED
  BY <1>1, <1>2

(* What took a detour is marked. *)
LEMMA ViaIs ==
    ASSUME NEW detour, NEW origins, NEW o \in Via(detour, origins)
    PROVE  o.detours # {}
<1>1. PICK x \in origins : o = [source |-> x.source, detours |-> x.detours \cup {detour}]
  BY DEF Via
<1>2. o.detours = x.detours \cup {detour}
  BY <1>1
<1> QED
  BY <1>2

(* What is read without a detour is the value of a variable assigned above. *)
LEMMA OriginIs ==
    ASSUME NEW names, NEW n, NEW o \in Origins(names, n), o.detours = {}
    PROVE  \E v \in names : Read(v).def < n /\ o \in Read(v).from
<1> DEFINE got(v) == IF Read(v).def < n THEN Read(v).from ELSE Via("back", Read(v).from)
<1>1. o \in UNION {got(v) : v \in names}
  BY DEF Origins
<1> HIDE DEF got
<1>2. PICK v \in names : o \in got(v)
  BY <1>1
<1>3. CASE Read(v).def < n
  BY <1>2, <1>3 DEF got
<1>4. CASE ~(Read(v).def < n)
  <2>1. o \in Via("back", Read(v).from)
    BY <1>2, <1>4 DEF got
  <2> QED
    BY <2>1, ViaIs
<1> QED
  BY <1>3, <1>4

(* What a statement uses has come to its node. *)
LEMMA UsesCome ==
    ASSUME GraphBuilt, scope \in Scopes, LocalOK(scope, local), EnvOK(env),
           NEW l \in DOMAIN prog, l \in LinesIn(scope), prog[l].op \in Linking,
           NEW v \in prog[l].uses, Read(v).def < NodeOf(l), NEW o \in Read(v).from,
           o.detours = {}
    PROVE  ComesTo(o.source, NodeOf(l))
<1> DEFINE n == NodeOf(l)
<1>1. IsCpg(cpg) /\ IsProgram(prog) /\ Nodes \subseteq Nat
  BY GraphIs
<1>2. n \in Nodes /\ n \in Nat
  BY NodeIs
<1>3. v \in Vars
  BY <1>1, ProgramIs
<1>4. Read(v).def \in Nat
  BY <1>3, ReadIs
<1>5. PICK d \in Nodes : /\ d <= Read(v).def /\ MayMean(cpg, scope, v, d) /\ ~IsSink(d)
                         /\ ComesTo(o.source, d)
  BY <1>3, ReadIs
<1>6. d < n
  BY <1>1, <1>2, <1>4, <1>5
<1>7. n \in Successors(d)
  BY <1>5, <1>6, UsesPropagate
<1> QED
  BY <1>1, <1>2, <1>5, <1>7, ComesFurther

(* What x += y keeps of x has come to an assignment of x. *)
LEMMA OwnKept ==
    ASSUME GraphBuilt, scope \in Scopes, LocalOK(scope, local), EnvOK(env),
           NEW l \in DOMAIN prog, l \in LinesIn(scope), NEW v \in prog[l].def
    PROVE  ValueOK(scope, v, [def |-> NodeOf(l), from |-> Origins(Own(prog[l]), NodeOf(l))])
<1> DEFINE n == NodeOf(l)
           from == Origins(Own(prog[l]), n)
           value == [def |-> n, from |-> from]
<1>1. IsProgram(prog) /\ n \in Nat /\ Nodes \subseteq Nat
  BY GraphIs, NodeIs
<1>2. v \in Vars /\ (scope = 0 \/ v \in LocalNames(scope))
  BY <1>1, ProgramIs, BindsLocals DEF LocalNames, Scopes
<1> HIDE DEF n
<1>3. ASSUME NEW o \in from, o.detours = {}
      PROVE  \E d \in Nodes : /\ d <= n /\ Binds(cpg, scope, v, d) /\ ~IsSink(d)
                              /\ ComesTo(o.source, d)
  <2>1. PICK u \in Own(prog[l]) : Read(u).def < n /\ o \in Read(u).from
    BY <1>3, OriginIs
  <2>2. u = v
    BY <1>1, <2>1, ProgramIs DEF Own
  <2>3. ValueOK(scope, v, Read(v))
    BY <1>2, ReadIs
  <2>4. PICK d \in Nodes : /\ d <= Read(v).def /\ Binds(cpg, scope, v, d) /\ ~IsSink(d)
                           /\ ComesTo(o.source, d)
    BY <1>3, <2>1, <2>2, <2>3 DEF ValueOK
  <2>5. d \in Nat /\ Read(v).def \in Nat
    BY <1>1, <2>3 DEF ValueOK
  <2>6. d <= n
    BY <1>1, <2>1, <2>2, <2>4, <2>5
  <2> QED
    BY <2>4, <2>6
<1>4. value.def = n /\ value.from = from
  OBVIOUS
<1> HIDE DEF value, from
<1>5. ValueOK(scope, v, value)
  BY <1>1, <1>3, <1>4 DEF ValueOK
<1> QED
  BY <1>5 DEF value, from, n

HitOK(h) == IsSink(h.sink) /\ (h.origin.detours = {} => ComesTo(h.origin.source, h.sink))
HitsOK(s) == \A h \in s : HitOK(h)

(* Writing names writes no other. *)
LEMMA WrittenIs ==
    ASSUME NEW values, NEW names, NEW value
    PROVE  /\ DOMAIN Written(values, names, value) = DOMAIN values
           /\ \A v \in DOMAIN values :
                 Written(values, names, value)[v] = IF v \in names THEN value ELSE values[v]
BY DEF Written

(* An assignment in a scope writes that scope's own variables. *)
LEMMA AssignKeeps ==
    ASSUME IsProgram(prog), NEW c \in Scopes, NEW values, LocalOK(c, values), EnvOK(env),
           NEW l \in DOMAIN prog, l \in LinesIn(c), NEW names, names \subseteq prog[l].def,
           NEW value, \A v \in names : ValueOK(c, v, value), Assign(values, names, value)
    PROVE  LocalOK(c, local') /\ EnvOK(env')
<1>1. local' = Written(values, names, value) /\ env' = Written(env, names \ DOMAIN values, value)
  BY DEF Assign
<1>2. DOMAIN values = LocalNames(c)
  BY DEF LocalOK
<1>3. c = 0 \/ names \subseteq LocalNames(c)
  BY BindsLocals DEF LocalNames, Scopes
<1>4. LocalOK(c, local')
  <2>1. \A v \in LocalNames(c) : local'[v] = IF v \in names THEN value ELSE values[v]
    BY <1>1, <1>2, WrittenIs
  <2>2. DOMAIN local' = LocalNames(c)
    BY <1>1, <1>2, WrittenIs
  <2> QED
    BY <2>1, <2>2 DEF LocalOK
<1>5. EnvOK(env')
  <2>1. DOMAIN env' = Vars /\ \A v \in Vars : env'[v] = IF v \in names \ DOMAIN values THEN value
          ELSE env[v]
    BY <1>1, WrittenIs DEF EnvOK
  <2>2. ASSUME NEW v \in Vars PROVE ValueOK(0, v, env'[v])
    <3>1. CASE v \in names \ DOMAIN values
      <4>1. c = 0 /\ ValueOK(c, v, value)
        BY <1>2, <1>3, <3>1
      <4> QED
        BY <2>1, <3>1, <4>1
    <3>2. CASE v \notin names \ DOMAIN values
      BY <2>1, <3>2 DEF EnvOK
    <3> QED
      BY <3>1, <3>2
  <2> QED
    BY <2>1, <2>2 DEF EnvOK
<1> QED
  BY <1>4, <1>5

(* A statement evaluated: its hits and what it writes have come along paths. *)
LEMMA EvaluateKeeps ==
    ASSUME GraphBuilt, scope \in Scopes, LocalOK(scope, local), EnvOK(env), HitsOK(hits),
           NEW l, StatementOK(l, scope), prog[l].op \in Linking \cup {"try"}, Evaluate(l)
    PROVE  LocalOK(scope, local') /\ EnvOK(env') /\ HitsOK(hits')
<1> DEFINE n == NodeOf(l)
           own == IF IsSource(n) THEN {From(n)} ELSE {}
           got == Origins(Reads(prog[l]), n) \cup own
           from == IF IsSink(n) THEN Via("sink", got) ELSE got
           value == [def |-> n, from |-> from]
           found == {[origin |-> o, sink |-> n] : o \in got}
<1>1. IsProgram(prog) /\ IsCpg(cpg)
  BY GraphIs
<1>2. l \in DOMAIN prog /\ l \in LinesIn(scope)
  BY <1>1, ScopeEnds DEF StatementOK
<1>3. /\ n \in Nodes /\ n \in Nat /\ IsReal(cpg, n) /\ LineAt(cpg, n) = l /\ OpOf(n) = NodeOp(l)
  BY <1>2, NodeIs
<1>4. /\ Assign(local, prog[l].def, value)
      /\ hits' = IF IsSink(n) THEN hits \cup found ELSE hits
  BY DEF Evaluate
<1>5. prog[l].op = "try" => prog[l].def = {} /\ ~IsSink(n)
  BY <1>1, <1>2, <1>3, ProgramIs DEF IsSink, NodeOp
<1>6. prog[l].op = "augassign" => ~IsSink(n)
  BY <1>1, <1>2, <1>3, ProgramIs DEF IsSink, NodeOp
<1>7. ASSUME prog[l].op \in Linking, NEW o \in got, o.detours = {}
      PROVE  ComesTo(o.source, n) \/ (prog[l].op = "augassign" /\ o \in Origins(Own(prog[l]), n))
  <2>1. CASE o \in own
    <3>1. IsSource(n) /\ o = From(n) /\ o.source = n
      BY <2>1 DEF From
    <3> QED
      BY <1>1, <1>3, <3>1, ComesFurther
  <2>2. CASE o \in Origins(Reads(prog[l]), n)
    <3>1. PICK v \in Reads(prog[l]) : Read(v).def < n /\ o \in Read(v).from
      BY <1>7, <2>2, OriginIs
    <3>2. CASE v \in prog[l].uses
      BY <1>2, <1>7, <3>1, <3>2, UsesCome
    <3>3. CASE v \in Own(prog[l])
      <4>1. prog[l].op = "augassign"
        BY <3>3 DEF Own
      <4>2. o \in Origins(Own(prog[l]), n)
        BY <3>1, <3>3 DEF Origins
      <4> QED
        BY <4>1, <4>2
    <3> QED
      BY <3>2, <3>3 DEF Reads
  <2> QED
    BY <1>7, <2>1, <2>2
<1> HIDE DEF own, got, n
<1>8. HitsOK(hits')
  <2>1. CASE IsSink(n)
    <3>1. \A o \in got : o.detours = {} => ComesTo(o.source, n)
      BY <1>5, <1>6, <1>7, <2>1
    <3>2. ASSUME NEW h \in found PROVE HitOK(h)
      <4>1. PICK o \in got : h = [origin |-> o, sink |-> n]
        BY <3>2
      <4>2. h.origin = o /\ h.sink = n
        BY <4>1
      <4> QED
        BY <2>1, <3>1, <4>2 DEF HitOK
    <3> HIDE DEF found
    <3> QED
      BY <1>4, <2>1, <3>2 DEF HitsOK
  <2>2. CASE ~IsSink(n)
    BY <1>4, <2>2
  <2> QED
    BY <2>1, <2>2
<1>9. ASSUME NEW v \in prog[l].def PROVE ValueOK(scope, v, value)
  <2>1. value.def = n /\ value.from = from
    OBVIOUS
  <2> HIDE DEF value
  <2>2. ASSUME NEW o \in from, o.detours = {}
        PROVE  \E d \in Nodes : /\ d <= n /\ Binds(cpg, scope, v, d) /\ ~IsSink(d)
                                /\ ComesTo(o.source, d)
    <3>1. ~IsSink(n) /\ o \in got /\ prog[l].op \in Linking
      <4>1. ~IsSink(n)
        BY <2>2, ViaIs
      <4> QED
        BY <1>5, <1>9, <2>2, <4>1
    <3>2. CASE ComesTo(o.source, n)
      <4>1. Binds(cpg, scope, v, n) /\ n <= n
        BY <1>2, <1>3, <1>9 DEF Binds
      <4> QED
        BY <1>3, <3>1, <3>2, <4>1
    <3>3. CASE o \in Origins(Own(prog[l]), n)
      <4> DEFINE kept == [def |-> n, from |-> Origins(Own(prog[l]), n)]
      <4>1. ValueOK(scope, v, kept)
        BY <1>2, <1>9, OwnKept DEF n
      <4>2. kept.def = n /\ o \in kept.from
        BY <3>3
      <4> HIDE DEF kept
      <4> QED
        BY <2>2, <4>1, <4>2 DEF ValueOK
    <3> QED
      BY <1>7, <2>2, <3>1, <3>2, <3>3
  <2> QED
    BY <1>3, <2>1, <2>2 DEF ValueOK
<1> HIDE DEF value
<1>10. LocalOK(scope, local') /\ EnvOK(env')
  BY <1>1, <1>2, <1>4, <1>9, AssignKeeps
<1> QED
  BY <1>8, <1>10

-------------------------------------------------------------------------------
(* Every step of the run keeps them. *)
FunctionsOK(fs) == \A name \in DOMAIN fs : fs[name] \in FunctionLines

RunInvOf(s, c, values, module, fs, found) ==
    /\ c \in Scopes /\ StackOK(s, c) /\ LocalOK(c, values) /\ EnvOK(module)
    /\ FunctionsOK(fs) /\ HitsOK(found)
RunInv == RunInvOf(todo, scope, local, env, functions, hits)
RunInvNext == RunInvOf(todo', scope', local', env', functions', hits')

(* The invariant of the next state is that of its variables, in one graph. *)
LEMMA RunInvPrimed ==
    ASSUME prog' = prog, cpg' = cpg, RunInvNext
    PROVE  RunInv'
<1>1. FunctionLines' = FunctionLines /\ Nodes' = Nodes
  BY DEF FunctionLines, Nodes
<1>2. /\ Scopes' = Scopes /\ \A c : LinesIn(c)' = LinesIn(c) /\ LocalsOf(c)' = LocalsOf(c)
      /\ \A c : EndOf(c)' = EndOf(c) /\ \A m : Clear(c, m)' = Clear(c, m)
  BY <1>1 DEF Scopes, LinesIn, LocalsOf, EndOf, Clear
<1>3. \A n : IsSink(n)' = IsSink(n) /\ \A q : IsTaintPath(q)' = IsTaintPath(q)
  BY GraphStays
<1>4. \A o, n : ComesTo(o, n)' = ComesTo(o, n)
  BY <1>1, <1>3 DEF ComesTo
<1>5. \A c, v, w : ValueOK(c, v, w)' = ValueOK(c, v, w)
  BY <1>1, <1>2, <1>3, <1>4 DEF ValueOK, Binds, IsReal, LineAt
<1>6. /\ \A c, w : LocalOK(c, w)' = LocalOK(c, w)
      /\ \A w : EnvOK(w)' = EnvOK(w)
      /\ \A f, c : CallOK(f, c)' = CallOK(f, c)
  BY <1>2, <1>5 DEF LocalOK, LocalNames, EnvOK, CallOK, NodeOf, Nodes, OpOf
<1>7. \A f, c : RunFrameOK(f, c)' = RunFrameOK(f, c)
  BY <1>2 DEF RunFrameOK, BlockOK, StatementOK
<1>8. \A f, c, d : Entered(f, c, d)' = Entered(f, c, d)
  BY <1>6, <1>7 DEF Entered
<1>9. \A s, c : StackOK(s, c)' = StackOK(s, c)
  BY <1>2, <1>8 DEF StackOK, ScopedBy, IsStack, Range
<1> QED
  BY <1>1, <1>2, <1>3, <1>4, <1>6, <1>9 DEF RunInv, RunInvOf, RunInvNext, FunctionsOK, HitsOK, HitOK

(* The innermost frame belongs to the scope that is run. *)
LEMMA TopFrame ==
    ASSUME RunInv, Running
    PROVE  /\ \E d \in Scopes : Entered(Innermost, d, scope) /\ StackOK(Outer, d)
           /\ Innermost.kind # "call" => RunFrameOK(Innermost, scope) /\ StackOK(Outer, scope)
<1>1. StackOK(todo, scope) /\ todo # <<>>
  BY DEF RunInv, RunInvOf, Running
<1>2. \E d \in Scopes : Entered(Innermost, d, scope) /\ StackOK(Outer, d)
  BY <1>1, PopKeeps DEF Innermost, Outer
<1> QED
  BY <1>2 DEF Entered

(* Frames of blocks and statements leave the scope as it is. *)
LEMMA FramesEntered ==
    ASSUME NEW c
    PROVE  /\ \A first, last : BlockOK(first, last, c) => Entered(Block(first, last), c, c)
           /\ \A l : StatementOK(l, c) => Entered(InLoop(l), c, c)
           /\ \A l, part, caught : StatementOK(l, c) => Entered(InTry(l, part, caught), c, c)
           /\ Entered(InFinal, c, c)
<1>1. \A first, last : BlockOK(first, last, c) => Entered(Block(first, last), c, c)
  BY DEF Entered, RunFrameOK, Block
<1>2. \A l : StatementOK(l, c) => Entered(InLoop(l), c, c)
  BY DEF Entered, RunFrameOK, InLoop
<1>3. \A l, part, caught : StatementOK(l, c) => Entered(InTry(l, part, caught), c, c)
  BY DEF Entered, RunFrameOK, InTry
<1>4. Entered(InFinal, c, c)
  BY DEF Entered, RunFrameOK, InFinal
<1> QED
  BY <1>1, <1>2, <1>3, <1>4

(* What is left to do when the statement is done. *)
RestOfBlock == Append(Outer, Block(Statement.final + 1, Innermost.last))

(* The statement to execute is one of the scope, or a definition. *)
LEMMA AtStatement ==
    ASSUME GraphBuilt, RunInv, Ready
    PROVE  /\ Here \in DOMAIN prog /\ StackOK(RestOfBlock, scope)
           /\ prog[Here].op # "def" => StatementOK(Here, scope)
           /\ prog[Here].op = "def" => Here \in FunctionLines
<1>1. /\ Running /\ Innermost.kind = "block" /\ Innermost.first <= Innermost.last
  BY DEF Ready
<1>2. scope \in Scopes /\ IsProgram(prog)
  BY GraphIs DEF RunInv, RunInvOf
<1>3. BlockOK(Here, Innermost.last, scope) /\ StackOK(Outer, scope)
  BY <1>1, TopFrame DEF RunFrameOK, Here
<1>4. /\ Here \in DOMAIN prog /\ Clear(scope, Here) /\ Here <= EndOf(scope)
      /\ BlockOK(Statement.final + 1, Innermost.last, scope)
  BY <1>1, <1>2, <1>3, AfterStatement DEF Here, Statement
<1>5. Entered(Block(Statement.final + 1, Innermost.last), scope, scope)
  BY <1>4, FramesEntered
<1>6. StackOK(RestOfBlock, scope)
  BY <1>2, <1>3, <1>5, PushKeeps DEF RestOfBlock
<1> QED
  BY <1>2, <1>4, <1>6, ScopeEnds DEF FunctionLines

(* The frames of the blocks of a statement. *)
LEMMA ChildFrames ==
    ASSUME GraphBuilt, RunInv, NEW l, StatementOK(l, scope)
    PROVE  /\ Entered(Body(l), scope, scope) /\ Entered(Orelse(l), scope, scope)
           /\ Entered(Final(l), scope, scope) /\ Entered(InLoop(l), scope, scope)
           /\ \A part, caught : Entered(InTry(l, part, caught), scope, scope)
           /\ \A h \in HandlersOf(l) : StatementOK(h, scope) /\ Entered(Body(h), scope, scope)
<1>1. scope \in Scopes /\ IsProgram(prog)
  BY GraphIs DEF RunInv, RunInvOf
<1>2. /\ BlockOK(l + 1, prog[l].body, scope)
      /\ BlockOK(prog[l].handlers + 1, prog[l].orelse, scope)
      /\ BlockOK(prog[l].orelse + 1, prog[l].final, scope)
  BY <1>1, Children
<1>3. ASSUME NEW h \in HandlersOf(l) PROVE StatementOK(h, scope) /\ Entered(Body(h), scope, scope)
  <2>1. StatementOK(h, scope)
    BY <1>1, Children
  <2>2. BlockOK(h + 1, prog[h].body, scope)
    BY <1>1, <2>1, Children
  <2> QED
    BY <2>1, <2>2, FramesEntered DEF Body
<1> QED
  BY <1>2, <1>3, FramesEntered DEF Body, Orelse, Final

(* Complete, Fail and Leap *)
LEMMA CompleteStep == GraphBuilt /\ RunInv /\ (Complete \/ Fail \/ Leap) => RunInvNext
<1> SUFFICES ASSUME GraphBuilt, RunInv, Complete \/ Fail \/ Leap PROVE RunInvNext
  OBVIOUS
<1>1. Ready /\ todo' = RestOfBlock \o <<>> /\ scope' = scope /\ functions' = functions
  BY DEF Complete, Fail, Leap, Then, RestOfBlock
<1>2. StackOK(todo', scope) /\ scope \in Scopes
  BY <1>1, AtStatement, PushesKeep DEF RunInv, RunInvOf
<1>3. LocalOK(scope, local') /\ EnvOK(env') /\ HitsOK(hits')
  <2>1. CASE Complete
    <3>1. prog[Here].op \in Simple /\ Evaluate(Here)
      BY <2>1 DEF Complete, Statement
    <3>2. StatementOK(Here, scope) /\ prog[Here].op \in Linking \cup {"try"}
      BY <1>1, <3>1, AtStatement DEF Simple, Linking
    <3> QED
      BY <3>1, <3>2, EvaluateKeeps DEF RunInv, RunInvOf
  <2>2. CASE Fail \/ Leap
    BY <2>2 DEF Fail, Leap, RunInv, RunInvOf
  <2> QED
    BY <2>1, <2>2
<1> QED
  BY <1>1, <1>2, <1>3 DEF RunInv, RunInvOf, RunInvNext

(* CallFunction *)
LEMMA CallStep == GraphBuilt /\ RunInv /\ CallFunction => RunInvNext
<1> SUFFICES ASSUME GraphBuilt, RunInv, CallFunction PROVE RunInvNext
  OBVIOUS
<1> DEFINE f == functions[Statement.call]
           frame == InCall(Here, Origins(Own(Statement), NodeOf(Here)))
<1>1. /\ Ready /\ Statement.call \in DOMAIN functions
      /\ todo' = RestOfBlock \o <<frame, Body(f)>> /\ scope' = f
      /\ UNCHANGED <<env, functions, hits>>
  BY DEF CallFunction, Then, RestOfBlock
<1>2. PICK given \in [prog[f].def -> SUBSET Statement.uses] :
        local' = [v \in LocalsOf(f) |->
                    IF v \in prog[f].def
                    THEN [def |-> NodeOf(f), from |-> Via("call", Origins(given[v], NodeOf(Here)))]
                    ELSE Unknown]
  BY DEF CallFunction
<1>3. f \in FunctionLines /\ f \in Scopes /\ f # 0 /\ f \in DOMAIN prog /\ f \in Nat
        /\ prog[f].final \in Nat
  <2>1. f \in FunctionLines
    BY <1>1 DEF RunInv, RunInvOf, FunctionsOK
  <2> HIDE DEF f
  <2> QED
    BY <2>1, GraphIs, LinesAreInScopes DEF Scopes
<1> HIDE DEF f, frame
<1>4. LocalOK(f, local')
  <2>1. DOMAIN local' = LocalNames(f)
    BY <1>2, <1>3 DEF LocalNames
  <2>2. ASSUME NEW v \in LocalNames(f) PROVE ValueOK(f, v, local'[v])
    <3>1. CASE v \in prog[f].def
      <4> DEFINE from == Via("call", Origins(given[v], NodeOf(Here)))
                 value == [def |-> NodeOf(f), from |-> from]
      <4>1. local'[v] = value
        BY <1>2, <1>3, <2>2, <3>1 DEF LocalNames
      <4>2. value.def = NodeOf(f) /\ value.from = from /\ NodeOf(f) \in Nat
        BY <1>3, NodeIs
      <4>3. \A o \in from : o.detours # {}
        BY ViaIs
      <4> HIDE DEF value, from
      <4> QED
        BY <4>1, <4>2, <4>3 DEF ValueOK
    <3>2. CASE v \notin prog[f].def
      <4>1. local'[v] = Unknown
        BY <1>2, <1>3, <2>2, <3>2 DEF LocalNames
      <4> QED
        BY <4>1 DEF ValueOK, Unknown
    <3> QED
      BY <3>1, <3>2
  <2> QED
    BY <2>1, <2>2 DEF LocalOK
<1>5. /\ StackOK(RestOfBlock, scope) /\ scope \in Scopes /\ LocalOK(scope, local) /\ EnvOK(env)
      /\ StatementOK(Here, scope)
  <2>1. prog[Here].op # "def"
    BY DEF CallFunction, Simple, Statement
  <2> QED
    BY <1>1, <2>1, AtStatement DEF RunInv, RunInvOf
<1>6. Entered(frame, scope, f)
  <2>1. Here \in DOMAIN prog /\ Here \in LinesIn(scope)
    BY <1>5, GraphIs, ScopeEnds DEF StatementOK
  <2>2. \A v \in prog[Here].def :
          ValueOK(scope, v, [def |-> NodeOf(Here), from |-> Origins(Own(prog[Here]), NodeOf(Here))])
    BY <1>5, <2>1, OwnKept
  <2> DEFINE own == Origins(Own(prog[Here]), NodeOf(Here))
  <2>3. frame = InCall(Here, own)
    BY DEF frame, Statement
  <2>4. /\ frame.kind = "call" /\ frame.scope = scope /\ frame.saved = local /\ frame.stmt = Here
        /\ frame.own = own
    BY <2>3 DEF InCall
  <2> HIDE DEF own
  <2>5. CallOK(frame, scope)
    BY <1>5, <2>1, <2>2, <2>4 DEF CallOK, own
  <2> QED
    BY <2>4, <2>5 DEF Entered
<1>7. Entered(Body(f), f, f)
  <2>1. prog[f].op = "def" /\ prog[f].body = prog[f].final
    BY <1>3, GraphIs, ProgramIs DEF FunctionLines
  <2>2. BlockOK(f + 1, prog[f].body, f)
    BY <1>3, <2>1 DEF BlockOK, EndOf, Clear
  <2> QED
    BY <2>2, FramesEntered DEF Body
<1>8. StackOK(todo', f)
  BY <1>1, <1>3, <1>5, <1>6, <1>7, PushesKeep
<1> QED
  BY <1>1, <1>3, <1>4, <1>8 DEF RunInv, RunInvOf, RunInvNext

(* Define *)
LEMMA DefineStep == GraphBuilt /\ RunInv /\ Define => RunInvNext
<1> SUFFICES ASSUME GraphBuilt, RunInv, Define PROVE RunInvNext
  OBVIOUS
<1>1. /\ Ready /\ prog[Here].op = "def" /\ todo' = RestOfBlock \o <<>>
      /\ functions' = [name \in DOMAIN functions \cup {Statement.call} |->
                         IF name = Statement.call THEN Here ELSE functions[name]]
      /\ UNCHANGED <<scope, env, local, hits>>
  BY DEF Define, Then, RestOfBlock, Statement
<1>2. Here \in FunctionLines /\ StackOK(todo', scope)
  BY <1>1, AtStatement, PushesKeep DEF RunInv, RunInvOf
<1>3. FunctionsOK(functions')
  BY <1>1, <1>2 DEF RunInv, RunInvOf, FunctionsOK
<1> QED
  BY <1>1, <1>2, <1>3 DEF RunInv, RunInvOf, RunInvNext

(* A step that only leaves a block, a loop or a finally clause. *)
LEMMA LeaveStep ==
    GraphBuilt /\ RunInv /\ (EndBlock \/ LeaveBlock \/ LeaveLoop \/ EndFinal) => RunInvNext
<1> SUFFICES ASSUME GraphBuilt, RunInv, EndBlock \/ LeaveBlock \/ LeaveLoop \/ EndFinal
             PROVE  RunInvNext
  OBVIOUS
<1>1. /\ Running /\ Innermost.kind # "call" /\ todo' \in {todo, Outer}
      /\ UNCHANGED <<scope, env, local, functions, hits>>
  BY DEF EndBlock, LeaveBlock, LeaveLoop, EndFinal
<1>2. StackOK(todo, scope) /\ StackOK(Outer, scope)
  BY <1>1, TopFrame DEF RunInv, RunInvOf
<1>3. StackOK(todo', scope)
  BY <1>1, <1>2
<1> QED
  BY <1>1, <1>3 DEF RunInv, RunInvOf, RunInvNext

(* Return *)
LEMMA ReturnStep == GraphBuilt /\ RunInv /\ Return => RunInvNext
<1> SUFFICES ASSUME GraphBuilt, RunInv, Return PROVE RunInvNext
  OBVIOUS
<1> DEFINE f == Innermost
           names == IF jump = "raise" THEN {} ELSE prog[f.stmt].def
           result == Via("call", carried)
           value == [def |-> NodeOf(f.stmt), from |-> f.own \cup result]
           kept == [def |-> NodeOf(f.stmt), from |-> f.own]
<1>1. /\ Running /\ f.kind = "call" /\ todo' = Outer /\ scope' = f.scope
      /\ Assign(f.saved, names, value) /\ UNCHANGED <<functions, hits>>
  BY DEF Return
<1>2. PICK d \in Scopes : Entered(f, d, scope) /\ StackOK(Outer, d)
  BY <1>1, TopFrame
<1>3. /\ scope' = d /\ LocalOK(d, f.saved) /\ f.stmt \in DOMAIN prog /\ f.stmt \in LinesIn(d)
      /\ \A v \in prog[f.stmt].def : ValueOK(d, v, kept)
  BY <1>1, <1>2 DEF Entered, CallOK
<1>4. /\ value.def = NodeOf(f.stmt) /\ value.from = f.own \cup result
      /\ kept.def = NodeOf(f.stmt) /\ kept.from = f.own
  OBVIOUS
<1>5. \A o \in result : o.detours # {}
  BY ViaIs
<1>6. names \subseteq prog[f.stmt].def
  OBVIOUS
<1> HIDE DEF f, result, value, kept, names
<1>7. \A v \in names : ValueOK(d, v, value)
  BY <1>3, <1>4, <1>5, <1>6 DEF ValueOK
<1>8. LocalOK(d, local') /\ EnvOK(env')
  <2>1. IsProgram(prog) /\ EnvOK(env)
    BY GraphIs DEF RunInv, RunInvOf
  <2> QED
    BY <1>1, <1>2, <1>3, <1>6, <1>7, <2>1, AssignKeeps
<1> QED
  BY <1>1, <1>2, <1>3, <1>8 DEF RunInv, RunInvOf, RunInvNext

(* Choose *)
LEMMA ChooseStep == GraphBuilt /\ RunInv /\ Choose => RunInvNext
<1> SUFFICES ASSUME GraphBuilt, RunInv, Choose PROVE RunInvNext
  OBVIOUS
<1>1. PICK branch \in {Body(Here), Orelse(Here)} : todo' = RestOfBlock \o <<branch>>
  BY DEF Choose, Then, RestOfBlock
<1>2. /\ Ready /\ prog[Here].op = "if" /\ Evaluate(Here)
      /\ scope' = scope /\ functions' = functions
  BY DEF Choose, Statement
<1>3. StatementOK(Here, scope) /\ prog[Here].op \in Linking /\ StackOK(RestOfBlock, scope)
  BY <1>2, AtStatement DEF Linking
<1>4. Entered(branch, scope, scope)
  BY <1>3, ChildFrames
<1>5. StackOK(todo', scope)
  BY <1>1, <1>3, <1>4, PushesKeep DEF RunInv, RunInvOf
<1>6. LocalOK(scope, local') /\ EnvOK(env') /\ HitsOK(hits')
  BY <1>2, <1>3, EvaluateKeeps DEF RunInv, RunInvOf
<1> QED
  BY <1>2, <1>5, <1>6 DEF RunInv, RunInvOf, RunInvNext

(* Begin *)
LEMMA BeginStep == GraphBuilt /\ RunInv /\ Begin => RunInvNext
<1> SUFFICES ASSUME GraphBuilt, RunInv, Begin PROVE RunInvNext
  OBVIOUS
<1>1. /\ Ready /\ prog[Here].op \in {"with", "try"} /\ Evaluate(Here)
      /\ todo' = RestOfBlock \o (IF prog[Here].op = "try" THEN <<InTry(Here, "body", {}), Body(Here)>>
                             ELSE <<Body(Here)>>)
      /\ scope' = scope /\ functions' = functions
  BY DEF Begin, Statement, Then, RestOfBlock
<1>2. StatementOK(Here, scope) /\ prog[Here].op \in Linking \cup {"try"} /\ StackOK(RestOfBlock, scope)
  BY <1>1, AtStatement DEF Linking
<1>3. Entered(Body(Here), scope, scope) /\ Entered(InTry(Here, "body", {}), scope, scope)
  BY <1>2, ChildFrames
<1> DEFINE x == InTry(Here, "body", {})
           y == Body(Here)
<1>4. StackOK(todo', scope)
  <2>1. todo' = RestOfBlock \o <<x, y>> \/ todo' = RestOfBlock \o <<y>>
    BY <1>1
  <2> HIDE DEF x, y
  <2>2. Entered(x, scope, scope) /\ Entered(y, scope, scope) /\ scope \in Scopes
    BY <1>3 DEF x, y, RunInv, RunInvOf
  <2>3. StackOK(RestOfBlock \o <<x, y>>, scope)
    BY <1>2, <2>2, PushesKeep
  <2>4. StackOK(RestOfBlock \o <<y>>, scope)
    BY <1>2, <2>2, PushesKeep
  <2> QED
    BY <2>1, <2>3, <2>4
<1>5. LocalOK(scope, local') /\ EnvOK(env') /\ HitsOK(hits')
  BY <1>1, <1>2, EvaluateKeeps DEF RunInv, RunInvOf
<1> QED
  BY <1>1, <1>4, <1>5 DEF RunInv, RunInvOf, RunInvNext

(* Iterate *)
LEMMA IterateStep == GraphBuilt /\ RunInv /\ Iterate => RunInvNext
<1> SUFFICES ASSUME GraphBuilt, RunInv, Iterate PROVE RunInvNext
  OBVIOUS
<1>1. PICK l \in IF Innermost.kind = "loop" THEN {Innermost.stmt}
                 ELSE IF Ready THEN {Here} ELSE {} :
         /\ prog[l].op = "loop" /\ Evaluate(l)
         /\ LET rest == IF Innermost.kind = "loop" THEN Outer ELSE RestOfBlock
            IN  todo' \in {rest \o <<InLoop(l), Body(l)>>, Append(rest, Orelse(l))}
  BY DEF Iterate, RestOfBlock
<1>2. Running /\ scope' = scope /\ functions' = functions
  BY DEF Iterate
<1> DEFINE rest == IF Innermost.kind = "loop" THEN Outer ELSE RestOfBlock
<1>3. StatementOK(l, scope) /\ StackOK(rest, scope)
  <2>1. CASE Innermost.kind = "loop"
    <3>1. l = Innermost.stmt /\ RunFrameOK(Innermost, scope) /\ StackOK(Outer, scope)
      BY <1>1, <1>2, <2>1, TopFrame
    <3> QED
      BY <2>1, <3>1 DEF RunFrameOK
  <2>2. CASE Innermost.kind # "loop"
    <3>1. Ready /\ l = Here
      BY <1>1, <2>2
    <3>2. prog[Here].op # "def"
      BY <1>1, <3>1
    <3> QED
      BY <2>2, <3>1, <3>2, AtStatement
  <2> QED
    BY <2>1, <2>2
<1>4. todo' = rest \o <<InLoop(l), Body(l)>> \/ todo' = Append(rest, Orelse(l))
  BY <1>1
<1> HIDE DEF rest
<1>5. /\ Entered(InLoop(l), scope, scope) /\ Entered(Body(l), scope, scope)
      /\ Entered(Orelse(l), scope, scope) /\ scope \in Scopes
  BY <1>3, ChildFrames DEF RunInv, RunInvOf
<1>6. StackOK(todo', scope)
  <2>1. StackOK(rest \o <<InLoop(l), Body(l)>>, scope)
    BY <1>3, <1>5, PushesKeep
  <2>2. StackOK(Append(rest, Orelse(l)), scope)
    BY <1>3, <1>5, PushKeeps
  <2> QED
    BY <1>4, <2>1, <2>2
<1>7. LocalOK(scope, local') /\ EnvOK(env') /\ HitsOK(hits')
  <2>1. prog[l].op \in Linking \cup {"try"}
    BY <1>1 DEF Linking
  <2> QED
    BY <1>1, <1>3, <2>1, EvaluateKeeps DEF RunInv, RunInvOf
<1> QED
  BY <1>2, <1>5, <1>6, <1>7 DEF RunInv, RunInvOf, RunInvNext

(* Handle *)
LEMMA HandleStep == GraphBuilt /\ RunInv /\ Handle => RunInvNext
<1> SUFFICES ASSUME GraphBuilt, RunInv, Handle PROVE RunInvNext
  OBVIOUS
<1> DEFINE l == Innermost.stmt
<1>1. /\ Running /\ Innermost.kind = "try"
      /\ scope' = scope /\ functions' = functions /\ hits' = hits
  BY DEF Handle
<1>2. StatementOK(l, scope) /\ StackOK(Outer, scope)
  BY <1>1, TopFrame DEF RunFrameOK
<1>3. PICK h \in HandlersOf(l), part \in {"handler", "last handler"} :
         /\ todo' = Outer \o <<InTry(l, part, carried), Body(h)>>
         /\ Assign(local, prog[h].def, [def |-> NodeOf(h), from |-> Via("raise", carried)])
  <2>1. PICK h \in HandlersOf(l) :
          LET last == prog[h].final = prog[l].handlers
              part == IF last THEN "last handler" ELSE "handler"
          IN  /\ todo' = Outer \o <<InTry(l, part, carried), Body(h)>>
              /\ Assign(local, prog[h].def, [def |-> NodeOf(h), from |-> Via("raise", carried)])
    BY DEF Handle
  <2> QED
    BY <2>1
<1> HIDE DEF l
<1>4. /\ StatementOK(h, scope) /\ Entered(Body(h), scope, scope)
      /\ Entered(InTry(l, part, carried), scope, scope) /\ scope \in Scopes
  BY <1>2, ChildFrames DEF RunInv, RunInvOf
<1>5. StackOK(todo', scope)
  BY <1>2, <1>3, <1>4, PushesKeep
<1>6. LocalOK(scope, local') /\ EnvOK(env')
  <2>1. IsProgram(prog) /\ h \in DOMAIN prog /\ h \in LinesIn(scope)
    BY <1>4, GraphIs, ScopeEnds DEF StatementOK
  <2> DEFINE value == [def |-> NodeOf(h), from |-> Via("raise", carried)]
  <2>2. value.def \in Nat /\ \A o \in value.from : o.detours # {}
    BY <2>1, NodeIs, ViaIs
  <2>3. Assign(local, prog[h].def, value)
    BY <1>3
  <2> HIDE DEF value
  <2>4. \A v \in prog[h].def : ValueOK(scope, v, value)
    BY <2>2 DEF ValueOK
  <2> QED
    BY <2>1, <2>3, <2>4, AssignKeeps DEF RunInv, RunInvOf
<1> QED
  BY <1>1, <1>4, <1>5, <1>6 DEF RunInv, RunInvOf, RunInvNext

(* LeaveTry *)
LEMMA LeaveTryStep == GraphBuilt /\ RunInv /\ LeaveTry => RunInvNext
<1> SUFFICES ASSUME GraphBuilt, RunInv, LeaveTry PROVE RunInvNext
  OBVIOUS
<1> DEFINE l == Innermost.stmt
<1>1. /\ Running /\ Innermost.kind = "try"
      /\ UNCHANGED <<scope, env, local, functions, hits>>
  BY DEF LeaveTry
<1>2. \/ todo' = Outer \o <<InTry(l, "else", {}), Orelse(l)>>
      \/ todo' = Outer \o <<InFinal, Final(l)>>
      \/ todo' = Outer \o <<>>
  BY DEF LeaveTry
<1>3. StatementOK(l, scope) /\ StackOK(Outer, scope)
  BY <1>1, TopFrame DEF RunFrameOK
<1> HIDE DEF l
<1>4. /\ Entered(InTry(l, "else", {}), scope, scope) /\ Entered(Orelse(l), scope, scope)
      /\ Entered(Final(l), scope, scope) /\ scope \in Scopes
  BY <1>3, ChildFrames DEF RunInv, RunInvOf
<1>5. Entered(InFinal, scope, scope)
  BY FramesEntered
<1>6. StackOK(todo', scope)
  <2>1. StackOK(Outer \o <<InTry(l, "else", {}), Orelse(l)>>, scope)
    BY <1>3, <1>4, PushesKeep
  <2>2. StackOK(Outer \o <<InFinal, Final(l)>>, scope)
    BY <1>3, <1>4, <1>5, PushesKeep
  <2>3. StackOK(Outer \o <<>>, scope)
    BY <1>3, <1>4, PushesKeep
  <2> QED
    BY <1>2, <2>1, <2>2, <2>3
<1> QED
  BY <1>1, <1>4, <1>6 DEF RunInv, RunInvOf, RunInvNext

(* All steps of the run. *)
LEMMA RunStepKeeps == GraphBuilt /\ RunInv /\ RunStep => RunInvNext
BY CompleteStep, CallStep, DefineStep, ChooseStep, BeginStep, IterateStep, LeaveStep, HandleStep,
   LeaveTryStep, ReturnStep DEF RunStep

-------------------------------------------------------------------------------
(* The module as a whole: built, searched, run. *)
(* Nothing was run while there is no graph to search. *)
NotRun ==
    /\ cpg = EmptyCpg /\ todo = <<>> /\ scope = 0 /\ local = <<>>
    /\ env = [v \in Vars |-> Unknown] /\ functions = <<>> /\ hits = {}

RunStart ==
    /\ todo = <<Block(1, Len(prog))>> /\ scope = 0 /\ local = <<>>
    /\ env = [v \in Vars |-> Unknown] /\ functions = <<>> /\ hits = {}

Inv == BuildInv /\ SearchInv /\ (NotRun \/ (GraphBuilt /\ RunInv))

(* What a step leaves alone keeps its invariant: *)
LEMMA BuildStays == BuildInv /\ UNCHANGED buildVars => BuildInv'
BY BuildInvPrimed DEF BuildInv, buildVars

(* in the run, *)
LEMMA RunStays ==
    ASSUME RunInv, UNCHANGED <<prog, cpg>>, UNCHANGED runVars
    PROVE  RunInv'
BY RunInvPrimed DEF RunInv, RunInvOf, RunInvNext, runVars

(* Before the first statement is visited. *)
LEMMA Starts == Init => Inv
<1> SUFFICES ASSUME Init PROVE Inv
  OBVIOUS
<1>1. /\ BuildStart /\ SearchStart /\ NotRun
  BY DEF Init, NotRun
<1>2. IsCpg(cpg)
  <2>1. cpg.nodes = <<>> /\ cpg.edges = <<>>
    BY <1>1 DEF NotRun, EmptyCpg
  <2>2. <<>> \in Seq(NodeType) /\ DOMAIN <<>> = {}
    OBVIOUS
  <2> QED
    BY <2>1, <2>2 DEF IsCpg
<1> QED
  BY <1>1, <1>2, BuildStarts, SearchStarts DEF Inv

(* While the graph is built nothing is searched or run. *)
LEMMA BuildingKeeps ==
    Inv /\ BuildStep /\ UNCHANGED <<searchVars, runVars>> => Inv'
<1> SUFFICES ASSUME Inv, BuildStep, UNCHANGED <<searchVars, runVars>> PROVE Inv'
  OBVIOUS
<1>1. BuildInv' /\ SearchInv'
  BY BuildStepKeeps, SearchStays DEF Inv
<1>2. ~Built
  <2>1. CASE open # <<>>
    BY <2>1 DEF Built
  <2>2. CASE open = <<>>
    <3>1. line <= BlockEnd /\ BlockEnd = Len(prog)
      BY <2>2 DEF BlockEnd, BuildStep, AfterBlock, Visiting, VisitSimple, VisitTerminator, VisitBreak,
         VisitContinue, VisitIf, AfterThen, AfterIf, VisitLoop, AfterLoopBody, AfterLoop, VisitTry,
         AfterTryBody, VisitHandler, AfterHandlers, AfterTryElse, AfterTry, VisitFunctionDef,
         AfterFunction
    <3>2. line \in Nat /\ Len(prog) \in Nat
      <4>1. prog \in Seq(StatementType) /\ line \in 1 .. Len(prog) + 1
        BY DEF Inv, BuildInv, BuildInvOf, IsProgram
      <4> QED
        BY <4>1
    <3> QED
      BY <3>1, <3>2 DEF Built
  <2> QED
    BY <2>1, <2>2
<1>3. NotRun'
  <2>1. NotRun
    BY <1>2 DEF Inv, GraphBuilt
  <2> QED
    BY <2>1 DEF NotRun, searchVars, runVars, EmptyCpg, Unknown
<1> QED
  BY <1>1, <1>3 DEF Inv

(* The run starts with the whole module to do and nothing known of any variable. *)
LEMMA RunStarts == IsProgram(prog) /\ RunStart => RunInv
<1> SUFFICES ASSUME IsProgram(prog), RunStart PROVE RunInv
  OBVIOUS
<1>1. /\ todo = <<Block(1, Len(prog))>> /\ scope = 0 /\ local = <<>>
      /\ env = [v \in Vars |-> Unknown] /\ functions = <<>> /\ hits = {}
  BY DEF RunStart
<1>2. StackOK(todo, 0)
  <2>1. Len(prog) \in Nat /\ 0 \in Scopes
    BY DEF IsProgram, Scopes
  <2>2. BlockOK(1, Len(prog), 0)
    BY <2>1, LinesAreInScopes DEF BlockOK, EndOf, Clear
  <2>3. Entered(Block(1, Len(prog)), 0, 0)
    BY <2>2, FramesEntered
  <2> DEFINE f == Block(1, Len(prog))
  <2>4. Append(<<>>, f) = <<f>>
    OBVIOUS
  <2>5. StackOK(Append(<<>>, f), 0)
    BY <2>1, <2>3, EmptyStack, PushKeeps
  <2> QED
    BY <1>1, <2>4, <2>5
<1>3. LocalOK(0, local)
  BY <1>1 DEF LocalOK, LocalNames
<1>4. EnvOK(env)
  <2>1. \A v \in Vars : env[v].def = 0 /\ env[v].from = {}
    BY <1>1 DEF Unknown
  <2> QED
    BY <1>1, <2>1 DEF EnvOK, ValueOK
<1> QED
  BY <1>1, <1>2, <1>3, <1>4 DEF RunInv, RunInvOf, Scopes, FunctionsOK, HitsOK

(* The graph that was built is searched from its sources. *)
LEMMA StartingKeeps == Inv /\ StartSearch => Inv'
<1> SUFFICES ASSUME Inv, StartSearch PROVE Inv'
  OBVIOUS
<1>1. /\ Built /\ cpg = EmptyCpg /\ cpg' = [nodes |-> builder.nodes, edges |-> builder.edges]
      /\ SearchStart' /\ todo' = <<Block(1, Len(prog))>>
      /\ UNCHANGED buildVars /\ UNCHANGED <<scope, env, local, functions, hits>>
  BY DEF StartSearch, SearchStart
<1>2. BuildInv /\ BuildInv' /\ UNCHANGED <<prog, line, builder, open>>
  BY <1>1, BuildStays DEF Inv, buildVars
<1>3. IsCpg(cpg')
  BY <1>1, <1>2, BuiltIsCpg
<1>4. SearchInv'
  <2>1. (IsCpg(cpg) /\ SearchStart => SearchInv)'
    BY SearchStarts, PTL
  <2>2. IsCpg(cpg)' = IsCpg(cpg')
    BY DEF IsCpg
  <2> QED
    BY <1>1, <1>3, <2>1, <2>2
<1>5. GraphBuilt'
  BY <1>1, <1>2, <1>4 DEF GraphBuilt, Built
<1>6. NotRun
  <2>1. ASSUME GraphBuilt PROVE FALSE
    <3>1. DOMAIN prog = 1 .. Len(prog) /\ Len(prog) \in Nat /\ prog # <<>>
            /\ prog \in Seq(StatementType)
      BY <2>1, GraphIs DEF IsProgram
    <3>2. 1 \in DOMAIN prog
      BY <3>1
    <3>3. NodeOf(1) \in Nodes
      BY <2>1, <3>2, NodeIs
    <3> QED
      BY <1>1, <3>3 DEF Nodes, EmptyCpg
  <2> QED
    BY <2>1 DEF Inv
<1>7. RunInv'
  <2>1. (IsProgram(prog) /\ RunStart => RunInv)'
    BY RunStarts, PTL
  <2>2. IsProgram(prog)'
    BY <1>2 DEF BuildInv, BuildInvOf
  <2>3. RunStart'
    BY <1>1, <1>2, <1>6 DEF NotRun, RunStart, Block, Unknown
  <2> QED
    BY <2>1, <2>2, <2>3
<1> QED
  BY <1>2, <1>4, <1>5, <1>7 DEF Inv

(* The search leaves graph and run alone, *)
LEMMA SearchingKeeps == Inv /\ SearchStep /\ UNCHANGED <<buildVars, runVars>> => Inv'
<1> SUFFICES ASSUME Inv, SearchStep, UNCHANGED buildVars, UNCHANGED runVars PROVE Inv'
  OBVIOUS
<1>1. SearchInv'
  BY SkipStep, VisitStep DEF Inv, SearchStep
<1>2. cpg' = cpg
  BY DEF SearchStep, SkipVisited, VisitNode
<1>3. BuildInv' /\ UNCHANGED <<prog, line, builder, open>>
  BY BuildStays DEF Inv, buildVars
<1>4. CASE NotRun
  <2>1. NotRun'
    BY <1>2, <1>4 DEF NotRun, runVars, EmptyCpg, Unknown
  <2> QED
    BY <1>1, <1>3, <2>1 DEF Inv
<1>5. CASE GraphBuilt /\ RunInv
  <2>1. RunInv'
    BY <1>2, <1>3, <1>5, RunStays
  <2>2. GraphBuilt'
    BY <1>1, <1>2, <1>3, <1>5 DEF GraphBuilt, Built
  <2> QED
    BY <1>1, <1>3, <2>1, <2>2 DEF Inv
<1> QED
  BY <1>4, <1>5 DEF Inv

(* and the run leaves graph and search alone. *)
LEMMA RunningKeeps == Inv /\ RunStep /\ UNCHANGED <<buildVars, searchVars>> => Inv'
<1> SUFFICES ASSUME Inv, RunStep, UNCHANGED buildVars, UNCHANGED searchVars PROVE Inv'
  OBVIOUS
<1>1. SearchInv' /\ BuildInv' /\ UNCHANGED <<prog, line, builder, open, cpg>>
  BY BuildStays, SearchStays DEF Inv, buildVars, searchVars
<1>2. Running
  BY DEF RunStep, Ready, Complete, Fail, CallFunction, Define, Choose, Begin, Leap, Iterate, EndBlock,
     LeaveBlock, LeaveLoop, Handle, LeaveTry, EndFinal, Return
<1>3. GraphBuilt /\ RunInv
  BY <1>2 DEF Inv, NotRun, Running
<1>4. RunInv'
  BY <1>1, <1>3, RunStepKeeps, RunInvPrimed
<1>5. GraphBuilt'
  BY <1>1, <1>3 DEF GraphBuilt, Built
<1> QED
  BY <1>1, <1>4, <1>5 DEF Inv

(* Stuttering. *)
LEMMA NothingKeeps == Inv /\ UNCHANGED vars => Inv'
<1> SUFFICES ASSUME Inv, UNCHANGED vars PROVE Inv'
  OBVIOUS
<1>1. UNCHANGED buildVars /\ UNCHANGED searchVars /\ UNCHANGED runVars
  BY DEF vars
<1>2. SearchInv' /\ BuildInv' /\ UNCHANGED <<prog, line, builder, open, cpg>>
  BY <1>1, BuildStays, SearchStays DEF Inv, buildVars, searchVars
<1>3. CASE NotRun
  <2>1. NotRun'
    BY <1>1, <1>2, <1>3 DEF NotRun, runVars, EmptyCpg, Unknown
  <2> QED
    BY <1>2, <2>1 DEF Inv
<1>4. CASE GraphBuilt /\ RunInv
  <2>1. RunInv'
    BY <1>1, <1>2, <1>4, RunStays
  <2>2. GraphBuilt'
    BY <1>2, <1>4 DEF GraphBuilt, Built
  <2> QED
    BY <1>2, <2>1, <2>2 DEF Inv
<1> QED
  BY <1>3, <1>4 DEF Inv

(* The invariant of the whole. *)
LEMMA InvHolds == Spec => []Inv
<1>1. Inv /\ [Next]_vars => Inv'
  BY BuildingKeeps, StartingKeeps, SearchingKeeps, RunningKeeps, NothingKeeps DEF Next
<1> QED
  BY <1>1, Starts, PTL DEF Spec

(* A value that came to a sink came along a path, and the search followed it. *)
LEMMA HitsAreReported == Inv => ValuesReachSinks
<1> SUFFICES ASSUME Inv, Searched, NEW h \in hits, h.origin.detours = {}
             PROVE  \E i \in DOMAIN paths :
                       paths[i].sink = h.sink /\ paths[i].tags = Tags(h.origin.source)
  BY DEF ValuesReachSinks
<1>1. GraphBuilt /\ RunInv
  BY DEF Inv, NotRun
<1>2. IsSink(h.sink) /\ ComesTo(h.origin.source, h.sink)
  BY <1>1 DEF RunInv, RunInvOf, HitsOK, HitOK
<1>3. PICK q \in Seq(Nodes) : IsTaintPath(q) /\ q[1] = h.origin.source /\ q[Len(q)] = h.sink
  BY <1>2 DEF ComesTo
<1> DEFINE k == <<q[Len(q)], Tags(q[1])>>
<1>4. Len(q) \in 1 .. Len(q)
  BY <1>3 DEF IsTaintPath
<1>5. k \in visited /\ k[1] = h.sink /\ k[2] = Tags(h.origin.source)
  BY <1>3, <1>4, PathIsVisited DEF Inv
<1> HIDE DEF k
<1>6. Reported(h.sink, Tags(h.origin.source))
  BY <1>2, <1>5 DEF Inv, SearchInv, Followed
<1> QED
  BY <1>6 DEF Reported

(* The graph as it is so far. *)
BuilderGraph == [nodes |-> builder.nodes, edges |-> builder.edges]

(* At every moment of the walk of any module the builder holds a graph: its edges
   join nodes that are there, whatever is still open. *)
THEOREM BuilderMakesGraphs == Spec => []IsCpg(BuilderGraph)
<1>1. Inv => IsCpg(BuilderGraph)
  BY BuiltIsCpg DEF Inv, BuilderGraph
<1> QED
  BY <1>1, InvHolds, PTL

(* Every statement the walk has gone past has its node, and there is a data edge to
   it from each definition above it that one of its uses may mean: one in its own
   function, or in the module if the name is not local, whatever branches, loops
   and handlers stand between. *)
THEOREM UsesAreLinked == Spec => [](NodesOK(builder, line) /\ LinkedOK(builder))
<1>1. Inv => NodesOK(builder, line) /\ LinkedOK(builder)
  BY DEF Inv, BuildInv, BuildInvOf
<1> QED
  BY <1>1, InvHolds, PTL

(* The graph that is built is what the search needs: find_taint_paths reports
   exactly the sinks of any module that taint comes to. *)
THEOREM BuiltGraphsAreSearched == Spec => []ReportsExact
BY InvHolds, ReportsAreExact, PTL DEF Inv

(* In any run of any module, whatever loops, exceptions, calls and finally clauses
   it goes through: a source's value that comes to a sink through variables alone,
   each read below its assignment and in the same call or the module, is reported.
   What comes in an argument, a result or an exception is marked and not promised. *)
THEOREM ValuesAreReported == Spec => []ValuesReachSinks
BY HitsAreReported, InvHolds, PTL
===============================================================================
