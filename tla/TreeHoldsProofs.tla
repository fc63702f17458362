---------------------------- MODULE TreeHoldsProofs ----------------------------
(***************************************************************************)
(* Who keeps a parsed tree, proved for any number of trees, records and    *)
(* places: #trees is exact, what can still be named is live, and a token   *)
(* is kept only while something names its tree.                            *)
(***************************************************************************)
EXTENDS TreeHolds, Recursion, FiniteSetTheorems

-----------------------------------------------------------------------------
(* The inductive invariant.                                                *)

\* A side record a live record names was not released.
Anchored == IsFiniteSet(recs) /\ \A r \in recs : from[r] # 0 => names[from[r]] \in Trees

\* What was never built or claimed has no side.
Fresh ==
  /\ \A r \in Records \ used : from[r] = 0
  /\ \A p \in RecordPlaces : p[1] \notin used => rows[p] = Nil /\ holds[p] = Nil
  /\ live \subseteq 1..nextId - 1
  /\ \A p \in TreePlaces : p[1] \in nextId..MaxTrees => holds[p] = Nil

\* The token kept for a place is of the tree its side names, and is kept.
Tokens ==
  /\ \A p \in Places : holds[p] # Nil => rows[p] = holds[p] \/ (p \in RecordPlaces /\ p[1] \notin recs)
  /\ \A r \in recs : rows[<<r, "side">>] \in Trees => holds[<<r, "side">>] = rows[<<r, "side">>]
  /\ \A p \in TreePlaces : rows[p] \in Trees => holds[p] = rows[p] \/ disposed

\* A token that can be reached keeps its tree.
HeldLive == \A p \in Places : holds[p] # Nil /\ p[1] \in Records \cup Reachable => holds[p] \in live

\* What is named by an object of user code, a link record or a side record.
NamedLive ==
  /\ named \subseteq live
  /\ \A r \in recs : link[r] \in live \cup {Nil}
  /\ \A r \in recs : from[r] # 0 => names[from[r]] \in live

IInv == TypeOK /\ Anchored /\ Fresh /\ LinksCounted /\ Tokens /\ HeldLive /\ NamedLive

Facts == TypeOK /\ Anchored /\ Fresh

-----------------------------------------------------------------------------
(* Constants and places.                                                   *)

LEMMA ConstantsType ==
  /\ MaxTrees \in Nat /\ MaxSideRecords \in Nat /\ Nil \notin Records /\ Nil \notin Trees
  /\ Records \cap Trees = {} /\ Trees = 1..MaxTrees /\ SideRecords = 1..MaxSideRecords
BY ConstantsAssumption DEF Trees, SideRecords

LEMMA PlaceTypes ==
  /\ \A r \in Records : \A k \in {"side", "leaf"} : <<r, k>> \in RecordPlaces /\ <<r, k>> \in Places /\ <<r, k>> \notin TreePlaces
  /\ \A t \in Trees : <<t, "row">> \in TreePlaces /\ <<t, "row">> \in Places /\ <<t, "row">> \notin RecordPlaces
  /\ \A p \in RecordPlaces : p[1] \in Records /\ p \in Places /\ (p = <<p[1], "side">> \/ p = <<p[1], "leaf">>)
  /\ \A p \in TreePlaces : p[1] \in Trees /\ p \in Places /\ p = <<p[1], "row">>
  /\ \A p \in Places : p \in RecordPlaces \/ p \in TreePlaces
  /\ \A p \in Places : p[1] \in Records <=> p \in RecordPlaces
BY ConstantsType DEF RecordPlaces, TreePlaces, Places

-----------------------------------------------------------------------------
(* What falls with a release.                                              *)

LEMMA FallenRecs ==
  ASSUME IsFiniteSet(recs), NEW own, NEW w, NEW T
  PROVE  Fallen(own, w, T) \subseteq recs
<1> DEFINE N == Cardinality(recs)
           X == SUBSET recs
           none == {}
           More(f) == {x \in recs \ own : \A p \in Places : w[p] = x => p[1] \notin (recs \ f) \cup T}
           Body(f) == [n \in 0..N |-> IF n = 0 THEN none ELSE More(f[n - 1])]
           fell == CHOOSE f : f = Body(f)
           step == [i \in 1..N |-> [f \in X |-> More(f)]]
<1>1. Fallen(own, w, T) = fell[N]
  BY DEF Fallen
<1>2. N \in Nat /\ none \in X /\ \A f : More(f) \in X
  BY FS_CardinalityType
<1> HIDE DEF More, none, X, N
<1>3. step \in [1..N -> [X -> X]]
  BY <1>2
<1>4. \A i \in 1..N, f \in X : step[i][f] = More(f)
  OBVIOUS
<1>5. \E g \in [0..N -> X] : IsRun(g, N, none, step)
  <2> HIDE DEF step
  <2> QED
    BY <1>2, <1>3, RecursiveFunction
<1>6. \E g : g = Body(g)
  <2>1. PICK g \in [0..N -> X] : IsRun(g, N, none, step)
    BY <1>5
  <2>2. \A i \in 0..N : i # 0 => i \in 1..N /\ i - 1 \in 0..N
    BY <1>2
  <2> HIDE DEF step
  <2>3. g = Body(g)
    BY <1>4, <2>1, <2>2 DEF IsRun
  <2> QED
    BY <2>3
<1>7. fell = Body(fell)
  <2> HIDE DEF Body
  <2> QED
    BY <1>6
<1> HIDE DEF fell
<1>8. N \in 0..N
  BY <1>2
<1>9. fell[N] = none \/ fell[N] = More(fell[N - 1])
  BY <1>7, <1>8
<1> QED
  BY <1>1, <1>2, <1>9 DEF X

-----------------------------------------------------------------------------
(* The trees whose token is reachable.                                     *)

\* Trees S reach no token more.
Closed(S) ==
  /\ \A t \in live : t \in named \/ links[t] > 0 => t \in S
  /\ \A t \in live, p \in Places : holds[p] = t /\ p[1] \in Records \cup S => t \in S

\* The tokens reachable are live, reach no more, and are the least such.
Reaches ==
  /\ Reachable \subseteq live /\ Closed(Reachable)
  /\ \A S : Closed(S) => Reachable \subseteq S

\* A set of trees that grows step after step stops growing before the steps run out.
LEMMA GrowthEnds ==
  ASSUME NEW N \in Nat, NEW f, f[0] \in SUBSET (1..N), NEW g \in [SUBSET (1..N) -> SUBSET (1..N)],
         \A i \in 1..N : f[i] = g[f[i - 1]], \A s \in SUBSET (1..N) : s \subseteq g[s]
  PROVE  f[N] \in SUBSET (1..N) /\ g[f[N]] = f[N]
<1> DEFINE U == SUBSET (1..N)
           Ends(i) == g[f[i]] = f[i] \/ Cardinality(f[i]) >= i
           S == {i \in 0..N : f[i] \in U /\ Ends(i)}
<1>0. \A s \in U : IsFiniteSet(s) /\ Cardinality(s) \in Nat /\ Cardinality(s) <= N /\ (Cardinality(s) = N => s = 1..N)
  <2> TAKE s \in U
  <2>1. IsFiniteSet(1..N) /\ Cardinality(1..N) = N
    BY FS_Interval
  <2>2. IsFiniteSet(s) /\ Cardinality(s) <= Cardinality(1..N) /\ (Cardinality(1..N) = Cardinality(s) => 1..N = s)
    BY <2>1, FS_Subset
  <2>3. Cardinality(s) \in Nat
    BY <2>2, FS_CardinalityType
  <2> QED
    BY <2>1, <2>2, <2>3
<1>1. 0 \in S
  <2>1. f[0] \in U /\ Cardinality(f[0]) >= 0
    BY <1>0
  <2> QED
    BY <2>1
<1>2. ASSUME NEW n \in Nat, n < N, n \in S PROVE n + 1 \in S
  <2>1. n + 1 \in 1..N /\ n + 1 \in 0..N /\ (n + 1) - 1 = n /\ f[n] \in U /\ Ends(n)
    BY <1>2
  <2>2. f[n + 1] = g[f[n]] /\ f[n + 1] \in U /\ f[n] \subseteq f[n + 1]
    BY <2>1
  <2>3. CASE g[f[n]] = f[n]
    BY <2>1, <2>2, <2>3
  <2>4. CASE g[f[n]] # f[n]
    <3>1. Cardinality(f[n]) >= n
      BY <2>1, <2>4
    <3>2. Cardinality(f[n]) <= Cardinality(f[n + 1]) /\ Cardinality(f[n]) # Cardinality(f[n + 1])
      BY <1>0, <2>1, <2>2, <2>4, FS_Subset
    <3>3. Cardinality(f[n]) \in Nat /\ Cardinality(f[n + 1]) \in Nat
      BY <1>0, <2>1, <2>2
    <3>4. Cardinality(f[n + 1]) >= n + 1
      BY <3>1, <3>2, <3>3
    <3> QED
      BY <2>1, <2>2, <3>4
  <2> QED
    BY <2>3, <2>4
<1>3. 0..N \subseteq S
  <2> HIDE DEF S
  <2> QED
    BY <1>1, <1>2, InductionTo
<1>4. N \in 0..N
  OBVIOUS
<1>5. f[N] \in U /\ Ends(N)
  BY <1>3, <1>4
<1>6. CASE Cardinality(f[N]) >= N
  <2>1. f[N] = 1..N
    BY <1>0, <1>5, <1>6
  <2>2. g[1..N] \in U /\ 1..N \subseteq g[1..N]
    OBVIOUS
  <2>3. g[1..N] = 1..N
    BY <2>2
  <2> QED
    BY <2>1, <2>3
<1> QED
  BY <1>5, <1>6

LEMMA ReachableLeast == TypeOK => Reaches
<1> SUFFICES ASSUME TypeOK PROVE Reaches
  OBVIOUS
<1> DEFINE N == MaxTrees
           X == SUBSET (1..N)
           root == {t \in live : t \in named \/ links[t] > 0}
           More(f) == f \cup {t \in live : \E p \in Places : holds[p] = t /\ p[1] \in Records \cup f}
           Body(f) == [n \in 0..N |-> IF n = 0 THEN root ELSE More(f[n - 1])]
           found == CHOOSE f : f = Body(f)
           g == [f \in X |-> More(f)]
           step == [i \in 1..N |-> g]
<1>1. Reachable = found[N]
  BY DEF Reachable
<1>2. N \in Nat /\ live \in X /\ root \in X /\ root \subseteq live /\ \A f \in X : More(f) \in X /\ f \subseteq More(f)
  BY ConstantsType DEF TypeOK
<1> HIDE DEF More, root, X, N
<1>4. g \in [X -> X] /\ \A f \in X : g[f] = More(f) /\ f \subseteq g[f]
  BY <1>2
<1>5. step \in [1..N -> [X -> X]] /\ \A i \in 1..N : step[i] = g
  BY <1>4
<1> HIDE DEF g
<1>6. \E h \in [0..N -> X] : IsRun(h, N, root, step)
  <2> HIDE DEF step
  <2> QED
    BY <1>2, <1>5, RecursiveFunction
<1>7. \E h : h = Body(h)
  <2>1. PICK h \in [0..N -> X] : IsRun(h, N, root, step)
    BY <1>6
  <2>2. \A i \in 0..N : i # 0 => i \in 1..N /\ i - 1 \in 0..N
    BY <1>2
  <2> HIDE DEF step
  <2>3. h = Body(h)
    BY <1>4, <1>5, <2>1, <2>2 DEF IsRun
  <2> QED
    BY <2>3
<1>8. found = Body(found)
  <2> HIDE DEF Body
  <2> QED
    BY <1>7
<1> HIDE DEF found
<1>9. found[0] = root /\ \A i \in 1..N : found[i] = More(found[i - 1])
  BY <1>2, <1>8
<1>10. \A i \in 0..N : found[i] \in X
  BY <1>2, <1>9, RecursiveValues
<1>11. \A i \in 1..N : found[i] = g[found[i - 1]]
  <2> TAKE i \in 1..N
  <2>1. i - 1 \in 0..N
    BY <1>2
  <2> QED
    BY <2>1, <1>4, <1>9, <1>10
<1>12. found[N] \in X /\ More(found[N]) = found[N]
  <2>1. found[N] \in X /\ g[found[N]] = found[N]
    BY <1>2, <1>4, <1>9, <1>11, GrowthEnds DEF X
  <2> QED
    BY <2>1, <1>4
<1>13. ASSUME NEW S, root \subseteq S, \A s \in X : s \subseteq S => More(s) \subseteq S
       PROVE  found[N] \subseteq S
  <2> DEFINE Y == {s \in X : s \subseteq S}
  <2>1. \A i \in 1..N : found[i - 1] \in Y => found[i] \in Y
    BY <1>2, <1>9, <1>13
  <2>2. found[0] \in Y
    BY <1>2, <1>9, <1>13
  <2>3. N \in 0..N
    BY <1>2
  <2> HIDE DEF Y
  <2>4. found[N] \in Y
    BY <1>2, <2>1, <2>2, <2>3, RecursiveValues
  <2> QED
    BY <2>4 DEF Y
<1>14. root \subseteq found[N]
  <2> DEFINE Z == {s \in X : root \subseteq s}
  <2>1. \A i \in 1..N : found[i - 1] \in Z => found[i] \in Z
    BY <1>2, <1>9
  <2>2. found[0] \in Z
    BY <1>2, <1>9
  <2>3. N \in 0..N
    BY <1>2
  <2> HIDE DEF Z
  <2>4. found[N] \in Z
    BY <1>2, <2>1, <2>2, <2>3, RecursiveValues
  <2> QED
    BY <2>4 DEF Z
<1>15. Reachable \subseteq live
  <2>1. \A s \in X : s \subseteq live => More(s) \subseteq live
    BY DEF More
  <2> QED
    BY <1>1, <1>2, <1>13, <2>1
<1>16. Closed(Reachable)
  BY <1>1, <1>12, <1>14 DEF Closed, More, root
<1>17. ASSUME NEW S, Closed(S) PROVE Reachable \subseteq S
  <2>1. root \subseteq S
    BY <1>17 DEF root, Closed
  <2>2. \A s \in X : s \subseteq S => More(s) \subseteq S
    BY <1>17 DEF More, Closed
  <2> QED
    BY <1>1, <1>13, <2>1, <2>2
<1> QED
  BY <1>15, <1>16, <1>17 DEF Reaches

LEMMA ReachableLeastAfter == TypeOK' => Reaches'
BY ReachableLeast, PTL


-----------------------------------------------------------------------------
(* The link and side records that name a tree.                             *)

LinkPart(t, R, l) == IF \E r \in R : l[r] = t THEN 1 ELSE 0
SidesOf(R, f) == {f[r] : r \in R} \ {0}
SidePart(t, S, n) == Cardinality({s \in S : n[s] = t})

LEMMA AnchorsParts ==
  /\ \A t, R, n : Anchors(t, R, n) = LinkPart(t, R, link) + SidePart(t, SidesOf(R, from), n)
  /\ \A t : Anchors(t, recs, names)' = LinkPart(t, recs', link') + SidePart(t, SidesOf(recs', from'), names')
BY DEF Anchors, LinkPart, SidesOf, SidePart

LEMMA SidesType ==
  ASSUME NEW f \in [Records -> SideRecords \cup {0}], NEW R, R \subseteq Records
  PROVE  SidesOf(R, f) \subseteq SideRecords
BY DEF SidesOf

LEMMA PartType ==
  ASSUME NEW S, S \subseteq SideRecords, NEW t, NEW n
  PROVE  IsFiniteSet(S) /\ IsFiniteSet({s \in S : n[s] = t}) /\ SidePart(t, S, n) \in Nat
<1>1. IsFiniteSet(SideRecords)
  BY ConstantsType, FS_Interval
<1>2. IsFiniteSet(S)
  BY <1>1, FS_Subset
<1>3. {s \in S : n[s] = t} \subseteq S
  OBVIOUS
<1>4. IsFiniteSet({s \in S : n[s] = t})
  BY <1>2, <1>3, FS_Subset
<1> QED
  BY <1>2, <1>4, FS_CardinalityType DEF SidePart

\* Fewer side records name fewer trees.
LEMMA PartLess ==
  ASSUME NEW S, S \subseteq SideRecords, NEW T, T \subseteq S, NEW t, NEW n, NEW m, \A s \in T : m[s] = t => n[s] = t
  PROVE  SidePart(t, T, m) <= SidePart(t, S, n)
<1>1. {s \in T : m[s] = t} \subseteq {s \in S : n[s] = t}
  OBVIOUS
<1> QED
  BY <1>1, PartType, FS_Subset DEF SidePart

LEMMA PartSame ==
  ASSUME NEW S, NEW t, NEW n, NEW m, \A s \in S : m[s] = n[s]
  PROVE  SidePart(t, S, m) = SidePart(t, S, n)
<1>1. {s \in S : m[s] = t} = {s \in S : n[s] = t}
  OBVIOUS
<1> QED
  BY <1>1 DEF SidePart

One(b) == IF b THEN 1 ELSE 0

\* A side record more, naming tree u.
LEMMA PartAdd ==
  ASSUME NEW S, S \subseteq SideRecords, NEW x, x \notin S, NEW t, NEW n, NEW m, \A s \in S : m[s] = n[s]
  PROVE  SidePart(t, S \cup {x}, m) = SidePart(t, S, n) + One(m[x] = t) /\ SidePart(t, S, n) \in Nat
<1> DEFINE A == {s \in S : n[s] = t}
<1>1. IsFiniteSet(A) /\ x \notin A /\ Cardinality(A) \in Nat
  BY PartType, FS_CardinalityType
<1>2. {s \in S \cup {x} : m[s] = t} = IF m[x] = t THEN A \cup {x} ELSE A
  OBVIOUS
<1> HIDE DEF A
<1>3. Cardinality(A \cup {x}) = Cardinality(A) + 1
  BY <1>1, FS_AddElement
<1>4. SidePart(t, S, n) = Cardinality(A)
  BY DEF SidePart, A
<1>5. SidePart(t, S \cup {x}, m) = Cardinality(IF m[x] = t THEN A \cup {x} ELSE A)
  BY <1>2 DEF SidePart
<1>6. CASE m[x] = t
  <2>1. SidePart(t, S \cup {x}, m) = Cardinality(A) + 1 /\ One(m[x] = t) = 1
    BY <1>3, <1>5, <1>6 DEF One
  <2> QED
    BY <1>1, <1>4, <2>1
<1>7. CASE m[x] # t
  <2>1. SidePart(t, S \cup {x}, m) = Cardinality(A) /\ One(m[x] = t) = 0
    BY <1>5, <1>7 DEF One
  <2> QED
    BY <1>1, <1>4, <2>1
<1> QED
  BY <1>6, <1>7

\* One less.
LEMMA PartDrop ==
  ASSUME NEW S, S \subseteq SideRecords, NEW x \in S, NEW t, NEW n
  PROVE  SidePart(t, S \ {x}, n) = SidePart(t, S, n) - One(n[x] = t) /\ SidePart(t, S, n) \in Nat
<1> DEFINE A == {s \in S : n[s] = t}
<1>1. IsFiniteSet(A) /\ Cardinality(A) \in Nat /\ (x \in A <=> n[x] = t)
  BY PartType, FS_CardinalityType
<1>2. {s \in S \ {x} : n[s] = t} = A \ {x}
  OBVIOUS
<1> HIDE DEF A
<1>3. Cardinality(A \ {x}) = IF x \in A THEN Cardinality(A) - 1 ELSE Cardinality(A)
  BY <1>1, FS_RemoveElement
<1>4. SidePart(t, S, n) = Cardinality(A)
  BY DEF SidePart, A
<1>5. SidePart(t, S \ {x}, n) = Cardinality(A \ {x})
  BY <1>2 DEF SidePart
<1>6. CASE n[x] = t
  <2>1. SidePart(t, S \ {x}, n) = Cardinality(A) - 1 /\ One(n[x] = t) = 1
    BY <1>1, <1>3, <1>5, <1>6 DEF One
  <2> QED
    BY <1>1, <1>4, <2>1
<1>7. CASE n[x] # t
  <2>1. SidePart(t, S \ {x}, n) = Cardinality(A) /\ One(n[x] = t) = 0
    BY <1>1, <1>3, <1>5, <1>7 DEF One
  <2> QED
    BY <1>1, <1>4, <2>1
<1> QED
  BY <1>6, <1>7

LEMMA AnchorsType ==
  ASSUME Facts, NEW t, NEW R, R \subseteq recs, NEW n
  PROVE  Anchors(t, R, n) \in Nat /\ SidesOf(R, from) \subseteq SideRecords
<1>1. SidesOf(R, from) \subseteq SideRecords
  BY SidesType DEF Facts, TypeOK
<1>2. SidePart(t, SidesOf(R, from), n) \in Nat
  BY <1>1, PartType
<1> QED
  BY <1>1, <1>2, AnchorsParts DEF LinkPart

\* A record that names a tree counts for it.
LEMMA NamedCounts ==
  ASSUME Facts, NEW r \in recs, NEW t \in Trees, link[r] = t \/ (from[r] # 0 /\ names[from[r]] = t)
  PROVE  Anchors(t, recs, names) >= 1
<1> DEFINE S == SidesOf(recs, from)
           A == {s \in S : names[s] = t}
<1>1. S \subseteq SideRecords /\ IsFiniteSet(A) /\ Cardinality(A) \in Nat
  BY AnchorsType, PartType, FS_CardinalityType
<1>2. Anchors(t, recs, names) = LinkPart(t, recs, link) + Cardinality(A)
  BY AnchorsParts DEF SidePart
<1>3. CASE link[r] = t
  BY <1>1, <1>2, <1>3 DEF LinkPart
<1>4. CASE from[r] # 0 /\ names[from[r]] = t
  <2>1. from[r] \in A
    BY <1>4 DEF SidesOf
  <2> HIDE DEF A
  <2>2. Cardinality(A) # 0
    BY <1>1, <2>1, FS_EmptySet
  <2> QED
    BY <1>1, <1>2, <2>2 DEF LinkPart
<1> QED
  BY <1>3, <1>4

-----------------------------------------------------------------------------
(* Releases.                                                               *)

\* What a native release does, F the records that fall with it.
Falls(F, own, w) ==
  /\ F \subseteq recs /\ recs' = recs \ F /\ owned' = own \ F
  /\ \A p \in Places : rows'[p] = IF p[1] \in F THEN Nil ELSE w[p]

LEMMA ReleasingFacts ==
  ASSUME Facts, LinksCounted, NEW own, own \subseteq recs, NEW w \in [Places -> Entries], NEW T, NEW taken \in BOOLEAN,
         Releasing(own, w, T, taken), taken => ~disposed, UNCHANGED <<link, from, disposed>>
  PROVE  /\ \E F : Falls(F, own, w)
         /\ recs' \subseteq recs /\ owned' \in SUBSET recs' /\ rows' \in [Places -> Entries]
         /\ names' \in [SideRecords -> Trees \cup {Nil}]
         /\ \A r \in recs' : from[r] # 0 => names'[from[r]] = names[from[r]]
         /\ links' \in [Trees -> Nat] /\ pending' \in [Trees -> Nat]
         /\ \A t \in Trees : links'[t] <= links[t]
         /\ LinksCounted'
<1> DEFINE F == Fallen(own, w, T)
<1>1. F \subseteq recs
  BY FallenRecs DEF Facts, Anchored
<1>2. /\ recs' = recs \ F /\ owned' = own \ F
      /\ rows' = [p \in Places |-> IF p[1] \in F THEN Nil ELSE w[p]]
      /\ names' = [s \in SideRecords |-> IF \E r \in recs' : from[r] = s THEN names[s] ELSE Nil]
  BY DEF Releasing
<1>3. /\ taken => /\ links' = [t \in Trees |-> links[t] - pending[t] - (Anchors(t, recs, names) - Anchors(t, recs', names'))]
                  /\ pending' = [t \in Trees |-> 0]
      /\ ~taken => /\ pending' = [t \in Trees |-> pending[t] + (Anchors(t, recs, names) - Anchors(t, recs', names'))]
                   /\ links' = links
  BY DEF Releasing
<1> HIDE DEF F
<1>4. Falls(F, own, w) /\ recs' \subseteq recs /\ owned' \in SUBSET recs' /\ rows' \in [Places -> Entries]
  BY <1>1, <1>2 DEF Falls, Entries
<1>5. /\ names \in [SideRecords -> Trees \cup {Nil}] /\ from \in [Records -> SideRecords \cup {0}] /\ recs \subseteq Records
      /\ links \in [Trees -> Nat] /\ pending \in [Trees -> Nat]
  BY DEF Facts, TypeOK
<1>6. names' \in [SideRecords -> Trees \cup {Nil}] /\ \A s \in SideRecords : names'[s] \in {names[s], Nil}
  BY <1>2, <1>5
<1>7. \A r \in recs' : from[r] # 0 => names'[from[r]] = names[from[r]]
  BY <1>2, <1>4, <1>5
<1>8. ASSUME NEW t \in Trees
      PROVE  /\ Anchors(t, recs', names') \in Nat /\ Anchors(t, recs, names) \in Nat
             /\ Anchors(t, recs', names') <= Anchors(t, recs, names)
             /\ Anchors(t, recs, names)' = Anchors(t, recs', names')
  <2>1. SidesOf(recs', from) \subseteq SidesOf(recs, from) /\ SidesOf(recs, from) \subseteq SideRecords
    BY <1>4, AnchorsType DEF SidesOf
  <2>2. \A s \in SidesOf(recs', from) : names'[s] = t => names[s] = t
    BY <1>6, <2>1, ConstantsType
  <2>3. SidePart(t, SidesOf(recs', from), names') <= SidePart(t, SidesOf(recs, from), names)
    BY <2>1, <2>2, PartLess
  <2>4. LinkPart(t, recs', link) <= LinkPart(t, recs, link) /\ LinkPart(t, recs', link) \in Nat /\ LinkPart(t, recs, link) \in Nat
    BY <1>4 DEF LinkPart
  <2>5. SidePart(t, SidesOf(recs', from), names') \in Nat /\ SidePart(t, SidesOf(recs, from), names) \in Nat
    BY <2>1, PartType
  <2> QED
    BY <2>3, <2>4, <2>5, AnchorsParts
<1> DEFINE A(t) == Anchors(t, recs, names)
           B(t) == Anchors(t, recs', names')
<1>9. \A t \in Trees : B(t) \in Nat /\ A(t) \in Nat /\ B(t) <= A(t) /\ A(t)' = B(t)
  BY <1>8
<1> HIDE DEF A, B
<1>10. CASE taken
  <2>1. ~disposed /\ \A t \in Trees : links[t] = A(t) + pending[t]
    BY <1>10 DEF LinksCounted, A
  <2>2. /\ links' = [t \in Trees |-> links[t] - pending[t] - (A(t) - B(t))]
        /\ pending' = [t \in Trees |-> 0]
    BY <1>3, <1>10 DEF A, B
  <2>3. \A t \in Trees : links'[t] = B(t) /\ pending'[t] = 0 /\ links'[t] <= links[t]
    BY <1>5, <1>9, <2>1, <2>2
  <2>4. links' \in [Trees -> Nat] /\ pending' \in [Trees -> Nat]
    <3>1. \A t \in Trees : links[t] - pending[t] - (A(t) - B(t)) \in Nat
      BY <1>5, <1>9, <2>1
    <3> QED
      BY <2>2, <3>1
  <2>5. LinksCounted'
    BY <1>9, <2>3 DEF LinksCounted, A
  <2> QED
    BY <1>4, <1>6, <1>7, <2>3, <2>4, <2>5
<1>11. CASE ~taken
  <2>1. pending' = [t \in Trees |-> pending[t] + (A(t) - B(t))] /\ links' = links
    BY <1>3, <1>11 DEF A, B
  <2>2. \A t \in Trees : pending[t] + (A(t) - B(t)) \in Nat
    BY <1>5, <1>9
  <2>3. pending' \in [Trees -> Nat] /\ links' \in [Trees -> Nat]
    BY <1>5, <2>1, <2>2
  <2>4. \A t \in Trees : links'[t] <= links[t]
    BY <1>5, <2>1
  <2>5. ASSUME ~disposed, NEW t \in Trees PROVE links'[t] = B(t) + pending'[t]
    BY <2>1, <2>5, <1>5, <1>9 DEF LinksCounted, A
  <2>6. LinksCounted'
    BY <1>9, <2>5 DEF LinksCounted, A
  <2> QED
    BY <1>4, <1>6, <1>7, <2>3, <2>4, <2>6
<1> QED
  BY <1>10, <1>11


-----------------------------------------------------------------------------
(* What every step must keep of the tokens that can be reached.            *)

LEMMA NamedReached == IInv => named \subseteq Reachable /\ named \subseteq live /\ Reachable \subseteq live
BY ReachableLeast DEF IInv, NamedLive, Reaches, Closed

\* A step that makes nothing but reachable tokens reachable keeps reachable no others.
LEMMA ReachLess ==
  ASSUME IInv, TypeOK', live' \subseteq live, named' \subseteq Reachable,
         \A t \in Trees : links'[t] > 0 => links[t] > 0 \/ t \in Reachable,
         \A p \in Places : holds'[p] # Nil => holds'[p] = holds[p] \/ holds'[p] \in Reachable
  PROVE  Reachable' \subseteq Reachable
<1>1. Reaches /\ Reaches'
  BY ReachableLeast, ReachableLeastAfter DEF IInv
<1> DEFINE S == Reachable
<1>2. \A t \in live' : t \in named' \/ links'[t] > 0 => t \in S
  BY <1>1 DEF Reaches, Closed, IInv, TypeOK
<1>3. \A t \in live', p \in Places : holds'[p] = t /\ p[1] \in Records \cup S => t \in S
  BY SMTT(30), <1>1, ConstantsType DEF Reaches, Closed, IInv, TypeOK
<1>4. \A T : (/\ \A t \in live' : t \in named' \/ links'[t] > 0 => t \in T
              /\ \A t \in live', p \in Places : holds'[p] = t /\ p[1] \in Records \cup T => t \in T)
             => Reachable' \subseteq T
  BY <1>1 DEF Reaches, Closed
<1> HIDE DEF S
<1>5. Reachable' \subseteq S
  BY <1>2, <1>3, <1>4
<1> QED
  BY <1>5 DEF S

\* A step that keeps tokens of live trees only, and none reachable more, keeps the rest live.
LEMMA HeldKept ==
  ASSUME IInv, Reachable' \subseteq Reachable, live \subseteq live',
         \A p \in Places : holds'[p] # Nil => holds'[p] = holds[p] \/ holds'[p] \in live
  PROVE  HeldLive'
BY DEF HeldLive, IInv

\* What a record's side records name is there as long as it names live trees.
LEMMA AnchoredAfter ==
  ASSUME TypeOK', IsFiniteSet(recs'), NamedLive'
  PROVE  Anchored'
BY DEF Anchored, NamedLive, TypeOK

\* What a step that only reads, or forgets, leaves of the invariant.
LEMMA SameHolds ==
  ASSUME IInv, TypeOK', named' \subseteq Reachable, UNCHANGED <<nextId, live, links, pending, records, rows, holds, disposed>>
  PROVE  IInv'
<1>1. Fresh' /\ Anchored' /\ Tokens'
  BY DEF IInv, Fresh, Anchored, Tokens, records
<1>2. LinksCounted'
  BY DEF IInv, LinksCounted, Anchors, records
<1>3. Reachable' \subseteq Reachable
  BY ReachLess
<1>4. HeldLive'
  BY <1>3, HeldKept
<1>5. NamedLive'
  BY NamedReached DEF IInv, NamedLive, records
<1> QED
  BY <1>1, <1>2, <1>4, <1>5 DEF IInv

LEMMA ForgetKeeps == ASSUME IInv, NEW t \in Trees, Forget(t) PROVE IInv'
<1>1. TypeOK'
  BY DEF Forget, IInv, TypeOK, records
<1>2. named' \subseteq Reachable
  BY NamedReached DEF Forget
<1> QED
  BY <1>1, <1>2, SameHolds DEF Forget

\* The token a read finds is reachable.
LEMMA TokenReached ==
  ASSUME IInv, NEW p \in Places, p[1] \in recs \cup named, NEW e, Token(p, e) # Nil
  PROVE  Token(p, e) = e /\ e \in Trees /\ e \in Reachable
<1>1. Token(p, e) = e /\ e \in Trees /\ (e = p[1] \/ \E q \in Places : holds[q] = e /\ (p = q \/ {p, q} \subseteq RecordPlaces))
  BY DEF Token
<1>2. Reaches /\ recs \subseteq Records /\ p[1] \in Records \cup Reachable
  BY NamedReached, ReachableLeast DEF IInv, TypeOK
<1>3. CASE e = p[1]
  BY <1>1, <1>2, <1>3, NamedReached, ConstantsType
<1>4. CASE \E q \in Places : holds[q] = e /\ (p = q \/ {p, q} \subseteq RecordPlaces)
  <2>1. PICK q \in Places : holds[q] = e /\ (p = q \/ {p, q} \subseteq RecordPlaces)
    BY <1>4
  <2>2. q[1] \in Records \cup Reachable /\ e # Nil
    BY <1>1, <1>2, <2>1, PlaceTypes, ConstantsType
  <2>3. e \in live
    BY <2>1, <2>2 DEF IInv, HeldLive
  <2> QED
    BY <1>1, <1>2, <2>1, <2>2, <2>3 DEF Reaches, Closed
<1> QED
  BY <1>1, <1>3, <1>4

LEMMA ReadSideKeeps == ASSUME IInv, NEW p \in Places, ReadSide(p) PROVE IInv'
<1>1. Token(p, rows[p]) \in Reachable /\ Token(p, rows[p]) \in Trees
  BY TokenReached DEF ReadSide
<1>2. TypeOK'
  BY <1>1 DEF ReadSide, IInv, TypeOK, records
<1>3. named' \subseteq Reachable
  BY <1>1, NamedReached DEF ReadSide
<1> QED
  BY <1>2, <1>3, SameHolds DEF ReadSide

LEMMA ReadLinkKeeps == ASSUME IInv, NEW r \in Records, ReadLink(r) PROVE IInv'
<1>1. link[r] \in live /\ links[link[r]] > 0
  BY DEF ReadLink, IInv, NamedLive
<1>2. link[r] \in Reachable /\ link[r] \in Trees
  BY <1>1, ReachableLeast DEF Reaches, Closed, IInv, TypeOK
<1>3. TypeOK'
  BY <1>2 DEF ReadLink, IInv, TypeOK, records
<1>4. named' \subseteq Reachable
  BY <1>2, NamedReached DEF ReadLink
<1> QED
  BY <1>3, <1>4, SameHolds DEF ReadLink

LEMMA ParseKeeps == ASSUME IInv, Parse PROVE IInv'
<1> DEFINE n == nextId
<1>1. n \in Trees /\ n \in Nat /\ nextId' = n + 1 /\ live' = live \cup {n} /\ named' = named \cup {n}
      /\ UNCHANGED <<links, pending, records, rows, holds, disposed>>
  BY ConstantsType DEF Parse, IInv, TypeOK
<1>2. live \subseteq 1..n - 1
  BY DEF IInv, Fresh
<1> HIDE DEF n
<1>3. TypeOK'
  <2>1. nextId' \in 1..MaxTrees + 1
    BY <1>1, ConstantsType
  <2> QED
    BY <1>1, <2>1 DEF IInv, TypeOK, records
<1>4. Fresh'
  <2>1. live' \subseteq 1..nextId' - 1
    <3>1. n \in 1..(n + 1) - 1 /\ 1..n - 1 \subseteq 1..(n + 1) - 1
      BY <1>1, ConstantsType
    <3> QED
      BY <1>1, <1>2, <3>1
  <2>2. \A p \in TreePlaces : p[1] \in nextId'..MaxTrees => p[1] \in n..MaxTrees
    BY <1>1, ConstantsType
  <2> QED
    BY <1>1, <2>1, <2>2 DEF IInv, Fresh, records, n
<1>5. Anchored' /\ Tokens'
  BY <1>1 DEF IInv, Anchored, Tokens, records
<1>6. LinksCounted'
  BY <1>1 DEF IInv, LinksCounted, Anchors, records
<1>7. NamedLive'
  BY <1>1 DEF IInv, NamedLive, records
<1>8. \A p \in Places : p[1] = n => holds[p] = Nil
  <2> SUFFICES ASSUME NEW p \in Places, p[1] = n PROVE holds[p] = Nil
    OBVIOUS
  <2>1. p \in TreePlaces /\ n \in nextId..MaxTrees
    BY <1>1, PlaceTypes, ConstantsType DEF n
  <2> QED
    BY <2>1 DEF IInv, Fresh
<1>9. Reachable' \subseteq Reachable \cup {n}
  <2>1. Reaches /\ Reaches'
    BY <1>3, ReachableLeast, ReachableLeastAfter DEF IInv
  <2> DEFINE S == Reachable \cup {n}
  <2>2. \A t \in live' : t \in named' \/ links'[t] > 0 => t \in S
    BY <1>1, <2>1 DEF Reaches, Closed
  <2>3. \A t \in live', p \in Places : holds'[p] = t /\ p[1] \in Records \cup S => t \in S
    BY <1>1, <1>8, <2>1, ConstantsType DEF Reaches, Closed, IInv, TypeOK
  <2>4. \A T : (/\ \A t \in live' : t \in named' \/ links'[t] > 0 => t \in T
                /\ \A t \in live', p \in Places : holds'[p] = t /\ p[1] \in Records \cup T => t \in T)
               => Reachable' \subseteq T
    BY <2>1 DEF Reaches, Closed
  <2> HIDE DEF S
  <2>5. Reachable' \subseteq S
    BY <2>2, <2>3, <2>4
  <2> QED
    BY <2>5 DEF S
<1>10. HeldLive'
  BY <1>1, <1>8, <1>9 DEF HeldLive, IInv
<1> QED
  BY <1>3, <1>4, <1>5, <1>6, <1>7, <1>10 DEF IInv

LEMMA DisposeEngineKeeps == ASSUME IInv, DisposeEngine PROVE IInv'
<1>0. /\ disposed' = TRUE /\ recs' = {} /\ owned' = {} /\ names' = [s \in SideRecords |-> Nil]
      /\ link' = [r \in Records |-> Nil] /\ from' = [r \in Records |-> 0]
      /\ UNCHANGED <<nextId, live, named, links, pending, used, rows, holds>>
  BY DEF DisposeEngine, trees
<1>1. TypeOK'
  BY <1>0 DEF IInv, TypeOK
<1>2. Fresh'
  BY <1>0 DEF IInv, Fresh
<1>3. IsFiniteSet(recs')
  BY <1>0, FS_EmptySet
<1>4. Tokens'
  BY <1>0 DEF IInv, Tokens
<1>5. LinksCounted'
  BY <1>0 DEF LinksCounted
<1>6. NamedLive'
  BY <1>0 DEF IInv, NamedLive
<1>7. Reachable' \subseteq Reachable
  BY <1>0, <1>1, ReachLess, NamedReached
<1>8. HeldLive'
  BY <1>0, <1>7, HeldKept
<1> QED
  BY <1>1, <1>2, <1>3, <1>4, <1>5, <1>6, <1>8, AnchoredAfter DEF IInv

LEMMA WriteHalfDoneKeeps == ASSUME IInv, NEW p \in Places, NEW e \in Entries, WriteHalfDone(p, e) PROVE IInv'
<1>0. /\ disposed /\ p[1] \in named /\ rows[p] \in Records /\ rows' = [rows EXCEPT ![p] = e]
      /\ UNCHANGED <<nextId, live, named, links, pending, used, recs, owned, link, from, names, holds, disposed>>
  BY DEF WriteHalfDone, trees, records
<1>1. p \in TreePlaces /\ p \notin RecordPlaces
  BY <1>0, PlaceTypes, ConstantsType DEF IInv, TypeOK
<1>2. TypeOK'
  BY <1>0 DEF IInv, TypeOK
<1>3. holds[p] = Nil
  BY <1>0, <1>1, ConstantsType DEF IInv, Tokens, TypeOK
<1>4. Fresh'
  BY <1>0, <1>1 DEF IInv, Fresh, TypeOK, Places
<1>5. Tokens'
  <2>1. recs = {}
    BY <1>0 DEF IInv, TypeOK
  <2> QED
    BY <1>0, <1>3, <2>1 DEF IInv, Tokens, TypeOK
<1>6. LinksCounted'
  BY <1>0 DEF LinksCounted
<1>7. NamedLive' /\ Anchored'
  BY <1>0 DEF IInv, NamedLive, Anchored
<1>8. Reachable' \subseteq Reachable
  BY <1>0, <1>2, ReachLess, NamedReached
<1>9. HeldLive'
  BY <1>0, <1>8, HeldKept
<1> QED
  BY <1>2, <1>4, <1>5, <1>6, <1>7, <1>9 DEF IInv


-----------------------------------------------------------------------------
(* Releases: a builder's handle, a tree's sides, an overwritten side.      *)

LEMMA ReleasingKeeps ==
  ASSUME IInv, NEW own, own \subseteq recs, NEW w \in [Places -> Entries], NEW T, NEW taken \in BOOLEAN,
         Releasing(own, w, T, taken), taken => ~disposed, UNCHANGED <<nextId, named, used, link, from, disposed>>,
         live' \subseteq live, holds' \in [Places -> Trees \cup {Nil}],
         NEW P \in SUBSET Places, \A p \in P : p[1] \in recs \cup live,
         \A p \in Places \ P : w[p] = rows[p] /\ holds'[p] = holds[p],
         \A p \in P : (holds'[p] = Nil /\ w[p] \notin Trees) \/ (holds'[p] = w[p] /\ w[p] \in named)
  PROVE  /\ TypeOK' /\ IsFiniteSet(recs') /\ Fresh' /\ Tokens' /\ LinksCounted' /\ Reachable' \subseteq Reachable
         /\ recs' \subseteq recs /\ \A r \in recs' : from[r] # 0 => names'[from[r]] = names[from[r]]
<1>1. /\ \E F : Falls(F, own, w)
      /\ recs' \subseteq recs /\ owned' \in SUBSET recs' /\ rows' \in [Places -> Entries]
      /\ names' \in [SideRecords -> Trees \cup {Nil}]
      /\ \A r \in recs' : from[r] # 0 => names'[from[r]] = names[from[r]]
      /\ links' \in [Trees -> Nat] /\ pending' \in [Trees -> Nat]
      /\ \A t \in Trees : links'[t] <= links[t]
      /\ LinksCounted'
  BY ReleasingFacts DEF IInv, Facts
<1>2. PICK F : Falls(F, own, w)
  BY <1>1
<1>3. TypeOK'
  <2>1. TypeOK
    BY DEF IInv
  <2>2. recs' \in SUBSET used' /\ (disposed' => recs' = {}) /\ live' \in SUBSET Trees /\ named' \in SUBSET Trees
    BY <1>1, <2>1 DEF TypeOK
  <2> QED
    BY <1>1, <2>1, <2>2 DEF TypeOK
<1>4. IsFiniteSet(recs')
  BY <1>1, FS_Subset DEF IInv, Anchored
<1>5. recs \subseteq Records /\ F \subseteq Records /\ live \subseteq Trees /\ recs \subseteq used
  BY <1>2 DEF IInv, TypeOK, Falls
<1>6. Fresh'
  <2>1. Fresh
    BY DEF IInv
  <2>2. \A r \in Records \ used' : from'[r] = 0
    BY <2>1 DEF Fresh
  <2>3. ASSUME NEW p \in RecordPlaces, p[1] \notin used' PROVE rows'[p] = Nil /\ holds'[p] = Nil
    <3>1. p \in Places \ P
      BY <1>5, <2>3, PlaceTypes, ConstantsType
    <3> QED
      BY <1>2, <2>1, <2>3, <3>1 DEF Fresh, Falls
  <2>4. live' \subseteq 1..nextId' - 1
    BY <2>1 DEF Fresh
  <2>5. ASSUME NEW p \in TreePlaces, p[1] \in nextId'..MaxTrees PROVE holds'[p] = Nil
    <3>1. p[1] \notin 1..nextId - 1
      BY <2>5, ConstantsType DEF IInv, TypeOK
    <3>2. p \in Places \ P
      BY <1>5, <2>1, <3>1, PlaceTypes, ConstantsType DEF Fresh
    <3> QED
      BY <2>1, <2>5, <3>2 DEF Fresh
  <2> QED
    BY <2>2, <2>3, <2>4, <2>5 DEF Fresh
<1>7. Tokens'
  <2>1. Tokens
    BY DEF IInv
  <2>2. ASSUME NEW p \in Places, holds'[p] # Nil PROVE rows'[p] = holds'[p] \/ (p \in RecordPlaces /\ p[1] \notin recs')
    <3>1. CASE p[1] \in F
      BY <1>2, <1>5, <3>1, PlaceTypes DEF Falls
    <3>2. CASE p[1] \notin F
      <4>1. rows'[p] = w[p]
        BY <1>2, <3>2 DEF Falls
      <4>2. CASE p \in P
        BY <2>2, <4>1, <4>2
      <4>3. CASE p \notin P
        BY <1>1, <2>1, <2>2, <4>1, <4>3 DEF Tokens
      <4> QED
        BY <4>2, <4>3
    <3> QED
      BY <3>1, <3>2
  <2>3. ASSUME NEW p \in Places, p[1] \notin F, p \in P, rows'[p] \in Trees PROVE holds'[p] = rows'[p]
    BY <1>2, <2>3 DEF Falls
  <2>4. ASSUME NEW r \in recs', rows'[<<r, "side">>] \in Trees PROVE holds'[<<r, "side">>] = rows'[<<r, "side">>]
    <3>1. r \notin F /\ r \in recs
      BY <1>2 DEF Falls
    <3> DEFINE p == <<r, "side">>
    <3>2. p \in Places /\ p[1] = r
      BY <1>5, <3>1, PlaceTypes
    <3>3. p \notin P => rows'[p] = rows[p] /\ holds'[p] = holds[p]
      BY <1>2, <3>1, <3>2 DEF Falls
    <3>4. rows[p] \in Trees => holds[p] = rows[p]
      BY <2>1, <3>1 DEF Tokens
    <3>5. rows'[p] \in Trees
      BY <2>4
    <3> HIDE DEF p
    <3>6. holds'[p] = rows'[p]
      BY <2>3, <3>1, <3>2, <3>3, <3>4, <3>5
    <3> QED
      BY <3>6 DEF p
  <2>5. ASSUME NEW p \in TreePlaces, rows'[p] \in Trees PROVE holds'[p] = rows'[p] \/ disposed'
    <3>1. p \in Places /\ p[1] \notin F
      BY <1>5, PlaceTypes, ConstantsType
    <3>2. p \notin P => rows'[p] = rows[p] /\ holds'[p] = holds[p]
      BY <1>2, <3>1 DEF Falls
    <3>3. rows[p] \in Trees => holds[p] = rows[p] \/ disposed
      BY <2>1 DEF Tokens
    <3> QED
      BY <2>3, <2>5, <3>1, <3>2, <3>3
  <2> QED
    BY <2>2, <2>4, <2>5 DEF Tokens
<1>8. Reachable' \subseteq Reachable
  <2>1. \A t \in Trees : links'[t] > 0 => links[t] > 0
    <3>1. \A t \in Trees : links[t] \in Nat /\ links'[t] \in Nat
      BY <1>1 DEF IInv, TypeOK
    <3> QED
      BY <1>1, <3>1
  <2>2. \A p \in Places : holds'[p] # Nil => holds'[p] = holds[p] \/ holds'[p] \in Reachable
    BY NamedReached
  <2>3. named' \subseteq Reachable
    BY NamedReached
  <2> QED
    BY <1>3, <2>1, <2>2, <2>3, ReachLess
<1> QED
  BY <1>1, <1>3, <1>4, <1>6, <1>7, <1>8

LEMMA NamedLiveLess ==
  ASSUME IInv, recs' \subseteq recs, \A r \in recs' : from[r] # 0 => names'[from[r]] = names[from[r]],
         UNCHANGED <<link, from, named, live>>
  PROVE  NamedLive'
BY DEF IInv, NamedLive

LEMMA ReleaseKeeps == ASSUME IInv, NEW r \in Records, Release(r) PROVE IInv'
<1>1. /\ Releasing(owned \ {r}, rows, live, TRUE) /\ ~disposed /\ owned \ {r} \subseteq recs /\ rows \in [Places -> Entries]
      /\ UNCHANGED <<nextId, live, named, used, link, from, holds, disposed>>
  BY DEF Release, trees, IInv, TypeOK
<1> DEFINE P == {}
<1>2. /\ TypeOK' /\ IsFiniteSet(recs') /\ Fresh' /\ Tokens' /\ LinksCounted' /\ Reachable' \subseteq Reachable
      /\ recs' \subseteq recs /\ \A q \in recs' : from[q] # 0 => names'[from[q]] = names[from[q]]
  <2>1. /\ P \in SUBSET Places /\ \A p \in P : p[1] \in recs \cup live
        /\ \A p \in Places \ P : rows[p] = rows[p] /\ holds'[p] = holds[p]
        /\ \A p \in P : (holds'[p] = Nil /\ rows[p] \notin Trees) \/ (holds'[p] = rows[p] /\ rows[p] \in named)
    BY <1>1
  <2>2. holds' \in [Places -> Trees \cup {Nil}] /\ live' \subseteq live
    BY <1>1 DEF IInv, TypeOK
  <2> HIDE DEF P
  <2> QED
    BY <1>1, <2>1, <2>2, ReleasingKeeps
<1>3. HeldLive'
  BY <1>1, <1>2, HeldKept
<1>4. NamedLive'
  BY <1>1, <1>2, NamedLiveLess
<1> QED
  BY <1>2, <1>3, <1>4, AnchoredAfter DEF IInv

LEMMA WriteSideKeeps == ASSUME IInv, NEW p \in Places, NEW e \in Entries, WriteSide(p, e) PROVE IInv'
<1> DEFINE w == [rows EXCEPT ![p] = e]
<1>1. /\ Releasing(owned \ {e}, w, live, FALSE) /\ p[1] \in recs \cup named /\ e \in named \cup recs \cup {Nil}
      /\ holds' = HoldSideEntries(p, e)
      /\ UNCHANGED <<nextId, live, named, used, link, from, disposed>>
  BY DEF WriteSide, trees, Entry
<1>2. /\ TypeOK /\ recs \subseteq Records /\ named \subseteq live
  BY NamedReached DEF IInv, TypeOK
<1>3. holds' = [holds EXCEPT ![p] = IF e \in Trees THEN e ELSE Nil]
  BY <1>1 DEF HoldSideEntries
<1>4. e \in Trees => e \in named
  BY <1>1, <1>2, ConstantsType
<1>5. holds' \in [Places -> Trees \cup {Nil}] /\ w \in [Places -> Entries] /\ w[p] = e /\ holds'[p] = (IF e \in Trees THEN e ELSE Nil)
      /\ \A q \in Places \ {p} : w[q] = rows[q] /\ holds'[q] = holds[q]
  BY <1>2, <1>3 DEF TypeOK
<1> HIDE DEF w
<1> DEFINE P == {p}
<1>6. /\ TypeOK' /\ IsFiniteSet(recs') /\ Fresh' /\ Tokens' /\ LinksCounted' /\ Reachable' \subseteq Reachable
      /\ recs' \subseteq recs /\ \A q \in recs' : from[q] # 0 => names'[from[q]] = names[from[q]]
  <2>1. /\ P \in SUBSET Places /\ \A q \in P : q[1] \in recs \cup live
        /\ \A q \in Places \ P : w[q] = rows[q] /\ holds'[q] = holds[q]
        /\ \A q \in P : (holds'[q] = Nil /\ w[q] \notin Trees) \/ (holds'[q] = w[q] /\ w[q] \in named)
    BY <1>1, <1>2, <1>4, <1>5
  <2>2. owned \ {e} \subseteq recs /\ live' \subseteq live
    BY <1>1, <1>2 DEF TypeOK
  <2> HIDE DEF P
  <2> QED
    BY <1>1, <1>5, <2>1, <2>2, ReleasingKeeps
<1>7. HeldLive'
  <2>1. \A q \in Places : holds'[q] # Nil => holds'[q] = holds[q] \/ holds'[q] \in live
    BY <1>2, <1>4, <1>5
  <2> QED
    BY <1>1, <1>6, <2>1, HeldKept
<1>8. NamedLive'
  BY <1>1, <1>6, NamedLiveLess
<1> QED
  BY <1>6, <1>7, <1>8, AnchoredAfter DEF IInv

LEMMA DisposeTreeKeeps == ASSUME IInv, NEW t \in Trees, DisposeTree(t) PROVE IInv'
<1> DEFINE p == <<t, "row">>
           w == [rows EXCEPT ![p] = Nil]
<1>1. /\ Releasing(owned, w, live', FALSE) /\ t \in live /\ t \notin Reachable /\ live' = live \ {t}
      /\ holds' = [holds EXCEPT ![p] = Nil]
      /\ UNCHANGED <<nextId, named, used, link, from, disposed>>
  BY DEF DisposeTree
<1>2. /\ TypeOK /\ recs \subseteq Records /\ named \subseteq live /\ Nil \notin Trees /\ p \in Places /\ p[1] = t
  BY NamedReached, ConstantsType, PlaceTypes DEF IInv, TypeOK
<1>3. holds' \in [Places -> Trees \cup {Nil}] /\ w \in [Places -> Entries] /\ w[p] = Nil /\ holds'[p] = Nil
      /\ \A q \in Places \ {p} : w[q] = rows[q] /\ holds'[q] = holds[q]
  BY <1>1, <1>2 DEF TypeOK, Entries
<1> HIDE DEF w, p
<1> DEFINE P == {p}
<1>4. /\ TypeOK' /\ IsFiniteSet(recs') /\ Fresh' /\ Tokens' /\ LinksCounted' /\ Reachable' \subseteq Reachable
      /\ recs' \subseteq recs /\ \A q \in recs' : from[q] # 0 => names'[from[q]] = names[from[q]]
  <2>1. /\ P \in SUBSET Places /\ \A q \in P : q[1] \in recs \cup live
        /\ \A q \in Places \ P : w[q] = rows[q] /\ holds'[q] = holds[q]
        /\ \A q \in P : (holds'[q] = Nil /\ w[q] \notin Trees) \/ (holds'[q] = w[q] /\ w[q] \in named)
    BY <1>1, <1>2, <1>3
  <2>2. owned \subseteq recs /\ live' \subseteq live
    BY <1>1, <1>2 DEF TypeOK
  <2> HIDE DEF P
  <2> QED
    BY <1>1, <1>3, <2>1, <2>2, ReleasingKeeps
<1>5. Reaches
  BY ReachableLeast DEF IInv
<1>6. HeldLive'
  <2> SUFFICES ASSUME NEW q \in Places, holds'[q] # Nil, q[1] \in Records \cup Reachable' PROVE holds'[q] \in live'
    BY DEF HeldLive
  <2>1. holds'[q] = holds[q] /\ q[1] \in Records \cup Reachable
    BY <1>2, <1>3, <1>4
  <2>2. holds[q] \in live
    BY <2>1 DEF IInv, HeldLive
  <2>3. holds[q] \in Reachable
    BY <1>5, <2>1, <2>2 DEF Reaches, Closed
  <2> QED
    BY <1>1, <2>1, <2>2, <2>3
<1>7. t \notin named /\ ~(links[t] > 0)
  BY <1>1, <1>5 DEF Reaches, Closed
<1>8. ASSUME NEW r \in recs', link[r] = t \/ (from[r] # 0 /\ names[from[r]] = t) PROVE FALSE
  <2>1. ~disposed /\ r \in recs
    BY <1>2, <1>4, <1>8 DEF TypeOK
  <2>2. links[t] = Anchors(t, recs, names) + pending[t]
    BY <2>1 DEF IInv, LinksCounted
  <2>3. Anchors(t, recs, names) >= 1
    BY <1>8, <2>1, NamedCounts DEF IInv, Facts
  <2>4. Anchors(t, recs, names) \in Nat
    BY AnchorsType DEF IInv, Facts
  <2>5. pending[t] \in Nat
    BY <1>2 DEF TypeOK
  <2> HIDE DEF IInv
  <2> QED
    BY <1>7, <2>2, <2>3, <2>4, <2>5
<1>9. NamedLive'
  <2>1. NamedLive
    BY DEF IInv
  <2> QED
    BY <1>1, <1>2, <1>4, <1>7, <1>8, <2>1 DEF NamedLive
<1> QED
  BY <1>4, <1>6, <1>9, AnchoredAfter DEF IInv


-----------------------------------------------------------------------------
(* New records: builders, edits, nodes rebuilt.                            *)

LEMMA AnchorsAfter ==
  ASSUME NEW t
  PROVE  Anchors(t, recs, names)' = LinkPart(t, recs', link') + SidePart(t, SidesOf(recs', from'), names')
BY AnchorsParts

\* What a new record leaves: nothing falls and no tree's token is lost.
LEMMA AddedKeeps ==
  ASSUME IInv, NEW r \in Records \ used, used' = used \cup {r}, recs' = recs \cup {r},
         UNCHANGED <<nextId, live, named, disposed>>,
         \A q \in Records : q # r => from'[q] = from[q],
         \A q \in Places : q[1] # r => rows'[q] = rows[q] /\ holds'[q] = holds[q],
         LET side == <<r, "side">>
             leaf == <<r, "leaf">>
         IN /\ holds'[side] # Nil => rows'[side] = holds'[side]
            /\ rows'[side] \in Trees => holds'[side] = rows'[side]
            /\ holds'[leaf] # Nil => rows'[leaf] = holds'[leaf]
  PROVE  IsFiniteSet(recs') /\ Fresh' /\ Tokens'
<1>1. IsFiniteSet(recs')
  BY FS_AddElement DEF IInv, Anchored
<1>2. Fresh'
  <2>1. Fresh
    BY DEF IInv
  <2>2. \A q \in Records \ used' : from'[q] = 0
    BY <2>1 DEF Fresh
  <2>3. \A q \in RecordPlaces : q[1] \notin used' => rows'[q] = Nil /\ holds'[q] = Nil
    BY <2>1, PlaceTypes DEF Fresh
  <2>4. \A q \in TreePlaces : q[1] \in nextId'..MaxTrees => holds'[q] = Nil
    BY <2>1, PlaceTypes, ConstantsType DEF Fresh
  <2>5. live' \subseteq 1..nextId' - 1
    BY <2>1 DEF Fresh
  <2> QED
    BY <2>2, <2>3, <2>4, <2>5 DEF Fresh
<1>3. Tokens'
  <2>1. Tokens
    BY DEF IInv
  <2>2. ASSUME NEW q \in Places, holds'[q] # Nil PROVE rows'[q] = holds'[q] \/ (q \in RecordPlaces /\ q[1] \notin recs')
    <3>1. CASE q[1] = r
      <4>1. q = <<r, "side">> \/ q = <<r, "leaf">>
        BY <3>1, PlaceTypes
      <4> QED
        BY <2>2, <4>1
    <3>2. CASE q[1] # r
      BY <2>1, <2>2, <3>2 DEF Tokens
    <3> QED
      BY <3>1, <3>2
  <2>3. ASSUME NEW q \in recs', rows'[<<q, "side">>] \in Trees PROVE holds'[<<q, "side">>] = rows'[<<q, "side">>]
    <3>1. CASE q = r
      BY <2>3, <3>1
    <3>2. CASE q # r
      <4>1. q \in recs /\ q \in Records
        BY <3>2 DEF IInv, TypeOK
      <4> DEFINE p == <<q, "side">>
      <4>2. p \in Places /\ p[1] # r
        BY <3>2, <4>1, PlaceTypes
      <4>3. rows[p] \in Trees => holds[p] = rows[p]
        BY <2>1, <4>1 DEF Tokens
      <4>4. rows'[p] \in Trees
        BY <2>3
      <4> HIDE DEF p
      <4>5. holds'[p] = rows'[p]
        BY <4>2, <4>3, <4>4
      <4> QED
        BY <4>5 DEF p
    <3> QED
      BY <3>1, <3>2
  <2>4. ASSUME NEW q \in TreePlaces, rows'[q] \in Trees PROVE holds'[q] = rows'[q] \/ disposed'
    BY <2>1, <2>4, PlaceTypes, ConstantsType DEF Tokens
  <2> QED
    BY <2>2, <2>3, <2>4 DEF Tokens
<1> QED
  BY <1>1, <1>2, <1>3

LEMMA FreshPlaces ==
  ASSUME IInv, NEW r \in Records \ used
  PROVE  /\ from[r] = 0 /\ r \notin recs
         /\ <<r, "side">> \in Places /\ rows[<<r, "side">>] = Nil /\ holds[<<r, "side">>] = Nil
         /\ <<r, "leaf">> \in Places /\ rows[<<r, "leaf">>] = Nil /\ holds[<<r, "leaf">>] = Nil
<1>1. <<r, "side">> \in RecordPlaces /\ <<r, "leaf">> \in RecordPlaces /\ <<r, "side">>[1] = r /\ <<r, "leaf">>[1] = r
  BY PlaceTypes
<1>2. Fresh /\ recs \subseteq used
  BY DEF IInv, TypeOK
<1> QED
  BY <1>1, <1>2, PlaceTypes DEF Fresh

\* A record whose from is 0, or that of another, brings no side record.
LEMMA SidesSame ==
  ASSUME NEW R, NEW r, r \notin R, NEW f, NEW g, \A q \in R : g[q] = f[q], g[r] = 0 \/ \E q \in R : g[r] = f[q]
  PROVE  SidesOf(R \cup {r}, g) = SidesOf(R, f)
<1>1. SidesOf(R \cup {r}, g) \subseteq SidesOf(R, f)
  BY DEF SidesOf
<1>2. SidesOf(R, f) \subseteq SidesOf(R \cup {r}, g)
  BY DEF SidesOf
<1> QED
  BY <1>1, <1>2

LEMMA BuildKeeps ==
  ASSUME IInv, NEW r \in Records, NEW t \in Trees \cup {Nil}, NEW e \in Entries, Build(r, t, e)
  PROVE  IInv'
<1> DEFINE leaf == <<r, "leaf">>
<1>1. /\ ~disposed /\ r \in Records \ used /\ t \in named \cup {Nil} /\ e \in named \cup recs \cup {Nil}
      /\ used' = used \cup {r} /\ recs' = recs \cup {r} /\ owned' = (owned \ {e}) \cup {r}
      /\ link' = [link EXCEPT ![r] = t] /\ links' = Link(t)
      /\ rows' = [rows EXCEPT ![leaf] = e]
      /\ holds' = [holds EXCEPT ![leaf] = IF e \in Trees THEN e ELSE Nil]
      /\ UNCHANGED <<nextId, live, named, pending, from, names, disposed>>
  BY DEF Build, Entry, trees
<1>2. /\ TypeOK /\ recs \subseteq Records /\ named \subseteq live /\ (e \in Trees => e \in named) /\ Nil \notin Trees
  BY <1>1, NamedReached, ConstantsType DEF IInv, TypeOK
<1>3. /\ from[r] = 0 /\ r \notin recs
      /\ <<r, "side">> \in Places /\ rows[<<r, "side">>] = Nil /\ holds[<<r, "side">>] = Nil /\ leaf \in Places /\ leaf # <<r, "side">>
  BY <1>1, FreshPlaces
<1>4. /\ rows'[leaf] = e /\ holds'[leaf] = IF e \in Trees THEN e ELSE Nil
      /\ rows' \in [Places -> Entries] /\ holds' \in [Places -> Trees \cup {Nil}]
      /\ \A q \in Places : q # leaf => rows'[q] = rows[q] /\ holds'[q] = holds[q]
  BY <1>1, <1>2, <1>3 DEF TypeOK
<1>5. links' \in [Trees -> Nat] /\ \A u \in Trees : links'[u] = links[u] + One(u = t /\ ~\E q \in recs : link[q] = t)
  <2>1. CASE t = Nil \/ \E q \in recs : link[q] = t
    BY <1>1, <1>2, <2>1 DEF Link, One, TypeOK
  <2>2. CASE ~(t = Nil \/ \E q \in recs : link[q] = t)
    <3>1. links' = [links EXCEPT ![t] = @ + 1] /\ t \in Trees
      BY <1>1, <2>2 DEF Link, HoldTree
    <3> QED
      BY <1>2, <2>2, <3>1 DEF One, TypeOK
  <2> QED
    BY <2>1, <2>2
<1>6. TypeOK'
  <2>1. used' \in SUBSET Records /\ recs' \in SUBSET used' /\ owned' \in SUBSET recs' /\ link' \in [Records -> Trees \cup {Nil}]
    BY <1>1, <1>2 DEF TypeOK
  <2> QED
    BY <1>1, <1>2, <1>4, <1>5, <2>1 DEF TypeOK
<1>7. IsFiniteSet(recs') /\ Fresh' /\ Tokens'
  <2>1. \A q \in Places : q[1] # r => rows'[q] = rows[q] /\ holds'[q] = holds[q]
    BY <1>4
  <2>2. /\ holds'[<<r, "side">>] = Nil /\ rows'[<<r, "side">>] = Nil
        /\ holds'[<<r, "leaf">>] # Nil => rows'[<<r, "leaf">>] = holds'[<<r, "leaf">>]
    BY <1>3, <1>4
  <2> QED
    BY <1>1, <1>2, <2>1, <2>2, AddedKeeps
<1>8. LinksCounted'
  <2> SUFFICES ASSUME NEW u \in Trees PROVE links'[u] = Anchors(u, recs, names)' + pending'[u]
    BY <1>1 DEF LinksCounted
  <2>1. SidesOf(recs', from') = SidesOf(recs, from)
    BY <1>1, <1>3, SidesSame
  <2>2. LinkPart(u, recs', link') = LinkPart(u, recs, link) + One(u = t /\ ~\E q \in recs : link[q] = t)
    <3>1. link'[r] = t /\ \A q \in recs : link'[q] = link[q]
      BY <1>1, <1>2, <1>3 DEF TypeOK
    <3>2. CASE u = t
      <4>1. LinkPart(u, recs', link') = 1
        BY <1>1, <3>1, <3>2 DEF LinkPart
      <4>2. CASE \E q \in recs : link[q] = t
        BY <3>2, <4>1, <4>2 DEF LinkPart, One
      <4>3. CASE ~\E q \in recs : link[q] = t
        BY <3>2, <4>1, <4>3 DEF LinkPart, One
      <4> QED
        BY <4>2, <4>3
    <3>3. CASE u # t
      BY <1>1, <3>1, <3>3 DEF LinkPart, One
    <3> QED
      BY <3>2, <3>3
  <2>3. SidePart(u, SidesOf(recs, from), names) \in Nat
    BY AnchorsType, PartType DEF IInv, Facts
  <2>4. Anchors(u, recs, names) = LinkPart(u, recs, link) + SidePart(u, SidesOf(recs, from), names)
    BY AnchorsParts
  <2>5. Anchors(u, recs, names)' = LinkPart(u, recs', link') + SidePart(u, SidesOf(recs, from), names)
    BY <1>1, <2>1, AnchorsAfter
  <2>6. links[u] = Anchors(u, recs, names) + pending[u] /\ pending[u] \in Nat
    BY <1>1, <1>2 DEF IInv, LinksCounted, TypeOK
  <2>7. links'[u] = links[u] + One(u = t /\ ~\E q \in recs : link[q] = t) /\ pending'[u] = pending[u]
    BY <1>1, <1>5
  <2> DEFINE o == One(u = t /\ ~\E q \in recs : link[q] = t)
             l == LinkPart(u, recs, link)
             s == SidePart(u, SidesOf(recs, from), names)
  <2>8. o \in Nat /\ l \in Nat /\ s \in Nat
    BY <2>3 DEF One, LinkPart
  <2>9. links'[u] = ((l + s) + pending[u]) + o /\ Anchors(u, recs, names)' = (l + o) + s
    BY <2>2, <2>4, <2>5, <2>6, <2>7
  <2> HIDE DEF o, l, s
  <2> QED
    BY <2>6, <2>7, <2>8, <2>9
<1>9. Reachable' \subseteq Reachable
  <2>1. named' \subseteq Reachable /\ live' \subseteq live
    BY <1>1, NamedReached
  <2>2. \A u \in Trees : links'[u] > 0 => links[u] > 0 \/ u \in Reachable
    <3> SUFFICES ASSUME NEW u \in Trees, links'[u] > 0, u \notin Reachable PROVE links[u] > 0
      OBVIOUS
    <3>1. u # t
      BY <1>1, <1>2, NamedReached
    <3>2. links'[u] = links[u] + 0 /\ links[u] \in Nat
      BY <1>2, <1>5, <3>1 DEF One, TypeOK
    <3> QED
      BY <3>2
  <2>3. \A q \in Places : holds'[q] # Nil => holds'[q] = holds[q] \/ holds'[q] \in Reachable
    BY <1>2, <1>4, NamedReached
  <2> QED
    BY <1>6, <2>1, <2>2, <2>3, ReachLess
<1>10. HeldLive'
  <2>1. \A q \in Places : holds'[q] # Nil => holds'[q] = holds[q] \/ holds'[q] \in live
    BY <1>2, <1>4
  <2> QED
    BY <1>1, <1>9, <2>1, HeldKept
<1>11. NamedLive'
  <2>1. NamedLive
    BY DEF IInv
  <2>2. link'[r] = t /\ \A q \in recs : link'[q] = link[q]
    BY <1>1, <1>2, <1>3 DEF TypeOK
  <2> QED
    BY <1>1, <1>2, <1>3, <2>1, <2>2 DEF NamedLive
<1> QED
  BY <1>6, <1>7, <1>8, <1>10, <1>11, AnchoredAfter DEF IInv

LEMMA EditKeeps ==
  ASSUME IInv, NEW p \in Records, NEW r \in Records, NEW replaced \in BOOLEAN, Edit(p, r, replaced)
  PROVE  IInv'
<1> DEFINE leaf == <<r, "leaf">>
           side == <<r, "side">>
           was == <<p, "side">>
           old == rows[was]
           copied == IF replaced THEN Nil ELSE rows[<<p, "leaf">>]
<1>1. /\ p \in recs /\ r \in Records \ used
      /\ used' = used \cup {r} /\ recs' = recs \cup {r} /\ owned' = owned \cup {r}
      /\ link' = [link EXCEPT ![r] = link[p]] /\ from' = [from EXCEPT ![r] = from[p]]
      /\ rows' = [rows EXCEPT ![side] = old, ![leaf] = copied]
      /\ holds' = [holds EXCEPT ![side] = Token(was, old)]
      /\ UNCHANGED <<nextId, live, named, links, pending, names, disposed>>
  BY DEF Edit, trees
<1>2. /\ TypeOK /\ recs \subseteq Records /\ Nil \notin Trees /\ was \in Places /\ was[1] = p /\ <<p, "leaf">> \in Places
  BY <1>1, ConstantsType, PlaceTypes DEF IInv, TypeOK
<1>3. /\ from[r] = 0 /\ r \notin recs
      /\ side \in Places /\ rows[side] = Nil /\ holds[side] = Nil /\ leaf \in Places /\ leaf # side
      /\ rows[leaf] = Nil /\ holds[leaf] = Nil
  BY <1>1, FreshPlaces
<1>4. old \in Entries /\ copied \in Entries
  BY <1>2 DEF TypeOK, Entries
<1>5. Token(was, old) = IF old \in Trees THEN old ELSE Nil
  <2>1. CASE old \in Trees
    <3>1. holds[was] = old
      BY <1>1, <2>1 DEF IInv, Tokens
    <3> QED
      BY <1>2, <2>1, <3>1 DEF Token
  <2>2. CASE old \notin Trees
    BY <2>2 DEF Token
  <2> QED
    BY <2>1, <2>2
<1>6. old \in Trees => old \in Reachable
  <2>1. CASE Token(was, old) = Nil
    BY <1>2, <1>5, <2>1
  <2>2. CASE Token(was, old) # Nil
    BY <1>1, <1>2, <2>2, TokenReached
  <2> QED
    BY <2>1, <2>2
<1> HIDE DEF copied, old, was
<1>7. /\ rows'[side] = old /\ holds'[side] = (IF old \in Trees THEN old ELSE Nil) /\ holds'[leaf] = Nil
      /\ rows' \in [Places -> Entries] /\ holds' \in [Places -> Trees \cup {Nil}]
      /\ \A q \in Places : q # leaf /\ q # side => rows'[q] = rows[q] /\ holds'[q] = holds[q]
  <2>1. holds' = [holds EXCEPT ![side] = IF old \in Trees THEN old ELSE Nil]
    BY <1>1, <1>5
  <2> HIDE DEF leaf, side
  <2> QED
    BY <1>1, <1>2, <1>3, <1>4, <2>1 DEF TypeOK
<1>8. link'[r] = link[p] /\ from'[r] = from[p] /\ \A q \in recs : link'[q] = link[q] /\ from'[q] = from[q]
  BY <1>1, <1>2, <1>3 DEF TypeOK
<1>9. TypeOK'
  <2>1. used' \in SUBSET Records /\ recs' \in SUBSET used' /\ owned' \in SUBSET recs'
    BY <1>1, <1>2 DEF TypeOK
  <2>2. link' \in [Records -> Trees \cup {Nil}] /\ from' \in [Records -> SideRecords \cup {0}]
    BY <1>1, <1>2 DEF TypeOK
  <2> QED
    BY <1>1, <1>2, <1>7, <2>1, <2>2 DEF TypeOK
<1>10. IsFiniteSet(recs') /\ Fresh' /\ Tokens'
  <2>1. \A q \in Places : q[1] # r => rows'[q] = rows[q] /\ holds'[q] = holds[q]
    BY <1>7
  <2>2. /\ holds'[side] # Nil => rows'[side] = holds'[side]
        /\ rows'[side] \in Trees => holds'[side] = rows'[side]
        /\ holds'[leaf] = Nil
    BY <1>7
  <2>3. \A q \in Records : q # r => from'[q] = from[q]
    BY <1>1, <1>2 DEF TypeOK
  <2> QED
    BY <1>1, <2>1, <2>2, <2>3, AddedKeeps
<1>11. LinksCounted'
  <2>1. SidesOf(recs', from') = SidesOf(recs, from)
    <3>1. \A q \in recs : from'[q] = from[q]
      BY <1>8
    <3>2. \E q \in recs : from'[r] = from[q]
      BY <1>1, <1>8
    <3>3. SidesOf(recs \cup {r}, from') = SidesOf(recs, from)
      BY <1>3, <3>1, <3>2, SidesSame
    <3> QED
      BY <1>1, <3>3
  <2>2. \A u \in Trees : LinkPart(u, recs', link') = LinkPart(u, recs, link)
    BY <1>1, <1>8 DEF LinkPart
  <2>3. \A u \in Trees : Anchors(u, recs, names)' = Anchors(u, recs, names)
    BY <1>1, <2>1, <2>2, AnchorsAfter, AnchorsParts
  <2> QED
    BY <1>1, <2>3 DEF IInv, LinksCounted
<1>12. Reachable' \subseteq Reachable
  <2>1. named' \subseteq Reachable /\ live' \subseteq live
    BY <1>1, NamedReached
  <2>2. \A u \in Trees : links'[u] > 0 => links[u] > 0 \/ u \in Reachable
    BY <1>1
  <2>3. \A q \in Places : holds'[q] # Nil => holds'[q] = holds[q] \/ holds'[q] \in Reachable
    BY <1>6, <1>7
  <2> QED
    BY <1>9, <2>1, <2>2, <2>3, ReachLess
<1>13. HeldLive'
  <2>1. \A q \in Places : holds'[q] # Nil => holds'[q] = holds[q] \/ holds'[q] \in live
    BY <1>6, <1>7, NamedReached
  <2> QED
    BY <1>1, <1>12, <2>1, HeldKept
<1>14. NamedLive'
  <2>1. NamedLive
    BY DEF IInv
  <2> QED
    BY <1>1, <1>8, <2>1 DEF NamedLive
<1> QED
  BY <1>9, <1>10, <1>11, <1>13, <1>14, AnchoredAfter DEF IInv


\* A side record taken for tree t counts once more for it.
LEMMA HoldTreeFacts ==
  ASSUME NEW t \in Trees, NEW c \in [Trees -> Nat]
  PROVE  HoldTree(t, c) \in [Trees -> Nat] /\ \A u \in Trees : HoldTree(t, c)[u] = c[u] + One(u = t)
<1>1. \A u \in Trees : HoldTree(t, c)[u] = c[u] + One(u = t)
  <2> TAKE u \in Trees
  <2>1. CASE u = t
    BY <2>1 DEF HoldTree, One
  <2>2. CASE u # t
    BY <2>2 DEF HoldTree, One
  <2> QED
    BY <2>1, <2>2
<1>2. HoldTree(t, c) \in [Trees -> Nat]
  BY DEF HoldTree
<1> QED
  BY <1>1, <1>2

\* A side record no record names is not among those live records name.
LEMMA FreeSide ==
  ASSUME IInv, NEW s \in SideRecords, names[s] = Nil
  PROVE  s \notin SidesOf(recs, from) /\ SidesOf(recs, from) \subseteq SideRecords /\ s # 0
<1>1. SidesOf(recs, from) \subseteq SideRecords
  BY SidesType DEF IInv, TypeOK
<1>2. \A r \in recs : from[r] # 0 => from[r] # s
  BY ConstantsType DEF IInv, Anchored
<1>3. s # 0
  BY ConstantsType
<1> QED
  BY <1>1, <1>2, <1>3 DEF SidesOf

LEMMA RebuildCopyKeeps ==
  ASSUME IInv, NEW p \in Records, NEW r \in Records, NEW t \in Trees, NEW s \in SideRecords, RebuildCopy(p, r, t, s)
  PROVE  IInv'
<1> DEFINE leaf == <<r, "leaf">>
           copied == rows[<<p, "leaf">>]
           R == SidesOf(recs, from)
<1>1. /\ p \in recs /\ r \in Records \ used /\ t \in named /\ names[s] = Nil
      /\ used' = used \cup {r} /\ recs' = recs \cup {r} /\ owned' = owned \cup {r}
      /\ link' = [link EXCEPT ![r] = link[p]] /\ from' = [from EXCEPT ![r] = s]
      /\ names' = [names EXCEPT ![s] = t] /\ links' = HoldTree(t, links)
      /\ rows' = [rows EXCEPT ![leaf] = copied]
      /\ UNCHANGED <<nextId, live, named, pending, holds, disposed>>
  BY DEF RebuildCopy, trees
<1>2. /\ TypeOK /\ recs \subseteq Records /\ named \subseteq live /\ Nil \notin Trees /\ <<p, "leaf">> \in Places
  BY <1>1, ConstantsType, PlaceTypes, NamedReached DEF IInv, TypeOK
<1>3. /\ r \notin recs /\ leaf \in Places /\ leaf # <<r, "side">> /\ holds[leaf] = Nil
      /\ <<r, "side">> \in Places /\ rows[<<r, "side">>] = Nil /\ holds[<<r, "side">>] = Nil
  BY <1>1, FreshPlaces
<1>4. s \notin R /\ R \subseteq SideRecords /\ s # 0
  BY <1>1, FreeSide
<1>5. copied \in Entries
  BY <1>2 DEF TypeOK
<1> HIDE DEF copied
<1>6. rows' \in [Places -> Entries] /\ \A q \in Places : q # leaf => rows'[q] = rows[q]
  BY <1>1, <1>2, <1>3, <1>5 DEF TypeOK
<1>7. /\ link'[r] = link[p] /\ from'[r] = s /\ \A q \in recs : link'[q] = link[q] /\ from'[q] = from[q]
      /\ names'[s] = t /\ \A n \in SideRecords : n # s => names'[n] = names[n]
  BY <1>1, <1>2, <1>3 DEF TypeOK
<1>8. links' \in [Trees -> Nat] /\ \A u \in Trees : links'[u] = links[u] + One(u = t)
  BY <1>1, <1>2, HoldTreeFacts DEF TypeOK
<1>9. TypeOK'
  <2>1. used' \in SUBSET Records /\ recs' \in SUBSET used' /\ owned' \in SUBSET recs'
    BY <1>1, <1>2 DEF TypeOK
  <2>2. /\ link' \in [Records -> Trees \cup {Nil}] /\ from' \in [Records -> SideRecords \cup {0}]
        /\ names' \in [SideRecords -> Trees \cup {Nil}]
    BY <1>1, <1>2 DEF TypeOK
  <2> QED
    BY <1>1, <1>2, <1>6, <1>8, <2>1, <2>2 DEF TypeOK
<1>10. IsFiniteSet(recs') /\ Fresh' /\ Tokens'
  <2>1. \A q \in Places : q[1] # r => rows'[q] = rows[q] /\ holds'[q] = holds[q]
    BY <1>1, <1>6
  <2>2. /\ holds'[<<r, "side">>] = Nil /\ rows'[<<r, "side">>] = Nil /\ holds'[leaf] = Nil
    BY <1>1, <1>3, <1>6
  <2>3. \A q \in Records : q # r => from'[q] = from[q]
    BY <1>1, <1>2 DEF TypeOK
  <2> QED
    BY ZenonT(40), <1>1, <1>2, <2>1, <2>2, <2>3, AddedKeeps
<1>11. LinksCounted'
  <2> SUFFICES ASSUME ~disposed, NEW u \in Trees PROVE links'[u] = Anchors(u, recs, names)' + pending'[u]
    BY <1>1 DEF LinksCounted
  <2>1. SidesOf(recs', from') = R \cup {s}
    <3>1. SidesOf(recs', from') \subseteq R \cup {s}
      BY <1>1, <1>7 DEF SidesOf
    <3>2. R \subseteq SidesOf(recs', from')
      BY <1>1, <1>7 DEF SidesOf
    <3>3. s \in SidesOf(recs', from')
      BY <1>1, <1>4, <1>7 DEF SidesOf
    <3> QED
      BY <3>1, <3>2, <3>3
  <2>2. LinkPart(u, recs', link') = LinkPart(u, recs, link)
    BY <1>1, <1>7 DEF LinkPart
  <2> HIDE DEF R
  <2>3. \A n \in R : names'[n] = names[n]
    BY <1>4, <1>7
  <2>4. SidePart(u, R \cup {s}, names') = SidePart(u, R, names) + One(names'[s] = u) /\ SidePart(u, R, names) \in Nat
    BY <1>4, <2>3, PartAdd
  <2>5. One(names'[s] = u) = One(u = t) /\ One(u = t) \in Nat
    BY <1>7 DEF One
  <2>6. Anchors(u, recs, names) = LinkPart(u, recs, link) + SidePart(u, R, names)
    BY AnchorsParts DEF R
  <2>7. Anchors(u, recs, names)' = LinkPart(u, recs, link) + (SidePart(u, R, names) + One(u = t))
    <3>1. Anchors(u, recs, names)' = LinkPart(u, recs', link') + SidePart(u, R \cup {s}, names')
      BY <2>1, AnchorsAfter
    <3>2. SidePart(u, R \cup {s}, names') = SidePart(u, R, names) + One(u = t)
      BY <2>4, <2>5
    <3> QED
      BY <2>2, <3>1, <3>2
  <2>8. links[u] = Anchors(u, recs, names) + pending[u] /\ pending[u] \in Nat
    BY <1>2 DEF IInv, LinksCounted, TypeOK
  <2> DEFINE o == One(u = t)
             l == LinkPart(u, recs, link)
             n == SidePart(u, R, names)
  <2>9. o \in Nat /\ l \in Nat /\ n \in Nat
    BY <2>4, <2>5 DEF LinkPart
  <2>10. links'[u] = ((l + n) + pending[u]) + o /\ Anchors(u, recs, names)' = l + (n + o) /\ pending'[u] = pending[u]
    BY <1>1, <1>8, <2>6, <2>7, <2>8
  <2> HIDE DEF o, l, n
  <2> QED
    BY <2>8, <2>9, <2>10
<1>12. Reachable' \subseteq Reachable
  <2>1. named' \subseteq Reachable /\ live' \subseteq live
    BY <1>1, NamedReached
  <2>2. \A u \in Trees : links'[u] > 0 => links[u] > 0 \/ u \in Reachable
    <3> SUFFICES ASSUME NEW u \in Trees, links'[u] > 0, u \notin Reachable PROVE links[u] > 0
      OBVIOUS
    <3>1. u # t
      BY <1>1, NamedReached
    <3>2. links'[u] = links[u] + 0 /\ links[u] \in Nat
      BY <1>2, <1>8, <3>1 DEF One, TypeOK
    <3> QED
      BY <3>2
  <2> QED
    BY <1>1, <1>9, <2>1, <2>2, ReachLess
<1>13. HeldLive'
  BY <1>1, <1>12, HeldKept
<1>14. NamedLive'
  <2>1. NamedLive
    BY DEF IInv
  <2>2. \A q \in recs : from[q] # 0 => names'[from[q]] = names[from[q]]
    <3>1. \A q \in recs : from[q] # 0 => from[q] \in R
      BY DEF SidesOf
    <3> HIDE DEF R
    <3> QED
      BY <1>4, <1>7, <3>1
  <2> QED
    BY <1>1, <1>2, <1>7, <2>1, <2>2 DEF NamedLive
<1> QED
  BY <1>9, <1>10, <1>11, <1>13, <1>14, AnchoredAfter DEF IInv

LEMMA RebuildInPlaceKeeps ==
  ASSUME IInv, NEW r \in Records, NEW t \in Trees, NEW s \in SideRecords, RebuildInPlace(r, t, s)
  PROVE  IInv'
<1> DEFINE old == from[r]
           drops == old # 0 /\ \A q \in recs \ {r} : from[q] # old
           R == SidesOf(recs, from)
           K == IF drops THEN R \ {old} ELSE R
           c == [u \in Trees |-> links[u] - pending[u] - (IF names[old] = u THEN 1 ELSE 0)]
<1>1. /\ r \in recs /\ t \in named /\ names[s] = Nil
      /\ from' = [from EXCEPT ![r] = s]
      /\ names' = [n \in SideRecords |-> IF n = s THEN t ELSE IF drops /\ n = old THEN Nil ELSE names[n]]
      /\ drops => links' = HoldTree(t, c) /\ pending' = [u \in Trees |-> 0]
      /\ ~drops => links' = HoldTree(t, links) /\ pending' = pending
      /\ UNCHANGED <<nextId, live, named, used, recs, owned, link, rows, holds, disposed>>
  BY DEF RebuildInPlace, trees
<1>2. /\ TypeOK /\ recs \subseteq Records /\ named \subseteq live /\ Nil \notin Trees /\ ~disposed
  BY <1>1, ConstantsType, NamedReached DEF IInv, TypeOK
<1>3. s \notin R /\ R \subseteq SideRecords /\ s # 0
  BY <1>1, FreeSide
<1>4. from'[r] = s /\ \A q \in recs : q # r => from'[q] = from[q]
  BY <1>1, <1>2 DEF TypeOK
<1>5. names'[s] = t /\ (\A n \in K : names'[n] = names[n]) /\ s \notin K /\ K \subseteq SideRecords
  <2>1. K \subseteq R /\ (drops => old \notin K)
    OBVIOUS
  <2> HIDE DEF R, drops, old, K
  <2> QED
    BY <1>1, <1>3, <2>1
<1>6. SidesOf(recs', from') = K \cup {s}
  <2>1. ASSUME NEW q \in recs, from'[q] # 0 PROVE from'[q] \in K \cup {s}
    BY <1>4, <2>1 DEF SidesOf
  <2>2. SidesOf(recs', from') \subseteq K \cup {s}
    <3> HIDE DEF K
    <3> QED
      BY <1>1, <2>1 DEF SidesOf
  <2>3. s \in SidesOf(recs', from')
    BY <1>1, <1>3, <1>4 DEF SidesOf
  <2>4. ASSUME NEW n \in K PROVE n \in SidesOf(recs', from')
    <3>1. n \in R /\ (drops => n # old)
      OBVIOUS
    <3>2. PICK q \in recs : from[q] = n /\ n # 0
      BY <3>1 DEF SidesOf
    <3>3. \E x \in recs : from'[x] = n
      <4>1. CASE q # r
        BY <1>4, <3>2, <4>1
      <4>2. CASE q = r
        <5>1. n = old /\ ~drops
          BY <3>1, <3>2, <4>2
        <5>2. PICK x \in recs \ {r} : from[x] = old
          BY <3>2, <5>1
        <5> QED
          BY <1>4, <5>1, <5>2
      <4> QED
        BY <4>1, <4>2
    <3> QED
      BY <1>1, <3>2, <3>3 DEF SidesOf
  <2>5. K \subseteq SidesOf(recs', from')
    <3> HIDE DEF K
    <3> QED
      BY <2>4
  <2> HIDE DEF K
  <2> QED
    BY <2>2, <2>3, <2>5
<1> DEFINE d(u) == One(drops /\ names[old] = u)
<1>7. ASSUME NEW u \in Trees
      PROVE  /\ SidePart(u, K, names) = SidePart(u, R, names) - d(u) /\ SidePart(u, K, names) \in Nat
             /\ SidePart(u, R, names) \in Nat /\ d(u) \in Nat
  <2>1. SidePart(u, K, names) \in Nat /\ SidePart(u, R, names) \in Nat
    <3> HIDE DEF K, R
    <3> QED
      BY <1>3, <1>5, PartType
  <2>2. d(u) \in Nat
    BY DEF One
  <2>3. CASE drops
    <3>1. old \in R /\ K = R \ {old} /\ d(u) = One(names[old] = u)
      BY <1>1, <2>3 DEF SidesOf
    <3> HIDE DEF old, R, K, d
    <3>2. SidePart(u, R \ {old}, names) = SidePart(u, R, names) - One(names[old] = u)
      BY <1>3, <3>1, PartDrop
    <3> QED
      BY <2>1, <2>2, <3>1, <3>2
  <2>4. CASE ~drops
    <3>1. K = R /\ d(u) = 0
      BY <2>4 DEF One
    <3> HIDE DEF old, R, K, d
    <3> QED
      BY <2>1, <2>2, <3>1
  <2> QED
    BY <2>3, <2>4
<1>8. ASSUME NEW u \in Trees
      PROVE  /\ Anchors(u, recs, names) = LinkPart(u, recs, link) + SidePart(u, R, names)
             /\ Anchors(u, recs, names)' = LinkPart(u, recs, link) + (SidePart(u, K, names) + One(u = t))
             /\ LinkPart(u, recs, link) \in Nat /\ One(u = t) \in Nat
             /\ links[u] = Anchors(u, recs, names) + pending[u] /\ pending[u] \in Nat /\ links[u] \in Nat
  <2>1. Anchors(u, recs, names) = LinkPart(u, recs, link) + SidePart(u, R, names)
    BY AnchorsParts
  <2> HIDE DEF K, R
  <2>2. SidePart(u, K \cup {s}, names') = SidePart(u, K, names) + One(names'[s] = u)
    BY <1>5, PartAdd
  <2>3. One(names'[s] = u) = One(u = t) /\ One(u = t) \in Nat
    BY <1>5 DEF One
  <2>4. LinkPart(u, recs', link') = LinkPart(u, recs, link) /\ LinkPart(u, recs, link) \in Nat
    BY <1>1 DEF LinkPart
  <2>5. Anchors(u, recs, names)' = LinkPart(u, recs, link) + (SidePart(u, K, names) + One(u = t))
    <3>1. Anchors(u, recs, names)' = LinkPart(u, recs', link') + SidePart(u, K \cup {s}, names')
      BY <1>6, AnchorsAfter
    <3>2. SidePart(u, K \cup {s}, names') = SidePart(u, K, names) + One(u = t)
      BY <2>2, <2>3
    <3> QED
      BY <2>4, <3>1, <3>2
  <2>6. links[u] = Anchors(u, recs, names) + pending[u] /\ pending[u] \in Nat /\ links[u] \in Nat
    BY <1>2 DEF IInv, LinksCounted, TypeOK
  <2> QED
    BY <2>1, <2>3, <2>4, <2>5, <2>6
<1> DEFINE A(u) == Anchors(u, recs, names)
           B(u) == Anchors(u, recs, names)'
           l(u) == LinkPart(u, recs, link)
           m(u) == SidePart(u, R, names)
           k(u) == SidePart(u, K, names)
           o(u) == One(u = t)
<1>9. \A u \in Trees : /\ A(u) = l(u) + m(u) /\ B(u) = l(u) + (k(u) + o(u)) /\ l(u) \in Nat /\ m(u) \in Nat /\ k(u) \in Nat
                       /\ o(u) \in Nat /\ d(u) \in Nat /\ k(u) = m(u) - d(u) /\ links[u] = A(u) + pending[u]
                       /\ pending[u] \in Nat /\ links[u] \in Nat
  BY <1>7, <1>8
<1>10. /\ links' \in [Trees -> Nat] /\ pending' \in [Trees -> Nat]
       /\ \A u \in Trees : links'[u] = B(u) + pending'[u] /\ (u # t => links'[u] <= links[u])
  <2>1. \A u \in Trees : u # t => o(u) = 0
    BY DEF One
  <2>2. CASE drops
    <3>1. c = [u \in Trees |-> links[u] - pending[u] - d(u)]
      BY <2>2 DEF One
    <3>2. links' = HoldTree(t, c) /\ pending' = [u \in Trees |-> 0]
      BY <1>1, <2>2
    <3> HIDE DEF A, B, l, m, k, o, d, c
    <3>3. \A u \in Trees : links[u] - pending[u] - d(u) = l(u) + k(u)
      BY <1>9
    <3>4. c \in [Trees -> Nat] /\ \A u \in Trees : c[u] = l(u) + k(u)
      BY <1>9, <3>1, <3>3
    <3>5. links' \in [Trees -> Nat] /\ \A u \in Trees : links'[u] = c[u] + o(u)
      BY <3>2, <3>4, HoldTreeFacts DEF o
    <3>6. pending' \in [Trees -> Nat] /\ \A u \in Trees : pending'[u] = 0
      BY <3>2
    <3>7. \A u \in Trees : links'[u] = B(u) + pending'[u] /\ (o(u) = 0 => links'[u] <= links[u])
      BY <1>9, <3>4, <3>5, <3>6
    <3> QED
      BY <2>1, <3>5, <3>6, <3>7
  <2>3. CASE ~drops
    <3>1. links' = HoldTree(t, links) /\ pending' = pending /\ \A u \in Trees : d(u) = 0
      BY <1>1, <2>3 DEF One
    <3> HIDE DEF A, B, l, m, k, o, d, c
    <3>2. links \in [Trees -> Nat] /\ pending \in [Trees -> Nat]
      BY <1>2 DEF TypeOK
    <3>3. links' \in [Trees -> Nat] /\ \A u \in Trees : links'[u] = links[u] + o(u)
      BY <3>1, <3>2, HoldTreeFacts DEF o
    <3>4. \A u \in Trees : links'[u] = B(u) + pending'[u] /\ (o(u) = 0 => links'[u] <= links[u])
      BY <1>9, <3>1, <3>3
    <3> QED
      BY <2>1, <3>1, <3>2, <3>3, <3>4
  <2> QED
    BY <2>2, <2>3
<1>11. LinksCounted'
  BY <1>10 DEF LinksCounted
<1>12. TypeOK'
  <2>1. from' \in [Records -> SideRecords \cup {0}] /\ names' \in [SideRecords -> Trees \cup {Nil}]
    BY <1>1, <1>2 DEF TypeOK
  <2> HIDE DEF B
  <2> QED
    BY <1>1, <1>2, <1>10, <2>1 DEF TypeOK
<1>13. IsFiniteSet(recs') /\ Tokens'
  BY <1>1 DEF IInv, Anchored, Tokens
<1>14. Fresh'
  <2>1. Fresh
    BY DEF IInv
  <2>2. \A q \in Records \ used' : from'[q] = 0
    BY <1>1, <1>2, <2>1 DEF Fresh, TypeOK
  <2> QED
    BY <1>1, <2>1, <2>2 DEF Fresh
<1>15. Reachable' \subseteq Reachable
  <2>1. named' \subseteq Reachable /\ live' \subseteq live /\ t \in Reachable
    BY <1>1, NamedReached
  <2>2. \A u \in Trees : links'[u] > 0 => links[u] > 0 \/ u \in Reachable
    <3> SUFFICES ASSUME NEW u \in Trees, links'[u] > 0, u \notin Reachable PROVE links[u] > 0
      OBVIOUS
    <3>1. links'[u] <= links[u]
      BY <1>10, <2>1
    <3>2. links'[u] \in Nat /\ links[u] \in Nat
      BY <1>2, <1>10 DEF TypeOK
    <3> QED
      BY <3>1, <3>2
  <2> QED
    BY <1>1, <1>12, <2>1, <2>2, ReachLess
<1>16. HeldLive'
  BY <1>1, <1>15, HeldKept
<1>17. NamedLive'
  <2>1. NamedLive
    BY DEF IInv
  <2>2. \A q \in recs : q # r /\ from[q] # 0 => from[q] \in K
    BY DEF SidesOf
  <2> HIDE DEF K
  <2>3. \A q \in recs : q # r /\ from[q] # 0 => names'[from[q]] = names[from[q]]
    BY <1>5, <2>2
  <2>4. \A q \in recs' : from'[q] # 0 => names'[from'[q]] \in live'
    BY <1>1, <1>2, <1>4, <1>5, <2>1, <2>3 DEF NamedLive
  <2> QED
    BY <1>1, <2>1, <2>4 DEF NamedLive
<1> QED
  BY <1>11, <1>12, <1>13, <1>14, <1>16, <1>17, AnchoredAfter DEF IInv


-----------------------------------------------------------------------------
(* The theorems.                                                           *)

LEMMA InitHolds == Init => IInv
<1> SUFFICES ASSUME Init PROVE IInv
  OBVIOUS
<1>1. /\ nextId = 1 /\ live = {} /\ named = {}
      /\ links = [t \in Trees |-> 0] /\ pending = [t \in Trees |-> 0]
      /\ used = {} /\ recs = {} /\ owned = {}
      /\ link = [r \in Records |-> Nil] /\ from = [r \in Records |-> 0] /\ names = [s \in SideRecords |-> Nil]
      /\ rows = [p \in Places |-> Nil] /\ holds = [p \in Places |-> Nil] /\ disposed = FALSE
  BY DEF Init
<1>2. TypeOK
  <2>1. nextId \in 1..MaxTrees + 1
    BY <1>1, ConstantsType
  <2> QED
    BY <1>1, <2>1 DEF TypeOK, Entries
<1>3. Anchored
  BY <1>1, FS_EmptySet DEF Anchored
<1>4. Fresh
  BY <1>1 DEF Fresh, Places
<1>5. LinksCounted
  <2> SUFFICES ASSUME NEW t \in Trees PROVE links[t] = Anchors(t, recs, names) + pending[t]
    BY DEF LinksCounted
  <2>1. {s \in {from[r] : r \in recs} \ {0} : names[s] = t} = {}
    BY <1>1
  <2>2. Anchors(t, recs, names) = 0 + 0
    BY <1>1, <2>1, FS_EmptySet DEF Anchors
  <2> QED
    BY <1>1, <2>2
<1>6. Tokens
  BY <1>1, ConstantsType DEF Tokens, Places
<1>7. HeldLive
  BY <1>1 DEF HeldLive
<1>8. NamedLive
  BY <1>1 DEF NamedLive
<1> QED
  BY <1>2, <1>3, <1>4, <1>5, <1>6, <1>7, <1>8 DEF IInv

LEMMA StepHolds == IInv /\ [Next]_vars => IInv'
<1> SUFFICES ASSUME IInv, [Next]_vars PROVE IInv'
  OBVIOUS
<1>1. CASE UNCHANGED vars
  <2>1. UNCHANGED <<nextId, live, links, pending, records, rows, holds, disposed>> /\ UNCHANGED named
    BY <1>1 DEF vars, trees
  <2>2. TypeOK'
    BY <2>1 DEF IInv, TypeOK, records
  <2> QED
    BY <2>1, <2>2, NamedReached, SameHolds
<1>2. CASE Parse
  BY <1>2, ParseKeeps
<1>3. CASE DisposeEngine
  BY <1>3, DisposeEngineKeeps
<1>4. ASSUME NEW t \in Trees, Forget(t) PROVE IInv'
  BY <1>4, ForgetKeeps
<1>5. ASSUME NEW t \in Trees, DisposeTree(t) PROVE IInv'
  BY <1>5, DisposeTreeKeeps
<1>6. ASSUME NEW r \in Records, NEW t \in Trees \cup {Nil}, NEW e \in Entries, Build(r, t, e) PROVE IInv'
  BY <1>6, BuildKeeps
<1>7. ASSUME NEW p \in Records, NEW r \in Records, NEW replaced \in BOOLEAN, Edit(p, r, replaced) PROVE IInv'
  BY <1>7, EditKeeps
<1>8. ASSUME NEW r \in Records, NEW t \in Trees, NEW s \in SideRecords, RebuildInPlace(r, t, s) PROVE IInv'
  BY <1>8, RebuildInPlaceKeeps
<1>9. ASSUME NEW p \in Records, NEW r \in Records, NEW t \in Trees, NEW s \in SideRecords, RebuildCopy(p, r, t, s) PROVE IInv'
  BY <1>9, RebuildCopyKeeps
<1>10. ASSUME NEW r \in Records, Release(r) PROVE IInv'
  BY <1>10, ReleaseKeeps
<1>11. ASSUME NEW r \in Records, ReadLink(r) PROVE IInv'
  BY <1>11, ReadLinkKeeps
<1>12. ASSUME NEW p \in Places, NEW e \in Entries, WriteSide(p, e) PROVE IInv'
  BY <1>12, WriteSideKeeps
<1>13. ASSUME NEW p \in Places, NEW e \in Entries, WriteHalfDone(p, e) PROVE IInv'
  BY <1>13, WriteHalfDoneKeeps
<1>14. ASSUME NEW p \in Places, ReadSide(p) PROVE IInv'
  BY <1>14, ReadSideKeeps
<1> QED
  BY <1>1, <1>2, <1>3, <1>4, <1>5, <1>6, <1>7, <1>8, <1>9, <1>10, <1>11, <1>12, <1>13, <1>14 DEF Next, Step

\* The inductive invariant: a record's side records and a token's tree are there as long
\* as something that can be reached names them.
THEOREM TreesInvariant == Spec => []IInv
BY InitHolds, StepHolds, PTL DEF Spec

\* Every variable keeps its type, ids never run past the last one included.
THEOREM TreesTypeCorrect == Spec => []TypeOK
<1>1. IInv => TypeOK
  BY DEF IInv
<1> QED
  BY <1>1, TreesInvariant, PTL

\* #trees counts what names a tree, through copies, rebuilds and releases of any length
\* (built-arena.ts, holdTree and #released; engine.rs, the released trees).
THEOREM TreesLinksCounted == Spec => []LinksCounted
<1>1. IInv => LinksCounted
  BY DEF IInv
<1> QED
  BY <1>1, TreesInvariant, PTL

\* What user code, a live record or a readable tree's side names is a live tree.
THEOREM TreesNamedLive == Spec => []NamedTreesLive
<1>1. ASSUME IInv PROVE NamedTreesLive
  <2>1. TypeOK /\ Tokens /\ HeldLive /\ NamedLive /\ recs \subseteq Records /\ Reachable \subseteq Trees
    BY <1>1, NamedReached DEF IInv, TypeOK
  <2>2. ASSUME NEW r \in recs PROVE {link[r], rows[<<r, "side">>]} \cap Trees \subseteq live
    <3>1. link[r] \in Trees => link[r] \in live
      BY <2>1, ConstantsType DEF NamedLive
    <3> DEFINE p == <<r, "side">>
    <3>2. p \in Places /\ p[1] = r
      BY <2>1, PlaceTypes
    <3>3. rows[p] \in Trees => holds[p] = rows[p]
      BY <2>1 DEF Tokens
    <3> HIDE DEF p
    <3>4. rows[p] \in Trees => rows[p] \in live
      BY <2>1, <3>2, <3>3, ConstantsType DEF HeldLive
    <3> QED
      BY <3>1, <3>4 DEF p
  <2>3. ASSUME NEW t \in Reachable, rows[<<t, "row">>] \in Trees
        PROVE  rows[<<t, "row">>] \in live \/ (disposed /\ holds[<<t, "row">>] # rows[<<t, "row">>])
    <3> DEFINE p == <<t, "row">>
    <3>1. p \in TreePlaces /\ p \in Places /\ p[1] = t
      BY <2>1, PlaceTypes
    <3>2. rows[p] \in Trees
      BY <2>3
    <3> HIDE DEF p
    <3>3. rows[p] \in live \/ (disposed /\ holds[p] # rows[p])
      BY <2>1, <3>1, <3>2, ConstantsType DEF Tokens, HeldLive
    <3> QED
      BY <3>3 DEF p
  <2> QED
    BY <2>1, <2>2, <2>3 DEF NamedTreesLive, NamedLive
<1> QED
  BY <1>1, TreesInvariant, PTL

\* Nothing keeps a tree's token but what still names the tree, or named it from a
\* record since released (built-arena.ts, holdSideEntries and its table).
THEOREM TreesOnlyNamedReachable == Spec => []OnlyNamedReachable
<1>1. ASSUME IInv PROVE OnlyNamedReachable
  <2> DEFINE S == {t \in live : t \in named \/ links[t] > 0 \/ \E p \in Places : holds[p] = t}
  <2>1. Closed(S)
    BY DEF Closed
  <2> HIDE DEF S
  <2>2. Reachable \subseteq S
    BY <1>1, <2>1, ReachableLeast DEF IInv, Reaches
  <2> SUFFICES ASSUME NEW t \in Reachable, t \notin named, ~(links[t] > 0), ~\E p \in Places : rows[p] = t
               PROVE  \E p \in RecordPlaces : holds[p] = t /\ p[1] \notin recs
    BY DEF OnlyNamedReachable
  <2>3. PICK p \in Places : holds[p] = t
    BY <2>2 DEF S
  <2>4. t # Nil
    BY <1>1, NamedReached, ConstantsType DEF IInv, TypeOK
  <2> QED
    BY <1>1, <2>3, <2>4 DEF IInv, Tokens
<1> QED
  BY <1>1, TreesInvariant, PTL
=============================================================================
