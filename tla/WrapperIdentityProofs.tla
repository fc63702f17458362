------------------------ MODULE WrapperIdentityProofs ------------------------
(***************************************************************************)
(* The wrappers of a parsed tree, proved for trees of any shape and any    *)
(* number of wrappers: a node has one wrapper user code can meet, what a   *)
(* read finds is whole, no entry outlives its wrapper, and a thrown fill   *)
(* leaves the caches as they were.                                         *)
(***************************************************************************)
EXTENDS WrapperIdentity, Recursion, FiniteSetTheorems, SequenceTheorems

-----------------------------------------------------------------------------
(* The inductive invariant.                                                *)

\* The key every route to a node reads it by.
KeyOf(n) == <<Index[n], RowRole(n)>>

\* The wrappers a read would find.
Found == {w \in Live : registry[KeyOf(wraps[w])] = w}

\* The keys and the wrappers whose cache the running fill wrote.
Written == {writes[i].key : i \in {j \in 1..Len(writes) : writes[j].cache = "registry"}}
Cached == {writes[i].key : i \in {j \in 1..Len(writes) : writes[j].cache = "slot"}}

\* The wrappers found before the running fill.
Older == {w \in Found : KeyOf(wraps[w]) \notin Written}

\* The lists the running fill has met, and those it has still to fill.
Queued == {pending[i] : i \in 1..Len(pending)}
Unfilled == {pending[i] : i \in {j \in 1..Len(pending) : j >= from}}

\* How deep in the tree a node is.
Depth ==
  CHOOSE depth \in [Nodes -> 0..Cardinality(Nodes)] :
    \A p \in Nodes : \A n \in Range(Children[p]) : depth[p] < depth[n]

RegistryWrites == [cache : {"registry"}, key : Keys, previous : 0..MaxWrappers]
SlotWrites == [cache : {"slot"}, key : Numbers, previous : {<<>>}]
Writes == RegistryWrites \cup SlotWrites

\* The values each variable takes, whichever wrappers there are.
Shape ==
  /\ wraps \in [Numbers -> Nodes \cup {Nil}] /\ registry \in [Keys -> 0..MaxWrappers]
  /\ slots \in [Numbers -> Seq(Numbers)] /\ items \in [Numbers -> Seq(Numbers)]
  /\ dead \subseteq Wrappers
  /\ pending \in Seq(Numbers) /\ from \in 0..Len(pending) + 1 /\ part \in Seq(Numbers) /\ writes \in Seq(Writes)
  /\ from = 0 => pending = <<>> /\ part = <<>> /\ writes = <<>> /\ kept = {}

\* Only what lives is a child, and what does not has none.
KidsLive == \A w \in Numbers : Kids(w) \subseteq Live /\ (w \notin Live => slots[w] = <<>> /\ items[w] = <<>>)

\* What user code holds was found before the fill; what the fill met lives.
Kept == held \subseteq Older /\ kept \subseteq Live /\ Queued \subseteq kept /\ Range(part) \subseteq kept \cap Found

\* The children of what is found are found.
Closed ==
  /\ \A w \in Found \cup Queued : Kids(w) \subseteq Found
  /\ \A w \in Older : Kids(w) \subseteq Older

\* Of wraps W, slots L and items I: the children wrapper w has, and whether they are all.
KidsBy(L, I, w) == Range(L[w]) \cup Range(I[w])
ChildrenBy(W, w, s) == [i \in 1..Len(s) |-> W[s[i]]] = Children[W[w]]
WholeBy(W, L, I, w) ==
  /\ L[w] # <<>> => ChildrenBy(W, w, L[w])
  /\ W[w] \in Lists => L[w] = I[w] /\ ChildrenBy(W, w, I[w])

\* What is found is whole, a list the fill has yet to reach excepted.
Whole ==
  /\ \A w \in (Found \cup Queued) \ Unfilled : WholeBy(wraps, slots, items, w)
  /\ \A w \in Unfilled : slots[w] = <<>> /\ items[w] = <<>>

\* The lists of a fill: the outermost is not found, the others are new.
Queue ==
  /\ pending # <<>> /\ pending[1] \notin Found
  /\ \A i, j \in 1..Len(pending) : pending[i] = pending[j] => i = j
  /\ \A i \in 2..Len(pending) : pending[i] \in Found \ Older
  /\ \A i \in 1..Len(pending) : wraps[pending[i]] \in Lists /\ Depth[wraps[pending[1]]] <= Depth[wraps[pending[i]]]
  /\ from = Len(pending) + 1 => part = <<>>
  /\ from <= Len(pending) => Len(part) <= Len(Wanted) /\ \A i \in 1..Len(part) : wraps[part[i]] = Wanted[i]

\* The read that began it finds no wrapper meanwhile, and its holder has none.
Call ==
  /\ call.key = KeyOf(wraps[pending[1]]) /\ registry[call.key] \notin Live
  /\ call.holder # 0 => /\ call.holder \in held /\ slots[call.holder] = <<>>
                        /\ wraps[pending[1]] \in Range(Children[wraps[call.holder]])

\* The writes noted tell the registry and the slots there were before.
Undoes ==
  /\ before[1] \in [Keys -> 0..MaxWrappers] /\ before[2] \in [Numbers -> Seq(Numbers)]
  /\ \A i \in 1..Len(writes) : writes[i].previous = before[IF writes[i].cache = "registry" THEN 1 ELSE 2][writes[i].key]
  /\ \A k \in Written : registry[k] \in kept /\ before[1][k] \notin Live
  /\ \A k \in Keys : before[1][k] # 0 => before[1][k] \in Wrappers /\ k = KeyOf(wraps[before[1][k]])
  /\ \A k \in Keys \ Written : registry[k] = before[1][k]
  /\ Cached \subseteq Queued \ Unfilled
  /\ \A w \in Live \ Cached : slots[w] = before[2][w]
  /\ \A w \in Numbers \ Wrappers : before[2][w] = <<>>

IInv ==
  /\ Shape /\ NoStaleEntry /\ KidsLive /\ Kept /\ Closed /\ Whole
  /\ from # 0 => Queue /\ Call /\ Undoes

\* Between calls there is less to say.
Calm ==
  /\ NoStaleEntry /\ KidsLive /\ held \subseteq Found
  /\ \A w \in Found : Kids(w) \subseteq Found /\ WholeBy(wraps, slots, items, w)

-----------------------------------------------------------------------------
(* Sequences.                                                              *)

LEMMA RangeFacts ==
  \A A : \A s \in Seq(A) : Range(s) = {s[i] : i \in 1..Len(s)} /\ Range(s) \subseteq A
BY DEF Range

LEMMA RangeEmpty == Range(<<>>) = {}
BY DEF Range

LEMMA RangeOne ==
  ASSUME NEW x
  PROVE  Range(<<x>>) = {x}
<1> DEFINE s == <<x>>
<1>1. DOMAIN s = {1} /\ s[1] = x
  OBVIOUS
<1> HIDE DEF s
<1>2. Range(s) = {x}
  BY <1>1 DEF Range
<1> QED
  BY <1>2 DEF s

LEMMA RangeAppend ==
  ASSUME NEW A, NEW s \in Seq(A), NEW e \in A
  PROVE  Range(Append(s, e)) = Range(s) \cup {e}
<1> DEFINE t == Append(s, e)
           n == Len(s)
<1>1. DOMAIN t = 1..n + 1 /\ t[n + 1] = e /\ (\A i \in 1..n : t[i] = s[i]) /\ DOMAIN s = 1..n /\ n \in Nat
  OBVIOUS
<1> HIDE DEF t, n
<1>2. \A i \in 1..n + 1 : i \in 1..n \/ i = n + 1
  BY <1>1
<1>3. n + 1 \in 1..n + 1 /\ 1..n \subseteq 1..n + 1
  BY <1>1
<1>4. Range(t) \subseteq Range(s) \cup {e}
  BY <1>1, <1>2 DEF Range
<1>5. Range(s) \cup {e} \subseteq Range(t)
  BY <1>1, <1>3 DEF Range
<1> QED
  BY <1>4, <1>5 DEF t

LEMMA SeqInto ==
  ASSUME NEW A, NEW s \in Seq(A), NEW B, Range(s) \subseteq B
  PROVE  s \in Seq(B)
<1>1. \A i \in 1..Len(s) : s[i] \in B
  BY RangeFacts
<1> QED
  BY <1>1

-----------------------------------------------------------------------------
(* The tree.                                                               *)

LEMMA ConstantsType ==
  /\ Children \in [Nodes -> Seq(Nodes)] /\ Lists \subseteq Nodes /\ Nil \notin Nodes /\ MaxWrappers \in Nat
  /\ Index \in [Nodes -> Nat] /\ Numbers = 1..MaxWrappers /\ 0 \notin Numbers /\ Numbers \subseteq 0..MaxWrappers
  /\ \A n \in Nodes \ Lists : Len(Children[n]) <= 1
BY ConstantsAssumption DEF Numbers

LEMMA KeyType == \A n \in Nodes : KeyOf(n) \in Keys
<1> TAKE n \in Nodes
<1>1. Index[n] \in Range(Index) /\ RowRole(n) \in {"node", "aliasContent"}
  BY ConstantsType DEF Range, RowRole
<1> QED
  BY <1>1 DEF KeyOf, Keys

LEMMA Deeper == \A p \in Nodes : \A n \in Range(Children[p]) : n \in Nodes /\ Depth[p] < Depth[n] /\ Depth[p] \in Nat /\ Depth[n] \in Nat
<1>1. \E depth \in [Nodes -> 0..Cardinality(Nodes)] : \A p \in Nodes : \A n \in Range(Children[p]) : depth[p] < depth[n]
  BY TreeAssumption
<1>2. Depth \in [Nodes -> 0..Cardinality(Nodes)] /\ \A p \in Nodes : \A n \in Range(Children[p]) : Depth[p] < Depth[n]
  BY <1>1 DEF Depth
<1>3. \A p \in Nodes : Range(Children[p]) \subseteq Nodes
  BY ConstantsType, RangeFacts
<1>4. Cardinality(Nodes) \in Nat
  BY TreeAssumption, FS_CardinalityType
<1> QED
  BY <1>2, <1>3, <1>4

LEMMA OneParent == \A p, q \in Nodes : \A n : n \in Range(Children[p]) /\ n \in Range(Children[q]) => p = q
BY TreeAssumption

LEMMA ContentKey ==
  ASSUME NEW p \in Nodes, NEW n \in Range(Children[p])
  PROVE  ContentRole(p, n) = RowRole(n)
<1>1. (\E q \in Nodes : n \in Range(Children[q]) /\ Index[q] = Index[n]) <=> Index[p] = Index[n]
  BY OneParent
<1> QED
  BY <1>1 DEF ContentRole, RowRole

LEMMA ListItemKey ==
  ASSUME NEW p \in Lists, NEW n \in Range(Children[p])
  PROVE  <<Index[n], "node">> = KeyOf(n) /\ n \in Nodes
<1>1. p \in Nodes /\ Index[p] # Index[n] /\ n \in Nodes
  BY TreeAssumption, ConstantsType, Deeper
<1>2. RowRole(n) = "node"
  BY <1>1, OneParent DEF RowRole
<1> QED
  BY <1>1, <1>2 DEF KeyOf

\* Nodes read by one key are one: an envelope's content is read as such.
LEMMA KeyApart ==
  ASSUME NEW m \in Nodes, NEW n \in Nodes, KeyOf(m) = KeyOf(n)
  PROVE  m = n
<1>1. Index[m] = Index[n] /\ RowRole(m) = RowRole(n)
  BY DEF KeyOf
<1>2. ASSUME NEW a \in Nodes, NEW b \in Nodes, Index[a] = Index[b], RowRole(a) = RowRole(b), b \in Range(Children[a])
      PROVE  FALSE
  <2>1. RowRole(b) = "aliasContent"
    BY <1>2 DEF RowRole
  <2>2. PICK p \in Nodes : a \in Range(Children[p]) /\ Index[p] = Index[a]
    BY <1>2, <2>1 DEF RowRole
  <2>3. Depth[p] < Depth[a] /\ Depth[a] < Depth[b] /\ Depth[p] \in Nat /\ Depth[a] \in Nat /\ Depth[b] \in Nat
    BY <1>2, <2>2, Deeper
  <2>4. p # a /\ p # b
    BY <2>3
  <2>5. p \in Range(Children[b]) \/ b \in Range(Children[p])
    BY <1>2, <2>2, <2>4, TreeAssumption
  <2>6. CASE b \in Range(Children[p])
    BY <1>2, <2>4, <2>6, OneParent
  <2>7. CASE p \in Range(Children[b])
    <3>1. Depth[b] < Depth[p]
      BY <2>7, Deeper
    <3> QED
      BY <2>3, <3>1
  <2> QED
    BY <2>5, <2>6, <2>7
<1>3. CASE m # n
  <2>1. m \in Range(Children[n]) \/ n \in Range(Children[m])
    BY <1>1, <1>3, TreeAssumption
  <2> QED
    BY <1>1, <1>2, <2>1
<1> QED
  BY <1>3

-----------------------------------------------------------------------------
(* What holds between calls.                                               *)

LEMMA CalmFacts == IInv /\ UserCode => Calm /\ Shape
<1> SUFFICES ASSUME IInv, from = 0 PROVE Calm /\ Shape
  BY DEF UserCode
<1>1. Shape /\ writes = <<>> /\ pending = <<>> /\ NoStaleEntry /\ KidsLive /\ Kept /\ Closed /\ Whole
  BY DEF IInv, Shape
<1>2. Written = {} /\ Unfilled = {}
  BY <1>1 DEF Written, Unfilled
<1>3. Older = Found
  BY <1>2 DEF Older
<1> QED
  BY <1>1, <1>2, <1>3 DEF Calm, Kept, Closed, Whole

LEMMA CalmHolds == Shape /\ Calm /\ UserCode => IInv
<1> SUFFICES ASSUME Shape, Calm, from = 0 PROVE IInv
  BY DEF UserCode
<1>1. writes = <<>> /\ pending = <<>> /\ part = <<>> /\ kept = {}
  BY DEF Shape
<1>2. Written = {} /\ Unfilled = {} /\ Queued = {}
  BY <1>1 DEF Written, Unfilled, Queued
<1>3. Older = Found
  BY <1>2 DEF Older
<1>4. Range(part) = {}
  BY <1>1, RangeEmpty
<1>5. Kept
  BY <1>1, <1>2, <1>3, <1>4 DEF Kept, Calm
<1>6. Closed /\ Whole
  BY <1>2, <1>3 DEF Closed, Whole, Calm
<1> QED
  BY <1>5, <1>6 DEF IInv, Calm

LEMMA CalmHoldsAfter == Shape' /\ Calm' /\ UserCode' => IInv'
BY CalmHolds, PTL

\* The wrapper at a key while it lives is found, and of the node of the key.
LEMMA AtKey ==
  ASSUME Shape, NoStaleEntry, NEW n \in Nodes, registry[KeyOf(n)] \in Live
  PROVE  registry[KeyOf(n)] \in Found /\ wraps[registry[KeyOf(n)]] = n
<1> DEFINE k == KeyOf(n)
           w == registry[k]
<1>1. k \in Keys /\ w \in Live /\ w # 0 /\ w \in Numbers
  BY KeyType, ConstantsType DEF Live, Wrappers
<1>2. wraps[w] \in Nodes
  BY <1>1 DEF Shape, Live, Wrappers
<1>3. k = KeyOf(wraps[w])
  BY <1>1 DEF NoStaleEntry, KeyOf
<1> HIDE DEF w
<1>4. wraps[w] = n
  BY <1>2, <1>3, KeyApart
<1>5. registry[KeyOf(wraps[w])] = w
  BY <1>4 DEF w
<1>6. w \in Found
  BY <1>1, <1>5 DEF Found
<1> QED
  BY <1>4, <1>6 DEF w

LEMMA FoundFacts ==
  ASSUME Shape
  PROVE  /\ Found \subseteq Live /\ Live \subseteq Wrappers /\ Wrappers \subseteq Numbers /\ 0 \notin Live
         /\ \A w \in Wrappers : wraps[w] \in Nodes /\ KeyOf(wraps[w]) \in Keys
         /\ \A w \in Found : registry[KeyOf(wraps[w])] = w
BY KeyType, ConstantsType DEF Shape, Found, Live, Wrappers

\* However a node is reached it is read by its key.
LEMMA RouteFacts ==
  ASSUME Shape, Calm, NEW n \in Nodes, NEW r \in Routes(n)
  PROVE  /\ r.key = KeyOf(n)
         /\ r.holder # 0 => r.holder \in held /\ slots[r.holder] = <<>> /\ n \in Range(Children[wraps[r.holder]])
<1>1. CASE r = ByRow(n)
  BY <1>1 DEF ByRow, KeyOf
<1>2. ASSUME NEW w \in held, n \in Range(Children[wraps[w]]), slots[w] = <<>>, r = BySlot(w, n) PROVE r.key = KeyOf(n) /\ r.holder = w
  <2>1. wraps[w] \in Nodes
    BY FoundFacts DEF Calm
  <2>2. ContentRole(wraps[w], n) = RowRole(n)
    BY <1>2, <2>1, ContentKey
  <2> QED
    BY <1>2, <2>2 DEF BySlot, KeyOf
<1> QED
  BY <1>1, <1>2 DEF Routes

LEMMA NewFacts ==
  ASSUME Shape, Room
  PROVE  New \in Numbers /\ wraps[New] = Nil /\ New \notin Wrappers /\ New # 0
<1> DEFINE S == Numbers \ Wrappers
<1>1. S \subseteq Nat /\ S # {}
  BY ConstantsType DEF Room, Wrappers
<1> HIDE DEF S
<1>2. \E m \in S : \A n \in S : m <= n
  BY <1>1, LeastNat
<1>3. Min(S) \in S
  BY <1>2 DEF Min
<1> QED
  BY <1>3, ConstantsType DEF New, S, Wrappers

\* A wrapper stays whole while it and its children are untouched.
LEMMA WholeSame ==
  ASSUME NEW W, NEW L \in [Numbers -> Seq(Numbers)], NEW I \in [Numbers -> Seq(Numbers)], NEW w \in Numbers, WholeBy(W, L, I, w),
         NEW W2, NEW L2, NEW I2, W2[w] = W[w], L2[w] = L[w], I2[w] = I[w], \A x \in KidsBy(L, I, w) : W2[x] = W[x]
  PROVE  WholeBy(W2, L2, I2, w)
<1>1. ASSUME NEW s \in Seq(Numbers), Range(s) \subseteq KidsBy(L, I, w), ChildrenBy(W, w, s) PROVE ChildrenBy(W2, w, s)
  <2>1. \A i \in 1..Len(s) : W2[s[i]] = W[s[i]]
    <3>1. \A i \in 1..Len(s) : s[i] \in Range(s)
      BY RangeFacts
    <3> QED
      BY <1>1, <3>1
  <2>2. [i \in 1..Len(s) |-> W2[s[i]]] = [i \in 1..Len(s) |-> W[s[i]]]
    BY <2>1
  <2> QED
    BY <1>1, <2>2 DEF ChildrenBy
<1>2. L[w] \in Seq(Numbers) /\ I[w] \in Seq(Numbers) /\ Range(L[w]) \subseteq KidsBy(L, I, w) /\ Range(I[w]) \subseteq KidsBy(L, I, w)
  BY DEF KidsBy
<1> QED
  BY <1>1, <1>2 DEF WholeBy

LEMMA KidsAre == \A w : Kids(w) = KidsBy(slots, items, w) /\ Kids(w)' = KidsBy(slots', items', w)
BY DEF Kids, KidsBy

\* A wrapper with no child is whole if it is of no list.
LEMMA WholeEmpty ==
  ASSUME NEW W, NEW L, NEW I, NEW w, L[w] = <<>>, W[w] \notin Lists
  PROVE  WholeBy(W, L, I, w)
BY DEF WholeBy

\* The slot of a node that is no list holds its one child.
LEMMA OneChild ==
  ASSUME NEW W, NEW w, W[w] \in Nodes \ Lists, NEW x, W[x] \in Range(Children[W[w]])
  PROVE  ChildrenBy(W, w, <<x>>)
<1> DEFINE c == Children[W[w]]
<1>1. c \in Seq(Nodes) /\ Len(c) <= 1
  BY ConstantsType
<1>2. PICK i \in 1..Len(c) : c[i] = W[x]
  BY <1>1, RangeFacts
<1>3. Len(c) = 1 /\ c[1] = W[x]
  <2> DEFINE m == Len(c)
  <2>1. m \in Nat /\ m <= 1 /\ i \in 1..m
    BY <1>1
  <2> HIDE DEF m
  <2>2. i = 1 /\ m = 1
    BY <2>1
  <2> QED
    BY <1>2, <2>2 DEF m
<1>4. c = [k \in 1..1 |-> W[x]]
  BY <1>1, <1>3
<1> DEFINE s == <<x>>
<1>5. Len(s) = 1 /\ s[1] = x
  OBVIOUS
<1> HIDE DEF s, c
<1>6. [k \in 1..Len(s) |-> W[s[k]]] = [k \in 1..1 |-> W[x]]
  BY <1>5
<1> QED
  BY <1>4, <1>6 DEF ChildrenBy, s, c

-----------------------------------------------------------------------------
(* What is found, handed and let go between calls.                         *)

LEMMA NewWrapper ==
  ASSUME Shape, NEW n \in Nodes, Wrap(n), dead' = dead
  PROVE  /\ New \in Numbers /\ New \notin Wrappers /\ New # 0
         /\ Wrappers' = Wrappers \cup {New} /\ Live' = Live \cup {New}
         /\ wraps' \in [Numbers -> Nodes \cup {Nil}] /\ wraps'[New] = n /\ \A w \in Wrappers : wraps'[w] = wraps[w]
<1> DEFINE v == New
<1>1. Room /\ wraps' = [wraps EXCEPT ![v] = n]
  BY DEF Wrap
<1>2. v \in Numbers /\ v \notin Wrappers /\ v # 0
  BY <1>1, NewFacts
<1> HIDE DEF v
<1>3. wraps' \in [Numbers -> Nodes \cup {Nil}] /\ wraps'[v] = n /\ \A w \in Numbers : w # v => wraps'[w] = wraps[w]
  BY <1>1, <1>2 DEF Shape
<1>4. Wrappers' = Wrappers \cup {v}
  BY <1>2, <1>3, ConstantsType DEF Wrappers
<1>5. Live' = Live \cup {v}
  BY <1>2, <1>4 DEF Live, Shape
<1>6. \A w \in Wrappers : wraps'[w] = wraps[w]
  BY <1>2, <1>3 DEF Wrappers
<1> QED
  BY <1>2, <1>3, <1>4, <1>5, <1>6 DEF v

\* Registering a wrapper where a read found none loses no other.
LEMMA Registers ==
  ASSUME Shape, NoStaleEntry, NEW v \in Numbers, NEW n \in Nodes, Wrappers' = Wrappers \cup {v}, Live' = Live \cup {v},
         wraps'[v] = n, \A w \in Wrappers : wraps'[w] = wraps[w], registry[KeyOf(n)] \notin Live,
         registry' = [registry EXCEPT ![KeyOf(n)] = v]
  PROVE  Found' = Found \cup {v} /\ NoStaleEntry' /\ registry' \in [Keys -> 0..MaxWrappers]
<1> DEFINE k == KeyOf(n)
<1>1. k \in Keys /\ registry \in [Keys -> 0..MaxWrappers] /\ v \in 0..MaxWrappers
  BY KeyType, ConstantsType DEF Shape
<1>2. registry' = [registry EXCEPT ![k] = v] /\ registry[k] \notin Live
  OBVIOUS
<1> HIDE DEF k
<1>3. registry' \in [Keys -> 0..MaxWrappers] /\ registry'[k] = v /\ \A j \in Keys : j # k => registry'[j] = registry[j]
  BY <1>1, <1>2
<1>4. ASSUME NEW w \in Live, w # v PROVE w \in Found' <=> w \in Found
  <2>1. w \in Wrappers /\ KeyOf(wraps[w]) \in Keys /\ wraps'[w] = wraps[w] /\ w \in Live'
    BY <1>4, FoundFacts
  <2>2. CASE KeyOf(wraps[w]) = k
    <3>1. registry[KeyOf(wraps[w])] # w /\ registry'[KeyOf(wraps[w])] # w
      BY <1>2, <1>3, <1>4, <2>2
    <3> QED
      BY <2>1, <3>1 DEF Found
  <2>3. CASE KeyOf(wraps[w]) # k
    BY <1>3, <2>1, <2>3 DEF Found
  <2> QED
    BY <2>2, <2>3
<1>5. v \in Found'
  BY <1>3 DEF Found, k
<1>6. Found' = Found \cup {v}
  <2>1. Found' \subseteq Live \cup {v} /\ Found \subseteq Live
    BY DEF Found
  <2> QED
    BY <1>4, <1>5, <2>1
<1>7. NoStaleEntry'
  <2> SUFFICES ASSUME NEW j \in Keys, registry'[j] # 0 PROVE registry'[j] \in Wrappers' /\ j = KeyOf(wraps'[registry'[j]])
    BY DEF NoStaleEntry, KeyOf
  <2>1. CASE j = k
    BY <1>3, <2>1 DEF k
  <2>2. CASE j # k
    <3>1. registry'[j] = registry[j] /\ registry[j] # 0
      BY <1>3, <2>2
    <3>2. registry[j] \in Wrappers /\ j = KeyOf(wraps[registry[j]])
      BY <3>1 DEF NoStaleEntry, KeyOf
    <3> QED
      BY <3>1, <3>2
  <2> QED
    BY <2>1, <2>2
<1> QED
  BY <1>3, <1>6, <1>7

\* A wrapper handed to user code, cached in the slot it was read from.
LEMMA HandCalm ==
  ASSUME Shape, NoStaleEntry', KidsLive, held \subseteq Found,
         NEW v \in Numbers, NEW n \in Nodes, NEW h, Live' = Live \cup {v}, Found' = Found \cup {v}, held' = held \cup {v},
         slots' = IF h = 0 THEN slots ELSE [slots EXCEPT ![h] = <<v>>], items' = items,
         wraps'[v] = n, \A w \in Live : wraps'[w] = wraps[w],
         h # 0 => h \in held /\ slots[h] = <<>> /\ n \in Range(Children[wraps[h]]),
         \A w \in Found \cup {v} : Kids(w) \subseteq Found,
         \A w \in Found : WholeBy(wraps, slots, items, w), WholeBy(wraps', slots, items, v)
  PROVE  Calm' /\ slots' \in [Numbers -> Seq(Numbers)]
<1>1. /\ slots \in [Numbers -> Seq(Numbers)] /\ items \in [Numbers -> Seq(Numbers)]
      /\ Found \subseteq Live /\ Live \subseteq Wrappers /\ Wrappers \subseteq Numbers
      /\ \A w \in Wrappers : wraps[w] \in Nodes
  BY FoundFacts DEF Shape
<1>2. <<v>> \in Seq(Numbers) /\ Range(<<v>>) = {v} /\ <<v>> # <<>>
  BY RangeOne
<1>3. h # 0 => h \in Found /\ h \in Numbers /\ h \in Live
  BY <1>1
<1> DEFINE one == <<v>>
<1>4. /\ slots' \in [Numbers -> Seq(Numbers)]
      /\ \A w \in Numbers : w # h \/ h = 0 => slots'[w] = slots[w]
      /\ h # 0 => slots'[h] = one
  <2> HIDE DEF one
  <2>1. slots' = IF h = 0 THEN slots ELSE [slots EXCEPT ![h] = one]
    BY DEF one
  <2>2. one \in Seq(Numbers)
    BY <1>2 DEF one
  <2> QED
    BY <1>1, <1>3, <2>1, <2>2
<1>5. \A w \in Numbers : w # h \/ h = 0 => Kids(w)' = Kids(w)
  BY <1>4, KidsAre DEF KidsBy
<1>6. h # 0 => Kids(h)' \subseteq {v} \cup Kids(h)
  BY <1>2, <1>4, KidsAre DEF KidsBy
<1>7. KidsLive'
  <2> SUFFICES ASSUME NEW w \in Numbers
               PROVE  Kids(w)' \subseteq Live' /\ (w \notin Live' => slots'[w] = <<>> /\ items'[w] = <<>>)
    BY DEF KidsLive
  <2>1. Kids(w) \subseteq Live /\ (w \notin Live => slots[w] = <<>> /\ items[w] = <<>>)
    BY DEF KidsLive
  <2>2. Kids(w)' \subseteq Live'
    BY <1>5, <1>6, <2>1
  <2>3. w \notin Live' => w # h \/ h = 0
    BY <1>3
  <2> QED
    BY <1>4, <2>1, <2>2, <2>3
<1>8. held' \subseteq Found'
  OBVIOUS
<1>9. ASSUME NEW w \in Found' PROVE Kids(w)' \subseteq Found'
  <2>1. w \in Numbers /\ Kids(w) \subseteq Found
    BY <1>1, <1>9
  <2> QED
    BY <1>5, <1>6, <2>1
<1>10. ASSUME NEW w \in Found' PROVE WholeBy(wraps', slots', items', w)
  <2>1. w \in Numbers /\ KidsBy(slots, items, w) \subseteq Live
    BY <1>1, <1>10, KidsAre
  <2>2. CASE (w # h \/ h = 0) /\ w \in Found
    <3>1. wraps'[w] = wraps[w] /\ slots'[w] = slots[w] /\ items'[w] = items[w] /\ \A x \in KidsBy(slots, items, w) : wraps'[x] = wraps[x]
      BY <1>1, <1>4, <2>1, <2>2
    <3>2. WholeBy(wraps, slots, items, w)
      BY <2>2
    <3> QED
      BY <1>1, <2>1, <3>1, <3>2, WholeSame
  <2>3. CASE (w # h \/ h = 0) /\ w \notin Found
    <3>1. w = v /\ slots'[w] = slots[w] /\ items'[w] = items[w]
      BY <1>4, <1>10, <2>1, <2>3
    <3>2. WholeBy(wraps', slots, items, w)
      BY <3>1
    <3> QED
      BY <1>1, <2>1, <3>1, <3>2, WholeSame
  <2>4. CASE w = h /\ h # 0
    <3>1. w \in Found /\ slots[w] = <<>> /\ n \in Range(Children[wraps[w]]) /\ wraps'[w] = wraps[w] /\ wraps[w] \in Nodes
      BY <1>1, <1>3, <2>4
    <3>2. wraps[w] \notin Lists
      <4> SUFFICES ASSUME wraps[w] \in Lists PROVE FALSE
        OBVIOUS
      <4>1. items[w] = <<>> /\ ChildrenBy(wraps, w, <<>>)
        BY <3>1 DEF WholeBy
      <4>2. Children[wraps[w]] \in Seq(Nodes) /\ DOMAIN Children[wraps[w]] = {}
        BY <3>1, <4>1, ConstantsType DEF ChildrenBy
      <4> QED
        BY <3>1, <4>2 DEF Range
    <3>3. ChildrenBy(wraps', w, <<v>>)
      BY <3>1, <3>2, OneChild
    <3>4. slots'[w] = <<v>> /\ wraps'[w] \notin Lists
      BY <1>4, <2>4, <3>1, <3>2
    <3> QED
      BY <3>3, <3>4 DEF WholeBy
  <2> QED
    BY <2>2, <2>3, <2>4
<1> QED
  BY <1>4, <1>7, <1>8, <1>9, <1>10 DEF Calm

LEMMA ReadKnownKeeps ==
  ASSUME IInv, NEW n \in Nodes, NEW r \in Routes(n), ReadKnown(n, r)
  PROVE  IInv'
<1>1. Calm /\ Shape /\ UserCode
  BY CalmFacts DEF ReadKnown
<1>2. r.key = KeyOf(n) /\ (r.holder # 0 => r.holder \in held /\ slots[r.holder] = <<>> /\ n \in Range(Children[wraps[r.holder]]))
  BY <1>1, RouteFacts
<1> DEFINE v == registry[KeyOf(n)]
           h == r.holder
<1>3. v \in Live /\ Registered(r.key) = v
  BY <1>2 DEF ReadKnown, Registered
<1>4. /\ held' = held \cup {v} /\ slots' = IF h = 0 THEN slots ELSE [slots EXCEPT ![h] = <<v>>]
      /\ UNCHANGED <<wraps, registry, items, dead, fill>>
  BY <1>3 DEF ReadKnown, Hand
<1>5. v \in Found /\ wraps[v] = n
  BY <1>1, <1>3, AtKey DEF Calm
<1> HIDE DEF v, h
<1>6. Live' = Live /\ Wrappers' = Wrappers /\ Found' = Found /\ NoStaleEntry'
  BY <1>1, <1>4 DEF Live, Wrappers, Found, Calm, NoStaleEntry
<1>7. v \in Numbers
  BY <1>1, <1>5, FoundFacts
<1>8. Calm' /\ slots' \in [Numbers -> Seq(Numbers)]
  <2>1. /\ KidsLive /\ held \subseteq Found /\ Live' = Live \cup {v} /\ Found' = Found \cup {v}
        /\ \A w \in Found \cup {v} : Kids(w) \subseteq Found
        /\ \A w \in Found : WholeBy(wraps, slots, items, w)
    BY <1>1, <1>3, <1>5, <1>6 DEF Calm
  <2>2. WholeBy(wraps', slots, items, v) /\ wraps'[v] = n /\ \A w \in Live : wraps'[w] = wraps[w]
    BY <1>4, <1>5, <2>1
  <2>3. h # 0 => h \in held /\ slots[h] = <<>> /\ n \in Range(Children[wraps[h]])
    BY <1>2 DEF h
  <2> QED
    BY <1>1, <1>4, <1>6, <1>7, <2>1, <2>2, <2>3, HandCalm
<1>9. Shape' /\ UserCode'
  BY <1>1, <1>4, <1>6, <1>8 DEF Shape, UserCode, fill
<1> QED
  BY <1>8, <1>9, CalmHoldsAfter

LEMMA ReadNewKeeps ==
  ASSUME IInv, NEW n \in Nodes, NEW r \in Routes(n), ReadNew(n, r)
  PROVE  IInv'
<1>1. Calm /\ Shape /\ UserCode
  BY CalmFacts DEF ReadNew
<1>2. r.key = KeyOf(n) /\ (r.holder # 0 => r.holder \in held /\ slots[r.holder] = <<>> /\ n \in Range(Children[wraps[r.holder]]))
  BY <1>1, RouteFacts
<1> DEFINE v == New
           h == r.holder
<1>3. /\ registry[KeyOf(n)] \notin Live /\ Wrap(n) /\ n \notin Lists
      /\ registry' = [registry EXCEPT ![KeyOf(n)] = v]
      /\ held' = held \cup {v} /\ slots' = IF h = 0 THEN slots ELSE [slots EXCEPT ![h] = <<v>>]
      /\ UNCHANGED <<items, dead, fill>>
  <2>1. Registered(r.key) = 0
    BY DEF ReadNew
  <2>2. registry[KeyOf(n)] \notin Live
    BY <1>1, <1>2, <2>1, FoundFacts DEF Registered
  <2> QED
    BY <1>2, <2>2 DEF ReadNew, Hand
<1>4. /\ v \in Numbers /\ v \notin Wrappers /\ v # 0
      /\ Wrappers' = Wrappers \cup {v} /\ Live' = Live \cup {v}
      /\ wraps' \in [Numbers -> Nodes \cup {Nil}] /\ wraps'[v] = n /\ \A w \in Wrappers : wraps'[w] = wraps[w]
  BY <1>1, <1>3, NewWrapper
<1> HIDE DEF v, h
<1>5. Found' = Found \cup {v} /\ NoStaleEntry' /\ registry' \in [Keys -> 0..MaxWrappers]
  <2>1. NoStaleEntry
    BY <1>1 DEF Calm
  <2> QED
    BY <1>1, <1>3, <1>4, <2>1, Registers
<1>6. Calm' /\ slots' \in [Numbers -> Seq(Numbers)]
  <2>1. KidsLive /\ held \subseteq Found /\ \A w \in Found : Kids(w) \subseteq Found /\ WholeBy(wraps, slots, items, w)
    BY <1>1 DEF Calm
  <2>2. v \notin Live /\ Live \subseteq Wrappers
    BY <1>1, <1>4, FoundFacts
  <2>3. slots[v] = <<>> /\ items[v] = <<>>
    BY <1>4, <2>1, <2>2 DEF KidsLive
  <2>4. Kids(v) = {}
    BY <2>3, RangeEmpty DEF Kids
  <2>5. WholeBy(wraps', slots, items, v)
    BY <1>3, <1>4, <2>3, WholeEmpty
  <2>6. h # 0 => h \in held /\ slots[h] = <<>> /\ n \in Range(Children[wraps[h]])
    BY <1>2 DEF h
  <2>7. (\A w \in Found \cup {v} : Kids(w) \subseteq Found) /\ \A w \in Live : wraps'[w] = wraps[w]
    BY <1>4, <2>1, <2>2, <2>4
  <2> QED
    BY <1>1, <1>3, <1>4, <1>5, <2>1, <2>5, <2>6, <2>7, HandCalm
<1>7. Shape' /\ UserCode'
  BY <1>1, <1>3, <1>4, <1>5, <1>6 DEF Shape, UserCode, fill
<1> QED
  BY <1>6, <1>7, CalmHoldsAfter

\* What a step that touches user code's own wrappers alone leaves.
LEMMA CalmSame ==
  ASSUME IInv, UserCode, held' \subseteq Found, UNCHANGED <<wraps, registry, slots, items, dead, fill>>
  PROVE  IInv'
<1>1. Calm /\ Shape
  BY CalmFacts
<1>2. Live' = Live /\ Wrappers' = Wrappers /\ Found' = Found /\ \A w : Kids(w)' = Kids(w)
  BY DEF Live, Wrappers, Found, Kids
<1>3. Calm'
  BY <1>1, <1>2 DEF Calm, NoStaleEntry, KidsLive
<1>4. Shape' /\ UserCode'
  BY <1>1, <1>2 DEF Shape, UserCode, fill
<1> QED
  BY <1>3, <1>4, CalmHoldsAfter

LEMMA TakeChildKeeps == ASSUME IInv, NEW w \in held, NEW c \in Kids(w), TakeChild(w, c) PROVE IInv'
<1>1. Calm
  BY CalmFacts DEF TakeChild
<1>2. held' \subseteq Found
  BY <1>1 DEF TakeChild, Calm
<1> QED
  BY <1>2, CalmSame DEF TakeChild, caches

LEMMA DropKeeps == ASSUME IInv, NEW w \in held, Drop(w) PROVE IInv'
<1>1. Calm
  BY CalmFacts DEF Drop
<1>2. held' \subseteq Found
  BY <1>1 DEF Drop, Calm
<1> QED
  BY <1>2, CalmSame DEF Drop, caches

LEMMA FinalizeKeeps == ASSUME IInv, NEW w \in Wrappers, Finalize(w) PROVE IInv'
<1>1. Calm /\ Shape /\ UserCode
  BY CalmFacts DEF Finalize
<1>2. /\ w \in dead /\ w \in Numbers
      /\ registry' = [k \in Keys |-> IF registry[k] = w THEN 0 ELSE registry[k]]
      /\ dead' = dead \ {w} /\ wraps' = [wraps EXCEPT ![w] = Nil]
      /\ UNCHANGED <<slots, items, held, fill>>
  BY DEF Finalize, EntryDeleted, Wrappers
<1>3. wraps' \in [Numbers -> Nodes \cup {Nil}] /\ wraps'[w] = Nil /\ \A v \in Numbers : v # w => wraps'[v] = wraps[v]
  BY <1>1, <1>2 DEF Shape
<1>4. Wrappers' = Wrappers \ {w} /\ Live' = Live /\ w \notin Live
  BY <1>2, <1>3 DEF Wrappers, Live
<1>5. registry' \in [Keys -> 0..MaxWrappers] /\ \A k \in Keys : registry'[k] = IF registry[k] = w THEN 0 ELSE registry[k]
  BY <1>1, <1>2, ConstantsType DEF Shape
<1>6. \A v \in Live : v \in Numbers /\ v # w /\ v # 0 /\ wraps'[v] = wraps[v] /\ KeyOf(wraps[v]) \in Keys
  BY <1>1, <1>3, <1>4, FoundFacts
<1>7. Found' = Found
  <2>1. \A v \in Live : v \in Found' <=> v \in Found
    BY <1>4, <1>5, <1>6 DEF Found
  <2>2. Found \subseteq Live /\ Found' \subseteq Live
    BY <1>4 DEF Found
  <2> QED
    BY <2>1, <2>2
<1>8. NoStaleEntry'
  <2> SUFFICES ASSUME NEW k \in Keys, registry'[k] # 0 PROVE registry'[k] \in Wrappers' /\ k = KeyOf(wraps'[registry'[k]])
    BY DEF NoStaleEntry, KeyOf
  <2>1. registry'[k] = registry[k] /\ registry[k] # w /\ registry[k] # 0
    BY <1>5
  <2>2. registry[k] \in Wrappers /\ k = KeyOf(wraps[registry[k]])
    BY <1>1, <2>1 DEF Calm, NoStaleEntry, KeyOf
  <2> QED
    BY <1>3, <1>4, <2>1, <2>2 DEF Wrappers
<1>9. \A v : Kids(v)' = Kids(v)
  BY <1>2 DEF Kids
<1>10. KidsLive'
  BY <1>1, <1>2, <1>4, <1>9 DEF Calm, KidsLive
<1>11. ASSUME NEW v \in Found PROVE WholeBy(wraps', slots', items', v)
  <2>1. v \in Live /\ KidsBy(slots, items, v) \subseteq Live /\ WholeBy(wraps, slots, items, v)
    BY <1>1, <1>6, FoundFacts, KidsAre DEF Calm, KidsLive
  <2>2. /\ wraps'[v] = wraps[v] /\ slots'[v] = slots[v] /\ items'[v] = items[v] /\ v \in Numbers
        /\ \A x \in KidsBy(slots, items, v) : wraps'[x] = wraps[x]
    BY <1>2, <1>6, <2>1
  <2>3. slots \in [Numbers -> Seq(Numbers)] /\ items \in [Numbers -> Seq(Numbers)]
    BY <1>1 DEF Shape
  <2> QED
    BY <2>1, <2>2, <2>3, WholeSame
<1>12. Calm'
  BY <1>1, <1>2, <1>7, <1>8, <1>9, <1>10, <1>11 DEF Calm
<1>13. Shape' /\ UserCode'
  BY <1>1, <1>2, <1>3, <1>4, <1>5 DEF Shape, UserCode, fill
<1> QED
  BY <1>12, <1>13, CalmHoldsAfter

-----------------------------------------------------------------------------
(* The fill.                                                               *)

LEMMA DepthType == \A n \in Nodes : Depth[n] \in Nat
<1>1. \E depth \in [Nodes -> 0..Cardinality(Nodes)] : \A p \in Nodes : \A n \in Range(Children[p]) : depth[p] < depth[n]
  BY TreeAssumption
<1>2. Depth \in [Nodes -> 0..Cardinality(Nodes)]
  BY <1>1 DEF Depth
<1>3. Cardinality(Nodes) \in Nat
  BY TreeAssumption, FS_CardinalityType
<1> QED
  BY <1>2, <1>3

LEMMA ReadListKeeps ==
  ASSUME IInv, NEW n \in Nodes, NEW r \in Routes(n), ReadList(n, r)
  PROVE  IInv'
<1>1. Calm /\ Shape /\ from = 0
  BY CalmFacts DEF ReadList, UserCode
<1>2. r.key = KeyOf(n) /\ (r.holder # 0 => r.holder \in held /\ slots[r.holder] = <<>> /\ n \in Range(Children[wraps[r.holder]]))
  BY <1>1, RouteFacts
<1> DEFINE v == New
           one == <<v>>
<1>3. /\ Wrap(n) /\ n \in Lists /\ pending' = one /\ from' = 1 /\ kept' = {v} \cup ({r.holder} \ {0})
      /\ call' = r /\ before' = <<registry, slots>> /\ part = <<>> /\ writes = <<>>
      /\ UNCHANGED <<registry, slots, items, held, dead, part, writes>>
  BY <1>1 DEF ReadList, caches, heap, Shape
<1>4. registry[KeyOf(n)] \notin Live
  BY <1>1, <1>2, FoundFacts DEF ReadList, Registered
<1>5. /\ v \in Numbers /\ v \notin Wrappers /\ v # 0
      /\ Wrappers' = Wrappers \cup {v} /\ Live' = Live \cup {v}
      /\ wraps' \in [Numbers -> Nodes \cup {Nil}] /\ wraps'[v] = n /\ \A w \in Wrappers : wraps'[w] = wraps[w]
  BY <1>1, <1>3, NewWrapper
<1> HIDE DEF v
<1>6. one \in Seq(Numbers) /\ Len(one) = 1 /\ one[1] = v /\ one # <<>>
  BY <1>5
<1> HIDE DEF one
<1>7. /\ NoStaleEntry /\ KidsLive /\ held \subseteq Found /\ Found \subseteq Live /\ Live \subseteq Wrappers /\ Wrappers \subseteq Numbers
      /\ \A w \in Found : Kids(w) \subseteq Found /\ WholeBy(wraps, slots, items, w)
      /\ \A k \in Keys : registry[k] # 0 => registry[k] \in Wrappers /\ k = KeyOf(wraps[registry[k]])
  BY <1>1, FoundFacts DEF Calm, NoStaleEntry, KeyOf
<1>8. \A k \in Keys : registry[k] # v
  BY <1>5, <1>7
<1>9. Found' = Found
  <2>1. \A w \in Live : w \in Found' <=> w \in Found
    BY <1>3, <1>5, <1>7 DEF Found
  <2>2. v \notin Found'
    BY <1>3, <1>5, <1>8, KeyType DEF Found
  <2> QED
    BY <1>5, <1>7, <2>1, <2>2 DEF Found
<1>10. Written' = {} /\ Cached' = {} /\ Older' = Found'
  <2>1. Written' = {} /\ Cached' = {}
    BY <1>3 DEF Written, Cached
  <2> QED
    BY <2>1 DEF Older
<1>11. Queued' = {v} /\ Unfilled' = {v}
  BY <1>3, <1>6 DEF Queued, Unfilled
<1>12. slots[v] = <<>> /\ items[v] = <<>> /\ Kids(v) = {} /\ \A w : Kids(w)' = Kids(w)
  <2>1. slots[v] = <<>> /\ items[v] = <<>>
    BY <1>5, <1>7 DEF KidsLive
  <2> QED
    BY <1>3, <2>1, RangeEmpty DEF Kids
<1>13. NoStaleEntry'
  BY <1>3, <1>5, <1>7 DEF NoStaleEntry, KeyOf
<1>14. KidsLive'
  BY <1>3, <1>5, <1>7, <1>12 DEF KidsLive
<1>15. Kept'
  <2>1. Range(part') = {} /\ kept' \subseteq Live'
    BY <1>2, <1>3, <1>5, <1>7, RangeEmpty
  <2> QED
    BY <1>3, <1>7, <1>9, <1>10, <1>11, <2>1 DEF Kept
<1>16. Closed'
  BY <1>7, <1>9, <1>10, <1>11, <1>12 DEF Closed
<1>17. Whole'
  <2>1. ASSUME NEW w \in Found PROVE WholeBy(wraps', slots', items', w)
    <3>1. /\ w \in Numbers /\ wraps'[w] = wraps[w] /\ slots'[w] = slots[w] /\ items'[w] = items[w] /\ WholeBy(wraps, slots, items, w)
      BY <1>3, <1>5, <1>7
    <3>2. \A x \in KidsBy(slots, items, w) : wraps'[x] = wraps[x]
      BY <1>5, <1>7, KidsAre
    <3>3. slots \in [Numbers -> Seq(Numbers)] /\ items \in [Numbers -> Seq(Numbers)]
      BY <1>1 DEF Shape
    <3> QED
      BY <3>1, <3>2, <3>3, WholeSame
  <2> QED
    BY <1>3, <1>9, <1>11, <1>12, <2>1 DEF Whole
<1>18. Queue'
  <2>1. Wanted' = Children[n]
    BY <1>3, <1>5, <1>6 DEF Wanted, Filling
  <2>2. Len(Children[n]) \in Nat /\ Len(part') = 0
    BY <1>3, ConstantsType
  <2>3. Depth[n] \in Nat
    BY DepthType
  <2>4. v \notin Found'
    BY <1>5, <1>7, <1>9
  <2>5. \A i \in 1..Len(pending') : i = 1
    BY <1>3, <1>6
  <2> QED
    BY <1>3, <1>5, <1>6, <2>1, <2>2, <2>3, <2>4, <2>5 DEF Queue
<1>19. Call'
  <2>1. registry'[KeyOf(n)] \notin Live'
    BY <1>3, <1>4, <1>5, <1>8, KeyType
  <2>2. r.holder # 0 => wraps'[r.holder] = wraps[r.holder]
    BY <1>2, <1>5, <1>7
  <2> QED
    BY <1>2, <1>3, <1>5, <1>6, <2>1, <2>2 DEF Call
<1>20. Undoes'
  <2>1. before'[1] = registry /\ before'[2] = slots
    BY <1>3
  <2>2. \A k \in Keys : registry[k] # 0 => registry[k] \in Wrappers' /\ k = KeyOf(wraps'[registry[k]])
    BY <1>5, <1>7
  <2>3. \A w \in Numbers \ Wrappers' : slots[w] = <<>>
    BY <1>5, <1>7 DEF KidsLive
  <2>4. registry \in [Keys -> 0..MaxWrappers] /\ slots \in [Numbers -> Seq(Numbers)] /\ Len(writes') = 0
    BY <1>1, <1>3 DEF Shape
  <2> QED
    BY <1>3, <1>10, <2>1, <2>2, <2>3, <2>4 DEF Undoes
<1>21. Shape'
  BY <1>1, <1>3, <1>5, <1>6 DEF Shape
<1> QED
  BY <1>13, <1>14, <1>15, <1>16, <1>17, <1>18, <1>19, <1>20, <1>21 DEF IInv

LEMMA QueuedFacts ==
  ASSUME IInv, from # 0
  PROVE  /\ pending \in Seq(Numbers) /\ Len(pending) \in Nat /\ Len(pending) >= 1 /\ from \in 1..Len(pending) + 1
         /\ Queued = Range(pending) /\ Unfilled \subseteq Queued /\ Queued \subseteq Live /\ Queued \cap Older = {}
         /\ pending[1] \in Queued /\ \A w \in Queued : w = pending[1] \/ w \in Found
<1>1. Shape /\ Queue /\ Kept
  BY DEF IInv
<1>2. pending \in Seq(Numbers) /\ Len(pending) \in Nat /\ from \in 1..Len(pending) + 1 /\ pending # <<>>
  BY <1>1 DEF Shape, Queue
<1>3. Len(pending) >= 1
  BY <1>2
<1>4. Queued = Range(pending)
  BY <1>2, RangeFacts DEF Queued
<1>5. Unfilled \subseteq Queued /\ Queued \subseteq Live
  BY <1>1 DEF Unfilled, Queued, Kept
<1>6. 1 \in 1..Len(pending) /\ \A i \in 1..Len(pending) : i = 1 \/ i \in 2..Len(pending)
  BY <1>2, <1>3
<1>7. \A i \in 1..Len(pending) : pending[i] \notin Older /\ (i = 1 \/ pending[i] \in Found)
  BY <1>1, <1>6 DEF Queue, Older
<1> QED
  BY <1>2, <1>3, <1>4, <1>5, <1>6, <1>7 DEF Queued

LEMMA CollectKeeps == ASSUME IInv, NEW w \in Wrappers, Collect(w) PROVE IInv'
<1>1. /\ w \in Live /\ w \notin held /\ w \notin kept /\ w \notin Range(pending)
      /\ \A v \in Live : w \notin Kids(v)
      /\ dead' = dead \cup {w}
      /\ slots' = [slots EXCEPT ![w] = <<>>] /\ items' = [items EXCEPT ![w] = <<>>]
      /\ UNCHANGED <<wraps, registry, held, pending, from, part, writes, kept, call, before>>
  BY DEF Collect, fill
<1>2. Shape /\ NoStaleEntry /\ KidsLive /\ Kept /\ Closed /\ Whole
  BY DEF IInv
<1>3. Found \subseteq Live /\ Live \subseteq Wrappers /\ Wrappers \subseteq Numbers /\ w \in Numbers /\ Older \subseteq Found
  BY <1>2, FoundFacts DEF Older, Wrappers
<1>4. <<>> \in Seq(Numbers) /\ slots \in [Numbers -> Seq(Numbers)] /\ items \in [Numbers -> Seq(Numbers)]
  BY <1>2 DEF Shape
<1>5. /\ slots' \in [Numbers -> Seq(Numbers)] /\ items' \in [Numbers -> Seq(Numbers)] /\ slots'[w] = <<>> /\ items'[w] = <<>>
      /\ \A v \in Numbers : v # w => slots'[v] = slots[v] /\ items'[v] = items[v]
  <2> DEFINE none == <<>>
  <2>1. slots' = [slots EXCEPT ![w] = none] /\ items' = [items EXCEPT ![w] = none] /\ none \in Seq(Numbers)
    BY <1>1, <1>4
  <2> HIDE DEF none
  <2>2. /\ slots' \in [Numbers -> Seq(Numbers)] /\ items' \in [Numbers -> Seq(Numbers)] /\ slots'[w] = none /\ items'[w] = none
        /\ \A v \in Numbers : v # w => slots'[v] = slots[v] /\ items'[v] = items[v]
    BY <1>3, <1>4, <2>1
  <2> QED
    BY <2>2 DEF none
<1>6. Wrappers' = Wrappers /\ Live' = Live \ {w}
  BY <1>1 DEF Wrappers, Live
<1>7. Found' = Found \ {w} /\ Written' = Written /\ Cached' = Cached /\ Queued' = Queued /\ Unfilled' = Unfilled
  BY <1>1, <1>6 DEF Found, Written, Cached, Queued, Unfilled
<1>8. Older' = Older \ {w}
  BY <1>1, <1>7 DEF Older
<1>9. w \notin Queued /\ Unfilled \subseteq Queued
  <2>1. Queued = Range(pending)
    BY <1>2, RangeFacts DEF Queued, Shape
  <2> QED
    BY <1>1, <2>1 DEF Unfilled, Queued
<1>10. \A v \in Numbers : w \notin Kids(v) /\ Kids(v)' \subseteq Kids(v)
  <2> TAKE v \in Numbers
  <2>1. w \notin Kids(v)
    <3>1. CASE v \in Live
      BY <1>1, <3>1
    <3>2. CASE v \notin Live
      BY <1>2, <3>2, RangeEmpty DEF KidsLive, Kids
    <3> QED
      BY <3>1, <3>2
  <2>2. Kids(v)' \subseteq Kids(v)
    <3>1. CASE v = w
      BY <1>5, <3>1, RangeEmpty, KidsAre DEF KidsBy
    <3>2. CASE v # w
      BY <1>5, <3>2, KidsAre DEF KidsBy
    <3> QED
      BY <3>1, <3>2
  <2> QED
    BY <2>1, <2>2
<1>11. Shape'
  <2>1. dead' \subseteq Wrappers'
    BY <1>1, <1>3, <1>6, <1>2 DEF Shape
  <2> QED
    BY <1>1, <1>2, <1>5, <2>1 DEF Shape
<1>12. NoStaleEntry'
  BY <1>1, <1>2, <1>6 DEF NoStaleEntry
<1>13. KidsLive'
  <2>1. \A v \in Numbers : Kids(v)' \subseteq Live'
    BY <1>2, <1>6, <1>10 DEF KidsLive
  <2>2. \A v \in Numbers : v \notin Live' => slots'[v] = <<>> /\ items'[v] = <<>>
    BY <1>2, <1>5, <1>6 DEF KidsLive
  <2> QED
    BY <2>1, <2>2 DEF KidsLive
<1>14. Kept'
  BY <1>1, <1>2, <1>6, <1>7, <1>8 DEF Kept
<1>15. Closed'
  <2>1. Queued \subseteq Numbers
    BY <1>2, <1>3 DEF Kept
  <2> QED
    BY <1>2, <1>3, <1>7, <1>8, <1>10, <2>1 DEF Closed
<1>16. Whole'
  <2>1. ASSUME NEW v \in (Found' \cup Queued') \ Unfilled' PROVE WholeBy(wraps', slots', items', v)
    <3>1. v # w /\ v \in Numbers /\ v \in (Found \cup Queued) \ Unfilled
      BY <1>2, <1>3, <1>7, <1>9 DEF Kept
    <3>2. WholeBy(wraps, slots, items, v) /\ slots'[v] = slots[v] /\ items'[v] = items[v]
      BY <1>2, <1>5, <3>1 DEF Whole
    <3> QED
      BY <1>1, <1>4, <3>1, <3>2, WholeSame
  <2>2. ASSUME NEW v \in Unfilled' PROVE slots'[v] = <<>> /\ items'[v] = <<>>
    <3>1. v # w /\ v \in Numbers /\ v \in Unfilled
      BY <1>2, <1>3, <1>7, <1>9 DEF Kept
    <3> QED
      BY <1>2, <1>5, <3>1 DEF Whole
  <2> QED
    BY <2>1, <2>2 DEF Whole
<1>17. ASSUME from' # 0 PROVE Queue' /\ Call' /\ Undoes'
  <2>1. from # 0 /\ Queue /\ Call /\ Undoes
    BY <1>1, <1>17 DEF IInv
  <2>2. Queue'
    <3>1. \A i \in 2..Len(pending) : pending[i] \in Found' \ Older'
      <4>1. \A i \in 2..Len(pending) : pending[i] \in Queued
        BY QueuedFacts, <2>1 DEF Queued
      <4> QED
        BY <1>7, <1>8, <1>9, <2>1, <4>1 DEF Queue
    <3>2. Wanted' = Wanted
      BY <1>1 DEF Wanted, Filling
    <3> QED
      BY <1>1, <1>7, <2>1, <3>1, <3>2 DEF Queue
  <2>3. Call'
    <3>1. call.holder # 0 => slots'[call.holder] = slots[call.holder]
      BY <1>1, <1>2, <1>3, <1>5, <2>1 DEF Call, Kept
    <3> QED
      BY <1>1, <1>6, <2>1, <3>1 DEF Call
  <2>4. Undoes'
    <3>1. \A v \in Live' \ Cached' : slots'[v] = before'[2][v]
      BY <1>1, <1>3, <1>5, <1>6, <1>7, <2>1 DEF Undoes
    <3>2. \A k \in Written' : registry'[k] \in kept' /\ before'[1][k] \notin Live'
      BY <1>1, <1>6, <1>7, <2>1 DEF Undoes
    <3>3. Cached' \subseteq Queued' \ Unfilled'
      BY <1>7, <2>1 DEF Undoes
    <3>4. \A k \in Keys \ Written' : registry'[k] = before'[1][k]
      BY <1>1, <1>7, <2>1 DEF Undoes
    <3> QED
      BY <1>1, <1>6, <2>1, <3>1, <3>2, <3>3, <3>4 DEF Undoes
  <2> QED
    BY <2>2, <2>3, <2>4
<1> QED
  BY <1>11, <1>12, <1>13, <1>14, <1>15, <1>16, <1>17 DEF IInv

\* The list being filled is one still to fill, found or the outermost.
LEMMA FillingFacts ==
  ASSUME IInv, from \in 1..Len(pending)
  PROVE  /\ from # 0 /\ Filling \in Queued /\ Filling \in Unfilled /\ Filling \notin Older /\ Filling \in Live /\ Filling \in Numbers
         /\ Filling \notin Cached /\ slots[Filling] = <<>> /\ items[Filling] = <<>>
         /\ wraps[Filling] \in Lists /\ wraps[Filling] \in Nodes /\ Wanted \in Seq(Nodes) /\ Len(Wanted) \in Nat /\ Len(part) \in Nat
         /\ Len(part) <= Len(Wanted) /\ \A i \in 1..Len(part) : wraps[part[i]] = Wanted[i]
         /\ Depth[wraps[pending[1]]] <= Depth[wraps[Filling]]
<1>1. Shape /\ Whole
  BY DEF IInv
<1>2. pending \in Seq(Numbers) /\ Len(pending) \in Nat /\ part \in Seq(Numbers)
  BY <1>1 DEF Shape
<1>3. from # 0 /\ from <= Len(pending) /\ from >= from
  BY <1>2
<1>4. Queue /\ Undoes
  BY <1>3 DEF IInv
<1>5. Filling \in Unfilled /\ Filling \in Queued
  BY <1>3 DEF Filling, Unfilled, Queued
<1>6. Queued \subseteq Live /\ Queued \cap Older = {} /\ Live \subseteq Numbers
  BY <1>1, <1>3, QueuedFacts, FoundFacts
<1>7. wraps[Filling] \in Lists /\ Depth[wraps[pending[1]]] <= Depth[wraps[Filling]]
  BY <1>4 DEF Queue, Filling
<1>8. wraps[Filling] \in Nodes /\ Wanted \in Seq(Nodes)
  BY <1>7, ConstantsType DEF Wanted
<1>9. Len(part) <= Len(Wanted) /\ \A i \in 1..Len(part) : wraps[part[i]] = Wanted[i]
  BY <1>3, <1>4 DEF Queue
<1>10. Filling \notin Cached
  BY <1>4, <1>5 DEF Undoes
<1>11. slots[Filling] = <<>> /\ items[Filling] = <<>>
  BY <1>1, <1>5 DEF Whole
<1> QED
  BY <1>2, <1>3, <1>5, <1>6, <1>7, <1>8, <1>9, <1>10, <1>11

\* The item read next is a node below the list, read by its key.
LEMMA ReadingFacts ==
  ASSUME IInv, Reading
  PROVE  /\ from \in 1..Len(pending) /\ Len(part) + 1 \in 1..Len(Wanted) /\ NextItem \in Nodes /\ ItemKey = KeyOf(NextItem)
         /\ KeyOf(NextItem) # call.key /\ NextItem = Wanted[Len(part) + 1]
         /\ Depth[wraps[pending[1]]] <= Depth[NextItem]
<1>1. from \in 1..Len(pending) /\ Len(part) < Len(Wanted)
  BY DEF Reading
<1>2. /\ from # 0 /\ wraps[Filling] \in Lists /\ wraps[Filling] \in Nodes /\ Wanted \in Seq(Nodes) /\ Len(Wanted) \in Nat /\ Len(part) \in Nat
      /\ Depth[wraps[pending[1]]] <= Depth[wraps[Filling]]
  BY <1>1, FillingFacts
<1>3. Len(part) + 1 \in 1..Len(Wanted)
  BY <1>1, <1>2
<1>4. NextItem \in Range(Wanted) /\ NextItem \in Nodes
  BY <1>2, <1>3, RangeFacts DEF NextItem
<1>5. ItemKey = KeyOf(NextItem)
  BY <1>2, <1>4, ListItemKey DEF ItemKey, Wanted
<1>6. Depth[wraps[Filling]] < Depth[NextItem]
  BY <1>2, <1>4, Deeper DEF Wanted
<1>7. pending[1] \in Wrappers /\ wraps[pending[1]] \in Nodes
  <2>1. Shape
    BY DEF IInv
  <2> QED
    BY <1>2, <2>1, QueuedFacts, FoundFacts
<1>8. NextItem # wraps[pending[1]] /\ Depth[wraps[pending[1]]] <= Depth[NextItem]
  <2>1. Depth[NextItem] \in Nat /\ Depth[wraps[Filling]] \in Nat /\ Depth[wraps[pending[1]]] \in Nat
    BY <1>2, <1>4, <1>7, DepthType
  <2> QED
    BY <1>2, <1>6, <2>1
<1>9. call.key = KeyOf(wraps[pending[1]])
  BY <1>2 DEF IInv, Call
<1> QED
  BY <1>1, <1>3, <1>4, <1>5, <1>7, <1>8, <1>9, KeyApart DEF NextItem

\* An item read in its turn.
LEMMA ItemRead ==
  ASSUME IInv, Reading, NEW v \in Numbers, NEW W, W[v] = NextItem, \A x \in Range(part) : W[x] = wraps[x]
  PROVE  /\ Append(part, v) \in Seq(Numbers) /\ Len(Append(part, v)) <= Len(Wanted)
         /\ \A i \in 1..Len(Append(part, v)) : W[Append(part, v)[i]] = Wanted[i]
<1> DEFINE new == Append(part, v)
           m == Len(part)
<1>1. part \in Seq(Numbers)
  BY DEF IInv, Shape
<1>2. new \in Seq(Numbers) /\ Len(new) = m + 1 /\ new[m + 1] = v /\ (\A i \in 1..m : new[i] = part[i]) /\ m \in Nat
  BY <1>1
<1>3. \A i \in 1..m : part[i] \in Range(part)
  BY <1>1, RangeFacts
<1>4. /\ m + 1 \in 1..Len(Wanted) /\ NextItem = Wanted[m + 1] /\ Len(Wanted) \in Nat
      /\ \A i \in 1..m : wraps[part[i]] = Wanted[i]
  BY ReadingFacts, FillingFacts
<1> HIDE DEF new, m
<1>5. \A i \in 1..Len(new) : i \in 1..m \/ i = m + 1
  BY <1>2
<1>6. \A i \in 1..Len(new) : W[new[i]] = Wanted[i]
  BY <1>2, <1>3, <1>4, <1>5
<1>7. Len(new) <= Len(Wanted)
  BY <1>2, <1>4
<1> QED
  BY <1>2, <1>6, <1>7 DEF new

LEMMA FillKnownKeeps == ASSUME IInv, FillKnown PROVE IInv'
<1> DEFINE v == registry[ItemKey]
           new == Append(part, v)
<1>1. from \in 1..Len(pending) /\ from # 0 /\ Reading /\ NextItem \in Nodes /\ ItemKey = KeyOf(NextItem)
  BY ReadingFacts, FillingFacts DEF FillKnown
<1>2. Shape /\ NoStaleEntry /\ KidsLive /\ Kept /\ Closed /\ Whole /\ Queue /\ Call /\ Undoes
  BY <1>1 DEF IInv
<1>3. v \in Live /\ Registered(ItemKey) = v
  BY DEF FillKnown, Registered
<1>4. /\ part' = new /\ kept' = kept \cup {v}
      /\ UNCHANGED <<wraps, registry, slots, items, held, dead, pending, from, writes, call, before>>
  BY <1>3 DEF FillKnown, caches, heap
<1>5. v \in Found /\ wraps[v] = NextItem /\ v \in Numbers
  BY <1>1, <1>2, <1>3, AtKey, FoundFacts
<1>6. new \in Seq(Numbers) /\ Range(new) = Range(part) \cup {v}
  BY <1>2, <1>5, RangeAppend DEF Shape
<1>7. Len(new) <= Len(Wanted) /\ \A i \in 1..Len(new) : wraps[new[i]] = Wanted[i]
  BY <1>1, <1>5, ItemRead
<1> HIDE DEF new, v
<1>8. /\ Live' = Live /\ Wrappers' = Wrappers /\ Found' = Found /\ Written' = Written /\ Cached' = Cached /\ Older' = Older
      /\ Queued' = Queued /\ Unfilled' = Unfilled /\ Wanted' = Wanted /\ \A w : Kids(w)' = Kids(w)
  BY <1>4 DEF Live, Wrappers, Found, Written, Cached, Older, Queued, Unfilled, Wanted, Filling, Kids
<1>9. Shape'
  BY <1>1, <1>2, <1>4, <1>6, <1>8 DEF Shape
<1>10. NoStaleEntry' /\ KidsLive' /\ Closed' /\ Whole'
  BY <1>2, <1>4, <1>8 DEF NoStaleEntry, KidsLive, Closed, Whole
<1>11. Kept'
  BY <1>2, <1>3, <1>4, <1>5, <1>6, <1>8 DEF Kept
<1>12. Queue'
  <2>1. from # Len(pending) + 1
    BY <1>1, <1>2 DEF Shape
  <2> QED
    BY <1>2, <1>4, <1>7, <1>8, <2>1 DEF Queue
<1>13. Call'
  BY <1>2, <1>4, <1>8 DEF Call
<1>14. Undoes'
  BY <1>2, <1>4, <1>8 DEF Undoes
<1> QED
  BY <1>9, <1>10, <1>11, <1>12, <1>13, <1>14 DEF IInv

\* A write noted is one to undo.
LEMMA WriteNoted ==
  ASSUME writes \in Seq(Writes), NEW e \in Writes, writes' = Append(writes, e)
  PROVE  /\ writes' \in Seq(Writes) /\ \A i \in 1..Len(writes') : writes'[i] = e \/ (i \in 1..Len(writes) /\ writes'[i] = writes[i])
         /\ e.cache = "registry" => Written' = Written \cup {e.key} /\ Cached' = Cached
         /\ e.cache = "slot" => Cached' = Cached \cup {e.key} /\ Written' = Written
<1> DEFINE ws == Append(writes, e)
           m == Len(writes)
<1>1. ws \in Seq(Writes) /\ Len(ws) = m + 1 /\ ws[m + 1] = e /\ (\A i \in 1..m : ws[i] = writes[i]) /\ m \in Nat
  OBVIOUS
<1>2. writes' = ws
  OBVIOUS
<1> HIDE DEF ws
<1>3. \A i \in 1..Len(ws) : i \in 1..m \/ i = m + 1
  BY <1>1
<1>4. m + 1 \in 1..Len(ws) /\ 1..m \subseteq 1..Len(ws)
  BY <1>1
<1>5. Written' = {ws[i].key : i \in {j \in 1..Len(ws) : ws[j].cache = "registry"}}
      /\ Cached' = {ws[i].key : i \in {j \in 1..Len(ws) : ws[j].cache = "slot"}}
  BY <1>2 DEF Written, Cached
<1>6. CASE e.cache = "registry"
  <2>1. Written' \subseteq Written \cup {e.key} /\ Cached' \subseteq Cached
    BY <1>1, <1>3, <1>5, <1>6 DEF Written, Cached
  <2>2. Written \cup {e.key} \subseteq Written' /\ Cached \subseteq Cached'
    BY <1>1, <1>4, <1>5, <1>6 DEF Written, Cached
  <2> QED
    BY <1>1, <1>2, <1>3, <1>6, <2>1, <2>2
<1>7. CASE e.cache = "slot"
  <2>1. Cached' \subseteq Cached \cup {e.key} /\ Written' \subseteq Written
    BY <1>1, <1>3, <1>5, <1>7 DEF Written, Cached
  <2>2. Cached \cup {e.key} \subseteq Cached' /\ Written \subseteq Written'
    BY <1>1, <1>4, <1>5, <1>7 DEF Written, Cached
  <2> QED
    BY <1>1, <1>2, <1>3, <1>7, <2>1, <2>2
<1> QED
  BY <1>1, <1>2, <1>3, <1>6, <1>7 DEF Writes, RegistryWrites, SlotWrites

LEMMA FillNextKeeps == ASSUME IInv, FillNext PROVE IInv'
<1>0. PICK f \in Numbers : f = Filling
  BY FillingFacts DEF FillNext
<1> DEFINE e == [cache |-> "slot", key |-> f, previous |-> slots[f]]
<1>1. /\ from \in 1..Len(pending) /\ Len(part) = Len(Wanted) /\ writes' = Append(writes, e)
      /\ slots' = [slots EXCEPT ![f] = part] /\ items' = [items EXCEPT ![f] = part]
      /\ from' = from + 1 /\ part' = <<>>
      /\ UNCHANGED <<wraps, registry, held, dead, pending, kept, call, before>>
  BY <1>0 DEF FillNext, heap
<1>2. /\ from # 0 /\ f \in Queued /\ f \in Unfilled /\ f \notin Older /\ f \in Live /\ f \in Numbers
      /\ f \notin Cached /\ slots[f] = <<>> /\ items[f] = <<>>
      /\ wraps[f] \in Lists /\ Wanted = Children[wraps[f]] /\ Wanted \in Seq(Nodes) /\ Len(Wanted) \in Nat
      /\ \A i \in 1..Len(part) : wraps[part[i]] = Wanted[i]
  BY <1>0, <1>1, FillingFacts DEF Wanted
<1>3. Shape /\ NoStaleEntry /\ KidsLive /\ Kept /\ Closed /\ Whole /\ Queue /\ Call /\ Undoes
  BY <1>2 DEF IInv
<1>4. e \in Writes /\ e.cache = "slot" /\ e.key = f /\ e.previous = slots[f]
  BY <1>2 DEF Writes, SlotWrites
<1>5. /\ writes' \in Seq(Writes) /\ \A i \in 1..Len(writes') : writes'[i] = e \/ (i \in 1..Len(writes) /\ writes'[i] = writes[i])
      /\ Cached' = Cached \cup {f} /\ Written' = Written
  <2> HIDE DEF e
  <2> QED
    BY <1>1, <1>3, <1>4, WriteNoted DEF Shape
<1>6. f = pending[from] /\ from' \in Nat /\ pending \in Seq(Numbers) /\ Len(pending) \in Nat /\ part \in Seq(Numbers)
  BY <1>0, <1>1, <1>3 DEF Filling, Shape
<1> HIDE DEF e
<1>7. /\ slots' \in [Numbers -> Seq(Numbers)] /\ items' \in [Numbers -> Seq(Numbers)] /\ slots'[f] = part /\ items'[f] = part
      /\ \A v \in Numbers : v # f => slots'[v] = slots[v] /\ items'[v] = items[v]
  BY <1>1, <1>2, <1>3, <1>6 DEF Shape
<1>8. /\ Live' = Live /\ Wrappers' = Wrappers /\ Found' = Found /\ Older' = Older /\ Queued' = Queued
  BY <1>1, <1>5 DEF Live, Wrappers, Found, Older, Queued
<1>9. Unfilled' = Unfilled \ {f}
  <2>1. \A i \in 1..Len(pending) : (i >= from + 1 <=> i >= from /\ i # from) /\ (pending[i] = f => i = from)
    BY <1>1, <1>3, <1>6 DEF Queue
  <2>2. Unfilled' = {pending[i] : i \in {j \in 1..Len(pending) : j >= from + 1}}
    BY <1>1 DEF Unfilled
  <2>3. Unfilled' \subseteq Unfilled \ {f}
    BY <2>1, <2>2 DEF Unfilled
  <2>4. Unfilled \ {f} \subseteq Unfilled'
    BY <1>6, <2>1, <2>2 DEF Unfilled
  <2> QED
    BY <2>3, <2>4
<1>10. Range(part) \subseteq kept \cap Found /\ Range(part) \subseteq Live
  BY <1>3 DEF Kept
<1>11. Kids(f)' = Range(part) /\ \A v \in Numbers : v # f => Kids(v)' = Kids(v)
  BY <1>7, KidsAre DEF KidsBy
<1>12. Shape'
  <2>1. from' \in 0..Len(pending') + 1 /\ from' # 0
    BY <1>1, <1>6
  <2>2. part' \in Seq(Numbers)
    BY <1>1
  <2> QED
    BY <1>1, <1>3, <1>5, <1>7, <1>8, <2>1, <2>2 DEF Shape
<1>13. NoStaleEntry'
  BY <1>1, <1>3, <1>8 DEF NoStaleEntry
<1>14. KidsLive'
  BY <1>2, <1>3, <1>7, <1>8, <1>10, <1>11 DEF KidsLive
<1>15. Kept'
  BY <1>1, <1>3, <1>8, RangeEmpty DEF Kept
<1>16. Found \subseteq Numbers /\ Queued \subseteq Numbers /\ Older \subseteq Found
  BY <1>2, <1>3, FoundFacts, QueuedFacts DEF Older
<1>17. Closed'
  BY <1>2, <1>3, <1>8, <1>10, <1>11, <1>16 DEF Closed
<1>18. Whole'
  <2>1. ASSUME NEW v \in (Found' \cup Queued') \ Unfilled' PROVE WholeBy(wraps', slots', items', v)
    <3>1. v \in Numbers /\ v \in Found \cup Queued
      BY <1>8, <1>16
    <3>2. CASE v # f
      <4>1. WholeBy(wraps, slots, items, v) /\ slots'[v] = slots[v] /\ items'[v] = items[v]
        BY <1>3, <1>7, <1>9, <3>1, <3>2, <2>1 DEF Whole
      <4>2. slots \in [Numbers -> Seq(Numbers)] /\ items \in [Numbers -> Seq(Numbers)] /\ wraps' = wraps
        BY <1>1, <1>3 DEF Shape
      <4> QED
        BY <3>1, <4>1, <4>2, WholeSame
    <3>3. CASE v = f
      <4>1. [i \in 1..Len(part) |-> wraps[part[i]]] = Wanted
        BY SMTT(30), <1>1, <1>2
      <4>2. ChildrenBy(wraps', f, part)
        BY <1>1, <1>2, <4>1 DEF ChildrenBy
      <4> QED
        BY <1>7, <3>3, <4>2 DEF WholeBy
    <3> QED
      BY <3>2, <3>3
  <2>2. ASSUME NEW v \in Unfilled' PROVE slots'[v] = <<>> /\ items'[v] = <<>>
    <3>1. v # f /\ v \in Unfilled /\ v \in Numbers
      BY <1>2, <1>9, <1>16, QueuedFacts
    <3> QED
      BY <1>3, <1>7, <3>1 DEF Whole
  <2> QED
    BY <2>1, <2>2 DEF Whole
<1>19. Queue'
  <2>1. from' <= Len(pending) => Len(part') <= Len(Wanted') /\ \A i \in 1..Len(part') : wraps'[part'[i]] = Wanted'[i]
    <3> SUFFICES ASSUME from' <= Len(pending) PROVE Len(part') <= Len(Wanted') /\ Len(part') = 0
      BY <1>1
    <3>1. from' \in 1..Len(pending)
      BY <1>1, <1>6
    <3>2. Wanted' = Children[wraps[pending[from']]] /\ wraps[pending[from']] \in Lists
      BY <1>1, <1>3, <3>1 DEF Wanted, Filling, Queue
    <3>3. Len(Wanted') \in Nat
      BY <3>2, ConstantsType
    <3> QED
      BY <1>1, <3>3
  <2>2. pending' = pending /\ Found' = Found /\ Older' = Older /\ wraps' = wraps /\ part' = <<>>
    BY <1>1, <1>8
  <2> HIDE DEF IInv
  <2> QED
    BY <1>3, <2>1, <2>2 DEF Queue
<1>20. Call'
  <2>1. call.holder # 0 => call.holder \in Numbers /\ call.holder # f
    BY <1>2, <1>3, <1>16 DEF Call, Kept
  <2> QED
    BY <1>1, <1>3, <1>7, <1>8, <2>1 DEF Call
<1>21. Undoes'
  <2>1. \A i \in 1..Len(writes') : writes'[i].previous = before'[IF writes'[i].cache = "registry" THEN 1 ELSE 2][writes'[i].key]
    <3>1. slots[f] = before[2][f]
      BY <1>2, <1>3 DEF Undoes
    <3>2. e.previous = before[IF e.cache = "registry" THEN 1 ELSE 2][e.key]
      BY <1>4, <3>1
    <3> QED
      BY <1>1, <1>3, <1>5, <3>2 DEF Undoes
  <2>2. Cached' \subseteq Queued' \ Unfilled'
    BY <1>2, <1>3, <1>5, <1>8, <1>9 DEF Undoes
  <2>3. \A w \in Live' \ Cached' : slots'[w] = before'[2][w]
    <3>1. Live \subseteq Numbers
      BY <1>3, FoundFacts
    <3> QED
      BY <1>1, <1>3, <1>5, <1>7, <1>8, <3>1 DEF Undoes
  <2> QED
    BY <1>1, <1>3, <1>5, <1>8, <2>1, <2>2, <2>3 DEF Undoes
<1> QED
  BY <1>12, <1>13, <1>14, <1>15, <1>17, <1>18, <1>19, <1>20, <1>21 DEF IInv

\* The queue with a list more, or as it was.
LEMMA Queues ==
  ASSUME Shape, from \in 1..Len(pending), NEW v \in Numbers, NEW b \in BOOLEAN,
         pending' = IF b THEN Append(pending, v) ELSE pending, from' = from
  PROVE  /\ pending' \in Seq(Numbers) /\ Len(pending') >= Len(pending) /\ Len(pending') \in Nat /\ Len(pending) \in Nat
         /\ \A i \in 1..Len(pending) : i \in 1..Len(pending') /\ pending'[i] = pending[i]
         /\ \A i \in 1..Len(pending') : i \in 1..Len(pending) \/ (b /\ i = Len(pending) + 1 /\ pending'[i] = v)
         /\ Queued' = Queued \cup (IF b THEN {v} ELSE {}) /\ Unfilled' = Unfilled \cup (IF b THEN {v} ELSE {})
<1> DEFINE new == Append(pending, v)
           m == Len(pending)
<1>0. pending \in Seq(Numbers) /\ m \in Nat
  BY DEF Shape
<1>1. CASE b
  <2>1. new \in Seq(Numbers) /\ Len(new) = m + 1 /\ new[m + 1] = v /\ \A i \in 1..m : new[i] = pending[i]
    BY <1>0
  <2>2. pending' = new
    BY <1>1
  <2> HIDE DEF new, m
  <2>3. /\ \A i \in 1..m : i \in 1..Len(new) /\ new[i] = pending[i]
        /\ \A i \in 1..Len(new) : i \in 1..m \/ (i = m + 1 /\ new[i] = v)
        /\ m + 1 \in 1..Len(new) /\ m + 1 >= from
    BY <1>0, <2>1 DEF m
  <2>4. Queued' = {new[i] : i \in 1..Len(new)} /\ Unfilled' = {new[i] : i \in {j \in 1..Len(new) : j >= from}}
    BY <2>2 DEF Queued, Unfilled
  <2>5. Queued' = Queued \cup {v}
    <3>1. Queued' \subseteq Queued \cup {v}
      BY <2>3, <2>4 DEF Queued, m
    <3>2. Queued \cup {v} \subseteq Queued'
      BY <2>1, <2>3, <2>4 DEF Queued, m
    <3> QED
      BY <3>1, <3>2
  <2>6. Unfilled' = Unfilled \cup {v}
    <3>1. Unfilled' \subseteq Unfilled \cup {v}
      BY <2>3, <2>4 DEF Unfilled, m
    <3>2. Unfilled \cup {v} \subseteq Unfilled'
      BY <2>1, <2>3, <2>4 DEF Unfilled, m
    <3> QED
      BY <3>1, <3>2
  <2>7. Len(new) >= m /\ Len(new) \in Nat
    BY <1>0, <2>1
  <2> QED
    BY <1>0, <1>1, <2>1, <2>2, <2>3, <2>5, <2>6, <2>7 DEF m
<1>2. CASE ~b
  <2>1. pending' = pending
    BY <1>2
  <2>2. Queued' = Queued /\ Unfilled' = Unfilled
    BY <2>1 DEF Queued, Unfilled
  <2> QED
    BY <1>0, <1>2, <2>1, <2>2
<1> QED
  BY <1>1, <1>2

LEMMA FillNewKeeps == ASSUME IInv, FillNew PROVE IInv'
<1>1. /\ from \in 1..Len(pending) /\ from # 0 /\ Reading /\ Wrap(NextItem) /\ NextItem \in Nodes /\ ItemKey = KeyOf(NextItem)
      /\ KeyOf(NextItem) # call.key /\ Depth[wraps[pending[1]]] <= Depth[NextItem]
      /\ Filling \in Live /\ Wanted = Children[wraps[Filling]]
  BY ReadingFacts, FillingFacts DEF FillNew, Wanted
<1>2. Shape /\ NoStaleEntry /\ KidsLive /\ Kept /\ Closed /\ Whole /\ Queue /\ Call /\ Undoes
  BY <1>1 DEF IInv
<1>3. PICK n \in Nodes : n = NextItem
  BY <1>1
<1>4. PICK k \in Keys : k = KeyOf(n)
  BY KeyType
<1>5. PICK v \in Numbers : v = New
  BY <1>1, <1>2, NewFacts DEF Wrap
<1> DEFINE e == [cache |-> "registry", key |-> k, previous |-> registry[k]]
           b == n \in Lists
<1>6. /\ registry[k] \notin Live /\ pending' = (IF b THEN Append(pending, v) ELSE pending) /\ writes' = Append(writes, e)
      /\ registry' = [registry EXCEPT ![KeyOf(n)] = v] /\ registry' = [registry EXCEPT ![k] = v]
      /\ part' = Append(part, v) /\ kept' = kept \cup {v}
      /\ UNCHANGED <<slots, items, held, dead, from, call, before>>
  <2>1. Registered(k) = 0
    BY <1>1, <1>3, <1>4 DEF FillNew
  <2>2. registry[k] \notin Live
    BY <1>2, <2>1, FoundFacts DEF Registered
  <2> QED
    BY <1>1, <1>3, <1>4, <1>5, <2>2 DEF FillNew, heap
<1>7. /\ v \notin Wrappers /\ v # 0 /\ Wrappers' = Wrappers \cup {v} /\ Live' = Live \cup {v}
      /\ wraps' \in [Numbers -> Nodes \cup {Nil}] /\ wraps'[v] = n /\ \A w \in Wrappers : wraps'[w] = wraps[w]
  BY <1>1, <1>2, <1>3, <1>5, <1>6, NewWrapper
<1>8. Found' = Found \cup {v} /\ NoStaleEntry' /\ registry' \in [Keys -> 0..MaxWrappers]
  BY <1>2, <1>4, <1>6, <1>7, Registers
<1>9. registry'[k] = v /\ \A j \in Keys : j # k => registry'[j] = registry[j]
  BY <1>2, <1>6 DEF Shape
<1>10. e \in Writes /\ e.cache = "registry" /\ e.key = k /\ e.previous = registry[k]
  BY <1>2 DEF Writes, RegistryWrites, Shape
<1>11. /\ writes' \in Seq(Writes) /\ \A i \in 1..Len(writes') : writes'[i] = e \/ (i \in 1..Len(writes) /\ writes'[i] = writes[i])
       /\ Written' = Written \cup {k} /\ Cached' = Cached
  <2>1. writes \in Seq(Writes) /\ writes' = Append(writes, e)
    BY <1>2, <1>6 DEF Shape
  <2> HIDE DEF e
  <2> QED
    BY <1>10, <2>1, WriteNoted
<1> HIDE DEF e
<1>12. /\ pending' \in Seq(Numbers) /\ Len(pending') >= Len(pending) /\ Len(pending') \in Nat /\ Len(pending) \in Nat
       /\ \A i \in 1..Len(pending) : i \in 1..Len(pending') /\ pending'[i] = pending[i]
       /\ \A i \in 1..Len(pending') : i \in 1..Len(pending) \/ (b /\ i = Len(pending) + 1 /\ pending'[i] = v)
       /\ Queued' = Queued \cup (IF b THEN {v} ELSE {}) /\ Unfilled' = Unfilled \cup (IF b THEN {v} ELSE {})
  <2>1. b \in BOOLEAN /\ pending' = (IF b THEN Append(pending, v) ELSE pending) /\ from' = from
    BY <1>6
  <2> HIDE DEF b
  <2> QED
    BY <1>1, <1>2, <2>1, Queues
<1>13. /\ Found \subseteq Live /\ Live \subseteq Wrappers /\ Wrappers \subseteq Numbers /\ Queued \subseteq Live /\ Older \subseteq Found
       /\ Unfilled \subseteq Queued /\ pending[1] \in Queued /\ held \subseteq Older
       /\ \A i \in 1..Len(pending) : pending[i] \in Queued
  BY <1>1, <1>2, FoundFacts, QueuedFacts DEF Older, Kept, Queued
<1>14. k \notin Written /\ before[1][k] = registry[k]
  <2>1. k \notin Written
    BY <1>2, <1>6 DEF Undoes, Kept
  <2> QED
    BY <1>2, <2>1 DEF Undoes
<1>15. Older' = Older
  <2>1. \A w \in Found : w # v /\ wraps'[w] = wraps[w] /\ registry[KeyOf(wraps[w])] = w /\ KeyOf(wraps[w]) # k
    BY <1>2, <1>6, <1>7, <1>13, FoundFacts
  <2>2. v \notin Older'
    BY <1>4, <1>7, <1>11 DEF Older
  <2>3. \A w \in Found : w \in Older' <=> w \in Older
    BY <1>8, <1>11, <2>1 DEF Older
  <2>4. Older' \subseteq Found \cup {v}
    BY <1>8 DEF Older
  <2> QED
    BY <1>13, <2>2, <2>3, <2>4
<1>16. slots[v] = <<>> /\ items[v] = <<>> /\ Kids(v) = {} /\ \A w : Kids(w)' = Kids(w)
  <2>1. slots[v] = <<>> /\ items[v] = <<>>
    BY <1>2, <1>7, <1>13 DEF KidsLive
  <2> QED
    BY <1>6, <2>1, RangeEmpty DEF Kids
<1>17. \A x \in Range(part) : wraps'[x] = wraps[x]
  BY <1>2, <1>7, <1>13 DEF Kept
<1>18. Append(part, v) \in Seq(Numbers) /\ Len(Append(part, v)) <= Len(Wanted)
       /\ \A i \in 1..Len(Append(part, v)) : wraps'[Append(part, v)[i]] = Wanted[i]
  BY <1>1, <1>3, <1>7, <1>17, ItemRead
<1>19. Range(part') = Range(part) \cup {v}
  BY <1>2, <1>6, RangeAppend DEF Shape
<1>20. Wanted' = Wanted
  <2>1. Filling' = Filling
    BY <1>1, <1>6, <1>12 DEF Filling
  <2> QED
    BY <1>1, <1>7, <1>13, <2>1 DEF Wanted
<1>21. Shape'
  <2>1. from' \in 0..Len(pending') + 1 /\ from' # 0
    BY <1>1, <1>6, <1>12
  <2>2. dead' \subseteq Wrappers'
    BY <1>2, <1>6, <1>7 DEF Shape
  <2>3. part' \in Seq(Numbers)
    BY <1>6, <1>18
  <2> QED
    BY <1>2, <1>6, <1>7, <1>8, <1>11, <1>12, <2>1, <2>2, <2>3 DEF Shape
<1>22. KidsLive'
  BY <1>2, <1>6, <1>7, <1>16 DEF KidsLive
<1>23. Kept'
  BY <1>2, <1>6, <1>7, <1>8, <1>12, <1>15, <1>19 DEF Kept
<1>24. Closed'
  BY <1>2, <1>8, <1>12, <1>15, <1>16 DEF Closed
<1>25. Whole'
  <2>1. ASSUME NEW w \in (Found' \cup Queued') \ Unfilled' PROVE WholeBy(wraps', slots', items', w)
    <3>1. CASE w # v
      <4>1. w \in (Found \cup Queued) \ Unfilled /\ w \in Live
        BY <1>8, <1>12, <1>13, <2>1, <3>1
      <4>2. WholeBy(wraps, slots, items, w) /\ KidsBy(slots, items, w) \subseteq Live /\ w \in Numbers
        BY <1>2, <1>13, <4>1, KidsAre DEF Whole, KidsLive
      <4>3. /\ wraps'[w] = wraps[w] /\ slots'[w] = slots[w] /\ items'[w] = items[w]
            /\ \A x \in KidsBy(slots, items, w) : wraps'[x] = wraps[x]
        BY <1>6, <1>7, <1>13, <4>1, <4>2
      <4>4. slots \in [Numbers -> Seq(Numbers)] /\ items \in [Numbers -> Seq(Numbers)]
        BY <1>2 DEF Shape
      <4> QED
        BY <4>2, <4>3, <4>4, WholeSame
    <3>2. CASE w = v
      <4>1. n \notin Lists
        BY <1>12, <2>1, <3>2
      <4> QED
        BY <1>6, <1>7, <1>16, <3>2, <4>1, WholeEmpty
    <3> QED
      BY <3>1, <3>2
  <2>2. ASSUME NEW w \in Unfilled' PROVE slots'[w] = <<>> /\ items'[w] = <<>>
    BY <1>2, <1>6, <1>12, <1>16, <2>2 DEF Whole
  <2> QED
    BY <2>1, <2>2 DEF Whole
<1>26. Queue'
  <2>1. Len(pending) >= 1 /\ 1 \in 1..Len(pending) /\ pending'[1] = pending[1]
    BY <1>1, <1>12, QueuedFacts
  <2>2. pending' # <<>> /\ pending'[1] \notin Found'
    <3>1. pending' # <<>>
      BY <1>12, <2>1
    <3> QED
      BY <1>2, <1>7, <1>8, <1>13, <2>1, <3>1 DEF Queue
  <2>3. \A i, j \in 1..Len(pending') : pending'[i] = pending'[j] => i = j
    <3>1. \A i \in 1..Len(pending) : pending'[i] # v
      BY <1>7, <1>12, <1>13
    <3> QED
      BY <1>2, <1>12, <3>1 DEF Queue
  <2>4. \A i \in 2..Len(pending') : pending'[i] \in Found' \ Older'
    <3>1. \A i \in 2..Len(pending') : i \in 1..Len(pending') /\ (i \in 1..Len(pending) => i \in 2..Len(pending))
      BY <1>12
    <3>2. v \in Found' \ Older'
      BY <1>7, <1>8, <1>13, <1>15
    <3> QED
      BY <1>2, <1>8, <1>12, <1>15, <3>1, <3>2 DEF Queue
  <2>5. \A i \in 1..Len(pending') : wraps'[pending'[i]] \in Lists /\ Depth[wraps'[pending'[1]]] <= Depth[wraps'[pending'[i]]]
    <3>1. \A i \in 1..Len(pending) : wraps'[pending'[i]] = wraps[pending[i]]
      BY <1>7, <1>12, <1>13
    <3>2. wraps'[pending'[1]] = wraps[pending[1]]
      BY <2>1, <3>1
    <3> QED
      BY <1>1, <1>2, <1>3, <1>7, <1>12, <3>1, <3>2 DEF Queue
  <2>6. from' # Len(pending') + 1 /\ Len(part') <= Len(Wanted') /\ \A i \in 1..Len(part') : wraps'[part'[i]] = Wanted'[i]
    <3>1. from' # Len(pending') + 1
      BY <1>1, <1>6, <1>12
    <3> QED
      BY <1>6, <1>18, <1>20, <3>1
  <2> QED
    BY <2>2, <2>3, <2>4, <2>5, <2>6 DEF Queue
<1>27. \A j \in Keys : registry[j] # v /\ before[1][j] # v
  BY <1>2, <1>7 DEF NoStaleEntry, Undoes
<1>28. Call'
  <2>1. pending'[1] = pending[1] /\ wraps'[pending[1]] = wraps[pending[1]] /\ wraps[pending[1]] \in Nodes
    BY <1>1, <1>2, <1>7, <1>12, <1>13, QueuedFacts, FoundFacts
  <2>2. call.key \in Keys /\ call.key # k
    BY <1>1, <1>2, <1>3, <1>4, <2>1, KeyType DEF Call
  <2>3. registry'[call.key] \notin Live'
    BY <1>2, <1>7, <1>9, <1>27, <2>2 DEF Call
  <2>4. call.holder # 0 => wraps'[call.holder] = wraps[call.holder]
    BY <1>2, <1>7, <1>13 DEF Call
  <2> QED
    BY <1>2, <1>6, <2>1, <2>3, <2>4 DEF Call
<1>29. Undoes'
  <2>1. \A i \in 1..Len(writes') : writes'[i].previous = before'[IF writes'[i].cache = "registry" THEN 1 ELSE 2][writes'[i].key]
    <3>1. e.previous = before[IF e.cache = "registry" THEN 1 ELSE 2][e.key]
      BY <1>10, <1>14
    <3> QED
      BY <1>2, <1>6, <1>11, <3>1 DEF Undoes
  <2>2. \A j \in Written' : registry'[j] \in kept' /\ before'[1][j] \notin Live'
    <3>1. Written \subseteq Keys
      BY SMTT(30), <1>2 DEF Written, Shape, Writes, RegistryWrites, SlotWrites
    <3>2. ASSUME NEW j \in Written PROVE registry'[j] \in kept' /\ before'[1][j] \notin Live'
      BY <1>2, <1>6, <1>7, <1>9, <1>14, <1>27, <3>1 DEF Undoes
    <3>3. registry'[k] \in kept' /\ before'[1][k] \notin Live'
      BY <1>6, <1>7, <1>9, <1>14, <1>27
    <3> QED
      BY <1>11, <3>2, <3>3
  <2>3. \A j \in Keys : before'[1][j] # 0 => before'[1][j] \in Wrappers' /\ j = KeyOf(wraps'[before'[1][j]])
    BY <1>2, <1>6, <1>7 DEF Undoes
  <2>4. \A j \in Keys \ Written' : registry'[j] = before'[1][j]
    BY <1>2, <1>6, <1>9, <1>11 DEF Undoes
  <2>5. Cached' \subseteq Queued' \ Unfilled'
    BY <1>2, <1>7, <1>11, <1>12, <1>13 DEF Undoes
  <2>6. \A w \in Live' \ Cached' : slots'[w] = before'[2][w]
    <3>1. slots[v] = before[2][v]
      BY <1>2, <1>7, <1>16 DEF Undoes
    <3> QED
      BY <1>2, <1>6, <1>7, <1>11, <3>1 DEF Undoes
  <2>7. \A w \in Numbers \ Wrappers' : before'[2][w] = <<>>
    BY <1>2, <1>6, <1>7 DEF Undoes
  <2>8. before'[1] \in [Keys -> 0..MaxWrappers] /\ before'[2] \in [Numbers -> Seq(Numbers)]
    BY <1>2, <1>6 DEF Undoes
  <2> HIDE DEF IInv
  <2> QED
    BY <2>1, <2>2, <2>3, <2>4, <2>5, <2>6, <2>7, <2>8 DEF Undoes
<1> QED
  BY <1>8, <1>21, <1>22, <1>23, <1>24, <1>25, <1>26, <1>28, <1>29 DEF IInv

\* When no list is left the outermost one's wrapper is found, whole like the others.
LEMMA FillDoneKeeps == ASSUME IInv, FillDone PROVE IInv'
<1>1. from # 0 /\ from = Len(pending) + 1
  BY DEF FillDone, UserCode
<1>2. Shape /\ NoStaleEntry /\ KidsLive /\ Kept /\ Closed /\ Whole /\ Queue /\ Call /\ Undoes
  BY <1>1 DEF IInv
<1>3. /\ pending \in Seq(Numbers) /\ Len(pending) \in Nat /\ Unfilled \subseteq Queued /\ Queued \subseteq Live
      /\ pending[1] \in Queued /\ Found \subseteq Live /\ Live \subseteq Wrappers /\ Wrappers \subseteq Numbers
  BY <1>1, <1>2, QueuedFacts, FoundFacts
<1>4. PICK v \in Numbers : v = pending[1]
  BY <1>3
<1>5. PICK n \in Nodes : n = wraps[v]
  BY <1>2, <1>3, <1>4, FoundFacts
<1> DEFINE h == call.holder
<1>6. /\ registry' = [registry EXCEPT ![KeyOf(n)] = v] /\ registry[KeyOf(n)] \notin Live
      /\ held' = held \cup {v} /\ slots' = IF h = 0 THEN slots ELSE [slots EXCEPT ![h] = <<v>>]
      /\ UNCHANGED <<wraps, items, dead>> /\ EndFill
  BY <1>2, <1>4, <1>5 DEF FillDone, Hand, Call
<1>7. h # 0 => h \in held /\ slots[h] = <<>> /\ n \in Range(Children[wraps[h]])
  BY <1>2, <1>4, <1>5 DEF Call
<1> HIDE DEF h
<1>8. Wrappers' = Wrappers /\ Live' = Live /\ v \in Live
  BY <1>3, <1>4, <1>6 DEF Wrappers, Live
<1>9. Found' = Found \cup {v} /\ NoStaleEntry' /\ registry' \in [Keys -> 0..MaxWrappers]
  <2>1. Wrappers' = Wrappers \cup {v} /\ Live' = Live \cup {v} /\ wraps'[v] = n /\ \A w \in Wrappers : wraps'[w] = wraps[w]
    BY <1>3, <1>5, <1>6, <1>8
  <2> QED
    BY <1>2, <1>6, <2>1, Registers
<1>10. Unfilled = {}
  <2>1. ~ \E j \in 1..Len(pending) : j >= from
    BY <1>1, <1>3
  <2> QED
    BY <2>1 DEF Unfilled
<1>11. Calm' /\ slots' \in [Numbers -> Seq(Numbers)]
  <2>1. held \subseteq Found /\ Live' = Live \cup {v}
    BY <1>2, <1>8 DEF Kept, Older
  <2>2. wraps'[v] = n /\ \A w \in Live : wraps'[w] = wraps[w]
    BY <1>5, <1>6
  <2>3. \A w \in Found \cup {v} : Kids(w) \subseteq Found
    BY <1>2, <1>3, <1>4 DEF Closed
  <2>4. (\A w \in Found : WholeBy(wraps, slots, items, w)) /\ WholeBy(wraps, slots, items, v)
    BY <1>2, <1>3, <1>4, <1>10 DEF Whole
  <2>5. WholeBy(wraps', slots, items, v)
    BY <1>6, <2>4
  <2> QED
    BY <1>2, <1>6, <1>7, <1>9, <2>1, <2>2, <2>3, <2>4, <2>5, HandCalm
<1>12. Shape' /\ UserCode'
  <2>1. pending' = <<>> /\ from' = 0 /\ part' = <<>> /\ writes' = <<>> /\ kept' = {}
    BY <1>6 DEF EndFill
  <2>2. Len(pending') = 0
    BY <2>1
  <2> QED
    BY SMTT(30), <1>2, <1>6, <1>8, <1>9, <1>11, <2>1, <2>2 DEF Shape, UserCode
<1> QED
  BY <1>11, <1>12, CalmHoldsAfter

-----------------------------------------------------------------------------
(* The undo.                                                               *)

Registries == [Keys -> 0..MaxWrappers]
Slots == [Numbers -> Seq(Numbers)]

\* One write undone puts back what there was before at its key alone.
LEMMA TakenBackIs ==
  ASSUME NEW cs \in Registries \X Slots, NEW e \in Writes, NEW B,
         e.previous = B[IF e.cache = "registry" THEN 1 ELSE 2][e.key]
  PROVE  /\ TakenBack(cs, e) \in Registries \X Slots
         /\ \A k \in Keys : TakenBack(cs, e)[1][k] = IF e.cache = "registry" /\ e.key = k THEN B[1][k] ELSE cs[1][k]
         /\ \A w \in Numbers : TakenBack(cs, e)[2][w] = IF e.cache = "slot" /\ e.key = w THEN B[2][w] ELSE cs[2][w]
<1>0. cs[1] \in Registries /\ cs[2] \in Slots
  OBVIOUS
<1>1. CASE e.cache = "registry"
  <2> DEFINE x == [cs[1] EXCEPT ![e.key] = e.previous]
  <2>1. e.key \in Keys /\ e.previous \in 0..MaxWrappers /\ e.previous = B[1][e.key] /\ e.cache # "slot"
    BY <1>1 DEF Writes, RegistryWrites, SlotWrites
  <2>2. x \in Registries /\ x[e.key] = e.previous /\ \A k \in Keys : k # e.key => x[k] = cs[1][k]
    BY <1>0, <2>1 DEF Registries
  <2>3. TakenBack(cs, e) = <<x, cs[2]>>
    BY <1>1 DEF TakenBack
  <2> HIDE DEF x
  <2>4. TakenBack(cs, e)[1] = x /\ TakenBack(cs, e)[2] = cs[2] /\ TakenBack(cs, e) \in Registries \X Slots
    BY <1>0, <2>2, <2>3
  <2> QED
    BY <1>1, <2>1, <2>2, <2>4
<1>2. CASE e.cache # "registry"
  <2> DEFINE y == [cs[2] EXCEPT ![e.key] = e.previous]
  <2>1. e.key \in Numbers /\ e.previous = <<>> /\ e.previous = B[2][e.key] /\ e.cache = "slot"
    BY <1>2 DEF Writes, RegistryWrites, SlotWrites
  <2>2. e.previous \in Seq(Numbers)
    BY <2>1
  <2>3. y \in Slots /\ y[e.key] = e.previous /\ \A w \in Numbers : w # e.key => y[w] = cs[2][w]
    BY <1>0, <2>1, <2>2 DEF Slots
  <2>4. TakenBack(cs, e) = <<cs[1], y>>
    BY <1>2 DEF TakenBack
  <2> HIDE DEF y
  <2>5. TakenBack(cs, e)[1] = cs[1] /\ TakenBack(cs, e)[2] = y /\ TakenBack(cs, e) \in Registries \X Slots
    BY <1>0, <2>3, <2>4
  <2> QED
    BY <1>2, <2>1, <2>3, <2>5
<1> QED
  BY <1>1, <1>2

\* All writes undone put back what there was before at every key one was for.
LEMMA UndoneIs ==
  ASSUME Shape, NEW B, \A i \in 1..Len(writes) : writes[i].previous = B[IF writes[i].cache = "registry" THEN 1 ELSE 2][writes[i].key]
  PROVE  /\ Undone[1] \in Registries /\ Undone[2] \in Slots
         /\ \A k \in Keys : Undone[1][k] = IF k \in Written THEN B[1][k] ELSE registry[k]
         /\ \A w \in Numbers : Undone[2][w] = IF w \in Cached THEN B[2][w] ELSE slots[w]
<1> DEFINE N == Len(writes)
           X == Registries \X Slots
           start == caches
           Body(f) == [i \in 0..N |-> IF i = 0 THEN start ELSE TakenBack(f[i - 1], writes[N + 1 - i])]
           undone == CHOOSE f : f = Body(f)
           step == [i \in 1..N |-> [cs \in X |-> TakenBack(cs, writes[N + 1 - i])]]
<1>1. Undone = undone[N]
  BY DEF Undone
<1>2. N \in Nat /\ start \in X /\ start[1] = registry /\ start[2] = slots /\ writes \in Seq(Writes)
  BY DEF Shape, caches, Registries, Slots
<1>3. \A i \in 1..N : writes[i] \in Writes
  BY <1>2
<1>4. \A i \in 1..N : N + 1 - i \in 1..N
  BY <1>2
<1> HIDE DEF N, start
<1>5. \A i \in 1..N, cs \in X : TakenBack(cs, writes[N + 1 - i]) \in X
  <2> TAKE i \in 1..N, cs \in X
  <2>1. N + 1 - i \in 1..N
    BY <1>4
  <2> QED
    BY <1>3, <2>1, TakenBackIs DEF N
<1> HIDE DEF X
<1>6. step \in [1..N -> [X -> X]]
  BY <1>5
<1>7. \A i \in 1..N, cs \in X : step[i][cs] = TakenBack(cs, writes[N + 1 - i])
  OBVIOUS
<1>8. \E g \in [0..N -> X] : IsRun(g, N, start, step)
  <2> HIDE DEF step
  <2> QED
    BY <1>2, <1>6, RecursiveFunction
<1>9. \E g : g = Body(g)
  <2>1. PICK g \in [0..N -> X] : IsRun(g, N, start, step)
    BY <1>8
  <2>2. \A i \in 0..N : i # 0 => i \in 1..N /\ i - 1 \in 0..N
    BY <1>2
  <2> HIDE DEF step
  <2>3. g = Body(g)
    BY <1>7, <2>1, <2>2 DEF IsRun
  <2> QED
    BY <2>3
<1>10. undone = Body(undone)
  <2> HIDE DEF Body
  <2> QED
    BY <1>9
<1> HIDE DEF undone
<1>11. undone[0] = start /\ \A i \in 1..N : undone[i] = TakenBack(undone[i - 1], writes[N + 1 - i])
  <2>1. 0 \in 0..N /\ \A i \in 1..N : i \in 0..N /\ i # 0
    BY <1>2
  <2> QED
    BY <1>10, <2>1
<1> HIDE DEF Body
<1> DEFINE Some(i, c, k) == \E j \in 1..N : j > N - i /\ writes[j].cache = c /\ writes[j].key = k
           Regs(i) == \A k \in Keys : undone[i][1][k] = IF Some(i, "registry", k) THEN B[1][k] ELSE registry[k]
           Slts(i) == \A w \in Numbers : undone[i][2][w] = IF Some(i, "slot", w) THEN B[2][w] ELSE slots[w]
           S == {i \in 0..N : undone[i] \in X /\ Regs(i) /\ Slts(i)}
<1>12. 0 \in S
  <2>1. \A c, k : ~Some(0, c, k)
    BY <1>2
  <2> QED
    BY <1>2, <1>11, <2>1
<1>13. ASSUME NEW i \in Nat, i < N, i \in S PROVE i + 1 \in S
  <2> DEFINE d == undone[i]
             m == N + 1 - (i + 1)
             e == writes[m]
  <2>1. i + 1 \in 1..N /\ i + 1 \in 0..N /\ (i + 1) - 1 = i /\ m \in 1..N
    BY <1>2, <1>13
  <2>2. \A j \in 1..N : j > N - (i + 1) <=> (j > N - i \/ j = m)
    BY <1>2, <1>13
  <2>3. d \in X /\ Regs(i) /\ Slts(i)
    BY <1>13
  <2>4. e \in Writes /\ e.previous = B[IF e.cache = "registry" THEN 1 ELSE 2][e.key]
    BY <1>3, <2>1 DEF N
  <2>5. undone[i + 1] = TakenBack(d, e)
    BY <1>11, <2>1
  <2> HIDE DEF m
  <2>6. \A c, k : Some(i + 1, c, k) <=> (Some(i, c, k) \/ (e.cache = c /\ e.key = k))
    BY <2>1, <2>2
  <2>7. /\ TakenBack(d, e) \in X
        /\ \A k \in Keys : TakenBack(d, e)[1][k] = IF e.cache = "registry" /\ e.key = k THEN B[1][k] ELSE d[1][k]
        /\ \A w \in Numbers : TakenBack(d, e)[2][w] = IF e.cache = "slot" /\ e.key = w THEN B[2][w] ELSE d[2][w]
    <3> HIDE DEF d, e
    <3> QED
      BY <2>3, <2>4, TakenBackIs DEF X
  <2> HIDE DEF Some, e
  <2>8. Regs(i + 1)
    BY <2>3, <2>5, <2>6, <2>7
  <2>9. Slts(i + 1)
    BY <2>3, <2>5, <2>6, <2>7
  <2> HIDE DEF Regs, Slts
  <2> QED
    BY <2>1, <2>5, <2>7, <2>8, <2>9
<1>14. 0..N \subseteq S
  <2> HIDE DEF S
  <2> QED
    BY <1>2, <1>12, <1>13, InductionTo
<1>15. N \in S
  BY <1>2, <1>14
<1>16. undone[N] \in X /\ Regs(N) /\ Slts(N)
  BY <1>15
<1>17. \A j \in 1..N : j > N - N
  BY <1>2
<1>18. \A k : (Some(N, "registry", k) <=> k \in Written) /\ (Some(N, "slot", k) <=> k \in Cached)
  BY <1>17 DEF Written, Cached, N
<1> HIDE DEF Some
<1> QED
  BY <1>1, <1>16, <1>18 DEF X

\* What a thrown fill leaves of the caches.
LEMMA ThrowFacts ==
  ASSUME IInv, FillThrows
  PROVE  /\ from # 0 /\ registry' = before[1] /\ registry' \in Registries /\ slots' \in Slots
         /\ \A w \in Numbers : slots'[w] = IF w \in Cached THEN <<>> ELSE slots[w]
         /\ \A w \in Live : slots'[w] = before[2][w]
<1>1. from # 0 /\ registry' = Undone[1] /\ slots' = Undone[2]
  BY ReadingFacts, FillingFacts DEF FillThrows
<1>2. Shape /\ Undoes
  BY <1>1 DEF IInv
<1>3. /\ Undone[1] \in Registries /\ Undone[2] \in Slots
      /\ \A k \in Keys : Undone[1][k] = IF k \in Written THEN before[1][k] ELSE registry[k]
      /\ \A w \in Numbers : Undone[2][w] = IF w \in Cached THEN before[2][w] ELSE slots[w]
  <2>1. \A i \in 1..Len(writes) : writes[i].previous = before[IF writes[i].cache = "registry" THEN 1 ELSE 2][writes[i].key]
    BY <1>2 DEF Undoes
  <2> QED
    BY <1>2, <2>1, UndoneIs
<1>4. registry' = before[1]
  <2>1. \A k \in Keys : registry'[k] = before[1][k]
    BY <1>1, <1>2, <1>3 DEF Undoes
  <2>2. before[1] \in Registries /\ registry' \in Registries
    BY <1>1, <1>2, <1>3 DEF Undoes, Registries
  <2> QED
    BY <2>1, <2>2 DEF Registries
<1>5. \A w \in Cached : before[2][w] = <<>>
  <2> SUFFICES ASSUME NEW i \in 1..Len(writes), writes[i].cache = "slot" PROVE before[2][writes[i].key] = <<>>
    BY DEF Cached
  <2>1. writes[i] \in SlotWrites
    BY <1>2 DEF Shape, Writes, RegistryWrites
  <2> QED
    BY <1>2, <2>1 DEF SlotWrites, Undoes
<1>6. \A w \in Numbers : slots'[w] = IF w \in Cached THEN <<>> ELSE slots[w]
  BY <1>1, <1>3, <1>5
<1>7. \A w \in Live : slots'[w] = before[2][w]
  BY <1>1, <1>2, <1>3, FoundFacts DEF Undoes
<1> QED
  BY <1>1, <1>3, <1>4, <1>6, <1>7

\* A thrown fill leaves what was found before it.
LEMMA FillThrowsKeeps == ASSUME IInv, FillThrows PROVE IInv'
<1>1. /\ from # 0 /\ registry' = before[1] /\ registry' \in Registries /\ slots' \in Slots
      /\ \A w \in Numbers : slots'[w] = IF w \in Cached THEN <<>> ELSE slots[w]
  BY ThrowFacts
<1>2. Shape /\ KidsLive /\ Kept /\ Closed /\ Whole /\ Undoes
  BY <1>1 DEF IInv
<1>3. UNCHANGED <<wraps, items, held, dead>> /\ EndFill
  BY DEF FillThrows, heap
<1>4. /\ Found \subseteq Live /\ Live \subseteq Wrappers /\ Wrappers \subseteq Numbers /\ Older \subseteq Found
      /\ Cached \subseteq Queued /\ Unfilled \subseteq Queued /\ Queued \cap Older = {} /\ \A w \in Live : KeyOf(wraps[w]) \in Keys
  BY <1>1, <1>2, QueuedFacts, FoundFacts DEF Older, Undoes
<1>5. Wrappers' = Wrappers /\ Live' = Live
  BY <1>3 DEF Wrappers, Live
<1>6. Found' = Older
  <2>1. ASSUME NEW w \in Live PROVE w \in Found' <=> w \in Older
    <3>1. w \in Found' <=> before[1][KeyOf(wraps[w])] = w
      BY <1>1, <1>3, <1>5, <2>1 DEF Found
    <3>2. CASE KeyOf(wraps[w]) \in Written
      BY <1>2, <2>1, <3>1, <3>2 DEF Undoes, Older
    <3>3. CASE KeyOf(wraps[w]) \notin Written
      BY <1>2, <1>4, <2>1, <3>1, <3>3 DEF Undoes, Older, Found
    <3> QED
      BY <3>2, <3>3
  <2>2. Found' \subseteq Live
    BY <1>5 DEF Found
  <2> QED
    BY <1>4, <2>1, <2>2
<1>7. \A w \in Numbers : Kids(w)' \subseteq Kids(w)
  <2> TAKE w \in Numbers
  <2>1. CASE w \in Cached
    BY <1>1, <1>3, <2>1, RangeEmpty, KidsAre DEF KidsBy
  <2>2. CASE w \notin Cached
    BY <1>1, <1>3, <2>2, KidsAre DEF KidsBy
  <2> QED
    BY <2>1, <2>2
<1>8. Calm'
  <2>1. NoStaleEntry'
    BY <1>1, <1>2, <1>3, <1>5 DEF NoStaleEntry, Undoes, KeyOf
  <2>2. KidsLive'
    <3> SUFFICES ASSUME NEW w \in Numbers PROVE Kids(w)' \subseteq Live' /\ (w \notin Live' => slots'[w] = <<>> /\ items'[w] = <<>>)
      BY DEF KidsLive
    <3>1. Kids(w) \subseteq Live /\ (w \notin Live => slots[w] = <<>> /\ items[w] = <<>>)
      BY <1>2 DEF KidsLive
    <3> QED
      BY <1>1, <1>3, <1>5, <1>7, <3>1
  <2>3. held' \subseteq Found'
    BY <1>2, <1>3, <1>6 DEF Kept
  <2>4. ASSUME NEW w \in Found' PROVE Kids(w)' \subseteq Found' /\ WholeBy(wraps', slots', items', w)
    <3>1. w \in Older /\ w \in Numbers /\ w \notin Cached /\ w \notin Unfilled /\ w \in Found
      BY <1>4, <1>6, <2>4
    <3>2. Kids(w)' \subseteq Found'
      BY <1>2, <1>6, <1>7, <3>1 DEF Closed
    <3>3. slots'[w] = slots[w] /\ WholeBy(wraps, slots, items, w)
      BY <1>1, <1>2, <3>1 DEF Whole
    <3>4. slots \in [Numbers -> Seq(Numbers)] /\ items \in [Numbers -> Seq(Numbers)]
      BY <1>2 DEF Shape
    <3> QED
      BY <1>3, <3>1, <3>2, <3>3, <3>4, WholeSame
  <2> QED
    BY <2>1, <2>2, <2>3, <2>4 DEF Calm
<1>9. Shape' /\ UserCode'
  <2>1. pending' = <<>> /\ from' = 0 /\ part' = <<>> /\ writes' = <<>> /\ kept' = {}
    BY <1>3 DEF EndFill
  <2>2. Len(pending') = 0
    BY <2>1
  <2> QED
    BY <1>1, <1>2, <1>3, <1>5, <2>1, <2>2 DEF Shape, UserCode, Registries, Slots
<1> QED
  BY <1>8, <1>9, CalmHoldsAfter

-----------------------------------------------------------------------------
(* The theorems.                                                           *)

LEMMA InitHolds == Init => IInv
<1> SUFFICES ASSUME Init PROVE IInv
  OBVIOUS
<1>1. /\ wraps = [w \in Numbers |-> Nil] /\ registry = [k \in Keys |-> 0] /\ slots = [w \in Numbers |-> <<>>] /\ items = slots
      /\ held = {} /\ dead = {} /\ pending = <<>> /\ from = 0 /\ part = <<>> /\ writes = <<>> /\ kept = {}
  BY DEF Init
<1>2. Wrappers = {} /\ Live = {} /\ Found = {}
  BY <1>1 DEF Wrappers, Live, Found
<1>3. \A w \in Numbers : Kids(w) = {}
  BY <1>1, RangeEmpty DEF Kids
<1>4. Shape
  BY <1>1, ConstantsType DEF Shape
<1>5. Calm
  BY <1>1, <1>2, <1>3 DEF Calm, NoStaleEntry, KidsLive
<1> QED
  BY <1>1, <1>4, <1>5, CalmHolds DEF UserCode

LEMMA StepHolds == IInv /\ [Next]_vars => IInv'
<1> SUFFICES ASSUME IInv, [Next]_vars PROVE IInv'
  OBVIOUS
<1>1. ASSUME NEW n \in Nodes, NEW r \in Routes(n), ReadKnown(n, r) PROVE IInv'
  BY <1>1, ReadKnownKeeps
<1>2. ASSUME NEW n \in Nodes, NEW r \in Routes(n), ReadNew(n, r) PROVE IInv'
  BY <1>2, ReadNewKeeps
<1>3. ASSUME NEW n \in Nodes, NEW r \in Routes(n), ReadList(n, r) PROVE IInv'
  BY <1>3, ReadListKeeps
<1>4. ASSUME NEW w \in held, Drop(w) PROVE IInv'
  BY <1>4, DropKeeps
<1>5. ASSUME NEW w \in held, NEW c \in Kids(w), TakeChild(w, c) PROVE IInv'
  BY <1>5, TakeChildKeeps
<1>6. CASE FillKnown
  BY <1>6, FillKnownKeeps
<1>7. CASE FillNew
  BY <1>7, FillNewKeeps
<1>8. CASE FillNext
  BY <1>8, FillNextKeeps
<1>9. CASE FillDone
  BY <1>9, FillDoneKeeps
<1>10. CASE FillThrows
  BY <1>10, FillThrowsKeeps
<1>11. ASSUME NEW w \in Wrappers, Collect(w) PROVE IInv'
  BY <1>11, CollectKeeps
<1>12. ASSUME NEW w \in Wrappers, Finalize(w) PROVE IInv'
  BY <1>12, FinalizeKeeps
<1>13. CASE UNCHANGED vars
  <2>1. UNCHANGED <<wraps, registry, slots, items, held, dead, pending, from, part, writes, kept, call, before>>
    BY <1>13 DEF vars, caches, heap, fill
  <2>2. Wrappers' = Wrappers /\ Live' = Live /\ Found' = Found /\ Written' = Written /\ Cached' = Cached
        /\ Queued' = Queued /\ Unfilled' = Unfilled /\ Wanted' = Wanted /\ \A w : Kids(w)' = Kids(w)
    BY <2>1 DEF Wrappers, Live, Found, Written, Cached, Queued, Unfilled, Wanted, Filling, Kids
  <2>3. Older' = Older
    BY <2>1, <2>2 DEF Older
  <2>4. Shape' /\ NoStaleEntry' /\ KidsLive' /\ Kept' /\ Closed' /\ Whole'
    BY <2>1, <2>2, <2>3 DEF IInv, Shape, NoStaleEntry, KidsLive, Kept, Closed, Whole
  <2>5. from # 0 => Queue' /\ Call' /\ Undoes'
    BY <2>1, <2>2, <2>3 DEF IInv, Queue, Call, Undoes
  <2> QED
    BY <2>1, <2>4, <2>5 DEF IInv
<1> QED
  BY <1>1, <1>2, <1>3, <1>4, <1>5, <1>6, <1>7, <1>8, <1>9, <1>10, <1>11, <1>12, <1>13 DEF Next

\* Whatever is read, dropped, collected, finalized or thrown: what user code holds is
\* found and whole, only what lives is a child, and the writes a fill noted tell the
\* caches there were when it began.
THEOREM WrappersInvariant == Spec => []IInv
<1> QED
  BY InitHolds, StepHolds, PTL DEF Spec

\* Every variable keeps to its values, and nothing of a fill is left when it ended.
THEOREM WrappersTypeCorrect == Spec => []TypeOK
<1>1. IInv => TypeOK
  <2> SUFFICES ASSUME IInv PROVE TypeOK
    OBVIOUS
  <2>1. Shape /\ KidsLive /\ Kept
    BY DEF IInv
  <2>2. Found \subseteq Live /\ Live \subseteq Wrappers /\ Older \subseteq Found
    BY <2>1, FoundFacts DEF Older
  <2>3. slots \in [Numbers -> Seq(Wrappers)] /\ items \in [Numbers -> Seq(Wrappers)]
    <3>1. \A w \in Numbers : slots[w] \in Seq(Numbers) /\ items[w] \in Seq(Numbers) /\ Range(slots[w]) \subseteq Wrappers /\ Range(items[w]) \subseteq Wrappers
      BY <2>1, <2>2 DEF Shape, KidsLive, Kids
    <3>2. \A w \in Numbers : slots[w] \in Seq(Wrappers) /\ items[w] \in Seq(Wrappers)
      BY <3>1, SeqInto
    <3> QED
      BY <2>1, <3>2 DEF Shape
  <2>4. pending \in Seq(Wrappers) /\ part \in Seq(Wrappers)
    <3>1. Range(part) \subseteq Wrappers /\ Range(pending) \subseteq Wrappers
      BY <2>1, <2>2, RangeFacts DEF Kept, Queued, Shape
    <3> QED
      BY <2>1, <3>1, SeqInto DEF Shape
  <2>5. ASSUME NEW i \in 1..Len(writes) PROVE writes[i].key \in (IF writes[i].cache = "registry" THEN Keys ELSE Wrappers)
    <3>1. writes[i] \in Writes
      BY <2>1 DEF Shape
    <3>2. CASE writes[i].cache = "registry"
      BY <3>1, <3>2 DEF Writes, RegistryWrites, SlotWrites
    <3>3. CASE writes[i].cache # "registry"
      <4>1. writes[i].cache = "slot"
        BY <3>1, <3>3 DEF Writes, RegistryWrites, SlotWrites
      <4>2. writes[i].key \in Cached
        BY <4>1 DEF Cached
      <4>3. from # 0
        BY <2>1, <2>5 DEF Shape
      <4>4. Cached \subseteq Queued
        BY <4>3 DEF IInv, Undoes
      <4> QED
        BY <2>1, <2>2, <3>3, <4>2, <4>4 DEF Kept
    <3> QED
      BY <3>2, <3>3
  <2> QED
    BY <2>1, <2>2, <2>3, <2>4, <2>5 DEF TypeOK, Shape, Kept
<1> QED
  BY <1>1, WrappersInvariant, PTL

\* No entry outlives its wrapper's finalizer, which runs between fills: neither a fill nor
\* its undo brings an entry back for a wrapper that is gone.
THEOREM WrappersNoStaleEntry == Spec => []NoStaleEntry
<1>1. IInv => NoStaleEntry
  BY DEF IInv
<1> QED
  BY <1>1, WrappersInvariant, PTL

\* User code reaches only what a read would find.
LEMMA ReachedFound == IInv => Reached \subseteq Found
<1> SUFFICES ASSUME IInv PROVE Reached \subseteq Found
  OBVIOUS
<1> DEFINE N == MaxWrappers
           X == SUBSET Found
           More(s) == s \cup UNION {Kids(w) : w \in s}
           Body(f) == [i \in Numbers \cup {0} |-> IF i = 0 THEN held ELSE More(f[i - 1])]
           r == CHOOSE f : f = Body(f)
           step == [i \in 1..N |-> [s \in X |-> More(s)]]
<1>1. Reached = r[N]
  BY DEF Reached
<1>2. held \in X /\ \A w \in Found : Kids(w) \subseteq Found
  BY DEF IInv, Kept, Closed, Older
<1>3. \A s \in X : More(s) \in X
  BY <1>2
<1>4. N \in Nat /\ Numbers \cup {0} = 0..N
  BY ConstantsType
<1> HIDE DEF More, X, N
<1>5. step \in [1..N -> [X -> X]]
  BY <1>3
<1>6. \A i \in 1..N, s \in X : step[i][s] = More(s)
  OBVIOUS
<1>7. \E g \in [0..N -> X] : IsRun(g, N, held, step)
  <2> HIDE DEF step
  <2> QED
    BY <1>2, <1>4, <1>5, RecursiveFunction
<1>8. \E g : g = Body(g)
  <2>1. PICK g \in [0..N -> X] : IsRun(g, N, held, step)
    BY <1>7
  <2>2. \A i \in 0..N : i # 0 => i \in 1..N /\ i - 1 \in 0..N
    BY <1>4
  <2> HIDE DEF step
  <2>3. g = Body(g)
    BY <1>4, <1>6, <2>1, <2>2 DEF IsRun
  <2> QED
    BY <2>3
<1>9. r = Body(r)
  <2> HIDE DEF Body
  <2> QED
    BY <1>8
<1> HIDE DEF r
<1>10. r[0] = held /\ \A i \in 1..N : r[i] = More(r[i - 1])
  <2>1. 0 \in Numbers \cup {0} /\ \A i \in 1..N : i \in Numbers \cup {0} /\ i # 0
    BY <1>4
  <2> QED
    BY <1>9, <2>1
<1> HIDE DEF Body
<1>11. \A i \in 0..N : r[i] \in X
  BY <1>2, <1>3, <1>4, <1>10, RecursiveValues
<1>12. N \in 0..N
  BY <1>4
<1> QED
  BY <1>1, <1>11, <1>12 DEF X

\* By whichever route it is reached, and through any fill, user code meets one wrapper of
\* a node: the one the registry has for it.
THEOREM WrappersOneWrapper == Spec => []OneWrapper
<1>1. IInv => OneWrapper
  <2> SUFFICES ASSUME IInv, NEW v \in Reached, NEW w \in Reached, wraps[v] = wraps[w] PROVE v = w
    BY DEF OneWrapper
  <2>1. v \in Found /\ w \in Found
    BY ReachedFound
  <2> QED
    BY <2>1 DEF Found
<1> QED
  BY <1>1, WrappersInvariant, PTL

\* Between calls what user code reaches, or a read would find, has the very children of
\* its node in its slot and its items.
THEOREM WrappersFoundWhole == Spec => []FoundWhole
<1>1. IInv => FoundWhole
  <2> SUFFICES ASSUME IInv, UserCode, NEW w \in Reached \cup ({registry[k] : k \in Keys} \cap Live)
               PROVE  (slots[w] # <<>> => AreChildren(w, slots[w])) /\ (wraps[w] \in Lists => AreChildren(w, items[w]))
    BY DEF FoundWhole
  <2>1. Calm /\ Shape
    BY CalmFacts
  <2>2. w \in Found
    <3>1. CASE w \in Reached
      BY <3>1, ReachedFound
    <3>2. ASSUME NEW k \in Keys, w = registry[k], w \in Live PROVE w \in Found
      <4>1. registry[k] # 0
        BY <2>1, <3>2, FoundFacts
      <4>2. k = KeyOf(wraps[w])
        BY <2>1, <3>2, <4>1 DEF Calm, NoStaleEntry, KeyOf
      <4> QED
        BY <3>2, <4>2 DEF Found
    <3> QED
      BY <3>1, <3>2
  <2>3. WholeBy(wraps, slots, items, w)
    BY <2>1, <2>2 DEF Calm
  <2> QED
    BY <2>3 DEF WholeBy, ChildrenBy, AreChildren
<1> QED
  BY <1>1, WrappersInvariant, PTL

\* A fill that ends and hands nothing threw, and left the registry and the slot of every
\* wrapper that lives as they were when it began.
THEOREM WrappersThrownFillUndone == Spec => ThrownFillUndone
<1>1. ASSUME IInv, [Next]_vars, from # 0, from' = 0, held' = held
      PROVE  registry' = before[1] /\ \A w \in Live : slots'[w] = before[2][w]
  <2>1. ~UserCode
    BY <1>1 DEF UserCode
  <2>2. ~FillDone
    <3> SUFFICES ASSUME FillDone PROVE FALSE
      OBVIOUS
    <3>1. pending[1] \in held
      BY <1>1 DEF FillDone, Hand
    <3>2. Queue /\ Kept
      BY <1>1 DEF IInv
    <3> QED
      BY <3>1, <3>2 DEF Queue, Kept, Older
  <2>3. CASE FillThrows
    BY <1>1, <2>3, ThrowFacts
  <2>4. ~(FillKnown \/ FillNew)
    BY <1>1 DEF FillKnown, FillNew
  <2>5. ~FillNext
    <3> SUFFICES ASSUME FillNext PROVE FALSE
      OBVIOUS
    <3>1. from \in 1..Len(pending) /\ from' = from + 1
      BY DEF FillNext
    <3>2. Len(pending) \in Nat
      BY <1>1 DEF IInv, Shape
    <3> QED
      BY <1>1, <3>1, <3>2
  <2>6. ~ \E w \in Wrappers : Collect(w) \/ Finalize(w)
    BY <1>1, <2>1 DEF Collect, Finalize, fill
  <2>7. ~ \E n \in Nodes : \E r \in Routes(n) : ReadKnown(n, r) \/ ReadNew(n, r) \/ ReadList(n, r)
    BY <2>1 DEF ReadKnown, ReadNew, ReadList
  <2>8. ~ \E w \in held : Drop(w) \/ \E c \in Kids(w) : TakeChild(w, c)
    BY <2>1 DEF Drop, TakeChild
  <2>9. ~ UNCHANGED vars
    BY <1>1 DEF vars, fill
  <2> QED
    BY <1>1, <2>2, <2>3, <2>4, <2>5, <2>6, <2>7, <2>8, <2>9 DEF Next
<1>2. IInv /\ [Next]_vars => [from # 0 /\ from' = 0 /\ held' = held =>
        registry' = before[1] /\ \A w \in Live : slots'[w] = before[2][w]]_vars
  BY <1>1
<1> QED
  BY <1>2, WrappersInvariant, PTL DEF Spec, ThrownFillUndone
=============================================================================
