-------------------------- MODULE ParkedSidesProofs --------------------------
(***************************************************************************)
(* The sides of leaves, proved for any number of comments, holders, leaves *)
(* and scopes: what holds a comment is counted, a throw restores the sides *)
(* and parks of every leaf, a kept leaf goes on holding its sides, and     *)
(* what is parked some leaf lets go, but for a rollback's undo that is     *)
(* refused.                                                                *)
(***************************************************************************)
EXTENDS ParkedSides, Recursion, FiniteSetTheorems, SequenceTheorems

-----------------------------------------------------------------------------
(* The inductive invariant.                                                *)

\* Every comment that is counted or named was built, and so was every holder with a site.
Named ==
  /\ owned \cup alive \subseteq used /\ IsFiniteSet(alive)
  /\ \A h \in alive : row[h] \in used \cup {Nil}
  /\ \A o \in Objects : written[o] \in used \cup {Nil}
  /\ \A c \in Comments : count[c] > 0 => c \in used

\* The trivia objects the handles, the parks and the undos have were made.
Made ==
  /\ parked \subseteq Objects
  /\ \A l \in Leaves : trivia[l] <= Len(written)
  /\ \A j \in 1..Len(undos) :
       /\ undos[j].next <= Len(written) /\ undos[j].parked <= Len(written) /\ undos[j].own <= Len(written)
       /\ IF undos[j].site THEN undos[j].next = 0 ELSE undos[j].own < undos[j].next

\* How much of each list was there when a scope began.
Within(f, m, v, u) == f.minted <= m /\ f.moved <= v /\ f.undos <= u

Scopes ==
  /\ \A i \in 1..Len(frames) : Within(frames[i], Len(minted), Len(moved), Len(undos))
  /\ \A i, j \in 1..Len(frames) :
       i <= j => Within(frames[i], frames[j].minted, frames[j].moved, frames[j].undos)
  /\ UserCode \/ InScope
  /\ call.op = "undo" => call.n \in Top.undos..Len(undos)
  /\ call.op = "giveback" => call.n \in Top.moved..Len(moved)

Marks ==
  /\ \A i \in 1..Len(commits) : commits[i].minted <= Len(minted) /\ commits[i].listed <= Len(listed)
  /\ \A i \in 1..Len(commits), j \in 1..Len(frames) : commits[i].minted <= frames[j].minted
  /\ \A i, j \in 1..Len(commits) :
       i <= j => commits[i].minted <= commits[j].minted /\ commits[i].listed <= commits[j].listed

\* A trivia object is of one leaf.
OfLeaf(o, l) ==
  \/ o = trivia[l]
  \/ \E j \in 1..Len(undos) : undos[j].leaf = l /\ o \in {undos[j].next, undos[j].parked, undos[j].own}

Owners == \A l, m \in Leaves : l # m => \A o \in 1..MaxWrites : ~(OfLeaf(o, l) /\ OfLeaf(o, m))

\* The undos a rollback has still to run, were a build to throw.
Ahead == IF call.op = "undo" THEN call.n ELSE IF call.op = "giveback" THEN Top.undos ELSE Len(undos)

\* What only builds were done in since it began has the trivia it had, and lacks the parks
\* its undos put back.
Untouched(f) ==
  /\ f.trivia = trivia /\ parked \subseteq f.parked
  /\ \A j \in f.undos + 1..Len(undos) : undos[j].site /\ undos[j].parked # 0 /\ undos[j].parked \in f.parked
  /\ \A o \in f.parked : o \in parked \/ \E j \in f.undos + 1..Ahead : undos[j].parked = o

Rollbacks == \A i \in 1..Len(frames) : frames[i].touched \/ Untouched(frames[i])

\* Such a scope moved no hold, and its undos park what is not parked, each once.
Unmoved(f) ==
  /\ f.moved = IF UserCode THEN Len(moved) ELSE Top.moved
  /\ \A j \in f.undos + 1..Ahead : undos[j].parked \notin parked
  /\ \A j, k \in f.undos + 1..Ahead : undos[j].parked = undos[k].parked => j = k

\* The holds a rollback moved and has still to give back.
Owed == Top.moved + 1..(IF call.op = "undo" THEN Len(moved) ELSE call.n)

\* They are counted for parks until then, each once.
Giving ==
  /\ ~Top.touched
  /\ \A j \in Owed : moved[j] \notin owned /\ \E o \in parked : written[o] = moved[j]
  /\ \A j, k \in Owed : moved[j] = moved[k] => j = k

Unspent ==
  tainted = 0 => /\ \A i \in 1..Len(frames) : frames[i].touched \/ Unmoved(frames[i])
                 /\ UserCode \/ Giving

\* Record h holds what undo j parks, and no rollback that leaves the undo releases it.
Site(j, h) ==
  /\ h \in alive /\ row[h] = Entry(undos[j].parked)
  /\ \A g \in 1..Len(frames) : j <= frames[g].undos => \A i \in frames[g].minted + 1..Len(minted) : minted[i] # h

\* So the undos of a scope only builds were done in are not refused.
Sited(f) == \A j \in f.undos + 1..Len(undos) : \E h \in Holders : Site(j, h)

Placed == \A i \in 1..Len(frames) : frames[i].touched \/ Sited(frames[i])

\* Undo j is of a write of leaf l; those after b and up to n are of none.
Writes(j, l) == undos[j].leaf = l /\ ~undos[j].site
Clear(b, n, l) == \A i \in b + 1..n : ~Writes(i, l)

\* The undos of scope f put back the parks there were, and take back the others.
ParksBack(f) ==
  /\ f.parked \subseteq Objects
  /\ \A o \in f.parked : o \in parked \/ \E j \in f.undos + 1..Ahead : undos[j].parked = o
  /\ \A o \in parked \ f.parked : \E j \in f.undos + 1..Ahead : undos[j].next = o
  /\ \A j \in f.undos + 1..Len(undos) :
       /\ undos[j].next \notin f.parked
       /\ undos[j].parked \in f.parked \cup {0} \/ \E k \in f.undos + 1..j - 1 : undos[k].next = undos[j].parked

\* A leaf with no write to undo has the trivia it had, and the undo of its first write
\* gives that back.
TriviaBack(f) ==
  \A l \in Leaves :
    /\ Clear(f.undos, Ahead, l) => trivia[l] = f.trivia[l]
    /\ \A j \in f.undos + 1..Len(undos) : Writes(j, l) /\ Clear(f.undos, j - 1, l) => undos[j].own = f.trivia[l]

Back == \A i \in 1..Len(frames) : frames[i].strayed \/ (ParksBack(frames[i]) /\ TriviaBack(frames[i]))

IInv ==
  /\ TypeOK /\ Named /\ Made /\ Scopes /\ Marks /\ Owners /\ SidesCover /\ SidesExact /\ Rollbacks /\ Unspent
  /\ Placed /\ Back

-----------------------------------------------------------------------------
(* Counting.                                                               *)

LEMMA ConstantsType ==
  /\ MaxWrites \in Nat /\ MaxFrames \in Nat /\ MaxCommits \in Nat
  /\ Nil \notin Comments /\ Nil \notin Holders /\ Nil \notin Leaves
  /\ Comments \cap Holders = {} /\ Comments \cap Leaves = {}
BY ConstantsAssumption

\* What comment x is counted for, when it is counted for the handles ow, the rows rw of the
\* holders al and the parks pk of objects wr.
OwnCount(ow, x) == Cardinality(ow \cap {x})
RowCount(al, rw, x) == Cardinality({h \in al : rw[h] = x})
ParkCount(pk, wr, x) == Cardinality({o \in pk : wr[o] = x})

LEMMA HoldsSum ==
  ASSUME NEW x
  PROVE  HoldsOf(x) = OwnCount(owned, x) + RowCount(alive, row, x) + ParkCount(parked, written, x)
BY DEF HoldsOf, OwnCount, RowCount, ParkCount

LEMMA OwnOne ==
  ASSUME NEW S, NEW x
  PROVE  OwnCount(S, x) = IF x \in S THEN 1 ELSE 0
<1>1. CASE x \in S
  <2>1. S \cap {x} = {x}
    BY <1>1
  <2> QED
    BY <2>1, <1>1, FS_Singleton DEF OwnCount
<1>2. CASE x \notin S
  <2>1. S \cap {x} = {}
    BY <1>2
  <2> QED
    BY <2>1, <1>2, FS_EmptySet DEF OwnCount
<1> QED
  BY <1>1, <1>2

\* A part of a finite set, and what is left of it.
LEMMA PartCount ==
  ASSUME NEW S, IsFiniteSet(S), NEW T, T \subseteq S
  PROVE  /\ IsFiniteSet(T) /\ IsFiniteSet(S \ T) /\ Cardinality(S) \in Nat /\ Cardinality(T) \in Nat
         /\ Cardinality(S \ T) = Cardinality(S) - Cardinality(T)
         /\ Cardinality(T) <= Cardinality(S)
<1>1. S \cap T = T
  OBVIOUS
<1>2. IsFiniteSet(S \ T) /\ Cardinality(S \ T) = Cardinality(S) - Cardinality(T)
  BY <1>1, FS_Difference
<1>3. IsFiniteSet(T) /\ Cardinality(T) <= Cardinality(S)
  BY FS_Subset
<1> QED
  BY <1>2, <1>3, FS_CardinalityType

LEMMA RowType ==
  ASSUME NEW al, IsFiniteSet(al), NEW rw, NEW x
  PROVE  RowCount(al, rw, x) \in Nat /\ RowCount(al, rw, x) <= Cardinality(al) /\ Cardinality(al) \in Nat
<1>1. {h \in al : rw[h] = x} \subseteq al
  OBVIOUS
<1> QED
  BY <1>1, PartCount DEF RowCount

LEMMA RowOne ==
  ASSUME NEW h, NEW rw, NEW x
  PROVE  RowCount({h}, rw, x) = IF rw[h] = x THEN 1 ELSE 0
<1>1. CASE rw[h] = x
  <2>1. {k \in {h} : rw[k] = x} = {h}
    BY <1>1
  <2> QED
    BY <2>1, <1>1, FS_Singleton DEF RowCount
<1>2. CASE rw[h] # x
  <2>1. {k \in {h} : rw[k] = x} = {}
    BY <1>2
  <2> QED
    BY <2>1, <1>2, FS_EmptySet DEF RowCount
<1> QED
  BY <1>1, <1>2

LEMMA RowNone ==
  ASSUME NEW rw, NEW x
  PROVE  RowCount({}, rw, x) = 0
<1>1. {h \in {} : rw[h] = x} = {}
  OBVIOUS
<1> QED
  BY <1>1, FS_EmptySet DEF RowCount

\* Holders not counted before are counted for the same.
LEMMA RowPart ==
  ASSUME NEW al, IsFiniteSet(al), NEW hs, hs \subseteq al, NEW rw, NEW x
  PROVE  /\ RowCount(al \ hs, rw, x) = RowCount(al, rw, x) - RowCount(hs, rw, x)
         /\ IsFiniteSet(hs) /\ IsFiniteSet(al \ hs)
<1> DEFINE S == {h \in al : rw[h] = x}
           T == {h \in hs : rw[h] = x}
<1>1. IsFiniteSet(S) /\ IsFiniteSet(hs) /\ IsFiniteSet(al \ hs)
  BY PartCount
<1>2. {h \in al \ hs : rw[h] = x} = S \ T /\ T \subseteq S
  OBVIOUS
<1>3. Cardinality(S \ T) = Cardinality(S) - Cardinality(T)
  BY <1>1, <1>2, PartCount
<1> QED
  BY <1>1, <1>2, <1>3 DEF RowCount

\* Rows that agree on the holders count the same.
LEMMA RowSame ==
  ASSUME NEW al, NEW rw, NEW now, NEW x, \A h \in al : now[h] = rw[h]
  PROVE  RowCount(al, now, x) = RowCount(al, rw, x)
<1>1. {h \in al : now[h] = x} = {h \in al : rw[h] = x}
  OBVIOUS
<1> QED
  BY <1>1 DEF RowCount

LEMMA RowAll ==
  ASSUME NEW al, IsFiniteSet(al), NEW now, NEW c, NEW x, \A h \in al : now[h] = c
  PROVE  RowCount(al, now, x) = IF x = c THEN Cardinality(al) ELSE 0
<1>1. CASE x = c
  <2>1. {h \in al : now[h] = x} = al
    BY <1>1
  <2> QED
    BY <2>1, <1>1 DEF RowCount
<1>2. CASE x # c
  <2>1. {h \in al : now[h] = x} = {}
    BY <1>2
  <2> QED
    BY <2>1, <1>2, FS_EmptySet DEF RowCount
<1> QED
  BY <1>1, <1>2

\* Rows now are rw, but of holders hs, which name c.
Replaced(al, hs, rw, now, c) == (\A h \in hs : now[h] = c) /\ \A h \in al \ hs : now[h] = rw[h]

\* What n rows naming c count x for.
Naming(x, c, n) == IF x = c THEN n ELSE 0

LEMMA RowsSet ==
  ASSUME NEW al, IsFiniteSet(al), NEW hs, hs \subseteq al, NEW rw, NEW now, NEW c, NEW x,
         Replaced(al, hs, rw, now, c)
  PROVE  RowCount(al, now, x) = RowCount(al, rw, x) - RowCount(hs, rw, x) + Naming(x, c, Cardinality(hs))
<1>0. (\A h \in hs : now[h] = c) /\ \A h \in al \ hs : now[h] = rw[h]
  BY DEF Replaced
<1>1. IsFiniteSet(hs) /\ RowCount(al \ hs, rw, x) = RowCount(al, rw, x) - RowCount(hs, rw, x)
  BY RowPart
<1>2. RowCount(al \ hs, now, x) = RowCount(al, now, x) - RowCount(hs, now, x)
  BY RowPart
<1>3. RowCount(al \ hs, now, x) = RowCount(al \ hs, rw, x)
  BY <1>0, RowSame
<1>4. RowCount(hs, now, x) = Naming(x, c, Cardinality(hs))
  BY <1>0, <1>1, RowAll DEF Naming
<1>5. /\ RowCount(al, rw, x) \in Nat /\ RowCount(al, now, x) \in Nat
      /\ RowCount(hs, rw, x) \in Nat /\ RowCount(hs, now, x) \in Nat /\ Cardinality(hs) \in Nat
  BY <1>1, RowType
<1> QED
  BY <1>1, <1>2, <1>3, <1>4, <1>5

\* A holder not counted before is counted for its row.
LEMMA RowAdd ==
  ASSUME NEW al, IsFiniteSet(al), NEW h, h \notin al, NEW rw, NEW now, NEW x, \A k \in al : now[k] = rw[k]
  PROVE  /\ RowCount(al \cup {h}, now, x) = RowCount(al, rw, x) + (IF now[h] = x THEN 1 ELSE 0)
         /\ IsFiniteSet(al \cup {h}) /\ RowCount(al, rw, x) \in Nat
<1>1. IsFiniteSet(al \cup {h})
  BY FS_AddElement
<1>2. (al \cup {h}) \ {h} = al
  OBVIOUS
<1>3. RowCount(al, now, x) = RowCount(al \cup {h}, now, x) - RowCount({h}, now, x)
  BY <1>1, <1>2, RowPart
<1>4. RowCount(al, now, x) = RowCount(al, rw, x)
  BY RowSame
<1>5. RowCount({h}, now, x) = IF now[h] = x THEN 1 ELSE 0
  BY RowOne
<1>6. RowCount(al, rw, x) \in Nat /\ RowCount(al \cup {h}, now, x) \in Nat
  BY <1>1, RowType
<1> QED
  BY <1>1, <1>3, <1>4, <1>5, <1>6

\* Parks are counted as rows are.
LEMMA ParkIsRow ==
  ASSUME NEW pk, NEW wr, NEW x
  PROVE  ParkCount(pk, wr, x) = RowCount(pk, wr, x)
BY DEF ParkCount, RowCount

LEMMA ParkAdd ==
  ASSUME NEW pk, IsFiniteSet(pk), NEW o, o \notin pk, NEW wr, NEW x
  PROVE  ParkCount(pk \cup {o}, wr, x) = ParkCount(pk, wr, x) + (IF wr[o] = x THEN 1 ELSE 0)
<1> DEFINE now == pk \cup {o}
<1>1. IsFiniteSet(now)
  BY FS_AddElement
<1>2. pk = now \ {o} /\ {o} \subseteq now
  OBVIOUS
<1> HIDE DEF now
<1>3. RowCount(pk, wr, x) = RowCount(now, wr, x) - RowCount({o}, wr, x)
  BY <1>1, <1>2, RowPart
<1>4. RowCount({o}, wr, x) = IF wr[o] = x THEN 1 ELSE 0
  BY RowOne
<1>5. RowCount(now, wr, x) \in Nat /\ RowCount(pk, wr, x) \in Nat
  BY <1>1, RowType
<1>6. RowCount(now, wr, x) = RowCount(pk, wr, x) + (IF wr[o] = x THEN 1 ELSE 0)
  BY <1>3, <1>4, <1>5
<1> QED
  BY <1>6, ParkIsRow DEF now

LEMMA ParksFinite == ASSUME NEW pk, pk \subseteq 1..MaxWrites PROVE IsFiniteSet(pk)
<1>1. IsFiniteSet(1..MaxWrites)
  BY ConstantsType, FS_Interval
<1> QED
  BY <1>1, FS_Subset

LEMMA LetGoSum ==
  ASSUME NEW hs, NEW cs, NEW os, NEW x \in Comments
  PROVE  LetGo(hs, cs, os)[x] = RowCount(hs, row, x) + OwnCount(cs, x) + ParkCount(os, written, x)
BY DEF LetGo, RowCount, OwnCount, ParkCount

\* The object of one park, if any.
LEMMA ParkOne ==
  ASSUME NEW p \in Nat, NEW x
  PROVE  ParkCount({p} \ {0}, written, x) = IF p # 0 /\ written[p] = x THEN 1 ELSE 0
<1>1. CASE p = 0
  <2>1. {p} \ {0} = {}
    BY <1>1
  <2> QED
    BY <1>1, <2>1, RowNone, ParkIsRow
<1>2. CASE p # 0
  <2>1. {p} \ {0} = {p}
    BY <1>2
  <2> QED
    BY <1>2, <2>1, RowOne, ParkIsRow
<1> QED
  BY <1>1, <1>2


-----------------------------------------------------------------------------
(* Lists.                                                                  *)

LEMMA AppendSeq ==
  ASSUME NEW S, NEW s \in Seq(S), NEW e \in S
  PROVE  /\ Append(s, e) \in Seq(S) /\ Len(Append(s, e)) = Len(s) + 1 /\ Len(s) \in Nat
         /\ \A i \in 1..Len(s) + 1 : Append(s, e)[i] = IF i = Len(s) + 1 THEN e ELSE s[i]
OBVIOUS

\* The first n of a list.
LEMMA CutSeq ==
  ASSUME NEW S, NEW s \in Seq(S), NEW n \in Nat, n <= Len(s)
  PROVE  /\ SubSeq(s, 1, n) \in Seq(S) /\ Len(SubSeq(s, 1, n)) = n
         /\ \A i \in 1..n : SubSeq(s, 1, n)[i] = s[i]
<1>1. \A i \in 1..n : s[i] \in S
  OBVIOUS
<1> QED
  BY <1>1, SubSeqProperties

LEMMA SinceSeq ==
  ASSUME NEW S, NEW s \in Seq(S), NEW n \in Nat, n <= Len(s)
  PROVE  SubSeq(s, n + 1, Len(s)) \in Seq(S)
<1>1. \A i \in n + 1..Len(s) : s[i] \in S
  OBVIOUS
<1> QED
  BY <1>1, SubSeqProperties

LEMMA StillKeptSeq ==
  ASSUME NEW S, NEW s \in Seq(S)
  PROVE  StillKept(s) \in Seq(S)
<1> DEFINE N == Len(s)
           X == Seq(S)
           none == <<>>
           Next1(q, i) == IF Kept(s[i]) THEN Append(q, s[i]) ELSE q
           Body(f) == [i \in 0..N |-> IF i = 0 THEN none ELSE Next1(f[i - 1], i)]
           on == CHOOSE f : f = Body(f)
           step == [i \in 1..N |-> [q \in X |-> Next1(q, i)]]
<1>1. StillKept(s) = on[N]
  BY DEF StillKept
<1>2. N \in Nat /\ none \in X /\ \A i \in 1..N, q \in X : Next1(q, i) \in X
  OBVIOUS
<1> HIDE DEF Next1, none, X, N
<1>3. step \in [1..N -> [X -> X]]
  BY <1>2
<1>4. \A i \in 1..N, q \in X : step[i][q] = Next1(q, i)
  OBVIOUS
<1>5. \E g \in [0..N -> X] : IsRun(g, N, none, step)
  <2> HIDE DEF step
  <2> QED
    BY <1>2, <1>3, RecursiveFunction
<1>6. \E g : g = Body(g)
  <2>1. PICK g \in [0..N -> X] : IsRun(g, N, none, step)
    BY <1>5
  <2>2. \A i \in 0..N : i # 0 => i \in 1..N /\ i - 1 \in 0..N
    BY <1>2
  <2> HIDE DEF step
  <2>3. g = Body(g)
    BY <1>4, <2>1, <2>2 DEF IsRun
  <2> QED
    BY <2>3
<1>7. on = Body(on)
  <2> HIDE DEF Body
  <2> QED
    BY <1>6
<1> HIDE DEF on
<1>8. on[0] = none /\ \A i \in 1..N : on[i] = Next1(on[i - 1], i)
  BY <1>2, <1>7
<1>9. \A i \in 0..N : on[i] \in X
  BY <1>2, <1>8, RecursiveValues
<1>10. N \in 0..N
  BY <1>2
<1> QED
  BY <1>1, <1>9, <1>10 DEF X


-----------------------------------------------------------------------------
(* What each step counts and lets go.                                      *)

Facts == TypeOK /\ Named /\ Made

\* What comment x is counted over what holds it.
Excess(x) == count[x] - HoldsOf(x)

SidesEven == \A x \in Comments : Excess(x)' = Excess(x)
SidesGain == \A x \in Comments : Excess(x)' >= Excess(x)

LEMMA HoldsAfter ==
  ASSUME NEW x
  PROVE  HoldsOf(x)' = OwnCount(owned', x) + RowCount(alive', row', x) + ParkCount(parked', written', x)
BY DEF HoldsOf, OwnCount, RowCount, ParkCount

LEMMA Finite == ASSUME Facts PROVE IsFiniteSet(alive) /\ IsFiniteSet(parked)
BY ParksFinite DEF Facts, TypeOK, Named

LEMMA HoldsTypes ==
  ASSUME Facts, NEW x \in Comments
  PROVE  /\ count[x] \in Nat /\ HoldsOf(x) \in Nat /\ Excess(x) \in Int
         /\ RowCount(alive, row, x) \in Nat /\ ParkCount(parked, written, x) \in Nat /\ OwnCount(owned, x) \in Nat
         /\ x # Nil
<1>1. IsFiniteSet(alive) /\ parked \subseteq 1..MaxWrites /\ count[x] \in Nat
  BY DEF Facts, TypeOK, Named
<1>2. IsFiniteSet(parked)
  BY <1>1, ParksFinite
<1>3. RowCount(alive, row, x) \in Nat /\ RowCount(parked, written, x) \in Nat
  BY <1>1, <1>2, RowType
<1>4. OwnCount(owned, x) \in Nat
  BY OwnOne
<1>5. HoldsOf(x) \in Nat
  BY <1>3, <1>4, HoldsSum, ParkIsRow
<1> QED
  BY <1>1, <1>2, <1>3, <1>4, <1>5, ParkIsRow, ConstantsType DEF Excess

\* A comment a park names is held.
LEMMA ParkedHolds ==
  ASSUME Facts, NEW o \in parked, written[o] \in Comments
  PROVE  HoldsOf(written[o]) >= 1
<1> DEFINE x == written[o]
<1>1. /\ RowCount(alive, row, x) \in Nat /\ ParkCount(parked, written, x) \in Nat /\ OwnCount(owned, x) \in Nat
  BY HoldsTypes
<1>2. ParkCount({o}, written, x) = 1
  BY ParkIsRow, RowOne
<1>3. RowCount(parked \ {o}, written, x) = RowCount(parked, written, x) - RowCount({o}, written, x)
  BY Finite, RowPart
<1>4. RowCount(parked \ {o}, written, x) \in Nat
  BY Finite, RowPart, RowType
<1>5. ParkCount(parked, written, x) >= 1
  BY <1>1, <1>2, <1>3, <1>4, ParkIsRow
<1> QED
  BY <1>1, <1>5, HoldsSum

\* So is one a row names.
LEMMA RowHolds ==
  ASSUME Facts, NEW h \in alive, row[h] \in Comments
  PROVE  HoldsOf(row[h]) >= 1
<1> DEFINE x == row[h]
<1>1. /\ RowCount(alive, row, x) \in Nat /\ ParkCount(parked, written, x) \in Nat /\ OwnCount(owned, x) \in Nat
  BY HoldsTypes
<1>2. RowCount({h}, row, x) = 1
  BY RowOne
<1>3. RowCount(alive \ {h}, row, x) = RowCount(alive, row, x) - RowCount({h}, row, x)
  BY Finite, RowPart
<1>4. RowCount(alive \ {h}, row, x) \in Nat
  BY Finite, RowPart, RowType
<1>5. RowCount(alive, row, x) >= 1
  BY <1>1, <1>2, <1>3, <1>4
<1> QED
  BY <1>1, <1>5, HoldsSum

LEMMA ReleaseEven ==
  ASSUME Facts, NEW hs, NEW cs, NEW os, hs \subseteq alive, cs \subseteq owned, os \subseteq parked, Release(hs, cs, os)
  PROVE  SidesEven
<1> SUFFICES ASSUME NEW x \in Comments PROVE Excess(x)' = Excess(x)
  BY DEF SidesEven
<1>1. count'[x] = count[x] - (RowCount(hs, row, x) + OwnCount(cs, x) + ParkCount(os, written, x))
  BY LetGoSum DEF Release, Minus
<1>2. OwnCount(owned', x) = OwnCount(owned, x) - OwnCount(cs, x) /\ OwnCount(cs, x) \in Nat
  BY OwnOne DEF Release
<1>3. /\ alive \subseteq Holders /\ row' = [h \in Holders |-> IF h \in hs THEN Nil ELSE row[h]] /\ alive' = alive \ hs
      /\ parked' = parked \ os /\ written' = written
  BY DEF Facts, TypeOK, Release, ParksLeft
<1>4. \A h \in alive \ hs : row'[h] = row[h]
  BY <1>3
<1>5. RowCount(alive', row', x) = RowCount(alive, row, x) - RowCount(hs, row, x)
  BY <1>3, <1>4, RowSame, RowPart, Finite
<1>6. ParkCount(parked', written', x) = ParkCount(parked, written, x) - ParkCount(os, written, x)
  BY <1>3, RowPart, ParkIsRow, Finite
<1>7. RowCount(hs, row, x) \in Nat /\ ParkCount(os, written, x) \in Nat
  <2>1. IsFiniteSet(hs) /\ IsFiniteSet(os)
    BY RowPart, Finite
  <2> QED
    BY <2>1, RowType, ParkIsRow
<1>8. HoldsOf(x) = OwnCount(owned, x) + RowCount(alive, row, x) + ParkCount(parked, written, x)
  BY HoldsSum
<1>9. HoldsOf(x)' = OwnCount(owned', x) + RowCount(alive', row', x) + ParkCount(parked', written', x)
  BY HoldsAfter
<1> QED
  BY <1>1, <1>2, <1>5, <1>6, <1>7, <1>8, <1>9, HoldsTypes DEF Excess

LEMMA BuildCommentEven ==
  ASSUME Facts, SidesCover, NEW c \in Comments, BuildComment(c)
  PROVE  SidesEven
<1> SUFFICES ASSUME NEW x \in Comments PROVE Excess(x)' = Excess(x)
  BY DEF SidesEven
<1>1. c \notin used /\ count[c] = 0 /\ c \notin owned
  BY DEF BuildComment, Mint, Facts, TypeOK, Named
<1>2. /\ count'[x] = IF x = c THEN 1 ELSE count[x]
      /\ owned' = owned \cup {c} /\ alive' = alive /\ row' = row /\ parked' = parked /\ written' = written
  BY DEF BuildComment, Facts, TypeOK, leaves
<1>3. OwnCount(owned', x) = OwnCount(owned, x) + (IF x = c THEN 1 ELSE 0)
  BY <1>1, <1>2, OwnOne
<1>8. HoldsOf(x) = OwnCount(owned, x) + RowCount(alive, row, x) + ParkCount(parked, written, x)
  BY HoldsSum
<1>9. HoldsOf(x)' = OwnCount(owned', x) + RowCount(alive', row', x) + ParkCount(parked', written', x)
  BY HoldsAfter
<1> QED
  BY <1>1, <1>2, <1>3, <1>8, <1>9, HoldsTypes DEF Excess

LEMMA EntryType ==
  ASSUME Facts, NEW o \in Nat, o <= Len(written)
  PROVE  Entry(o) \in Comments \cup {Nil} /\ (o # 0 => o \in 1..Len(written) /\ Entry(o) = written[o])
<1>1. Len(written) \in Nat /\ \A i \in 1..Len(written) : written[i] \in Comments \cup {Nil}
  BY DEF Facts, TypeOK
<1> QED
  BY <1>1 DEF Entry

LEMMA LeafObject ==
  ASSUME Facts, NEW l \in Leaves
  PROVE  /\ trivia[l] \in Nat /\ trivia[l] <= Len(written) /\ trivia[l] \in 0..MaxWrites
         /\ ParkedOf(l) \in {0, trivia[l]} /\ ParkedOf(l) \in Nat /\ ParkedOf(l) \in 0..MaxWrites
         /\ ParkedOf(l) # 0 => ParkedOf(l) \in parked
         /\ 0 \notin parked /\ Len(written) \in Nat
<1>1. trivia[l] \in 0..MaxWrites /\ parked \subseteq 1..MaxWrites /\ Len(written) \in Nat
  BY DEF Facts, TypeOK
<1> QED
  BY <1>1, ConstantsType DEF Facts, Made, ParkedOf

LEMMA BuildHolderEven ==
  ASSUME Facts, NEW h \in Holders, NEW l \in Leaves, BuildHolder(h, l)
  PROVE  SidesEven
<1> SUFFICES ASSUME NEW x \in Comments PROVE Excess(x)' = Excess(x)
  BY DEF SidesEven
<1> DEFINE c == Entry(trivia[l])
           p == GivenUp(l)
<1>1. p \in Nat /\ (p # 0 => p \in parked) /\ {p} \ {0} \subseteq parked /\ parked \ {p} = parked \ ({p} \ {0})
  BY LeafObject DEF GivenUp
<1>2. /\ count'[x] = (count[x] + (IF x = c THEN IF c \in owned THEN 0 ELSE 1 ELSE 0))
                       - (RowCount({}, row, x) + OwnCount({}, x) + ParkCount({p} \ {0}, written, x))
      /\ owned' = owned \ {c} /\ alive' = alive \cup {h} /\ h \notin used
      /\ row' = [row EXCEPT ![h] = c] /\ parked' = parked \ {p} /\ written' = written
  BY LetGoSum DEF BuildHolder, Mint, Plus, Minus, Held, Only
<1>3. h \notin alive
  BY <1>2 DEF Facts, Named
<1>4. row'[h] = c /\ \A k \in alive : row'[k] = row[k]
  BY <1>2, <1>3 DEF Facts, TypeOK
<1>5. RowCount(alive', row', x) = RowCount(alive, row, x) + (IF c = x THEN 1 ELSE 0)
  <2>1. RowCount(alive \cup {h}, row', x) = RowCount(alive, row, x) + (IF row'[h] = x THEN 1 ELSE 0)
    BY <1>3, <1>4, RowAdd, Finite
  <2> HIDE DEF c
  <2> QED
    BY <2>1, <1>2, <1>4
<1>6. ParkCount(parked', written', x) = ParkCount(parked, written, x) - ParkCount({p} \ {0}, written, x)
  <2> DEFINE os == {p} \ {0}
  <2>1. os \subseteq parked /\ parked' = parked \ os /\ written' = written
    BY <1>1, <1>2
  <2> HIDE DEF os
  <2>2. ParkCount(parked', written', x) = ParkCount(parked, written, x) - ParkCount(os, written, x)
    BY <2>1, RowPart, ParkIsRow, Finite
  <2> QED
    BY <2>2 DEF os
<1>7. /\ OwnCount(owned', x) = IF x \in owned /\ x # c THEN 1 ELSE 0
      /\ OwnCount(owned, x) = IF x \in owned THEN 1 ELSE 0
      /\ OwnCount({}, x) = 0 /\ RowCount({}, row, x) = 0
  BY <1>2, OwnOne, RowNone
<1>10. ParkCount({p} \ {0}, written, x) \in Nat
  BY <1>1, ParkOne
<1>8. HoldsOf(x) = OwnCount(owned, x) + RowCount(alive, row, x) + ParkCount(parked, written, x)
  BY HoldsSum
<1>9. HoldsOf(x)' = OwnCount(owned', x) + RowCount(alive', row', x) + ParkCount(parked', written', x)
  BY HoldsAfter
<1> HIDE DEF c, p
<1> QED
  BY <1>2, <1>5, <1>6, <1>7, <1>8, <1>9, <1>10, HoldsTypes DEF Excess


LEMMA UndoType ==
  ASSUME Facts, NEW j \in 1..Len(undos)
  PROVE  /\ undos[j].site \in BOOLEAN /\ undos[j].leaf \in Leaves
         /\ undos[j].next \in Nat /\ undos[j].parked \in Nat /\ undos[j].own \in Nat
         /\ undos[j].next \in 0..MaxWrites /\ undos[j].parked \in 0..MaxWrites /\ undos[j].own \in 0..MaxWrites
         /\ undos[j].next <= Len(written) /\ undos[j].parked <= Len(written) /\ undos[j].own <= Len(written)
         /\ IF undos[j].site THEN undos[j].next = 0 ELSE undos[j].own < undos[j].next
<1>1. undos \in Seq(Undo)
  BY DEF Facts, TypeOK
<1>2. undos[j] \in Undo
  BY <1>1, ElementOfSeq
<1> QED
  BY <1>2, ConstantsType DEF Undo, Facts, Made

LEMMA TopType ==
  ASSUME TypeOK, InScope
  PROVE  /\ Len(frames) \in 1..Len(frames) /\ Len(frames) \in Nat \ {0}
         /\ Top = frames[Len(frames)] /\ Top \in Frame /\ Top.minted \in Nat /\ Top.moved \in Nat /\ Top.undos \in Nat
         /\ Top.touched \in BOOLEAN
<1>1. frames \in Seq(Frame) /\ frames # <<>>
  BY DEF TypeOK, InScope
<1>2. Len(frames) \in Nat \ {0} /\ Len(frames) \in 1..Len(frames)
  BY <1>1, EmptySeq
<1>3. Top \in Frame
  BY <1>1, <1>2, ElementOfSeq DEF Top
<1> QED
  BY <1>2, <1>3 DEF Top, Frame

\* Where a rollback is.
LEMMA CallType ==
  ASSUME TypeOK, Scopes
  PROVE  /\ ~UserCode => InScope
         /\ call.op = "undo" => call.n \in Nat /\ Top.undos <= call.n /\ call.n <= Len(undos)
         /\ call.op = "giveback" => call.n \in Nat /\ Top.moved <= call.n /\ call.n <= Len(moved)
         /\ Len(undos) \in Nat /\ Len(moved) \in Nat /\ Len(minted) \in Nat
         /\ InScope => Top.minted <= Len(minted) /\ Top.moved <= Len(moved) /\ Top.undos <= Len(undos)
<1>1. Len(undos) \in Nat /\ Len(moved) \in Nat /\ Len(minted) \in Nat /\ call.n \in Nat
  BY DEF TypeOK
<1>2. ~UserCode => InScope
  BY DEF Scopes
<1>3. InScope => Top.undos \in Nat /\ Top.moved \in Nat /\ Within(Top, Len(minted), Len(moved), Len(undos))
  BY TopType DEF Scopes
<1> QED
  BY <1>1, <1>2, <1>3 DEF Scopes, Within, UserCode

\* The undo a rollback runs next.
LEMMA UndoNext ==
  ASSUME Facts, Scopes, UndoLast \/ UndoRefused
  PROVE  call.n \in 1..Len(undos) /\ InScope /\ ~UserCode
<1>1. call.op = "undo" /\ call.n > Top.undos
  BY DEF UndoLast, UndoRefused
<1>2. InScope /\ call.n \in Nat /\ call.n <= Len(undos) /\ Len(undos) \in Nat
  BY <1>1, CallType DEF Facts, UserCode
<1>3. Top.undos \in Nat
  BY <1>2, TopType DEF Facts
<1> QED
  BY <1>1, <1>2, <1>3 DEF UserCode

LEMMA UndoLastGain ==
  ASSUME Facts, Scopes, UndoLast
  PROVE  /\ SidesGain /\ (undos[call.n].parked \notin parked \ {undos[call.n].next} => SidesEven)
         /\ \A x \in Comments : Excess(x)' = Excess(x) \/ x = Entry(undos[call.n].parked)
<1> DEFINE u == undos[call.n]
           c == Entry(u.parked)
           left == parked \ {u.next}
           gone == {u.next} \cap parked
           p == u.parked
           more == p # 0 /\ p \in left
<1>0. call.n \in 1..Len(undos)
  BY UndoNext
<1>1. p \in Nat /\ p <= Len(written)
  BY <1>0, UndoType
<1> SUFFICES ASSUME NEW x \in Comments
             PROVE  Excess(x)' = Excess(x) + (IF more /\ x = c THEN 1 ELSE 0) /\ Excess(x) \in Int
  BY DEF SidesEven, SidesGain
<1>2. /\ count'[x] = (count[x] - (RowCount({}, row, x) + OwnCount({}, x) + ParkCount(gone, written, x)))
                       + (IF x = c THEN IF HoldMoves(c) THEN 0 ELSE 1 ELSE 0)
      /\ owned' = (IF HoldMoves(c) THEN owned \ {c} ELSE owned)
      /\ alive' = alive /\ row' = row /\ written' = written
  BY LetGoSum DEF UndoLast, ParksCounted, Dropped, Plus, Minus, Held, Only
<1>3. parked' = left \cup ({p} \ {0})
  BY DEF UndoLast, Reparked
<1>4. ParkCount(left, written, x) = ParkCount(parked, written, x) - ParkCount(gone, written, x)
  <2>1. gone \subseteq parked /\ left = parked \ gone
    OBVIOUS
  <2> HIDE DEF left, gone
  <2> QED
    BY <2>1, RowPart, ParkIsRow, Finite
<1>5. ParkCount(parked', written', x) = ParkCount(left, written, x) + (IF p # 0 /\ p \notin left /\ written[p] = x THEN 1 ELSE 0)
  <2>1. CASE p = 0 \/ p \in left
    <3>1. parked' = left
      BY <2>1, <1>3
    <3>2. ParkCount(left, written, x) \in Nat
      BY Finite, PartCount, RowType, ParkIsRow
    <3> HIDE DEF left, p
    <3> QED
      BY <2>1, <3>1, <3>2, <1>2
  <2>2. CASE p # 0 /\ p \notin left
    <3>1. parked' = left \cup {p}
      BY <2>2, <1>3
    <3>2. IsFiniteSet(left)
      BY Finite, PartCount
    <3> HIDE DEF left, p
    <3>3. ParkCount(left \cup {p}, written, x) = ParkCount(left, written, x) + (IF written[p] = x THEN 1 ELSE 0)
      BY <3>2, <2>2, ParkAdd
    <3> QED
      BY <2>2, <3>1, <3>3, <1>2
  <2> QED
    BY <2>1, <2>2
<1>6. /\ OwnCount(owned', x) = IF x \in owned /\ ~(HoldMoves(c) /\ x = c) THEN 1 ELSE 0
      /\ OwnCount(owned, x) = IF x \in owned THEN 1 ELSE 0
      /\ OwnCount({}, x) = 0 /\ RowCount({}, row, x) = 0
  BY <1>2, OwnOne, RowNone
<1>7. HoldMoves(c) => c \in owned
  BY DEF HoldMoves
<1>8. HoldsOf(x) = OwnCount(owned, x) + RowCount(alive, row, x) + ParkCount(parked, written, x)
  BY HoldsSum
<1>9. HoldsOf(x)' = OwnCount(owned', x) + RowCount(alive', row', x) + ParkCount(parked', written', x)
  BY HoldsAfter
<1>10. ParkCount(gone, written, x) \in Nat
  BY Finite, PartCount, RowType, ParkIsRow
<1>11. x = c <=> p # 0 /\ written[p] = x
  BY <1>1, EntryType, ConstantsType DEF Entry
<1>12. Excess(x) = count[x] - HoldsOf(x) /\ Excess(x)' = count'[x] - HoldsOf(x)'
  BY DEF Excess
<1> DEFINE new == IF p # 0 /\ p \notin left /\ written[p] = x THEN 1 ELSE 0
<1> HIDE DEF c, left, gone, p, u
<1>13. count'[x] = count[x] - ParkCount(gone, written, x) + (IF x = c THEN IF HoldMoves(c) THEN 0 ELSE 1 ELSE 0)
  BY <1>2, <1>6, <1>10, HoldsTypes
<1>14. HoldsOf(x)' = HoldsOf(x) - ParkCount(gone, written, x) + new - (IF HoldMoves(c) /\ x = c THEN 1 ELSE 0)
  <2>1. ParkCount(left, written, x) \in Nat
    BY <1>4, <1>10, HoldsTypes, Finite, PartCount, RowType, ParkIsRow DEF left
  <2>2. RowCount(alive', row', x) = RowCount(alive, row, x)
    BY <1>2
  <2>3. OwnCount(owned', x) = OwnCount(owned, x) - (IF HoldMoves(c) /\ x = c THEN 1 ELSE 0)
    BY <1>6, <1>7
  <2>4. new \in Nat /\ ParkCount(parked', written', x) = ParkCount(left, written, x) + new
    BY <1>5
  <2> HIDE DEF new
  <2> QED
    BY <1>4, <1>8, <1>9, <1>10, <2>1, <2>2, <2>3, <2>4, HoldsTypes
<1> QED
  BY <1>10, <1>11, <1>12, <1>13, <1>14, HoldsTypes

LEMMA GiveBackMovedGain ==
  ASSUME Facts, Scopes, GiveBackMoved
  PROVE  /\ call.n \in 1..Len(moved) /\ InScope /\ moved[call.n] \in Comments
         /\ SidesGain /\ (moved[call.n] \notin owned => SidesEven)
         /\ \A x \in Comments : Excess(x)' = Excess(x) \/ x = moved[call.n]
<1>0. call.op = "giveback" /\ call.n > Top.moved
  BY DEF GiveBackMoved
<1>1. InScope /\ call.n \in Nat /\ call.n <= Len(moved) /\ Len(moved) \in Nat
  BY <1>0, CallType DEF Facts, UserCode
<1>2. Top.moved \in Nat
  BY <1>1, TopType DEF Facts
<1>3. call.n \in 1..Len(moved)
  BY <1>0, <1>1, <1>2
<1> DEFINE c == moved[call.n]
<1>4. c \in Comments
  BY <1>3, ElementOfSeq DEF Facts, TypeOK
<1>5. ASSUME NEW x \in Comments
      PROVE  Excess(x)' = Excess(x) + (IF x = c /\ c \in owned THEN 1 ELSE 0) /\ Excess(x) \in Int
  <2>1. /\ count'[x] = count[x] + (IF x = c THEN 1 ELSE 0)
        /\ owned' = owned \cup {c} /\ alive' = alive /\ row' = row /\ parked' = parked /\ written' = written
    BY DEF GiveBackMoved, Plus, Only, leaves
  <2>2. /\ OwnCount(owned', x) = IF x \in owned \/ x = c THEN 1 ELSE 0
        /\ OwnCount(owned, x) = IF x \in owned THEN 1 ELSE 0
    BY <2>1, OwnOne
  <2>8. HoldsOf(x) = OwnCount(owned, x) + RowCount(alive, row, x) + ParkCount(parked, written, x)
    BY HoldsSum
  <2>9. HoldsOf(x)' = OwnCount(owned', x) + RowCount(alive', row', x) + ParkCount(parked', written', x)
    BY HoldsAfter
  <2> HIDE DEF c
  <2> QED
    BY <2>1, <2>2, <2>8, <2>9, HoldsTypes DEF Excess
<1> QED
  BY <1>1, <1>3, <1>4, <1>5 DEF SidesEven, SidesGain


\* A trivia object more changes none there was.
LEMMA WrittenMore ==
  ASSUME Facts, NEW c \in Comments \cup {Nil}, written' = Append(written, c)
  PROVE  /\ Len(written) \in Nat /\ Len(written') = Len(written) + 1 /\ written'[Len(written) + 1] = c
         /\ \A o \in 1..Len(written) : written'[o] = written[o]
         /\ written' \in Seq(Comments \cup {Nil})
         /\ Len(written) + 1 \notin parked /\ \A o \in parked : o \in 1..Len(written)
<1>1. written \in Seq(Comments \cup {Nil})
  BY DEF Facts, TypeOK
<1>2. parked \subseteq 1..Len(written) /\ Len(written) \in Nat
  BY <1>1 DEF Facts, Made, Objects
<1>3. \A i \in 1..Len(written) + 1 : Append(written, c)[i] = IF i = Len(written) + 1 THEN c ELSE written[i]
  BY <1>1, AppendSeq
<1>4. Append(written, c) \in Seq(Comments \cup {Nil}) /\ Len(Append(written, c)) = Len(written) + 1
  BY <1>1, AppendSeq
<1> HIDE DEF Facts
<1> QED
  BY <1>2, <1>3, <1>4

LEMMA WriteLeafEven ==
  ASSUME Facts, NEW l \in Leaves, NEW c \in Comments \cup {Nil}, WriteLeaf(l, c)
  PROVE  SidesEven
<1> SUFFICES ASSUME NEW x \in Comments PROVE Excess(x)' = Excess(x)
  BY DEF SidesEven
<1> DEFINE sites == Sites(l)
           has == sites # {}
           n == Cardinality(sites)
           stays == sites # {} /\ ~Kept(l)
           moves == sites = {} /\ HoldMoves(c)
           o == Len(written) + 1
           old == ParkedOf(l)
           os == IF stays THEN {} ELSE {old} \ {0}
           rows == IF x = c /\ has THEN n - 1 + (IF c \in owned THEN 0 ELSE 1) ELSE 0
           held == IF ~stays /\ x = c THEN IF moves THEN 0 ELSE 1 ELSE 0
<1>1. sites \subseteq alive /\ IsFiniteSet(sites) /\ alive \subseteq Holders
  <2>1. sites \subseteq alive /\ alive \subseteq Holders
    BY DEF Sites, Facts, TypeOK
  <2> HIDE DEF sites
  <2> QED
    BY <2>1, Finite, PartCount
<1>2. n \in Nat /\ (has => n >= 1)
  <2> HIDE DEF sites
  <2> QED
    BY <1>1, FS_CardinalityType, FS_EmptySet
<1>3. /\ Minus(Plus(Plus(count, [y \in Comments |-> IF y = c /\ sites # {} THEN n - 1 + Held(c, c \in owned /\ sites # {})[y] ELSE 0]),
                     IF stays THEN Only(c, 0) ELSE Held(c, moves)),
                IF stays THEN LetGo(sites, {}, {}) ELSE LetGo(sites, {}, {old} \ {0}))[x]
         = (count[x] + rows + held) - LetGo(sites, {}, os)[x]
      /\ count' = Minus(Plus(Plus(count, [y \in Comments |-> IF y = c /\ sites # {} THEN n - 1 + Held(c, c \in owned /\ sites # {})[y] ELSE 0]),
                     IF stays THEN Only(c, 0) ELSE Held(c, moves)),
                IF stays THEN LetGo(sites, {}, {}) ELSE LetGo(sites, {}, {old} \ {0}))
  <2>1. Held(c, c \in owned /\ sites # {})[x] = IF x = c THEN IF c \in owned /\ sites # {} THEN 0 ELSE 1 ELSE 0
    BY DEF Held, Only
  <2>2. (IF stays THEN Only(c, 0) ELSE Held(c, moves))[x] = held
    BY DEF Held, Only
  <2>3. (IF stays THEN LetGo(sites, {}, {}) ELSE LetGo(sites, {}, {old} \ {0}))[x] = LetGo(sites, {}, os)[x]
    OBVIOUS
  <2>4. (IF x = c /\ sites # {} THEN n - 1 + Held(c, c \in owned /\ sites # {})[x] ELSE 0) = rows
    BY <2>1
  <2>5. count' = Minus(Plus(Plus(count, [y \in Comments |-> IF y = c /\ sites # {} THEN n - 1 + Held(c, c \in owned /\ sites # {})[y] ELSE 0]),
                     IF stays THEN Only(c, 0) ELSE Held(c, moves)),
                IF stays THEN LetGo(sites, {}, {}) ELSE LetGo(sites, {}, {old} \ {0}))
    BY DEF WriteLeaf
  <2> HIDE DEF rows, held, stays, moves, os, sites, n, old
  <2> QED
    BY <2>2, <2>3, <2>4, <2>5 DEF Minus, Plus
<1>4. count'[x] = (count[x] + rows + held) - (RowCount(sites, row, x) + OwnCount({}, x) + ParkCount(os, written, x))
  <2> HIDE DEF rows, held, stays, moves, os, sites, n, old
  <2> QED
    BY <1>3, LetGoSum
<1>5. /\ owned' = (IF has \/ moves THEN owned \ {c} ELSE owned)
      /\ row' = [h \in Holders |-> IF h \in sites THEN c ELSE row[h]]
      /\ written' = Append(written, c) /\ alive' = alive
      /\ parked' = IF stays THEN parked ELSE (parked \ {old}) \cup {o}
  BY DEF WriteLeaf
<1>6. RowCount(alive', row', x) = RowCount(alive, row, x) - RowCount(sites, row, x) + (IF x = c THEN n ELSE 0)
  <2>1. Replaced(alive, sites, row, row', c)
    BY <1>1, <1>5 DEF Replaced
  <2>2. alive' = alive
    BY <1>5
  <2> HIDE DEF sites
  <2>3. RowCount(alive, row', x) = RowCount(alive, row, x) - RowCount(sites, row, x) + Naming(x, c, n)
    BY <2>1, <1>1, RowsSet, Finite
  <2> QED
    BY <2>2, <2>3 DEF Naming
<1>7. /\ \A k \in parked : written'[k] = written[k]
      /\ o \notin parked /\ written'[o] = c
  BY <1>5, WrittenMore
<1>8. ParkCount(parked', written', x) = ParkCount(parked, written, x) - ParkCount(os, written, x)
                                          + (IF ~stays /\ x = c THEN 1 ELSE 0)
  <2>1. CASE stays
    <3>1. ParkCount(parked, written', x) = ParkCount(parked, written, x)
      BY <1>7, RowSame, ParkIsRow
    <3>2. ParkCount(os, written, x) = 0 /\ parked' = parked
      BY <2>1, <1>5, ParkIsRow, RowNone
    <3> HIDE DEF stays, os
    <3> QED
      BY <2>1, <3>1, <3>2, HoldsTypes
  <2>2. CASE ~stays
    <3> DEFINE left == parked \ os
    <3>1. parked' = left \cup {o} /\ os \subseteq parked /\ os = {old} \ {0}
      BY <2>2, <1>5, LeafObject
    <3>2. IsFiniteSet(left) /\ o \notin left /\ \A k \in left : written'[k] = written[k]
      BY <1>7, Finite, PartCount
    <3> HIDE DEF stays, os, o, old
    <3>3. ParkCount(left, written, x) = ParkCount(parked, written, x) - ParkCount(os, written, x)
      BY <3>1, RowPart, ParkIsRow, Finite
    <3> HIDE DEF left
    <3>4. ParkCount(left, written', x) = ParkCount(left, written, x)
      BY <3>2, RowSame, ParkIsRow
    <3>5. ParkCount(left \cup {o}, written', x) = ParkCount(left, written', x) + (IF written'[o] = x THEN 1 ELSE 0)
      BY SMTT(30), <3>2, ParkAdd
    <3>6. ParkCount(parked', written', x) = ParkCount(left, written, x) + (IF written'[o] = x THEN 1 ELSE 0)
      BY <3>1, <3>4, <3>5
    <3>7. IsFiniteSet(os)
      BY <3>1, Finite, PartCount
    <3>8. ParkCount(os, written, x) \in Nat /\ ParkCount(left, written, x) \in Nat
      BY <3>2, <3>7, RowType, ParkIsRow
    <3> QED
      BY <2>2, <3>3, <3>6, <3>8, <1>7, HoldsTypes
  <2> QED
    BY <2>1, <2>2
<1>9. /\ OwnCount(owned, x) = IF x \in owned THEN 1 ELSE 0
      /\ OwnCount({}, x) = 0 /\ OwnCount(owned', x) = IF x \in owned /\ ~((has \/ moves) /\ x = c) THEN 1 ELSE 0
  BY <1>5, OwnOne
<1>10. ParkCount(os, written, x) \in Nat /\ RowCount(sites, row, x) \in Nat
  <2>1. os \subseteq parked
    BY LeafObject
  <2>2. IsFiniteSet(os)
    BY <2>1, Finite, PartCount
  <2> QED
    BY <1>1, <2>2, RowType, ParkIsRow
<1>11. HoldsOf(x) = OwnCount(owned, x) + RowCount(alive, row, x) + ParkCount(parked, written, x)
  BY HoldsSum
<1>12. HoldsOf(x)' = OwnCount(owned', x) + RowCount(alive', row', x) + ParkCount(parked', written', x)
  BY HoldsAfter
<1>13. (moves => c \in owned /\ ~has) /\ (stays => has)
  BY DEF HoldMoves
<1> HIDE DEF stays, moves, os, sites, n, old, has, o
<1>14. CASE x # c
  <2>1. rows = 0 /\ held = 0
    BY <1>14
  <2> HIDE DEF rows, held
  <2> QED
    BY <1>14, <2>1, <1>2, <1>4, <1>6, <1>8, <1>9, <1>10, <1>11, <1>12, HoldsTypes DEF Excess
<1>15. CASE x = c
  <2>1. rows = (IF has THEN n - 1 + (IF c \in owned THEN 0 ELSE 1) ELSE 0) /\ (~has => n = 0)
    BY <1>15, FS_EmptySet DEF n, has
  <2>2. held = IF stays THEN 0 ELSE IF moves THEN 0 ELSE 1
    BY <1>15
  <2> HIDE DEF rows, held
  <2> QED
    BY <1>15, <2>1, <2>2, <1>2, <1>4, <1>6, <1>8, <1>9, <1>10, <1>11, <1>12, <1>13, HoldsTypes DEF Excess
<1> QED
  BY <1>14, <1>15


LEMMA WriteSiteEven ==
  ASSUME Facts, NEW h \in Holders, NEW c \in Comments \cup {Nil}, WriteSite(h, c)
  PROVE  SidesEven
<1> SUFFICES ASSUME NEW x \in Comments PROVE Excess(x)' = Excess(x)
  BY DEF SidesEven
<1>1. /\ count'[x] = (count[x] + (IF x = c THEN IF c \in owned THEN 0 ELSE 1 ELSE 0))
                       - (RowCount({h}, row, x) + OwnCount({}, x) + ParkCount({}, written, x))
      /\ owned' = owned \ {c} /\ alive' = alive /\ h \in alive
      /\ row' = [row EXCEPT ![h] = c] /\ parked' = parked /\ written' = written
  BY LetGoSum DEF WriteSite, Plus, Minus, Held, Only, leaves
<1>2. RowCount(alive', row', x) = RowCount(alive, row, x) - RowCount({h}, row, x) + (IF x = c THEN 1 ELSE 0)
  <2> DEFINE hs == {h}
  <2>1. Replaced(alive, hs, row, row', c) /\ hs \subseteq alive
    BY <1>1 DEF Replaced, Facts, TypeOK
  <2>2. Cardinality(hs) = 1
    BY FS_Singleton
  <2>3. alive' = alive
    BY <1>1
  <2> HIDE DEF hs
  <2>4. RowCount(alive, row', x) = RowCount(alive, row, x) - RowCount(hs, row, x) + Naming(x, c, Cardinality(hs))
    BY <2>1, RowsSet, Finite
  <2> QED
    BY <2>2, <2>3, <2>4 DEF hs, Naming
<1>3. /\ OwnCount(owned', x) = IF x \in owned /\ x # c THEN 1 ELSE 0
      /\ OwnCount(owned, x) = IF x \in owned THEN 1 ELSE 0
      /\ OwnCount({}, x) = 0 /\ ParkCount({}, written, x) = 0
  BY <1>1, OwnOne, RowNone, ParkIsRow
<1>4. RowCount({h}, row, x) \in Nat
  BY RowOne
<1>8. HoldsOf(x) = OwnCount(owned, x) + RowCount(alive, row, x) + ParkCount(parked, written, x)
  BY HoldsSum
<1>9. HoldsOf(x)' = OwnCount(owned', x) + RowCount(alive', row', x) + ParkCount(parked', written', x)
  BY HoldsAfter
<1> QED
  BY <1>1, <1>2, <1>3, <1>4, <1>8, <1>9, HoldsTypes DEF Excess

LEMMA KeepCommentEven ==
  ASSUME Facts, NEW i, NEW c \in Comments, KeepComment(i, c)
  PROVE  SidesEven
<1> SUFFICES ASSUME NEW x \in Comments PROVE Excess(x)' = Excess(x)
  BY DEF SidesEven
<1>1. /\ count'[x] = count[x] + (IF x = c /\ c \notin owned THEN 1 ELSE 0)
      /\ owned' = owned \cup {c} /\ alive' = alive /\ row' = row /\ parked' = parked /\ written' = written
  BY HoldsTypes DEF KeepComment, Plus, Only, leaves
<1>3. /\ OwnCount(owned', x) = IF x \in owned \/ x = c THEN 1 ELSE 0
      /\ OwnCount(owned, x) = IF x \in owned THEN 1 ELSE 0
  BY <1>1, OwnOne
<1>8. HoldsOf(x) = OwnCount(owned, x) + RowCount(alive, row, x) + ParkCount(parked, written, x)
  BY HoldsSum
<1>9. HoldsOf(x)' = OwnCount(owned', x) + RowCount(alive', row', x) + ParkCount(parked', written', x)
  BY HoldsAfter
<1> QED
  BY <1>1, <1>3, <1>8, <1>9, HoldsTypes DEF Excess

LEMMA KeepLeafEven ==
  ASSUME Facts, NEW i, NEW l \in Leaves, KeepLeaf(i, l)
  PROVE  SidesEven
<1> SUFFICES ASSUME NEW x \in Comments PROVE Excess(x)' = Excess(x)
  BY DEF SidesEven
<1>8. HoldsOf(x) = OwnCount(owned, x) + RowCount(alive, row, x) + ParkCount(parked, written, x)
  BY HoldsSum
<1>9. HoldsOf(x)' = OwnCount(owned', x) + RowCount(alive', row', x) + ParkCount(parked', written', x)
  BY HoldsAfter
<1>1. CASE Unparked(l)
  <2> DEFINE o == trivia[l]
             c == Entry(o)
  <2>1. o # 0 /\ o \notin parked /\ o \in Nat /\ o <= Len(written)
    BY <1>1, LeafObject DEF Unparked, ParkedOf
  <2>2. /\ count'[x] = count[x] + (IF x = c THEN IF HoldMoves(c) THEN 0 ELSE 1 ELSE 0)
        /\ owned' = (IF HoldMoves(c) THEN owned \ {c} ELSE owned)
        /\ alive' = alive /\ row' = row /\ parked' = parked \cup {o} /\ written' = written
    BY <1>1 DEF KeepLeaf, Plus, Held, Only
  <2>3. /\ OwnCount(owned', x) = IF x \in owned /\ ~(HoldMoves(c) /\ x = c) THEN 1 ELSE 0
        /\ OwnCount(owned, x) = IF x \in owned THEN 1 ELSE 0
    BY <2>2, OwnOne
  <2>4. written[o] = c
    BY <2>1, EntryType
  <2>5. HoldMoves(c) => c \in owned
    BY DEF HoldMoves
  <2> HIDE DEF o, c
  <2>6. ParkCount(parked \cup {o}, written, x) = ParkCount(parked, written, x) + (IF written[o] = x THEN 1 ELSE 0)
    BY <2>1, ParkAdd, Finite
  <2> QED
    BY <2>2, <2>3, <2>4, <2>5, <2>6, <1>8, <1>9, HoldsTypes DEF Excess
<1>2. CASE ~Unparked(l)
  <2>1. count' = count /\ owned' = owned /\ alive' = alive /\ row' = row /\ parked' = parked /\ written' = written
    BY <1>2 DEF KeepLeaf
  <2> QED
    BY <2>1, <1>8, <1>9, HoldsTypes DEF Excess
<1> QED
  BY <1>1, <1>2

\* A step that leaves the counts and what they count alone.
Uncounted == UNCHANGED <<count, owned, alive, row, written, parked>>

LEMMA UncountedEven == ASSUME Facts, Uncounted PROVE SidesEven
BY HoldsSum, HoldsAfter DEF Uncounted, SidesEven, Excess

\* An undo that is refused gives up what the write parked, and its count.
LEMMA UndoRefusedEven ==
  ASSUME Facts, UndoRefused
  PROVE  SidesEven
<1> DEFINE u == undos[call.n]
           left == parked \ {u.next}
           gone == {u.next} \cap parked
<1> SUFFICES ASSUME NEW x \in Comments
             PROVE  Excess(x)' = Excess(x)
  BY DEF SidesEven
<1>1. /\ count'[x] = count[x] - (RowCount({}, row, x) + OwnCount({}, x) + ParkCount(gone, written, x))
      /\ owned' = owned /\ alive' = alive /\ row' = row /\ written' = written /\ parked' = left
  BY LetGoSum DEF UndoRefused, Dropped, Minus
<1>2. ParkCount(left, written, x) = ParkCount(parked, written, x) - ParkCount(gone, written, x)
  <2>1. gone \subseteq parked /\ left = parked \ gone
    OBVIOUS
  <2> HIDE DEF left, gone
  <2> QED
    BY <2>1, RowPart, ParkIsRow, Finite
<1>3. ParkCount(gone, written, x) \in Nat
  <2>1. gone \subseteq parked
    OBVIOUS
  <2> HIDE DEF gone
  <2> QED
    BY <2>1, Finite, PartCount, RowType, ParkIsRow
<1>4. OwnCount({}, x) = 0 /\ RowCount({}, row, x) = 0
  BY OwnOne, RowNone
<1>5. HoldsOf(x) = OwnCount(owned, x) + RowCount(alive, row, x) + ParkCount(parked, written, x)
  BY HoldsSum
<1>6. HoldsOf(x)' = OwnCount(owned', x) + RowCount(alive', row', x) + ParkCount(parked', written', x)
  BY HoldsAfter
<1> HIDE DEF u, left, gone
<1> QED
  BY <1>1, <1>2, <1>3, <1>4, <1>5, <1>6, HoldsTypes DEF Excess

\* What a rollback and a close release.
LEMMA FreeMintedReleases ==
  ASSUME Facts, FreeMinted
  PROVE  \E hs, cs : hs \subseteq alive /\ cs \subseteq owned /\ Release(hs, cs, {})
<1> DEFINE made == {minted[i] : i \in Top.minted + 1..Len(minted)}
<1>1. Release(made \cap alive, made \cap owned, {})
  BY DEF FreeMinted
<1> HIDE DEF made
<1>2. made \cap alive \subseteq alive /\ made \cap owned \subseteq owned
  OBVIOUS
<1> QED
  BY <1>1, <1>2

\* The leaves a close releases, and the parks they give up.
GoneLeaves == {l \in {listed[i] : i \in commits[Len(commits)].listed + 1..Len(listed)} : ~Kept(l)}
GoneParks == {ParkedOf(l) : l \in GoneLeaves} \ {0}

LEMMA CloseCommitReleases ==
  ASSUME TypeOK, Marks, CloseCommit
  PROVE  /\ \E hs, cs : hs \subseteq alive /\ cs \subseteq owned /\ Release(hs, cs, GoneParks)
         /\ GoneLeaves \subseteq Leaves
         /\ \A o \in GoneParks : o \in parked /\ \E l \in GoneLeaves : o = ParkedOf(l) /\ o = trivia[l]
<1> DEFINE mark == commits[Len(commits)]
           made == {x \in {minted[i] : i \in mark.minted + 1..Len(minted)} : ~Kept(x)}
<1>1. Release(made \cap alive, made \cap owned, GoneParks)
  BY DEF CloseCommit, GoneParks, GoneLeaves
<1> HIDE DEF made, mark
<1>2. made \cap alive \subseteq alive /\ made \cap owned \subseteq owned
  OBVIOUS
<1>3. commits \in Seq(Mark) /\ commits # <<>> /\ listed \in Seq(Leaves)
  BY DEF CloseCommit, TypeOK
<1>4. Len(commits) \in 1..Len(commits)
  BY <1>3, EmptySeq
<1>5. commits[Len(commits)].listed \in Nat
  <2>1. commits[Len(commits)] \in Mark
    BY <1>3, <1>4, ElementOfSeq
  <2> QED
    BY <2>1 DEF Mark
<1>6. \A i \in commits[Len(commits)].listed + 1..Len(listed) : listed[i] \in Leaves
  BY <1>3, <1>5
<1>7. GoneLeaves \subseteq Leaves
  BY <1>6 DEF GoneLeaves
<1>8. \A o \in GoneParks : o \in parked /\ \E l \in GoneLeaves : o = ParkedOf(l) /\ o = trivia[l]
  BY DEF GoneParks, ParkedOf
<1> QED
  BY <1>1, <1>2, <1>7, <1>8


LEMMA EvenGains == ASSUME Facts, SidesEven PROVE SidesGain
BY HoldsTypes DEF SidesEven, SidesGain

LEMMA TouchesEven ==
  ASSUME Facts, Scopes, Marks, SidesCover, Next, ~UndoLast, ~GiveBackMoved
  PROVE  SidesEven
<1>1. CASE InterceptBuild
  BY <1>1, UncountedEven DEF InterceptBuild, Uncounted, store, leaves
<1>2. CASE FinishBuild
  BY <1>2, UncountedEven DEF FinishBuild, Uncounted, store, leaves
<1>3. CASE Throw
  BY <1>3, UncountedEven DEF Throw, Uncounted, store, leaves
<1>4. CASE Undone
  BY <1>4, UncountedEven DEF Undone, Uncounted, store, leaves
<1>5. CASE GiveBackRefused
  BY <1>5, UncountedEven DEF GiveBackRefused, Uncounted, store, leaves
<1>6. CASE FreeMinted
  BY <1>6, FreeMintedReleases, ReleaseEven
<1>7. ASSUME NEW c \in Comments, BuildComment(c) \/ ReleaseComment(c) PROVE SidesEven
  <2>1. CASE BuildComment(c)
    BY <2>1, BuildCommentEven
  <2>2. CASE ReleaseComment(c)
    <3>1. {c} \subseteq owned /\ Release({}, {c}, {})
      BY <2>2 DEF ReleaseComment
    <3> QED
      BY <3>1, ReleaseEven
  <2> QED
    BY <1>7, <2>1, <2>2
<1>8. ASSUME NEW h \in Holders, NEW l \in Leaves, BuildHolder(h, l) PROVE SidesEven
  BY <1>8, BuildHolderEven
<1>9. ASSUME NEW l \in Leaves, NEW c \in Comments \cup {Nil}, WriteLeaf(l, c) PROVE SidesEven
  BY <1>9, WriteLeafEven
<1>10. ASSUME NEW h \in Holders, NEW c \in Comments \cup {Nil}, WriteSite(h, c) PROVE SidesEven
  BY <1>10, WriteSiteEven
<1>11. ASSUME NEW h \in Holders, ReleaseHolder(h) PROVE SidesEven
  <2>1. {h} \subseteq alive /\ Release({h}, {}, {})
    BY <1>11 DEF ReleaseHolder
  <2> QED
    BY <2>1, ReleaseEven
<1>12. ASSUME NEW l \in Leaves, ReleaseLeaf(l) PROVE SidesEven
  <2>1. {ParkedOf(l)} \subseteq parked /\ Release({}, {}, {ParkedOf(l)})
    BY <1>12, LeafObject DEF ReleaseLeaf
  <2> QED
    BY <2>1, ReleaseEven
<1>13. CASE OpenCommit
  BY <1>13, UncountedEven DEF OpenCommit, Uncounted, store, leaves
<1>14. CASE CloseCommit
  <2>1. GoneParks \subseteq parked /\ \E hs, cs : hs \subseteq alive /\ cs \subseteq owned /\ Release(hs, cs, GoneParks)
    BY <1>14, CloseCommitReleases DEF Facts
  <2> QED
    BY <2>1, ReleaseEven
<1>15. ASSUME NEW i \in 1..MaxCommits, NEW c \in Comments, KeepComment(i, c) PROVE SidesEven
  BY <1>15, KeepCommentEven
<1>16. ASSUME NEW i \in 1..MaxCommits, NEW l \in Leaves, KeepLeaf(i, l) PROVE SidesEven
  BY <1>16, KeepLeafEven
<1>17. CASE UndoRefused
  BY <1>17, UndoRefusedEven
<1> QED
  BY <1>1, <1>2, <1>3, <1>4, <1>5, <1>6, <1>7, <1>8, <1>9, <1>10, <1>11, <1>12, <1>13, <1>14, <1>15, <1>16, <1>17
  DEF Next

\* No step spends a count twice, and none of an unharmed build loses one.
LEMMA NextGain ==
  ASSUME Facts, Scopes, Marks, SidesCover, Next
  PROVE  SidesGain
<1>1. CASE UndoLast
  BY <1>1, UndoLastGain
<1>2. CASE GiveBackMoved
  BY <1>2, GiveBackMovedGain
<1>3. CASE ~UndoLast /\ ~GiveBackMoved
  BY <1>3, TouchesEven, EvenGains
<1> QED
  BY <1>1, <1>2, <1>3

\* The scope a rollback undoes, while no throw was of a build whose interceptor did more.
LEMMA RollbackFacts ==
  ASSUME TypeOK, Scopes, Rollbacks, Unspent, ~UserCode
  PROVE  /\ InScope
         /\ tainted = 0 => Giving /\ Unmoved(Top) /\ Untouched(Top)
<1>1. InScope /\ Len(frames) \in 1..Len(frames) /\ Top = frames[Len(frames)]
  BY CallType, TopType
<1>2. ASSUME tainted = 0 PROVE Giving /\ Unmoved(Top) /\ Untouched(Top)
  <2>1. Giving
    BY <1>2 DEF Unspent
  <2> QED
    BY <1>1, <1>2, <2>1 DEF Unspent, Rollbacks, Giving
<1> QED
  BY <1>1, <1>2

LEMMA NextEven ==
  ASSUME Facts, Scopes, Marks, SidesCover, Rollbacks, Unspent, Next, tainted = 0
  PROVE  SidesEven
<1>1. CASE UndoLast
  <2>1. ~UserCode /\ call.op = "undo" /\ call.n \in Nat /\ call.n > Top.undos
    BY <1>1, UndoNext, CallType DEF UndoLast, Facts
  <2>2. InScope /\ Unmoved(Top)
    BY <2>1, RollbackFacts DEF Facts
  <2>3. Top.undos \in Nat /\ Ahead = call.n
    BY <2>1, <2>2, TopType DEF Ahead, Facts
  <2>4. call.n \in Top.undos + 1..Ahead
    BY <2>1, <2>3
  <2>5. undos[call.n].parked \notin parked
    BY <2>2, <2>4 DEF Unmoved
  <2> QED
    BY <1>1, <2>5, UndoLastGain
<1>2. CASE GiveBackMoved
  <2>1. call.op = "giveback" /\ call.n > Top.moved /\ InScope /\ call.n \in 1..Len(moved)
    BY <1>2, GiveBackMovedGain DEF GiveBackMoved
  <2>2. Giving
    BY <2>1, RollbackFacts DEF Facts, UserCode
  <2>3. Top.moved \in Nat
    BY <2>1, TopType DEF Facts
  <2>4. call.n \in Owed
    BY <2>1, <2>3 DEF Owed
  <2>5. moved[call.n] \notin owned
    BY <2>2, <2>4 DEF Giving
  <2> QED
    BY <1>2, <2>5, GiveBackMovedGain
<1>3. CASE ~UndoLast /\ ~GiveBackMoved
  BY <1>3, TouchesEven
<1> QED
  BY <1>1, <1>2, <1>3


-----------------------------------------------------------------------------
(* Types.                                                                  *)

\* The types of all but the counts, which no step makes less than what they count.
StoreTypes ==
  /\ owned \in SUBSET Comments
  /\ used \in SUBSET (Comments \cup Holders) /\ alive \in SUBSET Holders
  /\ leafAt \in [Holders -> Leaves \cup {Nil}]
  /\ row \in [Holders -> Comments \cup {Nil}]

LeafTypes ==
  /\ written \in Seq(Comments \cup {Nil}) /\ Len(written) <= MaxWrites
  /\ trivia \in [Leaves -> 0..MaxWrites] /\ parked \in SUBSET (1..MaxWrites)
  /\ loose \in SUBSET (1..MaxWrites)

ListTypes ==
  /\ minted \in Seq(Comments \cup Holders) /\ moved \in Seq(Comments)
  /\ undos \in Seq(Undo) /\ listed \in Seq(Leaves)

ScopeTypes ==
  /\ frames \in Seq(Frame) /\ commits \in Seq(Mark)
  /\ call \in [op: {"none", "undo", "giveback", "free"}, n: Nat]
  /\ tainted \in Nat

CountTypes == count \in [Comments -> Int] /\ IsFiniteSet(alive)

LEMMA TypeParts ==
  /\ TypeOK <=> count \in [Comments -> Nat] /\ StoreTypes /\ LeafTypes /\ ListTypes /\ ScopeTypes
  /\ TypeOK' <=> count' \in [Comments -> Nat] /\ StoreTypes' /\ LeafTypes' /\ ListTypes' /\ ScopeTypes'
BY DEF TypeOK, StoreTypes, LeafTypes, ListTypes, ScopeTypes

LEMMA SumsTyped ==
  ASSUME NEW f \in [Comments -> Int], NEW g \in [Comments -> Int]
  PROVE  Plus(f, g) \in [Comments -> Int] /\ Minus(f, g) \in [Comments -> Int]
BY DEF Plus, Minus

LEMMA HeldTyped ==
  /\ \A c, m : Held(c, m) \in [Comments -> Int]
  /\ \A c : Only(c, 0) \in [Comments -> Int] /\ Only(c, 1) \in [Comments -> Int]
BY DEF Held, Only

LEMMA LetGoTyped ==
  ASSUME Facts, NEW hs, NEW cs, NEW os, hs \subseteq alive, os \subseteq parked
  PROVE  LetGo(hs, cs, os) \in [Comments -> Int]
<1> SUFFICES ASSUME NEW x \in Comments PROVE LetGo(hs, cs, os)[x] \in Int
  BY DEF LetGo
<1>1. IsFiniteSet(hs) /\ IsFiniteSet(os)
  BY Finite, PartCount
<1>2. RowCount(hs, row, x) \in Nat /\ ParkCount(os, written, x) \in Nat
  BY <1>1, RowType, ParkIsRow
<1>3. OwnCount(cs, x) \in Nat
  BY OwnOne
<1> QED
  BY <1>2, <1>3, LetGoSum

LEMMA CountTyped == ASSUME Facts PROVE count \in [Comments -> Int] /\ IsFiniteSet(alive)
BY DEF Facts, TypeOK, Named

LEMMA ReleaseTypes ==
  ASSUME Facts, NEW hs, NEW cs, NEW os, hs \subseteq alive, os \subseteq parked, Release(hs, cs, os), UNCHANGED trivia
  PROVE  CountTypes' /\ StoreTypes' /\ LeafTypes'
<1>1. count' \in [Comments -> Int]
  BY CountTyped, LetGoTyped, SumsTyped DEF Release
<1>2. IsFiniteSet(alive')
  BY Finite, PartCount DEF Release
<1>3. StoreTypes'
  BY TypeParts DEF Facts, StoreTypes, Release
<1>4. LeafTypes'
  BY TypeParts DEF Facts, LeafTypes, Release, ParksLeft
<1> QED
  BY <1>1, <1>2, <1>3, <1>4 DEF CountTypes

\* User code that did more than build.
Touched == Touch \/ Stray

\* A scope in which user code did, and one in which it did what has no undo.
TouchOf(f) == [f EXCEPT !.touched = TRUE]
StrayOf(f) == [f EXCEPT !.touched = TRUE, !.strayed = TRUE, !.trivia = [l \in Leaves |-> 0], !.parked = {}]

LEMMA TouchOfFacts ==
  ASSUME NEW f \in Frame
  PROVE  /\ TouchOf(f) \in Frame /\ TouchOf(f).minted = f.minted /\ TouchOf(f).moved = f.moved
         /\ TouchOf(f).undos = f.undos /\ TouchOf(f).touched
         /\ TouchOf(f).strayed = f.strayed /\ TouchOf(f).trivia = f.trivia /\ TouchOf(f).parked = f.parked
<1> DEFINE T == [Leaves -> 0..MaxWrites]
           P == SUBSET (1..MaxWrites)
<1>1. f \in [minted: Nat, moved: Nat, undos: Nat, touched: BOOLEAN, strayed: BOOLEAN, trivia: T, parked: P]
  BY DEF Frame
<1>2. Frame = [minted: Nat, moved: Nat, undos: Nat, touched: BOOLEAN, strayed: BOOLEAN, trivia: T, parked: P]
  BY DEF Frame
<1> HIDE DEF T, P
<1> QED
  BY <1>1, <1>2 DEF TouchOf

LEMMA StrayOfFacts ==
  ASSUME NEW f \in Frame
  PROVE  /\ StrayOf(f) \in Frame /\ StrayOf(f).minted = f.minted /\ StrayOf(f).moved = f.moved
         /\ StrayOf(f).undos = f.undos /\ StrayOf(f).touched /\ StrayOf(f).strayed
<1> DEFINE none == [l \in Leaves |-> 0]
           T == [Leaves -> 0..MaxWrites]
           P == SUBSET (1..MaxWrites)
           e == {}
<1>1. none \in T /\ e \in P
  BY ConstantsType
<1>2. Frame = [minted: Nat, moved: Nat, undos: Nat, touched: BOOLEAN, strayed: BOOLEAN, trivia: T, parked: P]
  BY DEF Frame
<1>3. StrayOf(f) = [f EXCEPT !.touched = TRUE, !.strayed = TRUE, !.trivia = none, !.parked = e]
  BY DEF StrayOf
<1> HIDE DEF none, T, P, e
<1>4. f \in [minted: Nat, moved: Nat, undos: Nat, touched: BOOLEAN, strayed: BOOLEAN, trivia: T, parked: P]
  BY <1>2
<1> QED
  BY <1>1, <1>2, <1>3, <1>4

LEMMA TouchFacts ==
  ASSUME TypeOK, Touched
  PROVE  /\ frames' \in Seq(Frame) /\ Len(frames') = Len(frames) /\ Len(frames) \in Nat
         /\ (frames' # <<>>) <=> InScope
         /\ \A i \in 1..Len(frames) :
              /\ frames'[i].minted = frames[i].minted /\ frames'[i].moved = frames[i].moved
              /\ frames'[i].undos = frames[i].undos /\ frames'[i].touched
              /\ \/ frames'[i].strayed
                 \/ /\ frames'[i].strayed = frames[i].strayed /\ frames'[i].trivia = frames[i].trivia
                    /\ frames'[i].parked = frames[i].parked
         /\ Stray => \A i \in 1..Len(frames) : frames'[i].strayed
<1>1. frames \in Seq(Frame) /\ Len(frames) \in Nat /\ \A i \in 1..Len(frames) : frames[i] \in Frame
  BY DEF TypeOK
<1>2. ASSUME frames' \in [1..Len(frames) -> Frame]
      PROVE  frames' \in Seq(Frame) /\ Len(frames') = Len(frames) /\ ((frames' # <<>>) <=> InScope)
  <2>1. frames' \in Seq(Frame) /\ Len(frames') = Len(frames)
    BY <1>1, <1>2
  <2> QED
    BY <1>1, <2>1, EmptySeq DEF InScope
<1>3. CASE Stray
  <2>1. frames' = [i \in 1..Len(frames) |-> StrayOf(frames[i])]
    BY <1>3 DEF Stray, StrayOf
  <2>2. \A i \in 1..Len(frames) : frames'[i] = StrayOf(frames[i]) /\ frames[i] \in Frame
    BY <1>1, <2>1
  <2>3. frames' \in [1..Len(frames) -> Frame]
    BY <1>1, <2>1, StrayOfFacts
  <2> QED
    BY <1>1, <1>2, <2>2, <2>3, StrayOfFacts
<1>4. CASE Touch /\ ~Stray
  <2>1. frames' = [i \in 1..Len(frames) |-> TouchOf(frames[i])]
    BY <1>4 DEF Touch, TouchOf
  <2>2. \A i \in 1..Len(frames) : frames'[i] = TouchOf(frames[i]) /\ frames[i] \in Frame
    BY <1>1, <2>1
  <2>3. frames' \in [1..Len(frames) -> Frame]
    BY <1>1, <2>1, TouchOfFacts
  <2> QED
    BY <1>1, <1>2, <1>4, <2>2, <2>3, TouchOfFacts
<1> QED
  BY <1>3, <1>4 DEF Touched

\* The end of a scope.
LEMMA EndScopeFacts ==
  ASSUME TypeOK, InScope, NEW m, NEW v, NEW u, EndScope(m, v, u)
  PROVE  /\ frames' \in Seq(Frame) /\ Len(frames') = Len(frames) - 1 /\ Len(frames) \in Nat \ {0}
         /\ \A i \in 1..Len(frames') : frames'[i] = frames[i] /\ i \in 1..Len(frames)
         /\ minted' \in {<<>>, m} /\ moved' \in {<<>>, v} /\ undos' \in {<<>>, u}
         /\ frames' # <<>> => minted' = m /\ moved' = v /\ undos' = u
         /\ commits # <<>> => minted' = m
<1>1. frames \in Seq(Frame) /\ Len(frames) \in Nat \ {0}
  BY EmptySeq DEF TypeOK, InScope
<1>2. frames' = SubSeq(frames, 1, Len(frames) - 1)
  BY DEF EndScope, Outer
<1>3. /\ SubSeq(frames, 1, Len(frames) - 1) \in Seq(Frame)
      /\ Len(SubSeq(frames, 1, Len(frames) - 1)) = Len(frames) - 1
      /\ \A i \in 1..Len(frames) - 1 : SubSeq(frames, 1, Len(frames) - 1)[i] = frames[i]
  <2> DEFINE n == Len(frames) - 1
  <2>1. n \in Nat /\ n <= Len(frames)
    BY <1>1
  <2> HIDE DEF n
  <2>2. /\ SubSeq(frames, 1, n) \in Seq(Frame) /\ Len(SubSeq(frames, 1, n)) = n
        /\ \A i \in 1..n : SubSeq(frames, 1, n)[i] = frames[i]
    BY <1>1, <2>1, CutSeq
  <2> QED
    BY <2>2 DEF n
<1> QED
  BY <1>1, <1>2, <1>3 DEF EndScope, Outer

\* A commit scope keeps one thing more.
LEMMA KeepInFacts ==
  ASSUME TypeOK, NEW i \in 1..Len(commits), NEW x \in Comments \cup Leaves, KeepIn(i, x)
  PROVE  /\ commits' \in Seq(Mark) /\ Len(commits') = Len(commits) /\ Len(commits) \in Nat
         /\ \A j \in 1..Len(commits) : commits'[j].minted = commits[j].minted /\ commits'[j].listed = commits[j].listed
<1>1. commits \in Seq(Mark) /\ Len(commits) \in Nat /\ \A j \in 1..Len(commits) : commits[j] \in Mark
  BY DEF TypeOK
<1> DEFINE new == [commits[i] EXCEPT !.kept = @ \cup {x}]
<1>2. new \in Mark /\ new.minted = commits[i].minted /\ new.listed = commits[i].listed
  BY <1>1 DEF Mark
<1>3. commits' = [commits EXCEPT ![i] = new]
  BY DEF KeepIn
<1> HIDE DEF new
<1>4. /\ [commits EXCEPT ![i] = new] \in Seq(Mark) /\ Len([commits EXCEPT ![i] = new]) = Len(commits)
      /\ \A j \in 1..Len(commits) : [commits EXCEPT ![i] = new][j] = IF j = i THEN new ELSE commits[j]
  BY <1>1, <1>2, ExceptSeq
<1> QED
  BY <1>1, <1>2, <1>3, <1>4


\* What a step leaves alone keeps its type.
LEMMA SameTypes ==
  ASSUME Facts
  PROVE  /\ UNCHANGED store => CountTypes' /\ StoreTypes'
         /\ UNCHANGED leaves => LeafTypes'
         /\ UNCHANGED lists => ListTypes'
         /\ UNCHANGED <<frames, commits, call, tainted>> => ScopeTypes'
         /\ count \in [Comments -> Nat] /\ StoreTypes /\ LeafTypes /\ ListTypes /\ ScopeTypes
<1>1. StoreTypes /\ LeafTypes /\ ListTypes /\ ScopeTypes /\ count \in [Comments -> Nat]
  BY TypeParts DEF Facts
<1>2. UNCHANGED store => CountTypes' /\ StoreTypes'
  BY <1>1, CountTyped DEF store, CountTypes, StoreTypes
<1>3. UNCHANGED leaves => LeafTypes'
  BY <1>1 DEF leaves, LeafTypes
<1>4. UNCHANGED lists => ListTypes'
  BY <1>1 DEF lists, ListTypes
<1>5. UNCHANGED <<frames, commits, call, tainted>> => ScopeTypes'
  BY <1>1 DEF ScopeTypes
<1> QED
  BY <1>1, <1>2, <1>3, <1>4, <1>5

AllTypes == CountTypes /\ StoreTypes /\ LeafTypes /\ ListTypes /\ ScopeTypes

LEMMA InterceptBuildTypes == ASSUME Facts, InterceptBuild PROVE AllTypes'
<1> DEFINE f == [minted |-> Len(minted), moved |-> Len(moved), undos |-> Len(undos),
                 touched |-> FALSE, strayed |-> FALSE, trivia |-> trivia, parked |-> parked]
<1>1. f \in Frame
  BY DEF Facts, TypeOK, Frame
<1>2. frames' = Append(frames, f)
  BY DEF InterceptBuild
<1> HIDE DEF f
<1>3. frames' \in Seq(Frame)
  BY <1>1, <1>2, AppendSeq, SameTypes DEF ScopeTypes
<1>4. ScopeTypes'
  BY <1>3, SameTypes DEF ScopeTypes, InterceptBuild
<1> QED
  BY <1>4, SameTypes DEF InterceptBuild, AllTypes

LEMMA FinishBuildTypes == ASSUME Facts, FinishBuild PROVE AllTypes'
<1>1. EndScope(minted, moved, undos) /\ InScope
  BY DEF FinishBuild
<1>2. ScopeTypes'
  BY <1>1, EndScopeFacts, SameTypes DEF ScopeTypes, FinishBuild, Facts
<1>3. minted' \in {<<>>, minted} /\ moved' \in {<<>>, moved} /\ undos' \in {<<>>, undos} /\ listed' = listed
  BY <1>1, EndScopeFacts DEF Facts, FinishBuild
<1>4. ListTypes'
  BY <1>3, EmptySeq, SameTypes DEF ListTypes
<1> QED
  BY <1>2, <1>4, SameTypes DEF FinishBuild, AllTypes

LEMMA CallTypes ==
  ASSUME Facts
  PROVE  /\ call = [op |-> call.op, n |-> call.n] /\ call.n \in Nat
         /\ \A o \in {"none", "undo", "giveback", "free"}, k \in Nat :
              [op |-> o, n |-> k] \in [op: {"none", "undo", "giveback", "free"}, n: Nat]
         /\ NoCall \in [op: {"none", "undo", "giveback", "free"}, n: Nat]
         /\ [call EXCEPT !.n = call.n - 1].op = call.op /\ [call EXCEPT !.n = call.n - 1].n = call.n - 1
         /\ call.n # 0 => [call EXCEPT !.n = call.n - 1] \in [op: {"none", "undo", "giveback", "free"}, n: Nat]
<1>1. call \in [op: {"none", "undo", "giveback", "free"}, n: Nat]
  BY DEF Facts, TypeOK
<1> QED
  BY <1>1 DEF NoCall

LEMMA ThrowTypes == ASSUME Facts, Throw PROVE AllTypes'
<1>1. call' = [op |-> "undo", n |-> Len(undos)] /\ Len(undos) \in Nat
  BY DEF Facts, TypeOK, Throw
<1>2. call' \in [op: {"none", "undo", "giveback", "free"}, n: Nat]
  BY <1>1, CallTypes
<1>3. InScope /\ tainted' = (IF Top.touched THEN tainted + 1 ELSE tainted) /\ frames' = frames /\ commits' = commits
  BY DEF Throw
<1>4. Top.touched \in BOOLEAN
  BY <1>3, TopType DEF Facts
<1>5. tainted' \in Nat
  BY <1>3, <1>4, SameTypes DEF ScopeTypes
<1>6. ScopeTypes'
  BY <1>2, <1>3, <1>5, SameTypes DEF ScopeTypes
<1> QED
  BY <1>6, SameTypes DEF Throw, AllTypes

\* The counts left by an undo that dropped what the write parked.
LEMMA DroppedTyped == ASSUME Facts, NEW u PROVE Dropped(u) \in [Comments -> Int]
<1>1. {u.next} \cap parked \subseteq parked
  OBVIOUS
<1>2. LetGo({}, {}, {u.next} \cap parked) \in [Comments -> Int]
  BY <1>1, LetGoTyped
<1> QED
  BY <1>2, CountTyped, SumsTyped DEF Dropped

LEMMA UndoRefusedTypes == ASSUME Facts, Scopes, UndoRefused PROVE AllTypes'
<1>1. EndScope(minted, moved, undos) /\ InScope
  BY UndoNext DEF UndoRefused
<1>2. ScopeTypes'
  BY <1>1, EndScopeFacts, CallTypes, SameTypes DEF ScopeTypes, UndoRefused, Facts
<1>3. minted' \in {<<>>, minted} /\ moved' \in {<<>>, moved} /\ undos' \in {<<>>, undos} /\ listed' = listed
  BY <1>1, EndScopeFacts DEF Facts, UndoRefused
<1>4. ListTypes'
  BY <1>3, EmptySeq, SameTypes DEF ListTypes
<1>5. CountTypes' /\ StoreTypes'
  BY DroppedTyped, CountTyped, SameTypes DEF UndoRefused, CountTypes, StoreTypes
<1>6. loose' \in SUBSET (1..MaxWrites)
  <2> DEFINE all == UNION {{undos[j].next, undos[j].own} : j \in Top.undos + 1..call.n}
             skipped == all \ {0}
  <2>1. \A j \in Top.undos + 1..call.n : j \in 1..Len(undos)
    <3>1. Top.undos \in Nat /\ call.n \in Nat /\ call.n <= Len(undos) /\ Len(undos) \in Nat
      BY <1>1, TopType, UndoNext, CallType DEF UndoRefused, Facts
    <3> QED
      BY <3>1
  <2>2. skipped \subseteq 1..MaxWrites
    <3>1. \A j \in Top.undos + 1..call.n : undos[j].next \in 0..MaxWrites /\ undos[j].own \in 0..MaxWrites
      BY <2>1, UndoType
    <3>2. ASSUME NEW x \in skipped PROVE x \in 0..MaxWrites /\ x # 0
      <4> HIDE DEF all
      <4>1. x # 0 /\ x \in all
        BY <3>2
      <4>2. PICK j \in Top.undos + 1..call.n : x \in {undos[j].next, undos[j].own}
        BY <4>1 DEF all
      <4> QED
        BY <4>1, <4>2, <3>1
    <3> HIDE DEF all, skipped
    <3>3. \A x : x \in 0..MaxWrites /\ x # 0 => x \in 1..MaxWrites
      BY ConstantsType
    <3> QED
      BY <3>2, <3>3
  <2>3. loose' = loose \cup skipped
    BY DEF UndoRefused
  <2> HIDE DEF all, skipped
  <2> QED
    BY <2>2, <2>3, SameTypes DEF LeafTypes
<1>7. LeafTypes'
  BY <1>6, SameTypes DEF UndoRefused, LeafTypes
<1> QED
  BY <1>2, <1>4, <1>5, <1>7 DEF AllTypes

LEMMA UndoLastTypes == ASSUME Facts, Scopes, UndoLast PROVE AllTypes'
<1> DEFINE u == undos[call.n]
           c == Entry(u.parked)
<1>1. call.n \in 1..Len(undos) /\ Len(undos) \in Nat
  BY UndoNext, SameTypes DEF ListTypes
<1>2. /\ u.parked \in 0..MaxWrites /\ u.own \in 0..MaxWrites /\ u.leaf \in Leaves /\ u.site \in BOOLEAN
      /\ u.parked \in Nat /\ u.parked <= Len(written) /\ u.next \in 0..MaxWrites
  BY <1>1, UndoType
<1>3. HoldMoves(c) => c \in Comments
  BY SameTypes DEF HoldMoves, StoreTypes
<1>4. count' \in [Comments -> Int]
  <2>1. count' = Plus(Dropped(u), Held(c, HoldMoves(c)))
    BY DEF UndoLast, ParksCounted
  <2> HIDE DEF u, c
  <2> QED
    BY <2>1, DroppedTyped, HeldTyped, SumsTyped
<1>5. CountTypes' /\ StoreTypes'
  BY <1>4, CountTyped, SameTypes DEF UndoLast, CountTypes, StoreTypes
<1>6. parked' \in SUBSET (1..MaxWrites)
  BY <1>2, SameTypes DEF UndoLast, Reparked, LeafTypes
<1>7. trivia' \in [Leaves -> 0..MaxWrites]
  BY <1>2, SameTypes DEF UndoLast, LeafTypes
<1>8. LeafTypes'
  BY <1>6, <1>7, SameTypes DEF UndoLast, LeafTypes
<1>9. moved' \in Seq(Comments)
  BY <1>3, SameTypes, AppendSeq DEF UndoLast, Moved, ListTypes
<1>10. ListTypes'
  BY <1>9, SameTypes DEF UndoLast, ListTypes
<1>11. ScopeTypes'
  BY <1>1, CallTypes, SameTypes DEF UndoLast, ScopeTypes
<1> QED
  BY <1>5, <1>8, <1>10, <1>11 DEF AllTypes

LEMMA UndoneTypes == ASSUME Facts, Undone PROVE AllTypes'
<1>1. call' = [op |-> "giveback", n |-> Len(moved)] /\ Len(moved) \in Nat
  BY DEF Facts, TypeOK, Undone
<1>2. call' \in [op: {"none", "undo", "giveback", "free"}, n: Nat]
  BY <1>1, CallTypes
<1>3. ScopeTypes'
  BY <1>2, SameTypes DEF Undone, ScopeTypes
<1> QED
  BY <1>3, SameTypes DEF Undone, AllTypes

LEMMA GiveBackMovedTypes == ASSUME Facts, Scopes, GiveBackMoved PROVE AllTypes'
<1>1. call.n \in 1..Len(moved) /\ moved[call.n] \in Comments /\ Len(moved) \in Nat
  BY GiveBackMovedGain, SameTypes DEF ListTypes
<1>2. count' \in [Comments -> Int]
  BY HeldTyped, SumsTyped, CountTyped DEF GiveBackMoved
<1>3. CountTypes' /\ StoreTypes'
  BY <1>1, <1>2, CountTyped, SameTypes DEF GiveBackMoved, CountTypes, StoreTypes
<1>4. ScopeTypes'
  BY <1>1, CallTypes, SameTypes DEF GiveBackMoved, ScopeTypes
<1> QED
  BY <1>3, <1>4, SameTypes DEF GiveBackMoved, AllTypes

LEMMA GiveBackRefusedTypes == ASSUME Facts, Scopes, GiveBackRefused PROVE AllTypes'
<1>1. EndScope(minted, moved, undos) /\ InScope
  BY CallType DEF GiveBackRefused, Facts, UserCode
<1>2. ScopeTypes'
  BY <1>1, EndScopeFacts, CallTypes, SameTypes DEF ScopeTypes, GiveBackRefused, Facts
<1>3. minted' \in {<<>>, minted} /\ moved' \in {<<>>, moved} /\ undos' \in {<<>>, undos} /\ listed' = listed
  BY <1>1, EndScopeFacts DEF Facts, GiveBackRefused
<1>4. ListTypes'
  BY <1>3, EmptySeq, SameTypes DEF ListTypes
<1> QED
  BY <1>2, <1>4, SameTypes DEF GiveBackRefused, AllTypes

LEMMA FreeMintedTypes == ASSUME Facts, Scopes, FreeMinted PROVE AllTypes'
<1>1. InScope
  BY CallType DEF FreeMinted, Facts, UserCode
<1>2. EndScope(SubSeq(minted, 1, Top.minted), SubSeq(moved, 1, Top.moved), SubSeq(undos, 1, Top.undos))
  BY DEF FreeMinted
<1>3. /\ SubSeq(minted, 1, Top.minted) \in Seq(Comments \cup Holders) /\ SubSeq(moved, 1, Top.moved) \in Seq(Comments)
      /\ SubSeq(undos, 1, Top.undos) \in Seq(Undo)
  BY <1>1, CallType, TopType, CutSeq, SameTypes DEF ListTypes, Facts
<1>4. ScopeTypes'
  BY <1>1, <1>2, EndScopeFacts, CallTypes, SameTypes DEF ScopeTypes, FreeMinted, Facts
<1>5. ListTypes'
  <2>1. /\ minted' \in {<<>>, SubSeq(minted, 1, Top.minted)} /\ moved' \in {<<>>, SubSeq(moved, 1, Top.moved)}
        /\ undos' \in {<<>>, SubSeq(undos, 1, Top.undos)} /\ listed' = listed
    BY <1>1, <1>2, EndScopeFacts DEF Facts, FreeMinted
  <2> QED
    BY <2>1, <1>3, EmptySeq, SameTypes DEF ListTypes
<1>6. CountTypes' /\ StoreTypes' /\ LeafTypes'
  <2>1. \E hs, cs : hs \subseteq alive /\ Release(hs, cs, {})
    BY FreeMintedReleases
  <2>2. UNCHANGED trivia
    BY DEF FreeMinted
  <2> QED
    BY <2>1, <2>2, ReleaseTypes
<1> QED
  BY <1>4, <1>5, <1>6 DEF AllTypes


LEMMA MintTypes ==
  ASSUME Facts, NEW r \in Comments \cup Holders, Mint(r)
  PROVE  /\ used' \in SUBSET (Comments \cup Holders) /\ minted' \in Seq(Comments \cup Holders)
         /\ minted' = minted \/ minted' = Append(minted, r)
BY SameTypes, AppendSeq DEF Mint, StoreTypes, ListTypes

LEMMA BuildCommentTypes == ASSUME Facts, NEW c \in Comments, BuildComment(c) PROVE AllTypes'
<1>1. Mint(c)
  BY DEF BuildComment
<1>2. CountTypes' /\ StoreTypes'
  BY <1>1, CountTyped, MintTypes, SameTypes DEF BuildComment, CountTypes, StoreTypes
<1>3. ListTypes'
  BY <1>1, MintTypes, SameTypes DEF BuildComment, ListTypes
<1> QED
  BY <1>2, <1>3, SameTypes DEF BuildComment, AllTypes

\* The undo of a placement, and that of a write.
LEMMA UndoRecords ==
  ASSUME NEW l \in Leaves, NEW p \in 0..MaxWrites
  PROVE  /\ [site |-> TRUE, leaf |-> l, next |-> 0, parked |-> p, own |-> 0] \in Undo
         /\ \A o \in 0..MaxWrites, t \in 0..MaxWrites :
              [site |-> FALSE, leaf |-> l, next |-> o, parked |-> p, own |-> t] \in Undo
BY ConstantsType DEF Undo

LEMMA BuildHolderTypes == ASSUME Facts, NEW h \in Holders, NEW l \in Leaves, BuildHolder(h, l) PROVE AllTypes'
<1> DEFINE c == Entry(trivia[l])
           p == GivenUp(l)
           u == [site |-> TRUE, leaf |-> l, next |-> 0, parked |-> p, own |-> 0]
<1>1. p \in Nat /\ p \in 0..MaxWrites /\ {p} \ {0} \subseteq parked
  BY LeafObject, ConstantsType DEF GivenUp
<1>2. c \in Comments \cup {Nil}
  BY LeafObject, EntryType
<1>3. Mint(h)
  BY DEF BuildHolder
<1>4. count' \in [Comments -> Int]
  <2>1. count' = Minus(Plus(count, Held(c, c \in owned)), LetGo({}, {}, {p} \ {0}))
    BY DEF BuildHolder
  <2> HIDE DEF c, p
  <2>2. LetGo({}, {}, {p} \ {0}) \in [Comments -> Int]
    BY <1>1, LetGoTyped
  <2>3. Plus(count, Held(c, c \in owned)) \in [Comments -> Int]
    BY HeldTyped, CountTyped, SumsTyped
  <2> QED
    BY <2>1, <2>2, <2>3, SumsTyped
<1>5. IsFiniteSet(alive')
  BY Finite, FS_AddElement DEF BuildHolder
<1>6. StoreTypes'
  <2>1. /\ owned' = owned \ {c} /\ alive' = alive \cup {h}
        /\ leafAt' = [leafAt EXCEPT ![h] = l] /\ row' = [row EXCEPT ![h] = c]
    BY DEF BuildHolder
  <2> HIDE DEF c
  <2> QED
    BY <2>1, <1>2, <1>3, MintTypes, SameTypes DEF StoreTypes
<1>7. LeafTypes'
  BY SameTypes DEF BuildHolder, LeafTypes
<1>8. undos' \in Seq(Undo)
  <2>1. u \in Undo
    BY <1>1, UndoRecords
  <2>2. undos' = undos \/ undos' = Append(undos, u)
    BY DEF BuildHolder
  <2> HIDE DEF u
  <2>3. undos \in Seq(Undo)
    BY SameTypes DEF ListTypes
  <2>4. Append(undos, u) \in Seq(Undo)
    BY <2>1, <2>3, AppendSeq
  <2> QED
    BY <2>2, <2>3, <2>4
<1>9. ListTypes'
  BY <1>3, <1>8, MintTypes, SameTypes DEF BuildHolder, ListTypes
<1> QED
  BY <1>4, <1>5, <1>6, <1>7, <1>9, SameTypes DEF BuildHolder, AllTypes, CountTypes

LEMMA TouchTypes ==
  ASSUME Facts, Touched, UNCHANGED <<commits, call, tainted>>
  PROVE  ScopeTypes'
BY TouchFacts, SameTypes DEF ScopeTypes, Facts

\* What writes or keeps a leaf did more than build.
LEMMA WriteTouched == \A l, c : WriteLeaf(l, c) => Touched
BY DEF WriteLeaf, Touched

LEMMA KeepTouched == \A i, l : KeepLeaf(i, l) => Touched
BY DEF KeepLeaf, Touched

LEMMA WriteLeafTypes ==
  ASSUME Facts, NEW l \in Leaves, NEW c \in Comments \cup {Nil}, WriteLeaf(l, c)
  PROVE  AllTypes'
<1> DEFINE sites == Sites(l)
           n == Cardinality(sites)
           stays == sites # {} /\ ~Kept(l)
           moves == sites = {} /\ HoldMoves(c)
           o == Len(written) + 1
           old == ParkedOf(l)
           rows == [y \in Comments |-> IF y = c /\ sites # {} THEN n - 1 + Held(c, c \in owned /\ sites # {})[y] ELSE 0]
           u == [site |-> FALSE, leaf |-> l, next |-> o, parked |-> old, own |-> trivia[l]]
<1>1. sites \subseteq alive /\ n \in Nat
  <2>1. sites \subseteq alive
    BY DEF Sites
  <2> HIDE DEF sites
  <2> QED
    BY <2>1, Finite, PartCount
<1>2. o \in 1..MaxWrites /\ old \in 0..MaxWrites /\ trivia[l] \in 0..MaxWrites /\ {old} \ {0} \subseteq parked
  BY LeafObject, ConstantsType DEF WriteLeaf
<1>3. count' \in [Comments -> Int]
  <2>1. count' = Minus(Plus(Plus(count, rows), IF stays THEN Only(c, 0) ELSE Held(c, moves)),
                       IF stays THEN LetGo(sites, {}, {}) ELSE LetGo(sites, {}, {old} \ {0}))
    BY DEF WriteLeaf
  <2>2. rows \in [Comments -> Int]
    <3> DEFINE free == Held(c, c \in owned /\ sites # {})
    <3>1. \A y \in Comments : free[y] \in Int
      BY HeldTyped
    <3> HIDE DEF free, n, sites
    <3> QED
      BY <3>1, <1>1 DEF free
  <2>3. (IF stays THEN Only(c, 0) ELSE Held(c, moves)) \in [Comments -> Int]
    BY HeldTyped
  <2>4. (IF stays THEN LetGo(sites, {}, {}) ELSE LetGo(sites, {}, {old} \ {0})) \in [Comments -> Int]
    BY <1>1, <1>2, LetGoTyped
  <2> HIDE DEF rows, stays, sites, moves, old
  <2>5. Plus(count, rows) \in [Comments -> Int]
    BY <2>2, CountTyped, SumsTyped
  <2>6. Plus(Plus(count, rows), IF stays THEN Only(c, 0) ELSE Held(c, moves)) \in [Comments -> Int]
    BY <2>3, <2>5, SumsTyped
  <2> QED
    BY <2>1, <2>4, <2>6, SumsTyped
<1>4. /\ row' = [h \in Holders |-> IF h \in sites THEN c ELSE row[h]]
      /\ owned' = (IF sites # {} \/ moves THEN owned \ {c} ELSE owned)
      /\ written' = Append(written, c) /\ trivia' = [trivia EXCEPT ![l] = o] /\ Len(written) < MaxWrites
      /\ loose' = (IF stays THEN loose \cup ({o, trivia[l]} \ {0}) ELSE loose)
      /\ used' = used /\ alive' = alive /\ leafAt' = leafAt /\ minted' = minted
      /\ commits' = commits /\ call' = call /\ tainted' = tainted
  BY DEF WriteLeaf
<1>5. stays => parked' = parked /\ moved' = moved /\ undos' = undos /\ listed' = listed
  BY DEF WriteLeaf
<1>6. ~stays => /\ parked' = (parked \ {old}) \cup {o}
                /\ moved' = (IF moves /\ InScope THEN Append(moved, c) ELSE moved)
                /\ undos' = (IF InScope THEN Append(undos, u) ELSE undos)
                /\ listed' = (IF commits # <<>> THEN Append(listed, l) ELSE listed)
  BY DEF WriteLeaf
<1>7. moves => c \in Comments
  BY SameTypes DEF HoldMoves, StoreTypes
<1>8. u \in Undo
  <2>1. o \in 0..MaxWrites
    BY <1>2, ConstantsType
  <2> HIDE DEF o, old
  <2>2. [site |-> FALSE, leaf |-> l, next |-> o, parked |-> old, own |-> trivia[l]] \in Undo
    BY <1>2, <2>1, UndoRecords
  <2> QED
    BY <2>2
<1>9. ScopeTypes'
  BY WriteTouched, TouchTypes DEF WriteLeaf
<1> HIDE DEF sites, n, stays, moves, o, old, u
<1>10. StoreTypes'
  BY <1>4, SameTypes DEF StoreTypes
<1>11. CountTypes'
  BY <1>3, <1>4, CountTyped DEF CountTypes
<1>12. LeafTypes'
  <2>1. written' \in Seq(Comments \cup {Nil}) /\ Len(written') <= MaxWrites
    BY <1>4, WrittenMore, ConstantsType
  <2>2. trivia' \in [Leaves -> 0..MaxWrites]
    BY <1>2, <1>4, SameTypes DEF LeafTypes
  <2>3. parked' \in SUBSET (1..MaxWrites)
    BY <1>2, <1>5, <1>6, SameTypes DEF LeafTypes
  <2>4. loose' \in SUBSET (1..MaxWrites)
    BY <1>2, <1>4, SameTypes DEF LeafTypes
  <2> QED
    BY <2>1, <2>2, <2>3, <2>4 DEF LeafTypes
<1>13. ListTypes'
  <2>0. moved \in Seq(Comments) /\ undos \in Seq(Undo) /\ listed \in Seq(Leaves)
    BY SameTypes DEF ListTypes
  <2>1. moved' \in Seq(Comments)
    <3>1. moves => Append(moved, c) \in Seq(Comments)
      BY <2>0, <1>7, AppendSeq
    <3> QED
      BY <2>0, <3>1, <1>5, <1>6
  <2>2. undos' \in Seq(Undo)
    <3>1. Append(undos, u) \in Seq(Undo)
      BY <2>0, <1>8, AppendSeq
    <3> QED
      BY <2>0, <3>1, <1>5, <1>6
  <2>3. listed' \in Seq(Leaves)
    <3>1. Append(listed, l) \in Seq(Leaves)
      BY <2>0, AppendSeq
    <3> QED
      BY <2>0, <3>1, <1>5, <1>6
  <2> QED
    BY <2>1, <2>2, <2>3, <1>4, SameTypes DEF ListTypes
<1> QED
  BY <1>9, <1>10, <1>11, <1>12, <1>13 DEF AllTypes

LEMMA WriteSiteTypes ==
  ASSUME Facts, NEW h \in Holders, NEW c \in Comments \cup {Nil}, WriteSite(h, c)
  PROVE  AllTypes'
<1>1. count' \in [Comments -> Int]
  <2>1. count' = Minus(Plus(count, Held(c, c \in owned)), LetGo({h}, {}, {})) /\ {h} \subseteq alive
    BY DEF WriteSite
  <2>2. LetGo({h}, {}, {}) \in [Comments -> Int]
    BY <2>1, LetGoTyped
  <2>3. Plus(count, Held(c, c \in owned)) \in [Comments -> Int]
    BY HeldTyped, CountTyped, SumsTyped
  <2> QED
    BY <2>1, <2>2, <2>3, SumsTyped
<1>2. StoreTypes' /\ CountTypes'
  BY <1>1, CountTyped, SameTypes DEF WriteSite, StoreTypes, CountTypes
<1>3. ScopeTypes'
  BY TouchTypes DEF WriteSite, Touched
<1> QED
  BY <1>2, <1>3, SameTypes DEF WriteSite, AllTypes

LEMMA ReleasesTypes ==
  ASSUME Facts, NEW hs, NEW cs, NEW os, hs \subseteq alive, os \subseteq parked, Release(hs, cs, os), Touched,
         UNCHANGED <<trivia, lists, commits, call, tainted>>
  PROVE  AllTypes'
<1>1. CountTypes' /\ StoreTypes' /\ LeafTypes'
  BY ReleaseTypes
<1>2. ScopeTypes' /\ ListTypes'
  BY TouchTypes, SameTypes
<1> QED
  BY <1>1, <1>2 DEF AllTypes

LEMMA OpenCommitTypes == ASSUME Facts, OpenCommit PROVE AllTypes'
<1> DEFINE m == [minted |-> Len(minted), listed |-> Len(listed), kept |-> {}]
<1>1. m \in Mark
  BY SameTypes DEF ListTypes, Mark
<1>2. commits' = Append(commits, m)
  BY DEF OpenCommit
<1> HIDE DEF m
<1>3. commits' \in Seq(Mark)
  BY <1>1, <1>2, AppendSeq, SameTypes DEF ScopeTypes
<1>4. ScopeTypes'
  BY <1>3, SameTypes DEF ScopeTypes, OpenCommit
<1> QED
  BY <1>4, SameTypes DEF OpenCommit, AllTypes

LEMMA KeepCommentTypes == ASSUME Facts, NEW i, NEW c \in Comments, KeepComment(i, c) PROVE AllTypes'
<1>1. KeepIn(i, c) /\ i \in 1..Len(commits) /\ Touched
  BY DEF KeepComment, Touched
<1>2. commits' \in Seq(Mark)
  BY <1>1, KeepInFacts DEF Facts
<1>3. ScopeTypes'
  BY <1>1, <1>2, TouchFacts, SameTypes DEF ScopeTypes, KeepComment, Facts
<1>4. count' \in [Comments -> Int]
  BY HeldTyped, SumsTyped, CountTyped DEF KeepComment
<1>5. StoreTypes' /\ CountTypes'
  BY <1>4, CountTyped, SameTypes DEF KeepComment, StoreTypes, CountTypes
<1> QED
  BY <1>3, <1>5, SameTypes DEF KeepComment, AllTypes

LEMMA KeepLeafTypes == ASSUME Facts, NEW i, NEW l \in Leaves, KeepLeaf(i, l) PROVE AllTypes'
<1> DEFINE c == Entry(trivia[l])
<1>1. KeepIn(i, l) /\ i \in 1..Len(commits) /\ Touched
  BY KeepTouched DEF KeepLeaf
<1>2. commits' \in Seq(Mark)
  BY <1>1, KeepInFacts DEF Facts
<1>3. ScopeTypes'
  BY <1>1, <1>2, TouchFacts, SameTypes DEF ScopeTypes, KeepLeaf, Facts
<1>4. CASE ~Unparked(l)
  BY <1>3, <1>4, SameTypes, CountTyped DEF KeepLeaf, StoreTypes, CountTypes, LeafTypes, ListTypes, AllTypes
<1>5. CASE Unparked(l)
  <2>1. /\ count' = Plus(count, Held(c, HoldMoves(c)))
        /\ owned' = (IF HoldMoves(c) THEN owned \ {c} ELSE owned)
        /\ moved' = Moved(c) /\ parked' = parked \cup {trivia[l]} /\ listed' = Append(listed, l)
        /\ used' = used /\ alive' = alive /\ leafAt' = leafAt /\ row' = row /\ written' = written
        /\ trivia' = trivia /\ loose' = loose /\ minted' = minted /\ undos' = undos
    BY <1>5 DEF KeepLeaf
  <2>2. HoldMoves(c) => c \in Comments
    BY SameTypes DEF HoldMoves, StoreTypes
  <2>3. trivia[l] \in 1..MaxWrites
    BY <1>5, LeafObject, ConstantsType DEF Unparked
  <2> HIDE DEF c
  <2>4. count' \in [Comments -> Int]
    BY <2>1, HeldTyped, SumsTyped, CountTyped
  <2>5. StoreTypes' /\ CountTypes'
    BY <2>1, <2>4, CountTyped, SameTypes DEF StoreTypes, CountTypes
  <2>6. LeafTypes'
    BY <2>1, <2>3, SameTypes DEF LeafTypes
  <2>7. ListTypes'
    BY <2>1, <2>2, AppendSeq, SameTypes DEF ListTypes, Moved
  <2> QED
    BY <1>3, <2>5, <2>6, <2>7 DEF AllTypes
<1> QED
  BY <1>4, <1>5

LEMMA CloseCommitTypes == ASSUME Facts, Marks, CloseCommit PROVE AllTypes'
<1>1. CountTypes' /\ StoreTypes' /\ LeafTypes'
  <2>1. GoneParks \subseteq parked /\ \E hs, cs : hs \subseteq alive /\ cs \subseteq owned /\ Release(hs, cs, GoneParks)
    BY CloseCommitReleases DEF Facts
  <2>2. UNCHANGED trivia
    BY DEF CloseCommit
  <2> QED
    BY <2>1, <2>2, ReleaseTypes
<1>2. LET mark == commits[Len(commits)] IN
        /\ commits \in Seq(Mark) /\ Len(commits) \in Nat \ {0} /\ commits' = SubSeq(commits, 1, Len(commits) - 1)
        /\ mark.minted \in Nat /\ mark.minted <= Len(minted) /\ mark.listed \in Nat /\ mark.listed <= Len(listed)
  <2>1. commits \in Seq(Mark) /\ commits # <<>> /\ commits' = SubSeq(commits, 1, Len(commits) - 1)
    BY SameTypes DEF CloseCommit, ScopeTypes
  <2>2. Len(commits) \in Nat \ {0} /\ Len(commits) \in 1..Len(commits)
    BY <2>1, EmptySeq
  <2>3. commits[Len(commits)] \in Mark
    BY <2>1, <2>2, ElementOfSeq
  <2> QED
    BY <2>1, <2>2, <2>3 DEF Mark, Marks
<1>3. /\ commits' \in Seq(Mark) /\ Len(commits') = Len(commits) - 1
      /\ \A i \in 1..Len(commits') : commits'[i] = commits[i]
  <2> DEFINE n == Len(commits) - 1
  <2>1. n \in Nat /\ n <= Len(commits)
    BY <1>2
  <2> HIDE DEF n
  <2>2. /\ SubSeq(commits, 1, n) \in Seq(Mark) /\ Len(SubSeq(commits, 1, n)) = n
        /\ \A i \in 1..n : SubSeq(commits, 1, n)[i] = commits[i]
    BY <1>2, <2>1, CutSeq
  <2> QED
    BY <2>2, <1>2 DEF n
<1>4. ASSUME NEW S, NEW s \in Seq(S), NEW n \in Nat, n <= Len(s)
      PROVE  /\ SubSeq(s, 1, n) \o (IF Len(commits) = 1 THEN <<>> ELSE StillKept(SubSeq(s, n + 1, Len(s)))) \in Seq(S)
  <2>1. SubSeq(s, 1, n) \in Seq(S) /\ SubSeq(s, n + 1, Len(s)) \in Seq(S) /\ <<>> \in Seq(S)
    BY <1>4, CutSeq, SinceSeq, EmptySeq
  <2>2. StillKept(SubSeq(s, n + 1, Len(s))) \in Seq(S)
    BY <2>1, StillKeptSeq
  <2> QED
    BY <2>1, <2>2, ConcatProperties
<1>5. ListTypes'
  <2>1. minted' \in Seq(Comments \cup Holders)
    BY <1>2, <1>4, SameTypes DEF CloseCommit, ListTypes
  <2>2. listed' \in Seq(Leaves)
    BY <1>2, <1>4, SameTypes DEF CloseCommit, ListTypes
  <2> QED
    BY <2>1, <2>2, SameTypes DEF CloseCommit, ListTypes
<1>6. ScopeTypes'
  BY <1>3, SameTypes DEF CloseCommit, ScopeTypes
<1> QED
  BY <1>1, <1>5, <1>6 DEF AllTypes


LEMMA NextTypes == ASSUME Facts, Scopes, Marks, Next PROVE AllTypes'
<1>1. CASE InterceptBuild \/ FinishBuild \/ Throw
  BY <1>1, InterceptBuildTypes, FinishBuildTypes, ThrowTypes
<1>2. CASE UndoLast \/ UndoRefused \/ Undone \/ GiveBackMoved \/ GiveBackRefused \/ FreeMinted
  BY <1>2, UndoLastTypes, UndoRefusedTypes, UndoneTypes, GiveBackMovedTypes, GiveBackRefusedTypes, FreeMintedTypes
<1>3. ASSUME NEW c \in Comments, BuildComment(c) \/ ReleaseComment(c) PROVE AllTypes'
  <2>1. CASE BuildComment(c)
    BY <2>1, BuildCommentTypes
  <2>2. CASE ReleaseComment(c)
    BY <2>2, ReleasesTypes DEF ReleaseComment, Touched
  <2> QED
    BY <1>3, <2>1, <2>2
<1>4. ASSUME NEW h \in Holders, NEW l \in Leaves, BuildHolder(h, l) PROVE AllTypes'
  BY <1>4, BuildHolderTypes
<1>5. ASSUME NEW l \in Leaves, NEW c \in Comments \cup {Nil}, WriteLeaf(l, c) PROVE AllTypes'
  BY <1>5, WriteLeafTypes
<1>6. ASSUME NEW h \in Holders, NEW c \in Comments \cup {Nil}, WriteSite(h, c) PROVE AllTypes'
  BY <1>6, WriteSiteTypes
<1>7. ASSUME NEW h \in Holders, ReleaseHolder(h) PROVE AllTypes'
  <2>1. {h} \subseteq alive /\ Release({h}, {}, {}) /\ Touched /\ UNCHANGED <<trivia, lists, commits, call, tainted>>
    BY <1>7 DEF ReleaseHolder, Touched
  <2> QED
    BY <2>1, ReleasesTypes
<1>8. ASSUME NEW l \in Leaves, ReleaseLeaf(l) PROVE AllTypes'
  <2>1. /\ {ParkedOf(l)} \subseteq parked /\ Release({}, {}, {ParkedOf(l)}) /\ Touched
        /\ UNCHANGED <<trivia, lists, commits, call, tainted>>
    BY <1>8, LeafObject DEF ReleaseLeaf, Touched
  <2> QED
    BY <2>1, ReleasesTypes
<1>9. CASE OpenCommit \/ CloseCommit
  BY <1>9, OpenCommitTypes, CloseCommitTypes
<1>10. ASSUME NEW i \in 1..MaxCommits, NEW c \in Comments, KeepComment(i, c) PROVE AllTypes'
  BY <1>10, KeepCommentTypes
<1>11. ASSUME NEW i \in 1..MaxCommits, NEW l \in Leaves, KeepLeaf(i, l) PROVE AllTypes'
  BY <1>11, KeepLeafTypes
<1> QED
  BY <1>1, <1>2, <1>3, <1>4, <1>5, <1>6, <1>7, <1>8, <1>9, <1>10, <1>11 DEF Next

\* The counts cover what they count after a step, so that they are naturals.
LEMMA NextCovers ==
  ASSUME Facts, Scopes, Marks, SidesCover, Next
  PROVE  TypeOK' /\ SidesCover'
<1>1. AllTypes' /\ SidesGain
  BY NextTypes, NextGain
<1>2. parked' \subseteq 1..MaxWrites /\ IsFiniteSet(alive') /\ count' \in [Comments -> Int]
  BY <1>1 DEF AllTypes, LeafTypes, CountTypes
<1>3. ASSUME NEW x \in Comments PROVE count'[x] >= HoldsOf(x)' /\ count'[x] \in Nat
  <2>1. count[x] \in Nat /\ HoldsOf(x) \in Nat /\ Excess(x) = count[x] - HoldsOf(x) /\ count[x] >= HoldsOf(x)
    BY HoldsTypes DEF Excess, SidesCover
  <2>2. Excess(x)' >= Excess(x) /\ Excess(x)' = count'[x] - HoldsOf(x)'
    BY <1>1 DEF SidesGain, Excess
  <2>3. IsFiniteSet(parked')
    BY <1>2, ParksFinite
  <2>4. RowCount(alive', row', x) \in Nat /\ ParkCount(parked', written', x) \in Nat /\ OwnCount(owned', x) \in Nat
    BY <1>2, <2>3, RowType, ParkIsRow, OwnOne
  <2>5. HoldsOf(x)' \in Nat
    BY <2>4, HoldsAfter
  <2>6. count'[x] \in Int
    BY <1>2
  <2> QED
    BY <2>1, <2>2, <2>5, <2>6
<1>4. SidesCover'
  BY <1>3 DEF SidesCover
<1>5. count' \in [Comments -> Nat]
  BY <1>2, <1>3
<1> QED
  BY <1>1, <1>4, <1>5, TypeParts DEF AllTypes

LEMMA NextExact ==
  ASSUME Facts, Scopes, Marks, SidesCover, SidesExact, Rollbacks, Unspent, Next
  PROVE  SidesExact'
<1> SUFFICES ASSUME tainted' = 0, NEW x \in Comments PROVE count'[x] = HoldsOf(x)'
  BY SMTT(30) DEF SidesExact
<1>1. tainted = 0
  <2>1. CASE Throw
    <3>1. tainted \in Nat /\ tainted' \in {tainted, tainted + 1}
      BY <2>1, SameTypes DEF Throw, ScopeTypes
    <3> QED
      BY <3>1
  <2>2. CASE ~Throw
    <3>1. tainted' = tainted
      BY <2>2 DEF Next, InterceptBuild, FinishBuild, UndoLast, UndoRefused, Undone, GiveBackMoved, GiveBackRefused, FreeMinted,
             BuildComment, ReleaseComment, BuildHolder, WriteLeaf, WriteSite, ReleaseHolder, ReleaseLeaf, OpenCommit,
             CloseCommit, KeepComment, KeepLeaf
    <3> QED
      BY SMTT(30), <3>1
  <2> QED
    BY <2>1, <2>2
<1>2. SidesEven
  BY <1>1, NextEven
<1>3. Excess(x)' = Excess(x) /\ Excess(x) = count[x] - HoldsOf(x) /\ Excess(x)' = count'[x] - HoldsOf(x)'
  BY <1>2 DEF SidesEven, Excess
<1>4. count[x] = HoldsOf(x) /\ HoldsOf(x) \in Nat /\ count[x] \in Nat
  BY <1>1, HoldsTypes DEF SidesExact
<1>5. count'[x] \in Nat /\ count'[x] >= HoldsOf(x)'
  BY NextCovers DEF TypeOK, SidesCover
<1>6. HoldsOf(x)' \in Nat
  <2>1. AllTypes'
    BY NextTypes
  <2>2. parked' \subseteq 1..MaxWrites /\ IsFiniteSet(alive')
    BY <2>1 DEF AllTypes, LeafTypes, CountTypes
  <2>3. IsFiniteSet(parked')
    BY <2>2, ParksFinite
  <2>4. RowCount(alive', row', x) \in Nat /\ ParkCount(parked', written', x) \in Nat /\ OwnCount(owned', x) \in Nat
    BY <2>2, <2>3, RowType, ParkIsRow, OwnOne
  <2> QED
    BY <2>4, HoldsAfter
<1> QED
  BY <1>3, <1>4, <1>5, <1>6


-----------------------------------------------------------------------------
(* The objects made, and whose they are.                                   *)

\* The undos of a step that adds none.
UndosCut ==
  /\ Len(undos') \in Nat /\ Len(undos') <= Len(undos)
  /\ \A j \in 1..Len(undos') : undos'[j] = undos[j] /\ j \in 1..Len(undos)

\* A step that makes no object, and moves none.
Calm == parked' \subseteq parked /\ UNCHANGED <<trivia, written>> /\ UndosCut

Stirs ==
  \/ \E h \in Holders, l \in Leaves : BuildHolder(h, l)
  \/ \E l \in Leaves, c \in Comments \cup {Nil} : WriteLeaf(l, c)
  \/ \E i \in 1..MaxCommits, l \in Leaves : KeepLeaf(i, l)
  \/ UndoLast

LEMMA UndosKept ==
  ASSUME Facts
  PROVE  /\ UNCHANGED undos => UndosCut
         /\ \A m, v : InScope /\ EndScope(m, v, undos) => UndosCut
<1>1. Len(undos) \in Nat
  BY SameTypes DEF ListTypes
<1>2. UNCHANGED undos => UndosCut
  BY <1>1 DEF UndosCut
<1>3. ASSUME NEW m, NEW v, InScope, EndScope(m, v, undos) PROVE UndosCut
  <2>1. undos' \in {<<>>, undos}
    BY <1>3, EndScopeFacts DEF Facts
  <2>2. CASE undos' = <<>>
    <3>1. Len(undos') = 0
      BY <2>2
    <3> QED
      BY <3>1, <1>1 DEF UndosCut
  <2> QED
    BY <2>1, <2>2, <1>2
<1> QED
  BY <1>2, <1>3

LEMMA UndosCutBack ==
  ASSUME Facts, Scopes, FreeMinted
  PROVE  UndosCut /\ (frames' # <<>> => Len(undos') = Top.undos)
<1>1. InScope
  BY CallType DEF FreeMinted, Facts, UserCode
<1>2. Top.undos \in Nat /\ Top.undos <= Len(undos) /\ Len(undos) \in Nat /\ undos \in Seq(Undo)
  BY <1>1, CallType, TopType, SameTypes DEF ListTypes, Facts
<1> DEFINE n == Top.undos
<1> HIDE DEF n
<1>3. /\ SubSeq(undos, 1, n) \in Seq(Undo) /\ Len(SubSeq(undos, 1, n)) = n
      /\ \A j \in 1..n : SubSeq(undos, 1, n)[j] = undos[j]
  BY <1>2, CutSeq DEF n
<1>4. undos' \in {<<>>, SubSeq(undos, 1, n)} /\ (frames' # <<>> => undos' = SubSeq(undos, 1, n))
  BY <1>1, EndScopeFacts DEF FreeMinted, Facts, n
<1>5. CASE undos' = <<>>
  <2>1. Len(undos') = 0
    BY <1>5
  <2>2. frames' # <<>> => Len(undos') = n
    BY <1>3, <1>4
  <2> QED
    BY <2>1, <2>2, <1>2 DEF UndosCut, n
<1>6. CASE undos' = SubSeq(undos, 1, n)
  BY <1>2, <1>3, <1>6 DEF UndosCut, n
<1> QED
  BY <1>4, <1>5, <1>6

LEMMA CalmSteps ==
  ASSUME Facts, Scopes, Marks, Next, ~Stirs
  PROVE  Calm
<1>1. CASE InterceptBuild \/ Throw \/ Undone \/ GiveBackMoved \/ OpenCommit
  BY <1>1, UndosKept DEF Calm, InterceptBuild, Throw, Undone, GiveBackMoved, OpenCommit, leaves, lists
<1>2. CASE FinishBuild
  BY <1>2, UndosKept DEF Calm, FinishBuild, leaves
<1>3. CASE GiveBackRefused
  <2>1. InScope
    BY <1>3, CallType DEF GiveBackRefused, Facts, UserCode
  <2> QED
    BY <1>3, <2>1, UndosKept DEF Calm, GiveBackRefused, leaves
<1>11. CASE UndoRefused
  <2>1. InScope
    BY <1>11, UndoNext
  <2> QED
    BY <1>11, <2>1, UndosKept DEF Calm, UndoRefused
<1>4. CASE FreeMinted
  <2>1. parked' \subseteq parked /\ UNCHANGED <<trivia, written>>
    BY <1>4 DEF FreeMinted, Release, ParksLeft
  <2> QED
    BY <1>4, <2>1, UndosCutBack DEF Calm
<1>5. ASSUME NEW c \in Comments, BuildComment(c) \/ ReleaseComment(c) PROVE Calm
  BY <1>5, UndosKept DEF Calm, BuildComment, ReleaseComment, Release, ParksLeft, leaves, lists
<1>6. ASSUME NEW h \in Holders, NEW c \in Comments \cup {Nil}, WriteSite(h, c) PROVE Calm
  BY <1>6, UndosKept DEF Calm, WriteSite, leaves, lists
<1>7. ASSUME NEW h \in Holders, ReleaseHolder(h) PROVE Calm
  BY <1>7, UndosKept DEF Calm, ReleaseHolder, Release, ParksLeft, lists
<1>8. ASSUME NEW l \in Leaves, ReleaseLeaf(l) PROVE Calm
  BY <1>8, UndosKept DEF Calm, ReleaseLeaf, Release, ParksLeft, lists
<1>9. CASE CloseCommit
  <2>1. parked' \subseteq parked /\ UNCHANGED <<trivia, written, undos>>
    BY <1>9 DEF CloseCommit, Release, ParksLeft
  <2> QED
    BY <2>1, UndosKept DEF Calm
<1>10. ASSUME NEW i \in 1..MaxCommits, NEW c \in Comments, KeepComment(i, c) PROVE Calm
  BY <1>10, UndosKept DEF Calm, KeepComment, leaves, lists
<1> QED
  BY <1>1, <1>2, <1>3, <1>4, <1>5, <1>6, <1>7, <1>8, <1>9, <1>10, <1>11 DEF Next, Stirs

LEMMA CalmKeeps ==
  ASSUME Facts, Owners, Calm
  PROVE  Made' /\ Owners'
<1>1. parked' \subseteq parked /\ trivia' = trivia /\ written' = written /\ UndosCut
  BY DEF Calm
<1>2. Made'
  BY <1>1 DEF Facts, Made, Objects, UndosCut
<1>3. \A l, o : OfLeaf(o, l)' => OfLeaf(o, l)
  BY <1>1 DEF OfLeaf, UndosCut
<1>4. Owners'
  BY <1>3 DEF Owners
<1> QED
  BY <1>2, <1>4


\* An undo more, after those there were.
LEMMA UndosMore ==
  ASSUME Facts, NEW u \in Undo, undos' = Append(undos, u)
  PROVE  /\ Len(undos) \in Nat /\ Len(undos') = Len(undos) + 1 /\ undos'[Len(undos) + 1] = u
         /\ \A j \in 1..Len(undos) : undos'[j] = undos[j]
         /\ \A j \in 1..Len(undos') : j \in 1..Len(undos) \/ j = Len(undos) + 1
<1>1. undos \in Seq(Undo)
  BY SameTypes DEF ListTypes
<1>2. /\ Len(Append(undos, u)) = Len(undos) + 1 /\ Len(undos) \in Nat
      /\ \A i \in 1..Len(undos) + 1 : Append(undos, u)[i] = IF i = Len(undos) + 1 THEN u ELSE undos[i]
  BY <1>1, AppendSeq
<1> QED
  BY <1>2

LEMMA OfLeafMade ==
  ASSUME Facts, NEW l \in Leaves, NEW o, OfLeaf(o, l)
  PROVE  o \in Nat /\ o <= Len(written)
<1>1. CASE o = trivia[l]
  BY <1>1, LeafObject
<1>2. CASE o # trivia[l]
  BY <1>2, UndoType DEF OfLeaf
<1> QED
  BY <1>1, <1>2

LEMMA BuildHolderObjects ==
  ASSUME Facts, Owners, NEW h \in Holders, NEW l \in Leaves, BuildHolder(h, l)
  PROVE  Made' /\ Owners' /\ parked' \subseteq parked
<1> DEFINE p == GivenUp(l)
           u == [site |-> TRUE, leaf |-> l, next |-> 0, parked |-> p, own |-> 0]
<1>1. p \in {0, trivia[l]} /\ p \in Nat /\ p <= Len(written) /\ p \in 0..MaxWrites /\ Len(written) \in Nat
  BY LeafObject, ConstantsType DEF GivenUp
<1>2. u \in Undo
  BY <1>1, UndoRecords
<1>3. /\ written' = written /\ trivia' = trivia /\ parked' \subseteq parked
      /\ undos' = undos \/ undos' = Append(undos, u)
  BY DEF BuildHolder
<1>4. u.site /\ u.leaf = l /\ u.next = 0 /\ u.parked = p /\ u.own = 0
  OBVIOUS
<1> HIDE DEF u
<1>5. CASE undos' = undos
  <2>1. Calm
    BY <1>3, <1>5, UndosKept DEF Calm
  <2> QED
    BY <2>1, <1>3, CalmKeeps
<1>6. CASE undos' = Append(undos, u)
  <2>1. /\ Len(undos) \in Nat /\ Len(undos') = Len(undos) + 1 /\ undos'[Len(undos) + 1] = u
        /\ \A j \in 1..Len(undos) : undos'[j] = undos[j]
        /\ \A j \in 1..Len(undos') : j \in 1..Len(undos) \/ j = Len(undos) + 1
    BY <1>2, <1>6, UndosMore
  <2> HIDE DEF p
  <2>2. ASSUME NEW j \in 1..Len(undos')
        PROVE  /\ undos'[j].next <= Len(written') /\ undos'[j].parked <= Len(written') /\ undos'[j].own <= Len(written')
               /\ IF undos'[j].site THEN undos'[j].next = 0 ELSE undos'[j].own < undos'[j].next
    <3>1. CASE j \in 1..Len(undos)
      BY <3>1, <2>1, <1>3 DEF Facts, Made
    <3>2. CASE j = Len(undos) + 1
      BY <3>2, <2>1, <1>1, <1>3, <1>4
    <3> QED
      BY <2>1, <3>1, <3>2
  <2>3. Made'
    BY <2>2, <1>3 DEF Facts, Made, Objects
  <2>4. ASSUME NEW m \in Leaves, NEW o \in 1..MaxWrites, OfLeaf(o, m)' PROVE OfLeaf(o, m)
    <3>1. CASE o = trivia[m]
      BY <3>1 DEF OfLeaf
    <3>2. CASE o # trivia[m]
      <4>1. PICK j \in 1..Len(undos') : undos'[j].leaf = m /\ o \in {undos'[j].next, undos'[j].parked, undos'[j].own}
        BY <2>4, <3>2, <1>3 DEF OfLeaf
      <4>2. CASE j \in 1..Len(undos)
        BY <4>1, <4>2, <2>1 DEF OfLeaf
      <4>3. CASE j = Len(undos) + 1
        BY <4>1, <4>3, <3>2, <2>1, <1>1, <1>4
      <4> QED
        BY <2>1, <4>2, <4>3
    <3> QED
      BY <3>1, <3>2
  <2>5. Owners'
    BY <2>4 DEF Owners
  <2> QED
    BY <2>3, <2>5, <1>3
<1> QED
  BY <1>3, <1>5, <1>6

LEMMA UndoLastObjects ==
  ASSUME Facts, Scopes, Owners, UndoLast
  PROVE  Made' /\ Owners'
<1> DEFINE u == undos[call.n]
<1>1. call.n \in 1..Len(undos)
  BY UndoNext
<1>2. /\ u.parked \in Nat /\ u.parked <= Len(written) /\ u.own \in Nat /\ u.own <= Len(written)
      /\ u.leaf \in Leaves
  BY <1>1, UndoType
<1>3. /\ written' = written /\ undos' = undos
      /\ parked' = (parked \ {u.next}) \cup ({u.parked} \ {0})
      /\ trivia' = IF u.site THEN trivia ELSE [trivia EXCEPT ![u.leaf] = u.own]
  BY DEF UndoLast, Reparked
<1>4. \A m \in Leaves : trivia'[m] = trivia[m] \/ (m = u.leaf /\ trivia'[m] = u.own)
  BY <1>2, <1>3, SameTypes DEF LeafTypes
<1>5. Made'
  <2>1. Len(written) \in Nat
    BY SameTypes DEF LeafTypes
  <2>2. parked' \subseteq 1..Len(written)
    <3>1. parked \subseteq 1..Len(written)
      BY DEF Facts, Made, Objects
    <3>2. {u.parked} \ {0} \subseteq 1..Len(written)
      BY <2>1, <1>2
    <3> HIDE DEF u
    <3> QED
      BY <3>1, <3>2, <1>3
  <2>3. \A m \in Leaves : trivia'[m] <= Len(written)
    BY <1>2, <1>4 DEF Facts, Made
  <2> HIDE DEF u
  <2> QED
    BY <2>2, <2>3, <1>3 DEF Facts, Made, Objects
<1>6. ASSUME NEW m \in Leaves, NEW o \in 1..MaxWrites, OfLeaf(o, m)' PROVE OfLeaf(o, m)
  <2>1. o = trivia'[m] \/ \E j \in 1..Len(undos) : undos[j].leaf = m /\ o \in {undos[j].next, undos[j].parked, undos[j].own}
    BY <1>3, <1>6 DEF OfLeaf
  <2> QED
    BY <2>1, <1>1, <1>4 DEF OfLeaf
<1>7. Owners'
  BY <1>6 DEF Owners
<1> QED
  BY <1>5, <1>7

LEMMA KeepLeafObjects ==
  ASSUME Facts, Owners, NEW i, NEW l \in Leaves, KeepLeaf(i, l)
  PROVE  Made' /\ Owners' /\ parked \subseteq parked'
<1>1. /\ written' = written /\ undos' = undos /\ trivia' = trivia
      /\ parked' = parked \/ (Unparked(l) /\ parked' = parked \cup {trivia[l]})
  BY DEF KeepLeaf
<1>2. Unparked(l) => trivia[l] \in 1..Len(written)
  BY LeafObject DEF Unparked
<1>3. Made'
  BY <1>1, <1>2 DEF Facts, Made, Objects
<1>4. Owners'
  BY <1>1 DEF Owners, OfLeaf
<1> QED
  BY <1>1, <1>3, <1>4

LEMMA WriteLeafObjects ==
  ASSUME Facts, Owners, NEW l \in Leaves, NEW c \in Comments \cup {Nil}, WriteLeaf(l, c)
  PROVE  /\ Made' /\ Owners'
         /\ trivia'[l] = Len(written) + 1 /\ Len(written') = Len(written) + 1
         /\ parked' = parked \/ parked' = (parked \ {ParkedOf(l)}) \cup {Len(written) + 1}
<1> DEFINE o == Len(written) + 1
           old == ParkedOf(l)
           u == [site |-> FALSE, leaf |-> l, next |-> o, parked |-> old, own |-> trivia[l]]
<1>1. /\ old \in {0, trivia[l]} /\ old \in Nat /\ old <= Len(written) /\ old \in 0..MaxWrites
      /\ trivia[l] \in Nat /\ trivia[l] <= Len(written) /\ trivia[l] \in 0..MaxWrites
      /\ Len(written) \in Nat /\ Len(written) < MaxWrites
  BY LeafObject, ConstantsType DEF WriteLeaf
<1>2. o \in 1..MaxWrites /\ o \in 0..MaxWrites
  BY <1>1, ConstantsType
<1>3. u \in Undo
  <2> HIDE DEF o, old
  <2>1. [site |-> FALSE, leaf |-> l, next |-> o, parked |-> old, own |-> trivia[l]] \in Undo
    BY <1>1, <1>2, UndoRecords
  <2> QED
    BY <2>1
<1>4. /\ written' = Append(written, c) /\ trivia' = [trivia EXCEPT ![l] = o]
      /\ parked' = parked \/ parked' = (parked \ {old}) \cup {o}
      /\ undos' = undos \/ undos' = Append(undos, u)
  BY DEF WriteLeaf
<1>5. /\ ~u.site /\ u.leaf = l /\ u.next = o /\ u.parked = old /\ u.own = trivia[l]
  OBVIOUS
<1>6. Len(written') = o
  BY <1>4, WrittenMore
<1>7. \A m \in Leaves : trivia'[m] = IF m = l THEN o ELSE trivia[m]
  BY <1>4, SameTypes DEF LeafTypes
<1> HIDE DEF u
<1>8. /\ \A j \in 1..Len(undos') : (j \in 1..Len(undos) /\ undos'[j] = undos[j]) \/ undos'[j] = u
  <2>1. CASE undos' = undos
    BY <2>1
  <2>2. CASE undos' = Append(undos, u)
    BY <2>2, <1>3, UndosMore
  <2> QED
    BY <2>1, <2>2, <1>4
<1>9. Made'
  <2>1. parked' \subseteq 1..Len(written')
    <3> DEFINE N == Len(written)
    <3>1. parked \subseteq 1..N
      BY DEF Facts, Made, Objects
    <3>2. N \in Nat /\ Len(written') = N + 1
      BY <1>1, <1>6
    <3>3. parked' = parked \/ parked' = (parked \ {old}) \cup {N + 1}
      BY <1>4
    <3>4. N + 1 \in 1..N + 1 /\ 1..N \subseteq 1..N + 1
      BY <3>2
    <3>5. parked \subseteq 1..Len(written') /\ N + 1 \in 1..Len(written')
      BY <3>1, <3>2, <3>4
    <3> HIDE DEF N, old
    <3> QED
      BY <3>3, <3>5, Zenon
  <2>2. \A m \in Leaves : trivia'[m] <= Len(written')
    BY <1>1, <1>6, <1>7, LeafObject
  <2>3. ASSUME NEW j \in 1..Len(undos')
        PROVE  /\ undos'[j].next <= Len(written') /\ undos'[j].parked <= Len(written') /\ undos'[j].own <= Len(written')
               /\ IF undos'[j].site THEN undos'[j].next = 0 ELSE undos'[j].own < undos'[j].next
    <3>1. CASE j \in 1..Len(undos) /\ undos'[j] = undos[j]
      BY <3>1, <1>1, <1>6, UndoType
    <3>2. CASE undos'[j] = u
      <4> HIDE DEF old
      <4> QED
        BY <3>2, <1>1, <1>5, <1>6
    <3> QED
      BY <1>8, <3>1, <3>2
  <2> QED
    BY <2>1, <2>2, <2>3 DEF Made, Objects
<1>10. ASSUME NEW m \in Leaves, NEW x \in 1..MaxWrites, OfLeaf(x, m)'
       PROVE  OfLeaf(x, m) \/ (m = l /\ x = o)
  <2>1. CASE x = trivia'[m]
    BY <2>1, <1>7 DEF OfLeaf
  <2>2. CASE x # trivia'[m]
    <3>1. PICK j \in 1..Len(undos') : undos'[j].leaf = m /\ x \in {undos'[j].next, undos'[j].parked, undos'[j].own}
      BY <1>10, <2>2 DEF OfLeaf
    <3>2. CASE j \in 1..Len(undos) /\ undos'[j] = undos[j]
      BY <3>1, <3>2 DEF OfLeaf
    <3>3. CASE undos'[j] = u
      <4>1. m = l /\ x \in {o, old, trivia[l]}
        BY <3>1, <3>3, <1>5
      <4>2. x = o \/ x = trivia[l]
        BY <4>1, <1>1
      <4> QED
        BY <4>1, <4>2 DEF OfLeaf
    <3> QED
      BY <1>8, <3>2, <3>3
  <2> QED
    BY <2>1, <2>2
<1>11. \A m \in Leaves : ~OfLeaf(o, m)
  BY <1>1, OfLeafMade
<1>12. Owners'
  <2> SUFFICES ASSUME NEW k \in Leaves, NEW m \in Leaves, k # m, NEW x \in 1..MaxWrites, OfLeaf(x, k)', OfLeaf(x, m)'
               PROVE  FALSE
    BY DEF Owners
  <2> QED
    BY <1>10, <1>11 DEF Owners
<1> QED
  BY <1>4, <1>6, <1>7, <1>9, <1>12

LEMMA NextObjects ==
  ASSUME Facts, Scopes, Marks, Owners, Next
  PROVE  Made' /\ Owners'
<1>1. CASE ~Stirs
  BY <1>1, CalmSteps, CalmKeeps
<1>2. CASE UndoLast
  BY <1>2, UndoLastObjects
<1>3. CASE Stirs /\ ~UndoLast
  BY <1>3, BuildHolderObjects, WriteLeafObjects, KeepLeafObjects DEF Stirs
<1> QED
  BY <1>1, <1>2, <1>3


-----------------------------------------------------------------------------
(* What is counted or named was built.                                     *)

NamesBuilt ==
  /\ used \subseteq used' /\ owned' \cup alive' \subseteq used'
  /\ \A h \in alive' : row'[h] \in used' \cup {Nil}
  /\ \A o \in 1..Len(written') : written'[o] \in used' \cup {Nil}

LEMMA LiveUsed == ASSUME Facts, NEW c \in Comments \cup {Nil}, Live(c) PROVE c \in used \cup {Nil}
BY DEF Facts, Named, Live

LEMMA EntryUsed == ASSUME Facts, NEW o \in Nat, o <= Len(written) PROVE Entry(o) \in used \cup {Nil}
BY DEF Facts, Named, Entry, Objects

LEMMA RowsUsed ==
  ASSUME Facts, used \subseteq used', alive' \subseteq alive, \A h \in alive' : row'[h] \in {row[h], Nil},
         owned' \subseteq owned, UNCHANGED written
  PROVE  NamesBuilt
BY DEF Facts, Named, NamesBuilt, Objects

LEMMA SitesUsed ==
  ASSUME Facts, NEW c \in Comments \cup {Nil}, Live(c), UNCHANGED <<used, alive>>, owned' \subseteq owned,
         \A h \in alive : row'[h] \in {row[h], c}, written' = written \/ written' = Append(written, c)
  PROVE  NamesBuilt
<1>1. c \in used \cup {Nil} /\ owned \cup alive \subseteq used /\ \A h \in alive : row[h] \in used \cup {Nil}
  BY LiveUsed DEF Facts, Named
<1>2. written \in Seq(Comments \cup {Nil}) /\ \A o \in 1..Len(written) : written[o] \in used \cup {Nil}
  BY DEF Facts, TypeOK, Named, Objects
<1>3. \A o \in 1..Len(written') : written'[o] \in used \cup {Nil}
  <2>1. CASE written' = written
    BY <2>1, <1>2
  <2>2. CASE written' = Append(written, c)
    <3>1. /\ Len(Append(written, c)) = Len(written) + 1 /\ Len(written) \in Nat
          /\ \A i \in 1..Len(written) + 1 : Append(written, c)[i] = IF i = Len(written) + 1 THEN c ELSE written[i]
      BY <1>2, AppendSeq
    <3> QED
      BY <2>2, <3>1, <1>1, <1>2
  <2> QED
    BY <2>1, <2>2
<1> QED
  BY <1>1, <1>3 DEF NamesBuilt

LEMMA ReleaseNamed ==
  ASSUME Facts, NEW hs, NEW cs, NEW os, Release(hs, cs, os)
  PROVE  NamesBuilt
<1>1. row \in [Holders -> Comments \cup {Nil}] /\ alive \subseteq Holders
  BY SameTypes DEF StoreTypes
<1>2. owned' \subseteq owned /\ alive' \subseteq alive /\ UNCHANGED <<used, written>>
  BY DEF Release
<1>3. \A h \in alive' : row'[h] \in {row[h], Nil}
  BY <1>1, <1>2 DEF Release
<1> QED
  BY <1>2, <1>3, RowsUsed

LEMMA NextNamesBuilt == ASSUME Facts, Scopes, Marks, Next PROVE NamesBuilt
<1>1. CASE InterceptBuild \/ FinishBuild \/ Throw \/ Undone \/ GiveBackRefused \/ OpenCommit
  <2>1. UNCHANGED <<owned, used, alive, row, written>>
    BY <1>1 DEF InterceptBuild, FinishBuild, Throw, Undone, GiveBackRefused, OpenCommit, store, leaves
  <2> QED
    BY <2>1, RowsUsed
<1>2. CASE FreeMinted \/ CloseCommit
  <2>1. \E hs, cs, os : Release(hs, cs, os)
    BY <1>2, FreeMintedReleases, CloseCommitReleases DEF Facts
  <2> QED
    BY <2>1, ReleaseNamed
<1>3. ASSUME NEW c \in Comments, ReleaseComment(c) PROVE NamesBuilt
  BY <1>3, ReleaseNamed DEF ReleaseComment
<1>4. ASSUME NEW h \in Holders, ReleaseHolder(h) PROVE NamesBuilt
  BY <1>4, ReleaseNamed DEF ReleaseHolder
<1>5. ASSUME NEW l \in Leaves, ReleaseLeaf(l) PROVE NamesBuilt
  BY <1>5, ReleaseNamed DEF ReleaseLeaf
<1>6. ASSUME NEW c \in Comments, BuildComment(c) PROVE NamesBuilt
  BY <1>6 DEF BuildComment, Mint, NamesBuilt, Facts, Named, Objects, leaves
<1>7. ASSUME NEW h \in Holders, NEW l \in Leaves, BuildHolder(h, l) PROVE NamesBuilt
  <2>1. Entry(trivia[l]) \in used \cup {Nil}
    BY LeafObject, EntryUsed
  <2>2. row \in [Holders -> Comments \cup {Nil}] /\ alive \subseteq Holders
    BY SameTypes DEF StoreTypes
  <2> QED
    BY <1>7, <2>1, <2>2 DEF BuildHolder, Mint, NamesBuilt, Facts, Named, Objects
<1>8. CASE UndoLast \/ UndoRefused
  <2>1. owned' \subseteq owned /\ UNCHANGED <<used, alive, row, written>>
    BY <1>8 DEF UndoLast, UndoRefused
  <2> QED
    BY <2>1, RowsUsed
<1>9. CASE GiveBackMoved
  <2>1. moved[call.n] \in Comments /\ count[moved[call.n]] > 0
    BY <1>9, GiveBackMovedGain DEF GiveBackMoved
  <2>2. moved[call.n] \in used
    BY <2>1 DEF Facts, Named
  <2> QED
    BY <1>9, <2>2 DEF GiveBackMoved, NamesBuilt, Facts, Named, Objects, leaves
<1>10. ASSUME NEW l \in Leaves, NEW c \in Comments \cup {Nil}, WriteLeaf(l, c) PROVE NamesBuilt
  <2>1. row \in [Holders -> Comments \cup {Nil}] /\ alive \subseteq Holders
    BY SameTypes DEF StoreTypes
  <2>2. Live(c) /\ UNCHANGED <<used, alive>> /\ owned' \subseteq owned /\ written' = Append(written, c)
    BY <1>10 DEF WriteLeaf
  <2>3. \A k \in alive : row'[k] \in {row[k], c}
    BY <2>1, <1>10 DEF WriteLeaf
  <2> QED
    BY <2>2, <2>3, SitesUsed
<1>11. ASSUME NEW h \in Holders, NEW c \in Comments \cup {Nil}, WriteSite(h, c) PROVE NamesBuilt
  <2>1. row \in [Holders -> Comments \cup {Nil}] /\ alive \subseteq Holders
    BY SameTypes DEF StoreTypes
  <2>2. Live(c) /\ UNCHANGED <<used, alive>> /\ owned' \subseteq owned /\ written' = written
    BY <1>11 DEF WriteSite, leaves
  <2>3. \A k \in alive : row'[k] \in {row[k], c}
    BY <2>1, <1>11 DEF WriteSite
  <2> QED
    BY <2>2, <2>3, SitesUsed
<1>12. ASSUME NEW i, NEW c \in Comments, KeepComment(i, c) PROVE NamesBuilt
  <2>1. c \in used
    BY <1>12 DEF KeepComment, Facts, Named
  <2> QED
    BY <1>12, <2>1 DEF KeepComment, NamesBuilt, Facts, Named, Objects, leaves
<1>13. ASSUME NEW i, NEW l \in Leaves, KeepLeaf(i, l) PROVE NamesBuilt
  <2>1. owned' \subseteq owned /\ UNCHANGED <<used, alive, row, written>>
    BY <1>13 DEF KeepLeaf
  <2> QED
    BY <2>1, RowsUsed
<1> QED
  BY <1>1, <1>2, <1>3, <1>4, <1>5, <1>6, <1>7, <1>8, <1>9, <1>10, <1>11, <1>12, <1>13 DEF Next

\* What nothing names holds nothing.
LEMMA NoneHeld ==
  ASSUME NEW ow, NEW al, NEW rw, NEW pk, NEW wr, NEW x, x \notin ow, \A h \in al : rw[h] # x, \A o \in pk : wr[o] # x
  PROVE  OwnCount(ow, x) + RowCount(al, rw, x) + ParkCount(pk, wr, x) = 0
<1>1. {h \in al : rw[h] = x} = {} /\ {o \in pk : wr[o] = x} = {} /\ ow \cap {x} = {}
  OBVIOUS
<1>2. OwnCount(ow, x) = 0 /\ RowCount(al, rw, x) = 0 /\ ParkCount(pk, wr, x) = 0
  BY <1>1, FS_EmptySet DEF OwnCount, RowCount, ParkCount
<1> QED
  BY <1>2

LEMMA NextNamed == ASSUME Facts, Scopes, Marks, Owners, SidesCover, Next PROVE Named'
<1>1. NamesBuilt /\ AllTypes' /\ TypeOK' /\ Made'
  BY NextNamesBuilt, NextTypes, NextCovers, NextObjects
<1>2. parked' \subseteq 1..Len(written')
  BY <1>1 DEF Made, Objects
<1>3. ASSUME NEW x \in Comments, x \notin used' PROVE count'[x] = 0
  <2>1. x # Nil /\ x \notin used /\ count[x] \in Nat /\ HoldsOf(x) \in Nat
    BY <1>1, <1>3, HoldsTypes DEF NamesBuilt
  <2>2. count[x] = 0 /\ HoldsOf(x) = 0
    <3>1. ~(count[x] > 0) /\ count[x] >= HoldsOf(x)
      BY <2>1 DEF Facts, Named, SidesCover
    <3> QED
      BY <2>1, <3>1
  <2>3. HoldsOf(x)' = 0
    <3>1. x \notin owned' /\ \A h \in alive' : row'[h] # x
      BY <1>1, <1>3, <2>1 DEF NamesBuilt
    <3>2. \A o \in parked' : written'[o] \in used' \cup {Nil}
      BY <1>1, <1>2 DEF NamesBuilt
    <3>3. \A o \in parked' : written'[o] # x
      BY <3>2, <1>3, <2>1
    <3> QED
      BY <3>1, <3>3, NoneHeld, HoldsAfter
  <2>4. Excess(x)' = Excess(x)
    <3>1. CASE UndoLast
      <4>1. Entry(undos[call.n].parked) \in used \cup {Nil}
        BY <3>1, UndoNext, UndoType, EntryUsed
      <4> QED
        BY <3>1, <4>1, <2>1, UndoLastGain
    <3>2. CASE GiveBackMoved
      <4>1. moved[call.n] \in Comments /\ count[moved[call.n]] > 0
        BY <3>2, GiveBackMovedGain DEF GiveBackMoved
      <4>2. moved[call.n] # x
        BY <4>1, <2>2
      <4> QED
        BY <3>2, <4>2, GiveBackMovedGain
    <3>3. CASE ~UndoLast /\ ~GiveBackMoved
      BY <3>3, TouchesEven DEF SidesEven
    <3> QED
      BY <3>1, <3>2, <3>3
  <2>5. count'[x] \in Nat
    BY <1>1 DEF TypeOK
  <2>6. Excess(x) = count[x] - HoldsOf(x) /\ Excess(x)' = count'[x] - HoldsOf(x)'
    BY DEF Excess
  <2> QED
    BY <2>2, <2>3, <2>4, <2>5, <2>6
<1>4. \A c \in Comments : count'[c] > 0 => c \in used'
  BY <1>3
<1>5. IsFiniteSet(alive')
  BY <1>1 DEF AllTypes, CountTypes
<1> QED
  BY <1>1, <1>4, <1>5 DEF Named, NamesBuilt, Objects


-----------------------------------------------------------------------------
(* What the lists held when each scope began.                              *)

LEMMA AppendLen ==
  ASSUME NEW S, NEW s \in Seq(S), NEW e
  PROVE  /\ Len(Append(s, e)) = Len(s) + 1 /\ Len(s) \in Nat
         /\ \A i \in 1..Len(s) : Append(s, e)[i] = s[i]
         /\ Append(s, e)[Len(s) + 1] = e
<1>1. s \in Seq(S \cup {e}) /\ e \in S \cup {e}
  OBVIOUS
<1> DEFINE T == S \cup {e}
<1> HIDE DEF T
<1>2. /\ Len(Append(s, e)) = Len(s) + 1 /\ Len(s) \in Nat
      /\ \A i \in 1..Len(s) + 1 : Append(s, e)[i] = IF i = Len(s) + 1 THEN e ELSE s[i]
  BY <1>1, AppendSeq DEF T
<1> QED
  BY <1>2

Lengths ==
  /\ Len(minted) \in Nat /\ Len(moved) \in Nat /\ Len(undos) \in Nat /\ Len(listed) \in Nat
  /\ Len(frames) \in Nat /\ Len(commits) \in Nat

LEMMA LengthsNat ==
  ASSUME Facts
  PROVE  /\ Lengths
         /\ \A i \in 1..Len(frames) : frames[i] \in Frame /\ frames[i].minted \in Nat /\ frames[i].moved \in Nat /\ frames[i].undos \in Nat
         /\ \A i \in 1..Len(commits) : commits[i] \in Mark /\ commits[i].minted \in Nat /\ commits[i].listed \in Nat
<1>1. Lengths
  BY DEF Facts, TypeOK, Lengths
<1>2. \A i \in 1..Len(frames) : frames[i] \in Frame
  BY DEF Facts, TypeOK
<1>3. \A i \in 1..Len(commits) : commits[i] \in Mark
  BY DEF Facts, TypeOK
<1> QED
  BY <1>1, <1>2, <1>3 DEF Frame, Mark

Grown(s) == Len(s') \in Nat /\ Len(s') >= Len(s)

SameScopes ==
  /\ Len(frames') = Len(frames)
  /\ \A i \in 1..Len(frames) :
       frames'[i].minted = frames[i].minted /\ frames'[i].moved = frames[i].moved /\ frames'[i].undos = frames[i].undos

SameMarks ==
  /\ Len(commits') = Len(commits)
  /\ \A i \in 1..Len(commits) : commits'[i].minted = commits[i].minted /\ commits'[i].listed = commits[i].listed

\* A step that adds to the lists, and begins and ends no scope.
Widens == Grown(minted) /\ Grown(moved) /\ Grown(undos) /\ Grown(listed) /\ SameScopes /\ SameMarks

\* The scopes but for where a rollback is.
Nested ==
  /\ \A i \in 1..Len(frames) : Within(frames[i], Len(minted), Len(moved), Len(undos))
  /\ \A i, j \in 1..Len(frames) :
       i <= j => Within(frames[i], frames[j].minted, frames[j].moved, frames[j].undos)

LEMMA WidensNests ==
  ASSUME Facts, Nested, Marks, Widens
  PROVE  Nested' /\ Marks'
<1>1. ASSUME NEW i \in 1..Len(frames') PROVE Within(frames'[i], Len(minted'), Len(moved'), Len(undos'))
  <2> DEFINE f == frames[i]
             g == frames'[i]
  <2>1. i \in 1..Len(frames) /\ g.minted = f.minted /\ g.moved = f.moved /\ g.undos = f.undos
    BY <1>1 DEF Widens, SameScopes
  <2>2. f.minted <= Len(minted) /\ f.moved <= Len(moved) /\ f.undos <= Len(undos)
    BY <2>1 DEF Nested, Within
  <2>3. f.minted \in Nat /\ f.moved \in Nat /\ f.undos \in Nat
    BY <2>1, LengthsNat
  <2>4. Len(minted) \in Nat /\ Len(moved) \in Nat /\ Len(undos) \in Nat
    BY LengthsNat DEF Lengths
  <2>5. /\ Len(minted') \in Nat /\ Len(moved') \in Nat /\ Len(undos') \in Nat
        /\ Len(minted') >= Len(minted) /\ Len(moved') >= Len(moved) /\ Len(undos') >= Len(undos)
    BY DEF Widens, Grown
  <2> HIDE DEF f, g
  <2>6. f.minted <= Len(minted') /\ f.moved <= Len(moved') /\ f.undos <= Len(undos')
    BY <2>2, <2>3, <2>4, <2>5
  <2> QED
    BY <2>1, <2>6 DEF Within, g
<1>2. ASSUME NEW i \in 1..Len(frames'), NEW j \in 1..Len(frames'), i <= j
      PROVE  Within(frames'[i], frames'[j].minted, frames'[j].moved, frames'[j].undos)
  BY <1>2 DEF Nested, Within, Widens, SameScopes
<1>3. Nested'
  BY <1>1, <1>2 DEF Nested
<1>4. Marks'
  BY SMTT(30), LengthsNat DEF Marks, Widens, SameScopes, SameMarks, Grown, Lengths
<1> QED
  BY <1>3, <1>4

LEMMA AddedGrown ==
  ASSUME Facts
  PROVE  /\ \A x : (minted' = minted \/ minted' = Append(minted, x)) => Grown(minted)
         /\ \A x : (moved' = moved \/ moved' = Append(moved, x)) => Grown(moved)
         /\ \A x : (undos' = undos \/ undos' = Append(undos, x)) => Grown(undos)
         /\ \A x : (listed' = listed \/ listed' = Append(listed, x)) => Grown(listed)
<1>1. ListTypes
  BY SameTypes
<1>2. ASSUME NEW x PROVE (minted' = minted \/ minted' = Append(minted, x)) => Grown(minted)
  BY <1>1, AppendLen DEF ListTypes, Grown
<1>3. ASSUME NEW x PROVE (moved' = moved \/ moved' = Append(moved, x)) => Grown(moved)
  BY <1>1, AppendLen DEF ListTypes, Grown
<1>4. ASSUME NEW x PROVE (undos' = undos \/ undos' = Append(undos, x)) => Grown(undos)
  BY <1>1, AppendLen DEF ListTypes, Grown
<1>5. ASSUME NEW x PROVE (listed' = listed \/ listed' = Append(listed, x)) => Grown(listed)
  BY <1>1, AppendLen DEF ListTypes, Grown
<1> QED
  BY <1>2, <1>3, <1>4, <1>5

LEMMA TouchSame ==
  ASSUME Facts
  PROVE  /\ Touch \/ Touched \/ UNCHANGED frames => SameScopes
         /\ UNCHANGED commits => SameMarks
BY TouchFacts DEF Facts, SameScopes, SameMarks, Touched

LEMMA KeepInSame ==
  ASSUME Facts, NEW i \in 1..Len(commits), NEW x \in Comments \cup Leaves, KeepIn(i, x)
  PROVE  SameMarks
BY KeepInFacts DEF Facts, SameMarks

\* The steps that begin or end a scope, or one of commits.
Scoping == InterceptBuild \/ FinishBuild \/ UndoRefused \/ GiveBackRefused \/ FreeMinted \/ OpenCommit \/ CloseCommit

\* Those that roll a build back, one after the other.
Rolling == Throw \/ UndoLast \/ Undone \/ GiveBackMoved

Onward == Widens /\ (~Rolling => UserCode /\ call' = call)

LEMMA WidenSteps ==
  ASSUME Facts, Next, ~Scoping
  PROVE  Onward
<1> USE AddedGrown, TouchSame DEF Onward, Widens
<1>1. CASE Throw
  BY <1>1 DEF Throw, lists, Rolling
<1>2. CASE UndoLast
  <2>1. UNCHANGED <<minted, undos, listed, frames, commits>> /\ moved' = Moved(Entry(undos[call.n].parked))
    BY <1>2 DEF UndoLast
  <2> QED
    BY <1>2, <2>1 DEF Moved, Rolling
<1>3. CASE Undone
  BY <1>3 DEF Undone, lists, Rolling
<1>4. CASE GiveBackMoved
  BY <1>4 DEF GiveBackMoved, lists, Rolling
<1>5. ASSUME NEW c \in Comments, BuildComment(c) PROVE Onward
  BY <1>5 DEF BuildComment, Mint
<1>6. ASSUME NEW c \in Comments, ReleaseComment(c) PROVE Onward
  BY <1>6 DEF ReleaseComment, lists
<1>7. ASSUME NEW h \in Holders, NEW l \in Leaves, BuildHolder(h, l) PROVE Onward
  BY <1>7 DEF BuildHolder, Mint
<1>8. ASSUME NEW l \in Leaves, NEW c \in Comments \cup {Nil}, WriteLeaf(l, c) PROVE Onward
  <2>1. /\ UNCHANGED <<minted, commits>> /\ Touched /\ UserCode /\ call' = call
        /\ moved' = moved \/ moved' = Append(moved, c)
        /\ \E e : undos' = undos \/ undos' = Append(undos, e)
        /\ listed' = listed \/ listed' = Append(listed, l)
    BY <1>8, WriteTouched DEF WriteLeaf
  <2> QED
    BY <2>1
<1>9. ASSUME NEW h \in Holders, NEW c \in Comments \cup {Nil}, WriteSite(h, c) PROVE Onward
  BY <1>9 DEF WriteSite, lists
<1>10. ASSUME NEW h \in Holders, ReleaseHolder(h) PROVE Onward
  BY <1>10 DEF ReleaseHolder, lists
<1>11. ASSUME NEW l \in Leaves, ReleaseLeaf(l) PROVE Onward
  BY <1>11 DEF ReleaseLeaf, lists, Touched
<1>12. ASSUME NEW i, NEW c \in Comments, KeepComment(i, c) PROVE Onward
  <2>1. KeepIn(i, c) /\ i \in 1..Len(commits) /\ UNCHANGED <<minted, moved, undos, listed>> /\ Touch /\ UserCode /\ call' = call
    BY <1>12 DEF KeepComment, lists
  <2> QED
    BY <2>1, KeepInSame
<1>13. ASSUME NEW i, NEW l \in Leaves, KeepLeaf(i, l) PROVE Onward
  <2>1. KeepIn(i, l) /\ i \in 1..Len(commits) /\ UNCHANGED <<minted, undos>> /\ Touched /\ UserCode /\ call' = call
    BY <1>13, KeepTouched DEF KeepLeaf
  <2>2. (moved' = moved \/ moved' = Moved(Entry(trivia[l]))) /\ (listed' = listed \/ listed' = Append(listed, l))
    BY <1>13 DEF KeepLeaf
  <2> QED
    BY <2>1, <2>2, KeepInSame DEF Moved
<1> QED
  BY <1>1, <1>2, <1>3, <1>4, <1>5, <1>6, <1>7, <1>8, <1>9, <1>10, <1>11, <1>12, <1>13 DEF Next, Scoping


LEMMA TopNested ==
  ASSUME Facts, Nested, Marks, InScope
  PROVE  /\ Len(frames) \in 1..Len(frames) /\ Top = frames[Len(frames)]
         /\ Within(Top, Len(minted), Len(moved), Len(undos))
         /\ \A i \in 1..Len(frames) : Within(frames[i], Top.minted, Top.moved, Top.undos)
         /\ \A i \in 1..Len(commits) : commits[i].minted <= Top.minted
<1>1. Len(frames) \in 1..Len(frames) /\ Top = frames[Len(frames)] /\ Len(frames) \in Nat
  BY TopType DEF Facts
<1>2. \A i \in 1..Len(frames) : i <= Len(frames)
  BY <1>1
<1> QED
  BY <1>1, <1>2 DEF Nested, Marks

LEMMA InterceptBuildNests == ASSUME Facts, Nested, Marks, InterceptBuild PROVE Nested' /\ Marks'
<1> DEFINE f == [minted |-> Len(minted), moved |-> Len(moved), undos |-> Len(undos),
                 touched |-> FALSE, strayed |-> FALSE, trivia |-> trivia, parked |-> parked]
           n == Len(frames) + 1
<1>1. frames' = Append(frames, f) /\ UNCHANGED <<minted, moved, undos, listed, commits>>
  BY DEF InterceptBuild, lists
<1>2. f.minted = Len(minted) /\ f.moved = Len(moved) /\ f.undos = Len(undos)
  OBVIOUS
<1> HIDE DEF f
<1>3. frames \in Seq(Frame)
  BY SameTypes DEF ScopeTypes
<1>4. /\ Len(frames') = n /\ Len(frames) \in Nat /\ frames'[n] = f
      /\ \A i \in 1..Len(frames) : frames'[i] = frames[i]
  BY <1>1, <1>3, AppendLen
<1>5. \A i \in 1..n : i \in 1..Len(frames) \/ i = n
  BY <1>4
<1>6. Within(f, Len(minted), Len(moved), Len(undos))
  BY <1>2, LengthsNat DEF Within, Lengths
<1>7. Nested'
  <2>1. ASSUME NEW i \in 1..n PROVE Within(frames'[i], Len(minted), Len(moved), Len(undos))
    BY <1>4, <1>5, <1>6 DEF Nested
  <2>2. ASSUME NEW i \in 1..n, NEW j \in 1..n, i <= j PROVE Within(frames'[i], frames'[j].minted, frames'[j].moved, frames'[j].undos)
    <3>1. CASE j = n
      BY <3>1, <2>1, <1>2, <1>4
    <3>2. CASE j # n
      <4>1. i \in 1..Len(frames) /\ j \in 1..Len(frames)
        BY <3>2, <2>2, <1>4, <1>5
      <4> QED
        BY <4>1, <2>2, <1>4 DEF Nested
    <3> QED
      BY <3>1, <3>2
  <2> HIDE DEF n
  <2> QED
    BY <2>1, <2>2, <1>1, <1>4 DEF Nested
<1>8. Marks'
  <2>1. ASSUME NEW i \in 1..Len(commits), NEW j \in 1..n PROVE commits[i].minted <= frames'[j].minted
    BY <1>2, <1>4, <1>5 DEF Marks
  <2> HIDE DEF n
  <2> QED
    BY <2>1, <1>1, <1>4 DEF Marks
<1> QED
  BY <1>7, <1>8

LEMMA EndScopeNests ==
  ASSUME Facts, Nested, Marks, InScope, NEW m, NEW v, NEW u, EndScope(m, v, u), UNCHANGED <<listed, commits>>,
         Len(m) \in Nat, Len(v) \in Nat, Len(u) \in Nat, Within(Top, Len(m), Len(v), Len(u))
  PROVE  Nested' /\ Marks'
<1>1. /\ Len(frames') = Len(frames) - 1 /\ Len(frames) \in Nat \ {0}
      /\ \A i \in 1..Len(frames') : frames'[i] = frames[i] /\ i \in 1..Len(frames)
      /\ frames' # <<>> => minted' = m /\ moved' = v /\ undos' = u
      /\ commits # <<>> => minted' = m
  BY EndScopeFacts DEF Facts
<1>2. \A i \in 1..Len(frames') : Within(frames[i], Top.minted, Top.moved, Top.undos) /\ frames' # <<>>
  BY <1>1, TopNested, EmptySeq
<1>3. Top.minted \in Nat /\ Top.moved \in Nat /\ Top.undos \in Nat
  BY TopType DEF Facts
<1>4. ASSUME NEW i \in 1..Len(frames') PROVE Within(frames'[i], Len(minted'), Len(moved'), Len(undos'))
  <2>1. i \in 1..Len(frames) /\ frames'[i] = frames[i] /\ Within(frames[i], Top.minted, Top.moved, Top.undos)
    BY <1>1, <1>2
  <2>2. minted' = m /\ moved' = v /\ undos' = u
    BY <1>1, <1>2
  <2>3. frames[i].minted \in Nat /\ frames[i].moved \in Nat /\ frames[i].undos \in Nat
    BY <2>1, LengthsNat
  <2> QED
    BY SMTT(30), <2>1, <2>2, <2>3, <1>3 DEF Within
<1>5. ASSUME NEW i \in 1..Len(frames'), NEW j \in 1..Len(frames'), i <= j
      PROVE  Within(frames'[i], frames'[j].minted, frames'[j].moved, frames'[j].undos)
  BY <1>5, <1>1 DEF Nested
<1>6. Nested'
  BY <1>4, <1>5 DEF Nested
<1>7. ASSUME NEW i \in 1..Len(commits) PROVE commits[i].minted <= Len(minted')
  <2>1. commits # <<>>
    <3>1. Len(commits) # 0
      BY LengthsNat DEF Lengths
    <3> QED
      BY <3>1
  <2>2. commits[i].minted <= Top.minted /\ commits[i].minted \in Nat /\ minted' = m
    BY <2>1, <1>1, TopNested, LengthsNat
  <2> QED
    BY <2>2, <1>3 DEF Within
<1>8. Marks'
  BY <1>1, <1>7 DEF Marks
<1> QED
  BY <1>6, <1>8

LEMMA OpenCommitNests == ASSUME Facts, Nested, Marks, OpenCommit PROVE Nested' /\ Marks'
<1> DEFINE k == [minted |-> Len(minted), listed |-> Len(listed), kept |-> {}]
           n == Len(commits) + 1
<1>1. commits' = Append(commits, k) /\ UNCHANGED <<minted, moved, undos, listed, frames>> /\ frames = <<>>
  BY DEF OpenCommit, lists, InScope
<1>2. k.minted = Len(minted) /\ k.listed = Len(listed)
  OBVIOUS
<1> HIDE DEF k
<1>3. commits \in Seq(Mark) /\ Len(frames') = 0
  BY <1>1, SameTypes DEF ScopeTypes
<1>4. /\ Len(commits') = n /\ Len(commits) \in Nat /\ commits'[n] = k
      /\ \A i \in 1..Len(commits) : commits'[i] = commits[i]
  BY <1>1, <1>3, AppendLen
<1>5. \A i \in 1..n : i \in 1..Len(commits) \/ i = n
  BY <1>4
<1>6. Nested'
  BY <1>3 DEF Nested
<1>7. ASSUME NEW i \in 1..n PROVE commits'[i].minted <= Len(minted) /\ commits'[i].listed <= Len(listed)
  <2>1. CASE i = n
    BY <2>1, <1>2, <1>4, LengthsNat DEF Lengths
  <2>2. CASE i # n
    BY <2>2, <1>4, <1>5 DEF Marks
  <2> QED
    BY <2>1, <2>2
<1>8. ASSUME NEW i \in 1..n, NEW j \in 1..n, i <= j
      PROVE  commits'[i].minted <= commits'[j].minted /\ commits'[i].listed <= commits'[j].listed
  <2>1. CASE j = n
    BY <2>1, <1>2, <1>4, <1>7
  <2>2. CASE j # n
    <3>1. i \in 1..Len(commits) /\ j \in 1..Len(commits)
      BY <2>2, <1>8, <1>4, <1>5
    <3> QED
      BY <3>1, <1>8, <1>4 DEF Marks
  <2> QED
    BY <2>1, <2>2
<1> HIDE DEF n
<1>9. Marks'
  BY <1>1, <1>3, <1>4, <1>7, <1>8 DEF Marks
<1> QED
  BY <1>6, <1>9

\* What a close leaves of a list is no shorter than what was there when the scope opened.
LEMMA KeptOn ==
  ASSUME NEW S, NEW s \in Seq(S), NEW n \in Nat, n <= Len(s), NEW rest \in Seq(S)
  PROVE  Len(SubSeq(s, 1, n) \o rest) \in Nat /\ Len(SubSeq(s, 1, n) \o rest) >= n
<1>1. SubSeq(s, 1, n) \in Seq(S) /\ Len(SubSeq(s, 1, n)) = n
  BY CutSeq
<1> DEFINE q == SubSeq(s, 1, n)
<1> HIDE DEF q
<1>2. q \in Seq(S) /\ Len(q) = n
  BY <1>1 DEF q
<1>3. Len(q \o rest) = Len(q) + Len(rest)
  BY <1>2, ConcatProperties
<1>4. Len(rest) \in Nat
  OBVIOUS
<1>5. Len(q \o rest) \in Nat /\ Len(q \o rest) >= n
  BY <1>2, <1>3, <1>4
<1> QED
  BY <1>5 DEF q

LEMMA CloseCommitNests == ASSUME Facts, Nested, Marks, CloseCommit PROVE Nested' /\ Marks'
<1> DEFINE mark == commits[Len(commits)]
           m == mark.minted
           p == mark.listed
           Rest(s, n) == IF Len(commits) = 1 THEN <<>> ELSE StillKept(SubSeq(s, n + 1, Len(s)))
<1>1. /\ frames = <<>> /\ frames' = frames /\ commits # <<>>
      /\ commits' = SubSeq(commits, 1, Len(commits) - 1)
      /\ minted' = SubSeq(minted, 1, m) \o Rest(minted, m)
      /\ listed' = SubSeq(listed, 1, p) \o Rest(listed, p)
  BY DEF CloseCommit, InScope
<1>2. /\ commits \in Seq(Mark) /\ Len(frames') = 0 /\ minted \in Seq(Comments \cup Holders) /\ listed \in Seq(Leaves)
  BY <1>1, SameTypes DEF ScopeTypes, ListTypes
<1>3. Len(commits) \in Nat \ {0} /\ Len(commits) \in 1..Len(commits)
  BY <1>1, <1>2, EmptySeq
<1>4. m \in Nat /\ p \in Nat /\ m <= Len(minted) /\ p <= Len(listed)
  BY <1>3, LengthsNat DEF Marks
<1>5. /\ Len(commits') = Len(commits) - 1
      /\ \A i \in 1..Len(commits) - 1 : commits'[i] = commits[i]
  <2> DEFINE n == Len(commits) - 1
  <2>1. n \in Nat /\ n <= Len(commits)
    BY <1>3
  <2> HIDE DEF n
  <2>2. Len(SubSeq(commits, 1, n)) = n /\ \A i \in 1..n : SubSeq(commits, 1, n)[i] = commits[i]
    BY <1>2, <2>1, CutSeq
  <2> QED
    BY <2>2, <1>1 DEF n
<1>6. Rest(minted, m) \in Seq(Comments \cup Holders) /\ Rest(listed, p) \in Seq(Leaves)
  BY <1>2, <1>4, SinceSeq, StillKeptSeq, EmptySeq
<1> HIDE DEF mark, Rest
<1>7. Len(minted') \in Nat /\ Len(minted') >= m /\ Len(listed') \in Nat /\ Len(listed') >= p
  BY <1>1, <1>2, <1>4, <1>6, KeptOn
<1>8. ASSUME NEW i \in 1..Len(commits')
      PROVE  commits'[i].minted <= Len(minted') /\ commits'[i].listed <= Len(listed')
  <2>1. i \in 1..Len(commits) /\ i <= Len(commits) /\ commits'[i] = commits[i]
    BY <1>3, <1>5
  <2>2. commits[i].minted <= m /\ commits[i].listed <= p /\ commits[i].minted \in Nat /\ commits[i].listed \in Nat
    BY <2>1, <1>3, LengthsNat DEF Marks, mark
  <2> QED
    BY <2>1, <2>2, <1>4, <1>7
<1>9. Nested'
  BY <1>2 DEF Nested
<1>10. Marks'
  BY SMTT(30), <1>2, <1>3, <1>5, <1>8 DEF Marks
<1> QED
  BY <1>9, <1>10

LEMMA NextNests == ASSUME Facts, Scopes, Marks, Next PROVE Nested' /\ Marks'
<1>0. Nested
  BY DEF Scopes, Nested
<1>1. CASE ~Scoping
  BY <1>0, <1>1, WidenSteps, WidensNests DEF Onward
<1>2. CASE InterceptBuild \/ OpenCommit \/ CloseCommit
  BY <1>0, <1>2, InterceptBuildNests, OpenCommitNests, CloseCommitNests
<1>3. CASE FinishBuild \/ UndoRefused \/ GiveBackRefused
  <2>1. InScope /\ EndScope(minted, moved, undos) /\ UNCHANGED <<listed, commits>>
    BY <1>3, CallType DEF FinishBuild, UndoRefused, GiveBackRefused, Facts, UserCode
  <2> QED
    BY <1>0, <2>1, TopNested, LengthsNat, EndScopeNests DEF Lengths
<1>4. CASE FreeMinted
  <2>1. InScope
    BY <1>4, CallType DEF FreeMinted, Facts, UserCode
  <2>2. /\ EndScope(SubSeq(minted, 1, Top.minted), SubSeq(moved, 1, Top.moved), SubSeq(undos, 1, Top.undos))
        /\ UNCHANGED <<listed, commits>>
    BY <1>4 DEF FreeMinted
  <2> DEFINE a == Top.minted
             b == Top.moved
             d == Top.undos
  <2>3. a \in Nat /\ b \in Nat /\ d \in Nat /\ a <= Len(minted) /\ b <= Len(moved) /\ d <= Len(undos)
    BY <2>1, TopType, CallType DEF Facts
  <2> HIDE DEF a, b, d
  <2>4. Len(SubSeq(minted, 1, a)) = a /\ Len(SubSeq(moved, 1, b)) = b /\ Len(SubSeq(undos, 1, d)) = d
    BY <2>3, SameTypes, CutSeq DEF ListTypes
  <2>5. Within(Top, a, b, d)
    BY <2>3 DEF Within, a, b, d
  <2> QED
    BY <1>0, <2>1, <2>2, <2>3, <2>4, <2>5, EndScopeNests DEF a, b, d
<1> QED
  BY <1>1, <1>2, <1>3, <1>4 DEF Scoping

LEMMA NextScopes == ASSUME Facts, Scopes, Marks, Next PROVE Scopes' /\ Marks'
<1>1. Nested' /\ Marks'
  BY NextNests
<1> SUFFICES /\ UserCode' \/ InScope'
             /\ call'.op = "undo" => call'.n \in Top'.undos..Len(undos')
             /\ call'.op = "giveback" => call'.n \in Top'.moved..Len(moved')
  BY <1>1 DEF Nested, Scopes
<1>2. CASE call'.op = "none"
  BY <1>2 DEF UserCode
<1>3. CASE call'.op # "none"
  <2>1. ~Scoping /\ Rolling
    <3>1. ~InterceptBuild /\ ~FinishBuild /\ ~OpenCommit /\ ~CloseCommit
      BY <1>3 DEF InterceptBuild, FinishBuild, OpenCommit, CloseCommit, UserCode
    <3>2. ~UndoRefused /\ ~GiveBackRefused /\ ~FreeMinted
      BY <1>3 DEF UndoRefused, GiveBackRefused, FreeMinted, NoCall
    <3>3. ~Scoping
      BY <3>1, <3>2 DEF Scoping
    <3> QED
      BY <1>3, <3>3, WidenSteps DEF Onward, UserCode
  <2>2. InScope /\ frames' = frames /\ InScope' /\ Top' = Top /\ undos' = undos /\ (moved' = moved \/ UndoLast)
    <3>1. frames' = frames /\ undos' = undos /\ (moved' = moved \/ UndoLast)
      BY <2>1 DEF Rolling, Throw, UndoLast, Undone, GiveBackMoved, lists
    <3>2. InScope
      BY <2>1, CallType DEF Rolling, Throw, UndoLast, Undone, GiveBackMoved, UserCode, Facts
    <3> QED
      BY <3>1, <3>2 DEF InScope, Top
  <2>3. /\ Top.undos \in Nat /\ Top.moved \in Nat /\ Len(undos) \in Nat /\ Len(moved) \in Nat
        /\ Top.undos <= Len(undos) /\ Top.moved <= Len(moved)
    BY <2>2, TopType, CallType DEF Facts
  <2>4. call \in [op: {"none", "undo", "giveback", "free"}, n: Nat]
    BY SameTypes DEF ScopeTypes
  <2>5. CASE Throw
    BY <2>5, <2>2, <2>3 DEF Throw
  <2>6. CASE UndoLast
    <3>1. call' = [call EXCEPT !.n = call.n - 1] /\ call.op = "undo" /\ call.n > Top.undos
      BY <2>6 DEF UndoLast
    <3>2. call.n \in Nat /\ call.n <= Len(undos)
      BY <3>1, CallType DEF Facts
    <3>3. call'.op = "undo" /\ call'.n = call.n - 1
      BY <3>1, <2>4
    <3> QED
      BY <3>1, <3>2, <3>3, <2>2, <2>3
  <2>7. CASE Undone
    BY <2>7, <2>2, <2>3 DEF Undone, lists
  <2>8. CASE GiveBackMoved
    <3>1. call' = [call EXCEPT !.n = call.n - 1] /\ call.op = "giveback" /\ call.n > Top.moved /\ moved' = moved
      BY <2>8 DEF GiveBackMoved, lists
    <3>2. call.n \in Nat /\ call.n <= Len(moved)
      BY <3>1, CallType DEF Facts
    <3>3. call'.op = "giveback" /\ call'.n = call.n - 1
      BY <3>1, <2>4
    <3> QED
      BY <3>1, <3>2, <3>3, <2>2, <2>3
  <2> QED
    BY <2>1, <2>5, <2>6, <2>7, <2>8 DEF Rolling
<1> QED
  BY <1>2, <1>3


-----------------------------------------------------------------------------
(* What a rollback finds.                                                  *)

Rolls == Rollbacks /\ Unspent

\* No scope is left of the builds that ran.
LEMMA NoFrames == ASSUME frames' = <<>>, UserCode' PROVE Rolls'
<1>1. Len(frames') = 0
  OBVIOUS
<1> QED
  BY <1>1 DEF Rolls, Rollbacks, Unspent

\* User code that did more than build.
LEMMA TouchRolls == ASSUME Facts, Touch \/ Touched, UserCode' PROVE Rolls'
<1>1. \A i \in 1..Len(frames') : frames'[i].touched
  BY TouchFacts DEF Facts, Touched
<1> QED
  BY <1>1 DEF Rolls, Rollbacks, Unspent

\* Where the next undo is, among those of the scopes around it.
LEMMA AheadType ==
  ASSUME Facts, Scopes, Marks
  PROVE  /\ Ahead \in Nat /\ Ahead <= Len(undos) /\ Len(undos) \in Nat
         /\ UserCode => Ahead = Len(undos)
         /\ \A i \in 1..Len(frames) :
              /\ InScope /\ frames[i].undos \in Nat /\ frames[i].undos <= Top.undos
              /\ Top.undos \in Nat /\ Top.undos <= Ahead
<1>1. ASSUME NEW i \in 1..Len(frames)
      PROVE  /\ InScope /\ frames[i].undos \in Nat /\ frames[i].undos <= Top.undos
             /\ Top.undos \in Nat
  <2>1. InScope
    <3>1. Len(frames) # 0
      BY LengthsNat DEF Lengths
    <3> QED
      BY <3>1 DEF InScope
  <2>2. Nested
    BY DEF Scopes, Nested
  <2> QED
    BY <2>1, <2>2, TopNested, TopType, LengthsNat DEF Within, Facts
<1>2. call.op \in {"none", "undo", "giveback", "free"}
  BY SameTypes DEF ScopeTypes
<1>3. /\ ~UserCode => InScope
      /\ call.op = "undo" => call.n \in Nat /\ Top.undos <= call.n /\ call.n <= Len(undos)
      /\ Len(undos) \in Nat /\ (InScope => Top.undos \in Nat /\ Top.undos <= Len(undos))
  BY CallType, TopType DEF Facts
<1>4. CASE UserCode
  BY <1>1, <1>3, <1>4 DEF UserCode, Ahead
<1>5. CASE ~UserCode
  BY <1>1, <1>3, <1>5 DEF UserCode, Ahead
<1> QED
  BY <1>4, <1>5

LEMMA InterceptBuildRolls == ASSUME Facts, Scopes, Marks, Rolls, InterceptBuild PROVE Rolls'
<1> DEFINE f == [minted |-> Len(minted), moved |-> Len(moved), undos |-> Len(undos),
                 touched |-> FALSE, strayed |-> FALSE, trivia |-> trivia, parked |-> parked]
           n == Len(frames) + 1
<1>1. /\ frames' = Append(frames, f) /\ UNCHANGED <<written, trivia, parked, undos, moved, owned, call, tainted>>
      /\ UserCode /\ UserCode'
  BY DEF InterceptBuild, lists, leaves, store, UserCode
<1>2. f.moved = Len(moved) /\ f.undos = Len(undos) /\ f.trivia = trivia /\ f.parked = parked
  OBVIOUS
<1> HIDE DEF f
<1>3. /\ Len(frames') = n /\ Len(frames) \in Nat /\ frames'[n] = f
      /\ \A i \in 1..Len(frames) : frames'[i] = frames[i]
  BY <1>1, SameTypes, AppendLen DEF ScopeTypes
<1>4. \A i \in 1..n : i \in 1..Len(frames) \/ i = n
  BY <1>3
<1>5. Ahead = Len(undos) /\ Ahead' = Ahead /\ Len(undos) \in Nat
  BY <1>1, AheadType DEF Ahead, UserCode
<1>6. \A j : j \notin Len(undos) + 1..Len(undos)
  BY <1>5
<1> HIDE DEF n
<1>7. ASSUME NEW i, frames'[i] = f PROVE Untouched(frames[i])' /\ Unmoved(frames[i])'
  BY <1>1, <1>2, <1>5, <1>6, <1>7 DEF Untouched, Unmoved
<1>8. ASSUME NEW i \in 1..Len(frames)
      PROVE  /\ Untouched(frames[i]) => Untouched(frames[i])'
             /\ Unmoved(frames[i]) => Unmoved(frames[i])'
             /\ frames[i].touched => frames'[i].touched
  BY <1>1, <1>3, <1>5 DEF Untouched, Unmoved
<1>9. ASSUME NEW i \in 1..n
      PROVE  /\ frames'[i].touched \/ Untouched(frames[i])'
             /\ tainted' = 0 => frames'[i].touched \/ Unmoved(frames[i])'
  <2>1. CASE i = n
    BY <2>1, <1>3, <1>7
  <2>2. CASE i # n
    BY <2>2, <1>1, <1>4, <1>8 DEF Rolls, Rollbacks, Unspent
  <2> QED
    BY <2>1, <2>2
<1>10. Len(frames') = n
  BY <1>3
<1> QED
  BY <1>1, <1>9, <1>10 DEF Rolls, Rollbacks, Unspent

\* A build that changes no side.
LEMMA BuildCommentRolls == ASSUME Rolls, NEW c \in Comments, BuildComment(c) PROVE Rolls'
<1>1. UNCHANGED <<written, trivia, parked, undos, moved, frames, call, tainted>> /\ UserCode /\ UserCode'
  BY DEF BuildComment, leaves, UserCode
<1>2. Ahead' = Ahead
  BY <1>1 DEF Ahead, Top
<1>3. Rollbacks'
  BY <1>1, <1>2 DEF Rolls, Rollbacks, Untouched
<1>4. Unspent'
  BY <1>1, <1>2 DEF Rolls, Unspent, Unmoved
<1> QED
  BY <1>3, <1>4 DEF Rolls

\* The scopes around one that ends, when nothing is undone in it.
LEMMA OuterFrames ==
  ASSUME Facts, Scopes, Marks, InScope, NEW m, NEW v, NEW u, EndScope(m, v, u)
  PROVE  \A i \in 1..Len(frames') :
           /\ i \in 1..Len(frames) /\ frames'[i] = frames[i] /\ moved' = v /\ undos' = u
           /\ frames[i].undos \in Nat /\ frames[i].undos <= Top.undos
<1> SUFFICES ASSUME NEW i \in 1..Len(frames')
             PROVE  /\ i \in 1..Len(frames) /\ frames'[i] = frames[i] /\ moved' = v /\ undos' = u
                    /\ frames[i].undos \in Nat /\ frames[i].undos <= Top.undos
  OBVIOUS
<1>1. Len(frames') # 0
  BY EndScopeFacts DEF Facts
<1>2. frames' # <<>>
  BY <1>1
<1> QED
  BY <1>2, EndScopeFacts, AheadType DEF Facts

LEMMA FinishBuildRolls == ASSUME Facts, Scopes, Marks, Rolls, FinishBuild PROVE Rolls'
<1>1. UserCode /\ UserCode' /\ InScope /\ EndScope(minted, moved, undos) /\ UNCHANGED <<written, trivia, parked, call, tainted>>
  BY DEF FinishBuild, UserCode, leaves
<1>2. ASSUME NEW i \in 1..Len(frames')
      PROVE  /\ frames'[i].touched \/ Untouched(frames[i])'
             /\ tainted = 0 => frames'[i].touched \/ Unmoved(frames[i])'
  <2>1. i \in 1..Len(frames) /\ frames'[i] = frames[i] /\ moved' = moved /\ undos' = undos
    BY <1>1, OuterFrames
  <2>2. Ahead' = Ahead
    BY <2>1, <1>1 DEF Ahead, UserCode
  <2>3. frames[i].touched \/ Untouched(frames[i])
    BY <2>1 DEF Rolls, Rollbacks
  <2>4. tainted = 0 => frames[i].touched \/ Unmoved(frames[i])
    BY <2>1 DEF Rolls, Unspent
  <2>5. Untouched(frames[i]) => Untouched(frames[i])'
    BY <2>1, <2>2, <1>1 DEF Untouched
  <2>6. Unmoved(frames[i]) => Unmoved(frames[i])'
    BY <2>1, <2>2, <1>1 DEF Unmoved
  <2> QED
    BY <2>1, <2>3, <2>4, <2>5, <2>6
<1> QED
  BY <1>1, <1>2 DEF Rolls, Rollbacks, Unspent


\* A rollback is refused a record only after a throw that did more than undo builds.
LEMMA RefusedTainted ==
  ASSUME Facts, Scopes, SidesCover, Rolls, GiveBackRefused
  PROVE  tainted # 0
<1> SUFFICES ASSUME tainted = 0 PROVE FALSE
  OBVIOUS
<1>1. call.op = "giveback" /\ call.n > Top.moved /\ count[moved[call.n]] = 0 /\ ~UserCode
  BY DEF GiveBackRefused, UserCode
<1>2. InScope /\ Giving
  BY <1>1, RollbackFacts DEF Rolls, Facts
<1>3. call.n \in Nat /\ call.n <= Len(moved) /\ Len(moved) \in Nat /\ Top.moved \in Nat
  BY <1>1, <1>2, CallType, TopType DEF Facts
<1>4. call.n \in Owed /\ call.n \in 1..Len(moved)
  BY <1>1, <1>3 DEF Owed
<1>5. PICK o \in parked : written[o] = moved[call.n]
  BY <1>2, <1>4 DEF Giving
<1>6. moved[call.n] \in Comments
  BY <1>4, ElementOfSeq, SameTypes DEF ListTypes
<1>7. HoldsOf(moved[call.n]) >= 1
  BY <1>5, <1>6, ParkedHolds
<1>8. count[moved[call.n]] >= HoldsOf(moved[call.n]) /\ HoldsOf(moved[call.n]) \in Nat
  BY <1>6, HoldsTypes DEF SidesCover
<1> QED
  BY <1>1, <1>7, <1>8

LEMMA GiveBackRefusedRolls ==
  ASSUME Facts, Scopes, Marks, SidesCover, Rolls, GiveBackRefused
  PROVE  Rolls'
<1>1. /\ call.op = "giveback" /\ ~UserCode /\ UserCode' /\ call'.op = "none" /\ EndScope(minted, moved, undos)
      /\ UNCHANGED <<trivia, parked, tainted>>
  BY DEF GiveBackRefused, UserCode, NoCall, leaves
<1>2. InScope
  BY <1>1, CallType DEF Facts
<1>3. Unspent'
  BY <1>1, RefusedTainted DEF Unspent
<1>4. ASSUME NEW i \in 1..Len(frames') PROVE frames'[i].touched \/ Untouched(frames[i])'
  <2>1. i \in 1..Len(frames) /\ frames'[i] = frames[i] /\ undos' = undos /\ frames[i].undos \in Nat
    BY <1>1, <1>2, OuterFrames
  <2>2. Ahead \in Nat /\ Ahead <= Len(undos) /\ Len(undos) \in Nat /\ Ahead' = Len(undos)
    BY <1>1, <2>1, AheadType DEF Ahead
  <2>3. frames[i].touched \/ Untouched(frames[i])
    BY <2>1 DEF Rolls, Rollbacks
  <2>4. \A j \in frames[i].undos + 1..Ahead : j \in frames[i].undos + 1..Ahead'
    BY <2>1, <2>2
  <2>5. Untouched(frames[i]) => Untouched(frames[i])'
    BY <2>1, <2>4, <1>1 DEF Untouched
  <2> QED
    BY <2>1, <2>3, <2>5
<1> QED
  BY <1>3, <1>4 DEF Rolls, Rollbacks

LEMMA FreeMintedRolls ==
  ASSUME Facts, Scopes, Marks, Rolls, FreeMinted
  PROVE  Rolls'
<1> DEFINE v == SubSeq(moved, 1, Top.moved)
           u == SubSeq(undos, 1, Top.undos)
<1>1. /\ call.op = "giveback" /\ ~UserCode /\ UserCode' /\ call'.op = "none"
      /\ UNCHANGED <<trivia, tainted>> /\ \E m : EndScope(m, v, u)
  BY DEF FreeMinted, UserCode, NoCall
<1>2. parked' = parked
  <2>1. \E hs, cs : Release(hs, cs, {})
    BY FreeMintedReleases
  <2> QED
    BY <2>1 DEF Release, ParksLeft
<1>3. InScope
  BY <1>1, CallType DEF Facts
<1> DEFINE a == Top.moved
           b == Top.undos
<1>4. a \in Nat /\ b \in Nat /\ a <= Len(moved) /\ b <= Len(undos)
  BY <1>3, TopType, CallType DEF Facts
<1> HIDE DEF a, b
<1>5. Len(SubSeq(moved, 1, a)) = a /\ Len(SubSeq(undos, 1, b)) = b /\ \A j \in 1..b : SubSeq(undos, 1, b)[j] = undos[j]
  BY <1>4, SameTypes, CutSeq DEF ListTypes
<1>6. Len(v) = a /\ Len(u) = b /\ \A j \in 1..b : u[j] = undos[j]
  BY <1>5 DEF a, b
<1> HIDE DEF v, u
<1>7. ASSUME NEW i \in 1..Len(frames')
      PROVE  /\ frames'[i].touched \/ Untouched(frames[i])'
             /\ tainted = 0 => frames'[i].touched \/ Unmoved(frames[i])'
  <2>1. i \in 1..Len(frames) /\ frames'[i] = frames[i] /\ undos' = u /\ moved' = v /\ frames[i].undos \in Nat
    BY <1>1, <1>3, OuterFrames
  <2>2. Ahead' = b /\ Ahead = b /\ Len(undos') = b
    BY <1>1, <1>6, <2>1 DEF Ahead, b
  <2>3. frames[i].touched \/ Untouched(frames[i])
    BY <2>1 DEF Rolls, Rollbacks
  <2>4. \A j \in frames[i].undos + 1..b : undos'[j] = undos[j] /\ j \in frames[i].undos + 1..Len(undos)
    <3> TAKE j \in frames[i].undos + 1..b
    <3>1. j \in 1..b /\ j \in frames[i].undos + 1..Len(undos)
      BY <1>4, <2>1
    <3> QED
      BY <3>1, <1>6, <2>1
  <2>5. Untouched(frames[i]) => Untouched(frames[i])'
    BY <2>1, <2>2, <2>4, <1>1, <1>2 DEF Untouched
  <2>6. Unmoved(frames[i]) => Unmoved(frames[i])'
    BY SMTT(30), <2>1, <2>2, <2>4, <1>1, <1>2, <1>6 DEF Unmoved, a
  <2>7. tainted = 0 => frames[i].touched \/ Unmoved(frames[i])
    BY <2>1 DEF Rolls, Unspent
  <2> QED
    BY <2>1, <2>3, <2>5, <2>6, <2>7
<1> QED
  BY <1>1, <1>7 DEF Rolls, Rollbacks, Unspent

\* A placement, whose undo parks what the site took over.
LEMMA BuildHolderRolls ==
  ASSUME Facts, Scopes, Marks, Rolls, NEW h \in Holders, NEW l \in Leaves, BuildHolder(h, l)
  PROVE  Rolls'
<1> DEFINE p == GivenUp(l)
           u == [site |-> TRUE, leaf |-> l, next |-> 0, parked |-> p, own |-> 0]
           n == Len(undos) + 1
<1>1. /\ UserCode /\ UserCode' /\ parked' = parked \ {p}
      /\ UNCHANGED <<written, trivia, moved, frames, call, tainted>>
      /\ IF p # 0 /\ InScope THEN undos' = Append(undos, u) ELSE undos' = undos
  BY DEF BuildHolder, UserCode
<1>2. p = 0 \/ p \in parked
  BY DEF GivenUp, ParkedOf
<1>3. 0 \notin parked
  BY SameTypes DEF LeafTypes
<1>4. u.site /\ u.parked = p
  OBVIOUS
<1> HIDE DEF u, p
<1>5. Ahead = Len(undos) /\ Ahead' = Len(undos') /\ Len(undos) \in Nat
  BY <1>1, AheadType DEF Ahead, UserCode
<1>6. CASE p = 0 \/ ~InScope
  <2>1. undos' = undos /\ (Len(frames) = 0 \/ parked' = parked)
    BY <1>1, <1>3, <1>6 DEF InScope
  <2>2. CASE parked' = parked
    <3>1. Rollbacks'
      BY <1>1, <1>5, <2>1, <2>2 DEF Rolls, Rollbacks, Untouched
    <3>2. Unspent'
      BY <1>1, <1>5, <2>1, <2>2 DEF Rolls, Unspent, Unmoved
    <3> QED
      BY <3>1, <3>2 DEF Rolls
  <2>3. CASE Len(frames) = 0
    BY <1>1, <2>3 DEF Rolls, Rollbacks, Unspent
  <2> QED
    BY <2>1, <2>2, <2>3
<1>7. CASE p # 0 /\ InScope
  <2>1. undos' = Append(undos, u) /\ p \in parked
    BY <1>1, <1>2, <1>7
  <2>2. Len(undos') = n /\ undos'[n] = u /\ \A j \in 1..Len(undos) : undos'[j] = undos[j]
    BY <2>1, SameTypes, AppendLen DEF ListTypes
  <2>3. ASSUME NEW i \in 1..Len(frames)
        PROVE  /\ frames[i].undos \in Nat /\ n \in frames[i].undos + 1..n /\ frames'[i] = frames[i]
               /\ \A j \in frames[i].undos + 1..n : j = n \/ (j \in frames[i].undos + 1..Len(undos) /\ undos'[j] = undos[j])
               /\ \A j \in frames[i].undos + 1..Len(undos) : j \in frames[i].undos + 1..n /\ undos'[j] = undos[j] /\ j # n
    <3>1. frames[i].undos \in Nat /\ frames[i].undos <= Len(undos)
      BY AheadType
    <3> QED
      BY <3>1, <2>2, <1>1, <1>5
  <2>4. ASSUME NEW i \in 1..Len(frames), Untouched(frames[i]) PROVE Untouched(frames[i])'
    <3>1. trivia' = frames'[i].trivia /\ parked' \subseteq frames'[i].parked
      BY <2>3, <2>4, <1>1 DEF Untouched
    <3>2. ASSUME NEW j \in frames[i].undos + 1..n
          PROVE  undos'[j].site /\ undos'[j].parked # 0 /\ undos'[j].parked \in frames[i].parked
      BY <2>1, <2>2, <2>3, <2>4, <1>4, <1>7 DEF Untouched
    <3>3. ASSUME NEW o \in frames[i].parked
          PROVE  o \in parked' \/ \E j \in frames[i].undos + 1..n : undos'[j].parked = o
      <4>1. CASE o \in parked
        BY <4>1, <2>2, <2>3, <1>1, <1>4
      <4>2. CASE o \notin parked
        <5>1. PICK j \in frames[i].undos + 1..Len(undos) : undos[j].parked = o
          BY <4>2, <2>4, <1>5 DEF Untouched
        <5> QED
          BY <5>1, <2>3
      <4> QED
        BY <4>1, <4>2
    <3> HIDE DEF n
    <3> QED
      BY <3>1, <3>2, <3>3, <2>2, <2>3, <1>1, <1>5 DEF Untouched
  <2>5. ASSUME NEW i \in 1..Len(frames), Unmoved(frames[i]) PROVE Unmoved(frames[i])'
    <3>1. ASSUME NEW j \in frames[i].undos + 1..n
          PROVE  /\ undos'[j].parked \notin parked'
                 /\ j = n => undos'[j].parked = p
                 /\ j # n => undos'[j].parked # p /\ j \in frames[i].undos + 1..Ahead /\ undos'[j] = undos[j]
      <4>1. CASE j = n
        BY <4>1, <2>2, <1>1, <1>4
      <4>2. CASE j # n
        <5>1. j \in frames[i].undos + 1..Ahead /\ undos'[j] = undos[j]
          BY <4>2, <2>3, <1>5
        <5>2. undos[j].parked \notin parked
          BY <5>1, <2>5 DEF Unmoved
        <5> QED
          BY <4>2, <5>1, <5>2, <2>1, <1>1
      <4> QED
        BY <4>1, <4>2
    <3>2. ASSUME NEW j \in frames[i].undos + 1..n, NEW k \in frames[i].undos + 1..n, undos'[j].parked = undos'[k].parked
          PROVE  j = k
      <4>1. CASE j = n \/ k = n
        BY <4>1, <3>1, <3>2
      <4>2. CASE j # n /\ k # n
        BY <4>2, <3>1, <3>2, <2>5 DEF Unmoved
      <4> QED
        BY <4>1, <4>2
    <3>3. frames'[i].moved = Len(moved')
      BY <2>3, <2>5, <1>1 DEF Unmoved
    <3> HIDE DEF n
    <3> QED
      BY <3>1, <3>2, <3>3, <2>2, <2>3, <1>1, <1>5 DEF Unmoved
  <2> QED
    BY <2>4, <2>5, <1>1 DEF Rolls, Rollbacks, Unspent
<1> QED
  BY <1>6, <1>7


LEMMA ThrowRolls ==
  ASSUME Facts, Scopes, Marks, Rolls, Throw
  PROVE  Rolls'
<1>1. /\ UserCode /\ ~UserCode' /\ InScope /\ call'.op = "undo" /\ call'.n = Len(undos)
      /\ UNCHANGED <<written, trivia, parked, undos, moved, owned, frames>>
      /\ tainted' = IF Top.touched THEN tainted + 1 ELSE tainted
  BY DEF Throw, UserCode, store, leaves, lists
<1>2. Ahead = Len(undos) /\ Ahead' = Len(undos) /\ Top' = Top
  BY <1>1 DEF Ahead, UserCode, Top
<1>3. Rollbacks'
  BY <1>1, <1>2 DEF Rolls, Rollbacks, Untouched
<1>4. Unspent'
  <2> SUFFICES ASSUME tainted' = 0 PROVE Unspent'
    BY DEF Unspent
  <2>1. tainted = 0 /\ ~Top.touched
    <3>1. Top.touched \in BOOLEAN /\ tainted \in Nat
      BY <1>1, TopType, SameTypes DEF Facts, ScopeTypes
    <3> QED
      BY <3>1, <1>1
  <2>2. Top.moved = Len(moved) /\ Len(moved) \in Nat
    <3>1. Len(frames) \in 1..Len(frames) /\ Top = frames[Len(frames)]
      BY <1>1, TopType DEF Facts
    <3> QED
      BY <3>1, <2>1, <1>1, LengthsNat DEF Rolls, Unspent, Unmoved, Lengths
  <2>3. Owed' = Len(moved) + 1..Len(moved)
    BY <1>1, <1>2, <2>2 DEF Owed
  <2>4. \A j : j \notin Owed'
    BY <2>2, <2>3
  <2>5. Giving'
    BY <2>1, <2>4, <1>2 DEF Giving
  <2>6. \A i \in 1..Len(frames) : frames[i].touched \/ Unmoved(frames[i])'
    BY <2>1, <2>2, <1>1, <1>2 DEF Rolls, Unspent, Unmoved
  <2> QED
    BY <2>5, <2>6, <1>1 DEF Unspent
<1> QED
  BY <1>3, <1>4 DEF Rolls

LEMMA UndoLastRolls ==
  ASSUME Facts, Scopes, Marks, Rolls, UndoLast
  PROVE  Rolls'
<1> DEFINE n == call.n
           u == undos[n]
           p == u.parked
           c == Entry(p)
<1>1. /\ call.op = "undo" /\ n > Top.undos /\ n \in 1..Len(undos) /\ n \in Nat /\ InScope /\ ~UserCode
      /\ UNCHANGED <<written, undos, frames, tainted>>
      /\ parked' = (parked \ {u.next}) \cup ({p} \ {0})
      /\ trivia' = IF u.site THEN trivia ELSE [trivia EXCEPT ![u.leaf] = u.own]
      /\ owned' = IF HoldMoves(c) THEN owned \ {c} ELSE owned
      /\ moved' = Moved(c)
  BY UndoNext DEF UndoLast, Reparked
<1>2. call'.op = "undo" /\ call'.n = n - 1 /\ ~UserCode'
  <2>1. call \in [op: {"none", "undo", "giveback", "free"}, n: Nat] /\ call' = [call EXCEPT !.n = call.n - 1]
    BY SameTypes DEF ScopeTypes, UndoLast
  <2> QED
    BY <2>1, <1>1 DEF UserCode
<1>3. Ahead = n /\ Ahead' = n - 1 /\ Top' = Top
  BY <1>1, <1>2 DEF Ahead, Top
<1>4. 0 \notin parked /\ p \in Nat /\ p <= Len(written)
  BY <1>1, UndoType, SameTypes DEF LeafTypes
<1>5. IF u.site THEN u.next = 0 ELSE TRUE
  BY <1>1, UndoType
<1>6. ASSUME NEW i \in 1..Len(frames)
      PROVE  /\ n \in frames[i].undos + 1..Len(undos) /\ n \in frames[i].undos + 1..n
             /\ \A j \in frames[i].undos + 1..n - 1 : j \in frames[i].undos + 1..n /\ j # n
             /\ \A j \in frames[i].undos + 1..n : j = n \/ j \in frames[i].undos + 1..n - 1
  <2>1. frames[i].undos \in Nat /\ frames[i].undos <= Top.undos /\ Top.undos \in Nat
    BY AheadType
  <2> QED
    BY <2>1, <1>1
<1> HIDE DEF c, u, n, p
<1>7. ASSUME NEW i \in 1..Len(frames), Untouched(frames[i])
      PROVE  /\ Untouched(frames[i])' /\ p # 0
             /\ parked' = parked \cup {p} /\ p \in parked'
  <2>1. n \in frames[i].undos + 1..Len(undos)
    BY <1>6
  <2>2. undos[n].site /\ undos[n].parked # 0 /\ undos[n].parked \in frames[i].parked
    BY <2>1, <1>7 DEF Untouched
  <2>3. u.site /\ p # 0 /\ p \in frames[i].parked /\ u.next = 0
    BY <2>2, <1>5 DEF u, p
  <2>4. trivia' = trivia /\ parked' = parked \cup {p}
    BY <2>3, <1>1, <1>4
  <2>5. ASSUME NEW o \in frames[i].parked
        PROVE  o \in parked' \/ \E j \in frames[i].undos + 1..n - 1 : undos[j].parked = o
    <3>1. CASE o \in parked
      BY <3>1, <2>4
    <3>2. CASE o \notin parked
      <4>1. PICK j \in frames[i].undos + 1..n : undos[j].parked = o
        BY <3>2, <1>3, <1>7 DEF Untouched
      <4>2. CASE j = n
        BY <4>1, <4>2, <2>4 DEF u, p
      <4>3. CASE j # n
        BY <4>1, <4>3, <1>6
      <4> QED
        BY <4>2, <4>3
    <3> QED
      BY <3>1, <3>2
  <2>6. parked' \subseteq frames[i].parked
    BY <2>3, <2>4, <1>7 DEF Untouched
  <2>7. Untouched(frames[i])'
    BY <2>4, <2>5, <2>6, <1>1, <1>3, <1>7 DEF Untouched
  <2> QED
    BY <2>3, <2>4, <2>7
<1>8. ASSUME NEW i \in 1..Len(frames), Untouched(frames[i]), Unmoved(frames[i])
      PROVE  Unmoved(frames[i])'
  <2>1. ASSUME NEW j \in frames[i].undos + 1..n - 1 PROVE undos[j].parked \notin parked'
    <3>1. j \in frames[i].undos + 1..n /\ n \in frames[i].undos + 1..n /\ j # n
      BY <1>6
    <3>2. undos[j].parked \notin parked /\ undos[j].parked # undos[n].parked
      BY <3>1, <1>3, <1>8 DEF Unmoved
    <3>3. parked' = parked \cup {p}
      BY <1>7, <1>8
    <3> QED
      BY <3>2, <3>3 DEF u, p
  <2>2. ASSUME NEW j \in frames[i].undos + 1..n - 1, NEW k \in frames[i].undos + 1..n - 1, undos[j].parked = undos[k].parked
        PROVE  j = k
    BY <2>2, <1>3, <1>6, <1>8 DEF Unmoved
  <2>3. frames'[i].moved = Top'.moved
    BY <1>1, <1>3, <1>8 DEF Unmoved
  <2> QED
    BY <2>1, <2>2, <2>3, <1>1, <1>2, <1>3 DEF Unmoved
<1>9. Rollbacks'
  BY <1>1, <1>7 DEF Rolls, Rollbacks
<1>10. ASSUME tainted = 0 PROVE Giving'
  <2>1. Giving /\ ~Top.touched /\ Untouched(Top)
    BY <1>1, <1>10, RollbackFacts DEF Rolls, Facts, Giving
  <2>2. parked' = parked \cup {p} /\ p # 0 /\ p \in parked'
    <3>1. Len(frames) \in 1..Len(frames) /\ Top = frames[Len(frames)]
      BY <1>1, TopType DEF Facts
    <3> QED
      BY <3>1, <2>1, <1>7
  <2>3. c = written[p]
    BY <2>2 DEF c, Entry
  <2> DEFINE t == Top.moved
             N == Len(moved)
  <2>4. t \in Nat /\ N \in Nat /\ t <= N /\ Owed = t + 1..N /\ Owed' = t + 1..Len(moved')
    BY <1>1, <1>2, <1>3, TopType, CallType DEF Facts, Owed
  <2>5. CASE HoldMoves(c)
    <3>1. owned' = owned \ {c} /\ moved' = Append(moved, c) /\ c \in owned
      BY <2>5, <1>1 DEF HoldMoves, Moved
    <3>2. Len(moved') = N + 1 /\ moved'[N + 1] = c /\ \A j \in 1..N : moved'[j] = moved[j]
      BY <3>1, SameTypes, AppendLen DEF ListTypes
    <3>3. \A j \in t + 1..N + 1 : j = N + 1 \/ (j \in t + 1..N /\ j \in 1..N)
      BY <2>4
    <3>4. ASSUME NEW j \in t + 1..N + 1
          PROVE  /\ moved'[j] \notin owned' /\ \E o \in parked' : written[o] = moved'[j]
                 /\ j = N + 1 => moved'[j] = c
                 /\ j # N + 1 => j \in Owed /\ moved'[j] = moved[j] /\ moved'[j] # c
      <4>1. CASE j = N + 1
        BY <4>1, <3>1, <3>2, <2>2, <2>3
      <4>2. CASE j # N + 1
        <5>1. j \in Owed /\ moved'[j] = moved[j]
          BY <4>2, <3>2, <3>3, <2>4
        <5>2. moved[j] \notin owned /\ \E o \in parked : written[o] = moved[j]
          BY <5>1, <2>1 DEF Giving
        <5> QED
          BY <4>2, <5>1, <5>2, <3>1, <2>2
      <4> QED
        BY <4>1, <4>2
    <3>5. ASSUME NEW j \in t + 1..N + 1, NEW k \in t + 1..N + 1, moved'[j] = moved'[k]
          PROVE  j = k
      <4>1. CASE j = N + 1 \/ k = N + 1
        BY <4>1, <3>4, <3>5
      <4>2. CASE j # N + 1 /\ k # N + 1
        BY <4>2, <3>4, <3>5, <2>1 DEF Giving
      <4> QED
        BY <4>1, <4>2
    <3>6. Owed' = t + 1..N + 1
      BY <3>2, <2>4
    <3> HIDE DEF t, N
    <3> QED
      BY <3>4, <3>5, <3>6, <2>1, <1>1, <1>3 DEF Giving
  <2>6. CASE ~HoldMoves(c)
    <3>1. owned' = owned /\ moved' = moved
      BY <2>6, <1>1 DEF Moved
    <3>2. Owed' = Owed
      BY <3>1, <2>4
    <3> QED
      BY <3>1, <3>2, <2>1, <2>2, <1>1, <1>3 DEF Giving
  <2> QED
    BY <2>5, <2>6
<1>11. Unspent'
  <2> SUFFICES ASSUME tainted = 0 PROVE Unspent'
    BY <1>1 DEF Unspent
  <2>1. \A i \in 1..Len(frames) : frames[i].touched \/ Unmoved(frames[i])'
    BY <1>8 DEF Rolls, Rollbacks, Unspent
  <2> QED
    BY <2>1, <1>1, <1>10 DEF Unspent
<1> QED
  BY <1>9, <1>11 DEF Rolls

LEMMA UndoneRolls ==
  ASSUME Facts, Scopes, Marks, Rolls, Undone
  PROVE  Rolls'
<1>1. /\ call.op = "undo" /\ call.n = Top.undos /\ call'.op = "giveback" /\ call'.n = Len(moved)
      /\ ~UserCode /\ ~UserCode'
      /\ UNCHANGED <<written, trivia, parked, undos, moved, owned, frames, tainted>>
  BY DEF Undone, UserCode, store, leaves, lists
<1>2. Top' = Top /\ Ahead' = Ahead /\ Owed' = Owed
  BY <1>1 DEF Top, Ahead, Owed
<1>3. Rollbacks'
  BY <1>1, <1>2 DEF Rolls, Rollbacks, Untouched
<1>4. Unspent'
  BY <1>1, <1>2 DEF Rolls, Unspent, Unmoved, Giving
<1> QED
  BY <1>3, <1>4 DEF Rolls

LEMMA GiveBackMovedRolls ==
  ASSUME Facts, Scopes, Marks, Rolls, GiveBackMoved
  PROVE  Rolls'
<1> DEFINE n == call.n
<1>1. /\ call.op = "giveback" /\ n > Top.moved /\ ~UserCode
      /\ UNCHANGED <<written, trivia, parked, undos, moved, frames, tainted>> /\ owned' = owned \cup {moved[n]}
  BY DEF GiveBackMoved, UserCode, leaves, lists
<1>2. call'.op = "giveback" /\ call'.n = n - 1 /\ ~UserCode'
  <2>1. call \in [op: {"none", "undo", "giveback", "free"}, n: Nat] /\ call' = [call EXCEPT !.n = call.n - 1]
    BY SameTypes DEF ScopeTypes, GiveBackMoved
  <2> QED
    BY <2>1, <1>1 DEF UserCode
<1>3. Top' = Top /\ Ahead' = Ahead /\ InScope
  BY <1>1, <1>2, GiveBackMovedGain DEF Top, Ahead
<1>4. Top.moved \in Nat /\ n \in Nat /\ Owed = Top.moved + 1..n /\ Owed' = Top.moved + 1..n - 1
  BY <1>1, <1>2, <1>3, TopType, CallType DEF Facts, Owed
<1>5. \A j \in Owed' : j \in Owed /\ j # n
  BY <1>4
<1>6. n \in Owed
  BY <1>1, <1>4
<1> HIDE DEF n
<1>7. Giving => Giving'
  BY <1>1, <1>3, <1>5, <1>6 DEF Giving
<1>8. Rollbacks'
  BY <1>1, <1>3 DEF Rolls, Rollbacks, Untouched
<1>9. Unspent'
  BY <1>1, <1>2, <1>3, <1>7 DEF Rolls, Unspent, Unmoved
<1> QED
  BY <1>8, <1>9 DEF Rolls

\* An undo is refused only where an interceptor of each build around it did more than build.
LEMMA RefusedTouched ==
  ASSUME Facts, Scopes, Marks, SidesCover, Rolls, Placed, UndoRefused
  PROVE  InScope /\ \A i \in 1..Len(frames) : frames[i].touched
<1> DEFINE u == undos[call.n]
           c == Entry(u.parked)
<1>1. /\ call.op = "undo" /\ call.n > Top.undos /\ HoldRefused(u) /\ InScope
      /\ call.n \in 1..Len(undos) /\ call.n \in Nat /\ Len(undos) \in Nat
  BY UndoNext, CallType DEF UndoRefused, Facts
<1> SUFFICES ASSUME NEW i \in 1..Len(frames), ~frames[i].touched PROVE FALSE
  BY <1>1
<1>2. Untouched(frames[i]) /\ Sited(frames[i])
  BY DEF Rolls, Rollbacks, Placed
<1>3. frames[i].undos \in Nat /\ frames[i].undos <= Top.undos /\ Top.undos \in Nat
  BY AheadType
<1>4. call.n \in frames[i].undos + 1..Len(undos)
  BY <1>1, <1>3
<1>5. u.site /\ u.next = 0
  BY <1>1, <1>2, <1>4, UndoType DEF Untouched
<1>6. PICK h \in Holders : Site(call.n, h)
  BY <1>2, <1>4 DEF Sited
<1>7. c \in Comments /\ Dropped(u)[c] = 0
  BY <1>1 DEF HoldRefused
<1>8. {u.next} \cap parked = {}
  BY <1>5, SameTypes DEF LeafTypes
<1>9. Dropped(u)[c] = count[c]
  <2>1. Dropped(u) = Minus(count, LetGo({}, {}, {}))
    BY <1>8 DEF Dropped
  <2>2. LetGo({}, {}, {})[c] = 0
    BY <1>7, LetGoSum, RowNone, OwnOne, ParkIsRow
  <2>3. count[c] \in Nat
    BY <1>7, HoldsTypes
  <2> HIDE DEF u, c
  <2> QED
    BY <1>7, <2>1, <2>2, <2>3 DEF Minus
<1>10. h \in alive /\ row[h] = c
  BY <1>6 DEF Site
<1>11. HoldsOf(c) >= 1
  BY <1>7, <1>10, RowHolds
<1>12. count[c] >= HoldsOf(c) /\ HoldsOf(c) \in Nat /\ count[c] \in Nat
  BY <1>7, HoldsTypes DEF SidesCover
<1> HIDE DEF c
<1> QED
  BY <1>7, <1>9, <1>11, <1>12

LEMMA UndoRefusedRolls ==
  ASSUME Facts, Scopes, Marks, SidesCover, Rolls, Placed, UndoRefused
  PROVE  Rolls'
<1>1. UserCode' /\ EndScope(minted, moved, undos)
  BY DEF UndoRefused, NoCall, UserCode
<1>2. \A i \in 1..Len(frames') : frames'[i].touched
  BY <1>1, RefusedTouched, OuterFrames
<1> QED
  BY <1>1, <1>2 DEF Rolls, Rollbacks, Unspent

LEMMA NextRolls ==
  ASSUME Facts, Scopes, Marks, SidesCover, Rolls, Placed, Next
  PROVE  Rolls'
<1>1. CASE InterceptBuild \/ FinishBuild \/ Throw
  BY <1>1, InterceptBuildRolls, FinishBuildRolls, ThrowRolls
<1>2. CASE UndoLast \/ UndoRefused \/ Undone \/ GiveBackMoved \/ GiveBackRefused \/ FreeMinted
  BY <1>2, UndoLastRolls, UndoRefusedRolls, UndoneRolls, GiveBackMovedRolls, GiveBackRefusedRolls, FreeMintedRolls
<1>3. ASSUME NEW c \in Comments, BuildComment(c) \/ ReleaseComment(c) PROVE Rolls'
  BY <1>3, BuildCommentRolls, TouchRolls DEF ReleaseComment, UserCode
<1>4. ASSUME NEW h \in Holders, NEW l \in Leaves, BuildHolder(h, l) PROVE Rolls'
  BY <1>4, BuildHolderRolls
<1>5. ASSUME NEW l \in Leaves, NEW c \in Comments \cup {Nil}, WriteLeaf(l, c) PROVE Rolls'
  <2>1. Touched /\ UserCode'
    BY <1>5, WriteTouched DEF WriteLeaf, UserCode
  <2> QED
    BY <2>1, TouchRolls
<1>6. ASSUME NEW h \in Holders, NEW c \in Comments \cup {Nil}, WriteSite(h, c) PROVE Rolls'
  BY <1>6, TouchRolls DEF WriteSite, UserCode
<1>7. ASSUME NEW h \in Holders, ReleaseHolder(h) PROVE Rolls'
  BY <1>7, TouchRolls DEF ReleaseHolder, UserCode
<1>8. ASSUME NEW l \in Leaves, ReleaseLeaf(l) PROVE Rolls'
  <2>1. Touched /\ UserCode'
    BY <1>8 DEF ReleaseLeaf, UserCode, Touched
  <2> QED
    BY <2>1, TouchRolls
<1>9. CASE OpenCommit \/ CloseCommit
  BY <1>9, NoFrames DEF OpenCommit, CloseCommit, UserCode, InScope
<1>10. ASSUME NEW i, NEW c \in Comments, KeepComment(i, c) PROVE Rolls'
  BY <1>10, TouchRolls DEF KeepComment, UserCode
<1>11. ASSUME NEW i, NEW l \in Leaves, KeepLeaf(i, l) PROVE Rolls'
  <2>1. Touched /\ UserCode'
    BY <1>11, KeepTouched DEF KeepLeaf, UserCode
  <2> QED
    BY <2>1, TouchRolls
<1> QED
  BY <1>1, <1>2, <1>3, <1>4, <1>5, <1>6, <1>7, <1>8, <1>9, <1>10, <1>11 DEF Next


-----------------------------------------------------------------------------
(* The undos of builds are not refused.                                    *)

\* The scopes and the list of what was minted, when some of them are gone.
FramesCut == \A i \in 1..Len(frames') : i \in 1..Len(frames) /\ frames'[i] = frames[i]

MintedCut ==
  /\ Len(minted') \in Nat /\ Len(minted') <= Len(minted)
  /\ \A i \in 1..Len(minted') : minted'[i] = minted[i]

LEMMA SiteKept ==
  ASSUME Facts, FramesCut, MintedCut, UndosCut, UNCHANGED written, NEW j \in 1..Len(undos'), NEW h,
         Site(j, h), h \in alive', row'[h] = row[h]
  PROVE  Site(j, h)'
<1>1. row'[h] = Entry(undos[j].parked)'
  BY DEF Site, Entry, UndosCut
<1>2. ASSUME NEW g \in 1..Len(frames'), j <= frames'[g].undos, NEW i \in frames'[g].minted + 1..Len(minted')
      PROVE  minted'[i] # h
  <2>1. g \in 1..Len(frames) /\ frames'[g] = frames[g] /\ frames[g].minted \in Nat
    BY LengthsNat DEF FramesCut
  <2>2. i \in 1..Len(minted') /\ i \in frames[g].minted + 1..Len(minted)
    BY <2>1, LengthsNat DEF MintedCut, Lengths
  <2> QED
    BY <1>2, <2>1, <2>2 DEF Site, MintedCut
<1> QED
  BY <1>1, <1>2 DEF Site

LEMMA PlacedKept ==
  ASSUME Facts, Placed, FramesCut, UndosCut,
         \A j \in 1..Len(undos'), h \in Holders :
           Site(j, h) /\ (\E i \in 1..Len(frames') : j > frames[i].undos) => Site(j, h)'
  PROVE  Placed'
<1> SUFFICES ASSUME NEW i \in 1..Len(frames'), ~frames'[i].touched,
                    NEW j \in frames'[i].undos + 1..Len(undos')
             PROVE  \E h \in Holders : Site(j, h)'
  BY DEF Placed, Sited
<1>1. i \in 1..Len(frames) /\ frames'[i] = frames[i] /\ frames[i].undos \in Nat
  BY LengthsNat DEF FramesCut
<1>2. j \in frames[i].undos + 1..Len(undos) /\ j \in 1..Len(undos') /\ j > frames[i].undos
  BY <1>1, LengthsNat DEF UndosCut, Lengths
<1>3. Sited(frames[i])
  BY <1>1 DEF Placed
<1>4. PICK h \in Holders : Site(j, h)
  BY <1>2, <1>3 DEF Sited
<1> QED
  BY <1>2, <1>4

\* Steps of a rollback, and the end of a scope that releases nothing.
LEMMA RollingPlaced ==
  ASSUME Facts, Scopes, Marks, Placed, Throw \/ UndoLast \/ UndoRefused \/ Undone \/ GiveBackMoved \/ GiveBackRefused \/ FinishBuild
  PROVE  Placed'
<1>1. UNCHANGED <<written, alive, row>>
  BY DEF Throw, UndoLast, UndoRefused, Undone, GiveBackMoved, GiveBackRefused, FinishBuild, store, leaves
<1>2. FramesCut /\ MintedCut /\ UndosCut
  <2>1. CASE Throw \/ UndoLast \/ Undone \/ GiveBackMoved
    <3>1. UNCHANGED <<frames, minted, undos>>
      BY <2>1 DEF Throw, UndoLast, Undone, GiveBackMoved, lists
    <3> QED
      BY <3>1, UndosKept, LengthsNat DEF FramesCut, MintedCut, Lengths
  <2>2. CASE UndoRefused \/ GiveBackRefused \/ FinishBuild
    <3>1. InScope /\ EndScope(minted, moved, undos)
      BY <2>2, CallType DEF UndoRefused, GiveBackRefused, FinishBuild, UserCode, Facts
    <3>2. FramesCut
      BY <3>1, OuterFrames DEF FramesCut
    <3>3. minted' = minted \/ minted' = <<>>
      BY <3>1, EndScopeFacts DEF Facts
    <3>4. MintedCut
      BY <3>3, LengthsNat DEF MintedCut, Lengths
    <3> QED
      BY <3>1, <3>2, <3>4, UndosKept
  <2> QED
    BY <2>1, <2>2
<1>3. \A j \in 1..Len(undos'), h \in Holders : Site(j, h) => Site(j, h)'
  BY <1>1, <1>2, SiteKept DEF Site
<1> QED
  BY <1>2, <1>3, PlacedKept

\* What a rollback releases no undo of a scope around it parks for.
LEMMA FreeMintedPlaced ==
  ASSUME Facts, Scopes, Marks, Placed, FreeMinted
  PROVE  Placed'
<1> DEFINE made == {minted[i] : i \in Top.minted + 1..Len(minted)}
           a == Top.minted
<1>1. /\ Release(made \cap alive, made \cap owned, {})
      /\ \E v, u : EndScope(SubSeq(minted, 1, a), v, u)
  BY DEF FreeMinted
<1>2. InScope
  BY CallType DEF FreeMinted, Facts, UserCode
<1>3. FramesCut
  BY <1>1, <1>2, OuterFrames DEF FramesCut
<1>4. UndosCut /\ (frames' # <<>> => Len(undos') = Top.undos)
  BY UndosCutBack
<1>5. a \in Nat /\ a <= Len(minted) /\ Len(minted) \in Nat
  BY <1>2, TopType, CallType DEF Facts
<1>6. MintedCut
  <2> HIDE DEF a
  <2>1. Len(SubSeq(minted, 1, a)) = a /\ \A j \in 1..a : SubSeq(minted, 1, a)[j] = minted[j]
    BY <1>5, SameTypes, CutSeq DEF ListTypes
  <2>2. minted' = SubSeq(minted, 1, a) \/ minted' = <<>>
    BY <1>1, <1>2, EndScopeFacts DEF Facts
  <2> QED
    BY <2>1, <2>2, <1>5 DEF MintedCut
<1>7. /\ alive' = alive \ (made \cap alive) /\ written' = written
      /\ row' = [h \in Holders |-> IF h \in made \cap alive THEN Nil ELSE row[h]]
  BY <1>1 DEF Release
<1>8. ASSUME NEW j \in 1..Len(undos'), NEW h \in Holders, Site(j, h), NEW i \in 1..Len(frames')
      PROVE  Site(j, h)'
  <2>1. frames' # <<>>
    BY <1>3, <1>2, EndScopeFacts, <1>1, <1>8, EmptySeq DEF Facts
  <2>2. j <= Top.undos /\ Len(frames) \in 1..Len(frames) /\ Top = frames[Len(frames)]
    BY <2>1, <1>2, <1>4, <1>8, TopType DEF Facts
  <2>3. \A k \in a + 1..Len(minted) : minted[k] # h
    BY <2>2, <1>8 DEF Site
  <2>4. h \notin made
    BY <2>3
  <2> HIDE DEF made
  <2>5. h \in alive' /\ row'[h] = row[h]
    BY <2>4, <1>7, <1>8 DEF Site
  <2> QED
    BY <2>5, <1>3, <1>4, <1>6, <1>7, <1>8, SiteKept
<1> HIDE DEF made, a
<1> QED
  BY <1>3, <1>4, <1>8, PlacedKept

\* What is built next is another record.
MintedMore(r) == minted' = minted \/ minted' = Append(minted, r)

LEMMA MintedOther ==
  ASSUME Facts, NEW r, MintedMore(r), UNCHANGED <<frames, written>>,
         NEW j, NEW h, Site(j, h), h # r, h \in alive', row'[h] = row[h], undos'[j] = undos[j]
  PROVE  Site(j, h)'
<1>0. minted' = minted \/ minted' = Append(minted, r)
  BY DEF MintedMore
<1>1. row'[h] = Entry(undos[j].parked)'
  BY DEF Site, Entry
<1>2. ASSUME NEW g \in 1..Len(frames), j <= frames[g].undos, NEW i \in frames[g].minted + 1..Len(minted')
      PROVE  minted'[i] # h
  <2>1. frames[g].minted \in Nat
    BY LengthsNat
  <2>2. CASE minted' = minted
    BY <1>2, <2>2 DEF Site
  <2>3. CASE minted' = Append(minted, r)
    <3>1. Len(minted') = Len(minted) + 1 /\ Len(minted) \in Nat
      BY <2>3, AppendLen, SameTypes DEF ListTypes
    <3>2. CASE i = Len(minted) + 1
      BY <2>3, <3>2, AppendLen, SameTypes DEF ListTypes
    <3>3. CASE i # Len(minted) + 1
      <4>1. i \in 1..Len(minted) /\ i \in frames[g].minted + 1..Len(minted)
        BY <2>1, <3>1, <3>3, <1>2
      <4>2. minted'[i] = minted[i]
        BY <4>1, <2>3, AppendLen, SameTypes DEF ListTypes
      <4> QED
        BY <4>1, <4>2, <1>2 DEF Site
    <3> QED
      BY <3>2, <3>3
  <2> QED
    BY <1>0, <2>2, <2>3
<1> QED
  BY <1>1, <1>2 DEF Site

LEMMA BuildCommentPlaced ==
  ASSUME Facts, Placed, NEW c \in Comments, BuildComment(c)
  PROVE  Placed'
<1>1. UNCHANGED <<frames, undos, alive, row, written>> /\ MintedMore(c)
  BY DEF BuildComment, Mint, leaves, MintedMore
<1>2. FramesCut /\ UndosCut
  BY <1>1, UndosKept DEF FramesCut
<1>3. \A h \in Holders : h # c
  BY ConstantsType
<1>4. ASSUME NEW j \in 1..Len(undos'), NEW h \in Holders, Site(j, h) PROVE Site(j, h)'
  <2>1. h \in alive' /\ row'[h] = row[h] /\ undos'[j] = undos[j] /\ h # c
    BY <1>1, <1>3, <1>4 DEF Site
  <2> QED
    BY <1>1, <1>4, <2>1, MintedOther
<1> QED
  BY <1>2, <1>4, PlacedKept

\* The record a leaf is placed in holds what the site took over.
LEMMA BuildHolderPlaced ==
  ASSUME Facts, Scopes, Marks, Placed, NEW h \in Holders, NEW l \in Leaves, BuildHolder(h, l)
  PROVE  Placed'
<1> DEFINE p == GivenUp(l)
           u == [site |-> TRUE, leaf |-> l, next |-> 0, parked |-> p, own |-> 0]
<1>0. PICK n : n = Len(undos) + 1
  OBVIOUS
<1>1. /\ UNCHANGED <<frames, written>> /\ (minted' = minted \/ minted' = Append(minted, h))
      /\ h \notin used /\ alive' = alive \cup {h} /\ row' = [row EXCEPT ![h] = Entry(trivia[l])]
      /\ undos' = undos \/ (undos' = Append(undos, u) /\ p # 0)
  BY DEF BuildHolder, Mint
<1>2. row \in [Holders -> Comments \cup {Nil}] /\ undos \in Seq(Undo)
  BY SameTypes DEF StoreTypes, ListTypes
<1>3. p # 0 => p = trivia[l]
  BY DEF GivenUp, ParkedOf
<1>4. u.parked = p
  OBVIOUS
<1> HIDE DEF u, p
<1>5. /\ Len(undos) \in Nat /\ \A j \in 1..Len(undos) : undos'[j] = undos[j]
      /\ undos' # undos => Len(undos') = n /\ undos'[n] = u
  BY <1>0, <1>1, <1>2, AppendLen, LengthsNat DEF Lengths
<1>6. ASSUME NEW j \in 1..Len(undos), NEW k \in Holders, Site(j, k) PROVE Site(j, k)'
  <2>1. k \in alive /\ k # h
    BY <1>1, <1>6 DEF Site, Facts, Named
  <2>2. k \in alive' /\ row'[k] = row[k] /\ undos'[j] = undos[j]
    BY <2>1, <1>1, <1>2, <1>5
  <2>3. UNCHANGED <<frames, written>> /\ MintedMore(h)
    BY <1>1 DEF MintedMore
  <2> QED
    BY <2>1, <2>2, <2>3, <1>6, MintedOther
<1>7. undos' # undos => Site(n, h)'
  <2> SUFFICES ASSUME undos' # undos PROVE Site(n, h)'
    OBVIOUS
  <2>1. undos'[n].parked = trivia[l] /\ trivia[l] # 0 /\ h \in alive' /\ row'[h] = Entry(trivia[l])
    BY <1>1, <1>2, <1>3, <1>4, <1>5
  <2>2. \A g \in 1..Len(frames) : ~(n <= frames[g].undos)
    <3> TAKE g \in 1..Len(frames)
    <3>1. frames[g].undos \in Nat /\ frames[g].undos <= Len(undos)
      BY LengthsNat DEF Scopes, Within
    <3> QED
      BY <3>1, <1>0, <1>5
  <2>3. row'[h] = Entry(undos[n].parked)'
    <3>1. Entry(trivia[l]) = written[trivia[l]]
      BY <2>1 DEF Entry
    <3>2. written' = written
      BY <1>1
    <3> QED
      BY <2>1, <3>1, <3>2 DEF Entry
  <2> QED
    BY <2>1, <2>2, <2>3, <1>1 DEF Site
<1>8. ASSUME NEW i \in 1..Len(frames), ~frames[i].touched, NEW j \in frames[i].undos + 1..Len(undos')
      PROVE  \E k \in Holders : Site(j, k)'
  <2>1. frames[i].undos \in Nat /\ Sited(frames[i])
    BY <1>8, LengthsNat DEF Placed
  <2>2. CASE j \in 1..Len(undos)
    <3>1. j \in frames[i].undos + 1..Len(undos)
      BY <2>1, <2>2, <1>8, <1>5
    <3>2. PICK k \in Holders : Site(j, k)
      BY <2>1, <3>1 DEF Sited
    <3> QED
      BY <3>2, <2>2, <1>6
  <2>3. CASE j \notin 1..Len(undos)
    <3>1. undos' # undos /\ j = n
      BY <2>1, <2>3, <1>8, <1>0, <1>5
    <3> QED
      BY <3>1, <1>7
  <2> QED
    BY <2>2, <2>3
<1> QED
  BY <1>1, <1>8 DEF Placed, Sited

\* A scope that begins has nothing to undo, and nothing was minted in it.
LEMMA InterceptBuildPlaced ==
  ASSUME Facts, Scopes, Marks, Placed, InterceptBuild
  PROVE  Placed'
<1> DEFINE f == [minted |-> Len(minted), moved |-> Len(moved), undos |-> Len(undos),
                 touched |-> FALSE, strayed |-> FALSE, trivia |-> trivia, parked |-> parked]
           n == Len(frames) + 1
<1>1. frames' = Append(frames, f) /\ UNCHANGED <<alive, row, written, minted, undos>>
  BY DEF InterceptBuild, lists, leaves, store
<1>2. f.minted = Len(minted) /\ f.undos = Len(undos)
  OBVIOUS
<1> HIDE DEF f
<1>3. /\ Len(frames') = n /\ Len(frames) \in Nat /\ frames'[n] = f
      /\ \A i \in 1..Len(frames) : frames'[i] = frames[i]
  BY <1>1, SameTypes, AppendLen DEF ScopeTypes
<1>4. \A i \in 1..n : i \in 1..Len(frames) \/ i = n
  BY <1>3
<1> HIDE DEF n
<1>5. Len(minted) \in Nat /\ Len(undos) \in Nat
  BY LengthsNat DEF Lengths
<1>6. ASSUME NEW j, NEW h, Site(j, h) PROVE Site(j, h)'
  <2>1. row'[h] = Entry(undos[j].parked)' /\ h \in alive'
    BY <1>1, <1>6 DEF Site, Entry
  <2>2. ASSUME NEW g \in 1..n, j <= frames'[g].undos, NEW i \in frames'[g].minted + 1..Len(minted) PROVE minted[i] # h
    BY <2>2, <1>2, <1>3, <1>4, <1>5, <1>6 DEF Site
  <2> QED
    BY <2>1, <2>2, <1>1, <1>3 DEF Site
<1>7. ASSUME NEW i \in 1..n, ~frames'[i].touched, NEW j \in frames'[i].undos + 1..Len(undos)
      PROVE  \E h \in Holders : Site(j, h)'
  <2>1. i \in 1..Len(frames) /\ frames'[i] = frames[i]
    BY <1>7, <1>2, <1>3, <1>4, <1>5
  <2>2. PICK h \in Holders : Site(j, h)
    BY <2>1, <1>7 DEF Placed, Sited
  <2> QED
    BY <2>2, <1>6
<1> QED
  BY <1>1, <1>3, <1>7 DEF Placed, Sited

LEMMA TouchPlaced == ASSUME Facts, Touch \/ Touched PROVE Placed'
<1>1. \A i \in 1..Len(frames') : frames'[i].touched
  BY TouchFacts DEF Facts, Touched
<1> QED
  BY <1>1 DEF Placed

LEMMA NextPlaced ==
  ASSUME Facts, Scopes, Marks, Placed, Next
  PROVE  Placed'
<1>1. CASE InterceptBuild \/ FinishBuild \/ Throw
  BY <1>1, InterceptBuildPlaced, RollingPlaced
<1>2. CASE UndoLast \/ UndoRefused \/ Undone \/ GiveBackMoved \/ GiveBackRefused \/ FreeMinted
  BY <1>2, RollingPlaced, FreeMintedPlaced
<1>3. ASSUME NEW c \in Comments, BuildComment(c) \/ ReleaseComment(c) PROVE Placed'
  BY <1>3, BuildCommentPlaced, TouchPlaced DEF ReleaseComment
<1>4. ASSUME NEW h \in Holders, NEW l \in Leaves, BuildHolder(h, l) PROVE Placed'
  BY <1>4, BuildHolderPlaced
<1>5. ASSUME NEW l \in Leaves, NEW c \in Comments \cup {Nil}, WriteLeaf(l, c) PROVE Placed'
  BY <1>5, WriteTouched, TouchPlaced
<1>6. ASSUME NEW h \in Holders, NEW c \in Comments \cup {Nil}, WriteSite(h, c) PROVE Placed'
  BY <1>6, TouchPlaced DEF WriteSite
<1>7. ASSUME NEW h \in Holders, ReleaseHolder(h) PROVE Placed'
  BY <1>7, TouchPlaced DEF ReleaseHolder
<1>8. ASSUME NEW l \in Leaves, ReleaseLeaf(l) PROVE Placed'
  <2>1. Touched
    BY <1>8 DEF ReleaseLeaf, Touched
  <2> QED
    BY <2>1, TouchPlaced
<1>9. CASE OpenCommit \/ CloseCommit
  <2>1. frames' = <<>>
    BY <1>9 DEF OpenCommit, CloseCommit, InScope
  <2>2. Len(frames') = 0
    BY <2>1
  <2> QED
    BY <2>2 DEF Placed
<1>10. ASSUME NEW i, NEW c \in Comments, KeepComment(i, c) PROVE Placed'
  BY <1>10, TouchPlaced DEF KeepComment
<1>11. ASSUME NEW i, NEW l \in Leaves, KeepLeaf(i, l) PROVE Placed'
  BY <1>11, KeepTouched, TouchPlaced
<1> QED
  BY <1>1, <1>2, <1>3, <1>4, <1>5, <1>6, <1>7, <1>8, <1>9, <1>10, <1>11 DEF Next


-----------------------------------------------------------------------------
(* What the undos give back.                                               *)

\* The scopes of what a throw gives back are as they were, or some of them are gone.
FramesBack ==
  \A i \in 1..Len(frames') :
    \/ frames'[i].strayed
    \/ /\ i \in 1..Len(frames) /\ ~frames[i].strayed /\ frames'[i].undos = frames[i].undos
       /\ frames'[i].trivia = frames[i].trivia /\ frames'[i].parked = frames[i].parked

LEMMA FramesBacks == ASSUME Facts, FramesCut \/ Touch \/ Touched \/ UNCHANGED frames PROVE FramesBack
BY TouchFacts DEF FramesBack, FramesCut, Facts, Touched

LEMMA NoFramesBack == ASSUME frames' = <<>> PROVE Back'
<1>1. Len(frames') = 0
  OBVIOUS
<1> QED
  BY <1>1 DEF Back

LEMMA StrayBack == ASSUME Facts, Stray PROVE Back'
<1>1. \A i \in 1..Len(frames') : frames'[i].strayed
  BY TouchFacts DEF Facts, Touched
<1> QED
  BY <1>1 DEF Back

\* Objects parked no more whose undos are of scopes that ended.
Forgotten ==
  \A o \in parked \ parked' :
    \E j \in 1..Len(undos) : undos[j].next = o /\ \A i \in 1..Len(frames') : j > frames[i].undos

\* A step that changes no leaf, and no undo of a scope that goes on.
LEMMA BackCut ==
  ASSUME Facts, Scopes, Marks, Back, FramesBack, UNCHANGED <<trivia, written>>, UndosCut,
         parked' \subseteq parked, Forgotten,
         frames' # <<>> => Ahead' \in Nat /\ Ahead' >= Ahead /\ Ahead' <= Len(undos')
  PROVE  Back'
<1> SUFFICES ASSUME NEW i \in 1..Len(frames'), ~frames'[i].strayed
             PROVE  (ParksBack(frames[i]) /\ TriviaBack(frames[i]))'
  BY DEF Back
<1>1. /\ i \in 1..Len(frames) /\ ~frames[i].strayed /\ frames'[i].undos = frames[i].undos
      /\ frames'[i].trivia = frames[i].trivia /\ frames'[i].parked = frames[i].parked
  BY DEF FramesBack
<1>2. ParksBack(frames[i]) /\ TriviaBack(frames[i])
  BY <1>1 DEF Back
<1>3. PICK b : b = frames[i].undos
  OBVIOUS
<1>4. PICK n : n = Ahead
  OBVIOUS
<1>5. PICK m : m = Ahead'
  OBVIOUS
<1>6. frames' # <<>>
  BY EmptySeq
<1>7. b \in Nat /\ n \in Nat /\ m \in Nat /\ n <= m /\ m <= Len(undos') /\ Len(undos') <= Len(undos) /\ Len(undos') \in Nat
  BY <1>1, <1>3, <1>4, <1>5, <1>6, AheadType DEF UndosCut
<1>8. \A j \in 1..Len(undos') : undos'[j] = undos[j] /\ j \in 1..Len(undos)
  BY DEF UndosCut
<1>9. \A j \in b + 1..n : j \in b + 1..m /\ undos'[j] = undos[j]
  BY <1>7, <1>8
<1>10. \A j \in b + 1..Len(undos') : j \in b + 1..Len(undos) /\ undos'[j] = undos[j] /\ j \in 1..Len(undos')
  BY <1>7, <1>8
<1>11. PICK p : p = frames[i].parked
  OBVIOUS
<1>12. /\ p \subseteq Objects
       /\ \A o \in p : o \in parked \/ \E j \in b + 1..n : undos[j].parked = o
       /\ \A o \in parked \ p : \E j \in b + 1..n : undos[j].next = o
       /\ \A j \in b + 1..Len(undos) :
            /\ undos[j].next \notin p
            /\ undos[j].parked \in p \cup {0} \/ \E k \in b + 1..j - 1 : undos[k].next = undos[j].parked
  BY <1>2, <1>3, <1>4, <1>11 DEF ParksBack
<1>13. \A o \in p \cap parked : o \in parked'
  <2> SUFFICES ASSUME NEW o \in p, o \in parked, o \notin parked' PROVE FALSE
    OBVIOUS
  <2>1. PICK j \in 1..Len(undos) : undos[j].next = o /\ j > b
    BY <1>3 DEF Forgotten
  <2>2. j \in b + 1..Len(undos)
    BY <2>1, <1>7
  <2> QED
    BY <2>1, <2>2, <1>12
<1>14. ParksBack(frames[i])'
  <2>1. p \subseteq Objects'
    BY <1>12 DEF Objects
  <2>2. \A o \in p : o \in parked' \/ \E j \in b + 1..m : undos'[j].parked = o
    BY <1>9, <1>12, <1>13
  <2>3. \A o \in parked' \ p : \E j \in b + 1..m : undos'[j].next = o
    BY <1>9, <1>12
  <2>4. ASSUME NEW j \in b + 1..Len(undos')
        PROVE  /\ undos'[j].next \notin p
               /\ undos'[j].parked \in p \cup {0} \/ \E k \in b + 1..j - 1 : undos'[k].next = undos'[j].parked
    <3>1. \A k \in b + 1..j - 1 : undos'[k] = undos[k]
      BY <1>7, <1>8
    <3> QED
      BY <3>1, <1>10, <1>12
  <2> QED
    BY <2>1, <2>2, <2>3, <2>4, <1>1, <1>3, <1>5, <1>11 DEF ParksBack
<1>15. TriviaBack(frames[i])'
  <2> SUFFICES ASSUME NEW l \in Leaves
               PROVE  /\ Clear(b, m, l)' => trivia'[l] = frames[i].trivia[l]
                      /\ \A j \in b + 1..Len(undos') :
                           Writes(j, l)' /\ Clear(b, j - 1, l)' => undos'[j].own = frames[i].trivia[l]
    BY <1>1, <1>3, <1>5 DEF TriviaBack
  <2>1. Clear(b, m, l)' => Clear(b, n, l)
    BY <1>9 DEF Clear, Writes
  <2>2. Clear(b, n, l) => trivia[l] = frames[i].trivia[l]
    BY <1>2, <1>3, <1>4 DEF TriviaBack
  <2>3. ASSUME NEW j \in b + 1..Len(undos'), Writes(j, l)', Clear(b, j - 1, l)'
        PROVE  undos'[j].own = frames[i].trivia[l]
    <3>1. \A k \in b + 1..j - 1 : undos'[k] = undos[k]
      BY <1>7, <1>8
    <3>2. Writes(j, l) /\ Clear(b, j - 1, l) /\ j \in b + 1..Len(undos) /\ undos'[j] = undos[j]
      BY <2>3, <3>1, <1>10 DEF Writes, Clear
    <3> QED
      BY <3>2, <1>2, <1>3 DEF TriviaBack
  <2> QED
    BY <2>1, <2>2, <2>3
<1> QED
  BY <1>14, <1>15

\* A placement, or a write, whose undo parks again what it gave up.
LEMMA BackMore ==
  ASSUME Facts, Scopes, Marks, Back, UserCode, UserCode', FramesBack, NEW u, undos' = Append(undos, u),
         u.parked \in parked \cup {0}, u.next \in {0, Len(written) + 1},
         Len(written') \in Nat, Len(written') >= Len(written),
         parked' = (parked \ {u.parked}) \cup ({u.next} \ {0}),
         \A l \in Leaves : trivia'[l] = trivia[l] \/ (~u.site /\ u.leaf = l),
         \A l \in Leaves : ~u.site /\ u.leaf = l => u.own = trivia[l]
  PROVE  Back'
<1> SUFFICES ASSUME NEW i \in 1..Len(frames'), ~frames'[i].strayed
             PROVE  (ParksBack(frames[i]) /\ TriviaBack(frames[i]))'
  BY DEF Back
<1>1. /\ i \in 1..Len(frames) /\ ~frames[i].strayed /\ frames'[i].undos = frames[i].undos
      /\ frames'[i].trivia = frames[i].trivia /\ frames'[i].parked = frames[i].parked
  BY DEF FramesBack
<1>2. ParksBack(frames[i]) /\ TriviaBack(frames[i])
  BY <1>1 DEF Back
<1>3. PICK b : b = frames[i].undos
  OBVIOUS
<1>4. PICK n : n = Len(undos)
  OBVIOUS
<1>0. PICK m : m = n + 1
  OBVIOUS
<1>5. /\ n \in Nat /\ m \in Nat /\ m = n + 1 /\ Len(undos') = m /\ undos'[m] = u
      /\ \A j \in 1..n : undos'[j] = undos[j]
  BY <1>0, <1>4, AppendLen, SameTypes DEF ListTypes
<1>6. n = Ahead /\ m = Ahead'
  BY <1>4, <1>5 DEF UserCode, Ahead
<1>7. b \in Nat /\ b <= n
  BY <1>1, <1>3, <1>6, AheadType
<1>8. \A j \in b + 1..n : j \in b + 1..m /\ undos'[j] = undos[j]
  BY <1>5, <1>7
<1>9. \A j \in b + 1..m : j \in b + 1..n \/ j = m
  BY <1>5, <1>7
<1>10. m \in b + 1..m /\ m - 1 = n
  BY <1>5, <1>7
<1>11. PICK p : p = frames[i].parked
  OBVIOUS
<1>12. /\ p \subseteq Objects
       /\ \A o \in p : o \in parked \/ \E j \in b + 1..n : undos[j].parked = o
       /\ \A o \in parked \ p : \E j \in b + 1..n : undos[j].next = o
       /\ \A j \in b + 1..n :
            /\ undos[j].next \notin p
            /\ undos[j].parked \in p \cup {0} \/ \E k \in b + 1..j - 1 : undos[k].next = undos[j].parked
  BY <1>2, <1>3, <1>4, <1>6, <1>11 DEF ParksBack
<1>13. Len(written) \in Nat /\ Len(written) + 1 \notin Objects /\ 0 \notin Objects
  BY LengthsNat, SameTypes DEF Objects, LeafTypes
<1>16. frames'[i].undos = b /\ frames'[i].parked = p /\ Ahead' = m /\ Len(undos') = m
  BY <1>1, <1>3, <1>5, <1>6, <1>11
<1>14. ParksBack(frames[i])'
  <2>1. p \subseteq Objects'
    BY <1>12, <1>13 DEF Objects
  <2>2. \A o \in p : o \in parked' \/ \E j \in b + 1..m : undos'[j].parked = o
    <3> SUFFICES ASSUME NEW o \in p, o \notin parked' PROVE \E j \in b + 1..m : undos'[j].parked = o
      OBVIOUS
    <3>1. CASE o = u.parked
      BY <3>1, <1>5, <1>10
    <3>2. CASE o # u.parked
      <4>1. o \notin parked
        BY <3>2
      <4>2. PICK j \in b + 1..n : undos[j].parked = o
        BY <4>1, <1>12
      <4> QED
        BY <4>2, <1>8
    <3> QED
      BY <3>1, <3>2
  <2>3. \A o \in parked' \ p : \E j \in b + 1..m : undos'[j].next = o
    <3> SUFFICES ASSUME NEW o \in parked', o \notin p PROVE \E j \in b + 1..m : undos'[j].next = o
      OBVIOUS
    <3>1. CASE o = u.next
      BY <3>1, <1>5, <1>10
    <3>2. CASE o # u.next
      <4>1. o \in parked
        BY <3>2
      <4>2. PICK j \in b + 1..n : undos[j].next = o
        BY <4>1, <1>12
      <4> QED
        BY <4>2, <1>8
    <3> QED
      BY <3>1, <3>2
  <2>4. ASSUME NEW j \in b + 1..m
        PROVE  /\ undos'[j].next \notin p
               /\ undos'[j].parked \in p \cup {0} \/ \E k \in b + 1..j - 1 : undos'[k].next = undos'[j].parked
    <3>1. CASE j \in b + 1..n
      <4>1. \A k \in b + 1..j - 1 : undos'[k] = undos[k]
        BY <3>1, <1>5, <1>7
      <4>2. undos'[j] = undos[j]
        BY <3>1, <1>8
      <4>3. /\ undos[j].next \notin p
            /\ undos[j].parked \in p \cup {0} \/ \E k \in b + 1..j - 1 : undos[k].next = undos[j].parked
        BY <3>1, <1>12
      <4> QED
        BY <4>1, <4>2, <4>3
    <3>2. CASE j = m
      <4>1. undos'[j] = u /\ j - 1 = n
        BY <3>2, <1>5
      <4>2. u.next \notin p
        BY <1>12, <1>13
      <4>3. u.parked \in p \cup {0} \/ \E k \in b + 1..n : undos[k].next = u.parked
        BY <1>12
      <4> QED
        BY <4>1, <4>2, <4>3, <1>8
    <3> QED
      BY <1>9, <3>1, <3>2
  <2> QED
    BY <2>1, <2>2, <2>3, <2>4, <1>16 DEF ParksBack
<1>15. TriviaBack(frames[i])'
  <2> SUFFICES ASSUME NEW l \in Leaves
               PROVE  /\ Clear(b, m, l)' => trivia'[l] = frames[i].trivia[l]
                      /\ \A j \in b + 1..m :
                           Writes(j, l)' /\ Clear(b, j - 1, l)' => undos'[j].own = frames[i].trivia[l]
    BY ZenonT(60), <1>1, <1>16 DEF TriviaBack
  <2>1. Clear(b, n, l) => trivia[l] = frames[i].trivia[l]
    BY <1>2, <1>3, <1>6 DEF TriviaBack
  <2>2. ASSUME Clear(b, m, l)' PROVE trivia'[l] = frames[i].trivia[l]
    <3>1. \A j \in b + 1..m : ~(undos'[j].leaf = l /\ ~undos'[j].site)
      BY <2>2, <1>4 DEF Clear, Writes
    <3>2. Clear(b, n, l) /\ ~(u.leaf = l /\ ~u.site)
      BY <3>1, <1>5, <1>8, <1>10 DEF Clear, Writes
    <3> QED
      BY <3>2, <2>1
  <2>3. ASSUME NEW j \in b + 1..m, Writes(j, l)', Clear(b, j - 1, l)'
        PROVE  undos'[j].own = frames[i].trivia[l]
    <3>1. Clear(b, j - 1, l)
      <4>1. \A k \in b + 1..j - 1 : undos'[k] = undos[k]
        BY <1>5, <1>7
      <4> QED
        BY <4>1, <2>3 DEF Clear, Writes
    <3>2. CASE j \in b + 1..n
      <4>1. Writes(j, l) /\ undos'[j] = undos[j] /\ j \in b + 1..Len(undos)
        BY <3>2, <2>3, <1>4, <1>8 DEF Writes
      <4> QED
        BY <4>1, <3>1, <1>2, <1>3 DEF TriviaBack
    <3>3. CASE j = m
      <4>1. u.leaf = l /\ ~u.site /\ undos'[j] = u
        BY <3>3, <2>3, <1>5 DEF Writes
      <4>2. Clear(b, n, l)
        BY <3>1, <3>3, <1>10
      <4> QED
        BY <4>1, <4>2, <2>1
    <3> QED
      BY <1>9, <3>2, <3>3
  <2> QED
    BY <2>2, <2>3
<1> QED
  BY <1>14, <1>15


\* A scope that begins takes down the leaves there are.
LEMMA InterceptBuildBack ==
  ASSUME Facts, Scopes, Marks, Back, InterceptBuild
  PROVE  Back'
<1> DEFINE f == [minted |-> Len(minted), moved |-> Len(moved), undos |-> Len(undos),
                 touched |-> FALSE, strayed |-> FALSE, trivia |-> trivia, parked |-> parked]
           n == Len(frames) + 1
<1>1. /\ frames' = Append(frames, f) /\ UNCHANGED <<written, trivia, parked, undos, call>>
      /\ UserCode /\ UserCode'
  BY DEF InterceptBuild, lists, leaves, UserCode
<1>2. f.undos = Len(undos) /\ f.trivia = trivia /\ f.parked = parked
  OBVIOUS
<1> HIDE DEF f
<1>3. /\ Len(frames') = n /\ Len(frames) \in Nat /\ frames'[n] = f
      /\ \A i \in 1..Len(frames) : frames'[i] = frames[i]
  BY <1>1, SameTypes, AppendLen DEF ScopeTypes
<1>4. \A i \in 1..n : i \in 1..Len(frames) \/ i = n
  BY <1>3
<1> HIDE DEF n
<1>5. Ahead = Len(undos) /\ Ahead' = Len(undos) /\ Len(undos) \in Nat
  BY <1>1, AheadType DEF Ahead, UserCode
<1>6. \A j : j \notin Len(undos) + 1..Len(undos)
  BY <1>5
<1>7. ASSUME NEW i, frames'[i] = f PROVE (ParksBack(frames[i]) /\ TriviaBack(frames[i]))'
  <2>1. parked' \subseteq Objects'
    BY <1>1 DEF Facts, Made, Objects
  <2> QED
    BY <1>1, <1>2, <1>5, <1>6, <1>7, <2>1 DEF ParksBack, TriviaBack
<1>8. ASSUME NEW i \in 1..Len(frames), frames'[i] = frames[i], ParksBack(frames[i]), TriviaBack(frames[i])
      PROVE  (ParksBack(frames[i]) /\ TriviaBack(frames[i]))'
  BY <1>1, <1>5, <1>8 DEF ParksBack, TriviaBack, Objects, Clear, Writes
<1>9. ASSUME NEW i \in 1..n, ~frames'[i].strayed PROVE (ParksBack(frames[i]) /\ TriviaBack(frames[i]))'
  <2>1. CASE i = n
    BY <2>1, <1>3, <1>7
  <2>2. CASE i # n
    BY <2>2, <1>3, <1>4, <1>8, <1>9 DEF Back
  <2> QED
    BY <2>1, <2>2
<1> QED
  BY <1>3, <1>9 DEF Back

\* The end of a scope: what it had to undo is left to the scopes around it, or done.
LEMMA EndScopeBack ==
  ASSUME Facts, Scopes, Marks, Back, FinishBuild \/ UndoRefused \/ GiveBackRefused \/ FreeMinted
  PROVE  Back'
<1>1. InScope /\ (\E m, v, u : EndScope(m, v, u)) /\ UNCHANGED <<trivia, written>> /\ UserCode'
  BY CallType DEF FinishBuild, UndoRefused, GiveBackRefused, FreeMinted, Release, UserCode, NoCall, leaves, Facts
<1>2. FramesCut
  BY <1>1, OuterFrames DEF FramesCut
<1>3. UndosCut
  BY <1>1, UndosKept, UndosCutBack DEF FinishBuild, UndoRefused, GiveBackRefused
<1>4. Ahead' = Len(undos') /\ Len(undos') \in Nat /\ Ahead \in Nat /\ Ahead <= Len(undos)
  BY <1>1, <1>3, AheadType DEF Ahead, UserCode, UndosCut
<1>5. frames' # <<>> => Ahead' >= Ahead
  <2>1. CASE FreeMinted
    <3>1. Ahead = Top.undos
      BY <2>1 DEF FreeMinted, Ahead
    <3> QED
      BY <2>1, <3>1, <1>4, UndosCutBack
  <2>2. CASE FinishBuild \/ UndoRefused \/ GiveBackRefused
    <3>1. EndScope(minted, moved, undos)
      BY <2>2 DEF FinishBuild, UndoRefused, GiveBackRefused
    <3>2. frames' # <<>> => undos' = undos
      BY <3>1, <1>1, EndScopeFacts DEF Facts
    <3> QED
      BY <3>2, <1>4
  <2> QED
    BY <2>1, <2>2
<1>6. parked' \subseteq parked /\ Forgotten
  <2>1. CASE UndoRefused
    <3>1. parked' = parked \ {undos[call.n].next} /\ call.n > Top.undos
      BY <2>1 DEF UndoRefused
    <3>2. call.n \in 1..Len(undos) /\ call.n \in Nat
      BY <2>1, UndoNext, CallType DEF UndoRefused, Facts
    <3>3. \A i \in 1..Len(frames') : call.n > frames[i].undos
      <4>1. \A i \in 1..Len(frames') : frames[i].undos \in Nat /\ frames[i].undos <= Top.undos
        BY <1>1, OuterFrames
      <4>2. Top.undos \in Nat
        BY <1>1, TopType DEF Facts
      <4> QED
        BY <3>1, <3>2, <4>1, <4>2
    <3> QED
      BY <3>1, <3>2, <3>3 DEF Forgotten
  <2>2. CASE FreeMinted
    <3>1. \E hs, cs : Release(hs, cs, {})
      BY <2>2, FreeMintedReleases
    <3> QED
      BY <3>1 DEF Release, ParksLeft, Forgotten
  <2>3. CASE FinishBuild \/ GiveBackRefused
    BY <2>3 DEF FinishBuild, GiveBackRefused, leaves, Forgotten
  <2> QED
    BY <2>1, <2>2, <2>3
<1> QED
  BY <1>1, <1>2, <1>3, <1>4, <1>5, <1>6, FramesBacks, BackCut

\* A step that changes no leaf and no undo.
LEMMA QuietBack ==
  ASSUME Facts, Scopes, Marks, Back, FramesBack, UNCHANGED <<trivia, written, parked, undos>>, Ahead' = Ahead
  PROVE  Back'
<1>1. UndosCut /\ Forgotten
  BY UndosKept DEF Forgotten
<1> QED
  BY <1>1, AheadType, BackCut

\* An undo of a write gives the leaf back what it had, and what it parked.
LEMMA UndoLastBack ==
  ASSUME Facts, Scopes, Marks, Back, UndoLast
  PROVE  Back'
<1> SUFFICES ASSUME NEW i \in 1..Len(frames), ~frames[i].strayed
             PROVE  (ParksBack(frames[i]) /\ TriviaBack(frames[i]))' /\ frames' = frames
  BY DEF Back, UndoLast
<1>1. frames' = frames /\ UNCHANGED <<written, undos>>
  BY DEF UndoLast
<1>2. ParksBack(frames[i]) /\ TriviaBack(frames[i])
  BY DEF Back
<1>3. PICK b : b = frames[i].undos
  OBVIOUS
<1>4. PICK n : n = call.n
  OBVIOUS
<1>5. PICK m : m = n - 1
  OBVIOUS
<1>6. /\ call.op = "undo" /\ n \in 1..Len(undos) /\ n > Top.undos /\ Len(undos) \in Nat
      /\ call' = [call EXCEPT !.n = call.n - 1]
  BY <1>4, UndoNext, LengthsNat DEF UndoLast, Lengths
<1>7. n = Ahead /\ m = Ahead'
  <2>1. call'.op = "undo" /\ call'.n = call.n - 1
    BY <1>6, CallTypes
  <2> QED
    BY <2>1, <1>4, <1>5, <1>6 DEF Ahead
<1>8. b \in Nat /\ n \in Nat /\ m \in Nat /\ b < n /\ n = m + 1
  <2>1. b \in Nat /\ Top.undos \in Nat /\ b <= Top.undos
    BY <1>3, AheadType
  <2> QED
    BY <2>1, <1>5, <1>6
<1>9. n \in b + 1..Len(undos) /\ \A j \in b + 1..n : j \in b + 1..m \/ j = n
  BY <1>6, <1>8
<1>10. PICK p : p = frames[i].parked
  OBVIOUS
<1>11. /\ p \subseteq Objects
       /\ \A o \in p : o \in parked \/ \E j \in b + 1..n : undos[j].parked = o
       /\ \A o \in parked \ p : \E j \in b + 1..n : undos[j].next = o
       /\ \A j \in b + 1..Len(undos) :
            /\ undos[j].next \notin p
            /\ undos[j].parked \in p \cup {0} \/ \E k \in b + 1..j - 1 : undos[k].next = undos[j].parked
  BY <1>2, <1>3, <1>7, <1>10 DEF ParksBack
<1> DEFINE u == undos[n]
<1>12. /\ parked' = (parked \ {u.next}) \cup ({u.parked} \ {0})
       /\ trivia' = IF u.site THEN trivia ELSE [trivia EXCEPT ![u.leaf] = u.own]
  BY <1>4 DEF UndoLast, Reparked
<1> HIDE DEF u
<1>13. ParksBack(frames[i])'
  <2>1. ASSUME NEW o \in p, o \notin parked' PROVE \E j \in b + 1..m : undos[j].parked = o
    <3>1. o \notin parked
      BY <2>1, <1>9, <1>11, <1>12 DEF u
    <3>2. PICK j \in b + 1..n : undos[j].parked = o
      BY <3>1, <2>1, <1>11
    <3>3. o # 0
      BY <2>1, <1>11 DEF Objects
    <3>4. j # n
      BY <3>2, <3>3, <2>1, <1>12 DEF u
    <3> QED
      BY <3>2, <3>4, <1>9
  <2>2. ASSUME NEW o \in parked', o \notin p PROVE \E j \in b + 1..m : undos[j].next = o
    <3>1. CASE o \in parked /\ o # u.next
      <4>1. PICK j \in b + 1..n : undos[j].next = o
        BY <3>1, <2>2, <1>11
      <4> QED
        BY <4>1, <3>1, <1>9 DEF u
    <3>2. CASE o = u.parked /\ o # 0
      <4>1. \E k \in b + 1..n - 1 : undos[k].next = o
        BY <3>2, <2>2, <1>9, <1>11 DEF u
      <4> QED
        BY <4>1, <1>5
    <3> QED
      BY <3>1, <3>2, <2>2, <1>12
  <2>3. p \subseteq Objects'
    BY <1>1, <1>11 DEF Objects
  <2>4. /\ frames'[i].undos = b /\ frames'[i].parked = p /\ Ahead' = m /\ undos' = undos
    BY <1>1, <1>3, <1>7, <1>10
  <2>5. \A o \in p : o \in parked' \/ \E j \in b + 1..m : undos[j].parked = o
    BY <2>1
  <2>6. \A o \in parked' \ p : \E j \in b + 1..m : undos[j].next = o
    BY <2>2
  <2> QED
    BY <2>3, <2>4, <2>5, <2>6, <1>11 DEF ParksBack
<1>14. TriviaBack(frames[i])'
  <2> SUFFICES ASSUME NEW l \in Leaves
               PROVE  /\ Clear(b, m, l) => trivia'[l] = frames[i].trivia[l]
                      /\ \A j \in b + 1..Len(undos) :
                           Writes(j, l) /\ Clear(b, j - 1, l) => undos[j].own = frames[i].trivia[l]
    BY <1>1, <1>3, <1>7 DEF TriviaBack, Clear, Writes
  <2>1. /\ Clear(b, n, l) => trivia[l] = frames[i].trivia[l]
        /\ \A j \in b + 1..Len(undos) : Writes(j, l) /\ Clear(b, j - 1, l) => undos[j].own = frames[i].trivia[l]
    BY <1>2, <1>3, <1>7 DEF TriviaBack
  <2>2. ASSUME Clear(b, m, l) PROVE trivia'[l] = frames[i].trivia[l]
    <3>1. CASE Writes(n, l)
      <4>1. u.own = frames[i].trivia[l]
        BY <3>1, <2>1, <2>2, <1>5, <1>9 DEF u
      <4>2. trivia'[l] = u.own
        BY <3>1, <1>12, SameTypes DEF Writes, LeafTypes, u
      <4> QED
        BY <4>1, <4>2
    <3>2. CASE ~Writes(n, l)
      <4>1. Clear(b, n, l)
        BY <3>2, <2>2, <1>9 DEF Clear
      <4>2. trivia'[l] = trivia[l]
        BY <3>2, <1>12, SameTypes DEF Writes, LeafTypes, u
      <4> QED
        BY <4>1, <4>2, <2>1
    <3> QED
      BY <3>1, <3>2
  <2> QED
    BY <2>1, <2>2
<1> QED
  BY <1>1, <1>13, <1>14

LEMMA BuildHolderBack ==
  ASSUME Facts, Scopes, Marks, Back, NEW h \in Holders, NEW l \in Leaves, BuildHolder(h, l)
  PROVE  Back'
<1> DEFINE p == GivenUp(l)
           u == [site |-> TRUE, leaf |-> l, next |-> 0, parked |-> p, own |-> 0]
<1>1. /\ UserCode /\ UserCode' /\ UNCHANGED <<written, trivia, frames, call>> /\ parked' = parked \ {p}
      /\ undos' = IF p # 0 /\ InScope THEN Append(undos, u) ELSE undos
  BY DEF BuildHolder, UserCode
<1>2. p \in parked \cup {0} /\ 0 \notin parked /\ Len(written) \in Nat
  BY LeafObject DEF GivenUp
<1>3. u.site /\ u.next = 0 /\ u.parked = p
  OBVIOUS
<1> HIDE DEF p, u
<1>4. FramesBack
  BY <1>1, FramesBacks
<1>5. CASE p # 0 /\ InScope
  <2>1. parked' = (parked \ {u.parked}) \cup ({u.next} \ {0})
    BY <1>1, <1>3
  <2>2. undos' = Append(undos, u) /\ u.parked \in parked \cup {0} /\ u.next \in {0, Len(written) + 1}
    BY <1>1, <1>2, <1>3, <1>5
  <2>3. Len(written') \in Nat /\ Len(written') >= Len(written) /\ trivia' = trivia
    BY <1>1, <1>2
  <2> QED
    BY <2>1, <2>2, <2>3, <1>1, <1>3, <1>4, BackMore
<1>6. CASE p = 0
  <2>1. UNCHANGED <<trivia, written, parked, undos>> /\ Ahead' = Ahead
    BY <1>1, <1>2, <1>6 DEF Ahead, UserCode
  <2> QED
    BY <2>1, <1>4, QuietBack
<1>7. CASE ~InScope
  BY <1>1, <1>7, NoFramesBack DEF InScope
<1> QED
  BY <1>5, <1>6, <1>7

LEMMA WriteLeafBack ==
  ASSUME Facts, Scopes, Marks, Back, NEW l \in Leaves, NEW c \in Comments \cup {Nil}, WriteLeaf(l, c)
  PROVE  Back'
<1> DEFINE stays == Sites(l) # {} /\ ~Kept(l)
           o == Len(written) + 1
           old == ParkedOf(l)
           u == [site |-> FALSE, leaf |-> l, next |-> o, parked |-> old, own |-> trivia[l]]
<1>1. /\ UserCode /\ UserCode' /\ written' = Append(written, c) /\ trivia' = [trivia EXCEPT ![l] = o]
  BY DEF WriteLeaf, UserCode
<1>2. stays => Stray
  BY DEF WriteLeaf
<1>3. ~stays => /\ parked' = (parked \ {old}) \cup {o}
                /\ undos' = IF InScope THEN Append(undos, u) ELSE undos
  BY DEF WriteLeaf
<1>4. FramesBack /\ ((frames' # <<>>) <=> InScope)
  BY WriteTouched, FramesBacks, TouchFacts DEF Facts
<1>5. u.leaf = l /\ ~u.site /\ u.own = trivia[l] /\ u.next = o /\ u.parked = old
  OBVIOUS
<1>6. old \in parked \cup {0} /\ 0 \notin parked /\ Len(written) \in Nat
  BY LeafObject
<1>7. CASE stays
  BY <1>2, <1>7, StrayBack
<1>8. CASE ~stays /\ InScope
  <2> HIDE DEF stays, u, old
  <2>1. Len(written') \in Nat /\ Len(written') >= Len(written)
    BY <1>1, <1>6, WrittenMore
  <2>2. o # 0
    BY <1>6
  <2>3. \A k \in Leaves : trivia'[k] = trivia[k] \/ (~u.site /\ u.leaf = k)
    BY <1>1, <1>5, SameTypes DEF LeafTypes
  <2>4. \A k \in Leaves : ~u.site /\ u.leaf = k => u.own = trivia[k]
    BY <1>5
  <2>5. parked' = (parked \ {u.parked}) \cup ({u.next} \ {0})
    BY <1>3, <1>5, <1>8, <2>2
  <2>6. undos' = Append(undos, u) /\ u.parked \in parked \cup {0} /\ u.next \in {0, Len(written) + 1}
    BY <1>3, <1>5, <1>6, <1>8
  <2> HIDE DEF o
  <2> QED
    BY <2>1, <2>3, <2>4, <2>5, <2>6, <1>1, <1>4, BackMore
<1>9. CASE ~InScope
  BY <1>4, <1>9, NoFramesBack
<1> QED
  BY <1>7, <1>8, <1>9

LEMMA NextBack ==
  ASSUME Facts, Scopes, Marks, Back, Next
  PROVE  Back'
<1>1. CASE InterceptBuild \/ FinishBuild \/ UndoRefused \/ GiveBackRefused \/ FreeMinted
  BY <1>1, InterceptBuildBack, EndScopeBack
<1>2. CASE Throw \/ Undone \/ GiveBackMoved
  <2>1. FramesBack /\ UNCHANGED <<trivia, written, parked, undos>>
    BY <1>2, FramesBacks DEF Throw, Undone, GiveBackMoved, leaves, lists
  <2>2. Ahead' = Ahead
    <3>1. CASE Throw
      BY <3>1 DEF Throw, Ahead, UserCode, lists
    <3>2. CASE Undone
      BY <3>2 DEF Undone, Ahead, Top, lists
    <3>3. CASE GiveBackMoved
      <4>1. call' = [call EXCEPT !.n = call.n - 1] /\ call.op = "giveback" /\ frames' = frames
        BY <3>3 DEF GiveBackMoved
      <4>2. call'.op = "giveback"
        BY <4>1, CallTypes
      <4> QED
        BY <4>1, <4>2 DEF Ahead, Top
    <3> QED
      BY <1>2, <3>1, <3>2, <3>3
  <2> QED
    BY <2>1, <2>2, QuietBack
<1>3. CASE UndoLast
  BY <1>3, UndoLastBack
<1>4. ASSUME NEW c \in Comments, BuildComment(c) \/ ReleaseComment(c) PROVE Back'
  <2>1. UserCode /\ UNCHANGED <<trivia, written, parked, undos, call>> /\ (Touch \/ UNCHANGED frames)
    BY <1>4 DEF BuildComment, ReleaseComment, Release, ParksLeft, leaves, lists
  <2> QED
    BY <2>1, FramesBacks, QuietBack DEF Ahead, UserCode
<1>5. ASSUME NEW h \in Holders, NEW l \in Leaves, BuildHolder(h, l) PROVE Back'
  BY <1>5, BuildHolderBack
<1>6. ASSUME NEW l \in Leaves, NEW c \in Comments \cup {Nil}, WriteLeaf(l, c) PROVE Back'
  BY <1>6, WriteLeafBack
<1>7. ASSUME NEW h \in Holders, NEW c \in Comments \cup {Nil}, WriteSite(h, c) PROVE Back'
  <2>1. UserCode /\ UNCHANGED <<trivia, written, parked, undos, call>> /\ Touch
    BY <1>7 DEF WriteSite, leaves, lists
  <2> QED
    BY <2>1, FramesBacks, QuietBack DEF Ahead, UserCode
<1>8. ASSUME NEW h \in Holders, ReleaseHolder(h) PROVE Back'
  <2>1. UserCode /\ UNCHANGED <<trivia, written, parked, undos, call>> /\ Touch
    BY <1>8 DEF ReleaseHolder, Release, ParksLeft, lists
  <2> QED
    BY <2>1, FramesBacks, QuietBack DEF Ahead, UserCode
<1>9. ASSUME NEW l \in Leaves, ReleaseLeaf(l) PROVE Back'
  <2>1. Stray
    BY <1>9 DEF ReleaseLeaf
  <2> QED
    BY <2>1, StrayBack
<1>10. CASE OpenCommit \/ CloseCommit
  <2>1. frames' = <<>>
    BY <1>10 DEF OpenCommit, CloseCommit, InScope
  <2> QED
    BY <2>1, NoFramesBack
<1>11. ASSUME NEW i, NEW c \in Comments, KeepComment(i, c) PROVE Back'
  <2>1. UserCode /\ UNCHANGED <<trivia, written, parked, undos, call>> /\ Touch
    BY <1>11 DEF KeepComment, leaves, lists
  <2> QED
    BY <2>1, FramesBacks, QuietBack DEF Ahead, UserCode
<1>12. ASSUME NEW i, NEW l \in Leaves, KeepLeaf(i, l) PROVE Back'
  <2>1. CASE Unparked(l)
    <3>1. Stray
      BY <1>12, <2>1 DEF KeepLeaf
    <3> QED
      BY <3>1, StrayBack
  <2>2. CASE ~Unparked(l)
    <3>1. UserCode /\ UNCHANGED <<trivia, written, parked, undos, call>> /\ Touched
      BY <1>12, <2>2, KeepTouched DEF KeepLeaf
    <3> QED
      BY <3>1, FramesBacks, QuietBack DEF Ahead, UserCode
  <2> QED
    BY <2>1, <2>2
<1> QED
  BY <1>1, <1>2, <1>3, <1>4, <1>5, <1>6, <1>7, <1>8, <1>9, <1>10, <1>11, <1>12 DEF Next


-----------------------------------------------------------------------------
(* The theorems.                                                           *)

LEMMA InitHolds == Init => IInv
<1> SUFFICES ASSUME Init PROVE IInv
  OBVIOUS
<1> DEFINE none == <<>>
           zero == [c \in Comments |-> 0]
<1>1. /\ count = zero /\ owned = {} /\ used = {} /\ alive = {}
      /\ leafAt = [h \in Holders |-> Nil] /\ row = [h \in Holders |-> Nil]
      /\ written = none /\ trivia = [l \in Leaves |-> 0] /\ parked = {} /\ loose = {}
      /\ minted = none /\ moved = none /\ undos = none /\ listed = none
      /\ frames = none /\ commits = none /\ tainted = 0
      /\ call = [op |-> "none", n |-> 0] /\ call.op = "none"
  BY DEF Init, NoCall
<1>2. Len(none) = 0 /\ \A S : none \in Seq(S)
  OBVIOUS
<1> HIDE DEF none
<1>3. TypeOK
  <2>1. call \in [op: {"none", "undo", "giveback", "free"}, n: Nat] /\ count \in [Comments -> Nat]
    BY <1>1
  <2>2. trivia \in [Leaves -> 0..MaxWrites] /\ Len(written) <= MaxWrites
    BY <1>1, <1>2, ConstantsType
  <2>3. leafAt \in [Holders -> Leaves \cup {Nil}] /\ row \in [Holders -> Comments \cup {Nil}]
    BY <1>1
  <2> QED
    BY <2>1, <2>2, <2>3, <1>1, <1>2 DEF TypeOK
<1>4. Named
  BY <1>1, <1>2, FS_EmptySet DEF Named, Objects
<1>5. Made
  BY <1>1, <1>2 DEF Made, Objects
<1>6. Scopes
  BY <1>1, <1>2 DEF Scopes, UserCode
<1>7. Marks
  BY <1>1, <1>2 DEF Marks
<1>8. Owners
  BY <1>1, <1>2 DEF Owners, OfLeaf
<1>9. \A c \in Comments : count[c] = HoldsOf(c)
  <2> TAKE c \in Comments
  <2>1. OwnCount(owned, c) + RowCount(alive, row, c) + ParkCount(parked, written, c) = 0
    BY <1>1, NoneHeld
  <2> QED
    BY <2>1, <1>1, HoldsSum
<1>10. SidesCover /\ SidesExact
  BY <1>1, <1>9 DEF SidesCover, SidesExact
<1>11. Rollbacks
  BY <1>1, <1>2 DEF Rollbacks
<1>12. Unspent
  BY <1>1, <1>2 DEF Unspent, UserCode
<1>13. Placed /\ Back
  BY <1>1, <1>2 DEF Placed, Back
<1> QED
  BY <1>3, <1>4, <1>5, <1>6, <1>7, <1>8, <1>10, <1>11, <1>12, <1>13 DEF IInv

LEMMA StepHolds == IInv /\ [Next]_vars => IInv'
<1> SUFFICES ASSUME IInv, [Next]_vars PROVE IInv'
  OBVIOUS
<1>1. Facts /\ Scopes /\ Marks /\ Owners /\ SidesCover /\ SidesExact /\ Rolls /\ Placed /\ Back
  BY DEF IInv, Facts, Rolls
<1>2. CASE Next
  <2>1. TypeOK' /\ SidesCover' /\ SidesExact'
    BY <1>1, <1>2, NextCovers, NextExact DEF Rolls
  <2>2. Made' /\ Owners' /\ Named'
    BY <1>1, <1>2, NextObjects, NextNamed
  <2>3. Scopes' /\ Marks' /\ Rolls'
    BY <1>1, <1>2, NextScopes, NextRolls
  <2>4. Placed' /\ Back'
    BY <1>1, <1>2, NextPlaced, NextBack
  <2> QED
    BY <2>1, <2>2, <2>3, <2>4 DEF IInv, Rolls
<1>3. CASE UNCHANGED vars
  <2>1. UNCHANGED <<count, owned, used, alive, leafAt, row, written, trivia, parked, loose, minted, moved, undos, listed,
                    frames, commits, call, tainted>>
    BY <1>3 DEF vars, store, leaves, lists
  <2>2. TypeOK' /\ Named' /\ Made' /\ Scopes' /\ Marks' /\ Owners'
    BY SMTT(30), <2>1, <1>1 DEF Facts, TypeOK, Named, Made, Objects, Scopes, Within, UserCode, InScope, Top, Marks, Owners, OfLeaf
  <2>3. SidesCover' /\ SidesExact'
    BY <2>1, <1>1 DEF SidesCover, SidesExact, HoldsOf
  <2>4. Ahead' = Ahead /\ Owed' = Owed /\ Top' = Top /\ UserCode' = UserCode
    BY <2>1 DEF Ahead, Owed, Top, UserCode
  <2>5. Rollbacks' /\ Unspent'
    BY <2>1, <2>4, <1>1 DEF Rolls, Rollbacks, Untouched, Unspent, Unmoved, Giving
  <2>6. Placed'
    BY <2>1, <1>1 DEF Placed, Sited, Site, Entry
  <2>7. \A b, n, l : Clear(b, n, l)' <=> Clear(b, n, l)
    BY <2>1 DEF Clear, Writes
  <2>8. \A f : TriviaBack(f) => (TriviaBack(f))'
    BY <2>1, <2>4, <2>7 DEF TriviaBack, Writes
  <2>9. Back'
    BY <2>1, <2>4, <2>8, <1>1 DEF Back, ParksBack, Objects
  <2> QED
    BY <2>2, <2>3, <2>5, <2>6, <2>9 DEF IInv
<1> QED
  BY <1>2, <1>3

\* The inductive invariant holds in every state of every behaviour.
THEOREM ParkedInvariant == Spec => []IInv
BY InitHolds, StepHolds, PTL DEF Spec

\* The values each variable takes, for any number of comments, holders, leaves and scopes: no
\* count goes below zero in the native store.
THEOREM ParkedTypeCorrect == Spec => []TypeOK
<1>1. IInv => TypeOK
  BY DEF IInv
<1> QED
  BY <1>1, ParkedInvariant, PTL

\* A comment that a row of a live site, a park or its handle counts is not released, whatever
\* is placed, written, kept, thrown and closed, though a throw's undo drop the comment it is
\* to park again and be refused it (#unpark, repark, #abandon and hold of built-arena.ts).
THEOREM ParkedSidesCover == Spec => []SidesCover
<1>1. IInv => SidesCover
  BY DEF IInv
<1> QED
  BY <1>1, ParkedInvariant, PTL

\* Nor is a count lost, while no build threw whose interceptor wrote, kept or released a side.
THEOREM ParkedSidesExact == Spec => []SidesExact
<1>1. IInv => SidesExact
  BY DEF IInv
<1> QED
  BY <1>1, ParkedInvariant, PTL

LEMMA RollbackRestores ==
  ASSUME IInv, Next, call.op # "none", frames' # frames, ~Top.strayed
  PROVE  (trivia' = Top.trivia /\ parked' = Top.parked) \/ (Top.touched /\ UndoRefused)
<1>1. Facts /\ Scopes /\ Marks /\ SidesCover /\ Rolls /\ Placed /\ Back /\ ~UserCode
  BY DEF IInv, Facts, UserCode, Rolls
<1>2. InScope /\ Len(frames) \in 1..Len(frames) /\ Top = frames[Len(frames)] /\ Top \in Frame /\ Top.undos \in Nat
  BY SMTT(30), <1>1, CallType, TopType DEF Facts
<1>3. UndoRefused \/ GiveBackRefused \/ FreeMinted
  BY <1>1 DEF Next, InterceptBuild, FinishBuild, Throw, UndoLast, Undone, GiveBackMoved, BuildComment, ReleaseComment,
              BuildHolder, WriteLeaf, WriteSite, ReleaseHolder, ReleaseLeaf, OpenCommit, CloseCommit, KeepComment, KeepLeaf
<1>4. CASE UndoRefused
  BY <1>1, <1>2, <1>4, RefusedTouched
<1>5. CASE GiveBackRefused \/ FreeMinted
  <2>1. trivia' = trivia /\ parked' = parked /\ call.op = "giveback"
    <3>1. CASE GiveBackRefused
      BY <3>1 DEF GiveBackRefused, leaves
    <3>2. CASE FreeMinted
      <4>1. \E hs, cs : Release(hs, cs, {})
        BY <1>1, <3>2, FreeMintedReleases
      <4>2. parked' = parked
        BY <4>1 DEF Release, ParksLeft
      <4> QED
        BY <3>2, <4>2 DEF FreeMinted
    <3> QED
      BY <1>5, <3>1, <3>2
  <2>2. ParksBack(Top) /\ TriviaBack(Top)
    BY <1>1, <1>2 DEF Back
  <2>3. Ahead = Top.undos /\ \A j : j \notin Top.undos + 1..Top.undos
    BY <2>1, <1>2 DEF Ahead
  <2>4. Top.parked \subseteq parked /\ parked \subseteq Top.parked
    BY <2>2, <2>3 DEF ParksBack
  <2>5. \A l \in Leaves : trivia[l] = Top.trivia[l]
    BY <2>2, <2>3 DEF TriviaBack, Clear
  <2>6. trivia \in [Leaves -> 0..MaxWrites] /\ Top.trivia \in [Leaves -> 0..MaxWrites]
    BY <1>1, <1>2, SameTypes DEF LeafTypes, Frame
  <2>7. trivia = Top.trivia
    BY <2>5, <2>6
  <2> QED
    BY <2>1, <2>4, <2>7
<1> QED
  BY <1>3, <1>4, <1>5

\* A build that throws leaves each leaf the sides and the parks it had when the build began,
\* whatever was placed, and whatever leaf with no site or kept was written, in it or in a
\* build inside it; unless a leaf was released, newly kept, or written where it was placed,
\* or user code did more than build and an undo was refused (#abandon runs the undos of the
\* scope, #countOneMore throws for a released record).
THEOREM ParkedRollbackRestores == Spec => RollbackRestoresLeaves
<1>1. IInv /\ [Next]_vars =>
        [call.op # "none" /\ frames' # frames /\ ~Top.strayed =>
           \/ trivia' = Top.trivia /\ parked' = Top.parked
           \/ Top.touched /\ UndoRefused]_vars
  BY RollbackRestores
<1> QED
  BY <1>1, ParkedInvariant, PTL DEF Spec, RollbackRestoresLeaves

LEMMA OtherPark ==
  ASSUME Facts, Owners, NEW k \in Leaves, NEW l \in Leaves, k # l, trivia[l] \in parked
  PROVE  trivia[k] # trivia[l] /\ ParkedOf(k) # trivia[l]
<1>1. trivia[l] \in 1..MaxWrites /\ trivia[l] # 0
  BY SameTypes DEF LeafTypes
<1>2. OfLeaf(trivia[l], l) /\ (trivia[k] = trivia[l] => OfLeaf(trivia[l], k))
  BY DEF OfLeaf
<1> QED
  BY <1>1, <1>2 DEF Owners, ParkedOf

LEMMA KeptStays ==
  ASSUME IInv, Next, NEW l \in Leaves, Kept(l), ParkedOf(l) # 0, trivia'[l] = trivia[l]
  PROVE  ParkedOf(l)' # 0 \/ ReleaseLeaf(l) \/ (UndoRefused /\ undos[call.n].next = trivia[l])
<1> DEFINE o == trivia[l]
<1>1. Facts /\ Scopes /\ Marks /\ Owners
  BY DEF IInv, Facts
<1>2. o \in parked /\ o # 0 /\ o \in 1..MaxWrites
  BY <1>1, SameTypes DEF ParkedOf, LeafTypes
<1>3. \A k \in Leaves : k # l => trivia[k] # o /\ ParkedOf(k) # o
  BY <1>1, <1>2, OtherPark
<1> SUFFICES ASSUME ~ReleaseLeaf(l), ~(UndoRefused /\ undos[call.n].next = o) PROVE o \in parked'
  BY <1>2 DEF ParkedOf
<1>4. CASE InterceptBuild \/ FinishBuild \/ Throw \/ Undone \/ GiveBackMoved \/ GiveBackRefused \/ OpenCommit
  BY <1>2, <1>4 DEF InterceptBuild, FinishBuild, Throw, Undone, GiveBackMoved, GiveBackRefused, OpenCommit, leaves
<1>5. CASE FreeMinted
  <2>1. \E hs, cs : Release(hs, cs, {})
    BY <1>1, <1>5, FreeMintedReleases
  <2> QED
    BY <2>1, <1>2 DEF Release, ParksLeft
<1>6. CASE UndoLast
  <2> DEFINE u == undos[call.n]
  <2>1. /\ call.n \in 1..Len(undos) /\ u.leaf \in Leaves /\ u.next \in Nat /\ u.own \in Nat
        /\ IF u.site THEN u.next = 0 ELSE u.own < u.next
    BY <1>1, <1>6, UndoNext, UndoType
  <2>2. /\ parked' = (parked \ {u.next}) \cup ({u.parked} \ {0})
        /\ trivia' = IF u.site THEN trivia ELSE [trivia EXCEPT ![u.leaf] = u.own]
    BY <1>6 DEF UndoLast, Reparked
  <2>3. CASE u.next = o
    <3>1. OfLeaf(o, u.leaf) /\ OfLeaf(o, l)
      BY <2>1, <2>3 DEF OfLeaf
    <3>2. u.leaf = l
      BY <3>1, <2>1, <1>1, <1>2 DEF Owners
    <3>3. ~u.site /\ u.own < o
      BY <2>1, <2>3, <1>2
    <3>4. trivia'[l] = u.own
      BY <3>2, <3>3, <2>2, <1>1, SameTypes DEF LeafTypes
    <3> QED
      BY <3>3, <3>4, <2>1, <2>3
  <2>4. CASE u.next # o
    BY <2>2, <2>4, <1>2
  <2> QED
    BY <2>3, <2>4
<1>7. ASSUME NEW c \in Comments, BuildComment(c) \/ ReleaseComment(c) PROVE o \in parked'
  BY <1>2, <1>7 DEF BuildComment, ReleaseComment, Release, ParksLeft, leaves
<1>8. ASSUME NEW h \in Holders, NEW k \in Leaves, BuildHolder(h, k) PROVE o \in parked'
  <2>1. parked' = parked \ {GivenUp(k)}
    BY <1>8 DEF BuildHolder
  <2> QED
    BY <2>1, <1>2, <1>3 DEF GivenUp
<1>9. ASSUME NEW k \in Leaves, NEW c \in Comments \cup {Nil}, WriteLeaf(k, c) PROVE o \in parked'
  <2>1. /\ trivia'[k] = Len(written) + 1
        /\ parked' = parked \/ parked' = (parked \ {ParkedOf(k)}) \cup {Len(written) + 1}
    BY <1>1, <1>9, WriteLeafObjects
  <2>2. o \in Nat /\ o <= Len(written) /\ Len(written) \in Nat
    BY <1>1, LeafObject, SameTypes DEF LeafTypes
  <2>3. k # l
    BY <2>1, <2>2
  <2> QED
    BY <2>1, <2>3, <1>2, <1>3
<1>10. ASSUME NEW h \in Holders, NEW c \in Comments \cup {Nil}, WriteSite(h, c) PROVE o \in parked'
  BY <1>2, <1>10 DEF WriteSite, leaves
<1>11. ASSUME NEW h \in Holders, ReleaseHolder(h) PROVE o \in parked'
  BY <1>2, <1>11 DEF ReleaseHolder, Release, ParksLeft
<1>12. ASSUME NEW k \in Leaves, ReleaseLeaf(k) PROVE o \in parked'
  <2>1. k # l /\ parked' = parked \ {ParkedOf(k)}
    BY <1>12 DEF ReleaseLeaf, Release, ParksLeft
  <2> QED
    BY <2>1, <1>2, <1>3
<1>13. CASE CloseCommit
  <2>1. /\ GoneLeaves \subseteq Leaves /\ l \notin GoneLeaves
        /\ \A q \in GoneParks : \E k \in GoneLeaves : q = trivia[k]
        /\ \E hs, cs : Release(hs, cs, GoneParks)
    BY <1>1, <1>13, CloseCommitReleases DEF GoneLeaves, Facts
  <2>2. o \notin GoneParks
    BY <2>1, <1>3
  <2> QED
    BY <2>1, <2>2, <1>2 DEF Release, ParksLeft
<1>14. ASSUME NEW i, NEW c \in Comments, KeepComment(i, c) PROVE o \in parked'
  BY <1>2, <1>14 DEF KeepComment, leaves
<1>15. ASSUME NEW i, NEW k \in Leaves, KeepLeaf(i, k) PROVE o \in parked'
  BY <1>1, <1>2, <1>15, KeepLeafObjects
<1>16. CASE UndoRefused
  BY <1>2, <1>16 DEF UndoRefused
<1> QED
  BY <1>4, <1>5, <1>6, <1>7, <1>8, <1>9, <1>10, <1>11, <1>12, <1>13, <1>14, <1>15, <1>16 DEF Next

\* A leaf a commit scope keeps goes on holding the comments of its sides through every
\* placement, close and throw, until it is released or written, or a throw's undo of a write
\* of it is refused (keptLeaves, and hold in the undo of repark, of built-arena.ts).
THEOREM ParkedKeptLeafStaysHeld == Spec => KeptLeafStaysHeld
<1>1. IInv /\ [Next]_vars =>
        [\A l \in Leaves : Kept(l) /\ Kept(l)' /\ ParkedOf(l) # 0 /\ trivia'[l] = trivia[l] =>
           \/ ParkedOf(l)' # 0
           \/ ReleaseLeaf(l)
           \/ UndoRefused /\ undos[call.n].next = trivia[l]]_vars
  BY KeptStays
<1> QED
  BY <1>1, ParkedInvariant, PTL DEF Spec, KeptLeafStaysHeld

-----------------------------------------------------------------------------
(* What is parked is some leaf's.                                          *)

\* The trivia x of leaf l that the undos after b restore.
Root(b, l, x) ==
  \/ Clear(b, Len(undos), l) /\ x = trivia[l]
  \/ \E j \in b + 1..Len(undos) : Writes(j, l) /\ Clear(b, j - 1, l) /\ x = undos[j].own

\* Object o parked for leaf l is not orphaned by the undos from n back to b: they restore it,
\* or one of them drops it.
Settled(b, n, l, o) ==
  o \in loose \/ Root(b, l, o) \/ \E k \in b + 1..n : Writes(k, l) /\ o = undos[k].next

\* Nor is what undo j restores, and parks again.
SettledUndo(b, j) ==
  /\ undos[j].site => undos[j].parked # 0
  /\ undos[j].parked # 0 => Settled(b, j - 1, undos[j].leaf, undos[j].parked)
  /\ ~undos[j].site => Settled(b, j - 1, undos[j].leaf, undos[j].own)

Traced(b) ==
  /\ \A l \in Leaves : Settled(b, Ahead, l, trivia[l])
  /\ \A j \in b + 1..Len(undos) : SettledUndo(b, j)

\* The undos are of the scopes that run, and a throw of any of them orphans no park.
ScopesTraced ==
  /\ InScope \/ undos = <<>>
  /\ \A i \in 1..Len(frames) : Traced(frames[i].undos)

\* Nor does the rest of the one under way, which leaves a leaf it has nothing to undo of
\* with the trivia it is to restore.
RollbackTraced ==
  ~UserCode =>
    /\ \A o \in parked : o \in loose \/ \E l \in Leaves : Settled(Top.undos, Ahead, l, o)
    /\ \A l \in Leaves : Clear(Top.undos, Ahead, l) => Root(Top.undos, l, trivia[l])

LEMMA RootOne ==
  ASSUME NEW b \in Nat, NEW l, NEW x, NEW y, Root(b, l, x), Root(b, l, y), Len(undos) \in Nat
  PROVE  x = y
<1>1. CASE Clear(b, Len(undos), l)
  BY <1>1 DEF Root, Clear
<1>2. CASE ~Clear(b, Len(undos), l)
  <2>1. PICK j \in b + 1..Len(undos) : Writes(j, l) /\ Clear(b, j - 1, l) /\ x = undos[j].own
    BY <1>2 DEF Root
  <2>2. PICK k \in b + 1..Len(undos) : Writes(k, l) /\ Clear(b, k - 1, l) /\ y = undos[k].own
    BY <1>2 DEF Root
  <2>3. j <= k
    <3> SUFFICES ASSUME k < j PROVE FALSE
      OBVIOUS
    <3>1. k \in b + 1..j - 1
      OBVIOUS
    <3> QED
      BY <3>1, <2>1, <2>2 DEF Clear
  <2>4. k <= j
    <3> SUFFICES ASSUME j < k PROVE FALSE
      OBVIOUS
    <3>1. j \in b + 1..k - 1
      OBVIOUS
    <3> QED
      BY <3>1, <2>1, <2>2 DEF Clear
  <2>5. j = k
    BY <2>3, <2>4
  <2> QED
    BY <2>1, <2>2, <2>5
<1> QED
  BY <1>1, <1>2

\* More undos drop more.
LEMMA SettledMore ==
  ASSUME NEW b \in Nat, NEW m \in Nat, NEW n \in Nat, m <= n, NEW l, NEW o, Settled(b, m, l, o)
  PROVE  Settled(b, n, l, o)
<1>1. \A k \in b + 1..m : k \in b + 1..n
  OBVIOUS
<1> QED
  BY <1>1 DEF Settled

-----------------------------------------------------------------------------
\* The undos left, and the trivia of a leaf but for the undo of its write.
LEMMA RootKept ==
  ASSUME UNCHANGED undos, NEW b, NEW l, NEW x, Root(b, l, x),
         Clear(b, Len(undos), l) => trivia'[l] = trivia[l]
  PROVE  Root(b, l, x)'
<1>1. \A n : Clear(b, n, l)' <=> Clear(b, n, l)
  BY DEF Clear, Writes
<1>2. CASE Clear(b, Len(undos), l) /\ x = trivia[l]
  <2>1. Clear(b, Len(undos), l)'
    <3>1. \A i \in b + 1..Len(undos') : ~Writes(i, l)'
      BY <1>2 DEF Clear, Writes
    <3> QED
      BY <3>1 DEF Clear
  <2> QED
    BY <2>1, <1>2 DEF Root
<1>3. ASSUME NEW j \in b + 1..Len(undos), Writes(j, l), Clear(b, j - 1, l), x = undos[j].own PROVE Root(b, l, x)'
  BY <1>1, <1>3 DEF Root, Writes
<1> QED
  BY <1>2, <1>3 DEF Root

LEMMA SettledKept ==
  ASSUME UNCHANGED undos, loose \subseteq loose', NEW b, NEW n, NEW l, NEW o, Settled(b, n, l, o),
         Clear(b, Len(undos), l) => trivia'[l] = trivia[l]
  PROVE  Settled(b, n, l, o)'
<1>1. Root(b, l, o) => Root(b, l, o)'
  BY RootKept
<1> QED
  BY <1>1 DEF Settled, Writes

\* A step that leaves the undos and the trivia.
LEMMA TracedKept ==
  ASSUME Facts, Scopes, Marks, UNCHANGED <<undos, trivia>>, loose \subseteq loose', NEW b \in Nat, Traced(b),
         Ahead' = Ahead \/ Ahead' = Len(undos)
  PROVE  Traced(b)'
<1> PICK m : m = Ahead
  OBVIOUS
<1> PICK n : n = Ahead'
  OBVIOUS
<1>1. m \in Nat /\ n \in Nat /\ m <= n
  BY AheadType
<1>2. ASSUME NEW l \in Leaves PROVE Settled(b, n, l, trivia[l])'
  <2> PICK x : x = trivia[l]
    OBVIOUS
  <2>1. Settled(b, m, l, x)
    BY DEF Traced
  <2>2. Settled(b, n, l, x)
    BY <2>1, <1>1, SettledMore
  <2>3. Settled(b, n, l, x)'
    BY <2>2, SettledKept
  <2> QED
    BY <2>3
<1>3. ASSUME NEW j \in b + 1..Len(undos) PROVE SettledUndo(b, j)'
  <2> PICK u : u = undos[j]
    OBVIOUS
  <2>1. SettledUndo(b, j)
    BY DEF Traced
  <2>2. \A o : Settled(b, j - 1, u.leaf, o) => Settled(b, j - 1, u.leaf, o)'
    BY SettledKept
  <2>3. undos'[j] = u
    OBVIOUS
  <2> QED
    BY <2>1, <2>2, <2>3 DEF SettledUndo
<1> QED
  BY <1>2, <1>3 DEF Traced

\* An undo more, of a placement or a write.
LEMMA RootMore ==
  ASSUME Facts, NEW b \in Nat, b <= Len(undos), NEW u \in Undo, undos' = Append(undos, u), NEW l \in Leaves, NEW x,
         trivia'[l] = trivia[l] \/ (~u.site /\ l = u.leaf), ~u.site => u.own = trivia[u.leaf], Root(b, l, x)
  PROVE  Root(b, l, x)'
<1> PICK n : n = Len(undos)
  OBVIOUS
<1>1. /\ n \in Nat /\ Len(undos') = n + 1 /\ undos'[n + 1] = u
      /\ \A j \in 1..n : undos'[j] = undos[j]
  BY UndosMore
<1>2. \A m \in Nat : m <= n => (Clear(b, m, l) <=> Clear(b, m, l)')
  <2> TAKE m \in Nat
  <2> HAVE m <= n
  <2>1. \A i \in b + 1..m : i \in 1..n
    BY <1>1
  <2> QED
    BY <2>1, <1>1 DEF Clear, Writes
<1>3. n + 1 \in b + 1..n + 1 /\ \A j \in b + 1..n : j \in b + 1..n + 1 /\ j \in 1..n /\ j - 1 \in Nat /\ j - 1 <= n
  BY <1>1
<1>4. CASE Clear(b, n, l) /\ x = trivia[l]
  <2>1. Clear(b, n, l)'
    BY <1>1, <1>2, <1>4
  <2>2. CASE ~u.site /\ l = u.leaf
    <3>1. Writes(n + 1, l)' /\ x = undos'[n + 1].own /\ n + 1 - 1 = n
      BY <2>2, <1>1, <1>4 DEF Writes
    <3> QED
      BY <3>1, <2>1, <1>1, <1>3 DEF Root
  <2>3. CASE u.site \/ l # u.leaf
    <3>1. ~Writes(n + 1, l)'
      BY <2>3, <1>1 DEF Writes
    <3>2. \A i \in b + 1..n + 1 : i \in b + 1..n \/ i = n + 1
      BY <1>1
    <3>3. Clear(b, n + 1, l)'
      BY <3>1, <3>2, <2>1 DEF Clear
    <3>4. x = trivia'[l]
      BY <2>3, <1>4
    <3> QED
      BY <3>3, <3>4, <1>1 DEF Root
  <2>4. u.site \in BOOLEAN
    BY DEF Undo
  <2> QED
    BY <2>2, <2>3, <2>4
<1>5. ASSUME NEW j \in b + 1..n, Writes(j, l), Clear(b, j - 1, l), x = undos[j].own PROVE Root(b, l, x)'
  <2>1. Writes(j, l)' /\ Clear(b, j - 1, l)' /\ x = undos'[j].own
    BY <1>1, <1>2, <1>3, <1>5 DEF Writes
  <2> QED
    BY <2>1, <1>1, <1>3 DEF Root
<1> QED
  BY <1>4, <1>5 DEF Root

LEMMA TracedMore ==
  ASSUME Facts, UserCode, UserCode', NEW b \in Nat, b <= Len(undos), NEW u \in Undo, undos' = Append(undos, u),
         loose \subseteq loose', Traced(b),
         \A l \in Leaves : trivia'[l] = trivia[l] \/ (~u.site /\ l = u.leaf /\ trivia'[l] = u.next),
         u.site => u.parked # 0 /\ u.parked = trivia[u.leaf],
         ~u.site => u.parked \in {0, u.own} /\ u.own = trivia[u.leaf]
  PROVE  Traced(b)'
<1> PICK n : n = Len(undos)
  OBVIOUS
<1>1. /\ n \in Nat /\ Len(undos') = n + 1 /\ undos'[n + 1] = u
      /\ \A j \in 1..n : undos'[j] = undos[j]
  BY UndosMore
<1>2. Ahead = n /\ Ahead' = n + 1
  BY <1>1 DEF Ahead, UserCode
<1>3. u.leaf \in Leaves /\ u.site \in BOOLEAN
  BY DEF Undo
<1>4. ASSUME NEW m \in Nat, m <= n, NEW l \in Leaves, NEW o, Settled(b, m, l, o) PROVE Settled(b, m, l, o)'
  <2>1. \A k \in b + 1..m : k \in 1..n
    BY <1>1, <1>4
  <2>2. Root(b, l, o) => Root(b, l, o)'
    BY RootMore
  <2>3. \A k \in b + 1..m : Writes(k, l) /\ o = undos[k].next => Writes(k, l)' /\ o = undos'[k].next
    BY <1>1, <2>1 DEF Writes
  <2> QED
    BY <2>2, <2>3, <1>4 DEF Settled
<1>5. \A l \in Leaves : \A x : x = trivia[l] => Settled(b, n, l, x)'
  <2> TAKE l \in Leaves
  <2> TAKE x
  <2> HAVE x = trivia[l]
  <2>1. Settled(b, n, l, x)
    BY <1>2 DEF Traced
  <2> QED
    BY <2>1, <1>1, <1>4
<1>6. ASSUME NEW l \in Leaves PROVE Settled(b, n + 1, l, trivia[l])'
  <2> PICK x : x = trivia'[l]
    OBVIOUS
  <2>1. CASE trivia'[l] = trivia[l]
    <3>1. \A k \in b + 1..n : k \in b + 1..n + 1
      BY <1>1
    <3>2. Settled(b, n, l, x)'
      BY <2>1, <1>5
    <3>3. Settled(b, n + 1, l, x)'
      BY <3>1, <3>2 DEF Settled
    <3> QED
      BY <3>3
  <2>2. CASE ~u.site /\ l = u.leaf /\ trivia'[l] = u.next
    <3>1. n + 1 \in b + 1..n + 1 /\ Writes(n + 1, l)' /\ trivia'[l] = undos'[n + 1].next
      BY <1>1, <2>2 DEF Writes
    <3> QED
      BY <3>1 DEF Settled
  <2> QED
    BY <2>1, <2>2
<1>7. ASSUME NEW j \in b + 1..n + 1 PROVE SettledUndo(b, j)'
  <2>1. CASE j = n + 1
    <3>1. undos'[j] = u /\ j - 1 = n
      BY <2>1, <1>1
    <3>2. u.site => u.parked # 0 /\ Settled(b, n, u.leaf, u.parked)'
      BY <1>3, <1>5
    <3>3. ~u.site => Settled(b, n, u.leaf, u.own)' /\ (u.parked = 0 \/ Settled(b, n, u.leaf, u.parked)')
      BY <1>3, <1>5
    <3> QED
      BY <3>1, <3>2, <3>3, <1>3 DEF SettledUndo
  <2>2. CASE j # n + 1
    <3>1. j \in b + 1..n /\ j \in 1..n /\ j - 1 \in Nat /\ j - 1 <= n
      BY <2>2, <1>1
    <3>2. SettledUndo(b, j)
      BY <3>1 DEF Traced
    <3> PICK v : v = undos[j]
      OBVIOUS
    <3>3. undos'[j] = v /\ v.leaf \in Leaves
      BY <3>1, <1>1, UndoType
    <3>4. \A o : Settled(b, j - 1, v.leaf, o) => Settled(b, j - 1, v.leaf, o)'
      BY <3>1, <3>3, <1>4
    <3> QED
      BY <3>2, <3>3, <3>4 DEF SettledUndo
  <2> QED
    BY <2>1, <2>2
<1> QED
  BY <1>1, <1>2, <1>6, <1>7 DEF Traced

\* A write at a placed leaf adds none: what the leaf had and has is loose.
LEMMA TracedEarly ==
  ASSUME Facts, UserCode, UserCode', NEW b \in Nat, NEW l \in Leaves, NEW o, UNCHANGED undos,
         trivia' = [trivia EXCEPT ![l] = o], loose' = loose \cup ({o, trivia[l]} \ {0}), o # 0, Traced(b)
  PROVE  Traced(b)'
<1> PICK n : n = Len(undos)
  OBVIOUS
<1>1. n \in Nat /\ Ahead = n /\ Ahead' = n
  BY SameTypes DEF ListTypes, Ahead, UserCode
<1>2. \A m \in Leaves : trivia'[m] = IF m = l THEN o ELSE trivia[m]
  BY SameTypes DEF LeafTypes
<1>3. ASSUME NEW j \in Nat, NEW m \in Leaves, NEW x, Settled(b, j, m, x), x # 0 \/ m # l \/ ~Clear(b, n, m)
      PROVE  Settled(b, j, m, x)'
  <2>1. CASE Clear(b, n, m) => trivia'[m] = trivia[m]
    BY <2>1, <1>3, SettledKept
  <2>2. CASE Clear(b, n, m) /\ m = l
    <3>1. CASE x \in loose
      BY <3>1 DEF Settled
    <3>2. CASE Root(b, m, x)
      <4>1. x = trivia[l]
        BY <2>2, <3>2 DEF Root, Clear
      <4> QED
        BY <4>1, <2>2, <1>3 DEF Settled
    <3>3. ASSUME NEW k \in b + 1..j, Writes(k, m), x = undos[k].next PROVE Settled(b, j, m, x)'
      BY <3>3 DEF Settled, Writes
    <3> QED
      BY <3>1, <3>2, <3>3, <1>3 DEF Settled
  <2> QED
    BY <2>1, <2>2, <1>2
<1>4. ASSUME NEW m \in Leaves PROVE Settled(b, n, m, trivia[m])'
  <2> PICK x : x = trivia'[m]
    OBVIOUS
  <2>1. CASE m = l
    BY <2>1, <1>2 DEF Settled
  <2>2. CASE m # l
    <3>1. Settled(b, n, m, x)
      BY <2>2, <1>1, <1>2 DEF Traced
    <3>2. Settled(b, n, m, x)'
      BY <3>1, <2>2, <1>1, <1>3
    <3> QED
      BY <3>2
  <2> QED
    BY <2>1, <2>2
<1>5. ASSUME NEW j \in b + 1..n PROVE SettledUndo(b, j)'
  <2>1. SettledUndo(b, j) /\ j \in 1..Len(undos) /\ j - 1 \in Nat
    BY <1>1 DEF Traced
  <2> PICK v : v = undos[j]
    OBVIOUS
  <2>2. undos'[j] = v /\ v.leaf \in Leaves
    BY <2>1, UndoType
  <2>3. ~v.site => ~Clear(b, n, v.leaf)
    BY DEF Clear, Writes
  <2>4. v.site => v.parked # 0
    BY <2>1 DEF SettledUndo
  <2>5. v.parked # 0 => Settled(b, j - 1, v.leaf, v.parked)'
    BY <2>1, <2>2, <1>3 DEF SettledUndo
  <2>6. ~v.site => Settled(b, j - 1, v.leaf, v.own)'
    BY <2>1, <2>2, <2>3, <1>3 DEF SettledUndo
  <2> QED
    BY <2>2, <2>4, <2>5, <2>6 DEF SettledUndo
<1> QED
  BY <1>1, <1>4, <1>5 DEF Traced

\* What was loose goes on being so.
LEMMA LooseGrows ==
  ASSUME Next
  PROVE  loose \subseteq loose'
<1> DEFINE Grows == loose \subseteq loose'
<1>1. CASE InterceptBuild \/ FinishBuild \/ Throw \/ Undone \/ GiveBackMoved \/ GiveBackRefused \/ OpenCommit
  BY <1>1 DEF InterceptBuild, FinishBuild, Throw, Undone, GiveBackMoved, GiveBackRefused, OpenCommit, leaves
<1>2. CASE UndoLast \/ UndoRefused
  BY <1>2 DEF UndoLast, UndoRefused
<1>3. CASE FreeMinted \/ CloseCommit
  BY <1>3 DEF FreeMinted, CloseCommit, Release
<1>4. ASSUME NEW c \in Comments, BuildComment(c) \/ ReleaseComment(c) PROVE Grows
  BY <1>4 DEF BuildComment, ReleaseComment, Release, leaves
<1>5. ASSUME NEW h \in Holders, NEW l \in Leaves, BuildHolder(h, l) PROVE Grows
  BY <1>5 DEF BuildHolder
<1>6. ASSUME NEW l \in Leaves, NEW c \in Comments \cup {Nil}, WriteLeaf(l, c) PROVE Grows
  BY <1>6 DEF WriteLeaf
<1>7. ASSUME NEW h \in Holders, NEW c \in Comments \cup {Nil}, WriteSite(h, c) PROVE Grows
  BY <1>7 DEF WriteSite, leaves
<1>8. ASSUME NEW h \in Holders, ReleaseHolder(h) PROVE Grows
  BY <1>8 DEF ReleaseHolder, Release
<1>9. ASSUME NEW l \in Leaves, ReleaseLeaf(l) PROVE Grows
  BY <1>9 DEF ReleaseLeaf, Release
<1>10. ASSUME NEW i, NEW c \in Comments, KeepComment(i, c) PROVE Grows
  BY <1>10 DEF KeepComment, leaves
<1>11. ASSUME NEW i, NEW l \in Leaves, KeepLeaf(i, l) PROVE Grows
  BY <1>11 DEF KeepLeaf
<1> QED
  BY <1>1, <1>2, <1>3, <1>4, <1>5, <1>6, <1>7, <1>8, <1>9, <1>10, <1>11 DEF Next

-----------------------------------------------------------------------------
\* An undo run: what the undos after b restore is what they did.
LEMMA UndoLastSettled ==
  ASSUME Facts, Scopes, UndoLast, NEW b \in Nat, b < call.n, NEW l \in Leaves
  PROVE  /\ \A x : Root(b, l, x) => Root(b, l, x)'
         /\ \A m, x : Settled(b, m, l, x) => Settled(b, m, l, x)'
         /\ trivia'[l] = IF Writes(call.n, l) THEN undos[call.n].own ELSE trivia[l]
<1>1. /\ UNCHANGED <<undos, loose>>
      /\ trivia' = IF undos[call.n].site THEN trivia ELSE [trivia EXCEPT ![undos[call.n].leaf] = undos[call.n].own]
  BY DEF UndoLast
<1>2. call.n \in 1..Len(undos) /\ undos[call.n].leaf \in Leaves /\ Len(undos) \in Nat
  BY UndoNext, UndoType, SameTypes DEF ListTypes
<1>3. trivia'[l] = IF Writes(call.n, l) THEN undos[call.n].own ELSE trivia[l]
  BY <1>1, SameTypes DEF Writes, LeafTypes
<1>4. Clear(b, Len(undos), l) => ~Writes(call.n, l)
  <2>1. call.n \in b + 1..Len(undos)
    BY <1>2
  <2> QED
    BY <2>1 DEF Clear
<1>5. Clear(b, Len(undos), l) => trivia'[l] = trivia[l]
  BY <1>3, <1>4
<1> QED
  BY <1>1, <1>3, <1>5, RootKept, SettledKept

LEMMA UndoLastTraced ==
  ASSUME Facts, Scopes, UndoLast, NEW b \in Nat, b < call.n, Traced(b)
  PROVE  Traced(b)'
<1> PICK n : n = call.n
  OBVIOUS
<1> PICK u : u = undos[n]
  OBVIOUS
<1>1. /\ n \in 1..Len(undos) /\ n - 1 \in Nat /\ n \in Nat /\ n \in b + 1..Len(undos) /\ Len(undos) \in Nat
      /\ UNCHANGED undos /\ call.op = "undo"
  <2>1. call.n \in 1..Len(undos) /\ Len(undos) \in Nat
    BY UndoNext, SameTypes DEF ListTypes
  <2> QED
    BY <2>1 DEF UndoLast
<1>2. Ahead = n /\ Ahead' = n - 1
  BY <1>1, SameTypes DEF Ahead, UndoLast, ScopeTypes
<1>3. \A l \in Leaves : \A m, x : Settled(b, m, l, x) => Settled(b, m, l, x)'
  BY UndoLastSettled
<1>4. ASSUME NEW l \in Leaves PROVE Settled(b, n - 1, l, trivia[l])'
  <2> PICK x : x = trivia'[l]
    OBVIOUS
  <2>1. CASE Writes(n, l)
    <3>1. x = u.own /\ u.leaf = l /\ ~u.site
      BY <2>1, UndoLastSettled DEF Writes
    <3>2. SettledUndo(b, n)
      BY <1>1 DEF Traced
    <3>3. Settled(b, n - 1, l, x)
      BY <3>1, <3>2 DEF SettledUndo
    <3>4. Settled(b, n - 1, l, x)'
      BY <3>3, <1>3
    <3> QED
      BY <3>4
  <2>2. CASE ~Writes(n, l)
    <3>1. x = trivia[l]
      BY <2>2, UndoLastSettled
    <3>2. Settled(b, n, l, x)
      BY <3>1, <1>2 DEF Traced
    <3>3. \A k \in b + 1..n : k \in b + 1..n - 1 \/ k = n
      BY <1>1
    <3>4. Settled(b, n - 1, l, x)
      BY <3>2, <3>3, <2>2 DEF Settled
    <3>5. Settled(b, n - 1, l, x)'
      BY <3>4, <1>3
    <3> QED
      BY <3>5
  <2> QED
    BY <2>1, <2>2
<1>5. ASSUME NEW j \in b + 1..Len(undos) PROVE SettledUndo(b, j)'
  <2> PICK v : v = undos[j]
    OBVIOUS
  <2>1. SettledUndo(b, j) /\ j \in 1..Len(undos)
    BY <1>1 DEF Traced
  <2>2. v.leaf \in Leaves /\ undos'[j] = v
    BY <2>1, <1>1, UndoType
  <2> QED
    BY <2>1, <2>2, <1>3 DEF SettledUndo
<1> QED
  BY <1>1, <1>2, <1>4, <1>5 DEF Traced

\* What the undo drops is not parked, and what it parks is settled by those before it.
LEMMA UndoLastRollback ==
  ASSUME Facts, Scopes, Marks, ScopesTraced, RollbackTraced, UndoLast
  PROVE  RollbackTraced'
<1> PICK n : n = call.n
  OBVIOUS
<1> PICK b : b = Top.undos
  OBVIOUS
<1> PICK u : u = undos[n]
  OBVIOUS
<1>1. n \in 1..Len(undos) /\ InScope /\ ~UserCode /\ call.op = "undo" /\ n > b /\ Len(undos) \in Nat
  BY UndoNext, SameTypes DEF UndoLast, ListTypes
<1>2. b \in Nat /\ Len(frames) \in 1..Len(frames) /\ Top = frames[Len(frames)] /\ Top' = Top
  BY <1>1, TopType DEF Facts, UndoLast, Top
<1>3. n \in b + 1..Len(undos) /\ n \in b + 1..n /\ n - 1 \in Nat /\ n \in Nat
  BY <1>1, <1>2
<1>4. Ahead = n /\ Ahead' = n - 1
  BY <1>1, SameTypes DEF Ahead, UndoLast, ScopeTypes
<1>5. /\ UNCHANGED <<undos, loose>> /\ parked' = (parked \ {u.next}) \cup ({u.parked} \ {0})
  BY DEF UndoLast, Reparked
<1>6. /\ \A l \in Leaves : \A x : Root(b, l, x) => Root(b, l, x)'
      /\ \A l \in Leaves : \A m, x : Settled(b, m, l, x) => Settled(b, m, l, x)'
      /\ \A l \in Leaves : trivia'[l] = IF Writes(n, l) THEN u.own ELSE trivia[l]
  BY <1>1, <1>2, UndoLastSettled
<1>7. u.leaf \in Leaves
  BY <1>1, UndoType
<1>8. \A k \in b + 1..n : k \in b + 1..n - 1 \/ k = n
  BY <1>1, <1>2
<1>9. SettledUndo(b, n)
  BY <1>2, <1>3 DEF ScopesTraced, Traced
<1>10. ASSUME NEW o \in parked' PROVE o \in loose \/ \E l \in Leaves : Settled(b, n - 1, l, o)'
  <2>1. CASE o = u.parked /\ o # 0
    <3>1. Settled(b, n - 1, u.leaf, o)
      BY <2>1, <1>9 DEF SettledUndo
    <3>2. Settled(b, n - 1, u.leaf, o)'
      BY <3>1, <1>6, <1>7
    <3> QED
      BY <3>2, <1>7
  <2>2. CASE o \in parked /\ o # u.next
    <3>1. CASE o \in loose
      BY <3>1
    <3>2. ASSUME NEW l \in Leaves, Settled(b, n, l, o) PROVE Settled(b, n - 1, l, o)'
      <4>1. Settled(b, n - 1, l, o)
        BY <3>2, <2>2, <1>8 DEF Settled
      <4> QED
        BY <4>1, <1>6
    <3> QED
      BY <3>1, <3>2, <2>2, <1>1, <1>4 DEF RollbackTraced
  <2> QED
    BY <2>1, <2>2, <1>5
<1>11. ASSUME NEW l \in Leaves, Clear(b, n - 1, l)' PROVE Root(b, l, trivia[l])'
  <2> PICK x : x = trivia'[l]
    OBVIOUS
  <2>1. Clear(b, n - 1, l)
    BY <1>5, <1>11 DEF Clear, Writes
  <2>2. Root(b, l, x)
    <3>1. CASE Writes(n, l)
      BY <3>1, <2>1, <1>3, <1>6 DEF Root
    <3>2. CASE ~Writes(n, l)
      <4>1. Clear(b, n, l)
        BY <3>2, <2>1, <1>8 DEF Clear
      <4>2. Root(b, l, trivia[l])
        BY <4>1, <1>1, <1>4 DEF RollbackTraced
      <4> QED
        BY <4>2, <3>2, <1>6
    <3> QED
      BY <3>1, <3>2
  <2>3. Root(b, l, x)'
    BY <2>2, <1>6
  <2> QED
    BY <2>3
<1>12. Top'.undos = b /\ loose' = loose
  BY <1>2, <1>5
<1> QED
  BY <1>4, <1>10, <1>11, <1>12 DEF RollbackTraced

-----------------------------------------------------------------------------
\* The scopes a step leaves are traced when what each began with is.
LEMMA ScopesKept ==
  ASSUME Facts, Scopes, Marks, ScopesTraced, frames' # <<>> \/ undos' = <<>>,
         \A i \in 1..Len(frames') : i \in 1..Len(frames) /\ frames'[i].undos = frames[i].undos,
         \A b \in Nat : (InScope /\ b <= Top.undos /\ Traced(b)) => Traced(b)'
  PROVE  ScopesTraced'
<1>1. ASSUME NEW i \in 1..Len(frames') PROVE Traced(frames[i].undos)'
  <2> PICK b : b = frames[i].undos
    OBVIOUS
  <2>1. i \in 1..Len(frames) /\ frames'[i].undos = b
    OBVIOUS
  <2>2. b \in Nat /\ InScope /\ b <= Top.undos
    BY <2>1, AheadType
  <2>3. Traced(b)
    BY <2>1 DEF ScopesTraced
  <2>4. Traced(b)'
    BY <2>2, <2>3
  <2> QED
    BY <2>1, <2>4
<1> QED
  BY <1>1 DEF ScopesTraced, InScope

LEMMA SameScopesKept ==
  ASSUME Facts, Scopes, Marks, ScopesTraced, Touched \/ UNCHANGED frames, undos' = undos \/ InScope,
         \A b \in Nat : (InScope /\ b <= Top.undos /\ Traced(b)) => Traced(b)'
  PROVE  ScopesTraced'
<1>1. CASE Touched
  <2>1. /\ Len(frames') = Len(frames) /\ ((frames' # <<>>) <=> InScope)
        /\ \A i \in 1..Len(frames) : frames'[i].undos = frames[i].undos
    BY <1>1, TouchFacts DEF Facts
  <2>2. frames' # <<>> \/ undos' = <<>>
    BY <2>1 DEF ScopesTraced
  <2>3. \A i \in 1..Len(frames') : i \in 1..Len(frames) /\ frames'[i].undos = frames[i].undos
    BY <2>1
  <2> QED
    BY <2>2, <2>3, ScopesKept
<1>2. CASE UNCHANGED frames
  <2>1. frames' # <<>> \/ undos' = <<>>
    BY <1>2 DEF ScopesTraced, InScope
  <2>2. \A i \in 1..Len(frames') : i \in 1..Len(frames) /\ frames'[i].undos = frames[i].undos
    BY <1>2
  <2> QED
    BY <2>1, <2>2, ScopesKept
<1> QED
  BY <1>1, <1>2

LEMMA EndScopesKept ==
  ASSUME Facts, Scopes, Marks, ScopesTraced, InScope, NEW m, NEW v, NEW u, EndScope(m, v, u),
         \A b \in Nat : (frames' # <<>> /\ b <= Top.undos /\ Traced(b)) => Traced(b)'
  PROVE  ScopesTraced'
<1>1. \A i \in 1..Len(frames') : frames'[i] = frames[i] /\ i \in 1..Len(frames)
  BY EndScopeFacts DEF Facts
<1>2. frames' # <<>> \/ undos' = <<>>
  BY DEF EndScope
<1>3. CASE frames' = <<>>
  <2>1. Len(frames') = 0
    BY <1>3
  <2> QED
    BY <2>1, <1>2 DEF ScopesTraced
<1>4. CASE frames' # <<>>
  <2>1. \A i \in 1..Len(frames') : i \in 1..Len(frames) /\ frames'[i].undos = frames[i].undos
    BY <1>1
  <2>2. \A b \in Nat : (InScope /\ b <= Top.undos /\ Traced(b)) => Traced(b)'
    BY <1>4
  <2> QED
    BY <2>1, <2>2, <1>2, ScopesKept
<1> QED
  BY <1>3, <1>4

\* A scope begins with the trivia the leaves have.
LEMMA InterceptTraced ==
  ASSUME Facts, Scopes, Marks, ScopesTraced, InterceptBuild
  PROVE  ScopesTraced'
<1> DEFINE f == [minted |-> Len(minted), moved |-> Len(moved), undos |-> Len(undos),
                 touched |-> FALSE, strayed |-> FALSE, trivia |-> trivia, parked |-> parked]
<1> PICK n : n = Len(undos)
  OBVIOUS
<1> PICK k : k = Len(frames) + 1
  OBVIOUS
<1>1. frames' = Append(frames, f) /\ UNCHANGED <<loose, trivia, undos, call>> /\ UserCode
  BY DEF InterceptBuild, leaves, lists
<1>2. f.undos = n
  OBVIOUS
<1> HIDE DEF f
<1>3. /\ Len(frames') = k /\ Len(frames) \in Nat /\ frames'[k] = f
      /\ \A i \in 1..Len(frames) : frames'[i] = frames[i]
  BY <1>1, SameTypes, AppendLen DEF ScopeTypes
<1>4. \A i \in 1..k : i \in 1..Len(frames) \/ i = k
  BY <1>3
<1>5. n \in Nat /\ Ahead = n /\ Ahead' = n
  BY <1>1, SameTypes DEF ListTypes, Ahead, UserCode
<1>6. Traced(n)'
  <2>1. \A j : j \notin n + 1..Len(undos')
    BY <1>1, <1>5
  <2>2. \A l : Clear(n, Len(undos), l)'
    BY <2>1 DEF Clear
  <2>3. \A l \in Leaves : Settled(n, n, l, trivia[l])'
    BY <2>2 DEF Settled, Root
  <2> QED
    BY <2>1, <2>3, <1>5 DEF Traced
<1>7. ASSUME NEW i \in 1..Len(frames') PROVE Traced(frames[i].undos)'
  <2>1. CASE i = k
    BY <2>1, <1>2, <1>3, <1>6
  <2>2. CASE i # k
    <3>1. i \in 1..Len(frames)
      BY <2>2, <1>3, <1>4
    <3> PICK b : b = frames[i].undos
      OBVIOUS
    <3>2. b \in Nat /\ Traced(b)
      BY <3>1, AheadType DEF ScopesTraced
    <3>3. Traced(b)'
      BY <3>2, <1>1, <1>5, TracedKept
    <3> QED
      BY <3>1, <3>3, <1>3
  <2> QED
    BY <2>1, <2>2
<1>8. frames' # <<>>
  <2>1. Len(frames') # 0
    BY <1>3
  <2> QED
    BY <2>1
<1> QED
  BY <1>7, <1>8 DEF ScopesTraced, InScope

LEMMA BuildHolderTraced ==
  ASSUME Facts, Scopes, Marks, ScopesTraced, NEW h \in Holders, NEW l \in Leaves, BuildHolder(h, l)
  PROVE  ScopesTraced'
<1>1. UserCode /\ UserCode' /\ UNCHANGED <<trivia, loose, frames>>
  BY DEF BuildHolder, UserCode
<1>2. CASE undos' = undos
  <2>1. Ahead' = Ahead
    BY <1>1, <1>2 DEF Ahead, UserCode
  <2> QED
    BY <1>1, <1>2, <2>1, TracedKept, SameScopesKept
<1>3. CASE undos' # undos
  <2> PICK p : p = GivenUp(l)
    OBVIOUS
  <2> PICK u : u = [site |-> TRUE, leaf |-> l, next |-> 0, parked |-> p, own |-> 0]
    OBVIOUS
  <2>1. p # 0 /\ undos' = Append(undos, u) /\ InScope
    BY <1>3 DEF BuildHolder
  <2>2. p = trivia[l] /\ p \in 0..MaxWrites
    BY <2>1, LeafObject DEF GivenUp, ParkedOf
  <2>3. u \in Undo
    BY <2>2, UndoRecords
  <2>4. u.site /\ u.leaf = l /\ u.parked = p
    OBVIOUS
  <2>5. \A b \in Nat : b <= Top.undos => b <= Len(undos)
    BY <2>1, TopType, CallType DEF Facts
  <2>6. \A b \in Nat : (InScope /\ b <= Top.undos /\ Traced(b)) => Traced(b)'
    BY <2>1, <2>2, <2>3, <2>4, <2>5, <1>1, TracedMore
  <2> QED
    BY <2>1, <2>6, <1>1, SameScopesKept
<1> QED
  BY <1>2, <1>3

LEMMA WriteLeafTraced ==
  ASSUME Facts, Scopes, Marks, ScopesTraced, NEW l \in Leaves, NEW c \in Comments \cup {Nil}, WriteLeaf(l, c)
  PROVE  ScopesTraced'
<1> PICK o : o = Len(written) + 1
  OBVIOUS
<1> PICK old : old = ParkedOf(l)
  OBVIOUS
<1> PICK t : t = trivia[l]
  OBVIOUS
<1>1. UserCode /\ UserCode' /\ Touched /\ trivia' = [trivia EXCEPT ![l] = o] /\ loose \subseteq loose'
  BY WriteTouched DEF WriteLeaf, UserCode
<1>2. /\ old \in {0, t} /\ old \in 0..MaxWrites /\ t \in 0..MaxWrites
      /\ Len(written) \in Nat /\ Len(written) < MaxWrites
  BY LeafObject DEF WriteLeaf
<1>3. o # 0 /\ o \in 0..MaxWrites
  BY <1>2, ConstantsType
<1>4. \A m \in Leaves : trivia'[m] = IF m = l THEN o ELSE trivia[m]
  BY <1>1, SameTypes DEF LeafTypes
<1>5. CASE Sites(l) # {} /\ ~Kept(l)
  <2>1. UNCHANGED undos /\ loose' = loose \cup ({o, trivia[l]} \ {0})
    BY <1>5 DEF WriteLeaf
  <2>2. \A b \in Nat : Traced(b) => Traced(b)'
    BY <2>1, <1>1, <1>3, TracedEarly
  <2> QED
    BY <2>1, <2>2, <1>1, SameScopesKept
<1>6. CASE ~(Sites(l) # {} /\ ~Kept(l)) /\ InScope
  <2> PICK u : u = [site |-> FALSE, leaf |-> l, next |-> o, parked |-> old, own |-> t]
    OBVIOUS
  <2>1. undos' = Append(undos, u)
    BY <1>6 DEF WriteLeaf
  <2>2. u \in Undo
    BY <1>2, <1>3, UndoRecords
  <2>3. ~u.site /\ u.leaf = l /\ u.next = o /\ u.parked = old /\ u.own = t
    OBVIOUS
  <2>4. \A m \in Leaves : trivia'[m] = trivia[m] \/ (~u.site /\ m = u.leaf /\ trivia'[m] = u.next)
    BY <2>3, <1>4
  <2>5. \A b \in Nat : b <= Top.undos => b <= Len(undos)
    BY <1>6, TopType, CallType DEF Facts
  <2>6. \A b \in Nat : (InScope /\ b <= Top.undos /\ Traced(b)) => Traced(b)'
    BY <2>1, <2>2, <2>3, <2>4, <2>5, <1>1, <1>2, TracedMore
  <2> QED
    BY <1>6, <2>6, <1>1, SameScopesKept
<1>7. CASE ~(Sites(l) # {} /\ ~Kept(l)) /\ ~InScope
  <2>1. undos' = undos
    BY <1>7 DEF WriteLeaf
  <2> QED
    BY <2>1, <1>1, <1>7, SameScopesKept
<1> QED
  BY <1>5, <1>6, <1>7

\* A rollback that ends left each leaf the trivia it is to restore, so the scopes around it
\* lose nothing with its undos.
LEMMA FreeMintedTraced ==
  ASSUME Facts, Scopes, Marks, ScopesTraced, RollbackTraced, FreeMinted
  PROVE  ScopesTraced'
<1>1. /\ UNCHANGED <<trivia, loose>> /\ call.op = "giveback" /\ ~UserCode /\ UserCode' /\ call'.op = "none"
      /\ InScope /\ \E m, v, u : EndScope(m, v, u)
  BY CallType DEF FreeMinted, Release, UserCode, NoCall, Facts
<1> PICK n : n = Len(undos)
  OBVIOUS
<1> PICK w : w = Top.undos
  OBVIOUS
<1>2. w \in Nat /\ n \in Nat /\ w <= n
  BY <1>1, TopType, CallType DEF Facts
<1>3. ASSUME NEW b \in Nat, b <= w, frames' # <<>>, Traced(b) PROVE Traced(b)'
  <2>1. Len(undos') = w /\ \A j \in 1..w : undos'[j] = undos[j]
    BY <1>3, UndosCutBack DEF UndosCut
  <2>2. Ahead = w /\ Ahead' = w
    BY <1>1, <2>1 DEF Ahead
  <2>3. \A l : \A m \in Nat : m <= w => (Clear(b, m, l) <=> Clear(b, m, l)')
    <3> TAKE l
    <3> TAKE m \in Nat
    <3> HAVE m <= w
    <3>1. \A i \in b + 1..m : i \in 1..w
      BY <1>2
    <3> QED
      BY <3>1, <2>1 DEF Clear, Writes
  <2>4. ASSUME NEW l \in Leaves, NEW x, Root(b, l, x) PROVE Root(b, l, x)'
    <3>1. ASSUME Clear(b, w, l), x = trivia[l] PROVE Root(b, l, x)'
      BY <3>1, <1>1, <1>2, <2>1, <2>3 DEF Root
    <3>2. CASE Clear(b, n, l) /\ x = trivia[l]
      <4>1. \A i \in b + 1..w : i \in b + 1..n
        BY <1>2
      <4> QED
        BY <4>1, <3>1, <3>2 DEF Clear
    <3>3. ASSUME NEW j \in b + 1..n, Writes(j, l), Clear(b, j - 1, l), x = undos[j].own PROVE Root(b, l, x)'
      <4>1. CASE j <= w
        <5>1. j \in b + 1..w /\ j \in 1..w /\ j - 1 \in Nat /\ j - 1 <= w
          BY <4>1, <1>2
        <5>2. Writes(j, l)' /\ Clear(b, j - 1, l)' /\ x = undos'[j].own
          BY <5>1, <3>3, <2>1, <2>3 DEF Writes
        <5> QED
          BY <5>1, <5>2, <2>1 DEF Root
      <4>2. CASE j > w
        <5>1. /\ j \in w + 1..n /\ \A i \in b + 1..w : i \in b + 1..j - 1
              /\ \A i \in w + 1..j - 1 : i \in b + 1..j - 1
          BY <4>2, <1>2, <1>3
        <5>2. Clear(b, w, l) /\ Clear(w, j - 1, l)
          BY <5>1, <3>3 DEF Clear
        <5>3. Root(w, l, x)
          BY <5>1, <5>2, <3>3 DEF Root
        <5>4. \A i : i \notin w + 1..w
          BY <1>2
        <5>5. Root(w, l, trivia[l])
          BY <5>4, <1>1, <2>2 DEF RollbackTraced, Clear
        <5>6. x = trivia[l]
          BY <5>3, <5>5, <1>2, RootOne
        <5> QED
          BY <5>2, <5>6, <3>1
      <4> QED
        BY <4>1, <4>2, <1>2
    <3> QED
      BY <3>2, <3>3, <2>4 DEF Root
  <2>5. ASSUME NEW l \in Leaves, NEW m \in Nat, m <= w, NEW x, Settled(b, m, l, x) PROVE Settled(b, m, l, x)'
    <3>1. \A k \in b + 1..m : k \in 1..w
      BY <1>2, <2>5
    <3>2. \A k \in b + 1..m : Writes(k, l) /\ x = undos[k].next => Writes(k, l)' /\ x = undos'[k].next
      BY <3>1, <2>1 DEF Writes
    <3> QED
      BY <3>2, <2>4, <2>5, <1>1 DEF Settled
  <2>6. ASSUME NEW l \in Leaves PROVE Settled(b, w, l, trivia[l])'
    <3> PICK x : x = trivia[l]
      OBVIOUS
    <3>1. Settled(b, w, l, x)
      BY <2>2, <1>3 DEF Traced
    <3>2. Settled(b, w, l, x)'
      BY <3>1, <2>5, <1>2
    <3> QED
      BY <3>2, <1>1
  <2>7. ASSUME NEW j \in b + 1..w PROVE SettledUndo(b, j)'
    <3>1. j \in b + 1..n /\ j \in 1..w /\ j \in 1..Len(undos) /\ j - 1 \in Nat /\ j - 1 <= w
      BY <1>2
    <3> PICK v : v = undos[j]
      OBVIOUS
    <3>2. SettledUndo(b, j)
      BY <3>1, <1>3 DEF Traced
    <3>3. undos'[j] = v /\ v.leaf \in Leaves
      BY <3>1, <2>1, UndoType
    <3>4. \A o : Settled(b, j - 1, v.leaf, o) => Settled(b, j - 1, v.leaf, o)'
      BY <3>1, <3>3, <2>5
    <3> QED
      BY <3>2, <3>3, <3>4 DEF SettledUndo
  <2> QED
    BY <2>1, <2>2, <2>6, <2>7 DEF Traced
<1> QED
  BY <1>1, <1>3, EndScopesKept

LEMMA NextTraced ==
  ASSUME Facts, Scopes, Marks, ScopesTraced, RollbackTraced, Next
  PROVE  ScopesTraced'
<1>1. loose \subseteq loose' /\ (~Stirs => trivia' = trivia)
  BY CalmSteps, LooseGrows DEF Calm
<1>2. CASE InterceptBuild
  BY <1>2, InterceptTraced
<1>3. CASE FinishBuild \/ UndoRefused \/ GiveBackRefused
  <2>1. /\ InScope /\ EndScope(minted, moved, undos) /\ UserCode' /\ trivia' = trivia
    BY <1>3, CallType DEF FinishBuild, UndoRefused, GiveBackRefused, Facts, UserCode, NoCall, leaves
  <2>2. ASSUME frames' # <<>>, NEW b \in Nat, Traced(b) PROVE Traced(b)'
    <3>1. undos' = undos
      BY <2>1, <2>2 DEF EndScope
    <3>2. Ahead' = Len(undos)
      BY <2>1, <3>1 DEF Ahead, UserCode
    <3> QED
      BY <2>1, <2>2, <3>1, <3>2, <1>1, TracedKept
  <2> QED
    BY <2>1, <2>2, EndScopesKept
<1>4. CASE FreeMinted
  BY <1>4, FreeMintedTraced
<1>5. ASSUME UNCHANGED <<undos, trivia>>, Touched \/ UNCHANGED frames, Ahead' = Ahead \/ Ahead' = Len(undos)
      PROVE  ScopesTraced'
  BY <1>1, <1>5, TracedKept, SameScopesKept
<1>6. ASSUME UserCode', UNCHANGED undos, ~Stirs \/ trivia' = trivia, Touched \/ UNCHANGED frames
      PROVE  ScopesTraced'
  <2>1. Ahead' = Len(undos)
    BY <1>6 DEF Ahead, UserCode
  <2> QED
    BY <2>1, <1>1, <1>5, <1>6
<1>7. CASE Throw \/ Undone \/ GiveBackMoved
  <2>1. UNCHANGED <<undos, trivia, frames>>
    BY <1>7 DEF Throw, Undone, GiveBackMoved, leaves, lists
  <2>2. Top' = Top
    BY <2>1 DEF Top
  <2>3. CASE Throw
    BY <2>3, <2>1, <1>5 DEF Throw, Ahead
  <2>4. CASE Undone \/ GiveBackMoved
    <3>1. Ahead' = Ahead
      BY <2>1, <2>2, <2>4, SameTypes DEF Undone, GiveBackMoved, Ahead, ScopeTypes
    <3> QED
      BY <3>1, <2>1, <1>5
  <2> QED
    BY <1>7, <2>3, <2>4
<1>8. CASE UndoLast
  <2>1. UNCHANGED <<undos, frames>> /\ call.n > Top.undos /\ call.n \in 1..Len(undos) /\ InScope /\ Len(undos) \in Nat
    BY <1>8, UndoNext, SameTypes DEF UndoLast, ListTypes
  <2>2. \A b \in Nat : b <= Top.undos => b < call.n
    BY <2>1, TopType DEF Facts
  <2> QED
    BY <1>8, <2>1, <2>2, UndoLastTraced, SameScopesKept
<1>9. CASE OpenCommit \/ CloseCommit
  BY <1>6, <1>9 DEF OpenCommit, CloseCommit, lists, leaves, UserCode
<1>10. ASSUME NEW c \in Comments, BuildComment(c) \/ ReleaseComment(c) PROVE ScopesTraced'
  BY <1>6, <1>10 DEF BuildComment, ReleaseComment, Touched, lists, leaves, UserCode
<1>11. ASSUME NEW h \in Holders, NEW l \in Leaves, BuildHolder(h, l) PROVE ScopesTraced'
  BY <1>11, BuildHolderTraced
<1>12. ASSUME NEW l \in Leaves, NEW c \in Comments \cup {Nil}, WriteLeaf(l, c) PROVE ScopesTraced'
  BY <1>12, WriteLeafTraced
<1>13. ASSUME NEW h \in Holders, NEW c \in Comments \cup {Nil}, WriteSite(h, c) PROVE ScopesTraced'
  BY <1>6, <1>13 DEF WriteSite, Touched, lists, leaves, UserCode
<1>14. ASSUME NEW h \in Holders, ReleaseHolder(h) PROVE ScopesTraced'
  BY <1>6, <1>14 DEF ReleaseHolder, Touched, lists, UserCode
<1>15. ASSUME NEW l \in Leaves, ReleaseLeaf(l) PROVE ScopesTraced'
  BY <1>6, <1>15 DEF ReleaseLeaf, Touched, lists, UserCode
<1>16. ASSUME NEW i, NEW c \in Comments, KeepComment(i, c) PROVE ScopesTraced'
  BY <1>6, <1>16 DEF KeepComment, Touched, lists, leaves, UserCode
<1>17. ASSUME NEW i, NEW l \in Leaves, KeepLeaf(i, l) PROVE ScopesTraced'
  BY <1>6, <1>17, KeepTouched DEF KeepLeaf, UserCode
<1> QED
  BY <1>2, <1>3, <1>4, <1>7, <1>8, <1>9, <1>10, <1>11, <1>12, <1>13, <1>14, <1>15, <1>16, <1>17 DEF Next

-----------------------------------------------------------------------------
\* A rollback begins with the parks and the trivia there are.
LEMMA ThrowRollback ==
  ASSUME Facts, Scopes, Marks, ScopesTraced, ParksReclaimable, Throw
  PROVE  RollbackTraced'
<1> PICK n : n = Len(undos)
  OBVIOUS
<1> PICK b : b = Top.undos
  OBVIOUS
<1>1. UserCode /\ InScope /\ UNCHANGED <<undos, trivia, parked, loose, frames>> /\ call' = [op |-> "undo", n |-> n]
  BY DEF Throw, lists, leaves
<1>2. Top' = Top /\ Ahead = n /\ Ahead' = n
  BY <1>1 DEF Top, Ahead, UserCode
<1>3. Traced(b)
  BY <1>1, TopType DEF ScopesTraced, Facts
<1>4. \A m, l, x : Settled(b, m, l, x) => Settled(b, m, l, x)'
  BY <1>1, SettledKept
<1>5. ASSUME NEW o \in parked PROVE o \in loose \/ \E l \in Leaves : Settled(b, n, l, o)'
  <2>1. CASE o \in loose
    BY <2>1
  <2>2. ASSUME NEW l \in Leaves, trivia[l] = o PROVE Settled(b, n, l, o)'
    <3>1. Settled(b, n, l, o)
      BY <2>2, <1>2, <1>3 DEF Traced
    <3> QED
      BY <3>1, <1>4
  <2> QED
    BY <2>1, <2>2, <1>1 DEF ParksReclaimable
<1>6. ASSUME NEW l \in Leaves, Clear(b, n, l)' PROVE Root(b, l, trivia[l])'
  BY <1>1, <1>6 DEF Root
<1>7. Top'.undos = b
  BY <1>2
<1> QED
  BY <1>1, <1>2, <1>5, <1>6, <1>7 DEF RollbackTraced

\* It ends with no undo ahead.
LEMMA RollbackEnds ==
  ASSUME Facts, Scopes, RollbackTraced, call.op = "giveback", NEW o \in parked
  PROVE  o \in loose \/ \E l \in Leaves : trivia[l] = o
<1> DEFINE b == Top.undos
<1>1. ~UserCode /\ InScope /\ Ahead = b
  BY CallType DEF UserCode, Facts, Ahead
<1>2. b \in Nat /\ Len(undos) \in Nat /\ \A i : i \notin b + 1..b
  BY <1>1, TopType, CallType DEF Facts
<1>3. CASE o \in loose
  BY <1>3
<1>4. ASSUME NEW l \in Leaves, Settled(b, b, l, o), o \notin loose PROVE trivia[l] = o
  <2>1. Root(b, l, o)
    BY <1>2, <1>4 DEF Settled
  <2>2. Root(b, l, trivia[l])
    BY <1>1, <1>2 DEF RollbackTraced, Clear
  <2> HIDE DEF b
  <2> QED
    BY <2>1, <2>2, <1>2, RootOne
<1> QED
  BY <1>1, <1>3, <1>4 DEF RollbackTraced

\* A step is user code's and calls nothing, is one of a rollback, or ends one.
LEMMA CallSteps ==
  ASSUME Facts, Next
  PROVE  \/ UserCode /\ UNCHANGED call
         \/ ~UserCode' /\ (Throw \/ UndoLast \/ Undone \/ GiveBackMoved)
         \/ UserCode' /\ (call.op = "giveback" \/ UndoRefused)
<1> DEFINE Says == \/ UserCode /\ UNCHANGED call
                   \/ ~UserCode' /\ (Throw \/ UndoLast \/ Undone \/ GiveBackMoved)
                   \/ UserCode' /\ (call.op = "giveback" \/ UndoRefused)
<1>1. CASE InterceptBuild \/ FinishBuild \/ OpenCommit \/ CloseCommit
  BY <1>1 DEF InterceptBuild, FinishBuild, OpenCommit, CloseCommit
<1>2. CASE Throw \/ Undone
  BY <1>2 DEF Throw, Undone, UserCode
<1>3. CASE UndoLast \/ GiveBackMoved
  BY <1>3, SameTypes DEF UndoLast, GiveBackMoved, UserCode, ScopeTypes
<1>4. CASE GiveBackRefused \/ FreeMinted \/ UndoRefused
  BY <1>4 DEF GiveBackRefused, FreeMinted, UndoRefused, NoCall, UserCode
<1>5. ASSUME NEW c \in Comments, BuildComment(c) \/ ReleaseComment(c) PROVE Says
  BY <1>5 DEF BuildComment, ReleaseComment
<1>6. ASSUME NEW h \in Holders, NEW l \in Leaves, BuildHolder(h, l) PROVE Says
  BY <1>6 DEF BuildHolder
<1>7. ASSUME NEW l \in Leaves, NEW c \in Comments \cup {Nil}, WriteLeaf(l, c) PROVE Says
  BY <1>7 DEF WriteLeaf
<1>8. ASSUME NEW h \in Holders, NEW c \in Comments \cup {Nil}, WriteSite(h, c) PROVE Says
  BY <1>8 DEF WriteSite
<1>9. ASSUME NEW h \in Holders, ReleaseHolder(h) PROVE Says
  BY <1>9 DEF ReleaseHolder
<1>10. ASSUME NEW l \in Leaves, ReleaseLeaf(l) PROVE Says
  BY <1>10 DEF ReleaseLeaf
<1>11. ASSUME NEW i \in 1..MaxCommits, NEW c \in Comments, KeepComment(i, c) PROVE Says
  BY <1>11 DEF KeepComment
<1>12. ASSUME NEW i \in 1..MaxCommits, NEW l \in Leaves, KeepLeaf(i, l) PROVE Says
  BY <1>12 DEF KeepLeaf
<1> QED
  BY <1>1, <1>2, <1>3, <1>4, <1>5, <1>6, <1>7, <1>8, <1>9, <1>10, <1>11, <1>12 DEF Next

LEMMA NextRollback ==
  ASSUME Facts, Scopes, Marks, ScopesTraced, RollbackTraced, ParksReclaimable, Next
  PROVE  RollbackTraced'
<1>1. CASE UserCode'
  BY <1>1 DEF RollbackTraced
<1>2. CASE Throw
  BY <1>2, ThrowRollback
<1>3. CASE UndoLast
  BY <1>3, UndoLastRollback
<1>4. CASE Undone \/ GiveBackMoved
  <2>1. ~UserCode /\ UNCHANGED <<undos, trivia, parked, loose, frames>>
    BY <1>4 DEF Undone, GiveBackMoved, leaves, lists, UserCode
  <2>2. Top' = Top
    BY <2>1 DEF Top
  <2>3. Ahead' = Ahead
    BY <2>1, <2>2, <1>4, SameTypes DEF Undone, GiveBackMoved, Ahead, ScopeTypes
  <2> PICK b : b = Top.undos
    OBVIOUS
  <2> PICK n : n = Ahead
    OBVIOUS
  <2>4. \A l, x : (Settled(b, n, l, x) => Settled(b, n, l, x)') /\ (Root(b, l, x) => Root(b, l, x)')
    BY <2>1, SettledKept, RootKept
  <2>5. \A l : Clear(b, n, l)' => Clear(b, n, l)
    BY <2>1 DEF Clear, Writes
  <2>6. \A o \in parked' : o \in loose' \/ \E l \in Leaves : Settled(b, n, l, o)'
    BY <2>1, <2>4 DEF RollbackTraced
  <2>7. ASSUME NEW l \in Leaves, Clear(b, n, l)' PROVE Root(b, l, trivia[l])'
    <3> PICK x : x = trivia[l]
      OBVIOUS
    <3>1. Root(b, l, x)
      BY <2>1, <2>5, <2>7 DEF RollbackTraced
    <3>2. Root(b, l, x)'
      BY <3>1, <2>4
    <3> QED
      BY <3>2, <2>1
  <2>8. Top'.undos = b /\ Ahead' = n
    BY <2>2, <2>3
  <2> QED
    BY <2>6, <2>7, <2>8 DEF RollbackTraced
<1> QED
  BY <1>1, <1>2, <1>3, <1>4, CallSteps DEF UserCode

LEMMA WriteLeafReclaims ==
  ASSUME Facts, ParksReclaimable, NEW l \in Leaves, NEW c \in Comments \cup {Nil}, WriteLeaf(l, c)
  PROVE  ParksReclaimable'
<1> DEFINE o == Len(written) + 1
           stays == Sites(l) # {} /\ ~Kept(l)
<1>1. /\ trivia' = [trivia EXCEPT ![l] = o] /\ UserCode
      /\ loose' = IF stays THEN loose \cup ({o, trivia[l]} \ {0}) ELSE loose
      /\ IF stays THEN parked' = parked ELSE parked' = (parked \ {ParkedOf(l)}) \cup {o}
  BY DEF WriteLeaf
<1>2. \A m \in Leaves : trivia'[m] = IF m = l THEN o ELSE trivia[m]
  BY <1>1, SameTypes DEF LeafTypes
<1>3. \A p \in parked : p \in 1..MaxWrites /\ p # 0
  BY ConstantsType, SameTypes DEF LeafTypes
<1> HIDE DEF o, stays
<1> SUFFICES ASSUME NEW p \in parked' PROVE p \in loose' \/ \E m \in Leaves : trivia'[m] = p
  BY DEF ParksReclaimable
<1>4. CASE p = o
  BY <1>2, <1>4
<1>5. CASE p # o
  <2>1. p \in parked /\ (p \in loose \/ \E m \in Leaves : trivia[m] = p)
    BY <1>1, <1>5 DEF ParksReclaimable
  <2>2. CASE \E m \in Leaves \ {l} : trivia[m] = p
    BY <2>2, <1>2
  <2>3. CASE p = trivia[l] /\ stays
    BY <2>1, <2>3, <1>1, <1>3
  <2>4. CASE p = trivia[l] /\ ~stays
    BY <2>1, <2>4, <1>1, <1>5 DEF ParkedOf
  <2>5. CASE p \in loose
    BY <2>5, <1>1
  <2> QED
    BY <2>1, <2>2, <2>3, <2>4, <2>5
<1> QED
  BY <1>4, <1>5

\* A rollback that stops at an undo leaves loose what that undo and those before it were to
\* take back, so what is parked besides is what some leaf has.
LEMMA UndoRefusedReclaims ==
  ASSUME Facts, Scopes, Marks, RollbackTraced, UndoRefused
  PROVE  ParksReclaimable'
<1> PICK b : b = Top.undos
  OBVIOUS
<1> PICK n : n = call.n
  OBVIOUS
<1>1. InScope /\ ~UserCode /\ Ahead = n
  BY UndoNext DEF UndoRefused, Ahead
<1>2. b \in Nat /\ n \in Nat /\ n <= Len(undos) /\ Len(undos) \in Nat
  BY <1>1, TopType, AheadType DEF Facts
<1>3. parked' \subseteq parked /\ trivia' = trivia /\ loose \subseteq loose'
  BY DEF UndoRefused
<1>4. ASSUME NEW j \in b + 1..n, NEW o \in {undos[j].next, undos[j].own}, o # 0 PROVE o \in loose'
  BY <1>4 DEF UndoRefused
<1>5. ASSUME NEW o \in parked, NEW l \in Leaves, Settled(b, n, l, o), o \notin loose'
      PROVE  trivia[l] = o
  <2>1. o # 0 /\ \A j \in b + 1..n : o # undos[j].next /\ o # undos[j].own
    BY <1>4, <1>5, LeafObject
  <2>2. Root(b, l, o)
    BY <2>1, <1>3, <1>5 DEF Settled
  <2>3. Clear(b, n, l)
    <3> SUFFICES ASSUME NEW i \in b + 1..n, Writes(i, l) PROVE FALSE
      BY DEF Clear
    <3>1. i \in b + 1..Len(undos)
      BY <1>2
    <3>2. PICK j \in b + 1..Len(undos) : Writes(j, l) /\ Clear(b, j - 1, l) /\ o = undos[j].own
      BY <2>2, <3>1 DEF Root, Clear
    <3>3. ~(i < j)
      <4> SUFFICES ASSUME i < j PROVE FALSE
        OBVIOUS
      <4>1. i \in b + 1..j - 1
        BY <1>2
      <4> QED
        BY <4>1, <3>2 DEF Clear
    <3>4. j \in b + 1..n
      BY <3>3, <1>2
    <3> QED
      BY <3>2, <3>4, <2>1
  <2>4. Root(b, l, trivia[l])
    BY <1>1, <2>3 DEF RollbackTraced
  <2> QED
    BY <2>2, <2>4, <1>2, RootOne
<1>6. \A o \in parked : o \in loose \/ \E l \in Leaves : Settled(b, n, l, o)
  BY <1>1 DEF RollbackTraced
<1> QED
  BY <1>3, <1>5, <1>6 DEF ParksReclaimable

LEMMA NextReclaims ==
  ASSUME Facts, Scopes, Marks, Owners, RollbackTraced, ParksReclaimable, Next
  PROVE  ParksReclaimable'
<1>1. CASE ~Stirs
  <2>1. parked' \subseteq parked /\ trivia' = trivia /\ loose \subseteq loose'
    BY <1>1, CalmSteps, LooseGrows DEF Calm
  <2>2. CASE UserCode
    BY <2>1, <2>2 DEF ParksReclaimable
  <2>3. CASE ~UserCode /\ UserCode'
    <3>1. CASE call.op = "giveback"
      BY <2>1, <3>1, RollbackEnds DEF ParksReclaimable
    <3>2. CASE UndoRefused
      BY <3>2, UndoRefusedReclaims
    <3> QED
      BY <2>3, <3>1, <3>2, CallSteps
  <2>4. CASE ~UserCode'
    BY <2>4 DEF ParksReclaimable
  <2> QED
    BY <2>2, <2>3, <2>4
<1>2. CASE UndoLast
  <2>1. ~UserCode'
    BY <1>2, SameTypes DEF UndoLast, UserCode, ScopeTypes
  <2> QED
    BY <2>1 DEF ParksReclaimable
<1>3. ASSUME NEW h \in Holders, NEW l \in Leaves, BuildHolder(h, l) PROVE ParksReclaimable'
  <2>1. parked' \subseteq parked /\ trivia' = trivia /\ loose' = loose /\ UserCode
    BY <1>3, BuildHolderObjects DEF BuildHolder
  <2> QED
    BY <2>1 DEF ParksReclaimable
<1>4. ASSUME NEW i, NEW l \in Leaves, KeepLeaf(i, l) PROVE ParksReclaimable'
  BY <1>4 DEF KeepLeaf, ParksReclaimable
<1>5. ASSUME NEW l \in Leaves, NEW c \in Comments \cup {Nil}, WriteLeaf(l, c) PROVE ParksReclaimable'
  BY <1>5, WriteLeafReclaims
<1> QED
  BY <1>1, <1>2, <1>3, <1>4, <1>5 DEF Stirs

-----------------------------------------------------------------------------
\* The strengthening of ParksReclaimable.
Reclaims == ParksReclaimable /\ ScopesTraced /\ RollbackTraced

LEMMA ReclaimsHold ==
  /\ Init => Reclaims
  /\ IInv /\ Reclaims /\ [Next]_vars => Reclaims'
<1>1. ASSUME Init PROVE Reclaims
  <2>1. parked = {} /\ undos = <<>> /\ frames = <<>> /\ UserCode
    BY <1>1 DEF Init, NoCall, UserCode
  <2>2. Len(frames) = 0
    BY <2>1
  <2> QED
    BY <2>1, <2>2 DEF Reclaims, ParksReclaimable, ScopesTraced, RollbackTraced
<1>2. ASSUME IInv, Reclaims, Next PROVE Reclaims'
  <2>1. Facts /\ Scopes /\ Marks /\ Owners
    BY <1>2 DEF IInv, Facts
  <2> QED
    BY <1>2, <2>1, NextReclaims, NextTraced, NextRollback DEF Reclaims
<1>3. ASSUME Reclaims, UNCHANGED vars PROVE Reclaims'
  <2>1. UNCHANGED <<trivia, parked, loose, undos, frames, call>>
    BY <1>3 DEF vars, leaves, lists
  <2>2. Top' = Top
    BY <2>1 DEF Top
  <2>3. Ahead' = Ahead
    BY <2>1, <2>2 DEF Ahead
  <2>4. /\ \A b, n, l : Clear(b, n, l)' <=> Clear(b, n, l)
        /\ \A b, l, x : Root(b, l, x)' <=> Root(b, l, x)
        /\ \A b, n, l, o : Settled(b, n, l, o)' <=> Settled(b, n, l, o)
    BY <2>1 DEF Settled, Root, Clear, Writes
  <2>5. \A b : Traced(b) => Traced(b)'
    BY <2>1, <2>3, <2>4 DEF Traced, SettledUndo
  <2>6. ScopesTraced'
    BY <1>3, <2>1, <2>5 DEF Reclaims, ScopesTraced, InScope
  <2>7. RollbackTraced'
    BY <1>3, <2>1, <2>2, <2>3, <2>4 DEF Reclaims, RollbackTraced, UserCode
  <2> QED
    BY <1>3, <2>1, <2>6, <2>7 DEF Reclaims, ParksReclaimable, UserCode
<1> QED
  BY <1>1, <1>2, <1>3

\* Between calls the arena parks only what the release of some leaf gives up, however builds
\* nest and throw, but for what a write at a placed leaf made or replaced (repark of utils.ts
\* returns early there), and what the undos of a rollback that stopped at a refused one were
\* to take back.
THEOREM ParkedParksReclaimable == Spec => []ParksReclaimable
<1>1. Reclaims => ParksReclaimable
  BY DEF Reclaims
<1> QED
  BY <1>1, ReclaimsHold, ParkedInvariant, PTL DEF Spec
=============================================================================
