------------------------- MODULE ChunkNumbersProofs -------------------------
(***************************************************************************)
(* The numbers, buffers and tables of ChunkNumbers, proved for any number  *)
(* of chunks, numbers, records, texts and leaves.                          *)
(***************************************************************************)
EXTENDS ChunkNumbers, TLAPS, FiniteSetTheorems, SequenceTheorems

-----------------------------------------------------------------------------
(* The inductive invariant.                                                *)

\* The numbers 1..tk that name no chunk of ch, each once, are queued in fr.
QueueOf(fr, ch, tk) ==
  /\ \A i \in 1..Len(fr) : fr[i] \in 1..tk /\ ch[fr[i]] = 0
  /\ \A i, j \in 1..Len(fr) : fr[i] = fr[j] => i = j
  /\ \A n \in 1..tk : ch[n] = 0 => \E i \in 1..Len(fr) : fr[i] = n

Queue == QueueOf(free, chunks, taken)

\* A number given out names the chunk that was given it, for native code and for JavaScript.
Numbering ==
  /\ \A n \in Numbers : chunks[n] # 0 => n <= taken /\ chunks[n] \in 1..made /\ number[chunks[n]] = n
  /\ \A n \in Numbers : views[n] # 0 => views[n] \in 1..made /\ number[views[n]] = n
  /\ \A g \in 1..made : number[g] \in 1..taken
  /\ \A f \in Forms : open[f] # 0 => chunks[open[f]] # 0 /\ form[chunks[open[f]]] = f
  /\ detached \subseteq 1..made

\* What JavaScript was not told of is free still: it asks before a number is given out.
Views == ViewsCurrent /\ \A n \in unreported : chunks[n] = 0

\* The tables say of an address what the record JavaScript's buffer has there was given.
Tables ==
  /\ \A a \in sided : views[a[1]] # 0 /\ rows[a] \in {<<views[a[1]], a[2]>>, Nil}
  /\ \A a \in Addresses : deferred[a] # Nil => views[a[1]] # 0 /\ deferred[a] = <<views[a[1]], a[2]>>
  /\ waiting = Cardinality({a \in Addresses : deferred[a] # Nil})

\* A record lies in a chunk that was made, a live one in a chunk that is not freed.
Written ==
  /\ \A g \in Chunks : g > made => used[g] = 0 /\ cells[g] = 0
  /\ \A r \in given : r[1] \in 1..made
  /\ \A r \in live : /\ r[1] \in 1..made /\ form[r[1]] = "words" /\ chunks[number[r[1]]] = r[1]
                     /\ r[2] <= used[r[1]]
  /\ \A r \in Records : r[2] > used[r[1]] => leafIn[r] = Nil
  /\ \A r \in Records : leafIn[r] = Nil <=> textIn[r] = 0
  /\ draft # Nil => draft \in live

\* A text is counted by the live records that name it, and its chunk is not freed.
Texts ==
  /\ \A r \in live : textIn[r] # 0 => form[textIn[r]] = "bytes" /\ textIn[r] \in 1..made
  /\ \A l \in Leaves : entry[l] # 0 => entry[l] \in 1..made /\ form[entry[l]] = "bytes" /\ l \in texts[entry[l]]
  /\ TextsHeld

\* A sealed chunk is there only while something in it is live.
Sealed == \A n \in Numbers \ Range(open) : chunks[n] # 0 => ~Empty(chunks[n], live, cells)

IInv == TypeOK /\ Queue /\ Numbering /\ Views /\ Tables /\ Written /\ Texts /\ Sealed

-----------------------------------------------------------------------------
(* Numbers and sets.                                                       *)

LEMMA MinPair == ASSUME NEW m \in Nat, NEW n \in Nat PROVE Min({m, n}) = IF m <= n THEN m ELSE n
<1>1. \E x \in {m, n} : \A y \in {m, n} : x <= y
  OBVIOUS
<1>2. Min({m, n}) \in {m, n} /\ \A y \in {m, n} : Min({m, n}) <= y
  BY <1>1 DEF Min
<1> QED
  BY <1>2

LEMMA MaxPair == ASSUME NEW m \in Nat, NEW n \in Nat PROVE Max({m, n}) \in Nat
<1>1. \E x \in {m, n} : \A y \in {m, n} : x >= y
  OBVIOUS
<1>2. Max({m, n}) \in {m, n}
  BY <1>1 DEF Max
<1> QED
  BY <1>2

LEMMA ConstantsType ==
  /\ MaxNumbers \in Nat \ {0} /\ MaxMade \in Nat \ {0} /\ Room \in Nat \ {0} /\ PruneAt \in Nat
  /\ Nil \notin Leaves /\ Nil \notin Records
BY ConstantsAssumption DEF Records, Chunks

\* A record is a pair, and so is an address.
LEMMA PairTypes ==
  /\ \A r \in Records : r = <<r[1], r[2]>> /\ r[1] \in Chunks /\ r[2] \in 1..Room
  /\ \A a \in Addresses : a = <<a[1], a[2]>> /\ a[1] \in Numbers /\ a[2] \in 1..Room
BY DEF Records, Addresses

LEMMA FiniteTables ==
  /\ IsFiniteSet(Records) /\ IsFiniteSet(Addresses)
  /\ \A S \in SUBSET Records : IsFiniteSet(S) /\ Cardinality(S) \in Nat
  /\ \A S \in SUBSET Addresses : IsFiniteSet(S) /\ Cardinality(S) \in Nat
<1>1. IsFiniteSet(Chunks) /\ IsFiniteSet(Numbers) /\ IsFiniteSet(1..Room)
  BY ConstantsType, FS_Interval DEF Chunks, Numbers
<1>2. IsFiniteSet(Records) /\ IsFiniteSet(Addresses)
  BY <1>1, FS_Product DEF Records, Addresses
<1>3. \A S \in SUBSET Records : IsFiniteSet(S) /\ Cardinality(S) \in Nat
  BY <1>2, FS_Subset, FS_CardinalityType
<1>4. \A S \in SUBSET Addresses : IsFiniteSet(S) /\ Cardinality(S) \in Nat
  BY <1>2, FS_Subset, FS_CardinalityType
<1> QED
  BY <1>2, <1>3, <1>4

-----------------------------------------------------------------------------
(* The queue of numbers.                                                   *)

Tabled(ch) == ch \in [Numbers -> Nat]

\* The number at the head is given to a chunk.
LEMMA QueueTail ==
  ASSUME NEW fr \in Seq(Numbers), NEW ch, Tabled(ch), NEW tk \in 0..MaxNumbers,
         QueueOf(fr, ch, tk), fr # <<>>, NEW g \in Nat \ {0}
  PROVE  QueueOf(Tail(fr), [ch EXCEPT ![Head(fr)] = g], tk) /\ Tail(fr) \in Seq(Numbers)
<1> DEFINE tl == Tail(fr)
           now == [ch EXCEPT ![Head(fr)] = g]
<1>1. /\ tl \in Seq(Numbers) /\ Len(fr) \in Nat \ {0} /\ Len(tl) = Len(fr) - 1
      /\ \A i \in 1..Len(tl) : tl[i] = fr[i + 1]
      /\ Head(fr) = fr[1] /\ fr[1] \in Numbers
  OBVIOUS
<1>2. \A n \in Numbers : now[n] = IF n = fr[1] THEN g ELSE ch[n]
  BY <1>1 DEF Tabled
<1>3. \A i \in 1..Len(tl) : i + 1 \in 1..Len(fr) /\ i + 1 # 1 /\ fr[i + 1] # fr[1]
  BY <1>1 DEF QueueOf
<1>4. \A i \in 1..Len(tl) : tl[i] \in 1..tk /\ now[tl[i]] = 0
  BY <1>1, <1>2, <1>3, ConstantsType DEF QueueOf, Numbers
<1>5. \A i, j \in 1..Len(tl) : tl[i] = tl[j] => i = j
  <2> SUFFICES ASSUME NEW i \in 1..Len(tl), NEW j \in 1..Len(tl), tl[i] = tl[j] PROVE i = j
    OBVIOUS
  <2>1. i + 1 = j + 1
    BY <1>1, <1>3 DEF QueueOf
  <2> QED
    BY <2>1
<1>6. \A n \in 1..tk : now[n] = 0 => \E i \in 1..Len(tl) : tl[i] = n
  <2> SUFFICES ASSUME NEW n \in 1..tk, now[n] = 0 PROVE \E i \in 1..Len(tl) : tl[i] = n
    OBVIOUS
  <2>1. n \in Numbers /\ n # fr[1] /\ ch[n] = 0
    BY <1>2, ConstantsType DEF Numbers
  <2>2. PICK i \in 1..Len(fr) : fr[i] = n
    BY <2>1 DEF QueueOf
  <2>3. i - 1 \in 1..Len(tl) /\ tl[i - 1] = fr[(i - 1) + 1]
    BY <1>1, <2>1, <2>2
  <2> QED
    BY <2>2, <2>3
<1> QED
  BY <1>1, <1>4, <1>5, <1>6 DEF QueueOf

\* A number never given out before is.
LEMMA QueueNew ==
  ASSUME NEW fr \in Seq(Numbers), NEW ch, Tabled(ch), NEW tk \in 0..MaxNumbers,
         QueueOf(fr, ch, tk), tk < MaxNumbers, NEW g \in Nat \ {0}
  PROVE  QueueOf(fr, [ch EXCEPT ![tk + 1] = g], tk + 1)
<1>1. \A n \in Numbers : [ch EXCEPT ![tk + 1] = g][n] = IF n = tk + 1 THEN g ELSE ch[n]
  BY DEF Tabled
<1>2. \A n \in 1..(tk + 1) : n \in Numbers /\ (n \in 1..tk \/ n = tk + 1)
  BY ConstantsType DEF Numbers
<1> QED
  BY <1>1, <1>2 DEF QueueOf

\* A freed number waits at the end.
LEMMA QueueAdd ==
  ASSUME NEW fr \in Seq(Numbers), NEW ch, Tabled(ch), NEW tk \in 0..MaxNumbers,
         QueueOf(fr, ch, tk), NEW n \in Numbers, n <= tk, ch[n] # 0
  PROVE  QueueOf(Append(fr, n), [ch EXCEPT ![n] = 0], tk) /\ Append(fr, n) \in Seq(Numbers)
<1> DEFINE ap == Append(fr, n)
           now == [ch EXCEPT ![n] = 0]
<1>1. /\ ap \in Seq(Numbers) /\ Len(fr) \in Nat /\ Len(ap) = Len(fr) + 1
      /\ \A i \in 1..Len(fr) : ap[i] = fr[i] /\ fr[i] \in Numbers
      /\ ap[Len(fr) + 1] = n
  OBVIOUS
<1>2. \A m \in Numbers : now[m] = IF m = n THEN 0 ELSE ch[m]
  BY DEF Tabled
<1>3. \A i \in 1..Len(fr) : fr[i] # n
  BY DEF QueueOf
<1>4. \A i \in 1..Len(ap) : i \in 1..Len(fr) \/ i = Len(fr) + 1
  BY <1>1
<1>5. \A i \in 1..Len(ap) : ap[i] \in 1..tk /\ now[ap[i]] = 0
  BY <1>1, <1>2, <1>4 DEF QueueOf, Numbers
<1>6. \A i, j \in 1..Len(ap) : ap[i] = ap[j] => i = j
  BY <1>1, <1>3, <1>4 DEF QueueOf
<1>7. \A m \in 1..tk : now[m] = 0 => \E i \in 1..Len(ap) : ap[i] = m
  <2> SUFFICES ASSUME NEW m \in 1..tk, now[m] = 0 PROVE \E i \in 1..Len(ap) : ap[i] = m
    OBVIOUS
  <2>1. m \in Numbers
    BY ConstantsType DEF Numbers
  <2>2. CASE m = n
    BY <2>2, <1>1
  <2>3. CASE m # n
    <3>1. PICK i \in 1..Len(fr) : fr[i] = m
      BY <2>1, <2>3, <1>2 DEF QueueOf
    <3> QED
      BY <3>1, <1>1
  <2> QED
    BY <2>2, <2>3
<1> QED
  BY <1>1, <1>5, <1>6, <1>7 DEF QueueOf

-----------------------------------------------------------------------------
(* What a new chunk and a release do to the numbers.                       *)

\* A chunk of form f is made with number n; S has the number of the chunk sealed and freed.
Took(f, large, n, S) ==
  /\ n \in Numbers /\ S \in SUBSET Numbers /\ n \notin S
  /\ chunks[n] = 0 /\ (views[n] # 0 => n \in unreported)
  /\ \A m \in S : ~large /\ m = open[f] /\ chunks[m] # 0 /\ Empty(chunks[m], live, cells)
  /\ ~large /\ open[f] # 0 /\ open[f] \notin S => ~Empty(chunks[open[f]], live, cells)
  /\ made < MaxMade /\ made' = made + 1
  /\ taken' \in 0..MaxNumbers /\ taken <= taken' /\ n <= taken'
  /\ number' = [number EXCEPT ![made + 1] = n] /\ form' = [form EXCEPT ![made + 1] = f]
  /\ open' = IF large THEN open ELSE [open EXCEPT ![f] = n]
  /\ chunks' = [m \in Numbers |-> IF m = n THEN made + 1 ELSE IF m \in S THEN 0 ELSE chunks[m]]
  /\ Queue' /\ free' \in Seq(Numbers)
  /\ detached' = detached \cup {chunks[m] : m \in S} /\ unreported' = {}
  /\ views' = Viewed(n, made + 1, unreported \cup S)
  /\ Sweep(unreported \cup S)

LEMMA AllocTook ==
  ASSUME IInv, NEW f \in Forms, NEW large \in BOOLEAN, Alloc(f, large)
  PROVE  \E n \in Numbers, S \in SUBSET Numbers : Took(f, large, n, S)
<1> DEFINE g == made + 1
           n == IF taken < MaxNumbers THEN taken + 1 ELSE Head(free)
           old == IF large THEN 0 ELSE open[f]
           sealed == IF old # 0 /\ Empty(chunks[old], live, cells) THEN <<old>> ELSE <<>>
           S == Range(sealed)
           ch1 == [chunks EXCEPT ![n] = g]
           ch2 == [m \in Numbers |-> IF m = n THEN g ELSE IF m \in S THEN 0 ELSE chunks[m]]
<1>1. /\ made < MaxMade /\ made' = g /\ taken' = Min({taken + 1, MaxNumbers})
      /\ number' = [number EXCEPT ![g] = n] /\ form' = [form EXCEPT ![g] = f]
      /\ open' = IF large THEN open ELSE [open EXCEPT ![f] = n]
      /\ chunks' = [Freed(sealed) EXCEPT ![n] = g]
      /\ free' = Left \o sealed
      /\ detached' = Detached(sealed)
      /\ unreported' = {}
      /\ views' = Viewed(n, g, unreported \cup S)
      /\ Sweep(unreported \cup S)
      /\ taken < MaxNumbers \/ free # <<>>
  BY DEF Alloc, Numbered
<1>2. /\ made \in Nat /\ taken \in 0..MaxNumbers /\ free \in Seq(Numbers)
      /\ chunks \in [Numbers -> 0..made] /\ open[f] \in 0..MaxNumbers
      /\ Queue /\ Numbering /\ ViewsCurrent /\ g \in Nat \ {0}
  BY ConstantsType DEF IInv, TypeOK, Views
<1>3. Tabled(chunks)
  BY <1>2 DEF Tabled
<1>4. taken' = IF taken < MaxNumbers THEN taken + 1 ELSE taken
  <2>1. taken + 1 \in Nat /\ MaxNumbers \in Nat
    BY <1>2, ConstantsType
  <2>2. Min({taken + 1, MaxNumbers}) = IF taken + 1 <= MaxNumbers THEN taken + 1 ELSE MaxNumbers
    BY <2>1, MinPair
  <2> HIDE DEF n, g, S
  <2> QED
    BY <2>1, <2>2, <1>1, <1>2
<1>5. n \in Numbers /\ n <= taken' /\ chunks[n] = 0
  <2>1. CASE taken < MaxNumbers
    <3>1. n = taken + 1 /\ n \in Numbers
      BY <2>1, <1>2, ConstantsType DEF Numbers
    <3>2. chunks[n] = 0
      BY <3>1, <1>2 DEF Numbering
    <3> QED
      BY <3>1, <3>2, <2>1, <1>4
  <2>2. CASE ~(taken < MaxNumbers)
    <3>1. free # <<>> /\ n = free[1] /\ 1 \in 1..Len(free)
      BY <2>2, <1>1, <1>2
    <3>2. n \in 1..taken /\ chunks[n] = 0
      BY <3>1, <1>2 DEF Queue, QueueOf
    <3> QED
      BY <3>2, <2>2, <1>2, <1>4, ConstantsType DEF Numbers
  <2> QED
    BY <2>1, <2>2
<1>6. views[n] # 0 => n \in unreported
  BY <1>2, <1>5 DEF ViewsCurrent, Has
<1>7. S = IF old # 0 /\ Empty(chunks[old], live, cells) THEN {old} ELSE {}
  BY DEF Range
<1>8. old # 0 => ~large /\ old = open[f] /\ old \in Numbers /\ chunks[old] # 0 /\ old # n /\ old <= taken
  BY <1>2, <1>5, ConstantsType DEF Numbering, Numbers
<1>9. QueueOf(Left, ch1, taken') /\ Left \in Seq(Numbers)
  <2>1. CASE taken < MaxNumbers
    <3>1. QueueOf(free, [chunks EXCEPT ![taken + 1] = g], taken + 1)
      BY <2>1, <1>2, <1>3, QueueNew DEF Queue
    <3> QED
      BY <3>1, <2>1, <1>2, <1>4 DEF Left
  <2>2. CASE ~(taken < MaxNumbers)
    <3>1. free # <<>>
      BY <2>2, <1>1
    <3>2. QueueOf(Tail(free), [chunks EXCEPT ![Head(free)] = g], taken) /\ Tail(free) \in Seq(Numbers)
      BY <3>1, <1>2, <1>3, QueueTail DEF Queue
    <3> QED
      BY <3>2, <2>2, <1>4 DEF Left
  <2> QED
    BY <2>1, <2>2
<1>10. Tabled(ch1) /\ taken' \in 0..MaxNumbers /\ taken <= taken' /\ \A m \in Numbers : ch1[m] = IF m = n THEN g ELSE chunks[m]
  <2> HIDE DEF n
  <2>1. Tabled(ch1) /\ \A m \in Numbers : ch1[m] = IF m = n THEN g ELSE chunks[m]
    BY <1>2, <1>3 DEF Tabled
  <2>2. taken' \in 0..MaxNumbers /\ taken <= taken'
    BY <1>2, <1>4, ConstantsType
  <2> QED
    BY <2>1, <2>2
<1>11. chunks' = ch2
  BY <1>1, <1>7, <1>8, <1>5 DEF Freed
<1>12. QueueOf(free', chunks', taken') /\ free' \in Seq(Numbers)
  <2>1. CASE S = {}
    <3>1. sealed = <<>>
      BY <2>1, <1>7
    <3>2. free' = Left
      BY <3>1, <1>1, <1>9
    <3>3. ch2 = ch1
      BY <2>1, <1>2
    <3> QED
      BY <3>2, <3>3, <1>9, <1>11
  <2>2. CASE S # {}
    <3>1. sealed = <<old>> /\ old # 0 /\ S = {old}
      BY <2>2, <1>7
    <3>2. free' = Append(Left, old)
      BY <3>1, <1>1, <1>8, <1>9
    <3>3. ch1[old] # 0 /\ old <= taken'
      BY <3>1, <1>8, <1>10, <1>2 DEF Numbers
    <3>4. QueueOf(Append(Left, old), [ch1 EXCEPT ![old] = 0], taken') /\ Append(Left, old) \in Seq(Numbers)
      BY <3>1, <3>3, <1>8, <1>9, <1>10, QueueAdd
    <3>5. ch2 = [ch1 EXCEPT ![old] = 0]
      BY <3>1, <1>8, <1>10, <1>2
    <3> QED
      BY <3>2, <3>4, <3>5, <1>11
  <2> QED
    BY <2>1, <2>2
<1>13. S \in SUBSET Numbers /\ n \notin S
  BY <1>7, <1>8
<1>14. \A m \in S : ~large /\ m = open[f] /\ chunks[m] # 0 /\ Empty(chunks[m], live, cells)
  BY <1>7, <1>8
<1>15. ~large /\ open[f] # 0 /\ open[f] \notin S => ~Empty(chunks[open[f]], live, cells)
  BY <1>7
<1>16. Took(f, large, n, S)
  BY <1>1, <1>5, <1>6, <1>10, <1>11, <1>12, <1>13, <1>14, <1>15 DEF Took, Queue, Detached
<1> QED
  BY <1>16, <1>5, <1>13

LEMMA RangeOfTwo ==
  ASSUME NEW N, NEW a \in N, NEW b \in N
  PROVE  Range(<<a>> \o <<b>>) = {a, b}
<1> DEFINE s == <<a>> \o <<b>>
<1>1. <<a>> \in Seq(N) /\ <<b>> \in Seq(N) /\ Len(<<a>>) = 1 /\ Len(<<b>>) = 1
  OBVIOUS
<1>2. Len(s) = 2 /\ s \in Seq(N) /\ s[1] = <<a>>[1] /\ s[2] = <<b>>[1]
  BY <1>1, ConcatProperties
<1> HIDE DEF s
<1>3. DOMAIN s = {1, 2} /\ s[1] = a /\ s[2] = b
  BY <1>2
<1> QED
  BY <1>3 DEF Range, s

\* Record r is released; S has the numbers of the chunks it leaves empty.
LetGo(r) == IF textIn[r] = 0 THEN cells ELSE [cells EXCEPT ![textIn[r]] = @ - 1]

Lost(r, S) ==
  /\ S \in SUBSET Numbers
  /\ live' = live \ {r} /\ cells' = LetGo(r) /\ rows' = [rows EXCEPT ![Address(r)] = Nil]
  /\ \A m \in S : chunks[m] # 0 /\ m \notin Range(open) /\ Empty(chunks[m], live', cells')
  /\ \A m \in Numbers \ Range(open) : m \notin S /\ chunks[m] # 0 => ~Empty(chunks[m], live', cells')
  /\ chunks' = [m \in Numbers |-> IF m \in S THEN 0 ELSE chunks[m]]
  /\ QueueOf(free', chunks', taken) /\ free' \in Seq(Numbers)
  /\ detached' = detached \cup {chunks[m] : m \in S} /\ unreported' = unreported \cup S

\* The text of a live record is counted, in a chunk of texts that is there.
LEMMA TextCounted ==
  ASSUME IInv, NEW r \in live, textIn[r] # 0
  PROVE  /\ textIn[r] \in 1..made /\ textIn[r] \in Chunks /\ form[textIn[r]] = "bytes"
         /\ cells[textIn[r]] \in Nat \ {0} /\ chunks[number[textIn[r]]] = textIn[r]
         /\ number[textIn[r]] \in Numbers
<1> DEFINE t == textIn[r]
           cs == {x \in live : textIn[x] = t}
<1>1. made \in 0..MaxMade /\ live \subseteq Records /\ taken \in 0..MaxNumbers
  BY DEF IInv, TypeOK
<1>2. t \in 1..made /\ form[t] = "bytes"
  BY DEF IInv, Texts
<1>3. t \in Chunks
  BY <1>1, <1>2, ConstantsType DEF Chunks
<1>4. cells[t] = Cardinality(cs) /\ chunks[number[t]] = t
  BY <1>3 DEF IInv, Texts, TextsHeld
<1>5. cs \in SUBSET Records /\ cs # {}
  BY <1>1
<1>6. IsFiniteSet(cs) /\ Cardinality(cs) \in Nat
  BY <1>5, FiniteTables
<1>7. Cardinality(cs) # 0
  BY <1>5, <1>6, FS_EmptySet
<1>8. number[t] \in 1..taken
  BY <1>2 DEF IInv, Numbering
<1> QED
  BY <1>1, <1>2, <1>3, <1>4, <1>6, <1>7, <1>8, ConstantsType DEF Numbers

LEMMA ReleaseLost ==
  ASSUME IInv, NEW r \in live, NativeRelease(r)
  PROVE  \E S \in SUBSET Numbers : Lost(r, S)
<1> DEFINE t == textIn[r]
           counts == IF t = 0 THEN cells ELSE [cells EXCEPT ![t] = @ - 1]
           dead == live \ {r}
           Gone(g) == g # 0 /\ number[g] \notin Range(open) /\ Empty(g, dead, counts)
           fromText == IF Gone(t) THEN <<number[t]>> ELSE <<>>
           fromRecord == IF Gone(r[1]) THEN <<number[r[1]]>> ELSE <<>>
           freed == fromText \o fromRecord
           S == {m \in Numbers : chunks[m] # 0 /\ chunks[m] \in {t, r[1]} /\ Gone(chunks[m])}
<1>1. /\ live' = dead /\ cells' = counts
      /\ rows' = [rows EXCEPT ![Address(r)] = Nil]
      /\ chunks' = Freed(freed) /\ free' = free \o freed
      /\ detached' = Detached(freed) /\ unreported' = unreported \cup Range(freed)
  BY DEF NativeRelease
<1>2. /\ made \in 0..MaxMade /\ taken \in 0..MaxNumbers /\ free \in Seq(Numbers)
      /\ chunks \in [Numbers -> 0..made] /\ cells \in [Chunks -> Nat] /\ live \subseteq Records
      /\ Queue /\ Numbering /\ Sealed
  BY DEF IInv, TypeOK
<1>3. /\ r \in Records /\ r[1] \in 1..made /\ r[1] \in Chunks /\ form[r[1]] = "words" /\ chunks[number[r[1]]] = r[1]
      /\ number[r[1]] \in Numbers
  <2>1. r \in Records /\ r[1] \in 1..made /\ form[r[1]] = "words" /\ chunks[number[r[1]]] = r[1]
    BY <1>2 DEF IInv, Written
  <2>2. number[r[1]] \in 1..taken
    BY <2>1, <1>2 DEF Numbering
  <2> QED
    BY <2>1, <2>2, <1>2, PairTypes, ConstantsType DEF Numbers
<1>4. t # 0 => /\ t \in 1..made /\ t \in Chunks /\ form[t] = "bytes" /\ chunks[number[t]] = t
               /\ number[t] \in Numbers /\ t # r[1] /\ number[t] # number[r[1]]
  BY <1>3, TextCounted
<1>5. \A m \in Numbers : chunks[m] # 0 => m <= taken /\ number[chunks[m]] = m
  BY <1>2 DEF Numbering
<1>6. \A m \in Numbers : m \in S <=> (Gone(t) /\ m = number[t]) \/ (Gone(r[1]) /\ m = number[r[1]])
  <2> HIDE DEF Gone
  <2>1. Gone(t) => t # 0
    BY DEF Gone
  <2> QED
    BY <2>1, <1>3, <1>4, <1>5, <1>2
<1> DEFINE ch1 == IF Gone(t) THEN [chunks EXCEPT ![number[t]] = 0] ELSE chunks
           ch2 == [m \in Numbers |-> IF m \in S THEN 0 ELSE chunks[m]]
           fr1 == free \o fromText
<1>7. QueueOf(fr1, ch1, taken) /\ fr1 \in Seq(Numbers) /\ Tabled(ch1)
      /\ \A m \in Numbers : ch1[m] = IF Gone(t) /\ m = number[t] THEN 0 ELSE chunks[m]
  <2>1. Tabled(chunks)
    BY <1>2 DEF Tabled
  <2>2. CASE Gone(t)
    <3>1. t # 0 /\ fr1 = Append(free, number[t])
      BY <2>2, <1>2, <1>4
    <3>2. chunks[number[t]] # 0 /\ number[t] <= taken /\ number[t] \in Numbers
      BY <3>1, <1>4, <1>5
    <3> HIDE DEF Gone
    <3>3. QueueOf(Append(free, number[t]), [chunks EXCEPT ![number[t]] = 0], taken) /\ Append(free, number[t]) \in Seq(Numbers)
      BY <2>1, <3>2, <1>2, QueueAdd DEF Queue
    <3>4. ch1 = [chunks EXCEPT ![number[t]] = 0]
      BY <2>2
    <3>5. Tabled(ch1) /\ \A m \in Numbers : ch1[m] = IF m = number[t] THEN 0 ELSE chunks[m]
      BY <3>4, <2>1 DEF Tabled
    <3> QED
      BY <3>1, <3>3, <3>4, <3>5, <2>2
  <2>3. CASE ~Gone(t)
    <3> HIDE DEF Gone
    <3>1. fr1 = free /\ ch1 = chunks
      BY <2>3, <1>2, ConcatEmptySeq
    <3> QED
      BY <3>1, <2>1, <2>3, <1>2 DEF Queue
  <2> QED
    BY <2>2, <2>3
<1>8. free' = fr1 \o fromRecord
  <2> HIDE DEF Gone
  <2>1. fromText \in Seq(Numbers)
    <3>1. Gone(t) => number[t] \in Numbers
      BY <1>4 DEF Gone
    <3> QED
      BY <3>1
  <2>2. fromRecord \in Seq(Numbers)
    BY <1>3
  <2>3. free' = free \o (fromText \o fromRecord)
    BY <1>1
  <2> HIDE DEF fromText, fromRecord
  <2>4. (free \o fromText) \o fromRecord = free \o (fromText \o fromRecord)
    BY SMTT(30), <2>1, <2>2, <1>2, ConcatAssociative
  <2> QED
    BY <2>3, <2>4
<1>9. QueueOf(free', ch2, taken) /\ free' \in Seq(Numbers)
  <2>1. CASE Gone(r[1])
    <3>1. free' = Append(fr1, number[r[1]])
      BY <2>1, <1>8, <1>7, <1>3
    <3> HIDE DEF Gone, fr1, ch1
    <3>2. ch1[number[r[1]]] # 0 /\ number[r[1]] <= taken
      <4>1. Gone(t) => t # 0
        BY DEF Gone
      <4>2. chunks[number[r[1]]] # 0 /\ (Gone(t) => number[r[1]] # number[t])
        BY <4>1, <1>3, <1>4
      <4> QED
        BY <4>2, <1>3, <1>5, <1>7
    <3>3. QueueOf(Append(fr1, number[r[1]]), [ch1 EXCEPT ![number[r[1]]] = 0], taken) /\ Append(fr1, number[r[1]]) \in Seq(Numbers)
      BY <3>2, <1>2, <1>3, <1>7, QueueAdd
    <3>4. ch2 = [ch1 EXCEPT ![number[r[1]]] = 0]
      <4>1. [ch1 EXCEPT ![number[r[1]]] = 0] = [m \in Numbers |-> IF m = number[r[1]] THEN 0 ELSE ch1[m]]
        BY <1>7 DEF Tabled
      <4> HIDE DEF S
      <4>2. \A m \in Numbers : (IF m = number[r[1]] THEN 0 ELSE ch1[m]) = IF m \in S THEN 0 ELSE chunks[m]
        BY <1>6, <1>7, <2>1
      <4> QED
        BY <4>1, <4>2
    <3> QED
      BY <3>1, <3>3, <3>4
  <2>2. CASE ~Gone(r[1])
    <3>1. free' = fr1
      <4> HIDE DEF Gone, fr1
      <4> QED
        BY <2>2, <1>8, <1>7, ConcatEmptySeq
    <3>2. ch2 = ch1
      <4> HIDE DEF Gone, S, ch1
      <4>1. \A m \in Numbers : ch1[m] = IF m \in S THEN 0 ELSE chunks[m]
        BY <1>6, <1>7, <2>2
      <4>2. ch1 = [m \in Numbers |-> ch1[m]]
        BY <1>7 DEF Tabled
      <4> QED
        BY <4>1, <4>2
    <3> QED
      BY <3>1, <3>2, <1>7
  <2> QED
    BY <2>1, <2>2
<1>10. Range(freed) = S
  <2>1. Range(freed) = (IF Gone(t) THEN {number[t]} ELSE {}) \cup (IF Gone(r[1]) THEN {number[r[1]]} ELSE {})
    <3> HIDE DEF Gone
    <3>1. CASE Gone(t) /\ Gone(r[1])
      <4>1. fromText = <<number[t]>> /\ fromRecord = <<number[r[1]]>>
        BY <3>1
      <4>2. number[t] \in Numbers
        BY <3>1, <1>4 DEF Gone
      <4> HIDE DEF fromText, fromRecord
      <4>3. Range(freed) = {number[t], number[r[1]]}
        BY <4>1, <4>2, <1>3, RangeOfTwo
      <4> QED
        BY <4>3, <3>1
    <3>2. CASE Gone(t) /\ ~Gone(r[1])
      <4>1. freed = <<number[t]>>
        BY <3>2
      <4> QED
        BY <4>1, <3>2 DEF Range
    <3>3. CASE ~Gone(t) /\ Gone(r[1])
      <4>1. freed = <<number[r[1]]>>
        BY <3>3
      <4> QED
        BY <4>1, <3>3 DEF Range
    <3>4. CASE ~Gone(t) /\ ~Gone(r[1])
      <4>1. freed = <<>>
        BY <3>4
      <4> QED
        BY <4>1, <3>4 DEF Range
    <3> QED
      BY <3>1, <3>2, <3>3, <3>4
  <2>2. (Gone(t) => number[t] \in Numbers) /\ S \subseteq Numbers
    BY <1>4
  <2> HIDE DEF Gone, S, freed
  <2> QED
    BY <2>1, <2>2, <1>6, <1>3
<1>11. chunks' = ch2 /\ detached' = detached \cup {chunks[m] : m \in S} /\ unreported' = unreported \cup S
  <2> HIDE DEF S, freed
  <2> QED
    BY <1>1, <1>10 DEF Freed, Detached
<1>12. \A m \in S : chunks[m] # 0 /\ m \notin Range(open) /\ Empty(chunks[m], live', cells')
  BY <1>1, <1>5
<1>13. ASSUME NEW m \in Numbers \ Range(open), m \notin S, chunks[m] # 0
       PROVE  ~Empty(chunks[m], live', cells')
  <2>1. number[chunks[m]] = m /\ chunks[m] \in 1..made /\ ~Empty(chunks[m], live, cells)
    BY <1>13, <1>2 DEF Numbering, Sealed
  <2>2. chunks[m] \notin {t, r[1]} \/ ~Empty(chunks[m], dead, counts)
    BY SMTT(30), <2>1, <1>13
  <2>3. CASE chunks[m] \notin {t, r[1]}
    <3>1. chunks[m] \in Chunks
      BY <2>1, <1>2, ConstantsType DEF Chunks
    <3>2. counts[chunks[m]] = cells[chunks[m]]
      BY <3>1, <2>3, <1>2
    <3>3. (\A x \in dead : x[1] # chunks[m]) => \A x \in live : x[1] # chunks[m]
      BY <2>3
    <3> QED
      BY <3>2, <3>3, <2>1, <1>1 DEF Empty
  <2> QED
    BY <2>2, <2>3, <1>1
<1>14. S \in SUBSET Numbers
  OBVIOUS
<1>15. cells' = LetGo(r)
  BY SMTT(30), <1>1 DEF LetGo
<1>16. Lost(r, S)
  <2> HIDE DEF S
  <2> QED
    BY <1>1, <1>9, <1>11, <1>12, <1>13, <1>14, <1>15 DEF Lost
<1> QED
  BY <1>14, <1>16

-----------------------------------------------------------------------------
(* A new chunk.                                                            *)

Work(d) == {a \in Addresses : d[a] # Nil}

\* Work dropped at some addresses is no longer counted.
LEMMA WorkDropped ==
  ASSUME NEW d, NEW A \in SUBSET Addresses
  PROVE  Cardinality(Work([a \in Addresses |-> IF a \in A THEN Nil ELSE d[a]]))
           = Cardinality(Work(d)) - Cardinality({a \in A : d[a] # Nil})
<1> DEFINE e == [a \in Addresses |-> IF a \in A THEN Nil ELSE d[a]]
           D == Work(d)
           G == {a \in A : d[a] # Nil}
<1>1. Work(e) = D \ G /\ D \cap G = G
  BY DEF Work
<1>2. D \in SUBSET Addresses
  BY DEF Work
<1>3. IsFiniteSet(D)
  BY <1>2, FiniteTables
<1> HIDE DEF D, G, e
<1>4. Cardinality(D \ G) = Cardinality(D) - Cardinality(D \cap G)
  BY <1>3, FS_Difference
<1>5. Cardinality(Work(e)) = Cardinality(D) - Cardinality(G)
  BY <1>1, <1>4
<1> QED
  BY <1>5 DEF D, G, e

\* What was made before keeps its number and its form.
LEMMA TookMakes ==
  ASSUME IInv, NEW f \in Forms, NEW large \in BOOLEAN, NEW n, NEW S, Took(f, large, n, S)
  PROVE  /\ made \in Nat /\ made + 1 \in Chunks /\ made' = made + 1 /\ 1..made \subseteq Chunks
         /\ number'[made + 1] = n /\ form'[made + 1] = f /\ chunks'[n] = made + 1
         /\ \A g \in Chunks : g # made + 1 => number'[g] = number[g] /\ form'[g] = form[g]
         /\ \A m \in Numbers : m # n => chunks'[m] = IF m \in S THEN 0 ELSE chunks[m]
         /\ \A g \in 1..made : g # made + 1
<1>1. made \in 0..MaxMade /\ made < MaxMade /\ number \in [Chunks -> 0..MaxNumbers] /\ form \in [Chunks -> Forms]
      /\ n \in Numbers
  BY DEF Took, IInv, TypeOK
<1>2. made \in Nat /\ made + 1 \in Chunks /\ 1..made \subseteq Chunks /\ \A g \in 1..made : g # made + 1
  BY <1>1, ConstantsType DEF Chunks
<1> QED
  BY <1>1, <1>2 DEF Took

LEMMA TookNumbering ==
  ASSUME IInv, NEW f \in Forms, NEW large \in BOOLEAN, NEW n, NEW S, Took(f, large, n, S)
  PROVE  Numbering'
<1>0. Took(f, large, n, S) /\ n \in Numbers /\ S \subseteq Numbers /\ Numbering
  BY DEF Took, IInv
<1>1. /\ taken \in 0..MaxNumbers /\ taken' \in 0..MaxNumbers /\ taken <= taken' /\ n <= taken'
      /\ chunks \in [Numbers -> 0..made] /\ views \in [Numbers -> 0..made] /\ open \in [Forms -> 0..MaxNumbers]
  BY <1>0 DEF Took, IInv, TypeOK
<1>2. \A m \in Numbers : chunks'[m] # 0 => m <= taken' /\ chunks'[m] \in 1..made' /\ number'[chunks'[m]] = m
  <2> SUFFICES ASSUME NEW m \in Numbers, chunks'[m] # 0
               PROVE  m <= taken' /\ chunks'[m] \in 1..made' /\ number'[chunks'[m]] = m
    OBVIOUS
  <2>1. CASE m = n
    BY <2>1, <1>1, TookMakes
  <2>2. CASE m # n
    <3>1. chunks'[m] = chunks[m] /\ chunks[m] # 0
      BY <2>2, TookMakes
    <3>2. m <= taken /\ chunks[m] \in 1..made /\ number[chunks[m]] = m
      BY <3>1, <1>0 DEF Numbering
    <3> QED
      BY <3>1, <3>2, <1>1, TookMakes DEF Numbers
  <2> QED
    BY <2>1, <2>2
<1>3. \A m \in Numbers : views'[m] # 0 => views'[m] \in 1..made' /\ number'[views'[m]] = m
  <2> SUFFICES ASSUME NEW m \in Numbers, views'[m] # 0
               PROVE  views'[m] \in 1..made' /\ number'[views'[m]] = m
    OBVIOUS
  <2>1. views'[m] = IF m = n THEN made + 1 ELSE IF m \in unreported \cup S THEN 0 ELSE views[m]
    BY <1>0 DEF Took, Viewed
  <2>2. CASE m = n
    BY <2>1, <2>2, TookMakes
  <2>3. CASE m # n
    <3>1. views'[m] = views[m] /\ views[m] # 0
      BY <2>1, <2>3
    <3>2. views[m] \in 1..made /\ number[views[m]] = m
      BY <3>1, <1>0 DEF Numbering
    <3> QED
      BY <3>1, <3>2, TookMakes
  <2> QED
    BY <2>2, <2>3
<1>4. \A g \in 1..made' : number'[g] \in 1..taken'
  <2> SUFFICES ASSUME NEW g \in 1..made' PROVE number'[g] \in 1..taken'
    OBVIOUS
  <2>1. g = made + 1 \/ g \in 1..made
    BY TookMakes
  <2>2. CASE g = made + 1
    BY <2>2, <1>0, <1>1, TookMakes DEF Numbers
  <2>3. CASE g \in 1..made
    <3>1. number'[g] = number[g] /\ number[g] \in 1..taken
      BY <2>3, <1>0, TookMakes DEF Numbering
    <3> QED
      BY <3>1, <1>1
  <2> QED
    BY <2>1, <2>2, <2>3
<1>5. \A f2 \in Forms : open'[f2] # 0 => chunks'[open'[f2]] # 0 /\ form'[chunks'[open'[f2]]] = f2
  <2> SUFFICES ASSUME NEW f2 \in Forms, open'[f2] # 0
               PROVE  chunks'[open'[f2]] # 0 /\ form'[chunks'[open'[f2]]] = f2
    OBVIOUS
  <2>1. open' = IF large THEN open ELSE [open EXCEPT ![f] = n]
    BY <1>0 DEF Took
  <2>2. CASE ~large /\ f2 = f
    <3>1. open'[f2] = n
      BY <2>1, <2>2, <1>1
    <3> QED
      BY <3>1, <2>2, TookMakes
  <2>3. CASE large \/ f2 # f
    <3> DEFINE m == open[f2]
    <3>1. open'[f2] = m
      BY <2>1, <2>3, <1>1
    <3>2. m \in Numbers /\ chunks[m] # 0 /\ form[chunks[m]] = f2 /\ chunks[m] \in 1..made
      <4>1. m \in Numbers
        BY <3>1, <1>1, ConstantsType DEF Numbers
      <4> QED
        BY <4>1, <3>1, <1>0 DEF Numbering
    <3>3. m # n
      BY <3>2, <1>0 DEF Took
    <3>4. m \notin S
      <4> SUFFICES ASSUME m \in S PROVE FALSE
        OBVIOUS
      <4>1. ~large /\ m = open[f] /\ f2 # f
        BY <2>3, <1>0 DEF Took
      <4>2. form[chunks[m]] = f
        BY <4>1, <3>1, <1>0 DEF Numbering
      <4> QED
        BY <4>1, <4>2, <3>2
    <3>5. chunks'[m] = chunks[m]
      BY <3>2, <3>3, <3>4, TookMakes
    <3> QED
      BY <3>1, <3>2, <3>5, TookMakes
  <2> QED
    BY <2>2, <2>3
<1>6. detached' \subseteq 1..made'
  <2>1. detached' = detached \cup {chunks[m] : m \in S} /\ detached \subseteq 1..made
    BY <1>0 DEF Took, Numbering
  <2>2. \A m \in S : chunks[m] \in 1..made
    BY <1>0 DEF Took, Numbering
  <2>3. 1..made \subseteq 1..made'
    BY TookMakes
  <2> QED
    BY <2>1, <2>2, <2>3
<1> QED
  BY <1>2, <1>3, <1>4, <1>5, <1>6 DEF Numbering

LEMMA TookViews ==
  ASSUME IInv, NEW f \in Forms, NEW large \in BOOLEAN, NEW n, NEW S, Took(f, large, n, S)
  PROVE  Views'
<1>0. Took(f, large, n, S) /\ n \in Numbers /\ S \subseteq Numbers /\ Numbering /\ Views
  BY DEF Took, IInv
<1>1. /\ unreported' = {} /\ detached' = detached \cup {chunks[m] : m \in S}
      /\ \A m \in Numbers : views'[m] = IF m = n THEN made + 1 ELSE IF m \in unreported \cup S THEN 0 ELSE views[m]
  BY <1>0 DEF Took, Viewed
<1>2. made + 1 \notin detached'
  <2>1. \A m \in S : chunks[m] \in 1..made
    BY <1>0 DEF Took, Numbering
  <2> QED
    BY <2>1, <1>0, <1>1, TookMakes DEF Numbering
<1>3. ASSUME NEW m \in Numbers
      PROVE  IF Has(m)' THEN chunks'[m] = views'[m] ELSE chunks'[m] = 0 /\ (views'[m] # 0 => m \in unreported')
  <2>1. CASE m = n
    <3>1. views'[m] = made + 1 /\ chunks'[m] = made + 1 /\ made + 1 # 0
      BY <2>1, <1>1, TookMakes
    <3>2. Has(m)'
      BY <3>1, <1>2 DEF Has
    <3> QED
      BY <3>1, <3>2
  <2>2. CASE m # n /\ m \in unreported \cup S
    <3>1. views'[m] = 0 /\ ~Has(m)'
      BY <2>2, <1>1 DEF Has
    <3>2. chunks'[m] = 0
      BY <2>2, <1>0, TookMakes DEF Views
    <3> QED
      BY <3>1, <3>2
  <2>3. CASE m # n /\ m \notin unreported \cup S
    <3>1. views'[m] = views[m] /\ chunks'[m] = chunks[m]
      BY <2>3, <1>1, TookMakes
    <3>2. IF Has(m) THEN chunks[m] = views[m] ELSE chunks[m] = 0 /\ views[m] = 0
      BY <2>3, <1>0 DEF Views, ViewsCurrent
    <3>3. CASE Has(m)
      <4>1. \A k \in S : chunks[k] # chunks[m]
        <5> SUFFICES ASSUME NEW k \in S, chunks[k] = chunks[m] PROVE FALSE
          OBVIOUS
        <5>1. chunks[k] # 0 /\ k \in Numbers
          BY <1>0 DEF Took
        <5>2. number[chunks[k]] = k /\ number[chunks[m]] = m
          BY <5>1, <1>0 DEF Numbering
        <5> QED
          BY <5>2, <2>3
      <4>2. views[m] # 0 /\ views[m] \notin detached
        BY <3>3 DEF Has
      <4>3. views[m] \notin detached'
        BY <4>1, <4>2, <3>2, <3>3, <1>1
      <4>4. Has(m)'
        BY <4>2, <4>3, <3>1 DEF Has
      <4> QED
        BY <4>4, <3>1, <3>2, <3>3
    <3>4. CASE ~Has(m)
      <4>1. ~Has(m)'
        BY <3>1, <3>2, <3>4 DEF Has
      <4> QED
        BY <4>1, <3>1, <3>2, <3>4
    <3> QED
      BY <3>3, <3>4
  <2> QED
    BY <2>1, <2>2, <2>3
<1> QED
  BY <1>1, <1>3 DEF Views, ViewsCurrent

LEMMA TookTables ==
  ASSUME IInv, NEW f \in Forms, NEW large \in BOOLEAN, NEW n, NEW S, Took(f, large, n, S), rows' = rows
  PROVE  Tables' /\ sided' \subseteq Addresses /\ deferred' \in [Addresses -> Records \cup {Nil}]
<1> DEFINE ns == unreported \cup S
<1>0. Took(f, large, n, S) /\ Tables /\ n \in Numbers /\ Sweep(ns)
  BY DEF Took, IInv
<1>1. \A m \in Numbers : m \notin ns /\ views[m] # 0 => views'[m] = views[m]
  BY <1>0 DEF Took, Viewed
<1>2. /\ sided \subseteq Addresses /\ deferred \in [Addresses -> Records \cup {Nil}] /\ waiting \in Nat
  BY DEF IInv, TypeOK
<1>3. ASSUME NEW a \in sided' PROVE views'[a[1]] # 0 /\ rows'[a] \in {<<views'[a[1]], a[2]>>, Nil}
  <2>1. a \in sided /\ a[1] \notin ns
    BY <1>0 DEF Sweep
  <2>2. a[1] \in Numbers
    BY <2>1, <1>2, PairTypes
  <2> QED
    BY <2>1, <2>2, <1>0, <1>1 DEF Tables
<1>4. ASSUME NEW a \in Addresses, deferred'[a] # Nil
      PROVE  views'[a[1]] # 0 /\ deferred'[a] = <<views'[a[1]], a[2]>>
  <2>1. deferred'[a] = deferred[a] /\ a[1] \notin ns
    BY <1>0, <1>4 DEF Sweep
  <2>2. a[1] \in Numbers
    BY PairTypes
  <2> QED
    BY <2>1, <2>2, <1>0, <1>1, <1>4 DEF Tables
<1>5. waiting' = Cardinality({a \in Addresses : deferred'[a] # Nil})
  <2> DEFINE A == {a \in Addresses : a[1] \in ns}
  <2>1. /\ deferred' = [a \in Addresses |-> IF a[1] \in ns THEN Nil ELSE deferred[a]]
        /\ waiting' = waiting - Cardinality({a \in Addresses : a[1] \in ns /\ deferred[a] # Nil})
    BY <1>0 DEF Sweep
  <2>2. deferred' = [a \in Addresses |-> IF a \in A THEN Nil ELSE deferred[a]]
    BY <2>1
  <2>3. {a \in Addresses : a[1] \in ns /\ deferred[a] # Nil} = {a \in A : deferred[a] # Nil}
    OBVIOUS
  <2>4. A \in SUBSET Addresses
    OBVIOUS
  <2> HIDE DEF A
  <2>5. Cardinality(Work(deferred')) = Cardinality(Work(deferred)) - Cardinality({a \in A : deferred[a] # Nil})
    BY <2>2, <2>4, WorkDropped
  <2> QED
    BY <2>1, <2>3, <2>5, <1>0 DEF Work, Tables
<1>6. sided' \subseteq Addresses /\ deferred' \in [Addresses -> Records \cup {Nil}]
  BY <1>0, <1>2 DEF Sweep
<1> QED
  BY <1>3, <1>4, <1>5, <1>6 DEF Tables

\* A sealed chunk still there is not empty, but for the one just made.
LEMMA TookSealed ==
  ASSUME IInv, NEW f \in Forms, NEW large \in BOOLEAN, NEW n, NEW S, Took(f, large, n, S),
         NEW m \in Numbers \ Range(open'), m # n, chunks'[m] # 0
  PROVE  chunks'[m] = chunks[m] /\ chunks[m] \in 1..made /\ ~Empty(chunks[m], live, cells)
<1>0. /\ Took(f, large, n, S) /\ Numbering /\ Sealed /\ open \in [Forms -> 0..MaxNumbers]
      /\ n \in Numbers
  BY DEF Took, IInv, TypeOK
<1>1. m \in Numbers /\ m \notin S /\ chunks'[m] = chunks[m] /\ chunks[m] # 0
  BY TookMakes
<1>2. chunks[m] \in 1..made
  BY <1>0, <1>1 DEF Numbering
<1>3. open' = IF large THEN open ELSE [open EXCEPT ![f] = n]
  BY <1>0 DEF Took
<1>4. CASE m \notin Range(open)
  BY <1>4, <1>0, <1>1, <1>2 DEF Sealed
<1>5. CASE m \in Range(open)
  <2>1. PICK f2 \in Forms : open[f2] = m
    BY <1>5, <1>0 DEF Range
  <2>2. f2 = f /\ ~large
    <3> SUFFICES ASSUME large \/ f2 # f PROVE FALSE
      OBVIOUS
    <3>1. open'[f2] = m /\ f2 \in DOMAIN open'
      BY <2>1, <1>0, <1>3
    <3> QED
      BY <3>1 DEF Range
  <2>3. m # 0
    BY <1>1, ConstantsType DEF Numbers
  <2>4. ~Empty(chunks[m], live, cells)
    BY <2>1, <2>2, <2>3, <1>0, <1>1 DEF Took
  <2> QED
    BY <2>4, <1>1, <1>2
<1> QED
  BY <1>4, <1>5

-----------------------------------------------------------------------------
(* A release.                                                              *)

\* What a release of r may leave alone, whoever released it.
Elsewhere == UNCHANGED <<numbers, views, used, leafIn, textIn, leaves, tables, given>>

LEMMA LostNumbering ==
  ASSUME IInv, NEW r \in live, NEW S, Lost(r, S), Elsewhere
  PROVE  Queue' /\ Numbering' /\ Views' /\ Tables' /\ Sealed'
<1>0. /\ Lost(r, S) /\ S \subseteq Numbers /\ Numbering /\ Views /\ Tables
      /\ UNCHANGED <<made, number, form, taken, open, views, sided, deferred, waiting>>
      /\ \A m \in Numbers : chunks'[m] = IF m \in S THEN 0 ELSE chunks[m]
  BY DEF Lost, IInv, Elsewhere, numbers, tables
<1>1. Queue'
  BY <1>0 DEF Lost, Queue
<1>2. \A m \in S : chunks[m] \in 1..made /\ number[chunks[m]] = m /\ m \notin Range(open)
  BY <1>0 DEF Lost, Numbering
<1>3. Numbering'
  <2>1. \A m \in Numbers : chunks'[m] # 0 => m <= taken' /\ chunks'[m] \in 1..made' /\ number'[chunks'[m]] = m
    BY <1>0 DEF Numbering
  <2>2. \A f \in Forms : open'[f] # 0 => chunks'[open'[f]] # 0 /\ form'[chunks'[open'[f]]] = f
    <3> SUFFICES ASSUME NEW f \in Forms, open[f] # 0
                 PROVE  chunks'[open[f]] # 0 /\ form[chunks'[open[f]]] = f
      BY <1>0
    <3>1. open \in [Forms -> 0..MaxNumbers]
      BY DEF IInv, TypeOK
    <3>2. open[f] \in Numbers /\ open[f] \in Range(open)
      BY <3>1, ConstantsType DEF Numbers, Range
    <3> QED
      BY <3>2, <1>0, <1>2 DEF Numbering
  <2>3. detached' \subseteq 1..made'
    <3>1. detached' = detached \cup {chunks[m] : m \in S} /\ detached \subseteq 1..made
      BY <1>0 DEF Lost, Numbering
    <3> QED
      BY <3>1, <1>0, <1>2
  <2> QED
    BY <2>1, <2>2, <2>3, <1>0 DEF Numbering
<1>4. ASSUME NEW m \in Numbers
      PROVE  IF Has(m)' THEN chunks'[m] = views'[m] ELSE chunks'[m] = 0 /\ (views'[m] # 0 => m \in unreported')
  <2>1. IF Has(m) THEN chunks[m] = views[m] ELSE chunks[m] = 0 /\ (views[m] # 0 => m \in unreported)
    BY <1>0 DEF Views, ViewsCurrent
  <2>2. detached' = detached \cup {chunks[k] : k \in S} /\ unreported' = unreported \cup S
    BY <1>0 DEF Lost
  <2>3. CASE m \in S
    <3>1. chunks[m] # 0
      BY <2>3, <1>2
    <3>2. Has(m) /\ chunks[m] = views[m]
      BY <2>1, <3>1
    <3>3. ~Has(m)'
      BY <2>2, <2>3, <3>2, <1>0 DEF Has
    <3> QED
      BY <3>3, <2>2, <2>3, <1>0
  <2>4. CASE m \notin S
    <3>1. chunks'[m] = chunks[m] /\ views'[m] = views[m]
      BY <2>4, <1>0
    <3>2. CASE Has(m)
      <4>1. views[m] # 0 /\ views[m] \notin detached /\ chunks[m] = views[m]
        BY <3>2, <2>1 DEF Has
      <4>2. \A k \in S : chunks[k] # chunks[m]
        <5> SUFFICES ASSUME NEW k \in S, chunks[k] = chunks[m] PROVE FALSE
          OBVIOUS
        <5>1. number[chunks[k]] = k /\ number[chunks[m]] = m
          BY <1>0, <1>2, <4>1 DEF Numbering
        <5> QED
          BY <5>1, <2>4
      <4>3. Has(m)'
        BY <4>1, <4>2, <2>2, <3>1 DEF Has
      <4> QED
        BY <4>1, <4>3, <3>1
    <3>3. CASE ~Has(m)
      <4>1. ~Has(m)'
        BY <3>3, <3>1, <2>2 DEF Has
      <4> QED
        BY <4>1, <3>1, <3>3, <2>1, <2>2
    <3> QED
      BY <3>2, <3>3
  <2> QED
    BY <2>3, <2>4
<1>5. \A m \in unreported' : chunks'[m] = 0
  <2>1. unreported \subseteq Numbers
    BY DEF IInv, TypeOK
  <2> QED
    BY <2>1, <1>0 DEF Lost, Views
<1>6. Tables'
  <2>1. rows' = [rows EXCEPT ![Address(r)] = Nil] /\ rows \in [Addresses -> Records \cup {Nil}] /\ sided \subseteq Addresses
    BY <1>0 DEF Lost, IInv, TypeOK
  <2>2. \A a \in sided : rows'[a] \in {rows[a], Nil}
    BY <2>1
  <2> QED
    BY <2>2, <1>0 DEF Tables
<1>7. Sealed'
  <2> SUFFICES ASSUME NEW m \in Numbers \ Range(open), chunks'[m] # 0
               PROVE  ~Empty(chunks[m], live, cells)' /\ chunks'[m] = chunks[m]
    BY <1>0 DEF Sealed
  <2>1. m \notin S /\ chunks[m] # 0 /\ chunks'[m] = chunks[m]
    BY <1>0
  <2>2. ~Empty(chunks[m], live', cells')
    BY <2>1, <1>0 DEF Lost
  <2> QED
    BY <2>1, <2>2, <1>0 DEF Empty
<1> QED
  BY <1>1, <1>3, <1>4, <1>5, <1>6, <1>7 DEF Views, ViewsCurrent

LEMMA LostCounts ==
  ASSUME IInv, NEW r \in live, NEW S, Lost(r, S), textIn' = textIn
  PROVE  /\ cells' \in [Chunks -> Nat]
         /\ \A g \in Chunks : cells'[g] = Cardinality({x \in live' : textIn'[x] = g})
         /\ \A g \in Chunks : cells'[g] <= cells[g]
<1> DEFINE t == textIn[r]
           Of(g) == {x \in live : textIn[x] = g}
<1>0. /\ cells \in [Chunks -> Nat] /\ live \subseteq Records /\ live' = live \ {r} /\ cells' = LetGo(r)
      /\ \A g \in Chunks : cells[g] = Cardinality(Of(g))
  BY DEF Lost, IInv, TypeOK, Texts, TextsHeld
<1>1. t # 0 => t \in Chunks /\ cells[t] \in Nat \ {0}
  BY TextCounted
<1>2. cells' \in [Chunks -> Nat] /\ \A g \in Chunks : cells'[g] = IF g = t /\ t # 0 THEN cells[g] - 1 ELSE cells[g]
  BY <1>0, <1>1 DEF LetGo
<1>3. ASSUME NEW g \in Chunks PROVE cells'[g] = Cardinality({x \in live' : textIn'[x] = g})
  <2>1. g # 0 /\ {x \in live' : textIn'[x] = g} = Of(g) \ {r} /\ (r \in Of(g) <=> g = t)
    BY <1>0, ConstantsType DEF Chunks
  <2>2. IsFiniteSet(Of(g))
    <3>1. Of(g) \in SUBSET Records
      BY <1>0
    <3> QED
      BY <3>1, FiniteTables
  <2> HIDE DEF Of, t
  <2>3. Cardinality(Of(g) \ {r}) = IF r \in Of(g) THEN Cardinality(Of(g)) - 1 ELSE Cardinality(Of(g))
    BY <2>2, FS_RemoveElement
  <2> QED
    BY <2>1, <2>3, <1>0, <1>2
<1> QED
  BY <1>0, <1>2, <1>3

LEMMA ReleaseKeeps ==
  ASSUME IInv, NEW r \in live, NativeRelease(r), Elsewhere, draft' = Nil, prune' = prune
  PROVE  IInv'
<1>1. PICK S \in SUBSET Numbers : Lost(r, S)
  BY ReleaseLost
<1>2. Queue' /\ Numbering' /\ Views' /\ Tables' /\ Sealed'
  BY <1>1, LostNumbering
<1>3. /\ cells' \in [Chunks -> Nat]
      /\ \A g \in Chunks : cells'[g] = Cardinality({x \in live' : textIn'[x] = g})
      /\ \A g \in Chunks : cells'[g] <= cells[g]
  BY <1>1, LostCounts DEF Elsewhere
<1>4. /\ UNCHANGED <<made, number, form, taken, open, views, used, leafIn, textIn, texts, entry, sites, pruneSites>>
      /\ UNCHANGED <<sided, deferred, waiting, given>>
      /\ live' = live \ {r} /\ live \subseteq Records /\ 1..made \subseteq Chunks
      /\ \A m \in Numbers : chunks'[m] = IF m \in S THEN 0 ELSE chunks[m]
      /\ \A m \in S : Empty(chunks[m], live', cells')
  <2>1. made \in 0..MaxMade /\ live \subseteq Records
    BY DEF IInv, TypeOK
  <2>2. 1..made \subseteq Chunks
    BY <2>1, ConstantsType DEF Chunks
  <2> QED
    BY <2>1, <2>2, <1>1 DEF Lost, Elsewhere, numbers, leaves, tables
<1>5. TypeOK'
  <2>1. chunks' \in [Numbers -> 0..made'] /\ free' \in Seq(Numbers) /\ unreported' \subseteq Numbers
    BY <1>1, <1>4 DEF Lost, IInv, TypeOK
  <2>2. detached' \subseteq Chunks
    BY <1>2, <1>4 DEF Numbering
  <2>3. live' \subseteq Records /\ rows' \in [Addresses -> Records \cup {Nil}]
    BY <1>1 DEF Lost, IInv, TypeOK
  <2> QED
    BY <2>1, <2>2, <2>3, <1>3, <1>4 DEF IInv, TypeOK
<1>6. Written'
  <2>1. \A x \in live' : chunks'[number'[x[1]]] = x[1]
    <3> SUFFICES ASSUME NEW x \in live' PROVE chunks'[number[x[1]]] = x[1]
      BY <1>4
    <3>1. x \in live /\ x[1] \in 1..made /\ form[x[1]] = "words" /\ chunks[number[x[1]]] = x[1]
      BY <1>4 DEF IInv, Written
    <3>2. ~Empty(x[1], live', cells')
      BY <3>1 DEF Empty
    <3>3. number[x[1]] \in 1..taken /\ taken \in 0..MaxNumbers
      BY <3>1 DEF IInv, Numbering, TypeOK
    <3>4. number[x[1]] \in Numbers
      BY <3>3, ConstantsType DEF Numbers
    <3> QED
      BY <3>1, <3>2, <3>4, <1>4
  <2>2. \A g \in Chunks : g > made => cells'[g] = 0
    <3>1. cells \in [Chunks -> Nat] /\ \A g \in Chunks : g > made => cells[g] = 0
      BY DEF IInv, Written, TypeOK
    <3> QED
      BY <3>1, <1>3
  <2> QED
    BY <2>1, <2>2, <1>4, draft' = Nil DEF IInv, Written
<1>7. Texts'
  <2>1. ASSUME NEW x \in live', textIn'[x] # 0
        PROVE  /\ leafIn'[x] \in texts'[textIn'[x]] /\ chunks'[number'[textIn'[x]]] = textIn'[x]
               /\ form'[textIn'[x]] = "bytes" /\ textIn'[x] \in 1..made'
    <3> DEFINE t == textIn[x]
               cs == {y \in live' : textIn[y] = t}
    <3>1. x \in live /\ t # 0 /\ leafIn[x] \in texts[t]
      BY <2>1, <1>4 DEF IInv, Texts, TextsHeld
    <3>2. t \in 1..made /\ t \in Chunks /\ form[t] = "bytes" /\ chunks[number[t]] = t /\ number[t] \in Numbers
      BY <3>1, TextCounted
    <3>3. cells'[t] # 0
      <4>1. cs \in SUBSET Records /\ cs # {} /\ cells'[t] = Cardinality(cs)
        BY <3>2, <1>3, <1>4
      <4>2. IsFiniteSet(cs)
        BY <4>1, FiniteTables
      <4> QED
        BY <4>1, <4>2, FS_EmptySet
    <3>4. ~Empty(t, live', cells')
      BY <3>2, <3>3 DEF Empty
    <3>5. number[t] \notin S
      BY <3>2, <3>4, <1>4
    <3> QED
      BY <3>1, <3>2, <3>5, <1>4
  <2>2. \A l \in Leaves : entry'[l] # 0 => entry'[l] \in 1..made' /\ form'[entry'[l]] = "bytes" /\ l \in texts'[entry'[l]]
    BY <1>4 DEF IInv, Texts
  <2> QED
    BY <2>1, <2>2, <1>3 DEF Texts, TextsHeld
<1> QED
  BY <1>2, <1>5, <1>6, <1>7 DEF IInv

-----------------------------------------------------------------------------
(* A build.                                                                *)

LEMMA SameNumbers ==
  ASSUME IInv, UNCHANGED <<numbers, freeing, views>>
  PROVE  /\ Queue' /\ Numbering' /\ Views'
         /\ UNCHANGED <<made, number, form, taken, open, chunks, free, unreported, detached, views>>
BY DEF IInv, numbers, freeing, Queue, Numbering, Views, ViewsCurrent, Has

\* A record without a leaf counts for no text.
LEMMA PlacedCounts ==
  ASSUME IInv, NEW r \in Records, textIn[r] = 0, live' = live \cup {r}, UNCHANGED <<textIn, cells>>
  PROVE  \A g \in Chunks : cells'[g] = Cardinality({x \in live' : textIn'[x] = g})
<1> SUFFICES ASSUME NEW g \in Chunks PROVE cells'[g] = Cardinality({x \in live' : textIn'[x] = g})
  OBVIOUS
<1>1. g # 0 /\ {x \in live' : textIn'[x] = g} = {x \in live : textIn[x] = g}
  BY ConstantsType DEF Chunks
<1> QED
  BY <1>1 DEF IInv, Texts, TextsHeld

LEMMA DraftKeeps == ASSUME IInv, Draft PROVE IInv'
<1> DEFINE g == chunks[open["words"]]
           r == <<g, used[g] + 1>>
<1>1. /\ used' = [used EXCEPT ![g] = @ + 1] /\ live' = live \cup {r} /\ draft' = r
      /\ UNCHANGED <<cells, leafIn, textIn, texts, entry, sites, pruneSites, rows, prune, given>>
      /\ UNCHANGED <<numbers, freeing, views, sided, deferred, waiting>>
      /\ open["words"] # 0 /\ used[g] < Room
  BY DEF Draft, Place, HasRoom, leaves, tables
<1>2. /\ made \in 0..MaxMade /\ taken \in 0..MaxNumbers /\ open \in [Forms -> 0..MaxNumbers]
      /\ used \in [Chunks -> 0..Room] /\ live \subseteq Records /\ chunks \in [Numbers -> 0..made]
      /\ "words" \in Forms
  BY DEF IInv, TypeOK, Forms
<1>3. /\ open["words"] \in Numbers /\ g \in 1..made /\ g \in Chunks /\ form[g] = "words" /\ number[g] = open["words"]
  <2>1. open["words"] \in Numbers /\ g # 0 /\ form[g] = "words"
    BY <1>1, <1>2, ConstantsType DEF Numbers, IInv, Numbering
  <2>2. g \in 1..made /\ number[g] = open["words"]
    BY <2>1 DEF IInv, Numbering
  <2> QED
    BY <2>1, <2>2, <1>2, ConstantsType DEF Chunks
<1>4. r \in Records /\ r[1] = g /\ r[2] = used[g] + 1
  BY <1>1, <1>2, <1>3, ConstantsType DEF Records
<1>5. leafIn[r] = Nil /\ textIn[r] = 0
  <2>1. r[2] > used[r[1]]
    BY <1>2, <1>3, <1>4
  <2> QED
    BY <2>1, <1>4 DEF IInv, Written
<1> HIDE DEF r
<1>6. \A x \in Chunks : used[x] <= used'[x] /\ used'[x] \in 0..Room /\ (x # g => used'[x] = used[x])
  BY <1>1, <1>2, <1>3, ConstantsType
<1>7. used' \in [Chunks -> 0..Room] /\ used'[g] = used[g] + 1
  BY <1>1, <1>2, <1>3, ConstantsType
<1>8. Queue' /\ Numbering' /\ Views' /\ UNCHANGED <<made, number, form, taken, open, chunks, free, unreported, detached, views>>
  BY <1>1, SameNumbers
<1>9. TypeOK'
  <2>1. live' \subseteq Records /\ draft' \in Records \cup {Nil}
    BY <1>1, <1>2, <1>4
  <2> QED
    BY <2>1, <1>1, <1>7, <1>8 DEF IInv, TypeOK
<1>10. Tables'
  BY <1>1, <1>8 DEF IInv, Tables
<1>11. Written'
  <2>1. \A x \in Chunks : x > made' => used'[x] = 0 /\ cells'[x] = 0
    BY <1>1, <1>2, <1>3, <1>6, <1>8, ConstantsType DEF IInv, Written, Chunks
  <2>2. ASSUME NEW x \in live'
        PROVE  x[1] \in 1..made' /\ form'[x[1]] = "words" /\ chunks'[number'[x[1]]] = x[1] /\ x[2] <= used'[x[1]]
    <3>1. CASE x = r
      BY <3>1, <1>2, <1>3, <1>4, <1>7, <1>8, ConstantsType
    <3>2. CASE x \in live
      <4>1. x[1] \in 1..made /\ form[x[1]] = "words" /\ chunks[number[x[1]]] = x[1] /\ x[2] <= used[x[1]]
        BY <3>2 DEF IInv, Written
      <4>2. x[1] \in Chunks /\ x[2] \in 1..Room
        BY <3>2, <1>2, PairTypes
      <4> QED
        BY <4>1, <4>2, <1>2, <1>6, <1>8, ConstantsType
    <3> QED
      BY <3>1, <3>2, <1>1
  <2>3. ASSUME NEW x \in Records, x[2] > used'[x[1]] PROVE leafIn'[x] = Nil
    <3>1. x[1] \in Chunks /\ x[2] \in 1..Room
      BY PairTypes
    <3>2. x[2] > used[x[1]]
      BY <3>1, <2>3, <1>2, <1>6, ConstantsType
    <3> QED
      BY <3>2, <1>1 DEF IInv, Written
  <2> QED
    BY <2>1, <2>2, <2>3, <1>1, <1>8 DEF IInv, Written
<1>12. Texts'
  <2>1. \A x \in Chunks : cells'[x] = Cardinality({y \in live' : textIn'[y] = x})
    BY <1>1, <1>4, <1>5, PlacedCounts
  <2>2. \A x \in live' : textIn'[x] # 0 => x \in live
    BY <1>1, <1>5
  <2> QED
    BY <2>1, <2>2, <1>1, <1>8 DEF IInv, Texts, TextsHeld
<1>13. Sealed'
  BY <1>1, <1>8 DEF IInv, Sealed, Empty
<1> QED
  BY <1>8, <1>9, <1>10, <1>11, <1>12, <1>13 DEF IInv

\* What a new chunk leaves as it was: the records and texts that are in the others.
LEMMA TookHeld ==
  ASSUME IInv, NEW f \in Forms, NEW large \in BOOLEAN, NEW n, NEW S, Took(f, large, n, S)
  PROVE  /\ \A x \in live : x[1] \in 1..made' /\ form'[x[1]] = "words" /\ chunks'[number'[x[1]]] = x[1]
         /\ \A x \in live : textIn[x] # 0 => /\ textIn[x] \in 1..made' /\ form'[textIn[x]] = "bytes"
                                             /\ chunks'[number'[textIn[x]]] = textIn[x]
<1>0. Took(f, large, n, S) /\ n \in Numbers /\ chunks[n] = 0
  BY DEF Took
<1>1. ASSUME NEW g \in 1..made, chunks[number[g]] = g, ~Empty(g, live, cells)
      PROVE  g \in 1..made' /\ form'[g] = form[g] /\ chunks'[number'[g]] = g
  <2>1. g \in Chunks /\ g # made + 1 /\ number'[g] = number[g] /\ form'[g] = form[g] /\ g \in 1..made' /\ g # 0
    BY TookMakes
  <2>2. number[g] \in Numbers
    <3>1. number[g] \in 1..taken /\ taken \in 0..MaxNumbers
      BY DEF IInv, Numbering, TypeOK
    <3> QED
      BY <3>1, ConstantsType DEF Numbers
  <2>3. number[g] # n /\ number[g] \notin S
    BY <1>0, <1>1, <2>1 DEF Took
  <2> QED
    BY <2>1, <2>2, <2>3, <1>1, TookMakes
<1>2. ASSUME NEW x \in live
      PROVE  x[1] \in 1..made' /\ form'[x[1]] = "words" /\ chunks'[number'[x[1]]] = x[1]
  <2>1. x[1] \in 1..made /\ form[x[1]] = "words" /\ chunks[number[x[1]]] = x[1]
    BY DEF IInv, Written
  <2>2. ~Empty(x[1], live, cells)
    BY <2>1 DEF Empty
  <2> QED
    BY <2>1, <2>2, <1>1
<1>3. ASSUME NEW x \in live, textIn[x] # 0
      PROVE  /\ textIn[x] \in 1..made' /\ form'[textIn[x]] = "bytes" /\ chunks'[number'[textIn[x]]] = textIn[x]
  <2>1. textIn[x] \in 1..made /\ form[textIn[x]] = "bytes" /\ chunks[number[textIn[x]]] = textIn[x] /\ cells[textIn[x]] # 0
    BY <1>3, TextCounted
  <2>2. ~Empty(textIn[x], live, cells)
    BY <2>1 DEF Empty
  <2> QED
    BY <2>1, <2>2, <1>1
<1> QED
  BY <1>2, <1>3

\* The types of what a new chunk changes.
LEMMA TookTypes ==
  ASSUME IInv, NEW f \in Forms, NEW large \in BOOLEAN, NEW n, NEW S, Took(f, large, n, S), rows' = rows
  PROVE  /\ made' \in 0..MaxMade /\ taken' \in 0..MaxNumbers /\ free' \in Seq(Numbers)
         /\ number' \in [Chunks -> 0..MaxNumbers] /\ form' \in [Chunks -> Forms]
         /\ chunks' \in [Numbers -> 0..made'] /\ views' \in [Numbers -> 0..made']
         /\ open' \in [Forms -> 0..MaxNumbers] /\ unreported' \subseteq Numbers /\ detached' \subseteq Chunks
         /\ sided' \subseteq Addresses /\ deferred' \in [Addresses -> Records \cup {Nil}] /\ waiting' \in Nat
<1>0. Took(f, large, n, S) /\ n \in Numbers /\ S \subseteq Numbers
  BY DEF Took
<1>1. /\ made \in 0..MaxMade /\ number \in [Chunks -> 0..MaxNumbers] /\ form \in [Chunks -> Forms]
      /\ chunks \in [Numbers -> 0..made] /\ views \in [Numbers -> 0..made] /\ open \in [Forms -> 0..MaxNumbers]
  BY DEF IInv, TypeOK
<1>2. made' \in 0..MaxMade /\ made' = made + 1 /\ made < MaxMade
  BY <1>0, <1>1, ConstantsType DEF Took
<1>3. n \in 0..MaxNumbers
  BY <1>0, ConstantsType DEF Numbers
<1>4. taken' \in 0..MaxNumbers /\ free' \in Seq(Numbers) /\ unreported' \subseteq Numbers
  BY <1>0 DEF Took
<1>5. number' \in [Chunks -> 0..MaxNumbers] /\ form' \in [Chunks -> Forms] /\ open' \in [Forms -> 0..MaxNumbers]
  <2>1. number' = [number EXCEPT ![made + 1] = n] /\ form' = [form EXCEPT ![made + 1] = f]
    BY <1>0 DEF Took
  <2>2. open' = IF large THEN open ELSE [open EXCEPT ![f] = n]
    BY <1>0 DEF Took
  <2> QED
    BY <2>1, <2>2, <1>1, <1>3
<1>6. chunks' \in [Numbers -> 0..made']
  BY <1>0, <1>1, <1>2 DEF Took
<1>7. views' \in [Numbers -> 0..made']
  BY <1>0, <1>1, <1>2 DEF Took, Viewed
<1>8. detached' \subseteq Chunks
  <2>1. detached' \subseteq 1..made'
    BY TookNumbering DEF Numbering
  <2> QED
    BY <2>1, <1>2, ConstantsType DEF Chunks
<1>9. Tables' /\ sided' \subseteq Addresses /\ deferred' \in [Addresses -> Records \cup {Nil}]
  BY TookTables
<1>10. waiting' \in Nat
  <2>1. {a \in Addresses : deferred'[a] # Nil} \in SUBSET Addresses
    OBVIOUS
  <2> QED
    BY <2>1, <1>9, FiniteTables DEF Tables
<1> QED
  BY <1>2, <1>4, <1>5, <1>6, <1>7, <1>8, <1>9, <1>10

LEMMA DraftInNewKeeps ==
  ASSUME IInv, NEW large \in BOOLEAN, DraftInNew(large)
  PROVE  IInv'
<1> DEFINE g == made + 1
           r == <<g, 1>>
<1>1. /\ Alloc("words", large)
      /\ used' = [used EXCEPT ![g] = @ + 1] /\ live' = live \cup {r} /\ draft' = r
      /\ UNCHANGED <<cells, leafIn, textIn, texts, entry, sites, pruneSites, rows, prune, given>>
  BY DEF DraftInNew, Place, leaves
<1>2. "words" \in Forms
  BY DEF Forms
<1>3. PICK n \in Numbers, S \in SUBSET Numbers : Took("words", large, n, S)
  BY <1>1, <1>2, AllocTook
<1>4. /\ made \in Nat /\ g \in Chunks /\ made' = g /\ 1..made \subseteq Chunks
      /\ number'[g] = n /\ form'[g] = "words" /\ chunks'[n] = g
      /\ used \in [Chunks -> 0..Room] /\ live \subseteq Records
  BY SMTT(30), <1>2, <1>3, TookMakes DEF IInv, TypeOK
<1>5. used[g] = 0 /\ used' \in [Chunks -> 0..Room] /\ used'[g] = 1 /\ \A x \in Chunks : x # g => used'[x] = used[x]
  <2>1. used[g] = 0
    BY <1>4 DEF IInv, Written
  <2> QED
    BY <2>1, <1>1, <1>4, ConstantsType
<1>6. r \in Records /\ r[1] = g /\ r[2] = 1
  BY <1>4, ConstantsType DEF Records
<1>7. leafIn[r] = Nil /\ textIn[r] = 0
  <2>1. r[2] > used[r[1]]
    BY <1>5, <1>6
  <2> QED
    BY <2>1, <1>6 DEF IInv, Written
<1> HIDE DEF r
<1>8. Queue' /\ Numbering' /\ Views' /\ Tables'
  BY <1>1, <1>2, <1>3, TookNumbering, TookViews, TookTables DEF Took
<1>9. TypeOK'
  <2>1. live' \subseteq Records /\ draft' \in Records \cup {Nil}
    BY <1>1, <1>4, <1>6
  <2>2. /\ made' \in 0..MaxMade /\ taken' \in 0..MaxNumbers /\ free' \in Seq(Numbers)
        /\ number' \in [Chunks -> 0..MaxNumbers] /\ form' \in [Chunks -> Forms]
        /\ chunks' \in [Numbers -> 0..made'] /\ views' \in [Numbers -> 0..made']
        /\ open' \in [Forms -> 0..MaxNumbers] /\ unreported' \subseteq Numbers /\ detached' \subseteq Chunks
        /\ sided' \subseteq Addresses /\ deferred' \in [Addresses -> Records \cup {Nil}] /\ waiting' \in Nat
    BY <1>1, <1>2, <1>3, TookTypes
  <2> QED
    BY <2>1, <2>2, <1>1, <1>5 DEF IInv, TypeOK
<1>10. /\ \A x \in live : x[1] \in 1..made' /\ form'[x[1]] = "words" /\ chunks'[number'[x[1]]] = x[1]
       /\ \A x \in live : textIn[x] # 0 => /\ textIn[x] \in 1..made' /\ form'[textIn[x]] = "bytes"
                                           /\ chunks'[number'[textIn[x]]] = textIn[x]
  BY <1>2, <1>3, TookHeld
<1>11. Written'
  <2>1. \A x \in Chunks : x > made' => used'[x] = 0 /\ cells'[x] = 0
    BY <1>1, <1>4, <1>5 DEF IInv, Written, Chunks
  <2>2. ASSUME NEW x \in live'
        PROVE  x[1] \in 1..made' /\ form'[x[1]] = "words" /\ chunks'[number'[x[1]]] = x[1] /\ x[2] <= used'[x[1]]
    <3>1. CASE x = r
      BY <3>1, <1>4, <1>5, <1>6
    <3>2. CASE x \in live
      <4>1. x[1] \in 1..made /\ x[2] <= used[x[1]] /\ x[1] \in Chunks /\ x[1] # g
        BY <3>2, <1>4 DEF IInv, Written
      <4> QED
        BY <4>1, <3>2, <1>5, <1>10
    <3> QED
      BY <3>1, <3>2, <1>1
  <2>3. ASSUME NEW x \in Records, x[2] > used'[x[1]] PROVE leafIn'[x] = Nil
    <3>1. x[1] \in Chunks /\ x[2] \in 1..Room
      BY PairTypes
    <3>2. x[2] > used[x[1]]
      BY <3>1, <2>3, <1>4, <1>5, ConstantsType
    <3> QED
      BY <3>2, <1>1 DEF IInv, Written
  <2>4. \A x \in given' : x[1] \in 1..made'
    BY <1>1, <1>4 DEF IInv, Written
  <2> QED
    BY <2>1, <2>2, <2>3, <2>4, <1>1 DEF IInv, Written
<1>12. Texts'
  <2>1. \A x \in Chunks : cells'[x] = Cardinality({y \in live' : textIn'[y] = x})
    BY <1>1, <1>6, <1>7, PlacedCounts
  <2>2. \A x \in live' : textIn'[x] # 0 => x \in live
    BY <1>1, <1>7
  <2>3. \A l \in Leaves : entry'[l] # 0 => entry'[l] \in 1..made' /\ form'[entry'[l]] = "bytes" /\ l \in texts'[entry'[l]]
    <3> SUFFICES ASSUME NEW l \in Leaves, entry[l] # 0
                 PROVE  entry[l] \in 1..made' /\ form'[entry[l]] = "bytes" /\ l \in texts[entry[l]]
      BY <1>1
    <3>1. entry[l] \in 1..made /\ form[entry[l]] = "bytes" /\ l \in texts[entry[l]]
      BY DEF IInv, Texts
    <3> QED
      BY <3>1, <1>2, <1>3, <1>4, TookMakes
  <2>4. \A x \in live' : textIn'[x] # 0 => /\ textIn'[x] \in 1..made' /\ form'[textIn'[x]] = "bytes"
                                           /\ leafIn'[x] \in texts'[textIn'[x]]
                                           /\ chunks'[number'[textIn'[x]]] = textIn'[x]
    BY <2>2, <1>1, <1>10 DEF IInv, Texts, TextsHeld
  <2> QED
    BY <2>1, <2>3, <2>4 DEF Texts, TextsHeld
<1>13. Sealed'
  <2> SUFFICES ASSUME NEW m \in Numbers \ Range(open'), chunks'[m] # 0
               PROVE  ~Empty(chunks[m], live, cells)'
    BY DEF Sealed
  <2>1. CASE m = n
    BY <2>1, <1>1, <1>4, <1>6 DEF Empty
  <2>2. CASE m # n
    <3>1. chunks'[m] = chunks[m] /\ chunks[m] \in 1..made /\ ~Empty(chunks[m], live, cells)
      BY <2>2, <1>2, <1>3, TookSealed
    <3>2. form'[chunks[m]] = form[chunks[m]]
      BY <3>1, <1>2, <1>3, <1>4, TookMakes
    <3> QED
      BY <3>1, <3>2, <1>1 DEF Empty
  <2> QED
    BY <2>1, <2>2
<1> QED
  BY <1>8, <1>9, <1>11, <1>12, <1>13 DEF IInv

LEMMA StoredCounts ==
  ASSUME IInv, Filling, NEW l, NEW g \in Chunks, Store(l, g)
  PROVE  /\ cells' \in [Chunks -> Nat]
         /\ \A h \in Chunks : cells[h] <= cells'[h] /\ cells'[h] = Cardinality({x \in live' : textIn'[x] = h})
<1> DEFINE Of(h) == {x \in live : textIn[x] = h}
<1>1. /\ cells' = [cells EXCEPT ![g] = @ + 1] /\ textIn' = [textIn EXCEPT ![draft] = g] /\ live' = live
      /\ cells \in [Chunks -> Nat] /\ textIn \in [Records -> 0..MaxMade] /\ live \subseteq Records
      /\ draft \in live /\ textIn[draft] = 0
      /\ \A h \in Chunks : cells[h] = Cardinality(Of(h))
  BY DEF Store, Filling, UserCode, IInv, TypeOK, Written, Texts, TextsHeld
<1>2. cells' \in [Chunks -> Nat] /\ \A h \in Chunks : cells'[h] = IF h = g THEN cells[h] + 1 ELSE cells[h]
  BY <1>1
<1>3. ASSUME NEW h \in Chunks PROVE cells'[h] = Cardinality({x \in live' : textIn'[x] = h})
  <2>1. h # 0 /\ draft \notin Of(h)
    BY <1>1, ConstantsType DEF Chunks
  <2>2. IsFiniteSet(Of(h))
    <3>1. Of(h) \in SUBSET Records
      BY <1>1
    <3> QED
      BY <3>1, FiniteTables
  <2>3. {x \in live' : textIn'[x] = h} = IF h = g THEN Of(h) \cup {draft} ELSE Of(h)
    BY <1>1, <2>1
  <2> HIDE DEF Of
  <2>4. Cardinality(Of(h) \cup {draft}) = Cardinality(Of(h)) + 1
    BY <2>1, <2>2, FS_AddElement
  <2> QED
    BY <2>3, <2>4, <1>1, <1>2
<1> QED
  BY <1>1, <1>2, <1>3

\* The draft's text is counted in chunk g; everything else stays where it was.
LEMMA StoredHeld ==
  ASSUME IInv, Filling, NEW l \in Leaves, NEW g \in Chunks, Store(l, g), TextLive(l) => entry[l] = g,
         made' \in Nat, made <= made', g \in 1..made', form'[g] = "bytes", chunks'[number'[g]] = g,
         \A x \in live : x[1] \in 1..made' /\ form'[x[1]] = "words" /\ chunks'[number'[x[1]]] = x[1],
         \A x \in live : textIn[x] # 0 => /\ textIn[x] \in 1..made' /\ form'[textIn[x]] = "bytes"
                                          /\ chunks'[number'[textIn[x]]] = textIn[x],
         \A x \in 1..made : form'[x] = form[x]
  PROVE  /\ Written' /\ Texts'
         /\ cells' \in [Chunks -> Nat] /\ leafIn' \in [Records -> Leaves \cup {Nil}]
         /\ textIn' \in [Records -> 0..MaxMade] /\ entry' \in [Leaves -> 0..MaxMade]
         /\ texts' \in [Chunks -> SUBSET Leaves]
         /\ \A h \in Chunks : cells[h] <= cells'[h]
<1>1. /\ cells' = [cells EXCEPT ![g] = @ + 1]
      /\ leafIn' = [leafIn EXCEPT ![draft] = l] /\ textIn' = [textIn EXCEPT ![draft] = g]
      /\ entry' = [entry EXCEPT ![l] = g]
      /\ texts' = [texts EXCEPT ![g] = IF TextLive(l) THEN @ ELSE @ \cup {l}]
      /\ UNCHANGED <<used, live, draft, given>>
  BY DEF Store
<1>2. /\ live \subseteq Records /\ made \in Nat /\ draft \in live /\ draft \in Records
      /\ leafIn \in [Records -> Leaves \cup {Nil}] /\ textIn \in [Records -> 0..MaxMade]
      /\ entry \in [Leaves -> 0..MaxMade] /\ texts \in [Chunks -> SUBSET Leaves] /\ cells \in [Chunks -> Nat]
      /\ used \in [Chunks -> 0..Room]
  <2>1. made \in 0..MaxMade
    BY DEF IInv, TypeOK
  <2> QED
    BY SMTT(30), <2>1, ConstantsType DEF Filling, UserCode, IInv, TypeOK, Written
<1>3. cells' \in [Chunks -> Nat] /\ \A h \in Chunks : cells[h] <= cells'[h] /\ cells'[h] = Cardinality({x \in live' : textIn'[x] = h})
  BY StoredCounts
<1>4. g \in 0..MaxMade /\ g # 0 /\ l # Nil
  BY ConstantsType DEF Chunks
<1>5. /\ leafIn' \in [Records -> Leaves \cup {Nil}] /\ textIn' \in [Records -> 0..MaxMade]
      /\ entry' \in [Leaves -> 0..MaxMade]
  BY <1>1, <1>2, <1>4
<1>6. texts' \in [Chunks -> SUBSET Leaves] /\ l \in texts'[g] /\ \A h \in Chunks : texts[h] \subseteq texts'[h]
  <2>1. TextLive(l) => l \in texts[g]
    BY <1>4 DEF IInv, Texts, TextLive
  <2>2. texts' = [texts EXCEPT ![g] = IF TextLive(l) THEN texts[g] ELSE texts[g] \cup {l}]
    BY <1>1
  <2> QED
    BY <2>1, <2>2, <1>2
<1>7. Written'
  <2>1. \A x \in Chunks : x > made' => used'[x] = 0 /\ cells'[x] = 0
    <3> SUFFICES ASSUME NEW x \in Chunks, x > made' PROVE used[x] = 0 /\ cells'[x] = 0
      BY <1>1
    <3>1. x > made /\ x # g
      BY <1>2 DEF Chunks
    <3> QED
      BY <3>1, <1>1, <1>2 DEF IInv, Written
  <2>2. \A x \in given' : x[1] \in 1..made'
    BY <1>1, <1>2 DEF IInv, Written
  <2>3. \A x \in live' : /\ x[1] \in 1..made' /\ form'[x[1]] = "words" /\ chunks'[number'[x[1]]] = x[1]
                         /\ x[2] <= used'[x[1]]
    BY <1>1 DEF IInv, Written
  <2>4. ASSUME NEW x \in Records, x[2] > used'[x[1]] PROVE leafIn'[x] = Nil
    <3>1. x[1] \in Chunks /\ x[2] \in 1..Room /\ draft[2] \in 1..Room /\ draft[1] \in Chunks
      BY <1>2, PairTypes
    <3>2. draft[2] <= used[draft[1]] /\ x # draft
      BY <1>1, <1>2, <2>4, <3>1, ConstantsType DEF IInv, Written
    <3> QED
      BY <3>2, <2>4, <1>1, <1>2 DEF IInv, Written
  <2>5. \A x \in Records : leafIn'[x] = Nil <=> textIn'[x] = 0
    BY <1>1, <1>2, <1>4 DEF IInv, Written
  <2> QED
    BY <2>1, <2>2, <2>3, <2>4, <2>5, <1>1, <1>2 DEF Written
<1>8. Texts'
  <2>1. ASSUME NEW x \in live', textIn'[x] # 0
        PROVE  /\ textIn'[x] \in 1..made' /\ form'[textIn'[x]] = "bytes"
               /\ leafIn'[x] \in texts'[textIn'[x]] /\ chunks'[number'[textIn'[x]]] = textIn'[x]
    <3>1. x \in live /\ x \in Records
      BY <1>1, <1>2
    <3>2. CASE x = draft
      <4>1. textIn'[x] = g /\ leafIn'[x] = l
        BY <3>2, <1>1, <1>2
      <4> QED
        BY <4>1, <1>6
    <3>3. CASE x # draft
      <4>1. textIn'[x] = textIn[x] /\ leafIn'[x] = leafIn[x] /\ textIn[x] # 0
        BY <3>1, <3>3, <2>1, <1>1, <1>2
      <4>2. leafIn[x] \in texts[textIn[x]] /\ textIn[x] \in Chunks
        BY <3>1, <4>1, TextCounted DEF IInv, Texts, TextsHeld
      <4> QED
        BY <4>1, <4>2, <3>1, <1>6
    <3> QED
      BY <3>2, <3>3
  <2>2. ASSUME NEW k \in Leaves, entry'[k] # 0
        PROVE  entry'[k] \in 1..made' /\ form'[entry'[k]] = "bytes" /\ k \in texts'[entry'[k]]
    <3>1. CASE k = l
      BY <3>1, <1>1, <1>2, <1>6
    <3>2. CASE k # l
      <4>1. entry'[k] = entry[k] /\ entry[k] # 0 /\ entry[k] \in 0..MaxMade
        BY <3>2, <2>2, <1>1, <1>2
      <4>2. entry[k] \in 1..made /\ form[entry[k]] = "bytes" /\ k \in texts[entry[k]] /\ entry[k] \in Chunks
        BY <4>1, ConstantsType DEF IInv, Texts, Chunks
      <4> QED
        BY <4>1, <4>2, <1>2, <1>6
    <3> QED
      BY <3>1, <3>2
  <2> QED
    BY <2>1, <2>2, <1>3 DEF Texts, TextsHeld
<1> QED
  BY <1>3, <1>5, <1>6, <1>7, <1>8

LEMMA StoreLeafKeeps == ASSUME IInv, NEW l \in Leaves, StoreLeaf(l) PROVE IInv'
<1> DEFINE g == IF TextLive(l) THEN views[number[entry[l]]] ELSE chunks[open["bytes"]]
<1>1. /\ Filling /\ Store(l, g) /\ (TextLive(l) \/ HasRoom("bytes"))
      /\ UNCHANGED <<numbers, freeing, views, sided, deferred, waiting>>
      /\ UNCHANGED <<used, live, sites, pruneSites, rows, prune, draft, given>>
  BY DEF StoreLeaf, Store, tables
<1>2. /\ made \in 0..MaxMade /\ taken \in 0..MaxNumbers /\ open \in [Forms -> 0..MaxNumbers]
      /\ entry \in [Leaves -> 0..MaxMade] /\ "bytes" \in Forms
  BY DEF IInv, TypeOK, Forms
<1>3. g \in 1..made /\ form[g] = "bytes" /\ chunks[number[g]] = g /\ (TextLive(l) => entry[l] = g)
  <2>1. CASE TextLive(l)
    <3>1. entry[l] # 0 /\ g = entry[l] /\ views[number[g]] = g /\ Has(number[g])
      BY <2>1 DEF TextLive
    <3>2. g \in 1..made /\ form[g] = "bytes"
      BY <3>1 DEF IInv, Texts
    <3>3. number[g] \in Numbers
      <4>1. number[g] \in 1..taken
        BY <3>2 DEF IInv, Numbering
      <4> QED
        BY <4>1, <1>2, ConstantsType DEF Numbers
    <3>4. chunks[number[g]] = g
      BY <3>1, <3>3 DEF IInv, Views, ViewsCurrent
    <3> QED
      BY <3>1, <3>2, <3>4
  <2>2. CASE ~TextLive(l)
    <3>1. g = chunks[open["bytes"]] /\ open["bytes"] # 0
      BY <2>2, <1>1 DEF HasRoom
    <3>2. open["bytes"] \in Numbers /\ g # 0 /\ form[g] = "bytes"
      BY <3>1, <1>2, ConstantsType DEF Numbers, IInv, Numbering
    <3>3. g \in 1..made /\ number[g] = open["bytes"]
      BY <3>1, <3>2 DEF IInv, Numbering
    <3> QED
      BY <2>2, <3>1, <3>2, <3>3
  <2> QED
    BY <2>1, <2>2
<1> HIDE DEF g
<1>4. g \in Chunks /\ made \in Nat
  BY <1>2, <1>3, ConstantsType DEF Chunks
<1>5. Queue' /\ Numbering' /\ Views' /\ UNCHANGED <<made, number, form, taken, open, chunks, free, unreported, detached, views>>
  BY <1>1, SameNumbers
<1>6. /\ Written' /\ Texts'
      /\ cells' \in [Chunks -> Nat] /\ leafIn' \in [Records -> Leaves \cup {Nil}]
      /\ textIn' \in [Records -> 0..MaxMade] /\ entry' \in [Leaves -> 0..MaxMade]
      /\ texts' \in [Chunks -> SUBSET Leaves]
      /\ \A h \in Chunks : cells[h] <= cells'[h]
  <2>1. \A x \in live : x[1] \in 1..made' /\ form'[x[1]] = "words" /\ chunks'[number'[x[1]]] = x[1]
    BY <1>5 DEF IInv, Written
  <2>2. \A x \in live : textIn[x] # 0 => /\ textIn[x] \in 1..made' /\ form'[textIn[x]] = "bytes"
                                         /\ chunks'[number'[textIn[x]]] = textIn[x]
    BY <1>5, TextCounted
  <2>3. made' \in Nat /\ made <= made' /\ g \in 1..made' /\ form'[g] = "bytes" /\ chunks'[number'[g]] = g
        /\ \A x \in 1..made : form'[x] = form[x]
    BY <1>3, <1>4, <1>5
  <2> QED
    BY <2>1, <2>2, <2>3, <1>1, <1>3, <1>4, StoredHeld
<1>7. TypeOK'
  BY <1>1, <1>5, <1>6 DEF IInv, TypeOK
<1>8. Tables'
  BY <1>1, <1>5 DEF IInv, Tables
<1>9. Sealed'
  <2> SUFFICES ASSUME NEW m \in Numbers \ Range(open), chunks[m] # 0 PROVE ~Empty(chunks[m], live, cells)'
    BY <1>5 DEF Sealed
  <2>1. ~Empty(chunks[m], live, cells) /\ chunks[m] \in 1..made
    BY DEF IInv, Sealed, Numbering
  <2>2. cells[chunks[m]] <= cells'[chunks[m]] /\ cells[chunks[m]] \in Nat /\ cells'[chunks[m]] \in Nat
    <3>1. chunks[m] \in Chunks
      BY <2>1, <1>2, ConstantsType DEF Chunks
    <3> QED
      BY <3>1, <1>6 DEF IInv, TypeOK
  <2> QED
    BY <2>1, <2>2, <1>1, <1>5 DEF Empty
<1> QED
  BY <1>5, <1>6, <1>7, <1>8, <1>9 DEF IInv

LEMMA StoreInNewKeeps == ASSUME IInv, NEW l \in Leaves, StoreInNew(l) PROVE IInv'
<1> DEFINE g == made + 1
<1>1. /\ Filling /\ ~TextLive(l) /\ Alloc("bytes", FALSE) /\ Store(l, g)
      /\ UNCHANGED <<used, live, sites, pruneSites, rows, prune, draft, given>>
  BY DEF StoreInNew, Store
<1>2. "bytes" \in Forms /\ FALSE \in BOOLEAN
  BY DEF Forms
<1>3. PICK n \in Numbers, S \in SUBSET Numbers : Took("bytes", FALSE, n, S)
  BY <1>1, <1>2, AllocTook
<1>4. /\ made \in Nat /\ g \in Chunks /\ made' = g /\ 1..made \subseteq Chunks
      /\ number'[g] = n /\ form'[g] = "bytes" /\ chunks'[n] = g
      /\ \A x \in 1..made : form'[x] = form[x]
  BY <1>2, <1>3, TookMakes
<1>5. Queue' /\ Numbering' /\ Views' /\ Tables'
  BY <1>1, <1>2, <1>3, TookNumbering, TookViews, TookTables DEF Took
<1>6. /\ Written' /\ Texts'
      /\ cells' \in [Chunks -> Nat] /\ leafIn' \in [Records -> Leaves \cup {Nil}]
      /\ textIn' \in [Records -> 0..MaxMade] /\ entry' \in [Leaves -> 0..MaxMade]
      /\ texts' \in [Chunks -> SUBSET Leaves]
      /\ \A h \in Chunks : cells[h] <= cells'[h]
  <2>1. /\ \A x \in live : x[1] \in 1..made' /\ form'[x[1]] = "words" /\ chunks'[number'[x[1]]] = x[1]
        /\ \A x \in live : textIn[x] # 0 => /\ textIn[x] \in 1..made' /\ form'[textIn[x]] = "bytes"
                                            /\ chunks'[number'[textIn[x]]] = textIn[x]
    BY <1>2, <1>3, TookHeld
  <2>2. made' \in Nat /\ made <= made' /\ g \in 1..made' /\ chunks'[number'[g]] = g
    BY <1>4
  <2> HIDE DEF g
  <2> QED
    BY <2>1, <2>2, <1>1, <1>4, StoredHeld
<1>7. TypeOK'
  <2>1. /\ made' \in 0..MaxMade /\ taken' \in 0..MaxNumbers /\ free' \in Seq(Numbers)
        /\ number' \in [Chunks -> 0..MaxNumbers] /\ form' \in [Chunks -> Forms]
        /\ chunks' \in [Numbers -> 0..made'] /\ views' \in [Numbers -> 0..made']
        /\ open' \in [Forms -> 0..MaxNumbers] /\ unreported' \subseteq Numbers /\ detached' \subseteq Chunks
        /\ sided' \subseteq Addresses /\ deferred' \in [Addresses -> Records \cup {Nil}] /\ waiting' \in Nat
    BY <1>1, <1>2, <1>3, TookTypes
  <2> QED
    BY <2>1, <1>1, <1>6 DEF IInv, TypeOK
<1>8. Sealed'
  <2> SUFFICES ASSUME NEW m \in Numbers \ Range(open'), chunks'[m] # 0
               PROVE  ~Empty(chunks[m], live, cells)'
    BY DEF Sealed
  <2>1. m # n
    <3>1. open' = [open EXCEPT !["bytes"] = n] /\ open \in [Forms -> 0..MaxNumbers]
      BY <1>3 DEF Took, IInv, TypeOK
    <3>2. "bytes" \in DOMAIN open' /\ open'["bytes"] = n
      BY <3>1, <1>2
    <3> QED
      BY <3>2 DEF Range
  <2>2. chunks'[m] = chunks[m] /\ chunks[m] \in 1..made /\ ~Empty(chunks[m], live, cells)
    BY <2>1, <1>2, <1>3, TookSealed
  <2>3. form'[chunks[m]] = form[chunks[m]] /\ chunks[m] \in Chunks
    BY <2>2, <1>4
  <2>4. cells[chunks[m]] <= cells'[chunks[m]] /\ cells[chunks[m]] \in Nat /\ cells'[chunks[m]] \in Nat
    BY <2>3, <1>6 DEF IInv, TypeOK
  <2> QED
    BY <2>2, <2>3, <2>4, <1>1 DEF Empty
<1> QED
  BY <1>5, <1>6, <1>7, <1>8 DEF IInv

-----------------------------------------------------------------------------
(* What is done with handles.                                              *)

\* What only the tables, the sites or the handles change.
LEMMA SameHeld ==
  ASSUME IInv, UNCHANGED <<numbers, freeing, views, used, cells, live, leafIn, textIn, texts, entry>>,
         draft' \in {draft, Nil}, given' = given \/ (draft # Nil /\ given' = given \cup {draft})
  PROVE  Queue' /\ Numbering' /\ Views' /\ Written' /\ Texts' /\ Sealed'
         /\ UNCHANGED <<made, number, form, taken, open, chunks, free, unreported, detached>>
<1>1. Queue' /\ Numbering' /\ Views' /\ UNCHANGED <<made, number, form, taken, open, chunks, free, unreported, detached>>
  BY SameNumbers
<1>2. Written'
  <2>1. draft # Nil => draft \in live /\ draft[1] \in 1..made
    BY DEF IInv, Written
  <2> QED
    BY <2>1, <1>1 DEF IInv, Written
<1>3. Texts' /\ Sealed'
  BY <1>1 DEF IInv, Texts, TextsHeld, Sealed, Empty
<1> QED
  BY <1>1, <1>2, <1>3

\* A live record has an address, and so has one whose handle was given out.
LEMMA AddressType ==
  ASSUME IInv, NEW r \in Records, r[1] \in 1..made
  PROVE  Address(r) \in Addresses /\ Address(r)[1] = number[r[1]] /\ Address(r)[2] = r[2] /\ number[r[1]] \in Numbers
<1>1. number[r[1]] \in 1..taken /\ taken \in 0..MaxNumbers
  BY DEF IInv, Numbering, TypeOK
<1>2. number[r[1]] \in Numbers /\ r[2] \in 1..Room
  BY <1>1, PairTypes, ConstantsType DEF Numbers
<1> QED
  BY <1>2 DEF Address, Addresses

LEMMA ViewKeeps == ASSUME IInv, View PROVE IInv'
<1>1. /\ draft # Nil /\ draft' = Nil /\ given' = given \cup {draft}
      /\ IF leafIn[draft] = Nil THEN UNCHANGED <<sites, pruneSites>> ELSE Placed(leafIn[draft])
      /\ UNCHANGED <<numbers, freeing, views, used, cells, live, leafIn, textIn, texts, entry>>
      /\ UNCHANGED <<rows, sided, deferred, waiting, prune>>
  BY DEF View, UserCode, tables
<1>2. Queue' /\ Numbering' /\ Views' /\ Written' /\ Texts' /\ Sealed'
      /\ UNCHANGED <<made, number, form, taken, open, chunks, free, unreported, detached>>
  BY <1>1, SameHeld
<1>3. draft \in live /\ draft \in Records /\ draft[1] \in 1..made
  BY <1>1 DEF IInv, TypeOK, Written
<1>4. sites' \in [Leaves -> SUBSET Addresses] /\ pruneSites' \in [Leaves -> Nat]
  <2>1. sites \in [Leaves -> SUBSET Addresses] /\ pruneSites \in [Leaves -> Nat] /\ leafIn[draft] \in Leaves \cup {Nil}
    BY <1>3 DEF IInv, TypeOK
  <2>2. CASE leafIn[draft] = Nil
    BY <2>1, <2>2, <1>1
  <2>3. CASE leafIn[draft] # Nil
    <3> DEFINE l == leafIn[draft]
               kept == IF Pruning(l) THEN LiveSites(l) ELSE sites[l]
               now == kept \cup {Address(draft)}
    <3>1. /\ sites' = [sites EXCEPT ![l] = now]
          /\ pruneSites' = [pruneSites EXCEPT ![l] = IF Pruning(l) THEN Max({2, 2 * Cardinality(now)}) ELSE @]
          /\ l \in Leaves
      BY <2>1, <2>3, <1>1 DEF Placed
    <3>2. now \in SUBSET Addresses
      BY <2>1, <3>1, <1>3, AddressType DEF LiveSites
    <3>3. Cardinality(now) \in Nat
      BY <3>2, FiniteTables
    <3>4. 2 * Cardinality(now) \in Nat
      BY <3>3
    <3>5. Max({2, 2 * Cardinality(now)}) \in Nat
      BY <3>4, MaxPair
    <3> HIDE DEF now, l
    <3> QED
      BY <2>1, <3>1, <3>2, <3>5
  <2> QED
    BY <2>2, <2>3
<1>5. TypeOK'
  <2>1. given' \subseteq Records
    BY <1>1, <1>3 DEF IInv, TypeOK
  <2> QED
    BY <2>1, <1>1, <1>2, <1>4 DEF IInv, TypeOK
<1>6. Tables'
  BY <1>1 DEF IInv, Tables
<1> QED
  BY <1>2, <1>5, <1>6 DEF IInv

LEMMA WriteLeafKeeps == ASSUME IInv, NEW l \in Leaves, WriteLeaf(l) PROVE IInv'
<1>1. /\ sites' = [sites EXCEPT ![l] = LiveSites(l)]
      /\ pruneSites' = [pruneSites EXCEPT ![l] = Max({2, 2 * Cardinality(LiveSites(l))})]
      /\ UNCHANGED <<numbers, freeing, views, used, cells, live, leafIn, textIn, texts, entry>>
      /\ UNCHANGED <<rows, sided, deferred, waiting, prune, draft, given>>
  BY DEF WriteLeaf, tables
<1>2. Queue' /\ Numbering' /\ Views' /\ Written' /\ Texts' /\ Sealed'
      /\ UNCHANGED <<made, number, form, taken, open, chunks, free, unreported, detached>>
  BY <1>1, SameHeld
<1>3. LiveSites(l) \in SUBSET Addresses /\ sites \in [Leaves -> SUBSET Addresses] /\ pruneSites \in [Leaves -> Nat]
  BY DEF LiveSites, IInv, TypeOK
<1>4. 2 * Cardinality(LiveSites(l)) \in Nat
  <2>1. Cardinality(LiveSites(l)) \in Nat
    BY <1>3, FiniteTables
  <2> QED
    BY <2>1
<1>5. Max({2, 2 * Cardinality(LiveSites(l))}) \in Nat
  BY <1>4, MaxPair
<1>6. sites' \in [Leaves -> SUBSET Addresses] /\ pruneSites' \in [Leaves -> Nat]
  BY <1>1, <1>3, <1>5
<1>7. TypeOK'
  BY <1>1, <1>2, <1>6 DEF IInv, TypeOK
<1>8. Tables'
  BY <1>1 DEF IInv, Tables
<1> QED
  BY <1>2, <1>7, <1>8 DEF IInv

LEMMA WriteSideKeeps == ASSUME IInv, NEW r \in Records, WriteSide(r) PROVE IInv'
<1>1. /\ r \in given /\ LiveRecord(r)
      /\ rows' = [rows EXCEPT ![Address(r)] = r] /\ sided' = sided \cup {Address(r)}
      /\ UNCHANGED <<numbers, freeing, views, used, cells, live, leafIn, textIn, texts, entry>>
      /\ UNCHANGED <<sites, pruneSites, deferred, waiting, prune, draft, given>>
  BY DEF WriteSide, leaves
<1>2. Queue' /\ Numbering' /\ Views' /\ Written' /\ Texts' /\ Sealed'
      /\ UNCHANGED <<made, number, form, taken, open, chunks, free, unreported, detached>>
  BY <1>1, SameHeld
<1>3. r[1] \in 1..made
  BY <1>1 DEF IInv, Written
<1>4. Address(r) \in Addresses /\ Address(r)[1] = number[r[1]] /\ Address(r)[2] = r[2]
  BY <1>3, AddressType
<1>5. rows \in [Addresses -> Records \cup {Nil}] /\ sided \subseteq Addresses
  BY DEF IInv, TypeOK
<1>6. TypeOK'
  <2>1. rows' \in [Addresses -> Records \cup {Nil}] /\ sided' \subseteq Addresses
    BY <1>1, <1>4, <1>5
  <2> QED
    BY <2>1, <1>1, <1>2 DEF IInv, TypeOK
<1>7. Tables'
  <2>1. r = <<r[1], r[2]>> /\ views[number[r[1]]] = r[1] /\ r[1] # 0
    BY <1>1, <1>3, PairTypes DEF LiveRecord, Chunks
  <2>2. ASSUME NEW a \in sided' PROVE views[a[1]] # 0 /\ rows'[a] \in {<<views[a[1]], a[2]>>, Nil}
    <3>1. CASE a = Address(r)
      BY <3>1, <2>1, <1>1, <1>4, <1>5
    <3>2. CASE a # Address(r)
      BY <3>2, <1>1, <1>5 DEF IInv, Tables
    <3> QED
      BY <3>1, <3>2
  <2> QED
    BY <2>2, <1>1 DEF IInv, Tables
<1> QED
  BY <1>2, <1>6, <1>7 DEF IInv

LEMMA SettleKeeps == ASSUME IInv, NEW A \in SUBSET Addresses, Settle(A) PROVE IInv'
<1>1. /\ deferred' = [a \in Addresses |-> IF a \in A THEN Nil ELSE deferred[a]]
      /\ waiting' = waiting - Cardinality({a \in A : deferred[a] # Nil})
      /\ UNCHANGED <<numbers, freeing, views, used, cells, live, leafIn, textIn, texts, entry>>
      /\ UNCHANGED <<sites, pruneSites, rows, sided, prune, draft, given>>
  BY DEF Settle, leaves
<1>2. Queue' /\ Numbering' /\ Views' /\ Written' /\ Texts' /\ Sealed'
      /\ UNCHANGED <<made, number, form, taken, open, chunks, free, unreported, detached>>
  BY <1>1, SameHeld
<1>3. waiting' = Cardinality(Work(deferred'))
  BY <1>1, WorkDropped DEF IInv, Tables, Work
<1>4. deferred' \in [Addresses -> Records \cup {Nil}] /\ waiting' \in Nat
  <2>1. Work(deferred') \in SUBSET Addresses
    BY DEF Work
  <2> QED
    BY <2>1, <1>1, <1>3, FiniteTables DEF IInv, TypeOK
<1>5. TypeOK'
  BY <1>1, <1>2, <1>4 DEF IInv, TypeOK
<1>6. Tables'
  <2>1. \A a \in Addresses : deferred'[a] # Nil => deferred'[a] = deferred[a]
    BY <1>1
  <2> QED
    BY <2>1, <1>1, <1>3 DEF IInv, Tables, Work
<1> QED
  BY <1>2, <1>5, <1>6 DEF IInv

LEMMA DeferKeeps == ASSUME IInv, NEW r \in Records, Defer(r) PROVE IInv'
<1> DEFINE b == Address(r)
           late == [deferred EXCEPT ![b] = r]
           more == IF deferred[b] = Nil THEN waiting + 1 ELSE waiting
           stale == {a \in Addresses : late[a] # Nil /\ ~SiteAlive(a)}
<1>1. /\ r \in live /\ LiveRecord(r)
      /\ IF more >= prune
         THEN /\ deferred' = [a \in Addresses |-> IF a \in stale THEN Nil ELSE late[a]]
              /\ waiting' = more - Cardinality(stale)
              /\ prune' = Max({PruneAt, 2 * (more - Cardinality(stale))})
         ELSE deferred' = late /\ waiting' = more /\ UNCHANGED prune
      /\ UNCHANGED <<numbers, freeing, views, used, cells, live, leafIn, textIn, texts, entry>>
      /\ UNCHANGED <<sites, pruneSites, rows, sided, draft, given>>
  BY DEF Defer, leaves
<1>2. Queue' /\ Numbering' /\ Views' /\ Written' /\ Texts' /\ Sealed'
      /\ UNCHANGED <<made, number, form, taken, open, chunks, free, unreported, detached>>
  BY <1>1, SameHeld
<1>3. r[1] \in 1..made /\ views[number[r[1]]] = r[1] /\ r = <<r[1], r[2]>> /\ r[1] # 0
  BY <1>1, PairTypes DEF IInv, Written, LiveRecord
<1>4. b \in Addresses /\ b[1] = number[r[1]] /\ b[2] = r[2]
  BY <1>3, AddressType
<1>5. deferred \in [Addresses -> Records \cup {Nil}] /\ waiting = Cardinality(Work(deferred)) /\ prune \in Nat
  BY DEF IInv, TypeOK, Tables, Work
<1>6. r # Nil
  BY ConstantsType
<1>7. late \in [Addresses -> Records \cup {Nil}]
      /\ \A a \in Addresses : late[a] = IF a = b THEN r ELSE deferred[a]
  BY <1>4, <1>5
<1>8. \A a \in Addresses : late[a] # Nil => views[a[1]] # 0 /\ late[a] = <<views[a[1]], a[2]>>
  <2>1. late[b] = <<views[b[1]], b[2]>> /\ views[b[1]] # 0
    BY <1>3, <1>4, <1>7
  <2> QED
    BY <2>1, <1>7 DEF IInv, Tables
<1>9. more = Cardinality(Work(late))
  <2>1. IsFiniteSet(Work(deferred))
    <3>1. Work(deferred) \in SUBSET Addresses
      BY DEF Work
    <3> QED
      BY <3>1, FiniteTables
  <2>2. Work(late) = Work(deferred) \cup {b}
    BY <1>4, <1>6, <1>7 DEF Work
  <2>3. b \in Work(deferred) <=> deferred[b] # Nil
    BY <1>4 DEF Work
  <2> HIDE DEF b, late
  <2>4. Cardinality(Work(deferred) \cup {b}) = IF b \in Work(deferred) THEN Cardinality(Work(deferred)) ELSE Cardinality(Work(deferred)) + 1
    BY <2>1, FS_AddElement
  <2> QED
    BY <2>2, <2>3, <2>4, <1>5
<1>10. stale \in SUBSET Addresses /\ {a \in stale : late[a] # Nil} = stale
  OBVIOUS
<1> HIDE DEF b, late, more, stale
<1>11. Cardinality(Work([a \in Addresses |-> IF a \in stale THEN Nil ELSE late[a]])) = more - Cardinality(stale)
  <2>1. Cardinality(Work([a \in Addresses |-> IF a \in stale THEN Nil ELSE late[a]]))
          = Cardinality(Work(late)) - Cardinality({a \in stale : late[a] # Nil})
    BY <1>10, WorkDropped
  <2> QED
    BY <2>1, <1>9, <1>10
<1>12. \A d : Cardinality(Work(d)) \in Nat
  <2>1. \A d : Work(d) \in SUBSET Addresses
    BY DEF Work
  <2> QED
    BY <2>1, FiniteTables
<1>13. /\ deferred' \in [Addresses -> Records \cup {Nil}] /\ waiting' = Cardinality(Work(deferred'))
       /\ waiting' \in Nat /\ prune' \in Nat
       /\ \A a \in Addresses : deferred'[a] # Nil => deferred'[a] = late[a]
  <2>1. CASE more >= prune
    <3>1. /\ deferred' = [a \in Addresses |-> IF a \in stale THEN Nil ELSE late[a]]
          /\ waiting' = more - Cardinality(stale)
          /\ prune' = Max({PruneAt, 2 * (more - Cardinality(stale))})
      BY <2>1, <1>1
    <3>2. waiting' = Cardinality(Work(deferred')) /\ waiting' \in Nat
      BY <3>1, <1>11, <1>12
    <3>3. 2 * (more - Cardinality(stale)) \in Nat
      BY <3>1, <3>2
    <3>4. prune' \in Nat
      BY <3>1, <3>3, MaxPair, ConstantsType
    <3> QED
      BY <3>1, <3>2, <3>4, <1>7
  <2>2. CASE ~(more >= prune)
    <3>1. deferred' = late /\ waiting' = more /\ prune' = prune
      BY <2>2, <1>1
    <3> QED
      BY <3>1, <1>5, <1>7, <1>9, <1>12
  <2> QED
    BY <2>1, <2>2
<1>14. TypeOK'
  BY <1>1, <1>2, <1>13 DEF IInv, TypeOK
<1>15. Tables'
  BY <1>1, <1>8, <1>13 DEF IInv, Tables, Work
<1> QED
  BY <1>2, <1>14, <1>15 DEF IInv

\* The record at the address of a handle is the handle's, when it has a count.
LEMMA OwnReleased ==
  ASSUME IInv, NEW r \in Records, Release(r)
  PROVE  r \in live /\ NativeRelease(r)
<1> DEFINE at == <<chunks[number[r[1]]], r[2]>>
<1>1. r \in given /\ views[number[r[1]]] = r[1] /\ at \in live /\ NativeRelease(at)
  BY DEF Release, LiveRecord
<1>2. r[1] \in 1..made
  BY <1>1 DEF IInv, Written
<1>3. number[r[1]] \in Numbers
  BY <1>2, AddressType
<1>4. chunks[number[r[1]]] # 0
  <2>1. at[1] \in 1..made
    BY <1>1 DEF IInv, Written
  <2> QED
    BY <2>1
<1>5. chunks[number[r[1]]] = r[1]
  BY <1>1, <1>3, <1>4 DEF IInv, Views, ViewsCurrent
<1>6. at = r
  BY <1>5, PairTypes
<1> QED
  BY <1>1, <1>6

LEMMA AbandonKeeps == ASSUME IInv, draft # Nil, Abandon PROVE IInv'
<1>1. draft \in live
  BY DEF IInv, Written
<1>2. NativeRelease(draft) /\ draft' = Nil /\ prune' = prune /\ Elsewhere
  BY DEF Abandon, Elsewhere
<1> QED
  BY <1>1, <1>2, ReleaseKeeps

-----------------------------------------------------------------------------
(* The invariant.                                                          *)

LEMMA InitIInv == Init => IInv
<1> SUFFICES ASSUME Init PROVE IInv
  OBVIOUS
<1>1. /\ made = 0 /\ taken = 0 /\ free = <<>> /\ unreported = {} /\ detached = {}
      /\ number = [g \in Chunks |-> 0] /\ form = [g \in Chunks |-> "words"]
      /\ chunks = [n \in Numbers |-> 0] /\ views = chunks
      /\ open = [f \in Forms |-> 0]
      /\ used = [g \in Chunks |-> 0] /\ cells = used
      /\ texts = [g \in Chunks |-> {}]
      /\ live = {}
      /\ leafIn = [r \in Records |-> Nil] /\ textIn = [r \in Records |-> 0]
      /\ entry = [l \in Leaves |-> 0]
      /\ sites = [l \in Leaves |-> {}] /\ pruneSites = [l \in Leaves |-> 2]
      /\ rows = [a \in Addresses |-> Nil]
      /\ sided = {} /\ deferred = rows /\ waiting = 0 /\ prune = PruneAt
      /\ draft = Nil /\ given = {}
  BY DEF Init
<1>2. TypeOK
  <2>1. free \in Seq(Numbers)
    BY <1>1
  <2>2. /\ made \in 0..MaxMade /\ taken \in 0..MaxNumbers
        /\ number \in [Chunks -> 0..MaxNumbers] /\ open \in [Forms -> 0..MaxNumbers]
        /\ chunks \in [Numbers -> 0..made] /\ views \in [Numbers -> 0..made]
        /\ used \in [Chunks -> 0..Room] /\ textIn \in [Records -> 0..MaxMade] /\ entry \in [Leaves -> 0..MaxMade]
    BY <1>1, ConstantsType
  <2>3. form \in [Chunks -> Forms] /\ prune \in Nat
    BY <1>1, ConstantsType DEF Forms
  <2> QED
    BY <1>1, <2>1, <2>2, <2>3 DEF TypeOK
<1>3. Queue
  BY <1>1 DEF Queue, QueueOf
<1>4. Numbering
  BY <1>1 DEF Numbering
<1>5. Views
  BY <1>1 DEF Views, ViewsCurrent, Has
<1>6. Tables
  <2>1. {a \in Addresses : deferred[a] # Nil} = {}
    BY <1>1
  <2> QED
    BY <2>1, <1>1, FS_EmptySet DEF Tables
<1>7. Written
  BY <1>1 DEF Written
<1>8. Texts
  <2>1. \A g \in Chunks : {r \in live : textIn[r] = g} = {}
    BY <1>1
  <2> QED
    BY <2>1, <1>1, FS_EmptySet DEF Texts, TextsHeld
<1>9. Sealed
  BY <1>1 DEF Sealed
<1> QED
  BY <1>2, <1>3, <1>4, <1>5, <1>6, <1>7, <1>8, <1>9 DEF IInv

LEMMA NextIInv == IInv /\ [Next]_vars => IInv'
<1> SUFFICES ASSUME IInv, [Next]_vars PROVE IInv'
  OBVIOUS
<1>1. CASE Draft
  BY <1>1, DraftKeeps
<1>2. CASE View
  BY <1>2, ViewKeeps
<1>3. CASE ViewRefused
  BY <1>3, AbandonKeeps DEF ViewRefused, UserCode
<1>4. ASSUME NEW large \in BOOLEAN, DraftInNew(large) PROVE IInv'
  BY <1>4, DraftInNewKeeps
<1>5. ASSUME NEW l \in Leaves, StoreLeaf(l) \/ StoreInNew(l) \/ StoreRefused(l) \/ WriteLeaf(l) PROVE IInv'
  <2>1. CASE StoreLeaf(l)
    BY <2>1, StoreLeafKeeps
  <2>2. CASE StoreInNew(l)
    BY <2>2, StoreInNewKeeps
  <2>3. CASE StoreRefused(l)
    BY <2>3, AbandonKeeps DEF StoreRefused, Filling, UserCode
  <2>4. CASE WriteLeaf(l)
    BY <2>4, WriteLeafKeeps
  <2> QED
    BY <1>5, <2>1, <2>2, <2>3, <2>4
<1>6. ASSUME NEW r \in Records, Release(r) \/ WriteSide(r) \/ Defer(r) PROVE IInv'
  <2>1. CASE Release(r)
    <3>1. r \in live /\ NativeRelease(r)
      BY <2>1, OwnReleased
    <3>2. draft' = Nil /\ prune' = prune /\ Elsewhere
      BY <2>1 DEF Release, UserCode, Elsewhere
    <3> QED
      BY <3>1, <3>2, ReleaseKeeps
  <2>2. CASE WriteSide(r)
    BY <2>2, WriteSideKeeps
  <2>3. CASE Defer(r)
    BY <2>3, DeferKeeps
  <2> QED
    BY <1>6, <2>1, <2>2, <2>3
<1>7. ASSUME NEW A \in SUBSET Addresses, Settle(A) PROVE IInv'
  BY <1>7, SettleKeeps
<1>8. CASE UNCHANGED vars
  <2>1. /\ UNCHANGED <<numbers, freeing, views, used, cells, live, leafIn, textIn, texts, entry>>
        /\ UNCHANGED <<sites, pruneSites, rows, sided, deferred, waiting, prune, draft, given>>
    BY <1>8 DEF vars, tables, leaves
  <2>2. Queue' /\ Numbering' /\ Views' /\ Written' /\ Texts' /\ Sealed'
        /\ UNCHANGED <<made, number, form, taken, open, chunks, free, unreported, detached>>
    BY <2>1, SameHeld
  <2>3. TypeOK' /\ Tables'
    BY <2>1, <2>2 DEF IInv, TypeOK, Tables
  <2> QED
    BY <2>2, <2>3 DEF IInv
<1>9. \A a \in Addresses : {a} \in SUBSET Addresses
  OBVIOUS
<1>10. CASE Next
  BY <1>10, <1>1, <1>2, <1>3, <1>4, <1>5, <1>6, <1>7, <1>9 DEF Next, Step
<1> QED
  BY <1>8, <1>10

\* The inductive invariant holds of every reachable state.
THEOREM ChunkInvariant == Spec => []IInv
<1> QED
  BY InitIInv, NextIInv, PTL DEF Spec

\* Every variable keeps to its type: counts never fall below zero, numbers stay in range.
THEOREM ChunkTypeCorrect == Spec => []TypeOK
<1>1. IInv => TypeOK
  BY DEF IInv
<1> QED
  BY <1>1, ChunkInvariant, PTL

\* arena.rs: a number given out names one chunk or waits once in the queue, and no sealed chunk
\* stays when nothing in it is live.
THEOREM ChunkNumbersApart == Spec => []NumbersApart
<1>1. IInv => NumbersApart
  <2> SUFFICES ASSUME IInv PROVE NumbersApart
    OBVIOUS
  <2>1. free \in Seq(Numbers) /\ taken \in 0..MaxNumbers /\ Queue /\ DOMAIN free = 1..Len(free) /\ Sealed
    BY DEF IInv, TypeOK
  <2>2. ASSUME NEW n \in 1..taken
        PROVE  Cardinality({i \in DOMAIN free : free[i] = n}) = IF chunks[n] = 0 THEN 1 ELSE 0
    <3> DEFINE at == {i \in DOMAIN free : free[i] = n}
    <3>1. CASE chunks[n] = 0
      <4>1. PICK i \in 1..Len(free) : free[i] = n
        BY <3>1, <2>1 DEF Queue, QueueOf
      <4>2. at = {i}
        BY <4>1, <2>1 DEF Queue, QueueOf
      <4> QED
        BY <4>2, <3>1, FS_Singleton
    <3>2. CASE chunks[n] # 0
      <4>1. at = {}
        BY <3>2, <2>1 DEF Queue, QueueOf
      <4> QED
        BY <4>1, <3>2, FS_EmptySet
    <3> QED
      BY <3>1, <3>2
  <2> QED
    BY <2>1, <2>2 DEF NumbersApart, Sealed
<1> QED
  BY <1>1, ChunkInvariant, PTL

\* built-arena.ts: the buffer JavaScript has at a number is the native chunk's, or is detached and
\* still to be swept; a number given out again never meets an old buffer.
THEOREM ChunkViewsCurrent == Spec => []ViewsCurrent
<1>1. IInv => ViewsCurrent
  BY DEF IInv, Views
<1> QED
  BY <1>1, ChunkInvariant, PTL

\* placeEntry: the text a live record's cell names is its leaf's, in a chunk that is there, and
\* every text is counted by the live records that name it.
THEOREM ChunkTextsHeld == Spec => []TextsHeld
<1>1. IInv => TextsHeld
  BY DEF IInv, Texts
<1> QED
  BY <1>1, ChunkInvariant, PTL

\* A side read at a handle's address was written for that record.
THEOREM ChunkSidesFaithful == Spec => []SidesFaithful
<1>1. IInv => SidesFaithful
  <2> SUFFICES ASSUME IInv, NEW r \in Records, r \in given, LiveRecord(r), Address(r) \in sided
               PROVE  rows[Address(r)] \in {r, Nil}
    BY DEF SidesFaithful
  <2>1. r[1] \in 1..made
    BY DEF IInv, Written
  <2>2. Address(r)[1] = number[r[1]] /\ Address(r)[2] = r[2]
    BY <2>1, AddressType
  <2> QED
    BY <2>2, PairTypes DEF IInv, Tables, LiveRecord
<1> QED
  BY <1>1, ChunkInvariant, PTL

\* Deferred work that would run is the work of the record at its address, and the count kept of
\* it is right.
THEOREM ChunkDeferredFaithful == Spec => []DeferredFaithful
<1>1. IInv => DeferredFaithful
  BY DEF IInv, Tables, DeferredFaithful
<1> QED
  BY <1>1, ChunkInvariant, PTL

\* A handle's release ends its own record and no other.
THEOREM ChunkReleasesOwn == Spec => ReleasesOwn
<1>1. IInv /\ [Next]_vars => [\A r \in Records : Release(r) => live' = live \ {r}]_vars
  <2> SUFFICES ASSUME IInv, NEW r \in Records, Release(r) PROVE live' = live \ {r}
    OBVIOUS
  <2> QED
    BY OwnReleased DEF NativeRelease
<1> QED
  BY <1>1, ChunkInvariant, PTL DEF Spec, ReleasesOwn
=============================================================================
