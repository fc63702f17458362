----------------------------- MODULE ChunkNumbers -----------------------------
(***************************************************************************)
(* The chunks of a built arena and the numbers they go by                  *)
(* (packages/common/src/built-arena.ts, rust/crates/sittir-core/src/       *)
(* arena.rs, arena/count.rs).  Native code numbers the chunks of records   *)
(* and of text from one count, frees a sealed chunk that holds nothing     *)
(* live, detaches JavaScript's buffers over it in the same call, and gives *)
(* its number out again once no number is new.  JavaScript is told what    *)
(* was freed when it next asks for a chunk, and drops its tables then.     *)
(*                                                                         *)
(* An address, a number and a word, so names one record after another.     *)
(* Here a record is its memory and word, and every table keyed by address  *)
(* (sides, leaf sites, deferred work, the store's rows) remembers the      *)
(* record it was written for.  A record holds one leaf or none; who holds  *)
(* records is BuiltArena's matter, so here only a handle does.             *)
(***************************************************************************)
EXTENDS FiniteSetsExt, SequencesExt

CONSTANTS
  Leaves,      \* built leaves, each of its own text
  Nil,         \* no record, no leaf
  MaxNumbers,  \* MAX_BUILT_CHUNKS: numbers are 1..MaxNumbers
  Room,        \* the records a word chunk takes
  TextRoom,    \* the texts a string chunk takes
  PruneAt,     \* DEFERRED_PRUNE
  MaxMade,     \* bound: chunks ever made
  MaxWritten   \* bound: written sides and deferred works at once

ASSUME ConstantsAssumption ==
  /\ Nil \notin Leaves /\ Nil \notin (1..MaxMade) \X (1..Room)
  /\ {MaxNumbers, Room, TextRoom, PruneAt, MaxMade} \subseteq Nat \ {0} /\ MaxWritten \in Nat

Numbers == 1..MaxNumbers
Chunks == 1..MaxMade
Records == Chunks \X (1..Room)
Addresses == Numbers \X (1..Room)
Forms == {"words", "bytes"}

VARIABLES
  made,        \* the chunks made so far
  number,      \* the number each was given
  form,        \* what each holds
  taken,       \* the numbers given out once
  chunks,      \* the chunk native code has at each number, 0 for none
  open,        \* the number of the open chunk of each form, 0 for none
  free,        \* the numbers of freed chunks, the first freed first
  unreported,  \* the freed chunks JavaScript was not told of
  detached,    \* the chunks whose buffers are detached
  views,       \* the chunk whose buffer JavaScript has at each number
  used,        \* the records written in each chunk
  texts,       \* the leaves whose text is interned in each chunk
  cells,       \* the cells naming a text of each chunk
  live,        \* the records with a count
  leafIn,      \* the leaf each record holds
  textIn,      \* the chunk of its text
  entry,       \* the chunk of each leaf's entry, 0 before it is placed
  sites,       \* the addresses each leaf was placed at
  pruneSites,  \* the length at which its sites are pruned
  rows,        \* the store's row at each address, by the record it was written for
  sided,       \* #sided
  deferred,    \* #deferred: the record each address has work for
  waiting,     \* #deferredCount
  prune,       \* #pruneAt
  draft,       \* the record being built
  given        \* the records whose handles user code has had

numbers == <<made, number, form, taken, open>>
freeing == <<chunks, free, unreported, detached>>
tables == <<sided, deferred, waiting>>
leaves == <<texts, entry, sites, pruneSites>>
vars == <<numbers, freeing, views, used, cells, live, leafIn, textIn, leaves, rows, tables, prune, draft, given>>

Init ==
  /\ made = 0 /\ taken = 0 /\ free = <<>> /\ unreported = {} /\ detached = {}
  /\ number = [g \in Chunks |-> 0] /\ form = [g \in Chunks |-> "words"]
  /\ chunks = [n \in Numbers |-> 0] /\ views = chunks
  /\ open = [f \in Forms |-> 0]
  /\ used = [g \in Chunks |-> 0] /\ cells = used
  /\ texts = [g \in Chunks |-> {}]
  /\ live = {}
  /\ leafIn = [r \in Records |-> Nil] /\ textIn = [r \in Records |-> 0]
  /\ entry = [l \in Leaves |-> 0]
  /\ sites = [l \in Leaves |-> {}] /\ pruneSites = [l \in Leaves |-> 2]
  /\ rows = [a \in Addresses |-> Nil]
  /\ sided = {} /\ deferred = rows /\ waiting = 0 /\ prune = PruneAt
  /\ draft = Nil /\ given = {}

\* The values each variable takes.
TypeOK ==
  /\ made \in 0..MaxMade /\ taken \in 0..MaxNumbers /\ free \in Seq(Numbers)
  /\ number \in [Chunks -> 0..MaxNumbers] /\ form \in [Chunks -> Forms]
  /\ chunks \in [Numbers -> 0..made] /\ views \in [Numbers -> 0..made]
  /\ open \in [Forms -> 0..MaxNumbers]
  /\ unreported \subseteq Numbers /\ detached \subseteq Chunks
  /\ used \in [Chunks -> 0..Room] /\ cells \in [Chunks -> Nat] /\ texts \in [Chunks -> SUBSET Leaves]
  /\ live \subseteq Records
  /\ leafIn \in [Records -> Leaves \cup {Nil}] /\ textIn \in [Records -> 0..MaxMade]
  /\ entry \in [Leaves -> 0..MaxMade] /\ sites \in [Leaves -> SUBSET Addresses]
  /\ pruneSites \in [Leaves -> Nat] /\ rows \in [Addresses -> Records \cup {Nil}]
  /\ sided \subseteq Addresses /\ deferred \in [Addresses -> Records \cup {Nil}]
  /\ waiting \in Nat /\ prune \in Nat
  /\ draft \in Records \cup {Nil} /\ given \subseteq Records

-----------------------------------------------------------------------------
(* Chunks.                                                                 *)

UserCode == draft = Nil
Address(r) == <<number[r[1]], r[2]>>

\* What JavaScript's tables say of number n: its buffer is there and not detached.
Has(n) == views[n] # 0 /\ views[n] \notin detached

\* Fault: any buffer at the number will do.
SomeRecord(r) == Has(number[r[1]])

\* liveAt: a handle's buffer is the one at its record's number.
LiveRecord(r) == views[number[r[1]]] = r[1]

\* Whether the entry at address a can be looked up, and whether it has a count.
Answers(a) == Has(a[1]) => form[views[a[1]]] = "bytes" \/ a[2] <= used[views[a[1]]]
SiteAlive(a) == Has(a[1]) /\ <<views[a[1]], a[2]>> \in live

\* What keeps chunk g from being freed, with records rs and cell counts cs.
Empty(g, rs, cs) == IF form[g] = "words" THEN \A r \in rs : r[1] # g ELSE cs[g] = 0

\* Fault: only the side bits are swept.
SweepSides(ns) ==
  /\ sided' = {a \in sided : a[1] \notin ns}
  /\ UNCHANGED <<deferred, waiting>>

\* Fault: only the deferred work is swept.
SweepWork(ns) ==
  /\ deferred' = [a \in Addresses |-> IF a[1] \in ns THEN Nil ELSE deferred[a]]
  /\ waiting' = waiting - Cardinality({a \in Addresses : a[1] \in ns /\ deferred[a] # Nil})
  /\ UNCHANGED sided

\* Fault: the work swept is no longer counted and stays.
SweepCount(ns) ==
  /\ sided' = {a \in sided : a[1] \notin ns}
  /\ waiting' = waiting - Cardinality({a \in Addresses : a[1] \in ns /\ deferred[a] # Nil})
  /\ UNCHANGED deferred

\* #sweep: JavaScript's tables without what they have of the numbers ns.
Sweep(ns) ==
  /\ sided' = {a \in sided : a[1] \notin ns}
  /\ deferred' = [a \in Addresses |-> IF a[1] \in ns THEN Nil ELSE deferred[a]]
  /\ waiting' = waiting - Cardinality({a \in Addresses : a[1] \in ns /\ deferred[a] # Nil})

\* Fault: the buffers stay attached until JavaScript sweeps.
DetachedLate(ns) == detached

\* The numbers freed, by a seal or a release, are queued, and the buffers over them detached.
Freed(ns) == [n \in Numbers |-> IF n \in Range(ns) THEN 0 ELSE chunks[n]]
Detached(ns) == detached \cup {chunks[n] : n \in Range(ns)}

Numbered == made < MaxMade /\ (taken < MaxNumbers \/ free # <<>>)

\* Fault: a number given out again stays queued.
LeftQueued == free

\* The numbers left once one is given out.
Left == IF taken < MaxNumbers THEN free ELSE Tail(free)

\* Fault: the sweep comes after the new chunk is taken.
ViewedThenSwept(n, g, ns) == [m \in Numbers |-> IF m \in ns THEN 0 ELSE IF m = n THEN g ELSE views[m]]

\* The buffers JavaScript has once it has swept ns and taken chunk g as number n.
Viewed(n, g, ns) == [m \in Numbers |-> IF m = n THEN g ELSE IF m \in ns THEN 0 ELSE views[m]]

\* A new chunk of form f: it takes a number, seals the open chunk of its form unless it is
\* for one large entry alone, and its answer tells JavaScript what was freed.
Alloc(f, large) ==
  LET g == made + 1
      n == IF taken < MaxNumbers THEN taken + 1 ELSE Head(free)
      old == IF large THEN 0 ELSE open[f]
      sealed == IF old # 0 /\ Empty(chunks[old], live, cells) THEN <<old>> ELSE <<>>
      told == unreported \cup Range(sealed)
  IN /\ Numbered
     /\ made' = g /\ taken' = Min({taken + 1, MaxNumbers})
     /\ number' = [number EXCEPT ![g] = n] /\ form' = [form EXCEPT ![g] = f]
     /\ open' = IF large THEN open ELSE [open EXCEPT ![f] = n]
     /\ chunks' = [Freed(sealed) EXCEPT ![n] = g]
     /\ free' = Left \o sealed
     /\ detached' = Detached(sealed)
     /\ unreported' = {}
     /\ views' = Viewed(n, g, told)
     /\ Sweep(told)

\* The open chunk of form f while it has room.
HasRoom(f) ==
  open[f] # 0 /\ LET g == chunks[open[f]]
                 IN IF f = "words" THEN used[g] < Room ELSE Cardinality(texts[g]) < TextRoom

\* A native release of record r: its sides go, and each sealed chunk it leaves empty, its
\* text's first.
NativeRelease(r) ==
  LET t == textIn[r]
      counts == IF t = 0 THEN cells ELSE [cells EXCEPT ![t] = @ - 1]
      dead == live \ {r}
      Gone(g) == g # 0 /\ number[g] \notin Range(open) /\ Empty(g, dead, counts)
      freed == (IF Gone(t) THEN <<number[t]>> ELSE <<>>) \o (IF Gone(r[1]) THEN <<number[r[1]]>> ELSE <<>>)
  IN /\ live' = dead /\ cells' = counts
     /\ rows' = [rows EXCEPT ![Address(r)] = Nil]
     /\ chunks' = Freed(freed) /\ free' = free \o freed
     /\ detached' = Detached(freed) /\ unreported' = unreported \cup Range(freed)

-----------------------------------------------------------------------------
(* Builds: a record is drafted, its leaf stored, and its handle returned.  *)

Place(r) ==
  /\ used' = [used EXCEPT ![r[1]] = @ + 1]
  /\ live' = live \cup {r} /\ draft' = r
  /\ UNCHANGED <<cells, leafIn, textIn, leaves, rows, prune, given>>

Draft ==
  /\ UserCode /\ HasRoom("words")
  /\ LET g == chunks[open["words"]] IN Place(<<g, used[g] + 1>>)
  /\ UNCHANGED <<numbers, freeing, views, tables>>

DraftInNew(large) ==
  /\ UserCode /\ (large \/ ~HasRoom("words"))
  /\ Alloc("words", large)
  /\ Place(<<made + 1, 1>>)

\* Fault: an entry is used again whatever became of its chunk.
TextPlaced(l) == entry[l] # 0

\* A leaf placed before keeps its entry while its buffer is the one at the entry's number.
TextLive(l) == entry[l] # 0 /\ views[number[entry[l]]] = entry[l] /\ Has(number[entry[l]])

\* The leaf's text is interned and counted in chunk g, and the draft's cell names it.
Store(l, g) ==
  /\ cells' = [cells EXCEPT ![g] = @ + 1]
  /\ leafIn' = [leafIn EXCEPT ![draft] = l] /\ textIn' = [textIn EXCEPT ![draft] = g]
  /\ entry' = [entry EXCEPT ![l] = g]
  /\ texts' = [texts EXCEPT ![g] = IF TextLive(l) THEN @ ELSE @ \cup {l}]
  /\ UNCHANGED <<used, live, sites, pruneSites, rows, prune, draft, given>>

Filling == ~UserCode /\ leafIn[draft] = Nil

StoreLeaf(l) ==
  /\ Filling /\ (TextLive(l) \/ HasRoom("bytes"))
  /\ Store(l, IF TextLive(l) THEN views[number[entry[l]]] ELSE chunks[open["bytes"]])
  /\ UNCHANGED <<numbers, freeing, views, tables>>

StoreInNew(l) ==
  /\ Filling /\ ~TextLive(l) /\ ~HasRoom("bytes")
  /\ Alloc("bytes", FALSE)
  /\ Store(l, made + 1)

\* A build throws: its draft is released.
Abandon ==
  /\ NativeRelease(draft) /\ draft' = Nil
  /\ UNCHANGED <<numbers, views, used, leafIn, textIn, leaves, tables, prune, given>>

\* No number is left for the text.
StoreRefused(l) ==
  /\ Filling /\ ~TextLive(l) /\ ~HasRoom("bytes") /\ taken = MaxNumbers /\ free = <<>>
  /\ Abandon

\* The sites of leaf l with its site in the draft: once there are many, those dead are dropped.
Pruning(l) == Cardinality(sites[l]) + 1 >= pruneSites[l]
LiveSites(l) == {a \in sites[l] : SiteAlive(a)}
Placed(l) ==
  LET kept == IF Pruning(l) THEN LiveSites(l) ELSE sites[l]
      now == kept \cup {Address(draft)}
  IN /\ Pruning(l) => \A a \in sites[l] : Answers(a)
     /\ sites' = [sites EXCEPT ![l] = now]
     /\ pruneSites' = [pruneSites EXCEPT ![l] = IF Pruning(l) THEN Max({2, 2 * Cardinality(now)}) ELSE @]

\* The draft's leaf is placed, and its handle returned.
View ==
  /\ ~UserCode /\ draft' = Nil /\ given' = given \cup {draft}
  /\ IF leafIn[draft] = Nil THEN UNCHANGED <<sites, pruneSites>> ELSE Placed(leafIn[draft])
  /\ UNCHANGED <<numbers, freeing, views, used, cells, live, leafIn, textIn, texts, entry, rows, tables, prune>>

\* A site to prune starts no entry: looking up its count throws.
ViewRefused ==
  /\ ~UserCode /\ leafIn[draft] # Nil /\ Pruning(leafIn[draft])
  /\ \E a \in sites[leafIn[draft]] : ~Answers(a)
  /\ Abandon

-----------------------------------------------------------------------------
(* What user code does with handles, old and new.                          *)

\* The record at the address of the handle of r goes, if it has a count.
Release(r) ==
  LET at == <<chunks[number[r[1]]], r[2]>>
  IN /\ UserCode /\ r \in given /\ LiveRecord(r) /\ at \in live
     /\ NativeRelease(at)
     /\ UNCHANGED <<numbers, views, used, leafIn, textIn, leaves, tables, prune, draft, given>>

\* A side written on the handle of r, released or not.
WriteSide(r) ==
  /\ UserCode /\ r \in given /\ LiveRecord(r)
  /\ rows' = [rows EXCEPT ![Address(r)] = r] /\ sided' = sided \cup {Address(r)}
  /\ UNCHANGED <<numbers, freeing, views, used, cells, live, leafIn, textIn, leaves, deferred, waiting, prune, draft, given>>

\* The sides of leaf l written: its sites are looked up, and those without a count dropped.
WriteLeaf(l) ==
  /\ UserCode /\ \A a \in sites[l] : Answers(a)
  /\ sites' = [sites EXCEPT ![l] = LiveSites(l)]
  /\ pruneSites' = [pruneSites EXCEPT ![l] = Max({2, 2 * Cardinality(LiveSites(l))})]
  /\ UNCHANGED <<numbers, freeing, views, used, cells, live, leafIn, textIn, texts, entry, rows, tables, prune, draft, given>>

\* Work deferred for a live record; past the limit, work for what is not live is dropped.
Defer(r) ==
  LET late == [deferred EXCEPT ![Address(r)] = r]
      more == IF deferred[Address(r)] = Nil THEN waiting + 1 ELSE waiting
      stale == {a \in Addresses : late[a] # Nil /\ ~SiteAlive(a)}
  IN /\ UserCode /\ r \in live /\ LiveRecord(r)
     /\ IF more >= prune
        THEN /\ deferred' = [a \in Addresses |-> IF a \in stale THEN Nil ELSE late[a]]
             /\ waiting' = more - Cardinality(stale)
             /\ prune' = Max({PruneAt, 2 * (more - Cardinality(stale))})
        ELSE deferred' = late /\ waiting' = more /\ UNCHANGED prune
     /\ UNCHANGED <<numbers, freeing, views, used, cells, live, leafIn, textIn, leaves, rows, sided, draft, given>>

\* The work deferred at the addresses as, one or all, is taken, and run where a count is left.
Settle(as) ==
  /\ UserCode /\ waiting # 0
  /\ deferred' = [a \in Addresses |-> IF a \in as THEN Nil ELSE deferred[a]]
  /\ waiting' = waiting - Cardinality({a \in as : deferred[a] # Nil})
  /\ UNCHANGED <<numbers, freeing, views, used, cells, live, leafIn, textIn, leaves, rows, sided, prune, draft, given>>

FewWritten == Cardinality(sided') + waiting' <= MaxWritten

Step ==
  \/ Draft \/ View \/ ViewRefused \/ \E large \in BOOLEAN : DraftInNew(large)
  \/ \E l \in Leaves : StoreLeaf(l) \/ StoreInNew(l) \/ StoreRefused(l) \/ WriteLeaf(l)
  \/ \E r \in Records : Release(r) \/ WriteSide(r) \/ Defer(r)
  \/ Settle(Addresses) \/ \E a \in Addresses : Settle({a})

Next == Step /\ FewWritten

Spec == Init /\ [][Next]_vars

-----------------------------------------------------------------------------
(* Properties.                                                             *)

\* arena.rs: every number given out names one chunk or waits once in the queue, and a sealed
\* chunk is there only while something in it is live, however chunks sealed and emptied.
NumbersApart ==
  /\ \A n \in 1..taken : Cardinality({i \in DOMAIN free : free[i] = n}) = IF chunks[n] = 0 THEN 1 ELSE 0
  /\ \A n \in Numbers \ Range(open) : chunks[n] # 0 => ~Empty(chunks[n], live, cells)

\* JavaScript's buffer at a number is the native chunk's or is detached, and what it has not
\* been told of is all it has too much: a number given out again never meets an old buffer.
ViewsCurrent ==
  \A n \in Numbers :
    IF Has(n) THEN chunks[n] = views[n] ELSE chunks[n] = 0 /\ (views[n] # 0 => n \in unreported)

\* built-arena.ts, placeEntry: the text a live record's cell names is its leaf's, in a chunk
\* not freed, though the leaf was placed before, its chunk freed and the number used again.
TextsHeld ==
  /\ \A r \in live : textIn[r] # 0 => leafIn[r] \in texts[textIn[r]] /\ chunks[number[textIn[r]]] = textIn[r]
  /\ \A g \in Chunks : cells[g] = Cardinality({r \in live : textIn[r] = g})

\* What JavaScript reads at a handle's address is a side written for that record, never one
\* left by a record whose chunk had the number before.
SidesFaithful == \A r \in Records : r \in given /\ LiveRecord(r) /\ Address(r) \in sided => rows[Address(r)] \in {r, Nil}

\* Deferred work that would run would run for the record it was deferred for, and the count
\* that lets a settle be skipped is the number of records with work.
DeferredFaithful ==
  /\ \A a \in Addresses : deferred[a] # Nil /\ SiteAlive(a) => deferred[a] = <<views[a[1]], a[2]>>
  /\ waiting = Cardinality({a \in Addresses : deferred[a] # Nil})

\* A handle's release ends its own record or none, whichever record its address names by then.
ReleasesOwn == [][\A r \in Records : Release(r) => live' = live \ {r}]_vars
=============================================================================
