--------------------------- MODULE WrapperIdentity ---------------------------
(***************************************************************************)
(* The wrappers of one parsed tree (packages/common/src/identity.ts,       *)
(* list-fills.ts, utils.ts, built-arena.ts).  A node is wrapped when it is *)
(* read; the registry holds the wrapper weakly, by the node's index and    *)
(* role, so every route to a node gives one wrapper while one lives.  An   *)
(* alias envelope and its content share an index and differ in role.       *)
(*                                                                         *)
(* A list's wrapper is filled with its items as it is made.  Lists made    *)
(* during a fill wait in a queue the outermost one works off; a read that  *)
(* throws undoes the cache writes of the whole fill.  A fill runs in one   *)
(* job: finalizers wait until it ends, and a wrapper it met is not         *)
(* collected before.  Only a list's slot holds more than one child.        *)
(***************************************************************************)
EXTENDS Naturals, SequencesExt

CONSTANTS
  Nodes,        \* the nodes of the tree
  Children,     \* the children of each, in order
  Lists,        \* the nodes whose wrapper is filled when made
  Index,        \* the index of each node's row
  Nil,          \* no wrapper of that number
  MaxWrappers   \* bound: the wrappers there are at once

ASSUME ConstantsAssumption ==
  /\ Children \in [Nodes -> Seq(Nodes)] /\ Lists \subseteq Nodes
  /\ \A n \in Nodes \ Lists : Len(Children[n]) <= 1
  /\ Index \in [Nodes -> Nat] /\ Nil \notin Nodes /\ MaxWrappers \in Nat

\* The nodes are a tree's; only a node that is no list and its one child share a row.
ASSUME TreeAssumption ==
  /\ IsFiniteSet(Nodes)
  /\ \E depth \in [Nodes -> 0..Cardinality(Nodes)] :
       \A p \in Nodes : \A n \in Range(Children[p]) : depth[p] < depth[n]
  /\ \A p, q \in Nodes : Range(Children[p]) \cap Range(Children[q]) # {} => p = q
  /\ \A m, n \in Nodes : m # n /\ Index[m] = Index[n] => m \in Range(Children[n]) \/ n \in Range(Children[m])
  /\ \A p \in Lists : \A n \in Range(Children[p]) : Index[p] # Index[n]

VARIABLES
  wraps,     \* the node each wrapper is of
  registry,  \* the wrapper each key's WeakRef was made for, 0 for no entry
  slots,     \* the children each wrapper cached in its slot
  items,     \* the items a list's wrapper holds
  held,      \* the wrappers user code holds
  dead,      \* the wrappers collected whose finalizer has not run
  pending,   \* pendingReads: the lists to fill
  from,      \* the one being filled, 0 while no fill runs
  part,      \* the items it has read
  writes,    \* cacheWrites: the cache, key and previous value of each
  kept,      \* the wrappers the running job met
  call,      \* the read that began the fill
  before     \* history: the registry and slots when it began

caches == <<registry, slots>>
heap == <<held, dead>>
fill == <<pending, from, part, writes, kept, call, before>>
vars == <<wraps, caches, items, heap, fill>>

Numbers == 1..MaxWrappers
Wrappers == {w \in Numbers : wraps[w] # Nil}
Keys == Range(Index) \X {"node", "aliasContent"}
NoCall == [holder |-> 0, key |-> <<0, "none">>]

\* The values each variable takes, and nothing of a fill is left when it ended.
TypeOK ==
  /\ wraps \in [Numbers -> Nodes \cup {Nil}]
  /\ registry \in [Keys -> 0..MaxWrappers]
  /\ slots \in [Numbers -> Seq(Wrappers)] /\ items \in [Numbers -> Seq(Wrappers)]
  /\ held \subseteq Wrappers /\ dead \subseteq Wrappers /\ kept \subseteq Wrappers
  /\ pending \in Seq(Wrappers) /\ from \in 0..Len(pending) + 1 /\ part \in Seq(Wrappers)
  /\ \A i \in 1..Len(writes) : writes[i].key \in (IF writes[i].cache = "registry" THEN Keys ELSE Wrappers)
  /\ from = 0 => pending = <<>> /\ part = <<>> /\ writes = <<>> /\ kept = {}

Init ==
  /\ wraps = [w \in Numbers |-> Nil] /\ registry = [k \in Keys |-> 0]
  /\ slots = [w \in Numbers |-> <<>>] /\ items = slots
  /\ held = {} /\ dead = {}
  /\ pending = <<>> /\ from = 0 /\ part = <<>> /\ writes = <<>>
  /\ kept = {} /\ call = NoCall /\ before = <<>>

-----------------------------------------------------------------------------
UserCode == from = 0
Live == Wrappers \ dead
Kids(w) == Range(slots[w]) \cup Range(items[w])

\* The number of the wrapper made next, while there is one.
Room == Wrappers # Numbers
New == Min(Numbers \ Wrappers)
Wrap(n) == Room /\ wraps' = [wraps EXCEPT ![New] = n]

\* registered: the wrapper at a key while it lives, else 0.
Registered(k) == IF registry[k] \in Live THEN registry[k] ELSE 0

\* The role a row is read in as node n: the row's own record is the outermost of its nodes.
RowRole(n) ==
  IF \E p \in Nodes : n \in Range(Children[p]) /\ Index[p] = Index[n]
  THEN "aliasContent" ELSE "node"

\* Fault: content is read as if its envelope had another row.
OneRole(p, n) == "node"

\* The role the content n of p is read in.
ContentRole(p, n) == IF Index[p] = Index[n] THEN "aliasContent" ELSE "node"

\* The routes to a node: its row, by a query or the link of a built record, or the slot of
\* a wrapper w that has not cached it.
ByRow(n) == [holder |-> 0, key |-> <<Index[n], RowRole(n)>>]
BySlot(w, n) == [holder |-> w, key |-> <<Index[n], ContentRole(wraps[w], n)>>]
Routes(n) ==
  {ByRow(n)} \cup {BySlot(w, n) : w \in {v \in held : n \in Range(Children[wraps[v]]) /\ slots[v] = <<>>}}

\* User code holds w, read by route r, whose holder caches it.
Hand(r, w) ==
  /\ held' = held \cup {w}
  /\ slots' = IF r.holder = 0 THEN slots ELSE [slots EXCEPT ![r.holder] = <<w>>]

ReadKnown(n, r) ==
  /\ UserCode /\ Registered(r.key) # 0
  /\ Hand(r, Registered(r.key))
  /\ UNCHANGED <<wraps, registry, items, dead, fill>>

\* A wrapper no list fills is registered as it is made.
ReadNew(n, r) ==
  /\ UserCode /\ Registered(r.key) = 0 /\ n \notin Lists
  /\ Wrap(n)
  /\ registry' = [registry EXCEPT ![r.key] = New]
  /\ Hand(r, New)
  /\ UNCHANGED <<items, dead, fill>>

\* A list's wrapper opens a fill before it is registered.
ReadList(n, r) ==
  /\ UserCode /\ Registered(r.key) = 0 /\ n \in Lists
  /\ Wrap(n)
  /\ pending' = <<New>> /\ from' = 1 /\ kept' = {New} \cup ({r.holder} \ {0})
  /\ call' = r /\ before' = caches
  /\ UNCHANGED <<caches, items, heap, part, writes>>

\* User code takes a child its wrapper holds already.
TakeChild(w, c) ==
  /\ UserCode /\ w \in held /\ c \in Kids(w) /\ held' = held \cup {c}
  /\ UNCHANGED <<wraps, caches, items, dead, fill>>

-----------------------------------------------------------------------------
(* The fill (holdReadItems).                                               *)

Filling == pending[from]
Wanted == Children[wraps[Filling]]
Reading == from \in 1..Len(pending) /\ Len(part) < Len(Wanted)
NextItem == Wanted[Len(part) + 1]
ItemKey == <<Index[NextItem], "node">>

FillKnown ==
  /\ Reading /\ Registered(ItemKey) # 0
  /\ part' = Append(part, Registered(ItemKey)) /\ kept' = kept \cup {Registered(ItemKey)}
  /\ UNCHANGED <<wraps, caches, items, heap, pending, from, writes, call, before>>

\* Fault: a registration is not noted for the undo.
FillUnnoted ==
  LET w == New
  IN /\ Reading /\ Registered(ItemKey) = 0
     /\ Wrap(NextItem)
     /\ pending' = IF NextItem \in Lists THEN Append(pending, w) ELSE pending
     /\ registry' = [registry EXCEPT ![ItemKey] = w]
     /\ part' = Append(part, w) /\ kept' = kept \cup {w}
     /\ UNCHANGED <<slots, items, heap, from, writes, call, before>>

\* An item wrapped and registered, queued if it is a list.
FillNew ==
  LET w == New
  IN /\ Reading /\ Registered(ItemKey) = 0
     /\ Wrap(NextItem)
     /\ pending' = IF NextItem \in Lists THEN Append(pending, w) ELSE pending
     /\ writes' = Append(writes, [cache |-> "registry", key |-> ItemKey, previous |-> registry[ItemKey]])
     /\ registry' = [registry EXCEPT ![ItemKey] = w]
     /\ part' = Append(part, w) /\ kept' = kept \cup {w}
     /\ UNCHANGED <<slots, items, heap, from, call, before>>

\* The items read are cached in the list's slot and held by its wrapper.
FillNext ==
  /\ from \in 1..Len(pending) /\ Len(part) = Len(Wanted)
  /\ writes' = Append(writes, [cache |-> "slot", key |-> Filling, previous |-> slots[Filling]])
  /\ slots' = [slots EXCEPT ![Filling] = part] /\ items' = [items EXCEPT ![Filling] = part]
  /\ from' = from + 1 /\ part' = <<>>
  /\ UNCHANGED <<wraps, registry, heap, pending, kept, call, before>>

EndFill ==
  /\ pending' = <<>> /\ from' = 0 /\ part' = <<>> /\ writes' = <<>>
  /\ kept' = {} /\ call' = NoCall /\ before' = <<>>

\* The outermost list's wrapper is registered once no list is left to fill.
FillDone ==
  /\ from = Len(pending) + 1 /\ ~UserCode
  /\ registry' = [registry EXCEPT ![call.key] = pending[1]]
  /\ Hand(call, pending[1]) /\ EndFill
  /\ UNCHANGED <<wraps, items, dead>>

\* The caches cs with the write e undone.
TakenBack(cs, e) ==
  IF e.cache = "registry"
  THEN <<[cs[1] EXCEPT ![e.key] = e.previous], cs[2]>>
  ELSE <<cs[1], [cs[2] EXCEPT ![e.key] = e.previous]>>

\* Fault: the last write is undone alone.
UndoneLast == IF writes = <<>> THEN caches ELSE TakenBack(caches, Last(writes))

\* The caches once the writes noted are undone, the last first.
Undone ==
  LET n == Len(writes)
      undone[i \in 0..n] == IF i = 0 THEN caches ELSE TakenBack(undone[i - 1], writes[n + 1 - i])
  IN undone[n]

\* Fault: what a thrown fill queued stays queued.
FillAbandoned ==
  /\ Reading
  /\ registry' = Undone[1] /\ slots' = Undone[2]
  /\ from' = 0 /\ writes' = <<>> /\ kept' = {} /\ call' = NoCall /\ before' = <<>>
  /\ UNCHANGED <<wraps, items, heap, pending, part>>

FillThrows ==
  /\ Reading
  /\ registry' = Undone[1] /\ slots' = Undone[2]
  /\ EndFill
  /\ UNCHANGED <<wraps, items, heap>>

-----------------------------------------------------------------------------
(* User code, the collector and its finalizers.                            *)

Drop(w) ==
  /\ UserCode /\ w \in held /\ held' = held \ {w}
  /\ UNCHANGED <<wraps, caches, items, dead, fill>>

\* A wrapper nothing holds but a WeakRef.
Collect(w) ==
  /\ w \in Live \ (held \cup kept \cup Range(pending))
  /\ \A v \in Live : w \notin Kids(v)
  /\ dead' = dead \cup {w}
  /\ slots' = [slots EXCEPT ![w] = <<>>] /\ items' = [items EXCEPT ![w] = <<>>]
  /\ UNCHANGED <<wraps, registry, held, fill>>

\* Fault: whatever entry the key has is deleted.
EntryOf(w) == [k \in Keys |-> IF k = <<Index[wraps[w]], RowRole(wraps[w])>> THEN 0 ELSE registry[k]]

\* Fault: an entry whose wrapper is gone is taken for another's.
EntryDereferenced(w) == [k \in Keys |-> IF Registered(k) = w THEN 0 ELSE registry[k]]

\* The registry a finalizer of w leaves: it deletes an entry only while it is the one w was
\* registered by.
EntryDeleted(w) == [k \in Keys |-> IF registry[k] = w THEN 0 ELSE registry[k]]

Finalize(w) ==
  /\ UserCode /\ w \in dead
  /\ registry' = EntryDeleted(w)
  /\ dead' = dead \ {w} /\ wraps' = [wraps EXCEPT ![w] = Nil]
  /\ UNCHANGED <<slots, items, held, fill>>

Next ==
  \/ \E n \in Nodes : \E r \in Routes(n) : ReadKnown(n, r) \/ ReadNew(n, r) \/ ReadList(n, r)
  \/ \E w \in held : Drop(w) \/ \E c \in Kids(w) : TakeChild(w, c)
  \/ FillKnown \/ FillNew \/ FillNext \/ FillDone \/ FillThrows
  \/ \E w \in Wrappers : Collect(w) \/ Finalize(w)

Spec == Init /\ [][Next]_vars

-----------------------------------------------------------------------------
(* Properties.                                                             *)

\* What user code reaches from the wrappers it holds.
Reached ==
  LET r[i \in Numbers \cup {0}] == IF i = 0 THEN held ELSE r[i - 1] \cup UNION {Kids(w) : w \in r[i - 1]}
  IN r[MaxWrappers]

\* identity.ts: whatever was collected, finalized or thrown, and by whichever route it is
\* reached, a node has one wrapper user code can meet, so === tells nodes apart.
OneWrapper == \A v, w \in Reached : wraps[v] = wraps[w] => v = w

\* The wrappers in s are of w's children, in order.
AreChildren(w, s) == [i \in 1..Len(s) |-> wraps[s[i]]] = Children[wraps[w]]

\* list-fills.ts, utils.ts: between calls each wrapper user code reaches or a read would
\* find holds, in its slot once read and in its items if it is a list, the very children of
\* its node, though a fill that met it threw and a child shares its row.
FoundWhole ==
  UserCode => \A w \in Reached \cup ({registry[k] : k \in Keys} \cap Live) :
                /\ slots[w] # <<>> => AreChildren(w, slots[w])
                /\ wraps[w] \in Lists => AreChildren(w, items[w])

\* A fill that hands nothing threw: it leaves the registry, and the slot of every wrapper
\* that lives, as they were when it began, though its lists read and cached what they met.
ThrownFillUndone ==
  [][from # 0 /\ from' = 0 /\ held' = held =>
       registry' = before[1] /\ \A w \in Live : slots'[w] = before[2][w]]_vars

\* No entry outlives its wrapper's finalizer, so the registry holds no more than lives or
\* waits to be finalized.
NoStaleEntry ==
  \A k \in Keys : registry[k] # 0 =>
    registry[k] \in Wrappers /\ k = <<Index[wraps[registry[k]]], RowRole(wraps[registry[k]])>>
=============================================================================
