------------------------------ MODULE TreeHolds ------------------------------
(***************************************************************************)
(* Who keeps a parsed tree.  A tree lives in the addon's LIVE_TREES until  *)
(* the finalizer of its token (engine.ts, treeDisposalRegistry) drops it.  *)
(* What names it natively, a link record or side record of the built arena *)
(* or a coordinate in a written side, is invisible to the collector, so    *)
(* JavaScript keeps tokens in its stead: `#trees' counts the link and side *)
(* records naming a tree (built-arena.ts, holdTree), sideHolds keeps the   *)
(* token of each tree a side written at a place names (holdSideEntries).   *)
(*                                                                         *)
(* The count of a record is BuiltArena's business: here a record is live   *)
(* while the handle of its builder owns a count or a live row names it,    *)
(* and one call releases all that falls with it.  One engine, whose dispose*)
(* leaves its trees, and whose arena user code goes on holding; a token and*)
(* its tree's handle reach each other, so they are one.                    *)
(***************************************************************************)
EXTENDS Naturals, FiniteSets

CONSTANTS
  Records,         \* addresses of built records
  Nil,             \* an empty row, no tree
  MaxTrees,        \* bound: tree ids claimed (MAX_TREE_ID)
  MaxSideRecords,  \* bound: side records live at once
  MaxWritten       \* bound: places whose side is written at once

ASSUME ConstantsAssumption ==
  /\ MaxTrees \in Nat /\ MaxSideRecords \in Nat /\ MaxWritten \in Nat
  /\ Nil \notin Records \cup (1..MaxTrees) /\ Records \cap (1..MaxTrees) = {}

Trees == 1..MaxTrees
SideRecords == 1..MaxSideRecords
Entries == Trees \cup Records \cup {Nil}

\* Where a side is written: a record, the site of a leaf it holds, a row of a parsed tree.
RecordPlaces == Records \X {"side", "leaf"}
TreePlaces == Trees \X {"row"}
Places == RecordPlaces \cup TreePlaces

VARIABLES
  nextId,   \* the next tree id to claim
  live,     \* LIVE_TREES
  named,    \* the trees an object of user code holds the token of
  links,    \* #trees: the link and side records counted for each tree
  pending,  \* the trees of link and side records released, not yet taken
  used,     \* the records built so far
  recs,     \* the records not released
  owned,    \* the records whose builder's handle holds a count
  link,     \* the tree the link record in a record's cell names
  from,     \* the side record a record names, 0 for none
  names,    \* the tree each side record names, Nil when it is released
  rows,     \* the entry written at each place
  holds,    \* sideHolds: the token kept for each place
  disposed  \* BuiltChunks.released: the engine was disposed

trees == <<nextId, live, named>>
records == <<used, recs, owned, link, from, names>>
vars == <<trees, links, pending, records, rows, holds, disposed>>

\* The values each variable takes.
TypeOK ==
  /\ nextId \in 1..MaxTrees + 1 /\ live \in SUBSET Trees /\ named \in SUBSET Trees
  /\ links \in [Trees -> Nat] /\ pending \in [Trees -> Nat]
  /\ used \in SUBSET Records /\ recs \in SUBSET used /\ owned \in SUBSET recs
  /\ link \in [Records -> Trees \cup {Nil}]
  /\ from \in [Records -> SideRecords \cup {0}]
  /\ names \in [SideRecords -> Trees \cup {Nil}]
  /\ rows \in [Places -> Entries]
  /\ holds \in [Places -> Trees \cup {Nil}]
  /\ disposed \in BOOLEAN /\ (disposed => recs = {})

Init ==
  /\ nextId = 1 /\ live = {} /\ named = {}
  /\ links = [t \in Trees |-> 0] /\ pending = [t \in Trees |-> 0]
  /\ used = {} /\ recs = {} /\ owned = {}
  /\ link = [r \in Records |-> Nil]
  /\ from = [r \in Records |-> 0]
  /\ names = [s \in SideRecords |-> Nil]
  /\ rows = [p \in Places |-> Nil]
  /\ holds = [p \in Places |-> Nil]
  /\ disposed = FALSE

-----------------------------------------------------------------------------
(* Releases.                                                               *)

\* The records that fall, one after another, when the handles own, the rows w and the
\* trees T are left: no handle owns them and only rows of what has fallen name them.
Fallen(own, w, T) ==
  LET fell[n \in 0..Cardinality(recs)] ==
        IF n = 0 THEN {}
        ELSE {x \in recs \ own : \A p \in Places : w[p] = x => p[1] \notin (recs \ fell[n - 1]) \cup T}
  IN fell[Cardinality(recs)]

\* How many link and side records naming t the records R keep; a link record is
\* interned, one for each tree.
Anchors(t, R, n) ==
  (IF \E r \in R : link[r] = t THEN 1 ELSE 0) + Cardinality({s \in {from[r] : r \in R} \ {0} : n[s] = t})

\* A native release: the fallen records' rows go with them, and the trees of the
\* link and side records they let go wait in `pending' until a releaseBuilt takes them,
\* which answers them to #released.
Releasing(own, w, T, taken) ==
  LET F == Fallen(own, w, T)
      Gone(t) == Anchors(t, recs, names) - Anchors(t, recs', names')
  IN /\ recs' = recs \ F /\ owned' = own \ F
     /\ rows' = [p \in Places |-> IF p[1] \in F THEN Nil ELSE w[p]]
     /\ names' = [s \in SideRecords |-> IF \E r \in recs' : from[r] = s THEN names[s] ELSE Nil]
     /\ IF taken
        THEN /\ links' = [t \in Trees |-> links[t] - pending[t] - Gone(t)]
             /\ pending' = [t \in Trees |-> 0]
        ELSE /\ pending' = [t \in Trees |-> pending[t] + Gone(t)]
             /\ UNCHANGED links

-----------------------------------------------------------------------------
(* Trees: parse, what user code holds of them, and the collector.          *)

\* The trees whose token is reachable: through an object of user code, through #trees,
\* through the holds of the arena's table or of the table of a reachable tree.
Reachable ==
  LET found[n \in 0..MaxTrees] ==
        IF n = 0 THEN {t \in live : t \in named \/ links[t] > 0}
        ELSE found[n - 1] \cup {t \in live : \E p \in Places : holds[p] = t /\ p[1] \in Records \cup found[n - 1]}
  IN found[MaxTrees]

\* A parse claims an id no tree had before; one that fails keeps nothing.
Parse ==
  /\ nextId <= MaxTrees
  /\ nextId' = nextId + 1
  /\ live' = live \cup {nextId}
  /\ named' = named \cup {nextId}
  /\ UNCHANGED <<links, pending, records, rows, holds, disposed>>

\* User code drops the last object it has of a tree.
Forget(t) ==
  /\ t \in named
  /\ named' = named \ {t}
  /\ UNCHANGED <<nextId, live, links, pending, records, rows, holds, disposed>>

\* The finalizer of a token nothing reaches drops the tree, and with it its sides.
DisposeTree(t) ==
  /\ t \in live \ Reachable
  /\ live' = live \ {t}
  /\ Releasing(owned, [rows EXCEPT ![<<t, "row">>] = Nil], live', FALSE)
  /\ holds' = [holds EXCEPT ![<<t, "row">>] = Nil]
  /\ UNCHANGED <<nextId, named, used, link, from, disposed>>

-----------------------------------------------------------------------------
(* Records.                                                                *)

Entry(e) == e \in named \cup recs \cup {Nil}

\* #trees with one more link or side record of tree t.
HoldTree(t, counted) == [counted EXCEPT ![t] = @ + 1]

\* Fault: a known link record is handed out though it was released.
LinkOnce(t) == IF t = Nil \/ (\E r \in used : link[r] = t) THEN links ELSE HoldTree(t, links)

\* The link record of tree t is interned while a live cell holds it; a new one holds
\* its tree.
Link(t) == IF t = Nil \/ (\E r \in recs : link[r] = t) THEN links ELSE HoldTree(t, links)

\* A builder: a record with a cell linking a node of tree t, or none, and a leaf whose
\* leading side holds e, written at its site.
Build(r, t, e) ==
  /\ ~disposed /\ r \notin used /\ t \in named \cup {Nil} /\ Entry(e)
  /\ used' = used \cup {r} /\ recs' = recs \cup {r} /\ owned' = (owned \ {e}) \cup {r}
  /\ link' = [link EXCEPT ![r] = t]
  /\ links' = Link(t)
  /\ rows' = [rows EXCEPT ![<<r, "leaf">>] = e]
  /\ holds' = [holds EXCEPT ![<<r, "leaf">>] = IF e \in Trees THEN e ELSE Nil]
  /\ UNCHANGED <<trees, pending, from, names, disposed>>

\* The token a read of e from place p finds: its own tree's, or one the table keeps.
Token(p, e) ==
  IF e \in Trees /\ (e = p[1] \/ \E q \in Places : holds[q] = e /\ (p = q \/ {p, q} \subseteq RecordPlaces)) THEN e ELSE Nil

\* An edit of record p makes r: its cells and its side record are held once more,
\* its sides read and written again, the sides of its leaf, unless the edit replaces
\* the leaf, copied natively.
Edit(p, r, replaced) ==
  LET side == rows[<<p, "side">>]
  IN /\ p \in recs /\ r \notin used
     /\ used' = used \cup {r} /\ recs' = recs \cup {r} /\ owned' = owned \cup {r}
     /\ link' = [link EXCEPT ![r] = link[p]]
     /\ from' = [from EXCEPT ![r] = from[p]]
     /\ rows' = [rows EXCEPT ![<<r, "side">>] = side,
                             ![<<r, "leaf">>] = IF replaced THEN Nil ELSE rows[<<p, "leaf">>]]
     /\ holds' = [holds EXCEPT ![<<r, "side">>] = Token(<<p, "side">>, side)]
     /\ UNCHANGED <<trees, links, pending, names, disposed>>

HeldOnlyByHandle(r) == r \in owned /\ \A p \in Places : p[1] \in recs \cup live => rows[p] # r

\* Fault: a record rebuilt from a parsed node in place counts no tree.
RebuildUncounted(r, t, s) ==
  /\ r \in recs /\ HeldOnlyByHandle(r) /\ t \in named /\ names[s] = Nil
  /\ from' = [from EXCEPT ![r] = s]
  /\ names' = [names EXCEPT ![s] = t]
  /\ UNCHANGED <<trees, links, pending, used, recs, owned, link, rows, holds, disposed>>

\* A builder's record that stands in for a node of tree t names it in a side record
\* of its own: in place when its handle alone holds it, and the side record it had
\* is dropped.
RebuildInPlace(r, t, s) ==
  LET old == from[r]
      drops == old # 0 /\ \A q \in recs \ {r} : from[q] # old
  IN /\ r \in recs /\ HeldOnlyByHandle(r) /\ t \in named /\ names[s] = Nil
     /\ from' = [from EXCEPT ![r] = s]
     /\ names' = [n \in SideRecords |-> IF n = s THEN t ELSE IF drops /\ n = old THEN Nil ELSE names[n]]
     /\ IF drops
        THEN /\ links' = HoldTree(t, [u \in Trees |-> links[u] - pending[u] - (IF names[old] = u THEN 1 ELSE 0)])
             /\ pending' = [u \in Trees |-> 0]
        ELSE links' = HoldTree(t, links) /\ UNCHANGED pending
     /\ UNCHANGED <<trees, used, recs, owned, link, rows, holds, disposed>>

\* Else in a copy, its cells held once more and its leaf's sides copied natively.
RebuildCopy(p, r, t, s) ==
  /\ p \in recs /\ ~HeldOnlyByHandle(p) /\ r \notin used /\ t \in named /\ names[s] = Nil
  /\ used' = used \cup {r} /\ recs' = recs \cup {r} /\ owned' = owned \cup {r}
  /\ link' = [link EXCEPT ![r] = link[p]]
  /\ from' = [from EXCEPT ![r] = s]
  /\ names' = [names EXCEPT ![s] = t]
  /\ links' = HoldTree(t, links)
  /\ rows' = [rows EXCEPT ![<<r, "leaf">>] = rows[<<p, "leaf">>]]
  /\ UNCHANGED <<trees, pending, holds, disposed>>

\* Releases the count the handle of r holds, if it holds one, and takes the trees.
Release(r) ==
  /\ ~disposed /\ r \in used
  /\ Releasing(owned \ {r}, rows, live, TRUE)
  /\ UNCHANGED <<trees, used, link, from, holds, disposed>>

\* The engine's dispose lets go of every chunk, and so of the records, link and side records
\* included.  The trees, the rows of the store and what JavaScript counts and keeps stay.
DisposeEngine ==
  /\ ~disposed /\ disposed' = TRUE
  /\ recs' = {} /\ owned' = {} /\ names' = [s \in SideRecords |-> Nil]
  /\ link' = [r \in Records |-> Nil] /\ from' = [r \in Records |-> 0]
  /\ UNCHANGED <<trees, links, pending, used, rows, holds>>

-----------------------------------------------------------------------------
(* Sides and reads.                                                        *)

\* Fault: an overwritten side keeps what the first write held.
HoldFirst(p, e) == [holds EXCEPT ![p] = IF @ = Nil /\ e \in Trees THEN e ELSE @]

\* A write replaces what the place's table keeps for the place.
HoldSideEntries(p, e) == [holds EXCEPT ![p] = IF e \in Trees THEN e ELSE Nil]

\* A side written at a place of a live record or of a tree user code holds: the entry
\* is held, what the place named before released natively, then the token kept.  A
\* record in a side of its own, which a debug build refuses, is left out.
WriteSide(p, e) ==
  /\ p[1] \in recs \cup named /\ Entry(e) /\ e \notin Records \cap {p[1]}
  /\ disposed => rows[p] \notin Records
  /\ Releasing(owned \ {e}, [rows EXCEPT ![p] = e], live, FALSE)
  /\ holds' = HoldSideEntries(p, e)
  /\ UNCHANGED <<trees, used, link, from, disposed>>

\* After a dispose, a write over a side naming a record is refused half way: the side is
\* replaced natively, releasing the record throws, and no token is kept.
WriteHalfDone(p, e) ==
  /\ disposed /\ p[1] \in named /\ Entry(e) /\ rows[p] \in Records
  /\ rows' = [rows EXCEPT ![p] = e]
  /\ UNCHANGED <<trees, links, pending, records, holds, disposed>>

\* A read of the coordinate written at a place holds the token it finds; without one
\* the node is refused when it is hydrated.
ReadSide(p) ==
  /\ p[1] \in recs \cup named
  /\ Token(p, rows[p]) # Nil
  /\ named' = named \cup {Token(p, rows[p])}
  /\ UNCHANGED <<nextId, live, links, pending, records, rows, holds, disposed>>

\* A read of the linked child of a record, from the tree #trees holds.
ReadLink(r) ==
  /\ r \in recs /\ link[r] # Nil /\ links[link[r]] > 0
  /\ named' = named \cup {link[r]}
  /\ UNCHANGED <<nextId, live, links, pending, records, rows, holds, disposed>>

FewWritten == Cardinality({p \in Places : rows'[p] # Nil}) <= MaxWritten

Step ==
  \/ Parse \/ DisposeEngine
  \/ \E t \in Trees : Forget(t) \/ DisposeTree(t)
  \/ \E r \in Records, t \in Trees \cup {Nil}, e \in Entries : Build(r, t, e)
  \/ \E p, r \in Records, replaced \in BOOLEAN : Edit(p, r, replaced)
  \/ \E r \in Records, t \in Trees, s \in SideRecords : RebuildInPlace(r, t, s)
  \/ \E p, r \in Records, t \in Trees, s \in SideRecords : RebuildCopy(p, r, t, s)
  \/ \E r \in Records : Release(r) \/ ReadLink(r)
  \/ \E p \in Places, e \in Entries : WriteSide(p, e) \/ WriteHalfDone(p, e)
  \/ \E p \in Places : ReadSide(p)

Next == Step /\ FewWritten

Spec == Init /\ [][Next]_vars

-----------------------------------------------------------------------------
(* Properties.                                                             *)

\* #trees counts exactly the link and side records that name a tree and those whose
\* release no call has taken yet, however copies share them and wherever they fell, until
\* the engine's dispose, of which no release tells.
LinksCounted == disposed \/ \A t \in Trees : links[t] = Anchors(t, recs, names) + pending[t]

\* A tree is live while user code has an object of it, while a live record links it,
\* is rebuilt from it or has a written side naming it, and while a side of a tree
\* that can still be read names it, of a disposed engine too, but for a side whose write
\* was refused half way.
NamedTreesLive ==
  /\ named \subseteq live
  /\ \A r \in recs : {link[r], rows[<<r, "side">>]} \cap Trees \subseteq live
  /\ \A r \in recs : from[r] # 0 => names[from[r]] \in live
  /\ \A t \in Reachable :
       LET p == <<t, "row">>
       IN rows[p] \in Trees => rows[p] \in live \/ (disposed /\ holds[p] # rows[p])

\* The same of the side a record's leaf was given or copied.
LeafTreesLive == \A r \in recs : rows[<<r, "leaf">>] \in Trees => rows[<<r, "leaf">>] \in live

\* engine.ts: what reaches a tree's token is user code, a link or side record, a side that is
\* still written, or what sideHolds kept for a record since released, which nothing drops.
OnlyNamedReachable ==
  \A t \in Reachable :
    \/ t \in named \/ links[t] > 0 \/ \E p \in Places : rows[p] = t
    \/ \E p \in RecordPlaces : holds[p] = t /\ p[1] \notin recs
=============================================================================
