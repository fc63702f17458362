# Verification of sittir's runtime in TLA+

sittir reads a tree-sitter grammar and generates typed readers, builders and
renderers for its language. This directory holds TLA+ models of the parts of the
repository whose correctness depends on the order of things: who holds what, in
which scope, and what is freed when.

The core of it is the **built arena**, the reference-counted records
that every builder call writes, because everything a user does with a built node
goes through it, because its state is shared between JavaScript and Rust, and
because a mistake in it is a read of freed memory or a leak that no unit test of
one call sees. Around it are models of what else is held across calls: the
parsed trees and the tokens that keep them, the sides of built leaves, the chunks
of memory under all of it and the numbers they go by, and the
wrappers of parsed nodes.

## The system: inventory

Paths below are relative to the repository. `common` is `packages/common/src`,
`core` is `rust/crates/sittir-core/src`.

| Part | State | Operations | What must hold |
|---|---|---|---|
| Built arena (`common/built-arena.ts`, `core/arena.rs`, `core/arena/count.rs`) | word and string chunks, a count byte per entry with an OWNED bit, an overflow map, `#minted`, `#moved`, `#undos`, `#scopes` | draft, copy, store, patch, hold, drop, release, the rollback of a throw, seal, free, detach, sweep | no count is spent twice; what a live record names is live; nothing leaks; a throw restores its arguments |
| Commit scopes (`engine.scope()`, `commit`, `#keep`, `#close`) | `#commits`, each with its mark and kept nodes | open, keep, close, nested | a kept node outlives the scope; a close releases the rest; a close never fails half way |
| Scoped builds and interceptors (`common/create-engine.ts`, `common/utils.ts`) | the engine in scope, the build's arena scope | an intercepted call, a `$with` and the carry of sides after it | an interceptor's own work is rolled back with the build it is in |
| Trivia store (`core/trivia_store.rs`, `core/arena/built.rs`) | sides keyed by record, unit and leaf site | write, write over, copy, drop with the holder | a side holds what it names; a released holder's sides go with it |
| Leaf sites, parked sides, deferred work (`common/built-ref.ts`, `defer`, `settle`, `repark`) | sites on leaf handles, sides parked by unplaced leaves, work per record | place, move, prune, park, unpark, settle | a site names the record it was written for; parked holds are undone once |
| Chunks and buffers (`core/arena.rs`, `core/napi_engine.rs`, class `Chunks`) | numbers, the queue of freed numbers, buffers over native memory | allocate, seal, free, detach, reuse a number | no view outlives the memory it shows; a reused number is never taken for the old chunk |
| Parsed trees (`common/engine.ts`, `common/tree-token.ts`, `core/engine.rs`) | the addon's live trees, tokens, a finalization registry, the shared tree-id counter | parse, read, dispose, finalize | a tree lives while anything names it; ids are never reused |
| Wrapper identity (`common/identity.ts`, `common/list-fills.ts`) | weak wrappers per node and role | register, look up, finalize, undo | one live wrapper per node and role |
| Engine lifecycle (`common/create-engine.ts`, `common/engine-scope.ts`) | `handle.current`, the active handle, the language cache | create, dispose, nest, retry a load | a disposed engine refuses; nesting restores the caller's engine |
| Reading, rendering, spacing, queries, snapshots | none that outlives a call | pure functions of a tree | round trips; left to the repository's own tests |
| Grammar compiler (`packages/codegen/src/compiler`) | one run's intermediate forms | evaluate, link, normalize, simplify, assemble, emit | sequential and pure; not modelled |
| Manifests and native freshness (`packages/codegen/src/scripts`) | digests of sources and outputs, build stamps | record, verify | what is recorded is what was read |
| Tools and command line (`packages/tools`, `packages/cli`) | git state, the baseline, the history | merge and regenerate, ratchet | see the plan |

**Interaction.** A builder call enters `scopedBuild`'s proxy, which puts its engine
in scope, opens an arena scope and calls the interceptors, whose `next` runs
the generated builder; that opens an inner arena scope, drafts a record, stores
each slot and returns a handle. JavaScript writes the chunks and the counts
itself and calls native code to open a chunk, to release a last count and to
count past a saturated byte. Native code releases what a record held, sides
included, frees the chunks that this empties and detaches their buffers in the same
call; JavaScript drops its own tables of a freed chunk the next time it
allocates.

**What is hard.** JavaScript has one thread and a native call runs to its end,
so no two calls run at once. What interleaves is user code with a build,
through interceptors, and operations with the past: records released long ago,
chunks freed but not swept, counts moved by a build that may still throw, nodes
kept by a scope that is gone. `PROJECT.json` lists these hazards with their lines.

## Modules

| Module | What it is |
|---|---|
| `BuiltArena` | the arena: counts, places, chunks, builds, rollback, sides, commit scopes |
| `BuiltKeeps` | `BuiltArena` with a history of who relies on a kept node |
| `BuiltRollback` | `BuiltArena` with a history of what each build found when it began |
| `BuiltArenaProofs` | the inductive invariant of `BuiltArena` and its theorems |
| `BuiltScopesProofs` | what kept nodes, builds that throw and drafts add to it |
| `RecordCount` | what one entry's count promises, abstractly |
| `CountByte` | the count as it is stored: byte, OWNED bit, overflow map |
| `CountByteProofs` | `CountByte` implements `RecordCount` |
| `TreeHolds` | who keeps a parsed tree: tokens, link and side records, written sides, the finalizer |
| `ParkedSides` | the sides of built leaves: sites, parks, their undo, keeps of leaves |
| `ChunkNumbers` | chunks of records and of text: their numbers, buffers and sweep, and what goes by an address whose number is given out again |
| `WrapperIdentity` | the wrappers of parsed nodes: registry, collector, list fills and their undo |
| `TreeHoldsProofs`, `ParkedSidesProofs`, `ChunkNumbersProofs`, `WrapperIdentityProofs` | the inductive invariant of each and its theorems |
| `Recursion` | induction and recursive functions in a form the provers can use |
| `MCBuiltArena`, `MCBuiltKeeps`, `MCBuiltRollback`, `MCCountByte`, `MCTreeHolds`, `MCParkedSides`, `MCChunkNumbers`, `MCWrapperIdentity` | the instances TLC checks |

`TreeHolds` and `ParkedSides` each compose the arena with one more part of the
runtime. They keep of the arena what that part sees: in `TreeHolds` a record is
live or not, in `ParkedSides` comments have counts and holders are live or not.
That the arena's counts do this is what `BuiltArena` and its proofs are about.
`ChunkNumbers` is the other way round: `BuiltArena` never uses a number twice and
frees a chunk by deriving that it is empty, and `ChunkNumbers` has the queue, the
buffers and the tables that this leaves out, with records only handles hold.

### `BuiltArena`: the state

| Variable | In the code |
|---|---|
| `count`, `owned` | the count byte of an entry, its overflow included, and its OWNED bit |
| `words` | the cells of records, the items of runs, and the rows of the trivia store |
| `counted` | ghost: the places whose word holds a count (a released record's cells stay written, but hold nothing) |
| `dead` | the stack of `BuiltChunks::release` |
| `chunkOf`, `open` | where an entry lies; `BuiltChunks.open` for words |
| `swept` | the chunks `#sweep` was told of; a chunk is *freed* when it is sealed and empty, which is derived |
| `handed` | the nodes a builder returned, which user code may use at any time, released or not |
| `minted`, `moved`, `commits` | `#minted`, `#moved`, `#commits` |
| `frames` | `#scopes` with each scope's locals: `minted`, `moved`, and the record being drafted |
| `call` | the loop of the public call under way: `#copyCells`, the carry of sides, `#abandon`, `#close` |

A run (a list's entry) is an entry like a record, with a count that no handle
owns. Cells, items and sides are all *places*, pairs of an entry and a name.

### `BuiltArena`: the actions

* *Builds.* `InterceptBuild`/`FinishIntercepted` bracket an interceptor;
  `BuildRecord` drafts a record, `StoreCell`, `StoreRun` and `StoreItem` fill it,
  `InternText` writes a leaf's text, `FinishBuild` returns it.
* *Edits.* `EditRecord` drafts the copy, `CopyCell` copies and holds each cell,
  `PatchCell` drops the one an edited slot replaces; after the scope, `CarrySide`
  writes the source's sides to the result and `ReturnEdit` or `RefuseEdit` ends it.
* *Throws.* `Throw` (or `CopyRefused`) starts `#abandon`: `GiveBackMoved` and
  `FreeMinted`, latest first, then `Abandoned`; `AbandonRefused` when the
  rollback itself throws.
* *The native release.* `Release`: one step per place dropped, until the stack is
  empty. Nothing else runs meanwhile.
* *Nodes.* `ReleaseNode`, `WriteSide`.
* *Commit scopes.* `OpenCommit`, `Keep`, `CloseCommit`, `CloseNext` for each
  record, `Closed`, or `CloseRefused` when the close throws.

A call that is refused before it changes anything is not a step.

### `CountByte`

One entry's count, both sides of the language boundary: `HoldMoving`, `HoldTaking`,
`GiveBack` and the fast path of `Drop` are JavaScript's; `Adopt`, `DropCount` and
`ReleaseOwned` are Rust's. `low` saturates at `Saturated` (127 in the code)
and the rest is in `overflow`. `BuiltArena` uses a plain number for the count;
`CountByte` is why it may.

### `TreeHolds`

| Variable | In the code |
|---|---|
| `live` | the addon's `LIVE_TREES`, one entry per parsed tree |
| `named` | the trees an object of user code holds the token of |
| `links`, `pending` | `#trees` and its link counts; `BuiltChunks.trees`, which waits for the next `releaseBuilt` |
| `recs`, `owned`, `link`, `from`, `names` | records, handles, link records, `rebuiltFrom` and side records |
| `rows`, `holds` | what is written at each place; `sideHolds`, the tokens kept for it |
| `disposed` | `BuiltChunks.released` |

A place is a record's side, the site of its leaf, or a row of a parsed tree.
`Releasing` is a native release: it computes all the records that fall with
the first and where their trees go. `Reachable` is what the collector sees;
`DisposeTree` is the finalizer of a token outside it. `Edit` and `RebuildCopy`
copy sides in the two ways the code does, through JavaScript or natively.
`DisposeEngine` frees every record and leaves the trees; `WriteHalfDone` is a side write
that the disposed arena refuses after the side was replaced.

### `ParkedSides`

`written` is the list of trivia objects ever made, `trivia` the one each leaf's
handle has, `parked` the keys of `#parkedBy`, `listed` is `#parked`, `undos`
is `#undos` with each closure's captured variables. `BuildHolder` places a leaf,
`WriteLeaf` is a write of its sides with `repark`, `WriteSite` the write through a
holder; `UndoLast`, `GiveBackMoved` and `FreeMinted` are the three loops of
`#abandon`; `KeepLeaf`, `CloseCommit` and `ReleaseLeaf` are what a commit scope
and a release do with a leaf. The undo of a write drops the new sides (`Dropped`), then
holds the old ones (`ParksCounted`), and the drop may release the very comment that is
held next. `hold` then throws (`HoldRefused`), and so does `#abandon`: `UndoRefused` ends
the scope with the new sides in place and not parked, nothing given back, nothing
released, and every undo still in the list if a scope is around it. `GiveBackRefused` is
the same in the second loop.

Three parts are history. `loose` has the objects made or replaced by writes at which `repark` returns
early, and by those whose undos a stopped rollback left. A frame's `touched` says that
user code did more than build in its scope; `strayed`, that it did what no undo takes back:
released a leaf, kept one that had to park its sides, or wrote one where it was placed.
A frame also remembers the `trivia` and `parked` its scope began with.

### `ChunkNumbers`

| Variable | In the code |
|---|---|
| `chunks`, `taken`, `open`, `free` | `BuiltChunks.chunks` and its length, `open`, `free` |
| `detached`, `unreported` | the buffers `detach_chunk` emptied, `Buffers.unreported` |
| `views` | `Chunks.chunks`, words and bytes together: the buffer JavaScript has at each number |
| `number`, `form`, `made` | ghost: each chunk ever made, by its place in the order, and the number it got |
| `used`, `texts`, `cells`, `live` | what is written in a chunk, the cells naming a text of it, the records with a count |
| `entry`, `sites`, `pruneSites` | a leaf's `$entry` and its site list |
| `given` | the records whose handle a build returned, released or not |
| `rows` | the trivia store's rows, with the record they were written for |
| `sided`, `deferred`, `waiting`, `prune` | `#sided`, `#deferred`, `#deferredCount`, `#pruneAt` |

`Alloc` is `built_chunk` and the `#push` around it: a number, the seal of the open
chunk, the detaching of what was freed, the sweep, the new buffer. `NativeRelease`
is a release and the `settle` after it. A build is `Draft` or `DraftInNew`, then
`StoreLeaf` or `StoreInNew` when it holds a leaf, then `View`; it may throw
(`StoreRefused`, `ViewRefused`). A record is its memory and word, not its address:
`Address` is what the code has, so two records may have one, and the properties
say that the code does not take one for the other.

### `WrapperIdentity`

`registry` is the map of `WeakRef`s, `slots` the slot cache of each wrapper,
`items` what a list's wrapper holds, and `pending`, `from`, `part`, `writes` are
`pendingReads`, the loop over it and `cacheWrites`. `Collect` and `Finalize` are
the collector: a wrapper dies when nothing but the registry names it, and its
finalizer runs in a later job. `FillKnown`, `FillNew`, `FillNext`, `FillDone`
and `FillThrows` are one list fill, read by read.

## What is checked

| Run | Instance | Shows |
|---|---|---|
| `keeps` | 3 records, 1 cell, 2 frames, 1 commit scope, 2 chunks, interceptors write | `TypeOK`, `CountsCover`, `NoDangling`, `KeptLives`, `FreedStaysFreed` |
| `rollback` | 4 records, 1 cell, 2 frames, 1 commit scope, 1 chunk | `CountsExact`, `RollbackRestores` |
| `leaks` | 3 records, 1 cell, 1 side, 1 frame, 1 commit scope, 2 chunks | `NothingLeaks`, `NoDangling` |
| `calls_end` | 3 records, 1 cell, 1 frame, 1 commit scope, 2 chunks | `CallsEnd` |
| `count_byte` | bytes that saturate at 3, counts to 60 | `CountRefines` |
| `close_refused` | 2 records, 2 chunks | `CloseNeverRefused` is violated |
| `kept_outlives` | 3 records, 1 chunk | `KeptOutlives` is violated |
| `trees` | 2 records, 2 trees, 2 side records, 2 places written at once | `LinksCounted`, `NamedTreesLive`, `OnlyNamedReachable` |
| `leaves` | 1 comment, 2 holders, 1 leaf, 2 trivia objects, 2 frames, 1 commit scope | `SidesCover`, `SidesExact`, `ParksReclaimable`, `RollbackRestoresLeaves`, `KeptLeafStaysHeld` |
| `wrappers` | two nested lists, an alias envelope and its content, 4 wrappers at once | `OneWrapper`, `FoundWhole`, `NoStaleEntry`, `ThrownFillUndone` |
| `chunks` | 2 leaves, 3 numbers, 4 chunks of two records or one text, 1 record with a side or work at a time | `NumbersApart`, `ViewsCurrent`, `TextsHeld`, `SidesFaithful`, `DeferredFaithful`, `ReleasesOwn` |
| `copied_leaf` | as `trees` | `LeafTreesLive` is violated |

* `CountsCover`: a record's count is at least its handle's count and the places
  that hold it. This is what keeps every other holder safe when one lets go.
* `CountsExact`: equality, when interceptors only build.
* `NoDangling`: every cell and side of a live record names a live record, in a
  chunk that was not freed.
* `RollbackRestores`: a build that throws leaves each handle with the count it
  had when the build began.
* `KeptLives`: a node an open scope keeps is live until its holder lets it go.
* `FreedStaysFreed`: no keep, rollback, side or edit revives a freed chunk.
* `NothingLeaks`: when every handle let go and no side is written, every record
  is released.
* `CallsEnd`: a throw, a release and a close come to their end.
* `LinksCounted`: JavaScript's count of the link and side records naming a tree,
  with what waits for the next release, is the number there are.
* `NamedTreesLive`: a tree is not dropped while user code, a record, or a side
  that can still be read names it, after the engine's dispose too, but for a side whose
  write a disposed arena refused half way.
* `OnlyNamedReachable`: what keeps a tree's token is user code, a link or side record,
  or a side still written, but for what `sideHolds` keeps of a released record.
* `SidesCover`: no comment is released while a row, a park or its handle holds it.
* `SidesExact`: nor is a count of one lost, until a build throws whose
  interceptor itself wrote, kept or released a side.
* `RollbackRestoresLeaves`: a build that throws leaves each leaf the sides and
  the park it had, though a site took the park over inside it or an interceptor
  replaced the sides. It says nothing of scopes that `strayed`; where user code did more
  than build, an undo may be refused instead, and the property says that nowhere else one is.
* `KeptLeafStaysHeld`: a leaf an open scope keeps goes on parking its sides, until it is
  released or written, or the undo of a write of it is refused.
* `ParksReclaimable`: between calls, what the arena counts for a leaf's sides is of the
  trivia object that leaf has, so its release lets it go, but for sides a write at a
  placed leaf made or replaced and those a stopped rollback left.
* `NumbersApart`: a number names one chunk or waits once to be given out, and a
  sealed chunk is there only while something in it is live.
* `ViewsCurrent`: JavaScript's buffer at a number shows the chunk native code has
  there, or is detached and about to be swept.
* `TextsHeld`: a live record's cell names its own leaf's text, in a chunk not freed.
* `SidesFaithful`: a read of a handle's side never shows another record's.
* `DeferredFaithful`: deferred work only runs for the record it was deferred for, and
  the count that lets a settle return early is right.
* `ReleasesOwn`: the release of a handle releases that handle's record or nothing.
* `OneWrapper`: a node has one wrapper that user code can meet, by every route.
* `FoundWhole`: what is cached in a wrapper is its node's children, whole.
* `NoStaleEntry`: a registry entry does not outlive its wrapper's finalizer.
* `ThrownFillUndone`: a fill that throws leaves registry and slots as it found
  them, in the lists it had completed too.

**Bounds.** `Records` bounds the entries ever placed: three are an argument, a
parent and its edit, or a record, a run and an item; four add a second argument
or a second edit to a rollback. Two frames give a build inside an interceptor
inside nothing else, which is the smallest nesting in which an inner scope's end
differs from the outer one's; two chunks give one sealed and one open. One
commit scope is enough for a keep, its close and what follows; deeper nesting and
longer runs are covered by the proofs, which hold for any constants. `MaxFrames`, `MaxCommits`
and `MaxChunks` are guards of the actions that push on them. Record symmetry is
used where no liveness is checked.

In `trees`, `MaxTrees` bounds the ids claimed, `MaxSideRecords` the side records
and `MaxWritten` (`FewWritten`) the places with a written side at one time: two
of each let a tree be named by a copy after its original was overwritten, a tree's
side name another tree, and a record be released while another shares its
side record. In `leaves`, `MaxWrites` bounds trivia objects and the entries of
`#parked`: one to park, one to replace it. An interceptor may do anything in any
build; `tainted` counts the throws of builds in which it did more than build, and after
`MaxTaints` of them no interceptor runs in another build. One is enough for a rollback
that an undo or a give-back stops half way, with its undos left in the list, and for the
throw of the scope around it, which runs them again; longer runs are left to the
proofs, for which any `MaxTaints` will do.
In `chunks`, `MaxNumbers` is `MAX_BUILT_CHUNKS` (65536 in the code): with three, every
number is soon used and the queue decides, and with `MaxMade` of four one number is
given out twice. `Room` of two gives a released record beside a live one; `TextRoom`
of one makes the second text seal the first. `MaxWritten` bounds the sides and the
pieces of work there are at one time; one is enough, since what could go wrong is one
address answering for two records, and it reaches `PruneAt` (256 in the code). The
length of a chunk is left out, and with it the duplicates a site list may have.
In `wrappers`, `MaxWrappers` bounds the wrappers there are at one time, not those
ever made: a number is used again once its finalizer has run. The tree has an
item for each case of the code: a list in a list, an alias envelope whose
content shares its row, a plain leaf.

**Fairness.** `FairSpec` adds `WF_vars(Continues)`: a step of a call that has
begun is eventually taken. The code's loops are plain `for` and `while` loops on
one thread, so a step that can be taken is. User code owes nothing: no fairness is
assumed of a build being finished, a scope being closed or a node being released.

The collector owes nothing either: a finalizer may never run.

**Deadlock** is checked everywhere but in `count_byte`, whose one entry stops for
good once it is released, and in `trees` and `copied_leaf`, where nothing is left to do
once every id is used, the engine disposed and no tree named.

## What is proved

`tlapm` checks every proof to the leaves, for any number of records, nodes, trees,
chunks, scopes and so on, and any bounds.

| Module | Theorems: `Spec` implies always ... |
|---|---|
| `BuiltArenaProofs` | `TypeOK`, `CountsCover`, `NoDangling`, `FreedStaysFreed` |
| `BuiltScopesProofs` | `KeptLives`; with interceptors that only build, `CountsExact`, `RollbackRestores` and `NothingLeaks` |
| `CountByteProofs` | `CountRefines`: the stored count implements the abstract one |
| `TreeHoldsProofs` | `TypeOK`, `LinksCounted`, `NamedTreesLive`, `OnlyNamedReachable` |
| `ParkedSidesProofs` | `TypeOK`, `SidesCover`, `SidesExact`, `RollbackRestoresLeaves`, `KeptLeafStaysHeld`, `ParksReclaimable` |
| `ChunkNumbersProofs` | `TypeOK`, `NumbersApart`, `ViewsCurrent`, `TextsHeld`, `SidesFaithful`, `DeferredFaithful`, `ReleasesOwn` |
| `WrapperIdentityProofs` | `TypeOK`, `OneWrapper`, `FoundWhole`, `NoStaleEntry`, `ThrownFillUndone` |

**Assumptions.** In each module `ConstantsAssumption` says that `Nil` is none of the
values it stands beside, that kinds of names do not meet, and that bounds are
natural numbers (where the code has a limit, positive); `CountByte` has
`SaturatedAssumption`. Only `WrapperIdentity` assumes more. Its `TreeAssumption` says
what a parsed tree gives: there are finitely many nodes, depth grows
from parent to child, a node has one parent, and two nodes share a row only when one is
an alias envelope and the other its content, never a list and its item
(`identity.ts` tells those apart by role). TLC evaluates all of them on each run.

**The arguments.** No safety property here is inductive by itself; each proof
module begins with the invariant `IInv` that is. Each action has a lemma
that it keeps each part, and the theorems follow from `Init => IInv`,
`IInv /\ [Next]_vars => IInv'` and `IInv => Property`.

* *Built arena.* `NoDangling` speaks of words, and only the *counted* places have a
  claim to what they name. So the invariant has `Covered`: the counted places are finite,
  `CountsCover` holds, a record on the release stack has no count, and whatever a live
  record's places name, they hold. Under it lie `TypeInv` (`TypeOK`; `Control`, what each
  value of `call.op` says of frames, lists and stack; `Marks`, the lengths that scopes
  remember are in order and within the lists) and `Placement` (only what was
  placed in a chunk is spoken of). A step that drops a count removes a place or an OWNED
  bit with it, so the sum stays covered; a step that adds a place first adds a
  count or moves the OWNED bit. `NoDangling` follows: a live record's named place is counted,
  so what it names has a count, so its chunk is not empty. `FreedStaysFreed` is
  an action property of the same invariant: what a step may count is live, is being
  drafted, or was just placed in the open chunk.
* *Kept nodes.* `KeptLives` adds three facts: what scopes keep was handed out
  (`KeptHanded`); a build runs innermost and nobody else has its record
  (`BuildsInner`), so a rollback frees no kept node; and a claimed, kept record owns its
  count (`ClaimsOwned`), so no drop of a place takes its last one.
* *No count is lost.* `CountsExact` is `CountsCover` with equality, and a rollback is where it
  could fail: it gives back what moved and releases what was minted, whatever happened
  since. So the invariant says what is still to be undone: what a list names once (`Taken`,
  `Minted`) has its count in a place, or in the handle once it is given back; no record
  that was live when a scope opened was minted in it, and its count is its handle's, one
  moved in the scope, or one of a place that was there already (`Outlives`, for a set of
  records and a set of places that exist but need not be remembered); what a draft has yet to
  be given is not written there (`Drafts`). `Nesting` says why releases do not meet a
  scope half way: an edit is outermost and innermost at once, and inside a build only its
  own rollback releases.
* *A throw gives back.* `RollbackRestores` needs what every open scope found: `Balance` says
  that the handles of then, with what was minted since, are the handles of now, with what
  moved since, so undoing both lists leaves the handles of then. It is undone in full only if
  nothing is refused (`AbandonRefused`). An edit's copies are what could be refused, and
  `EditKeeps` says why they are not while the source lives: what moved is named by a
  place of the source, the draft or a run one of these names, which holds its count.
* *Nothing leaks.* Counts could be exact and records still leak, were two to name each other.
  `Grounded` says of any set of records that one of them is named by no cell of the set. A build
  keeps it, because what it writes into was named by nothing: `Drafted` says that no place names a
  draft, and only the draft its run. Copies are where that is not plain, since they are of words
  a released record may have left; so `WordsPlaced` has it that those words too name what was placed
  before. `LiveCells` says that a counted cell is of a record that is live or being released. Then
  of the records with a count, were there any, one is named by no other: its count
  would be its handle's or a side's.
* *Count byte.* The overflow is zero unless the byte is saturated, and an
  entry is released exactly when the sum is zero.
* *Trees.* `LinksCounted` is exact only because a release reports each link record it frees
  and `pending` waits for the next. `Tokens` ties the token kept for a place to the
  side written there, `HeldLive` says that a token within reach keeps its tree,
  and `Anchored` and `Fresh` keep a reused side record or a new place from inheriting
  one. What a release frees (`Fallen`) and what the collector sees (`Reachable`) are
  recursive functions; the proof shows that the first is closed and the second the
  least set closed under naming.
* *Parked sides.* `SidesCover` and `SidesExact` are sums over handles, rows and parks, so
  most of the proof is moving one term at a time. The rollback needs `Rollbacks`: a scope
  in which interceptors only built lacks just those parks that the undos
  still to run put back, each from what the leaf had when the scope began (`Untouched`);
  `Unspent` adds that each is put back once and that what is given back is
  held by a park, which is what keeps the sums exact; `Owners`, that a trivia object is
  of one leaf, keeps one leaf's undo from touching another's park.
* *An undo is refused only where user code did more than build.* `Placed` has for each undo
  of another scope a live record whose row holds the comment to be parked again (`Sited`):
  the site that took the park over, which nothing in that scope has released. So
  the comment has a count.
* *A rollback restores the leaves.* In a scope that has not `strayed`, `Back` says what the
  undos still to run will make of the leaves. They park what was parked when the scope began
  and is not now, and unpark the rest (`ParksBack`); a leaf whose write they undo gets from the
  earliest one the trivia it had then, and any other has it (`TriviaBack`). What an undo
  parks was parked then, or by a write whose undo comes after it and unparks it; what an undo
  drops was not parked then. So undos may run again, once a rollback inside the scope stopped.
* *Nothing parked is orphaned.* A rollback swaps parks, and may stop half way: an undo or a
  give-back is refused, the undos stay in the list, and the throw of a scope around it runs them
  again. So the invariant cannot say that each undo meets the state its write left. `Traced`
  says of each scope that what a leaf has, and what each of the scope's undos restores or
  parks, is `Settled`: it is what the scope's undos restore the leaf to in the end (`Root`, the
  `own` of the earliest write's undo, or the trivia of a leaf not written), or an undo that runs
  later drops it, or it is `loose`. That survives any number of runs over the same undos, and
  `RollbackTraced` says the same of the parks while one is under way: when no undo is
  left, what is parked is the `Root` of its leaf, which the leaf then has. When an undo is
  refused, what is parked is that of a leaf no undo left would write, or is loose from then on.
* *Chunks.* `Queue` (a number names a chunk or waits once), `Numbering` (what native code
  and JavaScript have at a number was given that number) and `Views` (what
  JavaScript was not told of is still free) are what a reused number needs. `Tables` ties each
  address in a table to the record of the buffer JavaScript has there, and the sweep
  removes both together; so `SidesFaithful`, `DeferredFaithful` and `ReleasesOwn` follow,
  though the native row may be of a record long gone. `Sealed` and `Texts` are the
  counts: a sealed chunk is there only while something in it lives.
* *Wrappers.* `OneWrapper` needs more than one entry per key: what user code holds
  must be *found* by the registry, and what is found must have its children
  found (`Kept`, `Closed`), or a wrapper met through a slot would be a second one. During a
  fill they hold of the `Older` wrappers too, those whose entry the fill did
  not write, since a throw takes the others out of the registry again; `Undoes` says that
  the writes noted so far lead back to `before`, `Call` that the read which began the
  fill still finds nothing, and `Queue` what each list of the fill may be. `Whole` excepts
  the lists the fill has still to reach.

**Recursion.** The provers cannot use an induction theorem that takes an operator. Well-founded
minima of a *set* they can: `Recursion` gets from these induction up to a bound
(`InductionTo`) and that a function defined on `0..N` by recursion exists and has the
values its definition says (`RecursiveFunction`, `RecursiveValues`). So `Fallen`, `Reachable`,
`StillKept` and `Undone` are recursive functions, and what they compute is proved.

**Only model-checked.** `CallsEnd` is liveness, out of the provers' reach, and so is
ENABLED. Every safety invariant and action property of a passing run is proved. What the
violation runs check does not hold.

## Where the code and its documentation disagree

* **A close may throw half way** (`close_refused`). `#close` looks up the count of
  each record its scope made. A record of a chunk that was freed, but which
  JavaScript has not swept yet, has none, and the lookup throws; the scope is
  already popped and its other records stay unreleased. The documentation of
  `CommitScope`'s close lists only an inner scope and a running build.
* **A kept node may die with its parent** (`kept_outlives`). While its scope is
  open, a kept node's count is its own. Once the scope has closed, an edit of a
  parent it sits in moves that count into the copy, and replacing that slot
  drops it; releasing the first parent frees the node. `CommitScope.keep` says a
  kept node "outlives every parent it sits in".

* **A record's copy forgets its leaf's trees** (`copied_leaf`). An edit and a record
  rebuilt from a parsed node copy a leaf's sides natively, rows and held records; the
  tokens of the trees those sides name are kept for the source's places only. Once
  the source's side is written over, such a tree may be dropped while the copy
  names it. `engine.ts:486-488` says a token lives as long as anything naming it.

Also met, and not the subject of a run:

* An interceptor that keeps an argument its build has already placed and then throws
  leaves a count no one holds, and one that releases it makes the rollback throw in
  turn, which ends it there (`AbandonRefused`); these are why `CountsExact`,
  `RollbackRestores` and `NothingLeaks` are stated for interceptors that only build.
* A `$with` of a released record whose chunk still lives is not refused, and reads its
  cells as they were.
* An interceptor that writes a leaf's side and throws may have its undo release a record
  that moved; giving it back then throws and the rollback stops half way
  (`GiveBackRefused`).
* The undo of such a write may itself be refused (`UndoRefused`). `repark` holds the new sides
  before it drops the old ones, but its undo (`built-arena.ts:663-667`) drops the new ones
  first. If the old sides name a comment whose only count was their park, it is
  released either by the write, or, when the new sides name it too, by the undo's drop
  (a write of one side carries the others over). `hold` then throws. The leaf is left with
  the new sides, no longer parked; the undos before this one, the give-backs and the
  releases are skipped; and the caller gets the error of the hold, not that of the build. A
  leaf that a scope keeps then has sides naming comments it holds no count of, against
  `engine-api.ts:441-442`, where a kept leaf holds one "of the records its sides hold".
  `KeptLeafStaysHeld`, `RollbackRestoresLeaves` and `ParksReclaimable` state it as their
  exception.
* A tree may stay for a side that is gone. The tokens a written side holds are kept by
  address, and neither a release nor the sweep drops them, against `engine.ts:486-488`.
  The fixture `tree-release.mts` releases no record with such a side.
  `OnlyNamedReachable` states it as its exception.
* A leaf's park may be orphaned. A leaf that a scope kept while it was placed goes on
  parking its sides after the scope closed; a write then takes the early return of
  `repark`, and the comments of what it replaces stay counted, where `CommitScope.keep`
  (`engine-api.ts:439-442`) says the caller releases what it kept. Nor is such a write
  undone when its build throws, so an older undo may park what it replaced.
  `ParksReclaimable` states both as an exception.
* A side written on a released handle is not refused, and the row it makes is dropped
  by no release. `trivia_store.rs:177` says no address is used again while its entries
  are there, but `arena.rs:618-632` gives numbers out again after the first 65535. In
  JavaScript the sweep forgets the address (`SidesFaithful`); the native row stays.
* A leaf may write to a record that does not hold it, for the same reason: a site is an
  address, and `#siteAlive` asks only for a count. A test
  (`python/tests/built-arena-release.test.ts:39`) says a leaf "writes its new sides only
  to holders that are still live". When the address starts no entry in the new chunk,
  the lookup throws instead (`ViewRefused`).
* A side may be written half way. `write_trivia_side` replaces a parsed tree's side and
  then releases the records the old one named; when their engine was disposed that is
  refused, and JavaScript, which keeps the new side's tokens after the call, keeps none.
  The tree it names may be dropped while the side stays readable, against
  `engine.ts:486-488`, and a test says `$trivia` keeps "working on a node whose engine
  is disposed" (`node-engine.test.ts:82`). `NamedTreesLive` states it as its exception.
  The release of a built node after its engine's dispose is refused natively, too.
* A release may throw: the second release of a handle whose chunk is freed but not swept
  passes `#liveRecord` and is refused natively, where the comment on `releaseHandle`
  (`built-arena.ts:635`) says it is passed over, and `engine-api.ts:412-415` that the
  release of a released node does nothing.
* `CommitScope`'s documentation leaves open whether a close releases the parks of a leaf
  made before the scope and written in it; the code does.

## What is left out, and why

* The data: kinds, texts, flags, spans and layout. No property depends on them.
* List-option records, unit sites, `moveLeafSite`, and what deferred work does when
  it runs.
* The sizes of chunks and their growth, the meta reseated by a seal, and the memory
  reported to V8. A chunk of one large entry is modelled.
* In `TreeHolds`, several engines, the sides of a disposed engine's records, and the tree-id counter that the addons of
  a process share; in `WrapperIdentity`, a value that names no index of the tree.
* The engine's create, scopes and interceptors open across its dispose, and the
  generator's manifests: planned.
* The debug build's refusal of a side that reaches its holder: the model is the
  release build, in which a cycle of sides is possible and is never freed.
* Memory exhaustion, and every numeric limit but the count byte's.
* Cells are copied and dropped in an order the model leaves open; the code's
  order is one of them.
* The parts of the inventory that keep no state between calls.

## Plan

1. *Built arena*: `BuiltArena`, `CountByte` and their proofs (done).
2. *Chunks*: `ChunkNumbers` (done).
3. *Trees*: `TreeHolds` (done for one engine; to come: the shared id counter and
   several engines).
4. *Identity*: `WrapperIdentity` (done).
5. *Leaves*: `ParkedSides` (done but for `moveLeafSite`).
6. *Trivia store*: units and held writes, the debug build's `reaches`.
7. *Engine*: create, dispose, nesting, the language cache.
8. *Manifests*: what was read against what is recorded, with edits in between.

Theorems to come: those of the modules to come.
