----------------------------- MODULE ParkedSides -----------------------------
(***************************************************************************)
(* The sides of built leaves (packages/common/src/built-arena.ts,          *)
(* built-ref.ts, utils.ts).  A built leaf has no record: its sides are a   *)
(* trivia object of its handle, and a row of the native store at each site *)
(* it is placed at.  A comment they name is counted by each row.  While    *)
(* the leaf is at no site, or a commit scope keeps it, the arena parks the *)
(* trivia object and counts its comment itself (#parkedBy).                *)
(*                                                                         *)
(* One side of a leaf, holding one comment or text; a record holding       *)
(* leaves is live while its handle owns it; one chunk, never freed.        *)
(* Interceptors run user code inside the scope of a build, which a throw   *)
(* rolls back: its undos, then what moved, then what was minted.  An undo  *)
(* that would park a released comment throws, and the rollback stops.      *)
(***************************************************************************)
EXTENDS Naturals, Sequences, FiniteSets

CONSTANTS
  Comments,    \* the records a side may name
  Holders,     \* the records a leaf is placed in
  Leaves,
  Nil,         \* no comment: a side of text; no leaf
  MaxWrites,   \* bound: trivia objects made, entries of #parked
  MaxFrames,   \* bound: nested scopes of builds
  MaxCommits,  \* bound: commit scopes open at once
  MaxTaints    \* bound: throws counted in tainted before no more interceptors run

ASSUME ConstantsAssumption ==
  /\ Nil \notin Comments \cup Holders \cup Leaves
  /\ Comments \cap Holders = {} /\ Comments \cap Leaves = {}
  /\ MaxWrites \in Nat /\ MaxFrames \in Nat /\ MaxCommits \in Nat /\ MaxTaints \in Nat

VARIABLES
  count,    \* the counts of each comment
  owned,    \* the comments whose handle owns a count
  used,     \* the records built so far
  alive,    \* the holders not released
  leafAt,   \* the leaf placed in each holder
  row,      \* the comment the native row of that site names
  written,  \* the trivia objects made, the comment each names
  trivia,   \* the trivia object of each leaf's handle, 0 before a write
  parked,   \* #parkedBy: the trivia objects whose comment the arena counts
  minted,   \* #minted
  moved,    \* #moved
  undos,    \* #undos
  listed,   \* #parked: the leaves parked while a commit scope was open
  frames,   \* the scopes of the builds running, the innermost last
  commits,  \* #commits
  call,     \* the rollback under way
  loose,    \* the trivia objects made or replaced where repark returns early, or by writes
            \* whose undos a rollback that stopped did not run
  tainted   \* the throws of builds whose interceptor did more than build

store == <<count, owned, used, alive, leafAt, row>>
leaves == <<written, trivia, parked, loose>>
lists == <<minted, moved, undos, listed>>
vars == <<store, leaves, lists, frames, commits, call, tainted>>

Objects == 1..Len(written)
Undo == [site: BOOLEAN, leaf: Leaves, next: 0..MaxWrites, parked: 0..MaxWrites, own: 0..MaxWrites]
Frame == [minted: Nat, moved: Nat, undos: Nat, touched: BOOLEAN, strayed: BOOLEAN,
          trivia: [Leaves -> 0..MaxWrites], parked: SUBSET (1..MaxWrites)]
Mark == [minted: Nat, listed: Nat, kept: SUBSET (Comments \cup Leaves)]
NoCall == [op |-> "none", n |-> 0]

\* The values each variable takes.
TypeOK ==
  /\ count \in [Comments -> Nat] /\ owned \in SUBSET Comments
  /\ used \in SUBSET (Comments \cup Holders) /\ alive \in SUBSET Holders
  /\ leafAt \in [Holders -> Leaves \cup {Nil}]
  /\ row \in [Holders -> Comments \cup {Nil}]
  /\ written \in Seq(Comments \cup {Nil}) /\ Len(written) <= MaxWrites
  /\ trivia \in [Leaves -> 0..MaxWrites] /\ parked \in SUBSET (1..MaxWrites)
  /\ loose \in SUBSET (1..MaxWrites)
  /\ minted \in Seq(Comments \cup Holders) /\ moved \in Seq(Comments)
  /\ undos \in Seq(Undo) /\ listed \in Seq(Leaves)
  /\ frames \in Seq(Frame) /\ commits \in Seq(Mark)
  /\ call \in [op: {"none", "undo", "giveback", "free"}, n: Nat]
  /\ tainted \in Nat

Init ==
  /\ count = [c \in Comments |-> 0] /\ owned = {}
  /\ used = {} /\ alive = {}
  /\ leafAt = [h \in Holders |-> Nil] /\ row = [h \in Holders |-> Nil]
  /\ written = <<>> /\ trivia = [l \in Leaves |-> 0] /\ parked = {} /\ loose = {}
  /\ minted = <<>> /\ moved = <<>> /\ undos = <<>> /\ listed = <<>>
  /\ frames = <<>> /\ commits = <<>> /\ call = NoCall /\ tainted = 0

-----------------------------------------------------------------------------
UserCode == call.op = "none"
InScope == frames # <<>>
Top == frames[Len(frames)]
Outer == SubSeq(frames, 1, Len(frames) - 1)

\* User code did more than build in the scopes it runs in, if any.
Touch == frames' = [i \in 1..Len(frames) |-> [frames[i] EXCEPT !.touched = TRUE]]

\* It did what no undo takes back: what the leaves were when one of those scopes began is no
\* longer of interest.
Stray ==
  frames' = [i \in 1..Len(frames) |->
              [frames[i] EXCEPT !.touched = TRUE, !.strayed = TRUE,
                                !.trivia = [l \in Leaves |-> 0], !.parked = {}]]

Kept(x) == \E i \in 1..Len(commits) : x \in commits[i].kept
Entry(o) == IF o = 0 THEN Nil ELSE written[o]
Live(c) == c \in Comments => count[c] > 0
Sites(l) == {h \in alive : leafAt[h] = l}

\* #parkedOf: a leaf parks the trivia object it has, or none.
ParkedOf(l) == IF trivia[l] \in parked THEN trivia[l] ELSE 0

Only(c, n) == [x \in Comments |-> IF x = c THEN n ELSE 0]
Plus(f, g) == [x \in Comments |-> f[x] + g[x]]
Minus(f, g) == [x \in Comments |-> f[x] - g[x]]

\* Counts a hold of c adds: the count its handle owns is moved, else one more is taken.
Held(c, moves) == Only(c, IF moves THEN 0 ELSE 1)

\* JavaScript's hold leaves a kept comment's handle its count, and lists what moved.
HoldMoves(c) == c \in owned /\ ~Kept(c)
Moved(c) == IF HoldMoves(c) /\ InScope THEN Append(moved, c) ELSE moved

\* The rows of holders hs, the handles of comments cs and the parks os let go.
LetGo(hs, cs, os) ==
  [x \in Comments |-> Cardinality({h \in hs : row[h] = x}) + Cardinality(cs \cap {x})
                      + Cardinality({o \in os : written[o] = x})]

\* Fault: the parks let go are not forgotten.
ParksUnforgotten(os) == parked

ParksLeft(os) == parked \ os

Release(hs, cs, os) ==
  /\ count' = Minus(count, LetGo(hs, cs, os))
  /\ owned' = owned \ cs
  /\ alive' = alive \ hs
  /\ row' = [h \in Holders |-> IF h \in hs THEN Nil ELSE row[h]]
  /\ parked' = ParksLeft(os)
  /\ UNCHANGED <<used, leafAt, written, loose>>

-----------------------------------------------------------------------------
(* Builds.  A scope under a build or an interceptor records what a throw   *)
(* undoes; the outermost forgets it when it ends.                          *)

Mint(r) ==
  /\ r \notin used /\ used' = used \cup {r}
  /\ minted' = IF InScope \/ commits # <<>> THEN Append(minted, r) ELSE minted

BuildComment(c) ==
  /\ UserCode /\ Mint(c)
  /\ count' = [count EXCEPT ![c] = 1] /\ owned' = owned \cup {c}
  /\ UNCHANGED <<alive, leafAt, row, leaves, moved, undos, listed, frames, commits, call, tainted>>

\* Fault: a kept leaf gives up its park to a site too.
GivenUpAlways(l) == ParkedOf(l)

\* The park a leaf gives up to a site: none while a commit scope keeps it.
GivenUp(l) == IF Kept(l) THEN 0 ELSE ParkedOf(l)

\* A build of a record holding leaf l: the leaf's sides are written at its site, held
\* natively, and what it parks is given up unless a commit scope keeps it.
BuildHolder(h, l) ==
  LET c == Entry(trivia[l])
      parks == GivenUp(l)
  IN /\ UserCode /\ Mint(h) /\ Live(c)
     /\ count' = Minus(Plus(count, Held(c, c \in owned)), LetGo({}, {}, {parks} \ {0}))
     /\ owned' = owned \ {c}
     /\ alive' = alive \cup {h}
     /\ leafAt' = [leafAt EXCEPT ![h] = l] /\ row' = [row EXCEPT ![h] = c]
     /\ parked' = parked \ {parks}
     /\ undos' = IF parks # 0 /\ InScope
                 THEN Append(undos, [site |-> TRUE, leaf |-> l, next |-> 0, parked |-> parks, own |-> 0]) ELSE undos
     /\ UNCHANGED <<written, trivia, loose, moved, listed, frames, commits, call, tainted>>

\* A build whose interceptor runs in its scope.
InterceptBuild ==
  /\ UserCode /\ Len(frames) < MaxFrames /\ tainted < MaxTaints
  /\ frames' = Append(frames, [minted |-> Len(minted), moved |-> Len(moved), undos |-> Len(undos),
                               touched |-> FALSE, strayed |-> FALSE, trivia |-> trivia, parked |-> parked])
  /\ UNCHANGED <<store, leaves, lists, commits, call, tainted>>

\* The end of a scope, its lists left as m, v and u.
EndScope(m, v, u) ==
  /\ frames' = Outer
  /\ minted' = IF Outer = <<>> /\ commits = <<>> THEN <<>> ELSE m
  /\ moved' = IF Outer = <<>> THEN <<>> ELSE v
  /\ undos' = IF Outer = <<>> THEN <<>> ELSE u

FinishBuild ==
  /\ UserCode /\ InScope
  /\ EndScope(minted, moved, undos)
  /\ UNCHANGED <<store, leaves, listed, commits, call, tainted>>

-----------------------------------------------------------------------------
(* A build that throws (#abandon).                                         *)

Throw ==
  /\ UserCode /\ InScope
  /\ call' = [op |-> "undo", n |-> Len(undos)]
  /\ tainted' = IF Top.touched THEN tainted + 1 ELSE tainted
  /\ UNCHANGED <<store, leaves, lists, frames, commits>>

\* Fault: what a site took over stays with it.
NotReparked(u) == parked \ {u.next}

\* Fault: what the write parked stays parked.
NextStays(u) == parked \cup ({u.parked} \ {0})

\* The parks an undo leaves: without what the write parked, with what the leaf parked
\* before the write or the placement.
Reparked(u) == (parked \ {u.next}) \cup ({u.parked} \ {0})

\* The counts once an undo dropped what the write parked.
Dropped(u) == Minus(count, LetGo({}, {}, {u.next} \cap parked))

\* Fault: what is parked again is not counted.
DropsCounted(u) == Dropped(u)

ParksCounted(u) == Plus(Dropped(u), Held(Entry(u.parked), HoldMoves(Entry(u.parked))))

\* The drop may release the very comment that is parked again, and hold refuses it.
HoldRefused(u) ==
  Entry(u.parked) \in Comments /\ ~HoldMoves(Entry(u.parked)) /\ Dropped(u)[Entry(u.parked)] = 0

\* The undo of a placement parks again what the site took over, that of a write also
\* restores the sides the leaf had.
UndoLast ==
  LET u == undos[call.n]
      c == Entry(u.parked)
  IN /\ call.op = "undo" /\ call.n > Top.undos /\ ~HoldRefused(u)
     /\ count' = ParksCounted(u)
     /\ owned' = IF HoldMoves(c) THEN owned \ {c} ELSE owned
     /\ moved' = Moved(c)
     /\ parked' = Reparked(u)
     /\ trivia' = IF u.site THEN trivia ELSE [trivia EXCEPT ![u.leaf] = u.own]
     /\ call' = [call EXCEPT !.n = @ - 1]
     /\ UNCHANGED <<used, alive, leafAt, row, written, loose, minted, undos, listed, frames, commits, tainted>>

\* An undo that is refused has dropped what the write parked: the leaf keeps the sides of
\* the write, parked no more, and the undos stay in the list for a throw around this one.
UndoRefused ==
  LET u == undos[call.n]
  IN /\ call.op = "undo" /\ call.n > Top.undos /\ HoldRefused(u)
     /\ count' = Dropped(u)
     /\ parked' = parked \ {u.next}
     /\ loose' = loose \cup ((UNION {{undos[j].next, undos[j].own} : j \in Top.undos + 1..call.n}) \ {0})
     /\ EndScope(minted, moved, undos)
     /\ call' = NoCall
     /\ UNCHANGED <<owned, used, alive, leafAt, row, written, trivia, listed, commits, tainted>>

Undone ==
  /\ call.op = "undo" /\ call.n = Top.undos
  /\ call' = [op |-> "giveback", n |-> Len(moved)]
  /\ UNCHANGED <<store, leaves, lists, frames, commits, tainted>>

GiveBackMoved ==
  /\ call.op = "giveback" /\ call.n > Top.moved
  /\ count[moved[call.n]] > 0
  /\ count' = Plus(count, Only(moved[call.n], 1))
  /\ owned' = owned \cup {moved[call.n]}
  /\ call' = [call EXCEPT !.n = @ - 1]
  /\ UNCHANGED <<used, alive, leafAt, row, leaves, lists, frames, commits, tainted>>

\* A record an undo released cannot be given back: the rollback stops half way.
GiveBackRefused ==
  /\ call.op = "giveback" /\ call.n > Top.moved
  /\ count[moved[call.n]] = 0
  /\ EndScope(minted, moved, undos)
  /\ call' = NoCall
  /\ UNCHANGED <<store, leaves, listed, commits, tainted>>

\* What the scope minted is released, and its lists are cut back.
FreeMinted ==
  LET made == {minted[i] : i \in Top.minted + 1..Len(minted)}
  IN /\ call.op = "giveback" /\ call.n = Top.moved
     /\ Release(made \cap alive, made \cap owned, {})
     /\ EndScope(SubSeq(minted, 1, Top.minted), SubSeq(moved, 1, Top.moved), SubSeq(undos, 1, Top.undos))
     /\ call' = NoCall
     /\ UNCHANGED <<trivia, listed, commits, tainted>>

-----------------------------------------------------------------------------
(* Written sides.                                                          *)

\* A leaf's sides replaced by one naming c: at each live site natively, then in its
\* trivia, parked when it has no site or is kept.
WriteLeaf(l, c) ==
  LET sites == Sites(l)
      free == Held(c, c \in owned /\ sites # {})
      rows == [x \in Comments |-> IF x = c /\ sites # {} THEN Cardinality(sites) - 1 + free[x] ELSE 0]
      stays == sites # {} /\ ~Kept(l)
      moves == sites = {} /\ HoldMoves(c)
      o == Len(written) + 1
      old == ParkedOf(l)
  IN /\ UserCode /\ Live(c) /\ Len(written) < MaxWrites /\ Len(listed) < MaxWrites
     /\ IF stays THEN Stray ELSE Touch
     /\ count' = Minus(Plus(Plus(count, rows), IF stays THEN Only(c, 0) ELSE Held(c, moves)),
                       IF stays THEN LetGo(sites, {}, {}) ELSE LetGo(sites, {}, {old} \ {0}))
     /\ row' = [h \in Holders |-> IF h \in sites THEN c ELSE row[h]]
     /\ owned' = IF sites # {} \/ moves THEN owned \ {c} ELSE owned
     /\ written' = Append(written, c)
     /\ trivia' = [trivia EXCEPT ![l] = o]
     /\ loose' = IF stays THEN loose \cup ({o, trivia[l]} \ {0}) ELSE loose
     /\ IF stays
        THEN UNCHANGED <<parked, moved, undos, listed>>
        ELSE /\ parked' = (parked \ {old}) \cup {o}
             /\ moved' = IF moves /\ InScope THEN Append(moved, c) ELSE moved
             /\ undos' = IF InScope
                         THEN Append(undos, [site |-> FALSE, leaf |-> l, next |-> o, parked |-> old, own |-> trivia[l]]) ELSE undos
             /\ listed' = IF commits # <<>> THEN Append(listed, l) ELSE listed
     /\ UNCHANGED <<used, alive, leafAt, minted, commits, call, tainted>>

\* The side of the leaf a holder gives back, written at that site alone.
WriteSite(h, c) ==
  /\ UserCode /\ h \in alive /\ leafAt[h] # Nil /\ Live(c) /\ Touch
  /\ count' = Minus(Plus(count, Held(c, c \in owned)), LetGo({h}, {}, {}))
  /\ owned' = owned \ {c}
  /\ row' = [row EXCEPT ![h] = c]
  /\ UNCHANGED <<used, alive, leafAt, leaves, lists, commits, call, tainted>>

ReleaseComment(c) ==
  /\ UserCode /\ c \in owned /\ Touch
  /\ Release({}, {c}, {})
  /\ UNCHANGED <<trivia, lists, commits, call, tainted>>

ReleaseHolder(h) ==
  /\ UserCode /\ h \in alive /\ Touch
  /\ Release({h}, {}, {})
  /\ UNCHANGED <<trivia, lists, commits, call, tainted>>

\* A leaf's release gives up what it parks.
ReleaseLeaf(l) ==
  /\ UserCode /\ ParkedOf(l) # 0 /\ Stray
  /\ Release({}, {}, {ParkedOf(l)})
  /\ UNCHANGED <<trivia, lists, commits, call, tainted>>

-----------------------------------------------------------------------------
(* Commit scopes.                                                          *)

OpenCommit ==
  /\ UserCode /\ ~InScope /\ Len(commits) < MaxCommits
  /\ commits' = Append(commits, [minted |-> Len(minted), listed |-> Len(listed), kept |-> {}])
  /\ UNCHANGED <<store, leaves, lists, frames, call, tainted>>

KeepIn(i, x) == commits' = [commits EXCEPT ![i].kept = @ \cup {x}]

KeepComment(i, c) ==
  /\ UserCode /\ i \in 1..Len(commits) /\ count[c] > 0 /\ Touch
  /\ KeepIn(i, c)
  /\ count' = IF c \in owned THEN count ELSE Plus(count, Only(c, 1))
  /\ owned' = owned \cup {c}
  /\ UNCHANGED <<used, alive, leafAt, row, leaves, lists, call, tainted>>

\* Fault: a leaf that parks its sides parks them again.
ToPark(l) == trivia[l] # 0 /\ Live(Entry(trivia[l]))

\* The written sides of a leaf that parks none.
Unparked(l) == trivia[l] # 0 /\ ParkedOf(l) = 0 /\ Live(Entry(trivia[l]))

\* A kept leaf parks its sides unless it does; a side naming a released comment is
\* refused once the leaf is marked kept.
KeepLeaf(i, l) ==
  LET c == Entry(trivia[l])
      parks == Unparked(l)
  IN /\ UserCode /\ i \in 1..Len(commits)
     /\ IF parks THEN Stray ELSE Touch
     /\ parks => Len(listed) < MaxWrites
     /\ KeepIn(i, l)
     /\ IF parks
        THEN /\ count' = Plus(count, Held(c, HoldMoves(c)))
             /\ owned' = IF HoldMoves(c) THEN owned \ {c} ELSE owned
             /\ moved' = Moved(c)
             /\ parked' = parked \cup {trivia[l]}
             /\ listed' = Append(listed, l)
        ELSE UNCHANGED <<count, owned, moved, parked, listed>>
     /\ UNCHANGED <<used, alive, leafAt, row, written, trivia, loose, minted, undos, call, tainted>>

\* The members of a list that a commit scope keeps.
StillKept(s) ==
  LET kept[i \in 0..Len(s)] ==
        IF i = 0 THEN <<>> ELSE IF Kept(s[i]) THEN Append(kept[i - 1], s[i]) ELSE kept[i - 1]
  IN kept[Len(s)]

\* The innermost scope closes: what was minted in it and leaves parked in it are
\* released unless it or a scope around it keeps them, and the kept ones listed there.
CloseCommit ==
  LET mark == commits[Len(commits)]
      made == {x \in {minted[i] : i \in mark.minted + 1..Len(minted)} : ~Kept(x)}
      gone == {l \in {listed[i] : i \in mark.listed + 1..Len(listed)} : ~Kept(l)}
      On(s, n) == SubSeq(s, 1, n) \o (IF Len(commits) = 1 THEN <<>> ELSE StillKept(SubSeq(s, n + 1, Len(s))))
  IN /\ UserCode /\ ~InScope /\ commits # <<>>
     /\ commits' = SubSeq(commits, 1, Len(commits) - 1)
     /\ Release(made \cap alive, made \cap owned, {ParkedOf(l) : l \in gone} \ {0})
     /\ minted' = On(minted, mark.minted)
     /\ listed' = On(listed, mark.listed)
     /\ UNCHANGED <<trivia, moved, undos, frames, call, tainted>>

Next ==
  \/ InterceptBuild \/ FinishBuild \/ Throw
  \/ UndoLast \/ UndoRefused \/ Undone \/ GiveBackMoved \/ GiveBackRefused \/ FreeMinted
  \/ \E c \in Comments : BuildComment(c) \/ ReleaseComment(c)
  \/ \E h \in Holders, l \in Leaves : BuildHolder(h, l)
  \/ \E l \in Leaves, c \in Comments \cup {Nil} : WriteLeaf(l, c)
  \/ \E h \in Holders, c \in Comments \cup {Nil} : WriteSite(h, c)
  \/ \E h \in Holders : ReleaseHolder(h)
  \/ \E l \in Leaves : ReleaseLeaf(l)
  \/ OpenCommit \/ CloseCommit
  \/ \E i \in 1..MaxCommits : (\E c \in Comments : KeepComment(i, c)) \/ (\E l \in Leaves : KeepLeaf(i, l))

Spec == Init /\ [][Next]_vars

-----------------------------------------------------------------------------
(* Properties.                                                             *)

\* What counts comment c: its handle, the rows of live sites, the parked trivia.
HoldsOf(c) ==
  Cardinality(owned \cap {c}) + Cardinality({h \in alive : row[h] = c})
    + Cardinality({o \in parked : written[o] = c})

\* No count is spent twice: whatever is placed, written, kept, thrown and closed, a
\* comment some row of a live site, park or handle counts is not released.
SidesCover == \A c \in Comments : count[c] >= HoldsOf(c)

\* Nor lost, while no build threw whose interceptor wrote, kept or released a side.
SidesExact == tainted = 0 => \A c \in Comments : count[c] = HoldsOf(c)

\* A build that throws leaves each leaf the sides and the parks it had when the build
\* began, though a site took them over in the build or one inside it, or an interceptor
\* replaced them, unless it did what has no undo: released or kept a leaf, or wrote one that
\* was placed.  Only where an interceptor did more than build may an undo be refused,
\* and the rollback stop before it.
RollbackRestoresLeaves ==
  [][call.op # "none" /\ frames' # frames /\ ~Top.strayed =>
       \/ trivia' = Top.trivia /\ parked' = Top.parked
       \/ Top.touched /\ UndoRefused]_vars

\* A leaf a commit scope keeps goes on holding the comments of its sides, through every
\* placement, close and throw, until its holder releases or writes it, or the undo of a
\* write of it is refused: that drops the new sides and cannot park the old ones.
KeptLeafStaysHeld ==
  [][\A l \in Leaves : Kept(l) /\ Kept(l)' /\ ParkedOf(l) # 0 /\ trivia'[l] = trivia[l] =>
       \/ ParkedOf(l)' # 0
       \/ ReleaseLeaf(l)
       \/ UndoRefused /\ undos[call.n].next = trivia[l]]_vars

\* No write, placement, keep, close or throw leaves the arena counting comments that no
\* release lets go: between calls it parks only the trivia object a leaf has, which that
\* leaf's release gives up.  Excepted are sides a write at a placed leaf made or replaced,
\* where repark returns early, neither giving up what the leaf parks nor undoing the write,
\* and those whose undo a rollback that stopped did not run: a throw around it
\* runs such undos again, late.
ParksReclaimable ==
  UserCode => \A o \in parked : o \in loose \/ \E l \in Leaves : trivia[l] = o
=============================================================================
