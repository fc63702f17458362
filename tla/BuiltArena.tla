----------------------------- MODULE BuiltArena -----------------------------
(***************************************************************************)
(* The counted records of one engine's built arena: the JavaScript builder *)
(* (packages/common/src/built-arena.ts) and the native release it calls    *)
(* (rust/crates/sittir-core/src/arena/count.rs, trivia_store.rs).          *)
(*                                                                         *)
(* A record lies in a numbered chunk and has a count and an OWNED bit, set *)
(* while the handle its builder returned holds one of its counts.  Every   *)
(* other count is held by a place: a cell of a record, an item of a list's *)
(* run (a run is an entry with a count of its own, which no handle owns),  *)
(* or a written side of a record, a row of the native trivia store.        *)
(*                                                                         *)
(* JavaScript is single threaded and a native call runs to its end, so one *)
(* public call is one run of steps no other call enters: `call' names the  *)
(* loop under way and `dead' the stack of the native release.  What does   *)
(* interleave is user code with a build: a build interceptor runs inside   *)
(* the scope of the build it intercepts (create-engine.ts, scopedBuild).   *)
(***************************************************************************)
EXTENDS Naturals, Sequences, FiniteSets

CONSTANTS
  Records,           \* addresses of records and runs
  Cells,             \* the cells of a record, the items of a run
  Sides,             \* the sides of a record
  Nil,               \* an empty cell or side; no record
  MaxFrames,         \* bound: nested scopes of builds
  MaxCommits,        \* bound: commit scopes open at once
  MaxChunks,         \* bound: word chunks opened
  InterceptorsWrite  \* interceptors keep, release, edit and write sides

ASSUME ConstantsAssumption ==
  /\ Nil \notin Records \cup Cells
  /\ Cells \cap Sides = {}
  /\ MaxFrames \in Nat /\ MaxCommits \in Nat /\ MaxChunks \in Nat
  /\ InterceptorsWrite \in BOOLEAN

VARIABLES
  count,    \* the counts of each record, 0 once released (or not placed yet)
  owned,    \* the records whose OWNED bit is set
  words,    \* what each place names: a released record's words stay written
  counted,  \* the places that hold a count of what they name
  dead,     \* the native release's stack: released, their places not dropped
  chunkOf,  \* the chunk a record lies in, 0 before it is placed
  open,     \* the number of the open word chunk, 0 before the first
  swept,    \* the freed chunks JavaScript was told of (#sweep)
  handed,   \* the records a builder returned to its caller
  minted,   \* #minted
  moved,    \* #moved
  frames,   \* the scopes of the builds running, the innermost last
  commits,  \* #commits
  call      \* the loop of the public call under way

counts == <<count, owned, words, counted, dead>>
chunks == <<chunkOf, open, swept>>
scopes == <<minted, moved, frames, commits>>
vars == <<counts, chunks, handed, scopes, call>>

Places == Records \X (Cells \cup Sides)
PlacesOf(r) == {p \in counted : p[1] = r}
SidesOf(r) == {p \in PlacesOf(r) : p[2] \in Sides}
Holders(x) == {p \in counted : words[p] = x}

Frame == [kind: {"intercept", "build"}, rec: Records \cup {Nil}, src: Records \cup {Nil},
          run: Records \cup {Nil}, at: Cells \cup {Nil}, done: SUBSET Cells,
          minted: Nat, moved: Nat]
Mark == [minted: Nat, kept: SUBSET Records]
Call == [op: {"none", "copy", "carry", "refuse", "giveback", "free", "close"},
         rec: Records \cup {Nil}, copies: SUBSET Places, n: Nat, base: Nat,
         kept: SUBSET Records, carried: Seq(Records)]

NoCall == [op |-> "none", rec |-> Nil, copies |-> {}, n |-> 0, base |-> 0, kept |-> {}, carried |-> <<>>]

\* The values each variable of the arena takes.
TypeOK ==
  /\ count \in [Records -> Nat]
  /\ owned \in SUBSET Records
  /\ words \in [Places -> Records \cup {Nil}]
  /\ counted \in SUBSET Places
  /\ dead \in SUBSET Records
  /\ chunkOf \in [Records -> Nat]
  /\ open \in Nat
  /\ swept \in SUBSET Nat
  /\ handed \in SUBSET Records
  /\ minted \in Seq(Records)
  /\ moved \in Seq(Records)
  /\ frames \in Seq(Frame)
  /\ commits \in Seq(Mark)
  /\ call \in Call

Init ==
  /\ count = [x \in Records |-> 0]
  /\ owned = {}
  /\ words = [p \in Places |-> Nil]
  /\ counted = {}
  /\ dead = {}
  /\ chunkOf = [x \in Records |-> 0]
  /\ open = 0
  /\ swept = {}
  /\ handed = {}
  /\ minted = <<>>
  /\ moved = <<>>
  /\ frames = <<>>
  /\ commits = <<>>
  /\ call = NoCall

-----------------------------------------------------------------------------
(* Where control is.                                                       *)

Idle == call.op = "none" /\ dead = {}
Top == frames[Len(frames)]
Outer == SubSeq(frames, 1, Len(frames) - 1)
InBuild == frames # <<>> /\ Top.kind = "build"
Building == Idle /\ InBuild
UserCode == Idle /\ ~InBuild
\* User code that does more than build: always outside a build, and in an
\* interceptor when InterceptorsWrite.
UserWrites == UserCode /\ (frames # <<>> => InterceptorsWrite)

-----------------------------------------------------------------------------
(* Chunks: the open one takes every record; a chunk sealed with nothing    *)
(* live in it is freed, its buffers detached in the same native call, and  *)
(* JavaScript drops what it keeps of it when it next asks for a chunk.     *)

Emptied(c) == \A x \in Records : chunkOf[x] = c => count[x] = 0 /\ x \notin dead
Freed(c) == c # open /\ Emptied(c)

\* Puts a record in the open chunk, or in a new one, which seals the open one.
Alloc(r) ==
  /\ chunkOf[r] = 0
  /\ \/ /\ open > 0
        /\ chunkOf' = [chunkOf EXCEPT ![r] = open]
        /\ UNCHANGED <<open, swept>>
     \/ /\ open < MaxChunks
        /\ open' = open + 1
        /\ chunkOf' = [chunkOf EXCEPT ![r] = open + 1]
        /\ swept' = swept \cup {c \in 1..open : Emptied(c)}

\* The identity of the handle's words and the arena's chunk, which a sweep ends.
LiveRecord(x) == chunkOf[x] \notin swept

-----------------------------------------------------------------------------
(* Counts.                                                                 *)

Kept(x) == \E i \in 1..Len(commits) : x \in commits[i].kept

\* Fault: a commit scope's kept record gives its own count away.
HoldMovingKept(x) ==
  /\ count[x] > 0
  /\ IF x \in owned
     THEN /\ owned' = owned \ {x}
          /\ moved' = IF frames = <<>> THEN moved ELSE Append(moved, x)
          /\ UNCHANGED count
     ELSE /\ count' = [count EXCEPT ![x] = @ + 1]
          /\ UNCHANGED <<owned, moved>>

\* One more count of x: moves the count its builder's handle holds unless a
\* commit scope keeps x, else takes one more.
Hold(x) ==
  /\ count[x] > 0
  /\ IF x \in owned /\ ~Kept(x)
     THEN /\ owned' = owned \ {x}
          /\ moved' = IF frames = <<>> THEN moved ELSE Append(moved, x)
          /\ UNCHANGED count
     ELSE /\ count' = [count EXCEPT ![x] = @ + 1]
          /\ UNCHANGED <<owned, moved>>

\* The native hold of a side's record, which knows no commit scope.
Adopted(x) == IF x \in owned THEN count ELSE [count EXCEPT ![x] = @ + 1]

\* One count of x fewer in cnt; a record left with none is released.
Dropped(cnt, x) == [cnt EXCEPT ![x] = @ - 1]
Released(cnt, x) == IF cnt[x] = 1 THEN dead \cup {x} ELSE dead

\* Fault: the handle is marked as holding a count it does not take.
GiveBackUncounted(x) ==
  /\ owned' = owned \cup {x}
  /\ UNCHANGED count

GiveBack(x) ==
  /\ count' = [count EXCEPT ![x] = @ + 1]
  /\ owned' = owned \cup {x}

\* Fault: a release does not look at whether the handle holds a count.
ReleaseTwice(x) ==
  /\ owned' = owned \ {x}
  /\ count' = Dropped(count, x)
  /\ dead' = Released(count, x)

\* The count the handle of x holds, released.
ReleaseOwned(x) ==
  IF x \in owned
  THEN /\ owned' = owned \ {x}
       /\ count' = Dropped(count, x)
       /\ dead' = Released(count, x)
  ELSE UNCHANGED <<owned, count, dead>>

\* One step of the native release: a released record drops a place, or is done.
\* (A released record's rows leave the store, its cells stay written.)
Release ==
  /\ \E d \in dead :
       \/ \E p \in PlacesOf(d) :
            /\ counted' = counted \ {p}
            /\ words' = IF p[2] \in Sides THEN [words EXCEPT ![p] = Nil] ELSE words
            /\ count' = Dropped(count, words[p])
            /\ dead' = Released(count, words[p])
       \/ /\ PlacesOf(d) = {}
          /\ dead' = dead \ {d}
          /\ UNCHANGED <<count, words, counted>>
  /\ UNCHANGED <<owned, chunks, handed, scopes, call>>

-----------------------------------------------------------------------------
(* Builds.                                                                 *)

NewFrame(kind, r, src) ==
  [kind |-> kind, rec |-> r, src |-> src, run |-> Nil, at |-> Nil, done |-> {},
   minted |-> Len(minted), moved |-> Len(moved)]

\* Fault: the end of any scope forgets what moved, an inner one's too.
EndScopeForgetting(m, v) ==
  /\ frames' = Outer
  /\ moved' = <<>>
  /\ minted' = IF Outer = <<>> /\ commits = <<>> THEN <<>> ELSE m

\* The end of a scope, whose lists are left as m and v: the outermost one
\* forgets what moved, and with no commit scope open what was minted.
EndScope(m, v) ==
  /\ frames' = Outer
  /\ moved' = IF Outer = <<>> THEN <<>> ELSE v
  /\ minted' = IF Outer = <<>> /\ commits = <<>> THEN <<>> ELSE m

\* A call of an intercepted builder: its interceptor runs in the build's scope.
InterceptBuild ==
  /\ UserCode
  /\ Len(frames) < MaxFrames
  /\ frames' = Append(frames, NewFrame("intercept", Nil, Nil))
  /\ UNCHANGED <<counts, chunks, handed, minted, moved, commits, call>>

Mint(r, src) ==
  /\ Len(frames) < MaxFrames
  /\ Alloc(r)
  /\ count' = [count EXCEPT ![r] = 1]
  /\ owned' = owned \cup {r}
  /\ minted' = Append(minted, r)
  /\ frames' = Append(frames, NewFrame("build", r, src))

\* A builder drafts its record.
BuildRecord(r) ==
  /\ UserCode
  /\ Mint(r, Nil)
  /\ UNCHANGED <<words, counted, dead, handed, moved, commits, call>>

\* A $with drafts a copy of the record src.  That src was released does not
\* stop it, only that its chunk was freed.
EditRecord(r, src) ==
  /\ UserWrites
  /\ src \in handed
  /\ LiveRecord(src) /\ ~Freed(chunkOf[src])
  /\ Mint(r, src)
  /\ LET from == {p \in {src} \X Cells : words[p] # Nil}
     IN  call' = IF from = {} THEN NoCall ELSE [NoCall EXCEPT !.op = "copy", !.rec = r, !.copies = from]
  /\ UNCHANGED <<words, counted, dead, handed, moved, commits>>

\* Fault: a copied cell names its record without holding it.
CopyCellUnheld(p) ==
  LET q == <<call.rec, p[2]>>
      left == call.copies \ {p}
  IN  /\ call.op = "copy"
      /\ words' = [words EXCEPT ![q] = words[p]]
      /\ call' = IF left = {} THEN NoCall ELSE [call EXCEPT !.copies = left]
      /\ UNCHANGED <<count, owned, counted, dead, chunks, handed, minted, moved, frames, commits>>

CopyCell(p) ==
  LET q == <<call.rec, p[2]>>
      left == call.copies \ {p}
  IN  /\ call.op = "copy"
      /\ Hold(words[p])
      /\ words' = [words EXCEPT ![q] = words[p]]
      /\ counted' = counted \cup {q}
      /\ call' = IF left = {} THEN NoCall ELSE [call EXCEPT !.copies = left]
      /\ UNCHANGED <<dead, chunks, handed, minted, frames, commits>>

Place(p, x) ==
  /\ Hold(x)
  /\ words' = [words EXCEPT ![p] = x]
  /\ counted' = counted \cup {p}

SetTop(f) == frames' = [frames EXCEPT ![Len(frames)] = f]
\* The slots written once the builder turns to slot c.
Done(c) == Top.done \cup ({c, Top.at} \ {Nil})

\* Fault: an edited slot is written over the cell copied to it, still counted.
PatchCellUndropped(c) ==
  LET p == <<Top.rec, c>>
  IN  /\ Building
      /\ c \notin Top.done /\ p \in counted
      /\ counted' = counted \ {p}
      /\ words' = [words EXCEPT ![p] = Nil]
      /\ SetTop([Top EXCEPT !.done = Done(Nil), !.at = c, !.run = Nil])
      /\ UNCHANGED <<count, owned, dead, chunks, handed, minted, moved, commits, call>>

\* The count an edited slot's copied cell holds, dropped before the slot is written.
PatchCell(c) ==
  LET p == <<Top.rec, c>>
  IN  /\ Building
      /\ c \notin Top.done /\ p \in counted
      /\ counted' = counted \ {p}
      /\ count' = Dropped(count, words[p])
      /\ dead' = Released(count, words[p])
      /\ words' = [words EXCEPT ![p] = Nil]
      /\ SetTop([Top EXCEPT !.done = Done(Nil), !.at = c, !.run = Nil])
      /\ UNCHANGED <<owned, chunks, handed, minted, moved, commits, call>>

StoreCell(c, x) ==
  LET p == <<Top.rec, c>>
  IN  /\ Building
      /\ c \notin Top.done /\ p \notin counted
      /\ x \in handed
      /\ Place(p, x)
      /\ SetTop([Top EXCEPT !.done = Done(c), !.at = Nil, !.run = Nil])
      /\ UNCHANGED <<dead, chunks, handed, minted, commits, call>>

\* A list slot: a run, held by the cell, whose items are stored after it.
StoreRun(c, u) ==
  LET p == <<Top.rec, c>>
  IN  /\ Building
      /\ c \notin Top.done /\ p \notin counted
      /\ Alloc(u)
      /\ count' = [count EXCEPT ![u] = 1]
      /\ words' = [words EXCEPT ![p] = u]
      /\ counted' = counted \cup {p}
      /\ SetTop([Top EXCEPT !.done = Done(c), !.at = Nil, !.run = u])
      /\ UNCHANGED <<owned, dead, handed, minted, moved, commits, call>>

StoreItem(k, x) ==
  LET p == <<Top.run, k>>
  IN  /\ Building
      /\ Top.run # Nil /\ p \notin counted
      /\ x \in handed
      /\ Place(p, x)
      /\ UNCHANGED <<dead, chunks, handed, minted, frames, commits, call>>

\* A leaf's text interned into a new string chunk: JavaScript is told of the
\* chunks freed since it last asked for one.
InternText ==
  /\ Building
  /\ swept' = swept \cup {c \in 1..open : Freed(c)}
  /\ UNCHANGED <<counts, chunkOf, open, handed, scopes, call>>

\* The builder returns its record, an edit what its source's sides are carried to.
FinishBuild ==
  /\ Building
  /\ EndScope(minted, moved)
  /\ IF Top.src = Nil
     THEN call' = NoCall /\ handed' = handed \cup {Top.rec}
     ELSE /\ call' = [NoCall EXCEPT !.op = "carry", !.rec = Top.rec, !.copies = SidesOf(Top.src)]
          /\ UNCHANGED handed
  /\ UNCHANGED <<counts, chunks, commits>>

FinishIntercepted ==
  /\ UserCode /\ frames # <<>>
  /\ EndScope(minted, moved)
  /\ UNCHANGED <<counts, chunks, handed, commits, call>>

-----------------------------------------------------------------------------
(* After an edit's scope: the source's sides are written to the result,    *)
(* which is then returned, or refused and released.                        *)

CarrySide(p) ==
  LET q == <<call.rec, p[2]>>
      x == words[p]
  IN  /\ call.op = "carry"
      /\ count' = Adopted(x)
      /\ owned' = owned \ {x}
      /\ words' = [words EXCEPT ![q] = x]
      /\ counted' = counted \cup {q}
      /\ call' = [call EXCEPT !.copies = @ \ {p}]
      /\ UNCHANGED <<dead, chunks, handed, scopes>>

ReturnEdit ==
  /\ call.op = "carry" /\ call.copies = {}
  /\ handed' = handed \cup {call.rec}
  /\ call' = NoCall
  /\ UNCHANGED <<counts, chunks, scopes>>

RefuseEdit ==
  /\ call.op = "carry"
  /\ ReleaseOwned(call.rec)
  /\ call' = NoCall
  /\ UNCHANGED <<words, counted, chunks, handed, scopes>>

-----------------------------------------------------------------------------
(* A build that throws: #abandon gives back each count its cells moved,    *)
(* then releases what it minted, each the latest first.                    *)

Throw ==
  /\ Idle /\ frames # <<>>
  /\ call' = [NoCall EXCEPT !.op = "giveback", !.n = Len(moved)]
  /\ UNCHANGED <<counts, chunks, handed, scopes>>

\* A copied cell names a released record, which is not held.
CopyRefused ==
  /\ call.op = "copy"
  /\ \E p \in call.copies : count[words[p]] = 0
  /\ call' = [NoCall EXCEPT !.op = "giveback", !.n = Len(moved)]
  /\ UNCHANGED <<counts, chunks, handed, scopes>>

GiveBackMoved ==
  /\ call.op = "giveback" /\ dead = {}
  /\ IF call.n > Top.moved
     THEN /\ count[moved[call.n]] > 0
          /\ GiveBack(moved[call.n])
          /\ call' = [call EXCEPT !.n = @ - 1]
     ELSE /\ call' = [call EXCEPT !.op = "free", !.n = Len(minted)]
          /\ UNCHANGED <<count, owned>>
  /\ UNCHANGED <<words, counted, dead, chunks, handed, scopes>>

FreeMinted ==
  /\ call.op = "free" /\ dead = {}
  /\ call.n > Top.minted
  /\ ~Freed(chunkOf[minted[call.n]])
  /\ ReleaseOwned(minted[call.n])
  /\ call' = [call EXCEPT !.n = @ - 1]
  /\ UNCHANGED <<words, counted, chunks, handed, scopes>>

Abandoned ==
  /\ call.op = "free" /\ dead = {}
  /\ call.n <= Top.minted
  /\ EndScope(SubSeq(minted, 1, Top.minted), SubSeq(moved, 1, Top.moved))
  /\ call' = NoCall
  /\ UNCHANGED <<counts, chunks, handed, commits>>

\* A count of a released record is not given back, and a record of a freed
\* chunk not released: either refusal ends the rollback where it is.
AbandonRefused ==
  /\ dead = {}
  /\ \/ call.op = "giveback" /\ call.n > Top.moved /\ count[moved[call.n]] = 0
     \/ call.op = "free" /\ call.n > Top.minted /\ Freed(chunkOf[minted[call.n]])
  /\ EndScope(minted, moved)
  /\ call' = NoCall
  /\ UNCHANGED <<counts, chunks, handed, commits>>

-----------------------------------------------------------------------------
(* What user code does with a node it holds.                               *)

ReleaseNode(x) ==
  /\ UserWrites
  /\ x \in handed /\ LiveRecord(x) /\ ~Freed(chunkOf[x])
  /\ ReleaseOwned(x)
  /\ UNCHANGED <<words, counted, chunks, handed, scopes, call>>

\* Fault: a side written over keeps the count of what it named.
WriteSideOver(h, s, x) ==
  LET p == <<h, s>>
  IN  /\ UserWrites
      /\ h \in handed /\ LiveRecord(h)
      /\ \/ x = Nil
         \/ x \in handed /\ LiveRecord(x) /\ count[x] > 0
      /\ owned' = owned \ {x}
      /\ words' = [words EXCEPT ![p] = x]
      /\ counted' = IF x = Nil THEN counted \ {p} ELSE counted \cup {p}
      /\ count' = IF x = Nil THEN count ELSE Adopted(x)
      /\ UNCHANGED <<dead, chunks, handed, scopes, call>>

\* Side s of h names x from now on, or nothing: x is held, and what the side
\* named before released.  That h was released is not looked at.
WriteSide(h, s, x) ==
  LET p == <<h, s>>
      held == IF x = Nil THEN count ELSE Adopted(x)
  IN  /\ UserWrites
      /\ h \in handed /\ LiveRecord(h)
      /\ \/ x = Nil
         \/ x \in handed /\ LiveRecord(x) /\ count[x] > 0
      /\ owned' = owned \ {x}
      /\ words' = [words EXCEPT ![p] = x]
      /\ counted' = IF x = Nil THEN counted \ {p} ELSE counted \cup {p}
      /\ IF p \in counted
         THEN count' = Dropped(held, words[p]) /\ dead' = Released(held, words[p])
         ELSE count' = held /\ UNCHANGED dead
      /\ UNCHANGED <<chunks, handed, scopes, call>>

-----------------------------------------------------------------------------
(* Commit scopes.                                                          *)

OpenCommit ==
  /\ Idle /\ frames = <<>>
  /\ Len(commits) < MaxCommits
  /\ commits' = Append(commits, [minted |-> Len(minted), kept |-> {}])
  /\ UNCHANGED <<counts, chunks, handed, minted, moved, frames, call>>

\* Fault: a keep does not refuse a released record.
KeepReleased(i, x) ==
  /\ UserWrites
  /\ i \in 1..Len(commits)
  /\ x \in handed /\ LiveRecord(x)
  /\ IF x \in owned THEN UNCHANGED <<count, owned>> ELSE GiveBack(x)
  /\ commits' = [commits EXCEPT ![i].kept = @ \cup {x}]
  /\ UNCHANGED <<words, counted, dead, chunks, handed, minted, moved, frames, call>>

Keep(i, x) ==
  /\ UserWrites
  /\ i \in 1..Len(commits)
  /\ x \in handed /\ LiveRecord(x) /\ count[x] > 0
  /\ IF x \in owned THEN UNCHANGED <<count, owned>> ELSE GiveBack(x)
  /\ commits' = [commits EXCEPT ![i].kept = @ \cup {x}]
  /\ UNCHANGED <<words, counted, dead, chunks, handed, minted, moved, frames, call>>

CloseCommit ==
  LET mark == commits[Len(commits)]
  IN  /\ Idle /\ frames = <<>>
      /\ commits # <<>>
      /\ commits' = SubSeq(commits, 1, Len(commits) - 1)
      /\ call' = [NoCall EXCEPT !.op = "close", !.n = mark.minted + 1, !.base = mark.minted, !.kept = mark.kept]
      /\ UNCHANGED <<counts, chunks, handed, minted, moved, frames>>

\* Fault: a close stops at a record whose chunk JavaScript dropped.
CloseNextUnswept ==
  LET x == minted[call.n]
  IN  /\ call.op = "close" /\ dead = {}
      /\ call.n <= Len(minted)
      /\ LiveRecord(x)
      /\ \/ /\ x \in call.kept \/ Kept(x)
            /\ call' = [call EXCEPT !.n = @ + 1, !.carried = Append(@, x)]
            /\ UNCHANGED <<owned, count, dead>>
         \/ /\ x \notin call.kept /\ ~Kept(x)
            /\ ~Freed(chunkOf[x])
            /\ ReleaseOwned(x)
            /\ call' = [call EXCEPT !.n = @ + 1]
      /\ UNCHANGED <<words, counted, chunks, handed, scopes>>

\* The closing scope's n-th record: passed over once swept, handed to the
\* scope around it when kept, else released.
CloseNext ==
  LET x == minted[call.n]
  IN  /\ call.op = "close" /\ dead = {}
      /\ call.n <= Len(minted)
      /\ \/ /\ ~LiveRecord(x)
            /\ call' = [call EXCEPT !.n = @ + 1]
            /\ UNCHANGED <<owned, count, dead>>
         \/ /\ LiveRecord(x) /\ (x \in call.kept \/ Kept(x))
            /\ call' = [call EXCEPT !.n = @ + 1, !.carried = Append(@, x)]
            /\ UNCHANGED <<owned, count, dead>>
         \/ /\ LiveRecord(x) /\ x \notin call.kept /\ ~Kept(x)
            /\ ~Freed(chunkOf[x])
            /\ ReleaseOwned(x)
            /\ call' = [call EXCEPT !.n = @ + 1]
      /\ UNCHANGED <<words, counted, chunks, handed, scopes>>

Closed ==
  /\ call.op = "close" /\ dead = {}
  /\ call.n > Len(minted)
  /\ minted' = SubSeq(minted, 1, call.base) \o (IF commits = <<>> THEN <<>> ELSE call.carried)
  /\ call' = NoCall
  /\ UNCHANGED <<counts, chunks, handed, moved, frames, commits>>

\* A record of a freed chunk JavaScript was not told of yet is looked up.
CloseRefused ==
  LET x == minted[call.n]
  IN  /\ call.op = "close" /\ dead = {}
      /\ call.n <= Len(minted)
      /\ LiveRecord(x) /\ x \notin call.kept /\ ~Kept(x)
      /\ Freed(chunkOf[x])
      /\ call' = NoCall
      /\ UNCHANGED <<counts, chunks, handed, scopes>>

-----------------------------------------------------------------------------
\* The steps of a call under way, which run to its end before anything else does.
Continues ==
  \/ Release
  \/ /\ dead = {}
     /\ \/ \E p \in call.copies : CopyCell(p) \/ CarrySide(p)
        \/ CopyRefused \/ ReturnEdit \/ RefuseEdit
        \/ GiveBackMoved \/ FreeMinted \/ Abandoned \/ AbandonRefused
        \/ CloseNext \/ Closed \/ CloseRefused

Starts ==
  \/ InterceptBuild
  \/ \E r \in Records : BuildRecord(r)
  \/ \E r, src \in Records : EditRecord(r, src)
  \/ \E c \in Cells : PatchCell(c)
  \/ \E c \in Cells, x \in Records : StoreCell(c, x) \/ StoreRun(c, x) \/ StoreItem(c, x)
  \/ InternText
  \/ FinishBuild \/ FinishIntercepted
  \/ Throw
  \/ \E x \in Records : ReleaseNode(x)
  \/ \E h \in Records, s \in Sides, x \in Records \cup {Nil} : WriteSide(h, s, x)
  \/ OpenCommit
  \/ \E i \in 1..MaxCommits, x \in Records : Keep(i, x)
  \/ CloseCommit

Next == Continues \/ Starts

Spec == Init /\ [][Next]_vars

\* A call once begun runs to its end.
FairSpec == Spec /\ WF_vars(Continues)

-----------------------------------------------------------------------------
(* Properties.                                                             *)

OwnCount(x) == IF x \in owned THEN 1 ELSE 0

\* Every handle's count and every place's count is among a record's counts, so
\* no release, rollback or edit ever spends a count another holder relies on.
CountsCover == \A x \in Records : count[x] >= OwnCount(x) + Cardinality(Holders(x))

\* What a reader or a render of a live record follows: each cell and side of a
\* live record names nothing, or a live record of a chunk that was not freed.
NoDangling ==
  \A p \in Places : count[p[1]] > 0 /\ words[p] # Nil =>
    count[words[p]] > 0 /\ ~Freed(chunkOf[words[p]])

\* With interceptors that only build, no count is lost either: a record's count
\* is exactly its handle's and its places', through edits, throws and closes.
CountsExact == \A x \in Records : count[x] = OwnCount(x) + Cardinality(Holders(x))

\* Once every handle let go and no side is written, every record is released:
\* no legal sequence of builds, edits, throws, keeps and closes leaks one.
NothingLeaks ==
  Idle /\ frames = <<>> /\ owned = {} /\ (\A p \in counted : p[2] \in Cells) =>
    \A x \in Records : count[x] = 0

\* A freed chunk is freed for good: no keep, rollback, side or edit counts a
\* record of it again.  (Its number may be given to a new chunk.)
FreedStaysFreed == [][\A c \in 1..open : Freed(c) => Freed(c)']_vars

\* CommitScope's close: it throws for an inner scope still open or a build under
\* way, and no other reason, so a close begun meets no record it cannot look up.
CloseNeverRefused ==
  LET x == minted[call.n]
  IN  call.op = "close" /\ call.n <= Len(minted) =>
        ~LiveRecord(x) \/ x \in call.kept \/ Kept(x) \/ ~Freed(chunkOf[x])

\* A build that throws or a scope that closes ends: no rollback or close stays
\* under way, and none leaves a released record whose places are not dropped.
CallsEnd == ~Idle ~> Idle
=============================================================================
