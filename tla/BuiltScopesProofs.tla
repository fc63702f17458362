------------------------- MODULE BuiltScopesProofs --------------------------
(***************************************************************************)
(* What scopes promise, proved for any number of records, cells, sides,    *)
(* commit scopes, chunks and nested builds: what a commit scope keeps      *)
(* stays live, and, with interceptors that only build, no count is lost,   *)
(* a build that throws gives back what it took, and nothing leaks.         *)
(***************************************************************************)
EXTENDS BuiltKeeps, BuiltRollback, BuiltArenaProofs

-----------------------------------------------------------------------------
(* Kept nodes: the inductive invariant.                                    *)

\* What a scope keeps was returned by a builder.
KeptHanded == \A i \in 1..Len(commits) : commits[i].kept \subseteq handed

\* A build runs innermost, and its record is no one's until it is returned.
BuildsInner ==
  /\ \A i \in 1..Len(frames) :
       frames[i].kind = "build" => i = Len(frames) /\ frames[i].rec \notin handed
  /\ call.op = "carry" => /\ \A i \in 1..Len(frames) : frames[i].kind # "build"
                          /\ call.rec \notin handed
                          /\ \A p \in call.copies : p[2] \in Sides

\* The handle of a claimed record an open scope keeps holds a count of it.
ClaimsOwned == claims \subseteq Records /\ \A x \in claims : Kept(x) => x \in owned

KeepInv == KeptHanded /\ BuildsInner /\ ClaimsOwned

-----------------------------------------------------------------------------
(* Commit scopes.                                                          *)

\* The records scopes keep change when one opens, closes or keeps one more.
LEMMA CommitsStep ==
  ASSUME [Next]_vars
  PROVE  \/ commits' = commits
         \/ OpenCommit \/ CloseCommit
         \/ \E i \in 1..MaxCommits, x \in Records : Keep(i, x)
<1>1. CASE Continues
  BY <1>1 DEF Continues, Release, CopyCell, CarrySide, CopyRefused, ReturnEdit, RefuseEdit,
              GiveBackMoved, FreeMinted, Abandoned, AbandonRefused, CloseNext, Closed,
              CloseRefused, scopes
<1>2. CASE Starts
  <2>1. ASSUME NEW r \in Records, BuildRecord(r) \/ \E src \in Records : EditRecord(r, src)
        PROVE  commits' = commits
    BY <2>1 DEF BuildRecord, EditRecord
  <2>2. ASSUME NEW c \in Cells, PatchCell(c) \/ \E x \in Records : StoreCell(c, x) \/ StoreRun(c, x) \/ StoreItem(c, x)
        PROVE  commits' = commits
    BY <2>2 DEF PatchCell, StoreCell, StoreRun, StoreItem
  <2>3. ASSUME NEW h \in Records, NEW s \in Sides, NEW x \in Records \cup {Nil}, WriteSide(h, s, x)
        PROVE  commits' = commits
    BY <2>3 DEF WriteSide, scopes
  <2>4. ASSUME NEW x \in Records, ReleaseNode(x) PROVE commits' = commits
    BY <2>4 DEF ReleaseNode, scopes
  <2>5. CASE InterceptBuild \/ InternText \/ FinishBuild \/ FinishIntercepted \/ Throw
    BY <2>5 DEF InterceptBuild, InternText, FinishBuild, FinishIntercepted, Throw, scopes
  <2> QED
    BY <1>2, <2>1, <2>2, <2>3, <2>4, <2>5 DEF Starts
<1>3. CASE UNCHANGED vars
  BY <1>3 DEF vars, scopes
<1> QED
  BY <1>1, <1>2, <1>3 DEF Next

LEMMA KeepMarks ==
  ASSUME TypeInv, NEW i \in 1..MaxCommits, NEW x \in Records, Keep(i, x)
  PROVE  /\ i \in 1..Len(commits) /\ Len(commits') = Len(commits)
         /\ \A j \in 1..Len(commits) :
              commits'[j].kept = IF j = i THEN commits[j].kept \cup {x} ELSE commits[j].kept
         /\ x \in owned' /\ x \in handed /\ owned \subseteq owned'
<1>1. commits \in Seq(Mark) /\ i \in 1..Len(commits)
      /\ commits' = [commits EXCEPT ![i].kept = @ \cup {x}]
  BY DEF Keep, TypeInv, TypeOK
<1>2. Len(commits) \in Nat /\ \A j \in 1..Len(commits) : commits[j] \in Mark
  BY <1>1, LenProperties, ElementOfSeq
<1>3. \A j \in 1..Len(commits) :
        commits'[j].kept = IF j = i THEN commits[j].kept \cup {x} ELSE commits[j].kept
  <2>1. commits' = [commits EXCEPT ![i] = [commits[i] EXCEPT !.kept = @ \cup {x}]]
    BY <1>1
  <2>2. [commits[i] EXCEPT !.kept = @ \cup {x}].kept = commits[i].kept \cup {x}
    BY <1>1, <1>2 DEF Mark
  <2> QED
    BY <1>1, <1>2, <2>1, <2>2, LenProperties
<1>4. Len(commits') = Len(commits)
  BY <1>1, LenProperties
<1>5. x \in owned' /\ x \in handed /\ owned \subseteq owned'
  BY DEF Keep, GiveBack
<1> QED
  BY <1>1, <1>3, <1>4, <1>5

LEMMA OpenMarks ==
  ASSUME TypeInv, OpenCommit
  PROVE  /\ Len(commits') = Len(commits) + 1 /\ Len(commits) \in Nat
         /\ \A j \in 1..Len(commits) : commits'[j] = commits[j]
         /\ commits'[Len(commits) + 1].kept = {}
<1>1. commits \in Seq(Mark) /\ Len(minted) \in Nat
  BY LenProperties DEF TypeInv, TypeOK
<1>2. [minted |-> Len(minted), kept |-> {}] \in Mark
  BY <1>1 DEF Mark
<1> QED
  BY <1>1, <1>2, AppendProperties DEF OpenCommit

LEMMA CloseMarks ==
  ASSUME TypeInv, CloseCommit
  PROVE  /\ Len(commits') = Len(commits) - 1 /\ Len(commits') \in Nat
         /\ \A j \in 1..Len(commits') : commits'[j] = commits[j]
<1>1. commits \in Seq(Mark) /\ commits # <<>> /\ commits' = SubSeq(commits, 1, Len(commits) - 1)
  BY DEF CloseCommit, TypeInv, TypeOK
<1>2. Len(commits) \in Nat \ {0}
  BY <1>1, LenProperties, EmptySeq
<1>3. Len(commits) - 1 \in 0..Len(commits) /\ Len(commits) - 1 \in Nat
  BY <1>2
<1>4. /\ Len(SubSeq(commits, 1, Len(commits) - 1)) = Len(commits) - 1
      /\ \A j \in 1..(Len(commits) - 1) : SubSeq(commits, 1, Len(commits) - 1)[j] = commits[j]
  BY <1>1, <1>3, PrefixType
<1> QED
  BY <1>1, <1>3, <1>4

\* A record no scope kept is kept by a keep of its own, which gives its handle a count.
LEMMA NewlyKept ==
  ASSUME TypeInv, [Next]_vars, NEW x \in Records, Kept(x)', ~Kept(x) \/ x \in JustKept
  PROVE  x \in owned'
<1>1. PICK k \in 1..Len(commits') :
        x \in commits'[k].kept /\ (k > Len(commits) \/ x \notin commits[k].kept)
  BY SMTT(30), Elements DEF Kept, JustKept, TypeInv
<1>2. Len(commits) \in Nat
  BY Elements DEF TypeInv
<1>3. commits' # commits
  BY <1>1, <1>2
<1>4. ~OpenCommit
  BY <1>1, <1>2, OpenMarks
<1>5. ~CloseCommit
  BY <1>1, <1>2, CloseMarks
<1>6. ASSUME NEW i \in 1..MaxCommits, NEW y \in Records, Keep(i, y) PROVE x \in owned'
  <2>1. /\ Len(commits') = Len(commits) /\ y \in owned'
        /\ \A j \in 1..Len(commits) :
             commits'[j].kept = IF j = i THEN commits[j].kept \cup {y} ELSE commits[j].kept
    BY <1>6, KeepMarks
  <2>2. k \in 1..Len(commits) /\ x \notin commits[k].kept
    BY <1>1, <1>2, <2>1
  <2>3. commits'[k].kept = IF k = i THEN commits[k].kept \cup {y} ELSE commits[k].kept
    BY <2>1, <2>2
  <2>4. x = y
    BY <1>1, <2>2, <2>3
  <2> QED
    BY <2>1, <2>4
<1> QED
  BY <1>3, <1>4, <1>5, <1>6, CommitsStep

-----------------------------------------------------------------------------
(* What is returned, and what is being built.                              *)

LEMMA HandedGrows == ASSUME [Next]_vars PROVE handed \subseteq handed'
<1>1. CASE Continues
  BY <1>1 DEF Continues, Release, CopyCell, CarrySide, CopyRefused, ReturnEdit, RefuseEdit,
              GiveBackMoved, FreeMinted, Abandoned, AbandonRefused, CloseNext, Closed, CloseRefused
<1>2. CASE Starts
  <2>1. ASSUME NEW r \in Records, BuildRecord(r) \/ \E src \in Records : EditRecord(r, src)
        PROVE  handed' = handed
    BY <2>1 DEF BuildRecord, EditRecord
  <2>2. ASSUME NEW c \in Cells, PatchCell(c) \/ \E x \in Records : StoreCell(c, x) \/ StoreRun(c, x) \/ StoreItem(c, x)
        PROVE  handed' = handed
    BY <2>2 DEF PatchCell, StoreCell, StoreRun, StoreItem
  <2>3. ASSUME NEW h \in Records, NEW s \in Sides, NEW x \in Records \cup {Nil}, WriteSide(h, s, x)
        PROVE  handed' = handed
    BY <2>3 DEF WriteSide
  <2>4. ASSUME NEW i \in 1..MaxCommits, NEW x \in Records, Keep(i, x) PROVE handed' = handed
    BY <2>4 DEF Keep
  <2>5. ASSUME NEW x \in Records, ReleaseNode(x) PROVE handed' = handed
    BY <2>5 DEF ReleaseNode
  <2>6. CASE InterceptBuild \/ InternText \/ FinishBuild \/ FinishIntercepted \/ Throw
             \/ OpenCommit \/ CloseCommit
    BY <2>6 DEF InterceptBuild, InternText, FinishBuild, FinishIntercepted, Throw, OpenCommit, CloseCommit
  <2> QED
    BY <1>2, <2>1, <2>2, <2>3, <2>4, <2>5, <2>6 DEF Starts
<1>3. CASE UNCHANGED vars
  BY <1>3 DEF vars
<1> QED
  BY <1>1, <1>2, <1>3 DEF Next

LEMMA KeptHandedStep ==
  ASSUME TypeInv, KeptHanded, [Next]_vars
  PROVE  KeptHanded'
<1>1. CASE commits' = commits
  BY <1>1, HandedGrows DEF KeptHanded
<1>2. CASE OpenCommit
  <2>1. handed' = handed
    BY <1>2 DEF OpenCommit
  <2> QED
    BY <1>2, <2>1, OpenMarks DEF KeptHanded
<1>3. CASE CloseCommit
  <2>1. handed' = handed /\ Len(commits) \in Nat
    BY <1>3, Elements DEF CloseCommit, TypeInv
  <2> QED
    BY <1>3, <2>1, CloseMarks DEF KeptHanded
<1>4. ASSUME NEW i \in 1..MaxCommits, NEW x \in Records, Keep(i, x) PROVE KeptHanded'
  <2>1. /\ Len(commits') = Len(commits) /\ x \in handed
        /\ \A j \in 1..Len(commits) :
             commits'[j].kept = IF j = i THEN commits[j].kept \cup {x} ELSE commits[j].kept
    BY <1>4, KeepMarks
  <2> QED
    BY <2>1, HandedGrows DEF KeptHanded
<1> QED
  BY <1>1, <1>2, <1>3, <1>4, CommitsStep

\* A scope opened by user code, which runs in no build: what is being built is not yet returned.
LEMMA PushBuilds ==
  ASSUME TypeInv, BuildsInner, UserCode, NEW f \in Frame, f.kind = "build" => f.rec \notin handed,
         frames' = Append(frames, f), handed' = handed, call'.op # "carry"
  PROVE  BuildsInner'
<1>1. /\ Len(frames) \in Nat /\ Len(frames') = Len(frames) + 1
      /\ \A i \in 1..(Len(frames) + 1) : frames'[i] = IF i = Len(frames) + 1 THEN f ELSE frames[i]
  BY Elements, PushType DEF TypeInv
<1>2. \A i \in 1..Len(frames) : frames[i].kind # "build"
  <2>1. frames # <<>> => Top.kind # "build"
    BY DEF UserCode, InBuild
  <2>2. frames = <<>> => Len(frames) = 0
    BY EmptySeq
  <2> QED
    BY <1>1, <2>1, <2>2 DEF BuildsInner, Top
<1> QED
  BY <1>1, <1>2 DEF BuildsInner

\* The end of the innermost scope leaves none that builds.
LEMMA EndBuilds ==
  ASSUME TypeInv, BuildsInner, frames # <<>>, frames' = Outer
  PROVE  \A i \in 1..Len(frames') : frames'[i].kind # "build"
<1>1. /\ Len(frames) \in Nat \ {0} /\ Len(frames') = Len(frames) - 1
      /\ \A i \in 1..(Len(frames) - 1) : frames'[i] = frames[i]
  BY ScopesType DEF TypeInv
<1> QED
  BY <1>1 DEF BuildsInner

LEMMA SameBuilds ==
  ASSUME BuildsInner, UNCHANGED <<frames, handed>>, call' = call \/ call'.op # "carry"
  PROVE  BuildsInner'
BY DEF BuildsInner

LEMMA MintBuilds ==
  ASSUME TypeInv, CoverInv, BuildsInner, UserCode, NEW r \in Records, NEW src \in Records \cup {Nil},
         Mint(r, src), handed' = handed, call'.op # "carry"
  PROVE  BuildsInner'
<1> DEFINE f == NewFrame("build", r, src)
<1>1. f \in Frame /\ f.rec = r
  BY Elements DEF NewFrame, Frame, TypeInv
<1>2. r \notin handed
  BY DEF Mint, Alloc, CoverInv, Placement, PlacedHandles
<1> QED
  BY <1>1, <1>2, PushBuilds DEF Mint

LEMMA SlotBuilds ==
  ASSUME TypeInv, BuildsInner, Building, NEW c \in Cells \cup {Nil}, NEW at \in Cells \cup {Nil},
         NEW u \in Records \cup {Nil}, SetTop([Top EXCEPT !.done = Done(c), !.at = at, !.run = u]),
         handed' = handed, call' = call
  PROVE  BuildsInner'
<1>1. /\ Len(frames') = Len(frames)
      /\ \A i \in 1..Len(frames) : frames'[i].kind = frames[i].kind /\ frames'[i].rec = frames[i].rec
  BY SlotType
<1>2. call.op # "carry"
  BY DEF Building, Idle
<1> QED
  BY <1>1, <1>2 DEF BuildsInner

LEMMA BuildsInnerStep ==
  ASSUME TypeInv, CoverInv, BuildsInner, [Next]_vars
  PROVE  BuildsInner'
<1>1. NoCall.op = "none" /\ call \in Call
  BY NoCallType DEF TypeInv, TypeOK
<1>2. CASE Continues
  <2>1. CASE Release \/ CloseNext \/ Closed \/ CloseRefused \/ CopyRefused \/ GiveBackMoved \/ FreeMinted
    <3>1. frames' = frames /\ handed' = handed
      BY <2>1 DEF Release, CloseNext, Closed, CloseRefused, CopyRefused, GiveBackMoved, FreeMinted, scopes
    <3>2. CASE Release
      BY <3>1, <3>2, SameBuilds DEF Release
    <3>3. CASE Closed \/ CloseRefused
      BY <1>1, <3>1, <3>3, SameBuilds DEF Closed, CloseRefused
    <3>4. CASE CopyRefused
      <4>1. call' = [NoCall EXCEPT !.op = "giveback", !.n = Len(moved)]
        BY <3>4 DEF CopyRefused
      <4> QED
        BY <3>1, <4>1, SameBuilds DEF NoCall
    <3>5. CASE CloseNext
      <4>1. call.op = "close" /\ \/ call' = [call EXCEPT !.n = @ + 1]
                                 \/ call' = [call EXCEPT !.n = @ + 1, !.carried = Append(@, minted[call.n])]
        BY <3>5 DEF CloseNext
      <4>2. call'.op # "carry"
        BY <1>1, <4>1 DEF Call
      <4> QED
        BY <3>1, <4>2, SameBuilds
    <3>6. CASE GiveBackMoved \/ FreeMinted
      <4>1. call.op \in {"giveback", "free"} /\ \/ call' = [call EXCEPT !.n = @ - 1]
                                                \/ call' = [call EXCEPT !.op = "free", !.n = Len(minted)]
        BY <3>6 DEF GiveBackMoved, FreeMinted
      <4>2. call'.op # "carry"
        BY <1>1, <4>1 DEF Call
      <4> QED
        BY <3>1, <4>2, SameBuilds
    <3> QED
      BY <2>1, <3>2, <3>3, <3>4, <3>5, <3>6
  <2>2. ASSUME NEW p \in call.copies, CopyCell(p) PROVE BuildsInner'
    <3>1. call.op = "copy" /\ frames' = frames /\ handed' = handed /\ call'.op # "carry"
      BY <1>1, <2>2 DEF CopyCell, Call
    <3> QED
      BY <3>1, SameBuilds
  <2>3. ASSUME NEW p \in call.copies, CarrySide(p) PROVE BuildsInner'
    <3>1. frames' = frames /\ handed' = handed /\ call.op = "carry"
          /\ call' = [call EXCEPT !.copies = @ \ {p}]
      BY <2>3 DEF CarrySide, scopes
    <3>2. call'.rec = call.rec /\ call'.copies \subseteq call.copies
      BY <1>1, <3>1 DEF Call
    <3> QED
      BY <3>1, <3>2 DEF BuildsInner
  <2>4. CASE ReturnEdit
    <3>1. frames' = frames /\ call.op = "carry" /\ call'.op # "carry"
      BY <1>1, <2>4 DEF ReturnEdit, scopes
    <3> QED
      BY <3>1 DEF BuildsInner
  <2>5. CASE RefuseEdit
    <3>1. frames' = frames /\ handed' = handed /\ call'.op # "carry"
      BY <1>1, <2>5 DEF RefuseEdit, scopes
    <3> QED
      BY <3>1, SameBuilds
  <2>6. CASE Abandoned \/ AbandonRefused
    <3>1. frames # <<>> /\ frames' = Outer /\ handed' = handed /\ call'.op # "carry"
      BY <1>1, <2>6 DEF Abandoned, AbandonRefused, EndScope, TypeInv, Control
    <3> QED
      BY <3>1, EndBuilds DEF BuildsInner
  <2> QED
    BY <1>2, <2>1, <2>2, <2>3, <2>4, <2>5, <2>6 DEF Continues
<1>3. CASE Starts
  <2>1. ASSUME NEW r \in Records, BuildRecord(r) PROVE BuildsInner'
    <3>1. UserCode /\ Mint(r, Nil) /\ handed' = handed /\ call'.op # "carry"
      BY <2>1 DEF BuildRecord, UserCode, Idle
    <3> QED
      BY <3>1, MintBuilds
  <2>2. ASSUME NEW r \in Records, NEW src \in Records, EditRecord(r, src) PROVE BuildsInner'
    <3>1. UserCode /\ Mint(r, src) /\ handed' = handed /\ call'.op # "carry"
      BY <1>1, <2>2 DEF EditRecord, UserWrites, NoCall
    <3> QED
      BY <3>1, MintBuilds
  <2>3. CASE InterceptBuild
    <3> DEFINE f == NewFrame("intercept", Nil, Nil)
    <3>1. f \in Frame /\ f.kind # "build"
      BY Elements DEF NewFrame, Frame, TypeInv
    <3>2. UserCode /\ frames' = Append(frames, f) /\ handed' = handed /\ call'.op # "carry"
      BY <2>3 DEF InterceptBuild, UserCode, Idle
    <3> QED
      BY <3>1, <3>2, PushBuilds
  <2>5. ASSUME NEW c \in Cells, PatchCell(c) PROVE BuildsInner'
    BY <2>5, SlotBuilds DEF PatchCell
  <2>6. ASSUME NEW c \in Cells, NEW x \in Records, StoreCell(c, x) \/ StoreRun(c, x) PROVE BuildsInner'
    BY <2>6, SlotBuilds DEF StoreCell, StoreRun
  <2>7. ASSUME NEW c \in Cells, NEW x \in Records, StoreItem(c, x) PROVE BuildsInner'
    BY <2>7, SameBuilds DEF StoreItem
  <2>8. CASE InternText \/ Throw \/ OpenCommit \/ CloseCommit
    <3>1. frames' = frames /\ handed' = handed /\ (call' = call \/ call'.op # "carry")
      BY <1>1, <2>8 DEF InternText, Throw, OpenCommit, CloseCommit, scopes, NoCall
    <3> QED
      BY <3>1, SameBuilds
  <2>9. CASE FinishIntercepted
    <3>1. frames # <<>> /\ frames' = Outer /\ handed' = handed /\ call'.op # "carry"
      BY <2>9 DEF FinishIntercepted, EndScope, UserCode, Idle
    <3> QED
      BY <3>1, EndBuilds DEF BuildsInner
  <2>10. CASE FinishBuild
    <3>1. frames # <<>> /\ frames' = Outer /\ Top.kind = "build"
      BY <2>10 DEF FinishBuild, EndScope, Building, InBuild
    <3>2. \A i \in 1..Len(frames') : frames'[i].kind # "build"
      BY <3>1, EndBuilds
    <3>3. CASE Top.src = Nil
      BY <1>1, <2>10, <3>2, <3>3 DEF FinishBuild, BuildsInner
    <3>4. CASE Top.src # Nil
      <4>1. handed' = handed /\ call'.rec = Top.rec /\ call'.copies = SidesOf(Top.src)
        BY <2>10, <3>4 DEF FinishBuild, NoCall
      <4>2. Top.rec \notin handed
        <5>1. Len(frames) \in 1..Len(frames)
          BY <3>1, ScopesType DEF TypeInv
        <5> QED
          BY <3>1, <5>1 DEF BuildsInner, Top
      <4> QED
        BY <3>2, <4>1, <4>2 DEF BuildsInner, SidesOf
    <3> QED
      BY <3>3, <3>4
  <2>11. ASSUME NEW x \in Records, ReleaseNode(x) PROVE BuildsInner'
    BY <2>11, SameBuilds DEF ReleaseNode, scopes
  <2>12. ASSUME NEW h \in Records, NEW s \in Sides, NEW x \in Records \cup {Nil}, WriteSide(h, s, x)
         PROVE  BuildsInner'
    BY <2>12, SameBuilds DEF WriteSide, scopes
  <2>13. ASSUME NEW i \in 1..MaxCommits, NEW x \in Records, Keep(i, x) PROVE BuildsInner'
    BY <2>13, SameBuilds DEF Keep
  <2> QED
    BY <1>3, <2>1, <2>2, <2>3, <2>5, <2>6, <2>7, <2>8, <2>9, <2>10, <2>11, <2>12, <2>13 DEF Starts
<1>4. CASE UNCHANGED vars
  BY <1>4, SameBuilds DEF vars, scopes
<1> QED
  BY <1>2, <1>3, <1>4 DEF Next

-----------------------------------------------------------------------------
(* Claims.                                                                 *)

\* A handle loses its count to a place, unless a scope keeps the record, to a side, or by
\* a release.
LEMMA LosesCount ==
  ASSUME TypeInv, Live, KeptHanded, BuildsInner, [Next]_vars,
         NEW x \in Records, Kept(x), x \in owned, x \notin owned'
  PROVE  OnSide(x)' \/ x \in LetGo
<1>1. x \in handed
  BY DEF Kept, KeptHanded
<1>2. count \in [Records -> Nat]
  BY DEF TypeInv, TypeOK
<1>3. ASSUME NEW y \in Records, Hold(y) PROVE FALSE
  BY <1>3 DEF Hold
<1>4. ASSUME NEW y, ReleaseOwned(y), call.op \in {"none", "free"} PROVE x \in LetGo
  <2>1. y = x /\ count' = Dropped(count, x)
    BY <1>4 DEF ReleaseOwned
  <2>2. count'[x] < count[x]
    <3>1. count[x] \in Nat /\ count'[x] = count[x] - 1
      BY <1>2, <2>1 DEF Dropped
    <3> QED
      BY <3>1
  <2> QED
    BY <1>4, <2>2 DEF LetGo
<1>5. CASE Continues
  <2>1. ASSUME NEW p \in call.copies, CopyCell(p) PROVE FALSE
    BY <1>3, <2>1 DEF CopyCell, TypeInv, Control
  <2>2. ASSUME NEW p \in call.copies, CarrySide(p) PROVE OnSide(x)'
    <3> DEFINE q == <<call.rec, p[2]>>
    <3>1. /\ call.op = "carry" /\ owned' = owned \ {words[p]} /\ counted' = counted \cup {q}
          /\ words' = [words EXCEPT ![q] = words[p]]
      BY <2>2 DEF CarrySide
    <3>2. p[2] \in Sides /\ call.rec \in Records /\ words \in [Places -> Records \cup {Nil}]
      BY <3>1 DEF BuildsInner, TypeInv, TypeOK, Control
    <3>3. q \in Places /\ q[2] \in Sides
      BY <3>2 DEF Places
    <3>4. x = words[p] /\ words'[q] = x /\ q \in counted'
      BY <3>1, <3>2, <3>3
    <3> QED
      BY <3>3, <3>4 DEF OnSide, Holders
  <2>3. CASE RefuseEdit
    <3>1. call.op = "carry" /\ ReleaseOwned(call.rec)
      BY <2>3 DEF RefuseEdit
    <3> QED
      BY <1>1, <3>1 DEF ReleaseOwned, BuildsInner
  <2>4. CASE FreeMinted
    BY <1>4, <2>4 DEF FreeMinted
  <2>5. CASE CloseNext
    BY <2>5 DEF CloseNext, ReleaseOwned
  <2>6. CASE GiveBackMoved
    BY <2>6 DEF GiveBackMoved, GiveBack
  <2>7. CASE Release \/ CopyRefused \/ ReturnEdit \/ Abandoned \/ AbandonRefused \/ Closed \/ CloseRefused
    BY <2>7 DEF Release, CopyRefused, ReturnEdit, Abandoned, AbandonRefused, Closed, CloseRefused, counts
  <2> QED
    BY <1>5, <2>1, <2>2, <2>3, <2>4, <2>5, <2>6, <2>7 DEF Continues
<1>6. CASE Starts
  <2>1. ASSUME NEW r \in Records, BuildRecord(r) \/ \E src \in Records : EditRecord(r, src) PROVE FALSE
    BY <2>1 DEF BuildRecord, EditRecord, Mint
  <2>2. ASSUME NEW c \in Cells, PatchCell(c) PROVE FALSE
    BY <2>2 DEF PatchCell
  <2>3. ASSUME NEW c \in Cells, NEW y \in Records, StoreCell(c, y) \/ StoreRun(c, y) \/ StoreItem(c, y)
        PROVE  FALSE
    BY <1>3, <2>3 DEF StoreCell, StoreRun, StoreItem, Place
  <2>4. ASSUME NEW y \in Records, ReleaseNode(y) PROVE x \in LetGo
    BY <1>4, <2>4 DEF ReleaseNode, UserWrites, UserCode, Idle
  <2>5. ASSUME NEW h \in Records, NEW s \in Sides, NEW y \in Records \cup {Nil}, WriteSide(h, s, y)
        PROVE  OnSide(x)'
    <3> DEFINE p == <<h, s>>
    <3>1. /\ owned' = owned \ {y} /\ words' = [words EXCEPT ![p] = y] /\ p \in Places
          /\ counted' = IF y = Nil THEN counted \ {p} ELSE counted \cup {p}
          /\ words \in [Places -> Records \cup {Nil}]
      BY <2>5 DEF WriteSide, Places, TypeInv, TypeOK
    <3>2. x = y /\ x # Nil
      BY <3>1, ConstantsAssumption
    <3>3. p \in counted' /\ words'[p] = x /\ p[2] \in Sides
      BY <3>1, <3>2
    <3> QED
      BY <3>3 DEF OnSide, Holders
  <2>6. ASSUME NEW i \in 1..MaxCommits, NEW y \in Records, Keep(i, y) PROVE FALSE
    BY <2>6 DEF Keep, GiveBack
  <2>7. CASE InterceptBuild \/ InternText \/ FinishBuild \/ FinishIntercepted \/ Throw
             \/ OpenCommit \/ CloseCommit
    BY <2>7 DEF InterceptBuild, InternText, FinishBuild, FinishIntercepted, Throw, OpenCommit,
                CloseCommit, counts
  <2> QED
    BY <1>6, <2>1, <2>2, <2>3, <2>4, <2>5, <2>6, <2>7 DEF Starts
<1>7. CASE UNCHANGED vars
  BY <1>7 DEF vars, counts
<1> QED
  BY <1>5, <1>6, <1>7 DEF Next

LEMMA ClaimsStep ==
  ASSUME TypeInv, Live, KeepInv, KeepNext
  PROVE  ClaimsOwned'
<1>1. /\ [Next]_vars /\ KeptHanded /\ BuildsInner /\ ClaimsOwned
      /\ claims' = {x \in claims \cup JustKept : ~OnSide(x)'} \ (LetGo \cup {x \in Placed : ~Kept(x)})
  BY DEF KeepNext, KeepInv
<1>2. claims' \subseteq Records
  BY <1>1 DEF ClaimsOwned, JustKept
<1>3. ASSUME NEW x \in claims', Kept(x)' PROVE x \in owned'
  <2>1. x \in claims \cup JustKept /\ ~OnSide(x)' /\ x \notin LetGo /\ x \in Records
    BY <1>1, <1>2
  <2>2. CASE ~Kept(x) \/ x \in JustKept
    BY <1>1, <1>3, <2>1, <2>2, NewlyKept
  <2>3. CASE Kept(x) /\ x \in claims
    <3>1. x \in owned
      BY <1>1, <2>3 DEF ClaimsOwned
    <3> QED
      BY <1>1, <2>1, <2>3, <3>1, LosesCount
  <2> QED
    BY <2>1, <2>2, <2>3
<1> QED
  BY <1>2, <1>3 DEF ClaimsOwned

-----------------------------------------------------------------------------
(* The theorem.                                                            *)

LEMMA KeepRefines == KeepSpec => Spec
<1>1. KeepInit => Init
  BY DEF KeepInit
<1>2. [KeepNext]_keepVars => [Next]_vars
  BY DEF KeepNext, keepVars
<1> QED
  BY <1>1, <1>2, PTL DEF KeepSpec, Spec

LEMMA KeepInvHolds == KeepSpec => []KeepInv
<1>1. KeepInit => KeepInv
  <2> SUFFICES ASSUME KeepInit PROVE KeepInv
    OBVIOUS
  <2>1. commits = <<>> /\ frames = <<>> /\ call.op = "none" /\ claims = {}
    BY NoCallType DEF KeepInit, Init
  <2> QED
    BY <2>1, EmptySeq DEF KeepInv, KeptHanded, BuildsInner, ClaimsOwned
<1>2. IInv /\ KeepInv /\ [KeepNext]_keepVars => KeepInv'
  <2> SUFFICES ASSUME IInv, KeepInv, [KeepNext]_keepVars PROVE KeepInv'
    OBVIOUS
  <2>1. TypeInv /\ CoverInv /\ Live /\ [Next]_vars
    BY CoverLive DEF IInv, CoverInv, Covered, KeepNext, keepVars
  <2>2. KeptHanded' /\ BuildsInner'
    BY <2>1, KeptHandedStep, BuildsInnerStep DEF KeepInv
  <2>3. CASE KeepNext
    BY <2>1, <2>2, <2>3, ClaimsStep DEF KeepInv
  <2>4. CASE UNCHANGED keepVars
    BY <2>2, <2>4 DEF KeepInv, ClaimsOwned, Kept, keepVars, vars, counts, scopes
  <2> QED
    BY <2>2, <2>3, <2>4
<1> QED
  BY <1>1, <1>2, KeepRefines, IInvHolds, PTL DEF KeepSpec

\* A node an open scope keeps is live until its holder lets it go (KeptLives): no build that
\* places it, no edit, throw or close around it spends the count its handle holds.
THEOREM KeepsKeptLives == KeepSpec => []KeptLives
<1>1. IInv /\ KeepInv => KeptLives
  <2> SUFFICES ASSUME IInv, KeepInv, NEW x \in claims, Kept(x) PROVE count[x] > 0
    BY DEF KeptLives
  <2> QED
    BY CoverLive DEF IInv, CoverInv, Covered, KeepInv, ClaimsOwned, Live
<1> QED
  BY <1>1, KeepInvHolds, KeepRefines, IInvHolds, PTL


-----------------------------------------------------------------------------
(* Counts: the invariant when interceptors only build.                     *)

\* The entries of `moved' that are a handle's count still, were the build to throw.
Still == IF call.op = "giveback" THEN call.n ELSE IF call.op = "free" THEN Top.moved ELSE Len(moved)

\* The entries of `minted' that a rollback has not released.
Built == IF call.op = "free" THEN call.n ELSE Len(minted)

\* An edit is the outermost scope and the innermost.
Editing == frames # <<>> /\ Top.src # Nil

\* Only builds nest, and only the rollback of one releases.
Nesting ==
  /\ \A i \in 1..Len(frames) : frames[i].src # Nil => Len(frames) = 1 /\ frames[i].kind = "build"
  /\ frames = <<>> => moved = <<>>
  /\ call.op = "copy" => Editing /\ call.rec = Top.rec
  /\ call.op = "carry" => frames = <<>>
  /\ call.op = "giveback" => Top.moved <= call.n
  /\ call.op = "free" => Top.minted <= call.n
  /\ frames # <<>> /\ dead # {} => Editing \/ call.op = "free"

\* What a draft has yet to be given is not written there.
Drafts ==
  /\ call.copies = {} \/ call.op \in {"copy", "carry"}
  /\ \A p, q \in call.copies : p[1] = q[1]
  /\ \A p \in call.copies : <<call.rec, p[2]>> \notin counted
  /\ call.op = "copy" => \A p \in call.copies : p[2] \in Cells
  /\ InBuild => Top.run # Top.rec
  /\ InBuild /\ Top.src # Nil => \A s \in Sides : <<Top.rec, s>> \notin counted
  /\ InBuild /\ Top.src = Nil => \A c \in Cells : <<Top.rec, c>> \in counted => c \in Top.done

\* A count a place took from a handle is not the handle's too, and is a live record's.
Taken ==
  /\ \A j, k \in 1..Still : moved[j] = moved[k] => j = k
  /\ \A j \in 1..Still : moved[j] \notin owned
  /\ frames # <<>> /\ ~Editing => \A j \in 1..Still : count[moved[j]] > 0

\* What a scope minted is its handle's, or was moved in it.
Minted ==
  \A i \in 1..Len(frames) :
    /\ \A j, k \in frames[i].minted + 1..Len(minted) : minted[j] = minted[k] => j = k
    /\ \A j \in frames[i].minted + 1..Built :
         \/ minted[j] \in owned
         \/ \E k \in frames[i].moved + 1..Still : moved[k] = minted[j]

\* Of records K and places C, there when a scope of marks m and v opened: each record is
\* live, and the count that shows it is its handle's, one moved since, or one of the places.
Outlives(m, v, K, C) ==
  /\ \A x \in K : /\ count[x] > 0
                  /\ \/ x \in owned
                     \/ \E k \in v + 1..Still : moved[k] = x
                     \/ \E q \in C : words[q] = x
  /\ \A p \in C : p[1] \in K \/ (count[p[1]] = 0 /\ p[1] \notin dead /\ chunkOf[p[1]] # 0)
  /\ \A j \in 1..v : moved[j] \in K
  /\ \A j \in m + 1..Len(minted) : minted[j] \notin K

Outlived(m, v) == \E K \in SUBSET Records, C \in SUBSET counted : Outlives(m, v, K, C)

\* What a build's scope found is there still.
Opened ==
  \A i \in 1..Len(frames) : frames[i].src = Nil => Outlived(frames[i].minted, frames[i].moved)

-----------------------------------------------------------------------------
(* What a step inside a build's scope does.                                *)

Arena == IInv /\ BuildsInner

SameScopes ==
  /\ frames # <<>> /\ Len(frames') = Len(frames)
  /\ \A i \in 1..Len(frames) :
       /\ frames'[i].kind = frames[i].kind /\ frames'[i].rec = frames[i].rec /\ frames'[i].src = frames[i].src
       /\ frames'[i].minted = frames[i].minted /\ frames'[i].moved = frames[i].moved

Opens ==
  /\ UserCode /\ call'.op \in {"none", "copy"}
  /\ Len(frames') = Len(frames) + 1
  /\ \A i \in 1..Len(frames) : frames'[i] = frames[i]
  /\ Top'.minted = Len(minted) /\ Top'.moved = Len(moved)
  /\ \/ Top'.src = Nil /\ call'.op = "none"
     \/ frames = <<>> /\ Top'.src # Nil /\ Top'.kind = "build" /\ (call'.op = "copy" => call'.rec = Top'.rec)
  /\ UNCHANGED <<words, counted, dead, handed, moved>>

Mints(r) ==
  /\ Opens /\ Alloc(r)
  /\ count' = [count EXCEPT ![r] = 1] /\ owned' = owned \cup {r} /\ minted' = Append(minted, r)

Places1(p, x) ==
  /\ SameScopes /\ p \in Places /\ p \notin counted /\ Place(p, x)
  /\ call.op \in {"none", "copy"} /\ call'.op \in {"none", "copy"} /\ dead = {}
  /\ call'.op = "copy" => call.op = "copy" /\ call'.rec = call.rec
  /\ UNCHANGED <<dead, chunkOf, handed, minted>>

Runs(p, u) ==
  /\ SameScopes /\ p \in Places /\ p \notin counted /\ Alloc(u)
  /\ count' = [count EXCEPT ![u] = 1] /\ words' = [words EXCEPT ![p] = u] /\ counted' = counted \cup {p}
  /\ call.op = "none" /\ call' = call /\ dead = {}
  /\ UNCHANGED <<owned, dead, handed, minted, moved>>

Patches(p) ==
  /\ SameScopes /\ Editing /\ p \in counted
  /\ counted' = counted \ {p} /\ words' = [words EXCEPT ![p] = Nil]
  /\ count' = Dropped(count, words[p]) /\ dead' = Released(count, words[p])
  /\ call.op = "none" /\ call' = call
  /\ UNCHANGED <<owned, chunkOf, handed, minted, moved>>

Stays == UNCHANGED <<count, owned, words, counted, dead, chunkOf, handed, minted, moved, frames>>

Throwing ==
  /\ Stays /\ frames # <<>> /\ call.op \in {"none", "copy"} /\ dead = {}
  /\ call'.op = "giveback" /\ call'.n = Len(moved) /\ call'.copies = {}

Ends(m, v) ==
  /\ frames # <<>> /\ dead = {} /\ EndScope(m, v)
  /\ UNCHANGED <<count, owned, words, counted, dead, chunkOf>>

Finishes ==
  /\ Ends(minted, moved) /\ call.op = "none"
  /\ call'.op = "none" \/ (call'.op = "carry" /\ Top.src # Nil)

Leaves ==
  /\ Ends(SubSeq(minted, 1, Top.minted), SubSeq(moved, 1, Top.moved))
  /\ call.op = "free" /\ call.n <= Top.minted /\ call'.op = "none"

Refuses ==
  /\ Ends(minted, moved) /\ call'.op = "none"
  /\ \/ call.op = "giveback" /\ call.n > Top.moved /\ count[moved[call.n]] = 0
     \/ call.op = "free" /\ call.n > Top.minted /\ Freed(chunkOf[minted[call.n]])

GivesBack ==
  /\ call.op = "giveback" /\ dead = {} /\ call.n > Top.moved /\ count[moved[call.n]] > 0
  /\ GiveBack(moved[call.n])
  /\ call'.op = "giveback" /\ call'.n = call.n - 1 /\ call'.copies = call.copies
  /\ UNCHANGED <<words, counted, dead, chunkOf, handed, minted, moved, frames>>

Turns ==
  /\ call.op = "giveback" /\ dead = {} /\ call.n <= Top.moved
  /\ call'.op = "free" /\ call'.n = Len(minted) /\ call'.copies = call.copies /\ Stays

Frees ==
  /\ call.op = "free" /\ dead = {} /\ call.n > Top.minted
  /\ ReleaseOwned(minted[call.n])
  /\ call'.op = "free" /\ call'.n = call.n - 1 /\ call'.copies = call.copies
  /\ UNCHANGED <<words, counted, chunkOf, handed, minted, moved, frames>>

Drops(d, p) ==
  /\ d \in dead /\ p \in PlacesOf(d)
  /\ counted' = counted \ {p}
  /\ words' = IF p[2] \in Sides THEN [words EXCEPT ![p] = Nil] ELSE words
  /\ count' = Dropped(count, words[p]) /\ dead' = Released(count, words[p])
  /\ UNCHANGED <<owned, chunkOf, handed, minted, moved, frames, call>>

Buries(d) ==
  /\ d \in dead /\ PlacesOf(d) = {} /\ dead' = dead \ {d}
  /\ UNCHANGED <<count, owned, words, counted, chunkOf, handed, minted, moved, frames, call>>

InScope ==
  \/ Opens /\ UNCHANGED <<count, owned, chunkOf, minted>>
  \/ \E r \in Records : Mints(r)
  \/ \E p \in Places, x \in Records : Places1(p, x)
  \/ \E p \in Places, u \in Records : Runs(p, u)
  \/ \E p \in Places : Patches(p)
  \/ Stays /\ call' = call
  \/ Throwing \/ Finishes \/ Leaves \/ Refuses
  \/ GivesBack \/ Turns \/ Frees
  \/ \E d \in Records, p \in Places : Drops(d, p)
  \/ \E d \in Records : Buries(d)

-----------------------------------------------------------------------------
(* Each step of a build is one of these.                                   *)

LEMMA ArenaFacts ==
  ASSUME Arena
  PROVE  /\ TypeInv /\ CoverInv /\ Live /\ TypeOK
         /\ count \in [Records -> Nat] /\ call \in Call /\ call.n \in Nat
         /\ words \in [Places -> Records \cup {Nil}] /\ counted \subseteq Places
         /\ \A p \in counted : words[p] \in Records /\ count[words[p]] > 0
         /\ \A x \in owned : x \in Records /\ count[x] > 0
         /\ \A x \in dead : x \in Records /\ count[x] = 0
<1>1. TypeInv /\ CoverInv /\ TypeOK
  BY DEF Arena, IInv, TypeInv
<1>2. Live
  BY <1>1, CoverLive DEF CoverInv, Covered
<1>3. \A x \in dead : x \in Records /\ count[x] = 0
  BY <1>1 DEF CoverInv, Covered, Named, TypeOK
<1> QED
  BY <1>1, <1>2, <1>3 DEF TypeInv, Control, TypeOK, Live, Call

\* The scopes and lists: lengths, members, and the marks of the innermost scope.
LEMMA ScopeFacts ==
  ASSUME TypeInv
  PROVE  /\ Len(frames) \in Nat /\ Len(minted) \in Nat /\ Len(moved) \in Nat
         /\ minted \in Seq(Records) /\ moved \in Seq(Records)
         /\ \A j \in 1..Len(minted) : minted[j] \in Records
         /\ \A j \in 1..Len(moved) : moved[j] \in Records
         /\ \A i \in 1..Len(frames) :
              /\ frames[i] \in Frame /\ frames[i].minted \in Nat /\ frames[i].moved \in Nat
              /\ frames[i].minted <= Len(minted) /\ frames[i].moved <= Len(moved)
              /\ frames[i].minted <= Top.minted /\ frames[i].moved <= Top.moved
         /\ frames # <<>> => /\ Len(frames) > 0 /\ Len(frames) \in 1..Len(frames)
                             /\ Top = frames[Len(frames)] /\ Top \in Frame
                             /\ Top.minted \in Nat /\ Top.moved \in Nat
                             /\ Top.minted <= Len(minted) /\ Top.moved <= Len(moved)
         /\ frames = <<>> => Len(frames) = 0
         /\ Len(frames) = 0 => frames = <<>>
<1>1. /\ Len(frames) \in Nat /\ Len(minted) \in Nat /\ Len(moved) \in Nat
      /\ minted \in Seq(Records) /\ moved \in Seq(Records) /\ frames \in Seq(Frame)
      /\ \A j \in 1..Len(minted) : minted[j] \in Records
      /\ \A j \in 1..Len(moved) : moved[j] \in Records
      /\ \A i \in 1..Len(frames) : frames[i] \in Frame
  BY Elements DEF TypeInv, TypeOK
<1>2. /\ frames = <<>> => Len(frames) = 0
      /\ Len(frames) = 0 => frames = <<>>
  BY <1>1, EmptySeq
<1>3. \A i \in 1..Len(frames) : frames[i].minted \in Nat /\ frames[i].moved \in Nat
  BY <1>1 DEF Frame
<1>4. frames # <<>> => Len(frames) > 0 /\ Len(frames) \in 1..Len(frames) /\ Top = frames[Len(frames)]
  BY <1>1, <1>2 DEF Top
<1>5. \A i \in 1..Len(frames) : frames # <<>> /\ i <= Len(frames)
  BY <1>1, <1>2
<1>6. \A i \in 1..Len(frames) :
        /\ frames[i].minted <= Len(minted) /\ frames[i].moved <= Len(moved)
        /\ frames[i].minted <= Top.minted /\ frames[i].moved <= Top.moved
  BY <1>4, <1>5 DEF TypeInv, Marks
<1> QED
  BY <1>1, <1>2, <1>3, <1>4, <1>6

LEMMA TopNext ==
  ASSUME TypeInv', frames' # <<>>
  PROVE  /\ Len(frames') \in Nat \ {0} /\ Len(frames') \in 1..Len(frames') /\ Top' = frames'[Len(frames')]
         /\ Top'.minted \in Nat /\ Top'.moved \in Nat
         /\ Top'.minted <= Len(minted') /\ Top'.moved <= Len(moved')
<1>1. frames' \in Seq(Frame) /\ minted' \in Seq(Records) /\ moved' \in Seq(Records)
  BY DEF TypeInv, TypeOK
<1>2. Len(frames') \in Nat \ {0} /\ Len(frames') \in 1..Len(frames')
  BY <1>1, LenProperties, EmptySeq
<1>3. Top' = frames'[Len(frames')] /\ Top' \in Frame
  BY <1>1, <1>2, ElementOfSeq DEF Top
<1>4. Top'.minted <= Len(minted') /\ Top'.moved <= Len(moved')
  BY <1>2, <1>3 DEF TypeInv, Marks
<1>5. Top'.minted \in Nat /\ Top'.moved \in Nat
  BY <1>3 DEF Frame
<1> QED
  BY <1>2, <1>3, <1>4, <1>5

LEMMA SlotScopes ==
  ASSUME TypeInv, Building, NEW c \in Cells \cup {Nil}, NEW at \in Cells \cup {Nil},
         NEW u \in Records \cup {Nil}, SetTop([Top EXCEPT !.done = Done(c), !.at = at, !.run = u])
  PROVE  /\ SameScopes /\ Top'.run = u /\ Top'.done = Done(c)
<1> DEFINE f == [Top EXCEPT !.done = Done(c), !.at = at, !.run = u]
<1>1. /\ f \in Frame /\ f.kind = Top.kind /\ f.rec = Top.rec /\ f.minted = Top.minted /\ f.moved = Top.moved
      /\ Top \in Frame /\ frames # <<>>
  BY ZenonT(40), TopType
<1>2. f.run = u /\ f.done = Done(c) /\ f.src = Top.src
  BY <1>1 DEF Frame
<1>3. /\ Len(frames') = Len(frames)
      /\ \A i \in 1..Len(frames) : frames'[i] = IF i = Len(frames) THEN f ELSE frames[i]
  BY <1>1, SetTopType DEF TypeInv
<1>4. Top' = f
  BY <1>1, <1>3, ScopesType DEF Top, TypeInv
<1> QED
  BY <1>1, <1>2, <1>3, <1>4 DEF SameScopes, Top

LEMMA SameFrames == ASSUME frames' = frames, frames # <<>> PROVE SameScopes /\ Top' = Top
BY DEF SameScopes, Top

LEMMA OpensScope ==
  ASSUME TypeInv, UserCode, NEW f \in Frame, frames' = Append(frames, f),
         f.minted = Len(minted), f.moved = Len(moved), call'.op \in {"none", "copy"},
         \/ f.src = Nil /\ call'.op = "none"
         \/ frames = <<>> /\ f.src # Nil /\ f.kind = "build" /\ (call'.op = "copy" => call'.rec = f.rec),
         UNCHANGED <<words, counted, dead, handed, moved>>
  PROVE  Opens /\ Top' = f
<1>1. /\ Len(frames') = Len(frames) + 1 /\ Len(frames) \in Nat
      /\ \A i \in 1..(Len(frames) + 1) : frames'[i] = IF i = Len(frames) + 1 THEN f ELSE frames[i]
  BY PushType, ScopeFacts DEF TypeInv
<1>2. frames'[Len(frames')] = f /\ \A i \in 1..Len(frames) : frames'[i] = frames[i]
  BY <1>1
<1> QED
  BY <1>1, <1>2 DEF Opens, Top

LEMMA MintScope ==
  ASSUME TypeInv, UserCode, NEW r \in Records, NEW src \in Records \cup {Nil}, Mint(r, src),
         call'.op \in {"none", "copy"}, UNCHANGED <<words, counted, dead, handed, moved>>,
         \/ src = Nil /\ call'.op = "none"
         \/ frames = <<>> /\ src # Nil /\ (call'.op = "copy" => call'.rec = r)
  PROVE  Mints(r) /\ Top'.src = src /\ Top'.rec = r /\ Top'.kind = "build" /\ Top'.run = Nil /\ Top'.done = {}
<1> DEFINE f == NewFrame("build", r, src)
<1>1. /\ f \in Frame /\ f.minted = Len(minted) /\ f.moved = Len(moved)
      /\ f.src = src /\ f.rec = r /\ f.kind = "build" /\ f.run = Nil /\ f.done = {}
  BY Elements DEF NewFrame, Frame, TypeInv
<1>2. frames' = Append(frames, f)
  BY DEF Mint
<1>3. Opens /\ Top' = f
  BY <1>1, <1>2, OpensScope
<1> QED
  BY <1>1, <1>3 DEF Mints, Mint

LEMMA StartsInScope ==
  ASSUME Arena, Arena', ~InterceptorsWrite, Nesting, Drafts, Starts, frames # <<>> \/ frames' # <<>>
  PROVE  InScope
<1>1. TypeInv /\ TypeOK /\ NoCall.op = "none" /\ Nil \in Records \cup {Nil} /\ Nil \in Cells \cup {Nil}
  BY ArenaFacts, NoCallType
<1>2. InBuild => Top.rec \in Records
  BY <1>1, ScopeFacts DEF TypeInv, Control, InBuild
<1>3. ASSUME UNCHANGED frames, UserWrites \/ frames = <<>> PROVE FALSE
  BY <1>3 DEF UserWrites
<1>4. CASE InterceptBuild
  <2> DEFINE f == NewFrame("intercept", Nil, Nil)
  <2>1. f \in Frame /\ f.minted = Len(minted) /\ f.moved = Len(moved) /\ f.src = Nil
    BY <1>1, ScopeFacts DEF NewFrame, Frame
  <2>2. UserCode /\ frames' = Append(frames, f) /\ call'.op = "none"
    BY <1>4 DEF InterceptBuild, UserCode, Idle
  <2>3. UNCHANGED <<words, counted, dead, handed, moved, count, owned, chunkOf, minted>>
    BY <1>4 DEF InterceptBuild, counts, chunks
  <2> QED
    BY <1>1, <2>1, <2>2, <2>3, OpensScope DEF InScope
<1>5. ASSUME NEW r \in Records, BuildRecord(r) PROVE InScope
  <2>1. UserCode /\ Mint(r, Nil) /\ call'.op = "none"
        /\ UNCHANGED <<words, counted, dead, handed, moved>>
    BY <1>5 DEF BuildRecord, UserCode, Idle
  <2> QED
    BY <1>1, <2>1, MintScope DEF InScope
<1>6. ASSUME NEW r \in Records, NEW src \in Records, EditRecord(r, src) PROVE InScope
  <2>1. UserCode /\ Mint(r, src) /\ UNCHANGED <<words, counted, dead, handed, moved>>
    BY <1>6 DEF EditRecord, UserWrites
  <2>2. call'.op \in {"none", "copy"} /\ (call'.op = "copy" => call'.rec = r)
    BY <1>1, <1>6 DEF EditRecord, NoCall
  <2>3. frames = <<>> /\ src # Nil
    BY <1>6, ConstantsAssumption DEF EditRecord, UserWrites
  <2> QED
    BY <1>1, <2>1, <2>2, <2>3, MintScope DEF InScope
<1>7. ASSUME NEW c \in Cells, PatchCell(c) PROVE InScope
  <2> DEFINE p == <<Top.rec, c>>
  <2>1. /\ Building /\ InBuild /\ call.op = "none" /\ c \notin Top.done /\ p \in counted
        /\ SetTop([Top EXCEPT !.done = Done(Nil), !.at = c, !.run = Nil])
    BY <1>7 DEF PatchCell, Building, Idle
  <2>2. SameScopes
    BY <1>1, <2>1, SlotScopes
  <2>3. Editing
    BY <2>1 DEF Drafts, Editing, InBuild
  <2>4. p \in Places /\ Patches(p)
    BY <1>1, <1>2, <1>7, <2>1, <2>2, <2>3 DEF PatchCell, Patches, Places, chunks
  <2> QED
    BY <2>4 DEF InScope
<1>8. ASSUME NEW c \in Cells, NEW x \in Records, StoreCell(c, x) PROVE InScope
  <2> DEFINE p == <<Top.rec, c>>
  <2>1. /\ Building /\ InBuild /\ call.op = "none" /\ dead = {} /\ p \notin counted /\ Place(p, x)
        /\ SetTop([Top EXCEPT !.done = Done(c), !.at = Nil, !.run = Nil])
        /\ UNCHANGED <<dead, chunks, handed, minted, call>>
    BY <1>8 DEF StoreCell, Building, Idle
  <2>2. SameScopes
    BY <1>1, <2>1, SlotScopes
  <2>3. p \in Places /\ Places1(p, x)
    BY <1>2, <2>1, <2>2 DEF Places1, Places, chunks
  <2> QED
    BY <2>3 DEF InScope
<1>9. ASSUME NEW c \in Cells, NEW u \in Records, StoreRun(c, u) PROVE InScope
  <2> DEFINE p == <<Top.rec, c>>
  <2>1. /\ Building /\ InBuild /\ call.op = "none" /\ dead = {} /\ p \notin counted
        /\ SetTop([Top EXCEPT !.done = Done(c), !.at = Nil, !.run = u])
    BY <1>9 DEF StoreRun, Building, Idle
  <2>2. SameScopes
    BY <1>1, <2>1, SlotScopes
  <2>3. p \in Places /\ Runs(p, u)
    BY <1>2, <1>9, <2>1, <2>2 DEF StoreRun, Runs, Places
  <2> QED
    BY <2>3 DEF InScope
<1>10. ASSUME NEW k \in Cells, NEW x \in Records, StoreItem(k, x) PROVE InScope
  <2> DEFINE p == <<Top.run, k>>
  <2>1. /\ InBuild /\ call.op = "none" /\ dead = {} /\ p \notin counted /\ Place(p, x) /\ Top.run # Nil
        /\ UNCHANGED <<dead, chunks, handed, minted, frames, call>>
    BY <1>10 DEF StoreItem, Building, Idle
  <2>2. frames # <<>> /\ Top.run \in Records
    BY <1>1, <2>1, ScopeFacts DEF InBuild, Frame
  <2>3. p \in Places /\ Places1(p, x)
    BY <2>1, <2>2, SameFrames DEF Places1, Places, chunks
  <2> QED
    BY <2>3 DEF InScope
<1>11. CASE InternText
  BY <1>11 DEF InternText, InScope, Stays, counts, scopes
<1>12. CASE FinishBuild
  <2>1. /\ frames # <<>> /\ dead = {} /\ call.op = "none" /\ EndScope(minted, moved)
        /\ UNCHANGED <<count, owned, words, counted, dead, chunkOf>>
    BY <1>12 DEF FinishBuild, Building, InBuild, Idle, counts, chunks
  <2>2. CASE Top.src = Nil
    <3>1. call'.op = "none"
      BY <1>1, <1>12, <2>2 DEF FinishBuild
    <3> QED
      BY <2>1, <3>1 DEF InScope, Finishes, Ends
  <2>3. CASE Top.src # Nil
    <3>1. call' = [NoCall EXCEPT !.op = "carry", !.rec = Top.rec, !.copies = SidesOf(Top.src)]
      BY <1>12, <2>3 DEF FinishBuild
    <3>2. call'.op = "carry"
      BY <3>1 DEF NoCall
    <3> QED
      BY <2>1, <2>3, <3>2 DEF InScope, Finishes, Ends
  <2> QED
    BY <2>2, <2>3
<1>13. CASE FinishIntercepted
  <2>1. /\ frames # <<>> /\ dead = {} /\ call.op = "none" /\ call' = call /\ EndScope(minted, moved)
        /\ UNCHANGED <<count, owned, words, counted, dead, chunkOf>>
    BY <1>13 DEF FinishIntercepted, UserCode, Idle, counts, chunks
  <2> QED
    BY <2>1 DEF InScope, Finishes, Ends
<1>14. CASE Throw
  <2>1. Stays /\ frames # <<>> /\ call.op = "none" /\ dead = {}
        /\ call' = [NoCall EXCEPT !.op = "giveback", !.n = Len(moved)]
    BY <1>14 DEF Throw, Idle, Stays, counts, chunks, scopes
  <2>2. call'.op = "giveback" /\ call'.n = Len(moved) /\ call'.copies = {}
    BY <2>1 DEF NoCall
  <2> QED
    BY <2>1, <2>2 DEF InScope, Throwing
<1>15. ASSUME NEW x \in Records, ReleaseNode(x) PROVE FALSE
  BY <1>3, <1>15 DEF ReleaseNode, scopes
<1>16. ASSUME NEW h \in Records, NEW s \in Sides, NEW x \in Records \cup {Nil}, WriteSide(h, s, x) PROVE FALSE
  BY <1>3, <1>16 DEF WriteSide, scopes
<1>17. ASSUME NEW i \in 1..MaxCommits, NEW x \in Records, Keep(i, x) PROVE FALSE
  BY <1>3, <1>17 DEF Keep
<1>18. CASE OpenCommit \/ CloseCommit
  BY <1>3, <1>18 DEF OpenCommit, CloseCommit
<1> QED
  BY <1>4, <1>5, <1>6, <1>7, <1>8, <1>9, <1>10, <1>11, <1>12, <1>13, <1>14, <1>15, <1>16, <1>17, <1>18 DEF Starts

LEMMA ContinuesInScope ==
  ASSUME Arena, Arena', Nesting, Drafts, Continues, frames # <<>> \/ frames' # <<>>
  PROVE  InScope
<1>1. TypeInv /\ TypeOK /\ call \in Call /\ NoCall.op = "none" /\ counted \subseteq Places
  BY ArenaFacts, NoCallType
<1>2. CASE Release
  <2>1. UNCHANGED <<owned, chunkOf, handed, minted, moved, frames, call>>
    BY <1>2 DEF Release, chunks, scopes
  <2>2. PICK d \in dead :
          \/ \E p \in PlacesOf(d) :
               /\ counted' = counted \ {p}
               /\ words' = IF p[2] \in Sides THEN [words EXCEPT ![p] = Nil] ELSE words
               /\ count' = Dropped(count, words[p])
               /\ dead' = Released(count, words[p])
          \/ /\ PlacesOf(d) = {}
             /\ dead' = dead \ {d}
             /\ UNCHANGED <<count, words, counted>>
    BY <1>2 DEF Release
  <2>3. d \in Records
    BY <1>1 DEF TypeOK
  <2>4. ASSUME NEW p \in PlacesOf(d),
               /\ counted' = counted \ {p}
               /\ words' = IF p[2] \in Sides THEN [words EXCEPT ![p] = Nil] ELSE words
               /\ count' = Dropped(count, words[p])
               /\ dead' = Released(count, words[p])
        PROVE  InScope
    <3>1. Drops(d, p)
      BY <2>1, <2>4 DEF Drops
    <3>2. p \in Places
      BY <1>1 DEF PlacesOf
    <3> QED
      BY <2>3, <3>1, <3>2 DEF InScope
  <2>5. CASE PlacesOf(d) = {} /\ dead' = dead \ {d} /\ UNCHANGED <<count, words, counted>>
    <3>1. Buries(d)
      BY <2>1, <2>5 DEF Buries
    <3> QED
      BY <2>3, <3>1 DEF InScope
  <2> QED
    BY <2>2, <2>4, <2>5
<1>3. ASSUME NEW p \in call.copies, CopyCell(p) PROVE InScope
  <2> DEFINE q == <<call.rec, p[2]>>
  <2>1. /\ call.op = "copy" /\ Place(q, words[p]) /\ UNCHANGED <<dead, chunkOf, handed, minted, frames>>
    BY <1>3 DEF CopyCell, Place, chunks
  <2>2. call'.op \in {"none", "copy"} /\ (call'.op = "copy" => call'.rec = call.rec)
    BY <1>1, <1>3 DEF CopyCell, Call
  <2>3. /\ frames # <<>> /\ call.rec \in Records /\ words[p] \in Records /\ dead = {}
        /\ p[2] \in Cells /\ q \notin counted
    BY <1>1, <2>1 DEF TypeInv, Control, Drafts
  <2>4. q \in Places /\ Places1(q, words[p])
    BY <2>1, <2>2, <2>3, SameFrames DEF Places1, Places
  <2> QED
    BY <2>3, <2>4 DEF InScope
<1>4. ASSUME NEW p \in call.copies, CarrySide(p) PROVE FALSE
  BY <1>4 DEF CarrySide, Nesting, scopes
<1>5. CASE CopyRefused /\ dead = {}
  <2>1. Stays /\ call.op = "copy" /\ frames # <<>>
        /\ call' = [NoCall EXCEPT !.op = "giveback", !.n = Len(moved)]
    BY <1>1, <1>5 DEF CopyRefused, Stays, counts, chunks, scopes, TypeInv, Control
  <2>2. call'.op = "giveback" /\ call'.n = Len(moved) /\ call'.copies = {}
    BY <2>1 DEF NoCall
  <2> QED
    BY <1>5, <2>1, <2>2 DEF InScope, Throwing
<1>6. CASE ReturnEdit \/ RefuseEdit
  BY <1>6 DEF ReturnEdit, RefuseEdit, Nesting, scopes
<1>7. CASE GiveBackMoved
  <2>1. /\ call.op = "giveback" /\ dead = {}
        /\ UNCHANGED <<words, counted, dead, chunkOf, handed, minted, moved, frames>>
    BY <1>7 DEF GiveBackMoved, chunks, scopes
  <2>2. CASE call.n > Top.moved
    <3>1. count[moved[call.n]] > 0 /\ GiveBack(moved[call.n]) /\ call' = [call EXCEPT !.n = @ - 1]
      BY <1>7, <2>2 DEF GiveBackMoved
    <3>2. call'.op = "giveback" /\ call'.n = call.n - 1 /\ call'.copies = call.copies
      BY <1>1, <2>1, <3>1 DEF Call
    <3> QED
      BY <2>1, <2>2, <3>1, <3>2 DEF InScope, GivesBack
  <2>3. CASE ~(call.n > Top.moved)
    <3>1. call' = [call EXCEPT !.op = "free", !.n = Len(minted)] /\ UNCHANGED <<count, owned>>
      BY <1>7, <2>3 DEF GiveBackMoved
    <3>2. call'.op = "free" /\ call'.n = Len(minted) /\ call'.copies = call.copies
      BY <1>1, <3>1 DEF Call
    <3>3. call.n <= Top.moved
      <4>1. frames # <<>> /\ call.n \in Nat /\ Top.moved \in Nat
        BY <1>1, <2>1, ScopeFacts DEF TypeInv, Control, Call
      <4> QED
        BY <2>3, <4>1
    <3> QED
      BY <2>1, <3>1, <3>2, <3>3 DEF InScope, Turns, Stays
  <2> QED
    BY <2>2, <2>3
<1>8. CASE FreeMinted
  <2>1. /\ call.op = "free" /\ dead = {} /\ call.n > Top.minted /\ ReleaseOwned(minted[call.n])
        /\ call' = [call EXCEPT !.n = @ - 1]
        /\ UNCHANGED <<words, counted, chunkOf, handed, minted, moved, frames>>
    BY <1>8 DEF FreeMinted, chunks, scopes
  <2>2. call'.op = "free" /\ call'.n = call.n - 1 /\ call'.copies = call.copies
    BY <1>1, <2>1 DEF Call
  <2> QED
    BY <2>1, <2>2 DEF InScope, Frees
<1>9. CASE Abandoned \/ AbandonRefused
  <2>1. /\ frames # <<>> /\ dead = {} /\ call'.op = "none"
        /\ UNCHANGED <<count, owned, words, counted, dead, chunkOf>>
    BY <1>1, <1>9 DEF Abandoned, AbandonRefused, counts, chunks, TypeInv, Control
  <2>2. CASE Abandoned
    BY <2>1, <2>2 DEF Abandoned, InScope, Leaves, Ends
  <2>3. CASE AbandonRefused
    BY <2>1, <2>3 DEF AbandonRefused, InScope, Refuses, Ends
  <2> QED
    BY <1>9, <2>2, <2>3
<1>10. CASE CloseNext \/ Closed \/ CloseRefused
  BY <1>1, <1>10 DEF CloseNext, Closed, CloseRefused, TypeInv, Control, scopes
<1> QED
  BY <1>2, <1>3, <1>4, <1>5, <1>6, <1>7, <1>8, <1>9, <1>10 DEF Continues

\* Inside a build's scope a step is one of these.
LEMMA InScopeStep ==
  ASSUME Arena, Arena', ~InterceptorsWrite, Nesting, Drafts, [Next]_vars, frames # <<>> \/ frames' # <<>>
  PROVE  InScope
<1>1. CASE UNCHANGED vars
  BY <1>1 DEF vars, InScope, Stays, counts, chunks, scopes
<1> QED
  BY <1>1, StartsInScope, ContinuesInScope DEF Next

-----------------------------------------------------------------------------
(* What nests in what.                                                     *)

LEMMA EndsScope ==
  ASSUME Arena, NEW m, NEW v, Ends(m, v)
  PROVE  /\ Len(frames') = Len(frames) - 1
         /\ \A i \in 1..Len(frames') : i \in 1..Len(frames) /\ frames'[i] = frames[i]
         /\ \A i \in 1..Len(frames') : frames'[i].kind # "build"
         /\ Len(frames) = 1 => frames' = <<>> /\ moved' = <<>>
         /\ Len(frames) # 1 => frames' # <<>> /\ moved' = v /\ minted' = m
<1>1. TypeInv /\ TypeOK /\ frames # <<>> /\ frames' = Outer
  BY ArenaFacts DEF Ends, EndScope
<1>2. /\ Len(frames) \in Nat \ {0} /\ Len(frames') = Len(frames) - 1 /\ Outer \in Seq(Frame)
      /\ \A i \in 1..(Len(frames) - 1) : frames'[i] = frames[i]
  BY <1>1, ScopesType
<1>3. \A i \in 1..Len(frames') : frames'[i].kind # "build"
  BY <1>1, EndBuilds DEF Arena
<1>4. (Len(frames) = 1) <=> (Outer = <<>>)
  BY <1>1, <1>2, EmptySeq
<1> QED
  BY <1>1, <1>2, <1>3, <1>4 DEF Ends, EndScope

LEMMA EndsNotBuilding ==
  ASSUME Arena, Arena', NEW m, NEW v, Ends(m, v)
  PROVE  ~InBuild'
BY TopNext, EndsScope DEF InBuild, Arena, IInv

LEMMA EmptyNext == ASSUME TypeInv' PROVE (frames' = <<>>) <=> (Len(frames') = 0)
<1>1. frames' \in Seq(Frame)
  BY DEF TypeInv, TypeOK
<1> QED
  BY <1>1, LenProperties, EmptySeq

LEMMA SameTop ==
  ASSUME Arena, Arena', SameScopes
  PROVE  /\ frames # <<>> /\ frames' # <<>> /\ Len(frames') = Len(frames) /\ Len(frames) \in Nat \ {0}
         /\ Top'.kind = Top.kind /\ Top'.rec = Top.rec /\ Top'.src = Top.src
         /\ Top'.minted = Top.minted /\ Top'.moved = Top.moved
<1>1. TypeInv /\ TypeInv' /\ frames # <<>> /\ Len(frames') = Len(frames)
  BY ArenaFacts DEF Arena, IInv, SameScopes
<1>2. Len(frames) \in 1..Len(frames) /\ Len(frames) \in Nat \ {0} /\ Top = frames[Len(frames)]
  BY <1>1, ScopeFacts
<1>3. frames' # <<>>
  BY <1>1, <1>2, EmptyNext
<1>4. Top' = frames'[Len(frames)]
  BY <1>1, <1>3, TopNext
<1> QED
  BY <1>1, <1>2, <1>3, <1>4 DEF SameScopes

\* The scopes stand as they did.
LEMMA SameNesting ==
  ASSUME Arena, Arena', Nesting, SameScopes,
         call'.op # "carry", call'.op = "copy" => call.op = "copy" /\ call'.rec = call.rec,
         call'.op = "giveback" => Top.moved <= call'.n, call'.op = "free" => Top.minted <= call'.n,
         dead' # {} => Editing \/ call'.op = "free"
  PROVE  Nesting'
<1>1. /\ frames' # <<>> /\ Len(frames') = Len(frames)
      /\ Top'.rec = Top.rec /\ Top'.src = Top.src /\ Top'.minted = Top.minted /\ Top'.moved = Top.moved
  BY SameTop
<1>2. \A i \in 1..Len(frames') : frames'[i].src # Nil => Len(frames') = 1 /\ frames'[i].kind = "build"
  BY <1>1 DEF SameScopes, Nesting
<1>3. Editing => Editing'
  BY <1>1 DEF Editing
<1>4. call'.op = "copy" => Editing' /\ call'.rec = Top'.rec
  BY <1>1, <1>3 DEF Nesting
<1> QED
  BY <1>1, <1>2, <1>3, <1>4 DEF Nesting

LEMMA OpensNesting ==
  ASSUME Arena, Arena', Nesting, Opens
  PROVE  Nesting'
<1> DEFINE L == Len(frames)
<1>1. /\ TypeInv /\ TypeInv' /\ UserCode /\ L \in Nat /\ Len(frames') = L + 1 /\ frames' # <<>>
      /\ \A i \in 1..L : frames'[i] = frames[i]
  <2>1. TypeInv /\ TypeInv' /\ L \in Nat /\ Len(frames') = L + 1
    BY ArenaFacts, ScopeFacts DEF Arena, IInv, Opens
  <2> QED
    BY <2>1, EmptyNext DEF Opens
<1>2. Top' = frames'[L + 1]
  BY <1>1, TopNext
<1>3. frames = <<>> => L = 0
  BY <1>1, ScopeFacts
<1>4. \A i \in 1..L : frames[i].src = Nil
  <2> SUFFICES ASSUME NEW i \in 1..L, frames[i].src # Nil PROVE FALSE
    OBVIOUS
  <2>1. L = 1 /\ frames[i].kind = "build"
    BY DEF Nesting
  <2>2. frames # <<>> /\ Top = frames[i]
    BY <1>1, <2>1, ScopeFacts
  <2> QED
    BY <1>1, <2>1, <2>2 DEF UserCode, InBuild
<1>5. \A i \in 1..Len(frames') : frames'[i].src # Nil => Len(frames') = 1 /\ frames'[i].kind = "build"
  <2> SUFFICES ASSUME NEW i \in 1..(L + 1), frames'[i].src # Nil
               PROVE  L + 1 = 1 /\ frames'[i].kind = "build"
    BY <1>1
  <2>1. i = L + 1
    BY <1>1, <1>4
  <2>2. frames = <<>> /\ frames'[i].kind = "build"
    BY <1>2, <2>1 DEF Opens
  <2> QED
    BY <1>3, <2>2
<1>6. dead' = {} /\ call'.op \in {"none", "copy"}
  BY <1>1 DEF Opens, UserCode, Idle
<1>7. call'.op = "copy" => Editing' /\ call'.rec = Top'.rec
  BY <1>1 DEF Opens, Editing
<1> QED
  BY <1>1, <1>5, <1>6, <1>7 DEF Nesting

LEMMA EndsNesting ==
  ASSUME Arena, Arena', Nesting, NEW m, NEW v, Ends(m, v),
         call'.op = "none" \/ (call'.op = "carry" /\ Len(frames) = 1)
  PROVE  Nesting'
<1>1. \A i \in 1..Len(frames') : frames'[i].src = Nil
  <2> SUFFICES ASSUME NEW i \in 1..Len(frames'), frames'[i].src # Nil PROVE FALSE
    OBVIOUS
  <2>1. i \in 1..Len(frames) /\ frames'[i] = frames[i] /\ frames'[i].kind # "build"
    BY EndsScope
  <2> QED
    BY <2>1 DEF Nesting
<1>2. dead' = {}
  BY DEF Ends
<1>3. frames' = <<>> => moved' = <<>>
  BY EndsScope DEF Ends
<1>4. call'.op = "carry" => frames' = <<>>
  BY EndsScope
<1> QED
  BY <1>1, <1>2, <1>3, <1>4 DEF Nesting

LEMMA InScopeNesting ==
  ASSUME Arena, Arena', Nesting, InScope, frames # <<>> \/ frames' # <<>>
  PROVE  Nesting'
<1>2. /\ TypeInv /\ call.n \in Nat
      /\ call.op \in {"copy", "giveback", "free"} => frames # <<>>
      /\ frames # <<>> => Top.minted \in Nat /\ Top.minted <= Len(minted)
                          /\ Top.moved \in Nat /\ Top.moved <= Len(moved)
                          /\ Len(frames) \in 1..Len(frames) /\ Top = frames[Len(frames)]
  BY ArenaFacts, ScopeFacts DEF TypeInv, Control
<1>3. CASE Opens
  BY <1>3, OpensNesting
<1>4. ASSUME NEW p \in Places, NEW x \in Records, Places1(p, x) PROVE Nesting'
  <2>1. SameScopes /\ call'.op \in {"none", "copy"} /\ dead' = {}
        /\ (call'.op = "copy" => call.op = "copy" /\ call'.rec = call.rec)
    BY <1>4 DEF Places1
  <2> QED
    BY <2>1, SameNesting
<1>5. ASSUME NEW p \in Places, NEW u \in Records, Runs(p, u) PROVE Nesting'
  <2>1. SameScopes /\ call'.op = "none" /\ dead' = {}
    BY <1>5 DEF Runs
  <2> QED
    BY <2>1, SameNesting
<1>6. ASSUME NEW p \in Places, Patches(p) PROVE Nesting'
  <2>1. SameScopes /\ call'.op = "none" /\ Editing
    BY <1>6 DEF Patches
  <2> QED
    BY <2>1, SameNesting
<1>7. CASE Stays /\ call' = call
  <2>1. SameScopes /\ frames # <<>> /\ dead' = dead
    BY <1>7, SameFrames DEF Stays
  <2> QED
    BY <1>7, <2>1, SameNesting DEF Nesting
<1>8. CASE Throwing
  <2>1. SameScopes /\ call'.op = "giveback" /\ Top.moved <= call'.n /\ dead' = {}
    BY <1>2, <1>8, SameFrames DEF Throwing, Stays
  <2> QED
    BY <2>1, SameNesting
<1>9. CASE Finishes
  <2>1. Ends(minted, moved) /\ (call'.op = "none" \/ (call'.op = "carry" /\ Top.src # Nil)) /\ frames # <<>>
    BY <1>9 DEF Finishes, Ends
  <2>2. Top.src # Nil => Len(frames) = 1
    BY <1>2, <2>1 DEF Nesting
  <2> QED
    BY <2>1, <2>2, EndsNesting
<1>10. CASE Leaves
  <2>1. PICK m, v : Ends(m, v)
    BY <1>10 DEF Leaves
  <2>2. call'.op = "none"
    BY <1>10 DEF Leaves
  <2> QED
    BY <2>1, <2>2, EndsNesting
<1>11. CASE Refuses
  <2>1. Ends(minted, moved) /\ call'.op = "none"
    BY <1>11 DEF Refuses
  <2> QED
    BY <2>1, EndsNesting
<1>12. CASE GivesBack
  <2>1. SameScopes /\ call'.op = "giveback" /\ dead' = {} /\ call'.n = call.n - 1
        /\ call.n > Top.moved /\ frames # <<>>
    BY <1>2, <1>12, SameFrames DEF GivesBack
  <2>2. Top.moved <= call'.n
    BY <1>2, <2>1
  <2> QED
    BY <2>1, <2>2, SameNesting
<1>13. CASE Turns
  <2>1. SameScopes /\ call'.op = "free" /\ dead' = {} /\ Top.minted <= call'.n
    BY <1>2, <1>13, SameFrames DEF Turns, Stays
  <2> QED
    BY <2>1, SameNesting
<1>14. CASE Frees
  <2>1. SameScopes /\ call'.op = "free" /\ call'.n = call.n - 1 /\ call.n > Top.minted /\ frames # <<>>
    BY <1>2, <1>14, SameFrames DEF Frees
  <2>2. Top.minted <= call'.n
    BY <1>2, <2>1
  <2> QED
    BY <2>1, <2>2, SameNesting
<1>15. ASSUME dead # {}, UNCHANGED <<frames, call>> PROVE Nesting'
  <2>1. SameScopes /\ frames # <<>>
    BY <1>15, SameFrames
  <2>2. call.op = "carry" => FALSE
    BY <2>1 DEF Nesting
  <2> QED
    BY <1>15, <2>1, <2>2, SameNesting DEF Nesting
<1>16. ASSUME NEW d \in Records, NEW p \in Places, Drops(d, p) \/ Buries(d) PROVE Nesting'
  <2>1. dead # {} /\ UNCHANGED <<frames, call>>
    BY <1>16 DEF Drops, Buries
  <2> QED
    BY <1>15, <2>1
<1>17. ASSUME NEW d \in Records, Buries(d) PROVE Nesting'
  <2>1. dead # {} /\ UNCHANGED <<frames, call>>
    BY <1>17 DEF Buries
  <2> QED
    BY <1>15, <2>1
<1> QED
  BY <1>3, <1>4, <1>5, <1>6, <1>7, <1>8, <1>9, <1>10, <1>11, <1>12, <1>13, <1>14, <1>16, <1>17
  DEF InScope, Mints

LEMMA OutsideNesting ==
  ASSUME Arena', frames' = <<>>, moved' = <<>>
  PROVE  Nesting'
<1>1. Len(frames') = 0
  BY EmptyNext DEF Arena, IInv
<1>2. call'.op \notin {"copy", "giveback", "free"}
  BY DEF Arena, IInv, TypeInv, Control
<1> QED
  BY <1>1, <1>2 DEF Nesting

-----------------------------------------------------------------------------
(* What a draft has yet to be given.                                       *)

LEMMA SameDrafts ==
  ASSUME Drafts, frames' = frames \/ ~InBuild',
         counted' \subseteq counted \/ (call'.copies = {} /\ ~InBuild'),
         \/ call'.copies = {}
         \/ call'.op = call.op /\ call'.rec = call.rec /\ call'.copies \subseteq call.copies
  PROVE  Drafts'
<1>1. frames' = frames => Top' = Top /\ (InBuild' <=> InBuild)
  BY DEF Top, InBuild
<1>2. /\ call'.copies = {} \/ call'.op \in {"copy", "carry"}
      /\ \A p, q \in call'.copies : p[1] = q[1]
      /\ call'.op = "copy" => \A p \in call'.copies : p[2] \in Cells
  BY DEF Drafts
<1>3. \A p \in call'.copies : <<call'.rec, p[2]>> \notin counted'
  BY DEF Drafts
<1>4. /\ InBuild' => Top'.run # Top'.rec
      /\ InBuild' /\ Top'.src # Nil => \A s \in Sides : <<Top'.rec, s>> \notin counted'
      /\ InBuild' /\ Top'.src = Nil => \A c \in Cells : <<Top'.rec, c>> \in counted' => c \in Top'.done
  BY <1>1 DEF Drafts
<1> QED
  BY <1>2, <1>3, <1>4 DEF Drafts

LEMMA NoScopesNoBuild == ASSUME frames = <<>> PROVE ~InBuild
BY DEF InBuild

\* A place of a draft is written: the others are not, and what is left to copy is elsewhere.
LEMMA CopyDrafts ==
  ASSUME Arena, Drafts, NEW p \in call.copies, call.op \in {"copy", "carry"},
         counted' = counted \cup {<<call.rec, p[2]>>},
         call'.copies = {} \/ (call'.op = call.op /\ call'.rec = call.rec /\ call'.copies = call.copies \ {p})
  PROVE  /\ call'.copies = {} \/ call'.op \in {"copy", "carry"}
         /\ \A q, r \in call'.copies : q[1] = r[1]
         /\ call'.op = "copy" => \A q \in call'.copies : q[2] \in Cells
         /\ \A q \in call'.copies : <<call'.rec, q[2]>> \notin counted'
<1>1. call.copies \subseteq Places /\ \A q \in Places : q = <<q[1], q[2]>>
  BY ArenaFacts DEF Call, Places
<1>2. \A q \in call.copies \ {p} : q[2] # p[2]
  BY <1>1 DEF Drafts
<1>3. \A q \in call'.copies : <<call'.rec, q[2]>> \notin counted'
  BY <1>2 DEF Drafts
<1> QED
  BY <1>3 DEF Drafts

LEMMA MintDrafts ==
  ASSUME Arena, NEW r \in Records, Alloc(r), counted' = counted,
         Top'.rec = r, Top'.kind = "build", Top'.run = Nil
  PROVE  /\ \A c : <<r, c>> \notin counted
         /\ Top'.run # Top'.rec
         /\ \A s \in Sides : <<Top'.rec, s>> \notin counted'
         /\ \A c \in Cells : <<Top'.rec, c>> \notin counted'
<1>1. \A c : <<r, c>> \notin counted
  <2>1. counted \subseteq Places /\ \A p \in Places : p[1] = r => p \notin counted
    BY ArenaFacts, AllocFresh
  <2> QED
    BY <2>1
<1> QED
  BY <1>1, ConstantsAssumption

\* A slot of the draft is turned to.
LEMMA SlotDrafts ==
  ASSUME Arena, Arena', Drafts, Building, NEW c \in Cells \cup {Nil}, NEW at \in Cells \cup {Nil},
         NEW u \in Records \cup {Nil}, u # Top.rec, SetTop([Top EXCEPT !.done = Done(c), !.at = at, !.run = u]),
         counted' \subseteq counted \cup {<<Top.rec, c>>}, c = Nil => counted' \subseteq counted, call' = call
  PROVE  Drafts'
<1>1. /\ TypeInv /\ SameScopes /\ Top'.run = u /\ Top'.done = Done(c) /\ InBuild
  BY ArenaFacts, SlotScopes DEF Building
<1>2. Top'.rec = Top.rec /\ Top'.src = Top.src
  BY <1>1, SameTop
<1>3. call'.op = "none" /\ call'.copies = {}
  BY DEF Drafts, Building, Idle
<1>4. Top'.src # Nil => \A s \in Sides : <<Top'.rec, s>> \notin counted'
  <2> SUFFICES ASSUME Top.src # Nil, NEW s \in Sides, <<Top.rec, s>> \in counted' PROVE FALSE
    BY <1>2
  <2>1. <<Top.rec, s>> \notin counted
    BY <1>1 DEF Drafts
  <2>2. c \in Cells /\ c = s
    BY <2>1
  <2> QED
    BY <2>2, ConstantsAssumption
<1>5. Top'.src = Nil => \A k \in Cells : <<Top'.rec, k>> \in counted' => k \in Top'.done
  <2> SUFFICES ASSUME Top.src = Nil, NEW k \in Cells, <<Top.rec, k>> \in counted' PROVE k \in Done(c)
    BY <1>1, <1>2
  <2>1. CASE <<Top.rec, k>> \in counted
    BY <1>1, <2>1 DEF Drafts, Done
  <2>2. CASE <<Top.rec, k>> \notin counted
    <3>1. k = c /\ c # Nil
      BY <2>2, ConstantsAssumption
    <3> QED
      BY <3>1 DEF Done
  <2> QED
    BY <2>1, <2>2
<1> QED
  BY <1>1, <1>2, <1>3, <1>4, <1>5 DEF Drafts

LEMMA ContinuesDrafts ==
  ASSUME Arena, Arena', Nesting, Drafts, Continues
  PROVE  Drafts'
<1>1. /\ TypeInv /\ call \in Call /\ NoCall.op = "none" /\ NoCall.copies = {}
      /\ \A n \in Nat : NoCall.n = 0
  BY ArenaFacts, NoCallType DEF NoCall
<1>2. CASE Release
  <2>1. UNCHANGED <<frames, call>> /\ counted' \subseteq counted
    BY <1>2 DEF Release, scopes
  <2> QED
    BY <2>1, SameDrafts
<1>3. ASSUME NEW p \in call.copies, CopyCell(p) PROVE Drafts'
  <2> DEFINE q == <<call.rec, p[2]>>
  <2>1. call.op = "copy" /\ counted' = counted \cup {q} /\ frames' = frames
    BY <1>3 DEF CopyCell
  <2>2. call'.copies = {} \/ (call'.op = call.op /\ call'.rec = call.rec /\ call'.copies = call.copies \ {p})
    <3>1. CASE call' = NoCall
      BY <1>1, <3>1
    <3>2. CASE call' = [call EXCEPT !.copies = call.copies \ {p}]
      BY <1>1, <3>2 DEF Call
    <3> QED
      BY <1>3, <3>1, <3>2 DEF CopyCell
  <2>3. /\ call'.copies = {} \/ call'.op \in {"copy", "carry"}
        /\ \A r, s \in call'.copies : r[1] = s[1]
        /\ call'.op = "copy" => \A r \in call'.copies : r[2] \in Cells
        /\ \A r \in call'.copies : <<call'.rec, r[2]>> \notin counted'
    BY <2>1, <2>2, CopyDrafts
  <2>4. Top' = Top /\ (InBuild' <=> InBuild) /\ Top.src # Nil /\ p[2] \in Cells
    BY <2>1 DEF Top, InBuild, Nesting, Editing, Drafts
  <2>5. \A s \in Sides : <<Top.rec, s>> # q
    BY <2>4, ConstantsAssumption
  <2>6. InBuild => \A s \in Sides : <<Top.rec, s>> \notin counted'
    BY <2>1, <2>4, <2>5 DEF Drafts
  <2> QED
    BY <2>3, <2>4, <2>6 DEF Drafts
<1>4. ASSUME NEW p \in call.copies, CarrySide(p) PROVE Drafts'
  <2> DEFINE q == <<call.rec, p[2]>>
  <2>1. /\ call.op = "carry" /\ counted' = counted \cup {q} /\ frames' = frames
        /\ call' = [call EXCEPT !.copies = call.copies \ {p}]
    BY <1>4 DEF CarrySide, scopes
  <2>2. call'.op = call.op /\ call'.rec = call.rec /\ call'.copies = call.copies \ {p}
    BY <1>1, <2>1 DEF Call
  <2>3. /\ call'.copies = {} \/ call'.op \in {"copy", "carry"}
        /\ \A r, s \in call'.copies : r[1] = s[1]
        /\ call'.op = "copy" => \A r \in call'.copies : r[2] \in Cells
        /\ \A r \in call'.copies : <<call'.rec, r[2]>> \notin counted'
    BY <2>1, <2>2, CopyDrafts
  <2>4. ~InBuild'
    BY <2>1 DEF Nesting, InBuild
  <2> QED
    BY <2>3, <2>4 DEF Drafts
<1>5. CASE CopyRefused
  <2>1. frames' = frames /\ counted' = counted /\ call' = [NoCall EXCEPT !.op = "giveback", !.n = Len(moved)]
    BY <1>5 DEF CopyRefused, counts, scopes
  <2>2. call'.copies = {}
    BY <2>1 DEF NoCall
  <2> QED
    BY <2>1, <2>2, SameDrafts
<1>6. CASE ReturnEdit \/ RefuseEdit \/ Closed \/ CloseRefused
  <2>1. frames' = frames /\ counted' = counted /\ call'.copies = {}
    BY <1>1, <1>6 DEF ReturnEdit, RefuseEdit, Closed, CloseRefused, counts, scopes
  <2> QED
    BY <2>1, SameDrafts
<1>7. CASE GiveBackMoved \/ FreeMinted
  <2>1. /\ frames' = frames /\ counted' = counted /\ call.op \in {"giveback", "free"}
        /\ \/ call' = [call EXCEPT !.n = @ - 1]
           \/ call' = [call EXCEPT !.op = "free", !.n = Len(minted)]
    BY <1>7 DEF GiveBackMoved, FreeMinted, scopes
  <2>2. call'.copies = {}
    <3>1. call'.copies = call.copies
      BY <1>1, <2>1 DEF Call
    <3> QED
      BY <2>1, <3>1 DEF Drafts
  <2> QED
    BY <2>1, <2>2, SameDrafts
<1>8. CASE CloseNext
  <2>1. /\ frames' = frames /\ counted' = counted /\ call.op = "close"
        /\ \/ call' = [call EXCEPT !.n = @ + 1]
           \/ call' = [call EXCEPT !.n = @ + 1, !.carried = Append(@, minted[call.n])]
    BY <1>8 DEF CloseNext, scopes
  <2>2. call'.copies = {}
    <3>1. call'.copies = call.copies
      BY <1>1, <2>1 DEF Call
    <3> QED
      BY <2>1, <3>1 DEF Drafts
  <2> QED
    BY <2>1, <2>2, SameDrafts
<1>9. CASE (Abandoned \/ AbandonRefused) /\ dead = {}
  <2>1. frames # <<>> /\ counted' = counted /\ call'.copies = {}
        /\ UNCHANGED <<count, owned, words, counted, dead, chunkOf>>
    BY <1>1, <1>9 DEF Abandoned, AbandonRefused, counts, chunks, TypeInv, Control
  <2>2. PICK m, v : EndScope(m, v)
    BY <1>9 DEF Abandoned, AbandonRefused
  <2>3. ~InBuild'
    BY <1>9, <2>1, <2>2, EndsNotBuilding DEF Ends
  <2> QED
    BY <2>1, <2>3, SameDrafts
<1> QED
  BY <1>2, <1>3, <1>4, <1>5, <1>6, <1>7, <1>8, <1>9 DEF Continues

LEMMA StartsDrafts ==
  ASSUME Arena, Arena', ~InterceptorsWrite, Nesting, Drafts, Starts
  PROVE  Drafts'
<1>1. /\ TypeInv /\ call \in Call /\ NoCall.op = "none" /\ NoCall.copies = {}
      /\ Nil \in Records \cup {Nil} /\ Nil \in Cells \cup {Nil} /\ Nil \notin Records
  BY ArenaFacts, NoCallType, ConstantsAssumption DEF NoCall
<1>2. call.op = "none" => call.copies = {}
  BY DEF Drafts
<1>3. InBuild => Top.rec \in Records
  BY <1>1, ScopeFacts DEF TypeInv, Control, InBuild
<1>4. CASE InterceptBuild
  <2> DEFINE f == NewFrame("intercept", Nil, Nil)
  <2>1. f \in Frame /\ f.minted = Len(minted) /\ f.moved = Len(moved) /\ f.src = Nil /\ f.kind = "intercept"
    BY <1>1, ScopeFacts DEF NewFrame, Frame
  <2>2. UserCode /\ frames' = Append(frames, f) /\ call' = call /\ call.op = "none"
        /\ UNCHANGED <<words, counted, dead, handed, moved>>
    BY <1>4 DEF InterceptBuild, UserCode, Idle, counts
  <2>3. Top' = f
    BY <1>1, <2>1, <2>2, OpensScope
  <2> QED
    BY <1>2, <2>1, <2>2, <2>3, SameDrafts DEF InBuild
<1>5. ASSUME NEW r \in Records, BuildRecord(r) PROVE Drafts'
  <2>1. UserCode /\ Mint(r, Nil) /\ call'.op = "none" /\ Alloc(r) /\ call'.copies = {}
        /\ UNCHANGED <<words, counted, dead, handed, moved>>
    BY <1>2, <1>5 DEF BuildRecord, UserCode, Idle, Mint
  <2>2. Top'.rec = r /\ Top'.kind = "build" /\ Top'.run = Nil
    BY <1>1, <2>1, MintScope
  <2> QED
    BY <2>1, <2>2, MintDrafts DEF Drafts
<1>6. ASSUME NEW r \in Records, NEW src \in Records, EditRecord(r, src) PROVE Drafts'
  <2> DEFINE from == {p \in {src} \X Cells : words[p] # Nil}
  <2>1. /\ UserCode /\ Mint(r, src) /\ Alloc(r) /\ UNCHANGED <<words, counted, dead, handed, moved>>
        /\ frames = <<>> /\ src # Nil
        /\ call' = IF from = {} THEN NoCall ELSE [NoCall EXCEPT !.op = "copy", !.rec = r, !.copies = from]
    BY <1>1, <1>6 DEF EditRecord, UserWrites, Mint
  <2>2. \/ call'.op = "none" /\ call'.copies = {}
        \/ call'.op = "copy" /\ call'.rec = r /\ call'.copies = from
    BY <1>1, <2>1 DEF NoCall
  <2>3. Top'.rec = r /\ Top'.kind = "build" /\ Top'.run = Nil /\ Top'.src = src
    BY <1>1, <2>1, <2>2, MintScope
  <2>4. /\ \A c : <<r, c>> \notin counted
        /\ Top'.run # Top'.rec
        /\ \A s \in Sides : <<Top'.rec, s>> \notin counted'
        /\ \A c \in Cells : <<Top'.rec, c>> \notin counted'
    BY <2>1, <2>3, MintDrafts
  <2>5. \A p \in from : p[1] = src /\ p[2] \in Cells
    OBVIOUS
  <2>6. /\ call'.copies = {} \/ call'.op \in {"copy", "carry"}
        /\ \A p, q \in call'.copies : p[1] = q[1]
        /\ \A p \in call'.copies : <<call'.rec, p[2]>> \notin counted'
        /\ call'.op = "copy" => \A p \in call'.copies : p[2] \in Cells
    BY <2>1, <2>2, <2>4, <2>5
  <2> QED
    BY <2>4, <2>6 DEF Drafts
<1>7. ASSUME NEW c \in Cells, PatchCell(c) PROVE Drafts'
  <2>1. /\ Building /\ InBuild /\ counted' \subseteq counted /\ call' = call
        /\ SetTop([Top EXCEPT !.done = Done(Nil), !.at = c, !.run = Nil])
    BY <1>7 DEF PatchCell, Building
  <2> QED
    BY <1>1, <1>3, <2>1, SlotDrafts
<1>8. ASSUME NEW c \in Cells, NEW x \in Records, StoreCell(c, x) PROVE Drafts'
  <2>1. /\ Building /\ InBuild /\ counted' = counted \cup {<<Top.rec, c>>} /\ call' = call /\ c # Nil
        /\ SetTop([Top EXCEPT !.done = Done(c), !.at = Nil, !.run = Nil])
    BY <1>8, ConstantsAssumption DEF StoreCell, Place, Building
  <2> QED
    BY <1>1, <1>3, <2>1, SlotDrafts
<1>9. ASSUME NEW c \in Cells, NEW u \in Records, StoreRun(c, u) PROVE Drafts'
  <2>1. /\ Building /\ InBuild /\ counted' = counted \cup {<<Top.rec, c>>} /\ call' = call /\ c # Nil
        /\ SetTop([Top EXCEPT !.done = Done(c), !.at = Nil, !.run = u]) /\ chunkOf[u] = 0
    BY <1>9, ConstantsAssumption DEF StoreRun, Building, Alloc
  <2>2. u # Top.rec
    BY <2>1, TopPlaced DEF Arena, IInv
  <2> QED
    BY <1>1, <2>1, <2>2, SlotDrafts
<1>10. ASSUME NEW k \in Cells, NEW x \in Records, StoreItem(k, x) PROVE Drafts'
  <2>1. /\ InBuild /\ call' = call /\ frames' = frames /\ counted' = counted \cup {<<Top.run, k>>}
        /\ call.op = "none"
    BY <1>10 DEF StoreItem, Building, Idle, Place
  <2>2. Top' = Top /\ (InBuild' <=> InBuild) /\ call'.copies = {} /\ Top.run # Top.rec
    BY <1>2, <2>1 DEF Top, InBuild, Drafts
  <2>3. \A c : <<Top.rec, c>> \in counted' => <<Top.rec, c>> \in counted
    BY <2>1, <2>2
  <2> QED
    BY <2>1, <2>2, <2>3 DEF Drafts
<1>11. CASE InternText \/ OpenCommit
  <2>1. UNCHANGED <<frames, counted, call>>
    BY <1>11 DEF InternText, OpenCommit, counts, scopes
  <2> QED
    BY <2>1, SameDrafts
<1>12. CASE FinishBuild
  <2>1. /\ InBuild /\ frames # <<>> /\ dead = {} /\ EndScope(minted, moved)
        /\ UNCHANGED <<count, owned, words, counted, dead, chunkOf>>
    BY <1>12 DEF FinishBuild, Building, InBuild, Idle, counts, chunks
  <2>2. ~InBuild'
    BY <2>1, EndsNotBuilding DEF Ends
  <2>3. CASE Top.src = Nil
    BY <1>1, <1>12, <2>1, <2>2, <2>3, SameDrafts DEF FinishBuild
  <2>4. CASE Top.src # Nil
    <3>1. call' = [NoCall EXCEPT !.op = "carry", !.rec = Top.rec, !.copies = SidesOf(Top.src)]
      BY <1>12, <2>4 DEF FinishBuild
    <3>2. call'.op = "carry" /\ call'.rec = Top.rec /\ call'.copies = SidesOf(Top.src)
      BY <3>1 DEF NoCall
    <3>3. \A p \in call'.copies : p[1] = Top.src /\ p[2] \in Sides
      BY <3>2 DEF SidesOf, PlacesOf
    <3>4. \A p \in call'.copies : <<Top.rec, p[2]>> \notin counted'
      BY <2>1, <2>4, <3>3 DEF Drafts
    <3> QED
      BY <2>2, <3>2, <3>3, <3>4 DEF Drafts
  <2> QED
    BY <2>3, <2>4
<1>13. CASE FinishIntercepted
  <2>1. /\ frames # <<>> /\ dead = {} /\ EndScope(minted, moved) /\ call' = call
        /\ UNCHANGED <<count, owned, words, counted, dead, chunkOf>>
    BY <1>13 DEF FinishIntercepted, UserCode, Idle, counts, chunks
  <2>2. ~InBuild'
    BY <2>1, EndsNotBuilding DEF Ends
  <2> QED
    BY <2>1, <2>2, SameDrafts
<1>14. CASE Throw
  <2>1. UNCHANGED <<frames, counted>> /\ call' = [NoCall EXCEPT !.op = "giveback", !.n = Len(moved)]
    BY <1>14 DEF Throw, counts, scopes
  <2>2. call'.copies = {}
    BY <2>1 DEF NoCall
  <2> QED
    BY <2>1, <2>2, SameDrafts
<1>15. ASSUME NEW x \in Records, ReleaseNode(x) PROVE Drafts'
  BY <1>15, SameDrafts DEF ReleaseNode, scopes
<1>16. ASSUME NEW h \in Records, NEW s \in Sides, NEW x \in Records \cup {Nil}, WriteSide(h, s, x) PROVE Drafts'
  <2>1. frames' = frames /\ frames = <<>> /\ call' = call /\ call.op = "none"
    BY <1>16 DEF WriteSide, UserWrites, UserCode, Idle, scopes
  <2> QED
    BY <1>2, <2>1, SameDrafts DEF InBuild
<1>17. ASSUME NEW i \in 1..MaxCommits, NEW x \in Records, Keep(i, x) PROVE Drafts'
  BY <1>17, SameDrafts DEF Keep
<1>18. CASE CloseCommit
  <2> DEFINE mark == commits[Len(commits)]
  <2>1. UNCHANGED <<frames, counted>>
        /\ call' = [NoCall EXCEPT !.op = "close", !.n = mark.minted + 1, !.base = mark.minted, !.kept = mark.kept]
    BY <1>18 DEF CloseCommit, counts
  <2>2. call'.copies = {}
    BY <2>1 DEF NoCall
  <2> QED
    BY <2>1, <2>2, SameDrafts
<1> QED
  BY <1>4, <1>5, <1>6, <1>7, <1>8, <1>9, <1>10, <1>11, <1>12, <1>13, <1>14, <1>15, <1>16, <1>17, <1>18 DEF Starts

\* What moved is a scope's: outside every scope nothing is.
LEMMA MovedOutside ==
  ASSUME TypeInv, frames = <<>>, Next
  PROVE  moved' = moved
<1>1. ~InBuild /\ call.op \notin {"copy", "giveback", "free"}
  BY DEF InBuild, TypeInv, Control
<1>2. CASE Continues
  BY <1>1, <1>2 DEF Continues, Release, CopyCell, CarrySide, CopyRefused, ReturnEdit, RefuseEdit,
                    GiveBackMoved, FreeMinted, Abandoned, AbandonRefused, CloseNext, Closed, CloseRefused, scopes
<1>3. CASE Starts
  <2>1. ASSUME NEW r \in Records, BuildRecord(r) \/ \E src \in Records : EditRecord(r, src)
        PROVE  moved' = moved
    BY <2>1 DEF BuildRecord, EditRecord
  <2>2. ASSUME NEW c \in Cells, PatchCell(c) \/ \E x \in Records : StoreCell(c, x) \/ StoreRun(c, x) \/ StoreItem(c, x)
        PROVE  FALSE
    BY <1>1, <2>2 DEF PatchCell, StoreCell, StoreRun, StoreItem, Building
  <2>3. ASSUME NEW h \in Records, NEW s \in Sides, NEW x \in Records \cup {Nil}, WriteSide(h, s, x)
        PROVE  moved' = moved
    BY <2>3 DEF WriteSide, scopes
  <2>4. ASSUME NEW i \in 1..MaxCommits, NEW x \in Records, Keep(i, x) PROVE moved' = moved
    BY <2>4 DEF Keep
  <2>5. ASSUME NEW x \in Records, ReleaseNode(x) PROVE moved' = moved
    BY <2>5 DEF ReleaseNode, scopes
  <2>6. CASE InterceptBuild \/ InternText \/ Throw \/ OpenCommit \/ CloseCommit
    BY <2>6 DEF InterceptBuild, InternText, Throw, OpenCommit, CloseCommit, scopes
  <2>7. CASE FinishBuild \/ FinishIntercepted
    BY <1>1, <2>7 DEF FinishBuild, FinishIntercepted, Building
  <2> QED
    BY <1>3, <2>1, <2>2, <2>3, <2>4, <2>5, <2>6, <2>7 DEF Starts
<1> QED
  BY <1>2, <1>3 DEF Next

\* Nesting and Drafts hold, and a step in a build's scope is one of the above.
LEMMA ScopesStep ==
  ASSUME Arena, Arena', ~InterceptorsWrite, Nesting, Drafts, [Next]_vars
  PROVE  Nesting' /\ Drafts' /\ (frames # <<>> \/ frames' # <<>> => InScope)
<1>1. CASE UNCHANGED vars
  <2>1. UNCHANGED <<frames, counted, call, moved, dead>>
    BY <1>1 DEF vars, scopes, counts
  <2>2. Drafts'
    BY <2>1, SameDrafts
  <2>3. Nesting'
    BY <2>1 DEF Nesting, Editing, Top
  <2> QED
    BY <2>2, <2>3, InScopeStep
<1>2. Next => Drafts'
  BY StartsDrafts, ContinuesDrafts DEF Next
<1>3. CASE frames # <<>> \/ frames' # <<>>
  BY <1>1, <1>2, <1>3, InScopeStep, InScopeNesting
<1>4. CASE Next /\ frames = <<>> /\ frames' = <<>>
  <2>1. moved = <<>>
    BY <1>4 DEF Nesting
  <2>2. moved' = <<>>
    BY <1>4, <2>1, MovedOutside DEF Arena, IInv
  <2> QED
    BY <1>2, <1>4, <2>2, OutsideNesting
<1> QED
  BY <1>1, <1>3, <1>4

-----------------------------------------------------------------------------
(* What of the lists `moved' and `minted' is still to be rolled back.      *)

LEMMA ListFacts ==
  ASSUME Arena, Nesting
  PROVE  /\ Still \in Nat /\ Built \in Nat /\ Still <= Len(moved) /\ Built <= Len(minted)
         /\ call.op \notin {"giveback", "free"} => Still = Len(moved) /\ Built = Len(minted)
         /\ call.op = "giveback" => Still = call.n /\ Built = Len(minted) /\ Top.moved <= Still
         /\ call.op = "free" => Still = Top.moved /\ Built = call.n /\ Top.minted <= Built
<1>1. /\ TypeInv /\ call.n \in Nat /\ Len(moved) \in Nat /\ Len(minted) \in Nat
      /\ frames # <<>> => Top.moved \in Nat /\ Top.moved <= Len(moved)
  BY ArenaFacts, ScopeFacts
<1>2. CASE call.op \notin {"giveback", "free"}
  BY <1>1, <1>2 DEF Still, Built
<1>3. CASE call.op = "giveback"
  <2>1. Still = call.n /\ Built = Len(minted)
    BY <1>3 DEF Still, Built
  <2>2. call.n <= Len(moved) /\ Top.moved <= call.n
    BY <1>1, <1>3 DEF TypeInv, Control, Nesting
  <2> QED
    BY <1>1, <1>3, <2>1, <2>2
<1>4. CASE call.op = "free"
  <2>1. Still = Top.moved /\ Built = call.n
    BY <1>4 DEF Still, Built
  <2>2. call.n <= Len(minted) /\ Top.minted <= call.n /\ frames # <<>>
    BY <1>1, <1>4 DEF TypeInv, Control, Nesting
  <2> QED
    BY <1>1, <1>4, <2>1, <2>2
<1> QED
  BY <1>2, <1>3, <1>4

\* A step that moves and mints nothing, and gives no count back.
Quiet ==
  \/ Stays /\ call' = call
  \/ Throwing \/ Turns
  \/ \E p \in Places, u \in Records : Runs(p, u)
  \/ \E p \in Places : Patches(p)
  \/ \E d \in Records, p \in Places : Drops(d, p)
  \/ \E d \in Records : Buries(d)

LEMMA QuietLists ==
  ASSUME Arena, Arena', Nesting, frames # <<>>, Quiet
  PROVE  SameScopes /\ Still' = Still /\ Built' = Built /\ UNCHANGED <<owned, minted, moved>>
<1>1. \/ call' = call
      \/ call.op \in {"none", "copy"} /\ call'.op = "giveback" /\ call'.n = Len(moved)
      \/ call.op = "giveback" /\ call.n <= Top.moved /\ call'.op = "free" /\ call'.n = Len(minted)
  BY DEF Quiet, Throwing, Turns, Runs, Patches, Drops, Buries
<1>2. SameScopes /\ UNCHANGED <<owned, minted, moved>>
  <2>1. SameScopes \/ frames' = frames
    BY DEF Quiet, Stays, Throwing, Turns, Runs, Patches, Drops, Buries
  <2>2. UNCHANGED <<owned, minted, moved>>
    BY DEF Quiet, Stays, Throwing, Turns, Runs, Patches, Drops, Buries
  <2> QED
    BY <2>1, <2>2, SameFrames
<1>3. Top'.moved = Top.moved
  BY <1>2, SameTop
<1>4. CASE call' = call
  BY <1>2, <1>3, <1>4 DEF Still, Built
<1>5. CASE call.op \in {"none", "copy"} /\ call'.op = "giveback" /\ call'.n = Len(moved)
  BY <1>2, <1>5 DEF Still, Built
<1>6. CASE call.op = "giveback" /\ call.n <= Top.moved /\ call'.op = "free" /\ call'.n = Len(minted)
  <2>1. call.n = Top.moved
    <3>1. Top.moved <= call.n /\ call.n \in Nat /\ Top.moved \in Nat
      BY <1>6, ArenaFacts, ScopeFacts DEF Nesting
    <3> QED
      BY <1>6, <3>1
  <2> QED
    BY <1>2, <1>3, <1>6, <2>1 DEF Still, Built
<1> QED
  BY <1>1, <1>2, <1>4, <1>5, <1>6

LEMMA FreesLists ==
  ASSUME Arena, Arena', Nesting, Frees, Minted
  PROVE  /\ SameScopes /\ Still' = Still /\ Still = Top.moved /\ Built = call.n /\ Built' = Built - 1
         /\ Built \in Top.minted + 1..Len(minted) /\ Built \in 1..Len(minted)
         /\ minted[Built] \in owned /\ minted[Built] \in Records
         /\ owned' = owned \ {minted[Built]} /\ count' = Dropped(count, minted[Built])
         /\ dead' = Released(count, minted[Built])
         /\ UNCHANGED <<words, counted, chunkOf, minted, moved>>
<1>1. /\ TypeInv /\ call.op = "free" /\ frames # <<>> /\ Still = Top.moved /\ Built = call.n
      /\ Built <= Len(minted) /\ Built \in Nat /\ Built > Top.minted
      /\ UNCHANGED <<words, counted, chunkOf, minted, moved, frames>>
  BY ArenaFacts, ListFacts DEF Frees, TypeInv, Control
<1>2. SameScopes /\ Top' = Top
  BY <1>1, SameFrames
<1>3. Built \in Top.minted + 1..Len(minted) /\ Built \in 1..Len(minted)
  <2>1. Top.minted \in Nat /\ Len(minted) \in Nat
    BY <1>1, ScopeFacts
  <2> QED
    BY <1>1, <2>1
<1>4. minted[Built] \in Records
  BY <1>1, <1>3, ScopeFacts
<1>5. minted[Built] \in owned
  <2>1. Len(frames) \in 1..Len(frames) /\ Top = frames[Len(frames)] /\ Top.moved \in Nat /\ Top.minted \in Nat
    BY <1>1, ScopeFacts
  <2>2. Built \in Top.minted + 1..Built
    BY <1>1, <1>3, <2>1
  <2>3. minted[Built] \in owned \/ \E k \in Top.moved + 1..Still : moved[k] = minted[Built]
    BY <2>1, <2>2 DEF Minted
  <2> QED
    BY <1>1, <2>1, <2>3
<1>6. Still' = Still /\ Built' = Built - 1
  BY <1>1, <1>2 DEF Still, Built, Frees
<1>7. ReleaseOwned(minted[Built])
  BY <1>1 DEF Frees
<1> QED
  BY <1>1, <1>2, <1>3, <1>4, <1>5, <1>6, <1>7 DEF ReleaseOwned

LEMMA GivesBackLists ==
  ASSUME Arena, Arena', Nesting, GivesBack
  PROVE  /\ SameScopes /\ Still = call.n /\ Still' = Still - 1 /\ Built' = Built /\ Built = Len(minted)
         /\ Still \in Top.moved + 1..Len(moved) /\ Still \in 1..Len(moved)
         /\ moved[Still] \in Records /\ count[moved[Still]] > 0
         /\ owned' = owned \cup {moved[Still]}
         /\ count' = [count EXCEPT ![moved[Still]] = @ + 1]
         /\ UNCHANGED <<words, counted, dead, chunkOf, minted, moved>>
<1>1. /\ TypeInv /\ call.op = "giveback" /\ frames # <<>> /\ Still = call.n /\ Built = Len(minted)
      /\ Still <= Len(moved) /\ Still \in Nat /\ Still > Top.moved
      /\ UNCHANGED <<words, counted, dead, chunkOf, minted, moved, frames>>
  BY ArenaFacts, ListFacts DEF GivesBack, TypeInv, Control
<1>2. Still \in Top.moved + 1..Len(moved) /\ Still \in 1..Len(moved)
  <2>1. Top.moved \in Nat /\ Len(moved) \in Nat
    BY <1>1, ScopeFacts
  <2> QED
    BY <1>1, <2>1
<1>3. moved[Still] \in Records
  BY <1>1, <1>2, ScopeFacts
<1>4. Still' = Still - 1 /\ Built' = Built
  BY <1>1 DEF Still, Built, GivesBack
<1> QED
  BY <1>1, <1>2, <1>3, <1>4, SameFrames DEF GivesBack, GiveBack

\* A count placed: the handle's, which moves, or one more.
LEMMA PlacesLists ==
  ASSUME Arena, Arena', Nesting, NEW p \in Places, NEW x \in Records, Places1(p, x)
  PROVE  /\ SameScopes /\ p \notin counted /\ count[x] > 0
         /\ words' = [words EXCEPT ![p] = x] /\ counted' = counted \cup {p}
         /\ Still = Len(moved) /\ Still' = Len(moved') /\ Built = Len(minted) /\ Built' = Built
         /\ UNCHANGED <<dead, chunkOf, minted>> /\ dead = {}
         /\ \/ /\ x \in owned /\ owned' = owned \ {x} /\ count' = count
               /\ Len(moved') = Len(moved) + 1 /\ moved'[Len(moved) + 1] = x
               /\ \A j \in 1..Len(moved) : moved'[j] = moved[j]
            \/ /\ owned' = owned /\ moved' = moved /\ count' = [count EXCEPT ![x] = @ + 1]
<1>1. /\ SameScopes /\ p \notin counted /\ Hold(x) /\ count[x] > 0 /\ frames # <<>>
      /\ words' = [words EXCEPT ![p] = x] /\ counted' = counted \cup {p}
      /\ UNCHANGED <<dead, chunkOf, minted>> /\ dead = {}
      /\ call.op \in {"none", "copy"} /\ call'.op \in {"none", "copy"}
  BY DEF Places1, Place, Hold, SameScopes
<1>2. Still = Len(moved) /\ Still' = Len(moved') /\ Built = Len(minted) /\ Built' = Built
  BY <1>1 DEF Still, Built
<1>3. CASE x \in owned /\ ~Kept(x)
  <2>1. owned' = owned \ {x} /\ moved' = Append(moved, x) /\ count' = count
    BY <1>1, <1>3 DEF Hold
  <2>2. moved \in Seq(Records)
    BY ArenaFacts, ScopeFacts
  <2>3. /\ Len(moved') = Len(moved) + 1 /\ moved'[Len(moved) + 1] = x
        /\ \A j \in 1..Len(moved) : moved'[j] = moved[j]
    BY <2>1, <2>2, AppendProperties
  <2> QED
    BY <1>1, <1>2, <1>3, <2>1, <2>3
<1>4. CASE ~(x \in owned /\ ~Kept(x))
  <2>1. owned' = owned /\ moved' = moved /\ count' = [count EXCEPT ![x] = @ + 1]
    BY <1>1, <1>4 DEF Hold
  <2> QED
    BY <1>1, <1>2, <2>1
<1> QED
  BY <1>3, <1>4

\* A rollback meets nothing it must refuse, but for an edit's copy whose record is gone.
LEMMA RefusesEdit ==
  ASSUME Arena, Nesting, Taken, Minted, Refuses
  PROVE  Editing /\ call.n \in 1..Len(moved) /\ call.op = "giveback" /\ count[moved[call.n]] = 0
<1>1. /\ TypeInv /\ frames # <<>> /\ Len(frames) \in 1..Len(frames) /\ Top = frames[Len(frames)]
      /\ Top.moved \in Nat /\ Top.minted \in Nat /\ Len(moved) \in Nat /\ Len(minted) \in Nat
      /\ dead = {} /\ Live
  BY ArenaFacts, ScopeFacts DEF Refuses, Ends
<1>2. CASE call.op = "giveback" /\ call.n > Top.moved /\ count[moved[call.n]] = 0
  <2>1. Still = call.n /\ Still \in Nat /\ Still <= Len(moved)
    BY <1>2, ListFacts
  <2>2. call.n \in 1..Still /\ call.n \in 1..Len(moved)
    BY <1>1, <1>2, <2>1
  <2>3. Editing
    BY <1>1, <1>2, <2>2 DEF Taken
  <2> QED
    BY <1>2, <2>2, <2>3
<1>3. CASE call.op = "free" /\ call.n > Top.minted /\ Freed(chunkOf[minted[call.n]])
  <2> DEFINE x == minted[call.n]
  <2>1. Still = Top.moved /\ Built = call.n /\ Built \in Nat /\ Built <= Len(minted)
    BY <1>3, ListFacts
  <2>2. call.n \in Top.minted + 1..Built /\ call.n \in 1..Len(minted)
    BY <1>1, <1>3, <2>1
  <2>3. x \in owned
    <3>1. x \in owned \/ \E k \in Top.moved + 1..Still : moved[k] = x
      BY <1>1, <2>2 DEF Minted
    <3> QED
      BY <1>1, <2>1, <3>1
  <2>4. count[x] > 0 /\ x \in Records
    BY <1>1, <2>2, <2>3, ScopeFacts DEF Live
  <2>5. count[x] = 0
    BY <1>3, <2>4 DEF Freed, Emptied
  <2> QED
    BY <2>4, <2>5
<1> QED
  BY <1>2, <1>3 DEF Refuses

LEMMA RefusesOutermost ==
  ASSUME Arena, Nesting, Taken, Minted, Refuses
  PROVE  Len(frames) = 1
<1>1. Editing /\ Len(frames) \in 1..Len(frames) /\ Top = frames[Len(frames)]
  BY RefusesEdit, ArenaFacts, ScopeFacts DEF Editing
<1> QED
  BY <1>1 DEF Nesting, Editing

\* The end of a build inside another.
LEMMA EndsLists ==
  ASSUME Arena, Arena', Nesting, Taken, Minted, Finishes \/ Leaves \/ Refuses, frames' # <<>>
  PROVE  /\ ~Editing /\ frames # <<>> /\ Still' = Still /\ Built' = Built /\ Len(moved') = Still /\ Len(minted') = Built
         /\ \A j \in 1..Still : moved'[j] = moved[j]
         /\ \A j \in 1..Built : minted'[j] = minted[j]
         /\ \A i \in 1..Len(frames') : i \in 1..Len(frames) /\ frames'[i] = frames[i]
         /\ UNCHANGED <<count, owned, words, counted, dead, chunkOf>>
<1>1. /\ TypeInv /\ Len(moved) \in Nat /\ Len(minted) \in Nat
      /\ moved \in Seq(Records) /\ minted \in Seq(Records)
  BY ArenaFacts, ScopeFacts
<1>2. ~Refuses
  BY EndsScope, RefusesOutermost DEF Refuses
<1>3. ASSUME NEW m, NEW v, Ends(m, v)
      PROVE  /\ ~Editing /\ frames # <<>> /\ minted' = m /\ moved' = v
             /\ \A i \in 1..Len(frames') : i \in 1..Len(frames) /\ frames'[i] = frames[i]
             /\ UNCHANGED <<count, owned, words, counted, dead, chunkOf>>
  <2>1. /\ Len(frames) # 1 /\ minted' = m /\ moved' = v /\ frames # <<>>
        /\ \A i \in 1..Len(frames') : i \in 1..Len(frames) /\ frames'[i] = frames[i]
    BY <1>3, EndsScope DEF Ends
  <2>2. Len(frames) \in 1..Len(frames) /\ Top = frames[Len(frames)]
    BY <1>1, <2>1, ScopeFacts
  <2>3. ~Editing
    BY <2>1, <2>2 DEF Nesting, Editing
  <2> QED
    BY <1>3, <2>1, <2>3 DEF Ends
<1>4. CASE Finishes
  <2>1. /\ Ends(minted, moved) /\ call.op = "none" /\ call'.op \in {"none", "carry"}
    BY <1>4 DEF Finishes
  <2>2. Still = Len(moved) /\ Built = Len(minted) /\ Still' = Len(moved') /\ Built' = Len(minted')
    BY <2>1 DEF Still, Built
  <2> QED
    BY <1>3, <2>1, <2>2
<1>5. CASE Leaves
  <2> DEFINE m == SubSeq(minted, 1, Top.minted)
             v == SubSeq(moved, 1, Top.moved)
  <2>1. Ends(m, v) /\ call.op = "free" /\ call.n <= Top.minted /\ call'.op = "none" /\ frames # <<>>
    BY <1>5 DEF Leaves, Ends
  <2>2. Still = Top.moved /\ Built = call.n /\ Top.minted <= Built /\ Built \in Nat
    BY <2>1, ListFacts
  <2>3. Top.moved \in 0..Len(moved) /\ Top.minted \in 0..Len(minted) /\ Top.minted \in Nat
    BY <1>1, <2>1, TopMarks
  <2>4. Built = Top.minted
    BY <2>1, <2>2, <2>3
  <2>5. /\ Len(m) = Top.minted /\ Len(v) = Top.moved
        /\ \A j \in 1..Top.minted : m[j] = minted[j]
        /\ \A j \in 1..Top.moved : v[j] = moved[j]
    BY <1>1, <2>3, PrefixType
  <2> HIDE DEF m, v
  <2>6. /\ ~Editing /\ frames # <<>> /\ minted' = m /\ moved' = v
        /\ \A i \in 1..Len(frames') : i \in 1..Len(frames) /\ frames'[i] = frames[i]
        /\ UNCHANGED <<count, owned, words, counted, dead, chunkOf>>
    BY <1>3, <2>1
  <2>7. Still' = Len(moved') /\ Built' = Len(minted')
    BY <2>1 DEF Still, Built
  <2> QED
    BY <2>2, <2>4, <2>5, <2>6, <2>7
<1> QED
  BY <1>2, <1>4, <1>5

\* A scope opens: what was minted and what moved are all the handles' or the places' still.
LEMMA OpensLists ==
  ASSUME Arena, Arena', Nesting, Opens
  PROVE  /\ Still = Len(moved) /\ Built = Len(minted) /\ Still' = Still /\ Built' = Len(minted') /\ moved' = moved
         /\ Top'.minted = Len(minted) /\ Top'.moved = Len(moved) /\ frames' # <<>> /\ dead = {}
         /\ Len(frames) \in Nat /\ Len(frames') = Len(frames) + 1 /\ Top' = frames'[Len(frames) + 1]
         /\ \A i \in 1..Len(frames) : frames'[i] = frames[i]
         /\ frames = <<>> => Len(moved) = 0
         /\ ~Editing
<1>1. /\ TypeInv /\ TypeInv' /\ UserCode /\ Len(frames) \in Nat /\ Len(frames') = Len(frames) + 1 /\ moved' = moved
      /\ \A i \in 1..Len(frames) : frames'[i] = frames[i]
      /\ call.op = "none" /\ call'.op \in {"none", "copy"} /\ dead = {}
  BY ArenaFacts, ScopeFacts DEF Opens, UserCode, Idle, Arena, IInv
<1>2. frames' # <<>>
  BY <1>1, EmptyNext
<1>3. Top' = frames'[Len(frames) + 1]
  BY <1>1, <1>2, TopNext
<1>4. Still = Len(moved) /\ Built = Len(minted) /\ Still' = Still /\ Built' = Len(minted')
  BY <1>1 DEF Still, Built
<1>5. frames = <<>> => Len(moved) = 0
  BY <1>1, EmptySeq DEF Nesting
<1>6. ~Editing
  <2> SUFFICES ASSUME Editing PROVE FALSE
    OBVIOUS
  <2>1. frames # <<>> /\ Len(frames) \in 1..Len(frames) /\ Top = frames[Len(frames)] /\ Top.src # Nil
    BY <1>1, ScopeFacts DEF Editing
  <2>2. Top.kind = "build"
    BY <2>1 DEF Nesting
  <2> QED
    BY <1>1, <2>1, <2>2 DEF UserCode, InBuild
<1> QED
  BY <1>1, <1>2, <1>3, <1>4, <1>5, <1>6 DEF Opens

-----------------------------------------------------------------------------
(* No count is lost: each step leaves what CountsExact says.               *)

LEMMA ExactFacts ==
  ASSUME Arena, CountsExact, NEW y \in Records
  PROVE  /\ count[y] = OwnCount(y) + Cardinality(Holders(y)) /\ count[y] \in Nat
         /\ Cardinality(Holders(y)) \in Nat /\ IsFiniteSet(Holders(y)) /\ OwnCount(y) \in {0, 1}
         /\ OwnCount(y) = (IF y \in owned THEN 1 ELSE 0)
         /\ OwnCount(y)' = (IF y \in owned' THEN 1 ELSE 0)
BY NeedType, ArenaFacts DEF CountsExact, CoverInv, Covered, OwnCount

\* One holder more, of x alone.
LEMMA HoldersAdd ==
  ASSUME Arena, NEW p \in Places, p \notin counted, NEW x \in Records,
         words' = [words EXCEPT ![p] = x], counted' = counted \cup {p}, NEW y \in Records
  PROVE  Cardinality(Holders(y)') = IF y = x THEN Cardinality(Holders(y)) + 1 ELSE Cardinality(Holders(y))
<1>1. /\ words \in [Places -> Records \cup {Nil}] /\ counted \subseteq Places
      /\ IsFiniteSet(Holders(y)) /\ p \notin Holders(y)
  BY NeedType, ArenaFacts DEF CoverInv, Covered, Holders
<1>2. CASE y = x
  <2>1. Holders(y)' = Holders(y) \cup {p}
    BY <1>1, <1>2 DEF Holders
  <2>2. Cardinality(Holders(y) \cup {p}) = Cardinality(Holders(y)) + 1
    BY <1>1, FS_AddElement
  <2> QED
    BY <1>2, <2>1, <2>2
<1>3. CASE y # x
  <2>1. Holders(y)' = Holders(y)
    BY <1>1, <1>3 DEF Holders
  <2> QED
    BY <1>3, <2>1
<1> QED
  BY <1>2, <1>3

\* One holder fewer, of what p names alone.
LEMMA HoldersDrop ==
  ASSUME Arena, NEW p \in counted, counted' = counted \ {p},
         \A o \in counted \ {p} : words'[o] = words[o], NEW y \in Records
  PROVE  Cardinality(Holders(y)') = IF y = words[p] THEN Cardinality(Holders(y)) - 1 ELSE Cardinality(Holders(y))
<1>1. IsFiniteSet(Holders(y)) /\ Holders(y)' = Holders(y) \ {p}
  BY NeedType, ArenaFacts DEF CoverInv, Covered, Holders
<1>2. CASE y = words[p]
  <2>1. p \in Holders(y)
    BY <1>2 DEF Holders
  <2>2. Cardinality(Holders(y) \ {p}) = Cardinality(Holders(y)) - 1
    BY <1>1, <2>1, FS_RemoveElement
  <2> QED
    BY <1>1, <1>2, <2>2
<1>3. CASE y # words[p]
  <2>1. Holders(y) \ {p} = Holders(y)
    BY <1>3 DEF Holders
  <2> QED
    BY <1>1, <1>3, <2>1
<1> QED
  BY <1>2, <1>3

LEMMA SameExact == ASSUME CountsExact, UNCHANGED <<count, owned, words, counted>> PROVE CountsExact'
BY DEF CountsExact, OwnCount, Holders

LEMMA PlaceExact ==
  ASSUME Arena, CountsExact, NEW p \in Places, p \notin counted, NEW x \in Records, Place(p, x)
  PROVE  CountsExact'
<1>1. /\ words' = [words EXCEPT ![p] = x] /\ counted' = counted \cup {p}
      /\ \/ owned' = owned \ {x} /\ x \in owned /\ count' = count
         \/ owned' = owned /\ count' = [count EXCEPT ![x] = @ + 1]
  BY DEF Place, Hold
<1>2. count \in [Records -> Nat]
  BY ArenaFacts
<1> SUFFICES ASSUME NEW y \in Records PROVE count'[y] = OwnCount(y)' + Cardinality(Holders(y)')
  BY DEF CountsExact
<1>3. Cardinality(Holders(y)') = IF y = x THEN Cardinality(Holders(y)) + 1 ELSE Cardinality(Holders(y))
  BY <1>1, HoldersAdd
<1> QED
  BY <1>1, <1>2, <1>3, ExactFacts

LEMMA DropExact ==
  ASSUME Arena, CountsExact, NEW p \in counted, counted' = counted \ {p},
         \A o \in counted \ {p} : words'[o] = words[o],
         count' = Dropped(count, words[p]), owned' = owned
  PROVE  CountsExact'
<1>1. count \in [Records -> Nat] /\ words[p] \in Records
  BY ArenaFacts
<1> SUFFICES ASSUME NEW y \in Records PROVE count'[y] = OwnCount(y)' + Cardinality(Holders(y)')
  BY DEF CountsExact
<1>2. count'[y] = IF y = words[p] THEN count[y] - 1 ELSE count[y]
  BY <1>1 DEF Dropped
<1>3. Cardinality(Holders(y)') = IF y = words[p] THEN Cardinality(Holders(y)) - 1 ELSE Cardinality(Holders(y))
  BY HoldersDrop
<1> QED
  BY <1>2, <1>3, ExactFacts

LEMMA ReleaseOwnedExact ==
  ASSUME Arena, CountsExact, NEW x \in Records, ReleaseOwned(x), UNCHANGED <<words, counted>>
  PROVE  CountsExact'
<1>1. CASE x \notin owned
  BY <1>1, SameExact DEF ReleaseOwned
<1>2. CASE x \in owned
  <2>1. count \in [Records -> Nat] /\ count' = Dropped(count, x) /\ owned' = owned \ {x}
    BY <1>2, ArenaFacts DEF ReleaseOwned
  <2> SUFFICES ASSUME NEW y \in Records PROVE count'[y] = OwnCount(y)' + Cardinality(Holders(y)')
    BY DEF CountsExact
  <2>2. Holders(y)' = Holders(y)
    BY DEF Holders
  <2>3. count'[y] = IF y = x THEN count[y] - 1 ELSE count[y]
    BY <2>1 DEF Dropped
  <2> QED
    BY <1>2, <2>1, <2>2, <2>3, ExactFacts
<1> QED
  BY <1>1, <1>2

LEMMA GiveBackExact ==
  ASSUME Arena, CountsExact, NEW x \in Records, x \notin owned, GiveBack(x), UNCHANGED <<words, counted>>
  PROVE  CountsExact'
<1>1. count \in [Records -> Nat] /\ count' = [count EXCEPT ![x] = @ + 1] /\ owned' = owned \cup {x}
  BY ArenaFacts DEF GiveBack
<1> SUFFICES ASSUME NEW y \in Records PROVE count'[y] = OwnCount(y)' + Cardinality(Holders(y)')
  BY DEF CountsExact
<1>2. Holders(y)' = Holders(y)
  BY DEF Holders
<1> QED
  BY <1>1, <1>2, ExactFacts

LEMMA MintExact ==
  ASSUME Arena, CountsExact, NEW r \in Records, Alloc(r),
         count' = [count EXCEPT ![r] = 1], owned' = owned \cup {r}, UNCHANGED <<words, counted>>
  PROVE  CountsExact'
<1>1. count \in [Records -> Nat] /\ r \notin owned /\ Holders(r) = {}
  BY ArenaFacts, AllocFresh
<1> SUFFICES ASSUME NEW y \in Records PROVE count'[y] = OwnCount(y)' + Cardinality(Holders(y)')
  BY DEF CountsExact
<1>2. Holders(y)' = Holders(y) /\ (y = r => Cardinality(Holders(y)) = 0)
  BY <1>1, FS_EmptySet DEF Holders
<1> QED
  BY <1>1, <1>2, ExactFacts

LEMMA RunExact ==
  ASSUME Arena, CountsExact, NEW p \in Places, p \notin counted, NEW u \in Records, Alloc(u),
         count' = [count EXCEPT ![u] = 1], words' = [words EXCEPT ![p] = u],
         counted' = counted \cup {p}, owned' = owned
  PROVE  CountsExact'
<1>1. count \in [Records -> Nat] /\ u \notin owned /\ Holders(u) = {}
  BY ArenaFacts, AllocFresh
<1> SUFFICES ASSUME NEW y \in Records PROVE count'[y] = OwnCount(y)' + Cardinality(Holders(y)')
  BY DEF CountsExact
<1>2. Cardinality(Holders(y)') = IF y = u THEN Cardinality(Holders(y)) + 1 ELSE Cardinality(Holders(y))
  BY HoldersAdd
<1>3. y = u => Cardinality(Holders(y)) = 0
  BY <1>1, FS_EmptySet
<1> QED
  BY <1>1, <1>2, <1>3, ExactFacts

\* A side that named nothing adopts a record.
LEMMA AdoptExact ==
  ASSUME Arena, CountsExact, NEW p \in Places, p \notin counted, NEW x \in Records, count[x] > 0,
         count' = Adopted(x), owned' = owned \ {x},
         words' = [words EXCEPT ![p] = x], counted' = counted \cup {p}
  PROVE  CountsExact'
<1> SUFFICES ASSUME NEW y \in Records PROVE count'[y] = OwnCount(y)' + Cardinality(Holders(y)')
  BY DEF CountsExact
<1>1. count'[y] = IF y = x /\ x \notin owned THEN count[y] + 1 ELSE count[y]
  BY ArenaFacts, AdoptCover
<1>2. Cardinality(Holders(y)') = IF y = x THEN Cardinality(Holders(y)) + 1 ELSE Cardinality(Holders(y))
  BY HoldersAdd
<1> QED
  BY <1>1, <1>2, ExactFacts

\* A side is written over.
LEMMA OverExact ==
  ASSUME Arena, CountsExact, NEW p \in counted, NEW x \in Records, count[x] > 0,
         count' = Dropped(Adopted(x), words[p]), owned' = owned \ {x},
         words' = [words EXCEPT ![p] = x], counted' = counted
  PROVE  CountsExact'
<1> DEFINE z == words[p]
<1> SUFFICES ASSUME NEW y \in Records PROVE count'[y] = OwnCount(y)' + Cardinality(Holders(y)')
  BY DEF CountsExact
<1>1. /\ z \in Records /\ p \in Places /\ words \in [Places -> Records \cup {Nil}]
      /\ counted \subseteq Places /\ Adopted(x) \in [Records -> Nat] /\ IsFiniteSet(Holders(y))
      /\ Adopted(x)[y] = IF y = x /\ x \notin owned THEN count[y] + 1 ELSE count[y]
  BY ArenaFacts, AdoptCover, NeedType DEF CoverInv, Covered
<1>2. count'[y] = IF y = z THEN Adopted(x)[y] - 1 ELSE Adopted(x)[y]
  BY <1>1 DEF Dropped
<1>3. Cardinality(Holders(y)') = IF y = x /\ y # z THEN Cardinality(Holders(y)) + 1
                                 ELSE IF y = z /\ y # x THEN Cardinality(Holders(y)) - 1
                                 ELSE Cardinality(Holders(y))
  <2>1. p \in Holders(y) <=> y = z
    BY DEF Holders
  <2>2. CASE y = x
    <3>1. Holders(y)' = Holders(y) \cup {p}
      BY <1>1, <2>2 DEF Holders
    <3>2. Cardinality(Holders(y) \cup {p}) = IF p \in Holders(y) THEN Cardinality(Holders(y)) ELSE Cardinality(Holders(y)) + 1
      BY <1>1, FS_AddElement
    <3> QED
      BY <2>1, <2>2, <3>1, <3>2
  <2>3. CASE y # x
    <3>1. Holders(y)' = Holders(y) \ {p}
      BY <1>1, <2>3 DEF Holders
    <3>2. Cardinality(Holders(y) \ {p}) = IF p \in Holders(y) THEN Cardinality(Holders(y)) - 1 ELSE Cardinality(Holders(y))
      BY <1>1, FS_RemoveElement
    <3> QED
      BY <2>1, <2>3, <3>1, <3>2
  <2> QED
    BY <2>2, <2>3
<1> QED
  BY <1>1, <1>2, <1>3, ExactFacts

LEMMA WriteSideExact ==
  ASSUME Arena, CountsExact, NEW h \in Records, NEW s \in Sides, NEW x \in Records \cup {Nil}, WriteSide(h, s, x)
  PROVE  CountsExact'
<1> DEFINE p == <<h, s>>
<1>1. /\ p \in Places /\ owned' = owned \ {x} /\ words' = [words EXCEPT ![p] = x]
      /\ words \in [Places -> Records \cup {Nil}] /\ counted \subseteq Places /\ owned \subseteq Records
  BY ArenaFacts DEF WriteSide, Places, TypeOK
<1>2. CASE x = Nil
  <2>1. owned' = owned /\ counted' = counted \ {p}
    BY <1>1, <1>2, ConstantsAssumption DEF WriteSide
  <2>2. CASE p \in counted
    <3>1. count' = Dropped(count, words[p])
      BY <1>2, <2>2 DEF WriteSide
    <3>2. \A o \in counted \ {p} : words'[o] = words[o]
      BY <1>1
    <3> QED
      BY <2>1, <2>2, <3>1, <3>2, DropExact
  <2>3. CASE p \notin counted
    <3>1. count' = count /\ counted' = counted
      BY <1>2, <2>1, <2>3 DEF WriteSide
    <3>2. \A o \in counted : words'[o] = words[o]
      BY <1>1, <2>3
    <3> QED
      BY <2>1, <3>1, <3>2 DEF CountsExact, OwnCount, Holders
  <2> QED
    BY <2>2, <2>3
<1>3. CASE x # Nil
  <2>1. x \in Records /\ count[x] > 0 /\ counted' = counted \cup {p}
    BY <1>3 DEF WriteSide
  <2>2. CASE p \in counted
    <3>1. count' = Dropped(Adopted(x), words[p]) /\ counted' = counted
      BY <1>3, <2>1, <2>2 DEF WriteSide
    <3> QED
      BY <1>1, <2>1, <2>2, <3>1, OverExact
  <2>3. CASE p \notin counted
    <3>1. count' = Adopted(x)
      BY <1>3, <2>3 DEF WriteSide
    <3> QED
      BY <1>1, <2>1, <2>3, <3>1, AdoptExact
  <2> QED
    BY <2>2, <2>3
<1> QED
  BY <1>2, <1>3

LEMMA ContinuesExact ==
  ASSUME Arena, Arena', Nesting, Drafts, Taken, CountsExact, Continues
  PROVE  CountsExact'
<1>1. /\ TypeInv /\ Live /\ counted \subseteq Places /\ call.n \in Nat
      /\ words \in [Places -> Records \cup {Nil}] /\ \A p \in counted : words[p] \in Records
      /\ \A i \in 1..Len(minted) : minted[i] \in Records
      /\ \A i \in 1..Len(moved) : moved[i] \in Records
  BY ArenaFacts, ScopeFacts
<1>2. CASE Release
  <2>1. PICK d \in dead :
          \/ \E p \in PlacesOf(d) :
               /\ counted' = counted \ {p}
               /\ words' = IF p[2] \in Sides THEN [words EXCEPT ![p] = Nil] ELSE words
               /\ count' = Dropped(count, words[p])
               /\ dead' = Released(count, words[p])
          \/ /\ PlacesOf(d) = {}
             /\ dead' = dead \ {d}
             /\ UNCHANGED <<count, words, counted>>
    BY <1>2 DEF Release
  <2>2. owned' = owned
    BY <1>2 DEF Release
  <2>3. ASSUME NEW p \in PlacesOf(d),
               /\ counted' = counted \ {p}
               /\ words' = IF p[2] \in Sides THEN [words EXCEPT ![p] = Nil] ELSE words
               /\ count' = Dropped(count, words[p])
               /\ dead' = Released(count, words[p])
        PROVE  CountsExact'
    <3>1. p \in counted /\ \A o \in counted \ {p} : words'[o] = words[o]
      BY <1>1, <2>3 DEF PlacesOf
    <3> QED
      BY <2>2, <2>3, <3>1, DropExact
  <2> QED
    BY <2>1, <2>2, <2>3, SameExact
<1>3. ASSUME NEW p \in call.copies, CopyCell(p) PROVE CountsExact'
  <2> DEFINE q == <<call.rec, p[2]>>
  <2>1. call.op = "copy" /\ Place(q, words[p])
    BY <1>3 DEF CopyCell, Place
  <2>2. call.rec \in Records /\ words[p] \in Records /\ p[2] \in Cells /\ q \notin counted
    BY <1>1, <2>1 DEF TypeInv, Control, Drafts
  <2>3. q \in Places
    BY <2>2 DEF Places
  <2> QED
    BY <2>1, <2>2, <2>3, PlaceExact
<1>4. ASSUME NEW p \in call.copies, CarrySide(p) PROVE CountsExact'
  <2> DEFINE q == <<call.rec, p[2]>>
             x == words[p]
  <2>1. /\ call.op = "carry" /\ count' = Adopted(x) /\ owned' = owned \ {x}
        /\ words' = [words EXCEPT ![q] = x] /\ counted' = counted \cup {q}
    BY <1>4 DEF CarrySide
  <2>2. call.rec \in Records /\ p \in counted /\ q \notin counted /\ p \in Places
    BY <1>1, <2>1 DEF TypeInv, Control, Drafts
  <2>3. q \in Places /\ x \in Records /\ count[x] > 0
    BY <1>1, <2>2 DEF Places, Live
  <2> QED
    BY <2>1, <2>2, <2>3, AdoptExact
<1>5. CASE CopyRefused \/ ReturnEdit \/ Abandoned \/ AbandonRefused \/ Closed \/ CloseRefused
  <2>1. UNCHANGED <<count, owned, words, counted>>
    BY <1>5 DEF CopyRefused, ReturnEdit, Abandoned, AbandonRefused, Closed, CloseRefused, counts
  <2> QED
    BY <2>1, SameExact
<1>6. CASE RefuseEdit
  <2>1. call.rec \in Records /\ ReleaseOwned(call.rec) /\ UNCHANGED <<words, counted>>
    BY <1>1, <1>6 DEF RefuseEdit, TypeInv, Control
  <2> QED
    BY <2>1, ReleaseOwnedExact
<1>7. CASE FreeMinted
  <2>1. /\ call.op = "free" /\ call.n > Top.minted /\ ReleaseOwned(minted[call.n]) /\ UNCHANGED <<words, counted>>
        /\ frames # <<>> /\ call.n <= Len(minted)
    BY <1>1, <1>7 DEF FreeMinted, TypeInv, Control
  <2>2. call.n \in 1..Len(minted)
    <3>1. Top.minted \in Nat /\ Len(minted) \in Nat
      BY <1>1, <2>1, ScopeFacts
    <3> QED
      BY <1>1, <2>1, <3>1
  <2> QED
    BY <1>1, <2>1, <2>2, ReleaseOwnedExact
<1>8. CASE GiveBackMoved
  <2>1. call.op = "giveback" /\ UNCHANGED <<words, counted>> /\ frames # <<>>
    BY <1>1, <1>8 DEF GiveBackMoved, TypeInv, Control
  <2>2. CASE call.n > Top.moved
    <3>1. GiveBack(moved[call.n]) /\ Still = call.n /\ Still <= Len(moved) /\ Top.moved \in Nat /\ Len(moved) \in Nat
      BY <1>1, <1>8, <2>1, <2>2, ListFacts, ScopeFacts DEF GiveBackMoved
    <3>2. call.n \in 1..Still /\ call.n \in 1..Len(moved)
      BY <1>1, <2>2, <3>1
    <3>3. moved[call.n] \notin owned
      BY <3>2 DEF Taken
    <3> QED
      BY <1>1, <2>1, <3>1, <3>2, <3>3, GiveBackExact
  <2>3. CASE ~(call.n > Top.moved)
    BY <1>8, <2>1, <2>3, SameExact DEF GiveBackMoved
  <2> QED
    BY <2>2, <2>3
<1>9. CASE CloseNext
  <2>1. /\ call.op = "close" /\ call.n <= Len(minted) /\ UNCHANGED <<words, counted>>
        /\ ReleaseOwned(minted[call.n]) \/ UNCHANGED <<owned, count>>
    BY <1>9 DEF CloseNext
  <2>2. call.n \in 1..Len(minted)
    <3>1. call.base \in Nat /\ Len(minted) \in Nat /\ call.base < call.n
      BY <1>1, <2>1, ArenaFacts, ScopeFacts DEF Call, TypeInv, Control
    <3> QED
      BY <1>1, <2>1, <3>1
  <2> QED
    BY <1>1, <2>1, <2>2, ReleaseOwnedExact, SameExact
<1> QED
  BY <1>2, <1>3, <1>4, <1>5, <1>6, <1>7, <1>8, <1>9 DEF Continues

LEMMA StartsExact ==
  ASSUME Arena, Arena', Nesting, Drafts, CountsExact, Starts
  PROVE  CountsExact'
<1>1. /\ TypeInv /\ counted \subseteq Places /\ words \in [Places -> Records \cup {Nil}]
      /\ InBuild => Top.rec \in Records
  BY ArenaFacts, ScopeFacts DEF TypeInv, Control, InBuild
<1>2. CASE InterceptBuild \/ InternText \/ FinishBuild \/ FinishIntercepted \/ Throw \/ OpenCommit \/ CloseCommit
  <2>1. UNCHANGED <<count, owned, words, counted>>
    BY <1>2 DEF InterceptBuild, InternText, FinishBuild, FinishIntercepted, Throw, OpenCommit, CloseCommit, counts
  <2> QED
    BY <2>1, SameExact
<1>3. ASSUME NEW r \in Records, BuildRecord(r) \/ \E src \in Records : EditRecord(r, src) PROVE CountsExact'
  <2>1. Alloc(r) /\ count' = [count EXCEPT ![r] = 1] /\ owned' = owned \cup {r} /\ UNCHANGED <<words, counted>>
    BY <1>3 DEF BuildRecord, EditRecord, Mint
  <2> QED
    BY <2>1, MintExact
<1>4. ASSUME NEW c \in Cells, PatchCell(c) PROVE CountsExact'
  <2> DEFINE p == <<Top.rec, c>>
  <2>1. /\ p \in counted /\ counted' = counted \ {p} /\ count' = Dropped(count, words[p])
        /\ words' = [words EXCEPT ![p] = Nil] /\ owned' = owned
    BY <1>4 DEF PatchCell
  <2>2. \A o \in counted \ {p} : words'[o] = words[o]
    BY <1>1, <2>1
  <2> QED
    BY <2>1, <2>2, DropExact
<1>5. ASSUME NEW c \in Cells, NEW x \in Records, StoreCell(c, x) PROVE CountsExact'
  <2>1. InBuild /\ <<Top.rec, c>> \notin counted /\ Place(<<Top.rec, c>>, x)
    BY <1>5 DEF StoreCell, Building
  <2>2. <<Top.rec, c>> \in Places
    BY <1>1, <2>1 DEF Places
  <2> QED
    BY <2>1, <2>2, PlaceExact
<1>6. ASSUME NEW c \in Cells, NEW u \in Records, StoreRun(c, u) PROVE CountsExact'
  <2> DEFINE p == <<Top.rec, c>>
  <2>1. /\ InBuild /\ p \notin counted /\ Alloc(u) /\ count' = [count EXCEPT ![u] = 1]
        /\ words' = [words EXCEPT ![p] = u] /\ counted' = counted \cup {p} /\ owned' = owned
    BY <1>6 DEF StoreRun, Building
  <2>2. p \in Places
    BY <1>1, <2>1 DEF Places
  <2> QED
    BY <2>1, <2>2, RunExact
<1>7. ASSUME NEW k \in Cells, NEW x \in Records, StoreItem(k, x) PROVE CountsExact'
  <2>1. InBuild /\ Top.run # Nil /\ <<Top.run, k>> \notin counted /\ Place(<<Top.run, k>>, x)
    BY <1>7 DEF StoreItem, Building
  <2>2. Top.run \in Records
    BY <1>1, <2>1, ScopeFacts DEF InBuild, Frame
  <2>3. <<Top.run, k>> \in Places
    BY <2>2 DEF Places
  <2> QED
    BY <2>1, <2>3, PlaceExact
<1>8. ASSUME NEW x \in Records, ReleaseNode(x) PROVE CountsExact'
  BY <1>8, ReleaseOwnedExact DEF ReleaseNode
<1>9. ASSUME NEW h \in Records, NEW s \in Sides, NEW x \in Records \cup {Nil}, WriteSide(h, s, x) PROVE CountsExact'
  BY <1>9, WriteSideExact
<1>10. ASSUME NEW i \in 1..MaxCommits, NEW x \in Records, Keep(i, x) PROVE CountsExact'
  <2>1. UNCHANGED <<words, counted>> /\ (UNCHANGED <<count, owned>> \/ (x \notin owned /\ GiveBack(x)))
    BY <1>10 DEF Keep
  <2> QED
    BY <2>1, SameExact, GiveBackExact
<1> QED
  BY <1>2, <1>3, <1>4, <1>5, <1>6, <1>7, <1>8, <1>9, <1>10 DEF Starts

LEMMA ExactStep ==
  ASSUME Arena, Arena', Nesting, Drafts, Taken, CountsExact, [Next]_vars
  PROVE  CountsExact'
<1>1. CASE UNCHANGED vars
  BY <1>1, SameExact DEF vars, counts
<1> QED
  BY <1>1, ContinuesExact, StartsExact DEF Next

-----------------------------------------------------------------------------
(* What was minted in a scope, and what moved in it.                       *)

LEMMA QuietMinted ==
  ASSUME Arena, Arena', Nesting, Minted, frames # <<>>, Quiet
  PROVE  Minted'
BY QuietLists DEF SameScopes, Minted

LEMMA FreesMinted ==
  ASSUME Arena, Arena', Nesting, Minted, Frees
  PROVE  Minted'
<1>1. /\ SameScopes /\ Still' = Still /\ Built' = Built - 1 /\ Built \in 1..Len(minted)
      /\ Built \in Top.minted + 1..Len(minted) /\ owned' = owned \ {minted[Built]}
      /\ minted' = minted /\ moved' = moved
  BY FreesLists
<1>2. /\ Len(minted) \in Nat /\ Top.minted \in Nat
      /\ \A i \in 1..Len(frames) : frames[i].minted \in Nat /\ frames[i].minted <= Top.minted
  BY <1>1, ArenaFacts, ScopeFacts DEF SameScopes
<1> SUFFICES ASSUME NEW i \in 1..Len(frames)
             PROVE  /\ \A j, k \in frames[i].minted + 1..Len(minted) : minted[j] = minted[k] => j = k
                    /\ \A j \in frames[i].minted + 1..Built - 1 :
                         \/ minted[j] \in owned'
                         \/ \E k \in frames[i].moved + 1..Still : moved[k] = minted[j]
  BY <1>1 DEF Minted, SameScopes
<1>3. \A j, k \in frames[i].minted + 1..Len(minted) : minted[j] = minted[k] => j = k
  BY DEF Minted
<1>4. ASSUME NEW j \in frames[i].minted + 1..Built - 1
      PROVE  \/ minted[j] \in owned'
             \/ \E k \in frames[i].moved + 1..Still : moved[k] = minted[j]
  <2>1. /\ j \in frames[i].minted + 1..Built /\ j \in frames[i].minted + 1..Len(minted)
        /\ Built \in frames[i].minted + 1..Len(minted) /\ j # Built
    BY <1>1, <1>2
  <2>2. minted[j] # minted[Built]
    BY <1>3, <2>1
  <2> QED
    BY <1>1, <2>1, <2>2 DEF Minted
<1> QED
  BY <1>3, <1>4

LEMMA GivesBackMinted ==
  ASSUME Arena, Arena', Nesting, Minted, GivesBack
  PROVE  Minted'
<1>1. /\ SameScopes /\ Still' = Still - 1 /\ Built' = Built /\ Still \in 1..Len(moved)
      /\ owned' = owned \cup {moved[Still]} /\ minted' = minted /\ moved' = moved
  BY GivesBackLists
<1>2. Len(moved) \in Nat /\ \A i \in 1..Len(frames) : frames[i].moved \in Nat
  BY <1>1, ArenaFacts, ScopeFacts
<1> SUFFICES ASSUME NEW i \in 1..Len(frames), NEW j \in frames[i].minted + 1..Built
             PROVE  \/ minted[j] \in owned'
                    \/ \E k \in frames[i].moved + 1..Still - 1 : moved[k] = minted[j]
  BY SMTT(30), <1>1 DEF Minted, SameScopes
<1>3. CASE minted[j] \in owned
  BY <1>1, <1>3
<1>4. ASSUME NEW k \in frames[i].moved + 1..Still, moved[k] = minted[j]
      PROVE  \/ minted[j] \in owned'
             \/ \E l \in frames[i].moved + 1..Still - 1 : moved[l] = minted[j]
  <2>1. CASE k = Still
    BY <1>1, <1>4, <2>1
  <2>2. CASE k # Still
    <3>1. k \in frames[i].moved + 1..Still - 1
      BY <1>1, <1>2, <2>2
    <3> QED
      BY <1>4, <3>1
  <2> QED
    BY <2>1, <2>2
<1> QED
  BY <1>3, <1>4 DEF Minted

LEMMA PlacesMinted ==
  ASSUME Arena, Arena', Nesting, Minted, NEW p \in Places, NEW x \in Records, Places1(p, x)
  PROVE  Minted'
<1>1. /\ SameScopes /\ Still = Len(moved) /\ Still' = Len(moved') /\ Built' = Built /\ minted' = minted
      /\ \/ /\ x \in owned /\ owned' = owned \ {x}
            /\ Len(moved') = Len(moved) + 1 /\ moved'[Len(moved) + 1] = x
            /\ \A j \in 1..Len(moved) : moved'[j] = moved[j]
         \/ /\ owned' = owned /\ moved' = moved
  BY PlacesLists
<1>2. Len(moved) \in Nat /\ \A i \in 1..Len(frames) : frames[i].moved \in Nat /\ frames[i].moved <= Len(moved)
  BY <1>1, ArenaFacts, ScopeFacts
<1> SUFFICES ASSUME NEW i \in 1..Len(frames), NEW j \in frames[i].minted + 1..Built
             PROVE  \/ minted[j] \in owned'
                    \/ \E k \in frames[i].moved + 1..Still' : moved'[k] = minted[j]
  BY SMTT(30), <1>1 DEF Minted, SameScopes
<1>3. CASE owned' = owned /\ moved' = moved
  BY <1>1, <1>3 DEF Minted
<1>4. CASE /\ x \in owned /\ owned' = owned \ {x}
           /\ Len(moved') = Len(moved) + 1 /\ moved'[Len(moved) + 1] = x
           /\ \A k \in 1..Len(moved) : moved'[k] = moved[k]
  <2>1. CASE minted[j] = x
    <3>1. Len(moved) + 1 \in frames[i].moved + 1..Still'
      BY <1>1, <1>2, <1>4
    <3> QED
      BY <1>4, <2>1, <3>1
  <2>2. CASE minted[j] \in owned /\ minted[j] # x
    BY <1>4, <2>2
  <2>3. ASSUME NEW k \in frames[i].moved + 1..Still, moved[k] = minted[j]
        PROVE  \E l \in frames[i].moved + 1..Still' : moved'[l] = minted[j]
    <3>1. k \in frames[i].moved + 1..Still' /\ k \in 1..Len(moved)
      BY <1>1, <1>2, <1>4
    <3> QED
      BY <1>4, <2>3, <3>1
  <2> QED
    BY <2>1, <2>2, <2>3 DEF Minted
<1> QED
  BY <1>1, <1>3, <1>4

LEMMA EndsMinted ==
  ASSUME Arena, Arena', Nesting, Taken, Minted, Finishes \/ Leaves \/ Refuses
  PROVE  Minted'
<1>1. CASE frames' = <<>>
  <2>1. Len(frames') = 0
    BY <1>1, EmptyNext DEF Arena, IInv
  <2> QED
    BY <2>1 DEF Minted
<1>2. CASE frames' # <<>>
  <2>1. /\ Still' = Still /\ Built' = Built /\ Len(minted') = Built /\ owned' = owned
        /\ \A j \in 1..Still : moved'[j] = moved[j]
        /\ \A j \in 1..Built : minted'[j] = minted[j]
        /\ \A i \in 1..Len(frames') : i \in 1..Len(frames) /\ frames'[i] = frames[i]
    BY <1>2, EndsLists
  <2>2. /\ Built \in Nat /\ Still \in Nat /\ Built <= Len(minted) /\ Len(minted) \in Nat
        /\ \A i \in 1..Len(frames) : frames[i].minted \in Nat /\ frames[i].moved \in Nat
    BY ListFacts, ArenaFacts, ScopeFacts
  <2> SUFFICES ASSUME NEW i \in 1..Len(frames), frames'[i] = frames[i]
               PROVE  /\ \A j, k \in frames[i].minted + 1..Built : minted'[j] = minted'[k] => j = k
                      /\ \A j \in frames[i].minted + 1..Built :
                           \/ minted'[j] \in owned
                           \/ \E k \in frames[i].moved + 1..Still : moved'[k] = minted'[j]
    BY <2>1 DEF Minted
  <2>3. \A j \in frames[i].minted + 1..Built :
          minted'[j] = minted[j] /\ j \in frames[i].minted + 1..Len(minted)
    BY <2>1, <2>2
  <2>4. \A k \in frames[i].moved + 1..Still : moved'[k] = moved[k]
    BY <2>1, <2>2
  <2>5. \A j, k \in frames[i].minted + 1..Built : minted'[j] = minted'[k] => j = k
    BY <2>3 DEF Minted
  <2>6. \A j \in frames[i].minted + 1..Built :
          \/ minted'[j] \in owned
          \/ \E k \in frames[i].moved + 1..Still : moved'[k] = minted'[j]
    BY <2>3, <2>4 DEF Minted
  <2> QED
    BY <2>5, <2>6
<1> QED
  BY <1>1, <1>2

\* What moved in the scopes still open is live, and was placed.
LEMMA MovedLive ==
  ASSUME Arena, Nesting, Taken, ~Editing, NEW j \in 1..Still
  PROVE  count[moved[j]] > 0
<1>1. frames = <<>> => Still = 0
  <2>1. frames = <<>> => Len(moved) = 0 /\ call.op \notin {"giveback", "free"}
    BY ArenaFacts, EmptySeq DEF Nesting, TypeInv, Control
  <2> QED
    BY <2>1, ListFacts
<1> QED
  BY <1>1 DEF Taken

LEMMA OpensMinted ==
  ASSUME Arena, Arena', Nesting, Taken, Minted, Opens /\ UNCHANGED <<owned, minted>>
  PROVE  Minted'
<1> DEFINE L == Len(frames)
<1>1. /\ Still = Len(moved) /\ Built = Len(minted) /\ Still' = Still /\ Built' = Len(minted) /\ moved' = moved
      /\ Top'.minted = Len(minted) /\ L \in Nat /\ Len(frames') = L + 1 /\ Top' = frames'[L + 1]
      /\ \A i \in 1..L : frames'[i] = frames[i]
      /\ owned' = owned /\ minted' = minted /\ Len(minted) \in Nat
  BY OpensLists, ArenaFacts, ScopeFacts
<1> SUFFICES ASSUME NEW i \in 1..(L + 1)
             PROVE  /\ \A j, k \in frames'[i].minted + 1..Len(minted) : minted[j] = minted[k] => j = k
                    /\ \A j \in frames'[i].minted + 1..Built :
                         \/ minted[j] \in owned
                         \/ \E k \in frames'[i].moved + 1..Still : moved[k] = minted[j]
  BY SMTT(30), <1>1 DEF Minted
<1>2. CASE i = L + 1
  <2>1. frames'[i].minted = Len(minted)
    BY <1>1, <1>2
  <2> QED
    BY <1>1, <2>1
<1>3. CASE i # L + 1
  <2>1. i \in 1..L /\ frames'[i] = frames[i]
    BY <1>1, <1>3
  <2> QED
    BY <2>1 DEF Minted
<1> QED
  BY <1>2, <1>3

\* A record minted was not before, and did not move.
LEMMA MintsFresh ==
  ASSUME Arena, Arena', Nesting, Taken, Minted, NEW r \in Records, Mints(r)
  PROVE  /\ count[r] = 0 /\ chunkOf[r] = 0 /\ r \notin owned
         /\ \A j \in 1..Len(moved) : moved[j] # r /\ count[moved[j]] > 0
         /\ \A i \in 1..Len(frames) : \A j \in frames[i].minted + 1..Len(minted) : minted[j] # r
         /\ Len(minted') = Len(minted) + 1 /\ Len(minted) \in Nat /\ minted'[Len(minted) + 1] = r
         /\ \A j \in 1..Len(minted) : minted'[j] = minted[j]
<1>1. Opens /\ Alloc(r) /\ minted' = Append(minted, r)
  BY DEF Mints
<1>2. count[r] = 0 /\ chunkOf[r] = 0 /\ r \notin owned
  BY <1>1, ArenaFacts, AllocFresh DEF CoverInv, Placement, PlacedCounts
<1>3. Still = Len(moved) /\ Built = Len(minted) /\ ~Editing /\ Len(moved) \in Nat
  BY <1>1, OpensLists, ArenaFacts, ScopeFacts
<1>4. \A j \in 1..Len(moved) : count[moved[j]] > 0
  BY <1>3, MovedLive
<1>5. \A j \in 1..Len(moved) : moved[j] # r
  BY <1>2, <1>4
<1>6. ASSUME NEW i \in 1..Len(frames), NEW j \in frames[i].minted + 1..Len(minted) PROVE minted[j] # r
  <2>1. minted[j] \in owned \/ \E k \in frames[i].moved + 1..Still : moved[k] = minted[j]
    BY <1>3, <1>6 DEF Minted
  <2>2. \A k \in frames[i].moved + 1..Still : k \in 1..Len(moved)
    <3>1. frames[i].moved \in Nat
      BY ArenaFacts, ScopeFacts
    <3> QED
      BY <1>3, <3>1
  <2> QED
    BY <1>2, <1>5, <2>1, <2>2
<1>7. /\ Len(minted') = Len(minted) + 1 /\ minted'[Len(minted) + 1] = r /\ Len(minted) \in Nat
      /\ \A j \in 1..Len(minted) : minted'[j] = minted[j]
  <2>1. minted \in Seq(Records) /\ Len(minted) \in Nat
    BY ArenaFacts, ScopeFacts
  <2> QED
    BY <1>1, <2>1, AppendProperties
<1> QED
  BY <1>2, <1>4, <1>5, <1>6, <1>7

LEMMA MintsMinted ==
  ASSUME Arena, Arena', Nesting, Taken, Minted, NEW r \in Records, Mints(r)
  PROVE  Minted'
<1> DEFINE L == Len(frames)
           M == Len(minted)
<1>1. /\ Opens /\ owned' = owned \cup {r} /\ M \in Nat /\ Len(minted') = M + 1 /\ minted'[M + 1] = r
      /\ \A j \in 1..M : minted'[j] = minted[j]
      /\ \A i \in 1..L : \A j \in frames[i].minted + 1..M : minted[j] # r
  BY MintsFresh DEF Mints
<1>2. /\ Still = Len(moved) /\ Built = M /\ Still' = Still /\ Built' = M + 1 /\ moved' = moved
      /\ Top'.minted = M /\ L \in Nat /\ Len(frames') = L + 1 /\ Top' = frames'[L + 1]
      /\ \A i \in 1..L : frames'[i] = frames[i]
  BY <1>1, OpensLists
<1>3. \A i \in 1..L : frames[i].minted \in Nat
  BY ArenaFacts, ScopeFacts
<1> HIDE DEF L, M
<1> SUFFICES ASSUME NEW i \in 1..(L + 1)
             PROVE  /\ \A j, k \in frames'[i].minted + 1..M + 1 : minted'[j] = minted'[k] => j = k
                    /\ \A j \in frames'[i].minted + 1..M + 1 :
                         \/ minted'[j] \in owned'
                         \/ \E k \in frames'[i].moved + 1..Still : moved[k] = minted'[j]
  BY <1>1, <1>2 DEF Minted
<1>4. CASE i = L + 1
  <2>1. frames'[i].minted = M
    BY <1>2, <1>4
  <2>2. \A j \in M + 1..M + 1 : j = M + 1
    BY <1>1
  <2> QED
    BY <1>1, <2>1, <2>2
<1>5. CASE i # L + 1
  <2>1. i \in 1..L /\ frames'[i] = frames[i] /\ frames[i].minted \in Nat
    BY <1>2, <1>3, <1>5
  <2>2. \A j \in frames[i].minted + 1..M + 1 : j = M + 1 \/ (j \in frames[i].minted + 1..M /\ j \in 1..M)
    BY <1>1, <2>1
  <2>3. /\ \A j, k \in frames[i].minted + 1..M : minted[j] = minted[k] => j = k
        /\ \A j \in frames[i].minted + 1..M :
             \/ minted[j] \in owned
             \/ \E k \in frames[i].moved + 1..Still : moved[k] = minted[j]
    BY <1>2, <2>1 DEF Minted, L, M
  <2>4. \A j, k \in frames[i].minted + 1..M + 1 : minted'[j] = minted'[k] => j = k
    BY <1>1, <2>1, <2>2, <2>3
  <2>5. \A j \in frames[i].minted + 1..M + 1 :
          \/ minted'[j] \in owned'
          \/ \E k \in frames[i].moved + 1..Still : moved[k] = minted'[j]
    BY <1>1, <2>2, <2>3
  <2> QED
    BY <2>1, <2>4, <2>5
<1> QED
  BY <1>4, <1>5

LEMMA MintedStep ==
  ASSUME Arena, Arena', Nesting, Nesting', Taken, Minted, frames # <<>> \/ frames' # <<>> => InScope
  PROVE  Minted'
<1>1. CASE frames' = <<>>
  <2>1. Len(frames') = 0
    BY <1>1, EmptyNext DEF Arena, IInv
  <2> QED
    BY <2>1 DEF Minted
<1>2. CASE frames' # <<>>
  <2>1. Quiet => frames # <<>>
    BY <1>2 DEF Quiet, Stays, Throwing, Turns, Runs, Patches, Drops, Buries, SameScopes
  <2>2. Quiet => Minted'
    BY <2>1, QuietMinted
  <2> QED
    BY <1>2, <2>2, FreesMinted, GivesBackMinted, PlacesMinted, EndsMinted, OpensMinted, MintsMinted DEF InScope, Quiet
<1> QED
  BY <1>1, <1>2

-----------------------------------------------------------------------------
(* What a scope found when it opened.                                      *)

LEMMA OutlivesKept ==
  ASSUME NEW m, NEW v, NEW K, NEW C, Outlives(m, v, K, C), C \subseteq counted',
         \A x \in K : count'[x] > 0,
         \A x \in K \cap owned : x \in owned' \/ \E k \in v + 1..Still' : moved'[k] = x,
         \A k \in v + 1..Still : moved[k] \in owned' \/ \E l \in v + 1..Still' : moved'[l] = moved[k],
         \A q \in C : words'[q] = words[q],
         \A p \in C : count[p[1]] = 0 /\ p[1] \notin dead /\ chunkOf[p[1]] # 0 =>
                        count'[p[1]] = 0 /\ p[1] \notin dead' /\ chunkOf'[p[1]] # 0,
         \A j \in 1..v : moved'[j] = moved[j],
         \A j \in m + 1..Len(minted') : minted'[j] \notin K
  PROVE  Outlives(m, v, K, C)'
<1>1. ASSUME NEW x \in K
      PROVE  \/ x \in owned'
             \/ \E k \in v + 1..Still' : moved'[k] = x
             \/ \E q \in C : words'[q] = x
  <2>1. \/ x \in owned
        \/ \E k \in v + 1..Still : moved[k] = x
        \/ \E q \in C : words[q] = x
    BY DEF Outlives
  <2> QED
    BY <2>1
<1>2. \A p \in C : p[1] \in K \/ (count'[p[1]] = 0 /\ p[1] \notin dead' /\ chunkOf'[p[1]] # 0)
  BY DEF Outlives
<1>3. \A j \in 1..v : moved'[j] \in K
  BY DEF Outlives
<1> QED
  BY <1>1, <1>2, <1>3 DEF Outlives

LEMMA SameOpened ==
  ASSUME Arena, Opened, SameScopes,
         \A m, v \in Nat : \A K \in SUBSET Records, C \in SUBSET counted :
           m <= Top.minted /\ v <= Top.moved /\ Outlives(m, v, K, C) => Outlives(m, v, K, C)' /\ C \subseteq counted'
  PROVE  Opened'
<1> SUFFICES ASSUME NEW i \in 1..Len(frames), frames[i].src = Nil
             PROVE  Outlived(frames[i].minted, frames[i].moved)'
  BY DEF Opened, SameScopes
<1>1. Outlived(frames[i].minted, frames[i].moved)
  BY DEF Opened
<1>2. PICK m \in Nat : m = frames[i].minted /\ m <= Top.minted
  BY ArenaFacts, ScopeFacts
<1>3. PICK v \in Nat : v = frames[i].moved /\ v <= Top.moved
  BY ArenaFacts, ScopeFacts
<1>4. PICK K \in SUBSET Records, C \in SUBSET counted : Outlives(m, v, K, C)
  BY <1>1, <1>2, <1>3 DEF Outlived
<1>5. Outlives(m, v, K, C)' /\ C \subseteq counted'
  BY <1>2, <1>3, <1>4
<1>6. frames'[i].minted = m /\ frames'[i].moved = v
  BY <1>2, <1>3 DEF SameScopes
<1>7. Outlives(frames[i].minted, frames[i].moved, K, C)'
  BY <1>5, <1>6 DEF Outlives
<1> QED
  BY <1>5, <1>7 DEF Outlived

LEMMA StillOpened ==
  ASSUME Arena, Arena', Nesting, Opened, frames # <<>>,
         \/ Stays /\ call' = call
         \/ Throwing \/ Turns
         \/ \E d \in Records : Buries(d)
  PROVE  Opened'
<1>1. SameScopes /\ Still' = Still /\ UNCHANGED <<owned, minted, moved>>
  BY QuietLists DEF Quiet
<1>2. UNCHANGED <<count, words, counted, chunkOf>> /\ dead' \subseteq dead
  BY DEF Stays, Throwing, Turns, Buries
<1>3. ASSUME NEW m \in Nat, NEW v \in Nat, NEW K, NEW C \in SUBSET counted, Outlives(m, v, K, C)
      PROVE  Outlives(m, v, K, C)'
  BY <1>1, <1>2, <1>3 DEF Outlives
<1> QED
  BY <1>1, <1>2, <1>3, SameOpened

LEMMA RunsOpened ==
  ASSUME Arena, Arena', Nesting, Opened, NEW p \in Places, NEW u \in Records, Runs(p, u)
  PROVE  Opened'
<1>1. SameScopes /\ Still' = Still /\ UNCHANGED <<owned, minted, moved>>
  BY QuietLists DEF Quiet, Runs, SameScopes
<1>2. /\ p \notin counted /\ count' = [count EXCEPT ![u] = 1] /\ words' = [words EXCEPT ![p] = u]
      /\ counted' = counted \cup {p} /\ dead' = dead /\ Alloc(u)
  BY DEF Runs
<1>3. /\ count \in [Records -> Nat] /\ words \in [Places -> Records \cup {Nil}] /\ counted \subseteq Places
      /\ chunkOf[u] = 0 /\ \A y \in Records : y # u => chunkOf'[y] = chunkOf[y]
      /\ \A q \in Places : q[1] \in Records
  BY <1>2, ArenaFacts, AllocFresh DEF Places
<1>4. ASSUME NEW m \in Nat, NEW v \in Nat, NEW K \in SUBSET Records, NEW C \in SUBSET counted, Outlives(m, v, K, C)
      PROVE  Outlives(m, v, K, C)' /\ C \subseteq counted'
  <2>1. C \subseteq counted' /\ \A q \in C : words'[q] = words[q]
    BY <1>2, <1>3
  <2>2. \A x \in K : count'[x] > 0
    BY <1>2, <1>3, <1>4 DEF Outlives
  <2>3. \A q \in C : count[q[1]] = 0 /\ q[1] \notin dead /\ chunkOf[q[1]] # 0 =>
                       count'[q[1]] = 0 /\ q[1] \notin dead' /\ chunkOf'[q[1]] # 0
    BY <1>2, <1>3
  <2>4. \A j \in m + 1..Len(minted) : minted[j] \notin K
    BY <1>4 DEF Outlives
  <2> QED
    BY <1>1, <1>4, <2>1, <2>2, <2>3, <2>4, OutlivesKept
<1> QED
  BY <1>1, <1>4, SameOpened

LEMMA PlacesOpened ==
  ASSUME Arena, Arena', Nesting, Opened, NEW p \in Places, NEW x \in Records, Places1(p, x)
  PROVE  Opened'
<1>1. /\ SameScopes /\ p \notin counted /\ count[x] > 0
      /\ words' = [words EXCEPT ![p] = x] /\ counted' = counted \cup {p}
      /\ Still = Len(moved) /\ Still' = Len(moved') /\ UNCHANGED <<dead, chunkOf, minted>>
      /\ \/ /\ x \in owned /\ owned' = owned \ {x} /\ count' = count
            /\ Len(moved') = Len(moved) + 1 /\ moved'[Len(moved) + 1] = x
            /\ \A j \in 1..Len(moved) : moved'[j] = moved[j]
         \/ /\ owned' = owned /\ moved' = moved /\ count' = [count EXCEPT ![x] = @ + 1]
  BY PlacesLists
<1>2. /\ count \in [Records -> Nat] /\ words \in [Places -> Records \cup {Nil}] /\ counted \subseteq Places
      /\ \A q \in Places : q[1] \in Records
      /\ Len(moved) \in Nat /\ frames # <<>> /\ Top.moved <= Len(moved) /\ Top.moved \in Nat
  BY <1>1, ArenaFacts, ScopeFacts DEF Places, SameScopes
<1>3. ASSUME NEW m \in Nat, NEW v \in Nat, v <= Top.moved,
             NEW K \in SUBSET Records, NEW C \in SUBSET counted, Outlives(m, v, K, C)
      PROVE  Outlives(m, v, K, C)' /\ C \subseteq counted'
  <2>1. C \subseteq counted' /\ \A q \in C : words'[q] = words[q]
    BY <1>1, <1>2
  <2>2. /\ \A y \in K : count'[y] > 0
        /\ \A q \in C : count[q[1]] = 0 => count'[q[1]] = 0
    BY <1>1, <1>2, <1>3 DEF Outlives
  <2>3. \A j \in 1..v : moved'[j] = moved[j]
    BY <1>1, <1>2, <1>3
  <2>4. \A k \in v + 1..Still : \E l \in v + 1..Still' : moved'[l] = moved[k]
    BY <1>1, <1>2
  <2>5. \A y \in K \cap owned : y \in owned' \/ \E k \in v + 1..Still' : moved'[k] = y
    <3>1. CASE owned' = owned
      BY <3>1
    <3>2. CASE /\ x \in owned /\ owned' = owned \ {x}
               /\ Len(moved') = Len(moved) + 1 /\ moved'[Len(moved) + 1] = x
      <4>1. Len(moved) + 1 \in v + 1..Still'
        BY <1>1, <1>2, <1>3, <3>2
      <4> QED
        BY <3>2, <4>1
    <3> QED
      BY <1>1, <3>1, <3>2
  <2>6. \A j \in m + 1..Len(minted') : minted'[j] \notin K
    BY <1>1, <1>3 DEF Outlives
  <2>7. \A q \in C : count[q[1]] = 0 /\ q[1] \notin dead /\ chunkOf[q[1]] # 0 =>
                       count'[q[1]] = 0 /\ q[1] \notin dead' /\ chunkOf'[q[1]] # 0
    BY <1>1, <2>2
  <2> QED
    BY <1>3, <2>1, <2>2, <2>3, <2>4, <2>5, <2>6, <2>7, OutlivesKept
<1> QED
  BY <1>1, <1>3, SameOpened

LEMMA GivesBackOpened ==
  ASSUME Arena, Arena', Nesting, Opened, GivesBack
  PROVE  Opened'
<1> DEFINE x == moved[Still]
<1>1. /\ SameScopes /\ Still' = Still - 1 /\ Still \in Top.moved + 1..Len(moved)
      /\ x \in Records /\ count[x] > 0 /\ owned' = owned \cup {x} /\ count' = [count EXCEPT ![x] = @ + 1]
      /\ UNCHANGED <<words, counted, dead, chunkOf, minted, moved>>
  BY GivesBackLists
<1>2. /\ count \in [Records -> Nat] /\ counted \subseteq Places /\ \A q \in Places : q[1] \in Records
      /\ Len(moved) \in Nat /\ frames # <<>> /\ Top.moved \in Nat
  BY <1>1, ArenaFacts, ScopeFacts DEF Places, SameScopes
<1>3. ASSUME NEW m \in Nat, NEW v \in Nat, v <= Top.moved,
             NEW K \in SUBSET Records, NEW C \in SUBSET counted, Outlives(m, v, K, C)
      PROVE  Outlives(m, v, K, C)' /\ C \subseteq counted'
  <2>1. C \subseteq counted' /\ \A q \in C : words'[q] = words[q]
    BY <1>1
  <2>2. /\ \A y \in K : count'[y] > 0
        /\ \A q \in C : count[q[1]] = 0 => count'[q[1]] = 0
    BY <1>1, <1>2, <1>3 DEF Outlives
  <2>3. \A k \in v + 1..Still : k = Still \/ k \in v + 1..Still'
    BY <1>1, <1>2
  <2>4. \A k \in v + 1..Still : moved[k] \in owned' \/ \E l \in v + 1..Still' : moved'[l] = moved[k]
    BY <1>1, <2>3
  <2>5. \A j \in m + 1..Len(minted') : minted'[j] \notin K
    BY <1>1, <1>3 DEF Outlives
  <2>6. \A q \in C : count[q[1]] = 0 /\ q[1] \notin dead /\ chunkOf[q[1]] # 0 =>
                       count'[q[1]] = 0 /\ q[1] \notin dead' /\ chunkOf'[q[1]] # 0
    BY <1>1, <2>2
  <2>7. (\A y \in K \cap owned : y \in owned') /\ \A j \in 1..v : moved'[j] = moved[j]
    BY <1>1
  <2> QED
    BY <1>3, <2>1, <2>2, <2>4, <2>5, <2>6, <2>7, OutlivesKept
<1> QED
  BY <1>1, <1>3, SameOpened

LEMMA FreesOpened ==
  ASSUME Arena, Arena', Nesting, Minted, Opened, Frees
  PROVE  Opened'
<1> DEFINE x == minted[Built]
<1>1. /\ SameScopes /\ Still' = Still /\ Built \in Top.minted + 1..Len(minted)
      /\ x \in Records /\ x \in owned /\ owned' = owned \ {x} /\ count' = Dropped(count, x)
      /\ dead' = Released(count, x) /\ UNCHANGED <<words, counted, chunkOf, minted, moved>>
  BY FreesLists
<1>2. /\ count \in [Records -> Nat] /\ counted \subseteq Places /\ \A q \in Places : q[1] \in Records
      /\ Len(minted) \in Nat /\ frames # <<>> /\ Top.minted \in Nat /\ count[x] > 0
  BY <1>1, ArenaFacts, ScopeFacts DEF Places, SameScopes
<1>3. \A y \in Records : y # x => count'[y] = count[y] /\ (y \in dead' => y \in dead)
  BY <1>1, <1>2 DEF Dropped, Released
<1>4. ASSUME NEW m \in Nat, m <= Top.minted, NEW v \in Nat,
             NEW K \in SUBSET Records, NEW C \in SUBSET counted, Outlives(m, v, K, C)
      PROVE  Outlives(m, v, K, C)' /\ C \subseteq counted'
  <2>1. x \notin K
    <3>1. Built \in m + 1..Len(minted)
      BY <1>1, <1>2, <1>4
    <3> QED
      BY <1>4, <3>1 DEF Outlives
  <2>2. \A y \in K : count'[y] > 0
    BY <1>3, <1>4, <2>1 DEF Outlives
  <2>3. \A q \in C : count[q[1]] = 0 /\ q[1] \notin dead /\ chunkOf[q[1]] # 0 =>
                       count'[q[1]] = 0 /\ q[1] \notin dead' /\ chunkOf'[q[1]] # 0
    <3>1. \A q \in C : count[q[1]] = 0 => q[1] # x /\ q[1] \in Records
      BY <1>2
    <3> QED
      BY <1>1, <1>3, <3>1
  <2>4. \A y \in K \cap owned : y \in owned'
    BY <1>1, <2>1
  <2>5. \A j \in m + 1..Len(minted') : minted'[j] \notin K
    BY <1>1, <1>4 DEF Outlives
  <2>6. \A k \in v + 1..Still : \E l \in v + 1..Still' : moved'[l] = moved[k]
    BY <1>1
  <2>7. (\A j \in 1..v : moved'[j] = moved[j]) /\ C \subseteq counted' /\ \A q \in C : words'[q] = words[q]
    BY <1>1
  <2> QED
    BY <1>4, <2>2, <2>3, <2>4, <2>5, <2>6, <2>7, OutlivesKept
<1> QED
  BY <1>1, <1>4, SameOpened

\* Who else holds what a place names is left a count of it when the place drops its own.
LEMMA HeldTwice ==
  ASSUME Arena, CountsExact, NEW p \in counted, NEW x \in Records, words[p] = x,
         x \in owned \/ \E q \in counted \ {p} : words[q] = x
  PROVE  count[x] - 1 > 0
<1> DEFINE H == Holders(x)
           R == H \ {p}
<1>1. /\ count[x] = OwnCount(x) + Cardinality(H) /\ Cardinality(H) \in Nat /\ IsFiniteSet(H)
      /\ OwnCount(x) = (IF x \in owned THEN 1 ELSE 0)
  BY ExactFacts
<1>2. p \in H /\ (x \in owned \/ R # {})
  BY DEF Holders
<1> HIDE DEF H
<1>3. IsFiniteSet(R) /\ Cardinality(R) = Cardinality(H) - 1
  BY <1>1, <1>2, FS_RemoveElement
<1> HIDE DEF R
<1>4. Cardinality(R) \in Nat /\ (R # {} => Cardinality(R) # 0)
  BY <1>3, FS_CardinalityType, FS_EmptySet
<1> QED
  BY <1>1, <1>2, <1>3, <1>4

LEMMA DropsOpened ==
  ASSUME Arena, Arena', Nesting, CountsExact, Opened, frames # <<>>, ~Editing,
         NEW d \in Records, NEW p \in Places, Drops(d, p)
  PROVE  Opened'
<1> DEFINE y == words[p]
<1>1. SameScopes /\ Still' = Still /\ UNCHANGED <<owned, minted, moved>>
  BY QuietLists DEF Quiet
<1>2. /\ d \in dead /\ p \in counted /\ p[1] = d /\ counted' = counted \ {p}
      /\ count' = Dropped(count, y) /\ dead' = Released(count, y) /\ chunkOf' = chunkOf
  BY DEF Drops, PlacesOf
<1>3. /\ count \in [Records -> Nat] /\ counted \subseteq Places /\ y \in Records /\ count[y] > 0 /\ count[d] = 0
      /\ words \in [Places -> Records \cup {Nil}] /\ \A q \in Places : q[1] \in Records
  BY <1>2, ArenaFacts DEF Places
<1>4. \A q \in counted : q # p => words'[q] = words[q]
  BY <1>3 DEF Drops
<1>5. \A z \in Records : z # y => count'[z] = count[z] /\ (z \in dead' => z \in dead)
  BY <1>2, <1>3 DEF Dropped, Released
<1>6. count'[y] = count[y] - 1
  BY <1>2, <1>3 DEF Dropped
<1>7. call.op = "free" /\ Still = Top.moved /\ Top.src = Nil
      /\ Len(frames) \in 1..Len(frames) /\ Top = frames[Len(frames)] /\ Top.moved \in Nat /\ Top.minted \in Nat
  BY <1>2, ArenaFacts, ScopeFacts, ListFacts DEF Nesting, Editing
<1>8. ASSUME NEW m, NEW v, NEW K \in SUBSET Records, NEW C \in SUBSET counted, Outlives(m, v, K, C)
      PROVE  p \notin C
  BY <1>2, <1>3, <1>8 DEF Outlives
<1>9. PICK K0 \in SUBSET Records, C0 \in SUBSET counted : Outlives(Top.minted, Top.moved, K0, C0)
  BY <1>7 DEF Opened, Outlived
<1>10. ASSUME NEW x \in K0 PROVE x \in owned \/ \E q \in counted \ {p} : words[q] = x
  <2>1. \/ x \in owned
        \/ \E k \in Top.moved + 1..Top.moved : moved[k] = x
        \/ \E q \in C0 : words[q] = x
    BY <1>7, <1>9 DEF Outlives
  <2>2. p \notin C0
    BY <1>8, <1>9
  <2> QED
    BY <1>7, <2>1, <2>2
<1>11. ASSUME NEW m \in Nat, NEW v \in Nat, NEW K \in SUBSET Records, NEW C \in SUBSET counted, Outlives(m, v, K, C)
       PROVE  Outlives(m, v, K, C)' /\ C \subseteq counted'
  <2>1. p \notin C
    BY <1>8, <1>11
  <2>2. \A q \in C : q # p /\ q \in counted'
    BY <1>2, <2>1
  <2>3. ASSUME NEW x \in K PROVE count'[x] > 0
    <3>1. count[x] > 0
      BY <1>11 DEF Outlives
    <3>2. CASE x # y
      BY <1>5, <3>1, <3>2
    <3>3. CASE x = y
      <4>1. \/ x \in owned
            \/ \E k \in v + 1..Still : moved[k] = x
            \/ \E q \in C : words[q] = x
        BY <1>11 DEF Outlives
      <4>2. ASSUME NEW k \in v + 1..Still, moved[k] = x PROVE x \in K0
        <5>1. k \in 1..Top.moved
          BY <1>7
        <5> QED
          BY <1>9, <4>2, <5>1 DEF Outlives
      <4>3. x \in owned \/ \E q \in counted \ {p} : words[q] = x
        BY <1>10, <2>1, <4>1, <4>2
      <4>4. count[x] - 1 > 0
        BY <1>2, <3>3, <4>3, HeldTwice
      <4> QED
        BY <1>6, <3>3, <4>4
    <3> QED
      BY <3>2, <3>3
  <2>4. \A q \in C : count[q[1]] = 0 /\ q[1] \notin dead /\ chunkOf[q[1]] # 0 =>
                       count'[q[1]] = 0 /\ q[1] \notin dead' /\ chunkOf'[q[1]] # 0
    <3>1. \A q \in C : count[q[1]] = 0 => q[1] # y /\ q[1] \in Records
      BY <1>3
    <3> QED
      BY <1>2, <1>5, <3>1
  <2>5. \A j \in m + 1..Len(minted') : minted'[j] \notin K
    BY <1>1, <1>11 DEF Outlives
  <2>6. \A k \in v + 1..Still : \E l \in v + 1..Still' : moved'[l] = moved[k]
    BY <1>1
  <2>7. (\A j \in 1..v : moved'[j] = moved[j]) /\ C \subseteq counted' /\ \A q \in C : words'[q] = words[q]
    BY <1>1, <1>4, <2>2
  <2> QED
    BY <1>1, <1>11, <2>3, <2>4, <2>5, <2>6, <2>7, OutlivesKept
<1> QED
  BY <1>1, <1>11, SameOpened

\* In an edit no build is open.
LEMMA EditingOpened ==
  ASSUME Arena, Arena', Nesting, SameScopes, Editing
  PROVE  Opened'
<1>1. Len(frames') = 1 /\ frames'[1].src # Nil
  <2>1. Len(frames) \in 1..Len(frames) /\ Top = frames[Len(frames)] /\ Top.src # Nil
    BY ArenaFacts, ScopeFacts DEF Editing
  <2>2. Len(frames) = 1
    BY <2>1 DEF Nesting
  <2> QED
    BY <2>1, <2>2 DEF SameScopes
<1> QED
  BY <1>1 DEF Opened

LEMMA EndsOpened ==
  ASSUME Arena, Arena', Nesting, Taken, Minted, Opened, Finishes \/ Leaves \/ Refuses, frames' # <<>>
  PROVE  Opened'
<1>1. /\ Still' = Still /\ Len(moved') = Still /\ Len(minted') = Built
      /\ \A j \in 1..Still : moved'[j] = moved[j]
      /\ \A j \in 1..Built : minted'[j] = minted[j]
      /\ \A i \in 1..Len(frames') : i \in 1..Len(frames) /\ frames'[i] = frames[i]
      /\ UNCHANGED <<count, owned, words, counted, dead, chunkOf>>
  BY EndsLists
<1>2. Still \in Nat /\ Built \in Nat /\ Built <= Len(minted) /\ Len(minted) \in Nat
  BY ListFacts, ArenaFacts, ScopeFacts
<1>3. \A i \in 1..Len(frames') : frames'[i].moved <= Len(moved')
  BY DEF Arena, IInv, TypeInv, Marks
<1> SUFFICES ASSUME NEW i \in 1..Len(frames'), frames'[i].src = Nil
             PROVE  Outlived(frames[i].minted, frames[i].moved)'
  BY DEF Opened
<1>4. i \in 1..Len(frames) /\ frames'[i] = frames[i] /\ frames[i].src = Nil
  BY <1>1
<1>5. PICK m \in Nat : m = frames[i].minted
  BY <1>4, ArenaFacts, ScopeFacts
<1>6. PICK v \in Nat : v = frames[i].moved /\ v <= Still
  BY <1>1, <1>3, <1>4, ArenaFacts, ScopeFacts
<1>7. PICK K \in SUBSET Records, C \in SUBSET counted : Outlives(m, v, K, C)
  BY <1>4, <1>5, <1>6 DEF Opened, Outlived
<1>8. \A k \in v + 1..Still : moved'[k] = moved[k]
  BY <1>1, <1>2
<1>9. \A j \in 1..v : moved'[j] = moved[j]
  BY <1>1, <1>2, <1>6
<1>10. \A j \in m + 1..Len(minted') : minted'[j] \notin K
  <2>1. \A j \in m + 1..Built : minted'[j] = minted[j] /\ j \in m + 1..Len(minted)
    BY <1>1, <1>2
  <2> QED
    BY <1>1, <1>7, <2>1 DEF Outlives
<1>11. \A x \in K : count'[x] > 0
  BY <1>1, <1>7 DEF Outlives
<1>12. Outlives(m, v, K, C)'
  BY <1>1, <1>7, <1>8, <1>9, <1>10, <1>11, OutlivesKept
<1>13. Outlives(frames[i].minted, frames[i].moved, K, C)'
  BY <1>4, <1>5, <1>6, <1>12 DEF Outlives
<1> QED
  BY <1>1, <1>13 DEF Outlived

\* What a scope finds when it opens.
LEMMA FoundOpening ==
  ASSUME Arena, Nesting, Taken, CountsExact, ~Editing, Still = Len(moved), dead = {}
  PROVE  Outlives(Len(minted), Len(moved), {x \in Records : count[x] > 0}, counted)
<1> DEFINE K == {x \in Records : count[x] > 0}
<1>1. /\ Len(minted) \in Nat /\ Len(moved) \in Nat /\ counted \subseteq Places /\ count \in [Records -> Nat]
      /\ \A q \in Places : q[1] \in Records
      /\ \A j \in 1..Len(moved) : moved[j] \in Records
  BY ArenaFacts, ScopeFacts DEF Places
<1>2. ASSUME NEW x \in K PROVE x \in owned \/ \E q \in counted : words[q] = x
  <2>1. /\ count[x] = OwnCount(x) + Cardinality(Holders(x))
        /\ OwnCount(x) = (IF x \in owned THEN 1 ELSE 0)
    BY ExactFacts
  <2>2. CASE Holders(x) = {}
    <3>1. Cardinality(Holders(x)) = 0
      BY <2>2, FS_EmptySet
    <3> QED
      BY <1>2, <2>1, <3>1
  <2> QED
    BY <2>2 DEF Holders
<1>3. ASSUME NEW p \in counted PROVE p[1] \in K \/ (count[p[1]] = 0 /\ p[1] \notin dead /\ chunkOf[p[1]] # 0)
  <2>1. p[1] \in Records /\ count[p[1]] \in Nat /\ words[p] # Nil
    BY <1>1, <1>3, ArenaFacts, ConstantsAssumption
  <2>2. chunkOf[p[1]] # 0
    BY <1>1, <1>3, <2>1 DEF Arena, IInv, CoverInv, Placement, PlacedNames
  <2> QED
    BY <2>1, <2>2
<1>4. \A j \in 1..Len(moved) : moved[j] \in K
  BY <1>1, MovedLive
<1>5. \A j \in Len(minted) + 1..Len(minted) : minted[j] \notin K
  BY <1>1
<1>6. \A x \in K : count[x] > 0
  OBVIOUS
<1> HIDE DEF K
<1>7. Outlives(Len(minted), Len(moved), K, counted)
  BY <1>2, <1>3, <1>4, <1>5, <1>6 DEF Outlives
<1> QED
  BY <1>7 DEF K

\* What a scope found is not what a scope inside it mints.
LEMMA OpensOutlives ==
  ASSUME Arena, Arena', Nesting, Taken, Minted, Opens,
         UNCHANGED <<count, owned, chunkOf, minted>> \/ (\E r \in Records : Mints(r)),
         NEW m \in Nat, m <= Len(minted), NEW v \in Nat,
         NEW K \in SUBSET Records, NEW C \in SUBSET counted, Outlives(m, v, K, C)
  PROVE  Outlives(m, v, K, C)'
<1>1. /\ Still' = Still /\ moved' = moved /\ dead' = dead /\ words' = words /\ counted' = counted
      /\ count \in [Records -> Nat] /\ counted \subseteq Places /\ \A q \in Places : q[1] \in Records
  BY OpensLists, ArenaFacts DEF Opens, Places
<1>2. CASE UNCHANGED <<count, owned, chunkOf, minted>>
  BY <1>1, <1>2 DEF Outlives
<1>3. ASSUME NEW r \in Records, Mints(r) PROVE Outlives(m, v, K, C)'
  <2>1. /\ count[r] = 0 /\ chunkOf[r] = 0 /\ count' = [count EXCEPT ![r] = 1] /\ owned' = owned \cup {r} /\ Alloc(r)
        /\ Len(minted') = Len(minted) + 1 /\ minted'[Len(minted) + 1] = r /\ Len(minted) \in Nat
        /\ \A j \in 1..Len(minted) : minted'[j] = minted[j]
    BY <1>3, MintsFresh DEF Mints
  <2>2. \A y \in Records : y # r => chunkOf'[y] = chunkOf[y] /\ count'[y] = count[y]
    BY <1>1, <2>1, ArenaFacts, AllocFresh
  <2>3. r \notin K /\ \A x \in K : count'[x] > 0
    BY <1>1, <2>1, <2>2, <1>3 DEF Outlives
  <2>4. \A q \in C : count[q[1]] = 0 /\ q[1] \notin dead /\ chunkOf[q[1]] # 0 =>
                       count'[q[1]] = 0 /\ q[1] \notin dead' /\ chunkOf'[q[1]] # 0
    BY <1>1, <2>1, <2>2
  <2>5. \A j \in m + 1..Len(minted') : minted'[j] \notin K
    <3>1. \A j \in m + 1..Len(minted') : j = Len(minted) + 1 \/ (j \in m + 1..Len(minted) /\ j \in 1..Len(minted))
      BY <2>1
    <3>2. \A j \in m + 1..Len(minted) : minted[j] \notin K
      BY DEF Outlives
    <3> QED
      BY <2>1, <2>3, <3>1, <3>2
  <2> QED
    BY <1>1, <2>1, <2>3, <2>4, <2>5, OutlivesKept
<1> QED
  BY <1>2, <1>3

LEMMA OpensOpened ==
  ASSUME Arena, Arena', Nesting, Taken, Minted, CountsExact, Opened, Opens,
         UNCHANGED <<count, owned, chunkOf, minted>> \/ (\E r \in Records : Mints(r))
  PROVE  Opened'
<1> DEFINE L == Len(frames)
<1>1. /\ Still = Len(moved) /\ moved' = moved /\ dead = {} /\ ~Editing /\ counted' = counted
      /\ Top'.minted = Len(minted) /\ Top'.moved = Len(moved) /\ L \in Nat
      /\ Len(frames') = L + 1 /\ Top' = frames'[L + 1]
      /\ \A i \in 1..L : frames'[i] = frames[i]
      /\ Len(minted) \in Nat /\ Len(moved) \in Nat
  BY OpensLists, ArenaFacts, ScopeFacts DEF Opens
<1> SUFFICES ASSUME NEW i \in 1..(L + 1), frames'[i].src = Nil
             PROVE  Outlived(frames[i].minted, frames[i].moved)'
  BY <1>1 DEF Opened
<1>2. ASSUME NEW m \in Nat, m <= Len(minted), NEW v \in Nat, m = frames'[i].minted, v = frames'[i].moved,
             NEW K \in SUBSET Records, NEW C \in SUBSET counted, Outlives(m, v, K, C)
      PROVE  Outlived(frames[i].minted, frames[i].moved)'
  <2>1. Outlives(m, v, K, C)'
    BY <1>2, OpensOutlives
  <2>2. Outlives(frames[i].minted, frames[i].moved, K, C)'
    BY <1>2, <2>1 DEF Outlives
  <2> QED
    BY <1>1, <2>2 DEF Outlived
<1>3. CASE i = L + 1
  <2> DEFINE K == {x \in Records : count[x] > 0}
  <2>1. Outlives(Len(minted), Len(moved), K, counted)
    BY <1>1, FoundOpening
  <2>2. frames'[i].minted = Len(minted) /\ frames'[i].moved = Len(moved) /\ K \in SUBSET Records
    BY <1>1, <1>3
  <2> HIDE DEF K
  <2> QED
    BY <1>1, <1>2, <2>1, <2>2
<1>4. CASE i # L + 1
  <2>1. i \in 1..L /\ frames'[i] = frames[i] /\ frames[i].src = Nil
    BY <1>1, <1>4
  <2>2. frames[i].minted \in Nat /\ frames[i].moved \in Nat /\ frames[i].minted <= Len(minted)
    BY <2>1, ArenaFacts, ScopeFacts
  <2>3. PICK K \in SUBSET Records, C \in SUBSET counted : Outlives(frames[i].minted, frames[i].moved, K, C)
    BY <2>1 DEF Opened, Outlived
  <2> QED
    BY <1>2, <2>1, <2>2, <2>3
<1> QED
  BY <1>3, <1>4

LEMMA OpenedStep ==
  ASSUME Arena, Arena', Nesting, Nesting', Taken, Minted, CountsExact, Opened,
         frames # <<>> \/ frames' # <<>> => InScope
  PROVE  Opened'
<1>1. CASE frames' = <<>>
  <2>1. Len(frames') = 0
    BY <1>1, EmptyNext DEF Arena, IInv
  <2> QED
    BY <2>1 DEF Opened
<1>2. CASE frames' # <<>>
  <2>1. InScope
    BY <1>2
  <2>2. CASE (Opens /\ UNCHANGED <<count, owned, chunkOf, minted>>) \/ (\E r \in Records : Mints(r))
    <3>1. Opens
      BY <2>2 DEF Mints
    <3> QED
      BY <2>2, <3>1, OpensOpened
  <2>3. ASSUME NEW d \in Records, NEW p \in Places, Drops(d, p) PROVE Opened'
    <3>1. SameScopes /\ frames # <<>>
      BY <1>2, <2>3, SameFrames DEF Drops
    <3> QED
      BY <2>3, <3>1, DropsOpened, EditingOpened
  <2>4. ASSUME NEW p \in Places, Patches(p) PROVE Opened'
    BY <2>4, EditingOpened DEF Patches
  <2>5. ASSUME \/ Stays /\ call' = call
               \/ Throwing \/ Turns
               \/ \E d \in Records : Buries(d)
        PROVE  Opened'
    <3>1. frames # <<>>
      BY <1>2, <2>5 DEF Stays, Throwing, Turns, Buries
    <3> QED
      BY <2>5, <3>1, StillOpened
  <2>6. ASSUME Finishes \/ Leaves \/ Refuses PROVE Opened'
    BY <1>2, <2>6, EndsOpened
  <2>7. ASSUME NEW p \in Places, NEW x \in Records, Places1(p, x) \/ Runs(p, x) PROVE Opened'
    BY <2>7, PlacesOpened, RunsOpened
  <2> QED
    BY <2>1, <2>2, <2>3, <2>4, <2>5, <2>6, <2>7, GivesBackOpened, FreesOpened DEF InScope
<1> QED
  BY <1>1, <1>2

-----------------------------------------------------------------------------
(* The counts places took.                                                 *)

LEMMA EditingStays ==
  ASSUME Arena, Arena', SameScopes
  PROVE  Editing' <=> Editing
BY SameTop DEF Editing

LEMMA QuietTaken ==
  ASSUME Arena, Arena', Nesting, Nesting', Taken, Opened', frames # <<>>, Quiet
  PROVE  Taken'
<1>1. SameScopes /\ Still' = Still /\ UNCHANGED <<owned, minted, moved>> /\ (Editing' <=> Editing)
  BY QuietLists, EditingStays
<1> SUFFICES ASSUME ~Editing, NEW j \in 1..Still PROVE count'[moved[j]] > 0
  BY <1>1 DEF Taken
<1>2. /\ count \in [Records -> Nat] /\ count[moved[j]] > 0 /\ moved[j] \in Records
  <2>1. j \in 1..Len(moved)
    BY ListFacts, ArenaFacts, ScopeFacts
  <2> QED
    BY <2>1, ArenaFacts, ScopeFacts, MovedLive
<1>3. ASSUME NEW d \in Records, NEW p \in Places, Drops(d, p) PROVE count'[moved[j]] > 0
  <2>1. /\ frames' # <<>> /\ call'.op = "free" /\ Top'.src = Nil
        /\ Len(frames') \in 1..Len(frames') /\ Top' = frames'[Len(frames')]
    <3>1. frames' # <<>> /\ call'.op = "free"
      BY <1>3, ArenaFacts DEF Drops, Nesting
    <3> QED
      BY <1>1, <3>1, TopNext DEF Editing, Arena, IInv
  <2>2. Still' = Top'.moved
    BY <2>1 DEF Still
  <2>3. PICK i : i = Len(frames')
    OBVIOUS
  <2>4. PICK K \in SUBSET Records, C \in SUBSET counted' : Outlives(frames[i].minted, frames[i].moved, K, C)'
    BY <2>1, <2>3 DEF Opened, Outlived
  <2>5. moved'[j] \in K
    BY <1>1, <2>1, <2>2, <2>3, <2>4 DEF Outlives
  <2> QED
    BY <1>1, <2>4, <2>5 DEF Outlives
<1>4. ASSUME NEW p \in Places, NEW u \in Records, Runs(p, u) PROVE count'[moved[j]] > 0
  BY <1>2, <1>4 DEF Runs
<1>5. ASSUME NEW p \in Places, Patches(p) PROVE FALSE
  BY <1>5 DEF Patches
<1>6. CASE (Stays /\ call' = call) \/ Throwing \/ Turns \/ \E d \in Records : Buries(d)
  BY <1>2, <1>6 DEF Stays, Throwing, Turns, Buries
<1> QED
  BY <1>3, <1>4, <1>5, <1>6 DEF Quiet

LEMMA FreesTaken ==
  ASSUME Arena, Arena', Nesting, Taken, Minted, Frees
  PROVE  Taken'
<1> DEFINE x == minted[Built]
<1>1. /\ SameScopes /\ Still' = Still /\ x \in owned /\ x \in Records
      /\ owned' = owned \ {x} /\ count' = Dropped(count, x) /\ moved' = moved
  BY FreesLists
<1>2. (Editing' <=> Editing) /\ count \in [Records -> Nat]
      /\ \A j \in 1..Still : moved[j] \in Records
  <2>1. \A j \in 1..Still : j \in 1..Len(moved)
    BY ListFacts, ArenaFacts, ScopeFacts
  <2> QED
    BY <1>1, <2>1, EditingStays, ArenaFacts, ScopeFacts
<1> HIDE DEF x
<1>3. \A j \in 1..Still : moved[j] \notin owned' /\ moved[j] # x
  BY <1>1 DEF Taken
<1>4. \A j \in 1..Still : count'[moved[j]] = count[moved[j]]
  BY <1>1, <1>2, <1>3 DEF Dropped
<1>5. ~Editing => \A j \in 1..Still : count[moved[j]] > 0
  BY MovedLive
<1> QED
  BY <1>1, <1>2, <1>3, <1>4, <1>5 DEF Taken

LEMMA GivesBackTaken ==
  ASSUME Arena, Arena', Nesting, Taken, GivesBack
  PROVE  Taken'
<1> DEFINE x == moved[Still]
<1>1. /\ SameScopes /\ Still' = Still - 1 /\ Still \in 1..Len(moved) /\ x \in Records
      /\ owned' = owned \cup {x} /\ count' = [count EXCEPT ![x] = @ + 1] /\ moved' = moved
  BY GivesBackLists
<1>2. /\ (Editing' <=> Editing) /\ count \in [Records -> Nat] /\ Still \in Nat /\ Still \in 1..Still
      /\ \A j \in 1..Still - 1 : j \in 1..Still /\ j # Still /\ j \in 1..Len(moved)
  BY <1>1, EditingStays, ListFacts, ArenaFacts, ScopeFacts
<1>3. \A j \in 1..Still - 1 : moved[j] # x
  BY <1>2 DEF Taken
<1> HIDE DEF x
<1>4. \A j \in 1..Still - 1 : moved[j] \in Records
  BY <1>2, ArenaFacts, ScopeFacts
<1>5. \A j \in 1..Still - 1 : count'[moved[j]] = count[moved[j]]
  BY <1>1, <1>2, <1>3, <1>4
<1>6. ~Editing => \A j \in 1..Still - 1 : count[moved[j]] > 0
  BY <1>2, MovedLive
<1>7. \A j \in 1..Still - 1 : moved[j] \notin owned'
  BY <1>1, <1>2, <1>3 DEF Taken
<1>8. \A j, k \in 1..Still - 1 : moved[j] = moved[k] => j = k
  BY <1>2 DEF Taken
<1> QED
  BY <1>1, <1>2, <1>5, <1>6, <1>7, <1>8 DEF Taken

LEMMA PlacesTaken ==
  ASSUME Arena, Arena', Nesting, Taken, NEW p \in Places, NEW x \in Records, Places1(p, x)
  PROVE  Taken'
<1>1. /\ SameScopes /\ count[x] > 0 /\ Still = Len(moved) /\ Still' = Len(moved')
      /\ \/ /\ x \in owned /\ owned' = owned \ {x} /\ count' = count
            /\ Len(moved') = Len(moved) + 1 /\ moved'[Len(moved) + 1] = x
            /\ \A j \in 1..Len(moved) : moved'[j] = moved[j]
         \/ /\ owned' = owned /\ moved' = moved /\ count' = [count EXCEPT ![x] = @ + 1]
  BY PlacesLists
<1>2. /\ (Editing' <=> Editing) /\ count \in [Records -> Nat] /\ Len(moved) \in Nat
      /\ \A j \in 1..Len(moved) : moved[j] \in Records
      /\ ~Editing => \A j \in 1..Len(moved) : count[moved[j]] > 0
  BY <1>1, EditingStays, ArenaFacts, ScopeFacts, MovedLive
<1>3. CASE owned' = owned /\ moved' = moved /\ count' = [count EXCEPT ![x] = @ + 1]
  <2>1. \A j \in 1..Len(moved) : count[moved[j]] > 0 => count'[moved[j]] > 0
    BY <1>2, <1>3
  <2> QED
    BY <1>1, <1>2, <1>3, <2>1 DEF Taken
<1>4. CASE /\ x \in owned /\ owned' = owned \ {x} /\ count' = count
           /\ Len(moved') = Len(moved) + 1 /\ moved'[Len(moved) + 1] = x
           /\ \A j \in 1..Len(moved) : moved'[j] = moved[j]
  <2>1. \A j \in 1..Still' : j = Len(moved) + 1 \/ j \in 1..Len(moved)
    BY <1>1, <1>2, <1>4
  <2>2. \A j \in 1..Len(moved) : moved'[j] = moved[j] /\ moved[j] \notin owned
    BY <1>1, <1>4 DEF Taken
  <2>3. \A j, k \in 1..Still' : moved'[j] = moved'[k] => j = k
    BY <1>1, <1>4, <2>1, <2>2 DEF Taken
  <2>4. \A j \in 1..Still' : moved'[j] \notin owned'
    BY <1>4, <2>1, <2>2
  <2>5. ~Editing => \A j \in 1..Still' : count'[moved'[j]] > 0
    BY <1>1, <1>2, <1>4, <2>1
  <2> QED
    BY <1>2, <2>3, <2>4, <2>5 DEF Taken
<1> QED
  BY <1>1, <1>3, <1>4

LEMMA EndsTaken ==
  ASSUME Arena, Arena', Nesting, Taken, Minted, Finishes \/ Leaves \/ Refuses, frames' # <<>>
  PROVE  Taken'
<1>1. /\ ~Editing /\ Still' = Still /\ count' = count /\ owned' = owned
      /\ \A j \in 1..Still : moved'[j] = moved[j]
  BY EndsLists
<1>2. \A j \in 1..Still : count[moved[j]] > 0
  BY <1>1, MovedLive
<1> QED
  BY <1>1, <1>2 DEF Taken

LEMMA OpensTaken ==
  ASSUME Arena, Arena', Nesting, Taken, Minted, Opens,
         UNCHANGED <<count, owned, chunkOf, minted>> \/ (\E r \in Records : Mints(r))
  PROVE  Taken'
<1>1. /\ Still = Len(moved) /\ Still' = Still /\ moved' = moved /\ ~Editing
      /\ count \in [Records -> Nat] /\ Len(moved) \in Nat
      /\ \A j \in 1..Len(moved) : moved[j] \in Records
  BY OpensLists, ArenaFacts, ScopeFacts
<1>2. \A j \in 1..Still : count[moved[j]] > 0
  BY <1>1, MovedLive
<1>3. CASE UNCHANGED <<count, owned, chunkOf, minted>>
  BY <1>1, <1>2, <1>3 DEF Taken
<1>4. ASSUME NEW r \in Records, Mints(r) PROVE Taken'
  <2>1. owned' = owned \cup {r} /\ count' = [count EXCEPT ![r] = 1] /\ \A j \in 1..Len(moved) : moved[j] # r
    BY <1>4, MintsFresh DEF Mints
  <2>2. \A j \in 1..Still : count'[moved[j]] = count[moved[j]] /\ (moved[j] \in owned' => moved[j] \in owned)
    BY <1>1, <2>1
  <2> QED
    BY <1>1, <1>2, <2>2 DEF Taken
<1> QED
  BY <1>3, <1>4

LEMMA TakenStep ==
  ASSUME Arena, Arena', Nesting, Nesting', Taken, Minted, Opened',
         frames # <<>> \/ frames' # <<>> => InScope
  PROVE  Taken'
<1>1. CASE frames' = <<>>
  <2>1. moved' = <<>> /\ call'.op \notin {"giveback", "free"}
    BY <1>1 DEF Nesting, Arena, IInv, TypeInv, Control
  <2>2. Still' = 0
    BY <2>1, EmptySeq DEF Still
  <2> QED
    BY <1>1, <2>2 DEF Taken
<1>2. CASE frames' # <<>>
  <2>1. InScope
    BY <1>2
  <2>2. CASE (Opens /\ UNCHANGED <<count, owned, chunkOf, minted>>) \/ (\E r \in Records : Mints(r))
    <3>1. Opens
      BY <2>2 DEF Mints
    <3> QED
      BY <2>2, <3>1, OpensTaken
  <2>3. Quiet => frames # <<>>
    BY <1>2 DEF Quiet, Stays, Throwing, Turns, Runs, Patches, Drops, Buries, SameScopes
  <2>4. Quiet => Taken'
    BY <2>3, QuietTaken
  <2>5. Finishes \/ Leaves \/ Refuses => Taken'
    BY <1>2, EndsTaken
  <2> QED
    BY <2>1, <2>2, <2>4, <2>5, FreesTaken, GivesBackTaken, PlacesTaken DEF InScope, Quiet
<1> QED
  BY <1>1, <1>2

-----------------------------------------------------------------------------
(* No count is lost.                                                       *)

ScopeInv == Nesting /\ Drafts /\ Taken /\ Minted /\ Opened /\ CountsExact

LEMMA InitScope == Init => ScopeInv
<1> SUFFICES ASSUME Init PROVE ScopeInv
  OBVIOUS
<1>1. /\ frames = <<>> /\ moved = <<>> /\ minted = <<>> /\ counted = {} /\ owned = {}
      /\ call.op = "none" /\ call.copies = {} /\ Len(frames) = 0 /\ Len(moved) = 0
      /\ \A x \in Records : count[x] = 0
  BY NoCallType, EmptySeq DEF Init, NoCall
<1>2. Still = 0
  BY <1>1 DEF Still
<1>3. Nesting /\ Drafts
  BY <1>1 DEF Nesting, Drafts, InBuild
<1>4. Taken /\ Minted /\ Opened
  BY <1>1, <1>2 DEF Taken, Minted, Opened
<1>5. ASSUME NEW x \in Records PROVE count[x] = OwnCount(x) + Cardinality(Holders(x))
  <2>1. Holders(x) = {} /\ OwnCount(x) = 0
    BY <1>1 DEF Holders, OwnCount
  <2> QED
    BY <1>1, <2>1, FS_EmptySet
<1> QED
  BY <1>3, <1>4, <1>5 DEF ScopeInv, CountsExact

LEMMA ScopeStep ==
  ASSUME Arena, Arena', ~InterceptorsWrite, ScopeInv, [Next]_vars
  PROVE  ScopeInv'
<1>1. Nesting' /\ Drafts' /\ (frames # <<>> \/ frames' # <<>> => InScope)
  BY ScopesStep DEF ScopeInv
<1>2. CountsExact'
  BY ExactStep DEF ScopeInv
<1>3. Minted'
  BY <1>1, MintedStep DEF ScopeInv
<1>4. Opened'
  BY <1>1, OpenedStep DEF ScopeInv
<1>5. Taken'
  BY <1>1, <1>4, TakenStep DEF ScopeInv
<1> QED
  BY <1>1, <1>2, <1>3, <1>4, <1>5 DEF ScopeInv

LEMMA ArenaHolds == Spec => []Arena
<1>1. Init => BuildsInner
  <2> SUFFICES ASSUME Init PROVE BuildsInner
    OBVIOUS
  <2>1. frames = <<>> /\ call.op = "none"
    BY NoCallType DEF Init
  <2> QED
    BY <2>1, EmptySeq DEF BuildsInner
<1>2. IInv /\ BuildsInner /\ [Next]_vars => BuildsInner'
  BY BuildsInnerStep DEF IInv
<1>3. IInv /\ BuildsInner => Arena
  BY DEF Arena
<1> QED
  BY <1>1, <1>2, <1>3, IInvHolds, PTL DEF Spec

LEMMA ScopeInvHolds == ASSUME ~InterceptorsWrite PROVE Spec => []ScopeInv
<1>1. Init => ScopeInv
  BY InitScope
<1>2. Arena /\ Arena' /\ ScopeInv /\ [Next]_vars => ScopeInv'
  BY ScopeStep
<1> QED
  BY <1>1, <1>2, ArenaHolds, PTL DEF Spec

\* With interceptors that only build, no count is lost (CountsExact): whatever edits, nested
\* builds that throw, keeps and closes do, a record's counts are its handle's and its places'.
THEOREM ArenaCountsExact == ASSUME ~InterceptorsWrite PROVE Spec => []CountsExact
<1>1. ScopeInv => CountsExact
  BY DEF ScopeInv
<1> QED
  BY <1>1, ScopeInvHolds, PTL

-----------------------------------------------------------------------------
(* What a thrown build gives back.                                         *)

\* Of a scope that began with m records minted, v counts moved and the handles of S theirs:
\* with what is to be given back of the one, and released of the other, the handles have S.
Balanced(m, v, S) ==
  /\ \A x \in Records :
       (x \in S \/ \E j \in m + 1..Built : minted[j] = x) <=>
       (x \in owned \/ \E k \in v + 1..Still : moved[k] = x)
  /\ \A j \in m + 1..Len(minted) : minted[j] \notin S

\* Since m records were minted none was minted twice.
Distinct(m) == \A j, k \in m + 1..Len(minted) : minted[j] = minted[k] => j = k

Balance ==
  /\ ownedAt \in Seq(SUBSET Records) /\ Len(ownedAt) = Len(frames)
  /\ \A i \in 1..Len(frames) : Balanced(frames[i].minted, frames[i].moved, ownedAt[i])

\* A step inside a scope leaves what every scope found.
LEMMA SameBalance ==
  ASSUME Arena, Minted, Balance, RollbackNext, SameScopes,
         \A m, v \in Nat : \A S \in SUBSET Records :
           m <= Top.minted /\ v <= Top.moved /\ Distinct(m) /\ Balanced(m, v, S) => Balanced(m, v, S)'
  PROVE  Balance'
<1>1. /\ Len(frames') = Len(frames) /\ Len(frames) \in Nat /\ ownedAt \in Seq(SUBSET Records)
      /\ Len(ownedAt) = Len(frames)
  BY ArenaFacts, ScopeFacts DEF SameScopes, Balance
<1>2. ownedAt' = SubSeq(ownedAt, 1, Len(frames))
  BY <1>1 DEF RollbackNext
<1>3. /\ ownedAt' \in Seq(SUBSET Records) /\ Len(ownedAt') = Len(frames)
      /\ \A i \in 1..Len(frames) : ownedAt'[i] = ownedAt[i]
  <2>1. Len(frames) \in 0..Len(ownedAt)
    BY <1>1
  <2> QED
    BY <1>1, <1>2, <2>1, PrefixType
<1> SUFFICES ASSUME NEW i \in 1..Len(frames)
             PROVE  Balanced(frames[i].minted, frames[i].moved, ownedAt[i])'
  BY <1>1, <1>3 DEF Balance
<1>4. PICK m \in Nat : m = frames[i].minted /\ m <= Top.minted
  BY ArenaFacts, ScopeFacts
<1>5. PICK v \in Nat : v = frames[i].moved /\ v <= Top.moved
  BY ArenaFacts, ScopeFacts
<1>6. PICK S \in SUBSET Records : S = ownedAt[i]
  <2>1. ownedAt[i] \in SUBSET Records
    BY <1>1, ElementOfSeq
  <2> QED
    BY <2>1
<1>7. Balanced(m, v, S)
  BY <1>4, <1>5, <1>6 DEF Balance
<1>8. Balanced(m, v, S)'
  <2>1. Distinct(m)
    BY <1>4 DEF Minted, Distinct
  <2> QED
    BY <1>4, <1>5, <1>7, <2>1
<1>9. frames'[i].minted = m /\ frames'[i].moved = v /\ ownedAt'[i] = S
  BY <1>3, <1>4, <1>5, <1>6 DEF SameScopes
<1> QED
  BY <1>8, <1>9 DEF Balanced

LEMMA QuietBalance ==
  ASSUME Arena, Arena', Nesting, Minted, Balance, RollbackNext, frames # <<>>, Quiet
  PROVE  Balance'
<1>1. SameScopes /\ Still' = Still /\ Built' = Built /\ UNCHANGED <<owned, minted, moved>>
  BY QuietLists
<1>2. ASSUME NEW m \in Nat, NEW v \in Nat, NEW S, Balanced(m, v, S) PROVE Balanced(m, v, S)'
  BY <1>1, <1>2 DEF Balanced
<1> QED
  BY <1>1, <1>2, SameBalance

LEMMA GivesBackBalance ==
  ASSUME Arena, Arena', Nesting, Minted, Balance, RollbackNext, GivesBack
  PROVE  Balance'
<1>1. /\ SameScopes /\ Still' = Still - 1 /\ Built' = Built
      /\ Still \in Top.moved + 1..Len(moved) /\ Top.moved \in Nat /\ Len(moved) \in Nat
      /\ owned' = owned \cup {moved[Still]} /\ UNCHANGED <<minted, moved>>
  <2>1. frames # <<>>
    BY GivesBackLists DEF SameScopes
  <2> QED
    BY <2>1, GivesBackLists, ArenaFacts, ScopeFacts
<1>2. ASSUME NEW m \in Nat, NEW v \in Nat, v <= Top.moved, NEW S \in SUBSET Records, Balanced(m, v, S)
      PROVE  Balanced(m, v, S)'
  <2>1. \A k \in v + 1..Still : k = Still \/ k \in v + 1..Still - 1
    BY <1>1
  <2>2. Still \in v + 1..Still /\ v + 1..Still - 1 \subseteq v + 1..Still
    BY <1>1, <1>2
  <2>3. ASSUME NEW x \in Records
        PROVE  (x \in owned' \/ \E k \in v + 1..Still - 1 : moved[k] = x)
               <=> (x \in owned \/ \E k \in v + 1..Still : moved[k] = x)
    BY <1>1, <2>1, <2>2
  <2> QED
    BY <1>1, <1>2, <2>3 DEF Balanced
<1> QED
  BY <1>1, <1>2, SameBalance

LEMMA PlacesBalance ==
  ASSUME Arena, Arena', Nesting, Minted, Balance, RollbackNext, NEW p \in Places, NEW x \in Records, Places1(p, x)
  PROVE  Balance'
<1>1. /\ SameScopes /\ Still = Len(moved) /\ Still' = Len(moved') /\ Built' = Built /\ minted' = minted
      /\ \/ /\ x \in owned /\ owned' = owned \ {x}
            /\ Len(moved') = Len(moved) + 1 /\ moved'[Len(moved) + 1] = x
            /\ \A j \in 1..Len(moved) : moved'[j] = moved[j]
         \/ owned' = owned /\ moved' = moved
  BY PlacesLists
<1>2. Len(moved) \in Nat /\ Top.moved \in Nat /\ Top.moved <= Len(moved)
  BY <1>1, ArenaFacts, ScopeFacts DEF SameScopes
<1>3. CASE owned' = owned /\ moved' = moved
  BY <1>1, <1>3, SameBalance DEF Balanced
<1>4. CASE /\ x \in owned /\ owned' = owned \ {x}
           /\ Len(moved') = Len(moved) + 1 /\ moved'[Len(moved) + 1] = x
           /\ \A j \in 1..Len(moved) : moved'[j] = moved[j]
  <2>1. ASSUME NEW m \in Nat, NEW v \in Nat, v <= Top.moved, NEW S \in SUBSET Records, Balanced(m, v, S)
        PROVE  Balanced(m, v, S)'
    <3>1. \A k \in v + 1..Len(moved) + 1 : k = Len(moved) + 1 \/ (k \in v + 1..Len(moved) /\ k \in 1..Len(moved))
      BY <1>2
    <3>2. Len(moved) + 1 \in v + 1..Len(moved) + 1
      BY <1>2, <2>1
    <3>3. \A k \in v + 1..Len(moved) : k \in v + 1..Len(moved) + 1 /\ k \in 1..Len(moved)
      BY <1>2
    <3>4. ASSUME NEW y \in Records
          PROVE  (y \in owned' \/ \E k \in v + 1..Len(moved) + 1 : moved'[k] = y)
                 <=> (y \in owned \/ \E k \in v + 1..Len(moved) : moved[k] = y)
      BY <1>4, <3>1, <3>2, <3>3
    <3>5. Still' = Len(moved) + 1
      BY <1>1, <1>4
    <3> QED
      BY <1>1, <2>1, <3>4, <3>5 DEF Balanced
  <2> QED
    BY <1>1, <2>1, SameBalance
<1> QED
  BY <1>1, <1>3, <1>4

LEMMA FreesBalance ==
  ASSUME Arena, Arena', Nesting, Taken, Minted, Balance, RollbackNext, Frees
  PROVE  Balance'
<1> DEFINE r == minted[Built]
<1>1. /\ SameScopes /\ Still' = Still /\ Still = Top.moved /\ Built' = Built - 1
      /\ Built \in Top.minted + 1..Len(minted) /\ r \in owned /\ r \in Records
      /\ owned' = owned \ {r} /\ UNCHANGED <<minted, moved>>
  BY FreesLists
<1>2. /\ Len(minted) \in Nat /\ Top.minted \in Nat /\ Len(frames) \in 1..Len(frames) /\ Top = frames[Len(frames)]
  BY <1>1, ArenaFacts, ScopeFacts DEF SameScopes
<1>3. \A k \in 1..Still : moved[k] # r
  BY <1>1 DEF Taken
<1>5. ASSUME NEW m \in Nat, m <= Top.minted, NEW v \in Nat, NEW S \in SUBSET Records, Distinct(m), Balanced(m, v, S)
      PROVE  Balanced(m, v, S)'
  <2>1. Built \in m + 1..Len(minted) /\ \A j \in m + 1..Built : j = Built \/ j \in m + 1..Built - 1
    BY <1>1, <1>2, <1>5
  <2>2. \A j \in m + 1..Built - 1 : j \in m + 1..Built /\ j \in m + 1..Len(minted) /\ j # Built
    BY <1>1, <1>2
  <2>3. r \notin S
    BY <1>5, <2>1 DEF Balanced
  <2>4. \A k \in v + 1..Still : k \in 1..Still
    BY <1>1, <1>5
  <2>5. ASSUME NEW x \in Records
        PROVE  (x \in S \/ \E j \in m + 1..Built - 1 : minted[j] = x) <=>
               (x \in owned \ {r} \/ \E k \in v + 1..Still : moved[k] = x)
    <3>1. (x \in S \/ \E j \in m + 1..Built : minted[j] = x) <=>
          (x \in owned \/ \E k \in v + 1..Still : moved[k] = x)
      BY <1>5 DEF Balanced
    <3>2. CASE x = r
      <4>1. ~ \E j \in m + 1..Built - 1 : minted[j] = r
        BY <1>5, <2>1, <2>2 DEF Distinct
      <4> QED
        BY <1>3, <2>3, <2>4, <3>2, <4>1
    <3>3. CASE x # r
      BY <2>1, <2>2, <3>1, <3>3
    <3> QED
      BY <3>2, <3>3
  <2> QED
    BY <1>1, <1>5, <2>5 DEF Balanced
<1> QED
  BY <1>1, <1>5, SameBalance

\* What an ended scope found is forgotten, and the scopes around it find what they did.
LEMMA EndsBalance ==
  ASSUME Arena, Arena', Nesting, Taken, Minted, Balance, RollbackNext, Finishes \/ Leaves \/ Refuses
  PROVE  Balance'
<1>1. /\ Len(frames) \in Nat \ {0} /\ Len(frames') = Len(frames) - 1 /\ (frames' = <<>> <=> Len(frames') = 0)
      /\ ownedAt \in Seq(SUBSET Records) /\ Len(ownedAt) = Len(frames)
  <2>1. PICK m, v : Ends(m, v)
    BY DEF Finishes, Leaves, Refuses
  <2>2. Len(frames) \in Nat \ {0}
    BY <2>1, ArenaFacts, ScopeFacts DEF Ends
  <2>3. TypeInv'
    BY DEF Arena, IInv
  <2> QED
    BY <2>1, <2>2, <2>3, EndsScope, EmptyNext DEF Balance
<1>2. ownedAt' = SubSeq(ownedAt, 1, Len(frames'))
  BY <1>1 DEF RollbackNext
<1>3. /\ ownedAt' \in Seq(SUBSET Records) /\ Len(ownedAt') = Len(frames')
      /\ \A i \in 1..Len(frames') : ownedAt'[i] = ownedAt[i]
  <2>1. Len(frames') \in 0..Len(ownedAt)
    BY <1>1
  <2> QED
    BY <1>1, <1>2, <2>1, PrefixType
<1>4. CASE frames' = <<>>
  BY <1>1, <1>3, <1>4 DEF Balance
<1>5. CASE frames' # <<>>
  <2>1. /\ Still' = Still /\ Built' = Built /\ Len(moved') = Still /\ Len(minted') = Built
        /\ \A j \in 1..Still : moved'[j] = moved[j]
        /\ \A j \in 1..Built : minted'[j] = minted[j]
        /\ \A i \in 1..Len(frames') : i \in 1..Len(frames) /\ frames'[i] = frames[i]
        /\ owned' = owned
    BY <1>5, EndsLists
  <2>2. Built \in Nat /\ Still \in Nat /\ Built <= Len(minted) /\ Len(minted) \in Nat
    BY ListFacts, ArenaFacts, ScopeFacts
  <2> SUFFICES ASSUME NEW i \in 1..Len(frames')
               PROVE  Balanced(frames[i].minted, frames[i].moved, ownedAt[i])'
    BY <1>3 DEF Balance
  <2>3. i \in 1..Len(frames)
    BY <2>1
  <2>4. PICK m \in Nat : m = frames[i].minted
    BY <2>3, ArenaFacts, ScopeFacts
  <2>5. PICK v \in Nat : v = frames[i].moved
    BY <2>3, ArenaFacts, ScopeFacts
  <2>6. PICK S : S = ownedAt[i]
    OBVIOUS
  <2>7. Balanced(m, v, S)
    BY <2>3, <2>4, <2>5, <2>6 DEF Balance
  <2>8. /\ \A j \in m + 1..Built : j \in 1..Built /\ j \in m + 1..Len(minted)
        /\ \A k \in v + 1..Still : k \in 1..Still
    BY <2>2
  <2>9. Balanced(m, v, S)'
    <3>1. \A j \in m + 1..Len(minted') : minted'[j] \notin S
      BY <2>1, <2>7, <2>8 DEF Balanced
    <3>2. \A x \in Records :
            /\ (\E j \in m + 1..Built : minted'[j] = x) <=> (\E j \in m + 1..Built : minted[j] = x)
            /\ (\E k \in v + 1..Still : moved'[k] = x) <=> (\E k \in v + 1..Still : moved[k] = x)
      BY <2>1, <2>8
    <3>3. \A x \in Records :
            (x \in S \/ \E j \in m + 1..Built : minted'[j] = x) <=> (x \in owned \/ \E k \in v + 1..Still : moved'[k] = x)
      BY <2>7, <3>2 DEF Balanced
    <3> QED
      BY <2>1, <3>1, <3>3 DEF Balanced
  <2>10. frames'[i].minted = m /\ frames'[i].moved = v /\ ownedAt'[i] = S
    BY <1>3, <2>1, <2>4, <2>5, <2>6
  <2> QED
    BY <2>9, <2>10 DEF Balanced
<1> QED
  BY <1>4, <1>5

\* A scope that opens finds what the handles have.
LEMMA OpensBalance ==
  ASSUME Arena, Arena', Nesting, Balance, RollbackNext, Opens,
         \A m, v \in Nat : \A S \in SUBSET Records :
           m <= Len(minted) /\ v <= Len(moved) /\ Balanced(m, v, S) => Balanced(m, v, S)',
         \A m, v \in Nat : m = Len(minted) /\ v = Len(moved) => \A S \in SUBSET Records : S = owned => Balanced(m, v, S)'
  PROVE  Balance'
<1> DEFINE L == Len(frames)
<1>1. /\ L \in Nat /\ Len(frames') = L + 1 /\ Top' = frames'[L + 1]
      /\ \A i \in 1..L : frames'[i] = frames[i]
      /\ Top'.minted = Len(minted) /\ Top'.moved = Len(moved)
      /\ ownedAt \in Seq(SUBSET Records) /\ Len(ownedAt) = L /\ owned \in SUBSET Records
      /\ Len(minted) \in Nat /\ Len(moved) \in Nat
  BY OpensLists, ArenaFacts, ScopeFacts DEF Balance, TypeOK
<1>2. ownedAt' = Append(ownedAt, owned)
  BY <1>1 DEF RollbackNext
<1>3. /\ ownedAt' \in Seq(SUBSET Records) /\ Len(ownedAt') = L + 1 /\ ownedAt'[L + 1] = owned
      /\ \A i \in 1..L : ownedAt'[i] = ownedAt[i]
  BY <1>1, <1>2, AppendProperties
<1> HIDE DEF L
<1> SUFFICES ASSUME NEW i \in 1..L + 1
             PROVE  Balanced(frames[i].minted, frames[i].moved, ownedAt[i])'
  BY <1>1, <1>3 DEF Balance
<1>4. ASSUME NEW m \in Nat, NEW v \in Nat, NEW S \in SUBSET Records, Balanced(m, v, S)',
             m = frames'[i].minted, v = frames'[i].moved, S = ownedAt'[i]
      PROVE  Balanced(frames[i].minted, frames[i].moved, ownedAt[i])'
  BY <1>4 DEF Balanced
<1>5. CASE i = L + 1
  <2>1. PICK S \in SUBSET Records : S = owned
    BY <1>1
  <2>2. frames'[i].minted = Len(minted) /\ frames'[i].moved = Len(moved) /\ ownedAt'[i] = S
    BY <1>1, <1>3, <1>5, <2>1
  <2>3. PICK m \in Nat : m = Len(minted)
    BY <1>1
  <2>4. PICK v \in Nat : v = Len(moved)
    BY <1>1
  <2>5. Balanced(m, v, S)'
    BY <2>1, <2>3, <2>4
  <2> QED
    BY <1>4, <2>2, <2>3, <2>4, <2>5
<1>6. CASE i # L + 1
  <2>1. i \in 1..L /\ frames'[i] = frames[i] /\ ownedAt'[i] = ownedAt[i] /\ i \in 1..Len(ownedAt)
    BY <1>1, <1>3, <1>6
  <2>2. /\ frames[i].minted \in Nat /\ frames[i].moved \in Nat
        /\ frames[i].minted <= Len(minted) /\ frames[i].moved <= Len(moved)
    BY <2>1, ArenaFacts, ScopeFacts DEF L
  <2>3. ownedAt[i] \in SUBSET Records
    BY <1>1, <2>1, ElementOfSeq
  <2>4. PICK m \in Nat : m = frames[i].minted
    BY <2>2
  <2>5. PICK v \in Nat : v = frames[i].moved
    BY <2>2
  <2>6. PICK S \in SUBSET Records : S = ownedAt[i]
    BY <2>3
  <2>7. Balanced(m, v, S)
    BY <2>1, <2>4, <2>5, <2>6 DEF Balance, L
  <2>8. Balanced(m, v, S)'
    BY <2>2, <2>4, <2>5, <2>7
  <2> QED
    BY <1>4, <2>1, <2>4, <2>5, <2>6, <2>8
<1> QED
  BY <1>5, <1>6

LEMMA OpensBalanced ==
  ASSUME Arena, Arena', Nesting, Taken, Minted, Balance, RollbackNext, Opens,
         UNCHANGED <<owned, minted>> \/ (\E r \in Records : Mints(r))
  PROVE  Balance'
<1>1. /\ Still = Len(moved) /\ Built = Len(minted) /\ Still' = Still /\ Built' = Len(minted') /\ moved' = moved
      /\ Len(minted) \in Nat /\ Len(moved) \in Nat
  BY OpensLists, ArenaFacts, ScopeFacts
<1>2. CASE UNCHANGED <<owned, minted>>
  <2>1. ASSUME NEW m \in Nat, NEW v \in Nat, NEW S, Balanced(m, v, S) PROVE Balanced(m, v, S)'
    BY <1>1, <1>2, <2>1 DEF Balanced
  <2>2. ASSUME NEW m \in Nat, NEW v \in Nat, m = Len(minted), v = Len(moved), NEW S, S = owned
        PROVE  Balanced(m, v, S)'
    <3>1. m + 1..Len(minted) = {} /\ v + 1..Still = {}
      BY <1>1, <2>2
    <3> QED
      BY <1>1, <1>2, <2>2, <3>1 DEF Balanced
  <2> QED
    BY <2>1, <2>2, OpensBalance
<1>3. ASSUME NEW r \in Records, Mints(r) PROVE Balance'
  <2> DEFINE M == Len(minted)
  <2>1. /\ r \notin owned /\ owned' = owned \cup {r} /\ Len(minted') = M + 1 /\ minted'[M + 1] = r
        /\ \A j \in 1..M : minted'[j] = minted[j]
        /\ \A j \in 1..Len(moved) : moved[j] # r
    BY <1>3, MintsFresh DEF Mints
  <2>2. M \in Nat /\ Built = M /\ Built' = M + 1
    BY <1>1, <2>1
  <2> HIDE DEF M
  <2>3. ASSUME NEW m \in Nat, m <= M, NEW v \in Nat, v <= Len(moved), NEW S \in SUBSET Records, Balanced(m, v, S)
        PROVE  Balanced(m, v, S)'
    <3>1. \A j \in m + 1..M + 1 : j = M + 1 \/ (j \in m + 1..M /\ j \in 1..M)
      BY <2>2
    <3>2. M + 1 \in m + 1..M + 1 /\ \A j \in m + 1..M : j \in m + 1..M + 1 /\ j \in 1..M
      BY <2>2, <2>3
    <3>3. \A k \in v + 1..Still : k \in 1..Len(moved)
      BY <1>1
    <3>4. r \notin S
      BY <1>1, <2>1, <2>3, <3>3 DEF Balanced
    <3>5. \A j \in m + 1..M + 1 : minted'[j] \notin S
      <4>1. \A j \in m + 1..M : minted[j] \notin S
        BY <2>3 DEF Balanced, M
      <4> QED
        BY <2>1, <3>1, <3>4, <4>1
    <3>6. \A x \in Records : (\E j \in m + 1..M + 1 : minted'[j] = x) <=> (x = r \/ \E j \in m + 1..M : minted[j] = x)
      BY <2>1, <3>1, <3>2
    <3>7. \A x \in Records :
            (x \in S \/ \E j \in m + 1..M : minted[j] = x) <=> (x \in owned \/ \E k \in v + 1..Still : moved[k] = x)
      BY <2>2, <2>3 DEF Balanced
    <3>8. \A x \in Records :
            (x \in S \/ \E j \in m + 1..M + 1 : minted'[j] = x) <=> (x \in owned' \/ \E k \in v + 1..Still : moved[k] = x)
      BY <2>1, <3>6, <3>7
    <3> QED
      BY <1>1, <2>1, <2>2, <3>5, <3>8 DEF Balanced
  <2>4. ASSUME NEW m \in Nat, NEW v \in Nat, m = M, v = Len(moved), NEW S, S = owned
        PROVE  Balanced(m, v, S)'
    <3>1. m + 1..M + 1 = {M + 1} /\ v + 1..Still = {}
      BY <1>1, <2>2, <2>4
    <3>2. \A j \in m + 1..M + 1 : minted'[j] \notin S
      BY <2>1, <2>4, <3>1
    <3>3. \A x \in Records :
            (x \in S \/ \E j \in m + 1..M + 1 : minted'[j] = x) <=> (x \in owned' \/ \E k \in v + 1..Still : moved[k] = x)
      BY <2>1, <2>4, <3>1
    <3> QED
      BY <1>1, <2>1, <2>2, <3>2, <3>3 DEF Balanced
  <2> QED
    BY <2>3, <2>4, OpensBalance DEF M
<1> QED
  BY <1>2, <1>3

LEMMA BalanceStep ==
  ASSUME Arena, Arena', Nesting, Taken, Minted, Balance, RollbackNext,
         frames # <<>> \/ frames' # <<>> => InScope
  PROVE  Balance'
<1>1. CASE frames = <<>> /\ frames' = <<>>
  <2>1. Len(frames) = 0 /\ Len(frames') = 0 /\ ownedAt \in Seq(SUBSET Records) /\ Len(ownedAt) = 0
    BY <1>1, EmptyNext, ArenaFacts, ScopeFacts DEF Arena, IInv, Balance
  <2>2. ownedAt' = SubSeq(ownedAt, 1, 0)
    BY <2>1 DEF RollbackNext
  <2>3. ownedAt' \in Seq(SUBSET Records) /\ Len(ownedAt') = 0
    <3>1. 0 \in 0..Len(ownedAt)
      BY <2>1
    <3> QED
      BY <2>1, <2>2, <3>1, PrefixType
  <2> QED
    BY <2>1, <2>3 DEF Balance
<1>2. CASE frames # <<>> \/ frames' # <<>>
  <2>1. InScope
    BY <1>2
  <2>2. Quiet => frames # <<>>
    BY <1>2 DEF Quiet, Stays, Throwing, Turns, Runs, Patches, Drops, Buries, SameScopes
  <2>3. Quiet => Balance'
    BY <2>2, QuietBalance
  <2>4. ASSUME (Opens /\ UNCHANGED <<count, owned, chunkOf, minted>>) \/ \E r \in Records : Mints(r) PROVE Balance'
    <3>1. Opens /\ (UNCHANGED <<owned, minted>> \/ \E r \in Records : Mints(r))
      BY <2>4 DEF Mints
    <3> QED
      BY <3>1, OpensBalanced
  <2> QED
    BY <2>1, <2>3, <2>4, GivesBackBalance, PlacesBalance, FreesBalance, EndsBalance DEF InScope, Quiet
<1> QED
  BY <1>1, <1>2

-----------------------------------------------------------------------------
(* What an edit's draft holds, while its source lives.                     *)

\* An edit's source was placed before its draft, the first record minted in its scope.
Edits ==
  Editing =>
    /\ Top.src \in Records /\ chunkOf[Top.src] # 0 /\ Top.src # Top.rec
    /\ Top.minted < Len(minted) /\ minted[Top.minted + 1] = Top.rec
    /\ call.op = "copy" => \A p \in call.copies : p[1] = Top.src

\* Of places C of an edit's source, its draft and its runs: what moved is held by one of
\* them, and none of them is patched.
Keeps(C) ==
  /\ \A p \in C : p[1] \in {Top.src, Top.rec} \/ \E q \in C : words[q] = p[1]
  /\ \A p \in C : p[1] = Top.rec => p[2] \in Top.done
  /\ \A k \in 1..Len(moved) : \E q \in C : words[q] = moved[k]
  /\ Top.run # Nil => \E q \in C : words[q] = Top.run

EditKeeps == Editing /\ call.op # "free" /\ count[Top.src] > 0 => \E C \in SUBSET counted : Keeps(C)

\* What a running build does.
LEMMA BuildSteps ==
  ASSUME Arena, Arena', InBuild, [Next]_vars
  PROVE  \/ \E c \in Cells : PatchCell(c)
         \/ \E c \in Cells, x \in Records : StoreCell(c, x) \/ StoreRun(c, x) \/ StoreItem(c, x)
         \/ \E p \in call.copies : CopyCell(p)
         \/ Release
         \/ /\ UNCHANGED <<words, counted, moved, minted, chunkOf, frames>>
            /\ call'.op # "copy" \/ call' = call
            /\ UNCHANGED <<count, owned, dead, handed>> \/ GiveBackMoved \/ FreeMinted
            /\ call'.op # "none" \/ (call' = call /\ UNCHANGED <<count, owned, dead, handed>>)
            /\ call.op = "free" => call'.op = "free"
         \/ ~InBuild'
<1> DEFINE Quietly == /\ UNCHANGED <<words, counted, moved, minted, chunkOf, frames>>
                      /\ call'.op # "copy" \/ call' = call
                      /\ UNCHANGED <<count, owned, dead, handed>> \/ GiveBackMoved \/ FreeMinted
                      /\ call'.op # "none" \/ (call' = call /\ UNCHANGED <<count, owned, dead, handed>>)
                      /\ call.op = "free" => call'.op = "free"
<1>1. /\ TypeInv /\ TypeOK /\ call \in Call /\ NoCall.op = "none" /\ frames # <<>>
      /\ call.op \notin {"carry", "close"}
  <2>1. /\ TypeInv /\ TypeOK /\ call \in Call /\ NoCall.op = "none" /\ frames # <<>>
        /\ Len(frames) \in 1..Len(frames) /\ Top = frames[Len(frames)]
    BY ArenaFacts, ScopeFacts, NoCallType DEF InBuild
  <2> QED
    BY <2>1 DEF TypeInv, Control, Arena, BuildsInner, InBuild
<1>2. ASSUME NEW m, NEW v, EndScope(m, v), dead = {}, UNCHANGED <<counts, chunks>> PROVE ~InBuild'
  <2>1. Ends(m, v)
    BY <1>1, <1>2 DEF Ends, counts, chunks
  <2> QED
    BY <2>1, EndsNotBuilding
<1>3. CASE Continues
  <2>1. ASSUME NEW p \in call.copies, CarrySide(p) PROVE FALSE
    BY <1>1, <2>1 DEF CarrySide
  <2>2. CASE CopyRefused
    <3>1. call' = [NoCall EXCEPT !.op = "giveback", !.n = Len(moved)] /\ call.op = "copy"
      BY <2>2 DEF CopyRefused
    <3>2. call'.op = "giveback"
      BY <3>1 DEF NoCall
    <3> QED
      BY <2>2, <3>1, <3>2 DEF CopyRefused, counts, chunks, scopes
  <2>3. ReturnEdit \/ RefuseEdit \/ CloseNext \/ Closed \/ CloseRefused => FALSE
    BY <1>1 DEF ReturnEdit, RefuseEdit, CloseNext, Closed, CloseRefused
  <2>4. CASE GiveBackMoved
    <3>1. call.op = "giveback" /\ UNCHANGED <<words, counted, moved, minted, chunkOf, frames>>
          /\ (call' = [call EXCEPT !.n = @ - 1] \/ call' = [call EXCEPT !.op = "free", !.n = Len(minted)])
      BY <2>4 DEF GiveBackMoved, chunks, scopes
    <3>2. call'.op \notin {"copy", "none"}
      BY <1>1, <3>1 DEF Call
    <3> QED
      BY <2>4, <3>1, <3>2
  <2>5. CASE FreeMinted
    <3>1. call.op = "free" /\ UNCHANGED <<words, counted, moved, minted, chunkOf, frames>>
          /\ call' = [call EXCEPT !.n = @ - 1]
      BY <2>5 DEF FreeMinted, chunks, scopes
    <3>2. call'.op = "free"
      BY <1>1, <3>1 DEF Call
    <3> QED
      BY <2>5, <3>1, <3>2
  <2>6. (Abandoned \/ AbandonRefused) /\ dead = {} => ~InBuild'
    BY <1>2 DEF Abandoned, AbandonRefused
  <2> QED
    BY <1>3, <2>1, <2>2, <2>3, <2>4, <2>5, <2>6 DEF Continues
<1>4. CASE Starts
  <2>1. ~UserCode
    BY DEF UserCode
  <2>2. ASSUME NEW r \in Records, BuildRecord(r) \/ \E src \in Records : EditRecord(r, src) PROVE FALSE
    BY <2>1, <2>2 DEF BuildRecord, EditRecord, UserWrites
  <2>3. InterceptBuild \/ FinishIntercepted \/ OpenCommit \/ CloseCommit => FALSE
    BY <1>1, <2>1 DEF InterceptBuild, FinishIntercepted, OpenCommit, CloseCommit
  <2>4. ASSUME NEW x \in Records, ReleaseNode(x) PROVE FALSE
    BY <2>1, <2>4 DEF ReleaseNode, UserWrites
  <2>5. ASSUME NEW h \in Records, NEW s \in Sides, NEW x \in Records \cup {Nil}, WriteSide(h, s, x) PROVE FALSE
    BY <2>1, <2>5 DEF WriteSide, UserWrites
  <2>6. ASSUME NEW i \in 1..MaxCommits, NEW x \in Records, Keep(i, x) PROVE FALSE
    BY <2>1, <2>6 DEF Keep, UserWrites
  <2>7. InternText => Quietly
    BY DEF InternText, counts, scopes, Building, Idle
  <2>8. FinishBuild => ~InBuild'
    BY <1>2 DEF FinishBuild, Building, Idle
  <2>9. CASE Throw
    <3>1. call' = [NoCall EXCEPT !.op = "giveback", !.n = Len(moved)] /\ call.op = "none"
      BY <2>9 DEF Throw, Idle
    <3>2. call'.op = "giveback"
      BY <3>1 DEF NoCall
    <3> QED
      BY <2>9, <3>1, <3>2 DEF Throw, counts, chunks, scopes
  <2> QED
    BY <1>4, <2>2, <2>3, <2>4, <2>5, <2>6, <2>7, <2>8, <2>9 DEF Starts
<1>5. CASE UNCHANGED vars
  BY <1>5 DEF vars, counts, chunks, scopes
<1> QED
  BY <1>3, <1>4, <1>5 DEF Next

LEMMA BeginsBuilding ==
  ASSUME Arena, Arena', ~InBuild, InBuild', [Next]_vars
  PROVE  \E r \in Records : BuildRecord(r) \/ \E src \in Records : EditRecord(r, src)
<1>1. TypeInv /\ Nil \in Records \cup {Nil} /\ frames' # frames
  BY ArenaFacts DEF InBuild, Top
<1>2. CASE InterceptBuild
  <2> DEFINE f == NewFrame("intercept", Nil, Nil)
  <2>1. f \in Frame /\ f.minted = Len(minted) /\ f.moved = Len(moved) /\ f.src = Nil /\ f.kind = "intercept"
    BY <1>1, ScopeFacts DEF NewFrame, Frame
  <2>2. UserCode /\ frames' = Append(frames, f) /\ call'.op = "none"
        /\ UNCHANGED <<words, counted, dead, handed, moved>>
    BY <1>2 DEF InterceptBuild, UserCode, Idle, counts
  <2>3. Top' = f
    BY <1>1, <2>1, <2>2, OpensScope
  <2> QED
    BY <1>1, <2>1, <2>3 DEF InBuild
<1>3. ASSUME NEW m, NEW v, EndScope(m, v), dead = {}, frames # <<>>, UNCHANGED <<counts, chunks>> PROVE FALSE
  <2>1. Ends(m, v)
    BY <1>3 DEF Ends, counts, chunks
  <2> QED
    BY <2>1, EndsNotBuilding
<1>4. CASE Starts
  <2>1. ASSUME NEW c \in Cells, PatchCell(c) \/ \E x \in Records : StoreCell(c, x) \/ StoreRun(c, x) \/ StoreItem(c, x)
        PROVE  FALSE
    BY <2>1 DEF PatchCell, StoreCell, StoreRun, StoreItem, Building
  <2>2. InternText \/ FinishBuild \/ Throw => FALSE
    BY <1>1 DEF InternText, FinishBuild, Throw, Building, scopes
  <2>3. FinishIntercepted => FALSE
    BY <1>3 DEF FinishIntercepted, UserCode, Idle
  <2>4. ASSUME NEW h \in Records, NEW s \in Sides, NEW x \in Records \cup {Nil}, WriteSide(h, s, x) PROVE FALSE
    BY <1>1, <2>4 DEF WriteSide, scopes
  <2>5. ASSUME NEW x \in Records, ReleaseNode(x) PROVE FALSE
    BY <1>1, <2>5 DEF ReleaseNode, scopes
  <2>6. ASSUME NEW i \in 1..MaxCommits, NEW x \in Records, Keep(i, x) PROVE FALSE
    BY <1>1, <2>6 DEF Keep
  <2>7. OpenCommit \/ CloseCommit => FALSE
    BY <1>1 DEF OpenCommit, CloseCommit
  <2> QED
    BY <1>2, <1>4, <2>1, <2>2, <2>3, <2>4, <2>5, <2>6, <2>7 DEF Starts
<1>5. CASE Continues
  <2>1. (Abandoned \/ AbandonRefused) /\ dead = {} => FALSE
    <3>1. call.op \in {"giveback", "free"} => frames # <<>>
      BY <1>1 DEF TypeInv, Control
    <3> QED
      BY <1>3, <3>1 DEF Abandoned, AbandonRefused
  <2> QED
    BY <1>1, <1>5, <2>1 DEF Continues, Release, CopyCell, CarrySide, CopyRefused, ReturnEdit, RefuseEdit,
                            GiveBackMoved, FreeMinted, CloseNext, Closed, CloseRefused, scopes
<1>6. CASE UNCHANGED vars
  BY <1>1, <1>6 DEF vars, scopes
<1> QED
  BY <1>4, <1>5, <1>6 DEF Next

LEMMA BeginsEditing ==
  ASSUME Arena, Arena', Nesting', frames = <<>>, Editing', [Next]_vars
  PROVE  \E r, src \in Records : EditRecord(r, src)
<1>1. InBuild' /\ ~InBuild /\ TypeInv /\ Nil \in Records \cup {Nil}
  <2>1. frames' # <<>> /\ TypeInv'
    BY DEF Editing, Arena, IInv
  <2>2. Len(frames') \in 1..Len(frames') /\ Top' = frames'[Len(frames')] /\ Top'.src # Nil
    BY <2>1, TopNext DEF Editing
  <2>3. Top'.kind = "build"
    BY <2>2 DEF Nesting
  <2> QED
    BY <2>1, <2>3, ArenaFacts DEF InBuild
<1>2. ASSUME NEW r \in Records, BuildRecord(r) PROVE FALSE
  <2>1. UserCode /\ Mint(r, Nil) /\ call'.op = "none"
        /\ UNCHANGED <<words, counted, dead, handed, moved>>
    BY <1>2 DEF BuildRecord, UserCode, Idle
  <2> QED
    BY <1>1, <2>1, MintScope DEF Editing
<1> QED
  BY <1>1, <1>2, BeginsBuilding

\* An edit begun inside no other scope.
LEMMA EditBegun ==
  ASSUME Arena, Arena', Nesting, frames = <<>>, NEW r \in Records, NEW src \in Records, EditRecord(r, src)
  PROVE  /\ Top'.src = src /\ Top'.rec = r /\ Top'.kind = "build" /\ Top'.run = Nil /\ Top'.done = {} /\ frames' # <<>>
         /\ chunkOf'[src] # 0 /\ src # r /\ Alloc(r) /\ Mints(r)
         /\ Top'.minted = Len(minted) /\ minted' = Append(minted, r) /\ moved' = moved
         /\ \/ call'.op = "none" /\ call'.copies = {}
            \/ call'.op = "copy" /\ call'.rec = r /\ \A p \in call'.copies : p[1] = src /\ p[2] \in Cells
<1> DEFINE from == {p \in {src} \X Cells : words[p] # Nil}
<1>1. /\ TypeInv /\ UserCode /\ Mint(r, src) /\ Alloc(r) /\ UNCHANGED <<words, counted, dead, handed, moved>>
      /\ src # Nil /\ src \in handed
      /\ call' = IF from = {} THEN NoCall ELSE [NoCall EXCEPT !.op = "copy", !.rec = r, !.copies = from]
  BY ArenaFacts, ConstantsAssumption DEF EditRecord, UserWrites, Mint
<1>2. \/ call'.op = "none" /\ call'.copies = {}
      \/ call'.op = "copy" /\ call'.rec = r /\ call'.copies = from
  BY <1>1, NoCallType DEF NoCall
<1>3. /\ Mints(r) /\ Top'.src = src /\ Top'.rec = r /\ Top'.kind = "build" /\ Top'.run = Nil /\ Top'.done = {}
  BY <1>1, <1>2, MintScope
<1>4. frames' # <<>> /\ Top'.minted = Len(minted)
  BY <1>3, OpensLists DEF Mints
<1>5. chunkOf[src] # 0
  BY <1>1 DEF Arena, IInv, CoverInv, Placement, PlacedHandles
<1>6. chunkOf'[src] # 0 /\ src # r
  BY <1>1, <1>5, AllocFresh DEF Arena, IInv
<1>7. \A p \in from : p[1] = src /\ p[2] \in Cells
  OBVIOUS
<1> HIDE DEF from
<1> QED
  BY <1>1, <1>2, <1>3, <1>4, <1>6, <1>7 DEF Mints

LEMMA EditSame ==
  ASSUME Arena, Arena', ~InterceptorsWrite, Nesting, Nesting', Drafts, Editing', [Next]_vars, frames # <<>>
  PROVE  Editing /\ SameScopes /\ minted' = minted /\ InBuild /\ InBuild'
<1>1. InScope /\ frames' # <<>> /\ InBuild' /\ TypeInv'
  <2>1. frames' # <<>> /\ TypeInv'
    BY DEF Editing, Arena, IInv
  <2>2. Len(frames') \in 1..Len(frames') /\ Top' = frames'[Len(frames')] /\ Top'.src # Nil
    BY <2>1, TopNext DEF Editing
  <2>3. Top'.kind = "build"
    BY <2>2 DEF Nesting
  <2> QED
    BY <2>1, <2>3, ScopesStep DEF InBuild
<1>2. CASE Opens
  BY <1>2 DEF Opens, Editing
<1>3. ASSUME NEW m, NEW v, Ends(m, v) PROVE FALSE
  BY <1>1, <1>3, EndsNotBuilding
<1>4. CASE SameScopes /\ minted' = minted
  <2>1. Top'.src = Top.src
    BY <1>4, SameTop
  <2>2. Top'.kind = Top.kind
    BY <1>4, SameTop
  <2> QED
    BY <1>1, <1>4, <2>1, <2>2, SameTop DEF Editing, InBuild
<1>5. CASE frames' = frames /\ minted' = minted
  BY <1>4, <1>5, SameFrames
<1> QED
  BY <1>1, <1>2, <1>3, <1>4, <1>5
     DEF InScope, Mints, Places1, Runs, Patches, Stays, Throwing, Finishes, Leaves, Refuses,
         GivesBack, Turns, Frees, Drops, Buries

LEMMA EditsStep ==
  ASSUME Arena, Arena', ~InterceptorsWrite, Nesting, Nesting', Drafts, Edits, [Next]_vars
  PROVE  Edits'
<1> SUFFICES ASSUME Editing'
             PROVE  /\ Top'.src \in Records /\ chunkOf'[Top'.src] # 0 /\ Top'.src # Top'.rec
                    /\ Top'.minted < Len(minted') /\ minted'[Top'.minted + 1] = Top'.rec
                    /\ call'.op = "copy" => \A p \in call'.copies : p[1] = Top'.src
  BY DEF Edits
<1>1. CASE frames = <<>>
  <2>1. PICK r \in Records, src \in Records : EditRecord(r, src)
    BY <1>1, BeginsEditing
  <2>2. /\ Top'.src = src /\ Top'.rec = r /\ chunkOf'[src] # 0 /\ src # r
        /\ Top'.minted = Len(minted) /\ minted' = Append(minted, r)
        /\ call'.op = "copy" => \A p \in call'.copies : p[1] = src
    BY <1>1, <2>1, EditBegun
  <2>3. minted \in Seq(Records)
    BY ArenaFacts, ScopeFacts
  <2>4. Len(minted') = Len(minted) + 1 /\ minted'[Len(minted) + 1] = r /\ Len(minted) \in Nat
    BY <2>2, <2>3, AppendProperties
  <2> QED
    BY <2>2, <2>4
<1>2. CASE frames # <<>>
  <2>1. Editing /\ SameScopes /\ InBuild /\ InBuild' /\ minted' = minted /\ TypeInv /\ call \in Call /\ NoCall.op = "none"
    BY <1>2, EditSame, ArenaFacts, NoCallType
  <2>2. Top'.rec = Top.rec /\ Top'.src = Top.src /\ Top'.minted = Top.minted /\ frames' # <<>>
    BY <2>1, SameTop
  <2>3. /\ Top.src \in Records /\ chunkOf[Top.src] # 0 /\ Top.src # Top.rec
        /\ Top.minted < Len(minted) /\ minted[Top.minted + 1] = Top.rec
        /\ call.op = "copy" => \A p \in call.copies : p[1] = Top.src
    BY <2>1 DEF Edits
  <2>4. chunkOf'[Top.src] # 0
    <3>1. chunkOf'[Top.src] = chunkOf[Top.src]
      BY <2>1, <2>3, ChunksGrow
    <3> QED
      BY <2>3, <3>1
  <2>5. call'.op = "copy" => call.op = "copy" /\ call'.copies \subseteq call.copies
    <3>1. ASSUME NEW p \in call.copies, CopyCell(p) PROVE call'.op = "copy" => call.op = "copy" /\ call'.copies \subseteq call.copies
      <4>1. call.op = "copy" /\ (call' = NoCall \/ call' = [call EXCEPT !.copies = call.copies \ {p}])
        BY <3>1 DEF CopyCell
      <4> QED
        BY <2>1, <4>1 DEF Call
    <3>2. ASSUME NEW c \in Cells, NEW x \in Records, PatchCell(c) \/ StoreCell(c, x) \/ StoreRun(c, x) \/ StoreItem(c, x)
          PROVE  call' = call
      BY <3>2 DEF PatchCell, StoreCell, StoreRun, StoreItem
    <3>3. ASSUME NEW c \in Cells, PatchCell(c) PROVE call' = call
      BY <3>3 DEF PatchCell
    <3>4. Release => call' = call
      BY DEF Release
    <3> QED
      BY <2>1, <2>2, <3>1, <3>2, <3>3, <3>4, BuildSteps
  <2> QED
    BY <2>1, <2>2, <2>3, <2>4, <2>5
<1> QED
  BY <1>1, <1>2

\* While what moved is held, the draft is live.
LEMMA DraftLive ==
  ASSUME Arena, Nesting, Minted, Edits, Editing, call.op # "free", NEW C \in SUBSET counted, Keeps(C)
  PROVE  count[Top.rec] > 0
<1>1. /\ TypeInv /\ frames # <<>> /\ Len(frames) \in 1..Len(frames) /\ Top = frames[Len(frames)]
      /\ Top.minted \in Nat /\ Top.moved \in Nat /\ Len(minted) \in Nat /\ Len(moved) \in Nat
  BY ArenaFacts, ScopeFacts DEF Editing
<1>2. Built = Len(minted) /\ Still \in Nat /\ Still <= Len(moved)
  BY ListFacts DEF Built
<1>3. Top.minted < Len(minted) /\ minted[Top.minted + 1] = Top.rec
  BY DEF Edits
<1>4. Top.minted + 1 \in Top.minted + 1..Built
  BY <1>1, <1>2, <1>3
<1>5. Top.rec \in owned \/ \E k \in Top.moved + 1..Still : moved[k] = Top.rec
  BY <1>1, <1>3, <1>4 DEF Minted
<1>6. CASE Top.rec \in owned
  BY <1>6, ArenaFacts
<1>7. ASSUME NEW k \in Top.moved + 1..Still, moved[k] = Top.rec PROVE count[Top.rec] > 0
  <2>1. k \in 1..Len(moved)
    BY <1>1, <1>2
  <2>2. \E q \in C : words[q] = Top.rec
    BY <1>7, <2>1 DEF Keeps
  <2> QED
    BY <2>2, ArenaFacts
<1> QED
  BY <1>5, <1>6, <1>7

LEMMA KeepsSame ==
  ASSUME NEW C, Keeps(C), \A q \in C : words'[q] = words[q], UNCHANGED <<moved, frames>>
  PROVE  Keeps(C)'
<1>1. Top' = Top
  BY DEF Top
<1> QED
  BY <1>1 DEF Keeps

LEMMA KeepsMore ==
  ASSUME NEW C, Keeps(C), NEW p, NEW x,
         words'[p] = x, \A q \in C : words'[q] = words[q],
         Top'.src = Top.src, Top'.rec = Top.rec, Top.done \subseteq Top'.done,
         p[1] \in {Top.src, Top.rec} \/ \E q \in C : words[q] = p[1],
         p[1] = Top.rec => p[2] \in Top'.done,
         \/ moved' = moved
         \/ /\ Len(moved') = Len(moved) + 1 /\ moved'[Len(moved) + 1] = x /\ Len(moved) \in Nat
            /\ \A k \in 1..Len(moved) : moved'[k] = moved[k],
         Top'.run \in {Nil, Top.run, x}
  PROVE  Keeps(C \cup {p})'
<1>1. \A k \in 1..Len(moved') : \E q \in C \cup {p} : words'[q] = moved'[k]
  <2>1. CASE moved' = moved
    BY <2>1 DEF Keeps
  <2>2. CASE /\ Len(moved') = Len(moved) + 1 /\ moved'[Len(moved) + 1] = x /\ Len(moved) \in Nat
             /\ \A k \in 1..Len(moved) : moved'[k] = moved[k]
    <3> SUFFICES ASSUME NEW k \in 1..Len(moved') PROVE \E q \in C \cup {p} : words'[q] = moved'[k]
      OBVIOUS
    <3>1. CASE k = Len(moved) + 1
      BY <2>2, <3>1
    <3>2. CASE k # Len(moved) + 1
      <4>1. k \in 1..Len(moved)
        BY <2>2, <3>2
      <4> QED
        BY <2>2, <4>1 DEF Keeps
    <3> QED
      BY <3>1, <3>2
  <2> QED
    BY <2>1, <2>2
<1>2. \A q \in C \cup {p} : q[1] \in {Top.src, Top.rec} \/ \E o \in C \cup {p} : words'[o] = q[1]
  BY DEF Keeps
<1>3. \A q \in C \cup {p} : q[1] = Top.rec => q[2] \in Top'.done
  BY DEF Keeps
<1>4. Top'.run # Nil => \E q \in C \cup {p} : words'[q] = Top'.run
  BY DEF Keeps
<1> QED
  BY <1>1, <1>2, <1>3, <1>4 DEF Keeps

\* A count of a released record is not taken: what has one now had one.
LEMMA SourceLive ==
  ASSUME Arena, Arena', InBuild, InBuild', [Next]_vars,
         call'.op # "free", NEW x \in Records, chunkOf[x] # 0, count'[x] > 0
  PROVE  count[x] > 0
<1> SUFFICES ASSUME count[x] = 0 PROVE FALSE
  BY ArenaFacts
<1>1. /\ count \in [Records -> Nat] /\ words \in [Places -> Records \cup {Nil}]
      /\ \A p \in counted : words[p] \in Records /\ count[words[p]] > 0
      /\ counted \subseteq Places /\ dead \subseteq Records /\ call \in Call /\ TypeInv
  BY ArenaFacts DEF TypeOK
<1>2. ASSUME NEW y, y \in Records, Hold(y) PROVE FALSE
  BY <1>1, <1>2 DEF Hold
<1>3. ASSUME NEW c \in Cells, PatchCell(c) PROVE FALSE
  <2>1. <<Top.rec, c>> \in counted /\ count' = Dropped(count, words[<<Top.rec, c>>])
    BY <1>3 DEF PatchCell
  <2> QED
    BY <1>1, <2>1 DEF Dropped
<1>4. ASSUME NEW c \in Cells, NEW y \in Records, StoreCell(c, y) \/ StoreItem(c, y) PROVE FALSE
  BY <1>2, <1>4 DEF StoreCell, StoreItem, Place
<1>5. ASSUME NEW c \in Cells, NEW u \in Records, StoreRun(c, u) PROVE FALSE
  BY <1>1, <1>5 DEF StoreRun, Alloc
<1>6. ASSUME NEW p \in call.copies, CopyCell(p) PROVE FALSE
  <2>1. words[p] \in Records /\ Hold(words[p])
    BY <1>1, <1>6 DEF CopyCell, TypeInv, Control
  <2> QED
    BY <1>2, <2>1
<1>7. CASE Release
  <2>1. count' = count \/ \E p \in counted : count' = Dropped(count, words[p])
    BY <1>7 DEF Release, PlacesOf
  <2> QED
    BY <1>1, <2>1 DEF Dropped
<1>8. CASE GiveBackMoved
  <2>1. CASE call.n > Top.moved
    <3>1. GiveBack(moved[call.n]) /\ count[moved[call.n]] > 0
      BY <1>8, <2>1 DEF GiveBackMoved
    <3> QED
      BY <1>1, <3>1 DEF GiveBack
  <2>2. CASE ~(call.n > Top.moved)
    BY <1>8, <2>2 DEF GiveBackMoved
  <2> QED
    BY <2>1, <2>2
<1>9. CASE FreeMinted
  <2>1. call.op = "free" /\ call' = [call EXCEPT !.n = @ - 1]
    BY <1>9 DEF FreeMinted
  <2> QED
    BY <1>1, <2>1 DEF Call
<1> QED
  BY <1>3, <1>4, <1>5, <1>6, <1>7, <1>8, <1>9, BuildSteps

LEMMA EditKeepsSame ==
  ASSUME Arena, Arena', ~InterceptorsWrite, Nesting, Nesting', Drafts, Minted, Edits, EditKeeps, [Next]_vars,
         frames # <<>>, Editing', call'.op # "free", count'[Top'.src] > 0
  PROVE  \E C \in SUBSET counted' : Keeps(C)'
<1>1. /\ Editing /\ SameScopes /\ InBuild /\ InBuild' /\ minted' = minted /\ frames' # <<>> /\ TypeInv /\ Live
      /\ Top'.rec = Top.rec /\ Top'.src = Top.src
      /\ counted \subseteq Places /\ counted' \subseteq Places /\ words \in [Places -> Records \cup {Nil}]
      /\ \A p \in counted : words[p] \in Records /\ count[words[p]] > 0
      /\ moved \in Seq(Records) /\ Len(moved) \in Nat
      /\ Nil \in Cells \cup {Nil} /\ Nil \in Records \cup {Nil} /\ Nil \notin Records \cup Cells
  BY EditSame, SameTop, ArenaFacts, ScopeFacts, ConstantsAssumption DEF Arena, IInv, TypeInv, TypeOK
<1>2. /\ Top.src \in Records /\ chunkOf[Top.src] # 0 /\ Top.src # Top.rec
      /\ call.op = "copy" => \A p \in call.copies : p[1] = Top.src
  BY <1>1 DEF Edits
<1>3. count[Top.src] > 0
  BY <1>1, <1>2, SourceLive
<1>4. CASE call.op = "free"
  <2>1. call' = call \/ call'.op = "free"
    <3>1. ASSUME NEW c \in Cells, NEW x \in Records, PatchCell(c) \/ StoreCell(c, x) \/ StoreRun(c, x) \/ StoreItem(c, x)
          PROVE  call' = call
      BY <3>1 DEF PatchCell, StoreCell, StoreRun, StoreItem
    <3>2. ASSUME NEW c \in Cells, PatchCell(c) PROVE call' = call
      BY <3>2 DEF PatchCell
    <3>3. ASSUME NEW p \in call.copies, CopyCell(p) PROVE FALSE
      BY <1>4, <3>3 DEF CopyCell
    <3>4. Release => call' = call
      BY DEF Release
    <3> QED
      BY <1>1, <1>4, <3>1, <3>2, <3>3, <3>4, BuildSteps
  <2> QED
    BY <1>4, <2>1
<1>5. CASE call.op # "free"
  <2>1. PICK C \in SUBSET counted : Keeps(C)
    BY <1>1, <1>3, <1>5 DEF EditKeeps
  <2>2. count[Top.rec] > 0
    BY <1>1, <1>5, <2>1, DraftLive
  <2>3. \A p \in C : count[p[1]] > 0
    BY <1>1, <1>3, <2>1, <2>2 DEF Keeps
  <2>4. ASSUME NEW c \in Cells, PatchCell(c) PROVE \E D \in SUBSET counted' : Keeps(D)'
    <3> DEFINE p == <<Top.rec, c>>
    <3>1. /\ Building /\ c \notin Top.done /\ counted' = counted \ {p} /\ words' = [words EXCEPT ![p] = Nil]
          /\ SetTop([Top EXCEPT !.done = Done(Nil), !.at = c, !.run = Nil]) /\ moved' = moved
      BY <2>4 DEF PatchCell
    <3>2. Top'.run = Nil /\ Top'.done = Done(Nil)
      BY <1>1, <3>1, SlotScopes
    <3>3. p \notin C /\ Top.done \subseteq Top'.done
      BY <2>1, <3>1, <3>2 DEF Keeps, Done
    <3>4. C \subseteq counted' /\ \A q \in C : words'[q] = words[q]
      <4>1. \A q \in C : q # p /\ q \in Places
        BY <1>1, <2>1, <3>3
      <4> HIDE DEF p
      <4> QED
        BY <1>1, <2>1, <3>1, <4>1
    <3>5. Keeps(C)'
      BY <1>1, <2>1, <3>1, <3>2, <3>3, <3>4 DEF Keeps
    <3> QED
      BY <3>4, <3>5
  <2>5. ASSUME NEW p \in Places, NEW q \in Places, NEW x \in Records,
               q \notin counted, words' = [words EXCEPT ![q] = x], counted' = counted \cup {q},
               p = q \/ (p \in counted /\ words[p] = x),
               p[1] \in {Top.src, Top.rec} \/ \E o \in C : words[o] = p[1],
               Top.done \subseteq Top'.done, p[1] = Top.rec => p[2] \in Top'.done,
               \/ moved' = moved
               \/ /\ Len(moved') = Len(moved) + 1 /\ moved'[Len(moved) + 1] = x
                  /\ \A k \in 1..Len(moved) : moved'[k] = moved[k],
               Top'.run \in {Nil, Top.run, x}
        PROVE  \E D \in SUBSET counted' : Keeps(D)'
    <3>1. \A o \in C : o # q /\ o \in Places
      BY <1>1, <2>1, <2>5
    <3>2. \A o \in C : words'[o] = words[o]
      BY <1>1, <2>5, <3>1
    <3>3. words'[p] = x
      BY <1>1, <2>5
    <3>4. Keeps(C \cup {p})'
      BY <1>1, <2>1, <2>5, <3>2, <3>3, KeepsMore
    <3>5. C \cup {p} \subseteq counted'
      BY <2>1, <2>5
    <3> QED
      BY <3>4, <3>5
  <2>6. ASSUME NEW x \in Records, Hold(x)
        PROVE  \/ moved' = moved
               \/ /\ Len(moved') = Len(moved) + 1 /\ moved'[Len(moved) + 1] = x
                  /\ \A k \in 1..Len(moved) : moved'[k] = moved[k]
    <3>1. moved' = moved \/ moved' = Append(moved, x)
      BY <2>6 DEF Hold
    <3> QED
      BY <1>1, <3>1, AppendProperties
  <2>7. ASSUME NEW c \in Cells, NEW x \in Records, StoreCell(c, x) PROVE \E D \in SUBSET counted' : Keeps(D)'
    <3> DEFINE p == <<Top.rec, c>>
    <3>1. /\ Building /\ p \notin counted /\ counted' = counted \cup {p} /\ words' = [words EXCEPT ![p] = x]
          /\ SetTop([Top EXCEPT !.done = Done(c), !.at = Nil, !.run = Nil]) /\ Hold(x)
      BY <2>7 DEF StoreCell, Place
    <3>2. Top'.run = Nil /\ Top'.done = Done(c)
      BY <1>1, <3>1, SlotScopes
    <3>3. p \in Places /\ p[1] = Top.rec /\ p[2] = c /\ c \in Top'.done /\ Top.done \subseteq Top'.done
      <4>1. Top.rec \in Records
        BY <1>1, <3>1, TopType
      <4> QED
        BY <1>1, <3>2, <4>1 DEF Done, Places
    <3> HIDE DEF p
    <3> QED
      BY <2>5, <2>6, <3>1, <3>2, <3>3
  <2>8. ASSUME NEW c \in Cells, NEW u \in Records, StoreRun(c, u) PROVE \E D \in SUBSET counted' : Keeps(D)'
    <3> DEFINE p == <<Top.rec, c>>
    <3>1. /\ Building /\ p \notin counted /\ counted' = counted \cup {p} /\ words' = [words EXCEPT ![p] = u]
          /\ SetTop([Top EXCEPT !.done = Done(c), !.at = Nil, !.run = u]) /\ moved' = moved
      BY <2>8 DEF StoreRun
    <3>2. Top'.run = u /\ Top'.done = Done(c)
      BY <1>1, <3>1, SlotScopes
    <3>3. p \in Places /\ p[1] = Top.rec /\ p[2] = c /\ c \in Top'.done /\ Top.done \subseteq Top'.done
      <4>1. Top.rec \in Records
        BY <1>1, <3>1, TopType
      <4> QED
        BY <1>1, <3>2, <4>1 DEF Done, Places
    <3> HIDE DEF p
    <3> QED
      BY <2>5, <3>1, <3>2, <3>3
  <2>9. ASSUME NEW k \in Cells, NEW x \in Records, StoreItem(k, x) PROVE \E D \in SUBSET counted' : Keeps(D)'
    <3> DEFINE p == <<Top.run, k>>
    <3>1. /\ p \notin counted /\ counted' = counted \cup {p} /\ words' = [words EXCEPT ![p] = x]
          /\ frames' = frames /\ Hold(x) /\ Top.run # Nil /\ InBuild
      BY <2>9 DEF StoreItem, Place, Building
    <3>2. Top' = Top /\ Top.run # Top.rec /\ Top.run \in Records
      <4>1. Top.run \in Records \cup {Nil}
        BY <1>1, ScopeFacts DEF Frame, Editing
      <4> QED
        BY <3>1, <4>1 DEF Top, Drafts
    <3>3. p \in Places /\ p[1] = Top.run /\ \E o \in C : words[o] = Top.run
      BY <2>1, <3>1, <3>2 DEF Keeps, Places
    <3> HIDE DEF p
    <3> QED
      BY <2>5, <2>6, <3>1, <3>2, <3>3, ZenonT(40)
  <2>10. ASSUME NEW p \in call.copies, CopyCell(p) PROVE \E D \in SUBSET counted' : Keeps(D)'
    <3> DEFINE q == <<call.rec, p[2]>>
               x == words[p]
    <3>1. /\ call.op = "copy" /\ Hold(x) /\ words' = [words EXCEPT ![q] = x]
          /\ counted' = counted \cup {q} /\ frames' = frames
      BY <2>10 DEF CopyCell
    <3>2. /\ p[1] = Top.src /\ p \in Places /\ x \in Records /\ p[2] \in Cells /\ q \notin counted
          /\ call.rec = Top.rec /\ call.rec \in Records
      BY <1>1, <1>2, <3>1, ArenaFacts DEF TypeInv, Control, Call, Drafts, Nesting
    <3>3. p \in counted
      <4>1. count[p[1]] > 0 /\ words[p] # Nil
        BY <1>1, <1>3, <3>2
      <4> QED
        BY <3>2, <4>1 DEF Arena, IInv, CoverInv, Covered, Named
    <3>4. Top' = Top /\ q \in Places
      BY <3>1, <3>2 DEF Top, Places
    <3>5. words[p] = x
      OBVIOUS
    <3> HIDE DEF q, x
    <3> QED
      BY <1>2, <2>5, <2>6, <3>1, <3>2, <3>3, <3>4, <3>5
  <2>11. CASE Release
    <3>1. UNCHANGED <<moved, frames>> /\ dead \subseteq Records
      BY <1>1, <2>11, ArenaFacts DEF Release, scopes, TypeOK
    <3>2. PICK d \in dead :
            \/ \E p \in PlacesOf(d) :
                 /\ counted' = counted \ {p}
                 /\ words' = IF p[2] \in Sides THEN [words EXCEPT ![p] = Nil] ELSE words
            \/ UNCHANGED <<words, counted>>
      BY <2>11 DEF Release
    <3>3. ASSUME NEW p \in PlacesOf(d), counted' = counted \ {p},
                 words' = IF p[2] \in Sides THEN [words EXCEPT ![p] = Nil] ELSE words
          PROVE  \E D \in SUBSET counted' : Keeps(D)'
      <4>1. p[1] = d /\ count[d] = 0 /\ p \in Places
        BY <1>1, ArenaFacts DEF PlacesOf
      <4>2. p \notin C
        BY <2>3, <4>1
      <4>3. C \subseteq counted' /\ \A q \in C : words'[q] = words[q]
        BY <1>1, <2>1, <3>3, <4>1, <4>2
      <4>4. Keeps(C)'
        BY <2>1, <3>1, <4>3, KeepsSame
      <4> QED
        BY <4>3, <4>4
    <3>4. CASE UNCHANGED <<words, counted>>
      <4>1. Keeps(C)'
        BY <2>1, <3>1, <3>4, KeepsSame
      <4> QED
        BY <2>1, <3>4, <4>1
    <3> QED
      BY <3>2, <3>3, <3>4
  <2>12. CASE UNCHANGED <<words, counted, moved, frames>>
    <3>1. Keeps(C)'
      BY <2>1, <2>12, KeepsSame
    <3> QED
      BY <2>1, <2>12, <3>1
  <2> QED
    BY <1>1, <2>4, <2>7, <2>8, <2>9, <2>10, <2>11, <2>12, BuildSteps
<1> QED
  BY <1>4, <1>5

LEMMA EditKeepsStep ==
  ASSUME Arena, Arena', ~InterceptorsWrite, Nesting, Nesting', Drafts, Minted, Edits, EditKeeps, [Next]_vars
  PROVE  EditKeeps'
<1> SUFFICES ASSUME Editing', call'.op # "free", count'[Top'.src] > 0
             PROVE  \E C \in SUBSET counted' : Keeps(C)'
  BY DEF EditKeeps
<1>1. CASE frames = <<>>
  <2>1. PICK r \in Records, src \in Records : EditRecord(r, src)
    BY <1>1, BeginsEditing
  <2>2. Top'.run = Nil /\ moved' = moved
    BY <1>1, <2>1, EditBegun
  <2>3. Len(moved') = 0
    BY <1>1, <2>2 DEF Nesting
  <2>4. Keeps({})'
    BY <2>2, <2>3 DEF Keeps
  <2> QED
    BY <2>4
<1> QED
  BY <1>1, EditKeepsSame

-----------------------------------------------------------------------------
(* A thrown build leaves the handles as they were.                         *)

LEMMA LeavesRestored ==
  ASSUME Arena, Nesting, Taken, Minted, EditKeeps, Balance, InScope,
         Throws, frames' # frames, Top.src # Nil => count[Top.src] > 0
  PROVE  owned' = ownedAt[Len(ownedAt)]
<1>1. TypeInv /\ owned \in SUBSET Records /\ Nesting
  BY ArenaFacts DEF TypeOK
<1>2. CASE Refuses
  <2>1. Editing /\ call.n \in 1..Len(moved) /\ call.op = "giveback" /\ count[moved[call.n]] = 0
    BY <1>2, RefusesEdit
  <2>2. PICK C \in SUBSET counted : Keeps(C)
    BY <2>1 DEF EditKeeps, Editing
  <2>3. PICK q \in C : words[q] = moved[call.n]
    BY <2>1, <2>2 DEF Keeps
  <2>4. count[words[q]] > 0
    BY <2>2, <2>3, ArenaFacts
  <2> QED
    BY <2>1, <2>3, <2>4
<1>3. CASE Leaves
  <2>1. /\ call.op = "free" /\ call.n <= Top.minted /\ owned' = owned /\ frames # <<>>
    BY <1>3 DEF Leaves, Ends
  <2>2. /\ Len(frames) \in 1..Len(frames) /\ Top = frames[Len(frames)] /\ Top.minted \in Nat /\ Top.moved \in Nat
    BY <1>1, <2>1, ScopeFacts
  <2>3. Built = Top.minted /\ Still = Top.moved
    BY <2>1, <2>2, ListFacts
  <2>4. PICK S : S = ownedAt[Len(frames)]
    OBVIOUS
  <2>5. Balanced(Top.minted, Top.moved, S) /\ Len(ownedAt) = Len(frames) /\ S \in SUBSET Records
    <3>1. Balanced(Top.minted, Top.moved, S) /\ Len(ownedAt) = Len(frames)
      BY <2>2, <2>4 DEF Balance
    <3>2. Len(frames) \in 1..Len(ownedAt) /\ ownedAt \in Seq(SUBSET Records)
      BY <2>2, <3>1 DEF Balance
    <3> QED
      BY <2>4, <3>1, <3>2, ElementOfSeq
  <2>6. Top.minted + 1..Built = {} /\ Top.moved + 1..Still = {}
    BY <2>2, <2>3
  <2>7. \A x \in Records : x \in S <=> x \in owned
    BY <2>5, <2>6 DEF Balanced
  <2>8. S = owned
    BY <1>1, <2>5, <2>7
  <2> QED
    BY <2>1, <2>4, <2>5, <2>8
<1> QED
  BY <1>2, <1>3
     DEF InScope, Opens, UserCode, Idle, Mints, Places1, Runs, Patches, Stays, Throwing, Finishes,
         GivesBack, Turns, Frees, Drops, Buries, Throws

LEMMA RollbackRefines == RollbackSpec => Spec
<1>1. RollbackInit => Init
  BY DEF RollbackInit
<1>2. [RollbackNext]_rollbackVars => [Next]_vars
  BY DEF RollbackNext, rollbackVars
<1> QED
  BY <1>1, <1>2, PTL DEF RollbackSpec, Spec

RollbackInv == ScopeInv /\ Edits /\ EditKeeps /\ Balance

LEMMA RollbackInvStep ==
  ASSUME Arena, Arena', ~InterceptorsWrite, RollbackInv, [RollbackNext]_rollbackVars
  PROVE  RollbackInv'
<1>1. [Next]_vars /\ (frames # <<>> \/ frames' # <<>> => InScope) /\ Nesting'
  <2>1. [Next]_vars
    BY DEF RollbackNext, rollbackVars
  <2> QED
    BY <2>1, ScopesStep DEF RollbackInv, ScopeInv
<1>2. ScopeInv'
  BY <1>1, ScopeStep DEF RollbackInv
<1>3. Edits' /\ EditKeeps'
  BY <1>1, EditsStep, EditKeepsStep DEF RollbackInv, ScopeInv
<1>4. Balance'
  <2>1. CASE RollbackNext
    BY <1>1, <2>1, BalanceStep DEF RollbackInv, ScopeInv
  <2>2. CASE UNCHANGED rollbackVars
    BY <2>2 DEF rollbackVars, vars, counts, scopes, RollbackInv, Balance, Balanced, Built, Still, Top
  <2> QED
    BY <2>1, <2>2
<1> QED
  BY <1>2, <1>3, <1>4 DEF RollbackInv

LEMMA RollbackInvHolds == ASSUME ~InterceptorsWrite PROVE RollbackSpec => []RollbackInv
<1>1. RollbackInit => RollbackInv
  <2> SUFFICES ASSUME RollbackInit PROVE RollbackInv
    OBVIOUS
  <2>1. Init /\ frames = <<>> /\ Len(frames) = 0 /\ ownedAt = <<>> /\ Len(ownedAt) = 0
    BY EmptySeq DEF RollbackInit, Init
  <2>2. ownedAt \in Seq(SUBSET Records)
    BY <2>1, EmptySeq
  <2> QED
    BY <2>1, <2>2, InitScope DEF RollbackInv, Edits, EditKeeps, Editing, Balance
<1>2. Arena /\ Arena' /\ RollbackInv /\ [RollbackNext]_rollbackVars => RollbackInv'
  BY RollbackInvStep
<1> QED
  BY <1>1, <1>2, ArenaHolds, RollbackRefines, PTL DEF RollbackSpec

\* With interceptors that only build, a build that throws leaves every handle with the count
\* it had when the build began (RollbackRestores), whatever was built and thrown inside it.
THEOREM RollbackRestored == ASSUME ~InterceptorsWrite PROVE RollbackSpec => RollbackRestores
<1>1. Arena /\ Arena' /\ RollbackInv /\ [RollbackNext]_rollbackVars
        => [Throws /\ frames' # frames /\ (Top.src # Nil => count[Top.src] > 0) =>
              owned' = ownedAt[Len(ownedAt)]]_rollbackVars
  <2> SUFFICES ASSUME Arena, Arena', RollbackInv, RollbackNext,
                      Throws, frames' # frames, Top.src # Nil => count[Top.src] > 0
               PROVE  owned' = ownedAt[Len(ownedAt)]
    OBVIOUS
  <2>1. [Next]_vars
    BY DEF RollbackNext
  <2>2. frames # <<>>
    BY ArenaFacts DEF Throws, TypeInv, Control
  <2>3. InScope
    BY <2>1, <2>2, ScopesStep DEF RollbackInv, ScopeInv
  <2> QED
    BY <2>3, LeavesRestored DEF RollbackInv, ScopeInv
<1> QED
  BY <1>1, ArenaHolds, RollbackRefines, RollbackInvHolds, PTL DEF RollbackSpec, RollbackRestores

-----------------------------------------------------------------------------
(* Nothing leaks: cells name records in no circle.                         *)

\* What is named was placed, in a released record's words too.
WordsPlaced == \A p \in Places : words[p] # Nil => chunkOf[words[p]] # 0

\* A draft is named by nothing and its handle holds it; the run it writes is named by it.
Drafted ==
  InBuild =>
    /\ \A p \in counted : words[p] # Top.rec
    /\ call.op = "copy" => \A p \in call.copies : words[p] # Top.rec
    /\ Top.run # Nil => Top.run \notin handed /\ \A p \in counted : words[p] = Top.run => p[1] = Top.rec
    /\ call.op \in {"none", "copy"} =>
         Top.rec \in owned /\ (Top.run # Nil => \E p \in counted : words[p] = Top.run)

\* The cells that hold a count are a live record's, or of one being released.
LiveCells == \A p \in counted : p[2] \in Cells => count[p[1]] > 0 \/ p[1] \in dead

\* Of any records one is named by no cell of the others, nor by its own.
Grounded ==
  \A S \in SUBSET Records : S # {} =>
    \E x \in S : \A p \in counted : p[1] \in S /\ p[2] \in Cells => words[p] # x

LeakInv == WordsPlaced /\ Drafted /\ LiveCells /\ Grounded

\* A place names what it did, or nothing, or what it holds.
LEMMA WordsWritten ==
  ASSUME TypeOK, [Next]_vars, NEW p \in Places
  PROVE  words'[p] \in {words[p], Nil} \/ p \in counted'
<1> DEFINE Goal == words'[p] \in {words[p], Nil} \/ p \in counted'
<1>1. words \in [Places -> Records \cup {Nil}]
  BY DEF TypeOK
<1>2. ASSUME NEW q, NEW x, words' = [words EXCEPT ![q] = x], x = Nil \/ q \in counted' PROVE Goal
  BY <1>1, <1>2
<1>3. words' = words => Goal
  OBVIOUS
<1> SUFFICES Goal
  OBVIOUS
<1> HIDE DEF Goal
<1>4. CASE Release
  <2>1. PICK x : x = Nil
    OBVIOUS
  <2>2. words' = words \/ \E q : words' = [words EXCEPT ![q] = x]
    BY <1>4, <2>1 DEF Release
  <2>3. ASSUME NEW q, words' = [words EXCEPT ![q] = x] PROVE Goal
    BY <1>2, <2>1, <2>3
  <2> QED
    BY <1>3, <2>2, <2>3
<1>5. ASSUME NEW o \in call.copies, CopyCell(o) \/ CarrySide(o) PROVE Goal
  <2>1. PICK x : x = words[o]
    OBVIOUS
  <2>2. \E q : words' = [words EXCEPT ![q] = x] /\ q \in counted'
    BY <1>5, <2>1 DEF CopyCell, CarrySide
  <2> QED
    BY <1>2, <2>2
<1>6. ASSUME NEW c \in Cells, PatchCell(c) PROVE Goal
  <2>1. PICK x, q : x = Nil /\ q = <<Top.rec, c>>
    OBVIOUS
  <2>2. words' = [words EXCEPT ![q] = x]
    BY <1>6, <2>1 DEF PatchCell
  <2> QED
    BY <1>2, <2>1, <2>2
<1>7. ASSUME NEW c \in Cells, NEW x \in Records, StoreCell(c, x) \/ StoreRun(c, x) \/ StoreItem(c, x) PROVE Goal
  <2>1. \E q : words' = [words EXCEPT ![q] = x] /\ q \in counted'
    BY <1>7 DEF StoreCell, StoreRun, StoreItem, Place
  <2> QED
    BY <1>2, <2>1
<1>8. ASSUME NEW h \in Records, NEW s \in Sides, NEW x \in Records \cup {Nil}, WriteSide(h, s, x) PROVE Goal
  <2>1. words' = [words EXCEPT ![<<h, s>>] = x] /\ (x # Nil => <<h, s>> \in counted')
    BY <1>8 DEF WriteSide
  <2> QED
    BY <1>2, <2>1
<1>9. CASE Continues
  <2>1. CopyRefused \/ ReturnEdit \/ RefuseEdit \/ GiveBackMoved \/ FreeMinted \/ Abandoned \/ AbandonRefused
          \/ CloseNext \/ Closed \/ CloseRefused => words' = words
    BY DEF CopyRefused, ReturnEdit, RefuseEdit, GiveBackMoved, FreeMinted, Abandoned, AbandonRefused,
           CloseNext, Closed, CloseRefused, counts
  <2>2. ASSUME words' = words PROVE Goal
    BY <1>3, <2>2
  <2>3. ASSUME NEW o \in call.copies, CopyCell(o) PROVE Goal
    BY <1>5, <2>3
  <2>4. ASSUME NEW o \in call.copies, CarrySide(o) PROVE Goal
    BY <1>5, <2>4
  <2> QED
    BY <1>4, <1>9, <2>1, <2>2, <2>3, <2>4 DEF Continues
<1>10. CASE Starts
  <2>1. ASSUME NEW r \in Records, BuildRecord(r) \/ (\E src \in Records : EditRecord(r, src)) PROVE Goal
    BY <1>3, <2>1 DEF BuildRecord, EditRecord
  <2>2. ASSUME NEW x \in Records, ReleaseNode(x) PROVE Goal
    BY <1>3, <2>2 DEF ReleaseNode
  <2>3. ASSUME NEW i \in 1..MaxCommits, NEW x \in Records, Keep(i, x) PROVE Goal
    BY <1>3, <2>3 DEF Keep
  <2>4. InterceptBuild \/ InternText \/ FinishBuild \/ FinishIntercepted \/ Throw \/ OpenCommit \/ CloseCommit
          => Goal
    BY <1>3 DEF InterceptBuild, InternText, FinishBuild, FinishIntercepted, Throw, OpenCommit, CloseCommit, counts
  <2> QED
    BY <1>6, <1>7, <1>8, <1>10, <2>1, <2>2, <2>3, <2>4 DEF Starts
<1>11. UNCHANGED vars => words' = words
  BY DEF vars, counts
<1> QED
  BY <1>3, <1>9, <1>10, <1>11 DEF Next

LEMMA WordsPlacedStep ==
  ASSUME Arena, Arena', WordsPlaced, [Next]_vars
  PROVE  WordsPlaced'
<1> SUFFICES ASSUME NEW p \in Places, words'[p] # Nil PROVE chunkOf'[words'[p]] # 0
  BY DEF WordsPlaced
<1>1. TypeInv /\ TypeOK /\ open \in Nat /\ PlacedNames' /\ words[p] \in Records \cup {Nil}
  BY ArenaFacts DEF Arena, IInv, CoverInv, Placement, TypeOK
<1>2. CASE p \in counted'
  BY <1>1, <1>2 DEF PlacedNames
<1>3. CASE words'[p] = words[p]
  <2>1. words[p] \in Records /\ chunkOf[words[p]] # 0
    BY <1>1, <1>3 DEF WordsPlaced
  <2>2. chunkOf'[words[p]] = chunkOf[words[p]]
    BY <1>1, <2>1, ChunksGrow
  <2> QED
    BY <1>3, <2>1, <2>2
<1> QED
  BY <1>1, <1>2, <1>3, WordsWritten


-----------------------------------------------------------------------------
(* The cells a step writes.                                                *)

\* A running build writes cell p: of its record, or an item of its run.
Stored(p) ==
  /\ InBuild /\ call.op \in {"none", "copy"}
  /\ \/ /\ p[1] = Top.rec
        /\ \/ words'[p] \in handed
           \/ chunkOf[words'[p]] = 0
           \/ call.op = "copy" /\ \E o \in call.copies : words'[p] = words[o]
     \/ Top.run # Nil /\ p[1] = Top.run /\ words'[p] \in handed

\* A cell that holds a count held it before, or a running build writes it.
LEMMA CellsWritten ==
  ASSUME Arena, Nesting, [Next]_vars, NEW p \in counted', p[2] \in Cells
  PROVE  (p \in counted /\ words'[p] = words[p]) \/ Stored(p)
<1> DEFINE Goal == (p \in counted /\ words'[p] = words[p]) \/ Stored(p)
<1> SUFFICES Goal
  OBVIOUS
<1>1. words \in [Places -> Records \cup {Nil}] /\ counted \subseteq Places /\ TypeInv
  BY ArenaFacts
<1>2. (counted' = counted /\ words' = words) => Goal
  OBVIOUS
\* One place is written: it holds a count from now on, or none.
<1>3. ASSUME NEW q, NEW x, words' = [words EXCEPT ![q] = x], counted' = counted \cup {q}, p # q PROVE Goal
  BY <1>1, <1>3
<1>4. ASSUME NEW q, NEW x, words' = [words EXCEPT ![q] = x] \/ words' = words, counted' = counted \ {q} PROVE Goal
  BY <1>1, <1>4
<1>5. ASSUME NEW q \in Places, NEW x, words' = [words EXCEPT ![q] = x], counted' = counted \cup {q},
             InBuild, call.op \in {"none", "copy"},
             \/ q[1] = Top.rec /\ (x \in handed \/ chunkOf[x] = 0 \/ (call.op = "copy" /\ \E o \in call.copies : x = words[o]))
             \/ Top.run # Nil /\ q[1] = Top.run /\ x \in handed
      PROVE  Goal
  <2>1. CASE p = q
    <3>1. words'[p] = x
      BY <1>1, <1>5, <2>1
    <3> QED
      BY <1>5, <2>1, <3>1 DEF Stored
  <2> QED
    BY <1>3, <1>5, <2>1
<1> HIDE DEF Goal
<1>6. CASE Release
  <2>1. PICK x : x = Nil
    OBVIOUS
  <2>2. \/ counted' = counted /\ words' = words
        \/ \E q : (words' = [words EXCEPT ![q] = x] \/ words' = words) /\ counted' = counted \ {q}
    BY <1>6, <2>1 DEF Release
  <2>3. ASSUME NEW q, words' = [words EXCEPT ![q] = x] \/ words' = words, counted' = counted \ {q} PROVE Goal
    BY <1>4, <2>3
  <2> QED
    BY <1>2, <2>2, <2>3
<1>7. ASSUME NEW o \in call.copies, CopyCell(o) PROVE Goal
  <2>1. PICK x : x = words[o]
    OBVIOUS
  <2>2. PICK q : q = <<call.rec, o[2]>>
    OBVIOUS
  <2>3. call.op = "copy" /\ words' = [words EXCEPT ![q] = x] /\ counted' = counted \cup {q}
    BY <1>7, <2>1, <2>2 DEF CopyCell
  <2>4. frames # <<>> /\ Top.src # Nil /\ call.rec = Top.rec /\ call.rec \in Records
    BY <1>1, <2>3 DEF Nesting, Editing, TypeInv, Control
  <2>5. InBuild
    BY <1>1, <2>4, ScopeFacts DEF Nesting, InBuild
  <2>6. q \in Places /\ q[1] = Top.rec
    <3>1. call \in Call
      BY ArenaFacts
    <3>2. o \in Places
      BY <3>1 DEF Call
    <3> QED
      BY <2>2, <2>4, <3>2 DEF Places
  <2> QED
    BY <1>5, <1>7, <2>1, <2>3, <2>5, <2>6
<1>8. ASSUME NEW o \in call.copies, CarrySide(o) PROVE Goal
  <2>1. PICK x : x = words[o]
    OBVIOUS
  <2>2. PICK q : q = <<call.rec, o[2]>>
    OBVIOUS
  <2>3. call.op = "carry" /\ words' = [words EXCEPT ![q] = x] /\ counted' = counted \cup {q}
    BY <1>8, <2>1, <2>2 DEF CarrySide
  <2>4. q[2] \in Sides
    BY <2>2, <2>3 DEF Arena, BuildsInner
  <2>5. p # q
    BY <2>4, ConstantsAssumption
  <2> QED
    BY <1>3, <2>3, <2>5
<1>9. ASSUME NEW c \in Cells, PatchCell(c) PROVE Goal
  <2>1. PICK x : x = Nil
    OBVIOUS
  <2>2. PICK q : q = <<Top.rec, c>>
    OBVIOUS
  <2>3. words' = [words EXCEPT ![q] = x] /\ counted' = counted \ {q}
    BY <1>9, <2>1, <2>2 DEF PatchCell
  <2> QED
    BY <1>4, <2>3
<1>10. ASSUME NEW c \in Cells, NEW x \in Records, StoreCell(c, x) \/ StoreRun(c, x) PROVE Goal
  <2>1. PICK q : q = <<Top.rec, c>>
    OBVIOUS
  <2>2. words' = [words EXCEPT ![q] = x] /\ counted' = counted \cup {q} /\ Building /\ (x \in handed \/ chunkOf[x] = 0)
    BY <1>10, <2>1 DEF StoreCell, StoreRun, Place, Alloc
  <2>3. q \in Places /\ q[1] = Top.rec
    <3>1. Top.rec \in Records
      BY <1>1, <2>2, ScopeFacts DEF TypeInv, Control, Building, InBuild
    <3> QED
      BY <2>1, <3>1 DEF Places
  <2> QED
    BY <1>5, <2>2, <2>3 DEF Building, Idle
<1>11. ASSUME NEW c \in Cells, NEW x \in Records, StoreItem(c, x) PROVE Goal
  <2>1. PICK q : q = <<Top.run, c>>
    OBVIOUS
  <2>2. words' = [words EXCEPT ![q] = x] /\ counted' = counted \cup {q} /\ Building /\ x \in handed /\ Top.run # Nil
    BY <1>11, <2>1 DEF StoreItem, Place
  <2>3. q \in Places /\ q[1] = Top.run
    <3>1. Top \in Frame
      BY <1>1, <2>2, ScopeFacts DEF Building, InBuild
    <3>2. Top.run \in Records
      BY <2>2, <3>1 DEF Frame
    <3> QED
      BY <2>1, <3>2 DEF Places
  <2> QED
    BY <1>5, <2>2, <2>3 DEF Building, Idle
<1>12. ASSUME NEW h \in Records, NEW s \in Sides, NEW x \in Records \cup {Nil}, WriteSide(h, s, x) PROVE Goal
  <2>1. PICK q : q = <<h, s>>
    OBVIOUS
  <2>2. words' = [words EXCEPT ![q] = x] /\ (counted' = counted \ {q} \/ counted' = counted \cup {q})
    BY <1>12, <2>1 DEF WriteSide
  <2>3. p # q
    BY <2>1, ConstantsAssumption
  <2> QED
    BY <1>3, <1>4, <2>2, <2>3
<1>13. CASE Continues
  <2>1. CopyRefused \/ ReturnEdit \/ RefuseEdit \/ GiveBackMoved \/ FreeMinted \/ Abandoned \/ AbandonRefused
          \/ CloseNext \/ Closed \/ CloseRefused => Goal
    BY <1>2 DEF CopyRefused, ReturnEdit, RefuseEdit, GiveBackMoved, FreeMinted, Abandoned, AbandonRefused,
                CloseNext, Closed, CloseRefused, counts
  <2> QED
    BY <1>6, <1>7, <1>8, <1>13, <2>1 DEF Continues
<1>14. CASE Starts
  <2>1. ASSUME NEW r \in Records, BuildRecord(r) \/ (\E src \in Records : EditRecord(r, src)) PROVE Goal
    BY <1>2, <2>1 DEF BuildRecord, EditRecord
  <2>2. ASSUME NEW x \in Records, ReleaseNode(x) PROVE Goal
    BY <1>2, <2>2 DEF ReleaseNode
  <2>3. ASSUME NEW i \in 1..MaxCommits, NEW x \in Records, Keep(i, x) PROVE Goal
    BY <1>2, <2>3 DEF Keep
  <2>4. InterceptBuild \/ InternText \/ FinishBuild \/ FinishIntercepted \/ Throw \/ OpenCommit \/ CloseCommit
          => Goal
    BY <1>2 DEF InterceptBuild, InternText, FinishBuild, FinishIntercepted, Throw, OpenCommit, CloseCommit, counts
  <2> QED
    BY <1>9, <1>10, <1>11, <1>12, <1>14, <2>1, <2>2, <2>3, <2>4 DEF Starts
<1>15. UNCHANGED vars => Goal
  BY <1>2 DEF vars, counts
<1> QED
  BY <1>13, <1>14, <1>15 DEF Next


\* A record that is held or being released is so still, or holds nothing any more.
LEMMA StaysHeld ==
  ASSUME Arena, [Next]_vars, NEW x \in Records, count[x] > 0 \/ x \in dead
  PROVE  count'[x] > 0 \/ x \in dead' \/ PlacesOf(x)' = {}
<1> DEFINE Goal == count'[x] > 0 \/ x \in dead' \/ PlacesOf(x)' = {}
<1> SUFFICES Goal
  OBVIOUS
<1>1. /\ count \in [Records -> Nat] /\ TypeInv /\ call \in Call
      /\ \A p \in counted : words[p] \in Records
  BY ArenaFacts
<1>2. UNCHANGED <<count, dead>> => Goal
  OBVIOUS
<1>3. ASSUME NEW cnt \in [Records -> Nat], cnt[x] >= count[x], NEW y,
             count' = Dropped(cnt, y), dead' = Released(cnt, y)
      PROVE  Goal
  BY <1>1, <1>3 DEF Dropped, Released
<1>4. ASSUME NEW y, count' = [count EXCEPT ![y] = @ + 1] \/ count' = [count EXCEPT ![y] = 1], dead' = dead PROVE Goal
  BY <1>1, <1>4
<1>5. \A y \in Records : Adopted(y) \in [Records -> Nat] /\ Adopted(y)[x] >= count[x]
  BY <1>1 DEF Adopted
<1> HIDE DEF Goal
<1>6. ASSUME NEW y, Hold(y), dead' = dead PROVE Goal
  BY <1>2, <1>4, <1>6 DEF Hold
<1>7. ASSUME NEW y, ReleaseOwned(y) PROVE Goal
  <2>1. count[x] >= count[x]
    BY <1>1
  <2> QED
    BY <1>1, <1>2, <1>3, <1>7, <2>1 DEF ReleaseOwned
<1>8. ASSUME NEW y, GiveBack(y), dead' = dead PROVE Goal
  BY <1>4, <1>8 DEF GiveBack
<1>9. CASE Release
  <2>1. CASE \E d \in dead : \E p \in PlacesOf(d) : count' = Dropped(count, words[p]) /\ dead' = Released(count, words[p])
    <3>1. count[x] >= count[x]
      BY <1>1
    <3> QED
      BY <1>1, <1>3, <2>1, <3>1
  <2>2. ASSUME NEW d \in dead, PlacesOf(d) = {}, dead' = dead \ {d}, UNCHANGED <<count, words, counted>> PROVE Goal
    <3>1. x # d => count'[x] > 0 \/ x \in dead'
      BY <2>2
    <3>2. x = d => PlacesOf(x)' = {}
      BY <2>2 DEF PlacesOf
    <3> QED
      BY <3>1, <3>2 DEF Goal
  <2> QED
    BY <1>9, <2>1, <2>2 DEF Release
<1>10. CASE Continues
  <2>1. ASSUME NEW p \in call.copies, CopyCell(p) PROVE Goal
    BY <1>6, <2>1 DEF CopyCell
  <2>2. ASSUME NEW p \in call.copies, CarrySide(p) PROVE Goal
    <3>1. count' = Adopted(words[p]) /\ dead' = dead /\ words[p] \in Records
      BY <1>1, <2>2 DEF CarrySide, TypeInv, Control
    <3> QED
      BY <1>2, <1>4, <3>1 DEF Adopted
  <2>3. CASE RefuseEdit
    BY <1>7, <2>3 DEF RefuseEdit
  <2>4. CASE GiveBackMoved
    BY <1>2, <1>8, <2>4 DEF GiveBackMoved
  <2>5. CASE FreeMinted
    BY <1>7, <2>5 DEF FreeMinted
  <2>6. CASE CloseNext
    BY <1>2, <1>7, <2>6 DEF CloseNext
  <2>7. CopyRefused \/ ReturnEdit \/ Abandoned \/ AbandonRefused \/ Closed \/ CloseRefused => Goal
    BY <1>2 DEF CopyRefused, ReturnEdit, Abandoned, AbandonRefused, Closed, CloseRefused, counts
  <2> QED
    BY <1>9, <1>10, <2>1, <2>2, <2>3, <2>4, <2>5, <2>6, <2>7 DEF Continues
<1>11. CASE Starts
  <2>1. ASSUME NEW r \in Records, BuildRecord(r) \/ (\E src \in Records : EditRecord(r, src)) PROVE Goal
    BY <1>4, <2>1 DEF BuildRecord, EditRecord, Mint
  <2>2. ASSUME NEW c \in Cells, PatchCell(c) PROVE Goal
    <3>1. count[x] >= count[x]
      BY <1>1
    <3> QED
      BY <1>1, <1>3, <2>2, <3>1 DEF PatchCell
  <2>3. ASSUME NEW c \in Cells, NEW y \in Records, StoreCell(c, y) \/ StoreItem(c, y) PROVE Goal
    BY <1>6, <2>3 DEF StoreCell, StoreItem, Place
  <2>4. ASSUME NEW c \in Cells, NEW y \in Records, StoreRun(c, y) PROVE Goal
    BY <1>4, <2>4 DEF StoreRun
  <2>5. ASSUME NEW y \in Records, ReleaseNode(y) PROVE Goal
    BY <1>7, <2>5 DEF ReleaseNode
  <2>6. ASSUME NEW i \in 1..MaxCommits, NEW y \in Records, Keep(i, y) PROVE Goal
    BY <1>2, <1>8, <2>6 DEF Keep
  <2>7. ASSUME NEW h \in Records, NEW s \in Sides, NEW y \in Records \cup {Nil}, WriteSide(h, s, y) PROVE Goal
    <3>1. PICK held : held = IF y = Nil THEN count ELSE Adopted(y)
      OBVIOUS
    <3>2. held \in [Records -> Nat] /\ held[x] >= count[x]
      BY <1>1, <1>5, <3>1
    <3>3. \/ count' = Dropped(held, words[<<h, s>>]) /\ dead' = Released(held, words[<<h, s>>])
          \/ count' = held /\ dead' = dead
      BY <2>7, <3>1 DEF WriteSide
    <3>4. CASE count' = held /\ dead' = dead
      BY <1>1, <3>2, <3>4 DEF Goal
    <3> QED
      BY <1>3, <3>2, <3>3, <3>4
  <2>8. InterceptBuild \/ InternText \/ FinishBuild \/ FinishIntercepted \/ Throw \/ OpenCommit \/ CloseCommit
          => Goal
    BY <1>2 DEF InterceptBuild, InternText, FinishBuild, FinishIntercepted, Throw, OpenCommit, CloseCommit, counts
  <2> QED
    BY <1>11, <2>1, <2>2, <2>3, <2>4, <2>5, <2>6, <2>7, <2>8 DEF Starts
<1>12. UNCHANGED vars => Goal
  BY <1>2 DEF vars, counts
<1> QED
  BY <1>10, <1>11, <1>12 DEF Next

LEMMA LiveCellsStep ==
  ASSUME Arena, Nesting, Drafted, LiveCells, [Next]_vars
  PROVE  LiveCells'
<1> SUFFICES ASSUME NEW p \in counted', p[2] \in Cells
             PROVE  count'[p[1]] > 0 \/ p[1] \in dead'
  BY DEF LiveCells
<1>1. p \notin PlacesOf(p[1])' => FALSE
  BY DEF PlacesOf
<1>2. ASSUME p[1] \in Records, count[p[1]] > 0 \/ p[1] \in dead PROVE count'[p[1]] > 0 \/ p[1] \in dead'
  <2>1. PICK x \in Records : x = p[1]
    BY <1>2
  <2>2. count'[x] > 0 \/ x \in dead' \/ PlacesOf(x)' = {}
    BY <1>2, <2>1, StaysHeld
  <2>3. PlacesOf(x)' # {}
    BY <2>1 DEF PlacesOf
  <2> QED
    BY <2>1, <2>2, <2>3
<1>3. CASE p \in counted
  <2>1. p[1] \in Records
    BY <1>3, ArenaFacts DEF Places
  <2> QED
    BY <1>2, <1>3, <2>1 DEF LiveCells
<1>4. CASE Stored(p)
  <2>1. InBuild /\ call.op \in {"none", "copy"} /\ (p[1] = Top.rec \/ (Top.run # Nil /\ p[1] = Top.run))
    BY <1>4 DEF Stored
  <2>2. Top.rec \in owned /\ (Top.run # Nil => \E q \in counted : words[q] = Top.run)
    BY <2>1 DEF Drafted
  <2>3. p[1] \in Records /\ count[p[1]] > 0
    BY <2>1, <2>2, ArenaFacts
  <2> QED
    BY <1>2, <2>3
<1> QED
  BY <1>3, <1>4, CellsWritten

LEMMA GroundedStep ==
  ASSUME Arena, Nesting, Drafted, Grounded, [Next]_vars
  PROVE  Grounded'
<1> SUFFICES ASSUME NEW S \in SUBSET Records, S # {}
             PROVE  \E x \in S : \A p \in counted' : p[1] \in S /\ p[2] \in Cells => words'[p] # x
  BY DEF Grounded
<1>1. \A p \in counted' : p[2] \in Cells => (p \in counted /\ words'[p] = words[p]) \/ Stored(p)
  BY CellsWritten
<1>2. CASE \A p \in counted' : p[1] \in S /\ p[2] \in Cells => ~Stored(p)
  <2>1. PICK x \in S : \A p \in counted : p[1] \in S /\ p[2] \in Cells => words[p] # x
    BY DEF Grounded
  <2> QED
    BY <1>1, <1>2, <2>1
<1>3. ASSUME NEW o \in counted', o[1] \in S, Stored(o)
      PROVE  \E x \in S : \A p \in counted' : p[1] \in S /\ p[2] \in Cells => words'[p] # x
  <2>1. /\ InBuild /\ call.op \in {"none", "copy"} /\ (o[1] = Top.rec \/ (Top.run # Nil /\ o[1] = Top.run))
    BY <1>3 DEF Stored
  <2>2. Top.rec \notin handed /\ chunkOf[Top.rec] # 0
    <3>1. frames # <<>> /\ Len(frames) \in 1..Len(frames) /\ Top = frames[Len(frames)] /\ Top.kind = "build"
      BY <2>1, ArenaFacts, ScopeFacts DEF InBuild
    <3> QED
      BY <3>1 DEF Arena, BuildsInner, IInv, CoverInv, Placement, PlacedFrames
  <2>3. CASE Top.rec \in S
    <3>1. ASSUME NEW p \in counted', Stored(p) PROVE words'[p] # Top.rec
      BY <2>1, <2>2, <3>1 DEF Stored, Drafted
    <3>2. ASSUME NEW p \in counted PROVE words[p] # Top.rec
      BY <2>1, <3>2 DEF Drafted
    <3> QED
      BY <1>1, <2>3, <3>1, <3>2
  <2>4. CASE Top.rec \notin S
    <3>1. Top.run \in S /\ Top.run # Nil
      BY <1>3, <2>1, <2>4
    <3>2. ASSUME NEW p \in counted', p[1] \in S, Stored(p) PROVE words'[p] # Top.run
      BY <2>1, <2>4, <3>1, <3>2 DEF Stored, Drafted
    <3>3. ASSUME NEW p \in counted, p[1] \in S PROVE words[p] # Top.run
      BY <2>1, <2>4, <3>1, <3>3 DEF Drafted
    <3> QED
      BY <1>1, <3>1, <3>2, <3>3
  <2> QED
    BY <2>3, <2>4
<1> QED
  BY <1>2, <1>3


-----------------------------------------------------------------------------
(* The draft of a running build.                                           *)

\* A new draft is named by nothing.
LEMMA DraftBegins ==
  ASSUME Arena, Arena', ~InterceptorsWrite, WordsPlaced, ~InBuild, InBuild', [Next]_vars
  PROVE  Drafted'
<1>1. TypeInv /\ NoCall.op = "none" /\ words \in [Places -> Records \cup {Nil}] /\ counted \subseteq Places
      /\ \A p \in counted : words[p] \in Records
  BY ArenaFacts, NoCallType
<1>2. ASSUME NEW r \in Records, NEW src \in Records \cup {Nil}, UserCode, Mint(r, src),
             UNCHANGED <<words, counted, dead, handed, moved>>,
             \/ src = Nil /\ call'.op = "none"
             \/ frames = <<>> /\ src # Nil /\ (call'.op = "copy" => call'.rec = r),
             call'.op \in {"none", "copy"},
             call'.op = "copy" => \A p \in call'.copies : p \in Places /\ words[p] # Nil
      PROVE  Drafted'
  <2>1. Top'.rec = r /\ Top'.run = Nil /\ chunkOf[r] = 0 /\ owned' = owned \cup {r}
    BY <1>1, <1>2, MintScope DEF Mint, Alloc
  <2>2. \A p \in Places : words[p] # Nil => words[p] # r
    BY <2>1 DEF WordsPlaced
  <2>3. \A p \in counted : words[p] # r
    BY <1>1, <2>2, ConstantsAssumption
  <2> QED
    BY <1>2, <2>1, <2>2, <2>3 DEF Drafted
<1>3. PICK r \in Records : BuildRecord(r) \/ \E src \in Records : EditRecord(r, src)
  BY BeginsBuilding
<1>4. CASE BuildRecord(r)
  <2>1. UserCode /\ Mint(r, Nil) /\ UNCHANGED <<words, counted, dead, handed, moved>> /\ call'.op = "none"
    BY <1>4 DEF BuildRecord, UserCode, Idle
  <2> QED
    BY <1>2, <2>1
<1>5. ASSUME NEW src \in Records, EditRecord(r, src) PROVE Drafted'
  <2> DEFINE from == {p \in {src} \X Cells : words[p] # Nil}
  <2>1. /\ UserCode /\ Mint(r, src) /\ UNCHANGED <<words, counted, dead, handed, moved>> /\ frames = <<>>
        /\ call' = IF from = {} THEN NoCall ELSE [NoCall EXCEPT !.op = "copy", !.rec = r, !.copies = from]
    BY <1>5 DEF EditRecord, UserWrites
  <2>2. \/ call'.op = "none"
        \/ call'.op = "copy" /\ call'.rec = r /\ call'.copies = from
    BY <1>1, <2>1 DEF NoCall
  <2>3. \A p \in from : p \in Places /\ words[p] # Nil
    BY DEF Places
  <2>4. src # Nil
    BY ConstantsAssumption
  <2> HIDE DEF from
  <2> QED
    BY <1>2, <2>1, <2>2, <2>3, <2>4
<1> QED
  BY <1>3, <1>4, <1>5

LEMMA DraftStays ==
  ASSUME Arena, Arena', Nesting, Drafts, Drafted, InBuild, InBuild', [Next]_vars
  PROVE  Drafted'
<1>1. /\ TypeInv /\ call \in Call /\ NoCall.op = "none" /\ frames # <<>> /\ Top \in Frame
      /\ words \in [Places -> Records \cup {Nil}] /\ counted \subseteq Places
      /\ \A p \in counted : words[p] \in Records /\ count[words[p]] > 0
      /\ \A d \in dead : count[d] = 0
      /\ \A x \in owned : count[x] > 0
  BY ArenaFacts, ScopeFacts, NoCallType DEF InBuild
<1>2. Top.rec \in Records /\ Top.rec \notin handed /\ chunkOf[Top.rec] # 0
  <2>1. Len(frames) \in 1..Len(frames) /\ Top = frames[Len(frames)] /\ Top.kind = "build"
    BY <1>1, ScopeFacts DEF InBuild
  <2> QED
    BY <2>1 DEF Arena, BuildsInner, IInv, TypeInv, Control, CoverInv, Placement, PlacedFrames
<1>3. ASSUME NEW y, Hold(y), y # Top.rec, Top.rec \in owned PROVE Top.rec \in owned'
  BY <1>3 DEF Hold
\* A place of the draft or its run is written.
<1>4. ASSUME NEW q, NEW x, q \notin counted, words' = [words EXCEPT ![q] = x], counted' = counted \cup {q}
      PROVE  /\ \A p \in counted : p \in counted' /\ words'[p] = words[p]
             /\ \A p \in counted' : p = q \/ (p \in counted /\ words'[p] = words[p])
             /\ \A p \in Places : words'[p] = x \/ words'[p] = words[p]
  BY <1>1, <1>4
<1>5. ASSUME NEW o \in call.copies, CopyCell(o) PROVE Drafted'
  <2>1. PICK x : x = words[o]
    OBVIOUS
  <2>2. PICK q : q = <<call.rec, o[2]>>
    OBVIOUS
  <2>3. /\ call.op = "copy" /\ Hold(x) /\ words' = [words EXCEPT ![q] = x] /\ counted' = counted \cup {q}
        /\ q \notin counted /\ frames' = frames /\ handed' = handed
        /\ call' = NoCall \/ call' = [call EXCEPT !.copies = call.copies \ {o}]
    BY <1>5, <2>1, <2>2 DEF CopyCell, Drafts
  <2>4. q[1] = Top.rec /\ x # Top.rec /\ Top' = Top /\ Top.rec \in owned
        /\ (Top.run # Nil => \E p \in counted : words[p] = Top.run)
        /\ (Top.run # Nil => Top.run \notin handed /\ \A p \in counted : words[p] = Top.run => p[1] = Top.rec)
        /\ (\A p \in counted : words[p] # Top.rec) /\ \A p \in call.copies : words[p] # Top.rec
    BY <2>1, <2>2, <2>3 DEF Nesting, Drafted, Top
  <2>5. call'.op = "copy" => call'.copies \subseteq call.copies
    BY <1>1, <2>3 DEF Call
  <2>6. \A p \in Places : words'[p] = x \/ words'[p] = words[p]
    BY <1>4, <2>3
  <2>7. (\A p \in counted' : words'[p] # Top.rec) /\ (call'.op = "copy" => \A p \in call'.copies : words'[p] # Top.rec)
    <3>1. call.copies \subseteq Places /\ \A p \in counted' : p = q \/ (p \in counted /\ words'[p] = words[p])
      BY <1>1, <1>4, <2>3 DEF Call
    <3>2. \A p \in counted' : words'[p] # Top.rec
      <4>1. q \in counted' /\ counted' \subseteq Places
        BY <2>3, ArenaFacts DEF Arena, IInv, TypeInv, TypeOK
      <4>2. words'[q] = x
        BY <1>1, <2>3, <4>1
      <4> QED
        BY <2>4, <3>1, <4>2
    <3> QED
      BY <2>4, <2>5, <2>6, <3>1, <3>2
  <2>8. Top.run # Nil => /\ \A p \in counted' : words'[p] = Top.run => p[1] = Top.rec
                         /\ \E p \in counted' : words'[p] = Top.run
    <3>1. /\ \A p \in counted : p \in counted' /\ words'[p] = words[p]
          /\ \A p \in counted' : p = q \/ (p \in counted /\ words'[p] = words[p])
      BY <1>4, <2>3
    <3> QED
      BY <2>4, <3>1
  <2>9. Top.rec \in owned'
    BY <1>3, <2>3, <2>4
  <2> QED
    BY <2>3, <2>4, <2>7, <2>8, <2>9 DEF Drafted
\* The steps of slots, which are of no other call.
<1>6. ASSUME Top'.rec = Top.rec, handed' = handed, call.op = "none", call' = call, Top.rec \in owned',
             \A p \in counted' : words'[p] # Top.rec,
             Top'.run # Nil => /\ Top'.run \notin handed
                               /\ \A p \in counted' : words'[p] = Top'.run => p[1] = Top.rec
                               /\ \E p \in counted' : words'[p] = Top'.run
      PROVE  Drafted'
  BY <1>6 DEF Drafted
<1>7. Building => /\ call.op = "none" /\ Top.rec \in owned /\ \A p \in counted : words[p] # Top.rec
                  /\ Top.run # Nil => /\ Top.run \notin handed /\ \E p \in counted : words[p] = Top.run
                                      /\ \A p \in counted : words[p] = Top.run => p[1] = Top.rec
  BY DEF Building, Idle, Drafted
<1>8. Nil \in Records \cup {Nil} /\ Nil \in Cells \cup {Nil}
  OBVIOUS
<1>9. ASSUME NEW c \in Cells, PatchCell(c) PROVE Drafted'
  <2>1. PICK q : q = <<Top.rec, c>>
    OBVIOUS
  <2>2. /\ Building /\ counted' = counted \ {q} /\ words' = [words EXCEPT ![q] = Nil] /\ owned' = owned
        /\ handed' = handed /\ call' = call /\ SetTop([Top EXCEPT !.done = Done(Nil), !.at = c, !.run = Nil])
    BY <1>9, <2>1 DEF PatchCell
  <2>3. Top'.run = Nil /\ Top'.rec = Top.rec
    BY <1>1, <1>8, <2>2, SlotScopes, SameTop
  <2>4. \A p \in counted' : p \in counted /\ words'[p] = words[p]
    BY <1>1, <2>2
  <2> QED
    BY <1>6, <1>7, <2>2, <2>3, <2>4
<1>10. ASSUME NEW c \in Cells, NEW x \in Records, StoreCell(c, x) PROVE Drafted'
  <2>1. PICK q : q = <<Top.rec, c>>
    OBVIOUS
  <2>2. /\ Building /\ q \notin counted /\ counted' = counted \cup {q} /\ words' = [words EXCEPT ![q] = x] /\ Hold(x)
        /\ x \in handed /\ handed' = handed /\ call' = call
        /\ SetTop([Top EXCEPT !.done = Done(c), !.at = Nil, !.run = Nil])
    BY <1>10, <2>1 DEF StoreCell, Place
  <2>3. Top'.run = Nil /\ Top'.rec = Top.rec
    BY <1>1, <1>8, <2>2, SlotScopes, SameTop
  <2>4. \A p \in counted' : words'[p] = x \/ (p \in counted /\ words'[p] = words[p])
    <3>1. q \in Places
      BY <1>2, <2>1 DEF Places
    <3> QED
      BY <1>1, <1>4, <2>2, <3>1
  <2>5. x # Top.rec /\ Top.rec \in owned'
    BY <1>2, <1>3, <1>7, <2>2
  <2> QED
    BY <1>6, <1>7, <2>2, <2>3, <2>4, <2>5
<1>11. ASSUME NEW c \in Cells, NEW u \in Records, StoreRun(c, u) PROVE Drafted'
  <2>1. PICK q : q = <<Top.rec, c>>
    OBVIOUS
  <2>2. /\ Building /\ q \notin counted /\ counted' = counted \cup {q} /\ words' = [words EXCEPT ![q] = u] /\ chunkOf[u] = 0
        /\ owned' = owned /\ handed' = handed /\ call' = call
        /\ SetTop([Top EXCEPT !.done = Done(c), !.at = Nil, !.run = u])
    BY <1>11, <2>1 DEF StoreRun, Alloc
  <2>3. Top'.run = u /\ Top'.rec = Top.rec
    BY <1>1, <1>8, <2>2, SlotScopes, SameTop
  <2>4. u # Top.rec /\ u \notin handed /\ \A p \in counted : words[p] # u
    BY <1>2, <2>2 DEF Arena, IInv, CoverInv, Placement, PlacedHandles, PlacedNames
  <2>5. q \in Places /\ q[1] = Top.rec
    BY <1>2, <2>1 DEF Places
  <2>6. (\A p \in counted' : p = q \/ (p \in counted /\ words'[p] = words[p])) /\ words'[q] = u /\ q \in counted'
    BY <1>1, <1>4, <2>2, <2>5
  <2> QED
    BY <1>6, <1>7, <2>2, <2>3, <2>4, <2>5, <2>6
<1>12. ASSUME NEW c \in Cells, NEW x \in Records, StoreItem(c, x) PROVE Drafted'
  <2>1. PICK q : q = <<Top.run, c>>
    OBVIOUS
  <2>2. /\ Building /\ q \notin counted /\ counted' = counted \cup {q} /\ words' = [words EXCEPT ![q] = x] /\ Hold(x)
        /\ x \in handed /\ handed' = handed /\ call' = call /\ frames' = frames /\ Top.run # Nil
    BY <1>12, <2>1 DEF StoreItem, Place
  <2>3. Top' = Top /\ q \in Places
    BY <1>1, <2>1, <2>2 DEF Top, Frame, Places
  <2>4. /\ \A p \in counted' : words'[p] = x \/ (p \in counted /\ words'[p] = words[p])
        /\ \A p \in counted : p \in counted' /\ words'[p] = words[p]
    BY <1>1, <1>4, <2>2, <2>3
  <2>5. x # Top.rec /\ x # Top.run /\ Top.rec \in owned'
    BY <1>2, <1>3, <1>7, <2>2
  <2> QED
    BY <1>6, <1>7, <2>2, <2>3, <2>4, <2>5
<1>13. CASE Release
  <2>1. /\ UNCHANGED <<owned, handed, frames, call>> /\ Top' = Top
        /\ \A p \in counted' : p \in counted /\ words'[p] = words[p]
        /\ counted' = counted \/ \E d \in dead : \E p \in PlacesOf(d) : counted' = counted \ {p}
        /\ dead # {}
    BY <1>1, <1>13 DEF Release, scopes, Top, PlacesOf
  <2>2. call'.op # "copy"
    BY <1>1, <2>1 DEF TypeInv, Control
  <2>3. ASSUME Top.rec \in owned, NEW r \in counted, r[1] = Top.rec PROVE r \in counted'
    BY <1>1, <2>1, <2>3 DEF PlacesOf
  <2>4. call.op = "none" => Top.rec \in owned /\ (Top.run # Nil => \E p \in counted' : words'[p] = Top.run)
    BY <2>1, <2>3 DEF Drafted
  <2> QED
    BY <2>1, <2>2, <2>4 DEF Drafted
<1>14. ASSUME UNCHANGED <<words, counted, frames>>, call'.op # "copy" \/ call' = call,
              UNCHANGED <<count, owned, dead, handed>> \/ GiveBackMoved \/ FreeMinted,
              call'.op # "none" \/ (call' = call /\ UNCHANGED <<count, owned, dead, handed>>)
       PROVE  Drafted'
  <2>1. Top' = Top /\ handed' = handed
    BY <1>14 DEF Top, GiveBackMoved, FreeMinted
  <2>2. call'.op = "copy" => call' = call /\ owned' = owned
    <3>1. (GiveBackMoved => call.op = "giveback") /\ (FreeMinted => call.op = "free")
      BY DEF GiveBackMoved, FreeMinted
    <3> QED
      BY <1>14, <3>1
  <2> QED
    BY <1>14, <2>1, <2>2 DEF Drafted
<1> QED
  BY <1>5, <1>9, <1>10, <1>11, <1>12, <1>13, <1>14, BuildSteps


-----------------------------------------------------------------------------
(* The theorem.                                                            *)

LEMMA LeakInvStep ==
  ASSUME Arena, Arena', ~InterceptorsWrite, ScopeInv, LeakInv, [Next]_vars
  PROVE  LeakInv'
<1>1. Nesting /\ Drafts
  BY DEF ScopeInv
<1>2. CASE InBuild'
  <2>1. CASE InBuild
    BY <1>1, <1>2, <2>1, DraftStays, WordsPlacedStep, LiveCellsStep, GroundedStep DEF LeakInv
  <2>2. CASE ~InBuild
    BY <1>1, <1>2, <2>2, DraftBegins, WordsPlacedStep, LiveCellsStep, GroundedStep DEF LeakInv
  <2> QED
    BY <2>1, <2>2
<1>3. CASE ~InBuild'
  <2>1. Drafted'
    BY <1>3 DEF Drafted
  <2> QED
    BY <1>1, <2>1, WordsPlacedStep, LiveCellsStep, GroundedStep DEF LeakInv
<1> QED
  BY <1>2, <1>3

LEMMA LeakInvHolds == ASSUME ~InterceptorsWrite PROVE Spec => []LeakInv
<1>1. Init => LeakInv
  BY EmptySeq DEF Init, LeakInv, WordsPlaced, Drafted, InBuild, LiveCells, Grounded
<1>2. Arena /\ Arena' /\ ScopeInv /\ LeakInv /\ [Next]_vars => LeakInv'
  BY LeakInvStep
<1> QED
  BY <1>1, <1>2, ArenaHolds, ScopeInvHolds, PTL DEF Spec

\* With interceptors that only build, once every handle let go and no side is written every
\* record is released (NothingLeaks), however many lists of lists were built, thrown and edited.
THEOREM ArenaNothingLeaks == ASSUME ~InterceptorsWrite PROVE Spec => []NothingLeaks
<1>1. Arena /\ CountsExact /\ LeakInv => NothingLeaks
  <2> SUFFICES ASSUME Arena, CountsExact, LeakInv, dead = {}, owned = {},
                      \A p \in counted : p[2] \in Cells,
                      NEW y \in Records, count[y] # 0
               PROVE  FALSE
    BY DEF NothingLeaks, Idle
  <2>1. count \in [Records -> Nat] /\ counted \subseteq Places
    BY ArenaFacts
  <2> DEFINE S == {x \in Records : count[x] > 0}
  <2>2. S \in SUBSET Records /\ S # {}
    BY <2>1
  <2>3. PICK x \in S : \A p \in counted : p[1] \in S /\ p[2] \in Cells => words[p] # x
    <3> HIDE DEF S
    <3> QED
      BY <2>2 DEF LeakInv, Grounded
  <2>4. Holders(x) # {}
    <3>1. count[x] = OwnCount(x) + Cardinality(Holders(x)) /\ OwnCount(x) = 0 /\ count[x] > 0
      BY DEF CountsExact, OwnCount
    <3> QED
      BY <3>1, FS_EmptySet
  <2>5. PICK p \in counted : words[p] = x
    BY <2>4 DEF Holders
  <2>6. p[1] \in S
    BY <2>1, <2>5 DEF LeakInv, LiveCells, Places
  <2> QED
    BY <2>3, <2>5, <2>6
<1> QED
  BY <1>1, ArenaHolds, ArenaCountsExact, LeakInvHolds, PTL
=============================================================================
