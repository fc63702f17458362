-------------------------- MODULE BuiltArenaProofs --------------------------
(***************************************************************************)
(* The invariants of BuiltArena, proved for any number of records, cells,  *)
(* sides, scopes and chunks.                                               *)
(***************************************************************************)
EXTENDS BuiltArena, TLAPS, FiniteSetTheorems, SequenceTheorems

-----------------------------------------------------------------------------
(* The inductive invariant.                                                *)

\* What each loop of a call under way works on.
Control ==
  /\ \A i \in 1..Len(frames) : frames[i].kind = "build" => frames[i].rec \in Records
  /\ \A p \in counted : words[p] \in Records
  /\ call.op \in {"copy", "giveback", "free"} => frames # <<>>
  /\ call.op = "copy" => call.rec \in Records /\ \A p \in call.copies : words[p] \in Records
  /\ call.op = "carry" => call.rec \in Records /\ call.copies \subseteq counted
  /\ call.op \in {"copy", "carry"} => dead = {}
  /\ call.op = "giveback" => call.n <= Len(moved)
  /\ call.op = "free" => call.n <= Len(minted)
  /\ call.op = "close" => frames = <<>> /\ call.base <= Len(minted) /\ call.base < call.n

\* A scope's marks lie in the lists they cut, in the order the scopes opened.
Marks ==
  /\ \A i \in 1..Len(frames) : frames[i].minted <= Len(minted) /\ frames[i].moved <= Len(moved)
  /\ \A i, j \in 1..Len(frames) : i <= j =>
       frames[i].minted <= frames[j].minted /\ frames[i].moved <= frames[j].moved
  /\ \A i \in 1..Len(commits) : commits[i].minted <= Len(minted)
  /\ \A i, j \in 1..Len(commits) : i <= j => commits[i].minted <= commits[j].minted
  /\ \A i \in 1..Len(commits), j \in 1..Len(frames) : commits[i].minted <= frames[j].minted
  /\ call.op = "close" => \A i \in 1..Len(commits) : commits[i].minted <= call.base

\* What CountsCover says of a single place and a single handle.
Live ==
  /\ \A p \in counted : count[words[p]] > 0
  /\ \A x \in owned : count[x] > 0

TypeInv == TypeOK /\ Control /\ Marks

\* A record is returned, named, built, counted and released only once it is placed.
PlacedHandles == \A x \in owned \cup handed \cup dead : chunkOf[x] # 0
PlacedNames ==
  /\ \A p \in counted : chunkOf[words[p]] # 0
  /\ \A p \in Places : words[p] # Nil => chunkOf[p[1]] # 0
PlacedFrames ==
  \A i \in 1..Len(frames) :
    /\ frames[i].kind = "build" => chunkOf[frames[i].rec] # 0
    /\ frames[i].run # Nil => chunkOf[frames[i].run] # 0
PlacedCall == call.op \in {"copy", "carry"} => chunkOf[call.rec] # 0
PlacedCounts == \A x \in Records : chunkOf[x] = 0 => count[x] = 0

Placement == PlacedHandles /\ PlacedNames /\ PlacedFrames /\ PlacedCall /\ PlacedCounts

\* A live record's words each hold a count of what they name.
Named ==
  /\ \A d \in dead : count[d] = 0
  /\ \A p \in Places : count[p[1]] > 0 /\ words[p] # Nil => p \in counted

Covered == IsFiniteSet(counted) /\ CountsCover /\ Named

CoverInv == Covered /\ Placement

IInv == TypeInv /\ CoverInv

-----------------------------------------------------------------------------
(* Sequences: a prefix, and the scopes but the innermost.                  *)

LEMMA PrefixType ==
  ASSUME NEW S, NEW s \in Seq(S), NEW n \in 0..Len(s)
  PROVE  /\ SubSeq(s, 1, n) \in Seq(S)
         /\ Len(SubSeq(s, 1, n)) = n
         /\ \A i \in 1..n : SubSeq(s, 1, n)[i] = s[i]
<1>1. Len(s) \in Nat /\ n \in Nat
  BY LenProperties
<1>2. \A i \in 1..n : s[i] \in S
  BY <1>1, ElementOfSeq
<1> QED
  BY <1>1, <1>2, SubSeqProperties

LEMMA ScopesType ==
  ASSUME TypeOK, frames # <<>>
  PROVE  /\ Len(frames) \in Nat \ {0}
         /\ Top \in Frame
         /\ Outer \in Seq(Frame) /\ Len(Outer) = Len(frames) - 1
         /\ \A i \in 1..(Len(frames) - 1) : Outer[i] = frames[i]
<1>1. frames \in Seq(Frame)
  BY DEF TypeOK
<1>2. Len(frames) \in Nat \ {0}
  BY <1>1, LenProperties, EmptySeq
<1>3. Top \in Frame
  BY <1>1, <1>2, ElementOfSeq DEF Top
<1>4. Len(frames) - 1 \in 0..Len(frames)
  BY <1>2
<1> QED
  BY <1>1, <1>2, <1>3, <1>4, PrefixType DEF Outer

-----------------------------------------------------------------------------
(* The values operations on counts and on the call under way take.         *)

LEMMA NoCallType == NoCall \in Call /\ NoCall.op = "none"
BY EmptySeq DEF NoCall, Call

LEMMA CallType ==
  ASSUME NEW c \in Call
  PROVE  /\ NoCall \in Call
         /\ \A n \in Nat : [c EXCEPT !.n = n] \in Call
         /\ \A s \in SUBSET Places : [c EXCEPT !.copies = s] \in Call
         /\ \A o \in {"giveback", "free"}, n \in Nat :
              /\ [NoCall EXCEPT !.op = o, !.n = n] \in Call
              /\ [c EXCEPT !.op = o, !.n = n] \in Call
<1>1. NoCall \in Call
  BY EmptySeq DEF NoCall, Call
<1>2. c = [op |-> c.op, rec |-> c.rec, copies |-> c.copies, n |-> c.n, base |-> c.base,
           kept |-> c.kept, carried |-> c.carried]
  BY DEF Call
<1>3. \A n \in Nat : [c EXCEPT !.n = n] \in Call
  BY <1>2 DEF Call
<1>4. \A s \in SUBSET Places : [c EXCEPT !.copies = s] \in Call
  BY <1>2 DEF Call
<1>5. \A o \in {"giveback", "free"}, n \in Nat : [c EXCEPT !.op = o, !.n = n] \in Call
  BY <1>2 DEF Call
<1>6. \A o \in {"giveback", "free"}, n \in Nat : [NoCall EXCEPT !.op = o, !.n = n] \in Call
  BY <1>1 DEF Call, NoCall
<1> QED
  BY <1>1, <1>3, <1>4, <1>5, <1>6

LEMMA CountType ==
  ASSUME NEW cnt \in [Records -> Nat], NEW x \in Records
  PROVE  /\ [cnt EXCEPT ![x] = @ + 1] \in [Records -> Nat]
         /\ cnt[x] > 0 => Dropped(cnt, x) \in [Records -> Nat]
BY DEF Dropped

LEMMA HoldType ==
  ASSUME TypeOK, NEW x \in Records, Hold(x)
  PROVE  /\ count' \in [Records -> Nat] /\ owned' \in SUBSET Records
         /\ moved' \in Seq(Records) /\ Len(moved) <= Len(moved')
<1>1. /\ count \in [Records -> Nat] /\ owned \in SUBSET Records /\ moved \in Seq(Records)
      /\ Len(moved) \in Nat
  BY LenProperties DEF TypeOK
<1>2. /\ Append(moved, x) \in Seq(Records)
      /\ Len(Append(moved, x)) = Len(moved) + 1
  BY <1>1, AppendProperties
<1>3. CASE x \in owned /\ ~Kept(x)
  <2>1. /\ count' = count /\ owned' = owned \ {x}
        /\ moved' = moved \/ moved' = Append(moved, x)
    BY <1>3 DEF Hold
  <2>2. count' \in [Records -> Nat] /\ owned' \in SUBSET Records
    BY <1>1, <2>1
  <2>3. CASE moved' = moved
    BY <1>1, <2>2, <2>3
  <2>4. CASE moved' = Append(moved, x)
    BY <1>1, <1>2, <2>2, <2>4
  <2> QED
    BY <2>1, <2>3, <2>4
<1>4. CASE ~(x \in owned /\ ~Kept(x))
  <2>1. count' = [count EXCEPT ![x] = @ + 1] /\ owned' = owned /\ moved' = moved
    BY <1>4 DEF Hold
  <2> QED
    BY <1>1, <2>1
<1> QED
  BY <1>3, <1>4

LEMMA ReleaseOwnedType ==
  ASSUME TypeOK, Live, NEW x \in Records, ReleaseOwned(x)
  PROVE  count' \in [Records -> Nat] /\ owned' \in SUBSET Records /\ dead' \in SUBSET Records
<1>1. CASE x \in owned
  <2>1. count[x] > 0 /\ count \in [Records -> Nat]
    BY <1>1 DEF Live, TypeOK
  <2>2. count' = Dropped(count, x) /\ owned' = owned \ {x} /\ dead' \in {dead, dead \cup {x}}
    BY <1>1 DEF ReleaseOwned, Released
  <2> QED
    BY <2>1, <2>2, CountType DEF TypeOK
<1>2. CASE x \notin owned
  BY <1>2 DEF TypeOK, ReleaseOwned
<1> QED
  BY <1>1, <1>2

LEMMA GiveBackType ==
  ASSUME TypeOK, NEW x \in Records, GiveBack(x)
  PROVE  count' \in [Records -> Nat] /\ owned' \in SUBSET Records
BY CountType DEF TypeOK, GiveBack

-----------------------------------------------------------------------------
(* Type correctness, with what each loop works on and the order of marks.  *)

LEMMA InitType == Init => TypeInv
<1> SUFFICES ASSUME Init PROVE TypeInv
  OBVIOUS
<1> USE ConstantsAssumption DEF Init
<1>1. TypeOK
  BY DEF TypeOK, Places, Call, NoCall
<1>2. Control /\ Marks
  BY DEF Control, Marks, NoCall
<1> QED
  BY <1>1, <1>2 DEF TypeInv

LEMMA Elements ==
  ASSUME TypeOK
  PROVE  /\ Len(minted) \in Nat /\ Len(moved) \in Nat /\ Len(frames) \in Nat /\ Len(commits) \in Nat
         /\ \A i \in 1..Len(minted) : minted[i] \in Records
         /\ \A i \in 1..Len(moved) : moved[i] \in Records
         /\ \A i \in 1..Len(frames) : frames[i] \in Frame
         /\ \A i \in 1..Len(commits) : commits[i] \in Mark
<1>1. minted \in Seq(Records) /\ moved \in Seq(Records) /\ frames \in Seq(Frame) /\ commits \in Seq(Mark)
  BY DEF TypeOK
<1> QED
  BY <1>1, LenProperties, ElementOfSeq

-----------------------------------------------------------------------------
(* Scopes: the innermost changed, one opened, one ended.                   *)

LEMMA SetTopType ==
  ASSUME TypeOK, frames # <<>>, NEW f \in Frame, SetTop(f)
  PROVE  /\ frames' \in Seq(Frame) /\ Len(frames') = Len(frames)
         /\ \A i \in 1..Len(frames) : frames'[i] = IF i = Len(frames) THEN f ELSE frames[i]
<1>1. frames \in Seq(Frame) /\ Len(frames) \in 1..Len(frames)
  BY ScopesType DEF TypeOK
<1> QED
  BY <1>1, ExceptSeq DEF SetTop

LEMMA PushType ==
  ASSUME TypeOK, NEW f \in Frame, frames' = Append(frames, f)
  PROVE  /\ frames' \in Seq(Frame) /\ Len(frames') = Len(frames) + 1
         /\ \A i \in 1..(Len(frames) + 1) : frames'[i] = IF i = Len(frames) + 1 THEN f ELSE frames[i]
<1>1. frames \in Seq(Frame) /\ Len(frames) \in Nat
  BY Elements DEF TypeOK
<1> QED
  BY <1>1, AppendProperties

LEMMA EndScopeType ==
  ASSUME TypeInv, frames # <<>>, NEW m \in Seq(Records), NEW v \in Seq(Records), EndScope(m, v),
         Top.minted <= Len(m), Top.moved <= Len(v), commits' = commits, call'.op # "close"
  PROVE  /\ frames' \in Seq(Frame) /\ minted' \in Seq(Records) /\ moved' \in Seq(Records)
         /\ Len(frames') = Len(frames) - 1
         /\ \A i \in 1..Len(frames') : frames'[i] = frames[i]
         /\ Marks'
<1> DEFINE L == Len(frames)
<1>1. /\ L \in Nat \ {0} /\ Top = frames[L] /\ Top \in Frame /\ Outer \in Seq(Frame)
      /\ Len(Outer) = L - 1 /\ \A i \in 1..(L - 1) : Outer[i] = frames[i]
  BY ScopesType DEF TypeInv, Top
<1>2. /\ frames' = Outer
      /\ moved' = IF Outer = <<>> THEN <<>> ELSE v
      /\ minted' = IF Outer = <<>> /\ commits = <<>> THEN <<>> ELSE m
  BY DEF EndScope
<1>3. minted' \in Seq(Records) /\ moved' \in Seq(Records)
  BY <1>2, EmptySeq
<1>4. \A i \in 1..L : frames[i].minted <= Top.minted /\ frames[i].moved <= Top.moved
  BY <1>1 DEF TypeInv, Marks
<1>5. /\ Outer = <<>> => L = 1
      /\ commits = <<>> => Len(commits) = 0
      /\ Len(commits) \in Nat /\ Len(m) \in Nat /\ Len(v) \in Nat
  BY <1>1, EmptySeq, Elements, LenProperties DEF TypeInv
<1>6. /\ \A i \in 1..L : frames[i].minted \in Nat /\ frames[i].moved \in Nat
      /\ \A i \in 1..Len(commits) : commits[i].minted \in Nat
  BY Elements DEF TypeInv, Frame, Mark
<1>7. Marks'
  <2>1. \A i \in 1..Len(frames') : i \in 1..L /\ frames'[i] = frames[i] /\ Outer # <<>>
    BY <1>1, <1>2, <1>5
  <2>2. \A i \in 1..Len(frames') : frames'[i].minted <= Len(minted') /\ frames'[i].moved <= Len(moved')
    BY <1>1, <1>2, <1>4, <1>5, <1>6, <2>1
  <2>3. \A i \in 1..Len(commits) : commits[i].minted <= Len(minted')
    <3> TAKE i \in 1..Len(commits)
    <3>1. commits[i].minted <= Top.minted
      BY <1>1 DEF TypeInv, Marks
    <3>2. minted' = m
      BY <1>2, <1>5
    <3> QED
      BY <1>1, <1>5, <1>6, <3>1, <3>2
  <2> QED
    BY <2>1, <2>2, <2>3 DEF TypeInv, Marks
<1> QED
  BY <1>1, <1>2, <1>3, <1>7

LEMMA PushMarks ==
  ASSUME TypeInv, NEW f \in Frame, frames' = Append(frames, f),
         f.minted = Len(minted), f.moved = Len(moved),
         minted' \in Seq(Records), Len(minted) <= Len(minted'), moved' = moved,
         commits' = commits, call'.op # "close"
  PROVE  Marks'
<1> DEFINE L == Len(frames)
<1>1. /\ L \in Nat /\ Len(minted) \in Nat /\ Len(minted') \in Nat /\ Len(moved) \in Nat
      /\ \A i \in 1..L : frames[i].minted \in Nat /\ frames[i].moved \in Nat
      /\ \A i \in 1..Len(commits) : commits[i].minted \in Nat
  BY Elements, LenProperties DEF TypeInv, Frame, Mark
<1>2. Len(frames') = L + 1 /\ \A i \in 1..(L + 1) : frames'[i] = IF i = L + 1 THEN f ELSE frames[i]
  BY PushType DEF TypeInv
<1>3. \A i \in 1..(L + 1) :
        /\ frames'[i].minted = IF i = L + 1 THEN Len(minted) ELSE frames[i].minted
        /\ frames'[i].moved = IF i = L + 1 THEN Len(moved) ELSE frames[i].moved
  BY <1>2
<1>4. /\ \A i \in 1..L : frames[i].minted <= Len(minted) /\ frames[i].moved <= Len(moved)
      /\ \A i, j \in 1..L : i <= j =>
           frames[i].minted <= frames[j].minted /\ frames[i].moved <= frames[j].moved
      /\ \A i \in 1..Len(commits) : commits[i].minted <= Len(minted)
      /\ \A i \in 1..Len(commits), j \in 1..L : commits[i].minted <= frames[j].minted
  BY DEF TypeInv, Marks
<1>5. \A i \in 1..(L + 1) : frames'[i].minted <= Len(minted) /\ frames'[i].moved <= Len(moved)
  BY <1>1, <1>3, <1>4
<1>6. \A i \in 1..(L + 1) : frames'[i].minted <= Len(minted') /\ frames'[i].moved <= Len(moved')
  BY <1>1, <1>3, <1>4
<1>7. \A i, j \in 1..(L + 1) : i <= j =>
        frames'[i].minted <= frames'[j].minted /\ frames'[i].moved <= frames'[j].moved
  BY <1>1, <1>3, <1>4, <1>5
<1>8. \A i \in 1..Len(commits), j \in 1..(L + 1) : commits[i].minted <= frames'[j].minted
  BY <1>1, <1>3, <1>4
<1>9. \A i \in 1..Len(commits) : commits[i].minted <= Len(minted')
  BY <1>1, <1>4
<1> QED
  BY <1>2, <1>6, <1>7, <1>8, <1>9 DEF TypeInv, Marks

LEMMA TopMarks ==
  ASSUME TypeInv, frames # <<>>
  PROVE  /\ minted \in Seq(Records) /\ moved \in Seq(Records)
         /\ Top.minted \in 0..Len(minted) /\ Top.moved \in 0..Len(moved)
         /\ Top.minted <= Len(minted) /\ Top.moved <= Len(moved)
<1>1. minted \in Seq(Records) /\ moved \in Seq(Records) /\ Len(minted) \in Nat /\ Len(moved) \in Nat
  BY Elements DEF TypeInv, TypeOK
<1>2. Top \in Frame /\ Top = frames[Len(frames)] /\ Len(frames) \in 1..Len(frames)
  BY ScopesType DEF TypeInv, Top
<1>3. Top.minted <= Len(minted) /\ Top.moved <= Len(moved)
  BY <1>2 DEF TypeInv, Marks
<1>4. Top.minted \in Nat /\ Top.moved \in Nat
  BY <1>2 DEF Frame
<1> QED
  BY <1>1, <1>3, <1>4

-----------------------------------------------------------------------------
(* Builds.                                                                 *)

LEMMA InterceptBuildType == ASSUME TypeInv, InterceptBuild PROVE TypeInv'
<1> DEFINE f == NewFrame("intercept", Nil, Nil)
<1>1. f \in Frame /\ f.kind = "intercept" /\ f.minted = Len(minted) /\ f.moved = Len(moved)
  BY Elements DEF NewFrame, Frame, TypeInv
<1>2. /\ frames' \in Seq(Frame) /\ Len(frames') = Len(frames) + 1
      /\ \A i \in 1..(Len(frames) + 1) : frames'[i] = IF i = Len(frames) + 1 THEN f ELSE frames[i]
  BY <1>1, PushType DEF InterceptBuild, TypeInv
<1>3. call.op = "none"
  BY DEF InterceptBuild, UserCode, Idle
<1>4. TypeOK'
  BY <1>2 DEF TypeInv, TypeOK, InterceptBuild, counts, chunks
<1>5. Control'
  BY <1>1, <1>2, <1>3, Elements DEF TypeInv, Control, InterceptBuild, counts
<1>6. Marks'
  <2>1. /\ frames' = Append(frames, f) /\ commits' = commits /\ minted' = minted /\ moved' = moved
        /\ call'.op # "close" /\ minted \in Seq(Records) /\ Len(minted) <= Len(minted)
    BY <1>3, Elements DEF InterceptBuild, TypeInv, TypeOK
  <2> QED
    BY <1>1, <2>1, PushMarks
<1> QED
  BY <1>4, <1>5, <1>6 DEF TypeInv

LEMMA AllocType ==
  ASSUME TypeOK, NEW r \in Records, Alloc(r)
  PROVE  chunkOf' \in [Records -> Nat] /\ open' \in Nat /\ swept' \in SUBSET Nat
<1>1. chunkOf \in [Records -> Nat] /\ open \in Nat /\ swept \in SUBSET Nat
  BY DEF TypeOK
<1>2. {c \in 1..open : Emptied(c)} \subseteq Nat
  BY <1>1
<1>3. CASE chunkOf' = [chunkOf EXCEPT ![r] = open] /\ UNCHANGED <<open, swept>>
  BY <1>1, <1>3
<1>4. CASE /\ chunkOf' = [chunkOf EXCEPT ![r] = open + 1] /\ open' = open + 1
           /\ swept' = swept \cup {c \in 1..open : Emptied(c)}
  <2>1. chunkOf' \in [Records -> Nat] /\ open' \in Nat
    BY <1>1, <1>4
  <2>2. swept' \in SUBSET Nat
    BY <1>1, <1>2, <1>4
  <2> QED
    BY <2>1, <2>2
<1> QED
  BY <1>3, <1>4 DEF Alloc

LEMMA MintType ==
  ASSUME TypeInv, NEW r \in Records, NEW src \in Records \cup {Nil}, Mint(r, src),
         commits' = commits, call'.op \in {"none", "copy"}
  PROVE  /\ count' \in [Records -> Nat] /\ owned' \in SUBSET Records
         /\ chunkOf' \in [Records -> Nat] /\ open' \in Nat /\ swept' \in SUBSET Nat
         /\ minted' \in Seq(Records) /\ frames' \in Seq(Frame) /\ frames' # <<>>
         /\ \A i \in 1..Len(frames') : frames'[i].kind = "build" => frames'[i].rec \in Records
         /\ moved' = moved => Marks'
<1> DEFINE f == NewFrame("build", r, src)
<1>1. f \in Frame /\ f.kind = "build" /\ f.rec = r /\ f.minted = Len(minted) /\ f.moved = Len(moved)
  BY Elements DEF NewFrame, Frame, TypeInv
<1>2. /\ frames' \in Seq(Frame) /\ Len(frames') = Len(frames) + 1
      /\ \A i \in 1..(Len(frames) + 1) : frames'[i] = IF i = Len(frames) + 1 THEN f ELSE frames[i]
  BY <1>1, PushType DEF Mint, TypeInv
<1>3. minted' \in Seq(Records) /\ Len(minted') = Len(minted) + 1
  BY AppendProperties DEF Mint, TypeInv, TypeOK
<1>4. count' \in [Records -> Nat] /\ owned' \in SUBSET Records
  BY DEF Mint, TypeInv, TypeOK
<1>5. chunkOf' \in [Records -> Nat] /\ open' \in Nat /\ swept' \in SUBSET Nat
  BY AllocType DEF Mint, TypeInv
<1>6. frames' # <<>>
  BY <1>2, Elements, EmptySeq DEF TypeInv
<1>7. \A i \in 1..Len(frames') : frames'[i].kind = "build" => frames'[i].rec \in Records
  BY <1>1, <1>2, Elements DEF TypeInv, Control
<1>8. ASSUME moved' = moved PROVE Marks'
  <2>1. frames' = Append(frames, f) /\ Len(minted) <= Len(minted') /\ call'.op # "close"
    BY <1>3, Elements DEF Mint, TypeInv
  <2> QED
    BY <1>1, <1>3, <1>8, <2>1, PushMarks
<1> QED
  BY <1>2, <1>3, <1>4, <1>5, <1>6, <1>7, <1>8

LEMMA BuildRecordType ==
  ASSUME TypeInv, NEW r \in Records, BuildRecord(r)
  PROVE  TypeInv'
<1>1. Mint(r, Nil) /\ call.op = "none" /\ UNCHANGED <<words, counted, dead, handed, moved, commits, call>>
  BY DEF BuildRecord, UserCode, Idle
<1>2. TypeOK' /\ Marks'
  BY <1>1, MintType DEF TypeInv, TypeOK
<1>3. Control'
  BY <1>1, MintType DEF TypeInv, Control
<1> QED
  BY <1>2, <1>3 DEF TypeInv

LEMMA EditRecordType ==
  ASSUME TypeInv, NEW r \in Records, NEW src \in Records, EditRecord(r, src)
  PROVE  TypeInv'
<1> DEFINE from == {p \in {src} \X Cells : words[p] # Nil}
<1>1. /\ Mint(r, src) /\ UNCHANGED <<words, counted, dead, handed, moved, commits>>
      /\ call.op = "none" /\ dead = {}
      /\ call' = IF from = {} THEN NoCall ELSE [NoCall EXCEPT !.op = "copy", !.rec = r, !.copies = from]
  BY DEF EditRecord, UserWrites, UserCode, Idle
<1>2. from \in SUBSET Places /\ \A p \in from : words[p] \in Records
  BY DEF Places, TypeInv, TypeOK
<1>3. /\ call' \in Call /\ call'.op \in {"none", "copy"}
      /\ call'.op = "copy" => call'.rec = r /\ call'.copies = from
  <2>1. NoCall \in Call /\ NoCall.op = "none"
    BY EmptySeq DEF NoCall, Call
  <2>2. CASE from = {}
    BY <1>1, <2>1, <2>2
  <2>3. CASE from # {}
    <3>1. call' = [op |-> "copy", rec |-> r, copies |-> from, n |-> 0, base |-> 0, kept |-> {},
                   carried |-> <<>>]
      BY <1>1, <2>3 DEF NoCall
    <3> QED
      BY <1>2, <3>1, EmptySeq DEF Call
  <2> QED
    BY <2>2, <2>3
<1>4. TypeOK' /\ Marks'
  BY <1>1, <1>3, MintType DEF TypeInv, TypeOK
<1>5. Control'
  BY <1>1, <1>2, <1>3, MintType DEF TypeInv, Control
<1> QED
  BY <1>4, <1>5 DEF TypeInv

LEMMA SameMarks ==
  ASSUME TypeInv, minted' = minted, commits' = commits,
         moved' \in Seq(Records), Len(moved) <= Len(moved'),
         Len(frames') = Len(frames),
         \A i \in 1..Len(frames) : frames'[i].minted = frames[i].minted /\ frames'[i].moved = frames[i].moved,
         call'.op = "close" => call.op = "close" /\ call'.base = call.base
  PROVE  Marks'
<1>1. /\ Len(moved) \in Nat /\ Len(moved') \in Nat
      /\ \A i \in 1..Len(frames) : frames[i].moved \in Nat
  BY Elements, LenProperties DEF TypeInv, Frame
<1> QED
  BY <1>1 DEF TypeInv, Marks

LEMMA CopyCellType ==
  ASSUME TypeInv, NEW p \in call.copies, CopyCell(p)
  PROVE  TypeInv'
<1> DEFINE q == <<call.rec, p[2]>>
           x == words[p]
           left == call.copies \ {p}
<1>1. /\ call.op = "copy" /\ Hold(x)
      /\ words' = [words EXCEPT ![q] = x] /\ counted' = counted \cup {q}
      /\ call' = IF left = {} THEN NoCall ELSE [call EXCEPT !.copies = left]
      /\ UNCHANGED <<dead, chunks, handed, minted, frames, commits>>
  BY DEF CopyCell
<1>2. /\ call \in Call /\ p \in Places /\ call.copies \in SUBSET Places /\ call.rec \in Records
      /\ x \in Records /\ q \in Places
  BY <1>1 DEF TypeInv, TypeOK, Control, Call, Places
<1>3. /\ count' \in [Records -> Nat] /\ owned' \in SUBSET Records
      /\ moved' \in Seq(Records) /\ Len(moved) <= Len(moved')
  BY <1>1, <1>2, HoldType DEF TypeInv
<1>4. call' \in Call /\ (call'.op = "none" \/ (call'.op = "copy" /\ call'.rec = call.rec /\ call'.copies = left))
  <2>1. CASE left = {}
    BY <1>1, <2>1, NoCallType
  <2>2. CASE left # {}
    BY <1>1, <1>2, <2>2, CallType DEF Call
  <2> QED
    BY <2>1, <2>2
<1>5. words' \in [Places -> Records \cup {Nil}] /\ counted' \in SUBSET Places
  BY <1>1, <1>2 DEF TypeInv, TypeOK
<1>6. TypeOK'
  BY <1>1, <1>3, <1>4, <1>5 DEF TypeInv, TypeOK, chunks
<1>7. Control'
  <2>1. \A o \in Places : words'[o] = IF o = q THEN x ELSE words[o]
    BY <1>1, <1>2 DEF TypeInv, TypeOK
  <2> QED
    BY <1>1, <1>2, <1>4, <2>1 DEF TypeInv, TypeOK, Control
<1>8. Marks'
  BY <1>1, <1>3, <1>4, SameMarks
<1> QED
  BY <1>6, <1>7, <1>8 DEF TypeInv

LEMMA PlaceType ==
  ASSUME TypeInv, NEW p \in Places, NEW x \in Records, Place(p, x)
  PROVE  /\ count' \in [Records -> Nat] /\ owned' \in SUBSET Records
         /\ moved' \in Seq(Records) /\ Len(moved) <= Len(moved')
         /\ words' \in [Places -> Records \cup {Nil}] /\ counted' \in SUBSET Places
         /\ \A o \in counted' : words'[o] \in Records
<1>1. Hold(x) /\ words' = [words EXCEPT ![p] = x] /\ counted' = counted \cup {p}
  BY DEF Place
<1>2. words' \in [Places -> Records \cup {Nil}] /\ counted' \in SUBSET Places
  BY <1>1 DEF TypeInv, TypeOK
<1>3. \A o \in counted' : words'[o] \in Records
  BY <1>1 DEF TypeInv, TypeOK, Control
<1> QED
  BY <1>1, <1>2, <1>3, HoldType DEF TypeInv

\* The builder's record, and its scope once the slots done and the slot begun change.
LEMMA TopType ==
  ASSUME TypeInv, Building
  PROVE  /\ frames # <<>> /\ Top \in Frame /\ Top.rec \in Records /\ call.op = "none" /\ dead = {}
         /\ \A c \in Cells \cup {Nil}, at \in Cells \cup {Nil}, u \in Records \cup {Nil} :
              LET f == [Top EXCEPT !.done = Done(c), !.at = at, !.run = u]
              IN  /\ f \in Frame /\ f.kind = Top.kind /\ f.rec = Top.rec
                  /\ f.minted = Top.minted /\ f.moved = Top.moved
<1>1. frames # <<>> /\ Top.kind = "build" /\ call.op = "none" /\ dead = {}
  BY DEF Building, InBuild, Idle
<1>2. Top \in Frame /\ Len(frames) \in 1..Len(frames)
  BY <1>1, ScopesType DEF TypeInv
<1>3. Top.rec \in Records
  BY <1>1, <1>2 DEF TypeInv, Control, Top
<1>4. ASSUME NEW c \in Cells \cup {Nil}, NEW at \in Cells \cup {Nil}, NEW u \in Records \cup {Nil}
      PROVE  LET f == [Top EXCEPT !.done = Done(c), !.at = at, !.run = u]
             IN  /\ f \in Frame /\ f.kind = Top.kind /\ f.rec = Top.rec
                 /\ f.minted = Top.minted /\ f.moved = Top.moved
  <2>1. Done(c) \in SUBSET Cells
    BY <1>2 DEF Done, Frame
  <2> QED
    BY <1>2, <2>1 DEF Frame
<1> QED
  BY <1>1, <1>2, <1>3, <1>4

LEMMA SlotType ==
  ASSUME TypeInv, Building, NEW c \in Cells \cup {Nil}, NEW at \in Cells \cup {Nil},
         NEW u \in Records \cup {Nil}, SetTop([Top EXCEPT !.done = Done(c), !.at = at, !.run = u])
  PROVE  /\ frames' \in Seq(Frame) /\ Len(frames') = Len(frames) /\ frames' # <<>>
         /\ \A i \in 1..Len(frames) :
              /\ frames'[i].kind = frames[i].kind /\ frames'[i].rec = frames[i].rec
              /\ frames'[i].minted = frames[i].minted /\ frames'[i].moved = frames[i].moved
              /\ frames'[i].run = IF i = Len(frames) THEN u ELSE frames[i].run
<1> DEFINE f == [Top EXCEPT !.done = Done(c), !.at = at, !.run = u]
<1>1. f \in Frame /\ f.kind = Top.kind /\ f.rec = Top.rec /\ f.minted = Top.minted /\ f.moved = Top.moved
  BY TopType
<1>2. f.run = u
  BY TopType DEF Frame
<1>3. /\ frames' \in Seq(Frame) /\ Len(frames') = Len(frames)
      /\ \A i \in 1..Len(frames) : frames'[i] = IF i = Len(frames) THEN f ELSE frames[i]
  BY <1>1, TopType, SetTopType DEF TypeInv
<1>4. frames' # <<>>
  BY <1>3, TopType, ScopesType, EmptySeq DEF TypeInv
<1> QED
  BY <1>1, <1>2, <1>3, <1>4 DEF Top

LEMMA PatchCellType ==
  ASSUME TypeInv, Live, NEW c \in Cells, PatchCell(c)
  PROVE  TypeInv'
<1> DEFINE p == <<Top.rec, c>>
<1>1. /\ Building /\ p \in counted
      /\ counted' = counted \ {p} /\ words' = [words EXCEPT ![p] = Nil]
      /\ count' = Dropped(count, words[p]) /\ dead' = Released(count, words[p])
      /\ SetTop([Top EXCEPT !.done = Done(Nil), !.at = c, !.run = Nil])
      /\ UNCHANGED <<owned, chunks, handed, minted, moved, commits, call>>
  BY DEF PatchCell
<1>2. call.op = "none" /\ p \in Places /\ words[p] \in Records /\ count[words[p]] > 0
  BY <1>1, TopType DEF TypeInv, TypeOK, Control, Live
<1>3. /\ frames' \in Seq(Frame) /\ Len(frames') = Len(frames) /\ frames' # <<>>
      /\ \A i \in 1..Len(frames) :
           /\ frames'[i].kind = frames[i].kind /\ frames'[i].rec = frames[i].rec
           /\ frames'[i].minted = frames[i].minted /\ frames'[i].moved = frames[i].moved
  BY <1>1, SlotType
<1>4. count' \in [Records -> Nat] /\ dead' \in SUBSET Records
  <2>1. count' \in [Records -> Nat]
    BY <1>1, <1>2, CountType DEF TypeInv, TypeOK
  <2>2. dead' \in SUBSET Records
    BY <1>1, <1>2 DEF TypeInv, TypeOK, Released
  <2> QED
    BY <2>1, <2>2
<1>5. TypeOK'
  BY <1>1, <1>3, <1>4 DEF TypeInv, TypeOK, chunks
<1>6. Control'
  BY <1>1, <1>2, <1>3 DEF TypeInv, TypeOK, Control
<1>7. Marks'
  <2>1. /\ minted' = minted /\ commits' = commits /\ moved' = moved /\ call'.op # "close"
        /\ moved \in Seq(Records) /\ Len(moved) <= Len(moved)
    BY <1>1, <1>2, Elements DEF TypeInv, TypeOK
  <2> QED
    BY <1>3, <2>1, SameMarks
<1> QED
  BY <1>5, <1>6, <1>7 DEF TypeInv

LEMMA StoreCellType ==
  ASSUME TypeInv, NEW c \in Cells, NEW x \in Records, StoreCell(c, x)
  PROVE  TypeInv'
<1> DEFINE p == <<Top.rec, c>>
<1>1. /\ Building /\ Place(p, x)
      /\ SetTop([Top EXCEPT !.done = Done(c), !.at = Nil, !.run = Nil])
      /\ UNCHANGED <<dead, chunks, handed, minted, commits, call>>
  BY DEF StoreCell
<1>2. call.op = "none" /\ p \in Places
  BY <1>1, TopType DEF Places
<1>3. /\ count' \in [Records -> Nat] /\ owned' \in SUBSET Records
      /\ moved' \in Seq(Records) /\ Len(moved) <= Len(moved')
      /\ words' \in [Places -> Records \cup {Nil}] /\ counted' \in SUBSET Places
      /\ \A o \in counted' : words'[o] \in Records
  BY <1>1, <1>2, PlaceType
<1>4. /\ frames' \in Seq(Frame) /\ Len(frames') = Len(frames) /\ frames' # <<>>
      /\ \A i \in 1..Len(frames) :
           /\ frames'[i].kind = frames[i].kind /\ frames'[i].rec = frames[i].rec
           /\ frames'[i].minted = frames[i].minted /\ frames'[i].moved = frames[i].moved
  BY <1>1, SlotType
<1>5. TypeOK'
  BY <1>1, <1>3, <1>4 DEF TypeInv, TypeOK, chunks
<1>6. Control'
  BY <1>1, <1>2, <1>3, <1>4 DEF TypeInv, Control
<1>7. Marks'
  BY <1>1, <1>2, <1>3, <1>4, SameMarks
<1> QED
  BY <1>5, <1>6, <1>7 DEF TypeInv

LEMMA StoreRunType ==
  ASSUME TypeInv, NEW c \in Cells, NEW u \in Records, StoreRun(c, u)
  PROVE  TypeInv'
<1> DEFINE p == <<Top.rec, c>>
<1>1. /\ Building /\ Alloc(u) /\ count' = [count EXCEPT ![u] = 1]
      /\ words' = [words EXCEPT ![p] = u] /\ counted' = counted \cup {p}
      /\ SetTop([Top EXCEPT !.done = Done(c), !.at = Nil, !.run = u])
      /\ UNCHANGED <<owned, dead, handed, minted, moved, commits, call>>
  BY DEF StoreRun
<1>2. call.op = "none" /\ p \in Places
  BY <1>1, TopType DEF Places
<1>3. /\ count' \in [Records -> Nat]
      /\ words' \in [Places -> Records \cup {Nil}] /\ counted' \in SUBSET Places
      /\ \A o \in counted' : words'[o] \in Records
  <2>1. count' \in [Records -> Nat]
    BY <1>1 DEF TypeInv, TypeOK
  <2>2. words' \in [Places -> Records \cup {Nil}] /\ counted' \in SUBSET Places
    BY <1>1, <1>2 DEF TypeInv, TypeOK
  <2>3. \A o \in counted' : words'[o] \in Records
    <3>1. \A o \in Places : words'[o] = IF o = p THEN u ELSE words[o]
      BY <1>1, <1>2 DEF TypeInv, TypeOK
    <3>2. \A o \in counted : o \in Places /\ words[o] \in Records
      BY DEF TypeInv, TypeOK, Control
    <3> QED
      BY <1>1, <1>2, <3>1, <3>2
  <2> QED
    BY <2>1, <2>2, <2>3
<1>4. chunkOf' \in [Records -> Nat] /\ open' \in Nat /\ swept' \in SUBSET Nat
  BY <1>1, AllocType DEF TypeInv
<1>5. /\ frames' \in Seq(Frame) /\ Len(frames') = Len(frames) /\ frames' # <<>>
      /\ \A i \in 1..Len(frames) :
           /\ frames'[i].kind = frames[i].kind /\ frames'[i].rec = frames[i].rec
           /\ frames'[i].minted = frames[i].minted /\ frames'[i].moved = frames[i].moved
  BY <1>1, SlotType
<1>6. TypeOK'
  BY <1>1, <1>3, <1>4, <1>5 DEF TypeInv, TypeOK
<1>7. Control'
  BY <1>1, <1>2, <1>3, <1>5 DEF TypeInv, Control
<1>8. Marks'
  <2>1. moved' = moved /\ moved \in Seq(Records) /\ Len(moved) <= Len(moved)
    BY <1>1, Elements DEF TypeInv, TypeOK
  <2> QED
    BY <1>1, <1>2, <1>5, <2>1, SameMarks
<1> QED
  BY <1>6, <1>7, <1>8 DEF TypeInv

LEMMA StoreItemType ==
  ASSUME TypeInv, NEW k \in Cells, NEW x \in Records, StoreItem(k, x)
  PROVE  TypeInv'
<1> DEFINE p == <<Top.run, k>>
<1>1. /\ Building /\ Top.run # Nil /\ Place(p, x)
      /\ UNCHANGED <<dead, chunks, handed, minted, frames, commits, call>>
  BY DEF StoreItem
<1>2. call.op = "none" /\ p \in Places
  BY <1>1, TopType DEF Places, Frame
<1>3. /\ count' \in [Records -> Nat] /\ owned' \in SUBSET Records
      /\ moved' \in Seq(Records) /\ Len(moved) <= Len(moved')
      /\ words' \in [Places -> Records \cup {Nil}] /\ counted' \in SUBSET Places
      /\ \A o \in counted' : words'[o] \in Records
  BY <1>1, <1>2, PlaceType
<1>4. TypeOK'
  BY <1>1, <1>3 DEF TypeInv, TypeOK, chunks
<1>5. Control'
  BY <1>1, <1>2, <1>3 DEF TypeInv, Control
<1>6. Marks'
  BY <1>1, <1>2, <1>3, SameMarks
<1> QED
  BY <1>4, <1>5, <1>6 DEF TypeInv

LEMMA InternTextType == ASSUME TypeInv, InternText PROVE TypeInv'
<1>1. {c \in 1..open : Freed(c)} \subseteq Nat
  BY DEF TypeInv, TypeOK
<1>2. TypeOK'
  BY <1>1 DEF TypeInv, TypeOK, InternText, counts, scopes
<1>3. Control' /\ Marks'
  BY DEF TypeInv, Control, Marks, InternText, counts, scopes
<1> QED
  BY <1>2, <1>3 DEF TypeInv

LEMMA FinishBuildType == ASSUME TypeInv, FinishBuild PROVE TypeInv'
<1>1. /\ Building /\ EndScope(minted, moved)
      /\ IF Top.src = Nil
         THEN call' = NoCall /\ handed' = handed \cup {Top.rec}
         ELSE /\ call' = [NoCall EXCEPT !.op = "carry", !.rec = Top.rec, !.copies = SidesOf(Top.src)]
              /\ UNCHANGED handed
      /\ UNCHANGED <<counts, chunks, commits>>
  BY DEF FinishBuild
<1>2. frames # <<>> /\ Top \in Frame /\ Top.rec \in Records /\ dead = {}
  BY <1>1, TopType
<1>3. /\ minted \in Seq(Records) /\ moved \in Seq(Records)
      /\ Top.minted <= Len(minted) /\ Top.moved <= Len(moved)
  BY <1>2, TopMarks
<1>4. SidesOf(Top.src) \in SUBSET counted /\ SidesOf(Top.src) \in SUBSET Places
  BY DEF SidesOf, PlacesOf, TypeInv, TypeOK
<1>5. /\ call' \in Call /\ call'.op \in {"none", "carry"}
      /\ call'.op = "carry" => call'.rec \in Records /\ call'.copies \subseteq counted
  <2>1. CASE Top.src = Nil
    BY <1>1, <2>1, NoCallType
  <2>2. CASE Top.src # Nil
    <3>1. call' = [op |-> "carry", rec |-> Top.rec, copies |-> SidesOf(Top.src), n |-> 0, base |-> 0,
                   kept |-> {}, carried |-> <<>>]
      BY <1>1, <2>2 DEF NoCall
    <3> QED
      BY <1>2, <1>4, <3>1, EmptySeq DEF Call
  <2> QED
    BY <2>1, <2>2
<1>6. handed' \in SUBSET Records
  BY <1>1, <1>2 DEF TypeInv, TypeOK
<1>7. /\ frames' \in Seq(Frame) /\ minted' \in Seq(Records) /\ moved' \in Seq(Records)
      /\ Len(frames') = Len(frames) - 1
      /\ \A i \in 1..Len(frames') : frames'[i] = frames[i]
      /\ Marks'
  BY <1>1, <1>2, <1>3, <1>5, EndScopeType
<1>8. TypeOK'
  BY <1>1, <1>5, <1>6, <1>7 DEF TypeInv, TypeOK, counts, chunks
<1>9. Control'
  BY <1>1, <1>2, <1>5, <1>7, Elements DEF TypeInv, Control, counts
<1> QED
  BY <1>7, <1>8, <1>9 DEF TypeInv

LEMMA FinishInterceptedType == ASSUME TypeInv, FinishIntercepted PROVE TypeInv'
<1>1. /\ call.op = "none" /\ frames # <<>> /\ EndScope(minted, moved)
      /\ UNCHANGED <<counts, chunks, handed, commits, call>>
  BY DEF FinishIntercepted, UserCode, Idle
<1>2. /\ minted \in Seq(Records) /\ moved \in Seq(Records)
      /\ Top.minted <= Len(minted) /\ Top.moved <= Len(moved)
  BY <1>1, TopMarks
<1>3. /\ frames' \in Seq(Frame) /\ minted' \in Seq(Records) /\ moved' \in Seq(Records)
      /\ Len(frames') = Len(frames) - 1
      /\ \A i \in 1..Len(frames') : frames'[i] = frames[i]
      /\ Marks'
  BY <1>1, <1>2, EndScopeType
<1>4. TypeOK'
  BY <1>1, <1>3 DEF TypeInv, TypeOK, counts, chunks
<1>5. Control'
  BY <1>1, <1>3, Elements DEF TypeInv, Control, counts
<1> QED
  BY <1>3, <1>4, <1>5 DEF TypeInv

LEMMA CarrySideType ==
  ASSUME TypeInv, NEW p \in call.copies, CarrySide(p)
  PROVE  TypeInv'
<1> DEFINE q == <<call.rec, p[2]>>
           x == words[p]
<1>1. /\ call.op = "carry" /\ count' = Adopted(x) /\ owned' = owned \ {x}
      /\ words' = [words EXCEPT ![q] = x] /\ counted' = counted \cup {q}
      /\ call' = [call EXCEPT !.copies = @ \ {p}]
      /\ UNCHANGED <<dead, chunks, handed, scopes>>
  BY DEF CarrySide
<1>2. /\ call \in Call /\ call.copies \subseteq counted /\ call.rec \in Records /\ dead = {}
      /\ x \in Records /\ q \in Places
  BY <1>1 DEF TypeInv, TypeOK, Control, Places
<1>3. count' \in [Records -> Nat]
  BY <1>1, <1>2, CountType DEF TypeInv, TypeOK, Adopted
<1>4. /\ call' \in Call /\ call'.op = "carry" /\ call'.rec = call.rec
      /\ call'.copies = call.copies \ {p}
  BY <1>1, <1>2 DEF Call
<1>5. words' \in [Places -> Records \cup {Nil}] /\ counted' \in SUBSET Places
  BY <1>1, <1>2 DEF TypeInv, TypeOK
<1>6. TypeOK'
  BY <1>1, <1>3, <1>4, <1>5 DEF TypeInv, TypeOK, chunks, scopes
<1>7. Control'
  <2>1. \A o \in Places : words'[o] = IF o = q THEN x ELSE words[o]
    BY <1>1, <1>2 DEF TypeInv, TypeOK
  <2> QED
    BY <1>1, <1>2, <1>4, <2>1 DEF TypeInv, TypeOK, Control, scopes
<1>8. Marks'
  BY <1>1, <1>4 DEF TypeInv, Marks, scopes
<1> QED
  BY <1>6, <1>7, <1>8 DEF TypeInv

LEMMA ReturnEditType == ASSUME TypeInv, ReturnEdit PROVE TypeInv'
<1>1. /\ call.op = "carry" /\ call.rec \in Records /\ handed' = handed \cup {call.rec}
      /\ call' = NoCall /\ UNCHANGED <<counts, chunks, scopes>>
  BY DEF ReturnEdit, TypeInv, Control
<1>2. TypeOK'
  BY <1>1, NoCallType DEF TypeInv, TypeOK, counts, chunks, scopes
<1>3. Control' /\ Marks'
  BY <1>1, NoCallType DEF TypeInv, Control, Marks, counts, scopes
<1> QED
  BY <1>2, <1>3 DEF TypeInv

LEMMA RefuseEditType == ASSUME TypeInv, Live, RefuseEdit PROVE TypeInv'
<1>1. /\ call.op = "carry" /\ call.rec \in Records /\ ReleaseOwned(call.rec)
      /\ call' = NoCall /\ UNCHANGED <<words, counted, chunks, handed, scopes>>
  BY DEF RefuseEdit, TypeInv, Control
<1>2. TypeOK'
  BY <1>1, NoCallType, ReleaseOwnedType DEF TypeInv, TypeOK, chunks, scopes
<1>3. Control' /\ Marks'
  BY <1>1, NoCallType DEF TypeInv, Control, Marks, scopes
<1> QED
  BY <1>2, <1>3 DEF TypeInv

-----------------------------------------------------------------------------
(* Rollbacks.                                                              *)

LEMMA ThrowType == ASSUME TypeInv, Throw \/ CopyRefused PROVE TypeInv'
<1>1. /\ frames # <<>> /\ call' = [NoCall EXCEPT !.op = "giveback", !.n = Len(moved)]
      /\ UNCHANGED <<counts, chunks, handed, scopes>>
  BY DEF Throw, CopyRefused, TypeInv, Control
<1>2. /\ call' = [op |-> "giveback", rec |-> Nil, copies |-> {}, n |-> Len(moved), base |-> 0,
                  kept |-> {}, carried |-> <<>>]
      /\ Len(moved) \in Nat
  BY <1>1, Elements DEF NoCall, TypeInv
<1>3. call' \in Call /\ call'.op = "giveback" /\ call'.n = Len(moved)
  BY <1>2, EmptySeq DEF Call
<1>4. TypeOK'
  BY <1>1, <1>3 DEF TypeInv, TypeOK, counts, chunks, scopes
<1>5. Control' /\ Marks'
  BY <1>1, <1>2, <1>3 DEF TypeInv, Control, Marks, counts, scopes
<1> QED
  BY <1>4, <1>5 DEF TypeInv

LEMMA GiveBackMovedType == ASSUME TypeInv, GiveBackMoved PROVE TypeInv'
<1>1. /\ call.op = "giveback" /\ frames # <<>> /\ call.n <= Len(moved) /\ call \in Call
      /\ UNCHANGED <<words, counted, dead, chunks, handed, scopes>>
  BY DEF GiveBackMoved, TypeInv, TypeOK, Control
<1>2. /\ Top.moved \in Nat /\ call.n \in Nat /\ Len(minted) \in Nat
      /\ \A i \in 1..Len(moved) : moved[i] \in Records
  BY <1>1, ScopesType, Elements DEF Frame, Call, TypeInv
<1>3. CASE call.n > Top.moved
  <2>1. GiveBack(moved[call.n]) /\ call' = [call EXCEPT !.n = @ - 1]
    BY <1>3 DEF GiveBackMoved
  <2>2. /\ call' \in Call /\ call'.op = "giveback" /\ call'.n <= Len(moved)
    <3>1. call.n - 1 \in Nat /\ call.n - 1 <= Len(moved)
      BY <1>1, <1>2, <1>3, Elements DEF TypeInv
    <3> QED
      BY <1>1, <2>1, <3>1 DEF Call
  <2>3. count' \in [Records -> Nat] /\ owned' \in SUBSET Records
    BY <1>1, <1>2, <1>3, <2>1, GiveBackType DEF TypeInv
  <2>4. TypeOK'
    BY <1>1, <2>2, <2>3 DEF TypeInv, TypeOK, chunks, scopes
  <2>5. Control' /\ Marks'
    BY <1>1, <2>2 DEF TypeInv, Control, Marks, scopes
  <2> QED
    BY <2>4, <2>5 DEF TypeInv
<1>4. CASE ~(call.n > Top.moved)
  <2>1. call' = [call EXCEPT !.op = "free", !.n = Len(minted)] /\ UNCHANGED <<count, owned>>
    BY <1>4 DEF GiveBackMoved
  <2>2. call' \in Call /\ call'.op = "free" /\ call'.n = Len(minted)
    BY <1>1, <1>2, <2>1, CallType DEF Call
  <2>3. TypeOK'
    BY <1>1, <2>1, <2>2 DEF TypeInv, TypeOK, chunks, scopes
  <2>4. Control' /\ Marks'
    BY <1>1, <1>2, <2>2 DEF TypeInv, Control, Marks, scopes
  <2> QED
    BY <2>3, <2>4 DEF TypeInv
<1> QED
  BY <1>3, <1>4

LEMMA FreeMintedType == ASSUME TypeInv, Live, FreeMinted PROVE TypeInv'
<1>1. /\ call.op = "free" /\ frames # <<>> /\ call.n <= Len(minted) /\ call \in Call
      /\ call.n > Top.minted /\ ReleaseOwned(minted[call.n])
      /\ call' = [call EXCEPT !.n = @ - 1]
      /\ UNCHANGED <<words, counted, chunks, handed, scopes>>
  BY DEF FreeMinted, TypeInv, TypeOK, Control
<1>2. /\ Top.minted \in Nat /\ call.n \in Nat /\ Len(minted) \in Nat
      /\ \A i \in 1..Len(minted) : minted[i] \in Records
  BY <1>1, ScopesType, Elements DEF Frame, Call, TypeInv
<1>3. minted[call.n] \in Records
  BY <1>1, <1>2
<1>4. call' \in Call /\ call'.op = "free" /\ call'.n <= Len(minted)
  <2>1. call.n - 1 \in Nat /\ call.n - 1 <= Len(minted)
    BY <1>1, <1>2
  <2> QED
    BY <1>1, <2>1 DEF Call
<1>5. TypeOK'
  BY <1>1, <1>3, <1>4, ReleaseOwnedType DEF TypeInv, TypeOK, chunks, scopes
<1>6. Control' /\ Marks'
  BY <1>1, <1>4 DEF TypeInv, Control, Marks, scopes
<1> QED
  BY <1>5, <1>6 DEF TypeInv

LEMMA AbandonedType == ASSUME TypeInv, Abandoned \/ AbandonRefused PROVE TypeInv'
<1> DEFINE m == SubSeq(minted, 1, Top.minted)
           v == SubSeq(moved, 1, Top.moved)
<1>1. /\ call.op \in {"giveback", "free"} /\ dead = {}
      /\ EndScope(m, v) \/ EndScope(minted, moved)
      /\ call' = NoCall /\ UNCHANGED <<counts, chunks, handed, commits>>
  BY DEF Abandoned, AbandonRefused
<1>2. /\ frames # <<>> /\ minted \in Seq(Records) /\ moved \in Seq(Records)
      /\ Top.minted \in 0..Len(minted) /\ Top.moved \in 0..Len(moved)
  <2>1. frames # <<>>
    BY <1>1 DEF TypeInv, Control
  <2> QED
    BY <2>1, TopMarks
<1>3. m \in Seq(Records) /\ v \in Seq(Records) /\ Len(m) = Top.minted /\ Len(v) = Top.moved
  BY <1>2, PrefixType
<1>4. /\ frames' \in Seq(Frame) /\ minted' \in Seq(Records) /\ moved' \in Seq(Records)
      /\ Len(frames') = Len(frames) - 1
      /\ \A i \in 1..Len(frames') : frames'[i] = frames[i]
      /\ Marks'
  <2>1. commits' = commits /\ call'.op # "close"
    BY <1>1, NoCallType
  <2>2. Top.minted <= Top.minted /\ Top.moved <= Top.moved
    BY <1>2
  <2>3. CASE EndScope(m, v)
    BY <1>2, <1>3, <2>1, <2>2, <2>3, EndScopeType
  <2>4. CASE EndScope(minted, moved)
    BY <1>2, <2>1, <2>4, EndScopeType
  <2> QED
    BY <1>1, <2>3, <2>4
<1>5. TypeOK'
  BY <1>1, <1>4, NoCallType DEF TypeInv, TypeOK, counts, chunks
<1>6. Control'
  BY <1>1, <1>4, NoCallType, Elements DEF TypeInv, Control, counts
<1> QED
  BY <1>4, <1>5, <1>6 DEF TypeInv

-----------------------------------------------------------------------------
(* Nodes and commit scopes.                                                *)

LEMMA ReleaseType == ASSUME TypeInv, Live, Release PROVE TypeInv'
<1>1. PICK d \in dead :
        \/ \E p \in PlacesOf(d) :
             /\ counted' = counted \ {p}
             /\ words' = IF p[2] \in Sides THEN [words EXCEPT ![p] = Nil] ELSE words
             /\ count' = Dropped(count, words[p])
             /\ dead' = Released(count, words[p])
        \/ /\ PlacesOf(d) = {}
           /\ dead' = dead \ {d}
           /\ UNCHANGED <<count, words, counted>>
  BY DEF Release
<1>2. /\ UNCHANGED <<owned, chunks, handed, scopes, call>>
      /\ d \in dead /\ call.op \notin {"copy", "carry"}
  BY DEF Release, TypeInv, Control
<1>3. CASE \E p \in PlacesOf(d) :
             /\ counted' = counted \ {p}
             /\ words' = IF p[2] \in Sides THEN [words EXCEPT ![p] = Nil] ELSE words
             /\ count' = Dropped(count, words[p])
             /\ dead' = Released(count, words[p])
  <2>1. PICK p \in PlacesOf(d) :
             /\ counted' = counted \ {p}
             /\ words' = IF p[2] \in Sides THEN [words EXCEPT ![p] = Nil] ELSE words
             /\ count' = Dropped(count, words[p])
             /\ dead' = Released(count, words[p])
    BY <1>3
  <2>2. p \in counted /\ p \in Places /\ words[p] \in Records /\ count[words[p]] > 0
    BY DEF PlacesOf, TypeInv, TypeOK, Control, Live
  <2>3. words' \in [Places -> Records \cup {Nil}] /\ \A o \in counted' : words'[o] \in Records
    BY <2>1, <2>2 DEF TypeInv, TypeOK, Control
  <2>4. count' \in [Records -> Nat]
    BY <2>1, <2>2, CountType DEF TypeInv, TypeOK
  <2>5. dead' \in SUBSET Records
    BY <2>1, <2>2 DEF TypeInv, TypeOK, Released
  <2>6. TypeOK'
    BY <1>2, <2>1, <2>3, <2>4, <2>5 DEF TypeInv, TypeOK, chunks, scopes
  <2>7. Control' /\ Marks'
    BY <1>2, <2>3 DEF TypeInv, Control, Marks, scopes
  <2> QED
    BY <2>6, <2>7 DEF TypeInv
<1>4. CASE /\ PlacesOf(d) = {}
           /\ dead' = dead \ {d}
           /\ UNCHANGED <<count, words, counted>>
  <2>1. TypeOK'
    BY <1>2, <1>4 DEF TypeInv, TypeOK, chunks, scopes
  <2>2. Control' /\ Marks'
    BY <1>2, <1>4 DEF TypeInv, Control, Marks, scopes
  <2> QED
    BY <2>1, <2>2 DEF TypeInv
<1> QED
  BY <1>1, <1>3, <1>4

LEMMA ReleaseNodeType ==
  ASSUME TypeInv, Live, NEW x \in Records, ReleaseNode(x)
  PROVE  TypeInv'
<1>1. /\ call.op = "none" /\ ReleaseOwned(x)
      /\ UNCHANGED <<words, counted, chunks, handed, scopes, call>>
  BY DEF ReleaseNode, UserWrites, UserCode, Idle
<1>2. TypeOK'
  BY <1>1, ReleaseOwnedType DEF TypeInv, TypeOK, chunks, scopes
<1>3. Control' /\ Marks'
  BY <1>1 DEF TypeInv, Control, Marks, scopes
<1> QED
  BY <1>2, <1>3 DEF TypeInv

LEMMA WriteSideType ==
  ASSUME TypeInv, Live, NEW h \in Records, NEW s \in Sides, NEW x \in Records \cup {Nil},
         WriteSide(h, s, x)
  PROVE  TypeInv'
<1> DEFINE p == <<h, s>>
           held == IF x = Nil THEN count ELSE Adopted(x)
<1>1. /\ call.op = "none" /\ dead = {}
      /\ owned' = owned \ {x} /\ words' = [words EXCEPT ![p] = x]
      /\ counted' = IF x = Nil THEN counted \ {p} ELSE counted \cup {p}
      /\ IF p \in counted
         THEN count' = Dropped(held, words[p]) /\ dead' = Released(held, words[p])
         ELSE count' = held /\ UNCHANGED dead
      /\ UNCHANGED <<chunks, handed, scopes, call>>
  BY DEF WriteSide, UserWrites, UserCode, Idle
<1>2. p \in Places
  BY DEF Places
<1>3. held \in [Records -> Nat] /\ \A y \in Records : held[y] >= count[y]
  <2>1. CASE x = Nil \/ x \in owned
    BY <2>1 DEF TypeInv, TypeOK, Adopted
  <2>2. CASE x \in Records \ owned
    <3>1. held = [count EXCEPT ![x] = @ + 1]
      BY <2>2, ConstantsAssumption DEF Adopted
    <3>2. count \in [Records -> Nat]
      BY DEF TypeInv, TypeOK
    <3>3. /\ [count EXCEPT ![x] = @ + 1] \in [Records -> Nat]
          /\ \A y \in Records : [count EXCEPT ![x] = @ + 1][y] >= count[y]
      BY <2>2, <3>2
    <3> QED
      BY <3>1, <3>3
  <2> QED
    BY <2>1, <2>2
<1>4. count' \in [Records -> Nat] /\ dead' \in SUBSET Records
  <2>1. CASE p \in counted
    <3>1. words[p] \in Records /\ count[words[p]] > 0
      BY <2>1 DEF TypeInv, TypeOK, Control, Live
    <3>2. held[words[p]] > 0
      BY <1>3, <3>1 DEF TypeInv, TypeOK
    <3>3. count' \in [Records -> Nat]
      BY <1>1, <1>3, <2>1, <3>1, <3>2, CountType
    <3>4. dead' \in SUBSET Records
      BY <1>1, <2>1, <3>1 DEF Released, TypeInv, TypeOK
    <3> QED
      BY <3>3, <3>4
  <2>2. CASE p \notin counted
    BY <1>1, <1>3, <2>2 DEF TypeInv, TypeOK
  <2> QED
    BY <2>1, <2>2
<1>5. words' \in [Places -> Records \cup {Nil}] /\ counted' \in SUBSET Places
  BY <1>1, <1>2 DEF TypeInv, TypeOK
<1>6. TypeOK'
  BY <1>1, <1>4, <1>5 DEF TypeInv, TypeOK, chunks, scopes
<1>7. Control'
  <2>1. \A o \in Places : words'[o] = IF o = p THEN x ELSE words[o]
    BY <1>1, <1>2 DEF TypeInv, TypeOK
  <2>2. \A o \in counted : o \in Places /\ words[o] \in Records
    BY DEF TypeInv, TypeOK, Control
  <2>3. \A o \in counted' : words'[o] \in Records
    BY <1>1, <1>2, <2>1, <2>2
  <2> QED
    BY <1>1, <2>3 DEF TypeInv, Control, scopes
<1>8. Marks'
  BY <1>1 DEF TypeInv, Marks, scopes
<1> QED
  BY <1>6, <1>7, <1>8 DEF TypeInv

LEMMA CommitsType ==
  ASSUME TypeOK
  PROVE  /\ commits \in Seq(Mark) /\ Len(commits) \in Nat
         /\ \A i \in 1..Len(commits), x \in Records :
              [commits EXCEPT ![i].kept = @ \cup {x}] \in Seq(Mark)
<1>1. commits \in Seq(Mark) /\ Len(commits) \in Nat /\ \A i \in 1..Len(commits) : commits[i] \in Mark
  BY Elements DEF TypeOK
<1>2. ASSUME NEW i \in 1..Len(commits), NEW x \in Records
      PROVE  [commits EXCEPT ![i].kept = @ \cup {x}] \in Seq(Mark)
  <2>1. [commits[i] EXCEPT !.kept = @ \cup {x}] \in Mark
    BY <1>1 DEF Mark
  <2>2. [commits EXCEPT ![i] = [commits[i] EXCEPT !.kept = @ \cup {x}]] \in Seq(Mark)
    BY <1>1, <2>1, ExceptSeq
  <2> QED
    BY <2>2
<1> QED
  BY <1>1, <1>2

LEMMA KeepType ==
  ASSUME TypeInv, NEW i \in 1..MaxCommits, NEW x \in Records, Keep(i, x)
  PROVE  TypeInv'
<1>1. /\ call.op = "none" /\ i \in 1..Len(commits)
      /\ IF x \in owned THEN UNCHANGED <<count, owned>> ELSE GiveBack(x)
      /\ commits' = [commits EXCEPT ![i].kept = @ \cup {x}]
      /\ UNCHANGED <<words, counted, dead, chunks, handed, minted, moved, frames, call>>
  BY DEF Keep, UserWrites, UserCode, Idle
<1>2. count' \in [Records -> Nat] /\ owned' \in SUBSET Records
  <2>1. CASE x \in owned
    BY <1>1, <2>1 DEF TypeInv, TypeOK
  <2>2. CASE x \notin owned
    BY <1>1, <2>2, GiveBackType DEF TypeInv
  <2> QED
    BY <2>1, <2>2
<1>3. commits' \in Seq(Mark) /\ Len(commits') = Len(commits)
  BY <1>1, CommitsType, LenProperties DEF TypeInv
<1>4. \A j \in 1..Len(commits) : commits'[j].minted = commits[j].minted
  <2>1. commits \in Seq(Mark) /\ commits[i] \in Mark
    BY <1>1, CommitsType, Elements DEF TypeInv
  <2>2. commits' = [commits EXCEPT ![i] = [commits[i] EXCEPT !.kept = @ \cup {x}]]
    BY <1>1
  <2>3. [commits[i] EXCEPT !.kept = @ \cup {x}].minted = commits[i].minted
    BY <2>1 DEF Mark
  <2> QED
    BY <1>1, <2>1, <2>2, <2>3, LenProperties
<1>5. TypeOK'
  BY <1>1, <1>2, <1>3 DEF TypeInv, TypeOK, chunks
<1>6. Control'
  BY <1>1 DEF TypeInv, Control
<1>7. Marks'
  BY <1>1, <1>3, <1>4 DEF TypeInv, Marks
<1> QED
  BY <1>5, <1>6, <1>7 DEF TypeInv

LEMMA OpenCommitType == ASSUME TypeInv, OpenCommit PROVE TypeInv'
<1> DEFINE mark == [minted |-> Len(minted), kept |-> {}]
<1>1. /\ call.op = "none" /\ frames = <<>> /\ commits' = Append(commits, mark)
      /\ UNCHANGED <<counts, chunks, handed, minted, moved, frames, call>>
  BY DEF OpenCommit, Idle
<1>2. /\ mark \in Mark /\ commits \in Seq(Mark) /\ Len(commits) \in Nat /\ Len(minted) \in Nat
      /\ Len(frames) = 0
  BY <1>1, Elements, EmptySeq DEF Mark, TypeInv, TypeOK
<1>3. /\ commits' \in Seq(Mark) /\ Len(commits') = Len(commits) + 1
      /\ \A i \in 1..Len(commits') :
           commits'[i].minted = IF i = Len(commits) + 1 THEN Len(minted) ELSE commits[i].minted
  BY <1>1, <1>2, AppendProperties
<1>4. TypeOK'
  BY <1>1, <1>3 DEF TypeInv, TypeOK, counts, chunks
<1>5. Control'
  BY <1>1 DEF TypeInv, Control, counts
<1>6. Marks'
  BY <1>1, <1>2, <1>3 DEF TypeInv, Marks
<1> QED
  BY <1>4, <1>5, <1>6 DEF TypeInv

LEMMA CloseCommitType == ASSUME TypeInv, CloseCommit PROVE TypeInv'
<1> DEFINE L == Len(commits)
           mark == commits[L]
<1>1. /\ call.op = "none" /\ frames = <<>> /\ commits # <<>>
      /\ commits' = SubSeq(commits, 1, L - 1)
      /\ call' = [NoCall EXCEPT !.op = "close", !.n = mark.minted + 1, !.base = mark.minted,
                                !.kept = mark.kept]
      /\ UNCHANGED <<counts, chunks, handed, minted, moved, frames>>
  BY DEF CloseCommit, Idle
<1>2. L \in 1..L /\ mark \in Mark /\ Len(frames) = 0 /\ L - 1 \in 0..L /\ commits \in Seq(Mark)
  BY <1>1, Elements, EmptySeq DEF TypeInv, TypeOK
<1>3. /\ commits' \in Seq(Mark) /\ Len(commits') = L - 1
      /\ \A i \in 1..(L - 1) : commits'[i] = commits[i]
  <2>1. /\ SubSeq(commits, 1, L - 1) \in Seq(Mark) /\ Len(SubSeq(commits, 1, L - 1)) = L - 1
        /\ \A i \in 1..(L - 1) : SubSeq(commits, 1, L - 1)[i] = commits[i]
    BY <1>2, PrefixType
  <2> QED
    BY <1>1, <2>1
<1>4. call' = [op |-> "close", rec |-> Nil, copies |-> {}, n |-> mark.minted + 1,
               base |-> mark.minted, kept |-> mark.kept, carried |-> <<>>]
  BY <1>1 DEF NoCall
<1>5. call' \in Call
  BY <1>2, <1>4, EmptySeq DEF Call, Mark
<1>6. TypeOK'
  BY <1>1, <1>3, <1>5 DEF TypeInv, TypeOK, counts, chunks
<1>7. mark.minted <= Len(minted) /\ mark.minted < mark.minted + 1
  BY <1>2 DEF TypeInv, Marks, Mark
<1>8. Control'
  BY <1>1, <1>4, <1>7 DEF TypeInv, Control, counts
<1>9. Marks'
  <2>1. /\ call'.base = mark.minted /\ Len(frames') = 0 /\ minted' = minted
        /\ \A i \in 1..Len(commits') : i \in 1..L /\ commits'[i] = commits[i] /\ i <= L
    BY <1>1, <1>2, <1>3, <1>4
  <2>2. \A i \in 1..Len(commits') : commits'[i].minted <= call'.base
    BY <1>2, <2>1 DEF TypeInv, Marks
  <2> QED
    BY <2>1, <2>2 DEF TypeInv, Marks
<1> QED
  BY <1>6, <1>8, <1>9 DEF TypeInv

LEMMA CloseNextType == ASSUME TypeInv, Live, CloseNext PROVE TypeInv'
<1> DEFINE x == minted[call.n]
<1>1. /\ call.op = "close" /\ frames = <<>> /\ call.base <= Len(minted) /\ call.base < call.n
      /\ call \in Call /\ call.n \in 1..Len(minted)
      /\ UNCHANGED <<words, counted, chunks, handed, scopes>>
  BY SMTT(30), Elements DEF CloseNext, TypeInv, TypeOK, Control, Call
<1>2. x \in Records
  BY <1>1, Elements DEF TypeInv
<1>3. count' \in [Records -> Nat] /\ owned' \in SUBSET Records /\ dead' \in SUBSET Records
  <2>1. CASE UNCHANGED <<owned, count, dead>>
    BY <2>1 DEF TypeInv, TypeOK
  <2>2. CASE ReleaseOwned(x)
    BY <1>2, <2>2, ReleaseOwnedType DEF TypeInv
  <2> QED
    BY <2>1, <2>2 DEF CloseNext
<1>4. call' \in Call /\ call'.op = "close" /\ call'.base = call.base /\ call'.n = call.n + 1
  <2>1. CASE call' = [call EXCEPT !.n = @ + 1]
    BY <1>1, <2>1 DEF Call
  <2>2. CASE call' = [call EXCEPT !.n = @ + 1, !.carried = Append(@, x)]
    <3>1. Append(call.carried, x) \in Seq(Records)
      BY <1>1, <1>2, AppendProperties DEF Call
    <3>2. call' = [op |-> call.op, rec |-> call.rec, copies |-> call.copies, n |-> call.n + 1,
                   base |-> call.base, kept |-> call.kept, carried |-> Append(call.carried, x)]
      BY <1>1, <2>2 DEF Call
    <3> QED
      BY <1>1, <3>1, <3>2 DEF Call
  <2> QED
    BY <2>1, <2>2 DEF CloseNext
<1>5. TypeOK'
  BY <1>1, <1>3, <1>4 DEF TypeInv, TypeOK, chunks, scopes
<1>6. call'.base < call'.n
  BY <1>1, <1>4 DEF Call
<1>7. Control' /\ Marks'
  BY <1>1, <1>4, <1>6 DEF TypeInv, Control, Marks, scopes
<1> QED
  BY <1>5, <1>7 DEF TypeInv

LEMMA ClosedType == ASSUME TypeInv, Closed PROVE TypeInv'
<1> DEFINE s == SubSeq(minted, 1, call.base)
           t == IF commits = <<>> THEN <<>> ELSE call.carried
<1>1. /\ call.op = "close" /\ minted' = s \o t /\ call' = NoCall
      /\ UNCHANGED <<counts, chunks, handed, moved, frames, commits>>
  BY DEF Closed
<1>2. /\ frames = <<>> /\ call \in Call /\ call.base \in 0..Len(minted)
  <2>1. frames = <<>> /\ call.base <= Len(minted) /\ Len(minted) \in Nat
    BY <1>1, Elements DEF TypeInv, Control
  <2>2. call \in Call /\ call.base \in Nat
    BY DEF TypeInv, TypeOK, Call
  <2> QED
    BY <2>1, <2>2
<1>3. s \in Seq(Records) /\ Len(s) = call.base
  BY <1>2, PrefixType DEF TypeInv, TypeOK
<1>4. t \in Seq(Records)
  BY <1>2, EmptySeq DEF Call
<1>5. minted' \in Seq(Records) /\ Len(minted') >= call.base
  BY <1>2, <1>1, <1>3, <1>4, ConcatProperties, LenProperties
<1>6. TypeOK'
  BY <1>1, <1>5, NoCallType DEF TypeInv, TypeOK, counts, chunks
<1>7. Control'
  BY <1>1, NoCallType DEF TypeInv, Control, counts
<1>8. Marks'
  <2>1. Len(frames) = 0 /\ Len(minted') \in Nat /\ call.base \in Nat
    BY <1>2, <1>1, <1>5, EmptySeq, LenProperties DEF Call
  <2>2. \A i \in 1..Len(commits) : commits[i].minted \in Nat /\ commits[i].minted <= call.base
    BY <1>1, Elements DEF TypeInv, Marks, Mark
  <2> QED
    BY <1>1, <1>5, <2>1, <2>2, NoCallType DEF TypeInv, Marks
<1> QED
  BY <1>6, <1>7, <1>8 DEF TypeInv

LEMMA CloseRefusedType == ASSUME TypeInv, CloseRefused PROVE TypeInv'
<1>1. call' = NoCall /\ UNCHANGED <<counts, chunks, handed, scopes>>
  BY DEF CloseRefused
<1>2. TypeOK'
  BY <1>1, NoCallType DEF TypeInv, TypeOK, counts, chunks, scopes
<1>3. Control' /\ Marks'
  BY <1>1, NoCallType DEF TypeInv, Control, Marks, counts, scopes
<1> QED
  BY <1>2, <1>3 DEF TypeInv

LEMMA TypeStep == ASSUME TypeInv, Live, [Next]_vars PROVE TypeInv'
<1>1. CASE Release
  BY <1>1, ReleaseType
<1>2. ASSUME NEW p \in call.copies, CopyCell(p) \/ CarrySide(p) PROVE TypeInv'
  BY <1>2, CopyCellType, CarrySideType
<1>3. CASE CopyRefused \/ Throw
  BY <1>3, ThrowType
<1>4. CASE ReturnEdit \/ RefuseEdit
  BY <1>4, ReturnEditType, RefuseEditType
<1>5. CASE GiveBackMoved \/ FreeMinted \/ Abandoned \/ AbandonRefused
  BY <1>5, GiveBackMovedType, FreeMintedType, AbandonedType
<1>6. CASE CloseNext \/ Closed \/ CloseRefused
  BY <1>6, CloseNextType, ClosedType, CloseRefusedType
<1>7. CASE InterceptBuild \/ InternText \/ FinishBuild \/ FinishIntercepted
  BY <1>7, InterceptBuildType, InternTextType, FinishBuildType, FinishInterceptedType
<1>8. ASSUME NEW r \in Records, BuildRecord(r) \/ ReleaseNode(r) PROVE TypeInv'
  BY <1>8, BuildRecordType, ReleaseNodeType
<1>9. ASSUME NEW r \in Records, NEW src \in Records, EditRecord(r, src) PROVE TypeInv'
  BY <1>9, EditRecordType
<1>10. ASSUME NEW c \in Cells, PatchCell(c) PROVE TypeInv'
  BY <1>10, PatchCellType
<1>11. ASSUME NEW c \in Cells, NEW x \in Records, StoreCell(c, x) \/ StoreRun(c, x) \/ StoreItem(c, x)
       PROVE  TypeInv'
  BY <1>11, StoreCellType, StoreRunType, StoreItemType
<1>12. ASSUME NEW h \in Records, NEW s \in Sides, NEW x \in Records \cup {Nil}, WriteSide(h, s, x)
       PROVE  TypeInv'
  BY <1>12, WriteSideType
<1>13. CASE OpenCommit \/ CloseCommit
  BY <1>13, OpenCommitType, CloseCommitType
<1>14. ASSUME NEW i \in 1..MaxCommits, NEW x \in Records, Keep(i, x) PROVE TypeInv'
  BY <1>14, KeepType
<1>15. CASE UNCHANGED vars
  BY <1>15 DEF vars, counts, chunks, scopes, TypeInv, TypeOK, Control, Marks
<1> QED
  BY <1>1, <1>2, <1>3, <1>4, <1>5, <1>6, <1>7, <1>8, <1>9, <1>10, <1>11, <1>12, <1>13, <1>14, <1>15
     DEF Next, Continues, Starts

-----------------------------------------------------------------------------
(* The holders of a record.                                                *)

\* The counts of x its handle and its places hold.
Need(x) == OwnCount(x) + Cardinality(Holders(x))

LEMMA NeedType ==
  ASSUME IsFiniteSet(counted), NEW x
  PROVE  /\ IsFiniteSet(Holders(x)) /\ Cardinality(Holders(x)) \in Nat
         /\ OwnCount(x) \in {0, 1} /\ Need(x) \in Nat
<1>1. Holders(x) \subseteq counted
  BY DEF Holders
<1>2. IsFiniteSet(Holders(x)) /\ Cardinality(Holders(x)) \in Nat
  BY <1>1, FS_Subset, FS_CardinalityType
<1>3. OwnCount(x) \in {0, 1}
  BY DEF OwnCount
<1> QED
  BY <1>2, <1>3 DEF Need

LEMMA Larger ==
  ASSUME NEW S, NEW T, IsFiniteSet(S), T \subseteq S
  PROVE  IsFiniteSet(T) /\ Cardinality(T) \in Nat /\ Cardinality(S) \in Nat
         /\ Cardinality(T) <= Cardinality(S)
BY FS_Subset, FS_CardinalityType

LEMMA LargerByOne ==
  ASSUME NEW S, NEW T, NEW p, IsFiniteSet(S), T \subseteq S \cup {p}
  PROVE  IsFiniteSet(T) /\ Cardinality(T) \in Nat /\ Cardinality(T) <= Cardinality(S) + 1
<1>1. /\ IsFiniteSet(S \cup {p}) /\ Cardinality(S \cup {p}) \in Nat /\ Cardinality(S) \in Nat
      /\ Cardinality(S \cup {p}) <= Cardinality(S) + 1
  <2>1. IsFiniteSet(S \cup {p}) /\ Cardinality(S) \in Nat
    BY FS_AddElement, FS_CardinalityType
  <2>2. Cardinality(S \cup {p}) \in Nat
    BY <2>1, FS_CardinalityType
  <2>3. Cardinality(S \cup {p}) = IF p \in S THEN Cardinality(S) ELSE Cardinality(S) + 1
    BY FS_AddElement
  <2> QED
    BY <2>1, <2>2, <2>3
<1>2. IsFiniteSet(T) /\ Cardinality(T) \in Nat /\ Cardinality(T) <= Cardinality(S \cup {p})
  BY <1>1, Larger
<1> QED
  BY <1>1, <1>2

LEMMA SmallerByOne ==
  ASSUME NEW S, NEW p \in S, NEW T, IsFiniteSet(S), T \subseteq S \ {p}
  PROVE  IsFiniteSet(T) /\ Cardinality(T) \in Nat /\ Cardinality(T) <= Cardinality(S) - 1
<1>1. IsFiniteSet(S \ {p}) /\ Cardinality(S \ {p}) = Cardinality(S) - 1
  BY FS_RemoveElement
<1> QED
  BY <1>1, Larger

\* Every counted place names a live record, as every handle owning a count does.
LEMMA CoverLive == ASSUME TypeInv, IsFiniteSet(counted), CountsCover PROVE Live
<1>1. ASSUME NEW p \in counted PROVE count[words[p]] > 0
  <2>1. words[p] \in Records /\ p \in Holders(words[p])
    BY DEF TypeInv, Control, Holders
  <2>2. Cardinality(Holders(words[p])) - 1 \in Nat
    <3>1. IsFiniteSet(Holders(words[p]))
      BY NeedType
    <3>2. /\ Cardinality(Holders(words[p]) \ {p}) = Cardinality(Holders(words[p])) - 1
          /\ IsFiniteSet(Holders(words[p]) \ {p})
      BY <2>1, <3>1, FS_RemoveElement
    <3> QED
      BY <3>2, FS_CardinalityType
  <2>3. count[words[p]] >= OwnCount(words[p]) + Cardinality(Holders(words[p]))
    BY <2>1 DEF CountsCover
  <2>4. /\ count[words[p]] \in Nat /\ Cardinality(Holders(words[p])) \in Nat
        /\ OwnCount(words[p]) \in {0, 1}
    BY <2>1, NeedType DEF TypeInv, TypeOK
  <2> QED
    BY <2>2, <2>3, <2>4
<1>2. ASSUME NEW x \in owned PROVE count[x] > 0
  <2>1. x \in Records /\ count[x] \in Nat /\ Cardinality(Holders(x)) \in Nat
    BY NeedType DEF TypeInv, TypeOK
  <2>2. count[x] >= 1 + Cardinality(Holders(x))
    BY <2>1 DEF CountsCover, OwnCount
  <2> QED
    BY <2>1, <2>2
<1> QED
  BY <1>1, <1>2 DEF Live

LEMMA CoverSame ==
  ASSUME Covered, UNCHANGED <<count, owned, words, counted, dead>>
  PROVE  Covered'
BY DEF Covered, CountsCover, OwnCount, Holders, Named

-----------------------------------------------------------------------------
(* Counts: what holds, drops, releases and gives back one.                 *)

\* A place takes the handle's count or one of its own.
LEMMA PlaceCover ==
  ASSUME TypeInv, Covered, NEW p \in Places, NEW x \in Records, Place(p, x), dead' = dead
  PROVE  Covered'
<1>1. /\ count[x] > 0 /\ words' = [words EXCEPT ![p] = x] /\ counted' = counted \cup {p}
      /\ \/ owned' = owned \ {x} /\ x \in owned /\ count' = count
         \/ owned' = owned /\ count' = [count EXCEPT ![x] = @ + 1]
  BY DEF Place, Hold
<1>2. /\ count \in [Records -> Nat] /\ words \in [Places -> Records \cup {Nil}]
      /\ counted \subseteq Places /\ IsFiniteSet(counted)
  BY DEF TypeInv, TypeOK, Covered
<1>3. IsFiniteSet(counted')
  BY <1>1, <1>2, FS_AddElement
<1>4. ASSUME NEW y \in Records
      PROVE  count'[y] >= OwnCount(y)' + Cardinality(Holders(y))'
  <2>1. /\ count[y] >= OwnCount(y) + Cardinality(Holders(y)) /\ count[y] \in Nat
        /\ Cardinality(Holders(y)) \in Nat /\ IsFiniteSet(Holders(y))
    BY <1>2, NeedType DEF Covered, CountsCover
  <2>2. CASE y = x
    <3>1. Holders(y)' \subseteq Holders(y) \cup {p}
      BY <1>1, <1>2 DEF Holders
    <3>2. Cardinality(Holders(y)') \in Nat /\ Cardinality(Holders(y)') <= Cardinality(Holders(y)) + 1
      BY <2>1, <3>1, LargerByOne
    <3> QED
      BY <1>1, <1>2, <2>1, <2>2, <3>2 DEF OwnCount
  <2>3. CASE y # x
    <3>1. Holders(y)' \subseteq Holders(y)
      BY <1>1, <1>2, <2>3 DEF Holders
    <3>2. Cardinality(Holders(y)') \in Nat /\ Cardinality(Holders(y)') <= Cardinality(Holders(y))
      BY <2>1, <3>1, Larger
    <3>3. count'[y] = count[y] /\ OwnCount(y)' = OwnCount(y)
      BY <1>1, <1>2, <2>3 DEF OwnCount
    <3>4. OwnCount(y) \in {0, 1}
      BY DEF OwnCount
    <3> QED
      BY <2>1, <3>2, <3>3, <3>4
  <2> QED
    BY <2>2, <2>3
<1>5. Named'
  <2>1. \A y \in Records : (count'[y] > 0 <=> count[y] > 0) /\ (count'[y] = 0 <=> count[y] = 0)
    BY <1>1, <1>2
  <2>2. \A d \in dead : d \in Records
    BY DEF TypeInv, TypeOK
  <2>3. \A o \in Places : o[1] \in Records /\ (o # p => words'[o] = words[o])
    BY <1>1, <1>2 DEF Places
  <2> QED
    BY <1>1, <2>1, <2>2, <2>3 DEF Covered, Named
<1> QED
  BY <1>3, <1>4, <1>5 DEF Covered, CountsCover

\* A place's count is dropped, the record released with its last.
LEMMA DropCover ==
  ASSUME TypeInv, Covered, NEW p \in counted,
         counted' = counted \ {p}, count' = Dropped(count, words[p]),
         dead' = Released(count, words[p]), owned' = owned,
         words' = [words EXCEPT ![p] = Nil] \/ (words' = words /\ count[p[1]] = 0)
  PROVE  Covered'
<1> DEFINE x == words[p]
<1>1. /\ count \in [Records -> Nat] /\ words \in [Places -> Records \cup {Nil}] /\ p \in Places
      /\ counted \subseteq Places /\ IsFiniteSet(counted) /\ x \in Records /\ count[x] > 0
  BY CoverLive DEF TypeInv, TypeOK, Control, Covered, Live
<1>2. IsFiniteSet(counted')
  BY <1>1, FS_RemoveElement
<1>3. \A o \in counted' : words'[o] = words[o]
  BY <1>1
<1>4. count' \in [Records -> Nat] /\ \A y \in Records : count'[y] = IF y = x THEN count[x] - 1 ELSE count[y]
  BY <1>1 DEF Dropped
<1>5. ASSUME NEW y \in Records
      PROVE  count'[y] >= OwnCount(y)' + Cardinality(Holders(y))'
  <2>1. /\ count[y] >= OwnCount(y) + Cardinality(Holders(y)) /\ count[y] \in Nat
        /\ Cardinality(Holders(y)) \in Nat /\ IsFiniteSet(Holders(y))
    BY <1>1, NeedType DEF Covered, CountsCover
  <2>2. OwnCount(y)' = OwnCount(y) /\ OwnCount(y) \in {0, 1}
    BY DEF OwnCount
  <2>3. Holders(y)' \subseteq Holders(y) \ {p}
    BY <1>3 DEF Holders
  <2>4. CASE y = x
    <3>1. Cardinality(Holders(y)') \in Nat /\ Cardinality(Holders(y)') <= Cardinality(Holders(y)) - 1
      <4>1. p \in Holders(y)
        BY <2>4 DEF Holders
      <4> QED
        BY <2>1, <2>3, <4>1, SmallerByOne
    <3> QED
      BY <1>4, <2>1, <2>2, <2>4, <3>1
  <2>5. CASE y # x
    <3>1. Cardinality(Holders(y)') \in Nat /\ Cardinality(Holders(y)') <= Cardinality(Holders(y))
      BY <2>1, <2>3, Larger
    <3> QED
      BY <1>4, <2>1, <2>2, <2>5, <3>1
  <2> QED
    BY <2>4, <2>5
<1>6. Named'
  <2>1. ASSUME NEW d \in dead' PROVE count'[d] = 0
    <3>1. CASE d \in dead
      <4>1. count[d] = 0 /\ d \in Records
        BY <3>1 DEF Covered, Named, TypeInv, TypeOK
      <4> QED
        BY <1>1, <1>4, <4>1
    <3>2. CASE d \notin dead
      <4>1. d = x /\ count[x] = 1
        BY <3>2 DEF Released
      <4> QED
        BY <1>1, <1>4, <4>1
    <3> QED
      BY <3>1, <3>2
  <2>2. ASSUME NEW o \in Places, count'[o[1]] > 0, words'[o] # Nil PROVE o \in counted'
    <3>1. o[1] \in Records /\ p[1] \in Records
      BY <1>1 DEF Places
    <3>2. count[o[1]] > 0
      BY <1>1, <1>4, <2>2, <3>1
    <3>3. o # p
      BY <1>1, <2>2, <3>2
    <3>4. words'[o] = words[o]
      BY <1>1, <3>3
    <3> QED
      BY <2>2, <3>2, <3>3, <3>4 DEF Covered, Named
  <2> QED
    BY <2>1, <2>2 DEF Named
<1> QED
  BY <1>2, <1>5, <1>6 DEF Covered, CountsCover

\* The count of a handle is released, if it holds one.
LEMMA ReleaseOwnedCover ==
  ASSUME TypeInv, Covered, NEW x \in Records, ReleaseOwned(x), UNCHANGED <<words, counted>>
  PROVE  Covered'
<1>1. count \in [Records -> Nat] /\ IsFiniteSet(counted)
  BY DEF TypeInv, TypeOK, Covered
<1>2. CASE x \notin owned
  BY <1>2, CoverSame DEF ReleaseOwned
<1>3. CASE x \in owned
  <2>1. owned' = owned \ {x} /\ count' = Dropped(count, x) /\ dead' = Released(count, x) /\ count[x] > 0
    BY <1>3, CoverLive DEF ReleaseOwned, Covered, Live
  <2>2. \A y \in Records : count'[y] = IF y = x THEN count[x] - 1 ELSE count[y]
    BY <1>1, <2>1 DEF Dropped
  <2>3. ASSUME NEW y \in Records
        PROVE  count'[y] >= OwnCount(y)' + Cardinality(Holders(y))'
    <3>1. /\ count[y] >= OwnCount(y) + Cardinality(Holders(y)) /\ count[y] \in Nat
          /\ Cardinality(Holders(y)) \in Nat
      BY <1>1, NeedType DEF Covered, CountsCover
    <3>2. Holders(y)' = Holders(y)
      BY DEF Holders
    <3> QED
      BY <1>3, <2>1, <2>2, <3>1, <3>2 DEF OwnCount
  <2>4. \A d \in dead' : count'[d] = 0
    <3>1. dead' = IF count[x] = 1 THEN dead \cup {x} ELSE dead
      BY <2>1 DEF Released
    <3>2. \A d \in dead : d \in Records /\ count[d] = 0
      BY DEF Covered, Named, TypeInv, TypeOK
    <3> QED
      BY <1>1, <2>1, <2>2, <3>1, <3>2
  <2>5. \A o \in Places : count'[o[1]] > 0 /\ words'[o] # Nil => o \in counted'
    <3>1. \A o \in Places : o[1] \in Records
      BY DEF Places
    <3> QED
      BY <1>1, <2>1, <2>2, <3>1 DEF Covered, Named
  <2> QED
    BY <2>3, <2>4, <2>5 DEF Covered, CountsCover, Named
<1> QED
  BY <1>2, <1>3

\* A live record's handle is given a count.
LEMMA GiveBackCover ==
  ASSUME TypeInv, Covered, NEW x \in Records, count[x] > 0, GiveBack(x), UNCHANGED <<words, counted, dead>>
  PROVE  Covered'
<1>1. count \in [Records -> Nat] /\ IsFiniteSet(counted)
  BY DEF TypeInv, TypeOK, Covered
<1>2. /\ owned' = owned \cup {x}
      /\ \A y \in Records : count'[y] = IF y = x THEN count[x] + 1 ELSE count[y]
  BY <1>1 DEF GiveBack
<1>3. ASSUME NEW y \in Records
      PROVE  count'[y] >= OwnCount(y)' + Cardinality(Holders(y))'
  <2>1. /\ count[y] >= OwnCount(y) + Cardinality(Holders(y)) /\ count[y] \in Nat
        /\ Cardinality(Holders(y)) \in Nat
    BY <1>1, NeedType DEF Covered, CountsCover
  <2>2. Holders(y)' = Holders(y)
    BY DEF Holders
  <2> QED
    BY <1>2, <2>1, <2>2 DEF OwnCount
<1>4. Named'
  <2>1. \A d \in dead : d \in Records
    BY DEF TypeInv, TypeOK
  <2>2. \A o \in Places : o[1] \in Records
    BY DEF Places
  <2> QED
    BY <1>1, <1>2, <2>1, <2>2 DEF Covered, Named
<1> QED
  BY <1>3, <1>4 DEF Covered, CountsCover

-----------------------------------------------------------------------------
(* A record placed in a chunk was named nowhere before.                    *)

LEMMA AllocFresh ==
  ASSUME TypeInv, CoverInv, NEW r \in Records, Alloc(r)
  PROVE  /\ chunkOf[r] = 0 /\ chunkOf'[r] # 0 /\ \A y \in Records : y # r => chunkOf'[y] = chunkOf[y]
         /\ r \notin owned /\ r \notin dead /\ Holders(r) = {}
         /\ \A p \in Places : p[1] = r => words[p] = Nil /\ p \notin counted
<1>1. /\ chunkOf \in [Records -> Nat] /\ open \in Nat /\ chunkOf[r] = 0
      /\ (chunkOf' = [chunkOf EXCEPT ![r] = open] /\ open > 0) \/ chunkOf' = [chunkOf EXCEPT ![r] = open + 1]
  BY DEF TypeInv, TypeOK, Alloc
<1>2. chunkOf'[r] # 0 /\ \A y \in Records : y # r => chunkOf'[y] = chunkOf[y]
  BY <1>1
<1>3. r \notin owned /\ r \notin dead /\ Holders(r) = {}
  BY <1>1 DEF CoverInv, Placement, PlacedHandles, PlacedNames, Holders
<1>4. \A p \in Places : p[1] = r => words[p] = Nil
  BY <1>1 DEF CoverInv, Placement, PlacedNames
<1>5. \A p \in counted : words[p] # Nil
  BY ConstantsAssumption DEF TypeInv, Control
<1> QED
  BY <1>1, <1>2, <1>3, <1>4, <1>5

LEMMA MintCover ==
  ASSUME TypeInv, CoverInv, NEW r \in Records, NEW src \in Records \cup {Nil}, Mint(r, src),
         UNCHANGED <<words, counted, dead>>
  PROVE  Covered'
<1>1. /\ count \in [Records -> Nat] /\ IsFiniteSet(counted)
      /\ count' = [count EXCEPT ![r] = 1] /\ owned' = owned \cup {r} /\ Alloc(r)
  BY DEF TypeInv, TypeOK, CoverInv, Covered, Mint
<1>2. r \notin dead /\ Holders(r) = {} /\ \A p \in Places : p[1] = r => words[p] = Nil
  BY <1>1, AllocFresh
<1>3. ASSUME NEW y \in Records
      PROVE  count'[y] >= OwnCount(y)' + Cardinality(Holders(y))'
  <2>1. /\ count[y] >= OwnCount(y) + Cardinality(Holders(y)) /\ count[y] \in Nat
        /\ Cardinality(Holders(y)) \in Nat
    BY <1>1, NeedType DEF CoverInv, Covered, CountsCover
  <2>2. Holders(y)' = Holders(y)
    BY DEF Holders
  <2>3. CASE y = r
    <3>1. Cardinality(Holders(y)') = 0
      BY <1>2, <2>2, <2>3, FS_EmptySet
    <3> QED
      BY <1>1, <2>3, <3>1 DEF OwnCount
  <2>4. CASE y # r
    <3>1. count'[y] = count[y] /\ OwnCount(y)' = OwnCount(y)
      BY <1>1, <2>4 DEF OwnCount
    <3> QED
      BY <2>1, <2>2, <3>1
  <2> QED
    BY <2>3, <2>4
<1>4. Named'
  <2>1. \A d \in dead : d \in Records /\ d # r /\ count[d] = 0
    BY <1>2 DEF TypeInv, TypeOK, CoverInv, Covered, Named
  <2>2. \A o \in Places : o[1] \in Records /\ (o[1] = r => words[o] = Nil)
    BY <1>2 DEF Places
  <2> QED
    BY <1>1, <2>1, <2>2 DEF CoverInv, Covered, Named
<1> QED
  BY <1>1, <1>3, <1>4 DEF Covered, CountsCover

LEMMA StoreRunCover ==
  ASSUME TypeInv, CoverInv, NEW c \in Cells, NEW u \in Records, StoreRun(c, u)
  PROVE  Covered'
<1> DEFINE p == <<Top.rec, c>>
<1>1. /\ Building /\ Alloc(u) /\ count' = [count EXCEPT ![u] = 1]
      /\ words' = [words EXCEPT ![p] = u] /\ counted' = counted \cup {p}
      /\ UNCHANGED <<owned, dead>>
  BY DEF StoreRun
<1>2. /\ count \in [Records -> Nat] /\ words \in [Places -> Records \cup {Nil}]
      /\ counted \subseteq Places /\ IsFiniteSet(counted) /\ p \in Places
  BY <1>1, TopType DEF TypeInv, TypeOK, CoverInv, Covered, Places
<1>3. u \notin owned /\ u \notin dead /\ Holders(u) = {} /\ \A o \in Places : o[1] = u => words[o] = Nil
  BY <1>1, AllocFresh
<1>4. IsFiniteSet(counted')
  BY <1>1, <1>2, FS_AddElement
<1>5. ASSUME NEW y \in Records
      PROVE  count'[y] >= OwnCount(y)' + Cardinality(Holders(y))'
  <2>1. /\ count[y] >= OwnCount(y) + Cardinality(Holders(y)) /\ count[y] \in Nat
        /\ Cardinality(Holders(y)) \in Nat /\ IsFiniteSet(Holders(y))
    BY <1>2, NeedType DEF CoverInv, Covered, CountsCover
  <2>2. OwnCount(y)' = OwnCount(y) /\ OwnCount(y) \in {0, 1} /\ (y = u => OwnCount(y) = 0)
    BY <1>1, <1>3 DEF OwnCount
  <2>3. CASE y = u
    <3>1. Holders(y)' \subseteq Holders(y) \cup {p} /\ Cardinality(Holders(y)) = 0
      BY <1>1, <1>2, <1>3, <2>3, FS_EmptySet DEF Holders
    <3>2. Cardinality(Holders(y)') \in Nat /\ Cardinality(Holders(y)') <= Cardinality(Holders(y)) + 1
      BY <2>1, <3>1, LargerByOne
    <3> QED
      BY <1>1, <1>2, <2>2, <2>3, <3>1, <3>2
  <2>4. CASE y # u
    <3>1. Holders(y)' \subseteq Holders(y)
      BY <1>1, <1>2, <2>4 DEF Holders
    <3>2. Cardinality(Holders(y)') \in Nat /\ Cardinality(Holders(y)') <= Cardinality(Holders(y))
      BY <2>1, <3>1, Larger
    <3> QED
      BY <1>1, <1>2, <2>1, <2>2, <2>4, <3>2
  <2> QED
    BY <2>3, <2>4
<1>6. Named'
  <2>1. \A d \in dead : d \in Records /\ d # u /\ count[d] = 0
    BY <1>3 DEF TypeInv, TypeOK, CoverInv, Covered, Named
  <2>2. ASSUME NEW o \in Places, count'[o[1]] > 0, words'[o] # Nil PROVE o \in counted'
    <3>1. CASE o = p
      BY <1>1, <3>1
    <3>2. CASE o # p
      <4>1. o[1] \in Records /\ words'[o] = words[o] /\ o[1] # u
        BY <1>1, <1>2, <1>3, <2>2, <3>2 DEF Places
      <4>2. count'[o[1]] = count[o[1]]
        BY <1>1, <1>2, <4>1
      <4> QED
        BY <1>1, <2>2, <4>1, <4>2 DEF CoverInv, Covered, Named
    <3> QED
      BY <3>1, <3>2
  <2> QED
    BY <1>1, <1>2, <2>1, <2>2 DEF Named
<1> QED
  BY <1>4, <1>5, <1>6 DEF Covered, CountsCover

-----------------------------------------------------------------------------
(* Sides: the record adopted, then what the side named before dropped.     *)

\* The record a side adopts: its count and the handle's, and who held it.
LEMMA AdoptCover ==
  ASSUME TypeInv, NEW x \in Records, count[x] > 0, NEW y \in Records
  PROVE  /\ Adopted(x) \in [Records -> Nat]
         /\ Adopted(x)[y] = IF y = x /\ x \notin owned THEN count[y] + 1 ELSE count[y]
         /\ Adopted(x)[y] > 0 <=> count[y] > 0
<1>1. count \in [Records -> Nat]
  BY DEF TypeInv, TypeOK
<1>2. CASE x \in owned
  BY <1>1, <1>2 DEF Adopted
<1>3. CASE x \notin owned
  <2>1. Adopted(x) = [count EXCEPT ![x] = @ + 1]
    BY <1>3 DEF Adopted
  <2> QED
    BY <1>1, <1>3, <2>1
<1> QED
  BY <1>2, <1>3

LEMMA CarrySideCover ==
  ASSUME TypeInv, Covered, NEW p \in call.copies, CarrySide(p)
  PROVE  Covered'
<1> DEFINE q == <<call.rec, p[2]>>
           x == words[p]
<1>1. /\ call.op = "carry" /\ count' = Adopted(x) /\ owned' = owned \ {x}
      /\ words' = [words EXCEPT ![q] = x] /\ counted' = counted \cup {q} /\ dead' = dead
  BY DEF CarrySide
<1>2. /\ p \in counted /\ x \in Records /\ q \in Places /\ count[x] > 0
      /\ count \in [Records -> Nat] /\ words \in [Places -> Records \cup {Nil}]
      /\ counted \subseteq Places /\ IsFiniteSet(counted)
  BY <1>1, CoverLive DEF TypeInv, TypeOK, Control, Places, Covered, Live
<1>3. IsFiniteSet(counted')
  BY <1>1, <1>2, FS_AddElement
<1>4. ASSUME NEW y \in Records
      PROVE  count'[y] >= OwnCount(y)' + Cardinality(Holders(y))'
  <2>1. /\ count[y] >= OwnCount(y) + Cardinality(Holders(y)) /\ count[y] \in Nat
        /\ Cardinality(Holders(y)) \in Nat /\ IsFiniteSet(Holders(y))
    BY <1>2, NeedType DEF Covered, CountsCover
  <2>2. count'[y] = IF y = x /\ x \notin owned THEN count[y] + 1 ELSE count[y]
    BY <1>1, <1>2, AdoptCover
  <2>3. CASE y = x
    <3>1. Holders(y)' \subseteq Holders(y) \cup {q}
      BY <1>1, <1>2 DEF Holders
    <3>2. Cardinality(Holders(y)') \in Nat /\ Cardinality(Holders(y)') <= Cardinality(Holders(y)) + 1
      BY <2>1, <3>1, LargerByOne
    <3> QED
      BY <1>1, <2>1, <2>2, <2>3, <3>2 DEF OwnCount
  <2>4. CASE y # x
    <3>1. Holders(y)' \subseteq Holders(y)
      BY <1>1, <1>2, <2>4 DEF Holders
    <3>2. Cardinality(Holders(y)') \in Nat /\ Cardinality(Holders(y)') <= Cardinality(Holders(y))
      BY <2>1, <3>1, Larger
    <3> QED
      BY <1>1, <2>1, <2>2, <2>4, <3>2 DEF OwnCount
  <2> QED
    BY <2>3, <2>4
<1>5. Named'
  <2>1. \A y \in Records : (count'[y] > 0 <=> count[y] > 0) /\ count'[y] \in Nat
    BY <1>1, <1>2, AdoptCover
  <2>2. \A d \in dead : d \in Records /\ count[d] = 0
    BY DEF TypeInv, TypeOK, Covered, Named
  <2>3. \A d \in dead : count'[d] = 0
    BY <1>2, <2>1, <2>2
  <2>4. \A o \in Places : o[1] \in Records /\ (o # q => words'[o] = words[o])
    BY <1>1, <1>2 DEF Places
  <2> QED
    BY <1>1, <2>1, <2>3, <2>4 DEF Covered, Named
<1> QED
  BY <1>3, <1>4, <1>5 DEF Covered, CountsCover

LEMMA WriteSideCover ==
  ASSUME TypeInv, Covered, NEW h \in Records, NEW s \in Sides, NEW x \in Records \cup {Nil},
         WriteSide(h, s, x)
  PROVE  Covered'
<1> DEFINE p == <<h, s>>
           z == words[p]
           held == IF x = Nil THEN count ELSE Adopted(x)
           kept(y) == Holders(y) \ {p}
<1>1. /\ owned' = owned \ {x} /\ words' = [words EXCEPT ![p] = x] /\ dead = {}
      /\ counted' = IF x = Nil THEN counted \ {p} ELSE counted \cup {p}
      /\ IF p \in counted
         THEN count' = Dropped(held, z) /\ dead' = Released(held, z)
         ELSE count' = held /\ dead' = dead
      /\ x # Nil => x \in Records /\ count[x] > 0
  BY DEF WriteSide, UserWrites, UserCode, Idle
<1>2. /\ count \in [Records -> Nat] /\ words \in [Places -> Records \cup {Nil}] /\ p \in Places
      /\ counted \subseteq Places /\ IsFiniteSet(counted) /\ owned \subseteq Records
      /\ p \in counted => z \in Records /\ count[z] > 0
  BY CoverLive DEF TypeInv, TypeOK, Control, Places, Covered, Live
<1>3. /\ held \in [Records -> Nat]
      /\ \A y \in Records : /\ held[y] > 0 <=> count[y] > 0
                            /\ held[y] = IF y = x /\ x \notin owned THEN count[y] + 1 ELSE count[y]
  <2>1. CASE x = Nil
    BY <1>2, <2>1, ConstantsAssumption
  <2>2. CASE x # Nil
    BY <1>1, <2>2, AdoptCover
  <2> QED
    BY <2>1, <2>2
<1>4. \A y \in Records : count'[y] = IF p \in counted /\ y = z THEN held[y] - 1 ELSE held[y]
  <2>1. CASE p \in counted
    BY <1>1, <1>2, <1>3, <2>1 DEF Dropped
  <2>2. CASE p \notin counted
    BY <1>1, <2>2
  <2> QED
    BY <2>1, <2>2
<1>5. IsFiniteSet(counted')
  <2>1. IsFiniteSet(counted \ {p}) /\ IsFiniteSet(counted \cup {p})
    BY <1>2, FS_AddElement, FS_RemoveElement
  <2> QED
    BY <1>1, <2>1
<1>6. ASSUME NEW y \in Records
      PROVE  count'[y] >= OwnCount(y)' + Cardinality(Holders(y))'
  <2>1. /\ count[y] >= OwnCount(y) + Cardinality(Holders(y)) /\ count[y] \in Nat
        /\ Cardinality(Holders(y)) \in Nat /\ IsFiniteSet(Holders(y))
    BY <1>2, NeedType DEF Covered, CountsCover
  <2>2. /\ IsFiniteSet(kept(y)) /\ Cardinality(kept(y)) \in Nat
        /\ Cardinality(kept(y)) <= Cardinality(Holders(y))
        /\ p \in counted /\ y = z => Cardinality(kept(y)) <= Cardinality(Holders(y)) - 1
    <3>1. p \in counted /\ y = z => p \in Holders(y)
      BY DEF Holders
    <3>2. kept(y) \subseteq Holders(y) \ {p} /\ kept(y) \subseteq Holders(y)
      OBVIOUS
    <3>3. IsFiniteSet(kept(y)) /\ Cardinality(kept(y)) \in Nat /\ Cardinality(kept(y)) <= Cardinality(Holders(y))
      BY <2>1, <3>2, Larger
    <3>4. p \in Holders(y) => Cardinality(kept(y)) <= Cardinality(Holders(y)) - 1
      BY <2>1, <3>2, SmallerByOne
    <3> QED
      BY <3>1, <3>3, <3>4
  <2>3. CASE y = x
    <3>1. Holders(y)' \subseteq kept(y) \cup {p}
      BY <1>1, <1>2 DEF Holders
    <3>2. Cardinality(Holders(y)') \in Nat /\ Cardinality(Holders(y)') <= Cardinality(kept(y)) + 1
      BY <2>2, <3>1, LargerByOne
    <3>3. OwnCount(y)' = 0
      BY <1>1, <2>3 DEF OwnCount
    <3>4. held[y] >= Cardinality(Holders(y)) + 1
      BY <1>3, <2>1, <2>3 DEF OwnCount
    <3>5. held[y] \in Nat /\ count'[y] = IF p \in counted /\ y = z THEN held[y] - 1 ELSE held[y]
      BY <1>3, <1>4
    <3> QED
      BY <2>1, <2>2, <3>2, <3>3, <3>4, <3>5
  <2>4. CASE y # x
    <3>1. Holders(y)' \subseteq kept(y)
      BY <1>1, <1>2, <2>4 DEF Holders
    <3>2. Cardinality(Holders(y)') \in Nat /\ Cardinality(Holders(y)') <= Cardinality(kept(y))
      BY <2>2, <3>1, Larger
    <3>3. OwnCount(y)' = OwnCount(y) /\ OwnCount(y) \in {0, 1}
      BY <1>1, <2>4 DEF OwnCount
    <3>4. held[y] = count[y] /\ count'[y] = IF p \in counted /\ y = z THEN count[y] - 1 ELSE count[y]
      BY <1>3, <1>4, <2>4
    <3> QED
      BY <2>1, <2>2, <3>2, <3>3, <3>4
  <2> QED
    BY <2>3, <2>4
<1>7. Named'
  <2>1. ASSUME NEW d \in dead' PROVE count'[d] = 0
    <3>1. p \in counted /\ d = z /\ held[z] = 1
      BY <1>1, <2>1 DEF Released
    <3> QED
      BY <1>2, <1>4, <3>1
  <2>2. ASSUME NEW o \in Places, count'[o[1]] > 0, words'[o] # Nil PROVE o \in counted'
    <3>1. CASE o = p
      BY <1>1, <1>2, <2>2, <3>1
    <3>2. CASE o # p
      <4>1. o[1] \in Records /\ words'[o] = words[o]
        BY <1>1, <1>2, <3>2 DEF Places
      <4>2. held[o[1]] > 0
        BY <1>3, <1>4, <2>2, <4>1
      <4>3. o \in counted
        BY <1>3, <2>2, <4>1, <4>2 DEF Covered, Named
      <4> QED
        BY <1>1, <3>2, <4>3
    <3> QED
      BY <3>1, <3>2
  <2> QED
    BY <2>1, <2>2 DEF Named
<1> QED
  BY <1>5, <1>6, <1>7 DEF Covered, CountsCover

-----------------------------------------------------------------------------
(* What an operation places is placed already, or placed by it.            *)

LEMMA EndScopePlaced ==
  ASSUME TypeInv, CoverInv, frames # <<>>, frames' = Outer, chunkOf' = chunkOf
  PROVE  PlacedFrames'
<1>1. Len(frames') = Len(frames) - 1 /\ \A i \in 1..(Len(frames) - 1) : frames'[i] = frames[i]
  BY ScopesType DEF TypeInv
<1>2. \A i \in 1..Len(frames') : i \in 1..Len(frames)
  BY <1>1, Elements DEF TypeInv
<1> QED
  BY <1>1, <1>2 DEF CoverInv, Placement, PlacedFrames

LEMMA PushPlaced ==
  ASSUME TypeInv, CoverInv, NEW f \in Frame, frames' = Append(frames, f), f.run = Nil,
         f.kind = "build" => chunkOf'[f.rec] # 0,
         \A y \in Records : chunkOf[y] # 0 => chunkOf'[y] # 0
  PROVE  PlacedFrames'
<1>1. /\ Len(frames') = Len(frames) + 1
      /\ \A i \in 1..(Len(frames) + 1) : frames'[i] = IF i = Len(frames) + 1 THEN f ELSE frames[i]
  BY PushType DEF TypeInv
<1>2. \A i \in 1..Len(frames) : /\ frames[i].kind = "build" => frames[i].rec \in Records
                                /\ frames[i].run # Nil => frames[i].run \in Records
  BY Elements DEF TypeInv, Control, Frame
<1>3. \A i \in 1..Len(frames') : i = Len(frames) + 1 \/ i \in 1..Len(frames)
  BY <1>1, Elements DEF TypeInv
<1> QED
  BY <1>1, <1>2, <1>3 DEF CoverInv, Placement, PlacedFrames

LEMMA SlotPlaced ==
  ASSUME TypeInv, CoverInv, Building, NEW c \in Cells \cup {Nil}, NEW at \in Cells \cup {Nil},
         NEW u \in Records \cup {Nil}, SetTop([Top EXCEPT !.done = Done(c), !.at = at, !.run = u]),
         u # Nil => chunkOf'[u] # 0,
         \A y \in Records : chunkOf[y] # 0 => chunkOf'[y] # 0
  PROVE  PlacedFrames'
<1>1. /\ Len(frames') = Len(frames)
      /\ \A i \in 1..Len(frames) :
           /\ frames'[i].kind = frames[i].kind /\ frames'[i].rec = frames[i].rec
           /\ frames'[i].run = IF i = Len(frames) THEN u ELSE frames[i].run
  BY SlotType
<1>2. \A i \in 1..Len(frames) : /\ frames[i].kind = "build" => frames[i].rec \in Records
                                /\ frames[i].run # Nil => frames[i].run \in Records
  BY Elements DEF TypeInv, Control, Frame
<1> QED
  BY <1>1, <1>2 DEF CoverInv, Placement, PlacedFrames

LEMMA TopPlaced ==
  ASSUME TypeInv, CoverInv, Building
  PROVE  chunkOf[Top.rec] # 0 /\ (Top.run # Nil => chunkOf[Top.run] # 0)
<1>1. frames # <<>> /\ Top.kind = "build"
  BY DEF Building, InBuild
<1>2. Len(frames) \in 1..Len(frames)
  BY <1>1, ScopesType DEF TypeInv
<1> QED
  BY <1>1, <1>2 DEF CoverInv, Placement, PlacedFrames, Top

LEMMA PlacePlaced ==
  ASSUME TypeInv, CoverInv, NEW p \in Places, NEW x \in Records, Place(p, x),
         chunkOf[p[1]] # 0, chunkOf' = chunkOf
  PROVE  PlacedNames' /\ PlacedCounts' /\ owned' \subseteq owned
<1>1. /\ count[x] > 0 /\ words' = [words EXCEPT ![p] = x] /\ counted' = counted \cup {p}
      /\ owned' \subseteq owned
      /\ count' = count \/ count' = [count EXCEPT ![x] = @ + 1]
  BY DEF Place, Hold
<1>2. /\ count \in [Records -> Nat] /\ words \in [Places -> Records \cup {Nil}]
      /\ counted \subseteq Places
  BY DEF TypeInv, TypeOK
<1>3. chunkOf[x] # 0
  BY <1>1 DEF CoverInv, Placement, PlacedCounts
<1>4. \A o \in Places : words'[o] = IF o = p THEN x ELSE words[o]
  BY <1>1, <1>2
<1>5. PlacedNames'
  BY <1>1, <1>2, <1>3, <1>4 DEF CoverInv, Placement, PlacedNames
<1>6. PlacedCounts'
  BY <1>1, <1>2, <1>3 DEF CoverInv, Placement, PlacedCounts
<1> QED
  BY <1>1, <1>5, <1>6

LEMMA AllocPlaced ==
  ASSUME TypeInv, CoverInv, NEW r \in Records, Alloc(r), count' = [count EXCEPT ![r] = 1]
  PROVE  /\ chunkOf'[r] # 0 /\ \A y \in Records : chunkOf[y] # 0 => chunkOf'[y] # 0
         /\ PlacedCounts'
<1>1. chunkOf'[r] # 0 /\ \A y \in Records : y # r => chunkOf'[y] = chunkOf[y]
  BY AllocFresh
<1> QED
  BY <1>1 DEF TypeInv, TypeOK, CoverInv, Placement, PlacedCounts

-----------------------------------------------------------------------------
(* Every step keeps the counts covered and what it places placed.          *)

LEMMA ReleaseCover == ASSUME TypeInv, CoverInv, Release PROVE CoverInv'
<1>1. PICK d \in dead :
        \/ \E p \in PlacesOf(d) :
             /\ counted' = counted \ {p}
             /\ words' = IF p[2] \in Sides THEN [words EXCEPT ![p] = Nil] ELSE words
             /\ count' = Dropped(count, words[p])
             /\ dead' = Released(count, words[p])
        \/ /\ PlacesOf(d) = {}
           /\ dead' = dead \ {d}
           /\ UNCHANGED <<count, words, counted>>
  BY DEF Release
<1>2. UNCHANGED <<owned, chunkOf, handed, frames, call>>
  BY DEF Release, chunks, scopes
<1>3. CASE \E p \in PlacesOf(d) :
             /\ counted' = counted \ {p}
             /\ words' = IF p[2] \in Sides THEN [words EXCEPT ![p] = Nil] ELSE words
             /\ count' = Dropped(count, words[p])
             /\ dead' = Released(count, words[p])
  <2>1. PICK p \in PlacesOf(d) :
             /\ counted' = counted \ {p}
             /\ words' = IF p[2] \in Sides THEN [words EXCEPT ![p] = Nil] ELSE words
             /\ count' = Dropped(count, words[p])
             /\ dead' = Released(count, words[p])
    BY <1>3
  <2>2. p \in counted /\ p[1] = d /\ count[d] = 0 /\ words[p] \in Records /\ chunkOf[words[p]] # 0
    BY DEF PlacesOf, TypeInv, Control, CoverInv, Covered, Named, Placement, PlacedNames
  <2>3. Covered'
    BY <1>2, <2>1, <2>2, DropCover DEF CoverInv
  <2>4. PlacedHandles'
    BY <1>2, <2>1, <2>2 DEF Released, CoverInv, Placement, PlacedHandles
  <2>5. PlacedNames'
    BY <1>2, <2>1, <2>2 DEF TypeInv, TypeOK, CoverInv, Placement, PlacedNames
  <2>6. PlacedCounts'
    BY <1>2, <2>1, <2>2 DEF Dropped, TypeInv, TypeOK, CoverInv, Placement, PlacedCounts
  <2> QED
    BY <1>2, <2>3, <2>4, <2>5, <2>6 DEF CoverInv, Placement, PlacedFrames, PlacedCall
<1>4. CASE /\ PlacesOf(d) = {}
           /\ dead' = dead \ {d}
           /\ UNCHANGED <<count, words, counted>>
  <2>1. Covered'
    BY <1>2, <1>4 DEF CoverInv, Covered, CountsCover, OwnCount, Holders, Named
  <2> QED
    BY <1>2, <1>4, <2>1
       DEF CoverInv, Placement, PlacedHandles, PlacedNames, PlacedFrames, PlacedCall, PlacedCounts
<1> QED
  BY <1>1, <1>3, <1>4

LEMMA InterceptBuildCover == ASSUME TypeInv, CoverInv, InterceptBuild PROVE CoverInv'
<1> DEFINE f == NewFrame("intercept", Nil, Nil)
<1>1. f \in Frame /\ f.run = Nil /\ f.kind = "intercept"
  BY Elements DEF NewFrame, Frame, TypeInv
<1>2. /\ frames' = Append(frames, f) /\ UNCHANGED <<counts, chunkOf, handed, call>>
  BY DEF InterceptBuild, chunks
<1>3. PlacedFrames'
  BY <1>1, <1>2, PushPlaced
<1>4. Covered'
  BY <1>2, CoverSame DEF CoverInv, counts
<1> QED
  BY <1>2, <1>3, <1>4 DEF CoverInv, Placement, PlacedHandles, PlacedNames, PlacedCall, PlacedCounts, counts

LEMMA MintPlaced ==
  ASSUME TypeInv, CoverInv, NEW r \in Records, NEW src \in Records \cup {Nil}, Mint(r, src),
         UNCHANGED <<words, counted, dead, handed>>
  PROVE  PlacedHandles' /\ PlacedNames' /\ PlacedFrames' /\ PlacedCounts' /\ chunkOf'[r] # 0
<1> DEFINE f == NewFrame("build", r, src)
<1>1. f \in Frame /\ f.run = Nil /\ f.rec = r
  BY Elements DEF NewFrame, Frame, TypeInv
<1>2. /\ Alloc(r) /\ count' = [count EXCEPT ![r] = 1] /\ owned' = owned \cup {r}
      /\ frames' = Append(frames, f)
  BY DEF Mint
<1>3. /\ chunkOf'[r] # 0 /\ \A y \in Records : chunkOf[y] # 0 => chunkOf'[y] # 0
      /\ PlacedCounts'
  BY <1>2, AllocPlaced
<1>4. PlacedFrames'
  BY <1>1, <1>2, <1>3, PushPlaced
<1>5. PlacedHandles'
  BY <1>2, <1>3 DEF TypeInv, TypeOK, CoverInv, Placement, PlacedHandles
<1>6. PlacedNames'
  BY <1>3 DEF TypeInv, TypeOK, Control, Places, CoverInv, Placement, PlacedNames
<1> QED
  BY <1>3, <1>4, <1>5, <1>6

LEMMA BuildRecordCover ==
  ASSUME TypeInv, CoverInv, NEW r \in Records, BuildRecord(r)
  PROVE  CoverInv'
<1>1. /\ Mint(r, Nil) /\ UNCHANGED <<words, counted, dead, handed>>
      /\ call.op = "none" /\ call' = call
  BY DEF BuildRecord, UserCode, Idle
<1>2. PlacedHandles' /\ PlacedNames' /\ PlacedFrames' /\ PlacedCounts'
  BY <1>1, MintPlaced
<1>3. Covered'
  BY <1>1, MintCover
<1> QED
  BY <1>1, <1>2, <1>3 DEF CoverInv, Placement, PlacedCall

LEMMA EditRecordCover ==
  ASSUME TypeInv, CoverInv, NEW r \in Records, NEW src \in Records, EditRecord(r, src)
  PROVE  CoverInv'
<1>1. /\ Mint(r, src) /\ UNCHANGED <<words, counted, dead, handed>>
  BY DEF EditRecord
<1>2. PlacedHandles' /\ PlacedNames' /\ PlacedFrames' /\ PlacedCounts' /\ chunkOf'[r] # 0
  BY <1>1, MintPlaced
<1>3. Covered'
  BY <1>1, MintCover
<1>4. PlacedCall'
  <2>1. \/ call' = NoCall
        \/ \E from : call' = [NoCall EXCEPT !.op = "copy", !.rec = r, !.copies = from]
    BY DEF EditRecord
  <2>2. ASSUME NEW from, call' = [NoCall EXCEPT !.op = "copy", !.rec = r, !.copies = from]
        PROVE  call'.rec = r
    BY <2>2 DEF NoCall
  <2> QED
    BY <1>2, <2>1, <2>2, NoCallType DEF PlacedCall
<1> QED
  BY <1>2, <1>3, <1>4 DEF CoverInv, Placement

LEMMA CopyCellCover ==
  ASSUME TypeInv, CoverInv, NEW p \in call.copies, CopyCell(p)
  PROVE  CoverInv'
<1> DEFINE q == <<call.rec, p[2]>>
           x == words[p]
<1>1. /\ call.op = "copy" /\ Place(q, x) /\ UNCHANGED <<dead, chunkOf, handed, frames>>
      /\ call' = NoCall \/ call' = [call EXCEPT !.copies = call.copies \ {p}]
  BY DEF CopyCell, Place, chunks
<1>2. q \in Places /\ x \in Records /\ chunkOf[call.rec] # 0 /\ call \in Call
  BY <1>1 DEF TypeInv, TypeOK, Control, Call, Places, CoverInv, Placement, PlacedCall
<1>3. Covered'
  BY <1>1, <1>2, PlaceCover DEF CoverInv
<1>4. PlacedNames' /\ PlacedCounts' /\ owned' \subseteq owned
  BY <1>1, <1>2, PlacePlaced
<1>5. PlacedCall'
  <2>1. CASE call' = NoCall
    BY <2>1, NoCallType DEF PlacedCall
  <2>2. CASE call' = [call EXCEPT !.copies = call.copies \ {p}]
    <3>1. call'.rec = call.rec
      BY <1>2, <2>2 DEF Call
    <3> QED
      BY <1>1, <1>2, <3>1 DEF PlacedCall
  <2> QED
    BY <1>1, <2>1, <2>2
<1> QED
  BY <1>1, <1>3, <1>4, <1>5 DEF CoverInv, Placement, PlacedHandles, PlacedFrames

LEMMA PatchCellCover ==
  ASSUME TypeInv, CoverInv, NEW c \in Cells, PatchCell(c)
  PROVE  CoverInv'
<1> DEFINE p == <<Top.rec, c>>
<1>1. /\ Building /\ p \in counted /\ counted' = counted \ {p} /\ words' = [words EXCEPT ![p] = Nil]
      /\ count' = Dropped(count, words[p]) /\ dead' = Released(count, words[p])
      /\ SetTop([Top EXCEPT !.done = Done(Nil), !.at = c, !.run = Nil])
      /\ UNCHANGED <<owned, chunkOf, handed, call>>
  BY DEF PatchCell, chunks
<1>2. words[p] \in Records /\ chunkOf[words[p]] # 0
  BY <1>1 DEF TypeInv, Control, CoverInv, Placement, PlacedNames
<1>3. Covered'
  BY <1>1, DropCover DEF CoverInv
<1>4. PlacedFrames'
  BY <1>1, SlotPlaced
<1>5. PlacedHandles'
  BY <1>1, <1>2 DEF Released, CoverInv, Placement, PlacedHandles
<1>6. PlacedNames'
  BY <1>1, <1>2 DEF TypeInv, TypeOK, CoverInv, Placement, PlacedNames
<1>7. PlacedCounts'
  BY <1>1, <1>2 DEF Dropped, TypeInv, TypeOK, CoverInv, Placement, PlacedCounts
<1> QED
  BY <1>1, <1>3, <1>4, <1>5, <1>6, <1>7 DEF CoverInv, Placement, PlacedCall

LEMMA StoreCellCover ==
  ASSUME TypeInv, CoverInv, NEW c \in Cells, NEW x \in Records, StoreCell(c, x)
  PROVE  CoverInv'
<1> DEFINE p == <<Top.rec, c>>
<1>1. /\ Building /\ Place(p, x)
      /\ SetTop([Top EXCEPT !.done = Done(c), !.at = Nil, !.run = Nil])
      /\ UNCHANGED <<dead, chunkOf, handed, call>>
  BY DEF StoreCell, chunks
<1>2. p \in Places /\ chunkOf[p[1]] # 0
  BY <1>1, TopType, TopPlaced DEF Places
<1>3. Covered'
  BY <1>1, <1>2, PlaceCover DEF CoverInv
<1>4. PlacedNames' /\ PlacedCounts' /\ owned' \subseteq owned
  BY <1>1, <1>2, PlacePlaced
<1>5. PlacedFrames'
  BY <1>1, SlotPlaced
<1> QED
  BY <1>1, <1>3, <1>4, <1>5 DEF CoverInv, Placement, PlacedHandles, PlacedCall

LEMMA StoreRunKeeps ==
  ASSUME TypeInv, CoverInv, NEW c \in Cells, NEW u \in Records, StoreRun(c, u)
  PROVE  CoverInv'
<1> DEFINE p == <<Top.rec, c>>
<1>1. /\ Building /\ Alloc(u) /\ count' = [count EXCEPT ![u] = 1]
      /\ words' = [words EXCEPT ![p] = u] /\ counted' = counted \cup {p}
      /\ SetTop([Top EXCEPT !.done = Done(c), !.at = Nil, !.run = u])
      /\ UNCHANGED <<owned, dead, handed, call>>
  BY DEF StoreRun
<1>2. /\ chunkOf'[u] # 0 /\ \A y \in Records : chunkOf[y] # 0 => chunkOf'[y] # 0
      /\ PlacedCounts'
  BY <1>1, AllocPlaced
<1>3. p \in Places /\ chunkOf[p[1]] # 0 /\ p[1] \in Records
  BY <1>1, TopType, TopPlaced DEF Places
<1>4. PlacedFrames'
  BY <1>1, <1>2, SlotPlaced
<1>5. PlacedHandles'
  BY <1>1, <1>2 DEF TypeInv, TypeOK, CoverInv, Placement, PlacedHandles
<1>6. PlacedNames'
  <2>1. \A o \in Places : words'[o] = (IF o = p THEN u ELSE words[o]) /\ o[1] \in Records
    BY <1>1, <1>3 DEF TypeInv, TypeOK, Places
  <2>2. ASSUME NEW o \in counted' PROVE chunkOf'[words'[o]] # 0
    <3>1. CASE o = p
      BY <1>2, <1>3, <2>1, <3>1
    <3>2. CASE o # p
      <4>1. o \in counted /\ words'[o] = words[o] /\ words[o] \in Records
        BY <1>1, <2>1, <3>2 DEF TypeInv, TypeOK, Control
      <4> QED
        BY <1>2, <4>1 DEF CoverInv, Placement, PlacedNames
    <3> QED
      BY <3>1, <3>2
  <2>3. ASSUME NEW o \in Places, words'[o] # Nil PROVE chunkOf'[o[1]] # 0
    <3>1. chunkOf[o[1]] # 0
      BY <1>3, <2>1, <2>3 DEF CoverInv, Placement, PlacedNames
    <3> QED
      BY <1>2, <2>1, <3>1
  <2> QED
    BY <2>2, <2>3 DEF PlacedNames
<1>7. PlacedCall'
  <2>1. call.op = "none"
    BY <1>1, TopType
  <2> QED
    BY <1>1, <2>1 DEF PlacedCall
<1>8. Covered'
  BY StoreRunCover
<1> QED
  BY <1>2, <1>4, <1>5, <1>6, <1>7, <1>8 DEF CoverInv, Placement

LEMMA StoreItemCover ==
  ASSUME TypeInv, CoverInv, NEW k \in Cells, NEW x \in Records, StoreItem(k, x)
  PROVE  CoverInv'
<1> DEFINE p == <<Top.run, k>>
<1>1. /\ Building /\ Place(p, x) /\ Top.run # Nil
      /\ UNCHANGED <<dead, chunkOf, handed, frames, call>>
  BY DEF StoreItem, chunks
<1>2. p \in Places /\ chunkOf[p[1]] # 0
  BY <1>1, TopType, TopPlaced DEF Places, Frame
<1>3. Covered'
  BY <1>1, <1>2, PlaceCover DEF CoverInv
<1>4. PlacedNames' /\ PlacedCounts' /\ owned' \subseteq owned
  BY <1>1, <1>2, PlacePlaced
<1> QED
  BY <1>1, <1>3, <1>4 DEF CoverInv, Placement, PlacedHandles, PlacedFrames, PlacedCall

LEMMA FinishBuildCover == ASSUME TypeInv, CoverInv, FinishBuild PROVE CoverInv'
<1>1. /\ Building /\ frames' = Outer /\ UNCHANGED <<counts, chunkOf>>
      /\ \/ call' = NoCall /\ handed' = handed \cup {Top.rec}
         \/ /\ call' = [NoCall EXCEPT !.op = "carry", !.rec = Top.rec, !.copies = SidesOf(Top.src)]
            /\ handed' = handed
  BY DEF FinishBuild, EndScope, chunks
<1>2. frames # <<>> /\ chunkOf[Top.rec] # 0
  BY <1>1, TopType, TopPlaced
<1>3. PlacedFrames'
  BY <1>1, <1>2, EndScopePlaced
<1>4. Covered'
  BY <1>1, CoverSame DEF CoverInv, counts
<1>5. PlacedHandles'
  BY <1>1, <1>2 DEF CoverInv, Placement, PlacedHandles, counts
<1>6. PlacedCall'
  <2>1. CASE call' = NoCall
    BY <2>1, NoCallType DEF PlacedCall
  <2>2. CASE call' = [NoCall EXCEPT !.op = "carry", !.rec = Top.rec, !.copies = SidesOf(Top.src)]
    <3>1. call'.rec = Top.rec
      BY <2>2 DEF NoCall
    <3> QED
      BY <1>1, <1>2, <3>1 DEF PlacedCall
  <2> QED
    BY <1>1, <2>1, <2>2
<1> QED
  BY <1>1, <1>3, <1>4, <1>5, <1>6 DEF CoverInv, Placement, PlacedNames, PlacedCounts, counts

\* The end of a scope, and the calls that change no count.
LEMMA CountsSameCover ==
  ASSUME TypeInv, CoverInv,
         \/ FinishIntercepted \/ Abandoned \/ AbandonRefused \/ InternText \/ Throw \/ CopyRefused
         \/ OpenCommit \/ CloseCommit \/ Closed \/ CloseRefused \/ ReturnEdit
  PROVE  CoverInv'
<1>1. /\ UNCHANGED <<counts, chunkOf>>
      /\ handed' = handed \/ (handed' = handed \cup {call.rec} /\ call.op = "carry")
      /\ frames' = frames \/ (frames' = Outer /\ frames # <<>>)
      /\ call' = call \/ call'.op \in {"none", "giveback", "close"}
  <2>1. CASE FinishIntercepted
    BY <2>1 DEF FinishIntercepted, EndScope, chunks
  <2>2. CASE Abandoned \/ AbandonRefused
    BY <2>2, NoCallType DEF Abandoned, AbandonRefused, EndScope, chunks, TypeInv, Control
  <2>3. CASE InternText
    BY <2>3 DEF InternText, scopes
  <2>4. CASE Throw \/ CopyRefused \/ OpenCommit \/ CloseCommit
    BY <2>4 DEF Throw, CopyRefused, OpenCommit, CloseCommit, NoCall, chunks, scopes
  <2>5. CASE Closed \/ CloseRefused \/ ReturnEdit
    BY <2>5, NoCallType DEF Closed, CloseRefused, ReturnEdit, chunks, scopes
  <2> QED
    BY <2>1, <2>2, <2>3, <2>4, <2>5
<1>2. Covered'
  BY <1>1, CoverSame DEF CoverInv, counts
<1>3. PlacedFrames'
  <2>1. CASE frames' = frames
    BY <1>1, <2>1 DEF CoverInv, Placement, PlacedFrames
  <2>2. CASE frames' = Outer /\ frames # <<>>
    BY <1>1, <2>2, EndScopePlaced
  <2> QED
    BY <1>1, <2>1, <2>2
<1>4. PlacedHandles'
  BY <1>1 DEF CoverInv, Placement, PlacedHandles, PlacedCall, counts
<1> QED
  BY <1>1, <1>2, <1>3, <1>4 DEF CoverInv, Placement, PlacedNames, PlacedCall, PlacedCounts, counts

LEMMA CarrySideKeeps ==
  ASSUME TypeInv, CoverInv, NEW p \in call.copies, CarrySide(p)
  PROVE  CoverInv'
<1> DEFINE q == <<call.rec, p[2]>>
           x == words[p]
<1>1. /\ call.op = "carry" /\ count' = Adopted(x) /\ owned' = owned \ {x}
      /\ words' = [words EXCEPT ![q] = x] /\ counted' = counted \cup {q}
      /\ call' = [call EXCEPT !.copies = @ \ {p}]
      /\ UNCHANGED <<dead, chunkOf, handed, frames>>
  BY DEF CarrySide, chunks, scopes
<1>2. /\ p \in counted /\ x \in Records /\ q \in Places /\ count[x] > 0 /\ call \in Call
      /\ chunkOf[x] # 0 /\ chunkOf[call.rec] # 0
  BY <1>1, CoverLive
     DEF TypeInv, TypeOK, Control, Places, CoverInv, Covered, Live, Placement, PlacedNames, PlacedCall
<1>3. Covered'
  BY CarrySideCover DEF CoverInv
<1>4. PlacedNames'
  <2>1. \A o \in Places : words'[o] = IF o = q THEN x ELSE words[o]
    BY <1>1 DEF TypeInv, TypeOK
  <2>2. ASSUME NEW o \in counted' PROVE chunkOf'[words'[o]] # 0
    <3>1. CASE o = q
      BY <1>1, <1>2, <2>1, <3>1
    <3>2. CASE o # q
      <4>1. o \in counted /\ words'[o] = words[o]
        BY <1>1, <2>1, <3>2 DEF TypeInv, TypeOK
      <4> QED
        BY <1>1, <4>1 DEF CoverInv, Placement, PlacedNames
    <3> QED
      BY <3>1, <3>2
  <2>3. ASSUME NEW o \in Places, words'[o] # Nil PROVE chunkOf'[o[1]] # 0
    BY <1>1, <1>2, <2>1, <2>3 DEF CoverInv, Placement, PlacedNames
  <2> QED
    BY <2>2, <2>3 DEF PlacedNames
<1>5. PlacedCounts'
  <2>1. \A y \in Records : y # x => count'[y] = count[y]
    BY <1>1, <1>2, AdoptCover DEF TypeInv
  <2> QED
    BY <1>1, <1>2, <2>1 DEF CoverInv, Placement, PlacedCounts
<1>6. call'.rec = call.rec
  BY <1>1, <1>2 DEF Call
<1> QED
  BY <1>1, <1>2, <1>3, <1>4, <1>5, <1>6 DEF CoverInv, Placement, PlacedHandles, PlacedFrames, PlacedCall

LEMMA ReleaseOwnedPlaced ==
  ASSUME TypeInv, CoverInv, NEW x \in Records, ReleaseOwned(x),
         UNCHANGED <<words, counted, chunkOf, handed, frames>>,
         call' = call \/ call'.op \notin {"copy", "carry"}
  PROVE  CoverInv'
<1>1. Covered'
  BY ReleaseOwnedCover DEF CoverInv
<1>2. CASE x \in owned
  <2>1. chunkOf[x] # 0 /\ owned' \subseteq owned /\ dead' \subseteq dead \cup {x}
    BY <1>2 DEF ReleaseOwned, Released, CoverInv, Placement, PlacedHandles
  <2>2. \A y \in Records : y # x => count'[y] = count[y]
    BY <1>2 DEF ReleaseOwned, Dropped, TypeInv, TypeOK
  <2> QED
    BY <1>1, <2>1, <2>2
       DEF CoverInv, Placement, PlacedHandles, PlacedNames, PlacedFrames, PlacedCall, PlacedCounts
<1>3. CASE x \notin owned
  <2>1. UNCHANGED <<owned, count, dead>>
    BY <1>3 DEF ReleaseOwned
  <2> QED
    BY <1>1, <2>1
       DEF CoverInv, Placement, PlacedHandles, PlacedNames, PlacedFrames, PlacedCall, PlacedCounts
<1> QED
  BY <1>2, <1>3

LEMMA ReleasesCover ==
  ASSUME TypeInv, CoverInv,
         RefuseEdit \/ FreeMinted \/ CloseNext \/ (\E x \in Records : ReleaseNode(x))
  PROVE  CoverInv'
<1>1. \A i \in 1..Len(minted) : minted[i] \in Records
  BY Elements DEF TypeInv
<1>2. CASE RefuseEdit
  <2>1. call.rec \in Records /\ ReleaseOwned(call.rec) /\ call' = NoCall
        /\ UNCHANGED <<words, counted, chunkOf, handed, frames>>
    BY <1>2 DEF RefuseEdit, TypeInv, Control, chunks, scopes
  <2> QED
    BY <2>1, NoCallType, ReleaseOwnedPlaced
<1>3. CASE FreeMinted
  <2>1. call.op = "free" /\ call.n <= Len(minted) /\ call.n > Top.minted /\ call \in Call
        /\ frames # <<>>
    BY <1>3 DEF FreeMinted, TypeInv, TypeOK, Control
  <2>2. Top.minted \in Nat /\ call.n \in Nat
    BY <2>1, ScopesType DEF TypeInv, Frame, Call
  <2>3. minted[call.n] \in Records
    BY <1>1, <2>1, <2>2
  <2>4. /\ ReleaseOwned(minted[call.n]) /\ call' = [call EXCEPT !.n = @ - 1]
        /\ UNCHANGED <<words, counted, chunkOf, handed, frames>>
    BY <1>3 DEF FreeMinted, chunks, scopes
  <2>5. call'.op = "free"
    BY <2>1, <2>4 DEF Call
  <2> QED
    BY <2>3, <2>4, <2>5, ReleaseOwnedPlaced
<1>4. CASE CloseNext
  <2> DEFINE x == minted[call.n]
  <2>1. call.op = "close" /\ call.base < call.n /\ call.n <= Len(minted) /\ call \in Call
    BY <1>4 DEF CloseNext, TypeInv, TypeOK, Control
  <2>2. call.base \in Nat /\ call.n \in Nat
    BY <2>1 DEF Call
  <2>3. x \in Records
    BY <1>1, <2>1, <2>2
  <2>4. call'.op = "close"
    BY <1>4, <2>1 DEF CloseNext, Call
  <2>5. UNCHANGED <<words, counted, chunkOf, handed, frames>>
    BY <1>4 DEF CloseNext, chunks, scopes
  <2>6. CASE ReleaseOwned(x)
    BY <2>3, <2>4, <2>5, <2>6, ReleaseOwnedPlaced
  <2>7. CASE UNCHANGED <<owned, count, dead>>
    <3>1. Covered'
      BY <2>5, <2>7, CoverSame DEF CoverInv
    <3> QED
      BY <2>4, <2>5, <2>7, <3>1
         DEF CoverInv, Placement, PlacedHandles, PlacedNames, PlacedFrames, PlacedCall, PlacedCounts
  <2> QED
    BY <1>4, <2>6, <2>7 DEF CloseNext
<1>5. ASSUME NEW x \in Records, ReleaseNode(x) PROVE CoverInv'
  <2>1. /\ ReleaseOwned(x) /\ UNCHANGED <<words, counted, chunkOf, handed, frames, call>>
    BY <1>5 DEF ReleaseNode, chunks, scopes
  <2> QED
    BY <2>1, ReleaseOwnedPlaced
<1> QED
  BY <1>2, <1>3, <1>4, <1>5

LEMMA GiveBackPlaced ==
  ASSUME TypeInv, CoverInv, NEW x \in Records, count[x] > 0, GiveBack(x),
         UNCHANGED <<words, counted, dead, chunkOf, handed, frames>>,
         call' = call \/ call'.op \notin {"copy", "carry"}
  PROVE  CoverInv'
<1>1. Covered'
  BY GiveBackCover DEF CoverInv
<1>2. chunkOf[x] # 0 /\ owned' = owned \cup {x}
  BY DEF GiveBack, CoverInv, Placement, PlacedCounts
<1>3. \A y \in Records : y # x => count'[y] = count[y]
  BY DEF GiveBack, TypeInv, TypeOK
<1> QED
  BY <1>1, <1>2, <1>3
     DEF CoverInv, Placement, PlacedHandles, PlacedNames, PlacedFrames, PlacedCall, PlacedCounts

LEMMA UnchangedCover ==
  ASSUME CoverInv, UNCHANGED <<count, owned, words, counted, dead, chunkOf, handed, frames>>,
         call' = call \/ call'.op \notin {"copy", "carry"}
  PROVE  CoverInv'
<1>1. Covered'
  BY CoverSame DEF CoverInv
<1> QED
  BY <1>1 DEF CoverInv, Placement, PlacedHandles, PlacedNames, PlacedFrames, PlacedCall, PlacedCounts

LEMMA GiveBackMovedCover == ASSUME TypeInv, CoverInv, GiveBackMoved PROVE CoverInv'
<1>1. /\ call.op = "giveback" /\ frames # <<>> /\ call.n <= Len(moved) /\ call \in Call
      /\ UNCHANGED <<words, counted, dead, chunkOf, handed, frames>>
  BY DEF GiveBackMoved, TypeInv, TypeOK, Control, chunks, scopes
<1>2. Top.moved \in Nat /\ call.n \in Nat /\ \A i \in 1..Len(moved) : moved[i] \in Records
  BY <1>1, ScopesType, Elements DEF Frame, Call, TypeInv
<1>3. CASE call.n > Top.moved
  <2>1. /\ GiveBack(moved[call.n]) /\ count[moved[call.n]] > 0 /\ moved[call.n] \in Records
        /\ call' = [call EXCEPT !.n = @ - 1]
    BY <1>1, <1>2, <1>3 DEF GiveBackMoved
  <2>2. call'.op = "giveback"
    BY <1>1, <2>1 DEF Call
  <2> QED
    BY <1>1, <2>1, <2>2, GiveBackPlaced
<1>4. CASE ~(call.n > Top.moved)
  <2>1. call' = [call EXCEPT !.op = "free", !.n = Len(minted)] /\ UNCHANGED <<count, owned>>
    BY <1>4 DEF GiveBackMoved
  <2>2. call'.op = "free"
    BY <1>1, <2>1 DEF Call
  <2> QED
    BY <1>1, <2>1, <2>2, UnchangedCover
<1> QED
  BY <1>3, <1>4

LEMMA KeepCover ==
  ASSUME TypeInv, CoverInv, NEW i \in 1..MaxCommits, NEW x \in Records, Keep(i, x)
  PROVE  CoverInv'
<1>1. /\ count[x] > 0 /\ UNCHANGED <<words, counted, dead, chunkOf, handed, frames, call>>
      /\ GiveBack(x) \/ UNCHANGED <<count, owned>>
  BY DEF Keep, chunks
<1> QED
  BY <1>1, GiveBackPlaced, UnchangedCover

LEMMA WriteSideKeeps ==
  ASSUME TypeInv, CoverInv, NEW h \in Records, NEW s \in Sides, NEW x \in Records \cup {Nil},
         WriteSide(h, s, x)
  PROVE  CoverInv'
<1> DEFINE p == <<h, s>>
           held == IF x = Nil THEN count ELSE Adopted(x)
<1>1. /\ owned' = owned \ {x} /\ words' = [words EXCEPT ![p] = x] /\ p \in Places
      /\ counted' = IF x = Nil THEN counted \ {p} ELSE counted \cup {p}
      /\ IF p \in counted
         THEN count' = Dropped(held, words[p]) /\ dead' = Released(held, words[p])
         ELSE count' = held /\ dead' = dead
      /\ x # Nil => x \in Records /\ count[x] > 0
      /\ h \in handed /\ UNCHANGED <<chunkOf, handed, frames, call>>
  BY DEF WriteSide, chunks, scopes, Places
<1>2. /\ x # Nil => chunkOf[x] # 0
      /\ p \in counted => words[p] \in Records /\ chunkOf[words[p]] # 0
      /\ chunkOf[h] # 0
  BY <1>1 DEF TypeInv, Control, CoverInv, Placement, PlacedHandles, PlacedNames, PlacedCounts
<1>3. \A o \in Places : words'[o] = IF o = p THEN x ELSE words[o]
  BY <1>1 DEF TypeInv, TypeOK
<1>4. PlacedHandles'
  BY <1>1, <1>2 DEF Released, CoverInv, Placement, PlacedHandles
<1>5. PlacedNames'
  <2>1. ASSUME NEW o \in counted' PROVE chunkOf'[words'[o]] # 0
    <3>1. CASE o = p
      BY <1>1, <1>2, <1>3, <3>1
    <3>2. CASE o # p
      <4>1. o \in counted /\ words'[o] = words[o]
        BY <1>1, <1>3, <3>2 DEF TypeInv, TypeOK
      <4> QED
        BY <1>1, <4>1 DEF CoverInv, Placement, PlacedNames
    <3> QED
      BY <3>1, <3>2
  <2>2. ASSUME NEW o \in Places, words'[o] # Nil PROVE chunkOf'[o[1]] # 0
    BY <1>1, <1>2, <1>3, <2>2 DEF CoverInv, Placement, PlacedNames
  <2> QED
    BY <2>1, <2>2 DEF PlacedNames
<1>6. PlacedCounts'
  <2>1. count \in [Records -> Nat] /\ held \in [Records -> Nat]
        /\ \A y \in Records : y # x => held[y] = count[y]
    <3>1. CASE x = Nil
      BY <3>1 DEF TypeInv, TypeOK
    <3>2. CASE x # Nil
      BY <1>1, <3>2, AdoptCover DEF TypeInv, TypeOK
    <3> QED
      BY <3>1, <3>2
  <2>2. ASSUME NEW y \in Records, chunkOf'[y] = 0 PROVE count'[y] = 0
    <3>1. count[y] = 0 /\ y # x /\ (p \in counted => y # words[p])
      <4>1. chunkOf[y] = 0 /\ y # Nil
        BY <1>1, <2>2, ConstantsAssumption
      <4> QED
        BY <1>2, <4>1 DEF CoverInv, Placement, PlacedCounts
    <3>2. count'[y] = held[y]
      BY <1>1, <2>1, <3>1 DEF Dropped
    <3> QED
      BY <2>1, <3>1, <3>2
  <2> QED
    BY <2>2 DEF PlacedCounts
<1>7. Covered'
  BY WriteSideCover DEF CoverInv
<1> QED
  BY <1>1, <1>4, <1>5, <1>6, <1>7 DEF CoverInv, Placement, PlacedFrames, PlacedCall

LEMMA InitCover == Init => CoverInv
<1> SUFFICES ASSUME Init PROVE CoverInv
  OBVIOUS
<1>1. TypeInv
  BY InitType
<1>2. /\ count = [y \in Records |-> 0] /\ owned = {} /\ counted = {} /\ dead = {} /\ handed = {}
      /\ words = [p \in Places |-> Nil] /\ frames = <<>> /\ call.op = "none"
  BY NoCallType DEF Init
<1>3. IsFiniteSet(counted) /\ \A x : Holders(x) = {}
  BY <1>2, FS_EmptySet DEF Holders
<1>4. CountsCover
  BY <1>2, <1>3, FS_EmptySet DEF CountsCover, OwnCount
<1>5. Named
  BY <1>2 DEF Named
<1>6. PlacedHandles /\ PlacedNames /\ PlacedCall /\ PlacedCounts
  BY <1>2 DEF PlacedHandles, PlacedNames, PlacedCall, PlacedCounts
<1>7. PlacedFrames
  BY <1>2, EmptySeq DEF PlacedFrames
<1> QED
  BY <1>3, <1>4, <1>5, <1>6, <1>7 DEF CoverInv, Covered, Placement

LEMMA CoverStep == ASSUME TypeInv, CoverInv, [Next]_vars PROVE CoverInv'
<1>1. CASE Release
  BY <1>1, ReleaseCover
<1>2. ASSUME NEW p \in call.copies, CopyCell(p) \/ CarrySide(p) PROVE CoverInv'
  BY <1>2, CopyCellCover, CarrySideKeeps
<1>3. CASE \/ FinishIntercepted \/ Abandoned \/ AbandonRefused \/ InternText \/ Throw \/ CopyRefused
           \/ OpenCommit \/ CloseCommit \/ Closed \/ CloseRefused \/ ReturnEdit
  BY <1>3, CountsSameCover
<1>4. CASE RefuseEdit \/ FreeMinted \/ CloseNext \/ (\E x \in Records : ReleaseNode(x))
  BY <1>4, ReleasesCover
<1>5. CASE GiveBackMoved \/ InterceptBuild \/ FinishBuild
  BY <1>5, GiveBackMovedCover, InterceptBuildCover, FinishBuildCover
<1>6. ASSUME NEW r \in Records, BuildRecord(r) PROVE CoverInv'
  BY <1>6, BuildRecordCover
<1>7. ASSUME NEW r \in Records, NEW src \in Records, EditRecord(r, src) PROVE CoverInv'
  BY <1>7, EditRecordCover
<1>8. ASSUME NEW c \in Cells, PatchCell(c) PROVE CoverInv'
  BY <1>8, PatchCellCover
<1>9. ASSUME NEW c \in Cells, NEW x \in Records, StoreCell(c, x) \/ StoreRun(c, x) \/ StoreItem(c, x)
      PROVE  CoverInv'
  BY <1>9, StoreCellCover, StoreRunKeeps, StoreItemCover
<1>10. ASSUME NEW h \in Records, NEW s \in Sides, NEW x \in Records \cup {Nil}, WriteSide(h, s, x)
       PROVE  CoverInv'
  BY <1>10, WriteSideKeeps
<1>11. ASSUME NEW i \in 1..MaxCommits, NEW x \in Records, Keep(i, x) PROVE CoverInv'
  BY <1>11, KeepCover
<1>12. CASE UNCHANGED vars
  BY <1>12, UnchangedCover DEF vars, counts, chunks, scopes
<1> QED
  BY <1>1, <1>2, <1>3, <1>4, <1>5, <1>6, <1>7, <1>8, <1>9, <1>10, <1>11, <1>12
     DEF Next, Continues, Starts

-----------------------------------------------------------------------------
(* The theorems.                                                           *)

LEMMA IInvHolds == Spec => []IInv
<1>1. Init => IInv
  BY InitType, InitCover DEF IInv
<1>2. IInv /\ [Next]_vars => IInv'
  <2> SUFFICES ASSUME IInv, [Next]_vars PROVE IInv'
    OBVIOUS
  <2>1. Live
    BY CoverLive DEF IInv, CoverInv, Covered
  <2> QED
    BY <2>1, TypeStep, CoverStep DEF IInv
<1> QED
  BY <1>1, <1>2, PTL DEF Spec

\* Every variable of the arena keeps to its values (TypeOK): no count is counted
\* below zero, no loop of a call indexes past the list it works on, and no scope's
\* mark lies past the list it cuts.
THEOREM ArenaTypeCorrect == Spec => []TypeOK
<1>1. IInv => TypeOK
  BY DEF IInv, TypeInv
<1> QED
  BY <1>1, IInvHolds, PTL

\* The counts of every record cover its handle's and its places' (CountsCover),
\* whatever interceptors, rollbacks, edits, sides, keeps and closes do.
THEOREM ArenaCountsCover == Spec => []CountsCover
<1>1. IInv => CountsCover
  BY DEF IInv, CoverInv, Covered
<1> QED
  BY <1>1, IInvHolds, PTL

\* What a live record names is live and lies in a chunk that was not freed
\* (NoDangling), so a reader or a render of a live node never meets a freed one.
THEOREM ArenaNoDangling == Spec => []NoDangling
<1>1. IInv => NoDangling
  <2> SUFFICES ASSUME IInv, NEW p \in Places, count[p[1]] > 0, words[p] # Nil
               PROVE  count[words[p]] > 0 /\ ~Freed(chunkOf[words[p]])
    BY DEF NoDangling
  <2>1. p \in counted /\ words[p] \in Records
    BY DEF IInv, TypeInv, Control, CoverInv, Covered, Named
  <2>2. count[words[p]] > 0 /\ count[words[p]] \in Nat
    BY <2>1, CoverLive DEF IInv, TypeInv, TypeOK, CoverInv, Covered, Live
  <2> QED
    BY <2>1, <2>2 DEF Freed, Emptied
<1> QED
  BY <1>1, IInvHolds, PTL

-----------------------------------------------------------------------------
(* A freed chunk stays freed: no record is put in it, and none of its      *)
(* records is counted again.                                               *)

LEMMA ChunksGrow ==
  ASSUME TypeInv, [Next]_vars
  PROVE  /\ open' \in {open, open + 1}
         /\ \A x \in Records :
              \/ chunkOf'[x] = chunkOf[x]
              \/ chunkOf[x] = 0 /\ chunkOf'[x] \in {open, open + 1}
<1>1. ASSUME NEW r \in Records, Alloc(r)
      PROVE  /\ open' \in {open, open + 1}
             /\ \A x \in Records :
                  \/ chunkOf'[x] = chunkOf[x]
                  \/ chunkOf[x] = 0 /\ chunkOf'[x] \in {open, open + 1}
  BY <1>1 DEF Alloc, TypeInv, TypeOK
<1>2. CASE UNCHANGED <<chunkOf, open>>
  BY <1>2
<1>3. CASE Starts
  <2>1. ASSUME NEW r \in Records, BuildRecord(r) \/ \E src \in Records : EditRecord(r, src)
        PROVE  Alloc(r)
    BY <2>1 DEF BuildRecord, EditRecord, Mint
  <2>2. ASSUME NEW c \in Cells, NEW u \in Records, StoreRun(c, u) PROVE Alloc(u)
    BY <2>2 DEF StoreRun
  <2>3. ASSUME NEW c \in Cells, NEW x \in Records,
               StoreCell(c, x) \/ StoreItem(c, x)
        PROVE  UNCHANGED <<chunkOf, open>>
    BY <2>3 DEF StoreCell, StoreItem, chunks
  <2>4. ASSUME NEW h \in Records, NEW s \in Sides, NEW x \in Records \cup {Nil}, WriteSide(h, s, x)
        PROVE  UNCHANGED <<chunkOf, open>>
    BY <2>4 DEF WriteSide, chunks
  <2>5. ASSUME NEW i \in 1..MaxCommits, NEW x \in Records, Keep(i, x)
        PROVE  UNCHANGED <<chunkOf, open>>
    BY <2>5 DEF Keep, chunks
  <2>6. ASSUME NEW x \in Records, ReleaseNode(x) PROVE UNCHANGED <<chunkOf, open>>
    BY <2>6 DEF ReleaseNode, chunks
  <2>7. ASSUME NEW c \in Cells, PatchCell(c) PROVE UNCHANGED <<chunkOf, open>>
    BY <2>7 DEF PatchCell, chunks
  <2>8. CASE InterceptBuild \/ InternText \/ FinishBuild \/ FinishIntercepted \/ Throw
             \/ OpenCommit \/ CloseCommit
    BY <2>8 DEF InterceptBuild, InternText, FinishBuild, FinishIntercepted, Throw, OpenCommit,
                CloseCommit, chunks
  <2> QED
    BY <1>1, <1>2, <1>3, <2>1, <2>2, <2>3, <2>4, <2>5, <2>6, <2>7, <2>8 DEF Starts
<1>4. CASE Continues
  BY <1>2, <1>4 DEF Continues, Release, CopyCell, CarrySide, CopyRefused, ReturnEdit, RefuseEdit,
                    GiveBackMoved, FreeMinted, Abandoned, AbandonRefused, CloseNext, Closed,
                    CloseRefused, chunks
<1>5. CASE UNCHANGED vars
  BY <1>2, <1>5 DEF vars, chunks
<1> QED
  BY <1>3, <1>4, <1>5 DEF Next

\* A record placed once and released, its places dropped: of those left as they are.
Gone(x) == chunkOf[x] # 0 /\ count[x] = 0 /\ x \notin dead

LEMMA HoldGone ==
  ASSUME TypeInv, NEW y \in Records, Hold(y), NEW x \in Records, Gone(x)
  PROVE  count'[x] = 0
BY DEF Hold, Gone, TypeInv, TypeOK

LEMMA ReleaseOwnedGone ==
  ASSUME TypeInv, Live, NEW y \in Records, ReleaseOwned(y), NEW x \in Records, Gone(x)
  PROVE  count'[x] = 0 /\ x \notin dead'
<1>1. CASE y \in owned
  <2>1. count[y] > 0 /\ y # x
    BY <1>1 DEF Live, Gone
  <2> QED
    BY <1>1, <2>1 DEF ReleaseOwned, Dropped, Released, Gone, TypeInv, TypeOK
<1>2. CASE y \notin owned
  BY <1>2 DEF ReleaseOwned, Gone
<1> QED
  BY <1>1, <1>2

LEMMA DroppedGone ==
  ASSUME TypeInv, NEW cnt \in [Records -> Nat], NEW y \in Records, cnt[y] > 0,
         NEW x \in Records, Gone(x), cnt[x] = 0
  PROVE  Dropped(cnt, y)[x] = 0 /\ x \notin Released(cnt, y)
BY DEF Dropped, Released, Gone

LEMMA ContinuesGone ==
  ASSUME TypeInv, Live, Continues, NEW x \in Records, Gone(x)
  PROVE  count'[x] = 0 /\ x \notin dead'
<1>1. CASE Release
  <2>1. ASSUME NEW d \in dead, NEW p \in PlacesOf(d),
               count' = Dropped(count, words[p]), dead' = Released(count, words[p])
        PROVE  count'[x] = 0 /\ x \notin dead'
    <3>1. words[p] \in Records /\ count[words[p]] > 0
      BY DEF PlacesOf, Live, TypeInv, Control
    <3> QED
      BY ZenonT(40), <2>1, <3>1, DroppedGone DEF TypeInv, TypeOK, Gone
  <2>2. ASSUME NEW d \in dead, dead' = dead \ {d}, count' = count
        PROVE  count'[x] = 0 /\ x \notin dead'
    BY <2>2 DEF Gone
  <2> QED
    BY <1>1, <2>1, <2>2 DEF Release
<1>2. ASSUME NEW p \in call.copies, CopyCell(p) \/ CarrySide(p)
      PROVE  count'[x] = 0 /\ x \notin dead'
  <2>1. CASE CopyCell(p)
    <3>1. words[p] \in Records /\ Hold(words[p]) /\ dead' = dead
      BY <2>1 DEF CopyCell, TypeInv, Control
    <3> QED
      BY <3>1, HoldGone DEF Gone
  <2>2. CASE CarrySide(p)
    <3>1. p \in counted /\ words[p] \in Records /\ count' = Adopted(words[p]) /\ dead' = dead
      BY <2>2 DEF CarrySide, TypeInv, Control
    <3>2. count[words[p]] > 0
      BY <3>1 DEF Live
    <3> QED
      BY <3>1, <3>2 DEF Adopted, Gone, TypeInv, TypeOK
  <2> QED
    BY <1>2, <2>1, <2>2
<1>3. CASE CopyRefused \/ ReturnEdit \/ Abandoned \/ AbandonRefused \/ Closed \/ CloseRefused
  BY <1>3 DEF CopyRefused, ReturnEdit, Abandoned, AbandonRefused, Closed, CloseRefused, counts, Gone
<1>4. CASE RefuseEdit
  BY <1>4, ReleaseOwnedGone DEF RefuseEdit, TypeInv, Control
<1>5. CASE GiveBackMoved
  <2>1. dead' = dead /\ count \in [Records -> Nat]
    BY <1>5 DEF GiveBackMoved, TypeInv, TypeOK
  <2>2. CASE count' = count
    BY <2>1, <2>2 DEF Gone
  <2>3. CASE count[moved[call.n]] > 0 /\ GiveBack(moved[call.n])
    BY <2>1, <2>3 DEF GiveBack, Gone
  <2> QED
    BY <1>5, <2>2, <2>3 DEF GiveBackMoved
<1>6. CASE FreeMinted
  <2>1. call.op = "free" /\ call.n <= Len(minted) /\ call.n > Top.minted /\ call \in Call
        /\ frames # <<>> /\ ReleaseOwned(minted[call.n])
    BY <1>6 DEF FreeMinted, TypeInv, TypeOK, Control
  <2>2. Top.minted \in Nat /\ call.n \in Nat
    BY <2>1, ScopesType DEF TypeInv, Frame, Call
  <2>3. minted[call.n] \in Records
    BY <2>1, <2>2, Elements DEF TypeInv
  <2> QED
    BY <2>1, <2>3, ReleaseOwnedGone
<1>7. CASE CloseNext
  <2>1. call.op = "close" /\ call.base < call.n /\ call.n <= Len(minted) /\ call \in Call
    BY <1>7 DEF CloseNext, TypeInv, TypeOK, Control
  <2>2. call.base \in Nat /\ call.n \in Nat
    BY <2>1 DEF Call
  <2>3. minted[call.n] \in Records
    BY <2>1, <2>2, Elements DEF TypeInv
  <2>4. ReleaseOwned(minted[call.n]) \/ UNCHANGED <<owned, count, dead>>
    BY <1>7 DEF CloseNext
  <2> QED
    BY <2>3, <2>4, ReleaseOwnedGone DEF Gone
<1> QED
  BY <1>1, <1>2, <1>3, <1>4, <1>5, <1>6, <1>7 DEF Continues

LEMMA StartsGone ==
  ASSUME TypeInv, Live, Starts, NEW x \in Records, Gone(x)
  PROVE  count'[x] = 0 /\ x \notin dead'
<1>1. CASE InterceptBuild \/ InternText \/ FinishBuild \/ FinishIntercepted \/ Throw
           \/ OpenCommit \/ CloseCommit
  BY <1>1 DEF InterceptBuild, InternText, FinishBuild, FinishIntercepted, Throw, OpenCommit,
              CloseCommit, counts, Gone
<1>2. ASSUME NEW r \in Records, Alloc(r), count' = [count EXCEPT ![r] = 1], dead' = dead
      PROVE  count'[x] = 0 /\ x \notin dead'
  BY <1>2 DEF Alloc, Gone, TypeInv, TypeOK
<1>3. ASSUME NEW r \in Records, BuildRecord(r) \/ \E src \in Records : EditRecord(r, src)
      PROVE  count'[x] = 0 /\ x \notin dead'
  BY <1>2, <1>3 DEF BuildRecord, EditRecord, Mint
<1>4. ASSUME NEW c \in Cells, PatchCell(c)
      PROVE  count'[x] = 0 /\ x \notin dead'
  <2> DEFINE p == <<Top.rec, c>>
  <2>1. p \in counted /\ count' = Dropped(count, words[p]) /\ dead' = Released(count, words[p])
    BY <1>4 DEF PatchCell
  <2>2. words[p] \in Records /\ count[words[p]] > 0
    BY <2>1 DEF Live, TypeInv, Control
  <2> QED
    BY ZenonT(40), <2>1, <2>2, DroppedGone DEF TypeInv, TypeOK, Gone
<1>5. ASSUME NEW c \in Cells, NEW u \in Records, StoreCell(c, u) \/ StoreRun(c, u) \/ StoreItem(c, u)
      PROVE  count'[x] = 0 /\ x \notin dead'
  <2>1. CASE StoreCell(c, u) \/ StoreItem(c, u)
    <3>1. Hold(u) /\ dead' = dead
      BY <2>1 DEF StoreCell, StoreItem, Place
    <3> QED
      BY <3>1, HoldGone DEF Gone
  <2>2. CASE StoreRun(c, u)
    BY <1>2, <2>2 DEF StoreRun
  <2> QED
    BY <1>5, <2>1, <2>2
<1>6. ASSUME NEW y \in Records, ReleaseNode(y)
      PROVE  count'[x] = 0 /\ x \notin dead'
  BY <1>6, ReleaseOwnedGone DEF ReleaseNode
<1>7. ASSUME NEW h \in Records, NEW s \in Sides, NEW y \in Records \cup {Nil}, WriteSide(h, s, y)
      PROVE  count'[x] = 0 /\ x \notin dead'
  <2> DEFINE p == <<h, s>>
             held == IF y = Nil THEN count ELSE Adopted(y)
  <2>1. /\ y # Nil => y \in Records /\ count[y] > 0
        /\ IF p \in counted
           THEN count' = Dropped(held, words[p]) /\ dead' = Released(held, words[p])
           ELSE count' = held /\ dead' = dead
    BY <1>7 DEF WriteSide
  <2>2. /\ held \in [Records -> Nat] /\ held[x] = 0
        /\ \A z \in Records : count[z] > 0 => held[z] > 0
    BY <2>1 DEF Adopted, Gone, TypeInv, TypeOK
  <2>3. p \in counted => words[p] \in Records /\ count[words[p]] > 0
    BY DEF Live, TypeInv, Control
  <2> HIDE DEF held, p
  <2>4. CASE p \in counted
    BY <2>1, <2>2, <2>3, <2>4, DroppedGone
  <2>5. CASE p \notin counted
    BY <2>1, <2>2, <2>5 DEF Gone
  <2> QED
    BY <2>4, <2>5
<1>8. ASSUME NEW i \in 1..MaxCommits, NEW y \in Records, Keep(i, y)
      PROVE  count'[x] = 0 /\ x \notin dead'
  BY <1>8 DEF Keep, GiveBack, Gone, TypeInv, TypeOK
<1> QED
  BY <1>1, <1>3, <1>4, <1>5, <1>6, <1>7, <1>8 DEF Starts

LEMMA FreedStays ==
  ASSUME IInv, [Next]_vars, NEW c \in 1..open, Freed(c)
  PROVE  Freed(c)'
<1>1. TypeInv /\ Live /\ open \in Nat
  BY CoverLive DEF IInv, CoverInv, Covered, TypeInv, TypeOK
<1>2. c # open'
  BY <1>1, ChunksGrow DEF Freed
<1>3. ASSUME NEW x \in Records, chunkOf'[x] = c PROVE count'[x] = 0 /\ x \notin dead'
  <2>1. chunkOf[x] = c
    BY <1>1, <1>3, ChunksGrow DEF Freed
  <2>2. Gone(x)
    BY <1>1, <2>1 DEF Freed, Emptied, Gone
  <2>3. CASE UNCHANGED vars
    BY <2>2, <2>3 DEF Gone, vars, counts
  <2> QED
    BY <1>1, <2>2, <2>3, ContinuesGone, StartsGone DEF Next
<1> QED
  BY <1>2, <1>3 DEF Freed, Emptied

\* No step counts a record of a freed chunk again or puts one in it (FreedStaysFreed):
\* native code may give the memory away.
THEOREM ArenaFreedStaysFreed == Spec => FreedStaysFreed
<1>1. IInv /\ [Next]_vars => [\A c \in 1..open : Freed(c) => Freed(c)']_vars
  BY FreedStays
<1> QED
  BY <1>1, IInvHolds, PTL DEF Spec, FreedStaysFreed
=============================================================================
