-------------------------- MODULE CountByteProofs ---------------------------
(***************************************************************************)
(* CountByte implements RecordCount, whatever the byte saturates at.       *)
(***************************************************************************)
EXTENDS CountByte, TLAPS

\* The overflow map has a row only past the saturation, and the entry is released
\* exactly when its low bits, so its count, are none.
ByteInv ==
  /\ low \in 0..Saturated /\ owned \in {0, 1} /\ overflow \in Nat /\ state \in {"live", "released"}
  /\ overflow > 0 => low = Saturated
  /\ IF low = 0 THEN state = "released" ELSE state = "live"
  /\ owned = 1 => low # 0

LEMMA InitByteInv == Init => ByteInv
BY SaturatedAssumption DEF Init, ByteInv

\* A dropped count is the low bits' or the overflow's, and the last one releases.
LEMMA DropCountByte ==
  ASSUME ByteInv, DropCount
  PROVE  /\ low' \in 0..Saturated /\ overflow' \in Nat /\ state' \in {"live", "released"}
         /\ overflow' > 0 => low' = Saturated
         /\ IF low' = 0 THEN state' = "released" ELSE state' = "live"
         /\ Value' = Value - 1
         /\ IF Value' = 0 THEN state' = "released" ELSE UNCHANGED state
<1> USE SaturatedAssumption DEF ByteInv, DropCount, Value
<1>1. CASE low = Saturated /\ overflow > 0
  BY <1>1
<1>2. CASE ~(low = Saturated /\ overflow > 0)
  <2>1. low' = low - 1 /\ low' \in 0..Saturated /\ overflow = 0 /\ overflow' = 0
    BY <1>2
  <2>2. IF low' = 0 THEN state' = "released" ELSE state' = "live"
    BY <1>2
  <2>3. Value' = low'
    BY <2>1
  <2> QED
    BY <1>2, <2>1, <2>2, <2>3
<1> QED
  BY <1>1, <1>2

LEMMA StepByteInv == ByteInv /\ [Next]_byteVars => ByteInv'
<1> SUFFICES ASSUME ByteInv, [Next]_byteVars PROVE ByteInv'
  OBVIOUS
<1> USE SaturatedAssumption DEF ByteInv
<1>1. CASE HoldMoving
  BY <1>1 DEF HoldMoving
<1>2. ASSUME NEW kept \in BOOLEAN, HoldTaking(kept) PROVE ByteInv'
  BY <1>2 DEF HoldTaking, OneMore
<1>3. CASE GiveBack
  BY <1>3 DEF GiveBack, OneMore
<1>4. CASE Adopt
  BY <1>4 DEF Adopt, OneMore
<1>5. CASE Drop
  <2>1. CASE low > 1 /\ low # Saturated
    BY <1>5, <2>1 DEF Drop
  <2>2. CASE ~(low > 1 /\ low # Saturated)
    <3>1. DropCount /\ owned' = owned /\ Value > owned
      BY <1>5, <2>2 DEF Drop
    <3>2. owned = 1 => low' # 0
      BY <3>1 DEF DropCount, Value
    <3> QED
      BY <3>1, <3>2, DropCountByte
  <2> QED
    BY <2>1, <2>2
<1>6. CASE ReleaseOwned
  <2>1. DropCount /\ owned' = 0
    BY <1>6 DEF ReleaseOwned
  <2> QED
    BY <2>1, DropCountByte
<1>7. CASE UNCHANGED byteVars
  BY <1>7 DEF byteVars
<1> QED
  BY <1>1, <1>2, <1>3, <1>4, <1>5, <1>6, <1>7 DEF Next

\* Each operation on the byte is one on the count it stands for: a hold past the
\* saturation takes a count, and a drop of a saturated byte drops one.
LEMMA StepRefines == ByteInv /\ [Next]_byteVars => [Count!Next]_Count!countVars
<1> SUFFICES ASSUME ByteInv, [Next]_byteVars PROVE [Count!Next]_Count!countVars
  OBVIOUS
<1> USE SaturatedAssumption DEF ByteInv, Value
<1>1. CASE HoldMoving
  <2>1. Count!Move
    BY <1>1 DEF HoldMoving, Count!Move
  <2> QED
    BY <2>1 DEF Count!Next
<1>2. ASSUME OneMore PROVE Value' = Value + 1
  BY <1>2 DEF OneMore
<1>3. ASSUME NEW kept \in BOOLEAN, HoldTaking(kept) PROVE Count!Next
  <2>1. Count!Take
    BY <1>2, <1>3 DEF HoldTaking, OneMore, Count!Take
  <2> QED
    BY <2>1 DEF Count!Next
<1>4. CASE GiveBack
  <2>1. Count!GiveBack
    BY <1>2, <1>4 DEF GiveBack, OneMore, Count!GiveBack
  <2> QED
    BY <2>1 DEF Count!Next
<1>5. CASE Adopt
  <2>1. CASE owned = 1
    <3>1. Count!Move
      BY <1>5, <2>1 DEF Adopt, Count!Move
    <3> QED
      BY <3>1 DEF Count!Next
  <2>2. CASE owned = 0
    <3>1. Count!Take
      BY <1>2, <1>5, <2>2 DEF Adopt, OneMore, Count!Take
    <3> QED
      BY <3>1 DEF Count!Next
  <2> QED
    BY <2>1, <2>2
<1>6. CASE Drop
  <2>1. Value > owned
    BY <1>6 DEF Drop
  <2>2. Value' = Value - 1 /\ (IF Value' = 0 THEN state' = "released" ELSE UNCHANGED state) /\ UNCHANGED owned
    <3>1. CASE low > 1 /\ low # Saturated
      BY <1>6, <3>1 DEF Drop
    <3>2. CASE ~(low > 1 /\ low # Saturated)
      BY <1>6, <3>2, DropCountByte DEF Drop
    <3> QED
      BY <3>1, <3>2
  <2>3. Count!Drop
    BY <2>1, <2>2 DEF Count!Drop
  <2> QED
    BY <2>3 DEF Count!Next
<1>7. CASE ReleaseOwned
  <2>1. Value' = Value - 1 /\ (IF Value' = 0 THEN state' = "released" ELSE UNCHANGED state)
    BY <1>7, DropCountByte DEF ReleaseOwned
  <2>2. Count!ReleaseOwned
    BY <1>7, <2>1 DEF ReleaseOwned, Count!ReleaseOwned
  <2> QED
    BY <2>2 DEF Count!Next
<1>8. CASE UNCHANGED byteVars
  BY <1>8 DEF byteVars, Count!countVars
<1> QED
  BY <1>1, <1>3, <1>4, <1>5, <1>6, <1>7, <1>8 DEF Next

\* The count byte and its overflow map implement the entry's count: no count is
\* lost at the saturation, and the entry lives until the last one is dropped.
THEOREM CountByteImplementsCount == Spec => CountRefines
<1>1. Init => Count!Init
  BY SaturatedAssumption DEF Init, Count!Init, Value
<1> QED
  BY <1>1, InitByteInv, StepByteInv, StepRefines, PTL DEF Spec, CountRefines, Count!Spec
=============================================================================
