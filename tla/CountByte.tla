----------------------------- MODULE CountByte ------------------------------
(***************************************************************************)
(* The count of one entry of a built arena as it is kept: a count byte     *)
(* JavaScript and native code both write, its OWNED bit, its low bits,     *)
(* which saturate, and the native overflow map past that.                  *)
(* (packages/common/src/built-arena.ts, hold, #giveBack, #countOneMore and *)
(* drop; rust/crates/sittir-core/src/arena/count.rs, bump, adopt, release  *)
(* and drop_count.)                                                        *)
(*                                                                         *)
(* Each operation runs to its end, native calls included, before another   *)
(* begins: JavaScript has one thread.                                      *)
(***************************************************************************)
EXTENDS Naturals

CONSTANTS
  Saturated,  \* what the low bits saturate at (SATURATED, 127)
  MaxCount    \* bound: the counts one entry has at once

ASSUME SaturatedAssumption == Saturated \in Nat \ {0} /\ MaxCount \in Nat

VARIABLES
  low,       \* the count byte's low bits
  owned,     \* its OWNED bit, 0 or 1
  overflow,  \* the overflow map's row of the entry, 0 when it has none
  state      \* "live", or "released" once it was put on the release stack

byteVars == <<low, owned, overflow, state>>

Value == low + overflow

Init ==
  /\ low = 1
  /\ owned \in {0, 1}
  /\ overflow = 0
  /\ state = "live"

\* One count more: in the byte, or once it is saturated in the map.
OneMore ==
  /\ Value < MaxCount
  /\ low # 0
  /\ IF low = Saturated
     THEN overflow' = overflow + 1 /\ UNCHANGED low
     ELSE low' = low + 1 /\ UNCHANGED overflow

\* hold: moves the handle's count when no commit scope keeps the entry.
HoldMoving ==
  /\ owned = 1 /\ low # 0
  /\ owned' = 0
  /\ UNCHANGED <<low, overflow, state>>

\* hold: else takes one more (#countOneMore).
HoldTaking(kept) ==
  /\ kept \/ owned = 0
  /\ OneMore
  /\ UNCHANGED <<owned, state>>

GiveBack ==
  /\ OneMore
  /\ owned' = 1
  /\ UNCHANGED state

\* Native adopt: moves the handle's count whoever keeps the entry, else takes one.
Adopt ==
  IF owned = 1
  THEN owned' = 0 /\ UNCHANGED <<low, overflow, state>>
  ELSE OneMore /\ UNCHANGED <<owned, state>>

\* Native drop_count: the overflow is spent first, and a last count releases.
DropCount ==
  /\ low # 0
  /\ IF low = Saturated /\ overflow > 0
     THEN overflow' = overflow - 1 /\ UNCHANGED <<low, state>>
     ELSE /\ low' = low - 1
          /\ IF low' = 0 THEN state' = "released" ELSE UNCHANGED state
          /\ UNCHANGED overflow

\* Fault: JavaScript counts any byte above one down itself.
DropSaturated ==
  /\ Value > owned
  /\ IF low > 1
     THEN low' = low - 1 /\ UNCHANGED <<overflow, state>>
     ELSE DropCount
  /\ UNCHANGED owned

\* drop: JavaScript counts a byte down itself, but for a last or a saturated
\* one.  A place drops only the count it holds, never the handle's.
Drop ==
  /\ Value > owned
  /\ IF low > 1 /\ low # Saturated
     THEN low' = low - 1 /\ UNCHANGED <<overflow, state>>
     ELSE DropCount
  /\ UNCHANGED owned

\* Native release of the handle's count.
ReleaseOwned ==
  /\ owned = 1
  /\ owned' = 0
  /\ DropCount

Next ==
  \/ HoldMoving
  \/ \E kept \in BOOLEAN : HoldTaking(kept)
  \/ GiveBack
  \/ Adopt
  \/ Drop
  \/ ReleaseOwned

Spec == Init /\ [][Next]_byteVars

\* The low bits and the overflow together, whichever side of the boundary counts.
Count == INSTANCE RecordCount WITH count <- Value

\* The count byte and its overflow map keep the entry's count: no hold past the
\* saturation is lost, and the entry is released by its last drop, not sooner.
CountRefines == Count!Spec
=============================================================================
