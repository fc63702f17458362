---------------------------- MODULE RecordCount -----------------------------
(***************************************************************************)
(* What the count of one entry of a built arena promises: a number of      *)
(* counts, one of them its handle's while it is owned, and an entry that   *)
(* is live exactly until the last of them is dropped.                      *)
(***************************************************************************)
EXTENDS Naturals

VARIABLES
  count,  \* the counts held
  owned,  \* 1 while the handle a builder returned holds one of them, else 0
  state   \* "live", or "released" once no count is left

countVars == <<count, owned, state>>

\* A record its handle holds, or a run its list's cell does.
Init == count = 1 /\ owned \in {0, 1} /\ state = "live"

\* A place takes the handle's count.
Move == state = "live" /\ owned = 1 /\ owned' = 0 /\ UNCHANGED <<count, state>>

\* A place takes a count of its own.
Take == state = "live" /\ count' = count + 1 /\ UNCHANGED <<owned, state>>

\* The handle gets a count back, or gets one it did not have.
GiveBack == state = "live" /\ count' = count + 1 /\ owned' = 1 /\ UNCHANGED state

\* A place drops its count, the last one releasing the entry.
Drop ==
  /\ count > owned
  /\ count' = count - 1
  /\ IF count' = 0 THEN state' = "released" ELSE UNCHANGED state
  /\ UNCHANGED owned

\* The handle's count is released.
ReleaseOwned ==
  /\ owned = 1
  /\ owned' = 0
  /\ count' = count - 1
  /\ IF count' = 0 THEN state' = "released" ELSE UNCHANGED state

Next == Move \/ Take \/ GiveBack \/ Drop \/ ReleaseOwned

Spec == Init /\ [][Next]_countVars
=============================================================================
