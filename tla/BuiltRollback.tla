--------------------------- MODULE BuiltRollback ----------------------------
(***************************************************************************)
(* BuiltArena with what each build found when it began: a history variable *)
(* the arena has no counterpart of.                                        *)
(***************************************************************************)
EXTENDS BuiltArena

VARIABLE ownedAt  \* per scope of `frames', the records owned when it opened

rollbackVars == <<vars, ownedAt>>

RollbackInit == Init /\ ownedAt = <<>>

RollbackNext ==
  /\ Next
  /\ ownedAt' = IF Len(frames') > Len(frames) THEN Append(ownedAt, owned)
                ELSE SubSeq(ownedAt, 1, Len(frames'))

RollbackSpec == RollbackInit /\ [][RollbackNext]_rollbackVars

Throws == call.op \in {"giveback", "free"}

\* A build that throws leaves every handle with the count it had when the build
\* began: an argument already placed in the thrown build, or in a build inside it,
\* is its handle's again, and no record the build made is anyone's.  (An edit of a
\* released record may copy cells whose records are gone.)
RollbackRestores ==
  [][Throws /\ frames' # frames /\ (Top.src # Nil => count[Top.src] > 0) =>
       owned' = ownedAt[Len(ownedAt)]]_rollbackVars
=============================================================================
