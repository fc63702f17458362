----------------------------- MODULE BuiltKeeps -----------------------------
(***************************************************************************)
(* BuiltArena with the claims of those who keep nodes: a history variable  *)
(* the arena has no counterpart of.  A claim on a node starts at its keep  *)
(* and ends when its holder releases the node, has a builder place it once *)
(* no scope keeps it, or writes it to a side, or when the build that made  *)
(* it throws.  The copy an edit makes of a live node and a scope's close   *)
(* end no claim.                                                           *)
(***************************************************************************)
EXTENDS BuiltArena

VARIABLE claims

keepVars == <<vars, claims>>

OnSide(x) == \E p \in Holders(x) : p[2] \in Sides

\* The records a builder was asked to place, those an edit of a released node
\* copies included.
Placed ==
  IF call.op = "copy" /\ count[Top.src] > 0 THEN {}
  ELSE {words'[p] : p \in {q \in counted' : q \notin counted \/ words[q] # words'[q]}}

JustKept ==
  {x \in Records : \E i \in 1..Len(commits') :
     x \in commits'[i].kept /\ (i > Len(commits) \/ x \notin commits[i].kept)}

\* The records their holder, or the build that made them, released.
LetGo == IF call.op \in {"none", "free"} THEN {x \in owned \ owned' : count'[x] < count[x]} ELSE {}

KeepInit == Init /\ claims = {}

KeepNext ==
  /\ Next
  /\ claims' = {x \in claims \cup JustKept : ~OnSide(x)'} \ (LetGo \cup {x \in Placed : ~Kept(x)})

KeepSpec == KeepInit /\ [][KeepNext]_keepVars

\* engine.scope's keep: whatever is placed, edited, thrown and released around it,
\* a node an open scope keeps is live until its holder lets it go.
KeptLives == \A x \in claims : Kept(x) => count[x] > 0

\* The same past the scope's close, as CommitScope.keep documents it: a kept node
\* outlives every parent it sits in.
KeptOutlives == \A x \in claims : count[x] > 0
=============================================================================
