SPECIFICATION Spec
CONSTANTS
  Leaves = {l1, l2}
  Nil = Nil
  MaxNumbers = 3
  Room = 2
  TextRoom = 1
  PruneAt = 1
  MaxMade = 4
  MaxWritten = 1
SYMMETRY LeafSymmetry
INVARIANTS TypeOK NumbersApart ViewsCurrent TextsHeld SidesFaithful DeferredFaithful
PROPERTY ReleasesOwn
