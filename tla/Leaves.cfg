SPECIFICATION Spec
CONSTANTS
  Comments = {c1}
  Holders = {h1, h2}
  Leaves = {l1}
  Nil = Nil
  MaxWrites = 2
  MaxFrames = 2
  MaxCommits = 1
  MaxTaints = 1
SYMMETRY SideSymmetry
INVARIANTS TypeOK SidesCover SidesExact ParksReclaimable
PROPERTIES RollbackRestoresLeaves KeptLeafStaysHeld
