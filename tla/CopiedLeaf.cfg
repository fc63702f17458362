SPECIFICATION Spec
CONSTANTS
  Records = {r1, r2}
  Nil = Nil
  MaxTrees = 2
  MaxSideRecords = 1
  MaxWritten = 2
SYMMETRY RecordSymmetry
INVARIANT LeafTreesLive

CHECK_DEADLOCK FALSE
