SPECIFICATION Spec
CONSTANTS
  Records = {r1, r2}
  Nil = Nil
  MaxTrees = 2
  MaxSideRecords = 2
  MaxWritten = 2
SYMMETRY RecordSymmetry
INVARIANTS TypeOK LinksCounted NamedTreesLive OnlyNamedReachable
CHECK_DEADLOCK FALSE
