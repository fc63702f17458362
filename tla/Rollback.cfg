SPECIFICATION RollbackSpec
CONSTANTS
  Records = {r1, r2, r3, r4}
  Cells = {c1}
  Sides = {}
  Nil = Nil
  MaxFrames = 2
  MaxCommits = 1
  MaxChunks = 1
  InterceptorsWrite = FALSE
SYMMETRY RecordSymmetry
INVARIANT CountsExact
PROPERTY RollbackRestores
