SPECIFICATION KeepSpec
CONSTANTS
  Records = {r1, r2, r3}
  Cells = {c1}
  Sides = {}
  Nil = Nil
  MaxFrames = 2
  MaxCommits = 1
  MaxChunks = 2
  InterceptorsWrite = TRUE
SYMMETRY RecordSymmetry
INVARIANTS TypeOK CountsCover NoDangling KeptLives
PROPERTY FreedStaysFreed
