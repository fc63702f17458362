SPECIFICATION KeepSpec
CONSTANTS
  Records = {r1, r2, r3}
  Cells = {c1}
  Sides = {}
  Nil = Nil
  MaxFrames = 1
  MaxCommits = 1
  MaxChunks = 1
  InterceptorsWrite = FALSE
INVARIANT KeptOutlives
