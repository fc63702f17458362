SPECIFICATION Spec
CONSTANTS
  Records = {r1, r2}
  Cells = {c1}
  Sides = {}
  Nil = Nil
  MaxFrames = 1
  MaxCommits = 1
  MaxChunks = 2
  InterceptorsWrite = FALSE
INVARIANT CloseNeverRefused
