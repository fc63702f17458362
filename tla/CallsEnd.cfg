SPECIFICATION FairSpec
CONSTANTS
  Records = {r1, r2, r3}
  Cells = {c1}
  Sides = {}
  Nil = Nil
  MaxFrames = 1
  MaxCommits = 1
  MaxChunks = 2
  InterceptorsWrite = FALSE
PROPERTY CallsEnd
