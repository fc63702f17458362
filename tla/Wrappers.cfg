SPECIFICATION Spec
CONSTANTS
  outer = outer
  inner = inner
  leaf = leaf
  envelope = envelope
  content = content
  Nodes <- MCNodes
  Children <- MCChildren
  Lists <- MCLists
  Index <- MCIndex
  Nil = Nil
  MaxWrappers = 4
INVARIANTS TypeOK OneWrapper FoundWhole NoStaleEntry
PROPERTIES ThrownFillUndone
