SPECIFICATION Spec
CONSTANTS
  empty = empty
  s1 = s1
  s2 = s2
  binary = binary
  text = text
  broken = broken
  Requests = {r1, r2}
  Owners = {o1, o2}
  Clients = {c1, c2}
  Segments = {empty, s1, s2}
  Empty = empty
  Keys <- SomeKeys
  Values = {binary, text, broken}
  Json = {text, broken}
  Malformed = {broken}
  Length <- Lengths
  None = None
  MaxBatch = 2
  Limit = 2
SYMMETRY Symmetry
INVARIANTS
  TypeOK
  RecursiveFindsCollection
PROPERTIES
  ImplementsDocs
\* All requests are answered in the end.
CHECK_DEADLOCK FALSE
