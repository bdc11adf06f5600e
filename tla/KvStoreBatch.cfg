SPECIFICATION Spec
CONSTANTS
  empty = empty
  s1 = s1
  s2 = s2
  binary = binary
  text = text
  broken = broken
  Requests = {r1}
  Owners = {o1}
  Clients = {c1}
  Segments = {empty, s1, s2}
  Empty = empty
  Keys <- SomeKeys
  Values = {binary, text}
  Json = {text}
  Malformed = {}
  Length <- Lengths
  None = None
  MaxBatch = 2
  Limit = 2
SYMMETRY Symmetry
INVARIANTS
  GivenIsStored
\* All requests are answered in the end.
CHECK_DEADLOCK FALSE
