SPECIFICATION Spec
CONSTANTS
  StmtOps = {}
  BatchOps = {}
INVARIANTS
  EverythingClosed
\* The store is initialized and closed in the end.
CHECK_DEADLOCK FALSE
