SPECIFICATION FairSpec
CONSTANTS
  StmtOps = {g1}
  BatchOps = {b1}
INVARIANTS
  TypeOK
  ClosedForGood
  ReadyMeansUsable
PROPERTIES
  NoCrashInService
  CloseReturns
  ReadyEventually
\* The store is initialized, closed and all requests answered in the end.
CHECK_DEADLOCK FALSE
