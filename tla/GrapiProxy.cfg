SPECIFICATION FairSpec
CONSTANTS
  Kinds = {rest}
  Workers = {w1, w2}
  Requests = {r1, r2}
  Pause = 2
  Burst = 2
  MaxRestarts = 2
INVARIANTS
  TypeOK
  EveryWorkerServes
  SnapshotStays
PROPERTIES
  ProxyAppears
  FinderEnds
