SPECIFICATION FairSpec
CONSTANTS
  Conns = {c2}
  Flaky = {c2}
  Hooks = {h1}
  Topics = {t1}
  Broadcast = broadcast
  Capacity = 1
  MaxPub = 3
PROPERTIES
  FailedConnectionIsReleased
\* The hub may block for ever, which is what this run shows.
CHECK_DEADLOCK FALSE
