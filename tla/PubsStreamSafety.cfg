SPECIFICATION Spec
CONSTANTS
  Conns = {c1, c2}
  Flaky = {c1, c2}
  Hooks = {h1}
  Topics = {t1, t2}
  Broadcast = broadcast
  Capacity = 1
  MaxPub = 1
SYMMETRY Symmetry
INVARIANTS
  TypeOK
  NoSendOnClosed
  ServedOrReleased
  HubInv
PROPERTIES
  ImplementsFeed
  AckAfterEffect
\* Clients may fall silent and the plugin closes: the stream may really stop.
CHECK_DEADLOCK FALSE
