SPECIFICATION FairSpec
CONSTANTS
  Conns = {c1, c2}
  Flaky = {}
  Hooks = {h1}
  Topics = {t1}
  Broadcast = broadcast
  Capacity = 1
  MaxPub = 2
PROPERTIES
  HubResponsive
  EventsReachSubscribers
  CloseEndsForwarders
\* Clients may fall silent and the plugin closes: the stream may really stop.
CHECK_DEADLOCK FALSE
