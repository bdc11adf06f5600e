SPECIFICATION FairHttpSpec
CONSTANTS
  r1 = r1
  r2 = r2
  rest = rest
  notify = notify
  old = old
  t1 = t1
  alice = alice
  entry = entry
  bob = bob
  None = None
  Registered = {"grapi", "pubs", "kvs"}
  Enabled <- SomePlugins
  Finders = {rest, notify}
  Owner <- GrapiOwner
  ErrCap = 2
  Requests = {r1, r2}
  Tokens <- SomeTokens
  Default <- Defaults
  Setting <- GrapiConfigured
  ApiV0 = TRUE
  Users = {alice, entry, bob}
  Topics = {t1}
  Earlier <- Registered1
  Calls <- SomeCalls
INVARIANTS
  HttpTypeOK
  EachClosedOnce
  RequestsMeetPlugins
  Authorized
  IdentityIsTokens
  EventsNameTheirHook
PROPERTIES
  ErrorEndsServe
  SignalEndsServe
\* Serve returns.
CHECK_DEADLOCK FALSE
