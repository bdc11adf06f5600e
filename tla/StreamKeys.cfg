SPECIFICATION FairSpec
CONSTANTS
  Keys = {k1, k2}
  Requests = {r1, r2}
  Users = {u1, u2}
  NoUser = noUser
  NoKey = noKey
  Expiration = 1
  Interval = 2
INVARIANTS
  TypeOK
  SingleUse
  ServedForUser
  ActiveIsServing
  LifetimeBounded
  KeyInv
  TimeInv
PROPERTIES
  PurgeSparesFresh
  KeysGo
