CONSTANTS
  Scopes = {u1, u2}
  Clients = {c1, c2}
  Limit = 1
  Window = 1
  Keep = 2
  MaxWait = 1
  MaxTime = 3
  Users = {u1, u2}
  Keys = {k1, k2, k3}
  Masters = {m1, m2}
  Passwords = {p1}
  MaxAge = 1
  MaxClock = 2
  MaxTokens = 2
  MaxSalt = 2
  Handlers = {k1, k2, k3}
  Ids = {u1, u2}
  Emails = {m1, m2}
  Attempts = 2
  Starter = 3
  MaxFaults = 2
SYMMETRY Symmetry
SPECIFICATION PortalSpec
INVARIANTS
  LimitIsExact
  OnePortalKey
  KeysStaySafe
  RegistrationsAreWhole
PROPERTIES
  ChangeEndsSessions
  SessionsLiveOnce
CHECK_DEADLOCK FALSE
