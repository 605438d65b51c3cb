SPECIFICATION Spec
CONSTANTS
  AdminIds = {a1, a2}
  Emails = {e1, e2}
  Passwords = {w1, w2}
  Tokens = {t1}
  Addresses = {k1}
  Requests = {r1, r2}
  NoAdmin = NoAdmin  NoSession = NoSession  NoRequest = NoRequest
  TTL = 1
  Window = 2
  Burst = 2
  MaxTime = 3
  MaxCrashes = 1
INVARIANTS TypeOK UniqueEmails RateLimited
PROPERTIES GoneForGood SessionSpeaksForEmail DenialsJustified
CHECK_DEADLOCK FALSE
SYMMETRY Symmetry
