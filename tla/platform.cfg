\* A process of each kind that restarts once; a window of 2 requests in 2 units of time.
SPECIFICATION Spec
CONSTANTS
  Nil = Nil
  ann = ann
  Ann = Ann
  bob = bob
  dev = dev
  own = own
  foreign = foreign
  none = none
  elsewhere = elsewhere
  Emails = {ann, Ann, bob, dev}
  Lower <- MCLower
  DevEmail = dev
  Tenants = {t1, t2, t3, t4}
  Keys = {k1, k2, k3, k4}
  JwtKeys = {j1, j2}
  RestKeys <- MCRestKeys
  Headers = {own, foreign, none}
  Configured = configured
  Rpm = 2
  Window = 2
  SessionTTL = 1
  MaxTime = 3
  MaxRestarts = 1
  MaxRequests = 5
INVARIANTS
  TypeOK
  IndexesAgree
  
  RateBounded
PROPERTIES
  RevocationHolds
  RefusedOnlyWhenFull
SYMMETRY Symmetry
CHECK_DEADLOCK FALSE
