SPECIFICATION FairSpec
CONSTANTS
  Addresses = {a1}
  MaxCalls = 3
  MaxAttempts = 2
  MaxMfaAttempts = 2
  LockTicks = 1
  ChallengeTicks = 2
  MaxClock = 2
  Earlier = Earlier
  Nobody = Nobody
  None = None
INVARIANTS
  RowsConsistent
  GuessesBounded
  LogoutEndsEverySession
  ReuseEndsFamily
PROPERTIES
  EveryCallEnds
CHECK_DEADLOCK FALSE
