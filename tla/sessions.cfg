SPECIFICATION FairSpec
CONSTANTS
  Users = {u1}
  Families = {f1, f2}
  Calls = {c1, c2, c3}
  NoUser = NoUser
  NoToken = NoToken
  NoCall = NoCall
INVARIANTS
  TypeOK
  OneLiveTokenPerFamily
  RotationChain
  RevocationMissesOnlyRotated
PROPERTIES
  DeadFamilyStaysDead
  EveryCallEnds
