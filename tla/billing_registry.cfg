\* Two users, two completions: nothing one user does reaches the card of the
\* other, and calls that wait for each other's lock all end.
SPECIFICATION FairSpec
CONSTANTS
  Users = {u1, u2}
  CustomerKeys = {k1, k2}
  Requests = {r1, r2}
  Lapsing = {k1}
  NoUser = NoUser
  NoKey = NoKey
  NoRequest = NoRequest
PROPERTIES
  StatusMovesForward
  ImplementsRegistry
  EveryCallAnswered
