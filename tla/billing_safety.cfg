\* One user, three registrations racing: two of them in flight while a third is
\* stored, so that clean-up, compensation and replacement overlap.
SPECIFICATION Spec
CONSTANTS
  Users = {u1}
  CustomerKeys = {k1, k2, k3}
  Requests = {r1, r2, r3}
  Lapsing = {k1}
  NoUser = NoUser
  NoKey = NoKey
  NoRequest = NoRequest
SYMMETRY Symmetry
INVARIANTS
  TypeOK
  OneActiveMethod
  IssuedOncePerCustomerKey
  ActiveMethodChargeable
  LiveKeyAccountedFor
  SessionsAgree
