SPECIFICATION Spec
CONSTANTS
  Users = {u1}
  Families = {f1}
  Calls = {c1, c2, c3}
  NoUser = NoUser
  NoToken = NoToken
  NoCall = NoCall
SYMMETRY Symmetry
INVARIANTS
  ReuseRevokesFamily
