\* An activation suspended while the grant is revoked.
SPECIFICATION KeySpec
CONSTANTS
  KeyIds = {k1, k2}
  AuthorizationIds = {a1}
  GrantIds = {g1}
  CallIds = {c1, c2}
  Times = {1, 2, 3}
  MaxObjects = 2
SYMMETRY KeySymmetry
PROPERTIES RevocationIsFinal
CHECK_DEADLOCK FALSE
