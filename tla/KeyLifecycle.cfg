\* Two suspended calls overlap on one grant or on two controller authorizations.
SPECIFICATION KeySpec
CONSTANTS
  KeyIds = {k1, k2}
  AuthorizationIds = {a1, a2}
  GrantIds = {g1}
  CallIds = {c1, c2}
  Times = {1, 2, 3}
  MaxObjects = 2
SYMMETRY KeySymmetry
CONSTRAINT GrantsOrControllers
 
PROPERTIES RevocationIsFinalUnlessOverlapped ControllerPathSurvives
CHECK_DEADLOCK FALSE
