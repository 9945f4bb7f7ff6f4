\* Two requests at a time on one bundle; the database under three processes;
\* two puts and two deletes of one object in each store.
SPECIFICATION Spec
CONSTANTS
  x1 = x1
  x2 = x2
  x3 = x3
  Slots = {c1, c2}
  CallIds = {c1, c2}
  MaxPreparations = 2
  MaxReplicas = 2
  KeyIds = {"k1"}
  AuthorizationIds = {"a1", "a2"}
  GrantIds = {"g1"}
  Times = {1, 2}
  MaxObjects = 2
  IdempotencyKeys = {"i1"}
  PrepareInputs <- Inputs
  Authorizations <- Proofs
  Windows <- GrantWindows
  AttestationNonces = {m1, m2}
  Nonces = {n1, n2}
SYMMETRY Symmetry
CONSTRAINT Focus
INVARIANTS PreparationIsIdempotent ReplicatedUnlessOverlapped
PROPERTIES  CleanupIsFinal ImplementsOneUse EveryStoreIsAtomic
CHECK_DEADLOCK FALSE
