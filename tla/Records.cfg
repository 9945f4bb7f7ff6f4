\* The contract with one claim of up to three versions, one verification and one
\* dispute, three audit batches; the sizes of the others are in MCRecords.
SPECIFICATION RecordsSpec
CONSTANTS
  Zero = Zero
  issuer = issuer
  colleague = colleague
  verifier = verifier
  issuerOrg = issuerOrg
  verifierOrg = verifierOrg
  x = x
  y = y
  z = z
  AnyScope = AnyScope
  PossibleLinks <- MCLinks
  Grants <- MCGrants
  ClaimKeys = {c1}
  AssertionKeys = {a1}
  DisputeKeys = {d1}
  MaxVersion = 3
  BatchIds = {b1, b2, b3}
  Commitments = {h1, h2}
  Submitters = {u1, u2}
  MaxSequence = 1
INVARIANTS RecordsAreBacked OffChainRecordsAgree ProjectionIsReplay OneChain
PROPERTIES EveryRecordImplementsLifecycle
CHECK_DEADLOCK FALSE
