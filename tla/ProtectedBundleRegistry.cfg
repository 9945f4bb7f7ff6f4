\* One organization, two accounts (one deploys), two bundles and domain keys.
SPECIFICATION BundleSpec
CONSTANTS
  org = org
  member = member
  credential = credential
  deployer = deployer
  b1 = b1
  b2 = b2
  d1 = d1
  d2 = d2
  t1 = t1
  p1 = p1
  Zero = Zero
  MaxTimestamp = 2
  OrganizationIds = {org}
  Accounts = {member, deployer}
  CredentialIds = {credential}
  Capabilities = {k1}
  ResourceScopes = {}
  ProfileIds = {pr}
  ProfileVersions = {1}
  ProfileDigests = {x1}
  RepositoryIds = {r1}
  GrantTimes = {0, 1}
  BundleKeys = {b1, b2}
  DomainKeys = {d1, d2}
  BundleTypes = {t1}
  PayloadCommitments = {p1}
  Envelopes = {e1, e2}
  Attestations <- MCAttestations
  ReceiptNonces = {n1, n2}
CONSTRAINT GovernanceOrBundles
INVARIANTS EveryBundleIsAccountedFor
PROPERTIES OneActorPerCredential ImplementsConfirmedLinks
