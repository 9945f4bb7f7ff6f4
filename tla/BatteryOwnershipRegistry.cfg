\* Two batteries and two proposals in depth, four subjects in breadth.
CONSTANTS
    MaxTimestamp = 1
    SubjectIds = {s1, s2, s3, s4}
    OrganizationIds = {org1, org2}
    Accounts = {acct}
    Marketplaces = {market}
    ProposalIds = {p1, p2}
    Zero = zero
    MaxTransitions = 3
SPECIFICATION RegistrySpec
SYMMETRY Symmetric
CONSTRAINT DepthOrBreadth
INVARIANTS
    OwnershipHistoryChains
    RootsAreRegisteredPacks
PROPERTY
    OwnershipChangesUnderLock
