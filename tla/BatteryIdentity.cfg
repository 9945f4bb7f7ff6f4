CONSTANTS
    MaxTimestamp = 1
    SubjectIds = {s1, s2, s3}
    OrganizationIds = {org1}
    Accounts = {acct}
    Marketplaces = {market}
    ProposalIds = {p1}
    Zero = zero
    MaxTransitions = 1
SPECIFICATION RegistrySpec
PROPERTY
    SubjectIdentityStable
