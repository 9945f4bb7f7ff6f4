CONSTANTS
    seller = seller buyer = buyer resolver = resolver
    sellerOrg = sellerOrg buyerOrg = buyerOrg resolverOrg = resolverOrg
    market1 = market1 market2 = market2 battery = battery
    l1 = l1 l2 = l2 o1 = o1 o2 = o2 a1 = a1 a2 = a2 x1 = x1 x2 = x2 x3 = x3
    Zero = zero NoModule = zero AnyScope = anyScope
    Accounts <- MCAccounts
    OrganizationIds <- MCOrganizations
    Grants <- MCGrants
    InitialOwner <- MCInitialOwner
    InitialMarketplace = market1
    ModuleTypes <- MCModuleTypes
    ModuleTypeOf <- MCModuleTypeOf
    PayoutAddresses = {seller}
    RefundAddresses = {buyer}
    SubjectIds = {battery}
    ProposalIds = {}
    MaxTransitions = 3
    Marketplaces = {market1}
    Modules = {market1}
    ListingIds = {l1, l2}
    OfferIds = {o1, o2}
    AgreementIds = {a1, a2}
    AggregateIds = {l1, l2, a1, a2}
    ActionIds = {x1, x2, x3}
    CriticalBundles <- ResaleBundles
    Revocable <- ResolverGrant
    Governed = {}
    Candidates = {}
    Amounts = {1}
    Deadlines = {2, 3}
    MaxTimestamp = 4
    AcceptanceWindow = 1
    ReviewDelay = 1
SPECIFICATION Spec
INVARIANTS
    TypeOK
    LockMatchesLiveListing
    SellerOwnsWhileListed
    AgreementMirrorsListing
    Solvent
    
PROPERTY
    MoneyAndTitleMoveTogether
CHECK_DEADLOCK FALSE
