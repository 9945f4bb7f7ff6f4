--------------------------- MODULE MCMarketplace ---------------------------
(* Finite instances of Marketplace for TLC: one seller, one buyer, one      *)
(* resolver, each with the grants its role needs.                           *)
EXTENDS Marketplace, TLC

CONSTANTS
    seller, buyer, resolver, sellerOrg, buyerOrg, resolverOrg,
    market1, market2, battery, l1, l2, o1, o2, a1, a2, x1, x2, x3

MCAccounts == {seller, buyer, resolver}
MCOrganizations == {sellerOrg, buyerOrg, resolverOrg}

Grant(account, org, capability) ==
    [account |-> account, organization |-> org, capability |-> capability, scope |-> AnyScope]

MCGrants ==
    {Grant(seller, sellerOrg, "marketplace.listing.create"),
     Grant(buyer, buyerOrg, "marketplace.listing.create"),
     Grant(buyer, buyerOrg, "marketplace.offer.submit"),
     Grant(seller, sellerOrg, "marketplace.offer.submit"),
     Grant(seller, sellerOrg, "logistics.record"),
     Grant(buyer, buyerOrg, "dispute.open-transaction"),
     Grant(resolver, resolverOrg, "dispute.resolve-transaction")}

ResolverGrant == {Grant(resolver, resolverOrg, "dispute.resolve-transaction")}
NoGrants == {}

Bundle(id, bundleType, account) ==
    [domainKey |-> id, bundleType |-> bundleType, controller |-> account]

ActionBundles ==
    {Bundle(x1, "logistics", seller), Bundle(x2, "logistics", seller), Bundle(x3, "dispute", buyer)}

(* The buyer of the first sale may offer the battery again.                 *)
ResaleBundles == ActionBundles \cup
    {Bundle(l1, "listing", seller), Bundle(l2, "listing", buyer),
     Bundle(a1, "agreement", seller), Bundle(a2, "agreement", buyer)}

(* The seller may list the battery again, here or on another marketplace.   *)
RelistBundles == ActionBundles \cup
    {Bundle(id, "listing", seller) : id \in {l1, l2}} \cup
    {Bundle(id, "agreement", seller) : id \in {a1, a2}}

MCInitialOwner == [b \in SubjectIds |-> sellerOrg]
MCModuleTypes == {"marketplace"}
MCModuleTypeOf == [m \in Marketplaces |-> "marketplace"]
============================================================================
