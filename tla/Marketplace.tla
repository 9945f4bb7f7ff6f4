---------------------------- MODULE Marketplace ----------------------------
(***************************************************************************)
(* contracts/Marketplace.sol composed with the two registries its calls    *)
(* change: BatteryOwnershipRegistry (locks, recorded owners) and           *)
(* DeploymentRegistry (which marketplace is active, who created an id).    *)
(* Several marketplace contracts share the registries, as they do when one *)
(* module replaces another; every map of the contract is indexed by the    *)
(* contract m that owns it.                                                *)
(*                                                                         *)
(* One action is one transaction.  Every external function is nonReentrant *)
(* and a revert undoes the whole call, the registry calls included, so a   *)
(* call is atomic and a call that would revert is not enabled.             *)
(*                                                                         *)
(* What the two remaining registries answer is abstracted.  authority is   *)
(* the set of grants in force (AuthorityProfileRegistry): governance and   *)
(* time change it under the marketplace's feet.  CriticalBundles is the    *)
(* set of confirmed decision-critical bundles (ProtectedBundleRegistry),   *)
(* which only grows (ConfirmedLinks), so a bundle that is committed later  *)
(* only disables steps earlier.                                            *)
(***************************************************************************)
EXTENDS BatteryOwnershipRegistry, FiniteSetsExt

-----------------------------------------------------------------------------
(* contracts/DeploymentRegistry.sol: which contract is the active module   *)
(* of each type, the proposal under review for a type, and the write-once  *)
(* binding of an aggregate identifier to the module that created it.       *)

CONSTANTS
    ModuleTypes,     \* "evidence", "assessment", "marketplace", "audit"
    Modules,         \* contracts with code and a nonzero compatibility version
    ModuleTypeOf,    \* IDomainModule.moduleType() of each
    AggregateIds,    \* bytes32 identifiers bound by bindAggregateOrigin
    ReviewDelay,     \* seconds between proposal and activation
    NoModule         \* address(0)

ASSUME ModuleAssumption ==
    /\ ModuleTypeOf \in [Modules -> ModuleTypes]
    /\ ReviewDelay \in Nat
    /\ NoModule \notin Modules

VARIABLES activeModules, proposals, originModule

deploymentVars == <<activeModules, proposals, originModule>>

NoModuleProposal == [module |-> NoModule, activateAfter |-> 0]

DeploymentTypeOK ==
    /\ activeModules \in [ModuleTypes -> Modules \cup {NoModule}]
    /\ proposals \in [ModuleTypes -> [module : Modules \cup {NoModule}, activateAfter : Timestamps]]
    /\ originModule \in [AggregateIds -> Modules \cup {NoModule}]

(* A second proposal for the type overwrites the first and its delay.      *)
proposeModule(t, module) ==
    /\ ModuleTypeOf[module] = t
    /\ AddFits(now, ReviewDelay)
    /\ proposals' = [proposals EXCEPT ![t] =
            [module |-> module, activateAfter |-> now + ReviewDelay]]
    /\ UNCHANGED <<activeModules, originModule>>

activateModule(t) ==
    /\ proposals[t].module # NoModule
    /\ now >= proposals[t].activateAfter
    /\ activeModules' = [activeModules EXCEPT ![t] = proposals[t].module]
    /\ proposals' = [proposals EXCEPT ![t] = NoModuleProposal]
    /\ UNCHANGED originModule

Mutant_rebindOrigin(m, id) ==
    /\ \E t \in ModuleTypes : activeModules[t] = m
    /\ originModule' = [originModule EXCEPT ![id] = m]
    /\ UNCHANGED <<activeModules, proposals>>

(* Called by a module on an identifier it is creating (msg.sender = m).    *)
bindAggregateOrigin(m, id) ==
    /\ originModule[id] = NoModule
    /\ \E t \in ModuleTypes : activeModules[t] = m
    /\ originModule' = [originModule EXCEPT ![id] = m]
    /\ UNCHANGED <<activeModules, proposals>>

-----------------------------------------------------------------------------
(* The marketplaces.                                                       *)

CONSTANTS
    ListingIds, OfferIds, AgreementIds, ActionIds,
    Amounts,            \* nonzero values of wei
    Deadlines,          \* timestamps callers pass as expiries and deadlines
    AcceptanceWindow,   \* acceptanceWindow, nonzero by the constructor
    Grants,             \* [account, organization, capability, scope]
    Revocable,          \* the grants that governance may revoke and restore
    CriticalBundles,    \* [domainKey, bundleType, controller]
    AnyScope,           \* the zero scope: the grant covers every scope
    Governed,           \* the marketplaces governance allows and forbids
    Candidates,         \* the marketplaces governance proposes and activates
    PayoutAddresses,    \* accounts sellers name as payout address
    RefundAddresses,    \* accounts buyers name as refund address
    InitialOwner,       \* recorded owner of each battery when trading starts
    InitialMarketplace  \* the marketplace the deployment activates first

ASSUME MarketplaceAssumption ==
    /\ Marketplaces \subseteq Modules
    /\ ListingIds \cup AgreementIds \subseteq AggregateIds
    /\ "marketplace" \in ModuleTypes
    /\ Zero \notin ListingIds \cup OfferIds \cup AgreementIds \cup ActionIds
    /\ NoModule = Zero
    /\ Amounts \subseteq Nat \ {0}
    /\ Deadlines \subseteq Timestamps
    /\ AcceptanceWindow \in Nat \ {0}
    /\ Revocable \subseteq Grants
    /\ Governed \cup Candidates \subseteq Marketplaces
    /\ PayoutAddresses \cup RefundAddresses \subseteq Accounts
    /\ InitialOwner \in [SubjectIds -> OrganizationIds]
    /\ InitialMarketplace \in Marketplaces

VARIABLES
    authority,            \* the grants in force
    listings, offers, agreements,
    protectedActions,     \* action ids already used
    withdrawableCredits,
    balance               \* wei held by the contract

marketVars == <<listings, offers, agreements, protectedActions, withdrawableCredits, balance>>
vars == <<now, registryVars, deploymentVars, authority, marketVars>>

NoListing == [batteryId |-> Zero, sellerOrganizationId |-> Zero, acceptedOfferId |-> Zero,
              seller |-> Zero, sellerPayoutAddress |-> Zero, expiresAt |-> 0, state |-> "Unset"]
NoOffer == [listingId |-> Zero, buyerOrganizationId |-> Zero, buyer |-> Zero,
            buyerRefundAddress |-> Zero, amount |-> 0, expiresAt |-> 0, state |-> "Unset"]
NoAgreement == [listingId |-> Zero, offerId |-> Zero, batteryId |-> Zero,
                sellerOrganizationId |-> Zero, buyerOrganizationId |-> Zero, disputeId |-> Zero,
                seller |-> Zero, buyer |-> Zero, sellerPayoutAddress |-> Zero,
                buyerRefundAddress |-> Zero, amount |-> 0, confirmationDeadline |-> 0,
                deliveryDeadline |-> 0, state |-> "Unset"]

ListingStates == {"Unset", "Active", "Matched", "Withdrawn", "Expired", "ClosedSettled", "ClosedCancelled"}
OfferStates == {"Unset", "Submitted", "Accepted", "Rejected", "Withdrawn", "Expired"}
UnfundedStates == {"AwaitingBuyerConfirmation", "AwaitingFunding"}
FundedStates == {"Funded", "InDelivery", "Delivered", "Accepted", "Disputed", "TimedOutReferred"}
ClosedStates == {"Settled", "Cancelled"}
AgreementStates == {"Unset"} \cup UnfundedStates \cup FundedStates \cup ClosedStates

Listing == [batteryId : SubjectIds \cup {Zero}, sellerOrganizationId : OrganizationIds \cup {Zero},
            acceptedOfferId : OfferIds \cup {Zero}, seller : Accounts \cup {Zero},
            sellerPayoutAddress : Accounts \cup {Zero}, expiresAt : Timestamps, state : ListingStates]
Offer == [listingId : ListingIds \cup {Zero}, buyerOrganizationId : OrganizationIds \cup {Zero},
          buyer : Accounts \cup {Zero}, buyerRefundAddress : Accounts \cup {Zero},
          amount : Nat, expiresAt : Timestamps, state : OfferStates]
Agreement == [listingId : ListingIds \cup {Zero}, offerId : OfferIds \cup {Zero},
              batteryId : SubjectIds \cup {Zero}, sellerOrganizationId : OrganizationIds \cup {Zero},
              buyerOrganizationId : OrganizationIds \cup {Zero}, disputeId : ActionIds \cup {Zero},
              seller : Accounts \cup {Zero}, buyer : Accounts \cup {Zero},
              sellerPayoutAddress : Accounts \cup {Zero}, buyerRefundAddress : Accounts \cup {Zero},
              amount : Nat, confirmationDeadline : Timestamps, deliveryDeadline : Timestamps,
              state : AgreementStates]

MarketTypeOK ==
    /\ authority \subseteq Grants
    /\ listings \in [Marketplaces -> [ListingIds -> Listing]]
    /\ offers \in [Marketplaces -> [OfferIds -> Offer]]
    /\ agreements \in [Marketplaces -> [AgreementIds -> Agreement]]
    /\ protectedActions \in [Marketplaces -> SUBSET ActionIds]
    /\ withdrawableCredits \in [Marketplaces -> [Accounts -> Nat]]
    /\ balance \in [Marketplaces -> Int]

(* Every variable keeps its type.                                          *)
TypeOK == now \in Timestamps /\ RegistryTypeOK /\ DeploymentTypeOK /\ MarketTypeOK

-----------------------------------------------------------------------------
(* Checks shared by the functions.                                         *)

isActiveModule(m) == activeModules["marketplace"] = m

authorized(sender, org, capability, scope) ==
    \E g \in authority :
        /\ g.account = sender /\ g.organization = org /\ g.capability = capability
        /\ g.scope \in {scope, AnyScope}

requireBundle(domainKey, bundleType, controller) ==
    [domainKey |-> domainKey, bundleType |-> bundleType, controller |-> controller] \in CriticalBundles

SetListingState(m, l, state) == listings' = [listings EXCEPT ![m][l].state = state]
SetOfferState(m, o, state) == offers' = [offers EXCEPT ![m][o].state = state]
SetAgreementState(m, a, state) == agreements' = [agreements EXCEPT ![m][a].state = state]
Mutant_Debit(m, recipient, amount) ==
    withdrawableCredits' = [withdrawableCredits EXCEPT ![m][recipient] = @ - amount]
Credit(m, recipient, amount) ==
    withdrawableCredits' = [withdrawableCredits EXCEPT ![m][recipient] = @ + amount]

-----------------------------------------------------------------------------
(* Listings and offers.                                                    *)

Mutant_ListableByAnyone(b, org) == batteries[b].registered /\ batteries[b].marketplaceLock = Zero

(* What createListing asks of the battery.                                 *)
Listable(b, org) ==
    /\ batteries[b].registered
    /\ batteries[b].recordedOwner = org
    /\ batteries[b].marketplaceLock = Zero

createListing(m, sender, l, b, org, payout, expiresAt) ==
    /\ isActiveModule(m)
    /\ expiresAt > now
    /\ listings[m][l].state = "Unset"
    /\ authorized(sender, org, "marketplace.listing.create", b)
    /\ Listable(b, org)
    /\ requireBundle(l, "listing", sender)
    /\ listings' = [listings EXCEPT ![m][l] =
            [batteryId |-> b, sellerOrganizationId |-> org, acceptedOfferId |-> Zero,
             seller |-> sender, sellerPayoutAddress |-> payout,
             expiresAt |-> expiresAt, state |-> "Active"]]
    /\ lockForMarketplace(m, b)
    /\ bindAggregateOrigin(m, l)
    /\ UNCHANGED <<authority, offers, agreements, protectedActions, withdrawableCredits, balance>>

(* The listing leaves the market and its battery is unlocked.              *)
CloseActiveListing(m, l, state) ==
    /\ listings[m][l].state = "Active"
    /\ SetListingState(m, l, state)
    /\ unlockForMarketplace(m, listings[m][l].batteryId)
    /\ UNCHANGED <<deploymentVars, authority, offers, agreements, protectedActions,
                   withdrawableCredits, balance>>

withdrawListing(m, sender, l) ==
    /\ listings[m][l].seller = sender
    /\ CloseActiveListing(m, l, "Withdrawn")

Mutant_expireOnlyWhileActive(m, l) ==
    /\ isActiveModule(m)
    /\ now >= listings[m][l].expiresAt
    /\ CloseActiveListing(m, l, "Expired")

expireListing(m, l) ==
    /\ now >= listings[m][l].expiresAt
    /\ CloseActiveListing(m, l, "Expired")

Mutant_OfferOutlivesListing(m, l, expiresAt) == expiresAt > now

OfferExpiryFits(m, l, expiresAt) ==
    /\ expiresAt > now
    /\ expiresAt <= listings[m][l].expiresAt

submitOffer(m, sender, o, l, org, amount, refund, expiresAt) ==
    /\ isActiveModule(m)
    /\ listings[m][l].state = "Active"
    /\ now < listings[m][l].expiresAt
    /\ OfferExpiryFits(m, l, expiresAt)
    /\ offers[m][o].state = "Unset"
    /\ authorized(sender, org, "marketplace.offer.submit", l)
    /\ offers' = [offers EXCEPT ![m][o] =
            [listingId |-> l, buyerOrganizationId |-> org, buyer |-> sender,
             buyerRefundAddress |-> refund, amount |-> amount,
             expiresAt |-> expiresAt, state |-> "Submitted"]]
    /\ UNCHANGED <<registryVars, deploymentVars, authority, listings, agreements,
                   protectedActions, withdrawableCredits, balance>>

CloseSubmittedOffer(m, o, state) ==
    /\ offers[m][o].state = "Submitted"
    /\ SetOfferState(m, o, state)
    /\ UNCHANGED <<registryVars, deploymentVars, authority, listings, agreements,
                   protectedActions, withdrawableCredits, balance>>

withdrawOffer(m, sender, o) ==
    /\ offers[m][o].buyer = sender
    /\ CloseSubmittedOffer(m, o, "Withdrawn")

rejectOffer(m, sender, o) ==
    LET listing == listings[m][offers[m][o].listingId] IN
    /\ CloseSubmittedOffer(m, o, "Rejected")
    /\ listing.state = "Active"
    /\ listing.seller = sender

expireOffer(m, o) ==
    /\ now >= offers[m][o].expiresAt
    /\ CloseSubmittedOffer(m, o, "Expired")

(* The offer a reader of the contract is shown (a view function).          *)
effectiveOfferState(m, o) ==
    LET offer == offers[m][o]
        listing == listings[m][offer.listingId] IN
    IF offer.state # "Submitted" THEN offer.state
    ELSE IF listing.state \in {"Matched", "ClosedSettled", "ClosedCancelled"}
         THEN IF listing.acceptedOfferId = o THEN "Accepted" ELSE "Rejected"
    ELSE IF listing.state \in {"Withdrawn", "Expired"} THEN "Rejected"
    ELSE IF now >= offer.expiresAt THEN "Expired"
    ELSE "Submitted"

-----------------------------------------------------------------------------
(* Agreements up to funding.                                               *)

selectOfferAndCreateAgreement(m, sender, a, l, o, confirmationDeadline, deliveryDeadline) ==
    LET listing == listings[m][l]
        offer == offers[m][o] IN
    /\ isActiveModule(m)
    /\ listing.state = "Active"
    /\ offer.state = "Submitted"
    /\ offer.listingId = l
    /\ now < listing.expiresAt
    /\ now < offer.expiresAt
    /\ listing.seller = sender
    /\ confirmationDeadline > now
    /\ deliveryDeadline > confirmationDeadline
    /\ agreements[m][a].state = "Unset"
    /\ requireBundle(a, "agreement", sender)
    /\ listings' = [listings EXCEPT ![m][l] = [@ EXCEPT !.state = "Matched", !.acceptedOfferId = o]]
    /\ SetOfferState(m, o, "Accepted")
    /\ agreements' = [agreements EXCEPT ![m][a] =
            [listingId |-> l, offerId |-> o, batteryId |-> listing.batteryId,
             sellerOrganizationId |-> listing.sellerOrganizationId,
             buyerOrganizationId |-> offer.buyerOrganizationId, disputeId |-> Zero,
             seller |-> listing.seller, buyer |-> offer.buyer,
             sellerPayoutAddress |-> listing.sellerPayoutAddress,
             buyerRefundAddress |-> offer.buyerRefundAddress, amount |-> offer.amount,
             confirmationDeadline |-> confirmationDeadline,
             deliveryDeadline |-> deliveryDeadline, state |-> "AwaitingBuyerConfirmation"]]
    /\ bindAggregateOrigin(m, a)
    /\ UNCHANGED <<registryVars, authority, protectedActions, withdrawableCredits, balance>>

(* The digest the buyer repeats is the one stored: callers that pass       *)
(* another one are reverted.                                               *)
confirmAgreement(m, sender, a) ==
    /\ agreements[m][a].state = "AwaitingBuyerConfirmation"
    /\ agreements[m][a].buyer = sender
    /\ now < agreements[m][a].confirmationDeadline
    /\ SetAgreementState(m, a, "AwaitingFunding")
    /\ UNCHANGED <<registryVars, deploymentVars, authority, listings, offers, protectedActions,
                   withdrawableCredits, balance>>

fundAgreement(m, sender, a, value) ==
    /\ agreements[m][a].state = "AwaitingFunding"
    /\ agreements[m][a].buyer = sender
    /\ now < agreements[m][a].confirmationDeadline
    /\ value = agreements[m][a].amount
    /\ SetAgreementState(m, a, "Funded")
    /\ balance' = [balance EXCEPT ![m] = @ + value]
    /\ UNCHANGED <<registryVars, deploymentVars, authority, listings, offers, protectedActions,
                   withdrawableCredits>>

-----------------------------------------------------------------------------
(* How an agreement closes: the three private functions.                   *)

Mutant_ListingStaysMatched(m, a, agreementState, listingState) ==
    /\ SetAgreementState(m, a, agreementState)
    /\ UNCHANGED <<deploymentVars, authority, listings, offers, protectedActions, balance>>

CloseAgreement(m, a, agreementState, listingState) ==
    /\ SetAgreementState(m, a, agreementState)
    /\ SetListingState(m, agreements[m][a].listingId, listingState)
    /\ UNCHANGED <<deploymentVars, authority, offers, protectedActions, balance>>

Mutant_releaseToBuyer(m, a) ==
    /\ CloseAgreement(m, a, "Settled", "ClosedSettled")
    /\ Credit(m, agreements[m][a].buyerRefundAddress, agreements[m][a].amount)
    /\ transferRecordedOwnership(m, agreements[m][a].batteryId, agreements[m][a].buyerOrganizationId)

releaseAndTransfer(m, a) ==
    /\ CloseAgreement(m, a, "Settled", "ClosedSettled")
    /\ Credit(m, agreements[m][a].sellerPayoutAddress, agreements[m][a].amount)
    /\ transferRecordedOwnership(m, agreements[m][a].batteryId, agreements[m][a].buyerOrganizationId)

refundAndCancel(m, a) ==
    /\ CloseAgreement(m, a, "Cancelled", "ClosedCancelled")
    /\ Credit(m, agreements[m][a].buyerRefundAddress, agreements[m][a].amount)
    /\ unlockForMarketplace(m, agreements[m][a].batteryId)

Mutant_cancelKeepsLock(m, a) ==
    /\ CloseAgreement(m, a, "Cancelled", "ClosedCancelled")
    /\ UNCHANGED <<registryVars, withdrawableCredits>>
cancelWithoutFunds(m, a) ==
    /\ CloseAgreement(m, a, "Cancelled", "ClosedCancelled")
    /\ unlockForMarketplace(m, agreements[m][a].batteryId)
    /\ UNCHANGED withdrawableCredits

(* Anyone may cancel once the deadline has passed, or at once when another *)
(* marketplace has replaced m.                                             *)
cancelUnfundedAgreement(m, a) ==
    /\ agreements[m][a].state \in UnfundedStates
    /\ now >= agreements[m][a].confirmationDeadline \/ ~ isActiveModule(m)
    /\ cancelWithoutFunds(m, a)

-----------------------------------------------------------------------------
(* Delivery, acceptance, timeouts, disputes.                               *)

consumeProtectedAction(m, sender, a, x, org, bundleType, capability) ==
    /\ x \notin protectedActions[m]
    /\ authorized(sender, org, capability, a)
    /\ requireBundle(x, bundleType, sender)
    /\ protectedActions' = [protectedActions EXCEPT ![m] = @ \cup {x}]

recordDispatch(m, sender, a, x, org) ==
    /\ agreements[m][a].state = "Funded"
    /\ now < agreements[m][a].deliveryDeadline
    /\ consumeProtectedAction(m, sender, a, x, org, "logistics", "logistics.record")
    /\ SetAgreementState(m, a, "InDelivery")
    /\ UNCHANGED <<registryVars, deploymentVars, authority, listings, offers,
                   withdrawableCredits, balance>>

recordDelivery(m, sender, a, x, org) ==
    /\ agreements[m][a].state = "InDelivery"
    /\ now < agreements[m][a].deliveryDeadline
    /\ consumeProtectedAction(m, sender, a, x, org, "logistics", "logistics.record")
    /\ SetAgreementState(m, a, "Delivered")
    /\ UNCHANGED <<registryVars, deploymentVars, authority, listings, offers,
                   withdrawableCredits, balance>>

(* deliveryDeadline + acceptanceWindow, which reverts when it overflows.   *)
AcceptanceEnds(m, a) == agreements[m][a].deliveryDeadline + AcceptanceWindow
AcceptanceFits(m, a) == AddFits(agreements[m][a].deliveryDeadline, AcceptanceWindow)

acceptDelivery(m, sender, a) ==
    /\ agreements[m][a].state = "Delivered"
    /\ agreements[m][a].buyer = sender
    /\ AcceptanceFits(m, a)
    /\ now < AcceptanceEnds(m, a)
    /\ SetAgreementState(m, a, "Accepted")
    /\ UNCHANGED <<registryVars, deploymentVars, authority, listings, offers, protectedActions,
                   withdrawableCredits, balance>>

applyDispatchTimeout(m, a) ==
    /\ agreements[m][a].state = "Funded"
    /\ now >= agreements[m][a].deliveryDeadline
    /\ refundAndCancel(m, a)

applyDeliveryOrAcceptanceTimeout(m, a) ==
    /\ \/ /\ agreements[m][a].state = "InDelivery"
          /\ now >= agreements[m][a].deliveryDeadline
       \/ /\ agreements[m][a].state = "Delivered"
          /\ AcceptanceFits(m, a)
          /\ now >= AcceptanceEnds(m, a)
    /\ SetAgreementState(m, a, "TimedOutReferred")
    /\ UNCHANGED <<registryVars, deploymentVars, authority, listings, offers, protectedActions,
                   withdrawableCredits, balance>>

partyOrganization(m, a, party) ==
    IF party = agreements[m][a].buyer THEN agreements[m][a].buyerOrganizationId
                                      ELSE agreements[m][a].sellerOrganizationId

openTransactionDispute(m, sender, a, x, org) ==
    /\ agreements[m][a].state \in {"Funded", "InDelivery", "Delivered"}
    /\ sender \in {agreements[m][a].buyer, agreements[m][a].seller}
    /\ org = partyOrganization(m, a, sender)
    /\ consumeProtectedAction(m, sender, a, x, org, "dispute", "dispute.open-transaction")
    /\ agreements' = [agreements EXCEPT ![m][a] = [@ EXCEPT !.disputeId = x, !.state = "Disputed"]]
    /\ UNCHANGED <<registryVars, deploymentVars, authority, listings, offers,
                   withdrawableCredits, balance>>

resolveAgreement(m, sender, a, org, resolution) ==
    /\ agreements[m][a].state \in {"Disputed", "TimedOutReferred"}
    /\ authorized(sender, org, "dispute.resolve-transaction", a)
    /\ sender \notin {agreements[m][a].buyer, agreements[m][a].seller}
    /\ IF resolution = "ReleaseAndTransfer" THEN releaseAndTransfer(m, a) ELSE refundAndCancel(m, a)

settleAccepted(m, a) ==
    /\ agreements[m][a].state = "Accepted"
    /\ releaseAndTransfer(m, a)

Mutant_withdrawTwice(m, sender) ==
    /\ withdrawableCredits[m][sender] # 0
    /\ balance' = [balance EXCEPT ![m] = @ - withdrawableCredits[m][sender]]
    /\ UNCHANGED <<registryVars, deploymentVars, authority, listings, offers, agreements,
                   protectedActions, withdrawableCredits>>

(* The credit is zeroed before the transfer; the recipient's code cannot   *)
(* re-enter m, and a recipient that refuses the transfer reverts the call. *)
withdrawCredits(m, sender) ==
    /\ withdrawableCredits[m][sender] # 0
    /\ withdrawableCredits' = [withdrawableCredits EXCEPT ![m][sender] = 0]
    /\ balance' = [balance EXCEPT ![m] = @ - withdrawableCredits[m][sender]]
    /\ UNCHANGED <<registryVars, deploymentVars, authority, listings, offers, agreements,
                   protectedActions>>

-----------------------------------------------------------------------------
(* The composed system.                                                    *)

(* The deployment is complete: every battery is registered, the first      *)
(* marketplace is active and allowed, nothing is listed.                   *)
Init ==
    /\ now = 0
    /\ registrars = {}
    /\ marketplaces = {InitialMarketplace}
    /\ batteries = [b \in SubjectIds |->
            [recordedOwner |-> InitialOwner[b], marketplaceLock |-> Zero, registered |-> TRUE]]
    /\ subjects = [b \in SubjectIds |->
            [parentId |-> Zero, rootBatteryId |-> b, granularity |-> Pack, registered |-> TRUE]]
    /\ initialOwnershipProposals = [p \in ProposalIds |-> NoProposal]
    /\ ownershipTransitions = [b \in SubjectIds |->
            <<[previousOwner |-> Zero, newOwner |-> InitialOwner[b],
               marketplace |-> Zero, recordedAt |-> 0]>>]
    /\ activeModules = [t \in ModuleTypes |->
            IF t = "marketplace" THEN InitialMarketplace ELSE NoModule]
    /\ proposals = [t \in ModuleTypes |-> NoModuleProposal]
    /\ originModule = [id \in AggregateIds |-> NoModule]
    /\ authority = Grants
    /\ listings = [m \in Marketplaces |-> [l \in ListingIds |-> NoListing]]
    /\ offers = [m \in Marketplaces |-> [o \in OfferIds |-> NoOffer]]
    /\ agreements = [m \in Marketplaces |-> [a \in AgreementIds |-> NoAgreement]]
    /\ protectedActions = [m \in Marketplaces |-> {}]
    /\ withdrawableCredits = [m \in Marketplaces |-> [r \in Accounts |-> 0]]
    /\ balance = [m \in Marketplaces |-> 0]

(* Credentials and capabilities are suspended, expire and are restored.    *)
AuthorityChanges ==
    /\ \E g \in Revocable : authority' \in {authority \ {g}, authority \cup {g}}
    /\ UNCHANGED <<registryVars, deploymentVars, marketVars>>

Governance ==
    \/ /\ \E m \in Governed, allowed \in BOOLEAN : setMarketplace(m, allowed)
       /\ UNCHANGED <<deploymentVars, authority, marketVars>>
    \/ /\ \E m \in Candidates : proposeModule("marketplace", m)
       /\ UNCHANGED <<registryVars, authority, marketVars>>
    \/ /\ activateModule("marketplace")
       /\ UNCHANGED <<registryVars, authority, marketVars>>
    \/ AuthorityChanges

(* Calls of the trading parties, the carrier and the resolver.             *)
PartyStep(m) ==
    \E sender \in Accounts :
        \/ \E l \in ListingIds, b \in SubjectIds, org \in OrganizationIds,
              payout \in PayoutAddresses, t \in Deadlines :
                createListing(m, sender, l, b, org, payout, t)
        \/ \E l \in ListingIds : withdrawListing(m, sender, l)
        \/ \E o \in OfferIds, l \in ListingIds, org \in OrganizationIds, amount \in Amounts,
              refund \in RefundAddresses, t \in Deadlines :
                submitOffer(m, sender, o, l, org, amount, refund, t)
        \/ \E o \in OfferIds : withdrawOffer(m, sender, o)
        \/ \E o \in OfferIds : rejectOffer(m, sender, o)
        \/ \E a \in AgreementIds, l \in ListingIds, o \in OfferIds, c, d \in Deadlines :
                selectOfferAndCreateAgreement(m, sender, a, l, o, c, d)
        \/ \E a \in AgreementIds : confirmAgreement(m, sender, a)
        \/ \E a \in AgreementIds, value \in Amounts : fundAgreement(m, sender, a, value)
        \/ \E a \in AgreementIds, x \in ActionIds, org \in OrganizationIds :
                recordDispatch(m, sender, a, x, org)
        \/ \E a \in AgreementIds, x \in ActionIds, org \in OrganizationIds :
                recordDelivery(m, sender, a, x, org)
        \/ \E a \in AgreementIds : acceptDelivery(m, sender, a)
        \/ \E a \in AgreementIds, x \in ActionIds, org \in OrganizationIds :
                openTransactionDispute(m, sender, a, x, org)
        \/ \E a \in AgreementIds, org \in OrganizationIds,
              r \in {"ReleaseAndTransfer", "RefundAndCancel"} :
                resolveAgreement(m, sender, a, org, r)
        \/ withdrawCredits(m, sender)

(* Calls that anyone may make once their condition holds.                  *)
PermissionlessStep(m) ==
    \/ \E l \in ListingIds : expireListing(m, l)
    \/ \E o \in OfferIds : expireOffer(m, o)
    \/ \E a \in AgreementIds : cancelUnfundedAgreement(m, a)
    \/ \E a \in AgreementIds : applyDispatchTimeout(m, a)
    \/ \E a \in AgreementIds : applyDeliveryOrAcceptanceTimeout(m, a)
    \/ \E a \in AgreementIds : settleAccepted(m, a)

NextBlock == Tick /\ UNCHANGED <<registryVars, deploymentVars, authority, marketVars>>

Next ==
    \/ NextBlock
    \/ /\ Governance \/ \E m \in Marketplaces : PartyStep(m) \/ PermissionlessStep(m)
       /\ UNCHANGED now

Spec == Init /\ [][Next]_vars

-----------------------------------------------------------------------------
(* PROPERTIES                                                              *)

LiveListing(m, l) == listings[m][l].state \in {"Active", "Matched"}
LiveAgreement(m, a) == agreements[m][a].state \in UnfundedStates \cup FundedStates

(* A battery is locked by a marketplace exactly while that marketplace has *)
(* one live listing for it: createListing takes the lock, and every way a  *)
(* listing or an agreement ends gives it back, whichever of the deployed   *)
(* marketplaces it belongs to.                                             *)
LockMatchesLiveListing ==
    /\ \A m \in Marketplaces, l \in ListingIds :
          LiveListing(m, l) => batteries[listings[m][l].batteryId].marketplaceLock = m
    /\ \A m \in Marketplaces, l, k \in ListingIds :
          /\ LiveListing(m, l) /\ LiveListing(m, k)
          /\ listings[m][l].batteryId = listings[m][k].batteryId
          => l = k
    /\ \A b \in SubjectIds, m \in Marketplaces :
          batteries[b].marketplaceLock = m =>
              \E l \in ListingIds : LiveListing(m, l) /\ listings[m][l].batteryId = b

(* While a battery is listed or under agreement its recorded owner is      *)
(* still the organization that listed it: no other sale can have moved it. *)
SellerOwnsWhileListed ==
    \A m \in Marketplaces, l \in ListingIds :
        LiveListing(m, l) =>
            batteries[listings[m][l].batteryId].recordedOwner = listings[m][l].sellerOrganizationId

ListingStateUnder(s) ==
    IF s \in UnfundedStates \cup FundedStates THEN "Matched"
    ELSE IF s = "Settled" THEN "ClosedSettled"
    ELSE "ClosedCancelled"

Mirrors(agreement, listing, offer) ==
    /\ agreement.listingId \in ListingIds /\ agreement.offerId \in OfferIds
    /\ listing.batteryId = agreement.batteryId
    /\ listing.sellerOrganizationId = agreement.sellerOrganizationId
    /\ listing.acceptedOfferId = agreement.offerId
    /\ offer.state = "Accepted"
    /\ listing.state = ListingStateUnder(agreement.state)

MirrorsItsListing(m, a) ==
    Mirrors(agreements[m][a], listings[m][agreements[m][a].listingId], offers[m][agreements[m][a].offerId])

EveryAgreementMirrors ==
    \A m \in Marketplaces, a \in AgreementIds :
        agreements[m][a].state # "Unset" => MirrorsItsListing(m, a)

OneAgreementPerListing ==
    \A m \in Marketplaces, a, c \in AgreementIds :
        /\ agreements[m][a].state # "Unset" /\ agreements[m][c].state # "Unset"
        /\ agreements[m][a].listingId = agreements[m][c].listingId
        => a = c

MatchedListingsAgreed ==
    \A m \in Marketplaces, l \in ListingIds :
        listings[m][l].state = "Matched" =>
            \E a \in AgreementIds : LiveAgreement(m, a) /\ agreements[m][a].listingId = l

(* An agreement and the listing it was made from tell one story: the same  *)
(* battery and seller, the accepted offer, matching states through every   *)
(* path to closure; a listing backs at most one agreement ever, and a      *)
(* matched listing has one.                                                *)
AgreementMirrorsListing ==
    /\ EveryAgreementMirrors
    /\ OneAgreementPerListing
    /\ MatchedListingsAgreed

(* What is stored under an identifier in use refers to things that exist.  *)
ReferencesResolve ==
    \A m \in Marketplaces :
        /\ \A l \in ListingIds : listings[m][l].state # "Unset" =>
              /\ listings[m][l].batteryId \in SubjectIds
              /\ listings[m][l].sellerOrganizationId \in OrganizationIds
              /\ listings[m][l].sellerPayoutAddress \in Accounts
        /\ \A o \in OfferIds : offers[m][o].state # "Unset" =>
              /\ offers[m][o].listingId \in ListingIds
              /\ offers[m][o].buyerOrganizationId \in OrganizationIds
              /\ offers[m][o].buyerRefundAddress \in Accounts
        /\ \A a \in AgreementIds : agreements[m][a].state # "Unset" =>
              /\ agreements[m][a].batteryId \in SubjectIds
              /\ agreements[m][a].buyerOrganizationId \in OrganizationIds
              /\ agreements[m][a].sellerPayoutAddress \in Accounts
              /\ agreements[m][a].buyerRefundAddress \in Accounts

(* The wei a marketplace holds are exactly what it owes: the amounts of    *)
(* the funded agreements that are still open and the credits not yet       *)
(* withdrawn (fundAgreement, _releaseAndTransfer, _refundAndCancel,        *)
(* withdrawCredits).                                                       *)
Solvent ==
    \A m \in Marketplaces :
        balance[m] =
            MapThenSumSet(LAMBDA a : agreements[m][a].amount,
                          {a \in AgreementIds : agreements[m][a].state \in FundedStates})
            + MapThenSumSet(LAMBDA r : withdrawableCredits[m][r], Accounts)

(* effectiveOfferState tells a reader the truth: it answers Submitted for  *)
(* exactly the offers selectOfferAndCreateAgreement would take from the    *)
(* seller now (the listing's own expiry included), and Accepted for        *)
(* exactly the offers an agreement was made from.                          *)
EffectiveOfferStateIsTrue ==
    \A m \in Marketplaces, o \in OfferIds :
        /\ effectiveOfferState(m, o) = "Submitted" <=>
              /\ offers[m][o].state = "Submitted"
              /\ now < offers[m][o].expiresAt
              /\ listings[m][offers[m][o].listingId].state = "Active"
              /\ now < listings[m][offers[m][o].listingId].expiresAt
        /\ effectiveOfferState(m, o) = "Accepted" <=>
              \E a \in AgreementIds :
                  agreements[m][a].state # "Unset" /\ agreements[m][a].offerId = o

(* An identifier names at most one listing or agreement over all deployed  *)
(* marketplaces: bindAggregateOrigin is reached by every creation.         *)
OneOriginPerAggregate ==
    \A m \in Marketplaces :
        /\ \A l \in ListingIds : listings[m][l].state # "Unset" => originModule[l] = m
        /\ \A a \in AgreementIds : agreements[m][a].state # "Unset" => originModule[a] = m

(* The inductive invariant of the proofs.                                  *)
IndInv ==
    /\ TypeOK
    /\ ReferencesResolve
    /\ LockMatchesLiveListing
    /\ SellerOwnsWhileListed
    /\ AgreementMirrorsListing
    /\ OneOriginPerAggregate

FundsAndCloses(m, a) ==
    agreements[m][a].state \in FundedStates /\ agreements'[m][a].state \in ClosedStates

MoneyAndTitleStep ==
    /\ \A b \in SubjectIds :
          batteries'[b].recordedOwner # batteries[b].recordedOwner =>
              \E m \in Marketplaces, a \in AgreementIds :
                  /\ FundsAndCloses(m, a) /\ agreements'[m][a].state = "Settled"
                  /\ agreements[m][a].batteryId = b
                  /\ agreements[m][a].sellerOrganizationId = batteries[b].recordedOwner
                  /\ agreements[m][a].buyerOrganizationId = batteries'[b].recordedOwner
    /\ \A m \in Marketplaces, r \in Accounts :
          withdrawableCredits'[m][r] > withdrawableCredits[m][r] =>
              \E a \in AgreementIds :
                  /\ FundsAndCloses(m, a)
                  /\ withdrawableCredits'[m][r] = withdrawableCredits[m][r] + agreements[m][a].amount
                  /\ r = IF agreements'[m][a].state = "Settled"
                         THEN agreements[m][a].sellerPayoutAddress
                         ELSE agreements[m][a].buyerRefundAddress
    /\ \A m \in Marketplaces, a \in AgreementIds :
          agreements[m][a].state \in ClosedStates => agreements'[m][a] = agreements[m][a]

(* Money and title move together and only when a funded agreement closes:  *)
(* a recorded owner changes only from the seller's organization to the     *)
(* buyer's when an agreement settles, a credit grows only by the amount of *)
(* an agreement that closes in that step, for the payout address when it   *)
(* settles and the refund address when it is cancelled, and a closed       *)
(* agreement never reopens.                                                *)
MoneyAndTitleMoveTogether == [][MoneyAndTitleStep]_vars

-----------------------------------------------------------------------------
(* LIVENESS                                                                *)

(* Blocks keep coming, and a call that anyone may make is eventually made  *)
(* by someone who wants the battery or the money released.  Nothing is     *)
(* assumed of the parties, the carrier or the resolver.                    *)
Fairness ==
    /\ WF_vars(NextBlock)
    /\ \A m \in Marketplaces, l \in ListingIds : WF_vars(expireListing(m, l) /\ UNCHANGED now)
    /\ \A m \in Marketplaces, a \in AgreementIds :
          /\ WF_vars(cancelUnfundedAgreement(m, a) /\ UNCHANGED now)
          /\ WF_vars(applyDispatchTimeout(m, a) /\ UNCHANGED now)
          /\ WF_vars(applyDeliveryOrAcceptanceTimeout(m, a) /\ UNCHANGED now)
          /\ WF_vars(settleAccepted(m, a) /\ UNCHANGED now)

FairSpec == Spec /\ Fairness

AwaitingResolver(m, a) == agreements[m][a].state \in {"Disputed", "TimedOutReferred"}

(* No lock and no escrow is stranded by a party that stops acting: if      *)
(* governance ends up allowing the marketplace, an active listing is       *)
(* eventually matched or ends, and an agreement eventually closes or waits *)
(* for the resolver, whatever module is active by then and whichever       *)
(* deadlines were agreed, provided that deliveryDeadline plus              *)
(* acceptanceWindow fits in uint64.                                        *)
NothingStrands ==
    \A m \in Marketplaces :
        <>[](m \in marketplaces) =>
            /\ \A l \in ListingIds :
                  listings[m][l].state = "Active" ~> listings[m][l].state # "Active"
            /\ \A a \in AgreementIds :
                  LiveAgreement(m, a) /\ AcceptanceFits(m, a) ~>
                      ~ LiveAgreement(m, a) \/ AwaitingResolver(m, a)
============================================================================
