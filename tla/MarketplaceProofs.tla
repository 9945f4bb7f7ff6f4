------------------------- MODULE MarketplaceProofs --------------------------
(***************************************************************************)
(* The inductive invariant of module Marketplace is kept by every step,    *)
(* and the safety theorems follow, for every number of marketplaces,       *)
(* batteries, listings, offers, agreements, accounts and timestamps.       *)
(* First come lemmas about assignments and the steps built from them: each *)
(* call keeps the types, what a nested EXCEPT leaves alone, and what an    *)
(* agreement's being the mirror of its listing depends on; the conjuncts   *)
(* other than the types are kept when a listing starts or ends and when    *)
(* its agreement advances.  Then each action is shown to be such a step.   *)
(* Last comes what the functions do for their callers: every step moves    *)
(* money and title together, and the state a reader is shown for an offer  *)
(* is its true one.                                                        *)
(***************************************************************************)
EXTENDS Marketplace, TLAPS

-----------------------------------------------------------------------------
(* Type correctness.                                                       *)

(* The deployed system starts in the types.                                *)
LEMMA InitTypeOK == Init => TypeOK
<1> SUFFICES ASSUME Init PROVE TypeOK
    OBVIOUS
<1>1. now \in Timestamps
    BY ModuleAssumption, MarketplaceAssumption, MaxTimestampAssumption DEF Init, Timestamps
<1>2. RegistryTypeOK
    BY ModuleAssumption, MarketplaceAssumption, MaxTimestampAssumption DEF Init, RegistryTypeOK, Battery, Subject, Proposal, Transition, NoProposal, Timestamps, Pack, Cell
<1>3. DeploymentTypeOK
    BY ModuleAssumption, MarketplaceAssumption, MaxTimestampAssumption, SMTT(60) DEF Init, DeploymentTypeOK, NoModuleProposal, Timestamps
<1>4. MarketTypeOK
    BY ModuleAssumption, MarketplaceAssumption, MaxTimestampAssumption DEF Init, MarketTypeOK, NoListing, NoOffer, NoAgreement, Listing, Offer, Agreement,
           ListingStates, OfferStates, AgreementStates, Timestamps
<1> QED BY <1>1, <1>2, <1>3, <1>4, ZenonT(60) DEF TypeOK

(* The registry calls keep the registry's types.                           *)
LEMMA RegistryCallsType ==
    ASSUME now \in Timestamps, RegistryTypeOK, NEW m \in Marketplaces,
           NEW b, NEW org \in OrganizationIds \cup {Zero}, NEW allowed \in BOOLEAN
    PROVE  /\ b \in SubjectIds /\ lockForMarketplace(m, b) => RegistryTypeOK'
           /\ b \in SubjectIds /\ unlockForMarketplace(m, b) => RegistryTypeOK'
           /\ b \in SubjectIds /\ transferRecordedOwnership(m, b, org) => RegistryTypeOK'
           /\ setMarketplace(m, allowed) => RegistryTypeOK'
           /\ UNCHANGED registryVars => RegistryTypeOK'
<1>1. b \in SubjectIds /\ lockForMarketplace(m, b) => RegistryTypeOK'
  <2>1. b \in SubjectIds /\ lockForMarketplace(m, b) => batteries' \in [SubjectIds -> Battery]
      BY ZenonT(60) DEF RegistryTypeOK, lockForMarketplace, Battery
  <2> QED BY <2>1, ZenonT(60) DEF RegistryTypeOK, lockForMarketplace
<1>2. b \in SubjectIds /\ unlockForMarketplace(m, b) => RegistryTypeOK'
    BY ZenonT(60) DEF RegistryTypeOK, unlockForMarketplace, Battery
<1>3. b \in SubjectIds /\ transferRecordedOwnership(m, b, org) => RegistryTypeOK'
  <2> SUFFICES ASSUME b \in SubjectIds, transferRecordedOwnership(m, b, org)
               PROVE  RegistryTypeOK'
      OBVIOUS
  <2>1. batteries' \in [SubjectIds -> Battery]
      BY ZenonT(60) DEF RegistryTypeOK, transferRecordedOwnership, Battery
  <2>2. [previousOwner |-> batteries[b].recordedOwner, newOwner |-> org,
         marketplace |-> m, recordedAt |-> now] \in Transition
      BY ZenonT(60) DEF RegistryTypeOK, Battery, Transition
  <2>3. ownershipTransitions' \in [SubjectIds -> Seq(Transition)]
      BY <2>2 DEF RegistryTypeOK, transferRecordedOwnership, recordOwnershipTransition
  <2> QED BY <2>1, <2>3, ZenonT(60) DEF RegistryTypeOK, transferRecordedOwnership
<1>4. setMarketplace(m, allowed) => RegistryTypeOK'
    BY ZenonT(60) DEF RegistryTypeOK, setMarketplace
<1>5. UNCHANGED registryVars => RegistryTypeOK'
    BY ZenonT(60) DEF RegistryTypeOK, registryVars
<1> QED BY <1>1, <1>2, <1>3, <1>4, <1>5, ZenonT(60)

(* The deployment registry's calls keep its types.                         *)
LEMMA DeploymentCallsType ==
    ASSUME now \in Timestamps, DeploymentTypeOK, NEW m \in Marketplaces, NEW id
    PROVE  /\ bindAggregateOrigin(m, id) => DeploymentTypeOK'
           /\ proposeModule("marketplace", m) => DeploymentTypeOK'
           /\ activateModule("marketplace") => DeploymentTypeOK'
           /\ UNCHANGED deploymentVars => DeploymentTypeOK'
<1>1. bindAggregateOrigin(m, id) => DeploymentTypeOK'
    BY ModuleAssumption, MarketplaceAssumption, MaxTimestampAssumption, ZenonT(60) DEF DeploymentTypeOK, bindAggregateOrigin
<1>2. proposeModule("marketplace", m) => DeploymentTypeOK'
    BY ModuleAssumption, MarketplaceAssumption, MaxTimestampAssumption DEF DeploymentTypeOK, proposeModule, AddFits, Timestamps
<1>3. activateModule("marketplace") => DeploymentTypeOK'
    BY ModuleAssumption, MarketplaceAssumption, MaxTimestampAssumption DEF DeploymentTypeOK, activateModule, NoModuleProposal, Timestamps
<1>4. UNCHANGED deploymentVars => DeploymentTypeOK'
    BY ModuleAssumption, MarketplaceAssumption, MaxTimestampAssumption, ZenonT(60) DEF DeploymentTypeOK, deploymentVars
<1> QED BY <1>1, <1>2, <1>3, <1>4, ZenonT(60)

(* Replacing one entry of a map of maps keeps its type.                    *)
LEMMA NestedUpdate ==
    ASSUME NEW M, NEW K, NEW R, NEW f \in [M -> [K -> R]], NEW m \in M, NEW k \in K, NEW r \in R
    PROVE  [f EXCEPT ![m][k] = r] \in [M -> [K -> R]]
    OBVIOUS

(* Assigning the state of a record keeps its type.                         *)
LEMMA StateUpdate ==
    /\ \A r \in Listing, s \in ListingStates : [r EXCEPT !.state = s] \in Listing
    /\ \A r \in Offer, s \in OfferStates : [r EXCEPT !.state = s] \in Offer
    /\ \A r \in Agreement, s \in AgreementStates : [r EXCEPT !.state = s] \in Agreement
<1>1. ASSUME NEW r \in Listing, NEW s \in ListingStates PROVE [r EXCEPT !.state = s] \in Listing
    BY ZenonT(60) DEF Listing
<1>2. ASSUME NEW r \in Offer, NEW s \in OfferStates PROVE [r EXCEPT !.state = s] \in Offer
    BY ZenonT(60) DEF Offer
<1>3. ASSUME NEW r \in Agreement, NEW s \in AgreementStates PROVE [r EXCEPT !.state = s] \in Agreement
    BY ZenonT(60) DEF Agreement
<1> QED BY <1>1, <1>2, <1>3, ZenonT(60)

(* The assignments the marketplace functions share keep their types.       *)
LEMMA AssignmentsType ==
    ASSUME MarketTypeOK, NEW m \in Marketplaces
    PROVE  /\ \A l \in ListingIds, s \in ListingStates :
                 SetListingState(m, l, s) => listings' \in [Marketplaces -> [ListingIds -> Listing]]
           /\ \A o \in OfferIds, s \in OfferStates :
                 SetOfferState(m, o, s) => offers' \in [Marketplaces -> [OfferIds -> Offer]]
           /\ \A a \in AgreementIds, s \in AgreementStates :
                 SetAgreementState(m, a, s) =>
                     agreements' \in [Marketplaces -> [AgreementIds -> Agreement]]
           /\ \A r \in Accounts, n \in Nat :
                 Credit(m, r, n) => withdrawableCredits' \in [Marketplaces -> [Accounts -> Nat]]
<1>1. ASSUME NEW l \in ListingIds, NEW s \in ListingStates, SetListingState(m, l, s)
      PROVE  listings' \in [Marketplaces -> [ListingIds -> Listing]]
  <2>1. [listings[m][l] EXCEPT !.state = s] \in Listing
      BY StateUpdate DEF MarketTypeOK
  <2> QED BY <1>1, <2>1, NestedUpdate, ZenonT(60) DEF MarketTypeOK, SetListingState
<1>2. ASSUME NEW o \in OfferIds, NEW s \in OfferStates, SetOfferState(m, o, s)
      PROVE  offers' \in [Marketplaces -> [OfferIds -> Offer]]
  <2>1. [offers[m][o] EXCEPT !.state = s] \in Offer
      BY StateUpdate DEF MarketTypeOK
  <2> QED BY <1>2, <2>1, NestedUpdate, ZenonT(60) DEF MarketTypeOK, SetOfferState
<1>3. ASSUME NEW a \in AgreementIds, NEW s \in AgreementStates, SetAgreementState(m, a, s)
      PROVE  agreements' \in [Marketplaces -> [AgreementIds -> Agreement]]
  <2>1. [agreements[m][a] EXCEPT !.state = s] \in Agreement
      BY StateUpdate DEF MarketTypeOK
  <2> QED BY <1>3, <2>1, NestedUpdate, ZenonT(60) DEF MarketTypeOK, SetAgreementState
<1>4. ASSUME NEW r \in Accounts, NEW n \in Nat, Credit(m, r, n)
      PROVE  withdrawableCredits' \in [Marketplaces -> [Accounts -> Nat]]
    BY <1>4 DEF MarketTypeOK, Credit
<1> QED BY <1>1, <1>2, <1>3, <1>4, ZenonT(60)

-----------------------------------------------------------------------------
(* What one assignment does to every entry of a map.                       *)

SameListing(n, k) ==
    /\ listings'[n][k].batteryId = listings[n][k].batteryId
    /\ listings'[n][k].sellerOrganizationId = listings[n][k].sellerOrganizationId
    /\ listings'[n][k].sellerPayoutAddress = listings[n][k].sellerPayoutAddress

SameTerms(n, c) ==
    /\ agreements'[n][c].listingId = agreements[n][c].listingId
    /\ agreements'[n][c].offerId = agreements[n][c].offerId
    /\ agreements'[n][c].batteryId = agreements[n][c].batteryId
    /\ agreements'[n][c].sellerOrganizationId = agreements[n][c].sellerOrganizationId
    /\ agreements'[n][c].buyerOrganizationId = agreements[n][c].buyerOrganizationId
    /\ agreements'[n][c].sellerPayoutAddress = agreements[n][c].sellerPayoutAddress
    /\ agreements'[n][c].buyerRefundAddress = agreements[n][c].buyerRefundAddress

(* One entry changes its state, and no entry anything else that matters.   *)
ListingMoved(m, l, s) ==
    \A n \in Marketplaces, k \in ListingIds :
        /\ SameListing(n, k)
        /\ listings'[n][k].acceptedOfferId = listings[n][k].acceptedOfferId
        /\ listings'[n][k].state = IF n = m /\ k = l THEN s ELSE listings[n][k].state

OfferMoved(m, o, s) ==
    \A n \in Marketplaces, k \in OfferIds :
        /\ offers'[n][k].listingId = offers[n][k].listingId
        /\ offers'[n][k].buyerOrganizationId = offers[n][k].buyerOrganizationId
        /\ offers'[n][k].buyerRefundAddress = offers[n][k].buyerRefundAddress
        /\ offers'[n][k].state = IF n = m /\ k = o THEN s ELSE offers[n][k].state

AgreementMoved(m, a, s) ==
    \A n \in Marketplaces, c \in AgreementIds :
        /\ SameTerms(n, c)
        /\ agreements'[n][c].state = IF n = m /\ c = a THEN s ELSE agreements[n][c].state

(* SetListingState changes the state of one listing and nothing else.      *)
LEMMA ListingStateAssigned ==
    ASSUME MarketTypeOK, NEW m \in Marketplaces, NEW l \in ListingIds, NEW s,
           SetListingState(m, l, s)
    PROVE  ListingMoved(m, l, s)
<1> SUFFICES ASSUME NEW n \in Marketplaces, NEW k \in ListingIds
             PROVE  /\ SameListing(n, k)
                    /\ listings'[n][k].acceptedOfferId = listings[n][k].acceptedOfferId
                    /\ listings'[n][k].state = IF n = m /\ k = l THEN s ELSE listings[n][k].state
    BY ZenonT(60) DEF ListingMoved
<1>1. listings[n][k] \in Listing /\ listings[m] \in [ListingIds -> Listing]
    BY ZenonT(60) DEF MarketTypeOK
<1>2. listings'[n][k] = IF n = m /\ k = l THEN [listings[n][k] EXCEPT !.state = s] ELSE listings[n][k]
    BY <1>1, ZenonT(60) DEF MarketTypeOK, SetListingState
<1> QED BY <1>1, <1>2, ZenonT(60) DEF Listing, SameListing

(* SetOfferState changes the state of one offer and nothing else.          *)
LEMMA OfferStateAssigned ==
    ASSUME MarketTypeOK, NEW m \in Marketplaces, NEW o \in OfferIds, NEW s,
           SetOfferState(m, o, s)
    PROVE  OfferMoved(m, o, s)
<1> SUFFICES ASSUME NEW n \in Marketplaces, NEW k \in OfferIds
             PROVE  /\ offers'[n][k].listingId = offers[n][k].listingId
                    /\ offers'[n][k].buyerOrganizationId = offers[n][k].buyerOrganizationId
                    /\ offers'[n][k].buyerRefundAddress = offers[n][k].buyerRefundAddress
                    /\ offers'[n][k].state = IF n = m /\ k = o THEN s ELSE offers[n][k].state
    BY ZenonT(60) DEF OfferMoved
<1>1. offers[n][k] \in Offer /\ offers[m] \in [OfferIds -> Offer]
    BY ZenonT(60) DEF MarketTypeOK
<1>2. offers'[n][k] = IF n = m /\ k = o THEN [offers[n][k] EXCEPT !.state = s] ELSE offers[n][k]
    BY <1>1, ZenonT(60) DEF MarketTypeOK, SetOfferState
<1> QED BY <1>1, <1>2, ZenonT(60) DEF Offer

(* SetAgreementState changes the state of one agreement and nothing else.  *)
LEMMA AgreementStateAssigned ==
    ASSUME MarketTypeOK, NEW m \in Marketplaces, NEW a \in AgreementIds, NEW s,
           SetAgreementState(m, a, s)
    PROVE  AgreementMoved(m, a, s)
<1> SUFFICES ASSUME NEW n \in Marketplaces, NEW c \in AgreementIds
             PROVE  /\ SameTerms(n, c)
                    /\ agreements'[n][c].state = IF n = m /\ c = a THEN s ELSE agreements[n][c].state
    BY ZenonT(60) DEF AgreementMoved
<1>1. agreements[n][c] \in Agreement /\ agreements[m] \in [AgreementIds -> Agreement]
    BY ZenonT(60) DEF MarketTypeOK
<1>2. agreements'[n][c] =
          IF n = m /\ c = a THEN [agreements[n][c] EXCEPT !.state = s] ELSE agreements[n][c]
    BY <1>1, ZenonT(60) DEF MarketTypeOK, SetAgreementState
<1> QED BY <1>1, <1>2, ZenonT(60) DEF Agreement, SameTerms

(* What the registry calls do to every battery.                            *)
LEMMA LocksAndOwnersAssigned ==
    ASSUME RegistryTypeOK, NEW m \in Marketplaces, NEW b \in SubjectIds, NEW c \in SubjectIds, NEW org
    PROVE  /\ lockForMarketplace(m, b) =>
                 /\ batteries'[c].marketplaceLock = IF c = b THEN m ELSE batteries[c].marketplaceLock
                 /\ batteries'[c].recordedOwner = batteries[c].recordedOwner
           /\ unlockForMarketplace(m, b) =>
                 /\ batteries'[c].marketplaceLock = IF c = b THEN Zero ELSE batteries[c].marketplaceLock
                 /\ batteries'[c].recordedOwner = batteries[c].recordedOwner
           /\ transferRecordedOwnership(m, b, org) =>
                 /\ batteries'[c].marketplaceLock = IF c = b THEN Zero ELSE batteries[c].marketplaceLock
                 /\ batteries'[c].recordedOwner = IF c = b THEN org ELSE batteries[c].recordedOwner
<1>1. batteries \in [SubjectIds -> Battery] /\ batteries[c] \in Battery /\ batteries[b] \in Battery
    BY ZenonT(60) DEF RegistryTypeOK
<1>2. lockForMarketplace(m, b) =>
          batteries'[c] = IF c = b THEN [batteries[c] EXCEPT !.marketplaceLock = m] ELSE batteries[c]
    BY <1>1, ZenonT(60) DEF lockForMarketplace
<1>3. unlockForMarketplace(m, b) =>
          batteries'[c] = IF c = b THEN [batteries[c] EXCEPT !.marketplaceLock = Zero] ELSE batteries[c]
    BY <1>1, ZenonT(60) DEF unlockForMarketplace
<1>4. transferRecordedOwnership(m, b, org) =>
          batteries'[c] = IF c = b THEN [batteries[c] EXCEPT !.recordedOwner = org, !.marketplaceLock = Zero]
                          ELSE batteries[c]
    BY <1>1, ZenonT(60) DEF transferRecordedOwnership, Battery
<1> QED BY <1>1, <1>2, <1>3, <1>4, ZenonT(60) DEF Battery

(* bindAggregateOrigin: an identifier that is being bound names nothing    *)
(* yet, on any marketplace.                                                *)
LEMMA OriginBound ==
    ASSUME OneOriginPerAggregate, DeploymentTypeOK,
           NEW m \in Marketplaces, NEW id \in ListingIds \cup AgreementIds, bindAggregateOrigin(m, id)
    PROVE  /\ \A k \in ListingIds \cup AgreementIds :
                 originModule'[k] = IF k = id THEN m ELSE originModule[k]
           /\ \A n \in Marketplaces :
                 /\ id \in ListingIds => listings[n][id].state = "Unset"
                 /\ id \in AgreementIds => agreements[n][id].state = "Unset"
<1>1. originModule[id] \notin Marketplaces /\ ListingIds \cup AgreementIds \subseteq AggregateIds
    BY ModuleAssumption, MarketplaceAssumption, ZenonT(60) DEF bindAggregateOrigin
<1>2. \A k \in AggregateIds : originModule'[k] = IF k = id THEN m ELSE originModule[k]
    BY <1>1, ZenonT(60) DEF bindAggregateOrigin, DeploymentTypeOK
<1> QED BY <1>1, <1>2, ZenonT(60) DEF OneOriginPerAggregate

-----------------------------------------------------------------------------
(* Agreements and the listings they were made from.                        *)

(* The conjuncts of IndInv that are not types.                             *)
Core ==
    /\ ReferencesResolve
    /\ LockMatchesLiveListing
    /\ SellerOwnsWhileListed
    /\ AgreementMirrorsListing
    /\ OneOriginPerAggregate

(* What an agreement in use says of the listing and the offer behind it.   *)
LEMMA MirrorFacts ==
    ASSUME NEW n, NEW c, MirrorsItsListing(n, c)
    PROVE  /\ agreements[n][c].listingId \in ListingIds /\ agreements[n][c].offerId \in OfferIds
           /\ offers[n][agreements[n][c].offerId].state = "Accepted"
           /\ listings[n][agreements[n][c].listingId].state =
                  ListingStateUnder(agreements[n][c].state)
           /\ listings[n][agreements[n][c].listingId].batteryId = agreements[n][c].batteryId
           /\ listings[n][agreements[n][c].listingId].sellerOrganizationId =
                  agreements[n][c].sellerOrganizationId
    BY ZenonT(60) DEF MirrorsItsListing, Mirrors

(* What an agreement on record says of its listing and its offer: both     *)
(* exist, the offer was accepted and the listing left the market.          *)
LEMMA AgreementFacts ==
    ASSUME Core, NEW n \in Marketplaces, NEW c \in AgreementIds, agreements[n][c].state # "Unset"
    PROVE  /\ MirrorsItsListing(n, c)
           /\ agreements[n][c].listingId \in ListingIds /\ agreements[n][c].offerId \in OfferIds
           /\ offers[n][agreements[n][c].offerId].state = "Accepted"
           /\ listings[n][agreements[n][c].listingId].state \in {"Matched", "ClosedSettled", "ClosedCancelled"}
<1>1. MirrorsItsListing(n, c)
    BY ZenonT(60) DEF Core, AgreementMirrorsListing, EveryAgreementMirrors
<1> QED BY <1>1, MirrorFacts, ZenonT(60) DEF ListingStateUnder

(* An agreement whose terms stay, whose listing keeps its own and whose    *)
(* states still match.                                                     *)
LEMMA MirrorMoves ==
    ASSUME NEW n, NEW c, MirrorsItsListing(n, c), SameTerms(n, c),
           SameListing(n, agreements[n][c].listingId),
           listings'[n][agreements[n][c].listingId].acceptedOfferId =
               listings[n][agreements[n][c].listingId].acceptedOfferId,
           listings'[n][agreements[n][c].listingId].state =
               ListingStateUnder(agreements'[n][c].state),
           offers'[n][agreements[n][c].offerId].state = "Accepted"
    PROVE  MirrorsItsListing(n, c)'
<1> DEFINE x == agreements[n][c]
           y == listings[n][x.listingId]
           u == agreements'[n][c]
           v == listings'[n][x.listingId]
           w == offers'[n][x.offerId]
<1>1. u.listingId = x.listingId /\ u.offerId = x.offerId /\ u.batteryId = x.batteryId
      /\ u.sellerOrganizationId = x.sellerOrganizationId
    BY ZenonT(60) DEF SameTerms
<1>2. v.batteryId = y.batteryId /\ v.sellerOrganizationId = y.sellerOrganizationId
    BY ZenonT(60) DEF SameListing
<1>3. Mirrors(x, y, offers[n][x.offerId])
    BY ZenonT(60) DEF MirrorsItsListing
<1>4. v.acceptedOfferId = y.acceptedOfferId /\ w.state = "Accepted"
      /\ v.state = ListingStateUnder(u.state)
    OBVIOUS
<1>5. Mirrors(u, v, w)
  <2> HIDE DEF x, y, u, v, w
  <2> QED BY <1>1, <1>2, <1>3, <1>4, ZenonT(60) DEF Mirrors
<1>6. v = listings'[n][u.listingId] /\ w = offers'[n][u.offerId]
    BY <1>1, ZenonT(60)
<1>7. Mirrors(u, listings'[n][u.listingId], offers'[n][u.offerId])
    BY <1>5, <1>6, ZenonT(60)
<1> QED BY <1>7, ZenonT(60) DEF MirrorsItsListing

(* A listing that a step leaves alone.                                     *)
KeptListing(n, k) ==
    /\ SameListing(n, k)
    /\ listings'[n][k].acceptedOfferId = listings[n][k].acceptedOfferId
    /\ listings'[n][k].state = listings[n][k].state

(* An agreement left alone, with its listing and offer.                    *)
LEMMA MirrorKept ==
    ASSUME NEW n, NEW c, MirrorsItsListing(n, c), SameTerms(n, c),
           agreements'[n][c].state = agreements[n][c].state,
           KeptListing(n, agreements[n][c].listingId),
           offers'[n][agreements[n][c].offerId].state = "Accepted"
    PROVE  MirrorsItsListing(n, c)'
<1>1. listings[n][agreements[n][c].listingId].state =
          ListingStateUnder(agreements[n][c].state)
    BY MirrorFacts, ZenonT(60)
<1> QED BY <1>1, MirrorMoves, ZenonT(60) DEF KeptListing

-----------------------------------------------------------------------------
(* A listing starts or ends, an agreement advances.                        *)

(* Steps that change neither locks, owners, listings, agreements nor       *)
(* origins, and that leave an accepted offer accepted.                     *)
LEMMA CoreUndisturbed ==
    ASSUME Core,
           UNCHANGED <<batteries, listings, agreements, originModule>>,
           \A n \in Marketplaces, k \in OfferIds :
               /\ offers[n][k].state = "Accepted" => offers'[n][k].state = "Accepted"
               /\ offers'[n][k].state # "Unset" =>
                    /\ offers'[n][k].listingId \in ListingIds
                    /\ offers'[n][k].buyerOrganizationId \in OrganizationIds
                    /\ offers'[n][k].buyerRefundAddress \in Accounts
    PROVE  Core'
<1>1. ReferencesResolve'
    BY ZenonT(60) DEF Core, ReferencesResolve
<1>2. LockMatchesLiveListing'
    BY SMTT(30) DEF Core, LockMatchesLiveListing, LiveListing
<1>3. SellerOwnsWhileListed'
    BY ZenonT(60) DEF Core, SellerOwnsWhileListed, LiveListing
<1>4. AgreementMirrorsListing'
  <2>1. ASSUME NEW n \in Marketplaces, NEW c \in AgreementIds, agreements'[n][c].state # "Unset"
        PROVE  MirrorsItsListing(n, c)'
    <3>1. /\ MirrorsItsListing(n, c) /\ agreements[n][c].offerId \in OfferIds
          /\ offers[n][agreements[n][c].offerId].state = "Accepted"
        BY <2>1, AgreementFacts, ZenonT(60)
    <3>2. offers'[n][agreements[n][c].offerId].state = "Accepted"
        BY <3>1, ZenonT(60)
    <3>3. SameTerms(n, c) /\ KeptListing(n, agreements[n][c].listingId)
        BY ZenonT(60) DEF SameTerms, SameListing, KeptListing
    <3> QED BY <3>1, <3>2, <3>3, MirrorKept, ZenonT(60)
  <2>2. OneAgreementPerListing'
      BY ZenonT(60) DEF Core, AgreementMirrorsListing, OneAgreementPerListing
  <2>3. MatchedListingsAgreed'
      BY ZenonT(60) DEF Core, AgreementMirrorsListing, MatchedListingsAgreed, LiveAgreement
  <2> QED BY <2>1, <2>2, <2>3, ZenonT(60) DEF AgreementMirrorsListing, EveryAgreementMirrors
<1>5. OneOriginPerAggregate'
    BY ZenonT(60) DEF Core, OneOriginPerAggregate
<1> QED BY <1>1, <1>2, <1>3, <1>4, <1>5, ZenonT(60) DEF Core

(* Steps that move one live agreement to another live state.               *)
LEMMA CoreWhenAgreementAdvances ==
    ASSUME Core, NEW m \in Marketplaces, NEW a \in AgreementIds,
           LiveAgreement(m, a), NEW s \in UnfundedStates \cup FundedStates,
           AgreementMoved(m, a, s),
           UNCHANGED <<batteries, listings, offers, originModule>>
    PROVE  Core'
<1>1. \A n \in Marketplaces, c \in AgreementIds :
          /\ LiveAgreement(n, c)' <=> LiveAgreement(n, c)
          /\ agreements'[n][c].state = "Unset" <=> agreements[n][c].state = "Unset"
    BY ZenonT(60) DEF LiveAgreement, AgreementMoved, UnfundedStates, FundedStates
<1>2. ReferencesResolve'
    BY <1>1, SMTT(60) DEF Core, ReferencesResolve, SameTerms, AgreementMoved
<1>3. LockMatchesLiveListing'
    BY SMTT(60) DEF Core, LockMatchesLiveListing, LiveListing
<1>4. SellerOwnsWhileListed'
    BY ZenonT(60) DEF Core, SellerOwnsWhileListed, LiveListing
<1>5. AgreementMirrorsListing'
  <2>1. ASSUME NEW n \in Marketplaces, NEW c \in AgreementIds, agreements'[n][c].state # "Unset"
        PROVE  MirrorsItsListing(n, c)'
    <3>1. MirrorsItsListing(n, c) /\ offers[n][agreements[n][c].offerId].state = "Accepted"
        BY <1>1, <2>1, AgreementFacts, ZenonT(60)
    <3>2. listings[n][agreements[n][c].listingId].state =
              ListingStateUnder(agreements[n][c].state)
        BY <3>1, MirrorFacts, ZenonT(60)
    <3>3. /\ agreements'[n][c].state \in UnfundedStates \cup FundedStates
                <=> agreements[n][c].state \in UnfundedStates \cup FundedStates
          /\ agreements'[n][c].state = "Settled" <=> agreements[n][c].state = "Settled"
        BY ZenonT(60) DEF LiveAgreement, AgreementMoved, UnfundedStates, FundedStates
    <3>4. listings'[n][agreements[n][c].listingId].state =
              ListingStateUnder(agreements'[n][c].state)
        BY <3>2, <3>3, ZenonT(60) DEF ListingStateUnder
    <3>5. SameTerms(n, c) /\ SameListing(n, agreements[n][c].listingId)
        BY ZenonT(60) DEF SameListing, AgreementMoved
    <3> QED BY <3>1, <3>4, <3>5, MirrorMoves, ZenonT(60)
  <2>2. OneAgreementPerListing'
      BY <1>1, SMTT(30) DEF Core, AgreementMirrorsListing, OneAgreementPerListing, SameTerms, AgreementMoved
  <2>3. MatchedListingsAgreed'
      BY <1>1, SMTT(30) DEF Core, AgreementMirrorsListing, MatchedListingsAgreed, SameTerms, AgreementMoved
  <2> QED BY <2>1, <2>2, <2>3, ZenonT(60) DEF AgreementMirrorsListing, EveryAgreementMirrors
<1>6. OneOriginPerAggregate'
    BY <1>1, ZenonT(60) DEF Core, OneOriginPerAggregate
<1> QED BY <1>2, <1>3, <1>4, <1>5, <1>6, ZenonT(60) DEF Core

(* What createListing does to listings and batteries.                      *)
ListingMade(m, l, b, org) ==
    \A n \in Marketplaces, k \in ListingIds :
        IF n = m /\ k = l
        THEN /\ listings'[n][k].batteryId = b
             /\ listings'[n][k].sellerOrganizationId = org
             /\ listings'[n][k].sellerPayoutAddress \in Accounts
             /\ listings'[n][k].state = "Active"
        ELSE listings'[n][k] = listings[n][k]

BatteryLocked(m, b) ==
    \A c \in SubjectIds :
        /\ batteries'[c].marketplaceLock = IF c = b THEN m ELSE batteries[c].marketplaceLock
        /\ batteries'[c].recordedOwner = batteries[c].recordedOwner

(* createListing: a battery without a lock becomes a live listing of m.    *)
LEMMA CoreWhenListed ==
    ASSUME Core, DeploymentTypeOK,
           NEW m \in Marketplaces, NEW l \in ListingIds, NEW b \in SubjectIds, NEW org \in OrganizationIds,
           batteries[b].marketplaceLock = Zero, batteries[b].recordedOwner = org,
           listings[m][l].state = "Unset",
           ListingMade(m, l, b, org), BatteryLocked(m, b),
           bindAggregateOrigin(m, l),
           UNCHANGED <<offers, agreements>>
    PROVE  Core'
<1>1. \A n \in Marketplaces, k \in ListingIds : LiveListing(n, k) => listings[n][k].batteryId # b
    BY ZeroAssumption, SMTT(30) DEF Core, LockMatchesLiveListing
<1>2. \A n \in Marketplaces, k \in ListingIds :
          LiveListing(n, k)' <=> LiveListing(n, k) \/ (n = m /\ k = l)
    BY ZenonT(60) DEF LiveListing, ListingMade
<1>3. \A n \in Marketplaces, k \in ListingIds :
          listings[n][k].state # "Unset" => listings[n][k].batteryId \in SubjectIds
    BY ZenonT(60) DEF Core, ReferencesResolve
<1>4. \A n \in Marketplaces, c \in AgreementIds :
          agreements[n][c].state # "Unset" => ~ (n = m /\ agreements[n][c].listingId = l)
    BY AgreementFacts, ZenonT(60)
<1>5. ReferencesResolve'
    BY SMTT(60) DEF Core, ReferencesResolve, ListingMade
<1>6. LockMatchesLiveListing'
  <2>1. \A n \in Marketplaces, k \in ListingIds :
            LiveListing(n, k)' => (batteries[listings[n][k].batteryId].marketplaceLock = n)'
      BY <1>1, <1>2, <1>3, SMTT(60) DEF Core, LockMatchesLiveListing, LiveListing, ListingMade, BatteryLocked
  <2>2. \A n \in Marketplaces, k, j \in ListingIds :
            LiveListing(n, k)' /\ LiveListing(n, j)' /\ listings'[n][k].batteryId = listings'[n][j].batteryId
            => k = j
      BY <1>1, <1>2, SMTT(30) DEF Core, LockMatchesLiveListing, ListingMade
  <2>3. \A c \in SubjectIds, n \in Marketplaces :
            batteries'[c].marketplaceLock = n =>
                \E k \in ListingIds : LiveListing(n, k)' /\ listings'[n][k].batteryId = c
    <3> SUFFICES ASSUME NEW c \in SubjectIds, NEW n \in Marketplaces, batteries'[c].marketplaceLock = n
                 PROVE  \E k \in ListingIds : LiveListing(n, k)' /\ listings'[n][k].batteryId = c
        OBVIOUS
    <3>1. CASE c = b
        BY <1>2, <3>1, ZeroAssumption, ZenonT(60) DEF ListingMade, BatteryLocked
    <3>2. CASE c # b
      <4>1. PICK k \in ListingIds : LiveListing(n, k) /\ listings[n][k].batteryId = c
          BY <3>2, ZenonT(60) DEF Core, LockMatchesLiveListing, BatteryLocked
      <4>2. ~ (n = m /\ k = l)
          BY <4>1, ZenonT(60) DEF LiveListing
      <4> QED BY <1>2, <4>1, <4>2, ZenonT(60) DEF ListingMade
    <3> QED BY <3>1, <3>2, ZenonT(60)
  <2> QED BY <2>1, <2>2, <2>3, ZenonT(60) DEF LockMatchesLiveListing
<1>7. SellerOwnsWhileListed'
    BY <1>1, <1>2, <1>3, SMTT(30) DEF Core, SellerOwnsWhileListed, LiveListing, ListingMade, BatteryLocked
<1>8. AgreementMirrorsListing'
  <2>1. ASSUME NEW n \in Marketplaces, NEW c \in AgreementIds, agreements'[n][c].state # "Unset"
        PROVE  MirrorsItsListing(n, c)'
    <3>1. /\ MirrorsItsListing(n, c) /\ agreements[n][c].listingId \in ListingIds
          /\ offers[n][agreements[n][c].offerId].state = "Accepted"
        BY <2>1, AgreementFacts, ZenonT(60)
    <3>2. listings'[n][agreements[n][c].listingId] = listings[n][agreements[n][c].listingId]
        BY <1>4, <2>1, <3>1, ZenonT(60) DEF ListingMade
    <3>3. SameTerms(n, c) /\ KeptListing(n, agreements[n][c].listingId)
        BY <3>2, ZenonT(60) DEF SameTerms, SameListing, KeptListing
    <3> QED BY <3>1, <3>2, <3>3, MirrorKept, ZenonT(60)
  <2>2. OneAgreementPerListing'
      BY ZenonT(60) DEF Core, AgreementMirrorsListing, OneAgreementPerListing
  <2>3. MatchedListingsAgreed'
      BY SMTT(60) DEF Core, AgreementMirrorsListing, MatchedListingsAgreed, LiveAgreement, ListingMade
  <2> QED BY <2>1, <2>2, <2>3, ZenonT(60) DEF AgreementMirrorsListing, EveryAgreementMirrors
<1>9. OneOriginPerAggregate'
    BY OriginBound DEF Core, OneOriginPerAggregate, ListingMade
<1> QED BY <1>5, <1>6, <1>7, <1>8, <1>9, ZenonT(60) DEF Core

(* What ending or closing does to the battery.                             *)
BatteryUnlocked(b) ==
    \A c \in SubjectIds :
        /\ batteries'[c].marketplaceLock = IF c = b THEN Zero ELSE batteries[c].marketplaceLock
        /\ c # b => batteries'[c].recordedOwner = batteries[c].recordedOwner

(* unlockForMarketplace and transferRecordedOwnership end a lock.          *)
LEMMA LockEnds ==
    ASSUME RegistryTypeOK, NEW m \in Marketplaces, NEW b \in SubjectIds, NEW org,
           unlockForMarketplace(m, b) \/ transferRecordedOwnership(m, b, org)
    PROVE  BatteryUnlocked(b)
<1> SUFFICES ASSUME NEW c \in SubjectIds
             PROVE  /\ batteries'[c].marketplaceLock = IF c = b THEN Zero ELSE batteries[c].marketplaceLock
                    /\ c # b => batteries'[c].recordedOwner = batteries[c].recordedOwner
    BY ZenonT(60) DEF BatteryUnlocked
<1>1. /\ unlockForMarketplace(m, b) =>
            /\ batteries'[c].marketplaceLock = IF c = b THEN Zero ELSE batteries[c].marketplaceLock
            /\ batteries'[c].recordedOwner = batteries[c].recordedOwner
      /\ transferRecordedOwnership(m, b, org) =>
            /\ batteries'[c].marketplaceLock = IF c = b THEN Zero ELSE batteries[c].marketplaceLock
            /\ batteries'[c].recordedOwner = IF c = b THEN org ELSE batteries[c].recordedOwner
    BY LocksAndOwnersAssigned, ZenonT(60)
<1> QED BY <1>1, ZenonT(60)

(* A live listing ends and its battery is unlocked: every other live       *)
(* listing, of any marketplace, keeps its own lock and owner.              *)
LEMMA LockReleased ==
    ASSUME Core, NEW m \in Marketplaces, NEW l \in ListingIds, NEW s,
           LiveListing(m, l), s \notin {"Unset", "Active", "Matched"},
           ListingMoved(m, l, s), BatteryUnlocked(listings[m][l].batteryId)
    PROVE  LockMatchesLiveListing' /\ SellerOwnsWhileListed'
<1> DEFINE b == listings[m][l].batteryId
<1>1. \A n \in Marketplaces, k \in ListingIds :
          LiveListing(n, k)' <=> LiveListing(n, k) /\ ~ (n = m /\ k = l)
    BY ZenonT(60) DEF LiveListing, ListingMoved
<1>2. \A n \in Marketplaces, k \in ListingIds : LiveListing(n, k) => listings[n][k].batteryId \in SubjectIds
    BY ZenonT(60) DEF Core, ReferencesResolve, LiveListing
<1>3. \A n \in Marketplaces, k \in ListingIds :
          LiveListing(n, k) /\ listings[n][k].batteryId = b => n = m /\ k = l
    BY SMTT(30) DEF Core, LockMatchesLiveListing
<1>4. \A n \in Marketplaces, k \in ListingIds :
          /\ listings'[n][k].batteryId = listings[n][k].batteryId
          /\ listings'[n][k].sellerOrganizationId = listings[n][k].sellerOrganizationId
    BY ZenonT(60) DEF ListingMoved, SameListing
<1>5. \A c \in SubjectIds : c # b =>
          /\ batteries'[c].marketplaceLock = batteries[c].marketplaceLock
          /\ batteries'[c].recordedOwner = batteries[c].recordedOwner
    BY ZenonT(60) DEF BatteryUnlocked
<1>6. b \in SubjectIds => batteries'[b].marketplaceLock = Zero
    BY ZenonT(60) DEF BatteryUnlocked
<1> HIDE DEF b
<1>7. \A n \in Marketplaces, k \in ListingIds :
          LiveListing(n, k)' => (batteries[listings[n][k].batteryId].marketplaceLock = n)'
    BY <1>1, <1>2, <1>3, <1>4, <1>5, SMTT(60) DEF Core, LockMatchesLiveListing
<1>8. \A n \in Marketplaces, k, j \in ListingIds :
          LiveListing(n, k)' /\ LiveListing(n, j)' /\ listings'[n][k].batteryId = listings'[n][j].batteryId
          => k = j
    BY <1>1, <1>4, SMTT(60) DEF Core, LockMatchesLiveListing
<1>9. ASSUME NEW c \in SubjectIds, NEW n \in Marketplaces, batteries'[c].marketplaceLock = n
      PROVE  \E k \in ListingIds : LiveListing(n, k)' /\ listings'[n][k].batteryId = c
  <2>1. c # b /\ batteries[c].marketplaceLock = n
      BY <1>5, <1>6, <1>9, ZeroAssumption, ZenonT(60)
  <2>2. PICK k \in ListingIds : LiveListing(n, k) /\ listings[n][k].batteryId = c
      BY <2>1, ZenonT(60) DEF Core, LockMatchesLiveListing
  <2>3. ~ (n = m /\ k = l)
      BY <2>1, <2>2, ZenonT(60) DEF b
  <2> QED BY <1>1, <1>4, <2>2, <2>3, ZenonT(60)
<1>10. LockMatchesLiveListing'
    BY <1>7, <1>8, <1>9, ZenonT(60) DEF LockMatchesLiveListing
<1>11. SellerOwnsWhileListed'
    BY <1>1, <1>2, <1>3, <1>4, <1>5, SMTT(30) DEF Core, SellerOwnsWhileListed
<1> QED BY <1>10, <1>11, ZenonT(60)

(* withdrawListing and expireListing: an active listing ends and unlocks.  *)
LEMMA CoreWhenListingEnds ==
    ASSUME Core, NEW m \in Marketplaces, NEW l \in ListingIds, NEW s \in {"Withdrawn", "Expired"},
           listings[m][l].state = "Active",
           ListingMoved(m, l, s), BatteryUnlocked(listings[m][l].batteryId),
           UNCHANGED <<offers, agreements, originModule>>
    PROVE  Core'
<1>1. \A n \in Marketplaces, k \in ListingIds :
          listings'[n][k].state = "Unset" <=> listings[n][k].state = "Unset"
    BY ZenonT(60) DEF ListingMoved
<1>2. LockMatchesLiveListing' /\ SellerOwnsWhileListed'
    BY LockReleased, SMTT(60) DEF LiveListing
<1>3. ReferencesResolve'
    BY <1>1 DEF Core, ReferencesResolve, SameListing, ListingMoved
<1>4. AgreementMirrorsListing'
  <2>1. \A n \in Marketplaces, c \in AgreementIds :
            agreements[n][c].state # "Unset" => ~ (n = m /\ agreements[n][c].listingId = l)
      BY AgreementFacts, ZenonT(60)
  <2>2. ASSUME NEW n \in Marketplaces, NEW c \in AgreementIds, agreements'[n][c].state # "Unset"
        PROVE  MirrorsItsListing(n, c)'
    <3>1. /\ MirrorsItsListing(n, c) /\ agreements[n][c].listingId \in ListingIds
          /\ offers[n][agreements[n][c].offerId].state = "Accepted"
        BY <2>2, AgreementFacts, ZenonT(60)
    <3>2. KeptListing(n, agreements[n][c].listingId)
        BY <2>1, <2>2, <3>1, ZenonT(60) DEF ListingMoved, KeptListing
    <3>3. SameTerms(n, c)
        BY ZenonT(60) DEF SameTerms
    <3> QED BY <3>1, <3>2, <3>3, MirrorKept, ZenonT(60)
  <2>3. OneAgreementPerListing'
      BY ZenonT(60) DEF Core, AgreementMirrorsListing, OneAgreementPerListing
  <2>4. MatchedListingsAgreed'
    <3>1. MatchedListingsAgreed
        BY ZenonT(60) DEF Core, AgreementMirrorsListing
    <3>2. \A n \in Marketplaces, k \in ListingIds :
              listings'[n][k].state = "Matched" => listings[n][k].state = "Matched"
        BY ZenonT(60) DEF ListingMoved
    <3> QED BY <3>1, <3>2, ZenonT(60) DEF MatchedListingsAgreed, LiveAgreement
  <2> QED BY <2>2, <2>3, <2>4, ZenonT(60) DEF AgreementMirrorsListing, EveryAgreementMirrors
<1>5. OneOriginPerAggregate'
    BY <1>1, ZenonT(60) DEF Core, OneOriginPerAggregate
<1> QED BY <1>2, <1>3, <1>4, <1>5, ZenonT(60) DEF Core

-----------------------------------------------------------------------------
(* An agreement is made, and closes.                                       *)

(* What selectOfferAndCreateAgreement does to listings and agreements.     *)
ListingMatched(m, l, o) ==
    \A n \in Marketplaces, k \in ListingIds :
        /\ SameListing(n, k)
        /\ listings'[n][k].acceptedOfferId = IF n = m /\ k = l THEN o ELSE listings[n][k].acceptedOfferId
        /\ listings'[n][k].state = IF n = m /\ k = l THEN "Matched" ELSE listings[n][k].state

AgreementMade(m, l, o, a) ==
    \A n \in Marketplaces, c \in AgreementIds :
        IF n = m /\ c = a
        THEN /\ agreements'[n][c].listingId = l
             /\ agreements'[n][c].offerId = o
             /\ agreements'[n][c].batteryId = listings[m][l].batteryId
             /\ agreements'[n][c].sellerOrganizationId = listings[m][l].sellerOrganizationId
             /\ agreements'[n][c].buyerOrganizationId = offers[m][o].buyerOrganizationId
             /\ agreements'[n][c].sellerPayoutAddress = listings[m][l].sellerPayoutAddress
             /\ agreements'[n][c].buyerRefundAddress = offers[m][o].buyerRefundAddress
             /\ agreements'[n][c].state = "AwaitingBuyerConfirmation"
        ELSE agreements'[n][c] = agreements[n][c]

(* selectOfferAndCreateAgreement: an active listing is matched and gets    *)
(* its agreement; its battery stays locked.                                *)
LEMMA CoreWhenMatched ==
    ASSUME Core, DeploymentTypeOK,
           NEW m \in Marketplaces, NEW l \in ListingIds, NEW o \in OfferIds, NEW a \in AgreementIds,
           listings[m][l].state = "Active", offers[m][o].state = "Submitted",
           ListingMatched(m, l, o), OfferMoved(m, o, "Accepted"), AgreementMade(m, l, o, a),
           bindAggregateOrigin(m, a),
           UNCHANGED batteries
    PROVE  Core'
<1>1. \A n \in Marketplaces, k \in ListingIds :
          /\ LiveListing(n, k)' <=> LiveListing(n, k)
          /\ listings'[n][k].state = "Unset" <=> listings[n][k].state = "Unset"
    BY ZenonT(60) DEF LiveListing, ListingMatched
<1>2. ReferencesResolve'
  <2>1. \A n \in Marketplaces, c \in AgreementIds : agreements'[n][c].state # "Unset" =>
            /\ agreements'[n][c].batteryId \in SubjectIds
            /\ agreements'[n][c].buyerOrganizationId \in OrganizationIds
            /\ agreements'[n][c].sellerPayoutAddress \in Accounts
            /\ agreements'[n][c].buyerRefundAddress \in Accounts
      BY DEF Core, ReferencesResolve, AgreementMade
  <2>2. \A n \in Marketplaces, k \in ListingIds : listings'[n][k].state # "Unset" =>
            /\ listings'[n][k].batteryId \in SubjectIds
            /\ listings'[n][k].sellerOrganizationId \in OrganizationIds
            /\ listings'[n][k].sellerPayoutAddress \in Accounts
      BY <1>1 DEF Core, ReferencesResolve, SameListing, ListingMatched
  <2>3. \A n \in Marketplaces, k \in OfferIds : offers'[n][k].state # "Unset" =>
            /\ offers'[n][k].listingId \in ListingIds
            /\ offers'[n][k].buyerOrganizationId \in OrganizationIds
            /\ offers'[n][k].buyerRefundAddress \in Accounts
      BY SMTT(60) DEF Core, ReferencesResolve, OfferMoved
  <2> QED BY <2>1, <2>2, <2>3, ZenonT(60) DEF ReferencesResolve
<1>0. \A n \in Marketplaces, k \in ListingIds :
          /\ listings'[n][k].batteryId = listings[n][k].batteryId
          /\ listings'[n][k].sellerOrganizationId = listings[n][k].sellerOrganizationId
    BY ZenonT(60) DEF ListingMatched, SameListing
<1>3. LockMatchesLiveListing'
  <2>0. LockMatchesLiveListing /\ batteries' = batteries
      BY ZenonT(60) DEF Core
  <2>1. \A n \in Marketplaces, k \in ListingIds :
            LiveListing(n, k)' => batteries'[listings'[n][k].batteryId].marketplaceLock = n
      BY <1>0, <1>1, <2>0, SMTT(60) DEF LockMatchesLiveListing
  <2>2. \A n \in Marketplaces, j, k \in ListingIds :
            /\ LiveListing(n, j)' /\ LiveListing(n, k)'
            /\ listings'[n][j].batteryId = listings'[n][k].batteryId
            => j = k
      BY <1>0, <1>1, <2>0, SMTT(60) DEF LockMatchesLiveListing
  <2>3. \A b \in SubjectIds, n \in Marketplaces :
            batteries'[b].marketplaceLock = n =>
                \E k \in ListingIds : LiveListing(n, k)' /\ listings'[n][k].batteryId = b
      BY <1>0, <1>1, <2>0, SMTT(60) DEF LockMatchesLiveListing
  <2> QED BY <2>1, <2>2, <2>3, ZenonT(60) DEF LockMatchesLiveListing
<1>4. SellerOwnsWhileListed'
  <2>0. SellerOwnsWhileListed /\ batteries' = batteries
      BY ZenonT(60) DEF Core
  <2>1. \A n \in Marketplaces, k \in ListingIds : LiveListing(n, k)' =>
            batteries'[listings'[n][k].batteryId].recordedOwner = listings'[n][k].sellerOrganizationId
      BY <1>0, <1>1, <2>0, SMTT(60) DEF SellerOwnsWhileListed
  <2> QED BY <2>1, ZenonT(60) DEF SellerOwnsWhileListed
<1>5. AgreementMirrorsListing'
  <2>1. \A n \in Marketplaces, c \in AgreementIds :
            agreements[n][c].state # "Unset" => ~ (n = m /\ agreements[n][c].listingId = l)
      BY AgreementFacts, ZenonT(60)
  <2>2. \A n \in Marketplaces, c \in AgreementIds :
            LiveAgreement(n, c)' <=> LiveAgreement(n, c) \/ (n = m /\ c = a)
      BY ZenonT(60) DEF LiveAgreement, UnfundedStates, AgreementMade
  <2>3. agreements[m][a].state = "Unset"
      BY OriginBound, ZenonT(60) DEF Core
  <2>4. \A n \in Marketplaces, c \in AgreementIds : ~ (n = m /\ c = a) =>
            /\ agreements'[n][c] = agreements[n][c]
            /\ LiveAgreement(n, c)' <=> LiveAgreement(n, c)
      BY <2>2, ZenonT(60) DEF AgreementMade
  <2>5. ASSUME NEW n \in Marketplaces, NEW c \in AgreementIds, agreements'[n][c].state # "Unset"
        PROVE  MirrorsItsListing(n, c)'
    <3>1. CASE n = m /\ c = a
      <4>1. /\ agreements'[m][a].listingId = l /\ agreements'[m][a].offerId = o
            /\ agreements'[m][a].batteryId = listings[m][l].batteryId
            /\ agreements'[m][a].sellerOrganizationId = listings[m][l].sellerOrganizationId
          BY ZenonT(60) DEF AgreementMade
      <4>2. /\ listings'[m][l].batteryId = listings[m][l].batteryId
            /\ listings'[m][l].sellerOrganizationId = listings[m][l].sellerOrganizationId
            /\ listings'[m][l].acceptedOfferId = o /\ listings'[m][l].state = "Matched"
          BY ZenonT(60) DEF ListingMatched, SameListing
      <4>3. offers'[m][o].state = "Accepted"
          BY ZenonT(60) DEF OfferMoved
      <4>4. agreements'[m][a].state \in UnfundedStates \cup FundedStates
          BY ZenonT(60) DEF AgreementMade, UnfundedStates
      <4>5. Mirrors(agreements'[m][a], listings'[m][l], offers'[m][o])
          BY <4>1, <4>2, <4>3, <4>4, ZenonT(60) DEF Mirrors, ListingStateUnder
      <4> QED BY <3>1, <4>1, <4>5, ZenonT(60) DEF MirrorsItsListing
    <3>2. CASE ~ (n = m /\ c = a)
      <4>0. agreements'[n][c] = agreements[n][c]
          BY <2>4, <3>2, ZenonT(30)
      <4>01. agreements[n][c].state # "Unset"
          BY <2>5, <4>0, ZenonT(60)
      <4>1. /\ agreements'[n][c] = agreements[n][c] /\ MirrorsItsListing(n, c)
            /\ agreements[n][c].listingId \in ListingIds /\ agreements[n][c].offerId \in OfferIds
            /\ offers[n][agreements[n][c].offerId].state = "Accepted"
          BY <4>0, <4>01, AgreementFacts, ZenonT(30)
      <4>2. ~ (n = m /\ agreements[n][c].listingId = l)
          BY <2>1, <2>5, <4>1, ZenonT(60)
      <4>3. offers'[n][agreements[n][c].offerId].state = "Accepted"
          BY <4>1, ZenonT(60) DEF OfferMoved
      <4>4. KeptListing(n, agreements[n][c].listingId)
          BY <4>1, <4>2, ZenonT(60) DEF ListingMatched, KeptListing
      <4>5. SameTerms(n, c)
          BY <4>1, ZenonT(60) DEF SameTerms
      <4> QED BY <4>1, <4>3, <4>4, <4>5, MirrorKept, ZenonT(60)
    <3> QED BY <3>1, <3>2, ZenonT(60)
  <2>6. OneAgreementPerListing'
      BY <2>1, SMTT(30) DEF Core, AgreementMirrorsListing, OneAgreementPerListing, AgreementMade
  <2>7. MatchedListingsAgreed'
    <3> SUFFICES ASSUME NEW n \in Marketplaces, NEW k \in ListingIds, listings'[n][k].state = "Matched"
                 PROVE  \E c \in AgreementIds : LiveAgreement(n, c)' /\ agreements'[n][c].listingId = k
        BY ZenonT(60) DEF MatchedListingsAgreed
    <3>1. CASE n = m /\ k = l
        BY <2>2, <3>1, ZenonT(60) DEF AgreementMade
    <3>2. CASE ~ (n = m /\ k = l)
      <4>1. PICK c \in AgreementIds : LiveAgreement(n, c) /\ agreements[n][c].listingId = k
          BY <3>2, SMTT(30) DEF Core, AgreementMirrorsListing, MatchedListingsAgreed, ListingMatched
      <4>2. ~ (n = m /\ c = a)
          BY <2>3, <4>1, ZenonT(60) DEF LiveAgreement, UnfundedStates, FundedStates
      <4> QED BY <2>4, <4>1, <4>2, ZenonT(60)
    <3> QED BY <3>1, <3>2, ZenonT(60)
  <2> QED BY <2>5, <2>6, <2>7, ZenonT(60) DEF AgreementMirrorsListing, EveryAgreementMirrors
<1>6. OneOriginPerAggregate'
    BY OriginBound, <1>1, SMTT(30) DEF Core, OneOriginPerAggregate, AgreementMade
<1> QED BY <1>2, <1>3, <1>4, <1>5, <1>6, ZenonT(60) DEF Core

(* _releaseAndTransfer, _refundAndCancel, _cancelWithoutFunds: a live      *)
(* agreement closes with its listing, and the battery is unlocked; its     *)
(* owner may change.                                                       *)
LEMMA CoreWhenAgreementCloses ==
    ASSUME Core, NEW m \in Marketplaces, NEW a \in AgreementIds, NEW s \in ClosedStates,
           LiveAgreement(m, a),
           AgreementMoved(m, a, s),
           ListingMoved(m, agreements[m][a].listingId, ListingStateUnder(s)),
           BatteryUnlocked(agreements[m][a].batteryId),
           UNCHANGED <<offers, originModule>>
    PROVE  Core'
<1> DEFINE l == agreements[m][a].listingId
<1>1. /\ l \in ListingIds /\ listings[m][l].state = "Matched"
      /\ listings[m][l].batteryId = agreements[m][a].batteryId
      /\ agreements[m][a].state # "Unset" /\ MirrorsItsListing(m, a)
  <2>1. agreements[m][a].state # "Unset"
      BY ZenonT(60) DEF LiveAgreement, UnfundedStates, FundedStates
  <2>2. MirrorsItsListing(m, a)
      BY <2>1, AgreementFacts, ZenonT(60)
  <2> QED BY <2>1, <2>2, MirrorFacts, ZenonT(60) DEF LiveAgreement, ListingStateUnder
<1> HIDE DEF l
<1>0. ListingStateUnder(s) \in {"ClosedSettled", "ClosedCancelled"}
    BY ZenonT(60) DEF ListingStateUnder, UnfundedStates, FundedStates, ClosedStates
<1>2. \A n \in Marketplaces, k \in ListingIds :
          listings'[n][k].state = "Unset" <=> listings[n][k].state = "Unset"
    BY <1>0, <1>1, ZenonT(60) DEF ListingMoved, l
<1>3. \A n \in Marketplaces, c \in AgreementIds :
          /\ agreements'[n][c].state = "Unset" <=> agreements[n][c].state = "Unset"
          /\ LiveAgreement(n, c)' <=> LiveAgreement(n, c) /\ ~ (n = m /\ c = a)
    BY <1>1, ZenonT(60) DEF LiveAgreement, AgreementMoved, UnfundedStates, FundedStates, ClosedStates
<1>4. ReferencesResolve'
  <2>1. \A n \in Marketplaces, c \in AgreementIds : agreements'[n][c].state # "Unset" =>
            /\ agreements'[n][c].batteryId \in SubjectIds
            /\ agreements'[n][c].buyerOrganizationId \in OrganizationIds
            /\ agreements'[n][c].sellerPayoutAddress \in Accounts
            /\ agreements'[n][c].buyerRefundAddress \in Accounts
    <3> SUFFICES ASSUME NEW n \in Marketplaces, NEW c \in AgreementIds, agreements'[n][c].state # "Unset"
                 PROVE  /\ agreements'[n][c].batteryId \in SubjectIds
                        /\ agreements'[n][c].buyerOrganizationId \in OrganizationIds
                        /\ agreements'[n][c].sellerPayoutAddress \in Accounts
                        /\ agreements'[n][c].buyerRefundAddress \in Accounts
        BY ZenonT(60)
    <3>1. agreements[n][c].state # "Unset"
        BY <1>3, ZenonT(60)
    <3>2. SameTerms(n, c)
        BY ZenonT(60) DEF AgreementMoved
    <3>3. /\ agreements[n][c].batteryId \in SubjectIds
          /\ agreements[n][c].buyerOrganizationId \in OrganizationIds
          /\ agreements[n][c].sellerPayoutAddress \in Accounts
          /\ agreements[n][c].buyerRefundAddress \in Accounts
        BY <3>1, ZenonT(30) DEF Core, ReferencesResolve
    <3> QED BY <3>2, <3>3, ZenonT(60) DEF SameTerms
  <2>2. \A n \in Marketplaces, k \in ListingIds : listings'[n][k].state # "Unset" =>
            /\ listings'[n][k].batteryId \in SubjectIds
            /\ listings'[n][k].sellerOrganizationId \in OrganizationIds
            /\ listings'[n][k].sellerPayoutAddress \in Accounts
      BY <1>2, SMTT(30) DEF Core, ReferencesResolve, SameListing, ListingMoved
  <2> QED BY <2>1, <2>2, ZenonT(30) DEF Core, ReferencesResolve
<1>5. LockMatchesLiveListing' /\ SellerOwnsWhileListed'
  <2>1. LiveListing(m, l)
      BY <1>1, ZenonT(60) DEF LiveListing
  <2> QED BY <1>0, <1>1, <2>1, LockReleased, ZenonT(60) DEF l
<1>6. AgreementMirrorsListing'
  <2>1. OneAgreementPerListing
      BY ZenonT(60) DEF Core, AgreementMirrorsListing
  <2>2. \A n \in Marketplaces, c \in AgreementIds :
            agreements[n][c].state # "Unset" /\ ~ (n = m /\ c = a) =>
                ~ (n = m /\ agreements[n][c].listingId = l)
    <3>1. \A c \in AgreementIds : agreements[m][c].state # "Unset" /\ agreements[m][c].listingId = l => c = a
        BY <1>1, <2>1, ZenonT(60) DEF OneAgreementPerListing, l
    <3> QED BY <3>1, ZenonT(60)
  <2>3. ASSUME NEW n \in Marketplaces, NEW c \in AgreementIds, agreements'[n][c].state # "Unset"
        PROVE  MirrorsItsListing(n, c)'
    <3>1. CASE n = m /\ c = a
      <4>1. SameTerms(m, a) /\ SameListing(m, l) /\ agreements'[m][a].state = s
          BY <1>1, ZenonT(60) DEF AgreementMoved, ListingMoved
      <4>2. /\ listings'[m][l].acceptedOfferId = listings[m][l].acceptedOfferId
            /\ listings'[m][l].state = ListingStateUnder(s)
          BY <1>1, ZenonT(60) DEF ListingMoved, l
      <4>3. offers'[m][agreements[m][a].offerId].state = "Accepted"
          BY <1>1, AgreementFacts, ZenonT(60)
      <4>4. MirrorsItsListing(m, a)'
          BY <1>1, <4>1, <4>2, <4>3, MirrorMoves, ZenonT(60) DEF l
      <4> QED BY <3>1, <4>4, ZenonT(60)
    <3>2. CASE ~ (n = m /\ c = a)
      <4>1. SameTerms(n, c) /\ agreements'[n][c].state = agreements[n][c].state
          BY <3>2, ZenonT(60) DEF AgreementMoved
      <4>2. MirrorsItsListing(n, c) /\ ~ (n = m /\ agreements[n][c].listingId = l)
          BY <2>2, <2>3, <3>2, <4>1, AgreementFacts, ZenonT(60)
      <4>3. /\ agreements[n][c].listingId \in ListingIds
            /\ offers'[n][agreements[n][c].offerId].state = "Accepted"
          BY <4>2, MirrorFacts, ZenonT(30)
      <4>4. KeptListing(n, agreements[n][c].listingId)
          BY <4>2, <4>3, ZenonT(60) DEF ListingMoved, l, KeptListing
      <4> QED BY <4>1, <4>2, <4>3, <4>4, MirrorKept, ZenonT(60)
    <3> QED BY <3>1, <3>2, ZenonT(60)
  <2>4. OneAgreementPerListing'
    <3> SUFFICES ASSUME NEW n \in Marketplaces, NEW c \in AgreementIds, NEW d \in AgreementIds,
                        agreements'[n][c].state # "Unset", agreements'[n][d].state # "Unset",
                        agreements'[n][c].listingId = agreements'[n][d].listingId
                 PROVE  c = d
        BY ZenonT(60) DEF OneAgreementPerListing
    <3>1. /\ agreements[n][c].state # "Unset" /\ agreements[n][d].state # "Unset"
          /\ agreements'[n][c].listingId = agreements[n][c].listingId
          /\ agreements'[n][d].listingId = agreements[n][d].listingId
        BY <1>3, ZenonT(60) DEF SameTerms, AgreementMoved
    <3> QED BY <2>1, <3>1, ZenonT(60) DEF OneAgreementPerListing
  <2>5. MatchedListingsAgreed'
    <3> SUFFICES ASSUME NEW n \in Marketplaces, NEW k \in ListingIds, listings'[n][k].state = "Matched"
                 PROVE  \E c \in AgreementIds : LiveAgreement(n, c)' /\ agreements'[n][c].listingId = k
        BY ZenonT(60) DEF MatchedListingsAgreed
    <3>1. listings[n][k].state = "Matched" /\ ~ (n = m /\ k = l)
        BY <1>0, ZenonT(60) DEF ListingMoved, l
    <3>2. PICK c \in AgreementIds : LiveAgreement(n, c) /\ agreements[n][c].listingId = k
        BY <3>1, ZenonT(60) DEF Core, AgreementMirrorsListing, MatchedListingsAgreed
    <3>3. ~ (n = m /\ c = a)
        BY <3>1, <3>2, ZenonT(60) DEF l
    <3> QED BY <1>3, <3>2, <3>3, ZenonT(60) DEF SameTerms, AgreementMoved
  <2> QED BY <2>3, <2>4, <2>5, ZenonT(60) DEF AgreementMirrorsListing, EveryAgreementMirrors
<1>7. OneOriginPerAggregate'
    BY <1>2, <1>3, ZenonT(60) DEF Core, OneOriginPerAggregate
<1> QED BY <1>4, <1>5, <1>6, <1>7, ZenonT(60) DEF Core
-----------------------------------------------------------------------------
(* The steps of the system, one lemma per function or per group of         *)
(* functions that share their body.                                        *)

(* Nothing is listed when the deployment is complete.                      *)
LEMMA InitCore == Init => Core
<1> SUFFICES ASSUME Init PROVE Core
    OBVIOUS
<1>1. /\ \A m \in Marketplaces, l \in ListingIds : listings[m][l].state = "Unset"
      /\ \A m \in Marketplaces, o \in OfferIds : offers[m][o].state = "Unset"
      /\ \A m \in Marketplaces, a \in AgreementIds : agreements[m][a].state = "Unset"
      /\ \A b \in SubjectIds : batteries[b].marketplaceLock = Zero
    BY ZenonT(60) DEF Init, NoListing, NoOffer, NoAgreement
<1>2. ReferencesResolve /\ OneOriginPerAggregate
    BY <1>1, ZenonT(60) DEF ReferencesResolve, OneOriginPerAggregate
<1>3. LockMatchesLiveListing /\ SellerOwnsWhileListed
    BY <1>1, ZeroAssumption, ZenonT(60) DEF LockMatchesLiveListing, SellerOwnsWhileListed, LiveListing
<1>4. AgreementMirrorsListing
    BY <1>1, ZenonT(60) DEF AgreementMirrorsListing, EveryAgreementMirrors, OneAgreementPerListing, MatchedListingsAgreed
<1> QED BY <1>2, <1>3, <1>4, ZenonT(60) DEF Core

(* Blocks, and every call of governance.                                   *)
LEMMA EnvironmentPreserves ==
    ASSUME TypeOK, Core, NextBlock \/ (Governance /\ UNCHANGED now)
    PROVE  TypeOK' /\ Core'
<1> USE DEF TypeOK
<1>1. UNCHANGED marketVars /\ UNCHANGED batteries /\ UNCHANGED originModule
    BY ZenonT(60) DEF NextBlock, Governance, AuthorityChanges, registryVars, deploymentVars, setMarketplace,
           proposeModule, activateModule
<1>2. Core'
    BY <1>1, CoreUndisturbed, ZenonT(60) DEF marketVars, Core, ReferencesResolve
<1>3. now' \in Timestamps
    BY MaxTimestampAssumption DEF NextBlock, Tick, Timestamps
<1>4. RegistryTypeOK'
    BY RegistryCallsType, MarketplaceAssumption, ZenonT(60) DEF NextBlock, Governance, AuthorityChanges
<1>5. DeploymentTypeOK'
    BY DeploymentCallsType, MarketplaceAssumption, ZenonT(60) DEF NextBlock, Governance, AuthorityChanges
<1>6. authority' \subseteq Grants
    BY MarketplaceAssumption DEF NextBlock, Governance, AuthorityChanges, MarketTypeOK
<1>7. MarketTypeOK'
    BY <1>1, <1>6, ZenonT(60) DEF MarketTypeOK, marketVars
<1> QED BY <1>2, <1>3, <1>4, <1>5, <1>7, ZenonT(60)

(* createListing takes the battery's lock, binds the identifier and stores *)
(* one listing; nobody held the lock, so it is the only live listing there. *)
LEMMA createListingPreserves ==
    ASSUME TypeOK, Core, UNCHANGED now, NEW m \in Marketplaces, NEW sender \in Accounts,
           NEW l \in ListingIds, NEW b \in SubjectIds, NEW org \in OrganizationIds,
           NEW payout \in PayoutAddresses, NEW t \in Deadlines,
           createListing(m, sender, l, b, org, payout, t)
    PROVE  TypeOK' /\ Core'
<1> DEFINE new == [batteryId |-> b, sellerOrganizationId |-> org, acceptedOfferId |-> Zero,
                   seller |-> sender, sellerPayoutAddress |-> payout,
                   expiresAt |-> t, state |-> "Active"]
<1>1. new \in Listing
    BY MarketplaceAssumption, ZenonT(60) DEF Listing, ListingStates
<1>2. /\ listings' = [listings EXCEPT ![m][l] = new]
      /\ lockForMarketplace(m, b) /\ bindAggregateOrigin(m, l) /\ Listable(b, org)
      /\ listings[m][l].state = "Unset"
      /\ UNCHANGED <<authority, offers, agreements, protectedActions, withdrawableCredits, balance>>
    BY ZenonT(60) DEF createListing
<1>3. /\ new.batteryId = b /\ new.sellerOrganizationId = org
      /\ new.sellerPayoutAddress \in Accounts /\ new.state = "Active"
    BY MarketplaceAssumption, ZenonT(60)
<1> HIDE DEF new
<1>4. listings' \in [Marketplaces -> [ListingIds -> Listing]]
    BY <1>1, <1>2, NestedUpdate, ZenonT(60) DEF TypeOK, MarketTypeOK
<1>5. \A n \in Marketplaces, k \in ListingIds :
          listings'[n][k] = IF n = m /\ k = l THEN new ELSE listings[n][k]
    BY <1>2, ZenonT(60) DEF TypeOK, MarketTypeOK
<1>6. RegistryTypeOK' /\ DeploymentTypeOK'
    BY <1>2, RegistryCallsType, DeploymentCallsType, ZenonT(60) DEF TypeOK
<1>7. TypeOK'
    BY <1>2, <1>4, <1>6, ZenonT(60) DEF TypeOK, MarketTypeOK
<1>8. BatteryLocked(m, b)
    BY <1>2, LocksAndOwnersAssigned, SMTT(30) DEF TypeOK, BatteryLocked
<1>9. ListingMade(m, l, b, org)
    BY <1>3, <1>5, ZenonT(60) DEF ListingMade
<1>10. Core'
    BY <1>2, <1>8, <1>9, CoreWhenListed, ZenonT(60) DEF TypeOK, Listable
<1> QED BY <1>7, <1>10, ZenonT(60)

(* withdrawListing and expireListing.                                      *)
LEMMA CloseActiveListingPreserves ==
    ASSUME TypeOK, Core, UNCHANGED now, NEW m \in Marketplaces, NEW l \in ListingIds,
           NEW s \in {"Withdrawn", "Expired"}, CloseActiveListing(m, l, s)
    PROVE  TypeOK' /\ Core'
<1> DEFINE b == listings[m][l].batteryId
<1>1. /\ listings[m][l].state = "Active" /\ SetListingState(m, l, s) /\ unlockForMarketplace(m, b)
      /\ UNCHANGED <<deploymentVars, authority, offers, agreements, protectedActions,
                     withdrawableCredits, balance>>
    BY ZenonT(60) DEF CloseActiveListing
<1>2. b \in SubjectIds
    BY <1>1, ZenonT(60) DEF Core, ReferencesResolve
<1> HIDE DEF b
<1>3. listings' \in [Marketplaces -> [ListingIds -> Listing]]
    BY <1>1, AssignmentsType, ZenonT(60) DEF TypeOK, ListingStates
<1>4. RegistryTypeOK' /\ DeploymentTypeOK'
    BY <1>1, <1>2, RegistryCallsType, DeploymentCallsType, ZenonT(60) DEF TypeOK
<1>5. TypeOK'
    BY <1>1, <1>3, <1>4, ZenonT(60) DEF TypeOK, MarketTypeOK
<1>6. ListingMoved(m, l, s)
    BY <1>1, ListingStateAssigned, ZenonT(60) DEF TypeOK
<1>7. BatteryUnlocked(b)
    BY <1>1, <1>2, LockEnds, ZenonT(60) DEF TypeOK
<1>8. Core'
    BY <1>1, <1>6, <1>7, CoreWhenListingEnds, ZenonT(60) DEF b, deploymentVars
<1> QED BY <1>5, <1>8, ZenonT(60)

(* submitOffer stores one offer under an unused identifier; no agreement   *)
(* refers to it yet.                                                       *)
LEMMA submitOfferPreserves ==
    ASSUME TypeOK, Core, UNCHANGED now, NEW m \in Marketplaces, NEW sender \in Accounts,
           NEW o \in OfferIds, NEW l \in ListingIds, NEW org \in OrganizationIds,
           NEW amount \in Amounts, NEW refund \in RefundAddresses, NEW t \in Deadlines,
           submitOffer(m, sender, o, l, org, amount, refund, t)
    PROVE  TypeOK' /\ Core'
<1> DEFINE new == [listingId |-> l, buyerOrganizationId |-> org, buyer |-> sender,
                   buyerRefundAddress |-> refund, amount |-> amount,
                   expiresAt |-> t, state |-> "Submitted"]
<1>1. new \in Offer
    BY MarketplaceAssumption, ZenonT(60) DEF Offer, OfferStates
<1>2. /\ offers' = [offers EXCEPT ![m][o] = new] /\ offers[m][o].state = "Unset"
      /\ UNCHANGED <<registryVars, deploymentVars, authority, listings, agreements,
                     protectedActions, withdrawableCredits, balance>>
    BY ZenonT(60) DEF submitOffer
<1>3. /\ new.listingId \in ListingIds /\ new.buyerOrganizationId \in OrganizationIds
      /\ new.buyerRefundAddress \in Accounts
    BY MarketplaceAssumption, ZenonT(60)
<1> HIDE DEF new
<1>4. offers' \in [Marketplaces -> [OfferIds -> Offer]]
    BY <1>1, <1>2, NestedUpdate, ZenonT(60) DEF TypeOK, MarketTypeOK
<1>5. RegistryTypeOK' /\ DeploymentTypeOK'
    BY <1>2, RegistryCallsType, DeploymentCallsType, ZenonT(60) DEF TypeOK
<1>6. TypeOK'
    BY <1>2, <1>4, <1>5, ZenonT(60) DEF TypeOK, MarketTypeOK
<1>7. \A n \in Marketplaces, k \in OfferIds :
          offers'[n][k] = IF n = m /\ k = o THEN new ELSE offers[n][k]
    BY <1>2, ZenonT(60) DEF TypeOK, MarketTypeOK
<1>8. \A n \in Marketplaces, k \in OfferIds :
          /\ offers[n][k].state = "Accepted" => offers'[n][k].state = "Accepted"
          /\ offers'[n][k].state # "Unset" =>
               /\ offers'[n][k].listingId \in ListingIds
               /\ offers'[n][k].buyerOrganizationId \in OrganizationIds
               /\ offers'[n][k].buyerRefundAddress \in Accounts
    BY <1>2, <1>3, <1>7, SMTT(60) DEF Core, ReferencesResolve
<1>9. Core'
    BY <1>2, <1>8, CoreUndisturbed, ZenonT(60) DEF registryVars, deploymentVars
<1> QED BY <1>6, <1>9, ZenonT(60)

(* withdrawOffer, rejectOffer and expireOffer.                             *)
LEMMA CloseSubmittedOfferPreserves ==
    ASSUME TypeOK, Core, UNCHANGED now, NEW m \in Marketplaces, NEW o \in OfferIds,
           NEW s \in {"Withdrawn", "Rejected", "Expired"}, CloseSubmittedOffer(m, o, s)
    PROVE  TypeOK' /\ Core'
<1>1. /\ offers[m][o].state = "Submitted" /\ SetOfferState(m, o, s)
      /\ UNCHANGED <<registryVars, deploymentVars, authority, listings, agreements,
                     protectedActions, withdrawableCredits, balance>>
    BY ZenonT(60) DEF CloseSubmittedOffer
<1>2. offers' \in [Marketplaces -> [OfferIds -> Offer]]
    BY <1>1, AssignmentsType, ZenonT(60) DEF TypeOK, OfferStates
<1>3. RegistryTypeOK' /\ DeploymentTypeOK'
    BY <1>1, RegistryCallsType, DeploymentCallsType, ZenonT(60) DEF TypeOK
<1>4. TypeOK'
    BY <1>1, <1>2, <1>3, ZenonT(60) DEF TypeOK, MarketTypeOK
<1>5. OfferMoved(m, o, s)
    BY <1>1, OfferStateAssigned, ZenonT(60) DEF TypeOK
<1>6. Core'
  <2>1. \A n \in Marketplaces, k \in OfferIds :
            /\ offers[n][k].state = "Accepted" => offers'[n][k].state = "Accepted"
            /\ offers'[n][k].state # "Unset" =>
                 /\ offers'[n][k].listingId \in ListingIds
                 /\ offers'[n][k].buyerOrganizationId \in OrganizationIds
                 /\ offers'[n][k].buyerRefundAddress \in Accounts
    <3> SUFFICES ASSUME NEW n \in Marketplaces, NEW k \in OfferIds
                 PROVE  /\ offers[n][k].state = "Accepted" => offers'[n][k].state = "Accepted"
                        /\ offers'[n][k].state # "Unset" =>
                             /\ offers'[n][k].listingId \in ListingIds
                             /\ offers'[n][k].buyerOrganizationId \in OrganizationIds
                             /\ offers'[n][k].buyerRefundAddress \in Accounts
        BY ZenonT(60)
    <3>1. "Submitted" # "Accepted" /\ "Submitted" # "Unset"
        OBVIOUS
    <3>2. /\ offers'[n][k].listingId = offers[n][k].listingId
          /\ offers'[n][k].buyerOrganizationId = offers[n][k].buyerOrganizationId
          /\ offers'[n][k].buyerRefundAddress = offers[n][k].buyerRefundAddress
          /\ offers'[n][k].state = IF n = m /\ k = o THEN s ELSE offers[n][k].state
        BY <1>5, ZenonT(60) DEF OfferMoved
    <3>3. offers[n][k].state = "Accepted" => offers'[n][k].state = "Accepted"
        BY <1>1, <3>1, <3>2, ZenonT(60)
    <3>4. offers'[n][k].state # "Unset" => offers[n][k].state # "Unset"
        BY <1>1, <3>1, <3>2, ZenonT(60)
    <3> QED BY <3>2, <3>3, <3>4, ZenonT(60) DEF Core, ReferencesResolve
  <2> QED BY <1>1, <2>1, CoreUndisturbed, ZenonT(60) DEF registryVars, deploymentVars
<1> QED BY <1>4, <1>6, ZenonT(60)

(* selectOfferAndCreateAgreement matches the listing, accepts the offer and *)
(* stores the agreement between them in one transaction.                   *)
LEMMA selectOfferAndCreateAgreementPreserves ==
    ASSUME TypeOK, Core, UNCHANGED now, NEW m \in Marketplaces, NEW sender \in Accounts,
           NEW a \in AgreementIds, NEW l \in ListingIds, NEW o \in OfferIds,
           NEW t \in Deadlines, NEW d \in Deadlines,
           selectOfferAndCreateAgreement(m, sender, a, l, o, t, d)
    PROVE  TypeOK' /\ Core'
<1> DEFINE listing == listings[m][l]
           offer == offers[m][o]
           new == [listingId |-> l, offerId |-> o, batteryId |-> listing.batteryId,
                   sellerOrganizationId |-> listing.sellerOrganizationId,
                   buyerOrganizationId |-> offer.buyerOrganizationId, disputeId |-> Zero,
                   seller |-> listing.seller, buyer |-> offer.buyer,
                   sellerPayoutAddress |-> listing.sellerPayoutAddress,
                   buyerRefundAddress |-> offer.buyerRefundAddress, amount |-> offer.amount,
                   confirmationDeadline |-> t, deliveryDeadline |-> d,
                   state |-> "AwaitingBuyerConfirmation"]
           matched == [listing EXCEPT !.state = "Matched", !.acceptedOfferId = o]
<1>1. listing \in Listing /\ offer \in Offer /\ listings[m] \in [ListingIds -> Listing]
    BY ZenonT(60) DEF TypeOK, MarketTypeOK
<1>2. new \in Agreement
    BY <1>1, MarketplaceAssumption, ZenonT(60) DEF Listing, Offer, Agreement, AgreementStates, UnfundedStates
<1>3. /\ matched \in Listing
      /\ matched.batteryId = listing.batteryId
      /\ matched.sellerOrganizationId = listing.sellerOrganizationId
      /\ matched.sellerPayoutAddress = listing.sellerPayoutAddress
      /\ matched.acceptedOfferId = o /\ matched.state = "Matched"
    BY <1>1, ZenonT(60) DEF Listing, ListingStates
<1>4. /\ listing.state = "Active" /\ offer.state = "Submitted"
      /\ listings' = [listings EXCEPT ![m][l] = matched]
      /\ SetOfferState(m, o, "Accepted")
      /\ agreements' = [agreements EXCEPT ![m][a] = new]
      /\ bindAggregateOrigin(m, a)
      /\ UNCHANGED <<registryVars, authority, protectedActions, withdrawableCredits, balance>>
    BY ZenonT(60) DEF selectOfferAndCreateAgreement
<1>5. /\ new.listingId = l /\ new.offerId = o /\ new.batteryId = listing.batteryId
      /\ new.sellerOrganizationId = listing.sellerOrganizationId
      /\ new.buyerOrganizationId = offer.buyerOrganizationId
      /\ new.sellerPayoutAddress = listing.sellerPayoutAddress
      /\ new.buyerRefundAddress = offer.buyerRefundAddress
      /\ new.state = "AwaitingBuyerConfirmation"
    BY ZenonT(60)
<1> HIDE DEF new, matched
<1>6. /\ listings' \in [Marketplaces -> [ListingIds -> Listing]]
      /\ agreements' \in [Marketplaces -> [AgreementIds -> Agreement]]
    BY <1>2, <1>3, <1>4, NestedUpdate, ZenonT(60) DEF TypeOK, MarketTypeOK
<1>7. offers' \in [Marketplaces -> [OfferIds -> Offer]]
    BY <1>4, AssignmentsType, ZenonT(60) DEF TypeOK, OfferStates
<1>8. RegistryTypeOK' /\ DeploymentTypeOK'
    BY <1>4, RegistryCallsType, DeploymentCallsType, ZenonT(60) DEF TypeOK
<1>9. TypeOK'
    BY <1>4, <1>6, <1>7, <1>8, ZenonT(60) DEF TypeOK, MarketTypeOK
<1>10. \A n \in Marketplaces, k \in ListingIds :
           listings'[n][k] = IF n = m /\ k = l THEN matched ELSE listings[n][k]
    BY <1>4, ZenonT(60) DEF TypeOK, MarketTypeOK
<1>11. ListingMatched(m, l, o)
    BY <1>3, <1>10, ZenonT(60) DEF SameListing, ListingMatched
<1>12. OfferMoved(m, o, "Accepted")
    BY <1>4, OfferStateAssigned, ZenonT(60) DEF TypeOK
<1>13. \A n \in Marketplaces, c \in AgreementIds :
           agreements'[n][c] = IF n = m /\ c = a THEN new ELSE agreements[n][c]
    BY <1>4, ZenonT(60) DEF TypeOK, MarketTypeOK
<1>14. AgreementMade(m, l, o, a)
    BY <1>5, <1>13, ZenonT(60) DEF AgreementMade
<1>15. DeploymentTypeOK /\ UNCHANGED batteries
    BY <1>4, ZenonT(60) DEF TypeOK, registryVars
<1>16. Core'
    BY <1>4, <1>11, <1>12, <1>14, <1>15, CoreWhenMatched, ZenonT(60)
<1> QED BY <1>9, <1>16, ZenonT(60)

(* confirmAgreement, fundAgreement, recordDispatch, recordDelivery,        *)
(* acceptDelivery, applyDeliveryOrAcceptanceTimeout.                       *)
LEMMA AdvancePreserves ==
    ASSUME TypeOK, Core, UNCHANGED now, NEW m \in Marketplaces, NEW a \in AgreementIds,
           LiveAgreement(m, a), NEW s \in UnfundedStates \cup FundedStates,
           SetAgreementState(m, a, s),
           UNCHANGED <<registryVars, deploymentVars, authority, listings, offers, withdrawableCredits>>,
           protectedActions' \in [Marketplaces -> SUBSET ActionIds],
           balance' \in [Marketplaces -> Int]
    PROVE  TypeOK' /\ Core'
<1>1. agreements' \in [Marketplaces -> [AgreementIds -> Agreement]]
    BY AssignmentsType, ZenonT(60) DEF TypeOK, AgreementStates
<1>2. RegistryTypeOK' /\ DeploymentTypeOK'
    BY RegistryCallsType, DeploymentCallsType, ZenonT(60) DEF TypeOK
<1>3. TypeOK'
    BY <1>1, <1>2, ZenonT(60) DEF TypeOK, MarketTypeOK
<1>4. AgreementMoved(m, a, s)
    BY AgreementStateAssigned, ZenonT(60) DEF TypeOK
<1>5. Core'
    BY <1>4, CoreWhenAgreementAdvances, ZenonT(60) DEF registryVars, deploymentVars
<1> QED BY <1>3, <1>5, ZenonT(60)

(* openTransactionDispute records the dispute and moves a live agreement to *)
(* Disputed; terms, listing and lock stay.                                 *)
LEMMA openTransactionDisputePreserves ==
    ASSUME TypeOK, Core, UNCHANGED now, NEW m \in Marketplaces, NEW a \in AgreementIds,
           NEW sender \in Accounts, NEW x \in ActionIds, NEW org \in OrganizationIds,
           openTransactionDispute(m, sender, a, x, org)
    PROVE  TypeOK' /\ Core'
<1> DEFINE disputed == [agreements[m][a] EXCEPT !.disputeId = x, !.state = "Disputed"]
<1>1. agreements[m][a] \in Agreement /\ agreements[m] \in [AgreementIds -> Agreement]
    BY ZenonT(60) DEF TypeOK, MarketTypeOK
<1>2. "Disputed" \in AgreementStates
    BY ZenonT(60) DEF AgreementStates, FundedStates
<1>3. disputed \in Agreement
    BY <1>1, <1>2, ZenonT(60) DEF Agreement
<1>4. /\ disputed.state = "Disputed"
      /\ disputed.listingId = agreements[m][a].listingId
      /\ disputed.offerId = agreements[m][a].offerId
      /\ disputed.batteryId = agreements[m][a].batteryId
      /\ disputed.sellerOrganizationId = agreements[m][a].sellerOrganizationId
      /\ disputed.buyerOrganizationId = agreements[m][a].buyerOrganizationId
      /\ disputed.sellerPayoutAddress = agreements[m][a].sellerPayoutAddress
      /\ disputed.buyerRefundAddress = agreements[m][a].buyerRefundAddress
    BY <1>1, ZenonT(60) DEF Agreement
<1>5. /\ agreements' = [agreements EXCEPT ![m][a] = disputed]
      /\ agreements[m][a].state \in {"Funded", "InDelivery", "Delivered"}
      /\ UNCHANGED <<registryVars, deploymentVars, authority, listings, offers,
                     withdrawableCredits, balance>>
      /\ protectedActions' = [protectedActions EXCEPT ![m] = @ \cup {x}]
    BY ZenonT(60) DEF openTransactionDispute, consumeProtectedAction
<1> HIDE DEF disputed
<1>6. agreements' \in [Marketplaces -> [AgreementIds -> Agreement]]
    BY <1>3, <1>5, NestedUpdate, SMTT(30) DEF TypeOK, MarketTypeOK
<1>7. protectedActions' \in [Marketplaces -> SUBSET ActionIds]
    BY <1>5, ZenonT(60) DEF TypeOK, MarketTypeOK
<1>8. RegistryTypeOK' /\ DeploymentTypeOK'
    BY <1>5, RegistryCallsType, DeploymentCallsType, ZenonT(60) DEF TypeOK
<1>9. TypeOK'
    BY <1>5, <1>6, <1>7, <1>8, ZenonT(60) DEF TypeOK, MarketTypeOK
<1>10. \A n \in Marketplaces, c \in AgreementIds :
           agreements'[n][c] = IF n = m /\ c = a THEN disputed ELSE agreements[n][c]
    BY <1>5, ZenonT(60) DEF TypeOK, MarketTypeOK
<1>11. AgreementMoved(m, a, "Disputed")
    BY <1>4, <1>10, ZenonT(60) DEF SameTerms, AgreementMoved
<1>12. LiveAgreement(m, a) /\ "Disputed" \in UnfundedStates \cup FundedStates
    BY <1>5, ZenonT(60) DEF LiveAgreement, FundedStates
<1>13. Core'
    BY <1>5, <1>11, <1>12, CoreWhenAgreementAdvances, ZenonT(60) DEF registryVars, deploymentVars
<1> QED BY <1>9, <1>13, ZenonT(60)

(* The three private functions that close an agreement.                    *)
LEMMA ClosurePreserves ==
    ASSUME TypeOK, Core, UNCHANGED now, NEW m \in Marketplaces, NEW a \in AgreementIds,
           LiveAgreement(m, a),
           releaseAndTransfer(m, a) \/ refundAndCancel(m, a) \/ cancelWithoutFunds(m, a)
    PROVE  TypeOK' /\ Core'
<1> DEFINE b == agreements[m][a].batteryId
           s == IF releaseAndTransfer(m, a) THEN "Settled" ELSE "Cancelled"
           closed == ListingStateUnder(s)
<1>1. agreements[m][a].state # "Unset"
    BY ZenonT(60) DEF LiveAgreement, UnfundedStates, FundedStates
<1>2. /\ b \in SubjectIds /\ agreements[m][a].listingId \in ListingIds
      /\ agreements[m][a].buyerOrganizationId \in OrganizationIds
      /\ agreements[m][a].sellerPayoutAddress \in Accounts
      /\ agreements[m][a].buyerRefundAddress \in Accounts
  <2>1. agreements[m][a].listingId \in ListingIds
      BY <1>1, AgreementFacts, ZenonT(60)
  <2> QED BY <1>1, <2>1, ZenonT(60) DEF Core, ReferencesResolve
<1>3. agreements[m][a].amount \in Nat
  <2>1. agreements[m][a] \in Agreement
      BY ZenonT(60) DEF TypeOK, MarketTypeOK
  <2> QED BY <2>1, ZenonT(60) DEF Agreement
<1>4. CloseAgreement(m, a, s, closed) /\ s \in ClosedStates
  <2>1. s \in ClosedStates /\ closed = IF s = "Settled" THEN "ClosedSettled" ELSE "ClosedCancelled"
      BY ZenonT(60) DEF ClosedStates, ListingStateUnder, UnfundedStates, FundedStates
  <2> HIDE DEF closed
  <2> QED BY <2>1, ZenonT(60) DEF releaseAndTransfer, refundAndCancel, cancelWithoutFunds
<1>5. /\ SetAgreementState(m, a, s) /\ SetListingState(m, agreements[m][a].listingId, closed)
      /\ UNCHANGED <<deploymentVars, authority, offers, protectedActions, balance>>
    BY <1>4, ZenonT(60) DEF CloseAgreement
<1>6. transferRecordedOwnership(m, b, agreements[m][a].buyerOrganizationId) \/ unlockForMarketplace(m, b)
    BY ZenonT(60) DEF releaseAndTransfer, refundAndCancel, cancelWithoutFunds
<1>7. withdrawableCredits' \in [Marketplaces -> [Accounts -> Nat]]
    BY <1>2, <1>3, AssignmentsType, ZenonT(60) DEF releaseAndTransfer, refundAndCancel, cancelWithoutFunds, TypeOK, MarketTypeOK
<1>8. s \in AgreementStates /\ closed \in ListingStates
    BY <1>4, ZenonT(60) DEF AgreementStates, ListingStates, ListingStateUnder
<1> HIDE DEF s, closed, b
<1>9. /\ agreements' \in [Marketplaces -> [AgreementIds -> Agreement]]
      /\ listings' \in [Marketplaces -> [ListingIds -> Listing]]
    BY <1>2, <1>5, <1>8, AssignmentsType, ZenonT(60) DEF TypeOK
<1>10. RegistryTypeOK'
    BY <1>2, <1>6, RegistryCallsType, ZenonT(60) DEF TypeOK
<1>11. DeploymentTypeOK'
    BY <1>5, DeploymentCallsType, ZenonT(60) DEF TypeOK
<1>12. TypeOK'
    BY <1>5, <1>7, <1>9, <1>10, <1>11, ZenonT(60) DEF TypeOK, MarketTypeOK
<1>13. AgreementMoved(m, a, s)
    BY <1>5, AgreementStateAssigned, ZenonT(60) DEF TypeOK
<1>14. ListingMoved(m, agreements[m][a].listingId, closed)
    BY <1>2, <1>5, ListingStateAssigned, ZenonT(60) DEF TypeOK
<1>15. BatteryUnlocked(b)
    BY <1>2, <1>6, LockEnds, ZenonT(60) DEF TypeOK
<1>16. UNCHANGED <<offers, originModule>>
    BY <1>5, ZenonT(60) DEF deploymentVars
<1>17. Core'
    BY <1>4, <1>13, <1>14, <1>15, <1>16, CoreWhenAgreementCloses, ZenonT(60) DEF b, closed
<1> QED BY <1>12, <1>17, ZenonT(60)

(* withdrawCredits zeroes one credit and pays it out; it reads and writes  *)
(* nothing else.                                                           *)
LEMMA withdrawCreditsPreserves ==
    ASSUME TypeOK, Core, UNCHANGED now, NEW m \in Marketplaces, NEW sender \in Accounts,
           withdrawCredits(m, sender)
    PROVE  TypeOK' /\ Core'
<1>1. RegistryTypeOK' /\ DeploymentTypeOK'
    BY RegistryCallsType, DeploymentCallsType, ZenonT(60) DEF TypeOK, withdrawCredits
<1>2. withdrawableCredits' \in [Marketplaces -> [Accounts -> Nat]] /\ balance' \in [Marketplaces -> Int]
    BY DEF TypeOK, MarketTypeOK, withdrawCredits
<1>3. TypeOK'
    BY <1>1, <1>2, ZenonT(60) DEF TypeOK, MarketTypeOK, withdrawCredits
<1>4. Core'
    BY CoreUndisturbed, ZenonT(60) DEF withdrawCredits, registryVars, deploymentVars, Core, ReferencesResolve
<1> QED BY <1>3, <1>4, ZenonT(60)

-----------------------------------------------------------------------------
(* The inductive invariant.                                                *)

(* A used action id keeps protectedActions in its type.                    *)
LEMMA ActionConsumedType ==
    ASSUME MarketTypeOK, NEW m \in Marketplaces, NEW x \in ActionIds,
           protectedActions' = [protectedActions EXCEPT ![m] = @ \cup {x}]
    PROVE  protectedActions' \in [Marketplaces -> SUBSET ActionIds]
    BY ZenonT(60) DEF MarketTypeOK

(* Every call of a party to a sale preserves types and Core.               *)
LEMMA PartyStepPreserves ==
    ASSUME TypeOK, Core, UNCHANGED now, NEW m \in Marketplaces, PartyStep(m)
    PROVE  TypeOK' /\ Core'
<1> PICK sender \in Accounts :
        \/ \E l \in ListingIds, b \in SubjectIds, org \in OrganizationIds,
              payout \in PayoutAddresses, t \in Deadlines :
                createListing(m, sender, l, b, org, payout, t)
        \/ \E l \in ListingIds : withdrawListing(m, sender, l)
        \/ \E o \in OfferIds, l \in ListingIds, org \in OrganizationIds, amount \in Amounts,
              refund \in RefundAddresses, t \in Deadlines :
                submitOffer(m, sender, o, l, org, amount, refund, t)
        \/ \E o \in OfferIds : withdrawOffer(m, sender, o)
        \/ \E o \in OfferIds : rejectOffer(m, sender, o)
        \/ \E a \in AgreementIds, l \in ListingIds, o \in OfferIds, c, d \in Deadlines :
                selectOfferAndCreateAgreement(m, sender, a, l, o, c, d)
        \/ \E a \in AgreementIds : confirmAgreement(m, sender, a)
        \/ \E a \in AgreementIds, value \in Amounts : fundAgreement(m, sender, a, value)
        \/ \E a \in AgreementIds, x \in ActionIds, org \in OrganizationIds :
                recordDispatch(m, sender, a, x, org)
        \/ \E a \in AgreementIds, x \in ActionIds, org \in OrganizationIds :
                recordDelivery(m, sender, a, x, org)
        \/ \E a \in AgreementIds : acceptDelivery(m, sender, a)
        \/ \E a \in AgreementIds, x \in ActionIds, org \in OrganizationIds :
                openTransactionDispute(m, sender, a, x, org)
        \/ \E a \in AgreementIds, org \in OrganizationIds,
              r \in {"ReleaseAndTransfer", "RefundAndCancel"} :
                resolveAgreement(m, sender, a, org, r)
        \/ withdrawCredits(m, sender)
    BY ZenonT(60) DEF PartyStep
<1>1. CASE \E l \in ListingIds, b \in SubjectIds, org \in OrganizationIds,
              payout \in PayoutAddresses, t \in Deadlines :
                createListing(m, sender, l, b, org, payout, t)
    BY <1>1, createListingPreserves, ZenonT(60)
<1>2. CASE \E l \in ListingIds : withdrawListing(m, sender, l)
    BY <1>2, CloseActiveListingPreserves, ZenonT(60) DEF withdrawListing
<1>3. CASE \E o \in OfferIds, l \in ListingIds, org \in OrganizationIds, amount \in Amounts,
              refund \in RefundAddresses, t \in Deadlines :
                submitOffer(m, sender, o, l, org, amount, refund, t)
    BY <1>3, submitOfferPreserves, ZenonT(60)
<1>4. CASE \E o \in OfferIds : withdrawOffer(m, sender, o)
    BY <1>4, CloseSubmittedOfferPreserves, ZenonT(60) DEF withdrawOffer
<1>5. CASE \E o \in OfferIds : rejectOffer(m, sender, o)
    BY <1>5, CloseSubmittedOfferPreserves, ZenonT(60) DEF rejectOffer
<1>6. CASE \E a \in AgreementIds, l \in ListingIds, o \in OfferIds, c, d \in Deadlines :
              selectOfferAndCreateAgreement(m, sender, a, l, o, c, d)
    BY <1>6, selectOfferAndCreateAgreementPreserves, ZenonT(60)
<1>7. CASE \E a \in AgreementIds : confirmAgreement(m, sender, a)
    BY <1>7, AdvancePreserves, ZenonT(60) DEF confirmAgreement, LiveAgreement, UnfundedStates, TypeOK, MarketTypeOK
<1>8. CASE \E a \in AgreementIds, value \in Amounts : fundAgreement(m, sender, a, value)
  <2> PICK a \in AgreementIds, value \in Amounts : fundAgreement(m, sender, a, value)
      BY <1>8, ZenonT(60)
  <2>1. balance' \in [Marketplaces -> Int]
      BY MarketplaceAssumption DEF fundAgreement, TypeOK, MarketTypeOK
  <2> QED BY <2>1, AdvancePreserves, ZenonT(60) DEF fundAgreement, LiveAgreement, UnfundedStates, FundedStates, TypeOK, MarketTypeOK
<1>9. CASE \E a \in AgreementIds, x \in ActionIds, org \in OrganizationIds :
              recordDispatch(m, sender, a, x, org)
    BY <1>9, ActionConsumedType, AdvancePreserves, ZenonT(60)
       DEF recordDispatch, consumeProtectedAction, LiveAgreement, FundedStates, TypeOK, MarketTypeOK
<1>10. CASE \E a \in AgreementIds, x \in ActionIds, org \in OrganizationIds :
              recordDelivery(m, sender, a, x, org)
    BY <1>10, ActionConsumedType, AdvancePreserves, ZenonT(60)
       DEF recordDelivery, consumeProtectedAction, LiveAgreement, FundedStates, TypeOK, MarketTypeOK
<1>11. CASE \E a \in AgreementIds : acceptDelivery(m, sender, a)
    BY <1>11, AdvancePreserves, ZenonT(60) DEF acceptDelivery, LiveAgreement, FundedStates, TypeOK, MarketTypeOK
<1>12. CASE \E a \in AgreementIds, x \in ActionIds, org \in OrganizationIds :
              openTransactionDispute(m, sender, a, x, org)
    BY <1>12, openTransactionDisputePreserves, ZenonT(60)
<1>13. CASE \E a \in AgreementIds, org \in OrganizationIds,
              r \in {"ReleaseAndTransfer", "RefundAndCancel"} :
                resolveAgreement(m, sender, a, org, r)
    BY <1>13, ClosurePreserves, ZenonT(60) DEF resolveAgreement, LiveAgreement, FundedStates
<1>14. CASE withdrawCredits(m, sender)
    BY <1>14, withdrawCreditsPreserves, ZenonT(60)
<1> QED BY <1>1, <1>2, <1>3, <1>4, <1>5, <1>6, <1>7, <1>8, <1>9, <1>10, <1>11, <1>12, <1>13, <1>14, ZenonT(60)

(* Every call that anyone may make (expiries, timeouts, cancellation,      *)
(* settlement) preserves types and Core.                                   *)
LEMMA PermissionlessStepPreserves ==
    ASSUME TypeOK, Core, UNCHANGED now, NEW m \in Marketplaces, PermissionlessStep(m)
    PROVE  TypeOK' /\ Core'
<1>1. CASE \E l \in ListingIds : expireListing(m, l)
    BY <1>1, CloseActiveListingPreserves, ZenonT(60) DEF expireListing
<1>2. CASE \E o \in OfferIds : expireOffer(m, o)
    BY <1>2, CloseSubmittedOfferPreserves, ZenonT(60) DEF expireOffer
<1>3. CASE \E a \in AgreementIds : cancelUnfundedAgreement(m, a)
    BY <1>3, ClosurePreserves, ZenonT(60) DEF cancelUnfundedAgreement, LiveAgreement
<1>4. CASE \E a \in AgreementIds : applyDispatchTimeout(m, a)
    BY <1>4, ClosurePreserves, ZenonT(60) DEF applyDispatchTimeout, LiveAgreement, FundedStates
<1>5. CASE \E a \in AgreementIds : applyDeliveryOrAcceptanceTimeout(m, a)
    BY <1>5, AdvancePreserves, ZenonT(60)
       DEF applyDeliveryOrAcceptanceTimeout, LiveAgreement, FundedStates, TypeOK, MarketTypeOK
<1>6. CASE \E a \in AgreementIds : settleAccepted(m, a)
    BY <1>6, ClosurePreserves, ZenonT(60) DEF settleAccepted, LiveAgreement, FundedStates
<1> QED BY <1>1, <1>2, <1>3, <1>4, <1>5, <1>6, ZenonT(60) DEF PermissionlessStep

(* The invariant is inductive.                                             *)
LEMMA IndInvIsInductive ==
    /\ Init => IndInv
    /\ IndInv /\ [Next]_vars => IndInv'
<1>1. IndInv <=> TypeOK /\ Core
    BY ZenonT(60) DEF IndInv, Core
<1>2. IndInv' <=> TypeOK' /\ Core'
    BY ZenonT(60) DEF IndInv, Core
<1>3. Init => IndInv
    BY <1>1, InitTypeOK, InitCore, ZenonT(60)
<1>4. ASSUME TypeOK, Core, Next PROVE TypeOK' /\ Core'
    BY <1>4, EnvironmentPreserves, PartyStepPreserves, PermissionlessStepPreserves, ZenonT(60) DEF Next
<1>5. ASSUME TypeOK, Core, UNCHANGED vars PROVE TypeOK' /\ Core'
  <2>1. UNCHANGED <<now, authority, registryVars, deploymentVars, marketVars>>
      BY <1>5, ZenonT(60) DEF vars
  <2>2. RegistryTypeOK' /\ DeploymentTypeOK'
      BY <1>5, <2>1, ZenonT(60) DEF TypeOK, RegistryTypeOK, DeploymentTypeOK, registryVars, deploymentVars
  <2>3. TypeOK'
      BY <1>5, <2>1, <2>2, ZenonT(60) DEF TypeOK, MarketTypeOK, marketVars
  <2>4. Core'
      BY <1>5, <2>1, CoreUndisturbed, ZenonT(60) DEF registryVars, deploymentVars, marketVars, Core, ReferencesResolve
  <2> QED BY <2>3, <2>4, ZenonT(60)
<1> QED BY <1>1, <1>2, <1>3, <1>4, <1>5, ZenonT(60)

(* Every reachable state satisfies the inductive invariant.                *)
THEOREM InductiveInvariant == Spec => []IndInv
    BY IndInvIsInductive, PTL DEF Spec

(* Every variable keeps its type (all contracts).                          *)
THEOREM TypeCorrect == Spec => []TypeOK
<1>1. IndInv => TypeOK
    BY ZenonT(60) DEF IndInv
<1> QED BY <1>1, InductiveInvariant, PTL

(* A battery is locked exactly while one live listing holds it: no call of *)
(* any deployed marketplace, of governance or of a later block strands a   *)
(* lock.                                                                   *)
THEOREM BatteryLocking == Spec => []LockMatchesLiveListing
<1>1. IndInv => LockMatchesLiveListing
    BY ZenonT(60) DEF IndInv
<1> QED BY <1>1, InductiveInvariant, PTL

(* While a listing is live its seller's organization is the recorded owner *)
(* of the battery: nothing moves a listed battery but its own settlement.  *)
THEOREM SellersKeepListedBatteries == Spec => []SellerOwnsWhileListed
<1>1. IndInv => SellerOwnsWhileListed
    BY ZenonT(60) DEF IndInv
<1> QED BY <1>1, InductiveInvariant, PTL

(* Agreements and listings agree on battery, seller, offer and outcome.    *)
THEOREM AgreementsMirrorListings == Spec => []AgreementMirrorsListing
<1>1. IndInv => AgreementMirrorsListing
    BY ZenonT(60) DEF IndInv
<1> QED BY <1>1, InductiveInvariant, PTL

(* No identifier is used by two marketplaces.                              *)
THEOREM AggregatesHaveOneOrigin == Spec => []OneOriginPerAggregate
<1>1. IndInv => OneOriginPerAggregate
    BY ZenonT(60) DEF IndInv
<1> QED BY <1>1, InductiveInvariant, PTL

-----------------------------------------------------------------------------
(* Every step of module Marketplace moves money and title together.        *)

(* Steps that move neither, and touch no closed agreement.                 *)
LEMMA NothingMoves ==
    ASSUME TypeOK,
           \A b \in SubjectIds : batteries'[b].recordedOwner = batteries[b].recordedOwner,
           UNCHANGED withdrawableCredits,
           \A n \in Marketplaces, c \in AgreementIds :
               agreements[n][c].state \in ClosedStates => agreements'[n][c] = agreements[n][c]
    PROVE  MoneyAndTitleStep
<1>1. \A n \in Marketplaces, r \in Accounts : withdrawableCredits[n][r] \in Nat
    BY ZenonT(60) DEF TypeOK, MarketTypeOK
<1>2. \A n \in Marketplaces, r \in Accounts : ~ (withdrawableCredits'[n][r] > withdrawableCredits[n][r])
    BY <1>1
<1> QED BY <1>2, ZenonT(60) DEF MoneyAndTitleStep

(* A step that writes one agreement that is not closed.                    *)
LEMMA OtherAgreementsKept ==
    ASSUME TypeOK, NEW m \in Marketplaces, NEW a \in AgreementIds, NEW new,
           agreements[m][a].state \notin ClosedStates,
           agreements' = [agreements EXCEPT ![m][a] = new]
    PROVE  \A n \in Marketplaces, c \in AgreementIds :
               agreements[n][c].state \in ClosedStates => agreements'[n][c] = agreements[n][c]
    BY ZenonT(60) DEF TypeOK, MarketTypeOK

(* Steps that only advance an open agreement.                              *)
LEMMA AdvanceMoves ==
    ASSUME TypeOK, NEW m \in Marketplaces, NEW a \in AgreementIds,
           LiveAgreement(m, a) \/ agreements[m][a].state = "Unset", NEW new,
           agreements' = [agreements EXCEPT ![m][a] = new],
           UNCHANGED <<registryVars, withdrawableCredits>>
    PROVE  MoneyAndTitleStep
<1>1. agreements[m][a].state \notin ClosedStates
    BY ZenonT(60) DEF LiveAgreement, UnfundedStates, FundedStates, ClosedStates
<1> QED BY <1>1, OtherAgreementsKept, NothingMoves, ZenonT(60) DEF registryVars

(* A live agreement that only changes its state moves neither money nor    *)
(* title.                                                                  *)
LEMMA StateAdvanceMoves ==
    ASSUME TypeOK, NEW m \in Marketplaces, NEW a \in AgreementIds, LiveAgreement(m, a),
           NEW s, SetAgreementState(m, a, s), UNCHANGED <<registryVars, withdrawableCredits>>
    PROVE  MoneyAndTitleStep
<1>1. agreements' = [agreements EXCEPT ![m][a] = [agreements[m][a] EXCEPT !.state = s]]
    BY ZenonT(60) DEF SetAgreementState
<1> QED BY <1>1, AdvanceMoves, ZenonT(60)

(* _releaseAndTransfer and _refundAndCancel of a funded agreement.         *)
LEMMA FundedClosureMoves ==
    ASSUME TypeOK, Core, NEW m \in Marketplaces, NEW a \in AgreementIds,
           agreements[m][a].state \in FundedStates,
           releaseAndTransfer(m, a) \/ refundAndCancel(m, a)
    PROVE  MoneyAndTitleStep
<1> DEFINE settles == releaseAndTransfer(m, a)
           s == IF settles THEN "Settled" ELSE "Cancelled"
           b == agreements[m][a].batteryId
           payee == IF settles THEN agreements[m][a].sellerPayoutAddress
                               ELSE agreements[m][a].buyerRefundAddress
<1>1. LiveAgreement(m, a) /\ agreements[m][a].state \notin ClosedStates /\ agreements[m][a].state # "Unset"
    BY ZenonT(60) DEF LiveAgreement, FundedStates, ClosedStates
<1>2. MirrorsItsListing(m, a) /\ LiveListing(m, agreements[m][a].listingId)
  <2>1. MirrorsItsListing(m, a)
      BY <1>1, AgreementFacts, ZenonT(60)
  <2> QED BY <1>1, <2>1, MirrorFacts, ZenonT(60) DEF LiveAgreement, LiveListing, ListingStateUnder
<1>3. /\ b \in SubjectIds /\ payee \in Accounts
      /\ batteries[b].recordedOwner = agreements[m][a].sellerOrganizationId
      /\ agreements[m][a].buyerOrganizationId \in OrganizationIds
  <2>1. agreements[m][a].listingId \in ListingIds
        /\ listings[m][agreements[m][a].listingId].batteryId = b
        /\ listings[m][agreements[m][a].listingId].sellerOrganizationId = agreements[m][a].sellerOrganizationId
    <3>1. MirrorsItsListing(m, a)
        BY <1>2, ZenonT(60)
    <3> QED BY <3>1, MirrorFacts, ZenonT(60)
  <2> QED BY <1>1, <1>2, <2>1, ZenonT(60) DEF Core, ReferencesResolve, SellerOwnsWhileListed
<1>4. agreements[m][a].amount \in Nat
  <2>1. agreements[m][a] \in Agreement
      BY ZenonT(60) DEF TypeOK, MarketTypeOK
  <2> QED BY <2>1, ZenonT(60) DEF Agreement
<1>5. /\ SetAgreementState(m, a, s) /\ Credit(m, payee, agreements[m][a].amount)
      /\ IF settles THEN transferRecordedOwnership(m, b, agreements[m][a].buyerOrganizationId)
                    ELSE unlockForMarketplace(m, b)
    BY ZenonT(60) DEF releaseAndTransfer, refundAndCancel, CloseAgreement
<1>6. s \in ClosedStates /\ (s = "Settled" <=> settles)
    BY ZenonT(60) DEF ClosedStates
<1> HIDE DEF settles, s, b, payee
<1>7. agreements'[m][a].state = s
    BY <1>5, AgreementStateAssigned, SMTT(30) DEF TypeOK, AgreementMoved
<1>8. FundsAndCloses(m, a)
    BY <1>6, <1>7, ZenonT(60) DEF FundsAndCloses
<1>9. \A c \in SubjectIds :
          batteries'[c].recordedOwner = IF c = b /\ settles THEN agreements[m][a].buyerOrganizationId
                                        ELSE batteries[c].recordedOwner
  <2>1. ASSUME NEW c \in SubjectIds, settles
        PROVE  batteries'[c].recordedOwner = IF c = b THEN agreements[m][a].buyerOrganizationId
                                             ELSE batteries[c].recordedOwner
      BY <1>3, <1>5, <2>1, LocksAndOwnersAssigned, ZenonT(60) DEF TypeOK
  <2>2. ASSUME NEW c \in SubjectIds, ~settles
        PROVE  batteries'[c].recordedOwner = batteries[c].recordedOwner
      BY <1>3, <1>5, <2>2, LocksAndOwnersAssigned, ZenonT(60) DEF TypeOK
  <2> QED BY <2>1, <2>2, ZenonT(60)
<1>10. \A n \in Marketplaces, r \in Accounts :
           /\ withdrawableCredits[n][r] \in Nat
           /\ withdrawableCredits'[n][r] = IF n = m /\ r = payee
                                           THEN withdrawableCredits[n][r] + agreements[m][a].amount
                                           ELSE withdrawableCredits[n][r]
    BY <1>3, <1>4, <1>5, ZenonT(60) DEF TypeOK, MarketTypeOK, Credit
<1>11. \A n \in Marketplaces, c \in AgreementIds :
           agreements[n][c].state \in ClosedStates => agreements'[n][c] = agreements[n][c]
    BY <1>1, <1>5, OtherAgreementsKept, ZenonT(60) DEF SetAgreementState
<1>12. ASSUME NEW c \in SubjectIds, batteries'[c].recordedOwner # batteries[c].recordedOwner
       PROVE  \E n \in Marketplaces, d \in AgreementIds :
                  /\ FundsAndCloses(n, d) /\ agreements'[n][d].state = "Settled"
                  /\ agreements[n][d].batteryId = c
                  /\ agreements[n][d].sellerOrganizationId = batteries[c].recordedOwner
                  /\ agreements[n][d].buyerOrganizationId = batteries'[c].recordedOwner
    BY <1>3, <1>6, <1>7, <1>8, <1>9, <1>12, ZenonT(60) DEF b
<1>13. ASSUME NEW n \in Marketplaces, NEW r \in Accounts,
              withdrawableCredits'[n][r] > withdrawableCredits[n][r]
       PROVE  \E d \in AgreementIds :
                  /\ FundsAndCloses(n, d)
                  /\ withdrawableCredits'[n][r] = withdrawableCredits[n][r] + agreements[n][d].amount
                  /\ r = IF agreements'[n][d].state = "Settled"
                         THEN agreements[n][d].sellerPayoutAddress
                         ELSE agreements[n][d].buyerRefundAddress
  <2>1. n = m /\ r = payee
      BY <1>10, <1>13, SMTT(30)
  <2> QED BY <1>6, <1>7, <1>8, <1>10, <2>1, ZenonT(60) DEF payee
<1> QED BY <1>11, <1>12, <1>13, ZenonT(60) DEF MoneyAndTitleStep

(* An unfunded agreement is cancelled: nobody is credited.                 *)
LEMMA UnfundedClosureMoves ==
    ASSUME TypeOK, Core, NEW m \in Marketplaces, NEW a \in AgreementIds,
           agreements[m][a].state \in UnfundedStates, cancelWithoutFunds(m, a)
    PROVE  MoneyAndTitleStep
<1>1. agreements[m][a].state \notin ClosedStates /\ agreements[m][a].state # "Unset"
    BY ZenonT(60) DEF UnfundedStates, ClosedStates
<1>2. agreements[m][a].batteryId \in SubjectIds
    BY <1>1, ZenonT(60) DEF Core, ReferencesResolve
<1>3. \A c \in SubjectIds : batteries'[c].recordedOwner = batteries[c].recordedOwner
    BY <1>2, LocksAndOwnersAssigned, SMTT(30) DEF cancelWithoutFunds, TypeOK
<1>4. \A n \in Marketplaces, c \in AgreementIds :
          agreements[n][c].state \in ClosedStates => agreements'[n][c] = agreements[n][c]
    BY <1>1, OtherAgreementsKept, ZenonT(60) DEF cancelWithoutFunds, CloseAgreement, SetAgreementState
<1> QED BY <1>3, <1>4, NothingMoves, ZenonT(60) DEF cancelWithoutFunds

(* Credits are withdrawn: they only shrink.                                *)
LEMMA WithdrawalMoves ==
    ASSUME TypeOK, NEW m \in Marketplaces, NEW sender \in Accounts, withdrawCredits(m, sender)
    PROVE  MoneyAndTitleStep
<1>1. \A n \in Marketplaces, r \in Accounts :
          /\ withdrawableCredits[n][r] \in Nat
          /\ withdrawableCredits'[n][r] = IF n = m /\ r = sender THEN 0 ELSE withdrawableCredits[n][r]
    BY ZenonT(60) DEF TypeOK, MarketTypeOK, withdrawCredits
<1>2. \A n \in Marketplaces, r \in Accounts : ~ (withdrawableCredits'[n][r] > withdrawableCredits[n][r])
    BY <1>1
<1>3. UNCHANGED <<batteries, agreements>>
    BY ZenonT(60) DEF withdrawCredits, registryVars
<1> QED BY <1>2, <1>3, ZenonT(60) DEF MoneyAndTitleStep

(* What the seller and the bidders of a listing may call, up to the match  *)
(* itself, obeys MoneyAndTitleStep: no money and no title moves.           *)
LEMMA PartyStepMoves ==
    ASSUME TypeOK, Core, NEW m \in Marketplaces, NEW sender \in Accounts
    PROVE  /\ \A l \in ListingIds, b \in SubjectIds, org \in OrganizationIds,
                 payout \in PayoutAddresses, t \in Deadlines :
                   createListing(m, sender, l, b, org, payout, t) => MoneyAndTitleStep
           /\ \A l \in ListingIds, s \in {"Withdrawn", "Expired"} :
                   CloseActiveListing(m, l, s) => MoneyAndTitleStep
           /\ \A o \in OfferIds, s \in OfferStates : CloseSubmittedOffer(m, o, s) => MoneyAndTitleStep
           /\ \A a \in AgreementIds, l \in ListingIds, o \in OfferIds, c, d \in Deadlines :
                   selectOfferAndCreateAgreement(m, sender, a, l, o, c, d) => MoneyAndTitleStep
           /\ \A o \in OfferIds, l \in ListingIds, org \in OrganizationIds, amount \in Amounts,
                 refund \in RefundAddresses, t \in Deadlines :
                   submitOffer(m, sender, o, l, org, amount, refund, t) => MoneyAndTitleStep
<1>1. ASSUME NEW l \in ListingIds, NEW b \in SubjectIds, NEW org \in OrganizationIds,
             NEW payout \in PayoutAddresses, NEW t \in Deadlines,
             createListing(m, sender, l, b, org, payout, t)
      PROVE  MoneyAndTitleStep
  <2>1. \A c \in SubjectIds : batteries'[c].recordedOwner = batteries[c].recordedOwner
      BY <1>1, LocksAndOwnersAssigned, SMTT(30) DEF createListing, TypeOK
  <2> QED BY <1>1, <2>1, NothingMoves, ZenonT(60) DEF createListing
<1>2. ASSUME NEW l \in ListingIds, NEW s \in {"Withdrawn", "Expired"}, CloseActiveListing(m, l, s)
      PROVE  MoneyAndTitleStep
  <2>1. listings[m][l].batteryId \in SubjectIds
      BY <1>2, ZenonT(60) DEF CloseActiveListing, Core, ReferencesResolve
  <2>3. RegistryTypeOK /\ unlockForMarketplace(m, listings[m][l].batteryId)
      BY <1>2, ZenonT(60) DEF CloseActiveListing, TypeOK
  <2>2. \A c \in SubjectIds : batteries'[c].recordedOwner = batteries[c].recordedOwner
      BY <2>1, <2>3, LocksAndOwnersAssigned, SMTT(30)
  <2> QED BY <1>2, <2>2, NothingMoves, ZenonT(60) DEF CloseActiveListing
<1>3. ASSUME NEW o \in OfferIds, NEW s \in OfferStates, CloseSubmittedOffer(m, o, s)
      PROVE  MoneyAndTitleStep
    BY <1>3, NothingMoves, ZenonT(60) DEF CloseSubmittedOffer, registryVars
<1>4. ASSUME NEW a \in AgreementIds, NEW l \in ListingIds, NEW o \in OfferIds,
             NEW c \in Deadlines, NEW d \in Deadlines,
             selectOfferAndCreateAgreement(m, sender, a, l, o, c, d)
      PROVE  MoneyAndTitleStep
    BY <1>4, AdvanceMoves, ZenonT(60) DEF selectOfferAndCreateAgreement
<1>5. ASSUME NEW o \in OfferIds, NEW l \in ListingIds, NEW org \in OrganizationIds, NEW amount \in Amounts,
             NEW refund \in RefundAddresses, NEW t \in Deadlines,
             submitOffer(m, sender, o, l, org, amount, refund, t)
      PROVE  MoneyAndTitleStep
    BY <1>5, NothingMoves, ZenonT(60) DEF submitOffer, registryVars
<1> QED BY <1>1, <1>2, <1>3, <1>4, <1>5, ZenonT(60)

(* What the parties to an agreement may call obeys MoneyAndTitleStep.      *)
LEMMA AgreementStepMoves ==
    ASSUME TypeOK, Core, NEW m \in Marketplaces, NEW sender \in Accounts, NEW a \in AgreementIds
    PROVE  /\ confirmAgreement(m, sender, a) => MoneyAndTitleStep
           /\ \A value \in Amounts : fundAgreement(m, sender, a, value) => MoneyAndTitleStep
           /\ \A x \in ActionIds, org \in OrganizationIds :
                 /\ recordDispatch(m, sender, a, x, org) => MoneyAndTitleStep
                 /\ recordDelivery(m, sender, a, x, org) => MoneyAndTitleStep
                 /\ openTransactionDispute(m, sender, a, x, org) => MoneyAndTitleStep
           /\ acceptDelivery(m, sender, a) => MoneyAndTitleStep
           /\ \A org \in OrganizationIds, r \in {"ReleaseAndTransfer", "RefundAndCancel"} :
                 resolveAgreement(m, sender, a, org, r) => MoneyAndTitleStep
<1> USE DEF LiveAgreement, UnfundedStates, FundedStates
<1>1. confirmAgreement(m, sender, a) => MoneyAndTitleStep
    BY StateAdvanceMoves, ZenonT(60) DEF confirmAgreement
<1>2. \A value \in Amounts : fundAgreement(m, sender, a, value) => MoneyAndTitleStep
    BY StateAdvanceMoves, ZenonT(60) DEF fundAgreement
<1>3. \A x \in ActionIds, org \in OrganizationIds : recordDispatch(m, sender, a, x, org) => MoneyAndTitleStep
    BY StateAdvanceMoves, ZenonT(60) DEF recordDispatch
<1>4. \A x \in ActionIds, org \in OrganizationIds : recordDelivery(m, sender, a, x, org) => MoneyAndTitleStep
    BY StateAdvanceMoves, ZenonT(60) DEF recordDelivery
<1>5. \A x \in ActionIds, org \in OrganizationIds :
          openTransactionDispute(m, sender, a, x, org) => MoneyAndTitleStep
    BY AdvanceMoves, ZenonT(60) DEF openTransactionDispute
<1>6. acceptDelivery(m, sender, a) => MoneyAndTitleStep
    BY StateAdvanceMoves, ZenonT(60) DEF acceptDelivery
<1>7. \A org \in OrganizationIds, r \in {"ReleaseAndTransfer", "RefundAndCancel"} :
          resolveAgreement(m, sender, a, org, r) => MoneyAndTitleStep
    BY FundedClosureMoves, ZenonT(60) DEF resolveAgreement
<1> QED BY <1>1, <1>2, <1>3, <1>4, <1>5, <1>6, <1>7, ZenonT(60)

(* What anyone may call obeys MoneyAndTitleStep: cancellation, the timeouts *)
(* and settlement are the steps that credit or transfer.                   *)
LEMMA PermissionlessStepMoves ==
    ASSUME TypeOK, Core, NEW m \in Marketplaces, PermissionlessStep(m)
    PROVE  MoneyAndTitleStep
<1>1. CASE \E l \in ListingIds : expireListing(m, l)
  <2> PICK l \in ListingIds : CloseActiveListing(m, l, "Expired")
      BY <1>1, ZenonT(60) DEF expireListing
  <2>1. listings[m][l].batteryId \in SubjectIds
      BY ZenonT(60) DEF CloseActiveListing, Core, ReferencesResolve
  <2>3. RegistryTypeOK /\ unlockForMarketplace(m, listings[m][l].batteryId)
      BY ZenonT(60) DEF CloseActiveListing, TypeOK
  <2>2. \A c \in SubjectIds : batteries'[c].recordedOwner = batteries[c].recordedOwner
      BY <2>1, <2>3, LocksAndOwnersAssigned, SMTT(30)
  <2> QED BY <2>2, NothingMoves, ZenonT(60) DEF CloseActiveListing
<1>2. CASE \E o \in OfferIds : expireOffer(m, o)
    BY <1>2, NothingMoves, ZenonT(60) DEF expireOffer, CloseSubmittedOffer, registryVars
<1>3. CASE \E a \in AgreementIds : cancelUnfundedAgreement(m, a)
    BY <1>3, UnfundedClosureMoves, ZenonT(60) DEF cancelUnfundedAgreement
<1>4. CASE \E a \in AgreementIds : applyDispatchTimeout(m, a)
    BY <1>4, FundedClosureMoves, ZenonT(60) DEF applyDispatchTimeout, FundedStates
<1>5. CASE \E a \in AgreementIds : applyDeliveryOrAcceptanceTimeout(m, a)
    BY <1>5, StateAdvanceMoves, ZenonT(60) DEF applyDeliveryOrAcceptanceTimeout, LiveAgreement, FundedStates
<1>6. CASE \E a \in AgreementIds : settleAccepted(m, a)
    BY <1>6, FundedClosureMoves, ZenonT(60) DEF settleAccepted, FundedStates
<1> QED BY <1>1, <1>2, <1>3, <1>4, <1>5, <1>6, ZenonT(60) DEF PermissionlessStep

(* Money and title move together, and only when a funded agreement closes, *)
(* in every step of the marketplaces.                                      *)
THEOREM MoneyAndTitle == Spec => MoneyAndTitleMoveTogether
<1>1. ASSUME TypeOK, Core, NEW m \in Marketplaces, PartyStep(m) PROVE MoneyAndTitleStep
    BY <1>1, PartyStepMoves, AgreementStepMoves, WithdrawalMoves, ZenonT(60)
       DEF PartyStep, withdrawListing, withdrawOffer, rejectOffer, OfferStates
<1>2. ASSUME TypeOK, Core, NextBlock \/ Governance PROVE MoneyAndTitleStep
  <2>1. UNCHANGED <<batteries, agreements, withdrawableCredits>>
      BY <1>2, ZenonT(60) DEF NextBlock, Governance, AuthorityChanges, registryVars, marketVars, setMarketplace
  <2> QED BY <1>2, <2>1, NothingMoves, ZenonT(60)
<1>3. IndInv /\ [Next]_vars => [MoneyAndTitleStep]_vars
    BY <1>1, <1>2, PermissionlessStepMoves, ZenonT(60) DEF Next, IndInv, Core
<1> QED BY <1>3, InductiveInvariant, PTL DEF Spec, MoneyAndTitleMoveTogether

-----------------------------------------------------------------------------
(* What effectiveOfferState answers.                                       *)

(* Submitted offers are for a listing that outlives them, an accepted      *)
(* offer has its agreement, and the offer a listing names as accepted is.  *)
OffersBacked ==
    \A m \in Marketplaces :
        /\ \A o \in OfferIds : offers[m][o].state = "Submitted" =>
              /\ listings[m][offers[m][o].listingId].state # "Unset"
              /\ offers[m][o].expiresAt <= listings[m][offers[m][o].listingId].expiresAt
        /\ \A o \in OfferIds : offers[m][o].state = "Accepted" =>
              \E a \in AgreementIds : agreements[m][a].state # "Unset" /\ agreements[m][a].offerId = o
        /\ \A l \in ListingIds : listings[m][l].acceptedOfferId # Zero =>
              offers[m][listings[m][l].acceptedOfferId].state = "Accepted"

(* What a step that makes no offer, agreement or listing leaves alone.     *)
ListingsKept ==
    \A n \in Marketplaces, k \in ListingIds :
        /\ listings'[n][k].acceptedOfferId \in {listings[n][k].acceptedOfferId, Zero}
        /\ listings[n][k].state # "Unset" =>
              /\ listings'[n][k].state # "Unset"
              /\ listings'[n][k].expiresAt = listings[n][k].expiresAt

AgreementsKept ==
    \A n \in Marketplaces, c \in AgreementIds :
        agreements[n][c].state # "Unset" =>
            agreements'[n][c].state # "Unset" /\ agreements'[n][c].offerId = agreements[n][c].offerId

OffersKept ==
    \A n \in Marketplaces, k \in OfferIds :
        /\ offers'[n][k].listingId = offers[n][k].listingId
        /\ offers'[n][k].expiresAt = offers[n][k].expiresAt
        /\ offers[n][k].state = "Accepted" => offers'[n][k].state = "Accepted"
        /\ offers'[n][k].state \in {"Submitted", "Accepted"} => offers'[n][k].state = offers[n][k].state

(* Such a step keeps the offers backed.                                    *)
LEMMA OffersBackedKept ==
    ASSUME TypeOK, Core, OffersBacked, ListingsKept, AgreementsKept, OffersKept
    PROVE  OffersBacked'
<1> SUFFICES ASSUME NEW m \in Marketplaces
             PROVE  /\ \A o \in OfferIds : offers'[m][o].state = "Submitted" =>
                          /\ listings'[m][offers'[m][o].listingId].state # "Unset"
                          /\ offers'[m][o].expiresAt <= listings'[m][offers'[m][o].listingId].expiresAt
                    /\ \A o \in OfferIds : offers'[m][o].state = "Accepted" =>
                          \E a \in AgreementIds :
                              agreements'[m][a].state # "Unset" /\ agreements'[m][a].offerId = o
                    /\ \A l \in ListingIds : listings'[m][l].acceptedOfferId # Zero =>
                          offers'[m][listings'[m][l].acceptedOfferId].state = "Accepted"
    BY ZenonT(60) DEF OffersBacked
<1>1. ASSUME NEW o \in OfferIds, offers'[m][o].state = "Submitted"
      PROVE  /\ listings'[m][offers'[m][o].listingId].state # "Unset"
             /\ offers'[m][o].expiresAt <= listings'[m][offers'[m][o].listingId].expiresAt
  <2>1. offers[m][o].state = "Submitted" /\ offers'[m][o].listingId = offers[m][o].listingId
        /\ offers'[m][o].expiresAt = offers[m][o].expiresAt
      BY <1>1, ZenonT(60) DEF OffersKept
  <2>2. offers[m][o].listingId \in ListingIds
      BY <2>1, ZenonT(60) DEF Core, ReferencesResolve
  <2>3. /\ listings[m][offers[m][o].listingId].state # "Unset"
        /\ offers[m][o].expiresAt <= listings[m][offers[m][o].listingId].expiresAt
      BY <2>1, ZenonT(60) DEF OffersBacked
  <2>4. /\ listings'[m][offers[m][o].listingId].state # "Unset"
        /\ listings'[m][offers[m][o].listingId].expiresAt = listings[m][offers[m][o].listingId].expiresAt
      BY <2>2, <2>3, ZenonT(60) DEF ListingsKept
  <2> QED BY <2>1, <2>3, <2>4, ZenonT(60)
<1>2. ASSUME NEW o \in OfferIds, offers'[m][o].state = "Accepted"
      PROVE  \E a \in AgreementIds : agreements'[m][a].state # "Unset" /\ agreements'[m][a].offerId = o
  <2>1. offers[m][o].state = "Accepted"
      BY <1>2, ZenonT(60) DEF OffersKept
  <2> QED BY <2>1, SMTT(60) DEF OffersBacked, AgreementsKept
<1>3. ASSUME NEW l \in ListingIds, listings'[m][l].acceptedOfferId # Zero
      PROVE  offers'[m][listings'[m][l].acceptedOfferId].state = "Accepted"
  <2>1. listings'[m][l].acceptedOfferId = listings[m][l].acceptedOfferId
      BY <1>3, ZenonT(60) DEF ListingsKept
  <2>2. listings[m][l].acceptedOfferId \in OfferIds
      BY <1>3, <2>1, SMTT(30) DEF TypeOK, MarketTypeOK, Listing
  <2> QED BY <1>3, <2>1, <2>2, SMTT(30) DEF OffersBacked, OffersKept
<1> QED BY <1>1, <1>2, <1>3, ZenonT(60)

(* The assignments of the functions are of that kind.                      *)
LEMMA AssignmentsKeep ==
    ASSUME MarketTypeOK, NEW m \in Marketplaces
    PROVE  /\ \A l \in ListingIds, s \in ListingStates \ {"Unset"} : SetListingState(m, l, s) => ListingsKept
           /\ \A o \in OfferIds, s \in {"Withdrawn", "Rejected", "Expired"} :
                 offers[m][o].state = "Submitted" /\ SetOfferState(m, o, s) => OffersKept
           /\ \A a \in AgreementIds, s \in AgreementStates \ {"Unset"} :
                 SetAgreementState(m, a, s) => AgreementsKept
<1>1. ASSUME NEW l \in ListingIds, NEW s \in ListingStates \ {"Unset"}, SetListingState(m, l, s),
             NEW n \in Marketplaces, NEW k \in ListingIds
      PROVE  /\ listings'[n][k].acceptedOfferId = listings[n][k].acceptedOfferId
             /\ listings'[n][k].expiresAt = listings[n][k].expiresAt
             /\ listings[n][k].state # "Unset" => listings'[n][k].state # "Unset"
  <2>1. listings[n][k] \in Listing /\ listings[m] \in [ListingIds -> Listing]
      BY ZenonT(60) DEF MarketTypeOK
  <2>2. listings'[n][k] = IF n = m /\ k = l THEN [listings[n][k] EXCEPT !.state = s] ELSE listings[n][k]
      BY <1>1, <2>1, ZenonT(60) DEF MarketTypeOK, SetListingState
  <2> QED BY <1>1, <2>1, <2>2, ZenonT(60) DEF Listing
<1>2. ASSUME NEW o \in OfferIds, NEW s \in {"Withdrawn", "Rejected", "Expired"},
             offers[m][o].state = "Submitted", SetOfferState(m, o, s),
             NEW n \in Marketplaces, NEW k \in OfferIds
      PROVE  /\ offers'[n][k].listingId = offers[n][k].listingId
             /\ offers'[n][k].expiresAt = offers[n][k].expiresAt
             /\ offers[n][k].state = "Accepted" => offers'[n][k].state = "Accepted"
             /\ offers'[n][k].state \in {"Submitted", "Accepted"} => offers'[n][k].state = offers[n][k].state
  <2>1. offers[n][k] \in Offer /\ offers[m] \in [OfferIds -> Offer]
      BY ZenonT(60) DEF MarketTypeOK
  <2>2. offers'[n][k] = IF n = m /\ k = o THEN [offers[n][k] EXCEPT !.state = s] ELSE offers[n][k]
      BY <1>2, <2>1, ZenonT(60) DEF MarketTypeOK, SetOfferState
  <2> QED BY <1>2, <2>1, <2>2, ZenonT(60) DEF Offer
<1>3. ASSUME NEW a \in AgreementIds, NEW s \in AgreementStates \ {"Unset"}, SetAgreementState(m, a, s)
      PROVE  AgreementsKept
  <2>1. AgreementMoved(m, a, s)
      BY <1>3, AgreementStateAssigned, ZenonT(60)
  <2> QED BY <1>3, <2>1, ZenonT(60) DEF AgreementMoved, SameTerms, AgreementsKept
<1> QED BY <1>1, <1>2, <1>3, ZenonT(60) DEF ListingsKept, OffersKept

(* submitOffer: the new offer ends no later than its listing.              *)
LEMMA submitOfferBacked ==
    ASSUME TypeOK, Core, OffersBacked, NEW m \in Marketplaces, NEW sender, NEW o \in OfferIds,
           NEW l \in ListingIds, NEW org, NEW amount, NEW refund, NEW t,
           submitOffer(m, sender, o, l, org, amount, refund, t)
    PROVE  OffersBacked'
<1>1. /\ listings[m][l].state = "Active" /\ offers[m][o].state = "Unset"
      /\ t <= listings[m][l].expiresAt
      /\ UNCHANGED <<listings, agreements>>
    BY ZenonT(60) DEF submitOffer, OfferExpiryFits
<1>2. ASSUME NEW n \in Marketplaces, NEW k \in OfferIds
      PROVE  IF n = m /\ k = o
             THEN /\ offers'[n][k].listingId = l /\ offers'[n][k].expiresAt = t
                  /\ offers'[n][k].state = "Submitted"
             ELSE offers'[n][k] = offers[n][k]
    BY ZenonT(60) DEF submitOffer, TypeOK, MarketTypeOK
<1>3. ASSUME NEW n \in Marketplaces, NEW k \in OfferIds, offers'[n][k].state = "Submitted"
      PROVE  /\ listings'[n][offers'[n][k].listingId].state # "Unset"
             /\ offers'[n][k].expiresAt <= listings'[n][offers'[n][k].listingId].expiresAt
  <2>1. CASE n = m /\ k = o
      BY <1>1, <1>2, <2>1, ZenonT(30)
  <2>2. CASE ~ (n = m /\ k = o)
    <3>1. offers'[n][k] = offers[n][k] /\ listings' = listings
        BY <1>1, <1>2, <2>2, ZenonT(60)
    <3>2. offers[n][k].state = "Submitted"
        BY <1>3, <3>1, ZenonT(60)
    <3>3. /\ listings[n][offers[n][k].listingId].state # "Unset"
          /\ offers[n][k].expiresAt <= listings[n][offers[n][k].listingId].expiresAt
        BY <3>2, ZenonT(60) DEF OffersBacked
    <3> QED BY <3>1, <3>3, ZenonT(60)
  <2> QED BY <2>1, <2>2, ZenonT(60)
<1>4. ASSUME NEW n \in Marketplaces, NEW k \in OfferIds, offers'[n][k].state = "Accepted"
      PROVE  \E a \in AgreementIds : agreements'[n][a].state # "Unset" /\ agreements'[n][a].offerId = k
    BY <1>1, <1>2, <1>4, SMTT(60) DEF OffersBacked
<1>5. ASSUME NEW n \in Marketplaces, NEW k \in ListingIds, listings'[n][k].acceptedOfferId # Zero
      PROVE  offers'[n][listings'[n][k].acceptedOfferId].state = "Accepted"
  <2>1. listings[n][k].acceptedOfferId \in OfferIds
      BY <1>1, <1>5, SMTT(30) DEF TypeOK, MarketTypeOK, Listing
  <2>2. offers[n][listings[n][k].acceptedOfferId].state = "Accepted"
      BY <1>1, <1>5, ZenonT(60) DEF OffersBacked
  <2> QED BY <1>1, <1>2, <2>1, <2>2, ZenonT(60)
<1> QED BY <1>3, <1>4, <1>5, ZenonT(60) DEF OffersBacked

(* selectOfferAndCreateAgreement: the accepted offer gets its agreement    *)
(* and its listing names it.                                               *)
LEMMA selectOfferBacked ==
    ASSUME TypeOK, Core, OffersBacked, NEW m \in Marketplaces, NEW sender, NEW a \in AgreementIds,
           NEW l \in ListingIds, NEW o \in OfferIds, NEW c, NEW d,
           selectOfferAndCreateAgreement(m, sender, a, l, o, c, d)
    PROVE  OffersBacked'
<1> DEFINE matched == [listings[m][l] EXCEPT !.state = "Matched", !.acceptedOfferId = o]
<1>1. /\ listings[m][l].state = "Active" /\ offers[m][o].state = "Submitted"
      /\ agreements[m][a].state = "Unset"
    BY ZenonT(60) DEF selectOfferAndCreateAgreement
<1>2. ASSUME NEW n \in Marketplaces, NEW k \in ListingIds
      PROVE  /\ listings'[n][k].expiresAt = listings[n][k].expiresAt
             /\ listings[n][k].state # "Unset" => listings'[n][k].state # "Unset"
             /\ listings'[n][k].acceptedOfferId = IF n = m /\ k = l THEN o ELSE listings[n][k].acceptedOfferId
  <2>1. listings[n][k] \in Listing /\ listings[m] \in [ListingIds -> Listing]
      BY ZenonT(60) DEF TypeOK, MarketTypeOK
  <2>2. listings' = [listings EXCEPT ![m][l] = matched]
      BY ZenonT(60) DEF selectOfferAndCreateAgreement
  <2>3. listings'[n][k] = IF n = m /\ k = l THEN matched ELSE listings[n][k]
      BY <2>1, <2>2, ZenonT(60) DEF TypeOK, MarketTypeOK
  <2> QED BY <2>1, <2>3, ZenonT(60) DEF Listing
<1>3. ASSUME NEW n \in Marketplaces, NEW k \in OfferIds
      PROVE  /\ offers'[n][k].listingId = offers[n][k].listingId
             /\ offers'[n][k].expiresAt = offers[n][k].expiresAt
             /\ offers'[n][k].state = IF n = m /\ k = o THEN "Accepted" ELSE offers[n][k].state
  <2>1. offers[n][k] \in Offer /\ offers[m] \in [OfferIds -> Offer]
      BY ZenonT(60) DEF TypeOK, MarketTypeOK
  <2>2. offers'[n][k] = IF n = m /\ k = o THEN [offers[n][k] EXCEPT !.state = "Accepted"] ELSE offers[n][k]
      BY <2>1, ZenonT(60) DEF TypeOK, MarketTypeOK, selectOfferAndCreateAgreement, SetOfferState
  <2> QED BY <2>1, <2>2, ZenonT(60) DEF Offer
<1>4. ASSUME NEW n \in Marketplaces, NEW k \in AgreementIds
      PROVE  IF n = m /\ k = a
             THEN agreements'[n][k].state # "Unset" /\ agreements'[n][k].offerId = o
             ELSE agreements'[n][k] = agreements[n][k]
    BY ZenonT(60) DEF selectOfferAndCreateAgreement, TypeOK, MarketTypeOK
<1>5. ASSUME NEW n \in Marketplaces, NEW k \in OfferIds, offers'[n][k].state = "Submitted"
      PROVE  /\ listings'[n][offers'[n][k].listingId].state # "Unset"
             /\ offers'[n][k].expiresAt <= listings'[n][offers'[n][k].listingId].expiresAt
  <2>1. offers[n][k].state = "Submitted"
      BY <1>3, <1>5, ZenonT(60)
  <2>2. offers[n][k].listingId \in ListingIds
      BY <2>1, ZenonT(60) DEF Core, ReferencesResolve
  <2> DEFINE l0 == offers[n][k].listingId
  <2>3. listings[n][l0].state # "Unset" /\ offers[n][k].expiresAt <= listings[n][l0].expiresAt
      BY <2>1, ZenonT(60) DEF OffersBacked
  <2>4. offers'[n][k].listingId = l0 /\ offers'[n][k].expiresAt = offers[n][k].expiresAt
      BY <1>3, ZenonT(60)
  <2>5. l0 \in ListingIds
      BY <2>2, ZenonT(60)
  <2> HIDE DEF l0
  <2>6. listings'[n][l0].expiresAt = listings[n][l0].expiresAt /\ listings'[n][l0].state # "Unset"
      BY <1>2, <2>3, <2>5, ZenonT(60)
  <2> QED BY <2>3, <2>4, <2>6, ZenonT(30)
<1>6. ASSUME NEW n \in Marketplaces, NEW k \in OfferIds, offers'[n][k].state = "Accepted"
      PROVE  \E x \in AgreementIds : agreements'[n][x].state # "Unset" /\ agreements'[n][x].offerId = k
  <2>1. CASE n = m /\ k = o
      BY <1>4, <2>1, ZenonT(60)
  <2>2. CASE ~ (n = m /\ k = o)
    <3>1. PICK x \in AgreementIds : agreements[n][x].state # "Unset" /\ agreements[n][x].offerId = k
        BY <1>3, <1>6, <2>2, SMTT(30) DEF OffersBacked
    <3> QED BY <1>1, <1>4, <3>1, ZenonT(60)
  <2> QED BY <2>1, <2>2, ZenonT(60)
<1>7. ASSUME NEW n \in Marketplaces, NEW k \in ListingIds, listings'[n][k].acceptedOfferId # Zero
      PROVE  offers'[n][listings'[n][k].acceptedOfferId].state = "Accepted"
  <2>1. CASE n = m /\ k = l
      BY <1>2, <1>3, <2>1, ZenonT(60)
  <2>2. CASE ~ (n = m /\ k = l)
    <3>1. listings'[n][k].acceptedOfferId = listings[n][k].acceptedOfferId
        BY <1>2, <2>2, ZenonT(60)
    <3>2. listings[n][k].acceptedOfferId \in OfferIds
        BY <1>7, <3>1, SMTT(30) DEF TypeOK, MarketTypeOK, Listing
    <3>3. offers[n][listings[n][k].acceptedOfferId].state = "Accepted"
        BY <1>7, <3>1, ZenonT(60) DEF OffersBacked
    <3> QED BY <1>3, <3>1, <3>2, <3>3, SMTT(30)
  <2> QED BY <2>1, <2>2, ZenonT(60)
<1> QED BY <1>5, <1>6, <1>7, ZenonT(60) DEF OffersBacked

(* The steps that leave offers, listings and agreements as they are, or    *)
(* that advance or close one of them.                                      *)
LEMMA ClosuresKeepOffersBacked ==
    ASSUME TypeOK, Core, OffersBacked, NEW m \in Marketplaces
    PROVE  /\ \A l \in ListingIds, s \in {"Withdrawn", "Expired"} : CloseActiveListing(m, l, s) => OffersBacked'
           /\ \A o \in OfferIds, s \in {"Withdrawn", "Rejected", "Expired"} :
                 CloseSubmittedOffer(m, o, s) => OffersBacked'
           /\ \A a \in AgreementIds, s \in AgreementStates \ {"Unset"} :
                 SetAgreementState(m, a, s) /\ UNCHANGED <<listings, offers>> => OffersBacked'
           /\ \A a \in AgreementIds, s \in ClosedStates, t \in {"ClosedSettled", "ClosedCancelled"} :
                 LiveAgreement(m, a) /\ CloseAgreement(m, a, s, t) => OffersBacked'
           /\ UNCHANGED <<listings, offers, agreements>> => OffersBacked'
<1>0. MarketTypeOK
    BY ZenonT(60) DEF TypeOK
<1>1. /\ UNCHANGED listings => ListingsKept
      /\ UNCHANGED offers => OffersKept
      /\ UNCHANGED agreements => AgreementsKept
    BY ZenonT(60) DEF ListingsKept, OffersKept, AgreementsKept
<1>2. ASSUME NEW l \in ListingIds, NEW s \in {"Withdrawn", "Expired"}, CloseActiveListing(m, l, s)
      PROVE  OffersBacked'
  <2>1. ListingsKept
      BY <1>0, <1>2, AssignmentsKeep, ZenonT(60) DEF CloseActiveListing, ListingStates
  <2> QED BY <1>1, <1>2, <2>1, OffersBackedKept, ZenonT(60) DEF CloseActiveListing
<1>3. ASSUME NEW o \in OfferIds, NEW s \in {"Withdrawn", "Rejected", "Expired"}, CloseSubmittedOffer(m, o, s)
      PROVE  OffersBacked'
  <2>1. OffersKept
      BY <1>0, <1>3, AssignmentsKeep, ZenonT(60) DEF CloseSubmittedOffer
  <2> QED BY <1>1, <1>3, <2>1, OffersBackedKept, ZenonT(60) DEF CloseSubmittedOffer
<1>4. ASSUME NEW a \in AgreementIds, NEW s \in AgreementStates \ {"Unset"},
             SetAgreementState(m, a, s), UNCHANGED <<listings, offers>>
      PROVE  OffersBacked'
    BY <1>0, <1>1, <1>4, AssignmentsKeep, OffersBackedKept, ZenonT(60)
<1>5. ASSUME NEW a \in AgreementIds, NEW s \in ClosedStates, NEW t \in {"ClosedSettled", "ClosedCancelled"},
             LiveAgreement(m, a), CloseAgreement(m, a, s, t)
      PROVE  OffersBacked'
  <2>1. agreements[m][a].listingId \in ListingIds
      BY <1>5, AgreementFacts, ZenonT(60) DEF LiveAgreement, UnfundedStates, FundedStates
  <2>2. ListingsKept
      BY <1>0, <1>5, <2>1, AssignmentsKeep, ZenonT(60) DEF CloseAgreement, ListingStates
  <2>3. AgreementsKept
      BY <1>0, <1>5, AssignmentsKeep, ZenonT(60) DEF CloseAgreement, AgreementStates, ClosedStates
  <2> QED BY <1>1, <1>5, <2>2, <2>3, OffersBackedKept, ZenonT(60) DEF CloseAgreement
<1>6. UNCHANGED <<listings, offers, agreements>> => OffersBacked'
    BY <1>1, OffersBackedKept, ZenonT(60)
<1> QED BY <1>2, <1>3, <1>4, <1>5, <1>6, ZenonT(60)

(* createListing makes a listing without an accepted offer, and            *)
(* openTransactionDispute changes no agreement's offer.                    *)
LEMMA OtherStepsKeepOffersBacked ==
    ASSUME TypeOK, Core, OffersBacked, NEW m \in Marketplaces, NEW sender \in Accounts
    PROVE  /\ \A l \in ListingIds, b \in SubjectIds, org \in OrganizationIds,
                 payout \in PayoutAddresses, t \in Deadlines :
                   createListing(m, sender, l, b, org, payout, t) => OffersBacked'
           /\ \A a \in AgreementIds, x \in ActionIds, org \in OrganizationIds :
                   openTransactionDispute(m, sender, a, x, org) => OffersBacked'
<1>1. ASSUME NEW l \in ListingIds, NEW b \in SubjectIds, NEW org \in OrganizationIds,
             NEW payout \in PayoutAddresses, NEW t \in Deadlines,
             createListing(m, sender, l, b, org, payout, t)
      PROVE  OffersBacked'
  <2>1. ListingsKept
      BY <1>1, ZenonT(60) DEF createListing, ListingsKept, TypeOK, MarketTypeOK
  <2>2. OffersKept /\ AgreementsKept
      BY <1>1, ZenonT(60) DEF createListing, OffersKept, AgreementsKept
  <2> QED BY <2>1, <2>2, OffersBackedKept, ZenonT(60)
<1>2. ASSUME NEW a \in AgreementIds, NEW x \in ActionIds, NEW org \in OrganizationIds,
             openTransactionDispute(m, sender, a, x, org)
      PROVE  OffersBacked'
  <2> DEFINE disputed == [agreements[m][a] EXCEPT !.disputeId = x, !.state = "Disputed"]
  <2>1. agreements' = [agreements EXCEPT ![m][a] = disputed]
      BY <1>2, ZenonT(60) DEF openTransactionDispute
  <2>2. ASSUME NEW n \in Marketplaces, NEW c \in AgreementIds, agreements[n][c].state # "Unset"
        PROVE  agreements'[n][c].state # "Unset" /\ agreements'[n][c].offerId = agreements[n][c].offerId
    <3>1. agreements[n][c] \in Agreement /\ agreements[m] \in [AgreementIds -> Agreement]
        BY ZenonT(60) DEF TypeOK, MarketTypeOK
    <3>2. agreements'[n][c] = IF n = m /\ c = a THEN disputed ELSE agreements[n][c]
        BY <2>1, <3>1, ZenonT(60) DEF TypeOK, MarketTypeOK
    <3> QED BY <2>2, <3>1, <3>2, SMTT(30) DEF Agreement
  <2>3. ListingsKept /\ OffersKept
      BY <1>2, ZenonT(60) DEF openTransactionDispute, ListingsKept, OffersKept
  <2> QED BY <2>2, <2>3, OffersBackedKept, ZenonT(60) DEF AgreementsKept
<1> QED BY <1>1, <1>2, ZenonT(60)

(* Whatever a party calls keeps the offers backed.                         *)
LEMMA PartyStepKeepsOffersBacked ==
    ASSUME TypeOK, Core, OffersBacked, NEW m \in Marketplaces, PartyStep(m)
    PROVE  OffersBacked'
<1> PICK sender \in Accounts : PartyStep(m)!(sender)
    BY ZenonT(60) DEF PartyStep
<1>1. CASE \E l \in ListingIds, b \in SubjectIds, org \in OrganizationIds,
              payout \in PayoutAddresses, t \in Deadlines :
                createListing(m, sender, l, b, org, payout, t)
    BY <1>1, OtherStepsKeepOffersBacked, ZenonT(60)
<1>2. CASE \E l \in ListingIds : withdrawListing(m, sender, l)
    BY <1>2, ClosuresKeepOffersBacked, ZenonT(60) DEF withdrawListing
<1>3. CASE \E o \in OfferIds, l \in ListingIds, org \in OrganizationIds, amount \in Amounts,
              refund \in RefundAddresses, t \in Deadlines :
                submitOffer(m, sender, o, l, org, amount, refund, t)
    BY <1>3, submitOfferBacked, ZenonT(60)
<1>4. CASE \E o \in OfferIds : withdrawOffer(m, sender, o) \/ rejectOffer(m, sender, o)
    BY <1>4, ClosuresKeepOffersBacked, ZenonT(60) DEF withdrawOffer, rejectOffer
<1>5. CASE \E a \in AgreementIds, l \in ListingIds, o \in OfferIds, c, d \in Deadlines :
                selectOfferAndCreateAgreement(m, sender, a, l, o, c, d)
    BY <1>5, selectOfferBacked, ZenonT(60)
<1>6. CASE \E a \in AgreementIds : confirmAgreement(m, sender, a) \/ acceptDelivery(m, sender, a)
    BY <1>6, ClosuresKeepOffersBacked, ZenonT(60) DEF confirmAgreement, acceptDelivery, AgreementStates, UnfundedStates, FundedStates
<1>7. CASE \E a \in AgreementIds, value \in Amounts : fundAgreement(m, sender, a, value)
    BY <1>7, ClosuresKeepOffersBacked, ZenonT(60) DEF fundAgreement, AgreementStates, FundedStates
<1>8. CASE \E a \in AgreementIds, x \in ActionIds, org \in OrganizationIds :
                recordDispatch(m, sender, a, x, org) \/ recordDelivery(m, sender, a, x, org)
    BY <1>8, ClosuresKeepOffersBacked, ZenonT(60) DEF recordDispatch, recordDelivery, AgreementStates, FundedStates
<1>9. CASE \E a \in AgreementIds, x \in ActionIds, org \in OrganizationIds :
                openTransactionDispute(m, sender, a, x, org)
    BY <1>9, OtherStepsKeepOffersBacked, ZenonT(60)
<1>10. CASE \E a \in AgreementIds, org \in OrganizationIds, r \in {"ReleaseAndTransfer", "RefundAndCancel"} :
                resolveAgreement(m, sender, a, org, r)
    BY <1>10, ClosuresKeepOffersBacked, ZenonT(60)
       DEF resolveAgreement, releaseAndTransfer, refundAndCancel, LiveAgreement, FundedStates, ClosedStates
<1>11. CASE withdrawCredits(m, sender)
    BY <1>11, ClosuresKeepOffersBacked, ZenonT(60) DEF withdrawCredits
<1> QED BY <1>1, <1>2, <1>3, <1>4, <1>5, <1>6, <1>7, <1>8, <1>9, <1>10, <1>11, ZenonT(60)

(* So does whatever anyone may call.                                       *)
LEMMA PermissionlessStepKeepsOffersBacked ==
    ASSUME TypeOK, Core, OffersBacked, NEW m \in Marketplaces, PermissionlessStep(m)
    PROVE  OffersBacked'
<1>1. CASE \E l \in ListingIds : expireListing(m, l)
    BY <1>1, ClosuresKeepOffersBacked, ZenonT(60) DEF expireListing
<1>2. CASE \E o \in OfferIds : expireOffer(m, o)
    BY <1>2, ClosuresKeepOffersBacked, ZenonT(60) DEF expireOffer
<1>3. CASE \E a \in AgreementIds : cancelUnfundedAgreement(m, a)
    BY <1>3, ClosuresKeepOffersBacked, ZenonT(60) DEF cancelUnfundedAgreement, cancelWithoutFunds, LiveAgreement, ClosedStates
<1>4. CASE \E a \in AgreementIds : applyDispatchTimeout(m, a)
    BY <1>4, ClosuresKeepOffersBacked, ZenonT(60)
       DEF applyDispatchTimeout, refundAndCancel, LiveAgreement, FundedStates, ClosedStates
<1>5. CASE \E a \in AgreementIds : applyDeliveryOrAcceptanceTimeout(m, a)
    BY <1>5, ClosuresKeepOffersBacked, ZenonT(60) DEF applyDeliveryOrAcceptanceTimeout, AgreementStates, FundedStates
<1>6. CASE \E a \in AgreementIds : settleAccepted(m, a)
    BY <1>6, ClosuresKeepOffersBacked, ZenonT(60)
       DEF settleAccepted, releaseAndTransfer, LiveAgreement, FundedStates, ClosedStates
<1> QED BY <1>1, <1>2, <1>3, <1>4, <1>5, <1>6, ZenonT(60) DEF PermissionlessStep

(* Backed offers are shown in their true state.                            *)
LEMMA BackedOffersShownTruly ==
    ASSUME TypeOK, Core, OffersBacked
    PROVE  EffectiveOfferStateIsTrue
<1> SUFFICES ASSUME NEW m \in Marketplaces, NEW o \in OfferIds
             PROVE  /\ effectiveOfferState(m, o) = "Submitted" <=>
                          /\ offers[m][o].state = "Submitted"
                          /\ now < offers[m][o].expiresAt
                          /\ listings[m][offers[m][o].listingId].state = "Active"
                          /\ now < listings[m][offers[m][o].listingId].expiresAt
                    /\ effectiveOfferState(m, o) = "Accepted" <=>
                          \E a \in AgreementIds :
                              agreements[m][a].state # "Unset" /\ agreements[m][a].offerId = o
    BY ZenonT(60) DEF EffectiveOfferStateIsTrue
<1> DEFINE listing == listings[m][offers[m][o].listingId]
           agreed == \E a \in AgreementIds : agreements[m][a].state # "Unset" /\ agreements[m][a].offerId = o
<1>1. offers[m][o].state = "Accepted" <=> agreed
    BY AgreementFacts, SMTT(30) DEF OffersBacked
<1>2. CASE offers[m][o].state # "Submitted"
    BY <1>1, <1>2, ZenonT(60) DEF effectiveOfferState
<1>3. CASE offers[m][o].state = "Submitted"
  <2>1. offers[m][o].listingId \in ListingIds
      BY <1>3, ZenonT(30) DEF Core, ReferencesResolve
  <2>2. /\ listing.state \in ListingStates \ {"Unset"}
        /\ listing.expiresAt \in Nat /\ offers[m][o].expiresAt \in Nat /\ now \in Nat
    <3>1. listing \in Listing /\ offers[m][o] \in Offer /\ now \in Timestamps
        BY <2>1, ZenonT(60) DEF TypeOK, MarketTypeOK
    <3>2. listing.state # "Unset"
        BY <1>3, ZenonT(60) DEF OffersBacked
    <3>3. /\ \A x \in Listing : x.state \in ListingStates /\ x.expiresAt \in Timestamps
          /\ \A x \in Offer : x.expiresAt \in Timestamps
        BY SMTT(60) DEF Listing, Offer
    <3>4. \A x \in Timestamps : x \in Nat
        BY MaxTimestampAssumption, SMTT(60) DEF Timestamps
    <3>5. listing.state \in ListingStates /\ listing.expiresAt \in Timestamps /\ offers[m][o].expiresAt \in Timestamps
        BY <3>1, <3>3, ZenonT(60)
    <3> QED BY <3>1, <3>2, <3>4, <3>5, ZenonT(60)
  <2>3. offers[m][o].expiresAt <= listing.expiresAt
      BY <1>3, ZenonT(60) DEF OffersBacked
  <2>4. listing.acceptedOfferId # o
    <3>1. o # Zero /\ offers[m][o].state # "Accepted"
        BY <1>3, MarketplaceAssumption
    <3>2. listing.acceptedOfferId # Zero => offers[m][listing.acceptedOfferId].state = "Accepted"
        BY <2>1, ZenonT(60) DEF OffersBacked
    <3> QED BY <3>1, <3>2, ZenonT(60)
  <2>5. CASE listing.state = "Active"
    <3>1. effectiveOfferState(m, o) = IF now >= offers[m][o].expiresAt THEN "Expired" ELSE "Submitted"
        BY <1>3, <2>5, ZenonT(60) DEF effectiveOfferState
    <3>2. \A x, y, z \in Nat : (x >= y <=> ~ (x < y)) /\ (x < y /\ y <= z => x < z)
        BY SMTT(60)
    <3>3. /\ now >= offers[m][o].expiresAt <=> ~ (now < offers[m][o].expiresAt)
          /\ now < offers[m][o].expiresAt => now < listing.expiresAt
        BY <2>2, <2>3, <3>2, ZenonT(60)
    <3>4. CASE now < offers[m][o].expiresAt
      <4>1. effectiveOfferState(m, o) = "Submitted"
          BY <3>1, <3>3, <3>4, ZenonT(60)
      <4> QED BY <1>1, <1>3, <2>5, <3>3, <3>4, <4>1, ZenonT(60)
    <3>5. CASE ~ (now < offers[m][o].expiresAt)
      <4>1. effectiveOfferState(m, o) = "Expired"
          BY <3>1, <3>3, <3>5, ZenonT(60)
      <4> QED BY <1>1, <1>3, <3>5, <4>1, ZenonT(60)
    <3> QED BY <3>4, <3>5, ZenonT(60)
  <2>6. CASE listing.state # "Active"
    <3>1. effectiveOfferState(m, o) = "Rejected"
        BY <1>3, <2>2, <2>4, <2>6, ZenonT(60) DEF effectiveOfferState, ListingStates
    <3> QED BY <1>1, <1>3, <2>6, <3>1, ZenonT(60)
  <2> QED BY <2>5, <2>6, ZenonT(60)
<1> QED BY <1>2, <1>3, ZenonT(60)

(* effectiveOfferState never misleads: in every reachable state it answers *)
(* Submitted exactly for the offers the seller could take and Accepted     *)
(* exactly for those with an agreement.                                    *)
THEOREM OffersAreShownTruly == Spec => []EffectiveOfferStateIsTrue
<1>1. Init => OffersBacked
    BY DEF Init, OffersBacked, NoListing, NoOffer
<1>2. ASSUME IndInv, OffersBacked, [Next]_vars PROVE OffersBacked'
  <2>1. TypeOK /\ Core
      BY <1>2, ZenonT(60) DEF IndInv, Core
  <2>2. CASE NextBlock \/ Governance \/ UNCHANGED vars
    <3>1. UNCHANGED <<listings, offers, agreements>>
        BY <2>2, ZenonT(60) DEF NextBlock, Governance, AuthorityChanges, marketVars, vars
    <3>2. OffersKept /\ ListingsKept /\ AgreementsKept
        BY <3>1, ZenonT(60) DEF OffersKept, ListingsKept, AgreementsKept
    <3> QED BY <1>2, <2>1, <3>2, OffersBackedKept, ZenonT(60)
  <2> QED BY <1>2, <2>1, <2>2, PartyStepKeepsOffersBacked, PermissionlessStepKeepsOffersBacked, ZenonT(60) DEF Next
<1>3. IndInv /\ OffersBacked => EffectiveOfferStateIsTrue
    BY BackedOffersShownTruly, ZenonT(60) DEF IndInv, Core
<1> QED BY <1>1, <1>2, <1>3, InductiveInvariant, PTL DEF Spec
=============================================================================
