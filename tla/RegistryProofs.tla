--------------------------- MODULE RegistryProofs ---------------------------
(***************************************************************************)
(* The registries of batteries and of protected bundles.  The ownership    *)
(* history of every battery is one unbroken chain, roots are registered    *)
(* packs and owners change under the lock.  Every bundle is accounted for, *)
(* a credential has one actor, and the registry of bundles implements      *)
(* ConfirmedLinks.  All of it for every number of batteries, bundles,      *)
(* domain records, organizations, accounts, marketplaces, credentials,     *)
(* proposals, attestations, nonces and timestamps.                         *)
(***************************************************************************)
EXTENDS BatteryOwnershipRegistry, ProtectedBundleRegistry, FiniteSetTheorems, TLAPS

-----------------------------------------------------------------------------
(* Batteries: histories.                                                   *)

(* What _recordOwnershipTransition does to a history: one more entry at    *)
(* the end, and every earlier one where it was.                            *)
LEMMA AppendFacts ==
    ASSUME NEW S, NEW h \in Seq(S), NEW e \in S
    PROVE  /\ Append(h, e) \in Seq(S)
           /\ Len(h) \in Nat
           /\ Len(Append(h, e)) = Len(h) + 1
           /\ Append(h, e)[Len(h) + 1] = e
           /\ \A i \in 1 .. Len(h) : Append(h, e)[i] = h[i]
           /\ SubSeq(Append(h, e), 1, Len(h)) = h
    OBVIOUS

(* A history is empty or has a first and a last entry.                     *)
LEMMA HistoryFacts ==
    ASSUME NEW S, NEW h \in Seq(S)
    PROVE  /\ Len(h) \in Nat
           /\ h = <<>> <=> Len(h) = 0
           /\ SubSeq(h, 1, Len(h)) = h
           /\ \A i \in 1 .. Len(h) : h[i] \in S
    OBVIOUS

-----------------------------------------------------------------------------
(* The inductive invariant.                                                *)

(* A proposal that was made names a battery and an organization, and one   *)
(* that was accepted has its battery registered.                           *)
ProposalsResolve ==
    \A p \in ProposalIds :
        LET proposal == initialOwnershipProposals[p] IN
        /\ proposal.status # "Unset" => proposal.batteryId \in SubjectIds /\ proposal.owner \in OrganizationIds
        /\ proposal.status = "Accepted" => batteries[proposal.batteryId].registered

(* No entry of a history lies in the future.                               *)
HistoriesDated ==
    \A b \in SubjectIds : \A i \in 1 .. Len(ownershipTransitions[b]) :
        ownershipTransitions[b][i].recordedAt <= now

(* A registered battery is registered as a pack and is its own root.       *)
BatteriesArePacks ==
    \A b \in SubjectIds : batteries[b].registered =>
        /\ subjects[b].registered
        /\ subjects[b].granularity = Pack
        /\ subjects[b].rootBatteryId = b

RegistryInv ==
    /\ now \in Timestamps
    /\ RegistryTypeOK
    /\ ProposalsResolve
    /\ OwnershipHistoryChains
    /\ HistoriesDated
    /\ BatteriesArePacks
    /\ RootsAreRegisteredPacks

(* The part of the invariant that is about one battery's history.          *)
HistoryChains(b) ==
    LET h == ownershipTransitions[b] IN
    /\ batteries[b].registered <=> h # <<>>
    /\ h # <<>> => h[1].previousOwner = Zero /\ h[Len(h)].newOwner = batteries[b].recordedOwner
    /\ \A i \in 1 .. Len(h) - 1 :
          h[i + 1].previousOwner = h[i].newOwner /\ h[i].recordedAt <= h[i + 1].recordedAt
    /\ \A i \in 1 .. Len(h) : h[i].recordedAt <= now

LEMMA HistoriesChain ==
    OwnershipHistoryChains /\ HistoriesDated <=> OneInitialOwner /\ \A b \in SubjectIds : HistoryChains(b)
    BY ZenonT(60) DEF OwnershipHistoryChains, HistoriesDated, HistoryChains

(* A history stays a chain while the registry's answer about the battery   *)
(* stays and time does not go back.                                        *)
LEMMA HistoryKept ==
    ASSUME now \in Timestamps, now' \in Timestamps, now <= now', RegistryTypeOK,
           NEW b \in SubjectIds, HistoryChains(b),
           ownershipTransitions'[b] = ownershipTransitions[b],
           batteries'[b].registered = batteries[b].registered,
           batteries'[b].recordedOwner = batteries[b].recordedOwner
    PROVE  HistoryChains(b)'
<1> DEFINE h == ownershipTransitions[b]
<1>1. h \in Seq(Transition)
    BY DEF RegistryTypeOK
<1>2. \A i \in 1 .. Len(h) : h[i].recordedAt \in Nat
  <2>1. \A i \in 1 .. Len(h) : h[i] \in Transition
      BY <1>1, HistoryFacts
  <2> QED BY <2>1, MaxTimestampAssumption DEF Transition, Timestamps
<1>3. \A i \in 1 .. Len(h) : h[i].recordedAt <= now'
    BY <1>2, MaxTimestampAssumption DEF HistoryChains, Timestamps
<1> QED BY <1>3, ZenonT(60) DEF HistoryChains

(* An entry that takes over from the recorded owner, or from nobody when   *)
(* there is none, extends the chain and leaves its first entry.            *)
LEMMA HistoryGrows ==
    ASSUME now \in Timestamps, UNCHANGED now, RegistryTypeOK,
           NEW b \in SubjectIds, HistoryChains(b),
           NEW previous, NEW new, NEW m,
           [previousOwner |-> previous, newOwner |-> new, marketplace |-> m, recordedAt |-> now] \in Transition,
           recordOwnershipTransition(b, previous, new, m),
           previous = IF batteries[b].registered THEN batteries[b].recordedOwner ELSE Zero,
           batteries'[b].registered, batteries'[b].recordedOwner = new
    PROVE  /\ HistoryChains(b)'
           /\ ownershipTransitions'[b][1] =
                 IF batteries[b].registered THEN ownershipTransitions[b][1]
                 ELSE [previousOwner |-> previous, newOwner |-> new, marketplace |-> m, recordedAt |-> now]
<1> DEFINE h == ownershipTransitions[b]
           e == [previousOwner |-> previous, newOwner |-> new, marketplace |-> m, recordedAt |-> now]
           n == Len(h)
<1>1. h \in Seq(Transition) /\ e \in Transition
    BY DEF RegistryTypeOK
<1>2. ownershipTransitions'[b] = Append(h, e)
    BY DEF RegistryTypeOK, recordOwnershipTransition
<1>3. /\ Append(h, e) \in Seq(Transition) /\ n \in Nat /\ Len(Append(h, e)) = n + 1
      /\ Append(h, e)[n + 1] = e
      /\ \A i \in 1 .. n : Append(h, e)[i] = h[i]
    BY <1>1, AppendFacts
<1>4. (h = <<>> <=> n = 0) /\ Append(h, e) # <<>>
    BY <1>1, <1>3, HistoryFacts
<1>5. \A i \in 1 .. n : h[i].recordedAt \in Nat /\ h[i].recordedAt <= now
  <2>1. \A i \in 1 .. n : h[i] \in Transition
      BY <1>1, HistoryFacts
  <2> QED BY <2>1, MaxTimestampAssumption DEF Transition, Timestamps, HistoryChains
<1>6. CASE ~ batteries[b].registered
  <2>1. n = 0 /\ Append(h, e)[1] = e
      BY <1>3, <1>4, <1>6 DEF HistoryChains
  <2>2. e.previousOwner = Zero /\ e.newOwner = new /\ e.recordedAt = now
      BY <1>6
  <2> QED BY <1>2, <1>3, <1>4, <1>6, <2>1, <2>2, MaxTimestampAssumption DEF HistoryChains, Timestamps
<1>7. CASE batteries[b].registered
  <2>1. n > 0 /\ Append(h, e)[1] = h[1] /\ Append(h, e)[n] = h[n]
      BY <1>3, <1>4, <1>7 DEF HistoryChains
  <2>2. e.previousOwner = h[n].newOwner /\ e.newOwner = new /\ e.recordedAt = now
      BY <1>4, <1>7, <2>1 DEF HistoryChains
  <2>3. ASSUME NEW i \in 1 .. n
        PROVE  /\ Append(h, e)[i + 1].previousOwner = Append(h, e)[i].newOwner
               /\ Append(h, e)[i].recordedAt <= Append(h, e)[i + 1].recordedAt
    <3>1. CASE i = n
        BY <1>3, <1>5, <2>1, <2>2, <3>1
    <3>2. CASE i # n
      <4>1. i \in 1 .. n - 1 /\ i + 1 \in 1 .. n
          BY <1>3, <3>2
      <4>2. h[i + 1].previousOwner = h[i].newOwner /\ h[i].recordedAt <= h[i + 1].recordedAt
          BY <4>1 DEF HistoryChains
      <4> QED BY <1>3, <4>1, <4>2
    <3> QED BY <3>1, <3>2
  <2>4. \A i \in 1 .. n + 1 : Append(h, e)[i].recordedAt <= now
      BY <1>3, <1>5, <2>2, MaxTimestampAssumption DEF Timestamps
  <2>5. h[1].previousOwner = Zero
      BY <1>4, <2>1 DEF HistoryChains
  <2> QED BY <1>2, <1>3, <1>4, <1>7, <2>1, <2>2, <2>3, <2>4, <2>5 DEF HistoryChains
<1> QED BY <1>6, <1>7

-----------------------------------------------------------------------------
(* What each call does to the maps it writes.                              *)

(* A marketplace call writes the lock of one battery, and a transfer also  *)
(* its owner.                                                              *)
LEMMA MarketplaceCallEffects ==
    ASSUME RegistryTypeOK, NEW m \in Marketplaces, NEW b \in SubjectIds
    PROVE  /\ lockForMarketplace(m, b) \/ unlockForMarketplace(m, b) =>
                 /\ batteries' \in [SubjectIds -> Battery]
                 /\ \A c \in SubjectIds : /\ batteries'[c].registered = batteries[c].registered
                                          /\ batteries'[c].recordedOwner = batteries[c].recordedOwner
           /\ \A org \in OrganizationIds : transferRecordedOwnership(m, b, org) =>
                 /\ batteries' \in [SubjectIds -> Battery]
                 /\ \A c \in SubjectIds : /\ batteries'[c].registered = batteries[c].registered
                                          /\ c # b => batteries'[c].recordedOwner = batteries[c].recordedOwner
                 /\ batteries'[b].recordedOwner = org /\ batteries'[b].marketplaceLock = Zero
<1>1. batteries \in [SubjectIds -> Battery] /\ \A c \in SubjectIds : batteries[c] \in Battery
    BY DEF RegistryTypeOK
<1>2. ASSUME NEW x \in Marketplaces \cup {Zero}, batteries' = [batteries EXCEPT ![b].marketplaceLock = x]
      PROVE  /\ batteries' \in [SubjectIds -> Battery]
             /\ \A c \in SubjectIds : /\ batteries'[c].registered = batteries[c].registered
                                      /\ batteries'[c].recordedOwner = batteries[c].recordedOwner
  <2>1. [batteries[b] EXCEPT !.marketplaceLock = x] \in Battery
      BY <1>1 DEF Battery
  <2>2. batteries' = [batteries EXCEPT ![b] = [batteries[b] EXCEPT !.marketplaceLock = x]]
      BY <1>2
  <2>3. ASSUME NEW c \in SubjectIds
        PROVE  batteries'[c] = IF c = b THEN [batteries[c] EXCEPT !.marketplaceLock = x] ELSE batteries[c]
      BY <1>1, <2>2
  <2> QED BY <1>1, <2>1, <2>2, <2>3 DEF Battery
<1>3. ASSUME NEW org \in OrganizationIds, transferRecordedOwnership(m, b, org)
      PROVE  /\ batteries' \in [SubjectIds -> Battery]
             /\ \A c \in SubjectIds : /\ batteries'[c].registered = batteries[c].registered
                                      /\ c # b => batteries'[c].recordedOwner = batteries[c].recordedOwner
             /\ batteries'[b].recordedOwner = org /\ batteries'[b].marketplaceLock = Zero
  <2> DEFINE sold == [batteries[b] EXCEPT !.recordedOwner = org, !.marketplaceLock = Zero]
  <2>1. sold \in Battery /\ sold.registered = batteries[b].registered
        /\ sold.recordedOwner = org /\ sold.marketplaceLock = Zero
      BY <1>1, ZenonT(60) DEF Battery
  <2>2. batteries' = [batteries EXCEPT ![b] = sold]
      BY <1>1, <1>3, ZenonT(60) DEF transferRecordedOwnership, Battery
  <2> HIDE DEF sold
  <2> QED BY <1>1, <2>1, <2>2
<1> QED BY <1>2, <1>3 DEF lockForMarketplace, unlockForMarketplace

(* Every call keeps the types.                                             *)
LEMMA RegistryStepTypes ==
    ASSUME now \in Timestamps, RegistryTypeOK, ProposalsResolve, [RegistryNext]_<<now, registryVars>>
    PROVE  now' \in Timestamps /\ now <= now' /\ RegistryTypeOK'
<1>1. now' \in Timestamps /\ now <= now'
    BY MaxTimestampAssumption DEF RegistryNext, Tick, Timestamps
<1>2. ASSUME NEW b \in SubjectIds, NEW org \in OrganizationIds, RecordPack(b, org)
      PROVE  /\ batteries' \in [SubjectIds -> Battery] /\ subjects' \in [SubjectIds -> Subject]
             /\ ownershipTransitions' \in [SubjectIds -> Seq(Transition)]
  <2>1. [recordedOwner |-> org, marketplaceLock |-> Zero, registered |-> TRUE] \in Battery
      BY DEF Battery
  <2>2. [parentId |-> Zero, rootBatteryId |-> b, granularity |-> Pack, registered |-> TRUE] \in Subject
      BY DEF Subject, Pack, Cell
  <2>3. [previousOwner |-> Zero, newOwner |-> org, marketplace |-> Zero, recordedAt |-> now] \in Transition
      BY DEF Transition
  <2>4. batteries' \in [SubjectIds -> Battery] /\ subjects' \in [SubjectIds -> Subject]
      BY <1>2, <2>1, <2>2 DEF RecordPack, RegistryTypeOK
  <2>5. ownershipTransitions' \in [SubjectIds -> Seq(Transition)]
      BY <1>2, <2>3, AppendFacts DEF RecordPack, recordOwnershipTransition, RegistryTypeOK
  <2> QED BY <2>4, <2>5
<1>3. ASSUME NEW p \in ProposalIds, NEW s \in {"Accepted", "Rejected", "Expired"}, CloseProposal(p, s)
      PROVE  initialOwnershipProposals' \in [ProposalIds -> Proposal]
  <2>1. initialOwnershipProposals[p] \in Proposal
      BY DEF RegistryTypeOK
  <2>2. [initialOwnershipProposals[p] EXCEPT !.status = s] \in Proposal
      BY <2>1 DEF Proposal
  <2> QED BY <1>3, <2>2 DEF CloseProposal, RegistryTypeOK
<1>4. CASE UNCHANGED registryVars
    BY <1>1, <1>4 DEF registryVars, RegistryTypeOK
<1>5. CASE \E a \in Accounts, allowed \in BOOLEAN : setRegistrar(a, allowed)
    BY <1>1, <1>5 DEF setRegistrar, RegistryTypeOK
<1>6. CASE \E m \in Marketplaces, allowed \in BOOLEAN : setMarketplace(m, allowed)
    BY <1>1, <1>6 DEF setMarketplace, RegistryTypeOK
<1>7. CASE \E r \in Accounts, b \in SubjectIds, org \in OrganizationIds : registerBattery(r, b, org)
    BY <1>1, <1>2, <1>7 DEF registerBattery, RegistryTypeOK
<1>8. CASE \E r, a \in Accounts, p \in ProposalIds, b \in SubjectIds, org \in OrganizationIds, t \in Timestamps :
              proposeInitialOwnership(r, p, b, org, a, t)
    BY <1>1, <1>8 DEF proposeInitialOwnership, RegistryTypeOK, Proposal
<1>9. CASE \E a \in Accounts, p \in ProposalIds : acceptInitialOwnership(a, p)
  <2> PICK a \in Accounts, p \in ProposalIds : acceptInitialOwnership(a, p)
      BY <1>9
  <2>1. initialOwnershipProposals[p].batteryId \in SubjectIds /\ initialOwnershipProposals[p].owner \in OrganizationIds
      BY DEF acceptInitialOwnership, ProposalsResolve
  <2> QED BY <1>1, <1>2, <1>3, <2>1 DEF acceptInitialOwnership, RegistryTypeOK
<1>10. CASE \E a \in Accounts, p \in ProposalIds : rejectInitialOwnership(a, p)
    BY <1>1, <1>3, <1>10 DEF rejectInitialOwnership, RegistryTypeOK
<1>11. CASE \E p \in ProposalIds : expireInitialOwnership(p)
    BY <1>1, <1>3, <1>11 DEF expireInitialOwnership, RegistryTypeOK
<1>12. CASE \E r \in Accounts, s, parent \in SubjectIds, g \in Pack .. Cell : registerComponent(r, s, parent, g)
  <2> PICK r \in Accounts, s \in SubjectIds, parent \in SubjectIds, g \in Pack .. Cell :
           registerComponent(r, s, parent, g)
      BY <1>12
  <2>1. subjects[parent] \in Subject
      BY DEF RegistryTypeOK
  <2>2. [parentId |-> parent, rootBatteryId |-> subjects[parent].rootBatteryId,
         granularity |-> g, registered |-> TRUE] \in Subject
      BY <2>1 DEF Subject
  <2> QED BY <1>1, <2>2 DEF registerComponent, RegistryTypeOK
<1>13. CASE \E m \in Marketplaces, b \in SubjectIds : lockForMarketplace(m, b) \/ unlockForMarketplace(m, b)
  <2> PICK m \in Marketplaces, b \in SubjectIds : lockForMarketplace(m, b) \/ unlockForMarketplace(m, b)
      BY <1>13
  <2>1. batteries' \in [SubjectIds -> Battery]
      BY MarketplaceCallEffects
  <2> QED BY <1>1, <2>1 DEF lockForMarketplace, unlockForMarketplace, RegistryTypeOK
<1>14. CASE \E m \in Marketplaces, b \in SubjectIds, org \in OrganizationIds : transferRecordedOwnership(m, b, org)
  <2> PICK m \in Marketplaces, b \in SubjectIds, org \in OrganizationIds : transferRecordedOwnership(m, b, org)
      BY <1>14
  <2>1. batteries' \in [SubjectIds -> Battery] /\ batteries[b] \in Battery
      BY MarketplaceCallEffects DEF RegistryTypeOK
  <2>2. [previousOwner |-> batteries[b].recordedOwner, newOwner |-> org,
         marketplace |-> m, recordedAt |-> now] \in Transition
      BY <2>1 DEF Transition, Battery
  <2>3. ownershipTransitions' \in [SubjectIds -> Seq(Transition)]
      BY <2>2, AppendFacts DEF transferRecordedOwnership, recordOwnershipTransition, RegistryTypeOK
  <2> QED BY <1>1, <2>1, <2>3 DEF transferRecordedOwnership, RegistryTypeOK
<1> QED BY <1>1, <1>4, <1>5, <1>6, <1>7, <1>8, <1>9, <1>10, <1>11, <1>12, <1>13, <1>14 DEF RegistryNext

-----------------------------------------------------------------------------
(* Every call keeps the invariant.                                         *)

(* Histories and accepted proposals stay right while no history grows, no  *)
(* battery changes hands and no proposal becomes accepted.                 *)
LEMMA HistoriesKept ==
    ASSUME RegistryInv, now' \in Timestamps, now <= now', UNCHANGED ownershipTransitions,
           \A c \in SubjectIds : /\ batteries'[c].registered = batteries[c].registered
                                /\ batteries'[c].recordedOwner = batteries[c].recordedOwner,
           \A p \in ProposalIds : initialOwnershipProposals'[p].status = "Accepted" =>
                                     initialOwnershipProposals'[p] = initialOwnershipProposals[p]
    PROVE  OwnershipHistoryChains' /\ HistoriesDated'
<1>1. OneInitialOwner /\ \A b \in SubjectIds : HistoryChains(b)
    BY HistoriesChain DEF RegistryInv
<1>2. \A b \in SubjectIds : HistoryChains(b)'
    BY <1>1, HistoryKept DEF RegistryInv
<1>3. OneInitialOwner'
    BY <1>1, ZenonT(60) DEF OneInitialOwner
<1>4. OneInitialOwner' /\ \A b \in SubjectIds : HistoryChains(b)'
    BY <1>2, <1>3
<1> QED BY <1>4, ZenonT(60) DEF OwnershipHistoryChains, HistoriesDated, HistoryChains

(* Packs and roots stay right while no subject and no registration         *)
(* changes.                                                                *)
LEMMA SubjectsKept ==
    ASSUME BatteriesArePacks, RootsAreRegisteredPacks, UNCHANGED subjects,
           \A c \in SubjectIds : batteries'[c].registered = batteries[c].registered
    PROVE  BatteriesArePacks' /\ RootsAreRegisteredPacks'
    BY ZenonT(60) DEF BatteriesArePacks, RootsAreRegisteredPacks

(* registerBattery and acceptInitialOwnership: a battery not registered    *)
(* before gets its first entry.  A component of that identifier becomes a  *)
(* pack; no root was that identifier, because roots are registered.        *)
LEMMA RecordPackKeeps ==
    ASSUME RegistryInv, UNCHANGED now, RegistryTypeOK',
           NEW b \in SubjectIds, NEW org \in OrganizationIds,
           ~ batteries[b].registered, RecordPack(b, org)
    PROVE  /\ BatteriesArePacks' /\ RootsAreRegisteredPacks'
           /\ \A c \in SubjectIds : HistoryChains(c)'
           /\ \A c \in SubjectIds : batteries'[c].registered <=> c = b \/ batteries[c].registered
           /\ ownershipTransitions'[b][1].newOwner = org
           /\ \A c \in SubjectIds \ {b} : ownershipTransitions'[c] = ownershipTransitions[c]
<1>1. RegistryTypeOK /\ now \in Timestamps /\ \A c \in SubjectIds : HistoryChains(c)
    BY HistoriesChain DEF RegistryInv
<1>2. /\ batteries'[b] = [recordedOwner |-> org, marketplaceLock |-> Zero, registered |-> TRUE]
      /\ \A c \in SubjectIds \ {b} : batteries'[c] = batteries[c]
    BY <1>1, SMTT(60) DEF RecordPack, RegistryTypeOK
<1>3. /\ subjects'[b] = [parentId |-> Zero, rootBatteryId |-> b, granularity |-> Pack, registered |-> TRUE]
      /\ \A c \in SubjectIds \ {b} : subjects'[c] = subjects[c]
    BY <1>1 DEF RecordPack, RegistryTypeOK
<1>4. \A c \in SubjectIds \ {b} : ownershipTransitions'[c] = ownershipTransitions[c]
    BY <1>1 DEF RecordPack, RegistryTypeOK, recordOwnershipTransition
<1>5. batteries'[b].registered /\ batteries'[b].recordedOwner = org
    BY <1>2
<1>6. subjects'[b].registered /\ subjects'[b].granularity = Pack /\ subjects'[b].rootBatteryId = b
    BY <1>3
<1>7. BatteriesArePacks'
  <2>1. \A c \in SubjectIds : batteries[c].registered =>
            subjects[c].registered /\ subjects[c].granularity = Pack /\ subjects[c].rootBatteryId = c
      BY DEF RegistryInv, BatteriesArePacks
  <2>2. ASSUME NEW c \in SubjectIds, batteries'[c].registered
        PROVE  subjects'[c].registered /\ subjects'[c].granularity = Pack /\ subjects'[c].rootBatteryId = c
    <3>1. CASE c = b
        BY <1>6, <3>1
    <3>2. CASE c # b
        BY <1>2, <1>3, <2>1, <2>2, <3>2, ZenonT(60)
    <3> QED BY <3>1, <3>2
  <2> QED BY <2>2 DEF BatteriesArePacks
<1>8. RootsAreRegisteredPacks'
  <2>1. ASSUME NEW c \in SubjectIds \ {b}, subjects[c].registered
        PROVE  /\ subjects[c].rootBatteryId \in SubjectIds \ {b}
               /\ batteries[subjects[c].rootBatteryId].registered
               /\ subjects[subjects[c].rootBatteryId].granularity = Pack
               /\ subjects[subjects[c].rootBatteryId].rootBatteryId = subjects[c].rootBatteryId
      BY <2>1, ZenonT(60) DEF RegistryInv, RootsAreRegisteredPacks
  <2>2. ASSUME NEW c \in SubjectIds, subjects'[c].registered
        PROVE  /\ subjects'[c].rootBatteryId \in SubjectIds
               /\ batteries'[subjects'[c].rootBatteryId].registered
               /\ subjects'[subjects'[c].rootBatteryId].granularity = Pack
               /\ subjects'[subjects'[c].rootBatteryId].rootBatteryId = subjects'[c].rootBatteryId
    <3>1. CASE c = b
        BY <1>5, <1>6, <3>1, ZenonT(60)
    <3>2. CASE c # b
        BY <1>2, <1>3, <2>1, <2>2, <3>2
    <3> QED BY <3>1, <3>2
  <2> QED BY <2>2 DEF RootsAreRegisteredPacks
<1>9. \A c \in SubjectIds \ {b} : HistoryChains(c)'
  <2>1. now' \in Timestamps /\ now <= now'
      BY <1>1, MaxTimestampAssumption DEF Timestamps
  <2> QED BY <1>1, <1>2, <1>4, <2>1, HistoryKept
<1>10. HistoryChains(b)' /\ ownershipTransitions'[b][1].newOwner = org
  <2>1. [previousOwner |-> Zero, newOwner |-> org, marketplace |-> Zero, recordedAt |-> now] \in Transition
      BY <1>1 DEF Transition
  <2>2. recordOwnershipTransition(b, Zero, org, Zero)
      BY DEF RecordPack
  <2>3. /\ HistoryChains(b)'
        /\ ownershipTransitions'[b][1] =
              [previousOwner |-> Zero, newOwner |-> org, marketplace |-> Zero, recordedAt |-> now]
      BY <1>1, <1>5, <2>1, <2>2, HistoryGrows
  <2> QED BY <2>3
<1> QED BY <1>2, <1>4, <1>5, <1>7, <1>8, <1>9, <1>10

(* Closing a proposal as s leaves every other proposal and the parties it  *)
(* names.                                                                  *)
LEMMA CloseProposalEffects ==
    ASSUME RegistryTypeOK, NEW p \in ProposalIds, NEW s, CloseProposal(p, s)
    PROVE  /\ \A q \in ProposalIds \ {p} : initialOwnershipProposals'[q] = initialOwnershipProposals[q]
           /\ initialOwnershipProposals'[p].status = s
           /\ initialOwnershipProposals'[p].batteryId = initialOwnershipProposals[p].batteryId
           /\ initialOwnershipProposals'[p].owner = initialOwnershipProposals[p].owner
<1>1. initialOwnershipProposals[p] \in Proposal
    BY DEF RegistryTypeOK
<1>2. initialOwnershipProposals' = [initialOwnershipProposals EXCEPT
            ![p] = [initialOwnershipProposals[p] EXCEPT !.status = s]]
    BY DEF CloseProposal
<1>3. initialOwnershipProposals'[p] = [initialOwnershipProposals[p] EXCEPT !.status = s]
    BY <1>2 DEF RegistryTypeOK
<1> QED BY <1>1, <1>2, <1>3 DEF RegistryTypeOK, Proposal

(* Direct registration: an accepted proposal names a registered battery,   *)
(* hence another one.                                                      *)
LEMMA RegisterBatteryKeeps ==
    ASSUME RegistryInv, UNCHANGED now, RegistryTypeOK',
           NEW r, NEW b \in SubjectIds, NEW org \in OrganizationIds, registerBattery(r, b, org)
    PROVE  RegistryInv'
<1>1. RecordPack(b, org) /\ ~ batteries[b].registered /\ UNCHANGED initialOwnershipProposals
    BY DEF registerBattery
<1>2. /\ BatteriesArePacks' /\ RootsAreRegisteredPacks'
      /\ \A c \in SubjectIds : HistoryChains(c)'
      /\ \A c \in SubjectIds : batteries'[c].registered <=> c = b \/ batteries[c].registered
      /\ \A c \in SubjectIds \ {b} : ownershipTransitions'[c] = ownershipTransitions[c]
    BY <1>1, RecordPackKeeps
<1>3. ProposalsResolve /\ OneInitialOwner
    BY DEF RegistryInv, OwnershipHistoryChains
<1>4. ProposalsResolve'
    BY <1>1, <1>2, <1>3, ZenonT(60) DEF ProposalsResolve
<1>5. \A p \in ProposalIds : initialOwnershipProposals[p].status = "Accepted" =>
          initialOwnershipProposals[p].batteryId \in SubjectIds \ {b}
    BY <1>1, <1>3 DEF ProposalsResolve
<1>6. OneInitialOwner'
    BY <1>1, <1>2, <1>3, <1>5, ZenonT(60) DEF OneInitialOwner
<1>7. OwnershipHistoryChains' /\ HistoriesDated'
    BY <1>2, <1>6, ZenonT(60) DEF OwnershipHistoryChains, HistoriesDated, HistoryChains
<1> QED BY <1>2, <1>4, <1>7 DEF RegistryInv

(* Accepted registration: no accepted proposal named the battery before,   *)
(* so this one is the only one.                                            *)
LEMMA AcceptInitialOwnershipKeeps ==
    ASSUME RegistryInv, UNCHANGED now, RegistryTypeOK',
           NEW a, NEW p \in ProposalIds, acceptInitialOwnership(a, p)
    PROVE  RegistryInv'
<1> DEFINE b == initialOwnershipProposals[p].batteryId
           org == initialOwnershipProposals[p].owner
<1>1. /\ RecordPack(b, org) /\ ~ batteries[b].registered /\ CloseProposal(p, "Accepted")
      /\ initialOwnershipProposals[p].status = "Pending"
    BY DEF acceptInitialOwnership
<1>2. ProposalsResolve /\ OneInitialOwner /\ RegistryTypeOK
    BY DEF RegistryInv, OwnershipHistoryChains
<1>3. b \in SubjectIds /\ org \in OrganizationIds
    BY <1>1, <1>2, ZenonT(60) DEF ProposalsResolve
<1>4. /\ BatteriesArePacks' /\ RootsAreRegisteredPacks'
      /\ \A c \in SubjectIds : HistoryChains(c)'
      /\ \A c \in SubjectIds : batteries'[c].registered <=> c = b \/ batteries[c].registered
      /\ ownershipTransitions'[b][1].newOwner = org
      /\ \A c \in SubjectIds \ {b} : ownershipTransitions'[c] = ownershipTransitions[c]
    BY <1>1, <1>3, RecordPackKeeps, ZenonT(60)
<1>5. /\ \A q \in ProposalIds \ {p} : initialOwnershipProposals'[q] = initialOwnershipProposals[q]
      /\ initialOwnershipProposals'[p].status = "Accepted"
      /\ initialOwnershipProposals'[p].batteryId = b
      /\ initialOwnershipProposals'[p].owner = org
    BY <1>1, <1>2, CloseProposalEffects
<1>6. \A q \in ProposalIds : initialOwnershipProposals[q].status = "Accepted" =>
          initialOwnershipProposals[q].batteryId \in SubjectIds \ {b}
    BY <1>1, <1>2 DEF ProposalsResolve
<1> HIDE DEF b, org
<1>7. ProposalsResolve'
    BY <1>2, <1>3, <1>4, <1>5, ZenonT(60) DEF ProposalsResolve
<1>8. OneInitialOwner'
  <2>1. ASSUME NEW q \in ProposalIds \ {p}, initialOwnershipProposals'[q].status = "Accepted"
        PROVE  /\ initialOwnershipProposals'[q].batteryId # b
               /\ ownershipTransitions'[initialOwnershipProposals'[q].batteryId][1].newOwner
                      = initialOwnershipProposals'[q].owner
               /\ \A o \in ProposalIds \ {q, p} :
                     ~ (/\ initialOwnershipProposals'[o].status = "Accepted"
                        /\ initialOwnershipProposals'[o].batteryId = initialOwnershipProposals'[q].batteryId)
      BY <1>2, <1>4, <1>5, <1>6, <2>1 DEF OneInitialOwner
  <2> QED BY <1>4, <1>5, <2>1 DEF OneInitialOwner
<1>9. OwnershipHistoryChains' /\ HistoriesDated'
    BY <1>4, <1>8, ZenonT(60) DEF OwnershipHistoryChains, HistoriesDated, HistoryChains
<1> QED BY <1>4, <1>7, <1>9 DEF RegistryInv

(* A transfer appends the entry that takes over from the recorded owner.   *)
LEMMA TransferKeeps ==
    ASSUME RegistryInv, UNCHANGED now, RegistryTypeOK',
           NEW m \in Marketplaces, NEW b \in SubjectIds, NEW org \in OrganizationIds,
           transferRecordedOwnership(m, b, org)
    PROVE  RegistryInv'
<1>1. RegistryTypeOK /\ now \in Timestamps /\ ProposalsResolve /\ OneInitialOwner
      /\ \A c \in SubjectIds : HistoryChains(c)
    BY HistoriesChain DEF RegistryInv
<1>2. /\ \A c \in SubjectIds : /\ batteries'[c].registered = batteries[c].registered
                               /\ c # b => batteries'[c].recordedOwner = batteries[c].recordedOwner
      /\ batteries'[b].recordedOwner = org
    BY <1>1, MarketplaceCallEffects
<1>3. /\ batteries[b].registered
      /\ recordOwnershipTransition(b, batteries[b].recordedOwner, org, m)
      /\ UNCHANGED <<subjects, initialOwnershipProposals>>
    BY DEF transferRecordedOwnership, HoldsLock
<1>4. \A c \in SubjectIds \ {b} : ownershipTransitions'[c] = ownershipTransitions[c]
    BY <1>1, <1>3 DEF RegistryTypeOK, recordOwnershipTransition
<1>5. [previousOwner |-> batteries[b].recordedOwner, newOwner |-> org, marketplace |-> m, recordedAt |-> now]
          \in Transition
  <2>1. batteries[b] \in Battery
      BY <1>1, ZenonT(60) DEF RegistryTypeOK
  <2> QED BY <1>1, <2>1 DEF Battery, Transition
<1>6. HistoryChains(b)' /\ ownershipTransitions'[b][1] = ownershipTransitions[b][1]
    BY <1>1, <1>2, <1>3, <1>5, HistoryGrows, ZenonT(60)
<1>7. \A c \in SubjectIds \ {b} : HistoryChains(c)'
  <2>1. now' \in Timestamps /\ now <= now'
      BY <1>1, MaxTimestampAssumption DEF Timestamps
  <2> QED BY <1>1, <1>2, <1>4, <2>1, HistoryKept
<1>8. ProposalsResolve'
    BY <1>1, <1>2, <1>3, ZenonT(60) DEF ProposalsResolve
<1>9. OneInitialOwner'
  <2>1. \A c \in SubjectIds : ownershipTransitions'[c][1] = ownershipTransitions[c][1]
      BY <1>4, <1>6
  <2>2. \A p \in ProposalIds : initialOwnershipProposals[p].status = "Accepted" =>
            initialOwnershipProposals[p].batteryId \in SubjectIds
      BY <1>1 DEF ProposalsResolve
  <2> QED BY <1>1, <1>3, <2>1, <2>2, ZenonT(60) DEF OneInitialOwner
<1>10. OwnershipHistoryChains' /\ HistoriesDated'
    BY <1>6, <1>7, <1>9, ZenonT(60) DEF OwnershipHistoryChains, HistoriesDated, HistoryChains
<1>11. BatteriesArePacks' /\ RootsAreRegisteredPacks'
    BY <1>2, <1>3, SubjectsKept DEF RegistryInv
<1> QED BY <1>1, <1>8, <1>10, <1>11 DEF RegistryInv

(* A component inherits a root that is a registered battery; its own       *)
(* identifier was not a subject, so no battery and no root was it.         *)
LEMMA RegisterComponentKeeps ==
    ASSUME RegistryInv, UNCHANGED now, RegistryTypeOK',
           NEW r, NEW s \in SubjectIds, NEW parent \in SubjectIds, NEW g \in Pack .. Cell,
           registerComponent(r, s, parent, g)
    PROVE  RegistryInv'
<1> DEFINE root == subjects[parent].rootBatteryId
<1>1. RegistryTypeOK /\ now \in Timestamps /\ now' \in Timestamps /\ now <= now'
    BY MaxTimestampAssumption DEF RegistryInv, Timestamps
<1>2. /\ ~ subjects[s].registered /\ subjects[parent].registered
      /\ UNCHANGED <<batteries, initialOwnershipProposals, ownershipTransitions>>
    BY DEF registerComponent
<1>3. subjects'[s] = [parentId |-> parent, rootBatteryId |-> root, granularity |-> g, registered |-> TRUE]
      /\ \A c \in SubjectIds \ {s} : subjects'[c] = subjects[c]
    BY <1>1 DEF registerComponent, RegistryTypeOK
<1>4. subjects'[s].rootBatteryId = root
    BY <1>3
<1> HIDE DEF root
<1>5. OwnershipHistoryChains' /\ HistoriesDated'
    BY <1>1, <1>2, HistoriesKept
<1>6. ProposalsResolve'
    BY <1>2, ZenonT(60) DEF RegistryInv, ProposalsResolve
<1>7. BatteriesArePacks /\ RootsAreRegisteredPacks
    BY DEF RegistryInv
<1>8. BatteriesArePacks'
    BY <1>2, <1>3, <1>7, ZenonT(60) DEF BatteriesArePacks
<1>9. RootsAreRegisteredPacks'
  <2>1. ASSUME NEW c \in SubjectIds, subjects[c].registered
        PROVE  /\ subjects[c].rootBatteryId \in SubjectIds \ {s}
               /\ batteries[subjects[c].rootBatteryId].registered
               /\ subjects[subjects[c].rootBatteryId].granularity = Pack
               /\ subjects[subjects[c].rootBatteryId].rootBatteryId = subjects[c].rootBatteryId
      BY <1>2, <1>7, <2>1 DEF BatteriesArePacks, RootsAreRegisteredPacks
  <2>2. ASSUME NEW c \in SubjectIds, subjects'[c].registered
        PROVE  \E o \in SubjectIds : subjects[o].registered /\ subjects'[c].rootBatteryId = subjects[o].rootBatteryId
      BY <1>2, <1>3, <1>4, <2>2, ZenonT(60) DEF root
  <2>3. ASSUME NEW c \in SubjectIds, subjects'[c].registered
        PROVE  /\ subjects'[c].rootBatteryId \in SubjectIds
               /\ batteries'[subjects'[c].rootBatteryId].registered
               /\ subjects'[subjects'[c].rootBatteryId].granularity = Pack
               /\ subjects'[subjects'[c].rootBatteryId].rootBatteryId = subjects'[c].rootBatteryId
    <3> PICK o \in SubjectIds : subjects[o].registered /\ subjects'[c].rootBatteryId = subjects[o].rootBatteryId
        BY <2>2, <2>3
    <3> QED BY <1>2, <1>3, <2>1
  <2> QED BY <2>3, ZenonT(60) DEF RootsAreRegisteredPacks
<1> QED BY <1>1, <1>5, <1>6, <1>8, <1>9 DEF RegistryInv

(* The other calls record no owner: governance, proposals made or closed   *)
(* without acceptance, locks, and time.                                    *)
LEMMA QuietStepKeeps ==
    ASSUME RegistryInv, now' \in Timestamps, now <= now', RegistryTypeOK',
           \/ UNCHANGED registryVars
           \/ \E a \in Accounts, allowed \in BOOLEAN : setRegistrar(a, allowed)
           \/ \E m \in Marketplaces, allowed \in BOOLEAN : setMarketplace(m, allowed)
           \/ \E r, a \in Accounts, p \in ProposalIds, b \in SubjectIds, org \in OrganizationIds, t \in Timestamps :
                 proposeInitialOwnership(r, p, b, org, a, t)
           \/ \E a \in Accounts, p \in ProposalIds : rejectInitialOwnership(a, p)
           \/ \E p \in ProposalIds : expireInitialOwnership(p)
           \/ \E m \in Marketplaces, b \in SubjectIds : lockForMarketplace(m, b) \/ unlockForMarketplace(m, b)
    PROVE  RegistryInv'
<1>1. RegistryTypeOK /\ ProposalsResolve
    BY DEF RegistryInv
<1>2. UNCHANGED <<subjects, ownershipTransitions>>
    BY DEF registryVars, setRegistrar, setMarketplace, proposeInitialOwnership, rejectInitialOwnership,
           expireInitialOwnership, lockForMarketplace, unlockForMarketplace
<1>3. \A c \in SubjectIds : /\ batteries'[c].registered = batteries[c].registered
                           /\ batteries'[c].recordedOwner = batteries[c].recordedOwner
  <2>1. CASE \E m \in Marketplaces, b \in SubjectIds : lockForMarketplace(m, b) \/ unlockForMarketplace(m, b)
      BY <1>1, <2>1, MarketplaceCallEffects, ZenonT(60)
  <2>2. CASE UNCHANGED batteries
      BY <2>2
  <2> QED BY <2>1, <2>2, ZenonT(60) DEF registryVars, setRegistrar, setMarketplace, proposeInitialOwnership,
           rejectInitialOwnership, expireInitialOwnership
<1>4. \A p \in ProposalIds :
          /\ initialOwnershipProposals'[p].status = "Accepted" =>
                 initialOwnershipProposals'[p] = initialOwnershipProposals[p]
          /\ initialOwnershipProposals'[p].status # "Unset" =>
                 /\ initialOwnershipProposals'[p].batteryId \in SubjectIds
                 /\ initialOwnershipProposals'[p].owner \in OrganizationIds
  <2>1. CASE UNCHANGED initialOwnershipProposals
      BY <1>1, <2>1, ZenonT(60) DEF ProposalsResolve
  <2>2. ASSUME NEW p \in ProposalIds, NEW s \in {"Rejected", "Expired"}, CloseProposal(p, s),
               initialOwnershipProposals[p].status = "Pending"
        PROVE  <1>4!:
    <3>1. /\ \A q \in ProposalIds \ {p} : initialOwnershipProposals'[q] = initialOwnershipProposals[q]
          /\ initialOwnershipProposals'[p].status = s
          /\ initialOwnershipProposals'[p].batteryId = initialOwnershipProposals[p].batteryId
          /\ initialOwnershipProposals'[p].owner = initialOwnershipProposals[p].owner
        BY <1>1, <2>2, CloseProposalEffects, ZenonT(60)
    <3> QED BY <1>1, <2>2, <3>1, ZenonT(60) DEF ProposalsResolve
  <2>3. CASE \E a \in Accounts, p \in ProposalIds : rejectInitialOwnership(a, p)
      BY <2>2, <2>3, ZenonT(60) DEF rejectInitialOwnership
  <2>4. CASE \E p \in ProposalIds : expireInitialOwnership(p)
      BY <2>2, <2>4, SMTT(60) DEF expireInitialOwnership
  <2>5. CASE \E r, a \in Accounts, p \in ProposalIds, b \in SubjectIds, org \in OrganizationIds, t \in Timestamps :
                 proposeInitialOwnership(r, p, b, org, a, t)
    <3>1. PICK r \in Accounts, a \in Accounts, p \in ProposalIds, b \in SubjectIds, org \in OrganizationIds,
                t \in Timestamps : proposeInitialOwnership(r, p, b, org, a, t)
        BY <2>5, ZenonT(60)
    <3> DEFINE made == [batteryId |-> b, owner |-> org, ownerAccount |-> a, expiresAt |-> t, status |-> "Pending"]
    <3>2. initialOwnershipProposals' = [initialOwnershipProposals EXCEPT ![p] = made]
        BY <3>1, ZenonT(60) DEF proposeInitialOwnership
    <3>3. DOMAIN initialOwnershipProposals = ProposalIds
        BY <1>1, ZenonT(60) DEF RegistryTypeOK
    <3>4. made.status = "Pending" /\ made.batteryId \in SubjectIds /\ made.owner \in OrganizationIds
        BY ZenonT(60)
    <3> HIDE DEF made
    <3> SUFFICES ASSUME NEW q \in ProposalIds
                 PROVE  /\ initialOwnershipProposals'[q].status = "Accepted" =>
                               initialOwnershipProposals'[q] = initialOwnershipProposals[q]
                        /\ initialOwnershipProposals'[q].status # "Unset" =>
                               /\ initialOwnershipProposals'[q].batteryId \in SubjectIds
                               /\ initialOwnershipProposals'[q].owner \in OrganizationIds
        OBVIOUS
    <3>5. CASE q = p
      <4>1. initialOwnershipProposals'[q] = made
          BY <3>2, <3>3, <3>5, ZenonT(60)
      <4> QED BY <3>4, <4>1, ZenonT(60)
    <3>6. CASE q # p
      <4>1. initialOwnershipProposals'[q] = initialOwnershipProposals[q]
          BY <3>2, <3>3, <3>6, ZenonT(60)
      <4> QED BY <1>1, <4>1, ZenonT(60) DEF ProposalsResolve
    <3> QED BY <3>5, <3>6, ZenonT(60)
  <2> QED BY <2>1, <2>3, <2>4, <2>5 DEF registryVars, setRegistrar, setMarketplace, lockForMarketplace,
           unlockForMarketplace
<1>5. ProposalsResolve'
    BY <1>1, <1>3, <1>4, ZenonT(60) DEF ProposalsResolve
<1>6. OwnershipHistoryChains' /\ HistoriesDated'
    BY <1>2, <1>3, <1>4, HistoriesKept, ZenonT(60)
<1>7. BatteriesArePacks' /\ RootsAreRegisteredPacks'
    BY <1>2, <1>3, SubjectsKept, ZenonT(60) DEF RegistryInv
<1> QED BY <1>5, <1>6, <1>7 DEF RegistryInv

LEMMA RegistryInvIsInductive ==
    RegistryInv /\ [RegistryNext]_<<now, registryVars>> => RegistryInv'
<1> SUFFICES ASSUME RegistryInv, [RegistryNext]_<<now, registryVars>>
             PROVE  RegistryInv'
    OBVIOUS
<1>1. now' \in Timestamps /\ now <= now' /\ RegistryTypeOK'
    BY RegistryStepTypes DEF RegistryInv
<1>2. CASE UNCHANGED registryVars
    BY <1>1, <1>2, QuietStepKeeps, ZenonT(60)
<1>3. CASE ~ UNCHANGED registryVars
  <2>1. UNCHANGED now /\ RegistryNext
      BY <1>3 DEF RegistryNext
  <2> QED BY <1>1, <1>3, <2>1, QuietStepKeeps, RegisterBatteryKeeps, AcceptInitialOwnershipKeeps,
             RegisterComponentKeeps, TransferKeeps, ZenonT(60) DEF RegistryNext
<1> QED BY <1>2, <1>3

LEMMA RegistryInvHoldsInitially ==
    RegistryInit => RegistryInv
<1> SUFFICES ASSUME RegistryInit PROVE RegistryInv
    OBVIOUS
<1>1. now \in Timestamps
    BY MaxTimestampAssumption DEF RegistryInit, Timestamps
<1>2. NoBattery \in Battery /\ NoSubject \in Subject /\ NoProposal \in Proposal
    BY MaxTimestampAssumption DEF NoBattery, Battery, NoSubject, Subject, NoProposal, Proposal, Pack, Cell, Timestamps
<1>3. RegistryTypeOK
    BY <1>2 DEF RegistryInit, RegistryTypeOK
<1>4. ProposalsResolve /\ OneInitialOwner
    BY DEF RegistryInit, ProposalsResolve, OneInitialOwner, NoProposal
<1>5. OwnershipHistoryChains /\ HistoriesDated
    BY <1>4 DEF RegistryInit, OwnershipHistoryChains, HistoriesDated, NoBattery
<1>6. BatteriesArePacks /\ RootsAreRegisteredPacks
    BY DEF RegistryInit, BatteriesArePacks, RootsAreRegisteredPacks, NoBattery, NoSubject
<1> QED BY <1>1, <1>3, <1>4, <1>5, <1>6 DEF RegistryInv

-----------------------------------------------------------------------------
(* THEOREMS                                                                *)

(* The seven facts hold together after every sequence of calls.            *)
THEOREM RegistryInvariant == RegistrySpec => []RegistryInv
<1>1. RegistryInit => RegistryInv
    BY RegistryInvHoldsInitially
<1>2. RegistryInv /\ [RegistryNext]_<<now, registryVars>> => RegistryInv'
    BY RegistryInvIsInductive
<1> QED BY <1>1, <1>2, PTL DEF RegistrySpec

(* Whatever registrars, proposed owners and marketplaces do, every history *)
(* kept by _recordOwnershipTransition is one chain from the zero owner to  *)
(* the recorded owner, and a battery has one initial owner.                *)
THEOREM HistoriesAreChains == RegistrySpec => []OwnershipHistoryChains
<1>1. RegistryInv => OwnershipHistoryChains
    BY DEF RegistryInv
<1> QED BY <1>1, RegistryInvariant, PTL

(* The root that registerComponent copies from the parent is always a      *)
(* registered battery and a pack.                                          *)
THEOREM ComponentRootsAreRegistered == RegistrySpec => []RootsAreRegisteredPacks
<1>1. RegistryInv => RootsAreRegisteredPacks
    BY DEF RegistryInv
<1> QED BY <1>1, RegistryInvariant, PTL

(* Only transferRecordedOwnership grows the history of a registered        *)
(* battery, for the allowed marketplace that holds its lock, and it        *)
(* releases the lock; no call rewrites an entry.                           *)
THEOREM OwnersChangeUnderLock == RegistrySpec => OwnershipChangesUnderLock
<1> DEFINE UnderLock ==
        \A b \in SubjectIds :
          LET old == ownershipTransitions[b]
              new == ownershipTransitions'[b] IN
          /\ Len(new) >= Len(old) /\ SubSeq(new, 1, Len(old)) = old
          /\ batteries[b].registered /\ new # old =>
                /\ new[Len(new)].marketplace = batteries[b].marketplaceLock
                /\ batteries[b].marketplaceLock \in marketplaces
                /\ batteries'[b].marketplaceLock = Zero
<1>1. ASSUME RegistryInv, [RegistryNext]_<<now, registryVars>>
      PROVE  [UnderLock]_<<now, registryVars>>
  <2>1. RegistryTypeOK /\ now \in Timestamps /\ ProposalsResolve
      BY <1>1 DEF RegistryInv
  <2>2. ASSUME NEW c \in SubjectIds
        PROVE  /\ ownershipTransitions[c] \in Seq(Transition) /\ Len(ownershipTransitions[c]) \in Nat
               /\ SubSeq(ownershipTransitions[c], 1, Len(ownershipTransitions[c])) = ownershipTransitions[c]
    <3>1. ownershipTransitions[c] \in Seq(Transition)
        BY <2>1 DEF RegistryTypeOK
    <3> QED BY <3>1, HistoryFacts
  <2>3. CASE UNCHANGED ownershipTransitions
      BY <2>2, <2>3
  <2>4. ASSUME NEW b \in SubjectIds, NEW previous \in OrganizationIds \cup {Zero},
               NEW org \in OrganizationIds, NEW m \in Marketplaces \cup {Zero},
               recordOwnershipTransition(b, previous, org, m)
        PROVE  /\ \A c \in SubjectIds \ {b} : ownershipTransitions'[c] = ownershipTransitions[c]
               /\ Len(ownershipTransitions'[b]) = Len(ownershipTransitions[b]) + 1
               /\ SubSeq(ownershipTransitions'[b], 1, Len(ownershipTransitions[b])) = ownershipTransitions[b]
               /\ ownershipTransitions'[b][Len(ownershipTransitions'[b])].marketplace = m
    <3> DEFINE e == [previousOwner |-> previous, newOwner |-> org, marketplace |-> m, recordedAt |-> now]
    <3>1. e \in Transition /\ e.marketplace = m
        BY <2>1 DEF Transition
    <3>2. /\ ownershipTransitions'[b] = Append(ownershipTransitions[b], e)
          /\ \A c \in SubjectIds \ {b} : ownershipTransitions'[c] = ownershipTransitions[c]
        BY <2>1, <2>4 DEF recordOwnershipTransition, RegistryTypeOK
    <3> HIDE DEF e
    <3>3. /\ Len(Append(ownershipTransitions[b], e)) = Len(ownershipTransitions[b]) + 1
          /\ Append(ownershipTransitions[b], e)[Len(ownershipTransitions[b]) + 1] = e
          /\ SubSeq(Append(ownershipTransitions[b], e), 1, Len(ownershipTransitions[b])) = ownershipTransitions[b]
        BY <2>2, <3>1, AppendFacts
    <3> QED BY <3>1, <3>2, <3>3
  <2>5. ASSUME NEW b \in SubjectIds, NEW org \in OrganizationIds, RecordPack(b, org), ~ batteries[b].registered
        PROVE  UnderLock
    <3>1. recordOwnershipTransition(b, Zero, org, Zero)
        BY <2>5 DEF RecordPack
    <3>2. /\ \A c \in SubjectIds \ {b} : ownershipTransitions'[c] = ownershipTransitions[c]
          /\ Len(ownershipTransitions'[b]) = Len(ownershipTransitions[b]) + 1
          /\ SubSeq(ownershipTransitions'[b], 1, Len(ownershipTransitions[b])) = ownershipTransitions[b]
        BY <2>4, <3>1, ZenonT(60)
    <3> QED BY <2>2, <2>5, <3>2
  <2>6. CASE \E r \in Accounts, b \in SubjectIds, org \in OrganizationIds : registerBattery(r, b, org)
      BY <2>5, <2>6 DEF registerBattery
  <2>7. CASE \E a \in Accounts, p \in ProposalIds : acceptInitialOwnership(a, p)
    <3> PICK a \in Accounts, p \in ProposalIds : acceptInitialOwnership(a, p)
        BY <2>7
    <3>1. initialOwnershipProposals[p].batteryId \in SubjectIds /\ initialOwnershipProposals[p].owner \in OrganizationIds
        BY <2>1, ZenonT(60) DEF acceptInitialOwnership, ProposalsResolve
    <3>2. UnderLock
        BY <2>5, <3>1, ZenonT(60) DEF acceptInitialOwnership
    <3> QED BY <3>2
  <2>8. CASE \E m \in Marketplaces, b \in SubjectIds, org \in OrganizationIds : transferRecordedOwnership(m, b, org)
    <3> PICK m \in Marketplaces, b \in SubjectIds, org \in OrganizationIds : transferRecordedOwnership(m, b, org)
        BY <2>8
    <3>1. batteries[b].recordedOwner \in OrganizationIds \cup {Zero}
      <4>1. batteries[b] \in Battery
          BY <2>1 DEF RegistryTypeOK
      <4> QED BY <4>1 DEF Battery
    <3>2. recordOwnershipTransition(b, batteries[b].recordedOwner, org, m)
        BY DEF transferRecordedOwnership
    <3>3. batteries[b].marketplaceLock = m /\ m \in marketplaces
        BY ZenonT(60) DEF transferRecordedOwnership, HoldsLock
    <3>4. batteries'[b].marketplaceLock = Zero
        BY <2>1, MarketplaceCallEffects
    <3> QED BY <2>2, <2>4, <3>1, <3>2, <3>3, <3>4
  <2> HIDE DEF UnderLock
  <2> QED BY <1>1, <2>3, <2>6, <2>7, <2>8 DEF RegistryNext, registryVars, setRegistrar, setMarketplace,
             proposeInitialOwnership, rejectInitialOwnership, expireInitialOwnership, registerComponent,
             lockForMarketplace, unlockForMarketplace
<1> QED BY <1>1, RegistryInvariant, PTL DEF RegistrySpec, OwnershipChangesUnderLock

-----------------------------------------------------------------------------
(* Bundles: types.                                                         *)

LEMMA AuthorityStepTypes ==
    ASSUME AuthorityTypeOK, AuthorityNext
    PROVE  AuthorityTypeOK'
<1>1. CASE Tick /\ UNCHANGED authorityVars
    BY <1>1 DEF authorityVars, AuthorityTypeOK
<1>2. CASE \E org \in OrganizationIds, status \in OrganizationStatus : setOrganizationStatus(org, status)
    BY <1>2, ZenonT(60) DEF setOrganizationStatus, AuthorityTypeOK
<1>3. CASE \E p \in ProfileIds, v \in ProfileVersions, d \in ProfileDigests, active \in BOOLEAN :
               setProfile(p, v, d, active)
  <2> PICK p \in ProfileIds, v \in ProfileVersions, d \in ProfileDigests, active \in BOOLEAN :
           setProfile(p, v, d, active)
      BY <1>3
  <2>1. [digest |-> d, active |-> active] \in [digest : ProfileDigests \cup {Zero}, active : BOOLEAN]
      OBVIOUS
  <2>2. profiles' \in [ProfileIds -> [ProfileVersions -> [digest : ProfileDigests \cup {Zero}, active : BOOLEAN]]]
      BY <2>1, ZenonT(60) DEF setProfile, AuthorityTypeOK
  <2> QED BY <2>2 DEF setProfile, AuthorityTypeOK
<1>4. CASE \E r \in RepositoryIds, approved \in BOOLEAN : setRepositoryApproval(r, approved)
    BY <1>4 DEF setRepositoryApproval, AuthorityTypeOK
<1>5. CASE \E c \in CredentialIds, org \in OrganizationIds, account \in Accounts, active, attests \in BOOLEAN :
               setCredential(c, org, account, active, attests)
  <2> PICK c \in CredentialIds, org \in OrganizationIds, account \in Accounts, active \in BOOLEAN, attests \in BOOLEAN :
               setCredential(c, org, account, active, attests)
      BY <1>5, ZenonT(60)
  <2> DEFINE credential == [organizationId |-> org, account |-> account, active |-> active, replicaAttestation |-> attests]
             Credential == [organizationId : OrganizationIds \cup {Zero}, account : Accounts \cup {Zero},
                            active : BOOLEAN, replicaAttestation : BOOLEAN]
  <2>1. credential \in Credential
      OBVIOUS
  <2>2. credentials' = [credentials EXCEPT ![c] = credential]
      BY ZenonT(60) DEF setCredential
  <2>3. credentials \in [CredentialIds -> Credential]
      BY ZenonT(60) DEF AuthorityTypeOK
  <2> HIDE DEF credential, Credential
  <2>4. credentials' \in [CredentialIds -> Credential]
      BY <2>1, <2>2, <2>3, ZenonT(60)
  <2> QED BY <2>4, ZenonT(60) DEF setCredential, AuthorityTypeOK, Credential
<1>6. CASE \E c \in CredentialIds, k \in Capabilities, scope \in ResourceScopes \cup {Zero},
              from, until \in GrantTimes, active \in BOOLEAN : setCapabilityGrant(c, k, scope, from, until, active)
  <2> PICK c \in CredentialIds, k \in Capabilities, scope \in ResourceScopes \cup {Zero},
           from \in GrantTimes, until \in GrantTimes, active \in BOOLEAN :
           setCapabilityGrant(c, k, scope, from, until, active)
      BY <1>6
  <2> DEFINE Grant == [resourceScope : ResourceScopes \cup {Zero}, effectiveAt : Timestamps,
                       expiresAt : Timestamps, active : BOOLEAN]
  <2>1. [resourceScope |-> scope, effectiveAt |-> from, expiresAt |-> until, active |-> active] \in Grant
      BY AuthorityAssumption
  <2>2. capabilityGrants' \in [CredentialIds -> [Capabilities -> Grant]]
      BY <2>1, ZenonT(60) DEF setCapabilityGrant, AuthorityTypeOK
  <2> QED BY <2>2, ZenonT(60) DEF setCapabilityGrant, AuthorityTypeOK
<1> QED BY <1>1, <1>2, <1>3, <1>4, <1>5, <1>6 DEF AuthorityNext, AuthorityStep

(* What _commitProtectedBundle writes: one commitment, which was not       *)
(* confirmed, and the way to it from its domain record.                    *)
CommitWritten(sender, bundle, domain, bundleType, payload) ==
    /\ commitments' \in [BundleKeys -> Commitment \cup {NoCommitment}]
    /\ bundleForDomain' \in [DomainKeys -> BundleKeys \cup {Zero}]
    /\ ~ commitments[bundle].confirmed /\ bundleForDomain[domain] = Zero
    /\ \A k \in BundleKeys \ {bundle} : commitments'[k] = commitments[k]
    /\ \A d \in DomainKeys \ {domain} : bundleForDomain'[d] = bundleForDomain[d]
    /\ bundleForDomain'[domain] = bundle
    /\ commitments'[bundle].confirmed
    /\ commitments'[bundle].domainKey = domain
    /\ commitments'[bundle].controller = sender
    /\ commitments'[bundle].bundleType = bundleType
    /\ commitments'[bundle].domainPayloadCommitment = payload
    /\ commitments'[bundle].criticalityClass = "Supplementary"

LEMMA CommitEffects ==
    ASSUME BundleTypeOK, NEW sender \in Accounts, NEW bundle \in BundleKeys, NEW domain \in DomainKeys,
           NEW org \in OrganizationIds, NEW bundleType \in BundleTypes, NEW payload \in PayloadCommitments,
           NEW envelope \in Envelopes,
           _commitProtectedBundle(sender, bundle, domain, org, bundleType, payload, envelope)
    PROVE  CommitWritten(sender, bundle, domain, bundleType, payload)
<1> DEFINE c == [domainKey |-> domain, controllerOrganizationId |-> org, controller |-> sender,
                 bundleType |-> bundleType, domainPayloadCommitment |-> payload,
                 envelope |-> envelope, criticalityClass |-> "Supplementary", confirmed |-> TRUE]
<1>1. c \in Commitment
    BY DEF Commitment, CriticalityClass
<1>2. commitments' = [commitments EXCEPT ![bundle] = c]
    BY DEF _commitProtectedBundle
<1>3. /\ commitments' \in [BundleKeys -> Commitment \cup {NoCommitment}]
      /\ commitments'[bundle] = c /\ \A k \in BundleKeys \ {bundle} : commitments'[k] = commitments[k]
    BY <1>1, <1>2, ZenonT(60) DEF BundleTypeOK
<1>4. /\ c.confirmed /\ c.domainKey = domain /\ c.controller = sender /\ c.bundleType = bundleType
      /\ c.domainPayloadCommitment = payload /\ c.criticalityClass = "Supplementary"
    BY ZenonT(60)
<1>5. /\ bundleForDomain' \in [DomainKeys -> BundleKeys \cup {Zero}] /\ bundleForDomain'[domain] = bundle
      /\ \A d \in DomainKeys \ {domain} : bundleForDomain'[d] = bundleForDomain[d]
    BY ZenonT(60) DEF _commitProtectedBundle, BundleTypeOK
<1> HIDE DEF c
<1> QED BY <1>3, <1>4, <1>5, ZenonT(60) DEF _commitProtectedBundle, CommitWritten

(* promoteToDecisionCritical changes the class of a receipted bundle.      *)
LEMMA PromoteEffects ==
    ASSUME BundleTypeOK, NEW sender, NEW bundle \in BundleKeys, promoteToDecisionCritical(sender, bundle)
    PROVE  /\ commitments' \in [BundleKeys -> Commitment \cup {NoCommitment}]
           /\ \A k \in BundleKeys :
                 /\ commitments'[k].confirmed = commitments[k].confirmed
                 /\ commitments[k].confirmed =>
                       /\ commitments'[k].domainKey = commitments[k].domainKey
                       /\ commitments'[k].controller = commitments[k].controller
                       /\ commitments'[k].bundleType = commitments[k].bundleType
                       /\ commitments'[k].domainPayloadCommitment = commitments[k].domainPayloadCommitment
                 /\ k # bundle => commitments'[k].criticalityClass = commitments[k].criticalityClass
           /\ commitments'[bundle].criticalityClass = "DecisionCritical"
<1> DEFINE c == [commitments[bundle] EXCEPT !.criticalityClass = "DecisionCritical"]
<1>1. commitments[bundle] \in Commitment
    BY DEF BundleTypeOK, promoteToDecisionCritical, NoCommitment
<1>2. commitments' = [commitments EXCEPT ![bundle] = c]
    BY DEF promoteToDecisionCritical
<1>3. /\ c \in Commitment /\ c.confirmed = commitments[bundle].confirmed
      /\ c.domainKey = commitments[bundle].domainKey /\ c.controller = commitments[bundle].controller
      /\ c.bundleType = commitments[bundle].bundleType
      /\ c.domainPayloadCommitment = commitments[bundle].domainPayloadCommitment
      /\ c.criticalityClass = "DecisionCritical"
    BY <1>1, ZenonT(60) DEF Commitment, CriticalityClass
<1> HIDE DEF c
<1>4. /\ commitments' \in [BundleKeys -> Commitment \cup {NoCommitment}] /\ commitments'[bundle] = c
      /\ \A k \in BundleKeys \ {bundle} : commitments'[k] = commitments[k]
    BY <1>2, <1>3, ZenonT(60) DEF BundleTypeOK
<1> QED BY <1>3, <1>4

LEMMA BundleStepTypes ==
    ASSUME BundleTypeOK, [BundleNext]_<<now, authorityVars, bundleVars>>
    PROVE  BundleTypeOK'
<1>1. CASE UNCHANGED bundleVars
  <2>1. AuthorityTypeOK'
    <3>1. CASE UNCHANGED authorityVars
        BY <3>1, ZenonT(60) DEF BundleTypeOK, AuthorityTypeOK, authorityVars
    <3>2. CASE AuthorityNext
        BY <3>2, AuthorityStepTypes DEF BundleTypeOK
    <3> QED BY <3>1, <3>2, ZenonT(60) DEF BundleNext
  <2> QED BY <1>1, <2>1 DEF BundleTypeOK, bundleVars
<1>2. CASE BundleStep /\ UNCHANGED <<now, authorityVars>>
  <2>1. AuthorityTypeOK'
      BY <1>2, ZenonT(60) DEF BundleTypeOK, AuthorityTypeOK, authorityVars
  <2> PICK sender \in Accounts :
        \/ closeBootstrap(sender)
        \/ \E bundle \in BundleKeys, domain \in DomainKeys, org \in OrganizationIds,
              bundleType \in BundleTypes, payload \in PayloadCommitments, envelope \in Envelopes :
                 commitProtectedBundle(sender, bundle, domain, org, bundleType, payload, envelope)
        \/ \E a \in Attestations, org \in OrganizationIds, credential \in CredentialIds, envelope \in Envelopes :
                 commitAttestedProtectedBundle(sender, a, org, credential, envelope)
        \/ \E bundle \in BundleKeys : promoteToDecisionCritical(sender, bundle)
        \/ \E bundle \in BundleKeys, org \in OrganizationIds, credential \in CredentialIds,
              observed \in Envelopes, nonce \in ReceiptNonces :
                 submitReplicaReceipt(sender, bundle, org, credential, observed, nonce)
      BY <1>2, ZenonT(60) DEF BundleStep
  <2>2. CASE closeBootstrap(sender)
      BY <2>1, <2>2, ZenonT(60) DEF closeBootstrap, BundleTypeOK
  <2>3. CASE \E bundle \in BundleKeys, domain \in DomainKeys, org \in OrganizationIds,
              bundleType \in BundleTypes, payload \in PayloadCommitments, envelope \in Envelopes :
                 commitProtectedBundle(sender, bundle, domain, org, bundleType, payload, envelope)
    <3>1. /\ commitments' \in [BundleKeys -> Commitment \cup {NoCommitment}]
          /\ bundleForDomain' \in [DomainKeys -> BundleKeys \cup {Zero}]
        BY <2>3, CommitEffects, ZenonT(60) DEF commitProtectedBundle, CommitWritten
    <3> QED BY <2>1, <2>3, <3>1, ZenonT(60) DEF commitProtectedBundle, BundleTypeOK
  <2>4. CASE \E a \in Attestations, org \in OrganizationIds, credential \in CredentialIds, envelope \in Envelopes :
                 commitAttestedProtectedBundle(sender, a, org, credential, envelope)
    <3> PICK a \in Attestations, org \in OrganizationIds, credential \in CredentialIds, envelope \in Envelopes :
                 commitAttestedProtectedBundle(sender, a, org, credential, envelope)
        BY <2>4, ZenonT(60)
    <3>1. /\ a.bundleId \in BundleKeys /\ a.domainResourceId \in DomainKeys
          /\ a.bundleType \in BundleTypes /\ a.domainPayloadCommitment \in PayloadCommitments
        BY BundleAssumption, ZenonT(60)
    <3>2. /\ commitments' \in [BundleKeys -> Commitment \cup {NoCommitment}]
          /\ bundleForDomain' \in [DomainKeys -> BundleKeys \cup {Zero}]
        BY <3>1, CommitEffects, ZenonT(60) DEF commitAttestedProtectedBundle, CommitWritten
    <3> QED BY <2>1, <3>2, ZenonT(60) DEF commitAttestedProtectedBundle, BundleTypeOK
  <2>5. CASE \E bundle \in BundleKeys : promoteToDecisionCritical(sender, bundle)
    <3>1. commitments' \in [BundleKeys -> Commitment \cup {NoCommitment}]
        BY <2>5, PromoteEffects, ZenonT(60)
    <3> QED BY <2>1, <2>5, <3>1, ZenonT(60) DEF promoteToDecisionCritical, BundleTypeOK
  <2>6. CASE \E bundle \in BundleKeys, org \in OrganizationIds, credential \in CredentialIds,
              observed \in Envelopes, nonce \in ReceiptNonces :
                 submitReplicaReceipt(sender, bundle, org, credential, observed, nonce)
    <3> PICK bundle \in BundleKeys, org \in OrganizationIds, credential \in CredentialIds,
             observed \in Envelopes, nonce \in ReceiptNonces :
                 submitReplicaReceipt(sender, bundle, org, credential, observed, nonce)
        BY <2>6, ZenonT(60)
    <3>1. <<credential, nonce>> \in CredentialIds \X ReceiptNonces
        OBVIOUS
    <3>2. /\ consumedReceiptNonces' \subseteq CredentialIds \X ReceiptNonces
          /\ verifiedReplicaReceipt' \subseteq BundleKeys
        BY <3>1, ZenonT(60) DEF submitReplicaReceipt, BundleTypeOK
    <3> QED BY <2>1, <3>2, ZenonT(60) DEF submitReplicaReceipt, BundleTypeOK
  <2> QED BY <2>2, <2>3, <2>4, <2>5, <2>6, ZenonT(60)
<1> QED BY <1>1, <1>2 DEF BundleNext, bundleVars

-----------------------------------------------------------------------------
(* The inductive invariant.                                                *)

(* bundleOf says which bundle each spent attestation nonce vouches for,    *)
(* and every other bundle is the deployer's.                               *)
AccountsForBundles(bundleOf) ==
    /\ \A s, t \in consumedAttestationNonces : bundleOf[s] = bundleOf[t] => s = t
    /\ \A s \in consumedAttestationNonces : \E a \in Attestations :
          /\ s = <<a.signerCredentialId, a.nonce>>
          /\ bundleOf[s] = a.bundleId
          /\ isConfirmedLink(a.bundleId, a.domainResourceId, a.bundleType, a.domainPayloadCommitment, FALSE)
    /\ \A k \in Confirmed :
          \/ \E s \in consumedAttestationNonces : bundleOf[s] = k
          \/ commitments[k].controller = deployer

(* The sets that are counted are finite.                                   *)
BundleInv ==
    /\ BundleTypeOK
    /\ IsFiniteSet(verifiedReplicaReceipt) /\ IsFiniteSet(consumedReceiptNonces)
    /\ EveryBundleIsAccountedFor

LEMMA AccountedFor ==
    EveryBundleIsAccountedFor <=>
        /\ BundleDomainMatching
        /\ OneReceiptNoncePerBundle
        /\ \E bundleOf \in [consumedAttestationNonces -> Confirmed] : AccountsForBundles(bundleOf)
    BY ZenonT(60) DEF EveryBundleIsAccountedFor, AccountsForBundles

(* A commitment keeps both mappings in step: the bundle was not confirmed  *)
(* and the domain record led nowhere.                                      *)
LEMMA CommitKeepsMatching ==
    ASSUME BundleTypeOK, BundleDomainMatching,
           NEW sender \in Accounts, NEW bundle \in BundleKeys, NEW domain \in DomainKeys,
           NEW org \in OrganizationIds, NEW bundleType \in BundleTypes, NEW payload \in PayloadCommitments,
           NEW envelope \in Envelopes,
           _commitProtectedBundle(sender, bundle, domain, org, bundleType, payload, envelope)
    PROVE  BundleDomainMatching'
<1>1. /\ ~ commitments[bundle].confirmed /\ bundleForDomain[domain] = Zero
      /\ \A k \in BundleKeys \ {bundle} : commitments'[k] = commitments[k]
      /\ \A d \in DomainKeys \ {domain} : bundleForDomain'[d] = bundleForDomain[d]
      /\ bundleForDomain'[domain] = bundle
      /\ commitments'[bundle].confirmed
      /\ commitments'[bundle].domainKey = domain
  <2>1. CommitWritten(sender, bundle, domain, bundleType, payload)
      BY CommitEffects, ZenonT(60)
  <2> QED BY <2>1, ZenonT(60) DEF CommitWritten
<1>2. Zero \notin BundleKeys
    BY BundleAssumption, ZenonT(60)
<1>3. ASSUME NEW k \in BundleKeys, NEW d \in DomainKeys
      PROVE  bundleForDomain'[d] = k <=> (commitments'[k].confirmed /\ commitments'[k].domainKey = d)
  <2>1. bundleForDomain[d] = k <=> (commitments[k].confirmed /\ commitments[k].domainKey = d)
      BY ZenonT(60) DEF BundleDomainMatching
  <2>2. CASE k = bundle /\ d = domain
      BY <1>1, <2>2, ZenonT(60)
  <2>3. CASE k = bundle /\ d # domain
    <3>1. bundleForDomain'[d] = bundleForDomain[d] /\ bundleForDomain[d] # k
        BY <1>1, <2>1, <2>3, ZenonT(60)
    <3> QED BY <1>1, <2>3, <3>1, ZenonT(60)
  <2>4. CASE k # bundle /\ d = domain
    <3>1. commitments'[k] = commitments[k] /\ bundleForDomain[d] # k
        BY <1>1, <1>2, <2>4, ZenonT(60)
    <3> QED BY <1>1, <2>1, <2>4, <3>1, ZenonT(60)
  <2>5. CASE k # bundle /\ d # domain
    <3>1. commitments'[k] = commitments[k] /\ bundleForDomain'[d] = bundleForDomain[d]
        BY <1>1, <2>5, ZenonT(60)
    <3> QED BY <2>1, <3>1, ZenonT(60)
  <2> QED BY <2>2, <2>3, <2>4, <2>5, ZenonT(60)
<1> QED BY <1>3, ZenonT(60) DEF BundleDomainMatching

(* No commitment touches the receipts, and a new bundle is supplementary.  *)
LEMMA CommitKeepsReceipts ==
    ASSUME BundleTypeOK, OneReceiptNoncePerBundle, UNCHANGED <<consumedReceiptNonces, verifiedReplicaReceipt>>,
           NEW bundle \in BundleKeys,
           \A k \in BundleKeys \ {bundle} : commitments'[k] = commitments[k],
           commitments'[bundle].criticalityClass = "Supplementary"
    PROVE  OneReceiptNoncePerBundle'
    BY ZenonT(60) DEF OneReceiptNoncePerBundle, Confirmed

(* What a nonce or the deployer accounts for stays accounted for while the *)
(* other bundles keep what was signed.                                     *)
LEMMA DeployerCommitIsAccountedFor ==
    ASSUME BundleInv, NEW bundle \in BundleKeys, UNCHANGED consumedAttestationNonces,
           \A k \in BundleKeys \ {bundle} : commitments'[k] = commitments[k],
           ~ commitments[bundle].confirmed, commitments'[bundle].confirmed,
           commitments'[bundle].controller = deployer
    PROVE  \E bundleOf \in [consumedAttestationNonces' -> Confirmed'] : AccountsForBundles(bundleOf)'
<1> PICK bundleOf \in [consumedAttestationNonces -> Confirmed] : AccountsForBundles(bundleOf)
    BY AccountedFor DEF BundleInv
<1>1. Confirmed' = Confirmed \cup {bundle} /\ bundle \notin Confirmed /\ Confirmed \subseteq BundleKeys
    BY DEF Confirmed
<1>2. bundleOf \in [consumedAttestationNonces' -> Confirmed']
    BY <1>1
<1>3. \A s \in consumedAttestationNonces : \E a \in Attestations :
          /\ s = <<a.signerCredentialId, a.nonce>>
          /\ bundleOf[s] = a.bundleId
          /\ isConfirmedLink(a.bundleId, a.domainResourceId, a.bundleType, a.domainPayloadCommitment, FALSE)'
  <2> SUFFICES ASSUME NEW s \in consumedAttestationNonces
               PROVE  \E a \in Attestations :
          /\ s = <<a.signerCredentialId, a.nonce>>
          /\ bundleOf[s] = a.bundleId
          /\ isConfirmedLink(a.bundleId, a.domainResourceId, a.bundleType, a.domainPayloadCommitment, FALSE)'
      BY ZenonT(60)
  <2> PICK a \in Attestations :
          /\ s = <<a.signerCredentialId, a.nonce>>
          /\ bundleOf[s] = a.bundleId
          /\ isConfirmedLink(a.bundleId, a.domainResourceId, a.bundleType, a.domainPayloadCommitment, FALSE)
      BY ZenonT(60) DEF AccountsForBundles
  <2>1. commitments'[a.bundleId] = commitments[a.bundleId]
      BY <1>1
  <2>2. isConfirmedLink(a.bundleId, a.domainResourceId, a.bundleType, a.domainPayloadCommitment, FALSE)'
      BY <2>1, ZenonT(60) DEF isConfirmedLink
  <2> QED BY <2>2, ZenonT(60)
<1>4. \A k \in Confirmed' :
          \/ \E s \in consumedAttestationNonces : bundleOf[s] = k
          \/ commitments'[k].controller = deployer
    BY <1>1 DEF AccountsForBundles
<1>5. AccountsForBundles(bundleOf)'
    BY <1>3, <1>4, ZenonT(60) DEF AccountsForBundles
<1> QED BY <1>2, <1>5

(* An attested bundle is accounted for by the nonce its commitment spends. *)
LEMMA AttestedCommitIsAccountedFor ==
    ASSUME BundleInv, NEW a \in Attestations, a.bundleId \in BundleKeys,
           <<a.signerCredentialId, a.nonce>> \notin consumedAttestationNonces,
           consumedAttestationNonces' = consumedAttestationNonces \cup {<<a.signerCredentialId, a.nonce>>},
           \A k \in BundleKeys \ {a.bundleId} : commitments'[k] = commitments[k],
           ~ commitments[a.bundleId].confirmed,
           isConfirmedLink(a.bundleId, a.domainResourceId, a.bundleType, a.domainPayloadCommitment, FALSE)'
    PROVE  \E bundleOf \in [consumedAttestationNonces' -> Confirmed'] : AccountsForBundles(bundleOf)'
<1> DEFINE bundle == a.bundleId
           spent == <<a.signerCredentialId, a.nonce>>
<1> PICK bundleOf \in [consumedAttestationNonces -> Confirmed] : AccountsForBundles(bundleOf)
    BY AccountedFor, ZenonT(60) DEF BundleInv
<1>1. Confirmed' = Confirmed \cup {bundle} /\ bundle \notin Confirmed /\ Confirmed \subseteq BundleKeys
    BY DEF Confirmed, isConfirmedLink
<1>2. PICK extended \in [consumedAttestationNonces' -> Confirmed'] :
          /\ extended[spent] = bundle
          /\ \A s \in consumedAttestationNonces : extended[s] = bundleOf[s] /\ extended[s] \in Confirmed
  <2> DEFINE extended == [s \in consumedAttestationNonces \cup {spent} |->
                             IF s = spent THEN bundle ELSE bundleOf[s]]
  <2>1. extended \in [consumedAttestationNonces' -> Confirmed']
      BY <1>1, ZenonT(60)
  <2>2. /\ extended[spent] = bundle
        /\ \A s \in consumedAttestationNonces : extended[s] = bundleOf[s] /\ extended[s] \in Confirmed
      BY <1>1
  <2> QED BY <2>1, <2>2, ZenonT(60)
<1>3. ASSUME NEW s \in consumedAttestationNonces', NEW t \in consumedAttestationNonces', extended[s] = extended[t]
      PROVE  s = t
  <2>1. s = spent \/ s \in consumedAttestationNonces
      OBVIOUS
  <2>2. t = spent \/ t \in consumedAttestationNonces
      BY ZenonT(60)
  <2> QED BY <1>1, <1>2, <1>3, <2>1, <2>2, ZenonT(60) DEF AccountsForBundles
<1>4. ASSUME NEW s \in consumedAttestationNonces'
      PROVE  \E o \in Attestations :
          /\ s = <<o.signerCredentialId, o.nonce>>
          /\ extended[s] = o.bundleId
          /\ isConfirmedLink(o.bundleId, o.domainResourceId, o.bundleType, o.domainPayloadCommitment, FALSE)'
  <2>1. CASE s = spent
      BY <1>2, <2>1, ZenonT(60)
  <2>2. CASE s \in consumedAttestationNonces
    <3> PICK o \in Attestations :
          /\ s = <<o.signerCredentialId, o.nonce>>
          /\ bundleOf[s] = o.bundleId
          /\ isConfirmedLink(o.bundleId, o.domainResourceId, o.bundleType, o.domainPayloadCommitment, FALSE)
        BY <2>2, ZenonT(60) DEF AccountsForBundles
    <3>1. commitments'[o.bundleId] = commitments[o.bundleId]
        BY <1>1, <2>2
    <3>2. isConfirmedLink(o.bundleId, o.domainResourceId, o.bundleType, o.domainPayloadCommitment, FALSE)'
        BY <3>1, ZenonT(60) DEF isConfirmedLink
    <3> QED BY <1>2, <2>2, <3>2, ZenonT(60)
  <2> QED BY <2>1, <2>2, ZenonT(60)
<1>5. ASSUME NEW k \in Confirmed'
      PROVE  \/ \E s \in consumedAttestationNonces' : extended[s] = k
             \/ commitments'[k].controller = deployer
  <2>1. CASE k = bundle
      BY <1>2, <2>1, ZenonT(60)
  <2>2. CASE k \in Confirmed
      BY <1>1, <1>2, <2>2 DEF AccountsForBundles
  <2> QED BY <1>1, <2>1, <2>2
<1>6. AccountsForBundles(extended)'
    BY <1>3, <1>4, <1>5, ZenonT(60) DEF AccountsForBundles
<1> QED BY <1>2, <1>6

(* Steps that commit nothing leave the accounts as they are.               *)
LEMMA AccountsKept ==
    ASSUME UNCHANGED <<commitments, consumedAttestationNonces>>,
           \E bundleOf \in [consumedAttestationNonces -> Confirmed] : AccountsForBundles(bundleOf)
    PROVE  \E bundleOf \in [consumedAttestationNonces' -> Confirmed'] : AccountsForBundles(bundleOf)'
<1> PICK bundleOf \in [consumedAttestationNonces -> Confirmed] : AccountsForBundles(bundleOf)
    OBVIOUS
<1>1. Confirmed' = Confirmed
    BY ZenonT(60) DEF Confirmed
<1>2. AccountsForBundles(bundleOf)'
    BY <1>1, ZenonT(60) DEF AccountsForBundles, isConfirmedLink
<1> QED BY <1>1, <1>2

(* A promotion changes neither what was signed nor who committed, and is   *)
(* of a receipted bundle.                                                  *)
LEMMA PromotionKeeps ==
    ASSUME BundleInv, BundleTypeOK', NEW sender, NEW bundle \in BundleKeys, promoteToDecisionCritical(sender, bundle)
    PROVE  BundleInv'
<1>1. /\ \A k \in BundleKeys :
            /\ commitments'[k].confirmed = commitments[k].confirmed
            /\ commitments[k].confirmed =>
                  /\ commitments'[k].domainKey = commitments[k].domainKey
                  /\ commitments'[k].controller = commitments[k].controller
                  /\ commitments'[k].bundleType = commitments[k].bundleType
                  /\ commitments'[k].domainPayloadCommitment = commitments[k].domainPayloadCommitment
            /\ k # bundle => commitments'[k].criticalityClass = commitments[k].criticalityClass
      /\ commitments'[bundle].criticalityClass = "DecisionCritical"
    BY PromoteEffects, ZenonT(60) DEF BundleInv
<1>2. /\ UNCHANGED <<bundleForDomain, consumedReceiptNonces, verifiedReplicaReceipt, consumedAttestationNonces>>
      /\ bundle \in verifiedReplicaReceipt
    BY DEF promoteToDecisionCritical
<1>3. BundleDomainMatching /\ OneReceiptNoncePerBundle
    BY AccountedFor, ZenonT(60) DEF BundleInv
<1>4. BundleDomainMatching'
    BY <1>1, <1>2, <1>3 DEF BundleDomainMatching
<1>5. Confirmed' = Confirmed /\ Confirmed \subseteq BundleKeys
    BY <1>1, ZenonT(60) DEF Confirmed
<1>6. OneReceiptNoncePerBundle'
    BY <1>1, <1>2, <1>3, <1>5 DEF OneReceiptNoncePerBundle
<1> PICK bundleOf \in [consumedAttestationNonces -> Confirmed] : AccountsForBundles(bundleOf)
    BY AccountedFor DEF BundleInv
<1>7. \A s \in consumedAttestationNonces : \E a \in Attestations :
          /\ s = <<a.signerCredentialId, a.nonce>>
          /\ bundleOf[s] = a.bundleId
          /\ isConfirmedLink(a.bundleId, a.domainResourceId, a.bundleType, a.domainPayloadCommitment, FALSE)'
  <2> SUFFICES ASSUME NEW s \in consumedAttestationNonces
               PROVE  \E a \in Attestations :
          /\ s = <<a.signerCredentialId, a.nonce>>
          /\ bundleOf[s] = a.bundleId
          /\ isConfirmedLink(a.bundleId, a.domainResourceId, a.bundleType, a.domainPayloadCommitment, FALSE)'
      BY ZenonT(60)
  <2> PICK a \in Attestations :
          /\ s = <<a.signerCredentialId, a.nonce>>
          /\ bundleOf[s] = a.bundleId
          /\ isConfirmedLink(a.bundleId, a.domainResourceId, a.bundleType, a.domainPayloadCommitment, FALSE)
      BY ZenonT(60) DEF AccountsForBundles
  <2>1. a.bundleId \in BundleKeys
      BY <1>5
  <2>2. isConfirmedLink(a.bundleId, a.domainResourceId, a.bundleType, a.domainPayloadCommitment, FALSE)'
      BY <1>1, <2>1, ZenonT(60) DEF isConfirmedLink
  <2> QED BY <2>2, ZenonT(60)
<1>8. \A k \in Confirmed' :
          \/ \E s \in consumedAttestationNonces : bundleOf[s] = k
          \/ commitments'[k].controller = deployer
    BY <1>1, <1>5, ZenonT(60) DEF AccountsForBundles, Confirmed
<1>9. AccountsForBundles(bundleOf)'
    BY <1>2, <1>7, <1>8, ZenonT(60) DEF AccountsForBundles
<1>10. EveryBundleIsAccountedFor'
    BY <1>2, <1>4, <1>5, <1>6, <1>9, ZenonT(60) DEF EveryBundleIsAccountedFor, AccountsForBundles
<1> QED BY <1>2, <1>10, ZenonT(60) DEF BundleInv

(* A receipt spends a nonce that was not spent, so the count of nonces     *)
(* keeps up with the count of receipted bundles.                           *)
LEMMA ReceiptKeeps ==
    ASSUME BundleInv, BundleTypeOK', NEW sender, NEW bundle \in BundleKeys, NEW org, NEW credential, NEW observed,
           NEW nonce, submitReplicaReceipt(sender, bundle, org, credential, observed, nonce)
    PROVE  BundleInv'
<1>1. /\ <<credential, nonce>> \notin consumedReceiptNonces
      /\ consumedReceiptNonces' = consumedReceiptNonces \cup {<<credential, nonce>>}
      /\ verifiedReplicaReceipt' = verifiedReplicaReceipt \cup {bundle}
      /\ UNCHANGED <<bootstrapClosed, commitments, bundleForDomain, consumedAttestationNonces>>
    BY DEF submitReplicaReceipt
<1>2. /\ IsFiniteSet(verifiedReplicaReceipt) /\ IsFiniteSet(consumedReceiptNonces)
      /\ BundleDomainMatching /\ OneReceiptNoncePerBundle
    BY AccountedFor DEF BundleInv
<1>3. /\ IsFiniteSet(consumedReceiptNonces')
      /\ Cardinality(consumedReceiptNonces') = Cardinality(consumedReceiptNonces) + 1
    BY <1>1, <1>2, FS_AddElement, ZenonT(60)
<1>4. /\ IsFiniteSet(verifiedReplicaReceipt')
      /\ \/ Cardinality(verifiedReplicaReceipt') = Cardinality(verifiedReplicaReceipt)
         \/ Cardinality(verifiedReplicaReceipt') = Cardinality(verifiedReplicaReceipt) + 1
    BY <1>1, <1>2, FS_AddElement
<1>5. Cardinality(consumedReceiptNonces) \in Nat /\ Cardinality(verifiedReplicaReceipt) \in Nat
    BY <1>2, FS_CardinalityType, ZenonT(60)
<1>6. Cardinality(verifiedReplicaReceipt') <= Cardinality(consumedReceiptNonces')
    BY <1>2, <1>3, <1>4, <1>5 DEF OneReceiptNoncePerBundle
<1>7. OneReceiptNoncePerBundle'
    BY <1>1, <1>2, <1>6 DEF OneReceiptNoncePerBundle, Confirmed
<1>8. BundleDomainMatching'
    BY <1>1, <1>2, ZenonT(60) DEF BundleDomainMatching
<1>9. \E bundleOf \in [consumedAttestationNonces' -> Confirmed'] : AccountsForBundles(bundleOf)'
    BY <1>1, AccountedFor, AccountsKept DEF BundleInv
<1>10. EveryBundleIsAccountedFor'
    BY <1>1, <1>7, <1>8, <1>9, ZenonT(60) DEF EveryBundleIsAccountedFor, AccountsForBundles
<1> QED BY <1>3, <1>4, <1>10 DEF BundleInv

LEMMA BundleInvIsInductive ==
    BundleInv /\ [BundleNext]_<<now, authorityVars, bundleVars>> => BundleInv'
<1> SUFFICES ASSUME BundleInv, [BundleNext]_<<now, authorityVars, bundleVars>>
             PROVE  BundleInv'
    OBVIOUS
<1>1. BundleTypeOK /\ BundleTypeOK' /\ BundleDomainMatching /\ OneReceiptNoncePerBundle
    BY AccountedFor, BundleStepTypes DEF BundleInv
<1>2. CASE UNCHANGED <<commitments, bundleForDomain, consumedReceiptNonces, verifiedReplicaReceipt,
                       consumedAttestationNonces>>
  <2>1. EveryBundleIsAccountedFor'
    <3>1. BundleDomainMatching' /\ OneReceiptNoncePerBundle'
        BY <1>1, <1>2, ZenonT(60) DEF BundleDomainMatching, OneReceiptNoncePerBundle, Confirmed
    <3>2. \E bundleOf \in [consumedAttestationNonces' -> Confirmed'] : AccountsForBundles(bundleOf)'
        BY <1>2, AccountedFor, AccountsKept DEF BundleInv
    <3> QED BY <3>1, <3>2, ZenonT(60) DEF EveryBundleIsAccountedFor, AccountsForBundles
  <2> QED BY <1>1, <1>2, <2>1 DEF BundleInv
<1>3. ASSUME NEW sender \in Accounts, NEW bundle \in BundleKeys, NEW domain \in DomainKeys, NEW org \in OrganizationIds,
             NEW bundleType \in BundleTypes, NEW payload \in PayloadCommitments, NEW envelope \in Envelopes,
             commitProtectedBundle(sender, bundle, domain, org, bundleType, payload, envelope)
      PROVE  BundleInv'
  <2>1. /\ _commitProtectedBundle(sender, bundle, domain, org, bundleType, payload, envelope)
        /\ sender = deployer
        /\ UNCHANGED <<consumedReceiptNonces, verifiedReplicaReceipt, consumedAttestationNonces>>
      BY <1>3 DEF commitProtectedBundle
  <2>2. BundleDomainMatching'
      BY <1>1, <2>1, CommitKeepsMatching, ZenonT(60)
  <2>3. /\ \A k \in BundleKeys \ {bundle} : commitments'[k] = commitments[k]
        /\ ~ commitments[bundle].confirmed /\ commitments'[bundle].confirmed
        /\ commitments'[bundle].controller = deployer
        /\ commitments'[bundle].criticalityClass = "Supplementary"
    <3>1. CommitWritten(sender, bundle, domain, bundleType, payload)
        BY <1>1, <2>1, CommitEffects, ZenonT(60)
    <3> QED BY <2>1, <3>1, ZenonT(60) DEF CommitWritten
  <2>4. OneReceiptNoncePerBundle'
      BY <1>1, <2>1, <2>3, CommitKeepsReceipts, ZenonT(60)
  <2>5. \E bundleOf \in [consumedAttestationNonces' -> Confirmed'] : AccountsForBundles(bundleOf)'
      BY <2>1, <2>3, DeployerCommitIsAccountedFor, ZenonT(60)
  <2>6. EveryBundleIsAccountedFor'
      BY <2>2, <2>4, <2>5, ZenonT(60) DEF EveryBundleIsAccountedFor, AccountsForBundles
  <2> QED BY <1>1, <2>1, <2>6 DEF BundleInv
<1>4. ASSUME NEW sender \in Accounts, NEW a \in Attestations, NEW org \in OrganizationIds,
             NEW credential \in CredentialIds, NEW envelope \in Envelopes,
             commitAttestedProtectedBundle(sender, a, org, credential, envelope)
      PROVE  BundleInv'
  <2>1. /\ a.bundleId \in BundleKeys /\ a.domainResourceId \in DomainKeys
        /\ a.bundleType \in BundleTypes /\ a.domainPayloadCommitment \in PayloadCommitments
      BY BundleAssumption
  <2>2. /\ _commitProtectedBundle(sender, a.bundleId, a.domainResourceId, org, a.bundleType,
                                  a.domainPayloadCommitment, envelope)
        /\ <<a.signerCredentialId, a.nonce>> \notin consumedAttestationNonces
        /\ consumedAttestationNonces' = consumedAttestationNonces \cup {<<a.signerCredentialId, a.nonce>>}
        /\ UNCHANGED <<consumedReceiptNonces, verifiedReplicaReceipt>>
      BY <1>4 DEF commitAttestedProtectedBundle
  <2>3. BundleDomainMatching'
    <3> DEFINE bundle == a.bundleId
               domain == a.domainResourceId
               bundleType == a.bundleType
               payload == a.domainPayloadCommitment
    <3>1. /\ bundle \in BundleKeys /\ domain \in DomainKeys /\ bundleType \in BundleTypes
          /\ payload \in PayloadCommitments
          /\ _commitProtectedBundle(sender, bundle, domain, org, bundleType, payload, envelope)
        BY <2>1, <2>2, ZenonT(60)
    <3> HIDE DEF bundle, domain, bundleType, payload
    <3> QED BY <1>1, <3>1, CommitKeepsMatching
  <2>4. /\ \A k \in BundleKeys \ {a.bundleId} : commitments'[k] = commitments[k]
        /\ ~ commitments[a.bundleId].confirmed /\ commitments'[a.bundleId].confirmed
        /\ commitments'[a.bundleId].domainKey = a.domainResourceId
        /\ commitments'[a.bundleId].bundleType = a.bundleType
        /\ commitments'[a.bundleId].domainPayloadCommitment = a.domainPayloadCommitment
        /\ commitments'[a.bundleId].criticalityClass = "Supplementary"
    <3> DEFINE bundle == a.bundleId
               domain == a.domainResourceId
               bundleType == a.bundleType
               payload == a.domainPayloadCommitment
    <3>1. /\ bundle \in BundleKeys /\ domain \in DomainKeys /\ bundleType \in BundleTypes
          /\ payload \in PayloadCommitments
          /\ _commitProtectedBundle(sender, bundle, domain, org, bundleType, payload, envelope)
        BY <2>1, <2>2, ZenonT(60)
    <3> HIDE DEF bundle, domain, bundleType, payload
    <3>2. /\ \A k \in BundleKeys \ {bundle} : commitments'[k] = commitments[k]
          /\ ~ commitments[bundle].confirmed /\ commitments'[bundle].confirmed
          /\ commitments'[bundle].domainKey = domain /\ commitments'[bundle].bundleType = bundleType
          /\ commitments'[bundle].domainPayloadCommitment = payload
          /\ commitments'[bundle].criticalityClass = "Supplementary"
      <4>1. CommitWritten(sender, bundle, domain, bundleType, payload)
          BY <1>1, <3>1, CommitEffects, ZenonT(60)
      <4> QED BY <4>1, ZenonT(60) DEF CommitWritten
    <3> QED BY <3>2, ZenonT(60) DEF bundle, domain, bundleType, payload
  <2>5. OneReceiptNoncePerBundle'
      BY <1>1, <2>1, <2>2, <2>4, CommitKeepsReceipts, ZenonT(60)
  <2>6. isConfirmedLink(a.bundleId, a.domainResourceId, a.bundleType, a.domainPayloadCommitment, FALSE)'
      BY <2>4, SMTT(60) DEF isConfirmedLink
  <2>7. \E bundleOf \in [consumedAttestationNonces' -> Confirmed'] : AccountsForBundles(bundleOf)'
      BY <2>1, <2>2, <2>4, <2>6, AttestedCommitIsAccountedFor, ZenonT(60)
  <2>8. EveryBundleIsAccountedFor'
      BY <2>3, <2>5, <2>7, ZenonT(60) DEF EveryBundleIsAccountedFor, AccountsForBundles
  <2> QED BY <1>1, <2>2, <2>8 DEF BundleInv
<1> QED BY <1>1, <1>2, <1>3, <1>4, PromotionKeeps, ReceiptKeeps DEF BundleNext, BundleStep, bundleVars, closeBootstrap

LEMMA BundleInvHoldsInitially ==
    BundleRegistryInit => BundleInv
<1> SUFFICES ASSUME BundleRegistryInit PROVE BundleInv
    OBVIOUS
<1>1. AuthorityTypeOK
  <2>1. NoGrant \in [resourceScope : ResourceScopes \cup {Zero}, effectiveAt : Timestamps,
                     expiresAt : Timestamps, active : BOOLEAN]
      BY MaxTimestampAssumption DEF NoGrant, Timestamps
  <2> QED BY <2>1, ZenonT(60) DEF BundleRegistryInit, AuthorityInit, AuthorityTypeOK, OrganizationStatus, NoProfile, NoCredential
<1>2. BundleTypeOK
    BY <1>1, ZenonT(60) DEF BundleRegistryInit, BundleInit, BundleTypeOK
<1>3. \A k \in BundleKeys : ~ commitments[k].confirmed
    BY DEF BundleRegistryInit, BundleInit, NoCommitment
<1>4. Confirmed = {}
    BY <1>3 DEF Confirmed
<1>5. BundleDomainMatching
    BY <1>3, BundleAssumption, ZenonT(60) DEF BundleRegistryInit, BundleInit, BundleDomainMatching
<1>6. IsFiniteSet(verifiedReplicaReceipt) /\ IsFiniteSet(consumedReceiptNonces)
    BY FS_EmptySet DEF BundleRegistryInit, BundleInit
<1>7. Cardinality(verifiedReplicaReceipt) <= Cardinality(consumedReceiptNonces)
    BY FS_EmptySet DEF BundleRegistryInit, BundleInit
<1>8. OneReceiptNoncePerBundle
    BY <1>4, <1>7 DEF OneReceiptNoncePerBundle
<1>9. \E bundleOf \in [consumedAttestationNonces -> Confirmed] : AccountsForBundles(bundleOf)
  <2> DEFINE none == [s \in {} |-> s]
  <2>1. consumedAttestationNonces = {}
      BY DEF BundleRegistryInit, BundleInit
  <2>2. none \in [consumedAttestationNonces -> Confirmed]
      BY <2>1
  <2>3. AccountsForBundles(none)
      BY <1>4, <2>1 DEF AccountsForBundles
  <2> QED BY <2>2, <2>3, ZenonT(60)
<1> QED BY <1>2, <1>5, <1>6, <1>8, <1>9, AccountedFor, ZenonT(60) DEF BundleInv

-----------------------------------------------------------------------------
(* THEOREMS                                                                *)

(* The accounts hold together with the types after every sequence of       *)
(* transactions of this registry, of governance and of time.               *)
THEOREM BundleInvariant == BundleSpec => []BundleInv
<1>1. BundleRegistryInit => BundleInv
    BY BundleInvHoldsInitially
<1>2. BundleInv /\ [BundleNext]_<<now, authorityVars, bundleVars>> => BundleInv'
    BY BundleInvIsInductive
<1> QED BY <1>1, <1>2, PTL DEF BundleSpec

(* Every confirmed bundle is the deployer's or has an attestation nonce of *)
(* its own (commitAttestedProtectedBundle), receipts never outnumber the   *)
(* receipt nonces (submitReplicaReceipt), and commitments and              *)
(* bundleForDomain are one matching (_commitProtectedBundle).              *)
THEOREM BundlesAreAccountedFor == BundleSpec => []EveryBundleIsAccountedFor
<1>1. BundleInv => EveryBundleIsAccountedFor
    BY DEF BundleInv
<1> QED BY <1>1, BundleInvariant, PTL

(* A confirmed link is never withdrawn or changed, at most one per bundle  *)
(* and domain record, and its class only rises: every step is a step of    *)
(* ConfirmedLinks or leaves isConfirmedLink as it was.                     *)
THEOREM RegistryImplementsConfirmedLinks == BundleSpec => ImplementsConfirmedLinks
<1> DEFINE L == {LinkOf(k) : k \in Confirmed}
           C == {LinkOf(k) : k \in {c \in Confirmed : commitments[c].criticalityClass = "DecisionCritical"}}
           P == [bundleKey : BundleKeys, domainKey : DomainKeys, bundleType : BundleTypes, payload : PayloadCommitments]
<1>1. BundleRegistryInit => Links!LinksInit
  <2> SUFFICES ASSUME BundleRegistryInit PROVE Links!LinksInit
      OBVIOUS
  <2>1. Confirmed = {}
      BY DEF BundleRegistryInit, BundleInit, NoCommitment, Confirmed
  <2> QED BY <2>1 DEF Links!LinksInit
<1>2. ASSUME BundleInv, [BundleNext]_<<now, authorityVars, bundleVars>>
      PROVE  [Links!LinksNext]_<<L, C>>
  <2>1. CASE UNCHANGED commitments
    <3>1. Confirmed' = Confirmed /\ \A k \in BundleKeys : LinkOf(k)' = LinkOf(k)
        BY <2>1 DEF Confirmed, LinkOf
    <3> QED BY <2>1, <3>1 DEF LinkOf, Confirmed
  <2>2. BundleTypeOK /\ BundleDomainMatching
      BY <1>2, AccountedFor, ZenonT(60) DEF BundleInv
  <2>3. ASSUME NEW sender \in Accounts, NEW bundle \in BundleKeys, NEW domain \in DomainKeys,
               NEW org \in OrganizationIds, NEW bundleType \in BundleTypes, NEW payload \in PayloadCommitments,
               NEW envelope \in Envelopes,
               _commitProtectedBundle(sender, bundle, domain, org, bundleType, payload, envelope)
        PROVE  Links!LinksNext
    <3> DEFINE link == [bundleKey |-> bundle, domainKey |-> domain, bundleType |-> bundleType, payload |-> payload]
    <3>1. /\ ~ commitments[bundle].confirmed /\ bundleForDomain[domain] = Zero
          /\ \A k \in BundleKeys \ {bundle} : commitments'[k] = commitments[k]
          /\ commitments'[bundle].confirmed
          /\ commitments'[bundle].domainKey = domain
          /\ commitments'[bundle].bundleType = bundleType
          /\ commitments'[bundle].domainPayloadCommitment = payload
          /\ commitments'[bundle].criticalityClass = "Supplementary"
      <4>1. CommitWritten(sender, bundle, domain, bundleType, payload)
          BY <2>2, <2>3, CommitEffects, ZenonT(60)
      <4> QED BY <4>1, ZenonT(60) DEF CommitWritten
    <3>2. Confirmed' = Confirmed \cup {bundle} /\ bundle \notin Confirmed /\ Confirmed \subseteq BundleKeys
        BY <3>1, ZenonT(60) DEF Confirmed
    <3>3. LinkOf(bundle)' = link /\ \A k \in Confirmed : LinkOf(k)' = LinkOf(k)
        BY <3>1, <3>2, ZenonT(60) DEF LinkOf
    <3>4. L' = L \cup {link}
        BY <3>2, <3>3, ZenonT(60)
    <3>5. C' = C
      <4>1. {c \in Confirmed' : commitments'[c].criticalityClass = "DecisionCritical"}
              = {c \in Confirmed : commitments[c].criticalityClass = "DecisionCritical"}
          BY <3>1, <3>2, ZenonT(60)
      <4> QED BY <3>3, <4>1, ZenonT(60)
    <3>6. \A l \in L : l.bundleKey # link.bundleKey /\ l.domainKey # link.domainKey
      <4>1. ASSUME NEW k \in Confirmed
            PROVE  k # bundle /\ commitments[k].domainKey # domain
        <5>1. k \in BundleKeys /\ commitments[k].confirmed /\ k # Zero
            BY <3>2, BundleAssumption DEF Confirmed
        <5> QED BY <2>2, <3>1, <3>2, <5>1, ZenonT(60) DEF BundleDomainMatching
      <4>2. ASSUME NEW k \in Confirmed
            PROVE  LinkOf(k).bundleKey = k /\ LinkOf(k).domainKey = commitments[k].domainKey
          BY DEF LinkOf
      <4>3. link.bundleKey = bundle /\ link.domainKey = domain
          OBVIOUS
      <4> HIDE DEF link
      <4>4. ASSUME NEW k \in Confirmed
            PROVE  LinkOf(k).bundleKey # link.bundleKey /\ LinkOf(k).domainKey # link.domainKey
          BY <4>1, <4>2, <4>3, ZenonT(60)
      <4> SUFFICES ASSUME NEW l \in L
                   PROVE  l.bundleKey # link.bundleKey /\ l.domainKey # link.domainKey
          OBVIOUS
      <4>5. PICK k \in Confirmed : l = LinkOf(k)
          BY ZenonT(60)
      <4> QED BY <4>4, <4>5, ZenonT(60)
    <3>7. link \in P
        OBVIOUS
    <3> QED BY <3>4, <3>5, <3>6, <3>7, ZenonT(60) DEF Links!LinksNext, Links!Confirm
  <2>4. ASSUME NEW sender, NEW bundle \in BundleKeys, promoteToDecisionCritical(sender, bundle)
        PROVE  Links!LinksNext
    <3>1. /\ \A k \in BundleKeys :
                /\ commitments'[k].confirmed = commitments[k].confirmed
                /\ commitments[k].confirmed =>
                      /\ commitments'[k].domainKey = commitments[k].domainKey
                      /\ commitments'[k].bundleType = commitments[k].bundleType
                      /\ commitments'[k].domainPayloadCommitment = commitments[k].domainPayloadCommitment
                /\ k # bundle => commitments'[k].criticalityClass = commitments[k].criticalityClass
          /\ commitments'[bundle].criticalityClass = "DecisionCritical"
        BY <2>2, <2>4, PromoteEffects, ZenonT(60)
    <3>2. /\ Confirmed' = Confirmed /\ Confirmed \subseteq BundleKeys /\ bundle \in Confirmed
          /\ commitments[bundle].criticalityClass # "DecisionCritical"
        BY <2>4, <3>1, ZenonT(60) DEF Confirmed, promoteToDecisionCritical
    <3>3. \A k \in Confirmed : LinkOf(k)' = LinkOf(k)
        BY <3>1, <3>2 DEF LinkOf, Confirmed
    <3>4. L' = L /\ LinkOf(bundle) \in L
        BY <3>2, <3>3
    <3>5. {c \in Confirmed' : commitments'[c].criticalityClass = "DecisionCritical"}
             = {c \in Confirmed : commitments[c].criticalityClass = "DecisionCritical"} \cup {bundle}
        BY <3>1, <3>2
    <3>6. C' = C \cup {LinkOf(bundle)}
        BY <3>2, <3>3, <3>5, ZenonT(60)
    <3>7. LinkOf(bundle) \notin C
        BY <3>2, ZenonT(60) DEF LinkOf
    <3>8. LinkOf(bundle) \in P
      <4>1. commitments[bundle] \in Commitment
          BY <2>2, <2>4 DEF BundleTypeOK, promoteToDecisionCritical, NoCommitment
      <4> QED BY <4>1, ZenonT(60) DEF LinkOf, Commitment
    <3> PICK link \in P : link = LinkOf(bundle)
        BY <3>8, ZenonT(60)
    <3>9. Links!Promote(link)
        BY <3>4, <3>6, <3>7, ZenonT(60) DEF Links!Promote
    <3> QED BY <3>9, ZenonT(60) DEF Links!LinksNext
  <2>5. ASSUME NEW a \in Attestations
        PROVE  /\ a.bundleId \in BundleKeys /\ a.domainResourceId \in DomainKeys
               /\ a.bundleType \in BundleTypes /\ a.domainPayloadCommitment \in PayloadCommitments
      BY BundleAssumption
  <2> HIDE DEF L, C
  <2>6. CASE BundleStep
    <3>1. CASE \E sender \in Accounts, bundle \in BundleKeys, domain \in DomainKeys, org \in OrganizationIds,
                  bundleType \in BundleTypes, payload \in PayloadCommitments, envelope \in Envelopes :
                     commitProtectedBundle(sender, bundle, domain, org, bundleType, payload, envelope)
        BY <2>3, <3>1, ZenonT(60) DEF commitProtectedBundle
    <3>2. CASE \E sender \in Accounts, a \in Attestations, org \in OrganizationIds, credential \in CredentialIds,
                  envelope \in Envelopes : commitAttestedProtectedBundle(sender, a, org, credential, envelope)
        BY <2>3, <2>5, <3>2, ZenonT(60) DEF commitAttestedProtectedBundle
    <3>3. CASE \E sender \in Accounts, bundle \in BundleKeys : promoteToDecisionCritical(sender, bundle)
        BY <2>4, <3>3, ZenonT(60)
    <3> QED BY <2>1, <2>6, <3>1, <3>2, <3>3, ZenonT(60) DEF BundleStep, closeBootstrap, submitReplicaReceipt
  <2> QED BY <1>2, <2>1, <2>6, ZenonT(60) DEF BundleNext, bundleVars
<1> QED BY <1>1, <1>2, BundleInvariant, PTL DEF BundleSpec, ImplementsConfirmedLinks, Links!LinksSpec

(* setCredential changes the organization and the account of no credential *)
(* that has an account.                                                    *)
LEMMA BindingIsKept ==
    ASSUME NEW c \in CredentialIds, AuthorityTypeOK, credentials[c].account # Zero,
           NEW d \in CredentialIds, NEW org \in OrganizationIds, NEW account \in Accounts,
           NEW active \in BOOLEAN, NEW attests \in BOOLEAN,
           setCredential(d, org, account, active, attests)
    PROVE  /\ credentials'[c].organizationId = credentials[c].organizationId
           /\ credentials'[c].account = credentials[c].account
<1> DEFINE Bound == [organizationId |-> org, account |-> account, active |-> active,
                     replicaAttestation |-> attests]
<1>1. credentials[d].account # Zero =>
        credentials[d].organizationId = org /\ credentials[d].account = account
    BY ZenonT(60) DEF setCredential
<1>2. credentials' = [credentials EXCEPT ![d] = Bound]
    BY ZenonT(60) DEF setCredential
<1>3. credentials \in [CredentialIds ->
            [organizationId : OrganizationIds \cup {Zero}, account : Accounts \cup {Zero},
             active : BOOLEAN, replicaAttestation : BOOLEAN]]
    BY ZenonT(60) DEF AuthorityTypeOK
<1>4. Bound.organizationId = org /\ Bound.account = account
    OBVIOUS
<1> HIDE DEF Bound
<1>5. CASE d = c
  <2>1. credentials'[c] = Bound
      BY <1>2, <1>3, <1>5, ZenonT(60)
  <2> QED BY <1>1, <1>4, <1>5, <2>1, ZenonT(60)
<1>6. CASE d # c
  <2>1. credentials'[c] = credentials[c]
      BY <1>2, <1>3, <1>6, ZenonT(60)
  <2> QED BY <2>1, ZenonT(60)
<1> QED BY <1>5, <1>6, ZenonT(60)

(* setCredential refuses to bind a credential again, and an active         *)
(* credential is bound: whoever it is active for at one moment is the only *)
(* one it is ever active for again.                                        *)
THEOREM CredentialsHaveOneActor == BundleSpec => OneActorPerCredential
<1> SUFFICES ASSUME NEW c \in CredentialIds, NEW o \in OrganizationIds, NEW a \in Accounts
             PROVE  BundleSpec =>
                      [](isCredentialActive(c, o, a) =>
                           [](\A p \in OrganizationIds, b \in Accounts :
                                 isCredentialActive(c, p, b) => p = o /\ b = a))
    BY DEF OneActorPerCredential
<1> DEFINE Bound == credentials[c].organizationId = o /\ credentials[c].account = a
           OneActor == \A p \in OrganizationIds, b \in Accounts : isCredentialActive(c, p, b) => p = o /\ b = a
<1>1. isCredentialActive(c, o, a) => Bound
    BY DEF isCredentialActive
<1>2. Bound => OneActor
    BY ZenonT(60) DEF isCredentialActive
<1>3. ASSUME BundleInv, Bound, [BundleNext]_<<now, authorityVars, bundleVars>>
      PROVE  Bound'
  <2>1. CASE UNCHANGED credentials
      BY <1>3, <2>1, ZenonT(60)
  <2>2. CASE \E d \in CredentialIds, org \in OrganizationIds, account \in Accounts, active, attests \in BOOLEAN :
                 setCredential(d, org, account, active, attests)
    <3>1. a # Zero
        BY AuthorityAssumption
    <3>2. PICK d \in CredentialIds, org \in OrganizationIds, account \in Accounts, active \in BOOLEAN,
                attests \in BOOLEAN : setCredential(d, org, account, active, attests)
        BY <2>2, ZenonT(60)
    <3>3. credentials[c].account # Zero
        BY <1>3, <3>1
    <3>4. AuthorityTypeOK
        BY <1>3, ZenonT(60) DEF BundleInv, BundleTypeOK
    <3>5. credentials'[c].organizationId = credentials[c].organizationId /\ credentials'[c].account = credentials[c].account
        BY <3>2, <3>3, <3>4, BindingIsKept, ZenonT(60)
    <3> QED BY <1>3, <3>5
  <2> QED BY <1>3, <2>1, <2>2 DEF BundleNext, AuthorityNext, AuthorityStep, authorityVars, setOrganizationStatus,
             setProfile, setRepositoryApproval, setCapabilityGrant
<1> HIDE DEF Bound, OneActor
<1>4. BundleSpec => [](isCredentialActive(c, o, a) => []OneActor)
    BY <1>1, <1>2, <1>3, BundleInvariant, PTL DEF BundleSpec
<1> QED BY <1>4 DEF OneActor

=============================================================================
