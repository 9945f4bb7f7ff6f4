---------------------- MODULE BatteryOwnershipRegistry ----------------------
(***************************************************************************)
(* contracts/BatteryOwnershipRegistry.sol: battery packs and their modules *)
(* and cells, the recorded owner of each pack, the marketplace that holds  *)
(* its lock, and the append-only history of ownership transitions.         *)
(*                                                                         *)
(* One action is one transaction; a call that reverts is a call that is    *)
(* not enabled.  The marketplace operations at the end are also the calls  *)
(* that module Marketplace makes inside its own transactions.              *)
(***************************************************************************)
EXTENDS BlockTime, Sequences

CONSTANTS
    SubjectIds,        \* bytes32 identifiers of packs, modules and cells
    Marketplaces,      \* deployed marketplace contracts
    ProposalIds        \* bytes32 identifiers of initial ownership proposals

ASSUME ZeroAssumption ==
    Zero \notin SubjectIds \cup OrganizationIds \cup Accounts \cup Marketplaces

VARIABLES
    registrars,                  \* accounts allowed to register
    marketplaces,                \* marketplaces allowed to lock and transfer
    batteries,
    subjects,
    initialOwnershipProposals,
    ownershipTransitions         \* per battery, the sequence 1..count

registryVars == <<registrars, marketplaces, batteries, subjects,
                  initialOwnershipProposals, ownershipTransitions>>

Pack == 0
Cell == 2

NoBattery == [recordedOwner |-> Zero, marketplaceLock |-> Zero, registered |-> FALSE]
NoSubject == [parentId |-> Zero, rootBatteryId |-> Zero, granularity |-> Pack, registered |-> FALSE]
NoProposal == [batteryId |-> Zero, owner |-> Zero, ownerAccount |-> Zero, expiresAt |-> 0, status |-> "Unset"]

Battery == [recordedOwner : OrganizationIds \cup {Zero},
            marketplaceLock : Marketplaces \cup {Zero},
            registered : BOOLEAN]
Subject == [parentId : SubjectIds \cup {Zero}, rootBatteryId : SubjectIds \cup {Zero},
            granularity : Pack .. Cell, registered : BOOLEAN]
Proposal == [batteryId : SubjectIds \cup {Zero}, owner : OrganizationIds \cup {Zero},
             ownerAccount : Accounts \cup {Zero}, expiresAt : Timestamps,
             status : {"Unset", "Pending", "Accepted", "Rejected", "Expired"}]
Transition == [previousOwner : OrganizationIds \cup {Zero}, newOwner : OrganizationIds \cup {Zero},
               marketplace : Marketplaces \cup {Zero}, recordedAt : Timestamps]

RegistryTypeOK ==
    /\ registrars \subseteq Accounts
    /\ marketplaces \subseteq Marketplaces
    /\ batteries \in [SubjectIds -> Battery]
    /\ subjects \in [SubjectIds -> Subject]
    /\ initialOwnershipProposals \in [ProposalIds -> Proposal]
    /\ ownershipTransitions \in [SubjectIds -> Seq(Transition)]

RegistryInit ==
    /\ now = 0
    /\ registrars = {}
    /\ marketplaces = {}
    /\ batteries = [b \in SubjectIds |-> NoBattery]
    /\ subjects = [s \in SubjectIds |-> NoSubject]
    /\ initialOwnershipProposals = [p \in ProposalIds |-> NoProposal]
    /\ ownershipTransitions = [b \in SubjectIds |-> <<>>]

-----------------------------------------------------------------------------
(* Governance (onlyOwner).                                                 *)

setRegistrar(account, allowed) ==
    /\ registrars' = IF allowed THEN registrars \cup {account} ELSE registrars \ {account}
    /\ UNCHANGED <<marketplaces, batteries, subjects, initialOwnershipProposals, ownershipTransitions>>

setMarketplace(m, allowed) ==
    /\ marketplaces' = IF allowed THEN marketplaces \cup {m} ELSE marketplaces \ {m}
    /\ UNCHANGED <<registrars, batteries, subjects, initialOwnershipProposals, ownershipTransitions>>

-----------------------------------------------------------------------------
(* Registration of packs and components.                                   *)

recordOwnershipTransition(b, previousOwner, newOwner, m) ==
    ownershipTransitions' =
        [ownershipTransitions EXCEPT ![b] =
            Append(@, [previousOwner |-> previousOwner, newOwner |-> newOwner,
                       marketplace |-> m, recordedAt |-> now])]

(* The writes registerBattery and acceptInitialOwnership share: a Pack     *)
(* subject is written whatever the subject mapping held for that id.       *)
RecordPack(b, org) ==
    /\ batteries' = [batteries EXCEPT ![b] =
            [recordedOwner |-> org, marketplaceLock |-> Zero, registered |-> TRUE]]
    /\ subjects' = [subjects EXCEPT ![b] =
            [parentId |-> Zero, rootBatteryId |-> b, granularity |-> Pack, registered |-> TRUE]]
    /\ recordOwnershipTransition(b, Zero, org, Zero)

registerBattery(registrar, b, org) ==
    /\ registrar \in registrars
    /\ ~ batteries[b].registered
    /\ RecordPack(b, org)
    /\ UNCHANGED <<registrars, marketplaces, initialOwnershipProposals>>

proposeInitialOwnership(registrar, p, b, org, account, expiresAt) ==
    /\ registrar \in registrars
    /\ ~ batteries[b].registered
    /\ initialOwnershipProposals[p].status = "Unset"
    /\ expiresAt > now
    /\ initialOwnershipProposals' = [initialOwnershipProposals EXCEPT ![p] =
            [batteryId |-> b, owner |-> org, ownerAccount |-> account,
             expiresAt |-> expiresAt, status |-> "Pending"]]
    /\ UNCHANGED <<registrars, marketplaces, batteries, subjects, ownershipTransitions>>

CloseProposal(p, status) ==
    initialOwnershipProposals' = [initialOwnershipProposals EXCEPT ![p].status = status]

acceptInitialOwnership(sender, p) ==
    LET proposal == initialOwnershipProposals[p] IN
    /\ proposal.status = "Pending"
    /\ proposal.ownerAccount = sender
    /\ now < proposal.expiresAt
    /\ ~ batteries[proposal.batteryId].registered
    /\ CloseProposal(p, "Accepted")
    /\ RecordPack(proposal.batteryId, proposal.owner)
    /\ UNCHANGED <<registrars, marketplaces>>

rejectInitialOwnership(sender, p) ==
    /\ initialOwnershipProposals[p].status = "Pending"
    /\ initialOwnershipProposals[p].ownerAccount = sender
    /\ CloseProposal(p, "Rejected")
    /\ UNCHANGED <<registrars, marketplaces, batteries, subjects, ownershipTransitions>>

expireInitialOwnership(p) ==
    /\ initialOwnershipProposals[p].status = "Pending"
    /\ now >= initialOwnershipProposals[p].expiresAt
    /\ CloseProposal(p, "Expired")
    /\ UNCHANGED <<registrars, marketplaces, batteries, subjects, ownershipTransitions>>

Mutant_registerUnderAnyParent(registrar, s, parentId, granularity) ==
    LET parent == subjects[parentId] IN
    /\ registrar \in registrars
    /\ ~ subjects[s].registered
    /\ parent.registered
    /\ subjects' = [subjects EXCEPT ![s] =
            [parentId |-> parentId, rootBatteryId |-> parentId,
             granularity |-> parent.granularity + 1, registered |-> TRUE]]
    /\ UNCHANGED <<registrars, marketplaces, batteries, initialOwnershipProposals, ownershipTransitions>>

registerComponent(registrar, s, parentId, granularity) ==
    LET parent == subjects[parentId] IN
    /\ registrar \in registrars
    /\ ~ subjects[s].registered
    /\ parent.registered
    /\ granularity = parent.granularity + 1
    /\ subjects' = [subjects EXCEPT ![s] =
            [parentId |-> parentId, rootBatteryId |-> parent.rootBatteryId,
             granularity |-> granularity, registered |-> TRUE]]
    /\ UNCHANGED <<registrars, marketplaces, batteries, initialOwnershipProposals, ownershipTransitions>>

-----------------------------------------------------------------------------
(* Calls a marketplace m makes (msg.sender = m).                           *)

lockForMarketplace(m, b) ==
    /\ m \in marketplaces
    /\ batteries[b].registered
    /\ batteries[b].marketplaceLock \in {Zero, m}
    /\ batteries' = [batteries EXCEPT ![b].marketplaceLock = m]
    /\ UNCHANGED <<registrars, marketplaces, subjects, initialOwnershipProposals, ownershipTransitions>>

Mutant_AllowedMarketplace(m, b) == batteries[b].registered /\ m \in marketplaces

HoldsLock(m, b) ==
    /\ batteries[b].registered
    /\ m \in marketplaces
    /\ batteries[b].marketplaceLock = m

Mutant_transferReadsNewOwner(m, b, newOwner) ==
    /\ HoldsLock(m, b)
    /\ batteries' = [batteries EXCEPT ![b].recordedOwner = newOwner,
                                      ![b].marketplaceLock = Zero]
    /\ recordOwnershipTransition(b, newOwner, newOwner, m)
    /\ UNCHANGED <<registrars, marketplaces, subjects, initialOwnershipProposals>>

transferRecordedOwnership(m, b, newOwner) ==
    /\ HoldsLock(m, b)
    /\ batteries' = [batteries EXCEPT ![b].recordedOwner = newOwner,
                                      ![b].marketplaceLock = Zero]
    /\ recordOwnershipTransition(b, batteries[b].recordedOwner, newOwner, m)
    /\ UNCHANGED <<registrars, marketplaces, subjects, initialOwnershipProposals>>

unlockForMarketplace(m, b) ==
    /\ HoldsLock(m, b)
    /\ batteries' = [batteries EXCEPT ![b].marketplaceLock = Zero]
    /\ UNCHANGED <<registrars, marketplaces, subjects, initialOwnershipProposals, ownershipTransitions>>

-----------------------------------------------------------------------------
(* The registry on its own: governance, registrars, proposed owners and    *)
(* the allowed marketplaces call it in any order.  MaxTransitions bounds   *)
(* the history of one battery.                                             *)
CONSTANT MaxTransitions

RegistryNext ==
    \/ Tick /\ UNCHANGED registryVars
    \/ /\ UNCHANGED now
       /\ \/ \E a \in Accounts, allowed \in BOOLEAN : setRegistrar(a, allowed)
          \/ \E m \in Marketplaces, allowed \in BOOLEAN : setMarketplace(m, allowed)
          \/ \E r \in Accounts, b \in SubjectIds, org \in OrganizationIds : registerBattery(r, b, org)
          \/ \E r, a \in Accounts, p \in ProposalIds, b \in SubjectIds, org \in OrganizationIds,
                t \in Timestamps : proposeInitialOwnership(r, p, b, org, a, t)
          \/ \E a \in Accounts, p \in ProposalIds : acceptInitialOwnership(a, p)
          \/ \E a \in Accounts, p \in ProposalIds : rejectInitialOwnership(a, p)
          \/ \E p \in ProposalIds : expireInitialOwnership(p)
          \/ \E r \in Accounts, s, parent \in SubjectIds, g \in Pack .. Cell :
                registerComponent(r, s, parent, g)
          \/ \E m \in Marketplaces, b \in SubjectIds : lockForMarketplace(m, b)
          \/ \E m \in Marketplaces, b \in SubjectIds, org \in OrganizationIds :
                /\ Len(ownershipTransitions[b]) < MaxTransitions
                /\ transferRecordedOwnership(m, b, org)
          \/ \E m \in Marketplaces, b \in SubjectIds : unlockForMarketplace(m, b)

RegistrySpec == RegistryInit /\ [][RegistryNext]_<<now, registryVars>>

-----------------------------------------------------------------------------
(* PROPERTIES                                                              *)

(* Competing proposals for one battery, or a proposal and a direct         *)
(* registration, never both take effect: an accepted proposal is the only  *)
(* one accepted for its battery and its owner is the first one recorded.   *)
OneInitialOwner ==
    \A p \in ProposalIds :
        LET proposal == initialOwnershipProposals[p] IN
        proposal.status = "Accepted" =>
            /\ ownershipTransitions[proposal.batteryId][1].newOwner = proposal.owner
            /\ \A q \in ProposalIds \ {p} :
                  ~ (/\ initialOwnershipProposals[q].status = "Accepted"
                     /\ initialOwnershipProposals[q].batteryId = proposal.batteryId)

(* The ownership history of a battery (_recordOwnershipTransition) is one  *)
(* unbroken chain: it starts at the zero owner, each entry takes over from *)
(* the owner the previous one recorded, and the last one is the owner the  *)
(* registry reports.  A battery without history is not registered, and     *)
(* competing registrations of one never both take effect.                  *)
OwnershipHistoryChains ==
    /\ OneInitialOwner
    /\ \A b \in SubjectIds :
        LET h == ownershipTransitions[b] IN
        /\ batteries[b].registered <=> h # <<>>
        /\ h # <<>> => /\ h[1].previousOwner = Zero
                       /\ h[Len(h)].newOwner = batteries[b].recordedOwner
        /\ \A i \in 1 .. Len(h) - 1 :
              /\ h[i + 1].previousOwner = h[i].newOwner
              /\ h[i].recordedAt <= h[i + 1].recordedAt

(* Whatever is registered, and in whatever order, the root that a module   *)
(* or cell inherited from its parent (registerComponent) is a registered   *)
(* battery and is itself a pack.                                           *)
RootsAreRegisteredPacks ==
    \A s \in SubjectIds :
        subjects[s].registered =>
            LET root == subjects[s].rootBatteryId IN
            /\ root \in SubjectIds
            /\ batteries[root].registered
            /\ subjects[root].granularity = Pack
            /\ subjects[root].rootBatteryId = root

(* Recorded owners change only through a marketplace that was allowed and  *)
(* held the lock, and the transfer releases the lock in the same step      *)
(* (transferRecordedOwnership); history entries are never rewritten.       *)
OwnershipChangesUnderLock ==
    [][\A b \in SubjectIds :
          LET old == ownershipTransitions[b]
              new == ownershipTransitions'[b] IN
          /\ Len(new) >= Len(old) /\ SubSeq(new, 1, Len(old)) = old
          /\ batteries[b].registered /\ new # old =>
                /\ new[Len(new)].marketplace = batteries[b].marketplaceLock
                /\ batteries[b].marketplaceLock \in marketplaces
                /\ batteries'[b].marketplaceLock = Zero]_<<now, registryVars>>

(* README.md calls the registry's battery identities stable: a registered  *)
(* subject would keep its parent, root and granularity.                    *)
SubjectIdentityStable ==
    [][\A s \in SubjectIds : subjects[s].registered => subjects'[s] = subjects[s]]_<<now, registryVars>>
============================================================================
