--------------------------- MODULE EvidenceRegistry ---------------------------
(***************************************************************************)
(* contracts/EvidenceRegistry.sol over the promises of the two registries  *)
(* it asks: links and critical behave as ConfirmedLinks says (which        *)
(* ProtectedBundleRegistry implements), and authority is the set of grants *)
(* in force, which governance and time change between transactions         *)
(* (AuthorityProfileRegistry).  A grant joins what isCredentialActive and  *)
(* hasCapability are asked together: account, organization, credential,    *)
(* capability and claim.  A transaction is one step; a revert is no step.  *)
(***************************************************************************)
EXTENDS ConfirmedLinks, Naturals, FiniteSets

CONSTANTS
    ClaimKeys, AssertionKeys, DisputeKeys,
    Grants,             \* [account, organization, credential, capability, scope]
    AnyScope,           \* the zero scope: the grant covers every claim
    MaxVersion          \* bound on the versions of a claim

ASSUME EvidenceAssumption ==
    /\ MaxVersion \in Nat \ {0}
    /\ \A l \in PossibleLinks : l.bundleType \in {"evidence", "verification", "dispute"}

VARIABLES authority, currentVersion, evidenceVersions, assertions, disputes

recordVars == <<currentVersion, evidenceVersions, assertions, disputes>>
evidenceVars == <<links, critical, authority, recordVars>>

Versions == 1 .. MaxVersion
Accounts == {g.account : g \in Grants}
Organizations == {g.organization : g \in Grants}
Credentials == {g.credential : g \in Grants}

AssertionType == {"Corroboration", "Certification"}
DisputeStatus == {"None", "Open", "Withdrawn", "ClosedBySupersession",
                  "ClosedByAssertionWithdrawal", "ReferredExternal"}

EvidenceVersion ==
    [link : PossibleLinks, issuerOrganizationId : Organizations, issuerCredentialId : Credentials,
     issuer : Accounts, status : {"Active", "Superseded", "Revoked"}]
VerificationAssertion ==
    [claimKey : ClaimKeys, claimVersion : Versions, link : PossibleLinks,
     verifierOrganizationId : Organizations, verifierCredentialId : Credentials,
     verifier : Accounts, assertionType : AssertionType, status : {"Active", "Withdrawn"}]
Dispute ==
    [claimKey : ClaimKeys, claimVersion : Versions, link : PossibleLinks,
     openerOrganizationId : Organizations, openerCredentialId : Credentials,
     opener : Accounts, status : DisputeStatus \ {"None"}]

Unset == [status |-> "Unset"]

EvidenceTypeOK ==
    /\ authority \subseteq Grants
    /\ critical \subseteq links /\ links \subseteq PossibleLinks
    /\ currentVersion \in [ClaimKeys -> 0 .. MaxVersion]
    /\ evidenceVersions \in [ClaimKeys -> [Versions -> EvidenceVersion \cup {Unset}]]
    /\ assertions \in [AssertionKeys -> VerificationAssertion \cup {Unset}]
    /\ disputes \in [DisputeKeys -> Dispute \cup {Unset}]

EvidenceInit ==
    /\ LinksInit
    /\ authority = {}
    /\ currentVersion = [c \in ClaimKeys |-> 0]
    /\ evidenceVersions = [c \in ClaimKeys |-> [v \in Versions |-> Unset]]
    /\ assertions = [a \in AssertionKeys |-> Unset]
    /\ disputes = [d \in DisputeKeys |-> Unset]

-----------------------------------------------------------------------------
(* g is the grant the sender relies on: g.account is msg.sender.           *)
Authorized(g, capability, claim) ==
    /\ g \in authority
    /\ g.capability = capability
    /\ g.scope \in {claim, AnyScope}

ConfirmedLink(link, bundleType, requireDecisionCritical) ==
    /\ link \in links
    /\ link.bundleType = bundleType
    /\ requireDecisionCritical => link \in critical

NewVersion(g, link) ==
    [link |-> link, issuerOrganizationId |-> g.organization, issuerCredentialId |-> g.credential,
     issuer |-> g.account, status |-> "Active"]

activateEvidence(g, claim, v, expectedPriorVersion, link) ==
    LET prior == currentVersion[claim] IN
    /\ Authorized(g, "evidence.issue", claim)
    /\ ConfirmedLink(link, "evidence", FALSE)
    /\ evidenceVersions[claim][v].status = "Unset"
    /\ prior = expectedPriorVersion /\ v = prior + 1
    /\ prior # 0 => evidenceVersions[claim][prior].status = "Active"
    /\ evidenceVersions' = [evidenceVersions EXCEPT ![claim] =
          [w \in Versions |-> IF w = v THEN NewVersion(g, link)
                              ELSE IF w = prior THEN [@[w] EXCEPT !.status = "Superseded"]
                              ELSE @[w]]]
    /\ currentVersion' = [currentVersion EXCEPT ![claim] = v]
    /\ UNCHANGED <<assertions, disputes>>

revokeEvidence(sender, claim, v) ==
    /\ evidenceVersions[claim][v].status = "Active"
    /\ currentVersion[claim] = v
    /\ evidenceVersions[claim][v].issuer = sender
    /\ evidenceVersions' = [evidenceVersions EXCEPT ![claim][v].status = "Revoked"]
    /\ UNCHANGED <<currentVersion, assertions, disputes>>

CapabilityFor(assertionType) ==
    IF assertionType = "Corroboration" THEN "verification.corroborate" ELSE "verification.certify"

createVerificationAssertion(g, a, claim, v, link, assertionType) ==
    /\ evidenceVersions[claim][v].status = "Active"
    /\ assertions[a].status = "Unset"
    /\ evidenceVersions[claim][v].issuerOrganizationId # g.organization
    /\ Authorized(g, CapabilityFor(assertionType), claim)
    /\ ConfirmedLink(link, "verification", TRUE)
    /\ assertions' = [assertions EXCEPT ![a] =
          [claimKey |-> claim, claimVersion |-> v, link |-> link,
           verifierOrganizationId |-> g.organization, verifierCredentialId |-> g.credential,
           verifier |-> g.account, assertionType |-> assertionType, status |-> "Active"]]
    /\ UNCHANGED <<currentVersion, evidenceVersions, disputes>>

withdrawVerificationAssertion(sender, a) ==
    /\ assertions[a].status = "Active"
    /\ assertions[a].verifier = sender
    /\ assertions' = [assertions EXCEPT ![a].status = "Withdrawn"]
    /\ UNCHANGED <<currentVersion, evidenceVersions, disputes>>

Mutant_disputeSupplementary(g, d, claim, v, link) ==
    /\ disputes[d].status = "Unset"
    /\ evidenceVersions[claim][v].status = "Active"
    /\ Authorized(g, "dispute.open-evidence", claim)
    /\ ConfirmedLink(link, "dispute", FALSE)
    /\ disputes' = [disputes EXCEPT ![d] =
          [claimKey |-> claim, claimVersion |-> v, link |-> link,
           openerOrganizationId |-> g.organization, openerCredentialId |-> g.credential,
           opener |-> g.account, status |-> "Open"]]
    /\ UNCHANGED <<currentVersion, evidenceVersions, assertions>>

openEvidenceDispute(g, d, claim, v, link) ==
    /\ disputes[d].status = "Unset"
    /\ evidenceVersions[claim][v].status = "Active"
    /\ Authorized(g, "dispute.open-evidence", claim)
    /\ ConfirmedLink(link, "dispute", TRUE)
    /\ disputes' = [disputes EXCEPT ![d] =
          [claimKey |-> claim, claimVersion |-> v, link |-> link,
           openerOrganizationId |-> g.organization, openerCredentialId |-> g.credential,
           opener |-> g.account, status |-> "Open"]]
    /\ UNCHANGED <<currentVersion, evidenceVersions, assertions>>

changeEvidenceDisputeState(sender, d, newStatus) ==
    /\ disputes[d].status = "Open"
    /\ newStatus \in {"Withdrawn", "ReferredExternal"}
    /\ disputes[d].opener = sender
    /\ disputes' = [disputes EXCEPT ![d].status = newStatus]
    /\ UNCHANGED <<currentVersion, evidenceVersions, assertions>>

closeEvidenceDisputeForLifecycle(sender, d) ==
    /\ disputes[d].status = "Open"
    /\ LET record == evidenceVersions[disputes[d].claimKey][disputes[d].claimVersion] IN
       /\ record.issuer = sender
       /\ \/ /\ record.status = "Superseded"
             /\ disputes' = [disputes EXCEPT ![d].status = "ClosedBySupersession"]
          \/ /\ record.status = "Revoked"
             /\ disputes' = [disputes EXCEPT ![d].status = "ReferredExternal"]
    /\ UNCHANGED <<currentVersion, evidenceVersions, assertions>>

RecordStep ==
    \/ \E claim \in ClaimKeys, v \in Versions :
          \/ \E sender \in Accounts : revokeEvidence(sender, claim, v)
          \/ \E g \in Grants, link \in PossibleLinks :
                \/ \E expected \in 0 .. MaxVersion : activateEvidence(g, claim, v, expected, link)
                \/ \E a \in AssertionKeys, t \in AssertionType :
                      createVerificationAssertion(g, a, claim, v, link, t)
                \/ \E d \in DisputeKeys : openEvidenceDispute(g, d, claim, v, link)
    \/ \E sender \in Accounts :
          \/ \E a \in AssertionKeys : withdrawVerificationAssertion(sender, a)
          \/ \E d \in DisputeKeys :
                \/ \E status \in DisputeStatus : changeEvidenceDisputeState(sender, d, status)
                \/ closeEvidenceDisputeForLifecycle(sender, d)

(* Governance suspends, revokes and restores; time starts and ends grants. *)
AuthorityChanges == authority' \in SUBSET Grants

EvidenceNext ==
    \/ RecordStep /\ UNCHANGED <<links, critical, authority>>
    \/ AuthorityChanges /\ UNCHANGED <<links, critical, recordVars>>
    \/ LinksNext /\ UNCHANGED <<authority, recordVars>>

EvidenceSpec == EvidenceInit /\ [][EvidenceNext]_evidenceVars

-----------------------------------------------------------------------------
(* Every record names a bundle that is, and stays, confirmed for its kind, *)
(* and decision-critical for verifications and disputes                    *)
(* (createVerificationAssertion, openEvidenceDispute).                     *)
RecordsAreBacked ==
    /\ \A c \in ClaimKeys, v \in Versions : evidenceVersions[c][v] # Unset =>
          ConfirmedLink(evidenceVersions[c][v].link, "evidence", FALSE)
    /\ \A a \in AssertionKeys : assertions[a] # Unset =>
          ConfirmedLink(assertions[a].link, "verification", TRUE)
    /\ \A d \in DisputeKeys : disputes[d] # Unset => ConfirmedLink(disputes[d].link, "dispute", TRUE)

StatusName ==
    [Unset |-> "none", Active |-> "active", Superseded |-> "superseded", Revoked |-> "revoked",
     Withdrawn |-> "withdrawn", Open |-> "open", ReferredExternal |-> "referred-external",
     ClosedBySupersession |-> "closed-by-supersession"]

(* The records as EvidenceLifecycle has them.                              *)
RecordedHistory ==
    [c \in ClaimKeys |-> [v \in 1 .. currentVersion[c] |->
        [issuer |-> evidenceVersions[c][v].issuerOrganizationId,
         status |-> StatusName[evidenceVersions[c][v].status]]]]

RecordedVerifications ==
    [a \in AssertionKeys |->
        IF assertions[a] = Unset THEN [status |-> "none"]
        ELSE [claim |-> assertions[a].claimKey, version |-> assertions[a].claimVersion,
              verifier |-> assertions[a].verifierOrganizationId,
              status |-> StatusName[assertions[a].status]]]

RecordedDisputes ==
    [d \in DisputeKeys |->
        IF disputes[d] = Unset THEN [status |-> "none"]
        ELSE [claim |-> disputes[d].claimKey, version |-> disputes[d].claimVersion,
              status |-> StatusName[disputes[d].status]]]

Lifecycle == INSTANCE EvidenceLifecycle WITH
    Claims <- ClaimKeys, Verifications <- AssertionKeys, Disputes <- DisputeKeys,
    history <- RecordedHistory, verified <- RecordedVerifications, disputed <- RecordedDisputes

(* The contract implements EvidenceLifecycle, as the off-chain ledger      *)
(* does: a revoked claim gets no further version, disputes close only for  *)
(* the reason their version gives, and verifications are never rewritten.  *)
ImplementsLifecycle == Lifecycle!LifecycleSpec
===============================================================================
