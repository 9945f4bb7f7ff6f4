------------------------------ MODULE MCRecords ------------------------------
(* The records of evidence, each on its own while the others rest: the      *)
(* contract, the off-chain ledger, the database, the view projected from    *)
(* the chain's events, and the chain of audit batches.                      *)
EXTENDS EvidenceRegistry, AuditAnchor, TLC

CONSTANTS issuer, colleague, verifier, issuerOrg, verifierOrg, x, y, z

VARIABLES
    ledgerVersions, ledgerAssertions, ledgerDisputes,
    repositoryClaims, repositoryEvidence, repositoryTransactions,
    projectedBlocks, projectedBranch, projectedState

Grant(account, org, capability) ==
    [account |-> account, organization |-> org, credential |-> account,
     capability |-> capability, scope |-> AnyScope]

(* A colleague of the issuer may verify too, though not this claim.         *)
MCGrants ==
    {Grant(issuer, issuerOrg, "evidence.issue"),
     Grant(colleague, issuerOrg, "verification.corroborate"),
     Grant(verifier, verifierOrg, "verification.certify"),
     Grant(verifier, verifierOrg, "dispute.open-evidence")}

Link(id, bundleType) == [bundleKey |-> id, domainKey |-> id, bundleType |-> bundleType, payload |-> id]

MCLinks == {Link(x, "evidence"), Link(y, "verification"), Link(z, "dispute")}

Event(kind, version) == [claimId |-> "claim", kind |-> kind, version |-> version]
Block(hash, parent, number, events) ==
    [hash |-> hash, parentHash |-> parent, number |-> number, events |-> events]

(* Two branches, a damaged copy, a gap, a second genesis and an orphan.     *)
MCBlocks ==
    {Block("g", "", 0, <<>>),
     Block("a1", "g", 1, <<Event("activated", 1)>>),
     Block("a2", "a1", 2, <<Event("superseded", 1), Event("activated", 2)>>),
     Block("a3", "a2", 3, <<Event("revoked", 2)>>),
     Block("b1", "g", 1, <<Event("activated", 1), Event("revoked", 1)>>),
     Block("b2", "b1", 2, <<>>),
     Block("b2", "g", 1, <<Event("activated", 1)>>),
     Block("c3", "b1", 3, <<>>),
     Block("h", "g", 0, <<Event("activated", 1)>>),
     Block("d1", "missing", 1, <<>>)}

Ledger == INSTANCE EvidenceLedger WITH
    versions <- ledgerVersions, assertions <- ledgerAssertions, disputes <- ledgerDisputes,
    ClaimIds <- {"c1", "c2"}, OrganizationIds <- {"o1", "o2"}, VerificationKeys <- {"v1"},
    DisputeIds <- {"d1"}, MaxVersion <- 2

Repository == INSTANCE PostgresEvidenceRepository WITH
    claims <- repositoryClaims, evidenceVersions <- repositoryEvidence,
    transactions <- repositoryTransactions,
    ClaimIds <- {"c1", "c2"}, EvidenceIds <- {"e1", "e2"}, OrganizationIds <- {"o1"},
    TransactionIds <- {"t1", "t2"}, MaxVersion <- 2

Projector == INSTANCE CanonicalProjector WITH
    blocks <- projectedBlocks, canonical <- projectedBranch, state <- projectedState,
    Blocks <- MCBlocks, ClaimIds <- {"claim"}, ConfirmationDepth <- 1

RecordsInit ==
    EvidenceInit /\ Ledger!LedgerInit /\ Repository!RepositoryInit
        /\ Projector!ProjectorInit /\ AnchorInit

EvidenceRests == EvidenceInit /\ UNCHANGED evidenceVars
LedgerRests == Ledger!LedgerInit /\ UNCHANGED <<ledgerVersions, ledgerAssertions, ledgerDisputes>>
RepositoryRests ==
    Repository!RepositoryInit /\ UNCHANGED <<repositoryClaims, repositoryEvidence, repositoryTransactions>>
ProjectorRests == Projector!ProjectorInit /\ UNCHANGED <<projectedBlocks, projectedBranch, projectedState>>
AnchorRests == AnchorInit /\ UNCHANGED anchorVars

RecordsNext ==
    \/ EvidenceNext /\ LedgerRests /\ RepositoryRests /\ ProjectorRests /\ AnchorRests
    \/ Ledger!LedgerNext /\ EvidenceRests /\ RepositoryRests /\ ProjectorRests /\ AnchorRests
    \/ Repository!RepositoryNext /\ EvidenceRests /\ LedgerRests /\ ProjectorRests /\ AnchorRests
    \/ Projector!ProjectorNext /\ EvidenceRests /\ LedgerRests /\ RepositoryRests /\ AnchorRests
    \/ AnchorNext /\ EvidenceRests /\ LedgerRests /\ RepositoryRests /\ ProjectorRests

RecordsSpec ==
    RecordsInit /\ [][RecordsNext]_<<evidenceVars, anchorVars, ledgerVersions, ledgerAssertions, ledgerDisputes,
        repositoryClaims, repositoryEvidence, repositoryTransactions,
        projectedBlocks, projectedBranch, projectedState>>

(* The contract, the ledger and the database keep the history of a claim    *)
(* by the same rules: each implements EvidenceLifecycle                     *)
(* (EvidenceRegistry.sol, evidence-ledger.ts, postgres-evidence-            *)
(* repository.ts).                                                          *)
EveryRecordImplementsLifecycle ==
    ImplementsLifecycle /\ Ledger!ImplementsLifecycle /\ Repository!ImplementsLifecycle

(* closeDisputes of the ledger, activate and revoke of the database: no     *)
(* dispute stays open on a version that has ended, and the two tables move  *)
(* together (OpenDisputesAreLive of EvidenceLedger, TablesAgree of          *)
(* PostgresEvidenceRepository).                                             *)
OffChainRecordsAgree == Ledger!OpenDisputesAreLive /\ Repository!TablesAgree

(* selectHead: see ProjectionIsReplay of CanonicalProjector.                *)
ProjectionIsReplay == Projector!ProjectionIsReplay
===============================================================================
