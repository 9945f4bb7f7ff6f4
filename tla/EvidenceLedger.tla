---------------------------- MODULE EvidenceLedger ----------------------------
(***************************************************************************)
(* src/evidence/evidence-ledger.ts: the off-chain record of claims, their  *)
(* verifications and disputes.  Every method is synchronous, so a call is  *)
(* one step, and a call that throws changes nothing: each method checks    *)
(* before it writes.  A payload is what the schemas let through: claim,    *)
(* version and organization.                                               *)
(***************************************************************************)
EXTENDS Naturals, Sequences, SequencesExt

CONSTANTS ClaimIds, OrganizationIds, VerificationKeys, DisputeIds,
          MaxVersion             \* bound on the versions of a claim

VARIABLES versions, assertions, disputes

ledgerVars == <<versions, assertions, disputes>>

Versions == 1 .. MaxVersion
Absent == [status |-> "none"]

Evidence == [claim_version : Versions, issuer : OrganizationIds,
             status : {"active", "revoked", "superseded"}]
Assertion == [claim : ClaimIds, version : Versions, verifier : OrganizationIds,
              status : {"active", "withdrawn"}]
Dispute == [claim : ClaimIds, version : Versions,
            status : {"open", "withdrawn", "referred-external", "closed-by-supersession"}]

LedgerTypeOK ==
    /\ \A c \in ClaimIds : versions[c] \in BoundedSeq(Evidence, MaxVersion)
    /\ assertions \in [VerificationKeys -> Assertion \cup {Absent}]
    /\ disputes \in [DisputeIds -> Dispute \cup {Absent}]

LedgerInit ==
    /\ versions = [c \in ClaimIds |-> <<>>]
    /\ assertions = [k \in VerificationKeys |-> Absent]
    /\ disputes = [d \in DisputeIds |-> Absent]

-----------------------------------------------------------------------------
(* The first record with that version number, as Array.find returns it.    *)
version(claim, n) ==
    SelectSeq(versions[claim], LAMBDA r : r.claim_version = n)

IsActive(claim, n) == version(claim, n) # <<>> /\ version(claim, n)[1].status = "active"

closeDisputes(claim, n, status) ==
    disputes' = [d \in DisputeIds |->
        IF disputes[d].status = "open" /\ disputes[d].claim = claim /\ disputes[d].version = n
        THEN [disputes[d] EXCEPT !.status = status] ELSE disputes[d]]

activate(claim, n, issuer, expectedPriorVersion) ==
    LET prior == Len(versions[claim])
        record == [claim_version |-> n, issuer |-> issuer, status |-> "active"] IN
    /\ expectedPriorVersion = IF prior = 0 THEN 0 ELSE versions[claim][prior].claim_version
    /\ n = expectedPriorVersion + 1
    /\ \A i \in 1 .. prior : versions[claim][i].claim_version # n
    /\ \/ /\ prior = 0
          /\ versions' = [versions EXCEPT ![claim] = <<record>>]
          /\ UNCHANGED disputes
       \/ /\ prior # 0
          /\ versions[claim][prior].status = "active"
          /\ versions' = [versions EXCEPT ![claim] =
                             Append([@ EXCEPT ![prior].status = "superseded"], record)]
          /\ closeDisputes(claim, expectedPriorVersion, "closed-by-supersession")
    /\ UNCHANGED assertions

revoke(claim, n) ==
    /\ IsActive(claim, n)
    /\ versions' = [versions EXCEPT ![claim] =
          [i \in DOMAIN @ |-> IF @[i].claim_version = n THEN [@[i] EXCEPT !.status = "revoked"] ELSE @[i]]]
    /\ closeDisputes(claim, n, "referred-external")
    /\ UNCHANGED assertions

addVerification(k, claim, n, verifier) ==
    /\ IsActive(claim, n)
    /\ version(claim, n)[1].issuer # verifier
    /\ assertions[k] = Absent
    /\ assertions' = [assertions EXCEPT ![k] =
          [claim |-> claim, version |-> n, verifier |-> verifier, status |-> "active"]]
    /\ UNCHANGED <<versions, disputes>>

withdrawVerification(k) ==
    /\ assertions[k].status = "active"
    /\ assertions' = [assertions EXCEPT ![k].status = "withdrawn"]
    /\ UNCHANGED <<versions, disputes>>

openDispute(d, claim, n) ==
    /\ disputes[d] = Absent
    /\ IsActive(claim, n)
    /\ disputes' = [disputes EXCEPT ![d] = [claim |-> claim, version |-> n, status |-> "open"]]
    /\ UNCHANGED <<versions, assertions>>

changeDispute(d, state) ==
    /\ disputes[d].status = "open"
    /\ disputes' = [disputes EXCEPT ![d].status = state]
    /\ UNCHANGED <<versions, assertions>>

LedgerNext ==
    \/ \E c \in ClaimIds, n \in Versions, o \in OrganizationIds, e \in 0 .. MaxVersion : activate(c, n, o, e)
    \/ \E c \in ClaimIds, n \in Versions : revoke(c, n)
    \/ \E k \in VerificationKeys, c \in ClaimIds, n \in Versions, o \in OrganizationIds :
          addVerification(k, c, n, o)
    \/ \E k \in VerificationKeys : withdrawVerification(k)
    \/ \E d \in DisputeIds, c \in ClaimIds, n \in Versions : openDispute(d, c, n)
    \/ \E d \in DisputeIds, state \in {"referred-external", "withdrawn"} : changeDispute(d, state)

LedgerSpec == LedgerInit /\ [][LedgerNext]_ledgerVars

-----------------------------------------------------------------------------
(* No dispute stays open on a version that is no longer active: activate   *)
(* and revoke close those of the version they end, and openDispute only    *)
(* accepts the active version.                                             *)
OpenDisputesAreLive ==
    \A d \in DisputeIds :
        disputes[d].status = "open" => IsActive(disputes[d].claim, disputes[d].version)

Lifecycle == INSTANCE EvidenceLifecycle WITH
    Claims <- ClaimIds, Verifications <- VerificationKeys, Disputes <- DisputeIds,
    Organizations <- OrganizationIds,
    history <- [c \in ClaimIds |-> [i \in DOMAIN versions[c] |->
                   [issuer |-> versions[c][i].issuer, status |-> versions[c][i].status]]],
    verified <- assertions, disputed <- disputes

(* The ledger implements the lifecycle the contract implements: though     *)
(* revoke asks for any active version and finds versions by number, only   *)
(* the last version is ever revoked, no version is skipped or revived, and *)
(* verifications and disputes refer to the version they were made about.   *)
ImplementsLifecycle == Lifecycle!LifecycleSpec
===============================================================================
