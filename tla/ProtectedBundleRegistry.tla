----------------------- MODULE ProtectedBundleRegistry -----------------------
(***************************************************************************)
(* contracts/ProtectedBundleRegistry.sol: the on-chain commitments to      *)
(* protected bundles, the receipts of their replicas, and the promotion of *)
(* a bundle to decision-critical.  It asks AuthorityProfileRegistry, which *)
(* governance changes at any time, about organizations and credentials.    *)
(* A transaction is one step; one that reverts is not enabled.             *)
(***************************************************************************)
EXTENDS AuthorityProfileRegistry, FiniteSets

CONSTANTS
    BundleKeys, DomainKeys, BundleTypes, PayloadCommitments,
    Envelopes,               \* content envelope digest together with stored length
    Attestations,            \* the domain attestations their signers have signed
    ReceiptNonces,
    deployer                 \* bootstrapGovernance, the account that deploys

ASSUME BundleAssumption ==
    /\ Zero \notin BundleKeys \cup DomainKeys
    /\ deployer \in Accounts
    /\ \A a \in Attestations : a.bundleId \in BundleKeys /\ a.domainResourceId \in DomainKeys
    /\ \A a \in Attestations :
          a.bundleType \in BundleTypes /\ a.domainPayloadCommitment \in PayloadCommitments

VARIABLES
    bootstrapClosed, commitments, bundleForDomain,
    consumedReceiptNonces, verifiedReplicaReceipt, consumedAttestationNonces

bundleVars == <<bootstrapClosed, commitments, bundleForDomain,
                consumedReceiptNonces, verifiedReplicaReceipt, consumedAttestationNonces>>

CriticalityClass == {"Supplementary", "DecisionCritical"}

(* A Commitment; replicaPolicyDigest is stored and never read.             *)
Commitment ==
    [domainKey : DomainKeys, controllerOrganizationId : OrganizationIds, controller : Accounts,
     bundleType : BundleTypes, domainPayloadCommitment : PayloadCommitments,
     envelope : Envelopes, criticalityClass : CriticalityClass, confirmed : {TRUE}]

NoCommitment == [confirmed |-> FALSE]

Confirmed == {k \in BundleKeys : commitments[k].confirmed}

BundleTypeOK ==
    /\ AuthorityTypeOK
    /\ bootstrapClosed \in BOOLEAN
    /\ commitments \in [BundleKeys -> Commitment \cup {NoCommitment}]
    /\ bundleForDomain \in [DomainKeys -> BundleKeys \cup {Zero}]
    /\ consumedReceiptNonces \subseteq CredentialIds \X ReceiptNonces
    /\ verifiedReplicaReceipt \subseteq BundleKeys
    /\ consumedAttestationNonces \subseteq {<<a.signerCredentialId, a.nonce>> : a \in Attestations}

BundleInit ==
    /\ bootstrapClosed = FALSE
    /\ commitments = [k \in BundleKeys |-> NoCommitment]
    /\ bundleForDomain = [d \in DomainKeys |-> Zero]
    /\ consumedReceiptNonces = {}
    /\ verifiedReplicaReceipt = {}
    /\ consumedAttestationNonces = {}

-----------------------------------------------------------------------------
(* Every transaction here leaves the authority registry and the clock.     *)
closeBootstrap(sender) ==
    /\ sender = deployer
    /\ ~bootstrapClosed
    /\ bootstrapClosed' = TRUE
    /\ UNCHANGED <<commitments, bundleForDomain, consumedReceiptNonces,
                   verifiedReplicaReceipt, consumedAttestationNonces>>

Mutant_commitOverwrites(sender, bundle, domain, org, bundleType, payload, envelope) ==
    /\ isOrganizationActive(org)
    /\ bundleForDomain[domain] = Zero
    /\ commitments' = [commitments EXCEPT ![bundle] =
            [domainKey |-> domain, controllerOrganizationId |-> org, controller |-> sender,
             bundleType |-> bundleType, domainPayloadCommitment |-> payload,
             envelope |-> envelope, criticalityClass |-> "Supplementary", confirmed |-> TRUE]]
    /\ bundleForDomain' = [bundleForDomain EXCEPT ![domain] = bundle]

(* An initial class of DecisionCritical reverts, so the class is fixed.    *)
_commitProtectedBundle(sender, bundle, domain, org, bundleType, payload, envelope) ==
    /\ isOrganizationActive(org)
    /\ ~commitments[bundle].confirmed
    /\ bundleForDomain[domain] = Zero
    /\ commitments' = [commitments EXCEPT ![bundle] =
            [domainKey |-> domain, controllerOrganizationId |-> org, controller |-> sender,
             bundleType |-> bundleType, domainPayloadCommitment |-> payload,
             envelope |-> envelope, criticalityClass |-> "Supplementary", confirmed |-> TRUE]]
    /\ bundleForDomain' = [bundleForDomain EXCEPT ![domain] = bundle]

commitProtectedBundle(sender, bundle, domain, org, bundleType, payload, envelope) ==
    /\ sender = deployer
    /\ ~bootstrapClosed
    /\ _commitProtectedBundle(sender, bundle, domain, org, bundleType, payload, envelope)
    /\ UNCHANGED <<bootstrapClosed, consumedReceiptNonces, verifiedReplicaReceipt,
                   consumedAttestationNonces>>

(* The window of an attestation is closed at both ends; signer is the      *)
(* account ECDSA.recover finds in its signature.                           *)
InAttestationWindow(a) ==
    /\ a.bundleVersion # 0
    /\ a.domainResourceVersion # 0
    /\ a.issuedAt < a.expiresAt
    /\ a.issuedAt <= now
    /\ now <= a.expiresAt

Mutant_nonceNotConsumed(sender, a, org, credential, envelope) ==
    /\ InAttestationWindow(a)
    /\ isCredentialActive(a.signerCredentialId, a.signerOrgId, a.signer)
    /\ isCredentialActive(credential, org, sender)
    /\ <<a.signerCredentialId, a.nonce>> \notin consumedAttestationNonces
    /\ _commitProtectedBundle(sender, a.bundleId, a.domainResourceId, org, a.bundleType,
                              a.domainPayloadCommitment, envelope)
    /\ UNCHANGED <<bootstrapClosed, consumedReceiptNonces, verifiedReplicaReceipt,
                   consumedAttestationNonces>>

commitAttestedProtectedBundle(sender, a, org, credential, envelope) ==
    /\ InAttestationWindow(a)
    /\ isCredentialActive(a.signerCredentialId, a.signerOrgId, a.signer)
    /\ isCredentialActive(credential, org, sender)
    /\ <<a.signerCredentialId, a.nonce>> \notin consumedAttestationNonces
    /\ consumedAttestationNonces' =
          consumedAttestationNonces \cup {<<a.signerCredentialId, a.nonce>>}
    /\ _commitProtectedBundle(sender, a.bundleId, a.domainResourceId, org, a.bundleType,
                              a.domainPayloadCommitment, envelope)
    /\ UNCHANGED <<bootstrapClosed, consumedReceiptNonces, verifiedReplicaReceipt>>

promoteToDecisionCritical(sender, bundle) ==
    /\ commitments[bundle].confirmed
    /\ commitments[bundle].controller = sender
    /\ commitments[bundle].criticalityClass # "DecisionCritical"
    /\ bundle \in verifiedReplicaReceipt
    /\ commitments' = [commitments EXCEPT ![bundle].criticalityClass = "DecisionCritical"]
    /\ UNCHANGED <<bootstrapClosed, bundleForDomain, consumedReceiptNonces,
                   verifiedReplicaReceipt, consumedAttestationNonces>>

submitReplicaReceipt(sender, bundle, org, credential, observed, nonce) ==
    /\ commitments[bundle].confirmed
    /\ observed = commitments[bundle].envelope
    /\ isReplicaAttestationCredential(credential, org, sender)
    /\ <<credential, nonce>> \notin consumedReceiptNonces
    /\ consumedReceiptNonces' = consumedReceiptNonces \cup {<<credential, nonce>>}
    /\ verifiedReplicaReceipt' = verifiedReplicaReceipt \cup {bundle}
    /\ UNCHANGED <<bootstrapClosed, commitments, bundleForDomain, consumedAttestationNonces>>

isConfirmedLink(bundle, domain, bundleType, payload, requireDecisionCritical) ==
    LET c == commitments[bundle] IN
    /\ c.confirmed
    /\ c.domainKey = domain
    /\ c.bundleType = bundleType
    /\ c.domainPayloadCommitment = payload
    /\ requireDecisionCritical => c.criticalityClass = "DecisionCritical"

-----------------------------------------------------------------------------
BundleStep ==
    \E sender \in Accounts :
        \/ closeBootstrap(sender)
        \/ \E bundle \in BundleKeys, domain \in DomainKeys, org \in OrganizationIds,
              bundleType \in BundleTypes, payload \in PayloadCommitments, envelope \in Envelopes :
                 commitProtectedBundle(sender, bundle, domain, org, bundleType, payload, envelope)
        \/ \E a \in Attestations, org \in OrganizationIds, credential \in CredentialIds,
              envelope \in Envelopes :
                 commitAttestedProtectedBundle(sender, a, org, credential, envelope)
        \/ \E bundle \in BundleKeys : promoteToDecisionCritical(sender, bundle)
        \/ \E bundle \in BundleKeys, org \in OrganizationIds, credential \in CredentialIds,
              observed \in Envelopes, nonce \in ReceiptNonces :
                 submitReplicaReceipt(sender, bundle, org, credential, observed, nonce)

BundleNext ==
    \/ BundleStep /\ UNCHANGED <<now, authorityVars>>
    \/ AuthorityNext /\ UNCHANGED bundleVars

BundleRegistryInit == AuthorityInit /\ BundleInit

BundleSpec == BundleRegistryInit /\ [][BundleNext]_<<now, authorityVars, bundleVars>>

-----------------------------------------------------------------------------
(* commitments and bundleForDomain are two views of one matching: a bundle *)
(* is confirmed for a domain key exactly when the domain key leads back to *)
(* it, so no domain record has two bundles and none leads nowhere          *)
(* (_commitProtectedBundle writes both mappings, promotion only one).      *)
BundleDomainMatching ==
    \A k \in BundleKeys, d \in DomainKeys :
        bundleForDomain[d] = k <=> (commitments[k].confirmed /\ commitments[k].domainKey = d)

(* A nonce of a replica custodian vouches for one bundle: there are never  *)
(* more receipted bundles than spent receipt nonces, and only receipted    *)
(* bundles become decision-critical (submitReplicaReceipt,                 *)
(* promoteToDecisionCritical).                                             *)
OneReceiptNoncePerBundle ==
    /\ Cardinality(verifiedReplicaReceipt) <= Cardinality(consumedReceiptNonces)
    /\ \A k \in Confirmed :
          commitments[k].criticalityClass = "DecisionCritical" => k \in verifiedReplicaReceipt

(* Every confirmed bundle is accounted for: the spent attestation nonces   *)
(* are those of distinct bundles, each of which says what its signer       *)
(* signed, and every other bundle was committed by the deployer during the *)
(* bootstrap (commitAttestedProtectedBundle, closeBootstrap); receipts are *)
(* accounted for by nonces of their own, and bundles and domain records by *)
(* each other.                                                             *)
EveryBundleIsAccountedFor ==
    /\ BundleDomainMatching
    /\ OneReceiptNoncePerBundle
    /\ \E bundleOf \in [consumedAttestationNonces -> Confirmed] :
        /\ \A s, t \in consumedAttestationNonces : bundleOf[s] = bundleOf[t] => s = t
        /\ \A s \in consumedAttestationNonces : \E a \in Attestations :
              /\ s = <<a.signerCredentialId, a.nonce>>
              /\ bundleOf[s] = a.bundleId
              /\ isConfirmedLink(a.bundleId, a.domainResourceId, a.bundleType,
                                 a.domainPayloadCommitment, FALSE)
        /\ \A k \in Confirmed :
              \/ \E s \in consumedAttestationNonces : bundleOf[s] = k
              \/ commitments[k].controller = deployer

(* What the callers of isConfirmedLink may rely on: a confirmed link is    *)
(* never withdrawn or changed, whatever governance does to organizations   *)
(* and credentials, and its class only rises.                              *)
LinkOf(k) ==
    [bundleKey |-> k, domainKey |-> commitments[k].domainKey,
     bundleType |-> commitments[k].bundleType, payload |-> commitments[k].domainPayloadCommitment]

Links == INSTANCE ConfirmedLinks WITH
    PossibleLinks <- [bundleKey : BundleKeys, domainKey : DomainKeys,
                      bundleType : BundleTypes, payload : PayloadCommitments],
    links <- {LinkOf(k) : k \in Confirmed},
    critical <- {LinkOf(k) : k \in {c \in Confirmed :
                    commitments[c].criticalityClass = "DecisionCritical"}}

(* ProtectedBundleRegistry implements ConfirmedLinks.                      *)
ImplementsConfirmedLinks == Links!LinksSpec
===============================================================================
