---------------------- MODULE MCProtectedBundleRegistry ----------------------
(* Finite instances of ProtectedBundleRegistry: three attestations, two of *)
(* one signer under one nonce, and one for a bundle already named.         *)
EXTENDS ProtectedBundleRegistry, TLC

CONSTANTS org, credential, member, b1, b2, d1, d2, t1, p1

Attest(bundle, domain, nonce, from, until) ==
    [bundleId |-> bundle, bundleVersion |-> 1, bundleType |-> t1,
     domainResourceId |-> domain, domainResourceVersion |-> 1,
     domainPayloadCommitment |-> p1, signerOrgId |-> org, signerCredentialId |-> credential,
     signer |-> member, nonce |-> nonce, issuedAt |-> from, expiresAt |-> until]

MCAttestations == {Attest(b1, d1, 1, 0, 1), Attest(b2, d2, 1, 0, 2), Attest(b1, d2, 2, 1, 2)}

(* Profiles, repositories and capabilities, which no commitment asks about, *)
(* vary while there is no bundle.                                          *)
GovernanceOrBundles ==
    \/ Confirmed = {}
    \/ /\ \A p \in ProfileIds, v \in ProfileVersions : profiles[p][v] = NoProfile
       /\ approvedRepositories = {}
       /\ \A c \in CredentialIds, k \in Capabilities : capabilityGrants[c][k] = NoGrant
===============================================================================
