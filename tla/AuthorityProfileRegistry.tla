---------------------- MODULE AuthorityProfileRegistry ----------------------
(***************************************************************************)
(* contracts/AuthorityProfileRegistry.sol: the status of organizations,    *)
(* versioned profiles, approved repositories, the credentials that bind an *)
(* account to an organization, and the capabilities of each credential.    *)
(* Every function is onlyOwner: one action is one governance transaction,  *)
(* and a call that reverts is a call that is not enabled.                  *)
(***************************************************************************)
EXTENDS BlockTime

CONSTANTS
    CredentialIds, Capabilities,
    ResourceScopes,    \* scopes grants may name
    ProfileIds, ProfileVersions, ProfileDigests, RepositoryIds,
    GrantTimes         \* timestamps governance passes as effectiveAt and expiresAt

ASSUME AuthorityAssumption ==
    /\ Zero \notin OrganizationIds \cup Accounts \cup ProfileDigests
    /\ GrantTimes \subseteq Timestamps

VARIABLES organizationStatus, profiles, approvedRepositories, credentials, capabilityGrants

authorityVars == <<organizationStatus, profiles, approvedRepositories, credentials, capabilityGrants>>

OrganizationStatus == {"Unregistered", "Active", "Suspended", "Revoked"}

NoProfile == [digest |-> Zero, active |-> FALSE]
NoCredential == [organizationId |-> Zero, account |-> Zero, active |-> FALSE, replicaAttestation |-> FALSE]
NoGrant == [resourceScope |-> Zero, effectiveAt |-> 0, expiresAt |-> 0, active |-> FALSE]

AuthorityTypeOK ==
    /\ organizationStatus \in [OrganizationIds -> OrganizationStatus]
    /\ profiles \in [ProfileIds -> [ProfileVersions ->
            [digest : ProfileDigests \cup {Zero}, active : BOOLEAN]]]
    /\ approvedRepositories \subseteq RepositoryIds
    /\ credentials \in [CredentialIds ->
            [organizationId : OrganizationIds \cup {Zero}, account : Accounts \cup {Zero},
             active : BOOLEAN, replicaAttestation : BOOLEAN]]
    /\ capabilityGrants \in [CredentialIds -> [Capabilities ->
            [resourceScope : ResourceScopes \cup {Zero}, effectiveAt : Timestamps,
             expiresAt : Timestamps, active : BOOLEAN]]]

AuthorityInit ==
    /\ now = 0
    /\ organizationStatus = [o \in OrganizationIds |-> "Unregistered"]
    /\ profiles = [p \in ProfileIds |-> [v \in ProfileVersions |-> NoProfile]]
    /\ approvedRepositories = {}
    /\ credentials = [c \in CredentialIds |-> NoCredential]
    /\ capabilityGrants = [c \in CredentialIds |-> [k \in Capabilities |-> NoGrant]]

-----------------------------------------------------------------------------
setOrganizationStatus(org, status) ==
    /\ status # "Unregistered"
    /\ organizationStatus[org] # "Revoked"
    /\ organizationStatus' = [organizationStatus EXCEPT ![org] = status]
    /\ UNCHANGED <<profiles, approvedRepositories, credentials, capabilityGrants>>

setProfile(p, version, digest, active) ==
    /\ profiles[p][version].digest \in {Zero, digest}
    /\ profiles' = [profiles EXCEPT ![p][version] = [digest |-> digest, active |-> active]]
    /\ UNCHANGED <<organizationStatus, approvedRepositories, credentials, capabilityGrants>>

setRepositoryApproval(r, approved) ==
    /\ approvedRepositories' = IF approved THEN approvedRepositories \cup {r} ELSE approvedRepositories \ {r}
    /\ UNCHANGED <<organizationStatus, profiles, credentials, capabilityGrants>>

Mutant_rebindCredential(c, org, account, active, replicaAttestation) ==
    /\ credentials' = [credentials EXCEPT ![c] =
            [organizationId |-> org, account |-> account, active |-> active,
             replicaAttestation |-> replicaAttestation]]
    /\ UNCHANGED <<organizationStatus, profiles, approvedRepositories, capabilityGrants>>

setCredential(c, org, account, active, replicaAttestation) ==
    /\ credentials[c].account # Zero =>
          credentials[c].organizationId = org /\ credentials[c].account = account
    /\ credentials' = [credentials EXCEPT ![c] =
            [organizationId |-> org, account |-> account, active |-> active,
             replicaAttestation |-> replicaAttestation]]
    /\ UNCHANGED <<organizationStatus, profiles, approvedRepositories, capabilityGrants>>

(* An expiry of 0 means that the grant does not expire.                    *)
setCapabilityGrant(c, capability, scope, effectiveAt, expiresAt, active) ==
    /\ credentials[c].account # Zero
    /\ expiresAt = 0 \/ expiresAt > effectiveAt
    /\ capabilityGrants' = [capabilityGrants EXCEPT ![c][capability] =
            [resourceScope |-> scope, effectiveAt |-> effectiveAt,
             expiresAt |-> expiresAt, active |-> active]]
    /\ UNCHANGED <<organizationStatus, profiles, approvedRepositories, credentials>>

-----------------------------------------------------------------------------
(* Views the other contracts ask.                                          *)

isOrganizationActive(org) == organizationStatus[org] = "Active"

isProfileActive(p, version, digest) ==
    profiles[p][version].active /\ profiles[p][version].digest = digest

isCredentialActive(c, org, account) ==
    /\ credentials[c].active
    /\ credentials[c].organizationId = org
    /\ credentials[c].account = account
    /\ organizationStatus[org] = "Active"

hasCapability(c, capability, scope) ==
    LET g == capabilityGrants[c][capability] IN
    /\ g.active
    /\ g.resourceScope \in {Zero, scope}
    /\ now >= g.effectiveAt
    /\ g.expiresAt = 0 \/ now < g.expiresAt

isReplicaAttestationCredential(c, org, account) ==
    credentials[c].replicaAttestation /\ isCredentialActive(c, org, account)

-----------------------------------------------------------------------------
AuthorityStep ==
    \/ \E org \in OrganizationIds, status \in OrganizationStatus : setOrganizationStatus(org, status)
    \/ \E p \in ProfileIds, v \in ProfileVersions, d \in ProfileDigests, active \in BOOLEAN :
          setProfile(p, v, d, active)
    \/ \E r \in RepositoryIds, approved \in BOOLEAN : setRepositoryApproval(r, approved)
    \/ \E c \in CredentialIds, org \in OrganizationIds, account \in Accounts,
          active, attests \in BOOLEAN : setCredential(c, org, account, active, attests)
    \/ \E c \in CredentialIds, k \in Capabilities, scope \in ResourceScopes \cup {Zero},
          from, until \in GrantTimes, active \in BOOLEAN :
             setCapabilityGrant(c, k, scope, from, until, active)

AuthorityNext ==
    \/ AuthorityStep /\ UNCHANGED now
    \/ Tick /\ UNCHANGED authorityVars

AuthoritySpec == AuthorityInit /\ [][AuthorityNext]_<<now, authorityVars>>

-----------------------------------------------------------------------------
(* A credential is only ever active for one organization and one account,  *)
(* at any two moments, however often it is set again, suspended and        *)
(* restored: what it authorized stays attributable (setCredential).        *)
OneActorPerCredential ==
    \A c \in CredentialIds, o \in OrganizationIds, a \in Accounts :
        [](isCredentialActive(c, o, a) =>
             [](\A p \in OrganizationIds, b \in Accounts :
                   isCredentialActive(c, p, b) => p = o /\ b = a))
=============================================================================
