---------------------------- MODULE KeyLifecycle ----------------------------
(***************************************************************************)
(* src/protected-bundles/keys/lifecycle.ts, class KeyLifecycleRegistry:    *)
(* encryption keys, the controller authorizations that can still unwrap a  *)
(* bundle's key, and the access grants of recipients.                      *)
(*                                                                         *)
(* The registry lives in one JavaScript process.  A method without await   *)
(* is one step.  A method that awaits the verification of an envelope is   *)
(* two: up to the await, with what it has captured, and from the answer    *)
(* on; any other method may run in between.  Captured records are object   *)
(* references, and Map.set replaces the object under an identifier, so an  *)
(* identifier has the sequence of all objects ever stored under it: the    *)
(* map holds the last one, a suspended call may hold an older one.         *)
(***************************************************************************)
EXTENDS Naturals, FiniteSets, SequencesExt

CONSTANTS
    KeyIds, AuthorizationIds, GrantIds,
    CallIds,       \* calls that can be suspended at once
    Times,         \* safe integers callers pass as times
    MaxObjects     \* objects stored under one identifier before calls stop

ASSUME KeyLifecycleAssumption == Times \subseteq Nat /\ MaxObjects \in Nat

VARIABLES keys, authorizations, grants, calls

keyVars == <<keys, authorizations, grants, calls>>

TerminalKeyStates == {"retired", "revoked", "lost", "compromised"}
KeyStates == {"pending", "active"} \cup TerminalKeyStates

AuthorizationRecord == [keyId : KeyIds, state : {"staged", "active", "retired"}]
GrantRecord == [recipientKeyId : KeyIds, effectiveAt : Times, expiresAt : Times,
                state : {"prepared", "active", "revoked"}]

Idle == [method |-> "none"]
Call == {Idle} \cup
    [method : {"activateGrant"}, grantId : GrantIds, object : Nat] \cup
    [method : {"rotateRecipientEnvelope"}, grantId : GrantIds, object : Nat, successorKeyId : KeyIds] \cup
    [method : {"rotateControllerAuthorization"}, predecessorId : AuthorizationIds, object : Nat,
     successorId : AuthorizationIds, successorKeyId : KeyIds]

(* Every variable keeps its type, and a suspended call holds an object     *)
(* that was stored under its identifier.                                   *)
KeyTypeOK ==
    /\ keys \in [KeyIds -> KeyStates \cup {"absent"}]
    /\ authorizations \in [AuthorizationIds -> Seq(AuthorizationRecord)]
    /\ grants \in [GrantIds -> Seq(GrantRecord)]
    /\ calls \in [CallIds -> Call]
    /\ \A c \in CallIds :
          /\ calls[c].method \in {"activateGrant", "rotateRecipientEnvelope"} =>
                calls[c].object \in DOMAIN grants[calls[c].grantId]
          /\ calls[c].method = "rotateControllerAuthorization" =>
                calls[c].object \in DOMAIN authorizations[calls[c].predecessorId]

KeyInit ==
    /\ keys = [k \in KeyIds |-> "absent"]
    /\ authorizations = [a \in AuthorizationIds |-> <<>>]
    /\ grants = [g \in GrantIds |-> <<>>]
    /\ calls = [c \in CallIds |-> Idle]

-----------------------------------------------------------------------------
(* What the maps hold, and the registry's own checks.                      *)

HasAuthorization(a) == authorizations[a] # <<>>
HasGrant(g) == grants[g] # <<>>
authorization(a) == Last(authorizations[a])
grant(g) == Last(grants[g])

isUsableKey(k) == keys[k] \in {"active", "retired"}

UsableControllers ==
    {a \in AuthorizationIds :
        /\ HasAuthorization(a)
        /\ authorization(a).state = "active"
        /\ isUsableKey(authorization(a).keyId)}
usableControllerCount == Cardinality(UsableControllers)

Suspend(c, call) == calls[c] = Idle /\ calls' = [calls EXCEPT ![c] = call]
Resume(c, method) == calls[c].method = method /\ calls' = [calls EXCEPT ![c] = Idle]

-----------------------------------------------------------------------------
(* Keys.                                                                   *)

addKey(k, state) ==
    /\ keys[k] = "absent"
    /\ keys' = [keys EXCEPT ![k] = state]
    /\ UNCHANGED <<authorizations, grants, calls>>

activateKey(k) ==
    /\ keys[k] = "pending"
    /\ keys' = [keys EXCEPT ![k] = "active"]
    /\ UNCHANGED <<authorizations, grants, calls>>

recordKeyFailure(k, state) ==
    /\ keys[k] \in {"pending", "active"}
    /\ keys' = [keys EXCEPT ![k] = state]
    /\ UNCHANGED <<authorizations, grants, calls>>

retireKey(k) ==
    LET controls == \E a \in AuthorizationIds :
            HasAuthorization(a) /\ authorization(a).keyId = k /\ authorization(a).state = "active" IN
    /\ keys[k] = "active"
    /\ ~ (controls /\ usableControllerCount <= 1)
    /\ keys' = [keys EXCEPT ![k] = "retired"]
    /\ UNCHANGED <<authorizations, grants, calls>>

-----------------------------------------------------------------------------
(* Controller authorizations.                                              *)

stageControllerAuthorization(a, k) ==
    /\ ~ HasAuthorization(a)
    /\ keys[k] = "active"
    /\ authorizations' = [authorizations EXCEPT ![a] = <<[keyId |-> k, state |-> "staged"]>>]
    /\ UNCHANGED <<keys, grants, calls>>

activateControllerAuthorization(a) ==
    /\ HasAuthorization(a)
    /\ authorization(a).state = "staged"
    /\ keys[authorization(a).keyId] = "active"
    /\ authorizations' = [authorizations EXCEPT ![a][Len(authorizations[a])].state = "active"]
    /\ UNCHANGED <<keys, grants, calls>>

rotateControllerAuthorization(c, predecessorId, successorId, successorKeyId) ==
    /\ HasAuthorization(predecessorId)
    /\ authorization(predecessorId).state = "active"
    /\ isUsableKey(authorization(predecessorId).keyId)
    /\ keys[successorKeyId] = "active"
    /\ Suspend(c, [method |-> "rotateControllerAuthorization", predecessorId |-> predecessorId,
                   object |-> Len(authorizations[predecessorId]),
                   successorId |-> successorId, successorKeyId |-> successorKeyId])
    /\ UNCHANGED <<keys, authorizations, grants>>

(* The successor is stored under its identifier whatever that held, then   *)
(* the captured predecessor is retired.                                    *)
StoreSuccessor(call) ==
    LET stored == [authorizations EXCEPT ![call.successorId] =
                       Append(@, [keyId |-> call.successorKeyId, state |-> "active"])] IN
    authorizations' = [stored EXCEPT ![call.predecessorId][call.object].state = "retired"]

Mutant_retireAnyway(c, verified) ==
    LET call == calls[c] IN
    /\ Resume(c, "rotateControllerAuthorization")
    /\ IF verified THEN StoreSuccessor(call)
       ELSE authorizations' = [authorizations EXCEPT ![call.predecessorId][call.object].state = "retired"]
    /\ UNCHANGED <<keys, grants>>

rotateControllerAuthorizationVerified(c, verified) ==
    /\ Resume(c, "rotateControllerAuthorization")
    /\ IF verified THEN StoreSuccessor(calls[c]) ELSE UNCHANGED authorizations
    /\ UNCHANGED <<keys, grants>>

-----------------------------------------------------------------------------
(* Grants.                                                                 *)

Mutant_prepareAnyWindow(g, k, effectiveAt, expiresAt) ==
    /\ keys[k] = "active"
    /\ usableControllerCount # 0
    /\ ~ HasGrant(g)
    /\ grants' = [grants EXCEPT ![g] =
            <<[recipientKeyId |-> k, effectiveAt |-> effectiveAt,
               expiresAt |-> expiresAt, state |-> "prepared"]>>]
    /\ UNCHANGED <<keys, authorizations, calls>>

prepareGrant(g, k, effectiveAt, expiresAt) ==
    /\ effectiveAt < expiresAt
    /\ keys[k] = "active"
    /\ usableControllerCount # 0
    /\ ~ HasGrant(g)
    /\ grants' = [grants EXCEPT ![g] =
            <<[recipientKeyId |-> k, effectiveAt |-> effectiveAt,
               expiresAt |-> expiresAt, state |-> "prepared"]>>]
    /\ UNCHANGED <<keys, authorizations, calls>>

activateGrant(c, g, currentTime) ==
    /\ HasGrant(g)
    /\ grant(g).state = "prepared"
    /\ currentTime < grant(g).expiresAt
    /\ keys[grant(g).recipientKeyId] = "active"
    /\ Suspend(c, [method |-> "activateGrant", grantId |-> g, object |-> Len(grants[g])])
    /\ UNCHANGED <<keys, authorizations, grants>>

activateGrantVerified(c, verified) ==
    /\ Resume(c, "activateGrant")
    /\ grants' = IF verified THEN [grants EXCEPT ![calls[c].grantId][calls[c].object].state = "active"]
                             ELSE grants
    /\ UNCHANGED <<keys, authorizations>>

revokeGrant(g) ==
    /\ HasGrant(g)
    /\ grant(g).state # "revoked"
    /\ grants' = [grants EXCEPT ![g][Len(grants[g])].state = "revoked"]
    /\ UNCHANGED <<keys, authorizations, calls>>

rotateRecipientEnvelope(c, g, successorKeyId) ==
    /\ HasGrant(g)
    /\ grant(g).state = "active"
    /\ keys[successorKeyId] = "active"
    /\ Suspend(c, [method |-> "rotateRecipientEnvelope", grantId |-> g, object |-> Len(grants[g]),
                   successorKeyId |-> successorKeyId])
    /\ UNCHANGED <<keys, authorizations, grants>>

Mutant_copyStateAtCall(c, verified) ==
    LET call == calls[c] IN
    /\ Resume(c, "rotateRecipientEnvelope")
    /\ grants' = IF verified
                 THEN [grants EXCEPT ![call.grantId] =
                          Append(@, [@[call.object] EXCEPT !.recipientKeyId = call.successorKeyId,
                                                           !.state = "active"])]
                 ELSE grants
    /\ UNCHANGED <<keys, authorizations>>
(* The captured grant is copied as it is when the answer arrives.          *)
rotateRecipientEnvelopeVerified(c, verified) ==
    LET call == calls[c] IN
    /\ Resume(c, "rotateRecipientEnvelope")
    /\ grants' = IF verified
                 THEN [grants EXCEPT ![call.grantId] =
                          Append(@, [@[call.object] EXCEPT !.recipientKeyId = call.successorKeyId])]
                 ELSE grants
    /\ UNCHANGED <<keys, authorizations>>

effectiveGrantState(g, currentTime) ==
    IF grant(g).state # "revoked" /\ currentTime >= grant(g).expiresAt THEN "expired" ELSE grant(g).state

(* authorizeRetrieval returns instead of throwing.                         *)
authorizeRetrieval(g, currentTime) ==
    /\ HasGrant(g)
    /\ effectiveGrantState(g, currentTime) = "active"
    /\ currentTime >= grant(g).effectiveAt
    /\ isUsableKey(grant(g).recipientKeyId)

-----------------------------------------------------------------------------
(* Restart.                                                                *)

(* snapshot() copies what the maps hold; nothing suspended is in it.       *)
snapshot ==
    [keys |-> keys,
     authorizations |-> [a \in AuthorizationIds |->
         IF HasAuthorization(a) THEN <<authorization(a)>> ELSE <<>>],
     grants |-> [g \in GrantIds |-> IF HasGrant(g) THEN <<grant(g)>> ELSE <<>>]]

(* What fromSnapshot refuses.                                              *)
Hydratable(s) ==
    /\ \A a \in AuthorizationIds : s.authorizations[a] # <<>> =>
          s.keys[s.authorizations[a][1].keyId] # "absent"
    /\ \A g \in GrantIds : s.grants[g] # <<>> =>
          /\ s.keys[s.grants[g][1].recipientKeyId] # "absent"
          /\ s.grants[g][1].effectiveAt < s.grants[g][1].expiresAt

(* The process stops and a registry is hydrated from its snapshot.         *)
fromSnapshot ==
    /\ Hydratable(snapshot)
    /\ keys' = snapshot.keys
    /\ authorizations' = snapshot.authorizations
    /\ grants' = snapshot.grants
    /\ calls' = [c \in CallIds |-> Idle]

-----------------------------------------------------------------------------
KeyNext ==
    \/ \E k \in KeyIds, s \in KeyStates : addKey(k, s)
    \/ \E k \in KeyIds : activateKey(k)
    \/ \E k \in KeyIds, s \in {"compromised", "lost", "revoked"} : recordKeyFailure(k, s)
    \/ \E k \in KeyIds : retireKey(k)
    \/ \E a \in AuthorizationIds, k \in KeyIds : stageControllerAuthorization(a, k)
    \/ \E a \in AuthorizationIds : activateControllerAuthorization(a)
    \/ \E c \in CallIds, a, b \in AuthorizationIds, k \in KeyIds :
          /\ Len(authorizations[b]) < MaxObjects
          /\ rotateControllerAuthorization(c, a, b, k)
    \/ \E c \in CallIds, verified \in BOOLEAN : rotateControllerAuthorizationVerified(c, verified)
    \/ \E g \in GrantIds, k \in KeyIds, from, until \in Times : prepareGrant(g, k, from, until)
    \/ \E c \in CallIds, g \in GrantIds, t \in Times : activateGrant(c, g, t)
    \/ \E c \in CallIds, verified \in BOOLEAN : activateGrantVerified(c, verified)
    \/ \E g \in GrantIds : revokeGrant(g)
    \/ \E c \in CallIds, g \in GrantIds, k \in KeyIds :
          /\ Len(grants[g]) < MaxObjects
          /\ rotateRecipientEnvelope(c, g, k)
    \/ \E c \in CallIds, verified \in BOOLEAN : rotateRecipientEnvelopeVerified(c, verified)
    \/ fromSnapshot

KeySpec == KeyInit /\ [][KeyNext]_keyVars
-----------------------------------------------------------------------------
(* A suspended call that can still put grant g back into force: an         *)
(* activation holding the very object the map holds, or a rotation holding *)
(* an object that nobody has revoked.                                      *)
CanReinstate(g) ==
    \E c \in CallIds :
        \/ /\ calls[c].method = "activateGrant"
           /\ calls[c].grantId = g
           /\ calls[c].object = Len(grants[g])
        \/ /\ calls[c].method = "rotateRecipientEnvelope"
           /\ calls[c].grantId = g
           /\ grants[g][calls[c].object].state # "revoked"

Revoked(g) == HasGrant(g) /\ grant(g).state = "revoked"

(* revokeGrant is final, through restarts and rotations, except for the    *)
(* calls that were already suspended on an object it did not reach: a      *)
(* single rotation in flight copies the revocation with the grant.  The    *)
(* window a grant was prepared with is the one authorizeRetrieval applies  *)
(* for ever.                                                               *)
RevocationIsFinalUnlessOverlapped ==
    [][\A g \in GrantIds : HasGrant(g) =>
          /\ HasGrant(g)'
          /\ grant(g)'.effectiveAt = grant(g).effectiveAt
          /\ grant(g)'.expiresAt = grant(g).expiresAt
          /\ Revoked(g) /\ ~ CanReinstate(g) => Revoked(g)']_keyVars

(* revokeGrant is final, whatever runs at the same time                    *)
(* (key-lifecycle.test.ts: "makes revocation irreversible").               *)
RevocationIsFinal ==
    [][\A g \in GrantIds : Revoked(g) => Revoked(g)']_keyVars

(* The keys that fail in this step.                                        *)
Fails(k) == isUsableKey(k) /\ ~ isUsableKey(k)'

(* A rotation to a key that failed while the envelope was being verified.  *)
RotationToFailedKey ==
    \E c \in CallIds :
        /\ calls[c].method = "rotateControllerAuthorization"
        /\ ~ isUsableKey(calls[c].successorKeyId)

(* Somebody can unwrap the bundle key until a key fails: neither retiring  *)
(* keys nor rotating authorizations (failed verifications included) takes  *)
(* the last usable controller away, unless a rotation in flight names a    *)
(* key that has failed since.                                              *)
ControllerPathSurvives ==
    [][UsableControllers # {} /\ UsableControllers' = {} =>
          (\E k \in KeyIds : Fails(k)) \/ RotationToFailedKey]_keyVars

(* Whatever sequence of calls led here, the snapshot the registry would    *)
(* write is one that fromSnapshot accepts: a restart never loses it.       *)
SnapshotIsHydratable == Hydratable(snapshot)

-----------------------------------------------------------------------------
(* Small instances: interchangeable identifiers.                           *)
KeySymmetry == Permutations(KeyIds) \cup Permutations(AuthorizationIds) \cup Permutations(CallIds)

(* Calls overlap on the grants, or on the controller authorizations.       *)
GrantsOrControllers ==
    \/ \A g \in GrantIds : ~HasGrant(g)
    \/ /\ Cardinality({a \in AuthorizationIds : HasAuthorization(a)}) <= 1
       /\ \A c \in CallIds : calls[c].method # "rotateControllerAuthorization"
=============================================================================
