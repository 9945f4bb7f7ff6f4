------------------------ MODULE EvidenceBundleService ------------------------
(***************************************************************************)
(* src/evidence/evidence-bundle-service.ts: the custody of one protected   *)
(* bundle, composed with the key lifecycle, the object coordinator and the *)
(* authorization repository it calls.                                      *)
(*                                                                         *)
(* Requests run in one process and interleave at every await.  A request   *)
(* holds the record it looked up as an object, which a later preparation   *)
(* of the same bundle may have replaced in the map.  A request that fails  *)
(* before its first await changes nothing and is not a step: an unknown    *)
(* bundle, a signature over another message or by another key, a proof     *)
(* outside its window.                                                     *)
(*                                                                         *)
(* A preparation is known by the number in which random identifiers were   *)
(* drawn for it.  The controller's envelope is the one wrapped for the     *)
(* record's authorization.                                                 *)
(***************************************************************************)
EXTENDS ProtectedObjectCoordinator, KeyLifecycle

CONSTANTS
    IdempotencyKeys,
    PrepareInputs,       \* what is fingerprinted: authorizationId, keyId and critical
    Authorizations,      \* key-operation authorizations: an id and a nonce
    Windows,             \* of grants: effectiveAt and expiresAt
    AttestationNonces,   \* of the author's attestations
    Nonces               \* of the controller's finalizations and of acknowledgements

VARIABLES
    records,             \* preparation -> PreparedInternal, or NoRecord
    preparations,        \* identifiers drawn so far
    replicas,            \* replica identifiers drawn so far
    byIdempotency,       \* idempotency key -> preparation, 0 for none
    byBundle,            \* the preparation the bundle's map entry holds, 0 for none
    finalizedRecords,    \* the bundle's finalized record: preparation and replica, 0 for none
    nonceStore,          \* consumed scopes of the three nonce stores
    consumed,            \* authorizations the repository has consumed
    recipientEnvelopes,  \* grant -> the envelope for its recipient, or NoEnvelope
    requests,            \* call -> the request it is serving
    returned,            \* history: preparations returned, by key and input
    accepted,            \* history: nonces and authorizations of the proofs accepted
    overlapped           \* history: preparations two requests were changing at once

serviceVars == <<records, preparations, replicas, byIdempotency, byBundle, finalizedRecords,
                 nonceStore, consumed, recipientEnvelopes, requests>>
historyVars == <<returned, accepted, overlapped>>
custodyVars == <<serviceVars, historyVars, coordinatorVars, keyVars>>

(* Encryption.  A data encryption key is known by the preparation it was   *)
(* drawn for; an envelope holds it for one key and one authority.          *)
wrapDek(dek, keyId, authorityId) == [dek |-> dek, keyId |-> keyId, authorityId |-> authorityId]
openProtectedContent(object, envelope, p) == readVerified(object) /\ envelope.dek = p

NoEnvelope == wrapDek(0, "none", "none")
NoRecord == [finalized |-> FALSE, critical |-> FALSE, controllerEnvelope |-> NoEnvelope, replicaId |-> 0]
NoRequest == [method |-> "none"]

OneUse == INSTANCE OneUseAuthorizations WITH
    Callers <- CallIds, answers <- [c \in CallIds |-> "pending"]

CustodyInit ==
    /\ CoordinatorInit
    /\ keys = [k \in KeyIds |-> "active"]
    /\ authorizations = [a \in AuthorizationIds |-> <<>>]
    /\ grants = [g \in GrantIds |-> <<>>]
    /\ calls = [c \in CallIds |-> Idle]
    /\ records = [p \in Preparations |-> NoRecord]
    /\ preparations = 0 /\ replicas = 0
    /\ byIdempotency = [i \in IdempotencyKeys |-> 0]
    /\ byBundle = 0
    /\ finalizedRecords = [p |-> 0, replicaId |-> 0]
    /\ nonceStore = {} /\ consumed = {}
    /\ recipientEnvelopes = [g \in GrantIds |-> NoEnvelope]
    /\ requests = [c \in CallIds |-> NoRequest]
    /\ returned = {} /\ accepted = {} /\ overlapped = {}

-----------------------------------------------------------------------------
(* Requests.                                                               *)

Free(c) == requests[c] = NoRequest /\ operations[c] = NoOperation
At(c, method, step) == requests[c].method = method /\ requests[c].step = step
Go(c, step) == requests' = [requests EXCEPT ![c].step = step]
End(c) == requests' = [requests EXCEPT ![c] = NoRequest]
RecordOf(c) == records[requests[c].p]

Changing(p) ==
    {c \in CallIds : requests[c].method \in {"finalize", "promoteToDecisionCritical"} /\ requests[c].p = p}

(* What is signed.  A message names what the signer sees in the record and *)
(* in the request; a proof that passes is one over the message the service *)
(* rebuilds itself, by the expected signer and within its window.          *)
domainAttestationMessage(p) == [p |-> p]
finalizationMessage(p, attestation) == [p |-> p, attestation |-> attestation]
keyMaterialTargetFields(target) == <<target.authorityId, target.keyId>>
keyMaterialAcknowledgementMessage(target) == [fields |-> keyMaterialTargetFields(target)]
keyOperationBinding(operation, p, context) ==
    [operation |-> operation, p |-> p, authority |-> records[p].controllerEnvelope.authorityId,
     context |-> context]

verifiedProofs(type, message, nonces) ==
    {[type |-> type, message |-> message, nonce |-> n] : n \in nonces}

verifyKeyMaterialAcknowledgement(target) ==
    verifiedProofs("KeyMaterialAcknowledgement", keyMaterialAcknowledgementMessage(target), Nonces)

(* validateKeyOperationClaims: a retrieval is authorized for the recipient *)
(* the grant's envelope was made for.                                      *)
validateKeyOperationClaims(g) == recipientEnvelopes[g].authorityId = g

(* pendingNonceConsumption: a nonce is scoped by the type of its proof.    *)
nonceScope(proof) == <<proof.type, proof.nonce>>

(* consumeValidatedProofs, up to the await: the local nonces are consumed  *)
(* in order, and those consumed are rolled back when one is a replay.      *)
rollback(store, scopes) == store \ scopes
Mutant_refuseReplay(scopes) == nonceStore' = rollback(nonceStore \cup scopes, scopes)
refuseReplay(scopes) == nonceStore' = rollback(nonceStore \cup scopes, scopes \ nonceStore)

(* The authorization is one for this binding, or the request fails before  *)
(* it gets here.                                                           *)
AskRepository(c, p, keyOperation, proofs, binding) ==
    LET scopes == {nonceScope(proof) : proof \in proofs} IN
    IF scopes \cap nonceStore = {}
    THEN /\ nonceStore' = nonceStore \cup scopes
         /\ requests' = [requests EXCEPT ![c] =
                [method |-> binding.operation, step |-> "consuming", p |-> p, scopes |-> scopes,
                 authorization |-> keyOperation, binding |-> binding]]
    ELSE refuseReplay(scopes) /\ UNCHANGED requests

ProofsOf(request) ==
    request.scopes \cup {<<"id", request.authorization.id>>, <<"nonce", request.authorization.nonce>>}

(* The repository's answer.  A refusal, a replay or a lost answer rolls    *)
(* the nonces of this request back.                                        *)
consumeValidatedProofs(c) ==
    LET request == requests[c] IN
    /\ request.method # "none" /\ request.step = "consuming"
    /\ \/ /\ OneUse!Unused(request.authorization, consumed)
          /\ consumed' = consumed \cup {request.authorization}
          /\ \/ /\ requests' = [requests EXCEPT ![c] =
                       [method |-> request.method, step |-> "unwrapping", p |-> request.p,
                        binding |-> request.binding]]
                /\ accepted' = accepted \cup ProofsOf(request)
                /\ UNCHANGED nonceStore
             \/ /\ nonceStore' = rollback(nonceStore, request.scopes)
                /\ End(c)
                /\ UNCHANGED accepted
       \/ /\ nonceStore' = rollback(nonceStore, request.scopes)
          /\ End(c)
          /\ UNCHANGED <<consumed, accepted>>
    /\ UNCHANGED <<records, preparations, replicas, byIdempotency, byBundle, finalizedRecords,
                   recipientEnvelopes, returned, overlapped, coordinatorVars, keyVars>>

(* A request fails after an await: unwrapDek with another key, a settled   *)
(* failure of the coordinator, a refusal of the key lifecycle.             *)
Fail(c) ==
    /\ End(c)
    /\ UNCHANGED <<records, preparations, replicas, byIdempotency, byBundle, finalizedRecords,
                   nonceStore, consumed, recipientEnvelopes, historyVars>>

-----------------------------------------------------------------------------
(* prepare.                                                                *)

prepare(c, i, input) ==
    /\ Free(c)
    /\ byIdempotency[i] = 0
    /\ preparations < MaxPreparations
    /\ preparations' = preparations + 1
    /\ requests' = [requests EXCEPT ![c] =
           [method |-> "prepare", step |-> "protecting", p |-> preparations + 1, key |-> i, input |-> input]]
    /\ UNCHANGED <<records, replicas, byIdempotency, byBundle, finalizedRecords, nonceStore, consumed,
                   recipientEnvelopes, historyVars, coordinatorVars, keyVars>>

(* The key is known: the same input gets the same preparation back.        *)
prepareAgain(i, input) ==
    /\ byIdempotency[i] # 0
    /\ records[byIdempotency[i]].input = input
    /\ returned' = returned \cup {[key |-> i, input |-> input, p |-> byIdempotency[i]]}
    /\ UNCHANGED <<serviceVars, accepted, overlapped, coordinatorVars, keyVars>>

(* primaryStore.putIfAbsent of the encrypted content.                      *)
prepareStaging(c) ==
    /\ At(c, "prepare", "protecting")
    /\ Go(c, "staging")
    /\ primary' = [primary EXCEPT ![requests[c].p].staged = "expected"]
    /\ UNCHANGED <<records, preparations, replicas, byIdempotency, byBundle, finalizedRecords, nonceStore,
                   consumed, recipientEnvelopes, historyVars, replica, locks, operations, keyVars>>

prepareStagingFails(c) ==
    /\ At(c, "prepare", "protecting")
    /\ Fail(c)
    /\ UNCHANGED <<coordinatorVars, keyVars>>

CanStage(a, k) == ~ HasAuthorization(a) /\ keys[k] = "active"

Mutant_prepareRecord(c) ==
    LET request == requests[c] IN
    /\ At(c, "prepare", "staging")
    /\ IF CanStage(request.input.authorizationId, request.input.keyId)
       THEN stageControllerAuthorization(request.input.authorizationId, request.input.keyId)
       ELSE UNCHANGED keyVars
    /\ End(c)
    /\ records' = [records EXCEPT ![request.p] =
           [finalized |-> FALSE, critical |-> request.input.critical, replicaId |-> 0,
            controllerEnvelope |-> wrapDek(request.p, request.input.keyId, request.input.authorizationId),
            input |-> request.input]]
    /\ byIdempotency' = [byIdempotency EXCEPT ![request.key] = request.p]
    /\ byBundle' = request.p
    /\ returned' = returned \cup {[key |-> request.key, input |-> request.input, p |-> request.p]}
    /\ UNCHANGED <<preparations, replicas, finalizedRecords, nonceStore, consumed,
                   recipientEnvelopes, accepted, overlapped, coordinatorVars>>
(* The rest runs without an await: the authorization is staged, or is      *)
(* already there and the request fails, and the maps take the record.      *)
prepareRecord(c) ==
    LET request == requests[c] IN
    /\ At(c, "prepare", "staging")
    /\ CanStage(request.input.authorizationId, request.input.keyId)
    /\ stageControllerAuthorization(request.input.authorizationId, request.input.keyId)
    /\ End(c)
    /\ records' = [records EXCEPT ![request.p] =
           [finalized |-> FALSE, critical |-> request.input.critical, replicaId |-> 0,
            controllerEnvelope |-> wrapDek(request.p, request.input.keyId, request.input.authorizationId),
            input |-> request.input]]
    /\ byIdempotency' = [byIdempotency EXCEPT ![request.key] = request.p]
    /\ byBundle' = request.p
    /\ returned' = returned \cup {[key |-> request.key, input |-> request.input, p |-> request.p]}
    /\ UNCHANGED <<preparations, replicas, finalizedRecords, nonceStore, consumed,
                   recipientEnvelopes, accepted, overlapped, coordinatorVars>>

prepareRecordFails(c) ==
    /\ At(c, "prepare", "staging")
    /\ ~ CanStage(requests[c].input.authorizationId, requests[c].input.keyId)
    /\ Fail(c)
    /\ UNCHANGED <<coordinatorVars, keyVars>>

-----------------------------------------------------------------------------
(* finalize.                                                               *)

finalize(c, keyOperation, attestation, finalization) ==
    /\ Free(c)
    /\ byBundle # 0
    /\ ~ records[byBundle].finalized
    /\ AskRepository(c, byBundle, keyOperation, {attestation, finalization},
           keyOperationBinding("finalize", byBundle, finalization))
    /\ overlapped' = IF Changing(byBundle) = {} THEN overlapped ELSE overlapped \cup {byBundle}
    /\ UNCHANGED <<records, preparations, replicas, byIdempotency, byBundle, finalizedRecords, consumed,
                   recipientEnvelopes, returned, accepted, coordinatorVars, keyVars>>

(* The staged object opens under the unwrapped key, and is promoted.       *)
finalizePromote(c) ==
    /\ At(c, "finalize", "unwrapping")
    /\ openProtectedContent(primary[requests[c].p].staged, RecordOf(c).controllerEnvelope, requests[c].p)
    /\ Start(c, Operation("promote", "head", requests[c].p, 0))
    /\ Go(c, "promoting")
    /\ UNCHANGED <<records, preparations, replicas, byIdempotency, byBundle, finalizedRecords, nonceStore,
                   consumed, recipientEnvelopes, historyVars, primary, replica, keyVars>>

(* A fresh replica identifier goes into the record before the copy exists. *)
Replicate(c) ==
    /\ replicas < MaxReplicas
    /\ replicas' = replicas + 1
    /\ records' = [records EXCEPT ![requests[c].p].replicaId = replicas + 1]
    /\ Start(c, Operation("replicate", "read", requests[c].p, replicas + 1))
    /\ Go(c, "replicating")
    /\ UNCHANGED <<preparations, byIdempotency, byBundle, finalizedRecords, nonceStore,
                   consumed, recipientEnvelopes, historyVars, primary, replica, keyVars>>

CanActivate(a) ==
    HasAuthorization(a) /\ authorization(a).state = "staged" /\ keys[authorization(a).keyId] = "active"

(* activateControllerAuthorization, the flag and the finalized record.     *)
Finalized(c) ==
    /\ operations' = [operations EXCEPT ![c] = NoOperation]
    /\ IF CanActivate(RecordOf(c).controllerEnvelope.authorityId)
       THEN /\ activateControllerAuthorization(RecordOf(c).controllerEnvelope.authorityId)
            /\ records' = [records EXCEPT ![requests[c].p].finalized = TRUE]
            /\ finalizedRecords' = [p |-> requests[c].p, replicaId |-> RecordOf(c).replicaId]
       ELSE UNCHANGED <<keyVars, records, finalizedRecords>>
    /\ End(c)
    /\ UNCHANGED <<preparations, replicas, byIdempotency, byBundle, nonceStore,
                   consumed, recipientEnvelopes, historyVars, primary, replica, locks>>

finalizeReplicate(c) ==
    /\ At(c, "finalize", "promoting")
    /\ Settled(c, "done")
    /\ RecordOf(c).critical
    /\ Replicate(c)

Mutant_finalizeCommit(c) ==
    /\ \/ At(c, "finalize", "promoting") /\ Settled(c, "done") /\ ~ RecordOf(c).critical
       \/ At(c, "finalize", "replicating") /\ (Settled(c, "done") \/ Settled(c, "failed"))
    /\ Finalized(c)
finalizeCommit(c) ==
    /\ \/ At(c, "finalize", "promoting") /\ ~ RecordOf(c).critical
       \/ At(c, "finalize", "replicating")
    /\ Settled(c, "done")
    /\ Finalized(c)

-----------------------------------------------------------------------------
(* promoteToDecisionCritical.                                              *)

promoteToDecisionCritical(c) ==
    /\ Free(c)
    /\ byBundle # 0
    /\ records[byBundle].finalized /\ ~ records[byBundle].critical
    /\ replicas < MaxReplicas
    /\ replicas' = replicas + 1
    /\ records' = [records EXCEPT ![byBundle].replicaId = replicas + 1]
    /\ requests' = [requests EXCEPT ![c] =
           [method |-> "promoteToDecisionCritical", step |-> "replicating", p |-> byBundle]]
    /\ Start(c, Operation("replicate", "read", byBundle, replicas + 1))
    /\ overlapped' = IF Changing(byBundle) = {} THEN overlapped ELSE overlapped \cup {byBundle}
    /\ UNCHANGED <<preparations, byIdempotency, byBundle, finalizedRecords, nonceStore, consumed,
                   recipientEnvelopes, returned, accepted, primary, replica, keyVars>>

promotedToDecisionCritical(c) ==
    /\ At(c, "promoteToDecisionCritical", "replicating")
    /\ Settled(c, "done")
    /\ operations' = [operations EXCEPT ![c] = NoOperation]
    /\ records' = [records EXCEPT ![requests[c].p].critical = TRUE]
    /\ End(c)
    /\ UNCHANGED <<preparations, replicas, byIdempotency, byBundle, finalizedRecords, nonceStore, consumed,
                   recipientEnvelopes, historyVars, primary, replica, locks, keyVars>>

-----------------------------------------------------------------------------
(* rotateControllerEnvelope.                                               *)

rotateControllerEnvelope(c, keyOperation, acknowledgement, target) ==
    /\ Free(c)
    /\ byBundle # 0
    /\ records[byBundle].finalized
    /\ AskRepository(c, byBundle, keyOperation, {acknowledgement},
                     keyOperationBinding("rotate", byBundle, target))
    /\ UNCHANGED <<records, preparations, replicas, byIdempotency, byBundle, finalizedRecords, consumed,
                   recipientEnvelopes, historyVars, coordinatorVars, keyVars>>

(* The envelope is unwrapped with the key the caller supplied and wrapped  *)
(* for the successor, which the lifecycle verifies.                        *)
rotateWrapped(c) ==
    LET binding == requests[c].binding IN
    /\ At(c, "rotate", "unwrapping")
    /\ rotateControllerAuthorization(c, binding.authority, binding.context.authorityId, binding.context.keyId)
    /\ Go(c, "verifying")
    /\ UNCHANGED <<records, preparations, replicas, byIdempotency, byBundle, finalizedRecords, nonceStore,
                   consumed, recipientEnvelopes, historyVars, coordinatorVars>>

rotateVerified(c) ==
    LET target == requests[c].binding.context IN
    /\ At(c, "rotate", "verifying")
    /\ rotateControllerAuthorizationVerified(c, TRUE)
    /\ records' = [records EXCEPT ![requests[c].p].controllerEnvelope =
           wrapDek(@.dek, target.keyId, target.authorityId)]
    /\ End(c)
    /\ UNCHANGED <<preparations, replicas, byIdempotency, byBundle, finalizedRecords, nonceStore,
                   consumed, recipientEnvelopes, historyVars, coordinatorVars>>

-----------------------------------------------------------------------------
(* grantRecipient and retrieveWithGrant.                                   *)

grantRecipient(c, keyOperation, acknowledgement, target, window) ==
    /\ Free(c)
    /\ byBundle # 0
    /\ records[byBundle].finalized
    /\ AskRepository(c, byBundle, keyOperation, {acknowledgement},
           keyOperationBinding("grant", byBundle, [target |-> target, window |-> window]))
    /\ UNCHANGED <<records, preparations, replicas, byIdempotency, byBundle, finalizedRecords, consumed,
                   recipientEnvelopes, historyVars, coordinatorVars, keyVars>>

CanGrant(g, k, window) ==
    /\ window.effectiveAt < window.expiresAt
    /\ keys[k] = "active"
    /\ usableControllerCount # 0
    /\ ~ HasGrant(g)

(* prepareGrant, the envelope, and activateGrant up to its await.          *)
grantWrapped(c) ==
    LET target == requests[c].binding.context.target
        window == requests[c].binding.context.window IN
    /\ At(c, "grant", "unwrapping")
    /\ CanGrant(target.authorityId, target.keyId, window)
    /\ grants' = [grants EXCEPT ![target.authorityId] =
           <<[recipientKeyId |-> target.keyId, effectiveAt |-> window.effectiveAt,
              expiresAt |-> window.expiresAt, state |-> "prepared"]>>]
    /\ Suspend(c, [method |-> "activateGrant", grantId |-> target.authorityId, object |-> 1])
    /\ recipientEnvelopes' = [recipientEnvelopes EXCEPT ![target.authorityId] =
           wrapDek(RecordOf(c).controllerEnvelope.dek, target.keyId, target.authorityId)]
    /\ Go(c, "verifying")
    /\ UNCHANGED <<keys, authorizations, records, preparations, replicas, byIdempotency, byBundle,
                   finalizedRecords, nonceStore, consumed, historyVars, coordinatorVars>>

grantVerified(c) ==
    /\ At(c, "grant", "verifying")
    /\ activateGrantVerified(c, TRUE)
    /\ End(c)
    /\ UNCHANGED <<records, preparations, replicas, byIdempotency, byBundle, finalizedRecords, nonceStore,
                   consumed, recipientEnvelopes, historyVars, coordinatorVars>>

revokeRecipient(g) ==
    revokeGrant(g) /\ UNCHANGED <<serviceVars, historyVars, coordinatorVars>>

retrieveWithGrant(c, keyOperation, g, currentTime) ==
    /\ Free(c)
    /\ byBundle # 0
    /\ authorizeRetrieval(g, currentTime)
    /\ validateKeyOperationClaims(g)
    /\ AskRepository(c, byBundle, keyOperation, {},
           keyOperationBinding("retrieve", byBundle, recipientEnvelopes[g]))
    /\ UNCHANGED <<records, preparations, replicas, byIdempotency, byBundle, finalizedRecords, consumed,
                   recipientEnvelopes, historyVars, coordinatorVars, keyVars>>

retrieveFetch(c) ==
    /\ At(c, "retrieve", "unwrapping")
    /\ Start(c, Operation("fetch", "primary", requests[c].p,
                          IF RecordOf(c).critical THEN RecordOf(c).replicaId ELSE 0))
    /\ Go(c, "fetching")
    /\ UNCHANGED <<records, preparations, replicas, byIdempotency, byBundle, finalizedRecords, nonceStore,
                   consumed, recipientEnvelopes, historyVars, primary, replica, keyVars>>

retrieved(c) ==
    /\ At(c, "retrieve", "fetching")
    /\ Settled(c, "done")
    /\ operations' = [operations EXCEPT ![c] = NoOperation]
    /\ Fail(c)
    /\ UNCHANGED <<primary, replica, locks, keyVars>>

-----------------------------------------------------------------------------
(* Failures after an await.                                                *)

(* unwrapDek, openProtectedContent, the key lifecycle.                     *)
unwrapFails(c) ==
    /\ requests[c].method \in {"finalize", "rotate", "grant", "retrieve"}
    /\ requests[c].step = "unwrapping"
    /\ Fail(c)
    /\ UNCHANGED <<coordinatorVars, keyVars>>

operationFails(c) ==
    /\ requests[c].method # "none"
    /\ Settled(c, "failed")
    /\ operations' = [operations EXCEPT ![c] = NoOperation]
    /\ Fail(c)
    /\ UNCHANGED <<primary, replica, locks, keyVars>>

operationTimesOut(c) ==
    /\ requests[c].method # "none"
    /\ requests[c].step \in {"promoting", "replicating", "fetching"}
    /\ Abandon(c)
    /\ Fail(c)
    /\ UNCHANGED <<primary, replica, keyVars>>

-----------------------------------------------------------------------------
(* cleanStaging, called once no finalization of the staged object can be   *)
(* under way any more: the native lifetime of staged objects exceeds every *)
(* interval of a finalization (assertStagingLifecycleProfile).             *)
StagingExpired(p) ==
    /\ primary[p].staged # "absent"
    /\ \A c \in CallIds : requests[c].method # "none" => requests[c].p # p

hasFinalizedManifest(p) == records[p].finalized

cleanStaging(c, p) ==
    /\ Free(c)
    /\ StagingExpired(p)
    /\ Start(c, [Operation("clean", "check", p, 0) EXCEPT !.abandoned = TRUE])
    /\ UNCHANGED <<serviceVars, historyVars, primary, replica, keyVars>>

CoordinatorStep ==
    /\ \E o \in Slots :
          \/ OperationStep(o)
          \/ operations[o].kind = "clean" /\ cleanCheck(o, hasFinalizedManifest(operations[o].p))
    /\ UNCHANGED <<serviceVars, historyVars, keyVars>>

Damage == (\E p \in Preparations : damage(p)) /\ UNCHANGED <<serviceVars, historyVars, keyVars>>

ServiceStep(c) ==
    \/ \E i \in IdempotencyKeys, input \in PrepareInputs : prepare(c, i, input)
    \/ prepareStaging(c) \/ prepareStagingFails(c) \/ prepareRecord(c) \/ prepareRecordFails(c)
    \/ \E x \in Authorizations,
          attestation \in verifiedProofs("DomainManifestAttestation",
                                        domainAttestationMessage(byBundle), AttestationNonces) :
       \E finalization \in verifiedProofs("FinalizeProtectedBundle",
                                         finalizationMessage(byBundle, attestation), Nonces) :
          finalize(c, x, attestation, finalization)
    \/ finalizePromote(c) \/ finalizeReplicate(c) \/ finalizeCommit(c)
    \/ promoteToDecisionCritical(c) \/ promotedToDecisionCritical(c)
    \/ \E x \in Authorizations, target \in [authorityId : AuthorizationIds, keyId : KeyIds] :
       \E acknowledgement \in verifyKeyMaterialAcknowledgement(target) :
          rotateControllerEnvelope(c, x, acknowledgement, target)
    \/ rotateWrapped(c) \/ rotateVerified(c)
    \/ \E x \in Authorizations, target \in [authorityId : GrantIds, keyId : KeyIds], window \in Windows :
       \E acknowledgement \in verifyKeyMaterialAcknowledgement(target) :
          grantRecipient(c, x, acknowledgement, target, window)
    \/ grantWrapped(c) \/ grantVerified(c)
    \/ \E x \in Authorizations, g \in GrantIds, t \in Times : retrieveWithGrant(c, x, g, t)
    \/ retrieveFetch(c) \/ retrieved(c)
    \/ consumeValidatedProofs(c) \/ unwrapFails(c) \/ operationFails(c) \/ operationTimesOut(c)
    \/ \E p \in Preparations : cleanStaging(c, p)

CustodyNext ==
    \/ \E c \in CallIds : ServiceStep(c)
    \/ \E i \in IdempotencyKeys, input \in PrepareInputs : prepareAgain(i, input)
    \/ \E g \in GrantIds : revokeRecipient(g)
    \/ CoordinatorStep
    \/ Damage

CustodySpec == CustodyInit /\ [][CustodyNext]_custodyVars

-----------------------------------------------------------------------------
(* consumeValidatedProofs lets no proof through twice: an attestation, a   *)
(* finalization, an acknowledgement or an authorization that was accepted  *)
(* once is never accepted again, although refused requests that name it    *)
(* roll nonces back, and although the repository answers later.            *)
ProofsAreUsedOnce ==
    [][\A c \in CallIds :
          requests[c].method # "none" /\ requests[c].step = "consuming" /\ accepted' # accepted
             /\ requests'[c] # requests[c]
          => ProofsOf(requests[c]) \cap accepted = {}]_custodyVars

(* prepare is idempotent, overlapping calls included: one key and one      *)
(* input are never answered with two preparations.  The map is only        *)
(* written after three awaits, so what holds the second call back is the   *)
(* authorization that the first has staged.                                *)
PreparationIsIdempotent ==
    \A x, y \in returned : x.key = y.key /\ x.input = y.input => x.p = y.p

(* The lock of the coordinator: a final object only ever appears while its *)
(* staged object is there, so no promotion, not even one that timed out    *)
(* and still runs, brings back what cleanStaging removed; and a finalized  *)
(* preparation keeps its final object.                                     *)
CleanupIsFinal ==
    [][\A p \in Preparations :
          /\ primary[p].final = "absent" /\ primary'[p].final # "absent" => primary[p].staged # "absent"
          /\ records'[p].finalized => primary'[p].final # "absent"]_custodyVars

Replicated(p) == records[p].replicaId # 0 /\ replica[records[p].replicaId] = "expected"

(* A finalized bundle that is decision-critical has a byte-identical       *)
(* replica under the identifier retrieveWithGrant fails over to, whatever  *)
(* times out or fails in between, as long as finalize and                  *)
(* promoteToDecisionCritical do not overlap for it.                        *)
ReplicatedUnlessOverlapped ==
    \A p \in Preparations :
        records[p].finalized /\ records[p].critical /\ p \notin overlapped => Replicated(p)

(* The same without the restriction (README.md: "a byte-identical          *)
(* encrypted replica for records classified as decision-critical").        *)
DecisionCriticalIsReplicated ==
    \A p \in Preparations : records[p].finalized /\ records[p].critical => Replicated(p)
=============================================================================
