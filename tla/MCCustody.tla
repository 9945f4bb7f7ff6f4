------------------------------ MODULE MCCustody ------------------------------
(* Instances of EvidenceBundleService, and of the authorization repository *)
(* and of the object stores whose promises it relies on: each runs while   *)
(* the others rest.                                                        *)
EXTENDS EvidenceBundleService, TLC

CONSTANT x1, x2, x3

VARIABLES capabilities, transactions, store, object, steps, answers

Records == {x1, x2, x3}
Proofs == {[id |-> x, nonce |-> x] : x \in Records}
Inputs ==
    {[authorizationId |-> "a1", keyId |-> "k1", critical |-> TRUE],
     [authorizationId |-> "a1", keyId |-> "k1", critical |-> FALSE]}
GrantWindows == {[effectiveAt |-> 1, expiresAt |-> 2]}

Symmetry ==
    Permutations(Records) \cup Permutations(CallIds)
        \cup Permutations(AttestationNonces) \cup Permutations(Nonces)

(* The bundle is prepared again only until the first proof is accepted;     *)
(* requests about keys overlap with each other, requests about objects with *)
(* each other (a second replica is for these); a damaged final object is    *)
(* followed into retrievals only.                                           *)
KeyRequests == {"rotate", "grant", "retrieve"}
Focus ==
    /\ preparations > 1 => accepted = {}
    /\ (\E c \in CallIds : requests[c].method \in KeyRequests) =>
          \A c \in CallIds : /\ requests[c].method \in KeyRequests \cup {"none"}
                             /\ operations[c].kind \in {"none", "fetch"}
    /\ replicas > 1 => \A c \in CallIds : requests[c].method \notin KeyRequests
    /\ (\E p \in Preparations : primary[p].final = "other") =>
          \A c \in CallIds : requests[c].method \in {"none", "retrieve"}

(* Three processes, and authorizations that share identifiers and nonces.   *)
Repository == INSTANCE KeyOperationAuthorizationRepository WITH
    Processes <- {"w1", "w2", "w3"},
    Authorizations <- {[id |-> "i1", nonce |-> "n1"], [id |-> "i1", nonce |-> "n2"],
                       [id |-> "i2", nonce |-> "n1"]}

Stores == INSTANCE ObjectStores WITH Puts <- {"p1", "p2"}, Deletes <- {"d1", "d2"}

Init == CustodyInit /\ Repository!CapabilityInit /\ Stores!StoresInit

CustodyRests == CustodyInit /\ UNCHANGED custodyVars
RepositoryRests == Repository!CapabilityInit /\ UNCHANGED <<capabilities, transactions>>
StoresRest == Stores!StoresInit /\ UNCHANGED <<store, object, steps, answers>>

Next ==
    \/ CustodyNext /\ RepositoryRests /\ StoresRest
    \/ Repository!CapabilityNext /\ CustodyRests /\ StoresRest
    \/ Stores!StoresNext /\ CustodyRests /\ RepositoryRests

Spec == Init /\ [][Next]_<<custodyVars, capabilities, transactions, store, object, steps, answers>>

(* See KeyOperationAuthorizationRepository: consume of the database is one  *)
(* atomic step, or a refusal.                                               *)
ImplementsOneUse == Repository!ImplementsOneUse

(* See ObjectStores: the memory, the filesystem and the S3 store write an   *)
(* object as a whole, once.                                                 *)
EveryStoreIsAtomic == Stores!EveryStoreIsAtomic
=============================================================================
