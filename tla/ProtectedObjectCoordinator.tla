--------------------- MODULE ProtectedObjectCoordinator ---------------------
(***************************************************************************)
(* src/protected-bundles/repository/object-operations.ts, class            *)
(* ProtectedObjectCoordinator, over the object stores of                   *)
(* src/protected-bundles/storage.                                          *)
(*                                                                         *)
(* Every store call is awaited, so an operation is one step per store      *)
(* call.  Operations on the same staged and final object queue for a lock; *)
(* replicating and fetching take none.  The race of withTimeout fails the  *)
(* caller and stops nothing: an abandoned operation runs on, and keeps its *)
(* place in the queue.                                                     *)
(*                                                                         *)
(* Object identifiers are random, so an identifier stands for the          *)
(* preparation (staged and final object) or the replication (replica) that *)
(* drew it.  An object is absent, holds the expected bytes, or other ones. *)
(***************************************************************************)
EXTENDS Naturals, Sequences

CONSTANTS
    Slots,               \* operations that can be under way at once
    MaxPreparations,     \* staged objects ever written
    MaxReplicas          \* replica identifiers ever drawn

ASSUME CoordinatorAssumption == MaxPreparations \in Nat /\ MaxReplicas \in Nat

VARIABLES
    primary,       \* preparation -> its staged and its final object in the primary store
    replica,       \* replica identifier -> the object in the replica store
    locks,         \* preparation -> operations queued for its lock, the holder first
    operations     \* slot -> the operation under way or settled

coordinatorVars == <<primary, replica, locks, operations>>

Preparations == 1..MaxPreparations
Objects == {"absent", "expected", "other"}
NoOperation == [kind |-> "none"]
Mutant_Locking == {"promote"}
Locking == {"promote", "clean"}

CoordinatorInit ==
    /\ primary = [p \in Preparations |-> [staged |-> "absent", final |-> "absent"]]
    /\ replica = [i \in 1..MaxReplicas |-> "absent"]
    /\ locks = [p \in Preparations |-> <<>>]
    /\ operations = [o \in Slots |-> NoOperation]

-----------------------------------------------------------------------------
(* The steps of an operation.                                              *)

Operation(kind, step, p, replicaId) ==
    [kind |-> kind, step |-> step, p |-> p, replicaId |-> replicaId, abandoned |-> FALSE]

(* withLock: a locking operation queues as soon as it is called.           *)
Start(o, operation) ==
    /\ operations' = [operations EXCEPT ![o] = operation]
    /\ locks' = IF operation.kind \in Locking
                THEN [locks EXCEPT ![operation.p] = Append(@, o)] ELSE locks

Running(o, kind, step) ==
    /\ operations[o].kind = kind
    /\ operations[o].step = step
    /\ kind \in Locking => Head(locks[operations[o].p]) = o

Proceed(o, step) == operations' = [operations EXCEPT ![o].step = step] /\ UNCHANGED locks

(* The operation ends, and its lock goes to the next in the queue.         *)
Settle(o, outcome) ==
    /\ operations' = [operations EXCEPT ![o] =
           IF @.abandoned THEN NoOperation ELSE [@ EXCEPT !.step = outcome]]
    /\ locks' = IF operations[o].kind \in Locking
                THEN [locks EXCEPT ![operations[o].p] = Tail(@)] ELSE locks

Settled(o, outcome) == operations[o].kind # "none" /\ operations[o].step = outcome
UnderWay(o) == operations[o].kind # "none" /\ operations[o].step \notin {"done", "failed"}

(* withTimeout: the caller no longer waits.                                *)
Abandon(o) ==
    /\ UnderWay(o) /\ ~ operations[o].abandoned
    /\ operations' = [operations EXCEPT ![o].abandoned = TRUE]
    /\ UNCHANGED locks

(* readVerified: length and digest are the expected ones.                  *)
readVerified(object) == object = "expected"
putIfAbsent(object) == IF object = "absent" THEN "expected" ELSE object

-----------------------------------------------------------------------------
(* promoteStagedObject.                                                    *)

promoteHead(o) ==
    /\ Running(o, "promote", "head")
    /\ Proceed(o, IF primary[operations[o].p].final = "absent" THEN "read" ELSE "verify")
    /\ UNCHANGED <<primary, replica>>

promoteRead(o) ==
    /\ Running(o, "promote", "read")
    /\ IF readVerified(primary[operations[o].p].staged) THEN Proceed(o, "put") ELSE Settle(o, "failed")
    /\ UNCHANGED <<primary, replica>>

promotePut(o) ==
    /\ Running(o, "promote", "put")
    /\ primary' = [primary EXCEPT ![operations[o].p].final = putIfAbsent(@)]
    /\ Proceed(o, "verify")
    /\ UNCHANGED replica

promoteVerify(o) ==
    /\ Running(o, "promote", "verify")
    /\ Settle(o, IF readVerified(primary[operations[o].p].final) THEN "done" ELSE "failed")
    /\ UNCHANGED <<primary, replica>>

-----------------------------------------------------------------------------
(* cleanStaging.  finalized is what hasFinalizedManifest answers.          *)

cleanCheck(o, finalized) ==
    /\ Running(o, "clean", "check")
    /\ Proceed(o, IF finalized THEN "deleteStaged" ELSE "deleteBoth")
    /\ UNCHANGED <<primary, replica>>

cleanDeleteStaged(o) ==
    /\ \E step \in {"deleteStaged", "deleteBoth"} :
          /\ Running(o, "clean", step)
          /\ IF step = "deleteBoth" THEN Proceed(o, "deleteFinal") ELSE Settle(o, "done")
    /\ primary' = [primary EXCEPT ![operations[o].p].staged = "absent"]
    /\ UNCHANGED replica

cleanDeleteFinal(o) ==
    /\ Running(o, "clean", "deleteFinal")
    /\ primary' = [primary EXCEPT ![operations[o].p].final = "absent"]
    /\ Settle(o, "done")
    /\ UNCHANGED replica

-----------------------------------------------------------------------------
(* replicateExact.                                                         *)

replicateRead(o) ==
    /\ Running(o, "replicate", "read")
    /\ IF readVerified(primary[operations[o].p].final) THEN Proceed(o, "put") ELSE Settle(o, "failed")
    /\ UNCHANGED <<primary, replica>>

replicatePut(o) ==
    /\ Running(o, "replicate", "put")
    /\ replica' = [replica EXCEPT ![operations[o].replicaId] = putIfAbsent(@)]
    /\ Proceed(o, "verify")
    /\ UNCHANGED primary

replicateVerify(o) ==
    /\ Running(o, "replicate", "verify")
    /\ Settle(o, IF readVerified(replica[operations[o].replicaId]) THEN "done" ELSE "failed")
    /\ UNCHANGED <<primary, replica>>

-----------------------------------------------------------------------------
(* fetchWithFailover.  A replica identifier of 0 stands for no replica to  *)
(* fail over to: there is none, or the bundle is not critical.             *)

fetchPrimary(o) ==
    /\ Running(o, "fetch", "primary")
    /\ IF readVerified(primary[operations[o].p].final) THEN Settle(o, "done")
       ELSE IF operations[o].replicaId = 0 THEN Settle(o, "failed") ELSE Proceed(o, "replica")
    /\ UNCHANGED <<primary, replica>>

fetchReplica(o) ==
    /\ Running(o, "fetch", "replica")
    /\ Settle(o, IF readVerified(replica[operations[o].replicaId]) THEN "done" ELSE "failed")
    /\ UNCHANGED <<primary, replica>>

-----------------------------------------------------------------------------
(* A store call throws.                                                    *)
storeUnavailable(o) ==
    /\ UnderWay(o)
    /\ operations[o].kind \in Locking => Head(locks[operations[o].p]) = o
    /\ IF Running(o, "fetch", "primary") /\ operations[o].replicaId # 0
       THEN Proceed(o, "replica")
       ELSE Settle(o, "failed")
    /\ UNCHANGED <<primary, replica>>

(* The primary repository withholds or damages a final object.             *)
damage(p) ==
    /\ primary[p].final = "expected"
    /\ primary' = [primary EXCEPT ![p].final = "other"]
    /\ UNCHANGED <<replica, locks, operations>>

OperationStep(o) ==
    \/ promoteHead(o) \/ promoteRead(o) \/ promotePut(o) \/ promoteVerify(o)
    \/ cleanDeleteStaged(o) \/ cleanDeleteFinal(o)
    \/ replicateRead(o) \/ replicatePut(o) \/ replicateVerify(o)
    \/ fetchPrimary(o) \/ fetchReplica(o)
    \/ storeUnavailable(o)
=============================================================================
