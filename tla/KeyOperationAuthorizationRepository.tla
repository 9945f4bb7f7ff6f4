---------------- MODULE KeyOperationAuthorizationRepository ----------------
(***************************************************************************)
(* src/evidence/key-operation-authorization-repository.ts, class           *)
(* PostgresKeyOperationAuthorizationRepository: consume, statement by      *)
(* statement, by several processes on one database.                        *)
(*                                                                         *)
(* The advisory lock is on the nonce scope alone, so two consumptions of   *)
(* one identifier under two nonces run side by side; what tells them apart *)
(* is the primary key, on which the second INSERT waits for the first      *)
(* transaction and then fails.                                             *)
(***************************************************************************)
CONSTANTS
    Processes,         \* one call of consume each
    Authorizations     \* records with an id (identifier and version) and a nonce (its scope)

VARIABLES
    capabilities,      \* rows of key_operation_capabilities that are committed
    transactions       \* per process: how far its transaction is, for which authorization, and the answer

repositoryVars == <<capabilities, transactions>>

NoTransaction == [step |-> "none", answer |-> "pending"]

CapabilityInit ==
    /\ capabilities = {}
    /\ transactions = [p \in Processes |-> NoTransaction]

AtStep(p, step) == transactions[p].step = step
Proceed(p, step) == transactions' = [transactions EXCEPT ![p].step = step]

(* client.release(): the locks of the transaction go with it.              *)
Release(p, answer) == transactions' = [transactions EXCEPT ![p].step = "released", ![p].answer = answer]

SameCapability(a, b) == a.id = b.id \/ a.nonce = b.nonce

(* Other transactions that hold the advisory lock of the nonce, or an      *)
(* uncommitted row with one of the unique keys.                            *)
LockHolders(p) ==
    {q \in Processes \ {p} :
        /\ transactions[q].step \in {"locked", "absent", "inserted"}
        /\ transactions[q].authorization.nonce = transactions[p].authorization.nonce}
RowHolders(p) ==
    {q \in Processes \ {p} :
        /\ AtStep(q, "inserted")
        /\ SameCapability(transactions[q].authorization, transactions[p].authorization)}

-----------------------------------------------------------------------------
(* pool.connect() and BEGIN; without a connection there is nothing to undo.*)
consume(p, authorization) ==
    /\ AtStep(p, "none")
    /\ transactions' = [transactions EXCEPT ![p] =
           [step |-> "begun", answer |-> "pending", authorization |-> authorization]]
    /\ UNCHANGED capabilities

connectFails(p) ==
    /\ AtStep(p, "none")
    /\ Release(p, "unavailable")
    /\ UNCHANGED capabilities

lockNonceScope(p) ==
    /\ AtStep(p, "begun")
    /\ LockHolders(p) = {}
    /\ Proceed(p, "locked")
    /\ UNCHANGED capabilities

selectExisting(p) ==
    /\ AtStep(p, "locked")
    /\ IF \E row \in capabilities : SameCapability(row, transactions[p].authorization)
       THEN Release(p, "replay")
       ELSE Proceed(p, "absent")
    /\ UNCHANGED capabilities

Mutant_insertCapability(p) ==
    /\ AtStep(p, "absent")
    /\ Proceed(p, "inserted")
    /\ UNCHANGED capabilities
insertCapability(p) ==
    /\ AtStep(p, "absent")
    /\ RowHolders(p) = {}
    /\ IF \E row \in capabilities : SameCapability(row, transactions[p].authorization)
       THEN Release(p, "replay")
       ELSE Proceed(p, "inserted")
    /\ UNCHANGED capabilities

(* The connection may break after the server has committed.                *)
commit(p) ==
    /\ AtStep(p, "inserted")
    /\ capabilities' = capabilities \cup {transactions[p].authorization}
    /\ \E answer \in {"consumed", "unavailable"} : Release(p, answer)

(* Any statement can fail; ROLLBACK leaves no row.                         *)
rollback(p) ==
    /\ transactions[p].step \in {"begun", "locked", "absent", "inserted"}
    /\ Release(p, "unavailable")
    /\ UNCHANGED capabilities

CapabilityNext ==
    \E p \in Processes :
        \/ \E authorization \in Authorizations : consume(p, authorization)
        \/ connectFails(p)
        \/ lockNonceScope(p)
        \/ selectExisting(p)
        \/ insertCapability(p)
        \/ commit(p)
        \/ rollback(p)

CapabilitySpec == CapabilityInit /\ [][CapabilityNext]_repositoryVars

-----------------------------------------------------------------------------
(* What the callers have been told.                                        *)
ConsumeAnswers == [p \in Processes |-> transactions[p].answer]

OneUse == INSTANCE OneUseAuthorizations WITH
    Callers <- Processes, consumed <- capabilities, answers <- ConsumeAnswers

(* Whatever statements of other transactions run in between, consume of    *)
(* the database is one atomic step that takes an unused authorization, or  *)
(* a refusal (evidence-bundle-service.test.ts: "retains nonce consumption  *)
(* across repository re-instantiation and concurrent services").           *)
ImplementsOneUse == OneUse!OneUseSpec
=============================================================================
