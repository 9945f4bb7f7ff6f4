---------------------- MODULE PostgresEvidenceRepository ----------------------
(***************************************************************************)
(* src/evidence/postgres-evidence-repository.ts: the history of claims in  *)
(* two tables, written by concurrent transactions (READ COMMITTED) that    *)
(* may be lost at any statement.  activate serializes the writers of a     *)
(* claim with an advisory lock and locks the row it supersedes; revoke is  *)
(* one statement that waits for that row lock and takes no advisory lock.  *)
(* A statement that waits is a step that is not enabled.                   *)
(***************************************************************************)
EXTENDS Naturals, Sequences, FiniteSets

CONSTANTS
    ClaimIds, EvidenceIds, OrganizationIds,
    TransactionIds,         \* clients of the pool
    MaxVersion              \* bound on record_version

VARIABLES
    claims,                 \* committed rows of battery_evidence.claims
    evidenceVersions,       \* committed rows of battery_evidence.evidence_versions
    transactions            \* activations in progress

repositoryVars == <<claims, evidenceVersions, transactions>>

Versions == 1 .. MaxVersion
Idle == [at |-> "idle"]

RepositoryInit ==
    /\ claims = {}
    /\ evidenceVersions = {}
    /\ transactions = [t \in TransactionIds |-> Idle]

Running(t) == transactions[t].at # "idle"
LocksRow(t, row) ==
    /\ transactions[t].at \in {"selected", "inserted"}
    /\ transactions[t].claim = row.claim /\ transactions[t].prior = row.version

Latest(claim) ==
    {r \in claims : r.claim = claim /\ \A s \in claims : s.claim = claim => s.version <= r.version}
PriorVersion(claim) == IF Latest(claim) = {} THEN 0 ELSE (CHOOSE r \in Latest(claim) : TRUE).version

End(t) == transactions' = [transactions EXCEPT ![t] = Idle]

(* BEGIN and pg_advisory_xact_lock, which waits until no other transaction *)
(* holds the claim.                                                        *)
activate(t, claim, version, evidence, issuer, expected) ==
    /\ ~Running(t)
    /\ \A u \in TransactionIds : ~(Running(u) /\ transactions[u].claim = claim)
    /\ transactions' = [transactions EXCEPT ![t] =
          [at |-> "locked", claim |-> claim, version |-> version, evidence |-> evidence,
           issuer |-> issuer, expected |-> expected, prior |-> 0]]
    /\ UNCHANGED <<claims, evidenceVersions>>

(* SELECT ... FOR UPDATE, then the comparison with the expected prior.     *)
IsSuccessor(t, prior) ==
    /\ prior = transactions[t].expected
    /\ transactions[t].version = prior + 1
    /\ prior > 0 => \A r \in Latest(transactions[t].claim) : r.status = "active"

selectCurrent(t) ==
    /\ transactions[t].at = "locked"
    /\ \A r \in Latest(transactions[t].claim), u \in TransactionIds \ {t} : ~LocksRow(u, r)
    /\ LET prior == PriorVersion(transactions[t].claim) IN
       \/ /\ IsSuccessor(t, prior)
          /\ transactions' = [transactions EXCEPT ![t].at = "selected", ![t].prior = prior]
       \/ /\ ~IsSuccessor(t, prior)
          /\ End(t)
    /\ UNCHANGED <<claims, evidenceVersions>>

(* The two UPDATEs and the two INSERTs.  A primary key that another open   *)
(* transaction has inserted is waited for; one already stored is an error. *)
SameKey(t, row) ==
    /\ row.version = transactions[t].version
    /\ row.evidence = transactions[t].evidence \/ row.claim = transactions[t].claim

insertVersion(t) ==
    /\ transactions[t].at = "selected"
    /\ \A u \in TransactionIds \ {t} : transactions[u].at = "inserted" => ~SameKey(t, transactions[u])
    /\ IF \E r \in evidenceVersions : SameKey(t, r)
       THEN End(t)
       ELSE transactions' = [transactions EXCEPT ![t].at = "inserted"]
    /\ UNCHANGED <<claims, evidenceVersions>>

Superseded(rows, t) ==
    {IF r.claim = transactions[t].claim /\ r.version = transactions[t].prior /\ r.status = "active"
     THEN [r EXCEPT !.status = "superseded"] ELSE r : r \in rows}

Mutant_Commit(t) ==
    LET row == [claim |-> transactions[t].claim, version |-> transactions[t].version,
                issuer |-> transactions[t].issuer, status |-> "active"]
        evidence == [evidence |-> transactions[t].evidence, claim |-> row.claim,
                     version |-> row.version, status |-> "active"] IN
    /\ transactions[t].at = "inserted"
    /\ claims' = Superseded(claims, t) \cup {row}
    /\ evidenceVersions' = evidenceVersions \cup {evidence}
    /\ End(t)

Commit(t) ==
    LET row == [claim |-> transactions[t].claim, version |-> transactions[t].version,
                issuer |-> transactions[t].issuer, status |-> "active"]
        evidence == [evidence |-> transactions[t].evidence, claim |-> row.claim,
                     version |-> row.version, status |-> "active"] IN
    /\ transactions[t].at = "inserted"
    /\ claims' = Superseded(claims, t) \cup {row}
    /\ evidenceVersions' = Superseded(evidenceVersions, t) \cup {evidence}
    /\ End(t)

(* The connection or the process is lost: everything is rolled back.       *)
Rollback(t) ==
    /\ Running(t)
    /\ End(t)
    /\ UNCHANGED <<claims, evidenceVersions>>

Mutant_revokeWithoutWaiting(row) ==
    /\ row.status = "active"
    /\ claims' = (claims \ {row}) \cup {[row EXCEPT !.status = "revoked"]}
    /\ UNCHANGED <<evidenceVersions, transactions>>

revoke(row) ==
    /\ row.status = "active"
    /\ \A t \in TransactionIds : ~LocksRow(t, row)
    /\ claims' = (claims \ {row}) \cup {[row EXCEPT !.status = "revoked"]}
    /\ UNCHANGED <<evidenceVersions, transactions>>

RepositoryNext ==
    \/ \E t \in TransactionIds :
          \/ \E c \in ClaimIds, v \in Versions, e \in EvidenceIds, o \in OrganizationIds, p \in 0 .. MaxVersion - 1 :
                activate(t, c, v, e, o, p)
          \/ selectCurrent(t)
          \/ insertVersion(t)
          \/ Commit(t)
          \/ Rollback(t)
    \/ \E row \in claims : revoke(row)

RepositorySpec == RepositoryInit /\ [][RepositoryNext]_repositoryVars

-----------------------------------------------------------------------------
RowOf(claim, version) == CHOOSE r \in claims : r.claim = claim /\ r.version = version

Lifecycle == INSTANCE EvidenceLifecycle WITH
    Claims <- ClaimIds, Verifications <- {}, Disputes <- {}, Organizations <- OrganizationIds,
    history <- [c \in ClaimIds |-> [v \in 1 .. Cardinality({r \in claims : r.claim = c}) |->
                   [issuer |-> RowOf(c, v).issuer, status |-> RowOf(c, v).status]]],
    verified <- <<>>, disputed <- <<>>

(* history() of every claim goes through what the contract's and the       *)
(* ledger's history go through, whatever transactions overlap, are refused *)
(* or are lost (activate, revoke, history).                                *)
ImplementsLifecycle == Lifecycle!LifecycleSpec

(* The tables move together: every version of a claim has one row in each, *)
(* superseded in both or in neither, although four statements write them   *)
(* and any of them may be the last (activate).                             *)
TablesAgree ==
    \A r \in claims :
        \E e \in evidenceVersions :
            /\ \A f \in evidenceVersions : f.claim = r.claim /\ f.version = r.version <=> f = e
            /\ e.status = "superseded" <=> r.status = "superseded"
===============================================================================
