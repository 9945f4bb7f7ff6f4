-------------------------- MODULE EvidenceLifecycle --------------------------
(***************************************************************************)
(* What a claim, its verifications and its disputes may go through,        *)
(* whoever keeps the record.  The contract (EvidenceRegistry) and the      *)
(* off-chain ledger (EvidenceLedger) both implement it: they differ only   *)
(* in when the disputes of a version that is no longer active are closed.  *)
(***************************************************************************)
EXTENDS Naturals, Sequences

CONSTANTS Claims, Verifications, Disputes, Organizations

VARIABLES
    history,         \* claim -> its versions in order: [issuer, status]
    verified,        \* verification -> [claim, version, verifier, status]
    disputed         \* dispute -> [claim, version, status]

Nothing == [status |-> "none"]

IsActive(claim, version) ==
    /\ version \in DOMAIN history[claim]
    /\ history[claim][version].status = "active"

OpenOn(claim, version) ==
    {d \in Disputes : disputed[d].status = "open" /\ disputed[d].claim = claim
                                                  /\ disputed[d].version = version}

Closing(closed, status) ==
    disputed' = [d \in Disputes |->
        IF d \in closed THEN [disputed[d] EXCEPT !.status = status] ELSE disputed[d]]

(* A first version, or one that supersedes the active version before it.   *)
ActivateFirst(claim, issuer) ==
    /\ history[claim] = <<>>
    /\ history' = [history EXCEPT ![claim] = <<[issuer |-> issuer, status |-> "active"]>>]
    /\ UNCHANGED <<verified, disputed>>

Supersede(claim, n, issuer) ==
    /\ n = Len(history[claim])
    /\ IsActive(claim, n)
    /\ history' = [history EXCEPT ![claim] =
          SubSeq(@, 1, n - 1) \o <<[issuer |-> @[n].issuer, status |-> "superseded"],
                                   [issuer |-> issuer, status |-> "active"]>>]
    /\ \E closed \in SUBSET OpenOn(claim, n) : Closing(closed, "closed-by-supersession")
    /\ UNCHANGED verified

Revoke(claim, n) ==
    /\ n = Len(history[claim])
    /\ IsActive(claim, n)
    /\ history' = [history EXCEPT ![claim][n].status = "revoked"]
    /\ \E closed \in SUBSET OpenOn(claim, n) : Closing(closed, "referred-external")
    /\ UNCHANGED verified

Verify(v, claim, version, verifier) ==
    /\ verified[v] = Nothing
    /\ IsActive(claim, version)
    /\ history[claim][version].issuer # verifier
    /\ verified' = [verified EXCEPT ![v] =
          [claim |-> claim, version |-> version, verifier |-> verifier, status |-> "active"]]
    /\ UNCHANGED <<history, disputed>>

WithdrawVerification(v) ==
    /\ verified[v].status = "active"
    /\ verified' = [verified EXCEPT ![v].status = "withdrawn"]
    /\ UNCHANGED <<history, disputed>>

OpenDispute(d, claim, version) ==
    /\ disputed[d] = Nothing
    /\ IsActive(claim, version)
    /\ disputed' = [disputed EXCEPT ![d] = [claim |-> claim, version |-> version, status |-> "open"]]
    /\ UNCHANGED <<history, verified>>

(* The opener gives up or goes elsewhere, or the version is dead.          *)
EndDispute(d) ==
    /\ disputed[d].status = "open"
    /\ LET version == history[disputed[d].claim][disputed[d].version] IN
       \/ Closing({d}, "withdrawn")
       \/ Closing({d}, "referred-external")
       \/ version.status = "superseded" /\ Closing({d}, "closed-by-supersession")
    /\ UNCHANGED <<history, verified>>

LifecycleInit ==
    /\ history = [c \in Claims |-> <<>>]
    /\ verified = [v \in Verifications |-> Nothing]
    /\ disputed = [d \in Disputes |-> Nothing]

LifecycleNext ==
    \/ \E c \in Claims, o \in Organizations : ActivateFirst(c, o)
    \/ \E c \in Claims : \E n \in DOMAIN history[c] :
          \/ Revoke(c, n)
          \/ \E o \in Organizations : Supersede(c, n, o)
          \/ \E o \in Organizations, v \in Verifications : Verify(v, c, n, o)
          \/ \E d \in Disputes : OpenDispute(d, c, n)
    \/ \E v \in Verifications : WithdrawVerification(v)
    \/ \E d \in Disputes : EndDispute(d)

LifecycleSpec == LifecycleInit /\ [][LifecycleNext]_<<history, verified, disputed>>
==============================================================================
