------------------------------ MODULE AuditAnchor ------------------------------
(***************************************************************************)
(* contracts/AuditAnchor.sol: commitments to batches of audit entries, each*)
(* naming the commitment before it.  Submitters whose grants governance    *)
(* and time change race to extend the chain.  A transaction is one step; a *)
(* revert is no step.                                                      *)
(***************************************************************************)
EXTENDS Naturals, FiniteSets, SequencesExt

CONSTANTS
    BatchIds, Commitments, Submitters,
    Zero,             \* bytes32(0)
    MaxSequence       \* bound on the audit sequence numbers submitted

VARIABLES
    anchors, lastBatchId, lastCommitment, anchoredBatchCount,
    authorized       \* the submitters with an active credential and audit.anchor

anchorVars == <<anchors, lastBatchId, lastCommitment, anchoredBatchCount, authorized>>

NoAnchor == [version |-> 0]
Sequence == 0 .. MaxSequence
Anchor == [version : {1}, firstSequence : Sequence, lastSequence : Sequence, eventCount : Sequence,
           commitment : Commitments, previousCommitment : Commitments \cup {Zero},
           submitter : Submitters]

Anchored == {b \in BatchIds : anchors[b].version # 0}

AnchorTypeOK ==
    /\ anchors \in [BatchIds -> Anchor \cup {NoAnchor}]
    /\ lastBatchId \in BatchIds \cup {Zero}
    /\ lastCommitment \in Commitments \cup {Zero}
    /\ anchoredBatchCount \in Nat
    /\ authorized \subseteq Submitters

AnchorInit ==
    /\ anchors = [b \in BatchIds |-> NoAnchor]
    /\ lastBatchId = Zero
    /\ lastCommitment = Zero
    /\ anchoredBatchCount = 0
    /\ authorized = {}

Record(sender, batch, first, last, count, commitment, previous) ==
    /\ anchors' = [anchors EXCEPT ![batch] =
          [version |-> 1, firstSequence |-> first, lastSequence |-> last, eventCount |-> count,
           commitment |-> commitment, previousCommitment |-> previous, submitter |-> sender]]
    /\ lastBatchId' = batch
    /\ lastCommitment' = commitment
    /\ anchoredBatchCount' = anchoredBatchCount + 1
    /\ UNCHANGED authorized

Mutant_anyPredecessor(sender, batch, first, last, count, commitment, previous) ==
    /\ anchors[batch].version = 0
    /\ first # 0 /\ last >= first /\ count # 0 /\ count = last - first + 1
    /\ previous \in {lastCommitment} \cup {anchors[b].commitment : b \in Anchored}
    /\ sender \in authorized
    /\ Record(sender, batch, first, last, count, commitment, previous)

(* version and finalEventHash are nonzero inputs that are stored as given. *)
anchorBatch(sender, batch, first, last, count, commitment, previous) ==
    /\ anchors[batch].version = 0
    /\ first # 0 /\ last >= first /\ count # 0 /\ count = last - first + 1
    /\ previous = lastCommitment
    /\ sender \in authorized
    /\ Record(sender, batch, first, last, count, commitment, previous)

SubmittersChange ==
    /\ authorized' \in SUBSET Submitters
    /\ UNCHANGED <<anchors, lastBatchId, lastCommitment, anchoredBatchCount>>

AnchorNext ==
    \/ \E sender \in Submitters, batch \in BatchIds, first, last, count \in Sequence,
          commitment \in Commitments, previous \in Commitments \cup {Zero} :
             anchorBatch(sender, batch, first, last, count, commitment, previous)
    \/ SubmittersChange

AnchorSpec == AnchorInit /\ [][AnchorNext]_anchorVars

-----------------------------------------------------------------------------
(* s is a way to read the anchored batches back as one chain.              *)
IsChain(s) ==
    /\ \A i \in DOMAIN s :
          anchors[s[i]].previousCommitment = IF i = 1 THEN Zero ELSE anchors[s[i - 1]].commitment
    /\ IF s = <<>> THEN lastCommitment = Zero
       ELSE lastBatchId = Last(s) /\ lastCommitment = anchors[Last(s)].commitment

(* Whichever submitters race, and even when a commitment value repeats,    *)
(* all anchored batches form one chain from the zero commitment to         *)
(* lastCommitment, ending at lastBatchId, and anchoredBatchCount is its    *)
(* length: no batch is dropped or forks off (anchorBatch).                 *)
OneChain ==
    /\ anchoredBatchCount = Cardinality(Anchored)
    /\ \E s \in SetToSeqs(Anchored) : IsChain(s)
================================================================================
