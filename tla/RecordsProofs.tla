---------------------------- MODULE RecordsProofs ----------------------------
(***************************************************************************)
(* The two record-keeping contracts for every set of keys, grants, links,  *)
(* submitters and batches: what EvidenceRegistry records stays backed and  *)
(* goes through the lifecycle of EvidenceLifecycle, and AuditAnchor keeps  *)
(* one chain.                                                              *)
(***************************************************************************)
EXTENDS EvidenceRegistry, AuditAnchor, FiniteSetTheorems, SequenceTheorems, TLAPS

-----------------------------------------------------------------------------
(* AuditAnchor.                                                            *)

(* The anchored batches are finitely many; they make one chain.            *)
AnchorInv == AnchorTypeOK /\ IsFiniteSet(Anchored) /\ OneChain

LEMMA AnchorInvInit == AnchorInit => AnchorInv
<1> SUFFICES ASSUME AnchorInit PROVE AnchorInv
    OBVIOUS
<1>1. AnchorTypeOK
    BY DEF AnchorInit, AnchorTypeOK
<1>2. Anchored = {}
    BY DEF AnchorInit, Anchored, NoAnchor
<1>3. IsFiniteSet(Anchored) /\ Cardinality(Anchored) = 0
    BY <1>2, FS_EmptySet
<1>4. <<>> \in SetToSeqs(Anchored) /\ IsChain(<<>>)
    BY <1>2, <1>3 DEF SetToSeqs, IsChain, AnchorInit
<1> QED BY <1>1, <1>3, <1>4 DEF AnchorInv, OneChain, AnchorInit

LEMMA FunctionsAreSequences ==
    ASSUME NEW T, NEW n \in Nat, NEW t \in [1 .. n -> T]
    PROVE  t \in Seq(T) /\ Len(t) = n /\ DOMAIN t = 1 .. n
    OBVIOUS

LEMMA SequencesAreFunctions ==
    ASSUME NEW T, NEW t \in Seq(T)
    PROVE  t \in [1 .. Len(t) -> T]
    OBVIOUS

(* A batch appended to the sequence of the others.                         *)
LEMMA ChainExtends ==
    ASSUME NEW S, IsFiniteSet(S), NEW b, b \notin S, NEW s \in SetToSeqs(S)
    PROVE  /\ Cardinality(S \cup {b}) = Cardinality(S) + 1 /\ IsFiniteSet(S \cup {b})
           /\ Append(s, b) \in SetToSeqs(S \cup {b})
           /\ Len(s) \in Nat /\ DOMAIN s = 1 .. Len(s) /\ DOMAIN Append(s, b) = 1 .. Len(s) + 1
           /\ \A i \in 1 .. Len(s) : Append(s, b)[i] = s[i] /\ s[i] \in S
           /\ Append(s, b)[Len(s) + 1] = b
           /\ s # <<>> => Len(s) \in 1 .. Len(s) /\ Last(s) = s[Len(s)]
           /\ s = <<>> => Len(s) = 0
           /\ Append(s, b) # <<>> /\ Last(Append(s, b)) = b
<1> DEFINE n == Cardinality(S)
<1>1. n \in Nat /\ Cardinality(S \cup {b}) = n + 1 /\ IsFiniteSet(S \cup {b})
    BY FS_CardinalityType, FS_AddElement
<1>2. s \in [1 .. n -> S] /\ \A i, j \in 1 .. n : i # j => s[i] # s[j]
    BY DEF SetToSeqs
<1> HIDE DEF n
<1>3. s \in Seq(S) /\ Len(s) = n
    BY <1>1, <1>2
<1>4. /\ Append(s, b) \in [1 .. n + 1 -> S \cup {b}]
      /\ \A i \in 1 .. n : Append(s, b)[i] = s[i] /\ s[i] \in S
      /\ Append(s, b)[n + 1] = b
  <2>1. s \in Seq(S \cup {b}) /\ b \in S \cup {b}
      BY <1>1, <1>2
  <2>2. Append(s, b) \in Seq(S \cup {b}) /\ Len(Append(s, b)) = n + 1
      BY <1>3, <2>1
  <2>3. Append(s, b) \in [1 .. n + 1 -> S \cup {b}]
    <3>1. Append(s, b) \in [1 .. Len(Append(s, b)) -> S \cup {b}]
        BY <2>2, SequencesAreFunctions, ZenonT(60)
    <3> QED BY <2>2, <3>1, ZenonT(60)
  <2>4. \A i \in 1 .. n : Append(s, b)[i] = s[i]
      BY <1>3
  <2>5. Append(s, b)[n + 1] = b
      BY <1>3
  <2> QED BY <1>2, <2>3, <2>4, <2>5, ZenonT(60)
<1>5. \A i, j \in 1 .. n + 1 : i # j => Append(s, b)[i] # Append(s, b)[j]
  <2> SUFFICES ASSUME NEW i \in 1 .. n + 1, NEW j \in 1 .. n + 1, i # j PROVE Append(s, b)[i] # Append(s, b)[j]
      BY ZenonT(60)
  <2>1. CASE i \in 1 .. n /\ j \in 1 .. n
      BY <1>2, <1>4, <2>1, ZenonT(60)
  <2>2. CASE i = n + 1 /\ j \in 1 .. n
      BY <1>4, <2>2
  <2>3. CASE i \in 1 .. n /\ j = n + 1
      BY <1>4, <2>3
  <2>4. (i \in 1 .. n \/ i = n + 1) /\ (j \in 1 .. n \/ j = n + 1)
      BY <1>1
  <2> QED BY <2>1, <2>2, <2>3, <2>4, ZenonT(60)
<1>6. Append(s, b) \in SetToSeqs(S \cup {b})
    BY <1>1, <1>4, <1>5, ZenonT(60) DEF SetToSeqs
<1>7. s # <<>> => Len(s) \in 1 .. Len(s) /\ Last(s) = s[Len(s)]
    BY <1>3 DEF Last
<1>8. Append(s, b) # <<>> /\ Last(Append(s, b)) = b
    BY <1>3 DEF Last
<1> QED BY <1>1, <1>3, <1>4, <1>6, <1>7, <1>8, SMTT(60) DEF n

LEMMA AnchorInvStep == AnchorInv /\ [AnchorNext]_anchorVars => AnchorInv'
<1> SUFFICES ASSUME AnchorInv, [AnchorNext]_anchorVars PROVE AnchorInv'
    OBVIOUS
<1>1. CASE UNCHANGED <<anchors, lastBatchId, lastCommitment, anchoredBatchCount>> /\ authorized' \subseteq Submitters
    BY <1>1, ZenonT(60) DEF AnchorInv, AnchorTypeOK, Anchored, OneChain, IsChain
<1>2. CASE UNCHANGED anchorVars
    BY <1>1, <1>2 DEF anchorVars, AnchorInv, AnchorTypeOK
<1>3. CASE SubmittersChange
    BY <1>1, <1>3 DEF SubmittersChange
<1>4. ASSUME NEW sender \in Submitters, NEW batch \in BatchIds, NEW first \in Sequence, NEW last \in Sequence,
             NEW count \in Sequence, NEW commitment \in Commitments, NEW previous \in Commitments \cup {Zero},
             anchorBatch(sender, batch, first, last, count, commitment, previous)
      PROVE  AnchorInv'
  <2> DEFINE new == [version |-> 1, firstSequence |-> first, lastSequence |-> last, eventCount |-> count,
                     commitment |-> commitment, previousCommitment |-> previous, submitter |-> sender]
  <2>1. /\ anchors[batch].version = 0 /\ previous = lastCommitment
        /\ anchors' = [anchors EXCEPT ![batch] = new] /\ lastBatchId' = batch /\ lastCommitment' = commitment
        /\ anchoredBatchCount' = anchoredBatchCount + 1 /\ authorized' = authorized
      BY <1>4 DEF anchorBatch, Record
  <2>2. AnchorTypeOK /\ IsFiniteSet(Anchored) /\ anchoredBatchCount = Cardinality(Anchored)
      BY DEF AnchorInv, OneChain
  <2>3. new \in Anchor /\ new.version = 1 /\ new.commitment = commitment /\ new.previousCommitment = previous
      BY DEF Anchor
  <2> HIDE DEF new
  <2>4. AnchorTypeOK'
      BY <2>1, <2>2, <2>3, SMTT(60) DEF AnchorTypeOK
  <2>5. anchors'[batch] = new /\ \A b \in BatchIds \ {batch} : anchors'[b] = anchors[b]
      BY <2>1, <2>2 DEF AnchorTypeOK
  <2>6. batch \notin Anchored /\ Anchored' = Anchored \cup {batch}
      BY <2>1, <2>3, <2>5, SMTT(60) DEF Anchored
  <2>7. PICK s \in SetToSeqs(Anchored) : IsChain(s)
      BY DEF AnchorInv, OneChain
  <2> DEFINE t == Append(s, batch)
  <2>8. /\ Cardinality(Anchored \cup {batch}) = Cardinality(Anchored) + 1 /\ IsFiniteSet(Anchored \cup {batch})
        /\ t \in SetToSeqs(Anchored \cup {batch})
        /\ Len(s) \in Nat /\ DOMAIN s = 1 .. Len(s) /\ DOMAIN t = 1 .. Len(s) + 1
        /\ \A i \in 1 .. Len(s) : t[i] = s[i] /\ s[i] \in Anchored
        /\ t[Len(s) + 1] = batch
        /\ s # <<>> => Len(s) \in 1 .. Len(s) /\ Last(s) = s[Len(s)]
        /\ s = <<>> => Len(s) = 0
        /\ t # <<>> /\ Last(t) = batch
      BY <2>2, <2>6, ChainExtends, SMTT(60)
  <2> HIDE DEF t
  <2>9. \A i \in 1 .. Len(s) : anchors'[s[i]] = anchors[s[i]]
      BY <2>5, <2>6, <2>8 DEF Anchored
  <2>10. ASSUME NEW i \in DOMAIN t
         PROVE  anchors'[t[i]].previousCommitment = IF i = 1 THEN Zero ELSE anchors'[t[i - 1]].commitment
    <3>1. CASE i \in 1 .. Len(s)
      <4>1. anchors'[t[i]] = anchors[s[i]]
          BY <2>8, <2>9, <3>1
      <4>2. i # 1 => anchors'[t[i - 1]] = anchors[s[i - 1]]
          BY <2>8, <2>9, <3>1
      <4> QED BY <2>7, <2>8, <3>1, <4>1, <4>2, SMTT(60) DEF IsChain
    <3>2. CASE i = Len(s) + 1 /\ s = <<>>
        BY <2>1, <2>3, <2>5, <2>7, <2>8, <3>2, SMTT(60) DEF IsChain
    <3>3. CASE i = Len(s) + 1 /\ s # <<>>
      <4>1. i # 1 /\ t[i - 1] = Last(s) /\ anchors'[Last(s)] = anchors[Last(s)] /\ t[i] = batch
          BY <2>8, <2>9, <3>3
      <4>2. lastCommitment = anchors[Last(s)].commitment
          BY <2>7, <3>3 DEF IsChain
      <4> QED BY <2>1, <2>3, <2>5, <4>1, <4>2, ZenonT(60)
    <3> QED BY <2>8, <3>1, <3>2, <3>3, SMTT(60)
  <2>11. IsChain(t)'
    <3>1. lastBatchId' = Last(t) /\ lastCommitment' = anchors'[Last(t)].commitment
        BY <2>1, <2>3, <2>5, <2>8
    <3> QED BY <2>8, <2>10, <3>1, ZenonT(60) DEF IsChain
  <2>12. OneChain'
      BY <2>1, <2>2, <2>6, <2>8, <2>11, ZenonT(60) DEF OneChain
  <2> QED BY <2>4, <2>6, <2>8, <2>12 DEF AnchorInv
<1> QED BY <1>2, <1>3, <1>4 DEF AnchorNext

(* anchorBatch: whichever submitters race, and however grants change, the  *)
(* anchored batches form one chain from the zero commitment to             *)
(* lastCommitment, and anchoredBatchCount is its length.                   *)
THEOREM AnchorsFormOneChain == AnchorSpec => []OneChain
<1>1. AnchorInv => OneChain
    BY DEF AnchorInv
<1> QED BY <1>1, AnchorInvInit, AnchorInvStep, PTL DEF AnchorSpec

-----------------------------------------------------------------------------
(* EvidenceRegistry: the inductive invariant.                              *)

(* The versions of a claim are the ones up to the current.                 *)
VersionsAreDense ==
    \A c \in ClaimKeys, v \in Versions : evidenceVersions[c][v] = Unset <=> v > currentVersion[c]

EvidenceInv == EvidenceTypeOK /\ RecordsAreBacked /\ VersionsAreDense

(* What is on record, by whether it was set.                               *)
LEMMA RecordFacts ==
    ASSUME EvidenceTypeOK
    PROVE  /\ \A c \in ClaimKeys, v \in Versions :
                 /\ evidenceVersions[c][v] # Unset => evidenceVersions[c][v] \in EvidenceVersion
                 /\ evidenceVersions[c][v] = Unset <=> evidenceVersions[c][v].status = "Unset"
           /\ \A a \in AssertionKeys :
                 /\ assertions[a] # Unset => assertions[a] \in VerificationAssertion
                 /\ assertions[a] = Unset <=> assertions[a].status = "Unset"
           /\ \A d \in DisputeKeys :
                 /\ disputes[d] # Unset => disputes[d] \in Dispute
                 /\ disputes[d] = Unset <=> disputes[d].status = "Unset"
<1>1. /\ Unset.status = "Unset"
      /\ \A e \in EvidenceVersion : e.status # "Unset"
      /\ \A e \in VerificationAssertion : e.status # "Unset"
      /\ \A e \in Dispute : e.status # "Unset"
    BY DEF Unset, EvidenceVersion, VerificationAssertion, Dispute, DisputeStatus
<1>2. /\ \A c \in ClaimKeys, v \in Versions : evidenceVersions[c][v] \in EvidenceVersion \cup {Unset}
      /\ \A a \in AssertionKeys : assertions[a] \in VerificationAssertion \cup {Unset}
      /\ \A d \in DisputeKeys : disputes[d] \in Dispute \cup {Unset}
    BY DEF EvidenceTypeOK
<1> QED BY <1>1, <1>2, ZenonT(60)

LEMMA EvidenceInvInit == EvidenceInit => EvidenceInv
<1> SUFFICES ASSUME EvidenceInit PROVE EvidenceInv
    OBVIOUS
<1>1. 0 \in 0 .. MaxVersion /\ \A v \in Versions : v > 0
    BY EvidenceAssumption DEF Versions
<1>2. EvidenceTypeOK
    BY <1>1 DEF EvidenceInit, EvidenceTypeOK, LinksInit
<1>3. RecordsAreBacked
    BY ZenonT(60) DEF EvidenceInit, RecordsAreBacked
<1>4. VersionsAreDense
    BY <1>1, ZenonT(60) DEF EvidenceInit, VersionsAreDense
<1> QED BY <1>2, <1>3, <1>4 DEF EvidenceInv

(* A confirmed link stays confirmed, whatever the bundle registry does.    *)
LEMMA LinksStay ==
    ASSUME EvidenceInv, LinksNext \/ UNCHANGED <<links, critical>>, authority' \subseteq Grants, UNCHANGED recordVars
    PROVE  EvidenceInv'
<1>1. links \subseteq links' /\ critical \subseteq critical' /\ critical' \subseteq links' /\ links' \subseteq PossibleLinks
    BY DEF EvidenceInv, EvidenceTypeOK, LinksNext, Confirm, Promote
<1>2. EvidenceTypeOK'
    BY <1>1 DEF EvidenceInv, EvidenceTypeOK, recordVars
<1>3. RecordsAreBacked'
    BY <1>1, ZenonT(60) DEF EvidenceInv, RecordsAreBacked, ConfirmedLink, recordVars
<1>4. VersionsAreDense'
    BY ZenonT(60) DEF EvidenceInv, VersionsAreDense, recordVars
<1> QED BY <1>2, <1>3, <1>4 DEF EvidenceInv

(* Records are backed after a step of the contract when those it has       *)
(* rewritten are.                                                          *)
LEMMA BackedByTheSameLinks ==
    ASSUME UNCHANGED <<links, critical>>,
           \A c \in ClaimKeys, v \in Versions : evidenceVersions'[c][v] # Unset =>
              ConfirmedLink(evidenceVersions'[c][v].link, "evidence", FALSE),
           \A a \in AssertionKeys : assertions'[a] # Unset =>
              ConfirmedLink(assertions'[a].link, "verification", TRUE),
           \A d \in DisputeKeys : disputes'[d] # Unset => ConfirmedLink(disputes'[d].link, "dispute", TRUE)
    PROVE  RecordsAreBacked'
    BY DEF RecordsAreBacked, ConfirmedLink

(* The versions of a claim after activateEvidence.                         *)
LEMMA Activated ==
    ASSUME EvidenceInv, NEW g \in Grants, NEW claim \in ClaimKeys, NEW v \in Versions, NEW expected \in 0 .. MaxVersion,
           NEW link \in PossibleLinks, activateEvidence(g, claim, v, expected, link)
    PROVE  /\ expected = currentVersion[claim] /\ v = expected + 1
           /\ currentVersion' = [currentVersion EXCEPT ![claim] = v]
           /\ expected # 0 => expected \in Versions /\ evidenceVersions[claim][expected].status = "Active"
           /\ NewVersion(g, link) \in EvidenceVersion
           /\ evidenceVersions' \in [ClaimKeys -> [Versions -> EvidenceVersion \cup {Unset}]]
           /\ \A c \in ClaimKeys \ {claim} : evidenceVersions'[c] = evidenceVersions[c]
           /\ evidenceVersions'[claim][v] = NewVersion(g, link)
           /\ expected # 0 => /\ evidenceVersions'[claim][expected] =
                                    [evidenceVersions[claim][expected] EXCEPT !.status = "Superseded"]
                              /\ [evidenceVersions[claim][expected] EXCEPT !.status = "Superseded"] \in EvidenceVersion
           /\ \A w \in Versions \ {v, expected} : evidenceVersions'[claim][w] = evidenceVersions[claim][w]
<1> DEFINE old == evidenceVersions[claim]
           new == [w \in Versions |-> IF w = v THEN NewVersion(g, link)
                                      ELSE IF w = expected THEN [old[w] EXCEPT !.status = "Superseded"] ELSE old[w]]
<1>1. /\ expected = currentVersion[claim] /\ v = expected + 1
      /\ expected # 0 => old[expected].status = "Active"
      /\ currentVersion' = [currentVersion EXCEPT ![claim] = v]
    BY ZenonT(60) DEF activateEvidence
<1>2. evidenceVersions' = [evidenceVersions EXCEPT ![claim] = new]
    BY <1>1 DEF activateEvidence
<1>3. MaxVersion \in Nat /\ (expected # 0 => expected \in Versions) /\ expected # v
    BY <1>1, EvidenceAssumption DEF Versions
<1>4. EvidenceTypeOK
    BY DEF EvidenceInv
<1>5. NewVersion(g, link) \in EvidenceVersion
    BY DEF NewVersion, EvidenceVersion, Organizations, Credentials, Accounts
<1>6. ASSUME NEW e \in EvidenceVersion
      PROVE  [e EXCEPT !.status = "Superseded"] \in EvidenceVersion
    BY DEF EvidenceVersion
<1>7. expected # 0 => old[expected] \in EvidenceVersion
  <2>1. "Active" # "Unset"
      OBVIOUS
  <2> QED BY <1>1, <1>3, <1>4, <2>1, RecordFacts, ZenonT(60)
<1>8. \A w \in Versions : old[w] \in EvidenceVersion \cup {Unset}
    BY <1>4 DEF EvidenceTypeOK
<1>9. new \in [Versions -> EvidenceVersion \cup {Unset}]
  <2> SUFFICES ASSUME NEW w \in Versions PROVE new[w] \in EvidenceVersion \cup {Unset}
      BY ZenonT(60)
  <2>1. CASE w = v
      BY <1>5, <2>1
  <2>2. CASE w # v /\ w = expected
    <3>1. expected # 0
        BY <2>2, <1>3 DEF Versions
    <3> QED BY <1>6, <1>7, <2>2, <3>1
  <2>3. CASE w # v /\ w # expected
      BY <1>8, <2>3
  <2> QED BY <2>1, <2>2, <2>3
<1>10. /\ new[v] = NewVersion(g, link)
       /\ expected # 0 => new[expected] = [old[expected] EXCEPT !.status = "Superseded"]
       /\ \A w \in Versions \ {v, expected} : new[w] = old[w]
    BY <1>3
<1>11. DOMAIN evidenceVersions = ClaimKeys /\ evidenceVersions \in [ClaimKeys -> [Versions -> EvidenceVersion \cup {Unset}]]
    BY <1>4 DEF EvidenceTypeOK
<1> HIDE DEF new, old
<1>12. /\ evidenceVersions'[claim] = new
       /\ \A c \in ClaimKeys \ {claim} : evidenceVersions'[c] = evidenceVersions[c]
    BY <1>2, <1>11, ZenonT(60)
<1>13. evidenceVersions' \in [ClaimKeys -> [Versions -> EvidenceVersion \cup {Unset}]]
    BY <1>2, <1>9, <1>11
<1> QED BY <1>1, <1>3, <1>5, <1>6, <1>7, <1>10, <1>12, <1>13, ZenonT(60) DEF old

LEMMA ActivationKeeps ==
    ASSUME EvidenceInv, NEW g \in Grants, NEW claim \in ClaimKeys, NEW v \in Versions, NEW expected \in 0 .. MaxVersion,
           NEW link \in PossibleLinks, activateEvidence(g, claim, v, expected, link), UNCHANGED <<links, critical, authority>>
    PROVE  EvidenceInv'
<1>1. EvidenceTypeOK /\ RecordsAreBacked /\ VersionsAreDense /\ UNCHANGED <<assertions, disputes>>
      /\ ConfirmedLink(link, "evidence", FALSE)
    BY ZenonT(60) DEF EvidenceInv, activateEvidence
<1>2. /\ expected = currentVersion[claim] /\ v = expected + 1
      /\ currentVersion' = [currentVersion EXCEPT ![claim] = v]
      /\ expected # 0 => expected \in Versions /\ evidenceVersions[claim][expected].status = "Active"
      /\ NewVersion(g, link) \in EvidenceVersion
      /\ evidenceVersions' \in [ClaimKeys -> [Versions -> EvidenceVersion \cup {Unset}]]
      /\ \A c \in ClaimKeys \ {claim} : evidenceVersions'[c] = evidenceVersions[c]
      /\ evidenceVersions'[claim][v] = NewVersion(g, link)
      /\ expected # 0 => /\ evidenceVersions'[claim][expected] =
                               [evidenceVersions[claim][expected] EXCEPT !.status = "Superseded"]
                         /\ [evidenceVersions[claim][expected] EXCEPT !.status = "Superseded"] \in EvidenceVersion
      /\ \A w \in Versions \ {v, expected} : evidenceVersions'[claim][w] = evidenceVersions[claim][w]
    BY Activated
<1>3. currentVersion \in [ClaimKeys -> 0 .. MaxVersion] /\ MaxVersion \in Nat /\ v \in 1 .. MaxVersion
    BY <1>1, EvidenceAssumption DEF EvidenceTypeOK, Versions
<1>4. /\ currentVersion' \in [ClaimKeys -> 0 .. MaxVersion] /\ currentVersion'[claim] = v
      /\ \A c \in ClaimKeys \ {claim} : currentVersion'[c] = currentVersion[c]
    BY <1>2, <1>3
<1>5. EvidenceTypeOK'
    BY <1>1, <1>2, <1>4 DEF EvidenceTypeOK
<1>6. Unset \notin EvidenceVersion
    BY DEF Unset, EvidenceVersion
<1>7. ASSUME NEW w \in Versions
      PROVE  /\ evidenceVersions'[claim][w] = Unset <=> w > v
             /\ evidenceVersions'[claim][w] # Unset => ConfirmedLink(evidenceVersions'[claim][w].link, "evidence", FALSE)
  <2>1. w \in Nat /\ v \in Nat /\ expected \in Nat
      BY <1>3, SMTT(60) DEF Versions
  <2>2. CASE w = v
    <3>1. evidenceVersions'[claim][w] # Unset /\ evidenceVersions'[claim][w].link = link
        BY <1>2, <1>6, <2>2, SMTT(60) DEF NewVersion
    <3>2. ~ (w > v)
        BY <2>1, <2>2, SMTT(60)
    <3> QED BY <1>1, <3>1, <3>2, ZenonT(60)
  <2>3. CASE w = expected
    <3>1. expected # 0
        BY <1>3, <2>3, SMTT(60) DEF Versions
    <3>2. evidenceVersions[claim][expected] # Unset
        BY <1>1, <1>2, <3>1 DEF Unset
    <3>3. evidenceVersions[claim][expected] \in EvidenceVersion
        BY <1>1, <1>2, <3>1, <3>2, RecordFacts, ZenonT(60)
    <3>4. evidenceVersions'[claim][w] # Unset /\ evidenceVersions'[claim][w].link = evidenceVersions[claim][w].link
        BY <1>2, <1>6, <2>3, <3>1, <3>3, SMTT(60) DEF EvidenceVersion
    <3>5. ConfirmedLink(evidenceVersions[claim][w].link, "evidence", FALSE)
        BY <1>1, <2>3, <3>2, ZenonT(60) DEF RecordsAreBacked
    <3>6. ~ (w > v)
        BY <1>2, <2>1, <2>3
    <3> QED BY <3>4, <3>5, <3>6, ZenonT(60)
  <2>4. CASE w # v /\ w # expected
    <3>1. evidenceVersions'[claim][w] = evidenceVersions[claim][w]
        BY <1>2, <2>4
    <3>2. evidenceVersions[claim][w] = Unset <=> w > expected
        BY <1>1, <1>2, ZenonT(60) DEF VersionsAreDense
    <3>3. w > expected <=> w > v
        BY <1>2, <2>1, <2>4
    <3>4. evidenceVersions[claim][w] # Unset => ConfirmedLink(evidenceVersions[claim][w].link, "evidence", FALSE)
        BY <1>1, ZenonT(60) DEF RecordsAreBacked
    <3> QED BY <3>1, <3>2, <3>3, <3>4, ZenonT(60)
  <2> QED BY <2>2, <2>3, <2>4, ZenonT(60)
<1>8. VersionsAreDense'
  <2>1. \A c \in ClaimKeys \ {claim}, w \in Versions : evidenceVersions'[c][w] = Unset <=> w > currentVersion'[c]
      BY <1>1, <1>2, <1>4 DEF VersionsAreDense
  <2>2. \A w \in Versions : evidenceVersions'[claim][w] = Unset <=> w > currentVersion'[claim]
      BY <1>4, <1>7, ZenonT(60)
  <2> QED BY <2>1, <2>2, ZenonT(60) DEF VersionsAreDense
<1>9. RecordsAreBacked'
  <2>1. \A c \in ClaimKeys \ {claim}, w \in Versions : evidenceVersions'[c][w] # Unset =>
            ConfirmedLink(evidenceVersions'[c][w].link, "evidence", FALSE)
      BY <1>1, <1>2, ZenonT(60) DEF RecordsAreBacked
  <2>2. \A c \in ClaimKeys, w \in Versions : evidenceVersions'[c][w] # Unset =>
            ConfirmedLink(evidenceVersions'[c][w].link, "evidence", FALSE)
      BY <1>7, <2>1, ZenonT(60)
  <2> QED BY <1>1, <2>2, BackedByTheSameLinks, ZenonT(60) DEF RecordsAreBacked
<1> QED BY <1>5, <1>8, <1>9 DEF EvidenceInv

(* revokeEvidence changes the status of the current version alone.         *)
LEMMA RevocationKeeps ==
    ASSUME EvidenceInv, NEW sender, NEW claim \in ClaimKeys, NEW v \in Versions, revokeEvidence(sender, claim, v),
           UNCHANGED <<links, critical, authority>>
    PROVE  EvidenceInv'
<1>1. EvidenceTypeOK /\ RecordsAreBacked /\ VersionsAreDense /\ UNCHANGED <<currentVersion, assertions, disputes>>
    BY DEF EvidenceInv, revokeEvidence
<1> DEFINE new == [evidenceVersions[claim][v] EXCEPT !.status = "Revoked"]
<1>2. /\ evidenceVersions[claim][v].status = "Active"
      /\ evidenceVersions' = [evidenceVersions EXCEPT ![claim] = [evidenceVersions[claim] EXCEPT ![v] = new]]
    BY DEF revokeEvidence
<1>3. evidenceVersions[claim][v] # Unset /\ evidenceVersions[claim][v] \in EvidenceVersion
  <2>1. "Active" # "Unset"
      OBVIOUS
  <2> QED BY <1>1, <1>2, <2>1, RecordFacts, ZenonT(60)
<1>4. new \in EvidenceVersion /\ new # Unset /\ new.link = evidenceVersions[claim][v].link
    BY <1>3 DEF EvidenceVersion, Unset
<1> HIDE DEF new
<1>5. evidenceVersions \in [ClaimKeys -> [Versions -> EvidenceVersion \cup {Unset}]]
    BY <1>1 DEF EvidenceTypeOK
<1>6. /\ evidenceVersions' \in [ClaimKeys -> [Versions -> EvidenceVersion \cup {Unset}]]
      /\ evidenceVersions'[claim][v] = new
      /\ \A w \in Versions \ {v} : evidenceVersions'[claim][w] = evidenceVersions[claim][w]
      /\ \A c \in ClaimKeys \ {claim} : evidenceVersions'[c] = evidenceVersions[c]
    BY <1>2, <1>4, <1>5
<1>7. EvidenceTypeOK'
    BY <1>1, <1>6 DEF EvidenceTypeOK
<1>8. \A c \in ClaimKeys, w \in Versions :
          /\ evidenceVersions'[c][w] = Unset <=> evidenceVersions[c][w] = Unset
          /\ evidenceVersions[c][w] # Unset => evidenceVersions'[c][w].link = evidenceVersions[c][w].link
    BY <1>3, <1>4, <1>6, ZenonT(60)
<1>9. VersionsAreDense'
    BY <1>1, <1>8, ZenonT(60) DEF VersionsAreDense
<1>10. RecordsAreBacked'
  <2>1. \A c \in ClaimKeys, w \in Versions : evidenceVersions'[c][w] # Unset =>
            ConfirmedLink(evidenceVersions'[c][w].link, "evidence", FALSE)
      BY <1>1, <1>8, ZenonT(60) DEF RecordsAreBacked
  <2> QED BY <1>1, <2>1, BackedByTheSameLinks, ZenonT(60) DEF RecordsAreBacked
<1> QED BY <1>7, <1>9, <1>10 DEF EvidenceInv

(* Verifications and disputes that are recorded, or change their status.   *)
LEMMA AssertionsKeep ==
    ASSUME EvidenceInv, NEW a \in AssertionKeys, NEW new \in VerificationAssertion,
           assertions' = [assertions EXCEPT ![a] = new],
           ConfirmedLink(new.link, "verification", TRUE),
           UNCHANGED <<links, critical, authority, currentVersion, evidenceVersions, disputes>>
    PROVE  EvidenceInv'
<1>1. assertions'[a] = new /\ \A o \in AssertionKeys \ {a} : assertions'[o] = assertions[o]
    BY DEF EvidenceInv, EvidenceTypeOK
<1>2. EvidenceTypeOK'
    BY DEF EvidenceInv, EvidenceTypeOK
<1>3. RecordsAreBacked'
  <2>1. \A o \in AssertionKeys : assertions'[o] # Unset => ConfirmedLink(assertions'[o].link, "verification", TRUE)
      BY <1>1, ZenonT(60) DEF EvidenceInv, RecordsAreBacked
  <2> QED BY <2>1, BackedByTheSameLinks, ZenonT(60) DEF EvidenceInv, RecordsAreBacked
<1>4. VersionsAreDense'
    BY ZenonT(60) DEF EvidenceInv, VersionsAreDense
<1> QED BY <1>2, <1>3, <1>4 DEF EvidenceInv

LEMMA DisputesKeep ==
    ASSUME EvidenceInv, NEW d \in DisputeKeys, NEW new \in Dispute,
           disputes' = [disputes EXCEPT ![d] = new],
           ConfirmedLink(new.link, "dispute", TRUE),
           UNCHANGED <<links, critical, authority, currentVersion, evidenceVersions, assertions>>
    PROVE  EvidenceInv'
<1>1. disputes'[d] = new /\ \A o \in DisputeKeys \ {d} : disputes'[o] = disputes[o]
    BY DEF EvidenceInv, EvidenceTypeOK
<1>2. EvidenceTypeOK'
    BY DEF EvidenceInv, EvidenceTypeOK
<1>3. RecordsAreBacked'
  <2>1. \A o \in DisputeKeys : disputes'[o] # Unset => ConfirmedLink(disputes'[o].link, "dispute", TRUE)
      BY <1>1, ZenonT(60) DEF EvidenceInv, RecordsAreBacked
  <2> QED BY <2>1, BackedByTheSameLinks, ZenonT(60) DEF EvidenceInv, RecordsAreBacked
<1>4. VersionsAreDense'
    BY ZenonT(60) DEF EvidenceInv, VersionsAreDense
<1> QED BY <1>2, <1>3, <1>4 DEF EvidenceInv

(* A dispute that ends keeps what it is about.                             *)
LEMMA DisputeEnds ==
    ASSUME EvidenceInv, NEW d \in DisputeKeys, NEW status \in {"Withdrawn", "ReferredExternal", "ClosedBySupersession"},
           disputes[d].status = "Open"
    PROVE  /\ disputes[d] # Unset /\ disputes[d] \in Dispute
           /\ [disputes[d] EXCEPT !.status = status] \in Dispute
           /\ [disputes[d] EXCEPT !.status = status].link = disputes[d].link
           /\ [disputes[d] EXCEPT !.status = status].status = status
           /\ ConfirmedLink(disputes[d].link, "dispute", TRUE)
<1>1. "Open" # "Unset"
    OBVIOUS
<1>2. disputes[d] # Unset /\ disputes[d] \in Dispute
    BY <1>1, RecordFacts, ZenonT(60) DEF EvidenceInv
<1>3. /\ [disputes[d] EXCEPT !.status = status] \in Dispute
      /\ [disputes[d] EXCEPT !.status = status].link = disputes[d].link
      /\ [disputes[d] EXCEPT !.status = status].status = status
    BY <1>2 DEF Dispute, DisputeStatus
<1>4. ConfirmedLink(disputes[d].link, "dispute", TRUE)
    BY <1>2, ZenonT(60) DEF EvidenceInv, RecordsAreBacked
<1> QED BY <1>2, <1>3, <1>4, ZenonT(60)

LEMMA EvidenceInvStep == EvidenceInv /\ [EvidenceNext]_evidenceVars => EvidenceInv'
<1> SUFFICES ASSUME EvidenceInv, [EvidenceNext]_evidenceVars PROVE EvidenceInv'
    OBVIOUS
<1>1. authority \subseteq Grants /\ EvidenceTypeOK
    BY DEF EvidenceInv, EvidenceTypeOK
<1>2. CASE UNCHANGED evidenceVars
    BY <1>1, <1>2, LinksStay DEF evidenceVars
<1>3. CASE AuthorityChanges /\ UNCHANGED <<links, critical, recordVars>>
    BY <1>3, LinksStay DEF AuthorityChanges
<1>4. CASE LinksNext /\ UNCHANGED <<authority, recordVars>>
    BY <1>1, <1>4, LinksStay
<1>5. ASSUME UNCHANGED <<links, critical, authority>>, NEW g \in Grants, NEW claim \in ClaimKeys, NEW v \in Versions,
             NEW link \in PossibleLinks, NEW a \in AssertionKeys, NEW t \in AssertionType,
             createVerificationAssertion(g, a, claim, v, link, t)
      PROVE  EvidenceInv'
  <2> DEFINE new == [claimKey |-> claim, claimVersion |-> v, link |-> link,
                     verifierOrganizationId |-> g.organization, verifierCredentialId |-> g.credential,
                     verifier |-> g.account, assertionType |-> t, status |-> "Active"]
  <2>1. /\ assertions' = [assertions EXCEPT ![a] = new] /\ UNCHANGED <<currentVersion, evidenceVersions, disputes>>
        /\ ConfirmedLink(link, "verification", TRUE)
      BY <1>5, ZenonT(60) DEF createVerificationAssertion
  <2>2. new \in VerificationAssertion /\ new.link = link
      BY DEF VerificationAssertion, Organizations, Credentials, Accounts
  <2> HIDE DEF new
  <2> QED BY <1>5, <2>1, <2>2, AssertionsKeep, ZenonT(60)
<1>6. ASSUME UNCHANGED <<links, critical, authority>>, NEW sender, NEW a \in AssertionKeys,
             withdrawVerificationAssertion(sender, a)
      PROVE  EvidenceInv'
  <2> DEFINE new == [assertions[a] EXCEPT !.status = "Withdrawn"]
  <2>1. /\ assertions' = [assertions EXCEPT ![a] = new] /\ UNCHANGED <<currentVersion, evidenceVersions, disputes>>
        /\ assertions[a].status = "Active"
      BY <1>6, SMTT(60) DEF withdrawVerificationAssertion
  <2>2. "Active" # "Unset"
      OBVIOUS
  <2>3. assertions[a] # Unset /\ assertions[a] \in VerificationAssertion
      BY <1>1, <2>1, <2>2, RecordFacts, ZenonT(60)
  <2>4. new \in VerificationAssertion /\ new.link = assertions[a].link
      BY <2>3 DEF VerificationAssertion
  <2>5. ConfirmedLink(assertions[a].link, "verification", TRUE)
      BY <2>3, ZenonT(60) DEF EvidenceInv, RecordsAreBacked
  <2> HIDE DEF new
  <2> QED BY <1>6, <2>1, <2>4, <2>5, AssertionsKeep, ZenonT(60)
<1>7. ASSUME UNCHANGED <<links, critical, authority>>, NEW g \in Grants, NEW claim \in ClaimKeys, NEW v \in Versions,
             NEW link \in PossibleLinks, NEW d \in DisputeKeys, openEvidenceDispute(g, d, claim, v, link)
      PROVE  EvidenceInv'
  <2> DEFINE new == [claimKey |-> claim, claimVersion |-> v, link |-> link,
                     openerOrganizationId |-> g.organization, openerCredentialId |-> g.credential,
                     opener |-> g.account, status |-> "Open"]
  <2>1. /\ disputes' = [disputes EXCEPT ![d] = new] /\ UNCHANGED <<currentVersion, evidenceVersions, assertions>>
        /\ ConfirmedLink(link, "dispute", TRUE)
      BY <1>7, ZenonT(60) DEF openEvidenceDispute
  <2>2. new \in Dispute /\ new.link = link
      BY DEF Dispute, DisputeStatus, Organizations, Credentials, Accounts
  <2> HIDE DEF new
  <2> QED BY <1>7, <2>1, <2>2, DisputesKeep, ZenonT(60)
<1>8. ASSUME UNCHANGED <<links, critical, authority>>, NEW d \in DisputeKeys,
             NEW status \in {"Withdrawn", "ReferredExternal", "ClosedBySupersession"},
             disputes[d].status = "Open", UNCHANGED <<currentVersion, evidenceVersions, assertions>>,
             disputes' = [disputes EXCEPT ![d] = [disputes[d] EXCEPT !.status = status]]
      PROVE  EvidenceInv'
  <2> DEFINE new == [disputes[d] EXCEPT !.status = status]
  <2>1. new \in Dispute /\ new.link = disputes[d].link /\ ConfirmedLink(disputes[d].link, "dispute", TRUE)
      BY <1>8, DisputeEnds, ZenonT(60)
  <2> HIDE DEF new
  <2>2. disputes' = [disputes EXCEPT ![d] = new]
      BY <1>8 DEF new
  <2> QED BY <1>8, <2>1, <2>2, DisputesKeep, ZenonT(60)
<1>9. ASSUME UNCHANGED <<links, critical, authority>>, NEW d \in DisputeKeys, NEW sender,
             \/ \E status \in DisputeStatus : changeEvidenceDisputeState(sender, d, status)
             \/ closeEvidenceDisputeForLifecycle(sender, d)
      PROVE  EvidenceInv'
    BY <1>8, <1>9 DEF changeEvidenceDisputeState, closeEvidenceDisputeForLifecycle
<1>10. CASE RecordStep /\ UNCHANGED <<links, critical, authority>>
    BY <1>5, <1>6, <1>7, <1>9, <1>10, ActivationKeeps, RevocationKeeps, ZenonT(60) DEF RecordStep
<1> QED BY <1>2, <1>3, <1>4, <1>10 DEF EvidenceNext

(* The records stay typed and backed, and the versions of a claim are      *)
(* those from one to the current, whatever governance, time and the bundle *)
(* registry do in between.                                                 *)
THEOREM EvidenceInvariant == EvidenceSpec => []EvidenceInv
    BY EvidenceInvInit, EvidenceInvStep, PTL DEF EvidenceSpec

(* activateEvidence, createVerificationAssertion, openEvidenceDispute: what *)
(* they record names a bundle that is confirmed for its kind, critical     *)
(* where it must be, and that stays so for ever.                           *)
THEOREM RecordsStayBacked == EvidenceSpec => []RecordsAreBacked
<1>1. EvidenceInv => RecordsAreBacked
    BY DEF EvidenceInv
<1> QED BY <1>1, EvidenceInvariant, PTL

-----------------------------------------------------------------------------
(* EvidenceRegistry implements EvidenceLifecycle.                          *)

HistoryEntry == [issuer : Organizations, status : {"active", "superseded", "revoked"}]

Entry(e) == [issuer |-> e.issuerOrganizationId, status |-> StatusName[e.status]]

HistoryFrom(versions, records) == [c \in ClaimKeys |-> [v \in 1 .. versions[c] |-> Entry(records[c][v])]]

LEMMA EntryFacts ==
    ASSUME NEW e \in EvidenceVersion
    PROVE  /\ Entry(e) \in HistoryEntry /\ Entry(e).issuer = e.issuerOrganizationId
           /\ e.status = "Active" <=> Entry(e).status = "active"
           /\ e.status = "Superseded" <=> Entry(e).status = "superseded"
           /\ e.status = "Revoked" <=> Entry(e).status = "revoked"
<1>1. /\ StatusName["Active"] = "active" /\ StatusName["Superseded"] = "superseded"
      /\ StatusName["Revoked"] = "revoked"
    BY DEF StatusName
<1>2. e.status \in {"Active", "Superseded", "Revoked"} /\ e.issuerOrganizationId \in Organizations
    BY DEF EvidenceVersion
<1> QED BY <1>1, <1>2 DEF Entry, HistoryEntry

WellRecorded(versions, records) ==
    /\ versions \in [ClaimKeys -> 0 .. MaxVersion]
    /\ records \in [ClaimKeys -> [Versions -> EvidenceVersion \cup {Unset}]]
    /\ \A c \in ClaimKeys, v \in Versions : records[c][v] = Unset <=> v > versions[c]

LEMMA WellRecordedNow ==
    /\ EvidenceInv => WellRecorded(currentVersion, evidenceVersions)
    /\ EvidenceInv' => WellRecorded(currentVersion', evidenceVersions')
    BY ZenonT(60) DEF WellRecorded, EvidenceInv, EvidenceTypeOK, VersionsAreDense

LEMMA HistoryFacts ==
    ASSUME NEW versions, NEW records, WellRecorded(versions, records), NEW c \in ClaimKeys
    PROVE  /\ HistoryFrom(versions, records)[c] \in Seq(HistoryEntry)
           /\ Len(HistoryFrom(versions, records)[c]) = versions[c]
           /\ versions[c] \in Nat /\ DOMAIN HistoryFrom(versions, records)[c] = 1 .. versions[c]
           /\ \A v \in 1 .. versions[c] : /\ HistoryFrom(versions, records)[c][v] = Entry(records[c][v])
                                          /\ v \in Versions /\ records[c][v] \in EvidenceVersion
<1> DEFINE h == HistoryFrom(versions, records)[c]
<1>1. h = [v \in 1 .. versions[c] |-> Entry(records[c][v])]
    BY DEF HistoryFrom
<1>2. versions[c] \in Nat /\ MaxVersion \in Nat /\ versions[c] <= MaxVersion
    BY EvidenceAssumption DEF WellRecorded
<1>3. \A v \in 1 .. versions[c] : v \in Versions /\ ~ (v > versions[c])
    BY <1>2 DEF Versions
<1>4. \A v \in 1 .. versions[c] : records[c][v] \in EvidenceVersion
    BY <1>3 DEF WellRecorded
<1>5. h \in [1 .. versions[c] -> HistoryEntry]
    BY <1>1, <1>4, EntryFacts
<1>6. h \in Seq(HistoryEntry) /\ Len(h) = versions[c] /\ DOMAIN h = 1 .. versions[c]
    BY <1>2, <1>5, FunctionsAreSequences, ZenonT(60)
<1> QED BY <1>1, <1>2, <1>3, <1>4, <1>6, ZenonT(60)

LEMMA HistoryNow ==
    /\ RecordedHistory = HistoryFrom(currentVersion, evidenceVersions)
    /\ RecordedHistory' = HistoryFrom(currentVersion', evidenceVersions')
    BY DEF RecordedHistory, HistoryFrom, Entry

LEMMA SequencesEqual ==
    ASSUME NEW T, NEW s \in Seq(T), NEW t \in Seq(T), Len(s) = Len(t), \A i \in 1 .. Len(s) : s[i] = t[i]
    PROVE  s = t
    OBVIOUS

Prefix(s, n) == SubSeq(s, 1, n)

LEMMA PrefixFacts ==
    ASSUME NEW T, NEW s, NEW n \in Nat, \A i \in 1 .. n : s[i] \in T
    PROVE  Prefix(s, n) \in Seq(T) /\ Len(Prefix(s, n)) = n /\ \A i \in 1 .. n : Prefix(s, n)[i] = s[i]
<1>1. /\ SubSeq(s, 1, n) \in Seq(T)
      /\ Len(SubSeq(s, 1, n)) = IF 1 <= n THEN n - 1 + 1 ELSE 0
      /\ \A i \in 1 .. n - 1 + 1 : SubSeq(s, 1, n)[i] = s[1 + i - 1]
    BY SubSeqProperties
<1>2. n - 1 + 1 = n /\ (~ (1 <= n) => n = 0) /\ \A i \in 1 .. n : 1 + i - 1 = i
    OBVIOUS
<1> QED BY <1>1, <1>2 DEF Prefix

(* The last element is replaced by two.                                    *)
LEMMA Superseding ==
    ASSUME NEW T, NEW h \in Seq(T), h # <<>>, NEW x \in T, NEW y \in T
    PROVE  LET t == SubSeq(h, 1, Len(h) - 1) \o <<x, y>> IN
           /\ t \in Seq(T) /\ Len(t) = Len(h) + 1
           /\ \A i \in 1 .. Len(h) - 1 : t[i] = h[i]
           /\ t[Len(h)] = x /\ t[Len(h) + 1] = y
<1> DEFINE n == Len(h)
           k == n - 1
           f == Prefix(h, k)
<1>1. n \in Nat /\ n > 0 /\ k \in Nat
    OBVIOUS
<1>2. \A i \in 1 .. k : h[i] \in T
    BY <1>1
<1> HIDE DEF k
<1>3. f \in Seq(T) /\ Len(f) = k /\ \A i \in 1 .. k : f[i] = h[i]
    BY <1>1, <1>2, PrefixFacts
<1>4. <<x, y>> \in Seq(T) /\ Len(<<x, y>>) = 2 /\ <<x, y>>[1] = x /\ <<x, y>>[2] = y
    OBVIOUS
<1> HIDE DEF f, n
<1>5. f \o <<x, y>> \in Seq(T) /\ Len(f \o <<x, y>>) = n + 1
    BY <1>1, <1>3, <1>4 DEF k
<1>6. \A i \in 1 .. n - 1 : (f \o <<x, y>>)[i] = h[i]
    BY <1>1, <1>3, <1>4 DEF k
<1>7. (f \o <<x, y>>)[n] = x /\ (f \o <<x, y>>)[n + 1] = y
    BY <1>1, <1>3, <1>4, SMTT(60) DEF k
<1> QED BY <1>5, <1>6, <1>7, ZenonT(60) DEF f, n, k, Prefix

(* A step that leaves the other claims alone gives one claim a history.    *)
LEMMA HistoryAt ==
    ASSUME NEW claim \in ClaimKeys, NEW versions, NEW records, NEW newVersions, NEW newRecords,
           \A c \in ClaimKeys \ {claim} : newVersions[c] = versions[c] /\ newRecords[c] = records[c]
    PROVE  HistoryFrom(newVersions, newRecords) =
              [HistoryFrom(versions, records) EXCEPT ![claim] = HistoryFrom(newVersions, newRecords)[claim]]
    BY ZenonT(60) DEF HistoryFrom

LEMMA RecordsAreFunctions ==
    /\ RecordedVerifications = [a \in AssertionKeys |-> RecordedVerifications[a]]
    /\ RecordedDisputes = [d \in DisputeKeys |-> RecordedDisputes[d]]
    BY ZenonT(60) DEF RecordedVerifications, RecordedDisputes

(* The history of a claim in a state of the invariant.                     *)
LEMMA HistoryOf ==
    ASSUME EvidenceInv, NEW claim \in ClaimKeys
    PROVE  /\ RecordedHistory[claim] \in Seq(HistoryEntry)
           /\ Len(RecordedHistory[claim]) = currentVersion[claim]
           /\ currentVersion[claim] \in Nat /\ DOMAIN RecordedHistory[claim] = 1 .. currentVersion[claim]
           /\ \A v \in 1 .. currentVersion[claim] : /\ RecordedHistory[claim][v] = Entry(evidenceVersions[claim][v])
                                                    /\ v \in Versions /\ evidenceVersions[claim][v] \in EvidenceVersion
<1> DEFINE h == HistoryFrom(currentVersion, evidenceVersions)[claim]
<1>1. WellRecorded(currentVersion, evidenceVersions)
    BY WellRecordedNow, ZenonT(60)
<1>2. /\ h \in Seq(HistoryEntry)
      /\ Len(h) = currentVersion[claim]
      /\ currentVersion[claim] \in Nat /\ DOMAIN h = 1 .. currentVersion[claim]
      /\ \A v \in 1 .. currentVersion[claim] : /\ h[v] = Entry(evidenceVersions[claim][v])
                                               /\ v \in Versions /\ evidenceVersions[claim][v] \in EvidenceVersion
    BY <1>1, HistoryFacts
<1>3. RecordedHistory[claim] = h
    BY HistoryNow, ZenonT(60)
<1> HIDE DEF h
<1> QED BY <1>2, <1>3, ZenonT(60)

LEMMA HistoryAfter ==
    ASSUME EvidenceInv', NEW claim \in ClaimKeys
    PROVE  /\ RecordedHistory'[claim] \in Seq(HistoryEntry)
           /\ Len(RecordedHistory'[claim]) = currentVersion'[claim]
           /\ currentVersion'[claim] \in Nat
           /\ \A v \in 1 .. currentVersion'[claim] : RecordedHistory'[claim][v] = Entry(evidenceVersions'[claim][v])
<1> DEFINE h == HistoryFrom(currentVersion', evidenceVersions')[claim]
<1>1. WellRecorded(currentVersion', evidenceVersions')
    BY WellRecordedNow, ZenonT(60)
<1>2. /\ h \in Seq(HistoryEntry)
      /\ Len(h) = currentVersion'[claim]
      /\ currentVersion'[claim] \in Nat
      /\ \A v \in 1 .. currentVersion'[claim] : h[v] = Entry(evidenceVersions'[claim][v])
    BY <1>1, HistoryFacts
<1>3. RecordedHistory'[claim] = h
    BY HistoryNow, ZenonT(60)
<1> HIDE DEF h
<1> QED BY <1>2, <1>3, ZenonT(60)

(* The first activation of a claim, and one that supersedes.               *)
LEMMA ActivationIsAStep ==
    ASSUME EvidenceInv, EvidenceInv', NEW g \in Grants, NEW claim \in ClaimKeys, NEW v \in Versions,
           NEW expected \in 0 .. MaxVersion, NEW link \in PossibleLinks, activateEvidence(g, claim, v, expected, link)
    PROVE  Lifecycle!LifecycleNext
<1> DEFINE h == RecordedHistory[claim]
           t == RecordedHistory'[claim]
           active == [issuer |-> g.organization, status |-> "active"]
<1>1. /\ expected = currentVersion[claim] /\ v = expected + 1
      /\ currentVersion' = [currentVersion EXCEPT ![claim] = v]
      /\ expected # 0 => expected \in Versions /\ evidenceVersions[claim][expected].status = "Active"
      /\ NewVersion(g, link) \in EvidenceVersion
      /\ \A c \in ClaimKeys \ {claim} : evidenceVersions'[c] = evidenceVersions[c]
      /\ evidenceVersions'[claim][v] = NewVersion(g, link)
      /\ expected # 0 => /\ evidenceVersions'[claim][expected] =
                               [evidenceVersions[claim][expected] EXCEPT !.status = "Superseded"]
      /\ \A w \in Versions \ {v, expected} : evidenceVersions'[claim][w] = evidenceVersions[claim][w]
    BY Activated
<1>2. /\ h \in Seq(HistoryEntry) /\ Len(h) = expected /\ expected \in Nat /\ DOMAIN h = 1 .. expected
      /\ \A w \in 1 .. expected : /\ h[w] = Entry(evidenceVersions[claim][w])
                                  /\ w \in Versions /\ evidenceVersions[claim][w] \in EvidenceVersion
    BY <1>1, HistoryOf
<1>3. currentVersion'[claim] = v /\ \A c \in ClaimKeys \ {claim} : currentVersion'[c] = currentVersion[c]
    BY <1>1 DEF EvidenceInv, EvidenceTypeOK
<1>4. /\ t \in Seq(HistoryEntry) /\ Len(t) = expected + 1
      /\ \A w \in 1 .. expected + 1 : t[w] = Entry(evidenceVersions'[claim][w])
    BY <1>1, <1>3, HistoryAfter
<1>5. RecordedHistory' = [RecordedHistory EXCEPT ![claim] = t]
  <2> DEFINE now == HistoryFrom(currentVersion, evidenceVersions)
             next == HistoryFrom(currentVersion', evidenceVersions')
  <2>1. next = [now EXCEPT ![claim] = next[claim]]
    <3>1. \A c \in ClaimKeys \ {claim} : currentVersion'[c] = currentVersion[c] /\ evidenceVersions'[c] = evidenceVersions[c]
        BY <1>1, <1>3, ZenonT(60)
    <3> QED BY <3>1, HistoryAt
  <2>2. RecordedHistory = now /\ RecordedHistory' = next
      BY HistoryNow, ZenonT(60)
  <2> HIDE DEF now, next
  <2> QED BY <2>1, <2>2, ZenonT(60)
<1>6. Entry(NewVersion(g, link)) = active /\ active \in HistoryEntry /\ g.organization \in Organizations
  <2>1. Entry(NewVersion(g, link)) = active
      BY DEF Entry, NewVersion, StatusName
  <2> QED BY <1>1, <2>1, EntryFacts, ZenonT(60) DEF Organizations
<1>7. t[expected + 1] = active
    BY <1>1, <1>2, <1>4, <1>6, SMTT(60)
<1>8. UNCHANGED <<RecordedVerifications, RecordedDisputes>>
    BY DEF activateEvidence, RecordedVerifications, RecordedDisputes
<1>9. CASE expected = 0
  <2>1. h = <<>>
      BY <1>2, <1>9, SMTT(60)
  <2>2. t = <<active>>
      BY <1>4, <1>6, <1>7, <1>9, SMTT(60)
  <2> HIDE DEF h, t
  <2>3. Lifecycle!ActivateFirst(claim, g.organization)
      BY <1>5, <1>8, <2>1, <2>2, ZenonT(60) DEF Lifecycle!ActivateFirst, h
  <2> QED BY <1>6, <2>3, ZenonT(60) DEF Lifecycle!LifecycleNext
<1>10. CASE expected # 0
  <2> DEFINE superseded == [issuer |-> h[expected].issuer, status |-> "superseded"]
             u == SubSeq(h, 1, expected - 1) \o <<superseded, active>>
  <2>1. expected \in 1 .. expected /\ h # <<>>
      BY <1>2, <1>10
  <2>2. evidenceVersions[claim][expected] \in EvidenceVersion /\ h[expected] = Entry(evidenceVersions[claim][expected])
      BY <1>2, <2>1, ZenonT(60)
  <2>3. h[expected].status = "active" /\ h[expected].issuer = evidenceVersions[claim][expected].issuerOrganizationId
      BY <1>1, <1>10, <2>2, EntryFacts, ZenonT(60)
  <2>4. t[expected] = superseded
    <3>1. Entry([evidenceVersions[claim][expected] EXCEPT !.status = "Superseded"]) = superseded
        BY <2>2, <2>3, ZenonT(60) DEF Entry, EvidenceVersion, StatusName
    <3>2. expected \in 1 .. expected + 1
        BY <1>2, <1>10, SMTT(60)
    <3> QED BY <1>1, <1>4, <1>10, <3>1, <3>2, ZenonT(60)
  <2>5. superseded \in HistoryEntry
      BY <1>2, <1>4, <2>1, <2>4, SMTT(60)
  <2>6. \A i \in 1 .. expected - 1 : t[i] = h[i]
    <3> SUFFICES ASSUME NEW i \in 1 .. expected - 1 PROVE t[i] = h[i]
        OBVIOUS
    <3>1. i \in 1 .. expected /\ i \in 1 .. expected + 1 /\ i # expected /\ i # expected + 1
        BY <1>2, SMTT(60)
    <3> QED BY <1>1, <1>2, <1>4, <3>1, ZenonT(60)
  <2> HIDE DEF superseded, active, h, t
  <2>7. /\ u \in Seq(HistoryEntry) /\ Len(u) = expected + 1
        /\ \A i \in 1 .. expected - 1 : u[i] = h[i]
        /\ u[expected] = superseded /\ u[expected + 1] = active
      BY <1>2, <1>6, <2>1, <2>5, Superseding, SMTT(60)
  <2> HIDE DEF u
  <2>8. \A i \in 1 .. expected + 1 : i \in 1 .. expected - 1 \/ i = expected \/ i = expected + 1
      BY <1>2
  <2>9. \A i \in 1 .. expected + 1 : t[i] = u[i]
      BY <1>7, <2>4, <2>6, <2>7, <2>8, ZenonT(60)
  <2>10. t = u
      BY <1>4, <2>7, <2>9, SequencesEqual, ZenonT(60)
  <2>11. Lifecycle!Closing({}, "closed-by-supersession")
      BY <1>8, RecordsAreFunctions DEF Lifecycle!Closing
  <2>12. Lifecycle!Supersede(claim, expected, g.organization)
    <3>1. expected = Len(RecordedHistory[claim]) /\ Lifecycle!IsActive(claim, expected)
        BY <1>2, <2>1, <2>3, ZenonT(60) DEF Lifecycle!IsActive, h
    <3>2. RecordedHistory' = [RecordedHistory EXCEPT ![claim] =
              SubSeq(@, 1, expected - 1) \o <<[issuer |-> @[expected].issuer, status |-> "superseded"],
                                              [issuer |-> g.organization, status |-> "active"]>>]
        BY <1>5, <2>10 DEF u, h, superseded, active
    <3>3. {} \in SUBSET Lifecycle!OpenOn(claim, expected)
        OBVIOUS
    <3> QED BY <1>8, <2>11, <3>1, <3>2, <3>3, ZenonT(60) DEF Lifecycle!Supersede
  <2> QED BY <1>2, <1>6, <2>1, <2>12, ZenonT(60) DEF Lifecycle!LifecycleNext, h
<1> QED BY <1>9, <1>10

LEMMA ActiveIsActive ==
    ASSUME EvidenceInv, NEW claim \in ClaimKeys, NEW v \in Versions, evidenceVersions[claim][v].status = "Active"
    PROVE  /\ v \in DOMAIN RecordedHistory[claim] /\ v \in 1 .. currentVersion[claim]
           /\ RecordedHistory[claim][v].issuer = evidenceVersions[claim][v].issuerOrganizationId
           /\ Lifecycle!IsActive(claim, v)
<1>1. evidenceVersions[claim][v] # Unset
    BY DEF Unset
<1>2. ~ (v > currentVersion[claim]) /\ currentVersion[claim] \in Nat
    BY <1>1, HistoryOf DEF EvidenceInv, VersionsAreDense
<1>3. v \in 1 .. currentVersion[claim]
    BY <1>2, EvidenceAssumption DEF Versions
<1>4. /\ v \in DOMAIN RecordedHistory[claim] /\ RecordedHistory[claim][v] = Entry(evidenceVersions[claim][v])
      /\ evidenceVersions[claim][v] \in EvidenceVersion
    BY <1>3, HistoryOf
<1>5. /\ RecordedHistory[claim][v].status = "active"
      /\ RecordedHistory[claim][v].issuer = evidenceVersions[claim][v].issuerOrganizationId
    BY <1>4, EntryFacts
<1> QED BY <1>3, <1>4, <1>5 DEF Lifecycle!IsActive

LEMMA RevocationIsAStep ==
    ASSUME EvidenceInv, EvidenceInv', NEW sender, NEW claim \in ClaimKeys, NEW v \in Versions,
           revokeEvidence(sender, claim, v)
    PROVE  Lifecycle!LifecycleNext
<1> DEFINE h == RecordedHistory[claim]
           t == RecordedHistory'[claim]
           e == evidenceVersions[claim][v]
           new == [e EXCEPT !.status = "Revoked"]
           revoked == [h[v] EXCEPT !.status = "revoked"]
           u == [h EXCEPT ![v] = revoked]
<1>1. /\ e.status = "Active" /\ currentVersion[claim] = v
      /\ evidenceVersions' = [evidenceVersions EXCEPT ![claim] = [evidenceVersions[claim] EXCEPT ![v] = new]]
      /\ UNCHANGED <<currentVersion, assertions, disputes>>
    BY DEF revokeEvidence
<1>2. /\ h \in Seq(HistoryEntry) /\ Len(h) = v /\ v \in Nat /\ DOMAIN h = 1 .. v
      /\ \A w \in 1 .. v : h[w] = Entry(evidenceVersions[claim][w]) /\ w \in Versions
                           /\ evidenceVersions[claim][w] \in EvidenceVersion
    BY <1>1, HistoryOf
<1>3. v \in DOMAIN h /\ v \in 1 .. v /\ Lifecycle!IsActive(claim, v)
    BY <1>1, ActiveIsActive
<1>4. t \in Seq(HistoryEntry) /\ Len(t) = v /\ \A w \in 1 .. v : t[w] = Entry(evidenceVersions'[claim][w])
    BY <1>1, HistoryAfter, SMTT(60)
<1>5. /\ evidenceVersions'[claim][v] = new
      /\ \A w \in Versions \ {v} : evidenceVersions'[claim][w] = evidenceVersions[claim][w]
      /\ \A c \in ClaimKeys \ {claim} : evidenceVersions'[c] = evidenceVersions[c]
  <2> HIDE DEF new
  <2> QED BY <1>1 DEF EvidenceInv, EvidenceTypeOK
<1>6. RecordedHistory' = [RecordedHistory EXCEPT ![claim] = t]
  <2> DEFINE now == HistoryFrom(currentVersion, evidenceVersions)
             next == HistoryFrom(currentVersion', evidenceVersions')
  <2>1. next = [now EXCEPT ![claim] = next[claim]]
    <3>1. \A c \in ClaimKeys \ {claim} : currentVersion'[c] = currentVersion[c] /\ evidenceVersions'[c] = evidenceVersions[c]
        BY <1>1, <1>5, ZenonT(60)
    <3> QED BY <3>1, HistoryAt
  <2>2. RecordedHistory = now /\ RecordedHistory' = next
      BY HistoryNow, ZenonT(60)
  <2> HIDE DEF now, next
  <2> QED BY <2>1, <2>2
<1>7. h[v] = Entry(e) /\ e \in EvidenceVersion
    BY <1>2, <1>3, ZenonT(60)
<1>8. Entry(new) = revoked
  <2>1. StatusName["Revoked"] = "revoked"
      BY DEF StatusName
  <2> QED BY <1>7, <2>1 DEF Entry, EvidenceVersion
<1>9. t[v] = revoked /\ revoked \in HistoryEntry
    BY <1>2, <1>3, <1>4, <1>5, <1>8, SMTT(60)
<1> HIDE DEF revoked, h, t, e, new
<1>10. u \in Seq(HistoryEntry) /\ Len(u) = v /\ u[v] = revoked /\ \A w \in 1 .. v \ {v} : u[w] = h[w]
    BY <1>2, <1>3, <1>9, SMTT(60)
<1> HIDE DEF u
<1>11. \A w \in 1 .. v : t[w] = u[w]
    BY <1>2, <1>4, <1>5, <1>9, <1>10, ZenonT(60) DEF h
<1>12. t = u
    BY <1>4, <1>10, <1>11, SequencesEqual, ZenonT(60)
<1>13. UNCHANGED <<RecordedVerifications, RecordedDisputes>>
    BY <1>1 DEF RecordedVerifications, RecordedDisputes
<1>14. Lifecycle!Closing({}, "referred-external")
    BY <1>13, RecordsAreFunctions DEF Lifecycle!Closing
<1>15. Lifecycle!Revoke(claim, v)
  <2>1. v = Len(RecordedHistory[claim])
      BY <1>2, SMTT(60) DEF h
  <2>2. RecordedHistory' = [RecordedHistory EXCEPT ![claim][v].status = "revoked"]
      BY <1>6, <1>12 DEF u, h, revoked
  <2>3. {} \in SUBSET Lifecycle!OpenOn(claim, v)
      OBVIOUS
  <2> QED BY <1>3, <1>13, <1>14, <2>1, <2>2, <2>3, ZenonT(60) DEF Lifecycle!Revoke
<1> QED BY <1>3, <1>15, ZenonT(60) DEF Lifecycle!LifecycleNext, h

VerificationOf(r) ==
    IF r = Unset THEN [status |-> "none"]
    ELSE [claim |-> r.claimKey, version |-> r.claimVersion, verifier |-> r.verifierOrganizationId,
          status |-> StatusName[r.status]]

DisputeOf(r) ==
    IF r = Unset THEN [status |-> "none"]
    ELSE [claim |-> r.claimKey, version |-> r.claimVersion, status |-> StatusName[r.status]]

LEMMA RecordedOne ==
    /\ \A a \in AssertionKeys : RecordedVerifications[a] = VerificationOf(assertions[a])
    /\ \A d \in DisputeKeys : RecordedDisputes[d] = DisputeOf(disputes[d])
    BY ZenonT(60) DEF RecordedVerifications, RecordedDisputes, VerificationOf, DisputeOf

LEMMA VerificationRecorded ==
    ASSUME EvidenceInv, NEW a \in AssertionKeys, NEW new, assertions' = [assertions EXCEPT ![a] = new]
    PROVE  RecordedVerifications' = [RecordedVerifications EXCEPT ![a] = VerificationOf(new)]
<1>1. assertions'[a] = new /\ \A o \in AssertionKeys \ {a} : assertions'[o] = assertions[o]
    BY DEF EvidenceInv, EvidenceTypeOK
<1>2. /\ RecordedVerifications = [o \in AssertionKeys |-> VerificationOf(assertions[o])]
      /\ RecordedVerifications' = [o \in AssertionKeys |-> VerificationOf(assertions'[o])]
    BY ZenonT(60) DEF RecordedVerifications, VerificationOf
<1> QED BY <1>1, <1>2

LEMMA DisputeRecorded ==
    ASSUME EvidenceInv, NEW d \in DisputeKeys, NEW new, disputes' = [disputes EXCEPT ![d] = new]
    PROVE  /\ RecordedDisputes' = [RecordedDisputes EXCEPT ![d] = DisputeOf(new)]
           /\ RecordedDisputes' = [o \in DisputeKeys |-> IF o \in {d} THEN DisputeOf(new) ELSE RecordedDisputes[o]]
<1>1. disputes'[d] = new /\ \A o \in DisputeKeys \ {d} : disputes'[o] = disputes[o]
    BY DEF EvidenceInv, EvidenceTypeOK
<1>2. /\ RecordedDisputes = [o \in DisputeKeys |-> DisputeOf(disputes[o])]
      /\ RecordedDisputes' = [o \in DisputeKeys |-> DisputeOf(disputes'[o])]
    BY ZenonT(60) DEF RecordedDisputes, DisputeOf
<1> QED BY <1>1, <1>2

LEMMA HistoryStays ==
    UNCHANGED <<currentVersion, evidenceVersions>> => UNCHANGED RecordedHistory
    BY ZenonT(60) DEF RecordedHistory

LEMMA AssertionIsAStep ==
    ASSUME EvidenceInv, NEW g \in Grants, NEW claim \in ClaimKeys, NEW v \in Versions, NEW link \in PossibleLinks,
           NEW a \in AssertionKeys, NEW type \in AssertionType,
           createVerificationAssertion(g, a, claim, v, link, type)
    PROVE  Lifecycle!LifecycleNext
<1> DEFINE new == [claimKey |-> claim, claimVersion |-> v, link |-> link,
                   verifierOrganizationId |-> g.organization, verifierCredentialId |-> g.credential,
                   verifier |-> g.account, assertionType |-> type, status |-> "Active"]
           entry == [claim |-> claim, version |-> v, verifier |-> g.organization, status |-> "active"]
<1>1. /\ evidenceVersions[claim][v].status = "Active" /\ assertions[a].status = "Unset"
      /\ evidenceVersions[claim][v].issuerOrganizationId # g.organization
      /\ assertions' = [assertions EXCEPT ![a] = new] /\ UNCHANGED <<currentVersion, evidenceVersions, disputes>>
    BY ZenonT(60) DEF createVerificationAssertion
<1>2. VerificationOf(new) = entry
    BY DEF VerificationOf, Unset, StatusName
<1>3. RecordedVerifications[a] = Lifecycle!Nothing
    BY <1>1, RecordFacts, RecordedOne, ZenonT(60) DEF EvidenceInv, VerificationOf, Lifecycle!Nothing
<1> HIDE DEF new
<1>4. RecordedVerifications' = [RecordedVerifications EXCEPT ![a] = entry]
    BY <1>1, <1>2, VerificationRecorded, ZenonT(60)
<1>5. /\ v \in DOMAIN RecordedHistory[claim] /\ Lifecycle!IsActive(claim, v)
      /\ RecordedHistory[claim][v].issuer # g.organization
    BY <1>1, ActiveIsActive
<1>6. UNCHANGED <<RecordedHistory, RecordedDisputes>>
    BY <1>1, HistoryStays, ZenonT(60) DEF RecordedDisputes
<1>7. Lifecycle!Verify(a, claim, v, g.organization)
    BY <1>3, <1>4, <1>5, <1>6, ZenonT(60) DEF Lifecycle!Verify
<1>8. g.organization \in Organizations
    BY DEF Organizations
<1> QED BY <1>5, <1>7, <1>8, ZenonT(60) DEF Lifecycle!LifecycleNext

LEMMA WithdrawalIsAStep ==
    ASSUME EvidenceInv, NEW sender, NEW a \in AssertionKeys, withdrawVerificationAssertion(sender, a)
    PROVE  Lifecycle!LifecycleNext
<1> DEFINE new == [assertions[a] EXCEPT !.status = "Withdrawn"]
<1>1. /\ assertions[a].status = "Active" /\ assertions' = [assertions EXCEPT ![a] = new]
      /\ UNCHANGED <<currentVersion, evidenceVersions, disputes>>
    BY DEF withdrawVerificationAssertion
<1>2. assertions[a] # Unset /\ assertions[a] \in VerificationAssertion
  <2>1. "Active" # "Unset"
      OBVIOUS
  <2> QED BY <1>1, <2>1, RecordFacts, ZenonT(60) DEF EvidenceInv
<1>3. RecordedVerifications[a] = [claim |-> assertions[a].claimKey, version |-> assertions[a].claimVersion,
                                  verifier |-> assertions[a].verifierOrganizationId, status |-> "active"]
  <2>1. StatusName["Active"] = "active"
      BY DEF StatusName
  <2> QED BY <1>1, <1>2, <2>1, RecordedOne, ZenonT(60) DEF VerificationOf
<1>4. new # Unset /\ new.status = "Withdrawn" /\ new.claimKey = assertions[a].claimKey
      /\ new.claimVersion = assertions[a].claimVersion
      /\ new.verifierOrganizationId = assertions[a].verifierOrganizationId
    BY <1>2 DEF VerificationAssertion, Unset
<1> HIDE DEF new
<1>5. VerificationOf(new) = [RecordedVerifications[a] EXCEPT !.status = "withdrawn"]
  <2>1. StatusName["Withdrawn"] = "withdrawn"
      BY DEF StatusName
  <2> QED BY <1>3, <1>4, <2>1 DEF VerificationOf
<1>6. RecordedVerifications' = [RecordedVerifications EXCEPT ![a] = VerificationOf(new)]
    BY <1>1, VerificationRecorded, ZenonT(60)
<1>7. UNCHANGED <<RecordedHistory, RecordedDisputes>>
    BY <1>1, HistoryStays, ZenonT(60) DEF RecordedDisputes
<1>8. Lifecycle!WithdrawVerification(a)
    BY <1>3, <1>5, <1>6, <1>7 DEF Lifecycle!WithdrawVerification
<1> QED BY <1>8, ZenonT(60) DEF Lifecycle!LifecycleNext

LEMMA DisputeIsAStep ==
    ASSUME EvidenceInv, NEW g \in Grants, NEW claim \in ClaimKeys, NEW v \in Versions, NEW link \in PossibleLinks,
           NEW d \in DisputeKeys, openEvidenceDispute(g, d, claim, v, link)
    PROVE  Lifecycle!LifecycleNext
<1> DEFINE new == [claimKey |-> claim, claimVersion |-> v, link |-> link,
                   openerOrganizationId |-> g.organization, openerCredentialId |-> g.credential,
                   opener |-> g.account, status |-> "Open"]
           entry == [claim |-> claim, version |-> v, status |-> "open"]
<1>1. /\ evidenceVersions[claim][v].status = "Active" /\ disputes[d].status = "Unset"
      /\ disputes' = [disputes EXCEPT ![d] = new] /\ UNCHANGED <<currentVersion, evidenceVersions, assertions>>
    BY ZenonT(60) DEF openEvidenceDispute
<1>2. DisputeOf(new) = entry
    BY DEF DisputeOf, Unset, StatusName
<1>3. RecordedDisputes[d] = Lifecycle!Nothing
    BY <1>1, RecordFacts, RecordedOne, ZenonT(60) DEF EvidenceInv, DisputeOf, Lifecycle!Nothing
<1> HIDE DEF new
<1>4. RecordedDisputes' = [RecordedDisputes EXCEPT ![d] = entry]
    BY <1>1, <1>2, DisputeRecorded, ZenonT(60)
<1>5. v \in DOMAIN RecordedHistory[claim] /\ Lifecycle!IsActive(claim, v)
    BY <1>1, ActiveIsActive
<1>6. UNCHANGED <<RecordedHistory, RecordedVerifications>>
    BY <1>1, HistoryStays, ZenonT(60) DEF RecordedVerifications
<1>7. Lifecycle!OpenDispute(d, claim, v)
    BY <1>3, <1>4, <1>5, <1>6, ZenonT(60) DEF Lifecycle!OpenDispute
<1> QED BY <1>5, <1>7, ZenonT(60) DEF Lifecycle!LifecycleNext

(* A dispute ends for its own sake, or because its version was superseded. *)
LEMMA DisputeEndIsAStep ==
    ASSUME EvidenceInv, NEW d \in DisputeKeys, NEW status \in {"Withdrawn", "ReferredExternal", "ClosedBySupersession"},
           disputes[d].status = "Open", UNCHANGED <<currentVersion, evidenceVersions, assertions>>,
           disputes' = [disputes EXCEPT ![d] = [disputes[d] EXCEPT !.status = status]],
           status = "ClosedBySupersession" =>
              evidenceVersions[disputes[d].claimKey][disputes[d].claimVersion].status = "Superseded"
    PROVE  Lifecycle!LifecycleNext
<1> DEFINE new == [disputes[d] EXCEPT !.status = status]
           claim == disputes[d].claimKey
           v == disputes[d].claimVersion
<1>1. disputes[d] # Unset /\ disputes[d] \in Dispute
    BY DisputeEnds, ZenonT(60)
<1>2. claim \in ClaimKeys /\ v \in Versions
    BY <1>1 DEF Dispute
<1>3. RecordedDisputes[d] = [claim |-> claim, version |-> v, status |-> "open"]
  <2>1. StatusName["Open"] = "open"
      BY DEF StatusName
  <2> QED BY <1>1, <2>1, RecordedOne DEF DisputeOf
<1>4. new # Unset /\ new.status = status /\ new.claimKey = claim /\ new.claimVersion = v
    BY <1>1 DEF Dispute, Unset
<1>5. disputes' = [disputes EXCEPT ![d] = new]
    OBVIOUS
<1> HIDE DEF new
<1>6. DisputeOf(new) = [RecordedDisputes[d] EXCEPT !.status = StatusName[status]]
    BY <1>3, <1>4, SMTT(60) DEF DisputeOf
<1>7. Lifecycle!Closing({d}, StatusName[status])
  <2>1. RecordedDisputes' = [o \in DisputeKeys |-> IF o \in {d} THEN DisputeOf(new) ELSE RecordedDisputes[o]]
      BY <1>5, DisputeRecorded, ZenonT(60)
  <2> QED BY <1>6, <2>1, ZenonT(60) DEF Lifecycle!Closing
<1>8. UNCHANGED <<RecordedHistory, RecordedVerifications>>
    BY HistoryStays, ZenonT(60) DEF RecordedVerifications
<1>9. StatusName["Withdrawn"] = "withdrawn" /\ StatusName["ReferredExternal"] = "referred-external"
      /\ StatusName["ClosedBySupersession"] = "closed-by-supersession"
    BY DEF StatusName
<1>10. status = "ClosedBySupersession" =>
          RecordedHistory[RecordedDisputes[d].claim][RecordedDisputes[d].version].status = "superseded"
  <2> SUFFICES ASSUME status = "ClosedBySupersession" PROVE RecordedHistory[claim][v].status = "superseded"
      BY <1>3
  <2>1. evidenceVersions[claim][v].status = "Superseded"
      OBVIOUS
  <2> HIDE DEF claim, v
  <2>2. evidenceVersions[claim][v] # Unset
      BY <2>1 DEF Unset
  <2>3. ~ (v > currentVersion[claim]) /\ currentVersion[claim] \in Nat
      BY <1>2, <2>2, HistoryOf, ZenonT(60) DEF EvidenceInv, VersionsAreDense
  <2>4. v \in 1 .. currentVersion[claim]
      BY <1>2, <2>3, EvidenceAssumption DEF Versions
  <2>5. RecordedHistory[claim][v] = Entry(evidenceVersions[claim][v]) /\ evidenceVersions[claim][v] \in EvidenceVersion
      BY <1>2, <2>4, HistoryOf, ZenonT(60)
  <2> QED BY <2>1, <2>5, EntryFacts, ZenonT(60)
<1>11. RecordedDisputes[d].status = "open"
    BY <1>3
<1>12. Lifecycle!EndDispute(d)
    BY <1>7, <1>8, <1>9, <1>10, <1>11, ZenonT(60) DEF Lifecycle!EndDispute
<1> QED BY <1>12, ZenonT(60) DEF Lifecycle!LifecycleNext

LEMMA LifecycleBegins == EvidenceInit => Lifecycle!LifecycleInit
<1> SUFFICES ASSUME EvidenceInit PROVE Lifecycle!LifecycleInit
    OBVIOUS
<1>1. RecordedHistory = [c \in ClaimKeys |-> <<>>]
    BY DEF EvidenceInit, RecordedHistory
<1>2. RecordedVerifications = [a \in AssertionKeys |-> Lifecycle!Nothing]
    BY ZenonT(60) DEF EvidenceInit, RecordedVerifications, Lifecycle!Nothing
<1>3. RecordedDisputes = [d \in DisputeKeys |-> Lifecycle!Nothing]
    BY ZenonT(60) DEF EvidenceInit, RecordedDisputes, Lifecycle!Nothing
<1> QED BY <1>1, <1>2, <1>3, ZenonT(60) DEF Lifecycle!LifecycleInit

LEMMA LifecycleGoesOn ==
    EvidenceInv /\ EvidenceInv' /\ [EvidenceNext]_evidenceVars =>
        [Lifecycle!LifecycleNext]_<<RecordedHistory, RecordedVerifications, RecordedDisputes>>
<1> SUFFICES ASSUME EvidenceInv, EvidenceInv', [EvidenceNext]_evidenceVars
             PROVE  Lifecycle!LifecycleNext \/ UNCHANGED <<RecordedHistory, RecordedVerifications, RecordedDisputes>>
    OBVIOUS
<1>1. CASE UNCHANGED recordVars
    BY <1>1, HistoryStays, ZenonT(60) DEF recordVars, RecordedVerifications, RecordedDisputes
<1>2. ASSUME NEW sender, NEW d \in DisputeKeys, NEW status, changeEvidenceDisputeState(sender, d, status)
      PROVE  Lifecycle!LifecycleNext
    BY <1>2, DisputeEndIsAStep, ZenonT(60) DEF changeEvidenceDisputeState
<1>3. ASSUME NEW sender, NEW d \in DisputeKeys, closeEvidenceDisputeForLifecycle(sender, d)
      PROVE  Lifecycle!LifecycleNext
    BY <1>3, DisputeEndIsAStep DEF closeEvidenceDisputeForLifecycle
<1>4. CASE RecordStep
    BY <1>2, <1>3, <1>4, ActivationIsAStep, RevocationIsAStep, AssertionIsAStep, WithdrawalIsAStep, DisputeIsAStep, ZenonT(60)
       DEF RecordStep
<1> QED BY <1>1, <1>4 DEF EvidenceNext, evidenceVars

(* The contract keeps EvidenceLifecycle's promise for any number of        *)
(* claims, versions, verifications and disputes: versions supersede one    *)
(* another in order, a revoked claim gets no further version               *)
(* (activateEvidence), a verifier is never the issuer                      *)
(* (createVerificationAssertion), and a dispute ends for the reason its    *)
(* version gives (closeEvidenceDisputeForLifecycle).                       *)
THEOREM ContractImplementsLifecycle == EvidenceSpec => ImplementsLifecycle
    BY EvidenceInvariant, LifecycleBegins, LifecycleGoesOn, PTL
       DEF EvidenceSpec, ImplementsLifecycle, Lifecycle!LifecycleSpec
=============================================================================
