------------------------- MODULE RecordedDecisions -------------------------
(***************************************************************************)
(* The supports the assistant reads, the decisions recorded in them and    *)
(* the results that no model writes (assistant/types.ts, service.ts).      *)
(*                                                                         *)
(* A support is [id, resource, status, content, decision, valid]; "valid"  *)
(* is the schema's verdict, the binding of a typed decision to the         *)
(* support's commitment included.  A candidate is [outcome, code, summary, *)
(* claims, reasons, warnings, missing], a claim [text, cites].             *)
(***************************************************************************)
EXTENDS Naturals, Sequences, FiniteSets, Functions

NoCode == "none"

NoDecision == [outcome |-> "none", code |-> NoCode, reasons |-> {}]

ReasonCodes == {"missing-evidence", "conflicting-evidence", "inactive-evidence", "access-denied", "prompt-injection",
                "external-decision-required"}

SupportStates == {"active", "missing", "conflicting", "restricted", "stale", "revoked", "superseded"}

Active(supports) == SelectSeq(supports, LAMBDA x : x.status = "active")

Decides(support) == support.status = "active" /\ support.decision # NoDecision

\* Recorded decisions are only in view when the question asks to explain one.
supportsForQueryMode(supports, mode) ==
  IF mode = "explain_recorded_decision" THEN supports
  ELSE SelectSeq(supports, LAMBDA x : x.decision = NoDecision)

resolveActiveRecordedDecision(supports) ==
  LET decisions == {x.decision : x \in {x \in Range(supports) : Decides(x)}}
  IN  IF decisions = {} THEN [kind |-> "absent", decision |-> NoDecision]
      ELSE IF Cardinality(decisions) = 1 THEN [kind |-> "consistent", decision |-> CHOOSE d \in decisions : TRUE]
      ELSE [kind |-> "conflicting", decision |-> NoDecision]

\* The decisions of the records that are no longer active.
Mutant_inactiveReferences(supports) ==
  {[id |-> x.id, resource |-> x.resource, decision |-> x.decision] :
     x \in {x \in Range(supports) : x.decision # NoDecision /\ ~ Decides(x)}}

activeRecordedDecisionSupportReferences(supports) ==
  {[id |-> x.id, resource |-> x.resource, decision |-> x.decision] : x \in {x \in Range(supports) : Decides(x)}}

\* An active record carries a decision of that code.
Recorded(code, supports) == \E x \in Range(supports) : Decides(x) /\ x.decision.code = code

citedActiveClaims(supports) ==
  [i \in DOMAIN Active(supports) |-> [text |-> Active(supports)[i].content, cites |-> {Active(supports)[i].id}]]

(***************************************************************************)
(* Results that no model writes.                                           *)
(***************************************************************************)

reasonCodesForOutcome(outcome, summary) ==
  LET mentions(words) == Range(summary) \cap words # {}
      unauthorized == \E i \in 1..Len(summary) - 2 : SubSeq(summary, i, i + 2) = <<"no", "authorized", "support">>
  IN  CASE mentions({"conflicting", "conflict"}) -> {"conflicting-evidence"}
        [] mentions({"missing"}) \/ unauthorized -> {"missing-evidence"}
        [] mentions({"inactive", "restricted", "stale", "revoked", "superseded"}) -> {"inactive-evidence"}
        [] mentions({"injection"}) -> {"prompt-injection"}
        [] outcome = "requires_external_decision" -> {"external-decision-required"}
        [] OTHER -> {}

deterministicResult(outcome, summary, claims, reasons) ==
  [outcome |-> outcome, code |-> NoCode, summary |-> summary, claims |-> claims, reasons |-> reasons,
   warnings |-> <<summary>>, missing |-> <<>>]

Refusal(outcome, summary) == deterministicResult(outcome, summary, <<>>, reasonCodesForOutcome(outcome, summary))

NoDefect == [code |-> "none", outcome |-> "none", message |-> <<>>]

\* The first defect of the records, in the order the service looks for them.
precondition(supports, injection) ==
  LET some(statuses) == \E x \in Range(supports) : x.status \in statuses
      defect(outcome, code, message) == [outcome |-> outcome, code |-> code, message |-> message]
  IN  IF injection
      THEN defect("abstain", "prompt-injection",
                  <<"untrusted", "support", "contained", "instruction-like", "content", ".">>)
      ELSE IF supports = <<>>
      THEN defect("abstain", "missing-support", <<"no", "authorized", "support", "was", "available", ".">>)
      ELSE IF some({"missing"})
      THEN defect("abstain", "missing-support",
                  <<"a", "required", "current", "support", "record", "is", "missing", ".">>)
      ELSE IF some({"conflicting"})
      THEN defect("requires_external_decision", "conflicting-support",
                  <<"conflicting", "support", "requires", "accountable", "external", "review", ".">>)
      ELSE IF some(SupportStates \ {"active"})
      THEN defect("abstain", "inactive-support",
                  <<"required", "support", "is", "missing", ",", "restricted", ",", "stale", ",", "revoked", ",", "or",
                    "superseded", ".">>)
      ELSE NoDefect
=============================================================================
