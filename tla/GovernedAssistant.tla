------------------------- MODULE GovernedAssistant -------------------------
(***************************************************************************)
(* The governed assistant: assistant/service.ts (answer, answerOnce), the  *)
(* tool registry of tools.ts and the audit ledger of audit.ts.             *)
(*                                                                         *)
(* answerOnce is split where it awaits: the authorization and the answer   *)
(* of each tool, and the model.  Everything after the last of them, the    *)
(* audit event and the stored request included, is one step.  A call whose *)
(* idempotency key is taken joins the answer in progress.  A request id is *)
(* the call that is answered.                                              *)
(***************************************************************************)
EXTENDS RecordedDecisions

CONSTANTS Calls,             \* the calls of answer
          Registered,        \* the tools of the registry
          Shelves,           \* what the tools may have on record, each a request -> [verified, supports]
          Authorizes(_, _),  \* the policy: session, request
          Size(_),           \* how much the records contain
          MaxContext,        \* maxContextCharacters, in the same unit
          Instructs(_),      \* whether a record's content looks like instructions
          Escalates(_),      \* whether a question asks for more than reading
          Arbitrates(_),     \* whether it asks for the decision of an external authority
          Replies(_),        \* what the model may answer a call with
          Released(_, _, _)  \* what becomes of a candidate, given the records and the question: what AssistantRelease
                             \* defines, or what it is shown to come to on the candidates of Replies

NoKey == "none"

VARIABLES shelf,              \* which of them they have now
          call,               \* where each call stands
          idempotentAnswers,  \* <<actor, key>> -> [fingerprint, owner]
          audit, requests

assistantVars == <<shelf, call, idempotentAnswers, audit, requests>>

NoResponse == <<>>

Waiting == [phase |-> "idle", query |-> <<>>, session |-> <<>>, step |-> 0, supports |-> <<>>, owner |-> "none",
            response |-> NoResponse]

AssistantInit ==
  /\ shelf \in DOMAIN Shelves
  /\ call = [c \in Calls |-> Waiting]
  /\ idempotentAnswers = <<>> /\ audit = <<>> /\ requests = {}

(***************************************************************************)
(* The audit ledger.                                                       *)
(***************************************************************************)

\* The canonical bytes of an event determine it, and so does its hash.
eventHash(unsigned) == <<"sha-256", unsigned>>

Unsigned(event) == [f \in DOMAIN event \ {"hash"} |-> event[f]]

append(entry) ==
  LET unsigned == [sequence |-> Len(audit) + 1, request |-> entry.request, session |-> entry.session,
                   mode |-> entry.mode, tools |-> entry.tools, supports |-> entry.supports,
                   outcome |-> entry.outcome, code |-> entry.code, source |-> entry.source,
                   references |-> entry.references, codes |-> entry.codes,
                   previous |-> IF audit = <<>> THEN <<>> ELSE audit[Len(audit)].hash]
  IN  Append(audit, [f \in DOMAIN unsigned \cup {"hash"} |->
                       IF f = "hash" THEN eventHash(unsigned) ELSE unsigned[f]])

verifyAssistantAuditEvents(events) ==
  \A i \in DOMAIN events : /\ events[i].sequence = i
                           /\ events[i].previous = IF i = 1 THEN <<>> ELSE events[i - 1].hash
                           /\ events[i].hash = eventHash(Unsigned(events[i]))

\* What an actor may read about a request; the events are numbered, so a set of them has its order.
forRequest(request, session) == {e \in Range(audit) : e.request = request /\ e.session.actor = session.actor}

(***************************************************************************)
(* The end of a call.                                                      *)
(***************************************************************************)

Results(result, codes, source) == [result |-> result, codes |-> codes, source |-> source]

Refused(outcome, code, message) == Results(Refusal(outcome, message), {code}, "deterministic-control")

\* The audit event, the stored request and the response of rec, a call that has its result.
Conclude(c, rec, tools, supports, r) ==
  LET cited == {x \in Range(supports) : \E claim \in Range(r.result.claims) : x.id \in claim.cites}
      event == Len(audit) + 1
      response == [request |-> c, shown |-> r.result, citations |-> {x.id : x \in cited},
                   evidence |-> IF supports = <<>> THEN "not-evaluated"
                                ELSE IF Active(supports) = supports THEN "active" ELSE "defective",
                   codes |-> r.codes, event |-> event]
  IN  /\ audit' = append([request |-> c, session |-> rec.session, mode |-> rec.query.mode, tools |-> tools,
                          supports |-> {x.id : x \in Range(supports)}, outcome |-> r.result.outcome,
                          code |-> r.result.code, source |-> r.source,
                          references |-> activeRecordedDecisionSupportReferences(supports), codes |-> r.codes])
      /\ requests' = requests \cup {[request |-> c, actor |-> rec.session.actor, outcome |-> r.result.outcome,
                                     code |-> r.result.code, source |-> r.source,
                                     state |-> IF r.result.outcome = "answer" THEN "completed" ELSE "refused",
                                     event |-> event]}
      /\ call' = [call EXCEPT ![c] = [rec EXCEPT !.phase = "answered", !.supports = supports, !.response = response]]

\* A failure that answerOnce does not turn into a refusal: the key is free again and whoever joined fails too.
Fail(c) ==
  /\ call' = [d \in Calls |-> IF d = c \/ (call[d].phase = "joined" /\ call[d].owner = c)
                              THEN [call[d] EXCEPT !.phase = "failed"] ELSE call[d]]
  /\ idempotentAnswers' =
       [k \in {k \in DOMAIN idempotentAnswers : idempotentAnswers[k].owner # c} |-> idempotentAnswers[k]]
  /\ UNCHANGED <<shelf, audit, requests>>

(***************************************************************************)
(* The steps of a call.                                                    *)
(***************************************************************************)

Tools(query) == [i \in DOMAIN query.requests |-> query.requests[i].tool]

unavailable == <<"authorized", "support", "is", "unavailable", "for", "this", "request", ".">>

\* A tool refused, or returned what cannot be used.
Denied(c, rec, code) == Conclude(c, rec, <<>>, <<>>, Refused("abstain", code, unavailable))

\* The records are complete: what is refused without a model, in this order, or else the model is asked.
Consider(c, rec) ==
  LET supports == supportsForQueryMode(rec.supports, rec.query.mode)
      defect   == precondition(supports, \E x \in Range(supports) : Instructs(x.content))
      recorded == resolveActiveRecordedDecision(supports)
      end(r)   == Conclude(c, rec, Tools(rec.query), supports, r)
      question == rec.query.question
  IN  IF defect # NoDefect THEN end(Refused(defect.outcome, defect.code, defect.message))
      ELSE IF Size(supports) > MaxContext
      THEN end(Refused("abstain", "context-limit",
                       <<"authorized", "support", "exceeds", "the", "bounded", "model", "context", ".">>))
      ELSE IF Escalates(question)
      THEN end(Refused("abstain", "authority-boundary",
                       <<"the", "request", "crosses", "the", "read-only", "assistant", "authority", "boundary", ".">>))
      ELSE IF Arbitrates(question)
      THEN LET summary == <<"the", "request", "requires", "a", "decision", "by", "an", "accountable", "external",
                            "authority", ".">>
           IN  end(Results(deterministicResult("requires_external_decision", summary, citedActiveClaims(supports),
                                               reasonCodesForOutcome("requires_external_decision", summary)),
                           {"external-decision-boundary"}, "deterministic-control"))
      ELSE IF rec.query.mode = "explain_recorded_decision" /\ recorded.kind = "absent"
      THEN end(Refused("abstain", "missing-recorded-decision",
                       <<"no", "active", "recorded", "decision", "is", "available", "for", "explanation", ".">>))
      ELSE IF recorded.kind = "conflicting"
      THEN end(Results(deterministicResult("requires_external_decision",
                         <<"active", "supports", "contain", "conflicting", "recorded", "decisions", "and", "require",
                           "accountable", "external", "review", ".">>,
                         <<>>, {"conflicting-evidence", "external-decision-required"}),
                       {"conflicting-recorded-decision"}, "deterministic-control"))
      ELSE /\ call' = [call EXCEPT ![c] = [rec EXCEPT !.phase = "generating", !.supports = supports]]
           /\ UNCHANGED <<audit, requests>>

\* On to the next tool of the query, or past the last one.
Proceed(c, rec) ==
  IF rec.step > Len(rec.query.requests) THEN Consider(c, rec)
  ELSE IF rec.query.requests[rec.step].tool \notin Registered THEN Denied(c, rec, "access-denied")
  ELSE /\ call' = [call EXCEPT ![c] = [rec EXCEPT !.phase = "authorizing"]]
       /\ UNCHANGED <<audit, requests>>

\* A key in use is joined whatever the query.
Mutant_sameFingerprint(entry, query) == TRUE

\* The query under a key in use is the one it was taken for.
sameFingerprint(entry, query) == entry.fingerprint = query

\* answer: a key in use is joined, or refused for another query; otherwise the call is answered itself.
answer(c, query, session) ==
  LET key   == <<session.actor, query.key>>
      rec   == [Waiting EXCEPT !.query = query, !.session = session, !.step = 1]
      taken == query.key # NoKey /\ key \in DOMAIN idempotentAnswers
      entry == idempotentAnswers[key]
  IN  /\ call[c].phase = "idle"
      /\ IF taken
         THEN /\ call' = [call EXCEPT ![c] = IF sameFingerprint(entry, query)
                                             THEN [rec EXCEPT !.phase = "joined", !.owner = entry.owner]
                                             ELSE [rec EXCEPT !.phase = "rejected"]]
              /\ UNCHANGED <<idempotentAnswers, audit, requests>>
         ELSE /\ Proceed(c, rec)
              /\ idempotentAnswers' =
                   IF query.key = NoKey THEN idempotentAnswers
                   ELSE [k \in DOMAIN idempotentAnswers \cup {key} |->
                           IF k = key THEN [fingerprint |-> query, owner |-> c] ELSE idempotentAnswers[k]]
      /\ UNCHANGED shelf

\* The policy answers for the tool in turn.
authorize(c) ==
  LET rec == call[c]
  IN  /\ rec.phase = "authorizing"
      /\ IF Authorizes(rec.session, rec.query.requests[rec.step])
         THEN /\ call' = [call EXCEPT ![c].phase = "executing"]
              /\ UNCHANGED <<audit, requests>>
         ELSE Denied(c, rec, "access-denied")
      /\ UNCHANGED <<shelf, idempotentAnswers>>

\* Two supports with one identifier, or for one version of a resource, cannot be told apart.
Ambiguous(supports) ==
  \E i, j \in DOMAIN supports : i # j /\ (supports[i].id = supports[j].id \/ supports[i].resource = supports[j].resource)

\* The tool answers with the records of this moment.
execute(c) ==
  LET rec == call[c]
      result == Shelves[shelf][rec.query.requests[rec.step]]
      supports == rec.supports \o result.supports
  IN  /\ rec.phase = "executing"
      /\ IF ~ result.verified THEN Denied(c, rec, "retrieval-verification-failed")
         ELSE IF Ambiguous(supports) \/ \E x \in Range(result.supports) : ~ x.valid THEN Denied(c, rec, "invalid-support")
         ELSE Proceed(c, [rec EXCEPT !.step = @ + 1, !.supports = supports])
      /\ UNCHANGED <<shelf, idempotentAnswers>>

\* The model answers; its candidate is released, replaced by a refusal, or nothing can be shown.
generate(c) ==
  LET rec == call[c]
      fallback == Refusal("abstain", <<"the", "generated", "response", "failed", "support", "validation", ".">>)
      source == IF resolveActiveRecordedDecision(rec.supports).kind = "consistent" THEN "typed-record"
                ELSE "model-candidate"
  IN  /\ rec.phase = "generating"
      /\ \E candidate \in Replies(c) :
           LET release == Released(candidate, rec.supports, rec.query.question)
           IN  IF release.fails THEN Fail(c)
               ELSE /\ Conclude(c, rec, Tools(rec.query), rec.supports,
                                IF release.codes = {} THEN Results(release.candidate, {}, source)
                                ELSE Results(fallback, release.codes, "validation-fallback"))
                    /\ UNCHANGED <<shelf, idempotentAnswers>>

\* A tool, the policy or the model fails.
breakDown(c) == call[c].phase \in {"authorizing", "executing", "generating"} /\ Fail(c)

\* A call that joined another has its answer.
share(c) ==
  /\ call[c].phase = "joined" /\ call[call[c].owner].phase = "answered"
  /\ call' = [call EXCEPT ![c] = [@ EXCEPT !.phase = "answered", !.response = call[call[c].owner].response]]
  /\ UNCHANGED <<shelf, idempotentAnswers, audit, requests>>

\* External: what the tools have on record changes.
RecordsChange == \E s \in DOMAIN Shelves : shelf' = s /\ s # shelf /\ UNCHANGED <<call, idempotentAnswers, audit, requests>>

AssistantNext ==
  \/ \E c \in Calls : authorize(c) \/ execute(c) \/ generate(c) \/ breakDown(c) \/ share(c)
  \/ RecordsChange

(***************************************************************************)
(* Properties.                                                             *)
(***************************************************************************)

Answered == {c \in Calls : call[c].phase = "answered"}

\* Every answer that is given out is backed by exactly one audit event and one stored request that agree with it on
\* the outcome and the decision code, a decision that is shown is referenced with the record it comes from, and the
\* chain of events verifies, however the calls interleave and fail (answerOnce, AssistantAuditLedger).
AnswersAreAudited ==
  /\ verifyAssistantAuditEvents(audit)
  /\ Cardinality(requests) = Len(audit)
  /\ \A c \in Answered :
       LET r == call[c].response
           e == audit[r.event]
       IN  /\ r.event \in DOMAIN audit /\ e.request = r.request
           /\ e.outcome = r.shown.outcome /\ e.code = r.shown.code /\ e.codes = r.codes
           /\ \E q \in requests : q.event = r.event /\ q.request = r.request /\ q.outcome = r.shown.outcome
           /\ r.shown.code # NoCode => \E x \in e.references : x.decision.code = r.shown.code
           /\ r.citations \subseteq e.supports
           /\ Cardinality(forRequest(r.request, call[c].session)) = 1

\* The calls of one actor under one idempotency key that are answered share one answer, and one event, whenever they
\* arrive and whatever failed before (answer).
RetriesShareOneAnswer ==
  \A c, d \in Answered :
    /\ call[c].query.key # NoKey /\ call[c].query.key = call[d].query.key
    /\ call[c].session.actor = call[d].session.actor
    => call[c].response = call[d].response /\ call[c].query = call[d].query
=============================================================================
