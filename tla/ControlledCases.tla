--------------------------- MODULE ControlledCases ---------------------------
(***************************************************************************)
(* The controlled cases of the research page (interface/cases.ts): which   *)
(* case a question is about, how it is asked of the tools, who may, and    *)
(* which records of the corpus each tool returns.                          *)
(***************************************************************************)
EXTENDS AssistantRelease

CONSTANTS Corpus,      \* case id -> its records, [id, resource, content, decision], the decision's record last
          Controlled   \* the actor the cases are open to

requiredCaseIds == {"synthesis-101", "synthesis-106", "synthesis-111", "synthesis-116", "synthesis-121"}

\* The constructor refuses a corpus without one of the cases, the schema one with a decision no record may carry.
ASSUME CorpusIsLoadable ==
  /\ requiredCaseIds \subseteq DOMAIN Corpus
  /\ \A c \in DOMAIN Corpus : \A i \in DOMAIN Corpus[c] :
       Corpus[c][i].decision # NoDecision => recordedDecision(Corpus[c][i].decision)

Number == "synthesis-101" :> "101" @@ "synthesis-106" :> "106" @@ "synthesis-111" :> "111" @@ "synthesis-116" :> "116"
            @@ "synthesis-121" :> "121"

EvaluationId == "synthesis-101" :> "syn-101" @@ "synthesis-106" :> "syn-106" @@ "synthesis-111" :> "syn-111"
                  @@ "synthesis-116" :> "syn-116" @@ "synthesis-121" :> "syn-121"

SellerId == "synthesis-101" :> "seller-101" @@ "synthesis-106" :> "seller-106" @@ "synthesis-111" :> "seller-111"
              @@ "synthesis-116" :> "seller-116" @@ "synthesis-121" :> "seller-121"

caseIdForQuestion(question) ==
  LET names(c) == HasAny(question, {<<EvaluationId[c]>>, <<"battery", Number[c]>>, <<"battery", "id", Number[c]>>})
      named == SelectSeq(<<"synthesis-101", "synthesis-106", "synthesis-111", "synthesis-116", "synthesis-121">>, names)
  IN  IF named # <<>> THEN named[1]
      ELSE IF HasAny(question, {<<"legally", "certify">>, <<"formal", "approve">>, <<"formally", "approve">>, <<"accredit">>})
      THEN "synthesis-101" ELSE "unresolved"

isDecisionExplanationQuestion(question) ==
  LET follows(heads, tails) == \E i, j \in DOMAIN question : i < j /\ question[i] \in heads /\ question[j] \in tails
      listing == {"list", "listed", "listing", "resell"}
      routes == {"route", "routes", "option", "options"}
      chosen == {"preferred", "recommended", "selected"}
  IN  \/ HasAny(question, Then({<<"recorded">>}, Each({"decision", "outcome", "conclusion"}))
                          \cup {<<"decision", "code">>, <<"eligible">>, <<"eligibility">>}
                          \cup Then({<<"ready", "to">>, <<"ready", "to", "be">>}, Each(listing))
                          \cup Then(Each(chosen), Each(routes))
                          \cup {<<"information", "still", "needed">>, <<"information", "is", "still", "needed">>}
                          \cup {<<"inspections", "disagree">>, <<"inspection", "disagree">>})
      \/ follows({"can", "may", "should"}, listing \cup {"recover", "enter", "proceed"})
      \/ follows(routes, chosen \cup {"supported"})
      \/ Has(question, <<"workflow", "action">>) /\ follows({"action"}, {"permitted", "allowed", "authorized"})

\* The query a question stands for.
resolve(question) ==
  LET case == caseIdForQuestion(question)
      request(tool) == [tool |-> tool, case |-> case]
  IN  [question |-> question,
       mode |-> IF case # "unresolved" /\ isDecisionExplanationQuestion(question) THEN "explain_recorded_decision"
                ELSE "explain_records",
       requests |-> IF case = "synthesis-121" THEN <<request("assessment")>>
                    ELSE <<request("facts"), request("rules")>>]

authorizes(session, request) ==
  /\ session.actor = Controlled
  /\ IF request.case = "unresolved" THEN request.tool \in {"facts", "rules"} ELSE request.case \in requiredCaseIds

recordBelongsToTool(case, tool, index, lastIndex) ==
  IF case = "synthesis-121" THEN tool = "assessment"
  ELSE \/ tool = "facts" /\ index < lastIndex
       \/ tool = "rules" /\ index = lastIndex

\* The record as it is presented, the battery and the seller by their number; the commitment binds its decision.
toSupport(case, record) ==
  LET battery == {<<"battery", EvaluationId[case]>>, <<EvaluationId[case]>>}
      named   == Rewrite(record.content, battery, Anything, <<"battery", "id", Number[case]>>)
  IN  [id |-> record.id, resource |-> record.resource, status |-> "active", decision |-> record.decision, valid |-> TRUE,
       content |-> Rewrite(named, {<<"organization", SellerId[case]>>}, Anything,
                           <<"seller", "organization", Number[case]>>)]

supports(case, tool) ==
  IF case \notin requiredCaseIds THEN <<>>
  ELSE LET records == Corpus[case]
           mine == SelectSeq([i \in DOMAIN records |-> i], LAMBDA i : recordBelongsToTool(case, tool, i, Len(records)))
       IN  [k \in DOMAIN mine |-> toSupport(case, records[mine[k]])]

\* The tools of the runtime: five that read the cases, and a protected search whose checks never pass.
controlledToolRegistry == {"facts", "history", "rules", "assessment", "audit", "protected-search"}

Catalogue ==
  [r \in [tool : controlledToolRegistry, case : requiredCaseIds \cup {"unresolved"}] |->
     [verified |-> r.tool # "protected-search", supports |-> supports(r.case, r.tool)]]
=============================================================================
