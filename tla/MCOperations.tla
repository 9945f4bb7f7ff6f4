----------------------------- MODULE MCOperations ---------------------------
(***************************************************************************)
(* The parts that run beside the chain and the assistant: decision         *)
(* support, the collection of an evaluation run, the public workflow and   *)
(* the way of marketplace commands into the application.  They share no    *)
(* state; each behaviour runs one of them and leaves the others   *)
(* at rest.                                                                *)
(***************************************************************************)
EXTENDS EvaluationCollection, SepoliaWorkflow, DatedRules, RouteAssessment,
        MarketplaceGateway

VARIABLE part

vars == <<part, collectionVars, workflowVars, ruleVars, assessmentVars, edgeVars>>

-----------------------------------------------------------------------------
(* The evaluation run: two observations invoke the model, one has a model  *)
(* condition that does not, one is deterministic.                          *)
MCPlan == <<"first", "second", "withheld", "baseline">>

-----------------------------------------------------------------------------
(* The gateway: a crowd of four limiter keys for a table of two, and a     *)
(* command that is sent twice and changed, with one that nobody may send.  *)
SaleCommand(id, fingerprint) ==
    [id |-> id, fingerprint |-> fingerprint, issuedAt |-> 0, expiresAt |-> 2]

Crowd ==
    [requests |-> {HttpRequest(address, "auth", NoCommand, TRUE) : address \in {"home", "depot"}}
                  \cup {HttpRequest(address, "api", Malformed, TRUE) : address \in {"home", "depot"}},
     arrivals |-> 5, ticks |-> 3, restarts |-> 0]

Orders ==
    [requests |-> {HttpRequest("home", "api", SaleCommand("list", "a"), TRUE),
                   HttpRequest("depot", "api", SaleCommand("list", "a"), TRUE),
                   HttpRequest("depot", "api", SaleCommand("list", "b"), TRUE),
                   HttpRequest("home", "api", SaleCommand("settle", "a"), FALSE)},
     arrivals |-> 3, ticks |-> 2, restarts |-> 1]

AllTrafficMixes == {Crowd, Orders}

MCTrafficMixes == AllTrafficMixes

-----------------------------------------------------------------------------
(* The rules: one source, a rule with two versions, and a fact that may be *)
(* missing or on either side of its threshold.                             *)
Decimal(n) == [kind |-> "decimal", n |-> n]

SOC(id, operator, threshold, critical) ==
    [id |-> id, field |-> "soh", operator |-> operator, threshold |-> threshold,
     critical |-> critical]

AllPredicateLists ==
    {<<SOC("reported", "present", Absent, TRUE), SOC("above", "gte", Decimal(700), TRUE)>>,
     <<SOC("exact", "eq", Decimal(800), FALSE), SOC("below", "lte", Decimal(900), TRUE)>>}

MCSourceKeys == {<<"regulation", 1>>, <<"guidance", 1>>}

MCRuleKeys == {<<"reuse", 1>>, <<"reuse", 2>>}

AllSourceInputs ==
    [key : {<<"regulation", 1>>}, lifecycle : {"pending", "active"}, review_due_at : {1},
     permitted_rule_ids : {{"reuse"}}, official : BOOLEAN]
    \cup [key : {<<"guidance", 1>>}, lifecycle : {"active"}, review_due_at : {2},
          permitted_rule_ids : {{"reuse"}}, official : {TRUE}]

AllRuleInputs ==
    {[key |-> <<"reuse", v>>, status |-> status, source_clauses |-> cited,
      effective_from |-> v - 1, effective_until |-> 3, scope |-> {"EU"},
      predicates |-> p] :
        v \in {1, 2}, status \in {"active"}, p \in AllPredicateLists,
        cited \in {{<<"regulation", 1>>}, {<<"regulation", 1>>, <<"guidance", 1>>}}}

Facts == {[soh |-> Absent], [soh |-> [kind |-> "boolean", n |-> 1]]}
         \cup {[soh |-> Decimal(n)] : n \in {650, 700, 800, 950}}

(* The outcome of the rule in force is the first route's. *)
AssessUnderRule(asOf, facts) ==
    \E k \in selectRule("reuse", "EU", asOf) :
        LET outcome == evaluate(rules[k], facts).outcome
            ranks == IF outcome = "PASS" THEN <<1, 2, 3>> ELSE <<0, 1, 2>>
            routes == [i \in 1 .. 3 |->
                         setScenarioRank([route(i) EXCEPT
                             !.outcome = IF i = 1 THEN outcome ELSE @], ranks[i])]
        IN  Assess([basis |-> assessmentBasis(routes), routes |-> routes])

-----------------------------------------------------------------------------
(* The assessments: the first route varies in rating, evidence and rule    *)
(* outcome, the second in impact and value, and the ranking is one of      *)
(* several, also ones that do not fit the routes that pass.                *)
EvidenceVariants ==
    {route(1).evidence,
     [route(1).evidence EXCEPT ![1].present = FALSE],
     [route(1).evidence EXCEPT ![1].conflicting = TRUE],
     [route(1).evidence EXCEPT ![1].revoked = TRUE],
     [route(1).evidence EXCEPT ![2].current = FALSE]}

FirstRoutes ==
    {[route(1) EXCEPT !.circularity[1].rating = rating, !.evidence = evidence,
                      !.outcome = outcome] :
        rating \in {0, 3, 5}, evidence \in EvidenceVariants,
        outcome \in {"PASS", "FAIL", "UNKNOWN"}}

SecondRoutes ==
    {[route(2) EXCEPT !.environmental[1].quantity = fromInteger(quantity),
                      !.economics.cashFlows[2].amount = fromInteger(amount)] :
        quantity \in {4, 5}, amount \in {58, 70}}

Rankings == {<<1, 2, 3>>, <<2, 1, 3>>, <<0, 1, 2>>, <<0, 2, 1>>}

Ranked(routes, ranks) == [i \in 1 .. 3 |-> setScenarioRank(routes[i], ranks[i])]

Request(routes) == [basis |-> assessmentBasis(routes), routes |-> routes]

(* Requests assess refuses, one for each kind of disagreement. *)
Nominal == runAssessment("nominal")

Refused ==
    {[Nominal EXCEPT !.routes = SubSeq(@, 1, 2)],
     [Nominal EXCEPT !.basis.units[2].value = one],
     [Nominal EXCEPT !.basis.units[3].unit = "other"],
     [Nominal EXCEPT !.basis.digest = <<>>]}
    \cup {Request(routes) : routes \in
            {[Nominal.routes EXCEPT ![2].economics.currency = "USD"],
             [Nominal.routes EXCEPT ![2].scenarios[1].gate = "FAIL"],
             [Nominal.routes EXCEPT ![3].circularity[1].weight = one],
             [Nominal.routes EXCEPT ![3].environmental[1].resultUnit = "other"],
             [Nominal.routes EXCEPT ![1].economics.discountRate = fromInteger(-1)],
             [Nominal.routes EXCEPT ![1].evidence = <<@[1], @[1]>>],
             [Nominal.routes EXCEPT ![2].scenarios[1].id = "other"]}}

(* An assessment without a shared category, and one with an unsteady rank. *)
Unsupported ==
    {Request([Nominal.routes EXCEPT ![1].environmental = SubSeq(@, 3, 3),
                                    ![2].environmental = SubSeq(@, 1, 2)]),
     Request([Nominal.routes EXCEPT ![1].scenarios[1].routeRank = 2,
                                    ![2].scenarios[1].routeRank = 1])}

AllAssessmentInputs ==
    {Request(Ranked(<<first, second, route(3)>>, ranks)) :
        first \in FirstRoutes, second \in SecondRoutes, ranks \in Rankings}
    \cup {runAssessment(s) : s \in {"nominal", "missing", "conflicting"}}
    \cup Refused \cup Unsupported

AllLedgerInputs == {runAssessment("nominal"), runAssessment("missing"), runAssessment("conflicting")}

Citation(supports, status, complete) ==
    [supports |-> supports, status |-> status, complete |-> complete]

AllCitationSets ==
    {[evidence |-> {Citation(covered, status, complete)}, rules |-> {Citation({c}, "active", TRUE)}] :
        covered \in {componentPath, componentPath \ {<<"recycling", "U">>}},
        status \in {"active", "revoked"}, complete \in BOOLEAN,
        c \in {<<"recycling", "U">>, <<"recycling", "G">>}}

-----------------------------------------------------------------------------
(* Defined by name, so that TLC evaluates each set once. *)
MCPredicateLists == AllPredicateLists

MCSourceInputs == AllSourceInputs

MCRuleInputs == AllRuleInputs

MCAssessmentInputs == AllAssessmentInputs

MCLedgerInputs == AllLedgerInputs

MCCitationSets == AllCitationSets

OperationsInit ==
    /\ part \in {"collection", "workflow", "rules", "assessment", "gateway"}
    /\ CollectionInit
    /\ WorkflowInit /\ (part # "workflow" => missing = {})
    /\ RulesInit
    /\ AssessmentInit
    /\ GatewayInit /\ (part # "gateway" => traffic = Crowd)

CollectionStep ==
    /\ part = "collection" /\ CollectionNext
    /\ UNCHANGED <<workflowVars, ruleVars, assessmentVars, edgeVars>>

WorkflowStep ==
    /\ part = "workflow" /\ WorkflowNext
    /\ UNCHANGED <<collectionVars, ruleVars, assessmentVars, edgeVars>>

RulesStep ==
    /\ part = "rules"
    /\ \/ RulesNext /\ UNCHANGED assessmentVars
       \/ /\ assessed = NoInput
          /\ \E asOf \in RuleTimes, facts \in Facts : AssessUnderRule(asOf, facts)
          /\ UNCHANGED ruleVars
    /\ UNCHANGED <<collectionVars, workflowVars, edgeVars>>

AssessmentStep ==
    /\ part = "assessment" /\ AssessmentNext
    /\ UNCHANGED <<collectionVars, workflowVars, ruleVars, edgeVars>>

GatewayStep ==
    /\ part = "gateway" /\ GatewayNext
    /\ UNCHANGED <<collectionVars, workflowVars, ruleVars, assessmentVars>>

OperationsNext ==
    /\ CollectionStep \/ WorkflowStep \/ RulesStep \/ AssessmentStep \/ GatewayStep
    /\ UNCHANGED part

OperationsSpec == OperationsInit /\ [][OperationsNext]_vars

=============================================================================
