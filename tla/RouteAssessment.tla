-------------------------- MODULE RouteAssessment ---------------------------
(***************************************************************************)
(* The deterministic route assessment (src/decision/assessment.ts), the    *)
(* support an audit bundle needs (support.ts), the ledger of results       *)
(* (queries.ts) and the controlled inputs of the case interface            *)
(* (src/interface/service.ts).                                             *)
(*                                                                         *)
(* A route input keeps the numbers as decimals.  Rank and rating 0 stand   *)
(* for an absent one.  The digest of the calculation inputs is the inputs  *)
(* themselves, and so is the reproduction hash, which also covers them.    *)
(***************************************************************************)
EXTENDS ExactDecimal, Sequences, FiniteSets, SequencesExt, TLC

CONSTANTS
    EconomicScale,      \* digits a discounted amount keeps: 18 in the code
    AssessmentInputs,   \* what callers assess: [basis, routes]
    LedgerInputs,       \* the ones they also record
    CitationSets        \* the citations they offer an audit: [evidence, rules]

VARIABLES
    assessed,           \* the input of the last result returned
    ledger,             \* #records of one assessment input: [input, status]
    bundles             \* the audit bundles built: the inputs they are about

assessmentVars == <<assessed, ledger, bundles>>

FORMAL_ROUTES ==
    <<"continued-compatible-ev-use", "stationary-storage-repurposing", "recycling">>

zero == fromInteger(0)
one == fromInteger(1)

Total(decimals) == FoldLeft(add, zero, decimals)

fraction(numerator, denominator) ==
    IF denominator = 0 THEN zero
    ELSE divide(fromInteger(numerator), fromInteger(denominator), 6)

Distinct(keys) == \A i, j \in DOMAIN keys : keys[i] = keys[j] => i = j

-----------------------------------------------------------------------------
(* The parts of one route's result. *)

(* An absent rating counts as the worst in the lower bound and as the best *)
(* in the upper one.                                                       *)
Weighted(criteria, whenAbsent) ==
    Total([i \in DOMAIN criteria |->
             multiply(criteria[i].weight,
                      fromInteger(IF criteria[i].rating = 0 THEN whenAbsent
                                  ELSE criteria[i].rating))])

circularityScore(criteria) ==
    LET normalize(weighted) ==
            divide(multiply(subtract(weighted, one), fromInteger(100)), fromInteger(4), 6)
    IN  [lower |-> normalize(Weighted(criteria, 1)),
         upper |-> normalize(Weighted(criteria, 5))]

Categories(terms) == {terms[i].category : i \in DOMAIN terms}

environmentalIndicators(terms, functionalUnit) ==
    [c \in Categories(terms) |->
        LET own == SelectSeq(terms, LAMBDA t : t.category = c)
            signed == [i \in DOMAIN own |->
                         LET flow == multiply(own[i].quantity, own[i].factor)
                         IN  IF own[i].recovered THEN negate(flow) ELSE flow]
        IN  [unit |-> own[1].resultUnit,
             value |-> divide(Total(signed), functionalUnit, 6)]]

Discounted(flow, rate) ==
    divide(flow.amount,
           FoldLeft(multiply, one, [p \in 1 .. flow.period |-> add(one, rate)]),
           EconomicScale)

economicResult(scenario) ==
    LET flows == SortSeq(scenario.cashFlows, LAMBDA a, b : a.period < b.period)
        npv == add(scenario.initialInvestment,
                   Total([i \in DOMAIN flows |-> Discounted(flows[i], scenario.discountRate)]))
        cumulative(n) == add(scenario.initialInvestment,
                             Total([i \in 1 .. n |-> flows[i].amount]))
        paid == {n \in DOMAIN flows : compare(cumulative(n), zero) >= 0}
    IN  [netPresentValue |-> round(npv, 2),
         paybackPeriod |-> IF paid = {} THEN 0
                           ELSE flows[CHOOSE n \in paid : \A m \in paid : n <= m].period]

Usable(item) ==
    item.present /\ item.authorized /\ item.current /\ ~item.revoked /\ ~item.conflicting

evidenceAdequacy(items) ==
    LET Count(P(_)) == Cardinality({i \in DOMAIN items : P(items[i])})
        critical == {items[i] : i \in {j \in DOMAIN items : items[j].critical}}
        usable(item) == Usable(item)
        verified(item) == Usable(item) /\ item.verified
        current(item) == item.current
        conflicting(item) == item.conflicting
    IN  [coverage |-> fraction(Count(usable), Len(items)),
         verifiedFraction |-> fraction(Count(verified), Len(items)),
         freshnessFraction |-> fraction(Count(current), Len(items)),
         conflictCount |-> Count(conflicting),
         missingCritical |-> {item.field : item \in {c \in critical : ~Usable(c)}},
         weakest |-> IF \E c \in critical : ~Usable(c) THEN "missing"
                     ELSE IF \E c \in critical : ~c.verified THEN "unverified"
                     ELSE "verified"]

(* Every scenario passes, every one is ranked, and the rank never moves. *)
RankStable(scenarios) ==
    /\ scenarios # <<>>
    /\ \A i \in DOMAIN scenarios :
          /\ scenarios[i].gate = "PASS"
          /\ scenarios[i].routeRank # 0
          /\ scenarios[i].routeRank = scenarios[1].routeRank

Mutant_Gate(input) ==
    IF input.outcome = "FAIL" THEN "FAIL"
    ELSE IF \/ input.outcome = "UNKNOWN"
            \/ \E i \in DOMAIN input.evidence :
                  /\ input.evidence[i].critical
                  /\ ~input.evidence[i].present \/ input.evidence[i].conflicting
         THEN "UNKNOWN" ELSE "PASS"

Gate(input) ==
    IF input.outcome = "FAIL" THEN "FAIL"
    ELSE IF \/ input.outcome = "UNKNOWN"
            \/ evidenceAdequacy(input.evidence).missingCritical # {}
         THEN "UNKNOWN" ELSE "PASS"

assessRoute(input) ==
    [routeId |-> input.routeId,
     G |-> Gate(input),
     C |-> circularityScore(input.circularity),
     I |-> environmentalIndicators(input.environmental, input.functionalUnit),
     E |-> economicResult(input.economics),
     A |-> evidenceAdequacy(input.evidence),
     U |-> [gatePassFrequency |->
                fraction(Cardinality({i \in DOMAIN input.scenarios :
                                         input.scenarios[i].gate = "PASS"}),
                         Len(input.scenarios)),
            rankStable |-> RankStable(input.scenarios),
            percentiles |-> input.percentiles]]

-----------------------------------------------------------------------------
(* What assess refuses, and with which code. *)

UnitsAgree(terms) ==
    \A i, j \in DOMAIN terms :
        terms[i].category = terms[j].category => terms[i].resultUnit = terms[j].resultUnit

RouteError(input) ==
    IF input.evidence = <<>> \/ ~Distinct([i \in DOMAIN input.evidence |-> input.evidence[i].field])
    THEN "duplicate"
    ELSE IF input.circularity = <<>> \/ ~Distinct([i \in DOMAIN input.circularity |-> input.circularity[i].id])
    THEN "duplicate"
    ELSE IF compare(Total([i \in DOMAIN input.circularity |-> input.circularity[i].weight]),
                    one) # 0
    THEN "weight-sum"
    ELSE IF compare(input.functionalUnit, zero) <= 0
    THEN "invalid-input"
    ELSE IF ~UnitsAgree(input.environmental)
    THEN "unit-mismatch"
    ELSE IF compare(input.economics.discountRate, fromInteger(-1)) <= 0
    THEN "invalid-input"
    ELSE IF ~Distinct([i \in DOMAIN input.economics.cashFlows |-> input.economics.cashFlows[i].period])
    THEN "duplicate"
    ELSE IF \E i \in DOMAIN input.economics.cashFlows :
               input.economics.cashFlows[i].period < 1
    THEN "invalid-input"
    ELSE IF \E i \in DOMAIN input.percentiles :
               \/ compare(input.percentiles[i].probability, zero) < 0
               \/ compare(input.percentiles[i].probability, one) > 0
               \/ /\ i > 1
                  /\ compare(input.percentiles[i].probability,
                             input.percentiles[i - 1].probability) <= 0
    THEN "invalid-input"
    ELSE "none"

RankOf(input, id) ==
    LET at == CHOOSE i \in DOMAIN input.scenarios : input.scenarios[i].id = id
    IN  input.scenarios[at].routeRank

ScenarioIds(input) == {input.scenarios[i].id : i \in DOMAIN input.scenarios}

(* validateUncertaintyScenarioComparability, over the routes that pass. *)
ComparabilityError(passing) ==
    IF \E r \in passing : ~Distinct([i \in DOMAIN r.scenarios |-> r.scenarios[i].id])
    THEN "duplicate"
    ELSE IF \E r, q \in passing : ScenarioIds(r) # ScenarioIds(q)
    THEN "scenario-mismatch"
    ELSE IF \E r \in passing : \E id \in ScenarioIds(r) :
               LET ranks == {RankOf(q, id) : q \in passing}
               IN  0 \notin ranks /\ ranks # 1 .. Cardinality(passing)
    THEN "invalid-input"
    ELSE "none"

RankValuesOK(input) ==
    \A i \in DOMAIN input.scenarios :
        input.scenarios[i].gate # "PASS" => input.scenarios[i].routeRank = 0

Passing(routes) == {routes[i] : i \in {j \in DOMAIN routes : Gate(routes[j]) = "PASS"}}

AssessmentError(basis, routes) ==
    LET routeErrors == [i \in DOMAIN routes |-> RouteError(routes[i])]
    IN  IF \/ Len(routes) # Len(FORMAL_ROUTES)
           \/ \E i \in DOMAIN routes : routes[i].routeId # FORMAL_ROUTES[i]
        THEN "route-mismatch"
        ELSE IF \E i \in DOMAIN routes :
                   \/ compare(basis.units[i].value, routes[i].functionalUnit) # 0
                   \/ compare(basis.units[i].value, basis.units[1].value) # 0
        THEN "functional-unit-mismatch"
        ELSE IF \E i \in DOMAIN routes : basis.units[i].unit # basis.units[1].unit
        THEN "unit-mismatch"
        ELSE IF basis.digest # routes
        THEN "calculation-input-mismatch"
        ELSE IF \E i \in DOMAIN routes :
                   routes[i].economics.currency # routes[1].economics.currency
        THEN "currency-mismatch"
        ELSE IF \E i \in DOMAIN routes : ~RankValuesOK(routes[i])
        THEN "invalid-input"
        ELSE IF \E i \in DOMAIN routes : routeErrors[i] # "none"
        THEN routeErrors[CHOOSE i \in DOMAIN routes :
                              /\ routeErrors[i] # "none"
                              /\ \A j \in 1 .. (i - 1) : routeErrors[j] = "none"]
        ELSE IF ~UnitsAgree(routes[1].environmental \o routes[2].environmental
                              \o routes[3].environmental)
        THEN "unit-mismatch"
        ELSE ComparabilityError(Passing(routes))

-----------------------------------------------------------------------------
(* The comparison of the routes that pass. *)

(* No worse in any respect and better in one: circularity, coverage, value *)
(* and the shared impacts, of which less is better.                        *)
Dominates(left, right, shared) ==
    LET comparisons ==
            {compare(left.C.lower, right.C.lower),
             compare(left.A.coverage, right.A.coverage),
             compare(left.E.netPresentValue, right.E.netPresentValue)}
            \cup {-compare(left.I[c].value, right.I[c].value) : c \in shared}
    IN  -1 \notin comparisons /\ 1 \in comparisons

environmentalCategoriesSharedBy(passing) ==
    IF passing = {} THEN {}
    ELSE {c \in UNION {DOMAIN r.I : r \in passing} : \A r \in passing : c \in DOMAIN r.I}

paretoDominance(passing, shared) ==
    {<<l.routeId, r.routeId>> : <<l, r>> \in
        {pair \in passing \X passing :
            pair[1].routeId # pair[2].routeId /\ Dominates(pair[1], pair[2], shared)}}

(* Ranked first in every scenario that ranks it, and ranked at all. *)
RankedFirst(input) ==
    LET ranks == {input.scenarios[i].routeRank : i \in DOMAIN input.scenarios} \ {0}
    IN  ranks = {1}

Warning(holds, code) == IF holds THEN {code} ELSE {}

Decision(routes) ==
    LET results == [i \in DOMAIN routes |-> assessRoute(routes[i])]
        passing == {results[i] : i \in {j \in DOMAIN results : results[j].G = "PASS"}}
        shared == environmentalCategoriesSharedBy(passing)
        hasShared == Cardinality(passing) <= 1 \/ shared # {}
        allStable == \A r \in passing : r.U.rankStable
        winners == {routes[i].routeId : i \in {j \in DOMAIN routes :
                       results[j].G = "PASS" /\ RankedFirst(routes[j])}}
        dominance == IF hasShared THEN paretoDominance(passing, shared) ELSE {}
        undominated == {r.routeId : r \in passing} \ {pair[2] : pair \in dominance}
        supported == IF hasShared /\ Cardinality(winners) = 1 /\ undominated = winners
                     THEN winners ELSE {}
        hasUnknown == \E i \in DOMAIN results : results[i].G = "UNKNOWN"
        hasConflict == \E i \in DOMAIN routes : \E e \in DOMAIN routes[i].evidence :
                          routes[i].evidence[e].conflicting /\ routes[i].evidence[e].critical
        state == IF hasConflict THEN "requires_external_decision"
                 ELSE IF hasUnknown \/ ~allStable \/ supported = {} THEN "abstain"
                 ELSE "answer"
    IN  [decisionState |-> state,
         preferredRoute |-> IF state = "answer" THEN supported ELSE {},
         dominance |-> dominance,
         routes |-> results,
         warnings |->
            Warning(hasUnknown, "MISSING_OR_INSUFFICIENT_CRITICAL_EVIDENCE")
            \cup Warning(~allStable \/ Cardinality(winners) # 1, "ROUTE_RANK_UNSTABLE")
            \cup Warning(Cardinality(winners) = 1 /\ supported = {},
                         "ROUTE_NOT_UNIQUELY_PARETO_SUPPORTED")
            \cup Warning(~hasShared, "NO_SHARED_ENVIRONMENTAL_CATEGORY")
            \cup Warning(shared # UNION {DOMAIN r.I : r \in passing},
                         "NON_SHARED_ENVIRONMENTAL_CATEGORIES_EXCLUDED")
            \cup Warning(hasConflict, "CRITICAL_EVIDENCE_CONFLICT")]

assess(input) ==
    LET error == AssessmentError(input.basis, input.routes)
    IN  IF error # "none" THEN [error |-> error]
        ELSE [error |-> "none"] @@ Decision(input.routes)

-----------------------------------------------------------------------------
(* Support of an audit bundle. *)

componentPath == {FORMAL_ROUTES[i] : i \in DOMAIN FORMAL_ROUTES}
                     \X {"G", "C", "I", "E", "A", "U"}

validateAssessmentSupport(citations) ==
    /\ \A c \in citations.evidence : c.status = "active"
    /\ \A c \in citations.evidence \cup citations.rules : c.complete /\ c.supports # {}
    /\ componentPath \subseteq
          UNION {c.supports : c \in citations.evidence \cup citations.rules}

-----------------------------------------------------------------------------
(* The controlled inputs of the case interface. *)

criterion(id, rating) == [id |-> id, rating |-> rating, weight |-> create(5, 1)]

impact(category, factor, recovered, quantity) ==
    [category |-> category, factor |-> fromInteger(factor), recovered |-> recovered,
     quantity |-> fromInteger(quantity), resultUnit |-> category]

field(name, critical) ==
    [field |-> name, present |-> TRUE, authorized |-> TRUE, current |-> TRUE,
     revoked |-> FALSE, conflicting |-> FALSE, verified |-> critical, critical |-> critical]

route(index) ==
    LET rating == 6 - index
    IN  [routeId |-> FORMAL_ROUTES[index],
         outcome |-> "PASS",
         circularity |-> <<criterion("resource-retention", rating),
                           criterion("information-availability", rating)>>,
         functionalUnit |-> fromInteger(2),
         environmental |-> <<impact("climate-change", 2, FALSE, 5),
                             impact("climate-change", 1, TRUE, 2),
                             impact("mineral-depletion", 1, FALSE, 2)>>,
         economics |-> [currency |-> "EUR", discountRate |-> zero,
                        initialInvestment |-> fromInteger(-100),
                        cashFlows |-> <<[amount |-> fromInteger(50), period |-> 1],
                                        [amount |-> fromInteger(62 - 2 * index), period |-> 2]>>],
         evidence |-> <<field("diagnostic-condition", TRUE), field("service-history", FALSE)>>,
         scenarios |-> [i \in 1 .. 3 |-> [id |-> <<"low", "central", "high">>[i],
                                          gate |-> "PASS", routeRank |-> index]],
         percentiles |-> <<[probability |-> create(25, 3), value |-> fromInteger(10 - index)],
                           [probability |-> create(5, 1), value |-> fromInteger(12 - index)],
                           [probability |-> create(975, 3), value |-> fromInteger(14 - index)]>>]

setScenarioRank(input, rank) ==
    [input EXCEPT !.scenarios = [i \in DOMAIN @ |-> [@[i] EXCEPT !.routeRank = rank]]]

assessmentBasis(routes) ==
    [units |-> [i \in 1 .. 3 |-> [value |-> fromInteger(2), unit |-> "service"]],
     digest |-> routes]

(* A missing or a conflicting critical record takes the first route out of *)
(* the ranking, and the interface ranks the two others.                    *)
scenarioRoutes(scenario) ==
    LET disturbed == [route(1) EXCEPT
            !.evidence[1].present = (scenario # "missing"),
            !.evidence[1].conflicting = (scenario = "conflicting")]
    IN  IF scenario = "nominal" THEN <<route(1), route(2), route(3)>>
        ELSE <<disturbed, setScenarioRank(route(2), 1), setScenarioRank(route(3), 2)>>

runAssessment(scenario) ==
    [basis |-> assessmentBasis(scenarioRoutes(scenario)), routes |-> scenarioRoutes(scenario)]

(* What the interface labels its three scenarios. *)
ASSUME ScenariosDecideAsLabelled ==
    /\ assess(runAssessment("nominal")).preferredRoute = {FORMAL_ROUTES[1]}
    /\ assess(runAssessment("missing")).decisionState = "abstain"
    /\ assess(runAssessment("conflicting")).decisionState = "requires_external_decision"

-----------------------------------------------------------------------------
(* assess depends on its input alone: the state keeps the input of the     *)
(* last result, and assess(assessed) is that result.                       *)
NoInput == [basis |-> <<>>, routes |-> <<>>]

(* What is recorded or audited is a result, never a refusal. *)
ASSUME LedgerInputsHaveResults ==
    LedgerInputs \subseteq AssessmentInputs
        /\ \A input \in LedgerInputs : assess(input).error = "none"

AssessmentInit == assessed = NoInput /\ ledger = <<>> /\ bundles = {}

Assess(input) ==
    /\ assessed' = input
    /\ UNCHANGED <<ledger, bundles>>

(* AssessmentLedger.issue: a result may be recorded once; the one before   *)
(* it is superseded.                                                       *)
issue ==
    /\ assessed \in LedgerInputs
    /\ \A i \in DOMAIN ledger : ledger[i].input # assessed
    /\ ledger' = Append([i \in DOMAIN ledger |->
                            IF i = Len(ledger) THEN [ledger[i] EXCEPT !.status = "superseded"]
                            ELSE ledger[i]],
                        [input |-> assessed, status |-> "active"])
    /\ UNCHANGED <<assessed, bundles>>

buildAssessmentAuditBundle(citations) ==
    /\ assessed \in LedgerInputs
    /\ validateAssessmentSupport(citations)
    /\ bundles' = bundles \cup {assessed}
    /\ UNCHANGED <<assessed, ledger>>

(* Each input is assessed once, the ones a caller records in every order. *)
AssessmentNext ==
    \/ assessed = NoInput /\ \E input \in AssessmentInputs : Assess(input)
    \/ assessed \in LedgerInputs /\ \E input \in LedgerInputs : Assess(input)
    \/ issue
    \/ \E citations \in CitationSets : buildAssessmentAuditBundle(citations)

(* The result is a decision its routes support. *)
Supported(input, result) ==
    LET passing == {result.routes[i].routeId :
                      i \in {j \in DOMAIN result.routes : result.routes[j].G = "PASS"}}
    IN  /\ \A pair \in result.dominance :
              /\ <<pair[2], pair[1]>> \notin result.dominance
              /\ \A other \in result.dominance :
                    pair[2] = other[1] => <<pair[1], other[2]>> \in result.dominance
        /\ \A best \in result.preferredRoute :
              \A r \in passing \ {best} : <<best, r>> \in result.dominance
        /\ result.preferredRoute # {} =>
              \A i \in DOMAIN input.routes : \A e \in DOMAIN input.routes[i].evidence :
                  LET item == input.routes[i].evidence[e]
                  IN  item.critical /\ result.routes[i].G # "FAIL" => Usable(item)

(* assess: dominance is a strict partial order, the route an answer        *)
(* prefers dominates every other route that passes, so that none could be  *)
(* preferred to it in any respect, and no answer is given while a critical *)
(* record of a route that was not ruled out is missing, stale, revoked or  *)
(* in conflict.                                                            *)
PreferredRouteDominates ==
    [][\A result \in {assess(assessed')} :
           result.error = "none" => Supported(assessed', result)]_assessed

=============================================================================
