----------------------------- MODULE DatedRules -----------------------------
(***************************************************************************)
(* The dated rule registry (src/decision/rules.ts): authoritative sources  *)
(* with a lifecycle, rules that cite source versions, the selection of the *)
(* rule that applies at a date, and the evaluation of its predicates.      *)
(* Sources and rules are maps from a version key to a record; a call that  *)
(* throws leaves them alone and is no step.                                *)
(***************************************************************************)
EXTENDS ExactDecimal, Sequences, FiniteSets

CONSTANTS
    SourceKeys,     \* an identifier and a version
    RuleKeys,       \* an identifier and a version
    RuleIds,
    Scopes,         \* a jurisdiction and a subject
    PredicateLists, \* the executable predicates of a rule, in order
    SourceInputs,   \* the sources callers register
    RuleInputs,     \* the rules callers register
    RuleTimes       \* the times of calls

VARIABLES
    sources,        \* #sources
    rules           \* #rules

ruleVars == <<sources, rules>>

Lifecycles == {"pending", "active", "unavailable", "superseded", "withdrawn", "expired"}

Statuses == {"pending", "active", "disabled", "superseded", "retired"}

(* An input is official when its URL is https and it names an authority. *)
SourceRecords ==
    [key : SourceKeys, lifecycle : Lifecycles, review_due_at : Nat,
     permitted_rule_ids : SUBSET RuleIds, official : BOOLEAN]

RuleRecords ==
    [key : RuleKeys, status : Statuses, source_clauses : SUBSET SourceKeys,
     effective_from : Nat, effective_until : Nat, scope : SUBSET Scopes,
     predicates : PredicateLists]

ASSUME RuleInputsAssumption ==
    SourceInputs \subseteq SourceRecords /\ RuleInputs \subseteq RuleRecords

Closing == {"unavailable", "superseded", "withdrawn", "expired"}

(* A map with one more entry, or with one entry replaced. *)
Put(map, key, value) ==
    [k \in DOMAIN map \cup {key} |-> IF k = key THEN value ELSE map[k]]

allowedSourceTransition(from, to) ==
    \/ from \in {"pending", "unavailable"} /\ to \in {"active", "withdrawn", "expired"}
    \/ from = "active" /\ to \in Closing

registerSource(input) ==
    /\ input.key \notin DOMAIN sources
    /\ input.official
    /\ sources' = Put(sources, input.key, input)
    /\ UNCHANGED rules

Mutant_DisabledBy(key, lifecycle, rule) ==
    IF lifecycle \in Closing \ {"unavailable"} /\ key \in rule.source_clauses
       /\ rule.status = "active"
    THEN [rule EXCEPT !.status = "disabled"] ELSE rule

(* What closing a source does to a rule that cites it. *)
DisabledBy(key, lifecycle, rule) ==
    IF lifecycle \in Closing /\ key \in rule.source_clauses /\ rule.status = "active"
    THEN [rule EXCEPT !.status = "disabled"] ELSE rule

(* review_due_at stays what it was: a review that reopens a source does    *)
(* not postpone its next one.                                              *)
transitionSource(key, lifecycle) ==
    /\ key \in DOMAIN sources
    /\ allowedSourceTransition(sources[key].lifecycle, lifecycle)
    /\ sources' = [sources EXCEPT ![key].lifecycle = lifecycle]
    /\ rules' = [k \in DOMAIN rules |-> DisabledBy(key, lifecycle, rules[k])]

(* A source a rule may rest on at a time. *)
InForce(key, at) ==
    /\ key \in DOMAIN sources
    /\ sources[key].lifecycle = "active"
    /\ sources[key].review_due_at >= at

registerRule(input, at) ==
    /\ input.key \notin DOMAIN rules
    /\ input.predicates # <<>>
    /\ \A i, j \in DOMAIN input.predicates :
          input.predicates[i].id = input.predicates[j].id => i = j
    /\ \A s \in input.source_clauses :
          InForce(s, at) /\ input.key[1] \in sources[s].permitted_rule_ids
    /\ rules' = Put(rules, input.key, input)
    /\ UNCHANGED sources

-----------------------------------------------------------------------------
(* Selection and evaluation read the registry. *)

Candidates(ruleId, scope, asOf) ==
    {k \in DOMAIN rules :
        /\ k[1] = ruleId
        /\ rules[k].status = "active"
        /\ scope \in rules[k].scope
        /\ rules[k].effective_from <= asOf
        /\ asOf < rules[k].effective_until}

(* The newest candidate; the call throws when it rests on a source that is *)
(* not in force, and does not fall back to an older version.               *)
selectRule(ruleId, scope, asOf) ==
    {k \in Candidates(ruleId, scope, asOf) :
        /\ \A other \in Candidates(ruleId, scope, asOf) : other[2] <= k[2]
        /\ \A s \in rules[k].source_clauses : InForce(s, asOf)}

Absent == [kind |-> "absent", n |-> 0]

(* Booleans and decimals (in tenths, one text each) have a kind; an order  *)
(* is asked of two decimals only.                                          *)
evaluatePredicate(predicate, value) ==
    LET threshold == predicate.threshold
        holds == CASE predicate.operator = "present" ->
                        value # [kind |-> "boolean", n |-> 0]
                   [] predicate.operator = "eq" -> value = threshold
                   [] predicate.operator = "gte" ->
                        compare(create(value.n, 1), create(threshold.n, 1)) >= 0
                   [] OTHER ->
                        compare(create(value.n, 1), create(threshold.n, 1)) <= 0
        unknown == \/ value = Absent
                   \/ predicate.operator # "present" /\ threshold = Absent
                   \/ /\ predicate.operator \in {"gte", "lte"}
                      /\ {value.kind, threshold.kind} # {"decimal"}
    IN  IF unknown THEN "UNKNOWN" ELSE IF holds THEN "PASS" ELSE "FAIL"

evaluate(rule, facts) ==
    LET states == [i \in DOMAIN rule.predicates |->
                      evaluatePredicate(rule.predicates[i],
                                        facts[rule.predicates[i].field])]
        critical == {states[i] : i \in {j \in DOMAIN states :
                                           rule.predicates[j].critical}}
    IN  [outcome |-> IF "FAIL" \in critical THEN "FAIL"
                     ELSE IF "UNKNOWN" \in critical THEN "UNKNOWN" ELSE "PASS",
         reasons |-> {<<states[i], rule.predicates[i].id>> :
                        i \in {j \in DOMAIN states : states[j] # "PASS"}}]

-----------------------------------------------------------------------------
RulesInit ==
    /\ sources = [k \in {} |-> 0]
    /\ rules = [k \in {} |-> 0]

RulesNext ==
    \/ \E input \in SourceInputs : registerSource(input)
    \/ \E key \in DOMAIN sources, l \in Lifecycles : transitionSource(key, l)
    \/ \E input \in RuleInputs, at \in RuleTimes : registerRule(input, at)

RulesSpec == RulesInit /\ [][RulesNext]_ruleVars

(* transitionSource, registerRule: an active rule rests on active sources  *)
(* only, in whatever order sources close, reopen and rules are registered. *)
ActiveRulesRestOnActiveSources ==
    \A k \in DOMAIN rules :
        rules[k].status = "active" =>
            \A s \in rules[k].source_clauses :
                s \in DOMAIN sources /\ sources[s].lifecycle = "active"

(* registerSource, registerRule, transitionSource: the maps hold records. *)
RulesTypeOK ==
    /\ sources \in [DOMAIN sources -> SourceRecords]
    /\ rules \in [DOMAIN rules -> RuleRecords]
=============================================================================
