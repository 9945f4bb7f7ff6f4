-------------------------- MODULE AssistantRelease --------------------------
(***************************************************************************)
(* What the assistant may show (assistant/service.ts): what a text says    *)
(* about a recorded decision, the validation of a model's candidate        *)
(* against the records and the rendering of a recorded decision.           *)
(*                                                                         *)
(* A decision is [outcome, code, reasons]; a code is a hyphenated token.   *)
(***************************************************************************)
EXTENDS SemanticSupport, RecordedDecisions, TLAPS

CONSTANT SecretTokens  \* private keys, API keys and the like

(***************************************************************************)
(* What a text says about a decision: the operative assertions in its      *)
(* clauses, whether they contradict the decision, repudiate its code or    *)
(* state one that was never recorded.                                      *)
(***************************************************************************)

Outcomes == {"answer", "abstain", "requires_external_decision"}

\* Lower-case words; "cannot" is "can not".
normalizeDecisionProse(s) ==
  LET words == Words(s)
  IN  Concat([i \in DOMAIN words |-> IF words[i] = "cannot" THEN <<"can", "not">> ELSE <<words[i]>>])

CodeWords(code) == Parts(code)

StartsWith(s, p) == At(s, 1, p)

EndsWith(s, p) == Len(p) <= Len(s) /\ At(s, Len(s) - Len(p) + 1, p)

\* s without the longest of the phrases it starts with.
Skip(s, phrases) ==
  LET found == {p \in phrases : StartsWith(s, p)}
  IN  IF found = {} THEN s ELSE SubSeq(s, Final({Len(p) : p \in found}) + 1, Len(s))

Each(words) == {<<w>> : w \in words}

Then(left, right) == {l \o r : l \in left, r \in right}

Optional(phrases) == {<<>>} \cup phrases

(***************************************************************************)
(* The recorded decision itself.                                           *)
(***************************************************************************)

NoExpectation == [relation |-> "none", target |-> <<>>]

\* What an "answer" code decides: X-preferred, eligible-for-X, X-permitted, X-applicable.
answerDecisionExpectation(code) ==
  LET words == CodeWords(code)
      ends(suffixes) == Len(words) > 1 /\ Last(words) \in suffixes
      upTo(relation) == [relation |-> relation, target |-> Front(words)]
  IN  CASE ends({"preferred", "recommended", "selected"}) -> upTo("preferred")
        [] Len(words) > 2 /\ StartsWith(words, <<"eligible", "for">>) ->
             [relation |-> "eligible", target |-> SubSeq(words, 3, Len(words))]
        [] ends({"permitted", "allowed", "authorized"}) -> upTo("permitted")
        [] ends({"applicable"}) -> upTo("applicable")
        [] OTHER -> NoExpectation

\* The sentence shown for a decision.
recordedDecisionStatement(decision) ==
  LET expectation == answerDecisionExpectation(decision.code)
      target == IF expectation.target = <<"battery", "passport", "requirement">>
                THEN <<"the">> \o expectation.target ELSE expectation.target
      conclusion ==
        CASE decision.outcome = "abstain" ->
               <<"the", "recorded", "decision", "withholds", "an", "answer", "because", "required", "evidence",
                 "is", "insufficient">>
          [] decision.outcome = "requires_external_decision" ->
               <<"the", "recorded", "decision", "requires", "review", "by", "a", "responsible", "organization">>
          [] expectation.relation = "preferred" -> target \o <<"is", "the", "recorded", "preferred", "route">>
          [] expectation.relation = "eligible" -> <<"the", "battery", "is", "recorded", "as", "eligible", "for">> \o target
          [] expectation.relation = "applicable" -> target \o <<"is", "recorded", "as", "applicable">>
          [] OTHER -> target \o <<"is", "recorded", "as", "permitted">>
  IN  conclusion \o <<".", "the", "recorded", "decision", "code", "is", decision.code, ".">>

(***************************************************************************)
(* The assertions of a text.  A row of the table is one clause form:       *)
(* who leads it, the auxiliary, the word that decides, what may follow,    *)
(* and which of these make up the target.                                  *)
(***************************************************************************)

Modals == {"should", "must", "can", "may", "will"}

Be == Each({"is", "was", "remains"})

ShouldBe == {<<"should", "be">>, <<"must", "be">>}

MayBe == ShouldBe \cup {<<"can", "be">>, <<"may", "be">>}

Never == Each({"not", "never"})

ACTION_WORDS == {"use", "reuse", "resell", "sell", "recycle", "repurpose", "recover", "enter", "perform", "execute",
            "list", "purchase", "transfer", "fund", "settle"}

Actions == Each(ACTION_WORDS) \cup {<<"proceed", "with">>}

Ahead == {<<"go", "ahead", "with">>, <<"move", "forward", "with">>}

Proceeding == {<<"proceed">>, <<"go", "ahead">>, <<"move", "forward">>}

Participles == Each({"used", "reused", "resold", "sold", "recycled", "repurposed", "recovered", "listed", "purchased",
                     "transferred", "funded", "settled"})

GERUNDS == {"using", "reusing", "reselling", "selling", "recycling", "repurposing", "recovering", "listing",
            "purchasing", "transferring", "funding", "settling"}

Chosen == Each({"preferred", "recommended", "selected", "chosen"})

Fitting == Each({"advisable", "appropriate"})

Allowed == Each({"permitted", "allowed", "authorized", "approved"})

Eligible == Each({"eligible"})

Actors == {"system", "user", "organization", "operator", "buyer", "seller", "you", "we", "i"}

Recorders == {"system", "assessment", "record", "records", "we", "i"}

Row(polarity, relation, lead, mid, head, rest, takes) ==
  [polarity |-> polarity, relation |-> relation, lead |-> lead, mid |-> mid, head |-> head, rest |-> rest,
   takes |-> takes]

NEGATIVE_FORMS ==
  LET no(relation, lead, mid, head, rest, takes) == Row("negative", relation, lead, mid, head, rest, takes)
      nothing == {<<>>}
      modalNot == Then(Each(Modals), {<<"not">>})
      decided == Chosen \cup Allowed \cup Eligible
  IN  << no("applicability", "subject", {<<"does", "not">>, <<"do", "not">>}, {<<"apply">>}, "any", {"subject"}),
         no("applicability", "subject", Then(Be, {<<"not">>}), {<<"applicable">>}, "any", {"subject"}),
         Row("affirmative", "applicability", "subject", {<<"does">>, <<"do">>}, {<<"apply">>}, "any", {"subject"}),
         Row("affirmative", "applicability", "subject", Be, {<<"applicable">>}, "any", {"subject"}),
         no("action", "subject", Then(Each({"is", "was"}) \cup MayBe \cup {<<"will", "be">>}, Never), Participles, "for",
            {"head", "subject", "rest"}),
         no("action", "subject", modalNot, Actions, "some", {"head", "subject", "rest"}),
         no("action", "please", nothing, Each({"avoid", "reject", "exclude", "forbid", "prohibit"}) \cup {<<"rule", "out">>},
            "some", {"rest"}),
         no("action", "actor", modalNot \cup {<<"do", "not">>, <<"does", "not">>},
            Actions \cup Ahead \cup Each({"prefer", "recommend", "select", "choose", "permit", "allow", "authorize", "approve"}),
            "some", {"head", "rest"}),
         no("action", "subject", modalNot, Proceeding, "end", {"subject"}),
         no("authorization", "no", Be \cup {<<"has", "been">>} \cup MayBe, decided, "any", {"subject"}),
         no("authorization", "subject", Then(Be, Never), {<<"eligible", "for">>}, "some", {"rest"}),
         no("authorization", "subject", Be, {<<"unsuitable", "for">>}, "some", {"rest"}),
         no("authorization", "subject", Be \cup ShouldBe,
            Then(Never, decided \cup Fitting)
              \cup Each({"prohibited", "forbidden", "rejected", "excluded", "ineligible", "unavailable", "unsuitable"}),
            "any", {"subject"}) >>

AFFIRMATIVE_FORMS ==
  LET yes(relation, lead, mid, head, rest, takes) == Row("affirmative", relation, lead, mid, head, rest, takes)
      nothing == {<<>>}
      been == Be \cup ShouldBe \cup {<<"has", "been">>}
      alternatives == Each({"route", "option", "alternative", "choice"})
      the == Optional({<<"the">>})
  IN  << yes("preference", "recorder", nothing, Each({"prefer", "recommend", "select", "choose"}), "some", {"rest"}),
         yes("preference", "the", Then(Chosen, alternatives), Each({"is", "remains"}), "some", {"rest"}),
         yes("preference", "subject", Then(been, the), Chosen \cup Fitting, "any", {"subject"}),
         yes("preference", "subject", Then(Be, the), Then(Each({"best", "better", "superior"}), Optional(alternatives)),
             "compare", {"subject"}),
         yes("preference", "subject", Each({"ranks", "ranked"}), {<<"first">>}, "any", {"subject"}),
         yes("authorization", "recorder", nothing, Each({"permit", "allow", "authorize", "approve"}), "some", {"rest"}),
         yes("authorization", "subject", been, {<<"eligible", "for">>}, "some", {"rest"}),
         yes("authorization", "subject", been, {<<"suitable", "for">>}, "some", {"rest"}),
         yes("authorization", "subject", been, Allowed \cup Eligible, "any", {"subject"}),
         yes("action", "subject", Each(Modals), Actions \cup Ahead, "some", {"head", "subject", "rest"}),
         yes("action", "subject", Each(Modals), Proceeding, "end", {"subject"}),
         yes("action", "subject", Each({"is", "was"}) \cup MayBe \cup {<<"will", "be">>}, Participles, "for",
             {"head", "subject", "rest"}),
         yes("action", "actor", Each(Modals), Actions \cup Ahead, "some", {"head", "rest"}),
         yes("action", "gerund", Each({"is", "remains"}) \cup {<<"would", "be">>},
             Each({"appropriate", "recommended", "preferred"}) \cup Allowed, "any", {"subject"}),
         yes("action", "please", nothing, Actions \cup Ahead, "some", {"head", "rest"}) >>

ClauseForms == NEGATIVE_FORMS \o AFFIRMATIVE_FORMS

\* How many words may lead a clause of this form.
Leads(row, clause) ==
  LET optional(words) == {0} \cup {1 : w \in {w \in {clause[1]} : w \in words}}
                             \cup {2 : x \in {x \in {1} : Len(clause) > 1 /\ clause[1] = "the" /\ clause[2] \in words}}
  IN  CASE row.lead = "subject"  -> 1..Len(clause)
        [] row.lead = "no"       -> IF clause[1] = "no" THEN 2..Len(clause) ELSE {}
        [] row.lead = "gerund"   -> IF clause[1] \in GERUNDS THEN 2..Len(clause) ELSE {}
        [] row.lead = "please"   -> {0} \cup {1 : w \in {w \in {clause[1]} : w = "please"}}
        [] row.lead = "the"      -> {0} \cup {1 : w \in {w \in {clause[1]} : w = "the"}}
        [] row.lead = "actor"    -> optional(Actors)
        [] row.lead = "recorder" -> optional(Recorders)

RestMatches(rest, clause, r) ==
  CASE rest = "any"     -> TRUE
    [] rest = "some"    -> r <= Len(clause)
    [] rest = "end"     -> r = Len(clause) + 1
    [] rest = "for"     -> r = Len(clause) + 1 \/ (clause[r] = "for" /\ r < Len(clause))
    [] rest = "compare" -> r = Len(clause) + 1 \/ clause[r] \in {"than", "to"}

\* Where the form is found in the clause: the shortest lead, with the phrases that follow it.
FormMatches(row, clause) ==
  LET matches(l) == {mh \in row.mid \X row.head :
                       /\ At(clause, l + 1, mh[1] \o mh[2])
                       /\ RestMatches(row.rest, clause, l + Len(mh[1]) + Len(mh[2]) + 1)}
      leads == {l \in Leads(row, clause) : matches(l) # {}}
      best(l) == CHOOSE mh \in matches(l) : \A other \in matches(l) : Len(other[1] \o other[2]) <= Len(mh[1] \o mh[2])
  IN  IF leads = {} THEN {} ELSE {[lead |-> First(leads), mid |-> best(First(leads))[1], head |-> best(First(leads))[2]]}

AssertionOf(row, clause, m) ==
  LET subject == SubSeq(clause, IF clause[1] = "the" \/ row.lead = "no" THEN 2 ELSE 1, m.lead)
      rest    == Skip(SubSeq(clause, m.lead + Len(m.mid) + Len(m.head) + 1, Len(clause)),
                      IF row.rest = "for" THEN {<<"for">>} ELSE {})
      take(part, words) == IF part \in row.takes THEN words ELSE <<>>
  IN  [polarity |-> row.polarity, relation |-> row.relation, source |-> clause,
       target |-> take("head", m.head) \o take("subject", subject) \o take("rest", rest)]

\* The first form that a clause has is what it asserts.
decisionAssertions(s) ==
  LET clauses == UNION {SplitAt(normalizeDecisionProse(sentence),
                                {"and", "but", "while", "whereas", "although", "however", "yet"}) :
                        sentence \in SplitAt(s, {".", ";"})}
      asserted(clause) ==
        LET rows == {i \in DOMAIN ClauseForms : FormMatches(ClauseForms[i], clause) # {}}
        IN  IF rows = {} THEN {}
            ELSE {AssertionOf(ClauseForms[First(rows)], clause, m) : m \in FormMatches(ClauseForms[First(rows)], clause)}
  IN  UNION {asserted(clause) : clause \in clauses}

TargetAliases ==
  [recover |-> "recovery", recovered |-> "recovery", recovering |-> "recovery", resell |-> "resale",
   resold |-> "resale", reselling |-> "resale", sell |-> "resale", sold |-> "resale", selling |-> "resale",
   recycle |-> "recycling", recycled |-> "recycling", repurpose |-> "repurposing", repurposed |-> "repurposing",
   used |-> "use", using |-> "use"]

TargetStopwords ==
  {"a", "an", "the", "this", "that", "route", "option", "alternative", "choice", "battery", "for", "to", "with",
   "under", "enter", "perform", "execute", "proceed", "list"}

decisionTargetTokens(s) ==
  LET evUse == Rewrite(normalizeDecisionProse(s), {<<"continued", "automotive", "use">>, <<"continued", "ev", "use">>},
                       Anything, <<"continued", "compatible", "ev", "use">>)
      ev == Rewrite(evUse, {<<"electric", "vehicle">>}, Anything, <<"ev">>)
      storage == Rewrite(ev, {<<"stationary", "energy", "storage">>}, Anything, <<"stationary", "storage", "repurposing">>)
  IN  {IF w \in DOMAIN TargetAliases THEN TargetAliases[w] ELSE w : w \in ToSet(storage)} \ TargetStopwords

decisionTargetMatches(actual, expected) ==
  decisionTargetTokens(expected) # {} /\ decisionTargetTokens(expected) \subseteq decisionTargetTokens(actual)

isOperativeDecisionAssertion(a) ==
  IF /\ a.relation = "authorization" /\ "unavailable" \in ToSet(a.source)
     /\ ToSet(a.target) \cap {"resale", "listing", "reuse", "recycling", "repurposing", "route", "option", "transaction",
                              "recovery"} = {}
     /\ ~ Has(a.target, <<"lifecycle", "action">>)
  THEN FALSE
  ELSE a.relation # "action" \/ ~ AtAny(a.target, 1, {<<"use", "of">>, <<"reuse", "of">>})

isClearlyNonOperative(s) ==
  HasAny(s, Then(Each({"could", "may"}), {<<"be", "considered">>})
            \cup Then(Each({"possible", "potential", "candidate"}), Each({"route", "option", "alternative"}))
            \cup {<<"for", "consideration">>, <<"pending", "review">>, <<"pending", "approval">>,
                  <<"pending", "a", "decision">>})

isClearlyNonOperativeAssertion(a) == a.relation # "action" /\ isClearlyNonOperative(a.source)

(***************************************************************************)
(* Contradiction of the recorded decision.                                 *)
(***************************************************************************)

Boundary == {"legal", "regulatory", "safety", "transaction", "ownership"}

\* "without review", "until ...", "as legal ...": the code is not rejected, its reach is stated.
isQualifiedDecisionBoundaryCaveat(tail) ==
  \/ /\ StartsWith(tail, <<"without">>)
     /\ \E i \in 2..Len(tail) :
          /\ tail[i] \in {"organization", "authority", "actor", "approval", "review", "decision", "authorization", "confirmation"}
          /\ \A j \in 2..(i - 1) : \/ tail[j] \in {"responsible", "accountable", "authorized"} \cup Boundary
                                   \/ j = 2 /\ tail[j] \in {"the", "a", "an"}
  \/ AtAny(tail, 1, Each({"until", "unless", "before", "pending"}))
  \/ AtAny(tail, 1, Then({<<"as">>}, Each(Boundary)))

Followed == Each({"followed", "applied", "implemented", "used", "executed", "accepted", "adopted", "observed"})
              \cup {<<"acted", "on">>, <<"relied", "on">>}

DirectRepudiations ==
  Then(Then(Each(Modals), {<<"not">>, <<"not", "be">>}), Followed)
    \cup Then(Then(Be, {<<"not", "to", "be">>}), Followed)
    \cup Then(Then(Each(Modals), {<<"be">>}), Each({"ignored", "disregarded", "rejected", "overridden", "dismissed"}))

GerundRepudiations ==
  Then(Be \cup {<<"would", "be">>} \cup ShouldBe,
       Then(Never, Each({"appropriate", "recommended", "permitted", "allowed", "authorized", "valid", "advisable", "acceptable"}))
         \cup Each({"prohibited", "forbidden", "invalid", "inappropriate", "inadvisable", "unacceptable"}))

\* The text refuses to follow the code, unless it only states the code's boundary.
repudiatesExactDecisionCode(before, after) ==
  LET code   == Then({<<"the">>, <<"the", "recorded">>}, Each({"decision", "outcome", "code"}))
      direct == Skip(Skip(Skip(after, code \cup Then({<<"is">>}, code)), Each({"and", "but", "yet", "however"})),
                     Each({"it", "this", "that"}) \cup Then({<<"the">>}, Each({"decision", "outcome", "code"})))
      repudiated(text, phrases) == AtAny(text, 1, phrases) /\ ~ isQualifiedDecisionBoundaryCaveat(Skip(text, phrases))
  IN  \/ repudiated(direct, DirectRepudiations)
      \/ \E p \in Each({"follow", "apply", "implement", "use", "execute", "accept", "adopt", "observe", "ignore", "disregard",
                        "reject", "override", "dismiss"}) \cup {<<"act", "on">>, <<"rely", "on">>} : EndsWith(before, p)
      \/ /\ \E p \in Each({"following", "applying", "implementing", "using", "executing", "accepting", "adopting", "observing"})
                       \cup {<<"acting", "on">>, <<"relying", "on">>} : EndsWith(before, p)
         /\ repudiated(after, GerundRepudiations)

contradictsRecordedDecision(s, code) ==
  \E sentence \in SplitAt(s, {".", ";"}) :
    LET t == normalizeDecisionProse(sentence)
        at == {i \in DOMAIN t : At(t, i, CodeWords(code))}
        before == SubSeq(t, 1, First(at) - 1)
        after  == SubSeq(t, First(at) + Len(CodeWords(code)), Len(t))
        denials == Then({<<"does", "not">>, <<"do", "not">>, <<"is", "not">>, <<"was", "not">>, <<"were", "not">>,
                         <<"can", "not">>, <<"never">>},
                        Each({"apply", "applies", "applicable", "valid", "supported", "recorded", "correct"})
                          \cup Then(Then(Optional({<<"the">>}), Optional({<<"recorded">>})),
                                    Each({"decision", "outcome", "code"})))
    IN  /\ at # {}
        /\ \/ AtAny(after, 1, Then(Optional(Be), Each({"incorrect", "invalid", "wrong", "false", "inapplicable"})))
           \/ repudiatesExactDecisionCode(before, after)
           \/ \E p \in Never : EndsWith(before, p)
           \/ \E i \in 1..5 : AtAny(after, i, denials)

containsExactDecisionCode(s, code) == code \in ToSet(s)

\* Approved automatically, unless negated.
containsAffirmativeAutomaticApproval(t) ==
  \E i \in DOMAIN t :
    \E p \in {<<"automatic", "approval">>, <<"automatically", "approve">>, <<"automatically", "approved">>,
              <<"automatically", "approves">>, <<"approved", "automatically">>, <<"approves", "automatically">>} :
      /\ At(t, i, p)
      /\ ~ (i > 1 /\ t[i - 1] \in {"no", "not", "never", "without"})
      /\ ~ AtAny(t, i + Len(p), Then(Be, Each({"not", "prohibited", "forbidden", "blocked"})))

Opposites ==
  [sufficient |-> {"insufficient"}, insufficient |-> {"sufficient"}, eligible |-> {"ineligible"},
   ineligible |-> {"eligible"}, permitted |-> {"prohibited"}, prohibited |-> {"permitted"},
   accepted |-> {"rejected"}, rejected |-> {"accepted", "approved"}, approved |-> {"rejected"},
   available |-> {"unavailable"}, unavailable |-> {"available"}, pass |-> {"fail"}, fail |-> {"pass"}]

\* The text gives a decision code that is not the recorded one.
containsAlternateDecisionCode(s, code) ==
  LET t == normalizeDecisionProse(s)
      words == CodeWords(code)
      named(i) == s[i] \in DOMAIN Hyphenated /\ s[i] # code
                    /\ \E p \in {<<"decision", "code">>, <<"decision", "code", "is">>, <<"the", "code">>} :
                         i > Len(p) /\ At(s, i - Len(p), p)
  IN  \/ code = "external-decision-required" /\ containsAffirmativeAutomaticApproval(t)
      \/ \E i \in DOMAIN words : /\ words[i] \in DOMAIN Opposites
                                 /\ \E o \in Opposites[words[i]] : Has(t, [words EXCEPT ![i] = o])
      \/ \E i \in DOMAIN s : named(i)

\* A refusal for want of evidence or for external review is denied.
contradictsNonAnswerDecisionSemantics(s, decision) ==
  LET t == normalizeDecisionProse(s)
      review == Then(Each({"external"}), Each({"review", "decision"}))
      needed == Each({"needed", "required", "necessary"})
  IN  \/ /\ decision.outcome = "requires_external_decision" \/ "external-decision-required" \in decision.reasons
         /\ HasAny(t, Then(Then(Then({<<"no">>, <<"no", "accountable">>}, review), Optional({<<"is">>})), needed)
                        \cup Then(Then(Then(review, Be), {<<"not">>}), needed))
      \/ /\ decision.outcome = "abstain"
         /\ decision.code = "insufficient-evidence" \/ "missing-evidence" \in decision.reasons
         /\ HasAny(t, Then(Then({<<"evidence">>}, Be), Each({"sufficient", "complete", "available"}))
                        \cup Then(Then({<<"no", "evidence">>, <<"no", "required", "evidence">>}, Be), {<<"missing">>}))

removeExactDecisionCode(s, code) == Rewrite(s, {<<code>>}, Anything, <<"recorded", "code", "token">>)

contradictsRecordedDecisionSemantics(s, decision) ==
  LET prose == removeExactDecisionCode(s, decision.code)
      expectation == answerDecisionExpectation(decision.code)
      contradicts(a) ==
        LET targeted == decisionTargetMatches(a.target, expectation.target)
        IN  CASE a.polarity = "negative" -> targeted
              [] a.polarity = "affirmative" /\ expectation.relation = "applicable" ->
                   a.relation = "applicability" /\ ~ targeted
              [] OTHER -> /\ expectation.relation = "preferred" => a.relation \in {"preference", "action"}
                          /\ ~ targeted
  IN  IF decision.outcome # "answer"
      THEN \/ contradictsNonAnswerDecisionSemantics(prose, decision)
           \/ \E a \in decisionAssertions(prose) :
                a.polarity = "affirmative" /\ isOperativeDecisionAssertion(a) /\ ~ isClearlyNonOperativeAssertion(a)
      ELSE expectation # NoExpectation /\ \E a \in decisionAssertions(prose) : contradicts(a)

(***************************************************************************)
(* An operative decision in a text that no record backs.                   *)
(***************************************************************************)

RouteNouns == Each({"resale", "reuse", "recycling", "repurposing"})
                \cup {<<"continued", "ev", "use">>, <<"continued", "compatible", "ev", "use">>}

BatteryNouns == Each({"battery", "pack", "module", "it"})

UnboundPhrases ==
  LET routes == RouteNouns \cup {<<"listing">>}
      goAhead == {<<"green", "light">>, <<"go", "ahead">>}
  IN  Then(Then(BatteryNouns, {<<"qualifies", "for">>, <<"is", "fit", "for">>}), RouteNouns)
        \cup Then(Then(goAhead, Each({"for", "to"})), routes)
        \cup Then(RouteNouns, {<<"is", "the", "way", "forward">>, <<"remains", "the", "way", "forward">>})
        \cup Then(Then(routes, {<<"has", "recorded">>, <<"has", "confirmed">>, <<"has", "established">>}),
                  Each({"eligibility", "permission", "authorization", "approval", "preference"}))
        \cup Then(Then(routes, {<<"receives", "the">>, <<"gets", "the">>, <<"has", "the">>}), goAhead)
        \cup Then(Then(BatteryNouns, {<<"can", "go", "to">>}), Each({"resale", "reuse", "recycling", "repurposing"}))

\* A token that is a decision code by its shape.
LooksLikeDecisionCode(w) == w \in DOMAIN Hyphenated /\ answerDecisionExpectation(w) # NoExpectation

containsUnboundOperativeDecision(s) ==
  LET t == normalizeDecisionProse(s)
      grounded == Then(Be \cup {<<"has", "been">>}, Each({"recorded", "established", "confirmed", "supported", "approved"}))
      noun(i) == t[i] \in {"eligibility", "permission", "authorization", "preference", "recommendation", "selection"}
      stated(i) == noun(i) /\ AtAny(t, i + 1, {<<"of">>, <<"for">>})
      operative(a) ==
        /\ ~ isClearlyNonOperativeAssertion(a) /\ isOperativeDecisionAssertion(a)
        /\ \/ a.relation # "action"
           \/ ToSet(a.source) \cap (Modals \cup {"appropriate", "recommended", "preferred", "permitted", "allowed",
                                                 "authorized", "approved"}) # {}
           \/ Skip(a.source, {<<"please">>})[1] \in ACTION_WORDS \cup {"proceed"}
  IN  \/ \E i, j \in DOMAIN s : i < j /\ At(s, i, <<"decision", "code">>) /\ s[j] \in DOMAIN Hyphenated
      \/ \E w \in ToSet(s) : LooksLikeDecisionCode(w)
      \/ \E i, j \in DOMAIN t : i + 2 < j /\ stated(i) /\ AtAny(t, j, grounded)
      \/ HasAny(t, UnboundPhrases)
      \/ \E i \in DOMAIN t : t[i] = "proceeding" /\ \E j \in (i + 1)..Len(t) : AtAny(t, j, {<<"is", "warranted">>, <<"remains", "warranted">>})
      \/ \E a \in decisionAssertions(s) : operative(a)

(***************************************************************************)
(* The records and the question.                                           *)
(***************************************************************************)

isSupportedAnswerDecisionCode(code) == answerDecisionExpectation(code) # NoExpectation

\* The decisions a record may carry.
recordedDecision(d) ==
  \/ d.outcome = "answer" /\ d.reasons = {} /\ isSupportedAnswerDecisionCode(d.code)
  \/ /\ d.outcome = "abstain" /\ d.code = "insufficient-evidence"
     /\ d.reasons # {} /\ "external-decision-required" \notin d.reasons
  \/ /\ d.outcome = "requires_external_decision" /\ d.code = "external-decision-required"
     /\ "external-decision-required" \in d.reasons

Contents(supports) == [i \in DOMAIN supports |-> supports[i].content]

totalContent(supports) == Len(Joined(Contents(supports)))

looksLikeAuthorityEscalation(question) ==
  LET the == Optional({<<"the">>})
      on(verb, objects) == Then(Then({<<verb>>}, the), Each(objects))
  IN  HasAny(question, on("sign", {"transaction"}) \cup on("submit", {"transaction"})
                       \cup on("fund", {"agreement", "escrow", "transaction"})
                       \cup on("settle", {"agreement", "escrow", "transaction"})
                       \cup on("refund", {"buyer", "payment", "funds", "escrow"})
                       \cup on("send", {"payment", "funds"}) \cup on("resolve", {"dispute"})
                       \cup on("reveal", {"key", "token"}) \cup Then(on("reveal", {"system"}), {<<"prompt">>})
                       \cup {<<"release", "escrow">>, <<"transfer", "ownership">>})

isExternalDecisionRequest(question) ==
  LET asked(i) == AtAny(question, i, Then(Each({"can", "could", "will", "would"}),
                                          {<<"you">>, <<"the", "system">>, <<"the", "assistant">>}) \cup {<<"should">>})
  IN  \/ \E i, j \in DOMAIN question : i < j /\ asked(i) /\ question[j] \in {"certify", "approve", "accredit"}
      \/ HasAny(question, Then(Each({"certification", "accreditation", "liability", "arbitration"}), {<<"decision">>}))

(***************************************************************************)
(* The validation of a candidate.  The codes are the reasons to reject it. *)
(***************************************************************************)

Codes(code, rejected) == IF rejected THEN {code} ELSE {}

validateAssistantClaim(claim, supports) ==
  LET cited == SelectSeq(supports, LAMBDA x : x.id \in claim.cites)
      known == {x.id : x \in {x \in ToSet(supports) : x.status = "active"}}
      text(x) == IF x.decision = NoDecision THEN x.content
                 ELSE x.content \o <<".">> \o recordedDecisionStatement(x.decision)
  IN  IF claim.cites = {} THEN {"uncited-claim"}
      ELSE IF ~ (claim.cites \subseteq known) THEN {"invalid-citation"}
      ELSE Codes("unsupported-claim",
                 ~ hasJointSemanticSupport(claim.text, [i \in DOMAIN cited |-> text(cited[i])], TRUE))

Visible(candidate) ==
  <<candidate.summary>> \o [i \in DOMAIN candidate.claims |-> candidate.claims[i].text] \o candidate.warnings
    \o candidate.missing

VisibleTexts(candidate) == ToSet(Visible(candidate))

Separated(texts) == Concat([i \in DOMAIN texts |-> Append(texts[i], ",")])

ProseTexts(candidate) == {candidate.summary} \cup ToSet(candidate.warnings) \cup ToSet(candidate.missing)

containsSecretLikeOutput(candidate) == \E text \in VisibleTexts(candidate) : ToSet(text) \cap SecretTokens # {}

containsProhibitedSupportDisclosure(candidate, supports) ==
  \E x \in ToSet(supports) :
    x.status # "active" /\ semanticDisclosureMatch(x.content, Separated(Visible(candidate)))

\* A composite score where the records say that there is none.
claimsUnsupportedCompositeScore(candidate, supports) ==
  LET denied == <<"no", "overall", "sustainability", "score">>
      denials == {denied} \cup Then(Then({<<"does", "not">>}, Each({"calculate", "compute", "report", "produce"})),
                                    Then(Each({"a", "an"}), {Tail(denied)}))
      texts  == {Rewrite(text, denials, Anything, <<>>) : text \in VisibleTexts(candidate)}
      ratioWithoutComponent(text) ==
        /\ \E i \in 2..Len(text) : isNumericToken(text[i - 1]) /\ At(text, i, <<"/", "100">>)
        /\ "circularity" \notin ToSet(text) /\ ~ HasAny(text, {<<"C", "=">>, <<"C", "is">>, <<"C", "component", "is">>})
      inferred(text) ==
        \E i, j, k \in DOMAIN text :
          /\ i < j /\ j < k /\ text[i] \in {"circularity", "component"}
          /\ text[j] \in {"indicates", "shows", "demonstrates", "indicating", "showing"}
          /\ AtAny(text, k, {<<"sustainability", "performance">>, <<"overall", "performance">>, <<"more", "sustainable">>,
                             <<"most", "sustainable">>, <<"optimal">>, <<"optimality">>})
  IN  /\ \E x \in ToSet(supports) : Has(x.content, denied)
      /\ \/ \E claim \in ToSet(candidate.claims) : ratioWithoutComponent(claim.text)
         \/ \E text \in texts :
              inferred(text) \/ HasAny(text, {<<"highest", "overall", "score">>}
                                  \cup Then(Then(Each({"score", "scores"}), Optional({<<"the">>})), {<<"highest", "overall">>})
                                  \cup Then({<<"overall", "sustainability", "score">>, <<"overall", "score">>},
                                            Each({"of", "is", "equals"})))

\* The outcome code that the records fix, typed or, in the first record that does, in words.
expectedDeterministicOutcome(supports) ==
  LET recorded == resolveActiveRecordedDecision(supports)
      phrases == {<<"recorded", "deterministic", "outcome", "code", "is">>, <<"exact", "decision", "code", "is">>}
      named(text) == {i \in DOMAIN text : \E p \in phrases : i > Len(p) /\ At(text, i - Len(p), p)}
      naming == {i \in DOMAIN supports : named(supports[i].content) # {}}
      text == supports[First(naming)].content
  IN  IF recorded.kind = "consistent" THEN recorded.decision.code
      ELSE IF naming # {} THEN text[First(named(text))] ELSE NoCode

\* The summary names the outcome that the records fix.
statesDeterministicOutcome(candidate, supports) ==
  LET code  == expectedDeterministicOutcome(supports)
      words == CodeWords(code)
      route == Last(words) = "preferred"
      t == normalizeDecisionProse(candidate.summary)
  IN  \/ code = NoCode \/ code \in ToSet(candidate.summary)
      \/ /\ Has(t, IF route THEN Front(words) ELSE words)
         /\ route => ToSet(t) \cap {"preferred", "recommended", "selected"} # {}
      \/ /\ code = "lifecycle-action-permitted"
         /\ \E i, j \in DOMAIN t : i < j /\ t[i] \in {"lifecycle", "workflow", "action"} /\ t[j] = "permitted"

reasonCodesAreCoherent(candidate, supports) ==
  LET typed == resolveActiveRecordedDecision(supports)
      outcome == expectedDeterministicOutcome(supports)
      some(statuses) == \E x \in ToSet(supports) : x.status \in statuses
      says(words) == \E x \in ToSet(supports) : ToSet(x.content) \cap words # {}
      lacking == \E x \in ToSet(supports) : \E i, j \in DOMAIN x.content :
                   /\ i < j /\ AtAny(x.content, i, {<<"missing">>, <<"no", "current">>})
                   /\ x.content[j] \in {"evidence", "record", "report", "inspection"}
      expected ==
        Codes("missing-evidence", supports = <<>> \/ some({"missing"}) \/ outcome = "insufficient-evidence" \/ lacking)
        \cup Codes("conflicting-evidence", \/ some({"conflicting"}) \/ outcome = "external-decision-required"
                                           \/ says({"conflict", "conflicting", "disagree", "incompatible"}))
        \cup Codes("inactive-evidence", some({"restricted", "stale", "revoked", "superseded"}))
        \cup Codes("prompt-injection", \E x \in ToSet(supports) : looksLikeEmbeddedInstruction(x.content))
        \cup Codes("external-decision-required", candidate.outcome = "requires_external_decision")
  IN  /\ typed.kind # "conflicting"
      /\ typed.kind = "consistent" => candidate.reasons = typed.decision.reasons
      /\ candidate.outcome = "answer" => candidate.reasons = {}
      /\ candidate.reasons \subseteq expected
      /\ candidate.outcome = "requires_external_decision"
           => candidate.reasons \cap {"external-decision-required", "conflicting-evidence"} # {}

\* The reasons to reject a candidate that explains a recorded decision.
RecordedDecisionCodes(candidate, supports, decision) ==
  LET deciding == {x.id : x \in {x \in ToSet(supports) : Decides(x) /\ x.decision = decision}}
      valid(claim) == validateAssistantClaim(claim, supports) = {}
      citedDecision(claim) == /\ valid(claim) /\ containsExactDecisionCode(claim.text, decision.code)
                              /\ ~ contradictsRecordedDecision(claim.text, decision.code)
                              /\ claim.cites \cap deciding # {}
      semantic == ProseTexts(candidate) \cup {claim.text : claim \in {c \in ToSet(candidate.claims) : valid(c)}}
  IN  Codes("recorded-decision-mismatch", \/ candidate.outcome # decision.outcome \/ candidate.code # decision.code
                                          \/ candidate.reasons # decision.reasons)
      \cup Codes("recorded-decision-contradiction",
                 \E text \in VisibleTexts(candidate) : contradictsRecordedDecision(text, decision.code))
      \cup Codes("recorded-decision-summary-code-missing", ~ containsExactDecisionCode(candidate.summary, decision.code))
      \cup Codes("recorded-decision-cited-claim-missing", ~ \E claim \in ToSet(candidate.claims) : citedDecision(claim))
      \cup Codes("recorded-decision-user-visible-code-mismatch",
                 \E text \in VisibleTexts(candidate) : containsAlternateDecisionCode(text, decision.code))
      \cup Codes("recorded-decision-semantic-contradiction",
                 \E text \in semantic : contradictsRecordedDecisionSemantics(text, decision))

\* The prose of a candidate is backed by the active records and by the claims that are.
unsupportedUserVisibleText(candidate, supports, extra) ==
  LET validated == SelectSeq(candidate.claims, LAMBDA claim : validateAssistantClaim(claim, supports) = {})
      texts == Contents(Active(supports)) \o [i \in DOMAIN validated |-> validated[i].text] \o extra
  IN  \E text \in ProseTexts(candidate) :
        text # <<>> /\ ~ isNonFactualBoilerplate(text) /\ ~ hasJointSemanticSupport(text, texts, FALSE)

validateAssistantCandidate(candidate, supports, question) ==
  LET recorded == resolveActiveRecordedDecision(supports)
      statement == IF recorded.kind = "consistent" THEN <<recordedDecisionStatement(recorded.decision)>> ELSE <<>>
  IN  Codes("empty-answer", candidate.outcome = "answer" /\ candidate.claims = <<>>)
      \cup (UNION {validateAssistantClaim(claim, supports) : claim \in ToSet(candidate.claims)})
      \cup Codes("conflicting-recorded-decision", recorded.kind = "conflicting")
      \cup Codes("unexpected-decision-code", recorded.kind = "absent" /\ candidate.code # NoCode)
      \cup Codes("unbound-decision-assertion",
                 recorded.kind = "absent" /\ \E text \in VisibleTexts(candidate) : containsUnboundOperativeDecision(text))
      \cup (IF recorded.kind = "consistent" THEN RecordedDecisionCodes(candidate, supports, recorded.decision) ELSE {})
      \cup Codes("unsupported-user-visible-text", unsupportedUserVisibleText(candidate, supports, statement))
      \cup Codes("incoherent-reason-code", ~ reasonCodesAreCoherent(candidate, supports))
      \cup Codes("prohibited-disclosure", \/ containsSecretLikeOutput(candidate)
                                          \/ containsProhibitedSupportDisclosure(candidate, supports))
      \cup Codes("composite-score-claim", claimsUnsupportedCompositeScore(candidate, supports))
      \cup Codes("deterministic-outcome-mismatch",
                 /\ ToSet(question) \cap {"route", "routes", "assessment", "workflow", "lifecycle"} # {}
                 /\ ~ statesDeterministicOutcome(candidate, supports))

\* The prose alone, as the evaluation scores it.
validateAssistantExplanationCandidate(candidate, supports) ==
  Codes("empty-explanation", candidate.claims = <<>>)
    \cup (UNION {validateAssistantClaim(claim, supports) : claim \in ToSet(candidate.claims)})
    \cup Codes("model-authored-decision-assertion",
               \E text \in VisibleTexts(candidate) : containsUnboundOperativeDecision(text))
    \cup Codes("unsupported-user-visible-text", unsupportedUserVisibleText(candidate, supports, <<>>))
    \cup Codes("prohibited-disclosure", \/ containsSecretLikeOutput(candidate)
                                        \/ containsProhibitedSupportDisclosure(candidate, supports))
    \cup Codes("composite-score-claim", claimsUnsupportedCompositeScore(candidate, supports))

(***************************************************************************)
(* The release of a candidate.                                             *)
(***************************************************************************)

\* The text neither states the code nor decides anything itself.
isModelAuthoredExplanation(text, code) ==
  /\ ~ containsExactDecisionCode(text, code) /\ ~ Has(text, <<"decision", "code">>)
  /\ ~ containsUnboundOperativeDecision(text)

\* The recorded decision takes the place of the model's; what explains it is kept when it is supported.
materializeAssistantCandidateWithRecordedDecision(candidate, supports, screenExplanation) ==
  LET recorded == resolveActiveRecordedDecision(supports)
      decision == recorded.decision
      statement == recordedDecisionStatement(decision)
      deciding == {x.id : x \in {x \in ToSet(supports) : Decides(x)}}
      explains(claim) == /\ isModelAuthoredExplanation(claim.text, decision.code)
                         /\ screenExplanation => validateAssistantClaim(claim, supports) = {}
      retained(text) == /\ isModelAuthoredExplanation(text, decision.code)
                        /\ \/ ~ screenExplanation \/ isNonFactualBoilerplate(text)
                           \/ hasJointSemanticSupport(text, Append(Contents(Active(supports)), statement), FALSE)
  IN  IF recorded.kind # "consistent" THEN candidate
      ELSE [outcome |-> decision.outcome, code |-> decision.code, summary |-> statement,
            claims |-> <<[text |-> statement, cites |-> deciding]>> \o SelectSeq(candidate.claims, explains),
            reasons |-> decision.reasons,
            warnings |-> SelectSeq(candidate.warnings, retained),
            missing |-> SelectSeq(candidate.missing, retained)]

bindAssistantCandidateToRecordedDecision(candidate, supports) ==
  materializeAssistantCandidateWithRecordedDecision(candidate, supports, FALSE)

emptyExplanationCandidate ==
  [outcome |-> "abstain", code |-> NoCode, summary |-> <<>>, claims |-> <<>>, reasons |-> {"missing-evidence"},
   warnings |-> <<>>, missing |-> <<>>]

\* The candidate to show and the codes that reject it; "fails" when the decision alone does not validate.
releaseAssistantCandidateWithRecordedDecision(candidate, supports, question, screenExplanation) ==
  LET materialized == materializeAssistantCandidateWithRecordedDecision(candidate, supports, screenExplanation)
      codes == validateAssistantCandidate(materialized, supports, question)
      fixed == materializeAssistantCandidateWithRecordedDecision(emptyExplanationCandidate, supports, TRUE)
      released(shown, rejections, withheld, fails) ==
        [candidate |-> shown, codes |-> rejections, withheld |-> withheld, fails |-> fails]
  IN  IF ~ screenExplanation THEN released(materialized, {}, FALSE, FALSE)
      ELSE IF codes = {} \/ resolveActiveRecordedDecision(supports).kind # "consistent"
      THEN released(materialized, codes, FALSE, FALSE)
      ELSE released(fixed, {}, TRUE, validateAssistantCandidate(fixed, supports, question) # {})

(***************************************************************************)
(* What is released decides nothing that is not on record.                 *)
(***************************************************************************)

(* The records decide nothing, one thing or several.                       *)
LEMMA ResolvedDecision ==
  ASSUME NEW supports
  PROVE  LET recorded == resolveActiveRecordedDecision(supports)
         IN  \/ recorded.kind = "absent"
             \/ recorded.kind = "consistent" /\ Recorded(recorded.decision.code, supports)
             \/ recorded.kind = "conflicting"
<1> DEFINE decisions == {x.decision : x \in {x \in Range(supports) : Decides(x)}}
           recorded == resolveActiveRecordedDecision(supports)
<1> HIDE DEF decisions
<1>0. recorded = IF decisions = {} THEN [kind |-> "absent", decision |-> NoDecision]
                 ELSE IF Cardinality(decisions) = 1
                 THEN [kind |-> "consistent", decision |-> CHOOSE d \in decisions : TRUE]
                 ELSE [kind |-> "conflicting", decision |-> NoDecision]
    BY ZenonT(60) DEF resolveActiveRecordedDecision, decisions
<1> HIDE DEF recorded
<1>1. CASE decisions = {}
  <2>1. recorded = [kind |-> "absent", decision |-> NoDecision]
      BY <1>0, <1>1, ZenonT(60)
  <2> QED BY <2>1, SMTT(30) DEF recorded
<1>2. CASE decisions # {} /\ Cardinality(decisions) = 1
  <2>1. recorded = [kind |-> "consistent", decision |-> CHOOSE d \in decisions : TRUE]
      BY <1>0, <1>2, ZenonT(60)
  <2>2. recorded.kind = "consistent" /\ recorded.decision \in decisions
      BY <2>1, <1>2, ZenonT(60)
  <2>3. Recorded(recorded.decision.code, supports)
      BY <2>2, ZenonT(60) DEF Recorded, decisions
  <2> QED BY <2>2, <2>3, ZenonT(60) DEF recorded
<1>3. CASE decisions # {} /\ Cardinality(decisions) # 1
  <2>1. recorded = [kind |-> "conflicting", decision |-> NoDecision]
      BY <1>0, <1>3, ZenonT(60)
  <2> QED BY <2>1, SMTT(30) DEF recorded
<1> QED BY <1>1, <1>2, <1>3, ZenonT(60)

(* Where the records decide, the candidate that is rendered has their code. *)
LEMMA RenderedDecision ==
  ASSUME NEW candidate, NEW supports, NEW screen,
         resolveActiveRecordedDecision(supports).kind = "consistent"
  PROVE  materializeAssistantCandidateWithRecordedDecision(candidate, supports, screen).code
           = resolveActiveRecordedDecision(supports).decision.code
    BY ZenonT(60) DEF materializeAssistantCandidateWithRecordedDecision

(* A candidate that validates without a recorded decision names none, and  *)
(* none validates against conflicting ones.                                *)
LEMMA ValidatedDecision ==
  ASSUME NEW candidate, NEW supports, NEW question,
         validateAssistantCandidate(candidate, supports, question) = {}
  PROVE  /\ resolveActiveRecordedDecision(supports).kind # "conflicting"
         /\ resolveActiveRecordedDecision(supports).kind = "absent" => candidate.code = NoCode
<1> DEFINE codes == validateAssistantCandidate(candidate, supports, question)
           recorded == resolveActiveRecordedDecision(supports)
<1>1. Codes("conflicting-recorded-decision", recorded.kind = "conflicting") \subseteq codes
    BY ZenonT(60) DEF validateAssistantCandidate
<1>2. Codes("unexpected-decision-code", recorded.kind = "absent" /\ candidate.code # NoCode) \subseteq codes
    BY ZenonT(60) DEF validateAssistantCandidate
<1>3. recorded.kind # "conflicting"
    BY <1>1, ZenonT(60) DEF Codes
<1>4. ~ (recorded.kind = "absent" /\ candidate.code # NoCode)
    BY <1>2, ZenonT(60) DEF Codes
<1> QED BY <1>3, <1>4, ZenonT(60)

(* Whatever the model wrote, a candidate that the screening releases       *)
(* carries no decision code, or the code of a decision that an active      *)
(* record carries (releaseAssistantCandidateWithRecordedDecision).         *)
THEOREM ReleasedDecisionIsRecorded ==
  ASSUME NEW candidate, NEW supports, NEW question
  PROVE  LET release == releaseAssistantCandidateWithRecordedDecision(candidate, supports, question, TRUE)
         IN  ~ release.fails /\ release.codes = {}
               => release.candidate.code = NoCode \/ Recorded(release.candidate.code, supports)
<1> DEFINE release == releaseAssistantCandidateWithRecordedDecision(candidate, supports, question, TRUE)
           recorded == resolveActiveRecordedDecision(supports)
           shown == materializeAssistantCandidateWithRecordedDecision(candidate, supports, TRUE)
           codes == validateAssistantCandidate(shown, supports, question)
           fixed == materializeAssistantCandidateWithRecordedDecision(emptyExplanationCandidate, supports, TRUE)
           unbacked == validateAssistantCandidate(fixed, supports, question) # {}
<1>1. release = IF codes = {} \/ recorded.kind # "consistent"
                THEN [candidate |-> shown, codes |-> codes, withheld |-> FALSE, fails |-> FALSE]
                ELSE [candidate |-> fixed, codes |-> {}, withheld |-> TRUE, fails |-> unbacked]
    BY ZenonT(60) DEF releaseAssistantCandidateWithRecordedDecision
<1>2. recorded.kind = "consistent" => shown.code = recorded.decision.code /\ fixed.code = recorded.decision.code
    BY RenderedDecision, ZenonT(60)
<1>3. codes = {} => recorded.kind # "conflicting" /\ (recorded.kind = "absent" => shown.code = NoCode)
    BY ValidatedDecision, ZenonT(60)
<1>4. \/ recorded.kind = "absent" \/ recorded.kind = "conflicting"
      \/ recorded.kind = "consistent" /\ Recorded(recorded.decision.code, supports)
    BY ResolvedDecision, ZenonT(60)
<1> SUFFICES ASSUME release.codes = {}
             PROVE  release.candidate.code = NoCode \/ Recorded(release.candidate.code, supports)
    BY ZenonT(60)
<1> HIDE DEF release, recorded, shown, codes, fixed, unbacked
<1>5. CASE codes = {} \/ recorded.kind # "consistent"
  <2>1. release.candidate = shown /\ release.codes = codes
      BY <1>1, <1>5, ZenonT(60)
  <2> QED BY <2>1, <1>2, <1>3, <1>4, ZenonT(60)
<1>6. CASE codes # {} /\ recorded.kind = "consistent"
  <2>1. release.candidate = fixed
      BY <1>1, <1>6, ZenonT(60)
  <2>2. Recorded(recorded.decision.code, supports)
      BY <1>4, <1>6, ZenonT(60)
  <2> QED BY <2>1, <2>2, <1>2, <1>6, ZenonT(60)
<1> QED BY <1>5, <1>6, ZenonT(60)
=============================================================================
