-------------------------- MODULE SemanticSupport --------------------------
(***************************************************************************)
(* Whether cited records jointly support a statement: the screening of     *)
(* assistant/semantic-support.ts.                                          *)
(*                                                                         *)
(* A text is the sequence of its tokens, punctuation included, in lower    *)
(* case and with contractions expanded; the letters G, C, I, E, A and U of *)
(* a route assessment stay in upper case.  A numeral is written in its     *)
(* normal form (normalizeNumberLiteral) and without a sign.  Every regular *)
(* expression of the code is a condition on tokens here.                   *)
(***************************************************************************)
EXTENDS Naturals, FiniteSets, Sequences, SequencesExt

CONSTANTS Numerals,    \* the tokens that are numbers
          Identifiers, \* the tokens with letters and digits
          ShortWords,  \* the words of fewer than four letters
          Hyphenated   \* a hyphenated token, as the sequence of its parts

Punctuation == {".", ",", ";", ":", "=", "/", "%", "(", ")"}

SingleCharacters ==
  {"a", "b", "c", "d", "e", "f", "g", "h", "i", "j", "k", "l", "m", "n", "o", "p", "q", "r", "s", "t", "u", "v",
   "w", "x", "y", "z", "0", "1", "2", "3", "4", "5", "6", "7", "8", "9"}

NEGATORS == {"no", "not", "never", "neither", "without", "cannot", "cant"}

SHORT_SEMANTIC_TOKENS == {"no", "not", "never", "pass", "fail", "fit", "unfit", "safe", "unsafe"}

NON_MATERIAL_TOKENS == {"component", "value"}

ACCOUNTABLE_AUTHORITY_TOKENS == {"accredit", "approve", "certify", "comply", "legal"}

DISCLOSURE_FIELD_TOKENS ==
  {"capacity", "circularity", "climate", "conflict", "coverage", "depletion", "eligibility",
   "fraction", "frequency", "gwp", "health", "lifecycle", "mileage", "mineral", "npv",
   "ownership", "payback", "rank", "sequence", "status", "temperature", "verifier", "voltage"}

DISCLOSURE_VALUE_TOKENS ==
  {"accept", "active", "approve", "available", "deny", "eligible", "fail", "forbid", "inactive",
   "ineligible", "locked", "missing", "pass", "permit", "preferred", "prohibited", "reject",
   "restricted", "stale", "superseded", "unavailable", "unlocked", "unverified", "verify"}

RELATIONAL_STATUS_TOKENS ==
  DISCLOSURE_VALUE_TOKENS \cup
  {"allow", "complete", "current", "incomplete", "present", "revoke", "supported", "unsupported"}

RELATION_BOUNDARIES == {"and", "but", "whereas", "while"}

RELATION_SUBJECT_STOPWORDS ==
  {"a", "an", "are", "as", "at", "be", "been", "being", "by", "for", "from", "has", "have", "had",
   "in", "is", "it", "of", "on", "or", "the", "to", "under", "was", "were", "with"}

QUANTITY_UNITS ==
  {"percent", "percentage", "kg", "g", "mg", "kwh", "wh", "km", "mile", "miles", "eur", "usd",
   "cycle", "cycles", "year", "years", "day", "days", "hour", "hours"}

INCOMPATIBLE_TERM_GROUPS ==
  {{"preferred", "reject"}, {"approve", "reject"}, {"accept", "reject"}, {"verify", "unverified"},
   {"permit", "forbid", "prohibited"},
   {"active", "inactive", "revoked", "stale", "restricted", "superseded"},
   {"pass", "fail"}, {"available", "unavailable"}, {"allowed", "denied", "prohibited"},
   {"locked", "unlocked"}, {"current", "stale"}, {"eligible", "ineligible"},
   {"present", "missing"}, {"complete", "incomplete"}, {"supported", "unsupported"}}

Aliases ==
  [accepted |-> "accept", accreditation |-> "accredit", accredited |-> "accredit",
   allowed |-> "allow", approval |-> "approve", approved |-> "approve", C |-> "circularity",
   c |-> "circularity", certification |-> "certify", certified |-> "certify", compliant |-> "comply",
   compliance |-> "comply", conflicts |-> "conflict", legally |-> "legal",
   recommended |-> "preferred", recommendation |-> "preferred", failed |-> "fail",
   failing |-> "fail", fails |-> "fail", passed |-> "pass", passes |-> "pass",
   rejected |-> "reject", rejection |-> "reject", selected |-> "preferred", resell |-> "resale",
   resold |-> "resale", sold |-> "resale", sale |-> "resale", soh |-> "health",
   forbids |-> "forbid", forbidden |-> "forbid", permitted |-> "permit", permits |-> "permit",
   verified |-> "verify", verifies |-> "verify", verification |-> "verify", verifier |-> "verify"]

canonicalSemanticToken(w) == IF w \in DOMAIN Aliases THEN Aliases[w] ELSE w

Units ==
  [zero |-> 0, one |-> 1, two |-> 2, three |-> 3, four |-> 4, five |-> 5, six |-> 6, seven |-> 7,
   eight |-> 8, nine |-> 9, ten |-> 10, eleven |-> 11, twelve |-> 12, thirteen |-> 13,
   fourteen |-> 14, fifteen |-> 15, sixteen |-> 16, seventeen |-> 17, eighteen |-> 18, nineteen |-> 19]

Tens == [twenty |-> 20, thirty |-> 30, forty |-> 40, fifty |-> 50, sixty |-> 60, seventy |-> 70,
         eighty |-> 80, ninety |-> 90]

NUMBER_WORD_TOKENS == DOMAIN Units \cup DOMAIN Tens \cup {"hundred"}

isNumericToken(w) == w \in Numerals

isIdentifierToken(w) == w \in Identifiers

(***************************************************************************)
(* Tokens, phrases and clauses.                                            *)
(***************************************************************************)

Parts(w) == IF w \in DOMAIN Hyphenated THEN Hyphenated[w] ELSE <<w>>

lexicalTokens(s) == SelectSeq(s, LAMBDA w : w \notin Punctuation)

\* One sequence of all the parts, halved to keep the evaluation shallow.
Concat(parts) ==
  LET joined[i \in DOMAIN parts, j \in DOMAIN parts] ==
        IF i = j THEN parts[i]
        ELSE joined[i, (i + j) \div 2] \o joined[(i + j) \div 2 + 1, j]
  IN  IF parts = <<>> THEN <<>> ELSE joined[1, Len(parts)]

\* The words of a text, hyphenated ones taken apart.
Words(s) == LET t == lexicalTokens(s) IN Concat([i \in DOMAIN t |-> Parts(t[i])])

\* The phrase p stands at position i of s.
At(s, i, p) == i + Len(p) - 1 <= Len(s) /\ \A k \in DOMAIN p : s[i + k - 1] = p[k]

AtAny(s, i, phrases) == \E p \in phrases : At(s, i, p)

Has(s, p) == \E i \in DOMAIN s : At(s, i, p)

HasAny(s, phrases) == \E p \in phrases : Has(s, p)

First(S) == CHOOSE i \in S : \A j \in S : i <= j

Final(S) == CHOOSE i \in S : \A j \in S : j <= i

\* The first position from i on where one of the tokens stops the text, or the end.
UpTo(s, i, stops) == First({j \in i..Len(s) : s[j] \in stops} \cup {Len(s) + 1})

\* The positions taken by the spans that start in s, one of Span(i) tokens at i, 0 for none; spans do not overlap.
Starts(s, Span(_)) == {i \in DOMAIN s : Span(i) > 0}

Inside(starts, Span(_)) == UNION {(i + 1)..(i + Span(i) - 1) : i \in starts}

\* The pieces of s between its separators, one of Cut(i) tokens at i.
SplitWhere(s, Cut(_)) ==
  LET cuts == Starts(s, Cut)
      separators == cuts \cup Inside(cuts, Cut)
      piece(i) == SubSeq(s, i, First({j \in i..Len(s) : j = Len(s) \/ j + 1 \in separators}))
  IN  {piece(i) : i \in {i \in DOMAIN s \ separators : i = 1 \/ i - 1 \in separators}}

SplitAt(s, separators) == SplitWhere(s, LAMBDA i : IF s[i] \in separators THEN 1 ELSE 0)

\* The spans of s, one of Span(i) tokens at i, are replaced by To(i).
Replace(s, Span(_), To(_)) ==
  LET starts == Starts(s, Span)
      inside == Inside(starts, Span)
  IN  IF starts = {} THEN s
      ELSE Concat([i \in DOMAIN s |-> IF i \in inside THEN <<>> ELSE IF i \in starts THEN To(i) ELSE <<s[i]>>])

\* Every occurrence of one of the phrases, when what follows it is as required, becomes r.
Rewrite(s, phrases, follows, r) ==
  LET matches(i) == {p \in phrases : At(s, i, p) /\ \E f \in follows : At(s, i + Len(p), f)}
  IN  Replace(s, LAMBDA i : Final({0} \cup {Len(p) : p \in matches(i)}), LAMBDA i : r)

Anything == {<<>>}

relationSentences(s) == SplitAt(s, {".", ";"})

ClauseVerbs ==
  {"is", "are", "was", "were", "has", "have", "had", "can", "could", "will", "would", "must", "may",
   "should", "confirms", "confirmed", "reports", "reported", "records", "recorded", "includes", "included",
   "indicates", "indicated", "shows", "showed", "establishes", "established", "proves", "proved"}

InferenceConnectors ==
  {<<".">>, <<";">>, <<"but">>, <<"however">>, <<"therefore">>, <<"thus">>, <<"hence">>, <<"consequently">>,
   <<"which", "means">>, <<"meaning", "that">>, <<"thereby">>, <<"indicates">>, <<"indicating">>, <<"shows">>,
   <<"showing">>, <<"proves">>, <<"proving">>, <<"demonstrates">>, <<"establishes">>, <<",", "so">>}

\* Every assertion of a statement, an appended conclusion included, stands on its own.
factualClauses(s) ==
  LET coordinates(i) == s[i] = "and" /\ \E k \in 1..3 : /\ i + k <= Len(s) /\ s[i + k] \in ClauseVerbs
                                                       /\ k = 3 => s[i + 1] = "the"
      cut(i) == Final({0} \cup {Len(p) : p \in {p \in InferenceConnectors : At(s, i, p)}}
                          \cup {1 : x \in {x \in {"yet"} : s[i] = x /\ ~ (i > 1 /\ s[i - 1] = "not")}}
                          \cup {1 : x \in {x \in {"and"} : coordinates(i)}})
  IN  {clause \in SplitWhere(s, cut) : lexicalTokens(clause) # <<>>}

\* The numbers spelled out in a sequence of words: "two hundred and five", "forty two".
numberWordValues(words) ==
  LET unit(i) == i \in DOMAIN words /\ words[i] \in DOMAIN Units
      ten(i)  == i \in DOMAIN words /\ words[i] \in DOMAIN Tens
      small(i) == IF ten(i) THEN IF unit(i + 1) /\ Units[words[i + 1]] < 10
                                 THEN [value |-> Tens[words[i]] + Units[words[i + 1]], next |-> i + 2]
                                 ELSE [value |-> Tens[words[i]], next |-> i + 1]
                  ELSE IF unit(i) THEN [value |-> Units[words[i]], next |-> i + 1]
                  ELSE [value |-> 0, next |-> i]
      hundreds(i) == unit(i) /\ i + 1 \in DOMAIN words /\ words[i + 1] = "hundred"
      rest(i) == small(IF i + 2 \in DOMAIN words /\ words[i + 2] = "and" THEN i + 3 ELSE i + 2)
      number(i) == IF hundreds(i) THEN [value |-> 100 * Units[words[i]] + rest(i).value, next |-> rest(i).next]
                   ELSE small(i)
      length(i) == number(i).next - i
      numbers == Starts(words, length)
      positions == SelectSeq([i \in DOMAIN words |-> i], LAMBDA i : i \in numbers \ Inside(numbers, length))
  IN  [k \in DOMAIN positions |-> ToString(number(positions[k]).value)]

numericTokens(s) == {w \in ToSet(s) : isNumericToken(w)} \cup ToSet(numberWordValues(Words(s)))

materialTokens(s) ==
  LET tokens == UNION {{w} \cup ToSet(Parts(w)) : w \in ToSet(lexicalTokens(s))}
      words  == {canonicalSemanticToken(w) : w \in tokens}
  IN  {w \in words : /\ w \notin NON_MATERIAL_TOKENS \cup NUMBER_WORD_TOKENS
                     /\ ~ isNumericToken(w)
                     /\ w \in ShortWords => w \in SHORT_SEMANTIC_TOKENS}
        \cup numericTokens(s)

\* At least num out of den of the tokens on the left are on the right.
tokenOverlap(left, right, num, den) ==
  left # {} /\ den * Cardinality(left \cap right) >= num * Cardinality(left)

\* Joined texts are read as one (join(" ")).
Joined(texts) == Concat(texts)

isNonFactualBoilerplate(s) ==
  lexicalTokens(s) \in {<<"supported">>, <<"response", "supported">>, <<"none">>, <<"not", "applicable">>,
                        <<"no", "warnings">>, <<"no", "missing", "requirements">>, <<"no", "issues">>}

InstructionObjects == {<<"instructions">>, <<"prompt">>, <<"rules">>}

SecretObjects == {<<"system", "prompt">>, <<"developer", "message">>, <<"private", "key">>, <<"secret">>,
                  <<"credentials">>}

looksLikeEmbeddedInstruction(s) ==
  \E i \in DOMAIN s :
    \/ /\ s[i] \in {"ignore", "disregard", "override"}
       /\ \E j \in (i + 1)..Len(s) : AtAny(s, j, InstructionObjects)
    \/ /\ s[i] \in {"reveal", "print", "return", "expose"}
       /\ \E j \in (i + 1)..Len(s) : AtAny(s, j, SecretObjects)
    \/ AtAny(s, i, {<<"system", "prompt">>, <<"developer", "message">>, <<"<script">>, <<"assistant", ":">>,
                    <<"system", ":">>})

(***************************************************************************)
(* The relations a clause states.                                          *)
(***************************************************************************)

relationTokens(s) ==
  LET raw(w) == IF w = "%" THEN <<"percent">> ELSE IF w \in Punctuation THEN <<>>
                ELSE IF isIdentifierToken(w) THEN <<w>> ELSE Parts(w)
      t == Concat([i \in DOMAIN s |-> raw(s[i])])
  IN  [i \in DOMAIN t |-> canonicalSemanticToken(t[i])]

NoEntity == <<>>

\* The last battery or identifier named before index.
explicitEntityBefore(t, index, lowerBound) ==
  LET batteryAt(i) == /\ t[i] = "battery" /\ i + 1 <= Len(t)
                      /\ t[i + 1] \notin {"has", "is", "module", "pack", "record", "state"}
      named == {i \in lowerBound..(index - 1) : batteryAt(i) \/ isIdentifierToken(t[i])}
  IN  IF named = {} THEN NoEntity
      ELSE IF batteryAt(Final(named)) THEN <<"battery", t[Final(named) + 1]>> ELSE <<"id", t[Final(named)]>>

\* The nearest field before the quantity, or else after it, within the same segment.
nearestField(t, start, end) ==
  LET open(i, j) == \A k \in i..j : t[k] \notin RELATION_BOUNDARIES
      before == {i \in 1..(start - 1) : i + 6 >= start /\ t[i] \in DISCLOSURE_FIELD_TOKENS /\ open(i + 1, start - 1)}
      after  == {i \in (end + 1)..Len(t) : i <= end + 4 /\ t[i] \in DISCLOSURE_FIELD_TOKENS /\ open(end + 1, i - 1)}
  IN  IF before # {} THEN {t[Final(before)]} ELSE IF after # {} THEN {t[First(after)]} ELSE {}

canonicalUnit(u) ==
  CASE u = "percentage" -> "percent" [] u = "mile" -> "miles" [] u = "cycle" -> "cycles"
    [] u = "year" -> "years" [] u = "day" -> "days" [] u = "hour" -> "hours" [] OTHER -> u

\* The quantities that start at index i: a numeral, or a run of number words that spells one number.
quantityAt(t, i) ==
  LET unitAt(k) == IF k \in DOMAIN t /\ t[k] \in QUANTITY_UNITS THEN {canonicalUnit(t[k])} ELSE {}
      run == First({j \in i..Len(t) : j = Len(t) \/ t[j + 1] \notin NUMBER_WORD_TOKENS \cup {"and"}})
      spelled == numberWordValues(SubSeq(t, i, run))
      quantity(value, last, unit) ==
        {[value |-> value, end |-> last + Cardinality(unitAt(last + 1)), unit |-> unit]}
  IN  IF isNumericToken(t[i]) THEN quantity(t[i], i, IF unitAt(i + 1) # {} THEN unitAt(i + 1) ELSE unitAt(i - 1))
      ELSE IF t[i] \in NUMBER_WORD_TOKENS /\ Len(spelled) = 1 THEN quantity(spelled[1], run, unitAt(run + 1))
      ELSE {}

quantitativeRelations(s) ==
  UNION {LET t == relationTokens(sentence)
             inside(i) == \E j \in 1..(i - 1) : \E q \in quantityAt(t, j) : i <= q.end
             read(i, q) == {[entity |-> explicitEntityBefore(t, i, 1), field |-> f, value |-> q.value, unit |-> q.unit] :
                              f \in nearestField(t, i, q.end)}
         IN  UNION {UNION {read(i, q) : q \in quantityAt(t, i)} : i \in {i \in DOMAIN t : ~ inside(i)}} :
         sentence \in relationSentences(s)}

\* Two readings agree unless both are explicit and differ.
Compatible(left, right, none) == left = none \/ right = none \/ left = right

\* A value of another unit will do.
Mutant_anyUnit(claim, support) ==
  /\ claim.field = support.field /\ claim.value = support.value
  /\ Compatible(claim.entity, support.entity, NoEntity)

quantitativeRelationMatches(claim, support) ==
  /\ claim.field = support.field /\ claim.value = support.value
  /\ Compatible(claim.unit, support.unit, {})
  /\ Compatible(claim.entity, support.entity, NoEntity)

\* A status word with the words of its segment that it is said of.
statusRelations(s) ==
  UNION {LET t == relationTokens(sentence)
             from(i) == Final({0} \cup {j \in 1..(i - 1) : t[j] \in RELATION_BOUNDARIES}) + 1
             subject(i) == {t[j] : j \in from(i)..(i - 1)} \
                             (RELATION_SUBJECT_STOPWORDS \cup NEGATORS \cup RELATIONAL_STATUS_TOKENS \cup {"route"})
         IN  {[entity |-> explicitEntityBefore(t, i, from(i)), subject |-> subject(i), status |-> t[i]] :
               i \in {i \in DOMAIN t : t[i] \in RELATIONAL_STATUS_TOKENS}} :
         sentence \in relationSentences(s)}

statusRelationMatches(claim, support) ==
  /\ claim.status = support.status
  /\ Compatible(claim.entity, support.entity, NoEntity)
  /\ \/ claim.subject = {} \/ support.subject = {}
     \/ tokenOverlap(claim.subject, support.subject, 1, 2)
     \/ tokenOverlap(support.subject, claim.subject, 1, 2)

factualRelationsArePreserved(s, supportTexts) ==
  LET quantities == UNION {quantitativeRelations(text) : text \in ToSet(supportTexts)}
      statuses   == UNION {statusRelations(text) : text \in ToSet(supportTexts)}
  IN  /\ \A claim \in quantitativeRelations(s) : \E r \in quantities : quantitativeRelationMatches(claim, r)
      /\ \A claim \in statusRelations(s) : \E r \in statuses : statusRelationMatches(claim, r)

numbersArePreserved(s, support) == numericTokens(s) \subseteq numericTokens(support)

\* A concept is negated when a negator is among the three words before its last mention.
polarityByConcept(s) ==
  LET words == Words(s)
      at(i) == canonicalSemanticToken(words[i])
      material == materialTokens(words)
      concepts == {i \in DOMAIN words : words[i] \notin NEGATORS /\ at(i) \in material}
      last(c) == Final({i \in concepts : at(i) = c})
  IN  [c \in {at(i) : i \in concepts} |->
         \E j \in 1..(last(c) - 1) : j + 3 >= last(c) /\ words[j] \in NEGATORS]

polarityIsPreserved(s, supportTexts) ==
  LET stated == polarityByConcept(s)
      supplied == {polarityByConcept(text) : text \in ToSet(supportTexts)}
      given(c) == {polarity[c] : polarity \in {polarity \in supplied : c \in DOMAIN polarity}}
  IN  \A c \in DOMAIN stated : given(c) = {} \/ stated[c] \in given(c)

incompatibleTermsArePreserved(s, supportTexts) ==
  LET stated   == materialTokens(s)
      supplied == materialTokens(Joined(supportTexts))
  IN  \A group \in INCOMPATIBLE_TERM_GROUPS :
        group \cap stated = {} \/ group \cap supplied = {} \/ group \cap stated \cap supplied # {}

accountableAuthorityTermsArePreserved(s, supportTexts) ==
  ACCOUNTABLE_AUTHORITY_TOKENS \cap materialTokens(s) \subseteq materialTokens(Joined(supportTexts))

\* C = 70 / 100, circularity is 70 / 100: the two numbers.
circularityRatios(s) ==
  {<<s[i], s[i + 2]>> : i \in {i \in 2..(Len(s) - 2) :
     /\ isNumericToken(s[i]) /\ s[i + 1] = "/" /\ isNumericToken(s[i + 2])
     /\ \/ s[i - 1] \in {"C", "circularity"}
        \/ i > 2 /\ s[i - 1] \in {"=", "is", "has"} /\ s[i - 2] \in {"C", "circularity"}}}

circularityRatiosArePreserved(s, supportTexts) ==
  circularityRatios(s) \subseteq UNION {circularityRatios(text) : text \in ToSet(supportTexts)}

rankStabilityValues(s) ==
  LET says(phrases) == HasAny(s, phrases)
      assigned(v) == {<<"rank", "stable", "=", v>>}
      bare == \E i \in DOMAIN s : /\ AtAny(s, i, {<<"rank", "stable">>}) /\ ~ At(s, i + 2, <<"=">>)
  IN  {TRUE : x \in {x \in {1} : \/ says(assigned("true")) \/ bare
                                 \/ says({<<"rank", "is", "stable">>, <<"stable", "rank">>,
                                          <<"rank", "stability", "is", "stable">>})}}
        \cup
      {FALSE : x \in {x \in {1} : \/ says(assigned("false"))
                                 \/ says({<<"rank", "not", "stable">>, <<"rank", "is", "not", "stable">>,
                                          <<"unstable", "rank">>, <<"rank", "stability", "is", "unstable">>})}}

rankStabilityRelationsArePreserved(s, supportTexts) ==
  rankStabilityValues(s) \subseteq UNION {rankStabilityValues(text) : text \in ToSet(supportTexts)}

hasClauseSemanticSupport(clause, supportTexts) ==
  IF materialTokens(clause) = {} THEN isNonFactualBoilerplate(clause)
  ELSE /\ tokenOverlap(materialTokens(clause), materialTokens(Joined(supportTexts)), 1, 2)
       /\ numbersArePreserved(clause, Joined(supportTexts))
       /\ polarityIsPreserved(clause, supportTexts)
       /\ incompatibleTermsArePreserved(clause, supportTexts)
       /\ accountableAuthorityTermsArePreserved(clause, supportTexts)
       /\ circularityRatiosArePreserved(clause, supportTexts)
       /\ rankStabilityRelationsArePreserved(clause, supportTexts)
       /\ factualRelationsArePreserved(clause, supportTexts)

semanticallySupportedAfterNormalization(s, supportTexts, requireEachSupportContribution) ==
  LET tokens == materialTokens(s)
      others(i) == UNION {materialTokens(supportTexts[j]) : j \in DOMAIN supportTexts \ {i}}
  IN  /\ \A clause \in factualClauses(s) : hasClauseSemanticSupport(clause, supportTexts)
      /\ IF tokens = {} THEN isNonFactualBoilerplate(s)
         ELSE /\ tokenOverlap(tokens, materialTokens(Joined(supportTexts)), 1, 2)
              /\ requireEachSupportContribution /\ Len(supportTexts) > 1
                   => \A i \in DOMAIN supportTexts :
                        tokens \cap (materialTokens(supportTexts[i]) \ others(i)) # {}

(***************************************************************************)
(* Route assessments: the components G, C, I, E, A and U of a route.       *)
(***************************************************************************)

ROUTE_COMPONENT_LABELS ==
  [G |-> {<<"technical", "and", "safety", "gate">>, <<"technical", "and", "safety">>},
   C |-> {<<"circularity">>},
   I |-> {<<"environmental", "indicators">>, <<"environmental", "indicator">>},
   E |-> {<<"economics">>, <<"economic">>},
   A |-> {<<"information", "adequacy">>},
   U |-> {<<"uncertainty">>}]

Components == DOMAIN ROUTE_COMPONENT_LABELS

GENERIC_ROUTE_COMPONENT_SUBJECTS ==
  {<<"assessment">>, <<"assessment", "result">>, <<"component">>, <<"it">>, <<"result">>, <<"route">>,
   <<"route", "assessment">>, <<"this">>, <<"this", "assessment">>, <<"this", "component">>,
   <<"this", "result">>, <<"this", "route">>, <<"value">>}

KNOWN_ROUTE_SUBJECTS == {<<"continued", "compatible", "ev", "use">>, <<"stationary", "storage", "repurposing">>,
                         <<"recycling">>}

DefiningVerbs == {<<"stands", "for">>, <<"means">>, <<"denotes">>, <<"represents">>, <<"is", "defined", "as">>, <<"is">>}

containsRouteComponentContent(s) ==
  \/ \E x \in Components : Has(s, <<x, "=">>)
  \/ \E i \in 3..Len(s) : \/ s[i] \in {"pass", "fail"} /\ At(s, i - 2, <<"G", "is">>)
                          \/ isNumericToken(s[i]) /\ At(s, i - 2, <<"C", "is">>)
  \/ HasAny(s, {<<"technical", "and", "safety", "gate">>, <<"circularity">>, <<"environmental", "indicators">>,
                <<"environmental", "indicator">>, <<"gwp">>, <<"climate", "change">>, <<"mineral", "depletion">>,
                <<"mineral-depletion">>, <<"npv">>, <<"net", "present", "value">>, <<"usable-field", "coverage">>,
                <<"verified", "fraction">>, <<"conflict">>, <<"conflicts">>, <<"eligibility-pass", "frequency">>,
                <<"rank", "stable">>, <<"stable", "rank">>})

\* The words that name a route, without an article and without "assessment", "result" or "route" at the end.
canonicalRouteSubject(s) ==
  LET words == Words(s)
      bare  == IF words # <<>> /\ words[1] = "the" THEN Tail(words) ELSE words
  IN  IF bare # <<>> /\ Last(bare) \in {"assessment", "result", "route"} THEN Front(bare) ELSE bare

\* The routes the records assess, each with its record: "<route>: G = ..." at the start of a sentence.
routeSupportScopes(supportTexts) ==
  UNION {LET heads == {i \in DOMAIN text : At(text, i, <<":", "G", "=">>)}
             start(i) == Final({0} \cup {j \in 1..(i - 1) : text[j] \in {".", ":"}}) + 1
             opens(i) == start(i) = 1 \/ text[start(i) - 1] = "."
         IN  {[subject |-> canonicalRouteSubject(SubSeq(text, start(i), i - 1)), content |-> text] :
                i \in {i \in heads : opens(i)}} :
         text \in ToSet(supportTexts)}

suppliedRouteSubjects(supportTexts) == {scope.subject : scope \in routeSupportScopes(supportTexts)} \ {<<>>}

isPermittedRouteComponentSubject(subject, component, routeSubjects) ==
  LET plain == SelectSeq(subject, LAMBDA w : w # "component")
      named == IF plain # <<>> /\ Last(plain) \in {"gives", "has", "includes", "lists", "reports", "shows"}
               THEN Front(plain) ELSE plain
      words == canonicalRouteSubject(named)
  IN  \/ words \in {<<>>, <<component>>} \cup routeSubjects \cup GENERIC_ROUTE_COMPONENT_SUBJECTS
      \/ words \in ROUTE_COMPONENT_LABELS[component]

\* What is said of a component without its letter: the verbs, and what follows one of them.
AssertionVerbs ==
  [G |-> {"is", "has", "shows", "indicates"}, C |-> {"is", "has", "shows", "indicates"},
   I |-> {"includes", "contains", "has", "shows"}, E |-> {"is", "has", "shows", "includes"},
   A |-> {"is", "has", "shows", "includes"}, U |-> {"is", "has", "shows", "indicates", "includes"}]

AssertedAt(s, j, component) ==
  LET i == IF j \in DOMAIN s /\ s[j] \in {"a", "an"} THEN j + 1 ELSE j
  IN  CASE component = "G" -> AtAny(s, i, {<<"pass">>, <<"fail">>})
        [] component = "C" -> i \in DOMAIN s /\ isNumericToken(s[i]) /\ At(s, i + 1, <<"/", "100">>)
        [] component = "I" -> \E k \in i..(UpTo(s, i, {".", ";"}) - 1) :
                                AtAny(s, k, {<<"gwp">>, <<"climate-change">>, <<"climate", "change">>,
                                             <<"mineral-depletion">>, <<"mineral", "depletion">>,
                                             <<"environmental", "indicator">>})
        [] component = "E" -> AtAny(s, i, {<<"npv">>, <<"net", "present", "value">>})
        [] component = "A" -> At(s, i, <<"usable-field", "coverage">>)
        [] component = "U" -> AtAny(s, i, {<<"eligibility-pass", "frequency">>, <<"stable", "rank">>,
                                           <<"rank", "stability">>})

\* The words before position i back to the farthest clause start within the given number of words.
SubjectsBefore(s, i, most) ==
  LET start == {b \in 1..(i - 1) : /\ b = 1 \/ s[b - 1] \in {";", ",", "and"}
                                   /\ \A k \in b..(i - 1) : s[k] \notin Punctuation \cup Numerals \cup Identifiers
                                   /\ i - b <= most}
  IN  IF start = {} THEN {}
      ELSE {SelectSeq(SubSeq(s, First(start), i - 1), LAMBDA w : w \notin {"for", "the"})}

\* A component's meaning or value is attributed to something that it is not.
hasInvalidRouteComponentMapping(s, supportTexts) ==
  LET supplied == Joined(supportTexts)
      inOrder(phrases) ==
        FoldLeft(LAMBDA from, p : First({i + Len(p) : i \in {i \in from..Len(supplied) : At(supplied, i, p)}}
                                          \cup {Len(supplied) + 2}), 1, phrases) <= Len(supplied) + 1
      subjects == suppliedRouteSubjects(supportTexts)
      permitted(subject, x) == isPermittedRouteComponentSubject(subject, x, subjects)
      definitionEnd(i) == First({UpTo(s, i, {",", ";", "."})}
                                \cup {j \in i..Len(s) : /\ s[j] = "and" /\ j + 1 <= Len(s) /\ s[j + 1] \in Components
                                                         /\ AtAny(s, j + 2, DefiningVerbs)})
      label(i, x) == SubSeq(s, i, definitionEnd(i) - 1)
      bare(t) == IF t # <<>> /\ t[1] = "the" THEN Tail(t) ELSE t
      misdefined(x) ==
        \E i \in DOMAIN s : \E verb \in DefiningVerbs :
          LET j == i + 1 + Len(verb)
          IN  /\ s[i] = x /\ At(s, i + 1, verb) /\ j <= Len(s)
              /\ \A longer \in DefiningVerbs : At(s, i + 1, longer) => Len(longer) <= Len(verb)
              /\ s[j] \notin {"pass", "fail"} \cup Numerals
              /\ bare(label(j, x)) \notin ROUTE_COMPONENT_LABELS[x]
      misglossed(x) ==
        \E i \in DOMAIN s : /\ At(s, i, <<x, "(">>)
                            /\ bare(SubSeq(s, i + 2, UpTo(s, i + 2, {")"}) - 1)) \notin ROUTE_COMPONENT_LABELS[x]
      misvalued(x) ==
        \E i \in DOMAIN s : /\ At(s, i, <<x, "=">>)
                            /\ \E subject \in SubjectsBefore(s, IF i > 1 /\ s[i - 1] = ":" THEN i - 1 ELSE i, 7) :
                                  ~ permitted(subject, x)
      misasserted(x) ==
        \E i \in DOMAIN s : /\ s[i] \in AssertionVerbs[x] /\ AssertedAt(s, i + 1, x)
                            /\ \E subject \in SubjectsBefore(s, i, 5) : ~ permitted(subject, x)
  IN  /\ \/ inOrder(<< <<"G", "=">>, <<"C", "=">>, <<"I", "=">>, <<"E", "=">>, <<"A", "=">>, <<"U", "=">> >>)
         \/ inOrder(<< <<"technical", "and", "safety", "gate">>, <<"circularity">>, <<"environmental", "indicators">>,
                       <<"information", "adequacy">>, <<"uncertainty">> >>)
      /\ \E x \in Components : misdefined(x) \/ misglossed(x) \/ misvalued(x) \/ misasserted(x)

ComparisonPhrases ==
  {<<"same", "as">>, <<"identical", "to">>, <<"is", "equivalent", "to">>, <<"are", "equivalent", "to">>,
   <<"share">>, <<"shares">>, <<"shared">>, <<"both", "routes">>, <<"both", "route">>, <<"tied">>}

RouteComparisonPhrases ==
  {<<"match">>, <<"matches">>, <<"equal">>, <<"equals">>, <<"equivalent", "to">>, <<"mirrors">>, <<"mirrored">>,
   <<"compared", "with">>, <<"compared", "to">>, <<"relative", "to">>, <<"as", "does">>, <<"as", "do">>,
   <<"in", "common", "with">>, <<"on", "par", "with">>}

routeComparisonsUseCitedSubjects(s, supportTexts) ==
  LET supplied == suppliedRouteSubjects(supportTexts)
      compares == \/ HasAny(s, ComparisonPhrases)
                  \/ \E i \in DOMAIN s : \E p \in RouteComparisonPhrases :
                       /\ At(s, i, p)
                       /\ \E the \in {<<>>, <<"the">>}, r \in KNOWN_ROUTE_SUBJECTS : At(s, i + Len(p), the \o r)
  IN  \/ supplied = {} \/ ~ containsRouteComponentContent(s)
      \/ /\ \A r \in KNOWN_ROUTE_SUBJECTS : Has(s, r) => r \in supplied
         /\ compares => Cardinality(supplied) >= 2

(***************************************************************************)
(* Domain-equivalent wordings reach the checks above in one form.          *)
(***************************************************************************)

\* A letter defined by its own label is the label alone.
normalizeScopedRouteDefinitions(s) ==
  LET defined(i) == {v \in DefiningVerbs : /\ s[i] \in Components /\ At(s, i + 1, v)
                                            /\ AtAny(s, i + 1 + Len(v), ROUTE_COMPONENT_LABELS[s[i]])}
  IN  Replace(s, LAMBDA i : Final({0} \cup {Len(v) + 1 : v \in defined(i)}), LAMBDA i : <<>>)

GlossaryVerbs == {<<"stands", "for">>, <<"refers", "to">>, <<"means">>, <<"is", "defined", "as">>}

Abbreviating == {"abbreviation", "acronym"}

\* An abbreviation, for a battery or not, and the verb that defines it.
normalizeScopedGlossaryRelations(s) ==
  LET scoped(i) == i > 2 /\ \/ s[i - 2] \in Abbreviating
                            \/ i > 5 /\ s[i - 5] \in Abbreviating /\ At(s, i - 3, <<"for", "battery">>)
      uses(i)   == i > 1 /\ s[i - 1] = "uses" /\ \E j \in (i + 1)..(UpTo(s, i, {".", ";"}) - 1) : At(s, j, <<"to", "mean">>)
      maps(i)   == s[i] \in {"maps", "mapping", "map"} /\ \E j \in (i + 1)..(UpTo(s, i, {".", ";"}) - 1) :
                                                           s[j] = "to" /\ j > 2 /\ s[j - 2] \in Abbreviating
      mapped(i) == s[i] = "to" /\ scoped(i) /\ \E j \in 1..(i - 1) : maps(j)
      verb(i)   == {v \in GlossaryVerbs : scoped(i) /\ At(s, i, v)}
      defines   == <<"has", "glossary-definition">>
      means(i)  == At(s, i, <<"to", "mean">>) /\ \E j \in 1..(i - 1) : uses(j)
      span(i) == IF maps(i) \/ mapped(i) THEN 1 ELSE IF verb(i) # {} THEN Final({Len(v) : v \in verb(i)})
                 ELSE IF uses(i) THEN 1 ELSE IF means(i) THEN 2 ELSE 0
      to(i)   == IF maps(i) THEN <<>> ELSE IF mapped(i) \/ verb(i) # {} THEN defines
                 ELSE IF uses(i) THEN <<"abbreviation", s[i]>> ELSE <<"with", "glossary-definition">>
      normalized == Replace(s, span, to)
      unapproved == IF Has(s, <<"issuer-approved", "glossary">>)
                    THEN Rewrite(normalized, {<<"approved">>}, {<<w>> : w \in Abbreviating}, <<>>) ELSE normalized
  IN  IF ToSet(s) \cap Abbreviating # {} /\ ToSet(s) \cap {"glossary"} # {}
      THEN Rewrite(unapproved, {<<"as", "defined", "in">>}, Anything, <<"as", "per">>) ELSE unapproved

\* What is rewritten, before what, into what, in this order.
SemanticEquivalences ==
  LET gate(outcome) == {<<"technical", "and", "safety", "gate">> \o g \o <<v, outcome>> :
                          g \in {<<>>, <<"(", "G", ")">>}, v \in {"is", "was", "remains"}}
                       \cup {<<"G">> \o c \o <<"is", outcome>> : c \in {<<>>, <<"component">>}}
      stated(x, verbs, articles) == {<<x>> \o c \o <<v>> \o a :
                                      c \in {<<>>, <<"component">>}, v \in verbs, a \in articles}
      article == {<<>>, <<"a">>, <<"an">>}
      rule(phrases, follows, r) == [phrases |-> phrases, follows |-> follows, to |-> r]
  IN  << rule({<<"no", "conflicts">>, <<"no", "conflict">>}, Anything, <<"conflicts", "0">>),
         rule(gate("pass"), Anything, <<"G", "=", "pass">>),
         rule(gate("fail"), Anything, <<"G", "=", "fail">>),
         rule(stated("C", {"is"}, {<<>>}), {<<n>> : n \in Numerals}, <<"C", "=">>),
         rule(stated("I", {"includes"}, {<<>>}), Anything, <<"I", "=">>),
         rule(stated("E", {"has", "is"}, article), {<<"npv">>}, <<"E", "=">>),
         rule(stated("A", {"shows", "is", "has"}, {<<>>}), {<<"usable-field", "coverage">>}, <<"A", "=">>),
         rule(stated("U", {"has", "is", "indicates"}, article), {<<"eligibility-pass", "frequency">>}, <<"U", "=">>),
         rule({<<",">>}, {<<x, "=">> : x \in Components}, <<";">>),
         rule({<<",">>}, {<<"as", "per">>, <<"as", "defined", "in">>, <<"as", "confirmed", "by">>}, <<";">>) >>

ListingPhrases ==
  {<<"is">> \o now \o state \o listing \o place :
     now \in {<<>>, <<"currently">>}, state \in {<<>>, <<"in", "a", "marketplace", "state">>},
     listing \in {<<"available-for-listing">>, <<"available", "for", "listing">>},
     place \in {<<>>, <<"in", "the", "marketplace">>}}

normalizeSemanticEquivalences(s) ==
  LET rewritten == FoldLeft(LAMBDA text, rule : Rewrite(text, rule.phrases, rule.follows, rule.to),
                            normalizeScopedRouteDefinitions(normalizeScopedGlossaryRelations(s)),
                            SemanticEquivalences)
  IN  IF ToSet(rewritten) \cap {"battery"} # {}
      THEN Rewrite(rewritten, ListingPhrases, Anything, <<"has", "a", "marketplace", "state", "available-for-listing">>)
      ELSE rewritten

Normalized(texts) == [i \in DOMAIN texts |-> normalizeSemanticEquivalences(texts[i])]

\* What is said of a route is supported by that route's own records.
routeComponentScopesArePreserved(s, supportTexts) ==
  LET scopes   == {scope \in routeSupportScopes(supportTexts) : scope.subject # <<>>}
      subjects == {scope.subject : scope \in scopes}
      records(subject) == Normalized(SetToSeq({scope.content : scope \in {x \in scopes : x.subject = subject}}))
      mentions == {i \in DOMAIN s : AtAny(s, i, subjects)}
      named(i) == CHOOSE r \in subjects : /\ At(s, i, r)
                                          /\ \A q \in subjects : At(s, i, q) => Len(q) <= Len(r)
      next(i)  == First({j \in mentions : j > i} \cup {Len(s) + 1})
      cut(i)   == IF s[next(i) - 1] \in {"and", "for", "the", "while", "whereas"} THEN next(i) - 2 ELSE next(i) - 1
      fragment(i) == SubSeq(s, i, cut(i))
      supported(text, subject) ==
        semanticallySupportedAfterNormalization(normalizeSemanticEquivalences(text), records(subject), FALSE)
  IN  \/ subjects = {} \/ ~ containsRouteComponentContent(s)
      \/ mentions = {} /\ (Cardinality(subjects) = 1 \/ \A subject \in subjects : supported(s, subject))
      \/ mentions # {} /\ \A i \in mentions :
           containsRouteComponentContent(fragment(i)) => supported(fragment(i), named(i))

(***************************************************************************)
(* Definitions.                                                            *)
(***************************************************************************)

definitionTargetTokens(s) ==
  LET ends == {i \in DOMAIN s : AtAny(s, i, {<<",", "as", "per">>, <<",", "as", "defined">>, <<",", "as", "confirmed">>,
                                             <<",", "according", "to">>, <<",", "not">>})}
  IN  materialTokens(SubSeq(s, 1, First(ends \cup {Len(s) + 1}) - 1))

definitionTargetsMatch(left, right) == tokenOverlap(left, right, 3, 4) /\ tokenOverlap(right, left, 1, 2)

\* The battery a text names first, or none.
batteryIdentifier(s) ==
  LET named == {i \in 1..(Len(s) - 1) : s[i] = "battery"}
  IN  IF named = {} THEN {} ELSE {s[First(named) + 1]}

\* An abbreviation, what it is said to stand for, and for which battery.
glossaryDefinitionTuples(s) ==
  LET verbAt(t, i, start) == \E v \in GlossaryVerbs : At(t, i, v) /\ start = i + Len(v)
      tuple(t, abbreviation, start, battery) ==
        [abbreviation |-> abbreviation, approved |-> ToSet(t) \cap {"approved", "issuer-approved"} # {},
         battery |-> battery, target |-> definitionTargetTokens(SubSeq(t, start, Len(t)))]
      defines(t, a, start, battery) ==
         \/ \E k \in {a - 1, a + 1} \cap DOMAIN t :
              /\ t[k] \in Abbreviating
              /\ LET after == (IF k < a THEN a ELSE k) + 1
                 IN  \/ verbAt(t, after, start) /\ battery = batteryIdentifier(t)
                     \/ At(t, after, <<"for", "battery">>) /\ verbAt(t, after + 3, start) /\ battery = {t[after + 2]}
         \/ /\ a > 1 /\ t[a - 1] \in Abbreviating /\ At(t, a + 1, <<"to">>) /\ start = a + 2
            /\ \E j \in 1..(a - 1) : t[j] \in {"maps", "map", "mapping"}
            /\ battery = batteryIdentifier(t)
         \/ /\ a > 3 /\ t[a - 1] = "uses" /\ t[a - 3] = "battery" /\ battery = {t[a - 2]}
            /\ \E j \in (a + 1)..Len(t) : At(t, j, <<"to", "mean">>) /\ start = j + 2
         \/ /\ AtAny(t, a + 1, {<<"is", "the">> \o m \o <<w, "for">> : m \in {<<>>, <<"approved">>}, w \in Abbreviating})
            /\ t[start - 1] = "for" /\ start > a + 4 /\ start <= a + 6 /\ battery = batteryIdentifier(t)
      forms(t) == {f \in (1..Len(t)) \X (1..Len(t)) \X ({{}} \cup {{w} : w \in ToSet(t)}) : defines(t, f[1], f[2], f[3])}
  IN  UNION {{d \in {tuple(t, t[f[1]], f[2], f[3]) : f \in forms(t)} : d.target # {}} :
         t \in {t \in relationSentences(s) : ToSet(t) \cap (Abbreviating \cup {"uses"}) # {}}}

glossaryDefinitionTuplesArePreserved(s, supportTexts) ==
  \A claim \in glossaryDefinitionTuples(s) :
    \E text \in ToSet(supportTexts) : \E d \in glossaryDefinitionTuples(text) :
      /\ d.abbreviation = claim.abbreviation
      /\ claim.approved => d.approved
      /\ claim.battery = {} \/ claim.battery = d.battery
      /\ definitionTargetsMatch(claim.target, d.target)

DefinitionKinds ==
  [define |-> {<<"defines">>, <<"define">>}, mean |-> {<<"means">>, <<"mean">>},
   refer |-> {<<"refers", "to">>, <<"refer", "to">>}, stand |-> {<<"stands", "for">>, <<"stand", "for">>}]

\* Subject, verb and object of a sentence that defines, unless it is a glossary entry or a component's label.
ordinaryDefinitionTuples(s) ==
  UNION {LET verbs == {i \in 2..(Len(t) - 1) : \E kind \in DOMAIN DefinitionKinds : AtAny(t, i, DefinitionKinds[kind])}
             tuples == UNION {{[kind |-> kind, subject |-> materialTokens(SubSeq(t, 1, First(verbs) - 1)),
                                object |-> materialTokens(SubSeq(t, First(verbs) + Len(v), Len(t)))] :
                                 v \in {v \in DefinitionKinds[kind] : At(t, First(verbs), v)}} :
                              kind \in DOMAIN DefinitionKinds}
         IN  IF \/ verbs = {}
                \/ t[1] \in Components /\ AtAny(t, 2, DefiningVerbs)
                \/ ToSet(t) \cap (Abbreviating \cup {"glossary"}) # {}
                \/ "uses" \in ToSet(t) /\ Has(t, <<"to", "mean">>)
             THEN {} ELSE {d \in tuples : d.subject # {} /\ d.object # {}} :
         t \in SplitAt(s, {".", ";", "while", "whereas"})}

ordinaryDefinitionTuplesArePreserved(s, supportTexts) ==
  LET close(left, right) == tokenOverlap(left, right, 3, 5) /\ tokenOverlap(right, left, 1, 2)
  IN  \A claim \in ordinaryDefinitionTuples(s) :
        \E text \in ToSet(supportTexts) : \E d \in ordinaryDefinitionTuples(text) :
          claim.kind = d.kind /\ close(claim.subject, d.subject) /\ close(claim.object, d.object)

\* The cited records jointly support the statement.
hasJointSemanticSupport(s, supportTexts, requireEachSupportContribution) ==
  /\ supportTexts # <<>>
  /\ ~ hasInvalidRouteComponentMapping(s, supportTexts)
  /\ glossaryDefinitionTuplesArePreserved(s, supportTexts)
  /\ ordinaryDefinitionTuplesArePreserved(s, supportTexts)
  /\ routeComparisonsUseCitedSubjects(s, supportTexts)
  /\ routeComponentScopesArePreserved(s, supportTexts)
  /\ semanticallySupportedAfterNormalization(normalizeSemanticEquivalences(s), Normalized(supportTexts),
                                             requireEachSupportContribution)

(***************************************************************************)
(* Whether an output gives away the content of a record that is not        *)
(* active.                                                                 *)
(***************************************************************************)

disclosureTokens(s) ==
  {canonicalSemanticToken(w) : w \in UNION {{w} \cup ToSet(Parts(w)) : w \in ToSet(lexicalTokens(s))}}

distinctiveDisclosureTokens(s) ==
  {w \in disclosureTokens(s) :
     /\ w \notin {"synthetic", "predefined", "record", "records", "fact", "facts", "current", "battery",
                  "state", "history"}
     /\ w \in ShortWords \cup Numerals => w \in SHORT_SEMANTIC_TOKENS \cup Numerals \cup Identifiers}

\* A number with its unit.
quantitativeFacts(s) ==
  LET unit(w) == IF w \in {"%", "percentage"} THEN "percent" ELSE w
  IN  {<<s[i], unit(s[i + 1])>> : i \in {i \in 1..(Len(s) - 1) : /\ isNumericToken(s[i])
                                                                 /\ s[i + 1] \in QUANTITY_UNITS \cup {"%"}}}

semanticDisclosureMatch(secret, output) ==
  LET secretTokens == distinctiveDisclosureTokens(secret)
      outputTokens == disclosureTokens(output)
      matching     == secretTokens \cap outputTokens
      longParts(w) == ToSet(Parts(w)) \ SingleCharacters
      identifierMatched == \E w \in secretTokens :
                             isIdentifierToken(w) /\ (w \in outputTokens \/ longParts(w) \subseteq outputTokens)
      fields(tokens) == DISCLOSURE_FIELD_TOKENS \cap tokens
      fieldMatched == fields(secretTokens) \cap fields(outputTokens) # {}
      otherField   == fields(secretTokens) # {} /\ fields(outputTokens) # {} /\ ~ fieldMatched
      numberMatched == numericTokens(secret) \cap numericTokens(output) # {}
      numberContradicted == numericTokens(secret) # {} /\ numericTokens(output) # {} /\ ~ numberMatched
      valueMatched == DISCLOSURE_VALUE_TOKENS \cap matching # {}
      quantityMatched == quantitativeFacts(secret) \cap quantitativeFacts(output) # {}
      verbatim == lexicalTokens(secret) # <<>> /\ Has(lexicalTokens(output), lexicalTokens(secret))
  IN  \/ verbatim
      \/ /\ Cardinality(matching) >= 2 /\ ~ numberContradicted /\ ~ otherField
         /\ IF quantityMatched THEN fieldMatched \/ identifierMatched
            ELSE \/ fieldMatched /\ (numberMatched \/ valueMatched)
                 \/ identifierMatched /\ (numberMatched \/ Cardinality(matching) >= 3)
                 \/ 10 * Cardinality(matching) >= 4 * Cardinality(secretTokens)
=============================================================================
