--------------------------- MODULE OffChainProofs ---------------------------
(***************************************************************************)
(* Theorems about the services beside the contracts: the rounding of exact *)
(* decimals, the dated rules, the gateway of marketplace commands, the     *)
(* repository of one-use authorizations and the object stores, each for    *)
(* any number of the calls, records and processes it deals with.           *)
(***************************************************************************)
EXTENDS DatedRules, MarketplaceGateway, KeyOperationAuthorizationRepository, ObjectStores, TLAPS

-----------------------------------------------------------------------------
(* Exact decimals.                                                         *)

LEMMA DivisionIsEuclidean ==
    ASSUME NEW m \in Nat, NEW k \in Nat \ {0}
    PROVE  /\ m \div k \in Nat
           /\ (m \div k) * k <= m
           /\ m - (m \div k) * k < k
  BY Z3

LEMMA SignsCancel ==
    ASSUME NEW a \in Int, NEW b \in Int
    PROVE  /\ (-a) * (-b) = a * b
           /\ (-a) * b = -(a * b)
           /\ a * (-b) = -(a * b)
  BY Z3

(* The quotient of two magnitudes, before the sign is put back. *)
LEMMA MagnitudesRoundToNearestEven ==
    ASSUME NEW m \in Nat, NEW k \in Nat \ {0}, NEW q \in Nat, NEW r \in Nat,
           q * k <= m, m - q * k < k,
           r = IF \/ 2 * (m - q * k) < k
                  \/ 2 * (m - q * k) = k /\ q % 2 = 0
               THEN q ELSE q + 1
    PROVE  /\ 2 * Magnitude(r * k - m) <= k
           /\ 2 * Magnitude(r * k - m) = k => r % 2 = 0
  <1> DEFINE product == q * k
  <1>1. product \in Int
    OBVIOUS
  <1>2. (q + 1) * k = product + k
    BY Z3
  <1>3. q % 2 \in {0, 1} /\ (q % 2 = 1 => (q + 1) % 2 = 0)
    BY Z3
  <1>4. CASE r = q
    <2>1. 2 * (m - product) <= k /\ (2 * (m - product) = k => q % 2 = 0)
      BY <1>1, <1>4
    <2>2. r * k = product
      BY <1>4
    <2> HIDE DEF product
    <2> QED
      BY <1>1, <1>4, <2>1, <2>2 DEF Magnitude, product
  <1>5. CASE r = q + 1
    <2>1. 2 * (m - product) >= k /\ (2 * (m - product) = k => q % 2 # 0)
      BY <1>1, <1>5
    <2>2. r * k = product + k
      BY <1>2, <1>5
    <2>3. product <= m /\ m - product < k
      OBVIOUS
    <2> HIDE DEF product
    <2> QED
      BY <1>1, <1>3, <1>5, <2>1, <2>2, <2>3 DEF Magnitude
  <1> QED
    BY <1>4, <1>5

(* roundHalfEven (decimal.ts) returns the nearest integer to the quotient, *)
(* ties to even, for every numerator and every denominator other than 0,   *)
(* whatever their signs.                                                   *)
THEOREM RoundHalfEvenIsNearestEven ==
    ASSUME NEW n \in Int, NEW d \in Int \ {0}
    PROVE  NearestEven(n, d, roundHalfEven(n, d))
  <1> DEFINE signed == IF d < 0 THEN -n ELSE n
             m == Magnitude(signed)
             k == Magnitude(d)
             q == m \div k
             r == IF \/ 2 * (m - q * k) < k
                     \/ 2 * (m - q * k) = k /\ q % 2 = 0
                  THEN q ELSE q + 1
             result == IF signed < 0 THEN -r ELSE r
  <1>1. m \in Nat /\ k \in Nat \ {0}
    BY DEF Magnitude
  <1>2. q \in Nat /\ q * k <= m /\ m - q * k < k
    BY <1>1, DivisionIsEuclidean
  <1>3. r \in Nat
    BY <1>2
  <1>4. /\ 2 * Magnitude(r * k - m) <= k
        /\ 2 * Magnitude(r * k - m) = k => r % 2 = 0
    <2> HIDE DEF m, k, q
    <2> QED
      BY <1>1, <1>2, <1>3, MagnitudesRoundToNearestEven, ZenonT(60)
  <1>5. result = roundHalfEven(n, d)
    BY DEF roundHalfEven
  <1>6. \/ result * d - n = r * k - m
        \/ result * d - n = -(r * k - m)
    <2>1. r * k \in Int
      BY <1>1, <1>3
    <2>2. CASE d > 0 /\ n >= 0
      <3>1. k = d /\ m = n /\ result = r
        BY <2>2 DEF Magnitude
      <3> QED
        BY <3>1, SMTT(60)
    <2>3. CASE d > 0 /\ n < 0
      <3>1. k = d /\ m = -n /\ result = -r
        BY <2>3 DEF Magnitude
      <3> HIDE DEF r, k, m, result
      <3>2. result * d = -(r * k)
        BY <1>1, <1>3, <3>1, SignsCancel
      <3> QED
        BY <1>1, <2>1, <3>1, <3>2
    <2>4. CASE d < 0 /\ n > 0
      <3>1. k = -d /\ m = n /\ result = -r
        BY <2>4 DEF Magnitude
      <3>2. d = -k
        BY <3>1
      <3> HIDE DEF r, k, m, result
      <3>3. result * d = r * k
        BY <1>1, <1>3, <3>1, <3>2, SignsCancel
      <3> QED
        BY <1>1, <2>1, <3>1, <3>3
    <2>5. CASE d < 0 /\ n <= 0
      <3>1. k = -d /\ m = -n /\ result = r
        BY <2>5 DEF Magnitude
      <3>2. d = -k
        BY <3>1
      <3> HIDE DEF r, k, m, result
      <3>3. result * d = -(r * k)
        BY <1>1, <1>3, <3>1, <3>2, SignsCancel
      <3> QED
        BY <1>1, <2>1, <3>1, <3>3
    <2> HIDE DEF r, k, m, result
    <2> QED
      BY <2>2, <2>3, <2>4, <2>5
  <1>7. Magnitude(result * d - n) = Magnitude(r * k - m)
    <2>1. r * k - m \in Int
      BY <1>1, <1>3
    <2> HIDE DEF r, k, m, result
    <2> QED
      BY <1>6, <2>1 DEF Magnitude
  <1>8. r % 2 = 0 => result % 2 = 0
    <2>1. result = r \/ result = -r
      OBVIOUS
    <2> HIDE DEF r, result
    <2> QED
      BY <1>3, <2>1
  <1> HIDE DEF r, k, m, result
  <1> QED
    BY <1>4, <1>5, <1>7, <1>8 DEF NearestEven, k

-----------------------------------------------------------------------------
(* The dated rules.                                                        *)

LEMMA RulesTypeInvariance == RulesSpec => []RulesTypeOK
  <1>1. RulesInit => RulesTypeOK
    BY DEF RulesInit, RulesTypeOK
  <1>2. RulesTypeOK /\ [RulesNext]_ruleVars => RulesTypeOK'
    <2> SUFFICES ASSUME RulesTypeOK, [RulesNext]_ruleVars
                 PROVE  RulesTypeOK'
      OBVIOUS
    <2>1. ASSUME NEW input \in SourceInputs, registerSource(input)
          PROVE  RulesTypeOK'
      BY <2>1, RuleInputsAssumption DEF registerSource, Put, RulesTypeOK
    <2>2. ASSUME NEW key \in DOMAIN sources, NEW l \in Lifecycles,
                 transitionSource(key, l)
          PROVE  RulesTypeOK'
      <3>1. sources' \in [DOMAIN sources' -> SourceRecords]
        BY <2>2 DEF transitionSource, RulesTypeOK, SourceRecords
      <3>2. ASSUME NEW k \in DOMAIN rules
            PROVE  DisabledBy(key, l, rules[k]) \in RuleRecords
        BY <3>2 DEF DisabledBy, RulesTypeOK, RuleRecords, Statuses
      <3> QED
        BY <2>2, <3>1, <3>2 DEF transitionSource, RulesTypeOK
    <2>3. ASSUME NEW input \in RuleInputs, NEW at \in RuleTimes,
                 registerRule(input, at)
          PROVE  RulesTypeOK'
      BY <2>3, RuleInputsAssumption DEF registerRule, Put, RulesTypeOK
    <2>4. CASE UNCHANGED ruleVars
      BY <2>4 DEF ruleVars, RulesTypeOK
    <2> QED
      BY <2>1, <2>2, <2>3, <2>4 DEF RulesNext
  <1> QED
    BY <1>1, <1>2, PTL DEF RulesSpec

(* transitionSource disables the rules of a source it closes, and          *)
(* registerRule admits none over a source that is not active: for any      *)
(* sources, rules and times, no active rule rests on an inactive source.   *)
THEOREM RulesStayBacked == RulesSpec => []ActiveRulesRestOnActiveSources
  <1>1. RulesInit => ActiveRulesRestOnActiveSources
    BY DEF RulesInit, ActiveRulesRestOnActiveSources
  <1>2. RulesTypeOK /\ ActiveRulesRestOnActiveSources /\ [RulesNext]_ruleVars
          => ActiveRulesRestOnActiveSources'
    <2> SUFFICES ASSUME RulesTypeOK, ActiveRulesRestOnActiveSources,
                        [RulesNext]_ruleVars
                 PROVE  ActiveRulesRestOnActiveSources'
      OBVIOUS
    <2>1. ASSUME NEW input \in SourceInputs, registerSource(input)
          PROVE  ActiveRulesRestOnActiveSources'
      BY <2>1 DEF registerSource, Put, ActiveRulesRestOnActiveSources
    <2>2. ASSUME NEW key \in DOMAIN sources, NEW l \in Lifecycles,
                 transitionSource(key, l)
          PROVE  ActiveRulesRestOnActiveSources'
      <3> SUFFICES ASSUME NEW k \in DOMAIN rules, rules'[k].status = "active",
                          NEW s \in rules'[k].source_clauses
                   PROVE  s \in DOMAIN sources' /\ sources'[s].lifecycle = "active"
        BY <2>2 DEF transitionSource, ActiveRulesRestOnActiveSources
      <3>1. rules'[k] = DisabledBy(key, l, rules[k]) /\ rules[k] \in RuleRecords
        BY <2>2 DEF transitionSource, RulesTypeOK
      <3>2. /\ rules'[k] = rules[k]
            /\ ~(l \in Closing /\ key \in rules[k].source_clauses)
        BY <3>1 DEF DisabledBy, RuleRecords
      <3>3. s \in DOMAIN sources /\ sources[s].lifecycle = "active"
        BY <3>2 DEF ActiveRulesRestOnActiveSources
      <3>4. CASE s = key
        BY <2>2, <3>2, <3>3, <3>4 DEF transitionSource, allowedSourceTransition
      <3>5. CASE s # key
        BY <2>2, <3>3, <3>5 DEF transitionSource
      <3> QED
        BY <3>4, <3>5
    <2>3. ASSUME NEW input \in RuleInputs, NEW at \in RuleTimes,
                 registerRule(input, at)
          PROVE  ActiveRulesRestOnActiveSources'
      BY <2>3 DEF registerRule, Put, InForce, ActiveRulesRestOnActiveSources
    <2>4. CASE UNCHANGED ruleVars
      BY <2>4 DEF ruleVars, ActiveRulesRestOnActiveSources
    <2> QED
      BY <2>1, <2>2, <2>3, <2>4 DEF RulesNext
  <1> QED
    BY <1>1, <1>2, RulesTypeInvariance, PTL DEF RulesSpec

-----------------------------------------------------------------------------
(* The command gateway.                                                    *)

Requests == UNION {mix.requests : mix \in TrafficMixes}
Commands == {r.command : r \in Requests}
CallKeys == {<<r.address, r.path>> : r \in Requests}
CallSteps == Waiting \cup {"answered", "failed", "lost", "limited", "elsewhere", "denied",
                           "invalid", "conflict", "expired"}
Call == [key : CallKeys, at : Nat, life : Nat, command : Commands, step : CallSteps,
         ran : BOOLEAN, stored : BOOLEAN, remembered : SUBSET Nat, reply : Nat]

GatewayTypeOK ==
    /\ traffic \in TrafficMixes /\ edgeTime \in Nat /\ life \in Nat
    /\ calls \in Seq(Call)

(* The map holds runs whose result was kept, under their own ids.          *)
ResultsAreRuns ==
    \A id \in DOMAIN commands :
        /\ commands[id].run \in DOMAIN calls
        /\ calls[commands[id].run].stored
        /\ calls[commands[id].run].command.id = id
        /\ calls[commands[id].run].command.fingerprint = commands[id].fingerprint

(* A call that waits is of this life, and a result kept in it is known.    *)
ThisLifeIsKnown ==
    \A n \in DOMAIN calls :
        /\ calls[n].life <= life
        /\ calls[n].step \in Waiting => calls[n].life = life
        /\ (calls[n].stored \/ calls[n].step = "answered") /\ calls[n].life = life =>
              calls[n].command.id \in DOMAIN commands

(* Who may still run, or ran, met no result under its id.                  *)
RunsMetNoResult ==
    \A n \in DOMAIN calls :
        /\ calls[n].remembered \subseteq DOMAIN calls
        /\ calls[n].ran \/ calls[n].step \in Waiting =>
              \A m \in calls[n].remembered : calls[m].command.id # calls[n].command.id

AnswersAreRuns ==
    \A n \in DOMAIN calls : calls[n].step = "answered" =>
        /\ calls[n].reply \in DOMAIN calls
        /\ calls[calls[n].reply].stored
        /\ calls[calls[n].reply].command = calls[n].command

GatewayInv == GatewayTypeOK /\ ResultsAreRuns /\ ThisLifeIsKnown /\ RunsMetNoResult /\ AnswersAreRuns

LEMMA GatewayInvInit == GatewayInit => GatewayInv
<1> SUFFICES ASSUME GatewayInit PROVE GatewayInv
    OBVIOUS
<1>1. DOMAIN calls = {} /\ DOMAIN commands = {} /\ calls \in Seq(Call)
    BY DEF GatewayInit
<1>2. GatewayTypeOK
    BY <1>1 DEF GatewayInit, GatewayTypeOK
<1> QED BY <1>1, <1>2, ZenonT(60) DEF GatewayInv, ResultsAreRuns, ThisLifeIsKnown, RunsMetNoResult, AnswersAreRuns

LEMMA CallFacts ==
    ASSUME GatewayTypeOK, NEW n \in DOMAIN calls
    PROVE  calls[n] \in Call /\ DOMAIN calls = 1 .. Len(calls) /\ Len(calls) \in Nat /\ n \in Nat \ {0}
    BY DEF GatewayTypeOK

LEMMA OneCallChanges ==
    ASSUME GatewayTypeOK, NEW n \in DOMAIN calls, NEW new \in Call, calls' = [calls EXCEPT ![n] = new]
    PROVE  /\ calls' \in Seq(Call) /\ DOMAIN calls' = DOMAIN calls /\ calls'[n] = new
           /\ \A m \in DOMAIN calls : m # n => calls'[m] = calls[m]
    BY DEF GatewayTypeOK

(* A call that goes on without an answer.                                  *)
LEMMA CallGoesOn ==
    ASSUME GatewayInv, NEW n \in DOMAIN calls, NEW new \in Call, calls' = [calls EXCEPT ![n] = new],
           new.life = calls[n].life, new.command = calls[n].command, new.remembered = calls[n].remembered,
           new.stored = calls[n].stored, new.step # "answered", calls[n].step \in Waiting,
           UNCHANGED <<edgeTime, commands, life, traffic>>
    PROVE  GatewayInv'
<1>1. GatewayTypeOK /\ ResultsAreRuns /\ ThisLifeIsKnown /\ RunsMetNoResult /\ AnswersAreRuns
    BY ZenonT(60) DEF GatewayInv
<1>2. /\ calls' \in Seq(Call) /\ DOMAIN calls' = DOMAIN calls /\ calls'[n] = new
      /\ \A m \in DOMAIN calls : m # n => calls'[m] = calls[m]
    BY <1>1, OneCallChanges, ZenonT(60)
<1>3. \A m \in DOMAIN calls : /\ calls'[m].life = calls[m].life /\ calls'[m].command = calls[m].command
                              /\ calls'[m].remembered = calls[m].remembered /\ calls'[m].stored = calls[m].stored
    BY <1>2, ZenonT(60)
<1>4. GatewayTypeOK'
    BY <1>1, <1>2 DEF GatewayTypeOK
<1>5. ResultsAreRuns'
  <2>1. commands' = commands
      OBVIOUS
  <2>2. ASSUME NEW id \in DOMAIN commands
        PROVE  /\ commands[id].run \in DOMAIN calls' /\ calls'[commands[id].run].stored
               /\ calls'[commands[id].run].command.id = id
               /\ calls'[commands[id].run].command.fingerprint = commands[id].fingerprint
    <3> DEFINE run == commands[id].run
    <3>1. /\ run \in DOMAIN calls /\ calls[run].stored /\ calls[run].command.id = id
          /\ calls[run].command.fingerprint = commands[id].fingerprint
        BY <1>1, ZenonT(60) DEF ResultsAreRuns
    <3> HIDE DEF run
    <3>2. calls'[run].command = calls[run].command /\ calls'[run].stored = calls[run].stored /\ run \in DOMAIN calls'
        BY <1>2, <1>3, <3>1, ZenonT(60)
    <3>3. /\ run \in DOMAIN calls' /\ calls'[run].stored /\ calls'[run].command.id = id
          /\ calls'[run].command.fingerprint = commands[id].fingerprint
        BY <3>1, <3>2, ZenonT(60)
    <3> QED BY <3>3, ZenonT(60) DEF run
  <2> QED BY <2>1, <2>2 DEF ResultsAreRuns
<1>6. ThisLifeIsKnown'
    BY <1>1, <1>2, <1>3, ZenonT(60) DEF ThisLifeIsKnown
<1>7. RunsMetNoResult'
  <2>1. ASSUME NEW m \in DOMAIN calls
        PROVE  /\ calls[m].remembered \subseteq DOMAIN calls
               /\ calls'[m].ran \/ calls'[m].step \in Waiting => calls[m].ran \/ calls[m].step \in Waiting
      BY <1>1, <1>2, ZenonT(60) DEF RunsMetNoResult
  <2>2. ASSUME NEW m \in DOMAIN calls, calls[m].ran \/ calls[m].step \in Waiting, NEW k \in calls[m].remembered
        PROVE  calls[k].command.id # calls[m].command.id
      BY <1>1, <2>2, ZenonT(60) DEF RunsMetNoResult
  <2>3. ASSUME NEW m \in DOMAIN calls, calls[m].ran \/ calls[m].step \in Waiting, NEW k \in calls[m].remembered
        PROVE  calls'[k].command.id # calls'[m].command.id
    <3>1. k \in DOMAIN calls /\ calls[k].command.id # calls[m].command.id
        BY <2>1, <2>2, <2>3, ZenonT(60)
    <3>2. calls'[k].command = calls[k].command /\ calls'[m].command = calls[m].command
        BY <1>3, <3>1, ZenonT(60)
    <3> QED BY <3>1, <3>2, ZenonT(60)
  <2> QED BY <1>2, <1>3, <2>1, <2>3, ZenonT(60) DEF RunsMetNoResult
<1>8. AnswersAreRuns'
  <2> SUFFICES ASSUME NEW m \in DOMAIN calls, calls'[m].step = "answered"
               PROVE  /\ calls'[m].reply \in DOMAIN calls /\ calls'[calls'[m].reply].stored
                      /\ calls'[calls'[m].reply].command = calls'[m].command
      BY <1>2, ZenonT(60) DEF AnswersAreRuns
  <2>1. calls'[m] = calls[m]
      BY <1>2, ZenonT(60)
  <2>2. /\ calls[m].reply \in DOMAIN calls /\ calls[calls[m].reply].stored
        /\ calls[calls[m].reply].command = calls[m].command
      BY <1>1, <2>1, ZenonT(60) DEF AnswersAreRuns
  <2> QED BY <1>3, <2>1, <2>2, ZenonT(60)
<1> QED BY <1>4, <1>5, <1>6, <1>7, <1>8, ZenonT(60) DEF GatewayInv

(* execute gave a transaction hash.                                        *)
LEMMA ExecutedKeeps ==
    ASSUME GatewayInv, NEW n \in DOMAIN calls, executed(n)
    PROVE  GatewayInv'
<1> DEFINE command == calls[n].command
           entry == [fingerprint |-> command.fingerprint, run |-> n]
           new == [calls[n] EXCEPT !.step = "answered", !.stored = TRUE, !.reply = n]
<1>1. GatewayTypeOK /\ ResultsAreRuns /\ ThisLifeIsKnown /\ RunsMetNoResult /\ AnswersAreRuns
    BY ZenonT(60) DEF GatewayInv
<1>2. /\ calls[n].step = "execute" /\ calls' = [calls EXCEPT ![n] = new] /\ UNCHANGED <<edgeTime, life, traffic>>
      /\ commands' = MapSet(commands, command.id, entry)
    BY ZenonT(60) DEF executed
<1>3. calls[n] \in Call /\ n \in Nat
    BY <1>1, CallFacts
<1>4. /\ new \in Call /\ new.step = "answered" /\ new.stored /\ new.reply = n
      /\ new.life = calls[n].life /\ new.command = command /\ new.remembered = calls[n].remembered
    BY <1>3, ZenonT(60) DEF Call, CallSteps
<1>5. /\ DOMAIN commands' = {command.id} \cup DOMAIN commands /\ commands'[command.id] = entry
      /\ \A id \in DOMAIN commands : id # command.id => commands'[id] = commands[id]
    BY <1>2 DEF MapSet
<1>6. entry.run = n /\ entry.fingerprint = command.fingerprint
    OBVIOUS
<1> HIDE DEF new, command, entry
<1>7. /\ calls' \in Seq(Call) /\ DOMAIN calls' = DOMAIN calls /\ calls'[n] = new
      /\ \A m \in DOMAIN calls : m # n => calls'[m] = calls[m]
    BY <1>1, <1>2, <1>4, OneCallChanges, ZenonT(60)
<1>8. \A m \in DOMAIN calls : /\ calls'[m].life = calls[m].life /\ calls'[m].command = calls[m].command
                              /\ calls'[m].remembered = calls[m].remembered /\ (calls[m].stored => calls'[m].stored)
    BY <1>4, <1>7, ZenonT(60) DEF command
<1>9. "execute" \in Waiting
    BY DEF Waiting
<1>10. GatewayTypeOK'
    BY <1>1, <1>2, <1>7 DEF GatewayTypeOK
<1>11. ResultsAreRuns'
  <2>1. ASSUME NEW id \in DOMAIN commands'
        PROVE  /\ commands'[id].run \in DOMAIN calls' /\ calls'[commands'[id].run].stored
               /\ calls'[commands'[id].run].command.id = id
               /\ calls'[commands'[id].run].command.fingerprint = commands'[id].fingerprint
    <3>1. CASE id = command.id
        BY <1>4, <1>5, <1>6, <1>7, <3>1, ZenonT(60)
    <3>2. CASE id # command.id
      <4>1. id \in DOMAIN commands /\ commands'[id] = commands[id]
          BY <1>5, <3>2, ZenonT(60)
      <4>2. /\ commands[id].run \in DOMAIN calls /\ calls[commands[id].run].stored
            /\ calls[commands[id].run].command.id = id
            /\ calls[commands[id].run].command.fingerprint = commands[id].fingerprint
          BY <1>1, <4>1, ZenonT(60) DEF ResultsAreRuns
      <4> QED BY <1>7, <1>8, <4>1, <4>2, ZenonT(60)
    <3> QED BY <3>1, <3>2
  <2> QED BY <2>1, ZenonT(60) DEF ResultsAreRuns
<1>12. ThisLifeIsKnown'
  <2> SUFFICES ASSUME NEW m \in DOMAIN calls
               PROVE  /\ calls'[m].life <= life
                      /\ calls'[m].step \in Waiting => calls'[m].life = life
                      /\ (calls'[m].stored \/ calls'[m].step = "answered") /\ calls'[m].life = life =>
                            calls'[m].command.id \in DOMAIN commands'
      BY <1>2, <1>7, ZenonT(60) DEF ThisLifeIsKnown
  <2>1. CASE m = n
    <3>1. calls[n].life <= life /\ calls[n].life = life
        BY <1>1, <1>2, <1>9, ZenonT(60) DEF ThisLifeIsKnown
    <3> QED BY <1>4, <1>5, <1>7, <2>1, <3>1, ZenonT(60)
  <2>2. CASE m # n
      BY <1>1, <1>5, <1>7, <2>2, ZenonT(60) DEF ThisLifeIsKnown
  <2> QED BY <2>1, <2>2
<1>13. RunsMetNoResult'
  <2>1. ASSUME NEW m \in DOMAIN calls
        PROVE  /\ calls[m].remembered \subseteq DOMAIN calls
               /\ calls'[m].ran \/ calls'[m].step \in Waiting => calls[m].ran \/ calls[m].step \in Waiting
      BY <1>1, <1>2, <1>7, <1>9, ZenonT(60) DEF RunsMetNoResult
  <2>2. ASSUME NEW m \in DOMAIN calls, calls[m].ran \/ calls[m].step \in Waiting, NEW k \in calls[m].remembered
        PROVE  calls[k].command.id # calls[m].command.id
      BY <1>1, <2>2, ZenonT(60) DEF RunsMetNoResult
  <2>3. ASSUME NEW m \in DOMAIN calls, calls[m].ran \/ calls[m].step \in Waiting, NEW k \in calls[m].remembered
        PROVE  calls'[k].command.id # calls'[m].command.id
    <3>1. k \in DOMAIN calls /\ calls[k].command.id # calls[m].command.id
        BY <2>1, <2>2, <2>3, ZenonT(60)
    <3>2. calls'[k].command = calls[k].command /\ calls'[m].command = calls[m].command
        BY <1>8, <3>1, ZenonT(60)
    <3> QED BY <3>1, <3>2, ZenonT(60)
  <2> QED BY <1>7, <1>8, <2>1, <2>3, ZenonT(60) DEF RunsMetNoResult
<1>14. AnswersAreRuns'
  <2> SUFFICES ASSUME NEW m \in DOMAIN calls, calls'[m].step = "answered"
               PROVE  /\ calls'[m].reply \in DOMAIN calls /\ calls'[calls'[m].reply].stored
                      /\ calls'[calls'[m].reply].command = calls'[m].command
      BY <1>7, ZenonT(60) DEF AnswersAreRuns
  <2>1. CASE m = n
      BY <1>4, <1>7, <2>1, ZenonT(60)
  <2>2. CASE m # n
    <3>1. calls'[m] = calls[m]
        BY <1>7, <2>2, ZenonT(60)
    <3>2. /\ calls[m].reply \in DOMAIN calls /\ calls[calls[m].reply].stored
          /\ calls[calls[m].reply].command = calls[m].command
        BY <1>1, <3>1, ZenonT(60) DEF AnswersAreRuns
    <3> QED BY <1>8, <3>1, <3>2, ZenonT(60)
  <2> QED BY <2>1, <2>2
<1> QED BY <1>10, <1>11, <1>12, <1>13, <1>14, ZenonT(60) DEF GatewayInv

(* A restart forgets the results and cuts the waiting calls off.           *)
LEMMA RestartKeeps ==
    ASSUME GatewayInv, restart
    PROVE  GatewayInv'
<1>1. GatewayTypeOK /\ ResultsAreRuns /\ ThisLifeIsKnown /\ RunsMetNoResult /\ AnswersAreRuns
    BY ZenonT(60) DEF GatewayInv
<1>2. /\ life' = life + 1 /\ commands' = <<>> /\ UNCHANGED <<edgeTime, traffic>>
      /\ calls' = [n \in DOMAIN calls |->
                     IF calls[n].step \in Waiting THEN [calls[n] EXCEPT !.step = "lost"] ELSE calls[n]]
    BY DEF restart
<1>3. DOMAIN calls' = DOMAIN calls
    BY <1>2
<1>4. ASSUME NEW n \in DOMAIN calls
      PROVE  /\ calls'[n] \in Call /\ calls'[n].step \notin Waiting
             /\ calls'[n].life = calls[n].life /\ calls'[n].command = calls[n].command
             /\ calls'[n].remembered = calls[n].remembered /\ (calls'[n].stored <=> calls[n].stored)
             /\ calls'[n].reply = calls[n].reply /\ (calls'[n].ran <=> calls[n].ran)
             /\ calls'[n].step = "answered" => calls[n].step = "answered"
  <2>1. calls[n] \in Call
      BY <1>1, CallFacts
  <2>2. calls'[n] = IF calls[n].step \in Waiting THEN [calls[n] EXCEPT !.step = "lost"] ELSE calls[n]
      BY <1>2
  <2>3. CASE calls[n].step \in Waiting
      BY <2>1, <2>2, <2>3 DEF Call, CallSteps, Waiting
  <2>4. CASE calls[n].step \notin Waiting
      BY <2>1, <2>2, <2>4
  <2> QED BY <2>3, <2>4
<1>5. ASSUME NEW n \in DOMAIN calls PROVE calls[n].life \in Nat
    BY <1>1, CallFacts DEF Call
<1>6. calls' \in Seq(Call) /\ life' \in Nat
  <2>1. DOMAIN calls = 1 .. Len(calls) /\ Len(calls) \in Nat
      BY <1>1 DEF GatewayTypeOK
  <2>2. calls' \in [1 .. Len(calls) -> Call]
      BY <1>2, <1>4, <2>1
  <2> QED BY <1>1, <1>2, <2>1, <2>2 DEF GatewayTypeOK
<1>7. GatewayTypeOK'
    BY <1>1, <1>2, <1>6 DEF GatewayTypeOK
<1>8. ResultsAreRuns'
  <2>1. DOMAIN commands' = {}
      BY <1>2
  <2> QED BY <2>1, ZenonT(60) DEF ResultsAreRuns
<1>9. ThisLifeIsKnown'
  <2>1. ASSUME NEW n \in DOMAIN calls PROVE calls'[n].life <= life' /\ calls'[n].life # life'
    <3>1. calls[n].life <= life /\ life \in Nat
        BY <1>1, ZenonT(60) DEF ThisLifeIsKnown, GatewayTypeOK
    <3> QED BY <1>2, <1>4, <1>5, <3>1
  <2> QED BY <1>3, <1>4, <2>1, ZenonT(60) DEF ThisLifeIsKnown
<1>10. RunsMetNoResult'
  <2>1. ASSUME NEW n \in DOMAIN calls
        PROVE  /\ calls[n].remembered \subseteq DOMAIN calls
               /\ calls[n].ran => \A m \in calls[n].remembered : calls[m].command.id # calls[n].command.id
      BY <1>1, ZenonT(60) DEF RunsMetNoResult
  <2>2. ASSUME NEW n \in DOMAIN calls, calls'[n].ran, NEW m \in calls[n].remembered
        PROVE  calls'[m].command.id # calls'[n].command.id
    <3>1. m \in DOMAIN calls /\ calls[m].command.id # calls[n].command.id
        BY <1>4, <2>1, <2>2, ZenonT(60)
    <3>2. calls'[m].command = calls[m].command /\ calls'[n].command = calls[n].command
        BY <1>4, <3>1, ZenonT(60)
    <3> QED BY <3>1, <3>2, ZenonT(60)
  <2> QED BY <1>3, <1>4, <2>1, <2>2, ZenonT(60) DEF RunsMetNoResult
<1>11. AnswersAreRuns'
  <2> SUFFICES ASSUME NEW n \in DOMAIN calls, calls'[n].step = "answered"
               PROVE  /\ calls'[n].reply \in DOMAIN calls /\ calls'[calls'[n].reply].stored
                      /\ calls'[calls'[n].reply].command = calls'[n].command
      BY <1>3, ZenonT(60) DEF AnswersAreRuns
  <2>1. calls'[n].reply = calls[n].reply /\ calls'[n].command = calls[n].command /\ calls[n].step = "answered"
      BY <1>4, ZenonT(60)
  <2>2. /\ calls[n].reply \in DOMAIN calls /\ calls[calls[n].reply].stored
        /\ calls[calls[n].reply].command = calls[n].command
      BY <1>1, <2>1, ZenonT(60) DEF AnswersAreRuns
  <2> QED BY <1>4, <2>1, <2>2, ZenonT(60)
<1> QED BY <1>7, <1>8, <1>9, <1>10, <1>11, ZenonT(60) DEF GatewayInv

(* The gateway compares fingerprints, which is to compare commands.        *)
LEMMA SameFingerprintSameCommand ==
    ASSUME NEW c \in Commands, NEW d \in Commands, c.id = d.id, c.fingerprint = d.fingerprint
    PROVE  c = d
<1>1. PICK mix \in TrafficMixes, r \in UNION {m.requests : m \in TrafficMixes} : r \in mix.requests /\ c = r.command
    BY DEF Commands, Requests
<1>2. PICK other \in TrafficMixes, s \in UNION {m.requests : m \in TrafficMixes} : s \in other.requests /\ d = s.command
    BY DEF Commands, Requests
<1>3. r.command.id = s.command.id /\ r.command.fingerprint = s.command.fingerprint => r.command = s.command
    BY <1>1, <1>2, FingerprintsIdentifyCommands
<1> QED BY <1>1, <1>2, <1>3

(* A request arrives, and gets no further or waits for its first promise.  *)
LEMMA ArrivalKeeps ==
    ASSUME GatewayInv, NEW key \in CallKeys, NEW command \in Commands, NEW step \in CallSteps,
           step = "answered" => command.id \in DOMAIN commands
                                /\ commands[command.id].fingerprint = command.fingerprint,
           step \in Waiting => command.id \notin DOMAIN commands,
           Arrived(key, command, step), UNCHANGED <<edgeTime, commands, life, traffic>>
    PROVE  GatewayInv'
<1> DEFINE reply == IF step = "answered" THEN commands[command.id].run ELSE 0
           last == Len(calls) + 1
           new == [key |-> key, at |-> edgeTime, life |-> life, command |-> command, step |-> step,
                   ran |-> FALSE, stored |-> FALSE, remembered |-> Remembered, reply |-> reply]
<1>1. GatewayTypeOK /\ ResultsAreRuns /\ ThisLifeIsKnown /\ RunsMetNoResult /\ AnswersAreRuns
    BY ZenonT(60) DEF GatewayInv
<1>2. DOMAIN calls = 1 .. Len(calls) /\ Len(calls) \in Nat /\ calls \in Seq(Call) /\ edgeTime \in Nat /\ life \in Nat
    BY <1>1 DEF GatewayTypeOK
<1>3. Remembered \subseteq DOMAIN calls
    BY DEF Remembered
<1>4. step = "answered" => reply \in DOMAIN calls /\ calls[reply].stored /\ calls[reply].command = command
  <2> SUFFICES ASSUME step = "answered"
               PROVE  reply \in DOMAIN calls /\ calls[reply].stored /\ calls[reply].command = command
      OBVIOUS
  <2>1. /\ reply \in DOMAIN calls /\ calls[reply].stored /\ calls[reply].command.id = command.id
        /\ calls[reply].command.fingerprint = command.fingerprint
      BY <1>1, ZenonT(60) DEF ResultsAreRuns
  <2> HIDE DEF reply
  <2>2. calls[reply].command \in Commands
      BY <1>1, <2>1, CallFacts DEF Call
  <2> QED BY <2>1, <2>2, SameFingerprintSameCommand, ZenonT(60)
<1>5. reply \in Nat
    BY <1>2, <1>4
<1>6. calls' = Append(calls, new)
    BY ZenonT(60) DEF Arrived, Prior
<1>7. /\ new.life = life /\ new.command = command /\ new.step = step /\ new.ran = FALSE /\ new.stored = FALSE
      /\ new.remembered = Remembered /\ new.reply = reply
    BY ZenonT(60)
<1> HIDE DEF reply
<1>8. new \in Call
    BY <1>2, <1>3, <1>5 DEF Call
<1> HIDE DEF new
<1>9. /\ calls' \in Seq(Call) /\ DOMAIN calls' = DOMAIN calls \cup {last} /\ last \notin DOMAIN calls
      /\ calls'[last] = new /\ \A n \in DOMAIN calls : calls'[n] = calls[n]
    BY <1>2, <1>6, <1>8
<1> HIDE DEF last
<1>10. GatewayTypeOK'
    BY <1>1, <1>9 DEF GatewayTypeOK
<1>11. ResultsAreRuns'
    BY <1>1, <1>9, ZenonT(60) DEF ResultsAreRuns
<1>12. ThisLifeIsKnown'
  <2>1. life <= life
      BY <1>2
  <2>2. step = "answered" => command.id \in DOMAIN commands
      OBVIOUS
  <2> QED BY <1>1, <1>7, <1>9, <2>1, <2>2, ZenonT(60) DEF ThisLifeIsKnown
<1>13. RunsMetNoResult'
  <2>1. ASSUME step \in Waiting, NEW m \in Remembered PROVE calls[m].command.id # command.id
      BY <1>1, <1>3, <2>1, ZenonT(60) DEF ThisLifeIsKnown, Remembered
  <2>2. ASSUME NEW n \in DOMAIN calls
        PROVE  /\ calls'[n].remembered \subseteq DOMAIN calls'
               /\ calls'[n].ran \/ calls'[n].step \in Waiting =>
                     \A m \in calls'[n].remembered : calls'[m].command.id # calls'[n].command.id
      BY <1>1, <1>9, ZenonT(60) DEF RunsMetNoResult
  <2>3. /\ calls'[last].remembered \subseteq DOMAIN calls'
        /\ calls'[last].ran \/ calls'[last].step \in Waiting =>
              \A m \in calls'[last].remembered : calls'[m].command.id # calls'[last].command.id
      BY <1>3, <1>7, <1>9, <2>1, ZenonT(60)
  <2> QED BY <1>9, <2>2, <2>3, ZenonT(60) DEF RunsMetNoResult
<1>14. AnswersAreRuns'
  <2>1. ASSUME NEW n \in DOMAIN calls, calls[n].step = "answered"
        PROVE  /\ calls[n].reply \in DOMAIN calls /\ calls[calls[n].reply].stored
               /\ calls[calls[n].reply].command = calls[n].command
      BY <1>1, <2>1, ZenonT(60) DEF AnswersAreRuns
  <2>2. ASSUME NEW n \in DOMAIN calls', calls'[n].step = "answered"
        PROVE  /\ calls'[n].reply \in DOMAIN calls' /\ calls'[calls'[n].reply].stored
               /\ calls'[calls'[n].reply].command = calls'[n].command
    <3>1. CASE n = last
        BY <1>4, <1>7, <1>9, <2>2, <3>1, ZenonT(60)
    <3>2. CASE n # last
      <4>1. n \in DOMAIN calls /\ calls'[n] = calls[n]
          BY <1>9, <3>2, ZenonT(60)
      <4>2. /\ calls[n].reply \in DOMAIN calls /\ calls[calls[n].reply].stored
            /\ calls[calls[n].reply].command = calls[n].command
          BY <2>1, <2>2, <4>1, ZenonT(60)
      <4>3. calls'[calls[n].reply] = calls[calls[n].reply] /\ calls[n].reply \in DOMAIN calls'
          BY <1>9, <4>2, ZenonT(60)
      <4> QED BY <4>1, <4>2, <4>3, ZenonT(60)
    <3> QED BY <3>1, <3>2
  <2> QED BY <2>2, ZenonT(60) DEF AnswersAreRuns
<1> QED BY <1>10, <1>11, <1>12, <1>13, <1>14, ZenonT(60) DEF GatewayInv

(* rateLimit, marketplaceRouter and submit up to the first await.          *)
LEMMA ReceiveKeeps ==
    ASSUME GatewayInv, NEW request \in traffic.requests, receive(request)
    PROVE  GatewayInv'
<1> DEFINE key == <<request.address, request.path>>
           routed == marketplaceRouter(request.command, request.authorized)
<1>1. request \in Requests
    BY DEF GatewayInv, GatewayTypeOK, Requests
<1>2. key \in CallKeys /\ request.command \in Commands
    BY <1>1 DEF CallKeys, Commands
<1>3. UNCHANGED <<edgeTime, commands, life, traffic>>
    BY ZenonT(60) DEF receive
<1>4. Arrived(key, request.command, "limited") \/ Arrived(key, request.command, routed)
    BY DEF receive
<1>5. /\ routed \in CallSteps
      /\ routed = "answered" => request.command.id \in DOMAIN commands
                                /\ commands[request.command.id].fingerprint = request.command.fingerprint
      /\ routed \in Waiting => request.command.id \notin DOMAIN commands
    BY DEF marketplaceRouter, submit, Prior, CallSteps, Waiting
<1>6. "limited" \in CallSteps /\ "limited" # "answered" /\ "limited" \notin Waiting
    BY DEF CallSteps, Waiting
<1> HIDE DEF key, routed
<1>7. CASE Arrived(key, request.command, "limited")
    BY <1>2, <1>3, <1>6, <1>7, ArrivalKeeps, ZenonT(60)
<1>8. CASE Arrived(key, request.command, routed)
    BY <1>2, <1>3, <1>5, <1>8, ArrivalKeeps, ZenonT(60)
<1> QED BY <1>4, <1>7, <1>8

(* The answers of verify, validatePolicy and execute that keep no result.  *)
LEMMA PromiseKeeps ==
    ASSUME GatewayInv, NEW n \in DOMAIN calls,
           refused(n) \/ verified(n) \/ policyValidated(n) \/ notExecuted(n)
    PROVE  GatewayInv'
<1>1. calls[n] \in Call /\ GatewayTypeOK
    BY CallFacts DEF GatewayInv
<1>2. calls[n].step \in Waiting /\ UNCHANGED <<edgeTime, commands, life, traffic>>
    BY DEF refused, verified, policyValidated, notExecuted, Waiting
<1>3. ASSUME NEW step \in {"failed", "policy"}, Goes(n, step) PROVE GatewayInv'
  <2> DEFINE new == [calls[n] EXCEPT !.step = step]
  <2>1. calls' = [calls EXCEPT ![n] = new]
      BY <1>3 DEF Goes
  <2>2. /\ new \in Call /\ new.life = calls[n].life /\ new.command = calls[n].command /\ new.step # "answered"
        /\ new.remembered = calls[n].remembered /\ new.stored = calls[n].stored
      BY <1>1, <1>3 DEF Call, CallSteps, Waiting
  <2> HIDE DEF new
  <2> QED BY <1>2, <2>1, <2>2, CallGoesOn, ZenonT(60)
<1>4. ASSUME policyValidated(n) PROVE GatewayInv'
  <2> DEFINE new == [calls[n] EXCEPT !.step = "execute", !.ran = TRUE]
  <2>1. calls' = [calls EXCEPT ![n] = new]
      BY <1>4, ZenonT(60) DEF policyValidated
  <2>2. /\ new \in Call /\ new.life = calls[n].life /\ new.command = calls[n].command /\ new.step # "answered"
        /\ new.remembered = calls[n].remembered /\ new.stored = calls[n].stored
      BY <1>1, ZenonT(60) DEF Call, CallSteps, Waiting
  <2> HIDE DEF new
  <2> QED BY <1>2, <2>1, <2>2, CallGoesOn, ZenonT(60)
<1> QED BY <1>3, <1>4 DEF refused, verified, notExecuted

LEMMA GatewayStepKeeps == GatewayInv /\ [GatewayNext]_edgeVars => GatewayInv'
<1> SUFFICES ASSUME GatewayInv, [GatewayNext]_edgeVars PROVE GatewayInv'
    OBVIOUS
<1>1. CASE edgeTick
  <2>1. UNCHANGED <<commands, calls, life, traffic>> /\ (edgeTime \in Nat => edgeTime' \in Nat)
      BY <1>1 DEF edgeTick
  <2> QED BY <2>1, ZenonT(60) DEF GatewayInv, GatewayTypeOK, ResultsAreRuns, ThisLifeIsKnown, RunsMetNoResult, AnswersAreRuns
<1>2. CASE UNCHANGED edgeVars
  <2>1. UNCHANGED <<edgeTime, commands, calls, life, traffic>>
      BY <1>2 DEF edgeVars
  <2> QED BY <2>1, ZenonT(60) DEF GatewayInv, GatewayTypeOK, ResultsAreRuns, ThisLifeIsKnown, RunsMetNoResult, AnswersAreRuns
<1> QED BY <1>1, <1>2, RestartKeeps, ReceiveKeeps, PromiseKeeps, ExecutedKeeps, ZenonT(60) DEF GatewayNext

(* MarketplaceCommandGateway: in every reachable state the map of results  *)
(* holds runs under their own ids and fingerprints, every result kept in   *)
(* this life of the process is known to it, and a call that runs met no    *)
(* result under its id when it arrived.                                    *)
THEOREM GatewayInvariant == GatewaySpec => []GatewayInv
<1> QED BY GatewayInvInit, GatewayStepKeeps, PTL DEF GatewaySpec

(* submit and result, for any number of calls, restarts and commands: a    *)
(* command id runs again only beside, after a failure of, or in another    *)
(* life than its earlier run, and an answer is the run of exactly the      *)
(* command that was sent.                                                  *)
THEOREM CommandsRunOnce == GatewaySpec => []CommandsRunOnceUnlessOverlapped
<1>1. GatewayInv => CommandsRunOnceUnlessOverlapped
  <2> SUFFICES ASSUME GatewayInv PROVE CommandsRunOnceUnlessOverlapped
      OBVIOUS
  <2>1. GatewayTypeOK /\ ResultsAreRuns /\ ThisLifeIsKnown /\ RunsMetNoResult /\ AnswersAreRuns
      BY ZenonT(60) DEF GatewayInv
  <2>2. \A m, n \in {k \in DOMAIN calls : calls[k].ran} :
            calls[m].command.id = calls[n].command.id => m \notin calls[n].remembered
      BY <2>1, ZenonT(60) DEF RunsMetNoResult
  <2>3. ASSUME NEW n \in DOMAIN calls, calls[n].step = "answered", calls[n].life = life
        PROVE  /\ resultOf(calls[n].command.id) # 0
               /\ calls[resultOf(calls[n].command.id)].command.id = calls[n].command.id
    <3> DEFINE id == calls[n].command.id
    <3>1. id \in DOMAIN commands
        BY <2>1, <2>3, ZenonT(60) DEF ThisLifeIsKnown
    <3>2. commands[id].run \in DOMAIN calls /\ calls[commands[id].run].command.id = id
        BY <2>1, <3>1, ZenonT(60) DEF ResultsAreRuns
    <3>3. commands[id].run # 0
        BY <2>1, <3>2, CallFacts
    <3> QED BY <3>1, <3>2, <3>3, ZenonT(60) DEF resultOf
  <2> QED BY <2>1, <2>2, <2>3, ZenonT(60) DEF CommandsRunOnceUnlessOverlapped, AnswersAreRuns
<1> QED BY <1>1, GatewayInvariant, PTL

-----------------------------------------------------------------------------
(* One-use authorizations: consume of the database.                        *)

Answers == {"pending", "replay", "consumed", "unavailable"}
Working == {"begun", "locked", "absent", "inserted"}
Unbound == [step : {"none", "released"}, answer : Answers]
Bound == [step : Working \cup {"released"}, answer : Answers, authorization : Authorizations]

(* Nobody is answered before the connection is released.                   *)
RepositoryTypeOK ==
    /\ transactions \in [Processes -> Unbound \cup Bound]
    /\ \A p \in Processes : transactions[p].step # "released" => transactions[p].answer = "pending"

(* An uncommitted row shares no unique key with a committed row or with    *)
(* another uncommitted one.                                                *)
UncommittedIsUnique ==
    \A p \in Processes : transactions[p].step = "inserted" =>
        /\ \A row \in capabilities : ~SameCapability(row, transactions[p].authorization)
        /\ \A q \in Processes \ {p} : transactions[q].step = "inserted" =>
              ~SameCapability(transactions[q].authorization, transactions[p].authorization)

RepositoryInv == RepositoryTypeOK /\ UncommittedIsUnique

LEMMA RepositoryInvInit == CapabilityInit => RepositoryInv
    BY DEF CapabilityInit, NoTransaction, RepositoryInv, RepositoryTypeOK, UncommittedIsUnique, Unbound, Answers

LEMMA OneTransactionChanges ==
    ASSUME RepositoryTypeOK, NEW p \in Processes, NEW new \in Unbound \cup Bound,
           transactions' = [transactions EXCEPT ![p] = new], new.step # "released" => new.answer = "pending"
    PROVE  /\ RepositoryTypeOK' /\ transactions'[p] = new
           /\ \A q \in Processes \ {p} : transactions'[q] = transactions[q]
           /\ ConsumeAnswers' = [ConsumeAnswers EXCEPT ![p] = new.answer]
<1>1. /\ transactions' \in [Processes -> Unbound \cup Bound] /\ transactions'[p] = new
      /\ \A q \in Processes \ {p} : transactions'[q] = transactions[q]
    BY DEF RepositoryTypeOK
<1>2. RepositoryTypeOK'
    BY <1>1 DEF RepositoryTypeOK
<1>3. ConsumeAnswers' = [ConsumeAnswers EXCEPT ![p] = new.answer]
    BY <1>1, ZenonT(60) DEF ConsumeAnswers
<1> QED BY <1>1, <1>2, <1>3

LEMMA WorkingIsBound ==
    ASSUME RepositoryTypeOK, NEW p \in Processes, transactions[p].step \in Working
    PROVE  transactions[p] \in Bound /\ transactions[p].answer = "pending"
    BY DEF RepositoryTypeOK, Working, Unbound

(* A transaction goes on, and nobody is answered.                          *)
LEMMA ProceedFacts ==
    ASSUME RepositoryTypeOK, NEW p \in Processes, transactions[p].step \in Working, NEW step \in Working, Proceed(p, step)
    PROVE  /\ RepositoryTypeOK' /\ transactions'[p].step = step
           /\ transactions'[p].authorization = transactions[p].authorization
           /\ \A q \in Processes \ {p} : transactions'[q] = transactions[q]
           /\ ConsumeAnswers' = ConsumeAnswers
<1> DEFINE new == [transactions[p] EXCEPT !.step = step]
<1>1. transactions[p] \in Bound /\ transactions[p].answer = "pending"
    BY WorkingIsBound
<1>2. transactions' = [transactions EXCEPT ![p] = new]
    BY DEF Proceed
<1>3. /\ new \in Bound /\ new.answer = "pending" /\ new.step = step
      /\ new.authorization = transactions[p].authorization
    BY <1>1 DEF Bound
<1> HIDE DEF new
<1>4. /\ RepositoryTypeOK' /\ transactions'[p] = new /\ \A q \in Processes \ {p} : transactions'[q] = transactions[q]
      /\ ConsumeAnswers' = [ConsumeAnswers EXCEPT ![p] = new.answer]
    BY <1>2, <1>3, OneTransactionChanges, ZenonT(60)
<1>5. [ConsumeAnswers EXCEPT ![p] = "pending"] = ConsumeAnswers
    BY <1>1 DEF ConsumeAnswers
<1> QED BY <1>3, <1>4, <1>5

(* A transaction ends with an answer.                                      *)
LEMMA ReleaseFacts ==
    ASSUME RepositoryTypeOK, NEW p \in Processes, transactions[p].step # "released", NEW answer \in Answers, Release(p, answer)
    PROVE  /\ RepositoryTypeOK' /\ transactions'[p].step = "released"
           /\ \A q \in Processes \ {p} : transactions'[q] = transactions[q]
           /\ ConsumeAnswers[p] = "pending" /\ ConsumeAnswers' = [ConsumeAnswers EXCEPT ![p] = answer]
<1> DEFINE new == [transactions[p] EXCEPT !.step = "released", !.answer = answer]
<1>1. transactions[p] \in Unbound \cup Bound /\ transactions[p].answer = "pending"
    BY DEF RepositoryTypeOK
<1>2. transactions' = [transactions EXCEPT ![p] = new]
    BY ZenonT(60) DEF Release
<1>3. new \in Unbound \cup Bound /\ new.answer = answer /\ new.step = "released"
    BY <1>1, ZenonT(60) DEF Unbound, Bound
<1> HIDE DEF new
<1>4. /\ RepositoryTypeOK' /\ transactions'[p] = new /\ \A q \in Processes \ {p} : transactions'[q] = transactions[q]
      /\ ConsumeAnswers' = [ConsumeAnswers EXCEPT ![p] = new.answer]
    BY <1>2, <1>3, OneTransactionChanges, ZenonT(60)
<1>5. ConsumeAnswers[p] = "pending"
    BY <1>1 DEF ConsumeAnswers
<1> QED BY <1>3, <1>4, <1>5

(* No row becomes uncommitted: the uncommitted ones stay unique.           *)
LEMMA NothingInserted ==
    ASSUME UncommittedIsUnique, NEW p \in Processes, transactions'[p].step # "inserted", UNCHANGED capabilities,
           \A q \in Processes \ {p} : transactions'[q] = transactions[q]
    PROVE  UncommittedIsUnique'
<1> SUFFICES ASSUME NEW r \in Processes, transactions'[r].step = "inserted"
             PROVE  /\ \A row \in capabilities : ~SameCapability(row, transactions'[r].authorization)
                    /\ \A q \in Processes \ {r} : transactions'[q].step = "inserted" =>
                          ~SameCapability(transactions'[q].authorization, transactions'[r].authorization)
    BY ZenonT(60) DEF UncommittedIsUnique, SameCapability
<1>1. r \in Processes \ {p} /\ transactions'[r] = transactions[r]
    OBVIOUS
<1>2. \A row \in capabilities : ~SameCapability(row, transactions[r].authorization)
    BY <1>1, ZenonT(60) DEF UncommittedIsUnique
<1>3. ASSUME NEW q \in Processes \ {r}, transactions'[q].step = "inserted"
      PROVE  ~SameCapability(transactions'[q].authorization, transactions'[r].authorization)
  <2>1. transactions'[q] = transactions[q]
      BY <1>3
  <2>2. ~SameCapability(transactions[q].authorization, transactions[r].authorization)
      BY <1>1, <1>3, <2>1, ZenonT(60) DEF UncommittedIsUnique
  <2> QED BY <1>1, <2>1, <2>2 DEF SameCapability
<1> QED BY <1>1, <1>2, <1>3 DEF SameCapability

(* A refusal of the abstract repository.                                   *)
LEMMA RefusalKeeps ==
    ASSUME RepositoryInv, NEW p \in Processes, transactions[p].step # "released",
           NEW answer \in {"replay", "unavailable"}, Release(p, answer), UNCHANGED capabilities
    PROVE  RepositoryInv' /\ OneUse!Refuse(p)
<1>1. answer \in Answers /\ RepositoryTypeOK /\ UncommittedIsUnique
    BY DEF Answers, RepositoryInv
<1>2. /\ RepositoryTypeOK' /\ transactions'[p].step = "released"
      /\ \A q \in Processes \ {p} : transactions'[q] = transactions[q]
      /\ ConsumeAnswers[p] = "pending" /\ ConsumeAnswers' = [ConsumeAnswers EXCEPT ![p] = answer]
    BY <1>1, ReleaseFacts
<1>3. UncommittedIsUnique'
    BY <1>1, <1>2, NothingInserted
<1>4. OneUse!Refuse(p)
    BY <1>2, ZenonT(60) DEF OneUse!Refuse
<1> QED BY <1>2, <1>3, <1>4 DEF RepositoryInv

(* An INSERT that finds no row with one of its keys.                       *)
LEMMA InsertKeeps ==
    ASSUME RepositoryInv, NEW p \in Processes, AtStep(p, "absent"), RowHolders(p) = {}, Proceed(p, "inserted"),
           ~\E row \in capabilities : SameCapability(row, transactions[p].authorization), UNCHANGED capabilities
    PROVE  RepositoryInv' /\ ConsumeAnswers' = ConsumeAnswers
<1> DEFINE mine == transactions[p].authorization
<1>1. transactions[p].step \in Working /\ "inserted" \in Working /\ RepositoryTypeOK /\ UncommittedIsUnique
    BY DEF AtStep, Working, RepositoryInv
<1>2. /\ RepositoryTypeOK' /\ transactions'[p].step = "inserted" /\ transactions'[p].authorization = mine
      /\ \A q \in Processes \ {p} : transactions'[q] = transactions[q]
      /\ ConsumeAnswers' = ConsumeAnswers
    BY <1>1, ProceedFacts
<1>3. ASSUME NEW q \in Processes \ {p}, transactions[q].step = "inserted"
      PROVE  /\ ~SameCapability(transactions[q].authorization, mine)
             /\ ~SameCapability(mine, transactions[q].authorization)
    BY <1>3 DEF RowHolders, AtStep, SameCapability
<1> HIDE DEF mine
<1>4. \A row \in capabilities : ~SameCapability(row, mine)
    BY DEF mine
<1>5. ASSUME NEW r \in Processes, transactions'[r].step = "inserted"
      PROVE  /\ \A row \in capabilities : ~SameCapability(row, transactions'[r].authorization)
             /\ \A q \in Processes \ {r} : transactions'[q].step = "inserted" =>
                   ~SameCapability(transactions'[q].authorization, transactions'[r].authorization)
  <2>1. CASE r = p
      BY <1>2, <1>3, <1>4, <2>1, ZenonT(60)
  <2>2. CASE r # p
    <3>1. transactions'[r] = transactions[r] /\ transactions[r].step = "inserted"
        BY <1>2, <1>5, <2>2
    <3>2. /\ \A row \in capabilities : ~SameCapability(row, transactions[r].authorization)
          /\ \A q \in Processes \ {r} : transactions[q].step = "inserted" =>
                ~SameCapability(transactions[q].authorization, transactions[r].authorization)
        BY <1>1, <3>1, ZenonT(60) DEF UncommittedIsUnique
    <3>3. ~SameCapability(mine, transactions[r].authorization)
        BY <1>3, <2>2, <3>1
    <3>4. ASSUME NEW q \in Processes \ {r}, transactions'[q].step = "inserted"
          PROVE  ~SameCapability(transactions'[q].authorization, transactions'[r].authorization)
      <4>1. CASE q = p
          BY <1>2, <3>1, <3>3, <4>1, ZenonT(60)
      <4>2. CASE q # p
        <5>1. transactions'[q] = transactions[q]
            BY <1>2, <4>2
        <5> QED BY <3>1, <3>2, <3>4, <5>1, ZenonT(60)
      <4> QED BY <4>1, <4>2
    <3> QED BY <3>1, <3>2, <3>4, ZenonT(60)
  <2> QED BY <2>1, <2>2
<1>6. UncommittedIsUnique'
    BY <1>5 DEF UncommittedIsUnique, SameCapability
<1> QED BY <1>2, <1>6 DEF RepositoryInv

(* COMMIT consumes an authorization nobody has consumed.                   *)
LEMMA CommitKeeps ==
    ASSUME RepositoryInv, NEW p \in Processes, commit(p)
    PROVE  RepositoryInv' /\ \E authorization \in Authorizations : OneUse!Consume(p, authorization)
<1> DEFINE mine == transactions[p].authorization
<1>1. transactions[p].step = "inserted" /\ transactions[p].step \in Working /\ RepositoryTypeOK /\ UncommittedIsUnique
    BY DEF commit, AtStep, Working, RepositoryInv
<1>2. mine \in Authorizations
    BY <1>1, WorkingIsBound DEF Bound
<1>3. PICK answer \in {"consumed", "unavailable"} : Release(p, answer)
    BY DEF commit
<1>4. capabilities' = capabilities \cup {mine}
    BY DEF commit
<1>5. /\ RepositoryTypeOK' /\ transactions'[p].step = "released"
      /\ \A q \in Processes \ {p} : transactions'[q] = transactions[q]
      /\ ConsumeAnswers[p] = "pending" /\ ConsumeAnswers' = [ConsumeAnswers EXCEPT ![p] = answer]
  <2>1. answer \in Answers /\ transactions[p].step # "released"
      BY <1>1 DEF Answers
  <2> QED BY <1>1, <1>3, <2>1, ReleaseFacts
<1>6. \A row \in capabilities : ~SameCapability(row, mine)
    BY <1>1, ZenonT(60) DEF UncommittedIsUnique
<1>7. OneUse!Unused(mine, capabilities)
    BY <1>6 DEF OneUse!Unused, SameCapability
<1>8. OneUse!Consume(p, mine)
    BY <1>4, <1>5, <1>7, ZenonT(60) DEF OneUse!Consume
<1>9. ASSUME NEW r \in Processes, transactions'[r].step = "inserted"
      PROVE  /\ \A row \in capabilities' : ~SameCapability(row, transactions'[r].authorization)
             /\ \A q \in Processes \ {r} : transactions'[q].step = "inserted" =>
                   ~SameCapability(transactions'[q].authorization, transactions'[r].authorization)
  <2>1. r \in Processes \ {p} /\ transactions'[r] = transactions[r] /\ p \in Processes \ {r}
      BY <1>5, <1>9
  <2>2. /\ \A row \in capabilities : ~SameCapability(row, transactions[r].authorization)
        /\ \A q \in Processes \ {r} : transactions[q].step = "inserted" =>
              ~SameCapability(transactions[q].authorization, transactions[r].authorization)
      BY <1>1, <1>9, <2>1, ZenonT(60) DEF UncommittedIsUnique
  <2>3. ~SameCapability(mine, transactions[r].authorization)
      BY <1>1, <2>1, <2>2, ZenonT(60)
  <2>4. ASSUME NEW q \in Processes \ {r}, transactions'[q].step = "inserted"
        PROVE  ~SameCapability(transactions'[q].authorization, transactions'[r].authorization)
    <3>1. transactions'[q] = transactions[q]
        BY <1>5, <2>4
    <3> QED BY <2>1, <2>2, <2>4, <3>1, ZenonT(60)
  <2>5. \A row \in capabilities \cup {mine} : ~SameCapability(row, transactions[r].authorization)
      BY <2>2, <2>3, ZenonT(60)
  <2> QED BY <1>4, <2>1, <2>4, <2>5, ZenonT(60)
<1>10. UncommittedIsUnique'
    BY <1>9 DEF UncommittedIsUnique, SameCapability
<1> QED BY <1>2, <1>5, <1>8, <1>10 DEF RepositoryInv

(* Every step is a step of the promise, or none.                           *)
LEMMA RepositoryStep ==
    ASSUME RepositoryInv, [CapabilityNext]_repositoryVars
    PROVE  RepositoryInv' /\ [OneUse!OneUseNext]_<<capabilities, ConsumeAnswers>>
<1>1. RepositoryTypeOK /\ UncommittedIsUnique
    BY DEF RepositoryInv
<1>2. CASE UNCHANGED repositoryVars
  <2>1. UNCHANGED <<capabilities, transactions>>
      BY <1>2 DEF repositoryVars
  <2>2. RepositoryInv'
      BY <2>1 DEF RepositoryInv, RepositoryTypeOK, UncommittedIsUnique, SameCapability
  <2>3. ConsumeAnswers' = ConsumeAnswers
      BY <2>1 DEF ConsumeAnswers
  <2> QED BY <2>1, <2>2, <2>3
<1>3. ASSUME NEW p \in Processes, NEW authorization \in Authorizations, consume(p, authorization)
      PROVE  RepositoryInv' /\ UNCHANGED <<capabilities, ConsumeAnswers>>
  <2> DEFINE new == [step |-> "begun", answer |-> "pending", authorization |-> authorization]
  <2>1. /\ transactions[p].step = "none" /\ transactions' = [transactions EXCEPT ![p] = new] /\ UNCHANGED capabilities
      BY <1>3 DEF consume, AtStep
  <2>2. new \in Bound /\ new.step = "begun" /\ new.answer = "pending"
      BY DEF Bound, Working, Answers
  <2> HIDE DEF new
  <2>3. /\ RepositoryTypeOK' /\ transactions'[p] = new /\ \A q \in Processes \ {p} : transactions'[q] = transactions[q]
        /\ ConsumeAnswers' = [ConsumeAnswers EXCEPT ![p] = new.answer]
      BY <1>1, <2>1, <2>2, OneTransactionChanges, ZenonT(60)
  <2>4. transactions[p].answer = "pending"
      BY <1>1, <2>1 DEF RepositoryTypeOK
  <2>5. [ConsumeAnswers EXCEPT ![p] = "pending"] = ConsumeAnswers
      BY <2>4 DEF ConsumeAnswers
  <2>6. UncommittedIsUnique'
      BY <1>1, <2>1, <2>2, <2>3, NothingInserted
  <2> QED BY <2>1, <2>2, <2>3, <2>5, <2>6 DEF RepositoryInv
<1>4. ASSUME NEW p \in Processes, NEW step \in {"locked", "absent"}, transactions[p].step \in Working,
             Proceed(p, step), UNCHANGED capabilities
      PROVE  RepositoryInv' /\ UNCHANGED <<capabilities, ConsumeAnswers>>
  <2>1. step \in Working /\ step # "inserted"
      BY DEF Working
  <2>2. /\ RepositoryTypeOK' /\ transactions'[p].step = step
        /\ \A q \in Processes \ {p} : transactions'[q] = transactions[q]
        /\ ConsumeAnswers' = ConsumeAnswers
      BY <1>1, <1>4, <2>1, ProceedFacts
  <2>3. UncommittedIsUnique'
      BY <1>1, <1>4, <2>1, <2>2, NothingInserted
  <2> QED BY <1>4, <2>2, <2>3 DEF RepositoryInv
<1>5. ASSUME NEW p \in Processes, connectFails(p) \/ rollback(p)
      PROVE  RepositoryInv' /\ OneUse!Refuse(p)
  <2>1. transactions[p].step # "released" /\ Release(p, "unavailable") /\ UNCHANGED capabilities
      BY <1>5 DEF connectFails, rollback, AtStep
  <2> QED BY <2>1, RefusalKeeps
<1>6. ASSUME NEW p \in Processes, lockNonceScope(p)
      PROVE  RepositoryInv' /\ UNCHANGED <<capabilities, ConsumeAnswers>>
  <2>1. transactions[p].step \in Working /\ Proceed(p, "locked") /\ UNCHANGED capabilities
      BY <1>6 DEF lockNonceScope, AtStep, Working
  <2> QED BY <1>4, <2>1
<1>7. ASSUME NEW p \in Processes, selectExisting(p)
      PROVE  RepositoryInv' /\ (OneUse!Refuse(p) \/ UNCHANGED <<capabilities, ConsumeAnswers>>)
  <2>1. transactions[p].step \in Working /\ transactions[p].step # "released" /\ UNCHANGED capabilities
      BY <1>7 DEF selectExisting, AtStep, Working
  <2>2. Release(p, "replay") \/ Proceed(p, "absent")
      BY <1>7 DEF selectExisting
  <2> QED BY <1>4, <2>1, <2>2, RefusalKeeps
<1>8. ASSUME NEW p \in Processes, insertCapability(p)
      PROVE  RepositoryInv' /\ (OneUse!Refuse(p) \/ UNCHANGED <<capabilities, ConsumeAnswers>>)
  <2>1. AtStep(p, "absent") /\ RowHolders(p) = {} /\ UNCHANGED capabilities
      BY <1>8, ZenonT(60) DEF insertCapability
  <2>2. CASE \E row \in capabilities : SameCapability(row, transactions[p].authorization)
    <3>1. Release(p, "replay") /\ transactions[p].step # "released"
        BY <1>8, <2>1, <2>2 DEF insertCapability, AtStep
    <3> QED BY <2>1, <3>1, RefusalKeeps
  <2>3. CASE ~\E row \in capabilities : SameCapability(row, transactions[p].authorization)
    <3>1. Proceed(p, "inserted")
        BY <1>8, <2>3, ZenonT(60) DEF insertCapability
    <3> QED BY <2>1, <2>3, <3>1, InsertKeeps, ZenonT(60)
  <2> QED BY <2>2, <2>3
<1>9. CASE CapabilityNext
  <2>1. PICK p \in Processes :
            \/ \E authorization \in Authorizations : consume(p, authorization)
            \/ connectFails(p) \/ lockNonceScope(p) \/ selectExisting(p)
            \/ insertCapability(p) \/ commit(p) \/ rollback(p)
      BY <1>9, ZenonT(60) DEF CapabilityNext
  <2>2. /\ RepositoryInv'
        /\ \/ \E authorization \in Authorizations : OneUse!Consume(p, authorization)
           \/ OneUse!Refuse(p)
           \/ UNCHANGED <<capabilities, ConsumeAnswers>>
      BY <1>3, <1>5, <1>6, <1>7, <1>8, <2>1, CommitKeeps, ZenonT(60)
  <2> QED BY <2>2, ZenonT(60) DEF OneUse!OneUseNext
<1> QED BY <1>2, <1>9

(* PostgresKeyOperationAuthorizationRepository.consume, for any number of  *)
(* processes and authorizations: locks, SELECT, INSERT and COMMIT, with    *)
(* whatever other transactions and failures in between, amount to one      *)
(* atomic step that takes an unused authorization, or a refusal.           *)
THEOREM DatabaseImplementsOneUse == CapabilitySpec => ImplementsOneUse
<1>1. CapabilityInit => OneUse!OneUseInit
    BY DEF CapabilityInit, NoTransaction, OneUse!OneUseInit, ConsumeAnswers
<1>2. RepositoryInv /\ [CapabilityNext]_repositoryVars =>
          RepositoryInv' /\ [OneUse!OneUseNext]_<<capabilities, ConsumeAnswers>>
    BY RepositoryStep
<1> QED BY <1>1, <1>2, RepositoryInvInit, PTL DEF CapabilitySpec, ImplementsOneUse, OneUse!OneUseSpec

-----------------------------------------------------------------------------
(* The object stores.                                                      *)

StoreAnswers == {"pending", "created", "exists", "removed", "missing", "failed"}
StoresTypeOK == answers \in [Calls -> StoreAnswers]

LEMMA StoreCallFails ==
    ASSUME StoresTypeOK, NEW c \in Calls, answers[c] = "pending", Answer(c, "failed"), UNCHANGED object
    PROVE  Interface!Break
    BY DEF StoresTypeOK, Answer, Interface!Break, StoreAnswers, Calls

(* Each step of a put is a step of the interface, or none.                 *)
LEMMA PutStep ==
    ASSUME StoresTypeOK, NEW c \in Puts,
           \/ memoryLook(c) \/ memorySet(c)
           \/ filesystemHead(c) \/ filesystemWrite(c) \/ filesystemLink(c) \/ filesystemStat(c)
           \/ s3Put(c) \/ s3Head(c)
    PROVE  Interface!Create(c) \/ Interface!Exists(c) \/ Interface!Break \/ UNCHANGED <<object, answers>>
<1>1. CASE memoryLook(c) \/ filesystemHead(c)
    BY <1>1 DEF memoryLook, filesystemHead, head, At, Go, Answer, Interface!Exists, Interface!Answer
<1>2. CASE memorySet(c)
    BY <1>2 DEF memorySet, At, Answer, Interface!Create, Interface!Exists, Interface!Answer
<1>3. CASE filesystemWrite(c) \/ filesystemLink(c)
    BY <1>3 DEF filesystemWrite, filesystemLink, At, Go, Answer, Interface!Create, Interface!Answer
<1>4. CASE filesystemStat(c) \/ s3Head(c)
  <2>1. answers[c] = "pending" /\ UNCHANGED object /\ c \in Calls
      BY <1>4 DEF filesystemStat, s3Head, At, Calls
  <2>2. Answer(c, "failed") \/ (object # "absent" /\ Answer(c, "exists"))
      BY <1>4 DEF filesystemStat, s3Head
  <2>3. CASE Answer(c, "failed")
      BY <2>1, <2>3, StoreCallFails
  <2>4. CASE object # "absent" /\ Answer(c, "exists")
      BY <2>1, <2>4 DEF Answer, Interface!Exists, Interface!Answer
  <2> QED BY <2>2, <2>3, <2>4
<1>5. CASE s3Put(c)
    BY <1>5 DEF s3Put, At, Go, Answer, Interface!Create, Interface!Answer
<1> QED BY <1>1, <1>2, <1>3, <1>4, <1>5

LEMMA DeleteStep ==
    ASSUME StoresTypeOK, NEW c \in Deletes, memoryDelete(c) \/ filesystemUnlink(c) \/ s3DeleteHead(c) \/ s3Delete(c)
    PROVE  Interface!Remove(c) \/ Interface!Missing(c) \/ UNCHANGED <<object, answers>>
    BY DEF memoryDelete, filesystemUnlink, s3DeleteHead, s3Delete, At, Go, Answer,
           Interface!Remove, Interface!Missing, Interface!Answer

LEMMA StoresTypeStep == StoresTypeOK /\ [StoresNext]_storeVars => StoresTypeOK'
<1> SUFFICES ASSUME StoresTypeOK, [StoresNext]_storeVars PROVE StoresTypeOK'
    OBVIOUS
<1>1. ASSUME NEW c \in Calls, NEW answer \in StoreAnswers, Answer(c, answer) PROVE StoresTypeOK'
    BY <1>1 DEF Answer, StoresTypeOK
<1>2. ASSUME UNCHANGED answers PROVE StoresTypeOK'
    BY <1>2 DEF StoresTypeOK
<1>3. ASSUME filesystemCrash PROVE StoresTypeOK'
    BY <1>3 DEF filesystemCrash, StoresTypeOK, StoreAnswers
<1>4. \/ UNCHANGED answers \/ filesystemCrash
      \/ \E c \in Calls : \E answer \in StoreAnswers : Answer(c, answer)
  <2>1. ASSUME NEW c \in Puts,
               \/ memoryLook(c) \/ memorySet(c)
               \/ filesystemHead(c) \/ filesystemWrite(c) \/ filesystemLink(c) \/ filesystemStat(c)
               \/ s3Put(c) \/ s3Head(c)
        PROVE  UNCHANGED answers \/ \E answer \in StoreAnswers : Answer(c, answer)
      BY <2>1 DEF memoryLook, memorySet, filesystemHead, filesystemWrite, filesystemLink, filesystemStat,
                  s3Put, s3Head, head, Go, StoreAnswers
  <2>2. ASSUME NEW c \in Deletes, memoryDelete(c) \/ filesystemUnlink(c) \/ s3DeleteHead(c) \/ s3Delete(c)
        PROVE  UNCHANGED answers \/ \E answer \in StoreAnswers : Answer(c, answer)
      BY <2>2 DEF memoryDelete, filesystemUnlink, s3DeleteHead, s3Delete, Go, StoreAnswers
  <2>3. ASSUME NEW c \in Calls, failed(c) PROVE \E answer \in StoreAnswers : Answer(c, answer)
      BY <2>3 DEF failed, StoreAnswers
  <2>4. ASSUME NEW kind, open(kind) PROVE UNCHANGED answers
      BY <2>4 DEF open
  <2>5. UNCHANGED storeVars => UNCHANGED answers
      BY DEF storeVars
  <2>6. Puts \subseteq Calls /\ Deletes \subseteq Calls
      BY DEF Calls
  <2> QED BY <2>1, <2>2, <2>3, <2>4, <2>5, <2>6, ZenonT(60) DEF StoresNext
<1> QED BY <1>1, <1>2, <1>3, <1>4

LEMMA StoresStep ==
    ASSUME StoresTypeOK, [StoresNext]_storeVars
    PROVE  [Interface!StoreNext]_<<object, answers>>
<1>1. CASE UNCHANGED storeVars
    BY <1>1 DEF storeVars
<1>2. CASE \E kind \in {"memory", "filesystem", "s3"} : open(kind)
    BY <1>2 DEF open
<1>3. ASSUME NEW c \in Calls, failed(c) PROVE Interface!Break
  <2>1. answers[c] = "pending" /\ Answer(c, "failed") /\ UNCHANGED object
      BY <1>3 DEF failed
  <2> QED BY <2>1, StoreCallFails
<1>4. ASSUME filesystemCrash PROVE Interface!Break
    BY <1>4 DEF filesystemCrash, StoresTypeOK, StoreAnswers, Calls, Interface!Break
<1> QED BY <1>1, <1>2, <1>3, <1>4, PutStep, DeleteStep, ZenonT(60) DEF StoresNext, Interface!StoreNext

(* putIfAbsent and delete of the memory, filesystem and S3 stores, for any *)
(* number of calls: however they interleave, fail, crash or are sent       *)
(* again, an object is written whole or not at all and is never replaced,  *)
(* as the interface OpaqueObjectStore promises.                            *)
THEOREM StoresImplementInterface == StoresSpec => EveryStoreIsAtomic
<1>1. StoresInit => StoresTypeOK /\ Interface!StoreInit
    BY DEF StoresInit, StoresTypeOK, StoreAnswers, Calls, Interface!StoreInit
<1>2. StoresTypeOK /\ [StoresNext]_storeVars => [Interface!StoreNext]_<<object, answers>>
    BY StoresStep
<1> QED BY <1>1, <1>2, StoresTypeStep, PTL DEF StoresSpec, EveryStoreIsAtomic, Interface!StoreSpec

=============================================================================
