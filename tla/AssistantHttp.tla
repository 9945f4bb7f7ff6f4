---------------------------- MODULE AssistantHttp ----------------------------
(***************************************************************************)
(* The assistant behind its routes (assistant/http.ts, interface/http.ts): *)
(* a query is admitted with a session's token, or asked for the runtime's  *)
(* own session by the research page, and answered by the service.          *)
(***************************************************************************)
EXTENDS GovernedAssistant, WalletSessions

CONSTANTS Queries,     \* the queries that are posted with a token
          PageQueries, \* the ones the research page asks
          PageActor    \* the actor of the runtime's own session

vars == <<shelf, call, idempotentAnswers, audit, requests, now, issued, challenges, sessions, verification, opened>>

Init == AssistantInit /\ SessionsInit

\* POST query/assistant: the session is required, then the service answers.
query(c, token, q) ==
  /\ call[c].phase = "idle"
  /\ require(token)
  /\ IF Admitted(token)
     THEN answer(c, q, [actor |-> sessions[token].actor, token |-> token, admittedAt |-> now])
     ELSE call' = [call EXCEPT ![c].phase = "denied"] /\ UNCHANGED <<shelf, idempotentAnswers, audit, requests>>

\* runAssistant: the page's question as of now, with the session the runtime was created with.
runAssistant(c, q) ==
  /\ answer(c, [q EXCEPT !.asOf = now], [actor |-> PageActor, token |-> 0, admittedAt |-> now])
  /\ UNCHANGED sessionVars

Next ==
  \/ \E c \in Calls, token \in 1..IssueBound, q \in Queries : query(c, token, q)
  \/ \E c \in Calls, q \in PageQueries : runAssistant(c, q)
  \/ AssistantNext /\ UNCHANGED sessionVars
  \/ SessionsNext /\ UNCHANGED assistantVars

Spec == Init /\ [][Next]_vars

\* Every event of the ledger for a posted query names a session that a verified challenge opened, the only one it
\* opened, for its actor, and that had not expired when the query was admitted, however long the answer takes
\* (query, require).
AnswersAreAuthenticated ==
  /\ OneSessionPerChallenge
  /\ \A i \in DOMAIN audit :
    LET s == audit[i].session
    IN  s.token # 0 => /\ s.token \in DOMAIN opened /\ opened[s.token].actor = s.actor
                       /\ opened[s.token].issuedAt <= s.admittedAt /\ s.admittedAt < opened[s.token].expiresAt
=============================================================================
