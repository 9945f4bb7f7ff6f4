--------------------------- MODULE WalletSessions ---------------------------
(***************************************************************************)
(* Wallet sessions (assistant/session.ts): a challenge is issued, answered *)
(* with a signature and exchanged for a session with a bearer token.       *)
(* verify awaits the credential and then the signature; other requests run *)
(* in between.  A token stands for its digest, and tokens and challenge    *)
(* identifiers are random in the code, fresh numbers here.                 *)
(***************************************************************************)
EXTENDS Naturals, Sequences, FiniteSets

CONSTANTS Identities,               \* who asks for challenges
          Verifications,            \* the calls of verify in progress
          ChallengeLifetime, SessionLifetime, MaxChallenges, MaxSessions,
          ClockBound, IssueBound    \* bounds: the clock, and the challenges issued

ASSUME LimitsArePositive == {ChallengeLifetime, SessionLifetime, MaxChallenges, MaxSessions} \subseteq Nat \ {0}

VARIABLES now, issued,
          challenges,    \* challenge id -> [actor, expiresAt]
          sessions,      \* token -> [actor, challenge, issuedAt, expiresAt]
          verification,  \* where each call of verify stands
          opened         \* every session ever opened, in order; a session's token is its place here

sessionVars == <<now, issued, challenges, sessions, verification, opened>>

Idle == [phase |-> "idle", challenge |-> 0, actor |-> "none", expiresAt |-> 0]

SessionsInit ==
  /\ now = 0 /\ issued = 0
  /\ challenges = <<>> /\ sessions = <<>> /\ opened = <<>>
  /\ verification = [v \in Verifications |-> Idle]

Unexpired(table) == {k \in DOMAIN table : table[k].expiresAt > now}

Only(table, keys) == [k \in keys |-> table[k]]

\* #removeExpired: the tables without what has expired, but with the session that is being required.
removeExpired(retained) ==
  [challenges |-> Only(challenges, Unexpired(challenges)),
   sessions   |-> Only(sessions, Unexpired(sessions) \cup (retained \cap DOMAIN sessions))]

challenge(actor) ==
  LET kept == removeExpired({})
  IN  /\ sessions' = kept.sessions
      /\ IF Cardinality(DOMAIN kept.challenges) >= MaxChallenges
         THEN challenges' = kept.challenges /\ UNCHANGED issued
         ELSE /\ issued < IssueBound
              /\ issued' = issued + 1
              /\ challenges' = [id \in DOMAIN kept.challenges \cup {issued + 1} |->
                                  IF id = issued + 1 THEN [actor |-> actor, expiresAt |-> now + ChallengeLifetime]
                                  ELSE kept.challenges[id]]
      /\ UNCHANGED <<now, verification, opened>>

\* A challenge is taken whatever becomes of the verification.
takenChallenge(id) == Only(challenges, DOMAIN challenges \ {id})

\* The first part of verify: the challenge is taken before anything else is looked at.
beginVerify(v, id) ==
  LET taken == takenChallenge(id)
  IN  /\ verification[v].phase = "idle" /\ id \in DOMAIN challenges
      /\ challenges' = Only(taken, {k \in DOMAIN taken : taken[k].expiresAt > now})
      /\ sessions' = removeExpired({}).sessions
      /\ verification' =
           [verification EXCEPT ![v] =
              IF challenges[id].expiresAt <= now THEN Idle
              ELSE [phase |-> "credential", challenge |-> id, actor |-> challenges[id].actor,
                    expiresAt |-> challenges[id].expiresAt]]
      /\ UNCHANGED <<now, issued, opened>>

\* The answer about the credential; a refusal ends the call.
credentialIsCurrent(v) ==
  /\ verification[v].phase = "credential"
  /\ \E current \in BOOLEAN :
       verification' = [verification EXCEPT ![v] = IF current THEN [@ EXCEPT !.phase = "signature"] ELSE Idle]
  /\ UNCHANGED <<now, issued, challenges, sessions, opened>>

\* The answer about the signature, and the rest of verify.
finishVerify(v) ==
  LET c    == verification[v]
      kept == removeExpired({})
      token == Len(opened) + 1
      session == [actor |-> c.actor, challenge |-> c.challenge, deadline |-> c.expiresAt, issuedAt |-> now,
                  expiresAt |-> now + SessionLifetime]
  IN  /\ c.phase = "signature"
      /\ verification' = [verification EXCEPT ![v] = Idle]
      /\ \E signed \in BOOLEAN :
           IF ~ signed \/ c.expiresAt <= now THEN UNCHANGED <<challenges, sessions, opened>>
           ELSE /\ challenges' = kept.challenges
                /\ IF Cardinality(DOMAIN kept.sessions) >= MaxSessions
                   THEN sessions' = kept.sessions /\ UNCHANGED opened
                   ELSE /\ opened' = Append(opened, session)
                        /\ sessions' = [t \in DOMAIN kept.sessions \cup {token} |->
                                          IF t = token THEN session ELSE kept.sessions[t]]
      /\ UNCHANGED <<now, issued>>

\* A session that has expired and was not yet removed is admitted.
Mutant_Admitted(token) == token \in DOMAIN sessions

\* require: an expired session is refused, and forgotten.
Admitted(token) == token \in DOMAIN sessions /\ sessions[token].expiresAt > now

require(token) ==
  /\ IF token \notin DOMAIN sessions THEN UNCHANGED <<challenges, sessions>>
     ELSE LET kept == removeExpired({token})
          IN  /\ challenges' = kept.challenges
              /\ sessions' = IF Admitted(token) THEN kept.sessions
                             ELSE Only(kept.sessions, DOMAIN kept.sessions \ {token})
  /\ UNCHANGED <<now, issued, verification, opened>>

logout(token) ==
  LET kept == removeExpired({})
  IN  /\ token \in DOMAIN sessions
      /\ challenges' = kept.challenges
      /\ sessions' = Only(kept.sessions, DOMAIN kept.sessions \ {token})
      /\ UNCHANGED <<now, issued, verification, opened>>

Tick == now < ClockBound /\ now' = now + 1 /\ UNCHANGED <<issued, challenges, sessions, verification, opened>>

SessionsNext ==
  \/ \E actor \in Identities : challenge(actor)
  \/ \E v \in Verifications, id \in 1..IssueBound : beginVerify(v, id)
  \/ \E v \in Verifications : credentialIsCurrent(v) \/ finishVerify(v)
  \/ \E token \in 1..Len(opened) : logout(token)
  \/ Tick

(***************************************************************************)
(* Properties.                                                             *)
(***************************************************************************)

\* One challenge opens at most one session, before the challenge has expired, however
\* the awaits of two verifications interleave; neither table outgrows its capacity (verify, challenge).
OneSessionPerChallenge ==
  /\ \A i, j \in DOMAIN opened : opened[i].challenge = opened[j].challenge => i = j
  /\ \A i \in DOMAIN opened : opened[i].issuedAt < opened[i].deadline
  /\ Cardinality(DOMAIN sessions) <= MaxSessions /\ Cardinality(DOMAIN challenges) <= MaxChallenges
=============================================================================
