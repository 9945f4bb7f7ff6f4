-------------------------- MODULE AssistantProofs --------------------------
(***************************************************************************)
(* Proofs about the assistant behind its routes: the sessions its answers  *)
(* name, the answers that retries share, and the events and the requests   *)
(* that back every answer.                                                 *)
(***************************************************************************)
EXTENDS AssistantHttp, FiniteSetTheorems, TLAPS

(***************************************************************************)
(* The sessions.                                                           *)
(***************************************************************************)

SessionActors == Identities \cup {"none"}

SessionRecord == [actor : SessionActors, challenge : Nat, deadline : Nat, issuedAt : Nat, expiresAt : Nat]

SessionsTypeOK ==
  /\ now \in Nat /\ issued \in Nat
  /\ DOMAIN challenges \subseteq 1..issued
  /\ \A id \in DOMAIN challenges : challenges[id] \in [actor : Identities, expiresAt : Nat]
  /\ opened \in Seq(SessionRecord)
  /\ DOMAIN sessions \subseteq DOMAIN opened /\ \A t \in DOMAIN sessions : sessions[t] = opened[t]
  /\ verification \in [Verifications -> [phase : {"idle", "credential", "signature"}, challenge : Nat, actor : SessionActors,
                                         expiresAt : Nat]]

(* A challenge that was issued is in the table, or with one verification,  *)
(* or has opened its session, or is gone.                                  *)
ChallengesAreTakenOnce ==
  /\ \A v \in Verifications : verification[v].phase # "idle" =>
       verification[v].challenge \in 1..issued /\ verification[v].challenge \notin DOMAIN challenges
  /\ \A v, w \in Verifications :
       verification[v].phase # "idle" /\ verification[w].phase # "idle"
         => (verification[v].challenge = verification[w].challenge => v = w)
  /\ \A i \in DOMAIN opened : opened[i].challenge \in 1..issued /\ opened[i].challenge \notin DOMAIN challenges
  /\ \A i \in DOMAIN opened, v \in Verifications :
       verification[v].phase # "idle" => opened[i].challenge # verification[v].challenge

SessionsInv ==
  /\ SessionsTypeOK /\ ChallengesAreTakenOnce /\ OneSessionPerChallenge
  /\ \A i \in DOMAIN opened : opened[i].issuedAt <= now

(* The tables lose entries and nothing else.                               *)
TablesShrink ==
  /\ DOMAIN challenges' \subseteq DOMAIN challenges /\ \A id \in DOMAIN challenges' : challenges'[id] = challenges[id]
  /\ DOMAIN sessions' \subseteq DOMAIN sessions /\ \A t \in DOMAIN sessions' : sessions'[t] = sessions[t]

(* The sessions ever opened stay what they are.                            *)
OpenedGrows == DOMAIN opened \subseteq DOMAIN opened' /\ \A i \in DOMAIN opened : opened'[i] = opened[i]

(* The domains of the tables are finite.                                   *)
LEMMA TablesAreFinite ==
  ASSUME SessionsTypeOK
  PROVE  IsFiniteSet(DOMAIN challenges) /\ IsFiniteSet(DOMAIN sessions)
<1>1. IsFiniteSet(1..issued)
    BY FS_Interval DEF SessionsTypeOK
<1>2. DOMAIN opened = 1..Len(opened) /\ Len(opened) \in Nat
    BY DEF SessionsTypeOK
<1>3. IsFiniteSet(DOMAIN opened)
    BY <1>2, FS_Interval
<1> QED BY <1>1, <1>3, FS_Subset DEF SessionsTypeOK

(* A step that only removes entries keeps the invariant.                   *)
LEMMA ShrinkingKeepsSessions ==
  ASSUME SessionsInv, TablesShrink, UNCHANGED <<issued, verification, opened>>, now' \in Nat, now <= now'
  PROVE  SessionsInv' /\ OpenedGrows
<1>1. SessionsTypeOK'
    BY SMT DEF SessionsInv, SessionsTypeOK, TablesShrink
<1>2. ChallengesAreTakenOnce'
    BY DEF SessionsInv, ChallengesAreTakenOnce, TablesShrink
<1>3. Cardinality(DOMAIN sessions') <= MaxSessions /\ Cardinality(DOMAIN challenges') <= MaxChallenges
  <2>1. /\ Cardinality(DOMAIN sessions') <= Cardinality(DOMAIN sessions)
        /\ Cardinality(DOMAIN challenges') <= Cardinality(DOMAIN challenges)
      BY TablesAreFinite, FS_Subset DEF SessionsInv, TablesShrink
  <2>2. /\ Cardinality(DOMAIN sessions') \in Nat /\ Cardinality(DOMAIN sessions) \in Nat
        /\ Cardinality(DOMAIN challenges') \in Nat /\ Cardinality(DOMAIN challenges) \in Nat
      BY TablesAreFinite, FS_Subset, FS_CardinalityType DEF SessionsInv, TablesShrink
  <2> QED BY <2>1, <2>2, LimitsArePositive DEF SessionsInv, OneSessionPerChallenge
<1>4. OneSessionPerChallenge'
    BY <1>3 DEF SessionsInv, OneSessionPerChallenge
<1>5. \A i \in DOMAIN opened : opened[i].issuedAt <= now'
  <2> SUFFICES ASSUME NEW i \in DOMAIN opened PROVE opened[i].issuedAt <= now'
      OBVIOUS
  <2>1. opened[i] \in SessionRecord
      BY DEF SessionsInv, SessionsTypeOK
  <2>2. opened[i].issuedAt \in Nat /\ opened[i].issuedAt <= now
      BY <2>1 DEF SessionsInv, SessionRecord
  <2> QED BY <2>2 DEF SessionsInv, SessionsTypeOK
<1> QED BY <1>1, <1>2, <1>4, <1>5 DEF SessionsInv, OpenedGrows

LEMMA SessionsInitially == SessionsInit => SessionsInv
<1> SUFFICES ASSUME SessionsInit PROVE SessionsInv
    OBVIOUS
<1>0. DOMAIN challenges = {} /\ DOMAIN sessions = {} /\ DOMAIN opened = {} /\ opened \in Seq(SessionRecord)
    BY DEF SessionsInit
<1>1. SessionsTypeOK
    BY <1>0 DEF SessionsInit, SessionsTypeOK, Idle, SessionActors
<1>10. ChallengesAreTakenOnce
  <2>1. \A v \in Verifications : verification[v].phase = "idle"
      BY DEF SessionsInit, Idle
  <2> QED BY <1>0, <2>1 DEF ChallengesAreTakenOnce
<1>2. OneSessionPerChallenge
    BY FS_EmptySet, LimitsArePositive DEF SessionsInit, OneSessionPerChallenge
<1> QED BY <1>0, <1>1, <1>10, <1>2 DEF SessionsInv

(* challenge: a fresh number, in nobody's hands.                           *)
LEMMA challengeKeepsSessions ==
  ASSUME SessionsInv, NEW actor \in Identities, challenge(actor)
  PROVE  SessionsInv' /\ OpenedGrows
<1> DEFINE kept == removeExpired({})
           live == DOMAIN kept.challenges
<1>1. /\ kept.challenges = Only(challenges, Unexpired(challenges))
      /\ kept.sessions = Only(sessions, Unexpired(sessions) \cup ({} \cap DOMAIN sessions))
    BY DEF removeExpired
<1>2. /\ live = Unexpired(challenges) /\ live \subseteq DOMAIN challenges
      /\ \A id \in live : kept.challenges[id] = challenges[id]
      /\ DOMAIN kept.sessions \subseteq DOMAIN sessions /\ \A t \in DOMAIN kept.sessions : kept.sessions[t] = sessions[t]
    BY <1>1 DEF Only, Unexpired
<1>3. /\ sessions' = kept.sessions /\ now' = now /\ verification' = verification /\ opened' = opened
      /\ \/ challenges' = kept.challenges /\ issued' = issued
         \/ /\ ~ (Cardinality(live) >= MaxChallenges) /\ issued' = issued + 1
            /\ challenges' = [id \in live \cup {issued + 1} |->
                                IF id = issued + 1 THEN [actor |-> actor, expiresAt |-> now + ChallengeLifetime]
                                ELSE kept.challenges[id]]
    BY DEF challenge
<1> HIDE DEF kept, live
<1>4. now \in Nat /\ issued \in Nat
    BY DEF SessionsInv, SessionsTypeOK
<1>5. CASE challenges' = kept.challenges /\ issued' = issued
  <2>1. TablesShrink
      BY <1>2, <1>3, <1>5 DEF TablesShrink, live
  <2> QED BY <1>3, <1>4, <1>5, <2>1, ShrinkingKeepsSessions
<1>6. CASE /\ ~ (Cardinality(live) >= MaxChallenges) /\ issued' = issued + 1
           /\ challenges' = [id \in live \cup {issued + 1} |->
                               IF id = issued + 1 THEN [actor |-> actor, expiresAt |-> now + ChallengeLifetime]
                               ELSE kept.challenges[id]]
  <2>1. DOMAIN challenges' = live \cup {issued + 1}
      BY <1>6
  <2>2. live \subseteq 1..issued /\ issued + 1 \notin live
      BY <1>2, <1>4 DEF SessionsInv, SessionsTypeOK
  <2>3. SessionsTypeOK'
    <3>1. DOMAIN challenges' \subseteq 1..issued'
        BY <1>4, <1>6, <2>1, <2>2
    <3>2. \A id \in DOMAIN challenges' : challenges'[id] \in [actor : Identities, expiresAt : Nat]
        BY <1>2, <1>4, <1>6, <2>1, <2>2, LimitsArePositive DEF SessionsInv, SessionsTypeOK
    <3>3. DOMAIN sessions' \subseteq DOMAIN opened' /\ \A t \in DOMAIN sessions' : sessions'[t] = opened'[t]
        BY <1>2, <1>3 DEF SessionsInv, SessionsTypeOK
    <3>4. now' \in Nat /\ issued' \in Nat
        BY <1>3, <1>4, <1>6
    <3> QED BY <1>3, <3>1, <3>2, <3>3, <3>4 DEF SessionsInv, SessionsTypeOK
  <2>4. ChallengesAreTakenOnce'
      BY <1>2, <1>3, <1>4, <1>6, <2>1 DEF SessionsInv, SessionsTypeOK, ChallengesAreTakenOnce
  <2>5. Cardinality(DOMAIN challenges') <= MaxChallenges
    <3>1. IsFiniteSet(live)
        BY <1>2, TablesAreFinite, FS_Subset DEF SessionsInv
    <3>2. Cardinality(live) \in Nat /\ Cardinality(live \cup {issued + 1}) = Cardinality(live) + 1
        BY <2>2, <3>1, FS_AddElement, FS_CardinalityType, ZenonT(60)
    <3> QED BY <1>6, <2>1, <3>2, LimitsArePositive
  <2>6. Cardinality(DOMAIN sessions') <= MaxSessions
    <3>1. /\ Cardinality(DOMAIN sessions') <= Cardinality(DOMAIN sessions)
          /\ Cardinality(DOMAIN sessions') \in Nat /\ Cardinality(DOMAIN sessions) \in Nat
        BY <1>2, <1>3, TablesAreFinite, FS_Subset, FS_CardinalityType DEF SessionsInv
    <3> QED BY <3>1, LimitsArePositive DEF SessionsInv, OneSessionPerChallenge
  <2> QED BY <1>3, <2>3, <2>4, <2>5, <2>6 DEF SessionsInv, OneSessionPerChallenge, OpenedGrows
<1> QED BY <1>3, <1>5, <1>6

(* beginVerify: the challenge passes from the table to the verification.   *)
LEMMA beginVerifyKeepsSessions ==
  ASSUME SessionsInv, NEW v \in Verifications, NEW id, beginVerify(v, id)
  PROVE  SessionsInv' /\ OpenedGrows
<1>1. /\ verification[v].phase = "idle" /\ id \in DOMAIN challenges
      /\ UNCHANGED <<now, issued, opened>>
    BY DEF beginVerify
<1>2. TablesShrink /\ id \notin DOMAIN challenges'
    BY DEF beginVerify, takenChallenge, TablesShrink, removeExpired, Only, Unexpired
<1>3. challenges[id] \in [actor : Identities, expiresAt : Nat] /\ id \in 1..issued
    BY <1>1 DEF SessionsInv, SessionsTypeOK
<1>4. \/ verification' = [verification EXCEPT ![v] = Idle]
      \/ verification' = [verification EXCEPT ![v] =
                            [phase |-> "credential", challenge |-> id, actor |-> challenges[id].actor,
                             expiresAt |-> challenges[id].expiresAt]]
    BY ZenonT(60) DEF beginVerify
<1>5. \A w \in Verifications \ {v} : verification'[w] = verification[w]
    BY <1>4 DEF SessionsInv, SessionsTypeOK
<1>6. verification'[v].phase # "idle" => verification'[v].challenge = id
    BY <1>4 DEF SessionsInv, SessionsTypeOK, Idle
<1>7. SessionsTypeOK'
  <2>1. verification' \in [Verifications -> [phase : {"idle", "credential", "signature"}, challenge : Nat, actor : SessionActors,
                                             expiresAt : Nat]]
    <3> DEFINE Verification == [phase : {"idle", "credential", "signature"}, challenge : Nat, actor : SessionActors,
                                expiresAt : Nat]
    <3>1. verification \in [Verifications -> Verification]
        BY DEF SessionsInv, SessionsTypeOK
    <3>2. Idle \in Verification
        BY DEF Idle, SessionActors
    <3>3. [phase |-> "credential", challenge |-> id, actor |-> challenges[id].actor,
           expiresAt |-> challenges[id].expiresAt] \in Verification
        BY <1>3 DEF SessionActors
    <3> HIDE DEF Verification
    <3>4. verification' \in [Verifications -> Verification]
        BY <1>4, <3>1, <3>2, <3>3
    <3> QED BY <3>4 DEF Verification
  <2> QED BY <1>1, <1>2, <2>1 DEF SessionsInv, SessionsTypeOK, TablesShrink
<1>8. ChallengesAreTakenOnce'
  <2>1. \A w \in Verifications : verification'[w].phase # "idle" =>
           \/ w = v /\ verification'[w].challenge = id
           \/ w # v /\ verification'[w] = verification[w]
      BY <1>5, <1>6
  <2>2. \A w \in Verifications : verification[w].phase # "idle" => verification[w].challenge # id
      BY <1>1 DEF SessionsInv, ChallengesAreTakenOnce
  <2>3. \A i \in DOMAIN opened : opened[i].challenge # id
      BY <1>1 DEF SessionsInv, ChallengesAreTakenOnce
  <2> QED BY <1>1, <1>2, <1>3, <2>1, <2>2, <2>3, SMTT(30) DEF SessionsInv, ChallengesAreTakenOnce, TablesShrink
<1>9. OneSessionPerChallenge'
  <2>1. /\ Cardinality(DOMAIN sessions') <= Cardinality(DOMAIN sessions)
        /\ Cardinality(DOMAIN challenges') <= Cardinality(DOMAIN challenges)
      BY <1>2, TablesAreFinite, FS_Subset DEF SessionsInv, TablesShrink
  <2>2. /\ Cardinality(DOMAIN sessions') \in Nat /\ Cardinality(DOMAIN sessions) \in Nat
        /\ Cardinality(DOMAIN challenges') \in Nat /\ Cardinality(DOMAIN challenges) \in Nat
      BY <1>2, TablesAreFinite, FS_Subset, FS_CardinalityType DEF SessionsInv, TablesShrink
  <2> QED BY <1>1, <2>1, <2>2, LimitsArePositive DEF SessionsInv, OneSessionPerChallenge
<1> QED BY <1>1, <1>7, <1>8, <1>9 DEF SessionsInv, OpenedGrows

(* The answer about the credential.                                        *)
LEMMA credentialKeepsSessions ==
  ASSUME SessionsInv, NEW v \in Verifications, credentialIsCurrent(v)
  PROVE  SessionsInv' /\ OpenedGrows
<1>1. /\ verification[v].phase = "credential" /\ UNCHANGED <<now, issued, challenges, sessions, opened>>
      /\ \/ verification' = [verification EXCEPT ![v] = [verification[v] EXCEPT !.phase = "signature"]]
         \/ verification' = [verification EXCEPT ![v] = Idle]
    BY ZenonT(60) DEF credentialIsCurrent, SessionsInv, SessionsTypeOK
<1>2. SessionsTypeOK'
  <2> DEFINE Verification == [phase : {"idle", "credential", "signature"}, challenge : Nat, actor : SessionActors,
                              expiresAt : Nat]
  <2>1. verification \in [Verifications -> Verification]
      BY DEF SessionsInv, SessionsTypeOK
  <2>2. Idle \in Verification
      BY DEF Idle, SessionActors
  <2>3. [verification[v] EXCEPT !.phase = "signature"] \in Verification
      BY <2>1
  <2> HIDE DEF Verification
  <2>4. verification' \in [Verifications -> Verification]
      BY <1>1, <2>1, <2>2, <2>3
  <2> QED BY <1>1, <2>4 DEF Verification, SessionsInv, SessionsTypeOK
<1>3. \A w \in Verifications : verification'[w].phase # "idle" =>
         verification[w].phase # "idle" /\ verification'[w].challenge = verification[w].challenge
  <2>1. \A w \in Verifications \ {v} : verification'[w] = verification[w]
      BY <1>1 DEF SessionsInv, SessionsTypeOK
  <2>2. verification'[v].phase = "idle" \/ verification'[v].challenge = verification[v].challenge
    <3>1. verification[v] \in [phase : {"idle", "credential", "signature"}, challenge : Nat, actor : SessionActors,
                               expiresAt : Nat]
        BY DEF SessionsInv, SessionsTypeOK
    <3>2. \/ verification'[v] = [verification[v] EXCEPT !.phase = "signature"]
          \/ verification'[v] = Idle
        BY <1>1 DEF SessionsInv, SessionsTypeOK
    <3> QED BY <3>1, <3>2 DEF Idle
  <2> QED BY <1>1, <2>1, <2>2
<1>4. ChallengesAreTakenOnce'
    BY <1>1, <1>3 DEF SessionsInv, ChallengesAreTakenOnce
<1> QED BY <1>1, <1>2, <1>4 DEF SessionsInv, OneSessionPerChallenge, OpenedGrows

(* finishVerify: the challenge leaves the verification, and may open a     *)
(* session.                                                                *)
LEMMA finishVerifyKeepsSessions ==
  ASSUME SessionsInv, NEW v \in Verifications, finishVerify(v)
  PROVE  SessionsInv' /\ OpenedGrows
<1> DEFINE c == verification[v]
           kept == removeExpired({})
           token == Len(opened) + 1
           session == [actor |-> c.actor, challenge |-> c.challenge, deadline |-> c.expiresAt, issuedAt |-> now,
                       expiresAt |-> now + SessionLifetime]
           live == DOMAIN kept.sessions
           Verification == [phase : {"idle", "credential", "signature"}, challenge : Nat, actor : SessionActors,
                            expiresAt : Nat]
<1>1. /\ DOMAIN kept.challenges \subseteq DOMAIN challenges
      /\ \A id \in DOMAIN kept.challenges : kept.challenges[id] = challenges[id]
      /\ live \subseteq DOMAIN sessions /\ \A t \in live : kept.sessions[t] = sessions[t]
    BY DEF removeExpired, Only, Unexpired
<1>2. /\ c.phase = "signature" /\ verification' = [verification EXCEPT ![v] = Idle] /\ UNCHANGED <<now, issued>>
      /\ \/ UNCHANGED <<challenges, sessions, opened>>
         \/ challenges' = kept.challenges /\ sessions' = kept.sessions /\ opened' = opened
         \/ /\ ~ (c.expiresAt <= now) /\ ~ (Cardinality(live) >= MaxSessions)
            /\ challenges' = kept.challenges /\ opened' = Append(opened, session)
            /\ sessions' = [t \in live \cup {token} |-> IF t = token THEN session ELSE kept.sessions[t]]
    BY DEF finishVerify
<1> HIDE DEF kept, live
<1>3. /\ now \in Nat /\ opened \in Seq(SessionRecord) /\ verification \in [Verifications -> Verification]
      /\ DOMAIN sessions \subseteq DOMAIN opened /\ \A t \in DOMAIN sessions : sessions[t] = opened[t]
    BY DEF SessionsInv, SessionsTypeOK
<1>4. c \in Verification /\ c.actor \in SessionActors /\ c.challenge \in Nat /\ c.expiresAt \in Nat
    BY <1>3
<1>5. session \in SessionRecord
    BY <1>3, <1>4, LimitsArePositive DEF SessionRecord
<1>6. verification' \in [Verifications -> Verification]
  <2>1. Idle \in Verification
      BY DEF Idle, SessionActors
  <2> HIDE DEF Verification
  <2> QED BY <1>2, <1>3, <2>1
<1>7. \A w \in Verifications : verification'[w].phase # "idle" =>
         w # v /\ verification[w].phase # "idle" /\ verification'[w].challenge = verification[w].challenge
    BY <1>2, <1>3 DEF Idle
<1>8. CASE TablesShrink /\ opened' = opened
  <2>1. SessionsTypeOK'
      BY <1>2, <1>3, <1>6, <1>8, ZenonT(60) DEF SessionsInv, SessionsTypeOK, TablesShrink
  <2>2. ChallengesAreTakenOnce'
      BY <1>2, <1>7, <1>8 DEF SessionsInv, ChallengesAreTakenOnce, TablesShrink
  <2>3. OneSessionPerChallenge'
    <3>1. /\ Cardinality(DOMAIN sessions') <= Cardinality(DOMAIN sessions)
          /\ Cardinality(DOMAIN challenges') <= Cardinality(DOMAIN challenges)
        BY <1>8, TablesAreFinite, FS_Subset DEF SessionsInv, TablesShrink
    <3>2. /\ Cardinality(DOMAIN sessions') \in Nat /\ Cardinality(DOMAIN sessions) \in Nat
          /\ Cardinality(DOMAIN challenges') \in Nat /\ Cardinality(DOMAIN challenges) \in Nat
        BY <1>8, TablesAreFinite, FS_Subset, FS_CardinalityType DEF SessionsInv, TablesShrink
    <3> QED BY <1>8, <3>1, <3>2, LimitsArePositive DEF SessionsInv, OneSessionPerChallenge
  <2> QED BY <1>2, <1>8, <2>1, <2>2, <2>3, ZenonT(60) DEF SessionsInv, OpenedGrows
<1>9. CASE /\ ~ (c.expiresAt <= now) /\ ~ (Cardinality(live) >= MaxSessions)
           /\ challenges' = kept.challenges /\ opened' = Append(opened, session)
           /\ sessions' = [t \in live \cup {token} |-> IF t = token THEN session ELSE kept.sessions[t]]
  <2> HIDE DEF session
  <2>1. /\ opened' \in Seq(SessionRecord) /\ Len(opened) \in Nat /\ Len(opened') = token
        /\ DOMAIN opened = 1..Len(opened) /\ DOMAIN opened' = 1..token
        /\ opened'[token] = session /\ \A i \in DOMAIN opened : opened'[i] = opened[i]
      BY <1>3, <1>5, <1>9
  <2>2. /\ \A i \in DOMAIN opened' : i = token \/ (i \in DOMAIN opened /\ opened'[i] = opened[i])
        /\ token \notin DOMAIN opened /\ DOMAIN opened \subseteq DOMAIN opened' /\ token \in DOMAIN opened'
      BY <2>1
  <2>3. /\ session.challenge = c.challenge /\ session.deadline = c.expiresAt /\ session.issuedAt = now
      BY DEF session
  <2>4. SessionsTypeOK'
    <3>1. DOMAIN sessions' = live \cup {token} /\ live \subseteq DOMAIN opened
        BY <1>1, <1>3, <1>9
    <3>2. DOMAIN sessions' \subseteq DOMAIN opened' /\ \A t \in DOMAIN sessions' : sessions'[t] = opened'[t]
        BY <1>1, <1>3, <1>9, <2>1, <2>2, <3>1
    <3>3. /\ DOMAIN challenges' \subseteq 1..issued'
          /\ \A id \in DOMAIN challenges' : challenges'[id] \in [actor : Identities, expiresAt : Nat]
        BY <1>1, <1>2, <1>9, ZenonT(60) DEF SessionsInv, SessionsTypeOK
    <3> QED BY <1>2, <1>6, <2>1, <3>2, <3>3 DEF SessionsInv, SessionsTypeOK
  <2>5. ChallengesAreTakenOnce'
    <3>1. /\ c.challenge \in 1..issued /\ c.challenge \notin DOMAIN challenges'
          /\ \A w \in Verifications : verification'[w].phase # "idle" => verification'[w].challenge # c.challenge
        BY <1>1, <1>2, <1>7, <1>9 DEF SessionsInv, ChallengesAreTakenOnce
    <3>2. \A i \in DOMAIN opened' : \/ opened'[i].challenge = c.challenge
                                    \/ i \in DOMAIN opened /\ opened'[i].challenge = opened[i].challenge
        BY <2>1, <2>2, <2>3
    <3>3. DOMAIN challenges' \subseteq DOMAIN challenges /\ issued' = issued
        BY <1>1, <1>2, <1>9
    <3> HIDE DEF c
    <3> QED BY <1>7, <3>1, <3>2, <3>3 DEF SessionsInv, ChallengesAreTakenOnce
  <2>6. OneSessionPerChallenge'
    <3>1. \A i \in DOMAIN opened : opened[i].challenge # c.challenge
        BY <1>2 DEF SessionsInv, ChallengesAreTakenOnce
    <3>2. \A i, j \in DOMAIN opened' : opened'[i].challenge = opened'[j].challenge => i = j
        BY <2>1, <2>2, <2>3, <3>1 DEF SessionsInv, OneSessionPerChallenge
    <3>3. \A i \in DOMAIN opened' : opened'[i].issuedAt < opened'[i].deadline
        BY <1>3, <1>4, <1>9, <2>1, <2>2, <2>3 DEF SessionsInv, OneSessionPerChallenge
    <3>4. IsFiniteSet(live) /\ token \notin live /\ DOMAIN sessions' = live \cup {token}
        BY <1>1, <1>3, <1>9, <2>2, TablesAreFinite, FS_Subset DEF SessionsInv
    <3>5. Cardinality(live) \in Nat /\ Cardinality(DOMAIN sessions') = Cardinality(live) + 1
        BY <3>4, FS_AddElement, FS_CardinalityType
    <3>6. Cardinality(DOMAIN sessions') <= MaxSessions
        BY <1>9, <3>5, LimitsArePositive
    <3>7. /\ Cardinality(DOMAIN challenges') <= Cardinality(DOMAIN challenges)
          /\ Cardinality(DOMAIN challenges') \in Nat /\ Cardinality(DOMAIN challenges) \in Nat
        BY <1>1, <1>9, TablesAreFinite, FS_Subset, FS_CardinalityType DEF SessionsInv
    <3>8. Cardinality(DOMAIN challenges') <= MaxChallenges
        BY <3>7, LimitsArePositive DEF SessionsInv, OneSessionPerChallenge
    <3> QED BY <3>2, <3>3, <3>6, <3>8 DEF OneSessionPerChallenge
  <2>7. \A i \in DOMAIN opened' : opened'[i].issuedAt <= now'
      BY <1>2, <1>3, <2>1, <2>2, <2>3 DEF SessionsInv
  <2> QED BY <2>1, <2>2, <2>4, <2>5, <2>6, <2>7 DEF SessionsInv, OpenedGrows
<1> QED BY <1>1, <1>2, <1>8, <1>9, ZenonT(60) DEF TablesShrink, live

(* require and logout only remove entries; time passes.                    *)
LEMMA OtherStepsKeepSessions ==
  ASSUME SessionsInv, NEW token, require(token) \/ logout(token) \/ Tick
  PROVE  SessionsInv' /\ OpenedGrows
<1>1. /\ TablesShrink /\ UNCHANGED <<issued, verification, opened>> /\ (now' = now \/ now' = now + 1)
  <2>1. CASE require(token)
      BY <2>1, ZenonT(60) DEF require, Admitted, removeExpired, Only, Unexpired, TablesShrink
  <2>2. CASE logout(token)
      BY <2>2 DEF logout, removeExpired, Only, Unexpired, TablesShrink
  <2>3. CASE Tick
      BY <2>3 DEF Tick, TablesShrink
  <2> QED BY <2>1, <2>2, <2>3
<1>2. now' \in Nat /\ now <= now'
    BY <1>1 DEF SessionsInv, SessionsTypeOK
<1> QED BY <1>1, <1>2, ShrinkingKeepsSessions

(* Every step of the sessions.                                             *)
LEMMA SessionsStep == SessionsInv /\ SessionsNext => SessionsInv' /\ OpenedGrows
    BY challengeKeepsSessions, beginVerifyKeepsSessions, credentialKeepsSessions, finishVerifyKeepsSessions,
       OtherStepsKeepSessions DEF SessionsNext

(* A candidate that is released has no code but a recorded one, which the  *)
(* release that AssistantRelease defines is proved to guarantee there      *)
(* (ReleasedDecisionIsRecorded).                                           *)
ReleaseIsRecorded ==
  \A candidate, known, question :
    LET release == Released(candidate, known, question)
    IN  ~ release.fails /\ release.codes = {} =>
          release.candidate.code = NoCode \/ Recorded(release.candidate.code, known)

(***************************************************************************)
(* The audit ledger.                                                       *)
(***************************************************************************)

IsSequence(s) == s \in Seq(Range(s))

(* Appending to a sequence of anything.                                    *)
LEMMA Appended ==
  ASSUME NEW s, IsSequence(s), NEW e
  PROVE  /\ IsSequence(Append(s, e)) /\ Len(s) \in Nat /\ DOMAIN s = 1..Len(s)
         /\ DOMAIN Append(s, e) = 1..(Len(s) + 1) /\ Len(Append(s, e)) = Len(s) + 1
         /\ Append(s, e)[Len(s) + 1] = e
         /\ \A i \in DOMAIN s : Append(s, e)[i] = s[i]
<1> DEFINE S == Range(s) \cup {e}
           t == Append(s, e)
<1>1. s \in Seq(S) /\ e \in S
    BY DEF IsSequence
<1> HIDE DEF S
<1>2. /\ t \in Seq(S) /\ Len(t) = Len(s) + 1
      /\ \A i \in 1..Len(s) : t[i] = s[i]
      /\ t[Len(s) + 1] = e
    BY <1>1
<1>3. Len(s) \in Nat /\ DOMAIN s = 1..Len(s) /\ DOMAIN t = 1..Len(t)
    BY <1>1, <1>2
<1> HIDE DEF t
<1>4. t \in Seq(Range(t))
  <2>1. \A i \in 1..Len(t) : t[i] \in Range(t)
      BY <1>3 DEF Range
  <2>2. t \in [1..Len(t) -> Range(t)] /\ Len(t) \in Nat
      BY <1>2, <1>3, <2>1
  <2> QED BY <2>2
<1> QED BY <1>2, <1>3, <1>4 DEF t, IsSequence

(* The event that append adds, numbered, chained and hashed.               *)
LEMMA AppendedEvent ==
  ASSUME IsSequence(audit), NEW entry, audit' = append(entry)
  PROVE  LET n == Len(audit) + 1
             e == audit'[n]
         IN  /\ IsSequence(audit') /\ n \in Nat /\ DOMAIN audit = 1..Len(audit) /\ DOMAIN audit' = 1..n /\ Len(audit') = n
             /\ \A i \in DOMAIN audit : audit'[i] = audit[i]
             /\ e.sequence = n /\ e.previous = IF n = 1 THEN <<>> ELSE audit[n - 1].hash
             /\ e.hash = eventHash(Unsigned(e))
             /\ e.request = entry.request /\ e.session = entry.session /\ e.outcome = entry.outcome
             /\ e.code = entry.code /\ e.codes = entry.codes /\ e.references = entry.references
             /\ e.supports = entry.supports
<1> DEFINE n == Len(audit) + 1
           last == IF audit = <<>> THEN <<>> ELSE audit[Len(audit)].hash
           unsigned == [sequence |-> n, request |-> entry.request, session |-> entry.session,
                        mode |-> entry.mode, tools |-> entry.tools, supports |-> entry.supports,
                        outcome |-> entry.outcome, code |-> entry.code, source |-> entry.source,
                        references |-> entry.references, codes |-> entry.codes, previous |-> last]
           e == [f \in DOMAIN unsigned \cup {"hash"} |-> IF f = "hash" THEN eventHash(unsigned) ELSE unsigned[f]]
<1>1. audit' = Append(audit, e)
    BY DEF append
<1>2. /\ IsSequence(audit') /\ Len(audit) \in Nat /\ DOMAIN audit = 1..Len(audit) /\ DOMAIN audit' = 1..n
      /\ Len(audit') = n /\ audit'[n] = e /\ \A i \in DOMAIN audit : audit'[i] = audit[i]
  <2> HIDE DEF e
  <2> QED BY <1>1, Appended
<1>3. last = IF n = 1 THEN <<>> ELSE audit[n - 1].hash
  <2>1. audit = <<>> <=> Len(audit) = 0
      BY SMTT(20) DEF IsSequence
  <2> QED BY <1>2, <2>1
<1> HIDE DEF last
<1>4. /\ e.sequence = n /\ e.previous = last
      /\ e.request = entry.request /\ e.session = entry.session /\ e.outcome = entry.outcome
      /\ e.code = entry.code /\ e.codes = entry.codes /\ e.references = entry.references
      /\ e.supports = entry.supports /\ e.hash = eventHash(unsigned)
    OBVIOUS
<1>5. Unsigned(e) = unsigned
  <2>1. "hash" \notin DOMAIN unsigned /\ unsigned = [f \in DOMAIN unsigned |-> unsigned[f]]
      OBVIOUS
  <2> HIDE DEF unsigned
  <2>2. DOMAIN e \ {"hash"} = DOMAIN unsigned /\ \A f \in DOMAIN unsigned : e[f] = unsigned[f]
      BY <2>1
  <2> HIDE DEF e
  <2>3. Unsigned(e) = [f \in DOMAIN unsigned |-> unsigned[f]]
      BY <2>2 DEF Unsigned
  <2> QED BY <2>1, <2>3, ZenonT(60)
<1> HIDE DEF e, unsigned
<1> QED BY <1>2, <1>3, <1>4, <1>5

(***************************************************************************)
(* What a step does to a call.                                             *)
(***************************************************************************)

InProgress == {"authorizing", "executing", "generating"}

IsCall(r) == r = [phase |-> r.phase, query |-> r.query, session |-> r.session, step |-> r.step,
                  supports |-> r.supports, owner |-> r.owner, response |-> r.response]

(* A call with one field changed, and with several.                        *)
LEMMA CallFieldSet ==
  ASSUME NEW rec, IsCall(rec), NEW y
  PROVE  /\ IsCall([rec EXCEPT !.phase = y]) /\ IsCall([rec EXCEPT !.supports = y])
         /\ IsCall([rec EXCEPT !.response = y]) /\ IsCall([rec EXCEPT !.owner = y]) /\ IsCall([rec EXCEPT !.step = y])
<1>1. IsCall([rec EXCEPT !.phase = y])
    BY DEF IsCall
<1>2. IsCall([rec EXCEPT !.supports = y])
    BY DEF IsCall
<1>3. IsCall([rec EXCEPT !.response = y])
    BY DEF IsCall
<1>4. IsCall([rec EXCEPT !.owner = y])
    BY DEF IsCall
<1>5. IsCall([rec EXCEPT !.step = y])
    BY DEF IsCall
<1> QED BY <1>1, <1>2, <1>3, <1>4, <1>5, ZenonT(60)

LEMMA CallUpdated ==
  ASSUME NEW rec, IsCall(rec), NEW p, NEW s, NEW y
  PROVE  /\ IsCall([rec EXCEPT !.phase = p, !.supports = s])
         /\ IsCall([rec EXCEPT !.phase = p, !.supports = s, !.response = y])
         /\ IsCall([rec EXCEPT !.phase = p, !.response = y])
         /\ IsCall([rec EXCEPT !.phase = p, !.owner = y])
         /\ IsCall([rec EXCEPT !.step = p, !.supports = s])
<1> DEFINE r1 == [rec EXCEPT !.phase = p]
           r2 == [r1 EXCEPT !.supports = s]
           r3 == [rec EXCEPT !.step = p]
<1>1. IsCall(r1) /\ IsCall(r3)
    BY CallFieldSet, ZenonT(60)
<1>2. IsCall(r2) /\ IsCall([r1 EXCEPT !.response = y]) /\ IsCall([r1 EXCEPT !.owner = y])
      /\ IsCall([r3 EXCEPT !.supports = s])
  <2> HIDE DEF r1, r3
  <2> QED BY <1>1, CallFieldSet, ZenonT(60)
<1>3. IsCall([r2 EXCEPT !.response = y])
  <2> HIDE DEF r2
  <2> QED BY <1>2, CallFieldSet, ZenonT(60)
<1>4. /\ [rec EXCEPT !.phase = p, !.supports = s] = r2
      /\ [rec EXCEPT !.phase = p, !.supports = s, !.response = y] = [r2 EXCEPT !.response = y]
      /\ [rec EXCEPT !.phase = p, !.response = y] = [r1 EXCEPT !.response = y]
      /\ [rec EXCEPT !.phase = p, !.owner = y] = [r1 EXCEPT !.owner = y]
      /\ [rec EXCEPT !.step = p, !.supports = s] = [r3 EXCEPT !.supports = s]
    BY SMT
<1> HIDE DEF r1, r2, r3
<1> QED BY <1>2, <1>3, <1>4, ZenonT(60)

(* The call ends with an answer that decides nothing but what is recorded. *)
Ends(c, rec) ==
  \E tools, known, r : /\ Conclude(c, rec, tools, known, r)
                       /\ ReleaseIsRecorded /\ r.result.code # NoCode => Recorded(r.result.code, known)

(* The call goes on.                                                       *)
Goes(c, rec) ==
  /\ UNCHANGED <<audit, requests>>
  /\ \E x : /\ call' = [call EXCEPT ![c] = x]
            /\ IsCall(x) /\ x.phase \in InProgress /\ x.query = rec.query /\ x.session = rec.session

(* A refusal decides nothing.                                              *)
LEMMA RefusalDecidesNothing ==
  ASSUME NEW outcome, NEW code, NEW message
  PROVE  Refused(outcome, code, message).result.code = NoCode
    BY DEF Refused, Refusal, Results, deterministicResult

LEMMA DeniedEnds ==
  ASSUME NEW c, NEW rec, NEW code, Denied(c, rec, code)
  PROVE  Ends(c, rec)
<1> DEFINE r == Refused("abstain", code, unavailable)
<1>1. Conclude(c, rec, <<>>, <<>>, r)
    BY DEF Denied
<1>2. r.result.code = NoCode
    BY RefusalDecidesNothing
<1> QED BY <1>1, <1>2 DEF Ends

(* The records are complete: the call ends, or the model is asked.         *)
LEMMA ConsiderEffect ==
  ASSUME NEW c, NEW rec, IsCall(rec), Consider(c, rec)
  PROVE  Ends(c, rec) \/ Goes(c, rec)
<1> DEFINE known == supportsForQueryMode(rec.supports, rec.query.mode)
           end(r) == Conclude(c, rec, Tools(rec.query), known, r)
<1>1. \/ \E outcome, code, message : end(Refused(outcome, code, message))
      \/ \E outcome, summary, claims, reasons, codes :
           end(Results(deterministicResult(outcome, summary, claims, reasons), codes, "deterministic-control"))
      \/ /\ call' = [call EXCEPT ![c] = [rec EXCEPT !.phase = "generating", !.supports = known]]
         /\ UNCHANGED <<audit, requests>>
    BY ZenonT(60) DEF Consider
<1>2. ASSUME NEW outcome, NEW code, NEW message, end(Refused(outcome, code, message))
      PROVE  Ends(c, rec)
    BY <1>2, RefusalDecidesNothing DEF Ends
<1>3. ASSUME NEW outcome, NEW summary, NEW claims, NEW reasons, NEW codes,
             end(Results(deterministicResult(outcome, summary, claims, reasons), codes, "deterministic-control"))
      PROVE  Ends(c, rec)
  <2>1. Results(deterministicResult(outcome, summary, claims, reasons), codes, "deterministic-control").result.code = NoCode
      BY DEF Results, deterministicResult
  <2> QED BY <1>3, <2>1 DEF Ends
<1>4. ASSUME call' = [call EXCEPT ![c] = [rec EXCEPT !.phase = "generating", !.supports = known]],
             UNCHANGED <<audit, requests>>
      PROVE  Goes(c, rec)
  <2> DEFINE x == [rec EXCEPT !.phase = "generating", !.supports = known]
  <2> HIDE DEF known
  <2>1. IsCall(x) /\ x.phase = "generating" /\ x.query = rec.query /\ x.session = rec.session
    <3>1. IsCall(x)
        BY CallUpdated, ZenonT(60)
    <3> QED BY <3>1 DEF IsCall
  <2> QED BY <1>4, <2>1, ZenonT(60) DEF Goes, InProgress, known
<1> QED BY <1>1, <1>2, <1>3, <1>4, ZenonT(60)

(* On to the next tool.                                                    *)
LEMMA ProceedEffect ==
  ASSUME NEW c, NEW rec, IsCall(rec), Proceed(c, rec)
  PROVE  Ends(c, rec) \/ Goes(c, rec)
<1>1. CASE Consider(c, rec)
    BY <1>1, ConsiderEffect
<1>2. CASE Denied(c, rec, "access-denied")
    BY <1>2, DeniedEnds
<1>3. CASE call' = [call EXCEPT ![c] = [rec EXCEPT !.phase = "authorizing"]] /\ UNCHANGED <<audit, requests>>
  <2> DEFINE x == [rec EXCEPT !.phase = "authorizing"]
  <2>1. IsCall(x) /\ x.phase = "authorizing" /\ x.query = rec.query /\ x.session = rec.session
      BY DEF IsCall
  <2> QED BY <1>3, <2>1, ZenonT(60) DEF Goes, InProgress
<1> QED BY <1>1, <1>2, <1>3, ZenonT(60) DEF Proceed

(* The effect of the end of a call on the ledger, the requests and the     *)
(* call.                                                                   *)
LEMMA EndsEffect ==
  ASSUME IsSequence(audit), DOMAIN call = Calls, NEW c \in Calls, NEW rec, IsCall(rec), Ends(c, rec)
  PROVE  LET n == Len(audit) + 1
             e == audit'[n]
             x == call'[c]
             r == x.response
         IN  /\ IsSequence(audit') /\ n \in Nat /\ DOMAIN audit = 1..Len(audit) /\ DOMAIN audit' = 1..n /\ Len(audit') = n
             /\ \A i \in DOMAIN audit : audit'[i] = audit[i]
             /\ e.sequence = n /\ e.previous = IF n = 1 THEN <<>> ELSE audit[n - 1].hash
             /\ e.hash = eventHash(Unsigned(e)) /\ e.request = c /\ e.session = rec.session
             /\ DOMAIN call' = Calls /\ \A d \in Calls \ {c} : call'[d] = call[d]
             /\ IsCall(x) /\ x.phase = "answered" /\ x.query = rec.query /\ x.session = rec.session
             /\ r.event = n /\ r.request = c
             /\ e.outcome = r.shown.outcome /\ e.code = r.shown.code /\ e.codes = r.codes
             /\ ReleaseIsRecorded /\ r.shown.code # NoCode => \E y \in e.references : y.decision.code = r.shown.code
             /\ r.citations \subseteq e.supports
             /\ \E q : requests' = requests \cup {q} /\ q.event = n /\ q.request = c /\ q.outcome = r.shown.outcome
<1> PICK tools, known, r : /\ Conclude(c, rec, tools, known, r)
                           /\ ReleaseIsRecorded /\ r.result.code # NoCode => Recorded(r.result.code, known)
    BY DEF Ends
<1> DEFINE n == Len(audit) + 1
           cited == {x \in Range(known) : \E claim \in Range(r.result.claims) : x.id \in claim.cites}
           evidence == IF known = <<>> THEN "not-evaluated"
                       ELSE IF Active(known) = known THEN "active" ELSE "defective"
           response == [request |-> c, shown |-> r.result, citations |-> {x.id : x \in cited},
                        evidence |-> evidence, codes |-> r.codes, event |-> n]
           state == IF r.result.outcome = "answer" THEN "completed" ELSE "refused"
           q == [request |-> c, actor |-> rec.session.actor, outcome |-> r.result.outcome,
                 code |-> r.result.code, source |-> r.source, state |-> state, event |-> n]
           entry == [request |-> c, session |-> rec.session, mode |-> rec.query.mode, tools |-> tools,
                     supports |-> {x.id : x \in Range(known)}, outcome |-> r.result.outcome,
                     code |-> r.result.code, source |-> r.source,
                     references |-> activeRecordedDecisionSupportReferences(known), codes |-> r.codes]
           x == [rec EXCEPT !.phase = "answered", !.supports = known, !.response = response]
<1>1. audit' = append(entry) /\ requests' = requests \cup {q} /\ call' = [call EXCEPT ![c] = x]
    BY ZenonT(60) DEF Conclude
<1>2. /\ entry.request = c /\ entry.session = rec.session /\ entry.outcome = r.result.outcome
      /\ entry.code = r.result.code /\ entry.codes = r.codes
      /\ entry.references = activeRecordedDecisionSupportReferences(known)
      /\ entry.supports = {y.id : y \in Range(known)}
    BY ZenonT(60)
<1>3. /\ response.request = c /\ response.shown = r.result /\ response.citations = {y.id : y \in cited}
      /\ response.codes = r.codes /\ response.event = n
    BY ZenonT(60)
<1>4. q.event = n /\ q.request = c /\ q.outcome = r.result.outcome
    BY ZenonT(60)
<1> HIDE DEF response, q, entry
<1>5. /\ IsCall(x) /\ x.phase = "answered" /\ x.query = rec.query /\ x.session = rec.session
      /\ x.response = response
  <2>1. IsCall(x)
      BY CallUpdated, ZenonT(60)
  <2>2. /\ x.phase = "answered" /\ x.query = rec.query /\ x.session = rec.session /\ x.response = response
      BY DEF IsCall
  <2> QED BY <2>1, <2>2
<1> HIDE DEF x
<1>6. /\ DOMAIN call' = Calls /\ call'[c] = x /\ \A d \in Calls \ {c} : call'[d] = call[d]
    BY <1>1
<1>7. {y.id : y \in cited} \subseteq {y.id : y \in Range(known)}
    BY ZenonT(60)
<1>8. ReleaseIsRecorded /\ r.result.code # NoCode =>
        \E y \in activeRecordedDecisionSupportReferences(known) : y.decision.code = r.result.code
  <2> SUFFICES ASSUME ReleaseIsRecorded, r.result.code # NoCode
               PROVE  \E y \in activeRecordedDecisionSupportReferences(known) : y.decision.code = r.result.code
      OBVIOUS
  <2>1. PICK s \in Range(known) : Decides(s) /\ s.decision.code = r.result.code
      BY DEF Recorded
  <2> DEFINE y == [id |-> s.id, resource |-> s.resource, decision |-> s.decision]
  <2>2. y \in activeRecordedDecisionSupportReferences(known)
      BY <2>1, ZenonT(60) DEF activeRecordedDecisionSupportReferences
  <2>3. y.decision = s.decision
      BY ZenonT(60)
  <2> HIDE DEF y
  <2> QED BY <2>1, <2>2, <2>3, ZenonT(60)
<1> HIDE DEF cited
<1>9. /\ IsSequence(audit') /\ n \in Nat /\ DOMAIN audit = 1..Len(audit) /\ DOMAIN audit' = 1..n /\ Len(audit') = n
      /\ \A i \in DOMAIN audit : audit'[i] = audit[i]
      /\ audit'[n].sequence = n /\ audit'[n].previous = (IF n = 1 THEN <<>> ELSE audit[n - 1].hash)
      /\ audit'[n].hash = eventHash(Unsigned(audit'[n]))
      /\ audit'[n].request = entry.request /\ audit'[n].session = entry.session /\ audit'[n].outcome = entry.outcome
      /\ audit'[n].code = entry.code /\ audit'[n].codes = entry.codes /\ audit'[n].references = entry.references
      /\ audit'[n].supports = entry.supports
    BY <1>1, AppendedEvent, ZenonT(60)
<1> HIDE DEF n
<1> QED BY <1>1, <1>2, <1>3, <1>4, <1>5, <1>6, <1>7, <1>8, <1>9, ZenonT(60) DEF n

(***************************************************************************)
(* The invariant of the calls.                                             *)
(***************************************************************************)

CallsTypeOK == DOMAIN call = Calls /\ (\A c \in Calls : IsCall(call[c])) /\ IsSequence(audit)

(* The session of an answer was opened for its actor by a verified         *)
(* challenge, and had not expired when the query was admitted.             *)
SessionHolds(s) ==
  s.token # 0 => /\ s.token \in DOMAIN opened /\ opened[s.token].actor = s.actor
                 /\ opened[s.token].issuedAt <= s.admittedAt /\ s.admittedAt < opened[s.token].expiresAt

SessionsHold ==
  /\ \A i \in DOMAIN audit : SessionHolds(audit[i].session)
  /\ \A c \in Calls : call[c].phase \in InProgress => SessionHolds(call[c].session)

KeyOf(rec) == <<rec.session.actor, rec.query.key>>

Keyed(rec) == rec.phase \in InProgress \cup {"joined", "answered"} /\ rec.query.key # NoKey

(* A key in use names the call that answers it, and every call under the   *)
(* key asks what it was taken for and has, or waits for, that answer.      *)
KeysAreShared ==
  /\ \A k \in DOMAIN idempotentAnswers :
       LET e == idempotentAnswers[k]
       IN  /\ e.owner \in Calls /\ KeyOf(call[e.owner]) = k /\ call[e.owner].query = e.fingerprint
           /\ call[e.owner].phase \in InProgress \cup {"answered"}
  /\ \A c \in Calls : Keyed(call[c]) =>
       KeyOf(call[c]) \in DOMAIN idempotentAnswers /\ idempotentAnswers[KeyOf(call[c])].fingerprint = call[c].query
  /\ \A c \in Calls : Keyed(call[c]) /\ call[c].phase \in InProgress => idempotentAnswers[KeyOf(call[c])].owner = c
  /\ \A c \in Calls : call[c].phase = "joined" =>
       call[c].query.key # NoKey /\ idempotentAnswers[KeyOf(call[c])].owner = call[c].owner
  /\ \A c \in Calls : Keyed(call[c]) /\ call[c].phase = "answered" =>
       LET o == idempotentAnswers[KeyOf(call[c])].owner
       IN  call[o].phase = "answered" /\ call[o].response = call[c].response

(* What the ledger and the requests hold of an answer.                     *)
Backed(rec) ==
  LET r == rec.response
      e == audit[r.event]
  IN  /\ r.event \in DOMAIN audit /\ e.request = r.request /\ e.session.actor = rec.session.actor
      /\ e.outcome = r.shown.outcome /\ e.code = r.shown.code /\ e.codes = r.codes
      /\ \E q \in requests : q.event = r.event /\ q.request = r.request /\ q.outcome = r.shown.outcome
      /\ ReleaseIsRecorded /\ r.shown.code # NoCode => \E x \in e.references : x.decision.code = r.shown.code
      /\ r.citations \subseteq e.supports

AnswersAreBacked ==
  /\ verifyAssistantAuditEvents(audit)
  /\ IsFiniteSet(requests) /\ Cardinality(requests) = Len(audit) /\ \A q \in requests : q.event \in DOMAIN audit
  /\ \A i \in DOMAIN audit : audit[i].request \in Calls /\ call[audit[i].request].phase = "answered"
  /\ \A i, j \in DOMAIN audit : audit[i].request = audit[j].request => i = j
  /\ \A c \in Answered : Backed(call[c])

CallsInv == CallsTypeOK /\ SessionsHold /\ KeysAreShared /\ AnswersAreBacked

(***************************************************************************)
(* The steps.                                                              *)
(***************************************************************************)

LEMMA SessionStillHolds ==
  ASSUME NEW s, SessionHolds(s), OpenedGrows
  PROVE  s.token # 0 => /\ s.token \in DOMAIN opened' /\ opened'[s.token].actor = s.actor
                        /\ opened'[s.token].issuedAt <= s.admittedAt /\ s.admittedAt < opened'[s.token].expiresAt
    BY DEF SessionHolds, OpenedGrows

(* The end of a call, whose session holds and which had no answer yet.     *)
LEMMA EndKeepsBacked ==
  ASSUME CallsInv, OpenedGrows, NEW c \in Calls, NEW rec, IsCall(rec), Ends(c, rec),
         call[c].phase # "answered", SessionHolds(rec.session)
  PROVE  CallsTypeOK' /\ SessionsHold' /\ AnswersAreBacked'
<1> DEFINE n == Len(audit) + 1
           r == call'[c].response
<1>0. IsSequence(audit) /\ DOMAIN call = Calls
    BY DEF CallsInv, CallsTypeOK
<1>1. /\ IsSequence(audit') /\ n \in Nat /\ DOMAIN audit = 1..Len(audit) /\ DOMAIN audit' = 1..n /\ Len(audit') = n
      /\ \A i \in DOMAIN audit : audit'[i] = audit[i]
      /\ audit'[n].sequence = n /\ audit'[n].previous = (IF n = 1 THEN <<>> ELSE audit[n - 1].hash)
      /\ audit'[n].hash = eventHash(Unsigned(audit'[n])) /\ audit'[n].request = c /\ audit'[n].session = rec.session
    BY <1>0, EndsEffect, ZenonT(60)
<1>2. /\ DOMAIN call' = Calls /\ \A d \in Calls \ {c} : call'[d] = call[d]
      /\ IsCall(call'[c]) /\ call'[c].phase = "answered" /\ call'[c].query = rec.query /\ call'[c].session = rec.session
    BY <1>0, EndsEffect, ZenonT(60)
<1>3. /\ r.event = n /\ r.request = c
      /\ audit'[n].outcome = r.shown.outcome /\ audit'[n].code = r.shown.code /\ audit'[n].codes = r.codes
      /\ ReleaseIsRecorded /\ r.shown.code # NoCode => \E y \in audit'[n].references : y.decision.code = r.shown.code
      /\ r.citations \subseteq audit'[n].supports
    BY <1>0, EndsEffect, ZenonT(60)
<1>4. PICK q : requests' = requests \cup {q} /\ q.event = n /\ q.request = c /\ q.outcome = r.shown.outcome
    BY <1>0, EndsEffect, ZenonT(60)
<1> HIDE DEF r
<1>5. n \in DOMAIN audit' /\ n \notin DOMAIN audit /\ Len(audit) \in Nat
      /\ \A i \in DOMAIN audit' : i = n \/ (i \in DOMAIN audit /\ audit'[i] = audit[i])
  <2>1. Len(audit) \in Nat
      BY <1>0, SMTT(20) DEF IsSequence
  <2> QED BY <1>1, <2>1
<1>6. CallsTypeOK'
    BY <1>1, <1>2, ZenonT(60) DEF CallsInv, CallsTypeOK
<1>7. SessionsHold'
  <2>1. \A i \in DOMAIN audit' : SessionHolds(audit[i].session)'
    <3> SUFFICES ASSUME NEW i \in DOMAIN audit' PROVE SessionHolds(audit[i].session)'
        OBVIOUS
    <3>1. SessionHolds(audit'[i].session)
        BY <1>1, <1>5, ZenonT(60) DEF CallsInv, SessionsHold
    <3> QED BY <3>1, SessionStillHolds DEF SessionHolds
  <2>2. \A d \in Calls : call'[d].phase \in InProgress => SessionHolds(call[d].session)'
    <3> SUFFICES ASSUME NEW d \in Calls, call'[d].phase \in InProgress PROVE SessionHolds(call[d].session)'
        OBVIOUS
    <3>1. d # c /\ call'[d] = call[d]
        BY <1>2 DEF InProgress
    <3>2. SessionHolds(call'[d].session)
        BY <3>1 DEF CallsInv, SessionsHold
    <3> QED BY <3>2, SessionStillHolds DEF SessionHolds
  <2> QED BY <2>1, <2>2, ZenonT(60) DEF SessionsHold
<1>8. verifyAssistantAuditEvents(audit')
  <2> SUFFICES ASSUME NEW i \in DOMAIN audit'
               PROVE  /\ audit'[i].sequence = i
                      /\ audit'[i].previous = IF i = 1 THEN <<>> ELSE audit'[i - 1].hash
                      /\ audit'[i].hash = eventHash(Unsigned(audit'[i]))
      BY DEF verifyAssistantAuditEvents
  <2>1. CASE i = n
    <3>1. n # 1 => n - 1 \in DOMAIN audit
        BY <1>1, <1>5
    <3> QED BY <1>1, <2>1, <3>1
  <2>2. CASE i # n
    <3>1. i \in DOMAIN audit /\ audit'[i] = audit[i] /\ (i # 1 => audit'[i - 1] = audit[i - 1])
        BY <1>1, <1>5, <2>2, SMTT(20)
    <3> QED BY <3>1 DEF CallsInv, AnswersAreBacked, verifyAssistantAuditEvents
  <2> QED BY <2>1, <2>2
<1>9. IsFiniteSet(requests') /\ Cardinality(requests') = Len(audit') /\ \A p \in requests' : p.event \in DOMAIN audit'
  <2>1. q \notin requests
      BY <1>4, <1>5, ZenonT(60) DEF CallsInv, AnswersAreBacked
  <2>2. IsFiniteSet(requests') /\ Cardinality(requests') = Cardinality(requests) + 1
      BY <1>4, <2>1, FS_AddElement, ZenonT(60) DEF CallsInv, AnswersAreBacked
  <2>3. DOMAIN audit \subseteq DOMAIN audit'
      BY <1>1, <1>5, SMTT(20)
  <2> QED BY <1>1, <1>4, <1>5, <2>2, <2>3 DEF CallsInv, AnswersAreBacked
<1>10. \A i \in DOMAIN audit : audit[i].request \in Calls \ {c}
  <2>1. \A i \in DOMAIN audit : audit[i].request \in Calls /\ call[audit[i].request].phase = "answered"
      BY ZenonT(60) DEF CallsInv, AnswersAreBacked
  <2> QED BY <2>1, ZenonT(60)
<1>11. /\ \A i \in DOMAIN audit' : audit'[i].request \in Calls /\ call'[audit'[i].request].phase = "answered"
       /\ \A i, j \in DOMAIN audit' : audit'[i].request = audit'[j].request => i = j
  <2>1. \A i \in DOMAIN audit' : audit'[i].request \in Calls /\ call'[audit'[i].request].phase = "answered"
    <3>1. ASSUME NEW i \in DOMAIN audit', i = n
          PROVE  audit'[i].request \in Calls /\ call'[audit'[i].request].phase = "answered"
        BY <1>1, <1>2, <3>1, ZenonT(60)
    <3>2. ASSUME NEW i \in DOMAIN audit
          PROVE  audit[i].request \in Calls \ {c} /\ call[audit[i].request].phase = "answered"
        BY <1>10, ZenonT(60) DEF CallsInv, AnswersAreBacked
    <3>3. ASSUME NEW i \in DOMAIN audit
          PROVE  audit[i].request \in Calls /\ call'[audit[i].request].phase = "answered"
        BY <1>2, <3>2, ZenonT(60)
    <3> QED BY <1>5, <3>1, <3>3, ZenonT(60)
  <2>2. \A i, j \in DOMAIN audit' : audit'[i].request = audit'[j].request => i = j
    <3> SUFFICES ASSUME NEW i \in DOMAIN audit', NEW j \in DOMAIN audit', audit'[i].request = audit'[j].request
                 PROVE  i = j
        OBVIOUS
    <3>1. CASE i = n \/ j = n
      <4>1. audit'[n].request = c /\ \A k \in DOMAIN audit : audit'[k].request # c
          BY <1>1, <1>10, ZenonT(60)
      <4> QED BY <1>5, <3>1, <4>1, ZenonT(60)
    <3>2. CASE i # n /\ j # n
      <4>1. i \in DOMAIN audit /\ j \in DOMAIN audit /\ audit[i].request = audit[j].request
          BY <1>5, <3>2
      <4> QED BY <4>1, ZenonT(60) DEF CallsInv, AnswersAreBacked
    <3> QED BY <3>1, <3>2
  <2> QED BY <2>1, <2>2, ZenonT(60)
<1>12. \A d \in Calls : call'[d].phase = "answered" => Backed(call[d])'
  <2>1. Backed(call[c])'
    <3>1. audit'[n].session.actor = call'[c].session.actor
        BY <1>1, <1>2, ZenonT(60)
    <3>2. \E p \in requests' : p.event = n /\ p.request = c /\ p.outcome = r.shown.outcome
        BY <1>4, ZenonT(60)
    <3> QED BY <1>1, <1>3, <1>5, <3>1, <3>2, ZenonT(60) DEF Backed, r
  <2>2. ASSUME NEW d \in Calls \ {c}, call'[d].phase = "answered"
        PROVE  Backed(call[d])'
    <3>1. call'[d] = call[d] /\ Backed(call[d])
        BY <1>2, <2>2, ZenonT(60) DEF CallsInv, AnswersAreBacked, Answered
    <3> DEFINE s == call[d].response
    <3>2. s.event \in DOMAIN audit
        BY <3>1, ZenonT(60) DEF Backed
    <3>3. audit'[s.event] = audit[s.event] /\ s.event \in DOMAIN audit'
      <4> HIDE DEF s
      <4> QED BY <1>1, <1>5, <3>2
    <3>4. requests \subseteq requests'
        BY <1>4
    <3> QED BY <3>1, <3>2, <3>3, <3>4, ZenonT(60) DEF Backed
  <2> QED BY <2>1, <2>2, ZenonT(60)
<1>13. AnswersAreBacked'
    BY <1>8, <1>9, <1>11, <1>12, ZenonT(60) DEF AnswersAreBacked, Answered, verifyAssistantAuditEvents
<1> QED BY <1>6, <1>7, <1>13

(* A step that adds no event and answers no call.                          *)
LEMMA QuietKeepsBacked ==
  ASSUME CallsInv, OpenedGrows, audit' = audit, requests' = requests, DOMAIN call' = Calls,
         \A d \in Calls : \/ call'[d] = call[d]
                          \/ /\ IsCall(call'[d]) /\ call[d].phase # "answered" /\ call'[d].phase # "answered"
                             /\ call'[d].phase \in InProgress => SessionHolds(call'[d].session)
  PROVE  CallsTypeOK' /\ SessionsHold' /\ AnswersAreBacked'
<1>1. CallsTypeOK'
    BY DEF CallsInv, CallsTypeOK, IsSequence
<1>2. SessionsHold'
  <2>1. \A i \in DOMAIN audit : SessionHolds(audit[i].session)'
    <3> SUFFICES ASSUME NEW i \in DOMAIN audit PROVE SessionHolds(audit[i].session)'
        OBVIOUS
    <3>1. SessionHolds(audit[i].session)
        BY ZenonT(60) DEF CallsInv, SessionsHold
    <3> QED BY <3>1, SessionStillHolds DEF SessionHolds
  <2>2. \A d \in Calls : call'[d].phase \in InProgress => SessionHolds(call[d].session)'
    <3> SUFFICES ASSUME NEW d \in Calls, call'[d].phase \in InProgress PROVE SessionHolds(call[d].session)'
        OBVIOUS
    <3>1. SessionHolds(call'[d].session)
        BY ZenonT(60) DEF CallsInv, SessionsHold
    <3> QED BY <3>1, SessionStillHolds, ZenonT(60) DEF SessionHolds
  <2> QED BY <2>1, <2>2, ZenonT(60) DEF SessionsHold
<1>3. \A d \in Calls : call'[d].phase = "answered" <=> call[d].phase = "answered"
    OBVIOUS
<1>4. \A d \in Calls : call'[d].phase = "answered" => call'[d] = call[d]
    OBVIOUS
<1>5. \A d \in Answered' : Backed(call[d])'
  <2> SUFFICES ASSUME NEW d \in Calls, call'[d].phase = "answered" PROVE Backed(call[d])'
      BY DEF Answered
  <2>1. Backed(call[d]) /\ call'[d] = call[d]
      BY <1>3, <1>4, ZenonT(60) DEF CallsInv, AnswersAreBacked, Answered
  <2> QED BY <2>1, ZenonT(60) DEF Backed
<1>6. \A i \in DOMAIN audit : audit[i].request \in Calls /\ call'[audit[i].request].phase = "answered"
    BY <1>3 DEF CallsInv, AnswersAreBacked
<1>7. AnswersAreBacked'
    BY <1>5, <1>6, ZenonT(60) DEF CallsInv, AnswersAreBacked, verifyAssistantAuditEvents
<1> QED BY <1>1, <1>2, <1>7

(* A call that joined another takes its answer, and with it what backs it. *)
LEMMA ShareKeepsBacked ==
  ASSUME CallsInv, OpenedGrows, NEW c \in Calls, share(c)
  PROVE  CallsTypeOK' /\ SessionsHold' /\ AnswersAreBacked'
<1> DEFINE o == call[c].owner
           x == [call[c] EXCEPT !.phase = "answered", !.response = call[o].response]
<1>0. /\ call[c].phase = "joined" /\ call[o].phase = "answered" /\ call' = [call EXCEPT ![c] = x]
      /\ audit' = audit /\ requests' = requests
    BY DEF share
<1>1. DOMAIN call = Calls /\ (\A d \in Calls : IsCall(call[d])) /\ IsSequence(audit)
    BY DEF CallsInv, CallsTypeOK
<1>2. /\ IsCall(x) /\ x.phase = "answered" /\ x.session = call[c].session /\ x.response = call[o].response
  <2>1. IsCall(x)
      BY <1>1, CallUpdated, ZenonT(60)
  <2>2. x.phase = "answered" /\ x.session = call[c].session /\ x.response = call[o].response
      BY <1>1 DEF IsCall
  <2> QED BY <2>1, <2>2
<1>3. o \in Calls /\ call[o].session.actor = call[c].session.actor
  <2>1. Keyed(call[c]) /\ idempotentAnswers[KeyOf(call[c])].owner = o
      BY <1>0, ZenonT(60) DEF CallsInv, KeysAreShared, Keyed
  <2>2. KeyOf(call[c]) \in DOMAIN idempotentAnswers
      BY <2>1, ZenonT(60) DEF CallsInv, KeysAreShared
  <2>3. o \in Calls /\ KeyOf(call[o]) = KeyOf(call[c])
      BY <2>1, <2>2, ZenonT(60) DEF CallsInv, KeysAreShared
  <2> QED BY <2>3 DEF KeyOf
<1> HIDE DEF x
<1>4. DOMAIN call' = Calls /\ call'[c] = x /\ \A d \in Calls \ {c} : call'[d] = call[d]
    BY <1>0, <1>1
<1>5. CallsTypeOK'
    BY <1>0, <1>1, <1>2, <1>4, ZenonT(60) DEF CallsTypeOK, IsSequence
<1>6. SessionsHold'
  <2>1. \A i \in DOMAIN audit : SessionHolds(audit[i].session)'
    <3> SUFFICES ASSUME NEW i \in DOMAIN audit PROVE SessionHolds(audit[i].session)'
        OBVIOUS
    <3>1. SessionHolds(audit[i].session)
        BY ZenonT(60) DEF CallsInv, SessionsHold
    <3> QED BY <1>0, <3>1, SessionStillHolds, ZenonT(60) DEF SessionHolds
  <2>2. \A d \in Calls : call'[d].phase \in InProgress => SessionHolds(call[d].session)'
    <3> SUFFICES ASSUME NEW d \in Calls, call'[d].phase \in InProgress PROVE SessionHolds(call[d].session)'
        OBVIOUS
    <3>1. d # c
        BY <1>2, <1>4 DEF InProgress
    <3>2. SessionHolds(call'[d].session)
        BY <1>4, <3>1, ZenonT(60) DEF CallsInv, SessionsHold
    <3> QED BY <3>2, SessionStillHolds, ZenonT(60) DEF SessionHolds
  <2> QED BY <1>0, <2>1, <2>2, ZenonT(60) DEF SessionsHold
<1>7. Backed(call[o])
    BY <1>0, <1>3 DEF CallsInv, AnswersAreBacked, Answered
<1>8. Backed(call[c])'
    BY <1>0, <1>2, <1>3, <1>4, <1>7, ZenonT(30) DEF Backed
<1>9. \A d \in Answered' : Backed(call[d])'
  <2> SUFFICES ASSUME NEW d \in Calls \ {c}, call'[d].phase = "answered" PROVE Backed(call[d])'
      BY <1>8 DEF Answered
  <2>1. Backed(call[d]) /\ call'[d] = call[d]
      BY <1>4, ZenonT(60) DEF CallsInv, AnswersAreBacked, Answered
  <2> QED BY <1>0, <2>1, ZenonT(60) DEF Backed
<1>10. \A i \in DOMAIN audit : audit[i].request \in Calls /\ call'[audit[i].request].phase = "answered"
    BY <1>2, <1>4 DEF CallsInv, AnswersAreBacked
<1>11. AnswersAreBacked'
    BY <1>0, <1>9, <1>10, ZenonT(60) DEF CallsInv, AnswersAreBacked, verifyAssistantAuditEvents
<1> QED BY <1>5, <1>6, <1>11

(* What a call has under its key.                                          *)
LEMMA KeyOfCall ==
  ASSUME KeysAreShared, NEW d \in Calls, Keyed(call[d])
  PROVE  LET e == idempotentAnswers[KeyOf(call[d])]
         IN  /\ KeyOf(call[d]) \in DOMAIN idempotentAnswers /\ e.fingerprint = call[d].query /\ e.owner \in Calls
             /\ call[d].phase \in InProgress => e.owner = d
             /\ call[d].phase = "answered" => call[e.owner].phase = "answered" /\ call[e.owner].response = call[d].response
    BY ZenonT(30) DEF KeysAreShared

(* A call that has joined another has its key.                             *)
LEMMA KeyOfJoined ==
  ASSUME KeysAreShared, NEW d \in Calls, call[d].phase = "joined"
  PROVE  call[d].query.key # NoKey /\ idempotentAnswers[KeyOf(call[d])].owner = call[d].owner
    BY ZenonT(60) DEF KeysAreShared

(* The keys, when a call in progress goes on or ends.                      *)
LEMMA AdvanceKeepsKeys ==
  ASSUME KeysAreShared, NEW c \in Calls, idempotentAnswers' = idempotentAnswers,
         \A d \in Calls \ {c} : call'[d] = call[d],
         call'[c].query = call[c].query, call'[c].session = call[c].session,
         call[c].phase \in InProgress, call'[c].phase \in InProgress \cup {"answered"}
  PROVE  KeysAreShared'
<1>1. \A d \in Calls : KeyOf(call'[d]) = KeyOf(call[d]) /\ call'[d].query = call[d].query
    BY DEF KeyOf
<1>2. \A d \in Calls : Keyed(call'[d]) <=> Keyed(call[d])
    BY DEF Keyed, InProgress
<1>3. ASSUME NEW k \in DOMAIN idempotentAnswers
      PROVE  LET e == idempotentAnswers[k]
             IN  /\ e.owner \in Calls /\ KeyOf(call'[e.owner]) = k /\ call'[e.owner].query = e.fingerprint
                 /\ call'[e.owner].phase \in InProgress \cup {"answered"}
  <2> DEFINE e == idempotentAnswers[k]
  <2>1. /\ e.owner \in Calls /\ KeyOf(call[e.owner]) = k /\ call[e.owner].query = e.fingerprint
        /\ call[e.owner].phase \in InProgress \cup {"answered"}
      BY <1>3, ZenonT(60) DEF KeysAreShared
  <2>2. KeyOf(call'[e.owner]) = k /\ call'[e.owner].query = e.fingerprint
      BY <1>1, <2>1, ZenonT(60)
  <2>3. call'[e.owner].phase \in InProgress \cup {"answered"}
      BY <2>1, ZenonT(60)
  <2> QED BY <2>1, <2>2, <2>3, ZenonT(60)
<1>4. ASSUME NEW d \in Calls, Keyed(call'[d])
      PROVE  /\ KeyOf(call'[d]) \in DOMAIN idempotentAnswers
             /\ idempotentAnswers[KeyOf(call'[d])].fingerprint = call'[d].query
  <2>1. Keyed(call[d])
      BY <1>2, <1>4, ZenonT(60)
  <2>2. KeyOf(call[d]) \in DOMAIN idempotentAnswers /\ idempotentAnswers[KeyOf(call[d])].fingerprint = call[d].query
      BY <2>1, KeyOfCall, ZenonT(60)
  <2> QED BY <1>1, <2>2, ZenonT(60)
<1>5. ASSUME NEW d \in Calls, Keyed(call'[d]), call'[d].phase \in InProgress
      PROVE  idempotentAnswers[KeyOf(call'[d])].owner = d
  <2>1. Keyed(call[d]) /\ call[d].phase \in InProgress
      BY <1>2, <1>5, ZenonT(60)
  <2>2. idempotentAnswers[KeyOf(call[d])].owner = d
      BY <2>1, KeyOfCall, ZenonT(60)
  <2> QED BY <1>1, <2>2, ZenonT(60)
<1>6. ASSUME NEW d \in Calls, call'[d].phase = "joined"
      PROVE  call'[d].query.key # NoKey /\ idempotentAnswers[KeyOf(call'[d])].owner = call'[d].owner
  <2>1. d # c
      BY <1>6 DEF InProgress
  <2>2. call'[d] = call[d]
      BY <2>1, ZenonT(60)
  <2>3. call[d].phase = "joined"
      BY <1>6, <2>2, ZenonT(60)
  <2> QED BY <2>2, <2>3, KeyOfJoined, ZenonT(60)
<1>7. ASSUME NEW d \in Calls, Keyed(call'[d]), call'[d].phase = "answered"
      PROVE  LET o == idempotentAnswers[KeyOf(call'[d])].owner
             IN  call'[o].phase = "answered" /\ call'[o].response = call'[d].response
  <2> DEFINE o == idempotentAnswers[KeyOf(call[d])].owner
  <2>1. Keyed(call[d]) /\ o \in Calls /\ KeyOf(call'[d]) = KeyOf(call[d])
      BY <1>1, <1>2, <1>7, ZenonT(60) DEF KeysAreShared
  <2>2. CASE d = c
      BY <1>7, <2>1, <2>2, ZenonT(60) DEF KeysAreShared
  <2>3. CASE d # c
    <3>1. call[o].phase = "answered" /\ call[o].response = call[d].response
        BY <1>7, <2>1, <2>3, ZenonT(60) DEF KeysAreShared
    <3>2. o # c
        BY <3>1 DEF InProgress
    <3> QED BY <2>1, <2>3, <3>1, <3>2, ZenonT(60)
  <2> QED BY <2>2, <2>3
<1> QED BY <1>3, <1>4, <1>5, <1>6, <1>7, ZenonT(60) DEF KeysAreShared

(* The keys, when a call that has not begun is refused, or joins the call  *)
(* that has its key for the same query.                                    *)
LEMMA BeginKeepsKeys ==
  ASSUME KeysAreShared, NEW c \in Calls, idempotentAnswers' = idempotentAnswers,
         \A d \in Calls \ {c} : call'[d] = call[d], call[c].phase = "idle",
         \/ call'[c].phase \in {"denied", "rejected"}
         \/ /\ call'[c].phase = "joined" /\ call'[c].query.key # NoKey /\ KeyOf(call'[c]) \in DOMAIN idempotentAnswers
            /\ idempotentAnswers[KeyOf(call'[c])].owner = call'[c].owner
            /\ idempotentAnswers[KeyOf(call'[c])].fingerprint = call'[c].query
  PROVE  KeysAreShared'
<1>1. \A d \in Calls \ {c} : KeyOf(call'[d]) = KeyOf(call[d]) /\ (Keyed(call'[d]) <=> Keyed(call[d]))
    BY DEF KeyOf, Keyed
<1>2. \A k \in DOMAIN idempotentAnswers : idempotentAnswers[k].owner \in Calls \ {c}
    BY ZenonT(60) DEF KeysAreShared, InProgress
<1>3. call'[c].phase \notin InProgress /\ call'[c].phase # "answered"
    BY ZenonT(60) DEF InProgress
<1>4. \A k \in DOMAIN idempotentAnswers :
        LET e == idempotentAnswers[k]
        IN  /\ e.owner \in Calls /\ KeyOf(call'[e.owner]) = k /\ call'[e.owner].query = e.fingerprint
            /\ call'[e.owner].phase \in InProgress \cup {"answered"}
  <2> SUFFICES ASSUME NEW k \in DOMAIN idempotentAnswers
               PROVE  LET o == idempotentAnswers[k].owner
                      IN  /\ o \in Calls /\ KeyOf(call'[o]) = k /\ call'[o].query = idempotentAnswers[k].fingerprint
                          /\ call'[o].phase \in InProgress \cup {"answered"}
      BY ZenonT(60)
  <2>1. LET o == idempotentAnswers[k].owner
        IN  /\ o \in Calls /\ KeyOf(call[o]) = k /\ call[o].query = idempotentAnswers[k].fingerprint
            /\ call[o].phase \in InProgress \cup {"answered"}
      BY ZenonT(60) DEF KeysAreShared
  <2> QED BY <1>1, <1>2, <2>1
<1>5. \A d \in Calls : Keyed(call'[d]) =>
        KeyOf(call'[d]) \in DOMAIN idempotentAnswers /\ idempotentAnswers[KeyOf(call'[d])].fingerprint = call'[d].query
  <2>1. ASSUME NEW d \in Calls \ {c}, Keyed(call'[d])
        PROVE  KeyOf(call'[d]) \in DOMAIN idempotentAnswers /\ idempotentAnswers[KeyOf(call'[d])].fingerprint = call'[d].query
      BY <1>1, <2>1, KeyOfCall, ZenonT(60)
  <2>2. Keyed(call'[c]) => call'[c].phase = "joined"
      BY <1>3, ZenonT(60) DEF Keyed
  <2> QED BY <2>1, <2>2, ZenonT(60)
<1>6. \A d \in Calls : Keyed(call'[d]) /\ call'[d].phase \in InProgress => idempotentAnswers[KeyOf(call'[d])].owner = d
    BY <1>1, <1>3, KeyOfCall, ZenonT(60)
<1>7. \A d \in Calls : call'[d].phase = "joined" =>
        call'[d].query.key # NoKey /\ idempotentAnswers[KeyOf(call'[d])].owner = call'[d].owner
  <2>1. ASSUME NEW d \in Calls \ {c}, call[d].phase = "joined"
        PROVE  call[d].query.key # NoKey /\ idempotentAnswers[KeyOf(call[d])].owner = call[d].owner
      BY <2>1, ZenonT(60) DEF KeysAreShared
  <2> QED BY <1>1, <2>1
<1>8. ASSUME NEW d \in Calls, Keyed(call'[d]), call'[d].phase = "answered"
      PROVE  LET o == idempotentAnswers[KeyOf(call'[d])].owner
             IN  call'[o].phase = "answered" /\ call'[o].response = call'[d].response
  <2> DEFINE o == idempotentAnswers[KeyOf(call[d])].owner
  <2>1. d # c /\ Keyed(call[d]) /\ KeyOf(call'[d]) = KeyOf(call[d]) /\ KeyOf(call[d]) \in DOMAIN idempotentAnswers
      BY <1>1, <1>3, <1>8, ZenonT(60) DEF KeysAreShared
  <2>2. o \in Calls \ {c}
      BY <1>2, <2>1
  <2>3. call[o].phase = "answered" /\ call[o].response = call[d].response
      BY <1>8, <2>1, ZenonT(60) DEF KeysAreShared
  <2> QED BY <2>1, <2>2, <2>3, ZenonT(60)
<1> QED BY <1>4, <1>5, <1>6, <1>7, <1>8, ZenonT(60) DEF KeysAreShared

(* The keys, when a call takes its own.                                    *)
LEMMA TakeKeepsKeys ==
  ASSUME KeysAreShared, NEW c \in Calls, \A d \in Calls \ {c} : call'[d] = call[d], call[c].phase = "idle",
         call'[c].phase \in InProgress \cup {"answered"},
         call'[c].query.key = NoKey => idempotentAnswers' = idempotentAnswers,
         call'[c].query.key # NoKey =>
           /\ KeyOf(call'[c]) \notin DOMAIN idempotentAnswers
           /\ idempotentAnswers' = [k \in DOMAIN idempotentAnswers \cup {KeyOf(call'[c])} |->
                                      IF k = KeyOf(call'[c]) THEN [fingerprint |-> call'[c].query, owner |-> c]
                                      ELSE idempotentAnswers[k]]
  PROVE  KeysAreShared'
<1> DEFINE taken == idempotentAnswers'
           key == KeyOf(call'[c])
<1>1. \A d \in Calls \ {c} : KeyOf(call'[d]) = KeyOf(call[d]) /\ (Keyed(call'[d]) <=> Keyed(call[d]))
    BY ZenonT(60) DEF KeyOf, Keyed
<1>2. \A k \in DOMAIN idempotentAnswers : idempotentAnswers[k].owner \in Calls \ {c}
    BY ZenonT(60) DEF KeysAreShared, InProgress
<1>3. /\ \A k \in DOMAIN idempotentAnswers : k \in DOMAIN taken /\ taken[k] = idempotentAnswers[k]
      /\ \A k \in DOMAIN taken : k \in DOMAIN idempotentAnswers \/ (call'[c].query.key # NoKey /\ k = key)
      /\ call'[c].query.key # NoKey =>
           key \in DOMAIN taken /\ taken[key].owner = c /\ taken[key].fingerprint = call'[c].query
  <2>1. CASE call'[c].query.key = NoKey
      BY <2>1
  <2>2. CASE call'[c].query.key # NoKey
    <3> HIDE DEF key
    <3>1. key \notin DOMAIN idempotentAnswers
          /\ idempotentAnswers' = [k \in DOMAIN idempotentAnswers \cup {key} |->
                                     IF k = key THEN [fingerprint |-> call'[c].query, owner |-> c]
                                     ELSE idempotentAnswers[k]]
        BY <2>2, ZenonT(60) DEF key
    <3> QED BY <2>2, <3>1
  <2> QED BY <2>1, <2>2
<1> HIDE DEF taken
<1>4. \A k \in DOMAIN taken :
        LET e == taken[k]
        IN  /\ e.owner \in Calls /\ KeyOf(call'[e.owner]) = k /\ call'[e.owner].query = e.fingerprint
            /\ call'[e.owner].phase \in InProgress \cup {"answered"}
  <2> SUFFICES ASSUME NEW k \in DOMAIN taken
               PROVE  /\ taken[k].owner \in Calls /\ KeyOf(call'[taken[k].owner]) = k
                      /\ call'[taken[k].owner].query = taken[k].fingerprint
                      /\ call'[taken[k].owner].phase \in InProgress \cup {"answered"}
      BY ZenonT(60)
  <2>1. CASE k \in DOMAIN idempotentAnswers
    <3>1. taken[k] = idempotentAnswers[k] /\ taken[k].owner \in Calls \ {c}
        BY <1>2, <1>3, <2>1, ZenonT(60)
    <3>2. /\ KeyOf(call[taken[k].owner]) = k /\ call[taken[k].owner].query = taken[k].fingerprint
          /\ call[taken[k].owner].phase \in InProgress \cup {"answered"}
        BY <1>1, <2>1, <3>1 DEF KeysAreShared
    <3> QED BY <1>1, <3>1, <3>2, ZenonT(60)
  <2>2. CASE k \notin DOMAIN idempotentAnswers
      BY <1>3, <2>2, ZenonT(60)
  <2> QED BY <2>1, <2>2
<1>5. \A d \in Calls : Keyed(call'[d]) => KeyOf(call'[d]) \in DOMAIN taken /\ taken[KeyOf(call'[d])].fingerprint = call'[d].query
  <2>1. ASSUME NEW d \in Calls \ {c}, Keyed(call'[d])
        PROVE  KeyOf(call'[d]) \in DOMAIN taken /\ taken[KeyOf(call'[d])].fingerprint = call'[d].query
      BY <1>1, <1>3, <2>1, KeyOfCall
  <2>2. Keyed(call'[c]) => key \in DOMAIN taken /\ taken[key].fingerprint = call'[c].query
      BY <1>3 DEF Keyed
  <2> QED BY <2>1, <2>2, ZenonT(60)
<1>6. \A d \in Calls : Keyed(call'[d]) /\ call'[d].phase \in InProgress => taken[KeyOf(call'[d])].owner = d
  <2>1. ASSUME NEW d \in Calls \ {c}, Keyed(call'[d]), call'[d].phase \in InProgress
        PROVE  taken[KeyOf(call'[d])].owner = d
      BY <1>1, <1>3, <2>1 DEF KeysAreShared
  <2>2. Keyed(call'[c]) => taken[key].owner = c
      BY <1>3, ZenonT(60) DEF Keyed
  <2> QED BY <2>1, <2>2, ZenonT(60)
<1>7. \A d \in Calls : call'[d].phase = "joined" =>
        call'[d].query.key # NoKey /\ taken[KeyOf(call'[d])].owner = call'[d].owner
  <2> SUFFICES ASSUME NEW d \in Calls, call'[d].phase = "joined"
               PROVE  call'[d].query.key # NoKey /\ taken[KeyOf(call'[d])].owner = call'[d].owner
      OBVIOUS
  <2>1. d # c
      BY ZenonT(60) DEF InProgress
  <2>2. call[d].query.key # NoKey /\ idempotentAnswers[KeyOf(call[d])].owner = call[d].owner /\ Keyed(call[d])
      BY <2>1, ZenonT(60) DEF KeysAreShared, Keyed
  <2>3. KeyOf(call[d]) \in DOMAIN idempotentAnswers
      BY <2>2, ZenonT(60) DEF KeysAreShared
  <2> QED BY <1>1, <1>3, <2>1, <2>2, <2>3, ZenonT(60)
<1>8. ASSUME NEW d \in Calls, Keyed(call'[d]), call'[d].phase = "answered"
      PROVE  LET o == taken[KeyOf(call'[d])].owner
             IN  call'[o].phase = "answered" /\ call'[o].response = call'[d].response
  <2>1. CASE d = c
      BY <1>3, <1>8, <2>1 DEF Keyed
  <2>2. CASE d # c
    <3> DEFINE o == idempotentAnswers[KeyOf(call[d])].owner
    <3>1. Keyed(call[d]) /\ KeyOf(call'[d]) = KeyOf(call[d]) /\ KeyOf(call[d]) \in DOMAIN idempotentAnswers
        BY <1>1, <1>8, <2>2 DEF KeysAreShared
    <3>2. o \in Calls \ {c} /\ taken[KeyOf(call[d])] = idempotentAnswers[KeyOf(call[d])]
        BY <1>2, <1>3, <3>1, ZenonT(60)
    <3>3. call[o].phase = "answered" /\ call[o].response = call[d].response
        BY <1>8, <2>2, <3>1 DEF KeysAreShared
    <3> QED BY <2>2, <3>1, <3>2, <3>3, ZenonT(60)
  <2> QED BY <2>1, <2>2, ZenonT(60)
<1> QED BY <1>4, <1>5, <1>6, <1>7, <1>8, ZenonT(60) DEF KeysAreShared, taken

(* The keys, when a call fails with those that joined it.                  *)
LEMMA FailKeepsKeys ==
  ASSUME KeysAreShared, NEW c \in Calls, call[c].phase \in InProgress, Fail(c),
         \A d \in Calls : IsCall(call[d])
  PROVE  KeysAreShared'
<1> DEFINE kept == idempotentAnswers'
           fails(d) == d = c \/ (call[d].phase = "joined" /\ call[d].owner = c)
<1>1. /\ DOMAIN kept = {k \in DOMAIN idempotentAnswers : idempotentAnswers[k].owner # c}
      /\ \A k \in DOMAIN kept : kept[k] = idempotentAnswers[k]
    BY DEF Fail
<1>2. \A d \in Calls : IF fails(d) THEN call'[d].phase = "failed" ELSE call'[d] = call[d]
    BY DEF Fail, IsCall
<1> HIDE DEF kept
<1>3. \A d \in Calls : ~ fails(d) => KeyOf(call'[d]) = KeyOf(call[d]) /\ (Keyed(call'[d]) <=> Keyed(call[d]))
    BY <1>2 DEF KeyOf, Keyed
<1>4. \A d \in Calls : call'[d].phase \in InProgress \cup {"joined", "answered"} => ~ fails(d)
    BY <1>2 DEF InProgress
<1>5. ASSUME NEW d \in Calls, Keyed(call'[d])
      PROVE  ~ fails(d) /\ Keyed(call[d]) /\ KeyOf(call'[d]) = KeyOf(call[d]) /\ KeyOf(call[d]) \in DOMAIN kept
  <2>1. ~ fails(d) /\ Keyed(call[d]) /\ KeyOf(call'[d]) = KeyOf(call[d])
      BY <1>3, <1>4, <1>5 DEF Keyed
  <2>2. KeyOf(call[d]) \in DOMAIN idempotentAnswers
      BY <2>1, ZenonT(60) DEF KeysAreShared
  <2>3. idempotentAnswers[KeyOf(call[d])].owner # c
    <3>1. CASE call[d].phase \in InProgress
        BY <2>1, <3>1, ZenonT(60) DEF KeysAreShared
    <3>2. CASE call[d].phase = "joined"
        BY <2>1, <3>2, ZenonT(60) DEF KeysAreShared
    <3>3. CASE call[d].phase = "answered"
        BY <2>1, <3>3, ZenonT(60) DEF KeysAreShared, InProgress
    <3> QED BY <2>1, <3>1, <3>2, <3>3 DEF Keyed
  <2> QED BY <1>1, <2>1, <2>2, <2>3, ZenonT(60)
<1>6. \A k \in DOMAIN kept :
        LET e == kept[k]
        IN  /\ e.owner \in Calls /\ KeyOf(call'[e.owner]) = k /\ call'[e.owner].query = e.fingerprint
            /\ call'[e.owner].phase \in InProgress \cup {"answered"}
  <2> SUFFICES ASSUME NEW k \in DOMAIN kept
               PROVE  /\ kept[k].owner \in Calls /\ KeyOf(call'[kept[k].owner]) = k
                      /\ call'[kept[k].owner].query = kept[k].fingerprint
                      /\ call'[kept[k].owner].phase \in InProgress \cup {"answered"}
      BY ZenonT(60)
  <2> DEFINE o == kept[k].owner
  <2>1. kept[k] = idempotentAnswers[k] /\ k \in DOMAIN idempotentAnswers /\ o # c
      BY <1>1
  <2>2. /\ o \in Calls /\ KeyOf(call[o]) = k /\ call[o].query = kept[k].fingerprint
        /\ call[o].phase \in InProgress \cup {"answered"}
      BY <2>1, ZenonT(60) DEF KeysAreShared
  <2>3. ~ fails(o)
      BY <2>1, <2>2 DEF InProgress
  <2> QED BY <1>2, <1>3, <2>2, <2>3, ZenonT(60)
<1>7. ASSUME NEW d \in Calls, Keyed(call'[d])
      PROVE  KeyOf(call'[d]) \in DOMAIN kept /\ kept[KeyOf(call'[d])].fingerprint = call'[d].query
  <2>1. ~ fails(d) /\ Keyed(call[d]) /\ KeyOf(call'[d]) = KeyOf(call[d]) /\ KeyOf(call[d]) \in DOMAIN kept
      BY <1>5, <1>7, ZenonT(60)
  <2>2. call'[d] = call[d] /\ kept[KeyOf(call[d])] = idempotentAnswers[KeyOf(call[d])]
      BY <1>1, <1>2, <2>1, ZenonT(60)
  <2>3. idempotentAnswers[KeyOf(call[d])].fingerprint = call[d].query
      BY <2>1, KeyOfCall, ZenonT(60)
  <2> QED BY <2>1, <2>2, <2>3, ZenonT(60)
<1>8. ASSUME NEW d \in Calls, Keyed(call'[d]), call'[d].phase \in InProgress
      PROVE  kept[KeyOf(call'[d])].owner = d
  <2>1. ~ fails(d) /\ Keyed(call[d]) /\ KeyOf(call'[d]) = KeyOf(call[d]) /\ KeyOf(call[d]) \in DOMAIN kept
      BY <1>5, <1>8, ZenonT(60)
  <2>2. call'[d] = call[d] /\ kept[KeyOf(call[d])] = idempotentAnswers[KeyOf(call[d])]
      BY <1>1, <1>2, <2>1, ZenonT(60)
  <2>3. idempotentAnswers[KeyOf(call[d])].owner = d
      BY <1>8, <2>1, <2>2, KeyOfCall, ZenonT(60)
  <2> QED BY <2>1, <2>2, <2>3, ZenonT(60)
<1>9. \A d \in Calls : call'[d].phase = "joined" =>
        call'[d].query.key # NoKey /\ kept[KeyOf(call'[d])].owner = call'[d].owner
  <2> SUFFICES ASSUME NEW d \in Calls, call'[d].phase = "joined"
               PROVE  call'[d].query.key # NoKey /\ kept[KeyOf(call'[d])].owner = call'[d].owner
      BY ZenonT(60)
  <2>1. call'[d] = call[d]
      BY <1>2
  <2>2. call[d].query.key # NoKey /\ idempotentAnswers[KeyOf(call[d])].owner = call[d].owner /\ Keyed(call'[d])
      BY <2>1, ZenonT(60) DEF KeysAreShared, Keyed
  <2> QED BY <1>1, <1>5, <2>1, <2>2, ZenonT(60)
<1>10. ASSUME NEW d \in Calls, Keyed(call'[d]), call'[d].phase = "answered"
       PROVE  LET o == kept[KeyOf(call'[d])].owner
              IN  call'[o].phase = "answered" /\ call'[o].response = call'[d].response
  <2> DEFINE o == idempotentAnswers[KeyOf(call[d])].owner
  <2>1. Keyed(call[d]) /\ KeyOf(call'[d]) = KeyOf(call[d]) /\ kept[KeyOf(call[d])] = idempotentAnswers[KeyOf(call[d])]
        /\ KeyOf(call[d]) \in DOMAIN idempotentAnswers /\ call'[d] = call[d]
      BY <1>1, <1>2, <1>5, <1>10, ZenonT(60)
  <2>2. o \in Calls /\ call[o].phase = "answered" /\ call[o].response = call[d].response
      BY <1>10, <2>1, ZenonT(60) DEF KeysAreShared
  <2>3. call'[o] = call[o]
      BY <1>2, <2>2, ZenonT(60) DEF InProgress
  <2> QED BY <2>1, <2>2, <2>3, ZenonT(60)
<1> QED BY <1>6, <1>7, <1>8, <1>9, <1>10, ZenonT(60) DEF KeysAreShared, kept

(* The keys, when a call that joined another takes its answer.             *)
LEMMA ShareKeepsKeys ==
  ASSUME CallsInv, NEW c \in Calls, share(c)
  PROVE  KeysAreShared'
<1> DEFINE o == call[c].owner
           x == [call[c] EXCEPT !.phase = "answered", !.response = call[o].response]
<1>0. /\ call[c].phase = "joined" /\ call[o].phase = "answered" /\ call' = [call EXCEPT ![c] = x]
      /\ idempotentAnswers' = idempotentAnswers
    BY DEF share
<1>1. DOMAIN call = Calls /\ IsCall(call[c]) /\ KeysAreShared
    BY DEF CallsInv, CallsTypeOK
<1>2. x.phase = "answered" /\ x.session = call[c].session /\ x.query = call[c].query /\ x.response = call[o].response
    BY <1>1 DEF IsCall
<1> HIDE DEF x
<1>3. call'[c] = x /\ \A d \in Calls \ {c} : call'[d] = call[d]
    BY <1>0, <1>1, ZenonT(60)
<1>4. \A d \in Calls : KeyOf(call'[d]) = KeyOf(call[d]) /\ call'[d].query = call[d].query /\ (Keyed(call'[d]) <=> Keyed(call[d]))
    BY <1>0, <1>2, <1>3 DEF KeyOf, Keyed
<1>5. Keyed(call[c]) /\ idempotentAnswers[KeyOf(call[c])].owner = o /\ o # c
    BY <1>0, <1>1, ZenonT(60) DEF KeysAreShared, Keyed
<1>6. \A k \in DOMAIN idempotentAnswers : idempotentAnswers[k].owner \in Calls \ {c}
    BY <1>0, <1>1, ZenonT(60) DEF KeysAreShared, InProgress
<1>7. \A k \in DOMAIN idempotentAnswers :
        LET e == idempotentAnswers[k]
        IN  /\ e.owner \in Calls /\ KeyOf(call'[e.owner]) = k /\ call'[e.owner].query = e.fingerprint
            /\ call'[e.owner].phase \in InProgress \cup {"answered"}
    BY <1>0, <1>1, <1>3, <1>4, <1>6, ZenonT(60) DEF KeysAreShared
<1>8. \A d \in Calls : Keyed(call'[d]) =>
        KeyOf(call'[d]) \in DOMAIN idempotentAnswers /\ idempotentAnswers[KeyOf(call'[d])].fingerprint = call'[d].query
    BY <1>1, <1>4, ZenonT(60) DEF KeysAreShared
<1>9. ASSUME NEW d \in Calls, call'[d].phase \in InProgress \cup {"joined"} PROVE call'[d] = call[d]
  <2>1. d # c
      BY <1>2, <1>3, <1>9 DEF InProgress
  <2> QED BY <1>3, <2>1, ZenonT(60)
<1>10. ASSUME NEW d \in Calls, Keyed(call'[d]), call'[d].phase \in InProgress
       PROVE  idempotentAnswers[KeyOf(call'[d])].owner = d
  <2>1. call'[d] = call[d]
      BY <1>9, <1>10, ZenonT(60)
  <2> QED BY <1>1, <1>10, <2>1, KeyOfCall, ZenonT(60)
<1>11. \A d \in Calls : call'[d].phase = "joined" =>
        call'[d].query.key # NoKey /\ idempotentAnswers[KeyOf(call'[d])].owner = call'[d].owner
  <2>1. ASSUME NEW d \in Calls, call[d].phase = "joined"
        PROVE  call[d].query.key # NoKey /\ idempotentAnswers[KeyOf(call[d])].owner = call[d].owner
      BY <1>1, <2>1, ZenonT(60) DEF KeysAreShared
  <2>2. ASSUME NEW d \in Calls, call'[d].phase = "joined" PROVE call'[d] = call[d]
      BY <1>9, <2>2
  <2> QED BY <2>1, <2>2, ZenonT(60)
<1>12. ASSUME NEW d \in Calls, Keyed(call'[d]), call'[d].phase = "answered"
       PROVE  LET p == idempotentAnswers[KeyOf(call'[d])].owner
              IN  call'[p].phase = "answered" /\ call'[p].response = call'[d].response
  <2> DEFINE p == idempotentAnswers[KeyOf(call[d])].owner
  <2>1. Keyed(call[d]) /\ KeyOf(call'[d]) = KeyOf(call[d]) /\ p \in Calls \ {c}
      BY <1>1, <1>4, <1>6, <1>12, ZenonT(60) DEF KeysAreShared
  <2>2. call[p].phase = "answered" /\ call[p].response = call'[d].response
    <3>1. CASE d = c
        BY <1>0, <1>2, <1>3, <1>5, <3>1
    <3>2. CASE d # c
        BY <1>1, <1>3, <1>12, <2>1, <3>2, ZenonT(60) DEF KeysAreShared
    <3> QED BY <3>1, <3>2, ZenonT(60)
  <2> QED BY <1>3, <2>1, <2>2, ZenonT(60)
<1>13. idempotentAnswers' = idempotentAnswers
    BY <1>0
<1> QED BY <1>7, <1>8, <1>10, <1>11, <1>12, <1>13, ZenonT(60) DEF KeysAreShared

(* A call in progress goes on or ends.                                     *)
LEMMA CallStep ==
  ASSUME CallsInv, OpenedGrows, NEW c \in Calls, call[c].phase \in InProgress, NEW rec, IsCall(rec),
         rec.query = call[c].query, rec.session = call[c].session, Ends(c, rec) \/ Goes(c, rec),
         idempotentAnswers' = idempotentAnswers
  PROVE  CallsInv'
<1>1. KeysAreShared /\ DOMAIN call = Calls /\ IsSequence(audit) /\ call[c].phase # "answered" /\ SessionHolds(rec.session)
    BY ZenonT(60) DEF CallsInv, CallsTypeOK, SessionsHold, InProgress
<1>2. CASE Ends(c, rec)
  <2>1. CallsTypeOK' /\ SessionsHold' /\ AnswersAreBacked'
      BY <1>1, <1>2, EndKeepsBacked
  <2>2. /\ \A d \in Calls \ {c} : call'[d] = call[d]
        /\ call'[c].phase = "answered" /\ call'[c].query = rec.query /\ call'[c].session = rec.session
      BY <1>1, <1>2, EndsEffect, ZenonT(60)
  <2>3. KeysAreShared'
      BY <1>1, <2>2, AdvanceKeepsKeys, ZenonT(60)
  <2> QED BY <2>1, <2>3, ZenonT(60) DEF CallsInv
<1>3. CASE Goes(c, rec)
  <2>1. PICK x : /\ call' = [call EXCEPT ![c] = x] /\ IsCall(x) /\ x.phase \in InProgress
                 /\ x.query = rec.query /\ x.session = rec.session
      BY <1>3, ZenonT(60) DEF Goes
  <2>2. DOMAIN call' = Calls /\ call'[c] = x /\ \A d \in Calls \ {c} : call'[d] = call[d]
      BY <1>1, <2>1, ZenonT(60)
  <2>3. KeysAreShared'
      BY <1>1, <2>1, <2>2, AdvanceKeepsKeys, ZenonT(60)
  <2>4. x.phase # "answered" /\ audit' = audit /\ requests' = requests
      BY <1>3, <2>1, ZenonT(60) DEF InProgress, Goes
  <2>5. CallsTypeOK' /\ SessionsHold' /\ AnswersAreBacked'
      BY <1>1, <2>1, <2>2, <2>4, QuietKeepsBacked, ZenonT(60)
  <2> QED BY <2>3, <2>5 DEF CallsInv
<1> QED BY <1>2, <1>3, ZenonT(60)

(* A call in progress fails.                                               *)
LEMMA FailStep ==
  ASSUME CallsInv, OpenedGrows, NEW c \in Calls, call[c].phase \in InProgress, Fail(c)
  PROVE  CallsInv'
<1>1. KeysAreShared /\ \A d \in Calls : IsCall(call[d])
    BY DEF CallsInv, CallsTypeOK
<1>2. KeysAreShared'
    BY <1>1, FailKeepsKeys
<1>3. audit' = audit /\ requests' = requests /\ DOMAIN call' = Calls
    BY DEF Fail
<1>4. \A d \in Calls : \/ call'[d] = call[d]
                       \/ /\ IsCall(call'[d]) /\ call[d].phase # "answered" /\ call'[d].phase # "answered"
                          /\ call'[d].phase \in InProgress => SessionHolds(call'[d].session)
  <2> SUFFICES ASSUME NEW d \in Calls, call'[d] # call[d]
               PROVE  /\ IsCall(call'[d]) /\ call[d].phase # "answered" /\ call'[d].phase # "answered"
                      /\ call'[d].phase \in InProgress => SessionHolds(call'[d].session)
      OBVIOUS
  <2>1. call'[d] = [call[d] EXCEPT !.phase = "failed"] /\ (d = c \/ call[d].phase = "joined")
      BY DEF Fail
  <2>2. IsCall(call'[d])
    <3> DEFINE x == [call[d] EXCEPT !.phase = "failed"]
    <3>1. IsCall(x)
        BY <1>1, CallFieldSet, ZenonT(60)
    <3> HIDE DEF x
    <3>2. call'[d] = x
        BY <2>1 DEF x
    <3> QED BY <3>1, <3>2
  <2>3. call'[d].phase = "failed"
      BY <1>1, <2>1, ZenonT(60) DEF IsCall
  <2> QED BY <2>1, <2>2, <2>3, ZenonT(60) DEF InProgress
<1>5. CallsTypeOK' /\ SessionsHold' /\ AnswersAreBacked'
    BY <1>3, <1>4, QuietKeepsBacked
<1> QED BY <1>2, <1>5 DEF CallsInv

LEMMA authorizeStep ==
  ASSUME CallsInv, OpenedGrows, NEW c \in Calls, authorize(c)
  PROVE  CallsInv'
<1>1. /\ call[c].phase \in InProgress /\ IsCall(call[c]) /\ DOMAIN call = Calls /\ idempotentAnswers' = idempotentAnswers
    BY DEF CallsInv, CallsTypeOK, InProgress, authorize
<1>2. CASE call' = [call EXCEPT ![c].phase = "executing"] /\ UNCHANGED <<audit, requests>>
  <2> DEFINE x == [call[c] EXCEPT !.phase = "executing"]
  <2>1. call' = [call EXCEPT ![c] = x]
      BY <1>2
  <2>2. IsCall(x) /\ x.phase = "executing" /\ x.query = call[c].query /\ x.session = call[c].session
      BY <1>1 DEF IsCall
  <2>3. Goes(c, call[c])
      BY <1>2, <2>1, <2>2, ZenonT(60) DEF Goes, InProgress
  <2> QED BY <1>1, <2>3, CallStep
<1>3. CASE Denied(c, call[c], "access-denied")
    BY <1>1, <1>3, DeniedEnds, CallStep, ZenonT(60)
<1> QED BY <1>2, <1>3, ZenonT(60) DEF authorize

LEMMA executeStep ==
  ASSUME CallsInv, OpenedGrows, NEW c \in Calls, execute(c)
  PROVE  CallsInv'
<1> DEFINE result == Shelves[shelf][call[c].query.requests[call[c].step]]
           found == call[c].supports \o result.supports
           rec == [call[c] EXCEPT !.step = call[c].step + 1, !.supports = found]
<1>1. /\ call[c].phase \in InProgress /\ IsCall(call[c]) /\ DOMAIN call = Calls /\ idempotentAnswers' = idempotentAnswers
    BY ZenonT(60) DEF CallsInv, CallsTypeOK, InProgress, execute
<1>2. CASE \E code : Denied(c, call[c], code)
    BY <1>1, <1>2, DeniedEnds, CallStep, ZenonT(60)
<1>3. CASE Proceed(c, rec)
  <2> HIDE DEF found
  <2>1. IsCall(rec)
      BY <1>1, CallUpdated, ZenonT(60)
  <2>2. rec.query = call[c].query /\ rec.session = call[c].session
      BY <1>1 DEF IsCall
  <2> HIDE DEF rec
  <2> QED BY <1>1, <1>3, <2>1, <2>2, ProceedEffect, CallStep
<1>4. (\E code : Denied(c, call[c], code)) \/ Proceed(c, rec)
    BY ZenonT(60) DEF execute
<1> QED BY <1>2, <1>3, <1>4

LEMMA generateStep ==
  ASSUME CallsInv, OpenedGrows, NEW c \in Calls, generate(c)
  PROVE  CallsInv'
<1> DEFINE known == call[c].supports
           fallback == Refusal("abstain", <<"the", "generated", "response", "failed", "support", "validation", ".">>)
           source == IF resolveActiveRecordedDecision(known).kind = "consistent" THEN "typed-record"
                     ELSE "model-candidate"
           release(y) == Released(y, known, call[c].query.question)
           shown(y) == IF release(y).codes = {} THEN Results(release(y).candidate, {}, source)
                       ELSE Results(fallback, release(y).codes, "validation-fallback")
<1>1. call[c].phase \in InProgress /\ IsCall(call[c]) /\ DOMAIN call = Calls
    BY ZenonT(60) DEF CallsInv, CallsTypeOK, InProgress, generate
<1>2. PICK y \in Replies(c) :
        IF release(y).fails THEN Fail(c)
        ELSE /\ Conclude(c, call[c], Tools(call[c].query), known, shown(y))
             /\ UNCHANGED <<shelf, idempotentAnswers>>
    BY ZenonT(60) DEF generate
<1>3. CASE release(y).fails
    BY <1>1, <1>2, <1>3, FailStep, ZenonT(60)
<1>4. CASE ~ release(y).fails
  <2>1. ReleaseIsRecorded /\ shown(y).result.code # NoCode => Recorded(shown(y).result.code, known)
    <3>1. CASE release(y).codes = {}
      <4>1. shown(y).result = release(y).candidate
          BY <3>1, ZenonT(60) DEF Results
      <4> QED BY <1>4, <3>1, <4>1, ZenonT(60) DEF ReleaseIsRecorded
    <3>2. CASE release(y).codes # {}
      <4>1. shown(y).result = fallback
          BY <3>2, ZenonT(60) DEF Results
      <4>2. fallback.code = NoCode
          BY DEF Refusal, deterministicResult
      <4> QED BY <4>1, <4>2, ZenonT(60)
    <3> QED BY <3>1, <3>2, ZenonT(60)
  <2> HIDE DEF shown, known
  <2>2. Ends(c, call[c])
      BY <1>2, <1>4, <2>1, ZenonT(60) DEF Ends
  <2> QED BY <1>1, <1>2, <1>4, <2>2, CallStep
<1> QED BY <1>3, <1>4

(* A new call, admitted with a session that holds.                         *)
LEMMA answerStep ==
  ASSUME CallsInv, OpenedGrows, NEW c \in Calls, NEW q, NEW session, SessionHolds(session), answer(c, q, session)
  PROVE  CallsInv'
<1> DEFINE key == <<session.actor, q.key>>
           rec == [Waiting EXCEPT !.query = q, !.session = session, !.step = 1]
           entry == idempotentAnswers[key]
           taken == q.key # NoKey /\ key \in DOMAIN idempotentAnswers
<1>1. call[c].phase = "idle" /\ DOMAIN call = Calls /\ IsSequence(audit) /\ KeysAreShared
    BY DEF CallsInv, CallsTypeOK, answer
<1>2. IsCall(rec) /\ rec.query = q /\ rec.session = session
  <2> DEFINE blank == [phase |-> "idle", query |-> q, session |-> session, step |-> 1, supports |-> <<>>,
                       owner |-> "none", response |-> NoResponse]
  <2>1. rec = blank
    <3> DEFINE asked == [Waiting EXCEPT !.query = q]
               admitted == [asked EXCEPT !.session = session]
    <3>1. asked = [phase |-> "idle", query |-> q, session |-> <<>>, step |-> 0, supports |-> <<>>, owner |-> "none",
                   response |-> NoResponse]
        BY DEF Waiting
    <3>2. admitted = [phase |-> "idle", query |-> q, session |-> session, step |-> 0, supports |-> <<>>,
                      owner |-> "none", response |-> NoResponse]
      <4> HIDE DEF asked
      <4> QED BY <3>1
    <3>3. [admitted EXCEPT !.step = 1] = blank
      <4> HIDE DEF admitted
      <4> QED BY <3>2
    <3>4. rec = [admitted EXCEPT !.step = 1]
        BY ZenonT(60) DEF Waiting
    <3> QED BY <3>3, <3>4, ZenonT(60)
  <2>2. IsCall(blank) /\ blank.query = q /\ blank.session = session
      BY DEF IsCall
  <2> QED BY <2>1, <2>2, ZenonT(60)
<1>3. CASE taken
  <2> DEFINE x == IF sameFingerprint(entry, q) THEN [rec EXCEPT !.phase = "joined", !.owner = entry.owner]
                  ELSE [rec EXCEPT !.phase = "rejected"]
  <2>1. call' = [call EXCEPT ![c] = x] /\ idempotentAnswers' = idempotentAnswers /\ audit' = audit /\ requests' = requests
      BY <1>3, ZenonT(60) DEF answer
  <2>2. /\ IsCall(x) /\ x.query = q /\ x.session = session
        /\ \/ x.phase = "rejected"
           \/ x.phase = "joined" /\ entry.fingerprint = q /\ x.owner = entry.owner
    <3> HIDE DEF rec, entry
    <3>1. CASE sameFingerprint(entry, q)
      <4> DEFINE joined == [rec EXCEPT !.phase = "joined", !.owner = entry.owner]
      <4>1. IsCall(joined)
          BY <1>2, CallUpdated, ZenonT(60)
      <4>2. joined.query = q /\ joined.session = session /\ joined.phase = "joined" /\ joined.owner = entry.owner
          BY <1>2 DEF IsCall
      <4>3. x = joined /\ entry.fingerprint = q
          BY <3>1 DEF sameFingerprint
      <4> QED BY <4>1, <4>2, <4>3, ZenonT(60)
    <3>2. CASE ~ sameFingerprint(entry, q)
      <4> DEFINE rejected == [rec EXCEPT !.phase = "rejected"]
      <4>1. IsCall(rejected)
          BY <1>2, CallFieldSet, ZenonT(60)
      <4>2. rejected.query = q /\ rejected.session = session /\ rejected.phase = "rejected"
          BY <1>2 DEF IsCall
      <4>3. x = rejected
          BY <3>2
      <4> QED BY <4>1, <4>2, <4>3, ZenonT(60)
    <3> QED BY <3>1, <3>2
  <2> HIDE DEF x
  <2>3. DOMAIN call' = Calls /\ call'[c] = x /\ \A d \in Calls \ {c} : call'[d] = call[d]
      BY <1>1, <2>1, ZenonT(60)
  <2>4. KeyOf(x) = key
      BY <2>2 DEF KeyOf
  <2>5. KeysAreShared'
    <3> HIDE DEF key
    <3> QED BY <1>1, <1>3, <2>1, <2>2, <2>3, <2>4, BeginKeepsKeys, ZenonT(60)
  <2>6. x.phase \notin InProgress /\ x.phase # "answered"
      BY <2>2, ZenonT(60) DEF InProgress
  <2>7. CallsTypeOK' /\ SessionsHold' /\ AnswersAreBacked'
      BY <1>1, <2>1, <2>2, <2>3, <2>6, QuietKeepsBacked, ZenonT(60)
  <2> QED BY <2>5, <2>7 DEF CallsInv
<1>4. CASE ~ taken
  <2>1. /\ Proceed(c, rec)
        /\ idempotentAnswers' = IF q.key = NoKey THEN idempotentAnswers
                                ELSE [k \in DOMAIN idempotentAnswers \cup {key} |->
                                        IF k = key THEN [fingerprint |-> q, owner |-> c] ELSE idempotentAnswers[k]]
      BY <1>4, ZenonT(60) DEF answer
  <2> HIDE DEF rec
  <2>2. Ends(c, rec) \/ Goes(c, rec)
      BY <1>2, <2>1, ProceedEffect, ZenonT(60)
  <2>3. /\ CallsTypeOK' /\ SessionsHold' /\ AnswersAreBacked' /\ call'[c].phase \in InProgress \cup {"answered"}
        /\ call'[c].query = q /\ call'[c].session = session /\ \A d \in Calls \ {c} : call'[d] = call[d]
    <3>1. CASE Ends(c, rec)
      <4>1. CallsTypeOK' /\ SessionsHold' /\ AnswersAreBacked'
          BY <1>1, <1>2, <3>1, EndKeepsBacked, ZenonT(60)
      <4>2. /\ \A d \in Calls \ {c} : call'[d] = call[d]
            /\ call'[c].phase = "answered" /\ call'[c].query = rec.query /\ call'[c].session = rec.session
        <5>1. IsCall(rec) /\ IsSequence(audit) /\ DOMAIN call = Calls
            BY <1>1, <1>2, ZenonT(60)
        <5> HIDE DEF key, entry, taken
        <5> QED BY <3>1, <5>1, EndsEffect, ZenonT(60)
      <4> QED BY <1>2, <4>1, <4>2, ZenonT(60)
    <3>2. CASE Goes(c, rec)
      <4>1. PICK x : /\ call' = [call EXCEPT ![c] = x] /\ IsCall(x) /\ x.phase \in InProgress
                     /\ x.query = rec.query /\ x.session = rec.session
          BY <3>2, ZenonT(60) DEF Goes
      <4>2. DOMAIN call' = Calls /\ call'[c] = x /\ \A d \in Calls \ {c} : call'[d] = call[d]
          BY <1>1, <4>1
      <4>3. x.phase # "answered" /\ audit' = audit /\ requests' = requests /\ SessionHolds(x.session)
          BY <1>2, <3>2, <4>1 DEF InProgress, Goes
      <4>4. CallsTypeOK' /\ SessionsHold' /\ AnswersAreBacked'
          BY <1>1, <4>1, <4>2, <4>3, QuietKeepsBacked, ZenonT(60)
      <4> QED BY <1>2, <4>1, <4>2, <4>4
    <3> QED BY <2>2, <3>1, <3>2
  <2>4. KeyOf(call'[c]) = key
      BY <2>3 DEF KeyOf
  <2>5. KeysAreShared'
    <3> HIDE DEF key
    <3>1. q.key # NoKey => key \notin DOMAIN idempotentAnswers
        BY <1>4
    <3> QED BY <1>1, <2>1, <2>3, <2>4, <3>1, TakeKeepsKeys, ZenonT(60)
  <2> QED BY <2>3, <2>5 DEF CallsInv
<1> QED BY <1>3, <1>4

(***************************************************************************)
(* The invariant, and what follows from it.                                *)
(***************************************************************************)

Inv == SessionsInv /\ CallsInv

LEMMA InvInitially == Init => Inv
<1> SUFFICES ASSUME Init PROVE Inv
    OBVIOUS
<1>1. SessionsInv
    BY SessionsInitially DEF Init
<1>2. /\ call = [c \in Calls |-> Waiting] /\ idempotentAnswers = <<>> /\ audit = <<>> /\ requests = {}
    BY DEF Init, AssistantInit
<1>3. IsCall(Waiting) /\ Waiting.phase = "idle"
    BY DEF Waiting, IsCall
<1>4. DOMAIN audit = {} /\ Len(audit) = 0 /\ audit \in Seq({}) /\ DOMAIN idempotentAnswers = {}
    BY <1>2
<1>5. CallsTypeOK
  <2>1. IsSequence(audit)
      BY <1>2 DEF IsSequence
  <2> QED BY <1>2, <1>3, <2>1 DEF CallsTypeOK
<1>6. SessionsHold
    BY <1>2, <1>3, <1>4 DEF SessionsHold, InProgress
<1>7. KeysAreShared
    BY <1>2, <1>3, <1>4, ZenonT(60) DEF KeysAreShared, Keyed, InProgress
<1>8. AnswersAreBacked
  <2>1. IsFiniteSet(requests) /\ Cardinality(requests) = 0
      BY <1>2, FS_EmptySet
  <2> QED BY <1>2, <1>3, <1>4, <2>1, ZenonT(60) DEF AnswersAreBacked, Answered, verifyAssistantAuditEvents
<1> QED BY <1>1, <1>5, <1>6, <1>7, <1>8 DEF Inv, CallsInv

(* A step of the sessions alone.                                           *)
LEMMA SessionsAloneStep ==
  ASSUME CallsInv, OpenedGrows, call' = call, idempotentAnswers' = idempotentAnswers, audit' = audit, requests' = requests
  PROVE  CallsInv'
<1>1. DOMAIN call' = Calls /\ KeysAreShared
    BY DEF CallsInv, CallsTypeOK
<1>2. CallsTypeOK' /\ SessionsHold' /\ AnswersAreBacked'
    BY <1>1, QuietKeepsBacked
<1>3. KeysAreShared'
    BY <1>1, ZenonT(60) DEF KeysAreShared
<1> QED BY <1>2, <1>3 DEF CallsInv

(* The sessions stay as they are.                                          *)
LEMMA UnchangedSessions ==
  ASSUME SessionsInv, UNCHANGED sessionVars
  PROVE  SessionsInv' /\ OpenedGrows
    BY ZenonT(60) DEF sessionVars, SessionsInv, SessionsTypeOK, ChallengesAreTakenOnce, OpenedGrows, SessionRecord, OneSessionPerChallenge

(* A query with a token.                                                   *)
LEMMA queryStep ==
  ASSUME Inv, NEW c \in Calls, NEW token, NEW q, query(c, token, q)
  PROVE  Inv'
<1>1. SessionsInv /\ CallsInv /\ require(token) /\ call[c].phase = "idle"
    BY DEF Inv, query
<1>2. SessionsInv' /\ OpenedGrows
    BY <1>1, OtherStepsKeepSessions
<1>3. CASE Admitted(token)
  <2> DEFINE session == [actor |-> sessions[token].actor, token |-> token, admittedAt |-> now]
  <2>1. answer(c, q, session)
      BY <1>3 DEF query
  <2>2. session.actor = sessions[token].actor /\ session.token = token /\ session.admittedAt = now
      OBVIOUS
  <2> HIDE DEF session
  <2>3. SessionHolds(session)
      BY <1>1, <1>3, <2>2, ZenonT(60) DEF SessionHolds, Admitted, SessionsInv, SessionsTypeOK, SessionRecord
  <2>4. CallsInv'
      BY <1>1, <1>2, <2>1, <2>3, answerStep
  <2> QED BY <1>2, <2>4 DEF Inv
<1>4. CASE ~ Admitted(token)
  <2> DEFINE x == [call[c] EXCEPT !.phase = "denied"]
  <2>1. /\ call' = [call EXCEPT ![c].phase = "denied"] /\ idempotentAnswers' = idempotentAnswers
        /\ audit' = audit /\ requests' = requests
      BY <1>4, ZenonT(60) DEF query
  <2>2. DOMAIN call = Calls /\ IsCall(call[c]) /\ KeysAreShared
      BY <1>1 DEF CallsInv, CallsTypeOK
  <2>3. DOMAIN call' = Calls /\ call'[c] = x /\ \A d \in Calls \ {c} : call'[d] = call[d]
      BY <2>1, <2>2
  <2>4. IsCall(x) /\ x.phase = "denied"
      BY <2>2 DEF IsCall
  <2> HIDE DEF x
  <2>5. KeysAreShared'
      BY <1>1, <2>1, <2>2, <2>3, <2>4, BeginKeepsKeys
  <2>6. x.phase \notin InProgress /\ x.phase # "answered"
      BY <2>4 DEF InProgress
  <2>7. CallsTypeOK' /\ SessionsHold' /\ AnswersAreBacked'
      BY <1>1, <1>2, <2>1, <2>3, <2>4, <2>6, QuietKeepsBacked
  <2> QED BY <1>2, <2>5, <2>7 DEF Inv, CallsInv
<1> QED BY <1>3, <1>4

LEMMA InvStep == Inv /\ [Next]_vars => Inv'
<1> SUFFICES ASSUME Inv, [Next]_vars PROVE Inv'
    OBVIOUS
<1>0. SessionsInv /\ CallsInv
    BY DEF Inv
<1>1. ASSUME NEW c \in Calls, NEW token, NEW q, query(c, token, q)
      PROVE  Inv'
    BY <1>1, queryStep
<1>2. ASSUME NEW c \in Calls, NEW q, runAssistant(c, q)
      PROVE  Inv'
  <2> DEFINE session == [actor |-> PageActor, token |-> 0, admittedAt |-> now]
  <2>1. answer(c, [q EXCEPT !.asOf = now], session) /\ UNCHANGED sessionVars
      BY <1>2, ZenonT(60) DEF runAssistant
  <2>2. SessionHolds(session)
      BY DEF SessionHolds
  <2>3. SessionsInv' /\ OpenedGrows
      BY <1>0, <2>1, UnchangedSessions
  <2> HIDE DEF session
  <2>4. CallsInv'
      BY <1>0, <2>1, <2>2, <2>3, answerStep, ZenonT(60)
  <2> QED BY <2>3, <2>4 DEF Inv
<1>3. ASSUME AssistantNext, UNCHANGED sessionVars
      PROVE  Inv'
  <2>1. SessionsInv' /\ OpenedGrows
      BY <1>0, <1>3, UnchangedSessions
  <2>2. CASE RecordsChange
      BY <1>0, <2>1, <2>2, SessionsAloneStep DEF RecordsChange, Inv
  <2>3. ASSUME NEW c \in Calls, authorize(c) \/ execute(c) \/ generate(c) \/ breakDown(c) \/ share(c)
        PROVE  CallsInv'
    <3>1. CASE authorize(c)
        BY <1>0, <2>1, <3>1, authorizeStep
    <3>2. CASE execute(c)
        BY <1>0, <2>1, <3>2, executeStep, ZenonT(60)
    <3>3. CASE generate(c)
        BY <1>0, <2>1, <3>3, generateStep
    <3>4. CASE breakDown(c)
        BY <1>0, <2>1, <3>4, FailStep DEF breakDown, InProgress
    <3>5. CASE share(c)
        BY <1>0, <2>1, <3>5, ShareKeepsBacked, ShareKeepsKeys DEF CallsInv
    <3> QED BY <2>3, <3>1, <3>2, <3>3, <3>4, <3>5, ZenonT(60)
  <2> QED BY <1>3, <2>1, <2>2, <2>3 DEF AssistantNext, Inv
<1>4. ASSUME SessionsNext, UNCHANGED assistantVars
      PROVE  Inv'
    BY <1>0, <1>4, SessionsStep, SessionsAloneStep, ZenonT(60) DEF Inv, assistantVars
<1>5. ASSUME UNCHANGED vars
      PROVE  Inv'
    BY <1>0, <1>5, UnchangedSessions, SessionsAloneStep DEF Inv, vars, sessionVars
<1> QED BY <1>1, <1>2, <1>3, <1>4, <1>5 DEF Next

LEMMA InvAlways == Spec => []Inv
    BY InvInitially, InvStep, PTL DEF Spec

(* However long an answer takes, its event names a session that a verified *)
(* challenge opened, for its actor, and that had not expired when the      *)
(* query was admitted (query, require, verify).                            *)
THEOREM AnswersAuthenticated == Spec => []AnswersAreAuthenticated
<1>1. Inv => AnswersAreAuthenticated
    BY DEF Inv, CallsInv, SessionsHold, SessionHolds, SessionsInv, AnswersAreAuthenticated
<1> QED BY <1>1, InvAlways, PTL

(* The calls of an actor under one idempotency key that are answered have  *)
(* one answer between them (answer).                                       *)
THEOREM RetriesShare == Spec => []RetriesShareOneAnswer
<1>1. Inv => RetriesShareOneAnswer
  <2> SUFFICES ASSUME Inv, NEW c \in Answered, NEW d \in Answered,
                      call[c].query.key # NoKey, call[c].query.key = call[d].query.key,
                      call[c].session.actor = call[d].session.actor
               PROVE  call[c].response = call[d].response /\ call[c].query = call[d].query
      BY DEF RetriesShareOneAnswer
  <2>1. KeyOf(call[c]) = KeyOf(call[d]) /\ Keyed(call[c]) /\ Keyed(call[d])
      BY DEF KeyOf, Keyed, Answered
  <2>2. KeysAreShared /\ c \in Calls /\ d \in Calls /\ call[c].phase = "answered" /\ call[d].phase = "answered"
      BY DEF Inv, CallsInv, Answered
  <2> QED BY <2>1, <2>2, KeyOfCall
<1> QED BY <1>1, InvAlways, PTL

(* Every answer is backed by one audit event and one stored request, in a  *)
(* chain that verifies, when what is released carries no decision but a    *)
(* recorded one (answerOnce, AssistantAuditLedger).                        *)
THEOREM AnswersAudited ==
  ASSUME ReleaseIsRecorded
  PROVE  Spec => []AnswersAreAudited
<1>1. Inv => AnswersAreAudited
  <2> SUFFICES ASSUME Inv PROVE AnswersAreAudited
      OBVIOUS
  <2>0. AnswersAreBacked /\ IsSequence(audit)
      BY ZenonT(60) DEF Inv, CallsInv, CallsTypeOK
  <2>1. verifyAssistantAuditEvents(audit) /\ Cardinality(requests) = Len(audit)
      BY <2>0 DEF AnswersAreBacked
  <2>2. ASSUME NEW c \in Answered
        PROVE  /\ Backed(call[c])
               /\ Cardinality(forRequest(call[c].response.request, call[c].session)) = 1
    <3> DEFINE r == call[c].response
               e == audit[r.event]
    <3>1. Backed(call[c])
        BY <2>0 DEF AnswersAreBacked
    <3>2. r.event \in DOMAIN audit /\ e.request = r.request /\ e.session.actor = call[c].session.actor
        BY <3>1, ZenonT(60) DEF Backed
    <3>3. Range(audit) = {audit[i] : i \in DOMAIN audit}
        BY ZenonT(60) DEF Range
    <3>4. forRequest(r.request, call[c].session) = {e}
      <4>1. e \in forRequest(r.request, call[c].session)
          BY <3>2, <3>3 DEF forRequest
      <4>2. ASSUME NEW f \in forRequest(r.request, call[c].session)
            PROVE  f = e
        <5>1. PICK i \in DOMAIN audit : f = audit[i] /\ f.request = r.request
            BY <3>3 DEF forRequest
        <5> QED BY <2>0, <3>2, <5>1, ZenonT(60) DEF AnswersAreBacked
      <4> QED BY <4>1, <4>2, ZenonT(60)
    <3> QED BY <3>1, <3>4, FS_Singleton, ZenonT(60)
  <2> QED BY <2>1, <2>2, ZenonT(30) DEF AnswersAreAudited, Backed
<1> QED BY <1>1, InvAlways, PTL
=============================================================================
