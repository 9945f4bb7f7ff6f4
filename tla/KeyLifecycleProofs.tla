------------------------- MODULE KeyLifecycleProofs -------------------------
(***************************************************************************)
(* A restart never loses the registry, revocations last and the bundle key *)
(* stays reachable, for every number of keys, authorizations, grants,      *)
(* suspended calls, times and stored objects.                              *)
(***************************************************************************)
EXTENDS KeyLifecycle, TLAPS

-----------------------------------------------------------------------------
(* Objects stored under one identifier.                                    *)

LEMMA ObjectFacts ==
    ASSUME NEW S, NEW h \in Seq(S)
    PROVE  /\ Len(h) \in Nat /\ DOMAIN h = 1 .. Len(h)
           /\ h = <<>> <=> Len(h) = 0
           /\ \A i \in 1 .. Len(h) : h[i] \in S
           /\ h # <<>> => /\ Last(h) = h[Len(h)] /\ Len(h) \in 1 .. Len(h) /\ 1 \in 1 .. Len(h)
    BY DEF Last

LEMMA StoredFacts ==
    ASSUME NEW S, NEW h \in Seq(S), NEW e \in S
    PROVE  /\ Append(h, e) \in Seq(S) /\ Len(Append(h, e)) = Len(h) + 1
           /\ Append(h, e)[Len(h) + 1] = e
           /\ \A i \in 1 .. Len(h) : Append(h, e)[i] = h[i]
           /\ <<e>> \in Seq(S) /\ Len(<<e>>) = 1 /\ <<e>>[1] = e
    OBVIOUS

LEMMA WrittenFacts ==
    ASSUME NEW S, NEW h \in Seq(S), NEW n \in 1 .. Len(h), NEW e \in S
    PROVE  /\ [h EXCEPT ![n] = e] \in Seq(S) /\ Len([h EXCEPT ![n] = e]) = Len(h)
           /\ \A i \in 1 .. Len(h) : [h EXCEPT ![n] = e][i] = IF i = n THEN e ELSE h[i]
    OBVIOUS

-----------------------------------------------------------------------------
(* The inductive invariant.                                                *)

(* Every key that an object or a suspended call names was added.           *)
KeysPresent ==
    /\ \A a \in AuthorizationIds : \A i \in 1 .. Len(authorizations[a]) :
          keys[authorizations[a][i].keyId] # "absent"
    /\ \A g \in GrantIds : \A i \in 1 .. Len(grants[g]) : keys[grants[g][i].recipientKeyId] # "absent"
    /\ \A c \in CallIds :
          calls[c].method \in {"rotateRecipientEnvelope", "rotateControllerAuthorization"} =>
             keys[calls[c].successorKeyId] # "absent"

(* All objects ever stored for a grant have one window, and it is not      *)
(* empty: a suspended rotation may copy any of them.                       *)
OneWindow ==
    \A g \in GrantIds : \A i \in 1 .. Len(grants[g]) :
        /\ grants[g][i].effectiveAt < grants[g][i].expiresAt
        /\ grants[g][i].effectiveAt = grants[g][1].effectiveAt
        /\ grants[g][i].expiresAt = grants[g][1].expiresAt

KeyInv == KeyTypeOK /\ KeysPresent /\ OneWindow

(* What a suspended call holds.                                            *)
LEMMA CallFacts ==
    ASSUME KeyTypeOK, NEW c \in CallIds
    PROVE  /\ calls[c].method \in {"activateGrant", "rotateRecipientEnvelope"} =>
                 calls[c].grantId \in GrantIds /\ calls[c].object \in 1 .. Len(grants[calls[c].grantId])
           /\ calls[c].method = "rotateRecipientEnvelope" => calls[c].successorKeyId \in KeyIds
           /\ calls[c].method = "rotateControllerAuthorization" =>
                 /\ calls[c].predecessorId \in AuthorizationIds /\ calls[c].successorId \in AuthorizationIds
                 /\ calls[c].successorKeyId \in KeyIds
                 /\ calls[c].object \in 1 .. Len(authorizations[calls[c].predecessorId])
<1>1. calls[c] \in Call
    BY ZenonT(60) DEF KeyTypeOK
<1>2. /\ calls[c].method = "activateGrant" => calls[c].grantId \in GrantIds
      /\ calls[c].method = "rotateRecipientEnvelope" =>
            calls[c].grantId \in GrantIds /\ calls[c].successorKeyId \in KeyIds
      /\ calls[c].method = "rotateControllerAuthorization" =>
            /\ calls[c].predecessorId \in AuthorizationIds /\ calls[c].successorId \in AuthorizationIds
            /\ calls[c].successorKeyId \in KeyIds
    BY <1>1 DEF Call, Idle
<1>3. /\ \A g \in GrantIds : DOMAIN grants[g] = 1 .. Len(grants[g])
      /\ \A a \in AuthorizationIds : DOMAIN authorizations[a] = 1 .. Len(authorizations[a])
    BY DEF KeyTypeOK
<1> QED BY <1>2, <1>3, ZenonT(60) DEF KeyTypeOK

-----------------------------------------------------------------------------
(* A function over a set is one after one of its values is replaced.       *)
Over(f, S) == f = [x \in S |-> f[x]]

LEMMA ReplacedFacts ==
    ASSUME NEW S, NEW f, Over(f, S), NEW i, NEW e
    PROVE  DOMAIN f = S /\ Over([f EXCEPT ![i] = e], S)
    BY ZenonT(60) DEF Over

(* Keys are never removed.                                                 *)

LEMMA KeysKept ==
    ASSUME KeyTypeOK, [KeyNext]_keyVars
    PROVE  /\ keys' \in [KeyIds -> KeyStates \cup {"absent"}]
           /\ \A k \in KeyIds : keys[k] # "absent" => keys'[k] # "absent"
<1>1. CASE UNCHANGED keys
    BY <1>1, ZenonT(60) DEF KeyTypeOK
<1>2. CASE \E k \in KeyIds, s \in KeyStates : keys' = [keys EXCEPT ![k] = s]
    BY <1>2, ZenonT(60) DEF KeyTypeOK, KeyStates, TerminalKeyStates
<1>3. CASE \E k \in KeyIds, s \in KeyStates : addKey(k, s)
    BY <1>2, <1>3, ZenonT(60) DEF addKey
<1>4. CASE \E k \in KeyIds : activateKey(k) \/ retireKey(k)
    BY <1>2, <1>4, ZenonT(60) DEF activateKey, retireKey, KeyStates, TerminalKeyStates
<1>5. CASE \E k \in KeyIds, s \in {"compromised", "lost", "revoked"} : recordKeyFailure(k, s)
    BY <1>2, <1>5, ZenonT(60) DEF recordKeyFailure, KeyStates, TerminalKeyStates
<1>6. CASE fromSnapshot
    BY <1>1, <1>6, ZenonT(60) DEF fromSnapshot, snapshot
<1> QED BY <1>1, <1>3, <1>4, <1>5, <1>6, ZenonT(60) DEF KeyNext, keyVars, stageControllerAuthorization,
        activateControllerAuthorization, rotateControllerAuthorization, rotateControllerAuthorizationVerified,
        prepareGrant, activateGrant, activateGrantVerified, revokeGrant, rotateRecipientEnvelope,
        rotateRecipientEnvelopeVerified

-----------------------------------------------------------------------------
(* What a step may do to the objects of one grant: prepare the first, set  *)
(* the state of one, store a copy of one under another key, or keep the    *)
(* last.  Only an activation that holds the last object, and only a copy   *)
(* of an object that is not revoked, can put the grant back into force.    *)
(* Only a restart forgets objects, and it forgets the suspended calls too. *)
Restarted == calls' = [c \in CallIds |-> Idle]

GrantMoves(g) ==
    \/ grants'[g] = grants[g]
    \/ /\ grants[g] = <<>>
       /\ \E k \in KeyIds, from, until \in Times :
             /\ keys[k] # "absent" /\ from < until
             /\ grants'[g] = <<[recipientKeyId |-> k, effectiveAt |-> from, expiresAt |-> until,
                                state |-> "prepared"]>>
    \/ \E n \in 1 .. Len(grants[g]), s \in {"active", "revoked"} :
          /\ n = Len(grants[g]) /\ s = "active" => CanReinstate(g)
          /\ grants'[g] = [grants[g] EXCEPT ![n] = [grants[g][n] EXCEPT !.state = s]]
    \/ \E n \in 1 .. Len(grants[g]), k \in KeyIds :
          /\ keys[k] # "absent"
          /\ grants[g][n].state # "revoked" => CanReinstate(g)
          /\ grants'[g] = Append(grants[g], [grants[g][n] EXCEPT !.recipientKeyId = k])
    \/ Restarted /\ grants[g] # <<>> /\ grants'[g] = <<Last(grants[g])>>

LEMMA GrantsMove ==
    ASSUME KeyInv, [KeyNext]_keyVars
    PROVE  Over(grants', GrantIds) /\ \A g \in GrantIds : GrantMoves(g)
<1>1. KeyTypeOK /\ KeysPresent
    BY ZenonT(60) DEF KeyInv
<1>2. /\ DOMAIN grants = GrantIds /\ Over(grants, GrantIds)
      /\ \A g \in GrantIds : grants[g] \in Seq(GrantRecord)
    BY <1>1, ZenonT(60) DEF KeyTypeOK, Over
<1>3. CASE UNCHANGED grants
    BY <1>2, <1>3, ZenonT(60) DEF GrantMoves
<1>4. CASE \E g \in GrantIds, k \in KeyIds, from, until \in Times : prepareGrant(g, k, from, until)
  <2> PICK g \in GrantIds, k \in KeyIds, from \in Times, until \in Times : prepareGrant(g, k, from, until)
      BY <1>4, ZenonT(60)
  <2>1. /\ grants' = [grants EXCEPT ![g] = <<[recipientKeyId |-> k, effectiveAt |-> from, expiresAt |-> until,
                                             state |-> "prepared"]>>]
        /\ from < until /\ keys[k] # "absent" /\ grants[g] = <<>>
      BY ZenonT(60) DEF prepareGrant, HasGrant
  <2>2. GrantMoves(g)
      BY <1>2, <2>1, ZenonT(60) DEF GrantMoves
  <2>3. \A o \in GrantIds \ {g} : GrantMoves(o)
      BY <1>2, <2>1, ZenonT(60) DEF GrantMoves
  <2> QED BY <1>2, <2>1, <2>2, <2>3, ReplacedFacts, ZenonT(60)
<1>5. CASE \E c \in CallIds : activateGrantVerified(c, TRUE)
  <2> PICK c \in CallIds : activateGrantVerified(c, TRUE)
      BY <1>5, ZenonT(60)
  <2> DEFINE g == calls[c].grantId
             n == calls[c].object
  <2>1. /\ calls[c].method = "activateGrant"
        /\ grants' = [grants EXCEPT ![g] = [grants[g] EXCEPT ![n] = [grants[g][n] EXCEPT !.state = "active"]]]
      BY ZenonT(60) DEF activateGrantVerified, Resume
  <2>2. g \in GrantIds /\ n \in 1 .. Len(grants[g])
      BY <1>1, <2>1, CallFacts, ZenonT(60)
  <2>3. n = Len(grants[g]) => CanReinstate(g)
      BY <2>1, ZenonT(60) DEF CanReinstate
  <2> HIDE DEF g, n
  <2>4. GrantMoves(g)
      BY <1>2, <2>1, <2>2, <2>3, ZenonT(60) DEF GrantMoves
  <2>5. \A o \in GrantIds \ {g} : GrantMoves(o)
      BY <1>2, <2>1, ZenonT(60) DEF GrantMoves
  <2> QED BY <1>2, <2>1, <2>4, <2>5, ReplacedFacts, ZenonT(60)
<1>6. CASE \E g \in GrantIds : revokeGrant(g)
  <2> PICK g \in GrantIds : revokeGrant(g)
      BY <1>6, ZenonT(60)
  <2> DEFINE n == Len(grants[g])
  <2>1. grants' = [grants EXCEPT ![g] = [grants[g] EXCEPT ![n] = [grants[g][n] EXCEPT !.state = "revoked"]]]
        /\ grants[g] # <<>>
      BY ZenonT(60) DEF revokeGrant, HasGrant
  <2>2. n \in 1 .. Len(grants[g])
      BY <1>2, <2>1, ObjectFacts, ZenonT(60)
  <2>3. "revoked" # "active"
      OBVIOUS
  <2> HIDE DEF n
  <2>4. GrantMoves(g)
      BY <1>2, <2>1, <2>2, <2>3, ZenonT(60) DEF GrantMoves
  <2>5. \A o \in GrantIds \ {g} : GrantMoves(o)
      BY <1>2, <2>1, ZenonT(60) DEF GrantMoves
  <2> QED BY <1>2, <2>1, <2>4, <2>5, ReplacedFacts, ZenonT(60)
<1>7. CASE \E c \in CallIds : rotateRecipientEnvelopeVerified(c, TRUE)
  <2> PICK c \in CallIds : rotateRecipientEnvelopeVerified(c, TRUE)
      BY <1>7, ZenonT(60)
  <2> DEFINE g == calls[c].grantId
             n == calls[c].object
             k == calls[c].successorKeyId
  <2>1. /\ calls[c].method = "rotateRecipientEnvelope"
        /\ grants' = [grants EXCEPT ![g] = Append(grants[g], [grants[g][n] EXCEPT !.recipientKeyId = k])]
      BY ZenonT(60) DEF rotateRecipientEnvelopeVerified, Resume
  <2>2. g \in GrantIds /\ n \in 1 .. Len(grants[g]) /\ k \in KeyIds
      BY <1>1, <2>1, CallFacts, ZenonT(60)
  <2>3. keys[k] # "absent"
      BY <1>1, <2>1, ZenonT(60) DEF KeysPresent
  <2>4. grants[g][n].state # "revoked" => CanReinstate(g)
      BY <2>1, ZenonT(60) DEF CanReinstate
  <2> HIDE DEF g, n, k
  <2>5. GrantMoves(g)
      BY <1>2, <2>1, <2>2, <2>3, <2>4, ZenonT(60) DEF GrantMoves
  <2>6. \A o \in GrantIds \ {g} : GrantMoves(o)
      BY <1>2, <2>1, ZenonT(60) DEF GrantMoves
  <2> QED BY <1>2, <2>1, <2>5, <2>6, ReplacedFacts, ZenonT(60)
<1>8. CASE fromSnapshot
  <2>1. /\ grants' = [g \in GrantIds |-> IF grants[g] # <<>> THEN <<Last(grants[g])>> ELSE <<>>]
        /\ Restarted
      BY <1>8, ZenonT(60) DEF fromSnapshot, snapshot, HasGrant, grant, Restarted
  <2>2. Over(grants', GrantIds)
      BY <2>1, ZenonT(60) DEF Over
  <2> QED BY <2>1, <2>2, ZenonT(60) DEF GrantMoves
<1> QED BY <1>3, <1>4, <1>5, <1>6, <1>7, <1>8, ZenonT(60) DEF KeyNext, keyVars, addKey, activateKey, recordKeyFailure, retireKey,
        stageControllerAuthorization, activateControllerAuthorization, rotateControllerAuthorization,
        rotateControllerAuthorizationVerified, activateGrant, activateGrantVerified, rotateRecipientEnvelope,
        rotateRecipientEnvelopeVerified

(* Every move keeps the objects sound and the window, and a revoked grant  *)
(* revoked unless a suspended call can reinstate it.                       *)
LEMMA GrantMoveKeeps ==
    ASSUME KeyInv, \A k \in KeyIds : keys[k] # "absent" => keys'[k] # "absent",
           NEW g \in GrantIds, GrantMoves(g)
    PROVE  /\ grants'[g] \in Seq(GrantRecord)
           /\ \A i \in 1 .. Len(grants'[g]) :
                 /\ keys'[grants'[g][i].recipientKeyId] # "absent"
                 /\ grants'[g][i].effectiveAt < grants'[g][i].expiresAt
                 /\ grants'[g][i].effectiveAt = grants'[g][1].effectiveAt
                 /\ grants'[g][i].expiresAt = grants'[g][1].expiresAt
           /\ grants[g] # <<>> =>
                 /\ grants'[g] # <<>>
                 /\ Last(grants'[g]).effectiveAt = Last(grants[g]).effectiveAt
                 /\ Last(grants'[g]).expiresAt = Last(grants[g]).expiresAt
                 /\ Last(grants[g]).state = "revoked" /\ ~ CanReinstate(g) => Last(grants'[g]).state = "revoked"
           /\ Len(grants[g]) <= Len(grants'[g]) \/ Restarted
<1> DEFINE h == grants[g]
           first == h[1]
<1>1. h \in Seq(GrantRecord)
    BY ZenonT(60) DEF KeyInv, KeyTypeOK
<1>2. /\ Len(h) \in Nat /\ (h = <<>> <=> Len(h) = 0) /\ \A i \in 1 .. Len(h) : h[i] \in GrantRecord
      /\ h # <<>> => Last(h) = h[Len(h)] /\ Len(h) \in 1 .. Len(h) /\ 1 \in 1 .. Len(h)
    BY <1>1, ObjectFacts, ZenonT(60)
<1>3. \A i \in 1 .. Len(h) :
          /\ keys[h[i].recipientKeyId] # "absent"
          /\ h[i].effectiveAt < h[i].expiresAt
          /\ h[i].effectiveAt = first.effectiveAt /\ h[i].expiresAt = first.expiresAt
    BY ZenonT(60) DEF KeyInv, KeysPresent, OneWindow
<1>4. \A i \in 1 .. Len(h) : keys'[h[i].recipientKeyId] # "absent"
  <2>1. \A i \in 1 .. Len(h) : h[i].recipientKeyId \in KeyIds
      BY <1>2, ZenonT(60) DEF GrantRecord
  <2> QED BY <1>3, <2>1, ZenonT(60)
<1> DEFINE new == grants'[g]
<1>5. CASE new = h
    BY <1>1, <1>2, <1>3, <1>4, <1>5, SMTT(60)
<1>6. CASE /\ h = <<>>
           /\ \E k \in KeyIds, from, until \in Times :
                 /\ keys[k] # "absent" /\ from < until
                 /\ new = <<[recipientKeyId |-> k, effectiveAt |-> from, expiresAt |-> until, state |-> "prepared"]>>
  <2> PICK k \in KeyIds, from \in Times, until \in Times :
           /\ keys[k] # "absent" /\ from < until
           /\ new = <<[recipientKeyId |-> k, effectiveAt |-> from, expiresAt |-> until, state |-> "prepared"]>>
      BY <1>6, ZenonT(60)
  <2> DEFINE e == [recipientKeyId |-> k, effectiveAt |-> from, expiresAt |-> until, state |-> "prepared"]
  <2>1. e \in GrantRecord /\ e.recipientKeyId = k /\ e.effectiveAt = from /\ e.expiresAt = until
      BY ZenonT(60) DEF GrantRecord
  <2> HIDE DEF e
  <2>2. new \in Seq(GrantRecord) /\ Len(new) = 1 /\ new[1] = e
      BY <2>1, StoredFacts DEF e
  <2>3. \A i \in 1 .. Len(new) : new[i] = e
      BY <2>2, SMTT(60)
  <2> QED BY <1>2, <1>6, <2>1, <2>2, <2>3, SMTT(60)
<1>7. CASE \E n \in 1 .. Len(h), s \in {"active", "revoked"} :
              /\ n = Len(h) /\ s = "active" => CanReinstate(g)
              /\ new = [h EXCEPT ![n] = [h[n] EXCEPT !.state = s]]
  <2> PICK n \in 1 .. Len(h), s \in {"active", "revoked"} :
              /\ n = Len(h) /\ s = "active" => CanReinstate(g)
              /\ new = [h EXCEPT ![n] = [h[n] EXCEPT !.state = s]]
      BY <1>7, ZenonT(60)
  <2> DEFINE e == [h[n] EXCEPT !.state = s]
  <2>1. /\ e \in GrantRecord /\ e.recipientKeyId = h[n].recipientKeyId
        /\ e.effectiveAt = h[n].effectiveAt /\ e.expiresAt = h[n].expiresAt /\ e.state = s
      BY <1>2, ZenonT(60) DEF GrantRecord
  <2> HIDE DEF e
  <2>2. /\ new \in Seq(GrantRecord) /\ Len(new) = Len(h)
        /\ \A i \in 1 .. Len(h) : new[i] = IF i = n THEN e ELSE h[i]
      BY <1>1, <2>1, WrittenFacts DEF e
  <2>3. \A i \in 1 .. Len(h) :
            /\ new[i].recipientKeyId = h[i].recipientKeyId
            /\ new[i].effectiveAt = h[i].effectiveAt /\ new[i].expiresAt = h[i].expiresAt
            /\ new[i].state = IF i = n THEN s ELSE h[i].state
      BY <2>1, <2>2, ZenonT(60)
  <2>4. h # <<>> /\ new # <<>> /\ Last(new) = new[Len(h)]
    <3>1. Len(h) # 0 /\ Len(new) # 0
        BY <1>2, <2>2
    <3>2. (new = <<>> <=> Len(new) = 0) /\ (new # <<>> => Last(new) = new[Len(new)])
        BY <2>2, ObjectFacts, ZenonT(60)
    <3> QED BY <1>2, <2>2, <3>1, <3>2, ZenonT(60)
  <2>5. \A i \in 1 .. Len(new) :
            /\ keys'[new[i].recipientKeyId] # "absent"
            /\ new[i].effectiveAt < new[i].expiresAt
            /\ new[i].effectiveAt = new[1].effectiveAt /\ new[i].expiresAt = new[1].expiresAt
      BY <1>2, <1>3, <1>4, <2>2, <2>3, <2>4, SMTT(60)
  <2>6. /\ Last(new).effectiveAt = Last(h).effectiveAt /\ Last(new).expiresAt = Last(h).expiresAt
        /\ Last(h).state = "revoked" /\ ~ CanReinstate(g) => Last(new).state = "revoked"
      BY <1>2, <2>3, <2>4, ZenonT(60)
  <2> QED BY <1>2, <2>2, <2>4, <2>5, <2>6, SMTT(60)
<1>8. CASE \E n \in 1 .. Len(h), k \in KeyIds :
              /\ keys[k] # "absent"
              /\ h[n].state # "revoked" => CanReinstate(g)
              /\ new = Append(h, [h[n] EXCEPT !.recipientKeyId = k])
  <2> PICK n \in 1 .. Len(h), k \in KeyIds :
              /\ keys[k] # "absent"
              /\ h[n].state # "revoked" => CanReinstate(g)
              /\ new = Append(h, [h[n] EXCEPT !.recipientKeyId = k])
      BY <1>8, ZenonT(60)
  <2> DEFINE e == [h[n] EXCEPT !.recipientKeyId = k]
  <2>1. /\ e \in GrantRecord /\ e.recipientKeyId = k
        /\ e.effectiveAt = h[n].effectiveAt /\ e.expiresAt = h[n].expiresAt /\ e.state = h[n].state
      BY <1>2, ZenonT(60) DEF GrantRecord
  <2> HIDE DEF e
  <2>2. /\ new \in Seq(GrantRecord) /\ Len(new) = Len(h) + 1 /\ new[Len(h) + 1] = e
        /\ \A i \in 1 .. Len(h) : new[i] = h[i]
      BY <1>1, <2>1, StoredFacts DEF e
  <2>3. h # <<>> /\ new # <<>> /\ Last(new) = e /\ new[1] = first
    <3>1. Len(h) # 0 /\ Len(new) # 0
        BY <1>2, <2>2
    <3>2. (new = <<>> <=> Len(new) = 0) /\ (new # <<>> => Last(new) = new[Len(new)])
        BY <2>2, ObjectFacts, ZenonT(60)
    <3> QED BY <1>2, <2>2, <3>1, <3>2, ZenonT(60)
  <2>4. ASSUME NEW i \in 1 .. Len(new)
        PROVE  /\ keys'[new[i].recipientKeyId] # "absent"
               /\ new[i].effectiveAt < new[i].expiresAt
               /\ new[i].effectiveAt = new[1].effectiveAt /\ new[i].expiresAt = new[1].expiresAt
    <3>1. CASE i \in 1 .. Len(h)
        BY <1>3, <1>4, <2>2, <2>3, <3>1, ZenonT(60)
    <3>2. CASE i = Len(h) + 1
        BY <1>3, <2>1, <2>2, <2>3, <3>2, ZenonT(60)
    <3> QED BY <1>2, <2>2, <3>1, <3>2, SMTT(60)
  <2>5. /\ Last(new).effectiveAt = Last(h).effectiveAt /\ Last(new).expiresAt = Last(h).expiresAt
        /\ ~ CanReinstate(g) => Last(new).state = "revoked"
      BY <1>2, <1>3, <2>1, <2>3, ZenonT(60)
  <2> QED BY <1>2, <2>2, <2>3, <2>4, <2>5, SMTT(60)
<1>9. CASE Restarted /\ h # <<>> /\ new = <<Last(h)>>
  <2>1. Last(h) = h[Len(h)] /\ Len(h) \in 1 .. Len(h) /\ Last(h) \in GrantRecord
      BY <1>2, <1>9, ZenonT(60)
  <2>2. new \in Seq(GrantRecord) /\ Len(new) = 1 /\ new[1] = Last(h)
      BY <1>9, <2>1, StoredFacts, SMTT(60)
  <2>3. new # <<>> /\ Last(new) = Last(h)
      BY <2>2, ObjectFacts
  <2>4. \A i \in 1 .. Len(new) : new[i] = h[Len(h)] /\ new[1] = h[Len(h)]
      BY <2>1, <2>2
  <2> QED BY <1>3, <1>4, <1>9, <2>1, <2>2, <2>3, <2>4, ZenonT(60)
<1> HIDE DEF h, new
<1> QED BY <1>5, <1>6, <1>7, <1>8, <1>9, ZenonT(60) DEF GrantMoves, h, new

-----------------------------------------------------------------------------
(* What a step may do to the objects of one controller authorization:      *)
(* stage the first, set the state of one, store a successor, store a       *)
(* successor and retire an older object of the same identifier, or keep    *)
(* the last.                                                               *)
Successor(k) == [keyId |-> k, state |-> "active"]

AuthorizationMoves(a) ==
    LET h == authorizations[a] IN
    \/ authorizations'[a] = h
    \/ /\ h = <<>>
       /\ \E k \in KeyIds : keys[k] # "absent" /\ authorizations'[a] = <<[keyId |-> k, state |-> "staged"]>>
    \/ \E n \in 1 .. Len(h), s \in {"active", "retired"} :
          authorizations'[a] = [h EXCEPT ![n] = [h[n] EXCEPT !.state = s]]
    \/ \E k \in KeyIds : keys[k] # "absent" /\ authorizations'[a] = Append(h, Successor(k))
    \/ \E k \in KeyIds, n \in 1 .. Len(h) :
          /\ keys[k] # "absent"
          /\ authorizations'[a] = [Append(h, Successor(k)) EXCEPT ![n] = [h[n] EXCEPT !.state = "retired"]]
    \/ Restarted /\ h # <<>> /\ authorizations'[a] = <<Last(h)>>

(* StoreSuccessor, by what the call holds, and what it does when successor *)
(* and predecessor differ and when they are one identifier.                *)
Succeeds(p, q, k, n) ==
    authorizations' = [[authorizations EXCEPT ![q] = Append(@, Successor(k))] EXCEPT ![p][n].state = "retired"]

LEMMA SuccessorStored ==
    ASSUME KeyTypeOK, NEW p \in AuthorizationIds, NEW q \in AuthorizationIds, NEW k \in KeyIds,
           NEW n \in 1 .. Len(authorizations[p]), Succeeds(p, q, k, n)
    PROVE  /\ Over(authorizations', AuthorizationIds)
           /\ \A a \in AuthorizationIds \ {p, q} : authorizations'[a] = authorizations[a]
           /\ p # q => /\ authorizations'[q] = Append(authorizations[q], Successor(k))
                       /\ authorizations'[p] = [authorizations[p] EXCEPT
                                ![n] = [authorizations[p][n] EXCEPT !.state = "retired"]]
           /\ p = q => authorizations'[p] = [Append(authorizations[p], Successor(k)) EXCEPT
                                ![n] = [authorizations[p][n] EXCEPT !.state = "retired"]]
<1> DEFINE stored == [authorizations EXCEPT ![q] = Append(authorizations[q], Successor(k))]
<1>1. authorizations \in [AuthorizationIds -> Seq(AuthorizationRecord)] /\ authorizations[p] \in Seq(AuthorizationRecord)
    BY ZenonT(60) DEF KeyTypeOK
<1>2. authorizations' = [stored EXCEPT ![p] = [stored[p] EXCEPT ![n] = [stored[p][n] EXCEPT !.state = "retired"]]]
    BY ZenonT(60) DEF Succeeds
<1>3. /\ DOMAIN stored = AuthorizationIds /\ stored[q] = Append(authorizations[q], Successor(k))
      /\ \A a \in AuthorizationIds \ {q} : stored[a] = authorizations[a]
    BY <1>1, ZenonT(60)
<1>4. Successor(k) \in AuthorizationRecord
    BY ZenonT(60) DEF Successor, AuthorizationRecord
<1>5. Append(authorizations[p], Successor(k))[n] = authorizations[p][n]
    BY <1>1, <1>4, StoredFacts
<1> HIDE DEF stored
<1>6. /\ DOMAIN authorizations' = AuthorizationIds
      /\ authorizations'[p] = [stored[p] EXCEPT ![n] = [stored[p][n] EXCEPT !.state = "retired"]]
      /\ \A a \in AuthorizationIds \ {p} : authorizations'[a] = stored[a]
    BY <1>2, <1>3, ZenonT(60)
<1>7. Over(authorizations', AuthorizationIds)
  <2>1. Over(authorizations, AuthorizationIds)
      BY <1>1, ZenonT(60) DEF Over
  <2>2. Over(stored, AuthorizationIds)
      BY <2>1, ReplacedFacts, ZenonT(60) DEF stored
  <2> QED BY <1>2, <2>2, ReplacedFacts, ZenonT(60)
<1>8. CASE p # q
    BY <1>3, <1>6, <1>8, <1>7, ZenonT(60)
<1>9. CASE p = q
    BY <1>3, <1>5, <1>6, <1>9, <1>7, ZenonT(60)
<1> QED BY <1>8, <1>9, ZenonT(60)

LEMMA AuthorizationsMove ==
    ASSUME KeyInv, [KeyNext]_keyVars
    PROVE  Over(authorizations', AuthorizationIds) /\ \A a \in AuthorizationIds : AuthorizationMoves(a)
<1>1. KeyTypeOK /\ KeysPresent
    BY ZenonT(60) DEF KeyInv
<1>2. /\ DOMAIN authorizations = AuthorizationIds /\ Over(authorizations, AuthorizationIds)
      /\ \A a \in AuthorizationIds : authorizations[a] \in Seq(AuthorizationRecord)
    BY <1>1, ZenonT(60) DEF KeyTypeOK, Over
<1>3. CASE UNCHANGED authorizations
    BY <1>2, <1>3, ZenonT(60) DEF AuthorizationMoves
<1>4. CASE \E a \in AuthorizationIds, k \in KeyIds : stageControllerAuthorization(a, k)
  <2> PICK a \in AuthorizationIds, k \in KeyIds : stageControllerAuthorization(a, k)
      BY <1>4, ZenonT(60)
  <2>1. /\ authorizations' = [authorizations EXCEPT ![a] = <<[keyId |-> k, state |-> "staged"]>>]
        /\ authorizations[a] = <<>> /\ keys[k] # "absent"
      BY ZenonT(60) DEF stageControllerAuthorization, HasAuthorization
  <2>2. AuthorizationMoves(a)
      BY <1>2, <2>1, ZenonT(60) DEF AuthorizationMoves
  <2>3. \A o \in AuthorizationIds \ {a} : AuthorizationMoves(o)
      BY <1>2, <2>1, ZenonT(60) DEF AuthorizationMoves
  <2> QED BY <1>2, <2>1, <2>2, <2>3, ReplacedFacts, ZenonT(60)
<1>5. CASE \E a \in AuthorizationIds : activateControllerAuthorization(a)
  <2> PICK a \in AuthorizationIds : activateControllerAuthorization(a)
      BY <1>5, ZenonT(60)
  <2> DEFINE n == Len(authorizations[a])
  <2>1. /\ authorizations' = [authorizations EXCEPT
               ![a] = [authorizations[a] EXCEPT ![n] = [authorizations[a][n] EXCEPT !.state = "active"]]]
        /\ authorizations[a] # <<>>
      BY ZenonT(60) DEF activateControllerAuthorization, HasAuthorization
  <2>2. n \in 1 .. Len(authorizations[a])
      BY <1>2, <2>1, ObjectFacts, ZenonT(60)
  <2> HIDE DEF n
  <2>3. AuthorizationMoves(a)
      BY <1>2, <2>1, <2>2, ZenonT(60) DEF AuthorizationMoves
  <2>4. \A o \in AuthorizationIds \ {a} : AuthorizationMoves(o)
      BY <1>2, <2>1, ZenonT(60) DEF AuthorizationMoves
  <2> QED BY <1>2, <2>1, <2>3, <2>4, ReplacedFacts, ZenonT(60)
<1>6. CASE \E c \in CallIds : rotateControllerAuthorizationVerified(c, TRUE)
  <2> PICK c \in CallIds : rotateControllerAuthorizationVerified(c, TRUE)
      BY <1>6, ZenonT(60)
  <2>1. calls[c].method = "rotateControllerAuthorization" /\ StoreSuccessor(calls[c])
      BY ZenonT(60) DEF rotateControllerAuthorizationVerified, Resume
  <2>2. PICK p \in AuthorizationIds, q \in AuthorizationIds, k \in KeyIds, n \in Nat :
             /\ p = calls[c].predecessorId /\ q = calls[c].successorId /\ k = calls[c].successorKeyId
             /\ n = calls[c].object /\ n \in 1 .. Len(authorizations[p])
      BY <1>1, <2>1, CallFacts
  <2>3. keys[k] # "absent"
      BY <1>1, <2>1, <2>2, ZenonT(60) DEF KeysPresent
  <2>4. /\ Over(authorizations', AuthorizationIds)
        /\ \A a \in AuthorizationIds \ {p, q} : authorizations'[a] = authorizations[a]
        /\ p # q => /\ authorizations'[q] = Append(authorizations[q], Successor(k))
                    /\ authorizations'[p] = [authorizations[p] EXCEPT
                             ![n] = [authorizations[p][n] EXCEPT !.state = "retired"]]
        /\ p = q => authorizations'[p] = [Append(authorizations[p], Successor(k)) EXCEPT
                             ![n] = [authorizations[p][n] EXCEPT !.state = "retired"]]
    <3>1. Succeeds(p, q, k, n)
        BY <2>1, <2>2, ZenonT(60) DEF StoreSuccessor, Successor, Succeeds
    <3>2. n \in 1 .. Len(authorizations[p])
        BY <2>2, ZenonT(60)
    <3> QED BY <1>1, <3>1, <3>2, SuccessorStored
  <2>5. AuthorizationMoves(p)
      BY <2>2, <2>3, <2>4, ZenonT(60) DEF AuthorizationMoves
  <2>6. p # q => AuthorizationMoves(q)
      BY <2>3, <2>4, ZenonT(60) DEF AuthorizationMoves
  <2>7. \A o \in AuthorizationIds \ {p, q} : AuthorizationMoves(o)
      BY <2>4, ZenonT(60) DEF AuthorizationMoves
  <2> QED BY <2>4, <2>5, <2>6, <2>7, ZenonT(60)
<1>7. CASE fromSnapshot
  <2>1. /\ authorizations' = [a \in AuthorizationIds |->
                                 IF authorizations[a] # <<>> THEN <<Last(authorizations[a])>> ELSE <<>>]
        /\ Restarted
      BY <1>7, ZenonT(60) DEF fromSnapshot, snapshot, HasAuthorization, authorization, Restarted
  <2>2. Over(authorizations', AuthorizationIds)
      BY <2>1, ZenonT(60) DEF Over
  <2> QED BY <2>1, <2>2, ZenonT(60) DEF AuthorizationMoves
<1> QED BY <1>3, <1>4, <1>5, <1>6, <1>7, ZenonT(60) DEF KeyNext, keyVars, addKey, activateKey, recordKeyFailure, retireKey,
        rotateControllerAuthorization, rotateControllerAuthorizationVerified, prepareGrant, activateGrant,
        activateGrantVerified, revokeGrant, rotateRecipientEnvelope, rotateRecipientEnvelopeVerified

(* Every move keeps the objects sound.                                     *)
LEMMA AuthorizationMoveKeeps ==
    ASSUME KeyInv, \A k \in KeyIds : keys[k] # "absent" => keys'[k] # "absent",
           NEW a \in AuthorizationIds, AuthorizationMoves(a)
    PROVE  /\ authorizations'[a] \in Seq(AuthorizationRecord)
           /\ \A i \in 1 .. Len(authorizations'[a]) : keys'[authorizations'[a][i].keyId] # "absent"
           /\ Len(authorizations[a]) <= Len(authorizations'[a]) \/ Restarted
<1> DEFINE h == authorizations[a]
           new == authorizations'[a]
<1>1. h \in Seq(AuthorizationRecord)
    BY ZenonT(60) DEF KeyInv, KeyTypeOK
<1>2. /\ Len(h) \in Nat /\ \A i \in 1 .. Len(h) : h[i] \in AuthorizationRecord
      /\ h # <<>> => Last(h) = h[Len(h)] /\ Len(h) \in 1 .. Len(h)
    BY <1>1, ObjectFacts, ZenonT(60)
<1>3. \A i \in 1 .. Len(h) : keys'[h[i].keyId] # "absent"
  <2>1. \A i \in 1 .. Len(h) : h[i].keyId \in KeyIds
      BY <1>2, ZenonT(60) DEF AuthorizationRecord
  <2>2. \A i \in 1 .. Len(h) : keys[h[i].keyId] # "absent"
      BY ZenonT(60) DEF KeyInv, KeysPresent
  <2> QED BY <2>1, <2>2, ZenonT(60)
<1>4. ASSUME NEW n \in 1 .. Len(h), NEW s \in {"active", "retired"}
      PROVE  [h[n] EXCEPT !.state = s] \in AuthorizationRecord /\ [h[n] EXCEPT !.state = s].keyId = h[n].keyId
    BY <1>2, ZenonT(60) DEF AuthorizationRecord
<1>5. ASSUME NEW k \in KeyIds
      PROVE  Successor(k) \in AuthorizationRecord /\ Successor(k).keyId = k
    BY ZenonT(60) DEF Successor, AuthorizationRecord
<1>6. CASE new = h
    BY <1>1, <1>2, <1>3, <1>6, SMTT(60)
<1>7. CASE h = <<>> /\ \E k \in KeyIds : keys[k] # "absent" /\ new = <<[keyId |-> k, state |-> "staged"]>>
  <2> PICK k \in KeyIds : keys[k] # "absent" /\ new = <<[keyId |-> k, state |-> "staged"]>>
      BY <1>7, ZenonT(60)
  <2>1. [keyId |-> k, state |-> "staged"] \in AuthorizationRecord
      BY ZenonT(60) DEF AuthorizationRecord
  <2>2. new \in Seq(AuthorizationRecord) /\ Len(new) = 1 /\ new[1].keyId = k
      BY <2>1, StoredFacts
  <2> QED BY <1>2, <1>7, <2>2
<1>8. CASE \E n \in 1 .. Len(h), s \in {"active", "retired"} : new = [h EXCEPT ![n] = [h[n] EXCEPT !.state = s]]
  <2> PICK n \in 1 .. Len(h), s \in {"active", "retired"} : new = [h EXCEPT ![n] = [h[n] EXCEPT !.state = s]]
      BY <1>8, ZenonT(60)
  <2> DEFINE e == [h[n] EXCEPT !.state = s]
  <2>1. e \in AuthorizationRecord /\ e.keyId = h[n].keyId
      BY <1>4, ZenonT(60)
  <2> HIDE DEF e
  <2>2. /\ new \in Seq(AuthorizationRecord) /\ Len(new) = Len(h)
        /\ \A i \in 1 .. Len(h) : new[i] = IF i = n THEN e ELSE h[i]
      BY <1>1, <2>1, WrittenFacts DEF e
  <2> QED BY <1>2, <1>3, <2>1, <2>2
<1>9. CASE \E k \in KeyIds : keys[k] # "absent" /\ new = Append(h, Successor(k))
  <2> PICK k \in KeyIds : keys[k] # "absent" /\ new = Append(h, Successor(k))
      BY <1>9, ZenonT(60)
  <2>1. /\ new \in Seq(AuthorizationRecord) /\ Len(new) = Len(h) + 1 /\ new[Len(h) + 1] = Successor(k)
        /\ \A i \in 1 .. Len(h) : new[i] = h[i]
      BY <1>1, <1>5, StoredFacts
  <2> QED BY <1>2, <1>3, <1>5, <2>1
<1>10. CASE \E k \in KeyIds, n \in 1 .. Len(h) :
               keys[k] # "absent" /\ new = [Append(h, Successor(k)) EXCEPT ![n] = [h[n] EXCEPT !.state = "retired"]]
  <2> PICK k \in KeyIds, n \in 1 .. Len(h) :
               keys[k] # "absent" /\ new = [Append(h, Successor(k)) EXCEPT ![n] = [h[n] EXCEPT !.state = "retired"]]
      BY <1>10, ZenonT(60)
  <2> DEFINE e == [h[n] EXCEPT !.state = "retired"]
             stored == Append(h, Successor(k))
  <2>1. e \in AuthorizationRecord /\ e.keyId = h[n].keyId
      BY <1>4, ZenonT(60)
  <2>2. /\ stored \in Seq(AuthorizationRecord) /\ Len(stored) = Len(h) + 1 /\ stored[Len(h) + 1] = Successor(k)
        /\ \A i \in 1 .. Len(h) : stored[i] = h[i]
      BY <1>1, <1>5, StoredFacts, SMTT(30)
  <2>3. new = [stored EXCEPT ![n] = e] /\ n \in 1 .. Len(stored)
      BY <1>2, <2>2
  <2> HIDE DEF e, stored
  <2>4. /\ new \in Seq(AuthorizationRecord) /\ Len(new) = Len(stored)
        /\ \A i \in 1 .. Len(stored) : new[i] = IF i = n THEN e ELSE stored[i]
    <3>1. stored \in Seq(AuthorizationRecord) /\ n \in 1 .. Len(stored) /\ e \in AuthorizationRecord
        BY <2>1, <2>2, <2>3, ZenonT(60)
    <3>2. /\ [stored EXCEPT ![n] = e] \in Seq(AuthorizationRecord) /\ Len([stored EXCEPT ![n] = e]) = Len(stored)
          /\ \A i \in 1 .. Len(stored) : [stored EXCEPT ![n] = e][i] = IF i = n THEN e ELSE stored[i]
        BY <3>1, WrittenFacts
    <3> HIDE DEF new
    <3> QED BY <2>3, <3>2, ZenonT(60)
  <2>5. ASSUME NEW i \in 1 .. Len(new)
        PROVE  keys'[new[i].keyId] # "absent"
    <3>1. CASE i = n
        BY <1>3, <2>1, <2>4, <3>1, ZenonT(30)
    <3>2. CASE i # n /\ i \in 1 .. Len(h)
        BY <1>3, <2>2, <2>4, <3>2, ZenonT(30)
    <3>3. CASE i # n /\ i = Len(h) + 1
      <4>1. new[i] = Successor(k)
          BY <2>2, <2>4, <3>3, ZenonT(30)
      <4>2. new[i].keyId = k
          BY <1>5, <4>1, ZenonT(60)
      <4> QED BY <4>2, ZenonT(60)
    <3> QED BY <1>2, <2>2, <2>4, <3>1, <3>2, <3>3
  <2>6. Len(h) <= Len(new)
      BY <1>2, <2>2, <2>4
  <2> QED BY <2>4, <2>5, <2>6, ZenonT(60)
<1>11. CASE Restarted /\ h # <<>> /\ new = <<Last(h)>>
  <2>1. new \in Seq(AuthorizationRecord) /\ Len(new) = 1 /\ new[1] = h[Len(h)]
      BY <1>2, <1>11, StoredFacts
  <2> QED BY <1>2, <1>3, <1>11, <2>1, SMTT(60)
<1> HIDE DEF h, new
<1> QED BY <1>6, <1>7, <1>8, <1>9, <1>10, <1>11, ZenonT(60) DEF AuthorizationMoves, h, new

-----------------------------------------------------------------------------
(* The suspended calls.                                                    *)

(* What a step may do to one call: leave it, end it, or suspend it holding *)
(* the last object of its identifier and a key that is there.              *)
CallMoves(c) ==
    \/ calls'[c] = calls[c]
    \/ calls'[c] = Idle
    \/ \E g \in GrantIds :
          /\ grants[g] # <<>> /\ UNCHANGED grants
          /\ calls'[c] = [method |-> "activateGrant", grantId |-> g, object |-> Len(grants[g])]
    \/ \E g \in GrantIds, k \in KeyIds :
          /\ grants[g] # <<>> /\ UNCHANGED grants /\ keys[k] # "absent"
          /\ calls'[c] = [method |-> "rotateRecipientEnvelope", grantId |-> g, object |-> Len(grants[g]),
                          successorKeyId |-> k]
    \/ \E a, b \in AuthorizationIds, k \in KeyIds :
          /\ authorizations[a] # <<>> /\ UNCHANGED authorizations /\ keys[k] # "absent"
          /\ calls'[c] = [method |-> "rotateControllerAuthorization", predecessorId |-> a,
                          object |-> Len(authorizations[a]), successorId |-> b, successorKeyId |-> k]

LEMMA CallsMove ==
    ASSUME KeyTypeOK, [KeyNext]_keyVars
    PROVE  Over(calls', CallIds) /\ \A c \in CallIds : CallMoves(c)
<1>1. DOMAIN calls = CallIds /\ Over(calls, CallIds)
    BY ZenonT(60) DEF KeyTypeOK, Over
<1>2. CASE UNCHANGED calls
    BY <1>1, <1>2, ZenonT(60) DEF CallMoves
<1>3. CASE \E c \in CallIds : calls' = [calls EXCEPT ![c] = Idle]
  <2> PICK c \in CallIds : calls' = [calls EXCEPT ![c] = Idle]
      BY <1>3, ZenonT(60)
  <2>1. Over(calls', CallIds)
      BY <1>1, ReplacedFacts, ZenonT(60)
  <2> QED BY <1>1, <2>1, ZenonT(60) DEF CallMoves
<1>4. CASE \E c \in CallIds, verified \in BOOLEAN :
              \/ rotateControllerAuthorizationVerified(c, verified)
              \/ activateGrantVerified(c, verified)
              \/ rotateRecipientEnvelopeVerified(c, verified)
    BY <1>3, <1>4, ZenonT(60) DEF rotateControllerAuthorizationVerified, activateGrantVerified,
        rotateRecipientEnvelopeVerified, Resume
<1>5. CASE Restarted
  <2>1. Over(calls', CallIds)
      BY <1>5, ZenonT(60) DEF Over, Restarted
  <2> QED BY <1>5, <2>1, ZenonT(60) DEF CallMoves, Restarted
<1>6. ASSUME NEW c \in CallIds, NEW call, calls' = [calls EXCEPT ![c] = call]
      PROVE  /\ Over(calls', CallIds) /\ calls'[c] = call
             /\ \A o \in CallIds \ {c} : CallMoves(o)
  <2>1. Over(calls', CallIds)
      BY <1>1, <1>6, ReplacedFacts, ZenonT(60)
  <2> QED BY <1>1, <1>6, <2>1, ZenonT(60) DEF CallMoves
<1>7. CASE \E c \in CallIds, g \in GrantIds, t \in Times : activateGrant(c, g, t)
  <2> PICK c \in CallIds, g \in GrantIds, t \in Times : activateGrant(c, g, t)
      BY <1>7, ZenonT(60)
  <2>1. /\ calls' = [calls EXCEPT ![c] = [method |-> "activateGrant", grantId |-> g, object |-> Len(grants[g])]]
        /\ grants[g] # <<>> /\ UNCHANGED grants
      BY ZenonT(60) DEF activateGrant, Suspend, HasGrant
  <2>2. CallMoves(c)
      BY <1>6, <2>1, ZenonT(60) DEF CallMoves
  <2> QED BY <1>6, <2>1, <2>2, ZenonT(60)
<1>8. CASE \E c \in CallIds, g \in GrantIds, k \in KeyIds : rotateRecipientEnvelope(c, g, k)
  <2> PICK c \in CallIds, g \in GrantIds, k \in KeyIds : rotateRecipientEnvelope(c, g, k)
      BY <1>8, ZenonT(60)
  <2>1. /\ calls' = [calls EXCEPT ![c] = [method |-> "rotateRecipientEnvelope", grantId |-> g,
                                          object |-> Len(grants[g]), successorKeyId |-> k]]
        /\ grants[g] # <<>> /\ UNCHANGED grants /\ keys[k] # "absent"
      BY ZenonT(60) DEF rotateRecipientEnvelope, Suspend, HasGrant
  <2>2. CallMoves(c)
      BY <1>6, <2>1, ZenonT(60) DEF CallMoves
  <2> QED BY <1>6, <2>1, <2>2, ZenonT(60)
<1>9. CASE \E c \in CallIds, a, b \in AuthorizationIds, k \in KeyIds : rotateControllerAuthorization(c, a, b, k)
  <2> PICK c \in CallIds, a \in AuthorizationIds, b \in AuthorizationIds, k \in KeyIds :
           rotateControllerAuthorization(c, a, b, k)
      BY <1>9, ZenonT(60)
  <2>1. /\ calls' = [calls EXCEPT ![c] = [method |-> "rotateControllerAuthorization", predecessorId |-> a,
                            object |-> Len(authorizations[a]), successorId |-> b, successorKeyId |-> k]]
        /\ authorizations[a] # <<>> /\ UNCHANGED authorizations /\ keys[k] # "absent"
      BY ZenonT(60) DEF rotateControllerAuthorization, Suspend, HasAuthorization
  <2>2. calls'[c] = [method |-> "rotateControllerAuthorization", predecessorId |-> a,
                     object |-> Len(authorizations[a]), successorId |-> b, successorKeyId |-> k]
      BY <1>6, <2>1, ZenonT(60)
  <2>3. CallMoves(c)
      BY <2>1, <2>2, ZenonT(60) DEF CallMoves
  <2> QED BY <1>6, <2>1, <2>3, ZenonT(60)
<1> QED BY <1>2, <1>4, <1>5, <1>7, <1>8, <1>9, ZenonT(60) DEF KeyNext, keyVars, addKey, activateKey, recordKeyFailure,
        retireKey, stageControllerAuthorization, activateControllerAuthorization, prepareGrant, revokeGrant,
        fromSnapshot, Restarted

(* What a call holds after the step is there.                              *)
LEMMA CallMoveKeeps ==
    ASSUME KeyInv, KeyTypeOK, KeysPresent,
           \A k \in KeyIds : keys[k] # "absent" => keys'[k] # "absent",
           \A g \in GrantIds : /\ grants'[g] \in Seq(GrantRecord)
                               /\ Len(grants[g]) <= Len(grants'[g]) \/ Restarted,
           \A a \in AuthorizationIds : /\ authorizations'[a] \in Seq(AuthorizationRecord)
                                       /\ Len(authorizations[a]) <= Len(authorizations'[a]) \/ Restarted,
           NEW c \in CallIds, CallMoves(c)
    PROVE  /\ calls'[c] \in Call
           /\ calls'[c].method \in {"activateGrant", "rotateRecipientEnvelope"} =>
                 calls'[c].object \in DOMAIN grants'[calls'[c].grantId]
           /\ calls'[c].method = "rotateControllerAuthorization" =>
                 calls'[c].object \in DOMAIN authorizations'[calls'[c].predecessorId]
           /\ calls'[c].method \in {"rotateRecipientEnvelope", "rotateControllerAuthorization"} =>
                 keys'[calls'[c].successorKeyId] # "absent"
<1>1. /\ \A g \in GrantIds : /\ Len(grants[g]) \in Nat /\ DOMAIN grants[g] = 1 .. Len(grants[g])
                            /\ grants[g] # <<>> => Len(grants[g]) \in 1 .. Len(grants[g])
      /\ \A a \in AuthorizationIds :
            /\ Len(authorizations[a]) \in Nat /\ DOMAIN authorizations[a] = 1 .. Len(authorizations[a])
            /\ authorizations[a] # <<>> => Len(authorizations[a]) \in 1 .. Len(authorizations[a])
  <2>1. /\ \A g \in GrantIds : grants[g] \in Seq(GrantRecord)
        /\ \A a \in AuthorizationIds : authorizations[a] \in Seq(AuthorizationRecord)
      BY ZenonT(60) DEF KeyTypeOK
  <2> QED BY <2>1, ObjectFacts, ZenonT(30)
<1>2. /\ \A g \in GrantIds : Len(grants'[g]) \in Nat /\ DOMAIN grants'[g] = 1 .. Len(grants'[g])
      /\ \A a \in AuthorizationIds :
            Len(authorizations'[a]) \in Nat /\ DOMAIN authorizations'[a] = 1 .. Len(authorizations'[a])
    BY ObjectFacts, ZenonT(60)
<1>3. CASE calls'[c] = Idle
    BY <1>3 DEF Call, Idle
<1>4. CASE calls'[c] = calls[c] /\ ~ Restarted
  <2>1. calls'[c] \in Call
      BY <1>4, ZenonT(60) DEF KeyTypeOK
  <2>2. ASSUME calls'[c].method \in {"activateGrant", "rotateRecipientEnvelope"}
        PROVE  calls'[c].object \in DOMAIN grants'[calls'[c].grantId]
    <3>1. PICK g \in GrantIds, n \in Nat :
               /\ g = calls[c].grantId /\ n = calls[c].object /\ n \in 1 .. Len(grants[g])
        BY <1>4, <2>2, CallFacts
    <3>2. n \in DOMAIN grants'[g]
        BY <1>1, <1>2, <1>4, <3>1
    <3> QED BY <1>4, <3>1, <3>2, ZenonT(60)
  <2>3. ASSUME calls'[c].method = "rotateControllerAuthorization"
        PROVE  calls'[c].object \in DOMAIN authorizations'[calls'[c].predecessorId]
    <3>1. PICK a \in AuthorizationIds, n \in Nat :
               /\ a = calls[c].predecessorId /\ n = calls[c].object /\ n \in 1 .. Len(authorizations[a])
        BY <1>4, <2>3, CallFacts
    <3>2. n \in DOMAIN authorizations'[a]
        BY <1>1, <1>2, <1>4, <3>1
    <3> QED BY <1>4, <3>1, <3>2, ZenonT(60)
  <2>4. ASSUME calls'[c].method \in {"rotateRecipientEnvelope", "rotateControllerAuthorization"}
        PROVE  keys'[calls'[c].successorKeyId] # "absent"
    <3>1. calls[c].successorKeyId \in KeyIds
        BY <1>4, <2>4, CallFacts, ZenonT(60)
    <3>2. keys[calls[c].successorKeyId] # "absent"
        BY <1>4, <2>4, ZenonT(60) DEF KeysPresent
    <3> QED BY <1>4, <3>1, <3>2, ZenonT(60)
  <2> QED BY <2>1, <2>2, <2>3, <2>4, ZenonT(60)
<1>5. CASE calls'[c] = calls[c] /\ Restarted
    BY <1>3, <1>5, ZenonT(60) DEF Restarted
<1>6. CASE \E g \in GrantIds :
              /\ grants[g] # <<>> /\ UNCHANGED grants
              /\ calls'[c] = [method |-> "activateGrant", grantId |-> g, object |-> Len(grants[g])]
  <2> PICK g \in GrantIds :
           /\ grants[g] # <<>> /\ UNCHANGED grants
           /\ calls'[c] = [method |-> "activateGrant", grantId |-> g, object |-> Len(grants[g])]
      BY <1>6, ZenonT(60)
  <2>1. calls'[c] \in Call
      BY <1>1 DEF Call
  <2>2. Len(grants[g]) \in DOMAIN grants'[g]
      BY <1>1
  <2> QED BY <2>1, <2>2
<1>7. CASE \E g \in GrantIds, k \in KeyIds :
              /\ grants[g] # <<>> /\ UNCHANGED grants /\ keys[k] # "absent"
              /\ calls'[c] = [method |-> "rotateRecipientEnvelope", grantId |-> g, object |-> Len(grants[g]),
                              successorKeyId |-> k]
  <2> PICK g \in GrantIds, k \in KeyIds :
           /\ grants[g] # <<>> /\ UNCHANGED grants /\ keys[k] # "absent"
           /\ calls'[c] = [method |-> "rotateRecipientEnvelope", grantId |-> g, object |-> Len(grants[g]),
                           successorKeyId |-> k]
      BY <1>7, ZenonT(60)
  <2>1. calls'[c] \in Call
      BY <1>1 DEF Call
  <2>2. Len(grants[g]) \in DOMAIN grants'[g] /\ keys'[k] # "absent"
      BY <1>1
  <2> QED BY <2>1, <2>2
<1>8. CASE \E a, b \in AuthorizationIds, k \in KeyIds :
              /\ authorizations[a] # <<>> /\ UNCHANGED authorizations /\ keys[k] # "absent"
              /\ calls'[c] = [method |-> "rotateControllerAuthorization", predecessorId |-> a,
                              object |-> Len(authorizations[a]), successorId |-> b, successorKeyId |-> k]
  <2> PICK a \in AuthorizationIds, b \in AuthorizationIds, k \in KeyIds :
           /\ authorizations[a] # <<>> /\ UNCHANGED authorizations /\ keys[k] # "absent"
           /\ calls'[c] = [method |-> "rotateControllerAuthorization", predecessorId |-> a,
                           object |-> Len(authorizations[a]), successorId |-> b, successorKeyId |-> k]
      BY <1>8, ZenonT(60)
  <2>1. calls'[c] \in Call
      BY <1>1 DEF Call
  <2>2. Len(authorizations[a]) \in DOMAIN authorizations'[a] /\ keys'[k] # "absent"
      BY <1>1, ZenonT(60)
  <2> QED BY <2>1, <2>2
<1> QED BY <1>3, <1>4, <1>5, <1>6, <1>7, <1>8, ZenonT(60) DEF CallMoves

-----------------------------------------------------------------------------
(* The invariant is inductive.                                             *)

LEMMA KeyInvInit == KeyInit => KeyInv
<1> SUFFICES ASSUME KeyInit PROVE KeyInv
    OBVIOUS
<1>1. /\ \A a \in AuthorizationIds : authorizations[a] = <<>>
      /\ \A g \in GrantIds : grants[g] = <<>>
      /\ \A c \in CallIds : calls[c] = Idle
    BY ZenonT(60) DEF KeyInit
<1>2. Idle \in Call /\ Idle.method = "none"
    BY ZenonT(60) DEF Call, Idle
<1>3. KeyTypeOK
  <2>1. /\ keys \in [KeyIds -> KeyStates \cup {"absent"}]
        /\ authorizations \in [AuthorizationIds -> Seq(AuthorizationRecord)]
        /\ grants \in [GrantIds -> Seq(GrantRecord)]
        /\ calls \in [CallIds -> Call]
      BY <1>2 DEF KeyInit
  <2> QED BY <1>1, <1>2, <2>1, ZenonT(60) DEF KeyTypeOK
<1>4. KeysPresent /\ OneWindow
    BY <1>1, <1>2 DEF KeysPresent, OneWindow
<1> QED BY <1>3, <1>4, ZenonT(60) DEF KeyInv

LEMMA KeyInvStep == KeyInv /\ [KeyNext]_keyVars => KeyInv'
<1> SUFFICES ASSUME KeyInv, [KeyNext]_keyVars PROVE KeyInv'
    OBVIOUS
<1>1. KeyTypeOK /\ KeysPresent /\ OneWindow
    BY ZenonT(60) DEF KeyInv
<1>2. /\ keys' \in [KeyIds -> KeyStates \cup {"absent"}]
      /\ \A k \in KeyIds : keys[k] # "absent" => keys'[k] # "absent"
    BY <1>1, KeysKept, ZenonT(60)
<1>3. Over(grants', GrantIds) /\ Over(authorizations', AuthorizationIds) /\ Over(calls', CallIds)
    BY <1>1, GrantsMove, AuthorizationsMove, CallsMove, ZenonT(60)
<1>4. \A g \in GrantIds :
          /\ grants'[g] \in Seq(GrantRecord)
          /\ \A i \in 1 .. Len(grants'[g]) :
                /\ keys'[grants'[g][i].recipientKeyId] # "absent"
                /\ grants'[g][i].effectiveAt < grants'[g][i].expiresAt
                /\ grants'[g][i].effectiveAt = grants'[g][1].effectiveAt
                /\ grants'[g][i].expiresAt = grants'[g][1].expiresAt
          /\ Len(grants[g]) <= Len(grants'[g]) \/ Restarted
    BY <1>2, GrantsMove, GrantMoveKeeps, ZenonT(60)
<1>5. \A a \in AuthorizationIds :
          /\ authorizations'[a] \in Seq(AuthorizationRecord)
          /\ \A i \in 1 .. Len(authorizations'[a]) : keys'[authorizations'[a][i].keyId] # "absent"
          /\ Len(authorizations[a]) <= Len(authorizations'[a]) \/ Restarted
    BY <1>2, AuthorizationsMove, AuthorizationMoveKeeps, ZenonT(60)
<1>6. \A c \in CallIds :
          /\ calls'[c] \in Call
          /\ calls'[c].method \in {"activateGrant", "rotateRecipientEnvelope"} =>
                calls'[c].object \in DOMAIN grants'[calls'[c].grantId]
          /\ calls'[c].method = "rotateControllerAuthorization" =>
                calls'[c].object \in DOMAIN authorizations'[calls'[c].predecessorId]
          /\ calls'[c].method \in {"rotateRecipientEnvelope", "rotateControllerAuthorization"} =>
                keys'[calls'[c].successorKeyId] # "absent"
    BY <1>1, <1>2, <1>4, <1>5, CallsMove, CallMoveKeeps, ZenonT(60)
<1>7. /\ grants' \in [GrantIds -> Seq(GrantRecord)]
      /\ authorizations' \in [AuthorizationIds -> Seq(AuthorizationRecord)]
      /\ calls' \in [CallIds -> Call]
    BY <1>3, <1>4, <1>5, <1>6, ZenonT(60) DEF Over
<1>8. KeyTypeOK'
    BY <1>2, <1>6, <1>7, ZenonT(60) DEF KeyTypeOK
<1>9. KeysPresent'
    BY <1>4, <1>5, <1>6, ZenonT(60) DEF KeysPresent
<1>10. OneWindow'
    BY <1>4, ZenonT(60) DEF OneWindow
<1> QED BY <1>8, <1>9, <1>10, ZenonT(60) DEF KeyInv

(* Whatever calls overlap, every key an object or a suspended call of the  *)
(* registry names was added with addKey, the objects ever stored for a     *)
(* grant share one window that is not empty, and a suspended call holds an *)
(* object that its map held.                                               *)
THEOREM KeyInvariant == KeySpec => []KeyInv
    BY KeyInvInit, KeyInvStep, PTL DEF KeySpec

-----------------------------------------------------------------------------
(* snapshot() is always one that fromSnapshot accepts: no sequence of      *)
(* calls, rotations in flight included, brings the registry into a state   *)
(* that a restart would refuse to hydrate.                                 *)
THEOREM SnapshotsHydrate == KeySpec => []SnapshotIsHydratable
<1>1. ASSUME KeyInv PROVE SnapshotIsHydratable
  <2>1. KeyTypeOK /\ KeysPresent /\ OneWindow
      BY <1>1, ZenonT(60) DEF KeyInv
  <2>2. /\ \A a \in AuthorizationIds : authorizations[a] # <<>> =>
              Last(authorizations[a]) = authorizations[a][Len(authorizations[a])]
              /\ Len(authorizations[a]) \in 1 .. Len(authorizations[a])
        /\ \A g \in GrantIds : grants[g] # <<>> =>
              Last(grants[g]) = grants[g][Len(grants[g])] /\ Len(grants[g]) \in 1 .. Len(grants[g])
    <3>1. /\ \A a \in AuthorizationIds : authorizations[a] \in Seq(AuthorizationRecord)
          /\ \A g \in GrantIds : grants[g] \in Seq(GrantRecord)
        BY <2>1, ZenonT(60) DEF KeyTypeOK
    <3> QED BY <3>1, ObjectFacts, ZenonT(60)
  <2>3. ASSUME NEW a \in AuthorizationIds, authorizations[a] # <<>>
        PROVE  keys[Last(authorizations[a]).keyId] # "absent"
      BY <2>1, <2>2, <2>3, ZenonT(60) DEF KeysPresent
  <2>4. ASSUME NEW g \in GrantIds, grants[g] # <<>>
        PROVE  /\ keys[Last(grants[g]).recipientKeyId] # "absent"
               /\ Last(grants[g]).effectiveAt < Last(grants[g]).expiresAt
      BY <2>1, <2>2, <2>4, ZenonT(60) DEF KeysPresent, OneWindow
  <2>5. ASSUME NEW a \in AuthorizationIds, snapshot.authorizations[a] # <<>>
        PROVE  snapshot.keys[snapshot.authorizations[a][1].keyId] # "absent"
    <3>1. authorizations[a] # <<>> /\ snapshot.authorizations[a] = <<Last(authorizations[a])>>
        BY <2>5, ZenonT(60) DEF snapshot, HasAuthorization, authorization
    <3>2. snapshot.keys = keys
        BY ZenonT(60) DEF snapshot
    <3> QED BY <2>3, <3>1, <3>2
  <2>6. ASSUME NEW g \in GrantIds, snapshot.grants[g] # <<>>
        PROVE  /\ snapshot.keys[snapshot.grants[g][1].recipientKeyId] # "absent"
               /\ snapshot.grants[g][1].effectiveAt < snapshot.grants[g][1].expiresAt
    <3>1. grants[g] # <<>> /\ snapshot.grants[g] = <<Last(grants[g])>>
        BY <2>6, ZenonT(60) DEF snapshot, HasGrant, grant
    <3>2. snapshot.keys = keys
        BY ZenonT(60) DEF snapshot
    <3> QED BY <2>4, <3>1, <3>2
  <2> QED BY <2>5, <2>6, ZenonT(60) DEF SnapshotIsHydratable, Hydratable
<1> QED BY <1>1, KeyInvariant, PTL

(* revokeGrant is final, and a grant keeps its window, through every step  *)
(* of every method and every restart, unless a suspended activateGrant     *)
(* holds the revoked object or a suspended rotateRecipientEnvelope one     *)
(* that nobody revoked.                                                    *)
THEOREM RevocationsLast == KeySpec => RevocationIsFinalUnlessOverlapped
<1>1. ASSUME KeyInv, [KeyNext]_keyVars, NEW g \in GrantIds, HasGrant(g)
      PROVE  /\ HasGrant(g)'
             /\ grant(g)'.effectiveAt = grant(g).effectiveAt
             /\ grant(g)'.expiresAt = grant(g).expiresAt
             /\ Revoked(g) /\ ~ CanReinstate(g) => Revoked(g)'
  <2>1. \A k \in KeyIds : keys[k] # "absent" => keys'[k] # "absent"
      BY <1>1, KeysKept, ZenonT(60) DEF KeyInv
  <2>2. GrantMoves(g)
      BY <1>1, GrantsMove, ZenonT(60)
  <2>3. /\ grants'[g] # <<>>
        /\ Last(grants'[g]).effectiveAt = Last(grants[g]).effectiveAt
        /\ Last(grants'[g]).expiresAt = Last(grants[g]).expiresAt
        /\ Last(grants[g]).state = "revoked" /\ ~ CanReinstate(g) => Last(grants'[g]).state = "revoked"
      BY <1>1, <2>1, <2>2, GrantMoveKeeps, ZenonT(60) DEF HasGrant
  <2> QED BY <2>3, ZenonT(60) DEF HasGrant, grant, Revoked
<1>2. ASSUME KeyInv, [KeyNext]_keyVars
      PROVE  \A g \in GrantIds : HasGrant(g) =>
                /\ HasGrant(g)'
                /\ grant(g)'.effectiveAt = grant(g).effectiveAt
                /\ grant(g)'.expiresAt = grant(g).expiresAt
                /\ Revoked(g) /\ ~ CanReinstate(g) => Revoked(g)'
    BY <1>1, <1>2, ZenonT(60)
<1> QED BY <1>2, KeyInvariant, PTL DEF KeySpec, RevocationIsFinalUnlessOverlapped

-----------------------------------------------------------------------------
(* The path to the bundle key.                                             *)

(* After a verified rotation the successor's identifier holds the          *)
(* successor.                                                              *)
LEMMA SuccessorControls ==
    ASSUME KeyInv, NEW c \in CallIds, rotateControllerAuthorizationVerified(c, TRUE),
           isUsableKey(calls[c].successorKeyId)
    PROVE  \E q \in AuthorizationIds, k \in KeyIds :
              /\ isUsableKey(k)
              /\ authorizations'[q] # <<>> /\ Last(authorizations'[q]) = Successor(k)
<1>1. KeyTypeOK
    BY ZenonT(60) DEF KeyInv
<1>2. calls[c].method = "rotateControllerAuthorization" /\ StoreSuccessor(calls[c])
    BY ZenonT(60) DEF rotateControllerAuthorizationVerified, Resume
<1>3. PICK p \in AuthorizationIds, q \in AuthorizationIds, k \in KeyIds, n \in Nat :
           /\ p = calls[c].predecessorId /\ q = calls[c].successorId /\ k = calls[c].successorKeyId
           /\ n = calls[c].object /\ n \in 1 .. Len(authorizations[p])
    BY <1>1, <1>2, CallFacts
<1>4. Succeeds(p, q, k, n) /\ n \in 1 .. Len(authorizations[p])
    BY <1>2, <1>3, ZenonT(60) DEF StoreSuccessor, Successor, Succeeds
<1>5. /\ p # q => authorizations'[q] = Append(authorizations[q], Successor(k))
      /\ p = q => authorizations'[q] = [Append(authorizations[q], Successor(k)) EXCEPT
                                           ![n] = [authorizations[q][n] EXCEPT !.state = "retired"]]
  <2>1. /\ p # q => /\ authorizations'[q] = Append(authorizations[q], Successor(k))
                    /\ authorizations'[p] = [authorizations[p] EXCEPT
                             ![n] = [authorizations[p][n] EXCEPT !.state = "retired"]]
        /\ p = q => authorizations'[p] = [Append(authorizations[p], Successor(k)) EXCEPT
                             ![n] = [authorizations[p][n] EXCEPT !.state = "retired"]]
      BY <1>1, <1>4, SuccessorStored
  <2> QED BY <2>1, ZenonT(60)
<1> DEFINE h == authorizations[q]
           stored == Append(h, Successor(k))
           e == [h[n] EXCEPT !.state = "retired"]
<1>6. h \in Seq(AuthorizationRecord) /\ Successor(k) \in AuthorizationRecord
    BY <1>1, ZenonT(60) DEF KeyTypeOK, Successor, AuthorizationRecord
<1>7. /\ Len(h) \in Nat /\ stored \in Seq(AuthorizationRecord)
      /\ Len(stored) = Len(h) + 1 /\ stored[Len(h) + 1] = Successor(k)
    BY <1>6, StoredFacts, ObjectFacts
<1>8. ASSUME NEW new \in Seq(AuthorizationRecord), Len(new) = Len(h) + 1, new[Len(h) + 1] = Successor(k)
      PROVE  new # <<>> /\ Last(new) = Successor(k)
  <2>1. Len(new) # 0
      BY <1>7, <1>8
  <2>2. new # <<>> /\ Last(new) = new[Len(new)]
      BY <2>1, ObjectFacts, ZenonT(60)
  <2> QED BY <1>8, <2>2, ZenonT(60)
<1>9. CASE p # q
    BY <1>3, <1>5, <1>7, <1>8, <1>9, ZenonT(60)
<1>10. CASE p = q
  <2>1. n \in 1 .. Len(h) /\ n \in 1 .. Len(stored) /\ n # Len(h) + 1
      BY <1>4, <1>7, <1>10, SMTT(60)
  <2>2. e \in AuthorizationRecord
    <3>1. h[n] \in AuthorizationRecord
        BY <1>6, <2>1, ObjectFacts, ZenonT(60)
    <3> QED BY <3>1, ZenonT(30) DEF AuthorizationRecord
  <2>3. Len(h) + 1 \in 1 .. Len(stored)
      BY <1>7
  <2> HIDE DEF e, stored
  <2>4. /\ [stored EXCEPT ![n] = e] \in Seq(AuthorizationRecord)
        /\ Len([stored EXCEPT ![n] = e]) = Len(stored)
        /\ [stored EXCEPT ![n] = e][Len(h) + 1] = stored[Len(h) + 1]
      BY <1>7, <2>1, <2>2, <2>3, WrittenFacts, SMTT(60)
  <2>5. [stored EXCEPT ![n] = e] # <<>> /\ Last([stored EXCEPT ![n] = e]) = Successor(k)
      BY <1>7, <1>8, <2>4, ZenonT(60)
  <2>6. authorizations'[q] = [stored EXCEPT ![n] = e]
      BY <1>5, <1>10, ZenonT(60) DEF stored, e
  <2> QED BY <1>3, <2>5, <2>6, ZenonT(60)
<1> QED BY <1>9, <1>10, ZenonT(60)

(* While no key fails and no rotation in flight names a failed key, a      *)
(* usable controller stays, or a rotation leaves another one.              *)
LEMMA ControllersStay ==
    ASSUME KeyInv, [KeyNext]_keyVars, NEW a \in UsableControllers,
           \A k \in KeyIds : ~ Fails(k), ~ RotationToFailedKey
    PROVE  UsableControllers' # {}
<1>1. /\ a \in AuthorizationIds /\ authorizations[a] # <<>>
      /\ Last(authorizations[a]).state = "active" /\ isUsableKey(Last(authorizations[a]).keyId)
    BY ZenonT(60) DEF UsableControllers, HasAuthorization, authorization
<1>2. KeyTypeOK /\ DOMAIN authorizations = AuthorizationIds /\ Last(authorizations[a]) \in AuthorizationRecord
  <2>1. KeyTypeOK /\ authorizations[a] \in Seq(AuthorizationRecord)
      BY <1>1, ZenonT(60) DEF KeyInv, KeyTypeOK
  <2> QED BY <1>1, <2>1, ObjectFacts DEF KeyTypeOK
<1>3. ASSUME NEW b \in AuthorizationIds, NEW r \in AuthorizationRecord, authorizations'[b] # <<>>,
             Last(authorizations'[b]) = r, r.state = "active", isUsableKey(r.keyId)
      PROVE  UsableControllers' # {}
  <2>1. r.keyId \in KeyIds
      BY ZenonT(60) DEF AuthorizationRecord
  <2>2. isUsableKey(r.keyId)'
      BY <1>3, <2>1, ZenonT(60) DEF Fails
  <2>3. b \in UsableControllers'
      BY <1>3, <2>2, ZenonT(60) DEF UsableControllers, HasAuthorization, authorization, isUsableKey
  <2> QED BY <2>3, ZenonT(60)
<1>4. CASE authorizations'[a] = authorizations[a]
    BY <1>1, <1>2, <1>3, <1>4, ZenonT(60)
<1>5. CASE \E b \in AuthorizationIds, k \in KeyIds : stageControllerAuthorization(b, k)
  <2> PICK b \in AuthorizationIds, k \in KeyIds : stageControllerAuthorization(b, k)
      BY <1>5, ZenonT(60)
  <2>1. authorizations[b] = <<>>
      BY ZenonT(60) DEF stageControllerAuthorization, HasAuthorization
  <2>2. authorizations'[a] = authorizations[a]
      BY <1>1, <1>2, <2>1, ZenonT(60) DEF stageControllerAuthorization
  <2> QED BY <1>4, <2>2, ZenonT(60)
<1>6. CASE \E b \in AuthorizationIds : activateControllerAuthorization(b)
  <2> PICK b \in AuthorizationIds : activateControllerAuthorization(b)
      BY <1>6, ZenonT(60)
  <2>1. Last(authorizations[b]).state = "staged"
      BY ZenonT(60) DEF activateControllerAuthorization, authorization
  <2>2. a # b
      BY <1>1, <2>1, ZenonT(60)
  <2>3. authorizations'[a] = authorizations[a]
      BY <1>1, <1>2, <2>2, ZenonT(60) DEF activateControllerAuthorization
  <2> QED BY <1>4, <2>3, ZenonT(60)
<1>7. CASE \E c \in CallIds : rotateControllerAuthorizationVerified(c, TRUE)
  <2> PICK c \in CallIds : rotateControllerAuthorizationVerified(c, TRUE)
      BY <1>7, ZenonT(60)
  <2>1. isUsableKey(calls[c].successorKeyId)
      BY ZenonT(60) DEF RotationToFailedKey, rotateControllerAuthorizationVerified, Resume
  <2>2. PICK q \in AuthorizationIds, k \in KeyIds :
             /\ isUsableKey(k)
             /\ authorizations'[q] # <<>> /\ Last(authorizations'[q]) = Successor(k)
      BY <2>1, SuccessorControls, ZenonT(60)
  <2>3. Successor(k) \in AuthorizationRecord /\ Successor(k).state = "active" /\ Successor(k).keyId = k
      BY ZenonT(60) DEF Successor, AuthorizationRecord
  <2> QED BY <1>3, <2>2, <2>3, ZenonT(60)
<1>8. CASE fromSnapshot
  <2>1. authorizations'[a] = <<Last(authorizations[a])>>
      BY <1>1, <1>8, ZenonT(60) DEF fromSnapshot, snapshot, HasAuthorization, authorization
  <2>2. authorizations'[a] # <<>> /\ Last(authorizations'[a]) = Last(authorizations[a])
    <3>1. authorizations'[a] \in Seq(AuthorizationRecord) /\ Len(authorizations'[a]) = 1
          /\ authorizations'[a][1] = Last(authorizations[a])
        BY <1>2, <2>1, StoredFacts
    <3>2. authorizations'[a] # <<>> /\ Last(authorizations'[a]) = authorizations'[a][Len(authorizations'[a])]
        BY <3>1, ObjectFacts
    <3> QED BY <3>1, <3>2, ZenonT(60)
  <2> QED BY <1>1, <1>2, <1>3, <2>2, ZenonT(60)
<1> QED BY <1>4, <1>5, <1>6, <1>7, <1>8, ZenonT(60) DEF KeyNext, keyVars, addKey, activateKey, recordKeyFailure, retireKey,
        rotateControllerAuthorization, rotateControllerAuthorizationVerified, prepareGrant, activateGrant,
        activateGrantVerified, revokeGrant, rotateRecipientEnvelope, rotateRecipientEnvelopeVerified

(* Neither retireKey nor a rotation, verified or failed, overlapping or    *)
(* not, nor a restart takes the last usable controller away, unless a key  *)
(* fails in that step or a rotation in flight names a key that failed.     *)
THEOREM ControllersRemain == KeySpec => ControllerPathSurvives
<1>1. ASSUME KeyInv, [KeyNext]_keyVars
      PROVE  UsableControllers # {} /\ UsableControllers' = {} =>
                (\E k \in KeyIds : Fails(k)) \/ RotationToFailedKey
    BY <1>1, ControllersStay, ZenonT(60)
<1> QED BY <1>1, KeyInvariant, PTL DEF KeySpec, ControllerPathSurvives
=============================================================================
