------------------------ MODULE OneUseAuthorizations ------------------------
(***************************************************************************)
(* What KeyOperationAuthorizationRepository of src/evidence/               *)
(* key-operation-authorization-repository.ts promises its callers: an      *)
(* authorization is consumed at most once, under its identifier and under  *)
(* its nonce, and a caller is told so only when it is.  A refused caller   *)
(* may have consumed it all the same: the answer can get lost.             *)
(*                                                                         *)
(* InMemoryKeyOperationAuthorizationRepository.consume is this in one step.*)
(***************************************************************************)
CONSTANTS
    Callers,
    Authorizations    \* records with an id (identifier and version) and a nonce (its scope)

VARIABLES consumed, answers

(* Neither the identifier nor the nonce is among those consumed.           *)
Unused(authorization, used) ==
    \A other \in used : other.id # authorization.id /\ other.nonce # authorization.nonce

OneUseInit ==
    /\ consumed = {}
    /\ answers = [c \in Callers |-> "pending"]

Consume(c, authorization) ==
    /\ answers[c] = "pending"
    /\ Unused(authorization, consumed)
    /\ consumed' = consumed \cup {authorization}
    /\ \E answer \in {"consumed", "unavailable"} : answers' = [answers EXCEPT ![c] = answer]

Refuse(c) ==
    /\ answers[c] = "pending"
    /\ \E answer \in {"replay", "unavailable"} : answers' = [answers EXCEPT ![c] = answer]
    /\ UNCHANGED consumed

OneUseNext ==
    \E c \in Callers :
        \/ \E authorization \in Authorizations : Consume(c, authorization)
        \/ Refuse(c)

OneUseSpec == OneUseInit /\ [][OneUseNext]_<<consumed, answers>>
=============================================================================
