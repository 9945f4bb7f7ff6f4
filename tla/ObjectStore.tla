---------------------------- MODULE ObjectStore ----------------------------
(***************************************************************************)
(* What the interface OpaqueObjectStore of src/protected-bundles/storage/  *)
(* types.ts promises for one object identifier: putIfAbsent writes the     *)
(* whole object or nothing and never replaces one, "created" is answered   *)
(* for what the call wrote itself, and "exists" only for what is there.    *)
(* A call that fails may have written the object all the same.             *)
(***************************************************************************)
CONSTANTS Puts, Deletes      \* calls of putIfAbsent, each with its own bytes, and of delete

VARIABLES
    object,     \* the call whose bytes are stored, or "absent"
    answers     \* call -> its answer

Answer(c, answer) == answers[c] = "pending" /\ answers' = [answers EXCEPT ![c] = answer]

StoreInit ==
    /\ object = "absent"
    /\ answers = [c \in Puts \cup Deletes |-> "pending"]

Create(c) ==
    /\ object = "absent"
    /\ object' = c
    /\ Answer(c, "created") \/ (answers[c] = "pending" /\ UNCHANGED answers)

Exists(c) == object # "absent" /\ Answer(c, "exists") /\ UNCHANGED object

Remove(c) ==
    /\ answers[c] = "pending"
    /\ object' = "absent"
    /\ UNCHANGED answers \/ Answer(c, "removed")

Missing(c) == Answer(c, "missing") /\ UNCHANGED object

(* A call fails, or several do at once when their process stops.           *)
Break ==
    /\ answers' \in [Puts \cup Deletes -> {"pending", "created", "exists", "removed", "missing", "failed"}]
    /\ \A c \in Puts \cup Deletes : answers'[c] = answers[c] \/ (answers[c] = "pending" /\ answers'[c] = "failed")
    /\ UNCHANGED object

StoreNext ==
    \/ \E c \in Puts : Create(c) \/ Exists(c)
    \/ \E c \in Deletes : Remove(c) \/ Missing(c)
    \/ Break

StoreSpec == StoreInit /\ [][StoreNext]_<<object, answers>>
=============================================================================
