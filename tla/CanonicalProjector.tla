-------------------------- MODULE CanonicalProjector --------------------------
(***************************************************************************)
(* src/indexer/canonical-projector.ts: blocks of competing branches arrive *)
(* in any order of delivery, duplicated and damaged; selectHead follows    *)
(* the parents of a head and rebuilds the evidence view from the blocks    *)
(* that are deep enough.  Every method is synchronous: a call is one step, *)
(* and one that throws changes nothing.                                    *)
(***************************************************************************)
EXTENDS Integers, Sequences, SequencesExt

CONSTANTS
    Blocks,             \* what may be delivered: [hash, parentHash, number, events]
    ClaimIds,
    ConfirmationDepth

VARIABLES
    blocks,             \* #blocks
    canonical,          \* #canonical
    state               \* #state

projectorVars == <<blocks, canonical, state>>

Unseen == [status |-> "none", version |-> 0]
InitialState == [c \in ClaimIds |-> Unseen]

ProjectorInit ==
    /\ blocks = {}
    /\ canonical = <<>>
    /\ state = InitialState

Known(hash) == {b \in blocks : b.hash = hash}

(* A block already held is accepted again; another one of its hash is not. *)
ingest(block) ==
    /\ block.number >= 0
    /\ Known(block.hash) \subseteq {block}
    /\ block.number > 0 => Known(block.parentHash) # {}
    /\ blocks' = blocks \cup {block}
    /\ UNCHANGED <<canonical, state>>

(* The blocks from genesis to the head, or <<>> where the method throws.   *)
pathToGenesis(head) ==
    LET parents(b) == {p \in Known(b.parentHash) : p.number + 1 = b.number}
        path[b \in blocks] ==
            IF b.number = 0 THEN <<b>>
            ELSE IF parents(b) = {} THEN <<>>
            ELSE LET prefix == path[CHOOSE p \in parents(b) : TRUE] IN
                 IF prefix = <<>> THEN <<>> ELSE Append(prefix, b)
    IN path[head]

StatusOf == [activated |-> "active", revoked |-> "revoked", superseded |-> "superseded"]

apply(view, event) ==
    [view EXCEPT ![event.claimId] = [status |-> StatusOf[event.kind], version |-> event.version]]

EventsOf(path) == FlattenSeq([i \in DOMAIN path |-> path[i].events])

Mutant_rebuild(path) ==
    FoldLeft(apply, state, EventsOf(SubSeq(path, 1, Len(path) - ConfirmationDepth)))

rebuild(path) ==
    FoldLeft(apply, InitialState, EventsOf(SubSeq(path, 1, Len(path) - ConfirmationDepth)))

selectHead(head) ==
    LET path == pathToGenesis(head) IN
    /\ path # <<>>
    /\ canonical' = path
    /\ state' = rebuild(path)
    /\ UNCHANGED blocks

(* The number of blocks up to the head that snapshot() calls confirmed.    *)
Confirmed ==
    LET confirmedIndex == Len(canonical) - 1 - ConfirmationDepth IN
    IF confirmedIndex >= 0 THEN confirmedIndex + 1 ELSE 0

ProjectorNext ==
    \/ \E b \in Blocks : ingest(b)
    \/ \E b \in blocks : selectHead(b)

ProjectorSpec == ProjectorInit /\ [][ProjectorNext]_projectorVars

-----------------------------------------------------------------------------
(* Position <<i, j>> is the j-th event of the i-th confirmed block.        *)
EventsAbout(claim) ==
    UNION {{<<i, j>> : j \in {k \in DOMAIN canonical[i].events : canonical[i].events[k].claimId = claim}} :
               i \in 1 .. Confirmed}

Precedes(p, q) == p[1] < q[1] \/ (p[1] = q[1] /\ p[2] <= q[2])

(* After any sequence of deliveries and head selections, reorganisations   *)
(* to shorter and to longer branches included, the view of every claim is  *)
(* that of the last event about it up to the confirmedHead of the same     *)
(* snapshot, the branch is linked block by block from a genesis, and       *)
(* nothing of an abandoned branch is left (selectHead, rebuild, snapshot). *)
ProjectionIsReplay ==
    /\ \A i \in DOMAIN canonical :
          /\ canonical[i] \in blocks
          /\ canonical[i].number = i - 1
          /\ i > 1 => canonical[i].parentHash = canonical[i - 1].hash
    /\ \A c \in ClaimIds :
          \/ EventsAbout(c) = {} /\ state[c] = Unseen
          \/ \E p \in EventsAbout(c) :
                /\ \A q \in EventsAbout(c) : Precedes(q, p)
                /\ state[c] = [status |-> StatusOf[canonical[p[1]].events[p[2]].kind],
                               version |-> canonical[p[1]].events[p[2]].version]
===============================================================================
