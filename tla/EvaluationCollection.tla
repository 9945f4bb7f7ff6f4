------------------------ MODULE EvaluationCollection ------------------------
(***************************************************************************)
(* Collection of a final evaluation run: the collector                     *)
(* (scripts/collect-formal-evaluation.ts) with its workers, the transport- *)
(* attempt journal (src/evaluation/transport-attempt-journal.ts) and the   *)
(* observation store and run directory (src/evaluation/live.ts), over      *)
(* crashes, failing writes and resumed runs.                               *)
(*                                                                         *)
(* Both files are appended to a line at a time, written and synced before  *)
(* memory changes, one append after the other.  A line is its record; what *)
(* a crash or a failing write leaves at the end of a file is its tail.     *)
(* Digests bind an event to the one before it: an event names its          *)
(* predecessor.  Freeze, corpus, plan and manifest are bound to the source *)
(* before anything is written and do not change.                           *)
(***************************************************************************)
EXTENDS Integers, Sequences, FiniteSets, Functions

CONSTANTS
    Plan,           \* the observations to make, in order, each once
    ModelBearing,   \* those made with a model condition
    Invoking,       \* those whose condition really invokes the model
    Workers,        \* concurrency
    MaxAttempts,    \* maximumTransportRetriesPerInvocation + 1, at most 3
    ProgressEvery,  \* observations between two progress reports: 25 in the code
    FaultBound      \* crashes and failing writes explored

ASSUME CollectionAssumption ==
    /\ DOMAIN Plan = 1 .. Len(Plan) /\ Len(Plan) \in Nat
    /\ \A i, j \in DOMAIN Plan : Plan[i] = Plan[j] => i = j
    /\ Invoking \subseteq ModelBearing
    /\ MaxAttempts \in 1 .. 3

VARIABLES
    disk,           \* the run directory
    process,        \* "down", "opening", "marking", "collecting" or "ending"
    events,         \* #events of the journal
    records,        \* #records of the store
    pending,        \* the places in the plan of what is neither stored nor taken
    completed,
    jobs,           \* what each worker is doing
    sent,           \* requests that left for the provider, per observation
    answered,       \* answers that arrived, per observation
    refusal,        \* why the last process stopped
    faults

collectionVars == <<disk, process, events, records, pending, completed, jobs, sent, answered, refusal, faults>>

memory == <<events, records, pending, completed, jobs>>

world == <<sent, answered>>

Observations == {Plan[i] : i \in DOMAIN Plan}

Idle == [at |-> "idle", obs |-> "none", tries |-> 0, budget |-> 0, transient |-> FALSE]

-----------------------------------------------------------------------------
(* Files of lines. *)

Empty == [exists |-> FALSE, lines |-> <<>>, tail |-> "clean"]

(* A line after an unterminated one joins it: both are there, and the file *)
(* no longer reads.                                                        *)
Appended(file, line) ==
    [exists |-> TRUE,
     lines |-> Append(file.lines, line),
     tail |-> IF file.tail = "unterminated" THEN "spoiled" ELSE file.tail]

(* What an append that is not acknowledged may leave: nothing, a part of   *)
(* the line, the line without its end, or the line.                        *)
Unacknowledged(file, line) ==
    {[file EXCEPT !.exists = TRUE], [file EXCEPT !.exists = TRUE, !.tail = "spoiled"],
     Appended(file, line)}
    \cup (IF file.tail = "clean"
          THEN {[Appended(file, line) EXCEPT !.tail = "unterminated"]} ELSE {})

Readable(file) == file.tail # "spoiled"

-----------------------------------------------------------------------------
(* The journal. *)

EventId(e) == <<e.type, e.obs, e.attempt>>

makeEvent(type, o, attempt, transient) ==
    [type |-> type, obs |-> o, attempt |-> attempt, transient |-> transient,
     previous |-> IF events = <<>> THEN <<>> ELSE EventId(events[Len(events)])]

(* Where the starts and the ends of an observation's attempts are.         *)
startsFor(journal, o) == {i \in DOMAIN journal : journal[i].type = "started" /\ journal[i].obs = o}

terminalsFor(journal, o) == {i \in DOMAIN journal : journal[i].type # "started" /\ journal[i].obs = o}

attemptsFor(o) == Cardinality(startsFor(events, o))

openStarts(journal) ==
    {i \in DOMAIN journal :
        /\ journal[i].type = "started"
        /\ \A t \in terminalsFor(journal, journal[i].obs) : journal[t].attempt # journal[i].attempt}

IsFirst(i, places) == i \in places /\ \A j \in places : i <= j

Chained(journal) ==
    \A i \in DOMAIN journal :
        journal[i].previous = IF i = 1 THEN <<>> ELSE EventId(journal[i - 1])

assertInternalConsistency(journal) ==
    \A i \in DOMAIN journal :
        LET before == SubSeq(journal, 1, i - 1)
        IN  IF journal[i].type = "started"
            THEN journal[i].attempt = Cardinality(startsFor(before, journal[i].obs)) + 1
            ELSE /\ \E s \in startsFor(before, journal[i].obs) : journal[s].attempt = journal[i].attempt
                 /\ \A t \in terminalsFor(before, journal[i].obs) : journal[t].attempt # journal[i].attempt

Ended(journal, o, type) == \E t \in terminalsFor(journal, o) : journal[t].type = type

FailedForGood(journal, o) ==
    \E t \in terminalsFor(journal, o) : journal[t].type = "failed" /\ ~journal[t].transient

remainingAttemptBudget(o) ==
    IF \/ Ended(events, o, "succeeded")
       \/ Ended(events, o, "interrupted")
       \/ FailedForGood(events, o)
    THEN 0 ELSE MaxAttempts - attemptsFor(o)

assertCanResumeObservation(journal, o) ==
    /\ ~Ended(journal, o, "succeeded")
    /\ ~Ended(journal, o, "interrupted")
    /\ ~FailedForGood(journal, o)
    /\ Cardinality(startsFor(journal, o)) < MaxAttempts

Successes(journal, o) == {t \in terminalsFor(journal, o) : journal[t].type = "succeeded"}

(* Stored observations against attempts; an answer without an observation  *)
(* is let pass only while the run is under way.                            *)
assertReconciled(journal, stored, allowUnobserved) ==
    /\ \A r \in stored :
          IF r.invoked
          THEN /\ Cardinality(startsFor(journal, r.obs)) = r.attempts
               /\ Cardinality(Successes(journal, r.obs)) = 1
          ELSE startsFor(journal, r.obs) = {}
    /\ \/ allowUnobserved
       \/ \A e \in Range(journal) :
             e.type = "succeeded" => \E r \in stored : r.obs = e.obs

-----------------------------------------------------------------------------
(* Process and failures. *)

Stopped(reason) ==
    /\ process' = "down"
    /\ refusal' = reason
    /\ events' = <<>> /\ records' = {} /\ pending' = {} /\ completed' = 0
    /\ jobs' = [w \in Workers |-> Idle]

CollectionInit ==
    /\ disk = [manifest |-> "absent", journal |-> Empty, store |-> Empty,
               progress |-> FALSE, summary |-> FALSE]
    /\ process = "down" /\ refusal = "none" /\ faults = 0
    /\ events = <<>> /\ records = {} /\ pending = {} /\ completed = 0
    /\ jobs = [w \in Workers |-> Idle]
    /\ sent = [o \in Observations |-> 0] /\ answered = [o \in Observations |-> 0]

(* The line a worker's next append writes. *)
NextEvent(job) ==
    CASE job.at = "beginning" -> makeEvent("started", job.obs, attemptsFor(job.obs) + 1, FALSE)
      [] job.at = "answered" -> makeEvent("succeeded", job.obs, attemptsFor(job.obs), FALSE)
      [] job.at = "failing" -> makeEvent("failed", job.obs, attemptsFor(job.obs), job.transient)

Journalling(w) == jobs[w].at \in {"beginning", "answered", "failing"}

Mutant_ObservationOf(job) ==
    [obs |-> job.obs, invoked |-> job.obs \in Invoking,
     attempts |-> IF job.obs \in Invoking THEN job.tries ELSE 0]

(* transport_attempts counts the attempts of earlier processes too. *)
ObservationOf(job) ==
    [obs |-> job.obs, invoked |-> job.obs \in Invoking,
     attempts |-> IF job.obs \in Invoking THEN attemptsFor(job.obs) ELSE 0]

(* The line that closes a start left open by an earlier process. *)
InterruptedEvent(start) == makeEvent("interrupted", start.obs, start.attempt, FALSE)

(* The process ends at any point, and after a throw in a worker; the       *)
(* appends of the other workers that were under way may be left half done. *)
DiskAfterCrash ==
    LET underWay == {NextEvent(jobs[w]) : w \in {v \in Workers : Journalling(v)}}
                    \cup {InterruptedEvent(events[i]) :
                             i \in {j \in DOMAIN events : process = "marking" /\ IsFirst(j, openStarts(events))}}
        storing == {ObservationOf(jobs[w]) : w \in {v \in Workers : jobs[v].at = "storing"}}
    IN  {disk}
        \cup {[disk EXCEPT !.journal = f] : f \in UNION {Unacknowledged(disk.journal, e) : e \in underWay}}
        \cup {[disk EXCEPT !.store = f] : f \in UNION {Unacknowledged(disk.store, r) : r \in storing}}

Crash ==
    /\ process # "down"
    /\ IF process = "ending"
       THEN UNCHANGED faults
       ELSE faults < FaultBound /\ faults' = faults + 1
    /\ disk' \in DiskAfterCrash
    /\ Stopped("crashed")
    /\ UNCHANGED world

-----------------------------------------------------------------------------
(* Start of a run: prepareEvaluationRunDirectory and what follows it. *)

DirectoryEmpty ==
    disk.manifest = "absent" /\ ~disk.journal.exists /\ ~disk.store.exists /\ ~disk.progress

(* The manifest is written by a plain writeFile, which a crash may tear. *)
startFresh ==
    /\ process = "down" /\ DirectoryEmpty
    /\ \/ /\ disk' = [disk EXCEPT !.manifest = "exact"]
          /\ process' = "opening"
          /\ UNCHANGED <<refusal, faults>>
       \/ /\ faults < FaultBound /\ faults' = faults + 1
          /\ disk' = [disk EXCEPT !.manifest = "torn"]
          /\ refusal' = "crashed"
          /\ UNCHANGED process
    /\ UNCHANGED <<memory, world>>

(* Progress may be on disk before the first observation is; such a run is  *)
(* not resumed.                                                            *)
startResume ==
    /\ process = "down"
    /\ IF \/ disk.manifest # "exact"
          \/ ~disk.store.exists /\ (disk.progress \/ disk.summary)
       THEN process' = "down" /\ refusal' = "directory"
       ELSE process' = "opening" /\ UNCHANGED refusal
    /\ UNCHANGED <<disk, memory, world, faults>>

Mutant_Interrupted(journal) == {}

(* The starts markOpenAttemptsInterrupted closes. *)
Interrupted(journal) == openStarts(journal)

(* Both files are read and checked; the attempts left open are marked and  *)
(* the run stops; otherwise what is pending must be resumable.             *)
openRun ==
    LET journal == disk.journal.lines
        stored == Range(disk.store.lines)
        todo == {i \in DOMAIN Plan : \A r \in stored : r.obs # Plan[i]}
    IN  /\ process = "opening"
        /\ IF \/ ~Readable(disk.store) \/ ~Readable(disk.journal)
              \/ ~Chained(journal) \/ ~assertInternalConsistency(journal)
           THEN Stopped("unreadable") /\ UNCHANGED disk
           ELSE IF Interrupted(journal) # {}
           THEN /\ process' = "marking"
                /\ events' = journal
                /\ UNCHANGED <<disk, refusal, records, pending, completed, jobs>>
           ELSE IF \/ ~assertReconciled(journal, stored, FALSE)
                   \/ \E i \in todo : /\ startsFor(journal, Plan[i]) # {}
                                      /\ ~assertCanResumeObservation(journal, Plan[i])
           THEN Stopped("unresumable") /\ UNCHANGED disk
           ELSE /\ process' = "collecting"
                /\ events' = journal /\ records' = stored /\ pending' = todo
                /\ disk' = [disk EXCEPT !.progress = TRUE, !.summary = @ \/ todo = {}]
                /\ UNCHANGED <<refusal, completed, jobs>>
        /\ UNCHANGED <<world, faults>>

markOpenAttemptsInterrupted ==
    /\ process = "marking"
    /\ \/ openStarts(events) = {} /\ Stopped("interrupted") /\ UNCHANGED disk
       \/ \E i \in openStarts(events) :
             LET event == InterruptedEvent(events[i])
             IN  /\ IsFirst(i, openStarts(events))
                 /\ disk' = [disk EXCEPT !.journal = Appended(@, event)]
                 /\ events' = Append(events, event)
                 /\ UNCHANGED <<process, refusal, records, pending, completed, jobs>>
    /\ UNCHANGED <<world, faults>>

-----------------------------------------------------------------------------
(* Workers.  A throw in one ends the process. *)

Job(w, job) == jobs' = [jobs EXCEPT ![w] = job]

Thrown(w) ==
    /\ process' = "ending"
    /\ Job(w, Idle)
    /\ UNCHANGED <<refusal, events, records, pending, completed>>

(* worker and collect, up to the first await. *)
takeItem(w) ==
    /\ process = "collecting" /\ jobs[w].at = "idle"
    /\ \E i \in pending :
          LET o == Plan[i]
          IN  /\ IsFirst(i, pending)
              /\ IF o \in ModelBearing /\ remainingAttemptBudget(o) < 1
                 THEN Thrown(w)
                 ELSE /\ Job(w, [Idle EXCEPT !.at = IF o \in Invoking THEN "beginning" ELSE "storing",
                                             !.obs = o,
                                             !.budget = remainingAttemptBudget(o)])
                      /\ pending' = pending \ {i}
                      /\ UNCHANGED <<process, refusal, events, records, completed>>
    /\ UNCHANGED <<disk, world, faults>>

(* What a worker does once its event is in the journal: the request leaves *)
(* after its start, the observation is stored after a success, and a       *)
(* failure is retried while it is transient and tries remain.              *)
AfterEvent(job) ==
    CASE job.at = "beginning" -> [job EXCEPT !.at = "sending", !.tries = @ + 1]
      [] job.at = "answered" -> [job EXCEPT !.at = "storing"]
      [] job.at = "failing" -> [job EXCEPT !.at = "beginning"]

Rethrown(job) == job.at = "failing" /\ (~job.transient \/ job.tries >= job.budget)

appendEvent(w) ==
    /\ process = "collecting" /\ Journalling(w)
    /\ disk' = [disk EXCEPT !.journal = Appended(@, NextEvent(jobs[w]))]
    /\ IF Rethrown(jobs[w])
       THEN Thrown(w)
       ELSE /\ events' = Append(events, NextEvent(jobs[w]))
            /\ Job(w, AfterEvent(jobs[w]))
            /\ UNCHANGED <<process, refusal, records, pending, completed>>
    /\ UNCHANGED <<world, faults>>

(* A failing append leaves memory alone.  When it was the success that was *)
(* not recorded, generate goes on to record a failure.                     *)
appendEventFails(w) ==
    /\ process = "collecting" /\ Journalling(w) /\ faults < FaultBound
    /\ faults' = faults + 1
    /\ disk' \in {[disk EXCEPT !.journal = f] :
                     f \in Unacknowledged(disk.journal, NextEvent(jobs[w]))}
    /\ IF jobs[w].at = "answered"
       THEN /\ Job(w, [jobs[w] EXCEPT !.at = "failing", !.transient = FALSE])
            /\ UNCHANGED <<process, refusal, events, records, pending, completed>>
       ELSE Thrown(w)
    /\ UNCHANGED world

send(w) ==
    /\ process = "collecting" /\ jobs[w].at = "sending"
    /\ sent' = [sent EXCEPT ![jobs[w].obs] = @ + 1]
    /\ Job(w, [jobs[w] EXCEPT !.at = "awaiting"])
    /\ UNCHANGED <<disk, process, refusal, events, records, pending, completed,
                   answered, faults>>

(* The provider answers, or the call fails, for a while or for good. *)
replied(w) ==
    /\ process = "collecting" /\ jobs[w].at = "awaiting"
    /\ \/ /\ answered' = [answered EXCEPT ![jobs[w].obs] = @ + 1]
          /\ Job(w, [jobs[w] EXCEPT !.at = "answered"])
       \/ /\ UNCHANGED answered
          /\ \E transient \in BOOLEAN :
                Job(w, [jobs[w] EXCEPT !.at = "failing", !.transient = transient])
    /\ UNCHANGED <<disk, process, refusal, events, records, pending, completed,
                   sent, faults>>

Complete(stored) == Cardinality(stored) = Len(Plan)

(* writeProgress goes through: a complete run must reconcile without       *)
(* exception, in its answers and in its attempts, before it is summarized. *)
Reportable(stored) ==
    /\ assertReconciled(events, stored, ~Complete(stored))
    /\ Complete(stored) =>
          /\ Cardinality({i \in DOMAIN events : events[i].type = "succeeded"})
                = Cardinality(Invoking)
          /\ Cardinality({i \in DOMAIN events : events[i].type = "started"})
                \in Cardinality(Invoking) .. MaxAttempts * Cardinality(Invoking)

(* append and, when one is due, writeProgress.                             *)
storeObservation(w) ==
    LET record == ObservationOf(jobs[w])
        stored == records \cup {record}
        due == (completed + 1) % ProgressEvery = 0 \/ Complete(stored)
        sound == Reportable(stored)
    IN  /\ process = "collecting" /\ jobs[w].at = "storing"
        /\ disk' = [disk EXCEPT !.store = Appended(@, record),
                                !.progress = @ \/ (due /\ sound),
                                !.summary = @ \/ (due /\ sound /\ Complete(stored))]
        /\ IF due /\ ~sound
           THEN Thrown(w)
           ELSE /\ records' = stored
                /\ completed' = completed + 1
                /\ Job(w, Idle)
                /\ UNCHANGED <<process, refusal, events, pending>>
        /\ UNCHANGED <<world, faults>>

storeFails(w) ==
    /\ process = "collecting" /\ jobs[w].at = "storing" /\ faults < FaultBound
    /\ faults' = faults + 1
    /\ disk' \in {[disk EXCEPT !.store = f] :
                     f \in Unacknowledged(disk.store, ObservationOf(jobs[w]))}
    /\ Thrown(w)
    /\ UNCHANGED world

(* Every worker ran out of items: the last report, and the end. *)
finish ==
    /\ process = "collecting" /\ pending = {}
    /\ \A w \in Workers : jobs[w].at = "idle"
    /\ disk' = [disk EXCEPT !.progress = TRUE, !.summary = TRUE]
    /\ Stopped("finished")
    /\ UNCHANGED <<world, faults>>

CollectionNext ==
    \/ startFresh \/ startResume \/ openRun \/ markOpenAttemptsInterrupted \/ finish \/ Crash
    \/ \E w \in Workers :
          \/ takeItem(w) \/ appendEvent(w) \/ appendEventFails(w)
          \/ send(w) \/ replied(w) \/ storeObservation(w) \/ storeFails(w)

CollectionSpec == CollectionInit /\ [][CollectionNext]_collectionVars

-----------------------------------------------------------------------------
(* beginAttempt, remainingAttemptBudget, markOpenAttemptsInterrupted:      *)
(* whatever crashes, fails and is resumed, every request that left is in   *)
(* the journal on disk, no observation exceeds its budget of requests, and *)
(* none is answered twice, so no answer is ever discarded for another.     *)
EveryRequestIsJournalled ==
    \A o \in Observations :
        /\ sent[o] <= Cardinality(startsFor(disk.journal.lines, o))
        /\ sent[o] <= MaxAttempts
        /\ answered[o] <= 1

(* observation, assertReconciled, writeProgress: an observation on disk    *)
(* counts every attempt made for it and rests on the one answer received,  *)
(* and a run with a summary on disk wrote each planned observation once    *)
(* (a line that lost its end and the next one are both there, but joined:  *)
(* store.append does not look at the end of the file it appends to).       *)
StoredObservationsReconcile ==
    /\ \A r \in Range(disk.store.lines) :
          /\ r.attempts = sent[r.obs]
          /\ answered[r.obs] = IF r.invoked THEN 1 ELSE 0
    /\ disk.summary =>
          /\ Len(disk.store.lines) = Len(Plan)
          /\ {r.obs : r \in Range(disk.store.lines)} = Observations

=============================================================================
