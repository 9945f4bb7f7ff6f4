-------------------------- MODULE EvaluationProofs --------------------------
(***************************************************************************)
(* A collection run of the evaluation, for every plan, every set of        *)
(* workers and every number of attempts allowed.  Every request is in the  *)
(* journal before it leaves and within the attempts allowed, and what is   *)
(* stored reconciles with the journal and with the requests, through the   *)
(* crashes and failed writes of any number of processes that resume one    *)
(* run directory.                                                          *)
(*                                                                         *)
(* The invariant that is inductive, CollectionSafe, says for every         *)
(* observation which of its starts the journal on disk holds, what the     *)
(* worker that has it knows of them, and that it is in one place only: in  *)
(* the queue, with one worker or in the store.                             *)
(***************************************************************************)
EXTENDS EvaluationCollection, FiniteSetTheorems, TLAPS

-----------------------------------------------------------------------------
(* The evaluation run.                                                     *)

EventTypes == {"started", "succeeded", "failed", "interrupted"}

JournalLine ==
    [type : EventTypes, obs : Observations, attempt : Nat, transient : BOOLEAN,
     previous : {<<>>} \cup (EventTypes \X Observations \X Nat)]

StoreLine == [obs : Observations, invoked : BOOLEAN, attempts : Nat]

FileOf(line) == [exists : BOOLEAN, lines : Seq(line), tail : {"clean", "unterminated", "spoiled"}]

RunDirectory ==
    [manifest : {"absent", "exact", "torn"}, journal : FileOf(JournalLine), store : FileOf(StoreLine),
     progress : BOOLEAN, summary : BOOLEAN]

WorkerSteps == {"beginning", "sending", "awaiting", "answered", "failing", "storing"}

Jobs ==
    {Idle} \cup [at : WorkerSteps, obs : Observations, tries : Nat, budget : Int, transient : BOOLEAN]

CollectionTypes ==
    /\ disk \in RunDirectory
    /\ process \in {"down", "opening", "marking", "collecting", "ending"}
    /\ events \in Seq(JournalLine)
    /\ records \subseteq StoreLine
    /\ pending \subseteq DOMAIN Plan
    /\ jobs \in [Workers -> Jobs]
    /\ sent \in [Observations -> Nat]
    /\ answered \in [Observations -> Nat]

-----------------------------------------------------------------------------
Starts(journal, o) == Cardinality(startsFor(journal, o))

(* The journal keeps an observation from being resumed: an attempt of it   *)
(* is open, or ended in another way than by a failure that may pass.       *)
InDoubt(journal, o) ==
    \/ \E t \in terminalsFor(journal, o) : ~(journal[t].type = "failed" /\ journal[t].transient)
    \/ \E s \in openStarts(journal) : journal[s].obs = o

(* What the journal on disk says of the requests made for an observation.  *)
Accounted(journal, o, requests, answers) ==
    /\ requests <= Starts(journal, o)
    /\ requests <= MaxAttempts
    /\ answers <= 1
    /\ answers <= requests
    /\ o \notin Invoking => requests = 0
    /\ InDoubt(journal, o) \/ (requests = Starts(journal, o) /\ answers = 0)
    /\ \A i \in DOMAIN journal : journal[i].obs = o => journal[i].attempt <= Starts(journal, o)

RequestsAccounted ==
    \A o \in Observations : Accounted(disk.journal.lines, o, sent[o], answered[o])

Working == process \in {"collecting", "ending"}

Held(w) == jobs[w].at # "idle"

(* An observation nobody has taken is as the journal in memory says.       *)
Untouched(o) ==
    /\ Starts(events, o) = Starts(disk.journal.lines, o)
    /\ sent[o] = Starts(events, o)
    /\ answered[o] = 0

(* What a worker knows of the observation it makes.                        *)
JobSound(w) ==
    LET job == jobs[w]
        o == jobs[w].obs
    IN  /\ Starts(events, o) = Starts(disk.journal.lines, o)
        /\ job.at # "storing" =>
              /\ o \in Invoking
              /\ Starts(events, o) + job.budget = MaxAttempts + job.tries
              /\ job.tries <= job.budget
              /\ job.at = "beginning" => job.tries < job.budget
              /\ Starts(events, o) = IF job.at = "sending" THEN sent[o] + 1 ELSE sent[o]
              /\ job.at = "awaiting" => InDoubt(disk.journal.lines, o) /\ sent[o] > 0
              /\ job.at = "answered" => answered[o] = 1
              /\ job.at \in {"beginning", "sending", "awaiting"} \/ (job.at = "failing" /\ job.transient)
                    => answered[o] = 0
        /\ job.at = "storing" /\ o \in Invoking =>
              sent[o] = Starts(events, o) /\ answered[o] = 1

WorkSound ==
    /\ ~Working => pending = {} /\ \A w \in Workers : jobs[w] = Idle
    /\ process = "marking" => events = disk.journal.lines
    /\ \A i \in pending : Untouched(Plan[i])
    /\ \A w \in Workers : Held(w) => JobSound(w)

StoredLine(lines, o) == \E k \in DOMAIN lines : lines[k].obs = o

(* An observation is in one place: in the queue, with one worker or in the *)
(* store; and while the run is under way it is in one of them.             *)
OnePlaceEach ==
    /\ \A w \in Workers : Held(w) =>
          /\ \A i \in pending : Plan[i] # jobs[w].obs
          /\ ~StoredLine(disk.store.lines, jobs[w].obs)
          /\ \A v \in Workers : Held(v) /\ jobs[v].obs = jobs[w].obs => v = w
    /\ \A i \in pending : ~StoredLine(disk.store.lines, Plan[i])
    /\ process = "collecting" =>
          \A i \in DOMAIN Plan :
             \/ i \in pending
             \/ \E w \in Workers : Held(w) /\ jobs[w].obs = Plan[i]
             \/ StoredLine(disk.store.lines, Plan[i])

StoreSound(lines) ==
    /\ \A k, m \in DOMAIN lines : lines[k].obs = lines[m].obs => k = m
    /\ \A k \in DOMAIN lines :
          /\ lines[k].invoked <=> lines[k].obs \in Invoking
          /\ lines[k].attempts = sent[lines[k].obs]
          /\ answered[lines[k].obs] = IF lines[k].invoked THEN 1 ELSE 0

EverythingStored(lines) == \A o \in Observations : StoredLine(lines, o)

StoreKept ==
    /\ StoreSound(disk.store.lines)
    /\ records \subseteq Range(disk.store.lines)
    /\ disk.summary => EverythingStored(disk.store.lines)

CollectionSafe == CollectionTypes /\ RequestsAccounted /\ WorkSound /\ OnePlaceEach /\ StoreKept

-----------------------------------------------------------------------------
(* Lines of the journal.                                                   *)

LEMMA StartsCounted ==
    ASSUME NEW journal \in Seq(JournalLine), NEW o
    PROVE  IsFiniteSet(startsFor(journal, o)) /\ Starts(journal, o) \in Nat
<1>1. DOMAIN journal = 1 .. Len(journal) /\ Len(journal) \in Nat
  OBVIOUS
<1>2. IsFiniteSet(1 .. Len(journal))
  BY <1>1, FS_Interval
<1>3. startsFor(journal, o) \subseteq 1 .. Len(journal)
  BY <1>1 DEF startsFor
<1>4. IsFiniteSet(startsFor(journal, o))
  BY <1>2, <1>3, FS_Subset
<1> QED
  BY <1>4, FS_CardinalityType DEF Starts

LEMMA LineTypes ==
    ASSUME NEW journal \in Seq(JournalLine), NEW i \in DOMAIN journal
    PROVE  /\ journal[i] \in JournalLine
           /\ journal[i].type \in EventTypes /\ journal[i].obs \in Observations
           /\ journal[i].attempt \in Nat /\ journal[i].transient \in BOOLEAN
<1>1. journal[i] \in JournalLine
  OBVIOUS
<1> QED
  BY <1>1 DEF JournalLine

LEMMA LineAppended ==
    ASSUME NEW journal \in Seq(JournalLine), NEW e \in JournalLine
    PROVE  /\ Append(journal, e) \in Seq(JournalLine)
           /\ DOMAIN Append(journal, e) = DOMAIN journal \cup {Len(journal) + 1}
           /\ Len(journal) + 1 \notin DOMAIN journal
           /\ Append(journal, e)[Len(journal) + 1] = e
           /\ \A i \in DOMAIN journal : Append(journal, e)[i] = journal[i]
  OBVIOUS

(* A line about another observation changes nothing.                       *)
LEMMA OtherLine ==
    ASSUME NEW journal \in Seq(JournalLine), NEW e \in JournalLine, NEW o, e.obs # o
    PROVE  /\ Starts(Append(journal, e), o) = Starts(journal, o)
           /\ InDoubt(journal, o) => InDoubt(Append(journal, e), o)
<1> DEFINE after == Append(journal, e)
<1>1. /\ DOMAIN after = DOMAIN journal \cup {Len(journal) + 1}
      /\ after[Len(journal) + 1] = e
      /\ \A i \in DOMAIN journal : after[i] = journal[i]
  BY LineAppended
<1> HIDE DEF after
<1>2. startsFor(after, o) = startsFor(journal, o) /\ terminalsFor(after, o) = terminalsFor(journal, o)
  BY <1>1 DEF startsFor, terminalsFor
<1>3. ASSUME NEW s \in openStarts(journal), journal[s].obs = o
      PROVE  s \in openStarts(after) /\ after[s].obs = o
  <2>1. s \in DOMAIN journal /\ after[s] = journal[s]
    BY <1>1, <1>3 DEF openStarts
  <2>2. \A t \in terminalsFor(after, o) : t \in DOMAIN journal /\ after[t] = journal[t]
    BY <1>1, <1>2 DEF terminalsFor
  <2> QED
    BY <1>1, <1>2, <1>3, <2>1, <2>2 DEF openStarts
<1>4. ASSUME NEW t \in terminalsFor(journal, o)
      PROVE  t \in terminalsFor(after, o) /\ after[t] = journal[t]
  BY <1>1, <1>2 DEF terminalsFor
<1>5. InDoubt(journal, o) => InDoubt(after, o)
  BY <1>3, <1>4 DEF InDoubt
<1> QED
  BY <1>2, <1>5 DEF Starts, after

(* A start is counted, and leaves its observation in doubt.                *)
LEMMA StartCounted ==
    ASSUME NEW journal \in Seq(JournalLine), NEW e \in JournalLine, NEW o, e.obs = o, e.type = "started"
    PROVE  Starts(Append(journal, e), o) = Starts(journal, o) + 1
<1> DEFINE after == Append(journal, e)
           n == Len(journal) + 1
<1>1. /\ DOMAIN after = DOMAIN journal \cup {n} /\ n \notin DOMAIN journal
      /\ after[n] = e
      /\ \A i \in DOMAIN journal : after[i] = journal[i]
  BY LineAppended
<1> HIDE DEF after, n
<1>2. startsFor(after, o) = startsFor(journal, o) \cup {n} /\ n \notin startsFor(journal, o)
  BY <1>1 DEF startsFor
<1>3. Starts(after, o) = Starts(journal, o) + 1
  BY <1>2, StartsCounted, FS_AddElement, ZenonT(60) DEF Starts
<1> QED
  BY <1>3 DEF after

LEMMA StartLine ==
    ASSUME NEW journal \in Seq(JournalLine), NEW e \in JournalLine, NEW o, e.obs = o, e.type = "started",
           e.attempt = Starts(journal, o) + 1,
           \A i \in DOMAIN journal : journal[i].obs = o => journal[i].attempt <= Starts(journal, o)
    PROVE  /\ Starts(Append(journal, e), o) = Starts(journal, o) + 1
           /\ InDoubt(Append(journal, e), o)
<1> DEFINE after == Append(journal, e)
           n == Len(journal) + 1
<1>1. /\ DOMAIN after = DOMAIN journal \cup {n} /\ n \notin DOMAIN journal
      /\ after[n] = e
      /\ \A i \in DOMAIN journal : after[i] = journal[i]
  BY LineAppended
<1>3. Starts(after, o) = Starts(journal, o) + 1
  BY StartCounted
<1> HIDE DEF after, n
<1>4. ASSUME NEW t \in terminalsFor(after, o)
      PROVE  after[t].attempt # e.attempt
  <2>1. t \in DOMAIN journal /\ after[t] = journal[t] /\ journal[t].obs = o
    BY <1>1 DEF terminalsFor
  <2>2. journal[t].attempt <= Starts(journal, o) /\ journal[t].attempt \in Nat
    BY <2>1, LineTypes
  <2> QED
    BY <2>1, <2>2, StartsCounted
<1>5. n \in openStarts(after)
  BY <1>1, <1>4 DEF openStarts
<1> QED
  BY <1>1, <1>3, <1>5 DEF InDoubt, after

(* An end is not counted, and one that is not a passing failure leaves its *)
(* observation in doubt.                                                   *)
LEMMA EndLine ==
    ASSUME NEW journal \in Seq(JournalLine), NEW e \in JournalLine, NEW o, e.obs = o, e.type # "started"
    PROVE  /\ Starts(Append(journal, e), o) = Starts(journal, o)
           /\ ~(e.type = "failed" /\ e.transient) => InDoubt(Append(journal, e), o)
<1> DEFINE after == Append(journal, e)
           n == Len(journal) + 1
<1>1. /\ DOMAIN after = DOMAIN journal \cup {n}
      /\ after[n] = e
      /\ \A i \in DOMAIN journal : after[i] = journal[i]
  BY LineAppended
<1> HIDE DEF after, n
<1>2. startsFor(after, o) = startsFor(journal, o)
  BY <1>1 DEF startsFor
<1>3. n \in terminalsFor(after, o)
  BY <1>1 DEF terminalsFor
<1> QED
  BY <1>1, <1>2, <1>3 DEF InDoubt, Starts, after

(* A line the collector may write next, given the requests and answers     *)
(* there have been.                                                        *)
LineInOrder(journal, e) ==
    /\ e \in JournalLine
    /\ IF e.type = "started"
       THEN e.attempt = Starts(journal, e.obs) + 1
       ELSE /\ e.attempt <= Starts(journal, e.obs)
            /\ \/ ~(e.type = "failed" /\ e.transient)
               \/ sent[e.obs] = Starts(journal, e.obs) /\ answered[e.obs] = 0

LEMMA LineKeepsAccount ==
    ASSUME NEW journal \in Seq(JournalLine), NEW e, LineInOrder(journal, e),
           sent \in [Observations -> Nat], answered \in [Observations -> Nat],
           NEW o \in Observations, Accounted(journal, o, sent[o], answered[o])
    PROVE  Accounted(Append(journal, e), o, sent[o], answered[o])
<1> DEFINE after == Append(journal, e)
           n == Len(journal) + 1
<1>0. e \in JournalLine
  BY DEF LineInOrder
<1>1. /\ DOMAIN after = DOMAIN journal \cup {n} /\ after[n] = e
      /\ \A i \in DOMAIN journal : after[i] = journal[i]
      /\ after \in Seq(JournalLine)
  BY <1>0, LineAppended
<1>2. Starts(journal, o) \in Nat /\ Starts(after, o) \in Nat /\ sent[o] \in Nat /\ answered[o] \in Nat
  BY <1>1, StartsCounted, ZenonT(60)
<1>3. Starts(journal, o) <= Starts(after, o)
      /\ (InDoubt(after, o) \/ (sent[o] = Starts(after, o) /\ answered[o] = 0))
      /\ (e.obs = o => e.attempt <= Starts(after, o))
  <2>1. CASE e.obs # o
    BY <1>0, <1>2, <2>1, OtherLine DEF Accounted
  <2>2. CASE e.obs = o /\ e.type = "started"
    <3>1. \A i \in DOMAIN journal : journal[i].obs = o => journal[i].attempt <= Starts(journal, o)
      BY DEF Accounted
    <3>2. Starts(after, o) = Starts(journal, o) + 1 /\ InDoubt(after, o)
      BY <1>0, <2>2, <3>1, StartLine DEF LineInOrder
    <3> QED
      BY <1>2, <2>2, <3>2 DEF LineInOrder
  <2>3. CASE e.obs = o /\ e.type # "started"
    <3>1. Starts(after, o) = Starts(journal, o)
          /\ (~(e.type = "failed" /\ e.transient) => InDoubt(after, o))
      BY <1>0, <2>3, EndLine
    <3> QED
      BY <1>2, <2>3, <3>1 DEF LineInOrder
  <2> QED
    BY <2>1, <2>2, <2>3
<1> HIDE DEF after, n
<1>4. ASSUME NEW i \in DOMAIN after, after[i].obs = o
      PROVE  after[i].attempt <= Starts(after, o)
  <2>1. CASE i = n
    BY <1>1, <1>3, <1>4, <2>1
  <2>2. CASE i \in DOMAIN journal
    <3>1. journal[i].attempt <= Starts(journal, o) /\ journal[i].attempt \in Nat
      BY <1>1, <1>4, <2>2, LineTypes DEF Accounted
    <3> QED
      BY <1>1, <1>2, <1>3, <2>2, <3>1
  <2> QED
    BY <1>1, <2>1, <2>2
<1>5. Accounted(after, o, sent[o], answered[o])
  BY <1>2, <1>3, <1>4 DEF Accounted
<1> QED
  BY <1>5 DEF after

(* The event a worker is about to write is in order.                       *)
LEMMA EventInOrder ==
    ASSUME CollectionSafe, NEW w \in Workers, Journalling(w)
    PROVE  /\ LineInOrder(disk.journal.lines, NextEvent(jobs[w]))
           /\ NextEvent(jobs[w]).obs = jobs[w].obs
           /\ jobs[w].at = "beginning" <=> NextEvent(jobs[w]).type = "started"
<1> DEFINE job == jobs[w]
           journal == disk.journal.lines
<1>1. /\ job \in [at : WorkerSteps, obs : Observations, tries : Nat, budget : Int, transient : BOOLEAN]
      /\ job.at \in {"beginning", "answered", "failing"}
  BY DEF CollectionSafe, CollectionTypes, Jobs, Idle, Journalling
<1>2. JobSound(w)
  BY <1>1 DEF CollectionSafe, WorkSound, Held
<1>3. events \in Seq(JournalLine) /\ journal \in Seq(JournalLine)
  BY DEF CollectionSafe, CollectionTypes, RunDirectory, FileOf
<1>4. /\ attemptsFor(job.obs) = Starts(events, job.obs) /\ Starts(events, job.obs) \in Nat
      /\ Starts(journal, job.obs) = Starts(events, job.obs)
  BY <1>2, <1>3, StartsCounted DEF JobSound, attemptsFor, Starts
<1>5. ASSUME NEW type \in EventTypes, NEW attempt \in Nat, NEW transient \in BOOLEAN
      PROVE  makeEvent(type, job.obs, attempt, transient) \in JournalLine
  <2>1. job.obs \in Observations
    BY <1>1
  <2>2. CASE events = <<>>
    BY <2>1, <2>2 DEF makeEvent, JournalLine
  <2>3. CASE events # <<>>
    <3>1. Len(events) \in DOMAIN events
      BY <1>3, <2>3
    <3>2. EventId(events[Len(events)]) \in EventTypes \X Observations \X Nat
      BY <1>3, <3>1, LineTypes DEF EventId
    <3> QED
      BY <2>1, <2>3, <3>2 DEF makeEvent, JournalLine
  <2> QED
    BY <2>2, <2>3
<1> HIDE DEF job, journal
<1>6. CASE job.at = "beginning"
  <2>1. NextEvent(job) = makeEvent("started", job.obs, attemptsFor(job.obs) + 1, FALSE)
    BY <1>6 DEF NextEvent
  <2>2. NextEvent(job) \in JournalLine
    <3>1. attemptsFor(job.obs) + 1 \in Nat /\ "started" \in EventTypes
      BY <1>4 DEF EventTypes
    <3> QED
      BY <1>5, <2>1, <3>1, ZenonT(60)
  <2> QED
    BY <1>4, <1>6, <2>1, <2>2 DEF LineInOrder, makeEvent, job, journal
<1>7. CASE job.at = "answered"
  <2>1. NextEvent(job) = makeEvent("succeeded", job.obs, attemptsFor(job.obs), FALSE)
    BY <1>7 DEF NextEvent
  <2>2. NextEvent(job) \in JournalLine
    BY <1>4, <1>5, <2>1, ZenonT(60) DEF EventTypes
  <2> QED
    BY <1>4, <1>7, <2>1, <2>2 DEF LineInOrder, makeEvent, job, journal
<1>8. CASE job.at = "failing"
  <2>1. NextEvent(job) = makeEvent("failed", job.obs, attemptsFor(job.obs), job.transient)
    BY <1>8 DEF NextEvent
  <2>2. NextEvent(job) \in JournalLine
    BY <1>1, <1>4, <1>5, <2>1 DEF EventTypes
  <2>3. job.transient => sent[job.obs] = Starts(journal, job.obs) /\ answered[job.obs] = 0
    BY <1>2, <1>4, <1>8 DEF JobSound, job, journal
  <2> QED
    BY <1>4, <1>8, <2>1, <2>2, <2>3 DEF LineInOrder, makeEvent, job, journal
<1> QED
  BY <1>1, <1>6, <1>7, <1>8 DEF job

(* So is the end of an attempt that an earlier process left open.          *)
LEMMA InterruptionInOrder ==
    ASSUME CollectionSafe, process = "marking", NEW i \in openStarts(events)
    PROVE  /\ LineInOrder(disk.journal.lines, InterruptedEvent(events[i]))
           /\ events = disk.journal.lines
<1>1. events \in Seq(JournalLine) /\ events = disk.journal.lines
  BY DEF CollectionSafe, CollectionTypes, WorkSound
<1>2. i \in DOMAIN events
  BY DEF openStarts
<1>3. /\ events[i].obs \in Observations /\ events[i].attempt \in Nat
      /\ Len(events) \in DOMAIN events /\ events # <<>>
  BY <1>1, <1>2, LineTypes
<1>4. EventId(events[Len(events)]) \in EventTypes \X Observations \X Nat
  BY <1>1, <1>3, LineTypes DEF EventId
<1>5. InterruptedEvent(events[i]) \in JournalLine
  BY <1>3, <1>4 DEF InterruptedEvent, makeEvent, JournalLine, EventTypes
<1>6. events[i].attempt <= Starts(events, events[i].obs)
  BY <1>1, <1>2, <1>3 DEF CollectionSafe, RequestsAccounted, Accounted
<1>7. /\ InterruptedEvent(events[i]).type = "interrupted"
      /\ InterruptedEvent(events[i]).obs = events[i].obs
      /\ InterruptedEvent(events[i]).attempt = events[i].attempt
  BY DEF InterruptedEvent, makeEvent
<1> QED
  BY <1>1, <1>5, <1>6, <1>7 DEF LineInOrder

-----------------------------------------------------------------------------
(* Files.                                                                  *)

LEMMA FileAppended ==
    ASSUME NEW line, NEW file \in FileOf(line), NEW e \in line
    PROVE  Appended(file, e) \in FileOf(line) /\ Appended(file, e).lines = Append(file.lines, e)
  BY DEF Appended, FileOf

LEMMA FileUnacknowledged ==
    ASSUME NEW line, NEW file \in FileOf(line), NEW e \in line, NEW f \in Unacknowledged(file, e)
    PROVE  f \in FileOf(line) /\ f.lines \in {file.lines, Append(file.lines, e)}
<1>1. Appended(file, e) \in FileOf(line) /\ Appended(file, e).lines = Append(file.lines, e)
  BY FileAppended
<1>2. CASE f \in {[file EXCEPT !.exists = TRUE], [file EXCEPT !.exists = TRUE, !.tail = "spoiled"]}
  BY <1>2, ZenonT(60) DEF FileOf
<1>3. CASE f = Appended(file, e)
  BY <1>1, <1>3
<1>4. CASE f = [Appended(file, e) EXCEPT !.tail = "unterminated"]
  BY <1>1, <1>4 DEF FileOf
<1> QED
  BY <1>2, <1>3, <1>4 DEF Unacknowledged

(* The observation a worker is about to store fits the store.              *)
LEMMA RecordFits ==
    ASSUME CollectionSafe, NEW w \in Workers, jobs[w].at = "storing"
    PROVE  /\ ObservationOf(jobs[w]) \in StoreLine
           /\ ObservationOf(jobs[w]).obs = jobs[w].obs
           /\ StoreSound(Append(disk.store.lines, ObservationOf(jobs[w])))
           /\ ~disk.summary
<1> DEFINE o == jobs[w].obs
           record == ObservationOf(jobs[w])
           lines == disk.store.lines
<1>1. o \in Observations
  BY DEF CollectionSafe, CollectionTypes, Jobs, Idle
<1>2. Held(w) /\ JobSound(w)
  BY DEF CollectionSafe, WorkSound, Held
<1>3. /\ lines \in Seq(StoreLine) /\ StoreSound(lines) /\ ~StoredLine(lines, o)
      /\ events \in Seq(JournalLine) /\ sent \in [Observations -> Nat] /\ answered \in [Observations -> Nat]
      /\ (disk.summary => EverythingStored(lines))
  BY <1>2 DEF CollectionSafe, CollectionTypes, RunDirectory, FileOf, StoreKept, OnePlaceEach
<1>4. attemptsFor(o) = Starts(events, o) /\ Starts(events, o) \in Nat
  BY <1>3, StartsCounted DEF attemptsFor, Starts
<1>5. /\ record.obs = o /\ (record.invoked <=> o \in Invoking)
      /\ record.attempts = IF o \in Invoking THEN Starts(events, o) ELSE 0
      /\ record \in StoreLine
  <2>1. (o \in Invoking) \in BOOLEAN /\ (IF o \in Invoking THEN attemptsFor(o) ELSE 0) \in Nat
    BY <1>4
  <2>2. record = [obs |-> o, invoked |-> o \in Invoking,
                  attempts |-> IF o \in Invoking THEN attemptsFor(o) ELSE 0]
    BY DEF ObservationOf
  <2>3. ASSUME NEW b \in BOOLEAN, NEW n \in Nat
        PROVE  [obs |-> o, invoked |-> b, attempts |-> n] \in StoreLine
    BY <1>1 DEF StoreLine
  <2>4. record \in StoreLine
    BY <2>1, <2>2, <2>3, ZenonT(60)
  <2>5. record.obs = o /\ (record.invoked <=> o \in Invoking)
    <3>1. record.obs = o
      BY <2>2
    <3>2. record.invoked = (o \in Invoking)
      BY DEF ObservationOf
    <3> QED
      BY <3>1, <3>2, ZenonT(60)
  <2>6. record.attempts = IF o \in Invoking THEN attemptsFor(o) ELSE 0
    BY <2>2
  <2> QED
    BY <1>4, <2>4, <2>5, <2>6
<1>6. Accounted(disk.journal.lines, o, sent[o], answered[o])
  BY <1>1 DEF CollectionSafe, RequestsAccounted
<1>7. record.attempts = sent[o] /\ answered[o] = IF record.invoked THEN 1 ELSE 0
  <2>1. CASE o \in Invoking
    BY <1>2, <1>5, <2>1 DEF JobSound
  <2>2. CASE o \notin Invoking
    <3>1. sent[o] = 0 /\ answered[o] <= sent[o] /\ answered[o] \in Nat
      BY <1>1, <1>3, <1>6, <2>2 DEF Accounted
    <3> QED
      BY <1>5, <2>2, <3>1
  <2> QED
    BY <2>1, <2>2
<1> HIDE DEF o, record, lines
<1>8. /\ DOMAIN Append(lines, record) = DOMAIN lines \cup {Len(lines) + 1}
      /\ Append(lines, record)[Len(lines) + 1] = record
      /\ \A k \in DOMAIN lines : Append(lines, record)[k] = lines[k] /\ lines[k].obs # o
  BY <1>3, <1>5 DEF StoredLine
<1>9. StoreSound(Append(lines, record))
  BY <1>3, <1>5, <1>7, <1>8 DEF StoreSound
<1> QED
  BY <1>1, <1>3, <1>5, <1>9 DEF o, record, lines, EverythingStored

-----------------------------------------------------------------------------
(* The run directory by itself.                                            *)

DiskSound ==
    /\ disk \in RunDirectory
    /\ RequestsAccounted
    /\ StoreSound(disk.store.lines)
    /\ disk.summary => EverythingStored(disk.store.lines)

LEMMA DiskUntouched ==
    ASSUME CollectionSafe, UNCHANGED disk, UNCHANGED world
    PROVE  DiskSound'
<1>1. disk' = disk /\ sent' = sent /\ answered' = answered
  BY DEF world
<1>2. DiskSound
  BY DEF CollectionSafe, CollectionTypes, StoreKept, DiskSound
<1>3. RequestsAccounted'
  BY <1>1, <1>2 DEF DiskSound, RequestsAccounted
<1>4. StoreSound(disk.store.lines)'
  BY <1>1, <1>2 DEF DiskSound, StoreSound
<1> QED
  BY <1>1, <1>2, <1>3, <1>4 DEF DiskSound

LEMMA JournalWritten ==
    ASSUME CollectionSafe, UNCHANGED world,
           NEW e, LineInOrder(disk.journal.lines, e),
           NEW f \in FileOf(JournalLine), f.lines \in {disk.journal.lines, Append(disk.journal.lines, e)},
           disk' = [disk EXCEPT !.journal = f]
    PROVE  /\ DiskSound'
           /\ disk'.store = disk.store /\ disk'.summary = disk.summary
           /\ disk'.journal.lines = f.lines
<1>1. sent' = sent /\ answered' = answered
  BY DEF world
<1>2. disk \in RunDirectory /\ disk.journal.lines \in Seq(JournalLine)
      /\ sent \in [Observations -> Nat] /\ answered \in [Observations -> Nat]
  BY DEF CollectionSafe, CollectionTypes, RunDirectory, FileOf
<1>3. /\ disk' \in RunDirectory /\ disk'.store = disk.store /\ disk'.summary = disk.summary
      /\ disk'.journal.lines = f.lines
  BY <1>2, ZenonT(60) DEF RunDirectory
<1>4. ASSUME NEW o \in Observations
      PROVE  Accounted(disk'.journal.lines, o, sent'[o], answered'[o])
  <2>1. Accounted(disk.journal.lines, o, sent[o], answered[o])
    BY DEF CollectionSafe, RequestsAccounted
  <2>2. Accounted(Append(disk.journal.lines, e), o, sent[o], answered[o])
    BY <1>2, <2>1, LineKeepsAccount, ZenonT(60)
  <2> QED
    BY <1>1, <1>3, <2>1, <2>2, ZenonT(60)
<1>5. RequestsAccounted'
  BY <1>4 DEF RequestsAccounted
<1>6. StoreSound(disk.store.lines)' /\ (disk.summary => EverythingStored(disk.store.lines))'
  BY <1>1, <1>3 DEF CollectionSafe, StoreKept, StoreSound, EverythingStored
<1> QED
  BY <1>3, <1>5, <1>6 DEF DiskSound

LEMMA StoreWritten ==
    ASSUME CollectionSafe, UNCHANGED world, NEW w \in Workers, jobs[w].at = "storing",
           NEW f \in Unacknowledged(disk.store, ObservationOf(jobs[w])),
           disk' = [disk EXCEPT !.store = f]
    PROVE  /\ DiskSound'
           /\ disk'.journal = disk.journal
           /\ disk'.store.lines \in {disk.store.lines, Append(disk.store.lines, ObservationOf(jobs[w]))}
<1> DEFINE record == ObservationOf(jobs[w])
<1>1. sent' = sent /\ answered' = answered
  BY DEF world
<1>2. disk \in RunDirectory /\ disk.store \in FileOf(StoreLine)
  BY DEF CollectionSafe, CollectionTypes, RunDirectory
<1>3. record \in StoreLine /\ StoreSound(Append(disk.store.lines, record)) /\ ~disk.summary
  BY RecordFits
<1>4. f \in FileOf(StoreLine) /\ f.lines \in {disk.store.lines, Append(disk.store.lines, record)}
  BY <1>2, <1>3, FileUnacknowledged
<1>5. /\ disk' \in RunDirectory /\ disk'.journal = disk.journal /\ disk'.store = f
      /\ disk'.summary = disk.summary
  BY <1>2, <1>4 DEF RunDirectory
<1>6. RequestsAccounted'
  BY <1>1, <1>5 DEF CollectionSafe, RequestsAccounted
<1>7. StoreSound(f.lines)
  BY <1>3, <1>4, ZenonT(60) DEF CollectionSafe, StoreKept
<1>8. StoreSound(disk.store.lines)'
  BY <1>1, <1>5, <1>7 DEF StoreSound
<1> QED
  BY <1>3, <1>4, <1>5, <1>6, <1>8 DEF DiskSound

(* A process that stops leaves nothing but the run directory.              *)
LEMMA StoppedSafe ==
    ASSUME CollectionSafe, NEW reason, Stopped(reason), UNCHANGED world, DiskSound'
    PROVE  CollectionSafe'
<1>1. /\ process' = "down" /\ events' = <<>> /\ records' = {} /\ pending' = {}
      /\ jobs' = [w \in Workers |-> Idle] /\ sent' = sent /\ answered' = answered
  BY DEF Stopped, world
<1>2. \A w \in Workers : jobs'[w] = Idle /\ Idle.at = "idle"
  BY <1>1 DEF Idle
<1>3. CollectionTypes'
  <2>1. sent \in [Observations -> Nat] /\ answered \in [Observations -> Nat]
    BY DEF CollectionSafe, CollectionTypes
  <2>2. jobs' \in [Workers -> Jobs]
    BY <1>1 DEF Jobs
  <2>3. events' \in Seq(JournalLine)
    BY <1>1
  <2>4. disk' \in RunDirectory
    BY DEF DiskSound
  <2> QED
    BY <1>1, <2>1, <2>2, <2>3, <2>4 DEF CollectionTypes
<1>4. WorkSound'
  BY <1>1, <1>2 DEF WorkSound, Working, Held
<1>5. OnePlaceEach'
  BY <1>1, <1>2 DEF OnePlaceEach, Held
<1>6. StoreKept' /\ RequestsAccounted'
  BY <1>1 DEF StoreKept, DiskSound
<1> QED
  BY <1>3, <1>4, <1>5, <1>6 DEF CollectionSafe

LEMMA CrashSafe ==
    ASSUME CollectionSafe, Crash
    PROVE  CollectionSafe'
<1>0. Stopped("crashed") /\ UNCHANGED world /\ disk' \in DiskAfterCrash
  BY DEF Crash
<1>1. disk.journal \in FileOf(JournalLine) /\ disk.store \in FileOf(StoreLine)
  BY DEF CollectionSafe, CollectionTypes, RunDirectory
<1>2. DiskSound'
  <2>1. CASE disk' = disk
    BY <1>0, <2>1, DiskUntouched
  <2>2. ASSUME NEW e, LineInOrder(disk.journal.lines, e),
               NEW f \in Unacknowledged(disk.journal, e), disk' = [disk EXCEPT !.journal = f]
        PROVE  DiskSound'
    <3>1. e \in JournalLine
      BY <2>2 DEF LineInOrder
    <3>2. f \in FileOf(JournalLine) /\ f.lines \in {disk.journal.lines, Append(disk.journal.lines, e)}
      BY <1>1, <2>2, <3>1, FileUnacknowledged
    <3> QED
      BY <1>0, <2>2, <3>2, JournalWritten
  <2>3. ASSUME NEW w \in Workers, Journalling(w),
               NEW f \in Unacknowledged(disk.journal, NextEvent(jobs[w])), disk' = [disk EXCEPT !.journal = f]
        PROVE  DiskSound'
    BY <2>2, <2>3, EventInOrder
  <2>4. ASSUME NEW i \in DOMAIN events, process = "marking", IsFirst(i, openStarts(events)),
               NEW f \in Unacknowledged(disk.journal, InterruptedEvent(events[i])),
               disk' = [disk EXCEPT !.journal = f]
        PROVE  DiskSound'
    <3>1. i \in openStarts(events)
      BY <2>4 DEF IsFirst
    <3> QED
      BY <2>2, <2>4, <3>1, InterruptionInOrder
  <2>5. ASSUME NEW w \in Workers, jobs[w].at = "storing",
               NEW f \in Unacknowledged(disk.store, ObservationOf(jobs[w])), disk' = [disk EXCEPT !.store = f]
        PROVE  DiskSound'
    BY <1>0, <2>5, StoreWritten
  <2> DEFINE underWay ==
                 {NextEvent(jobs[w]) : w \in {v \in Workers : Journalling(v)}}
                 \cup {InterruptedEvent(events[i]) :
                          i \in {j \in DOMAIN events : process = "marking" /\ IsFirst(j, openStarts(events))}}
             storing == {ObservationOf(jobs[w]) : w \in {v \in Workers : jobs[v].at = "storing"}}
  <2>6. \/ disk' = disk
        \/ \E e \in underWay : \E f \in Unacknowledged(disk.journal, e) : disk' = [disk EXCEPT !.journal = f]
        \/ \E r \in storing : \E f \in Unacknowledged(disk.store, r) : disk' = [disk EXCEPT !.store = f]
    BY <1>0 DEF DiskAfterCrash
  <2>7. ASSUME NEW e \in underWay, NEW f \in Unacknowledged(disk.journal, e),
               disk' = [disk EXCEPT !.journal = f]
        PROVE  DiskSound'
    <3>1. CASE e \in {NextEvent(jobs[w]) : w \in {v \in Workers : Journalling(v)}}
      BY <2>3, <2>7, <3>1
    <3>2. CASE e \in {InterruptedEvent(events[i]) :
                         i \in {j \in DOMAIN events : process = "marking" /\ IsFirst(j, openStarts(events))}}
      BY <2>4, <2>7, <3>2
    <3> QED
      BY <3>1, <3>2
  <2>8. ASSUME NEW r \in storing, NEW f \in Unacknowledged(disk.store, r),
               disk' = [disk EXCEPT !.store = f]
        PROVE  DiskSound'
    BY <2>5, <2>8
  <2> HIDE DEF underWay, storing
  <2> QED
    BY <2>1, <2>6, <2>7, <2>8
<1> QED
  BY <1>0, <1>2, StoppedSafe

-----------------------------------------------------------------------------
(* Start and end of a process.                                             *)

LEMMA StartSafe ==
    ASSUME CollectionSafe, startFresh \/ startResume
    PROVE  CollectionSafe'
<1>1. /\ events' = events /\ records' = records /\ pending' = pending /\ jobs' = jobs
      /\ sent' = sent /\ answered' = answered
      /\ process = "down" /\ process' \in {"down", "opening"}
  BY DEF startFresh, startResume, memory, world
<1>2. /\ disk' \in RunDirectory /\ disk'.journal = disk.journal /\ disk'.store = disk.store
      /\ disk'.summary = disk.summary
  <2>1. disk \in RunDirectory
    BY DEF CollectionSafe, CollectionTypes
  <2>2. \/ disk' = disk \/ disk' = [disk EXCEPT !.manifest = "exact"]
        \/ disk' = [disk EXCEPT !.manifest = "torn"]
    BY DEF startFresh, startResume
  <2> QED
    BY <2>1, <2>2 DEF RunDirectory
<1>3. CollectionTypes'
  BY <1>1, <1>2 DEF CollectionSafe, CollectionTypes
<1>4. RequestsAccounted'
  BY <1>1, <1>2 DEF CollectionSafe, RequestsAccounted
<1>5. pending = {} /\ \A w \in Workers : jobs[w] = Idle
  BY <1>1 DEF CollectionSafe, WorkSound, Working
<1>6. \A w \in Workers : jobs'[w].at = "idle"
  BY <1>1, <1>5 DEF Idle
<1>7. WorkSound' /\ OnePlaceEach'
  BY <1>1, <1>5, <1>6 DEF WorkSound, OnePlaceEach, Working, Held
<1>8. StoreKept'
  BY <1>1, <1>2 DEF CollectionSafe, StoreKept, StoreSound, EverythingStored
<1> QED
  BY <1>3, <1>4, <1>7, <1>8 DEF CollectionSafe

(* A run ends with everything stored.                                      *)
LEMMA FinishSafe ==
    ASSUME CollectionSafe, finish
    PROVE  CollectionSafe'
<1>1. /\ Stopped("finished") /\ UNCHANGED world /\ process = "collecting" /\ pending = {}
      /\ \A w \in Workers : ~Held(w)
      /\ disk' = [disk EXCEPT !.progress = TRUE, !.summary = TRUE]
  BY DEF finish, Held
<1>2. \A i \in DOMAIN Plan : StoredLine(disk.store.lines, Plan[i])
  BY <1>1 DEF CollectionSafe, OnePlaceEach
<1>3. EverythingStored(disk.store.lines)
  BY <1>2 DEF EverythingStored, Observations
<1>4. disk' \in RunDirectory /\ disk'.journal = disk.journal /\ disk'.store = disk.store
  BY <1>1, ZenonT(60) DEF CollectionSafe, CollectionTypes, RunDirectory
<1>5. sent' = sent /\ answered' = answered
  BY <1>1 DEF world
<1>6. RequestsAccounted' /\ StoreSound(disk.store.lines)'
  BY <1>4, <1>5 DEF CollectionSafe, RequestsAccounted, StoreKept, StoreSound
<1>7. DiskSound'
  BY <1>3, <1>4, <1>6 DEF DiskSound, EverythingStored
<1> QED
  BY <1>1, <1>7, StoppedSafe

(* What may be resumed is as the journal says: no attempt of it is open,   *)
(* and those that ended failed for a while.                                *)
LEMMA ResumableIsUntouched ==
    ASSUME CollectionSafe, NEW i \in DOMAIN Plan, openStarts(disk.journal.lines) = {},
           \/ startsFor(disk.journal.lines, Plan[i]) = {}
           \/ assertCanResumeObservation(disk.journal.lines, Plan[i])
    PROVE  sent[Plan[i]] = Starts(disk.journal.lines, Plan[i]) /\ answered[Plan[i]] = 0
<1> DEFINE journal == disk.journal.lines
           o == Plan[i]
<1>1. o \in Observations
  BY DEF Observations
<1>2. /\ journal \in Seq(JournalLine) /\ sent[o] \in Nat /\ answered[o] \in Nat
      /\ Accounted(journal, o, sent[o], answered[o])
  BY <1>1 DEF CollectionSafe, CollectionTypes, RunDirectory, FileOf, RequestsAccounted
<1> HIDE DEF journal, o
<1>3. CASE startsFor(journal, o) = {}
  <2>1. Starts(journal, o) = 0
    BY <1>3, FS_EmptySet DEF Starts
  <2> QED
    BY <1>2, <2>1 DEF Accounted, journal, o
<1>4. CASE assertCanResumeObservation(journal, o)
  <2>1. ASSUME NEW t \in terminalsFor(journal, o)
        PROVE  journal[t].type = "failed" /\ journal[t].transient
    <3>1. journal[t].type \in EventTypes /\ journal[t].type # "started"
      BY <1>2, LineTypes DEF terminalsFor
    <3>2. /\ journal[t].type # "succeeded" /\ journal[t].type # "interrupted"
          /\ ~(journal[t].type = "failed" /\ ~journal[t].transient)
      BY <1>4, <2>1 DEF assertCanResumeObservation, Ended, FailedForGood
    <3> QED
      BY <3>1, <3>2 DEF EventTypes
  <2>2. ~InDoubt(journal, o)
    BY <2>1 DEF InDoubt, journal
  <2> QED
    BY <1>2, <2>2 DEF Accounted, journal, o
<1> QED
  BY <1>3, <1>4 DEF journal, o

LEMMA OpenSafe ==
    ASSUME CollectionSafe, openRun
    PROVE  CollectionSafe'
<1> DEFINE journal == disk.journal.lines
           stored == Range(disk.store.lines)
           todo == {i \in DOMAIN Plan : \A r \in stored : r.obs # Plan[i]}
<1>1. /\ process = "opening" /\ sent' = sent /\ answered' = answered /\ UNCHANGED world
  BY DEF openRun, world
<1>2. /\ disk \in RunDirectory /\ journal \in Seq(JournalLine) /\ stored \subseteq StoreLine
      /\ DOMAIN Plan = 1 .. Len(Plan)
  <2>1. disk \in RunDirectory /\ disk.store.lines \in Seq(StoreLine)
    BY DEF CollectionSafe, CollectionTypes, RunDirectory, FileOf
  <2>2. \A k \in DOMAIN disk.store.lines : disk.store.lines[k] \in StoreLine
    BY <2>1
  <2> QED
    BY <2>1, <2>2, CollectionAssumption DEF RunDirectory, FileOf, Range
<1>3. pending = {} /\ \A w \in Workers : jobs[w] = Idle
  BY <1>1 DEF CollectionSafe, WorkSound, Working
<1>4. CASE UNCHANGED disk /\ \E reason : Stopped(reason)
  <2>1. DiskSound'
    BY <1>1, <1>4, DiskUntouched
  <2> QED
    BY <1>1, <1>4, <2>1, StoppedSafe
<1>5. CASE /\ process' = "marking" /\ events' = journal
           /\ UNCHANGED <<disk, refusal, records, pending, completed, jobs>>
  <2>1. \A w \in Workers : jobs'[w] = Idle /\ jobs'[w].at = "idle"
    BY <1>3, <1>5 DEF Idle
  <2>2. CollectionTypes'
    BY <1>1, <1>2, <1>5 DEF CollectionSafe, CollectionTypes
  <2>3. WorkSound' /\ OnePlaceEach'
    BY <1>3, <1>5, <2>1, ZenonT(60) DEF WorkSound, OnePlaceEach, Working, Held
  <2>4. RequestsAccounted' /\ StoreKept'
    BY <1>1, <1>5 DEF CollectionSafe, RequestsAccounted, StoreKept, StoreSound, EverythingStored
  <2> QED
    BY <2>2, <2>3, <2>4 DEF CollectionSafe
<1>6. CASE /\ Interrupted(journal) = {}
           /\ ~\E i \in todo : startsFor(journal, Plan[i]) # {} /\ ~assertCanResumeObservation(journal, Plan[i])
           /\ process' = "collecting"
           /\ events' = journal /\ records' = stored /\ pending' = todo
           /\ disk' = [disk EXCEPT !.progress = TRUE, !.summary = @ \/ todo = {}]
           /\ UNCHANGED <<refusal, completed, jobs>>
  <2>1. /\ disk' \in RunDirectory /\ disk'.journal = disk.journal /\ disk'.store = disk.store
        /\ (disk'.summary => disk.summary \/ todo = {})
    <3>1. (disk.summary \/ todo = {}) \in BOOLEAN
      OBVIOUS
    <3>2. ASSUME NEW b \in BOOLEAN, NEW d, d = [disk EXCEPT !.progress = TRUE, !.summary = b]
          PROVE  d \in RunDirectory /\ d.journal = disk.journal /\ d.store = disk.store /\ d.summary = b
      BY <1>2, <3>2, ZenonT(60) DEF RunDirectory
    <3>3. disk' = [disk EXCEPT !.progress = TRUE, !.summary = (disk.summary \/ todo = {})]
      BY <1>6
    <3> HIDE DEF todo
    <3> QED
      BY <3>1, <3>2, <3>3, ZenonT(60)
  <2>2. \A i \in DOMAIN Plan : i \in todo <=> ~StoredLine(disk.store.lines, Plan[i])
    BY DEF StoredLine, Range
  <2>3. \A w \in Workers : jobs'[w] = Idle /\ jobs'[w].at = "idle"
    BY <1>3, <1>6 DEF Idle
  <2>4. CollectionTypes'
    BY <1>1, <1>2, <1>6, <2>1 DEF CollectionSafe, CollectionTypes
  <2>5. \A i \in todo : sent[Plan[i]] = Starts(journal, Plan[i]) /\ answered[Plan[i]] = 0
    BY <1>6, ResumableIsUntouched DEF Interrupted
  <2> HIDE DEF todo
  <2>6. WorkSound'
    BY <1>1, <1>6, <2>1, <2>3, <2>5 DEF WorkSound, Working, Untouched, Held
  <2>7. OnePlaceEach'
    BY <1>2, <1>6, <2>1, <2>2, <2>3, <2>4 DEF OnePlaceEach, Held, CollectionTypes
  <2>8. todo = {} => EverythingStored(disk.store.lines)
    BY <2>2 DEF EverythingStored, Observations
  <2>9. RequestsAccounted' /\ StoreKept'
    BY <1>1, <1>6, <2>1, <2>8 DEF CollectionSafe, RequestsAccounted, StoreKept, StoreSound, EverythingStored
  <2> QED
    BY <2>4, <2>6, <2>7, <2>9, ZenonT(60) DEF CollectionSafe
<1> QED
  BY <1>4, <1>5, <1>6, ZenonT(60) DEF openRun

LEMMA MarkSafe ==
    ASSUME CollectionSafe, markOpenAttemptsInterrupted
    PROVE  CollectionSafe'
<1>1. process = "marking" /\ UNCHANGED world /\ sent' = sent /\ answered' = answered
  BY DEF markOpenAttemptsInterrupted, world
<1>2. CASE Stopped("interrupted") /\ UNCHANGED disk
  BY <1>1, <1>2, DiskUntouched, StoppedSafe
<1>3. ASSUME NEW i \in openStarts(events), NEW event, event = InterruptedEvent(events[i]),
             disk' = [disk EXCEPT !.journal = Appended(@, event)],
             events' = Append(events, event),
             UNCHANGED <<process, refusal, records, pending, completed, jobs>>
      PROVE  CollectionSafe'
  <2>1. LineInOrder(disk.journal.lines, event) /\ events = disk.journal.lines /\ event \in JournalLine
    BY <1>1, <1>3, InterruptionInOrder DEF LineInOrder
  <2>2. disk.journal \in FileOf(JournalLine)
    BY DEF CollectionSafe, CollectionTypes, RunDirectory
  <2>3. /\ Appended(disk.journal, event) \in FileOf(JournalLine)
        /\ Appended(disk.journal, event).lines = Append(disk.journal.lines, event)
    BY <2>1, <2>2, FileAppended, ZenonT(60)
  <2>4. /\ DiskSound' /\ disk'.store = disk.store /\ disk'.summary = disk.summary
        /\ disk'.journal.lines = Append(disk.journal.lines, event)
    BY <1>1, <1>3, <2>1, <2>3, JournalWritten, ZenonT(60)
  <2>5. pending = {} /\ \A w \in Workers : jobs[w] = Idle
    BY <1>1 DEF CollectionSafe, WorkSound, Working
  <2>6. \A w \in Workers : jobs'[w] = Idle /\ jobs'[w].at = "idle"
    BY <1>3, <2>5 DEF Idle
  <2>7. events' \in Seq(JournalLine)
    BY <1>3, <2>1 DEF CollectionSafe, CollectionTypes
  <2>8. CollectionTypes'
    BY <1>1, <1>3, <2>4, <2>7, ZenonT(60) DEF CollectionSafe, CollectionTypes, DiskSound
  <2>9. WorkSound' /\ OnePlaceEach'
    BY <1>1, <1>3, <2>1, <2>4, <2>5, <2>6 DEF WorkSound, OnePlaceEach, Working, Held
  <2>10. RequestsAccounted' /\ StoreKept'
    BY <1>3, <2>4, ZenonT(60) DEF CollectionSafe, DiskSound, StoreKept
  <2> QED
    BY <2>8, <2>9, <2>10 DEF CollectionSafe
<1> QED
  BY <1>2, <1>3 DEF markOpenAttemptsInterrupted

-----------------------------------------------------------------------------
(* Workers.  A step of one leaves the observations of the others alone.    *)

Holds(w, o) == Held(w) /\ jobs[w].obs = o

LeavesAlone(o) ==
    /\ Starts(events', o) = Starts(events, o)
    /\ Starts(disk'.journal.lines, o) = Starts(disk.journal.lines, o)
    /\ InDoubt(disk.journal.lines, o) => InDoubt(disk'.journal.lines, o)
    /\ sent'[o] = sent[o] /\ answered'[o] = answered[o]
    /\ StoredLine(disk'.store.lines, o) => StoredLine(disk.store.lines, o)

(* What a worker that keeps its job knows is still right.                  *)
LEMMA JobLeftAlone ==
    ASSUME NEW w \in Workers, JobSound(w), jobs'[w] = jobs[w], LeavesAlone(jobs[w].obs)
    PROVE  JobSound(w)'
    BY ZenonT(60) DEF JobSound, LeavesAlone

(* The worker keeps its observation, or has one from the queue, and what   *)
(* it knows of it is right.                                                *)
GoesOn(w) ==
    /\ \/ Holds(w, jobs'[w].obs)
       \/ \E i \in pending : i \notin pending' /\ jobs'[w].obs = Plan[i]
    /\ JobSound(w)'
    /\ ~StoredLine(disk'.store.lines, jobs'[w].obs)

(* Nothing is lost: neither in the queue, nor with the worker, nor in the  *)
(* store.                                                                  *)
LosesNothing(w) ==
    /\ \A i \in pending : i \in pending' \/ (jobs'[w].at # "idle" /\ jobs'[w].obs = Plan[i])
    /\ Held(w) => \/ jobs'[w].at # "idle" /\ jobs'[w].obs = jobs[w].obs
                  \/ StoredLine(disk'.store.lines, jobs[w].obs)
    /\ \A o \in Observations : StoredLine(disk.store.lines, o) => StoredLine(disk'.store.lines, o)

LEMMA WorkerSafe ==
    ASSUME CollectionSafe, NEW w \in Workers,
           process = "collecting", process' \in {"collecting", "ending"},
           CollectionTypes', RequestsAccounted', StoreKept',
           \A v \in Workers : v # w => jobs'[v] = jobs[v],
           pending' \subseteq pending,
           \A o \in Observations : ~Holds(w, o) => LeavesAlone(o),
           jobs'[w].at # "idle" => GoesOn(w),
           process' = "collecting" => LosesNothing(w)
    PROVE  CollectionSafe'
<1>0. \A i \in DOMAIN Plan : Plan[i] \in Observations
  BY DEF Observations
<1>1. /\ pending \subseteq DOMAIN Plan
      /\ \A i, j \in DOMAIN Plan : Plan[i] = Plan[j] => i = j
      /\ \A v \in Workers : Held(v) => jobs[v].obs \in Observations
  <2>1. /\ pending \subseteq DOMAIN Plan /\ jobs \in [Workers -> Jobs]
        /\ \A i, j \in DOMAIN Plan : Plan[i] = Plan[j] => i = j
    BY CollectionAssumption, ZenonT(60) DEF CollectionSafe, CollectionTypes
  <2>2. ASSUME NEW v \in Workers, Held(v)
        PROVE  jobs[v].obs \in Observations
    <3>1. jobs[v] \in Jobs /\ jobs[v].at # "idle"
      BY <2>1, <2>2, ZenonT(60) DEF Held
    <3> QED
      BY <3>1 DEF Jobs, Idle
  <2> QED
    BY <2>1, <2>2, ZenonT(60)
<1>2. /\ \A i \in pending : Untouched(Plan[i]) /\ ~StoredLine(disk.store.lines, Plan[i])
      /\ \A v \in Workers : Held(v) =>
            /\ JobSound(v)
            /\ \A i \in pending : Plan[i] # jobs[v].obs
            /\ ~StoredLine(disk.store.lines, jobs[v].obs)
            /\ \A u \in Workers : Held(u) /\ jobs[u].obs = jobs[v].obs => u = v
  BY DEF CollectionSafe, WorkSound, OnePlaceEach
<1>3. ASSUME NEW i \in pending
      PROVE  LeavesAlone(Plan[i])
  BY <1>0, <1>1, <1>2, ZenonT(60) DEF Holds
<1>4. ASSUME NEW v \in Workers, v # w, Held(v)
      PROVE  jobs'[v] = jobs[v] /\ LeavesAlone(jobs[v].obs) /\ JobSound(v)'
  <2>1. jobs'[v] = jobs[v] /\ LeavesAlone(jobs[v].obs)
    BY <1>1, <1>2, <1>4, ZenonT(60) DEF Holds
  <2> QED
    BY <1>2, <1>4, <2>1, JobLeftAlone, ZenonT(60)
<1>5. WorkSound'
  <2>1. ASSUME NEW i \in pending'
        PROVE  Untouched(Plan[i])'
    BY <1>2, <1>3, ZenonT(60) DEF Untouched, LeavesAlone
  <2>2. ASSUME NEW v \in Workers, Held(v)'
        PROVE  JobSound(v)'
    <3>1. CASE v = w
      BY <2>2, <3>1 DEF Held, GoesOn
    <3>2. CASE v # w
      BY <1>4, <2>2, <3>2 DEF Held
    <3> QED
      BY <3>1, <3>2
  <2> QED
    BY <2>1, <2>2, ZenonT(60) DEF WorkSound, Working
<1>6. ASSUME NEW v \in Workers, Held(v)'
      PROVE  /\ \A i \in pending' : Plan[i] # jobs'[v].obs
             /\ ~StoredLine(disk'.store.lines, jobs'[v].obs)
             /\ v # w => Held(v) /\ jobs'[v] = jobs[v]
  <2>1. CASE v = w
    <3>1. GoesOn(w)
      BY <1>6, <2>1, ZenonT(60) DEF Held
    <3>2. \A i \in pending' : Plan[i] # jobs'[w].obs
      BY <1>1, <1>2, <3>1, ZenonT(60) DEF GoesOn, Holds
    <3> QED
      BY <2>1, <3>1, <3>2 DEF GoesOn
  <2>2. CASE v # w
    <3>1. Held(v) /\ jobs'[v] = jobs[v] /\ LeavesAlone(jobs[v].obs)
      BY <1>4, <1>6, <2>2 DEF Held
    <3>2. ~StoredLine(disk.store.lines, jobs[v].obs) /\ \A i \in pending : Plan[i] # jobs[v].obs
      BY <1>2, <3>1, ZenonT(60)
    <3>3. ~StoredLine(disk'.store.lines, jobs[v].obs)
      BY <3>1, <3>2, ZenonT(60) DEF LeavesAlone
    <3> QED
      BY <3>1, <3>2, <3>3, ZenonT(60)
  <2> QED
    BY <2>1, <2>2, ZenonT(60)
<1>7. ASSUME NEW v \in Workers, NEW u \in Workers, Held(v)', Held(u)', jobs'[u].obs = jobs'[v].obs
      PROVE  u = v
  <2>1. ASSUME NEW x \in Workers, x # w, Held(x)', Held(w)', jobs'[x].obs = jobs'[w].obs
        PROVE  FALSE
    <3>1. Held(x) /\ jobs'[x] = jobs[x]
      BY <1>6, <2>1
    <3>2. GoesOn(w)
      BY <2>1, ZenonT(60) DEF Held
    <3> QED
      BY <1>2, <2>1, <3>1, <3>2, ZenonT(60) DEF GoesOn, Holds
  <2>2. CASE u # w /\ v # w
    BY <1>2, <1>6, <1>7, <2>2, ZenonT(60)
  <2> QED
    BY <1>7, <2>1, <2>2, ZenonT(60)
<1>8. ASSUME NEW i \in pending'
      PROVE  ~StoredLine(disk'.store.lines, Plan[i])
  BY <1>2, <1>3, ZenonT(60) DEF LeavesAlone
<1>9. ASSUME process' = "collecting", NEW i \in DOMAIN Plan
      PROVE  \/ i \in pending'
             \/ \E v \in Workers : jobs'[v].at # "idle" /\ jobs'[v].obs = Plan[i]
             \/ StoredLine(disk'.store.lines, Plan[i])
  <2>1. LosesNothing(w)
    BY <1>9, ZenonT(60)
  <2>2. \/ i \in pending
        \/ \E v \in Workers : Held(v) /\ jobs[v].obs = Plan[i]
        \/ StoredLine(disk.store.lines, Plan[i])
    BY ZenonT(60) DEF CollectionSafe, OnePlaceEach
  <2>3. CASE i \in pending
    BY <2>1, <2>3, ZenonT(60) DEF LosesNothing
  <2>4. ASSUME NEW v \in Workers, Held(v), jobs[v].obs = Plan[i]
        PROVE  \/ \E u \in Workers : jobs'[u].at # "idle" /\ jobs'[u].obs = Plan[i]
               \/ StoredLine(disk'.store.lines, Plan[i])
    <3>1. CASE v = w
      BY <2>1, <2>4, <3>1, ZenonT(60) DEF LosesNothing
    <3>2. CASE v # w
      BY <1>4, <2>4, <3>2, ZenonT(60) DEF Held
    <3> QED
      BY <3>1, <3>2, ZenonT(60)
  <2>5. CASE StoredLine(disk.store.lines, Plan[i])
    BY <1>0, <2>1, <2>5, ZenonT(60) DEF LosesNothing
  <2> QED
    BY <2>2, <2>3, <2>4, <2>5
<1>10. OnePlaceEach'
  BY <1>6, <1>7, <1>8, <1>9 DEF OnePlaceEach, Held
<1> QED
  BY <1>5, <1>10, ZenonT(60) DEF CollectionSafe

(* Steps that write nothing to the run directory.                          *)
LEMMA TakeSafe ==
    ASSUME CollectionSafe, NEW w \in Workers, takeItem(w)
    PROVE  CollectionSafe'
<1>1. /\ process = "collecting" /\ jobs[w].at = "idle" /\ jobs \in [Workers -> Jobs]
      /\ disk' = disk /\ sent' = sent /\ answered' = answered /\ UNCHANGED world
      /\ events \in Seq(JournalLine) /\ pending \subseteq DOMAIN Plan
  BY ZenonT(60) DEF takeItem, world, CollectionSafe, CollectionTypes
<1>2. PICK i \in pending :
          IF Plan[i] \in ModelBearing /\ remainingAttemptBudget(Plan[i]) < 1
          THEN Thrown(w)
          ELSE /\ Job(w, [Idle EXCEPT !.at = IF Plan[i] \in Invoking THEN "beginning" ELSE "storing",
                                      !.obs = Plan[i],
                                      !.budget = remainingAttemptBudget(Plan[i])])
               /\ pending' = pending \ {i}
               /\ UNCHANGED <<process, refusal, events, records, completed>>
  BY ZenonT(60) DEF takeItem
<1>3. events' = events /\ records' = records /\ pending' \subseteq pending
      /\ process' \in {"collecting", "ending"}
  BY <1>1, <1>2, ZenonT(60) DEF Thrown
<1>4. /\ RequestsAccounted' /\ StoreKept'
      /\ \A o \in Observations : LeavesAlone(o)
  BY <1>1, <1>3, ZenonT(60) DEF CollectionSafe, RequestsAccounted, StoreKept, StoreSound, EverythingStored, LeavesAlone
<1>5. CASE Thrown(w)
  <2>1. jobs' = [jobs EXCEPT ![w] = Idle] /\ process' = "ending"
    BY <1>5 DEF Thrown, Job
  <2>2. jobs'[w] = Idle /\ Idle.at = "idle" /\ jobs' \in [Workers -> Jobs]
        /\ \A v \in Workers : v # w => jobs'[v] = jobs[v]
    BY <1>1, <2>1 DEF Jobs, Idle
  <2>3. CollectionTypes'
    BY <1>1, <1>3, <2>1, <2>2 DEF CollectionSafe, CollectionTypes
  <2> QED
    BY <1>1, <1>3, <1>4, <2>1, <2>2, <2>3, WorkerSafe
<1>6. CASE ~Thrown(w)
  <2> DEFINE o == Plan[i]
             budget == remainingAttemptBudget(Plan[i])
             at == IF Plan[i] \in Invoking THEN "beginning" ELSE "storing"
             job == [Idle EXCEPT !.at = at, !.obs = o, !.budget = budget]
  <2>1. /\ jobs' = [jobs EXCEPT ![w] = job] /\ pending' = pending \ {i} /\ process' = "collecting"
        /\ ~(o \in ModelBearing /\ budget < 1)
    BY <1>1, <1>2, <1>6 DEF Job
  <2>2. Starts(events, o) \in Nat /\ attemptsFor(o) = Starts(events, o) /\ MaxAttempts \in Nat
    BY <1>1, StartsCounted, CollectionAssumption DEF attemptsFor, Starts
  <2>3. budget = 0 \/ budget = MaxAttempts - Starts(events, o)
    BY <2>2 DEF remainingAttemptBudget
  <2>4. o \in Observations /\ at \in {"beginning", "storing"} /\ budget \in Int
    BY <1>1, <2>2, <2>3 DEF Observations
  <2>5. at = "beginning" => o \in Invoking /\ o \in ModelBearing /\ budget >= 1
    BY <2>1, <2>4, CollectionAssumption
  <2>6. at = "storing" => o \notin Invoking
    OBVIOUS
  <2> HIDE DEF at, budget, o
  <2>7. job \in Jobs /\ job.at = at /\ job.obs = o /\ job.budget = budget /\ job.tries = 0
    <3>1. at \in WorkerSteps
      BY <2>4 DEF WorkerSteps
    <3>2. job \in [at : WorkerSteps, obs : Observations, tries : Nat, budget : Int, transient : BOOLEAN]
      BY <2>4, <3>1, ZenonT(60) DEF Idle
    <3>3. job.at = at /\ job.obs = o /\ job.budget = budget /\ job.tries = 0
      BY DEF Idle
    <3> HIDE DEF job
    <3> QED
      BY <3>2, <3>3 DEF Jobs
  <2> HIDE DEF job
  <2>8. jobs'[w] = job /\ jobs' \in [Workers -> Jobs]
        /\ \A v \in Workers : v # w => jobs'[v] = jobs[v]
    BY <1>1, <2>1, <2>7
  <2>9. CollectionTypes'
    BY <1>1, <1>3, <2>1, <2>8 DEF CollectionSafe, CollectionTypes
  <2>10. Untouched(o) /\ ~StoredLine(disk.store.lines, o)
    BY DEF CollectionSafe, WorkSound, OnePlaceEach, o
  <2>11. JobSound(w)'
    <3>1. CASE at = "beginning"
      <4>1. /\ jobs'[w].at = "beginning" /\ jobs'[w].obs = o /\ jobs'[w].budget = budget /\ jobs'[w].tries = 0
            /\ o \in Invoking /\ budget >= 1
        BY <2>5, <2>7, <2>8, <3>1, ZenonT(60)
      <4>2. budget \in Int /\ 0 < budget /\ 0 <= budget /\ Starts(events, o) + budget = MaxAttempts + 0
        BY <2>2, <2>3, <4>1
      <4> QED
        BY <1>1, <1>3, <2>10, <4>1, <4>2 DEF JobSound, Untouched
    <3>2. CASE at = "storing"
      BY <1>1, <1>3, <2>6, <2>7, <2>8, <2>10, <3>2, ZenonT(60) DEF JobSound, Untouched
    <3> QED
      BY <2>4, <3>1, <3>2, ZenonT(60)
  <2>12. GoesOn(w)
    BY <1>1, <2>1, <2>7, <2>8, <2>10, <2>11, ZenonT(60) DEF GoesOn, o
  <2>13. LosesNothing(w)
    BY <1>1, <2>1, <2>4, <2>7, <2>8 DEF LosesNothing, Held, o
  <2> QED
    BY <1>1, <1>3, <1>4, <2>1, <2>8, <2>9, <2>12, <2>13, WorkerSafe
<1> QED
  BY <1>5, <1>6

LEMMA HeldFacts ==
    ASSUME CollectionSafe, NEW w \in Workers, jobs[w].at # "idle"
    PROVE  /\ jobs[w] \in [at : WorkerSteps, obs : Observations, tries : Nat, budget : Int, transient : BOOLEAN]
           /\ jobs \in [Workers -> Jobs]
           /\ jobs[w].obs \in Observations /\ Held(w) /\ JobSound(w)
           /\ Accounted(disk.journal.lines, jobs[w].obs, sent[jobs[w].obs], answered[jobs[w].obs])
           /\ ~StoredLine(disk.store.lines, jobs[w].obs)
           /\ events \in Seq(JournalLine) /\ disk.journal.lines \in Seq(JournalLine)
           /\ Starts(events, jobs[w].obs) \in Nat
           /\ sent \in [Observations -> Nat] /\ answered \in [Observations -> Nat]
           /\ sent[jobs[w].obs] \in Nat /\ answered[jobs[w].obs] \in Nat
           /\ MaxAttempts \in Nat
<1>1. jobs \in [Workers -> Jobs]
  BY DEF CollectionSafe, CollectionTypes
<1>2. /\ jobs[w] \in [at : WorkerSteps, obs : Observations, tries : Nat, budget : Int, transient : BOOLEAN]
      /\ jobs[w].obs \in Observations
  BY <1>1 DEF Jobs, Idle
<1>3. Held(w) /\ JobSound(w) /\ ~StoredLine(disk.store.lines, jobs[w].obs)
  BY DEF CollectionSafe, WorkSound, OnePlaceEach, Held
<1>4. Accounted(disk.journal.lines, jobs[w].obs, sent[jobs[w].obs], answered[jobs[w].obs])
  BY <1>2 DEF CollectionSafe, RequestsAccounted
<1>5. /\ events \in Seq(JournalLine) /\ disk.journal.lines \in Seq(JournalLine)
      /\ sent \in [Observations -> Nat] /\ answered \in [Observations -> Nat]
  BY ZenonT(60) DEF CollectionSafe, CollectionTypes, RunDirectory, FileOf
<1>6. Starts(events, jobs[w].obs) \in Nat /\ MaxAttempts \in Nat
  BY <1>5, StartsCounted, CollectionAssumption
<1> QED
  BY <1>1, <1>2, <1>3, <1>4, <1>5, <1>6

(* A worker that goes on with its observation at another step.             *)
LEMMA NextJob ==
    ASSUME CollectionSafe, NEW w \in Workers, jobs[w].at # "idle",
           NEW at \in WorkerSteps, NEW tries \in Nat, NEW transient \in BOOLEAN,
           Job(w, [jobs[w] EXCEPT !.at = at, !.tries = tries, !.transient = transient])
    PROVE  /\ jobs' \in [Workers -> Jobs]
           /\ jobs'[w].at = at /\ jobs'[w].obs = jobs[w].obs /\ jobs'[w].budget = jobs[w].budget
           /\ jobs'[w].tries = tries /\ jobs'[w].transient = transient
           /\ jobs'[w].at # "idle"
           /\ \A v \in Workers : v # w => jobs'[v] = jobs[v]
<1> DEFINE job == [jobs[w] EXCEPT !.at = at, !.tries = tries, !.transient = transient]
<1>1. jobs[w] \in [at : WorkerSteps, obs : Observations, tries : Nat, budget : Int, transient : BOOLEAN]
      /\ jobs \in [Workers -> Jobs]
  BY HeldFacts
<1>2. /\ job \in Jobs /\ job.at = at /\ job.obs = jobs[w].obs /\ job.budget = jobs[w].budget
      /\ job.tries = tries /\ job.transient = transient
  BY <1>1, ZenonT(60) DEF Jobs
<1>3. jobs' = [jobs EXCEPT ![w] = job]
  BY DEF Job
<1> HIDE DEF job
<1>4. at # "idle"
  BY DEF WorkerSteps
<1> QED
  BY <1>1, <1>2, <1>3, <1>4

(* A request leaves, within the budget, after its start is on disk.        *)
LEMMA SendSafe ==
    ASSUME CollectionSafe, NEW w \in Workers, send(w)
    PROVE  CollectionSafe'
<1> DEFINE o == jobs[w].obs
<1>1. /\ process = "collecting" /\ process' = process /\ jobs[w].at = "sending"
      /\ disk' = disk /\ events' = events /\ records' = records /\ pending' = pending
      /\ answered' = answered
      /\ sent' = [sent EXCEPT ![o] = @ + 1] /\ Job(w, [jobs[w] EXCEPT !.at = "awaiting"])
  BY DEF send
<1>2. jobs[w].at # "idle"
  BY <1>1
<1>3. /\ o \in Observations /\ Held(w) /\ JobSound(w)
      /\ Accounted(disk.journal.lines, o, sent[o], answered[o])
      /\ ~StoredLine(disk.store.lines, o)
      /\ Starts(events, o) \in Nat /\ sent \in [Observations -> Nat] /\ answered[o] \in Nat
      /\ jobs[w].tries \in Nat /\ jobs[w].transient \in BOOLEAN /\ jobs[w].budget \in Int
      /\ MaxAttempts \in Nat
      /\ jobs[w] \in [at : WorkerSteps, obs : Observations, tries : Nat, budget : Int, transient : BOOLEAN]
  BY <1>2, HeldFacts, ZenonT(60)
<1>4. /\ jobs' \in [Workers -> Jobs]
      /\ jobs'[w].at = "awaiting" /\ jobs'[w].obs = o /\ jobs'[w].budget = jobs[w].budget
      /\ jobs'[w].tries = jobs[w].tries /\ jobs'[w].transient = jobs[w].transient
      /\ \A v \in Workers : v # w => jobs'[v] = jobs[v]
  <2>1. [jobs[w] EXCEPT !.at = "awaiting"]
          = [jobs[w] EXCEPT !.at = "awaiting", !.tries = jobs[w].tries, !.transient = jobs[w].transient]
    BY <1>3, ZenonT(60)
  <2>2. "awaiting" \in WorkerSteps /\ jobs[w].tries \in Nat /\ jobs[w].transient \in BOOLEAN
    BY <1>3 DEF WorkerSteps
  <2>3. Job(w, [jobs[w] EXCEPT !.at = "awaiting", !.tries = jobs[w].tries, !.transient = jobs[w].transient])
    BY <1>1, <2>1, ZenonT(60) DEF Job
  <2> QED
    BY <1>2, <2>2, <2>3, NextJob, ZenonT(60)
<1> HIDE DEF o
<1>5. /\ sent' \in [Observations -> Nat] /\ sent'[o] = sent[o] + 1 /\ sent[o] \in Nat
      /\ \A p \in Observations : p # o => sent'[p] = sent[p]
  BY <1>1, <1>3
<1>6. /\ Starts(events, o) = sent[o] + 1 /\ Starts(disk.journal.lines, o) = sent[o] + 1
      /\ sent[o] + 1 <= MaxAttempts /\ answered[o] = 0 /\ o \in Invoking
      /\ InDoubt(disk.journal.lines, o)
  <2>1. /\ Starts(events, o) = Starts(disk.journal.lines, o) /\ o \in Invoking
        /\ Starts(events, o) + jobs[w].budget = MaxAttempts + jobs[w].tries
        /\ jobs[w].tries <= jobs[w].budget
        /\ Starts(events, o) = sent[o] + 1 /\ answered[o] = 0
    BY <1>1, <1>3 DEF JobSound, o
  <2> QED
    <3>1. sent[o] + 1 <= MaxAttempts
      <4>1. /\ Starts(events, o) \in Nat /\ jobs[w].budget \in Int /\ jobs[w].tries \in Nat
            /\ MaxAttempts \in Nat /\ sent[o] \in Nat
        BY <1>3, <1>5, ZenonT(60)
      <4> QED
        BY <2>1, <4>1
    <3>2. InDoubt(disk.journal.lines, o)
      <4>1. InDoubt(disk.journal.lines, o) \/ sent[o] = Starts(disk.journal.lines, o)
        BY <1>3, ZenonT(60) DEF Accounted
      <4>2. sent[o] \in Nat /\ Starts(disk.journal.lines, o) = sent[o] + 1
        BY <1>5, <2>1, ZenonT(60)
      <4>3. sent[o] # sent[o] + 1
        BY <4>2
      <4> QED
        BY <4>1, <4>2, <4>3, ZenonT(60)
    <3> QED
      BY <2>1, <3>1, <3>2, ZenonT(60)
<1>7. RequestsAccounted'
  <2>1. ASSUME NEW p \in Observations
        PROVE  Accounted(disk.journal.lines, p, sent'[p], answered[p])
    <3>1. CASE p = o
      <4>1. /\ sent'[o] = sent[o] + 1 /\ sent[o] \in Nat /\ answered[o] = 0
            /\ sent'[o] <= Starts(disk.journal.lines, o) /\ sent'[o] <= MaxAttempts
        BY <1>5, <1>6
      <4>2. answered[o] <= 1 /\ answered[o] <= sent'[o]
        BY <4>1
      <4> QED
        BY <1>3, <1>6, <3>1, <4>1, <4>2, ZenonT(60) DEF Accounted
    <3>2. CASE p # o
      BY <1>5, <3>2 DEF CollectionSafe, RequestsAccounted
    <3> QED
      BY <3>1, <3>2, ZenonT(60)
  <2> QED
    BY <1>1, <2>1 DEF RequestsAccounted
<1>8. StoreKept'
  <2>1. disk.store.lines \in Seq(StoreLine)
    BY DEF CollectionSafe, CollectionTypes, RunDirectory, FileOf
  <2>2. \A k \in DOMAIN disk.store.lines :
           disk.store.lines[k].obs \in Observations /\ disk.store.lines[k].obs # o
    <3>1. \A k \in DOMAIN disk.store.lines : disk.store.lines[k] \in StoreLine
      BY <2>1
    <3> QED
      BY <1>3, <3>1 DEF StoreLine, StoredLine
  <2>3. \A k \in DOMAIN disk.store.lines : sent'[disk.store.lines[k].obs] = sent[disk.store.lines[k].obs]
    BY <1>5, <2>2
  <2>4. StoreSound(disk.store.lines)'
    BY <1>1, <2>3 DEF CollectionSafe, StoreKept, StoreSound
  <2> QED
    BY <1>1, <2>4 DEF CollectionSafe, StoreKept, EverythingStored
<1>9. CollectionTypes'
  BY <1>1, <1>4, <1>5 DEF CollectionSafe, CollectionTypes
<1>10. \A p \in Observations : ~Holds(w, p) => LeavesAlone(p)
  BY <1>1, <1>3, <1>5 DEF Holds, LeavesAlone, o
<1>11. JobSound(w)'
  <2>1. /\ Starts(events, o) + jobs[w].budget = MaxAttempts + jobs[w].tries
        /\ jobs[w].tries <= jobs[w].budget
    BY <1>1, <1>3 DEF JobSound, o
  <2> QED
    BY <1>1, <1>4, <1>5, <1>6, <2>1 DEF JobSound
<1>12. GoesOn(w)
  BY <1>1, <1>3, <1>4, <1>11 DEF GoesOn, Holds, o
<1>13. LosesNothing(w)
  BY <1>1, <1>4, ZenonT(60) DEF LosesNothing, o
<1> QED
  BY <1>1, <1>4, <1>7, <1>8, <1>9, <1>10, <1>12, <1>13, WorkerSafe

(* An answer comes once: what has been answered is not sent again.         *)
LEMMA RepliedSafe ==
    ASSUME CollectionSafe, NEW w \in Workers, replied(w)
    PROVE  CollectionSafe'
<1> DEFINE o == jobs[w].obs
<1>1. /\ process = "collecting" /\ process' = process /\ jobs[w].at = "awaiting"
      /\ disk' = disk /\ events' = events /\ records' = records /\ pending' = pending
      /\ sent' = sent
  BY ZenonT(60) DEF replied
<1>2. jobs[w].at # "idle"
  BY <1>1
<1>3. /\ o \in Observations /\ Held(w) /\ JobSound(w)
      /\ Accounted(disk.journal.lines, o, sent[o], answered[o])
      /\ ~StoredLine(disk.store.lines, o)
      /\ sent[o] \in Nat /\ answered \in [Observations -> Nat]
      /\ jobs[w].tries \in Nat /\ jobs[w].transient \in BOOLEAN /\ jobs[w].budget \in Int
      /\ jobs[w] \in [at : WorkerSteps, obs : Observations, tries : Nat, budget : Int, transient : BOOLEAN]
  BY <1>2, HeldFacts, ZenonT(60)
<1>4. /\ Starts(events, o) = Starts(disk.journal.lines, o) /\ Starts(events, o) = sent[o]
      /\ Starts(events, o) + jobs[w].budget = MaxAttempts + jobs[w].tries
      /\ jobs[w].tries <= jobs[w].budget /\ o \in Invoking
      /\ InDoubt(disk.journal.lines, o) /\ sent[o] > 0 /\ answered[o] = 0
  BY <1>1, <1>3, ZenonT(60) DEF JobSound
<1>5. PICK at \in {"answered", "failing"}, transient \in BOOLEAN :
          /\ Job(w, [jobs[w] EXCEPT !.at = at, !.tries = jobs[w].tries, !.transient = transient])
          /\ answered' = IF at = "answered" THEN [answered EXCEPT ![o] = @ + 1] ELSE answered
  <2>1. CASE answered' = [answered EXCEPT ![o] = @ + 1] /\ Job(w, [jobs[w] EXCEPT !.at = "answered"])
    <3>1. [jobs[w] EXCEPT !.at = "answered"]
            = [jobs[w] EXCEPT !.at = "answered", !.tries = jobs[w].tries, !.transient = jobs[w].transient]
      BY <1>3, ZenonT(60)
    <3> QED
      BY <1>3, <2>1, <3>1, ZenonT(60)
  <2>2. ASSUME NEW transient \in BOOLEAN, answered' = answered,
               Job(w, [jobs[w] EXCEPT !.at = "failing", !.transient = transient])
        PROVE  /\ Job(w, [jobs[w] EXCEPT !.at = "failing", !.tries = jobs[w].tries, !.transient = transient])
               /\ answered' = answered
    <3>1. [jobs[w] EXCEPT !.at = "failing", !.transient = transient]
            = [jobs[w] EXCEPT !.at = "failing", !.tries = jobs[w].tries, !.transient = transient]
      BY <1>3, ZenonT(60)
    <3> QED
      BY <2>2, <3>1
  <2> QED
    BY <2>1, <2>2, ZenonT(60) DEF replied
<1>6. /\ jobs' \in [Workers -> Jobs] /\ jobs'[w].at = at /\ jobs'[w].obs = o
      /\ jobs'[w].budget = jobs[w].budget /\ jobs'[w].tries = jobs[w].tries
      /\ jobs'[w].transient = transient /\ jobs'[w].at # "idle"
      /\ \A v \in Workers : v # w => jobs'[v] = jobs[v]
  <2>1. at \in WorkerSteps
    BY DEF WorkerSteps
  <2> QED
    BY <1>2, <1>3, <1>5, <2>1, NextJob, ZenonT(60)
<1> HIDE DEF o
<1>7. /\ answered' \in [Observations -> Nat] /\ answered'[o] = IF at = "answered" THEN 1 ELSE 0
      /\ \A p \in Observations : p # o => answered'[p] = answered[p]
  BY <1>3, <1>4, <1>5
<1>8. RequestsAccounted'
  <2>1. ASSUME NEW p \in Observations
        PROVE  Accounted(disk.journal.lines, p, sent[p], answered'[p])
    <3>1. CASE p = o
      <4>1. answered'[p] <= 1 /\ answered'[p] <= sent[p]
        BY <1>3, <1>4, <1>7, <3>1
      <4> QED
        BY <1>3, <1>4, <3>1, <4>1, ZenonT(60) DEF Accounted
    <3>2. CASE p # o
      BY <1>7, <3>2, ZenonT(60) DEF CollectionSafe, RequestsAccounted
    <3> QED
      BY <3>1, <3>2
  <2> QED
    BY <1>1, <2>1 DEF RequestsAccounted
<1>9. StoreKept'
  <2>1. disk.store.lines \in Seq(StoreLine)
    BY DEF CollectionSafe, CollectionTypes, RunDirectory, FileOf
  <2>2. \A k \in DOMAIN disk.store.lines :
           disk.store.lines[k].obs \in Observations /\ disk.store.lines[k].obs # o
    <3>1. \A k \in DOMAIN disk.store.lines : disk.store.lines[k] \in StoreLine
      BY <2>1
    <3> QED
      BY <1>3, <3>1 DEF StoreLine, StoredLine
  <2>3. \A k \in DOMAIN disk.store.lines :
           answered'[disk.store.lines[k].obs] = answered[disk.store.lines[k].obs]
    BY <1>7, <2>2, ZenonT(60)
  <2>4. StoreSound(disk.store.lines)'
    BY <1>1, <2>3 DEF CollectionSafe, StoreKept, StoreSound
  <2> QED
    BY <1>1, <2>4 DEF CollectionSafe, StoreKept, EverythingStored
<1>10. CollectionTypes'
  BY <1>1, <1>6, <1>7, ZenonT(60) DEF CollectionSafe, CollectionTypes
<1>11. \A p \in Observations : ~Holds(w, p) => LeavesAlone(p)
  BY <1>1, <1>3, <1>7, ZenonT(60) DEF Holds, LeavesAlone, o
<1>12. JobSound(w)'
  <2>1. CASE at = "answered"
    BY <1>1, <1>4, <1>6, <1>7, <2>1, ZenonT(60) DEF JobSound
  <2>2. CASE at = "failing"
    BY <1>1, <1>4, <1>6, <1>7, <2>2, ZenonT(60) DEF JobSound
  <2> QED
    BY <2>1, <2>2, ZenonT(60)
<1>13. GoesOn(w)
  BY <1>1, <1>3, <1>6, <1>12, ZenonT(60) DEF GoesOn, Holds, o
<1>14. LosesNothing(w)
  BY <1>1, <1>6, ZenonT(60) DEF LosesNothing, o
<1> QED
  BY <1>1, <1>6, <1>8, <1>9, <1>10, <1>11, <1>13, <1>14, WorkerSafe, ZenonT(60)

-----------------------------------------------------------------------------
(* Steps that write to the run directory.                                  *)

(* After a throw the worker has nothing, and the run is not summarized by  *)
(* this process.                                                           *)
LEMMA ThrownSafe ==
    ASSUME CollectionSafe, NEW w \in Workers, process = "collecting", jobs[w].at # "idle", Thrown(w),
           UNCHANGED world, DiskSound',
           \A o \in Observations : o # jobs[w].obs =>
              /\ Starts(disk'.journal.lines, o) = Starts(disk.journal.lines, o)
              /\ InDoubt(disk.journal.lines, o) => InDoubt(disk'.journal.lines, o)
              /\ StoredLine(disk'.store.lines, o) => StoredLine(disk.store.lines, o),
           records \subseteq Range(disk'.store.lines)
    PROVE  CollectionSafe'
<1>1. /\ process' = "ending" /\ jobs' = [jobs EXCEPT ![w] = Idle] /\ events' = events
      /\ records' = records /\ pending' = pending /\ sent' = sent /\ answered' = answered
  BY DEF Thrown, Job, world
<1>2. jobs \in [Workers -> Jobs] /\ Held(w)
  BY HeldFacts, ZenonT(60)
<1>3. /\ jobs'[w] = Idle /\ jobs'[w].at = "idle" /\ jobs' \in [Workers -> Jobs]
      /\ \A v \in Workers : v # w => jobs'[v] = jobs[v]
  BY <1>1, <1>2, ZenonT(60) DEF Jobs, Idle
<1>4. CollectionTypes'
  BY <1>1, <1>3, ZenonT(60) DEF CollectionSafe, CollectionTypes, DiskSound
<1>5. RequestsAccounted' /\ StoreKept'
  BY <1>1, ZenonT(60) DEF DiskSound, StoreKept
<1>6. \A o \in Observations : ~Holds(w, o) => LeavesAlone(o)
  BY <1>1, <1>2, ZenonT(60) DEF Holds, LeavesAlone
<1> QED
  BY <1>1, <1>3, <1>4, <1>5, <1>6, WorkerSafe, ZenonT(60)

(* A line about one observation, on disk or not, leaves the others alone.  *)
LEMMA LineLeavesOthers ==
    ASSUME CollectionSafe, NEW e, LineInOrder(disk.journal.lines, e),
           disk'.journal.lines \in {disk.journal.lines, Append(disk.journal.lines, e)},
           NEW o \in Observations, o # e.obs
    PROVE  /\ Starts(disk'.journal.lines, o) = Starts(disk.journal.lines, o)
           /\ InDoubt(disk.journal.lines, o) => InDoubt(disk'.journal.lines, o)
<1>1. e \in JournalLine /\ disk.journal.lines \in Seq(JournalLine)
  BY DEF LineInOrder, CollectionSafe, CollectionTypes, RunDirectory, FileOf
<1> QED
  BY <1>1, OtherLine, ZenonT(60)

(* A start, an answer or a failure is on disk and in memory.               *)
LEMMA AppendSafe ==
    ASSUME CollectionSafe, NEW w \in Workers, appendEvent(w)
    PROVE  CollectionSafe'
<1> DEFINE o == jobs[w].obs
           e == NextEvent(jobs[w])
           journal == disk.journal.lines
<1>1. /\ process = "collecting" /\ Journalling(w) /\ UNCHANGED world
      /\ sent' = sent /\ answered' = answered
      /\ disk' = [disk EXCEPT !.journal = Appended(disk.journal, e)]
  BY DEF appendEvent, world
<1>2. jobs[w].at \in {"beginning", "answered", "failing"} /\ jobs[w].at # "idle"
  BY <1>1 DEF Journalling
<1>3. /\ LineInOrder(journal, e) /\ e \in JournalLine /\ e.obs = o
      /\ (jobs[w].at = "beginning" <=> e.type = "started")
  BY <1>1, EventInOrder DEF LineInOrder
<1>4. /\ o \in Observations /\ Held(w) /\ JobSound(w) /\ ~StoredLine(disk.store.lines, o)
      /\ Accounted(journal, o, sent[o], answered[o])
      /\ events \in Seq(JournalLine) /\ journal \in Seq(JournalLine)
      /\ Starts(events, o) \in Nat
      /\ jobs[w].tries \in Nat /\ jobs[w].transient \in BOOLEAN /\ jobs[w].budget \in Int
      /\ jobs[w] \in [at : WorkerSteps, obs : Observations, tries : Nat, budget : Int, transient : BOOLEAN]
  BY <1>2, HeldFacts, ZenonT(60)
<1>5. /\ Appended(disk.journal, e) \in FileOf(JournalLine)
      /\ Appended(disk.journal, e).lines = Append(journal, e)
  <2>1. disk.journal \in FileOf(JournalLine)
    BY DEF CollectionSafe, CollectionTypes, RunDirectory
  <2> QED
    BY <1>3, <2>1, FileAppended
<1>6. /\ DiskSound' /\ disk'.store = disk.store /\ disk'.summary = disk.summary
      /\ disk'.journal.lines = Append(journal, e)
  BY <1>1, <1>3, <1>5, JournalWritten, ZenonT(60)
<1> HIDE DEF o, e, journal
<1>7. ASSUME NEW p \in Observations, p # o
      PROVE  /\ Starts(disk'.journal.lines, p) = Starts(disk.journal.lines, p)
             /\ InDoubt(disk.journal.lines, p) => InDoubt(disk'.journal.lines, p)
             /\ StoredLine(disk'.store.lines, p) => StoredLine(disk.store.lines, p)
  BY <1>3, <1>6, <1>7, LineLeavesOthers, ZenonT(60) DEF journal
<1>8. CASE Rethrown(jobs[w])
  <2>1. Thrown(w)
    BY <1>8, ZenonT(60) DEF appendEvent
  <2>2. records \subseteq Range(disk'.store.lines)
    BY <1>6 DEF CollectionSafe, StoreKept
  <2> QED
    BY <1>1, <1>2, <1>6, <1>7, <2>1, <2>2, ThrownSafe DEF o
<1>9. CASE ~Rethrown(jobs[w])
  <2>1. /\ events' = Append(events, e) /\ Job(w, AfterEvent(jobs[w])) /\ process' = process
        /\ records' = records /\ pending' = pending
    BY <1>9 DEF appendEvent, e
  <2> DEFINE at == IF jobs[w].at = "beginning" THEN "sending"
                   ELSE IF jobs[w].at = "answered" THEN "storing" ELSE "beginning"
             tries == IF jobs[w].at = "beginning" THEN jobs[w].tries + 1 ELSE jobs[w].tries
  <2>2. AfterEvent(jobs[w]) = [jobs[w] EXCEPT !.at = at, !.tries = tries, !.transient = jobs[w].transient]
    <3>1. CASE jobs[w].at = "beginning"
      <4>1. AfterEvent(jobs[w]) = [jobs[w] EXCEPT !.at = "sending", !.tries = @ + 1]
        BY <3>1 DEF AfterEvent
      <4> QED
        BY <1>4, <3>1, <4>1, ZenonT(60)
    <3>2. CASE jobs[w].at = "answered"
      <4>1. AfterEvent(jobs[w]) = [jobs[w] EXCEPT !.at = "storing"]
        BY <3>2 DEF AfterEvent
      <4> QED
        BY <1>4, <3>2, <4>1, ZenonT(60)
    <3>3. CASE jobs[w].at = "failing"
      <4>1. AfterEvent(jobs[w]) = [jobs[w] EXCEPT !.at = "beginning"]
        BY <3>3 DEF AfterEvent
      <4> QED
        BY <1>4, <3>3, <4>1, ZenonT(60)
    <3> QED
      BY <1>2, <3>1, <3>2, <3>3
  <2>3. at \in WorkerSteps /\ tries \in Nat
    BY <1>4 DEF WorkerSteps
  <2>4. Job(w, [jobs[w] EXCEPT !.at = at, !.tries = tries, !.transient = jobs[w].transient])
    BY <2>1, <2>2 DEF Job
  <2>5. /\ (jobs[w].at = "beginning" => at = "sending" /\ tries = jobs[w].tries + 1)
        /\ (jobs[w].at = "answered" => at = "storing" /\ tries = jobs[w].tries)
        /\ (jobs[w].at = "failing" => at = "beginning" /\ tries = jobs[w].tries)
    OBVIOUS
  <2> HIDE DEF at, tries
  <2>6. /\ jobs' \in [Workers -> Jobs] /\ jobs'[w].at = at /\ jobs'[w].obs = o
        /\ jobs'[w].budget = jobs[w].budget /\ jobs'[w].tries = tries
        /\ jobs'[w].transient = jobs[w].transient /\ jobs'[w].at # "idle"
        /\ \A v \in Workers : v # w => jobs'[v] = jobs[v]
    BY <1>2, <1>4, <2>3, <2>4, NextJob, ZenonT(60) DEF o
  <2>7. events' \in Seq(JournalLine)
    BY <1>3, <1>4, <2>1, LineAppended
  <2>8. CollectionTypes'
    BY <1>1, <1>6, <2>1, <2>6, <2>7, ZenonT(60) DEF CollectionSafe, CollectionTypes, DiskSound
  <2>9. RequestsAccounted' /\ StoreKept'
    BY <1>6, <2>1, ZenonT(60) DEF CollectionSafe, DiskSound, StoreKept
  <2>10. \A p \in Observations : p # o => Starts(events', p) = Starts(events, p)
    BY <1>3, <1>4, <2>1, OtherLine, ZenonT(60)
  <2>11. \A p \in Observations : ~Holds(w, p) => LeavesAlone(p)
    BY <1>1, <1>4, <1>7, <2>10, ZenonT(60) DEF Holds, LeavesAlone, o
  <2>12. /\ Starts(events', o) = IF jobs[w].at = "beginning" THEN Starts(events, o) + 1 ELSE Starts(events, o)
         /\ Starts(disk'.journal.lines, o) = Starts(events', o)
    <3>1. Starts(journal, o) = Starts(events, o)
      BY <1>4, ZenonT(60) DEF JobSound, journal, o
    <3>2. CASE e.type = "started"
      BY <1>3, <1>4, <1>6, <2>1, <3>1, <3>2, StartCounted, ZenonT(60)
    <3>3. CASE e.type # "started"
      <4>1. /\ Starts(Append(journal, e), o) = Starts(journal, o)
            /\ Starts(Append(events, e), o) = Starts(events, o)
        BY <1>3, <1>4, <3>3, EndLine, ZenonT(60)
      <4> QED
        BY <1>3, <1>6, <2>1, <3>1, <3>3, <4>1, ZenonT(60)
    <3> QED
      BY <3>2, <3>3, ZenonT(60)
  <2>13. /\ o \in Invoking /\ Starts(events, o) = sent[o]
         /\ Starts(events, o) + jobs[w].budget = MaxAttempts + jobs[w].tries
         /\ jobs[w].tries <= jobs[w].budget
         /\ (jobs[w].at = "beginning" => jobs[w].tries < jobs[w].budget /\ answered[o] = 0)
         /\ (jobs[w].at = "answered" => answered[o] = 1)
         /\ (jobs[w].at = "failing" => jobs[w].tries < jobs[w].budget /\ answered[o] = 0)
    <3>1. jobs[w].at # "storing" /\ jobs[w].at # "sending"
      BY <1>2
    <3>2. jobs[w].at = "failing" => jobs[w].transient /\ jobs[w].tries < jobs[w].budget
      BY <1>4, <1>9 DEF Rethrown
    <3> QED
      BY <1>2, <1>4, <3>1, <3>2, ZenonT(60) DEF JobSound, o
  <2>14. JobSound(w)'
    <3>1. CASE jobs[w].at = "beginning"
      <4>1. /\ at = "sending" /\ tries = jobs[w].tries + 1
            /\ Starts(events', o) = sent[o] + 1
            /\ Starts(events', o) + jobs[w].budget = MaxAttempts + tries
            /\ tries <= jobs[w].budget
        <5>1. /\ at = "sending" /\ tries = jobs[w].tries + 1
              /\ Starts(events', o) = Starts(events, o) + 1
          BY <2>5, <2>12, <3>1, ZenonT(60)
        <5>2. /\ Starts(events, o) = sent[o] /\ jobs[w].tries < jobs[w].budget
              /\ Starts(events, o) + jobs[w].budget = MaxAttempts + jobs[w].tries
          BY <2>13, <3>1, ZenonT(60)
        <5>3. Starts(events, o) \in Nat /\ jobs[w].tries \in Nat /\ jobs[w].budget \in Int /\ MaxAttempts \in Nat
          BY <1>4, CollectionAssumption
        <5> QED
          BY <5>1, <5>2, <5>3
      <4> QED
        BY <1>1, <2>6, <2>12, <2>13, <3>1, <4>1, ZenonT(60) DEF JobSound
    <3>2. CASE jobs[w].at = "answered"
      BY <1>1, <2>5, <2>6, <2>12, <2>13, <3>2 DEF JobSound
    <3>3. CASE jobs[w].at = "failing"
      BY <1>1, <2>5, <2>6, <2>12, <2>13, <3>3 DEF JobSound
    <3> QED
      BY <1>2, <3>1, <3>2, <3>3
  <2>15. GoesOn(w)
    BY <1>4, <1>6, <2>6, <2>14, ZenonT(60) DEF GoesOn, Holds, o
  <2>16. LosesNothing(w)
    BY <1>6, <2>1, <2>6 DEF LosesNothing, o
  <2> QED
    BY <1>1, <2>1, <2>6, <2>8, <2>9, <2>11, <2>15, <2>16, WorkerSafe
<1> QED
  BY <1>8, <1>9

(* An append that fails leaves memory alone, whatever is on disk.          *)
LEMMA AppendFailsSafe ==
    ASSUME CollectionSafe, NEW w \in Workers, appendEventFails(w)
    PROVE  CollectionSafe'
<1> DEFINE o == jobs[w].obs
           e == NextEvent(jobs[w])
<1>1. /\ process = "collecting" /\ Journalling(w) /\ UNCHANGED world
      /\ sent' = sent /\ answered' = answered
  BY DEF appendEventFails, world
<1>2. PICK f \in Unacknowledged(disk.journal, e) : disk' = [disk EXCEPT !.journal = f]
  BY DEF appendEventFails
<1>3. jobs[w].at \in {"beginning", "answered", "failing"} /\ jobs[w].at # "idle"
  BY <1>1, ZenonT(60) DEF Journalling
<1>4. /\ LineInOrder(disk.journal.lines, e) /\ e \in JournalLine /\ e.obs = o
      /\ (jobs[w].at = "beginning" <=> e.type = "started")
  BY <1>1, EventInOrder DEF LineInOrder
<1>5. /\ o \in Observations /\ Held(w) /\ JobSound(w) /\ ~StoredLine(disk.store.lines, o)
      /\ disk.journal.lines \in Seq(JournalLine)
      /\ jobs[w].tries \in Nat
      /\ jobs[w] \in [at : WorkerSteps, obs : Observations, tries : Nat, budget : Int, transient : BOOLEAN]
  BY <1>3, HeldFacts, ZenonT(60)
<1>6. f \in FileOf(JournalLine) /\ f.lines \in {disk.journal.lines, Append(disk.journal.lines, e)}
  <2>1. disk.journal \in FileOf(JournalLine)
    BY DEF CollectionSafe, CollectionTypes, RunDirectory
  <2> QED
    BY <1>4, <2>1, FileUnacknowledged
<1>7. /\ DiskSound' /\ disk'.store = disk.store /\ disk'.summary = disk.summary
      /\ disk'.journal.lines = f.lines
  BY <1>1, <1>2, <1>4, <1>6, JournalWritten, ZenonT(60)
<1> HIDE DEF o, e
<1>8. ASSUME NEW p \in Observations, p # o
      PROVE  /\ Starts(disk'.journal.lines, p) = Starts(disk.journal.lines, p)
             /\ InDoubt(disk.journal.lines, p) => InDoubt(disk'.journal.lines, p)
             /\ StoredLine(disk'.store.lines, p) => StoredLine(disk.store.lines, p)
  BY <1>4, <1>6, <1>7, <1>8, LineLeavesOthers, ZenonT(60)
<1>9. CASE jobs[w].at # "answered"
  <2>1. Thrown(w)
    BY <1>9, ZenonT(60) DEF appendEventFails
  <2>2. records \subseteq Range(disk'.store.lines)
    BY <1>7 DEF CollectionSafe, StoreKept
  <2> QED
    BY <1>1, <1>3, <1>7, <1>8, <2>1, <2>2, ThrownSafe, ZenonT(60) DEF o
<1>10. CASE jobs[w].at = "answered"
  <2>1. /\ Job(w, [jobs[w] EXCEPT !.at = "failing", !.transient = FALSE])
        /\ process' = process /\ events' = events /\ records' = records /\ pending' = pending
    BY <1>10, ZenonT(60) DEF appendEventFails
  <2>2. /\ jobs' \in [Workers -> Jobs] /\ jobs'[w].at = "failing" /\ jobs'[w].obs = o
        /\ jobs'[w].budget = jobs[w].budget /\ jobs'[w].tries = jobs[w].tries
        /\ jobs'[w].transient = FALSE /\ jobs'[w].at # "idle"
        /\ \A v \in Workers : v # w => jobs'[v] = jobs[v]
    <3>1. [jobs[w] EXCEPT !.at = "failing", !.transient = FALSE]
            = [jobs[w] EXCEPT !.at = "failing", !.tries = jobs[w].tries, !.transient = FALSE]
      BY <1>5, ZenonT(60)
    <3>2. "failing" \in WorkerSteps
      BY DEF WorkerSteps
    <3>3. Job(w, [jobs[w] EXCEPT !.at = "failing", !.tries = jobs[w].tries, !.transient = FALSE])
      BY <2>1, <3>1, ZenonT(60) DEF Job
    <3> QED
      BY <1>3, <1>5, <3>2, <3>3, NextJob, ZenonT(60) DEF o
  <2>3. CollectionTypes'
    BY <1>1, <1>7, <2>1, <2>2 DEF CollectionSafe, CollectionTypes, DiskSound
  <2>4. RequestsAccounted' /\ StoreKept'
    BY <1>7, <2>1 DEF CollectionSafe, DiskSound, StoreKept
  <2>5. \A p \in Observations : ~Holds(w, p) => LeavesAlone(p)
    BY <1>1, <1>5, <1>8, <2>1 DEF Holds, LeavesAlone, o
  <2>6. Starts(disk'.journal.lines, o) = Starts(disk.journal.lines, o)
    <3>1. e.type # "started"
      BY <1>4, <1>10, ZenonT(60)
    <3>2. Starts(Append(disk.journal.lines, e), o) = Starts(disk.journal.lines, o)
      BY <1>4, <1>5, <3>1, EndLine
    <3> QED
      BY <1>6, <1>7, <3>2, ZenonT(60)
  <2>7. JobSound(w)'
    <3>1. /\ Starts(events, o) = Starts(disk.journal.lines, o) /\ o \in Invoking
          /\ Starts(events, o) + jobs[w].budget = MaxAttempts + jobs[w].tries
          /\ jobs[w].tries <= jobs[w].budget /\ Starts(events, o) = sent[o]
      BY <1>5, <1>10, ZenonT(60) DEF JobSound, o
    <3> QED
      BY <1>1, <2>1, <2>2, <2>6, <3>1, ZenonT(60) DEF JobSound
  <2>8. GoesOn(w)
    BY <1>5, <1>7, <2>2, <2>7, ZenonT(60) DEF GoesOn, Holds, o
  <2>9. LosesNothing(w)
    BY <1>7, <2>1, <2>2 DEF LosesNothing, o
  <2> QED
    BY <1>1, <2>1, <2>2, <2>3, <2>4, <2>5, <2>8, <2>9, WorkerSafe
<1> QED
  BY <1>9, <1>10

-----------------------------------------------------------------------------
(* The store.                                                              *)

(* An append adds one place at the end and leaves the others as they are.  *)
GrownBy(after, before, line) ==
    /\ DOMAIN after = DOMAIN before \cup {Len(before) + 1}
    /\ after[Len(before) + 1] = line
    /\ \A k \in DOMAIN before : after[k] = before[k]

LEMMA AppendedPlaces ==
    ASSUME NEW S, NEW lines \in Seq(S), NEW line \in S
    PROVE  GrownBy(Append(lines, line), lines, line)
    BY DEF GrownBy

LEMMA AppendedLines ==
    ASSUME NEW S, NEW lines \in Seq(S), NEW line \in S
    PROVE  Append(lines, line) \in Seq(S)
    OBVIOUS

LEMMA ObservationsCounted ==
    IsFiniteSet(Observations) /\ Cardinality(Observations) = Len(Plan)
<1>1. /\ DOMAIN Plan = 1 .. Len(Plan) /\ Len(Plan) \in Nat
      /\ \A i, j \in DOMAIN Plan : Plan[i] = Plan[j] => i = j
  BY CollectionAssumption
<1>2. IsFiniteSet(1 .. Len(Plan)) /\ Cardinality(1 .. Len(Plan)) = Len(Plan)
  BY <1>1, FS_Interval
<1> DEFINE place == [i \in 1 .. Len(Plan) |-> Plan[i]]
<1>3. place \in Bijection(1 .. Len(Plan), Observations)
  BY <1>1 DEF Bijection, Injection, Surjection, IsInjective, Observations
<1> QED
  BY <1>2, <1>3, FS_Bijection DEF ExistsBijection

(* As many records as the plan has places are one for each observation.    *)
LEMMA CompleteIsEverything ==
    ASSUME NEW lines \in Seq(StoreLine), StoreSound(lines),
           NEW stored, stored \subseteq Range(lines), Complete(stored)
    PROVE  EverythingStored(lines)
<1> DEFINE place == [r \in stored |-> r.obs]
<1>1. \A k \in DOMAIN lines : lines[k].obs \in Observations
  <2>1. \A k \in DOMAIN lines : lines[k] \in StoreLine
    OBVIOUS
  <2> QED
    BY <2>1 DEF StoreLine
<1>2. \A r \in stored : \E k \in DOMAIN lines : r = lines[k]
  BY DEF Range
<1>3. place \in Injection(stored, Observations)
  <2>1. \A r \in stored : r.obs \in Observations
    BY <1>1, <1>2
  <2>2. ASSUME NEW r \in stored, NEW q \in stored, r.obs = q.obs
        PROVE  r = q
    BY <1>2, <2>2 DEF StoreSound
  <2> QED
    BY <2>1, <2>2 DEF Injection, IsInjective
<1>4. place \in Surjection(stored, Observations)
  BY <1>3, ObservationsCounted, FS_Injection DEF Complete
<1>5. \A o \in Observations : \E r \in stored : r.obs = o
  BY <1>4, ZenonT(60) DEF Surjection
<1> QED
  BY <1>2, <1>5 DEF EverythingStored, StoredLine

(* A store that has every observation has each once.                       *)
LEMMA EverythingIsOnce ==
    ASSUME NEW lines \in Seq(StoreLine), StoreSound(lines), EverythingStored(lines)
    PROVE  Len(lines) = Len(Plan) /\ {r.obs : r \in Range(lines)} = Observations
<1>1. \A k \in DOMAIN lines : lines[k].obs \in Observations
  <2>1. \A k \in DOMAIN lines : lines[k] \in StoreLine
    OBVIOUS
  <2> QED
    BY <2>1 DEF StoreLine
<1>2. DOMAIN lines = 1 .. Len(lines) /\ Len(lines) \in Nat
  OBVIOUS
<1> DEFINE place == [k \in 1 .. Len(lines) |-> lines[k].obs]
<1>3. place \in Bijection(1 .. Len(lines), Observations)
  BY <1>1, <1>2 DEF Bijection, Injection, Surjection, IsInjective, StoreSound, EverythingStored, StoredLine
<1>4. IsFiniteSet(1 .. Len(lines)) /\ Cardinality(1 .. Len(lines)) = Len(lines)
  BY <1>2, FS_Interval
<1>5. Cardinality(Observations) = Len(lines)
  BY <1>3, <1>4, FS_Bijection DEF ExistsBijection
<1>6. {r.obs : r \in Range(lines)} = Observations
  BY <1>1, ZenonT(60) DEF Range, EverythingStored, StoredLine
<1> QED
  BY <1>5, <1>6, ObservationsCounted

(* The store with the record of a worker's observation at its end.         *)
LEMMA RecordAppended ==
    ASSUME CollectionSafe, NEW w \in Workers, jobs[w].at = "storing",
           disk'.store.lines \in {disk.store.lines, Append(disk.store.lines, ObservationOf(jobs[w]))}
    PROVE  /\ disk.store.lines \in Seq(StoreLine)
           /\ Range(disk.store.lines) \subseteq Range(disk'.store.lines)
           /\ \A o : StoredLine(disk.store.lines, o) => StoredLine(disk'.store.lines, o)
           /\ \A o : o # jobs[w].obs /\ StoredLine(disk'.store.lines, o) => StoredLine(disk.store.lines, o)
           /\ disk'.store.lines = Append(disk.store.lines, ObservationOf(jobs[w])) =>
                 /\ StoredLine(disk'.store.lines, jobs[w].obs)
                 /\ ObservationOf(jobs[w]) \in Range(disk'.store.lines)
<1> DEFINE lines == disk.store.lines
           record == ObservationOf(jobs[w])
           after == Append(lines, record)
           n == Len(lines) + 1
<1>1. lines \in Seq(StoreLine) /\ record \in StoreLine /\ record.obs = jobs[w].obs
  BY RecordFits, ZenonT(60) DEF CollectionSafe, CollectionTypes, RunDirectory, FileOf
<1> HIDE DEF lines, record
<1>2. /\ DOMAIN after = DOMAIN lines \cup {n} /\ after[n] = record
      /\ \A k \in DOMAIN lines : after[k] = lines[k]
  <2>1. GrownBy(after, lines, record)
    BY <1>1, AppendedPlaces, ZenonT(60)
  <2> HIDE DEF after
  <2> QED
    BY <2>1, ZenonT(60) DEF GrownBy
<1> HIDE DEF after, n
<1>3. /\ Range(lines) \subseteq Range(after) /\ record \in Range(after)
  BY <1>2 DEF Range
<1>4. /\ \A o : StoredLine(lines, o) => StoredLine(after, o)
      /\ \A o : o # jobs[w].obs /\ StoredLine(after, o) => StoredLine(lines, o)
      /\ StoredLine(after, jobs[w].obs)
  BY <1>1, <1>2 DEF StoredLine
<1>5. disk'.store.lines \in {lines, after}
  BY ZenonT(60) DEF lines, after, record
<1> QED
  BY <1>1, <1>3, <1>4, <1>5, ZenonT(60) DEF lines, record, after

LEMMA StoreFailsSafe ==
    ASSUME CollectionSafe, NEW w \in Workers, storeFails(w)
    PROVE  CollectionSafe'
<1>1. process = "collecting" /\ jobs[w].at = "storing" /\ Thrown(w) /\ UNCHANGED world
  BY DEF storeFails
<1>2. PICK f \in Unacknowledged(disk.store, ObservationOf(jobs[w])) : disk' = [disk EXCEPT !.store = f]
  BY DEF storeFails
<1>3. /\ DiskSound' /\ disk'.journal = disk.journal
      /\ disk'.store.lines \in {disk.store.lines, Append(disk.store.lines, ObservationOf(jobs[w]))}
  BY <1>1, <1>2, StoreWritten, ZenonT(60)
<1>4. /\ Range(disk.store.lines) \subseteq Range(disk'.store.lines)
      /\ \A o : o # jobs[w].obs /\ StoredLine(disk'.store.lines, o) => StoredLine(disk.store.lines, o)
  BY <1>1, <1>3, RecordAppended, ZenonT(60)
<1>5. records \subseteq Range(disk'.store.lines)
  BY <1>4 DEF CollectionSafe, StoreKept
<1> QED
  BY <1>1, <1>3, <1>4, <1>5, ThrownSafe, ZenonT(60)

(* A summary is written with the last observation only.                    *)
LEMMA StoreSafe ==
    ASSUME CollectionSafe, NEW w \in Workers, storeObservation(w)
    PROVE  CollectionSafe'
<1> DEFINE record == ObservationOf(jobs[w])
           stored == records \cup {record}
           due == (completed + 1) % ProgressEvery = 0 \/ Complete(stored)
           sound == Reportable(stored)
           o == jobs[w].obs
           file == Appended(disk.store, record)
<1>1. /\ process = "collecting" /\ jobs[w].at = "storing" /\ jobs[w].at # "idle"
      /\ UNCHANGED world /\ sent' = sent /\ answered' = answered
      /\ disk' = [disk EXCEPT !.store = file,
                              !.progress = disk.progress \/ (due /\ sound),
                              !.summary = disk.summary \/ (due /\ sound /\ Complete(stored))]
      /\ IF due /\ ~sound
         THEN Thrown(w)
         ELSE /\ records' = stored /\ Job(w, Idle)
              /\ UNCHANGED <<process, refusal, events, pending>>
  BY DEF storeObservation, world
<1>2. record \in StoreLine /\ StoreSound(Append(disk.store.lines, record)) /\ ~disk.summary
  BY <1>1, RecordFits
<1>3. disk \in RunDirectory /\ disk.store \in FileOf(StoreLine)
  BY DEF CollectionSafe, CollectionTypes, RunDirectory
<1>4. file \in FileOf(StoreLine) /\ file.lines = Append(disk.store.lines, record)
  BY <1>2, <1>3, FileAppended
<1> HIDE DEF due, sound, file
<1>5. /\ disk' \in RunDirectory /\ disk'.journal = disk.journal /\ disk'.store = file
      /\ (disk'.summary => Complete(stored))
  <2>1. ASSUME NEW p \in BOOLEAN, NEW q \in BOOLEAN, NEW d,
               d = [disk EXCEPT !.store = file, !.progress = p, !.summary = q]
        PROVE  d \in RunDirectory /\ d.journal = disk.journal /\ d.store = file /\ d.summary = q
    BY <1>3, <1>4, <2>1, ZenonT(60) DEF RunDirectory
  <2>2. /\ (disk.progress \/ (due /\ sound)) \in BOOLEAN
        /\ (disk.summary \/ (due /\ sound /\ Complete(stored))) \in BOOLEAN
    OBVIOUS
  <2>3. /\ disk' \in RunDirectory /\ disk'.journal = disk.journal /\ disk'.store = file
        /\ disk'.summary = (disk.summary \/ (due /\ sound /\ Complete(stored)))
    BY <1>1, <2>1, <2>2, ZenonT(60)
  <2> QED
    BY <1>2, <2>3, ZenonT(60)
<1>6. /\ disk.store.lines \in Seq(StoreLine)
      /\ Range(disk.store.lines) \subseteq Range(disk'.store.lines)
      /\ \A p : StoredLine(disk.store.lines, p) => StoredLine(disk'.store.lines, p)
      /\ \A p : p # o /\ StoredLine(disk'.store.lines, p) => StoredLine(disk.store.lines, p)
      /\ StoredLine(disk'.store.lines, o) /\ record \in Range(disk'.store.lines)
  BY <1>1, <1>4, <1>5, RecordAppended
<1>7. stored \subseteq Range(disk'.store.lines)
  BY <1>6, ZenonT(60) DEF CollectionSafe, StoreKept
<1>8. disk'.summary => EverythingStored(disk'.store.lines)
  <2>1. Append(disk.store.lines, record) \in Seq(StoreLine)
    BY <1>2, <1>6, AppendedLines, ZenonT(60)
  <2> QED
    BY <1>2, <1>4, <1>5, <1>7, <2>1, CompleteIsEverything, ZenonT(60)
<1> HIDE DEF stored, record
<1>9. DiskSound'
  <2>1. RequestsAccounted'
    BY <1>1, <1>5, ZenonT(60) DEF CollectionSafe, RequestsAccounted
  <2>2. StoreSound(disk.store.lines)'
    <3>1. StoreSound(file.lines)
      BY <1>2, <1>4
    <3>2. sent' = sent /\ answered' = answered /\ disk'.store = file
      BY <1>1, <1>5
    <3> QED
      BY <3>1, <3>2 DEF StoreSound
  <2> QED
    BY <1>5, <1>8, <2>1, <2>2 DEF DiskSound, EverythingStored
<1>10. CASE Thrown(w)
  <2>1. records \subseteq Range(disk'.store.lines)
    BY <1>6 DEF CollectionSafe, StoreKept
  <2> QED
    BY <1>1, <1>5, <1>6, <1>9, <1>10, <2>1, ThrownSafe, ZenonT(60)
<1>11. CASE ~Thrown(w)
  <2>1. /\ records' = stored /\ jobs' = [jobs EXCEPT ![w] = Idle] /\ process' = process
        /\ events' = events /\ pending' = pending
    BY <1>1, <1>11 DEF Job
  <2>2. jobs \in [Workers -> Jobs] /\ Held(w)
    BY <1>1, HeldFacts, ZenonT(60)
  <2>3. /\ jobs'[w].at = "idle" /\ jobs' \in [Workers -> Jobs]
        /\ \A v \in Workers : v # w => jobs'[v] = jobs[v]
    BY <2>1, <2>2, ZenonT(60) DEF Jobs, Idle
  <2>4. stored \subseteq StoreLine
    BY <1>2 DEF CollectionSafe, CollectionTypes, stored
  <2>5. CollectionTypes'
    BY <1>1, <1>5, <2>1, <2>3, <2>4 DEF CollectionSafe, CollectionTypes
  <2>6. RequestsAccounted' /\ StoreKept'
    BY <1>7, <1>9, <2>1 DEF DiskSound, StoreKept
  <2>7. \A p \in Observations : ~Holds(w, p) => LeavesAlone(p)
    BY <1>1, <1>5, <1>6, <2>1, <2>2, ZenonT(60) DEF Holds, LeavesAlone
  <2>8. LosesNothing(w)
    BY <1>6, <2>1, ZenonT(60) DEF LosesNothing
  <2> QED
    BY <1>1, <2>1, <2>3, <2>5, <2>6, <2>7, <2>8, WorkerSafe, ZenonT(60)
<1> QED
  BY <1>10, <1>11

-----------------------------------------------------------------------------
(* The run.                                                                *)

LEMMA InitSafe ==
    ASSUME CollectionInit
    PROVE  CollectionSafe
<1>1. /\ disk \in RunDirectory /\ disk.journal.lines = <<>> /\ disk.store.lines = <<>> /\ ~disk.summary
      /\ process = "down" /\ events = <<>> /\ records = {} /\ pending = {}
      /\ jobs = [w \in Workers |-> Idle]
      /\ sent = [o \in Observations |-> 0] /\ answered = [o \in Observations |-> 0]
  <2>1. Empty.lines = <<>> /\ Empty \in FileOf(JournalLine) /\ Empty \in FileOf(StoreLine)
    BY DEF Empty, FileOf
  <2> QED
    BY <2>1 DEF CollectionInit, RunDirectory
<1>2. \A w \in Workers : jobs[w] = Idle /\ jobs[w].at = "idle"
  BY <1>1 DEF Idle
<1>3. CollectionTypes
  BY <1>1, <1>2 DEF CollectionTypes, Jobs
<1>4. \A o : Starts(<<>>, o) = 0
  <2>1. \A o : startsFor(<<>>, o) = {}
    BY DEF startsFor
  <2> QED
    BY <2>1, FS_EmptySet DEF Starts
<1>5. RequestsAccounted
  <2>1. ASSUME NEW o \in Observations
        PROVE  Accounted(<<>>, o, 0, 0)
    <3>1. Starts(<<>>, o) = 0 /\ 0 <= MaxAttempts
      BY <1>4, CollectionAssumption
    <3> QED
      BY <3>1 DEF Accounted
  <2>2. \A o \in Observations : sent[o] = 0 /\ answered[o] = 0
    BY <1>1
  <2> QED
    BY <1>1, <2>1, <2>2, ZenonT(60) DEF RequestsAccounted
<1>6. WorkSound /\ OnePlaceEach
  BY <1>1, <1>2, ZenonT(60) DEF WorkSound, OnePlaceEach, Working, Held
<1>7. StoreKept
  BY <1>1 DEF StoreKept, StoreSound
<1> QED
  BY <1>3, <1>5, <1>6, <1>7, ZenonT(60) DEF CollectionSafe

LEMMA StepSafe ==
    ASSUME CollectionSafe, [CollectionNext]_collectionVars
    PROVE  CollectionSafe'
<1>1. CASE UNCHANGED collectionVars
  <2>1. /\ disk' = disk /\ process' = process /\ events' = events /\ records' = records
        /\ pending' = pending /\ jobs' = jobs /\ sent' = sent /\ answered' = answered
    BY <1>1, ZenonT(60) DEF collectionVars
  <2>2. CollectionTypes' /\ RequestsAccounted' /\ StoreKept'
    BY <2>1, ZenonT(60) DEF CollectionSafe, CollectionTypes, RequestsAccounted, StoreKept, StoreSound, EverythingStored
  <2>3. WorkSound' /\ OnePlaceEach'
    BY <2>1, ZenonT(60) DEF CollectionSafe, WorkSound, OnePlaceEach, Working, Held, JobSound, Untouched
  <2> QED
    BY <2>2, <2>3 DEF CollectionSafe
<1>2. CASE startFresh \/ startResume
  BY <1>2, StartSafe
<1>3. CASE openRun
  BY <1>3, OpenSafe
<1>4. CASE markOpenAttemptsInterrupted
  BY <1>4, MarkSafe
<1>5. CASE finish
  BY <1>5, FinishSafe
<1>6. CASE Crash
  BY <1>6, CrashSafe
<1>7. ASSUME NEW w \in Workers,
             \/ takeItem(w) \/ appendEvent(w) \/ appendEventFails(w)
             \/ send(w) \/ replied(w) \/ storeObservation(w) \/ storeFails(w)
      PROVE  CollectionSafe'
  BY <1>7, TakeSafe, AppendSafe, AppendFailsSafe, SendSafe, RepliedSafe, StoreSafe, StoreFailsSafe
<1> QED
  BY <1>1, <1>2, <1>3, <1>4, <1>5, <1>6, <1>7 DEF CollectionNext

(* What each place knows of an observation stays right, through every step *)
(* of a process, every crash and every resume.                             *)
THEOREM CollectionStaysSafe == CollectionSpec => []CollectionSafe
  BY InitSafe, StepSafe, PTL DEF CollectionSpec

(* beginAttempt, remainingAttemptBudget, markOpenAttemptsInterrupted: for  *)
(* every plan, every number of workers, attempts, crashes and failing      *)
(* writes, each request that left is in the journal on disk, none exceeds  *)
(* the budget of its observation, and no observation is answered twice.    *)
THEOREM RequestsJournalled == CollectionSpec => []EveryRequestIsJournalled
<1>1. CollectionSafe => EveryRequestIsJournalled
  BY ZenonT(60) DEF CollectionSafe, RequestsAccounted, Accounted, EveryRequestIsJournalled, Starts
<1> QED
  BY <1>1, CollectionStaysSafe, PTL

(* observation, assertReconciled, writeProgress: in every run, what is     *)
(* stored counts the attempts there were and rests on the one answer, and  *)
(* a summary stands for each planned observation, written once.            *)
THEOREM ObservationsReconcile == CollectionSpec => []StoredObservationsReconcile
<1>1. CollectionSafe => StoredObservationsReconcile
  <2> SUFFICES ASSUME CollectionSafe
               PROVE  StoredObservationsReconcile
    OBVIOUS
  <2>1. disk.store.lines \in Seq(StoreLine) /\ StoreSound(disk.store.lines)
        /\ (disk.summary => EverythingStored(disk.store.lines))
    BY ZenonT(60) DEF CollectionSafe, CollectionTypes, RunDirectory, FileOf, StoreKept
  <2>2. \A r \in Range(disk.store.lines) :
           r.attempts = sent[r.obs] /\ answered[r.obs] = IF r.invoked THEN 1 ELSE 0
    BY <2>1 DEF StoreSound, Range
  <2>3. disk.summary => /\ Len(disk.store.lines) = Len(Plan)
                        /\ {r.obs : r \in Range(disk.store.lines)} = Observations
    BY <2>1, EverythingIsOnce
  <2> QED
    BY <2>2, <2>3 DEF StoredObservationsReconcile
<1> QED
  BY <1>1, CollectionStaysSafe, PTL

=============================================================================
