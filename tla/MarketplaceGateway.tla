-------------------------- MODULE MarketplaceGateway ------------------------
(***************************************************************************)
(* The way of a marketplace command into the application: the rate limiter *)
(* in front of every route (src/src/operations/http-controls.ts), the      *)
(* command route (src/src/marketplace/http.ts) and the command gateway     *)
(* (src/src/marketplace/gateway.ts).  A request runs without a break from  *)
(* the limiter to the gateway's first await; from there on calls           *)
(* interleave at every await.                                              *)
(*                                                                         *)
(* Buckets and results live in memory and are lost when the process        *)
(* restarts.  verify, validatePolicy and execute are supplied by the       *)
(* deployment: each may answer either way or reject.  The clock does not   *)
(* run backwards.                                                          *)
(***************************************************************************)
EXTENDS Integers, Sequences, FiniteSets

CONSTANTS
    TrafficMixes,       \* bound: which requests one behaviour is made of
    Limit,              \* requests of one key in one window
    WindowTicks,        \* windowMs
    MaxBuckets,         \* maxBuckets
    CleanupEvery        \* cleanupEvery

(* positiveInteger refuses any other option.                               *)
ASSUME LimiterOptionsArePositive ==
    /\ Limit \in Nat \ {0} /\ WindowTicks \in Nat \ {0}
    /\ MaxBuckets \in Nat \ {0} /\ CleanupEvery \in Nat \ {0}

(* A fingerprint is the digest of the whole command: barring collisions,   *)
(* commands under one id that share it are the same.                       *)
ASSUME FingerprintsIdentifyCommands ==
    \A mix, other \in TrafficMixes : \A r \in mix.requests, s \in other.requests :
        /\ r.command.id = s.command.id
        /\ r.command.fingerprint = s.command.fingerprint
        => r.command = s.command

VARIABLES
    edgeTime,       \* now()
    buckets,        \* the limiter's map: key |-> [count, resetAt]
    requestCount,   \* the limiter's counter, modulo CleanupEvery
    commands,       \* the gateway's map: command id |-> [fingerprint, run]
    calls,          \* the requests in the order of their arrival
    life,           \* how often the process was restarted
    traffic         \* the behaviour's mix: [requests, arrivals, ticks, restarts]

edgeVars == <<edgeTime, buckets, requestCount, commands, calls, life, traffic>>

NotACommand(kind) == [id |-> kind, fingerprint |-> "", issuedAt |-> 0, expiresAt |-> 0]

Malformed == NotACommand("malformed")   \* a body marketplaceCommand does not parse

NoCommand == NotACommand("none")        \* a request of another route

(* A request: its address, the class of its path ("auth" or "api"), its    *)
(* body and what authorize says of it.                                     *)
HttpRequest(address, path, command, authorized) ==
    [address |-> address, path |-> path, command |-> command, authorized |-> authorized]

(* The steps of a call; the first three wait for a promise.                *)
Waiting == {"verify", "policy", "execute"}

(* Map.set *)
MapSet(map, key, value) ==
    [k \in DOMAIN map \cup {key} |-> IF k = key THEN value ELSE map[k]]

GatewayInit ==
    /\ edgeTime = 0
    /\ buckets = <<>>
    /\ requestCount = 0
    /\ commands = <<>>
    /\ calls = <<>>
    /\ life = 0
    /\ traffic \in TrafficMixes

-----------------------------------------------------------------------------
(* rateLimit *)
removeExpiredBuckets(table) ==
    [key \in {k \in DOMAIN table : table[k].resetAt > edgeTime} |-> table[key]]

(* The table a request of this key meets: swept at every CleanupEvery-th   *)
(* request, and when it is full and the key is new.                        *)
TableFor(key) ==
    LET swept == IF (requestCount + 1) % CleanupEvery = 0
                 THEN removeExpiredBuckets(buckets) ELSE buckets
    IN  IF key \notin DOMAIN swept /\ Cardinality(DOMAIN swept) >= MaxBuckets
        THEN removeExpiredBuckets(swept) ELSE swept

HasNoRoom(table, key) ==
    key \notin DOMAIN table /\ Cardinality(DOMAIN table) >= MaxBuckets

(* A bug: every request prolongs the window. *)
Mutant_NextBucket(table, key) ==
    [count |-> IF key \notin DOMAIN table \/ table[key].resetAt <= edgeTime
               THEN 1 ELSE table[key].count + 1,
     resetAt |-> edgeTime + WindowTicks]

NextBucket(table, key) ==
    IF key \notin DOMAIN table \/ table[key].resetAt <= edgeTime
    THEN [count |-> 1, resetAt |-> edgeTime + WindowTicks]
    ELSE [table[key] EXCEPT !.count = @ + 1]

-----------------------------------------------------------------------------
(* submit, up to its first await *)
Prior(command) == commands[command.id]

(* A bug: a changed command under a known id is taken for a new one. *)
Mutant_submit(command) ==
    IF command = Malformed THEN "invalid"
    ELSE IF command.id \in DOMAIN commands /\ Prior(command).fingerprint = command.fingerprint
    THEN "answered"
    ELSE IF edgeTime < command.issuedAt \/ edgeTime >= command.expiresAt THEN "expired"
    ELSE "verify"

submit(command) ==
    IF command = Malformed THEN "invalid"
    ELSE IF command.id \in DOMAIN commands
    THEN IF Prior(command).fingerprint # command.fingerprint THEN "conflict" ELSE "answered"
    ELSE IF edgeTime < command.issuedAt \/ edgeTime >= command.expiresAt THEN "expired"
    ELSE "verify"

(* What the routes do with a request the limiter lets through.             *)
marketplaceRouter(command, authorized) ==
    IF command = NoCommand THEN "elsewhere"
    ELSE IF ~authorized THEN "denied"
    ELSE submit(command)

(* The runs whose results this process held when a call arrived.           *)
Remembered == {m \in DOMAIN calls : calls[m].life = life /\ calls[m].stored}

Arrived(key, command, step) ==
    calls' = Append(calls,
        [key |-> key, at |-> edgeTime, life |-> life, command |-> command, step |-> step,
         ran |-> FALSE, stored |-> FALSE, remembered |-> Remembered,
         reply |-> IF step = "answered" THEN Prior(command).run ELSE 0])

(* A request: limiter, route and gateway in one run of the event loop.     *)
receive(request) ==
    LET key == <<request.address, request.path>>
        table == TableFor(key)
        bucket == NextBucket(table, key)
    IN  /\ Len(calls) < traffic.arrivals
        /\ requestCount' = (requestCount + 1) % CleanupEvery
        /\ \/ /\ HasNoRoom(table, key)
              /\ buckets' = table
              /\ Arrived(key, request.command, "limited")
           \/ /\ ~HasNoRoom(table, key)
              /\ buckets' = MapSet(table, key, bucket)
              /\ Arrived(key, request.command,
                         IF bucket.count > Limit THEN "limited"
                         ELSE marketplaceRouter(request.command, request.authorized))
        /\ UNCHANGED <<edgeTime, commands, life, traffic>>

-----------------------------------------------------------------------------
(* submit, from its first await on *)
Goes(n, step) == calls' = [calls EXCEPT ![n].step = step]

(* verify or validatePolicy answers no, or rejects.                        *)
refused(n) ==
    /\ calls[n].step \in {"verify", "policy"}
    /\ Goes(n, "failed")
    /\ UNCHANGED <<edgeTime, buckets, requestCount, commands, life, traffic>>

verified(n) ==
    /\ calls[n].step = "verify"
    /\ Goes(n, "policy")
    /\ UNCHANGED <<edgeTime, buckets, requestCount, commands, life, traffic>>

(* validatePolicy agrees and execute is called.                            *)
policyValidated(n) ==
    /\ calls[n].step = "policy"
    /\ calls' = [calls EXCEPT ![n].step = "execute", ![n].ran = TRUE]
    /\ UNCHANGED <<edgeTime, buckets, requestCount, commands, life, traffic>>

(* execute gives a transaction hash: the result is kept and returned.      *)
executed(n) ==
    LET command == calls[n].command
    IN  /\ calls[n].step = "execute"
        /\ commands' = MapSet(commands, command.id, [fingerprint |-> command.fingerprint, run |-> n])
        /\ calls' = [calls EXCEPT ![n].step = "answered", ![n].stored = TRUE, ![n].reply = n]
        /\ UNCHANGED <<edgeTime, buckets, requestCount, life, traffic>>

(* execute rejects, or gives no transaction hash: nothing is kept, whether *)
(* or not the transaction was sent.                                        *)
notExecuted(n) ==
    /\ calls[n].step = "execute"
    /\ Goes(n, "failed")
    /\ UNCHANGED <<edgeTime, buckets, requestCount, commands, life, traffic>>

(* MarketplaceCommandGateway.result, 0 for "unknown".                      *)
resultOf(id) == IF id \in DOMAIN commands THEN commands[id].run ELSE 0

-----------------------------------------------------------------------------
edgeTick ==
    /\ edgeTime < traffic.ticks
    /\ edgeTime' = edgeTime + 1
    /\ UNCHANGED <<buckets, requestCount, commands, calls, life, traffic>>

(* The process ends and starts again: the maps are new, calls are cut off. *)
restart ==
    /\ life < traffic.restarts
    /\ life' = life + 1
    /\ buckets' = <<>> /\ commands' = <<>> /\ requestCount' = 0
    /\ calls' = [n \in DOMAIN calls |->
                    IF calls[n].step \in Waiting THEN [calls[n] EXCEPT !.step = "lost"] ELSE calls[n]]
    /\ UNCHANGED <<edgeTime, traffic>>

GatewayNext ==
    \/ edgeTick \/ restart
    \/ \E request \in traffic.requests : receive(request)
    \/ \E n \in DOMAIN calls :
          refused(n) \/ verified(n) \/ policyValidated(n) \/ executed(n) \/ notExecuted(n)

GatewaySpec == GatewayInit /\ [][GatewayNext]_edgeVars

-----------------------------------------------------------------------------
(* MarketplaceCommandGateway: a command id is executed again, changed or   *)
(* not, only by a call that arrived before an earlier run's result was     *)
(* kept, after a run that failed, or in another life of the process (the   *)
(* map is read before three awaits and written after them); whoever is     *)
(* answered gets the run of exactly the command they sent, and the status  *)
(* route goes on knowing a run of that id for as long as the process runs. *)
CommandsRunOnceUnlessOverlapped ==
    /\ \A m, n \in {k \in DOMAIN calls : calls[k].ran} :
          calls[m].command.id = calls[n].command.id => m \notin calls[n].remembered
    /\ \A n \in DOMAIN calls : calls[n].step = "answered" =>
          /\ calls[calls[n].reply].stored
          /\ calls[calls[n].reply].command = calls[n].command
          /\ calls[n].life = life =>
                /\ resultOf(calls[n].command.id) # 0
                /\ calls[resultOf(calls[n].command.id)].command.id = calls[n].command.id

(* The earlier requests of a key that were let through in the window that  *)
(* ends with request n.                                                    *)
RecentlyAdmitted(key, n) ==
    {m \in 1 .. n - 1 :
        /\ calls[m].key = key /\ calls[m].life = calls[n].life
        /\ calls[m].step # "limited" /\ calls[m].at + WindowTicks > calls[n].at}

(* rateLimit, removeExpiredBuckets: the table never outgrows its capacity; *)
(* no window of any position lets more than twice the limit through; and a *)
(* request is turned away only when its own key used up the limit within   *)
(* one window, or the whole table belongs to other keys seen within one,   *)
(* however many refused requests, sweeps and evictions came between.       *)
RateLimitIsExact ==
    /\ Cardinality(DOMAIN buckets) <= MaxBuckets
    /\ \A n \in DOMAIN calls :
          /\ calls[n].step # "limited" =>
                Cardinality(RecentlyAdmitted(calls[n].key, n)) < 2 * Limit
          /\ calls[n].step = "limited" =>
                \/ Cardinality(RecentlyAdmitted(calls[n].key, n)) >= Limit
                \/ Cardinality({key \in {calls[m].key : m \in DOMAIN calls} \ {calls[n].key} :
                                   RecentlyAdmitted(key, n) # {}}) >= MaxBuckets

=============================================================================
