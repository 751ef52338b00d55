----------------------------- MODULE Monitoring -----------------------------
(***************************************************************************)
(* From the publisher's gauges to the operator's screen: Prometheus        *)
(* scrapes them, the handler of the dashboard (web/src/server/             *)
(* observability.ts) asks Prometheus for a snapshot, shares it between     *)
(* concurrent requests and keeps it for a short time, and the page         *)
(* (components/dashboard/observability.tsx) asks the handler.  Prometheus  *)
(* answers as of the moment named in the query.  What the gauges may say   *)
(* is the subject of BacklogSampler; here a scrape finds any sample.       *)
(***************************************************************************)
EXTENDS Integers, FiniteSets

CONSTANTS
    Sources,      \* outbox and sqs
    Ranges,       \* ranges an operator may choose
    Pages,        \* open pages
    ScrapeStale,  \* age from which a scrape is stale (45 s)
    SampleStale,  \* age from which a sample is stale (90 s)
    CacheLife,    \* cacheMs
    SnapshotTime, \* snapshotMs
    MaxFlights,   \* snapshots under way at most
    MaxCached,    \* reports kept at most
    MaxTime       \* bound on the clock, for TLC

MonitorAssumption ==
    /\ IsFiniteSet(Ranges) /\ Ranges # {}
    /\ ScrapeStale \in Nat \ {0} /\ SampleStale \in Nat \ {0} /\ CacheLife \in Nat
    /\ SnapshotTime \in Nat /\ MaxFlights \in Nat /\ MaxCached \in Nat \ {0} /\ MaxTime \in Nat

None == -1

Time == 0 .. MaxTime

VARIABLES
    now,
    scraped,     \* the last scrape: its time, whether it succeeded, the gauges
    flight,      \* the snapshot under way for each range
    cache,       \* the report kept for each range
    page,        \* each page: its range and its request
    oldest       \* history: the greatest age of a depth shown as observed

vars == <<now, scraped, flight, cache, page, oldest>>

\* The stamp None is the zero of a source that was never sampled.
Gauges == [stamp : Time \cup {None}, success : BOOLEAN]

Unset == [stamp |-> None, success |-> FALSE]

NoScrape == [at |-> None, up |-> FALSE, gauge |-> [s \in Sources |-> Unset]]

States == {"ready", "stale", "unavailable", "error"}

\* A report: for each source a state and, if that is ready, when it was sampled.
Reports == [Sources -> [state : States, sampled : Time \cup {None}]]

NoReport == [s \in Sources |-> [state |-> "error", sampled |-> None]]

NoFlight == [checked |-> None, report |-> NoReport, fresh |-> None]

NoEntry == [expires |-> 0, report |-> NoReport]

Scrapes == [at : Time \cup {None}, up : BOOLEAN, gauge : [Sources -> Gauges]]

\* One type invariant for the chain.
TypeOK ==
    /\ now \in Time
    /\ scraped \in Scrapes
    /\ flight \in [Ranges -> [checked : Time \cup {None}, report : Reports,
                              fresh : (0 .. MaxTime + ScrapeStale + SampleStale) \cup {None}]]
    /\ cache \in [Ranges -> [expires : 0 .. MaxTime + CacheLife, report : Reports]]
    /\ Cardinality({r \in Ranges : cache[r] # NoEntry}) <= MaxCached
    /\ page \in [Pages -> [at : {"idle", "session", "waiting"}, range : Ranges]]
    /\ oldest \in Time

DefaultRange == CHOOSE r \in Ranges : TRUE

Init ==
    /\ now = 0
    /\ scraped = NoScrape
    /\ flight = [r \in Ranges |-> NoFlight]
    /\ cache = [r \in Ranges |-> NoEntry]
    /\ page = [p \in Pages |-> [at |-> "idle", range |-> DefaultRange]]
    /\ oldest = 0

-----------------------------------------------------------------------------
(* Prometheus.                                                             *)

\* The target answers with what its gauges say, or it is down.
Scrape ==
    /\ scraped.at < now
    /\ \/ \E g \in [Sources -> [stamp : (0 .. now) \cup {None}, success : BOOLEAN]] :
             scraped' = [at |-> now, up |-> TRUE, gauge |-> g]
       \/ scraped' = [NoScrape EXCEPT !.at = now]
    /\ UNCHANGED <<now, flight, cache, page, oldest>>

-----------------------------------------------------------------------------
(* The handler.                                                            *)

Flying(r) == flight[r].checked # None

\* sourceHealth and backlog: what a report of this moment says of a source.
BacklogState(s) ==
    LET g == scraped.gauge[s]
    IN IF ~scraped.up THEN "unavailable"
       ELSE IF now - scraped.at >= ScrapeStale THEN "stale"
       ELSE IF ~g.success THEN "unavailable"
       ELSE IF g.stamp # None /\ now - g.stamp < SampleStale THEN "ready"
       ELSE "stale"

Described(s, state) ==
    [state |-> state, sampled |-> IF state = "ready" THEN scraped.gauge[s].stamp ELSE None]

MaxOf(S) == CHOOSE x \in S : \A y \in S : x >= y

MinOf(S) == CHOOSE x \in S : \A y \in S : x <= y

\* The moments at which something the snapshot calls fresh turns stale; those
\* that have passed are left out.
Boundaries ==
    LET scrapes == {scraped.at} \ {None}
        samples == {scraped.gauge[s].stamp : s \in Sources} \ {None}
    IN {t \in {x + ScrapeStale : x \in scrapes} \cup {x + SampleStale : x \in samples} : t > now}

\* snapshot: every query names the present moment, so that what it finds does
\* not depend on when its answer comes.
Snapshot ==
    [checked |-> now,
     report |-> [s \in Sources |-> Described(s, BacklogState(s))],
     fresh |-> IF Boundaries = {} THEN None ELSE MinOf(Boundaries)]

\* Mutant: a report is kept for the whole cache time.
ExpiresLate(f) == now + CacheLife

\* freshness: a report ends with the cache time or with its first boundary.
Expires(f) == MinOf({now + CacheLife} \cup ({f.fresh} \ {None}))

\* The answer to some pages, which show it.
Answer(P, report) ==
    /\ page' = [p \in Pages |-> IF p \in P THEN [page[p] EXCEPT !.at = "idle"] ELSE page[p]]
    /\ LET ages == {now - report[s].sampled : s \in {x \in Sources : report[x].state = "ready"}}
       IN oldest' = MaxOf({oldest} \cup (IF P = {} THEN {} ELSE ages))

\* The session is verified (/auth/me).  From here to the shared query
\* nothing is awaited: a kept report, a snapshot to join, or a new one.
LookUp(p) ==
    LET r == page[p].range
    IN /\ page[p].at = "session"
       /\ \/ /\ cache[r].expires > now
             /\ Answer({p}, cache[r].report)
             /\ UNCHANGED flight
          \/ /\ cache[r].expires <= now
             /\ Flying(r)
             /\ page' = [page EXCEPT ![p].at = "waiting"]
             /\ UNCHANGED <<flight, oldest>>
          \/ /\ cache[r].expires <= now
             /\ ~Flying(r)
             /\ Cardinality({q \in Ranges : Flying(q)}) < MaxFlights
             /\ flight' = [flight EXCEPT ![r] = Snapshot]
             /\ page' = [page EXCEPT ![p].at = "waiting"]
             /\ UNCHANGED oldest
          \/ /\ cache[r].expires <= now
             /\ ~Flying(r)
             /\ Cardinality({q \in Ranges : Flying(q)}) >= MaxFlights
             /\ Answer({p}, NoReport)
             /\ UNCHANGED flight
       /\ UNCHANGED <<now, scraped, cache>>

\* 401, 403, 503 or a bad request.
Refuse(p) ==
    /\ page[p].at = "session"
    /\ Answer({p}, NoReport)
    /\ UNCHANGED <<now, scraped, flight, cache>>

\* The pages that wait for the snapshot of a range.
Waiting(r) == {p \in Pages : page[p].at = "waiting" /\ page[p].range = r}

\* Each request that waited puts the report into the cache, and drops the first
\* entry of a full one before that.
Keep(r, entry) ==
    LET kept == {q \in Ranges : cache[q] # NoEntry}
        full == Cardinality(kept) >= MaxCached
    IN \/ ~full /\ cache' = [cache EXCEPT ![r] = entry]
       \/ /\ full
          /\ \E dropped \in (SUBSET kept) \ {{}} :
                /\ Cardinality(dropped) <= MaxOf({1, Cardinality(Waiting(r))})
                /\ cache' = [q \in Ranges |-> IF q = r THEN entry
                                              ELSE IF q \in dropped THEN NoEntry ELSE cache[q]]

\* The queries of a snapshot are answered, some of them perhaps with errors.
SnapshotReady(r) ==
    /\ Flying(r)
    /\ \E failed \in SUBSET Sources :
          LET report == [s \in Sources |-> IF s \in failed THEN NoReport[s] ELSE flight[r].report[s]]
          IN /\ Keep(r, [expires |-> Expires(flight[r]), report |-> report])
             /\ Answer(Waiting(r), report)
    /\ flight' = [flight EXCEPT ![r] = NoFlight]
    /\ UNCHANGED <<now, scraped>>

\* Mutant: those who joined the query are not answered.
SnapshotFailsAlone(r) ==
    /\ Flying(r)
    /\ flight' = [flight EXCEPT ![r] = NoFlight]
    /\ UNCHANGED <<now, scraped, cache, page, oldest>>

\* All of them failed, or the time limit of the snapshot ended them.
SnapshotFails(r) ==
    /\ Flying(r)
    /\ Answer(Waiting(r), NoReport)
    /\ flight' = [flight EXCEPT ![r] = NoFlight]
    /\ UNCHANGED <<now, scraped, cache>>

-----------------------------------------------------------------------------
(* The page.                                                               *)

\* load: on opening, by Refresh, or by its timer.
Load(p) ==
    /\ page[p].at = "idle"
    /\ page' = [page EXCEPT ![p].at = "session"]
    /\ UNCHANGED <<now, scraped, flight, cache, oldest>>

\* Another range: the effect aborts its request, whose answer is dropped,
\* and loads again.
ChangeRange(p) ==
    /\ \E r \in Ranges \ {page[p].range} :
          page' = [page EXCEPT ![p] = [at |-> "session", range |-> r]]
    /\ UNCHANGED <<now, scraped, flight, cache, oldest>>

\* Time passes, though not the time limit of a snapshot.
Tick ==
    /\ now < MaxTime
    /\ \A r \in Ranges : Flying(r) => now < flight[r].checked + SnapshotTime
    /\ now' = now + 1
    /\ UNCHANGED <<scraped, flight, cache, page, oldest>>

Next ==
    \/ Scrape
    \/ \E p \in Pages : LookUp(p) \/ Refuse(p) \/ Load(p) \/ ChangeRange(p)
    \/ \E r \in Ranges : SnapshotReady(r) \/ SnapshotFails(r)
    \/ Tick

Spec == Init /\ [][Next]_vars

-----------------------------------------------------------------------------
\* A depth that the screen receives as observed was sampled no longer ago
\* than the stale limit and the time one snapshot may take: sharing and
\* keeping reports adds nothing to its age.
ObservedIsRecent == oldest < SampleStale + SnapshotTime

\* No page waits for a snapshot that is over: whoever joined a query that is
\* answered, aborted or failed has been answered with it.
NobodyForgotten == \A p \in Pages : page[p].at = "waiting" => Flying(page[p].range)
=============================================================================
