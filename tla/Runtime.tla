------------------------------- MODULE Runtime ------------------------------
(***************************************************************************)
(* The parts around the delivery that keep time, side by side: the runtime *)
(* guard, a token bucket, the receive loop of a worker, the sampler of the *)
(* backlog and the monitoring handler.  They share no state but the clock, *)
(* so one behaviour is about one of them, its subject, and the others rest *)
(* in their initial states: the state spaces add up, they do not multiply. *)
(* The guard is extended, its Init, Next and properties are those of its   *)
(* module; the others are instances.                                       *)
(***************************************************************************)
EXTENDS RuntimeGuard, FiniteSets

CONSTANTS
    Callers, Capacity, Share, Rate, Delay, MaxCalls, BucketTime,                \* TokenBucket
    Receipts, Tenants, TenantOf, Receives, BatchSize, Limit, MaxPending, NoOne, \* ReceiveCycle
    Sources, Timeout, SamplerTime,                                              \* BacklogSampler
    Watched, Ranges, Pages, ScrapeStale, SampleStale, CacheLife, SnapshotTime,  \* Monitoring
    MaxFlights, MaxCached, MonitorTime

VARIABLES
    subject,
    bucket, call, calls, taken, back, untouched,
    visible, recv, phase, batch, hand, used, deferred, owned, unsure, pending, served,
    sample, gauge, stopped,
    scraped, flight, cache, page, oldest

guardVars == <<latchedAt, lease, badSince, firstBad, guard, svc, stopper, mode>>

bucketVars == <<bucket, call, calls, taken, back, untouched>>

cycleVars == <<visible, recv, phase, batch, hand, used, deferred, owned, unsure, pending, served>>

samplerVars == <<sample, gauge, stopped>>

monitorVars == <<scraped, flight, cache, page, oldest>>

all == <<subject, now, guardVars, bucketVars, cycleVars, samplerVars, monitorVars>>

\* Each part has a bound of its own on the clock.
Bucket == INSTANCE TokenBucket WITH MaxTime <- BucketTime

Cycle == INSTANCE ReceiveCycle WITH None <- NoOne

Sampler == INSTANCE BacklogSampler WITH MaxTime <- SamplerTime

Monitor == INSTANCE Monitoring WITH Sources <- Watched, MaxTime <- MonitorTime

ASSUME RuntimeAssumption ==
    /\ GuardAssumption
    /\ Bucket!BucketAssumption
    /\ Cycle!CycleAssumption
    /\ Sampler!SamplerAssumption
    /\ Monitor!MonitorAssumption

RuntimeInit ==
    /\ subject \in {"guard", "bucket", "cycle", "sampler", "monitor"}
    /\ Init /\ Bucket!Init /\ Cycle!Init /\ Sampler!Init /\ Monitor!Init

GuardMoves ==
    /\ subject = "guard" /\ Next
    /\ UNCHANGED <<subject, bucketVars, cycleVars, samplerVars, monitorVars>>

BucketMoves ==
    /\ subject = "bucket" /\ Bucket!Next
    /\ UNCHANGED <<subject, guardVars, cycleVars, samplerVars, monitorVars>>

CycleRests == UNCHANGED <<subject, now, guardVars, bucketVars, samplerVars, monitorVars>>

CycleMoves == subject = "cycle" /\ Cycle!Next /\ CycleRests

SamplerMoves ==
    /\ subject = "sampler" /\ Sampler!Next
    /\ UNCHANGED <<subject, guardVars, bucketVars, cycleVars, monitorVars>>

MonitorMoves ==
    /\ subject = "monitor" /\ Monitor!Next
    /\ UNCHANGED <<subject, guardVars, bucketVars, cycleVars, samplerVars>>

RuntimeNext == GuardMoves \/ BucketMoves \/ CycleMoves \/ SamplerMoves \/ MonitorMoves

\* The fairness of ReceiveCycle, for the behaviours it is the subject of.
Fairness ==
    /\ WF_all(subject = "cycle" /\ Cycle!Step /\ CycleRests)
    /\ WF_all(subject = "cycle" /\ Cycle!Answers /\ CycleRests)
    /\ WF_all(subject = "cycle" /\ Cycle!Confirms /\ CycleRests)

RuntimeSpec == RuntimeInit /\ [][RuntimeNext]_all /\ Fairness

-----------------------------------------------------------------------------
\* The type invariants of the five modules, each for its own behaviours: the
\* bounds of the clock differ.
RuntimeTypeOK ==
    /\ subject = "guard" => TypeOK
    /\ subject = "bucket" => Bucket!TypeOK
    /\ subject = "cycle" => Cycle!TypeOK
    /\ subject = "sampler" => Sampler!TypeOK
    /\ subject = "monitor" => Monitor!TypeOK

\* TokenBucket: a tenant's tokens are bounded by the time that passed, whatever the
\* order of the stamps, and a caller that waits retryAfterMs and no longer is served
\* (rate-limit.ts script).
BudgetExact == Bucket!BudgetExact

\* ReceiveCycle: no tenant has more than its turns in a cycle (tenant-turns.ts), and
\* every receipt is released in its cycle (index.ts main).
TurnsAndReleases == Cycle!FairShares /\ Cycle!NothingLeaks

\* ReceiveCycle: cycles end, again and again (index.ts main).
KeepsReceiving == subject = "cycle" => Cycle!KeepsReceiving

\* BacklogSampler: recorded depths are recent (backlog-sampler.ts run).
TruthfulSample == Sampler!TruthfulSample

\* Monitoring: depths shown as observed are recent, and nobody waits for a query
\* that is over (observability.ts).
TruthfulReports == Monitor!ObservedIsRecent /\ Monitor!NobodyForgotten
=============================================================================
