--------------------------- MODULE BacklogSampler ---------------------------
(***************************************************************************)
(* The publisher's background sampler of the outbox and the queue          *)
(* (worker/src/metrics/backlog-sampler.ts) and the gauges it writes        *)
(* (shared/src/backlog-metrics.ts).  Each source is read again and again;  *)
(* a reading that passes its deadline is aborted and counts as failed, and *)
(* may still answer later.                                                 *)
(*                                                                         *)
(* The depth itself is abstracted to the moment at which the database or   *)
(* SQS counted: that is what its freshness is about.  The pause between    *)
(* two samples is any time.                                                *)
(***************************************************************************)
EXTENDS Integers

CONSTANTS
    Sources,     \* outbox and sqs
    Timeout,     \* deadline of a sample
    MaxTime      \* bound on the clock, for TLC

SamplerAssumption == Timeout \in Nat /\ MaxTime \in Nat

None == -1

VARIABLES
    now,
    sample,      \* the reading of each source, its deadline and its count
    gauge,       \* what the metrics endpoint shows
    stopped

vars == <<now, sample, gauge, stopped>>

Time == 0 .. MaxTime

Unset == [counted |-> None, stamp |-> None, success |-> FALSE]

Rest == [at |-> "waiting", due |-> None, counted |-> None]

\* One type invariant for the readings and the gauges.
TypeOK ==
    /\ now \in Time
    /\ sample \in [Sources -> [at : {"waiting", "reading", "late", "off"},
                               due : (0 .. MaxTime + Timeout) \cup {None},
                               counted : Time \cup {None}]]
    /\ gauge \in [Sources -> [counted : Time \cup {None}, stamp : Time \cup {None}, success : BOOLEAN]]
    /\ stopped \in BOOLEAN

\* createBacklogMetrics and the two calls of run.  The stamp None is the
\* zero that means that no sample has succeeded.
Init ==
    /\ now = 0
    /\ sample = [s \in Sources |-> Rest]
    /\ gauge = [s \in Sources |-> Unset]
    /\ stopped = FALSE

\* run: the controller, the deadline and the call of read.
StartSample(s) ==
    /\ ~stopped /\ sample[s].at = "waiting"
    /\ sample' = [sample EXCEPT ![s] = [at |-> "reading", due |-> now + Timeout, counted |-> None]]
    /\ UNCHANGED <<now, gauge, stopped>>

\* The source counts; its answer is under way.
Count(s) ==
    /\ sample[s].at = "reading" /\ sample[s].counted = None
    /\ sample' = [sample EXCEPT ![s].counted = now]
    /\ UNCHANGED <<now, gauge, stopped>>

\* The answer in time: recordOutbox or recordQueue, and the next timer.
RecordSample(s) ==
    /\ ~stopped /\ sample[s].at = "reading" /\ sample[s].counted # None
    /\ gauge' = [gauge EXCEPT ![s] = [counted |-> sample[s].counted, stamp |-> now, success |-> TRUE]]
    /\ sample' = [sample EXCEPT ![s] = Rest]
    /\ UNCHANGED <<now, stopped>>

Failed(s) == gauge' = [gauge EXCEPT ![s].success = FALSE]

\* The read rejects, or its count is not a safe integer: one failure.
FailSample(s) ==
    /\ ~stopped /\ sample[s].at = "reading"
    /\ Failed(s)
    /\ sample' = [sample EXCEPT ![s] = Rest]
    /\ UNCHANGED <<now, stopped>>

\* Mutant: the failure is recorded, the controller is not aborted.
MissDeadlineQuietly(s) ==
    /\ ~stopped /\ sample[s].at = "reading" /\ sample[s].due = now
    /\ Failed(s)
    /\ sample' = [sample EXCEPT ![s].due = now + Timeout]
    /\ UNCHANGED <<now, stopped>>

\* The deadline: the controller is aborted and the failure recorded at once,
\* the reading is still pending.
MissDeadline(s) ==
    /\ ~stopped /\ sample[s].at = "reading" /\ sample[s].due = now
    /\ Failed(s)
    /\ sample' = [sample EXCEPT ![s] = [at |-> "late", due |-> None, counted |-> None]]
    /\ UNCHANGED <<now, stopped>>

\* A late answer, a value or an error, records nothing more.
SettleLate(s) ==
    /\ ~stopped /\ sample[s].at = "late"
    /\ sample' = [sample EXCEPT ![s] = Rest]
    /\ UNCHANGED <<now, gauge, stopped>>

\* stop: timers are cleared, readings aborted; what settles afterwards
\* neither records nor schedules.
StopSampler ==
    /\ ~stopped
    /\ stopped' = TRUE
    /\ sample' = [s \in Sources |-> [Rest EXCEPT !.at = IF sample[s].at = "waiting" THEN "off" ELSE "late"]]
    /\ UNCHANGED <<now, gauge>>

SettleStopped(s) ==
    /\ stopped /\ sample[s].at = "late"
    /\ sample' = [sample EXCEPT ![s].at = "off"]
    /\ UNCHANGED <<now, gauge, stopped>>

\* The publisher is started again, after a stop or a crash: new gauges.
RestartSampler ==
    /\ sample' = [s \in Sources |-> Rest]
    /\ gauge' = [s \in Sources |-> Unset]
    /\ stopped' = FALSE
    /\ UNCHANGED now

\* Time does not pass the deadline of a reading.
Tick ==
    /\ now < MaxTime
    /\ \A s \in Sources : sample[s].at = "reading" => now < sample[s].due
    /\ now' = now + 1
    /\ UNCHANGED <<sample, gauge, stopped>>

Next ==
    \/ \E s \in Sources : StartSample(s) \/ Count(s) \/ RecordSample(s) \/ FailSample(s)
                             \/ MissDeadline(s) \/ SettleLate(s) \/ SettleStopped(s)
    \/ StopSampler \/ RestartSampler \/ Tick

Spec == Init /\ [][Next]_vars

-----------------------------------------------------------------------------
\* A depth that is marked as a success was counted within the deadline of
\* its own sample: no late answer is ever recorded with a fresh time stamp.
TruthfulSample ==
    \A s \in Sources : gauge[s].success => gauge[s].stamp - gauge[s].counted \in 0 .. Timeout
=============================================================================
