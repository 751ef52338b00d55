----------------------------- MODULE TokenBucket -----------------------------
(***************************************************************************)
(* The token bucket in Redis behind the ingestion and the delivery limits  *)
(* of a tenant (shared/src/rate-limit.ts).  Every caller reads its clock,  *)
(* sends the script with that time stamp, and Redis runs the script in the *)
(* order of arrival: stamps may arrive out of order, and the client may    *)
(* send a command again after a broken connection.                         *)
(*                                                                         *)
(* Tokens are counted in shares: Share of them make a token, and Rate of   *)
(* them are refilled per unit of time, so that the script's fractions stay *)
(* integers.                                                               *)
(***************************************************************************)
EXTENDS Integers

CONSTANTS
    Callers,     \* API requests and message handlers
    Capacity,    \* of a bucket, in tokens
    Share,       \* shares that make one token
    Rate,        \* shares refilled per unit of time
    Delay,       \* longest time from reading the clock to the script
    MaxTime,     \* bound on the clock, for TLC
    MaxCalls     \* bound on the number of calls, for TLC

BucketAssumption ==
    /\ Capacity \in Nat \ {0} /\ Share \in Nat \ {0} /\ Rate \in Nat \ {0}
    /\ Delay \in Nat /\ MaxTime \in Nat /\ MaxCalls \in Nat

VARIABLES
    now,         \* the clock of Redis and of the callers' host
    bucket,      \* the hash and the end of its time to live
    call,        \* the command each caller has under way
    calls,       \* number of calls made, for MaxCalls
    taken,       \* history: tokens given out by the script
    back,        \* history: time by which stamps were set back
    untouched    \* history: the caller whose answer the bucket still shows

vars == <<now, bucket, call, calls, taken, back, untouched>>

None == -1

Full == Capacity * Share

Ceil(a, b) == (a + b - 1) \div b

\* Mutant: the hash lives as long as one token takes.
LifeTimeShort == Ceil(Share, Rate)

\* PEXPIRE: the time in which an empty bucket fills.
LifeTime == Ceil(Full, Rate)

Quiet == [at |-> "idle", stamp |-> None, retry |-> None]

\* One type invariant for the bucket and the callers.
TypeOK ==
    /\ now \in 0 .. MaxTime
    /\ bucket \in [tokens : 0 .. Full, last : 0 .. MaxTime, ends : 0 .. MaxTime + LifeTime]
    /\ call \in [Callers -> [at : {"idle", "sent", "allowed", "refused"},
                             stamp : (0 .. MaxTime) \cup {None},
                             retry : Nat \cup {None}]]
    /\ calls \in 0 .. MaxCalls
    /\ taken \in Nat /\ back \in Nat
    /\ untouched \in Callers \cup {None}

\* No hash: its time to live is over.
Init ==
    /\ now = 0
    /\ bucket = [tokens |-> 0, last |-> 0, ends |-> 0]
    /\ call = [c \in Callers |-> Quiet]
    /\ calls = 0 /\ taken = 0 /\ back = 0 /\ untouched = None

Present == now < bucket.ends

Max2(a, b) == IF a >= b THEN a ELSE b

Min2(a, b) == IF a <= b THEN a ELSE b

\* Mutant: the refill is not capped.
RefilledUncapped(stamp) ==
    IF Present THEN bucket.tokens + Max2(0, stamp - bucket.last) * Rate ELSE Full

\* The tokens the script finds at a stamp: a missing hash is a full bucket,
\* and a stamp before the last one refills nothing.
Refilled(stamp) ==
    IF Present THEN Min2(Full, bucket.tokens + Max2(0, stamp - bucket.last) * Rate) ELSE Full

Enough(stamp) == Refilled(stamp) >= Share

\* Mutant: the wait is rounded down.
RetryAfterFloor(stamp) == (Share - Refilled(stamp)) \div Rate

\* retry_after_ms: when the bucket holds one token if nobody else calls.
RetryAfter(stamp) == Ceil(Share - Refilled(stamp), Rate)

\* The hash after the script; a refused call stores its refill as well.
Consumed(stamp) ==
    [tokens |-> IF Enough(stamp) THEN Refilled(stamp) - Share ELSE Refilled(stamp),
     last |-> stamp,
     ends |-> now + LifeTime]

\* How much earlier this stamp is than the state of the bucket accounts for.
SetBack(stamp) ==
    IF Present THEN Max2(0, bucket.last - stamp)
    ELSE Max2(0, bucket.last + LifeTime - stamp)

-----------------------------------------------------------------------------
\* consumeTenantToken: the clock is read and the script is sent.
Call(c) ==
    /\ call[c].at = "idle" /\ calls < MaxCalls
    /\ call' = [call EXCEPT ![c] = [at |-> "sent", stamp |-> now, retry |-> None]]
    /\ calls' = calls + 1
    /\ UNCHANGED <<now, bucket, taken, back, untouched>>

\* The script runs in Redis, in one piece.
Execute(c) ==
    /\ bucket' = Consumed(call[c].stamp)
    /\ taken' = IF Enough(call[c].stamp) THEN taken + 1 ELSE taken
    /\ back' = IF bucket.ends = 0 THEN back ELSE back + SetBack(call[c].stamp)
    /\ untouched' = c

\* Its answer reaches the caller.
Decide(c) ==
    LET s == call[c].stamp
    IN /\ call[c].at = "sent"
       /\ Execute(c)
       /\ call' = [call EXCEPT ![c] =
                      IF Enough(s) THEN [at |-> "allowed", stamp |-> s, retry |-> 0]
                                   ELSE [at |-> "refused", stamp |-> s, retry |-> RetryAfter(s)]]
       /\ UNCHANGED <<now, calls>>

\* Its answer is lost with the connection, and the client sends the same
\* command again (maxRetriesPerRequest).
DecideLost(c) ==
    /\ call[c].at = "sent" /\ calls < MaxCalls
    /\ Execute(c)
    /\ calls' = calls + 1
    /\ UNCHANGED <<now, call>>

\* No connection, or no more retries: the call throws without a decision.
CallFails(c) ==
    /\ call[c].at = "sent"
    /\ call' = [call EXCEPT ![c] = Quiet]
    /\ UNCHANGED <<now, bucket, calls, taken, back, untouched>>

\* The request or the message goes its way: served, answered 429 with
\* retryAfterMs, or hidden in the queue for that time.
Finish(c) ==
    /\ call[c].at \in {"allowed", "refused"}
    /\ call' = [call EXCEPT ![c] = Quiet]
    /\ UNCHANGED <<now, bucket, calls, taken, back, untouched>>

Tick ==
    /\ now < MaxTime
    /\ \A c \in Callers : call[c].at = "sent" => now < call[c].stamp + Delay
    /\ now' = now + 1
    /\ UNCHANGED <<bucket, call, calls, taken, back, untouched>>

Next ==
    \/ \E c \in Callers : Call(c) \/ Decide(c) \/ DecideLost(c) \/ CallFails(c) \/ Finish(c)
    \/ Tick

Spec == Init /\ [][Next]_vars

-----------------------------------------------------------------------------
\* The limit itself: a tenant gets no more than a full bucket and what is
\* refilled since, be the hash kept, expired or written by refused and
\* repeated calls.  The only time counted twice is the time by which stamps
\* that arrived late set lastRefillAt back; with stamps in order it is zero.
BudgetKept == taken * Share <= Full + (now + back) * Rate

\* A caller that was refused and waits for retryAfterMs, without a call of
\* anybody else in between, is served then, and would not have been a moment
\* earlier.
RetryExact ==
    \A c \in Callers : call[c].at = "refused" /\ Present /\ untouched = c =>
        /\ Refilled(call[c].stamp + call[c].retry) >= Share
        /\ Refilled(call[c].stamp + call[c].retry - 1) < Share

\* What a tenant may rely on and is held to.
BudgetExact == BudgetKept /\ RetryExact
=============================================================================
