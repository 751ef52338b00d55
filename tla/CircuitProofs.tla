---------------------------- MODULE CircuitProofs ----------------------------
(***************************************************************************)
(* Proofs about CircuitBreaker, for any number of workers, any threshold,  *)
(* cooldown and end of time.                                               *)
(***************************************************************************)
EXTENDS CircuitBreaker, TLAPS

Record == [state : {"closed", "open", "half-open"}, failureCount : Nat,
           openedAt : Nat, halfOpenInFlight : BOOLEAN]

\* An open snapshot was opened in the past.
Timely(s) == s.state = "open" => s.openedAt \in 1..now

\* A snapshot that a worker read or computed may be stale, but it is timely, and
\* stays so while the worker waits to write it.
IInv ==
    /\ deployed \subseteq Workers
    /\ now \in Nat \ {0}
    /\ hash \in Record /\ Timely(hash)
    /\ seen \in [Workers -> Record]
    /\ \A w \in Workers : Timely(seen[w])

USE CircuitAssumption
-----------------------------------------------------------------------------
LEMMA ClosedTimely == Closed \in Record /\ Closed.state = "closed"
  BY DEF Closed, Snapshot, Record, Never

\* applyFailure makes a timely snapshot of a timely one.
LEMMA FailureTimely ==
    ASSUME NEW s \in Record, NEW t \in Nat \ {0},
           s.state = "open" => s.openedAt \in 1..t
    PROVE  /\ applyFailure(s, t) \in Record
           /\ applyFailure(s, t).state = "open" => applyFailure(s, t).openedAt \in 1..t
<1>1. CASE s.state = "open"
  BY <1>1 DEF applyFailure, Snapshot, Record, Never
<1>2. CASE s.state = "half-open"
  BY <1>2 DEF applyFailure, Record, Opened, Snapshot
<1>3. CASE s.state = "closed" /\ s.failureCount + 1 >= Threshold
  BY <1>3 DEF applyFailure, Record, Opened, Snapshot
<1>4. CASE s.state = "closed" /\ ~(s.failureCount + 1 >= Threshold)
  BY <1>4 DEF applyFailure, Record, Snapshot, Never
<1> QED
  BY <1>1, <1>2, <1>3, <1>4 DEF Record

LEMMA InvStep == IInv /\ [Next]_vars => IInv'
<1> SUFFICES ASSUME IInv, [Next]_vars PROVE IInv'
  OBVIOUS
<1>0. deployed' = deployed
  BY DEF Next, vars
<1> USE <1>0, ClosedTimely DEF IInv, Timely, vars, circuit, Goto
<1>1. CASE Tick
  BY <1>1 DEF Tick
<1>2. ASSUME NEW w \in Workers, Decide(w) PROVE IInv'
  BY <1>2 DEF Decide
<1>3. ASSUME NEW w \in Workers, MarkProbe(w) PROVE IInv'
  BY <1>3 DEF MarkProbe, Record
<1>4. ASSUME NEW w \in Workers, PostWebhook(w) PROVE IInv'
  BY <1>4 DEF PostWebhook
<1>5. ASSUME NEW w \in Workers, ReadCircuitState(w) PROVE IInv'
  BY <1>5 DEF ReadCircuitState
<1>6. ASSUME NEW w \in Workers, ApplyOutcome(w) PROVE IInv'
  <2> DEFINE next == IF failed[w] THEN applyFailure(seen[w], now) ELSE applySuccess(seen[w], now)
  <2>1. next \in Record /\ (next.state = "open" => next.openedAt \in 1..now)
    BY FailureTimely DEF applySuccess
  <2>2. seen' = [seen EXCEPT ![w] = next] /\ UNCHANGED <<now, hash>>
    BY <1>6 DEF ApplyOutcome
  <2> HIDE DEF next
  <2> QED
    BY <2>1, <2>2
<1>7. ASSUME NEW w \in Workers, WriteCircuitState(w) PROVE IInv'
  BY <1>7 DEF WriteCircuitState
<1>8. ASSUME NEW w \in Workers, ExpireKey(w) \/ Abandon(w) PROVE IInv'
  BY <1>8 DEF ExpireKey, Abandon
<1>9. CASE UNCHANGED vars
  BY <1>9
<1> QED
  BY <1>1, <1>2, <1>3, <1>4, <1>5, <1>6, <1>7, <1>8, <1>9 DEF Next, Step

\* However many workers write stale snapshots over each other, and whenever they
\* stop between two commands, an open circuit has an openedAt in the past, so that
\* getCircuitDecision lets a delivery through at most one cooldown later.
THEOREM CircuitNeverStuck == Spec => []NeverStuck
<1>1. Init => IInv
  BY ClosedTimely DEF Init, IInv, Timely
<1>2. IInv => NeverStuck
  BY DEF IInv, Timely, NeverStuck
<1> QED
  BY <1>1, <1>2, InvStep, PTL DEF Spec

-----------------------------------------------------------------------------
\* applyFailure counts no further than the threshold and dates by the clock.
LEMMA FailureTyped ==
    ASSUME NEW s \in Snapshots, NEW t \in 1..MaxTime
    PROVE  applyFailure(s, t) \in Snapshots
<1>1. CASE s.state = "open"
  BY <1>1 DEF applyFailure, Snapshot, Snapshots, Never
<1>2. CASE s.state = "half-open"
  BY <1>2 DEF applyFailure, Snapshots, Opened, Snapshot
<1>3. CASE s.state = "closed" /\ s.failureCount + 1 >= Threshold
  BY <1>3 DEF applyFailure, Snapshots, Opened, Snapshot
<1>4. CASE s.state = "closed" /\ ~(s.failureCount + 1 >= Threshold)
  BY <1>4 DEF applyFailure, Snapshots, Snapshot, Never
<1> QED
  BY <1>1, <1>2, <1>3, <1>4 DEF Snapshots

LEMMA ClosedTyped == Closed \in Snapshots
  BY DEF Closed, Snapshot, Snapshots, Never

\* Every type is kept by every step.
LEMMA TypeStep == TypeOK /\ [Next]_vars => TypeOK'
<1> SUFFICES ASSUME TypeOK, [Next]_vars PROVE TypeOK'
  OBVIOUS
<1>0. deployed' = deployed
  BY DEF Next, vars
<1> USE <1>0, ClosedTyped DEF TypeOK, vars, circuit, Goto
<1>1. CASE Tick
  BY <1>1 DEF Tick, Never
<1>2. ASSUME NEW w \in Workers, Decide(w) PROVE TypeOK'
  BY <1>2 DEF Decide, getCircuitDecision
<1>3. ASSUME NEW w \in Workers, MarkProbe(w) PROVE TypeOK'
  BY <1>3 DEF MarkProbe, Snapshots
<1>4. ASSUME NEW w \in Workers, PostWebhook(w) PROVE TypeOK'
  BY <1>4 DEF PostWebhook
<1>5. ASSUME NEW w \in Workers, ReadCircuitState(w) PROVE TypeOK'
  BY <1>5 DEF ReadCircuitState
<1>6. ASSUME NEW w \in Workers, ApplyOutcome(w) PROVE TypeOK'
  <2>1. applyFailure(seen[w], now) \in Snapshots /\ applySuccess(seen[w], now) \in Snapshots
    BY FailureTyped DEF applySuccess
  <2> QED
    BY <1>6, <2>1 DEF ApplyOutcome
<1>7. ASSUME NEW w \in Workers, WriteCircuitState(w) PROVE TypeOK'
  BY <1>7 DEF WriteCircuitState
<1>8. ASSUME NEW w \in Workers, ExpireKey(w) PROVE TypeOK'
  BY <1>8 DEF ExpireKey
<1>9. ASSUME NEW w \in Workers, Abandon(w) PROVE TypeOK'
  BY <1>9 DEF Abandon
<1>10. CASE UNCHANGED vars
  BY <1>10
<1> QED
  BY <1>1, <1>2, <1>3, <1>4, <1>5, <1>6, <1>7, <1>8, <1>9, <1>10 DEF Next, Step

\* The hash, its time to live and the workers' snapshots keep their types: the
\* failure count never exceeds the threshold and no openedAt is in the future.
THEOREM TypeCorrect == Spec => []TypeOK
<1>1. Init => TypeOK
  BY ClosedTyped DEF Init, TypeOK, Never
<1> QED
  BY <1>1, TypeStep, PTL DEF Spec
-----------------------------------------------------------------------------
\* What a worker without rivals keeps: a closed circuit has counted every failure
\* of the streak, in Redis and in the snapshot the worker is about to write, and
\* a delivery that was let through is still allowed.
Counts(s, n) == s.state # "closed" \/ (n <= s.failureCount /\ s.failureCount < Threshold)

AloneInv ==
    /\ TypeOK /\ IInv
    /\ hash.state # "half-open"
    /\ Counts(hash, streak)
    /\ QuietCooldown
    /\ \A w \in Workers \ deployed : pc[w] = "idle"
    /\ \A w \in Workers :
         /\ seen[w].state # "half-open"
         /\ pc[w] = "apply" => Counts(seen[w], streak)
         /\ pc[w] = "write" => IF failed[w] THEN Counts(seen[w], streak + 1)
                                            ELSE seen[w] = Closed

\* One failure more, and the circuit is open or has counted it.
LEMMA FailureCounts ==
    ASSUME NEW s \in Snapshots, s.state # "half-open", NEW t \in 1..MaxTime,
           NEW n \in Nat, Counts(s, n)
    PROVE  /\ Counts(applyFailure(s, t), n + 1)
           /\ applyFailure(s, t).state # "half-open"
<1>1. CASE s.state = "open"
  BY <1>1 DEF applyFailure, Snapshot, Snapshots, Counts
<1>2. CASE s.state = "closed" /\ s.failureCount + 1 >= Threshold
  BY <1>2 DEF applyFailure, Snapshots, Opened, Snapshot, Counts
<1>3. CASE s.state = "closed" /\ ~(s.failureCount + 1 >= Threshold)
  BY <1>3 DEF applyFailure, Snapshots, Snapshot, Never, Counts
<1> QED
  BY <1>1, <1>2, <1>3 DEF Snapshots

\* Without rivals every step keeps AloneInv.
LEMMA AloneStep ==
    ASSUME Alone, AloneInv, [Next]_vars
    PROVE  AloneInv'
<1>0. deployed' = deployed /\ \A v, w \in deployed : v = w
  BY DEF Next, vars, Alone
<1>t. TypeOK' /\ IInv'
  BY TypeStep, InvStep DEF AloneInv
<1>c. Closed.state = "closed" /\ Closed.failureCount = 0
  BY DEF Closed, Snapshot
<1> USE <1>0, <1>t, <1>c DEF AloneInv, vars, circuit, Goto
<1>1. CASE Tick
  <2>1. CASE hash' = Closed /\ streak' = 0
    BY <1>1, <2>1 DEF Tick, TypeOK, Counts, QuietCooldown, CoolingDown, Snapshots
  <2>2. CASE UNCHANGED <<hash, streak>>
    BY <1>1, <2>2 DEF Tick, TypeOK, IInv, Timely, Counts, QuietCooldown, CoolingDown, Snapshots, Never
  <2> QED
    BY <1>1, <2>1, <2>2 DEF Tick
<1>2. ASSUME NEW w \in deployed, Decide(w) PROVE AloneInv'
  <2>1. ~CoolingDown(hash, now)
    BY <1>2 DEF Decide, getCircuitDecision
  <2>2. pc' = [pc EXCEPT ![w] = "mark"] \/ pc' = [pc EXCEPT ![w] = "post"]
    BY <1>2 DEF Decide
  <2>3. UNCHANGED <<now, hash, expiresAt, failed, seen, streak>>
    BY <1>2 DEF Decide
  <2>4. QuietCooldown'
    BY <2>1, <2>3 DEF QuietCooldown, CoolingDown
  <2> QED
    BY <2>2, <2>3, <2>4 DEF TypeOK
<1>3. ASSUME NEW w \in deployed, MarkProbe(w) PROVE AloneInv'
  BY <1>3 DEF MarkProbe, QuietCooldown, CoolingDown, Counts, TypeOK, Snapshots
<1>4. ASSUME NEW w \in deployed, PostWebhook(w) PROVE AloneInv'
  BY <1>4 DEF PostWebhook, QuietCooldown, TypeOK
<1>5. ASSUME NEW w \in deployed, ReadCircuitState(w) PROVE AloneInv'
  BY <1>5 DEF ReadCircuitState, QuietCooldown, TypeOK
<1>6. ASSUME NEW w \in deployed, ApplyOutcome(w) PROVE AloneInv'
  <2>1. /\ applyFailure(seen[w], now).state # "half-open"
        /\ Counts(applyFailure(seen[w], now), streak + 1)
    BY <1>6, FailureCounts DEF ApplyOutcome, TypeOK
  <2> QED
    BY <1>6, <2>1 DEF ApplyOutcome, QuietCooldown, TypeOK, applySuccess
<1>7. ASSUME NEW w \in deployed, WriteCircuitState(w) PROVE AloneInv'
  BY <1>7 DEF WriteCircuitState, QuietCooldown, TypeOK, Counts, Snapshots
<1>8. ASSUME NEW w \in deployed, ExpireKey(w) \/ Abandon(w) PROVE AloneInv'
  BY <1>8 DEF ExpireKey, Abandon, QuietCooldown, TypeOK
<1>9. CASE UNCHANGED vars
  BY <1>9 DEF QuietCooldown
<1> QED
  BY <1>1, <1>2, <1>3, <1>4, <1>5, <1>6, <1>7, <1>8, <1>9 DEF Next, Step

LEMMA AloneInvariance == Spec => [](Alone => AloneInv)
<1>1. Init => AloneInv
  BY ClosedTyped, ClosedTimely
  DEF Init, AloneInv, TypeOK, IInv, Timely, Counts, QuietCooldown, Closed, Snapshot, Never
<1>2. (Alone => AloneInv) /\ [Next]_vars => (Alone => AloneInv)'
  <2>1. [Next]_vars => (Alone' <=> Alone)
    BY DEF Next, vars, Alone
  <2> QED
    BY <2>1, AloneStep
<1>3. Init => (Alone => AloneInv)
  BY <1>1
<1> QED
  BY <1>2, <1>3, PTL DEF Spec

\* With one worker the circuit is open once Threshold failures in a row are
\* recorded, for any threshold, and whenever the key ends meanwhile.
THEOREM AloneOpens == Spec => []OpensWhenAlone
<1>1. (Alone => AloneInv) => OpensWhenAlone
  BY DEF AloneInv, OpensWhenAlone, OpensAtThreshold, Counts, TypeOK, Snapshots
<1> QED
  BY <1>1, AloneInvariance, PTL

\* With one worker no delivery runs while the circuit cools down: the decision
\* still stands when the webhook is called.
THEOREM AloneQuiet == Spec => []QuietWhenAlone
<1>1. (Alone => AloneInv) => QuietWhenAlone
  BY DEF AloneInv, QuietWhenAlone
<1> QED
  BY <1>1, AloneInvariance, PTL
=============================================================================
