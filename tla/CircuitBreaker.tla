--------------------------- MODULE CircuitBreaker ---------------------------
(***************************************************************************)
(* The circuit breaker of one destination                                  *)
(* (packages/worker/src/delivery/circuit-breaker.ts), a Redis hash with a  *)
(* time to live that the workers read and write without a transaction:     *)
(* reading, the write of the fields and the EXPIRE are separate commands,  *)
(* and time passes between them.                                           *)
(***************************************************************************)
EXTENDS Integers

CONSTANTS Workers,
          Threshold,   \* failureThreshold
          Cooldown,    \* cooldownMs, in ticks; also the time to live of the key
          MaxTime      \* bound of the clock

ASSUME CircuitAssumption ==
    /\ Threshold \in Nat \ {0}
    /\ Cooldown \in Nat \ {0}
    /\ MaxTime \in Nat \ {0}

VARIABLES deployed,    \* the workers that run: one, some or all of them
          now,
          hash,        \* the stored snapshot
          expiresAt,   \* when Redis drops the key, or Never
          pc, probe,   \* handleMessage: where it is, decision.state = "half-open"
          failed,      \* the outcome of the webhook call
          seen,        \* the snapshot that recordDelivery... has read
          streak       \* history: failures recorded since the last reset

circuit == <<hash, expiresAt>>
vars    == <<deployed, now, circuit, pc, probe, failed, seen, streak>>

Never == 0

Snapshot(state, n, t) ==
    [state |-> state, failureCount |-> n, openedAt |-> t, halfOpenInFlight |-> FALSE]

\* readCircuitState: an absent key, or one without a state, reads as closed.
Closed == Snapshot("closed", 0, Never)

Snapshots == [state : {"closed", "open", "half-open"}, failureCount : 0..Threshold,
              openedAt : 0..MaxTime, halfOpenInFlight : BOOLEAN]

\* Mutant: the moment of opening is not recorded.
OpenedUndated(t) == Snapshot("open", Threshold, Never)

Opened(t) == Snapshot("open", Threshold, t)

\* Mutant: one failure more than the threshold.
applyFailureLate(s, t) ==
    CASE s.state = "closed" /\ s.failureCount < Threshold ->
           Snapshot("closed", s.failureCount + 1, Never)
      [] OTHER -> Opened(t)

applyFailure(s, t) ==
    CASE s.state = "open" ->
           Snapshot("open", s.failureCount, IF s.openedAt = Never THEN t ELSE s.openedAt)
      [] s.state = "half-open" -> Opened(t)
      [] s.state = "closed" /\ s.failureCount + 1 >= Threshold -> Opened(t)
      [] OTHER -> Snapshot("closed", s.failureCount + 1, Never)

applySuccess(s, t) == Closed

CoolingDown(s, t) ==
    s.state = "open" /\ Cooldown - (t - (IF s.openedAt = Never THEN t ELSE s.openedAt)) > 0

\* Mutant: an open circuit is treated as half-open at once.
getCircuitDecisionEarly(s, t) ==
    [allowed |-> ~s.halfOpenInFlight, halfOpen |-> s.state # "closed"]

getCircuitDecision(s, t) ==
    [allowed  |-> ~CoolingDown(s, t) /\ ~(s.state = "half-open" /\ s.halfOpenInFlight),
     halfOpen |-> s.state # "closed"]

-----------------------------------------------------------------------------
Init ==
    /\ deployed \in (SUBSET Workers) \ {{}}
    /\ now = 1
    /\ hash = Closed
    /\ expiresAt = Never
    /\ pc = [w \in Workers |-> "idle"]
    /\ probe = [w \in Workers |-> FALSE]
    /\ failed = [w \in Workers |-> FALSE]
    /\ seen = [w \in Workers |-> Closed]
    /\ streak = 0

Goto(w, step) == pc' = [pc EXCEPT ![w] = step]

\* A tick of the clock; Redis drops the key when its time is up.
Tick ==
    /\ now < MaxTime
    /\ now' = now + 1
    /\ IF expiresAt = now'
         THEN hash' = Closed /\ expiresAt' = Never /\ streak' = 0
         ELSE UNCHANGED <<circuit, streak>>
    /\ UNCHANGED <<pc, probe, failed, seen>>

\* handleMessage reads the circuit; a message that is not allowed is hidden.
Decide(w) ==
    /\ pc[w] = "idle"
    /\ getCircuitDecision(hash, now).allowed
    /\ probe' = [probe EXCEPT ![w] = getCircuitDecision(hash, now).halfOpen]
    /\ Goto(w, IF getCircuitDecision(hash, now).halfOpen THEN "mark" ELSE "post")
    /\ UNCHANGED <<now, circuit, failed, seen, streak>>

\* hset of halfOpenInFlight, also when the key is gone meanwhile.
MarkProbe(w) ==
    /\ pc[w] = "mark"
    /\ hash' = [hash EXCEPT !.halfOpenInFlight = TRUE]
    /\ Goto(w, "post")
    /\ UNCHANGED <<now, expiresAt, probe, failed, seen, streak>>

PostWebhook(w) ==
    /\ pc[w] = "post"
    /\ \E result \in BOOLEAN : failed' = [failed EXCEPT ![w] = result]
    /\ Goto(w, "read")
    /\ UNCHANGED <<now, circuit, probe, seen, streak>>

\* recordDeliveryFailure, recordDeliverySuccess: read, ...
ReadCircuitState(w) ==
    /\ pc[w] = "read"
    /\ seen' = [seen EXCEPT ![w] = hash]
    /\ Goto(w, "apply")
    /\ UNCHANGED <<now, circuit, probe, failed, streak>>

\* ... compute the next snapshot at Date.now(), ...
ApplyOutcome(w) ==
    /\ pc[w] = "apply"
    /\ seen' = [seen EXCEPT ![w] = IF failed[w] THEN applyFailure(@, now)
                                                 ELSE applySuccess(@, now)]
    /\ Goto(w, "write")
    /\ UNCHANGED <<now, circuit, probe, failed, streak>>

\* ... write its fields, ...
WriteCircuitState(w) ==
    /\ pc[w] = "write"
    /\ hash' = seen[w]
    /\ streak' = IF ~failed[w] THEN 0
                 ELSE IF streak < Threshold THEN streak + 1 ELSE streak
    /\ Goto(w, "expire")
    /\ UNCHANGED <<now, expiresAt, probe, failed, seen>>

\* ... and set the time to live.
ExpireKey(w) ==
    /\ pc[w] = "expire"
    /\ expiresAt' = now + Cooldown
    /\ Goto(w, "idle")
    /\ probe' = [probe EXCEPT ![w] = FALSE]
    /\ failed' = [failed EXCEPT ![w] = FALSE]
    /\ seen' = [seen EXCEPT ![w] = Closed]
    /\ UNCHANGED <<now, hash, streak>>

\* The handler gives up, or its process dies, before the outcome is recorded.
Abandon(w) ==
    /\ pc[w] # "idle"
    /\ Goto(w, "idle")
    /\ probe' = [probe EXCEPT ![w] = FALSE]
    /\ failed' = [failed EXCEPT ![w] = FALSE]
    /\ seen' = [seen EXCEPT ![w] = Closed]
    /\ UNCHANGED <<now, circuit, streak>>

Step(w) ==
    \/ Decide(w) \/ MarkProbe(w) \/ PostWebhook(w)
    \/ ReadCircuitState(w) \/ ApplyOutcome(w) \/ WriteCircuitState(w)
    \/ ExpireKey(w) \/ Abandon(w)

Next == (Tick \/ \E w \in deployed : Step(w)) /\ UNCHANGED deployed

Spec == Init /\ [][Next]_vars

-----------------------------------------------------------------------------
TypeOK ==
    /\ deployed \subseteq Workers
    /\ now \in 1..MaxTime
    /\ hash \in Snapshots
    /\ expiresAt \in 0..(MaxTime + Cooldown)
    /\ pc \in [Workers -> {"idle", "mark", "post", "read", "apply", "write", "expire"}]
    /\ probe \in [Workers -> BOOLEAN]
    /\ failed \in [Workers -> BOOLEAN]
    /\ seen \in [Workers -> Snapshots]
    /\ streak \in 0..Threshold

\* No write, whoever's and however late, leaves the circuit refusing deliveries for
\* longer than one cooldown from now: an open circuit knows when it was opened, and
\* that moment has passed.
NeverStuck == hash.state = "open" => hash.openedAt \in 1..now

\* Once Threshold failures in a row are recorded the circuit is open, or a success
\* or the end of the key has reset it.
OpensAtThreshold == streak = Threshold => hash.state = "open"

\* No delivery runs while the circuit cools down: the decision read before the token
\* and the delivery row still stands when the webhook is called.
QuietCooldown ==
    \A w \in Workers : pc[w] \in {"mark", "post"} => ~CoolingDown(hash, now)

\* A deployment with one worker.
Alone == \A v, w \in deployed : v = w

\* With one worker the circuit opens at the threshold (applyFailure).
OpensWhenAlone == Alone => OpensAtThreshold

\* With one worker no delivery runs in a cooldown (getCircuitDecision).
QuietWhenAlone == Alone => QuietCooldown

\* A probe that fails opens the circuit again: when its outcome is recorded, the
\* next delivery has to wait.
FailedProbeReopens ==
    [][\A w \in Workers :
         ExpireKey(w) /\ probe[w] /\ failed[w] => CoolingDown(hash', now')]_vars
=============================================================================
