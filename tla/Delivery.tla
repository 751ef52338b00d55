------------------------------ MODULE Delivery ------------------------------
(***************************************************************************)
(* The delivery worker (packages/worker/src/index.ts) and what it shares   *)
(* with its peers: the SQS queue, the rows of deliveries and dead_letters, *)
(* and the objects in S3.                                                  *)
(*                                                                         *)
(* A worker handles one message at a time (processDeliveryBatch is         *)
(* sequential), and deletes the messages it delivered in the background.   *)
(* One action per awaited call: another worker, an expiring visibility     *)
(* timeout, an error or a crash may come between any two of them.          *)
(*                                                                         *)
(* Time is abstracted.  A hidden message may become visible at any moment, *)
(* also under a worker that still handles it: the lease is only tested     *)
(* before handleMessage starts, and a renewal can fail after that.  The    *)
(* circuit breaker and the tenant's token bucket are a choice between      *)
(* Admit and Defer.                                                        *)
(***************************************************************************)
EXTENDS Integers, FiniteSets

CONSTANTS Workers,      \* worker processes
          Events,       \* event ids
          Copies,       \* copies of one event's message the queue may hold
          Large,        \* events whose payload was stored in S3 at ingestion
          Malformed,    \* messages that parseQueueMessage rejects
          MaxAttempts,  \* MAX_DELIVERY_ATTEMPTS
          AckLimit,     \* limit of DeliveryConfirmations
          FaultBudget,  \* bound: crashes and failing calls in a behaviour
          AttemptCap,   \* bound: attempt_count of a row
          None

Messages == Events \X Copies
Rows     == Events \X Workers   \* a deliveries row: its event, its creator
Keys     == {"event", "dead"} \X Events

ASSUME DeliveryAssumption ==
    /\ IsFiniteSet(Workers)
    /\ Large \subseteq Events
    /\ Malformed \subseteq Messages
    /\ MaxAttempts \in Nat \ {0}
    /\ AckLimit \in Nat \ {0}
    /\ FaultBudget \in Nat
    /\ AttemptCap \in Nat
    /\ None \notin Messages
    /\ None \notin Rows

VARIABLES queue,        \* SQS: state of every message
          s3,           \* keys of the stored objects
          deliveries,   \* table deliveries (status "none": no such row)
          deadLetters,  \* table dead_letters, by delivery id
          acked,        \* events for which a worker saw a 2xx answer
          pc, msg, row, attempt,   \* handleMessage of each worker
          confirming,   \* messages whose delete runs in the background
          faults        \* crashes and failed calls so far

stores  == <<queue, s3, deliveries, deadLetters, acked>>
handler == <<pc, msg, row, attempt>>
vars    == <<stores, handler, confirming, faults>>

Steps == {"idle", "gate", "lookup", "find", "create", "update", "prepare",
          "post", "succeed", "confirm", "retry", "hide", "archive",
          "record", "bury", "ack"}

Statuses == {"none", "IN_FLIGHT", "FAILED", "SUCCEEDED", "DEAD_LETTERED"}

Event(w) == msg[w][1]

\* archivePayload: an event with a key keeps it, another gets a key of its own.
ArchiveKey(e) == IF e \in Large THEN <<"event", e>> ELSE <<"dead", e>>

\* Mutant: one attempt more than MAX_DELIVERY_ATTEMPTS.
ExhaustedLate(n) == n > MaxAttempts

\* isExhausted
Exhausted(n) == n >= MaxAttempts

RowsOf(e) == {r \in Rows : r[1] = e /\ deliveries[r].status # "none"}

Terminal(r) == deliveries[r].status \in {"SUCCEEDED", "DEAD_LETTERED"}

-----------------------------------------------------------------------------
Init ==
    /\ queue = [m \in Messages |-> "absent"]
    /\ s3 = {}
    /\ deliveries = [r \in Rows |->
                       [status |-> "none", attemptCount |-> 0, due |-> TRUE]]
    /\ deadLetters = {}
    /\ acked = {}
    /\ pc = [w \in Workers |-> "idle"]
    /\ msg = [w \in Workers |-> None]
    /\ row = [w \in Workers |-> None]
    /\ attempt = [w \in Workers |-> 0]
    /\ confirming = [w \in Workers |-> {}]
    /\ faults = 0

(***************************************************************************)
(* The environment: the API stores a large payload, the publisher sends a  *)
(* message, SQS lets a visibility timeout expire, time passes.             *)
(***************************************************************************)
StoreObject(e) ==
    /\ <<"event", e>> \notin s3
    /\ s3' = s3 \cup {<<"event", e>>}
    /\ UNCHANGED <<queue, deliveries, deadLetters, acked, handler, confirming, faults>>

Enqueue(m) ==
    /\ queue[m] = "absent"
    /\ m[1] \in Large => <<"event", m[1]>> \in s3
    /\ queue' = [queue EXCEPT ![m] = "visible"]
    /\ UNCHANGED <<s3, deliveries, deadLetters, acked, handler, confirming, faults>>

Expire(m) ==
    /\ queue[m] = "hidden"
    /\ queue' = [queue EXCEPT ![m] = "visible"]
    /\ UNCHANGED <<s3, deliveries, deadLetters, acked, handler, confirming, faults>>

\* A write to one row: its status, attempt_count, and whether next_attempt_at is
\* empty or past.
Write(r, status, n, due) ==
    deliveries' = [deliveries EXCEPT ![r] =
                     [status |-> status, attemptCount |-> n, due |-> due]]

FallDue(r) ==
    /\ ~deliveries[r].due
    /\ Write(r, deliveries[r].status, deliveries[r].attemptCount, TRUE)
    /\ UNCHANGED <<queue, s3, deadLetters, acked, handler, confirming, faults>>

-----------------------------------------------------------------------------
Goto(w, step) == pc' = [pc EXCEPT ![w] = step]

\* handleMessage returns or throws; its local variables are gone.
Return(w) ==
    /\ pc' = [pc EXCEPT ![w] = "idle"]
    /\ msg' = [msg EXCEPT ![w] = None]
    /\ row' = [row EXCEPT ![w] = None]
    /\ attempt' = [attempt EXCEPT ![w] = 0]

\* ReceiveMessage, a current lease and a tenant turn: handleMessage starts.
Receive(w, m) ==
    /\ pc[w] = "idle"
    /\ queue[m] = "visible"
    /\ queue' = [queue EXCEPT ![m] = "hidden"]
    /\ msg' = [msg EXCEPT ![w] = m]
    /\ Goto(w, "gate")
    /\ UNCHANGED <<s3, deliveries, deadLetters, acked, row, attempt, confirming, faults>>

\* Mutant: a message that does not parse is thrown back instead of deleted.
AdmitThrowsBack(w) ==
    /\ pc[w] = "gate"
    /\ IF msg[w] \in Malformed THEN Return(w)
                                ELSE Goto(w, "lookup") /\ UNCHANGED <<msg, row, attempt>>
    /\ UNCHANGED <<stores, confirming, faults>>

\* The circuit allows the delivery and the tenant has a token; a message that
\* does not parse is deleted.
Admit(w) ==
    /\ pc[w] = "gate"
    /\ Goto(w, IF msg[w] \in Malformed THEN "ack" ELSE "lookup")
    /\ UNCHANGED <<stores, msg, row, attempt, confirming, faults>>

\* Circuit open, no token, or no tenant turn left in this cycle.
Defer(w) ==
    /\ pc[w] = "gate"
    /\ Goto(w, "hide")
    /\ UNCHANGED <<stores, msg, row, attempt, confirming, faults>>

\* Mutant: a delivery in flight is taken for another worker's and its message
\* deleted.
LookupLeavesInFlight(w) ==
    /\ pc[w] = "lookup"
    /\ \/ RowsOf(Event(w)) = {} /\ Goto(w, "find")
       \/ \E r \in RowsOf(Event(w)) :
            Goto(w, IF Terminal(r) \/ deliveries[r].status = "IN_FLIGHT" THEN "ack" ELSE "find")
    /\ UNCHANGED <<stores, msg, row, attempt, confirming, faults>>

\* Mutant: a complete delivery is not recognised.
LookupIgnoresStatus(w) ==
    /\ pc[w] = "lookup"
    /\ \/ RowsOf(Event(w)) = {} /\ Goto(w, "find")
       \/ \E r \in RowsOf(Event(w)) :
            Goto(w, IF ~deliveries[r].due THEN "hide" ELSE "find")
    /\ UNCHANGED <<stores, msg, row, attempt, confirming, faults>>

\* findByEventAndUrl, which returns any one of the event's rows.
Lookup(w) ==
    /\ pc[w] = "lookup"
    /\ \/ /\ RowsOf(Event(w)) = {}
          /\ Goto(w, "find")
       \/ \E r \in RowsOf(Event(w)) :
            Goto(w, CASE Terminal(r)         -> "ack"
                      [] ~deliveries[r].due  -> "hide"
                      [] OTHER               -> "find")
    /\ UNCHANGED <<stores, msg, row, attempt, confirming, faults>>

\* upsertInFlight reads the rows again ...
FindExisting(w) ==
    /\ pc[w] = "find"
    /\ \/ /\ RowsOf(Event(w)) = {}
          /\ row' = [row EXCEPT ![w] = <<Event(w), w>>]
          /\ Goto(w, "create")
       \/ \E r \in RowsOf(Event(w)) :
            /\ row' = [row EXCEPT ![w] = r]
            /\ Goto(w, "update")
    /\ UNCHANGED <<stores, msg, attempt, confirming, faults>>

\* ... and then writes what it decided on.
CreateInFlight(w) ==
    /\ pc[w] = "create"
    /\ Write(row[w], "IN_FLIGHT", 1, TRUE)
    /\ attempt' = [attempt EXCEPT ![w] = 1]
    /\ Goto(w, "prepare")
    /\ UNCHANGED <<queue, s3, deadLetters, acked, msg, row, confirming, faults>>

UpdateInFlight(w) ==
    /\ pc[w] = "update"
    /\ deliveries[row[w]].attemptCount < AttemptCap
    /\ LET n == deliveries[row[w]].attemptCount + 1
       IN  Write(row[w], "IN_FLIGHT", n, TRUE) /\ attempt' = [attempt EXCEPT ![w] = n]
    /\ Goto(w, "prepare")
    /\ UNCHANGED <<queue, s3, deadLetters, acked, msg, row, confirming, faults>>

\* The secret and the payload are read; either may fail.
PrepareOk(w) ==
    /\ pc[w] = "prepare"
    /\ Event(w) \in Large => <<"event", Event(w)>> \in s3
    /\ Goto(w, "post")
    /\ UNCHANGED <<stores, msg, row, attempt, confirming, faults>>

\* Mutant: only a failed call is tested for exhaustion, not a missing payload.
AttemptFailsUnprepared(w) ==
    /\ pc[w] \in {"prepare", "post"}
    /\ Goto(w, IF pc[w] = "post" /\ Exhausted(attempt[w]) THEN "archive" ELSE "retry")
    /\ UNCHANGED <<stores, msg, row, attempt, confirming, faults>>

\* A failed attempt is retried, or moved to dead_letters when it was the last.
AttemptFails(w) ==
    /\ pc[w] \in {"prepare", "post"}
    /\ Goto(w, IF Exhausted(attempt[w]) THEN "archive" ELSE "retry")
    /\ UNCHANGED <<stores, msg, row, attempt, confirming, faults>>

\* postWebhook answers 2xx.
PostOk(w) ==
    /\ pc[w] = "post"
    /\ acked' = acked \cup {Event(w)}
    /\ Goto(w, "succeed")
    /\ UNCHANGED <<queue, s3, deliveries, deadLetters, msg, row, attempt, confirming, faults>>

MarkSucceeded(w) ==
    /\ pc[w] = "succeed"
    /\ Write(row[w], "SUCCEEDED", deliveries[row[w]].attemptCount, deliveries[row[w]].due)
    /\ Goto(w, "confirm")
    /\ UNCHANGED <<queue, s3, deadLetters, acked, msg, row, attempt, confirming, faults>>

\* DeliveryConfirmations.schedule waits for a free place, then starts the task.
ScheduleAck(w) ==
    /\ pc[w] = "confirm"
    /\ Cardinality(confirming[w]) < AckLimit
    /\ confirming' = [confirming EXCEPT ![w] = @ \cup {msg[w]}]
    /\ Return(w)
    /\ UNCHANGED <<stores, faults>>

MarkFailed(w) ==
    /\ pc[w] = "retry"
    /\ Write(row[w], "FAILED", deliveries[row[w]].attemptCount, FALSE)
    /\ Goto(w, "hide")
    /\ UNCHANGED <<queue, s3, deadLetters, acked, msg, row, attempt, confirming, faults>>

\* hideUntil: ChangeMessageVisibility, without effect when it fails or when the
\* receipt is out of date.
HideUntil(w) ==
    /\ pc[w] = "hide"
    /\ \/ UNCHANGED queue
       \/ /\ queue[msg[w]] = "visible"
          /\ queue' = [queue EXCEPT ![msg[w]] = "hidden"]
    /\ Return(w)
    /\ UNCHANGED <<s3, deliveries, deadLetters, acked, confirming, faults>>

\* Mutant: an upload that fails is passed over.
ArchivePayloadBestEffort(w) ==
    /\ pc[w] = "archive"
    /\ Goto(w, "record")
    /\ UNCHANGED <<stores, msg, row, attempt, confirming, faults>>

\* Mutant: the status is written before the dead letter.
ArchivePayloadThenStatus(w) ==
    /\ pc[w] = "archive"
    /\ s3' = IF Event(w) \in Large THEN s3 ELSE s3 \cup {<<"dead", Event(w)>>}
    /\ Goto(w, "bury")
    /\ UNCHANGED <<queue, deliveries, deadLetters, acked, msg, row, attempt, confirming, faults>>

\* moveToDeadLetter: the payload, the record, the status, the message.
ArchivePayload(w) ==
    /\ pc[w] = "archive"
    /\ s3' = IF Event(w) \in Large THEN s3 ELSE s3 \cup {<<"dead", Event(w)>>}
    /\ Goto(w, "record")
    /\ UNCHANGED <<queue, deliveries, deadLetters, acked, msg, row, attempt, confirming, faults>>

CreateDeadLetter(w) ==
    /\ pc[w] = "record"
    /\ deadLetters' = deadLetters \cup {row[w]}
    /\ Goto(w, "bury")
    /\ UNCHANGED <<queue, s3, deliveries, acked, msg, row, attempt, confirming, faults>>

MarkDeadLettered(w) ==
    /\ pc[w] = "bury"
    /\ Write(row[w], "DEAD_LETTERED", deliveries[row[w]].attemptCount, TRUE)
    /\ Goto(w, "ack")
    /\ UNCHANGED <<queue, s3, deadLetters, acked, msg, row, attempt, confirming, faults>>

\* acknowledgeMessage inside the handler, and as a background task.
Acknowledge(w) ==
    /\ pc[w] = "ack"
    /\ queue' = [queue EXCEPT ![msg[w]] = "deleted"]
    /\ Return(w)
    /\ UNCHANGED <<s3, deliveries, deadLetters, acked, confirming, faults>>

AcknowledgeFails(w) ==
    /\ pc[w] = "ack"
    /\ Return(w)
    /\ UNCHANGED <<stores, confirming, faults>>

ConfirmDelete(w, m) ==
    /\ m \in confirming[w]
    /\ queue' = [queue EXCEPT ![m] = "deleted"]
    /\ confirming' = [confirming EXCEPT ![w] = @ \ {m}]
    /\ UNCHANGED <<s3, deliveries, deadLetters, acked, handler, faults>>

ConfirmFails(w, m) ==
    /\ m \in confirming[w]
    /\ confirming' = [confirming EXCEPT ![w] = @ \ {m}]
    /\ UNCHANGED <<stores, handler, faults>>

\* Any call may throw (a write may have been applied all the same): the lease is
\* released and the message reappears when its timeout expires.
HandlerError(w) ==
    /\ pc[w] # "idle"
    /\ faults < FaultBudget
    /\ faults' = faults + 1
    /\ Return(w)
    /\ UNCHANGED <<stores, confirming>>

\* The process dies and is started again.
Crash(w) ==
    /\ pc[w] # "idle" \/ confirming[w] # {}
    /\ faults < FaultBudget
    /\ faults' = faults + 1
    /\ Return(w)
    /\ confirming' = [confirming EXCEPT ![w] = {}]
    /\ UNCHANGED <<stores>>
-----------------------------------------------------------------------------
Arrival ==
    \/ \E e \in Large : StoreObject(e)
    \/ \E m \in Messages : Enqueue(m)

Clock ==
    \/ \E m \in Messages : Expire(m)
    \/ \E r \in Rows : FallDue(r)

\* The handler's own progress: every step but errors and crashes.
HandlerStep(w) ==
    \/ \E m \in Messages : Receive(w, m)
    \/ Admit(w) \/ Defer(w)
    \/ Lookup(w) \/ FindExisting(w) \/ CreateInFlight(w) \/ UpdateInFlight(w)
    \/ PrepareOk(w) \/ PostOk(w) \/ AttemptFails(w)
    \/ MarkSucceeded(w) \/ ScheduleAck(w)
    \/ MarkFailed(w) \/ HideUntil(w)
    \/ ArchivePayload(w) \/ CreateDeadLetter(w) \/ MarkDeadLettered(w)
    \/ Acknowledge(w) \/ AcknowledgeFails(w)

ConfirmStep(w) == \E m \in Messages : ConfirmDelete(w, m) \/ ConfirmFails(w, m)

WorkerNext(w) ==
    HandlerStep(w) \/ ConfirmStep(w) \/ HandlerError(w) \/ Crash(w)

Next == Arrival \/ Clock \/ \E w \in Workers : WorkerNext(w)

Spec == Init /\ [][Next]_vars

(***************************************************************************)
(* A running worker keeps polling and finishes what it awaits (every call  *)
(* has a timeout); a visibility timeout expires and a retry falls due.     *)
(* Strong fairness where one step may be refused again and again but not   *)
(* for ever: the circuit lets a probe through after its cooldown and the   *)
(* bucket refills; SQS does not fail every delete of a message.            *)
(***************************************************************************)
Fairness ==
    /\ \A w \in Workers :
         /\ WF_vars(HandlerStep(w))
         /\ WF_vars(ConfirmStep(w))
         /\ SF_vars(Admit(w))
         /\ \A m \in Messages :
              SF_vars(msg[w] = m /\ Acknowledge(w))
    /\ \A m \in Messages : WF_vars(Expire(m))
    /\ \A r \in Rows : WF_vars(FallDue(r))

FairSpec == Spec /\ Fairness

-----------------------------------------------------------------------------
TypeOK ==
    /\ queue \in [Messages -> {"absent", "visible", "hidden", "deleted"}]
    /\ s3 \subseteq Keys
    /\ deliveries \in [Rows -> [status : Statuses, attemptCount : Nat, due : BOOLEAN]]
    /\ deadLetters \subseteq Rows
    /\ acked \subseteq Events
    /\ pc \in [Workers -> Steps]
    /\ msg \in [Workers -> Messages \cup {None}]
    /\ row \in [Workers -> Rows \cup {None}]
    /\ attempt \in [Workers -> Nat]
    /\ confirming \in [Workers -> SUBSET Messages]
    /\ faults \in 0..FaultBudget

\* The event was delivered, or waits in dead_letters.
Finished(e) == e \in acked \/ \E r \in deadLetters : r[1] = e

\* A message leaves the queue for good only when its event was delivered or has
\* a dead letter, whichever of several workers deletes it and whatever crashed
\* or timed out before: acknowledgeMessage is reached no other way.
NoLoss ==
    \A m \in Messages \ Malformed : queue[m] = "deleted" => Finished(m[1])

\* The archive key of every dead letter names an object that is in S3:
\* moveToDeadLetter writes the object first, and a large event had it before its
\* message was sent.
DeadLetterArchived == \A r \in deadLetters : ArchiveKey(r[1]) \in s3

\* A terminal status is never ahead of the fact it stands for: SUCCEEDED of a 2xx
\* answer, DEAD_LETTERED of the dead letter that a replay needs.
TerminalRecorded ==
    \A r \in Rows :
      /\ deliveries[r].status = "SUCCEEDED" => r[1] \in acked
      /\ deliveries[r].status = "DEAD_LETTERED" => r \in deadLetters

\* Attempts beyond MAX_DELIVERY_ATTEMPTS only make up for attempts that a crash or
\* a failed call cut off before they were recorded, and an attempt is recorded as
\* FAILED only when the retry that nextAttemptAt announces is within the budget.
AttemptBudget ==
    \A r \in Rows :
      /\ deliveries[r].attemptCount <= MaxAttempts + faults
      /\ deliveries[r].status = "FAILED" => deliveries[r].attemptCount < MaxAttempts

\* A delivery that is complete stays complete: its row is not reopened.
CompleteStays ==
    [][\A r \in Rows : Terminal(r) => deliveries'[r] = deliveries[r]]_vars

\* The same of the deliveries that a replay starts from.
DeadLetteredStays ==
    [][\A r \in Rows : deliveries[r].status = "DEAD_LETTERED"
                         => deliveries'[r] = deliveries[r]]_vars

\* Every message that is sent is finally deleted from the queue.
Settles == \A m \in Messages : queue[m] = "visible" ~> queue[m] = "deleted"
=============================================================================
