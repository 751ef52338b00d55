--------------------------- MODULE DeliveryProofs ---------------------------
(***************************************************************************)
(* Proofs about Delivery, for any number of workers, events, copies of a   *)
(* message, attempts and faults.                                           *)
(***************************************************************************)
EXTENDS Delivery, TLAPS

(***************************************************************************)
(* The inductive invariant.  Each part says what a worker may rely on at   *)
(* some step of handleMessage although other workers run in between: facts *)
(* that are never undone.                                                  *)
(***************************************************************************)
\* A worker holds messages that were sent, and from upsertInFlight on a row of
\* the event it handles.
HoldsMessage ==
    \A w \in Workers :
      /\ pc[w] # "idle" => msg[w] \in Messages /\ queue[msg[w]] # "absent"
      /\ pc[w] \notin {"idle", "gate", "lookup", "find", "hide", "ack"}
           => row[w] \in Rows /\ row[w][1] = Event(w)
      /\ \A m \in confirming[w] : queue[m] # "absent"

\* The payload of a large event was stored before its message was sent.
PayloadStored ==
    \A m \in Messages : m[1] \in Large /\ queue[m] # "absent" => <<"event", m[1]>> \in s3

\* What makes a worker delete a message, or write a terminal status.
Justified ==
    \A w \in Workers :
      /\ pc[w] = "ack" /\ msg[w] \notin Malformed => Finished(Event(w))
      /\ pc[w] \in {"succeed", "confirm"} => Event(w) \in acked
      /\ pc[w] = "record" => ArchiveKey(Event(w)) \in s3
      /\ pc[w] = "bury" => row[w] \in deadLetters
      /\ \A m \in confirming[w] : Finished(m[1])

Safety == NoLoss /\ DeadLetterArchived /\ TerminalRecorded

IInv == TypeOK /\ HoldsMessage /\ PayloadStored /\ Justified /\ Safety
-----------------------------------------------------------------------------
TypeInv == TypeOK /\ HoldsMessage

USE DeliveryAssumption

\* The tables and the handlers keep their types; a row or message that a worker
\* uses is one that exists.
LEMMA TypeStep == TypeInv /\ [Next]_vars => TypeInv'
<1> SUFFICES ASSUME TypeInv, [Next]_vars PROVE TypeInv'
  OBVIOUS
<1> USE DEF TypeInv, TypeOK, HoldsMessage, Messages, Rows, Keys, Steps, Statuses,
            Event, vars, stores, handler, Goto, Return
<1>1. ASSUME NEW e \in Large, StoreObject(e) PROVE TypeInv'
  BY <1>1 DEF StoreObject
<1>2. ASSUME NEW m \in Messages, Enqueue(m) PROVE TypeInv'
  BY <1>2 DEF Enqueue
<1>3. ASSUME NEW m \in Messages, Expire(m) PROVE TypeInv'
  BY <1>3 DEF Expire
<1>4. ASSUME NEW r \in Rows, FallDue(r) PROVE TypeInv'
  BY <1>4 DEF FallDue, Write
<1>5. ASSUME NEW w \in Workers, NEW m \in Messages, Receive(w, m) PROVE TypeInv'
  BY <1>5 DEF Receive
<1>6. ASSUME NEW w \in Workers, Admit(w) \/ Defer(w) PROVE TypeInv'
  BY <1>6 DEF Admit, Defer
<1>7. ASSUME NEW w \in Workers, Lookup(w) PROVE TypeInv'
  BY <1>7 DEF Lookup
<1>8. ASSUME NEW w \in Workers, FindExisting(w) PROVE TypeInv'
  <2>1. PICK r \in Rows : r[1] = Event(w) /\ row' = [row EXCEPT ![w] = r]
    BY <1>8 DEF FindExisting, RowsOf
  <2>2. pc' = [pc EXCEPT ![w] = "create"] \/ pc' = [pc EXCEPT ![w] = "update"]
    BY <1>8 DEF FindExisting
  <2> QED
    BY <1>8, <2>1, <2>2 DEF FindExisting
<1>9. ASSUME NEW w \in Workers, CreateInFlight(w) PROVE TypeInv'
  BY <1>9 DEF CreateInFlight, Write
<1>10. ASSUME NEW w \in Workers, UpdateInFlight(w) PROVE TypeInv'
  BY <1>10 DEF UpdateInFlight, Write
<1>11. ASSUME NEW w \in Workers, PrepareOk(w) \/ AttemptFails(w) PROVE TypeInv'
  <2>1. CASE PrepareOk(w)
    BY <2>1 DEF PrepareOk
  <2>2. CASE AttemptFails(w)
    BY <2>2 DEF AttemptFails
  <2> QED
    BY <1>11, <2>1, <2>2
<1>12. ASSUME NEW w \in Workers, PostOk(w) PROVE TypeInv'
  BY <1>12 DEF PostOk
<1>13. ASSUME NEW w \in Workers, MarkSucceeded(w) PROVE TypeInv'
  BY <1>13 DEF MarkSucceeded, Write
<1>14. ASSUME NEW w \in Workers, ScheduleAck(w) PROVE TypeInv'
  BY <1>14 DEF ScheduleAck
<1>15. ASSUME NEW w \in Workers, MarkFailed(w) PROVE TypeInv'
  BY <1>15 DEF MarkFailed, Write
<1>16. ASSUME NEW w \in Workers, HideUntil(w) PROVE TypeInv'
  BY <1>16 DEF HideUntil
<1>17. ASSUME NEW w \in Workers, ArchivePayload(w) PROVE TypeInv'
  BY <1>17 DEF ArchivePayload
<1>18. ASSUME NEW w \in Workers, CreateDeadLetter(w) PROVE TypeInv'
  BY <1>18 DEF CreateDeadLetter
<1>19. ASSUME NEW w \in Workers, MarkDeadLettered(w) PROVE TypeInv'
  BY <1>19 DEF MarkDeadLettered, Write
<1>20. ASSUME NEW w \in Workers, Acknowledge(w) \/ AcknowledgeFails(w) PROVE TypeInv'
  <2>1. CASE Acknowledge(w)
    BY <2>1 DEF Acknowledge
  <2>2. CASE AcknowledgeFails(w)
    BY <2>2 DEF AcknowledgeFails
  <2> QED
    BY <1>20, <2>1, <2>2
<1>21. ASSUME NEW w \in Workers, NEW m \in Messages, ConfirmDelete(w, m) \/ ConfirmFails(w, m)
       PROVE TypeInv'
  <2>1. CASE ConfirmDelete(w, m)
    BY <2>1 DEF ConfirmDelete
  <2>2. CASE ConfirmFails(w, m)
    BY <2>2 DEF ConfirmFails
  <2> QED
    BY <1>21, <2>1, <2>2
<1>22. ASSUME NEW w \in Workers, HandlerError(w) \/ Crash(w) PROVE TypeInv'
  <2>1. CASE HandlerError(w)
    BY <2>1 DEF HandlerError
  <2>2. CASE Crash(w)
    BY <2>2 DEF Crash
  <2> QED
    BY <1>22, <2>1, <2>2
<1>23. CASE UNCHANGED vars
  BY <1>23
<1> QED
  BY <1>1, <1>2, <1>3, <1>4, <1>5, <1>6, <1>7, <1>8, <1>9, <1>10, <1>11, <1>12, <1>13,
     <1>14, <1>15, <1>16, <1>17, <1>18, <1>19, <1>20, <1>21, <1>22, <1>23
     DEF Next, Arrival, Clock, WorkerNext, HandlerStep, ConfirmStep
\* Initially the types hold, and nothing is sent or handled.
LEMMA TypeInit == Init => TypeInv
  BY DEF Init, TypeInv, TypeOK, HoldsMessage, Messages, Rows, Keys, Steps, Statuses

\* In every state of every behaviour the tables, the queue and the handlers have
\* their types.
THEOREM TypeCorrect == Spec => []TypeOK
<1>1. TypeInv => TypeOK
  BY DEF TypeInv
<1> QED
  BY <1>1, TypeInit, TypeStep, PTL DEF Spec
-----------------------------------------------------------------------------
\* Answers, dead letters and objects are facts that no step takes back.
LEMMA FactsStay ==
    ASSUME [Next]_vars
    PROVE  /\ acked \subseteq acked'
           /\ deadLetters \subseteq deadLetters'
           /\ s3 \subseteq s3'
<1> USE DEF vars, stores, handler
<1>1. ASSUME Arrival \/ Clock
      PROVE  acked \subseteq acked' /\ deadLetters \subseteq deadLetters' /\ s3 \subseteq s3'
  BY <1>1 DEF Arrival, Clock, StoreObject, Enqueue, Expire, FallDue
<1>2. ASSUME NEW w \in Workers, WorkerNext(w)
      PROVE  acked \subseteq acked' /\ deadLetters \subseteq deadLetters' /\ s3 \subseteq s3'
  BY <1>2 DEF WorkerNext, HandlerStep, ConfirmStep, Receive, Admit, Defer, Lookup,
     FindExisting, CreateInFlight, UpdateInFlight, PrepareOk, AttemptFails, PostOk,
     MarkSucceeded, ScheduleAck, MarkFailed, HideUntil, ArchivePayload, CreateDeadLetter,
     MarkDeadLettered, Acknowledge, AcknowledgeFails, ConfirmDelete, ConfirmFails,
     HandlerError, Crash
<1> QED
  BY <1>1, <1>2 DEF Next

\* A message that was sent never becomes one that was not.
LEMMA SentStays ==
    ASSUME TypeInv, [Next]_vars, NEW m \in Messages, queue[m] # "absent"
    PROVE  queue'[m] # "absent"
<1> USE DEF TypeInv, TypeOK, HoldsMessage, vars, stores, handler
<1>2. ASSUME NEW n \in Messages, Enqueue(n) \/ Expire(n) PROVE queue'[m] # "absent"
  BY <1>2 DEF Enqueue, Expire
<1>3. ASSUME NEW w \in Workers, HandlerStep(w) PROVE queue'[m] # "absent"
  <2>1. ASSUME NEW n \in Messages, Receive(w, n) PROVE queue'[m] # "absent"
    BY <2>1 DEF Receive
  <2>2. CASE HideUntil(w)
    BY <2>2 DEF HideUntil
  <2>3. CASE Acknowledge(w)
    BY <2>3 DEF Acknowledge
  <2>4. ASSUME UNCHANGED queue PROVE queue'[m] # "absent"
    BY <2>4
  <2> QED
    BY <1>3, <2>1, <2>2, <2>3, <2>4 DEF HandlerStep, Admit, Defer, Lookup, FindExisting,
       CreateInFlight, UpdateInFlight, PrepareOk, AttemptFails, PostOk, MarkSucceeded,
       ScheduleAck, MarkFailed, ArchivePayload, CreateDeadLetter, MarkDeadLettered,
       AcknowledgeFails
<1>4. ASSUME NEW w \in Workers, ConfirmStep(w) PROVE queue'[m] # "absent"
  BY <1>4 DEF ConfirmStep, ConfirmDelete, ConfirmFails
<1> QED
  BY <1>2, <1>3, <1>4 DEF Next, Arrival, Clock, WorkerNext, StoreObject, FallDue, HandlerError, Crash

\* Each action keeps the inductive invariant: what a worker relies on was made
\* true before the step it relies on it at, and stays true.
LEMMA SafetyStep == IInv /\ [Next]_vars => IInv'
<1> DEFINE Rest == PayloadStored /\ Justified /\ Safety
<1> SUFFICES ASSUME IInv, [Next]_vars PROVE Rest'
  BY TypeStep DEF IInv, TypeInv
<1>0. TypeInv /\ TypeInv' /\ acked \subseteq acked' /\ deadLetters \subseteq deadLetters' /\ s3 \subseteq s3'
  BY TypeStep, FactsStay DEF IInv, TypeInv
<1>f. ASSUME NEW e \in Events, Finished(e) PROVE Finished(e)'
  BY <1>0, <1>f DEF Finished
<1> USE <1>0, <1>f DEF TypeInv, TypeOK, HoldsMessage, IInv, PayloadStored, Justified, Safety, NoLoss,
            DeadLetterArchived, TerminalRecorded, ArchiveKey, Event,
            Messages, Rows, Keys, Steps, Statuses, vars, stores, handler, Goto, Return
<1>1. ASSUME NEW e \in Large, StoreObject(e) PROVE Rest'
  BY <1>1 DEF StoreObject
<1>2. ASSUME NEW m \in Messages, Enqueue(m) PROVE Rest'
  <2>1. PayloadStored'
    BY <1>2 DEF Enqueue
  <2>2. Justified'
    BY <1>2 DEF Enqueue
  <2>3. NoLoss'
    BY <1>2 DEF Enqueue
  <2>4. DeadLetterArchived'
    BY <1>2 DEF Enqueue
  <2>5. TerminalRecorded'
    BY <1>2 DEF Enqueue
  <2> QED
    BY <2>1, <2>2, <2>3, <2>4, <2>5
<1>3. ASSUME NEW m \in Messages, Expire(m) PROVE Rest'
  BY <1>3 DEF Expire
<1>4. ASSUME NEW r \in Rows, FallDue(r) PROVE Rest'
  BY <1>4 DEF FallDue, Write
<1>5. ASSUME NEW w \in Workers, NEW m \in Messages, Receive(w, m) PROVE Rest'
  BY <1>5 DEF Receive
<1>6. ASSUME NEW w \in Workers, Admit(w) PROVE Rest'
  BY <1>6 DEF Admit
<1>7. ASSUME NEW w \in Workers, Defer(w) PROVE Rest'
  BY <1>7 DEF Defer
<1>8. ASSUME NEW w \in Workers, Lookup(w) PROVE Rest'
  <2>1. PayloadStored'
    BY <1>8 DEF Lookup, RowsOf, Terminal
  <2>2. Justified'
    <3>1. ASSUME NEW r \in RowsOf(Event(w)), Terminal(r) PROVE Finished(Event(w))
      BY <3>1 DEF RowsOf, Terminal, Finished
    <3>2. pc'[w] = "ack" => Finished(Event(w))
      BY <1>8, <3>1 DEF Lookup
    <3>3. pc'[w] \in {"ack", "hide", "find"}
      BY <1>8 DEF Lookup
    <3> QED
      BY <1>8, <3>2, <3>3 DEF Lookup
  <2>3. NoLoss'
    BY <1>8 DEF Lookup, RowsOf, Terminal
  <2>4. DeadLetterArchived'
    BY <1>8 DEF Lookup, RowsOf, Terminal
  <2>5. TerminalRecorded'
    BY <1>8 DEF Lookup, RowsOf, Terminal
  <2> QED
    BY <2>1, <2>2, <2>3, <2>4, <2>5
<1>9. ASSUME NEW w \in Workers, FindExisting(w) PROVE Rest'
  <2>1. pc' = [pc EXCEPT ![w] = "create"] \/ pc' = [pc EXCEPT ![w] = "update"]
    BY <1>9 DEF FindExisting
  <2>2. \A v \in Workers : v # w => row'[v] = row[v]
    BY <1>9 DEF FindExisting
  <2>3. UNCHANGED <<stores, msg, confirming>>
    BY <1>9 DEF FindExisting
  <2>4. Justified'
    BY <2>1, <2>2, <2>3
  <2>5. PayloadStored' /\ Safety'
    BY <2>3 DEF Finished
  <2> QED
    BY <2>4, <2>5
<1>10. ASSUME NEW w \in Workers, CreateInFlight(w) PROVE Rest'
  BY <1>10 DEF CreateInFlight, Write
<1>11. ASSUME NEW w \in Workers, UpdateInFlight(w) PROVE Rest'
  BY <1>11 DEF UpdateInFlight, Write
<1>12. ASSUME NEW w \in Workers, PrepareOk(w) PROVE Rest'
  BY <1>12 DEF PrepareOk
<1>13. ASSUME NEW w \in Workers, AttemptFails(w) PROVE Rest'
  BY <1>13 DEF AttemptFails
<1>14. ASSUME NEW w \in Workers, PostOk(w) PROVE Rest'
  BY <1>14 DEF PostOk
<1>15. ASSUME NEW w \in Workers, MarkSucceeded(w) PROVE Rest'
  <2>1. PayloadStored'
    BY <1>15 DEF MarkSucceeded, Write
  <2>2. Justified'
    BY <1>15 DEF MarkSucceeded, Write
  <2>3. NoLoss'
    BY <1>15 DEF MarkSucceeded, Write
  <2>4. DeadLetterArchived'
    BY <1>15 DEF MarkSucceeded, Write
  <2>5. TerminalRecorded'
    <3>1. row[w] \in Rows /\ row[w][1] \in acked'
      BY <1>15 DEF MarkSucceeded
    <3>2. ASSUME NEW r \in Rows, r # row[w] PROVE deliveries'[r] = deliveries[r]
      BY <1>15, <3>2 DEF MarkSucceeded, Write
    <3>3. deliveries'[row[w]].status = "SUCCEEDED"
      BY <1>15, <3>1 DEF MarkSucceeded, Write
    <3> QED
      BY <3>1, <3>2, <3>3
  <2> QED
    BY <2>1, <2>2, <2>3, <2>4, <2>5
<1>16. ASSUME NEW w \in Workers, ScheduleAck(w) PROVE Rest'
  BY <1>16 DEF ScheduleAck, Finished
<1>17. ASSUME NEW w \in Workers, MarkFailed(w) PROVE Rest'
  BY <1>17 DEF MarkFailed, Write
<1>18. ASSUME NEW w \in Workers, HideUntil(w) PROVE Rest'
  BY <1>18 DEF HideUntil
<1>19. ASSUME NEW w \in Workers, ArchivePayload(w) PROVE Rest'
  BY <1>19 DEF ArchivePayload
<1>20. ASSUME NEW w \in Workers, CreateDeadLetter(w) PROVE Rest'
  BY <1>20 DEF CreateDeadLetter
<1>21. ASSUME NEW w \in Workers, MarkDeadLettered(w) PROVE Rest'
  <2>1. PayloadStored'
    BY <1>21 DEF MarkDeadLettered, Write
  <2>2. Justified'
    <3>1. row[w] \in deadLetters' /\ row[w][1] = msg[w][1]
      BY <1>21 DEF MarkDeadLettered
    <3>2. Finished(Event(w))'
      BY <1>21, <3>1 DEF MarkDeadLettered, Finished
    <3> QED
      BY <1>21, <3>2 DEF MarkDeadLettered
  <2>3. NoLoss'
    BY <1>21 DEF MarkDeadLettered, Write
  <2>4. DeadLetterArchived'
    BY <1>21 DEF MarkDeadLettered, Write
  <2>5. TerminalRecorded'
    <3>1. row[w] \in Rows /\ row[w] \in deadLetters'
      BY <1>21 DEF MarkDeadLettered
    <3>2. ASSUME NEW r \in Rows, r # row[w] PROVE deliveries'[r] = deliveries[r]
      BY <1>21, <3>2 DEF MarkDeadLettered, Write
    <3>3. deliveries'[row[w]].status = "DEAD_LETTERED"
      BY <1>21, <3>1 DEF MarkDeadLettered, Write
    <3> QED
      BY <3>1, <3>2, <3>3
  <2> QED
    BY <2>1, <2>2, <2>3, <2>4, <2>5
<1>22. ASSUME NEW w \in Workers, Acknowledge(w) PROVE Rest'
  <2>1. PayloadStored'
    BY <1>22 DEF Acknowledge
  <2>2. Justified'
    BY <1>22 DEF Acknowledge
  <2>3. NoLoss'
    <3>1. PICK m \in Messages : m = msg[w]
      BY <1>22 DEF Acknowledge
    <3>2. m \in Malformed \/ Finished(m[1])'
      BY <1>22, <3>1 DEF Acknowledge
    <3>3. ASSUME NEW n \in Messages, n # m PROVE queue'[n] = queue[n]
      BY <1>22, <3>1, <3>3 DEF Acknowledge
    <3> QED
      BY <3>2, <3>3
  <2>4. DeadLetterArchived'
    BY <1>22 DEF Acknowledge
  <2>5. TerminalRecorded'
    BY <1>22 DEF Acknowledge
  <2> QED
    BY <2>1, <2>2, <2>3, <2>4, <2>5
<1>23. ASSUME NEW w \in Workers, AcknowledgeFails(w) PROVE Rest'
  BY <1>23 DEF AcknowledgeFails
<1>24. ASSUME NEW w \in Workers, HandlerError(w) PROVE Rest'
  BY <1>24 DEF HandlerError
<1>25. ASSUME NEW w \in Workers, Crash(w) PROVE Rest'
  BY <1>25 DEF Crash
<1>26. ASSUME NEW w \in Workers, NEW m \in Messages, ConfirmDelete(w, m) PROVE Rest'
  <2>1. PayloadStored'
    <3>1. queue[m] # "absent"
      BY <1>26 DEF ConfirmDelete
    <3> QED
      BY <1>26, <3>1 DEF ConfirmDelete
  <2>2. Justified'
    BY <1>26 DEF ConfirmDelete
  <2>3. NoLoss'
    <3>1. Finished(m[1])'
      BY <1>26 DEF ConfirmDelete
    <3> QED
      BY <1>26, <3>1 DEF ConfirmDelete
  <2>4. DeadLetterArchived'
    BY <1>26 DEF ConfirmDelete
  <2>5. TerminalRecorded'
    BY <1>26 DEF ConfirmDelete
  <2> QED
    BY <2>1, <2>2, <2>3, <2>4, <2>5
<1>27. ASSUME NEW w \in Workers, NEW m \in Messages, ConfirmFails(w, m) PROVE Rest'
  BY <1>27 DEF ConfirmFails
<1>28. CASE UNCHANGED vars
  BY <1>28
<1> QED
  BY <1>1, <1>2, <1>3, <1>4, <1>5, <1>6, <1>7, <1>8, <1>9, <1>10, <1>11, <1>12,
     <1>13, <1>14, <1>15, <1>16, <1>17, <1>18, <1>19, <1>20, <1>21, <1>22, <1>23,
     <1>24, <1>25, <1>26, <1>27, <1>28
     DEF Next, Arrival, Clock, WorkerNext, HandlerStep, ConfirmStep

\* The inductive invariant holds from the start, when nothing is sent or stored.
LEMMA InvInit == Init => IInv
  BY TypeInit DEF Init, IInv, TypeInv, PayloadStored, Justified, Safety, NoLoss,
     DeadLetterArchived, TerminalRecorded

LEMMA Invariance == Spec => []IInv
  BY InvInit, SafetyStep, PTL DEF Spec

\* No accepted message is lost, however many workers handle its copies at once
\* and wherever they crash: acknowledgeMessage is only reached for an event that
\* a target answered 2xx or that has a dead letter.
THEOREM NothingLost == Spec => []NoLoss
  BY Invariance, PTL DEF IInv, Safety

\* Every dead letter can be replayed as far as its payload goes: the object under
\* its archive key was stored before the record was written.
THEOREM DeadLettersArchived == Spec => []DeadLetterArchived
  BY Invariance, PTL DEF IInv, Safety

\* A terminal status in deliveries is never ahead of the 2xx answer or the dead
\* letter, although rows are shared and rewritten by workers that race.
THEOREM TerminalsRecorded == Spec => []TerminalRecorded
  BY Invariance, PTL DEF IInv, Safety
-----------------------------------------------------------------------------
(***************************************************************************)
(* One worker alone.  Nobody comes between its reading of a row and its    *)
(* writing, so a row says what the worker does with it; with two workers   *)
(* none of this holds.                                                     *)
(***************************************************************************)
Alone == \A v, w \in Workers : v = w

\* The steps of handleMessage from the IN_FLIGHT record of an attempt to the
\* record of its outcome.
Attempting == {"prepare", "post", "succeed", "retry", "archive", "record", "bury"}

Held(r) == \E w \in Workers : pc[w] \in Attempting /\ row[w] = r

\* An attempt whose worker is gone was cut off by a fault, and a row is not due
\* only when it is FAILED.
RowsFit ==
    \A r \in Rows :
      /\ deliveries[r].status # "FAILED" => deliveries[r].due
      /\ deliveries[r].status = "IN_FLIGHT" /\ ~Held(r)
           => deliveries[r].attemptCount < MaxAttempts + faults

\* What the worker read of its row is still so when it writes it.
WorkerFits ==
    \A w \in Workers :
      /\ pc[w] = "find" => \A r \in Rows : r[1] = Event(w) => ~Terminal(r)
      /\ pc[w] = "create" => deliveries[row[w]].status = "none"
      /\ pc[w] = "update" => deliveries[row[w]].status \in {"IN_FLIGHT", "FAILED"}
      /\ pc[w] = "update" => ~Held(row[w])
      /\ pc[w] \in Attempting =>
           /\ deliveries[row[w]].status = "IN_FLIGHT"
           /\ deliveries[row[w]].attemptCount = attempt[w]
      /\ pc[w] = "retry" => attempt[w] < MaxAttempts

AloneInv == TypeInv /\ RowsFit /\ WorkerFits /\ AttemptBudget

\* The only worker has one row for an event.
LEMMA OneRow == ASSUME Alone, NEW r \in Rows, NEW s \in Rows, r[1] = s[1] PROVE r = s
<1>1. PICK e \in Events, v \in Workers : r = <<e, v>>
  BY DEF Rows
<1>2. PICK d \in Events, w \in Workers : s = <<d, w>>
  BY DEF Rows
<1> QED
  BY <1>1, <1>2 DEF Alone

\* Each step of the only worker keeps it.
LEMMA AloneStep == Alone /\ AloneInv /\ [Next]_vars => AloneInv'
<1> SUFFICES ASSUME Alone, AloneInv, [Next]_vars PROVE RowsFit' /\ WorkerFits' /\ AttemptBudget'
  BY TypeStep DEF AloneInv
<1> DEFINE Goal == RowsFit' /\ WorkerFits' /\ AttemptBudget'
<1>0. TypeInv /\ TypeInv'
  BY TypeStep DEF AloneInv
<1> USE <1>0 DEF Alone, AloneInv, RowsFit, WorkerFits, AttemptBudget, Held, Attempting, TypeInv, TypeOK,
            HoldsMessage, Event, Terminal, Messages, Rows, vars, stores, handler, Goto, Return
<1>u. \A r, s \in Rows : r[1] = s[1] => r = s
  BY OneRow
<1>1. ASSUME UNCHANGED <<deliveries, pc, msg, row, attempt, faults>> PROVE Goal
  BY <1>1
<1>2. ASSUME NEW r \in Rows, FallDue(r) PROVE Goal
  BY <1>2 DEF FallDue, Write
<1>3. ASSUME NEW w \in Workers, NEW m \in Messages, Receive(w, m) PROVE Goal
  BY <1>3 DEF Receive
<1>4. ASSUME NEW w \in Workers, Admit(w) \/ Defer(w) PROVE Goal
  BY <1>4 DEF Admit, Defer
<1>5. ASSUME NEW w \in Workers, Lookup(w) PROVE Goal
  <2>1. CASE pc' = [pc EXCEPT ![w] = "find"]
    <3>1. \A r \in Rows : r[1] = Event(w) => ~Terminal(r)
      <4>1. ASSUME NEW s \in RowsOf(Event(w)), Terminal(s) PROVE FALSE
        <5>1. PICK r \in RowsOf(Event(w)) : Terminal(r) => pc'[w] # "find"
          BY <1>5, <4>1 DEF Lookup
        <5>2. r = s
          BY <1>u DEF RowsOf
        <5> QED
          BY <2>1, <4>1, <5>1, <5>2
      <4> QED
        BY <4>1 DEF RowsOf
    <3> QED
      BY <1>5, <2>1, <3>1 DEF Lookup
  <2>2. CASE pc' = [pc EXCEPT ![w] = "ack"] \/ pc' = [pc EXCEPT ![w] = "hide"]
    BY <1>5, <2>2 DEF Lookup
  <2> QED
    BY <1>5, <2>1, <2>2 DEF Lookup
<1>6. ASSUME NEW w \in Workers, FindExisting(w) PROVE Goal
  <2>1. PICK r \in Rows : r[1] = Event(w) /\ row' = [row EXCEPT ![w] = r]
    BY <1>6 DEF FindExisting, RowsOf
  <2>2. CASE RowsOf(Event(w)) = {} /\ pc' = [pc EXCEPT ![w] = "create"]
    <3>1. deliveries[r].status = "none"
      BY <2>1, <2>2 DEF RowsOf
    <3> QED
      <4>1. pc[w] = "find" /\ UNCHANGED <<deliveries, msg, attempt, faults>>
        BY <1>6 DEF FindExisting
      <4>2. RowsFit' /\ AttemptBudget'
        BY <2>1, <2>2, <4>1
      <4>3. WorkerFits'
        BY <2>1, <2>2, <3>1, <4>1
      <4> QED
        BY <4>2, <4>3
  <2>3. CASE RowsOf(Event(w)) # {} /\ pc' = [pc EXCEPT ![w] = "update"]
    <3>1. deliveries[r].status \in {"IN_FLIGHT", "FAILED"}
      <4>1. PICK s \in RowsOf(Event(w)) : TRUE
        BY <2>3
      <4>2. s = r
        BY <1>u, <2>1, <4>1 DEF RowsOf
      <4>3. ~Terminal(r) /\ deliveries[r].status # "none" /\ deliveries[r].status \in Statuses
        BY <1>6, <2>1, <4>1, <4>2 DEF FindExisting, RowsOf
      <4> QED
        BY <4>3 DEF Statuses
    <3> QED
      BY <1>6, <2>1, <2>3, <3>1 DEF FindExisting
  <2> QED
    BY <1>6, <2>2, <2>3 DEF FindExisting
<1>7. ASSUME NEW w \in Workers, CreateInFlight(w) PROVE Goal
  BY <1>7 DEF CreateInFlight, Write
<1>8. ASSUME NEW w \in Workers, UpdateInFlight(w) PROVE Goal
  BY <1>8 DEF UpdateInFlight, Write
<1>9. ASSUME NEW w \in Workers, PrepareOk(w) PROVE Goal
  BY <1>9 DEF PrepareOk
<1>10. ASSUME NEW w \in Workers, AttemptFails(w) PROVE Goal
  BY <1>10 DEF AttemptFails, Exhausted
<1>11. ASSUME NEW w \in Workers, PostOk(w) PROVE Goal
  BY <1>11 DEF PostOk
<1>12. ASSUME NEW w \in Workers, MarkSucceeded(w) PROVE Goal
  BY <1>12 DEF MarkSucceeded, Write
<1>13. ASSUME NEW w \in Workers, ScheduleAck(w) \/ HideUntil(w) PROVE Goal
  <2>1. CASE ScheduleAck(w)
    BY <2>1 DEF ScheduleAck
  <2>2. CASE HideUntil(w)
    BY <2>2 DEF HideUntil
  <2> QED
    BY <1>13, <2>1, <2>2
<1>14. ASSUME NEW w \in Workers, MarkFailed(w) PROVE Goal
  BY <1>14 DEF MarkFailed, Write
<1>15. ASSUME NEW w \in Workers, ArchivePayload(w) \/ CreateDeadLetter(w) PROVE Goal
  BY <1>15 DEF ArchivePayload, CreateDeadLetter
<1>16. ASSUME NEW w \in Workers, MarkDeadLettered(w) PROVE Goal
  BY <1>16 DEF MarkDeadLettered, Write
<1>17. ASSUME NEW w \in Workers, Acknowledge(w) \/ AcknowledgeFails(w) PROVE Goal
  BY <1>17 DEF Acknowledge, AcknowledgeFails
<1>18. ASSUME NEW w \in Workers, HandlerError(w) \/ Crash(w) PROVE Goal
  BY <1>18 DEF HandlerError, Crash
<1> QED
  BY <1>1, <1>2, <1>3, <1>4, <1>5, <1>6, <1>7, <1>8, <1>9, <1>10, <1>11, <1>12,
     <1>13, <1>14, <1>15, <1>16, <1>17, <1>18
     DEF Next, Arrival, Clock, WorkerNext, HandlerStep, ConfirmStep, StoreObject, Enqueue, Expire,
         ConfirmDelete, ConfirmFails

LEMMA AloneInvariance == ASSUME Alone PROVE Spec => []AloneInv
<1>1. Init => AloneInv
  <2> SUFFICES ASSUME Init PROVE AloneInv
    OBVIOUS
  <2>1. TypeInv
    BY TypeInit
  <2>2. RowsFit /\ AttemptBudget
    BY DEF Init, RowsFit, AttemptBudget
  <2>3. WorkerFits
    BY DEF Init, WorkerFits, Attempting
  <2> QED
    BY <2>1, <2>2, <2>3 DEF AloneInv
<1>2. AloneInv /\ [Next]_vars => AloneInv'
  BY AloneStep
<1> QED
  BY <1>1, <1>2, PTL DEF Spec

\* One worker makes at most MAX_DELIVERY_ATTEMPTS attempts at a delivery, and one
\* more for every crash or failed call, and schedules no retry beyond them.
THEOREM AttemptsBounded == ASSUME Alone PROVE Spec => []AttemptBudget
  BY AloneInvariance, PTL DEF AloneInv

\* One worker never reopens a delivery that is complete, although it receives
\* copies of its message, crashes and starts again.
THEOREM CompleteForGood == ASSUME Alone PROVE Spec => CompleteStays
<1>1. AloneInv /\ [Next]_vars => \A r \in Rows : Terminal(r) => deliveries'[r] = deliveries[r]
  <2> SUFFICES ASSUME AloneInv, [Next]_vars, NEW r \in Rows, Terminal(r)
               PROVE  deliveries'[r] = deliveries[r]
    OBVIOUS
  <2> USE DEF AloneInv, RowsFit, WorkerFits, TypeInv, TypeOK, HoldsMessage, Terminal, Attempting,
              vars, stores, handler
  <2>1. ASSUME UNCHANGED deliveries PROVE deliveries'[r] = deliveries[r]
    BY <2>1
  <2>2. ASSUME NEW s \in Rows, FallDue(s) PROVE deliveries'[r] = deliveries[r]
    BY <2>2 DEF FallDue, Write
  <2>3. ASSUME NEW w \in Workers,
               CreateInFlight(w) \/ UpdateInFlight(w) \/ MarkSucceeded(w) \/ MarkFailed(w)
                 \/ MarkDeadLettered(w)
        PROVE  deliveries'[r] = deliveries[r]
    <3>1. row[w] # r
      BY <2>3 DEF CreateInFlight, UpdateInFlight, MarkSucceeded, MarkFailed, MarkDeadLettered
    <3> QED
      BY <2>3, <3>1 DEF CreateInFlight, UpdateInFlight, MarkSucceeded, MarkFailed,
         MarkDeadLettered, Write
  <2> QED
    BY <2>1, <2>2, <2>3 DEF Next, Arrival, Clock, WorkerNext, HandlerStep, ConfirmStep, StoreObject,
       Enqueue, Expire, Receive, Admit, Defer, Lookup, FindExisting, PrepareOk, AttemptFails, PostOk,
       ScheduleAck, HideUntil, ArchivePayload, CreateDeadLetter, Acknowledge, AcknowledgeFails,
       ConfirmDelete, ConfirmFails, HandlerError, Crash
<1> QED
  BY <1>1, AloneInvariance, PTL DEF Spec, CompleteStays
=============================================================================
