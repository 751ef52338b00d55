--------------------------- MODULE PipelineProofs ---------------------------
(***************************************************************************)
(* Proofs about Pipeline, for any events, tenants, publishers, workers,    *)
(* budgets and numbers of faults: the parts honour what they assume of     *)
(* each other, and together they keep the promise of AtLeastOnce.          *)
(***************************************************************************)
EXTENDS Pipeline, TLAPS

\* The assumptions of the two parts follow from that of the whole.
LEMMA PartsAssumed == O!OutboxAssumption /\ D!DeliveryAssumption
<1>1. O!OutboxAssumption
  BY PipelineAssumption DEF PipelineAssumption, O!OutboxAssumption, IsFiniteSet, O!IsFiniteSet
<1>2. D!DeliveryAssumption
  BY PipelineAssumption
     DEF PipelineAssumption, D!DeliveryAssumption, D!Messages, D!Rows, IsFiniteSet, D!IsFiniteSet
<1> QED
  BY <1>1, <1>2

\* Where a request stands: only a large payload is uploaded, and the answer is
\* sent after the transaction.
RequestFits ==
    \A e \in Events :
      /\ request[e] = "upload" => e \in Large
      /\ request[e] \in {"respond", "created"} => outbox[e] # "none"

Ingested == O!IInv /\ RequestFits
-----------------------------------------------------------------------------
\* A step of a request or a publisher.
LEMMA ApiStep == Ingested /\ O!Next => Ingested'
<1> SUFFICES ASSUME Ingested, O!Next PROVE Ingested'
  OBVIOUS
<1>1. O!IInv'
  BY O!InvStep, PartsAssumed DEF Ingested
<1>2. RequestFits'
  <2> USE DEF Ingested, RequestFits, O!IInv, O!Shape
  <2>1. ASSUME NEW e \in Events, O!RequestStep(e) PROVE RequestFits'
    BY <2>1, PipelineAssumption DEF PipelineAssumption, O!RequestStep, O!Reject, O!Accept,
       O!UploadPayload, O!Commit, O!Respond, O!RequestFails
  <2>2. ASSUME UNCHANGED <<request, outbox>> PROVE RequestFits'
    BY <2>2
  <2>3. ASSUME NEW p \in Publishers, NEW e \in Events, O!MarkPublished(p, e) \/ O!MarkFails(p, e)
        PROVE  RequestFits'
    BY <2>3 DEF O!MarkPublished, O!MarkFails
  <2>4. ASSUME NEW p \in Publishers, O!PublisherStep(p) \/ O!Disruption(p) PROVE RequestFits'
    BY <2>2, <2>3, <2>4 DEF O!PublisherStep, O!Disruption, O!TryBecomeLeader, O!Select, O!Fetch,
       O!FinishTick, O!TickThrows, O!Start, O!SendOk, O!SendRefused, O!SendUnanswered,
       O!SessionLost, O!Stop, O!Crash
  <2> QED
    BY <2>1, <2>4 DEF O!Next
<1> QED
  BY <1>1, <1>2 DEF Ingested

\* What the API and the publisher do to the queue and to S3 is what the workers
\* expect of their environment.
LEMMA ApiStepIsArrival == Ingested /\ O!Next /\ UNCHANGED workerVars => [D!Next]_D!vars
<1> SUFFICES ASSUME Ingested, O!Next, UNCHANGED workerVars PROVE [D!Next]_D!vars
  OBVIOUS
<1> USE DEF workerVars
<1>1. ASSUME UNCHANGED <<queue, s3>> PROVE UNCHANGED D!vars
  BY <1>1 DEF D!vars, D!stores, D!handler
<1>2. ASSUME NEW e \in Events, O!UploadPayload(e) PROVE [D!Next]_D!vars
  <2>1. e \in Large
    BY <1>2 DEF O!UploadPayload, Ingested, RequestFits
  <2>2. CASE <<"event", e>> \in s3
    BY <1>1, <1>2, <2>2 DEF O!UploadPayload
  <2>3. CASE <<"event", e>> \notin s3
    BY <1>2, <2>1, <2>3 DEF O!UploadPayload, D!StoreObject, D!handler, D!Arrival, D!Next
  <2> QED
    BY <2>2, <2>3
<1>3. ASSUME NEW e \in Events, O!RequestStep(e) PROVE [D!Next]_D!vars
  BY <1>1, <1>2, <1>3 DEF O!RequestStep, O!Reject, O!Accept, O!Commit, O!Respond, O!RequestFails
<1>4. ASSUME NEW p \in Publishers, NEW e \in Events,
             O!InRow(p, e, "send"), O!Put(e), UNCHANGED s3
      PROVE  D!Next
  <2>1. PICK c \in Copies : /\ queue[<<e, c>>] = "absent"
                            /\ queue' = [queue EXCEPT ![<<e, c>>] = "visible"]
    BY <1>4 DEF O!Put
  <2>2. outbox[e] # "none"
    BY <1>4 DEF O!InRow, Ingested, O!IInv, O!RowWasSent
  <2>3. e \in Large => <<"event", e>> \in s3
    BY <2>2 DEF Ingested, O!IInv, O!UploadedFirst
  <2>4. D!Enqueue(<<e, c>>)
    BY <1>4, <2>1, <2>3 DEF D!Enqueue, D!handler
  <2> QED
    BY <2>4 DEF D!Messages, D!Arrival, D!Next
<1>5. ASSUME NEW p \in Publishers, O!PublisherStep(p) \/ O!Disruption(p)
      PROVE  [D!Next]_D!vars
  BY <1>1, <1>4, <1>5 DEF O!PublisherStep, O!Disruption, O!TryBecomeLeader, O!Select, O!Fetch,
     O!FinishTick, O!TickThrows, O!Start, O!SendOk, O!SendRefused, O!SendUnanswered,
     O!MarkPublished, O!MarkFails, O!SessionLost, O!Stop, O!Crash
<1> QED
  BY <1>3, <1>5 DEF O!Next

\* A step of a worker, or of time, takes back nothing that the publisher relies on.
LEMMA WorkerStep ==
    ASSUME Ingested, D!IInv, UNCHANGED apiVars,
           D!Clock \/ \E w \in Workers : D!WorkerNext(w)
    PROVE  Ingested'
<1> USE DEF apiVars
<1>1. [D!Next]_D!vars
  BY DEF D!Next
<1>2. queue' \in [D!Messages -> {"absent", "visible", "hidden", "deleted"}]
  BY <1>1, D!TypeStep, PartsAssumed DEF D!IInv, D!TypeInv, D!TypeOK
<1>3. s3 \subseteq s3'
  BY <1>1, D!FactsStay, PartsAssumed
<1>4. ASSUME NEW m \in D!Messages, queue[m] # "absent" PROVE queue'[m] # "absent"
  BY <1>1, <1>4, D!SentStays, PartsAssumed DEF D!IInv, D!TypeInv
<1>5. ASSUME NEW e \in Events, O!Sent(e) # {} PROVE O!Sent(e)' # {}
  BY <1>4, <1>5 DEF O!Sent, D!Messages
<1> QED
  BY <1>2, <1>3, <1>5 DEF Ingested, RequestFits, O!IInv, O!Shape, O!LeaderHoldsLock, O!RowWasSent,
     O!PublishedWasSent, O!UploadedFirst, O!Messages, D!Messages

LEMMA Invariance == Spec => [](Ingested /\ D!IInv)
<1>1. Init => Ingested /\ D!IInv
  <2>1. Init => O!IInv
    BY O!InvInit, PartsAssumed DEF Init
  <2>2. Init => D!IInv
    BY D!InvInit, PartsAssumed DEF Init
  <2>3. Init => RequestFits
    BY DEF Init, O!Init, RequestFits
  <2> QED
    BY <2>1, <2>2, <2>3 DEF Ingested
<1>2. Ingested /\ D!IInv /\ [Next]_vars => (Ingested /\ D!IInv)'
  <2> SUFFICES ASSUME Ingested, D!IInv, [Next]_vars PROVE (Ingested /\ D!IInv)'
    OBVIOUS
  <2>1. CASE O!Next /\ UNCHANGED workerVars
    BY <2>1, ApiStep, ApiStepIsArrival, D!SafetyStep, PartsAssumed
  <2>2. CASE (D!Clock \/ \E w \in Workers : D!WorkerNext(w)) /\ UNCHANGED apiVars
    <3>1. [D!Next]_D!vars
      BY <2>2 DEF D!Next
    <3> QED
      BY <2>2, <3>1, WorkerStep, D!SafetyStep, PartsAssumed
  <2>3. CASE UNCHANGED vars
    <3>1. UNCHANGED O!vars /\ UNCHANGED D!vars /\ UNCHANGED request /\ UNCHANGED outbox
      BY <2>3 DEF vars, apiVars, workerVars, O!vars, O!publisher, D!vars, D!stores, D!handler
    <3>2. O!IInv' /\ D!IInv'
      BY <3>1, O!InvStep, D!SafetyStep, PartsAssumed DEF Ingested
    <3> QED
      BY <3>1, <3>2 DEF Ingested, RequestFits
  <2> QED
    BY <2>1, <2>2, <2>3 DEF Next
<1> QED
  BY <1>1, <1>2, PTL DEF Spec

\* The pipeline is an environment as Delivery assumes it: above all, the payload
\* of a large event is in S3 before its message is sent, through every crash of
\* the API and every takeover of a publisher.
THEOREM DeliveryHonoured == Spec => HonoursDelivery
<1>1. Init => D!Init
  BY DEF Init
<1>2. Ingested /\ [Next]_vars => [D!Next]_D!vars
  <2>1. UNCHANGED vars => UNCHANGED D!vars
    BY DEF vars, workerVars, D!vars, D!stores, D!handler
  <2> QED
    BY <2>1, ApiStepIsArrival DEF Next, D!Next
<1> QED
  BY <1>1, <1>2, Invariance, PTL DEF Spec, HonoursDelivery, D!Spec
-----------------------------------------------------------------------------
(***************************************************************************)
(* The refinement of AtLeastOnce: each step of the pipeline is a step of   *)
(* the promise, or leaves accepted, kept, delivered and archived as they   *)
(* are.                                                                    *)
(***************************************************************************)
Inv == Ingested /\ D!IInv

\* An event whose message may be deleted was delivered or is archived.
LEMMA FinishedIsSettled ==
    ASSUME D!IInv, NEW e \in Events, D!Finished(e)
    PROVE  e \in acked \cup Archived
  BY DEF D!IInv, D!Safety, D!DeadLetterArchived, D!Finished, Archived

\* An event with an outbox row has left a trace.
LEMMA CommittedLeavesTrace ==
    ASSUME Inv, NEW e \in Events, outbox[e] # "none"
    PROVE  e \in Kept \cup acked \cup Archived
<1> USE DEF Inv, D!IInv, D!TypeOK, D!Messages
<1>1. CASE outbox[e] = "unpublished"
  BY <1>1 DEF Kept
<1>2. CASE outbox[e] # "unpublished"
  <2>1. PICK c \in Copies : queue[<<e, c>>] # "absent"
    BY <1>2 DEF Ingested, O!IInv, O!Shape, O!PublishedWasSent, O!Sent
  <2>2. CASE queue[<<e, c>>] = "deleted"
    BY <2>2, FinishedIsSettled DEF D!Safety, D!NoLoss
  <2>3. CASE queue[<<e, c>>] # "deleted"
    BY <2>1, <2>3 DEF Kept
  <2> QED
    BY <2>2, <2>3
<1> QED
  BY <1>1, <1>2

\* So has an event with a message.
LEMMA SentLeavesTrace ==
    ASSUME Inv, NEW m \in D!Messages, queue[m] # "absent"
    PROVE  m[1] \in Kept \cup acked \cup Archived
<1> USE DEF Inv, D!IInv, D!TypeOK, D!Messages
<1>1. PICK e \in Events, c \in Copies : m = <<e, c>>
  OBVIOUS
<1>2. CASE queue[m] = "deleted"
  BY <1>1, <1>2, FinishedIsSettled DEF D!Safety, D!NoLoss
<1>3. CASE queue[m] # "deleted"
  BY <1>1, <1>3 DEF Kept
<1> QED
  BY <1>2, <1>3

\* Archived changes with the dead letters only: what is stored in S3 later is not
\* the payload of an earlier dead letter, which was there.
LEMMA ArchivedStays ==
    ASSUME D!IInv, s3 \subseteq s3', UNCHANGED deadLetters
    PROVE  UNCHANGED Archived
  BY DEF Archived, D!IInv, D!Safety, D!DeadLetterArchived, D!ArchiveKey

\* Kept changes with the outbox and with the messages that wait in the queue.
LEMMA KeptStays ==
    ASSUME NEW e \in Events,
           \A f \in Events \ {e} :
             /\ outbox'[f] = outbox[f]
             /\ \A c \in Copies : queue'[<<f, c>>] = queue[<<f, c>>]
    PROVE  Kept' \ {e} = Kept \ {e}
  BY DEF Kept

\* One message of an event changes between visible and hidden.
LEMMA WaitingStays ==
    ASSUME D!IInv, NEW m \in D!Messages, queue[m] \in {"visible", "hidden"},
           NEW state \in {"visible", "hidden"}, queue' = [queue EXCEPT ![m] = state],
           UNCHANGED outbox
    PROVE  UNCHANGED Kept
<1>1. ASSUME NEW n \in D!Messages
      PROVE  queue'[n] \in {"visible", "hidden"} <=> queue[n] \in {"visible", "hidden"}
  BY DEF D!IInv, D!TypeOK
<1> QED
  BY <1>1 DEF Kept, D!Messages

\* One event is stored once more, or one that is settled loses a trace.
LEMMA StoringKeeps ==
    ASSUME NEW e \in Events, e \in Kept', Kept' \ {e} = Kept \ {e},
           UNCHANGED <<Accepted, acked, Archived>>
    PROVE  [A!Next]_A!vars
<1>1. A!Keep(e)
  BY DEF A!Keep
<1> QED
  BY <1>1 DEF A!Next

LEMMA SettledMayGo ==
    ASSUME NEW e \in Events, e \in acked \cup Archived \/ e \in Kept', Kept' \ {e} = Kept \ {e},
           UNCHANGED <<Accepted, acked, Archived>>
    PROVE  [A!Next]_A!vars
<1>1. CASE e \in Kept'
  BY <1>1, StoringKeeps
<1>2. CASE e \notin Kept' /\ e \in acked \cup Archived
  <2>1. A!Drop(e)
    BY <1>2 DEF A!Drop
  <2> QED
    BY <2>1 DEF A!Next
<1> QED
  BY <1>1, <1>2

LEMMA NothingNew ==
    ASSUME UNCHANGED <<Accepted, Kept, acked, Archived>> PROVE [A!Next]_A!vars
  BY DEF A!vars
-----------------------------------------------------------------------------
LEMMA RequestKeepsPromise ==
    ASSUME Inv, NEW e \in Events, O!RequestStep(e), UNCHANGED workerVars
    PROVE  [A!Next]_A!vars
<1> USE DEF Inv, workerVars
<1> USE DEF Ingested, O!IInv, O!Shape
<1>1. ASSUME request'[e] # "created", request' = [request EXCEPT ![e] = request'[e]], request[e] # "created"
      PROVE  UNCHANGED Accepted
  BY <1>1 DEF Accepted
<1>2. CASE O!Reject(e) \/ O!Accept(e) \/ O!RequestFails(e)
  <2>1. UNCHANGED <<outbox, queue, s3>>
    BY <1>2 DEF O!Reject, O!Accept, O!RequestFails
  <2>2. UNCHANGED Accepted
    BY <1>1, <1>2 DEF O!Reject, O!Accept, O!RequestFails
  <2> QED
    BY <2>1, <2>2, NothingNew DEF Kept, Archived
<1>3. CASE O!UploadPayload(e)
  <2>1. UNCHANGED Accepted
    BY <1>1, <1>3 DEF O!UploadPayload
  <2>2. UNCHANGED Archived
    BY <1>3, ArchivedStays DEF O!UploadPayload
  <2> QED
    BY <1>3, <2>1, <2>2, NothingNew DEF O!UploadPayload, Kept
<1>4. CASE O!Commit(e)
  <2>1. UNCHANGED Accepted
    BY <1>1, <1>4 DEF O!Commit
  <2>2. e \in Kept' /\ Kept' \ {e} = Kept \ {e}
    BY <1>4 DEF O!Commit, Kept
  <2> QED
    BY <1>4, <2>1, <2>2, StoringKeeps DEF O!Commit, Archived
<1>5. CASE O!Respond(e)
  <2>1. e \in Kept \cup acked \cup Archived
    BY <1>5, CommittedLeavesTrace DEF O!Respond, RequestFits
  <2>2. Accepted' = Accepted \cup {e}
    BY <1>5 DEF O!Respond, Accepted
  <2>3. UNCHANGED <<Kept, acked, Archived>>
    BY <1>5 DEF O!Respond, Kept, Archived
  <2>4. A!Accept(e)
    BY <2>1, <2>2, <2>3 DEF A!Accept
  <2> QED
    BY <2>4 DEF A!Next
<1> QED
  BY <1>2, <1>3, <1>4, <1>5 DEF O!RequestStep

LEMMA PublisherKeepsPromise ==
    ASSUME Inv, NEW p \in Publishers, O!PublisherStep(p) \/ O!Disruption(p), UNCHANGED workerVars
    PROVE  [A!Next]_A!vars
<1> USE DEF Inv, workerVars
<1>1. ASSUME UNCHANGED <<request, outbox, queue, s3>> PROVE [A!Next]_A!vars
  BY <1>1, NothingNew DEF Accepted, Kept, Archived
<1>2. ASSUME NEW e \in Events, O!Put(e), UNCHANGED <<request, outbox, s3>>
      PROVE  [A!Next]_A!vars
  <2>1. PICK c \in Copies : queue' = [queue EXCEPT ![<<e, c>>] = "visible"]
    BY <1>2 DEF O!Put
  <2>2. e \in Kept'
    BY <2>1 DEF Kept, Ingested, O!IInv, O!Shape, O!Messages
  <2>3. Kept' \ {e} = Kept \ {e}
    BY <1>2, <2>1, KeptStays DEF Ingested, O!IInv, O!Shape, O!Messages
  <2> QED
    BY <1>2, <2>2, <2>3, StoringKeeps DEF Accepted, Archived
<1>3. ASSUME NEW e \in Events, O!InRow(p, e, "sent"), UNCHANGED <<request, queue, s3>>,
             outbox' = [outbox EXCEPT ![e] = "published"]
      PROVE  [A!Next]_A!vars
  <2>1. PICK c \in Copies : queue[<<e, c>>] # "absent"
    BY <1>3 DEF O!InRow, Ingested, O!IInv, O!RowWasSent, O!Sent
  <2>2. e \in Kept' \cup acked \cup Archived
    <3>1. CASE queue[<<e, c>>] = "deleted"
      BY <3>1, FinishedIsSettled DEF D!IInv, D!Safety, D!NoLoss, D!Messages
    <3>2. CASE queue[<<e, c>>] # "deleted"
      BY <1>3, <2>1, <3>2 DEF Kept, D!IInv, D!TypeOK, D!Messages
    <3> QED
      BY <3>1, <3>2
  <2>3. Kept' \ {e} = Kept \ {e}
    BY <1>3, KeptStays DEF Ingested, O!IInv, O!Shape
  <2> QED
    BY <1>3, <2>2, <2>3, SettledMayGo DEF Accepted, Archived
<1>4. ASSUME NEW e \in Events, O!MarkPublished(p, e) \/ O!MarkFails(p, e)
      PROVE  [A!Next]_A!vars
  BY <1>1, <1>3, <1>4 DEF O!MarkPublished, O!MarkFails
<1>5. ASSUME NEW e \in Events, O!SendOk(p, e) \/ O!SendUnanswered(p, e)
      PROVE  [A!Next]_A!vars
  BY <1>2, <1>5 DEF O!SendOk, O!SendUnanswered
<1> QED
  BY <1>1, <1>4, <1>5 DEF O!PublisherStep, O!Disruption, O!TryBecomeLeader, O!Select, O!Fetch,
     O!FinishTick, O!TickThrows, O!Start, O!SendRefused, O!SessionLost, O!Stop, O!Crash

LEMMA WorkerKeepsPromise ==
    ASSUME Inv, NEW w \in Workers, D!WorkerNext(w), UNCHANGED apiVars
    PROVE  [A!Next]_A!vars
<1> USE DEF Inv, apiVars
<1>0. UNCHANGED Accepted /\ UNCHANGED outbox
  BY DEF Accepted
<1>1. ASSUME UNCHANGED <<queue, s3, deadLetters, acked>> PROVE [A!Next]_A!vars
  BY <1>0, <1>1, NothingNew DEF Kept, Archived
<1>2. ASSUME NEW m \in D!Messages, queue[m] \in {"visible", "hidden"},
             NEW state \in {"visible", "hidden"}, queue' = [queue EXCEPT ![m] = state],
             UNCHANGED <<s3, deadLetters, acked>>
      PROVE  [A!Next]_A!vars
  BY <1>0, <1>2, WaitingStays, NothingNew DEF Archived
<1>3. ASSUME NEW m \in D!Messages, D!Finished(m[1]), queue' = [queue EXCEPT ![m] = "deleted"],
             UNCHANGED <<s3, deadLetters, acked>>
      PROVE  [A!Next]_A!vars
  <2>1. PICK e \in Events, c \in Copies : m = <<e, c>>
    BY DEF D!Messages
  <2>2. e \in acked \cup Archived
    BY <1>3, <2>1, FinishedIsSettled
  <2>3. Kept' \ {e} = Kept \ {e}
    BY <1>0, <1>3, <2>1, KeptStays DEF D!IInv, D!TypeOK, D!Messages
  <2> QED
    BY <1>0, <1>3, <2>2, <2>3, SettledMayGo DEF Archived
<1> USE DEF D!IInv, D!HoldsMessage
<1>4. ASSUME NEW m \in D!Messages, D!Receive(w, m) PROVE [A!Next]_A!vars
  BY <1>2, <1>4 DEF D!Receive
<1>5. CASE D!HideUntil(w)
  BY <1>1, <1>2, <1>5 DEF D!HideUntil
<1>6. CASE D!Acknowledge(w)
  BY <1>3, <1>6 DEF D!Acknowledge, D!Justified, D!Event
<1>7. ASSUME NEW m \in D!Messages, D!ConfirmDelete(w, m) PROVE [A!Next]_A!vars
  BY <1>3, <1>7 DEF D!ConfirmDelete, D!Justified
<1>8. CASE D!PostOk(w)
  <2>1. msg[w] \in D!Messages /\ queue[msg[w]] # "absent"
    BY <1>8 DEF D!PostOk
  <2>2. D!Event(w) \in Events /\ D!Event(w) \in Kept \cup acked \cup Archived
    BY <2>1, SentLeavesTrace DEF D!Event, D!Messages
  <2>3. UNCHANGED <<Kept, Archived>>
    BY <1>0, <1>8 DEF D!PostOk, Kept, Archived
  <2>4. A!Deliver(D!Event(w))
    BY <1>0, <1>8, <2>2, <2>3 DEF D!PostOk, A!Deliver
  <2> QED
    BY <2>2, <2>4 DEF A!Next
<1>9. CASE D!ArchivePayload(w)
  <2>1. UNCHANGED Archived
    BY <1>9, ArchivedStays DEF D!ArchivePayload
  <2> QED
    BY <1>0, <1>9, <2>1, NothingNew DEF D!ArchivePayload, Kept
<1>10. CASE D!CreateDeadLetter(w)
  <2>1. row[w] \in D!Rows /\ row[w][1] = D!Event(w) /\ D!ArchiveKey(D!Event(w)) \in s3
    BY <1>10 DEF D!CreateDeadLetter, D!Justified
  <2>2. D!Event(w) \in Events
    BY <2>1 DEF D!Rows
  <2>3. Archived' = Archived \cup {D!Event(w)}
    BY <1>10, <2>1, <2>2 DEF D!CreateDeadLetter, Archived, D!ArchiveKey
  <2>4. A!Archive(D!Event(w))
    BY <1>0, <1>10, <2>3 DEF D!CreateDeadLetter, A!Archive, Kept
  <2> QED
    BY <2>2, <2>4 DEF A!Next
<1> QED
  BY <1>1, <1>4, <1>5, <1>6, <1>7, <1>8, <1>9, <1>10
     DEF D!WorkerNext, D!HandlerStep, D!ConfirmStep, D!stores, D!Admit, D!Defer, D!Lookup,
         D!FindExisting, D!CreateInFlight, D!UpdateInFlight, D!PrepareOk, D!AttemptFails,
         D!MarkSucceeded, D!ScheduleAck, D!MarkFailed, D!MarkDeadLettered, D!AcknowledgeFails,
         D!ConfirmFails, D!HandlerError, D!Crash

\* The pipeline implements AtLeastOnce: an event that was answered 201 is, at every
\* moment, in the outbox, in the queue, delivered or archived, whatever processes
\* crash, answers are lost or leaders change.
THEOREM PromiseKept == Spec => KeepsPromise
<1>1. Init => A!Init
  <2> SUFFICES ASSUME Init PROVE A!Init
    OBVIOUS
  <2>1. Accepted = {}
    BY DEF Init, O!Init, Accepted
  <2>2. Kept = {}
    BY DEF Init, O!Init, O!Messages, Kept
  <2>3. acked = {} /\ Archived = {}
    BY DEF Init, D!Init, Archived
  <2> QED
    BY <2>1, <2>2, <2>3 DEF A!Init
<1>2. Inv /\ [Next]_vars => [A!Next]_A!vars
  <2> SUFFICES ASSUME Inv, [Next]_vars PROVE [A!Next]_A!vars
    OBVIOUS
  <2>1. CASE O!Next /\ UNCHANGED workerVars
    BY <2>1, RequestKeepsPromise, PublisherKeepsPromise DEF O!Next
  <2>2. CASE D!Clock /\ UNCHANGED apiVars
    <3>1. ASSUME NEW m \in D!Messages, D!Expire(m) PROVE [A!Next]_A!vars
      BY <2>2, <3>1, WaitingStays, NothingNew DEF D!Expire, Inv, apiVars, Accepted, Archived
    <3>2. ASSUME NEW r \in D!Rows, D!FallDue(r) PROVE [A!Next]_A!vars
      BY <2>2, <3>2, NothingNew DEF D!FallDue, apiVars, Accepted, Kept, Archived
    <3> QED
      BY <2>2, <3>1, <3>2 DEF D!Clock
  <2>3. ASSUME NEW w \in Workers, D!WorkerNext(w), UNCHANGED apiVars PROVE [A!Next]_A!vars
    BY <2>3, WorkerKeepsPromise
  <2>4. CASE UNCHANGED vars
    BY <2>4, NothingNew DEF vars, apiVars, workerVars, Accepted, Kept, Archived
  <2> QED
    BY <2>1, <2>2, <2>3, <2>4 DEF Next
<1> QED
  BY <1>1, <1>2, Invariance, PTL DEF Spec, Inv, KeepsPromise, A!Spec
=============================================================================
