------------------------------ MODULE Pipeline ------------------------------
(***************************************************************************)
(* Ingestion, outbox publisher and delivery workers together.  They meet   *)
(* in the queue and in S3: the publisher puts messages that the workers    *)
(* take, the API stores payloads that the workers read.                    *)
(***************************************************************************)
EXTENDS Integers, FiniteSets

CONSTANTS Events, Tenants, TenantOf, Copies, Large, Unsendable, None,
          Publishers, BatchSize, PublisherFaults,
          Workers, MaxAttempts, AckLimit, WorkerFaults, AttemptCap

\* What Outbox and Delivery assume of theirs.
ASSUME PipelineAssumption ==
    /\ Events \subseteq Nat /\ IsFiniteSet(Events)
    /\ Tenants \subseteq Nat \ {0} /\ TenantOf \in [Events -> Tenants]
    /\ Large \subseteq Events /\ Unsendable \subseteq Events
    /\ BatchSize \in Nat \ {0} /\ PublisherFaults \in Nat
    /\ IsFiniteSet(Workers)
    /\ MaxAttempts \in Nat \ {0} /\ AckLimit \in Nat \ {0}
    /\ WorkerFaults \in Nat /\ AttemptCap \in Nat
    /\ None \notin Publishers \cup (Events \X Copies) \cup (Events \X Workers)

VARIABLES queue, s3,
          request, outbox, lock, session, isLeader, after, tick, selected, rows,
          publisherFaults,
          deliveries, deadLetters, acked, pc, msg, row, attempt, confirming,
          workerFaults

\* Outbox and Delivery, each with what is proved of it alone.
O == INSTANCE OutboxProofs WITH pc <- tick, faults <- publisherFaults,
                                FaultBudget <- PublisherFaults

D == INSTANCE DeliveryProofs WITH Malformed <- {}, faults <- workerFaults,
                                  FaultBudget <- WorkerFaults

apiVars    == <<request, outbox, lock, session, isLeader, after, tick, selected,
                rows, publisherFaults>>
workerVars == <<deliveries, deadLetters, acked, pc, msg, row, attempt, confirming,
                workerFaults>>
vars       == <<queue, s3, apiVars, workerVars>>

Init == O!Init /\ D!Init

Next ==
    \/ O!Next /\ UNCHANGED workerVars
    \/ (D!Clock \/ \E w \in Workers : D!WorkerNext(w)) /\ UNCHANGED apiVars

Spec == Init /\ [][Next]_vars

FairSpec == Spec /\ O!Fairness /\ D!Fairness

-----------------------------------------------------------------------------
\* What of an event the promise is about: its request was answered 201, ...
Accepted == {e \in Events : request[e] = "created"}

\* ... it waits in the outbox or in the queue, ...
Kept == {e \in Events :
           \/ outbox[e] = "unpublished"
           \/ \E c \in Copies : queue[<<e, c>>] \in {"visible", "hidden"}}

\* ... or its dead letter is there, and the payload of it.
Archived == {e \in Events : D!ArchiveKey(e) \in s3 /\ \E r \in deadLetters : r[1] = e}

A == INSTANCE AtLeastOnce WITH
       accepted <- Accepted, kept <- Kept, delivered <- acked, archived <- Archived

\* The pipeline keeps the promise of AtLeastOnce: an event that was answered 201 is
\* in the outbox, in the queue, delivered or archived, at every moment.
KeepsPromise == A!Spec

\* What the API and the publisher do to the queue and to S3 is what the workers
\* rely on; above all, the payload of a large event is there before its message.
HonoursDelivery == D!Spec

\* Every accepted event is delivered or archived in the end.
Resolves == A!Resolution
=============================================================================
