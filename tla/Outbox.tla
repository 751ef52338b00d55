------------------------------- MODULE Outbox -------------------------------
(***************************************************************************)
(* Ingestion (packages/api/src/services/events.ts) and the outbox          *)
(* publisher (packages/worker/src/outbox-poller.ts).                       *)
(*                                                                         *)
(* A request stores a large payload in S3, commits the event with its      *)
(* outbox row, and answers 201.  Publisher processes compete for one       *)
(* PostgreSQL advisory lock, which belongs to their only connection; the   *)
(* holder selects a batch of unpublished rows, fair among tenants, sends   *)
(* them to SQS concurrently and marks each row once its send is confirmed. *)
(***************************************************************************)
EXTENDS Integers, FiniteSets

CONSTANTS Events,       \* event ids, numbers in the order of outbox.created_at
          Tenants,      \* tenant ids, positive numbers in the order of tenant_id
          TenantOf,     \* the tenant of each event
          Copies,       \* bound: copies of one event's message
          Large,        \* events whose payload exceeds the claim-check threshold
          Unsendable,   \* events whose message SQS never accepts
          Publishers,   \* publisher processes
          BatchSize,    \* BATCH_SIZE
          FaultBudget,  \* bound: crashes, lost sessions, lost answers
          None

Messages == Events \X Copies
Keys     == {"event", "dead"} \X Events

ASSUME OutboxAssumption ==
    /\ Events \subseteq Nat /\ IsFiniteSet(Events)
    /\ Tenants \subseteq Nat \ {0}
    /\ TenantOf \in [Events -> Tenants]
    /\ Large \subseteq Events
    /\ Unsendable \subseteq Events
    /\ BatchSize \in Nat \ {0}
    /\ FaultBudget \in Nat
    /\ None \notin Publishers

VARIABLES queue,      \* SQS: state of every message
          s3,         \* keys of the stored objects
          request,    \* ingestEvent of each event's request
          outbox,     \* table outbox (with the event of the row)
          lock,       \* holder of advisory lock OUTBOX_LOCK_KEY
          session,    \* the database connection of each publisher
          isLeader, after,         \* main: isLeader, afterTenantId
          pc, selected, rows,      \* tick: where it is, ranks, row states
          faults

publisher == <<session, isLeader, after, pc, selected, rows>>
vars      == <<queue, s3, request, outbox, lock, publisher, faults>>

-----------------------------------------------------------------------------
\* listUnpublished: ROW_NUMBER() per tenant, then the tenants after the cursor.
Pending == {e \in Events : outbox[e] = "unpublished"}

TenantPosition(e) ==
    Cardinality({f \in Pending : TenantOf[f] = TenantOf[e] /\ f <= e})

Wraps(t, cursor) == IF t > cursor THEN 0 ELSE 1

Before(f, e, cursor) ==
    LET t == TenantOf[f]
        u == TenantOf[e]
    IN  \/ TenantPosition(f) < TenantPosition(e)
        \/ /\ TenantPosition(f) = TenantPosition(e)
           /\ \/ Wraps(t, cursor) < Wraps(u, cursor)
              \/ Wraps(t, cursor) = Wraps(u, cursor) /\ t < u

Rank(e, cursor) == Cardinality({f \in Pending : Before(f, e, cursor)})

\* The rows within the limit, each with its place in the result.
Selection(cursor) ==
    [e \in {d \in Pending : Rank(d, cursor) < BatchSize} |-> Rank(e, cursor)]

-----------------------------------------------------------------------------
Init ==
    /\ queue = [m \in Messages |-> "absent"]
    /\ s3 = {}
    /\ request = [e \in Events |-> "new"]
    /\ outbox = [e \in Events |-> "none"]
    /\ lock = None
    /\ session = [p \in Publishers |-> "open"]
    /\ isLeader = [p \in Publishers |-> FALSE]
    /\ after = [p \in Publishers |-> 0]
    /\ pc = [p \in Publishers |-> "loop"]
    /\ selected = [p \in Publishers |-> <<>>]
    /\ rows = [p \in Publishers |-> <<>>]
    /\ faults = 0

Fault == faults < FaultBudget /\ faults' = faults + 1

(***************************************************************************)
(* ingestEvent                                                             *)
(***************************************************************************)
\* Invalid, unknown tenant (400, 404) or no ingestion token (429).
Reject(e) ==
    /\ request[e] = "new"
    /\ request' = [request EXCEPT ![e] = "rejected"]
    /\ UNCHANGED <<queue, s3, outbox, lock, publisher, faults>>

\* Mutant: the upload is left to the time after the transaction.
AcceptWithoutUpload(e) ==
    /\ request[e] = "new"
    /\ request' = [request EXCEPT ![e] = "commit"]
    /\ UNCHANGED <<queue, s3, outbox, lock, publisher, faults>>

\* Validated, tenant found, token consumed.
Accept(e) ==
    /\ request[e] = "new"
    /\ request' = [request EXCEPT ![e] = IF e \in Large THEN "upload" ELSE "commit"]
    /\ UNCHANGED <<queue, s3, outbox, lock, publisher, faults>>

UploadPayload(e) ==
    /\ request[e] = "upload"
    /\ s3' = s3 \cup {<<"event", e>>}
    /\ request' = [request EXCEPT ![e] = "commit"]
    /\ UNCHANGED <<queue, outbox, lock, publisher, faults>>

\* Mutant: the outbox row is not part of the transaction, and is lost.
CommitEventOnly(e) ==
    /\ request[e] = "commit"
    /\ request' = [request EXCEPT ![e] = "respond"]
    /\ UNCHANGED <<queue, s3, outbox, lock, publisher, faults>>

\* One transaction: createEvent and createOutbox.
Commit(e) ==
    /\ request[e] = "commit"
    /\ outbox' = [outbox EXCEPT ![e] = "unpublished"]
    /\ request' = [request EXCEPT ![e] = "respond"]
    /\ UNCHANGED <<queue, s3, lock, publisher, faults>>

Respond(e) ==
    /\ request[e] = "respond"
    /\ request' = [request EXCEPT ![e] = "created"]
    /\ UNCHANGED <<queue, s3, outbox, lock, publisher, faults>>

\* A call fails or the API dies; the last write may have been applied.
RequestFails(e) ==
    /\ request[e] \in {"upload", "commit", "respond"}
    /\ request' = [request EXCEPT ![e] = "failed"]
    /\ UNCHANGED <<queue, s3, outbox, lock, publisher, faults>>

(***************************************************************************)
(* The publisher                                                           *)
(***************************************************************************)
FreeLock(p) == IF lock = p THEN None ELSE lock

\* The end of a tick; a failed one gives up leadership and its connection.
EndTick(p) ==
    /\ pc' = [pc EXCEPT ![p] = "loop"]
    /\ selected' = [selected EXCEPT ![p] = <<>>]
    /\ rows' = [rows EXCEPT ![p] = <<>>]

\* Mutant: the connection is closed, but isLeader stays.
DisconnectLeading(p) ==
    /\ session' = [session EXCEPT ![p] = "open"]
    /\ lock' = FreeLock(p)
    /\ UNCHANGED isLeader

\* Mutant: leadership is given up, but the broken connection is kept.
DisconnectNever(p) ==
    /\ isLeader' = [isLeader EXCEPT ![p] = FALSE]
    /\ lock' = FreeLock(p)
    /\ UNCHANGED session

Disconnect(p) ==
    /\ isLeader' = [isLeader EXCEPT ![p] = FALSE]
    /\ session' = [session EXCEPT ![p] = "open"]
    /\ lock' = FreeLock(p)

\* A query throws: always on a connection that the server closed, now and then
\* (a socket timeout) on another.
QueryFails(p) ==
    \/ session[p] = "lost" /\ UNCHANGED faults
    \/ session[p] = "open" /\ Fault

\* Mutant: the answer of pg_try_advisory_lock is not looked at.
TryBecomeLeaderAnyway(p) ==
    /\ pc[p] = "loop" /\ ~isLeader[p] /\ session[p] = "open"
    /\ lock' = IF lock = None THEN p ELSE lock
    /\ isLeader' = [isLeader EXCEPT ![p] = TRUE]
    /\ UNCHANGED <<queue, s3, request, outbox, session, after, pc, selected, rows, faults>>

TryBecomeLeader(p) ==
    /\ pc[p] = "loop" /\ ~isLeader[p] /\ session[p] = "open"
    /\ lock = None
    /\ lock' = p
    /\ isLeader' = [isLeader EXCEPT ![p] = TRUE]
    /\ UNCHANGED <<queue, s3, request, outbox, session, after, pc, selected, rows, faults>>

\* listUnpublished, first query; an empty result ends the tick.
Select(p) ==
    /\ pc[p] = "loop" /\ isLeader[p] /\ session[p] = "open"
    /\ Pending # {}
    /\ selected' = [selected EXCEPT ![p] = Selection(after[p])]
    /\ pc' = [pc EXCEPT ![p] = "fetch"]
    /\ UNCHANGED <<queue, s3, request, outbox, lock, session, isLeader, after, rows, faults>>

\* Mutant: the second query returns all unpublished rows.
FetchAll(p) ==
    /\ pc[p] = "fetch" /\ session[p] = "open"
    /\ rows' = [rows EXCEPT ![p] = [e \in Pending |-> "send"]]
    /\ pc' = [pc EXCEPT ![p] = "publish"]
    /\ UNCHANGED <<queue, s3, request, outbox, lock, session, isLeader, after, selected, faults>>

\* listUnpublished, second query; then every row's publishOne starts.
Fetch(p) ==
    /\ pc[p] = "fetch" /\ session[p] = "open"
    /\ rows' = [rows EXCEPT ![p] =
                  [e \in {d \in DOMAIN selected[p] : outbox[d] = "unpublished"} |-> "send"]]
    /\ pc' = [pc EXCEPT ![p] = "publish"]
    /\ UNCHANGED <<queue, s3, request, outbox, lock, session, isLeader, after, selected, faults>>

InRow(p, e, state) == pc[p] = "publish" /\ e \in DOMAIN rows[p] /\ rows[p][e] = state

SetRow(p, e, state) == rows' = [rows EXCEPT ![p] = [@ EXCEPT ![e] = state]]

\* SendMessage puts one more copy in the queue.
Put(e) ==
    /\ \E c \in Copies : queue[<<e, c>>] = "absent"
    /\ LET c == CHOOSE c \in Copies : queue[<<e, c>>] = "absent"
       IN  queue' = [queue EXCEPT ![<<e, c>>] = "visible"]

SendOk(p, e) ==
    /\ InRow(p, e, "send") /\ e \notin Unsendable
    /\ Put(e)
    /\ SetRow(p, e, "sent")
    /\ UNCHANGED <<s3, request, outbox, lock, session, isLeader, after, pc, selected, faults>>

\* Mutant: the error of a send is logged and forgotten.
SendRefusedQuietly(p, e) ==
    /\ InRow(p, e, "send")
    /\ SetRow(p, e, "sent")
    /\ UNCHANGED <<queue, s3, request, outbox, lock, session, isLeader, after, pc, selected, faults>>

SendRefused(p, e) ==
    /\ InRow(p, e, "send")
    /\ SetRow(p, e, "failed")
    /\ UNCHANGED <<queue, s3, request, outbox, lock, session, isLeader, after, pc, selected, faults>>

\* SQS took the message, but the answer is lost or comes after the timeout.
SendUnanswered(p, e) ==
    /\ InRow(p, e, "send") /\ e \notin Unsendable
    /\ Fault
    /\ Put(e)
    /\ SetRow(p, e, "failed")
    /\ UNCHANGED <<s3, request, outbox, lock, session, isLeader, after, pc, selected>>

\* updateMany where published = false: a row already published is left alone.
MarkPublished(p, e) ==
    /\ InRow(p, e, "sent") /\ session[p] = "open"
    /\ outbox' = [outbox EXCEPT ![e] = "published"]
    /\ SetRow(p, e, "done")
    /\ UNCHANGED <<queue, s3, request, lock, session, isLeader, after, pc, selected, faults>>

\* The update fails, or it was applied and its answer is lost.
MarkFails(p, e) ==
    /\ InRow(p, e, "sent")
    /\ QueryFails(p)
    /\ \/ UNCHANGED outbox
       \/ session[p] = "open" /\ outbox' = [outbox EXCEPT ![e] = "published"]
    /\ SetRow(p, e, "failed")
    /\ UNCHANGED <<queue, s3, request, lock, session, isLeader, after, pc, selected>>

\* Mutant: the cursor does not move past rows that failed.
LastTenantPublished(p) ==
    IF \E e \in DOMAIN rows[p] : rows[p][e] = "failed"
      THEN after[p]
      ELSE LET last == CHOOSE e \in DOMAIN rows[p] :
                         \A f \in DOMAIN rows[p] : selected[p][f] <= selected[p][e]
           IN  IF DOMAIN rows[p] = {} THEN after[p] ELSE TenantOf[last]

LastTenant(p) ==
    LET last == CHOOSE e \in DOMAIN rows[p] :
                  \A f \in DOMAIN rows[p] : selected[p][f] <= selected[p][e]
    IN  IF DOMAIN rows[p] = {} THEN after[p] ELSE TenantOf[last]

\* allSettled: the cursor moves on, also past rows that failed.
FinishTick(p) ==
    /\ pc[p] = "publish"
    /\ \A e \in DOMAIN rows[p] : rows[p][e] \in {"done", "failed"}
    /\ after' = [after EXCEPT ![p] = LastTenant(p)]
    /\ IF \E e \in DOMAIN rows[p] : rows[p][e] = "failed"
         THEN Disconnect(p)
         ELSE UNCHANGED <<isLeader, session, lock>>
    /\ EndTick(p)
    /\ UNCHANGED <<queue, s3, request, outbox, faults>>

\* tryBecomeLeader or listUnpublished throws: isLeader is given up.
TickThrows(p) ==
    /\ pc[p] \in {"loop", "fetch"}
    /\ QueryFails(p)
    /\ Disconnect(p)
    /\ EndTick(p)
    /\ UNCHANGED <<queue, s3, request, outbox, after>>

\* The server closes the connection and frees the lock; the publisher learns of
\* it with its next query.
SessionLost(p) ==
    /\ session[p] = "open" /\ pc[p] # "stopped"
    /\ Fault
    /\ session' = [session EXCEPT ![p] = "lost"]
    /\ lock' = FreeLock(p)
    /\ UNCHANGED <<queue, s3, request, outbox, isLeader, after, pc, selected, rows>>

\* SIGTERM takes effect at the head of the loop, after the batch.
Stop(p) ==
    /\ pc[p] = "loop"
    /\ Fault
    /\ Disconnect(p)
    /\ after' = [after EXCEPT ![p] = 0]
    /\ pc' = [pc EXCEPT ![p] = "stopped"]
    /\ UNCHANGED <<queue, s3, request, outbox, selected, rows>>

\* The process dies; the server closes its connection.
Crash(p) ==
    /\ pc[p] # "stopped"
    /\ Fault
    /\ Disconnect(p)
    /\ after' = [after EXCEPT ![p] = 0]
    /\ pc' = [pc EXCEPT ![p] = "stopped"]
    /\ selected' = [selected EXCEPT ![p] = <<>>]
    /\ rows' = [rows EXCEPT ![p] = <<>>]
    /\ UNCHANGED <<queue, s3, request, outbox>>

Start(p) ==
    /\ pc[p] = "stopped"
    /\ pc' = [pc EXCEPT ![p] = "loop"]
    /\ UNCHANGED <<queue, s3, request, outbox, lock, session, isLeader, after, selected, rows, faults>>
-----------------------------------------------------------------------------
RequestStep(e) ==
    Reject(e) \/ Accept(e) \/ UploadPayload(e) \/ Commit(e) \/ Respond(e) \/ RequestFails(e)

\* The publisher's own progress.
PublisherStep(p) ==
    \/ TryBecomeLeader(p) \/ Select(p) \/ Fetch(p) \/ FinishTick(p) \/ TickThrows(p) \/ Start(p)
    \/ \E e \in Events :
         SendOk(p, e) \/ SendRefused(p, e) \/ MarkPublished(p, e) \/ MarkFails(p, e)

Disruption(p) ==
    \/ SessionLost(p) \/ Stop(p) \/ Crash(p)
    \/ \E e \in Events : SendUnanswered(p, e)

Next ==
    \/ \E e \in Events : RequestStep(e)
    \/ \E p \in Publishers : PublisherStep(p) \/ Disruption(p)

Spec == Init /\ [][Next]_vars

(***************************************************************************)
(* A publisher that runs keeps looping and its calls return or time out;   *)
(* SQS may refuse a send any number of times, but not for ever, unless the *)
(* message is one it never takes.  Nothing is assumed of the requests.     *)
(***************************************************************************)
Fairness ==
    \A p \in Publishers :
      /\ WF_vars(PublisherStep(p))
      /\ \A e \in Events : SF_vars(SendOk(p, e))

FairSpec == Spec /\ Fairness

-----------------------------------------------------------------------------
TypeOK ==
    /\ queue \in [Messages -> {"absent", "visible", "hidden", "deleted"}]
    /\ s3 \subseteq Keys
    /\ request \in [Events -> {"new", "rejected", "upload", "commit", "respond",
                               "created", "failed"}]
    /\ outbox \in [Events -> {"none", "unpublished", "published"}]
    /\ lock \in Publishers \cup {None}
    /\ session \in [Publishers -> {"open", "lost"}]
    /\ isLeader \in [Publishers -> BOOLEAN]
    /\ after \in [Publishers -> Tenants \cup {0}]
    /\ pc \in [Publishers -> {"loop", "fetch", "publish", "stopped"}]
    /\ DOMAIN selected = Publishers /\ DOMAIN rows = Publishers
    /\ \A p \in Publishers :
         /\ DOMAIN selected[p] \subseteq Events
         /\ DOMAIN rows[p] \subseteq DOMAIN selected[p]
         /\ \A e \in DOMAIN rows[p] : rows[p][e] \in {"send", "sent", "done", "failed"}
    /\ faults \in 0..FaultBudget

Sent(e) == {c \in Copies : queue[<<e, c>>] # "absent"}

\* A row that is marked published has a message that SQS took: no crash, lost
\* answer or change of leader makes publishOne mark a row it did not send.
PublishedWasSent == \A e \in Events : outbox[e] = "published" => Sent(e) # {}

\* The S3 pointer of a committed event resolves, before any publisher or worker
\* can read it: the upload precedes the transaction.
PointerResolves ==
    \A e \in Large : outbox[e] # "none" => <<"event", e>> \in s3

\* At most one publisher that still has its connection takes itself for the
\* leader, through crashes, lost sessions and takeovers.
OneLeader ==
    \A p, q \in Publishers :
      /\ isLeader[p] /\ session[p] = "open"
      /\ isLeader[q] /\ session[q] = "open"
      => p = q

\* Without a fault every row is sent once: the lock keeps two publishers from
\* sending the same row, and each fault costs at most one more copy.
DuplicatesNeedFaults == \A e \in Events : Cardinality(Sent(e)) <= 1 + faults

\* The events of a tenant none of whose messages SQS always refuses.
Sendable(e) == \A f \in Unsendable : TenantOf[f] # TenantOf[e]

\* Every committed event is published, although another tenant's rows fail for
\* ever in the same batches: the rotation of listUnpublished starves no tenant.
Isolation ==
    \A e \in Events :
      Sendable(e) => (outbox[e] = "unpublished" ~> outbox[e] = "published")
=============================================================================
