---------------------------- MODULE ReceiveCycle ----------------------------
(***************************************************************************)
(* One worker's receive loop (worker/src/index.ts, main) with the turns of *)
(* the tenants (tenant-turns.ts) and the background confirmations that are *)
(* drained at the end of a cycle (message-batch.ts).  A cycle sends all    *)
(* its receives at once, handles the batches one by one in the order of    *)
(* their answers, and defers what is over a tenant's limit at the end.     *)
(*                                                                         *)
(* What a handler does with a message is the subject of Delivery; here it  *)
(* ends with a confirmation to run, without one, or with an error.  A      *)
(* receipt stands for one reception of a message.                          *)
(***************************************************************************)
EXTENDS Naturals, FiniteSets

CONSTANTS
    Receipts,      \* receptions of messages
    Tenants,
    TenantOf,      \* tenant of a receipt; a body that does not parse has none
    Receives,      \* the receives of a cycle (RECEIVE_BATCHES)
    BatchSize,     \* MaxNumberOfMessages
    Limit,         \* turns of a tenant per cycle
    MaxPending,    \* confirmations under way at most
    None

CycleAssumption ==
    /\ TenantOf \in [Receipts -> Tenants \cup {None}] /\ None \notin Tenants \cup Receipts
    /\ Limit \in Nat \ {0} /\ MaxPending \in Nat \ {0} /\ BatchSize \in Nat \ {0}

VARIABLES
    visible,     \* messages SQS would hand out
    recv,        \* the receives of this cycle and their messages
    phase,       \* "handle" the batches, "schedule" a confirmation, "drain", "defer"
    batch,       \* messages of the current batch not yet looked at
    hand,        \* the message in the handler, or None
    used,        \* TenantTurns
    deferred,
    owned,       \* receipts the leases track
    unsure,      \* tracked receipts whose renewal was not confirmed
    pending,     \* confirmations under way
    served       \* history: messages of a tenant handled in this cycle

vars == <<visible, recv, phase, batch, hand, used, deferred, owned, unsure, pending, served>>

Waiting == [at |-> "waiting", messages |-> {}]

\* One type invariant for the loop.
TypeOK ==
    /\ visible \subseteq Receipts
    /\ recv \in [Receives -> [at : {"waiting", "answered", "taken"}, messages : SUBSET Receipts]]
    /\ phase \in {"handle", "schedule", "drain", "defer"}
    /\ batch \subseteq Receipts /\ hand \in Receipts \cup {None}
    /\ used \in [Tenants -> 0 .. Limit] /\ served \in [Tenants -> Nat]
    /\ deferred \subseteq Receipts
    /\ unsure \subseteq owned /\ owned \subseteq Receipts
    /\ pending \subseteq Receipts /\ Cardinality(pending) <= MaxPending

AllWaiting == [r \in Receives |-> Waiting]

NoTurns == [t \in Tenants |-> 0]

Init ==
    /\ recv = AllWaiting /\ phase = "handle"
    /\ used = NoTurns /\ served = NoTurns /\ deferred = {}
    /\ visible = Receipts
    /\ batch = {} /\ hand = None
    /\ owned = {} /\ unsure = {} /\ pending = {}

-----------------------------------------------------------------------------
(* The queue, as the loop uses it.                                         *)

\* An answer: its messages are tracked at once, before the batch is handled.
ReceiveAnswers(r) ==
    /\ recv[r].at = "waiting"
    /\ \E S \in SUBSET visible :
          /\ Cardinality(S) <= BatchSize
          /\ recv' = [recv EXCEPT ![r] = [at |-> "answered", messages |-> S]]
          /\ visible' = visible \ S
          /\ owned' = owned \cup S
    /\ UNCHANGED <<phase, batch, hand, used, deferred, unsure, pending, served>>

\* An error or a timeout; SQS may have hidden messages that nobody learns of.
ReceiveFails(r) ==
    /\ recv[r].at = "waiting"
    /\ \E S \in SUBSET visible :
          /\ Cardinality(S) <= BatchSize
          /\ visible' = visible \ S
    /\ recv' = [recv EXCEPT ![r] = [at |-> "answered", messages |-> {}]]
    /\ UNCHANGED <<phase, batch, hand, used, deferred, owned, unsure, pending, served>>

\* A renewal that was not confirmed.
LoseTrust(m) ==
    /\ m \in owned \ unsure
    /\ unsure' = unsure \cup {m}
    /\ UNCHANGED <<visible, recv, phase, batch, hand, used, deferred, owned, pending, served>>

\* The visibility timeout of a message the worker does not hold ends.
Reappear(m) ==
    /\ m \notin visible \cup owned \cup deferred \cup batch
    /\ visible' = visible \cup {m}
    /\ UNCHANGED <<recv, phase, batch, hand, used, deferred, owned, unsure, pending, served>>

-----------------------------------------------------------------------------
(* The loop.                                                               *)

Release(S) == owned' = owned \ S /\ unsure' = unsure \ S

\* Promise.race: one answered receive, whichever, gives the next batch.
TakeBatch(r) ==
    /\ phase = "handle" /\ batch = {} /\ hand = None
    /\ recv[r].at = "answered"
    /\ batch' = recv[r].messages
    /\ recv' = [recv EXCEPT ![r] = [at |-> "taken", messages |-> {}]]
    /\ UNCHANGED <<visible, phase, hand, used, deferred, owned, unsure, pending, served>>

\* Mutant: a skipped message stays tracked.
SkipTracked(m) ==
    /\ m \in batch /\ hand = None /\ m \in unsure
    /\ batch' = batch \ {m}
    /\ UNCHANGED <<visible, recv, phase, hand, used, deferred, owned, unsure, pending, served>>

\* isCurrent is false: the message is left to its visibility timeout.
Skip(m) ==
    /\ m \in batch /\ hand = None /\ m \in unsure
    /\ batch' = batch \ {m}
    /\ Release({m})
    /\ UNCHANGED <<visible, recv, phase, hand, used, deferred, pending, served>>

HasTurn(m) == TenantOf[m] = None \/ used[TenantOf[m]] < Limit

\* take is false: the tenant has had its turns in this cycle.
DeferExcess(m) ==
    /\ m \in batch /\ hand = None /\ m \notin unsure
    /\ ~HasTurn(m)
    /\ batch' = batch \ {m}
    /\ deferred' = deferred \cup {m}
    /\ UNCHANGED <<visible, recv, phase, hand, used, owned, unsure, pending, served>>

Take(f, m) == [t \in Tenants |-> IF t = TenantOf[m] THEN f[t] + 1 ELSE f[t]]

Handle(m) ==
    /\ m \in batch /\ hand = None /\ m \notin unsure
    /\ HasTurn(m)
    /\ batch' = batch \ {m}
    /\ hand' = m
    /\ used' = Take(used, m) /\ served' = Take(served, m)
    /\ UNCHANGED <<visible, recv, phase, deferred, owned, unsure, pending>>

\* The handler returns a confirmation to run.
Acknowledges ==
    /\ phase = "handle" /\ hand # None
    /\ phase' = "schedule"
    /\ UNCHANGED <<visible, recv, batch, hand, used, deferred, owned, unsure, pending, served>>

\* The loop waits until there is room for it.
Schedule ==
    /\ phase = "schedule" /\ Cardinality(pending) < MaxPending
    /\ pending' = pending \cup {hand}
    /\ hand' = None /\ phase' = "handle"
    /\ UNCHANGED <<visible, recv, batch, used, deferred, owned, unsure, served>>

\* The handler returns nothing or throws.
Return ==
    /\ phase = "handle" /\ hand # None
    /\ Release({hand})
    /\ hand' = None
    /\ UNCHANGED <<visible, recv, phase, batch, used, deferred, pending, served>>

\* A confirmation releases its receipt before it deletes the message; an
\* error of the delete is reported and ends it as well.
Confirm(m) ==
    /\ m \in pending
    /\ Release({m})
    /\ pending' = pending \ {m}
    /\ UNCHANGED <<visible, recv, phase, batch, hand, used, deferred, served>>

EndHandling ==
    /\ phase = "handle" /\ batch = {} /\ hand = None
    /\ \A r \in Receives : recv[r].at = "taken"
    /\ phase' = "drain"
    /\ UNCHANGED <<visible, recv, batch, hand, used, deferred, owned, unsure, pending, served>>

\* Mutant: the drain waits until nothing is tracked.
DrainTracked ==
    /\ phase = "drain" /\ owned = {}
    /\ phase' = "defer"
    /\ UNCHANGED <<visible, recv, batch, hand, used, deferred, owned, unsure, pending, served>>

Drain ==
    /\ phase = "drain" /\ pending = {}
    /\ phase' = "defer"
    /\ UNCHANGED <<visible, recv, batch, hand, used, deferred, owned, unsure, pending, served>>

\* Mutant: the turns last for more than one cycle.
DeferAllKeepsTurns ==
    /\ phase = "defer"
    /\ Release(deferred)
    /\ recv' = AllWaiting /\ phase' = "handle"
    /\ served' = NoTurns /\ deferred' = {}
    /\ UNCHANGED <<visible, batch, hand, used, pending>>

\* deferExcessMessages: all are released, then hidden in batches; entries
\* that fail stay hidden for what is left of their timeout.  The next cycle
\* begins with new turns.
DeferAll ==
    /\ phase = "defer"
    /\ Release(deferred)
    /\ recv' = AllWaiting /\ phase' = "handle"
    /\ used' = NoTurns /\ served' = NoTurns /\ deferred' = {}
    /\ UNCHANGED <<visible, batch, hand, pending>>

Step ==
    \/ \E r \in Receives : TakeBatch(r)
    \/ \E m \in Receipts : Skip(m) \/ DeferExcess(m) \/ Handle(m)
    \/ Acknowledges \/ Schedule \/ Return \/ EndHandling \/ Drain \/ DeferAll

Answers == \E r \in Receives : ReceiveAnswers(r) \/ ReceiveFails(r)

Confirms == \E m \in Receipts : Confirm(m)

Next == Step \/ Answers \/ Confirms \/ \E m \in Receipts : LoseTrust(m) \/ Reappear(m)

\* Every call has a time limit (sendWithTimeout, AbortSignal.timeout), so the
\* receives, the confirmations and the handler come back.
Fairness == WF_vars(Step) /\ WF_vars(Answers) /\ WF_vars(Confirms)

Spec == Init /\ [][Next]_vars /\ Fairness

-----------------------------------------------------------------------------
\* Fair shares: within a cycle a tenant has at most Limit messages handled,
\* and a message is put off only if its tenant has had all of them.
FairShares ==
    \A t \in Tenants :
        /\ served[t] <= Limit
        /\ (\E m \in deferred : TenantOf[m] = t) => served[t] = Limit

\* No receipt is tracked, and so renewed, beyond the cycle that received it:
\* skipped, deferred, handled, failed or confirmed, each path released it.
NothingLeaks == (phase = "defer" => owned \subseteq deferred)
                    /\ ((\A r \in Receives : recv[r].at = "waiting") => owned = {})

\* The loop never hangs: whatever is lost, refused or uncertain, every cycle
\* ends and another begins.
KeepsReceiving == []<>(phase = "defer")
=============================================================================
