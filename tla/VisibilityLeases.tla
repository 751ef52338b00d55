-------------------------- MODULE VisibilityLeases --------------------------
(***************************************************************************)
(* The worker's hold on the messages it has received                       *)
(* (packages/worker/src/delivery/visibility.ts), against what SQS knows.   *)
(*                                                                         *)
(* A message is hidden by SQS from the moment it is handed out; the worker *)
(* learns of it when the response arrives, tracks its receipt and renews   *)
(* all tracked receipts in batches.  A batch travels to SQS, is applied    *)
(* there to some of its entries, and is answered; it may fail at any       *)
(* point, also after SQS applied it, and SQS may apply it later still.     *)
(* One worker, one clock.                                                  *)
(***************************************************************************)
EXTENDS Integers, FiniteSets

CONSTANTS Receipts,
          Lease,         \* VISIBILITY_TIMEOUT_SECONDS, also in expiresAt
          Margin,        \* the 5 s of isCurrent
          ReceiveDelay,  \* longest way of a response to ReceiveMessage
          RetryDelay,    \* a delay that hideUntil asks for
          BatchSize,     \* entries of one renewal request
          MaxTime        \* bound of the clock

ASSUME LeaseAssumption ==
    /\ Lease \in Nat \ {0} /\ Margin \in Nat /\ RetryDelay \in Nat
    /\ ReceiveDelay \in 0..Margin
    /\ BatchSize \in Nat \ {0}
    /\ MaxTime \in Nat

VARIABLES now,
          hiddenUntil,  \* SQS: end of each message's visibility timeout
          state,        \* what the worker does with each receipt
          expiresAt,    \* receipts: expiresAt of the entry
          pending,      \* renewal requests that are not settled
          late          \* receipts of failed requests that SQS may still apply

vars == <<now, hiddenUntil, state, expiresAt, pending, late>>

\* The receipts of the map.
Tracked(r) == state[r] \in {"buffered", "handling"}

isCurrent(r) == Tracked(r) /\ expiresAt[r] > now + Margin

\* Mutant: entries whose ownership is uncertain are renewed as well.
RenewableAll == {r \in Receipts : Tracked(r)}

Renewable == {r \in Receipts : Tracked(r) /\ expiresAt[r] > now}

\* The ways to cut S, in the order of the map, into full batches and a rest.
Groupings(S) ==
    {P \in SUBSET ((SUBSET S) \ {{}}) :
       /\ UNION P = S
       /\ \A b \in P : Cardinality(b) <= BatchSize
       /\ \A b, c \in P : b # c => b \cap c = {} /\ BatchSize \in {Cardinality(b), Cardinality(c)}}

Init ==
    /\ now = 1
    /\ hiddenUntil = [r \in Receipts |-> 0]
    /\ state = [r \in Receipts |-> "queued"]
    /\ expiresAt = [r \in Receipts |-> 0]
    /\ pending = {}
    /\ late = {}

Tick ==
    /\ now < MaxTime
    /\ now' = now + 1
    /\ UNCHANGED <<hiddenUntil, state, expiresAt, pending, late>>

Goto(r, s) == state' = [state EXCEPT ![r] = s]

\* SQS hands the message out.
Receive(r) ==
    /\ state[r] = "queued"
    /\ Goto(r, "received")
    /\ hiddenUntil' = [hiddenUntil EXCEPT ![r] = now + Lease]
    /\ UNCHANGED <<now, expiresAt, pending, late>>

\* The response arrives.
Track(r) ==
    /\ state[r] = "received"
    /\ now + Lease - hiddenUntil[r] <= ReceiveDelay
    /\ Goto(r, "buffered")
    /\ expiresAt' = [expiresAt EXCEPT ![r] = now + Lease]
    /\ UNCHANGED <<now, hiddenUntil, pending, late>>

\* renewAll, unless a renewal is under way.
RenewNow ==
    /\ pending = {}
    /\ Renewable # {}
    /\ \E P \in Groupings(Renewable) :
         pending' = {[members |-> b, startedAt |-> now, applied |-> {}, reached |-> FALSE] : b \in P}
    /\ UNCHANGED <<now, hiddenUntil, state, expiresAt, late>>

\* A request reaches SQS, which renews some of its entries.
Renew(b, done) ==
    /\ b \in pending /\ ~b.reached
    /\ done \subseteq b.members
    /\ hiddenUntil' = [r \in Receipts |-> IF r \in done THEN now + Lease ELSE hiddenUntil[r]]
    /\ pending' = (pending \ {b}) \cup
                  {[members |-> b.members, startedAt |-> b.startedAt, applied |-> done, reached |-> TRUE]}
    /\ UNCHANGED <<now, state, expiresAt, late>>

\* A request is settled; with the last one, pending resolves and release goes on.
Settle(b) ==
    /\ pending' = pending \ {b}
    /\ state' = [r \in Receipts |->
                   IF pending' = {} /\ state[r] = "leaving" THEN "left" ELSE state[r]]

\* Mutant: the new lease counts from the answer instead of the request.
ConfirmFromNow(b) ==
    /\ b \in pending /\ b.reached
    /\ expiresAt' = [r \in Receipts |->
                       IF r \in b.members /\ Tracked(r)
                         THEN IF r \in b.applied THEN now + Lease ELSE 0
                         ELSE expiresAt[r]]
    /\ Settle(b)
    /\ UNCHANGED <<now, hiddenUntil, late>>

\* The answer: what SQS confirmed is held from the start of the request, the rest
\* is given up.
Confirm(b) ==
    /\ b \in pending /\ b.reached
    /\ expiresAt' = [r \in Receipts |->
                       IF r \in b.members /\ Tracked(r)
                         THEN IF r \in b.applied THEN b.startedAt + Lease ELSE 0
                         ELSE expiresAt[r]]
    /\ Settle(b)
    /\ UNCHANGED <<now, hiddenUntil, late>>

\* An error or the deadline of the request.
Fail(b) ==
    /\ b \in pending
    /\ expiresAt' = [r \in Receipts |-> IF r \in b.members /\ Tracked(r) THEN 0 ELSE expiresAt[r]]
    /\ late' = IF b.reached THEN late ELSE late \cup b.members
    /\ Settle(b)
    /\ UNCHANGED <<now, hiddenUntil>>

RenewLate(r) ==
    /\ r \in late
    /\ late' = late \ {r}
    /\ hiddenUntil' = [hiddenUntil EXCEPT ![r] = now + Lease]
    /\ UNCHANGED <<now, state, expiresAt, pending>>

\* The message's turn in processDeliveryBatch.
Handle(r) ==
    /\ state[r] = "buffered" /\ isCurrent(r)
    /\ Goto(r, "handling")
    /\ UNCHANGED <<now, hiddenUntil, expiresAt, pending, late>>

\* Mutant: release does not wait for the renewal under way.
ReleaseAtOnce(r) ==
    /\ Tracked(r)
    /\ Goto(r, "left")
    /\ expiresAt' = [expiresAt EXCEPT ![r] = 0]
    /\ UNCHANGED <<now, hiddenUntil, pending, late>>

\* release: after the handler, for a message that is not current, or deferred.
Release(r) ==
    /\ Tracked(r)
    /\ Goto(r, IF pending = {} THEN "left" ELSE "leaving")
    /\ expiresAt' = [expiresAt EXCEPT ![r] = 0]
    /\ UNCHANGED <<now, hiddenUntil, pending, late>>

\* hideUntil or deferExcessMessages sets a delay; a delete and a skip set none.
Dispose(r) ==
    /\ state[r] = "left"
    /\ Goto(r, "done")
    /\ hiddenUntil' \in {hiddenUntil, [hiddenUntil EXCEPT ![r] = now + RetryDelay]}
    /\ UNCHANGED <<now, expiresAt, pending, late>>

\* stop, on the worker's way out, when the renewal under way is settled.
Stop ==
    /\ pending = {}
    /\ state' = [r \in Receipts |-> IF Tracked(r) THEN "done" ELSE state[r]]
    /\ expiresAt' = [r \in Receipts |-> 0]
    /\ UNCHANGED <<now, hiddenUntil, pending, late>>

Next ==
    \/ Tick \/ RenewNow \/ Stop
    \/ \E r \in Receipts :
         Receive(r) \/ Track(r) \/ Handle(r) \/ Release(r) \/ Dispose(r) \/ RenewLate(r)
    \/ \E b \in pending :
         Confirm(b) \/ Fail(b) \/ \E done \in SUBSET b.members : Renew(b, done)

Spec == Init /\ [][Next]_vars

-----------------------------------------------------------------------------
Requests == [members : SUBSET Receipts, startedAt : Nat, applied : SUBSET Receipts, reached : BOOLEAN]

TypeOK ==
    /\ now \in Nat
    /\ hiddenUntil \in [Receipts -> Nat]
    /\ state \in [Receipts -> {"queued", "received", "buffered", "handling", "leaving", "left", "done"}]
    /\ expiresAt \in [Receipts -> Nat]
    /\ pending \subseteq Requests
    /\ late \subseteq Receipts

\* A message that isCurrent lets the worker start on is still hidden by SQS, however
\* the answers to its renewals were delayed, partial or lost: nobody else has it.
CurrentIsOwned == \A r \in Receipts : isCurrent(r) => hiddenUntil[r] > now

\* A delay that was chosen after release is not overridden by a renewal that the
\* worker still waits for: only one that it gave up on can come later.
DelayKept ==
    [][\A r \in Receipts :
         state[r] = "done" /\ r \notin late => hiddenUntil'[r] = hiddenUntil[r]]_vars

\* A receipt whose renewal was not confirmed is never trusted again.
UncertainStays ==
    [][\A r \in Receipts :
         Tracked(r) /\ expiresAt[r] = 0 => expiresAt'[r] = 0]_vars
=============================================================================
