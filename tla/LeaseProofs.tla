----------------------------- MODULE LeaseProofs -----------------------------
(***************************************************************************)
(* Proofs about VisibilityLeases, for any number of receipts and any       *)
(* durations with ReceiveDelay <= Margin.                                  *)
(***************************************************************************)
EXTENDS VisibilityLeases, TLAPS

\* A receipt in a request was tracked when the request began, is in no other one,
\* and has not been given up since.
InOneRequest ==
    \A b \in pending : \A r \in b.members :
      /\ state[r] \in {"buffered", "handling", "leaving"}
      /\ Tracked(r) => expiresAt[r] > 0
      /\ \A c \in pending : r \in c.members => c = b

\* What SQS did with a request that reached it.
AppliedHolds ==
    \A b \in pending :
      /\ b.startedAt <= now
      /\ b.applied \subseteq b.members
      /\ \A r \in b.applied : Tracked(r) => hiddenUntil[r] >= b.startedAt + Lease

\* The worker's view never runs ahead of SQS by more than ReceiveDelay, and no
\* renewal that arrives can shorten what SQS granted.
ViewBounded ==
    \A r \in Receipts :
      /\ Tracked(r) => expiresAt[r] <= hiddenUntil[r] + ReceiveDelay
      /\ Tracked(r) \/ state[r] = "received" => hiddenUntil[r] <= now + Lease

IInv == TypeOK /\ InOneRequest /\ AppliedHolds /\ ViewBounded

\* The batches of a renewal partition the renewable receipts.
LEMMA GroupingsPartition ==
    ASSUME NEW S, NEW P \in Groupings(S)
    PROVE  /\ \A b \in P : b \subseteq S
           /\ \A b, c \in P : b # c => b \cap c = {}
BY DEF Groupings

\* Every type is kept by every step.
LEMMA TypeStep == TypeOK /\ [Next]_vars => TypeOK'
<1> SUFFICES ASSUME TypeOK, [Next]_vars PROVE TypeOK'
  OBVIOUS
<1> USE LeaseAssumption
<1> USE DEF TypeOK, Goto
<1>1. CASE Tick
  BY <1>1 DEF Tick
<1>2. CASE RenewNow
  <2>1. PICK P \in Groupings(Renewable) :
          pending' = {[members |-> b, startedAt |-> now, applied |-> {}, reached |-> FALSE] : b \in P}
    BY <1>2 DEF RenewNow
  <2>2. \A b \in P : b \in SUBSET Receipts
    BY <2>1, GroupingsPartition DEF Renewable
  <2>3. \A b \in P : [members |-> b, startedAt |-> now, applied |-> {}, reached |-> FALSE] \in Requests
    BY <2>2 DEF Requests
  <2>4. pending' \subseteq Requests
    BY <2>1, <2>3
  <2> QED BY <1>2, <2>4 DEF RenewNow
<1>3. ASSUME NEW r \in Receipts, Receive(r) PROVE TypeOK'
  BY <1>3 DEF Receive
<1>4. ASSUME NEW r \in Receipts, Track(r) PROVE TypeOK'
  BY <1>4 DEF Track
<1>5. ASSUME NEW r \in Receipts, Handle(r) PROVE TypeOK'
  BY <1>5 DEF Handle
<1>6. ASSUME NEW r \in Receipts, Release(r) PROVE TypeOK'
  BY <1>6 DEF Release
<1>7. ASSUME NEW r \in Receipts, Dispose(r) PROVE TypeOK'
  <2>1. [hiddenUntil EXCEPT ![r] = now + RetryDelay] \in [Receipts -> Nat]
    OBVIOUS
  <2> QED BY <1>7, <2>1 DEF Dispose
<1>8. ASSUME NEW r \in Receipts, RenewLate(r) PROVE TypeOK'
  BY <1>8 DEF RenewLate
<1>9. ASSUME NEW b \in pending, Confirm(b) PROVE TypeOK'
  <2>1. b.startedAt + Lease \in Nat
    BY DEF Requests
  <2> QED BY <1>9, <2>1 DEF Confirm, Settle
<1>10. ASSUME NEW b \in pending, Fail(b) PROVE TypeOK'
  <2>1. b.members \subseteq Receipts
    BY DEF Requests
  <2> QED BY <1>10, <2>1 DEF Fail, Settle
<1>11. ASSUME NEW b \in pending, NEW done \in SUBSET b.members, Renew(b, done) PROVE TypeOK'
  <2>1. b.members \in SUBSET Receipts /\ b.startedAt \in Nat /\ done \in SUBSET Receipts
    BY DEF Requests
  <2>2. [members |-> b.members, startedAt |-> b.startedAt, applied |-> done, reached |-> TRUE] \in Requests
    BY <2>1 DEF Requests
  <2>3. pending' \subseteq Requests
    BY <1>11, <2>2 DEF Renew
  <2>4. hiddenUntil' \in [Receipts -> Nat]
    BY <1>11 DEF Renew
  <2> QED BY <1>11, <2>3, <2>4 DEF Renew
<1>12. CASE UNCHANGED vars
  BY <1>12 DEF vars
<1>13. CASE Stop
  BY <1>13 DEF Stop
<1> QED BY <1>13, <1>1, <1>2, <1>3, <1>4, <1>5, <1>6, <1>7, <1>8, <1>9, <1>10, <1>11, <1>12 DEF Next

\* The inductive step.
LEMMA InvStep == IInv /\ [Next]_vars => IInv'
<1> SUFFICES ASSUME IInv, [Next]_vars
             PROVE  InOneRequest' /\ AppliedHolds' /\ ViewBounded'
  BY TypeStep DEF IInv
<1> USE LeaseAssumption
<1>t. TypeOK'
  BY TypeStep DEF IInv
<1> USE DEF IInv, TypeOK, Goto, Tracked
<1>1. CASE Tick
  <2>1. InOneRequest'
    BY <1>1 DEF Tick, InOneRequest
  <2>2. AppliedHolds'
    BY <1>1 DEF Tick, AppliedHolds, Requests
  <2>3. ViewBounded'
    BY <1>1 DEF Tick, ViewBounded
  <2> QED BY <2>1, <2>2, <2>3
<1>2. CASE RenewNow
  <2>1. PICK P \in Groupings(Renewable) :
          pending' = {[members |-> b, startedAt |-> now, applied |-> {}, reached |-> FALSE] : b \in P}
    BY <1>2 DEF RenewNow
  <2>2. /\ \A b \in P : b \subseteq Renewable
        /\ \A b, c \in P : b # c => b \cap c = {}
    BY <2>1, GroupingsPartition
  <2>3. \A b \in pending' : /\ b.members \in P /\ b.startedAt = now /\ b.applied = {}
                            /\ b = [members |-> b.members, startedAt |-> now, applied |-> {}, reached |-> FALSE]
    BY <2>1
  <2>4. InOneRequest'
    <3> SUFFICES ASSUME NEW b \in pending', NEW r \in b.members
                 PROVE  /\ state[r] \in {"buffered", "handling", "leaving"}
                        /\ expiresAt[r] > 0
                        /\ \A c \in pending' : r \in c.members => c = b
      BY <1>2 DEF InOneRequest, RenewNow
    <3>1. r \in Renewable
      BY <2>2, <2>3
    <3>2. \A c \in pending' : r \in c.members => c = b
      BY <2>2, <2>3
    <3> QED BY <3>1, <3>2 DEF Renewable
  <2>5. AppliedHolds'
    BY <1>2, <2>3 DEF AppliedHolds, RenewNow
  <2>6. ViewBounded'
    BY <1>2 DEF ViewBounded, RenewNow
  <2> QED BY <2>4, <2>5, <2>6
<1>3. ASSUME NEW r \in Receipts, Receive(r) PROVE InOneRequest' /\ AppliedHolds' /\ ViewBounded'
  BY <1>3 DEF Receive, InOneRequest, AppliedHolds, ViewBounded, Requests
<1>4. ASSUME NEW r \in Receipts, Track(r) PROVE InOneRequest' /\ AppliedHolds' /\ ViewBounded'
  BY <1>4 DEF Track, InOneRequest, AppliedHolds, ViewBounded, Requests
<1>5. ASSUME NEW r \in Receipts, Handle(r) PROVE InOneRequest' /\ AppliedHolds' /\ ViewBounded'
  BY <1>5 DEF Handle, InOneRequest, AppliedHolds, ViewBounded, Requests
<1>6. ASSUME NEW r \in Receipts, Release(r) PROVE InOneRequest' /\ AppliedHolds' /\ ViewBounded'
  BY <1>6 DEF Release, InOneRequest, AppliedHolds, ViewBounded, Requests
<1>7. ASSUME NEW r \in Receipts, Dispose(r) PROVE InOneRequest' /\ AppliedHolds' /\ ViewBounded'
  BY <1>7 DEF Dispose, InOneRequest, AppliedHolds, ViewBounded, Requests
<1>8. ASSUME NEW r \in Receipts, RenewLate(r) PROVE InOneRequest' /\ AppliedHolds' /\ ViewBounded'
  <2>1. InOneRequest'
    BY <1>8 DEF RenewLate, InOneRequest
  <2>2. \A q \in Receipts : Tracked(q) => hiddenUntil'[q] >= hiddenUntil[q]
    BY <1>8 DEF RenewLate, ViewBounded
  <2>3. AppliedHolds'
    BY <1>8, <1>t, <2>2 DEF RenewLate, AppliedHolds, Requests
  <2>4. ViewBounded'
    BY <1>8, <2>2 DEF RenewLate, ViewBounded
  <2> QED BY <2>1, <2>3, <2>4
<1>9. ASSUME NEW b \in pending, Confirm(b) PROVE InOneRequest' /\ AppliedHolds' /\ ViewBounded'
  <2>1. pending' = pending \ {b} /\ UNCHANGED <<now, hiddenUntil>>
    BY <1>9 DEF Confirm, Settle
  <2>2. \A q \in Receipts : state'[q] = state[q] \/ (pending' = {} /\ state'[q] = "left")
    BY <1>9 DEF Confirm, Settle
  <2>3. \A q \in Receipts : q \notin b.members => expiresAt'[q] = expiresAt[q]
    BY <1>9 DEF Confirm
  <2>4. \A q \in Receipts : Tracked(q) /\ q \in b.members =>
           expiresAt'[q] = 0 \/ (q \in b.applied /\ expiresAt'[q] = b.startedAt + Lease)
    BY <1>9 DEF Confirm
  <2>5. InOneRequest'
    BY <2>1, <2>2, <2>3 DEF InOneRequest, Requests
  <2>6. AppliedHolds'
    BY <2>1, <2>2 DEF AppliedHolds, Requests
  <2>7. ViewBounded'
    BY <1>t, <2>1, <2>2, <2>3, <2>4 DEF ViewBounded, AppliedHolds, Requests
  <2> QED BY <2>5, <2>6, <2>7
<1>10. ASSUME NEW b \in pending, Fail(b) PROVE InOneRequest' /\ AppliedHolds' /\ ViewBounded'
  <2>1. pending' = pending \ {b} /\ UNCHANGED <<now, hiddenUntil>>
    BY <1>10 DEF Fail, Settle
  <2>2. \A q \in Receipts : state'[q] = state[q] \/ (pending' = {} /\ state'[q] = "left")
    BY <1>10 DEF Fail, Settle
  <2>3. \A q \in Receipts : expiresAt'[q] = 0 \/ expiresAt'[q] = expiresAt[q]
    BY <1>10 DEF Fail
  <2>4. \A q \in Receipts : q \notin b.members => expiresAt'[q] = expiresAt[q]
    BY <1>10 DEF Fail
  <2>5. InOneRequest'
    BY <2>1, <2>2, <2>4 DEF InOneRequest, Requests
  <2>6. AppliedHolds'
    BY <2>1, <2>2 DEF AppliedHolds, Requests
  <2>7. ViewBounded'
    BY <1>t, <2>1, <2>2, <2>3 DEF ViewBounded
  <2> QED BY <2>5, <2>6, <2>7
<1>11. ASSUME NEW b \in pending, NEW done \in SUBSET b.members, Renew(b, done)
       PROVE  InOneRequest' /\ AppliedHolds' /\ ViewBounded'
  <2> DEFINE n == [members |-> b.members, startedAt |-> b.startedAt, applied |-> done, reached |-> TRUE]
  <2>1. pending' = (pending \ {b}) \cup {n} /\ UNCHANGED <<now, state, expiresAt>>
    BY <1>11 DEF Renew
  <2>2. \A q \in Receipts : hiddenUntil'[q] = IF q \in done THEN now + Lease ELSE hiddenUntil[q]
    BY <1>11 DEF Renew
  <2>3. \A q \in Receipts : Tracked(q) => hiddenUntil'[q] >= hiddenUntil[q]
    BY <2>2 DEF ViewBounded
  <2>4. n.members = b.members /\ n.startedAt = b.startedAt /\ n.applied = done
    OBVIOUS
  <2> HIDE DEF n
  <2>5. InOneRequest'
    BY <2>1, <2>4 DEF InOneRequest
  <2>6. AppliedHolds'
    <3> SUFFICES ASSUME NEW c \in pending'
                 PROVE  /\ c.startedAt <= now
                        /\ c.applied \subseteq c.members
                        /\ \A r \in c.applied : Tracked(r) => hiddenUntil'[r] >= c.startedAt + Lease
      BY <2>1 DEF AppliedHolds
    <3>1. CASE c = n
      BY <3>1, <2>2, <2>4 DEF AppliedHolds, Requests
    <3>2. CASE c \in pending
      BY <3>2, <1>t, <2>3 DEF AppliedHolds, Requests
    <3> QED BY <2>1, <3>1, <3>2
  <2>7. ViewBounded'
    BY <1>t, <2>1, <2>2, <2>3 DEF ViewBounded
  <2> QED BY <2>5, <2>6, <2>7
<1>12. CASE UNCHANGED vars
  BY <1>12 DEF vars, InOneRequest, AppliedHolds, ViewBounded
<1>13. CASE Stop
  BY <1>13 DEF Stop, InOneRequest, AppliedHolds, ViewBounded
<1> QED BY <1>13, <1>1, <1>2, <1>3, <1>4, <1>5, <1>6, <1>7, <1>8, <1>9, <1>10, <1>11, <1>12 DEF Next

\* IInv is an invariant.
LEMMA Invariance == Spec => []IInv
<1>1. Init => IInv
  BY LeaseAssumption DEF Init, IInv, TypeOK, InOneRequest, AppliedHolds, ViewBounded, Tracked
<1> QED BY <1>1, InvStep, PTL DEF Spec

\* Receipts, leases and requests for renewal keep their types.
THEOREM TypeCorrect == Spec => []TypeOK
  BY Invariance, PTL DEF IInv

\* What isCurrent says is so: a message the worker starts on is hidden from others.
THEOREM CurrentOwned == Spec => []CurrentIsOwned
<1>1. IInv => CurrentIsOwned
  BY LeaseAssumption DEF IInv, TypeOK, ViewBounded, CurrentIsOwned, isCurrent
<1> QED BY <1>1, Invariance, PTL

\* A delay set after release is not overridden by a renewal the worker waits for.
THEOREM DelayIsKept == Spec => DelayKept
<1> DEFINE Kept == \A r \in Receipts :
         state[r] = "done" /\ r \notin late => hiddenUntil'[r] = hiddenUntil[r]
<1>1. IInv /\ [Next]_vars => [Kept]_vars
  <2> SUFFICES ASSUME IInv, Next, NEW r \in Receipts, state[r] = "done", r \notin late
               PROVE  hiddenUntil'[r] = hiddenUntil[r]
    OBVIOUS
  <2> USE DEF IInv, TypeOK
  <2>1. CASE \E q \in Receipts : Receive(q) \/ Dispose(q) \/ RenewLate(q)
    BY <2>1 DEF Receive, Dispose, RenewLate
  <2>2. ASSUME NEW b \in pending, NEW done \in SUBSET b.members, Renew(b, done)
        PROVE  hiddenUntil'[r] = hiddenUntil[r]
    BY <2>2 DEF Renew, InOneRequest
  <2> QED BY <2>1, <2>2 DEF Next, Tick, RenewNow, Stop, Track, Handle, Release, Confirm, Fail
<1> QED BY <1>1, Invariance, PTL DEF Spec, DelayKept

\* A receipt that was given up stays given up, although answers are outstanding.
THEOREM UncertainForGood == Spec => UncertainStays
<1> DEFINE Stays == \A r \in Receipts :
         Tracked(r) /\ expiresAt[r] = 0 => expiresAt'[r] = 0
<1>1. IInv /\ [Next]_vars => [Stays]_vars
  <2> SUFFICES ASSUME IInv, Next, NEW r \in Receipts, Tracked(r), expiresAt[r] = 0
               PROVE  expiresAt'[r] = 0
    OBVIOUS
  <2> USE DEF IInv, TypeOK, Tracked
  <2>1. CASE \E q \in Receipts : Track(q) \/ Release(q)
    BY <2>1 DEF Track, Release
  <2>2. ASSUME NEW b \in pending, Confirm(b) \/ Fail(b)
        PROVE  expiresAt'[r] = 0
    BY <2>2 DEF Confirm, Fail, InOneRequest
  <2> QED BY <2>1, <2>2 DEF Next, Tick, RenewNow, Stop, Receive, Handle, Dispose, RenewLate, Renew
<1> QED BY <1>1, Invariance, PTL DEF Spec, UncertainStays
=============================================================================
