---------------------------- MODULE OutboxProofs ----------------------------
(***************************************************************************)
(* Proofs about Outbox, for any events, tenants, publishers, batch size    *)
(* and number of faults.                                                   *)
(***************************************************************************)
EXTENDS Outbox, FiniteSetTheorems, TLAPS

\* The part of TypeOK that the proofs of safety use.
Shape ==
    /\ queue \in [Messages -> {"absent", "visible", "hidden", "deleted"}]
    /\ outbox \in [Events -> {"none", "unpublished", "published"}]
    /\ request \in [Events -> {"new", "rejected", "upload", "commit", "respond",
                               "created", "failed"}]
    /\ lock \in Publishers \cup {None}
    /\ session \in [Publishers -> {"open", "lost"}]
    /\ isLeader \in [Publishers -> BOOLEAN]
    /\ DOMAIN rows = Publishers

\* Who takes itself for the leader on a live connection holds the advisory lock.
LeaderHoldsLock ==
    \A p \in Publishers : isLeader[p] /\ session[p] = "open" => lock = p

\* publishOne is called for a committed row, and goes on to markPublished only when
\* SQS took its message.
RowWasSent ==
    \A p \in Publishers, e \in Events :
      e \in DOMAIN rows[p] =>
        /\ outbox[e] # "none"
        /\ rows[p][e] \in {"sent", "done"} => Sent(e) # {}

\* A large payload is in S3 before the transaction of its event begins.
UploadedFirst ==
    \A e \in Large :
      request[e] = "commit" \/ outbox[e] # "none" => <<"event", e>> \in s3

IInv == Shape /\ LeaderHoldsLock /\ RowWasSent /\ PublishedWasSent /\ UploadedFirst

USE OutboxAssumption
-----------------------------------------------------------------------------
\* A message that was sent stays sent, and an object that was stored stays.
LEMMA FactsStay ==
    ASSUME Shape, [Next]_vars
    PROVE  /\ \A e \in Events : Sent(e) # {} => Sent(e)' # {}
           /\ s3 \subseteq s3'
<1> DEFINE Goal == (\A e \in Events : Sent(e) # {} => Sent(e)' # {}) /\ s3 \subseteq s3'
<1> USE DEF Shape, Sent, Messages, vars, publisher
<1>1. ASSUME NEW e \in Events, Put(e)
      PROVE  \A d \in Events : Sent(d) # {} => Sent(d)' # {}
  BY <1>1 DEF Put
<1>2. ASSUME NEW e \in Events, RequestStep(e) PROVE Goal
  BY <1>2 DEF RequestStep, Reject, Accept, UploadPayload, Commit, Respond, RequestFails
<1>3. ASSUME NEW p \in Publishers, NEW e \in Events, SendOk(p, e) \/ SendUnanswered(p, e)
      PROVE  Goal
  BY <1>1, <1>3 DEF SendOk, SendUnanswered
<1>4. ASSUME UNCHANGED <<queue, s3>> PROVE Goal
  BY <1>4
<1>5. ASSUME NEW p \in Publishers, PublisherStep(p) \/ Disruption(p) PROVE Goal
  BY <1>3, <1>4, <1>5 DEF PublisherStep, Disruption, TryBecomeLeader, Select, Fetch, FinishTick,
     TickThrows, Start, SendRefused, MarkPublished, MarkFails, SessionLost, Stop, Crash
<1> QED
  BY <1>2, <1>4, <1>5 DEF Next

\* Each step of a request or of a publisher keeps the inductive invariant.
LEMMA InvStep == IInv /\ [Next]_vars => IInv'
<1> SUFFICES ASSUME IInv, [Next]_vars PROVE IInv'
  OBVIOUS
<1>0. (\A e \in Events : Sent(e) # {} => Sent(e)' # {}) /\ s3 \subseteq s3'
  BY FactsStay DEF IInv
<1> USE <1>0 DEF IInv, Shape, LeaderHoldsLock, RowWasSent, PublishedWasSent, UploadedFirst,
        vars, publisher, Fault, FreeLock, Disconnect, EndTick, InRow, SetRow
<1>1. ASSUME NEW e \in Events, Reject(e) PROVE IInv'
  BY <1>1 DEF Reject
<1>2. ASSUME NEW e \in Events, Accept(e) PROVE IInv'
  BY <1>2 DEF Accept
<1>3. ASSUME NEW e \in Events, UploadPayload(e) PROVE IInv'
  BY <1>3 DEF UploadPayload
<1>4. ASSUME NEW e \in Events, Commit(e) PROVE IInv'
  BY <1>4 DEF Commit
<1>5. ASSUME NEW e \in Events, Respond(e) PROVE IInv'
  BY <1>5 DEF Respond
<1>6. ASSUME NEW e \in Events, RequestFails(e) PROVE IInv'
  BY <1>6 DEF RequestFails
<1>7. ASSUME NEW p \in Publishers, TryBecomeLeader(p) PROVE IInv'
  BY <1>7 DEF TryBecomeLeader
<1>8. ASSUME NEW p \in Publishers, Select(p) PROVE IInv'
  BY <1>8 DEF Select
<1>9. ASSUME NEW p \in Publishers, Fetch(p) PROVE IInv'
  BY <1>9 DEF Fetch
<1>10. ASSUME NEW p \in Publishers, FinishTick(p) PROVE IInv'
  <2>1. RowWasSent'
    BY <1>10 DEF FinishTick
  <2>2. Shape' /\ LeaderHoldsLock'
    <3>1. CASE Disconnect(p)
      BY <1>10, <3>1 DEF FinishTick
    <3>2. CASE UNCHANGED <<isLeader, session, lock>>
      BY <1>10, <3>2 DEF FinishTick
    <3> QED
      BY <1>10, <3>1, <3>2 DEF FinishTick
  <2>3. PublishedWasSent' /\ UploadedFirst'
    BY <1>10 DEF FinishTick
  <2> QED
    BY <2>1, <2>2, <2>3
<1>11. ASSUME NEW p \in Publishers, TickThrows(p) PROVE IInv'
  BY <1>11 DEF TickThrows, QueryFails
<1>12. ASSUME NEW p \in Publishers, SessionLost(p) PROVE IInv'
  BY <1>12 DEF SessionLost
<1>13. ASSUME NEW p \in Publishers, Stop(p) PROVE IInv'
  BY <1>13 DEF Stop
<1>14. ASSUME NEW p \in Publishers, Crash(p) PROVE IInv'
  BY <1>14 DEF Crash
<1>15. ASSUME NEW p \in Publishers, Start(p) PROVE IInv'
  BY <1>15 DEF Start
<1>16. ASSUME NEW p \in Publishers, NEW e \in Events, SendOk(p, e) PROVE IInv'
  <2>1. Sent(e)' # {}
    BY <1>16 DEF SendOk, Put, Sent, Messages
  <2>2. Shape'
    BY <1>16 DEF SendOk, Put, Messages
  <2>3. RowWasSent'
    BY <1>16, <2>1 DEF SendOk
  <2>4. LeaderHoldsLock' /\ PublishedWasSent' /\ UploadedFirst'
    BY <1>16 DEF SendOk
  <2> QED
    BY <2>2, <2>3, <2>4
<1>17. ASSUME NEW p \in Publishers, NEW e \in Events, SendRefused(p, e) PROVE IInv'
  BY <1>17 DEF SendRefused
<1>18. ASSUME NEW p \in Publishers, NEW e \in Events, SendUnanswered(p, e) PROVE IInv'
  <2>1. Sent(e)' # {}
    BY <1>18 DEF SendUnanswered, Put, Sent, Messages
  <2>2. Shape'
    BY <1>18 DEF SendUnanswered, Put, Messages
  <2>3. RowWasSent'
    BY <1>18, <2>1 DEF SendUnanswered
  <2>4. LeaderHoldsLock' /\ PublishedWasSent' /\ UploadedFirst'
    BY <1>18 DEF SendUnanswered
  <2> QED
    BY <2>2, <2>3, <2>4
<1>19. ASSUME NEW p \in Publishers, NEW e \in Events, MarkPublished(p, e) PROVE IInv'
  <2>1. Sent(e) # {}
    BY <1>19 DEF MarkPublished
  <2>2. RowWasSent'
    BY <1>19 DEF MarkPublished
  <2>3. UploadedFirst' /\ PublishedWasSent'
    <3>1. outbox[e] # "none"
      BY <1>19 DEF MarkPublished
    <3> QED
      BY <1>19, <2>1, <3>1 DEF MarkPublished
  <2>4. Shape' /\ LeaderHoldsLock'
    BY <1>19 DEF MarkPublished
  <2> QED
    BY <2>2, <2>3, <2>4
<1>20. ASSUME NEW p \in Publishers, NEW e \in Events, MarkFails(p, e) PROVE IInv'
  <2>1. Sent(e) # {}
    BY <1>20 DEF MarkFails
  <2>2. RowWasSent'
    BY <1>20 DEF MarkFails
  <2>3. UploadedFirst' /\ PublishedWasSent'
    <3>1. outbox[e] # "none"
      BY <1>20 DEF MarkFails
    <3> QED
      BY <1>20, <2>1, <3>1 DEF MarkFails
  <2>4. Shape' /\ LeaderHoldsLock'
    BY <1>20 DEF MarkFails, QueryFails
  <2> QED
    BY <2>2, <2>3, <2>4
<1>21. CASE UNCHANGED vars
  BY <1>21 DEF Sent
<1> QED
  BY <1>1, <1>2, <1>3, <1>4, <1>5, <1>6, <1>7, <1>8, <1>9, <1>10, <1>11, <1>12,
     <1>13, <1>14, <1>15, <1>16, <1>17, <1>18, <1>19, <1>20, <1>21
     DEF Next, RequestStep, PublisherStep, Disruption

LEMMA InvInit == Init => IInv
  BY DEF Init, IInv, Shape, LeaderHoldsLock, RowWasSent, PublishedWasSent, UploadedFirst

LEMMA Invariance == Spec => []IInv
  BY InvInit, InvStep, PTL DEF Spec

\* At most one publisher with a live connection is the leader, in every behaviour:
\* the advisory lock outlives neither its session nor isLeader.
THEOREM SingleLeader == Spec => []OneLeader
<1>1. IInv => OneLeader
  BY DEF IInv, LeaderHoldsLock, OneLeader
<1> QED
  BY <1>1, Invariance, PTL

\* A published row was sent, however publishers crash, lose answers or take over.
THEOREM PublishedSent == Spec => []PublishedWasSent
  BY Invariance, PTL DEF IInv

\* The S3 pointer of every committed event resolves.
THEOREM PointersResolve == Spec => []PointerResolves
<1>1. IInv => PointerResolves
  BY DEF IInv, UploadedFirst, PointerResolves
<1> QED
  BY <1>1, Invariance, PTL
-----------------------------------------------------------------------------
(***************************************************************************)
(* Types.  The cursor is the tenant of the last row of a batch, which      *)
(* exists because a batch is finite.                                       *)
(***************************************************************************)
\* A finite set that is not empty has an element at which f is greatest: else
\* there is a smallest set without one, and it stays without when an element of
\* it is taken away.
LEMMA GreatestExists ==
    ASSUME NEW S, IsFiniteSet(S), S # {}, NEW f, \A x \in S : f[x] \in Int
    PROVE  \E x \in S : \A y \in S : f[y] <= f[x]
<1> DEFINE Greatest(U) == \E x \in U : \A y \in U : f[y] <= f[x]
           Without == {U \in SUBSET S : U # {} /\ ~Greatest(U)}
<1> SUFFICES ASSUME Without # {} PROVE FALSE
  OBVIOUS
<1>1. Without \subseteq FiniteSubsetsOf(S)
  BY FS_FiniteSubsetsOfFinite
<1>2. PICK U \in Without : \A V \in Without : <<V, U>> \notin StrictSubsetOrdering(S)
  <2> HIDE DEF Without
  <2> QED
    BY <1>1, FS_StrictSubsetOrderingWellFounded, WFMin
<1>3. PICK x \in U : TRUE
  OBVIOUS
<1>4. U \ {x} \notin Without
  BY <1>2, <1>3 DEF StrictSubsetOrdering
<1>5. CASE U \ {x} = {}
  <2>1. \A y \in U : y = x
    BY <1>5
  <2> QED
    BY <1>3, <2>1
<1>6. CASE U \ {x} # {}
  <2>1. PICK z \in U \ {x} : \A y \in U \ {x} : f[y] <= f[z]
    BY <1>4, <1>6
  <2>2. CASE f[x] <= f[z]
    BY <2>1, <2>2
  <2>3. CASE ~(f[x] <= f[z])
    <3>1. f[x] \in Int /\ f[z] \in Int /\ \A y \in U : f[y] \in Int
      BY <1>3, <2>1
    <3>2. \A y \in U : f[y] <= f[x]
      BY <2>1, <2>3, <3>1
    <3> QED
      BY <1>3, <3>2
  <2> QED
    BY <2>2, <2>3
<1> QED
  BY <1>5, <1>6

\* A rank is the number of rows before it.
LEMMA RankIsCount == ASSUME NEW e, NEW cursor PROVE Rank(e, cursor) \in Nat
<1>1. IsFiniteSet({f \in Pending : Before(f, e, cursor)})
  BY FS_Subset DEF Pending
<1> QED
  BY <1>1, FS_CardinalityType DEF Rank

\* What a publisher selected and fetched.
BatchOK ==
    /\ DOMAIN selected = Publishers /\ DOMAIN rows = Publishers
    /\ \A p \in Publishers :
         /\ DOMAIN selected[p] \subseteq Events
         /\ DOMAIN rows[p] \subseteq DOMAIN selected[p]
         /\ \A e \in DOMAIN rows[p] : rows[p][e] \in {"send", "sent", "done", "failed"}
         /\ \A e \in DOMAIN selected[p] : selected[p][e] \in Nat
         /\ pc[p] # "publish" => DOMAIN rows[p] = {}

\* The tables, the queue and the publishers' own variables.
StoreOK ==
    /\ queue \in [Messages -> {"absent", "visible", "hidden", "deleted"}]
    /\ s3 \subseteq Keys
    /\ request \in [Events -> {"new", "rejected", "upload", "commit", "respond",
                               "created", "failed"}]
    /\ outbox \in [Events -> {"none", "unpublished", "published"}]
    /\ lock \in Publishers \cup {None}
    /\ session \in [Publishers -> {"open", "lost"}]
    /\ isLeader \in [Publishers -> BOOLEAN]
    /\ after \in [Publishers -> Tenants \cup {0}]
    /\ pc \in [Publishers -> {"loop", "fetch", "publish", "stopped"}]
    /\ faults \in 0..FaultBudget

TypeInv == BatchOK /\ StoreOK

LEMMA TypeStep == TypeInv /\ [Next]_vars => TypeInv'
<1> SUFFICES ASSUME TypeInv, [Next]_vars PROVE TypeInv'
  OBVIOUS
<1> USE DEF TypeInv, BatchOK, StoreOK, Messages, Keys, vars, publisher, Fault, FreeLock,
        Disconnect, EndTick, InRow, SetRow
<1>1. ASSUME NEW e \in Events, RequestStep(e) PROVE TypeInv'
  <2>1. CASE UploadPayload(e)
    BY <2>1 DEF UploadPayload
  <2>2. CASE Commit(e)
    BY <2>2 DEF Commit
  <2>3. CASE Reject(e) \/ Accept(e) \/ Respond(e) \/ RequestFails(e)
    BY <2>3 DEF Reject, Accept, Respond, RequestFails
  <2> QED
    BY <1>1, <2>1, <2>2, <2>3 DEF RequestStep
<1>2. ASSUME NEW p \in Publishers, TryBecomeLeader(p) \/ Start(p) PROVE TypeInv'
  <2>1. CASE TryBecomeLeader(p)
    BY <2>1 DEF TryBecomeLeader
  <2>2. CASE Start(p)
    BY <2>2 DEF Start
  <2> QED
    BY <1>2, <2>1, <2>2
<1>3. ASSUME NEW p \in Publishers, Select(p) PROVE TypeInv'
  <2>1. DOMAIN Selection(after[p]) \subseteq Events
    BY DEF Selection, Pending
  <2>2. \A e \in DOMAIN Selection(after[p]) : Selection(after[p])[e] \in Nat
    BY RankIsCount DEF Selection
  <2> QED
    BY <1>3, <2>1, <2>2 DEF Select
<1>4. ASSUME NEW p \in Publishers, Fetch(p) PROVE TypeInv'
  BY <1>4 DEF Fetch
<1>5. ASSUME NEW p \in Publishers, FinishTick(p) PROVE TypeInv'
  <2>1. LastTenant(p) \in Tenants \cup {0}
    <3>1. CASE DOMAIN rows[p] = {}
      BY <3>1 DEF LastTenant
    <3>2. CASE DOMAIN rows[p] # {}
      <4>1. IsFiniteSet(DOMAIN rows[p]) /\ \A e \in DOMAIN rows[p] : selected[p][e] \in Int
        BY FS_Subset
      <4>2. \E e \in DOMAIN rows[p] : \A f \in DOMAIN rows[p] : selected[p][f] <= selected[p][e]
        BY <3>2, <4>1, GreatestExists
      <4> QED
        BY <3>2, <4>2 DEF LastTenant
    <3> QED
      BY <3>1, <3>2
  <2>2. StoreOK'
    <3>1. CASE Disconnect(p)
      BY <1>5, <2>1, <3>1 DEF FinishTick
    <3>2. CASE UNCHANGED <<isLeader, session, lock>>
      BY <1>5, <2>1, <3>2 DEF FinishTick
    <3> QED
      BY <1>5, <3>1, <3>2 DEF FinishTick
  <2>3. BatchOK'
    BY <1>5 DEF FinishTick
  <2> QED
    BY <2>2, <2>3
<1>6. ASSUME NEW p \in Publishers, TickThrows(p) PROVE TypeInv'
  BY <1>6 DEF TickThrows, QueryFails
<1>7. ASSUME NEW p \in Publishers, SessionLost(p) \/ Stop(p) \/ Crash(p) PROVE TypeInv'
  <2>1. CASE SessionLost(p)
    BY <2>1 DEF SessionLost
  <2>2. CASE Stop(p)
    BY <2>2 DEF Stop
  <2>3. CASE Crash(p)
    BY <2>3 DEF Crash
  <2> QED
    BY <1>7, <2>1, <2>2, <2>3
<1>8. ASSUME NEW p \in Publishers, NEW e \in Events, SendOk(p, e) \/ SendUnanswered(p, e)
      PROVE  TypeInv'
  <2>1. CASE SendOk(p, e)
    BY <2>1 DEF SendOk, Put
  <2>2. CASE SendUnanswered(p, e)
    <3>1. StoreOK'
      <4>1. queue' \in [Messages -> {"absent", "visible", "hidden", "deleted"}]
        BY <2>2 DEF SendUnanswered, Put
      <4> QED
        BY <2>2, <4>1 DEF SendUnanswered
    <3>2. BatchOK'
      BY <2>2 DEF SendUnanswered
    <3> QED
      BY <3>1, <3>2
  <2> QED
    BY <1>8, <2>1, <2>2
<1>9. ASSUME NEW p \in Publishers, NEW e \in Events, SendRefused(p, e) PROVE TypeInv'
  BY <1>9 DEF SendRefused
<1>10. ASSUME NEW p \in Publishers, NEW e \in Events, MarkPublished(p, e) \/ MarkFails(p, e)
       PROVE  TypeInv'
  <2>1. CASE MarkPublished(p, e)
    BY <2>1 DEF MarkPublished
  <2>2. CASE MarkFails(p, e)
    BY <2>2 DEF MarkFails, QueryFails
  <2> QED
    BY <1>10, <2>1, <2>2
<1>11. CASE UNCHANGED vars
  BY <1>11
<1> QED
  BY <1>1, <1>2, <1>3, <1>4, <1>5, <1>6, <1>7, <1>8, <1>9, <1>10, <1>11
     DEF Next, PublisherStep, Disruption

\* In every state the tables, the queue and the publishers have their types; the
\* cursor of listUnpublished is 0 or a tenant.
THEOREM TypeCorrect == Spec => []TypeOK
<1>1. Init => TypeInv
  BY DEF Init, TypeInv, BatchOK, StoreOK, Messages, Keys
<1>2. TypeInv => TypeOK
  BY DEF TypeInv, BatchOK, StoreOK, TypeOK
<1> QED
  BY <1>1, <1>2, TypeStep, PTL DEF Spec
-----------------------------------------------------------------------------
(***************************************************************************)
(* Duplicates.  Copies of an event that are sent, and publishers that may  *)
(* still send one, are at most one more than the faults; and not even one  *)
(* more when the next leader would select the event again.                 *)
(***************************************************************************)
\* p will put a message of e into the queue unless something fails: it fetches e on
\* a live connection, or is about to send it, also after its connection is lost.
MaySend(p, e) ==
    \/ pc[p] = "fetch" /\ session[p] = "open" /\ e \in DOMAIN selected[p]
    \/ InRow(p, e, "send")

\* p is the leader and takes care of e: it will send it, or mark it.
Cares(p, e) ==
    /\ session[p] = "open"
    /\ \/ pc[p] = "fetch" /\ e \in DOMAIN selected[p]
       \/ InRow(p, e, "send") \/ InRow(p, e, "sent")

Senders(e) == {p \in Publishers : MaySend(p, e)}

\* The next leader would select e.
Open(e) == outbox[e] # "published" /\ \A p \in Publishers : ~Cares(p, e)

Counted(e) ==
    /\ IsFiniteSet(Sent(e)) /\ IsFiniteSet(Senders(e))
    /\ Cardinality(Sent(e)) + Cardinality(Senders(e)) <= 1 + faults
    /\ Open(e) => Cardinality(Sent(e)) + Cardinality(Senders(e)) <= faults

\* Only a leader ticks.
LeaderTicks == \A p \in Publishers : pc[p] \in {"fetch", "publish"} => isLeader[p]

\* The transaction of a request is its event's first: there is no row yet.
RowAfterCommit ==
    \A e \in Events : request[e] \in {"new", "upload", "commit"} => outbox[e] = "none"

CopyInv == TypeInv /\ IInv /\ LeaderTicks /\ RowAfterCommit /\ \A e \in Events : Counted(e)

\* What a step of one publisher leaves of the others.
OthersStay(p, e) ==
    \A q \in Publishers \ {p} : (MaySend(q, e)' <=> MaySend(q, e)) /\ (Cares(q, e)' <=> Cares(q, e))

LEMMA AddAtMostOne ==
    ASSUME NEW S, IsFiniteSet(S), NEW x
    PROVE  IsFiniteSet(S \cup {x}) /\ Cardinality(S \cup {x}) <= Cardinality(S) + 1
<1>1. Cardinality(S) \in Nat
  BY FS_CardinalityType
<1>2. /\ IsFiniteSet(S \cup {x})
      /\ Cardinality(S \cup {x}) = IF x \in S THEN Cardinality(S) ELSE Cardinality(S) + 1
  BY FS_AddElement
<1> QED
  BY <1>1, <1>2

\* The counts of an event when p sends nothing of it and stops caring for it only
\* when it is published.
LEMMA CountStays ==
    ASSUME NEW p \in Publishers, NEW e \in Events, OthersStay(p, e), Counted(e),
           faults \in Nat, faults' = faults, Sent(e)' = Sent(e), MaySend(p, e)' => MaySend(p, e),
           outbox[e] = "published" \/ Cares(p, e) => outbox'[e] = "published" \/ Cares(p, e)'
    PROVE  Counted(e)'
<1>1. Senders(e)' \subseteq Senders(e)
  BY DEF OthersStay, Senders
<1>2. Open(e)' => Open(e)
  BY DEF OthersStay, Open
<1>3. IsFiniteSet(Senders(e)') /\ Cardinality(Senders(e)') <= Cardinality(Senders(e))
  BY <1>1, FS_Subset DEF Counted
<1>4. Cardinality(Sent(e)) \in Nat /\ Cardinality(Senders(e)) \in Nat /\ Cardinality(Senders(e)') \in Nat
  BY <1>3, FS_CardinalityType DEF Counted
<1> QED
  BY <1>2, <1>3, <1>4 DEF Counted

\* A fault pays for what it leaves open.
LEMMA FaultPays ==
    ASSUME NEW p \in Publishers, NEW e \in Events, OthersStay(p, e), Counted(e),
           faults \in Nat, faults' = faults + 1, Sent(e)' = Sent(e), MaySend(p, e)' => MaySend(p, e)
    PROVE  Counted(e)'
<1>1. Senders(e)' \subseteq Senders(e)
  BY DEF OthersStay, Senders
<1>2. IsFiniteSet(Senders(e)') /\ Cardinality(Senders(e)') <= Cardinality(Senders(e))
  BY <1>1, FS_Subset DEF Counted
<1>3. Cardinality(Sent(e)) \in Nat /\ Cardinality(Senders(e)) \in Nat /\ Cardinality(Senders(e)') \in Nat
  BY <1>2, FS_CardinalityType DEF Counted
<1> QED
  BY <1>2, <1>3 DEF Counted

\* The leader takes an open event into its care.
LEMMA SelectCounts ==
    ASSUME NEW p \in Publishers, NEW e \in Events, OthersStay(p, e), Counted(e),
           faults \in Nat, faults' = faults, Sent(e)' = Sent(e), Open(e), Cares(p, e)'
    PROVE  Counted(e)'
<1>1. Senders(e)' \subseteq Senders(e) \cup {p}
  BY DEF OthersStay, Senders
<1>2. ~Open(e)'
  BY DEF Open
<1>3. /\ IsFiniteSet(Senders(e) \cup {p})
      /\ Cardinality(Senders(e) \cup {p}) <= Cardinality(Senders(e)) + 1
  BY AddAtMostOne DEF Counted
<1>4. IsFiniteSet(Senders(e)') /\ Cardinality(Senders(e)') <= Cardinality(Senders(e) \cup {p})
  BY <1>1, <1>3, FS_Subset
<1>5. /\ Cardinality(Sent(e)) \in Nat /\ Cardinality(Senders(e)) \in Nat
      /\ Cardinality(Senders(e)') \in Nat /\ Cardinality(Senders(e) \cup {p}) \in Nat
  BY <1>3, <1>4, FS_CardinalityType DEF Counted
<1> QED
  BY <1>2, <1>3, <1>4, <1>5 DEF Counted

\* A publisher that might have sent e does not.
LEMMA RefusalCounts ==
    ASSUME NEW p \in Publishers, NEW e \in Events, OthersStay(p, e), Counted(e),
           faults \in Nat, faults' = faults, Sent(e)' = Sent(e), MaySend(p, e), ~MaySend(p, e)'
    PROVE  Counted(e)'
<1>1. Senders(e)' = Senders(e) \ {p} /\ p \in Senders(e)
  BY DEF OthersStay, Senders
<1>2. IsFiniteSet(Senders(e)') /\ Cardinality(Senders(e)') = Cardinality(Senders(e)) - 1
  BY <1>1, FS_RemoveElement DEF Counted
<1>3. Cardinality(Sent(e)) \in Nat /\ Cardinality(Senders(e)) \in Nat
  BY FS_CardinalityType DEF Counted
<1> QED
  BY <1>2, <1>3 DEF Counted

\* A message that is put into the queue is one that was to be expected.
LEMMA PutCounts ==
    ASSUME NEW p \in Publishers, NEW e \in Events, OthersStay(p, e), Counted(e),
           faults \in Nat, MaySend(p, e), ~MaySend(p, e)',
           NEW c, Sent(e)' = Sent(e) \cup {c},
           \/ faults' = faults /\ outbox' = outbox /\ (Cares(p, e) => Cares(p, e)')
           \/ faults' = faults + 1
    PROVE  Counted(e)'
<1>1. Senders(e)' = Senders(e) \ {p} /\ p \in Senders(e)
  BY DEF OthersStay, Senders
<1>2. IsFiniteSet(Senders(e)') /\ Cardinality(Senders(e)') = Cardinality(Senders(e)) - 1
  BY <1>1, FS_RemoveElement DEF Counted
<1>3. /\ Cardinality(Sent(e)) \in Nat /\ Cardinality(Senders(e)) \in Nat
      /\ Cardinality(Senders(e)') \in Nat
  BY <1>2, FS_CardinalityType DEF Counted
<1>4. IsFiniteSet(Sent(e)') /\ Cardinality(Sent(e)') <= Cardinality(Sent(e)) + 1
  BY AddAtMostOne DEF Counted
<1>5. Cardinality(Sent(e)') \in Nat
  BY <1>4, FS_CardinalityType
<1>6. CASE faults' = faults /\ outbox' = outbox /\ (Cares(p, e) => Cares(p, e)')
  <2>1. Open(e)' => Open(e)
    BY <1>6 DEF OthersStay, Open
  <2> QED
    BY <1>2, <1>3, <1>4, <1>5, <1>6, <2>1 DEF Counted
<1>7. CASE faults' = faults + 1
  BY <1>2, <1>3, <1>4, <1>5, <1>7 DEF Counted
<1> QED
  BY <1>6, <1>7
-----------------------------------------------------------------------------
LEMMA TickStep == CopyInv /\ [Next]_vars => LeaderTicks'
<1> SUFFICES ASSUME CopyInv, [Next]_vars PROVE LeaderTicks'
  OBVIOUS
<1> DEFINE Goal == LeaderTicks'
<1> USE DEF CopyInv, LeaderTicks, TypeInv, StoreOK, FreeLock, Disconnect, EndTick
<1>1. ASSUME UNCHANGED <<isLeader, pc>> PROVE Goal
  BY <1>1
<1>2. ASSUME NEW p \in Publishers, TryBecomeLeader(p) PROVE Goal
  BY <1>2 DEF TryBecomeLeader
<1>3. ASSUME NEW p \in Publishers, Select(p) \/ Fetch(p) PROVE Goal
  <2>1. CASE Select(p)
    BY <2>1 DEF Select
  <2>2. CASE Fetch(p)
    BY <2>2 DEF Fetch
  <2> QED
    BY <1>3, <2>1, <2>2
<1>4. ASSUME NEW p \in Publishers, FinishTick(p) PROVE Goal
  <2>1. CASE Disconnect(p)
    BY <1>4, <2>1 DEF FinishTick
  <2>2. CASE UNCHANGED <<isLeader, session, lock>>
    BY <1>4, <2>2 DEF FinishTick
  <2> QED
    BY <1>4, <2>1, <2>2 DEF FinishTick
<1>5. ASSUME NEW p \in Publishers, TickThrows(p) PROVE Goal
  BY <1>5 DEF TickThrows
<1>6. ASSUME NEW p \in Publishers, SessionLost(p) PROVE Goal
  BY <1>6 DEF SessionLost
<1>7. ASSUME NEW p \in Publishers, Stop(p) \/ Crash(p) PROVE Goal
  <2>1. CASE Stop(p)
    BY <2>1 DEF Stop
  <2>2. CASE Crash(p)
    BY <2>2 DEF Crash
  <2> QED
    BY <1>7, <2>1, <2>2
<1>8. ASSUME NEW p \in Publishers, Start(p) PROVE Goal
  BY <1>8 DEF Start
<1> QED
  BY <1>1, <1>2, <1>3, <1>4, <1>5, <1>6, <1>7, <1>8
     DEF Next, RequestStep, PublisherStep, Disruption, Reject, Accept, UploadPayload, Commit,
         Respond, RequestFails, SendOk, SendRefused, SendUnanswered, MarkPublished, MarkFails,
         vars, publisher

LEMMA CommitStep == CopyInv /\ [Next]_vars => RowAfterCommit'
<1> SUFFICES ASSUME CopyInv, [Next]_vars PROVE RowAfterCommit'
  OBVIOUS
<1> USE DEF CopyInv, RowAfterCommit, TypeInv, StoreOK
<1>1. ASSUME NEW e \in Events, RequestStep(e) PROVE RowAfterCommit'
  BY <1>1 DEF RequestStep, Reject, Accept, UploadPayload, Commit, Respond, RequestFails
<1>2. ASSUME NEW p \in Publishers, NEW e \in Events, MarkPublished(p, e) \/ MarkFails(p, e)
      PROVE  RowAfterCommit'
  BY <1>2 DEF MarkPublished, MarkFails, InRow, IInv, RowWasSent
<1>3. ASSUME UNCHANGED <<request, outbox>> PROVE RowAfterCommit'
  BY <1>3
<1> QED
  BY <1>1, <1>2, <1>3 DEF Next, PublisherStep, Disruption, TryBecomeLeader, Select, Fetch,
     FinishTick, TickThrows, Start, SendOk, SendRefused, SendUnanswered, SessionLost, Stop, Crash,
     vars

\* Each step keeps the counts of each event.
LEMMA CountStep ==
    ASSUME CopyInv, [Next]_vars, NEW e \in Events
    PROVE  Counted(e)'
<1> DEFINE Goal == Counted(e)'
<1>0. Counted(e) /\ faults \in Nat /\ TypeInv /\ LeaderHoldsLock /\ LeaderTicks
  BY DEF CopyInv, IInv, TypeInv, StoreOK
<1>1. ASSUME UNCHANGED <<queue, outbox, session, pc, selected, rows, faults>> PROVE Goal
  BY <1>0, <1>1 DEF Counted, Sent, Senders, Open, MaySend, Cares, InRow
<1>2. ASSUME NEW d \in Events, Commit(d) PROVE Goal
  <2>1. outbox[d] = "none" /\ outbox' = [outbox EXCEPT ![d] = "unpublished"]
    BY <1>2 DEF Commit, CopyInv, RowAfterCommit
  <2>2. Open(e)' => Open(e)
    BY <1>0, <1>2, <2>1 DEF Commit, publisher, Open, Cares, InRow, TypeInv, StoreOK
  <2> QED
    BY <1>0, <1>2, <2>2 DEF Commit, publisher, Counted, Sent, Senders, MaySend, InRow
<1>3. ASSUME NEW p \in Publishers, Select(p) PROVE Goal
  <2>1. OthersStay(p, e) /\ Sent(e)' = Sent(e)
    BY <1>0, <1>3 DEF Select, OthersStay, MaySend, Cares, InRow, Sent, TypeInv, BatchOK, StoreOK
  <2>2. CASE e \in DOMAIN Selection(after[p])
    <3>1. Open(e)
      <4>1. outbox[e] = "unpublished"
        BY <2>2 DEF Selection, Pending
      <4>2. ASSUME NEW q \in Publishers, Cares(q, e) PROVE q = p
        BY <1>0, <1>3, <4>2 DEF Select, Cares, InRow, LeaderHoldsLock, LeaderTicks
      <4>3. ~Cares(p, e)
        BY <1>3 DEF Select, Cares, InRow
      <4> QED
        BY <4>1, <4>2, <4>3 DEF Open
    <3>2. Cares(p, e)'
      BY <1>0, <1>3, <2>2 DEF Select, Cares, TypeInv, BatchOK, StoreOK
    <3>3. faults' = faults
      BY <1>3 DEF Select
    <3> QED
      BY <1>0, <2>1, <3>1, <3>2, <3>3, SelectCounts
  <2>3. CASE e \notin DOMAIN Selection(after[p])
    <3>1. ~MaySend(p, e)' /\ ~Cares(p, e)
      BY <1>0, <1>3, <2>3 DEF Select, MaySend, Cares, InRow, TypeInv, BatchOK, StoreOK
    <3>2. faults' = faults /\ outbox' = outbox
      BY <1>3 DEF Select
    <3> QED
      BY <1>0, <2>1, <3>1, <3>2, CountStays
  <2> QED
    BY <2>2, <2>3
<1>4. ASSUME NEW p \in Publishers, Fetch(p) PROVE Goal
  <2>1. /\ OthersStay(p, e) /\ Sent(e)' = Sent(e)
        /\ faults' = faults /\ outbox' = outbox
    BY <1>0, <1>4 DEF Fetch, OthersStay, MaySend, Cares, InRow, Sent, TypeInv, BatchOK, StoreOK
  <2>2. MaySend(p, e)' <=> e \in DOMAIN selected[p] /\ outbox[e] = "unpublished"
    BY <1>0, <1>4 DEF Fetch, MaySend, InRow, TypeInv, BatchOK, StoreOK
  <2>3. (MaySend(p, e) <=> e \in DOMAIN selected[p]) /\ (Cares(p, e) <=> e \in DOMAIN selected[p])
    BY <1>4 DEF Fetch, MaySend, Cares, InRow
  <2>4. MaySend(p, e)' => Cares(p, e)'
    BY <1>0, <1>4 DEF Fetch, MaySend, Cares, InRow, TypeInv, StoreOK
  <2>5. CASE MaySend(p, e) /\ ~MaySend(p, e)'
    BY <1>0, <2>1, <2>5, RefusalCounts
  <2>6. CASE MaySend(p, e) <=> MaySend(p, e)'
    BY <1>0, <2>1, <2>3, <2>4, <2>6, CountStays
  <2> QED
    BY <2>2, <2>3, <2>5, <2>6
<1>5. ASSUME NEW p \in Publishers, FinishTick(p) PROVE Goal
  <2>1. /\ OthersStay(p, e) /\ Sent(e)' = Sent(e)
        /\ faults' = faults /\ outbox' = outbox
    <3>1. CASE Disconnect(p)
      BY <1>0, <1>5, <3>1 DEF FinishTick, EndTick, Disconnect, OthersStay, MaySend, Cares, InRow, Sent,
         TypeInv, BatchOK, StoreOK
    <3>2. CASE UNCHANGED session
      BY <1>0, <1>5, <3>2 DEF FinishTick, EndTick, OthersStay, MaySend, Cares, InRow, Sent,
         TypeInv, BatchOK, StoreOK
    <3> QED
      BY <1>5, <3>1, <3>2 DEF FinishTick
  <2>2. ~MaySend(p, e)' /\ ~Cares(p, e)
    BY <1>0, <1>5 DEF FinishTick, EndTick, MaySend, Cares, InRow, TypeInv, StoreOK
  <2> QED
    BY <1>0, <2>1, <2>2, CountStays
<1>6. ASSUME NEW p \in Publishers, TickThrows(p) PROVE Goal
  <2>1. OthersStay(p, e) /\ Sent(e)' = Sent(e) /\ ~MaySend(p, e)'
    BY <1>0, <1>6 DEF TickThrows, Disconnect, EndTick, OthersStay, MaySend, Cares, InRow, Sent,
       TypeInv, BatchOK, StoreOK
  <2>2. CASE session[p] = "lost" /\ UNCHANGED faults
    <3>1. ~Cares(p, e) /\ outbox' = outbox
      BY <1>6, <2>2 DEF TickThrows, Cares
    <3> QED
      BY <1>0, <2>1, <2>2, <3>1, CountStays
  <2>3. CASE Fault
    BY <1>0, <2>1, <2>3, FaultPays DEF Fault
  <2> QED
    BY <1>6, <2>2, <2>3 DEF TickThrows, QueryFails
<1>7. ASSUME NEW p \in Publishers, SessionLost(p) PROVE Goal
  <2>1. OthersStay(p, e) /\ Sent(e)' = Sent(e) /\ (MaySend(p, e)' => MaySend(p, e))
    BY <1>0, <1>7 DEF SessionLost, OthersStay, MaySend, Cares, InRow, Sent, TypeInv, StoreOK
  <2> QED
    BY <1>0, <1>7, <2>1, FaultPays DEF SessionLost, Fault
<1>8. ASSUME NEW p \in Publishers, Stop(p) \/ Crash(p) PROVE Goal
  <2>1. OthersStay(p, e) /\ Sent(e)' = Sent(e) /\ ~MaySend(p, e)'
    <3>1. CASE Stop(p)
      BY <1>0, <3>1 DEF Stop, Disconnect, OthersStay, MaySend, Cares, InRow, Sent, TypeInv, StoreOK
    <3>2. CASE Crash(p)
      BY <1>0, <3>2 DEF Crash, Disconnect, OthersStay, MaySend, Cares, InRow, Sent, TypeInv, BatchOK, StoreOK
    <3> QED
      BY <1>8, <3>1, <3>2
  <2> QED
    BY <1>0, <1>8, <2>1, FaultPays DEF Stop, Crash, Fault
<1>9. ASSUME NEW p \in Publishers, Start(p) PROVE Goal
  <2>1. OthersStay(p, e) /\ Sent(e)' = Sent(e) /\ ~MaySend(p, e)' /\ ~Cares(p, e)
    BY <1>0, <1>9 DEF Start, OthersStay, MaySend, Cares, InRow, Sent, TypeInv, StoreOK
  <2> QED
    BY <1>0, <1>9, <2>1, CountStays DEF Start
<1>10. ASSUME NEW p \in Publishers, NEW d \in Events, SendOk(p, d) \/ SendUnanswered(p, d) PROVE Goal
  <2>1. PICK c \in Copies : queue' = [queue EXCEPT ![<<d, c>>] = "visible"]
    BY <1>10 DEF SendOk, SendUnanswered, Put
  <2>2. /\ OthersStay(p, e) /\ UNCHANGED <<outbox, session, pc, selected>>
        /\ \/ SetRow(p, d, "sent") /\ faults' = faults
           \/ SetRow(p, d, "failed") /\ faults' = faults + 1
    BY <1>0, <1>10 DEF SendOk, SendUnanswered, SetRow, OthersStay, MaySend, Cares, InRow,
       TypeInv, BatchOK, Fault
  <2>3. CASE d # e
    <3>1. Sent(e)' = Sent(e)
      BY <1>0, <2>1, <2>3 DEF Sent, TypeInv, StoreOK, Messages
    <3>2. (MaySend(p, e)' <=> MaySend(p, e)) /\ (Cares(p, e)' <=> Cares(p, e))
      BY <1>0, <2>2, <2>3 DEF SetRow, MaySend, Cares, InRow, TypeInv, BatchOK
    <3> QED
      BY <1>0, <2>2, <3>1, <3>2, CountStays, FaultPays
  <2>4. CASE d = e
    <3>1. Sent(e)' = Sent(e) \cup {c}
      BY <1>0, <2>1, <2>4 DEF Sent, TypeInv, StoreOK, Messages
    <3>2. MaySend(p, e)
      BY <1>10, <2>4 DEF SendOk, SendUnanswered, MaySend
    <3>3. ~MaySend(p, e)'
      BY <1>0, <1>10, <2>2, <2>4 DEF SendOk, SendUnanswered, SetRow, MaySend, InRow, TypeInv, BatchOK
    <3>4. SetRow(p, d, "sent") => (Cares(p, e) => Cares(p, e)')
      BY <1>0, <1>10, <2>2, <2>4 DEF SendOk, SendUnanswered, SetRow, Cares, InRow, TypeInv, BatchOK
    <3> QED
      BY <1>0, <2>2, <3>1, <3>2, <3>3, <3>4, PutCounts
  <2> QED
    BY <2>3, <2>4
<1>11. ASSUME NEW p \in Publishers, NEW d \in Events, SendRefused(p, d) PROVE Goal
  <2>1. /\ OthersStay(p, e) /\ Sent(e)' = Sent(e)
        /\ faults' = faults /\ outbox' = outbox
    BY <1>0, <1>11 DEF SendRefused, SetRow, OthersStay, MaySend, Cares, InRow, Sent, TypeInv, BatchOK
  <2>2. CASE d = e
    <3>1. MaySend(p, e) /\ ~MaySend(p, e)'
      BY <1>0, <1>11, <2>2 DEF SendRefused, SetRow, MaySend, InRow, TypeInv, BatchOK
    <3> QED
      BY <1>0, <2>1, <3>1, RefusalCounts
  <2>3. CASE d # e
    <3>1. (MaySend(p, e)' <=> MaySend(p, e)) /\ (Cares(p, e)' <=> Cares(p, e))
      BY <1>0, <1>11, <2>3 DEF SendRefused, SetRow, MaySend, Cares, InRow, TypeInv, BatchOK
    <3> QED
      BY <1>0, <2>1, <3>1, CountStays
  <2> QED
    BY <2>2, <2>3
<1>12. ASSUME NEW p \in Publishers, NEW d \in Events, MarkPublished(p, d) \/ MarkFails(p, d) PROVE Goal
  <2>1. /\ OthersStay(p, e) /\ Sent(e)' = Sent(e)
        /\ UNCHANGED <<session, pc, selected>>
        /\ \/ outbox' = outbox \/ outbox' = [outbox EXCEPT ![d] = "published"]
        /\ rows' = [rows EXCEPT ![p] = [@ EXCEPT ![d] = rows'[p][d]]]
        /\ rows'[p][d] \in {"done", "failed"}
        /\ InRow(p, d, "sent")
    BY <1>0, <1>12 DEF MarkPublished, MarkFails, SetRow, OthersStay, MaySend, Cares, InRow, Sent,
       TypeInv, BatchOK
  <2>2. MaySend(p, e)' => MaySend(p, e)
    BY <1>0, <2>1 DEF MaySend, InRow, TypeInv, BatchOK
  <2>3. outbox[e] = "published" => outbox'[e] = "published"
    BY <1>0, <2>1 DEF TypeInv, StoreOK
  <2>4. CASE faults' = faults + 1
    BY <1>0, <2>1, <2>2, <2>4, FaultPays
  <2>5. CASE faults' = faults
    <3>1. Cares(p, e) => outbox'[e] = "published" \/ Cares(p, e)'
      <4>1. CASE d = e
        BY <1>0, <1>12, <2>5, <4>1 DEF MarkPublished, MarkFails, QueryFails, Fault, Cares, TypeInv, StoreOK
      <4>2. CASE d # e
        BY <1>0, <2>1, <4>2 DEF Cares, InRow, TypeInv, BatchOK
      <4> QED
        BY <4>1, <4>2
    <3> QED
      BY <1>0, <2>1, <2>2, <2>3, <2>5, <3>1, CountStays
  <2> QED
    BY <1>12, <2>4, <2>5 DEF MarkPublished, MarkFails, QueryFails, Fault
<1> QED
  BY <1>1, <1>2, <1>3, <1>4, <1>5, <1>6, <1>7, <1>8, <1>9, <1>10, <1>11, <1>12
     DEF Next, RequestStep, PublisherStep, Disruption, Reject, Accept, UploadPayload,
         Respond, RequestFails, TryBecomeLeader, vars, publisher

\* A row is sent once for sure and once more for every fault at most: the advisory
\* lock keeps a second publisher from sending what the leader cares for, through
\* lost sessions, lost answers, takeovers and crashes.
THEOREM DuplicatesPaid == Spec => []DuplicatesNeedFaults
<1>1. Init => CopyInv
  <2> SUFFICES ASSUME Init PROVE CopyInv
    OBVIOUS
  <2>1. TypeInv /\ IInv /\ LeaderTicks /\ RowAfterCommit
    BY InvInit DEF Init, TypeInv, BatchOK, StoreOK, Messages, Keys, LeaderTicks, RowAfterCommit
  <2>2. ASSUME NEW e \in Events PROVE Counted(e)
    <3>1. Sent(e) = {} /\ Senders(e) = {}
      BY DEF Init, Sent, Messages, Senders, MaySend, InRow
    <3> QED
      BY <3>1, FS_EmptySet DEF Init, Counted
  <2> QED
    BY <2>1, <2>2 DEF CopyInv
<1>2. CopyInv /\ [Next]_vars => CopyInv'
  <2> SUFFICES ASSUME CopyInv, [Next]_vars PROVE CopyInv'
    OBVIOUS
  <2>1. TypeInv'
    BY TypeStep DEF CopyInv
  <2>2. IInv' /\ LeaderTicks' /\ RowAfterCommit'
    BY InvStep, TickStep, CommitStep DEF CopyInv
  <2>3. \A e \in Events : Counted(e)'
    BY CountStep
  <2> QED
    BY <2>1, <2>2, <2>3 DEF CopyInv
<1>3. CopyInv => DuplicatesNeedFaults
  <2> SUFFICES ASSUME CopyInv, NEW e \in Events PROVE Cardinality(Sent(e)) <= 1 + faults
    BY DEF DuplicatesNeedFaults
  <2>1. Counted(e) /\ faults \in Nat
    BY DEF CopyInv, TypeInv, StoreOK
  <2>2. Cardinality(Sent(e)) \in Nat /\ Cardinality(Senders(e)) \in Nat
    BY <2>1, FS_CardinalityType DEF Counted
  <2> QED
    BY <2>1, <2>2 DEF Counted
<1> QED
  BY <1>1, <1>2, <1>3, PTL DEF Spec
=============================================================================
