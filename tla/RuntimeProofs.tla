---------------------------- MODULE RuntimeProofs ----------------------------
(***************************************************************************)
(* Proofs about Runtime, for any values of its constants: the runtime      *)
(* guard, the token bucket, the receive loop, the sampler and the          *)
(* monitoring handler, each with its inductive invariant, and the          *)
(* invariants of the runs from them.                                       *)
(***************************************************************************)
EXTENDS Runtime, FiniteSetTheorems, TLAPS

-----------------------------------------------------------------------------
(* The guard: whatever is killed, refused, delayed or started again, the   *)
(* backend ends in time.                                                   *)

Moments == Nat \cup {None}

\* The types, without the bound of the clock.
GuardTypes ==
    /\ now \in Nat
    /\ latchedAt \in Moments
    /\ lease \in [issued : Moments, until : Moments]
    /\ badSince \in Moments
    /\ guard \in [at : {"idle", "checking"}, since : Moments]
    /\ svc \in [Services -> [at : {"down", "running", "stopping"}, due : Moments]]

\* The next step of every wrapper lies ahead and is near; a lease ends soon; the
\* checks of a guard are within their time.
Timers ==
    /\ \A s \in Services :
         /\ svc[s].at = "running" => now <= svc[s].due /\ svc[s].due <= now + Poll
         /\ svc[s].at = "stopping" => now <= svc[s].due /\ svc[s].due <= now + Term
    /\ lease.until <= now + Life
    /\ guard.at = "checking" =>
         guard.since \in Nat /\ guard.since <= now /\ now <= guard.since + CheckTime

\* A guard that runs past the latch has begun before it.
BeganBefore ==
    Latched => latchedAt <= now /\ (guard.at = "checking" => guard.since <= latchedAt)

\* No lease is valid beyond b, and no process has a step beyond what that allows.
BoundedBy(b) ==
    /\ lease.until <= b
    /\ \A s \in Services :
         /\ svc[s].at = "running" => svc[s].due < b + Poll
         /\ svc[s].at = "stopping" => svc[s].due < b + Poll + Term

\* The date in health.json is that of the history.
GuardInv ==
    /\ GuardTypes /\ Timers /\ BeganBefore
    /\ badSince = firstBad
    /\ BoundedBy(LocalEnd)
    /\ Latched => BoundedBy(latchedAt + CheckTime + Life)
    /\ badSince # None => BoundedBy(badSince + Grace + Life)

-----------------------------------------------------------------------------
\* The three ends are Alive services within a bound.
LEMMA BoundEnds ==
    ASSUME GuardAssumption, GuardTypes, Timers, NEW b \in Nat, BoundedBy(b), NEW s \in Services, Alive(s)
    PROVE  now < b + Overrun
BY DEF GuardAssumption, GuardTypes, Moments, Timers, BoundedBy, Alive, Overrun, None

\* Every process alive, and every lease, is within a lease's life from now.
LEMMA BoundedFromNow ==
    ASSUME GuardAssumption, GuardTypes, Timers, NEW d \in Nat
    PROVE  BoundedBy(now + d + Life)
BY DEF GuardAssumption, GuardTypes, Moments, Timers, BoundedBy, None

\* A lease that is granted ends with its life and with the window.
LEMMA Granted ==
    ASSUME GuardAssumption, GuardTypes, NEW planEnd \in PlanEnds
    PROVE  /\ Permission(planEnd) \in [issued : Moments, until : Moments]
           /\ Permission(planEnd).until <= now + Life
           /\ Permission(planEnd).until <= LocalEnd
BY DEF GuardAssumption, GuardTypes, Moments, Permission, Min2

\* The types and the timers are kept.
LEMMA TimersStep ==
    ASSUME GuardAssumption, GuardTypes, Timers, [Next]_vars
    PROVE  GuardTypes' /\ Timers'
<1> USE DEF GuardAssumption, GuardTypes, Moments, Timers, None, NoLease, Idle, Down
<1>1. CASE EnforceStarts
  BY <1>1 DEF EnforceStarts
<1>2. CASE EnforceRefusedAtOnce \/ EnforceRefuses
  BY <1>2 DEF EnforceRefusedAtOnce, EnforceRefuses, Refuse
<1>3. CASE EnforceGrants
  <2>1. PICK planEnd \in PlanEnds, healthy \in BOOLEAN :
          Grants(planEnd, healthy) /\ lease' = Permission(planEnd)
    BY <1>3 DEF EnforceGrants
  <2>2. badSince' \in Moments
    BY <2>1 DEF Grants, BadSince
  <2> QED
    BY <1>3, <2>1, <2>2, Granted DEF EnforceGrants, Grants
<1>4. CASE EnforceHalfWritten
  <2>1. PICK planEnd \in PlanEnds, healthy \in BOOLEAN : Grants(planEnd, healthy)
    BY <1>4 DEF EnforceHalfWritten
  <2>2. badSince' \in Moments
    BY <2>1 DEF Grants, BadSince
  <2> QED
    BY <1>4, <2>1, <2>2 DEF EnforceHalfWritten, Grants
<1>5. CASE EnforceKilled
  BY <1>5 DEF EnforceKilled
<1>6. ASSUME NEW s \in Services, WrapperStarts(s) PROVE GuardTypes' /\ Timers'
  BY <1>6 DEF WrapperStarts
<1>7. ASSUME NEW s \in Services, WrapperLooks(s) PROVE GuardTypes' /\ Timers'
  BY <1>7 DEF WrapperLooks
<1>8. ASSUME NEW s \in Services, WrapperEnds(s) \/ WrapperRefused(s) PROVE GuardTypes' /\ Timers'
  BY <1>8 DEF WrapperEnds, WrapperRefused
<1>9. CASE StopLatches \/ StopSwitchesCaddy \/ StopDies
  BY <1>9 DEF StopLatches, StopSwitchesCaddy, StopDies
<1>10. CASE StopRemovesLease
  BY <1>10 DEF StopRemovesLease
<1>11. CASE StopUnits
  BY <1>11 DEF StopUnits
<1>12. CASE Reboot
  BY <1>12 DEF Reboot
<1>13. CASE Tick
  BY <1>13 DEF Tick
<1>14. CASE UNCHANGED vars
  BY <1>14 DEF vars
<1> QED
  BY <1>1, <1>2, <1>3, <1>4, <1>5, <1>6, <1>7, <1>8, <1>9, <1>10, <1>11, <1>12, <1>13, <1>14 DEF Next

\* A bound holds on as long as no lease is granted beyond it.
LEMMA BoundStep ==
    ASSUME GuardAssumption, GuardTypes, Timers, [Next]_vars, NEW b \in Nat, BoundedBy(b), lease'.until <= b
    PROVE  BoundedBy(b)'
<1> USE DEF GuardAssumption, GuardTypes, Moments, Timers, BoundedBy, None
<1>1. ASSUME NEW s \in Services, WrapperStarts(s) PROVE BoundedBy(b)'
  BY <1>1 DEF WrapperStarts, ValidLease
<1>2. ASSUME NEW s \in Services, WrapperLooks(s) PROVE BoundedBy(b)'
  BY <1>2 DEF WrapperLooks, ValidLease
<1>3. ASSUME NEW s \in Services, WrapperEnds(s) PROVE BoundedBy(b)'
  BY <1>3 DEF WrapperEnds, Down
<1>4. CASE StopUnits
  BY <1>4 DEF StopUnits
<1>5. CASE Reboot
  BY <1>5 DEF Reboot, Down
<1>6. CASE UNCHANGED svc
  BY <1>6
<1>7. \/ \E s \in Services : WrapperStarts(s) \/ WrapperLooks(s) \/ WrapperEnds(s)
      \/ StopUnits \/ Reboot \/ UNCHANGED svc
  BY DEF Next, vars, EnforceStarts, EnforceRefusedAtOnce, EnforceRefuses, Refuse, EnforceGrants,
         EnforceHalfWritten, EnforceKilled, WrapperRefused, StopLatches, StopRemovesLease,
         StopSwitchesCaddy, StopDies, Tick
<1> QED
  BY <1>1, <1>2, <1>3, <1>4, <1>5, <1>6, <1>7

\* Who may change the lease, and how.
LEMMA LeaseStep ==
    ASSUME GuardAssumption, GuardTypes, [Next]_vars
    PROVE  \/ lease' = lease
           \/ lease' = NoLease
           \/ \E planEnd \in PlanEnds, healthy \in BOOLEAN :
                /\ Grants(planEnd, healthy) /\ lease' = Permission(planEnd)
                /\ UNCHANGED <<now, latchedAt>>
BY DEF Next, vars, EnforceStarts, EnforceRefusedAtOnce, EnforceRefuses, Refuse, EnforceGrants,
       EnforceHalfWritten, EnforceKilled, WrapperStarts, WrapperLooks, WrapperEnds, WrapperRefused,
       StopLatches, StopRemovesLease, StopSwitchesCaddy, StopUnits, StopDies, Reboot, Tick

\* The latch is set at the current time and never removed; no guard begins under it.
LEMMA LatchStep ==
    ASSUME GuardAssumption, GuardTypes, Timers, BeganBefore, [Next]_vars
    PROVE  /\ BeganBefore'
           /\ latchedAt' # latchedAt => latchedAt' = now /\ lease' = lease /\ UNCHANGED <<now, svc>>
<1> USE DEF GuardAssumption, GuardTypes, Moments, Timers, BeganBefore, Latched, None, Idle
<1>1. CASE EnforceStarts \/ EnforceKilled
  BY <1>1 DEF EnforceStarts, EnforceKilled
<1>2. CASE EnforceRefusedAtOnce \/ EnforceRefuses
  BY <1>2 DEF EnforceRefusedAtOnce, EnforceRefuses, Refuse
<1>3. CASE EnforceGrants \/ EnforceHalfWritten
  BY <1>3 DEF EnforceGrants, EnforceHalfWritten, Grants
<1>4. ASSUME NEW s \in Services,
             WrapperStarts(s) \/ WrapperLooks(s) \/ WrapperEnds(s) \/ WrapperRefused(s)
      PROVE  BeganBefore' /\ UNCHANGED latchedAt
  BY <1>4 DEF WrapperStarts, WrapperLooks, WrapperEnds, WrapperRefused
<1>5. CASE StopLatches
  BY <1>5 DEF StopLatches
<1>6. CASE StopRemovesLease \/ StopSwitchesCaddy \/ StopUnits \/ StopDies
  BY <1>6 DEF StopRemovesLease, StopSwitchesCaddy, StopUnits, StopDies
<1>7. CASE Reboot
  BY <1>7 DEF Reboot
<1>8. CASE Tick
  BY <1>8 DEF Tick
<1>9. CASE UNCHANGED vars
  BY <1>9 DEF vars
<1> QED
  BY <1>1, <1>2, <1>3, <1>4, <1>5, <1>6, <1>7, <1>8, <1>9 DEF Next

\* Bad health is dated when it is first seen, and forgotten with good health.
LEMMA HealthStep ==
    ASSUME GuardAssumption, GuardTypes, [Next]_vars
    PROVE  badSince' = badSince \/ badSince' = None \/ (badSince' = now /\ UNCHANGED <<now, svc>>)
BY DEF Next, vars, EnforceStarts, EnforceRefusedAtOnce, EnforceRefuses, Refuse, EnforceGrants, Grants,
       BadSince, EnforceHalfWritten, EnforceKilled, WrapperStarts, WrapperLooks, WrapperEnds,
       WrapperRefused, StopLatches, StopRemovesLease, StopSwitchesCaddy, StopUnits, StopDies, Reboot, Tick

\* No run dates bad health anew, and what forgets it forgets the history with it.
LEMMA HistoryStep ==
    ASSUME badSince = firstBad, [Next]_vars
    PROVE  badSince' = firstBad'
<1>1. ASSUME NEW planEnd \in PlanEnds, NEW healthy \in BOOLEAN, Grants(planEnd, healthy)
      PROVE  badSince' = firstBad'
  BY <1>1 DEF Grants, BadSince, FirstBad
<1>2. CASE EnforceGrants \/ EnforceHalfWritten
  BY <1>1, <1>2 DEF EnforceGrants, EnforceHalfWritten
<1>3. CASE Reboot
  BY <1>3 DEF Reboot
<1>4. EnforceGrants \/ EnforceHalfWritten \/ Reboot \/ UNCHANGED <<badSince, firstBad>>
  BY DEF Next, vars, EnforceStarts, EnforceRefusedAtOnce, EnforceRefuses, Refuse, EnforceKilled,
         WrapperStarts, WrapperLooks, WrapperEnds, WrapperRefused, StopLatches, StopRemovesLease,
         StopSwitchesCaddy, StopUnits, StopDies, Tick
<1> QED
  BY <1>2, <1>3, <1>4

LEMMA GuardStep ==
    ASSUME GuardAssumption
    PROVE  GuardInv /\ [Next]_vars => GuardInv'
<1> SUFFICES ASSUME GuardInv, [Next]_vars PROVE GuardInv'
  OBVIOUS
<1>1. /\ GuardTypes /\ Timers /\ BeganBefore /\ GuardTypes' /\ Timers' /\ BeganBefore'
      /\ badSince' = firstBad'
  BY TimersStep, LatchStep, HistoryStep DEF GuardInv
<1>2. BoundedBy(LocalEnd)'
  <2>1. lease'.until <= LocalEnd
    BY <1>1, LeaseStep, Granted DEF GuardInv, BoundedBy, NoLease, None, GuardAssumption
  <2> QED
    BY <1>1, <2>1, BoundStep DEF GuardInv, GuardAssumption
<1>3. ASSUME Latched' PROVE BoundedBy(latchedAt + CheckTime + Life)'
  <2>1. CASE latchedAt' = latchedAt
    <3>0. PICK b \in Nat : b = latchedAt + CheckTime + Life
      BY <1>1, <1>3, <2>1 DEF Latched, GuardTypes, Moments, GuardAssumption
    <3>1. Latched /\ BoundedBy(b)
      BY <3>0, <1>1, <1>3, <2>1 DEF GuardInv, Latched, GuardTypes, Moments, GuardAssumption
    <3>2. lease'.until <= b
      <4>1. ASSUME NEW planEnd \in PlanEnds, NEW healthy \in BOOLEAN, Grants(planEnd, healthy),
                   lease' = Permission(planEnd)
            PROVE  lease'.until <= b
        <5>1. Permission(planEnd).until \in Moments /\ Permission(planEnd).until <= now + Life
          BY <1>1, Granted
        <5>2. /\ latchedAt \in Nat /\ guard.since \in Nat
              /\ guard.since <= latchedAt /\ now <= guard.since + CheckTime
          BY <1>1, <3>1, <4>1 DEF Grants, Timers, BeganBefore, Latched, GuardTypes, Moments
        <5> QED
          BY <1>1, <3>0, <4>1, <5>1, <5>2 DEF GuardTypes, Moments, GuardAssumption, None
      <4> QED
        BY <1>1, <3>1, <4>1, LeaseStep DEF BoundedBy, NoLease, None
    <3>3. BoundedBy(b)'
      BY <1>1, <3>1, <3>2, BoundStep
    <3> QED
      BY <2>1, <3>0, <3>3 DEF BoundedBy
  <2>2. CASE latchedAt' # latchedAt
    <3>1. latchedAt' = now /\ lease' = lease /\ UNCHANGED <<now, svc>>
      BY <1>1, <2>2, LatchStep
    <3>2. BoundedBy(now + CheckTime + Life)
      BY <1>1, BoundedFromNow DEF GuardAssumption
    <3> QED
      BY <3>1, <3>2 DEF BoundedBy
  <2> QED
    BY <2>1, <2>2
<1>4. ASSUME badSince' # None PROVE BoundedBy(badSince + Grace + Life)'
  <2>1. CASE badSince' = badSince
    <3>0. PICK b \in Nat : b = badSince + Grace + Life
      BY <1>1, <1>4, <2>1 DEF GuardTypes, Moments, GuardAssumption
    <3>1. BoundedBy(b)
      BY <3>0, <1>1, <1>4, <2>1 DEF GuardInv, GuardTypes, Moments, GuardAssumption
    <3>2. lease'.until <= b
      <4>1. ASSUME NEW planEnd \in PlanEnds, NEW healthy \in BOOLEAN, Grants(planEnd, healthy),
                   lease' = Permission(planEnd)
            PROVE  lease'.until <= b
        <5>1. Permission(planEnd).until \in Moments /\ Permission(planEnd).until <= now + Life
          BY <1>1, Granted
        <5>2. ~healthy /\ badSince \in Nat /\ now - badSince < Grace
          BY <1>1, <1>4, <2>1, <4>1 DEF Grants, BadSince, Tolerated, GuardTypes, Moments
        <5> QED
          BY <1>1, <3>0, <4>1, <5>1, <5>2 DEF GuardTypes, Moments, GuardAssumption, None
      <4> QED
        BY <1>1, <3>1, <4>1, LeaseStep DEF BoundedBy, NoLease, None
    <3>3. BoundedBy(b)'
      BY <1>1, <3>1, <3>2, BoundStep
    <3> QED
      BY <2>1, <3>0, <3>3 DEF BoundedBy
  <2>2. CASE badSince' # badSince
    <3>1. badSince' = now /\ UNCHANGED <<now, svc>>
      BY <1>1, <1>4, <2>2, HealthStep
    <3>2. BoundedBy(now + Grace + Life)'
      <4>1. Grace \in Nat
        BY DEF GuardAssumption
      <4>2. BoundedBy(now + Grace + Life)
        BY <1>1, <4>1, BoundedFromNow
      <4>3. lease'.until <= now + Grace + Life
        BY <1>1, <3>1, <4>1 DEF Timers, GuardTypes, Moments, None, GuardAssumption
      <4> QED
        BY <3>1, <4>2, <4>3 DEF BoundedBy
    <3> QED
      BY <3>1, <3>2 DEF BoundedBy
  <2> QED
    BY <2>1, <2>2
<1> QED
  BY <1>1, <1>2, <1>3, <1>4 DEF GuardInv

\* The clock is within its bound, and everything set is set from it.
LEMMA GuardTypeStep ==
    ASSUME GuardAssumption, TypeOK, [Next]_vars
    PROVE  TypeOK'
<1> USE DEF GuardAssumption, TypeOK, Time, None, NoLease, Idle, Down, StartStop
<1>1. CASE EnforceStarts \/ EnforceKilled
  BY <1>1 DEF EnforceStarts, EnforceKilled
<1>2. CASE EnforceRefusedAtOnce \/ EnforceRefuses
  BY <1>2 DEF EnforceRefusedAtOnce, EnforceRefuses, Refuse
<1>3. ASSUME NEW planEnd \in PlanEnds, NEW healthy \in BOOLEAN, Grants(planEnd, healthy)
      PROVE  /\ badSince' \in Time \cup {None} /\ firstBad' \in Time \cup {None} /\ guard' = Idle
             /\ Permission(planEnd) \in [issued : Time \cup {None}, until : (0 .. MaxTime + Life) \cup {None}]
  <2>1. badSince' \in Time \cup {None} /\ firstBad' \in Time \cup {None} /\ guard' = Idle
    BY <1>3 DEF Grants, BadSince, FirstBad
  <2>2. Permission(planEnd).until \in 0 .. MaxTime + Life
    BY <1>3 DEF Permission, Min2
  <2> QED
    BY <2>1, <2>2 DEF Permission
<1>4. CASE EnforceGrants
  BY <1>3, <1>4 DEF EnforceGrants
<1>5. CASE EnforceHalfWritten
  BY <1>3, <1>5 DEF EnforceHalfWritten
<1>6. ASSUME NEW s \in Services, WrapperStarts(s) \/ WrapperLooks(s) PROVE TypeOK'
  BY <1>6 DEF WrapperStarts, WrapperLooks
<1>7. ASSUME NEW s \in Services, WrapperEnds(s) \/ WrapperRefused(s) PROVE TypeOK'
  BY <1>7 DEF WrapperEnds, WrapperRefused
<1>8. CASE StopLatches \/ StopRemovesLease \/ StopSwitchesCaddy \/ StopDies
  BY <1>8 DEF StopLatches, StopRemovesLease, StopSwitchesCaddy, StopDies
<1>9. CASE StopUnits \/ Reboot
  BY <1>9 DEF StopUnits, Reboot
<1>10. CASE Tick
  BY <1>10 DEF Tick
<1>11. CASE UNCHANGED vars
  BY <1>11 DEF vars
<1> QED
  BY <1>1, <1>2, <1>4, <1>5, <1>6, <1>7, <1>8, <1>9, <1>10, <1>11 DEF Next

\* The three bounds are the three promises.
LEMMA GuardPromises == ASSUME GuardAssumption, GuardInv PROVE CutoffHonoured /\ StopsBind
<1>1. CutoffHonoured
  BY BoundEnds DEF GuardInv, CutoffHonoured, GuardAssumption
<1>2. ASSUME Latched, NEW s \in Services, Alive(s) PROVE now < latchedAt + CheckTime + Life + Overrun
  <2>1. latchedAt + CheckTime + Life \in Nat
    BY <1>2 DEF GuardInv, GuardTypes, Moments, Latched, GuardAssumption
  <2> QED
    BY <1>2, <2>1, BoundEnds DEF GuardInv
<1>3. ASSUME firstBad # None, NEW s \in Services, Alive(s) PROVE now < firstBad + Grace + Life + Overrun
  <2>1. badSince = firstBad /\ badSince + Grace + Life \in Nat
    BY <1>3 DEF GuardInv, GuardTypes, Moments, GuardAssumption
  <2> QED
    BY <1>3, <2>1, BoundEnds DEF GuardInv
<1> QED
  BY <1>1, <1>2, <1>3 DEF StopsBind, LatchBinds, GraceBinds

-----------------------------------------------------------------------------
(* The bucket: the limit of a tenant for any number of callers, any        *)
(* capacity and rate, and any delay of their commands.                     *)

\* The types of the bucket, without the bounds of TLC.
BucketTypes ==
    /\ now \in Nat
    /\ bucket \in [tokens : Nat, last : Nat, ends : Nat]
    /\ call \in [Callers -> [at : {"idle", "sent", "allowed", "refused"}, stamp : Nat \cup {Bucket!None},
                             retry : Int]]
    /\ taken \in Nat /\ back \in Nat
    /\ \A c \in Callers : call[c].at = "sent" => call[c].stamp \in Nat /\ call[c].stamp <= now

\* What was given out and what is left was a full bucket at first, or was refilled
\* in the time that the stamps account for.
Accounted ==
    /\ bucket.last <= now
    /\ bucket.ends = 0 => taken = 0
    /\ bucket.ends # 0 => taken * Share + bucket.tokens <= Bucket!Full + (bucket.last + back) * Rate

\* The bucket still holds what the last refusal was computed from.
RefusalFits ==
    \A c \in Callers : call[c].at = "refused" /\ untouched = c =>
      /\ bucket.last = call[c].stamp /\ bucket.tokens < Share
      /\ call[c].retry = Bucket!Ceil(Share - bucket.tokens, Rate)

BucketInv == BucketTypes /\ Accounted /\ RefusalFits

-----------------------------------------------------------------------------
LEMMA Distributes == \A a, b, c \in Int : (a + b) * c = a * c + b * c
BY SMT

LEMMA Monotone == \A a, b \in Int, c \in Nat : a <= b => a * c <= b * c
BY SMT

LEMMA ProductNat == \A a, b \in Nat : a * b \in Nat
BY SMT

\* The time to live fills the bucket.
LEMMA LifeFills == ASSUME Bucket!BucketAssumption PROVE Bucket!LifeTime \in Nat \ {0} /\ Bucket!Full <= Bucket!LifeTime * Rate
<1>1. Bucket!Full \in Nat \ {0}
  BY ProductNat DEF Bucket!BucketAssumption, Bucket!Full
<1>2. \A a \in Nat \ {0}, b \in Nat \ {0} : (a + b - 1) \div b \in Nat \ {0} /\ a <= ((a + b - 1) \div b) * b
  BY SMT
<1> QED
  BY <1>1, <1>2 DEF Bucket!LifeTime, Bucket!Ceil, Bucket!BucketAssumption

\* Ceil rounds up, and by less than one unit.
LEMMA CeilExact ==
    ASSUME NEW a \in Nat \ {0}, NEW b \in Nat \ {0}
    PROVE  /\ Bucket!Ceil(a, b) \in Nat \ {0}
           /\ a <= Bucket!Ceil(a, b) * b
           /\ (Bucket!Ceil(a, b) - 1) * b < a
BY SMT DEF Bucket!Ceil

\* What the script finds in the bucket.
LEMMA RefilledTyped ==
    ASSUME Bucket!BucketAssumption, BucketTypes, NEW s \in Int
    PROVE  Bucket!Refilled(s) \in Nat /\ Bucket!Full \in Nat /\ Bucket!Max2(0, s - bucket.last) \in Nat
<1>1. Bucket!Full \in Nat
  BY ProductNat DEF Bucket!BucketAssumption, Bucket!Full
<1>2. Bucket!Max2(0, s - bucket.last) \in Nat
  BY DEF Bucket!Max2, BucketTypes
<1>3. Bucket!Max2(0, s - bucket.last) * Rate \in Nat
  BY <1>2, ProductNat DEF Bucket!BucketAssumption
<1>4. bucket.tokens \in Nat
  BY DEF BucketTypes
<1> QED
  BY <1>1, <1>2, <1>3, <1>4 DEF Bucket!Refilled, Bucket!Min2

\* The script moves a token from the bucket to the caller, or none.
LEMMA ScriptBalances ==
    ASSUME Bucket!BucketAssumption, BucketTypes, NEW c \in Callers, call[c].at = "sent", Bucket!Execute(c)
    PROVE  /\ bucket' \in [tokens : Nat, last : Nat, ends : Nat] /\ taken' \in Nat /\ back' \in Nat
           /\ taken' * Share + bucket'.tokens = taken * Share + Bucket!Refilled(call[c].stamp)
           /\ bucket'.last = call[c].stamp /\ bucket'.ends # 0
<1> DEFINE s == call[c].stamp
<1>1. s \in Nat /\ Bucket!Refilled(s) \in Nat
  BY RefilledTyped DEF BucketTypes
<1>2. Bucket!LifeTime \in Nat \ {0}
  BY LifeFills
<1>3. /\ bucket' = [tokens |-> IF Bucket!Enough(s) THEN Bucket!Refilled(s) - Share ELSE Bucket!Refilled(s),
                    last |-> s, ends |-> now + Bucket!LifeTime]
      /\ taken' = IF Bucket!Enough(s) THEN taken + 1 ELSE taken
  BY DEF Bucket!Execute, Bucket!Consumed
<1>4. back' \in Nat
  BY <1>1, <1>2 DEF Bucket!Execute, Bucket!SetBack, Bucket!Max2, BucketTypes
<1>5. (taken + 1) * Share = taken * Share + Share
  BY Distributes DEF BucketTypes, Bucket!BucketAssumption
<1>6. taken * Share \in Nat
  BY ProductNat DEF BucketTypes, Bucket!BucketAssumption
<1> HIDE DEF s
<1>7. CASE Bucket!Enough(s)
  BY <1>1, <1>2, <1>3, <1>4, <1>5, <1>6, <1>7 DEF Bucket!Enough, BucketTypes, Bucket!BucketAssumption, s
<1>8. CASE ~Bucket!Enough(s)
  BY <1>1, <1>2, <1>3, <1>4, <1>6, <1>8 DEF BucketTypes, s
<1> QED
  BY <1>7, <1>8

\* The account holds after the script: a bucket that is there was refilled for the
\* time since its last stamp, and one that is gone had the time to fill.
LEMMA ScriptAccounts ==
    ASSUME Bucket!BucketAssumption, BucketTypes, Accounted, NEW c \in Callers, call[c].at = "sent", Bucket!Execute(c),
           now' = now
    PROVE  Accounted'
<1> DEFINE s == call[c].stamp
<1>1. s \in Nat /\ s <= now /\ Bucket!Refilled(s) \in Nat /\ Bucket!Full \in Nat
  BY RefilledTyped DEF BucketTypes
<1>2. /\ taken' * Share + bucket'.tokens = taken * Share + Bucket!Refilled(s)
      /\ bucket'.last = s /\ bucket'.ends # 0 /\ back' \in Nat
  BY ScriptBalances
<1>3. /\ now \in Nat /\ bucket.last \in Nat /\ bucket.ends \in Nat /\ bucket.tokens \in Nat
      /\ back \in Nat /\ Rate \in Nat /\ taken * Share \in Nat
  BY ProductNat DEF BucketTypes, Bucket!BucketAssumption
<1>i. s \in Nat /\ back' \in Nat /\ s + back' \in Nat
  <2>1. s \in Nat /\ back' \in Nat
    BY <1>1, <1>2
  <2> QED
    BY <2>1
<1> HIDE DEF s
<1>4. CASE bucket.ends = 0
  <2>1. Bucket!Refilled(s) = Bucket!Full /\ taken * Share = 0
    BY <1>3, <1>4 DEF Bucket!Refilled, Bucket!Present, Accounted, Bucket!BucketAssumption
  <2>2. (s + back') * Rate \in Nat
    BY <1>3, <1>i, ProductNat
  <2> QED
    BY <1>1, <1>2, <2>1, <2>2 DEF Accounted
<1>5. CASE bucket.ends # 0 /\ Bucket!Present
  <2> DEFINE d == Bucket!Max2(0, s - bucket.last)
  <2>1. d \in Nat /\ s + back' = (bucket.last + back) + d
    BY <1>1, <1>3, <1>5 DEF Bucket!Execute, Bucket!SetBack, Bucket!Max2, s
  <2>2. Bucket!Refilled(s) <= bucket.tokens + d * Rate
    <3>1. d * Rate \in Nat
      BY <1>3, <2>1, ProductNat
    <3> QED
      BY <1>1, <1>3, <1>5, <3>1 DEF Bucket!Refilled, Bucket!Min2
  <2> HIDE DEF d
  <2>3. (s + back') * Rate = (bucket.last + back) * Rate + d * Rate
    BY <1>3, <2>1, Distributes
  <2>4. d * Rate \in Nat /\ (bucket.last + back) * Rate \in Nat
    BY <1>3, <2>1, ProductNat
  <2> QED
    BY <1>1, <1>2, <1>3, <1>5, <2>2, <2>3, <2>4 DEF Accounted
<1>6. CASE bucket.ends # 0 /\ ~Bucket!Present
  <2>1. Bucket!LifeTime \in Nat /\ Bucket!Full <= Bucket!LifeTime * Rate
    BY LifeFills
  <2>2. (bucket.last + back) + Bucket!LifeTime <= s + back'
    BY <1>1, <1>3, <1>6, <2>1 DEF Bucket!Execute, Bucket!SetBack, Bucket!Max2, s
  <2>3. (bucket.last + back) * Rate + Bucket!LifeTime * Rate <= (s + back') * Rate
    <3>1. ((bucket.last + back) + Bucket!LifeTime) * Rate <= (s + back') * Rate
      BY <1>1, <1>2, <1>3, <2>1, <2>2, Monotone
    <3> QED
      BY <1>3, <2>1, <3>1, Distributes
  <2>4. Bucket!Refilled(s) = Bucket!Full
    BY <1>6 DEF Bucket!Refilled
  <2>5. /\ Bucket!LifeTime * Rate \in Nat /\ (bucket.last + back) * Rate \in Nat
        /\ (s + back') * Rate \in Nat
    <3>1. bucket.last + back \in Nat
      BY <1>3
    <3> QED
      BY <1>3, <1>i, <2>1, <3>1, ProductNat
  <2> QED
    BY <1>1, <1>2, <1>3, <1>6, <2>1, <2>3, <2>4, <2>5 DEF Accounted
<1> QED
  BY <1>4, <1>5, <1>6

LEMMA BucketStep ==
    ASSUME Bucket!BucketAssumption
    PROVE  BucketInv /\ [Bucket!Next]_(Bucket!vars) => BucketInv'
<1> SUFFICES ASSUME BucketInv, [Bucket!Next]_(Bucket!vars) PROVE BucketInv'
  OBVIOUS
<1> USE DEF BucketInv
<1>1. ASSUME NEW c \in Callers, Bucket!Call(c) PROVE BucketInv'
  BY <1>1 DEF Bucket!Call, BucketTypes, Accounted, RefusalFits, Bucket!None
<1>2. ASSUME NEW c \in Callers, Bucket!Decide(c) PROVE BucketInv'
  <2> DEFINE s == call[c].stamp
             answer == IF Bucket!Enough(s) THEN [at |-> "allowed", stamp |-> s, retry |-> 0]
                                    ELSE [at |-> "refused", stamp |-> s, retry |-> Bucket!RetryAfter(s)]
  <2>1. /\ call[c].at = "sent" /\ Bucket!Execute(c) /\ UNCHANGED now
        /\ call' = [call EXCEPT ![c] = answer] /\ untouched' = c
    BY <1>2 DEF Bucket!Decide, Bucket!Execute
  <2>2. Accounted'
    BY <2>1, ScriptAccounts
  <2>3. s \in Nat /\ Bucket!Refilled(s) \in Nat /\ Share \in Nat \ {0} /\ Rate \in Nat \ {0}
    BY <2>1, RefilledTyped DEF BucketTypes, Bucket!BucketAssumption
  <2>4. ASSUME ~Bucket!Enough(s)
        PROVE  /\ answer.at = "refused" /\ answer.stamp = s /\ bucket'.last = s
               /\ bucket'.tokens = Bucket!Refilled(s) /\ Bucket!Refilled(s) < Share
               /\ answer.retry = Bucket!Ceil(Share - Bucket!Refilled(s), Rate)
    BY <2>1, <2>3, <2>4 DEF Bucket!Execute, Bucket!Consumed, Bucket!Enough, Bucket!RetryAfter
  <2>5. /\ answer \in [at : {"idle", "sent", "allowed", "refused"}, stamp : Nat \cup {Bucket!None}, retry : Int]
        /\ answer.at \in {"allowed", "refused"} /\ (Bucket!Enough(s) => answer.at = "allowed")
    <3>1. CASE Bucket!Enough(s)
      BY <2>3, <3>1
    <3>2. CASE ~Bucket!Enough(s)
      <4>1. Share - Bucket!Refilled(s) \in Nat \ {0}
        BY <2>3, <2>4, <3>2
      <4>2. Bucket!RetryAfter(s) \in Nat
        BY <2>3, <4>1, CeilExact DEF Bucket!RetryAfter
      <4> QED
        BY <2>3, <3>2, <4>2
    <3> QED
      BY <3>1, <3>2
  <2> HIDE DEF s, answer
  <2>6. BucketTypes'
    BY <2>1, <2>5, ScriptBalances DEF BucketTypes
  <2>7. RefusalFits'
    <3> SUFFICES ASSUME NEW d \in Callers, call'[d].at = "refused", d = c
                 PROVE  /\ bucket'.last = call'[d].stamp /\ bucket'.tokens < Share
                        /\ call'[d].retry = Bucket!Ceil(Share - bucket'.tokens, Rate)
      BY <2>1 DEF RefusalFits
    <3>1. call'[d] = answer
      BY <2>1 DEF BucketTypes
    <3> QED
      BY <2>4, <2>5, <3>1
  <2> QED
    BY <2>2, <2>6, <2>7
<1>3. ASSUME NEW c \in Callers, Bucket!DecideLost(c) PROVE BucketInv'
  <2>1. call[c].at = "sent" /\ Bucket!Execute(c) /\ UNCHANGED <<now, call>> /\ untouched' = c
    BY <1>3 DEF Bucket!DecideLost, Bucket!Execute
  <2>2. Accounted' /\ BucketTypes'
    BY <2>1, ScriptAccounts, ScriptBalances DEF BucketTypes
  <2>3. RefusalFits'
    BY <2>1 DEF RefusalFits
  <2> QED
    BY <2>2, <2>3
<1>4. ASSUME NEW c \in Callers, Bucket!CallFails(c) \/ Bucket!Finish(c) PROVE BucketInv'
  BY <1>4 DEF Bucket!CallFails, Bucket!Finish, Bucket!Quiet, BucketTypes, Accounted, RefusalFits, Bucket!None
<1>5. CASE Bucket!Tick
  BY <1>5 DEF Bucket!Tick, BucketTypes, Accounted, RefusalFits, Bucket!None
<1>6. CASE UNCHANGED Bucket!vars
  BY <1>6 DEF Bucket!vars, BucketTypes, Accounted, RefusalFits
<1> QED
  BY <1>1, <1>2, <1>3, <1>4, <1>5, <1>6 DEF Bucket!Next

\* The account bounds what was given out.
LEMMA AccountBounds == ASSUME Bucket!BucketAssumption, BucketInv PROVE Bucket!BudgetKept
<1>1. /\ now \in Nat /\ back \in Nat /\ bucket.last \in Nat /\ bucket.tokens \in Nat /\ Rate \in Nat
      /\ taken * Share \in Nat /\ Bucket!Full \in Nat
  BY ProductNat DEF BucketInv, BucketTypes, Bucket!BucketAssumption, Bucket!Full
<1>2. (bucket.last + back) * Rate <= (now + back) * Rate
  BY <1>1, Monotone DEF BucketInv, Accounted
<1>3. (now + back) * Rate \in Nat /\ (bucket.last + back) * Rate \in Nat
  BY <1>1, ProductNat
<1>4. CASE bucket.ends = 0
  <2>1. taken * Share = 0
    BY <1>4 DEF BucketInv, Accounted, Bucket!BucketAssumption
  <2> QED
    BY <1>1, <1>3, <2>1 DEF Bucket!BudgetKept
<1>5. CASE bucket.ends # 0
  BY <1>1, <1>2, <1>3, <1>5 DEF BucketInv, Accounted, Bucket!BudgetKept
<1> QED
  BY <1>4, <1>5

\* A refusal names the first moment at which there is a token.
LEMMA RefusalIsExact == ASSUME Bucket!BucketAssumption, BucketInv PROVE Bucket!RetryExact
<1> SUFFICES ASSUME NEW c \in Callers, call[c].at = "refused", Bucket!Present, untouched = c
             PROVE  /\ Bucket!Refilled(call[c].stamp + call[c].retry) >= Share
                    /\ Bucket!Refilled(call[c].stamp + call[c].retry - 1) < Share
  BY DEF Bucket!RetryExact
<1> DEFINE r == Bucket!Ceil(Share - bucket.tokens, Rate)
<1>1. /\ bucket.last = call[c].stamp /\ bucket.last \in Nat /\ bucket.tokens \in Nat
      /\ bucket.tokens < Share /\ call[c].retry = r
      /\ Share \in Nat \ {0} /\ Rate \in Nat \ {0} /\ Capacity \in Nat \ {0}
  BY DEF BucketInv, BucketTypes, RefusalFits, Bucket!BucketAssumption
<1>2. /\ r \in Nat \ {0} /\ Share - bucket.tokens <= r * Rate /\ (r - 1) * Rate < Share - bucket.tokens
  BY <1>1, CeilExact
<1>3. Bucket!Full \in Nat /\ Share <= Bucket!Full
  <2>1. 1 * Share <= Capacity * Share
    BY <1>1, Monotone
  <2> QED
    BY <1>1, <2>1, ProductNat DEF Bucket!Full
<1> HIDE DEF r
<1>4. Bucket!Refilled(bucket.last + r) >= Share
  <2>1. Bucket!Max2(0, (bucket.last + r) - bucket.last) = r
    BY <1>1, <1>2 DEF Bucket!Max2
  <2>2. r * Rate \in Nat
    BY <1>1, <1>2, ProductNat
  <2> QED
    BY <1>1, <1>2, <1>3, <2>1, <2>2 DEF Bucket!Refilled, Bucket!Min2
<1>5. Bucket!Refilled(bucket.last + r - 1) < Share
  <2>1. Bucket!Max2(0, (bucket.last + r - 1) - bucket.last) = r - 1
    BY <1>1, <1>2 DEF Bucket!Max2
  <2>2. (r - 1) * Rate \in Nat
    BY <1>1, <1>2, ProductNat
  <2> QED
    BY <1>1, <1>2, <1>3, <2>1, <2>2 DEF Bucket!Refilled, Bucket!Min2
<1>6. call[c].stamp = bucket.last /\ call[c].retry = r
  BY <1>1
<1>7. Bucket!Refilled(call[c].stamp + call[c].retry) >= Share
  BY <1>4, <1>6, Zenon
<1>8. Bucket!Refilled(call[c].stamp + call[c].retry - 1) < Share
  BY <1>5, <1>6, Zenon
<1> QED
  BY <1>7, <1>8, Zenon

\* The bounds of TLC are kept as well.
LEMMA BucketTypeStep ==
    ASSUME Bucket!BucketAssumption, BucketTypes, Bucket!TypeOK, [Bucket!Next]_(Bucket!vars)
    PROVE  Bucket!TypeOK'
<1> USE DEF Bucket!TypeOK, Bucket!None
<1>1. ASSUME NEW c \in Callers, Bucket!Execute(c), call[c].at = "sent", now' = now
      PROVE  /\ bucket' \in [tokens : 0 .. Bucket!Full, last : 0 .. BucketTime,
                             ends : 0 .. BucketTime + Bucket!LifeTime]
             /\ taken' \in Nat /\ back' \in Nat /\ untouched' \in Callers
  <2> DEFINE s == call[c].stamp
  <2>1. s \in Nat /\ s \in 0 .. BucketTime /\ Bucket!Refilled(s) \in Nat /\ Bucket!Full \in Nat
    BY <1>1, RefilledTyped DEF BucketTypes
  <2>2. Bucket!LifeTime \in Nat
    BY LifeFills
  <2>3. Bucket!Refilled(s) <= Bucket!Full
    <3> DEFINE d == bucket.tokens + Bucket!Max2(0, s - bucket.last) * Rate
    <3>1. d \in Int
      BY <2>1, RefilledTyped, ProductNat DEF BucketTypes, Bucket!BucketAssumption
    <3>2. Bucket!Refilled(s) = IF Bucket!Present THEN Bucket!Min2(Bucket!Full, d) ELSE Bucket!Full
      BY DEF Bucket!Refilled
    <3> HIDE DEF d
    <3> QED
      BY <2>1, <3>1, <3>2 DEF Bucket!Min2
  <2>4. taken' \in Nat /\ back' \in Nat /\ untouched' = c /\ bucket' = Bucket!Consumed(s)
    BY <1>1, ScriptBalances DEF Bucket!Execute
  <2> HIDE DEF s
  <2> QED
    BY <2>1, <2>2, <2>3, <2>4 DEF Bucket!Consumed, Bucket!Enough, Bucket!BucketAssumption
<1>2. ASSUME NEW c \in Callers, Bucket!Call(c) \/ Bucket!CallFails(c) \/ Bucket!Finish(c)
      PROVE  Bucket!TypeOK'
  BY <1>2 DEF Bucket!Call, Bucket!CallFails, Bucket!Finish, Bucket!Quiet, Bucket!BucketAssumption
<1>3. ASSUME NEW c \in Callers, Bucket!Decide(c) PROVE Bucket!TypeOK'
  <2> DEFINE s == call[c].stamp
             answer == IF Bucket!Enough(s) THEN [at |-> "allowed", stamp |-> s, retry |-> 0]
                       ELSE [at |-> "refused", stamp |-> s, retry |-> Bucket!RetryAfter(s)]
  <2>1. /\ call[c].at = "sent" /\ Bucket!Execute(c) /\ UNCHANGED <<now, calls>>
        /\ call' = [call EXCEPT ![c] = answer]
    BY <1>3 DEF Bucket!Decide, Bucket!Execute
  <2>2. s \in 0 .. BucketTime /\ Bucket!Refilled(s) \in Nat
    BY <2>1, RefilledTyped DEF BucketTypes
  <2>3. answer \in [at : {"idle", "sent", "allowed", "refused"}, stamp : (0 .. BucketTime) \cup {Bucket!None},
                    retry : Nat \cup {Bucket!None}]
    <3>1. CASE Bucket!Enough(s)
      BY <2>2, <3>1
    <3>2. CASE ~Bucket!Enough(s)
      <4>1. Share - Bucket!Refilled(s) \in Nat \ {0}
        BY <2>2, <3>2 DEF Bucket!Enough, Bucket!BucketAssumption
      <4>2. Bucket!RetryAfter(s) \in Nat
        BY <4>1, CeilExact DEF Bucket!RetryAfter, Bucket!BucketAssumption
      <4> QED
        BY <2>2, <3>2, <4>2
    <3> QED
      BY <3>1, <3>2
  <2> HIDE DEF s, answer
  <2> QED
    BY <1>1, <2>1, <2>3
<1>4. ASSUME NEW c \in Callers, Bucket!DecideLost(c) PROVE Bucket!TypeOK'
  <2>1. call[c].at = "sent" /\ Bucket!Execute(c) /\ UNCHANGED <<now, call>> /\ calls' = calls + 1 /\ calls < MaxCalls
    BY <1>4 DEF Bucket!DecideLost
  <2> QED
    BY <1>1, <2>1 DEF Bucket!BucketAssumption
<1>5. CASE Bucket!Tick
  BY <1>5 DEF Bucket!Tick, Bucket!BucketAssumption
<1>6. CASE UNCHANGED Bucket!vars
  BY <1>6 DEF Bucket!vars
<1> QED
  BY <1>2, <1>3, <1>4, <1>5, <1>6 DEF Bucket!Next

\* Time that passes elsewhere changes nothing for a bucket that rests.
LEMMA BucketRests ==
    ASSUME BucketInv, now' \in Nat, now <= now', UNCHANGED bucketVars
    PROVE  BucketInv'
BY DEF BucketInv, BucketTypes, Accounted, RefusalFits, bucketVars, Bucket!None
-----------------------------------------------------------------------------
(* The receive loop: the turns of the tenants, and what is tracked.        *)

\* The turns are what was served, and only those without one are put off.
Turns ==
    /\ served = used
    /\ \A m \in deferred, t \in Tenants : TenantOf[m] = t => used[t] = Limit

\* What is tracked is in somebody's hands.
Tracked ==
    \A m \in owned : \/ \E r \in Receives : recv[r].at = "answered" /\ m \in recv[r].messages
                     \/ m \in batch \/ m = hand \/ m \in pending \/ m \in deferred

\* What each phase has left behind, and what there is before the first batch.
Phases ==
    /\ \A r \in Receives : recv[r].at # "answered" => recv[r].messages = {}
    /\ phase = "schedule" => hand # NoOne
    /\ phase \in {"drain", "defer"} =>
         batch = {} /\ hand = NoOne /\ \A r \in Receives : recv[r].at = "taken"
    /\ phase = "defer" => pending = {}
    /\ (\A r \in Receives : recv[r].at # "taken") =>
         batch = {} /\ hand = NoOne /\ pending = {} /\ deferred = {}

CycleTypes ==
    /\ Cycle!TypeOK
    /\ IsFiniteSet(pending)

CycleInv == CycleTypes /\ Turns /\ Tracked /\ Phases

\* There is room for a confirmation when one is scheduled, and one that ends makes some.
LEMMA RoomForOne ==
    ASSUME Cycle!CycleAssumption, IsFiniteSet(pending), Cycle!Cardinality(pending) <= MaxPending
    PROVE  /\ \A m : Cycle!Cardinality(pending) < MaxPending =>
                IsFiniteSet(pending \cup {m}) /\ Cycle!Cardinality(pending \cup {m}) <= MaxPending
           /\ \A m : IsFiniteSet(pending \ {m}) /\ Cycle!Cardinality(pending \ {m}) <= MaxPending
<1>1. \A S : Cycle!Cardinality(S) = Cardinality(S)
  BY DEF Cycle!Cardinality, Cardinality, Cycle!IsFiniteSet, IsFiniteSet
<1>2. Cardinality(pending) \in Nat
  BY FS_CardinalityType
<1>3. ASSUME NEW m PROVE IsFiniteSet(pending \cup {m}) /\ Cardinality(pending \cup {m}) <= Cardinality(pending) + 1
  <2>1. /\ IsFiniteSet(pending \cup {m})
        /\ \/ Cardinality(pending \cup {m}) = Cardinality(pending)
           \/ Cardinality(pending \cup {m}) = Cardinality(pending) + 1
    BY FS_AddElement
  <2> QED
    BY <1>2, <2>1
<1>4. ASSUME NEW m PROVE IsFiniteSet(pending \ {m}) /\ Cardinality(pending \ {m}) <= Cardinality(pending)
  BY FS_Subset
<1>5. \A m : IsFiniteSet(pending \cup {m}) /\ IsFiniteSet(pending \ {m})
  BY <1>3, <1>4
<1>6. \A m : Cardinality(pending \cup {m}) \in Nat /\ Cardinality(pending \ {m}) \in Nat
  BY <1>5, FS_CardinalityType
<1>7. MaxPending \in Nat /\ Cardinality(pending) <= MaxPending
  BY <1>1 DEF Cycle!CycleAssumption
<1>8. ASSUME NEW m, Cycle!Cardinality(pending) < MaxPending
      PROVE  Cycle!Cardinality(pending \cup {m}) <= MaxPending
  <2>1. Cardinality(pending) < MaxPending /\ Cycle!Cardinality(pending \cup {m}) = Cardinality(pending \cup {m})
    BY <1>1, <1>8
  <2>2. Cardinality(pending \cup {m}) \in Nat /\ Cardinality(pending \cup {m}) <= Cardinality(pending) + 1
    BY <1>3, <1>6
  <2> QED
    BY <1>2, <1>7, <2>1, <2>2
<1>9. ASSUME NEW m PROVE Cycle!Cardinality(pending \ {m}) <= MaxPending
  <2>1. Cycle!Cardinality(pending \ {m}) = Cardinality(pending \ {m})
    BY <1>1
  <2> QED
    BY <1>2, <1>4, <1>6, <1>7, <2>1
<1> QED
  BY <1>5, <1>8, <1>9

LEMMA CycleTypesStep ==
    ASSUME Cycle!CycleAssumption, CycleInv, [Cycle!Next]_(Cycle!vars)
    PROVE  CycleTypes'
<1> USE DEF Cycle!TypeOK, CycleTypes, CycleInv
<1>1. ASSUME NEW r \in Receives, Cycle!ReceiveAnswers(r) \/ Cycle!ReceiveFails(r) PROVE CycleTypes'
  BY <1>1 DEF Cycle!ReceiveAnswers, Cycle!ReceiveFails
<1>2. ASSUME NEW r \in Receives, Cycle!TakeBatch(r) PROVE CycleTypes'
  BY <1>2 DEF Cycle!TakeBatch
<1>3. ASSUME NEW m \in Receipts, Cycle!Skip(m) \/ Cycle!DeferExcess(m) \/ Cycle!LoseTrust(m) \/ Cycle!Reappear(m)
      PROVE  CycleTypes'
  BY <1>3 DEF Cycle!Skip, Cycle!DeferExcess, Cycle!LoseTrust, Cycle!Reappear, Cycle!Release
<1>4. ASSUME NEW m \in Receipts, Cycle!Handle(m) PROVE CycleTypes'
  <2>1. used' \in [Tenants -> 0 .. Limit] /\ served' \in [Tenants -> Nat]
    BY <1>4 DEF Cycle!Handle, Cycle!Take, Cycle!HasTurn, Cycle!CycleAssumption
  <2> QED
    BY <1>4, <2>1 DEF Cycle!Handle
<1>5. CASE Cycle!Acknowledges \/ Cycle!Return \/ Cycle!EndHandling \/ Cycle!Drain
  BY <1>5 DEF Cycle!Acknowledges, Cycle!Return, Cycle!EndHandling, Cycle!Drain, Cycle!Release
<1>6. CASE Cycle!Schedule
  <2>1. hand \in Receipts
    BY <1>6 DEF Cycle!Schedule, Phases
  <2> QED
    BY <1>6, <2>1, RoomForOne DEF Cycle!Schedule
<1>7. CASE Cycle!DeferAll
  BY <1>7 DEF Cycle!DeferAll, Cycle!Release, Cycle!AllWaiting, Cycle!Waiting, Cycle!NoTurns, Cycle!CycleAssumption
<1>8. ASSUME NEW m \in Receipts, Cycle!Confirm(m) PROVE CycleTypes'
  BY <1>8, RoomForOne DEF Cycle!Confirm, Cycle!Release
<1>9. CASE UNCHANGED Cycle!vars
  BY <1>9 DEF Cycle!vars
<1> QED
  BY <1>1, <1>2, <1>3, <1>4, <1>5, <1>6, <1>7, <1>8, <1>9 DEF Cycle!Next, Cycle!Step, Cycle!Answers, Cycle!Confirms

LEMMA TurnsStep ==
    ASSUME Cycle!CycleAssumption, CycleInv, [Cycle!Next]_(Cycle!vars)
    PROVE  Turns'
<1> USE DEF Cycle!TypeOK, CycleTypes, CycleInv, Turns
<1>1. ASSUME NEW m \in Receipts, Cycle!DeferExcess(m) PROVE Turns'
  BY <1>1 DEF Cycle!DeferExcess, Cycle!HasTurn, Cycle!CycleAssumption
<1>2. ASSUME NEW m \in Receipts, Cycle!Handle(m) PROVE Turns'
  BY <1>2 DEF Cycle!Handle, Cycle!Take, Cycle!HasTurn, Cycle!CycleAssumption
<1>3. CASE Cycle!DeferAll
  BY <1>3 DEF Cycle!DeferAll
<1>4. CASE UNCHANGED <<used, served, deferred>>
  BY <1>4
<1>5. \/ \E m \in Receipts : Cycle!DeferExcess(m) \/ Cycle!Handle(m)
      \/ Cycle!DeferAll \/ UNCHANGED <<used, served, deferred>>
  BY DEF Cycle!Next, Cycle!Step, Cycle!Answers, Cycle!Confirms, Cycle!vars, Cycle!ReceiveAnswers,
         Cycle!ReceiveFails, Cycle!TakeBatch, Cycle!Skip, Cycle!LoseTrust, Cycle!Reappear,
         Cycle!Acknowledges, Cycle!Return, Cycle!EndHandling, Cycle!Drain, Cycle!Schedule, Cycle!Confirm
<1> QED
  BY <1>1, <1>2, <1>3, <1>4, <1>5

\* What leaves one hand passes into another, or is released.
LEMMA TrackedStep ==
    ASSUME Cycle!CycleAssumption, CycleInv, [Cycle!Next]_(Cycle!vars)
    PROVE  Tracked'
<1> USE DEF Cycle!TypeOK, CycleTypes, CycleInv, Tracked
<1>1. ASSUME NEW r \in Receives, Cycle!ReceiveAnswers(r) PROVE Tracked'
  BY <1>1 DEF Cycle!ReceiveAnswers
<1>2. ASSUME NEW r \in Receives, Cycle!ReceiveFails(r) PROVE Tracked'
  BY <1>2 DEF Cycle!ReceiveFails
<1>3. ASSUME NEW r \in Receives, Cycle!TakeBatch(r) PROVE Tracked'
  BY <1>3 DEF Cycle!TakeBatch
<1>4. ASSUME NEW m \in Receipts, Cycle!Skip(m) \/ Cycle!DeferExcess(m) PROVE Tracked'
  BY <1>4 DEF Cycle!Skip, Cycle!DeferExcess, Cycle!Release
<1>5. ASSUME NEW m \in Receipts, Cycle!Handle(m) PROVE Tracked'
  BY <1>5 DEF Cycle!Handle, Cycle!CycleAssumption
<1>6. CASE Cycle!Schedule \/ Cycle!Return
  BY <1>6 DEF Cycle!Schedule, Cycle!Return, Cycle!Release
<1>7. ASSUME NEW m \in Receipts, Cycle!Confirm(m) PROVE Tracked'
  BY <1>7 DEF Cycle!Confirm, Cycle!Release
<1>8. CASE Cycle!DeferAll
  BY <1>8 DEF Cycle!DeferAll, Cycle!Release, Cycle!AllWaiting, Cycle!Waiting, Phases
<1>9. CASE UNCHANGED <<owned, recv, batch, hand, pending, deferred>>
  BY <1>9
<1>10. \/ \E r \in Receives : Cycle!ReceiveAnswers(r) \/ Cycle!ReceiveFails(r) \/ Cycle!TakeBatch(r)
       \/ \E m \in Receipts : Cycle!Skip(m) \/ Cycle!DeferExcess(m) \/ Cycle!Handle(m) \/ Cycle!Confirm(m)
       \/ Cycle!Schedule \/ Cycle!Return \/ Cycle!DeferAll
       \/ UNCHANGED <<owned, recv, batch, hand, pending, deferred>>
  BY DEF Cycle!Next, Cycle!Step, Cycle!Answers, Cycle!Confirms, Cycle!vars, Cycle!LoseTrust,
         Cycle!Reappear, Cycle!Acknowledges, Cycle!EndHandling, Cycle!Drain
<1> QED
  BY <1>1, <1>2, <1>3, <1>4, <1>5, <1>6, <1>7, <1>8, <1>9, <1>10

LEMMA PhasesStep ==
    ASSUME Cycle!CycleAssumption, CycleInv, [Cycle!Next]_(Cycle!vars)
    PROVE  Phases'
<1> USE DEF Cycle!TypeOK, CycleTypes, CycleInv, Phases
<1>1. ASSUME NEW r \in Receives, Cycle!ReceiveAnswers(r) PROVE Phases'
  BY <1>1 DEF Cycle!ReceiveAnswers
<1>2. ASSUME NEW r \in Receives, Cycle!ReceiveFails(r) PROVE Phases'
  BY <1>2 DEF Cycle!ReceiveFails
<1>3. ASSUME NEW r \in Receives, Cycle!TakeBatch(r) PROVE Phases'
  BY <1>3 DEF Cycle!TakeBatch
<1>4. ASSUME NEW m \in Receipts, Cycle!Skip(m) \/ Cycle!DeferExcess(m) \/ Cycle!Handle(m) PROVE Phases'
  BY <1>4 DEF Cycle!Skip, Cycle!DeferExcess, Cycle!Handle, Cycle!Release, Cycle!CycleAssumption
<1>5. CASE Cycle!Acknowledges \/ Cycle!Schedule \/ Cycle!Return
  BY <1>5 DEF Cycle!Acknowledges, Cycle!Schedule, Cycle!Return, Cycle!Release
<1>6. CASE Cycle!EndHandling \/ Cycle!Drain
  BY <1>6 DEF Cycle!EndHandling, Cycle!Drain
<1>7. ASSUME NEW m \in Receipts, Cycle!Confirm(m) PROVE Phases'
  BY <1>7 DEF Cycle!Confirm, Cycle!Release
<1>8. CASE Cycle!DeferAll
  BY <1>8 DEF Cycle!DeferAll, Cycle!Release, Cycle!AllWaiting, Cycle!Waiting
<1>9. ASSUME NEW m \in Receipts, Cycle!LoseTrust(m) \/ Cycle!Reappear(m) PROVE Phases'
  BY <1>9 DEF Cycle!LoseTrust, Cycle!Reappear
<1>10. CASE UNCHANGED Cycle!vars
  BY <1>10 DEF Cycle!vars
<1> QED
  BY <1>1, <1>2, <1>3, <1>4, <1>5, <1>6, <1>7, <1>8, <1>9, <1>10
     DEF Cycle!Next, Cycle!Step, Cycle!Answers, Cycle!Confirms

LEMMA CycleStep ==
    ASSUME Cycle!CycleAssumption, CycleInv, [Cycle!Next]_(Cycle!vars)
    PROVE  CycleInv'
BY CycleTypesStep, TurnsStep, TrackedStep, PhasesStep DEF CycleInv

LEMMA CyclePromises == ASSUME Cycle!CycleAssumption, CycleInv PROVE TurnsAndReleases
<1>1. Cycle!FairShares
  BY DEF Cycle!FairShares, CycleInv, Turns, CycleTypes, Cycle!TypeOK, Cycle!CycleAssumption
<1>2. Cycle!NothingLeaks
  BY DEF Cycle!NothingLeaks, CycleInv, CycleTypes, Cycle!TypeOK, Tracked, Phases, Cycle!CycleAssumption
<1> QED
  BY <1>1, <1>2 DEF TurnsAndReleases
-----------------------------------------------------------------------------
(* The sampler of the backlog.                                             *)

\* A reading that has not missed its deadline counted within it.
Readings ==
    \A s \in Sources : sample[s].at = "reading" =>
        /\ now <= sample[s].due /\ sample[s].due <= now + Timeout
        /\ sample[s].counted # None =>
             sample[s].counted <= now /\ sample[s].due <= sample[s].counted + Timeout

SamplerInv == Sampler!TypeOK /\ Readings /\ TruthfulSample

LEMMA SamplerStep ==
    ASSUME Sampler!SamplerAssumption, SamplerInv, [Sampler!Next]_(Sampler!vars)
    PROVE  SamplerInv'
<1> USE DEF Sampler!SamplerAssumption, SamplerInv, Sampler!TypeOK, Sampler!Time, Readings, TruthfulSample,
            Sampler!TruthfulSample, Sampler!Rest, Sampler!Unset, Sampler!None, None
<1>1. ASSUME NEW s \in Sources, Sampler!StartSample(s) \/ Sampler!Count(s) PROVE SamplerInv'
  BY <1>1 DEF Sampler!StartSample, Sampler!Count
<1>2. ASSUME NEW s \in Sources, Sampler!RecordSample(s) PROVE SamplerInv'
  BY <1>2 DEF Sampler!RecordSample
<1>3. ASSUME NEW s \in Sources, Sampler!FailSample(s) \/ Sampler!MissDeadline(s) PROVE SamplerInv'
  <2>1. /\ gauge' \in [Sources -> [counted : Sampler!Time \cup {None}, stamp : Sampler!Time \cup {None},
                                  success : BOOLEAN]]
        /\ \A z \in Sources : gauge'[z].success => gauge'[z] = gauge[z]
    <3>1. gauge' = [gauge EXCEPT ![s].success = FALSE]
      BY <1>3 DEF Sampler!FailSample, Sampler!MissDeadline, Sampler!Failed
    <3>2. gauge \in [Sources -> [counted : Sampler!Time \cup {None}, stamp : Sampler!Time \cup {None},
                                success : BOOLEAN]]
      OBVIOUS
    <3>3. ASSUME NEW z \in Sources
          PROVE  gauge'[z] = IF z = s THEN [gauge[z] EXCEPT !.success = FALSE] ELSE gauge[z]
      BY <3>1, <3>2, Zenon
    <3> QED
      BY <3>1, <3>2, <3>3
  <2>2. TruthfulSample'
    BY <2>1
  <2>3. Readings'
    BY <1>3 DEF Sampler!FailSample, Sampler!MissDeadline
  <2>4. /\ UNCHANGED <<now, stopped>>
        /\ sample' \in [Sources -> [at : {"waiting", "reading", "late", "off"},
                                   due : (0 .. SamplerTime + Timeout) \cup {None},
                                   counted : Sampler!Time \cup {None}]]
    BY <1>3 DEF Sampler!FailSample, Sampler!MissDeadline
  <2> QED
    BY <2>1, <2>2, <2>3, <2>4
<1>4. ASSUME NEW s \in Sources, Sampler!SettleLate(s) \/ Sampler!SettleStopped(s) PROVE SamplerInv'
  BY <1>4 DEF Sampler!SettleLate, Sampler!SettleStopped
<1>5. CASE Sampler!StopSampler
  BY <1>5 DEF Sampler!StopSampler
<1>6. CASE Sampler!RestartSampler
  BY <1>6 DEF Sampler!RestartSampler
<1>7. CASE Sampler!Tick
  BY <1>7 DEF Sampler!Tick
<1>8. CASE UNCHANGED Sampler!vars
  BY <1>8 DEF Sampler!vars
<1> QED
  BY <1>1, <1>2, <1>3, <1>4, <1>5, <1>6, <1>7, <1>8 DEF Sampler!Next

-----------------------------------------------------------------------------
(* The monitoring handler.                                                 *)

\* A finite set of integers has an extreme: the greatest value of a function on it.
LEMMA GreatestExists ==
    ASSUME NEW S, IsFiniteSet(S), S # {}, NEW f, \A x \in S : f[x] \in Int
    PROVE  \E x \in S : \A y \in S : f[y] <= f[x]
<1> DEFINE Greatest(U) == \E x \in U : \A y \in U : f[y] <= f[x]
           Without == {U \in SUBSET S : U # {} /\ ~Greatest(U)}
<1> SUFFICES ASSUME Without # {} PROVE FALSE
  OBVIOUS
<1>1. Without \subseteq FiniteSubsetsOf(S)
  BY FS_FiniteSubsetsOfFinite
<1>2. PICK U \in Without : \A V \in Without : <<V, U>> \notin StrictSubsetOrdering(S)
  <2> HIDE DEF Without
  <2> QED
    BY <1>1, FS_StrictSubsetOrderingWellFounded, WFMin
<1>3. PICK x \in U : TRUE
  OBVIOUS
<1>4. U \ {x} \notin Without
  BY <1>2, <1>3 DEF StrictSubsetOrdering
<1>5. CASE U \ {x} = {}
  <2>1. \A y \in U : y = x
    BY <1>5
  <2> QED
    BY <1>3, <2>1
<1>6. CASE U \ {x} # {}
  <2>1. PICK z \in U \ {x} : \A y \in U \ {x} : f[y] <= f[z]
    BY <1>4, <1>6
  <2>2. f[x] \in Int /\ f[z] \in Int /\ \A y \in U : f[y] \in Int
    BY <1>3, <2>1
  <2>3. CASE f[x] <= f[z]
    BY <2>1, <2>3
  <2>4. CASE ~(f[x] <= f[z])
    <3>1. \A y \in U : f[y] <= f[x]
      BY <2>1, <2>2, <2>4
    <3> QED
      BY <1>3, <3>1
  <2> QED
    BY <2>3, <2>4
<1> QED
  BY <1>5, <1>6

LEMMA Extremes ==
    ASSUME NEW S, IsFiniteSet(S), S # {}, S \subseteq Int
    PROVE  /\ Monitor!MaxOf(S) \in S /\ \A y \in S : Monitor!MaxOf(S) >= y
           /\ Monitor!MinOf(S) \in S /\ \A y \in S : Monitor!MinOf(S) <= y
<1>1. \E x \in S : \A y \in S : x >= y
  <2> DEFINE f == [x \in S |-> x]
  <2>1. \E x \in S : \A y \in S : f[y] <= f[x]
    <3>1. \A x \in S : f[x] \in Int
      OBVIOUS
    <3> HIDE DEF f
    <3> QED
      BY <3>1, GreatestExists
  <2> QED
    BY <2>1
<1>2. \E x \in S : \A y \in S : x <= y
  <2> DEFINE f == [x \in S |-> -x]
  <2>1. \E x \in S : \A y \in S : f[y] <= f[x]
    <3>1. \A x \in S : f[x] \in Int
      OBVIOUS
    <3> HIDE DEF f
    <3> QED
      BY <3>1, GreatestExists
  <2>2. PICK x \in S : \A y \in S : f[y] <= f[x]
    BY <2>1
  <2>3. \A y \in S : x <= y
    BY <2>2
  <2> QED
    BY <2>3
<1>3. Monitor!MaxOf(S) \in S /\ \A y \in S : Monitor!MaxOf(S) >= y
  BY <1>1 DEF Monitor!MaxOf
<1>4. Monitor!MinOf(S) \in S /\ \A y \in S : Monitor!MinOf(S) <= y
  BY <1>2 DEF Monitor!MinOf
<1> QED
  BY <1>3, <1>4
\* A report of a snapshot, or one that is kept, calls a depth ready only while its
\* sample is recent enough.
FlightsFit ==
    \A r \in Ranges : Monitor!Flying(r) =>
        /\ flight[r].checked <= now /\ now <= flight[r].checked + SnapshotTime
        /\ \A s \in Watched : flight[r].report[s].state = "ready" =>
             LET sampled == flight[r].report[s].sampled
             IN /\ sampled \in Nat /\ sampled <= flight[r].checked
                /\ flight[r].checked < sampled + SampleStale
                /\ flight[r].fresh # None /\ flight[r].fresh <= sampled + SampleStale

CacheFits ==
    \A r \in Ranges, s \in Watched : cache[r].report[s].state = "ready" =>
        LET sampled == cache[r].report[s].sampled
        IN /\ sampled \in Nat /\ sampled <= now
           /\ cache[r].expires <= sampled + SampleStale

ScrapeFits ==
    scraped.at <= now /\ \A s \in Watched : scraped.gauge[s].stamp <= now

MonitorInv ==
    /\ Monitor!TypeOK /\ ScrapeFits /\ FlightsFit /\ CacheFits
    /\ oldest <= now
    /\ Monitor!ObservedIsRecent /\ Monitor!NobodyForgotten

\* A subset of an interval is finite.
LEMMA WithinInterval == ASSUME NEW a \in Int, NEW b \in Int, NEW S \in SUBSET (a .. b) PROVE IsFiniteSet(S)
BY FS_Interval, FS_Subset

LEMMA PairFinite == ASSUME NEW a, NEW b PROVE IsFiniteSet({a, b})
<1>1. IsFiniteSet({a}) /\ IsFiniteSet({b})
  BY FS_Singleton
<1>2. IsFiniteSet({a} \cup {b})
  BY <1>1, FS_Union
<1>3. {a} \cup {b} = {a, b}
  OBVIOUS
<1> QED
  BY <1>2, <1>3

\* Every moment in Boundaries is ahead and within the longer limit.
LEMMA BoundariesFinite ==
    ASSUME Monitor!MonitorAssumption, Monitor!TypeOK, ScrapeFits
    PROVE  /\ Monitor!Boundaries \subseteq now + 1 .. now + ScrapeStale + SampleStale
           /\ IsFiniteSet(Monitor!Boundaries)
<1>1. Monitor!Boundaries \subseteq now + 1 .. now + ScrapeStale + SampleStale
  <2> SUFFICES ASSUME NEW t \in Monitor!Boundaries PROVE t \in now + 1 .. now + ScrapeStale + SampleStale
    OBVIOUS
  <2> USE DEF Monitor!MonitorAssumption, Monitor!TypeOK, Monitor!Scrapes, Monitor!Gauges, Monitor!Time,
              Monitor!None, ScrapeFits
  <2>1. t > now /\ \/ scraped.at # Monitor!None /\ t = scraped.at + ScrapeStale
                   \/ \E s \in Watched : /\ scraped.gauge[s].stamp # Monitor!None
                                         /\ t = scraped.gauge[s].stamp + SampleStale
    BY DEF Monitor!Boundaries
  <2>2. CASE scraped.at # Monitor!None /\ t = scraped.at + ScrapeStale
    BY <2>1, <2>2
  <2>3. ASSUME NEW s \in Watched, scraped.gauge[s].stamp # Monitor!None,
               t = scraped.gauge[s].stamp + SampleStale
        PROVE  t \in now + 1 .. now + ScrapeStale + SampleStale
    BY <2>1, <2>3
  <2> QED
    BY <2>1, <2>2, <2>3
<1>2. now + 1 \in Int /\ now + ScrapeStale + SampleStale \in Int
  BY DEF Monitor!MonitorAssumption, Monitor!TypeOK, Monitor!Time
<1> QED
  BY <1>1, <1>2, WithinInterval

\* What a snapshot taken now says is recent, and the first boundary is not later
\* than the moment any of its samples turns stale.
LEMMA SnapshotFits ==
    ASSUME Monitor!MonitorAssumption, Monitor!TypeOK, ScrapeFits
    PROVE  /\ Monitor!Snapshot.checked = now
           /\ Monitor!Snapshot.report \in Monitor!Reports
           /\ Monitor!Snapshot.fresh \in (0 .. MonitorTime + ScrapeStale + SampleStale) \cup {None}
           /\ Monitor!Snapshot \in [checked : Monitor!Time \cup {Monitor!None}, report : Monitor!Reports,
                 fresh : (0 .. MonitorTime + ScrapeStale + SampleStale) \cup {Monitor!None}]
           /\ \A s \in Watched : Monitor!Snapshot.report[s].state = "ready" =>
                LET sampled == Monitor!Snapshot.report[s].sampled
                IN /\ sampled \in Nat /\ sampled <= now /\ now < sampled + SampleStale
                   /\ Monitor!Snapshot.fresh # None /\ Monitor!Snapshot.fresh <= sampled + SampleStale
<1> USE DEF Monitor!None, None
<1> DEFINE Ahead == Monitor!Boundaries
           fresh == IF Ahead = {} THEN Monitor!None ELSE Monitor!MinOf(Ahead)
           report == [s \in Watched |-> Monitor!Described(s, Monitor!BacklogState(s))]
<1>1. Monitor!Snapshot = [checked |-> now, report |-> report, fresh |-> fresh]
  BY DEF Monitor!Snapshot
<1>2. now \in 0 .. MonitorTime /\ ScrapeStale \in Nat /\ SampleStale \in Nat /\ MonitorTime \in Nat
  BY DEF Monitor!MonitorAssumption, Monitor!TypeOK, Monitor!Time
<1>3. Ahead \subseteq Int /\ Ahead \subseteq now + 1 .. now + ScrapeStale + SampleStale /\ IsFiniteSet(Ahead)
  BY <1>2, BoundariesFinite
<1> HIDE DEF Ahead
<1>4. Ahead # {} => fresh \in Ahead /\ \A t \in Ahead : fresh <= t
  BY <1>3, Extremes
<1>5. fresh \in (0 .. MonitorTime + ScrapeStale + SampleStale) \cup {None}
  <2>1. CASE Ahead = {}
    BY <2>1
  <2>2. CASE Ahead # {}
    <3>1. fresh \in now + 1 .. now + ScrapeStale + SampleStale
      BY <1>3, <1>4, <2>2
    <3> HIDE DEF fresh
    <3> QED
      BY <1>2, <3>1
  <2> QED
    BY <2>1, <2>2
<1>6. ASSUME NEW s \in Watched
      PROVE  report[s] \in [state : Monitor!States, sampled : Monitor!Time \cup {Monitor!None}]
  BY <1>6 DEF Monitor!Described, Monitor!BacklogState, Monitor!States, Monitor!TypeOK, Monitor!Scrapes,
              Monitor!Gauges
<1>7. ASSUME NEW s \in Watched, report[s].state = "ready"
      PROVE  /\ report[s].sampled \in Nat /\ report[s].sampled <= now
             /\ now < report[s].sampled + SampleStale /\ report[s].sampled + SampleStale \in Ahead
  <2> DEFINE stamp == scraped.gauge[s].stamp
  <2>1. stamp # Monitor!None /\ now - stamp < SampleStale /\ report[s].sampled = stamp
    BY <1>7 DEF Monitor!Described, Monitor!BacklogState
  <2>2. stamp \in Nat /\ stamp <= now
    BY <2>1 DEF Monitor!TypeOK, Monitor!Scrapes, Monitor!Gauges, Monitor!Time, ScrapeFits
  <2>3. stamp + SampleStale > now
    BY <1>2, <2>1, <2>2
  <2>4. stamp + SampleStale \in Ahead
    BY <2>1, <2>3 DEF Ahead, Monitor!Boundaries
  <2> QED
    BY <2>1, <2>2, <2>3, <2>4
<1>8. report \in Monitor!Reports
  BY <1>6 DEF Monitor!Reports
<1> HIDE DEF fresh, report
<1>9. ASSUME NEW s \in Watched, report[s].state = "ready"
      PROVE  fresh # None /\ fresh <= report[s].sampled + SampleStale
  BY <1>3, <1>4, <1>7, <1>9, <1>2
<1> QED
  BY <1>1, <1>2, <1>5, <1>7, <1>8, <1>9 DEF Monitor!Time
\* An answer that is recent enough keeps the greatest age so.
LEMMA AnswerFits ==
    ASSUME Monitor!MonitorAssumption, Monitor!TypeOK, oldest <= now,
           NEW P, NEW report, NEW b \in Nat, oldest < b, Monitor!Answer(P, report),
           \A s \in Watched : report[s].state = "ready" =>
             report[s].sampled \in Nat /\ report[s].sampled <= now /\ now < report[s].sampled + b
    PROVE  oldest' \in 0 .. now /\ oldest' < b
<1> DEFINE ages == {now - report[s].sampled : s \in {x \in Watched : report[x].state = "ready"}}
           S == {oldest} \cup (IF P = {} THEN {} ELSE ages)
<1>1. now \in Nat /\ oldest \in 0 .. now
  BY DEF Monitor!TypeOK, Monitor!Time, Monitor!MonitorAssumption
<1>2. \A x \in S : x \in 0 .. now /\ x < b
  BY <1>1
<1>3. oldest' = Monitor!MaxOf(S)
  BY DEF Monitor!Answer
<1>4. S # {}
  OBVIOUS
<1> HIDE DEF S
<1>5. S \subseteq Int /\ S \in SUBSET (0 .. now)
  BY <1>2
<1>6. IsFiniteSet(S)
  <2>1. 0 \in Int /\ now \in Int
    BY <1>1
  <2> QED
    BY <1>5, <2>1, WithinInterval
<1> QED
  BY <1>2, <1>3, <1>4, <1>5, <1>6, Extremes

\* A page that is answered is idle, any other waits on as before.
LEMMA AnswerPages ==
    ASSUME Monitor!TypeOK, NEW P, NEW report, Monitor!Answer(P, report)
    PROVE  /\ page' \in [Pages -> [at : {"idle", "session", "waiting"}, range : Ranges]]
           /\ \A p \in Pages : page'[p].at = "waiting" => p \notin P /\ page'[p] = page[p]
BY DEF Monitor!TypeOK, Monitor!Answer

\* A report is kept no longer than what it says is recent.
LEMMA ExpiresFits ==
    ASSUME Monitor!MonitorAssumption, now \in 0 .. MonitorTime, NEW f, f.fresh \in Nat \cup {None}
    PROVE  /\ Monitor!Expires(f) \in 0 .. MonitorTime + CacheLife
           /\ f.fresh # None => Monitor!Expires(f) <= f.fresh
<1> DEFINE S == {now + CacheLife} \cup ({f.fresh} \ {Monitor!None})
<1>1. S \subseteq Nat /\ S # {} /\ now + CacheLife \in S /\ (f.fresh # None => f.fresh \in S)
  BY DEF Monitor!MonitorAssumption, None, Monitor!None
<1>2. IsFiniteSet(S)
  <2>1. S \in SUBSET {now + CacheLife, f.fresh}
    OBVIOUS
  <2> QED
    BY <2>1, PairFinite, FS_Subset
<1>3. Monitor!Expires(f) = Monitor!MinOf(S)
  BY DEF Monitor!Expires
<1> HIDE DEF S
<1>4. S \subseteq Int
  BY <1>1
<1>5. Monitor!MinOf(S) \in S /\ \A y \in S : Monitor!MinOf(S) <= y
  BY <1>1, <1>2, <1>4, Extremes
<1>6. Monitor!Expires(f) \in Nat /\ Monitor!Expires(f) <= now + CacheLife
  BY <1>1, <1>3, <1>5
<1> QED
  BY <1>1, <1>3, <1>5, <1>6 DEF Monitor!MonitorAssumption

\* The cache takes the entry, drops some and never grows beyond its limit.
LEMMA KeepFits ==
    ASSUME Monitor!MonitorAssumption, Monitor!TypeOK, NEW r \in Ranges, NEW entry, Monitor!Keep(r, entry)
    PROVE  /\ \E f \in [Ranges -> {entry, Monitor!NoEntry} \cup {cache[q] : q \in Ranges}] : cache' = f
           /\ \A q \in Ranges : cache'[q] \in {entry, cache[q], Monitor!NoEntry}
           /\ Monitor!Cardinality({q \in Ranges : cache'[q] # Monitor!NoEntry}) <= MaxCached
<1> DEFINE K == {q \in Ranges : cache[q] # Monitor!NoEntry}
           L == {q \in Ranges : cache'[q] # Monitor!NoEntry}
<1>1. \A S : Monitor!Cardinality(S) = Cardinality(S)
  BY DEF Monitor!Cardinality, Cardinality, Monitor!IsFiniteSet, IsFiniteSet
<1>2. IsFiniteSet(Ranges) /\ MaxCached \in Nat
  BY DEF Monitor!MonitorAssumption, Monitor!IsFiniteSet, IsFiniteSet
<1>3. IsFiniteSet(K) /\ IsFiniteSet(L)
  BY <1>2, FS_Subset
<1>4. Cardinality(K) \in Nat /\ Cardinality(K) <= MaxCached
  <2>1. Monitor!Cardinality(K) <= MaxCached
    BY DEF Monitor!TypeOK
  <2> QED
    BY <1>1, <1>3, <2>1, FS_CardinalityType
<1>5. CASE Cardinality(K) < MaxCached /\ cache' = [cache EXCEPT ![r] = entry]
  <2>1. L \subseteq K \cup {r} /\ \A q \in Ranges : cache'[q] = IF q = r THEN entry ELSE cache[q]
    BY <1>5 DEF Monitor!TypeOK
  <2>2. /\ IsFiniteSet(K \cup {r})
        /\ \/ Cardinality(K \cup {r}) = Cardinality(K)
           \/ Cardinality(K \cup {r}) = Cardinality(K) + 1
    BY <1>3, FS_AddElement
  <2>3. Cardinality(L) <= Cardinality(K \cup {r}) /\ Cardinality(L) \in Nat /\ Cardinality(K \cup {r}) \in Nat
    BY <1>3, <2>1, <2>2, FS_Subset, FS_CardinalityType
  <2>4. Cardinality(L) <= MaxCached
    BY <1>2, <1>4, <1>5, <2>2, <2>3
  <2>5. cache' \in [Ranges -> {entry, Monitor!NoEntry} \cup {cache[q] : q \in Ranges}]
    BY <1>5 DEF Monitor!TypeOK
  <2> QED
    BY <1>1, <2>1, <2>4, <2>5
<1>6. ASSUME NEW dropped \in (SUBSET K) \ {{}},
             cache' = [q \in Ranges |-> IF q = r THEN entry
                                        ELSE IF q \in dropped THEN Monitor!NoEntry ELSE cache[q]]
      PROVE  /\ Cardinality(L) <= MaxCached
             /\ cache' \in [Ranges -> {entry, Monitor!NoEntry} \cup {cache[q] : q \in Ranges}]
             /\ \A q \in Ranges : cache'[q] \in {entry, cache[q], Monitor!NoEntry}
  <2>1. PICK d \in dropped : d \in K
    BY <1>6
  <2>2. L \subseteq (K \ {d}) \cup {r}
    BY <1>6, <2>1
  <2>3. IsFiniteSet(K \ {d}) /\ Cardinality(K \ {d}) = Cardinality(K) - 1
    BY <1>3, <2>1, FS_RemoveElement
  <2>4. /\ IsFiniteSet((K \ {d}) \cup {r})
        /\ \/ Cardinality((K \ {d}) \cup {r}) = Cardinality(K \ {d})
           \/ Cardinality((K \ {d}) \cup {r}) = Cardinality(K \ {d}) + 1
    BY <2>3, FS_AddElement
  <2>5. Cardinality(L) <= Cardinality((K \ {d}) \cup {r}) /\ Cardinality(L) \in Nat
    BY <1>3, <2>2, <2>4, FS_Subset, FS_CardinalityType
  <2>6. Cardinality(L) <= MaxCached
    BY <1>2, <1>4, <2>3, <2>4, <2>5
  <2> QED
    BY <1>6, <2>6
<1>7. \/ Cardinality(K) < MaxCached /\ cache' = [cache EXCEPT ![r] = entry]
      \/ \E dropped \in (SUBSET K) \ {{}} :
           cache' = [q \in Ranges |-> IF q = r THEN entry
                                      ELSE IF q \in dropped THEN Monitor!NoEntry ELSE cache[q]]
  <2>1. \/ ~(Monitor!Cardinality(K) >= MaxCached) /\ cache' = [cache EXCEPT ![r] = entry]
        \/ \E dropped \in (SUBSET K) \ {{}} :
             cache' = [q \in Ranges |-> IF q = r THEN entry
                                        ELSE IF q \in dropped THEN Monitor!NoEntry ELSE cache[q]]
    BY DEF Monitor!Keep
  <2> QED
    BY <1>1, <1>2, <1>4, <2>1
<1> QED
  BY <1>1, <1>5, <1>6, <1>7
\* The parts of the invariant that speak of reports outlive a step that changes neither
\* them nor the clock.
LEMMA MonitorScrapes ==
    ASSUME Monitor!MonitorAssumption, MonitorInv, Monitor!Scrape PROVE MonitorInv'
<1>1. scraped' \in Monitor!Scrapes /\ ScrapeFits'
  <2> USE DEF Monitor!Scrapes, Monitor!Gauges, Monitor!Time, Monitor!None, ScrapeFits
  <2>0. now \in 0 .. MonitorTime /\ MonitorTime \in Nat /\ now' = now
    BY DEF Monitor!Scrape, MonitorInv, Monitor!TypeOK, Monitor!MonitorAssumption
  <2>1. ASSUME NEW g \in [Watched -> [stamp : (0 .. now) \cup {Monitor!None}, success : BOOLEAN]],
               scraped' = [at |-> now, up |-> TRUE, gauge |-> g]
        PROVE  scraped' \in Monitor!Scrapes /\ ScrapeFits'
    <3>1. \A s \in Watched : g[s].stamp \in (0 .. now) \cup {Monitor!None} /\ g[s].success \in BOOLEAN
      OBVIOUS
    <3>2. g \in [Watched -> Monitor!Gauges]
      BY <2>0
    <3> QED
      BY <2>0, <2>1, <3>1, <3>2
  <2>2. CASE scraped' = [Monitor!NoScrape EXCEPT !.at = now]
    <3>1. scraped' = [at |-> now, up |-> FALSE, gauge |-> [s \in Watched |-> Monitor!Unset]]
      BY <2>2 DEF Monitor!NoScrape
    <3>2. Monitor!Unset \in Monitor!Gauges /\ Monitor!Unset.stamp = Monitor!None
      BY DEF Monitor!Unset
    <3>3. scraped' \in Monitor!Scrapes
      BY <2>0, <3>1, <3>2
    <3>4. ScrapeFits'
      BY <2>0, <3>1, <3>2
    <3> QED
      BY <3>3, <3>4
  <2> QED
    BY <2>1, <2>2 DEF Monitor!Scrape
<1>2. UNCHANGED <<now, flight, cache, page, oldest>>
  BY DEF Monitor!Scrape
<1> QED
  BY <1>1, <1>2 DEF MonitorInv, Monitor!TypeOK, FlightsFit, CacheFits, Monitor!Flying,
                    Monitor!ObservedIsRecent, Monitor!NobodyForgotten

\* A request is answered from the cache, joins a snapshot, begins one, or is refused.
LEMMA MonitorLooksUp ==
    ASSUME Monitor!MonitorAssumption, MonitorInv, NEW p \in Pages, Monitor!LookUp(p) \/ Monitor!Refuse(p)
    PROVE  MonitorInv'
<1> DEFINE r == page[p].range
<1>0. /\ Monitor!TypeOK /\ now \in 0 .. MonitorTime /\ oldest \in 0 .. MonitorTime /\ oldest <= now
      /\ r \in Ranges /\ SampleStale \in Nat \ {0} /\ SnapshotTime \in Nat /\ MonitorTime \in Nat
      /\ oldest < SampleStale + SnapshotTime
      /\ UNCHANGED <<now, scraped, cache>>
  BY DEF MonitorInv, Monitor!TypeOK, Monitor!Time, Monitor!MonitorAssumption, Monitor!LookUp,
         Monitor!Refuse, Monitor!ObservedIsRecent
<1>1. ASSUME NEW report, Monitor!Answer({p}, report), UNCHANGED flight,
             \A s \in Watched : report[s].state = "ready" =>
               /\ report[s].sampled \in Nat /\ report[s].sampled <= now
               /\ now < report[s].sampled + (SampleStale + SnapshotTime)
      PROVE  MonitorInv'
  <2>0. SampleStale + SnapshotTime \in Nat
    BY <1>0
  <2>1. oldest' \in 0 .. now /\ oldest' < SampleStale + SnapshotTime
    BY <1>0, <1>1, <2>0, AnswerFits
  <2>2. /\ page' \in [Pages -> [at : {"idle", "session", "waiting"}, range : Ranges]]
        /\ \A q \in Pages : page'[q].at = "waiting" => page'[q] = page[q]
    BY <1>0, <1>1, AnswerPages
  <2>3. oldest' \in Monitor!Time /\ oldest' <= now
    BY <1>0, <2>1 DEF Monitor!Time
  <2> QED
    BY <1>0, <1>1, <2>1, <2>2, <2>3 DEF MonitorInv, Monitor!TypeOK, ScrapeFits, FlightsFit, CacheFits,
       Monitor!Flying, Monitor!ObservedIsRecent, Monitor!NobodyForgotten
<1>2. ASSUME Monitor!Answer({p}, Monitor!NoReport), UNCHANGED flight PROVE MonitorInv'
  <2>1. \A s \in Watched : Monitor!NoReport[s].state # "ready"
    BY DEF Monitor!NoReport
  <2> QED
    BY <1>1, <1>2, <2>1
<1>3. ASSUME cache[r].expires > now, Monitor!Answer({p}, cache[r].report), UNCHANGED flight PROVE MonitorInv'
  <2>1. cache[r].expires \in Nat
    BY <1>0 DEF Monitor!TypeOK, Monitor!MonitorAssumption
  <2>2. ASSUME NEW s \in Watched, cache[r].report[s].state = "ready"
        PROVE  /\ cache[r].report[s].sampled \in Nat /\ cache[r].report[s].sampled <= now
               /\ now < cache[r].report[s].sampled + (SampleStale + SnapshotTime)
    BY <1>0, <1>3, <2>1, <2>2 DEF MonitorInv, CacheFits
  <2> QED
    BY <1>1, <1>3, <2>2
<1>4. ASSUME Monitor!Flying(r), page' = [page EXCEPT ![p].at = "waiting"], UNCHANGED <<flight, oldest>>
      PROVE  MonitorInv'
  <2>1. /\ page' \in [Pages -> [at : {"idle", "session", "waiting"}, range : Ranges]]
        /\ \A q \in Pages : page'[q].range = page[q].range
        /\ \A q \in Pages : page'[q].at = "waiting" => page[q].at = "waiting" \/ q = p
    BY <1>0, <1>4 DEF Monitor!TypeOK
  <2> QED
    BY <1>0, <1>4, <2>1 DEF MonitorInv, Monitor!TypeOK, ScrapeFits, FlightsFit, CacheFits,
       Monitor!Flying, Monitor!ObservedIsRecent, Monitor!NobodyForgotten
<1>5. ASSUME flight' = [flight EXCEPT ![r] = Monitor!Snapshot],
             page' = [page EXCEPT ![p].at = "waiting"], UNCHANGED oldest
      PROVE  MonitorInv'
  <2>1. /\ page' \in [Pages -> [at : {"idle", "session", "waiting"}, range : Ranges]]
        /\ \A q \in Pages : page'[q].range = page[q].range
        /\ \A q \in Pages : page'[q].at = "waiting" => page[q].at = "waiting" \/ q = p
    BY <1>0, <1>5 DEF Monitor!TypeOK
  <2> DEFINE snap == Monitor!Snapshot
  <2>2. /\ snap.checked = now
        /\ snap \in [checked : Monitor!Time \cup {Monitor!None}, report : Monitor!Reports,
                     fresh : (0 .. MonitorTime + ScrapeStale + SampleStale) \cup {Monitor!None}]
        /\ \A s \in Watched : snap.report[s].state = "ready" =>
             LET sampled == snap.report[s].sampled
             IN /\ sampled \in Nat /\ sampled <= now /\ now < sampled + SampleStale
                /\ snap.fresh # None /\ snap.fresh <= sampled + SampleStale
    BY <1>0, SnapshotFits DEF MonitorInv
  <2> HIDE DEF snap
  <2>3. \A q \in Ranges : flight'[q] = IF q = r THEN snap ELSE flight[q]
    BY <1>0, <1>5 DEF Monitor!TypeOK, snap
  <2>4. flight' \in [Ranges -> [checked : Monitor!Time \cup {Monitor!None}, report : Monitor!Reports,
                                fresh : (0 .. MonitorTime + ScrapeStale + SampleStale) \cup {Monitor!None}]]
    BY <1>0, <1>5, <2>2 DEF Monitor!TypeOK, snap
  <2>5. Monitor!TypeOK'
    BY <1>0, <1>5, <2>1, <2>4 DEF Monitor!TypeOK
  <2>6. FlightsFit'
    BY <1>0, <2>2, <2>3 DEF FlightsFit, MonitorInv, Monitor!Flying
  <2>7. Monitor!NobodyForgotten'
    BY <1>0, <2>1, <2>2, <2>3 DEF Monitor!NobodyForgotten, MonitorInv, Monitor!Flying, Monitor!None
  <2> QED
    BY <1>0, <1>5, <2>5, <2>6, <2>7 DEF MonitorInv, ScrapeFits, CacheFits, Monitor!ObservedIsRecent
<1> QED
  BY <1>2, <1>3, <1>4, <1>5 DEF Monitor!LookUp, Monitor!Refuse

\* A snapshot that ends leaves nobody waiting for it.
LEMMA SnapshotEnds ==
    ASSUME MonitorInv, NEW r \in Ranges, NEW report, Monitor!Answer(Monitor!Waiting(r), report),
           flight' = [flight EXCEPT ![r] = Monitor!NoFlight], UNCHANGED <<now, scraped>>
    PROVE  /\ Monitor!NobodyForgotten' /\ FlightsFit' /\ ScrapeFits'
           /\ page' \in [Pages -> [at : {"idle", "session", "waiting"}, range : Ranges]]
           /\ flight' \in [Ranges -> [checked : Monitor!Time \cup {Monitor!None}, report : Monitor!Reports,
                                fresh : (0 .. MonitorTime + ScrapeStale + SampleStale) \cup {Monitor!None}]]
<1>1. /\ page' \in [Pages -> [at : {"idle", "session", "waiting"}, range : Ranges]]
      /\ \A p \in Pages : page'[p].at = "waiting" => p \notin Monitor!Waiting(r) /\ page'[p] = page[p]
  BY AnswerPages DEF MonitorInv
<1>2. \A q \in Ranges : flight'[q] = IF q = r THEN Monitor!NoFlight ELSE flight[q]
  BY DEF MonitorInv, Monitor!TypeOK
<1>3. Monitor!NoFlight \in [checked : Monitor!Time \cup {Monitor!None}, report : Monitor!Reports,
                            fresh : (0 .. MonitorTime + ScrapeStale + SampleStale) \cup {Monitor!None}]
  BY DEF Monitor!NoFlight, Monitor!NoReport, Monitor!Reports, Monitor!States
<1>4. flight' \in [Ranges -> [checked : Monitor!Time \cup {Monitor!None}, report : Monitor!Reports,
                              fresh : (0 .. MonitorTime + ScrapeStale + SampleStale) \cup {Monitor!None}]]
  BY <1>3 DEF MonitorInv, Monitor!TypeOK
<1>5. Monitor!NobodyForgotten'
  <2> SUFFICES ASSUME NEW p \in Pages, page'[p].at = "waiting"
               PROVE  flight'[page'[p].range].checked # Monitor!None
    BY DEF Monitor!NobodyForgotten, Monitor!Flying
  <2>1. page'[p] = page[p] /\ page[p].range # r /\ page[p].range \in Ranges
    BY <1>1 DEF Monitor!Waiting, MonitorInv, Monitor!TypeOK
  <2> QED
    BY <1>2, <2>1 DEF MonitorInv, Monitor!NobodyForgotten, Monitor!Flying
<1>6. FlightsFit'
  BY <1>2 DEF MonitorInv, FlightsFit, Monitor!Flying, Monitor!NoFlight
<1> QED
  BY <1>1, <1>4, <1>5, <1>6 DEF MonitorInv, ScrapeFits
\* A snapshot that is answered is kept for as long as it is recent, and shown.
LEMMA MonitorReady ==
    ASSUME Monitor!MonitorAssumption, MonitorInv, NEW r \in Ranges, Monitor!SnapshotReady(r)
    PROVE  MonitorInv'
<1>0. /\ Monitor!TypeOK /\ now \in 0 .. MonitorTime /\ oldest \in 0 .. MonitorTime /\ oldest <= now
      /\ SampleStale \in Nat \ {0} /\ SnapshotTime \in Nat /\ MonitorTime \in Nat /\ CacheLife \in Nat
      /\ oldest < SampleStale + SnapshotTime /\ SampleStale + SnapshotTime \in Nat
      /\ UNCHANGED <<now, scraped>>
  BY DEF MonitorInv, Monitor!TypeOK, Monitor!Time, Monitor!MonitorAssumption, Monitor!SnapshotReady,
         Monitor!ObservedIsRecent
<1>1. PICK failed \in SUBSET Watched :
        LET report == [s \in Watched |-> IF s \in failed THEN Monitor!NoReport[s] ELSE flight[r].report[s]]
        IN /\ Monitor!Keep(r, [expires |-> Monitor!Expires(flight[r]), report |-> report])
           /\ Monitor!Answer(Monitor!Waiting(r), report)
  BY DEF Monitor!SnapshotReady
<1> DEFINE report == [s \in Watched |-> IF s \in failed THEN Monitor!NoReport[s] ELSE flight[r].report[s]]
           entry == [expires |-> Monitor!Expires(flight[r]), report |-> report]
<1>2. Monitor!Keep(r, entry) /\ Monitor!Answer(Monitor!Waiting(r), report)
  BY <1>1
<1>3. /\ flight[r].fresh \in Nat \cup {None} /\ flight[r].report \in Monitor!Reports
      /\ flight[r].checked \in Nat /\ Monitor!Flying(r)
      /\ flight' = [flight EXCEPT ![r] = Monitor!NoFlight]
  BY <1>0 DEF Monitor!SnapshotReady, Monitor!Flying, Monitor!TypeOK, Monitor!Time, Monitor!None, None,
              Monitor!MonitorAssumption
<1>4. report \in Monitor!Reports
  BY <1>3 DEF Monitor!Reports, Monitor!NoReport, Monitor!States
<1>5. ASSUME NEW s \in Watched, report[s].state = "ready"
      PROVE  /\ report[s].sampled \in Nat /\ report[s].sampled <= now
             /\ now < report[s].sampled + (SampleStale + SnapshotTime)
             /\ entry.expires <= report[s].sampled + SampleStale
  <2>1. report[s] = flight[r].report[s]
    BY <1>5 DEF Monitor!NoReport
  <2> DEFINE sampled == flight[r].report[s].sampled
  <2>2. /\ flight[r].checked <= now /\ now <= flight[r].checked + SnapshotTime
        /\ sampled \in Nat /\ sampled <= flight[r].checked
        /\ flight[r].checked < sampled + SampleStale
        /\ flight[r].fresh # None /\ flight[r].fresh <= sampled + SampleStale
    BY <1>3, <1>5, <2>1 DEF MonitorInv, FlightsFit
  <2>3. Monitor!Expires(flight[r]) \in Nat /\ Monitor!Expires(flight[r]) <= flight[r].fresh
    BY <1>0, <1>3, <2>2, ExpiresFits
  <2>4. flight[r].fresh \in Nat
    BY <1>3, <2>2
  <2> HIDE DEF sampled
  <2>5. /\ sampled <= now /\ now < sampled + (SampleStale + SnapshotTime)
        /\ Monitor!Expires(flight[r]) <= sampled + SampleStale
    BY <1>0, <1>3, <2>2, <2>3, <2>4
  <2> QED
    BY <2>1, <2>2, <2>5 DEF sampled
<1>6. entry \in [expires : 0 .. MonitorTime + CacheLife, report : Monitor!Reports]
  BY <1>0, <1>3, <1>4, ExpiresFits
<1> HIDE DEF report, entry
<1>7. /\ \E f \in [Ranges -> {entry, Monitor!NoEntry} \cup {cache[q] : q \in Ranges}] : cache' = f
      /\ \A q \in Ranges : cache'[q] \in {entry, cache[q], Monitor!NoEntry}
      /\ Monitor!Cardinality({q \in Ranges : cache'[q] # Monitor!NoEntry}) <= MaxCached
  BY <1>0, <1>2, KeepFits
<1>8. cache' \in [Ranges -> [expires : 0 .. MonitorTime + CacheLife, report : Monitor!Reports]]
  <2>1. Monitor!NoEntry \in [expires : 0 .. MonitorTime + CacheLife, report : Monitor!Reports]
    BY <1>0 DEF Monitor!NoEntry, Monitor!NoReport, Monitor!Reports, Monitor!States
  <2>2. \A q \in Ranges : cache[q] \in [expires : 0 .. MonitorTime + CacheLife, report : Monitor!Reports]
    BY <1>0 DEF Monitor!TypeOK
  <2> QED
    BY <1>6, <1>7, <2>1, <2>2
<1>9. CacheFits'
  <2> SUFFICES ASSUME NEW q \in Ranges, NEW s \in Watched, cache'[q].report[s].state = "ready"
               PROVE  LET sampled == cache'[q].report[s].sampled
                      IN /\ sampled \in Nat /\ sampled <= now
                         /\ cache'[q].expires <= sampled + SampleStale
    BY <1>0 DEF CacheFits
  <2>1. CASE cache'[q] = entry
    BY <1>5, <2>1 DEF entry
  <2>2. CASE cache'[q] = cache[q]
    BY <2>2 DEF MonitorInv, CacheFits
  <2>3. CASE cache'[q] = Monitor!NoEntry
    BY <2>3 DEF Monitor!NoEntry, Monitor!NoReport
  <2> QED
    BY <1>7, <2>1, <2>2, <2>3
<1>10. oldest' \in 0 .. now /\ oldest' < SampleStale + SnapshotTime
  BY <1>0, <1>2, <1>5, AnswerFits
<1>11. /\ Monitor!NobodyForgotten' /\ FlightsFit' /\ ScrapeFits'
       /\ page' \in [Pages -> [at : {"idle", "session", "waiting"}, range : Ranges]]
       /\ flight' \in [Ranges -> [checked : Monitor!Time \cup {Monitor!None}, report : Monitor!Reports,
                                  fresh : (0 .. MonitorTime + ScrapeStale + SampleStale) \cup {Monitor!None}]]
  BY <1>0, <1>2, <1>3, SnapshotEnds
<1>12. oldest' \in Monitor!Time /\ oldest' <= now
  BY <1>0, <1>10 DEF Monitor!Time
<1> QED
  BY <1>0, <1>7, <1>8, <1>9, <1>10, <1>11, <1>12 DEF MonitorInv, Monitor!TypeOK, Monitor!ObservedIsRecent

LEMMA MonitorStep ==
    ASSUME Monitor!MonitorAssumption, MonitorInv, [Monitor!Next]_(Monitor!vars)
    PROVE  MonitorInv'
<1>1. CASE Monitor!Scrape
  BY <1>1, MonitorScrapes
<1>2. ASSUME NEW p \in Pages, Monitor!LookUp(p) \/ Monitor!Refuse(p) PROVE MonitorInv'
  BY <1>2, MonitorLooksUp
<1>3. ASSUME NEW p \in Pages, Monitor!Load(p) \/ Monitor!ChangeRange(p) PROVE MonitorInv'
  <2>1. /\ page' \in [Pages -> [at : {"idle", "session", "waiting"}, range : Ranges]]
        /\ \A q \in Pages : page'[q].at = "waiting" => page'[q] = page[q]
    BY <1>3 DEF Monitor!Load, Monitor!ChangeRange, MonitorInv, Monitor!TypeOK
  <2>2. UNCHANGED <<now, scraped, flight, cache, oldest>>
    BY <1>3 DEF Monitor!Load, Monitor!ChangeRange
  <2> QED
    BY <2>1, <2>2 DEF MonitorInv, Monitor!TypeOK, ScrapeFits, FlightsFit, CacheFits, Monitor!Flying,
                      Monitor!ObservedIsRecent, Monitor!NobodyForgotten
<1>4. ASSUME NEW r \in Ranges, Monitor!SnapshotReady(r) PROVE MonitorInv'
  BY <1>4, MonitorReady
<1>5. ASSUME NEW r \in Ranges, Monitor!SnapshotFails(r) PROVE MonitorInv'
  <2>1. /\ Monitor!Answer(Monitor!Waiting(r), Monitor!NoReport)
        /\ flight' = [flight EXCEPT ![r] = Monitor!NoFlight] /\ UNCHANGED <<now, scraped, cache>>
    BY <1>5 DEF Monitor!SnapshotFails
  <2>2. \A s \in Watched : Monitor!NoReport[s].state # "ready"
    BY DEF Monitor!NoReport
  <2>3. /\ Monitor!TypeOK /\ now \in 0 .. MonitorTime /\ MonitorTime \in Nat /\ oldest <= now
        /\ SampleStale + SnapshotTime \in Nat /\ oldest < SampleStale + SnapshotTime
    BY DEF MonitorInv, Monitor!TypeOK, Monitor!Time, Monitor!ObservedIsRecent, Monitor!MonitorAssumption
  <2>4. oldest' \in 0 .. now /\ oldest' < SampleStale + SnapshotTime
    BY <2>1, <2>2, <2>3, AnswerFits
  <2>5. /\ Monitor!NobodyForgotten' /\ FlightsFit' /\ ScrapeFits'
        /\ page' \in [Pages -> [at : {"idle", "session", "waiting"}, range : Ranges]]
        /\ flight' \in [Ranges -> [checked : Monitor!Time \cup {Monitor!None}, report : Monitor!Reports,
                                   fresh : (0 .. MonitorTime + ScrapeStale + SampleStale) \cup {Monitor!None}]]
    BY <2>1, SnapshotEnds
  <2>6. oldest' \in Monitor!Time /\ oldest' <= now
    BY <2>3, <2>4 DEF Monitor!Time
  <2> QED
    BY <2>1, <2>4, <2>5, <2>6 DEF MonitorInv, Monitor!TypeOK, CacheFits, Monitor!ObservedIsRecent
<1>6. CASE Monitor!Tick
  <2>1. /\ UNCHANGED <<scraped, flight, cache, page, oldest>> /\ now' = now + 1 /\ now' \in Monitor!Time
        /\ now \in Nat /\ \A r \in Ranges : Monitor!Flying(r) => now < flight[r].checked + SnapshotTime
    BY <1>6 DEF Monitor!Tick, MonitorInv, Monitor!TypeOK, Monitor!Time, Monitor!MonitorAssumption
  <2>2. ScrapeFits' /\ CacheFits' /\ oldest' <= now'
    BY <2>1 DEF MonitorInv, ScrapeFits, CacheFits, Monitor!TypeOK, Monitor!Scrapes, Monitor!Gauges,
                Monitor!Time, Monitor!None, Monitor!MonitorAssumption
  <2>3. FlightsFit'
    BY <2>1 DEF MonitorInv, FlightsFit, Monitor!TypeOK, Monitor!Time, Monitor!None, Monitor!Flying,
                Monitor!MonitorAssumption
  <2> QED
    BY <2>1, <2>2, <2>3 DEF MonitorInv, Monitor!TypeOK, Monitor!Flying, Monitor!ObservedIsRecent,
                            Monitor!NobodyForgotten
<1>7. CASE UNCHANGED Monitor!vars
  BY <1>7 DEF Monitor!vars, MonitorInv, Monitor!TypeOK, ScrapeFits, FlightsFit, CacheFits, Monitor!Flying,
              Monitor!ObservedIsRecent, Monitor!NobodyForgotten
<1> QED
  BY <1>1, <1>2, <1>3, <1>4, <1>5, <1>6, <1>7 DEF Monitor!Next
-----------------------------------------------------------------------------
(* All of them.  The subject of a behaviour keeps its own invariant; what   *)
(* rests keeps the part of it that does not depend on the clock.            *)

RuntimeInv ==
    /\ now \in Nat
    /\ IF subject = "guard" THEN TypeOK /\ GuardInv ELSE svc = [s \in Services |-> Down]
    /\ BucketInv /\ (subject = "bucket" => Bucket!TypeOK)
    /\ CycleInv
    /\ TruthfulSample /\ (subject = "sampler" => SamplerInv)
    /\ TruthfulReports /\ (subject = "monitor" => MonitorInv)

LEMMA RuntimeStarts == RuntimeInit => RuntimeInv
<1> SUFFICES ASSUME RuntimeInit PROVE RuntimeInv
  OBVIOUS
<1> USE RuntimeAssumption DEF RuntimeAssumption
<1>0. /\ Init /\ Bucket!Init /\ Cycle!Init /\ Sampler!Init /\ Monitor!Init
  BY DEF RuntimeInit
<1>1. TypeOK
  BY <1>0 DEF GuardAssumption, Init, TypeOK, Time, NoLease, Idle, Down, None
<1>2. GuardInv
  BY <1>0 DEF GuardAssumption, Init, GuardInv, GuardTypes, Moments, Timers, BeganBefore, BoundedBy, Latched,
              NoLease, Idle, Down, None
<1>3. BucketInv
  BY <1>0 DEF Bucket!Init, BucketInv, BucketTypes, Accounted, RefusalFits, Bucket!Quiet, Bucket!None,
              Bucket!BucketAssumption
<1>4. Bucket!TypeOK
  <2>1. Bucket!Full \in Nat /\ Bucket!LifeTime \in Nat /\ BucketTime \in Nat /\ MaxCalls \in Nat
    BY ProductNat, LifeFills DEF Bucket!Full, Bucket!BucketAssumption
  <2> QED
    BY <1>0, <2>1 DEF Bucket!Init, Bucket!TypeOK, Bucket!Quiet, Bucket!None
<1>5. CycleInv
  <2>1. CycleTypes
    <3>1. IsFiniteSet({}) /\ Cardinality({}) = 0
      BY FS_EmptySet
    <3>2. Cycle!Cardinality({}) = 0
      BY <3>1 DEF Cycle!Cardinality, Cardinality, Cycle!IsFiniteSet, IsFiniteSet
    <3> QED
      BY <1>0, <3>1, <3>2 DEF Cycle!Init, CycleTypes, Cycle!TypeOK, Cycle!AllWaiting, Cycle!Waiting,
                              Cycle!NoTurns, Cycle!CycleAssumption
  <2>2. Turns /\ Tracked /\ Phases
    BY <1>0 DEF Cycle!Init, Turns, Tracked, Phases, Cycle!AllWaiting, Cycle!Waiting, Cycle!NoTurns
  <2> QED
    BY <2>1, <2>2 DEF CycleInv
<1>6. SamplerInv
  <2>1. Sampler!TypeOK
    <3>1. /\ now = 0 /\ stopped = FALSE
          /\ sample = [s \in Sources |-> Sampler!Rest] /\ gauge = [s \in Sources |-> Sampler!Unset]
      BY <1>0 DEF Sampler!Init
    <3>2. now \in Sampler!Time
      BY <3>1 DEF Sampler!Time, Sampler!SamplerAssumption
    <3>3. stopped \in BOOLEAN
      BY <3>1, Zenon
    <3>4. Sampler!Rest \in [at : {"waiting", "reading", "late", "off"},
                            due : (0 .. SamplerTime + Timeout) \cup {Sampler!None},
                            counted : Sampler!Time \cup {Sampler!None}]
      BY DEF Sampler!Rest
    <3>5. Sampler!Unset \in [counted : Sampler!Time \cup {Sampler!None},
                             stamp : Sampler!Time \cup {Sampler!None}, success : BOOLEAN]
      BY DEF Sampler!Unset
    <3> QED
      BY <3>1, <3>2, <3>3, <3>4, <3>5 DEF Sampler!TypeOK
  <2>2. Readings /\ TruthfulSample
    BY <1>0 DEF Sampler!Init, Readings, TruthfulSample, Sampler!TruthfulSample, Sampler!Rest, Sampler!Unset
  <2> QED
    BY <2>1, <2>2 DEF SamplerInv
<1>7. MonitorInv
  <2> USE DEF Monitor!Init, Monitor!NoScrape, Monitor!Unset, Monitor!NoFlight, Monitor!NoEntry,
              Monitor!NoReport, Monitor!Time, Monitor!None, Monitor!MonitorAssumption
  <2>1. /\ scraped \in Monitor!Scrapes /\ ScrapeFits
    BY <1>0 DEF Monitor!Scrapes, Monitor!Gauges, ScrapeFits
  <2>2. Monitor!NoReport \in Monitor!Reports
    BY DEF Monitor!Reports, Monitor!States
  <2>3. /\ flight \in [Ranges -> [checked : Monitor!Time \cup {Monitor!None}, report : Monitor!Reports,
                                  fresh : (0 .. MonitorTime + ScrapeStale + SampleStale) \cup {Monitor!None}]]
        /\ FlightsFit
    BY <1>0, <2>2 DEF FlightsFit, Monitor!Flying
  <2>4. cache \in [Ranges -> [expires : 0 .. MonitorTime + CacheLife, report : Monitor!Reports]] /\ CacheFits
    BY <1>0, <2>2 DEF CacheFits
  <2>5. Monitor!Cardinality({r \in Ranges : cache[r] # Monitor!NoEntry}) <= MaxCached
    <3>1. {r \in Ranges : cache[r] # Monitor!NoEntry} = {}
      BY <1>0
    <3>2. IsFiniteSet({}) /\ Cardinality({}) = 0
      BY FS_EmptySet
    <3>3. Monitor!Cardinality({}) = 0
      BY <3>2 DEF Monitor!Cardinality, Cardinality, Monitor!IsFiniteSet, IsFiniteSet
    <3>4. Monitor!Cardinality({r \in Ranges : cache[r] # Monitor!NoEntry}) = 0
      BY <3>1, <3>3
    <3>5. MaxCached \in Nat
      OBVIOUS
    <3> QED
      BY <3>4, <3>5
  <2>6. page \in [Pages -> [at : {"idle", "session", "waiting"}, range : Ranges]] /\ Monitor!NobodyForgotten
    <3>1. Monitor!DefaultRange \in Ranges
      BY DEF Monitor!DefaultRange
    <3> QED
      BY <1>0, <3>1 DEF Monitor!NobodyForgotten
  <2>7. oldest \in Monitor!Time /\ oldest <= now /\ now \in Monitor!Time /\ Monitor!ObservedIsRecent
    BY <1>0 DEF Monitor!ObservedIsRecent
  <2> QED
    BY <2>1, <2>3, <2>4, <2>5, <2>6, <2>7 DEF MonitorInv, Monitor!TypeOK
<1> QED
  BY <1>0, <1>1, <1>2, <1>3, <1>4, <1>5, <1>6, <1>7
     DEF RuntimeInv, TruthfulReports, MonitorInv, SamplerInv, Init

\* Nothing sets the clock back.
LEMMA ClockForward ==
    ASSUME now \in Nat, RuntimeNext
    PROVE  now' \in Nat /\ now <= now'
<1>1. CASE GuardMoves
  BY <1>1 DEF GuardMoves, Next, EnforceStarts, EnforceRefusedAtOnce, EnforceRefuses, Refuse, EnforceGrants,
     EnforceHalfWritten, EnforceKilled, WrapperStarts, WrapperLooks, WrapperEnds, WrapperRefused, StopLatches,
     StopRemovesLease, StopSwitchesCaddy, StopUnits, StopDies, Reboot, Tick
<1>2. CASE BucketMoves
  BY <1>2 DEF BucketMoves, Bucket!Next, Bucket!Call, Bucket!Decide, Bucket!DecideLost, Bucket!CallFails,
     Bucket!Finish, Bucket!Tick
<1>3. CASE CycleMoves
  BY <1>3 DEF CycleMoves, CycleRests
<1>4. CASE SamplerMoves
  BY <1>4 DEF SamplerMoves, Sampler!Next, Sampler!StartSample, Sampler!Count, Sampler!RecordSample,
     Sampler!FailSample, Sampler!MissDeadline, Sampler!SettleLate, Sampler!SettleStopped, Sampler!StopSampler,
     Sampler!RestartSampler, Sampler!Tick
<1>5. CASE MonitorMoves
  <2>1. CASE Monitor!Scrape \/ Monitor!Tick
    BY <2>1 DEF Monitor!Scrape, Monitor!Tick
  <2>2. ASSUME NEW p \in Pages, Monitor!LookUp(p) \/ Monitor!Refuse(p) PROVE UNCHANGED now
    BY <2>2 DEF Monitor!LookUp, Monitor!Refuse
  <2>3. ASSUME NEW p \in Pages, Monitor!Load(p) \/ Monitor!ChangeRange(p) PROVE UNCHANGED now
    BY <2>3 DEF Monitor!Load, Monitor!ChangeRange
  <2>4. ASSUME NEW r \in Ranges, Monitor!SnapshotReady(r) \/ Monitor!SnapshotFails(r) PROVE UNCHANGED now
    BY <2>4 DEF Monitor!SnapshotReady, Monitor!SnapshotFails
  <2> QED
    BY <1>5, <2>1, <2>2, <2>3, <2>4 DEF MonitorMoves, Monitor!Next
<1> QED
  BY <1>1, <1>2, <1>3, <1>4, <1>5 DEF RuntimeNext

\* What rests keeps its part.
LEMMA Rests ==
    ASSUME RuntimeInv, now' \in Nat, now <= now', UNCHANGED subject
    PROVE  /\ subject # "guard" /\ UNCHANGED guardVars => svc' = [s \in Services |-> Down]
           /\ UNCHANGED bucketVars => BucketInv'
           /\ UNCHANGED cycleVars => CycleInv'
           /\ UNCHANGED samplerVars => TruthfulSample'
           /\ UNCHANGED monitorVars => TruthfulReports'
<1>1. subject # "guard" /\ UNCHANGED guardVars => svc' = [s \in Services |-> Down]
  BY DEF RuntimeInv, guardVars
<1>2. UNCHANGED bucketVars => BucketInv'
  BY BucketRests DEF RuntimeInv
<1>3. UNCHANGED cycleVars => CycleInv'
  BY DEF RuntimeInv, cycleVars, CycleInv, CycleTypes, Cycle!TypeOK, Turns, Tracked, Phases
<1>4. UNCHANGED samplerVars => TruthfulSample'
  BY DEF RuntimeInv, samplerVars, TruthfulSample, Sampler!TruthfulSample
<1>5. UNCHANGED monitorVars => TruthfulReports'
  BY DEF RuntimeInv, monitorVars, TruthfulReports, Monitor!ObservedIsRecent, Monitor!NobodyForgotten,
         Monitor!Flying
<1> QED
  BY <1>1, <1>2, <1>3, <1>4, <1>5

LEMMA RuntimeStep == RuntimeInv /\ [RuntimeNext]_all => RuntimeInv'
<1> SUFFICES ASSUME RuntimeInv, [RuntimeNext]_all PROVE RuntimeInv'
  OBVIOUS
<1> USE RuntimeAssumption DEF RuntimeAssumption
<1>0. RuntimeNext => now' \in Nat /\ now <= now'
  BY ClockForward DEF RuntimeInv
<1>1. CASE GuardMoves
  <2>1. subject = "guard" /\ Next /\ UNCHANGED <<subject, bucketVars, cycleVars, samplerVars, monitorVars>>
    BY <1>1 DEF GuardMoves
  <2>2. TypeOK' /\ GuardInv'
    BY <2>1, GuardTypeStep, GuardStep DEF RuntimeInv
  <2>3. now' \in Nat /\ now <= now'
    BY <1>0, <1>1 DEF RuntimeNext
  <2>4. BucketInv' /\ CycleInv' /\ TruthfulSample' /\ TruthfulReports'
    BY <2>1, <2>3, Rests
  <2> QED
    BY <2>1, <2>2, <2>3, <2>4 DEF RuntimeInv
<1>2. CASE BucketMoves
  <2>1. subject = "bucket" /\ Bucket!Next /\ UNCHANGED <<subject, guardVars, cycleVars, samplerVars, monitorVars>>
    BY <1>2 DEF BucketMoves
  <2>2. BucketInv' /\ Bucket!TypeOK'
    <3>1. BucketInv'
      BY <2>1, BucketStep DEF RuntimeInv
    <3>2. Bucket!TypeOK'
      BY <2>1, BucketTypeStep DEF RuntimeInv, BucketInv
    <3> QED
      BY <3>1, <3>2
  <2>3. now' \in Nat /\ now <= now'
    BY <1>0, <1>2 DEF RuntimeNext
  <2>4. svc' = [s \in Services |-> Down] /\ CycleInv' /\ TruthfulSample' /\ TruthfulReports'
    BY <2>1, <2>3, Rests
  <2> QED
    BY <2>1, <2>2, <2>3, <2>4 DEF RuntimeInv
<1>3. CASE CycleMoves
  <2>1. /\ subject = "cycle" /\ Cycle!Next
        /\ UNCHANGED <<subject, now, guardVars, bucketVars, samplerVars, monitorVars>>
    BY <1>3 DEF CycleMoves, CycleRests
  <2>2. CycleInv'
    BY <2>1, CycleStep DEF RuntimeInv
  <2>3. now' \in Nat /\ now <= now'
    BY <1>0, <1>3 DEF RuntimeNext
  <2>4. svc' = [s \in Services |-> Down] /\ BucketInv' /\ TruthfulSample' /\ TruthfulReports'
    BY <2>1, <2>3, Rests
  <2> QED
    BY <2>1, <2>2, <2>3, <2>4 DEF RuntimeInv
<1>4. CASE SamplerMoves
  <2>1. subject = "sampler" /\ Sampler!Next /\ UNCHANGED <<subject, guardVars, bucketVars, cycleVars, monitorVars>>
    BY <1>4 DEF SamplerMoves
  <2>2. SamplerInv' /\ TruthfulSample'
    BY <2>1, SamplerStep DEF RuntimeInv, SamplerInv
  <2>3. now' \in Nat /\ now <= now'
    BY <1>0, <1>4 DEF RuntimeNext
  <2>4. svc' = [s \in Services |-> Down] /\ BucketInv' /\ CycleInv' /\ TruthfulReports'
    BY <2>1, <2>3, Rests
  <2> QED
    BY <2>1, <2>2, <2>3, <2>4 DEF RuntimeInv
<1>5. CASE MonitorMoves
  <2>1. subject = "monitor" /\ Monitor!Next /\ UNCHANGED <<subject, guardVars, bucketVars, cycleVars, samplerVars>>
    BY <1>5 DEF MonitorMoves
  <2>2. MonitorInv'
    BY <2>1, MonitorStep DEF RuntimeInv
  <2>3. now' \in Nat /\ now <= now'
    BY <1>0, <1>5 DEF RuntimeNext
  <2>4. svc' = [s \in Services |-> Down] /\ BucketInv' /\ CycleInv' /\ TruthfulSample'
    BY <2>1, <2>3, Rests
  <2>5. TruthfulReports'
    BY <2>2 DEF MonitorInv, TruthfulReports
  <2> QED
    BY <2>1, <2>2, <2>3, <2>4, <2>5 DEF RuntimeInv
<1>6. CASE UNCHANGED all
  <2>1. /\ UNCHANGED <<subject, now, guardVars, bucketVars, cycleVars, samplerVars, monitorVars>>
        /\ now' \in Nat /\ now <= now'
    BY <1>6 DEF all, RuntimeInv
  <2>2. BucketInv' /\ CycleInv' /\ TruthfulSample' /\ TruthfulReports'
    BY <2>1, Rests
  <2>3. UNCHANGED vars /\ UNCHANGED Bucket!vars /\ UNCHANGED Sampler!vars /\ UNCHANGED Monitor!vars
    BY <2>1 DEF vars, Bucket!vars, Sampler!vars, Monitor!vars, guardVars, bucketVars, samplerVars, monitorVars
  <2>4. subject = "guard" => TypeOK' /\ GuardInv'
    BY <2>3, GuardTypeStep, GuardStep DEF RuntimeInv
  <2>5. subject # "guard" => svc' = [s \in Services |-> Down]
    BY <2>1, Rests
  <2>6. subject = "bucket" => Bucket!TypeOK'
    BY <2>3, BucketTypeStep DEF RuntimeInv, BucketInv
  <2>7. subject = "sampler" => SamplerInv'
    BY <2>3, SamplerStep DEF RuntimeInv
  <2>8. subject = "monitor" => MonitorInv'
    BY <2>3, MonitorStep DEF RuntimeInv
  <2> QED
    BY <2>1, <2>2, <2>4, <2>5, <2>6, <2>7, <2>8 DEF RuntimeInv
<1> QED
  BY <1>1, <1>2, <1>3, <1>4, <1>5, <1>6 DEF RuntimeNext

LEMMA Invariance == RuntimeSpec => []RuntimeInv
<1>1. RuntimeInit => RuntimeInv
  BY RuntimeStarts
<1>2. RuntimeInv /\ [RuntimeNext]_all => RuntimeInv'
  BY RuntimeStep
<1> QED
  BY <1>1, <1>2, PTL DEF RuntimeSpec

\* The types of all five parts are kept.
THEOREM TypesCorrect == RuntimeSpec => []RuntimeTypeOK
<1>1. RuntimeInv => RuntimeTypeOK
  BY DEF RuntimeInv, RuntimeTypeOK, CycleInv, CycleTypes, SamplerInv, MonitorInv
<1> QED
  BY <1>1, Invariance, PTL

\* A service that is down outlives nothing.
LEMMA NobodyAlive ==
    ASSUME svc = [s \in Services |-> Down] PROVE CutoffHonoured /\ StopsBind
BY DEF CutoffHonoured, StopsBind, LatchBinds, GraceBinds, Alive, Down

\* No backend process outlives the policy's window by more than one look of its
\* wrapper and the time SIGTERM is given (run.sh, guard.ts permission).
THEOREM CutoffIsHonoured == RuntimeSpec => []CutoffHonoured
<1>1. RuntimeInv => CutoffHonoured
  BY GuardPromises, NobodyAlive, RuntimeAssumption DEF RuntimeAssumption, RuntimeInv
<1> QED
  BY <1>1, Invariance, PTL

\* A latched stop takes effect although a guard that began before may still write a
\* lease, and bad health ends the backend Grace + Life after the first run that noted
\* it, however often it is noted again, until a run notes good health or the host
\* restarts (stop.sh, guard.ts healthPermission).
THEOREM StopsAreBinding == RuntimeSpec => []StopsBind
<1>1. RuntimeInv => StopsBind
  BY GuardPromises, NobodyAlive, RuntimeAssumption DEF RuntimeAssumption, RuntimeInv
<1> QED
  BY <1>1, Invariance, PTL

\* A tenant gets no more than a full bucket and what the time refills, for every
\* order of the stamps, and a refusal names the right time to wait (rate-limit.ts).
THEOREM BudgetIsExact == RuntimeSpec => []BudgetExact
<1>1. RuntimeInv => BudgetExact
  BY AccountBounds, RefusalIsExact, RuntimeAssumption
     DEF RuntimeAssumption, RuntimeInv, BudgetExact, Bucket!BudgetExact
<1> QED
  BY <1>1, Invariance, PTL

\* No tenant has more than its turns in a cycle, nobody is put off before it has had
\* them, and every receipt is released in its cycle (tenant-turns.ts, index.ts main).
THEOREM TurnsAreFair == RuntimeSpec => []TurnsAndReleases
<1>1. RuntimeInv => TurnsAndReleases
  BY CyclePromises, RuntimeAssumption DEF RuntimeAssumption, RuntimeInv
<1> QED
  BY <1>1, Invariance, PTL

\* A depth that is marked as a success was counted within the deadline of its own
\* sample (backlog-sampler.ts run).
THEOREM SamplesAreTruthful == RuntimeSpec => []TruthfulSample
<1>1. RuntimeInv => TruthfulSample
  BY DEF RuntimeInv
<1> QED
  BY <1>1, Invariance, PTL

\* A depth shown as observed is recent, however snapshots are shared and kept, and no
\* page waits for a snapshot that is over (observability.ts).
THEOREM ReportsAreTruthful == RuntimeSpec => []TruthfulReports
<1>1. RuntimeInv => TruthfulReports
  BY DEF RuntimeInv
<1> QED
  BY <1>1, Invariance, PTL
=============================================================================
