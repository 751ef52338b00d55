---------------------------- MODULE RuntimeGuard ----------------------------
(***************************************************************************)
(* The guard of a deployment: infra/oracle/guard.ts, run once a minute by  *)
(* a systemd timer, grants a short lease in a file; the wrapper of every   *)
(* backend process (run.sh) starts its process only under a valid lease    *)
(* and looks again every few seconds; stop.sh latches the backend off and  *)
(* lease-stop.sh starts it when a wrapper ends without a valid lease.      *)
(*                                                                         *)
(* Time is the one clock of the host, in units of the wrapper's poll.  The *)
(* account plan, the usage counters, the health of the host and the backup *)
(* are answers of the outside world, chosen anew by every run of the       *)
(* guard.                                                                  *)
(***************************************************************************)
EXTENDS Integers

CONSTANTS
    Services,    \* api, publisher, worker, receiver
    StartsAt,    \* first moment of the policy's window
    LocalEnd,    \* min(endsAt, benefitsExpireAt - 3 days)
    PlanEnds,    \* what AWS may answer for the plan's expiry, less 3 days
    Life,        \* leaseLife
    Grace,       \* how long bad health is tolerated
    CheckTime,   \* longest time the awaited checks of one run take
    Poll,        \* pause between two looks of a wrapper at the lease
    Term,        \* from SIGTERM to SIGKILL
    MaxTime      \* bound on the clock, for TLC

None == -1

GuardAssumption ==
    /\ StartsAt \in Nat /\ LocalEnd \in Nat /\ PlanEnds \subseteq Nat
    /\ Life \in Nat \ {0} /\ Grace \in Nat \ {0} /\ CheckTime \in Nat
    /\ Poll \in Nat \ {0} /\ Term \in Nat /\ MaxTime \in Nat

VARIABLES
    now,
    latchedAt,   \* when the file STOPPED was written, None without the file
    lease,       \* allowed.json, with until = None without the file
    badSince,    \* health.json, None when healthy or without the file
    firstBad,    \* history: the first run to note bad health since one noted good health
    guard,       \* a run of "guard.ts enforce" and when it began
    svc,         \* each wrapper and the moment of its next step
    stopper,     \* the next step of stop.sh, "idle" when it is not running
    mode         \* what Caddy serves: the live site or the preview

vars == <<now, latchedAt, lease, badSince, firstBad, guard, svc, stopper, mode>>

Min2(a, b) == IF a <= b THEN a ELSE b

Time == 0 .. MaxTime

NoLease == [issued |-> None, until |-> None]

Down == [at |-> "down", due |-> None]

Idle == [at |-> "idle", since |-> None]

\* One type invariant for the files, the wrappers and the scripts.
TypeOK ==
    /\ now \in Time
    /\ latchedAt \in Time \cup {None}
    /\ lease \in [issued : Time \cup {None}, until : (0 .. MaxTime + Life) \cup {None}]
    /\ badSince \in Time \cup {None}
    /\ firstBad \in Time \cup {None}
    /\ guard \in [at : {"idle", "checking"}, since : Time \cup {None}]
    /\ svc \in [Services -> [at : {"down", "running", "stopping"},
                             due : (0 .. MaxTime + Poll + Term) \cup {None}]]
    /\ stopper \in {"idle", "latch", "lease", "caddy", "units"}
    /\ mode \in {"live", "preview"}

Init ==
    /\ now = 0
    /\ latchedAt = None
    /\ lease = NoLease
    /\ badSince = None
    /\ firstBad = None
    /\ guard = Idle
    /\ svc = [s \in Services |-> Down]
    /\ stopper = "idle"
    /\ mode = "live"

Latched == latchedAt # None

\* validLease: what a wrapper asks.  A lease that is missing is not valid.  One
\* host clock stamps and reads the lease, so the 5 s of tolerance are not needed;
\* until <= cutoff holds of every lease that Permission makes.
ValidLease ==
    /\ lease.issued # None
    /\ lease.issued <= now /\ lease.issued <= lease.until
    /\ lease.until <= lease.issued + Life
    /\ now < lease.until

\* systemctl start of a unit that is already running changes nothing.
StartStop == stopper' = IF stopper = "idle" THEN "latch" ELSE stopper

-----------------------------------------------------------------------------
(* guard.ts enforce.                                                       *)

\* Mutant: a latched guard goes on.
EnforceStartsLatched ==
    /\ guard.at = "idle"
    /\ StartsAt <= now /\ now < LocalEnd
    /\ guard' = [at |-> "checking", since |-> now]
    /\ UNCHANGED <<now, latchedAt, lease, badSince, firstBad, svc, stopper, mode>>

\* The latch is looked for once, then the local window and the backup; the
\* awaited checks begin.  A latched guard returns without a change.
EnforceStarts ==
    /\ guard.at = "idle"
    /\ ~Latched
    /\ StartsAt <= now /\ now < LocalEnd
    /\ guard' = [at |-> "checking", since |-> now]
    /\ UNCHANGED <<now, latchedAt, lease, badSince, firstBad, svc, stopper, mode>>

\* A refusal at any point: the catch unlinks the lease, and the failure of
\* the unit starts the stop service (OnFailure).
Refuse ==
    /\ lease' = NoLease
    /\ guard' = Idle
    /\ StartStop
    /\ UNCHANGED <<now, latchedAt, badSince, firstBad, svc, mode>>

\* Outside of the window, no current backup or an unreadable policy.
EnforceRefusedAtOnce == guard.at = "idle" /\ ~Latched /\ Refuse

\* Mutant: every lease has its full life.
PermissionUncut(planEnd) == [issued |-> now, until |-> now + Life]

\* permission: the lease ends with the window or the plan at the latest.
Permission(planEnd) ==
    [issued |-> now, until |-> Min2(now + Life, Min2(LocalEnd, planEnd))]

Permitted(planEnd) == StartsAt <= now /\ now < Min2(LocalEnd, planEnd)

\* Mutant: every run that finds health bad dates it anew.
BadSinceRedated(healthy) == IF healthy THEN None ELSE now

\* healthPermission: since when health has been bad, and whether that is
\* still tolerated.
BadSince(healthy) == IF healthy THEN None ELSE IF badSince = None THEN now ELSE badSince

\* Mutant: the grace begins when the last lease ends.
ToleratedLonger(healthy) == healthy \/ badSince = None \/ now - badSince < Grace + Life

Tolerated(healthy) == healthy \/ badSince = None \/ now - badSince < Grace

\* The history of what runs noted, whatever the file says.
FirstBad(healthy) == CASE healthy -> None
                       [] ~healthy /\ firstBad = None -> now
                       [] OTHER -> firstBad

\* What a run that is not refused finds: plan and usage allow the lease,
\* health is good or not yet bad for too long.
Grants(planEnd, healthy) ==
    /\ guard.at = "checking"
    /\ Permitted(planEnd) /\ Tolerated(healthy)
    /\ badSince' = BadSince(healthy)
    /\ firstBad' = FirstBad(healthy)
    /\ guard' = Idle

\* health.json is written and then the lease is renamed into place; nothing
\* is awaited in between, and the latch is not looked for again.
EnforceGrants ==
    /\ \E planEnd \in PlanEnds, healthy \in BOOLEAN :
          /\ Grants(planEnd, healthy)
          /\ lease' = Permission(planEnd)
    /\ UNCHANGED <<now, latchedAt, svc, stopper, mode>>

\* The guard is killed between the two files.
EnforceHalfWritten ==
    /\ \E planEnd \in PlanEnds, healthy \in BOOLEAN : Grants(planEnd, healthy)
    /\ StartStop
    /\ UNCHANGED <<now, latchedAt, lease, svc, mode>>

\* The plan, the usage or the health refuses, or a check fails or throws.
EnforceRefuses == guard.at = "checking" /\ Refuse

\* The guard is killed while it checks (TimeoutStartSec, out of memory): the
\* lease stays, and the failed unit starts the stop service.
EnforceKilled ==
    /\ guard.at = "checking"
    /\ guard' = Idle
    /\ StartStop
    /\ UNCHANGED <<now, latchedAt, lease, badSince, firstBad, svc, mode>>

-----------------------------------------------------------------------------
(* run.sh: the wrapper of one backend process, and lease-stop.sh.          *)

\* systemd starts the wrapper (boot, an operator, a restart after a crash).
WrapperStarts(s) ==
    /\ svc[s].at = "down"
    /\ ValidLease
    /\ svc' = [svc EXCEPT ![s] = [at |-> "running", due |-> now + Poll]]
    /\ UNCHANGED <<now, latchedAt, lease, badSince, firstBad, guard, stopper, mode>>

\* A look at the lease: it holds and the wrapper sleeps, or the process gets
\* SIGTERM.
WrapperLooks(s) ==
    /\ svc[s].at = "running" /\ svc[s].due = now
    /\ svc' = [svc EXCEPT ![s] = IF ValidLease
                                 THEN [at |-> "running", due |-> now + Poll]
                                 ELSE [at |-> "stopping", due |-> now + Term]]
    /\ UNCHANGED <<now, latchedAt, lease, badSince, firstBad, guard, stopper, mode>>

\* The process ends: by itself, after SIGTERM, or at last by SIGKILL.  The
\* stop hook (lease-stop.sh) starts the stop service if the lease is gone.
WrapperEnds(s) ==
    /\ svc[s].at # "down"
    /\ svc' = [svc EXCEPT ![s] = Down]
    /\ IF ValidLease THEN UNCHANGED stopper ELSE StartStop
    /\ UNCHANGED <<now, latchedAt, lease, badSince, firstBad, guard, mode>>

\* run.sh without a valid lease exits 78 at once; the hook runs all the same.
WrapperRefused(s) ==
    /\ svc[s].at = "down" /\ ~ValidLease
    /\ StartStop
    /\ UNCHANGED <<now, latchedAt, lease, badSince, firstBad, guard, svc, mode>>

-----------------------------------------------------------------------------
(* stop.sh, one action per command.  It may die after any of them.         *)

StopLatches ==
    /\ stopper = "latch"
    /\ latchedAt' = IF Latched THEN latchedAt ELSE now
    /\ stopper' = "lease"
    /\ UNCHANGED <<now, lease, badSince, firstBad, guard, svc, mode>>

StopRemovesLease ==
    /\ stopper = "lease"
    /\ lease' = NoLease
    /\ stopper' = "caddy"
    /\ UNCHANGED <<now, latchedAt, badSince, firstBad, guard, svc, mode>>

\* A failed reload is reported and does not stop the script.
StopSwitchesCaddy ==
    /\ stopper = "caddy"
    /\ \/ mode' = "preview"
       \/ UNCHANGED mode
    /\ stopper' = "units"
    /\ UNCHANGED <<now, latchedAt, lease, badSince, firstBad, guard, svc>>

\* systemctl stop: SIGTERM to every unit that runs.
StopUnits ==
    /\ stopper = "units"
    /\ svc' = [s \in Services |-> IF svc[s].at = "running"
                                  THEN [at |-> "stopping", due |-> now + Term]
                                  ELSE svc[s]]
    /\ stopper' = "idle"
    /\ UNCHANGED <<now, latchedAt, lease, badSince, firstBad, guard, mode>>

StopDies ==
    /\ stopper # "idle"
    /\ stopper' = "idle"
    /\ UNCHANGED <<now, latchedAt, lease, badSince, firstBad, guard, svc, mode>>

-----------------------------------------------------------------------------
\* The host restarts: every process ends, /run is empty, the latch in /var/lib is
\* kept.  Nothing remembers that health was bad: the grace is given anew.
Reboot ==
    /\ lease' = NoLease /\ badSince' = None /\ firstBad' = None /\ guard' = Idle
    /\ svc' = [s \in Services |-> Down]
    /\ stopper' = "idle"
    /\ UNCHANGED <<now, latchedAt, mode>>

\* Time passes, though not beyond the next look or the SIGKILL of a wrapper,
\* nor beyond the time limits of the checks.
Tick ==
    /\ now < MaxTime
    /\ \A s \in Services : svc[s].at = "down" \/ now < svc[s].due
    /\ guard.at = "idle" \/ now < guard.since + CheckTime
    /\ now' = now + 1
    /\ UNCHANGED <<latchedAt, lease, badSince, firstBad, guard, svc, stopper, mode>>

Next ==
    \/ EnforceStarts \/ EnforceRefusedAtOnce \/ EnforceGrants \/ EnforceHalfWritten
    \/ EnforceRefuses \/ EnforceKilled
    \/ \E s \in Services : WrapperStarts(s) \/ WrapperLooks(s) \/ WrapperEnds(s) \/ WrapperRefused(s)
    \/ StopLatches \/ StopRemovesLease \/ StopSwitchesCaddy \/ StopUnits \/ StopDies
    \/ Reboot
    \/ Tick

Spec == Init /\ [][Next]_vars

-----------------------------------------------------------------------------
Alive(s) == svc[s].at # "down"

\* From the last moment a lease is valid to the last moment of a process.
Overrun == Poll + Term

\* However the guard, the timer and the stop script fail, no backend process
\* outlives the policy's window by more than one look of its wrapper and the
\* time SIGTERM is given.
CutoffHonoured == \A s \in Services : Alive(s) => now < LocalEnd + Overrun

\* A stop that was latched takes effect although a guard that had found no
\* latch before may still write a lease after it: that lease is the last one,
\* and it ends.
LatchBinds ==
    Latched => \A s \in Services : Alive(s) => now < latchedAt + CheckTime + Life + Overrun

\* Bad health ends the backend: Grace + Life after the first run that noted it there
\* is no valid lease, although later runs note it again, are refused or die between
\* the two files (health.json keeps the first date).  Only a run that notes good
\* health, or a restart of the host, which ends every process, gives a new grace.
GraceBinds ==
    firstBad # None => \A s \in Services : Alive(s) => now < firstBad + Grace + Life + Overrun

\* What ends the backend before its window does: the latch of stop.sh, and bad
\* health.
StopsBind == LatchBinds /\ GraceBinds
=============================================================================
