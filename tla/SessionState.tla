---------------------------- MODULE SessionState ----------------------------
(***************************************************************************)
(* What the dashboard knows of its session (web/src/components/dashboard/  *)
(* provider.tsx): it asks /auth/me when it opens and whenever it gains the *)
(* focus, forgets the session when some request is answered 401, and signs *)
(* out in two requests.  A request that is given up is rejected, unless it *)
(* was answered already: its continuation runs all the same.               *)
(***************************************************************************)
EXTENDS Integers, FiniteSets

CONSTANTS
    MaxCalls,       \* bound on the requests to /auth/me, for TLC
    MaxGeneration   \* bound on generation when signing out starts, for TLC

VARIABLES
    valid,       \* the browser's session is valid at the API
    status,      \* the state of the provider
    generation,
    calls,       \* requests to /auth/me whose continuation has not run
    refused,     \* a request of the page shown was answered 401
    leaving,     \* the step of signOut; not "no" is loggingOut
    number,      \* of requests to /auth/me sent
    shownOf,     \* history: the request the session shown came from
    endedAt      \* history: requests sent when the session was last forgotten

vars == <<valid, status, generation, calls, refused, leaving, number, shownOf, endedAt>>

SignedAssumption == MaxCalls \in Nat \ {0} /\ MaxGeneration \in Nat

\* One type invariant for the provider.
TypeOK ==
    /\ {valid, refused} \subseteq BOOLEAN
    /\ status \in {"loading", "ready", "signed-out", "error"}
    /\ generation \in Nat
    /\ \A c \in calls : c.no \in 1 .. number /\ c.generation \in 1 .. generation
    /\ Cardinality({c \in calls : c.generation = generation}) <= 1
    /\ status = "loading" => \E c \in calls : c.generation = generation
    /\ leaving \in {"no", "me", "logout", "done"}
    /\ {number, shownOf, endedAt} \subseteq 0 .. MaxCalls

Call(n, g) == [no |-> n, generation |-> g, answer |-> "none"]

\* The effect of the first render has called reload.
Init ==
    /\ valid \in BOOLEAN
    /\ status = "loading" /\ generation = 1 /\ calls = {Call(1, 1)}
    /\ refused = FALSE /\ leaving = "no"
    /\ number = 1 /\ shownOf = 0 /\ endedAt = 0

\* abort(): the requests that are not answered are rejected, and end there.
Answered == {c \in calls : c.answer # "none"}

\* reload: on focus, on visibility, after a 403, or on the reader's request.
Reload ==
    /\ leaving = "no" /\ number < MaxCalls
    /\ number' = number + 1 /\ generation' = generation + 1
    /\ calls' = Answered \cup {Call(number', generation')}
    /\ status' = IF status = "ready" THEN "ready" ELSE "loading"
    /\ UNCHANGED <<valid, refused, leaving, shownOf, endedAt>>

Answer(c) ==
    /\ c.answer = "none"
    /\ \E a \in {"failed", IF valid THEN "session" ELSE "refused"} :
          calls' = (calls \ {c}) \cup {[c EXCEPT !.answer = a]}
    /\ UNCHANGED <<valid, status, generation, refused, leaving, number, shownOf, endedAt>>

\* Mutant: the answer is applied whatever happened since.
AppliesAlways(c) == TRUE

Applies(c) == c.generation = generation

\* The continuation of reload.
Continue(c) ==
    /\ c.answer # "none"
    /\ calls' = calls \ {c}
    /\ IF Applies(c)
       THEN /\ status' = CASE c.answer = "session" -> "ready"
                           [] c.answer = "refused" -> "signed-out"
                           [] OTHER -> "error"
            /\ shownOf' = IF c.answer = "session" THEN c.no ELSE shownOf
       ELSE UNCHANGED <<status, shownOf>>
    /\ UNCHANGED <<valid, generation, refused, leaving, number, endedAt>>

\* invalidate: forget the session and what was asked about it.
Invalidate ==
    /\ generation' = generation + 1 /\ calls' = Answered
    /\ status' = "signed-out" /\ endedAt' = number
    /\ UNCHANGED <<number, shownOf>>

\* A page asks something without a session; pages are shown with a session only.
Refuse ==
    /\ status = "ready" /\ ~valid
    /\ refused' = TRUE
    /\ UNCHANGED <<valid, status, generation, calls, leaving, number, shownOf, endedAt>>

\* The page calls invalidate, if it is still there.
HearRefused ==
    /\ refused /\ refused' = FALSE
    /\ IF status = "ready" THEN Invalidate
       ELSE UNCHANGED <<status, generation, calls, number, shownOf, endedAt>>
    /\ UNCHANGED <<valid, leaving>>

\* signOut
SignOut ==
    /\ status = "ready" /\ leaving = "no" /\ generation < MaxGeneration
    /\ leaving' = "me" /\ generation' = generation + 1 /\ calls' = Answered
    /\ UNCHANGED <<valid, status, refused, number, shownOf, endedAt>>

\* Its request to /auth/me, for the CSRF token of the moment.
SignOutReads ==
    /\ leaving = "me" /\ valid
    /\ leaving' = "logout"
    /\ UNCHANGED <<valid, status, generation, calls, refused, number, shownOf, endedAt>>

SignOutPosts ==
    /\ leaving = "logout" /\ valid
    /\ valid' = FALSE /\ leaving' = "done"
    /\ UNCHANGED <<status, generation, calls, refused, number, shownOf, endedAt>>

\* Signed out, by this request or without it.
SignOutEnds ==
    /\ leaving = "done" \/ (leaving \in {"me", "logout"} /\ ~valid)
    /\ leaving' = "no" /\ Invalidate
    /\ UNCHANGED <<valid, refused>>

\* Anything else but a 401 leaves the page as it is, with a message.
SignOutFails ==
    /\ leaving # "no" /\ leaving' = "no"
    /\ UNCHANGED <<valid, status, generation, calls, refused, number, shownOf, endedAt>>

\* The session expires, or another tab signs out or in.
OtherTab ==
    /\ valid' = ~valid
    /\ UNCHANGED <<status, generation, calls, refused, leaving, number, shownOf, endedAt>>

Next ==
    \/ Reload \/ \E c \in calls : Answer(c) \/ Continue(c)
    \/ Refuse \/ HearRefused
    \/ SignOut \/ SignOutReads \/ SignOutPosts \/ SignOutEnds \/ SignOutFails
    \/ OtherTab

Spec == Init /\ [][Next]_vars

-----------------------------------------------------------------------------
\* A session the dashboard has forgotten, because it was signed out or refused,
\* does not come back with an answer that was under way: what is shown was asked
\* for afterwards (provider.tsx, generation).
ForgottenForGood == status = "ready" => shownOf > endedAt
=============================================================================
