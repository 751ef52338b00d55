--------------------------- MODULE DeadLetterPage ---------------------------
(***************************************************************************)
(* The dead-letters page of the dashboard and its replay button (web/src/  *)
(* components/dashboard/dead-letters.tsx, dead-letter-details.tsx and      *)
(* dead-letter-replay.tsx).  The list is read from a standby that lags     *)
(* behind; a replay is requested from the primary, under an idempotency    *)
(* key the panel keeps for its retries.  A request the page gave up goes   *)
(* on at the server (services/replays.ts, in detail in Replay).            *)
(***************************************************************************)
EXTENDS Integers, Sequences, FiniteSets

CONSTANTS
    Rows,       \* dead letters of the workspace
    MaxPosts,   \* bound on the replay requests, for TLC
    MaxPanels,  \* bound on the panels opened, for TLC
    MaxMoves    \* bound on what happens to the list, for TLC

VARIABLES
    replays,    \* the primary: the key each row was replayed under
    standby,    \* the standby: the rows of the first page, and the replayed ones
    moves,
    list,       \* the request for the list
    items,      \* the rows on the page, and whether the list says replayed
    selected,   \* selectedId
    panel,      \* the details of the selected row
    panels,     \* number of panels opened
    receipts,
    busy,       \* replayPending
    posts,      \* replay requests, in the order they were sent
    known,      \* history: rows whose receipt this page was given
    locker      \* history: the panel that set busy last

vars == <<replays, standby, moves, list, items, selected, panel, panels, receipts, busy, posts, known, locker>>

Nobody == 0    \* no key

Other == -1    \* the key of somebody else

NoRow == "none"

DeadAssumption ==
    /\ NoRow \notin Rows
    /\ MaxPosts \in Nat /\ MaxPanels \in Nat /\ MaxMoves \in Nat

NoItems == [r \in {} |-> FALSE]

NoPanel == [no |-> 0, row |-> NoRow, payload |-> "loading", result |-> "idle", key |-> Nobody]

Answers == {"ok", "conflict", "gone", "failed"}

\* One type invariant for the page and its requests.
TypeOK ==
    /\ replays \in [Rows -> {Nobody, Other} \cup 1 .. MaxPosts]
    /\ standby \in [first : SUBSET Rows, replayed : SUBSET Rows]
    /\ moves \in 0 .. MaxMoves
    /\ list.at \in {"idle", "asked", "read"}
    /\ \A f \in {items, list.items} : DOMAIN f \subseteq Rows /\ f \in [DOMAIN f -> BOOLEAN]
    /\ selected \in Rows \cup {NoRow} /\ panel.row \in {selected, NoRow}
    /\ panel.row # NoRow <=> selected \in DOMAIN items
    /\ panel.no \in 0 .. panels /\ panels \in 0 .. MaxPanels
    /\ panel.payload \in {"loading", "ready", "error"}
    /\ panel.result \in {"idle", "pending", "success", "error", "blocked"}
    /\ panel.result = "pending" => \E i \in DOMAIN posts : posts[i].live /\ posts[i].no = panel.no
    /\ receipts \subseteq Rows /\ known \subseteq Rows
    /\ busy \in BOOLEAN /\ locker \in 0 .. panels
    /\ \A i \in DOMAIN posts :
          /\ posts[i].at \in {"sent", "looked", "checked"} \cup Answers
          /\ posts[i].key \in 1 .. i /\ posts[i].row \in Rows

NoRequest == [at |-> "idle", items |-> NoItems]

Asked == [at |-> "asked", items |-> NoItems]

Init ==
    /\ replays = [r \in Rows |-> Nobody]
    /\ standby = [first |-> Rows, replayed |-> {}]
    /\ moves = 0
    /\ list = Asked
    /\ items = NoItems /\ selected = NoRow /\ panel = NoPanel /\ panels = 0
    /\ receipts = {} /\ busy = FALSE /\ posts = <<>>
    /\ known = {} /\ locker = 0

-----------------------------------------------------------------------------
(* The server.                                                             *)

Server == <<list, items, selected, panel, panels, receipts, busy, known, locker>>

Goes(i, at) == posts' = [posts EXCEPT ![i].at = at]

\* findReplayByKey: a request that is known already has its answer.
Look(i) ==
    /\ posts[i].at = "sent"
    /\ Goes(i, IF replays[posts[i].row] = posts[i].key THEN "ok" ELSE "looked")
    /\ UNCHANGED <<Server, replays, standby, moves>>

\* findReplaySource and readArchivedPayload.
Check(i) ==
    /\ posts[i].at = "looked"
    /\ IF replays[posts[i].row] # Nobody THEN Goes(i, "conflict")
       ELSE \E at \in {"checked", "gone"} : Goes(i, at)
    /\ UNCHANGED <<Server, replays, standby, moves>>

\* createReplay; of two for one row the database refuses one, which is
\* answered with the replay of its key, if there is one.
Create(i) ==
    /\ posts[i].at = "checked"
    /\ LET r == posts[i].row
       IN  IF replays[r] = Nobody
           THEN replays' = [replays EXCEPT ![r] = posts[i].key] /\ Goes(i, "ok")
           ELSE /\ Goes(i, IF replays[r] = posts[i].key THEN "ok" ELSE "conflict")
                /\ UNCHANGED replays
    /\ UNCHANGED <<Server, standby, moves>>

\* Unavailable or refused, at any step.
Fail(i) ==
    /\ posts[i].live /\ posts[i].at \notin Answers
    /\ Goes(i, "failed")
    /\ UNCHANGED <<Server, replays, standby, moves>>

\* Another member of the workspace replays a row.
ReplayedByOther(r) ==
    /\ moves < MaxMoves /\ replays[r] = Nobody
    /\ replays' = [replays EXCEPT ![r] = Other] /\ moves' = moves + 1
    /\ UNCHANGED <<Server, standby, posts>>

\* The standby replays a change of the primary.
CatchUp(r) ==
    /\ replays[r] # Nobody /\ r \notin standby.replayed
    /\ standby' = [standby EXCEPT !.replayed = @ \cup {r}]
    /\ UNCHANGED <<Server, replays, moves, posts>>

\* New dead letters push a row off the first page.
PushOff(r) ==
    /\ moves < MaxMoves /\ r \in standby.first
    /\ standby' = [standby EXCEPT !.first = @ \ {r}] /\ moves' = moves + 1
    /\ UNCHANGED <<Server, replays, posts>>

-----------------------------------------------------------------------------
(* The page.                                                               *)

\* Rendering with a selection and rows: the panel of a row that is not on the
\* page any more unmounts and gives up its request; its key dies with it.
Show(sel, its, shown, sent) ==
    /\ selected' = sel /\ items' = its
    /\ IF sel \in DOMAIN its
       THEN IF shown.row = sel THEN panel' = shown /\ panels' = panels /\ posts' = sent
            ELSE /\ panels < MaxPanels /\ panels' = panels + 1
                 /\ panel' = [NoPanel EXCEPT !.no = panels + 1, !.row = sel]
                 /\ posts' = [i \in DOMAIN sent |-> [sent[i] EXCEPT !.live = FALSE]]
       ELSE /\ panel' = NoPanel /\ panels' = panels
            /\ posts' = [i \in DOMAIN sent |-> [sent[i] EXCEPT !.live = FALSE]]

\* A new revision: the payload is read again and an error forgotten.
Revised(shown) ==
    [shown EXCEPT !.payload = "loading", !.result = IF @ \in {"error", "blocked"} THEN "idle" ELSE @]

Select(r) ==
    /\ ~busy /\ r \in DOMAIN items /\ r # selected
    /\ Show(r, items, panel, posts)
    /\ UNCHANGED <<replays, standby, moves, list, receipts, busy, known, locker>>

Refresh ==
    /\ ~busy /\ list.at = "idle"
    /\ list' = Asked /\ panel' = Revised(panel)
    /\ UNCHANGED <<replays, standby, moves, items, selected, panels, receipts, busy, posts, known, locker>>

\* Another page size, the next page or the previous one: the rows go at once.  The
\* page size can be chosen while the list is loading, which gives that request up.
Turn ==
    /\ ~busy
    /\ list' = Asked /\ Show(NoRow, NoItems, NoPanel, posts)
    /\ UNCHANGED <<replays, standby, moves, receipts, busy, known, locker>>

\* The reader leaves and opens the page again; or some request is answered 401,
\* invalidate() takes the page away, and the reader signs in once more.
Reopen ==
    /\ list' = Asked /\ Show(NoRow, NoItems, NoPanel, posts)
    /\ receipts' = {} /\ busy' = FALSE /\ known' = {} /\ locker' = 0
    /\ UNCHANGED <<replays, standby, moves>>

ServeList ==
    /\ list.at = "asked"
    /\ list' = [at |-> "read", items |-> [r \in standby.first |-> r \in standby.replayed]]
    /\ UNCHANGED <<replays, standby, moves, items, selected, panel, panels, receipts, busy, posts, known, locker>>

ArriveList ==
    /\ list.at = "read"
    /\ list' = NoRequest /\ Show(selected, list.items, panel, posts)
    /\ UNCHANGED <<replays, standby, moves, receipts, busy, known, locker>>

\* What is shown stays, unless the workspace is gone.
ArriveListFailed ==
    /\ list.at = "asked"
    /\ list' = NoRequest
    /\ \/ Show(selected, items, panel, posts)
       \/ Show(selected, NoItems, panel, posts)
    /\ UNCHANGED <<replays, standby, moves, receipts, busy, known, locker>>

\* The archived payload, or why there is none.
ArrivePayload ==
    /\ panel.row # NoRow /\ panel.payload = "loading"
    /\ \E p \in {"ready", "error"} : panel' = [panel EXCEPT !.payload = p]
    /\ UNCHANGED <<replays, standby, moves, list, items, selected, panels, receipts, busy, posts, known, locker>>

RetryPayload ==
    /\ panel.payload = "error"
    /\ panel' = [panel EXCEPT !.payload = "loading"]
    /\ UNCHANGED <<replays, standby, moves, list, items, selected, panels, receipts, busy, posts, known, locker>>

-----------------------------------------------------------------------------
(* The replay button.                                                      *)

Replayed(r) == items[r] \/ r \in receipts

\* eligibleToRequest
Eligible ==
    /\ panel.row # NoRow /\ ~Replayed(panel.row) /\ panel.payload = "ready"
    /\ panel.result \notin {"success", "blocked"}

\* Mutant: every request has a key of its own.
KeyAlwaysNew(i) == i

\* key.current ??= crypto.randomUUID(): a key is named by the request it was made for.
KeyOf(i) == IF panel.key = Nobody THEN i ELSE panel.key

\* confirmReplay
Submit ==
    /\ Eligible /\ panel.result # "pending" /\ Len(posts) < MaxPosts
    /\ LET k == KeyOf(Len(posts) + 1)
       IN  /\ posts' = Append(posts, [no |-> panel.no, row |-> panel.row, key |-> k,
                                      at |-> "sent", live |-> TRUE,
                                      over |-> \E i \in DOMAIN posts : posts[i].no = panel.no
                                                                          /\ posts[i].at \notin Answers])
           /\ panel' = [panel EXCEPT !.result = "pending", !.key = k]
    /\ busy' = TRUE /\ locker' = panel.no
    /\ UNCHANGED <<replays, standby, moves, list, items, selected, panels, receipts, known>>

\* Mutant: only a request that succeeded gives the page back.
ReleasedIfAccepted(at) == at = "ok"

\* finally: onBusy(false).
Released(at) == TRUE

Heard(i) == [posts EXCEPT ![i].live = FALSE]

\* Mutant: the receipt is shown and not kept.
AcceptedUnkept(r) == UNCHANGED receipts

\* accepted: keep the receipt; the refresh it dispatches is in Succeed.
Accepted(r) == receipts' = receipts \cup {r}

Succeed(i) ==
    /\ posts[i].live /\ posts[i].at = "ok"
    /\ posts' = Heard(i)
    /\ panel' = Revised([panel EXCEPT !.result = "success"])
    /\ Accepted(panel.row) /\ known' = known \cup {panel.row}
    /\ list' = Asked
    /\ busy' = (busy /\ ~Released("ok"))
    /\ UNCHANGED <<replays, standby, moves, items, selected, panels, locker>>

\* 404, 409 and 410 block the button until the next refresh.
FailReplay(i) ==
    /\ posts[i].live /\ posts[i].at \in {"conflict", "gone", "failed"}
    /\ posts' = Heard(i)
    /\ panel' = [panel EXCEPT !.result = IF posts[i].at = "failed" THEN "error" ELSE "blocked"]
    /\ busy' = (busy /\ ~Released(posts[i].at))
    /\ UNCHANGED <<replays, standby, moves, list, items, selected, panels, receipts, known, locker>>

\* No answer within 20 s: the outcome is unconfirmed.
TimeOut(i) ==
    /\ posts[i].live
    /\ posts' = Heard(i)
    /\ panel' = [panel EXCEPT !.result = "error"]
    /\ busy' = (busy /\ ~Released("failed"))
    /\ UNCHANGED <<replays, standby, moves, list, items, selected, panels, receipts, known, locker>>

Next ==
    \/ \E i \in DOMAIN posts :
          \/ Look(i) \/ Check(i) \/ Create(i) \/ Fail(i)
          \/ Succeed(i) \/ FailReplay(i) \/ TimeOut(i)
    \/ \E r \in Rows : ReplayedByOther(r) \/ CatchUp(r) \/ PushOff(r) \/ Select(r)
    \/ Refresh \/ Turn \/ Reopen \/ ServeList \/ ArriveList \/ ArriveListFailed
    \/ ArrivePayload \/ RetryPayload \/ Submit

Spec == Init /\ [][Next]_vars

-----------------------------------------------------------------------------
\* A row whose replay this page was told of is not offered for replay again,
\* although the standby may still list it without one and its panel may have
\* been closed and opened since (dead-letters.tsx, receipts).
NotOfferedAgain == panel.row \in known => ~Eligible

\* Retrying an unconfirmed replay is recognised as the same request: a panel is
\* refused because of its own replay only if it retried while the server was
\* still at work on the request it gave up (dead-letter-replay.tsx, key;
\* services/replays.ts).
RetryRecognised ==
    \A i \in DOMAIN posts :
        posts[i].live /\ posts[i].at = "conflict" /\ replays[posts[i].row] \in DOMAIN posts
            /\ posts[replays[posts[i].row]].no = posts[i].no
                => \E j \in 1 .. i : posts[j].no = posts[i].no /\ posts[j].over

\* The page is locked for a request under way only; the one exception is a
\* panel that was taken away while it waited (dead-letter-replay.tsx, finally).
LockedForRequest ==
    busy => panel.no # locker \/ \E i \in DOMAIN posts : posts[i].live /\ posts[i].no = locker
=============================================================================
