------------------------------ MODULE Console -------------------------------
(***************************************************************************)
(* What people reach through a browser, side by side: access to the API,   *)
(* the list of deliveries, the page of dead letters, the page of API keys, *)
(* the session the dashboard shows and the drawing of the landing page.    *)
(* They share no state, so one behaviour is about one of them, its         *)
(* subject, and the others rest in their initial states, as in Runtime.    *)
(* Access is extended; the others are instances.                           *)
(***************************************************************************)
EXTENDS Access, Sequences

CONSTANTS
    Rows, Statuses, Filters, First, Limits, MaxChanges, MaxClicks,   \* ListPages
    DeadLetters, MaxPosts, MaxPanels, MaxMoves,                      \* DeadLetterPage
    Old, New, Revocable,                                             \* ApiKeyPage
    MaxCalls, MaxGeneration,                                         \* SessionState
    Layouts, Texts, Scrolls, MaxVisits                               \* FrameLoop

VARIABLES
    subject,
    table, changed, clicks, query, resource, requests, mounted, walk,
    replays, standby, moves, list, items, selected, panel, panels, receipts, busy, posts, known, locker,
    stored, expired, creations, open, request, rows, overrides, lapsed, awaiting, reveal, copy, writing,
    clipboard, dialog, confirmed, accounted,
    valid, status, generation, calls, refused, leaving, number, shownOf, endedAt,
    page, hidden, still, changes, present, measuring, state, wanted, frame, queued, dirty, scroll, drawn

accessVars == <<now, users, members, login, session, key, jar, tab, client, opened>>

listVars == <<table, changed, clicks, query, resource, requests, mounted, walk>>

deadVars == <<replays, standby, moves, list, items, selected, panel, panels, receipts, busy, posts, known, locker>>

keyVars == <<stored, expired, creations, open, request, rows, overrides, lapsed, awaiting, reveal, copy,
             writing, clipboard, dialog, confirmed, accounted>>

sessionVars == <<valid, status, generation, calls, refused, leaving, number, shownOf, endedAt>>

frameVars == <<page, hidden, still, changes, present, measuring, state, wanted, frame, queued, dirty, scroll, drawn>>

all == <<subject, accessVars, listVars, deadVars, keyVars, sessionVars, frameVars>>

Pages == INSTANCE ListPages

Dead == INSTANCE DeadLetterPage WITH Rows <- DeadLetters

KeyList == INSTANCE ApiKeyPage WITH posts <- creations, list <- rows

Signed == INSTANCE SessionState

Frames == INSTANCE FrameLoop WITH mounted <- present, MaxChanges <- MaxVisits

ASSUME ConsoleAssumption ==
    /\ AccessAssumption
    /\ Pages!ListAssumption
    /\ Dead!DeadAssumption
    /\ KeyList!KeyAssumption
    /\ Signed!SignedAssumption
    /\ Frames!FrameAssumption

ConsoleInit ==
    /\ subject \in {"door", "pages", "dead", "keys", "signed", "frames"}
    /\ Init /\ Pages!Init /\ Dead!Init /\ KeyList!Init /\ Frames!Init
    /\ Signed!Init /\ (valid \/ subject = "signed")

DoorMoves ==
    /\ subject = "door" /\ Next
    /\ UNCHANGED <<subject, listVars, deadVars, keyVars, sessionVars, frameVars>>

PagesMove ==
    /\ subject = "pages" /\ Pages!Next
    /\ UNCHANGED <<subject, accessVars, deadVars, keyVars, sessionVars, frameVars>>

DeadMoves ==
    /\ subject = "dead" /\ Dead!Next
    /\ UNCHANGED <<subject, accessVars, listVars, keyVars, sessionVars, frameVars>>

KeysMove ==
    /\ subject = "keys" /\ KeyList!Next
    /\ UNCHANGED <<subject, accessVars, listVars, deadVars, sessionVars, frameVars>>

SignedMoves ==
    /\ subject = "signed" /\ Signed!Next
    /\ UNCHANGED <<subject, accessVars, listVars, deadVars, keyVars, frameVars>>

FramesRest == UNCHANGED <<subject, accessVars, listVars, deadVars, keyVars, sessionVars>>

FramesMove == subject = "frames" /\ Frames!Next /\ FramesRest

ConsoleNext == DoorMoves \/ PagesMove \/ DeadMoves \/ KeysMove \/ SignedMoves \/ FramesMove

\* The fairness of FrameLoop, for the behaviours it is the subject of.
Fairness ==
    /\ WF_all(subject = "frames" /\ Frames!Measure /\ FramesRest)
    /\ WF_all(subject = "frames" /\ Frames!Commit /\ FramesRest)
    /\ WF_all(subject = "frames" /\ Frames!Tick /\ FramesRest)

ConsoleSpec == ConsoleInit /\ [][ConsoleNext]_all /\ Fairness

-----------------------------------------------------------------------------
\* The type invariants of the six modules, each for its own behaviours.
ConsoleTypeOK ==
    /\ subject = "door" => TypeOK
    /\ subject = "pages" => Pages!TypeOK
    /\ subject = "dead" => Dead!TypeOK
    /\ subject = "keys" => KeyList!TypeOK
    /\ subject = "signed" => Signed!TypeOK
    /\ subject = "frames" => Frames!TypeOK

\* ListPages: following Next misses nothing (delivery-history.ts), no cursor is
\* refused (delivery-list.ts deliveryListReducer) and a page that shows itself
\* loading waits for an answer (deliveries.tsx).
WalksAreSound == Pages!WalkComplete /\ Pages!CursorsFit /\ Pages!LoadingIsAwaited

\* DeadLetterPage: a replayed row is not offered again (dead-letters.tsx), a retry is
\* the same request to the server, and the page is locked only for a request or by
\* a panel that was closed under one (dead-letter-replay.tsx).
ReplaysAreSound == Dead!NotOfferedAgain /\ Dead!RetryRecognised /\ Dead!LockedForRequest

\* ApiKeyPage: no key is made behind the reader's back (api-key-create.tsx submit), a
\* revoked key is shown as revoked (api-keys.tsx overrides), and "copied" is said of
\* the secret on display (api-key-secret-dialog.tsx copySecret).
KeyPageIsSound == KeyList!NothingSilent /\ KeyList!RevokedAsShown /\ KeyList!CopiedIsShown

\* What has ended does not go on in the background.  SessionState: a session that was
\* forgotten does not come back (provider.tsx).  FrameLoop: a loop of frames that was
\* replaced or unmounted draws no more (landing-network.tsx sync).
NothingComesBack == Signed!ForgottenForGood /\ Frames!OneLoop

\* FrameLoop: the drawing catches up with the page (landing-network.tsx).
CatchesUp == subject = "frames" => Frames!CatchesUp
=============================================================================
