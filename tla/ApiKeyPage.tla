----------------------------- MODULE ApiKeyPage -----------------------------
(***************************************************************************)
(* The page of API keys: the list with what it overrides, the form that    *)
(* creates a key and shows its secret once, and the dialog that revokes    *)
(* one (web/src/components/dashboard/api-keys.tsx, api-key-create.tsx,     *)
(* api-key-secret-dialog.tsx, api-key-revoke-dialog.tsx and                *)
(* web/src/lib/api-keys.ts).  A request may be answered after the page     *)
(* gave it up, or carried out and never answered.  The pages of the list   *)
(* are the subject of ListPages; here the list is one page.                *)
(*                                                                         *)
(* The answers are those of the API, of Caddy when the API cannot be       *)
(* reached (502, 503), and of the page itself (0, or 502 for an answer it  *)
(* cannot read).  live.caddy sets no timeout, so a 504 is not among them.  *)
(***************************************************************************)
EXTENDS Integers

CONSTANTS
    Old,        \* keys there before the page was opened
    New,        \* keys the form asks for, one for each submission
    Revocable   \* keys that somebody revokes, a bound for TLC

Keys == Old \cup New

VARIABLES
    stored,      \* the table of keys
    expired,     \* keys whose expiresAt is past
    posts,       \* the creations as the server sees them
    open,        \* whether the page is mounted
    request,     \* the list request that is not aborted
    list,        \* the rows of resource.history
    overrides,
    lapsed,      \* keys that are past expiresAt at the page's own now
    awaiting,    \* the creation the form waits for: busy
    reveal,      \* the key whose secret is shown: revealOpen, issued
    copy,        \* the state of the copy button
    writing,     \* secrets the clipboard has not confirmed
    clipboard,   \* secrets that were copied
    dialog,      \* the revocation dialog
    confirmed,   \* keys this page was told are revoked
    accounted    \* submissions whose outcome the reader knows to look after

vars == <<stored, expired, posts, open, request, list, overrides, lapsed, awaiting,
          reveal, copy, writing, clipboard, dialog, confirmed, accounted>>

server == <<stored, expired, posts>>

view == <<request, list, overrides, lapsed>>

form == <<awaiting, accounted>>

secret == <<reveal, copy, writing, clipboard>>

revocation == <<dialog, confirmed>>

None == 0

KeyAssumption == None \notin Keys /\ Old \cap New = {} /\ Revocable \subseteq Keys

Histories == [shown : SUBSET Keys, revoked : SUBSET Keys]

NoRequest == [at |-> "none"]

Asked == [at |-> "asked"]

NoRows == [shown |-> {}, revoked |-> {}]

Closed == [row |-> None, at |-> "none"]

Unconfirmed == {0, 502, 503}

Refusals == {400, 401, 403, 404}

\* One type invariant for the page and the server.
TypeOK ==
    /\ stored \in [Keys -> {"none", "active", "revoked"}]
    /\ expired \subseteq Keys /\ lapsed \subseteq expired
    /\ posts \in [New -> {"none", "sent", "created", "refused"}]
    /\ open \in BOOLEAN
    /\ request \in {NoRequest, Asked} \cup [at : {"ready"}, rows : Histories]
    /\ list \in Histories
    /\ overrides \subseteq Keys /\ confirmed \subseteq Keys /\ accounted \subseteq New
    /\ awaiting \in New \cup {None} /\ reveal \in New \cup {None}
    /\ copy \in {"idle", "copying", "copied", "failed"}
    /\ writing \subseteq New /\ clipboard \subseteq New
    /\ dialog \in [row : Keys, at : {"open", "sent", "done", "refused"}] \cup {Closed}
    /\ ~open => awaiting = None /\ reveal = None /\ dialog = Closed /\ request = NoRequest

\* What a page that is mounted starts with, and one that is not has.
Blank(mounted) ==
    /\ open' = mounted
    /\ request' = IF mounted THEN Asked ELSE NoRequest
    /\ list' = NoRows /\ overrides' = {} /\ lapsed' = {}
    /\ awaiting' = None /\ reveal' = None /\ copy' = "idle"
    /\ dialog' = Closed /\ confirmed' = {}

Init ==
    /\ stored = [k \in Keys |-> IF k \in Old THEN "active" ELSE "none"]
    /\ expired = {} /\ posts = [k \in New |-> "none"]
    /\ open = TRUE /\ request = Asked /\ list = NoRows /\ overrides = {} /\ lapsed = {}
    /\ awaiting = None /\ reveal = None /\ copy = "idle" /\ writing = {} /\ clipboard = {}
    /\ dialog = Closed /\ confirmed = {} /\ accounted = {}

-----------------------------------------------------------------------------
(* The API, and the time that passes. *)

CreateKey(k) ==
    /\ posts[k] = "sent"
    /\ posts' = [posts EXCEPT ![k] = "created"]
    /\ stored' = [stored EXCEPT ![k] = "active"]
    /\ UNCHANGED <<expired, open, view, form, secret, revocation>>

RefuseKey(k) ==
    /\ posts[k] = "sent"
    /\ posts' = [posts EXCEPT ![k] = "refused"]
    /\ UNCHANGED <<stored, expired, open, view, form, secret, revocation>>

\* updateMany sets revokedAt where it is null, then the row is read.
RevokeKey ==
    /\ dialog.at = "sent"
    /\ dialog' = [dialog EXCEPT !.at = "done"]
    /\ stored' = [stored EXCEPT ![dialog.row] = "revoked"]
    /\ UNCHANGED <<expired, posts, open, view, form, secret, confirmed>>

RefuseRevocation ==
    /\ dialog.at = "sent"
    /\ dialog' = [dialog EXCEPT !.at = "refused"]
    /\ UNCHANGED <<server, open, view, form, secret, confirmed>>

\* A revocation the page gave up, or one made in another browser.
RevokeElsewhere(k) ==
    /\ stored[k] = "active"
    /\ stored' = [stored EXCEPT ![k] = "revoked"]
    /\ UNCHANGED <<expired, posts, open, view, form, secret, revocation>>

\* A new key lives a day at least: only the old ones expire under the page.
Expire(k) ==
    /\ k \notin expired
    /\ expired' = expired \cup {k}
    /\ UNCHANGED <<stored, posts, open, view, form, secret, revocation>>

ServeList ==
    /\ request = Asked
    /\ request' = [at |-> "ready", rows |-> [shown |-> {k \in Keys : stored[k] # "none"},
                                            revoked |-> {k \in Keys : stored[k] = "revoked"}]]
    /\ UNCHANGED <<server, open, list, overrides, lapsed, form, secret, revocation>>

-----------------------------------------------------------------------------
(* The list. *)

Row(k) == [revoked |-> k \in overrides \cup list.revoked]

\* apiKeyStatus of a row at a moment at which the keys of past have expired.
Status(row, k, past) ==
    IF row.revoked THEN "Revoked" ELSE IF k \in past THEN "Expired" ELSE "Active"

\* The reducer's next revision: the effect aborts the request and sends another.
Refreshed == request' = Asked

Leaves ==
    /\ Blank(FALSE)
    /\ accounted' = accounted \cup ({awaiting} \ {None})
    /\ UNCHANGED <<stored, expired, posts, writing, clipboard>>

ArriveList ==
    /\ request.at = "ready"
    /\ list' = request.rows /\ request' = NoRequest /\ lapsed' = expired
    /\ UNCHANGED <<server, open, overrides, form, secret, revocation>>

\* The rows of before stay on the page, but for 403 and 404; 401 ends the session.
ArriveListFailed(code) ==
    /\ request # NoRequest
    /\ IF code = 401
       THEN Leaves
       ELSE /\ list' = IF code \in {403, 404} THEN NoRows ELSE list
            /\ request' = NoRequest
            /\ UNCHANGED <<server, open, overrides, lapsed, form, secret, revocation>>

Refresh ==
    /\ open /\ request = NoRequest
    /\ Refreshed
    /\ UNCHANGED <<server, open, list, overrides, lapsed, form, secret, revocation>>

\* The timer for the next expiry, and the focus of the window.
SetNow ==
    /\ open /\ lapsed # expired
    /\ lapsed' = expired
    /\ UNCHANGED <<server, open, request, list, overrides, form, secret, revocation>>

Leave == open /\ Leaves

Reopen ==
    /\ ~open
    /\ Blank(TRUE)
    /\ UNCHANGED <<server, accounted, writing, clipboard>>

-----------------------------------------------------------------------------
(* The form and the secret it shows. *)

\* Mutant: the form can be sent while a secret is shown.
SubmitAnytime(k) ==
    /\ open /\ awaiting = None /\ posts[k] = "none"
    /\ awaiting' = k /\ posts' = [posts EXCEPT ![k] = "sent"]
    /\ UNCHANGED <<stored, expired, open, view, accounted, secret, revocation>>

Submit(k) ==
    /\ open /\ awaiting = None /\ reveal = None /\ posts[k] = "none"
    /\ awaiting' = k /\ posts' = [posts EXCEPT ![k] = "sent"]
    /\ UNCHANGED <<stored, expired, open, view, accounted, secret, revocation>>

\* The dialog is mounted anew unless one is there.
Created ==
    /\ awaiting # None /\ posts[awaiting] = "created"
    /\ reveal' = awaiting /\ copy' = IF reveal = None THEN "idle" ELSE copy
    /\ accounted' = accounted \cup {awaiting} /\ awaiting' = None
    /\ Refreshed
    /\ UNCHANGED <<server, open, list, overrides, lapsed, writing, clipboard, revocation>>

\* Mutant: a request that timed out is a plain failure.
WarnsIfAnswered(code) == code \in {502, 503}

\* apiKeyError says that the creation could not be confirmed.
Warns(code) == code \in Unconfirmed

\* A refusal made no key.  Without an answer a key may be there, or come to be.
FailCreation(code) ==
    /\ awaiting # None
    /\ code \in Unconfirmed \/ posts[awaiting] = "refused"
    /\ IF code = 401
       THEN Leaves
       ELSE /\ accounted' = IF Warns(code) THEN accounted \cup {awaiting} ELSE accounted
            /\ awaiting' = None
            /\ IF Warns(code) THEN Refreshed ELSE UNCHANGED request
            /\ UNCHANGED <<server, open, list, overrides, lapsed, secret, revocation>>

DismissSecret ==
    /\ reveal # None
    /\ reveal' = None /\ copy' = "idle"
    /\ UNCHANGED <<server, open, view, form, writing, clipboard, revocation>>

CopySecret ==
    /\ reveal # None /\ copy # "copying"
    /\ copy' = "copying" /\ writing' = writing \cup {reveal}
    /\ UNCHANGED <<server, open, view, form, reveal, clipboard, revocation>>

\* The generation of a dialog that is gone is over.
CopyEnds(k, written) ==
    /\ k \in writing
    /\ writing' = writing \ {k}
    /\ clipboard' = IF written THEN clipboard \cup {k} ELSE clipboard
    /\ copy' = IF reveal # k THEN copy ELSE IF written THEN "copied" ELSE "failed"
    /\ UNCHANGED <<server, open, view, form, reveal, revocation>>

-----------------------------------------------------------------------------
(* The revocation dialog. *)

Active(k, past) == Status(Row(k), k, past) = "Active"

\* The button is there by the page's now, and acts by the clock.
OpenDialog(k) ==
    /\ open /\ dialog = Closed /\ k \in list.shown /\ Active(k, lapsed)
    /\ IF Active(k, expired)
       THEN dialog' = [row |-> k, at |-> "open"] /\ UNCHANGED lapsed
       ELSE lapsed' = expired /\ UNCHANGED dialog
    /\ UNCHANGED <<server, open, request, list, overrides, form, secret, confirmed>>

\* The row of the dialog is the one that was active when it was opened.
SubmitRevocation ==
    /\ dialog.at = "open" /\ dialog.row \notin expired
    /\ dialog' = [dialog EXCEPT !.at = "sent"]
    /\ UNCHANGED <<server, open, view, form, secret, confirmed>>

\* Mutant: the list is trusted to show the revocation.
RevokedUnkept ==
    /\ dialog.at = "done"
    /\ confirmed' = confirmed \cup {dialog.row}
    /\ dialog' = Closed /\ Refreshed
    /\ UNCHANGED <<server, open, list, overrides, lapsed, form, secret>>

Revoked ==
    /\ dialog.at = "done"
    /\ confirmed' = confirmed \cup {dialog.row}
    /\ overrides' = overrides \cup {dialog.row}
    /\ dialog' = Closed /\ Refreshed
    /\ UNCHANGED <<server, open, list, lapsed, form, secret>>

\* The dialog stays, and its request may be carried out later.
FailRevocation(code) ==
    /\ dialog.at \in {"sent", "done", "refused"}
    /\ code \in Unconfirmed \/ dialog.at = "refused"
    /\ IF code = 401
       THEN Leaves
       ELSE /\ dialog' = [dialog EXCEPT !.at = "open"]
            /\ UNCHANGED <<server, open, view, form, secret, confirmed>>

\* dismiss does nothing while the request is pending.
DismissDialog ==
    /\ dialog.at = "open"
    /\ dialog' = Closed
    /\ UNCHANGED <<server, open, view, form, secret, confirmed>>

Next ==
    \/ \E k \in New : CreateKey(k) \/ RefuseKey(k) \/ Submit(k)
    \/ \E k \in Revocable : RevokeElsewhere(k) \/ OpenDialog(k)
    \/ \E k \in Old : Expire(k)
    \/ \E k \in New, written \in BOOLEAN : CopyEnds(k, written)
    \/ \E code \in Unconfirmed \cup Refusals :
        ArriveListFailed(code) \/ FailCreation(code) \/ FailRevocation(code)
    \/ RevokeKey \/ RefuseRevocation \/ ServeList \/ ArriveList
    \/ Refresh \/ SetNow \/ Leave \/ Reopen \/ Created \/ DismissSecret \/ CopySecret
    \/ SubmitRevocation \/ Revoked \/ DismissDialog

Spec == Init /\ [][Next]_vars

\* No key is made behind the reader's back: for every key the form asked for, the secret was
\* shown, or the form said that the creation could not be confirmed, or the reader left the
\* page while it was pending (apiKeyError and submit of api-key-create.tsx).
NothingSilent ==
    \A k \in New : stored[k] # "none" => k = awaiting \/ k \in accounted

\* Once the page was told that a key is revoked it never shows it as active or expired, whichever
\* list it holds, and it calls no key revoked that is not (overrides in api-keys.tsx).
RevokedAsShown ==
    \A k \in list.shown :
        /\ k \in confirmed => Status(Row(k), k, lapsed) = "Revoked"
        /\ Status(Row(k), k, lapsed) = "Revoked" => stored[k] = "revoked"

\* The dialog says "Secret copied" only of the secret that it shows (copySecret and revealOpen).
CopiedIsShown == reveal # None /\ copy = "copied" => reveal \in clipboard
=============================================================================
