------------------------------ MODULE ListPages ------------------------------
(***************************************************************************)
(* The list of deliveries, page by page: the API reads one page of rows    *)
(* below a cursor from a standby (api/src/services/delivery-history.ts,    *)
(* api/src/repositories/delivery-history.ts), and the dashboard walks from *)
(* page to page and drops the answers it no longer waits for               *)
(* (web/src/components/dashboard/deliveries.tsx, web/src/lib/              *)
(* delivery-list.ts).  The list of dead letters walks the same way,        *)
(* without a filter.  The list of API keys is read from the primary, and   *)
(* its cursor is the id of a row: it is refused with 400 once that key was *)
(* deleted with its membership, which is not modelled here.                *)
(*                                                                         *)
(* A row is its sort key, createdAt and id.  Rows become visible in any    *)
(* order: createdAt is when a transaction starts, not when the standby     *)
(* replays it.  A cursor is decoded to what it was made from: the filter   *)
(* it was issued for and the last row of its page.                         *)
(***************************************************************************)
EXTENDS Integers, Sequences, FiniteSets

CONSTANTS
    Rows,        \* records [at, id]
    Statuses,
    Filters,     \* statuses the reader filters by, and All
    First,       \* the rows the standby shows at first, with their status
    Limits,      \* page sizes
    MaxChanges,  \* bound on the changes of the table, for TLC
    MaxClicks    \* bound on what the reader does, for TLC

VARIABLES
    table,       \* the deliveries the standby shows, row to status
    changed,     \* rows that changed since the page was opened
    clicks,
    query,       \* the state of deliveryListReducer
    resource,    \* the answer on the page and the key it was asked for
    requests,    \* requests whose callbacks have not run
    mounted,
    walk         \* what the page last showed at each depth of query.cursors

vars == <<table, changed, clicks, query, resource, requests, mounted, walk>>

ListAssumption ==
    /\ Rows \subseteq [at : Nat, id : Nat]
    /\ DOMAIN First \subseteq Rows /\ IsFiniteSet(DOMAIN First) /\ First \in [DOMAIN First -> Statuses]
    /\ Filters \subseteq Statuses \cup {"ALL"} /\ "ALL" \in Filters
    /\ Limits \subseteq (Nat \ {0}) /\ Limits # {}
    /\ MaxChanges \in Nat /\ MaxClicks \in Nat

All == "ALL"

Top == [top |-> TRUE]

Cursors == [filter : Filters, row : Rows] \cup {Top}

Keys == [filter : Filters, limit : Limits, cursor : Cursors, revision : 0 .. MaxClicks]

Failures == {"invalid", "signed-out", "failed"}

Unread == [status |-> "unread"]

Answers ==
    [status : {"ready"}, items : SUBSET Rows, next : Cursors]
        \cup [status : {"error"}, code : Failures]

Loading == [status |-> "loading"]

Ends(cursors) == cursors[Len(cursors)]

\* The key of a request: the path of the query and its revision.
Key(q) == [filter |-> q.filter, limit |-> q.limit, cursor |-> Ends(q.cursors),
           revision |-> q.revision]

\* One type invariant for the page and its requests.
TypeOK ==
    /\ table \in [DOMAIN table -> Statuses] /\ DOMAIN table \subseteq Rows
    /\ changed \subseteq Rows
    /\ clicks \in 0 .. MaxClicks
    /\ query.filter \in Filters /\ query.limit \in Limits
    /\ query.cursors \in Seq(Cursors) /\ query.cursors # <<>>
    /\ Key(query) \in Keys
    /\ resource.key \in Keys /\ resource.answer \in Answers \cup {Loading}
    /\ \A q \in requests : q.key \in Keys /\ q.answer \in Answers \cup {Unread}
    /\ Cardinality({q \in requests : q.live}) <= 1
    /\ mounted \in BOOLEAN
    /\ walk \in Seq(SUBSET Rows)

FirstQuery ==
    [filter |-> All, limit |-> CHOOSE n \in Limits : TRUE, cursors |-> <<Top>>, revision |-> 0]

Asked(k) == [key |-> k, live |-> TRUE, answer |-> Unread]

Init ==
    /\ table = First /\ changed = {} /\ clicks = 0
    /\ query = FirstQuery
    /\ resource = [key |-> Key(FirstQuery), answer |-> Loading]
    /\ requests = {Asked(Key(FirstQuery))}
    /\ mounted = TRUE
    /\ walk = <<>>

-----------------------------------------------------------------------------
(* The API. *)

Matches(r, filter) == filter \in {All, table[r]}

\* Mutant: the cursor compares the stamps alone.
BelowStamp(r, s) == r.at < s.at

\* The order of the list, and the condition of a cursor.
Below(r, s) == r.at < s.at \/ (r.at = s.at /\ r.id < s.id)

Found(k) ==
    {r \in DOMAIN table : Matches(r, k.filter) /\ (k.cursor = Top \/ Below(r, k.cursor.row))}

\* The n first rows of a set in the order of the list.
Take(rows, n) ==
    {r \in rows : Cardinality({s \in rows : s.at > r.at \/ (s.at = r.at /\ s.id > r.id)}) < n}

LastOf(rows) == CHOOSE r \in rows : Take(rows, Cardinality(rows) - 1) = rows \ {r}

\* One row more than the page holds says whether there is a next page.
Page(k) ==
    LET rows == Take(Found(k), k.limit + 1)
        items == Take(rows, k.limit)
    IN  [status |-> "ready", items |-> items,
         next |-> IF Cardinality(rows) > k.limit
                  THEN [filter |-> k.filter, row |-> LastOf(items)] ELSE Top]

\* A cursor of another filter is refused with 400.
Fits(k) == k.cursor = Top \/ k.cursor.filter = k.filter

Answered(q, answer) == requests' = (requests \ {q}) \cup {[q EXCEPT !.answer = answer]}

Serve(q) ==
    /\ q.answer = Unread
    /\ Answered(q, IF Fits(q.key) THEN Page(q.key) ELSE [status |-> "error", code |-> "invalid"])
    /\ UNCHANGED <<table, changed, clicks, query, resource, mounted, walk>>

\* The session ended; or the membership ended, the standby failed or is none,
\* or no answer came within 20 s.  Nobody sees a request given up fail.
ServeFails(q) ==
    /\ q.live /\ q.answer = Unread
    /\ \E code \in Failures \ {"invalid"} : Answered(q, [status |-> "error", code |-> code])
    /\ UNCHANGED <<table, changed, clicks, query, resource, mounted, walk>>

\* The standby replays a new delivery or a change of one.
Change(r, status) ==
    /\ mounted /\ Cardinality(changed) < MaxChanges
    /\ ~(r \in DOMAIN table /\ table[r] = status)
    /\ table' = [s \in DOMAIN table \cup {r} |-> IF s = r THEN status ELSE table[s]]
    /\ changed' = changed \cup {r}
    /\ UNCHANGED <<clicks, query, resource, requests, mounted, walk>>

-----------------------------------------------------------------------------
(* The page. *)

Current == IF resource.key = Key(query) THEN resource.answer ELSE Loading

IsLoading == Current.status = "loading"

\* Mutant: the effect has no cleanup.
DroppedNone == requests

\* controller.abort()
Dropped == {[q EXCEPT !.live = FALSE] : q \in requests}

\* The reducer's new state; the effect aborts the request of the old key and
\* starts one for the new, before the browser's next event.
Dispatch(q) ==
    /\ mounted /\ clicks < MaxClicks
    /\ clicks' = clicks + 1
    /\ query' = q
    /\ IF Key(q) = Key(query) THEN UNCHANGED <<resource, requests, walk>>
       ELSE /\ resource' = [key |-> Key(q), answer |-> Loading]
            /\ requests' = Dropped \cup {Asked(Key(q))}
            /\ walk' = SubSeq(walk, 1, Len(q.cursors) - 1)
    /\ UNCHANGED <<table, changed, mounted>>

\* Mutant: the walk goes on where it was under the new filter.
FilteredHere(q, f) == [q EXCEPT !.filter = f]

Filtered(q, f) == [q EXCEPT !.filter = f, !.cursors = <<Top>>]

SetFilter(f) == Dispatch(Filtered(query, f))

SetLimit(n) == Dispatch([query EXCEPT !.limit = n, !.cursors = <<Top>>])

NextPage ==
    /\ Current.status = "ready" /\ Current.next # Top
    /\ Dispatch([query EXCEPT !.cursors = Append(@, Current.next)])

PreviousPage ==
    /\ ~IsLoading /\ Len(query.cursors) > 1
    /\ Dispatch([query EXCEPT !.cursors = SubSeq(@, 1, Len(@) - 1)])

Refresh ==
    /\ ~IsLoading
    /\ Dispatch([query EXCEPT !.revision = @ + 1])

\* The effect's cleanup aborts: no callback does anything from here on.
Leave ==
    /\ mounted
    /\ mounted' = FALSE /\ requests' = {}
    /\ UNCHANGED <<table, changed, clicks, query, resource, walk>>

\* Mutant: whatever answer comes is shown.
AppliesLate(q) == TRUE

\* signal.aborted: an answer that comes after its request was given up is dropped.
Applies(q) == q.live

\* The callbacks of a request; a session that ended unmounts the page.
Arrive(q) ==
    /\ q.answer # Unread
    /\ LET ended == q.answer.status = "error" /\ q.answer.code = "signed-out"
           applies == Applies(q) /\ ~ended
           leaves == Applies(q) /\ ended
       IN  /\ mounted' = ~leaves
           /\ requests' = IF leaves THEN {} ELSE requests \ {q}
           /\ resource' = IF applies THEN [key |-> q.key, answer |-> q.answer] ELSE resource
           /\ walk' = IF applies /\ q.answer.status = "ready" /\ q.key = Key(query)
                      THEN Append(SubSeq(walk, 1, Len(query.cursors) - 1), q.answer.items) ELSE walk
    /\ UNCHANGED <<table, changed, clicks, query>>

Next ==
    \/ \E q \in requests : Serve(q) \/ ServeFails(q) \/ Arrive(q)
    \/ \E r \in Rows, s \in Statuses : Change(r, s)
    \/ \E f \in Filters : SetFilter(f)
    \/ \E n \in Limits : SetLimit(n)
    \/ NextPage \/ PreviousPage \/ Refresh \/ Leave

Spec == Init /\ [][Next]_vars

-----------------------------------------------------------------------------
\* Following Next from page to page shows no row twice and, of the rows that
\* did not change meanwhile, leaves none out: every one that is not below the
\* page shown is on a page of the walk, whatever rows appear or change beside
\* them (repositories/delivery-history.ts, services/delivery-history.ts).
WalkComplete ==
    mounted /\ Current.status = "ready" =>
        /\ Len(walk) = Len(query.cursors)
        /\ \A i, j \in DOMAIN walk : i # j => walk[i] \cap walk[j] = {}
        /\ \A r \in DOMAIN table \ changed :
              Matches(r, query.filter) /\ (Current.next = Top \/ ~Below(r, Current.next.row))
                => \E i \in DOMAIN walk : r \in walk[i]

\* The page never sends a cursor the API refuses: a cursor is bound to its
\* filter, and the reducer forgets the cursors of the filter it leaves
\* (delivery-history-query.ts, deliveryListReducer).
CursorsFit == \A q \in requests : Fits(q.key)

\* A page that says it is loading has a request of its own under way, which is
\* answered or given up after 20 s: the late answer of a request it gave up does
\* not take the place of the one it waits for and leave it loading for ever
\* (deliveries.tsx).
LoadingIsAwaited ==
    mounted /\ IsLoading => \E q \in requests : q.live /\ q.key = Key(query)
=============================================================================
