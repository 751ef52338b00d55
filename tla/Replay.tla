------------------------------- MODULE Replay -------------------------------
(***************************************************************************)
(* Manual replay of dead letters (packages/api/src/services/replays.ts and *)
(* repositories/replays.ts): concurrent requests, each with the client's   *)
(* idempotency key.  The checks, the read of the archive and the           *)
(* transaction are separate steps; the transaction is read committed, so   *)
(* that its check and its insert see different states, and the unique      *)
(* indexes of table replays decide at the insert.                          *)
(***************************************************************************)
EXTENDS Integers, FiniteSets

CONSTANTS Requests,   \* replay requests; a created event is named by its request
          Sources,    \* dead letters of one tenant
          Elsewhere,  \* those with another destination than RECEIVER_URL
          IdemKeys,   \* values of Idempotency-Key
          None

ASSUME ReplayAssumption == None \notin Requests /\ Elsewhere \subseteq Sources

VARIABLES status,     \* status of the delivery of each dead letter
          archive,    \* dead letters whose payload can be read
          replays,    \* table replays
          events,     \* events with an outbox row made by a replay
          pc, key, source,   \* requestReplay
          answer,     \* event id of a 202
          repeats     \* history: the request found its command committed

vars == <<status, archive, replays, events, pc, key, source, answer, repeats>>

\* Of a delivery's other statuses none is treated differently from IN_FLIGHT.
Statuses == {"DEAD_LETTERED", "IN_FLIGHT"}

Finals == {"accepted", "not_found", "conflict", "gone", "unavailable"}

ByKey(k) == {p \in replays : p.key = k}
Of(s)    == {p \in replays : p.source = s}

Init ==
    /\ status = [s \in Sources |-> "DEAD_LETTERED"]
    /\ archive = Sources
    /\ replays = {}
    /\ events = {}
    /\ pc = [r \in Requests |-> "new"]
    /\ key = [r \in Requests |-> None]
    /\ source = [r \in Requests |-> None]
    /\ answer = [r \in Requests |-> None]
    /\ repeats = [r \in Requests |-> FALSE]

Goto(r, step) == pc' = [pc EXCEPT ![r] = step]

\* A worker that still handled the message of the delivery writes its status.
WorkerWrites(s, new) ==
    /\ status[s] # new
    /\ status' = [status EXCEPT ![s] = new]
    /\ UNCHANGED <<archive, replays, events, pc, key, source, answer, repeats>>

ArchiveVanishes(s) ==
    /\ archive' = archive \ {s}
    /\ archive' # archive
    /\ UNCHANGED <<status, replays, events, pc, key, source, answer, repeats>>

\* postReplay with valid input.
Begin(r, k, s) ==
    /\ pc[r] = "new"
    /\ key' = [key EXCEPT ![r] = k]
    /\ source' = [source EXCEPT ![r] = s]
    /\ repeats' = [repeats EXCEPT ![r] = \E p \in replays : p.key = k /\ p.source = s]
    /\ Goto(r, "key")
    /\ UNCHANGED <<status, archive, replays, events, answer>>

\* response: the stored replay, if it is one of this dead letter.
Answer(r, p) ==
    IF p.source = source[r]
      THEN Goto(r, "accepted") /\ answer' = [answer EXCEPT ![r] = p.event]
      ELSE Goto(r, "conflict") /\ UNCHANGED answer

\* Mutant: the key is not looked up before the checks.
FindReplayByKeyLater(r) ==
    /\ pc[r] = "key"
    /\ Goto(r, "source")
    /\ UNCHANGED <<status, archive, replays, events, key, source, answer, repeats>>

\* findReplayByKey
FindReplayByKey(r) ==
    /\ pc[r] = "key"
    /\ \/ \E p \in ByKey(key[r]) : Answer(r, p)
       \/ ByKey(key[r]) = {} /\ Goto(r, "source") /\ UNCHANGED answer
    /\ UNCHANGED <<status, archive, replays, events, key, source, repeats>>

\* findReplaySource and the checks on what it returns.
FindReplaySource(r) ==
    /\ pc[r] = "source"
    /\ Goto(r, CASE source[r] \notin Sources              -> "not_found"
                 [] status[source[r]] # "DEAD_LETTERED"   -> "conflict"
                 [] Of(source[r]) # {}                    -> "conflict"
                 [] source[r] \in Elsewhere               -> "conflict"
                 [] OTHER                                 -> "archive")
    /\ UNCHANGED <<status, archive, replays, events, key, source, answer, repeats>>

ReadArchivedPayload(r) ==
    /\ pc[r] = "archive"
    /\ Goto(r, IF source[r] \in archive THEN "check" ELSE "gone")
    /\ UNCHANGED <<status, archive, replays, events, key, source, answer, repeats>>

\* createReplay: the reads of the transaction (the destination and the archive key
\* of a dead letter do not change) ...
CheckReplay(r) ==
    /\ pc[r] = "check"
    /\ \/ \E p \in ByKey(key[r]) : Answer(r, p)
       \/ /\ ByKey(key[r]) = {}
          /\ Goto(r, IF status[source[r]] # "DEAD_LETTERED" THEN "conflict" ELSE "insert")
          /\ UNCHANGED answer
    /\ UNCHANGED <<status, archive, replays, events, key, source, repeats>>

\* Mutant: no unique index on the dead letter.
InsertReplayByKeyOnly(r) ==
    /\ pc[r] = "insert"
    /\ IF ByKey(key[r]) = {}
         THEN /\ replays' = replays \cup {[key |-> key[r], source |-> source[r], event |-> r]}
              /\ events' = events \cup {r}
              /\ answer' = [answer EXCEPT ![r] = r]
              /\ Goto(r, "accepted")
         ELSE Goto(r, "resolve") /\ UNCHANGED <<replays, events, answer>>
    /\ UNCHANGED <<status, archive, key, source, repeats>>

\* Mutant: the event is created outside the transaction.
InsertReplayEventFirst(r) ==
    /\ pc[r] = "insert"
    /\ events' = events \cup {r}
    /\ IF ByKey(key[r]) = {} /\ Of(source[r]) = {}
         THEN /\ replays' = replays \cup {[key |-> key[r], source |-> source[r], event |-> r]}
              /\ answer' = [answer EXCEPT ![r] = r]
              /\ Goto(r, "accepted")
         ELSE Goto(r, "resolve") /\ UNCHANGED <<replays, answer>>
    /\ UNCHANGED <<status, archive, key, source, repeats>>

\* ... and its inserts, which commit together or, on a unique index, not at all.
InsertReplay(r) ==
    /\ pc[r] = "insert"
    /\ IF ByKey(key[r]) = {} /\ Of(source[r]) = {}
         THEN /\ replays' = replays \cup {[key |-> key[r], source |-> source[r], event |-> r]}
              /\ events' = events \cup {r}
              /\ answer' = [answer EXCEPT ![r] = r]
              /\ Goto(r, "accepted")
         ELSE Goto(r, "resolve") /\ UNCHANGED <<replays, events, answer>>
    /\ UNCHANGED <<status, archive, key, source, repeats>>

\* P2002: the command may have been committed by another request.
ResolveConflict(r) ==
    /\ pc[r] = "resolve"
    /\ \/ \E p \in ByKey(key[r]) : Answer(r, p)
       \/ ByKey(key[r]) = {} /\ Goto(r, "conflict") /\ UNCHANGED answer
    /\ UNCHANGED <<status, archive, replays, events, key, source, repeats>>

\* A failing call, or a 202 that is lost on its way.
Unavailable(r) ==
    /\ pc[r] \notin Finals \cup {"new"} \/ pc[r] = "accepted"
    /\ Goto(r, "unavailable")
    /\ answer' = [answer EXCEPT ![r] = None]
    /\ UNCHANGED <<status, archive, replays, events, key, source, repeats>>

Step(r) ==
    \/ FindReplayByKey(r) \/ FindReplaySource(r) \/ ReadArchivedPayload(r)
    \/ CheckReplay(r) \/ InsertReplay(r) \/ ResolveConflict(r)

Next ==
    \/ \E s \in Sources :
         \/ \E new \in Statuses : WorkerWrites(s, new)
         \/ ArchiveVanishes(s)
    \/ \E r \in Requests :
         \/ \E k \in IdemKeys, s \in Sources \cup {None} : Begin(r, k, s)
         \/ Step(r) \/ Unavailable(r)

Spec == Init /\ [][Next]_vars

-----------------------------------------------------------------------------
TypeOK ==
    /\ status \in [Sources -> Statuses]
    /\ archive \subseteq Sources
    /\ replays \subseteq [key : IdemKeys, source : Sources, event : Requests]
    /\ events \subseteq Requests
    /\ pc \in [Requests -> Finals \cup {"new", "key", "source", "archive", "check",
                                        "insert", "resolve"}]
    /\ key \in [Requests -> IdemKeys \cup {None}]
    /\ source \in [Requests -> Sources \cup {None}]
    /\ answer \in [Requests -> Requests \cup {None}]
    /\ repeats \in [Requests -> BOOLEAN]

\* Requests that are answered 202 for one dead letter are told of one event, and so
\* are requests with one key: there is never a second replay to follow.
OneReplay ==
    \A q, r \in Requests :
      /\ pc[q] = "accepted" /\ pc[r] = "accepted"
      /\ source[q] = source[r] \/ key[q] = key[r]
      => answer[q] = answer[r]

\* A transaction that loses a race leaves nothing behind, and one that wins leaves
\* the event, its outbox row and the audit record: the publisher sends exactly the
\* events that have a replay.
NoOrphans == events = {p.event : p \in replays}

\* Who repeats a command that was already committed is told of the stored replay,
\* whatever became of the delivery and of the archive since.
RepeatAnswered ==
    \A r \in Requests :
      repeats[r] /\ pc[r] \in Finals => pc[r] \in {"accepted", "unavailable"}
=============================================================================
