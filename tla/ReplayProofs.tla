---------------------------- MODULE ReplayProofs ----------------------------
(***************************************************************************)
(* Proofs about Replay, for any requests, dead letters and keys.           *)
(***************************************************************************)
EXTENDS Replay, TLAPS

\* The unique indexes of table replays, on the key and on the dead letter.
Unique == \A p, q \in replays : p.key = q.key \/ p.source = q.source => p = q

\* A 202 tells of a stored replay of this key and this dead letter.
AnswerStored ==
    \A r \in Requests :
      pc[r] = "accepted" =>
        \E p \in replays : p.key = key[r] /\ p.source = source[r] /\ p.event = answer[r]

\* A repeated command is in the table, and the lookup by key is its only way on.
RepeatStored ==
    \A r \in Requests :
      repeats[r] =>
        /\ \E p \in replays : p.key = key[r] /\ p.source = source[r]
        /\ pc[r] \in {"key", "accepted", "unavailable"}

\* Past findReplaySource the dead letter is known to exist.
SourceKnown ==
    \A r \in Requests :
      /\ pc[r] # "new" => key[r] \in IdemKeys
      /\ pc[r] \in {"archive", "check", "insert"} => source[r] \in Sources

IInv == TypeOK /\ Unique /\ NoOrphans /\ AnswerStored /\ RepeatStored /\ SourceKnown

USE ReplayAssumption
-----------------------------------------------------------------------------
\* The lookups by key, before and inside the transaction and after a conflict:
\* a request that finds its key is answered from the row found.
LEMMA AnswerKeeps ==
    ASSUME IInv, NEW r \in Requests, NEW p \in ByKey(key[r]), Answer(r, p),
           pc[r] \in {"key", "check", "resolve"},
           UNCHANGED <<status, archive, replays, events, key, source, repeats>>
    PROVE  IInv'
<1> USE DEF IInv, TypeOK, Statuses, Finals, ByKey, Answer, Goto
<1>1. p \in replays /\ p.key = key[r] /\ p.event \in Requests
  OBVIOUS
<1>2. TypeOK'
  BY <1>1
<1>3. Unique' /\ NoOrphans'
  BY DEF Unique, NoOrphans
<1>4. AnswerStored'
  BY <1>1 DEF AnswerStored
<1>5. RepeatStored'
  <2>1. repeats[r] => p.source = source[r]
    BY <1>1 DEF RepeatStored, Unique
  <2> QED
    BY <2>1 DEF RepeatStored
<1>6. SourceKnown'
  BY DEF SourceKnown
<1> QED
  BY <1>2, <1>3, <1>4, <1>5, <1>6

\* Every step of a request, and what workers and S3 do meanwhile, keeps the
\* inductive invariant.
LEMMA InvStep == IInv /\ [Next]_vars => IInv'
<1> SUFFICES ASSUME IInv, [Next]_vars PROVE IInv'
  OBVIOUS
<1> USE DEF IInv, TypeOK, Statuses, Finals, Unique, NoOrphans, AnswerStored, RepeatStored,
        SourceKnown, Goto
<1>1. ASSUME NEW s \in Sources, NEW new \in Statuses, WorkerWrites(s, new) PROVE IInv'
  BY <1>1 DEF WorkerWrites
<1>2. ASSUME NEW s \in Sources, ArchiveVanishes(s) PROVE IInv'
  BY <1>2 DEF ArchiveVanishes
<1>3. ASSUME NEW r \in Requests, NEW k \in IdemKeys, NEW s \in Sources \cup {None}, Begin(r, k, s)
      PROVE  IInv'
  <2>1. TypeOK' /\ Unique' /\ NoOrphans'
    BY <1>3 DEF Begin
  <2>2. AnswerStored'
    BY <1>3 DEF Begin
  <2>3. RepeatStored' /\ SourceKnown'
    BY <1>3 DEF Begin
  <2> QED
    BY <2>1, <2>2, <2>3
<1>4. ASSUME NEW r \in Requests, FindReplayByKey(r) PROVE IInv'
  <2>1. CASE \E p \in ByKey(key[r]) : Answer(r, p)
    BY <1>4, <2>1, AnswerKeeps DEF FindReplayByKey
  <2>2. CASE ByKey(key[r]) = {} /\ Goto(r, "source") /\ UNCHANGED answer
    BY <1>4, <2>2 DEF FindReplayByKey, ByKey
  <2> QED
    BY <1>4, <2>1, <2>2 DEF FindReplayByKey
<1>5. ASSUME NEW r \in Requests, FindReplaySource(r) PROVE IInv'
  BY <1>5 DEF FindReplaySource
<1>6. ASSUME NEW r \in Requests, ReadArchivedPayload(r) PROVE IInv'
  BY <1>6 DEF ReadArchivedPayload
<1>7. ASSUME NEW r \in Requests, CheckReplay(r) PROVE IInv'
  <2>1. CASE \E p \in ByKey(key[r]) : Answer(r, p)
    BY <1>7, <2>1, AnswerKeeps DEF CheckReplay
  <2>2. CASE ~\E p \in ByKey(key[r]) : Answer(r, p)
    BY <1>7, <2>2 DEF CheckReplay
  <2> QED
    BY <2>1, <2>2
<1>8. ASSUME NEW r \in Requests, InsertReplay(r) PROVE IInv'
  <2>1. CASE ByKey(key[r]) = {} /\ Of(source[r]) = {}
    <3> DEFINE new == [key |-> key[r], source |-> source[r], event |-> r]
    <3>1. /\ new \in [key : IdemKeys, source : Sources, event : Requests]
          /\ new.key = key[r] /\ new.source = source[r] /\ new.event = r
      BY <1>8 DEF InsertReplay
    <3>2. /\ replays' = replays \cup {new} /\ events' = events \cup {r}
          /\ answer' = [answer EXCEPT ![r] = r] /\ pc' = [pc EXCEPT ![r] = "accepted"]
          /\ UNCHANGED <<status, archive, key, source, repeats>>
      BY <1>8, <2>1 DEF InsertReplay
    <3> HIDE DEF new
    <3>3. TypeOK' /\ SourceKnown'
      BY <3>1, <3>2
    <3>4. Unique'
      BY <2>1, <3>1, <3>2 DEF ByKey, Of
    <3>5. NoOrphans'
      BY <3>1, <3>2
    <3>6. AnswerStored'
      BY <3>1, <3>2
    <3>7. RepeatStored'
      BY <1>8, <3>2 DEF InsertReplay
    <3> QED
      BY <3>3, <3>4, <3>5, <3>6, <3>7
  <2>2. CASE ~(ByKey(key[r]) = {} /\ Of(source[r]) = {})
    BY <1>8, <2>2 DEF InsertReplay
  <2> QED
    BY <2>1, <2>2
<1>9. ASSUME NEW r \in Requests, ResolveConflict(r) PROVE IInv'
  <2>1. CASE \E p \in ByKey(key[r]) : Answer(r, p)
    BY <1>9, <2>1, AnswerKeeps DEF ResolveConflict
  <2>2. CASE ~\E p \in ByKey(key[r]) : Answer(r, p)
    BY <1>9, <2>2 DEF ResolveConflict
  <2> QED
    BY <2>1, <2>2
<1>10. ASSUME NEW r \in Requests, Unavailable(r) PROVE IInv'
  BY <1>10 DEF Unavailable
<1>11. CASE UNCHANGED vars
  BY <1>11 DEF vars
<1> QED
  BY <1>1, <1>2, <1>3, <1>4, <1>5, <1>6, <1>7, <1>8, <1>9, <1>10, <1>11 DEF Next, Step

LEMMA Invariance == Spec => []IInv
<1>1. Init => IInv
  BY DEF Init, IInv, TypeOK, Statuses, Finals, Unique, NoOrphans, AnswerStored,
     RepeatStored, SourceKnown
<1> QED
  BY <1>1, InvStep, PTL DEF Spec

\* The tables and the requests of any number of clients keep their types.
THEOREM TypeCorrect == Spec => []TypeOK
  BY Invariance, PTL DEF IInv

\* Whatever races, all 202 answers for one dead letter, or for one key, name one
\* and the same event.
THEOREM ReplayedOnce == Spec => []OneReplay
<1>1. IInv => OneReplay
  BY DEF IInv, Unique, AnswerStored, OneReplay
<1> QED
  BY <1>1, Invariance, PTL

\* The replay transaction is all or nothing: events and replays agree.
THEOREM NothingOrphaned == Spec => []NoOrphans
  BY Invariance, PTL DEF IInv

\* A command that was committed before the request began is answered from the
\* stored replay.
THEOREM RepeatsAnswered == Spec => []RepeatAnswered
<1>1. IInv => RepeatAnswered
  BY DEF IInv, RepeatStored, RepeatAnswered, Finals
<1> QED
  BY <1>1, Invariance, PTL
=============================================================================
