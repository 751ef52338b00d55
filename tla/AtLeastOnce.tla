----------------------------- MODULE AtLeastOnce -----------------------------
(***************************************************************************)
(* What the pipeline promises its clients: at-least-once delivery.  Once   *)
(* an event is accepted, the system either still keeps it, or it was       *)
(* delivered to the receiver, or it is archived as a dead letter.          *)
(***************************************************************************)
CONSTANT Events

VARIABLES accepted,   \* events whose request was answered 201
          kept,       \* events that wait in the outbox or in the queue
          delivered,  \* events the receiver answered with 2xx
          archived    \* events with a dead letter and its payload

vars == <<accepted, kept, delivered, archived>>

Init == accepted = {} /\ kept = {} /\ delivered = {} /\ archived = {}

\* The event, or one more copy of it, is stored.
Keep(e) ==
    /\ kept' = kept \cup {e}
    /\ UNCHANGED <<accepted, delivered, archived>>

Accept(e) ==
    /\ e \in kept \cup delivered \cup archived
    /\ accepted' = accepted \cup {e}
    /\ UNCHANGED <<kept, delivered, archived>>

\* Any number of times, also when the last trace is gone: duplicates are the
\* receiver's business.
Deliver(e) ==
    /\ e \in kept \cup delivered \cup archived
    /\ delivered' = delivered \cup {e}
    /\ UNCHANGED <<accepted, kept, archived>>

Archive(e) ==
    /\ archived' = archived \cup {e}
    /\ UNCHANGED <<accepted, kept, delivered>>

\* The last trace of an event goes only when it is dealt with.
Drop(e) ==
    /\ e \in delivered \cup archived
    /\ kept' = kept \ {e}
    /\ UNCHANGED <<accepted, delivered, archived>>

Next == \E e \in Events : Keep(e) \/ Accept(e) \/ Deliver(e) \/ Archive(e) \/ Drop(e)

Spec == Init /\ [][Next]_vars

\* Every accepted event is delivered or archived in the end.
Resolution == \A e \in Events : e \in accepted ~> e \in delivered \cup archived
=============================================================================
