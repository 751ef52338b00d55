------------------------------ MODULE MCConsole ------------------------------
(***************************************************************************)
(* Console for TLC.  The list of deliveries starts with three rows of one  *)
(* moment, so that the ids decide, and another row of the next may come.   *)
(***************************************************************************)
EXTENDS Console

Row(at, id) == [at |-> at, id |-> id]

MCFirst == [r \in {Row(1, 1), Row(1, 2), Row(1, 3)} |-> IF r.id = 2 THEN "SUCCEEDED" ELSE "PENDING"]

MCRows == DOMAIN MCFirst \cup {Row(2, 1)}
=============================================================================
