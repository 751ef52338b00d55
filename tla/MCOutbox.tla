------------------------------ MODULE MCOutbox ------------------------------
(***************************************************************************)
(* Instances of Outbox for TLC.                                            *)
(***************************************************************************)
EXTENDS Outbox, TLC

CONSTANTS p1, p2

\* Two tenants: a row of the first in S3, a row of the second inline.
MCTwoRows == 1 :> 1 @@ 2 :> 2

\* Three tenants with a row each.
MCThreeRows == 1 :> 1 @@ 2 :> 2 @@ 3 :> 3

\* Publishers are interchangeable: for runs without temporal properties.
MCSymmetry == Permutations(Publishers)
=============================================================================
