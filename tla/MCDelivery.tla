----------------------------- MODULE MCDelivery -----------------------------
(***************************************************************************)
(* Instances of Delivery for TLC.                                          *)
(***************************************************************************)
EXTENDS Delivery, TLC

CONSTANTS small, large,  \* an event with an inline payload, one in S3
          w1, w2

MCBadMessage == {<<large, 3>>}
MCNoMessages == {}

\* Workers are interchangeable: for runs without temporal properties.
MCSymmetry == Permutations(Workers)
=============================================================================
