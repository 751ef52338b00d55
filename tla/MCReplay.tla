------------------------------ MODULE MCReplay ------------------------------
(***************************************************************************)
(* Instances of Replay for TLC: requests, keys and the dead letters of one  *)
(* destination are interchangeable.                                        *)
(***************************************************************************)
EXTENDS Replay, TLC

MCSymmetry ==
    Permutations(Requests) \cup Permutations(Sources \ Elsewhere) \cup Permutations(IdemKeys)
=============================================================================
