---------------------------- MODULE MCTransport ----------------------------
(***************************************************************************)
(* Instances of Transport for TLC.                                         *)
(***************************************************************************)
EXTENDS Transport

CONSTANTS c1, c2, bcast, none

ChannelSymmetry == Permutations(Cids)

=============================================================================
