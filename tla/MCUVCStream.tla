---------------------------- MODULE MCUVCStream ----------------------------
(* Model checking UVCStream: the transfers are interchangeable.            *)
EXTENDS UVCStream, TLC

Symmetry == Permutations(Transfers)
=============================================================================
