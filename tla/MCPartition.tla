---------------------------- MODULE MCPartition ----------------------------
(* Model checking Partition: the versions a client writes are              *)
(* interchangeable.                                                        *)
EXTENDS Partition, TLC

Symmetry == Permutations(Versions)
=============================================================================
