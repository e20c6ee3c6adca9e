------------------------------- MODULE MCFAT -------------------------------
(* Model checking FAT: the files are interchangeable.                      *)
EXTENDS FAT, TLC

Symmetry == Permutations(Files)
=============================================================================
