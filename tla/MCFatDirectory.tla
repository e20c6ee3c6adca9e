--------------------------- MODULE MCFatDirectory ---------------------------
(* Model checking FatDirectory: files are interchangeable, and so are      *)
(* folders, names and all handles but the root's.                          *)
EXTENDS FatDirectory, TLC

Symmetry == Permutations(Files) \cup Permutations(Folders)
              \cup Permutations(Names) \cup Permutations(Handles \ {RootHandle})
=============================================================================
