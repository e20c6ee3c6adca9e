---------------------------- MODULE MCUVCPreview ----------------------------
(* Model checking UVCPreview: symmetry of the interchangeable constants.   *)
EXTENDS UVCPreview, TLC

Symmetry == Permutations(Frames) \cup Permutations(CaptureThreads)
FrameSymmetry == Permutations(Frames)
=============================================================================
