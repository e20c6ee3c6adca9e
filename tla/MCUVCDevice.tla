---------------------------- MODULE MCUVCDevice ----------------------------
(* Model checking UVCDevice; a temporal property allows no symmetry.       *)
EXTENDS UVCDevice
=============================================================================
