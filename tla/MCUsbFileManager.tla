-------------------------- MODULE MCUsbFileManager --------------------------
(* Model checking UsbFileManager; a temporal property allows no symmetry.  *)
EXTENDS UsbFileManager
=============================================================================
