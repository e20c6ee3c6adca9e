------------------------ MODULE MCUsbCameraManager ------------------------
(* Model checking UsbCameraManager: the devices are interchangeable.       *)
EXTENDS UsbCameraManager, TLC

Symmetry == Permutations(Devices)
=============================================================================
