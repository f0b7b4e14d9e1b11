------------------------- MODULE MCCaptureSession ---------------------------
(* Model checking of CaptureSession; its constants are numbers and flags,  *)
(* so the configurations give them directly.                               *)
EXTENDS CaptureSession
=============================================================================
