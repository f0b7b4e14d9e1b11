--------------------------- MODULE MCCaptureRun -----------------------------
(* Model checking of CaptureRun; its constants are a number and a flag, so *)
(* the configurations give them directly.                                  *)
EXTENDS CaptureRun
=============================================================================
