---------------------------- MODULE MCNativeCalls ---------------------------
(* Constants of the NativeCalls run.                                          *)
EXTENDS NativeCalls

\* What the generator emits; win32.Call with an OutParam on top is as either alone.
MCRoutes == AllRoutes \ {[via |-> "Call", pointee |-> "outParam"]}
=============================================================================
