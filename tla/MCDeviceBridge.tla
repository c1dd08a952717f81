---------------------------- MODULE MCDeviceBridge ----------------------------
(***************************************************************************)
(* Model checking DeviceBridge: the depth of the code's ring and enough    *)
(* frames for the ring to turn over while one slot is held.          *)
(***************************************************************************)
EXTENDS DeviceBridge

Depth == 3
FrameBound == 5
===============================================================================
