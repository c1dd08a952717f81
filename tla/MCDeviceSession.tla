--------------------------- MODULE MCDeviceSession ---------------------------
(* DeviceSession for TLC.                                                  *)
EXTENDS DeviceSession

\* Two tries: one that fails and is repeated, one that is the last.
Attempts == 2
\* The first device and one made in its place, at the first try or the last.
DeviceBound == 2
\* One execution that the engine takes or refuses.
ExecuteBound == 1

\* A machine on which everything fits, and one with the stock runtime on an
\* Ada card.
Machines ==
  {[arch |-> "Ada", runtime |-> "patched", forwarder |-> "ours"],
   [arch |-> "Ada", runtime |-> "stock", forwarder |-> "ours"]}
===============================================================================
