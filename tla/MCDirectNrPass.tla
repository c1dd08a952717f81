--------------------------- MODULE MCDirectNrPass ---------------------------
(* DirectNrPass for TLC.                                                   *)
EXTENDS DirectNrPass

\* Room for two generations of two passes.
HandleSet == 1 .. 4
NullHandle == 0
PassBound == 2
CreateFrame == 2
\* One refused frame that is borne and one that is the last.
Refusals == 2
\* The first setup, one being built and one that replaces it.
SetupBound == 3
===============================================================================
