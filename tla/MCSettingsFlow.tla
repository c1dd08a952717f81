---------------------------- MODULE MCSettingsFlow ----------------------------
(* SettingsFlow for TLC.                                                   *)
EXTENDS SettingsFlow

\* One custom preset beside the two that ship makes a ring of three.
CustomNames == {"Mine"}
AppClasses == {"game"}
ActBound == 4
RefusalBound == 1
===============================================================================
