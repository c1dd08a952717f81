--------------------------- MODULE MCControlChannel ---------------------------
(* ControlChannel for TLC.                                                 *)
EXTENDS ControlChannel, TLC

CONSTANTS r1, r2, w1, w2

\* Two runtimes suffice for a race, two words for a torn copy.
RuntimeSet == {r1, r2}
WordSet == {w1, w2}

\* One try that fails and one that is the last.
Attempts == 2
PublishBound == 2
\* A runtime, its rival and a relaunch.
LaunchBound == 3

\* Runtimes are interchangeable, and so are words.
Symmetry == Permutations(RuntimeSet) \cup Permutations(WordSet)
===============================================================================
