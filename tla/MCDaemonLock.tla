---------------------------- MODULE MCDaemonLock ----------------------------
(* DaemonLock with the places where a process may be killed, and what the  *)
(* stack leaves in an uninitialised pid, for TLC.                          *)
EXTENDS DaemonLock, TLC

CONSTANTS p1, p2, p3
ThreeProcs == {p1, p2, p3}
Anywhere == Starting \cup {"held"}
OnlyWhenHeld == {"held"}
AlwaysFound == {Group}
Symmetry == Permutations(Procs)
=============================================================================
