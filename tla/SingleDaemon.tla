---------------------------- MODULE SingleDaemon ----------------------------
(***************************************************************************)
(* What the pid file of a daemon is for, without the file: at most one     *)
(* process runs the daemon's work(), a process is let in only when none    *)
(* runs, and the place is free again only when that process is gone.       *)
(***************************************************************************)
CONSTANT Procs
VARIABLE running   \* the processes inside work()

Init == running = {}
Admit(p) == running = {} /\ running' = {p}
Leave(p) == running = {p} /\ running' = {}
Next == \E p \in Procs : Admit(p) \/ Leave(p)
Spec == Init /\ [][Next]_running
=============================================================================
