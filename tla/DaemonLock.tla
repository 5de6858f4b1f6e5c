----------------------------- MODULE DaemonLock -----------------------------
(***************************************************************************)
(* Daemon::has_lock (daemon/daemon.h): the pid file that is meant to keep  *)
(* a second copy of a daemon from running on a host.  A process is known   *)
(* by its pid.  Every system call of has_lock is a step, so that several   *)
(* processes, and their deaths, interleave between the calls.              *)
(*                                                                         *)
(* Files are numbered in the order of their creation: an unlinked file     *)
(* keeps its contents for the processes that still have it open.           *)
(***************************************************************************)
EXTENDS Naturals, Sequences

CONSTANTS Procs,      \* the pids
          Serial,     \* TRUE: no daemon is started while another one starts
          Failing,    \* which of open(), write() and read() may fail
          Garbage,    \* what the uninitialised variable pid may hold
          PidReuse,   \* TRUE: a free pid may go to a program of another kind
          DiesAt,     \* where a process may be killed
          MaxStarts   \* bound: how many times a daemon is started

Empty  == "empty"     \* the contents of a lock file nobody has written yet
Group  == "group"     \* 0 and -1: to kill(), processes that always exist
NoFile == 0           \* the lock path names no file
Tries  == 3

Starting == {"open", "openRd", "read", "kill", "unlink", "write"}
PcValues == Starting \cup {"off", "held", "other"}

ASSUME ProcsAssumption  == Procs \cap {Empty, Group} = {}
ASSUME FlagsAssumption  == {Serial, PidReuse} \subseteq BOOLEAN
ASSUME FailAssumption   == /\ Failing \subseteq {"open", "write", "read"}
                           /\ Garbage \subseteq Procs \cup {Group}
ASSUME DiesAtAssumption == DiesAt \subseteq Starting \cup {"held"}
ASSUME StartsAssumption == MaxStarts \in Nat

VARIABLES
    pc,       \* pc[p]: the call of has_lock that p makes next; "off": there is
              \* no such process; "held": has_lock returned true, work() runs;
              \* "other": the pid belongs to some other program
    attempt,  \* attempt[p]: the loop counter of has_lock
    fd,       \* fd[p]: the file that p has open
    seen,     \* seen[p]: p's variable pid: what read() stored in it last, or
              \* p's own pid once p has created a lock file
    path,     \* the file that the lock path names
    data,     \* data[f]: the contents of file f
    starts    \* how many starts there were

vars == <<pc, attempt, fd, seen, path, data, starts>>
locals == <<fd, seen>>
files == <<path, data>>

Held(p) == pc[p] = "held"
Alive(p) == pc[p] # "off"
Exists(pid) == pid \in Procs => Alive(pid)

Init ==
    /\ pc = [p \in Procs |-> "off"]
    /\ attempt = [p \in Procs |-> 0]
    /\ fd = [p \in Procs |-> NoFile]
    /\ seen \in [Procs -> Garbage]
    /\ path = NoFile
    /\ data = <<>>
    /\ starts = 0

Goto(p, label) == pc' = [pc EXCEPT ![p] = label]

(***************************************************************************)
(* start, start_daemon: the daemonised process enters has_lock, whose      *)
(* variable pid holds what the stack held.                                 *)
(***************************************************************************)
Start(p) ==
    /\ pc[p] = "off"
    /\ starts < MaxStarts
    /\ Serial => \A q \in Procs : pc[q] \notin Starting
    /\ Goto(p, "open")
    /\ attempt' = [attempt EXCEPT ![p] = 0]
    /\ \E g \in Garbage : seen' = [seen EXCEPT ![p] = g]
    /\ starts' = starts + 1
    /\ UNCHANGED <<fd, files>>

(***************************************************************************)
(* has_lock returns false: start_daemon returns and the process exits.     *)
(* The lock file is left as it is.                                         *)
(***************************************************************************)
Refuse(p) == Goto(p, "off") /\ UNCHANGED attempt

\* Mutant of Retry: the bound of the loop is off by one.
RetryOnceMore(p) ==
    /\ attempt' = [attempt EXCEPT ![p] = @ + 1]
    /\ Goto(p, IF attempt[p] < Tries THEN "open" ELSE "off")

(***************************************************************************)
(* sleep(1); continue, until the three attempts are used up.               *)
(***************************************************************************)
Retry(p) ==
    /\ attempt' = [attempt EXCEPT ![p] = @ + 1]
    /\ Goto(p, IF attempt[p] + 1 < Tries THEN "open" ELSE "off")

\* Mutant of OpenExcl: a lock file that is there is an error like any other.
OpenExclOrRefuse(p) ==
    /\ pc[p] = "open"
    /\ \/ /\ path = NoFile
          /\ data' = Append(data, Empty)
          /\ path' = Len(data) + 1
          /\ fd' = [fd EXCEPT ![p] = Len(data) + 1]
          /\ Goto(p, "write")
          /\ UNCHANGED attempt
       \/ path # NoFile /\ Refuse(p) /\ UNCHANGED <<fd, files>>
    /\ UNCHANGED <<seen, starts>>

(***************************************************************************)
(* open(path, O_CREAT | O_EXCL): the file is new, or it was there.  The    *)
(* path is a pointer into a string that lock_path() has destroyed: what    *)
(* open() finds there may also be no usable path, an error that is not     *)
(* EEXIST.                                                                 *)
(***************************************************************************)
OpenExcl(p) ==
    /\ pc[p] = "open"
    /\ \/ /\ path = NoFile
          /\ data' = Append(data, Empty)
          /\ path' = Len(data) + 1
          /\ fd' = [fd EXCEPT ![p] = Len(data) + 1]
          /\ Goto(p, "write")
          /\ UNCHANGED attempt
       \/ /\ path # NoFile
          /\ Goto(p, "openRd")
          /\ UNCHANGED <<attempt, fd, files>>
       \/ /\ "open" \in Failing
          /\ Refuse(p)
          /\ UNCHANGED <<fd, files>>
    /\ UNCHANGED <<seen, starts>>

\* Mutant of WritePid: the file is closed with nothing written to it.
WriteForgotten(p) ==
    /\ pc[p] = "write"
    /\ Goto(p, "open")
    /\ seen' = [seen EXCEPT ![p] = p]
    /\ UNCHANGED <<attempt, fd, files, starts>>

(***************************************************************************)
(* pid = getpid(); write(fd, &pid): into the file that was created,        *)
(* whether or not the path still names it.  A result of -1 is taken for    *)
(* success.                                                                *)
(***************************************************************************)
WritePid(p) ==
    /\ pc[p] = "write"
    /\ \/ data' = [data EXCEPT ![fd[p]] = p]
       \/ "write" \in Failing /\ UNCHANGED data
    /\ seen' = [seen EXCEPT ![p] = p]
    /\ Goto(p, "open")
    /\ UNCHANGED <<attempt, fd, path, starts>>

(***************************************************************************)
(* open(path, O_RDONLY): the file may have been removed since.             *)
(***************************************************************************)
OpenRead(p) ==
    /\ pc[p] = "openRd"
    /\ \/ /\ path # NoFile
          /\ fd' = [fd EXCEPT ![p] = path]
          /\ Goto(p, "read")
          /\ UNCHANGED attempt
       \/ /\ path = NoFile \/ "open" \in Failing
          /\ Refuse(p)
          /\ UNCHANGED fd
    /\ UNCHANGED <<seen, files, starts>>

\* Mutant of ReadPid: a lock file with a pid in it is mine.
ReadAnyPid(p) ==
    /\ pc[p] = "read"
    /\ \/ data[fd[p]] = Empty /\ Retry(p)
       \/ data[fd[p]] # Empty /\ Goto(p, "held") /\ UNCHANGED attempt
    /\ UNCHANGED <<locals, files, starts>>

(***************************************************************************)
(* read(fd, &pid): nothing yet, or the pid of somebody, which pid now      *)
(* holds; pid is compared with the process's own.  A result of -1 becomes  *)
(* true like every other but 0: the code goes on with what pid held        *)
(* before.                                                                 *)
(***************************************************************************)
ReadPid(p) ==
    /\ pc[p] = "read"
    /\ \/ /\ data[fd[p]] = Empty
          /\ Retry(p)
          /\ UNCHANGED seen
       \/ /\ \/ data[fd[p]] # Empty /\ seen' = [seen EXCEPT ![p] = data[fd[p]]]
             \/ "read" \in Failing /\ UNCHANGED seen
          /\ \/ seen'[p] = p /\ Goto(p, "held")
             \/ seen'[p] # p /\ Goto(p, "kill")
          /\ UNCHANGED attempt
    /\ UNCHANGED <<fd, files, starts>>

\* Mutant of KillTest: the result of kill() is read the wrong way round.
KillTestInverted(p) ==
    /\ pc[p] = "kill"
    /\ \/ Exists(seen[p]) /\ Goto(p, "unlink") /\ UNCHANGED attempt
       \/ ~Exists(seen[p]) /\ Retry(p)
    /\ UNCHANGED <<locals, files, starts>>

(***************************************************************************)
(* kill(pid, 0): there is such a process, it belongs to another user       *)
(* (EPERM), or there is none (ESRCH).                                      *)
(***************************************************************************)
KillTest(p) ==
    /\ pc[p] = "kill"
    /\ \/ Exists(seen[p]) /\ Retry(p)
       \/ seen[p] \in Procs /\ pc[seen[p]] = "other" /\ Refuse(p)
       \/ ~Exists(seen[p]) /\ Goto(p, "unlink") /\ UNCHANGED attempt
    /\ UNCHANGED <<locals, files, starts>>

(***************************************************************************)
(* unlink(path): removes the file the path names now.                      *)
(***************************************************************************)
Unlink(p) ==
    /\ pc[p] = "unlink"
    /\ path' = NoFile
    /\ Goto(p, "open")
    /\ UNCHANGED <<attempt, locals, data, starts>>

(***************************************************************************)
(* The environment: a process is killed, a pid is given to some other      *)
(* program, that program ends.  No code removes the lock file at exit.     *)
(***************************************************************************)
Die(p) ==
    /\ pc[p] \in DiesAt
    /\ Goto(p, "off")
    /\ UNCHANGED <<attempt, locals, files, starts>>

Reuse(p) ==
    /\ PidReuse
    /\ pc[p] \in {"off", "other"}
    /\ Goto(p, IF pc[p] = "off" THEN "other" ELSE "off")
    /\ UNCHANGED <<attempt, locals, files, starts>>

HasLock(p) ==
    \/ OpenExcl(p) \/ WritePid(p) \/ OpenRead(p)
    \/ ReadPid(p) \/ KillTest(p) \/ Unlink(p)

Next == \E p \in Procs : Start(p) \/ HasLock(p) \/ Die(p) \/ Reuse(p)

Spec == Init /\ [][Next]_vars

(***************************************************************************)
(* A process that is scheduled makes its next call; nothing makes anybody  *)
(* start a daemon, kill one or reuse a pid.                                *)
(***************************************************************************)
FairSpec == Spec /\ \A p \in Procs : WF_vars(HasLock(p))

-----------------------------------------------------------------------------
(***************************************************************************)
(* Types; a file that is read or written exists; attempts are left.        *)
(***************************************************************************)
TypeOK ==
    /\ pc \in [Procs -> PcValues]
    /\ attempt \in [Procs -> 0..Tries]
    /\ seen \in [Procs -> Procs \cup {Group}]
    /\ data \in Seq(Procs \cup {Empty})
    /\ path \in 0..Len(data)
    /\ fd \in [Procs -> 0..Len(data)]
    /\ starts \in Nat
    /\ \A p \in Procs : /\ pc[p] \in {"write", "read"} => fd[p] # NoFile
                        /\ pc[p] \in Starting => attempt[p] < Tries

(***************************************************************************)
(* "only one esod daemon is running at a time" (daemon.h:39): has_lock     *)
(* has returned true in at most one live process.                          *)
(***************************************************************************)
MutualExclusion == \A p, q \in Procs : Held(p) /\ Held(q) => p = q

(***************************************************************************)
(* The lock path names a file with the pid of the daemon that runs, or an  *)
(* empty one if the daemon could neither write nor read it: the next       *)
(* process to start will find it, whatever died or was refused, and an     *)
(* empty file keeps it out like a full one.                                *)
(***************************************************************************)
LockNamesHolder ==
    \A p \in Procs : Held(p) =>
        /\ path # NoFile
        /\ data[path] # p => {"write", "read"} \subseteq Failing /\ data[path] = Empty

(***************************************************************************)
(* An empty lock file is about to be filled by the process that created    *)
(* it.  has_lock never removes an empty file, so one without a writer      *)
(* would keep every later daemon out.                                      *)
(***************************************************************************)
EmptyLockHasWriter ==
    path # NoFile /\ data[path] = Empty
        => \E p \in Procs : pc[p] = "write" /\ fd[p] = path

(***************************************************************************)
(* A host on which a daemon is started comes to have a daemon: whoever     *)
(* gives up in has_lock does so because another process gets the lock.     *)
(***************************************************************************)
StartLeadsToDaemon ==
    \A p \in Procs : pc[p] = "open" ~> \E q \in Procs : Held(q)

(***************************************************************************)
(* What has_lock promises: the lock it implements.                         *)
(***************************************************************************)
Abstract == INSTANCE SingleDaemon WITH running <- {p \in Procs : Held(p)}
ImplementsSingleDaemon == Abstract!Spec
=============================================================================
