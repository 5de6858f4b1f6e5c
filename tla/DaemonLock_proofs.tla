-------------------------- MODULE DaemonLock_proofs --------------------------
(***************************************************************************)
(* Mutual exclusion of has_lock for any number of processes and of starts. *)
(* It needs a condition, and MCDaemonLock's run lock_race shows that it    *)
(* does: either daemons are started one at a time, or no process has died  *)
(* on the host since the lock file was first created.  In the first case   *)
(* any call may fail, but where read() may, the uninitialised pid that is  *)
(* then tested must be 0 or -1: any other number may be the process's own, *)
(* which lets it in, or one that is not in use, and then the lock file of  *)
(* the daemon that runs is removed.                                        *)
(***************************************************************************)
EXTENDS DaemonLock, SequenceTheorems, TLAPS

Careful ==
    \/ Serial /\ ("read" \in Failing => Garbage \subseteq {Group})
    \/ Failing = {} /\ DiesAt = {}

-----------------------------------------------------------------------------
(***************************************************************************)
(* The inductive invariant.                                                *)
(***************************************************************************)
OneStarter ==
    Serial => \A p, q \in Procs :
                  pc[p] \in Starting /\ pc[q] \in Starting => p = q

\* An open file is the one the lock path names, and it is empty while its
\* creator has not written it.
OpenIsCurrent ==
    \A p \in Procs :
        /\ pc[p] \in {"write", "read"} => path # NoFile /\ fd[p] = path
        /\ pc[p] = "write" => data[path] = Empty
        /\ pc[p] = "kill" => path # NoFile
        /\ pc[p] = "kill" => \/ data[path] = seen[p]
                             \/ "read" \in Failing /\ seen[p] = Group
        /\ pc[p] \in {"kill", "unlink"} => seen[p] # p

OneWriter == \A p, q \in Procs : pc[p] = "write" /\ pc[q] = "write" => p = q

\* A file is created, and the path is cleared, only while no daemon runs.
NoneRuns ==
    \A p \in Procs :
        /\ pc[p] = "write" => \A q \in Procs : ~Held(q)
        /\ pc[p] = "unlink" => Serial /\ \A q \in Procs : ~Held(q)

\* What a failed read() leaves in pid is never out of date: it is what the
\* lock file holds, or the pid of the process that created that file.
PidIsCurrent ==
    "read" \in Failing /\ Serial =>
        \A p \in Procs : pc[p] \in {"open", "openRd", "read", "kill"} =>
            \/ seen[p] = Group
            \/ /\ seen[p] # p
               /\ IF path = NoFile THEN pc[p] = "open" ELSE data[path] = seen[p]
            \/ /\ seen[p] = p
               /\ path # NoFile
               /\ data[path] # p => "write" \in Failing /\ data[path] = Empty
               /\ \A q \in Procs : ~Held(q)

\* Without deaths, the process whose pid is in the file is on its way to find
\* it there.
AuthorLives ==
    ~Serial =>
        /\ \A p \in Procs : pc[p] = "openRd" => path # NoFile
        /\ \A p \in Procs : path # NoFile /\ data[path] = p =>
               pc[p] \in {"open", "openRd", "read", "held"}

IInv ==
    /\ TypeOK
    /\ OneStarter
    /\ OpenIsCurrent
    /\ OneWriter
    /\ NoneRuns
    /\ PidIsCurrent
    /\ AuthorLives
    /\ LockNamesHolder
    /\ MutualExclusion

-----------------------------------------------------------------------------
\* The initial state is well typed.
LEMMA TypeInit == Init => TypeOK
  BY FailAssumption DEF Init, TypeOK, PcValues, Starting, NoFile, Tries

(***************************************************************************)
(* What a write does to the files: the open file holds the pid, or nothing *)
(* has changed; the other files are as they were.                          *)
(***************************************************************************)
LEMMA WriteEffect ==
  ASSUME TypeOK, NEW p \in Procs, WritePid(p)
  PROVE  /\ fd[p] \in 1..Len(data)
         /\ data' \in Seq(Procs \cup {Empty})
         /\ Len(data') = Len(data)
         /\ \A f \in 1..Len(data) : f # fd[p] => data'[f] = data[f]
         /\ data'[fd[p]] = p \/ data' = data
  <1>1. fd[p] \in 1..Len(data)
    BY DEF TypeOK, WritePid, NoFile
  <1>2. CASE data' = [data EXCEPT ![fd[p]] = p]
    BY <1>1, <1>2, ExceptSeq DEF TypeOK
  <1>3. CASE data' = data
    BY <1>1, <1>3 DEF TypeOK
  <1> QED BY <1>1, <1>2, <1>3 DEF WritePid

(***************************************************************************)
(* A retry goes back to the top of the loop while attempts are left, and   *)
(* ends the process when they are used up.                                 *)
(***************************************************************************)
LEMMA RetryEffect ==
  ASSUME TypeOK, NEW p \in Procs, pc[p] \in Starting, Retry(p)
  PROVE  /\ attempt' \in [Procs -> 0..Tries]
         /\ \A q \in Procs : q # p => attempt'[q] = attempt[q]
         /\ \/ pc' = [pc EXCEPT ![p] = "open"] /\ attempt'[p] < Tries
            \/ pc' = [pc EXCEPT ![p] = "off"]
  <1>1. attempt[p] \in 0..Tries /\ attempt[p] < Tries
    BY DEF TypeOK
  <1>2. attempt' = [attempt EXCEPT ![p] = attempt[p] + 1]
    BY DEF Retry
  <1>3. attempt' \in [Procs -> 0..Tries] /\ attempt'[p] = attempt[p] + 1
    BY <1>1, <1>2 DEF TypeOK, Tries
  <1>4. \A q \in Procs : q # p => attempt'[q] = attempt[q]
    BY <1>2 DEF TypeOK
  <1> QED BY <1>1, <1>3, <1>4 DEF Retry, Goto

(***************************************************************************)
(* The state stays well typed, and files that are open exist, under any    *)
(* schedule and any deaths.                                                *)
(***************************************************************************)
LEMMA TypeStep == TypeOK /\ [Next]_vars => TypeOK'
  <1> SUFFICES ASSUME TypeOK, [Next]_vars PROVE TypeOK'
    OBVIOUS
  <1> USE DEF TypeOK, PcValues, Starting, NoFile, Tries, locals, files, Goto
  <1>1. ASSUME NEW p \in Procs, Start(p) PROVE TypeOK'
    BY <1>1, FailAssumption DEF Start
  <1>2. ASSUME NEW p \in Procs, OpenExcl(p) PROVE TypeOK'
    <2>1. CASE /\ path = NoFile
               /\ data' = Append(data, Empty)
               /\ path' = Len(data) + 1
               /\ fd' = [fd EXCEPT ![p] = Len(data) + 1]
               /\ Goto(p, "write")
               /\ UNCHANGED attempt
      <3>1. data' \in Seq(Procs \cup {Empty}) /\ Len(data') = Len(data) + 1
        BY <2>1
      <3>2. path' \in 0..Len(data') /\ fd' \in [Procs -> 0..Len(data')]
        BY <2>1, <3>1
      <3>3. pc' \in [Procs -> PcValues] /\ pc' = [pc EXCEPT ![p] = "write"]
        BY <2>1
      <3>4. \A q \in Procs : /\ pc'[q] \in {"write", "read"} => fd'[q] # NoFile
                             /\ pc'[q] \in Starting => attempt'[q] < Tries
        BY <1>2, <2>1, <3>3 DEF OpenExcl
      <3> QED BY <1>2, <2>1, <3>1, <3>2, <3>3, <3>4 DEF OpenExcl
    <2>2. CASE path # NoFile /\ Goto(p, "openRd") /\ UNCHANGED <<attempt, fd, files>>
      BY <1>2, <2>2 DEF OpenExcl
    <2>3. CASE "open" \in Failing /\ Refuse(p) /\ UNCHANGED <<fd, files>>
      BY <1>2, <2>3 DEF OpenExcl, Refuse
    <2> QED BY <1>2, <2>1, <2>2, <2>3 DEF OpenExcl
  <1>3. ASSUME NEW p \in Procs, WritePid(p) PROVE TypeOK'
    <2>1. data' \in Seq(Procs \cup {Empty}) /\ Len(data') = Len(data)
      BY <1>3, WriteEffect
    <2>2. /\ pc' = [pc EXCEPT ![p] = "open"] /\ pc[p] = "write"
          /\ seen' \in [Procs -> Procs \cup {Group}]
          /\ UNCHANGED <<attempt, fd, path, starts>>
      BY <1>3 DEF WritePid
    <2>3. pc' \in [Procs -> PcValues]
      BY <2>2
    <2>4. \A q \in Procs : /\ pc'[q] \in {"write", "read"} => fd'[q] # NoFile
                           /\ pc'[q] \in Starting => attempt'[q] < Tries
      BY <2>2
    <2>5. path' \in 0..Len(data') /\ fd' \in [Procs -> 0..Len(data')]
      BY <2>1, <2>2
    <2> QED BY <2>1, <2>2, <2>3, <2>4, <2>5
  <1>4. ASSUME NEW p \in Procs, OpenRead(p) PROVE TypeOK'
    <2>1. CASE path # NoFile /\ fd' = [fd EXCEPT ![p] = path] /\ Goto(p, "read")
      <3>1. /\ pc' = [pc EXCEPT ![p] = "read"] /\ pc[p] = "openRd"
            /\ UNCHANGED <<attempt, seen, path, data, starts>>
        BY <1>4, <2>1 DEF OpenRead, Refuse
      <3>2. pc' \in [Procs -> PcValues] /\ fd' \in [Procs -> 0..Len(data)]
        BY <2>1, <3>1
      <3>3. \A q \in Procs : /\ pc'[q] \in {"write", "read"} => fd'[q] # NoFile
                             /\ pc'[q] \in Starting => attempt'[q] < Tries
        BY <2>1, <3>1
      <3> QED BY <3>1, <3>2, <3>3
    <2>2. CASE Refuse(p) /\ UNCHANGED fd
      BY <1>4, <2>2 DEF OpenRead, Refuse
    <2> QED BY <1>4, <2>1, <2>2 DEF OpenRead
  <1>5. ASSUME NEW p \in Procs, ReadPid(p) PROVE TypeOK'
    <2>1. fd[p] \in 1..Len(data)
      BY <1>5 DEF ReadPid
    <2>2. data[fd[p]] \in Procs \cup {Empty}
      <3>1. data \in Seq(Procs \cup {Empty})
        OBVIOUS
      <3> QED BY ONLY <2>1, <3>1, ElementOfSeq
    <2>3. seen' \in [Procs -> Procs \cup {Group}] /\ UNCHANGED <<fd, data, path, starts>>
      BY <1>5, <2>2 DEF ReadPid
    <2>4. CASE Retry(p)
      BY <1>5, <2>3, <2>4, RetryEffect DEF ReadPid
    <2>5. CASE UNCHANGED attempt /\ (Goto(p, "held") \/ Goto(p, "kill"))
      <3>1. pc' \in [Procs -> PcValues] /\ attempt' = attempt
        BY <2>5 DEF Goto, PcValues
      <3>2. pc'[p] \in {"held", "kill"} /\ \A q \in Procs \ {p} : pc'[q] = pc[q]
        BY <2>5 DEF Goto
      <3>3. pc[p] = "read"
        BY <1>5 DEF ReadPid
      <3> QED BY <2>3, <3>1, <3>2, <3>3
    <2> QED BY <1>5, <2>4, <2>5 DEF ReadPid
  <1>6. ASSUME NEW p \in Procs, KillTest(p) PROVE TypeOK'
    <2>1. CASE Retry(p)
      BY <1>6, <2>1, RetryEffect DEF KillTest
    <2>2. CASE UNCHANGED attempt /\ (Goto(p, "off") \/ Goto(p, "unlink"))
      BY <1>6, <2>2 DEF KillTest
    <2> QED BY <1>6, <2>1, <2>2 DEF KillTest, Refuse
  <1>7. ASSUME NEW p \in Procs, Unlink(p) PROVE TypeOK'
    BY <1>7 DEF Unlink
  <1>8. ASSUME NEW p \in Procs, Die(p) PROVE TypeOK'
    BY <1>8 DEF Die
  <1>9. ASSUME NEW p \in Procs, Reuse(p) PROVE TypeOK'
    BY <1>9 DEF Reuse
  <1>10. CASE UNCHANGED vars
    BY <1>10 DEF vars
  <1> QED
    BY <1>1, <1>2, <1>3, <1>4, <1>5, <1>6, <1>7, <1>8, <1>9, <1>10
    DEF Next, HasLock

(***************************************************************************)
(* Every step keeps the invariant.  A step that touches the lock file can  *)
(* only be made when the path, the open files and the holder agree.        *)
(***************************************************************************)
LEMMA InductiveStep ==
  ASSUME Careful, IInv, [Next]_vars
  PROVE  IInv'
  <1> USE ProcsAssumption DEF IInv, Goto, locals, files, Held, Starting, NoFile
  <1>0. TypeOK'
    BY TypeStep
  <1>1. ASSUME NEW p \in Procs, Start(p) PROVE IInv'
    <2> USE DEF Start
    <2>1. OneStarter'
      BY <1>1, <1>0 DEF OneStarter, TypeOK, PcValues
    <2>2. OpenIsCurrent'
      BY <1>1, <1>0 DEF OpenIsCurrent, OneStarter, OneWriter, NoneRuns, TypeOK, PcValues
    <2>3. OneWriter'
      BY <1>1, <1>0 DEF OneWriter, OpenIsCurrent, TypeOK, PcValues
    <2>4. NoneRuns'
      BY <1>1, <1>0 DEF NoneRuns, OneStarter, TypeOK, PcValues
    <2>5. AuthorLives'
      BY <1>1, <1>0 DEF AuthorLives, OpenIsCurrent, NoneRuns, Careful, TypeOK, PcValues
    <2>6. LockNamesHolder'
      BY <1>1, <1>0 DEF LockNamesHolder, OpenIsCurrent, NoneRuns, PidIsCurrent, MutualExclusion, TypeOK, PcValues
    <2>7. MutualExclusion'
      BY <1>1, <1>0 DEF MutualExclusion, LockNamesHolder, OpenIsCurrent, NoneRuns, PidIsCurrent, TypeOK, PcValues
    <2>8. PidIsCurrent'
      BY <1>1, <1>0 DEF PidIsCurrent, OneStarter, OpenIsCurrent, NoneRuns, LockNamesHolder, Careful, TypeOK, PcValues
    <2> QED BY <1>0, <2>1, <2>2, <2>3, <2>4, <2>5, <2>6, <2>7, <2>8
  <1>2. ASSUME NEW p \in Procs, OpenExcl(p) PROVE IInv'
    <2>1. CASE /\ path = NoFile
               /\ data' = Append(data, Empty)
               /\ path' = Len(data) + 1
               /\ fd' = [fd EXCEPT ![p] = Len(data) + 1]
               /\ Goto(p, "write")
      <3>0. /\ path' # NoFile /\ fd'[p] = path' /\ data'[path'] = Empty
            /\ pc[p] = "open" /\ pc'[p] = "write" /\ seen' = seen
            /\ \A q \in Procs : q # p => pc'[q] = pc[q] /\ fd'[q] = fd[q]
            /\ \A q \in Procs : ~Held(q) /\ pc[q] \notin {"write", "read", "kill"}
        BY <1>2, <2>1 DEF OpenExcl, TypeOK, OpenIsCurrent, LockNamesHolder
      <3>1. OneStarter'
        BY <3>0, <2>1 DEF OneStarter, Careful, OneStarter, NoneRuns, AuthorLives
      <3>2. OpenIsCurrent'
        BY <3>0, <2>1 DEF OpenIsCurrent, Careful, OneStarter, NoneRuns, AuthorLives
      <3>3. OneWriter'
        BY <3>0, <2>1 DEF OneWriter, Careful, OneStarter, NoneRuns, AuthorLives
      <3>4. NoneRuns'
        BY <3>0, <2>1 DEF NoneRuns, Careful, OneStarter, NoneRuns, AuthorLives
      <3>5. AuthorLives'
        BY <3>0, <2>1 DEF AuthorLives, Careful, OneStarter, NoneRuns, AuthorLives
      <3>6. LockNamesHolder'
        BY <3>0, <2>1 DEF LockNamesHolder, Careful, OneStarter, NoneRuns, AuthorLives
      <3>7. MutualExclusion'
        BY <3>0, <2>1 DEF MutualExclusion, LockNamesHolder, OpenIsCurrent, NoneRuns, PidIsCurrent, TypeOK, PcValues
      <3>8. PidIsCurrent'
        BY <3>0, <2>1 DEF PidIsCurrent, OneStarter, OpenIsCurrent, NoneRuns, LockNamesHolder, Careful, TypeOK, PcValues
      <3> QED BY <1>0, <3>1, <3>2, <3>3, <3>4, <3>5, <3>6, <3>7, <3>8
    <2>2. CASE path # NoFile /\ Goto(p, "openRd") /\ UNCHANGED <<attempt, fd, files>>
      <3> USE DEF OpenExcl
      <3>1. OneStarter'
        BY <1>2, <2>2 DEF OneStarter, TypeOK, PcValues
      <3>2. OpenIsCurrent'
        BY <1>2, <2>2 DEF OpenIsCurrent, OneStarter, OneWriter, NoneRuns, TypeOK, PcValues
      <3>3. OneWriter'
        BY <1>2, <2>2 DEF OneWriter, OpenIsCurrent, TypeOK, PcValues
      <3>4. NoneRuns'
        BY <1>2, <2>2 DEF NoneRuns, OneStarter, TypeOK, PcValues
      <3>5. AuthorLives'
        BY <1>2, <2>2 DEF AuthorLives, OpenIsCurrent, NoneRuns, Careful, TypeOK, PcValues
      <3>6. LockNamesHolder'
        BY <1>2, <2>2 DEF LockNamesHolder, OpenIsCurrent, NoneRuns, PidIsCurrent, MutualExclusion, TypeOK, PcValues
      <3>7. MutualExclusion'
        BY <1>2, <2>2 DEF MutualExclusion, LockNamesHolder, OpenIsCurrent, NoneRuns, PidIsCurrent, TypeOK, PcValues
      <3>8. PidIsCurrent'
        BY <1>2, <2>2 DEF PidIsCurrent, OneStarter, OpenIsCurrent, NoneRuns, LockNamesHolder, Careful, TypeOK, PcValues
      <3> QED BY <1>0, <3>1, <3>2, <3>3, <3>4, <3>5, <3>6, <3>7, <3>8
    <2>3. CASE "open" \in Failing /\ Refuse(p) /\ UNCHANGED <<fd, files>>
      <3> USE DEF OpenExcl, Refuse
      <3>1. OneStarter'
        BY <1>2, <2>3 DEF OneStarter, TypeOK, PcValues
      <3>2. OpenIsCurrent'
        BY <1>2, <2>3 DEF OpenIsCurrent, OneStarter, OneWriter, NoneRuns, TypeOK, PcValues
      <3>3. OneWriter'
        BY <1>2, <2>3 DEF OneWriter, OpenIsCurrent, TypeOK, PcValues
      <3>4. NoneRuns'
        BY <1>2, <2>3 DEF NoneRuns, OneStarter, TypeOK, PcValues
      <3>5. AuthorLives'
        BY <1>2, <2>3 DEF AuthorLives, OpenIsCurrent, NoneRuns, Careful, TypeOK, PcValues
      <3>6. LockNamesHolder'
        BY <1>2, <2>3 DEF LockNamesHolder, OpenIsCurrent, NoneRuns, PidIsCurrent, MutualExclusion, TypeOK, PcValues
      <3>7. MutualExclusion'
        BY <1>2, <2>3 DEF MutualExclusion, LockNamesHolder, OpenIsCurrent, NoneRuns, PidIsCurrent, TypeOK, PcValues
      <3>8. PidIsCurrent'
        BY <1>2, <2>3 DEF PidIsCurrent, OneStarter, OpenIsCurrent, NoneRuns, LockNamesHolder, Careful, TypeOK, PcValues
      <3> QED BY <1>0, <3>1, <3>2, <3>3, <3>4, <3>5, <3>6, <3>7, <3>8
    <2> QED BY <1>2, <2>1, <2>2, <2>3 DEF OpenExcl
  <1>3. ASSUME NEW p \in Procs, WritePid(p) PROVE IInv'
    <2> USE DEF WritePid
    <2>1. OneStarter'
      BY <1>3, <1>0 DEF OneStarter, TypeOK, PcValues
    <2>2. OpenIsCurrent'
      <3>1. path # NoFile /\ fd[p] = path /\ data[path] = Empty
        BY <1>3 DEF OpenIsCurrent
      <3>2. \A q \in Procs : q # p => pc[q] \notin {"write", "kill"}
        <4>1. ASSUME NEW q \in Procs, pc[q] = "kill" PROVE Serial
          BY <3>1, <4>1 DEF OpenIsCurrent, Careful, TypeOK, Empty, Group
        <4> QED BY <1>3, <4>1 DEF OneWriter, OneStarter
      <3>3. \A q \in Procs : q # p => pc'[q] = pc[q] /\ seen'[q] = seen[q]
        BY <1>3 DEF TypeOK
      <3>4. pc'[p] = "open" /\ UNCHANGED <<fd, path>>
        BY <1>3 DEF TypeOK
      <3>5. ASSUME NEW q \in Procs, pc'[q] = "unlink" PROVE seen'[q] # q
        BY <3>3, <3>4, <3>5 DEF OpenIsCurrent
      <3> QED BY <3>1, <3>2, <3>3, <3>4, <3>5 DEF OpenIsCurrent
    <2>3. OneWriter'
      BY <1>3, <1>0 DEF OneWriter, OpenIsCurrent, TypeOK, PcValues
    <2>4. NoneRuns'
      BY <1>3, <1>0 DEF NoneRuns, OneStarter, TypeOK, PcValues
    <2>5. AuthorLives'
      BY <1>3, <1>0 DEF AuthorLives, OpenIsCurrent, NoneRuns, Careful, TypeOK, PcValues
    <2>6. LockNamesHolder'
      BY <1>3, <1>0 DEF LockNamesHolder, OpenIsCurrent, NoneRuns, PidIsCurrent, MutualExclusion, TypeOK, PcValues
    <2>7. MutualExclusion'
      BY <1>3, <1>0 DEF MutualExclusion, LockNamesHolder, OpenIsCurrent, NoneRuns, PidIsCurrent, TypeOK, PcValues
    <2>8. PidIsCurrent'
      BY <1>3, <1>0 DEF PidIsCurrent, OneStarter, OpenIsCurrent, NoneRuns, LockNamesHolder, Careful, TypeOK, PcValues
    <2> QED BY <1>0, <2>1, <2>2, <2>3, <2>4, <2>5, <2>6, <2>7, <2>8
  <1>4. ASSUME NEW p \in Procs, OpenRead(p) PROVE IInv'
    <2> USE DEF OpenRead, Refuse
    <2>1. OneStarter'
      BY <1>4, <1>0 DEF OneStarter, TypeOK, PcValues
    <2>2. OpenIsCurrent'
      BY <1>4, <1>0 DEF OpenIsCurrent, OneStarter, OneWriter, NoneRuns, TypeOK, PcValues
    <2>3. OneWriter'
      <3>1. \A q \in Procs : pc'[q] = "write" => pc[q] = "write"
        BY <1>4 DEF TypeOK
      <3> QED BY <3>1 DEF OneWriter
    <2>4. NoneRuns'
      BY <1>4, <1>0 DEF NoneRuns, OneStarter, TypeOK, PcValues
    <2>5. AuthorLives'
      BY <1>4, <1>0 DEF AuthorLives, OpenIsCurrent, NoneRuns, Careful, TypeOK, PcValues
    <2>6. LockNamesHolder'
      BY <1>4, <1>0 DEF LockNamesHolder, OpenIsCurrent, NoneRuns, PidIsCurrent, MutualExclusion, TypeOK, PcValues
    <2>7. MutualExclusion'
      BY <1>4, <1>0 DEF MutualExclusion, LockNamesHolder, OpenIsCurrent, NoneRuns, PidIsCurrent, TypeOK, PcValues
    <2>8. PidIsCurrent'
      BY <1>4, <1>0 DEF PidIsCurrent, OneStarter, OpenIsCurrent, NoneRuns, LockNamesHolder, Careful, TypeOK, PcValues
    <2> QED BY <1>0, <2>1, <2>2, <2>3, <2>4, <2>5, <2>6, <2>7, <2>8
  <1>5. ASSUME NEW p \in Procs, ReadPid(p) PROVE IInv'
    <2>0. /\ pc[p] = "read" /\ path # NoFile /\ fd[p] = path
          /\ UNCHANGED <<fd, path, data>>
          /\ \A q \in Procs : q # p => seen'[q] = seen[q]
      BY <1>5 DEF ReadPid, TypeOK, OpenIsCurrent
    <2>1. CASE data[path] = Empty /\ Retry(p) /\ UNCHANGED seen
      <3>0. pc' = [pc EXCEPT ![p] = "open"] \/ pc' = [pc EXCEPT ![p] = "off"]
        BY <2>0, <2>1, RetryEffect
      <3>1. OneStarter'
        BY <3>0, <2>0, <2>1 DEF OneStarter, TypeOK, PcValues
      <3>2. OpenIsCurrent'
        <4>1. /\ \A q \in Procs : q # p => pc'[q] = pc[q]
              /\ pc'[p] \in {"open", "off"}
          BY <3>0 DEF TypeOK
        <4> QED BY <4>1, <2>0, <2>1 DEF OpenIsCurrent
      <3>3. OneWriter'
        BY <3>0, <2>0, <2>1 DEF OneWriter, OpenIsCurrent, TypeOK, PcValues
      <3>4. NoneRuns'
        BY <3>0, <2>0, <2>1 DEF NoneRuns, OneStarter, OpenIsCurrent, LockNamesHolder, Careful, TypeOK, PcValues
      <3>5. AuthorLives'
        BY <3>0, <2>0, <2>1 DEF AuthorLives, OpenIsCurrent, NoneRuns, Careful, TypeOK, PcValues
      <3>6. LockNamesHolder'
        BY <3>0, <2>0, <2>1 DEF LockNamesHolder, OpenIsCurrent, NoneRuns, PidIsCurrent, Careful, TypeOK, PcValues
      <3>7. MutualExclusion'
        BY <3>0 DEF MutualExclusion, TypeOK
      <3>8. PidIsCurrent'
        BY <3>0, <2>0, <2>1 DEF PidIsCurrent, OneStarter, OpenIsCurrent, NoneRuns, LockNamesHolder, Careful, TypeOK, PcValues
      <3> QED BY <1>0, <3>1, <3>2, <3>3, <3>4, <3>5, <3>6, <3>7, <3>8
    <2>2. CASE /\ seen'[p] = p /\ Goto(p, "held")
               /\ data[path] # Empty /\ seen' = [seen EXCEPT ![p] = data[path]]
      <3>0. pc' = [pc EXCEPT ![p] = "held"] /\ data[path] = p
        BY <2>2 DEF TypeOK
      <3>1. OneStarter'
        BY <3>0, <2>0, <2>2 DEF OneStarter, TypeOK, PcValues
      <3>2. OpenIsCurrent'
        BY <3>0, <2>0, <2>2 DEF OpenIsCurrent, OneStarter, OneWriter, NoneRuns, TypeOK, PcValues
      <3>3. OneWriter'
        BY <3>0, <2>0, <2>2 DEF OneWriter, OpenIsCurrent, TypeOK, PcValues
      <3>4. NoneRuns'
        BY <3>0, <2>0, <2>2 DEF NoneRuns, OneStarter, OpenIsCurrent, LockNamesHolder, Careful, TypeOK, PcValues
      <3>5. AuthorLives'
        BY <3>0, <2>0, <2>2 DEF AuthorLives, OpenIsCurrent, NoneRuns, Careful, TypeOK, PcValues
      <3>6. LockNamesHolder'
        BY <3>0, <2>0, <2>2 DEF LockNamesHolder, OpenIsCurrent, NoneRuns, PidIsCurrent, Careful, TypeOK, PcValues
      <3>7. MutualExclusion'
        BY <3>0, <2>0, <2>2 DEF MutualExclusion, LockNamesHolder, OpenIsCurrent, NoneRuns, PidIsCurrent, Careful, TypeOK, PcValues
      <3>8. PidIsCurrent'
        BY <3>0, <2>0, <2>2 DEF PidIsCurrent, OneStarter, OpenIsCurrent, NoneRuns, LockNamesHolder, Careful, TypeOK, PcValues
      <3> QED BY <1>0, <3>1, <3>2, <3>3, <3>4, <3>5, <3>6, <3>7, <3>8
    <2>3. CASE /\ seen'[p] = p /\ Goto(p, "held")
               /\ "read" \in Failing /\ UNCHANGED seen
      <3>0. /\ pc' = [pc EXCEPT ![p] = "held"] /\ Serial
            /\ data[path] # p => "write" \in Failing /\ data[path] = Empty
            /\ \A q \in Procs : ~Held(q)
        BY <2>0, <2>3 DEF PidIsCurrent, Careful
      <3>1. OneStarter'
        BY <3>0, <2>0, <2>3 DEF OneStarter, TypeOK, PcValues
      <3>2. OpenIsCurrent'
        BY <3>0, <2>0, <2>3 DEF OpenIsCurrent, OneStarter, OneWriter, NoneRuns, TypeOK, PcValues
      <3>3. OneWriter'
        BY <3>0, <2>0, <2>3 DEF OneWriter, OpenIsCurrent, TypeOK, PcValues
      <3>4. NoneRuns'
        BY <3>0, <2>0, <2>3 DEF NoneRuns, OneStarter, OpenIsCurrent, LockNamesHolder, Careful, TypeOK, PcValues
      <3>5. AuthorLives'
        BY <3>0, <2>0, <2>3 DEF AuthorLives, OpenIsCurrent, NoneRuns, Careful, TypeOK, PcValues
      <3>6. LockNamesHolder'
        BY <3>0, <2>0, <2>3 DEF LockNamesHolder, OpenIsCurrent, NoneRuns, PidIsCurrent, Careful, TypeOK, PcValues
      <3>7. MutualExclusion'
        BY <3>0, <2>0, <2>3 DEF MutualExclusion, LockNamesHolder, OpenIsCurrent, NoneRuns, PidIsCurrent, Careful, TypeOK, PcValues
      <3>8. PidIsCurrent'
        BY <3>0, <2>0, <2>3 DEF PidIsCurrent, OneStarter, OpenIsCurrent, NoneRuns, LockNamesHolder, Careful, TypeOK, PcValues
      <3> QED BY <1>0, <3>1, <3>2, <3>3, <3>4, <3>5, <3>6, <3>7, <3>8
    <2>4. CASE /\ seen'[p] # p /\ Goto(p, "kill")
               /\ data[path] # Empty /\ seen' = [seen EXCEPT ![p] = data[path]]
      <3>0. pc' = [pc EXCEPT ![p] = "kill"] /\ seen'[p] = data[path]
        BY <2>4 DEF TypeOK
      <3>1. OneStarter'
        BY <3>0, <2>0, <2>4 DEF OneStarter, TypeOK, PcValues
      <3>2. OpenIsCurrent'
        BY <3>0, <2>0, <2>4 DEF OpenIsCurrent, OneStarter, OneWriter, NoneRuns, TypeOK, PcValues
      <3>3. OneWriter'
        BY <3>0, <2>0, <2>4 DEF OneWriter, OpenIsCurrent, TypeOK, PcValues
      <3>4. NoneRuns'
        BY <3>0, <2>0, <2>4 DEF NoneRuns, OneStarter, OpenIsCurrent, LockNamesHolder, Careful, TypeOK, PcValues
      <3>5. AuthorLives'
        BY <3>0, <2>0, <2>4 DEF AuthorLives, OpenIsCurrent, NoneRuns, Careful, TypeOK, PcValues
      <3>6. LockNamesHolder'
        BY <3>0, <2>0, <2>4 DEF LockNamesHolder, OpenIsCurrent, NoneRuns, PidIsCurrent, Careful, TypeOK, PcValues
      <3>7. MutualExclusion'
        BY <3>0, <2>0, <2>4 DEF MutualExclusion, LockNamesHolder, OpenIsCurrent, NoneRuns, PidIsCurrent, Careful, TypeOK, PcValues
      <3>8. PidIsCurrent'
        BY <3>0, <2>0, <2>4 DEF PidIsCurrent, OneStarter, OpenIsCurrent, NoneRuns, LockNamesHolder, Careful, TypeOK, PcValues
      <3> QED BY <1>0, <3>1, <3>2, <3>3, <3>4, <3>5, <3>6, <3>7, <3>8
    <2>5. CASE /\ seen'[p] # p /\ Goto(p, "kill")
               /\ "read" \in Failing /\ UNCHANGED seen
      <3>0. /\ pc' = [pc EXCEPT ![p] = "kill"] /\ Serial
            /\ seen[p] # Group => data[path] = seen[p]
        BY <2>0, <2>5 DEF PidIsCurrent, Careful
      <3>1. OneStarter'
        BY <3>0, <2>0, <2>5 DEF OneStarter, TypeOK, PcValues
      <3>2. OpenIsCurrent'
        BY <3>0, <2>0, <2>5 DEF OpenIsCurrent, OneStarter, OneWriter, NoneRuns, TypeOK, PcValues
      <3>3. OneWriter'
        BY <3>0, <2>0, <2>5 DEF OneWriter, OpenIsCurrent, TypeOK, PcValues
      <3>4. NoneRuns'
        BY <3>0, <2>0, <2>5 DEF NoneRuns, OneStarter, OpenIsCurrent, LockNamesHolder, Careful, TypeOK, PcValues
      <3>5. AuthorLives'
        BY <3>0, <2>0, <2>5 DEF AuthorLives, OpenIsCurrent, NoneRuns, Careful, TypeOK, PcValues
      <3>6. LockNamesHolder'
        BY <3>0, <2>0, <2>5 DEF LockNamesHolder, OpenIsCurrent, NoneRuns, PidIsCurrent, Careful, TypeOK, PcValues
      <3>7. MutualExclusion'
        BY <3>0, <2>0, <2>5 DEF MutualExclusion, LockNamesHolder, OpenIsCurrent, NoneRuns, PidIsCurrent, Careful, TypeOK, PcValues
      <3>8. PidIsCurrent'
        BY <3>0, <2>0, <2>5 DEF PidIsCurrent, OneStarter, OpenIsCurrent, NoneRuns, LockNamesHolder, Careful, TypeOK, PcValues
      <3> QED BY <1>0, <3>1, <3>2, <3>3, <3>4, <3>5, <3>6, <3>7, <3>8
    <2> QED BY <1>5, <2>0, <2>1, <2>2, <2>3, <2>4, <2>5 DEF ReadPid
  <1>6. ASSUME NEW p \in Procs, KillTest(p) PROVE IInv'
    <2>0. /\ pc[p] = "kill" /\ seen[p] # p /\ path # NoFile
          /\ seen[p] # Group => data[path] = seen[p]
          /\ UNCHANGED <<fd, path, data, seen>>
      <3>1. pc[p] = "kill" /\ UNCHANGED <<fd, path, data, seen>>
        BY <1>6 DEF KillTest
      <3> QED BY <3>1 DEF OpenIsCurrent
    <2>1. CASE \/ pc' = [pc EXCEPT ![p] = "open"]
               \/ pc' = [pc EXCEPT ![p] = "off"]
      <3>1. OneStarter'
        BY <2>0, <2>1 DEF OneStarter, TypeOK, PcValues
      <3>2. OpenIsCurrent'
        BY <2>0, <2>1 DEF OpenIsCurrent, OneStarter, OneWriter, NoneRuns, TypeOK, PcValues
      <3>3. OneWriter'
        BY <2>0, <2>1 DEF OneWriter, OpenIsCurrent, TypeOK, PcValues
      <3>4. NoneRuns'
        BY <2>0, <2>1 DEF NoneRuns, OneStarter, OpenIsCurrent, LockNamesHolder, Careful, TypeOK, PcValues
      <3>5. AuthorLives'
        BY <2>0, <2>1 DEF AuthorLives, OpenIsCurrent, NoneRuns, Careful, TypeOK, PcValues
      <3>6. LockNamesHolder'
        BY <2>0, <2>1 DEF LockNamesHolder, OpenIsCurrent, NoneRuns, PidIsCurrent, Careful, TypeOK, PcValues
      <3>7. MutualExclusion'
        BY <2>0, <2>1 DEF MutualExclusion, LockNamesHolder, OpenIsCurrent, NoneRuns, PidIsCurrent, Careful, TypeOK, PcValues
      <3>8. PidIsCurrent'
        BY <2>0, <2>1 DEF PidIsCurrent, OneStarter, OpenIsCurrent, NoneRuns, LockNamesHolder, Careful, TypeOK, PcValues
      <3> QED BY <1>0, <3>1, <3>2, <3>3, <3>4, <3>5, <3>6, <3>7, <3>8
    <2>2. CASE ~Exists(seen[p]) /\ Goto(p, "unlink")
      <3>0. Serial /\ \A q \in Procs : ~Held(q)
        <4>1. /\ seen[p] \in Procs /\ ~Alive(seen[p])
              /\ path # NoFile /\ data[path] = seen[p]
          BY <2>0, <2>2, ProcsAssumption DEF Exists, TypeOK
        <4> QED BY <4>1 DEF Alive, AuthorLives, LockNamesHolder
      <3>1. OneStarter'
        BY <3>0, <2>0, <2>2 DEF OneStarter, TypeOK, PcValues
      <3>2. OpenIsCurrent'
        BY <3>0, <2>0, <2>2 DEF OpenIsCurrent, OneStarter, OneWriter, NoneRuns, TypeOK, PcValues
      <3>3. OneWriter'
        BY <3>0, <2>0, <2>2 DEF OneWriter, OpenIsCurrent, TypeOK, PcValues
      <3>4. NoneRuns'
        BY <3>0, <2>0, <2>2 DEF NoneRuns, OneStarter, OpenIsCurrent, LockNamesHolder, Careful, TypeOK, PcValues
      <3>5. AuthorLives'
        BY <3>0, <2>0, <2>2 DEF AuthorLives, OpenIsCurrent, NoneRuns, Careful, TypeOK, PcValues
      <3>6. LockNamesHolder'
        BY <3>0, <2>0, <2>2 DEF LockNamesHolder, OpenIsCurrent, NoneRuns, PidIsCurrent, Careful, TypeOK, PcValues
      <3>7. MutualExclusion'
        BY <3>0, <2>0, <2>2 DEF MutualExclusion, LockNamesHolder, OpenIsCurrent, NoneRuns, PidIsCurrent, Careful, TypeOK, PcValues
      <3>8. PidIsCurrent'
        BY <3>0, <2>0, <2>2 DEF PidIsCurrent, OneStarter, OpenIsCurrent, NoneRuns, LockNamesHolder, Careful, TypeOK, PcValues
      <3> QED BY <1>0, <3>1, <3>2, <3>3, <3>4, <3>5, <3>6, <3>7, <3>8
    <2> QED BY <1>6, <2>0, <2>1, <2>2, RetryEffect DEF KillTest, Refuse
  <1>7. ASSUME NEW p \in Procs, Unlink(p) PROVE IInv'
    <2> USE DEF Unlink
    <2>1. OneStarter'
      BY <1>7, <1>0 DEF OneStarter, TypeOK, PcValues
    <2>2. OpenIsCurrent'
      BY <1>7, <1>0 DEF OpenIsCurrent, OneStarter, OneWriter, NoneRuns, TypeOK, PcValues
    <2>3. OneWriter'
      BY <1>7, <1>0 DEF OneWriter, OpenIsCurrent, TypeOK, PcValues
    <2>4. NoneRuns'
      BY <1>7, <1>0 DEF NoneRuns, OneStarter, TypeOK, PcValues
    <2>5. AuthorLives'
      BY <1>7, <1>0 DEF AuthorLives, OpenIsCurrent, NoneRuns, Careful, TypeOK, PcValues
    <2>6. LockNamesHolder'
      BY <1>7, <1>0 DEF LockNamesHolder, OpenIsCurrent, NoneRuns, PidIsCurrent, MutualExclusion, TypeOK, PcValues
    <2>7. MutualExclusion'
      BY <1>7, <1>0 DEF MutualExclusion, LockNamesHolder, OpenIsCurrent, NoneRuns, PidIsCurrent, TypeOK, PcValues
    <2>8. PidIsCurrent'
      BY <1>7, <1>0 DEF PidIsCurrent, OneStarter, OpenIsCurrent, NoneRuns, LockNamesHolder, Careful, TypeOK, PcValues
    <2> QED BY <1>0, <2>1, <2>2, <2>3, <2>4, <2>5, <2>6, <2>7, <2>8
  <1>8. ASSUME NEW p \in Procs, Die(p) PROVE IInv'
    <2> USE DEF Die
    <2>1. OneStarter'
      BY <1>8, <1>0 DEF OneStarter, TypeOK, PcValues
    <2>2. OpenIsCurrent'
      BY <1>8, <1>0 DEF OpenIsCurrent, OneStarter, OneWriter, NoneRuns, TypeOK, PcValues
    <2>3. OneWriter'
      BY <1>8, <1>0 DEF OneWriter, OpenIsCurrent, TypeOK, PcValues
    <2>4. NoneRuns'
      BY <1>8, <1>0 DEF NoneRuns, OneStarter, TypeOK, PcValues
    <2>5. AuthorLives'
      BY <1>8, <1>0 DEF AuthorLives, OpenIsCurrent, NoneRuns, Careful, TypeOK, PcValues
    <2>6. LockNamesHolder'
      BY <1>8, <1>0 DEF LockNamesHolder, OpenIsCurrent, NoneRuns, PidIsCurrent, MutualExclusion, TypeOK, PcValues
    <2>7. MutualExclusion'
      BY <1>8, <1>0 DEF MutualExclusion, LockNamesHolder, OpenIsCurrent, NoneRuns, PidIsCurrent, TypeOK, PcValues
    <2>8. PidIsCurrent'
      BY <1>8, <1>0 DEF PidIsCurrent, OneStarter, OpenIsCurrent, NoneRuns, LockNamesHolder, Careful, TypeOK, PcValues
    <2> QED BY <1>0, <2>1, <2>2, <2>3, <2>4, <2>5, <2>6, <2>7, <2>8
  <1>9. ASSUME NEW p \in Procs, Reuse(p) PROVE IInv'
    <2> USE DEF Reuse
    <2>1. OneStarter'
      BY <1>9, <1>0 DEF OneStarter, TypeOK, PcValues
    <2>2. OpenIsCurrent'
      BY <1>9, <1>0 DEF OpenIsCurrent, OneStarter, OneWriter, NoneRuns, TypeOK, PcValues
    <2>3. OneWriter'
      BY <1>9, <1>0 DEF OneWriter, OpenIsCurrent, TypeOK, PcValues
    <2>4. NoneRuns'
      BY <1>9, <1>0 DEF NoneRuns, OneStarter, TypeOK, PcValues
    <2>5. AuthorLives'
      BY <1>9, <1>0 DEF AuthorLives, OpenIsCurrent, NoneRuns, Careful, TypeOK, PcValues
    <2>6. LockNamesHolder'
      BY <1>9, <1>0 DEF LockNamesHolder, OpenIsCurrent, NoneRuns, PidIsCurrent, MutualExclusion, TypeOK, PcValues
    <2>7. MutualExclusion'
      BY <1>9, <1>0 DEF MutualExclusion, LockNamesHolder, OpenIsCurrent, NoneRuns, PidIsCurrent, TypeOK, PcValues
    <2>8. PidIsCurrent'
      BY <1>9, <1>0 DEF PidIsCurrent, OneStarter, OpenIsCurrent, NoneRuns, LockNamesHolder, Careful, TypeOK, PcValues
    <2> QED BY <1>0, <2>1, <2>2, <2>3, <2>4, <2>5, <2>6, <2>7, <2>8
  <1>10. CASE UNCHANGED vars
    BY <1>10, <1>0 DEF vars, OneStarter, OpenIsCurrent, OneWriter, NoneRuns,
                 PidIsCurrent, AuthorLives, LockNamesHolder, MutualExclusion
  <1> QED
    BY <1>1, <1>2, <1>3, <1>4, <1>5, <1>6, <1>7, <1>8, <1>9, <1>10
    DEF Next, HasLock

-----------------------------------------------------------------------------
(***************************************************************************)
(* The model of has_lock is well typed, whatever is killed when.           *)
(***************************************************************************)
THEOREM TypeCorrect == Spec => []TypeOK
  <1> QED BY TypeInit, TypeStep, PTL DEF Spec

(***************************************************************************)
(* The strengthened invariant holds in every state of a careful run.       *)
(***************************************************************************)
LEMMA Invariance == ASSUME Careful PROVE Spec => []IInv
  <1>1. Init => IInv
    BY TypeInit
    DEF Init, IInv, OneStarter, OpenIsCurrent, OneWriter, NoneRuns,
        PidIsCurrent, AuthorLives, LockNamesHolder, MutualExclusion, Starting, NoFile, Held
  <1>2. IInv /\ [Next]_vars => IInv'
    BY InductiveStep
  <1> QED BY <1>1, <1>2, PTL DEF Spec

(***************************************************************************)
(* daemon.h:39: at most one daemon runs, if daemons are started one at a   *)
(* time (whatever dies, and wherever, and whichever calls fail, as long as *)
(* an uninitialised pid is 0 or -1), or while nothing has died or failed.  *)
(***************************************************************************)
THEOREM AtMostOneDaemon == ASSUME Careful PROVE Spec => []MutualExclusion
  <1>1. IInv => MutualExclusion
    BY DEF IInv
  <1> QED BY <1>1, Invariance, PTL

(***************************************************************************)
(* The lock path keeps naming the daemon that runs: a refused, killed or   *)
(* late starter never removes or replaces the file of a live daemon, and   *)
(* neither does one whose read() fails, under the same condition.          *)
(***************************************************************************)
THEOREM HolderKeepsLock == ASSUME Careful PROVE Spec => []LockNamesHolder
  <1>1. IInv => LockNamesHolder
    BY DEF IInv
  <1> QED BY <1>1, Invariance, PTL

(***************************************************************************)
(* has_lock implements the lock of SingleDaemon: a daemon is let in only   *)
(* when none runs, and the place is free only when that daemon is gone.    *)
(***************************************************************************)
THEOREM Refinement == ASSUME Careful PROVE Spec => ImplementsSingleDaemon
  <1> DEFINE run == {p \in Procs : Held(p)}
  <1>1. Init => Abstract!Init
    BY DEF Init, Abstract!Init, Held
  <1>2. IInv /\ IInv' /\ [Next]_vars => [Abstract!Next]_run
    <2> SUFFICES ASSUME IInv, IInv', [Next]_vars
                 PROVE  Abstract!Next \/ run' = run
      BY DEF Abstract!Next
    <2>1. MutualExclusion /\ MutualExclusion'
      BY DEF IInv
    <2>2. CASE UNCHANGED vars
      BY <2>2 DEF vars, Held
    <2>3. CASE Next
      <3>1. PICK p \in Procs : Start(p) \/ HasLock(p) \/ Die(p) \/ Reuse(p)
        BY <2>3 DEF Next
      <3>2. \A q \in Procs : q # p => pc'[q] = pc[q]
        BY <3>1
        DEF IInv, TypeOK, HasLock, Start, OpenExcl, WritePid, OpenRead, ReadPid,
            KillTest, Unlink, Die, Reuse, Refuse, Retry, Goto
      <3>3. CASE Held(p)' /\ ~Held(p)
        <4>1. run = {} /\ run' = {p}
          BY <2>1, <3>2, <3>3 DEF MutualExclusion, Held
        <4> QED BY <4>1 DEF Abstract!Next, Abstract!Admit
      <3>4. CASE ~Held(p)' /\ Held(p)
        <4>1. run = {p} /\ run' = {}
          BY <2>1, <3>2, <3>4 DEF MutualExclusion, Held
        <4> QED BY <4>1 DEF Abstract!Next, Abstract!Leave
      <3>5. CASE Held(p)' = Held(p)
        BY <3>2, <3>5 DEF Held
      <3> QED BY <3>3, <3>4, <3>5 DEF Held
    <2> QED BY <2>2, <2>3
  <1> QED BY <1>1, <1>2, Invariance, PTL DEF ImplementsSingleDaemon, Abstract!Spec, Spec

(***************************************************************************)
(* No empty lock file is left behind as long as nobody is killed between   *)
(* creating it and writing to it, and the write succeeds; the other deaths *)
(* and all races are allowed.                                              *)
(***************************************************************************)
THEOREM NoOrphanedLock ==
  ASSUME Failing \cap {"write"} = {}, "write" \notin DiesAt
  PROVE  Spec => []EmptyLockHasWriter
  <1> DEFINE Inv == TypeOK /\ EmptyLockHasWriter
  <1>1. Init => Inv
    BY TypeInit DEF Init, EmptyLockHasWriter
  <1>2. ASSUME Inv, [Next]_vars PROVE Inv'
    <2>0. TypeOK'
      BY <1>2, TypeStep
    <2> USE ProcsAssumption DEF EmptyLockHasWriter, Goto, locals, files, NoFile
    <2>1. ASSUME NEW p \in Procs, OpenExcl(p) PROVE EmptyLockHasWriter'
      <3>1. CASE path = NoFile
        BY <1>2, <2>1, <3>1 DEF OpenExcl, TypeOK, Refuse
      <3>2. CASE path # NoFile
        <4>1. UNCHANGED files /\ pc[p] = "open" /\ fd' = fd
          BY <2>1, <3>2 DEF OpenExcl
        <4>2. \A q \in Procs : q # p => pc'[q] = pc[q]
          BY <1>2, <2>1, <3>2 DEF OpenExcl, TypeOK, Refuse
        <4> QED BY <1>2, <4>1, <4>2
      <3> QED BY <3>1, <3>2
    <2>2. ASSUME NEW p \in Procs, WritePid(p) PROVE EmptyLockHasWriter'
      <3>1. fd[p] \in 1..Len(data) /\ data \in Seq(Procs \cup {Empty})
        BY <1>2, <2>2, WriteEffect DEF TypeOK
      <3>2. data' = [data EXCEPT ![fd[p]] = p]
        BY <2>2 DEF WritePid
      <3>3. /\ data'[fd[p]] = p
            /\ \A f \in 1..Len(data) : f # fd[p] => data'[f] = data[f]
        BY <3>1, <3>2, ExceptSeq
      <3>4. UNCHANGED <<fd, path>> /\ \A q \in Procs : q # p => pc'[q] = pc[q]
        BY <1>2, <2>2 DEF WritePid, TypeOK
      <3> SUFFICES ASSUME path # NoFile, data'[path] = Empty
                   PROVE  \E q \in Procs : pc'[q] = "write" /\ fd[q] = path
        BY <3>4
      <3>5. path \in 1..Len(data) /\ path # fd[p]
        BY <1>2, <3>3 DEF TypeOK
      <3>6. PICK q \in Procs : pc[q] = "write" /\ fd[q] = path
        BY <1>2, <3>3, <3>5
      <3> QED BY <3>4, <3>5, <3>6
    <2>3. ASSUME NEW p \in Procs, UNCHANGED <<path, data>>, pc[p] # "write",
                 \A q \in Procs : q # p => pc'[q] = pc[q] /\ fd'[q] = fd[q]
          PROVE  EmptyLockHasWriter'
      BY <1>2, <2>3
    <2>4. ASSUME NEW p \in Procs, OpenRead(p) \/ ReadPid(p) \/ KillTest(p) \/ Start(p)
                                  \/ Die(p) \/ Reuse(p)
          PROVE  EmptyLockHasWriter'
      <3>1. UNCHANGED <<path, data>> /\ pc[p] # "write"
        BY <2>4 DEF OpenRead, ReadPid, KillTest, Start, Die, Reuse
      <3>2. \A q \in Procs : q # p => pc'[q] = pc[q] /\ fd'[q] = fd[q]
        BY <1>2, <2>4
        DEF OpenRead, ReadPid, KillTest, Start, Die, Reuse, Refuse, Retry, TypeOK
      <3> QED BY <2>3, <3>1, <3>2
    <2>5. ASSUME NEW p \in Procs, Unlink(p) PROVE EmptyLockHasWriter'
      BY <2>5 DEF Unlink
    <2>6. CASE UNCHANGED vars
      BY <1>2, <2>0, <2>6 DEF vars
    <2> QED
      BY <1>2, <2>0, <2>1, <2>2, <2>4, <2>5, <2>6 DEF Next, HasLock
  <1> QED BY <1>1, <1>2, PTL DEF Spec
=============================================================================
