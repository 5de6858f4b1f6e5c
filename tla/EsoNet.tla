-------------------------------- MODULE EsoNet --------------------------------
(***************************************************************************)
(* The connections between the daemons (socket/tcp_socket.h,               *)
(* socket/tcp_stream.h), and what becomes of them when a daemon dies.  A   *)
(* connection carries one message and, for a query, one answer; a server   *)
(* accepts one connection at a time, the others wait in its accept queue.  *)
(***************************************************************************)
EXTENDS EsoData

CONSTANTS Backlog,  \* how many connections wait in an accept queue
          Window    \* 1: connections are accepted in the order they were made;
                    \* more: any of the first Window, their packets reordered

ASSUME NetAssumption == Backlog \in Nat \ {0} /\ Window \in Nat \ {0}

VARIABLES
    up,      \* up[p]: process p runs
    inbox,   \* inbox[s]: the accept queue of server s
    stuck,   \* the servers whose accept loop spins in recv() on a torn message
    pull     \* pull[h]: the query that esol on h waits for, and its answer

net == <<up, inbox, stuck, pull>>

Answers ==
    [kind : {"none", "closed", "invalid"}]
        \cup [kind : {"perm"}, key : AllKeys, op : Masks]
        \cup [kind : {"cred"}, mat : Nat \ {NoKey}]
NoAnswer == [kind |-> "none"]
NoPull == [to |-> NoOne, ans |-> NoAnswer]

NetInit ==
    /\ up = [p \in Procs |-> TRUE]
    /\ inbox = [s \in Servers |-> <<>>]
    /\ stuck = {}
    /\ pull = [h \in Hosts |-> NoPull]

NetTypeOK ==
    /\ up \in [Procs -> BOOLEAN]
    /\ inbox \in [Servers -> Seq(Messages)]
    /\ stuck \subseteq Servers
    /\ pull \in [Hosts -> [to : Esods \cup {NoOne}, ans : Answers]]

-----------------------------------------------------------------------------
(***************************************************************************)
(* connect() succeeds when the server listens and has room in its accept   *)
(* queue; it waits while the queue is full.  When nobody listens there, or *)
(* the server will never empty its queue, it ends the calling process      *)
(* (exit(1)), and so does a name that does not resolve: the list of        *)
(* addresses is used although getaddrinfo() has not filled it in.          *)
(***************************************************************************)
HasRoom(s) == s \in Servers /\ up[s] /\ Len(inbox[s]) < Backlog
Unreachable(s) ==
    s \in Servers => ~up[s] \/ (s \in stuck /\ Len(inbox[s]) >= Backlog)

\* Mutant of Queued: the connection made last is accepted first.
QueuedFirst(s, m) == [inbox EXCEPT ![s] = <<m>> \o @]

Queued(s, m) == [inbox EXCEPT ![s] = Append(@, m)]

(***************************************************************************)
(* accept(), then recv() until the message is complete.                    *)
(***************************************************************************)
CanAccept(s) == up[s] /\ s \notin stuck
Acceptable(s) == {i \in 1..Len(inbox[s]) : i <= Window}
Accepted(s, i) == [inbox EXCEPT ![s] = RemoveAt(@, i)]

(***************************************************************************)
(* A torn message: recv() returns 0 at the end of the stream, for ever.    *)
(***************************************************************************)
Spin(s, i) ==
    /\ inbox[s][i] = Torn
    /\ inbox' = Accepted(s, i)
    /\ stuck' = stuck \cup {s}
    /\ UNCHANGED <<up, pull>>

Answered(h, a) == [pull EXCEPT ![h].ans = a]

(***************************************************************************)
(* Process p ends: its accept queue is gone, its queries have nobody to    *)
(* answer to, those who wait for its answer find the connection closed.    *)
(* The servers in cut get the torn message that p was about to complete.   *)
(***************************************************************************)
Orphaned(m, p) == IF IsQuery(m) /\ m.from = p THEN [m EXCEPT !.from = NoOne] ELSE m

Down(p, cut) ==
    /\ up' = [up EXCEPT ![p] = FALSE]
    /\ inbox' = [s \in Servers |->
           IF s = p THEN <<>>
           ELSE [i \in 1..Len(inbox[s]) |-> Orphaned(inbox[s][i], p)]
                    \o (IF s \in cut THEN <<Torn>> ELSE <<>>)]
    /\ stuck' = stuck \ {p}
    /\ pull' = [h \in Hosts |->
           IF h = p THEN NoPull
           ELSE IF pull[h].to = p /\ pull[h].ans = NoAnswer
                THEN [pull[h] EXCEPT !.ans = [kind |-> "closed"]]
                ELSE pull[h]]
=============================================================================
