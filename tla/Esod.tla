-------------------------------- MODULE Esod --------------------------------
(***************************************************************************)
(* esod, a distribution server (distribution/esod/distro_daemon.h): one    *)
(* thread that serves one connection after the other.  A permission that   *)
(* esoca sends is written to the database and then forwarded to the esol   *)
(* of the host the permission is for.                                      *)
(***************************************************************************)
EXTENDS EsoNet

VARIABLES
    dPerms,    \* dPerms[d]: the table of permissions in d's database
    dCreds,    \* dCreds[d]: the table of credentials in d's database
    dJob,      \* dJob[d]: the message that d has yet to forward, or Idle
    dApplied   \* auxiliary: dApplied[d][k], the version last written to d

esodVars == <<dPerms, dCreds, dJob, dApplied>>

Idle == Torn

EsodInit ==
    /\ dPerms = [d \in Esods |-> EmptyTable]
    /\ dCreds = [d \in Esods |-> NoCreds]
    /\ dJob = [d \in Esods |-> Idle]
    /\ dApplied = [d \in Esods |-> [k \in AllKeys |-> 0]]

EsodTypeOK ==
    /\ dPerms \in [Esods -> [AllKeys -> Rows]]
    /\ dCreds \in [Esods -> [CredIds -> Nat]]
    /\ dJob \in [Esods -> PermPushes \cup {Idle}]
    /\ dApplied \in [Esods -> [AllKeys -> Nat]]

-----------------------------------------------------------------------------
(***************************************************************************)
(* work(): accept the connection at place i of the queue; the branches on  *)
(* its message follow.                                                     *)
(***************************************************************************)
EsodAccept(d, i, type) ==
    /\ CanAccept(d) /\ dJob[d] = Idle
    /\ i \in Acceptable(d)
    /\ inbox[d][i].type = type
    /\ inbox' = Accepted(d, i)

Forward(d, m) == dJob' = [dJob EXCEPT ![d] = m]

(***************************************************************************)
(* What the statement for message m does to the permissions of d.          *)
(***************************************************************************)
EsodStore(d, m, table) ==
    \/ /\ dPerms' = [dPerms EXCEPT ![d] = table]
       /\ dApplied' = [dApplied EXCEPT ![d][m.key] = m.ver]
    \/ d \in Failing /\ UNCHANGED <<dPerms, dApplied>>

EsodUpdatePerm(d, i) ==
    LET m == inbox[d][i] IN
    /\ EsodAccept(d, i, "UPDATE_PERM")
    /\ EsodStore(d, m, insert_permission(dPerms[d], m.key, m.op))
    /\ Forward(d, m)
    /\ UNCHANGED <<up, stuck, pull, dCreds>>

EsodDeletePerm(d, i) ==
    LET m == inbox[d][i] IN
    /\ EsodAccept(d, i, "DELETE_PERM")
    /\ EsodStore(d, m, delete_permission(dPerms[d], m.key))
    /\ Forward(d, m)
    /\ UNCHANGED <<up, stuck, pull, dCreds>>

EsodNewCred(d, i) ==
    LET m == inbox[d][i] IN
    /\ EsodAccept(d, i, "NEW_CRED")
    /\ \E table \in perform_query(d, dCreds[d], create_credential(dCreds[d], m.cred, m.mat)) :
           dCreds' = [dCreds EXCEPT ![d] = table]
    /\ UNCHANGED <<up, stuck, pull, dPerms, dJob, dApplied>>

(***************************************************************************)
(* The answer to a query.  If esol is gone the answer is lost, or esod is  *)
(* killed by SIGPIPE: an answer is written with two calls to send().       *)
(***************************************************************************)
Reply(h, a) == h # NoOne /\ pull' = Answered(h, a) /\ UNCHANGED <<up, stuck>>
ReplyLost(h) == h = NoOne /\ UNCHANGED <<up, stuck, pull>>

(***************************************************************************)
(* GET_PERM: the row is read and dropped; what is sent back is the query,  *)
(* a Permission with the names asked for and op 0.                         *)
(***************************************************************************)
PermAnswer(d, k) == [kind |-> "perm", key |-> k, op |-> {}]

EsodGetPerm(d, i) ==
    LET m == inbox[d][i] IN
    /\ EsodAccept(d, i, "GET_PERM")
    /\ Reply(m.from, PermAnswer(d, m.key)) \/ ReplyLost(m.from)
    /\ UNCHANGED esodVars

\* Mutant of CredAnswer: the empty credential is sent like any other.
CredAnswerUnchecked(mat) == [kind |-> "cred", mat |-> mat]

(***************************************************************************)
(* GET_CRED: the credential, or INVALID_REQUEST if there is no such row.   *)
(***************************************************************************)
CredAnswer(mat) ==
    IF mat = NoKey THEN [kind |-> "invalid"] ELSE [kind |-> "cred", mat |-> mat]

EsodGetCred(d, i) ==
    LET m == inbox[d][i] IN
    /\ EsodAccept(d, i, "GET_CRED")
    /\ \/ \E mat \in get_result(d, NoKey, dCreds[d][m.cred]) : Reply(m.from, CredAnswer(mat))
       \/ ReplyLost(m.from)
    /\ UNCHANGED esodVars

EsodSpin(d, i) ==
    /\ CanAccept(d) /\ dJob[d] = Idle
    /\ i \in Acceptable(d)
    /\ Spin(d, i)
    /\ UNCHANGED esodVars

(***************************************************************************)
(* The second half of UPDATE_PERM and DELETE_PERM: connect to perm.loc and *)
(* send.  "This obvious assumes the local daemon is running..."            *)
(***************************************************************************)
EsodForward(d) ==
    /\ up[d] /\ dJob[d] # Idle
    /\ LET m == dJob[d]
       IN  HasRoom(m.key.loc) /\ inbox' = Queued(m.key.loc, m)
    /\ dJob' = [dJob EXCEPT ![d] = Idle]
    /\ UNCHANGED <<up, stuck, pull, dPerms, dCreds, dApplied>>

EsodDown(d, cut) ==
    /\ Down(d, cut)
    /\ dJob' = [dJob EXCEPT ![d] = Idle]
    /\ UNCHANGED <<dPerms, dCreds, dApplied>>

(***************************************************************************)
(* esod ends on its own: it cannot connect to perm.loc, because nobody     *)
(* listens there or because it is empty; or it reads a query and writes to *)
(* a connection whose reader is gone, or does not survive the SELECT.      *)
(***************************************************************************)
EsodExit(d) ==
    /\ up[d]
    /\ \/ dJob[d] # Idle /\ Unreachable(dJob[d].key.loc)
       \/ /\ CanAccept(d) /\ dJob[d] = Idle
          /\ \E i \in Acceptable(d) :
                /\ IsQuery(inbox[d][i])
                /\ inbox[d][i].from = NoOne \/ DiesOfSelect(d)
    /\ EsodDown(d, {})

EsodHandle(d) ==
    \E i \in 1..Window :
        \/ EsodUpdatePerm(d, i) \/ EsodDeletePerm(d, i) \/ EsodNewCred(d, i)
        \/ EsodGetPerm(d, i) \/ EsodGetCred(d, i) \/ EsodSpin(d, i)

EsodNext(d) == EsodHandle(d) \/ EsodForward(d) \/ EsodExit(d)
=============================================================================
