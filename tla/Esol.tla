-------------------------------- MODULE Esol --------------------------------
(***************************************************************************)
(* esol, the daemon of an end host (local/esol/local_daemon.h): a TCP      *)
(* thread that applies the permissions esod forwards, and a UDS thread     *)
(* that serves the programs of the host.  The two share the database.      *)
(*                                                                         *)
(* A program's request is for one service with one credential.  What it    *)
(* needs that the database lacks is pulled from the distribution servers.  *)
(***************************************************************************)
EXTENDS EsoNet

VARIABLES
    hPerms,    \* hPerms[h]: the table of permissions in h's database
    hCreds,    \* hCreds[h]: the table of credentials in h's database
    hApplied,  \* auxiliary: hApplied[h][k], the version last pushed to h
    client,    \* client[h]: what the UDS thread of h does, for whom
    silent     \* the hosts with a program that was sent no reply

esolVars == <<hPerms, hCreds, hApplied, client, silent>>
tables == <<hPerms, hCreds, hApplied>>

ClientPcs ==
    {"idle", "perm", "askPerm", "waitPerm", "cred", "askCred", "waitCred",
     "serve", "spin"}
Clients ==
    [pc : ClientPcs, key : AllKeys, op : Ops \cup {NoOne},
     cred : CredIds \cup {NoOne}, todo : Seq(Esods), mat : Nat]
NoClient == [pc |-> "idle", key |-> EmptyKey, op |-> NoOne, cred |-> NoOne,
             todo |-> <<>>, mat |-> NoKey]

EsolInit ==
    /\ hPerms = [h \in Hosts |-> EmptyTable]
    /\ hCreds = [h \in Hosts |-> NoCreds]
    /\ hApplied = [h \in Hosts |-> [k \in AllKeys |-> 0]]
    /\ client = [h \in Hosts |-> NoClient]
    /\ silent = {}

EsolTypeOK ==
    /\ hPerms \in [Hosts -> [AllKeys -> Rows]]
    /\ hCreds \in [Hosts -> [CredIds -> Nat]]
    /\ hApplied \in [Hosts -> [AllKeys -> Nat]]
    /\ client \in [Hosts -> Clients]
    /\ silent \subseteq Hosts

-----------------------------------------------------------------------------
(***************************************************************************)
(* handleTCP: UPDATE_PERM is an upsert, DELETE_PERM a delete.              *)
(***************************************************************************)
EsolAccept(h, i, type) ==
    /\ CanAccept(h)
    /\ i \in Acceptable(h)
    /\ inbox[h][i].type = type
    /\ inbox' = Accepted(h, i)
    /\ UNCHANGED <<up, stuck, pull, hCreds, client, silent>>

EsolStore(h, m, table) ==
    \/ /\ hPerms' = [hPerms EXCEPT ![h] = table]
       /\ hApplied' = [hApplied EXCEPT ![h][m.key] = m.ver]
    \/ h \in Failing /\ UNCHANGED <<hPerms, hApplied>>

EsolUpdatePerm(h, i) ==
    /\ EsolAccept(h, i, "UPDATE_PERM")
    /\ LET m == inbox[h][i]
       IN  EsolStore(h, m, insert_permission(hPerms[h], m.key, m.op))

EsolDeletePerm(h, i) ==
    /\ EsolAccept(h, i, "DELETE_PERM")
    /\ LET m == inbox[h][i]
       IN  EsolStore(h, m, delete_permission(hPerms[h], m.key))

EsolSpin(h, i) ==
    /\ CanAccept(h)
    /\ i \in Acceptable(h)
    /\ Spin(h, i)
    /\ UNCHANGED esolVars

-----------------------------------------------------------------------------
(***************************************************************************)
(* handleUDS: a program connects and sends its request.  loc is always     *)
(* the name of this host.                                                  *)
(***************************************************************************)
At(h, pc) == up[h] /\ client[h].pc = pc
Goto(h, pc) == client' = [client EXCEPT ![h].pc = pc]
GotoAsk(h, pc, todo) == client' = [client EXCEPT ![h].pc = pc, ![h].todo = todo]
Answer(h) == client' = [client EXCEPT ![h] = NoClient]
GotoServe(h, mat) == client' = [client EXCEPT ![h].pc = "serve", ![h].mat = mat]

ClientRequest(h, n, o, c) ==
    /\ At(h, "idle")
    /\ client' = [client EXCEPT ![h] =
           [NoClient EXCEPT !.pc = "perm", !.key = [name |-> n, loc |-> h],
                            !.op = o, !.cred = c]]
    /\ UNCHANGED <<net, tables, silent>>

\* Mutant of Decide: the operations of the permission are not looked at.
DecideUnchecked(h, mask) == Goto(h, "cred")

(***************************************************************************)
(* has_permission_to: the op bit decides whether to go on, or to send the  *)
(* empty answer.                                                           *)
(***************************************************************************)
Decide(h, mask) == IF client[h].op \in mask THEN Goto(h, "cred") ELSE Answer(h)

(***************************************************************************)
(* get_permission: from the database, else from the first location.        *)
(***************************************************************************)
LookupPerm(h) ==
    /\ At(h, "perm")
    /\ \E row \in get_result(h, NoRow, hPerms[h][client[h].key]) :
           IF row # NoRow THEN Decide(h, Allows(row))
           ELSE IF Locations # <<>> THEN GotoAsk(h, "askPerm", Locations)
           ELSE Answer(h)
    /\ UNCHANGED <<net, tables, silent>>

(***************************************************************************)
(* connect, send the query.                                                *)
(***************************************************************************)
Ask(h, query) ==
    LET d == Head(client[h].todo) IN
    /\ HasRoom(d)
    /\ inbox' = Queued(d, query)
    /\ pull' = [pull EXCEPT ![h] = [to |-> d, ans |-> NoAnswer]]
    /\ UNCHANGED <<up, stuck, tables, silent>>

AskPerm(h) ==
    /\ At(h, "askPerm")
    /\ Ask(h, [type |-> "GET_PERM", key |-> client[h].key, from |-> h])
    /\ Goto(h, "waitPerm")

(***************************************************************************)
(* The answer is what counts now, whatever the INSERT makes of it.         *)
(***************************************************************************)
GotPerm(h) ==
    /\ At(h, "waitPerm") /\ pull[h].ans.kind = "perm"
    /\ LET perm == pull[h].ans
       IN  /\ \E table \in perform_query(h, hPerms[h],
                              create_permission(hPerms[h], perm.key, perm.op)) :
                  hPerms' = [hPerms EXCEPT ![h] = table]
           /\ Decide(h, perm.op)
    /\ pull' = [pull EXCEPT ![h] = NoPull]
    /\ UNCHANGED <<up, inbox, stuck, hCreds, hApplied, silent>>

(***************************************************************************)
(* get_credential: from the database, else from the first location that    *)
(* has it.  The credential found is kept (INSERT); without one, the empty  *)
(* credential is expired.                                                  *)
(***************************************************************************)
LookupCred(h) ==
    /\ At(h, "cred")
    /\ \E mat \in get_result(h, NoKey, hCreds[h][client[h].cred]) :
           IF mat # NoKey THEN GotoServe(h, mat)
           ELSE IF Locations # <<>> THEN GotoAsk(h, "askCred", Locations)
           ELSE GotoServe(h, NoKey)
    /\ UNCHANGED <<net, tables, silent>>

AskCred(h) ==
    /\ At(h, "askCred")
    /\ Ask(h, [type |-> "GET_CRED", cred |-> client[h].cred, from |-> h])
    /\ Goto(h, "waitCred")

GotCred(h) ==
    /\ At(h, "waitCred") /\ pull[h].ans.kind = "cred"
    /\ LET mat == pull[h].ans.mat
       IN  /\ \E table \in perform_query(h, hCreds[h],
                              create_credential(hCreds[h], client[h].cred, mat)) :
                  hCreds' = [hCreds EXCEPT ![h] = table]
           /\ GotoServe(h, mat)
    /\ pull' = [pull EXCEPT ![h] = NoPull]
    /\ UNCHANGED <<up, inbox, stuck, hPerms, hApplied, silent>>

\* Mutant of GotInvalid: the same location is asked again.
InvalidAsksAgain(h) ==
    /\ At(h, "waitCred") /\ pull[h].ans.kind = "invalid"
    /\ Goto(h, "askCred")
    /\ pull' = [pull EXCEPT ![h] = NoPull]
    /\ UNCHANGED <<up, inbox, stuck, tables, silent>>

GotInvalid(h) ==
    /\ At(h, "waitCred") /\ pull[h].ans.kind = "invalid"
    /\ IF Len(client[h].todo) > 1
       THEN GotoAsk(h, "askCred", Tail(client[h].todo))
       ELSE GotoServe(h, NoKey)
    /\ pull' = [pull EXCEPT ![h] = NoPull]
    /\ UNCHANGED <<up, inbox, stuck, tables, silent>>

(***************************************************************************)
(* The services.  With a credential of a kind it cannot use, or with the   *)
(* empty credential, a service does not reply at all; an expired           *)
(* credential, and the empty one counts as expired, gets an empty reply.   *)
(* What is in the reply is left to module LocalCall, and so is a program   *)
(* that has died meanwhile.                                                *)
(***************************************************************************)
Serving(h, op) ==
    /\ At(h, "serve") /\ client[h].op = op
    /\ UNCHANGED <<net, tables>>

Operate(h, kinds) ==
    /\ Answer(h)
    /\ silent' = IF client[h].mat # NoKey /\ Kind[client[h].cred] \in kinds
                 THEN silent ELSE silent \cup {h}

Expired(h) == Answer(h) /\ UNCHANGED silent

UnlessExpired(h, kinds) ==
    Expired(h) \/ (client[h].mat # NoKey /\ Operate(h, kinds))

Encrypt(h) == Serving(h, "encrypt") /\ UnlessExpired(h, {"symmetric", "asymmetric"})

\* "data should be able to be decrypted with an expired credential"
Decrypt(h) == Serving(h, "decrypt") /\ Operate(h, {"symmetric", "asymmetric"})

Hmac(h)   == Serving(h, "hmac") /\ UnlessExpired(h, {"symmetric"})
Sign(h)   == Serving(h, "sign") /\ UnlessExpired(h, {"asymmetric"})
Verify(h) == Serving(h, "verify") /\ UnlessExpired(h, {"asymmetric"})

(***************************************************************************)
(* The distribution server has gone: recv() returns 0 for ever.            *)
(***************************************************************************)
PullSpins(h) ==
    /\ At(h, "waitPerm") \/ At(h, "waitCred")
    /\ pull[h].ans.kind = "closed"
    /\ Goto(h, "spin")
    /\ UNCHANGED <<net, tables, silent>>

(***************************************************************************)
(* RSA does not take the data: rsa_encrypt and rsa_decrypt make a vector   *)
(* of length -1, and the exception is caught nowhere.                      *)
(***************************************************************************)
Throws(h) ==
    /\ At(h, "serve") /\ client[h].op \in {"encrypt", "decrypt"}
    /\ client[h].mat # NoKey /\ Kind[client[h].cred] = "asymmetric"
    /\ ~DataFits

EsolDown(h, cut) ==
    /\ Down(h, cut)
    /\ Answer(h)
    /\ UNCHANGED <<tables, silent>>

(***************************************************************************)
(* esol ends on its own: it does not survive a SELECT or an exception, the *)
(* distribution server does not listen, or it has reset the connection,    *)
(* and recv() counts -1 bytes.                                             *)
(***************************************************************************)
EsolExit(h) ==
    /\ \/ At(h, "askPerm") /\ Unreachable(Head(client[h].todo))
       \/ At(h, "askCred") /\ Unreachable(Head(client[h].todo))
       \/ At(h, "waitPerm") /\ pull[h].ans.kind = "closed"
       \/ At(h, "waitCred") /\ pull[h].ans.kind = "closed"
       \/ (At(h, "perm") \/ At(h, "cred")) /\ DiesOfSelect(h)
       \/ Throws(h)
    /\ EsolDown(h, {})

EsolTcp(h) ==
    \E i \in 1..Window : EsolUpdatePerm(h, i) \/ EsolDeletePerm(h, i) \/ EsolSpin(h, i)

EsolUds(h) ==
    \/ LookupPerm(h) \/ AskPerm(h) \/ GotPerm(h)
    \/ LookupCred(h) \/ AskCred(h) \/ GotCred(h) \/ GotInvalid(h)
    \/ Encrypt(h) \/ Decrypt(h) \/ Hmac(h) \/ Sign(h) \/ Verify(h)
    \/ PullSpins(h)

EsolNext(h) == EsolTcp(h) \/ EsolUds(h) \/ EsolExit(h)
=============================================================================
