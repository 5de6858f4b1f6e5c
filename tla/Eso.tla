--------------------------------- MODULE Eso ---------------------------------
(***************************************************************************)
(* The whole of Eso: admins, esoca, the esods, the esols and the programs  *)
(* that use them, with processes that are killed and started again.        *)
(***************************************************************************)
EXTENDS EsoWeb, Esod, Esol

CONSTANTS Killable,     \* the processes that may be killed
          MaxKills,     \* bound: how many times a process is killed
          MaxClients    \* bound: how many requests programs make

ASSUME EsoAssumption ==
    /\ Killable \subseteq Procs
    /\ MaxKills \in Nat
    /\ MaxClients \in Nat

VARIABLES nKills, nClients

vars == <<net, caVars, webVars, esodVars, esolVars, nKills, nClients>>
counters == <<nKills, nClients>>

Init ==
    /\ NetInit /\ CaInit /\ WebInit /\ EsodInit /\ EsolInit
    /\ nKills = 0 /\ nClients = 0

-----------------------------------------------------------------------------
Web == WebNext /\ UNCHANGED <<esodVars, esolVars, counters>>

EsocaStep == CaNext /\ UNCHANGED <<webVars, esodVars, esolVars, counters>>

EsodStep(d) == EsodNext(d) /\ UNCHANGED <<caVars, webVars, esolVars, counters>>

EsolStep(h) == EsolNext(h) /\ UNCHANGED <<caVars, webVars, esodVars, counters>>

Program(h) ==
    /\ nClients < MaxClients
    /\ \E n \in Names, o \in Ops \cap Services, c \in CredIds : ClientRequest(h, n, o, c)
    /\ nClients' = nClients + 1
    /\ UNCHANGED <<caVars, webVars, esodVars, nKills>>

(***************************************************************************)
(* The server that p is about to send to, if there is one: killing p can   *)
(* leave it with half a message.                                           *)
(***************************************************************************)
Peers(p) ==
    {s \in Servers :
        /\ HasRoom(s)
        /\ \/ p = Ca /\ ~CaIdle /\ s = Head(caJob.todo)
           \/ p \in Esods /\ dJob[p] # Idle /\ s = dJob[p].key.loc
           \/ p \in Hosts /\ client[p].pc \in {"askPerm", "askCred"}
                          /\ s = Head(client[p].todo)}

Kill(p) ==
    /\ up[p] /\ p \in Killable /\ nKills < MaxKills
    /\ nKills' = nKills + 1
    /\ \E cut \in {{}, Peers(p)} :
          \/ /\ p = Ca /\ CaDown(cut)
             /\ UNCHANGED <<esodVars, esolVars>>
          \/ /\ p \in Esods /\ EsodDown(p, cut)
             /\ UNCHANGED <<caVars, esolVars>>
          \/ /\ p \in Hosts /\ EsolDown(p, cut)
             /\ UNCHANGED <<caVars, esodVars>>
    /\ UNCHANGED <<webVars, nClients>>

(***************************************************************************)
(* A process is started again.  It keeps its database and nothing else,    *)
(* and asks nobody what it has missed.                                     *)
(***************************************************************************)
Restart(p) ==
    /\ ~up[p]
    /\ up' = [up EXCEPT ![p] = TRUE]
    /\ UNCHANGED <<inbox, stuck, pull, caVars, webVars, esodVars, esolVars, counters>>

Next ==
    \/ Web
    \/ EsocaStep
    \/ \E d \in Esods : EsodStep(d)
    \/ \E h \in Hosts : EsolStep(h) \/ Program(h)
    \/ \E p \in Procs : Kill(p) \/ Restart(p)

Spec == Init /\ [][Next]_vars

(***************************************************************************)
(* Every daemon, and each of the two threads of an esol, is scheduled.     *)
(* Nothing is assumed of admins, programs, kills and restarts.             *)
(***************************************************************************)
Fairness ==
    /\ WF_vars(EsocaStep)
    /\ \A d \in Esods : WF_vars(EsodStep(d))
    /\ \A h \in Hosts :
          /\ WF_vars(EsolTcp(h) /\ UNCHANGED <<caVars, webVars, esodVars, counters>>)
          /\ WF_vars((EsolUds(h) \/ EsolExit(h))
                        /\ UNCHANGED <<caVars, webVars, esodVars, counters>>)

FairSpec == Spec /\ Fairness

-----------------------------------------------------------------------------
TypeOK ==
    /\ NetTypeOK /\ CaTypeOK /\ WebTypeOK /\ EsodTypeOK /\ EsolTypeOK
    /\ nKills \in Nat /\ nClients \in Nat

(***************************************************************************)
(* Nothing is on its way: esoca and the esods have nothing to send and no  *)
(* server has a connection to accept.                                      *)
(***************************************************************************)
Quiet ==
    /\ requests = <<>> /\ CaIdle
    /\ \A d \in Esods : dJob[d] = Idle
    /\ \A s \in Servers : inbox[s] = <<>>

(***************************************************************************)
(* What a cache allows for a key is what esoca issued with the version the *)
(* cache has applied last: no other write (an answer to a query, a second  *)
(* INSERT) shows through, whatever was killed when.                        *)
(***************************************************************************)
IssuedValue(k, v) == IF v = 0 THEN {} ELSE issued[k][v]

DistributionFaithful ==
    \A d \in Esods, k \in AllKeys :
        /\ dApplied[d][k] <= Len(issued[k])
        /\ Allows(dPerms[d][k]) = IssuedValue(k, dApplied[d][k])

HostFaithful ==
    \A h \in Hosts, k \in AllKeys :
        /\ hApplied[h][k] <= Len(issued[k])
        /\ Allows(hPerms[h][k]) = IssuedValue(k, hApplied[h][k])

(***************************************************************************)
(* The daemons implement PermissionCaches: with every process killable and *)
(* every database failing, each step issues one value, or takes one key of *)
(* one cache to a value issued for that key, or changes no cache.          *)
(***************************************************************************)
CacheAllows ==
    [s \in Servers |-> [k \in AllKeys |->
        Allows(IF s \in Esods THEN dPerms[s][k] ELSE hPerms[s][k])]]

Copies == INSTANCE PermissionCaches WITH
    Caches <- Servers, Keys <- AllKeys, Values <- Masks, allows <- CacheAllows
ImplementsCaches == Copies!Spec

(***************************************************************************)
(* A permission that was changed or revoked does not come back: the        *)
(* version a cache has applied never goes down.                            *)
(***************************************************************************)
NeverRegresses ==
    [][/\ \A d \in Esods, k \in AllKeys : dApplied'[d][k] >= dApplied[d][k]
       /\ \A h \in Hosts, k \in AllKeys : hApplied'[h][k] >= hApplied[h][k]]_vars

(***************************************************************************)
(* Once everything has been delivered, all databases agree with esoca's.   *)
(***************************************************************************)
Converged ==
    Quiet => \A k \in Keys :
        /\ \A d \in Esods : Allows(dPerms[d][k]) = Allows(caPerms[k])
        /\ Allows(hPerms[k.loc][k]) = Allows(caPerms[k])

(***************************************************************************)
(* A credential has the same key material wherever it is: in every         *)
(* database, and in the hands of an esol that serves a program with it     *)
(* (which may also have none).                                             *)
(***************************************************************************)
CredsAgree ==
    /\ \A d \in Esods, c \in CredIds : dCreds[d][c] \in {NoKey, caCreds[c]}
    /\ \A h \in Hosts, c \in CredIds : hCreds[h][c] \in {NoKey, caCreds[c]}
    /\ \A h \in Hosts : client[h].pc = "serve" =>
           client[h].mat \in {NoKey, caCreds[client[h].cred]}

(***************************************************************************)
(* No daemon ends, or stops serving, because of what another one sent.     *)
(***************************************************************************)
AllServing == stuck = {} /\ \A p \in Procs : up[p]

(***************************************************************************)
(* "Returns true if the credential was created successfully" (app.py:45),  *)
(* "{result:0} if everything went ok" (app.py:261): once esoca has handled *)
(* its requests, its database has what an admin was told is created, and   *)
(* no longer has what an admin was told is removed.                        *)
(***************************************************************************)
ReportedIsDone ==
    requests = <<>> => \A a \in Admins : page[a] = viewSet

(***************************************************************************)
(* No daemon INSERTs a row that is there: MySQL would refuse it, and the   *)
(* function that gave it the statement return without mysql_close.  The    *)
(* one INSERT left out is of a pulled permission, which a push overtakes.  *)
(***************************************************************************)
InsertsAccepted ==
    /\ up[Ca] /\ CaIdle /\ requests # <<>> =>
          LET r == Head(requests)
          IN  /\ r.type = "NEW_PERM" => caPerms[r.key] = NoRow
              /\ r.type = "NEW_CRED" => caCreds[r.cred] = NoKey
    /\ \A d \in Esods : \A i \in Acceptable(d) :
          inbox[d][i].type = "NEW_CRED" => dCreds[d][inbox[d][i].cred] = NoKey
    /\ \A h \in Hosts :
          pull[h].ans.kind = "cred" => hCreds[h][client[h].cred] = NoKey

(***************************************************************************)
(* A program is served only an operation that esoca once allowed its user  *)
(* on this host.                                                           *)
(***************************************************************************)
ServedAsAllowed ==
    \A h \in Hosts : client[h].pc = "serve" =>
        \E v \in 1..Len(issued[client[h].key]) :
            client[h].op \in issued[client[h].key][v]

(***************************************************************************)
(* "we want to create a credential only once, and not update it if someone *)
(* else creates a credential with the same primary key" (create_permission,*)
(* mysql_conn.h:110): the permission that was created first stands, in     *)
(* every database.                                                         *)
(***************************************************************************)
FirstCreationStands ==
    Quiet => \A d \in Esods, k \in Keys :
                 caPerms[k] # NoRow => Allows(dPerms[d][k]) = Allows(caPerms[k])

(***************************************************************************)
(* A local daemon "queries this distribution daemon for a Permission"      *)
(* (distro_daemon.h:159): the answer is the permission esod has.           *)
(***************************************************************************)
PullFindsPermission ==
    [][\A h \in Hosts :
           pull[h].ans = NoAnswer /\ pull'[h].ans.kind = "perm"
               => pull'[h].ans.op = Allows(dPerms[pull[h].to][client[h].key])]_vars

(***************************************************************************)
(* Every change that is asked for is delivered: in the end nothing is on   *)
(* its way.                                                                *)
(***************************************************************************)
Settles == <>[]Quiet

(***************************************************************************)
(* Every program gets a reply: esol comes to an end with each request, and *)
(* not without having replied.                                             *)
(***************************************************************************)
ClientAnswered ==
    \A h \in Hosts : client[h].pc # "idle" ~> client[h].pc = "idle" /\ h \notin silent
=============================================================================
