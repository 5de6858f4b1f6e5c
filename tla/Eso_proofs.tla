------------------------------ MODULE Eso_proofs ------------------------------
(***************************************************************************)
(* What the caches of Eso hold, for any number of locations, hosts,        *)
(* admins, names and requests, in whatever order connections are accepted  *)
(* and whichever processes are killed: what esoca issued with the change   *)
(* the cache applied last.                                                 *)
(***************************************************************************)
EXTENDS Eso, SequenceTheorems, TLAPS

-----------------------------------------------------------------------------
(***************************************************************************)
(* The inductive invariant.                                                *)
(***************************************************************************)
\* A message that carries a permission carries the value that was issued
\* with its version; a removal allows nothing.
SoundMessages ==
    {m \in Messages : m \in PermPushes =>
        /\ m.ver \in 1..Len(issued[m.key])
        /\ m.op = issued[m.key][m.ver]
        /\ m.type = "DELETE_PERM" => m.op = {}}

\* An answer to a query for a permission allows nothing.
EmptyAnswers == {a \in Answers : a.kind = "perm" => a.op = {}}

NetInv ==
    /\ NetTypeOK
    /\ inbox \in [Servers -> Seq(SoundMessages)]
    /\ \A h \in Hosts : pull[h].ans \in EmptyAnswers

CaInv == CaTypeOK /\ caJob.msg \in SoundMessages

EsodInv ==
    /\ EsodTypeOK
    /\ \A d \in Esods : dJob[d] \in SoundMessages
    /\ DistributionFaithful

\* A program whose request has got past the permission was allowed what it
\* asked for; one whose esol asks has somebody to ask.
Allowed(c) == \E v \in 1..Len(issued[c.key]) : c.op \in issued[c.key][v]

SoundClient(c) ==
    c.pc # "idle" =>
        /\ c.op \in Ops /\ c.cred \in CredIds
        /\ c.pc \in {"askPerm", "askCred", "waitCred"} => c.todo # <<>>
        /\ c.pc \in {"cred", "askCred", "waitCred", "serve"} => Allowed(c)

ClientSound == \A h \in Hosts : SoundClient(client[h])

EsolInv == EsolTypeOK /\ ClientSound /\ HostFaithful

EnvInv == WebTypeOK /\ nKills \in Nat /\ nClients \in Nat

IInv == NetInv /\ CaInv /\ EsodInv /\ EsolInv /\ EnvInv

-----------------------------------------------------------------------------
(***************************************************************************)
(* Tables.                                                                 *)
(***************************************************************************)
LEMMA RowFacts ==
  /\ NoRow \in Rows /\ Allows(NoRow) = {}
  /\ \A m \in Masks : Row(m) \in Rows /\ Row(m) # NoRow /\ Allows(Row(m)) = m
  /\ \A row \in Rows : Allows(row) \in Masks
  BY DEF NoRow, Rows, Row, Allows, Masks

\* The statements keep a table a table.
LEMMA TableTypes ==
  ASSUME NEW t \in [AllKeys -> Rows], NEW k \in AllKeys, NEW m \in Masks
  PROVE  /\ create_permission(t, k, m) \in [AllKeys -> Rows]
         /\ update_permission(t, k, m) \in [AllKeys -> Rows]
  BY RowFacts DEF create_permission, update_permission

\* A statement that may fail leaves one of two tables.
LEMMA MayFail ==
  ASSUME NEW p, NEW T, NEW before \in T, NEW after \in T
  PROVE  /\ \A t \in perform_query(p, before, after) : t \in T
         /\ \A row \in get_result(p, before, after) : row \in T
  BY DEF perform_query, get_result

\* SELECT finds a permission or the empty one.
LEMMA SelectTypes ==
  ASSUME NEW t \in [AllKeys -> Rows], NEW k \in AllKeys
  PROVE  get_permission(t, k).key \in AllKeys /\ get_permission(t, k).op \in Masks
  BY RowFacts DEF get_permission, EmptyPermission, AllKeys, Masks

(***************************************************************************)
(* What a cache allows after an upsert and after a delete; an INSERT of a  *)
(* permission that allows nothing does not change it.                      *)
(***************************************************************************)
LEMMA UpsertEffect ==
  ASSUME NEW t \in [AllKeys -> Rows], NEW k \in AllKeys, NEW m \in Masks
  PROVE  /\ insert_permission(t, k, m) \in [AllKeys -> Rows]
         /\ \A j \in AllKeys :
                Allows(insert_permission(t, k, m)[j]) = IF j = k THEN m ELSE Allows(t[j])
  BY RowFacts DEF insert_permission

\* DELETE leaves the table without the row, and the others alone.
LEMMA DeleteEffect ==
  ASSUME NEW t \in [AllKeys -> Rows], NEW k \in AllKeys
  PROVE  /\ delete_permission(t, k) \in [AllKeys -> Rows]
         /\ \A j \in AllKeys :
                Allows(delete_permission(t, k)[j]) = IF j = k THEN {} ELSE Allows(t[j])
  BY RowFacts DEF delete_permission

\* An INSERT of a permission that allows nothing changes nothing that is allowed.
LEMMA EmptyInsertEffect ==
  ASSUME NEW t \in [AllKeys -> Rows], NEW k \in AllKeys
  PROVE  \A j \in AllKeys : Allows(create_permission(t, k, {})[j]) = Allows(t[j])
  <1>1. {} \in Masks
    BY DEF Masks
  <1> QED BY <1>1, RowFacts DEF create_permission

\* An INSERT keeps a table of credentials one.
LEMMA CredTypes ==
  ASSUME NEW t \in [CredIds -> Nat], NEW c \in CredIds, NEW mat \in Nat
  PROVE  create_credential(t, c, mat) \in [CredIds -> Nat]
  BY DEF create_credential, NoKey

-----------------------------------------------------------------------------
(***************************************************************************)
(* Messages and accept queues.                                             *)
(***************************************************************************)
LEMMA MessageFacts ==
  /\ Torn \in SoundMessages /\ Torn \in Messages
  /\ Queries \subseteq SoundMessages
  /\ CredPushes \subseteq SoundMessages
  /\ SoundMessages \subseteq Messages
  /\ \A m \in Messages :
        /\ m.type \in {"UPDATE_PERM", "DELETE_PERM"} <=> m \in PermPushes
        /\ m.type = "NEW_CRED" <=> m \in CredPushes
        /\ m.type = "GET_PERM" <=> m \in [type : {"GET_PERM"}, key : AllKeys, from : Hosts \cup {NoOne}]
        /\ m.type = "GET_CRED" <=> m \in [type : {"GET_CRED"}, cred : CredIds, from : Hosts \cup {NoOne}]
  BY DEF SoundMessages, Messages, Queries, Pushes, PermPushes, CredPushes, Torn

\* RemoveAt keeps the elements of a sequence in their set.
LEMMA RemoveAtType ==
  ASSUME NEW T, NEW s \in Seq(T), NEW i \in 1..Len(s)
  PROVE  RemoveAt(s, i) \in Seq(T)
  <1>1. Len(s) \in Nat /\ \A j \in 1..Len(s) : s[j] \in T
    BY ElementOfSeq, LenProperties
  <1>2. SubSeq(s, 1, i - 1) \in Seq(T)
    BY <1>1, SubSeqProperties
  <1>3. SubSeq(s, i + 1, Len(s)) \in Seq(T)
    BY <1>1, SubSeqProperties
  <1> QED BY <1>2, <1>3, ConcatProperties DEF RemoveAt

\* So does a connection that is added to a queue ...
LEMMA QueuedType ==
  ASSUME NEW T, inbox \in [Servers -> Seq(T)], NEW m \in T, NEW s \in Servers
  PROVE  Queued(s, m) \in [Servers -> Seq(T)]
  BY AppendProperties DEF Queued

\* ... and one that is accepted, which is of the set itself.
LEMMA AcceptedType ==
  ASSUME NEW T, inbox \in [Servers -> Seq(T)], NEW s \in Servers, NEW i \in Acceptable(s)
  PROVE  /\ inbox[s][i] \in T
         /\ Accepted(s, i) \in [Servers -> Seq(T)]
  <1>1. inbox[s] \in Seq(T) /\ i \in 1..Len(inbox[s])
    BY DEF Acceptable
  <1>2. RemoveAt(inbox[s], i) \in Seq(T)
    BY <1>1, RemoveAtType
  <1> QED BY <1>1, <1>2, ElementOfSeq DEF Accepted

\* Queries that lose their reader stay messages.
LEMMA MappedType ==
  ASSUME NEW T, NEW s \in Seq(T), NEW p, NEW r \in Seq(T),
         \A m \in T : Orphaned(m, p) \in T
  PROVE  [i \in 1..Len(s) |-> Orphaned(s[i], p)] \o r \in Seq(T)
  <1> DEFINE mapped == [i \in 1..Len(s) |-> Orphaned(s[i], p)]
  <1>1. Len(s) \in Nat /\ \A i \in 1..Len(s) : s[i] \in T
    BY ElementOfSeq, LenProperties
  <1>2. mapped \in [1..Len(s) -> T]
    BY <1>1
  <1>3. mapped \in Seq(T)
    BY <1>1, <1>2
  <1> QED BY <1>3, ConcatProperties

\* A sound message stays sound when its sender ends.
LEMMA OrphanedSound == \A m \in SoundMessages, p \in Procs : Orphaned(m, p) \in SoundMessages
  <1> SUFFICES ASSUME NEW m \in SoundMessages, NEW p \in Procs
               PROVE  Orphaned(m, p) \in SoundMessages
    OBVIOUS
  <1>1. CASE IsQuery(m)
    <2>1. m \in Queries
      BY <1>1, MessageFacts DEF IsQuery, Queries
    <2>2. Orphaned(m, p) \in Queries
      BY <2>1 DEF Orphaned, Queries
    <2> QED BY <2>2, MessageFacts
  <1>2. CASE ~IsQuery(m)
    BY <1>2 DEF Orphaned
  <1> QED BY <1>1, <1>2

(***************************************************************************)
(* The end of a process leaves connections of the same kind behind.        *)
(***************************************************************************)
LEMMA DownType ==
  ASSUME NEW T, inbox \in [Servers -> Seq(T)], Torn \in T, NEW p \in Procs,
         \A m \in T : Orphaned(m, p) \in T, NEW cut, Down(p, cut)
  PROVE  inbox' \in [Servers -> Seq(T)]
  <1>1. ASSUME NEW s \in Servers PROVE inbox'[s] \in Seq(T)
    <2> DEFINE torn == IF s \in cut THEN <<Torn>> ELSE <<>>
    <2>1. torn \in Seq(T)
      BY EmptySeq
    <2>2. [i \in 1..Len(inbox[s]) |-> Orphaned(inbox[s][i], p)] \o torn \in Seq(T)
      BY <2>1, MappedType
    <2>3. inbox'[s] = IF s = p THEN <<>>
              ELSE [i \in 1..Len(inbox[s]) |-> Orphaned(inbox[s][i], p)] \o torn
      BY DEF Down
    <2> QED BY <2>2, <2>3, EmptySeq
  <1>2. inbox' = [s \in Servers |-> inbox'[s]]
    BY DEF Down
  <1> QED BY <1>1, <1>2

(***************************************************************************)
(* The end of a process leaves sound connections behind.                   *)
(***************************************************************************)
LEMMA DownNet ==
  ASSUME NetInv, NEW p \in Procs, NEW cut, Down(p, cut), UNCHANGED issued
  PROVE  NetInv'
  <1>1. SoundMessages' = SoundMessages
    BY DEF SoundMessages
  <1>2. up' \in [Procs -> BOOLEAN] /\ stuck' \subseteq Servers
    BY DEF NetInv, NetTypeOK, Down
  <1>3. inbox' \in [Servers -> Seq(SoundMessages)]
    BY DownType, OrphanedSound, MessageFacts DEF NetInv
  <1>4. inbox' \in [Servers -> Seq(Messages)]
    BY <1>3, MessageFacts, SeqMonotonic
  <1>5. /\ pull' \in [Hosts -> [to : Esods \cup {NoOne}, ans : Answers]]
        /\ \A h \in Hosts : pull'[h].ans \in EmptyAnswers
    BY DEF NetInv, NetTypeOK, Down, NoPull, NoAnswer, Answers, EmptyAnswers
  <1> QED BY <1>1, <1>2, <1>3, <1>4, <1>5 DEF NetInv, NetTypeOK, EmptyAnswers, Answers

-----------------------------------------------------------------------------
(***************************************************************************)
(* Steps that change neither a part of the state nor what was issued leave *)
(* that part sound.                                                        *)
(***************************************************************************)
LEMMA NetFrame == NetInv /\ UNCHANGED <<net, issued>> => NetInv'
  <1> SUFFICES ASSUME NetInv, UNCHANGED <<net, issued>> PROVE NetInv'
    OBVIOUS
  <1>1. SoundMessages' = SoundMessages
    BY DEF SoundMessages
  <1> QED BY <1>1 DEF NetInv, NetTypeOK, net

\* The same for esoca,
LEMMA CaFrame == CaInv /\ UNCHANGED caVars => CaInv'
  BY DEF CaInv, CaTypeOK, caVars, SoundMessages

\* for the esods,
LEMMA EsodFrame == EsodInv /\ UNCHANGED <<esodVars, issued>> => EsodInv'
  BY DEF EsodInv, EsodTypeOK, esodVars, SoundMessages, DistributionFaithful, IssuedValue

\* and for the esols.
LEMMA EsolFrame == EsolInv /\ UNCHANGED <<esolVars, issued>> => EsolInv'
  BY DEF EsolInv, EsolTypeOK, esolVars, ClientSound, SoundClient, Allowed, HostFaithful, IssuedValue

(***************************************************************************)
(* Nor does it hurt that esoca issues one more value: what was issued      *)
(* before keeps its number.                                                *)
(***************************************************************************)
LEMMA Grows ==
  ASSUME CaTypeOK, NEW k \in AllKeys, NEW m \in Masks,
         issued' = [issued EXCEPT ![k] = Append(@, m)]
  PROVE  /\ issued' \in [AllKeys -> Seq(Masks)]
         /\ issued'[k][Len(issued[k]) + 1] = m
         /\ Len(issued[k]) + 1 \in 1..Len(issued'[k])
         /\ \A j \in AllKeys : /\ Len(issued[j]) \in Nat
                               /\ Len(issued[j]) <= Len(issued'[j])
                               /\ \A v \in 1..Len(issued[j]) : /\ v \in 1..Len(issued'[j])
                                                               /\ issued'[j][v] = issued[j][v]
         /\ SoundMessages \subseteq SoundMessages'
  <1>1. ASSUME NEW j \in AllKeys PROVE issued[j] \in Seq(Masks) /\ Len(issued[j]) \in Nat
    BY LenProperties DEF CaTypeOK
  <1>2. /\ Append(issued[k], m) \in Seq(Masks)
        /\ Len(Append(issued[k], m)) = Len(issued[k]) + 1
        /\ \A v \in 1..Len(issued[k]) : Append(issued[k], m)[v] = issued[k][v]
        /\ Append(issued[k], m)[Len(issued[k]) + 1] = m
    BY <1>1, AppendProperties
  <1>3. /\ issued'[k] = Append(issued[k], m)
        /\ \A j \in AllKeys : j # k => issued'[j] = issued[j]
        /\ issued' \in [AllKeys -> Seq(Masks)]
    BY <1>1, <1>2 DEF CaTypeOK
  <1>4. \A j \in AllKeys : /\ Len(issued[j]) <= Len(issued'[j])
                           /\ \A v \in 1..Len(issued[j]) : /\ v \in 1..Len(issued'[j])
                                                           /\ issued'[j][v] = issued[j][v]
    BY <1>1, <1>2, <1>3
  <1>5. SoundMessages \subseteq SoundMessages'
    BY <1>4 DEF SoundMessages, PermPushes
  <1> QED BY <1>1, <1>2, <1>3, <1>4, <1>5

\* Messages under way stay sound when one more value is issued,
LEMMA NetGrows ==
  ASSUME NetInv, SoundMessages \subseteq SoundMessages', UNCHANGED net
  PROVE  NetInv'
  <1>1. inbox \in [Servers -> Seq(SoundMessages')]
    BY SeqMonotonic DEF NetInv
  <1> QED BY <1>1 DEF NetInv, NetTypeOK, net

\* the databases of the esods stay faithful,
LEMMA EsodGrows ==
  ASSUME CaTypeOK, EsodInv, NEW k \in AllKeys, NEW m \in Masks,
         issued' = [issued EXCEPT ![k] = Append(@, m)], UNCHANGED esodVars
  PROVE  EsodInv'
  <1>1. EsodTypeOK' /\ \A d \in Esods : dJob'[d] \in SoundMessages'
    BY Grows DEF EsodInv, EsodTypeOK, esodVars
  <1>2. ASSUME NEW d \in Esods, NEW j \in AllKeys
        PROVE  /\ dApplied'[d][j] <= Len(issued'[j])
               /\ Allows(dPerms'[d][j]) = IssuedValue(j, dApplied[d][j])'
    <2>1. /\ dApplied[d][j] \in Nat /\ dApplied[d][j] <= Len(issued[j])
          /\ Allows(dPerms[d][j]) = IssuedValue(j, dApplied[d][j])
      BY DEF EsodInv, EsodTypeOK, DistributionFaithful
    <2>2. dApplied' = dApplied /\ dPerms' = dPerms
      BY DEF esodVars
    <2> QED BY <2>1, <2>2, Grows DEF IssuedValue
  <1> QED BY <1>1, <1>2 DEF EsodInv, DistributionFaithful

\* and those of the esols, with what programs were allowed.
LEMMA EsolGrows ==
  ASSUME CaTypeOK, EsolInv, NEW k \in AllKeys, NEW m \in Masks,
         issued' = [issued EXCEPT ![k] = Append(@, m)], UNCHANGED esolVars
  PROVE  EsolInv'
  <1>1. EsolTypeOK'
    BY DEF EsolInv, EsolTypeOK, esolVars
  <1>2. ASSUME NEW h \in Hosts, NEW j \in AllKeys
        PROVE  /\ hApplied'[h][j] <= Len(issued'[j])
               /\ Allows(hPerms'[h][j]) = IssuedValue(j, hApplied[h][j])'
    <2>1. /\ hApplied[h][j] \in Nat /\ hApplied[h][j] <= Len(issued[j])
          /\ Allows(hPerms[h][j]) = IssuedValue(j, hApplied[h][j])
      BY DEF EsolInv, EsolTypeOK, HostFaithful
    <2>2. hApplied' = hApplied /\ hPerms' = hPerms
      BY DEF esolVars
    <2> QED BY <2>1, <2>2, Grows DEF IssuedValue
  <1>3. ASSUME NEW c \in Clients, Allowed(c)
        PROVE  \E v \in 1..Len(issued'[c.key]) : c.op \in issued'[c.key][v]
    <2>1. c.key \in AllKeys
      BY DEF Clients
    <2> QED BY <1>3, <2>1, Grows DEF Allowed
  <1>4. ClientSound'
    BY <1>3 DEF EsolInv, EsolTypeOK, ClientSound, SoundClient, Allowed, esolVars
  <1> QED BY <1>1, <1>2, <1>4 DEF EsolInv, HostFaithful

-----------------------------------------------------------------------------
\* An esol that serves nobody is in a sound state.
LEMMA NoClientSound == NoClient \in Clients /\ SoundClient(NoClient)
  BY EmptySeq DEF NoClient, Clients, ClientPcs, AllKeys, NoKey, SoundClient

\* All databases start empty and nothing has been issued.
LEMMA InitIInv == Init => IInv
  <1> SUFFICES ASSUME Init PROVE IInv
    OBVIOUS
  <1>1. NetInv
    BY EmptySeq DEF Init, NetInit, NetInv, NetTypeOK, NoPull, NoAnswer, Answers, EmptyAnswers
  <1>2. CaInv
    BY EmptySeq, RowFacts, MessageFacts
    DEF Init, CaInit, CaInv, CaTypeOK, NoJob, NoCreds, NoKey, EmptyTable
  <1>3. EsodInv
    <2>1. EsodTypeOK
      BY RowFacts DEF Init, EsodInit, EsodTypeOK, NoCreds, NoKey, EmptyTable
    <2>2. \A d \in Esods : dJob[d] \in SoundMessages
      BY MessageFacts DEF Init, EsodInit, Idle
    <2>3. DistributionFaithful
      BY EmptySeq, RowFacts
      DEF Init, EsodInit, CaInit, EmptyTable, DistributionFaithful, IssuedValue
    <2> QED BY <2>1, <2>2, <2>3 DEF EsodInv
  <1>4. EsolInv
    <2>1. NoClient \in Clients
      BY NoClientSound
    <2>2. EsolTypeOK
      BY <2>1, RowFacts DEF Init, EsolInit, EsolTypeOK, NoCreds, NoKey, EmptyTable
    <2>3. ClientSound
      BY NoClientSound DEF Init, EsolInit, ClientSound
    <2>4. HostFaithful
      BY EmptySeq, RowFacts
      DEF Init, EsolInit, CaInit, EmptyTable, HostFaithful, IssuedValue
    <2> QED BY <2>2, <2>3, <2>4 DEF EsolInv
  <1>5. EnvInv
    BY DEF Init, WebInit, EnvInv, WebTypeOK
  <1> QED BY <1>1, <1>2, <1>3, <1>4, <1>5 DEF IInv

-----------------------------------------------------------------------------
(***************************************************************************)
(* Admins.                                                                 *)
(***************************************************************************)
LEMMA WebSound == IInv /\ Web => IInv'
  <1> SUFFICES ASSUME IInv, Web PROVE IInv'
    OBVIOUS
  <1>1. /\ UNCHANGED <<net, caPerms, caCreds, caJob, issued, freshKey>>
        /\ UNCHANGED <<esodVars, esolVars, counters>>
    BY DEF Web, WebNext, CreatePerm, CreateCred, UpdatePerm, RemovePerm, Reload, Request, caVars
  <1>2. \/ UNCHANGED requests /\ nRequests' = nRequests
        \/ \E r \in Requests : requests' = Append(requests, r) /\ nRequests' = nRequests + 1
    <2>1. ASSUME NEW a \in Admins, NEW k \in Keys, NEW m \in Grants,
                 CreatePerm(a, k, m) \/ UpdatePerm(a, k, m)
          PROVE  \E r \in Requests : requests' = Append(requests, r) /\ nRequests' = nRequests + 1
      BY <2>1, WebAssumption DEF CreatePerm, UpdatePerm, Request, Requests, PermRequests
    <2>2. ASSUME NEW a \in Admins, NEW k \in Keys, RemovePerm(a, k)
          PROVE  \E r \in Requests : requests' = Append(requests, r) /\ nRequests' = nRequests + 1
      BY <2>2 DEF RemovePerm, Request, Requests, PermRequests, Masks
    <2>3. ASSUME NEW a \in Admins, NEW c \in CredIds, CreateCred(a, c)
          PROVE  \E r \in Requests : requests' = Append(requests, r) /\ nRequests' = nRequests + 1
      BY <2>3 DEF CreateCred, Request, Requests, CredRequests
    <2>4. ASSUME NEW a \in Admins, Reload(a)
          PROVE  UNCHANGED requests /\ nRequests' = nRequests
      BY <2>4 DEF Reload, caVars
    <2> QED BY <2>1, <2>2, <2>3, <2>4 DEF Web, WebNext
  <1>3. page' \in [Admins -> SUBSET (Keys \cup CredIds)]
    <2> USE DEF IInv, EnvInv, WebTypeOK
    <2>1. ASSUME NEW a \in Admins, Reload(a) PROVE page' \in [Admins -> SUBSET (Keys \cup CredIds)]
      BY <2>1 DEF Reload, viewPerms, viewCreds, get_result
    <2>2. ASSUME NEW a \in Admins, NEW k \in Keys, RemovePerm(a, k)
          PROVE  page' \in [Admins -> SUBSET (Keys \cup CredIds)]
      BY <2>2 DEF RemovePerm
    <2>3. ASSUME NEW a \in Admins, NEW k \in Keys, NEW m \in Grants,
                 CreatePerm(a, k, m) \/ UpdatePerm(a, k, m)
          PROVE  page' \in [Admins -> SUBSET (Keys \cup CredIds)]
      BY <2>3 DEF CreatePerm, UpdatePerm
    <2>4. ASSUME NEW a \in Admins, NEW c \in CredIds, CreateCred(a, c)
          PROVE  page' \in [Admins -> SUBSET (Keys \cup CredIds)]
      BY <2>4 DEF CreateCred
    <2> QED BY <2>1, <2>2, <2>3, <2>4 DEF Web, WebNext
  <1>4. CaInv'
    <2>1. requests' \in Seq(Requests)
      <3>1. requests \in Seq(Requests)
        BY DEF IInv, CaInv, CaTypeOK
      <3> QED BY <1>2, <3>1, AppendProperties
    <2>2. SoundMessages' = SoundMessages
      BY <1>1 DEF SoundMessages
    <2> QED BY <1>1, <2>1, <2>2 DEF IInv, CaInv, CaTypeOK
  <1>5. EnvInv'
    BY <1>1, <1>2, <1>3 DEF IInv, EnvInv, WebTypeOK, counters
  <1> QED BY <1>1, <1>4, <1>5, NetFrame, EsodFrame, EsolFrame DEF IInv

-----------------------------------------------------------------------------
(***************************************************************************)
(* esoca.  A change that it issues carries its own number and value.       *)
(***************************************************************************)
LEMMA IssueSound ==
  ASSUME CaTypeOK, NEW type \in {"UPDATE_PERM", "DELETE_PERM"},
         NEW k \in AllKeys, NEW m \in Masks, IssuePerm(type, k, m),
         type = "DELETE_PERM" => m = {}
  PROVE  /\ issued' = [issued EXCEPT ![k] = Append(@, m)]
         /\ issued' \in [AllKeys -> Seq(Masks)]
         /\ caJob' \in [msg : Pushes \cup {Torn}, todo : Seq(Esods)]
         /\ caJob'.msg \in SoundMessages'
  <1>1. issued' = [issued EXCEPT ![k] = Append(@, m)]
    BY DEF IssuePerm
  <1> DEFINE msg == [type |-> type, key |-> k, op |-> m, ver |-> Len(issued[k]) + 1]
  <1>2. caJob' = [msg |-> msg, todo |-> Locations]
    BY DEF IssuePerm, Propagate
  <1>3. msg \in PermPushes
    BY <1>1, Grows DEF PermPushes
  <1>4. msg \in SoundMessages'
    BY <1>1, <1>3, Grows DEF SoundMessages, Messages, Pushes
  <1> QED BY <1>1, <1>2, <1>3, <1>4, Grows, LocationsAssumption DEF Pushes

\* Every request that esoca handles leaves it with a sound message to send.
LEMMA HandleSound ==
  ASSUME IInv, CaHandle
  PROVE  /\ CaInv'
         /\ UNCHANGED net
         /\ \/ UNCHANGED issued
            \/ \E k \in AllKeys, m \in Masks : issued' = [issued EXCEPT ![k] = Append(@, m)]
  <1>1. PICK r \in Requests :
            CaNewPerm(r) \/ CaUpdatePerm(r) \/ CaDeletePerm(r) \/ CaNewCred(r)
    BY DEF CaHandle
  <1>2. CaTypeOK /\ UNCHANGED net /\ requests' = Tail(requests) /\ requests # <<>>
    BY <1>1 DEF IInv, CaInv, CaNewPerm, CaUpdatePerm, CaDeletePerm, CaNewCred, Accept
  <1>3. requests' \in Seq(Requests)
    BY <1>2, HeadTailProperties DEF CaTypeOK
  <1>4. r.type # "NEW_CRED" => r.key \in Keys /\ r.key \in AllKeys /\ r.op \in Masks
    BY DEF Requests, PermRequests, CredRequests, AllKeys
  <1>5. CASE CaNewPerm(r)
    <2>1. r.key \in AllKeys /\ r.op \in Masks
      BY <1>4, <1>5 DEF CaNewPerm
    <2>2. caPerms' \in [AllKeys -> Rows]
      <3>1. caPerms \in [AllKeys -> Rows]
        BY <1>2 DEF CaTypeOK
      <3>2. create_permission(caPerms, r.key, r.op) \in [AllKeys -> Rows]
        BY <2>1, <3>1, TableTypes
      <3>3. caPerms' \in perform_query(Ca, caPerms, create_permission(caPerms, r.key, r.op))
        BY <1>5 DEF CaNewPerm
      <3> QED BY <3>1, <3>2, <3>3, MayFail
    <2>3. IssuePerm("UPDATE_PERM", r.key, r.op) /\ UNCHANGED <<caCreds, freshKey>>
      BY <1>5 DEF CaNewPerm
    <2> QED BY <1>2, <1>3, <2>1, <2>2, <2>3, IssueSound DEF CaInv, CaTypeOK
  <1>6. CASE CaUpdatePerm(r)
    <2>1. r.key \in AllKeys /\ r.op \in Masks
      BY <1>4, <1>6 DEF CaUpdatePerm
    <2>2. caPerms' \in [AllKeys -> Rows]
      <3>1. caPerms \in [AllKeys -> Rows]
        BY <1>2 DEF CaTypeOK
      <3>2. update_permission(caPerms, r.key, r.op) \in [AllKeys -> Rows]
        BY <2>1, <3>1, TableTypes
      <3>3. caPerms' \in perform_query(Ca, caPerms, update_permission(caPerms, r.key, r.op))
        BY <1>6 DEF CaUpdatePerm
      <3> QED BY <3>1, <3>2, <3>3, MayFail
    <2>3. PICK perm \in get_result(Ca, EmptyPermission, get_permission(caPerms', r.key)) :
              IssuePerm("UPDATE_PERM", perm.key, perm.op) /\ UNCHANGED <<caCreds, freshKey>>
      BY <1>6 DEF CaUpdatePerm
    <2>4. perm.key \in AllKeys /\ perm.op \in Masks
      BY <2>1, <2>2, <2>3, SelectTypes DEF get_result, EmptyPermission, AllKeys, Masks
    <2> QED BY <1>2, <1>3, <2>2, <2>3, <2>4, IssueSound DEF CaInv, CaTypeOK
  <1>7. CASE CaDeletePerm(r)
    <2>1. r.key \in AllKeys /\ r.op \in Masks /\ {} \in Masks
      BY <1>4, <1>7 DEF CaDeletePerm, Masks
    <2>2. caPerms' \in [AllKeys -> Rows]
      <3>1. caPerms \in [AllKeys -> Rows]
        BY <1>2 DEF CaTypeOK
      <3>2. delete_permission(caPerms, r.key) \in [AllKeys -> Rows]
        BY <2>1, <3>1, DeleteEffect
      <3>3. caPerms' \in perform_query(Ca, caPerms, delete_permission(caPerms, r.key))
        BY <1>7 DEF CaDeletePerm
      <3> QED BY <3>1, <3>2, <3>3, MayFail
    <2>3. IssuePerm("DELETE_PERM", r.key, {}) /\ UNCHANGED <<caCreds, freshKey>>
      BY <1>7 DEF CaDeletePerm
    <2> QED BY <1>2, <1>3, <2>1, <2>2, <2>3, IssueSound DEF CaInv, CaTypeOK
  <1>8. CASE CaNewCred(r)
    <2>1. r.cred \in CredIds
      BY <1>8 DEF CaNewCred, Requests, PermRequests, CredRequests
    <2>2. caCreds' \in [CredIds -> Nat] /\ freshKey' \in Nat \ {NoKey}
      <3>1. caCreds \in [CredIds -> Nat] /\ freshKey \in Nat \ {NoKey}
        BY <1>2 DEF CaTypeOK
      <3>2. /\ caCreds' \in {caCreds, create_credential(caCreds, r.cred, freshKey)}
            /\ freshKey' = freshKey + 1
        BY <1>8 DEF CaNewCred, perform_query
      <3>3. caCreds' \in [CredIds -> Nat]
        BY <2>1, <3>1, <3>2, CredTypes
      <3> QED BY <3>1, <3>2, <3>3 DEF NoKey
    <2> DEFINE msg == [type |-> "NEW_CRED", cred |-> r.cred, mat |-> freshKey]
    <2>3. caJob' = [msg |-> msg, todo |-> Locations] /\ UNCHANGED <<caPerms, issued>>
      BY <1>8 DEF CaNewCred, Propagate
    <2>4. msg \in CredPushes
      BY <1>2, <2>1 DEF CaTypeOK, CredPushes
    <2>5. msg \in SoundMessages'
      BY <2>3, <2>4, MessageFacts DEF SoundMessages
    <2>6. caJob' \in [msg : Pushes \cup {Torn}, todo : Seq(Esods)]
      BY <2>3, <2>4, LocationsAssumption DEF Pushes
    <2> QED BY <1>2, <1>3, <2>2, <2>3, <2>5, <2>6 DEF CaInv, CaTypeOK
  <1> QED BY <1>1, <1>5, <1>6, <1>7, <1>8

\* esoca ends: what it had left to send is forgotten.
LEMMA CaEndsSound ==
  ASSUME NetInv, CaInv, NEW cut, CaEnds(cut), caPerms' \in [AllKeys -> Rows]
  PROVE  NetInv' /\ CaInv'
  <1>1. NetInv'
    BY DownNet DEF CaEnds, Procs
  <1>2. SoundMessages' = SoundMessages
    BY DEF CaEnds, SoundMessages
  <1> QED BY <1>1, <1>2, EmptySeq, MessageFacts DEF CaInv, CaTypeOK, CaEnds, NoJob

LEMMA CaDownSound ==
  ASSUME NetInv, CaInv, NEW cut, CaDown(cut)
  PROVE  NetInv' /\ CaInv'
  BY CaEndsSound DEF CaDown, CaInv, CaTypeOK

\* Every step of esoca keeps the invariant.
LEMMA CaSound == IInv /\ EsocaStep => IInv'
  <1> SUFFICES ASSUME IInv, EsocaStep PROVE IInv'
    OBVIOUS
  <1>1. UNCHANGED <<webVars, esodVars, esolVars, counters>> /\ CaNext
    BY DEF EsocaStep
  <1>2. EnvInv'
    BY <1>1 DEF IInv, EnvInv, WebTypeOK, webVars, counters
  <1>3. CASE CaHandle
    <2>1. CASE UNCHANGED issued
      BY <1>1, <1>2, <1>3, <2>1, HandleSound, NetFrame, EsodFrame, EsolFrame DEF IInv
    <2>2. CASE \E k \in AllKeys, m \in Masks : issued' = [issued EXCEPT ![k] = Append(@, m)]
      <3>1. CaTypeOK
        BY DEF IInv, CaInv
      <3> QED BY <1>1, <1>2, <1>3, <2>2, <3>1,
                 HandleSound, Grows, NetGrows, EsodGrows, EsolGrows DEF IInv
    <2> QED BY <1>3, <2>1, <2>2, HandleSound
  <1>4. CASE CaSend
    <2> DEFINE d == Head(caJob.todo)
    <2>1. /\ d \in Servers /\ inbox' = Queued(d, caJob.msg)
          /\ UNCHANGED <<up, stuck, pull, requests, caPerms, caCreds, issued, freshKey>>
      BY <1>4 DEF CaSend, HasRoom
    <2>2. SoundMessages' = SoundMessages
      BY <2>1 DEF SoundMessages
    <2>3. inbox' \in [Servers -> Seq(SoundMessages)]
      BY <2>1, QueuedType DEF IInv, NetInv, CaInv
    <2>4. inbox' \in [Servers -> Seq(Messages)]
      BY <2>3, SeqMonotonic, MessageFacts
    <2>5. NetInv'
      BY <2>1, <2>2, <2>3, <2>4 DEF IInv, NetInv, NetTypeOK
    <2>6. /\ caJob' \in [msg : Pushes \cup {Torn}, todo : Seq(Esods)]
          /\ caJob'.msg \in SoundMessages
      <3>1. /\ caJob \in [msg : Pushes \cup {Torn}, todo : Seq(Esods)]
            /\ caJob.msg \in SoundMessages /\ caJob.todo # <<>>
        BY <1>4 DEF IInv, CaInv, CaTypeOK, CaSend, CaIdle
      <3>2. Tail(caJob.todo) \in Seq(Esods)
        BY <3>1, HeadTailProperties
      <3>3. caJob' = NoJob \/ caJob' = [caJob EXCEPT !.todo = Tail(@)]
        BY <1>4 DEF CaSend
      <3>4. NoJob \in [msg : Pushes \cup {Torn}, todo : Seq(Esods)] /\ NoJob.msg \in SoundMessages
        BY EmptySeq, MessageFacts DEF NoJob
      <3>5. [caJob EXCEPT !.todo = Tail(caJob.todo)]
                = [msg |-> caJob.msg, todo |-> Tail(caJob.todo)]
        BY <3>1
      <3> QED BY <3>1, <3>2, <3>3, <3>4, <3>5
    <2>7. CaInv'
      BY <2>1, <2>2, <2>6 DEF IInv, CaInv, CaTypeOK
    <2> QED BY <1>1, <1>2, <2>1, <2>5, <2>7, EsodFrame, EsolFrame DEF IInv
  <1>5. CASE CaExit
    <2>1. CaDown({})
      BY <1>5 DEF CaExit
    <2> QED BY <1>1, <1>2, <2>1, CaDownSound, EsodFrame, EsolFrame DEF IInv, CaDown, CaEnds
  <1>6. CASE CaDies
    <2> DEFINE r == Head(requests)
    <2>1. /\ requests # <<>> /\ r.type = "UPDATE_PERM" /\ CaEnds({})
          /\ caPerms' \in perform_query(Ca, caPerms, update_permission(caPerms, r.key, r.op))
      BY <1>6 DEF CaDies
    <2>2. caPerms \in [AllKeys -> Rows] /\ r \in Requests
      BY <2>1, HeadTailProperties DEF IInv, CaInv, CaTypeOK
    <2>3. r.key \in AllKeys /\ r.op \in Masks
      BY <2>1, <2>2 DEF Requests, PermRequests, CredRequests, AllKeys
    <2> HIDE DEF r
    <2>4. caPerms' \in [AllKeys -> Rows]
      BY <2>1, <2>2, <2>3, TableTypes, MayFail
    <2> QED BY <1>1, <1>2, <2>1, <2>4, CaEndsSound, EsodFrame, EsolFrame DEF IInv, CaEnds
  <1> QED BY <1>1, <1>3, <1>4, <1>5, <1>6 DEF CaNext

-----------------------------------------------------------------------------
(***************************************************************************)
(* esod.  It writes what a sound message says.                             *)
(***************************************************************************)
LEMMA PushFacts ==
  ASSUME CaTypeOK, NEW m \in SoundMessages, m.type \in {"UPDATE_PERM", "DELETE_PERM"}
  PROVE  /\ m \in PermPushes
         /\ m.key \in AllKeys /\ m.op \in Masks /\ m.ver \in Nat
         /\ m.ver <= Len(issued[m.key])
         /\ m.op = IssuedValue(m.key, m.ver)
         /\ m.type = "DELETE_PERM" => m.op = {}
  <1>1. m \in PermPushes
    BY MessageFacts
  <1>2. m.key \in AllKeys /\ m.op \in Masks /\ m.ver \in Nat
    BY <1>1 DEF PermPushes
  <1>3. /\ m.ver \in 1..Len(issued[m.key]) /\ m.op = issued[m.key][m.ver]
        /\ m.type = "DELETE_PERM" => m.op = {}
    BY <1>1 DEF SoundMessages
  <1>4. Len(issued[m.key]) \in Nat
    BY <1>2, LenProperties DEF CaTypeOK
  <1> QED BY <1>1, <1>2, <1>3, <1>4 DEF IssuedValue

\* Accepting a connection yields a sound message and leaves sound ones.
LEMMA AcceptSound ==
  ASSUME NetInv, UNCHANGED issued, NEW s \in Servers, NEW i \in Acceptable(s),
         inbox' = Accepted(s, i)
  PROVE  /\ inbox[s][i] \in SoundMessages
         /\ SoundMessages' = SoundMessages
         /\ inbox' \in [Servers -> Seq(SoundMessages')]
         /\ inbox' \in [Servers -> Seq(Messages)]
  <1>1. SoundMessages' = SoundMessages
    BY DEF SoundMessages
  <1>2. inbox[s][i] \in SoundMessages /\ inbox' \in [Servers -> Seq(SoundMessages)]
    BY AcceptedType DEF NetInv
  <1> QED BY <1>1, <1>2, SeqMonotonic, MessageFacts

\* A table that stores what message m says, and is otherwise as before.
Stores(new, old, m) ==
    /\ new \in [AllKeys -> Rows]
    /\ \A k \in AllKeys : Allows(new[k]) = IF k = m.key THEN m.op ELSE Allows(old[k])

\* The database of d, or of h, applies message m, or fails to.
EsodApplies(d, m) ==
    \/ UNCHANGED <<dPerms, dApplied>>
    \/ \E table : /\ Stores(table, dPerms[d], m)
                  /\ dPerms' = [dPerms EXCEPT ![d] = table]
                  /\ dApplied' = [dApplied EXCEPT ![d][m.key] = m.ver]

EsolApplies(h, m) ==
    \/ UNCHANGED <<hPerms, hApplied>>
    \/ \E table : /\ Stores(table, hPerms[h], m)
                  /\ hPerms' = [hPerms EXCEPT ![h] = table]
                  /\ hApplied' = [hApplied EXCEPT ![h][m.key] = m.ver]

\* An upsert stores a message, and so does a delete of one that allows nothing.
LEMMA StatementStores ==
  ASSUME NEW old \in [AllKeys -> Rows], NEW m, m.key \in AllKeys, m.op \in Masks
  PROVE  /\ Stores(insert_permission(old, m.key, m.op), old, m)
         /\ m.op = {} => Stores(delete_permission(old, m.key), old, m)
  <1> DEFINE k == m.key
             op == m.op
  <1>1. k \in AllKeys /\ op \in Masks
    OBVIOUS
  <1> HIDE DEF k, op
  <1>2. /\ insert_permission(old, k, op) \in [AllKeys -> Rows]
        /\ \A j \in AllKeys :
               Allows(insert_permission(old, k, op)[j]) = IF j = k THEN op ELSE Allows(old[j])
    BY <1>1, UpsertEffect
  <1>3. /\ delete_permission(old, k) \in [AllKeys -> Rows]
        /\ \A j \in AllKeys :
               Allows(delete_permission(old, k)[j]) = IF j = k THEN {} ELSE Allows(old[j])
    BY <1>1, DeleteEffect
  <1> QED BY <1>2, <1>3 DEF Stores, k, op

\* UPDATE_PERM and DELETE_PERM at an esod apply a sound message.
LEMMA PushEffect ==
  ASSUME NetInv, CaInv, EsodInv, NEW d \in Esods, NEW i, UNCHANGED caVars,
         EsodUpdatePerm(d, i) \/ EsodDeletePerm(d, i)
  PROVE  /\ NetInv'
         /\ \E m \in SoundMessages \cap PermPushes : EsodApplies(d, m) /\ UNCHANGED dCreds
                                                 /\ dJob' = [dJob EXCEPT ![d] = m]
  <1> DEFINE m == inbox[d][i]
  <1>1. /\ i \in Acceptable(d) /\ inbox' = Accepted(d, i) /\ UNCHANGED <<up, stuck, pull>>
        /\ UNCHANGED dCreds /\ dJob' = [dJob EXCEPT ![d] = m]
        /\ \/ /\ m.type = "UPDATE_PERM"
              /\ EsodStore(d, m, insert_permission(dPerms[d], m.key, m.op))
           \/ /\ m.type = "DELETE_PERM"
              /\ EsodStore(d, m, delete_permission(dPerms[d], m.key))
    BY DEF EsodUpdatePerm, EsodDeletePerm, EsodAccept, Forward
  <1>2. d \in Servers /\ UNCHANGED issued /\ CaTypeOK
    BY DEF Servers, caVars, CaInv
  <1>3. /\ m \in SoundMessages /\ SoundMessages' = SoundMessages
        /\ inbox' \in [Servers -> Seq(SoundMessages')] /\ inbox' \in [Servers -> Seq(Messages)]
    BY <1>1, <1>2, AcceptSound
  <1>4. /\ m \in PermPushes /\ m.key \in AllKeys /\ m.op \in Masks
        /\ m.type = "DELETE_PERM" => m.op = {}
    BY <1>1, <1>2, <1>3, PushFacts
  <1> HIDE DEF m
  <1>5. NetInv'
    BY <1>1, <1>3 DEF NetInv, NetTypeOK
  <1>6. dPerms[d] \in [AllKeys -> Rows]
    BY DEF EsodInv, EsodTypeOK
  <1>7. EsodApplies(d, m)
    BY <1>1, <1>4, <1>6, StatementStores DEF EsodStore, EsodApplies
  <1> QED BY <1>1, <1>3, <1>4, <1>5, <1>7 DEF m

\* Applying one keeps its database faithful.
LEMMA PushSound ==
  ASSUME CaInv, EsodInv, NEW d \in Esods, UNCHANGED caVars,
         NEW m \in SoundMessages \cap PermPushes, EsodApplies(d, m), UNCHANGED dCreds /\ dJob' = [dJob EXCEPT ![d] = m]
  PROVE  EsodInv'
  <1>1. UNCHANGED issued /\ CaTypeOK /\ SoundMessages' = SoundMessages
    BY DEF caVars, CaInv, SoundMessages
  <1>2. /\ m.key \in AllKeys /\ m.op \in Masks /\ m.ver \in Nat
        /\ m.ver <= Len(issued[m.key]) /\ m.op = IssuedValue(m.key, m.ver)
    <2>1. m.type \in {"UPDATE_PERM", "DELETE_PERM"}
      BY DEF PermPushes
    <2> QED BY <1>1, <2>1, PushFacts
  <1>3. dPerms \in [Esods -> [AllKeys -> Rows]] /\ dApplied \in [Esods -> [AllKeys -> Nat]]
    BY DEF EsodInv, EsodTypeOK
  <1>4. dPerms' \in [Esods -> [AllKeys -> Rows]] /\ dApplied' \in [Esods -> [AllKeys -> Nat]]
    <2>1. ASSUME NEW table, Stores(table, dPerms[d], m),
                 dPerms' = [dPerms EXCEPT ![d] = table],
                 dApplied' = [dApplied EXCEPT ![d][m.key] = m.ver]
          PROVE  dPerms' \in [Esods -> [AllKeys -> Rows]] /\ dApplied' \in [Esods -> [AllKeys -> Nat]]
      <3>1. dPerms' \in [Esods -> [AllKeys -> Rows]]
        BY <1>3, <2>1 DEF Stores
      <3>2. [dApplied[d] EXCEPT ![m.key] = m.ver] \in [AllKeys -> Nat]
        BY <1>2, <1>3
      <3> QED BY <1>3, <2>1, <3>1, <3>2
    <2> QED BY <1>3, <2>1 DEF EsodApplies
  <1>5. DistributionFaithful'
    <2> SUFFICES ASSUME NEW e \in Esods, NEW k \in AllKeys
                 PROVE  /\ dApplied'[e][k] <= Len(issued[k])
                        /\ Allows(dPerms'[e][k]) = IssuedValue(k, dApplied'[e][k])
      BY <1>1 DEF DistributionFaithful, IssuedValue
    <2>1. /\ dApplied[e][k] <= Len(issued[k])
          /\ Allows(dPerms[e][k]) = IssuedValue(k, dApplied[e][k])
      BY DEF EsodInv, DistributionFaithful
    <2>2. CASE UNCHANGED <<dPerms, dApplied>>
      BY <2>1, <2>2
    <2>3. ASSUME NEW table, Stores(table, dPerms[d], m),
                 dPerms' = [dPerms EXCEPT ![d] = table],
                 dApplied' = [dApplied EXCEPT ![d][m.key] = m.ver]
          PROVE  /\ dApplied'[e][k] <= Len(issued[k])
                 /\ Allows(dPerms'[e][k]) = IssuedValue(k, dApplied'[e][k])
      <3>1. dApplied'[e][k] = IF e = d /\ k = m.key THEN m.ver ELSE dApplied[e][k]
        BY <1>2, <1>3, <2>3
      <3>2. Allows(dPerms'[e][k]) = IF e = d /\ k = m.key THEN m.op ELSE Allows(dPerms[e][k])
        BY <1>3, <2>3 DEF Stores
      <3> QED BY <1>2, <2>1, <3>1, <3>2
    <2> QED BY <2>2, <2>3 DEF EsodApplies
  <1> QED BY <1>1, <1>4, <1>5 DEF EsodInv, EsodTypeOK

\* The other messages: they change no permission.
LEMMA EsodHandleSound ==
  ASSUME NetInv, CaInv, EsodInv, NEW d \in Esods, NEW i, UNCHANGED caVars,
         \/ EsodNewCred(d, i) \/ EsodGetPerm(d, i) \/ EsodGetCred(d, i) \/ EsodSpin(d, i)
  PROVE  NetInv' /\ EsodInv'
  <1> DEFINE m == inbox[d][i]
  <1>1. i \in Acceptable(d) /\ inbox' = Accepted(d, i) /\ up' = up
    BY DEF EsodNewCred, EsodGetPerm, EsodGetCred, EsodSpin, EsodAccept, Spin, Reply, ReplyLost
  <1>2. d \in Servers /\ UNCHANGED issued
    BY DEF Servers, caVars
  <1>3. /\ m \in SoundMessages /\ SoundMessages' = SoundMessages
        /\ inbox' \in [Servers -> Seq(SoundMessages')] /\ inbox' \in [Servers -> Seq(Messages)]
    BY <1>1, <1>2, AcceptSound
  <1> HIDE DEF m
  <1>4. CASE EsodNewCred(d, i)
    <2>1. /\ m.type = "NEW_CRED" /\ UNCHANGED <<stuck, pull, dPerms, dJob, dApplied>>
          /\ \E table \in {dCreds[d], create_credential(dCreds[d], m.cred, m.mat)} :
                 dCreds' = [dCreds EXCEPT ![d] = table]
      BY <1>4 DEF m, EsodNewCred, EsodAccept, perform_query
    <2>2. m.cred \in CredIds /\ m.mat \in Nat
      BY <1>3, <2>1, MessageFacts DEF CredPushes
    <2>3. dCreds' \in [Esods -> [CredIds -> Nat]]
      BY <2>1, <2>2, CredTypes DEF EsodInv, EsodTypeOK
    <2> QED BY <1>1, <1>2, <1>3, <2>1, <2>3
            DEF NetInv, NetTypeOK, EsodInv, EsodTypeOK, DistributionFaithful, IssuedValue
  <1>5. CASE EsodGetPerm(d, i) \/ EsodGetCred(d, i)
    <2>1. UNCHANGED esodVars /\ stuck' = stuck
      BY <1>5 DEF EsodGetPerm, EsodGetCred, Reply, ReplyLost
    <2>2. \/ UNCHANGED pull
          \/ \E h \in Hosts, a \in EmptyAnswers : a \in Answers /\ pull' = Answered(h, a)
      <3>1. CASE EsodGetPerm(d, i)
        <4>1. m.key \in AllKeys /\ m.from \in Hosts \cup {NoOne}
          BY <1>3, <3>1, MessageFacts DEF m, EsodGetPerm, EsodAccept
        <4>2. PermAnswer(d, m.key) \in Answers /\ PermAnswer(d, m.key) \in EmptyAnswers
          BY <4>1 DEF PermAnswer, Answers, EmptyAnswers, Masks
        <4> QED BY <3>1, <4>1, <4>2 DEF m, EsodGetPerm, Reply, ReplyLost
      <3>2. CASE EsodGetCred(d, i)
        <4>1. m.cred \in CredIds /\ m.from \in Hosts \cup {NoOne}
          BY <1>3, <3>2, MessageFacts DEF m, EsodGetCred, EsodAccept
        <4>2. get_result(d, NoKey, dCreds[d][m.cred]) \subseteq Nat
          BY <4>1 DEF EsodInv, EsodTypeOK, get_result, NoKey
        <4>3. \A mat \in get_result(d, NoKey, dCreds[d][m.cred]) :
                  CredAnswer(mat) \in Answers /\ CredAnswer(mat) \in EmptyAnswers
          BY <4>2 DEF CredAnswer, Answers, EmptyAnswers
        <4> QED BY <3>2, <4>1, <4>3 DEF m, EsodGetCred, Reply, ReplyLost
      <3> QED BY <1>5, <3>1, <3>2
    <2>3. /\ pull' \in [Hosts -> [to : Esods \cup {NoOne}, ans : Answers]]
          /\ \A h \in Hosts : pull'[h].ans \in EmptyAnswers
      <3>1. /\ pull \in [Hosts -> [to : Esods \cup {NoOne}, ans : Answers]]
            /\ \A h \in Hosts : pull[h].ans \in EmptyAnswers
        BY DEF NetInv, NetTypeOK
      <3> QED BY <2>2, <3>1 DEF Answered
    <2>4. EmptyAnswers' = EmptyAnswers
      BY DEF EmptyAnswers, Answers
    <2> QED BY <1>1, <1>2, <1>3, <2>1, <2>3, <2>4, EsodFrame DEF NetInv, NetTypeOK
  <1>6. CASE EsodSpin(d, i)
    <2>1. UNCHANGED esodVars /\ stuck' = stuck \cup {d} /\ pull' = pull
      BY <1>6 DEF EsodSpin, Spin
    <2> QED BY <1>1, <1>2, <1>3, <2>1, EsodFrame DEF NetInv, NetTypeOK
  <1> QED BY <1>4, <1>5, <1>6

\* A sound message that is sent leaves the queues sound.
LEMMA QueueSound ==
  ASSUME NetInv, UNCHANGED issued, NEW s \in Servers, NEW m \in SoundMessages,
         inbox' = Queued(s, m), up' = up, stuck' = stuck,
         pull' \in [Hosts -> [to : Esods \cup {NoOne}, ans : Answers]],
         \A h \in Hosts : pull'[h].ans \in EmptyAnswers
  PROVE  NetInv'
  <1>1. SoundMessages' = SoundMessages /\ EmptyAnswers' = EmptyAnswers
    BY DEF SoundMessages, EmptyAnswers, Answers
  <1>2. inbox' \in [Servers -> Seq(SoundMessages)]
    BY QueuedType DEF NetInv
  <1>3. inbox' \in [Servers -> Seq(Messages)]
    BY <1>2, SeqMonotonic, MessageFacts
  <1> QED BY <1>1, <1>2, <1>3 DEF NetInv, NetTypeOK

\* esod ends: what it had to forward is forgotten.
LEMMA EsodDownSound ==
  ASSUME NetInv, EsodInv, NEW d \in Esods, NEW cut, EsodDown(d, cut), UNCHANGED issued
  PROVE  NetInv' /\ EsodInv'
  <1>1. NetInv'
    BY DownNet DEF EsodDown, Procs, Servers
  <1>2. SoundMessages' = SoundMessages
    BY DEF SoundMessages
  <1>3. dJob' = [dJob EXCEPT ![d] = Idle] /\ UNCHANGED <<dPerms, dCreds, dApplied>>
    BY DEF EsodDown
  <1>4. EsodTypeOK' /\ \A e \in Esods : dJob'[e] \in SoundMessages
    BY <1>3, MessageFacts DEF EsodInv, EsodTypeOK, Idle
  <1> QED BY <1>1, <1>2, <1>3, <1>4 DEF EsodInv, DistributionFaithful, IssuedValue

\* Every step of an esod keeps the invariant.
LEMMA EsodSound == \A d \in Esods : IInv /\ EsodStep(d) => IInv'
  <1> SUFFICES ASSUME NEW d \in Esods, IInv, EsodStep(d) PROVE IInv'
    OBVIOUS
  <1>1. UNCHANGED <<caVars, webVars, esolVars, counters>> /\ UNCHANGED issued /\ EsodNext(d)
    BY DEF EsodStep, caVars
  <1>2. CaInv' /\ EsolInv' /\ EnvInv'
    BY <1>1, CaFrame, EsolFrame DEF IInv, EnvInv, WebTypeOK, webVars, counters
  <1>3. CASE EsodHandle(d)
    <2>1. PICK i \in 1..Window :
              \/ EsodUpdatePerm(d, i) \/ EsodDeletePerm(d, i) \/ EsodNewCred(d, i)
              \/ EsodGetPerm(d, i) \/ EsodGetCred(d, i) \/ EsodSpin(d, i)
      BY <1>3 DEF EsodHandle
    <2>2. ASSUME EsodUpdatePerm(d, i) \/ EsodDeletePerm(d, i)
          PROVE  NetInv' /\ EsodInv'
      BY <1>1, <2>2, PushEffect, PushSound DEF IInv
    <2> QED BY <1>1, <1>2, <2>1, <2>2, EsodHandleSound DEF IInv
  <1>4. CASE EsodForward(d)
    <2> DEFINE m == dJob[d]
    <2>1. /\ m.key.loc \in Servers /\ inbox' = Queued(m.key.loc, m)
          /\ dJob' = [dJob EXCEPT ![d] = Idle]
          /\ UNCHANGED <<up, stuck, pull, dPerms, dCreds, dApplied>>
      BY <1>4 DEF EsodForward, HasRoom
    <2>2. m \in SoundMessages
      BY DEF IInv, EsodInv
    <2>3. NetInv'
      BY <1>1, <2>1, <2>2, QueueSound DEF IInv, NetInv, NetTypeOK
    <2>4. EsodTypeOK' /\ \A e \in Esods : dJob'[e] \in SoundMessages
      BY <2>1, MessageFacts DEF IInv, EsodInv, EsodTypeOK, Idle
    <2>5. SoundMessages' = SoundMessages
      BY <1>1 DEF SoundMessages
    <2>6. EsodInv'
      BY <1>1, <2>1, <2>4, <2>5 DEF IInv, EsodInv, DistributionFaithful, IssuedValue
    <2> QED BY <1>2, <2>3, <2>6 DEF IInv
  <1>5. CASE EsodExit(d)
    BY <1>1, <1>2, <1>5, EsodDownSound DEF EsodExit, IInv
  <1> QED BY <1>1, <1>3, <1>4, <1>5 DEF EsodNext

-----------------------------------------------------------------------------
(***************************************************************************)
(* esol, TCP thread: it applies sound messages,                            *)
(***************************************************************************)
LEMMA EsolPushEffect ==
  ASSUME NetInv, CaInv, EsolInv, NEW h \in Hosts, NEW i, UNCHANGED caVars,
         EsolUpdatePerm(h, i) \/ EsolDeletePerm(h, i)
  PROVE  /\ NetInv'
         /\ \E m \in SoundMessages \cap PermPushes : EsolApplies(h, m) /\ UNCHANGED <<hCreds, client, silent>>
  <1> DEFINE m == inbox[h][i]
  <1>1. /\ i \in Acceptable(h) /\ inbox' = Accepted(h, i) /\ UNCHANGED <<up, stuck, pull>>
        /\ UNCHANGED <<hCreds, client, silent>>
        /\ \/ /\ m.type = "UPDATE_PERM"
              /\ EsolStore(h, m, insert_permission(hPerms[h], m.key, m.op))
           \/ /\ m.type = "DELETE_PERM"
              /\ EsolStore(h, m, delete_permission(hPerms[h], m.key))
    BY DEF EsolUpdatePerm, EsolDeletePerm, EsolAccept
  <1>2. h \in Servers /\ UNCHANGED issued /\ CaTypeOK
    BY DEF Servers, caVars, CaInv
  <1>3. /\ m \in SoundMessages /\ SoundMessages' = SoundMessages
        /\ inbox' \in [Servers -> Seq(SoundMessages')] /\ inbox' \in [Servers -> Seq(Messages)]
    BY <1>1, <1>2, AcceptSound
  <1>4. /\ m \in PermPushes /\ m.key \in AllKeys /\ m.op \in Masks
        /\ m.type = "DELETE_PERM" => m.op = {}
    BY <1>1, <1>2, <1>3, PushFacts
  <1> HIDE DEF m
  <1>5. NetInv'
    BY <1>1, <1>3 DEF NetInv, NetTypeOK
  <1>6. hPerms[h] \in [AllKeys -> Rows]
    BY DEF EsolInv, EsolTypeOK
  <1>7. EsolApplies(h, m)
    BY <1>1, <1>4, <1>6, StatementStores DEF EsolStore, EsolApplies
  <1> QED BY <1>1, <1>3, <1>4, <1>5, <1>7 DEF m

\* which keeps its database faithful.
LEMMA EsolPushSound ==
  ASSUME CaInv, EsolInv, NEW h \in Hosts, UNCHANGED caVars,
         NEW m \in SoundMessages \cap PermPushes, EsolApplies(h, m), UNCHANGED <<hCreds, client, silent>>
  PROVE  EsolInv'
  <1>1. UNCHANGED issued /\ CaTypeOK /\ SoundMessages' = SoundMessages
    BY DEF caVars, CaInv, SoundMessages
  <1>2. /\ m.key \in AllKeys /\ m.op \in Masks /\ m.ver \in Nat
        /\ m.ver <= Len(issued[m.key]) /\ m.op = IssuedValue(m.key, m.ver)
    <2>1. m.type \in {"UPDATE_PERM", "DELETE_PERM"}
      BY DEF PermPushes
    <2> QED BY <1>1, <2>1, PushFacts
  <1>3. hPerms \in [Hosts -> [AllKeys -> Rows]] /\ hApplied \in [Hosts -> [AllKeys -> Nat]]
    BY DEF EsolInv, EsolTypeOK
  <1>4. hPerms' \in [Hosts -> [AllKeys -> Rows]] /\ hApplied' \in [Hosts -> [AllKeys -> Nat]]
    <2>1. ASSUME NEW table, Stores(table, hPerms[h], m),
                 hPerms' = [hPerms EXCEPT ![h] = table],
                 hApplied' = [hApplied EXCEPT ![h][m.key] = m.ver]
          PROVE  hPerms' \in [Hosts -> [AllKeys -> Rows]] /\ hApplied' \in [Hosts -> [AllKeys -> Nat]]
      <3>1. hPerms' \in [Hosts -> [AllKeys -> Rows]]
        BY <1>3, <2>1 DEF Stores
      <3>2. [hApplied[h] EXCEPT ![m.key] = m.ver] \in [AllKeys -> Nat]
        BY <1>2, <1>3
      <3> QED BY <1>3, <2>1, <3>1, <3>2
    <2> QED BY <1>3, <2>1 DEF EsolApplies
  <1>5. HostFaithful'
    <2> SUFFICES ASSUME NEW g \in Hosts, NEW k \in AllKeys
                 PROVE  /\ hApplied'[g][k] <= Len(issued[k])
                        /\ Allows(hPerms'[g][k]) = IssuedValue(k, hApplied'[g][k])
      BY <1>1 DEF HostFaithful, IssuedValue
    <2>1. /\ hApplied[g][k] <= Len(issued[k])
          /\ Allows(hPerms[g][k]) = IssuedValue(k, hApplied[g][k])
      BY DEF EsolInv, HostFaithful
    <2>2. CASE UNCHANGED <<hPerms, hApplied>>
      BY <2>1, <2>2
    <2>3. ASSUME NEW table, Stores(table, hPerms[h], m),
                 hPerms' = [hPerms EXCEPT ![h] = table],
                 hApplied' = [hApplied EXCEPT ![h][m.key] = m.ver]
          PROVE  /\ hApplied'[g][k] <= Len(issued[k])
                 /\ Allows(hPerms'[g][k]) = IssuedValue(k, hApplied'[g][k])
      <3>1. hApplied'[g][k] = IF g = h /\ k = m.key THEN m.ver ELSE hApplied[g][k]
        BY <1>2, <1>3, <2>3
      <3>2. Allows(hPerms'[g][k]) = IF g = h /\ k = m.key THEN m.op ELSE Allows(hPerms[g][k])
        BY <1>3, <2>3 DEF Stores
      <3> QED BY <1>2, <2>1, <3>1, <3>2
    <2> QED BY <2>2, <2>3 DEF EsolApplies
  <1>6. ClientSound'
    BY <1>1 DEF EsolInv, ClientSound, SoundClient, Allowed
  <1> QED BY <1>4, <1>5, <1>6 DEF EsolInv, EsolTypeOK

-----------------------------------------------------------------------------
(***************************************************************************)
(* esol, UDS thread.  A step takes the request of a program to a sound     *)
(* state, and what it stores does not change what the cache allows.        *)
(***************************************************************************)
LEMMA ClientStep ==
  ASSUME EsolInv, NEW h \in Hosts, NEW c \in Clients, SoundClient(c),
         client' = [client EXCEPT ![h] = c],
         UNCHANGED <<hApplied, issued>>, silent' \subseteq Hosts,
         hCreds' \in [Hosts -> [CredIds -> Nat]],
         hPerms' \in [Hosts -> [AllKeys -> Rows]],
         \A g \in Hosts, k \in AllKeys : Allows(hPerms'[g][k]) = Allows(hPerms[g][k])
  PROVE  EsolInv'
  <1>1. EsolTypeOK'
    BY DEF EsolInv, EsolTypeOK
  <1>2. HostFaithful'
    BY DEF EsolInv, HostFaithful, IssuedValue
  <1>3. \A g \in Hosts : SoundClient(client'[g])
    BY DEF EsolInv, EsolTypeOK, ClientSound
  <1>4. ClientSound'
    BY <1>3 DEF ClientSound, SoundClient, Allowed
  <1> QED BY <1>1, <1>2, <1>4 DEF EsolInv

\* Steps that store nothing.
LEMMA ClientMove ==
  ASSUME EsolInv, NEW h \in Hosts, NEW c \in Clients, SoundClient(c),
         client' = [client EXCEPT ![h] = c], UNCHANGED <<tables, issued>>, silent' \subseteq Hosts
  PROVE  EsolInv'
  BY ClientStep DEF EsolInv, EsolTypeOK, tables

(***************************************************************************)
(* The states a request moves to.                                          *)
(***************************************************************************)
LEMMA SameRequest ==
  ASSUME NEW c, SoundClient(c), c.pc # "idle",
         NEW e, e.key = c.key, e.op = c.op, e.cred = c.cred,
         e.pc \in {"askPerm", "askCred", "waitCred"} => e.todo # <<>>,
         e.pc \in {"cred", "askCred", "waitCred", "serve"} => Allowed(c)
  PROVE  SoundClient(e)
  BY DEF SoundClient, Allowed

\* The next step of the same request,
LEMMA GotoMoves ==
  ASSUME NEW c \in Clients, SoundClient(c), c.pc # "idle", NEW pc \in ClientPcs,
         pc \in {"askPerm", "askCred", "waitCred"} => c.todo # <<>>,
         pc \in {"cred", "askCred", "waitCred", "serve"} => Allowed(c)
  PROVE  [c EXCEPT !.pc = pc] \in Clients /\ SoundClient([c EXCEPT !.pc = pc])
  <1> DEFINE e == [c EXCEPT !.pc = pc]
  <1>1. /\ e \in Clients /\ e.pc = pc
        /\ e.key = c.key /\ e.op = c.op /\ e.cred = c.cred /\ e.todo = c.todo
    BY DEF Clients
  <1> HIDE DEF e
  <1>2. SoundClient(e)
    BY <1>1, SameRequest
  <1> QED BY <1>1, <1>2 DEF e

\* the step that asks a list of locations,
LEMMA AskMoves ==
  ASSUME NEW c \in Clients, SoundClient(c), c.pc # "idle", NEW pc \in {"askPerm", "askCred"},
         NEW todo \in Seq(Esods), todo # <<>>, pc = "askCred" => Allowed(c)
  PROVE  /\ [c EXCEPT !.pc = pc, !.todo = todo] \in Clients
         /\ SoundClient([c EXCEPT !.pc = pc, !.todo = todo])
  <1> DEFINE e == [c EXCEPT !.pc = pc, !.todo = todo]
  <1>1. /\ e \in Clients /\ e.pc = pc
        /\ e.key = c.key /\ e.op = c.op /\ e.cred = c.cred /\ e.todo = todo
    BY DEF Clients, ClientPcs
  <1> HIDE DEF e
  <1>2. SoundClient(e)
    BY <1>1, SameRequest
  <1> QED BY <1>1, <1>2 DEF e

\* and the one that serves, are sound.
LEMMA ServeMoves ==
  ASSUME NEW c \in Clients, SoundClient(c), c.pc # "idle", NEW mat \in Nat, Allowed(c)
  PROVE  /\ [c EXCEPT !.pc = "serve", !.mat = mat] \in Clients
         /\ SoundClient([c EXCEPT !.pc = "serve", !.mat = mat])
  <1> DEFINE e == [c EXCEPT !.pc = "serve", !.mat = mat]
  <1>1. /\ e \in Clients /\ e.pc = "serve"
        /\ e.key = c.key /\ e.op = c.op /\ e.cred = c.cred
    BY DEF Clients, ClientPcs
  <1> HIDE DEF e
  <1>2. SoundClient(e)
    BY <1>1, SameRequest
  <1> QED BY <1>1, <1>2 DEF e

(***************************************************************************)
(* What the database allows was issued; what it allows a program, it was   *)
(* once allowed.                                                           *)
(***************************************************************************)
LEMMA DecideMoves ==
  ASSUME EsolInv, NEW h \in Hosts, client[h].pc # "idle", NEW mask, Decide(h, mask),
         mask \subseteq Allows(hPerms[h][client[h].key])
  PROVE  \E c \in Clients : SoundClient(c) /\ client' = [client EXCEPT ![h] = c]
  <1> DEFINE c == client[h]
  <1>1. c \in Clients /\ SoundClient(c) /\ c.key \in AllKeys
    BY DEF EsolInv, EsolTypeOK, ClientSound, Clients
  <1>2. CASE c.op \in mask
    <2>1. /\ hApplied[h][c.key] \in Nat /\ hApplied[h][c.key] <= Len(issued[c.key])
          /\ Allows(hPerms[h][c.key]) = IssuedValue(c.key, hApplied[h][c.key])
      BY <1>1 DEF EsolInv, EsolTypeOK, HostFaithful
    <2>2. hApplied[h][c.key] # 0
      BY <1>2, <2>1 DEF IssuedValue
    <2>3. Allowed(c)
      BY <1>2, <2>1, <2>2 DEF IssuedValue, Allowed
    <2>4. client' = [client EXCEPT ![h] = [c EXCEPT !.pc = "cred"]]
      BY <1>1, <1>2 DEF Decide, Goto, EsolInv, EsolTypeOK
    <2> HIDE DEF c
    <2>5. "cred" \in ClientPcs
      BY DEF ClientPcs
    <2> QED BY <1>1, <2>3, <2>4, <2>5, GotoMoves DEF c
  <1>3. CASE c.op \notin mask
    BY <1>3, NoClientSound DEF Decide, Answer
  <1> QED BY <1>2, <1>3

\* A program's request at a step that is not the first.
LEMMA AtFacts ==
  ASSUME EsolInv, NEW h \in Hosts, client[h].pc # "idle"
  PROVE  /\ client[h] \in Clients /\ SoundClient(client[h])
         /\ client[h].key \in AllKeys /\ client[h].cred \in CredIds /\ client[h].mat \in Nat
         /\ client[h].todo \in Seq(Esods)
         /\ client[h].pc \in {"cred", "askCred", "waitCred", "serve"} => Allowed(client[h])
         /\ client[h].pc \in {"askPerm", "askCred", "waitCred"} => client[h].todo # <<>>
         /\ client \in [Hosts -> Clients]
  <1>1. /\ client[h] \in Clients /\ SoundClient(client[h]) /\ client \in [Hosts -> Clients]
    BY DEF EsolInv, EsolTypeOK, ClientSound
  <1> QED BY <1>1 DEF Clients, SoundClient

\* A move to the next step, with nothing stored, keeps the invariant.
LEMMA GotoSound ==
  ASSUME EsolInv, NEW h \in Hosts, client[h].pc # "idle", NEW pc \in ClientPcs, Goto(h, pc),
         pc \in {"askPerm", "askCred", "waitCred"} => client[h].todo # <<>>,
         pc \in {"cred", "askCred", "waitCred", "serve"} => Allowed(client[h]),
         UNCHANGED <<tables, silent, issued>>
  PROVE  EsolInv'
  <1> DEFINE c == [client[h] EXCEPT !.pc = pc]
  <1>1. c \in Clients /\ SoundClient(c)
    BY AtFacts, GotoMoves
  <1>2. client' = [client EXCEPT ![h] = c] /\ silent' \subseteq Hosts
    BY DEF Goto, EsolInv, EsolTypeOK
  <1> HIDE DEF c
  <1> QED BY <1>1, <1>2, ClientMove

\* So does the end of a request.
LEMMA AnswerSound ==
  ASSUME EsolInv, NEW h \in Hosts, Answer(h), UNCHANGED <<tables, issued>>, silent' \subseteq Hosts
  PROVE  EsolInv'
  BY NoClientSound, ClientMove DEF Answer

\* The lookups in the database: they decide, ask or serve.
LEMMA LookupSound ==
  ASSUME EsolInv, NEW h \in Hosts, UNCHANGED issued, LookupPerm(h) \/ LookupCred(h)
  PROVE  EsolInv'
  <1>1. /\ client[h].pc \in {"perm", "cred"} /\ client[h].pc # "idle"
        /\ UNCHANGED <<tables, silent>> /\ silent' \subseteq Hosts
    BY DEF LookupPerm, LookupCred, At, EsolInv, EsolTypeOK
  <1> SUFFICES \E c \in Clients : SoundClient(c) /\ client' = [client EXCEPT ![h] = c]
    BY <1>1, ClientMove
  <1>2. /\ client[h] \in Clients /\ SoundClient(client[h])
        /\ client[h].key \in AllKeys /\ client[h].cred \in CredIds
        /\ client[h].pc = "cred" => Allowed(client[h])
        /\ client \in [Hosts -> Clients]
    BY <1>1, AtFacts
  <1>3. CASE LookupPerm(h)
    <2> DEFINE row == hPerms[h][client[h].key]
    <2>1. CASE Decide(h, Allows(row))
      BY <1>1, <2>1, DecideMoves
    <2>2. CASE GotoAsk(h, "askPerm", Locations) /\ Locations # <<>>
      <3> DEFINE c == [client[h] EXCEPT !.pc = "askPerm", !.todo = Locations]
      <3>1. client' = [client EXCEPT ![h] = c]
        BY <1>2, <2>2 DEF GotoAsk
      <3>2. c \in Clients /\ SoundClient(c)
        BY <1>1, <1>2, <2>2, AskMoves, LocationsAssumption
      <3> QED BY <3>1, <3>2
    <2>3. CASE Answer(h)
      BY <2>3, NoClientSound DEF Answer
    <2> QED BY <1>3, <2>1, <2>2, <2>3 DEF LookupPerm, get_result
  <1>4. CASE LookupCred(h)
    <2>1. client[h].pc = "cred" /\ Allowed(client[h])
      BY <1>2, <1>4 DEF LookupCred, At
    <2>2. CASE \E mat \in Nat : GotoServe(h, mat)
      <3>1. PICK mat \in Nat : GotoServe(h, mat)
        BY <2>2
      <3> DEFINE c == [client[h] EXCEPT !.pc = "serve", !.mat = mat]
      <3>2. client' = [client EXCEPT ![h] = c]
        BY <1>2, <3>1 DEF GotoServe
      <3>3. c \in Clients /\ SoundClient(c)
        BY <1>1, <1>2, <2>1, ServeMoves
      <3> QED BY <3>2, <3>3
    <2>3. CASE GotoAsk(h, "askCred", Locations) /\ Locations # <<>>
      <3> DEFINE c == [client[h] EXCEPT !.pc = "askCred", !.todo = Locations]
      <3>1. client' = [client EXCEPT ![h] = c]
        BY <1>2, <2>3 DEF GotoAsk
      <3>2. c \in Clients /\ SoundClient(c)
        BY <1>1, <1>2, <2>1, <2>3, AskMoves, LocationsAssumption
      <3> QED BY <3>1, <3>2
    <2>4. hCreds[h][client[h].cred] \in Nat /\ NoKey \in Nat
      BY <1>2 DEF EsolInv, EsolTypeOK, NoKey
    <2> QED BY <1>4, <2>2, <2>3, <2>4 DEF LookupCred, get_result
  <1> QED BY <1>3, <1>4

\* A query on its way is a sound message, its answer is not there yet.
LEMMA AskSound ==
  ASSUME NetInv, EsolInv, NEW h \in Hosts, UNCHANGED issued, AskPerm(h) \/ AskCred(h)
  PROVE  NetInv' /\ EsolInv'
  <1> DEFINE d == Head(client[h].todo)
  <1>1. client[h].pc \in {"askPerm", "askCred"} /\ client[h].pc # "idle"
    BY DEF AskPerm, AskCred, At
  <1>2. PICK query \in Queries : Ask(h, query)
    <2>1. client[h].key \in AllKeys /\ client[h].cred \in CredIds
      BY <1>1, AtFacts
    <2>2. /\ [type |-> "GET_PERM", key |-> client[h].key, from |-> h] \in Queries
          /\ [type |-> "GET_CRED", cred |-> client[h].cred, from |-> h] \in Queries
      BY <2>1 DEF Queries
    <2> QED BY <2>2 DEF AskPerm, AskCred
  <1>3. d \in Esods
    BY <1>1, AtFacts, HeadTailProperties
  <1> HIDE DEF d
  <1>4. /\ inbox' = Queued(d, query) /\ UNCHANGED <<up, stuck, tables, silent>>
        /\ pull' = [pull EXCEPT ![h] = [to |-> d, ans |-> NoAnswer]]
    BY <1>2 DEF Ask, d
  <1>5. /\ pull' \in [Hosts -> [to : Esods \cup {NoOne}, ans : Answers]]
        /\ \A g \in Hosts : pull'[g].ans \in EmptyAnswers
    BY <1>3, <1>4 DEF NetInv, NetTypeOK, NoAnswer, Answers, EmptyAnswers
  <1>6. NetInv'
    BY <1>2, <1>3, <1>4, <1>5, QueueSound, MessageFacts DEF Servers
  <1>7. UNCHANGED <<tables, silent, issued>>
    BY <1>4
  <1>8. "waitPerm" \in ClientPcs /\ "waitCred" \in ClientPcs
    BY DEF ClientPcs
  <1>9. CASE AskPerm(h)
    <2>1. Goto(h, "waitPerm")
      BY <1>9 DEF AskPerm
    <2>2. EsolInv'
      BY <1>1, <1>7, <1>8, <2>1, GotoSound
    <2> QED BY <1>6, <2>2
  <1>10. CASE AskCred(h)
    <2>1. client[h].todo # <<>> /\ Allowed(client[h]) /\ Goto(h, "waitCred")
      BY <1>1, <1>10, AtFacts DEF AskCred, At
    <2>2. EsolInv'
      BY <1>1, <1>7, <1>8, <2>1, GotoSound
    <2> QED BY <1>6, <2>2
  <1> QED BY <1>9, <1>10

\* The answers. That to GET_PERM allows nothing and is stored as such.
LEMMA GotSound ==
  ASSUME NetInv, EsolInv, NEW h \in Hosts, UNCHANGED issued,
         GotPerm(h) \/ GotCred(h) \/ GotInvalid(h)
  PROVE  NetInv' /\ EsolInv'
  <1>1. /\ client[h].pc \in {"waitPerm", "waitCred"} /\ client[h].pc # "idle"
        /\ UNCHANGED <<up, inbox, stuck, hApplied, silent, issued>>
        /\ pull' = [pull EXCEPT ![h] = NoPull]
    BY DEF GotPerm, GotCred, GotInvalid, At, tables
  <1>2. NetInv'
    <2>1. /\ pull' \in [Hosts -> [to : Esods \cup {NoOne}, ans : Answers]]
          /\ \A g \in Hosts : pull'[g].ans \in EmptyAnswers
      BY <1>1 DEF NetInv, NetTypeOK, NoPull, NoAnswer, Answers, EmptyAnswers
    <2>2. SoundMessages' = SoundMessages /\ EmptyAnswers' = EmptyAnswers
      BY <1>1 DEF SoundMessages, EmptyAnswers, Answers
    <2> QED BY <1>1, <2>1, <2>2 DEF NetInv, NetTypeOK
  <1>3. /\ client[h] \in Clients /\ SoundClient(client[h])
        /\ client[h].key \in AllKeys /\ client[h].cred \in CredIds
        /\ client[h].todo \in Seq(Esods)
        /\ client[h].pc = "waitCred" => Allowed(client[h])
        /\ client \in [Hosts -> Clients]
    BY <1>1, AtFacts
  <1>4. /\ silent' \subseteq Hosts /\ pull[h].ans \in EmptyAnswers /\ pull[h].ans \in Answers
        /\ hPerms \in [Hosts -> [AllKeys -> Rows]] /\ hCreds \in [Hosts -> [CredIds -> Nat]]
    BY <1>1 DEF EsolInv, EsolTypeOK, NetInv, NetTypeOK
  <1>5. CASE GotPerm(h)
    <2> DEFINE perm == pull[h].ans
    <2>1. perm.key \in AllKeys /\ perm.op = {}
      BY <1>4, <1>5 DEF GotPerm, Answers, EmptyAnswers
    <2>2. /\ \E table \in {hPerms[h], create_permission(hPerms[h], perm.key, {})} :
                 hPerms' = [hPerms EXCEPT ![h] = table]
          /\ Decide(h, {}) /\ hCreds' = hCreds
      BY <1>5, <2>1 DEF GotPerm, perform_query
    <2>3. /\ create_permission(hPerms[h], perm.key, {}) \in [AllKeys -> Rows]
          /\ \A k \in AllKeys :
                 Allows(create_permission(hPerms[h], perm.key, {})[k]) = Allows(hPerms[h][k])
      <3>1. {} \in Masks
        BY DEF Masks
      <3> QED BY <1>4, <2>1, <3>1, TableTypes, EmptyInsertEffect
    <2>4. /\ hPerms' \in [Hosts -> [AllKeys -> Rows]]
          /\ \A g \in Hosts, k \in AllKeys : Allows(hPerms'[g][k]) = Allows(hPerms[g][k])
      BY <1>4, <2>2, <2>3
    <2>5. \E c \in Clients : SoundClient(c) /\ client' = [client EXCEPT ![h] = c]
      BY <1>1, <2>2, DecideMoves
    <2>6. EsolInv'
      BY <1>1, <1>4, <2>2, <2>4, <2>5, ClientStep
    <2> QED BY <1>2, <2>6
  <1>6. CASE GotCred(h)
    <2>1. /\ pull[h].ans.mat \in Nat /\ Allowed(client[h])
      BY <1>3, <1>4, <1>6 DEF GotCred, At, Answers
    <2> DEFINE c == [client[h] EXCEPT !.pc = "serve", !.mat = pull[h].ans.mat]
    <2>2. c \in Clients /\ SoundClient(c)
      BY <1>1, <1>3, <2>1, ServeMoves
    <2>3. /\ client' = [client EXCEPT ![h] = c] /\ hPerms' = hPerms
          /\ \E table \in {hCreds[h], create_credential(hCreds[h], client[h].cred, pull[h].ans.mat)} :
                 hCreds' = [hCreds EXCEPT ![h] = table]
      BY <1>3, <1>6 DEF GotCred, GotoServe, perform_query
    <2>4. create_credential(hCreds[h], client[h].cred, pull[h].ans.mat) \in [CredIds -> Nat]
      BY <1>3, <1>4, <2>1, CredTypes
    <2>5. hCreds' \in [Hosts -> [CredIds -> Nat]]
      BY <1>4, <2>3, <2>4
    <2> HIDE DEF c
    <2>6. EsolInv'
      BY <1>1, <1>4, <2>2, <2>3, <2>5, ClientStep
    <2> QED BY <1>2, <2>6
  <1>7. CASE GotInvalid(h)
    <2>1. Allowed(client[h]) /\ UNCHANGED <<tables, issued>>
      BY <1>1, <1>3, <1>7 DEF GotInvalid, At
    <2>2. \E c \in Clients : SoundClient(c) /\ client' = [client EXCEPT ![h] = c]
      <3>1. CASE Len(client[h].todo) > 1
        <4> DEFINE todo == Tail(client[h].todo)
                   c == [client[h] EXCEPT !.pc = "askCred", !.todo = todo]
        <4>1. client' = [client EXCEPT ![h] = c]
          BY <1>3, <1>7, <3>1 DEF GotInvalid, GotoAsk
        <4>2. todo \in Seq(Esods) /\ todo # <<>>
          <5>1. client[h].todo \in Seq(Esods) /\ client[h].todo # <<>> /\ Len(<<>>) = 0
            BY <1>3, <3>1, EmptySeq
          <5>2. todo \in Seq(Esods) /\ Len(todo) = Len(client[h].todo) - 1
            BY <5>1, HeadTailProperties
          <5>3. Len(client[h].todo) \in Nat
            BY <5>1, LenProperties
          <5> HIDE DEF todo, c
          <5> QED BY <3>1, <5>1, <5>2, <5>3
        <4> HIDE DEF todo
        <4>3. c \in Clients /\ SoundClient(c)
          BY <1>1, <1>3, <2>1, <4>2, AskMoves
        <4> QED BY <4>1, <4>3
      <3>2. CASE ~(Len(client[h].todo) > 1)
        <4> DEFINE c == [client[h] EXCEPT !.pc = "serve", !.mat = NoKey]
        <4>1. client' = [client EXCEPT ![h] = c]
          BY <1>3, <1>7, <3>2 DEF GotInvalid, GotoServe
        <4>2. c \in Clients /\ SoundClient(c)
          BY <1>1, <1>3, <2>1, ServeMoves DEF NoKey
        <4> QED BY <4>1, <4>2
      <3> QED BY <3>1, <3>2
    <2>3. EsolInv'
      BY <1>4, <2>1, <2>2, ClientMove
    <2> QED BY <1>2, <2>3
  <1> QED BY <1>5, <1>6, <1>7

\* The services store nothing.
LEMMA ServiceSound ==
  ASSUME NetInv, EsolInv, NEW h \in Hosts, UNCHANGED issued,
         Encrypt(h) \/ Decrypt(h) \/ Hmac(h) \/ Sign(h) \/ Verify(h)
  PROVE  NetInv' /\ EsolInv'
  <1>1. UNCHANGED <<net, tables>> /\ Answer(h)
    BY DEF Encrypt, Decrypt, Hmac, Sign, Verify, Serving, UnlessExpired, Operate, Expired
  <1>2. silent' \subseteq Hosts
    BY DEF Encrypt, Decrypt, Hmac, Sign, Verify, UnlessExpired, Operate, Expired, EsolInv, EsolTypeOK
  <1> QED BY <1>1, <1>2, AnswerSound, NetFrame

\* esol ends: the request it served is forgotten.
LEMMA EsolDownSound ==
  ASSUME NetInv, EsolInv, NEW h \in Hosts, NEW cut, EsolDown(h, cut), UNCHANGED issued
  PROVE  NetInv' /\ EsolInv'
  <1>1. NetInv'
    BY DownNet DEF EsolDown, Procs, Servers
  <1>2. Answer(h) /\ UNCHANGED <<tables, issued>> /\ silent' \subseteq Hosts
    BY DEF EsolDown, EsolInv, EsolTypeOK
  <1> QED BY <1>1, <1>2, AnswerSound

\* Every step of either thread of an esol keeps the invariant.
LEMMA EsolSound == \A h \in Hosts : IInv /\ EsolStep(h) => IInv'
  <1> SUFFICES ASSUME NEW h \in Hosts, IInv, EsolStep(h) PROVE IInv'
    OBVIOUS
  <1>1. UNCHANGED <<caVars, webVars, esodVars, counters>> /\ UNCHANGED issued /\ EsolNext(h)
    BY DEF EsolStep, caVars
  <1>2. CaInv' /\ EsodInv' /\ EnvInv'
    BY <1>1, CaFrame, EsodFrame DEF IInv, EnvInv, WebTypeOK, webVars, counters
  <1> SUFFICES NetInv' /\ EsolInv'
    BY <1>2 DEF IInv
  <1>3. NetInv /\ CaInv /\ EsolInv
    BY DEF IInv
  <1>4. ASSUME NEW i \in 1..Window, EsolUpdatePerm(h, i) \/ EsolDeletePerm(h, i)
        PROVE  NetInv' /\ EsolInv'
    BY <1>1, <1>3, <1>4, EsolPushEffect, EsolPushSound
  <1>5. ASSUME NEW i \in 1..Window, EsolSpin(h, i)
        PROVE  NetInv' /\ EsolInv'
    <2>1. /\ i \in Acceptable(h) /\ inbox' = Accepted(h, i) /\ UNCHANGED <<up, pull, esolVars>>
          /\ stuck' = stuck \cup {h} /\ h \in Servers
      BY <1>5 DEF EsolSpin, Spin, Servers
    <2>2. /\ SoundMessages' = SoundMessages
          /\ inbox' \in [Servers -> Seq(SoundMessages')] /\ inbox' \in [Servers -> Seq(Messages)]
      BY <1>1, <1>3, <2>1, AcceptSound
    <2>3. EsolInv'
      BY <1>1, <1>3, <2>1, EsolFrame
    <2> QED BY <1>3, <2>1, <2>2, <2>3 DEF NetInv, NetTypeOK
  <1>6. CASE LookupPerm(h) \/ LookupCred(h)
    <2>1. UNCHANGED <<net, issued>>
      BY <1>1, <1>6 DEF LookupPerm, LookupCred
    <2> QED BY <1>3, <1>6, <2>1, LookupSound, NetFrame
  <1>7. CASE AskPerm(h) \/ AskCred(h)
    BY <1>1, <1>3, <1>7, AskSound
  <1>8. CASE GotPerm(h) \/ GotCred(h) \/ GotInvalid(h)
    BY <1>1, <1>3, <1>8, GotSound
  <1>9. CASE Encrypt(h) \/ Decrypt(h) \/ Hmac(h) \/ Sign(h) \/ Verify(h)
    BY <1>1, <1>3, <1>9, ServiceSound
  <1>10. CASE PullSpins(h)
    <2>1. client[h].pc # "idle" /\ Goto(h, "spin") /\ UNCHANGED <<net, tables, silent, issued>>
      BY <1>1, <1>10 DEF PullSpins, At
    <2>2. "spin" \in ClientPcs
      BY DEF ClientPcs
    <2> QED BY <1>3, <2>1, <2>2, GotoSound, NetFrame
  <1>11. CASE EsolExit(h)
    BY <1>1, <1>3, <1>11, EsolDownSound DEF EsolExit
  <1> QED BY <1>1, <1>4, <1>5, <1>6, <1>7, <1>8, <1>9, <1>10, <1>11
          DEF EsolNext, EsolTcp, EsolUds

-----------------------------------------------------------------------------
(***************************************************************************)
(* Programs, kills and restarts.                                           *)
(***************************************************************************)
LEMMA ProgramSound == \A h \in Hosts : IInv /\ Program(h) => IInv'
  <1> SUFFICES ASSUME NEW h \in Hosts, IInv, Program(h) PROVE IInv'
    OBVIOUS
  <1>1. PICK n \in Names, o \in Ops, c \in CredIds : ClientRequest(h, n, o, c)
    BY DEF Program
  <1>2. /\ UNCHANGED <<net, tables, silent>> /\ UNCHANGED <<caVars, webVars, esodVars, nKills>>
        /\ UNCHANGED issued /\ nClients' = nClients + 1
    BY <1>1 DEF Program, ClientRequest, caVars
  <1> DEFINE r == [NoClient EXCEPT !.pc = "perm", !.key = [name |-> n, loc |-> h],
                                   !.op = o, !.cred = c]
  <1>3. r \in Clients /\ SoundClient(r)
    BY NoClientSound DEF NoClient, Clients, ClientPcs, SoundClient, AllKeys, Keys
  <1>4. client' = [client EXCEPT ![h] = r] /\ silent' \subseteq Hosts
    BY <1>1, <1>2 DEF ClientRequest, IInv, EsolInv, EsolTypeOK
  <1> HIDE DEF r
  <1>5. EsolInv'
    BY <1>2, <1>3, <1>4, ClientMove DEF IInv
  <1>6. EnvInv'
    BY <1>2 DEF IInv, EnvInv, WebTypeOK, webVars
  <1> QED BY <1>2, <1>5, <1>6, NetFrame, CaFrame, EsodFrame DEF IInv

\* A kill keeps the invariant, with or without torn messages.
LEMMA KillSound == \A p \in Procs : IInv /\ Kill(p) => IInv'
  <1> SUFFICES ASSUME NEW p \in Procs, IInv, Kill(p) PROVE IInv'
    OBVIOUS
  <1>1. nKills' = nKills + 1 /\ UNCHANGED <<webVars, nClients>>
    BY DEF Kill
  <1>2. EnvInv'
    BY <1>1 DEF IInv, EnvInv, WebTypeOK, webVars
  <1>3. ASSUME NEW cut, p = Ca, CaDown(cut), UNCHANGED <<esodVars, esolVars>>
        PROVE  IInv'
    BY <1>2, <1>3, CaDownSound, EsodFrame, EsolFrame DEF IInv, CaDown, CaEnds
  <1>4. ASSUME NEW cut, p \in Esods, EsodDown(p, cut), UNCHANGED <<caVars, esolVars>>
        PROVE  IInv'
    BY <1>2, <1>4, EsodDownSound, CaFrame, EsolFrame DEF IInv, caVars
  <1>5. ASSUME NEW cut, p \in Hosts, EsolDown(p, cut), UNCHANGED <<caVars, esodVars>>
        PROVE  IInv'
    BY <1>2, <1>5, EsolDownSound, CaFrame, EsodFrame DEF IInv, caVars
  <1> QED BY <1>3, <1>4, <1>5 DEF Kill

\* A process that is started again finds its database as it left it.
LEMMA RestartSound == \A p \in Procs : IInv /\ Restart(p) => IInv'
  <1> SUFFICES ASSUME NEW p \in Procs, IInv, Restart(p) PROVE IInv'
    OBVIOUS
  <1>1. /\ up' = [up EXCEPT ![p] = TRUE] /\ UNCHANGED <<inbox, stuck, pull>>
        /\ UNCHANGED <<caVars, webVars, esodVars, esolVars, counters>> /\ UNCHANGED issued
    BY DEF Restart, caVars
  <1>2. SoundMessages' = SoundMessages
    BY <1>1 DEF SoundMessages
  <1>3. NetInv'
    BY <1>1, <1>2 DEF IInv, NetInv, NetTypeOK
  <1>4. EnvInv'
    BY <1>1 DEF IInv, EnvInv, WebTypeOK, webVars, counters
  <1> QED BY <1>1, <1>3, <1>4, CaFrame, EsodFrame, EsolFrame DEF IInv

-----------------------------------------------------------------------------
\* Nor does the invariant depend on anything but the variables.
LEMMA StutterSound == IInv /\ UNCHANGED vars => IInv'
  <1> SUFFICES ASSUME IInv, UNCHANGED vars PROVE IInv'
    OBVIOUS
  <1>1. UNCHANGED <<net, caVars, webVars, esodVars, esolVars>> /\ UNCHANGED issued
        /\ nKills' = nKills /\ nClients' = nClients
    BY DEF vars, caVars
  <1>2. EnvInv'
    BY <1>1 DEF IInv, EnvInv, WebTypeOK, webVars
  <1> QED BY <1>1, <1>2, NetFrame, CaFrame, EsodFrame, EsolFrame DEF IInv

\* The invariant is inductive.
LEMMA Inductive == IInv /\ [Next]_vars => IInv'
  BY WebSound, CaSound, EsodSound, EsolSound, ProgramSound, KillSound, RestartSound, StutterSound
  DEF Next

LEMMA Invariance == Spec => []IInv
  BY Inductive, InitIInv, PTL DEF Spec

(***************************************************************************)
(* Every daemon's state is well typed in every reachable state, torn       *)
(* messages and lost peers included.                                       *)
(***************************************************************************)
THEOREM TypeCorrect == Spec => []TypeOK
  <1>1. IInv => TypeOK
    BY DEF IInv, NetInv, CaInv, EsodInv, EsolInv, EnvInv, TypeOK
  <1> QED BY <1>1, Invariance, PTL

(***************************************************************************)
(* What an esod's cache allows is what esoca issued with the change that   *)
(* esod applied last, whatever the schedule, the order of the connections  *)
(* and the kills: neither an INSERT that failed nor a torn message shows.  *)
(***************************************************************************)
THEOREM DistributionIsFaithful == Spec => []DistributionFaithful
  <1>1. IInv => DistributionFaithful
    BY DEF IInv, EsodInv
  <1> QED BY <1>1, Invariance, PTL

(***************************************************************************)
(* The same for the cache of an esol, into which its UDS thread inserts    *)
(* the answers to queries while its TCP thread applies changes.            *)
(***************************************************************************)
THEOREM HostIsFaithful == Spec => []HostFaithful
  <1>1. IInv => HostFaithful
    BY DEF IInv, EsolInv
  <1> QED BY <1>1, Invariance, PTL

(***************************************************************************)
(* A program is served only an operation that esoca once allowed its user  *)
(* on this host (has_permission_to before every service).                  *)
(***************************************************************************)
THEOREM ServiceIsAllowed == Spec => []ServedAsAllowed
  <1>1. IInv => ServedAsAllowed
    BY DEF IInv, EsolInv, EsolTypeOK, ClientSound, SoundClient, Allowed, ServedAsAllowed
  <1> QED BY <1>1, Invariance, PTL

-----------------------------------------------------------------------------
(***************************************************************************)
(* Eso implements PermissionCaches, for all locations, hosts, names and    *)
(* admins, with any process killed and any database failing: a step of a   *)
(* daemon takes at most one key of one cache to another value, and that    *)
(* value was issued for the key.                                           *)
(***************************************************************************)
copies == <<issued, CacheAllows>>

\* What an esod and an esol show.
LEMMA CacheFacts ==
  /\ \A d \in Esods : d \in Servers /\ d \notin Hosts
  /\ \A h \in Hosts : h \in Servers /\ h \notin Esods
  BY ProcsAssumption DEF Servers

\* A step that changes no table changes no cache.
LEMMA NoChange == UNCHANGED <<issued, dPerms, hPerms>> => UNCHANGED copies
  BY DEF copies, CacheAllows

\* Nor does one that stores what is allowed already.
LEMMA SameAllowed ==
  ASSUME UNCHANGED <<issued, dPerms>>,
         \A h \in Hosts, k \in AllKeys : Allows(hPerms'[h][k]) = Allows(hPerms[h][k])
  PROVE  UNCHANGED copies
  BY CacheFacts DEF copies, CacheAllows, Servers

(***************************************************************************)
(* Applying a sound message is one Update.                                 *)
(***************************************************************************)
LEMMA OneUpdate ==
  ASSUME UNCHANGED issued, NEW s \in Servers, NEW m \in SoundMessages \cap PermPushes,
         \A c \in Servers, k \in AllKeys :
             CacheAllows'[c][k] = IF c = s /\ k = m.key THEN m.op ELSE CacheAllows[c][k]
  PROVE  Copies!Next
  <1>1. m.key \in AllKeys /\ m.ver \in 1..Len(issued[m.key]) /\ m.op = issued[m.key][m.ver]
    BY DEF SoundMessages, PermPushes
  <1>2. \A c \in Servers : CacheAllows'[c] = IF c = s THEN [CacheAllows[c] EXCEPT ![m.key] = m.op]
                                                     ELSE CacheAllows[c]
    <2> TAKE c \in Servers
    <2>1. /\ CacheAllows[c] = [k \in AllKeys |-> CacheAllows[c][k]]
          /\ CacheAllows'[c] = [k \in AllKeys |-> CacheAllows'[c][k]]
      BY DEF CacheAllows
    <2> QED BY <2>1
  <1>3. CacheAllows = [c \in Servers |-> CacheAllows[c]] /\ CacheAllows' = [c \in Servers |-> CacheAllows'[c]]
    BY DEF CacheAllows
  <1>4. CacheAllows' = [CacheAllows EXCEPT ![s][m.key] = m.op]
    BY <1>2, <1>3
  <1>5. Copies!Update(s, m.key)
    BY <1>1, <1>4 DEF Copies!Update
  <1> QED BY <1>1, <1>5 DEF Copies!Next

\* At an esod,
LEMMA EsodUpdates ==
  ASSUME EsodInv, NEW d \in Esods, NEW m \in SoundMessages \cap PermPushes,
         EsodApplies(d, m), UNCHANGED <<issued, hPerms>>
  PROVE  [Copies!Next]_copies
  <1>1. CASE UNCHANGED <<dPerms, dApplied>>
    BY <1>1, NoChange
  <1>2. ASSUME NEW table, Stores(table, dPerms[d], m), dPerms' = [dPerms EXCEPT ![d] = table]
        PROVE  Copies!Next
    <2>1. dPerms \in [Esods -> [AllKeys -> Rows]]
      BY DEF EsodInv, EsodTypeOK
    <2>2. \A c \in Servers, k \in AllKeys :
              CacheAllows'[c][k] = IF c = d /\ k = m.key THEN m.op ELSE CacheAllows[c][k]
      BY <1>2, <2>1, CacheFacts DEF CacheAllows, Stores
    <2> QED BY <2>2, CacheFacts, OneUpdate
  <1> QED BY <1>1, <1>2 DEF EsodApplies

\* and at an esol.
LEMMA EsolUpdates ==
  ASSUME EsolInv, NEW h \in Hosts, NEW m \in SoundMessages \cap PermPushes,
         EsolApplies(h, m), UNCHANGED <<issued, dPerms>>
  PROVE  [Copies!Next]_copies
  <1>1. CASE UNCHANGED <<hPerms, hApplied>>
    BY <1>1, NoChange
  <1>2. ASSUME NEW table, Stores(table, hPerms[h], m), hPerms' = [hPerms EXCEPT ![h] = table]
        PROVE  Copies!Next
    <2>1. hPerms \in [Hosts -> [AllKeys -> Rows]]
      BY DEF EsolInv, EsolTypeOK
    <2>2. \A c \in Servers, k \in AllKeys :
              CacheAllows'[c][k] = IF c = h /\ k = m.key THEN m.op ELSE CacheAllows[c][k]
      BY <1>2, <2>1, CacheFacts DEF CacheAllows, Stores, Servers
    <2> QED BY <2>2, CacheFacts, OneUpdate
  <1> QED BY <1>1, <1>2 DEF EsolApplies

\* An answer to GET_PERM is stored without changing what is allowed.
LEMMA AnswerStored ==
  ASSUME NetInv, EsolInv, NEW h \in Hosts, GotPerm(h), UNCHANGED <<issued, dPerms>>
  PROVE  UNCHANGED copies
  <1> DEFINE perm == pull[h].ans
  <1>1. perm.key \in AllKeys /\ perm.op = {}
    <2>1. perm \in Answers /\ perm \in EmptyAnswers /\ perm.kind = "perm"
      BY DEF GotPerm, NetInv, NetTypeOK
    <2> QED BY <2>1 DEF Answers, EmptyAnswers
  <1>2. \E table \in {hPerms[h], create_permission(hPerms[h], perm.key, {})} :
            hPerms' = [hPerms EXCEPT ![h] = table]
    BY <1>1 DEF GotPerm, perform_query
  <1> HIDE DEF perm
  <1>3. hPerms \in [Hosts -> [AllKeys -> Rows]]
    BY DEF EsolInv, EsolTypeOK
  <1>4. \A k \in AllKeys :
            Allows(create_permission(hPerms[h], perm.key, {})[k]) = Allows(hPerms[h][k])
    BY <1>1, <1>3, EmptyInsertEffect
  <1> QED BY <1>2, <1>3, <1>4, SameAllowed

-----------------------------------------------------------------------------
\* Nothing is issued and nothing allowed at first.
LEMMA InitCopies == Init => Copies!Init
  BY RowFacts, CacheFacts
  DEF Init, CaInit, EsodInit, EsolInit, EmptyTable, CacheAllows, Servers, Copies!Init

\* esoca issues, and changes no cache.
LEMMA CaCopies == IInv /\ EsocaStep => [Copies!Next]_copies
  <1> SUFFICES ASSUME IInv, EsocaStep PROVE [Copies!Next]_copies
    OBVIOUS
  <1>1. UNCHANGED <<dPerms, hPerms>> /\ CaNext
    BY DEF EsocaStep, esodVars, esolVars
  <1>2. CASE CaHandle
    <2>1. CASE UNCHANGED issued
      BY <1>1, <2>1, NoChange
    <2>2. ASSUME NEW k \in AllKeys, NEW m \in Masks, issued' = [issued EXCEPT ![k] = Append(@, m)]
          PROVE  Copies!Next
      <3>1. UNCHANGED CacheAllows
        BY <1>1 DEF CacheAllows
      <3> QED BY <2>2, <3>1 DEF Copies!Next, Copies!Issue
    <2> QED BY <1>2, <2>1, <2>2, HandleSound
  <1>3. CASE CaSend \/ CaExit \/ CaDies
    <2>1. UNCHANGED issued
      BY <1>3 DEF CaSend, CaExit, CaDies, CaDown, CaEnds
    <2> QED BY <1>1, <2>1, NoChange
  <1> QED BY <1>1, <1>2, <1>3 DEF CaNext

\* An esod updates its own cache.
LEMMA EsodCopies == \A d \in Esods : IInv /\ EsodStep(d) => [Copies!Next]_copies
  <1> SUFFICES ASSUME NEW d \in Esods, IInv, EsodStep(d) PROVE [Copies!Next]_copies
    OBVIOUS
  <1>1. UNCHANGED <<issued, hPerms, caVars>> /\ EsodNext(d)
    BY DEF EsodStep, caVars, esolVars
  <1>2. ASSUME NEW i, EsodUpdatePerm(d, i) \/ EsodDeletePerm(d, i)
        PROVE  [Copies!Next]_copies
    <2>1. PICK m \in SoundMessages \cap PermPushes : EsodApplies(d, m)
      BY <1>1, <1>2, PushEffect DEF IInv
    <2> QED BY <1>1, <2>1, EsodUpdates DEF IInv
  <1>3. ASSUME NEW i, EsodNewCred(d, i) \/ EsodGetPerm(d, i) \/ EsodGetCred(d, i) \/ EsodSpin(d, i)
        PROVE  UNCHANGED dPerms
    BY <1>3 DEF EsodNewCred, EsodGetPerm, EsodGetCred, EsodSpin, esodVars
  <1>4. CASE EsodForward(d) \/ EsodExit(d)
    <2>1. UNCHANGED dPerms
      BY <1>4 DEF EsodForward, EsodExit, EsodDown
    <2> QED BY <1>1, <2>1, NoChange
  <1> QED BY <1>1, <1>2, <1>3, <1>4, NoChange DEF EsodNext, EsodHandle

\* So does an esol; its UDS thread changes nothing that is allowed.
LEMMA EsolCopies == \A h \in Hosts : IInv /\ EsolStep(h) => [Copies!Next]_copies
  <1> SUFFICES ASSUME NEW h \in Hosts, IInv, EsolStep(h) PROVE [Copies!Next]_copies
    OBVIOUS
  <1>1. UNCHANGED <<issued, dPerms, caVars>> /\ EsolNext(h)
    BY DEF EsolStep, caVars, esodVars
  <1>2. ASSUME NEW i, EsolUpdatePerm(h, i) \/ EsolDeletePerm(h, i)
        PROVE  [Copies!Next]_copies
    <2>1. PICK m \in SoundMessages \cap PermPushes : EsolApplies(h, m)
      BY <1>1, <1>2, EsolPushEffect DEF IInv
    <2> QED BY <1>1, <2>1, EsolUpdates DEF IInv
  <1>3. ASSUME NEW i, EsolSpin(h, i)
        PROVE  UNCHANGED hPerms
    BY <1>3 DEF EsolSpin, esolVars
  <1>4. CASE GotPerm(h)
    BY <1>1, <1>4, AnswerStored DEF IInv
  <1>5. CASE LookupPerm(h) \/ AskPerm(h) \/ LookupCred(h) \/ AskCred(h) \/ GotInvalid(h)
    BY <1>1, <1>5, NoChange DEF LookupPerm, AskPerm, LookupCred, AskCred, Ask, GotInvalid, tables
  <1>6. CASE GotCred(h)
    BY <1>1, <1>6, NoChange DEF GotCred
  <1>7. CASE Encrypt(h) \/ Decrypt(h) \/ Hmac(h) \/ Sign(h) \/ Verify(h) \/ PullSpins(h)
    BY <1>1, <1>7, NoChange DEF Encrypt, Decrypt, Hmac, Sign, Verify, Serving, PullSpins, tables
  <1>8. CASE EsolExit(h)
    BY <1>1, <1>8, NoChange DEF EsolExit, EsolDown, tables
  <1>9. CASE EsolTcp(h)
    BY <1>1, <1>2, <1>3, <1>9, NoChange DEF EsolTcp
  <1>10. CASE EsolUds(h)
    BY <1>4, <1>5, <1>6, <1>7, <1>10 DEF EsolUds
  <1> QED BY <1>1, <1>8, <1>9, <1>10 DEF EsolNext

\* Admins, programs, kills and restarts change no cache.
LEMMA OthersCopies ==
  ASSUME \/ Web \/ UNCHANGED vars
         \/ \E h \in Hosts : Program(h)
         \/ \E p \in Procs : Kill(p) \/ Restart(p)
  PROVE  UNCHANGED copies
  <1>1. UNCHANGED <<issued, dPerms, hPerms>>
    <2>1. CASE Web
      BY <2>1 DEF Web, WebNext, CreatePerm, CreateCred, UpdatePerm, RemovePerm, Reload, Request,
                  caVars, esodVars, esolVars
    <2>2. CASE UNCHANGED vars
      BY <2>2 DEF vars, caVars, esodVars, esolVars
    <2>3. CASE \E h \in Hosts : Program(h)
      BY <2>3 DEF Program, ClientRequest, caVars, esodVars, tables
    <2>4. CASE \E p \in Procs : Kill(p)
      BY <2>4 DEF Kill, CaDown, CaEnds, EsodDown, EsolDown, caVars, esodVars, esolVars, tables
    <2>5. CASE \E p \in Procs : Restart(p)
      BY <2>5 DEF Restart, caVars, esodVars, esolVars
    <2> QED BY <2>1, <2>2, <2>3, <2>4, <2>5
  <1> QED BY <1>1, NoChange

(***************************************************************************)
(* The three daemons together implement an authority with caches.          *)
(***************************************************************************)
THEOREM CachesAreImplemented == Spec => ImplementsCaches
  <1>1. IInv /\ [Next]_vars => [Copies!Next]_copies
    BY CaCopies, EsodCopies, EsolCopies, OthersCopies DEF Next
  <1> QED BY <1>1, InitCopies, Invariance, PTL DEF Spec, ImplementsCaches, Copies!Spec, copies
=============================================================================
