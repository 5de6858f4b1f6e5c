--------------------------- MODULE EsoOrder_proofs ---------------------------
(***************************************************************************)
(* The order in which changes reach the caches of Eso.  Each connection    *)
(* carries one change, so it is the accept queues, and not a stream, that  *)
(* keep changes in order: when a server accepts connections in the order   *)
(* they were made, the versions on the way from esoca to a cache ascend    *)
(* along the way, and no cache takes a version older than the one it has.  *)
(***************************************************************************)
EXTENDS Eso_proofs

\* Two changes of the same key, the first of which is not the younger one.
InOrder(x, y) == x \in PermPushes /\ y \in PermPushes /\ x.key = y.key => x.ver <= y.ver

\* A cache has applied no later version than m's, if m is a change.
Behind(applied, m) == m \in PermPushes => applied[m.key] <= m.ver

Ascending(q) == \A i, j \in 1..Len(q) : i < j => InOrder(q[i], q[j])

(***************************************************************************)
(* On the way from esoca to an esod: what esoca still sends is the latest  *)
(* value of its key, the connections that wait are in order, and the       *)
(* database is behind all of them.                                         *)
(***************************************************************************)
Newest(m) == m \in PermPushes => m.ver = Len(issued[m.key])

EsodOrder ==
    /\ Newest(caJob.msg)
    /\ \A d \in Esods :
          /\ Ascending(inbox[d])
          /\ \A i \in 1..Len(inbox[d]) : Behind(dApplied[d], inbox[d][i])

(***************************************************************************)
(* On the way from an esod to an esol: the database of the host, the       *)
(* connections that wait there, what esod has yet to forward, and the      *)
(* connections that wait at esod.                                          *)
(***************************************************************************)
HostOrder ==
    /\ \A h \in Hosts :
          /\ Ascending(inbox[h])
          /\ \A i \in 1..Len(inbox[h]) : Behind(hApplied[h], inbox[h][i])
    /\ \A h \in Hosts, d \in Esods :
          /\ Behind(hApplied[h], dJob[d])
          /\ \A i \in 1..Len(inbox[h]) : InOrder(inbox[h][i], dJob[d])
    /\ \A h \in Hosts, d \in Esods : \A j \in 1..Len(inbox[d]) :
          /\ Behind(hApplied[h], inbox[d][j])
          /\ InOrder(dJob[d], inbox[d][j])
          /\ \A i \in 1..Len(inbox[h]) : InOrder(inbox[h][i], inbox[d][j])

OneEsod == \A d, e \in Esods : d = e

-----------------------------------------------------------------------------
(***************************************************************************)
(* Accept queues.  The changes of queue new are changes of queue old, in   *)
(* the same order: it is old, old without its first connection, or old     *)
(* with connections that carry no change.                                  *)
(***************************************************************************)
Subline(new, old) ==
    /\ Len(new) \in Nat /\ Len(old) \in Nat
    /\ \E n \in {0, 1} : \A i \in 1..Len(new) :
           new[i] \in PermPushes => i + n \in 1..Len(old) /\ new[i] = old[i + n]

\* RemoveAt takes the first element away.
LEMMA HeadRemoved ==
  ASSUME NEW T, NEW s \in Seq(T), 1 \in 1..Len(s)
  PROVE  /\ Len(RemoveAt(s, 1)) = Len(s) - 1
         /\ \A i \in 1..Len(RemoveAt(s, 1)) : i + 1 \in 1..Len(s) /\ RemoveAt(s, 1)[i] = s[i + 1]
  <1>1. Len(s) \in Nat /\ \A j \in 1..Len(s) : s[j] \in T
    BY ElementOfSeq, LenProperties
  <1>2. SubSeq(s, 1, 0) = <<>>
    BY <1>1, SubSeqProperties, EmptySeq
  <1>3. /\ SubSeq(s, 2, Len(s)) \in Seq(T) /\ Len(SubSeq(s, 2, Len(s))) = Len(s) - 1
        /\ \A i \in 1..(Len(s) - 1) : SubSeq(s, 2, Len(s))[i] = s[i + 1]
    <2>1. /\ SubSeq(s, 2, Len(s)) \in Seq(T)
          /\ Len(SubSeq(s, 2, Len(s))) = IF 2 <= Len(s) THEN Len(s) - 2 + 1 ELSE 0
          /\ \A i \in 1..(Len(s) - 2 + 1) : SubSeq(s, 2, Len(s))[i] = s[2 + i - 1]
      BY <1>1, SubSeqProperties
    <2>2. Len(s) - 2 + 1 = Len(s) - 1 /\ \A i \in 1..(Len(s) - 1) : 2 + i - 1 = i + 1
      BY <1>1
    <2> QED BY <1>1, <2>1, <2>2
  <1>4. RemoveAt(s, 1) = SubSeq(s, 2, Len(s))
    BY <1>1, <1>2, <1>3, ConcatEmptySeq DEF RemoveAt
  <1> QED BY <1>1, <1>3, <1>4

\* With a window of one, the connection that is accepted is the first.
LEMMA AcceptFirst ==
  ASSUME NetTypeOK, Window = 1, NEW s \in Servers, NEW i \in Acceptable(s), inbox' = Accepted(s, i)
  PROVE  /\ i = 1 /\ 1 \in 1..Len(inbox[s]) /\ Len(inbox[s]) \in Nat
         /\ Len(inbox'[s]) = Len(inbox[s]) - 1
         /\ \A j \in 1..Len(inbox'[s]) : j + 1 \in 1..Len(inbox[s]) /\ inbox'[s][j] = inbox[s][j + 1]
         /\ \A r \in Servers : r # s => inbox'[r] = inbox[r]
         /\ \A r \in Servers : Subline(inbox'[r], inbox[r])
  <1>1. /\ \A r \in Servers : inbox[r] \in Seq(Messages) /\ Len(inbox[r]) \in Nat
        /\ inbox \in [Servers -> Seq(Messages)]
    BY LenProperties DEF NetTypeOK
  <1>2. i = 1 /\ 1 \in 1..Len(inbox[s])
    BY <1>1 DEF Acceptable
  <1>3. inbox'[s] = RemoveAt(inbox[s], 1) /\ \A r \in Servers : r # s => inbox'[r] = inbox[r]
    BY <1>1, <1>2 DEF Accepted
  <1>4. /\ Len(inbox'[s]) = Len(inbox[s]) - 1
        /\ \A j \in 1..Len(inbox'[s]) : j + 1 \in 1..Len(inbox[s]) /\ inbox'[s][j] = inbox[s][j + 1]
    <2>1. inbox[s] \in Seq(Messages)
      BY <1>1
    <2>2. /\ Len(RemoveAt(inbox[s], 1)) = Len(inbox[s]) - 1
          /\ \A j \in 1..Len(RemoveAt(inbox[s], 1)) :
                 j + 1 \in 1..Len(inbox[s]) /\ RemoveAt(inbox[s], 1)[j] = inbox[s][j + 1]
      BY <1>2, <2>1, HeadRemoved
    <2> QED BY <1>3, <2>2
  <1>5. Subline(inbox'[s], inbox[s])
    BY <1>1, <1>2, <1>4 DEF Subline
  <1>6. \A r \in Servers : r # s => Subline(inbox'[r], inbox[r])
    BY <1>1, <1>3 DEF Subline
  <1> QED BY <1>1, <1>2, <1>3, <1>4, <1>5, <1>6

\* A connection that is added comes last.
LEMMA QueueLast ==
  ASSUME NetTypeOK, NEW s \in Servers, NEW m \in Messages, inbox' = Queued(s, m)
  PROVE  /\ Len(inbox[s]) \in Nat /\ Len(inbox'[s]) = Len(inbox[s]) + 1
         /\ inbox'[s][Len(inbox[s]) + 1] = m
         /\ \A j \in 1..Len(inbox[s]) : inbox'[s][j] = inbox[s][j]
         /\ \A r \in Servers : r # s => inbox'[r] = inbox[r]
         /\ m \notin PermPushes => \A r \in Servers : Subline(inbox'[r], inbox[r])
  <1>1. /\ \A r \in Servers : inbox[r] \in Seq(Messages) /\ Len(inbox[r]) \in Nat
        /\ inbox \in [Servers -> Seq(Messages)]
    BY LenProperties DEF NetTypeOK
  <1>2. inbox'[s] = Append(inbox[s], m) /\ \A r \in Servers : r # s => inbox'[r] = inbox[r]
    BY <1>1 DEF Queued
  <1>3. /\ Len(inbox'[s]) = Len(inbox[s]) + 1
        /\ inbox'[s][Len(inbox[s]) + 1] = m
        /\ \A j \in 1..Len(inbox[s]) : inbox'[s][j] = inbox[s][j]
    BY <1>1, <1>2, AppendProperties
  <1>4. ASSUME m \notin PermPushes PROVE \A r \in Servers : Subline(inbox'[r], inbox[r])
    <2>1. Subline(inbox'[s], inbox[s])
      <3>1. \A j \in 1..Len(inbox'[s]) : inbox'[s][j] \in PermPushes =>
                j + 0 \in 1..Len(inbox[s]) /\ inbox'[s][j] = inbox[s][j + 0]
        BY <1>1, <1>3, <1>4
      <3>2. Len(inbox'[s]) \in Nat /\ Len(inbox[s]) \in Nat
        BY <1>1, <1>3
      <3> QED BY <3>1, <3>2 DEF Subline
    <2>2. ASSUME NEW r \in Servers, r # s PROVE Subline(inbox'[r], inbox[r])
      <3>1. \A j \in 1..Len(inbox[r]) : j + 0 = j
        BY <1>1
      <3> QED BY <1>1, <1>2, <2>2, <3>1 DEF Subline
    <2> QED BY <2>1, <2>2
  <1> QED BY <1>1, <1>2, <1>3, <1>4

\* The end of a process orphans queries, tears messages and loses a queue.
LEMMA DownSubline ==
  ASSUME NetTypeOK, NEW p \in Procs, NEW cut, Down(p, cut), NEW s \in Servers
  PROVE  Subline(inbox'[s], inbox[s])
  <1> DEFINE q == [i \in 1..Len(inbox[s]) |-> Orphaned(inbox[s][i], p)]
             torn == IF s \in cut THEN <<Torn>> ELSE <<>>
  <1>1. inbox[s] \in Seq(Messages) /\ Len(inbox[s]) \in Nat
        /\ \A i \in 1..Len(inbox[s]) : inbox[s][i] \in Messages
    BY LenProperties, ElementOfSeq DEF NetTypeOK
  <1>2. inbox'[s] = IF s = p THEN <<>> ELSE q \o torn
    BY DEF Down
  <1>3. CASE s = p
    BY <1>1, <1>2, <1>3, EmptySeq DEF Subline
  <1>4. CASE s # p
    <2>1. \A m \in Messages : /\ Orphaned(m, p) \in Messages
                              /\ Orphaned(m, p) \in PermPushes => Orphaned(m, p) = m
      BY MessageFacts DEF Orphaned, IsQuery, Messages, Queries, PermPushes
    <2>2. q \in [1..Len(inbox[s]) -> Messages]
      BY <1>1, <2>1
    <2>3. q \in Seq(Messages) /\ Len(q) = Len(inbox[s])
      BY <1>1, <2>2
    <2>4. torn \in Seq(Messages) /\ Len(torn) \in Nat /\ \A i \in 1..Len(torn) : torn[i] = Torn
      BY EmptySeq, MessageFacts
    <2>5. /\ Len(q \o torn) = Len(q) + Len(torn)
          /\ \A i \in 1..Len(q) + Len(torn) :
                 (q \o torn)[i] = IF i <= Len(q) THEN q[i] ELSE torn[i - Len(q)]
      <3> HIDE DEF q, torn
      <3> QED BY <2>3, <2>4, ConcatProperties
    <2>6. Torn \notin PermPushes
      BY DEF Torn, PermPushes
    <2>7. \A i \in 1..Len(inbox[s]) : q[i] \in PermPushes => q[i] = inbox[s][i]
      BY <1>1, <2>1
    <2> HIDE DEF q, torn
    <2>8. ASSUME NEW i \in 1..Len(q \o torn), (q \o torn)[i] \in PermPushes
          PROVE  i \in 1..Len(inbox[s]) /\ (q \o torn)[i] = inbox[s][i]
      <3>1. CASE i <= Len(q)
        BY <1>1, <2>3, <2>5, <2>7, <2>8, <3>1
      <3>2. CASE ~(i <= Len(q))
        <4>1. i - Len(q) \in 1..Len(torn)
          BY <1>1, <2>3, <2>4, <2>5, <3>2
        <4> QED BY <2>4, <2>5, <2>6, <2>8, <3>2, <4>1
      <3> QED BY <3>1, <3>2
    <2>9. \A i \in 1..Len(inbox[s]) : i + 0 = i
      BY <1>1
    <2> QED BY <1>1, <1>2, <1>4, <2>3, <2>4, <2>5, <2>8, <2>9 DEF Subline
  <1> QED BY <1>3, <1>4

-----------------------------------------------------------------------------
(***************************************************************************)
(* The steps that deliver no change: nothing is added to the way that a    *)
(* change takes, and no database moves along it.                           *)
(***************************************************************************)
Undelivered ==
    /\ \A s \in Servers : Subline(inbox'[s], inbox[s])
    /\ UNCHANGED <<dApplied, hApplied, issued>>
    /\ caJob'.msg \in {caJob.msg, Torn}
    /\ \A d \in Esods : dJob'[d] \in {dJob[d], Torn}

\* A torn message is no change.
LEMMA TornFacts == Torn \notin PermPushes /\ \A q \in Queries : q \notin PermPushes
  BY DEF Torn, PermPushes, Queries

\* A queue that gains no change stays ascending, and a database behind it
\* stays behind.
LEMMA SublineKeeps ==
  ASSUME NEW new, NEW old, Subline(new, old)
  PROVE  /\ Ascending(old) => Ascending(new)
         /\ \A i \in 1..Len(new) : new[i] \in PermPushes =>
                \E j \in 1..Len(old) : old[j] = new[i]
  <1>1. PICK n \in {0, 1} : \A i \in 1..Len(new) :
            new[i] \in PermPushes => i + n \in 1..Len(old) /\ new[i] = old[i + n]
    BY DEF Subline
  <1>2. Len(new) \in Nat /\ Len(old) \in Nat
    BY DEF Subline
  <1>3. ASSUME Ascending(old), NEW i \in 1..Len(new), NEW j \in 1..Len(new), i < j
        PROVE  InOrder(new[i], new[j])
    <2> SUFFICES ASSUME new[i] \in PermPushes, new[j] \in PermPushes
                 PROVE  InOrder(new[i], new[j])
      BY DEF InOrder
    <2>1. /\ i + n \in 1..Len(old) /\ new[i] = old[i + n]
          /\ j + n \in 1..Len(old) /\ new[j] = old[j + n]
      BY <1>1
    <2>2. i + n < j + n
      BY <1>2, <1>3
    <2> QED BY <1>3, <2>1, <2>2 DEF Ascending
  <1> QED BY <1>1, <1>3 DEF Ascending

\* Steps that deliver nothing keep the order on the way to the esods ...
LEMMA UndeliveredEsod == EsodOrder /\ Undelivered => EsodOrder'
  <1> SUFFICES ASSUME EsodOrder, Undelivered PROVE EsodOrder'
    OBVIOUS
  <1>1. Newest(caJob.msg)'
    BY TornFacts DEF EsodOrder, Undelivered, Newest
  <1>2. ASSUME NEW d \in Esods
        PROVE  /\ Ascending(inbox'[d])
               /\ \A i \in 1..Len(inbox'[d]) : Behind(dApplied'[d], inbox'[d][i])
    <2>1. Subline(inbox'[d], inbox[d]) /\ dApplied' = dApplied
      BY DEF Undelivered, Servers
    <2>2. Ascending(inbox[d]) /\ \A i \in 1..Len(inbox[d]) : Behind(dApplied[d], inbox[d][i])
      BY DEF EsodOrder
    <2> QED BY <2>1, <2>2, SublineKeeps DEF Behind
  <1> QED BY <1>1, <1>2 DEF EsodOrder, Ascending

\* ... and from there to the esols.
LEMMA UndeliveredHost == HostOrder /\ Undelivered => HostOrder'
  <1> SUFFICES ASSUME HostOrder, Undelivered PROVE HostOrder'
    OBVIOUS
  <1>1. ASSUME NEW h \in Hosts
        PROVE  /\ Ascending(inbox'[h])
               /\ \A i \in 1..Len(inbox'[h]) : Behind(hApplied'[h], inbox'[h][i])
    <2>1. Subline(inbox'[h], inbox[h]) /\ hApplied' = hApplied
      BY DEF Undelivered, Servers
    <2>2. Ascending(inbox[h]) /\ \A i \in 1..Len(inbox[h]) : Behind(hApplied[h], inbox[h][i])
      BY DEF HostOrder
    <2> QED BY <2>1, <2>2, SublineKeeps DEF Behind
  <1>2. ASSUME NEW h \in Hosts, NEW d \in Esods
        PROVE  /\ Behind(hApplied'[h], dJob'[d])
               /\ \A i \in 1..Len(inbox'[h]) : InOrder(inbox'[h][i], dJob'[d])
    <2>1. Subline(inbox'[h], inbox[h]) /\ hApplied' = hApplied /\ dJob'[d] \in {dJob[d], Torn}
      BY DEF Undelivered, Servers
    <2>2. Behind(hApplied[h], dJob[d]) /\ \A i \in 1..Len(inbox[h]) : InOrder(inbox[h][i], dJob[d])
      BY DEF HostOrder
    <2> QED BY <2>1, <2>2, SublineKeeps, TornFacts DEF Behind, InOrder
  <1>3. ASSUME NEW h \in Hosts, NEW d \in Esods, NEW j \in 1..Len(inbox'[d])
        PROVE  /\ Behind(hApplied'[h], inbox'[d][j])
               /\ InOrder(dJob'[d], inbox'[d][j])
               /\ \A i \in 1..Len(inbox'[h]) : InOrder(inbox'[h][i], inbox'[d][j])
    <2>1. /\ Subline(inbox'[h], inbox[h]) /\ Subline(inbox'[d], inbox[d])
          /\ hApplied' = hApplied /\ dJob'[d] \in {dJob[d], Torn}
      BY DEF Undelivered, Servers
    <2> SUFFICES ASSUME inbox'[d][j] \in PermPushes
                 PROVE  /\ Behind(hApplied'[h], inbox'[d][j])
                        /\ InOrder(dJob'[d], inbox'[d][j])
                        /\ \A i \in 1..Len(inbox'[h]) : InOrder(inbox'[h][i], inbox'[d][j])
      BY DEF Behind, InOrder
    <2>2. PICK n \in 1..Len(inbox[d]) : inbox[d][n] = inbox'[d][j]
      BY <2>1, SublineKeeps
    <2>3. /\ Behind(hApplied[h], inbox[d][n]) /\ InOrder(dJob[d], inbox[d][n])
          /\ \A i \in 1..Len(inbox[h]) : InOrder(inbox[h][i], inbox[d][n])
      BY DEF HostOrder
    <2>4. ASSUME NEW i \in 1..Len(inbox'[h]) PROVE InOrder(inbox'[h][i], inbox'[d][j])
      <3>1. CASE inbox'[h][i] \in PermPushes
        <4>1. PICK l \in 1..Len(inbox[h]) : inbox[h][l] = inbox'[h][i]
          BY <2>1, <3>1, SublineKeeps
        <4> QED BY <2>2, <2>3, <4>1
      <3>2. CASE inbox'[h][i] \notin PermPushes
        BY <3>2 DEF InOrder
      <3> QED BY <3>1, <3>2
    <2>5. InOrder(dJob'[d], inbox'[d][j])
      BY <2>1, <2>2, <2>3, TornFacts DEF InOrder
    <2> QED BY <2>1, <2>2, <2>3, <2>4, <2>5
  <1> QED BY <1>1, <1>2, <1>3 DEF HostOrder, Ascending

-----------------------------------------------------------------------------
(***************************************************************************)
(* esoca.  What it decides to send is the latest value of its key, ...     *)
(***************************************************************************)
LEMMA HandleOrder ==
  ASSUME IInv, CaHandle, UNCHANGED <<esodVars, esolVars>>
  PROVE  /\ EsodOrder => EsodOrder'
         /\ HostOrder => HostOrder'
  <1>1. inbox' = inbox /\ UNCHANGED <<dJob, dApplied, hApplied>>
    BY HandleSound DEF net, esodVars, esolVars
  <1>2. Newest(caJob.msg)'
    <2>1. PICK r \in Requests :
              CaNewPerm(r) \/ CaUpdatePerm(r) \/ CaDeletePerm(r) \/ CaNewCred(r)
      BY DEF CaHandle
    <2>2. ASSUME NEW type, NEW k \in AllKeys, NEW m \in Masks, IssuePerm(type, k, m)
          PROVE  Newest(caJob.msg)'
      <3>1. /\ issued \in [AllKeys -> Seq(Masks)]
            /\ issued' = [issued EXCEPT ![k] = Append(@, m)]
            /\ caJob'.msg = [type |-> type, key |-> k, op |-> m, ver |-> Len(issued[k]) + 1]
        BY <2>2 DEF IssuePerm, Propagate, IInv, CaInv, CaTypeOK
      <3>2. Len(issued'[k]) = Len(issued[k]) + 1
        BY <3>1, AppendProperties
      <3> QED BY <3>1, <3>2 DEF Newest
    <2>3. r.type # "NEW_CRED" => r.key \in AllKeys /\ r.op \in Masks /\ {} \in Masks
      BY DEF Requests, PermRequests, CredRequests, AllKeys, Masks
    <2>4. CASE CaNewPerm(r) \/ CaDeletePerm(r)
      BY <2>2, <2>3, <2>4 DEF CaNewPerm, CaDeletePerm
    <2>5. CASE CaUpdatePerm(r)
      <3>1. PICK perm \in get_result(Ca, EmptyPermission, get_permission(caPerms', r.key)) :
                IssuePerm("UPDATE_PERM", perm.key, perm.op)
        BY <2>5 DEF CaUpdatePerm
      <3>2. caPerms' \in [AllKeys -> Rows] /\ r.key \in AllKeys
        BY <2>3, <2>5, HandleSound DEF CaInv, CaTypeOK, CaUpdatePerm
      <3>3. perm.key \in AllKeys /\ perm.op \in Masks
        BY <3>1, <3>2, SelectTypes DEF get_result, EmptyPermission, AllKeys, Masks
      <3> QED BY <2>2, <3>1, <3>3
    <2>6. CASE CaNewCred(r)
      <3>1. caJob'.msg = [type |-> "NEW_CRED", cred |-> r.cred, mat |-> freshKey]
        BY <2>6 DEF CaNewCred, Propagate
      <3> QED BY <3>1 DEF Newest, PermPushes
    <2> QED BY <2>1, <2>4, <2>5, <2>6
  <1> QED BY <1>1, <1>2 DEF EsodOrder, HostOrder, Ascending

\* ... and nothing on the way is younger than it.
LEMMA SendOrder ==
  ASSUME IInv, CaSend, UNCHANGED <<esodVars, esolVars>>, EsodOrder
  PROVE  /\ EsodOrder'
         /\ OneEsod /\ HostOrder => HostOrder'
  <1> DEFINE s == Head(caJob.todo)
             m == caJob.msg
  <1>1. /\ inbox' = Queued(s, m) /\ caJob'.msg \in {m, Torn}
        /\ UNCHANGED <<dJob, dApplied, hApplied, issued>>
    BY DEF CaSend, NoJob, esodVars, esolVars, IInv, CaInv, CaTypeOK
  <1>2. s \in Esods /\ s \in Servers /\ m \in Messages
    <2>1. caJob.todo \in Seq(Esods) /\ caJob.todo # <<>>
      BY DEF IInv, CaInv, CaTypeOK, CaSend, CaIdle
    <2> QED BY <2>1, HeadTailProperties DEF Servers, IInv, CaInv, SoundMessages
  <1>3. /\ NetTypeOK /\ CaTypeOK /\ DistributionFaithful /\ HostFaithful /\ Newest(m)
        /\ \A r \in Servers : \A i \in 1..Len(inbox[r]) : inbox[r][i] \in SoundMessages
        /\ \A d \in Esods : dJob[d] \in SoundMessages
    BY ElementOfSeq DEF IInv, NetInv, CaInv, EsodInv, EsolInv, EsodOrder
  <1> HIDE DEF s, m
  <1>4. \A x \in SoundMessages : InOrder(x, m)
    BY <1>3 DEF InOrder, Newest, SoundMessages
  <1>5. /\ \A d \in Esods : Behind(dApplied[d], m)
        /\ \A h \in Hosts : Behind(hApplied[h], m)
    BY <1>3 DEF Behind, Newest, DistributionFaithful, HostFaithful, PermPushes
  <1>6. /\ Len(inbox[s]) \in Nat /\ Len(inbox'[s]) = Len(inbox[s]) + 1
        /\ inbox'[s][Len(inbox[s]) + 1] = m
        /\ \A j \in 1..Len(inbox[s]) : inbox'[s][j] = inbox[s][j]
        /\ \A r \in Servers : r # s => inbox'[r] = inbox[r]
    BY <1>1, <1>2, <1>3, QueueLast
  <1>7. /\ \A d \in Esods : d # s => inbox'[d] = inbox[d]
        /\ \A h \in Hosts : inbox'[h] = inbox[h]
    BY <1>2, <1>6, ProcsAssumption DEF Servers
  <1>8. EsodOrder'
    <2>1. Newest(caJob.msg)'
      BY <1>1, <1>3, TornFacts DEF Newest
    <2>2. Ascending(inbox'[s])
      <3> SUFFICES ASSUME NEW i \in 1..Len(inbox'[s]), NEW j \in 1..Len(inbox'[s]), i < j
                   PROVE  InOrder(inbox'[s][i], inbox'[s][j])
        BY DEF Ascending
      <3>1. i \in 1..Len(inbox[s]) /\ inbox'[s][i] = inbox[s][i]
        BY <1>6
      <3>2. CASE j \in 1..Len(inbox[s])
        BY <1>2, <1>6, <3>1, <3>2 DEF EsodOrder, Ascending
      <3>3. CASE j = Len(inbox[s]) + 1
        BY <1>2, <1>3, <1>4, <1>6, <3>1, <3>3
      <3> QED BY <1>6, <3>2, <3>3
    <2>3. \A i \in 1..Len(inbox'[s]) : Behind(dApplied[s], inbox'[s][i])
      BY <1>2, <1>5, <1>6 DEF EsodOrder
    <2> QED BY <1>1, <1>7, <2>1, <2>2, <2>3 DEF EsodOrder, Ascending
  <1>9. ASSUME OneEsod, HostOrder PROVE HostOrder'
    <2>1. ASSUME NEW h \in Hosts, NEW d \in Esods, NEW j \in 1..Len(inbox'[d])
          PROVE  /\ Behind(hApplied[h], inbox'[d][j])
                 /\ InOrder(dJob[d], inbox'[d][j])
                 /\ \A i \in 1..Len(inbox[h]) : InOrder(inbox[h][i], inbox'[d][j])
      <3>1. d = s
        BY <1>2, <1>9 DEF OneEsod
      <3>2. CASE j \in 1..Len(inbox[s])
        BY <1>6, <1>9, <3>1, <3>2 DEF HostOrder
      <3>3. CASE j = Len(inbox[s]) + 1
        BY <1>3, <1>4, <1>5, <1>6, <3>1, <3>3 DEF Servers
      <3> QED BY <1>6, <3>1, <3>2, <3>3
    <2> QED BY <1>1, <1>7, <1>9, <2>1 DEF HostOrder, Ascending
  <1> QED BY <1>8, <1>9

-----------------------------------------------------------------------------
(***************************************************************************)
(* esod.  The change it applies is the first of its queue, so that its     *)
(* database stays behind the others, and what it has yet to forward too.   *)
(***************************************************************************)
LEMMA PushOrder ==
  ASSUME IInv, Window = 1, NEW d \in Esods, NEW i, EsodOrder,
         EsodUpdatePerm(d, i) \/ EsodDeletePerm(d, i), UNCHANGED <<caVars, esolVars>>
  PROVE  /\ EsodOrder'
         /\ \A k \in AllKeys : dApplied'[d][k] >= dApplied[d][k]
         /\ \A e \in Esods : e # d => dApplied'[e] = dApplied[e]
         /\ OneEsod /\ HostOrder => HostOrder'
  <1> DEFINE m == inbox[d][1]
  <1>1. /\ i \in Acceptable(d) /\ inbox' = Accepted(d, i) /\ d \in Servers
        /\ UNCHANGED <<caJob, issued, hApplied>>
    BY DEF EsodUpdatePerm, EsodDeletePerm, EsodAccept, caVars, esolVars, Servers
  <1>2. NetTypeOK /\ EsodTypeOK
    BY DEF IInv, NetInv, EsodInv
  <1>3. /\ i = 1 /\ 1 \in 1..Len(inbox[d]) /\ Len(inbox[d]) \in Nat
        /\ \A j \in 1..Len(inbox'[d]) : j + 1 \in 1..Len(inbox[d]) /\ inbox'[d][j] = inbox[d][j + 1]
        /\ \A r \in Servers : r # d => inbox'[r] = inbox[r]
    BY <1>1, <1>2, AcceptFirst
  <1>4. /\ dJob' = [dJob EXCEPT ![d] = m]
        /\ \/ UNCHANGED dApplied
           \/ dApplied' = [dApplied EXCEPT ![d][m.key] = m.ver]
        /\ m.type \in {"UPDATE_PERM", "DELETE_PERM"}
    BY <1>3 DEF EsodUpdatePerm, EsodDeletePerm, EsodAccept, EsodStore, Forward
  <1>5. m \in PermPushes /\ m.key \in AllKeys /\ m.ver \in Nat
    <2>1. m \in Messages
      BY <1>1, <1>2, <1>3, ElementOfSeq DEF NetTypeOK
    <2>2. m \in PermPushes
      BY <1>4, <2>1, MessageFacts
    <2> QED BY <2>2 DEF PermPushes
  <1>6. /\ Behind(dApplied[d], m)
        /\ \A j \in 1..Len(inbox'[d]) : InOrder(m, inbox'[d][j]) /\ Behind(dApplied[d], inbox'[d][j])
    BY <1>3 DEF EsodOrder, Ascending
  <1>7. Ascending(inbox'[d])
    <2> SUFFICES ASSUME NEW x \in 1..Len(inbox'[d]), NEW y \in 1..Len(inbox'[d]), x < y
                 PROVE  InOrder(inbox'[d][x], inbox'[d][y])
      BY DEF Ascending
    <2>1. x + 1 \in 1..Len(inbox[d]) /\ y + 1 \in 1..Len(inbox[d]) /\ x + 1 < y + 1
      BY <1>3
    <2> QED BY <1>3, <2>1 DEF EsodOrder, Ascending
  <1> HIDE DEF m
  <1>8. /\ \A k \in AllKeys : dApplied'[d][k] = dApplied[d][k] \/ (k = m.key /\ dApplied'[d][k] = m.ver)
        /\ \A e \in Esods : e # d => dApplied'[e] = dApplied[e]
        /\ \A k \in AllKeys : dApplied[d][k] \in Nat
    BY <1>2, <1>4, <1>5 DEF EsodTypeOK
  <1>9. \A j \in 1..Len(inbox'[d]) : Behind(dApplied'[d], inbox'[d][j])
    BY <1>5, <1>6, <1>8 DEF Behind, InOrder, PermPushes
  <1>10. EsodOrder'
    <2>1. Newest(caJob.msg)'
      BY <1>1 DEF EsodOrder, Newest
    <2>2. \A e \in Esods : e # d => inbox'[e] = inbox[e]
      BY <1>3 DEF Servers
    <2> QED BY <1>7, <1>8, <1>9, <2>1, <2>2 DEF EsodOrder, Ascending
  <1>11. \A k \in AllKeys : dApplied'[d][k] >= dApplied[d][k]
    BY <1>5, <1>6, <1>8 DEF Behind
  <1>12. ASSUME OneEsod, HostOrder PROVE HostOrder'
    <2>1. \A h \in Hosts : inbox'[h] = inbox[h] /\ hApplied'[h] = hApplied[h]
      BY <1>1, <1>3, ProcsAssumption DEF Servers
    <2>2. dJob'[d] = m /\ \A e \in Esods : e = d
      BY <1>2, <1>4, <1>12 DEF OneEsod, EsodTypeOK
    <2>3. ASSUME NEW h \in Hosts
          PROVE  /\ Behind(hApplied[h], m)
                 /\ \A x \in 1..Len(inbox[h]) : InOrder(inbox[h][x], m)
                 /\ \A j \in 1..Len(inbox'[d]) :
                       /\ Behind(hApplied[h], inbox'[d][j])
                       /\ \A x \in 1..Len(inbox[h]) : InOrder(inbox[h][x], inbox'[d][j])
      BY <1>3, <1>12 DEF HostOrder, m
    <2> QED BY <1>6, <1>12, <2>1, <2>2, <2>3 DEF HostOrder, Ascending
  <1> QED BY <1>8, <1>10, <1>11, <1>12

(***************************************************************************)
(* What it forwards comes last at the host, and before what still waits    *)
(* at esod.                                                                *)
(***************************************************************************)
LEMMA ForwardOrder ==
  ASSUME IInv, NEW d \in Esods, EsodForward(d), UNCHANGED <<caVars, esolVars>>
  PROVE  /\ EsodOrder => EsodOrder'
         /\ OneEsod /\ HostOrder => HostOrder'
  <1> DEFINE m == dJob[d]
             s == m.key.loc
  <1>1. /\ inbox' = Queued(s, m) /\ dJob' = [dJob EXCEPT ![d] = Torn] /\ m # Torn
        /\ UNCHANGED <<caJob, issued, hApplied, dApplied>>
    BY DEF EsodForward, caVars, esolVars, Idle
  <1>2. m \in PermPushes /\ m \in Messages /\ s \in Hosts /\ s \in Servers
    <2>1. m \in PermPushes
      BY <1>1 DEF IInv, EsodInv, EsodTypeOK, Idle
    <2>2. s \in Hosts \cup {NoOne} /\ s \in Servers
      BY <2>1 DEF PermPushes, AllKeys, Keys, EmptyKey, EsodForward, HasRoom
    <2> QED BY <2>1, <2>2, ProcsAssumption DEF Procs, Messages, Pushes
  <1>3. NetTypeOK /\ EsodTypeOK
    BY DEF IInv, NetInv, EsodInv
  <1> HIDE DEF m, s
  <1>4. /\ Len(inbox[s]) \in Nat /\ Len(inbox'[s]) = Len(inbox[s]) + 1
        /\ inbox'[s][Len(inbox[s]) + 1] = m
        /\ \A j \in 1..Len(inbox[s]) : inbox'[s][j] = inbox[s][j]
        /\ \A r \in Servers : r # s => inbox'[r] = inbox[r]
    BY <1>1, <1>2, <1>3, QueueLast
  <1>5. /\ \A e \in Esods : inbox'[e] = inbox[e]
        /\ \A h \in Hosts : h # s => inbox'[h] = inbox[h]
    BY <1>2, <1>4, ProcsAssumption DEF Servers
  <1>6. EsodOrder => EsodOrder'
    BY <1>1, <1>5 DEF EsodOrder, Ascending, Newest
  <1>7. ASSUME OneEsod, HostOrder PROVE HostOrder'
    <2>1. dJob'[d] = Torn /\ \A e \in Esods : e = d
      BY <1>1, <1>3, <1>7 DEF OneEsod, EsodTypeOK
    <2>2. /\ Behind(hApplied[s], m) /\ \A i \in 1..Len(inbox[s]) : InOrder(inbox[s][i], m)
          /\ \A j \in 1..Len(inbox[d]) : InOrder(m, inbox[d][j])
      BY <1>2, <1>7 DEF HostOrder, m
    <2>3. Ascending(inbox'[s]) /\ \A i \in 1..Len(inbox'[s]) : Behind(hApplied[s], inbox'[s][i])
      <3>1. ASSUME NEW i \in 1..Len(inbox'[s]), NEW j \in 1..Len(inbox'[s]), i < j
            PROVE  InOrder(inbox'[s][i], inbox'[s][j])
        <4>1. i \in 1..Len(inbox[s]) /\ inbox'[s][i] = inbox[s][i]
          BY <1>4, <3>1
        <4>2. CASE j \in 1..Len(inbox[s])
          BY <1>2, <1>4, <1>7, <3>1, <4>1, <4>2 DEF HostOrder, Ascending
        <4>3. CASE j = Len(inbox[s]) + 1
          BY <1>4, <2>2, <4>1, <4>3
        <4> QED BY <1>4, <4>2, <4>3
      <3>2. ASSUME NEW i \in 1..Len(inbox'[s]) PROVE Behind(hApplied[s], inbox'[s][i])
        <4>1. CASE i \in 1..Len(inbox[s])
          BY <1>2, <1>4, <1>7, <4>1 DEF HostOrder
        <4>2. CASE i = Len(inbox[s]) + 1
          BY <1>4, <2>2, <4>2
        <4> QED BY <1>4, <4>1, <4>2
      <3> QED BY <3>1, <3>2 DEF Ascending
    <2>4. ASSUME NEW h \in Hosts
          PROVE  /\ Ascending(inbox'[h])
                 /\ \A i \in 1..Len(inbox'[h]) : Behind(hApplied[h], inbox'[h][i])
      <3>1. CASE h = s
        BY <2>3, <3>1
      <3>2. CASE h # s
        BY <1>5, <1>7, <3>2 DEF HostOrder
      <3> QED BY <3>1, <3>2
    <2>5. ASSUME NEW h \in Hosts, NEW j \in 1..Len(inbox[d])
          PROVE  \A i \in 1..Len(inbox'[h]) : InOrder(inbox'[h][i], inbox[d][j])
      <3>1. \A i \in 1..Len(inbox[h]) : InOrder(inbox[h][i], inbox[d][j])
        BY <1>7 DEF HostOrder
      <3>2. CASE h # s
        BY <1>5, <3>1, <3>2
      <3>3. ASSUME h = s, NEW i \in 1..Len(inbox'[s]) PROVE InOrder(inbox'[s][i], inbox[d][j])
        <4>1. CASE i \in 1..Len(inbox[s])
          BY <1>4, <3>1, <3>3, <4>1
        <4>2. CASE i = Len(inbox[s]) + 1
          BY <1>4, <2>2, <4>2
        <4> QED BY <1>4, <4>1, <4>2
      <3> QED BY <3>2, <3>3
    <2>6. \A h \in Hosts, j \in 1..Len(inbox[d]) : Behind(hApplied[h], inbox[d][j])
      BY <1>7 DEF HostOrder
    <2> QED BY <1>1, <1>5, <2>1, <2>4, <2>5, <2>6, TornFacts
            DEF HostOrder, Ascending, Behind, InOrder
  <1> QED BY <1>6, <1>7

(***************************************************************************)
(* esol applies the first change of its queue as well.                     *)
(***************************************************************************)
LEMMA EsolPushOrder ==
  ASSUME IInv, Window = 1, NEW h \in Hosts, NEW i,
         EsolUpdatePerm(h, i) \/ EsolDeletePerm(h, i), UNCHANGED <<caVars, esodVars>>
  PROVE  /\ EsodOrder => EsodOrder'
         /\ HostOrder => HostOrder' /\ \A k \in AllKeys : hApplied'[h][k] >= hApplied[h][k]
         /\ \A g \in Hosts : g # h => hApplied'[g] = hApplied[g]
  <1> DEFINE m == inbox[h][1]
  <1>1. /\ i \in Acceptable(h) /\ inbox' = Accepted(h, i) /\ h \in Servers
        /\ UNCHANGED <<caJob, issued, dApplied, dJob>>
    BY DEF EsolUpdatePerm, EsolDeletePerm, EsolAccept, caVars, esodVars, Servers
  <1>2. NetTypeOK /\ EsolTypeOK
    BY DEF IInv, NetInv, EsolInv
  <1>3. /\ i = 1 /\ 1 \in 1..Len(inbox[h]) /\ Len(inbox[h]) \in Nat
        /\ \A j \in 1..Len(inbox'[h]) : j + 1 \in 1..Len(inbox[h]) /\ inbox'[h][j] = inbox[h][j + 1]
        /\ \A r \in Servers : r # h => inbox'[r] = inbox[r]
    BY <1>1, <1>2, AcceptFirst
  <1>4. /\ \/ UNCHANGED hApplied
           \/ hApplied' = [hApplied EXCEPT ![h][m.key] = m.ver]
        /\ m.type \in {"UPDATE_PERM", "DELETE_PERM"}
    BY <1>3 DEF EsolUpdatePerm, EsolDeletePerm, EsolAccept, EsolStore
  <1>5. m \in PermPushes /\ m.key \in AllKeys /\ m.ver \in Nat
    <2>1. m \in Messages
      BY <1>1, <1>2, <1>3, ElementOfSeq DEF NetTypeOK
    <2>2. m \in PermPushes
      BY <1>4, <2>1, MessageFacts
    <2> QED BY <2>2 DEF PermPushes
  <1>6. /\ \A k \in AllKeys : hApplied'[h][k] = hApplied[h][k] \/ (k = m.key /\ hApplied'[h][k] = m.ver)
        /\ \A g \in Hosts : g # h => hApplied'[g] = hApplied[g]
        /\ \A k \in AllKeys : hApplied[h][k] \in Nat
    BY <1>2, <1>4, <1>5 DEF EsolTypeOK
  <1>7. /\ \A d \in Esods : inbox'[d] = inbox[d]
        /\ \A g \in Hosts : g # h => inbox'[g] = inbox[g]
    BY <1>3, ProcsAssumption DEF Servers
  <1>8. EsodOrder => EsodOrder'
    BY <1>1, <1>7 DEF EsodOrder, Ascending, Newest
  <1>9. ASSUME HostOrder
        PROVE  HostOrder' /\ \A k \in AllKeys : hApplied'[h][k] >= hApplied[h][k]
    <2>1. /\ Behind(hApplied[h], m)
          /\ \A j \in 1..Len(inbox'[h]) : InOrder(m, inbox'[h][j]) /\ Behind(hApplied[h], inbox'[h][j])
      BY <1>3, <1>9 DEF HostOrder, Ascending
    <2>2. \A d \in Esods : /\ Behind(hApplied[h], dJob[d]) /\ InOrder(m, dJob[d])
                           /\ \A j \in 1..Len(inbox[d]) : Behind(hApplied[h], inbox[d][j])
                                                         /\ InOrder(m, inbox[d][j])
      BY <1>3, <1>9 DEF HostOrder
    <2>3. Ascending(inbox'[h])
      <3> SUFFICES ASSUME NEW x \in 1..Len(inbox'[h]), NEW y \in 1..Len(inbox'[h]), x < y
                   PROVE  InOrder(inbox'[h][x], inbox'[h][y])
        BY DEF Ascending
      <3>1. x + 1 \in 1..Len(inbox[h]) /\ y + 1 \in 1..Len(inbox[h]) /\ x + 1 < y + 1
        BY <1>3
      <3> QED BY <1>3, <1>9, <3>1 DEF HostOrder, Ascending
    <2> HIDE DEF m
    <2>4. \A x : Behind(hApplied[h], x) /\ InOrder(m, x) => Behind(hApplied'[h], x)
      BY <1>5, <1>6 DEF Behind, InOrder, PermPushes
    <2>5. \A k \in AllKeys : hApplied'[h][k] >= hApplied[h][k]
      BY <1>5, <1>6, <2>1 DEF Behind
    <2>6. ASSUME NEW g \in Hosts
          PROVE  /\ Ascending(inbox'[g])
                 /\ \A j \in 1..Len(inbox'[g]) : Behind(hApplied'[g], inbox'[g][j])
      <3>1. CASE g = h
        BY <2>1, <2>3, <2>4, <3>1
      <3>2. CASE g # h
        BY <1>6, <1>7, <1>9, <3>2 DEF HostOrder
      <3> QED BY <3>1, <3>2
    <2>7. ASSUME NEW g \in Hosts, NEW d \in Esods
          PROVE  /\ Behind(hApplied'[g], dJob[d])
                 /\ \A j \in 1..Len(inbox[d]) : Behind(hApplied'[g], inbox[d][j])
      <3>1. CASE g = h
        BY <2>2, <2>4, <3>1
      <3>2. CASE g # h
        BY <1>6, <1>9, <3>2 DEF HostOrder
      <3> QED BY <3>1, <3>2
    <2>8. ASSUME NEW g \in Hosts, NEW d \in Esods, NEW x \in 1..Len(inbox'[g])
          PROVE  /\ InOrder(inbox'[g][x], dJob[d])
                 /\ \A j \in 1..Len(inbox[d]) : InOrder(inbox'[g][x], inbox[d][j])
      <3>1. CASE g = h
        BY <1>3, <1>9, <3>1 DEF HostOrder
      <3>2. CASE g # h
        BY <1>7, <1>9, <3>2 DEF HostOrder
      <3> QED BY <3>1, <3>2
    <2>9. \A d \in Esods : \A j \in 1..Len(inbox[d]) : InOrder(dJob[d], inbox[d][j])
      BY <1>9 DEF HostOrder
    <2> QED BY <1>1, <1>7, <2>5, <2>6, <2>7, <2>8, <2>9 DEF HostOrder, Ascending
  <1> QED BY <1>6, <1>8, <1>9

-----------------------------------------------------------------------------
(***************************************************************************)
(* The other steps deliver nothing.  A queue that does not change is a     *)
(* subline of itself.                                                      *)
(***************************************************************************)
LEMMA SameQueues ==
  ASSUME NetTypeOK, inbox' = inbox
  PROVE  \A s \in Servers : Subline(inbox'[s], inbox[s])
  <1> SUFFICES ASSUME NEW s \in Servers PROVE Subline(inbox[s], inbox[s])
    OBVIOUS
  <1>1. Len(inbox[s]) \in Nat
    BY LenProperties DEF NetTypeOK
  <1>2. \A i \in 1..Len(inbox[s]) : i + 0 = i
    BY <1>1
  <1> QED BY <1>1, <1>2 DEF Subline

\* esoca's end, and every other end of a process.
LEMMA EndsUndelivered ==
  ASSUME IInv, NEW cut
  PROVE  /\ CaEnds(cut) /\ UNCHANGED <<esodVars, esolVars>> => Undelivered
         /\ \A d \in Esods : EsodDown(d, cut) /\ UNCHANGED <<caVars, esolVars>> => Undelivered
         /\ \A h \in Hosts : EsolDown(h, cut) /\ UNCHANGED <<caVars, esodVars>> => Undelivered
  <1>1. NetTypeOK /\ EsodTypeOK /\ Ca \in Procs /\ Esods \subseteq Procs /\ Hosts \subseteq Procs
    BY DEF IInv, NetInv, EsodInv, Procs, Servers
  <1>2. ASSUME NEW p \in Procs, Down(p, cut)
        PROVE  \A s \in Servers : Subline(inbox'[s], inbox[s])
    BY <1>1, <1>2, DownSubline
  <1>3. CaEnds(cut) /\ UNCHANGED <<esodVars, esolVars>> => Undelivered
    BY <1>1, <1>2 DEF CaEnds, NoJob, Undelivered, esodVars, esolVars
  <1>4. ASSUME NEW d \in Esods, EsodDown(d, cut), UNCHANGED <<caVars, esolVars>>
        PROVE  Undelivered
    BY <1>1, <1>2, <1>4 DEF EsodDown, EsodTypeOK, Idle, Undelivered, caVars, esolVars
  <1>5. ASSUME NEW h \in Hosts, EsolDown(h, cut), UNCHANGED <<caVars, esodVars>>
        PROVE  Undelivered
    BY <1>1, <1>2, <1>5 DEF EsolDown, tables, Undelivered, caVars, esodVars
  <1> QED BY <1>3, <1>4, <1>5

\* The messages that an esod accepts and that carry no permission.
LEMMA EsodUndelivered ==
  ASSUME IInv, Window = 1, NEW d \in Esods, NEW i, UNCHANGED <<caVars, esolVars>>,
         EsodNewCred(d, i) \/ EsodGetPerm(d, i) \/ EsodGetCred(d, i) \/ EsodSpin(d, i)
  PROVE  Undelivered
  <1>1. i \in Acceptable(d) /\ inbox' = Accepted(d, i) /\ d \in Servers /\ UNCHANGED <<dJob, dApplied>>
    BY DEF EsodNewCred, EsodGetPerm, EsodGetCred, EsodSpin, EsodAccept, Spin, esodVars, Servers
  <1>2. NetTypeOK
    BY DEF IInv, NetInv
  <1>3. \A s \in Servers : Subline(inbox'[s], inbox[s])
    BY <1>1, <1>2, AcceptFirst
  <1> QED BY <1>1, <1>3 DEF Undelivered, caVars, esolVars

\* What an esol does, except to apply a change.
LEMMA EsolUndelivered ==
  ASSUME IInv, Window = 1, NEW h \in Hosts, UNCHANGED <<caVars, esodVars>>,
         (\E i : EsolSpin(h, i)) \/ EsolUds(h) \/ EsolExit(h)
  PROVE  Undelivered
  <1>1. NetTypeOK /\ EsolInv
    BY DEF IInv, NetInv
  <1>2. CASE \E i : EsolSpin(h, i)
    <2>1. \E i \in Acceptable(h) : inbox' = Accepted(h, i)
      BY <1>2 DEF EsolSpin, Spin
    <2>2. h \in Servers /\ UNCHANGED hApplied
      BY <1>2 DEF EsolSpin, esolVars, Servers
    <2> QED BY <1>1, <2>1, <2>2, AcceptFirst DEF Undelivered, caVars, esodVars
  <1>3. CASE AskPerm(h) \/ AskCred(h)
    <2>1. PICK q \in Queries : Ask(h, q)
      <3>1. client[h].key \in AllKeys /\ client[h].cred \in CredIds
        BY <1>1, <1>3, AtFacts DEF AskPerm, AskCred, At
      <3>2. /\ [type |-> "GET_PERM", key |-> client[h].key, from |-> h] \in Queries
            /\ [type |-> "GET_CRED", cred |-> client[h].cred, from |-> h] \in Queries
        BY <3>1 DEF Queries
      <3> QED BY <1>3, <3>2 DEF AskPerm, AskCred
    <2> DEFINE d == Head(client[h].todo)
    <2>2. d \in Servers /\ inbox' = Queued(d, q) /\ UNCHANGED hApplied
      BY <2>1 DEF Ask, HasRoom, tables
    <2>3. q \in Messages /\ q \notin PermPushes
      BY <2>1, TornFacts DEF Messages
    <2> HIDE DEF d
    <2>4. \A s \in Servers : Subline(inbox'[s], inbox[s])
      BY <1>1, <2>2, <2>3, QueueLast
    <2> QED BY <2>2, <2>4 DEF Undelivered, caVars, esodVars
  <1>4. CASE \/ LookupPerm(h) \/ GotPerm(h) \/ LookupCred(h) \/ GotCred(h) \/ GotInvalid(h)
             \/ Encrypt(h) \/ Decrypt(h) \/ Hmac(h) \/ Sign(h) \/ Verify(h) \/ PullSpins(h)
    <2>1. inbox' = inbox /\ UNCHANGED hApplied
      BY <1>4 DEF LookupPerm, GotPerm, LookupCred, GotCred, GotInvalid, Encrypt, Decrypt, Hmac,
                  Sign, Verify, Serving, PullSpins, net, tables
    <2> QED BY <1>1, <2>1, SameQueues DEF Undelivered, caVars, esodVars
  <1>5. CASE EsolExit(h)
    BY <1>5, EndsUndelivered DEF EsolExit
  <1> QED BY <1>2, <1>3, <1>4, <1>5 DEF EsolUds

\* Admins, programs, kills and restarts.
LEMMA OthersUndelivered ==
  ASSUME IInv, \/ Web \/ UNCHANGED vars
               \/ \E h \in Hosts : Program(h)
               \/ \E p \in Procs : Kill(p) \/ Restart(p)
  PROVE  Undelivered
  <1>1. CASE \E p \in Procs : Kill(p)
    <2>1. PICK p \in Procs : \E cut :
              \/ p = Ca /\ CaEnds(cut) /\ UNCHANGED <<esodVars, esolVars>>
              \/ p \in Esods /\ EsodDown(p, cut) /\ UNCHANGED <<caVars, esolVars>>
              \/ p \in Hosts /\ EsolDown(p, cut) /\ UNCHANGED <<caVars, esodVars>>
      BY <1>1 DEF Kill, CaDown
    <2> QED BY <2>1, EndsUndelivered
  <1>2. CASE Web \/ UNCHANGED vars \/ (\E h \in Hosts : Program(h)) \/ (\E p \in Procs : Restart(p))
    <2>1. UNCHANGED <<inbox, dApplied, hApplied, issued, caJob, dJob>>
      <3>1. CASE Web
        BY <3>1 DEF Web, WebNext, CreatePerm, CreateCred, UpdatePerm, RemovePerm, Reload, Request,
                    net, caVars, esodVars, esolVars
      <3>2. CASE UNCHANGED vars
        BY <3>2 DEF vars, net, caVars, esodVars, esolVars
      <3>3. CASE \E h \in Hosts : Program(h)
        BY <3>3 DEF Program, ClientRequest, net, caVars, esodVars, tables
      <3>4. CASE \E p \in Procs : Restart(p)
        BY <3>4 DEF Restart, caVars, esodVars, esolVars
      <3> QED BY <1>2, <3>1, <3>2, <3>3, <3>4
    <2> QED BY <2>1, SameQueues DEF Undelivered, IInv, NetInv
  <1> QED BY <1>1, <1>2

-----------------------------------------------------------------------------
\* No database has moved back in this step.
EsodAdvances == \A d \in Esods, k \in AllKeys : dApplied'[d][k] >= dApplied[d][k]
HostAdvances == \A h \in Hosts, k \in AllKeys : hApplied'[h][k] >= hApplied[h][k]

\* A database that is not written does not move.
LEMMA Unmoved ==
  ASSUME IInv
  PROVE  /\ UNCHANGED dApplied => EsodAdvances
         /\ UNCHANGED hApplied => HostAdvances
  BY DEF IInv, EsodInv, EsodTypeOK, EsolInv, EsolTypeOK, EsodAdvances, HostAdvances

\* Steps that deliver nothing keep both orders and move no database.
LEMMA UndeliveredStep ==
  ASSUME IInv, EsodOrder, Undelivered
  PROVE  /\ EsodOrder' /\ EsodAdvances
         /\ OneEsod /\ HostOrder => HostOrder' /\ HostAdvances
  BY UndeliveredEsod, UndeliveredHost, Unmoved DEF Undelivered

\* Every step keeps the order and takes the databases forward.
LEMMA OrderStep ==
  ASSUME Window = 1, IInv, EsodOrder, [Next]_vars
  PROVE  /\ EsodOrder' /\ EsodAdvances
         /\ OneEsod /\ HostOrder => HostOrder' /\ HostAdvances
  <1>1. CASE EsocaStep
    <2>1. UNCHANGED <<esodVars, esolVars>> /\ UNCHANGED <<dApplied, hApplied>>
      BY <1>1 DEF EsocaStep, esodVars, esolVars
    <2>2. CASE CaHandle
      BY <2>1, <2>2, HandleOrder, Unmoved
    <2>3. CASE CaSend
      BY <2>1, <2>3, SendOrder, Unmoved
    <2>4. CASE CaExit \/ CaDies
      BY <2>1, <2>4, EndsUndelivered, UndeliveredStep DEF CaExit, CaDown, CaDies
    <2> QED BY <1>1, <2>2, <2>3, <2>4 DEF EsocaStep, CaNext
  <1>2. ASSUME NEW d \in Esods, EsodStep(d)
        PROVE  /\ EsodOrder' /\ EsodAdvances
               /\ OneEsod /\ HostOrder => HostOrder' /\ HostAdvances
    <2>1. UNCHANGED <<caVars, esolVars>> /\ UNCHANGED hApplied
      BY <1>2 DEF EsodStep, esolVars
    <2>2. ASSUME NEW i, EsodUpdatePerm(d, i) \/ EsodDeletePerm(d, i)
          PROVE  /\ EsodOrder' /\ EsodAdvances
                 /\ OneEsod /\ HostOrder => HostOrder' /\ HostAdvances
      <3>1. /\ EsodOrder' /\ \A k \in AllKeys : dApplied'[d][k] >= dApplied[d][k]
            /\ \A e \in Esods : e # d => dApplied'[e] = dApplied[e]
            /\ OneEsod /\ HostOrder => HostOrder'
        BY <2>1, <2>2, PushOrder
      <3>2. EsodAdvances
        BY <3>1 DEF EsodAdvances, IInv, EsodInv, EsodTypeOK
      <3> QED BY <2>1, <3>1, <3>2, Unmoved
    <2>3. CASE EsodForward(d)
      <3>1. UNCHANGED dApplied
        BY <2>3 DEF EsodForward
      <3> QED BY <2>1, <2>3, <3>1, ForwardOrder, Unmoved
    <2>4. CASE EsodExit(d)
      BY <2>1, <2>4, EndsUndelivered, UndeliveredStep DEF EsodExit
    <2>5. ASSUME NEW i, \/ EsodNewCred(d, i) \/ EsodGetPerm(d, i)
                        \/ EsodGetCred(d, i) \/ EsodSpin(d, i)
          PROVE  Undelivered
      BY <2>1, <2>5, EsodUndelivered
    <2> QED BY <1>2, <2>2, <2>3, <2>4, <2>5, UndeliveredStep DEF EsodStep, EsodNext, EsodHandle
  <1>3. ASSUME NEW h \in Hosts, EsolStep(h)
        PROVE  /\ EsodOrder' /\ EsodAdvances
               /\ OneEsod /\ HostOrder => HostOrder' /\ HostAdvances
    <2>1. UNCHANGED <<caVars, esodVars>> /\ UNCHANGED dApplied
      BY <1>3 DEF EsolStep, esodVars
    <2>2. ASSUME NEW i, EsolUpdatePerm(h, i) \/ EsolDeletePerm(h, i)
          PROVE  /\ EsodOrder' /\ EsodAdvances
                 /\ OneEsod /\ HostOrder => HostOrder' /\ HostAdvances
      <3>1. /\ EsodOrder'
            /\ HostOrder => HostOrder' /\ \A k \in AllKeys : hApplied'[h][k] >= hApplied[h][k]
            /\ \A g \in Hosts : g # h => hApplied'[g] = hApplied[g]
        BY <2>1, <2>2, EsolPushOrder
      <3>2. HostOrder => HostAdvances
        BY <3>1 DEF HostAdvances, IInv, EsolInv, EsolTypeOK
      <3> QED BY <2>1, <3>1, <3>2, Unmoved
    <2>3. CASE (\E i : EsolSpin(h, i)) \/ EsolUds(h) \/ EsolExit(h)
      BY <2>1, <2>3, EsolUndelivered, UndeliveredStep
    <2> QED BY <1>3, <2>2, <2>3 DEF EsolStep, EsolNext, EsolTcp
  <1>4. CASE \/ Web \/ UNCHANGED vars
             \/ \E h \in Hosts : Program(h)
             \/ \E p \in Procs : Kill(p) \/ Restart(p)
    BY <1>4, OthersUndelivered, UndeliveredStep
  <1> QED BY <1>1, <1>2, <1>3, <1>4 DEF Next

\* At first nothing is on its way.
LEMMA InitOrder == Init => EsodOrder /\ HostOrder
  <1> SUFFICES ASSUME Init PROVE EsodOrder /\ HostOrder
    OBVIOUS
  <1>1. \A s \in Servers : 1..Len(inbox[s]) = {}
    BY EmptySeq DEF Init, NetInit
  <1>2. caJob.msg \notin PermPushes /\ \A d \in Esods : dJob[d] \notin PermPushes
    BY TornFacts DEF Init, CaInit, NoJob, EsodInit, Idle
  <1> QED BY <1>1, <1>2
          DEF EsodOrder, HostOrder, Ascending, Newest, Behind, InOrder, Servers

(***************************************************************************)
(* With connections accepted in the order they were made, a permission     *)
(* that was changed or revoked does not come back in the database of any   *)
(* esod, with any number of esods and admins, whatever is killed and       *)
(* whichever statements fail.                                              *)
(***************************************************************************)
THEOREM DistributionNeverRegresses ==
  ASSUME Window = 1
  PROVE  Spec => [][EsodAdvances]_vars
  <1>1. IInv /\ EsodOrder /\ [Next]_vars => EsodOrder' /\ EsodAdvances
    BY OrderStep
  <1>2. Init => EsodOrder
    BY InitOrder
  <1> QED BY <1>1, <1>2, Invariance, PTL DEF Spec

(***************************************************************************)
(* With one esod it does not come back at the hosts either: what esod      *)
(* accepts in order it forwards in order.  Two esods forward the changes   *)
(* of one key in either order.                                             *)
(***************************************************************************)
THEOREM CachesNeverRegress ==
  ASSUME Window = 1, OneEsod
  PROVE  Spec => NeverRegresses
  <1>1. /\ IInv /\ EsodOrder /\ HostOrder /\ [Next]_vars => EsodOrder' /\ HostOrder'
        /\ IInv /\ EsodOrder /\ HostOrder /\ [Next]_vars => EsodAdvances /\ HostAdvances
    BY OrderStep
  <1> DEFINE A == /\ \A d \in Esods, k \in AllKeys : dApplied'[d][k] >= dApplied[d][k]
                  /\ \A h \in Hosts, k \in AllKeys : hApplied'[h][k] >= hApplied[h][k]
  <1>2. IInv /\ EsodOrder /\ HostOrder /\ [Next]_vars => A
    BY <1>1 DEF EsodAdvances, HostAdvances
  <1>3. Init => EsodOrder /\ HostOrder
    BY InitOrder
  <1> HIDE DEF A
  <1>4. Spec => [][A]_vars
    BY <1>1, <1>2, <1>3, Invariance, PTL DEF Spec
  <1> QED BY <1>4 DEF A, NeverRegresses
=============================================================================
