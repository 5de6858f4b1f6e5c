-------------------------- MODULE EsoServing_proofs --------------------------
(***************************************************************************)
(* Eso without faults.  While no process is killed, no database fails, RSA *)
(* takes the data of programs, and one admin works on a right page, no     *)
(* process ends, what the page lists is what esoca will have once it has   *)
(* handled its requests, and no INSERT is refused.  If connections are     *)
(* accepted in the order they were made, all caches come to agree with     *)
(* esoca.                                                                  *)
(***************************************************************************)
EXTENDS EsoCreds_proofs

\* Nobody is ever killed, or not within the bound.
NobodyKilled == Killable = {} \/ MaxKills = 0

\* No daemon dies of its own: not of a SELECT, not of a program's data.
NothingFails == Failing = {} /\ DataFits

-----------------------------------------------------------------------------
(***************************************************************************)
(* The page and the requests.  Each request that waits for esoca has an    *)
(* effect on what esoca has before it, and the last one leaves what the    *)
(* page lists.                                                             *)
(***************************************************************************)
Effect(r, before, after) ==
    \/ r.type = "NEW_PERM" /\ r.key \notin before /\ after = before \cup {r.key}
    \/ r.type = "UPDATE_PERM" /\ r.key \in before /\ after = before
    \/ r.type = "DELETE_PERM" /\ r.key \in before /\ after = before \ {r.key}
    \/ r.type = "NEW_CRED" /\ r.cred \notin before /\ after = before \cup {r.cred}

Leads(views) ==
    /\ views[0] = viewSet
    /\ \A a \in Admins : views[Len(requests)] = page[a]
    /\ \A i \in 1..Len(requests) : Effect(requests[i], views[i - 1], views[i])

PageLeads == \E views \in [0..Len(requests) -> SUBSET (Keys \cup CredIds)] : Leads(views)

\* The first request has an effect on what esoca has now.
LEMMA FirstEffect ==
  ASSUME CaTypeOK, PageLeads, requests # <<>>
  PROVE  \E after : Effect(Head(requests), viewSet, after)
  <1>1. PICK views : Leads(views)
    BY DEF PageLeads
  <1>2. 1 \in 1..Len(requests) /\ requests[1] = Head(requests)
    BY EmptySeq, LenProperties DEF CaTypeOK
  <1>3. Effect(requests[1], views[1 - 1], views[1]) /\ views[0] = viewSet /\ 1 - 1 = 0
    BY <1>1, <1>2 DEF Leads
  <1> QED BY <1>2, <1>3

\* Nothing waits: the page lists what esoca has.
LEMMA NothingWaits ==
  ASSUME PageLeads, requests = <<>>, NEW a \in Admins
  PROVE  page[a] = viewSet
  BY EmptySeq DEF PageLeads, Leads

\* An admin makes a request that fits the page.
LEMMA PageGrows ==
  ASSUME CaTypeOK, \A a, b \in Admins : a = b, PageLeads, viewSet' = viewSet, NEW a \in Admins,
         NEW r, requests' = Append(requests, r), Effect(r, page[a], page'[a]),
         page'[a] \in SUBSET (Keys \cup CredIds)
  PROVE  PageLeads'
  <1>1. PICK views \in [0..Len(requests) -> SUBSET (Keys \cup CredIds)] : Leads(views)
    BY DEF PageLeads
  <1>2. /\ Len(requests) \in Nat /\ Len(requests') = Len(requests) + 1
        /\ requests'[Len(requests) + 1] = r
        /\ \A i \in 1..Len(requests) : requests'[i] = requests[i]
    BY RequestAdded
  <1> DEFINE n == Len(requests)
             new == [i \in 0..(n + 1) |-> IF i <= n THEN views[i] ELSE page'[a]]
  <1>3. new \in [0..(n + 1) -> SUBSET (Keys \cup CredIds)]
    BY <1>1, <1>2
  <1>4. /\ new[n + 1] = page'[a] /\ n + 1 \in 0..(n + 1)
        /\ \A i \in 0..n : new[i] = views[i]
    BY <1>2
  <1> HIDE DEF n, new
  <1>5. n \in Nat /\ views[0] = viewSet /\ views[n] = page[a]
    BY <1>1, <1>2 DEF Leads, n
  <1>6. ASSUME NEW i \in 1..(n + 1)
        PROVE  Effect(requests'[i], new[i - 1], new[i])
    <2>1. CASE i = n + 1
      <3>1. i - 1 = n /\ n \in 0..n
        BY <1>5, <2>1
      <3> QED BY <1>2, <1>4, <1>5, <2>1, <3>1 DEF n
    <2>2. CASE i # n + 1
      <3>1. i \in 1..n /\ i \in 0..n /\ i - 1 \in 0..n
        BY <1>5, <2>2
      <3>2. Effect(requests[i], views[i - 1], views[i]) /\ requests'[i] = requests[i]
        BY <1>1, <1>2, <3>1 DEF Leads, n
      <3> QED BY <1>4, <3>1, <3>2
    <2> QED BY <2>1, <2>2
  <1>7. Len(requests') = n + 1 /\ new[0] = viewSet'
    BY <1>2, <1>4, <1>5 DEF n
  <1>8. new \in [0..Len(requests') -> SUBSET (Keys \cup CredIds)]
    BY <1>3, <1>7
  <1>9. /\ new[0] = viewSet'
        /\ \A b \in Admins : new[Len(requests')] = page'[b]
        /\ \A i \in 1..Len(requests') : Effect(requests'[i], new[i - 1], new[i])
    BY <1>4, <1>6, <1>7
  <1> QED BY <1>8, <1>9 DEF PageLeads, Leads, Effect

\* esoca does what the first request asks for.
LEMMA PageShrinks ==
  ASSUME CaTypeOK, PageLeads, requests # <<>>, requests' = Tail(requests), UNCHANGED page,
         \A after : Effect(Head(requests), viewSet, after) => viewSet' = after
  PROVE  PageLeads'
  <1>1. PICK views \in [0..Len(requests) -> SUBSET (Keys \cup CredIds)] : Leads(views)
    BY DEF PageLeads
  <1>2. /\ Len(requests) \in Nat /\ 1 \in 1..Len(requests) /\ Len(requests') = Len(requests) - 1
        /\ requests[1] = Head(requests)
        /\ \A i \in 1..Len(requests') :
              i + 1 \in 1..Len(requests) /\ requests'[i] = requests[i + 1]
    BY RequestTaken
  <1> DEFINE n == Len(requests')
             new == [i \in 0..n |-> views[i + 1]]
  <1>3. n \in Nat /\ n + 1 = Len(requests)
    BY <1>2
  <1>4. new \in [0..n -> SUBSET (Keys \cup CredIds)] /\ \A i \in 0..n : new[i] = views[i + 1]
    BY <1>1, <1>3
  <1> HIDE DEF new
  <1>5. new[0] = viewSet'
    <2>1. Effect(requests[1], views[1 - 1], views[1]) /\ views[0] = viewSet /\ 1 - 1 = 0
      BY <1>1, <1>2 DEF Leads
    <2>2. viewSet' = views[1]
      BY <1>2, <2>1
    <2>3. new[0] = views[0 + 1] /\ 0 + 1 = 1
      BY <1>3, <1>4
    <2> QED BY <2>2, <2>3
  <1>6. \A a \in Admins : new[n] = page'[a]
    BY <1>1, <1>3, <1>4 DEF Leads
  <1>7. ASSUME NEW i \in 1..n
        PROVE  Effect(requests'[i], new[i - 1], new[i])
    <2>1. i + 1 \in 1..Len(requests) /\ requests'[i] = requests[i + 1]
      BY <1>2
    <2>2. Effect(requests[i + 1], views[i + 1 - 1], views[i + 1])
      BY <1>1, <2>1 DEF Leads
    <2>3. i \in 0..n /\ i - 1 \in 0..n /\ (i - 1) + 1 = i + 1 - 1
      BY <1>3
    <2>4. new[i] = views[i + 1] /\ new[i - 1] = views[i + 1 - 1]
      BY <1>4, <2>3
    <2> QED BY <2>1, <2>2, <2>4
  <1> QED BY <1>4, <1>5, <1>6, <1>7 DEF PageLeads, Leads, Effect

(***************************************************************************)
(* What an admin does on a right page fits what the page lists.            *)
(***************************************************************************)
LEMMA PageWebLeads ==
  ASSUME PageIsRight, IInv, PageLeads, Web
  PROVE  PageLeads'
  <1>1. /\ UNCHANGED <<caPerms, caCreds>> /\ CaTypeOK /\ \A a, b \in Admins : a = b
        /\ page \in [Admins -> SUBSET (Keys \cup CredIds)] /\ ChecksPage /\ ~Reloads
    BY DEF Web, WebNext, CreatePerm, CreateCred, UpdatePerm, RemovePerm, Reload, Request, caVars,
           IInv, CaInv, EnvInv, WebTypeOK, PageIsRight
  <1>2. viewSet' = viewSet
    BY <1>1 DEF viewSet, viewPerms, viewCreds
  <1>3. ASSUME NEW a \in Admins, NEW k \in Keys, NEW m, CreatePerm(a, k, m)
        PROVE  PageLeads'
    <2> DEFINE r == [type |-> "NEW_PERM", key |-> k, op |-> m]
    <2>1. /\ requests' = Append(requests, r) /\ k \notin page[a]
          /\ page'[a] = page[a] \cup {k} /\ page'[a] \in SUBSET (Keys \cup CredIds)
      BY <1>1, <1>3 DEF CreatePerm, Request
    <2>2. Effect(r, page[a], page'[a])
      BY <2>1 DEF Effect
    <2> HIDE DEF r
    <2> QED BY <1>1, <1>2, <2>1, <2>2, PageGrows
  <1>4. ASSUME NEW a \in Admins, NEW k \in Keys, NEW m, UpdatePerm(a, k, m)
        PROVE  PageLeads'
    <2> DEFINE r == [type |-> "UPDATE_PERM", key |-> k, op |-> m]
    <2>1. /\ requests' = Append(requests, r) /\ k \in page[a]
          /\ page'[a] = page[a] /\ page'[a] \in SUBSET (Keys \cup CredIds)
      BY <1>1, <1>4 DEF UpdatePerm, Request
    <2>2. Effect(r, page[a], page'[a])
      BY <2>1 DEF Effect
    <2> HIDE DEF r
    <2> QED BY <1>1, <1>2, <2>1, <2>2, PageGrows
  <1>5. ASSUME NEW a \in Admins, NEW k \in Keys, RemovePerm(a, k)
        PROVE  PageLeads'
    <2> DEFINE r == [type |-> "DELETE_PERM", key |-> k, op |-> {}]
    <2>1. /\ requests' = Append(requests, r) /\ k \in page[a]
          /\ page'[a] = page[a] \ {k} /\ page'[a] \in SUBSET (Keys \cup CredIds)
      BY <1>1, <1>5 DEF RemovePerm, Request
    <2>2. Effect(r, page[a], page'[a])
      BY <2>1 DEF Effect
    <2> HIDE DEF r
    <2> QED BY <1>1, <1>2, <2>1, <2>2, PageGrows
  <1>6. ASSUME NEW a \in Admins, NEW c \in CredIds, CreateCred(a, c)
        PROVE  PageLeads'
    <2> DEFINE r == [type |-> "NEW_CRED", cred |-> c]
    <2>1. /\ requests' = Append(requests, r) /\ c \notin page[a]
          /\ page'[a] = page[a] \cup {c} /\ page'[a] \in SUBSET (Keys \cup CredIds)
      BY <1>1, <1>6 DEF CreateCred, Request
    <2>2. Effect(r, page[a], page'[a])
      BY <2>1 DEF Effect
    <2> HIDE DEF r
    <2> QED BY <1>1, <1>2, <2>1, <2>2, PageGrows
  <1>7. \A a \in Admins : ~Reload(a)
    BY <1>1 DEF Reload
  <1> QED BY <1>3, <1>4, <1>5, <1>6, <1>7 DEF Web, WebNext

(***************************************************************************)
(* esoca's statements have the effect that was asked for, as it does not   *)
(* fail and the row of a new permission is not there.                      *)
(***************************************************************************)
LEMMA HandleEffect ==
  ASSUME PageIsRight, IInv, CaHandle, NEW after, Effect(Head(requests), viewSet, after)
  PROVE  /\ viewSet' = after
         /\ requests # <<>> /\ requests' = Tail(requests)
         /\ Head(requests).type = "UPDATE_PERM" => Head(requests).key \in viewPerms
  <1>1. PICK r \in Requests :
            CaNewPerm(r) \/ CaUpdatePerm(r) \/ CaDeletePerm(r) \/ CaNewCred(r)
    BY DEF CaHandle
  <1>2. /\ requests # <<>> /\ requests' = Tail(requests) /\ r = Head(requests)
        /\ caPerms \in [AllKeys -> Rows] /\ caCreds \in [CredIds -> Nat] /\ freshKey # NoKey
        /\ Ca \notin Failing /\ Effect(r, viewSet, after)
    BY <1>1 DEF CaNewPerm, CaUpdatePerm, CaDeletePerm, CaNewCred, Accept, IInv, CaInv, CaTypeOK,
       PageIsRight
  <1>3. /\ Keys \cap CredIds = {} /\ Keys \subseteq AllKeys
        /\ \A k \in Keys : k \in viewSet <=> caPerms[k] # NoRow
        /\ \A c \in CredIds : c \in viewSet <=> caCreds[c] # NoKey
    BY PageAssumption DEF viewSet, viewPerms, viewCreds, AllKeys
  <1>4. /\ r.type \in {"NEW_PERM", "UPDATE_PERM", "DELETE_PERM"} => r.key \in Keys /\ r.op \in Masks
        /\ r.type = "NEW_CRED" => r.cred \in CredIds
    BY DEF Requests, PermRequests, CredRequests
  <1>5. CASE CaNewPerm(r)
    <2>1. /\ r.type = "NEW_PERM" /\ UNCHANGED caCreds
          /\ caPerms' = create_permission(caPerms, r.key, r.op)
      BY <1>2, <1>5 DEF CaNewPerm, perform_query
    <2>2. caPerms' = [caPerms EXCEPT ![r.key] = Row(r.op)] /\ Row(r.op) # NoRow
      BY <1>2, <1>3, <1>4, <2>1, RowFacts DEF create_permission, Effect
    <2>3. viewPerms' = viewPerms \cup {r.key}
      BY <1>2, <1>3, <1>4, <2>1, <2>2 DEF viewPerms
    <2> QED BY <1>2, <2>1, <2>3 DEF Effect, viewSet, viewCreds
  <1>6. CASE CaUpdatePerm(r)
    <2>1. /\ r.type = "UPDATE_PERM" /\ UNCHANGED caCreds
          /\ caPerms' = update_permission(caPerms, r.key, r.op)
      BY <1>2, <1>6 DEF CaUpdatePerm, perform_query
    <2>2. caPerms' = [caPerms EXCEPT ![r.key] = Row(r.op)] /\ Row(r.op) # NoRow
          /\ r.key \in viewPerms
      BY <1>2, <1>3, <1>4, <2>1, RowFacts DEF update_permission, Effect, viewPerms
    <2>3. viewPerms' = viewPerms
      BY <1>2, <1>3, <1>4, <2>1, <2>2 DEF viewPerms
    <2> QED BY <1>2, <2>1, <2>2, <2>3 DEF Effect, viewSet, viewCreds
  <1>7. CASE CaDeletePerm(r)
    <2>1. /\ r.type = "DELETE_PERM" /\ UNCHANGED caCreds
          /\ caPerms' = [caPerms EXCEPT ![r.key] = NoRow]
      BY <1>2, <1>7 DEF CaDeletePerm, perform_query, delete_permission
    <2>2. viewPerms' = viewPerms \ {r.key}
      BY <1>2, <1>3, <1>4, <2>1 DEF viewPerms
    <2>3. r.key \notin viewCreds
      BY <1>3, <1>4, <2>1 DEF viewCreds
    <2> QED BY <1>2, <2>1, <2>2, <2>3 DEF Effect, viewSet, viewCreds
  <1>8. CASE CaNewCred(r)
    <2>1. /\ r.type = "NEW_CRED" /\ UNCHANGED caPerms
          /\ caCreds' = create_credential(caCreds, r.cred, freshKey)
      BY <1>2, <1>8 DEF CaNewCred, perform_query
    <2>2. caCreds' = [caCreds EXCEPT ![r.cred] = freshKey]
      BY <1>2, <1>3, <1>4, <2>1 DEF create_credential, Effect
    <2>3. viewCreds' = viewCreds \cup {r.cred}
      BY <1>2, <1>4, <2>1, <2>2 DEF viewCreds
    <2> QED BY <1>2, <2>1, <2>3 DEF Effect, viewSet, viewPerms
  <1> QED BY <1>1, <1>5, <1>6, <1>7, <1>8

\* What changes neither esoca's tables nor the requests.
LEMMA PageUnmoved == PageLeads /\ UNCHANGED <<requests, page, caPerms, caCreds>> => PageLeads'
  BY DEF PageLeads, Leads, Effect, viewSet, viewPerms, viewCreds

-----------------------------------------------------------------------------
(***************************************************************************)
(* Nobody ends.  A daemon ends because of a message that is torn, a query  *)
(* that nobody waits for, or a permission for a host that there is not:    *)
(* of these, no message is.                                                *)
(***************************************************************************)
WholeMessages ==
    {m \in Messages : /\ m # Torn
                      /\ IsQuery(m) => m.from # NoOne
                      /\ m \in PermPushes => m.key \in Keys}

ServeInv ==
    /\ AllServing
    /\ inbox \in [Servers -> Seq(WholeMessages)]
    /\ ~CaIdle => caJob.msg \in WholeMessages
    /\ \A d \in Esods : dJob[d] \in WholeMessages \cup {Idle}
    /\ \A h \in Hosts : pull[h].ans.kind # "closed"

\* While all serve, all can be reached.
LEMMA AllReached == AllServing => \A s \in Servers : ~Unreachable(s)
  BY DEF AllServing, Unreachable, Procs

\* esoca sends no permission that its table does not have.
LEMMA HandleWhole ==
  ASSUME PageIsRight, IInv, PageLeads, CaHandle
  PROVE  caJob'.msg \in WholeMessages
  <1>1. PICK r \in Requests :
            CaNewPerm(r) \/ CaUpdatePerm(r) \/ CaDeletePerm(r) \/ CaNewCred(r)
    BY DEF CaHandle
  <1>2. r = Head(requests) /\ requests # <<>> /\ CaTypeOK /\ Ca \notin Failing
    BY <1>1 DEF CaNewPerm, CaUpdatePerm, CaDeletePerm, CaNewCred, Accept, IInv, CaInv, PageIsRight
  <1>3. PICK after : Effect(r, viewSet, after)
    BY <1>2, FirstEffect
  <1>4. r.type = "UPDATE_PERM" => r.key \in viewPerms
    BY <1>2, <1>3, HandleEffect
  <1>5. r.type \in {"NEW_PERM", "UPDATE_PERM", "DELETE_PERM"} => r.key \in Keys
    BY DEF Requests, PermRequests, CredRequests
  <1> DEFINE m == caJob'.msg
  <1>6. m \in Pushes \cup {Torn}
    BY HandleSound DEF CaInv, CaTypeOK
  <1>7. CASE CaNewPerm(r) \/ CaDeletePerm(r)
    <2>1. m.key = r.key /\ m.type \in {"UPDATE_PERM", "DELETE_PERM"} /\ r.key \in Keys
      BY <1>5, <1>7 DEF CaNewPerm, CaDeletePerm, IssuePerm, Propagate
    <2> HIDE DEF m
    <2>2. m \in WholeMessages
      BY <1>6, <2>1 DEF WholeMessages, Messages, Pushes, CredPushes, IsQuery, Torn
    <2> QED BY <2>2 DEF m
  <1>8. CASE CaUpdatePerm(r)
    <2>1. /\ r.key \in Keys /\ r.key \in AllKeys /\ caPerms \in [AllKeys -> Rows]
          /\ caPerms[r.key] # NoRow /\ r.op \in Masks
          /\ caPerms' = update_permission(caPerms, r.key, r.op)
      BY <1>2, <1>4, <1>5, <1>8 DEF CaUpdatePerm, perform_query, viewPerms, AllKeys, CaTypeOK,
         Requests, PermRequests, CredRequests
    <2>2. caPerms'[r.key] # NoRow
      BY <2>1, RowFacts DEF update_permission
    <2>3. get_permission(caPerms', r.key).key = r.key
      BY <2>2 DEF get_permission
    <2>4. m.key = r.key /\ m.type = "UPDATE_PERM"
      BY <1>2, <1>8, <2>3 DEF CaUpdatePerm, get_result, IssuePerm, Propagate
    <2> HIDE DEF m
    <2>5. m \in WholeMessages
      BY <1>6, <2>1, <2>4 DEF WholeMessages, Messages, Pushes, CredPushes, IsQuery, Torn
    <2> QED BY <2>5 DEF m
  <1>9. CASE CaNewCred(r)
    <2>1. m.type = "NEW_CRED"
      BY <1>9 DEF CaNewCred, Propagate
    <2> HIDE DEF m
    <2>2. m \in WholeMessages
      BY <1>6, <2>1 DEF WholeMessages, Messages, Pushes, PermPushes, IsQuery, Torn
    <2> QED BY <2>2 DEF m
  <1> QED BY <1>1, <1>7, <1>8, <1>9

\* esoca goes on,
LEMMA CaServes ==
  ASSUME PageIsRight, IInv, ServeInv, PageLeads, EsocaStep
  PROVE  ServeInv' /\ PageLeads'
  <1>1. /\ UNCHANGED <<page, dJob>> /\ CaNext /\ CaTypeOK /\ \A s \in Servers : ~Unreachable(s)
        /\ inbox \in [Servers -> Seq(WholeMessages)]
    BY AllReached DEF EsocaStep, webVars, esodVars, IInv, CaInv, ServeInv
  <1>2. CASE CaHandle
    <2>1. requests # <<>> /\ requests' = Tail(requests) /\ UNCHANGED net
      BY <1>2, HandleSound, CaCredsStep
    <2>2. \A after : Effect(Head(requests), viewSet, after) => viewSet' = after
      BY <1>2, HandleEffect
    <2>3. PageLeads'
      BY <1>1, <2>1, <2>2, PageShrinks
    <2>4. ServeInv'
      BY <1>1, <1>2, <2>1, HandleWhole DEF ServeInv, AllServing, net
    <2> QED BY <2>3, <2>4
  <1>3. CASE CaSend
    <2> DEFINE d == Head(caJob.todo)
    <2>1. /\ d \in Servers /\ inbox' = Queued(d, caJob.msg) /\ caJob.msg \in WholeMessages
          /\ UNCHANGED <<up, stuck, pull, requests, caPerms, caCreds>>
          /\ caJob' = NoJob \/ caJob'.msg = caJob.msg
      BY <1>1, <1>3 DEF CaSend, HasRoom, ServeInv, CaTypeOK
    <2>2. inbox' \in [Servers -> Seq(WholeMessages)]
      BY <1>1, <2>1, QueuedType
    <2>3. ~CaIdle' => caJob'.msg \in WholeMessages
      BY <2>1 DEF CaIdle, NoJob
    <2>4. ServeInv'
      BY <1>1, <2>1, <2>2, <2>3 DEF ServeInv, AllServing
    <2> QED BY <1>1, <2>1, <2>4, PageUnmoved
  <1>4. CASE CaExit
    <2>1. Head(caJob.todo) \in Servers
      BY <1>1, <1>4, HeadTailProperties DEF CaExit, CaIdle, CaTypeOK, Servers
    <2> QED BY <1>1, <1>4, <2>1 DEF CaExit
  <1>5. ~CaDies
    BY DEF CaDies, DiesOfSelect, PageIsRight
  <1> QED BY <1>1, <1>2, <1>3, <1>4, <1>5 DEF CaNext

\* the esods go on,
LEMMA EsodServes ==
  ASSUME NothingFails, IInv, ServeInv, NEW d \in Esods, EsodStep(d)
  PROVE  ServeInv'
  <1>1. /\ EsodNext(d) /\ UNCHANGED caJob /\ d \in Servers
        /\ \A s \in Servers : ~Unreachable(s)
        /\ inbox \in [Servers -> Seq(WholeMessages)] /\ EsodTypeOK /\ NetTypeOK
    BY AllReached DEF EsodStep, caVars, Servers, IInv, EsodInv, NetInv, ServeInv
  <1>2. ASSUME NEW i, i \in Acceptable(d), inbox' = Accepted(d, i)
        PROVE  inbox[d][i] \in WholeMessages /\ inbox' \in [Servers -> Seq(WholeMessages)]
    BY <1>1, <1>2, AcceptedType
  <1>3. ASSUME NEW i, \/ EsodUpdatePerm(d, i) \/ EsodDeletePerm(d, i) \/ EsodNewCred(d, i)
        PROVE  ServeInv'
    <2>1. /\ i \in Acceptable(d) /\ inbox' = Accepted(d, i) /\ UNCHANGED <<up, stuck, pull>>
          /\ dJob' = dJob \/ dJob' = [dJob EXCEPT ![d] = inbox[d][i]]
      BY <1>3 DEF EsodUpdatePerm, EsodDeletePerm, EsodNewCred, EsodAccept, Forward
    <2> QED BY <1>1, <1>2, <2>1 DEF ServeInv, AllServing, CaIdle, EsodTypeOK
  <1>4. ASSUME NEW i, EsodGetPerm(d, i) \/ EsodGetCred(d, i)
        PROVE  ServeInv'
    <2>1. /\ i \in Acceptable(d) /\ inbox' = Accepted(d, i) /\ UNCHANGED <<up, stuck, dJob>>
          /\ \/ UNCHANGED pull
             \/ \E h, a : pull' = Answered(h, a) /\ a.kind # "closed"
      <3>1. \A mat : CredAnswer(mat).kind # "closed"
        BY DEF CredAnswer
      <3>2. \A k : PermAnswer(d, k).kind # "closed"
        BY DEF PermAnswer
      <3> QED BY <1>4, <3>1, <3>2 DEF EsodGetPerm, EsodGetCred, EsodAccept, Reply, ReplyLost, esodVars
    <2>2. \A h \in Hosts : pull'[h].ans.kind # "closed"
      BY <1>1, <2>1 DEF ServeInv, Answered, NetTypeOK
    <2> QED BY <1>1, <1>2, <2>1, <2>2 DEF ServeInv, AllServing, CaIdle
  <1>5. ASSUME NEW i, EsodSpin(d, i)
        PROVE  FALSE
    BY <1>2, <1>5 DEF EsodSpin, Spin, WholeMessages
  <1>6. CASE EsodForward(d)
    <2> DEFINE m == dJob[d]
    <2>1. /\ m.key.loc \in Servers /\ inbox' = Queued(m.key.loc, m) /\ m \in WholeMessages
          /\ UNCHANGED <<up, stuck, pull>> /\ dJob' = [dJob EXCEPT ![d] = Idle]
      BY <1>6 DEF EsodForward, HasRoom, ServeInv
    <2> HIDE DEF m
    <2>2. inbox' \in [Servers -> Seq(WholeMessages)]
      BY <1>1, <2>1, QueuedType
    <2> QED BY <1>1, <2>1, <2>2 DEF ServeInv, AllServing, CaIdle, EsodTypeOK
  <1>7. CASE EsodExit(d)
    <2>1. CASE dJob[d] # Idle /\ Unreachable(dJob[d].key.loc)
      <3>1. dJob[d] \in PermPushes /\ dJob[d].key \in Keys
        BY <1>1, <2>1 DEF EsodTypeOK, ServeInv, WholeMessages
      <3> QED BY <1>1, <2>1, <3>1 DEF Keys, Servers
    <2>2. CASE \E i \in Acceptable(d) : IsQuery(inbox[d][i]) /\ inbox[d][i].from = NoOne
      <3>1. PICK i \in Acceptable(d) : IsQuery(inbox[d][i]) /\ inbox[d][i].from = NoOne
        BY <2>2
      <3>2. inbox[d][i] \in WholeMessages
        BY <1>1, AcceptedType
      <3> QED BY <3>1, <3>2 DEF WholeMessages
    <2>3. ~DiesOfSelect(d)
      BY DEF NothingFails, DiesOfSelect
    <2> QED BY <1>7, <2>1, <2>2, <2>3 DEF EsodExit
  <1> QED BY <1>1, <1>3, <1>4, <1>5, <1>6, <1>7 DEF EsodNext, EsodHandle

\* and so do the esols.
LEMMA EsolServes ==
  ASSUME NothingFails, IInv, ServeInv, NEW h \in Hosts, EsolStep(h)
  PROVE  ServeInv'
  <1>1. /\ EsolNext(h) /\ UNCHANGED <<caJob, dJob>> /\ h \in Servers
        /\ \A s \in Servers : ~Unreachable(s)
        /\ inbox \in [Servers -> Seq(WholeMessages)] /\ EsolInv /\ NetTypeOK
    BY AllReached DEF EsolStep, caVars, esodVars, Servers, IInv, EsodInv, NetInv, ServeInv
  <1>2. ASSUME NEW i, EsolUpdatePerm(h, i) \/ EsolDeletePerm(h, i)
        PROVE  ServeInv'
    <2>1. i \in Acceptable(h) /\ inbox' = Accepted(h, i) /\ UNCHANGED <<up, stuck, pull>>
      BY <1>2 DEF EsolUpdatePerm, EsolDeletePerm, EsolAccept
    <2>2. inbox' \in [Servers -> Seq(WholeMessages)]
      BY <1>1, <2>1, AcceptedType
    <2> QED BY <1>1, <2>1, <2>2 DEF ServeInv, AllServing, CaIdle
  <1>3. ASSUME NEW i, EsolSpin(h, i)
        PROVE  FALSE
    <2>1. i \in Acceptable(h) /\ inbox[h][i] = Torn
      BY <1>3 DEF EsolSpin, Spin
    <2>2. inbox[h][i] \in WholeMessages
      BY <1>1, <2>1, AcceptedType
    <2> QED BY <2>1, <2>2 DEF WholeMessages
  <1>4. CASE \/ LookupPerm(h) \/ LookupCred(h) \/ PullSpins(h)
             \/ Encrypt(h) \/ Decrypt(h) \/ Hmac(h) \/ Sign(h) \/ Verify(h)
             \/ GotPerm(h) \/ GotCred(h) \/ GotInvalid(h)
    <2>1. /\ UNCHANGED <<up, stuck, inbox>>
          /\ pull' = pull \/ pull' = [pull EXCEPT ![h] = NoPull]
      BY <1>4 DEF LookupPerm, LookupCred, PullSpins, Encrypt, Decrypt, Hmac, Sign, Verify, Serving,
         GotPerm, GotCred, GotInvalid, net
    <2>2. \A g \in Hosts : pull'[g].ans.kind # "closed"
      <3> SUFFICES ASSUME NEW g \in Hosts PROVE pull'[g].ans.kind # "closed"
        OBVIOUS
      <3>1. pull[g].ans.kind # "closed" /\ NoPull.ans.kind # "closed"
        BY DEF ServeInv, NoPull, NoAnswer
      <3>2. pull'[g] = pull[g] \/ pull'[g] = NoPull
        BY <1>1, <2>1 DEF NetTypeOK
      <3> QED BY <3>1, <3>2
    <2> QED BY <1>1, <2>1, <2>2 DEF ServeInv, AllServing, CaIdle
  <1>5. CASE AskPerm(h) \/ AskCred(h)
    <2>1. client[h].key \in AllKeys /\ client[h].cred \in CredIds /\ h # NoOne
      BY <1>1, <1>5, AtFacts, ProcsAssumption DEF AskPerm, AskCred, At, Procs
    <2> DEFINE d == Head(client[h].todo)
               pm == [type |-> "GET_PERM", key |-> client[h].key, from |-> h]
               cm == [type |-> "GET_CRED", cred |-> client[h].cred, from |-> h]
    <2>2. /\ d \in Servers
          /\ inbox' = Queued(d, pm) \/ inbox' = Queued(d, cm)
          /\ pull' = [pull EXCEPT ![h] = [to |-> d, ans |-> NoAnswer]]
          /\ UNCHANGED <<up, stuck>>
      BY <1>5 DEF AskPerm, AskCred, Ask, HasRoom
    <2>3. pm \in Queries /\ pm.from # NoOne /\ cm \in Queries /\ cm.from # NoOne
      BY <2>1 DEF Queries
    <2> HIDE DEF d, pm, cm
    <2>4. pm \in WholeMessages /\ cm \in WholeMessages
      BY <2>3 DEF WholeMessages, Messages, Queries, PermPushes, Torn
    <2>5. inbox' \in [Servers -> Seq(WholeMessages)]
      BY <1>1, <2>2, <2>4, QueuedType
    <2>6. \A g \in Hosts : pull'[g].ans.kind # "closed"
      BY <1>1, <2>2 DEF ServeInv, NetTypeOK, NoAnswer
    <2> QED BY <1>1, <2>2, <2>5, <2>6 DEF ServeInv, AllServing, CaIdle
  <1>6. CASE EsolExit(h)
    <2>1. /\ client[h].pc \in {"askPerm", "askCred"} /\ Unreachable(Head(client[h].todo))
      BY <1>6 DEF EsolExit, At, ServeInv, Throws, DiesOfSelect, NothingFails
    <2>2. Head(client[h].todo) \in Servers
      <3>1. client[h].todo \in Seq(Esods) /\ client[h].todo # <<>>
        BY <1>1, <2>1, AtFacts
      <3> QED BY <3>1, HeadTailProperties DEF Servers
    <2> QED BY <1>1, <2>1, <2>2
  <1> QED BY <1>1, <1>2, <1>3, <1>4, <1>5, <1>6 DEF EsolNext, EsolTcp, EsolUds

\* Every step, as nobody is killed, and nobody has to be started again.
LEMMA ServeStep ==
  ASSUME PageIsRight, NobodyKilled, NothingFails, IInv, ServeInv, PageLeads, [Next]_vars
  PROVE  ServeInv' /\ PageLeads'
  <1>1. CASE Web \/ UNCHANGED vars \/ \E h \in Hosts : Program(h)
    <2>1. UNCHANGED <<net, caJob, dJob>>
      BY <1>1 DEF Web, WebNext, CreatePerm, CreateCred, UpdatePerm, RemovePerm, Reload, Request,
         Program, ClientRequest, caVars, esodVars, vars
    <2>2. ServeInv'
      BY <2>1 DEF ServeInv, AllServing, CaIdle, net
    <2>3. CASE Web
      BY <2>2, <2>3, PageWebLeads
    <2>4. CASE UNCHANGED vars \/ \E h \in Hosts : Program(h)
      <3>1. UNCHANGED <<requests, page, caPerms, caCreds>>
        BY <2>4 DEF Program, vars, caVars, webVars
      <3> QED BY <2>2, <3>1, PageUnmoved
    <2> QED BY <1>1, <2>3, <2>4
  <1>2. CASE (\E d \in Esods : EsodStep(d)) \/ (\E h \in Hosts : EsolStep(h))
    <2>1. UNCHANGED <<requests, page, caPerms, caCreds>>
      BY <1>2 DEF EsodStep, EsolStep, caVars, webVars
    <2> QED BY <1>2, <2>1, EsodServes, EsolServes, PageUnmoved
  <1>3. ASSUME NEW p \in Procs, Kill(p) PROVE FALSE
    BY <1>3 DEF Kill, NobodyKilled, IInv, EnvInv
  <1>4. ASSUME NEW p \in Procs, Restart(p) PROVE FALSE
    BY <1>4 DEF Restart, ServeInv, AllServing
  <1> QED BY <1>1, <1>2, <1>3, <1>4, CaServes DEF Next

LEMMA InitServing == Init => ServeInv /\ PageLeads
  <1> SUFFICES ASSUME Init PROVE ServeInv /\ PageLeads
    OBVIOUS
  <1>1. ServeInv
    <2>1. \A s \in Servers : inbox[s] \in Seq(WholeMessages)
      BY EmptySeq DEF Init, NetInit
    <2>2. inbox \in [Servers -> Seq(WholeMessages)]
      BY <2>1 DEF Init, NetInit
    <2> QED BY <2>2 DEF Init, NetInit, CaInit, EsodInit, NoJob, CaIdle, NoPull, NoAnswer, ServeInv,
       AllServing
  <1>2. PageLeads
    <2> DEFINE views == [i \in 0..0 |-> {}]
    <2>1. views \in [0..0 -> SUBSET (Keys \cup CredIds)] /\ views[0] = {}
      OBVIOUS
    <2>2. requests = <<>> /\ Len(requests) = 0 /\ \A a \in Admins : page[a] = {}
      BY EmptySeq DEF Init, CaInit, WebInit
    <2>3. viewSet = {}
      BY DEF Init, CaInit, EmptyTable, NoCreds, viewSet, viewPerms, viewCreds, AllKeys
    <2> HIDE DEF views
    <2> QED BY <2>1, <2>2, <2>3 DEF PageLeads, Leads
  <1> QED BY <1>1, <1>2

LEMMA Served ==
  ASSUME PageIsRight, NobodyKilled, NothingFails
  PROVE  Spec => [](IInv /\ ServeInv /\ PageLeads)
  <1> DEFINE Inv == IInv /\ ServeInv /\ PageLeads
  <1>1. Init => Inv
    BY InitIInv, InitServing
  <1>2. Inv /\ [Next]_vars => Inv'
    BY Inductive, ServeStep
  <1> HIDE DEF Inv
  <1>3. Spec => []Inv
    BY <1>1, <1>2, PTL DEF Spec
  <1> QED BY <1>3 DEF Inv

(***************************************************************************)
(* No daemon ends or spins because of what another one sends it, as long   *)
(* as nobody is killed, nothing fails and one admin works on a right page: *)
(* esoca sends no permission that it does not have (two admins make it     *)
(* send the empty one, which ends the esods that look for its host).       *)
(***************************************************************************)
THEOREM AllGoOnServing ==
  ASSUME PageIsRight, NobodyKilled, NothingFails
  PROVE  Spec => []AllServing
  <1>1. ServeInv => AllServing
    BY DEF ServeInv
  <1> QED BY <1>1, Served, PTL

(***************************************************************************)
(* What an admin is told is created or removed is so once esoca has        *)
(* handled its requests.  A process that ends, esoca itself or an esod or  *)
(* esol that it then cannot reach, would take requests with it.            *)
(***************************************************************************)
THEOREM WhatIsReportedIsDone ==
  ASSUME PageIsRight, NobodyKilled, NothingFails
  PROVE  Spec => []ReportedIsDone
  <1>1. PageLeads => ReportedIsDone
    BY NothingWaits DEF ReportedIsDone
  <1> QED BY <1>1, Served, PTL

-----------------------------------------------------------------------------
(***************************************************************************)
(* INSERTs.  A credential is sent to an esod once, before it is there, and *)
(* an esol asks for one only while it does not have it.                    *)
(***************************************************************************)
EachLocationOnce == \A i, j \in 1..Len(Locations) : Locations[i] = Locations[j] => i = j

Left(d) == \E i \in 1..Len(caJob.todo) : caJob.todo[i] = d

SendsCred(m, c) == m.type = "NEW_CRED" /\ m.cred = c

SentOnce(d, c) ==
    /\ Left(d) /\ SendsCred(caJob.msg, c) =>
          /\ dCreds[d][c] = NoKey
          /\ \A i \in 1..Len(inbox[d]) : ~SendsCred(inbox[d][i], c)
    /\ \A i \in 1..Len(inbox[d]) : SendsCred(inbox[d][i], c) =>
          /\ dCreds[d][c] = NoKey
          /\ \A j \in 1..Len(inbox[d]) : SendsCred(inbox[d][j], c) => i = j

AsksForNew(h) ==
    client[h].pc \in {"askCred", "waitCred"} => hCreds[h][client[h].cred] = NoKey

InsertInv ==
    /\ \A i, j \in 1..Len(caJob.todo) : caJob.todo[i] = caJob.todo[j] => i = j
    /\ \A d \in Esods, c \in CredIds : SentOnce(d, c)
    /\ \A h \in Hosts : AsksForNew(h)

\* The credentials in queue new are in queue old, which may have lost one place.
FewerCreds(new, old) ==
    /\ Len(new) \in Nat /\ Len(old) \in Nat
    /\ \E n \in Nat : \A i \in 1..Len(new) : new[i].type = "NEW_CRED" =>
           Skip(n, i) \in 1..Len(old) /\ new[i] = old[Skip(n, i)]

LEMMA CredsStay ==
  ASSUME NEW new, NEW old, Len(new) \in Nat, Len(old) \in Nat,
         \A i \in 1..Len(new) : new[i].type = "NEW_CRED" => i \in 1..Len(old) /\ new[i] = old[i]
  PROVE  FewerCreds(new, old)
  <1> DEFINE n == Len(new) + 1
  <1>1. n \in Nat /\ \A i \in 1..Len(new) : Skip(n, i) = i
    BY DEF Skip
  <1> HIDE DEF n
  <1> QED BY <1>1 DEF FewerCreds

\* What accepting a connection, and making another one, do to the queues.
LEMMA CredQueues ==
  ASSUME NetTypeOK,
         \/ UNCHANGED inbox
         \/ \E s \in Servers : \E i \in Acceptable(s) : inbox' = Accepted(s, i)
         \/ \E s \in Servers : \E m \in Messages : m.type # "NEW_CRED" /\ inbox' = Queued(s, m)
  PROVE  \A s \in Servers : FewerCreds(inbox'[s], inbox[s])
  <1>1. \A s \in Servers : Len(inbox[s]) \in Nat
    BY LenProperties DEF NetTypeOK
  <1>2. CASE UNCHANGED inbox
    BY <1>1, <1>2, CredsStay
  <1>3. ASSUME NEW s \in Servers, NEW i \in Acceptable(s), inbox' = Accepted(s, i)
        PROVE  \A r \in Servers : FewerCreds(inbox'[r], inbox[r])
    <2>1. /\ i \in 1..Len(inbox[s])
          /\ \A j \in 1..Len(inbox'[s]) :
                 Skip(i, j) \in 1..Len(inbox[s]) /\ inbox'[s][j] = inbox[s][Skip(i, j)]
          /\ \A r \in Servers : r # s => inbox'[r] = inbox[r]
          /\ FewerQueries(inbox'[s], inbox[s])
      BY <1>3, AcceptedAt
    <2>2. FewerCreds(inbox'[s], inbox[s])
      <3>1. i \in Nat /\ Len(inbox'[s]) \in Nat
        BY <1>1, <2>1 DEF FewerQueries
      <3> QED BY <1>1, <2>1, <3>1 DEF FewerCreds
    <2>3. \A r \in Servers : r # s => FewerCreds(inbox'[r], inbox[r])
      BY <1>1, <2>1, CredsStay
    <2> QED BY <2>2, <2>3
  <1>4. ASSUME NEW s \in Servers, NEW m \in Messages, m.type # "NEW_CRED", inbox' = Queued(s, m)
        PROVE  \A r \in Servers : FewerCreds(inbox'[r], inbox[r])
    <2>1. /\ Len(inbox'[s]) = Len(inbox[s]) + 1
          /\ inbox'[s][Len(inbox[s]) + 1] = m
          /\ \A j \in 1..Len(inbox[s]) : inbox'[s][j] = inbox[s][j]
          /\ \A r \in Servers : r # s => inbox'[r] = inbox[r]
      BY <1>4, QueueLast
    <2>2. FewerCreds(inbox'[s], inbox[s])
      BY <1>1, <1>4, <2>1, CredsStay
    <2>3. \A r \in Servers : r # s => FewerCreds(inbox'[r], inbox[r])
      BY <1>1, <2>1, CredsStay
    <2> QED BY <2>2, <2>3
  <1> QED BY <1>2, <1>3, <1>4

\* With fewer credentials on their way, each is still sent once.
LEMMA SentOnceKept ==
  ASSUME NEW d \in Esods, NEW c \in CredIds, SentOnce(d, c), FewerCreds(inbox'[d], inbox[d]),
         Left(d)' /\ SendsCred(caJob.msg, c)' => Left(d) /\ SendsCred(caJob.msg, c),
         dCreds'[d][c] = dCreds[d][c]
  PROVE  SentOnce(d, c)'
  <1>1. PICK n \in Nat : \A i \in 1..Len(inbox'[d]) : inbox'[d][i].type = "NEW_CRED" =>
            Skip(n, i) \in 1..Len(inbox[d]) /\ inbox'[d][i] = inbox[d][Skip(n, i)]
    BY DEF FewerCreds
  <1>2. Len(inbox'[d]) \in Nat
    BY DEF FewerCreds
  <1>3. ASSUME NEW i \in 1..Len(inbox'[d]), SendsCred(inbox'[d][i], c)
        PROVE  Skip(n, i) \in 1..Len(inbox[d]) /\ SendsCred(inbox[d][Skip(n, i)], c)
    BY <1>1, <1>3 DEF SendsCred
  <1>4. ASSUME NEW i \in 1..Len(inbox'[d]), NEW j \in 1..Len(inbox'[d]),
               SendsCred(inbox'[d][i], c), SendsCred(inbox'[d][j], c)
        PROVE  i = j
    <2> DEFINE x == Skip(n, i)
               y == Skip(n, j)
    <2>1. /\ x \in 1..Len(inbox[d]) /\ SendsCred(inbox[d][x], c)
          /\ y \in 1..Len(inbox[d]) /\ SendsCred(inbox[d][y], c)
      BY <1>3, <1>4
    <2> HIDE DEF x, y
    <2>2. x = y
      BY <2>1 DEF SentOnce
    <2> QED BY <1>2, <2>2 DEF x, y, Skip
  <1>5. \A i \in 1..Len(inbox'[d]) : SendsCred(inbox'[d][i], c) => dCreds'[d][c] = NoKey
    BY <1>3 DEF SentOnce
  <1>6. Left(d)' /\ SendsCred(caJob.msg, c)' =>
            dCreds'[d][c] = NoKey /\ \A i \in 1..Len(inbox'[d]) : ~SendsCred(inbox'[d][i], c)
    BY <1>3 DEF SentOnce
  <1> QED BY <1>4, <1>5, <1>6 DEF SentOnce, SendsCred

(***************************************************************************)
(* esoca generates key material for a credential that nobody has, and      *)
(* sends it to each location once.                                         *)
(***************************************************************************)
LEMMA CaInserts ==
  ASSUME EachLocationOnce, IInv, CredInv, ServeInv', PageLeads, InsertInv, EsocaStep
  PROVE  InsertInv'
  <1>1. /\ CaNext /\ UNCHANGED <<dCreds, hCreds, client>> /\ CaTypeOK /\ NetTypeOK
        /\ inbox \in [Servers -> Seq(KnownMessages)]
        /\ \A d \in Esods, c \in CredIds : dCreds[d][c] \in {NoKey, caCreds[c]}
    BY DEF EsocaStep, esodVars, esolVars, IInv, CaInv, NetInv, CredInv, CredsAgree
  <1>2. \A h \in Hosts : AsksForNew(h)'
    BY <1>1 DEF InsertInv, AsksForNew
  <1>3. CASE CaHandle
    <2>1. PICK r \in Requests :
              CaNewPerm(r) \/ CaUpdatePerm(r) \/ CaDeletePerm(r) \/ CaNewCred(r)
      BY <1>3 DEF CaHandle
    <2>2. r = Head(requests) /\ requests # <<>> /\ inbox' = inbox /\ caJob'.todo = Locations
      BY <2>1 DEF CaNewPerm, CaUpdatePerm, CaDeletePerm, CaNewCred, Accept, IssuePerm, Propagate, net
    <2>3. \A c : SendsCred(caJob'.msg, c) => r.type = "NEW_CRED" /\ r.cred = c
      BY <2>1 DEF CaNewPerm, CaUpdatePerm, CaDeletePerm, CaNewCred, IssuePerm, Propagate, SendsCred
    <2>4. ASSUME NEW c \in CredIds, SendsCred(caJob'.msg, c)
          PROVE  caCreds[c] = NoKey
      <3>1. PICK after : Effect(r, viewSet, after)
        BY <1>1, <2>2, FirstEffect
      <3>2. c \notin viewCreds
        BY <2>3, <2>4, <3>1 DEF Effect, viewSet
      <3> QED BY <3>2 DEF viewCreds
    <2>5. ASSUME NEW d \in Esods, NEW c \in CredIds, SendsCred(caJob'.msg, c),
                 NEW i \in 1..Len(inbox[d])
          PROVE  ~SendsCred(inbox[d][i], c)
      <3>1. d \in Servers /\ inbox[d][i] \in KnownMessages /\ inbox[d][i] \in Messages
        BY <1>1, <2>5, ElementOfSeq DEF Servers, KnownMessages
      <3>2. SUFFICES ASSUME SendsCred(inbox[d][i], c) PROVE FALSE
        OBVIOUS
      <3>3. inbox[d][i] \in CredPushes
        BY <3>1, <3>2, MessageFacts DEF SendsCred
      <3>4. inbox[d][i].mat = caCreds[c] /\ inbox[d][i].mat # NoKey
        BY <3>1, <3>2, <3>3 DEF KnownMessages, SendsCred, CredPushes
      <3> QED BY <2>4, <2>5, <3>4
    <2>6. ASSUME NEW d \in Esods, NEW c \in CredIds PROVE SentOnce(d, c)'
      <3>1. SendsCred(caJob'.msg, c) => dCreds[d][c] = NoKey
        BY <1>1, <2>4
      <3>2. SentOnce(d, c) /\ dCreds' = dCreds
        BY <1>1 DEF InsertInv
      <3> QED BY <2>2, <2>5, <3>1, <3>2 DEF SentOnce, SendsCred
    <2>7. \A i, j \in 1..Len(caJob'.todo) : caJob'.todo[i] = caJob'.todo[j] => i = j
      BY <2>2 DEF EachLocationOnce
    <2> QED BY <1>2, <2>6, <2>7 DEF InsertInv
  <1>4. CASE CaSend
    <2> DEFINE s == Head(caJob.todo)
               m == caJob.msg
    <2>1. caJob.todo \in Seq(Esods) /\ caJob.todo # <<>> /\ m \in Messages
      BY <1>1, <1>4 DEF CaSend, CaIdle, CaTypeOK, Messages
    <2>2. /\ s \in Servers /\ inbox' = Queued(s, m)
          /\ caJob' = IF Len(caJob.todo) = 1 THEN NoJob ELSE [caJob EXCEPT !.todo = Tail(@)]
          /\ caJob \in [msg : Pushes \cup {Torn}, todo : Seq(Esods)]
      BY <1>1, <1>4 DEF CaSend, HasRoom, CaTypeOK
    <2>3. /\ Len(caJob.todo) \in Nat /\ 1 \in 1..Len(caJob.todo) /\ caJob.todo[1] = s
          /\ Len(Tail(caJob.todo)) = Len(caJob.todo) - 1
          /\ \A i \in 1..(Len(caJob.todo) - 1) : Tail(caJob.todo)[i] = caJob.todo[i + 1]
      BY <2>1, EmptySeq, LenProperties, HeadTailProperties
    <2>4. \A i \in 1..Len(caJob'.todo) :
              /\ i + 1 \in 1..Len(caJob.todo)
              /\ caJob'.todo[i] = caJob.todo[i + 1]
              /\ caJob'.msg = m
      <3>1. CASE Len(caJob.todo) = 1
        <4>1. caJob'.todo = <<>>
          BY <2>2, <3>1 DEF NoJob
        <4> QED BY <4>1, EmptySeq
      <3>2. CASE Len(caJob.todo) # 1
        <4>1. caJob'.todo = Tail(caJob.todo) /\ caJob'.msg = m
          BY <2>2, <3>2
        <4> QED BY <2>3, <4>1
      <3> QED BY <3>1, <3>2
    <2>5. \A i, j \in 1..Len(caJob'.todo) : caJob'.todo[i] = caJob'.todo[j] => i = j
      <3>1. SUFFICES ASSUME NEW i \in 1..Len(caJob'.todo), NEW j \in 1..Len(caJob'.todo),
                            caJob'.todo[i] = caJob'.todo[j]
                     PROVE  i = j
        OBVIOUS
      <3>2. i + 1 \in 1..Len(caJob.todo) /\ j + 1 \in 1..Len(caJob.todo)
            /\ caJob.todo[i + 1] = caJob.todo[j + 1]
        BY <2>4, <3>1
      <3>3. i + 1 = j + 1
        BY <3>2 DEF InsertInv
      <3> QED BY <3>3
    <2>6. \A d : Left(d)' => Left(d) /\ d # s /\ caJob'.msg = m
      <3>1. SUFFICES ASSUME NEW i \in 1..Len(caJob'.todo)
                     PROVE  /\ \E j \in 1..Len(caJob.todo) : caJob.todo[j] = caJob'.todo[i]
                            /\ caJob'.todo[i] # s /\ caJob'.msg = m
        BY DEF Left
      <3>2. /\ i + 1 \in 1..Len(caJob.todo) /\ caJob'.todo[i] = caJob.todo[i + 1]
            /\ caJob'.msg = m /\ i + 1 # 1
        BY <2>4
      <3>3. caJob.todo[i + 1] # caJob.todo[1]
        BY <2>3, <3>2 DEF InsertInv
      <3> QED BY <2>3, <3>2, <3>3
    <2>7. Left(s)
      BY <2>3 DEF Left
    <2>8. /\ Len(inbox[s]) \in Nat /\ Len(inbox'[s]) = Len(inbox[s]) + 1
          /\ inbox'[s][Len(inbox[s]) + 1] = m
          /\ \A j \in 1..Len(inbox[s]) : inbox'[s][j] = inbox[s][j]
          /\ \A r \in Servers : r # s => inbox'[r] = inbox[r]
      BY <1>1, <2>1, <2>2, QueueLast
    <2> HIDE DEF s, m
    <2>9. ASSUME NEW d \in Esods, NEW c \in CredIds PROVE SentOnce(d, c)'
      <3>1. SentOnce(d, c) /\ dCreds' = dCreds /\ d \in Servers
        BY <1>1 DEF InsertInv, Servers
      <3>2. CASE d # s
        BY <2>6, <2>8, <3>1, <3>2 DEF SentOnce, SendsCred, m
      <3>3. CASE d = s
        <4>1. ~Left(d)'
          BY <2>6, <3>3
        <4>2. SendsCred(m, c) => dCreds[d][c] = NoKey /\ \A i \in 1..Len(inbox[d]) :
                                                           ~SendsCred(inbox[d][i], c)
          BY <2>7, <3>1, <3>3 DEF SentOnce, m
        <4>3. ASSUME NEW i \in 1..Len(inbox'[d])
              PROVE  \/ i \in 1..Len(inbox[d]) /\ inbox'[d][i] = inbox[d][i]
                     \/ i = Len(inbox[d]) + 1 /\ inbox'[d][i] = m
          BY <2>8, <3>3
        <4>4. \A i \in 1..Len(inbox'[d]) : SendsCred(inbox'[d][i], c) =>
                  /\ dCreds[d][c] = NoKey
                  /\ \A j \in 1..Len(inbox'[d]) : SendsCred(inbox'[d][j], c) => i = j
          BY <3>1, <4>2, <4>3 DEF SentOnce
        <4> QED BY <3>1, <4>1, <4>4 DEF SentOnce, SendsCred
      <3> QED BY <3>2, <3>3
    <2> QED BY <1>2, <2>5, <2>9 DEF InsertInv
  <1>5. CASE CaExit \/ CaDies
    BY <1>1, <1>5 DEF CaExit, CaDies, CaDown, CaEnds, Down, ServeInv, AllServing, NetTypeOK, Procs
  <1> QED BY <1>1, <1>3, <1>4, <1>5 DEF CaNext

\* An esod takes a credential off its queue and into its database, ...
LEMMA EsodInserts ==
  ASSUME IInv, ServeInv', InsertInv, NEW d \in Esods, EsodStep(d)
  PROVE  InsertInv'
  <1>1. /\ EsodNext(d) /\ UNCHANGED <<caJob, client, hCreds>> /\ d \in Servers
        /\ NetTypeOK /\ EsodTypeOK
    BY DEF EsodStep, caVars, esolVars, Servers, IInv, NetInv, EsodInv
  <1>2. \A h \in Hosts : AsksForNew(h)'
    BY <1>1 DEF InsertInv, AsksForNew
  <1> SUFFICES ASSUME NEW e \in Esods, NEW c \in CredIds PROVE SentOnce(e, c)'
    BY <1>1, <1>2 DEF InsertInv
  <1>3. e \in Servers /\ SentOnce(e, c)
    BY DEF Servers, InsertInv
  <1>4. ASSUME \A s \in Servers : FewerCreds(inbox'[s], inbox[s]), dCreds'[e][c] = dCreds[e][c]
        PROVE  SentOnce(e, c)'
    BY <1>1, <1>3, <1>4, SentOnceKept DEF Left, SendsCred
  <1>5. ASSUME NEW i, EsodNewCred(d, i) PROVE SentOnce(e, c)'
    <2> DEFINE m == inbox[d][i]
    <2>1. /\ i \in Acceptable(d) /\ inbox' = Accepted(d, i) /\ m.type = "NEW_CRED"
          /\ \E table \in {dCreds[d], create_credential(dCreds[d], m.cred, m.mat)} :
                 dCreds' = [dCreds EXCEPT ![d] = table]
      BY <1>5 DEF EsodNewCred, EsodAccept, perform_query
    <2>2. \A s \in Servers : FewerCreds(inbox'[s], inbox[s])
      BY <1>1, <2>1, CredQueues
    <2>3. /\ i \in 1..Len(inbox[d])
          /\ \A j \in 1..Len(inbox'[d]) :
                 Skip(i, j) \in 1..Len(inbox[d]) /\ Skip(i, j) # i
                 /\ inbox'[d][j] = inbox[d][Skip(i, j)]
      BY <1>1, <2>1, AcceptedAt
    <2>4. CASE e = d /\ SendsCred(m, c)
      <3>1. \A j \in 1..Len(inbox'[d]) : ~SendsCred(inbox'[d][j], c)
        BY <1>3, <2>3, <2>4 DEF SentOnce
      <3>2. ~(Left(d) /\ SendsCred(caJob.msg, c))
        BY <1>3, <2>3, <2>4 DEF SentOnce
      <3> QED BY <1>1, <2>4, <3>1, <3>2 DEF SentOnce, Left, SendsCred
    <2>5. CASE ~(e = d /\ SendsCred(m, c))
      <3>1. m.cred # c => create_credential(dCreds[d], m.cred, m.mat)[c] = dCreds[d][c]
        BY <1>1 DEF create_credential, EsodTypeOK
      <3>2. dCreds'[e][c] = dCreds[e][c]
        BY <1>1, <2>1, <2>5, <3>1 DEF EsodTypeOK, SendsCred
      <3> QED BY <1>4, <2>2, <3>2
    <2> QED BY <2>4, <2>5
  <1>6. ASSUME NEW i, \/ EsodUpdatePerm(d, i) \/ EsodDeletePerm(d, i)
                      \/ EsodGetPerm(d, i) \/ EsodGetCred(d, i) \/ EsodSpin(d, i)
        PROVE  SentOnce(e, c)'
    <2>1. i \in Acceptable(d) /\ inbox' = Accepted(d, i) /\ UNCHANGED dCreds
      BY <1>6 DEF EsodUpdatePerm, EsodDeletePerm, EsodGetPerm, EsodGetCred, EsodSpin, EsodAccept,
         Spin, esodVars
    <2>2. \A s \in Servers : FewerCreds(inbox'[s], inbox[s])
      BY <1>1, <2>1, CredQueues
    <2> QED BY <1>4, <2>1, <2>2
  <1>7. CASE EsodForward(d)
    <2> DEFINE m == dJob[d]
    <2>1. /\ m.key.loc \in Servers /\ inbox' = Queued(m.key.loc, m) /\ m \in PermPushes
          /\ UNCHANGED dCreds
      BY <1>1, <1>7 DEF EsodForward, HasRoom, EsodTypeOK
    <2> HIDE DEF m
    <2>2. m \in Messages /\ m.type # "NEW_CRED"
      BY <2>1 DEF Messages, Pushes, PermPushes
    <2>3. \A s \in Servers : FewerCreds(inbox'[s], inbox[s])
      BY <1>1, <2>1, <2>2, CredQueues
    <2> QED BY <1>4, <2>1, <2>3
  <1>8. CASE EsodExit(d)
    BY <1>1, <1>8 DEF EsodExit, EsodDown, Down, ServeInv, AllServing, NetTypeOK, Procs
  <1> QED BY <1>1, <1>5, <1>6, <1>7, <1>8 DEF EsodNext, EsodHandle

\* A program whose request moves on asks for what its host does not have.
LEMMA ClientAsks ==
  ASSUME IInv, InsertInv, NEW h \in Hosts, UNCHANGED hCreds, NEW c,
         client' = [client EXCEPT ![h] = c],
         c.pc \in {"askCred", "waitCred"} => hCreds[h][c.cred] = NoKey
  PROVE  \A g \in Hosts : AsksForNew(g)'
  <1>1. client \in [Hosts -> Clients]
    BY DEF IInv, EsolInv, EsolTypeOK
  <1> QED BY <1>1 DEF InsertInv, AsksForNew

\* ... and an esol keeps what it has been given.
LEMMA EsolInserts ==
  ASSUME NothingFails, IInv, ServeInv', InsertInv, NEW h \in Hosts, EsolStep(h)
  PROVE  InsertInv'
  <1>1. /\ EsolNext(h) /\ UNCHANGED <<caJob, dCreds>> /\ h \in Servers /\ h \notin Failing
        /\ NetTypeOK /\ EsolTypeOK /\ EsolInv
    BY DEF EsolStep, caVars, esodVars, Servers, IInv, NetInv, EsolInv, NothingFails
  <1>2. ASSUME \A s \in Servers : FewerCreds(inbox'[s], inbox[s]), \A g \in Hosts : AsksForNew(g)'
        PROVE  InsertInv'
    <2>1. ASSUME NEW e \in Esods, NEW c \in CredIds PROVE SentOnce(e, c)'
      <3>1. e \in Servers /\ SentOnce(e, c)
        BY DEF Servers, InsertInv
      <3> QED BY <1>1, <1>2, <3>1, SentOnceKept DEF Left, SendsCred
    <2> QED BY <1>1, <1>2, <2>1 DEF InsertInv
  <1>3. ASSUME NEW i, EsolUpdatePerm(h, i) \/ EsolDeletePerm(h, i) \/ EsolSpin(h, i)
        PROVE  InsertInv'
    <2>1. i \in Acceptable(h) /\ inbox' = Accepted(h, i) /\ UNCHANGED <<client, hCreds>>
      BY <1>3 DEF EsolUpdatePerm, EsolDeletePerm, EsolSpin, EsolAccept, Spin, esolVars
    <2>2. \A s \in Servers : FewerCreds(inbox'[s], inbox[s])
      BY <1>1, <2>1, CredQueues
    <2>3. \A g \in Hosts : AsksForNew(g)'
      BY <2>1 DEF InsertInv, AsksForNew
    <2> QED BY <1>2, <2>2, <2>3
  <1>4. CASE AskPerm(h) \/ AskCred(h)
    <2> DEFINE s == Head(client[h].todo)
               pm == [type |-> "GET_PERM", key |-> client[h].key, from |-> h]
               cm == [type |-> "GET_CRED", cred |-> client[h].cred, from |-> h]
    <2>1. /\ s \in Servers
          /\ inbox' = Queued(s, pm) \/ inbox' = Queued(s, cm)
          /\ UNCHANGED hCreds /\ client[h].pc # "idle"
          /\ \/ client' = [client EXCEPT ![h].pc = "waitPerm"]
             \/ client[h].pc = "askCred" /\ client' = [client EXCEPT ![h].pc = "waitCred"]
      BY <1>4 DEF AskPerm, AskCred, Ask, At, Goto, HasRoom, tables
    <2>2. client[h].key \in AllKeys /\ client[h].cred \in CredIds
      BY <1>1, <2>1, AtFacts
    <2>3. /\ pm \in Messages /\ pm.type # "NEW_CRED"
          /\ cm \in Messages /\ cm.type # "NEW_CRED"
      BY <2>2 DEF Messages, Queries
    <2> HIDE DEF s, pm, cm
    <2>4. \A r \in Servers : FewerCreds(inbox'[r], inbox[r])
      BY <1>1, <2>1, <2>3, CredQueues
    <2>5. /\ \A g \in Hosts : g # h => client'[g] = client[g]
          /\ \/ client'[h].pc = "waitPerm"
             \/ client[h].pc = "askCred" /\ client'[h].cred = client[h].cred
      <3>1. client[h] \in Clients
        BY <1>1 DEF EsolTypeOK
      <3> QED BY <1>1, <2>1, <3>1 DEF EsolTypeOK, Clients
    <2>6. \A g \in Hosts : AsksForNew(g)'
      BY <2>1, <2>5 DEF InsertInv, AsksForNew
    <2> QED BY <1>2, <2>4, <2>6
  <1>5. CASE \/ LookupPerm(h) \/ LookupCred(h) \/ GotPerm(h) \/ GotCred(h) \/ GotInvalid(h)
             \/ PullSpins(h) \/ Encrypt(h) \/ Decrypt(h) \/ Hmac(h) \/ Sign(h) \/ Verify(h)
    <2>1. inbox' = inbox
      BY <1>5 DEF LookupPerm, LookupCred, PullSpins, Encrypt, Decrypt, Hmac, Sign, Verify, Serving,
         GotPerm, GotCred, GotInvalid, net
    <2>2. \A s \in Servers : FewerCreds(inbox'[s], inbox[s])
      BY <1>1, <2>1, CredQueues
    <2>3. client[h] \in Clients
      BY <1>1 DEF EsolTypeOK
    <2>4. CASE GotCred(h)
      <3>1. /\ \A g \in Hosts : g # h => hCreds'[g] = hCreds[g] /\ client'[g] = client[g]
            /\ client'[h].pc = "serve"
        BY <1>1, <2>3, <2>4 DEF GotCred, GotoServe, EsolTypeOK, Clients
      <3>2. \A g \in Hosts : AsksForNew(g)'
        BY <3>1 DEF InsertInv, AsksForNew
      <3> QED BY <1>2, <2>2, <3>2
    <2>5. CASE GotInvalid(h)
      <3> DEFINE mat == hCreds[h][client[h].cred]
      <3>1. /\ UNCHANGED hCreds /\ mat = NoKey
            /\ \/ GotoServe(h, NoKey)
               \/ \E todo : GotoAsk(h, "askCred", todo)
        BY <2>5 DEF GotInvalid, At, tables, InsertInv, AsksForNew
      <3>2. \E c : /\ client' = [client EXCEPT ![h] = c]
                   /\ c.pc = "serve" \/ (c.pc = "askCred" /\ c.cred = client[h].cred)
        <4>1. CASE GotoServe(h, NoKey)
          <5> DEFINE c == [client[h] EXCEPT !.pc = "serve", !.mat = NoKey]
          <5>1. client' = [client EXCEPT ![h] = c] /\ c.pc = "serve"
            BY <1>1, <2>3, <4>1 DEF GotoServe, Clients, EsolTypeOK
          <5> QED BY <5>1
        <4>2. ASSUME NEW todo, GotoAsk(h, "askCred", todo)
              PROVE  \E c : /\ client' = [client EXCEPT ![h] = c]
                            /\ c.pc = "serve" \/ (c.pc = "askCred" /\ c.cred = client[h].cred)
          <5> DEFINE c == [client[h] EXCEPT !.pc = "askCred", !.todo = todo]
          <5>1. /\ client' = [client EXCEPT ![h] = c]
                /\ c.pc = "askCred" /\ c.cred = client[h].cred
            BY <1>1, <2>3, <4>2 DEF GotoAsk, Clients, EsolTypeOK
          <5> QED BY <5>1
        <4> QED BY <3>1, <4>1, <4>2
      <3>3. \A g \in Hosts : AsksForNew(g)'
        BY <3>1, <3>2, ClientAsks
      <3> QED BY <1>2, <2>2, <3>3
    <2>6. CASE LookupCred(h)
      <3> DEFINE mat == hCreds[h][client[h].cred]
      <3>1. /\ UNCHANGED hCreds
            /\ \/ GotoServe(h, mat)
               \/ mat = NoKey /\ GotoAsk(h, "askCred", Locations)
        BY <1>1, <2>6 DEF LookupCred, get_result, tables
      <3>2. \E c : /\ client' = [client EXCEPT ![h] = c]
                   /\ c.pc = "askCred" => mat = NoKey /\ c.cred = client[h].cred
                   /\ c.pc # "waitCred"
        <4>1. CASE GotoServe(h, mat)
          <5> DEFINE c == [client[h] EXCEPT !.pc = "serve", !.mat = mat]
          <5>1. client' = [client EXCEPT ![h] = c] /\ c.pc = "serve"
            BY <1>1, <2>3, <4>1 DEF GotoServe, Clients, EsolTypeOK
          <5> QED BY <5>1
        <4>2. CASE mat = NoKey /\ GotoAsk(h, "askCred", Locations)
          <5> DEFINE c == [client[h] EXCEPT !.pc = "askCred", !.todo = Locations]
          <5>1. /\ client' = [client EXCEPT ![h] = c] /\ mat = NoKey
                /\ c.pc = "askCred" /\ c.cred = client[h].cred
            BY <1>1, <2>3, <4>2 DEF GotoAsk, Clients, EsolTypeOK
          <5> QED BY <5>1
        <4> QED BY <3>1, <4>1, <4>2
      <3>3. \A g \in Hosts : AsksForNew(g)'
        BY <3>1, <3>2, ClientAsks
      <3> QED BY <1>2, <2>2, <3>3
    <2>7. CASE \/ LookupPerm(h) \/ GotPerm(h) \/ PullSpins(h)
               \/ Encrypt(h) \/ Decrypt(h) \/ Hmac(h) \/ Sign(h) \/ Verify(h)
      <3>1. /\ UNCHANGED hCreds
            /\ \/ Answer(h) \/ Goto(h, "cred") \/ Goto(h, "spin")
               \/ GotoAsk(h, "askPerm", Locations)
        BY <2>7 DEF LookupPerm, GotPerm, PullSpins, Decide, Encrypt, Decrypt, Hmac, Sign, Verify,
           Serving, UnlessExpired, Expired, Operate, tables
      <3>2. \A g \in Hosts : g # h => client'[g] = client[g]
        BY <1>1, <3>1 DEF Answer, Goto, GotoAsk, EsolTypeOK
      <3>3. client'[h].pc \notin {"askCred", "waitCred"}
        BY <1>1, <2>3, <3>1 DEF Answer, Goto, GotoAsk, EsolTypeOK, Clients, NoClient
      <3>4. \A g \in Hosts : AsksForNew(g)'
        BY <3>1, <3>2, <3>3 DEF InsertInv, AsksForNew
      <3> QED BY <1>2, <2>2, <3>4
    <2> QED BY <1>5, <2>4, <2>5, <2>6, <2>7
  <1>6. CASE EsolExit(h)
    BY <1>1, <1>6 DEF EsolExit, EsolDown, Down, ServeInv, AllServing, NetTypeOK, Procs
  <1> QED BY <1>1, <1>3, <1>4, <1>5, <1>6 DEF EsolNext, EsolTcp, EsolUds

LEMMA InsertStep ==
  ASSUME PageIsRight, NobodyKilled, NothingFails, EachLocationOnce,
         IInv, CredInv, ServeInv, PageLeads, InsertInv, [Next]_vars
  PROVE  InsertInv'
  <1>1. ServeInv'
    BY ServeStep
  <1>2. NetTypeOK /\ EsolTypeOK
    BY DEF IInv, NetInv, EsolInv
  <1>3. CASE Web \/ UNCHANGED vars
    <2>1. UNCHANGED <<inbox, caJob, dCreds, hCreds, client>>
      BY <1>3 DEF Web, WebNext, CreatePerm, CreateCred, UpdatePerm, RemovePerm, Reload, Request,
         net, caVars, esodVars, esolVars, vars
    <2> QED BY <2>1 DEF InsertInv, SentOnce, Left, SendsCred, AsksForNew
  <1>4. ASSUME NEW h \in Hosts, Program(h) PROVE InsertInv'
    <2>1. /\ UNCHANGED <<inbox, caJob, dCreds, hCreds>>
          /\ \E n, o, c : client' = [client EXCEPT ![h] =
                 [NoClient EXCEPT !.pc = "perm", !.key = [name |-> n, loc |-> h],
                                  !.op = o, !.cred = c]]
      BY <1>4 DEF Program, ClientRequest, net, tables, caVars, esodVars
    <2>2. \A n, o, c : [NoClient EXCEPT !.pc = "perm", !.key = [name |-> n, loc |-> h],
                                        !.op = o, !.cred = c].pc = "perm"
      BY DEF NoClient
    <2>3. \A g \in Hosts : AsksForNew(g)'
      BY <2>1, <2>2, ClientAsks
    <2> QED BY <2>1, <2>3 DEF InsertInv, SentOnce, Left, SendsCred
  <1>5. ASSUME NEW p \in Procs, Kill(p) PROVE FALSE
    BY <1>5 DEF Kill, NobodyKilled, IInv, EnvInv
  <1>6. ASSUME NEW p \in Procs, Restart(p) PROVE FALSE
    BY <1>6 DEF Restart, ServeInv, AllServing
  <1> QED BY <1>1, <1>3, <1>4, <1>5, <1>6, CaInserts, EsodInserts, EsolInserts DEF Next

(***************************************************************************)
(* No daemon INSERTs a row that is there: nobody is killed, nothing fails, *)
(* one admin works on a right page and no esod is listed twice in          *)
(* locations_config.  When esoca ends, requests are lost that the page     *)
(* counts on; an esol whose SELECT fails asks for a credential it has; an  *)
(* esod listed twice is sent each credential twice.                        *)
(***************************************************************************)
THEOREM NoInsertRefused ==
  ASSUME PageIsRight, NobodyKilled, NothingFails, EachLocationOnce
  PROVE  Spec => []InsertsAccepted
  <1> DEFINE Inv == /\ IInv /\ QueryInv /\ PageInv /\ CredInv
                    /\ ServeInv /\ PageLeads /\ InsertInv
  <1>1. Init => Inv
    <2> SUFFICES ASSUME Init PROVE InsertInv
      BY InitIInv, InitQueries, InitPage, InitCreds, InitServing
    <2>1. /\ caJob.todo = <<>> /\ 1..Len(caJob.todo) = {}
          /\ \A s \in Servers : 1..Len(inbox[s]) = {}
      BY EmptySeq DEF Init, NetInit, CaInit, NoJob
    <2> QED BY <2>1 DEF Init, EsolInit, NoClient, InsertInv, SentOnce, Left, AsksForNew, Servers
  <1>2. Inv /\ [Next]_vars => Inv'
    BY Inductive, QueryStep, PageStep, CredStep, ServeStep, InsertStep
  <1>3. Inv => InsertsAccepted
    <2> SUFFICES ASSUME Inv PROVE InsertsAccepted
      OBVIOUS
    <2>1. ASSUME requests # <<>>
          PROVE  LET r == Head(requests)
                 IN  /\ r.type = "NEW_PERM" => caPerms[r.key] = NoRow
                     /\ r.type = "NEW_CRED" => caCreds[r.cred] = NoKey
      <3> DEFINE r == Head(requests)
      <3>1. CaTypeOK /\ r \in Requests
        BY <2>1, HeadTailProperties DEF IInv, CaInv, CaTypeOK
      <3>2. PICK after : Effect(r, viewSet, after)
        BY <2>1, <3>1, FirstEffect
      <3>3. /\ r.type = "NEW_PERM" => r.key \in Keys /\ r.key \notin viewPerms
            /\ r.type = "NEW_CRED" => r.cred \in CredIds /\ r.cred \notin viewCreds
        BY <3>1, <3>2 DEF Effect, viewSet, Requests, PermRequests, CredRequests
      <3> QED BY <3>3 DEF viewPerms, viewCreds
    <2>2. ASSUME NEW d \in Esods, NEW i \in Acceptable(d), inbox[d][i].type = "NEW_CRED"
          PROVE  dCreds[d][inbox[d][i].cred] = NoKey
      <3>1. d \in Servers /\ i \in 1..Len(inbox[d]) /\ inbox \in [Servers -> Seq(Messages)]
        BY DEF Servers, Acceptable, IInv, NetInv, NetTypeOK
      <3>2. inbox[d][i] \in CredPushes
        BY <2>2, <3>1, MessageFacts, ElementOfSeq
      <3>3. SentOnce(d, inbox[d][i].cred)
        BY <3>2 DEF InsertInv, CredPushes
      <3> QED BY <2>2, <3>1, <3>3 DEF SentOnce, SendsCred
    <2>3. ASSUME NEW h \in Hosts, pull[h].ans.kind = "cred"
          PROVE  hCreds[h][client[h].cred] = NoKey
      BY <2>3 DEF QueryInv, AnswerFits, InsertInv, AsksForNew
    <2> QED BY <2>1, <2>2, <2>3 DEF InsertsAccepted
  <1> HIDE DEF Inv
  <1> QED BY <1>1, <1>2, <1>3, PTL DEF Spec

-----------------------------------------------------------------------------
(***************************************************************************)
(* Catching up.  A cache that does not have the latest version of a key    *)
(* has it on its way, behind every older version on the same way: from     *)
(* esoca through the queue of an esod, what that esod forwards, and the    *)
(* queue of the key's host.                                                *)
(***************************************************************************)
Fresh(m, k, v) == m \in PermPushes /\ m.key = k /\ m.ver = v
Stale(m, k, v) == m \in PermPushes /\ m.key = k /\ m.ver # v

\* Version v of key k waits in queue q behind place n.
Later(q, n, k, v) == \E j \in 1..Len(q) : j > n /\ Fresh(q[j], k, v)

\* It is on its way to esod d, behind place n of d's queue.
OnWay(d, n, k, v) == (Left(d) /\ Fresh(caJob.msg, k, v)) \/ Later(inbox[d], n, k, v)

\* It is on its way to the queue of the host of k.
HostOnWay(k, v) == \E d \in Esods : Fresh(dJob[d], k, v) \/ OnWay(d, 0, k, v)

EsodCatchesUp(d, k, v) ==
    /\ dApplied[d][k] # v => OnWay(d, 0, k, v)
    /\ Stale(dJob[d], k, v) => OnWay(d, 0, k, v)
    /\ \A i \in 1..Len(inbox[d]) : Stale(inbox[d][i], k, v) => OnWay(d, i, k, v)

HostCatchesUp(k, v) ==
    /\ hApplied[k.loc][k] # v => HostOnWay(k, v) \/ Later(inbox[k.loc], 0, k, v)
    /\ \A i \in 1..Len(inbox[k.loc]) : Stale(inbox[k.loc][i], k, v) =>
           HostOnWay(k, v) \/ Later(inbox[k.loc], i, k, v)

KeyCatchesUp(k, v) ==
    /\ ~Stale(caJob.msg, k, v)
    /\ \A d \in Esods : EsodCatchesUp(d, k, v)
    /\ HostCatchesUp(k, v)

CatchUp ==
    \A k \in Keys : \A v \in Nat : v = Len(issued[k]) =>
        KeyCatchesUp(k, v) /\ Allows(caPerms[k]) = IssuedValue(k, v)

\* When the first connection is accepted, the others move up by one.
LEMMA LaterShifts ==
  ASSUME NEW q, NEW r, Len(q) \in Nat, Len(r) = Len(q) - 1, 1 \in 1..Len(q),
         \A j \in 1..Len(r) : r[j] = q[j + 1], NEW k, NEW v, NEW n \in Nat
  PROVE  /\ Later(q, n + 1, k, v) => Later(r, n, k, v)
         /\ Later(q, 0, k, v) => Later(r, 0, k, v) \/ Fresh(q[1], k, v)
  <1>1. ASSUME NEW j \in 1..Len(q), j > 1
        PROVE  j - 1 \in 1..Len(r) /\ q[j] = r[j - 1]
    <2>1. j - 1 \in 1..Len(r) /\ (j - 1) + 1 = j
      BY <1>1
    <2> QED BY <2>1
  <1>2. ASSUME Later(q, n + 1, k, v) PROVE Later(r, n, k, v)
    <2>1. PICK j \in 1..Len(q) : j > n + 1 /\ Fresh(q[j], k, v)
      BY <1>2 DEF Later
    <2>2. j > 1 /\ j - 1 > n
      BY <2>1
    <2> QED BY <1>1, <2>1, <2>2 DEF Later
  <1>3. ASSUME Later(q, 0, k, v), ~Fresh(q[1], k, v) PROVE Later(r, 0, k, v)
    <2>1. PICK j \in 1..Len(q) : j > 0 /\ Fresh(q[j], k, v)
      BY <1>3 DEF Later
    <2>2. j > 1 /\ j - 1 > 0
      BY <1>3, <2>1
    <2> QED BY <1>1, <2>1, <2>2 DEF Later
  <1> QED BY <1>2, <1>3

\* A connection that is made is behind all the others.
LEMMA LaterGrows ==
  ASSUME NEW q, NEW r, Len(q) \in Nat, Len(r) = Len(q) + 1,
         \A j \in 1..Len(q) : r[j] = q[j], NEW k, NEW v
  PROVE  /\ \A n : Later(q, n, k, v) => Later(r, n, k, v)
         /\ \A n \in 0..Len(q) : Fresh(r[Len(q) + 1], k, v) => Later(r, n, k, v)
  <1>1. \A j \in 1..Len(q) : j \in 1..Len(r)
    OBVIOUS
  <1>2. Len(q) + 1 \in 1..Len(r) /\ \A n \in 0..Len(q) : Len(q) + 1 > n
    OBVIOUS
  <1> QED BY <1>1, <1>2 DEF Later

\* What is on its way to one esod stays so when nothing happens on that way.
LEMMA OtherWays ==
  ASSUME NEW d, UNCHANGED caJob, inbox'[d] = inbox[d], NEW n, NEW k, NEW v
  PROVE  OnWay(d, n, k, v)' <=> OnWay(d, n, k, v)
  BY DEF OnWay, Left, Later, Fresh

(***************************************************************************)
(* An esod accepts a change, stores it and has it to forward; or it        *)
(* accepts something else.                                                 *)
(***************************************************************************)
LEMMA EsodTakes ==
  ASSUME Window = 1, NetTypeOK, EsodTypeOK, NEW d \in Esods, NEW i \in Acceptable(d),
         inbox' = Accepted(d, i), UNCHANGED <<caJob, hApplied>>, dJob[d] = Idle,
         \/ /\ inbox[d][i] \in PermPushes
            /\ dJob' = [dJob EXCEPT ![d] = inbox[d][i]]
            /\ dApplied' = [dApplied EXCEPT ![d][inbox[d][i].key] = inbox[d][i].ver]
         \/ inbox[d][i] \notin PermPushes /\ UNCHANGED <<dJob, dApplied>>,
         NEW k \in Keys, NEW v \in Nat, KeyCatchesUp(k, v)
  PROVE  KeyCatchesUp(k, v)'
  <1> DEFINE m == inbox[d][1]
  <1>1. /\ i = 1 /\ 1 \in 1..Len(inbox[d]) /\ Len(inbox[d]) \in Nat
        /\ Len(inbox'[d]) = Len(inbox[d]) - 1
        /\ \A j \in 1..Len(inbox'[d]) : j + 1 \in 1..Len(inbox[d]) /\ inbox'[d][j] = inbox[d][j + 1]
        /\ \A s \in Servers : s # d => inbox'[s] = inbox[s]
        /\ d \in Servers
    <2>1. d \in Servers
      BY DEF Servers
    <2> QED BY <2>1, AcceptFirst
  <1>2. /\ \/ /\ m \in PermPushes /\ dJob' = [dJob EXCEPT ![d] = m]
              /\ dApplied' = [dApplied EXCEPT ![d][m.key] = m.ver]
           \/ m \notin PermPushes /\ UNCHANGED <<dJob, dApplied>>
        /\ Idle \notin PermPushes /\ EsodCatchesUp(d, k, v)
    BY <1>1, TornFacts DEF Idle, KeyCatchesUp
  <1>3. /\ \A n \in Nat : OnWay(d, n + 1, k, v) => OnWay(d, n, k, v)'
        /\ OnWay(d, 0, k, v) => OnWay(d, 0, k, v)' \/ Fresh(m, k, v)
    <2>1. /\ \A n \in Nat : Later(inbox[d], n + 1, k, v) => Later(inbox'[d], n, k, v)
          /\ Later(inbox[d], 0, k, v) => Later(inbox'[d], 0, k, v) \/ Fresh(m, k, v)
      BY <1>1, LaterShifts
    <2> QED BY <2>1 DEF OnWay, Left, Later, Fresh
  <1>4. Stale(m, k, v) => OnWay(d, 0, k, v)'
    <2>1. Stale(m, k, v) => OnWay(d, 1, k, v)
      BY <1>1, <1>2 DEF EsodCatchesUp
    <2>2. 0 \in Nat /\ 0 + 1 = 1
      OBVIOUS
    <2> QED BY <1>3, <2>1, <2>2
  <1>5. /\ dApplied \in [Esods -> [AllKeys -> Nat]] /\ k \in AllKeys
        /\ dJob \in [Esods -> PermPushes \cup {Idle}]
    BY DEF EsodTypeOK, AllKeys
  <1>6. EsodCatchesUp(d, k, v)'
    <2>1. dApplied'[d][k] # v => OnWay(d, 0, k, v)'
      <3>1. CASE m \in PermPushes /\ m.key = k
        BY <1>2, <1>4, <1>5, <3>1 DEF Stale
      <3>2. CASE ~(m \in PermPushes /\ m.key = k)
        <4>1. dApplied'[d][k] = dApplied[d][k] /\ ~Fresh(m, k, v)
          BY <1>2, <1>5, <3>2 DEF Fresh
        <4> QED BY <1>2, <1>3, <4>1 DEF EsodCatchesUp
      <3> QED BY <3>1, <3>2
    <2>2. Stale(dJob'[d], k, v) => OnWay(d, 0, k, v)'
      BY <1>2, <1>4, <1>5 DEF Stale
    <2>3. ASSUME NEW j \in 1..Len(inbox'[d]), Stale(inbox'[d][j], k, v)
          PROVE  OnWay(d, j, k, v)'
      <3>1. OnWay(d, j + 1, k, v) /\ j \in Nat
        BY <1>1, <1>2, <2>3 DEF EsodCatchesUp
      <3> QED BY <1>3, <3>1
    <2> QED BY <2>1, <2>2, <2>3 DEF EsodCatchesUp, Stale
  <1>7. ASSUME NEW e \in Esods, e # d
        PROVE  /\ EsodCatchesUp(e, k, v)'
               /\ dJob'[e] = dJob[e] /\ (OnWay(e, 0, k, v)' <=> OnWay(e, 0, k, v))
    <2>1. inbox'[e] = inbox[e]
      BY <1>1, <1>7 DEF Servers
    <2>2. dJob'[e] = dJob[e] /\ dApplied'[e] = dApplied[e]
      BY <1>2, <1>5, <1>7
    <2>3. \A n : OnWay(e, n, k, v)' <=> OnWay(e, n, k, v)
      BY <2>1, OtherWays
    <2> QED BY <2>1, <2>2, <2>3 DEF KeyCatchesUp, EsodCatchesUp, Stale
  <1>8. HostOnWay(k, v) => HostOnWay(k, v)'
    <2>1. SUFFICES ASSUME NEW e \in Esods, Fresh(dJob[e], k, v) \/ OnWay(e, 0, k, v)
                   PROVE  HostOnWay(k, v)'
      BY DEF HostOnWay
    <2>2. CASE e # d
      BY <1>7, <2>1, <2>2 DEF HostOnWay, Fresh
    <2>3. CASE e = d
      <3>1. OnWay(d, 0, k, v)
        BY <1>2, <2>1, <2>3 DEF Fresh
      <3>2. Fresh(m, k, v) => Fresh(dJob'[d], k, v)
        BY <1>2, <1>5 DEF Fresh
      <3> QED BY <1>3, <3>1, <3>2 DEF HostOnWay, Fresh
    <2> QED BY <2>2, <2>3
  <1>9. HostCatchesUp(k, v)'
    <2>1. inbox'[k.loc] = inbox[k.loc] /\ hApplied' = hApplied
      BY <1>1, ProcsAssumption DEF Keys, Servers
    <2> QED BY <1>8, <2>1 DEF KeyCatchesUp, HostCatchesUp, Later, Fresh, Stale
  <1> QED BY <1>6, <1>7, <1>9 DEF KeyCatchesUp, Stale

(***************************************************************************)
(* An esod forwards a change to the esol it is for.                        *)
(***************************************************************************)
LEMMA EsodForwards ==
  ASSUME NetTypeOK, EsodTypeOK, NEW d \in Esods, EsodForward(d), UNCHANGED <<caJob, hApplied>>,
         NEW k \in Keys, NEW v \in Nat, KeyCatchesUp(k, v)
  PROVE  KeyCatchesUp(k, v)'
  <1> DEFINE m == dJob[d]
             s == m.key.loc
             h == k.loc
  <1>1. /\ inbox' = Queued(s, m) /\ s \in Servers /\ m \in PermPushes
        /\ dJob' = [dJob EXCEPT ![d] = Idle] /\ UNCHANGED dApplied
        /\ dJob \in [Esods -> PermPushes \cup {Idle}] /\ Idle \notin PermPushes
    BY TornFacts DEF EsodForward, HasRoom, EsodTypeOK, Idle
  <1>2. s \in Hosts /\ h \in Servers /\ \A e \in Esods : e \in Servers /\ e # s
    <2>1. m.key \in AllKeys
      BY <1>1 DEF PermPushes
    <2> QED BY <1>1, <2>1, ProcsAssumption DEF AllKeys, Keys, EmptyKey, Servers, Procs
  <1>3. m \in Messages
    BY <1>1 DEF Messages, Pushes
  <1>4. /\ Len(inbox[s]) \in Nat /\ Len(inbox'[s]) = Len(inbox[s]) + 1
        /\ inbox'[s][Len(inbox[s]) + 1] = m
        /\ \A j \in 1..Len(inbox[s]) : inbox'[s][j] = inbox[s][j]
        /\ \A r \in Servers : r # s => inbox'[r] = inbox[r]
    <2> HIDE DEF m, s
    <2> QED BY <1>1, <1>3, QueueLast
  <1>5. \A e \in Esods : inbox'[e] = inbox[e] /\ \A n : OnWay(e, n, k, v)' <=> OnWay(e, n, k, v)
    BY <1>2, <1>4, OtherWays
  <1>6. ASSUME NEW e \in Esods PROVE EsodCatchesUp(e, k, v)'
    <2>1. Stale(dJob'[e], k, v) => Stale(dJob[e], k, v)
      BY <1>1 DEF Stale
    <2> QED BY <1>1, <1>5, <2>1 DEF KeyCatchesUp, EsodCatchesUp, Stale
  <1>7. HostOnWay(k, v) => HostOnWay(k, v)' \/ Fresh(m, k, v)
    <2>1. SUFFICES ASSUME NEW e \in Esods, Fresh(dJob[e], k, v) \/ OnWay(e, 0, k, v),
                          ~Fresh(m, k, v)
                   PROVE  HostOnWay(k, v)'
      BY DEF HostOnWay
    <2>2. Fresh(dJob[e], k, v) => dJob'[e] = dJob[e]
      BY <1>1, <2>1
    <2> QED BY <1>5, <2>1, <2>2 DEF HostOnWay, Fresh
  <1>8. Stale(m, k, v) => HostOnWay(k, v)'
    BY <1>5 DEF KeyCatchesUp, EsodCatchesUp, HostOnWay
  <1> HIDE DEF m
  <1>9. HostCatchesUp(k, v)'
    <2>1. CASE s # h
      <3>1. inbox'[h] = inbox[h] /\ ~Fresh(m, k, v)
        BY <1>2, <1>4, <2>1 DEF Fresh
      <3> QED BY <1>7, <3>1 DEF KeyCatchesUp, HostCatchesUp, Later, Fresh, Stale
    <2>2. CASE s = h
      <3>1. /\ \A n : Later(inbox[h], n, k, v) => Later(inbox'[h], n, k, v)
            /\ \A n \in 0..Len(inbox[h]) : Fresh(m, k, v) => Later(inbox'[h], n, k, v)
        <4>1. /\ Len(inbox[h]) \in Nat /\ Len(inbox'[h]) = Len(inbox[h]) + 1
              /\ inbox'[h][Len(inbox[h]) + 1] = m
              /\ \A j \in 1..Len(inbox[h]) : inbox'[h][j] = inbox[h][j]
          BY <1>4, <2>2
        <4> HIDE DEF h
        <4> QED BY <4>1, LaterGrows
      <3>2. \A n \in 0..Len(inbox[h]) : HostOnWay(k, v) \/ Later(inbox[h], n, k, v) =>
                HostOnWay(k, v)' \/ Later(inbox'[h], n, k, v)
        BY <1>7, <3>1
      <3>3. 0 \in 0..Len(inbox[h]) /\ \A i \in 1..Len(inbox[h]) : i \in 0..Len(inbox[h])
        BY <1>4, <2>2
      <3>4. hApplied'[h][k] # v => HostOnWay(k, v)' \/ Later(inbox'[h], 0, k, v)
        BY <3>2, <3>3 DEF KeyCatchesUp, HostCatchesUp
      <3>5. ASSUME NEW i \in 1..Len(inbox'[h]), Stale(inbox'[h][i], k, v)
            PROVE  HostOnWay(k, v)' \/ Later(inbox'[h], i, k, v)
        <4>1. CASE i = Len(inbox[h]) + 1
          BY <1>4, <1>8, <2>2, <3>5, <4>1
        <4>2. CASE i # Len(inbox[h]) + 1
          <5>1. i \in 1..Len(inbox[h]) /\ Stale(inbox[h][i], k, v)
            BY <1>4, <2>2, <3>5, <4>2
          <5> QED BY <3>2, <3>3, <5>1 DEF KeyCatchesUp, HostCatchesUp
        <4> QED BY <4>1, <4>2
      <3> QED BY <3>4, <3>5 DEF HostCatchesUp, Later, Fresh, Stale
    <2> QED BY <2>1, <2>2
  <1> QED BY <1>6, <1>9 DEF KeyCatchesUp, Stale

(***************************************************************************)
(* An esol accepts a change and stores it, or accepts something else.      *)
(***************************************************************************)
LEMMA EsolTakes ==
  ASSUME Window = 1, NetTypeOK, EsolTypeOK, NEW h \in Hosts, NEW i \in Acceptable(h),
         inbox' = Accepted(h, i), UNCHANGED <<caJob, dJob, dApplied>>,
         \/ /\ inbox[h][i] \in PermPushes
            /\ hApplied' = [hApplied EXCEPT ![h][inbox[h][i].key] = inbox[h][i].ver]
         \/ inbox[h][i] \notin PermPushes /\ UNCHANGED hApplied,
         NEW k \in Keys, NEW v \in Nat, KeyCatchesUp(k, v)
  PROVE  KeyCatchesUp(k, v)'
  <1> DEFINE m == inbox[h][1]
  <1>1. /\ i = 1 /\ 1 \in 1..Len(inbox[h]) /\ Len(inbox[h]) \in Nat
        /\ Len(inbox'[h]) = Len(inbox[h]) - 1
        /\ \A j \in 1..Len(inbox'[h]) : j + 1 \in 1..Len(inbox[h]) /\ inbox'[h][j] = inbox[h][j + 1]
        /\ \A s \in Servers : s # h => inbox'[s] = inbox[s]
    <2>1. h \in Servers
      BY DEF Servers
    <2> QED BY <2>1, AcceptFirst
  <1>2. /\ \/ m \in PermPushes /\ hApplied' = [hApplied EXCEPT ![h][m.key] = m.ver]
           \/ m \notin PermPushes /\ UNCHANGED hApplied
        /\ HostCatchesUp(k, v)
    BY <1>1 DEF KeyCatchesUp
  <1>3. \A d \in Esods : inbox'[d] = inbox[d] /\ \A n : OnWay(d, n, k, v)' <=> OnWay(d, n, k, v)
    <2>1. \A d \in Esods : d \in Servers /\ d # h
      BY ProcsAssumption DEF Servers
    <2> QED BY <1>1, <2>1, OtherWays
  <1>4. \A d \in Esods : EsodCatchesUp(d, k, v)'
    BY <1>3 DEF KeyCatchesUp, EsodCatchesUp, Stale
  <1>5. HostOnWay(k, v) => HostOnWay(k, v)'
    BY <1>3 DEF HostOnWay, Fresh
  <1>6. HostCatchesUp(k, v)'
    <2>1. CASE k.loc # h
      <3>1. inbox'[k.loc] = inbox[k.loc] /\ hApplied'[k.loc] = hApplied[k.loc]
        BY <1>1, <1>2, <2>1 DEF Keys, Servers, EsolTypeOK
      <3> QED BY <1>2, <1>5, <3>1 DEF HostCatchesUp, Later, Fresh, Stale
    <2>2. CASE k.loc = h
      <3>1. /\ \A n \in Nat : Later(inbox[h], n + 1, k, v) => Later(inbox'[h], n, k, v)
            /\ Later(inbox[h], 0, k, v) => Later(inbox'[h], 0, k, v) \/ Fresh(m, k, v)
        BY <1>1, LaterShifts
      <3>2. hApplied'[h][k] # v => HostOnWay(k, v)' \/ Later(inbox'[h], 0, k, v)
        <4>1. k \in AllKeys /\ hApplied \in [Hosts -> [AllKeys -> Nat]]
          BY DEF AllKeys, EsolTypeOK
        <4>2. CASE m \in PermPushes /\ m.key = k
          <5>1. hApplied'[h][k] # v => Stale(m, k, v)
            BY <1>2, <4>1, <4>2 DEF Stale
          <5>2. Stale(m, k, v) => HostOnWay(k, v) \/ Later(inbox[h], 1, k, v)
            BY <1>1, <1>2, <2>2 DEF HostCatchesUp
          <5>3. Later(inbox[h], 1, k, v) => Later(inbox'[h], 0, k, v)
            <6>1. 0 \in Nat /\ 0 + 1 = 1
              OBVIOUS
            <6> QED BY <3>1, <6>1
          <5> QED BY <1>5, <5>1, <5>2, <5>3
        <4>3. CASE ~(m \in PermPushes /\ m.key = k)
          <5>1. hApplied'[h][k] = hApplied[h][k] /\ ~Fresh(m, k, v)
            BY <1>2, <4>1, <4>3 DEF Fresh
          <5> QED BY <1>2, <1>5, <2>2, <3>1, <5>1 DEF HostCatchesUp
        <4> QED BY <4>2, <4>3
      <3>3. ASSUME NEW j \in 1..Len(inbox'[h]), Stale(inbox'[h][j], k, v)
            PROVE  HostOnWay(k, v)' \/ Later(inbox'[h], j, k, v)
        <4>1. j + 1 \in 1..Len(inbox[h]) /\ Stale(inbox[h][j + 1], k, v) /\ j \in Nat
          BY <1>1, <3>3
        <4>2. HostOnWay(k, v) \/ Later(inbox[h], j + 1, k, v)
          BY <1>2, <2>2, <4>1 DEF HostCatchesUp
        <4> QED BY <1>5, <3>1, <4>1, <4>2
      <3> QED BY <2>2, <3>2, <3>3 DEF HostCatchesUp, Later, Fresh, Stale
    <2> QED BY <2>1, <2>2
  <1> QED BY <1>4, <1>6 DEF KeyCatchesUp, Stale

(***************************************************************************)
(* esoca sends a change to the next location.                              *)
(***************************************************************************)
LEMMA CaSends ==
  ASSUME NetTypeOK, CaTypeOK, CaSend, UNCHANGED <<dJob, dApplied, hApplied>>,
         NEW k \in Keys, NEW v \in Nat, KeyCatchesUp(k, v)
  PROVE  KeyCatchesUp(k, v)'
  <1> DEFINE s == Head(caJob.todo)
             m == caJob.msg
  <1>1. caJob.todo \in Seq(Esods) /\ caJob.todo # <<>> /\ m \in Messages
    BY DEF CaSend, CaIdle, CaTypeOK, Messages
  <1>2. /\ s \in Servers /\ inbox' = Queued(s, m)
        /\ caJob' = IF Len(caJob.todo) = 1 THEN NoJob ELSE [caJob EXCEPT !.todo = Tail(@)]
        /\ caJob \in [msg : Pushes \cup {Torn}, todo : Seq(Esods)]
    BY DEF CaSend, HasRoom, CaTypeOK
  <1>3. /\ Len(caJob.todo) \in Nat /\ s \in Esods /\ caJob.todo[1] = s
        /\ Len(Tail(caJob.todo)) = Len(caJob.todo) - 1
        /\ \A i \in 1..(Len(caJob.todo) - 1) : Tail(caJob.todo)[i] = caJob.todo[i + 1]
    BY <1>1, EmptySeq, LenProperties, HeadTailProperties
  <1>4. ASSUME NEW d, Left(d), d # s
        PROVE  Left(d)' /\ caJob'.msg = m
    <2>1. PICK i \in 1..Len(caJob.todo) : caJob.todo[i] = d
      BY <1>4 DEF Left
    <2>2. i - 1 \in 1..(Len(caJob.todo) - 1) /\ (i - 1) + 1 = i /\ Len(caJob.todo) # 1
      BY <1>3, <1>4, <2>1
    <2>3. caJob'.todo = Tail(caJob.todo) /\ caJob'.msg = m
      BY <1>2, <2>2
    <2> QED BY <1>3, <2>1, <2>2, <2>3 DEF Left
  <1>5. /\ Len(inbox[s]) \in Nat /\ Len(inbox'[s]) = Len(inbox[s]) + 1
        /\ inbox'[s][Len(inbox[s]) + 1] = m
        /\ \A j \in 1..Len(inbox[s]) : inbox'[s][j] = inbox[s][j]
        /\ \A r \in Servers : r # s => inbox'[r] = inbox[r]
    <2> HIDE DEF s, m
    <2> QED BY <1>1, <1>2, <1>3, QueueLast
  <1>6. ~Stale(m, k, v) /\ ~Stale(caJob'.msg, k, v)
    BY <1>2, TornFacts DEF KeyCatchesUp, Stale, NoJob
  <1>7. \A d \in Esods : d \in Servers
    BY DEF Servers
  <1> HIDE DEF s, m
  <1>8. ASSUME NEW d \in Esods, NEW n \in 0..Len(inbox[d]), OnWay(d, n, k, v)
        PROVE  OnWay(d, n, k, v)'
    <2>1. CASE d = s
      <3>1. \/ Later(inbox[s], n, k, v)
            \/ Fresh(m, k, v)
        BY <1>8, <2>1 DEF OnWay, m
      <3>2. Later(inbox'[s], n, k, v)
        BY <1>5, <1>8, <2>1, <3>1, LaterGrows
      <3> QED BY <2>1, <3>2 DEF OnWay, Later, Fresh
    <2>2. CASE d # s
      <3>1. inbox'[d] = inbox[d]
        BY <1>5, <1>7, <2>2
      <3> QED BY <1>4, <1>8, <2>2, <3>1 DEF OnWay, Later, Fresh, m
    <2> QED BY <2>1, <2>2
  <1>9. ASSUME NEW d \in Esods
        PROVE  /\ EsodCatchesUp(d, k, v)'
               /\ OnWay(d, 0, k, v) => OnWay(d, 0, k, v)'
    <2>1. Len(inbox[d]) \in Nat
      BY <1>7, LenProperties DEF NetTypeOK
    <2>2. OnWay(d, 0, k, v) => OnWay(d, 0, k, v)'
      BY <1>8, <2>1
    <2>3. ASSUME NEW i \in 1..Len(inbox'[d]), Stale(inbox'[d][i], k, v)
          PROVE  OnWay(d, i, k, v)'
      <3>1. i \in 1..Len(inbox[d]) /\ inbox'[d][i] = inbox[d][i]
        <4>1. CASE d = s
          <5>1. i # Len(inbox[s]) + 1
            BY <1>5, <1>6, <2>3, <4>1
          <5> QED BY <1>5, <2>3, <4>1, <5>1
        <4>2. CASE d # s
          BY <1>5, <1>7, <2>3, <4>2
        <4> QED BY <4>1, <4>2
      <3>2. OnWay(d, i, k, v) /\ i \in 0..Len(inbox[d])
        BY <2>1, <2>3, <3>1 DEF KeyCatchesUp, EsodCatchesUp
      <3> QED BY <1>8, <3>2
    <2> QED BY <2>2, <2>3 DEF KeyCatchesUp, EsodCatchesUp, Stale
  <1>10. HostOnWay(k, v) => HostOnWay(k, v)'
    BY <1>9 DEF HostOnWay, Fresh
  <1>11. HostCatchesUp(k, v)'
    <2>1. inbox'[k.loc] = inbox[k.loc]
      BY <1>3, <1>5, ProcsAssumption DEF Keys, Servers
    <2> QED BY <1>10, <2>1 DEF KeyCatchesUp, HostCatchesUp, Later, Fresh, Stale
  <1> QED BY <1>6, <1>9, <1>11 DEF KeyCatchesUp, Stale

\* A query is on no way that matters.
LEMMA OthersQueue ==
  ASSUME NetTypeOK, UNCHANGED <<caJob, dJob, dApplied, hApplied>>,
         \/ UNCHANGED inbox
         \/ \E s \in Servers : \E m \in Messages : m \notin PermPushes /\ inbox' = Queued(s, m),
         NEW k \in Keys, NEW v \in Nat, KeyCatchesUp(k, v)
  PROVE  KeyCatchesUp(k, v)'
  <1>1. CASE UNCHANGED inbox
    BY <1>1 DEF KeyCatchesUp, EsodCatchesUp, HostCatchesUp, HostOnWay, OnWay, Left, Later, Fresh, Stale
  <1>2. ASSUME NEW s \in Servers, NEW m \in Messages, m \notin PermPushes, inbox' = Queued(s, m)
        PROVE  KeyCatchesUp(k, v)'
    <2>1. /\ Len(inbox[s]) \in Nat /\ Len(inbox'[s]) = Len(inbox[s]) + 1
          /\ inbox'[s][Len(inbox[s]) + 1] = m
          /\ \A j \in 1..Len(inbox[s]) : inbox'[s][j] = inbox[s][j]
          /\ \A r \in Servers : r # s => inbox'[r] = inbox[r]
      BY <1>2, QueueLast
    <2>2. ASSUME NEW r \in Servers
          PROVE  /\ \A n : Later(inbox[r], n, k, v) => Later(inbox'[r], n, k, v)
                 /\ \A i \in 1..Len(inbox'[r]) : Stale(inbox'[r][i], k, v) =>
                        i \in 1..Len(inbox[r]) /\ Stale(inbox[r][i], k, v)
      <3>1. CASE r = s
        <4>1. \A n : Later(inbox[s], n, k, v) => Later(inbox'[s], n, k, v)
          BY <2>1, LaterGrows
        <4>2. \A i \in 1..Len(inbox'[s]) : \/ i \in 1..Len(inbox[s]) /\ inbox'[s][i] = inbox[s][i]
                                           \/ inbox'[s][i] = m
          BY <2>1
        <4> QED BY <1>2, <3>1, <4>1, <4>2 DEF Stale
      <3>2. CASE r # s
        BY <2>1, <3>2
      <3> QED BY <3>1, <3>2
    <2>3. \A d \in Esods : \A n : OnWay(d, n, k, v) => OnWay(d, n, k, v)'
      BY <2>2 DEF OnWay, Left, Later, Fresh, Servers
    <2>4. \A d \in Esods : EsodCatchesUp(d, k, v)'
      BY <2>2, <2>3 DEF KeyCatchesUp, EsodCatchesUp, Stale, Servers
    <2>5. HostOnWay(k, v) => HostOnWay(k, v)'
      BY <2>3 DEF HostOnWay, Fresh
    <2>6. HostCatchesUp(k, v)'
      <3>1. k.loc \in Servers
        BY DEF Keys, Servers
      <3> QED BY <2>2, <2>5, <3>1 DEF KeyCatchesUp, HostCatchesUp, Later, Fresh, Stale
    <2> QED BY <2>4, <2>6 DEF KeyCatchesUp, Stale
  <1> QED BY <1>1, <1>2

(***************************************************************************)
(* What esoca issues for a key is what its own table then allows, and it   *)
(* is sent to every location: with a database that does not fail, and a    *)
(* row where the page has the permission that is changed.                  *)
(***************************************************************************)
LEMMA HandleIssues ==
  ASSUME PageIsRight, IInv, PageLeads, CaHandle
  PROVE  /\ CaIdle /\ caJob'.todo = Locations
         /\ \/ UNCHANGED <<issued, caPerms>> /\ caJob'.msg \notin PermPushes
            \/ \E k \in Keys, op \in Masks :
                  /\ issued' = [issued EXCEPT ![k] = Append(@, op)]
                  /\ Fresh(caJob'.msg, k, Len(issued[k]) + 1)
                  /\ Allows(caPerms'[k]) = op
                  /\ \A j \in Keys : j # k => caPerms'[j] = caPerms[j]
  <1>1. PICK r \in Requests :
            CaNewPerm(r) \/ CaUpdatePerm(r) \/ CaDeletePerm(r) \/ CaNewCred(r)
    BY DEF CaHandle
  <1>2. /\ CaIdle /\ r = Head(requests) /\ requests # <<>> /\ caJob'.todo = Locations
        /\ CaTypeOK /\ Ca \notin Failing /\ caPerms \in [AllKeys -> Rows]
    BY <1>1 DEF CaNewPerm, CaUpdatePerm, CaDeletePerm, CaNewCred, Accept, IssuePerm, Propagate,
       IInv, CaInv, CaTypeOK, PageIsRight
  <1>3. PICK after : Effect(r, viewSet, after)
    BY <1>2, FirstEffect
  <1>4. \A k \in Keys : k \in viewSet <=> caPerms[k] # NoRow
    BY PageAssumption DEF viewSet, viewPerms, viewCreds
  <1> DEFINE k == r.key
             op == r.op
  <1>5. /\ r.type = "NEW_PERM" => k \in Keys /\ op \in Masks /\ caPerms[k] = NoRow
        /\ r.type = "UPDATE_PERM" => k \in Keys /\ op \in Masks /\ caPerms[k] # NoRow
        /\ r.type = "DELETE_PERM" => k \in Keys
    BY <1>3, <1>4 DEF Effect, Requests, PermRequests, CredRequests
  <1>6. \A j \in Keys : j \in AllKeys
    BY DEF AllKeys
  <1>7. {} \in Masks /\ \A j \in Keys : Len(issued[j]) + 1 \in Nat
    <2>1. \A j \in Keys : Len(issued[j]) \in Nat
      BY <1>2, <1>6, LenProperties DEF CaTypeOK
    <2> QED BY <2>1 DEF Masks
  <1> HIDE DEF k, op
  <1>8. ASSUME NEW type \in {"UPDATE_PERM", "DELETE_PERM"}, NEW m \in Masks, k \in Keys,
               IssuePerm(type, k, m)
        PROVE  /\ issued' = [issued EXCEPT ![k] = Append(@, m)]
               /\ Fresh(caJob'.msg, k, Len(issued[k]) + 1)
    <2> DEFINE push == [type |-> type, key |-> k, op |-> m, ver |-> Len(issued[k]) + 1]
    <2>1. issued' = [issued EXCEPT ![k] = Append(@, m)] /\ caJob'.msg = push
      BY <1>8 DEF IssuePerm, Propagate
    <2>2. push \in PermPushes
      BY <1>6, <1>7, <1>8 DEF PermPushes
    <2> QED BY <2>1, <2>2 DEF Fresh
  <1>9. CASE CaNewPerm(r)
    <2>1. /\ k \in Keys /\ op \in Masks /\ IssuePerm("UPDATE_PERM", k, op)
          /\ caPerms' = create_permission(caPerms, k, op) /\ caPerms[k] = NoRow
      BY <1>2, <1>5, <1>9 DEF CaNewPerm, perform_query, k, op
    <2>2. /\ Allows(caPerms'[k]) = op
          /\ \A j \in Keys : j # k => caPerms'[j] = caPerms[j]
      BY <1>2, <1>6, <2>1, RowFacts DEF create_permission
    <2> QED BY <1>2, <1>8, <2>1, <2>2
  <1>10. CASE CaUpdatePerm(r)
    <2>1. /\ k \in Keys /\ op \in Masks
          /\ caPerms' = update_permission(caPerms, k, op) /\ caPerms[k] # NoRow
          /\ IssuePerm("UPDATE_PERM", get_permission(caPerms', k).key, get_permission(caPerms', k).op)
      BY <1>2, <1>5, <1>10 DEF CaUpdatePerm, perform_query, get_result, k, op
    <2>2. /\ Allows(caPerms'[k]) = op /\ caPerms'[k] # NoRow
          /\ \A j \in Keys : j # k => caPerms'[j] = caPerms[j]
      BY <1>2, <1>6, <2>1, RowFacts DEF update_permission
    <2>3. IssuePerm("UPDATE_PERM", k, op)
      BY <2>1, <2>2 DEF get_permission
    <2> QED BY <1>2, <1>8, <2>1, <2>2, <2>3
  <1>11. CASE CaDeletePerm(r)
    <2>1. /\ k \in Keys /\ caPerms' = delete_permission(caPerms, k)
          /\ IssuePerm("DELETE_PERM", k, {})
      BY <1>2, <1>5, <1>11 DEF CaDeletePerm, perform_query, k
    <2>2. /\ Allows(caPerms'[k]) = {}
          /\ \A j \in Keys : j # k => caPerms'[j] = caPerms[j]
      BY <1>2, <1>6, <2>1, RowFacts DEF delete_permission
    <2> QED BY <1>2, <1>7, <1>8, <2>1, <2>2
  <1>12. CASE CaNewCred(r)
    BY <1>2, <1>12 DEF CaNewCred, Propagate, PermPushes
  <1> QED BY <1>1, <1>9, <1>10, <1>11, <1>12

(***************************************************************************)
(* A change that esoca issues is on its way to every esod, and so to its   *)
(* host; what was on its way for another key still is.                     *)
(***************************************************************************)
LEMMA CaHandles ==
  ASSUME PageIsRight, Locations # <<>>, IInv, PageLeads, CatchUp, CaHandle,
         UNCHANGED <<inbox, dJob, dApplied, hApplied>>
  PROVE  CatchUp'
  <1>1. CaIdle /\ caJob'.todo = Locations /\ CaTypeOK
    BY HandleIssues DEF IInv, CaInv
  <1>2. \A d : ~Left(d)
    BY <1>1, EmptySeq DEF CaIdle, Left
  <1>3. \A d \in Esods : Left(d)'
    BY <1>1 DEF Left, Esods
  <1>4. \A k \in Keys : k \in AllKeys /\ Len(issued[k]) \in Nat
    BY <1>1, LenProperties DEF AllKeys, CaTypeOK
  <1>5. ASSUME NEW k \in Keys, issued'[k] = issued[k], caPerms'[k] = caPerms[k],
               NEW v \in Nat, v = Len(issued[k]), ~Stale(caJob'.msg, k, v)
        PROVE  KeyCatchesUp(k, v)' /\ Allows(caPerms'[k]) = IssuedValue(k, v)'
    <2>1. KeyCatchesUp(k, v) /\ Allows(caPerms[k]) = IssuedValue(k, v)
      BY <1>5 DEF CatchUp
    <2>2. \A d, n : OnWay(d, n, k, v) => OnWay(d, n, k, v)'
      BY <1>2 DEF OnWay, Later, Fresh
    <2>3. HostOnWay(k, v) => HostOnWay(k, v)'
      BY <2>2 DEF HostOnWay, Fresh
    <2>4. KeyCatchesUp(k, v)'
      BY <1>5, <2>1, <2>2, <2>3 DEF KeyCatchesUp, EsodCatchesUp, HostCatchesUp, Later, Fresh, Stale
    <2> QED BY <1>5, <2>1, <2>4 DEF IssuedValue
  <1>6. CASE UNCHANGED <<issued, caPerms>> /\ caJob'.msg \notin PermPushes
    <2>1. \A k, v : ~Stale(caJob'.msg, k, v)
      BY <1>6 DEF Stale
    <2> QED BY <1>4, <1>5, <1>6, <2>1 DEF CatchUp
  <1>7. ASSUME NEW k \in Keys, NEW op \in Masks, issued' = [issued EXCEPT ![k] = Append(@, op)],
               Fresh(caJob'.msg, k, Len(issued[k]) + 1), Allows(caPerms'[k]) = op,
               \A j \in Keys : j # k => caPerms'[j] = caPerms[j]
        PROVE  CatchUp'
    <2>1. SUFFICES ASSUME NEW j \in Keys, NEW v \in Nat, v = Len(issued'[j])
                   PROVE  KeyCatchesUp(j, v)' /\ Allows(caPerms'[j]) = IssuedValue(j, v)'
      BY DEF CatchUp
    <2>2. CASE j # k
      <3>1. issued'[j] = issued[j]
        BY <1>1, <1>4, <1>7, <2>2 DEF CaTypeOK
      <3>2. ~Stale(caJob'.msg, j, v)
        BY <1>7, <2>2 DEF Fresh, Stale
      <3> QED BY <1>5, <1>7, <2>1, <2>2, <3>1, <3>2
    <2>3. CASE j = k
      <3>1. /\ issued'[k][Len(issued[k]) + 1] = op
            /\ Len(issued'[k]) = Len(issued[k]) + 1
        <4>1. issued[k] \in Seq(Masks) /\ issued'[k] = Append(issued[k], op)
          BY <1>1, <1>4, <1>7 DEF CaTypeOK
        <4> QED BY <4>1, AppendProperties
      <3>2. v = Len(issued[k]) + 1 /\ v # 0
        BY <1>4, <2>1, <2>3, <3>1
      <3>3. Fresh(caJob'.msg, k, v) /\ ~Stale(caJob'.msg, k, v)
        BY <1>7, <3>2 DEF Fresh, Stale
      <3>4. \A d \in Esods : \A n : OnWay(d, n, k, v)'
        BY <1>3, <3>3 DEF OnWay, Fresh
      <3>5. HostOnWay(k, v)'
        <4>1. Locations[1] \in Esods
          BY LocationsAssumption, EmptySeq, LenProperties DEF Esods
        <4> QED BY <3>4, <4>1 DEF HostOnWay
      <3>6. KeyCatchesUp(k, v)'
        BY <3>3, <3>4, <3>5 DEF KeyCatchesUp, EsodCatchesUp, HostCatchesUp, Stale
      <3>7. Allows(caPerms'[k]) = IssuedValue(k, v)'
        BY <1>7, <3>1, <3>2 DEF IssuedValue
      <3> QED BY <2>3, <3>6, <3>7
    <2> QED BY <2>2, <2>3
  <1> QED BY <1>6, <1>7, HandleIssues

\* Every step; none of a daemon's ending, as all serve in the end.
LEMMA CatchUpStep ==
  ASSUME PageIsRight, NobodyKilled, NothingFails, Window = 1, Locations # <<>>,
         IInv, ServeInv, PageLeads, CatchUp, [Next]_vars
  PROVE  CatchUp'
  <1>1. ServeInv' /\ NetTypeOK /\ CaTypeOK /\ EsodTypeOK /\ EsolTypeOK /\ EsolInv
    BY ServeStep DEF IInv, NetInv, CaInv, EsodInv, EsolInv
  <1>2. ASSUME UNCHANGED <<issued, caPerms>>,
               \A k \in Keys, v \in Nat : KeyCatchesUp(k, v) => KeyCatchesUp(k, v)'
        PROVE  CatchUp'
    BY <1>2 DEF CatchUp, IssuedValue
  <1>3. \A s \in Servers : \A i \in Acceptable(s) : inbox[s][i] \in Messages
    BY <1>1, ElementOfSeq DEF NetTypeOK, Acceptable
  <1>4. CASE EsocaStep
    <2>1. UNCHANGED <<dJob, dApplied, hApplied>> /\ CaNext
      BY <1>4 DEF EsocaStep, esodVars, esolVars
    <2>2. CASE CaHandle
      BY <2>1, <2>2, CaHandles, HandleSound DEF net
    <2>3. CASE CaSend
      <3>1. UNCHANGED <<issued, caPerms>>
        BY <2>3 DEF CaSend
      <3> QED BY <1>1, <1>2, <2>1, <2>3, <3>1, CaSends
    <2>4. CASE CaExit \/ CaDies
      BY <1>1, <2>4 DEF CaExit, CaDies, CaDown, CaEnds, Down, ServeInv, AllServing, NetTypeOK, Procs
    <2> QED BY <2>1, <2>2, <2>3, <2>4 DEF CaNext
  <1>5. ASSUME NEW d \in Esods, EsodStep(d) PROVE CatchUp'
    <2>1. /\ UNCHANGED <<caJob, issued, caPerms, hApplied>> /\ EsodNext(d) /\ d \in Servers
      BY <1>5 DEF EsodStep, caVars, esolVars, Servers
    <2>2. ASSUME NEW i, EsodUpdatePerm(d, i) \/ EsodDeletePerm(d, i) PROVE CatchUp'
      <3> DEFINE m == inbox[d][i]
      <3>1. /\ i \in Acceptable(d) /\ inbox' = Accepted(d, i) /\ dJob[d] = Idle
            /\ m.type \in {"UPDATE_PERM", "DELETE_PERM"}
            /\ dJob' = [dJob EXCEPT ![d] = m] /\ dApplied' = [dApplied EXCEPT ![d][m.key] = m.ver]
        BY <2>2 DEF EsodUpdatePerm, EsodDeletePerm, EsodAccept, EsodStore, Forward,
           NothingFails
      <3>2. m \in PermPushes
        BY <1>3, <2>1, <3>1, MessageFacts
      <3> QED BY <1>1, <1>2, <2>1, <3>1, <3>2, EsodTakes
    <2>3. ASSUME NEW i, EsodNewCred(d, i) \/ EsodGetPerm(d, i) \/ EsodGetCred(d, i) \/ EsodSpin(d, i)
          PROVE  CatchUp'
      <3> DEFINE m == inbox[d][i]
      <3>1. /\ i \in Acceptable(d) /\ inbox' = Accepted(d, i) /\ dJob[d] = Idle
            /\ m.type \notin {"UPDATE_PERM", "DELETE_PERM"} /\ UNCHANGED <<dJob, dApplied>>
        BY <2>3 DEF EsodNewCred, EsodGetPerm, EsodGetCred, EsodSpin, EsodAccept, Spin, Torn, esodVars
      <3>2. m \notin PermPushes
        BY <1>3, <2>1, <3>1, MessageFacts
      <3> QED BY <1>1, <1>2, <2>1, <3>1, <3>2, EsodTakes
    <2>4. CASE EsodForward(d)
      BY <1>1, <1>2, <2>1, <2>4, EsodForwards
    <2>5. CASE EsodExit(d)
      BY <1>1, <2>1, <2>5 DEF EsodExit, EsodDown, Down, ServeInv, AllServing, NetTypeOK, Procs
    <2> QED BY <2>1, <2>2, <2>3, <2>4, <2>5 DEF EsodNext, EsodHandle
  <1>6. ASSUME NEW h \in Hosts, EsolStep(h) PROVE CatchUp'
    <2>1. /\ UNCHANGED <<caJob, issued, caPerms, dJob, dApplied>> /\ EsolNext(h) /\ h \in Servers
      BY <1>6 DEF EsolStep, caVars, esodVars, Servers
    <2>2. ASSUME NEW i, EsolUpdatePerm(h, i) \/ EsolDeletePerm(h, i) PROVE CatchUp'
      <3> DEFINE m == inbox[h][i]
      <3>1. /\ i \in Acceptable(h) /\ inbox' = Accepted(h, i)
            /\ m.type \in {"UPDATE_PERM", "DELETE_PERM"}
            /\ hApplied' = [hApplied EXCEPT ![h][m.key] = m.ver]
        BY <2>2 DEF EsolUpdatePerm, EsolDeletePerm, EsolAccept, EsolStore, NothingFails
      <3>2. m \in PermPushes
        BY <1>3, <2>1, <3>1, MessageFacts
      <3> QED BY <1>1, <1>2, <2>1, <3>1, <3>2, EsolTakes
    <2>3. ASSUME NEW i, EsolSpin(h, i) PROVE CatchUp'
      <3>1. /\ i \in Acceptable(h) /\ inbox' = Accepted(h, i)
            /\ inbox[h][i] \notin PermPushes /\ UNCHANGED hApplied
        BY <2>3, TornFacts DEF EsolSpin, Spin, esolVars
      <3> QED BY <1>1, <1>2, <2>1, <3>1, EsolTakes
    <2>4. CASE AskPerm(h) \/ AskCred(h)
      <3> DEFINE s == Head(client[h].todo)
                 pm == [type |-> "GET_PERM", key |-> client[h].key, from |-> h]
                 cm == [type |-> "GET_CRED", cred |-> client[h].cred, from |-> h]
      <3>1. /\ s \in Servers /\ UNCHANGED hApplied /\ client[h].pc # "idle"
            /\ inbox' = Queued(s, pm) \/ inbox' = Queued(s, cm)
        BY <2>4 DEF AskPerm, AskCred, Ask, At, HasRoom, tables
      <3>2. client[h].key \in AllKeys /\ client[h].cred \in CredIds
        BY <1>1, <3>1, AtFacts
      <3>3. pm \in Messages /\ cm \in Messages /\ pm \notin PermPushes /\ cm \notin PermPushes
        BY <3>2 DEF Messages, Queries, PermPushes
      <3> HIDE DEF s, pm, cm
      <3> QED BY <1>1, <1>2, <2>1, <3>1, <3>3, OthersQueue
    <2>5. CASE \/ LookupPerm(h) \/ LookupCred(h) \/ GotPerm(h) \/ GotCred(h) \/ GotInvalid(h)
               \/ PullSpins(h) \/ Encrypt(h) \/ Decrypt(h) \/ Hmac(h) \/ Sign(h) \/ Verify(h)
      <3>1. UNCHANGED <<inbox, hApplied>>
        BY <2>5 DEF LookupPerm, LookupCred, PullSpins, Encrypt, Decrypt, Hmac, Sign, Verify, Serving,
           GotPerm, GotCred, GotInvalid, net, tables
      <3> QED BY <1>1, <1>2, <2>1, <3>1, OthersQueue
    <2>6. CASE EsolExit(h)
      BY <1>1, <2>1, <2>6 DEF EsolExit, EsolDown, Down, ServeInv, AllServing, NetTypeOK, Procs
    <2> QED BY <2>1, <2>2, <2>3, <2>4, <2>5, <2>6 DEF EsolNext, EsolTcp, EsolUds
  <1>7. CASE Web \/ UNCHANGED vars \/ \E h \in Hosts : Program(h)
    <2>1. UNCHANGED <<inbox, caJob, issued, caPerms, dJob, dApplied, hApplied>>
      BY <1>7 DEF Web, WebNext, CreatePerm, CreateCred, UpdatePerm, RemovePerm, Reload, Request,
         Program, ClientRequest, net, tables, caVars, esodVars, esolVars, vars
    <2> QED BY <1>1, <1>2, <2>1, OthersQueue
  <1>8. ASSUME NEW p \in Procs, Kill(p) PROVE FALSE
    BY <1>8 DEF Kill, NobodyKilled, IInv, EnvInv
  <1>9. ASSUME NEW p \in Procs, Restart(p) PROVE FALSE
    BY <1>9 DEF Restart, ServeInv, AllServing
  <1> QED BY <1>4, <1>5, <1>6, <1>7, <1>8, <1>9 DEF Next

LEMMA InitCatchUp == Init => CatchUp
  <1> SUFFICES ASSUME Init, NEW k \in Keys, NEW v \in Nat, v = Len(issued[k])
               PROVE  KeyCatchesUp(k, v) /\ Allows(caPerms[k]) = IssuedValue(k, v)
    BY DEF CatchUp
  <1>1. v = 0 /\ k \in AllKeys /\ k.loc \in Hosts /\ k.loc \in Servers
    BY EmptySeq DEF Init, CaInit, AllKeys, Keys, Servers
  <1>2. \A s \in Servers : 1..Len(inbox[s]) = {}
    BY EmptySeq DEF Init, NetInit
  <1>3. caJob.msg = Torn /\ Torn \notin PermPushes /\ \A d \in Esods : dJob[d] = Torn
    BY TornFacts DEF Init, CaInit, NoJob, EsodInit, Idle
  <1>4. /\ \A d \in Esods : dApplied[d][k] = v
        /\ hApplied[k.loc][k] = v /\ Allows(caPerms[k]) = {}
    BY <1>1 DEF Init, CaInit, EsodInit, EsolInit, EmptyTable, Allows
  <1> QED BY <1>1, <1>2, <1>3, <1>4
          DEF KeyCatchesUp, EsodCatchesUp, HostCatchesUp, Stale, IssuedValue, Servers

(***************************************************************************)
(* Once nothing is on its way, every esod, and the esol of the host that a *)
(* permission is for, allow what esoca's table allows.  Nobody is killed   *)
(* and no database fails; one admin works on a right page; connections are *)
(* accepted in the order they were made (each change has one of its own,   *)
(* and a cache keeps the change it took last); there is a location.        *)
(***************************************************************************)
THEOREM CachesConverge ==
  ASSUME PageIsRight, NobodyKilled, NothingFails, Window = 1, Locations # <<>>
  PROVE  Spec => []Converged
  <1> DEFINE Inv == IInv /\ ServeInv /\ PageLeads /\ CatchUp
  <1>1. Init => Inv
    BY InitIInv, InitServing, InitCatchUp
  <1>2. Inv /\ [Next]_vars => Inv'
    BY Inductive, ServeStep, CatchUpStep
  <1>3. Inv => Converged
    <2> SUFFICES ASSUME Inv, Quiet, NEW k \in Keys
                 PROVE  /\ \A d \in Esods : Allows(dPerms[d][k]) = Allows(caPerms[k])
                        /\ Allows(hPerms[k.loc][k]) = Allows(caPerms[k])
      BY DEF Converged
    <2>1. k \in AllKeys /\ k.loc \in Hosts /\ k.loc \in Servers
      BY DEF AllKeys, Keys, Servers
    <2>2. PICK v \in Nat : v = Len(issued[k])
      BY <2>1, LenProperties DEF IInv, CaInv, CaTypeOK
    <2>3. KeyCatchesUp(k, v) /\ Allows(caPerms[k]) = IssuedValue(k, v)
      BY <2>2 DEF CatchUp
    <2>4. \A s \in Servers : 1..Len(inbox[s]) = {}
      BY EmptySeq DEF Quiet
    <2>5. \A d \in Esods : \A n : ~OnWay(d, n, k, v)
      BY <2>4, EmptySeq DEF Quiet, CaIdle, OnWay, Left, Later, Servers
    <2>6. ~HostOnWay(k, v)
      BY <2>5, TornFacts DEF HostOnWay, Fresh, Quiet, Idle
    <2>7. \A d \in Esods : dApplied[d][k] = v
      BY <2>3, <2>5 DEF KeyCatchesUp, EsodCatchesUp
    <2>8. hApplied[k.loc][k] = v
      BY <2>1, <2>3, <2>4, <2>6 DEF KeyCatchesUp, HostCatchesUp, Later
    <2> QED BY <2>1, <2>3, <2>7, <2>8
            DEF IInv, EsodInv, DistributionFaithful, EsolInv, HostFaithful
  <1> HIDE DEF Inv
  <1> QED BY <1>1, <1>2, <1>3, PTL DEF Spec
=============================================================================
