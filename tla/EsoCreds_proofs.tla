--------------------------- MODULE EsoCreds_proofs ---------------------------
(***************************************************************************)
(* Queries and credentials.  An answer finds the esol that asked for it in *)
(* the state it was asked in, whoever is killed in between; and with one   *)
(* admin whose page is right, a credential has one key material.           *)
(***************************************************************************)
EXTENDS EsoOrder_proofs

-----------------------------------------------------------------------------
(***************************************************************************)
(* Queries.  Whoever has a query on its way waits for its answer, has no   *)
(* other query on its way, and asks for what its program needs.            *)
(***************************************************************************)
Asks(m) == IsQuery(m) /\ m.from # NoOne

WaitsFor(m, s) ==
    /\ pull[m.from] = [to |-> s, ans |-> NoAnswer]
    /\ m.type = "GET_PERM" => client[m.from].pc = "waitPerm" /\ m.key = client[m.from].key
    /\ m.type = "GET_CRED" => client[m.from].pc = "waitCred" /\ m.cred = client[m.from].cred

AnswerFits(h) ==
    /\ pull[h].ans.kind = "perm" => client[h].pc = "waitPerm"
    /\ pull[h].ans.kind \in {"cred", "invalid"} => client[h].pc = "waitCred"

QueryInv ==
    /\ \A s \in Servers : \A i \in 1..Len(inbox[s]) : Asks(inbox[s][i]) =>
          /\ WaitsFor(inbox[s][i], s)
          /\ \A j \in 1..Len(inbox[s]) :
                Asks(inbox[s][j]) /\ inbox[s][j].from = inbox[s][i].from => i = j
    /\ \A h \in Hosts : AnswerFits(h)

(***************************************************************************)
(* RemoveAt moves what follows the place it empties up by one.             *)
(***************************************************************************)
Skip(i, j) == IF j < i THEN j ELSE j + 1

(***************************************************************************)
(* The queries of queue new are queries of queue old, which may have lost  *)
(* the connection at place n.                                              *)
(***************************************************************************)
FewerQueries(new, old) ==
    /\ Len(new) \in Nat /\ Len(old) \in Nat
    /\ \E n \in Nat : \A i \in 1..Len(new) : Asks(new[i]) =>
           Skip(n, i) \in 1..Len(old) /\ new[i] = old[Skip(n, i)]

\* What is asked is a query, of a host.
LEMMA QueryFacts ==
  ASSUME NEW m \in Messages
  PROVE  /\ Asks(m) => m.from \in Hosts /\ m \in Queries
         /\ m \in Pushes => ~Asks(m)
         /\ ~Asks(Torn)
         /\ \A p : Asks(Orphaned(m, p)) => Orphaned(m, p) = m /\ m.from # p
  BY DEF Asks, IsQuery, Messages, Queries, Pushes, PermPushes, CredPushes, Torn, Orphaned

\* A queue whose queries stay where they are,
LEMMA QueriesStay ==
  ASSUME NEW new, NEW old, Len(new) \in Nat, Len(old) \in Nat,
         \A i \in 1..Len(new) : Asks(new[i]) => i \in 1..Len(old) /\ new[i] = old[i]
  PROVE  FewerQueries(new, old)
  <1> DEFINE n == Len(new) + 1
  <1>1. n \in Nat /\ \A i \in 1..Len(new) : Skip(n, i) = i
    BY DEF Skip
  <1> HIDE DEF n
  <1> QED BY <1>1 DEF FewerQueries

LEMMA RemovedAt ==
  ASSUME NEW T, NEW s \in Seq(T), NEW i \in 1..Len(s)
  PROVE  /\ Len(RemoveAt(s, i)) = Len(s) - 1 /\ Len(s) \in Nat
         /\ \A j \in 1..Len(RemoveAt(s, i)) :
                /\ Skip(i, j) \in 1..Len(s) /\ Skip(i, j) # i
                /\ RemoveAt(s, i)[j] = s[Skip(i, j)]
  <1> DEFINE a == SubSeq(s, 1, i - 1)
             b == SubSeq(s, i + 1, Len(s))
  <1>1. Len(s) \in Nat /\ \A j \in 1..Len(s) : s[j] \in T
    BY ElementOfSeq, LenProperties
  <1>2. a \in Seq(T) /\ Len(a) = i - 1 /\ \A j \in 1..(i - 1) : a[j] = s[j]
    <2>1. /\ a \in Seq(T) /\ Len(a) = IF 1 <= i - 1 THEN i - 1 - 1 + 1 ELSE 0
          /\ \A j \in 1..(i - 1 - 1 + 1) : a[j] = s[1 + j - 1]
      BY <1>1, SubSeqProperties
    <2>2. i - 1 - 1 + 1 = i - 1 /\ \A j \in 1..(i - 1) : 1 + j - 1 = j
      BY <1>1
    <2> HIDE DEF a
    <2>3. Len(a) = i - 1
      BY <1>1, <2>1
    <2>4. ASSUME NEW j \in 1..(i - 1)
          PROVE  a[j] = s[j]
      <3>1. j \in 1..(i - 1 - 1 + 1)
        BY <2>2
      <3>2. a[j] = s[1 + j - 1]
        BY <2>1, <3>1
      <3> QED BY <2>2, <3>2
    <2> QED BY <2>1, <2>3, <2>4
  <1>3. b \in Seq(T) /\ Len(b) = Len(s) - i /\ \A j \in 1..(Len(s) - i) : b[j] = s[i + j]
    <2>1. /\ b \in Seq(T) /\ Len(b) = IF i + 1 <= Len(s) THEN Len(s) - (i + 1) + 1 ELSE 0
          /\ \A j \in 1..(Len(s) - (i + 1) + 1) : b[j] = s[(i + 1) + j - 1]
      BY <1>1, SubSeqProperties
    <2>2. Len(s) - (i + 1) + 1 = Len(s) - i /\ \A j \in 1..(Len(s) - i) : (i + 1) + j - 1 = i + j
      BY <1>1
    <2> HIDE DEF b
    <2>3. Len(b) = Len(s) - i
      BY <1>1, <2>1
    <2>4. ASSUME NEW j \in 1..(Len(s) - i)
          PROVE  b[j] = s[i + j]
      <3>1. j \in 1..(Len(s) - (i + 1) + 1)
        BY <2>2
      <3>2. b[j] = s[(i + 1) + j - 1]
        BY <2>1, <3>1
      <3> QED BY <2>2, <3>2
    <2> QED BY <2>1, <2>3, <2>4
  <1> HIDE DEF a, b
  <1>4. /\ Len(a \o b) = Len(a) + Len(b)
        /\ \A j \in 1..Len(a) + Len(b) : (a \o b)[j] = IF j <= Len(a) THEN a[j] ELSE b[j - Len(a)]
    BY <1>2, <1>3, ConcatProperties
  <1>5. RemoveAt(s, i) = a \o b
    BY DEF RemoveAt, a, b
  <1>6. ASSUME NEW j \in 1..(Len(s) - 1)
        PROVE  /\ Skip(i, j) \in 1..Len(s) /\ Skip(i, j) # i
               /\ (a \o b)[j] = s[Skip(i, j)]
    <2>1. CASE j < i
      BY <1>1, <1>2, <1>3, <1>4, <2>1 DEF Skip
    <2>2. CASE ~(j < i)
      <3>1. j - Len(a) \in 1..(Len(s) - i) /\ i + (j - Len(a)) = j + 1 /\ ~(j <= Len(a))
        BY <1>1, <1>2, <2>2
      <3>2. (a \o b)[j] = b[j - Len(a)] /\ b[j - Len(a)] = s[i + (j - Len(a))]
        BY <1>1, <1>2, <1>3, <1>4, <3>1
      <3>3. Skip(i, j) = j + 1 /\ j + 1 \in 1..Len(s) /\ j + 1 # i
        BY <1>1, <2>2 DEF Skip
      <3> QED BY <3>1, <3>2, <3>3
    <2> QED BY <2>1, <2>2
  <1>7. Len(a \o b) = Len(s) - 1
    BY <1>1, <1>2, <1>3, <1>4
  <1> QED BY <1>1, <1>5, <1>6, <1>7

\* one that loses a connection,
LEMMA AcceptedAt ==
  ASSUME NetTypeOK, NEW s \in Servers, NEW i \in Acceptable(s), inbox' = Accepted(s, i)
  PROVE  /\ i \in 1..Len(inbox[s]) /\ inbox[s][i] \in Messages
         /\ \A j \in 1..Len(inbox'[s]) :
                Skip(i, j) \in 1..Len(inbox[s]) /\ Skip(i, j) # i /\ inbox'[s][j] = inbox[s][Skip(i, j)]
         /\ \A r \in Servers : r # s => inbox'[r] = inbox[r]
         /\ \A r \in Servers : FewerQueries(inbox'[r], inbox[r])
  <1>1. inbox[s] \in Seq(Messages) /\ i \in 1..Len(inbox[s]) /\ inbox \in [Servers -> Seq(Messages)]
    BY DEF NetTypeOK, Acceptable
  <1>2. inbox'[s] = RemoveAt(inbox[s], i) /\ \A r \in Servers : r # s => inbox'[r] = inbox[r]
    BY <1>1 DEF Accepted
  <1>3. /\ \A j \in 1..Len(inbox'[s]) :
               Skip(i, j) \in 1..Len(inbox[s]) /\ Skip(i, j) # i /\ inbox'[s][j] = inbox[s][Skip(i, j)]
        /\ Len(inbox[s]) \in Nat /\ Len(inbox'[s]) = Len(inbox[s]) - 1
    BY <1>1, <1>2, RemovedAt
  <1>4. FewerQueries(inbox'[s], inbox[s])
    <2>1. i \in Nat /\ Len(inbox'[s]) \in Nat
      BY <1>1, <1>3
    <2>2. \A j \in 1..Len(inbox'[s]) : Asks(inbox'[s][j]) =>
              Skip(i, j) \in 1..Len(inbox[s]) /\ inbox'[s][j] = inbox[s][Skip(i, j)]
      BY <1>3
    <2> QED BY <1>3, <2>1, <2>2 DEF FewerQueries
  <1>5. \A r \in Servers : r # s => FewerQueries(inbox'[r], inbox[r])
    BY <1>1, <1>2, QueriesStay, LenProperties
  <1> QED BY <1>1, <1>2, <1>3, <1>4, <1>5, ElementOfSeq

\* one that gains a push,
LEMMA QueriesQueued ==
  ASSUME NetTypeOK, NEW s \in Servers, NEW m \in Messages, ~Asks(m), inbox' = Queued(s, m)
  PROVE  \A r \in Servers : FewerQueries(inbox'[r], inbox[r])
  <1>1. /\ Len(inbox[s]) \in Nat /\ Len(inbox'[s]) = Len(inbox[s]) + 1
        /\ inbox'[s][Len(inbox[s]) + 1] = m
        /\ \A j \in 1..Len(inbox[s]) : inbox'[s][j] = inbox[s][j]
        /\ \A r \in Servers : r # s => inbox'[r] = inbox[r]
    BY QueueLast
  <1>2. FewerQueries(inbox'[s], inbox[s])
    BY <1>1, QueriesStay
  <1>3. \A r \in Servers : r # s => FewerQueries(inbox'[r], inbox[r])
    BY <1>1, QueriesStay, LenProperties DEF NetTypeOK
  <1> QED BY <1>2, <1>3

(***************************************************************************)
(* and the queues after the end of process p, where p asks nothing more.   *)
(***************************************************************************)
LEMMA DownAt ==
  ASSUME NetTypeOK, NetTypeOK', NEW p \in Procs, NEW cut, Down(p, cut), NEW s \in Servers
  PROVE  /\ s = p => inbox'[s] = <<>>
         /\ \A i \in 1..Len(inbox'[s]) :
               \/ inbox'[s][i] = Torn
               \/ i \in 1..Len(inbox[s]) /\ inbox'[s][i] = Orphaned(inbox[s][i], p)
         /\ FewerQueries(inbox'[s], inbox[s])
         /\ \A i \in 1..Len(inbox'[s]) : Asks(inbox'[s][i]) => inbox'[s][i].from # p
  <1> DEFINE q == [i \in 1..Len(inbox[s]) |-> Orphaned(inbox[s][i], p)]
             torn == IF s \in cut THEN <<Torn>> ELSE <<>>
  <1>1. inbox[s] \in Seq(Messages) /\ Len(inbox[s]) \in Nat
        /\ \A i \in 1..Len(inbox[s]) : inbox[s][i] \in Messages
    BY LenProperties, ElementOfSeq DEF NetTypeOK
  <1>2. inbox'[s] = IF s = p THEN <<>> ELSE q \o torn
    BY DEF Down
  <1>3. ASSUME NEW i \in 1..Len(inbox'[s])
        PROVE  /\ s # p
               /\ \/ inbox'[s][i] = Torn
                  \/ i \in 1..Len(inbox[s]) /\ inbox'[s][i] = Orphaned(inbox[s][i], p)
    <2>1. s # p
      BY <1>2, EmptySeq
    <2>2. q \in Seq({q[j] : j \in 1..Len(inbox[s])}) /\ Len(q) = Len(inbox[s])
      BY <1>1
    <2>3. torn \in Seq({Torn}) /\ Len(torn) \in Nat /\ \A j \in 1..Len(torn) : torn[j] = Torn
      <3>1. CASE s \in cut
        BY <3>1
      <3>2. CASE s \notin cut
        BY <3>2, EmptySeq
      <3> QED BY <3>1, <3>2
    <2> DEFINE T == {q[j] : j \in 1..Len(inbox[s])} \cup {Torn}
    <2>4. q \in Seq(T) /\ torn \in Seq(T)
      BY <2>2, <2>3, SeqMonotonic
    <2>5. \A j \in 1..Len(inbox[s]) : q[j] = Orphaned(inbox[s][j], p)
      OBVIOUS
    <2> HIDE DEF q, torn, T
    <2>6. /\ Len(q \o torn) = Len(q) + Len(torn)
          /\ \A j \in 1..Len(q) + Len(torn) :
                 (q \o torn)[j] = IF j <= Len(q) THEN q[j] ELSE torn[j - Len(q)]
      BY <2>4, ConcatProperties
    <2>7. CASE i <= Len(q)
      BY <1>1, <1>2, <2>1, <2>2, <2>3, <2>5, <2>6, <2>7
    <2>8. CASE ~(i <= Len(q))
      <3>1. i - Len(q) \in 1..Len(torn)
        BY <1>1, <1>2, <2>1, <2>2, <2>3, <2>6, <2>8
      <3> QED BY <1>1, <1>2, <2>1, <2>2, <2>3, <2>6, <2>8, <3>1
    <2> QED BY <2>1, <2>7, <2>8
  <1>6. Len(inbox'[s]) \in Nat
    BY LenProperties DEF NetTypeOK
  <1> HIDE DEF q, torn
  <1>4. ASSUME NEW i \in 1..Len(inbox'[s]), Asks(inbox'[s][i])
        PROVE  i \in 1..Len(inbox[s]) /\ inbox'[s][i] = inbox[s][i] /\ inbox'[s][i].from # p
    BY <1>1, <1>3, <1>4, QueryFacts, MessageFacts
  <1>5. FewerQueries(inbox'[s], inbox[s])
    BY <1>1, <1>4, <1>6, QueriesStay
  <1> QED BY <1>2, <1>3, <1>4, <1>5

-----------------------------------------------------------------------------
(***************************************************************************)
(* When no query is added, and whoever still has one on its way keeps      *)
(* waiting for the same answer, queries stay as they should be.            *)
(***************************************************************************)
LEMMA QueriesKept ==
  ASSUME QueryInv, \A s \in Servers : FewerQueries(inbox'[s], inbox[s]),
         \A s \in Servers : \A i \in 1..Len(inbox'[s]) : Asks(inbox'[s][i]) =>
             /\ pull'[inbox'[s][i].from] = pull[inbox'[s][i].from]
             /\ client'[inbox'[s][i].from] = client[inbox'[s][i].from],
         \A h \in Hosts : AnswerFits(h)'
  PROVE  QueryInv'
  <1> SUFFICES ASSUME NEW s \in Servers, NEW i \in 1..Len(inbox'[s]), Asks(inbox'[s][i])
               PROVE  /\ WaitsFor(inbox[s][i], s)'
                      /\ \A j \in 1..Len(inbox'[s]) :
                            Asks(inbox'[s][j]) /\ inbox'[s][j].from = inbox'[s][i].from => i = j
    BY DEF QueryInv, Asks, IsQuery
  <1>1. PICK n \in Nat : \A j \in 1..Len(inbox'[s]) : Asks(inbox'[s][j]) =>
            Skip(n, j) \in 1..Len(inbox[s]) /\ inbox'[s][j] = inbox[s][Skip(n, j)]
    BY DEF FewerQueries
  <1>2. Len(inbox'[s]) \in Nat
    BY DEF FewerQueries
  <1>3. WaitsFor(inbox'[s][i], s)
    BY <1>1 DEF QueryInv
  <1>4. WaitsFor(inbox[s][i], s)'
    BY <1>3 DEF WaitsFor
  <1>5. ASSUME NEW j \in 1..Len(inbox'[s]), Asks(inbox'[s][j]),
               inbox'[s][j].from = inbox'[s][i].from
        PROVE  i = j
    <2> DEFINE x == Skip(n, i)
               y == Skip(n, j)
    <2>1. /\ x \in 1..Len(inbox[s]) /\ inbox'[s][i] = inbox[s][x]
          /\ y \in 1..Len(inbox[s]) /\ inbox'[s][j] = inbox[s][y]
      BY <1>1, <1>5
    <2> HIDE DEF x, y
    <2>2. x = y
      BY <1>5, <2>1 DEF QueryInv
    <2> QED BY <1>2, <2>2 DEF x, y, Skip
  <1> QED BY <1>4, <1>5

\* With pull and the programs' requests as they were, answers fit.
LEMMA AnswersStay ==
  QueryInv /\ UNCHANGED <<pull, client>> => \A h \in Hosts : AnswerFits(h)'
  BY DEF QueryInv, AnswerFits

\* Steps that add no query and touch neither answers nor programs' requests.
LEMMA OnlyQueues ==
  ASSUME QueryInv, UNCHANGED <<pull, client>>, \A s \in Servers : FewerQueries(inbox'[s], inbox[s])
  PROVE  QueryInv'
  BY QueriesKept, AnswersStay

\* Queues that do not change at all.
LEMMA QueuesStay ==
  ASSUME NetTypeOK, inbox' = inbox
  PROVE  \A s \in Servers : FewerQueries(inbox'[s], inbox[s])
  <1>1. \A s \in Servers : Len(inbox[s]) \in Nat
    BY LenProperties DEF NetTypeOK
  <1> QED BY <1>1, QueriesStay

(***************************************************************************)
(* A host that waits for no answer has no query on its way: its program's  *)
(* request may move.                                                       *)
(***************************************************************************)
LEMMA NobodyWaits ==
  ASSUME QueryInv, NetTypeOK, NEW h \in Hosts,
         \/ client[h].pc \notin {"waitPerm", "waitCred"}
         \/ pull[h].ans # NoAnswer
  PROVE  \A s \in Servers : \A i \in 1..Len(inbox[s]) : Asks(inbox[s][i]) => inbox[s][i].from # h
  <1> SUFFICES ASSUME NEW s \in Servers, NEW i \in 1..Len(inbox[s]),
                      Asks(inbox[s][i]), inbox[s][i].from = h
               PROVE  FALSE
    OBVIOUS
  <1>1. WaitsFor(inbox[s][i], s)
    BY DEF QueryInv
  <1>2. pull[h].ans = NoAnswer
    BY <1>1 DEF WaitsFor
  <1>3. inbox[s][i].type \in {"GET_PERM", "GET_CRED"}
    BY DEF Asks, IsQuery
  <1> QED BY <1>1, <1>2, <1>3 DEF WaitsFor

\* The request of h's program moves, and no answer is given or taken.
LEMMA ClientMoves ==
  ASSUME QueryInv, NetTypeOK, EsolTypeOK, NEW h \in Hosts, UNCHANGED <<inbox, pull>>,
         NEW c, client' = [client EXCEPT ![h] = c],
         \/ client[h].pc \notin {"waitPerm", "waitCred"}
         \/ pull[h].ans.kind = "closed"
  PROVE  QueryInv'
  <1>1. pull[h].ans.kind = "closed" => pull[h].ans # NoAnswer
    BY DEF NoAnswer
  <1>2. \A s \in Servers : \A i \in 1..Len(inbox[s]) : Asks(inbox[s][i]) => inbox[s][i].from # h
    BY <1>1, NobodyWaits
  <1>3. \A g \in Hosts : g # h => client'[g] = client[g]
    BY DEF EsolTypeOK
  <1>4. \A s \in Servers : \A i \in 1..Len(inbox[s]) : Asks(inbox[s][i]) => inbox[s][i].from \in Hosts
    BY QueryFacts, ElementOfSeq DEF NetTypeOK
  <1>5. \A g \in Hosts : AnswerFits(g)'
    BY <1>3 DEF QueryInv, AnswerFits
  <1> QED BY <1>2, <1>3, <1>4, <1>5, QueuesStay, QueriesKept

(***************************************************************************)
(* The end of a process: those who wait for its answer have no query on    *)
(* its way any more, and its own queries ask for nobody.                   *)
(***************************************************************************)
LEMMA DownQueries ==
  ASSUME QueryInv, NetTypeOK, NetTypeOK', EsolTypeOK, NEW p \in Procs, NEW cut, Down(p, cut),
         \A h \in Hosts : h # p => client'[h] = client[h]
  PROVE  QueryInv'
  <1>1. ASSUME NEW s \in Servers, NEW i \in 1..Len(inbox'[s]), Asks(inbox'[s][i])
        PROVE  /\ pull'[inbox'[s][i].from] = pull[inbox'[s][i].from]
               /\ client'[inbox'[s][i].from] = client[inbox'[s][i].from]
    <2> DEFINE h == inbox'[s][i].from
    <2>1. s # p /\ h # p /\ FewerQueries(inbox'[s], inbox[s])
      BY <1>1, DownAt, EmptySeq
    <2>2. PICK j \in 1..Len(inbox[s]) : inbox[s][j] = inbox'[s][i]
      BY <1>1, <2>1 DEF FewerQueries
    <2>3. inbox[s][j] \in Messages
      BY ElementOfSeq DEF NetTypeOK
    <2>4. h \in Hosts /\ WaitsFor(inbox[s][j], s)
      BY <1>1, <2>2, <2>3, QueryFacts DEF QueryInv
    <2>5. pull[h].to = s
      BY <2>2, <2>4 DEF WaitsFor
    <2> HIDE DEF h
    <2>6. pull'[h] = pull[h]
      BY <2>1, <2>4, <2>5 DEF Down
    <2> QED BY <2>1, <2>4, <2>6 DEF h
  <1>2. ASSUME NEW h \in Hosts PROVE AnswerFits(h)'
    BY DEF Down, NoPull, NoAnswer, QueryInv, AnswerFits
  <1> QED BY <1>1, <1>2, DownAt, QueriesKept

(***************************************************************************)
(* Every step keeps queries as they should be.  esoca asks nothing.        *)
(***************************************************************************)
LEMMA CaQueries == IInv /\ IInv' /\ QueryInv /\ EsocaStep => QueryInv'
  <1> SUFFICES ASSUME IInv, IInv', QueryInv, EsocaStep PROVE QueryInv'
    OBVIOUS
  <1>1. CaNext /\ UNCHANGED client /\ NetTypeOK /\ NetTypeOK'
    BY DEF EsocaStep, esolVars, IInv, NetInv
  <1>2. CASE CaHandle
    BY <1>1, <1>2, HandleSound, QueuesStay, OnlyQueues DEF net
  <1>3. CASE CaSend
    <2> DEFINE s == Head(caJob.todo)
               m == caJob.msg
    <2>1. s \in Servers /\ inbox' = Queued(s, m) /\ pull' = pull
      BY <1>3 DEF CaSend, HasRoom
    <2>2. m \in Messages /\ ~Asks(m)
      BY QueryFacts, MessageFacts DEF IInv, CaInv, CaTypeOK, Messages
    <2> HIDE DEF s, m
    <2> QED BY <1>1, <2>1, <2>2, QueriesQueued, OnlyQueues
  <1>4. CASE CaExit \/ CaDies
    <2>1. Down(Ca, {}) /\ Ca \in Procs /\ EsolTypeOK
      BY <1>4 DEF CaExit, CaDies, CaDown, CaEnds, Procs, IInv, EsolInv
    <2> QED BY <1>1, <2>1, DownQueries
  <1> QED BY <1>1, <1>2, <1>3, <1>4 DEF CaNext

(***************************************************************************)
(* An esod takes a query off its queue with the answer.                    *)
(***************************************************************************)
LEMMA ReplyQueries ==
  ASSUME QueryInv, NetTypeOK, NEW d \in Esods, NEW i \in Acceptable(d), inbox' = Accepted(d, i),
         NEW m, m = inbox[d][i], Asks(m), NEW a, pull' = Answered(m.from, a), UNCHANGED client,
         m.type = "GET_PERM" => a.kind = "perm",
         m.type = "GET_CRED" => a.kind \in {"cred", "invalid"}
  PROVE  QueryInv'
  <1> DEFINE h == m.from
  <1>1. /\ d \in Servers /\ i \in 1..Len(inbox[d]) /\ m \in Messages /\ h \in Hosts
        /\ \A j \in 1..Len(inbox'[d]) :
               Skip(i, j) \in 1..Len(inbox[d]) /\ Skip(i, j) # i /\ inbox'[d][j] = inbox[d][Skip(i, j)]
        /\ \A r \in Servers : r # d => inbox'[r] = inbox[r]
        /\ \A r \in Servers : FewerQueries(inbox'[r], inbox[r])
    BY AcceptedAt, QueryFacts DEF Servers
  <1>2. WaitsFor(m, d) /\ m.type \in {"GET_PERM", "GET_CRED"}
    BY <1>1 DEF QueryInv, Asks, IsQuery
  <1>3. \A g \in Hosts : pull'[g] = IF g = h THEN [pull[h] EXCEPT !.ans = a] ELSE pull[g]
    BY <1>1 DEF Answered, NetTypeOK
  <1> HIDE DEF h
  <1>4. ASSUME NEW s \in Servers, NEW j \in 1..Len(inbox'[s]), Asks(inbox'[s][j])
        PROVE  inbox'[s][j].from # h
    <2> SUFFICES ASSUME inbox'[s][j].from = h PROVE FALSE
      OBVIOUS
    <2>1. CASE s = d
      <3> DEFINE x == Skip(i, j)
      <3>1. x \in 1..Len(inbox[d]) /\ x # i /\ inbox'[d][j] = inbox[d][x]
        BY <1>1, <2>1
      <3> HIDE DEF x
      <3>2. Asks(inbox[d][x]) /\ inbox[d][x].from = inbox[d][i].from
        BY <1>4, <2>1, <3>1 DEF h
      <3> QED BY <1>1, <3>1, <3>2 DEF QueryInv
    <2>2. CASE s # d
      <3>1. inbox'[s] = inbox[s]
        BY <1>1, <2>2
      <3>2. WaitsFor(inbox[s][j], s) /\ inbox[s][j].from = h
        BY <1>4, <3>1 DEF QueryInv
      <3> QED BY <1>2, <2>2, <3>2 DEF WaitsFor, h
    <2> QED BY <2>1, <2>2
  <1>5. ASSUME NEW s \in Servers, NEW j \in 1..Len(inbox'[s]), Asks(inbox'[s][j])
        PROVE  pull'[inbox'[s][j].from] = pull[inbox'[s][j].from]
    <2>1. \E n \in 1..Len(inbox[s]) : inbox'[s][j] = inbox[s][n]
      BY <1>5, <1>1 DEF FewerQueries
    <2>2. inbox'[s][j].from \in Hosts
      BY <1>5, <2>1, QueryFacts, ElementOfSeq DEF NetTypeOK
    <2> QED BY <1>3, <1>4, <1>5, <2>2
  <1>6. ASSUME NEW g \in Hosts PROVE AnswerFits(g)'
    <2>1. CASE g = h
      <3>1. pull'[h].ans = a
        BY <1>1, <1>3 DEF NetTypeOK, h
      <3>2. client[h].pc = IF m.type = "GET_PERM" THEN "waitPerm" ELSE "waitCred"
        BY <1>2 DEF WaitsFor, h
      <3> QED BY <1>2, <2>1, <3>1, <3>2 DEF AnswerFits
    <2>2. CASE g # h
      BY <1>3, <2>2 DEF QueryInv, AnswerFits
    <2> QED BY <2>1, <2>2
  <1> QED BY <1>1, <1>5, <1>6, QueriesKept

\* Every step of an esod keeps queries as they should be.
LEMMA EsodQueries == \A d \in Esods : IInv /\ IInv' /\ QueryInv /\ EsodStep(d) => QueryInv'
  <1> SUFFICES ASSUME NEW d \in Esods, IInv, IInv', QueryInv, EsodStep(d) PROVE QueryInv'
    OBVIOUS
  <1>1. /\ EsodNext(d) /\ UNCHANGED client /\ NetTypeOK /\ NetTypeOK' /\ EsolTypeOK
        /\ d \in Servers /\ d \in Procs
    BY DEF EsodStep, esolVars, IInv, NetInv, EsolInv, Servers, Procs
  <1>2. ASSUME NEW i, \/ EsodUpdatePerm(d, i) \/ EsodDeletePerm(d, i) \/ EsodNewCred(d, i)
                      \/ EsodSpin(d, i)
        PROVE  QueryInv'
    <2>1. i \in Acceptable(d) /\ inbox' = Accepted(d, i) /\ UNCHANGED pull
      BY <1>2 DEF EsodUpdatePerm, EsodDeletePerm, EsodNewCred, EsodSpin, EsodAccept, Spin
    <2> QED BY <1>1, <2>1, AcceptedAt, OnlyQueues
  <1>3. ASSUME NEW i, EsodGetPerm(d, i) \/ EsodGetCred(d, i)
        PROVE  QueryInv'
    <2> DEFINE m == inbox[d][i]
    <2>1. i \in Acceptable(d) /\ inbox' = Accepted(d, i)
      BY <1>3 DEF EsodGetPerm, EsodGetCred, EsodAccept
    <2>2. CASE UNCHANGED pull
      BY <1>1, <2>1, <2>2, AcceptedAt, OnlyQueues
    <2>3. CASE EsodGetPerm(d, i) /\ ~UNCHANGED pull
      <3>1. Asks(m) /\ m.type = "GET_PERM" /\ pull' = Answered(m.from, PermAnswer(d, m.key))
        BY <2>3 DEF EsodGetPerm, EsodAccept, Reply, ReplyLost, Asks, IsQuery
      <3>2. PermAnswer(d, m.key).kind = "perm"
        BY DEF PermAnswer
      <3> HIDE DEF m
      <3>3. m = inbox[d][i]
        BY DEF m
      <3> QED BY <1>1, <2>1, <3>1, <3>2, <3>3, ReplyQueries
    <2>4. CASE EsodGetCred(d, i) /\ ~UNCHANGED pull
      <3>1. /\ Asks(m) /\ m.type = "GET_CRED"
            /\ \E mat : pull' = Answered(m.from, CredAnswer(mat))
        BY <2>4 DEF EsodGetCred, EsodAccept, Reply, ReplyLost, Asks, IsQuery
      <3>2. \A mat : CredAnswer(mat).kind \in {"cred", "invalid"}
        BY DEF CredAnswer
      <3> HIDE DEF m
      <3>3. m = inbox[d][i]
        BY DEF m
      <3> QED BY <1>1, <2>1, <3>1, <3>2, <3>3, ReplyQueries
    <2> QED BY <1>3, <2>2, <2>3, <2>4
  <1>4. CASE EsodForward(d)
    <2> DEFINE m == dJob[d]
    <2>1. m.key.loc \in Servers /\ inbox' = Queued(m.key.loc, m) /\ UNCHANGED pull
      BY <1>4 DEF EsodForward, HasRoom
    <2>2. m \in Messages /\ ~Asks(m)
      <3>1. m \in PermPushes \cup {Torn}
        BY DEF IInv, EsodInv, EsodTypeOK, Idle
      <3> QED BY <3>1, QueryFacts DEF Messages, Pushes
    <2> HIDE DEF m
    <2> QED BY <1>1, <2>1, <2>2, QueriesQueued, OnlyQueues
  <1>5. CASE EsodExit(d)
    <2>1. Down(d, {})
      BY <1>5 DEF EsodExit, EsodDown
    <2> QED BY <1>1, <2>1, DownQueries
  <1> QED BY <1>1, <1>2, <1>3, <1>4, <1>5 DEF EsodNext, EsodHandle

(***************************************************************************)
(* An esol that asks had no query on its way, and waits for this one.      *)
(***************************************************************************)
LEMMA QueryAsked ==
  ASSUME QueryInv, NetTypeOK, EsolTypeOK, NEW h \in Hosts, NEW d \in Servers,
         client[h].pc \notin {"waitPerm", "waitCred"},
         NEW m \in Messages, Asks(m), m.from = h, inbox' = Queued(d, m),
         pull' = [pull EXCEPT ![h] = [to |-> d, ans |-> NoAnswer]],
         NEW c, client' = [client EXCEPT ![h] = c],
         m.type = "GET_PERM" => c.pc = "waitPerm" /\ m.key = c.key,
         m.type = "GET_CRED" => c.pc = "waitCred" /\ m.cred = c.cred
  PROVE  QueryInv'
  <1>1. /\ pull'[h] = [to |-> d, ans |-> NoAnswer] /\ client'[h] = c
        /\ \A g \in Hosts : g # h => pull'[g] = pull[g] /\ client'[g] = client[g]
    BY DEF NetTypeOK, EsolTypeOK
  <1>2. WaitsFor(m, d)'
    BY <1>1 DEF WaitsFor
  <1>3. /\ Len(inbox[d]) \in Nat /\ Len(inbox'[d]) = Len(inbox[d]) + 1
        /\ inbox'[d][Len(inbox[d]) + 1] = m
        /\ \A j \in 1..Len(inbox[d]) : inbox'[d][j] = inbox[d][j]
        /\ \A r \in Servers : r # d => inbox'[r] = inbox[r]
    BY QueueLast
  <1>4. \A s \in Servers : \A i \in 1..Len(inbox[s]) : Asks(inbox[s][i]) =>
            inbox[s][i].from # h /\ inbox[s][i].from \in Hosts
    BY NobodyWaits, QueryFacts, ElementOfSeq DEF NetTypeOK
  <1>5. ASSUME NEW s \in Servers, NEW i \in 1..Len(inbox[s]), Asks(inbox[s][i])
        PROVE  WaitsFor(inbox[s][i], s) /\ pull'[inbox[s][i].from] = pull[inbox[s][i].from]
               /\ client'[inbox[s][i].from] = client[inbox[s][i].from]
    BY <1>1, <1>4, <1>5 DEF QueryInv
  <1>6. ASSUME NEW s \in Servers, NEW i \in 1..Len(inbox'[s]), Asks(inbox'[s][i])
        PROVE  WaitsFor(inbox[s][i], s)'
    <2>1. CASE i \in 1..Len(inbox[s]) /\ inbox'[s][i] = inbox[s][i]
      BY <1>5, <1>6, <2>1 DEF WaitsFor
    <2>2. CASE s = d /\ i = Len(inbox[d]) + 1
      BY <1>2, <1>3, <2>2 DEF WaitsFor
    <2> QED BY <1>3, <2>1, <2>2
  <1>7. ASSUME NEW s \in Servers, NEW i \in 1..Len(inbox'[s]), NEW j \in 1..Len(inbox'[s]),
               Asks(inbox'[s][i]), Asks(inbox'[s][j]), inbox'[s][j].from = inbox'[s][i].from
        PROVE  i = j
    <2>1. CASE i \in 1..Len(inbox[s]) /\ inbox'[s][i] = inbox[s][i]
      <3>1. inbox'[s][i].from # h
        BY <1>4, <1>7, <2>1
      <3>2. j \in 1..Len(inbox[s]) /\ inbox'[s][j] = inbox[s][j]
        <4>1. ~(s = d /\ j = Len(inbox[d]) + 1)
          BY <1>3, <1>7, <3>1
        <4> QED BY <1>3, <4>1
      <3>3. Asks(inbox[s][i]) /\ Asks(inbox[s][j]) /\ inbox[s][j].from = inbox[s][i].from
        BY <1>7, <2>1, <3>2
      <3> QED BY <2>1, <3>2, <3>3 DEF QueryInv
    <2>2. CASE s = d /\ i = Len(inbox[d]) + 1
      <3>1. inbox'[s][j].from = h
        BY <1>3, <1>7, <2>2
      <3>2. ~(j \in 1..Len(inbox[s]))
        BY <1>3, <1>4, <1>7, <2>2, <3>1
      <3> QED BY <1>3, <2>2, <3>2
    <2> QED BY <1>3, <1>7, <2>1, <2>2
  <1>8. ASSUME NEW g \in Hosts PROVE AnswerFits(g)'
    BY <1>1 DEF QueryInv, AnswerFits, NoAnswer
  <1>9. \A s \in Servers : \A i \in 1..Len(inbox'[s]) : Asks(inbox'[s][i]) =>
            /\ WaitsFor(inbox[s][i], s)'
            /\ \A j \in 1..Len(inbox'[s]) :
                  Asks(inbox'[s][j]) /\ inbox'[s][j].from = inbox'[s][i].from => i = j
    BY <1>6, <1>7
  <1> QED BY <1>8, <1>9 DEF QueryInv, Asks, IsQuery

LEMMA AskQueries ==
  ASSUME QueryInv, IInv, NEW h \in Hosts, AskPerm(h) \/ AskCred(h)
  PROVE  QueryInv'
  <1> DEFINE d == Head(client[h].todo)
             pm == [type |-> "GET_PERM", key |-> client[h].key, from |-> h]
             cm == [type |-> "GET_CRED", cred |-> client[h].cred, from |-> h]
             pc == [client[h] EXCEPT !.pc = "waitPerm"]
             cc == [client[h] EXCEPT !.pc = "waitCred"]
  <1>1. /\ client[h].pc \in {"askPerm", "askCred"} /\ d \in Servers
        /\ pull' = [pull EXCEPT ![h] = [to |-> d, ans |-> NoAnswer]]
        /\ \/ AskPerm(h) /\ inbox' = Queued(d, pm) /\ Goto(h, "waitPerm")
           \/ AskCred(h) /\ inbox' = Queued(d, cm) /\ Goto(h, "waitCred")
    BY DEF AskPerm, AskCred, Ask, At, HasRoom
  <1>2. /\ NetTypeOK /\ EsolTypeOK /\ client[h].key \in AllKeys /\ client[h].cred \in CredIds
        /\ client[h] \in Clients
    BY <1>1, AtFacts DEF IInv, NetInv, EsolInv
  <1>3. \/ inbox' = Queued(d, pm) /\ client' = [client EXCEPT ![h] = pc]
        \/ inbox' = Queued(d, cm) /\ client' = [client EXCEPT ![h] = cc]
    BY <1>1, <1>2 DEF Goto, EsolTypeOK
  <1>4. /\ pc.pc = "waitPerm" /\ pc.key = client[h].key
        /\ cc.pc = "waitCred" /\ cc.cred = client[h].cred
    BY <1>2 DEF Clients
  <1>5. /\ pm \in Messages /\ Asks(pm) /\ pm.from = h /\ pm.type = "GET_PERM" /\ pm.key = client[h].key
        /\ cm \in Messages /\ Asks(cm) /\ cm.from = h /\ cm.type = "GET_CRED" /\ cm.cred = client[h].cred
    <2>1. h # NoOne
      BY ProcsAssumption DEF Procs, Servers
    <2> QED BY <1>2, <2>1 DEF Messages, Queries, Asks, IsQuery
  <1> HIDE DEF d, pm, cm, pc, cc
  <1>6. client[h].pc \notin {"waitPerm", "waitCred"}
    BY <1>1
  <1>7. CASE inbox' = Queued(d, pm) /\ client' = [client EXCEPT ![h] = pc]
    BY <1>1, <1>2, <1>4, <1>5, <1>6, <1>7, QueryAsked
  <1>8. CASE inbox' = Queued(d, cm) /\ client' = [client EXCEPT ![h] = cc]
    BY <1>1, <1>2, <1>4, <1>5, <1>6, <1>8, QueryAsked
  <1> QED BY <1>3, <1>7, <1>8

\* An esol takes the answer: it has no query on its way.
LEMMA GotQueries ==
  ASSUME QueryInv, IInv, NEW h \in Hosts, GotPerm(h) \/ GotCred(h) \/ GotInvalid(h)
  PROVE  QueryInv'
  <1>1. /\ inbox' = inbox /\ pull' = [pull EXCEPT ![h] = NoPull]
        /\ pull[h].ans # NoAnswer /\ NetTypeOK /\ EsolTypeOK
        /\ \E c : client' = [client EXCEPT ![h] = c]
    BY DEF GotPerm, GotCred, GotInvalid, Decide, Goto, Answer, GotoServe, GotoAsk, NoAnswer,
           IInv, NetInv, EsolInv, EsolTypeOK
  <1>2. \A s \in Servers : \A i \in 1..Len(inbox[s]) : Asks(inbox[s][i]) =>
            inbox[s][i].from # h /\ inbox[s][i].from \in Hosts
    BY <1>1, NobodyWaits, QueryFacts, ElementOfSeq DEF NetTypeOK
  <1>3. /\ pull'[h] = NoPull
        /\ \A g \in Hosts : g # h => pull'[g] = pull[g] /\ client'[g] = client[g]
    BY <1>1 DEF NetTypeOK, EsolTypeOK
  <1>4. \A g \in Hosts : AnswerFits(g)'
    BY <1>3 DEF QueryInv, AnswerFits, NoPull, NoAnswer
  <1> QED BY <1>1, <1>2, <1>3, <1>4, QueuesStay, QueriesKept

\* Every step of an esol keeps queries as they should be.
LEMMA EsolQueries == \A h \in Hosts : IInv /\ IInv' /\ QueryInv /\ EsolStep(h) => QueryInv'
  <1> SUFFICES ASSUME NEW h \in Hosts, IInv, IInv', QueryInv, EsolStep(h) PROVE QueryInv'
    OBVIOUS
  <1>1. /\ EsolNext(h) /\ NetTypeOK /\ NetTypeOK' /\ EsolTypeOK
        /\ h \in Servers /\ h \in Procs
    BY DEF EsolStep, IInv, NetInv, EsolInv, Servers, Procs
  <1>2. ASSUME NEW i, EsolUpdatePerm(h, i) \/ EsolDeletePerm(h, i) \/ EsolSpin(h, i)
        PROVE  QueryInv'
    <2>1. i \in Acceptable(h) /\ inbox' = Accepted(h, i) /\ UNCHANGED <<pull, client>>
      BY <1>2 DEF EsolUpdatePerm, EsolDeletePerm, EsolSpin, EsolAccept, Spin, esolVars
    <2> QED BY <1>1, <2>1, AcceptedAt, OnlyQueues
  <1>3. CASE \/ LookupPerm(h) \/ LookupCred(h) \/ PullSpins(h)
             \/ Encrypt(h) \/ Decrypt(h) \/ Hmac(h) \/ Sign(h) \/ Verify(h)
    <2>1. /\ UNCHANGED <<inbox, pull>> /\ \E c : client' = [client EXCEPT ![h] = c]
          /\ \/ client[h].pc \notin {"waitPerm", "waitCred"}
             \/ pull[h].ans.kind = "closed"
      BY <1>1, <1>3 DEF LookupPerm, LookupCred, PullSpins, Encrypt, Decrypt, Hmac, Sign, Verify,
         Serving, UnlessExpired, Operate, Expired, At, Decide, Goto, GotoAsk, GotoServe, Answer,
         net, EsolTypeOK
    <2> QED BY <1>1, <2>1, ClientMoves
  <1>4. CASE EsolExit(h)
    <2>1. Down(h, {}) /\ \A g \in Hosts : g # h => client'[g] = client[g]
      BY <1>1, <1>4 DEF EsolExit, EsolDown, Answer, EsolTypeOK
    <2> QED BY <1>1, <2>1, DownQueries
  <1> QED BY <1>1, <1>2, <1>3, <1>4, AskQueries, GotQueries DEF EsolNext, EsolTcp, EsolUds

\* Admins and programs ask esoca and esol, and no server.
LEMMA EnvQueries ==
  ASSUME IInv, QueryInv, Web \/ (\E h \in Hosts : Program(h)) \/ UNCHANGED vars
  PROVE  QueryInv'
  <1>1. NetTypeOK /\ EsolTypeOK
    BY DEF IInv, NetInv, EsolInv
  <1>2. CASE Web
    <2>1. UNCHANGED <<inbox, pull, client>>
      BY <1>2 DEF Web, WebNext, CreatePerm, CreateCred, UpdatePerm, RemovePerm, Reload, Request,
         net, esolVars
    <2> QED BY <1>1, <2>1, QueuesStay, OnlyQueues
  <1>3. ASSUME NEW h \in Hosts, Program(h) PROVE QueryInv'
    <2>1. /\ UNCHANGED <<inbox, pull>> /\ client[h].pc = "idle"
          /\ \E c : client' = [client EXCEPT ![h] = c]
      BY <1>3 DEF Program, ClientRequest, At, net
    <2> QED BY <1>1, <2>1, ClientMoves
  <1>4. CASE UNCHANGED vars
    <2>1. UNCHANGED <<inbox, pull, client>>
      BY <1>4 DEF vars, net, esolVars
    <2> QED BY <1>1, <2>1, QueuesStay, OnlyQueues
  <1> QED BY <1>2, <1>3, <1>4

\* A process ends or starts again.
LEMMA FaultQueries ==
  ASSUME IInv, IInv', QueryInv, NEW p \in Procs, Kill(p) \/ Restart(p)
  PROVE  QueryInv'
  <1>1. NetTypeOK /\ NetTypeOK' /\ EsolTypeOK
    BY DEF IInv, NetInv, EsolInv
  <1>2. CASE Kill(p)
    <2>1. \E cut : Down(p, cut)
      BY <1>2 DEF Kill, CaDown, CaEnds, EsodDown, EsolDown
    <2>2. \A h \in Hosts : h # p => client'[h] = client[h]
      BY <1>1, <1>2 DEF Kill, esolVars, EsolDown, Answer, EsolTypeOK
    <2> QED BY <1>1, <2>1, <2>2, DownQueries
  <1>3. CASE Restart(p)
    <2>1. UNCHANGED <<inbox, pull, client>>
      BY <1>3 DEF Restart, esolVars
    <2> QED BY <1>1, <2>1, QueuesStay, OnlyQueues
  <1> QED BY <1>2, <1>3

LEMMA QueryStep == IInv /\ QueryInv /\ [Next]_vars => QueryInv'
  <1> SUFFICES ASSUME IInv, QueryInv, [Next]_vars PROVE QueryInv'
    OBVIOUS
  <1>1. IInv'
    BY Inductive
  <1> QED BY <1>1, CaQueries, EsodQueries, EsolQueries, EnvQueries, FaultQueries DEF Next

LEMMA InitQueries == Init => QueryInv
  <1> SUFFICES ASSUME Init PROVE QueryInv
    OBVIOUS
  <1>1. /\ \A s \in Servers : inbox[s] = <<>>
        /\ \A h \in Hosts : pull[h].ans.kind = "none"
    BY DEF Init, NetInit, NoPull, NoAnswer
  <1> QED BY <1>1, EmptySeq DEF QueryInv, AnswerFits

\* Whoever is killed when, an answer finds the esol that asked for it.
LEMMA QueriesAreSound == Spec => [](IInv /\ QueryInv)
  <1>1. Init => IInv /\ QueryInv
    BY InitIInv, InitQueries
  <1>2. IInv /\ QueryInv /\ [Next]_vars => (IInv /\ QueryInv)'
    BY Inductive, QueryStep
  <1> QED BY <1>1, <1>2, PTL DEF Spec

-----------------------------------------------------------------------------
(***************************************************************************)
(* The page.  With one admin whose browser adds no row for what the page   *)
(* lists, there is at most one request to create a credential, made while  *)
(* esoca does not have it: with two admins, with one who loads the page    *)
(* again while a request waits, or with an INSERT of esoca's that may      *)
(* fail, esoca sends out key material that its database does not have.     *)
(***************************************************************************)
PageIsRight ==
    /\ ChecksPage /\ ~Reloads /\ Ca \notin Failing
    /\ \A a, b \in Admins : a = b

Listed(c) == \A a \in Admins : c \in page[a]

Creates(r, c) == r.type = "NEW_CRED" /\ r.cred = c

PageInv ==
    \A c \in CredIds :
        /\ caCreds[c] # NoKey => Listed(c)
        /\ \A i \in 1..Len(requests) : Creates(requests[i], c) =>
              /\ caCreds[c] = NoKey /\ Listed(c)
              /\ \A j \in 1..Len(requests) : Creates(requests[j], c) => i = j

\* A request is added behind those that wait.
LEMMA RequestAdded ==
  ASSUME CaTypeOK, NEW r, requests' = Append(requests, r)
  PROVE  /\ Len(requests) \in Nat /\ Len(requests') = Len(requests) + 1
         /\ requests'[Len(requests) + 1] = r
         /\ \A i \in 1..Len(requests) : requests'[i] = requests[i]
  <1>1. Len(requests) \in Nat /\ \A i \in 1..Len(requests) : requests[i] \in Requests
    BY LenProperties, ElementOfSeq DEF CaTypeOK
  <1> DEFINE T == Requests \cup {r}
  <1>2. requests \in Seq(T)
    BY SeqMonotonic DEF CaTypeOK
  <1> HIDE DEF T
  <1>3. r \in T
    BY DEF T
  <1> QED BY <1>1, <1>2, <1>3, AppendProperties

\* esoca takes the first one.
LEMMA RequestTaken ==
  ASSUME CaTypeOK, requests # <<>>, requests' = Tail(requests)
  PROVE  /\ Len(requests) \in Nat /\ 1 \in 1..Len(requests) /\ Len(requests') = Len(requests) - 1
         /\ requests[1] = Head(requests)
         /\ \A i \in 1..Len(requests') :
               i + 1 \in 1..Len(requests) /\ requests'[i] = requests[i + 1]
  <1>1. requests \in Seq(Requests) /\ Len(requests) \in Nat
    BY LenProperties DEF CaTypeOK
  <1>2. /\ Len(Tail(requests)) = Len(requests) - 1
        /\ \A i \in 1..Len(Tail(requests)) : Tail(requests)[i] = requests[i + 1]
    BY <1>1, HeadTailProperties
  <1>3. Len(requests) # 0 /\ Head(requests) = requests[1]
    BY <1>1, EmptySeq
  <1> QED BY <1>1, <1>2, <1>3

\* Admins: one that adds a credential does not see it listed.
LEMMA PageWeb ==
  ASSUME PageIsRight, IInv, PageInv, Web
  PROVE  PageInv'
  <1>1. UNCHANGED caCreds /\ CaTypeOK /\ page \in [Admins -> SUBSET (Keys \cup CredIds)]
    BY DEF Web, WebNext, CreatePerm, CreateCred, UpdatePerm, RemovePerm, Reload, Request, caVars,
           IInv, CaInv, EnvInv, WebTypeOK
  <1>2. ASSUME NEW a \in Admins, NEW k \in Keys,
               \/ \E m \in Grants : CreatePerm(a, k, m) \/ UpdatePerm(a, k, m)
               \/ RemovePerm(a, k)
        PROVE  PageInv'
    <2>1. \E r : requests' = Append(requests, r) /\ r.type # "NEW_CRED"
      <3>1. PICK type \in {"NEW_PERM", "UPDATE_PERM", "DELETE_PERM"} :
                \E m : requests' = Append(requests, [type |-> type, key |-> k, op |-> m])
        BY <1>2 DEF CreatePerm, UpdatePerm, RemovePerm, Request
      <3>2. PICK m : requests' = Append(requests, [type |-> type, key |-> k, op |-> m])
        BY <3>1
      <3> DEFINE r == [type |-> type, key |-> k, op |-> m]
      <3>3. requests' = Append(requests, r) /\ r.type # "NEW_CRED"
        BY <3>2
      <3> HIDE DEF r
      <3> QED BY <3>3
    <2>2. \A c \in CredIds : Listed(c) => Listed(c)'
      <3>1. \A c \in CredIds : c # k
        BY PageAssumption
      <3> QED BY <1>1, <1>2, <3>1 DEF Listed, CreatePerm, UpdatePerm, RemovePerm
    <2>3. /\ Len(requests) \in Nat /\ Len(requests') = Len(requests) + 1
          /\ requests'[Len(requests) + 1].type # "NEW_CRED"
          /\ \A i \in 1..Len(requests) : requests'[i] = requests[i]
      BY <1>1, <2>1, RequestAdded
    <2>4. \A c : \A i \in 1..Len(requests') : Creates(requests'[i], c) =>
              i \in 1..Len(requests) /\ Creates(requests[i], c)
      BY <2>3 DEF Creates
    <2>5. ASSUME NEW c \in CredIds
          PROVE  /\ caCreds'[c] # NoKey => Listed(c)'
                 /\ \A i \in 1..Len(requests') : Creates(requests'[i], c) =>
                       /\ caCreds'[c] = NoKey /\ Listed(c)'
                       /\ \A j \in 1..Len(requests') : Creates(requests'[j], c) => i = j
      BY <1>1, <2>2, <2>4 DEF PageInv
    <2> QED BY <2>5 DEF PageInv, Creates
  <1>3. ASSUME NEW a \in Admins, NEW c \in CredIds, CreateCred(a, c)
        PROVE  PageInv'
    <2>1. /\ \E r : requests' = Append(requests, r) /\ r.type = "NEW_CRED" /\ r.cred = c
          /\ c \notin page[a] /\ page' = [page EXCEPT ![a] = @ \cup {c}]
      BY <1>3 DEF CreateCred, Request, PageIsRight
    <2>2. /\ Listed(c)' /\ ~Listed(c)
          /\ \A b \in CredIds : Listed(b) => Listed(b)'
      BY <1>1, <2>1 DEF Listed, PageIsRight
    <2>3. /\ Len(requests) \in Nat /\ Len(requests') = Len(requests) + 1
          /\ \A b : Creates(requests'[Len(requests) + 1], b) <=> b = c
          /\ \A i \in 1..Len(requests) : requests'[i] = requests[i]
      BY <1>1, <2>1, RequestAdded DEF Creates
    <2>4. ASSUME NEW b \in CredIds, b # c
          PROVE  /\ caCreds'[b] # NoKey => Listed(b)'
                 /\ \A i \in 1..Len(requests') : Creates(requests'[i], b) =>
                       /\ caCreds'[b] = NoKey /\ Listed(b)'
                       /\ \A j \in 1..Len(requests') : Creates(requests'[j], b) => i = j
      BY <1>1, <2>2, <2>3, <2>4 DEF PageInv
    <2>5. /\ caCreds'[c] = NoKey /\ Listed(c)'
          /\ \A i \in 1..Len(requests) : ~Creates(requests'[i], c)
      BY <1>1, <2>2, <2>3 DEF PageInv
    <2>6. /\ caCreds'[c] # NoKey => Listed(c)'
          /\ \A i \in 1..Len(requests') : Creates(requests'[i], c) =>
                /\ caCreds'[c] = NoKey /\ Listed(c)'
                /\ \A j \in 1..Len(requests') : Creates(requests'[j], c) => i = j
      BY <2>3, <2>5
    <2> QED BY <2>4, <2>6 DEF PageInv, Creates
  <1>4. ASSUME NEW a \in Admins, Reload(a) PROVE FALSE
    BY <1>4 DEF Reload, PageIsRight
  <1> QED BY <1>2, <1>3, <1>4 DEF Web, WebNext

\* What a request for a credential does to esoca's table of credentials.
LEMMA CaCredsStep ==
  ASSUME IInv, CaHandle
  PROVE  /\ requests # <<>> /\ requests' = Tail(requests)
         /\ \A c \in CredIds : caCreds[c] # NoKey => caCreds'[c] = caCreds[c]
         /\ \A c \in CredIds : caCreds'[c] # caCreds[c] => Creates(Head(requests), c)
  <1>1. PICK r \in Requests :
            CaNewPerm(r) \/ CaUpdatePerm(r) \/ CaDeletePerm(r) \/ CaNewCred(r)
    BY DEF CaHandle
  <1>2. requests # <<>> /\ requests' = Tail(requests) /\ r = Head(requests)
    BY <1>1 DEF CaNewPerm, CaUpdatePerm, CaDeletePerm, CaNewCred, Accept
  <1>3. CASE ~CaNewCred(r)
    <2>1. UNCHANGED caCreds
      BY <1>1, <1>3 DEF CaNewPerm, CaUpdatePerm, CaDeletePerm
    <2> QED BY <1>2, <2>1
  <1>4. CASE CaNewCred(r)
    <2>1. /\ r.type = "NEW_CRED"
          /\ caCreds' \in {caCreds, create_credential(caCreds, r.cred, freshKey)}
      BY <1>4 DEF CaNewCred, perform_query
    <2>2. \A c \in CredIds : c # r.cred => caCreds'[c] = caCreds[c]
      BY <2>1 DEF create_credential, IInv, CaInv, CaTypeOK
    <2>3. \A c \in CredIds : c = r.cred /\ caCreds[c] # NoKey => caCreds'[c] = caCreds[c]
      BY <2>1 DEF create_credential, IInv, CaInv, CaTypeOK
    <2> QED BY <1>2, <2>1, <2>2, <2>3 DEF Creates
  <1> QED BY <1>3, <1>4

LEMMA PageStep ==
  ASSUME PageIsRight, IInv, PageInv, [Next]_vars
  PROVE  PageInv'
  <1>1. CASE CaHandle /\ UNCHANGED webVars
    <2>1. /\ Len(requests) \in Nat /\ 1 \in 1..Len(requests) /\ Len(requests') = Len(requests) - 1
          /\ requests[1] = Head(requests)
          /\ \A i \in 1..Len(requests') :
                i + 1 \in 1..Len(requests) /\ requests'[i] = requests[i + 1]
      <3>1. CaTypeOK
        BY DEF IInv, CaInv
      <3> QED BY <1>1, <3>1, CaCredsStep, RequestTaken
    <2>2. \A c : Listed(c) <=> Listed(c)'
      BY <1>1 DEF webVars, Listed
    <2>3. ASSUME NEW c \in CredIds
          PROVE  /\ caCreds'[c] # NoKey => Listed(c)
                 /\ \A i \in 1..Len(requests') : Creates(requests[i + 1], c) =>
                       /\ caCreds'[c] = NoKey /\ Listed(c)
                       /\ \A j \in 1..Len(requests') : Creates(requests[j + 1], c) => i = j
      <3>1. caCreds'[c] = caCreds[c] \/ Creates(requests[1], c)
        BY <1>1, <2>1, CaCredsStep
      <3>2. Creates(requests[1], c) =>
                Listed(c) /\ \A i \in 1..Len(requests') : ~Creates(requests[i + 1], c)
        <4>1. ASSUME Creates(requests[1], c), NEW i \in 1..Len(requests'),
                     Creates(requests[i + 1], c)
              PROVE  FALSE
          <5>1. 1 = i + 1
            BY <2>1, <4>1 DEF PageInv
          <5> QED BY <2>1, <5>1
        <4> QED BY <2>1, <4>1 DEF PageInv
      <3>3. \A i, j \in 1..Len(requests') :
                Creates(requests[i + 1], c) /\ Creates(requests[j + 1], c) => i = j
        <4>1. ASSUME NEW i \in 1..Len(requests'), NEW j \in 1..Len(requests'),
                     Creates(requests[i + 1], c), Creates(requests[j + 1], c)
              PROVE  i = j
          <5>1. i + 1 = j + 1
            BY <2>1, <4>1 DEF PageInv
          <5> QED BY <2>1, <5>1
        <4> QED BY <4>1
      <3>4. \A i \in 1..Len(requests') : Creates(requests[i + 1], c) =>
                caCreds[c] = NoKey /\ Listed(c)
        BY <2>1 DEF PageInv
      <3> QED BY <3>1, <3>2, <3>3, <3>4 DEF PageInv
    <2> QED BY <2>1, <2>2, <2>3 DEF PageInv, Creates
  <1>2. CASE UNCHANGED <<caCreds, page>> /\ (requests' = requests \/ requests' = <<>>)
    BY <1>2, EmptySeq DEF PageInv, Listed
  <1>3. CASE EsocaStep
    BY <1>1, <1>2, <1>3 DEF EsocaStep, CaNext, CaSend, CaExit, CaDies, CaDown, CaEnds, webVars
  <1>4. ASSUME NEW p \in Procs, Kill(p) PROVE PageInv'
    BY <1>2, <1>4 DEF Kill, CaDown, CaEnds, webVars, caVars
  <1>5. CASE \/ \E d \in Esods : EsodStep(d)
             \/ \E h \in Hosts : EsolStep(h) \/ Program(h)
             \/ \E p \in Procs : Restart(p)
             \/ UNCHANGED vars
    BY <1>2, <1>5 DEF EsodStep, EsolStep, Program, Restart, vars, webVars, caVars
  <1> QED BY <1>3, <1>4, <1>5, PageWeb DEF Next

LEMMA InitPage == Init => PageInv
  BY EmptySeq DEF Init, CaInit, NoCreds, PageInv

-----------------------------------------------------------------------------
(***************************************************************************)
(* Key material.  Whatever carries the material of a credential carries    *)
(* what esoca has for it: the messages, and the answers that esols wait    *)
(* for.                                                                    *)
(***************************************************************************)
KnownMessages == {m \in Messages : m \in CredPushes => m.mat = caCreds[m.cred]}

CredInv ==
    /\ caJob.msg \in KnownMessages
    /\ inbox \in [Servers -> Seq(KnownMessages)]
    /\ \A h \in Hosts : pull[h].ans.kind = "cred" => pull[h].ans.mat = caCreds[client[h].cred]
    /\ CredsAgree

LEMMA KnownFacts ==
  /\ Torn \in KnownMessages /\ PermPushes \subseteq KnownMessages /\ Queries \subseteq KnownMessages
  /\ \A m \in KnownMessages : m \in Messages
  /\ \A m \in KnownMessages : \A p : Orphaned(m, p) \in KnownMessages
  <1>1. /\ Torn \in KnownMessages /\ PermPushes \subseteq KnownMessages
        /\ Queries \subseteq KnownMessages /\ \A m \in KnownMessages : m \in Messages
    BY DEF KnownMessages, Messages, Pushes, Queries, PermPushes, CredPushes, Torn
  <1>2. ASSUME NEW m \in KnownMessages, NEW p PROVE Orphaned(m, p) \in KnownMessages
    <2>1. CASE IsQuery(m)
      <3>1. m \in Queries
        BY <1>1, <2>1, MessageFacts DEF IsQuery, Queries
      <3>2. Orphaned(m, p) \in Queries
        BY <3>1 DEF Orphaned, Queries
      <3> QED BY <1>1, <3>2
    <2>2. CASE ~IsQuery(m)
      BY <2>2 DEF Orphaned
    <2> QED BY <2>1, <2>2
  <1> QED BY <1>1, <1>2

\* esoca's table only gains key material: what is known stays known.
LEMMA CredsGrow ==
  ASSUME IInv, QueryInv, CredInv, UNCHANGED <<net, esodVars, esolVars>>, caJob'.msg \in KnownMessages',
         \A c \in CredIds : caCreds[c] # NoKey => caCreds'[c] = caCreds[c]
  PROVE  CredInv'
  <1>1. KnownMessages \subseteq KnownMessages'
    BY DEF KnownMessages, CredPushes
  <1>2. inbox' \in [Servers -> Seq(KnownMessages')]
    BY <1>1, SeqMonotonic DEF CredInv, net
  <1>3. ASSUME NEW h \in Hosts, pull'[h].ans.kind = "cred"
        PROVE  pull'[h].ans.mat = caCreds'[client'[h].cred]
    <2>1. /\ pull[h].ans.kind = "cred" /\ pull'[h] = pull[h] /\ client'[h] = client[h]
          /\ pull[h].ans \in Answers
      BY <1>3 DEF net, esolVars, IInv, NetInv, NetTypeOK
    <2>2. pull[h].ans.mat # NoKey /\ pull[h].ans.mat = caCreds[client[h].cred]
      BY <2>1 DEF Answers, CredInv
    <2>3. client[h].cred \in CredIds
      BY <2>1 DEF QueryInv, AnswerFits, IInv, EsolInv, ClientSound, SoundClient
    <2> QED BY <2>1, <2>2, <2>3
  <1>4. CredsAgree'
    <2>1. ASSUME NEW h \in Hosts, client[h].pc = "serve"
          PROVE  client[h].mat \in {NoKey, caCreds'[client[h].cred]}
      <3>1. client[h].cred \in CredIds
        BY <2>1 DEF IInv, EsolInv, ClientSound, SoundClient
      <3> QED BY <2>1, <3>1 DEF CredInv, CredsAgree
    <2>2. /\ \A d \in Esods, c \in CredIds : dCreds'[d][c] \in {NoKey, caCreds'[c]}
          /\ \A h \in Hosts, c \in CredIds : hCreds'[h][c] \in {NoKey, caCreds'[c]}
      BY DEF esodVars, esolVars, CredInv, CredsAgree
    <2> QED BY <2>1, <2>2 DEF esolVars, CredsAgree
  <1> QED BY <1>2, <1>3, <1>4 DEF CredInv

(***************************************************************************)
(* The end of a process: its databases stay, nothing else is added.        *)
(***************************************************************************)
LEMMA DownCreds ==
  ASSUME CredInv, NEW p \in Procs, NEW cut, Down(p, cut), UNCHANGED <<caCreds, dCreds, hCreds>>,
         caJob'.msg \in {caJob.msg, Torn},
         \A h \in Hosts : client'[h] = client[h] \/ (h = p /\ client'[h] = NoClient)
  PROVE  CredInv'
  <1>1. KnownMessages' = KnownMessages
    BY DEF KnownMessages
  <1>2. inbox' \in [Servers -> Seq(KnownMessages)]
    BY DownType, KnownFacts DEF CredInv
  <1>3. \A h \in Hosts : pull'[h].ans.kind = "cred" =>
            pull'[h].ans.mat = caCreds'[client'[h].cred]
    <2>1. ASSUME NEW h \in Hosts, pull'[h].ans.kind = "cred"
          PROVE  pull'[h] = pull[h] /\ h # p
      BY <2>1 DEF Down, NoPull, NoAnswer
    <2> QED BY <2>1 DEF CredInv
  <1>4. CredsAgree'
    BY DEF CredInv, CredsAgree, NoClient
  <1> QED BY <1>1, <1>2, <1>3, <1>4, KnownFacts DEF CredInv

\* esoca: nothing is pending for a credential that it has.
LEMMA CaCredInv ==
  ASSUME PageIsRight, IInv, QueryInv, PageInv, CredInv, EsocaStep
  PROVE  CredInv'
  <1>1. UNCHANGED <<esodVars, esolVars>> /\ CaNext /\ CaTypeOK
    BY DEF EsocaStep, IInv, CaInv
  <1>2. CASE CaHandle
    <2>1. PICK r \in Requests :
              CaNewPerm(r) \/ CaUpdatePerm(r) \/ CaDeletePerm(r) \/ CaNewCred(r)
      BY <1>2 DEF CaHandle
    <2>2. caJob'.msg \in KnownMessages'
      <3>1. caJob'.msg \in Messages
        BY <1>2, HandleSound, MessageFacts DEF CaInv, CaTypeOK, Messages
      <3>2. CASE ~CaNewCred(r)
        <4>1. caJob'.msg.type # "NEW_CRED"
          BY <2>1, <3>2 DEF CaNewPerm, CaUpdatePerm, CaDeletePerm, IssuePerm, Propagate
        <4> QED BY <3>1, <4>1, MessageFacts DEF KnownMessages
      <3>3. CASE CaNewCred(r)
        <4>1. /\ requests # <<>> /\ r = Head(requests) /\ requests' = Tail(requests)
              /\ r.type = "NEW_CRED" /\ r.cred \in CredIds
              /\ caCreds' = create_credential(caCreds, r.cred, freshKey)
              /\ caJob'.msg = [type |-> "NEW_CRED", cred |-> r.cred, mat |-> freshKey]
          BY <3>3 DEF CaNewCred, Accept, Propagate, perform_query, PageIsRight,
             Requests, PermRequests, CredRequests
        <4>2. caCreds[r.cred] = NoKey
          BY <1>1, <4>1, RequestTaken DEF PageInv, Creates
        <4>3. caCreds'[r.cred] = freshKey
          BY <1>1, <4>1, <4>2 DEF create_credential, CaTypeOK
        <4> QED BY <3>1, <4>1, <4>3 DEF KnownMessages
      <3> QED BY <3>2, <3>3
    <2> QED BY <1>1, <1>2, <2>2, CaCredsStep, HandleSound, CredsGrow
  <1>3. CASE CaSend
    <2> DEFINE d == Head(caJob.todo)
    <2>1. /\ d \in Servers /\ inbox' = Queued(d, caJob.msg) /\ UNCHANGED <<pull, caCreds>>
          /\ caJob'.msg \in {caJob.msg, Torn}
      BY <1>1, <1>3 DEF CaSend, HasRoom, NoJob, CaTypeOK
    <2>2. KnownMessages' = KnownMessages
      BY <2>1 DEF KnownMessages
    <2>3. inbox' \in [Servers -> Seq(KnownMessages)]
      BY <2>1, QueuedType DEF CredInv
    <2> QED BY <1>1, <2>1, <2>2, <2>3, KnownFacts DEF CredInv, CredsAgree, esodVars, esolVars
  <1>4. CASE CaExit \/ CaDies
    <2>1. /\ Down(Ca, {}) /\ Ca \in Procs /\ caJob'.msg = Torn
          /\ UNCHANGED <<caCreds, dCreds, hCreds, client>>
      BY <1>1, <1>4 DEF CaExit, CaDies, CaDown, CaEnds, NoJob, esodVars, esolVars, Procs
    <2> QED BY <2>1, DownCreds
  <1> QED BY <1>1, <1>2, <1>3, <1>4 DEF CaNext

\* Steps of a daemon that leave esoca, the programs and the answers alone.
LEMMA CredsKept ==
  ASSUME CredInv, UNCHANGED <<caCreds, caJob, pull, client>>,
         inbox' \in [Servers -> Seq(KnownMessages)],
         \A d \in Esods, c \in CredIds : dCreds'[d][c] \in {NoKey, caCreds[c]},
         \A h \in Hosts, c \in CredIds : hCreds'[h][c] \in {NoKey, caCreds[c]}
  PROVE  CredInv'
  <1>1. KnownMessages' = KnownMessages
    BY DEF KnownMessages
  <1>2. CredsAgree'
    BY DEF CredInv, CredsAgree
  <1> QED BY <1>1, <1>2 DEF CredInv

(***************************************************************************)
(* esod stores the material that a message carries, and answers with the   *)
(* material it has.                                                        *)
(***************************************************************************)
LEMMA EsodCredInv ==
  ASSUME IInv, QueryInv, CredInv, NEW d \in Esods, EsodStep(d)
  PROVE  CredInv'
  <1>1. /\ EsodNext(d) /\ UNCHANGED <<caCreds, caJob, client, hCreds>> /\ d \in Servers /\ d \in Procs
        /\ NetTypeOK /\ EsodTypeOK
        /\ inbox \in [Servers -> Seq(KnownMessages)]
        /\ \A e \in Esods, c \in CredIds : dCreds[e][c] \in {NoKey, caCreds[c]}
        /\ \A h \in Hosts, c \in CredIds : hCreds[h][c] \in {NoKey, caCreds[c]}
    BY DEF EsodStep, caVars, esolVars, Servers, Procs, IInv, NetInv, EsodInv, CredInv, CredsAgree
  <1>2. ASSUME NEW i, EsodUpdatePerm(d, i) \/ EsodDeletePerm(d, i) \/ EsodSpin(d, i)
        PROVE  CredInv'
    <2>1. i \in Acceptable(d) /\ inbox' = Accepted(d, i) /\ UNCHANGED <<pull, dCreds>>
      BY <1>2 DEF EsodUpdatePerm, EsodDeletePerm, EsodSpin, EsodAccept, Spin, esodVars
    <2>2. inbox' \in [Servers -> Seq(KnownMessages)]
      BY <1>1, <2>1, AcceptedType
    <2> QED BY <1>1, <2>1, <2>2, CredsKept
  <1>3. ASSUME NEW i, EsodNewCred(d, i)
        PROVE  CredInv'
    <2> DEFINE m == inbox[d][i]
    <2>1. /\ i \in Acceptable(d) /\ inbox' = Accepted(d, i) /\ UNCHANGED pull
          /\ m.type = "NEW_CRED"
          /\ \E table \in {dCreds[d], create_credential(dCreds[d], m.cred, m.mat)} :
                 dCreds' = [dCreds EXCEPT ![d] = table]
      BY <1>3 DEF EsodNewCred, EsodAccept, perform_query
    <2>2. inbox' \in [Servers -> Seq(KnownMessages)] /\ m \in KnownMessages
      BY <1>1, <2>1, AcceptedType
    <2> HIDE DEF m
    <2>3. m.cred \in CredIds /\ m.mat = caCreds[m.cred]
      BY <2>1, <2>2, KnownFacts, MessageFacts DEF KnownMessages, CredPushes
    <2>4. \A c \in CredIds :
              create_credential(dCreds[d], m.cred, m.mat)[c] \in {NoKey, caCreds[c]}
      BY <1>1, <2>3 DEF create_credential, EsodTypeOK
    <2>5. \A e \in Esods, c \in CredIds : dCreds'[e][c] \in {NoKey, caCreds[c]}
      BY <1>1, <2>1, <2>4 DEF EsodTypeOK
    <2> QED BY <1>1, <2>1, <2>2, <2>5, CredsKept
  <1>4. ASSUME NEW i, EsodGetPerm(d, i) \/ EsodGetCred(d, i)
        PROVE  CredInv'
    <2> DEFINE m == inbox[d][i]
    <2>1. i \in Acceptable(d) /\ inbox' = Accepted(d, i) /\ UNCHANGED dCreds
      BY <1>4 DEF EsodGetPerm, EsodGetCred, EsodAccept, esodVars
    <2>2. inbox' \in [Servers -> Seq(KnownMessages)] /\ i \in 1..Len(inbox[d]) /\ m \in Messages
      BY <1>1, <2>1, AcceptedType, KnownFacts DEF Acceptable
    <2>3. CASE UNCHANGED pull
      BY <1>1, <2>1, <2>2, <2>3, CredsKept
    <2>4. CASE ~UNCHANGED pull
      <3>1. PICK a : /\ Asks(m) /\ pull' = Answered(m.from, a)
                     /\ a.kind = "cred" =>
                           m.type = "GET_CRED" /\ a.mat # NoKey /\ a.mat = dCreds[d][m.cred]
        <4>1. CASE EsodGetPerm(d, i)
          <5>1. Asks(m) /\ pull' = Answered(m.from, PermAnswer(d, m.key))
            BY <2>4, <4>1 DEF EsodGetPerm, EsodAccept, Reply, ReplyLost, Asks, IsQuery
          <5> QED BY <5>1 DEF PermAnswer
        <4>2. CASE EsodGetCred(d, i)
          <5>1. PICK mat \in {NoKey, dCreds[d][m.cred]} :
                    /\ m.type = "GET_CRED" /\ Asks(m) /\ pull' = Answered(m.from, CredAnswer(mat))
            BY <2>4, <4>2 DEF EsodGetCred, EsodAccept, Reply, ReplyLost, Asks, IsQuery, get_result
          <5>2. CredAnswer(mat).kind = "cred" => CredAnswer(mat).mat = mat /\ mat # NoKey
            BY DEF CredAnswer
          <5> QED BY <5>1, <5>2
        <4> QED BY <1>4, <4>1, <4>2
      <3>2. WaitsFor(m, d) /\ m.from \in Hosts
        BY <1>1, <2>2, <3>1, QueryFacts DEF QueryInv
      <3> HIDE DEF m
      <3>3. \A g \in Hosts : pull'[g] = IF g = m.from THEN [pull[g] EXCEPT !.ans = a] ELSE pull[g]
        BY <1>1, <3>1, <3>2 DEF Answered, NetTypeOK
      <3>4. ASSUME NEW g \in Hosts, pull'[g].ans.kind = "cred"
            PROVE  pull'[g].ans.mat = caCreds[client[g].cred]
        <4>1. CASE g # m.from
          BY <3>3, <3>4, <4>1 DEF CredInv
        <4>2. CASE g = m.from
          <5>1. pull'[g].ans = a
            BY <1>1, <3>3, <4>2 DEF NetTypeOK
          <5>2. m.type = "GET_CRED" /\ a.mat # NoKey /\ a.mat = dCreds[d][m.cred]
            BY <3>1, <3>4, <5>1
          <5>3. m.cred \in CredIds /\ m.cred = client[g].cred
            BY <2>2, <3>2, <4>2, <5>2, MessageFacts DEF WaitsFor, m
          <5> QED BY <1>1, <5>1, <5>2, <5>3
        <4> QED BY <4>1, <4>2
      <3>5. KnownMessages' = KnownMessages /\ CredsAgree'
        BY <1>1, <2>1 DEF KnownMessages, CredInv, CredsAgree
      <3> QED BY <1>1, <2>2, <3>4, <3>5 DEF CredInv
    <2> QED BY <2>3, <2>4
  <1>5. CASE EsodForward(d)
    <2> DEFINE m == dJob[d]
    <2>1. m.key.loc \in Servers /\ inbox' = Queued(m.key.loc, m) /\ UNCHANGED <<pull, dCreds>>
      BY <1>5 DEF EsodForward, HasRoom
    <2>2. m \in KnownMessages
      BY <1>1, KnownFacts DEF EsodTypeOK, Idle
    <2> HIDE DEF m
    <2>3. inbox' \in [Servers -> Seq(KnownMessages)]
      BY <1>1, <2>1, <2>2, QueuedType
    <2> QED BY <1>1, <2>1, <2>3, CredsKept
  <1>6. CASE EsodExit(d)
    <2>1. Down(d, {}) /\ UNCHANGED dCreds
      BY <1>6 DEF EsodExit, EsodDown
    <2> QED BY <1>1, <2>1, DownCreds
  <1> QED BY <1>1, <1>2, <1>3, <1>4, <1>5, <1>6 DEF EsodNext, EsodHandle

(***************************************************************************)
(* The request of h's program moves: it is served, if at all, with what    *)
(* esoca has, and no answer with key material waits for it.                *)
(***************************************************************************)
LEMMA ClientCreds ==
  ASSUME CredInv, EsolTypeOK, NEW h \in Hosts, NEW c, client' = [client EXCEPT ![h] = c],
         UNCHANGED <<caCreds, caJob, dCreds>>,
         inbox' \in [Servers -> Seq(KnownMessages)],
         \A g \in Hosts : g # h => pull'[g] = pull[g],
         pull'[h].ans.kind # "cred",
         \A g \in Hosts, k \in CredIds : hCreds'[g][k] \in {NoKey, caCreds[k]},
         c.pc = "serve" => c.mat \in {NoKey, caCreds[c.cred]}
  PROVE  CredInv'
  <1>1. KnownMessages' = KnownMessages
    BY DEF KnownMessages
  <1>2. \A g \in Hosts : client'[g] = IF g = h THEN c ELSE client[g]
    BY DEF EsolTypeOK
  <1>3. CredsAgree'
    BY <1>2 DEF CredInv, CredsAgree
  <1>4. \A g \in Hosts : pull'[g].ans.kind = "cred" => pull'[g].ans.mat = caCreds'[client'[g].cred]
    BY <1>2 DEF CredInv
  <1> QED BY <1>1, <1>3, <1>4 DEF CredInv

\* The ways a request moves on that are not to be served.
LEMMA QuietMoves ==
  ASSUME EsolTypeOK, NEW h \in Hosts,
         \/ Answer(h)
         \/ \E pc \in {"cred", "spin", "waitPerm", "waitCred"} : Goto(h, pc)
         \/ \E pc \in {"askPerm", "askCred"} : \E todo : GotoAsk(h, pc, todo)
  PROVE  \E c : client' = [client EXCEPT ![h] = c] /\ c.pc # "serve"
  <1>1. client[h] \in Clients
    BY DEF EsolTypeOK
  <1>2. CASE Answer(h)
    <2>1. client' = [client EXCEPT ![h] = NoClient] /\ NoClient.pc # "serve"
      BY <1>2 DEF Answer, NoClient
    <2> QED BY <2>1
  <1>3. ASSUME NEW pc \in {"cred", "spin", "waitPerm", "waitCred"}, Goto(h, pc)
        PROVE  \E c : client' = [client EXCEPT ![h] = c] /\ c.pc # "serve"
    <2> DEFINE c == [client[h] EXCEPT !.pc = pc]
    <2>1. c.pc = pc /\ client' = [client EXCEPT ![h] = c]
      BY <1>1, <1>3 DEF Goto, EsolTypeOK, Clients
    <2> HIDE DEF c
    <2> QED BY <2>1
  <1>4. ASSUME NEW pc \in {"askPerm", "askCred"}, NEW todo, GotoAsk(h, pc, todo)
        PROVE  \E c : client' = [client EXCEPT ![h] = c] /\ c.pc # "serve"
    <2> DEFINE c == [client[h] EXCEPT !.pc = pc, !.todo = todo]
    <2>1. c.pc = pc /\ client' = [client EXCEPT ![h] = c]
      BY <1>1, <1>4 DEF GotoAsk, EsolTypeOK, Clients
    <2> HIDE DEF c
    <2> QED BY <2>1
  <1> QED BY <1>2, <1>3, <1>4

\* What esol serves with comes from its table or from an esod's.
LEMMA EsolCredInv ==
  ASSUME IInv, QueryInv, CredInv, NEW h \in Hosts, EsolStep(h)
  PROVE  CredInv'
  <1>1. /\ EsolNext(h) /\ UNCHANGED <<caCreds, caJob, dCreds>> /\ h \in Servers /\ h \in Procs
        /\ NetTypeOK /\ EsolTypeOK /\ client[h] \in Clients
        /\ inbox \in [Servers -> Seq(KnownMessages)]
        /\ \A d \in Esods, c \in CredIds : dCreds[d][c] \in {NoKey, caCreds[c]}
        /\ \A g \in Hosts, c \in CredIds : hCreds[g][c] \in {NoKey, caCreds[c]}
    BY DEF EsolStep, caVars, esodVars, Servers, Procs, IInv, NetInv, EsolInv, EsolTypeOK,
       CredInv, CredsAgree
  <1>2. ASSUME NEW i, EsolUpdatePerm(h, i) \/ EsolDeletePerm(h, i) \/ EsolSpin(h, i)
        PROVE  CredInv'
    <2>1. i \in Acceptable(h) /\ inbox' = Accepted(h, i) /\ UNCHANGED <<pull, client, hCreds>>
      BY <1>2 DEF EsolUpdatePerm, EsolDeletePerm, EsolSpin, EsolAccept, Spin, esolVars
    <2>2. inbox' \in [Servers -> Seq(KnownMessages)]
      BY <1>1, <2>1, AcceptedType
    <2> QED BY <1>1, <2>1, <2>2, CredsKept
  <1>3. pull[h].ans.kind = "cred" => client[h].pc = "waitCred"
    BY DEF QueryInv, AnswerFits
  <1>4. CASE \/ LookupPerm(h) \/ LookupCred(h) \/ PullSpins(h)
             \/ Encrypt(h) \/ Decrypt(h) \/ Hmac(h) \/ Sign(h) \/ Verify(h)
    <2>1. UNCHANGED <<inbox, pull, hCreds>> /\ pull[h].ans.kind # "cred"
      BY <1>3, <1>4 DEF LookupPerm, LookupCred, PullSpins, Encrypt, Decrypt, Hmac, Sign, Verify,
         Serving, At, net, tables
    <2>2. PICK c : /\ client' = [client EXCEPT ![h] = c]
                   /\ c.pc = "serve" => c.mat \in {NoKey, caCreds[c.cred]}
      <3>1. CASE LookupCred(h)
        <4>1. PICK mat \in {NoKey, hCreds[h][client[h].cred]} :
                  \/ GotoServe(h, mat) \/ GotoAsk(h, "askCred", Locations)
          BY <3>1 DEF LookupCred, get_result
        <4>2. client[h].cred \in CredIds
          BY <3>1 DEF LookupCred, At, IInv, EsolInv, ClientSound, SoundClient
        <4>3. CASE GotoServe(h, mat)
          <5> DEFINE c == [client[h] EXCEPT !.pc = "serve", !.mat = mat]
          <5>1. client' = [client EXCEPT ![h] = c] /\ c.mat = mat /\ c.cred = client[h].cred
            BY <1>1, <4>3 DEF GotoServe, EsolTypeOK, Clients
          <5> HIDE DEF c
          <5> QED BY <1>1, <4>1, <4>2, <5>1
        <4>4. CASE GotoAsk(h, "askCred", Locations)
          BY <1>1, <4>4, QuietMoves
        <4> QED BY <4>1, <4>3, <4>4
      <3>2. CASE LookupPerm(h) \/ PullSpins(h)
        <4>1. \/ Goto(h, "cred") \/ Goto(h, "spin") \/ Answer(h)
              \/ GotoAsk(h, "askPerm", Locations)
          BY <3>2 DEF LookupPerm, PullSpins, Decide
        <4> QED BY <1>1, <4>1, QuietMoves
      <3>3. CASE Encrypt(h) \/ Decrypt(h) \/ Hmac(h) \/ Sign(h) \/ Verify(h)
        <4>1. Answer(h)
          BY <3>3 DEF Encrypt, Decrypt, Hmac, Sign, Verify, UnlessExpired, Operate, Expired
        <4> QED BY <1>1, <4>1, QuietMoves
      <3> QED BY <1>4, <3>1, <3>2, <3>3
    <2> QED BY <1>1, <2>1, <2>2, ClientCreds
  <1>5. CASE AskPerm(h) \/ AskCred(h)
    <2>1. PICK m \in Messages, d \in Servers :
              /\ ~(m \in CredPushes) /\ inbox' = Queued(d, m)
              /\ pull' = [pull EXCEPT ![h] = [to |-> d, ans |-> NoAnswer]]
              /\ Goto(h, "waitPerm") \/ Goto(h, "waitCred")
              /\ UNCHANGED hCreds
      <3>1. client[h].key \in AllKeys /\ client[h].cred \in CredIds
        BY <1>1, <1>5, AtFacts DEF AskPerm, AskCred, At, IInv, EsolInv
      <3>2. [type |-> "GET_PERM", key |-> client[h].key, from |-> h] \in Queries
            /\ [type |-> "GET_CRED", cred |-> client[h].cred, from |-> h] \in Queries
        BY <3>1 DEF Queries
      <3>3. \A m \in Queries : m \in Messages /\ ~(m \in CredPushes)
        BY DEF Messages, Queries, CredPushes
      <3> QED BY <1>5, <3>2, <3>3 DEF AskPerm, AskCred, Ask, HasRoom, tables
    <2>2. inbox' \in [Servers -> Seq(KnownMessages)]
      <3>1. m \in KnownMessages
        BY <2>1 DEF KnownMessages
      <3> QED BY <1>1, <2>1, <3>1, QueuedType
    <2>3. /\ \A g \in Hosts : g # h => pull'[g] = pull[g]
          /\ pull'[h].ans.kind # "cred"
      BY <1>1, <2>1 DEF NetTypeOK, NoAnswer
    <2> QED BY <1>1, <2>1, <2>2, <2>3, QuietMoves, ClientCreds
  <1>6. CASE GotPerm(h) \/ GotInvalid(h) \/ GotCred(h)
    <2>1. /\ inbox' = inbox /\ \A g \in Hosts : g # h => pull'[g] = pull[g]
          /\ pull'[h].ans.kind # "cred"
      BY <1>1, <1>6 DEF GotPerm, GotInvalid, GotCred, NetTypeOK, NoPull, NoAnswer
    <2>2. CASE GotPerm(h)
      <3>1. UNCHANGED hCreds /\ (Goto(h, "cred") \/ Answer(h))
        BY <2>2 DEF GotPerm, Decide
      <3> QED BY <1>1, <2>1, <3>1, QuietMoves, ClientCreds
    <2> DEFINE served(mat) == [client[h] EXCEPT !.pc = "serve", !.mat = mat]
    <2>3. /\ \A mat \in {NoKey, pull[h].ans.mat} :
                 GotoServe(h, mat) => client' = [client EXCEPT ![h] = served(mat)]
          /\ \A mat : served(mat).mat = mat /\ served(mat).cred = client[h].cred
      BY <1>1 DEF GotoServe, EsolTypeOK, Clients
    <2> HIDE DEF served
    <2>4. CASE GotInvalid(h)
      <3>1. UNCHANGED hCreds /\ (GotoServe(h, NoKey) \/ \E todo : GotoAsk(h, "askCred", todo))
        BY <2>4 DEF GotInvalid, tables
      <3> QED BY <1>1, <2>1, <2>3, <3>1, QuietMoves, ClientCreds
    <2>5. CASE GotCred(h)
      <3> DEFINE mat == pull[h].ans.mat
                 k == client[h].cred
      <3>1. mat = caCreds[k] /\ k \in CredIds
        BY <2>5 DEF GotCred, At, CredInv, IInv, EsolInv, ClientSound, SoundClient
      <3>2. /\ GotoServe(h, mat)
            /\ \E table \in {hCreds[h], create_credential(hCreds[h], k, mat)} :
                   hCreds' = [hCreds EXCEPT ![h] = table]
        BY <2>5 DEF GotCred, perform_query
      <3> HIDE DEF mat, k
      <3>3. \A c \in CredIds : create_credential(hCreds[h], k, mat)[c] \in {NoKey, caCreds[c]}
        BY <1>1, <3>1 DEF create_credential, EsolTypeOK
      <3>4. \A g \in Hosts, c \in CredIds : hCreds'[g][c] \in {NoKey, caCreds[c]}
        BY <1>1, <3>2, <3>3 DEF EsolTypeOK
      <3>5. /\ client' = [client EXCEPT ![h] = served(mat)]
            /\ served(mat).mat = mat /\ served(mat).cred = k
        BY <2>3, <3>2 DEF mat, k
      <3> QED BY <1>1, <2>1, <3>1, <3>4, <3>5, ClientCreds
    <2> QED BY <1>6, <2>2, <2>4, <2>5
  <1>7. CASE EsolExit(h)
    <2>1. /\ Down(h, {}) /\ UNCHANGED hCreds
          /\ \A g \in Hosts : client'[g] = client[g] \/ (g = h /\ client'[g] = NoClient)
      BY <1>1, <1>7 DEF EsolExit, EsolDown, Answer, tables, EsolTypeOK
    <2> QED BY <1>1, <2>1, DownCreds
  <1> QED BY <1>1, <1>2, <1>4, <1>5, <1>6, <1>7 DEF EsolNext, EsolTcp, EsolUds

\* Every step, those of admins, programs and killers too.
LEMMA CredStep ==
  ASSUME PageIsRight, IInv, QueryInv, PageInv, CredInv, [Next]_vars
  PROVE  CredInv'
  <1>1. /\ NetTypeOK /\ EsolTypeOK /\ inbox \in [Servers -> Seq(KnownMessages)]
        /\ \A d \in Esods, c \in CredIds : dCreds[d][c] \in {NoKey, caCreds[c]}
        /\ \A h \in Hosts, c \in CredIds : hCreds[h][c] \in {NoKey, caCreds[c]}
    BY DEF IInv, NetInv, EsolInv, CredInv, CredsAgree
  <1>2. CASE Web \/ UNCHANGED vars \/ \E p \in Procs : Restart(p)
    <2>1. UNCHANGED <<caCreds, caJob, inbox, pull, client, dCreds, hCreds>>
      BY <1>2 DEF Web, WebNext, CreatePerm, CreateCred, UpdatePerm, RemovePerm, Reload, Request,
         net, caVars, esodVars, esolVars, vars, Restart
    <2> QED BY <1>1, <2>1, CredsKept
  <1>3. ASSUME NEW h \in Hosts, Program(h) PROVE CredInv'
    <2>1. /\ UNCHANGED <<caCreds, caJob, inbox, pull, dCreds, hCreds>> /\ client[h].pc = "idle"
          /\ \E n, o, c : client' = [client EXCEPT ![h] =
                 [NoClient EXCEPT !.pc = "perm", !.key = [name |-> n, loc |-> h],
                                  !.op = o, !.cred = c]]
      BY <1>3 DEF Program, ClientRequest, At, net, tables, caVars, esodVars
    <2>2. \A n, o, c : [NoClient EXCEPT !.pc = "perm", !.key = [name |-> n, loc |-> h],
                                        !.op = o, !.cred = c].pc = "perm"
      BY DEF NoClient
    <2>3. pull[h].ans.kind # "cred"
      BY <2>1 DEF QueryInv, AnswerFits
    <2> QED BY <1>1, <2>1, <2>2, <2>3, ClientCreds
  <1>4. ASSUME NEW p \in Procs, Kill(p) PROVE CredInv'
    <2>1. /\ UNCHANGED <<caCreds, dCreds, hCreds>> /\ caJob'.msg \in {caJob.msg, Torn}
          /\ \A h \in Hosts : client'[h] = client[h] \/ (h = p /\ client'[h] = NoClient)
          /\ \E cut : Down(p, cut)
      BY <1>1, <1>4 DEF Kill, CaDown, CaEnds, EsodDown, EsolDown, Answer, NoJob, tables,
         caVars, esodVars, esolVars, EsolTypeOK
    <2> QED BY <2>1, DownCreds
  <1> QED BY <1>2, <1>3, <1>4, CaCredInv, EsodCredInv, EsolCredInv DEF Next

LEMMA InitCreds == Init => CredInv
  <1> SUFFICES ASSUME Init PROVE CredInv
    OBVIOUS
  <1>1. \A s \in Servers : inbox[s] \in Seq(KnownMessages)
    BY EmptySeq DEF Init, NetInit
  <1>2. inbox \in [Servers -> Seq(KnownMessages)]
    BY <1>1 DEF Init, NetInit
  <1> QED BY <1>2, KnownFacts DEF Init, NetInit, CaInit, EsodInit, EsolInit, NoJob, NoCreds, NoPull,
     NoAnswer, NoClient, CredInv, CredsAgree

(***************************************************************************)
(* A credential has one key material in every database and in the hands of *)
(* every esol, whoever is killed when and whichever esod's or esol's       *)
(* database fails, if the one admin's page is right: new_credential of     *)
(* ca_daemon.h sends out what it generates and does not look at what the   *)
(* INSERT made of it.                                                      *)
(***************************************************************************)
THEOREM CredentialsAgree ==
  ASSUME PageIsRight
  PROVE  Spec => []CredsAgree
  <1> DEFINE Inv == IInv /\ QueryInv /\ PageInv /\ CredInv
  <1>1. Init => Inv
    BY InitIInv, InitQueries, InitPage, InitCreds
  <1>2. Inv /\ [Next]_vars => Inv'
    BY Inductive, QueryStep, PageStep, CredStep
  <1>3. Inv => CredsAgree
    BY DEF CredInv
  <1> HIDE DEF Inv
  <1> QED BY <1>1, <1>2, <1>3, PTL DEF Spec
=============================================================================
