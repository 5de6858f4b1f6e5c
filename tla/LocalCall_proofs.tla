--------------------------- MODULE LocalCall_proofs ---------------------------
(***************************************************************************)
(* Calls of the programs of a host to esol: for any programs, users,       *)
(* credentials, permissions and dates, any length of the backlog, and with *)
(* any program killed and any bad data at any point, a request is decided  *)
(* for its own user, and every answer, every endless wait and every end of *)
(* esol has its reason.                                                    *)
(***************************************************************************)
EXTENDS LocalCall, SequenceTheorems, TLAPS

(***************************************************************************)
(* The inductive invariant.  A program in a call, or killed in one, has    *)
(* its connection still open as far as esol can tell.                      *)
(***************************************************************************)
Open(p) == InCall(p) \/ p \in killed

RealCalls == {Ping} \cup Calls

Callers ==
    \A p \in Programs :
        /\ pc[p] = "out" => answer[p] = "none"
        /\ pc[p] \in {"out", "greet"} => greeting[p] = "none"
        /\ pc[p] \in {"greet", "send"} => left[p] > 0
        /\ p \in killed => pc[p] = "dead"
        /\ Open(p) \/ answer[p] # "none" => call[p] \in RealCalls
        /\ asked[p] <= day

(***************************************************************************)
(* While esol runs, every connection that waits to be accepted is of a     *)
(* program of its own that has not been answered.                          *)
(***************************************************************************)
Waiting ==
    phase # "down" =>
        \A i \in 1..Len(queue) :
            /\ Open(queue[i]) /\ answer[queue[i]] = "none" /\ queue[i] # serving
            /\ \A j \in 1..Len(queue) : queue[i] = queue[j] => i = j

(***************************************************************************)
(* The connection that esol serves, or spins for, is open and has not been *)
(* answered, and what esol has read from it is what was sent.              *)
(***************************************************************************)
Active == phase \in {"accepted", "greet", "read", "decide", "reply", "spins"}

Served ==
    /\ Active => serving \in Programs /\ Open(serving) /\ answer[serving] = "none"
    /\ phase = "accept" => serving = NoOne
    /\ phase \in {"accept", "accepted", "greet"} => req = NoCall
    /\ phase = "read" => need > 0 /\ (req = NoCall => need = 1)
    /\ Serving /\ req # NoCall => req = call[serving]
    /\ phase \in {"decide", "reply"} => req # NoCall

(***************************************************************************)
(* The user for whom esol decides.                                         *)
(***************************************************************************)
Seen(p) == IF greeting[p] = "marked" THEN User[p] ELSE Nobody

UserSeen ==
    Serving =>
        /\ greeting[serving] # "none"
        /\ user = Seen(serving)

(***************************************************************************)
(* The answer that esol is about to give, and those that it has given.     *)
(***************************************************************************)
Reason(v, p, u) ==
    LET r == call[p]
    IN  /\ v \in {"result", "empty", "closed"} => r \in Calls
        /\ v = "result" =>
              Permitted(u, r) /\ Fits(r.op, r.cred)
              /\ (r.op # "decrypt" => asked[p] < Expires[r.cred])
        /\ v = "empty" =>
              \/ ~Permitted(u, r)
              \/ r.op # "decrypt" /\ day >= Expires[r.cred]
              \/ r.data = "bad" /\ r.op \in {"decrypt", "sign"}
        /\ v = "closed" => Mismatch(r)

Reasons ==
    /\ phase = "reply" => verdict # "none" /\ Reason(verdict, serving, user)
    /\ \A p \in Programs : answer[p] # "none" =>
          greeting[p] # "none" /\ Reason(answer[p], p, Seen(p))

\* A program hangs in recv() only after esol has gone or closed its connection.
HungHow ==
    \A p \in Programs : pc[p] = "hung" => phase = "down" \/ Mismatch(call[p])

IInv ==
    /\ TypeOK /\ Callers /\ Waiting /\ Served /\ UserSeen /\ Reasons
    /\ HungHow /\ EsolSurvives
-----------------------------------------------------------------------------
(***************************************************************************)
(* Facts the steps share.                                                  *)
(***************************************************************************)
LEMMA MessageCounts ==
  ASSUME NEW o \in Ops \cup {"ping"}
  PROVE  /\ Sends(o) \in Nat /\ Sends(o) > 0
         /\ Reads(o) \in Nat /\ Reads(o) > 0
BY DEF Ops, Sends, Reads

LEMMA QueueMembers ==
  ASSUME TypeOK, NEW i \in 1..Len(queue)
  PROVE  queue[i] \in Programs
BY ElementOfSeq DEF TypeOK

\* What a step must leave alone for the waiting connections to stay so.
LEMMA WaitingKept ==
  ASSUME TypeOK, Waiting, queue' = queue,
         phase = "down" => phase' = "down",
         serving' \in {serving, NoOne},
         phase # "down" => \A q \in Programs :
             Open(q) /\ answer[q] = "none" /\ q # serving
                 => Open(q)' /\ answer'[q] = "none"
  PROVE  Waiting'
<1> SUFFICES ASSUME phase' # "down", NEW i \in 1..Len(queue)
             PROVE  /\ Open(queue[i])' /\ answer'[queue[i]] = "none" /\ queue[i] # serving'
                    /\ \A j \in 1..Len(queue) : queue[i] = queue[j] => i = j
  BY DEF Waiting, Open, InCall
<1>1. phase # "down" /\ queue[i] \in Programs
  BY QueueMembers
<1>2. /\ Open(queue[i]) /\ answer[queue[i]] = "none" /\ queue[i] # serving
      /\ \A j \in 1..Len(queue) : queue[i] = queue[j] => i = j
  BY <1>1 DEF Waiting
<1>3. Open(queue[i])' /\ answer'[queue[i]] = "none"
  BY <1>1, <1>2 DEF Open, InCall
<1>4. queue[i] # serving'
  BY <1>1, <1>2, LocalCallAssumption
<1> QED BY <1>2, <1>3, <1>4

\* What stopped esol stays what stopped it.
LEMMA SurvivesKept ==
  ASSUME EsolSurvives, UNCHANGED <<phase, serving, user, req>>, killed \subseteq killed'
  PROVE  EsolSurvives'
BY DEF EsolSurvives, StopReason, MayFail, Permitted

\* No call asks for nothing.
LEMMA RealIsReal == \A r \in RealCalls : r.op \in Ops \cup {"ping"} /\ r # NoCall
BY DEF RealCalls, Calls, Ping, NoCall, Ops

-----------------------------------------------------------------------------
(***************************************************************************)
(* Steps of the programs.                                                  *)
(***************************************************************************)
LEMMA ConnectStep ==
  ASSUME IInv, NEW p \in Programs,
         NEW r \in Requests[p] \cup {Ping}, Connect(p, r)
  PROVE  IInv'
<1>1. /\ pc[p] = "out" /\ p \notin killed /\ ~Open(p) /\ answer[p] = "none"
      /\ phase # "down" /\ p # serving
  BY LocalCallAssumption DEF IInv, Connect, MayCall, Callers, Served, Active, Open, InCall,
     TypeOK
<1>2. r \in RealCalls
  BY LocalCallAssumption DEF RealCalls
<1>3. Sends(r.op) \in Nat /\ Sends(r.op) > 0
  BY <1>2, RealIsReal, MessageCounts
<1>4. queue' = Append(queue, p) /\ queue' \in Seq(Programs) /\ Len(queue') = Len(queue) + 1
      /\ queue'[Len(queue) + 1] = p /\ \A i \in 1..Len(queue) : queue'[i] = queue[i]
  BY AppendProperties DEF IInv, TypeOK, Connect
<1>5. TypeOK'
  <2>1. /\ pc' \in [Programs -> {"out", "greet", "send", "wait", "hung", "dead"}]
        /\ left' \in [Programs -> Nat] /\ asked' \in [Programs -> Nat]
    BY <1>3 DEF IInv, TypeOK, Connect
  <2>2. call' \in [Programs -> Calls \cup {Ping, NoCall}]
    BY <1>2 DEF IInv, TypeOK, Connect, RealCalls
  <2> QED BY <1>4, <2>1, <2>2 DEF IInv, TypeOK, Connect, esol
<1>6. Callers'
  <2>1. /\ pc'[p] = "greet" /\ answer'[p] = "none" /\ greeting'[p] = "none"
        /\ left'[p] > 0 /\ call'[p] \in RealCalls /\ asked'[p] = day /\ day' = day
    BY <1>1, <1>2, <1>3 DEF IInv, TypeOK, Callers, Connect
  <2>2. \A q \in Programs \ {p} :
           /\ pc'[q] = pc[q] /\ answer'[q] = answer[q] /\ greeting'[q] = greeting[q]
           /\ left'[q] = left[q] /\ call'[q] = call[q] /\ asked'[q] = asked[q]
    BY DEF IInv, TypeOK, Connect
  <2>3. killed' = killed /\ day \in Nat
    BY DEF IInv, TypeOK, Connect
  <2> QED BY <1>1, <2>1, <2>2, <2>3 DEF IInv, Callers, Open, InCall
<1>7. Waiting'
  <2>1. \A q \in Programs \ {p} : Open(q) => Open(q)'
    BY DEF IInv, TypeOK, Connect, Open, InCall
  <2>2. Open(p)' /\ answer' = answer /\ serving' = serving
    BY DEF IInv, TypeOK, Connect, Open, InCall, esol
  <2>3. \A i \in 1..Len(queue) : queue[i] \in Programs \ {p}
    BY <1>1, QueueMembers DEF IInv, Waiting
  <2>4. Len(queue) \in Nat
    BY LenProperties DEF IInv, TypeOK
  <2> SUFFICES ASSUME NEW i \in 1..Len(queue')
               PROVE  /\ Open(queue[i])' /\ answer'[queue'[i]] = "none" /\ queue'[i] # serving'
                      /\ \A j \in 1..Len(queue') : queue'[i] = queue'[j] => i = j
    BY DEF Waiting, Open, InCall
  <2>5. CASE i \in 1..Len(queue)
    <3>1. /\ Open(queue[i]) /\ answer[queue[i]] = "none" /\ queue[i] # serving
          /\ \A j \in 1..Len(queue) : queue[i] = queue[j] => i = j
      BY <1>1, <2>5 DEF IInv, Waiting
    <3>2. Open(queue[i])' /\ answer'[queue'[i]] = "none" /\ queue'[i] # serving'
      BY <1>4, <2>1, <2>2, <2>3, <2>5, <3>1 DEF Open, InCall
    <3>3. ASSUME NEW j \in 1..Len(queue'), queue'[i] = queue'[j] PROVE i = j
      <4>1. j \in 1..Len(queue) \/ j = Len(queue) + 1
        BY <1>4, <2>4
      <4> QED BY <4>1, <3>1, <3>3, <1>4, <2>3, <2>5
    <3> QED BY <3>2, <3>3
  <2>6. CASE i = Len(queue) + 1
    <3>1. Open(queue[i])' /\ answer'[queue'[i]] = "none" /\ queue'[i] # serving'
      BY <1>1, <1>4, <2>2, <2>6 DEF Open, InCall
    <3>2. ASSUME NEW j \in 1..Len(queue'), queue'[i] = queue'[j] PROVE i = j
      <4>1. j \in 1..Len(queue) \/ j = Len(queue) + 1
        BY <1>4, <2>4
      <4> QED BY <4>1, <3>2, <1>4, <2>3, <2>6
    <3> QED BY <3>1, <3>2
  <2> QED BY <1>4, <2>4, <2>5, <2>6
<1>8. Served'
  BY <1>1 DEF IInv, TypeOK, Served, Active, Serving, Open, InCall, Connect, esol
<1>9. UserSeen'
  BY DEF IInv, UserSeen, Serving, Seen, Connect, esol
<1>10. Reasons'
  <2>1. \A q \in Programs \ {p} : call'[q] = call[q] /\ asked'[q] = asked[q]
    BY DEF IInv, TypeOK, Connect
  <2>2. phase = "reply" => serving \in Programs \ {p}
    BY <1>1 DEF IInv, Served, Active
  <2>3. answer'[p] = "none" /\ UNCHANGED <<answer, greeting, esol, day>>
    BY <1>1 DEF Connect
  <2>4. phase' = "reply" => verdict' # "none" /\ Reason(verdict, serving, user)'
    BY <2>1, <2>2, <2>3 DEF IInv, Reasons, Reason, esol
  <2>5. ASSUME NEW q \in Programs, answer'[q] # "none"
        PROVE  greeting'[q] # "none" /\ Reason(answer[q], q, Seen(q))'
    BY <2>1, <2>3, <2>5 DEF IInv, Reasons, Reason, Seen
  <2> QED BY <2>4, <2>5 DEF Reasons
<1>11. HungHow'
  BY DEF IInv, TypeOK, HungHow, Connect, esol
<1>12. EsolSurvives'
  BY SurvivesKept DEF IInv, Connect, esol
<1> QED BY <1>5, <1>6, <1>7, <1>8, <1>9, <1>10, <1>11, <1>12 DEF IInv

(***************************************************************************)
(* A call ends only when it has been answered or refused, or with esol.    *)
(***************************************************************************)
LEMMA EndsStep ==
  ASSUME IInv, NEW p \in Programs, NEW to \in {"out", "dead"}, Ends(p, to),
         service' \subseteq Programs, p \notin killed,
         phase = "down" \/ answer[p] # "none" \/ pc[p] = "out"
  PROVE  IInv'
<1>1. phase # "down" => ~(Open(p) /\ answer[p] = "none")
  BY DEF Open, InCall
<1>2. Active => serving \in Programs \ {p}
  BY <1>1 DEF IInv, Served, Active
<1>3. Serving \/ phase = "reply" => Active
  BY DEF Serving, Active
<1>4. \A q \in Programs \ {p} :
         /\ pc'[q] = pc[q] /\ call'[q] = call[q] /\ asked'[q] = asked[q]
         /\ greeting'[q] = greeting[q] /\ answer'[q] = answer[q]
  BY DEF IInv, TypeOK, Ends
<1>5. pc'[p] = to /\ answer'[p] = "none" /\ greeting'[p] = "none" /\ asked'[p] = 0
  BY DEF IInv, TypeOK, Ends
<1>6. TypeOK'
  <2>1. /\ pc' \in [Programs -> {"out", "greet", "send", "wait", "hung", "dead"}]
        /\ left' \in [Programs -> Nat] /\ arrived' \in [Programs -> Nat]
        /\ asked' \in [Programs -> Nat]
    BY DEF IInv, TypeOK, Ends
  <2>2. call' \in [Programs -> Calls \cup {Ping, NoCall}]
    BY DEF IInv, TypeOK, Ends
  <2>3. /\ greeting' \in [Programs -> {"none", "marked", "unmarked"}]
        /\ answer' \in [Programs -> {"none", "pong", "empty", "result", "closed"}]
    BY DEF IInv, TypeOK, Ends
  <2> QED BY <2>1, <2>2, <2>3 DEF IInv, TypeOK, Ends, esol
<1>7. Callers'
  BY <1>4, <1>5 DEF IInv, TypeOK, Callers, Open, InCall, Ends
<1>8. Waiting'
  <2>1. phase # "down" => \A q \in Programs :
           Open(q) /\ answer[q] = "none" => Open(q)' /\ answer'[q] = "none"
    BY <1>1, <1>4 DEF Open, InCall, Ends
  <2> QED BY <2>1, WaitingKept DEF IInv, Ends, esol
<1>9. Served'
  BY <1>2, <1>3, <1>4 DEF IInv, Served, Active, Serving, Open, InCall, Ends, esol
<1>10. UserSeen'
  BY <1>2, <1>3, <1>4 DEF IInv, UserSeen, Serving, Seen, Ends, esol
<1>11. Reasons'
  <2>1. day' = day /\ phase' = phase /\ serving' = serving /\ user' = user /\ verdict' = verdict
    BY DEF Ends, esol
  <2>2. \A v, u : \A q \in Programs \ {p} : Reason(v, q, u) => Reason(v, q, u)'
    BY <1>4, <2>1 DEF Reason
  <2>3. phase' = "reply" => verdict' # "none" /\ Reason(verdict, serving, user)'
    BY <1>2, <1>3, <2>1, <2>2 DEF IInv, Reasons
  <2>4. \A q \in Programs : answer'[q] # "none" =>
           greeting'[q] # "none" /\ Reason(answer[q], q, Seen(q))'
    BY <1>4, <1>5, <2>1 DEF IInv, Reasons, Reason, Seen
  <2> QED BY <2>3, <2>4 DEF Reasons
<1>12. HungHow'
  BY <1>4, <1>5 DEF IInv, HungHow, Ends, esol
<1>13. EsolSurvives'
  BY SurvivesKept DEF IInv, Ends, esol
<1> QED BY <1>6, <1>7, <1>8, <1>9, <1>10, <1>11, <1>12, <1>13 DEF IInv

LEMMA ReturnsStep ==
  ASSUME IInv, NEW p \in Programs,
         PingReturns(p) \/ Returns(p) \/ VerifyReturns(p) \/ Breaks(p)
  PROVE  IInv'
<1>1. pc[p] = "wait" /\ (phase = "down" \/ answer[p] # "none")
  BY DEF PingReturns, Returns, VerifyReturns, Breaks, Received
<1>2. p \notin killed /\ service' \subseteq Programs
  BY <1>1 DEF IInv, TypeOK, Callers, PingReturns, Returns, VerifyReturns, Breaks, Fails
<1>3. \E to \in {"out", "dead"} : Ends(p, to)
  BY DEF PingReturns, Returns, VerifyReturns, Breaks, Fails
<1> QED BY <1>1, <1>2, <1>3, EndsStep

LEMMA RefusedStep ==
  ASSUME IInv, NEW p \in Programs,
         NEW r \in Requests[p] \cup {Ping}, Refused(p, r)
  PROVE  IInv'
<1>1. pc[p] = "out" /\ p \notin killed /\ service' \subseteq Programs
  BY DEF IInv, TypeOK, Callers, Refused, MayCall, Fails
<1>2. \E to \in {"out", "dead"} : Ends(p, to)
  BY DEF Refused, Fails
<1> QED BY <1>1, <1>2, EndsStep

LEMMA SendCredentialsStep ==
  ASSUME IInv, NEW p \in Programs, SendCredentials(p)
  PROVE  IInv'
<1>1. pc[p] = "greet" /\ greeting[p] = "none" /\ left[p] > 0 /\ call[p] \in RealCalls
      /\ p \notin killed
  BY DEF IInv, Callers, SendCredentials, Open, InCall
<1>2. \A q \in Programs : Open(q) => Open(q)'
  BY DEF IInv, TypeOK, SendCredentials, Open, InCall
<1>3. TypeOK'
  BY DEF IInv, TypeOK, SendCredentials, esol
<1>4. Callers'
  BY <1>1 DEF IInv, TypeOK, Callers, Open, InCall, SendCredentials
<1>5. Waiting'
  BY <1>2, WaitingKept DEF IInv, SendCredentials, esol
<1>6. Served'
  BY <1>2 DEF IInv, Served, Active, Serving, SendCredentials, esol, Open, InCall
<1>7. UserSeen'
  BY <1>1 DEF IInv, TypeOK, UserSeen, Serving, Seen, SendCredentials, esol
<1>8. Reasons'
  BY <1>1 DEF IInv, TypeOK, Reasons, Reason, Seen, SendCredentials, esol
<1>9. HungHow'
  BY DEF IInv, TypeOK, HungHow, SendCredentials, esol
<1>10. EsolSurvives'
  BY SurvivesKept DEF IInv, SendCredentials, esol
<1> QED BY <1>3, <1>4, <1>5, <1>6, <1>7, <1>8, <1>9, <1>10 DEF IInv

LEMMA SendStep ==
  ASSUME IInv, NEW p \in Programs, Send(p)
  PROVE  IInv'
<1>1. pc[p] = "send" /\ left[p] \in Nat /\ left[p] > 0 /\ arrived[p] \in Nat
  BY DEF IInv, TypeOK, Callers, Send
<1>2. \A q \in Programs : Open(q) => Open(q)'
  BY DEF IInv, TypeOK, Send, Open, InCall
<1>3. TypeOK'
  <2>1. left[p] - 1 \in Nat /\ arrived[p] + 1 \in Nat
    BY <1>1
  <2>2. left' \in [Programs -> Nat] /\ arrived' \in [Programs -> Nat]
    BY <2>1 DEF IInv, TypeOK, Send
  <2> QED BY <2>2 DEF IInv, TypeOK, Send, esol
<1>4. Callers'
  <2>1. pc'[p] \in {"send", "wait"} /\ (pc'[p] = "send" => left'[p] > 0)
    BY <1>1 DEF IInv, TypeOK, Send
  <2> QED BY <1>1, <2>1 DEF IInv, TypeOK, Callers, Open, InCall, Send
<1>5. Waiting'
  BY <1>2, WaitingKept DEF IInv, Send, esol
<1>6. Served'
  BY <1>2 DEF IInv, Served, Active, Serving, Send, esol, Open, InCall
<1>7. UserSeen'
  BY DEF IInv, UserSeen, Serving, Seen, Send, esol
<1>8. Reasons'
  BY DEF IInv, Reasons, Reason, Seen, Send, esol
<1>9. HungHow'
  BY DEF IInv, TypeOK, HungHow, Send, esol
<1>10. EsolSurvives'
  BY SurvivesKept DEF IInv, Send, esol
<1> QED BY <1>3, <1>4, <1>5, <1>6, <1>7, <1>8, <1>9, <1>10 DEF IInv

LEMMA HangsStep ==
  ASSUME IInv, NEW p \in Programs, Hangs(p)
  PROVE  IInv'
<1>1. pc[p] = "wait" /\ (phase = "down" \/ answer[p] = "closed")
  BY DEF Hangs, Received
<1>2. phase # "down" => \A q \in Programs :
         Open(q) /\ answer[q] = "none" => Open(q)'
  BY <1>1 DEF IInv, TypeOK, Hangs, Open, InCall
<1>3. TypeOK'
  BY DEF IInv, TypeOK, Hangs, wire, esol
<1>4. Callers'
  BY <1>1 DEF IInv, TypeOK, Callers, Open, InCall, Hangs, wire
<1>5. Waiting'
  BY <1>2, WaitingKept DEF IInv, Hangs, wire, esol
<1>6. Served'
  <2>1. Active => phase # "down"
    BY DEF Active
  <2> QED BY <1>2, <2>1 DEF IInv, Served, Active, Serving, Hangs, wire, esol, Open, InCall
<1>7. UserSeen'
  BY DEF IInv, UserSeen, Serving, Seen, Hangs, wire, esol
<1>8. Reasons'
  BY DEF IInv, Reasons, Reason, Seen, Hangs, wire, esol
<1>9. HungHow'
  BY <1>1 DEF IInv, TypeOK, HungHow, Reasons, Reason, Hangs, wire, esol
<1>10. EsolSurvives'
  BY SurvivesKept DEF IInv, Hangs, esol
<1> QED BY <1>3, <1>4, <1>5, <1>6, <1>7, <1>8, <1>9, <1>10 DEF IInv

LEMMA KillStep ==
  ASSUME IInv, NEW p \in Programs, Kill(p)
  PROVE  IInv'
<1>1. InCall(p) /\ p \in killed' /\ killed \subseteq killed'
  BY DEF Kill, InCall
<1>2. \A q \in Programs : Open(q) => Open(q)'
  BY <1>1 DEF IInv, TypeOK, Kill, Open, InCall
<1>3. TypeOK'
  BY DEF IInv, TypeOK, Kill, wire, esol
<1>4. Callers'
  BY <1>1 DEF IInv, TypeOK, Callers, Open, InCall, Kill, wire
<1>5. Waiting'
  BY <1>2, WaitingKept DEF IInv, Kill, wire, esol
<1>6. Served'
  BY <1>2 DEF IInv, Served, Active, Serving, Kill, wire, esol, Open, InCall
<1>7. UserSeen'
  BY DEF IInv, UserSeen, Serving, Seen, Kill, wire, esol
<1>8. Reasons'
  BY DEF IInv, Reasons, Reason, Seen, Kill, wire, esol
<1>9. HungHow'
  BY DEF IInv, TypeOK, HungHow, Kill, esol
<1>10. EsolSurvives'
  BY <1>1, SurvivesKept DEF IInv, Kill, esol
<1> QED BY <1>3, <1>4, <1>5, <1>6, <1>7, <1>8, <1>9, <1>10 DEF IInv

-----------------------------------------------------------------------------
(***************************************************************************)
(* Steps of esol.                                                          *)
(***************************************************************************)
LEMMA AcceptStep ==
  ASSUME IInv, Accept
  PROVE  IInv'
<1>1. /\ phase = "accept" /\ queue # <<>>
      /\ serving' = Head(queue) /\ queue' = Tail(queue) /\ phase' = "accepted"
  BY DEF Accept
<1>2. /\ Len(queue) \in Nat /\ Len(queue) > 0 /\ Len(queue') = Len(queue) - 1
      /\ serving' = queue[1] /\ queue' \in Seq(Programs)
      /\ \A i \in 1..Len(queue') : queue'[i] = queue[i + 1]
  BY <1>1, HeadTailProperties, EmptySeq, LenProperties DEF IInv, TypeOK
<1>3. serving' \in Programs /\ Open(serving') /\ answer[serving'] = "none"
  BY <1>1, <1>2, QueueMembers DEF IInv, Waiting
<1>4. TypeOK'
  BY <1>1, <1>2, <1>3 DEF IInv, TypeOK, Accept, program
<1>5. Callers'
  BY DEF IInv, Callers, Open, InCall, Accept, program
<1>6. Waiting'
  <2> SUFFICES ASSUME NEW i \in 1..Len(queue')
               PROVE  /\ Open(queue'[i]) /\ answer[queue'[i]] = "none" /\ queue'[i] # serving'
                      /\ \A j \in 1..Len(queue') : queue'[i] = queue'[j] => i = j
    BY DEF Waiting, Open, InCall, Accept, program
  <2>1. i + 1 \in 1..Len(queue) /\ 1 \in 1..Len(queue) /\ i + 1 # 1
    BY <1>2
  <2>2. /\ Open(queue[i + 1]) /\ answer[queue[i + 1]] = "none"
        /\ \A j \in 1..Len(queue) : queue[i + 1] = queue[j] => i + 1 = j
    BY <1>1, <2>1 DEF IInv, Waiting
  <2>3. queue[i + 1] # queue[1]
    BY <2>1, <2>2
  <2>4. ASSUME NEW j \in 1..Len(queue'), queue'[i] = queue'[j] PROVE i = j
    <3>1. j + 1 \in 1..Len(queue) /\ queue[i + 1] = queue[j + 1]
      BY <1>2, <2>4
    <3>2. i + 1 = j + 1
      BY <2>2, <3>1
    <3> QED BY <3>2
  <2> QED BY <1>2, <2>2, <2>3, <2>4
<1>7. Served'
  BY <1>1, <1>3 DEF IInv, Served, Active, Serving, Open, InCall, Accept, program
<1>8. UserSeen'
  BY <1>1 DEF UserSeen, Serving
<1>9. Reasons'
  BY <1>1 DEF IInv, Reasons, Reason, Seen, Accept, program
<1>10. HungHow'
  BY <1>1 DEF IInv, HungHow, Accept, program
<1>11. EsolSurvives'
  BY <1>1 DEF EsolSurvives
<1> QED BY <1>4, <1>5, <1>6, <1>7, <1>8, <1>9, <1>10, <1>11 DEF IInv

LEMMA PassCredentialsStep ==
  ASSUME IInv, PassCredentials
  PROVE  IInv'
<1>1. TypeOK' /\ Callers' /\ HungHow' /\ EsolSurvives'
  BY DEF IInv, TypeOK, Callers, HungHow, EsolSurvives, Open, InCall,
     PassCredentials, program, wire
<1>2. Waiting' /\ Served'
  BY DEF IInv, Waiting, Served, Active, Serving, Open, InCall, PassCredentials, program, wire
<1>3. UserSeen' /\ Reasons'
  BY DEF IInv, UserSeen, Reasons, Reason, Seen, Serving, PassCredentials, program, wire
<1> QED BY <1>1, <1>2, <1>3 DEF IInv

LEMMA RecvCredentialsStep ==
  ASSUME IInv, RecvCredentials
  PROVE  IInv'
<1>1. serving \in Programs
  BY DEF IInv, Served, Active, RecvCredentials
<1>2. TypeOK'
  BY <1>1 DEF IInv, TypeOK, RecvCredentials, program, wire
<1>3. Callers' /\ HungHow' /\ EsolSurvives'
  BY DEF IInv, Callers, HungHow, EsolSurvives, Open, InCall,
     RecvCredentials, program, wire
<1>4. Waiting' /\ Served'
  BY DEF IInv, Waiting, Served, Active, Serving, Open, InCall, RecvCredentials, program, wire
<1>5. UserSeen' /\ Reasons'
  BY DEF IInv, UserSeen, Reasons, Reason, Seen, Serving, RecvCredentials, program, wire
<1> QED BY <1>2, <1>3, <1>4, <1>5 DEF IInv

LEMMA RecvStep ==
  ASSUME IInv, Recv
  PROVE  IInv'
<1>1. /\ serving \in Programs /\ Open(serving) /\ answer[serving] = "none"
      /\ phase = "read" /\ need \in Nat /\ need > 0 /\ Serving
      /\ arrived[serving] \in Nat /\ arrived[serving] > 0
  BY DEF IInv, TypeOK, Served, Active, Serving, Recv
<1>2. call[serving] \in RealCalls /\ req' = call[serving] /\ req'.op \in Ops \cup {"ping"}
  BY <1>1, RealIsReal DEF IInv, Callers, Recv
<1>3. need' \in Nat /\ phase' \in {"read", "decide"} /\ (phase' = "read" => need' > 0)
  <2>1. Reads(req'.op) \in Nat /\ Reads(req'.op) > 0
    BY <1>2, MessageCounts
  <2>2. need' \in {Reads(req'.op) - 1, need - 1}
    BY DEF Recv
  <2>3. need' \in Nat
    BY <1>1, <2>1, <2>2
  <2>4. phase' = IF need' = 0 THEN "decide" ELSE "read"
    BY DEF Recv
  <2> QED BY <2>3, <2>4
<1>4. req' # NoCall
  BY <1>2, RealIsReal
<1>5. TypeOK'
  <2>1. arrived' \in [Programs -> Nat]
    BY <1>1 DEF IInv, TypeOK, Recv
  <2> QED BY <1>2, <1>3, <2>1 DEF IInv, TypeOK, Recv, program, RealCalls
<1>6. Callers' /\ HungHow' /\ EsolSurvives'
  BY <1>1, <1>3 DEF IInv, Callers, HungHow, EsolSurvives, Open, InCall, Recv, program
<1>7. Waiting'
  BY <1>1, WaitingKept DEF IInv, Open, InCall, Recv, program
<1>8. Served'
  BY <1>1, <1>2, <1>3, <1>4 DEF Served, Active, Serving, Open, InCall, Recv, program
<1>9. UserSeen' /\ Reasons'
  BY <1>1, <1>3 DEF IInv, UserSeen, Reasons, Reason, Seen, Serving, Recv, program
<1> QED BY <1>5, <1>6, <1>7, <1>8, <1>9 DEF IInv

LEMMA RecvForEverStep ==
  ASSUME IInv, RecvForEver
  PROVE  IInv'
<1>1. phase' = "spins" /\ serving' = serving /\ serving \in killed /\ phase \in {"greet", "read"}
  BY DEF IInv, Served, Active, Open, InCall, Gone, RecvForEver
<1>2. TypeOK' /\ Callers' /\ HungHow' /\ EsolSurvives'
  BY <1>1 DEF IInv, TypeOK, Callers, HungHow, EsolSurvives, StopReason, Open, InCall,
     RecvForEver, program, wire
<1>3. Waiting'
  BY <1>1, WaitingKept DEF IInv, Open, InCall, RecvForEver, program, wire
<1>4. Served'
  <2>1. serving \in Programs /\ Open(serving) /\ answer[serving] = "none"
    BY <1>1 DEF IInv, Served, Active
  <2>2. UNCHANGED <<serving, answer, pc, killed>>
    BY DEF RecvForEver, program, wire
  <2> QED BY <1>1, <2>1, <2>2 DEF Served, Active, Serving, Open, InCall
<1>5. UserSeen' /\ Reasons'
  BY <1>1 DEF IInv, Serving, UserSeen, Reasons, Reason, Seen, RecvForEver, program, wire
<1> QED BY <1>2, <1>3, <1>4, <1>5 DEF IInv

LEMMA DecideStep ==
  ASSUME IInv, Decide
  PROVE  IInv'
<1> DEFINE r == call[serving]
<1>1. /\ serving \in Programs /\ Open(serving) /\ answer[serving] = "none"
      /\ phase = "decide" /\ Serving /\ req = r /\ r \in RealCalls
  BY DEF IInv, Served, Active, Serving, Callers, Decide
<1>2. PICK v \in IF req.op = "ping" THEN {"pong"} ELSE Judge(req) :
         IF v = "throws" THEN phase' = "down" /\ UNCHANGED verdict
                         ELSE phase' = "reply" /\ verdict' = v
  BY DEF Decide
<1>3. v \in {"pong", "empty", "closed", "result", "throws"}
  BY DEF Judge, Yields
<1>4. TypeOK'
  BY <1>1, <1>2, <1>3 DEF IInv, TypeOK, Decide, program, wire
<1>5. phase' \in {"reply", "down"}
  BY <1>2
<1>6. Callers' /\ HungHow'
  BY <1>1 DEF IInv, Callers, HungHow, Open, InCall, Decide, program, wire
<1>7. Waiting' /\ Served'
  BY <1>1, <1>5 DEF IInv, Waiting, Served, Active, Serving, Open, InCall, Decide, program, wire
<1>8. UserSeen'
  BY <1>1 DEF IInv, UserSeen, Serving, Seen, Decide, program, wire
<1>9. CASE v = "throws"
  <2>1. Permitted(user, req) /\ v \in Yields(req)
    BY <1>2, <1>9 DEF Judge
  <2>2. StopReason
    BY <2>1, <1>9 DEF Yields, StopReason
  <2>3. EsolSurvives'
    BY <2>2 DEF EsolSurvives, StopReason, Decide, program
  <2>4. Reasons'
    BY <1>2, <1>9 DEF IInv, Reasons, Reason, Seen, Decide, program, wire
  <2> QED BY <1>4, <1>6, <1>7, <1>8, <2>3, <2>4 DEF IInv
<1>10. CASE v # "throws"
  <2>1. phase' = "reply" /\ verdict' = v
    BY <1>2, <1>10
  <2>2. EsolSurvives'
    BY <2>1 DEF EsolSurvives
  <2>3. Reason(v, serving, user)
    <3>1. CASE req.op = "ping"
      BY <1>2, <3>1 DEF Reason
    <3>2. CASE req.op # "ping"
      <4>1. r \in Calls /\ r.op \in Ops /\ r.cred \in Creds /\ v \in Judge(r)
        BY <1>1, <1>2, <3>2 DEF RealCalls, Ping, Calls
      <4>2. Expires[r.cred] \in Nat /\ day \in Nat /\ asked[serving] \in Nat
            /\ asked[serving] <= day
        BY <1>1, <4>1, LocalCallAssumption DEF IInv, TypeOK, Callers
      <4>3. ~(day >= Expires[r.cred]) => asked[serving] < Expires[r.cred]
        BY <4>2
      <4>4. CASE ~Permitted(user, r) \/ Expired(r)
        BY <4>1, <4>4 DEF Judge, Expired, is_expired, Reason
      <4>5. CASE Permitted(user, r) /\ ~Expired(r) /\ ~Fits(r.op, r.cred)
        BY <4>1, <4>5 DEF Judge, Reason, Mismatch
      <4>6. CASE Permitted(user, r) /\ ~Expired(r) /\ Fits(r.op, r.cred)
        <5>1. v \in Yields(r)
          BY <4>1, <4>6 DEF Judge
        <5>2. v = "result" \/ (v = "empty" /\ r.data = "bad" /\ r.op \in {"decrypt", "sign"})
          BY <5>1, <1>10 DEF Yields
        <5>3. r.op # "decrypt" => asked[serving] < Expires[r.cred]
          BY <4>3, <4>6 DEF Expired, is_expired
        <5> QED BY <4>1, <4>6, <5>2, <5>3 DEF Reason
      <4> QED BY <4>4, <4>5, <4>6
    <3> QED BY <3>1, <3>2
  <2>4. Reasons'
    BY <1>3, <2>1, <2>3 DEF IInv, Reasons, Reason, Seen, Decide, program, wire
  <2> QED BY <1>4, <1>6, <1>7, <1>8, <2>2, <2>4 DEF IInv
<1> QED BY <1>9, <1>10

LEMMA LookupFailsStep ==
  ASSUME IInv, LookupFails
  PROVE  IInv'
<1>1. /\ serving \in Programs /\ Open(serving) /\ answer[serving] = "none"
      /\ phase = "decide" /\ phase' \in {"down", "spins"}
      /\ req \in RealCalls /\ req.op \in Ops /\ MayFail(user, req)
  <2>1. req \in RealCalls /\ req.op # "ping"
    BY DEF IInv, Served, Active, Serving, Callers, LookupFails
  <2> QED BY <2>1, RealIsReal DEF IInv, Served, Active, LookupFails
<1>2. TypeOK' /\ Callers' /\ HungHow'
  BY <1>1 DEF IInv, TypeOK, Callers, HungHow, Open, InCall, LookupFails, program, wire
<1>3. EsolSurvives'
  BY <1>1 DEF EsolSurvives, StopReason, LookupFails, program
<1>4. Waiting' /\ Served'
  BY <1>1 DEF IInv, Waiting, Served, Active, Serving, Open, InCall, LookupFails, program, wire
<1>5. UserSeen' /\ Reasons'
  BY <1>1 DEF IInv, UserSeen, Serving, Reasons, Reason, Seen, LookupFails, program, wire
<1> QED BY <1>2, <1>3, <1>4, <1>5 DEF IInv

LEMMA ReplyStep ==
  ASSUME IInv, Reply
  PROVE  IInv'
<1>1. /\ serving \in Programs /\ Open(serving) /\ answer[serving] = "none"
      /\ phase = "reply" /\ Serving /\ Active
      /\ call[serving] \in RealCalls /\ greeting[serving] # "none"
      /\ user = Seen(serving) /\ verdict # "none" /\ Reason(verdict, serving, user)
  BY DEF IInv, Served, Active, Serving, Callers, UserSeen, Reasons, Reply
<1>2. /\ req' = NoCall /\ verdict' = "none" /\ queue' = queue
      /\ UNCHANGED <<pc, call, greeting, killed, asked, user, day>>
  BY DEF Reply, program
<1>3. CASE phase' = "down" /\ answer' = answer /\ serving' = serving /\ Gone(serving)
  <2>1. serving \in killed
    BY <1>1, <1>3 DEF Gone, Open, InCall
  <2>2. TypeOK'
    BY <1>2, <1>3 DEF IInv, TypeOK, Reply, program
  <2>3. Callers' /\ HungHow' /\ EsolSurvives'
    BY <1>3, <2>1 DEF IInv, Callers, HungHow, EsolSurvives, StopReason, Open, InCall, Reply,
       program
  <2>4. Waiting' /\ Served' /\ UserSeen'
    BY <1>2, <1>3 DEF Waiting, Served, Active, Serving, UserSeen
  <2>5. Reasons'
    BY <1>2, <1>3 DEF IInv, Reasons, Reason, Seen
  <2> QED BY <2>2, <2>3, <2>4, <2>5 DEF IInv
<1>4. CASE /\ answer' = [answer EXCEPT ![serving] = verdict]
           /\ phase' = "accept" /\ serving' = NoOne
  <2>1. answer'[serving] = verdict /\ \A q \in Programs \ {serving} : answer'[q] = answer[q]
    BY <1>1, <1>4 DEF IInv, TypeOK
  <2>2. TypeOK'
    BY <1>2, <1>4 DEF IInv, TypeOK, Reply, program
  <2>3. Callers'
    <3>1. pc[serving] # "out"
      BY <1>1 DEF IInv, Callers, Open, InCall
    <3> QED BY <1>1, <1>2, <2>1, <3>1 DEF IInv, Callers, Open, InCall, Reply, program
  <2>4. Waiting'
    BY <1>1, <1>2, <1>4, <2>1, WaitingKept DEF IInv, Open, InCall
  <2>5. Served' /\ UserSeen'
    BY <1>2, <1>4 DEF Served, Active, Serving, UserSeen
  <2>6. Reasons'
    <3>1. Reason(answer'[serving], serving, Seen(serving))
      BY <1>1, <2>1
    <3>2. \A q \in Programs : answer'[q] # "none" =>
             greeting[q] # "none" /\ Reason(answer'[q], q, Seen(q))
      BY <1>1, <2>1, <3>1 DEF IInv, Reasons
    <3> QED BY <1>2, <1>4, <3>2 DEF Reasons, Reason, Seen
  <2>7. HungHow' /\ EsolSurvives'
    BY <1>1, <1>2, <1>4 DEF IInv, HungHow, EsolSurvives
  <2> QED BY <2>2, <2>3, <2>4, <2>5, <2>6, <2>7 DEF IInv
<1> QED BY <1>3, <1>4 DEF Reply

LEMMA NewDayStep ==
  ASSUME IInv, NewDay
  PROVE  IInv'
<1>1. day \in Nat /\ day' = day + 1
  BY DEF IInv, TypeOK, NewDay
<1>2. TypeOK' /\ HungHow' /\ EsolSurvives'
  BY <1>1, SurvivesKept DEF IInv, TypeOK, HungHow, NewDay, program, wire, esol
<1>3. Callers'
  BY <1>1 DEF IInv, TypeOK, Callers, Open, InCall, NewDay, program, wire
<1>4. Waiting' /\ Served' /\ UserSeen'
  BY DEF IInv, Waiting, Served, Active, Serving, UserSeen, Seen, Open, InCall,
     NewDay, program, wire, esol
<1>5. ASSUME NEW v, NEW q \in Programs, NEW u, Reason(v, q, u)
      PROVE  Reason(v, q, u)'
  <2>1. call[q] \in Calls => Expires[call[q].cred] \in Nat
    BY LocalCallAssumption DEF Calls
  <2>2. call' = call /\ asked' = asked
    BY DEF NewDay, program
  <2>3. call[q] \in Calls =>
           (day >= Expires[call[q].cred] => day' >= Expires[call[q].cred])
    BY <1>1, <2>1
  <2> QED BY <1>5, <2>2, <2>3 DEF Reason
<1>6. Reasons'
  <2>1. phase = "reply" => serving \in Programs /\ call[serving] \in RealCalls
    BY DEF IInv, Served, Active, Callers
  <2> QED BY <1>5, <2>1 DEF IInv, Callers, Reasons, Seen, NewDay, program, wire, esol
<1> QED BY <1>2, <1>3, <1>4, <1>6 DEF IInv

-----------------------------------------------------------------------------
(***************************************************************************)
(* The invariant holds.                                                    *)
(***************************************************************************)
THEOREM Invariance == Spec => []IInv
<1>1. Init => IInv
  <2> SUFFICES ASSUME Init PROVE IInv
    OBVIOUS
  <2>1. TypeOK /\ HungHow /\ EsolSurvives
    BY EmptySeq DEF Init, TypeOK, HungHow, EsolSurvives
  <2>2. Callers
    BY DEF Init, Callers, Open, InCall
  <2>3. Waiting /\ Served
    BY EmptySeq DEF Init, Waiting, Served, Active, Serving
  <2>4. UserSeen /\ Reasons
    BY DEF Init, UserSeen, Serving, Reasons
  <2> QED BY <2>1, <2>2, <2>3, <2>4 DEF IInv
<1>2. IInv /\ [Next]_vars => IInv'
  <2> SUFFICES ASSUME IInv, [Next]_vars PROVE IInv'
    OBVIOUS
  <2>1. ASSUME NEW p \in Programs, NEW r \in Requests[p] \cup {Ping},
               Connect(p, r) \/ Refused(p, r)
        PROVE  IInv'
    BY <2>1, ConnectStep, RefusedStep
  <2>2. ASSUME NEW p \in Programs, Program(p) \/ Kill(p)
        PROVE  IInv'
    BY <2>2, SendCredentialsStep, SendStep, ReturnsStep, HangsStep, KillStep DEF Program
  <2>3. CASE Esol
    BY <2>3, AcceptStep, PassCredentialsStep, RecvCredentialsStep, RecvStep,
       RecvForEverStep, DecideStep, LookupFailsStep, ReplyStep DEF Esol
  <2>4. CASE NewDay
    BY <2>4, NewDayStep
  <2>5. CASE UNCHANGED vars
    <3>1. UNCHANGED <<program, wire, esol, day>>
      BY <2>5 DEF vars
    <3>2. TypeOK' /\ Callers' /\ HungHow' /\ EsolSurvives'
      BY <3>1, SurvivesKept DEF IInv, TypeOK, Callers, HungHow, Open, InCall,
         program, wire, esol
    <3>3. Waiting' /\ Served'
      BY <3>1 DEF IInv, Waiting, Served, Active, Serving, Open, InCall, program, wire, esol
    <3>4. UserSeen' /\ Reasons'
      BY <3>1 DEF IInv, UserSeen, Reasons, Reason, Seen, Serving, program, wire, esol
    <3> QED BY <3>2, <3>3, <3>4 DEF IInv
  <2> QED BY <2>1, <2>2, <2>3, <2>4, <2>5 DEF Next
<1> QED BY <1>1, <1>2, PTL DEF Spec

-----------------------------------------------------------------------------
(***************************************************************************)
(* The state of a call is well typed; no program or day leaves its range.  *)
(***************************************************************************)
THEOREM TypeCorrect == Spec => []TypeOK
<1>1. IInv => TypeOK
  BY DEF IInv
<1> QED BY <1>1, Invariance, PTL

(***************************************************************************)
(* handleUDS decides a request for the user of the program that sent it,   *)
(* or for nobody, although all connections share UDS_Socket::_user.        *)
(***************************************************************************)
THEOREM DecidedForOwnUser == Spec => []OwnUserOrNobody
<1>1. IInv => OwnUserOrNobody
  BY DEF IInv, UserSeen, Seen, OwnUserOrNobody
<1> QED BY <1>1, Invariance, PTL

(***************************************************************************)
(* A result is given only for what is permitted, with a credential that    *)
(* fits and had not expired when the call began.                           *)
(***************************************************************************)
THEOREM ResultsAreJustified == Spec => []ResultJustified
<1>1. IInv => ResultJustified
  <2> SUFFICES ASSUME IInv, NEW p \in Programs, answer[p] = "result"
               PROVE  /\ \/ <<User[p], call[p].cred, call[p].op>> \in Granted
                         \/ <<Nobody, call[p].cred, call[p].op>> \in Granted
                      /\ Fits(call[p].op, call[p].cred)
                      /\ call[p].op # "decrypt" => asked[p] < Expires[call[p].cred]
    BY DEF ResultJustified
  <2>1. Reason("result", p, Seen(p))
    BY DEF IInv, Reasons
  <2> QED BY <2>1 DEF Reason, Permitted, Seen
<1> QED BY <1>1, Invariance, PTL

(***************************************************************************)
(* The empty answer is given only to a user without the permission, for an *)
(* expired credential, when the credentials were not seen, or where bad    *)
(* data is decrypted or signed.                                            *)
(***************************************************************************)
THEOREM EmptyAnswersHaveReasons == Spec => []EmptyForAReason
<1>1. IInv => EmptyForAReason
  <2> SUFFICES ASSUME IInv, NEW p \in Programs, answer[p] = "empty", greeting[p] # "unmarked"
               PROVE  \/ ~Permitted(User[p], call[p])
                      \/ call[p].op # "decrypt" /\ day >= Expires[call[p].cred]
                      \/ call[p].data = "bad" /\ call[p].op \in {"decrypt", "sign"}
    BY DEF EmptyForAReason
  <2>1. greeting[p] # "none" /\ Reason(answer[p], p, Seen(p))
    BY DEF IInv, Reasons
  <2>2. greeting[p] = "marked"
    BY <2>1 DEF IInv, TypeOK
  <2> QED BY <2>1, <2>2 DEF Reason, Seen
<1> QED BY <1>1, Invariance, PTL

(***************************************************************************)
(* What stops esol is a program killed while it is served, bad data in a   *)
(* permitted RSA operation, or something esol does not get from its        *)
(* database or from esod: nothing else that a program does.                *)
(***************************************************************************)
THEOREM StopsHaveReasons == Spec => []EsolSurvives
<1>1. IInv => EsolSurvives
  BY DEF IInv
<1> QED BY <1>1, Invariance, PTL

(***************************************************************************)
(* A program waits for ever, in recv() or for a thread of esol that spins, *)
(* only with a credential that does not fit or because of what stopped     *)
(* esol.                                                                   *)
(***************************************************************************)
THEOREM HangsHaveReasons == Spec => []HangsForAReason
<1>1. IInv => HangsForAReason
  BY DEF IInv, HungHow, EsolSurvives, HangsForAReason, WaitsInVain
<1> QED BY <1>1, Invariance, PTL
=============================================================================
