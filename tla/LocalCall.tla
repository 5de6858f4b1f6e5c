------------------------------ MODULE LocalCall ------------------------------
(***************************************************************************)
(* The programs of a host and its esol, message by message: the native     *)
(* methods of the Java class EsoLocal (EsoLocal_EsoLocal.cpp), the Unix    *)
(* domain socket between them (socket/uds_socket.h), and the one thread    *)
(* with which esol serves it (LocalDaemon::handleUDS).                     *)
(*                                                                         *)
(* A call has a connection of its own: the program connects, sends a byte  *)
(* that the kernel marks with its user, sends the request as a number of   *)
(* messages, and waits for one.  The messages of a connection arrive whole *)
(* and in order (module Stream), so that those under way are counted.      *)
(* What esol comes to know of permissions and credentials is given: module *)
(* Esol says where it has it from.  A credential that exists nowhere is of *)
(* kind "none" and has always expired.                                     *)
(***************************************************************************)
EXTENDS Naturals, Sequences, FiniteSets

CONSTANTS
    Programs,  \* the programs of the host
    User,      \* User[p]: the user that p runs as
    Nobody,    \* the user of a byte that the kernel did not mark
    Creds,     \* the credentials that programs ask for
    Kind,      \* Kind[c]: "symmetric", "asymmetric", "userpass", or "none"
    Expires,   \* Expires[c]: the day that is the expiration date of c
    Requests,  \* Requests[p]: what p asks for
    Granted,   \* the <<user, credential, operation>> that are permitted
    Unsure,    \* the permissions, as <<user, credential>>, and the credentials
               \* that esol may fail to get
    NoOne,     \* no program, no credential, no user
    Backlog,   \* MAX_QUEUE_SIZE of UDS_Socket
    MaxKills,  \* bound: how many programs are killed
    MaxDay     \* bound: the last day

Ops == {"encrypt", "decrypt", "hmac", "sign", "verify"}

\* What a program hands over is bad when it is too long for the key, was not
\* encrypted with it or from nothing, or goes with a hash that has no name.
Data == {"good", "bad"}

Calls == [op : Ops, cred : Creds, data : Data]
Ping   == [op |-> "ping", cred |-> NoOne, data |-> "good"]
NoCall == [op |-> "none", cred |-> NoOne, data |-> "good"]

ASSUME LocalCallAssumption ==
    /\ NoOne \notin Programs
    /\ \A p \in Programs : Requests[p] \subseteq Calls
    /\ Expires \in [Creds -> Nat]
    /\ Backlog \in Nat /\ MaxKills \in Nat /\ MaxDay \in Nat

VARIABLES
    pc,        \* pc[p]: where p is in its call
    call,      \* call[p]: what p's call asks for
    left,      \* left[p]: the messages that p has yet to send
    service,   \* the programs with an instance of EsoLocal
    greeting,  \* greeting[p]: the byte with p's user, once it is sent
    arrived,   \* arrived[p]: the messages of p that esol has not read
    answer,    \* answer[p]: what esol answers to p's call
    queue,     \* the connections that wait to be accepted
    phase,     \* where esol's UDS thread is
    serving,   \* the program it serves
    user,      \* UDS_Socket::_user
    req,       \* the request it reads
    need,      \* the messages of the request it has yet to read
    verdict,   \* the answer it is going to send
    day,       \* the current day
    asked,     \* auxiliary: asked[p], the day of p's call
    killed     \* auxiliary: the programs killed in a call

program == <<pc, call, left, service, asked, killed>>
wire    == <<greeting, arrived, answer, queue>>
esol    == <<phase, serving, user, req, need, verdict>>
vars    == <<program, wire, esol, day>>

Init ==
    /\ pc = [p \in Programs |-> "out"]
    /\ call = [p \in Programs |-> NoCall]
    /\ left = [p \in Programs |-> 0]
    /\ service = {}
    /\ greeting = [p \in Programs |-> "none"]
    /\ arrived = [p \in Programs |-> 0]
    /\ answer = [p \in Programs |-> "none"]
    /\ queue = <<>>
    /\ phase = "accept" /\ serving = NoOne /\ user = NoOne /\ req = NoCall
    /\ need = 0 /\ verdict = "none" /\ day = 0
    /\ asked = [p \in Programs |-> 0]
    /\ killed = {}

-----------------------------------------------------------------------------
(***************************************************************************)
(* The messages of a request as a program sends them: the operation, the   *)
(* set, the version and the data; of a signature to verify also the        *)
(* signature, and where a hash is used also which.                         *)
(***************************************************************************)
Sends(o) ==
    CASE o = "ping"                   -> 1
      [] o \in {"encrypt", "decrypt"} -> 4
      [] o \in {"hmac", "sign"}       -> 5
      [] o = "verify"                 -> 6

(***************************************************************************)
(* EsoLocal::getService pings esol for an instance; the other calls need   *)
(* one.                                                                    *)
(***************************************************************************)
MayCall(p, r) ==
    /\ pc[p] = "out"
    /\ IF p \in service THEN r \in Requests[p] ELSE r = Ping

(***************************************************************************)
(* UDS_Socket::connect: ::connect waits while the backlog is full.         *)
(***************************************************************************)
Connect(p, r) ==
    /\ MayCall(p, r)
    /\ phase # "down" /\ Len(queue) <= Backlog
    /\ pc' = [pc EXCEPT ![p] = "greet"]
    /\ call' = [call EXCEPT ![p] = r]
    /\ left' = [left EXCEPT ![p] = Sends(r.op)]
    /\ asked' = [asked EXCEPT ![p] = day]
    /\ queue' = Append(queue, p)
    /\ UNCHANGED <<service, killed, greeting, arrived, answer, esol, day>>

(***************************************************************************)
(* The end of a call, and of its connection.                               *)
(***************************************************************************)
Ends(p, to) ==
    /\ pc' = [pc EXCEPT ![p] = to]
    /\ call' = [call EXCEPT ![p] = NoCall]
    /\ asked' = [asked EXCEPT ![p] = 0]
    /\ left' = [left EXCEPT ![p] = 0]
    /\ greeting' = [greeting EXCEPT ![p] = "none"]
    /\ arrived' = [arrived EXCEPT ![p] = 0]
    /\ answer' = [answer EXCEPT ![p] = "none"]
    /\ UNCHANGED <<killed, queue, esol, day>>

(***************************************************************************)
(* An exception ends the call: pingEsoLocal returns false, the others end  *)
(* without a return value, which is undefined: the program goes on with    *)
(* any value or is lost.                                                   *)
(***************************************************************************)
Fails(p, o) ==
    /\ \E to \in IF o = "ping" THEN {"out"} ELSE {"out", "dead"} : Ends(p, to)
    /\ UNCHANGED service

Refused(p, r) == MayCall(p, r) /\ phase = "down" /\ Fails(p, r.op)

(***************************************************************************)
(* sendmsg in connect(): the kernel (external) marks what is sent before   *)
(* ::accept or after SO_PASSCRED is set, and nothing in between.           *)
(***************************************************************************)
SendCredentials(p) ==
    /\ pc[p] = "greet"
    /\ pc' = [pc EXCEPT ![p] = "send"]
    /\ greeting' = [greeting EXCEPT
           ![p] = IF phase = "accepted" /\ serving = p THEN "unmarked" ELSE "marked"]
    /\ UNCHANGED <<call, left, service, asked, killed,
                   arrived, answer, queue, esol, day>>

(***************************************************************************)
(* UDS_Stream::send of the next message of the request.                    *)
(***************************************************************************)
Send(p) ==
    /\ pc[p] = "send"
    /\ left' = [left EXCEPT ![p] = @ - 1]
    /\ arrived' = [arrived EXCEPT ![p] = @ + 1]
    /\ pc' = [pc EXCEPT ![p] = IF left[p] = 1 THEN "wait" ELSE "send"]
    /\ UNCHANGED <<call, service, asked, killed,
                   greeting, answer, queue, esol, day>>

Received(p, replies) == pc[p] = "wait" /\ answer[p] \in replies

PingReturns(p) ==
    /\ Received(p, {"pong"})
    /\ Ends(p, "out")
    /\ service' = service \cup {p}

Returns(p) ==
    /\ Received(p, {"empty", "result"}) /\ call[p].op # "verify"
    /\ Ends(p, "out")
    /\ UNCHANGED service

(***************************************************************************)
(* verify looks at the first byte of the answer.  The empty one has none:  *)
(* the program is lost.                                                    *)
(***************************************************************************)
VerifyReturns(p) ==
    /\ Received(p, {"empty", "result"}) /\ call[p].op = "verify"
    /\ Ends(p, IF answer[p] = "empty" THEN "dead" ELSE "out")
    /\ UNCHANGED service

(***************************************************************************)
(* The connection ends without an answer.  UDS_Stream::recv repeats ::recv *)
(* for ever; when esol is gone and has left something unread, ::recv gives *)
(* an error first, which ends in an exception.                             *)
(***************************************************************************)
Hangs(p) ==
    /\ \/ Received(p, {"closed"})
       \/ Received(p, {"none"}) /\ phase = "down"
    /\ pc' = [pc EXCEPT ![p] = "hung"]
    /\ UNCHANGED <<call, left, service, asked, killed, wire, esol, day>>

Breaks(p) == Received(p, {"none"}) /\ phase = "down" /\ Fails(p, call[p].op)

(***************************************************************************)
(* A program is killed in a call.                                          *)
(***************************************************************************)
Kill(p) ==
    /\ pc[p] \in {"greet", "send", "wait"}
    /\ Cardinality(killed) < MaxKills
    /\ pc' = [pc EXCEPT ![p] = "dead"]
    /\ killed' = killed \cup {p}
    /\ left' = [left EXCEPT ![p] = 0]
    /\ UNCHANGED <<call, service, asked, wire, esol, day>>

-----------------------------------------------------------------------------
(***************************************************************************)
(* The UDS thread of esol.  UDS_Socket::accept, and in recvCredentials     *)
(* SO_PASSCRED, recvmsg and getpwuid.                                      *)
(***************************************************************************)
Gone(p) == pc[p] \in {"out", "dead"}

Accept ==
    /\ phase = "accept" /\ queue # <<>>
    /\ serving' = Head(queue) /\ queue' = Tail(queue)
    /\ phase' = "accepted"
    /\ UNCHANGED <<program, greeting, arrived, answer, user, req, need, verdict, day>>

PassCredentials ==
    /\ phase = "accepted" /\ phase' = "greet"
    /\ UNCHANGED <<program, wire, serving, user, req, need, verdict, day>>

\* Mutant of RecvCredentials: _user is that of the connection before.
RecvCredentialsLate ==
    /\ phase = "greet" /\ greeting[serving] # "none"
    /\ user' = IF user = NoOne THEN User[serving] ELSE user
    /\ phase' = "read" /\ need' = 1
    /\ UNCHANGED <<program, wire, serving, req, verdict, day>>

RecvCredentials ==
    /\ phase = "greet" /\ greeting[serving] # "none"
    /\ user' = IF greeting[serving] = "marked" THEN User[serving] ELSE Nobody
    /\ phase' = "read" /\ need' = 1
    /\ UNCHANGED <<program, wire, serving, req, verdict, day>>

\* Mutants of Reads: a hash too many, a message too few.
ReadsMore(o) == IF o = "encrypt" THEN 5 ELSE Sends(o)
ReadsLess(o) == Sends(o) - 1

(***************************************************************************)
(* The messages that esol reads for a request.                             *)
(***************************************************************************)
Reads(o) ==
    CASE o = "ping"                   -> 1
      [] o \in {"encrypt", "decrypt"} -> 4
      [] o \in {"hmac", "sign"}       -> 5
      [] o = "verify"                 -> 6

Recv ==
    /\ phase = "read" /\ arrived[serving] > 0
    /\ arrived' = [arrived EXCEPT ![serving] = @ - 1]
    /\ req' = call[serving]
    /\ need' = IF req = NoCall THEN Reads(req'.op) - 1 ELSE need - 1
    /\ phase' = IF need' = 0 THEN "decide" ELSE "read"
    /\ UNCHANGED <<program, greeting, answer, queue, serving, user, verdict, day>>

(***************************************************************************)
(* The program is gone before it has sent everything: UDS_Stream::recv     *)
(* repeats ::recv for ever, also after a missing credential.               *)
(***************************************************************************)
RecvForEver ==
    /\ \/ phase = "greet" /\ greeting[serving] = "none"
       \/ phase = "read" /\ arrived[serving] = 0
    /\ Gone(serving)
    /\ phase' = "spins"
    /\ UNCHANGED <<program, wire, serving, user, req, need, verdict, day>>

\* Mutants of is_expired: one day late, one day early.
ExpiresAfter(c) == day > Expires[c]
ExpiresBefore(c) == day + 1 >= Expires[c]

(***************************************************************************)
(* is_expired: from the midnight on with which the expiration date begins. *)
(***************************************************************************)
is_expired(c) == day >= Expires[c]

(***************************************************************************)
(* What the type of a credential can be used for.                          *)
(***************************************************************************)
Fits(o, c) ==
    CASE o \in {"encrypt", "decrypt"} -> Kind[c] \in {"symmetric", "asymmetric"}
      [] o = "hmac"                   -> Kind[c] = "symmetric"
      [] o \in {"sign", "verify"}     -> Kind[c] = "asymmetric"

(***************************************************************************)
(* What the operation makes of its data, by crypto/aes.h, hmac.h and       *)
(* rsa.h.  OpenSSL (external) refuses bad data: aes_encrypt, aes_decrypt   *)
(* and hmac go on with what they have, of which a decryption may be        *)
(* nothing, rsa_sign gives the empty vector, and rsa_encrypt and           *)
(* rsa_decrypt make a vector of length -1.  A decryption of nothing is     *)
(* nothing.  rsa_verify makes one byte of whatever it finds.               *)
(***************************************************************************)
Yields(r) ==
    {v \in {"result", "empty", "throws"} :
        CASE v = "result" -> r.data = "good" \/ Kind[r.cred] = "symmetric" \/ r.op = "verify"
          [] v = "empty"  -> r.data = "bad" /\ r.op \in {"decrypt", "sign"}
          [] v = "throws" -> /\ r.data = "bad" /\ r.op \in {"encrypt", "decrypt"}
                             /\ Kind[r.cred] = "asymmetric"}

Permitted(u, r) == <<u, r.cred, r.op>> \in Granted
Expired(r) == r.op # "decrypt" /\ is_expired(r.cred)

\* Mutant of Judge: no answer for an expired credential.
JudgeSilently(r) ==
    IF ~Permitted(user, r) THEN {"empty"}
    ELSE IF ~Fits(r.op, r.cred) \/ Expired(r) THEN {"closed"}
    ELSE Yields(r)

\* Mutant of Judge: bad data is looked at before the permission.
JudgeDataFirst(r) ==
    IF "throws" \in Yields(r) THEN Yields(r)
    ELSE IF ~Permitted(user, r) \/ Expired(r) THEN {"empty"}
    ELSE IF ~Fits(r.op, r.cred) THEN {"closed"}
    ELSE Yields(r)

(***************************************************************************)
(* has_permission_to, then is_expired but not for decryption, then the     *)
(* type: where it does not fit, handleUDS closes the connection.           *)
(***************************************************************************)
Judge(r) ==
    IF ~Permitted(user, r) \/ Expired(r) THEN {"empty"}
    ELSE IF ~Fits(r.op, r.cred) THEN {"closed"}
    ELSE Yields(r)

(***************************************************************************)
(* The exception of a vector of length -1 is caught nowhere and ends esol. *)
(***************************************************************************)
Decide ==
    /\ phase = "decide"
    /\ \E v \in IF req.op = "ping" THEN {"pong"} ELSE Judge(req) :
          IF v = "throws" THEN phase' = "down" /\ UNCHANGED verdict
                          ELSE phase' = "reply" /\ verdict' = v
    /\ UNCHANGED <<program, wire, serving, user, req, need, day>>

(***************************************************************************)
(* get_permission, and get_credential for whoever has the permission, do   *)
(* not return: the database refuses the SELECT and has no result to look   *)
(* at, or it does not hold what is asked for and the connection to esod    *)
(* cannot be made (exit(1)), or ends without an answer (TCP_Stream::recv   *)
(* repeats ::recv for ever).                                               *)
(***************************************************************************)
MayFail(u, r) ==
    \/ <<u, r.cred>> \in Unsure
    \/ Permitted(u, r) /\ r.cred \in Unsure

LookupFails ==
    /\ phase = "decide" /\ req.op # "ping"
    /\ MayFail(user, req)
    /\ phase' \in {"down", "spins"}
    /\ UNCHANGED <<program, wire, serving, user, req, need, verdict, day>>

(***************************************************************************)
(* The answer is sent and the connection closed.  A program that is gone   *)
(* cannot be sent anything: the signal SIGPIPE ends esol.                  *)
(***************************************************************************)
Reply ==
    /\ phase = "reply"
    /\ IF Gone(serving) /\ verdict # "closed"
       THEN phase' = "down" /\ UNCHANGED <<answer, serving>>
       ELSE /\ answer' = [answer EXCEPT ![serving] = verdict]
            /\ phase' = "accept" /\ serving' = NoOne
    /\ req' = NoCall /\ verdict' = "none"
    /\ UNCHANGED <<program, greeting, arrived, queue, user, need, day>>

-----------------------------------------------------------------------------
NewDay == day < MaxDay /\ day' = day + 1 /\ UNCHANGED <<program, wire, esol>>

Program(p) ==
    \/ SendCredentials(p) \/ Send(p)
    \/ PingReturns(p) \/ Returns(p) \/ VerifyReturns(p)
    \/ Hangs(p) \/ Breaks(p)

Esol ==
    \/ Accept \/ PassCredentials \/ RecvCredentials \/ Recv \/ RecvForEver
    \/ Decide \/ LookupFails \/ Reply

Next ==
    \/ \E p \in Programs : \E r \in Requests[p] \cup {Ping} :
          Connect(p, r) \/ Refused(p, r)
    \/ \E p \in Programs : Program(p) \/ Kill(p)
    \/ Esol
    \/ NewDay

Spec == Init /\ [][Next]_vars

(***************************************************************************)
(* Threads that can go on are scheduled; nobody has to call.               *)
(***************************************************************************)
FairSpec == Spec /\ WF_vars(Esol) /\ \A p \in Programs : WF_vars(Program(p))

-----------------------------------------------------------------------------
(***************************************************************************)
(* Types.                                                                  *)
(***************************************************************************)
TypeOK ==
    /\ pc \in [Programs -> {"out", "greet", "send", "wait", "hung", "dead"}]
    /\ call \in [Programs -> Calls \cup {Ping, NoCall}]
    /\ left \in [Programs -> Nat] /\ arrived \in [Programs -> Nat]
    /\ service \subseteq Programs /\ killed \subseteq Programs
    /\ greeting \in [Programs -> {"none", "marked", "unmarked"}]
    /\ answer \in [Programs -> {"none", "pong", "empty", "result", "closed"}]
    /\ queue \in Seq(Programs)
    /\ phase \in {"accept", "accepted", "greet", "read", "decide", "reply",
                  "spins", "down"}
    /\ serving \in Programs \cup {NoOne}
    /\ user \in {User[p] : p \in Programs} \cup {Nobody, NoOne}
    /\ req \in Calls \cup {Ping, NoCall}
    /\ need \in Nat /\ day \in Nat
    /\ verdict \in {"none", "pong", "empty", "result", "closed"}
    /\ asked \in [Programs -> Nat]

Serving == phase \in {"read", "decide", "reply"}

(***************************************************************************)
(* A request is never decided for the user of another program, whoever     *)
(* called before and whenever the byte with the credentials was sent: it   *)
(* is decided for the program's own user or for nobody.                    *)
(***************************************************************************)
OwnUserOrNobody == Serving => user \in {User[serving], Nobody}

(***************************************************************************)
(* A program is given a result only of what its user may do, with a        *)
(* credential of a fitting type which, but for decryption, had not expired *)
(* when the program called.                                                *)
(***************************************************************************)
ResultJustified ==
    \A p \in Programs : answer[p] = "result" =>
        LET o == call[p].op
            c == call[p].cred
        IN  /\ <<User[p], c, o>> \in Granted \/ <<Nobody, c, o>> \in Granted
            /\ Fits(o, c)
            /\ o # "decrypt" => asked[p] < Expires[c]

(***************************************************************************)
(* The empty answer has a reason: the user may not do this, the credential *)
(* has expired by now, the credentials of the program were not seen, or    *)
(* there is nothing to give: bad data was decrypted or signed.             *)
(***************************************************************************)
EmptyForAReason ==
    \A p \in Programs : answer[p] = "empty" =>
        \/ ~Permitted(User[p], call[p])
        \/ call[p].op # "decrypt" /\ day >= Expires[call[p].cred]
        \/ greeting[p] = "unmarked"
        \/ call[p].data = "bad" /\ call[p].op \in {"decrypt", "sign"}

(***************************************************************************)
(* What stops esol, or its UDS thread: the program it serves was killed,   *)
(* or was permitted an RSA operation and gave it bad data, or asked for    *)
(* what esol then failed to get.                                           *)
(***************************************************************************)
StopReason ==
    \/ serving \in killed
    \/ /\ req.op \in {"encrypt", "decrypt"} /\ Kind[req.cred] = "asymmetric"
       /\ req.data = "bad" /\ Permitted(user, req)
    \/ req.op \in Ops /\ MayFail(user, req)

(***************************************************************************)
(* Nothing else stops esol: not the programs that wait, crash in verify or *)
(* return too late, not one without permission, not a ping, and not one    *)
(* killed while another is served.                                         *)
(***************************************************************************)
EsolSurvives == phase \in {"spins", "down"} => StopReason

(***************************************************************************)
(* A program waits in vain when it is in a recv() that nothing will end,   *)
(* or in a call while the thread of esol spins.  It does so only with a    *)
(* credential of a type that does not fit, or because of what stopped      *)
(* esol.                                                                   *)
(***************************************************************************)
InCall(p) == pc[p] \in {"greet", "send", "wait"}

Mismatch(r) == r.op \in Ops /\ ~Fits(r.op, r.cred)

WaitsInVain(p) == pc[p] = "hung" \/ (InCall(p) /\ phase = "spins")

HangsForAReason ==
    \A p \in Programs : WaitsInVain(p) =>
        \/ Mismatch(call[p])
        \/ phase \in {"spins", "down"} /\ StopReason

(***************************************************************************)
(* A call ends, unless the thread of esol spins, or the program is left in *)
(* a recv() that nothing will end, which needs a credential that does not  *)
(* fit or an esol that has gone.  So programs and esol never wait for each *)
(* other.                                                                  *)
(***************************************************************************)
CallsEnd ==
    \A p \in Programs : InCall(p) ~>
        \/ pc[p] \in {"out", "dead"}
        \/ phase = "spins"
        \/ pc[p] = "hung" /\ (phase = "down" \/ Mismatch(call[p]))
=============================================================================
