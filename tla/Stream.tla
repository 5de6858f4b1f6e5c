-------------------------------- MODULE Stream --------------------------------
(***************************************************************************)
(* A connection as TCP_Stream and UDS_Stream use it (socket/tcp_stream.h,  *)
(* socket/uds_stream.h, which are the same but for their names), in one    *)
(* direction: messages are written to a stream of bytes, each behind a     *)
(* header of two bytes with its length, and are put together again from    *)
(* whatever part of the stream each ::recv returns.                        *)
(*                                                                         *)
(* The network loses and reorders nothing, so its state is how much of     *)
(* the stream each side is through with: what is under way are the bytes   *)
(* after the first read ones, and msg_buffer, which keeps what was read    *)
(* too much for the next call, are those between taken and read.           *)
(***************************************************************************)
EXTENDS Naturals, Sequences, SequencesExt

CONSTANTS Base,       \* the number of values of a byte of a header
          MaxLength,  \* MAX_LENGTH: the most bytes one ::recv returns
          Msgs,       \* the messages that are sent
          MaxSent     \* bound: how many messages are sent

ASSUME StreamAssumption ==
    /\ Base \in Nat \ {0}
    /\ MaxLength \in Nat \ {0}
    /\ Msgs \subseteq Seq(Nat)
    /\ MaxSent \in Nat

VARIABLES
    stream,  \* the bytes written to the connection so far
    left,    \* how many bytes of its message send() has yet to write
    open,    \* the sender has the connection open
    read,    \* how many bytes ::recv has returned
    taken,   \* how many bytes have been removed from msg_buffer
    phase,   \* where the receiver is in recv(); "out" when it is not
    total,   \* the length that the header gave
    sent,    \* auxiliary: the messages given to send()
    got,     \* auxiliary: the messages that recv() has returned
    starts   \* auxiliary: starts[j], the bytes written before message j

sender   == <<stream, left, open, sent, starts>>
receiver == <<read, taken, phase, total, got>>
vars     == <<sender, receiver>>

Init ==
    /\ stream = <<>> /\ left = 0 /\ open = TRUE
    /\ read = 0 /\ taken = 0 /\ phase = "out" /\ total = 0
    /\ sent = <<>> /\ got = <<>> /\ starts = <<>>

-----------------------------------------------------------------------------
(***************************************************************************)
(* send(): the header, whose bytes are all there is of the length.  What   *)
(* ::send returns for it is not looked at.                                 *)
(***************************************************************************)
HeaderSize == 2
Header(n) == <<(n \div Base) % Base, n % Base>>

Send(m) ==
    /\ open /\ left = 0
    /\ Len(sent) < MaxSent
    /\ stream' = stream \o Header(Len(m))
    /\ left' = Len(m)
    /\ sent' = Append(sent, m)
    /\ starts' = Append(starts, Len(stream))
    /\ UNCHANGED <<open, receiver>>

(***************************************************************************)
(* One ::send of the loop: it writes the next n bytes of the message.      *)
(***************************************************************************)
Write(n) ==
    /\ open
    /\ n \in 1..left
    /\ LET m == sent[Len(sent)]
           done == Len(m) - left
       IN  stream' = stream \o SubSeq(m, done + 1, done + n)
    /\ left' = left - n
    /\ UNCHANGED <<open, sent, starts, receiver>>

(***************************************************************************)
(* The sender closes the connection, or its process ends, which may leave  *)
(* a message incomplete.                                                   *)
(***************************************************************************)
Close == open /\ open' = FALSE /\ UNCHANGED <<stream, left, sent, starts, receiver>>

-----------------------------------------------------------------------------
Buffered == read - taken

Recv == phase = "out" /\ phase' = "header" /\ UNCHANGED <<sender, read, taken, total, got>>

\* Mutant of Lacks: one byte is taken for a header.
LacksAny == \/ phase = "header" /\ Buffered < HeaderSize - 1
            \/ phase = "body" /\ Buffered < total

(***************************************************************************)
(* ::recv, while msg_buffer lacks bytes of the header or of the message.   *)
(* It returns what has arrived.  Once the connection is closed and nothing *)
(* is left it returns 0, and the loop repeats it without end.              *)
(***************************************************************************)
Lacks == \/ phase = "header" /\ Buffered < HeaderSize
         \/ phase = "body" /\ Buffered < total

Read(n) ==
    /\ Lacks
    /\ n \in 1..MaxLength /\ read + n <= Len(stream)
    /\ read' = read + n
    /\ UNCHANGED <<sender, taken, phase, total, got>>

ParseHeader ==
    /\ phase = "header" /\ ~Lacks
    /\ total' = stream[taken + 1] * Base + stream[taken + 2]
    /\ taken' = taken + HeaderSize
    /\ phase' = "body"
    /\ UNCHANGED <<sender, read, got>>

\* Mutants of Return: what was read too much is dropped; it is returned too.
ReturnDropsRest ==
    /\ phase = "body" /\ ~Lacks
    /\ got' = Append(got, SubSeq(stream, taken + 1, taken + total))
    /\ taken' = read
    /\ phase' = "out"
    /\ UNCHANGED <<sender, read, total>>

ReturnAll ==
    /\ phase = "body" /\ ~Lacks
    /\ got' = Append(got, SubSeq(stream, taken + 1, read))
    /\ taken' = read
    /\ phase' = "out"
    /\ UNCHANGED <<sender, read, total>>

(***************************************************************************)
(* The message is returned and removed from msg_buffer, the rest is kept.  *)
(***************************************************************************)
Return ==
    /\ phase = "body" /\ ~Lacks
    /\ got' = Append(got, SubSeq(stream, taken + 1, taken + total))
    /\ taken' = taken + total
    /\ phase' = "out"
    /\ UNCHANGED <<sender, read, total>>

Sender == (\E m \in Msgs : Send(m)) \/ (\E n \in 1..left : Write(n)) \/ Close
Receiver == Recv \/ (\E n \in 1..MaxLength : Read(n)) \/ ParseHeader \/ Return

Next == Sender \/ Receiver
Spec == Init /\ [][Next]_vars

(***************************************************************************)
(* A receiver that calls recv() again and again is scheduled; nothing is   *)
(* assumed of the sender, which may stop at any byte.                      *)
(***************************************************************************)
FairSpec == Spec /\ WF_vars(Receiver)

-----------------------------------------------------------------------------
(***************************************************************************)
(* Types; the receiver is not ahead of the sender.                         *)
(***************************************************************************)
TypeOK ==
    /\ stream \in Seq(Nat) /\ sent \in Seq(Msgs) /\ got \in Seq(Seq(Nat))
    /\ starts \in Seq(Nat)
    /\ left \in Nat /\ read \in Nat /\ taken \in Nat /\ total \in Nat
    /\ open \in BOOLEAN
    /\ phase \in {"out", "header", "body"}
    /\ taken <= read /\ read <= Len(stream)

(***************************************************************************)
(* Every message up to the k-th one is short enough for its header.        *)
(***************************************************************************)
Limit == Base * Base
Messages == INSTANCE Channel
FitsUpTo(k) == Messages!FitsUpTo(k)

(***************************************************************************)
(* "Returns a completed message": the k-th message that recv() returns is  *)
(* the k-th that was sent, whole, however ::send and ::recv have split the *)
(* stream, provided that the messages up to it fit their headers.          *)
(***************************************************************************)
InOrder ==
    \A k \in 1..Len(got) : FitsUpTo(k) => k \in DOMAIN sent /\ got[k] = sent[k]

(***************************************************************************)
(* The stream implements a channel of whole messages.                      *)
(***************************************************************************)
ImplementsChannel == Messages!Spec

(***************************************************************************)
(* A message that was written completely is received, also when the        *)
(* sender is gone by then, and whatever follows it.                        *)
(***************************************************************************)
Written(k) == k < Len(sent) \/ (k = Len(sent) /\ left = 0)

Delivered ==
    \A k \in 1..MaxSent : Written(k) /\ FitsUpTo(k) ~> Len(got) >= k
=============================================================================
