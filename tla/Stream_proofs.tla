---------------------------- MODULE Stream_proofs ----------------------------
(***************************************************************************)
(* A stream delivers whole messages in order, and so implements a channel, *)
(* for bytes of any size, any messages, and any way in which ::send and    *)
(* ::recv split the stream.                                                *)
(***************************************************************************)
EXTENDS Stream, SequenceTheorems, TLAPS

(***************************************************************************)
(* The inductive invariant.  Where the frame of each message starts and    *)
(* ends, and which bytes it has ...                                        *)
(***************************************************************************)
End(j) == starts[j] + HeaderSize + Len(sent[j])

Framed(j) ==
    /\ starts[j] + HeaderSize <= Len(stream)
    /\ stream[starts[j] + 1] = Header(Len(sent[j]))[1]
    /\ stream[starts[j] + 2] = Header(Len(sent[j]))[2]
    /\ \A x \in 1..Len(sent[j]) :
          starts[j] + HeaderSize + x <= Len(stream)
              => stream[starts[j] + HeaderSize + x] = sent[j][x]

Frames ==
    /\ Len(starts) = Len(sent)
    /\ \A j \in 1..Len(sent) : Framed(j)
    /\ \A j \in 1..Len(sent) : j + 1 <= Len(sent) => starts[j + 1] = End(j)
    /\ Len(sent) = 0 => Len(stream) = 0 /\ left = 0
    /\ Len(sent) > 0 => starts[1] = 0 /\ Len(stream) + left = End(Len(sent))

(***************************************************************************)
(* ... and that the receiver is between two frames or behind a header,     *)
(* as long as the lengths it has read are those of the messages.           *)
(***************************************************************************)
Boundary(k) == IF k = 0 THEN 0 ELSE End(k)

InStep ==
    FitsUpTo(Len(got)) =>
        /\ Len(got) <= Len(sent)
        /\ phase # "body" => taken = Boundary(Len(got))
        /\ phase = "body" =>
              /\ Len(got) < Len(sent)
              /\ taken = starts[Len(got) + 1] + HeaderSize
              /\ FitsUpTo(Len(got) + 1) => total = Len(sent[Len(got) + 1])

IInv == TypeOK /\ Frames /\ InStep /\ InOrder

-----------------------------------------------------------------------------
\* Division by Base.
LEMMA Digits ==
  ASSUME NEW n \in Nat
  PROVE  /\ n \div Base \in Nat /\ n % Base \in 0..(Base - 1)
         /\ n = Base * (n \div Base) + (n % Base)
<1>1. Base \in Nat /\ Base > 0
  BY StreamAssumption
<1>2. n \div Base \in Nat /\ n % Base \in 0..(Base - 1)
  BY <1>1
<1>3. n = Base * (n \div Base) + (n % Base)
  BY <1>1
<1> QED BY <1>2, <1>3

\* A header gives the length of every message that fits.
LEMMA HeaderType ==
  ASSUME NEW n \in Nat
  PROVE  /\ Header(n) \in Seq(Nat) /\ Len(Header(n)) = HeaderSize
         /\ n < Limit => Header(n)[1] * Base + Header(n)[2] = n
<1> DEFINE hi == n \div Base
           lo == n % Base
<1>1. /\ hi \in Nat /\ lo \in 0..(Base - 1) /\ n = Base * hi + lo
      /\ Base \in Nat /\ Base > 0
  BY Digits, StreamAssumption
<1>2. hi % Base \in 0..(Base - 1)
  BY <1>1, Digits
<1>3. ASSUME n < Base * Base PROVE hi % Base = hi
  <2>1. hi < Base
    <3> HIDE DEF hi, lo
    <3>1. SUFFICES ASSUME hi >= Base PROVE FALSE
      BY <1>1
    <3>2. Base * hi >= Base * Base
      BY <1>1, <3>1
    <3> QED BY <1>1, <1>3, <3>2
  <2> QED BY <2>1, <1>1, StreamAssumption
<1>4. Header(n) = <<hi % Base, lo>>
  BY DEF Header
<1> HIDE DEF hi, lo
<1>5. n < Base * Base => (hi % Base) * Base + lo = n
  BY <1>1, <1>3
<1>6. Header(n) \in Seq(Nat) /\ Len(Header(n)) = HeaderSize
  <2>1. hi % Base \in Nat /\ lo \in Nat
    BY <1>1, <1>2
  <2> QED BY <2>1, <1>4 DEF HeaderSize
<1>7. Header(n)[1] = hi % Base /\ Header(n)[2] = lo
  BY <1>4
<1> QED BY <1>5, <1>6, <1>7 DEF Limit

-----------------------------------------------------------------------------
\* What it means to fit, without the channel.
LEMMA FitsFacts ==
  ASSUME NEW k
  PROVE  FitsUpTo(k) <=> \A i \in 1..k : i \in DOMAIN sent => Len(sent[i]) < Limit
  BY DEF FitsUpTo, Messages!FitsUpTo

\* A message sent later makes no earlier one fit, and spoils none.
LEMMA FitsStable ==
  ASSUME TypeOK, NEW m \in Msgs, sent' = Append(sent, m)
  PROVE  /\ \A k \in Nat : FitsUpTo(k)' => FitsUpTo(k)
         /\ Len(sent') = Len(sent) + 1
         /\ sent'[Len(sent) + 1] = m
         /\ \A j \in 1..Len(sent) : sent'[j] = sent[j]
<1>1. /\ Len(sent) \in Nat /\ DOMAIN sent = 1..Len(sent)
      /\ Len(sent') = Len(sent) + 1 /\ DOMAIN sent' = 1..(Len(sent) + 1)
      /\ sent'[Len(sent) + 1] = m
      /\ \A j \in 1..Len(sent) : sent'[j] = sent[j]
  BY DEF TypeOK
<1>2. ASSUME NEW k \in Nat, FitsUpTo(k)',
             NEW i \in 1..k, i \in DOMAIN sent
      PROVE  Len(sent[i]) < Limit
  <2>1. i \in DOMAIN sent' /\ sent'[i] = sent[i]
    BY <1>1, <1>2
  <2>2. Len(sent'[i]) < Limit
    BY <1>2, <2>1 DEF FitsUpTo, Messages!FitsUpTo, Limit
  <2> QED BY <2>1, <2>2
<1> QED BY <1>1, <1>2, FitsFacts

\* Bytes are added to the end of the stream.
LEMMA StreamGrows ==
  ASSUME TypeOK, NEW s \in Seq(Nat), stream' = stream \o s
  PROVE  /\ stream' \in Seq(Nat) /\ Len(stream') = Len(stream) + Len(s)
         /\ \A i \in 1..Len(stream) : stream'[i] = stream[i]
         /\ \A i \in 1..Len(s) : stream'[Len(stream) + i] = s[i]
  BY DEF TypeOK

\* Only the last frame can be incomplete.
LEMMA FrameEnds ==
  ASSUME TypeOK, Frames, NEW j \in 1..Len(sent)
  PROVE  /\ starts[j] \in Nat /\ Len(sent[j]) \in Nat
         /\ j < Len(sent) => End(j) <= Len(stream)
         /\ j = Len(sent) => End(j) = Len(stream) + left
<1>1. starts[j] \in Nat /\ sent[j] \in Seq(Nat)
  <2>1. sent \in Seq(Seq(Nat)) /\ starts \in Seq(Nat) /\ Len(starts) = Len(sent)
    BY StreamAssumption DEF TypeOK, Frames
  <2> QED BY <2>1, ElementOfSeq
<1>2. ASSUME j < Len(sent) PROVE End(j) <= Len(stream)
  <2>1. j + 1 \in 1..Len(sent) /\ starts[j + 1] = End(j)
    BY <1>2 DEF Frames, TypeOK
  <2>2. starts[j + 1] \in Nat /\ starts[j + 1] + HeaderSize <= Len(stream)
    <3>1. Framed(j + 1) /\ Len(starts) = Len(sent)
      BY <2>1 DEF Frames
    <3>2. starts[j + 1] \in Nat
      BY <2>1, <3>1 DEF TypeOK
    <3>3. starts[j + 1] + HeaderSize <= Len(stream)
      BY <3>1 DEF Framed
    <3> QED BY <3>2, <3>3
  <2> QED BY <2>1, <2>2 DEF HeaderSize, TypeOK
<1>3. j = Len(sent) => End(j) = Len(stream) + left
  BY DEF Frames
<1> QED BY <1>1, <1>2, <1>3

-----------------------------------------------------------------------------
(***************************************************************************)
(* The receiver does not notice what the sender adds.                      *)
(***************************************************************************)
LEMMA ReceiverUndisturbed ==
  ASSUME IInv, UNCHANGED receiver,
         Len(sent') >= Len(sent), Len(sent') \in Nat,
         \A j \in 1..Len(sent) : sent'[j] = sent[j] /\ starts'[j] = starts[j],
         DOMAIN sent' = 1..Len(sent'),
         \A k \in Nat : FitsUpTo(k)' => FitsUpTo(k)
  PROVE  InStep' /\ InOrder'
<1> USE DEF IInv, receiver
<1>1. Len(got) \in Nat /\ Len(sent) \in Nat /\ DOMAIN sent = 1..Len(sent)
  BY DEF TypeOK
<1>2. \A j \in 1..Len(sent) : End(j)' = End(j)
  BY DEF End
<1>3. ASSUME FitsUpTo(Len(got))'
      PROVE  /\ Len(got) <= Len(sent')
             /\ phase # "body" => taken = Boundary(Len(got))'
             /\ phase = "body" =>
                   /\ Len(got) < Len(sent')
                   /\ taken = starts'[Len(got) + 1] + HeaderSize
                   /\ FitsUpTo(Len(got) + 1)' => total = Len(sent'[Len(got) + 1])
  <2>1. FitsUpTo(Len(got))
    BY <1>1, <1>3
  <2>2. FitsUpTo(Len(got) + 1)' => FitsUpTo(Len(got) + 1)
    BY <1>1
  <2>3. Len(got) <= Len(sent)
    BY <2>1 DEF InStep
  <2>4. Boundary(Len(got))' = Boundary(Len(got))
    BY <1>1, <1>2, <2>3 DEF Boundary
  <2>5. CASE phase = "body"
    <3>1. Len(got) + 1 \in 1..Len(sent)
      BY <1>1, <2>1, <2>5 DEF InStep
    <3> QED BY <1>1, <2>1, <2>2, <2>5, <3>1 DEF InStep
  <2>6. CASE phase # "body"
    BY <1>1, <2>1, <2>3, <2>4, <2>6 DEF InStep
  <2> QED BY <2>5, <2>6
<1>4. InStep'
  BY <1>3 DEF InStep
<1>5. ASSUME NEW k \in 1..Len(got), FitsUpTo(k)'
      PROVE  k \in DOMAIN sent' /\ got[k] = sent'[k]
  BY <1>1, <1>5 DEF InOrder
<1>6. InOrder'
  BY <1>5 DEF InOrder
<1> QED BY <1>4, <1>6

-----------------------------------------------------------------------------
(***************************************************************************)
(* Part of a message, as it is written and as it is returned.              *)
(***************************************************************************)
LEMMA Part ==
  ASSUME NEW q \in Seq(Nat), NEW a \in Nat, NEW n \in Nat, a + n <= Len(q)
  PROVE  /\ SubSeq(q, a + 1, a + n) \in Seq(Nat)
         /\ Len(SubSeq(q, a + 1, a + n)) = n
         /\ \A i \in 1..n : SubSeq(q, a + 1, a + n)[i] = q[a + i]
<1>1. \A i \in (a + 1)..(a + n) : q[i] \in Nat
  OBVIOUS
<1>2. /\ SubSeq(q, a + 1, a + n) \in Seq(Nat)
      /\ Len(SubSeq(q, a + 1, a + n)) = n
      /\ \A i \in 1..n : SubSeq(q, a + 1, a + n)[i] = q[(a + 1) + i - 1]
  BY <1>1, SubSeqProperties
<1> QED BY <1>2

(***************************************************************************)
(* The steps of the sender.  A frame that is complete stays as it is when  *)
(* bytes are added to the stream.                                          *)
(***************************************************************************)
LEMMA FrameStays ==
  ASSUME TypeOK, Frames, NEW s \in Seq(Nat), stream' = stream \o s,
         NEW j \in 1..Len(sent), End(j) <= Len(stream),
         sent'[j] = sent[j], starts'[j] = starts[j]
  PROVE  Framed(j)'
<1>1. /\ Len(stream) \in Nat /\ Len(stream') = Len(stream) + Len(s) /\ Len(s) \in Nat
      /\ \A i \in 1..Len(stream) : stream'[i] = stream[i]
  BY StreamGrows DEF TypeOK
<1>2. starts[j] \in Nat /\ Len(sent[j]) \in Nat /\ Framed(j)
  BY FrameEnds DEF Frames
<1>3. /\ starts[j] + HeaderSize <= Len(stream)
      /\ starts[j] + 1 \in 1..Len(stream) /\ starts[j] + 2 \in 1..Len(stream)
      /\ \A x \in 1..Len(sent[j]) : starts[j] + HeaderSize + x \in 1..Len(stream)
  <2>1. starts[j] + HeaderSize <= Len(stream)
    BY <1>2 DEF Framed
  <2>2. starts[j] + HeaderSize + Len(sent[j]) <= Len(stream)
    BY DEF End
  <2> DEFINE a == starts[j]
             b == Len(sent[j])
             c == Len(stream)
  <2>3. a \in Nat /\ b \in Nat /\ c \in Nat /\ a + 2 <= c /\ a + 2 + b <= c
    BY <1>1, <1>2, <2>1, <2>2 DEF HeaderSize
  <2> HIDE DEF a, b, c
  <2>4. /\ a + 1 \in 1..c /\ a + 2 \in 1..c
        /\ \A x \in 1..b : a + 2 + x \in 1..c
    BY <2>3
  <2> QED BY <2>1, <2>4 DEF a, b, c, HeaderSize
<1>4. \A x \in 1..Len(sent[j]) :
          stream'[starts[j] + HeaderSize + x] = sent[j][x]
  <2> TAKE x \in 1..Len(sent[j])
  <2>1. stream[starts[j] + HeaderSize + x] = sent[j][x]
    BY <1>2, <1>3, <1>1 DEF Framed
  <2> QED BY <1>1, <1>3, <2>1
<1>5. Header(Len(sent'[j]))[1] = Header(Len(sent[j]))[1]
  OBVIOUS
<1>6. starts[j] + HeaderSize <= Len(stream')
  BY <1>1, <1>2, <1>3 DEF HeaderSize
<1>7. /\ stream'[starts[j] + 1] = Header(Len(sent[j]))[1]
      /\ stream'[starts[j] + 2] = Header(Len(sent[j]))[2]
  BY <1>1, <1>2, <1>3 DEF Framed
<1> QED BY <1>4, <1>6, <1>7 DEF Framed, Header

LEMMA SendStep ==
  ASSUME IInv, NEW m \in Msgs, Send(m)
  PROVE  IInv'
<1> DEFINE s == Header(Len(m))
<1>0. PICK L \in Nat : L = Len(sent)
  BY DEF IInv, TypeOK
<1>1. /\ Len(stream) \in Nat /\ Len(starts) = L /\ left = 0
      /\ m \in Seq(Nat) /\ Len(m) \in Nat /\ s \in Seq(Nat) /\ Len(s) = HeaderSize
  BY <1>0, HeaderType, StreamAssumption DEF IInv, TypeOK, Frames, Send
<1>2. /\ stream' = stream \o s /\ left' = Len(m)
      /\ sent' = Append(sent, m) /\ starts' = Append(starts, Len(stream))
      /\ UNCHANGED <<open, receiver>>
  BY DEF Send
<1>3. /\ stream' \in Seq(Nat) /\ Len(stream') = Len(stream) + HeaderSize
      /\ \A i \in 1..Len(s) : stream'[Len(stream) + i] = s[i]
  BY <1>1, <1>2, StreamGrows DEF IInv
<1>4. /\ Len(sent') = L + 1 /\ sent'[L + 1] = m
      /\ \A j \in 1..L : sent'[j] = sent[j]
      /\ \A k \in Nat : FitsUpTo(k)' => FitsUpTo(k)
  BY <1>0, <1>2, FitsStable DEF IInv
<1>5. /\ Len(starts') = L + 1 /\ starts'[L + 1] = Len(stream)
      /\ \A j \in 1..L : starts'[j] = starts[j]
  BY <1>0, <1>1, <1>2 DEF IInv, TypeOK
<1>6. TypeOK'
  BY <1>1, <1>2, <1>3 DEF IInv, TypeOK, receiver, HeaderSize
<1>7. \A j \in 1..L : End(j) <= Len(stream)
  BY <1>0, <1>1, FrameEnds DEF IInv
<1>8. \A j \in 1..L : Framed(j)'
  BY <1>0, <1>1, <1>2, <1>4, <1>5, <1>7, FrameStays DEF IInv
<1>9. Framed(L + 1)'
  <2>1. /\ stream'[Len(stream) + 1] = Header(Len(m))[1]
        /\ stream'[Len(stream) + 2] = Header(Len(m))[2]
    BY <1>1, <1>3 DEF HeaderSize
  <2>2. \A x \in 1..Len(m) : ~(Len(stream) + HeaderSize + x <= Len(stream'))
    BY <1>1, <1>3 DEF HeaderSize
  <2>3. Len(stream) + HeaderSize <= Len(stream')
    BY <1>1, <1>3 DEF HeaderSize
  <2> QED BY <1>4, <1>5, <2>1, <2>2, <2>3 DEF Framed, Header
<1>10. ASSUME NEW j \in 1..(L + 1), j + 1 <= L + 1
       PROVE  starts'[j + 1] = starts'[j] + HeaderSize + Len(sent'[j])
  <2>1. CASE j < L
    <3>1. j \in 1..L /\ j + 1 \in 1..L /\ starts[j + 1] = End(j)
      BY <1>0, <2>1 DEF IInv, Frames
    <3> QED BY <1>4, <1>5, <3>1 DEF End
  <2>2. CASE j = L
    <3>1. j \in 1..L /\ End(j) = Len(stream) + left
      BY <1>0, <2>2, FrameEnds DEF IInv
    <3> QED BY <1>1, <1>4, <1>5, <2>2, <3>1 DEF End
  <2> QED BY <1>1, <1>10, <2>1, <2>2
<1>11. starts'[1] = 0
  <2>1. CASE L = 0
    BY <1>0, <1>1, <1>5, <2>1 DEF IInv, Frames
  <2>2. CASE L > 0
    <3>1. 1 \in 1..L /\ starts[1] = 0
      BY <1>0, <2>2 DEF IInv, Frames
    <3> QED BY <1>5, <3>1
  <2> QED BY <2>1, <2>2
<1>12. Frames'
  <2>1. \A j \in 1..(L + 1) : Framed(j)'
    BY <1>8, <1>9
  <2>2. Len(stream') + left' = starts'[L + 1] + HeaderSize + Len(sent'[L + 1])
    BY <1>1, <1>2, <1>3, <1>4, <1>5 DEF HeaderSize
  <2> QED BY <1>4, <1>5, <1>10, <1>11, <2>1, <2>2 DEF Frames, End
<1>13. InStep' /\ InOrder'
  <2>1. UNCHANGED receiver /\ DOMAIN sent' = 1..Len(sent')
    BY <1>0, <1>2, <1>6 DEF TypeOK
  <2>2. Len(sent') >= Len(sent) /\ Len(sent') \in Nat
    BY <1>0, <1>4
  <2>3. \A j \in 1..Len(sent) : sent'[j] = sent[j] /\ starts'[j] = starts[j]
    BY <1>0, <1>4, <1>5
  <2>4. \A k \in Nat : FitsUpTo(k)' => FitsUpTo(k)
    BY <1>4
  <2> QED BY <2>1, <2>2, <2>3, <2>4, ReceiverUndisturbed
<1> QED BY <1>6, <1>12, <1>13 DEF IInv

LEMMA WriteStep ==
  ASSUME IInv, NEW n \in 1..left, Write(n)
  PROVE  IInv'
<1>0. PICK L \in Nat : L = Len(sent)
  BY DEF IInv, TypeOK
<1> DEFINE m == sent[L]
           done == Len(m) - left
           s == SubSeq(m, done + 1, done + n)
<1>1. /\ L > 0 /\ L \in 1..Len(sent) /\ left \in Nat /\ n \in Nat /\ n > 0 /\ n <= left
      /\ Len(stream) \in Nat
  BY <1>0 DEF IInv, TypeOK, Frames
<1>2. m \in Seq(Nat) /\ Len(m) \in Nat /\ starts[L] \in Nat
  BY <1>0, <1>1, StreamAssumption DEF IInv, TypeOK, Frames
<1>3. /\ Len(stream) + left = starts[L] + HeaderSize + Len(m)
      /\ starts[L] + HeaderSize <= Len(stream)
      /\ Framed(L)
  BY <1>0, <1>1 DEF IInv, Frames, End, Framed
<1>4. done \in Nat /\ done + n <= Len(m)
  BY <1>1, <1>2, <1>3 DEF HeaderSize
<1>5. /\ s \in Seq(Nat) /\ Len(s) = n
      /\ \A i \in 1..n : s[i] = m[done + i]
  <2> HIDE DEF m, done
  <2> QED BY <1>1, <1>2, <1>4, Part
<1>6. /\ stream' = stream \o s /\ left' = left - n
      /\ UNCHANGED <<open, sent, starts, receiver>>
  BY <1>0 DEF Write
<1>7. /\ stream' \in Seq(Nat) /\ Len(stream') = Len(stream) + n
      /\ \A i \in 1..Len(stream) : stream'[i] = stream[i]
      /\ \A i \in 1..n : stream'[Len(stream) + i] = s[i]
  BY <1>5, <1>6, StreamGrows DEF IInv
<1>8. TypeOK'
  BY <1>1, <1>6, <1>7 DEF IInv, TypeOK, receiver
<1>9. ASSUME NEW j \in 1..L, j < L PROVE Framed(j)'
  <2>1. End(j) <= Len(stream)
    BY <1>0, <1>9, FrameEnds DEF IInv
  <2> QED BY <1>0, <1>5, <1>6, <2>1, FrameStays DEF IInv
<1>10. Framed(L)'
  <2>1. PICK a \in Nat, b \in Nat, c \in Nat :
            a = starts[L] + HeaderSize /\ b = Len(m) /\ c = Len(stream)
    BY <1>1, <1>2 DEF HeaderSize
  <2>2. /\ a <= c /\ done + a = c /\ Len(stream') = c + n
    <3>1. c + left = a + b /\ a <= c
      BY <1>3, <2>1
    <3>2. done = b - left
      BY <2>1
    <3> HIDE DEF m, done
    <3>3. done + a = c
      BY <1>1, <3>1, <3>2
    <3> QED BY <1>7, <2>1, <3>1, <3>3
  <2>3. ASSUME NEW x \in 1..b, a + x <= c + n
        PROVE  stream'[a + x] = m[x]
    <3>1. CASE a + x <= c
      <4>1. stream[a + x] = m[x]
        BY <1>3, <2>1, <3>1 DEF Framed
      <4>2. a + x \in 1..c
        BY <3>1
      <4> QED BY <1>7, <2>1, <4>1, <4>2
    <3>2. CASE ~(a + x <= c)
      <4>1. PICK i \in 1..n : a + x = c + i
        BY <1>1, <2>3, <3>2
      <4>2. x = done + i
        BY <1>1, <2>2, <4>1
      <4>3. stream'[c + i] = m[done + i]
        BY <1>5, <1>7, <2>1
      <4> QED BY <4>1, <4>2, <4>3
    <3> QED BY <3>1, <3>2
  <2>4. /\ starts[L] + 1 \in 1..c /\ starts[L] + 2 \in 1..c
        /\ starts[L] + HeaderSize <= Len(stream')
    <3>1. PICK b0 \in Nat : b0 = starts[L]
      BY <1>2
    <3>2. a = b0 + 2
      BY <2>1, <3>1 DEF HeaderSize
    <3>3. b0 + 1 \in 1..c /\ b0 + 2 \in 1..c /\ b0 + 2 <= c + n
      BY <1>1, <2>2, <3>2
    <3> QED BY <2>2, <3>1, <3>3 DEF HeaderSize
  <2>5. /\ stream'[starts[L] + 1] = Header(Len(m))[1]
        /\ stream'[starts[L] + 2] = Header(Len(m))[2]
    BY <1>3, <1>7, <2>1, <2>4 DEF Framed
  <2> QED BY <1>6, <2>1, <2>2, <2>3, <2>4, <2>5 DEF Framed, Header
<1>11. \A j \in 1..L : Framed(j)'
  BY <1>9, <1>10
<1>12. Len(stream') + left' = End(L)
  BY <1>1, <1>2, <1>3, <1>6, <1>7 DEF End, HeaderSize
<1>13. Frames'
  BY <1>0, <1>1, <1>6, <1>11, <1>12 DEF IInv, Frames, End
<1>14. InStep' /\ InOrder'
  <2>1. \A k : FitsUpTo(k)' <=> FitsUpTo(k)
    BY <1>6 DEF FitsUpTo, Messages!FitsUpTo, Limit
  <2> QED BY <1>0, <1>6, <1>8, <2>1, ReceiverUndisturbed DEF TypeOK
<1> QED BY <1>8, <1>13, <1>14 DEF IInv

LEMMA CloseStep ==
  ASSUME IInv, Close
  PROVE  IInv'
<1>1. UNCHANGED <<stream, left, sent, starts, receiver>> /\ open' = FALSE
  BY DEF Close
<1>2. TypeOK'
  BY <1>1 DEF IInv, TypeOK, receiver
<1>3. Frames'
  BY <1>1 DEF IInv, Frames, Framed, End
<1>4. InStep' /\ InOrder'
  <2>1. \A k : FitsUpTo(k)' <=> FitsUpTo(k)
    BY <1>1 DEF FitsUpTo, Messages!FitsUpTo, Limit
  <2> QED BY <1>1, <1>2, <2>1, ReceiverUndisturbed DEF TypeOK
<1> QED BY <1>2, <1>3, <1>4 DEF IInv

-----------------------------------------------------------------------------
(***************************************************************************)
(* The steps of the receiver, which leave the frames alone.                *)
(***************************************************************************)
LEMMA FramesStay ==
  ASSUME IInv, UNCHANGED sender
  PROVE  Frames' /\ \A k : FitsUpTo(k)' <=> FitsUpTo(k)
<1>1. Frames'
  BY DEF IInv, sender, Frames, Framed, End
<1>2. \A k : FitsUpTo(k)' <=> FitsUpTo(k)
  BY DEF sender, FitsUpTo, Messages!FitsUpTo, Limit
<1> QED BY <1>1, <1>2

\* Steps that take nothing from msg_buffer.
LEMMA WaitStep ==
  ASSUME IInv, Recv \/ \E n \in 1..MaxLength : Read(n)
  PROVE  IInv'
<1>1. UNCHANGED <<sender, taken, total, got>>
  BY DEF Recv, Read
<1>2. Frames' /\ \A k : FitsUpTo(k)' <=> FitsUpTo(k)
  BY <1>1, FramesStay
<1>3. phase' = phase \/ (phase = "out" /\ phase' = "header")
  BY DEF Recv, Read
<1>4. TypeOK'
  <2>1. CASE Recv
    BY <1>1, <2>1 DEF Recv, IInv, TypeOK, sender
  <2>2. ASSUME NEW n \in 1..MaxLength, Read(n)
        PROVE  TypeOK'
    <3>1. n \in Nat /\ read' = read + n /\ read + n <= Len(stream)
      BY <2>2, StreamAssumption DEF Read
    <3> QED BY <1>1, <1>3, <3>1 DEF IInv, TypeOK, sender
  <2> QED BY <2>1, <2>2
<1>5. InStep'
  BY <1>1, <1>2, <1>3 DEF IInv, InStep, Boundary, End, sender
<1>6. InOrder'
  BY <1>1, <1>2 DEF IInv, InOrder, sender
<1> QED BY <1>2, <1>4, <1>5, <1>6 DEF IInv

\* At a frame's start with a header's bytes read, a message has been sent.
LEMMA AtFrame ==
  ASSUME IInv, FitsUpTo(Len(got)), phase = "header", ~Lacks
  PROVE  /\ Len(got) + 1 \in 1..Len(sent)
         /\ taken = starts[Len(got) + 1]
<1>0. PICK k \in Nat : k = Len(got)
  BY DEF IInv, TypeOK
<1>1. k <= Len(sent) /\ taken = Boundary(k)
  BY <1>0 DEF IInv, InStep
<1>2. /\ taken + 2 <= Len(stream) /\ taken \in Nat /\ left \in Nat
      /\ Len(stream) \in Nat /\ Len(sent) \in Nat
  BY DEF IInv, TypeOK, Lacks, Buffered, HeaderSize
<1>3. k # Len(sent)
  <2>1. CASE k = 0
    BY <1>2, <2>1 DEF IInv, Frames
  <2>2. ASSUME k # 0, k = Len(sent) PROVE FALSE
    <3>1. End(k) = Len(stream) + left
      BY <1>2, <2>2 DEF IInv, Frames
    <3> QED BY <1>1, <1>2, <2>2, <3>1 DEF Boundary
  <2> QED BY <2>1, <2>2
<1>4. k + 1 \in 1..Len(sent)
  BY <1>1, <1>2, <1>3
<1>5. taken = starts[k + 1]
  <2>1. CASE k = 0
    <3>1. starts[1] = 0
      BY <1>2, <1>4, <2>1 DEF IInv, Frames
    <3> QED BY <1>1, <2>1, <3>1 DEF Boundary
  <2>2. CASE k # 0
    <3>1. k \in 1..Len(sent) /\ k + 1 <= Len(sent)
      BY <1>2, <1>4, <2>2
    <3>2. starts[k + 1] = End(k)
      BY <3>1 DEF IInv, Frames
    <3> QED BY <1>1, <2>2, <3>2 DEF Boundary
  <2> QED BY <2>1, <2>2
<1> QED BY <1>0, <1>4, <1>5

LEMMA ParseStep ==
  ASSUME IInv, ParseHeader
  PROVE  IInv'
<1>0. PICK k \in Nat : k = Len(got)
  BY DEF IInv, TypeOK
<1>1. /\ phase = "header" /\ ~Lacks /\ phase' = "body"
      /\ total' = stream[taken + 1] * Base + stream[taken + 2]
      /\ taken' = taken + 2
      /\ UNCHANGED <<sender, read, got>>
  BY DEF ParseHeader, HeaderSize
<1>2. Frames' /\ \A i : FitsUpTo(i)' <=> FitsUpTo(i)
  BY <1>1, FramesStay
<1>3. /\ taken \in Nat /\ read \in Nat /\ Len(stream) \in Nat
      /\ taken + 2 <= read /\ read <= Len(stream)
  BY <1>1 DEF IInv, TypeOK, Lacks, Buffered, HeaderSize
<1>4. total' \in Nat
  <2>1. taken + 1 \in 1..Len(stream) /\ taken + 2 \in 1..Len(stream)
    BY <1>3
  <2>2. stream[taken + 1] \in Nat /\ stream[taken + 2] \in Nat
    <3>1. stream \in Seq(Nat)
      BY DEF IInv, TypeOK
    <3> QED BY <2>1, <3>1, ElementOfSeq
  <2> QED BY <1>1, <2>2, StreamAssumption
<1>5. TypeOK'
  BY <1>1, <1>3, <1>4 DEF IInv, TypeOK, sender
<1>6. ASSUME FitsUpTo(k)
      PROVE  /\ k + 1 \in 1..Len(sent)
             /\ taken' = starts[k + 1] + HeaderSize
             /\ FitsUpTo(k + 1) => total' = Len(sent[k + 1])
  <2>1. k + 1 \in 1..Len(sent) /\ taken = starts[k + 1]
    BY <1>0, <1>1, <1>6, AtFrame
  <2>2. Framed(k + 1) /\ Len(sent[k + 1]) \in Nat
    BY <2>1, FrameEnds DEF IInv, Frames
  <2>3. /\ stream[taken + 1] = Header(Len(sent[k + 1]))[1]
        /\ stream[taken + 2] = Header(Len(sent[k + 1]))[2]
    BY <2>1, <2>2 DEF Framed
  <2>4. ASSUME FitsUpTo(k + 1) PROVE Len(sent[k + 1]) < Limit
    <3>1. k + 1 \in 1..(k + 1) /\ k + 1 \in DOMAIN sent
      BY <2>1 DEF IInv, TypeOK
    <3> QED BY <2>4, <3>1, FitsFacts
  <2>5. ASSUME FitsUpTo(k + 1) PROVE total' = Len(sent[k + 1])
    BY <1>1, <2>2, <2>3, <2>4, <2>5, HeaderType
  <2> QED BY <1>1, <2>1, <2>5 DEF HeaderSize
<1>7. InStep'
  <2>1. UNCHANGED <<sent, starts, got>>
    BY <1>1 DEF sender
  <2>2. Len(sent) \in Nat
    BY DEF IInv, TypeOK
  <2>3. k + 1 \in 1..Len(sent) => k <= Len(sent) /\ k < Len(sent)
    BY <2>2
  <2> QED BY <1>0, <1>1, <1>2, <1>6, <2>1, <2>3 DEF InStep
<1>8. InOrder'
  BY <1>1, <1>2 DEF IInv, InOrder, sender
<1> QED BY <1>2, <1>5, <1>7, <1>8 DEF IInv

\* The bytes that recv() returns are those of the message.
LEMMA WholeMessage ==
  ASSUME IInv, phase = "body", ~Lacks, FitsUpTo(Len(got) + 1)
  PROVE  /\ Len(got) + 1 \in 1..Len(sent)
         /\ SubSeq(stream, taken + 1, taken + total) = sent[Len(got) + 1]
         /\ taken + total = End(Len(got) + 1)
<1>0. PICK k \in Nat : k = Len(got)
  BY DEF IInv, TypeOK
<1>1. FitsUpTo(k)
  BY <1>0, FitsFacts
<1>2. /\ k + 1 \in 1..Len(sent)
      /\ taken = starts[k + 1] + HeaderSize
      /\ total = Len(sent[k + 1])
  BY <1>0, <1>1 DEF IInv, InStep, TypeOK
<1>3. /\ taken \in Nat /\ total \in Nat /\ Len(stream) \in Nat
      /\ taken + total <= Len(stream) /\ stream \in Seq(Nat)
  BY DEF IInv, TypeOK, Lacks, Buffered
<1> DEFINE q == SubSeq(stream, taken + 1, taken + total)
<1>4. /\ q \in Seq(Nat) /\ Len(q) = total
      /\ \A i \in 1..total : q[i] = stream[taken + i]
  BY <1>3, Part
<1>5. sent[k + 1] \in Seq(Nat)
  BY <1>2, StreamAssumption DEF IInv, TypeOK
<1>6. \A i \in 1..total : q[i] = sent[k + 1][i]
  <2> TAKE i \in 1..total
  <2>1. taken + i <= Len(stream)
    BY <1>3
  <2>2. stream[taken + i] = sent[k + 1][i]
    BY <1>2, <2>1 DEF IInv, Frames, Framed
  <2> QED BY <1>4, <2>2
<1>7. q = sent[k + 1]
  <2> HIDE DEF q
  <2> QED BY <1>2, <1>4, <1>5, <1>6, SeqEqual
<1>8. taken + total = End(k + 1)
  BY <1>2 DEF End
<1> QED BY <1>0, <1>2, <1>7, <1>8

LEMMA ReturnStep ==
  ASSUME IInv, Return
  PROVE  IInv'
<1>0. PICK k \in Nat : k = Len(got)
  BY DEF IInv, TypeOK
<1> DEFINE q == SubSeq(stream, taken + 1, taken + total)
<1>1. /\ phase = "body" /\ ~Lacks /\ phase' = "out"
      /\ got' = Append(got, q) /\ taken' = taken + total
      /\ UNCHANGED <<sender, read, total>>
  BY DEF Return
<1>2. Frames' /\ \A i : FitsUpTo(i)' <=> FitsUpTo(i)
  BY <1>1, FramesStay
<1>3. /\ taken \in Nat /\ total \in Nat /\ read \in Nat /\ Len(stream) \in Nat
      /\ taken + total <= read /\ read <= Len(stream) /\ stream \in Seq(Nat)
  BY <1>1 DEF IInv, TypeOK, Lacks, Buffered
<1>4. q \in Seq(Nat)
  BY <1>3, Part
<1>5. /\ Len(got') = k + 1 /\ got'[k + 1] = q
      /\ \A i \in 1..k : got'[i] = got[i]
      /\ got' \in Seq(Seq(Nat))
  <2> HIDE DEF q
  <2> QED BY <1>0, <1>1, <1>4 DEF IInv, TypeOK
<1>6. TypeOK'
  <2> HIDE DEF q
  <2> QED BY <1>1, <1>3, <1>5 DEF IInv, TypeOK, sender
<1>7. UNCHANGED <<sent, starts>>
  BY <1>1 DEF sender
<1>8. ASSUME FitsUpTo(k + 1)
      PROVE  /\ k + 1 \in 1..Len(sent) /\ q = sent[k + 1]
             /\ taken' = End(k + 1)
  BY <1>0, <1>1, <1>8, WholeMessage
<1>9. InStep'
  <2>1. Boundary(k + 1)' = End(k + 1)
    BY <1>7 DEF Boundary, End
  <2>2. k + 1 \in 1..Len(sent) => k + 1 <= Len(sent)
    BY DEF IInv, TypeOK
  <2> HIDE DEF q
  <2> QED BY <1>1, <1>2, <1>5, <1>7, <1>8, <2>1, <2>2 DEF InStep
<1>10. ASSUME NEW j \in 1..(k + 1), FitsUpTo(j)
       PROVE  j \in DOMAIN sent /\ got'[j] = sent[j]
  <2>1. CASE j = k + 1
    <3>1. k + 1 \in DOMAIN sent /\ q = sent[k + 1]
      BY <1>8, <1>10, <2>1 DEF IInv, TypeOK
    <3> QED BY <1>5, <2>1, <3>1
  <2>2. CASE j # k + 1
    <3>1. j \in 1..k
      BY <2>2
    <3> QED BY <1>0, <1>5, <1>10, <3>1 DEF IInv, InOrder
  <2> QED BY <2>1, <2>2
<1>11. InOrder'
  <2> HIDE DEF q
  <2> QED BY <1>2, <1>5, <1>7, <1>10 DEF InOrder
<1> QED BY <1>2, <1>6, <1>9, <1>11 DEF IInv

-----------------------------------------------------------------------------
LEMMA Initially == Init => IInv
<1> SUFFICES ASSUME Init PROVE IInv
  OBVIOUS
<1>1. TypeOK
  BY DEF Init, TypeOK
<1>2. Frames
  BY DEF Init, Frames
<1>3. InStep /\ InOrder
  BY DEF Init, InStep, InOrder, Boundary
<1> QED BY <1>1, <1>2, <1>3 DEF IInv

LEMMA Stepwise ==
  ASSUME IInv, [Next]_vars
  PROVE  IInv'
<1>1. ASSUME NEW m \in Msgs, Send(m) PROVE IInv'
  BY <1>1, SendStep
<1>2. ASSUME NEW n \in 1..left, Write(n) PROVE IInv'
  BY <1>2, WriteStep
<1>3. CASE Close
  BY <1>3, CloseStep
<1>4. CASE Recv \/ \E n \in 1..MaxLength : Read(n)
  BY <1>4, WaitStep
<1>5. CASE ParseHeader
  BY <1>5, ParseStep
<1>6. CASE Return
  BY <1>6, ReturnStep
<1>7. CASE UNCHANGED vars
  <2>1. UNCHANGED sender /\ UNCHANGED receiver
    BY <1>7 DEF vars
  <2>2. Frames' /\ \A k : FitsUpTo(k)' <=> FitsUpTo(k)
    BY <2>1, FramesStay
  <2>3. TypeOK'
    BY <2>1 DEF sender, receiver, IInv, TypeOK
  <2>4. InStep'
    BY <2>1, <2>2 DEF sender, receiver, IInv, InStep, Boundary, End
  <2>5. InOrder'
    BY <2>1, <2>2 DEF sender, receiver, IInv, InOrder
  <2> QED BY <2>2, <2>3, <2>4, <2>5 DEF IInv
<1> QED BY <1>1, <1>2, <1>3, <1>4, <1>5, <1>6, <1>7 DEF Next, Sender, Receiver

(***************************************************************************)
(* Every state of a stream satisfies the inductive invariant.              *)
(***************************************************************************)
THEOREM Invariance == Spec => []IInv
<1> QED BY Initially, Stepwise, PTL DEF Spec

(***************************************************************************)
(* The counts of bytes stay numbers, and the receiver never has more bytes *)
(* than were written.                                                      *)
(***************************************************************************)
THEOREM TypeCorrect == Spec => []TypeOK
<1>1. IInv => TypeOK
  BY DEF IInv
<1> QED BY <1>1, Invariance, PTL

(***************************************************************************)
(* recv() returns the messages that were sent, whole and in their order,   *)
(* for any Base, any MaxLength and any messages that fit their headers.    *)
(***************************************************************************)
THEOREM WholeInOrder == Spec => []InOrder
<1>1. IInv => InOrder
  BY DEF IInv
<1> QED BY <1>1, Invariance, PTL

-----------------------------------------------------------------------------
(***************************************************************************)
(* Refinement: a message is put into the channel when send() starts with   *)
(* it and taken out when recv() returns; every other step is a stutter.    *)
(***************************************************************************)
LEMMA TakeStep ==
  ASSUME IInv, Return
  PROVE  Messages!Take
<1>0. PICK k \in Nat : k = Len(got)
  BY DEF IInv, TypeOK
<1> DEFINE q == SubSeq(stream, taken + 1, taken + total)
<1>1. /\ phase = "body" /\ ~Lacks /\ got' = Append(got, q)
      /\ UNCHANGED sent
  BY DEF Return, sender
<1>2. /\ Len(got') = k + 1 /\ got'[k + 1] = q
      /\ \A i \in 1..k : got'[i] = got[i]
  <2> HIDE DEF q
  <2> QED BY <1>0, <1>1 DEF IInv, TypeOK
<1>3. ASSUME Messages!FitsUpTo(k + 1)
      PROVE  k + 1 \in DOMAIN sent /\ q = sent[k + 1]
  <2>1. k + 1 \in 1..Len(sent) /\ q = sent[k + 1]
    BY <1>0, <1>1, <1>3, WholeMessage DEF FitsUpTo
  <2> QED BY <2>1 DEF IInv, TypeOK
<1> HIDE DEF q
<1> QED BY <1>0, <1>1, <1>2, <1>3 DEF Messages!Take

LEMMA ChannelStep ==
  ASSUME IInv, [Next]_vars
  PROVE  [Messages!Next]_<<sent, got>>
<1>1. ASSUME NEW m \in Msgs, Send(m) PROVE Messages!Next
  BY <1>1 DEF Send, receiver, Messages!Next, Messages!Put
<1>2. ASSUME NEW n \in 1..left, Write(n) PROVE UNCHANGED <<sent, got>>
  BY <1>2 DEF Write, receiver
<1>3. CASE Close
  BY <1>3 DEF Close, receiver
<1>4. CASE Recv \/ \E n \in 1..MaxLength : Read(n)
  BY <1>4 DEF Recv, Read, sender
<1>5. CASE ParseHeader
  BY <1>5 DEF ParseHeader, sender
<1>6. CASE Return
  BY <1>6, TakeStep DEF Messages!Next
<1>7. CASE UNCHANGED vars
  BY <1>7 DEF vars, sender, receiver
<1> QED BY <1>1, <1>2, <1>3, <1>4, <1>5, <1>6, <1>7 DEF Next, Sender, Receiver

(***************************************************************************)
(* The stream implements the channel of whole messages that the daemons    *)
(* and the local programs take it for.                                     *)
(***************************************************************************)
THEOREM StreamImplementsChannel == Spec => ImplementsChannel
<1>1. Init => Messages!Init
  BY DEF Init, Messages!Init
<1>2. IInv /\ [Next]_vars => [Messages!Next]_<<sent, got>>
  BY ChannelStep
<1> QED BY <1>1, <1>2, Invariance, PTL DEF Spec, ImplementsChannel, Messages!Spec
=============================================================================
