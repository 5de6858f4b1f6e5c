-------------------------- MODULE KeyTransfer_proofs --------------------------
(***************************************************************************)
(* Key material arrives.  What base64_decode makes of a text of            *)
(* base64_encode is the input, for an input of any length and whatever     *)
(* byte is found behind it; and the proofs about the stream say that the   *)
(* text is received as it was sent.                                        *)
(***************************************************************************)
EXTENDS KeyTransfer, Stream_proofs

-----------------------------------------------------------------------------
(***************************************************************************)
(* Three bytes and the four letters that stand for them.                   *)
(***************************************************************************)
LEMMA FirstByte ==
  ASSUME NEW a \in Bytes, NEW b \in Bytes
  PROVE  (((a \div 4) * 4) % 256) + ((a * 16 + (b \div 16)) % 64) \div 16 = a
<1>1. PICK x \in 0..63, y \in 0..3 : a = 4 * x + y
  <2>1. a \div 4 \in 0..63 /\ a % 4 \in 0..3 /\ a = 4 * (a \div 4) + (a % 4)
    BY DEF Bytes
  <2> QED BY <2>1
<1>2. PICK z \in 0..15 : b \div 16 = z
  BY DEF Bytes
<1>3. a \div 4 = x /\ (x * 4) % 256 = 4 * x
  BY <1>1
<1>4. (a * 16 + z) % 64 = 16 * y + z
  BY <1>1, <1>2
<1>5. (16 * y + z) \div 16 = y
  BY <1>1, <1>2
<1> QED BY <1>1, <1>2, <1>3, <1>4, <1>5

LEMMA SecondByte ==
  ASSUME NEW a \in Bytes, NEW b \in Bytes, NEW c \in Bytes
  PROVE  ((((a * 16 + (b \div 16)) % 64) * 16) % 256)
            + ((b * 4 + (c \div 64)) % 64) \div 4 = b
<1>1. PICK x \in 0..15, y \in 0..15 : b = 16 * x + y
  <2>1. b \div 16 \in 0..15 /\ b % 16 \in 0..15 /\ b = 16 * (b \div 16) + (b % 16)
    BY DEF Bytes
  <2> QED BY <2>1
<1>2. PICK z \in 0..3 : c \div 64 = z
  BY DEF Bytes
<1>3. PICK u \in Nat, w \in 0..3 : a = 4 * u + w
  <2>1. a \div 4 \in Nat /\ a % 4 \in 0..3 /\ a = 4 * (a \div 4) + (a % 4)
    BY DEF Bytes
  <2> QED BY <2>1
<1>4. b \div 16 = x
  BY <1>1
<1>5. (a * 16 + x) % 64 = 16 * w + x
  BY <1>1, <1>3
<1>6. ((16 * w + x) * 16) % 256 = 16 * x
  BY <1>1, <1>3
<1>7. (b * 4 + z) % 64 = 4 * y + z
  BY <1>1, <1>2
<1>8. (4 * y + z) \div 4 = y
  BY <1>1, <1>2
<1> QED BY <1>1, <1>2, <1>4, <1>5, <1>6, <1>7, <1>8

LEMMA ThirdByte ==
  ASSUME NEW b \in Bytes, NEW c \in Bytes
  PROVE  ((((b * 4 + (c \div 64)) % 64) * 64) % 256) + (c % 64) = c
<1>1. PICK z \in 0..3, y \in 0..63 : c = 64 * z + y
  <2>1. c \div 64 \in 0..3 /\ c % 64 \in 0..63 /\ c = 64 * (c \div 64) + (c % 64)
    BY DEF Bytes
  <2> QED BY <2>1
<1>2. PICK u \in Nat, w \in 0..15 : b = 16 * u + w
  <2>1. b \div 16 \in Nat /\ b % 16 \in 0..15 /\ b = 16 * (b \div 16) + (b % 16)
    BY DEF Bytes
  <2> QED BY <2>1
<1>3. c \div 64 = z /\ c % 64 = y
  BY <1>1
<1>4. (b * 4 + z) % 64 = 4 * w + z
  BY <1>1, <1>2
<1>5. ((4 * w + z) * 64) % 256 = 64 * z
  BY <1>1, <1>2
<1> QED BY <1>1, <1>3, <1>4, <1>5

-----------------------------------------------------------------------------
(***************************************************************************)
(* The text: four letters for every three bytes, of which those that have  *)
(* no byte of their own are the padding.                                   *)
(***************************************************************************)
Groups(v) == (Len(v) + 2) \div 3

LEMMA InputIsByte ==
  ASSUME NEW v \in Seq(Bytes), NEW s \in Bytes, NEW i \in Nat, i >= 1
  PROVE  Input(v, s, i) \in Bytes
<1>1. CASE i <= Len(v)
  <2>1. i \in 1..Len(v)
    BY <1>1
  <2> QED BY <2>1, <1>1, ElementOfSeq DEF Input
<1>2. CASE ~(i <= Len(v))
  BY <1>2 DEF Input
<1> QED BY <1>1, <1>2

LEMMA GroupHasByte ==
  ASSUME NEW v \in Seq(Bytes), NEW g \in 0..(Groups(v) - 1)
  PROVE  g \in Nat /\ 3*g + 1 \in 1..Len(v) /\ v[3*g + 1] \in Bytes
<1>1. Len(v) \in Nat
  BY LenProperties
<1>2. Groups(v) \in Nat /\ 3 * Groups(v) <= Len(v) + 2
  BY <1>1 DEF Groups
<1>3. 3*g + 1 \in 1..Len(v)
  BY <1>1, <1>2
<1> QED BY <1>2, <1>3, ElementOfSeq

LEMMA GroupInput ==
  ASSUME NEW v \in Seq(Bytes), NEW s \in Bytes, NEW g \in 0..(Groups(v) - 1)
  PROVE  /\ v[3*g + 1] \in Bytes
         /\ Input(v, s, 3*g + 2) \in Bytes
         /\ Input(v, 0, 3*g + 3) \in Bytes
<1>1. g \in Nat /\ v[3*g + 1] \in Bytes
  BY GroupHasByte
<1>2. 3*g + 2 \in Nat /\ 3*g + 2 >= 1 /\ 3*g + 3 \in Nat /\ 3*g + 3 >= 1
  BY <1>1
<1>3. 0 \in Bytes
  BY DEF Bytes
<1> QED BY <1>1, <1>2, <1>3, InputIsByte

LEMMA CharOfGroup ==
  ASSUME NEW v \in Seq(Bytes), NEW s \in Bytes,
         NEW g \in 0..(Groups(v) - 1), NEW i \in 0..3
  PROVE  /\ 4*g + i + 1 \in 1..(4 * Groups(v))
         /\ base64_encode(v, s)[4*g + i + 1] = Letter(v, s, g, i)
<1>1. Groups(v) \in Nat /\ g \in Nat
  BY LenProperties DEF Groups
<1>2. 4*g + i + 1 \in 1..(4 * Groups(v))
  BY <1>1
<1>3. ((4*g + i + 1) - 1) \div 4 = g /\ ((4*g + i + 1) - 1) % 4 = i
  BY <1>1
<1>4. base64_encode(v, s)[4*g + i + 1]
        = Letter(v, s, ((4*g + i + 1) - 1) \div 4, ((4*g + i + 1) - 1) % 4)
  BY <1>2 DEF base64_encode, Groups
<1> QED BY <1>2, <1>3, <1>4

LEMMA LettersOfGroup ==
  ASSUME NEW v \in Seq(Bytes), NEW s \in Bytes, NEW g \in 0..(Groups(v) - 1)
  PROVE  LET a == v[3*g + 1]
             b == Input(v, s, 3*g + 2)
             c == Input(v, 0, 3*g + 3)
         IN  /\ Letter(v, s, g, 0) = a \div 4
             /\ Letter(v, s, g, 1) = (a * 16 + (b \div 16)) % 64
             /\ 3*g + 2 <= Len(v) => Letter(v, s, g, 2) = (b * 4 + (c \div 64)) % 64
             /\ 3*g + 3 <= Len(v) => Letter(v, s, g, 3) = c % 64
             /\ ~(3*g + 2 <= Len(v)) => Letter(v, s, g, 2) = Pad
             /\ ~(3*g + 3 <= Len(v)) => Letter(v, s, g, 3) = Pad
<1>1. g \in Nat /\ Len(v) \in Nat
  BY GroupHasByte, LenProperties
<1>2. 3*g + 2 <= Len(v) => Input(v, s, 3*g + 2) = v[3*g + 2]
  BY DEF Input
<1>3. 3*g + 3 <= Len(v) => Input(v, 0, 3*g + 3) = v[3*g + 3]
  BY DEF Input
<1> QED BY <1>1, <1>2, <1>3 DEF Letter

LEMMA LettersAreSextets ==
  ASSUME NEW v \in Seq(Bytes), NEW s \in Bytes, NEW g \in 0..(Groups(v) - 1)
  PROVE  /\ Letter(v, s, g, 0) \in Sextets
         /\ Letter(v, s, g, 1) \in Sextets
         /\ 3*g + 2 <= Len(v) => Letter(v, s, g, 2) \in Sextets
         /\ 3*g + 3 <= Len(v) => Letter(v, s, g, 3) \in Sextets
<1> DEFINE a == v[3*g + 1]
           b == Input(v, s, 3*g + 2)
           c == Input(v, 0, 3*g + 3)
<1>1. a \in Bytes /\ b \in Bytes /\ c \in Bytes
  BY GroupInput
<1>2. /\ Letter(v, s, g, 0) = a \div 4
      /\ Letter(v, s, g, 1) = (a * 16 + (b \div 16)) % 64
      /\ 3*g + 2 <= Len(v) => Letter(v, s, g, 2) = (b * 4 + (c \div 64)) % 64
      /\ 3*g + 3 <= Len(v) => Letter(v, s, g, 3) = c % 64
  BY LettersOfGroup
<1> HIDE DEF a, b, c
<1>3. a \div 4 \in Sextets
  BY <1>1 DEF Bytes, Sextets
<1>4. (a * 16 + (b \div 16)) % 64 \in Sextets
  BY <1>1 DEF Bytes, Sextets
<1>5. (b * 4 + (c \div 64)) % 64 \in Sextets
  BY <1>1 DEF Bytes, Sextets
<1>6. c % 64 \in Sextets
  BY <1>1 DEF Bytes, Sextets
<1> QED BY <1>2, <1>3, <1>4, <1>5, <1>6

-----------------------------------------------------------------------------
(***************************************************************************)
(* The decoder finds all letters, and knows from the padding how many      *)
(* bytes they stand for.                                                   *)
(***************************************************************************)
LEMMA TextStops ==
  ASSUME NEW v \in Seq(Bytes), NEW s \in Bytes
  PROVE  LET t == base64_encode(v, s)
             n == Letters(t)
         IN  /\ n \in Nat /\ WellFormed(t) /\ OutLength(n) = Len(v)
<1> DEFINE t == base64_encode(v, s)
           G == Groups(v)
           N == Len(v)
<1>1. N \in Nat /\ G \in Nat /\ Len(t) = 4 * G
  BY LenProperties DEF Groups, base64_encode
<1>2. PICK q \in Nat, r \in 0..2 : N = 3 * q + r
  <2>1. N \div 3 \in Nat /\ N % 3 \in 0..2 /\ N = 3 * (N \div 3) + (N % 3)
    BY <1>1
  <2> QED BY <2>1
<1>3. G = IF r = 0 THEN q ELSE q + 1
  BY <1>1, <1>2 DEF Groups
<1> DEFINE L == IF r = 0 THEN 4*q ELSE 4*q + r + 1
<1>4. L \in 0..Len(t)
  BY <1>1, <1>2, <1>3
<1>5. ASSUME NEW j \in 1..L
      PROVE  t[j] \in Sextets
  <2>1. PICK g \in Nat, i \in 0..3 : j = 4*g + i + 1
    <3>1. (j - 1) \div 4 \in Nat /\ (j - 1) % 4 \in 0..3
          /\ j - 1 = 4 * ((j - 1) \div 4) + ((j - 1) % 4)
      BY <1>4
    <3> QED BY <3>1
  <2>2. g \in 0..(G - 1)
    BY <2>1, <1>3, <1>2
  <2>3. t[j] = Letter(v, s, g, i)
    BY <2>1, <2>2, CharOfGroup
  <2>4. i = 2 => 3*g + 2 <= N
    BY <2>1, <2>2, <1>2, <1>3
  <2>5. i = 3 => 3*g + 3 <= N
    BY <2>1, <2>2, <1>2, <1>3
  <2>6. i = 0 \/ i = 1 \/ i = 2 \/ i = 3
    BY <2>1
  <2> QED BY <2>2, <2>3, <2>4, <2>5, <2>6, LettersAreSextets
<1>6. /\ r = 0 => L = 4*q /\ CharAt(t, L + 1) = Nul
      /\ r = 1 => L = 4*q + 2 /\ CharAt(t, L + 1) = Pad /\ CharAt(t, L + 2) = Pad
      /\ r = 2 => L = 4*q + 3 /\ CharAt(t, L + 1) = Pad
  <2>1. CASE r = 0
    BY <2>1, <1>1, <1>2, <1>3 DEF CharAt
  <2>2. CASE r = 1
    <3>1. q \in 0..(G - 1) /\ ~(3*q + 2 <= N) /\ ~(3*q + 3 <= N)
      BY <2>2, <1>2, <1>3
    <3>2. t[4*q + 2 + 1] = Pad /\ t[4*q + 3 + 1] = Pad
      BY <3>1, CharOfGroup, LettersOfGroup
    <3>3. L = 4*q + 2 /\ Len(t) = 4*q + 4
      BY <2>2, <1>1, <1>2, <1>3
    <3>4. L + 1 = 4*q + 2 + 1 /\ L + 2 = 4*q + 3 + 1 /\ L + 2 <= Len(t)
      BY <3>3
    <3> HIDE DEF t, L
    <3> QED BY <2>2, <3>2, <3>3, <3>4, <1>2 DEF CharAt
  <2>3. CASE r = 2
    <3>1. q \in 0..(G - 1) /\ ~(3*q + 3 <= N)
      BY <2>3, <1>2, <1>3
    <3>2. t[4*q + 3 + 1] = Pad
      BY <3>1, CharOfGroup, LettersOfGroup
    <3>3. L = 4*q + 3 /\ Len(t) = 4*q + 4
      BY <2>3, <1>1, <1>2, <1>3
    <3>4. L + 1 = 4*q + 3 + 1 /\ L + 1 <= Len(t)
      BY <3>3
    <3> HIDE DEF t, L
    <3> QED BY <2>3, <3>2, <3>3, <3>4, <1>2 DEF CharAt
  <2> QED BY <2>1, <2>2, <2>3
<1>7. CharAt(t, L + 1) \notin Sextets
  <2>1. Pad \notin Sextets /\ Nul \notin Sextets
    BY DEF Nul, Pad, Sextets
  <2>2. r = 0 \/ r = 1 \/ r = 2
    BY <1>2
  <2>3. CharAt(t, L + 1) = Nul \/ CharAt(t, L + 1) = Pad
    <3> HIDE DEF t, L
    <3> QED BY <2>2, <1>6
  <2> HIDE DEF t, L
  <2> QED BY <2>1, <2>3
<1> HIDE DEF t, L
<1>8. ASSUME NEW m \in 0..Len(t),
             \A j \in 1..m : t[j] \in Sextets,
             CharAt(t, m + 1) \notin Sextets
      PROVE  m = L
  <2>1. ~(m < L)
    <3>1. SUFFICES ASSUME m < L PROVE FALSE
      OBVIOUS
    <3>2. m + 1 \in 1..L /\ m + 1 <= Len(t)
      BY <3>1, <1>4, <1>1
    <3>3. CharAt(t, m + 1) = t[m + 1]
      BY <3>2 DEF CharAt
    <3> QED BY <3>2, <3>3, <1>5, <1>8
  <2>2. ~(L < m)
    <3>1. SUFFICES ASSUME L < m PROVE FALSE
      OBVIOUS
    <3>2. L + 1 \in 1..m /\ L + 1 <= Len(t)
      BY <3>1, <1>4, <1>1
    <3>3. CharAt(t, L + 1) = t[L + 1]
      BY <3>2 DEF CharAt
    <3> QED BY <3>2, <3>3, <1>7, <1>8
  <2> QED BY <2>1, <2>2, <1>4, <1>1
<1>9. Letters(t) = L
  <2> DEFINE P(m) == (\A j \in 1..m : t[j] \in Sextets) /\ CharAt(t, m + 1) \notin Sextets
  <2>1. P(L)
    BY <1>5, <1>7
  <2>2. Letters(t) = CHOOSE m \in 0..Len(t) : P(m)
    BY DEF Letters
  <2>3. \A m \in 0..Len(t) : P(m) => m = L
    BY <1>8
  <2> HIDE DEF P
  <2> QED BY <2>1, <2>2, <2>3, <1>4
<1>10. WellFormed(t)
  <2>1. L % 4 = IF r = 0 THEN 0 ELSE r + 1
    BY <1>2 DEF L
  <2> QED BY <2>1, <1>2, <1>6, <1>9 DEF WellFormed
<1>11. OutLength(L) = N
  <2>1. L % 4 = (IF r = 0 THEN 0 ELSE r + 1) /\ L \div 4 = q
    BY <1>2 DEF L
  <2> QED BY <2>1, <1>2 DEF OutLength
<1> QED BY <1>4, <1>1, <1>9, <1>10, <1>11 DEF t

-----------------------------------------------------------------------------
(***************************************************************************)
(* esol decodes what esoca encoded: for an input of any length, and        *)
(* whatever byte the encoder finds behind it.                              *)
(***************************************************************************)
THEOREM RoundTrip ==
  ASSUME NEW v \in Seq(Bytes), NEW s \in Bytes
  PROVE  LET t == base64_encode(v, s) IN WellFormed(t) /\ base64_decode(t) = v
<1> DEFINE t == base64_encode(v, s)
           n == Letters(t)
           d == base64_decode(t)
<1>1. WellFormed(t) /\ OutLength(n) = Len(v) /\ Len(v) \in Nat
  BY TextStops, LenProperties
<1>2. d = [i \in 1..Len(v) |-> OutByte(t, (i - 1) \div 3, (i - 1) % 3)]
  BY <1>1 DEF base64_decode
<1>3. ASSUME NEW j \in 1..Len(v)
      PROVE  OutByte(t, (j - 1) \div 3, (j - 1) % 3) = v[j]
  <2> DEFINE g == (j - 1) \div 3
             k == (j - 1) % 3
  <2>1. g \in Nat /\ k \in 0..2 /\ j = 3*g + k + 1
    BY <1>1
  <2> HIDE DEF g, k
  <2>2. g \in 0..(Groups(v) - 1)
    BY <2>1, <1>1 DEF Groups
  <2> DEFINE a == v[3*g + 1]
             b == Input(v, s, 3*g + 2)
             c == Input(v, 0, 3*g + 3)
  <2>3. a \in Bytes /\ b \in Bytes /\ c \in Bytes
    BY <2>2, GroupInput
  <2>4. \A i \in 0..3 : t[4*g + i + 1] = Letter(v, s, g, i)
    BY <2>2, CharOfGroup
  <2>5. /\ t[4*g + 1] = Letter(v, s, g, 0) /\ t[4*g + 2] = Letter(v, s, g, 1)
        /\ t[4*g + 3] = Letter(v, s, g, 2) /\ t[4*g + 4] = Letter(v, s, g, 3)
    <3>1. 4*g + 0 + 1 = 4*g + 1 /\ 4*g + 1 + 1 = 4*g + 2
          /\ 4*g + 2 + 1 = 4*g + 3 /\ 4*g + 3 + 1 = 4*g + 4
      BY <2>1
    <3>2. 0 \in 0..3 /\ 1 \in 0..3 /\ 2 \in 0..3 /\ 3 \in 0..3
      OBVIOUS
    <3> HIDE DEF t
    <3> QED BY <3>1, <3>2, <2>4
  <2>6. /\ Letter(v, s, g, 0) = a \div 4
        /\ Letter(v, s, g, 1) = (a * 16 + (b \div 16)) % 64
        /\ 3*g + 2 <= Len(v) => Letter(v, s, g, 2) = (b * 4 + (c \div 64)) % 64
        /\ 3*g + 3 <= Len(v) => Letter(v, s, g, 3) = c % 64
    BY <2>2, LettersOfGroup
  <2>7. /\ 3*g + 2 <= Len(v) => b = v[3*g + 2]
        /\ 3*g + 3 <= Len(v) => c = v[3*g + 3]
    BY DEF Input
  <2> HIDE DEF t
  <2>8. CASE k = 0
    <3>1. OutByte(t, g, k) = ((t[4*g + 1] * 4) % 256) + (t[4*g + 2] \div 16)
      BY <2>8 DEF OutByte
    <3>2. ((t[4*g + 1] * 4) % 256) + (t[4*g + 2] \div 16) = a
      <4> HIDE DEF a, b
      <4> QED BY <2>3, <2>5, <2>6, FirstByte
    <3> QED BY <3>1, <3>2, <2>1, <2>8 DEF g, k
  <2>9. CASE k = 1
    <3>1. 3*g + 2 <= Len(v) /\ j = 3*g + 2
      BY <2>9, <2>1, <1>1
    <3>2. OutByte(t, g, k) = ((t[4*g + 2] * 16) % 256) + (t[4*g + 3] \div 4)
      BY <2>9 DEF OutByte
    <3>3. ((t[4*g + 2] * 16) % 256) + (t[4*g + 3] \div 4) = b
      <4> HIDE DEF a, b, c
      <4> QED BY <3>1, <2>3, <2>5, <2>6, SecondByte
    <3> QED BY <3>1, <3>2, <3>3, <2>7 DEF g, k
  <2>10. CASE k = 2
    <3>1. 3*g + 2 <= Len(v) /\ 3*g + 3 <= Len(v) /\ j = 3*g + 3
      BY <2>10, <2>1, <1>1
    <3>2. OutByte(t, g, k) = ((t[4*g + 3] * 64) % 256) + t[4*g + 4]
      BY <2>10 DEF OutByte
    <3>3. ((t[4*g + 3] * 64) % 256) + t[4*g + 4] = c
      <4> HIDE DEF b, c
      <4> QED BY <3>1, <2>3, <2>5, <2>6, ThirdByte
    <3> QED BY <3>1, <3>2, <3>3, <2>7 DEF g, k
  <2> QED BY <2>1, <2>8, <2>9, <2>10 DEF g, k
<1>4. v = [i \in 1..Len(v) |-> v[i]]
  BY LenProperties
<1>5. d = [i \in 1..Len(v) |-> v[i]]
  <2> HIDE DEF t, d
  <2> QED BY <1>2, <1>3
<1> QED BY <1>1, <1>4, <1>5

-----------------------------------------------------------------------------
(***************************************************************************)
(* The composition of the encoding and the stream.                         *)
(***************************************************************************)
LEMMA TextsDecode ==
  ASSUME NEW key \in Keys, NEW t \in Texts(key)
  PROVE  WellFormed(t) /\ base64_decode(t) = key
<1>1. PICK stray \in Strays : t = base64_encode(key, stray)
  BY DEF Texts
<1>2. key \in Seq(Bytes) /\ stray \in Bytes
  BY KeysAssumption
<1> QED BY <1>1, <1>2, RoundTrip

LEMMA ReceivedDecode ==
  ASSUME TypeOK, InOrder
  PROVE  KeysArrive
<1> SUFFICES ASSUME NEW k \in 1..Len(got), FitsUpTo(k)
             PROVE  \E key \in Keys :
                       /\ sent[k] \in Texts(key)
                       /\ WellFormed(got[k]) /\ base64_decode(got[k]) = key
  BY DEF KeysArrive
<1>1. k \in DOMAIN sent /\ got[k] = sent[k]
  BY DEF InOrder
<1>2. sent[k] \in KeyTexts
  <2>1. sent \in Seq(KeyTexts)
    BY KeysAssumption DEF TypeOK
  <2> QED BY <2>1, <1>1, LenProperties, ElementOfSeq
<1>3. PICK key \in Keys : sent[k] \in Texts(key)
  BY <1>2 DEF KeyTexts
<1> QED BY <1>1, <1>3, TextsDecode

(***************************************************************************)
(* esol decodes every key to what esoca encoded, whatever the keys, the    *)
(* bytes behind them and the pieces in which the stream carries the texts. *)
(***************************************************************************)
THEOREM KeysAlwaysArrive == Spec => []KeysArrive
<1>1. TypeOK /\ InOrder => KeysArrive
  BY ReceivedDecode
<1> QED BY <1>1, TypeCorrect, WholeInOrder, PTL
=============================================================================
