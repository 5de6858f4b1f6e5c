-------------------------------- MODULE Base64 --------------------------------
(***************************************************************************)
(* base64_encode and base64_decode (crypto/base64.h), with which esoca     *)
(* turns key material into text and esol turns it back.  A letter of       *)
(* b64table is its position there, which b64revtb inverts.                 *)
(***************************************************************************)
EXTENDS Naturals, Sequences

Bytes   == 0..255
Sextets == 0..63
Pad     == 64        \* '='
Nul     == 65        \* the end of the string

(***************************************************************************)
(* The i-th byte of the input.  After a last group of one byte the encoder *)
(* reads the byte behind the input, which may be any (stray).              *)
(***************************************************************************)
Input(v, stray, i) == IF i <= Len(v) THEN v[i] ELSE stray

\* Mutant of Letter: the bits of the second byte are not shifted.
LetterUnshifted(v, stray, g, i) ==
    CASE i = 0 -> v[3*g + 1] \div 4
      [] i = 1 -> (v[3*g + 1] * 16 + Input(v, stray, 3*g + 2)) % 64
      [] i = 2 /\ 3*g + 2 <= Len(v) -> (v[3*g + 2] * 4 + Input(v, 0, 3*g + 3) \div 64) % 64
      [] i = 3 /\ 3*g + 3 <= Len(v) -> v[3*g + 3] % 64
      [] OTHER -> Pad

(***************************************************************************)
(* Letter i of the four that stand for the g-th three bytes.               *)
(***************************************************************************)
Letter(v, stray, g, i) ==
    CASE i = 0 -> v[3*g + 1] \div 4
      [] i = 1 -> (v[3*g + 1] * 16 + Input(v, stray, 3*g + 2) \div 16) % 64
      [] i = 2 /\ 3*g + 2 <= Len(v) -> (v[3*g + 2] * 4 + Input(v, 0, 3*g + 3) \div 64) % 64
      [] i = 3 /\ 3*g + 3 <= Len(v) -> v[3*g + 3] % 64
      [] OTHER -> Pad

base64_encode(v, stray) ==
    [j \in 1..(4 * ((Len(v) + 2) \div 3)) |->
        Letter(v, stray, (j - 1) \div 4, (j - 1) % 4)]

-----------------------------------------------------------------------------
(***************************************************************************)
(* The decoder reads letters up to the first character that is none.  That *)
(* one says whether the text is well formed, and how many of the last      *)
(* letters' bytes count.                                                   *)
(***************************************************************************)
CharAt(t, j) == IF j <= Len(t) THEN t[j] ELSE Nul

Letters(t) ==
    CHOOSE n \in 0..Len(t) :
        /\ \A j \in 1..n : t[j] \in Sextets
        /\ CharAt(t, n + 1) \notin Sextets

WellFormed(t) ==
    LET n == Letters(t)
        stop == CharAt(t, n + 1)
    IN  \/ stop = Nul /\ n % 4 = 0
        \/ stop = Pad /\ n % 4 = 2 /\ CharAt(t, n + 2) = Pad
        \/ stop = Pad /\ n % 4 = 3

OutLength(n) == 3 * (n \div 4) + (IF n % 4 = 0 THEN 0 ELSE (n % 4) - 1)

(***************************************************************************)
(* Byte k of the three that the g-th four letters stand for.               *)
(***************************************************************************)
OutByte(t, g, k) ==
    CASE k = 0 -> ((t[4*g + 1] * 4) % 256) + t[4*g + 2] \div 16
      [] k = 1 -> ((t[4*g + 2] * 16) % 256) + t[4*g + 3] \div 4
      [] k = 2 -> ((t[4*g + 3] * 64) % 256) + t[4*g + 4]

(***************************************************************************)
(* The bytes of a text that is well formed; otherwise a null pointer.      *)
(***************************************************************************)
base64_decode(t) ==
    [i \in 1..OutLength(Letters(t)) |-> OutByte(t, (i - 1) \div 3, (i - 1) % 3)]
=============================================================================
