------------------------------- MODULE Channel -------------------------------
(***************************************************************************)
(* What a stream promises to the code that uses it: the messages that one  *)
(* side sends are received whole, in the order they were sent, by the      *)
(* other.  It promises nothing from the first message on that is too long  *)
(* for a header.                                                           *)
(***************************************************************************)
EXTENDS Naturals, Sequences

CONSTANTS Msgs,     \* the messages that are sent
          Limit     \* the first length that a header cannot give

VARIABLES sent, got \* the messages sent, and those received

FitsUpTo(k) == \A i \in 1..k : i \in DOMAIN sent => Len(sent[i]) < Limit

Put(m) == sent' = Append(sent, m) /\ UNCHANGED got

Take ==
    LET k == Len(got) + 1 IN
    /\ Len(got') = k /\ \A i \in 1..Len(got) : got'[i] = got[i]
    /\ FitsUpTo(k) => k \in DOMAIN sent /\ got'[k] = sent[k]
    /\ UNCHANGED sent

Init == sent = <<>> /\ got = <<>>
Next == (\E m \in Msgs : Put(m)) \/ Take
Spec == Init /\ [][Next]_<<sent, got>>
=============================================================================
