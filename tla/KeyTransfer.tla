----------------------------- MODULE KeyTransfer -----------------------------
(***************************************************************************)
(* Key material on its way from esoca to a service of esol: esoca encodes  *)
(* it (CADaemon::work, NEW_CRED), streams carry the text, and esol decodes *)
(* what it has received (LocalDaemon::handleUDS).                          *)
(***************************************************************************)
EXTENDS Stream, Base64

CONSTANTS Keys,   \* the key material that is generated
          Strays  \* the bytes that may be found behind it

\* What esoca sends for a key.
Texts(key) == {base64_encode(key, stray) : stray \in Strays}
KeyTexts == UNION {Texts(key) : key \in Keys}

ASSUME KeysAssumption ==
    /\ Keys \subseteq Seq(Bytes) /\ Strays \subseteq Bytes
    /\ Msgs = KeyTexts

(***************************************************************************)
(* The key that is decoded from what was received is the one whose text    *)
(* was sent: no byte is lost to the encoding, its padding, the byte read   *)
(* behind the material, or the pieces in which the text travelled.         *)
(***************************************************************************)
KeysArrive ==
    \A k \in 1..Len(got) : FitsUpTo(k) =>
        \E key \in Keys :
            /\ sent[k] \in Texts(key)
            /\ WellFormed(got[k]) /\ base64_decode(got[k]) = key
=============================================================================
