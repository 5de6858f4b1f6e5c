----------------------------- MODULE MCLocalCall -----------------------------
(* LocalCall with two programs of different users and three credentials,  *)
(* of which one does not exist.  Somebody who asks for that one, and a     *)
(* user nobody who asks for the RSA key, make esol ask esod every time.    *)
EXTENDS LocalCall, TLC

CONSTANTS p1, p2, alice, bob, nobody, aes, rsa, lost

TwoUsers == p1 :> alice @@ p2 :> bob
Kinds == aes :> "symmetric" @@ rsa :> "asymmetric" @@ lost :> "none"
Dates == aes :> 1 @@ rsa :> 1 @@ lost :> 0

Ask(o, c, d) == [op |-> o, cred |-> c, data |-> d]
Some ==
    p1 :> {Ask("decrypt", aes, "bad"), Ask("encrypt", rsa, "bad"), Ask("hmac", rsa, "good"),
           Ask("sign", rsa, "bad"), Ask("verify", rsa, "good")}
    @@ p2 :> {Ask("decrypt", aes, "good"), Ask("encrypt", rsa, "bad"),
              Ask("verify", rsa, "good"), Ask("decrypt", lost, "good")}
SomeGranted ==
    {<<alice, aes, o>> : o \in {"encrypt", "decrypt", "hmac"}}
    \cup {<<alice, rsa, o>> : o \in {"encrypt", "sign", "verify", "hmac"}}
    \cup {<<bob, aes, "decrypt">>, <<bob, lost, "decrypt">>}
Elsewhere == {lost, <<nobody, rsa>>}
=============================================================================
