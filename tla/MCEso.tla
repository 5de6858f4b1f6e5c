-------------------------------- MODULE MCEso --------------------------------
(* Eso with the machines, names and operations that TLC is to use. *)
EXTENDS Eso, TLC

CONSTANTS ca, d1, d2, h1, n1, c1, a1, a2

OneLocation == <<d1>>
TwoLocations == <<d1, d2>>
Symmetric == [c \in CredIds |-> "symmetric"]
Asymmetric == [c \in CredIds |-> "asymmetric"]
=============================================================================
