------------------------------- MODULE MCStream -------------------------------
(* Streams of key material, with header bytes of three values: a text of   *)
(* nine characters or more does not fit.                                   *)
EXTENDS KeyTransfer, TLC

SomeKeys == {<<>>, <<255>>, <<7, 128>>, <<0, 200, 100, 50, 25, 12, 6>>}
=============================================================================
