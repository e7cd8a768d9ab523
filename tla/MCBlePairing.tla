---------------------------- MODULE MCBlePairing ----------------------------
(* An instance of BlePairing for TLC.                                      *)
EXTENDS BlePairing

CONSTANTS vehicle, other, empty

NotifiedIds == {vehicle, other, empty}
=============================================================================
