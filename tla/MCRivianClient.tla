---------------------------- MODULE MCRivianClient ----------------------------
(* Instances of RivianClient for TLC.                                      *)
EXTENDS RivianClient, TLC

CONSTANTS c1, c2

OneCall  == {c1}
TwoCalls == {c1, c2}

CallSymmetry == Permutations(Calls)
=============================================================================
