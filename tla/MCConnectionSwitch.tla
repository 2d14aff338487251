------------------------- MODULE MCConnectionSwitch -------------------------
(* ConnectionSwitch for TLC.                                                 *)
EXTENDS ConnectionSwitch, TLC

CONSTANTS s1, s2, s3

MCSessions == {s1, s2, s3}
MCTwoSessions == {s1, s2}
Symmetry == Permutations(MCSessions)
=============================================================================
