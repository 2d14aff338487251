------------------------- MODULE MCSessionRegistry -------------------------
(* SessionRegistry for TLC: two client threads and a controller for safety,  *)
(* one client thread and two controllers for liveness.                       *)
EXTENDS SessionRegistry, TLC

CONSTANTS t1, t2, c1, c2, alice

MCTunnels == {t1, t2}
MCOneTunnel == {t1}
MCControllers == {c1}
MCTwoControllers == {c1, c2}
MCNames == {NoName, alice}
MCNoNames == {NoName}
Symmetry == Permutations(MCTunnels)
=============================================================================
