------------------------- MODULE MCGreeterLifecycle -------------------------
(* GreeterLifecycle for TLC: two greeters, one Xvnc, two pids.              *)
EXTENDS GreeterLifecycle

CONSTANTS t1, t2, x1, p1, p2

MCTunnels == {t1, t2}
MCServers == {x1}
MCPids == {p1, p2}
=============================================================================
