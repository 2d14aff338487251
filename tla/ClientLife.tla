----------------------------- MODULE ClientLife -----------------------------
(***************************************************************************)
(* What vncmanager promises a client: it is connected to one session; as   *)
(* long as it is shown a greeter it may be moved, once, to another one.    *)
(* Moving is a single step: until it succeeds the client stays where it    *)
(* is, and afterwards it is never moved again.  Only a client that is      *)
(* shown a greeter can break.                                              *)
(***************************************************************************)
CONSTANTS Sessions, Nowhere

VARIABLES phase,  \* starting, choosing, using, ended or broken
          home    \* the session the client is connected to

clientVars == <<phase, home>>

ClientInit == phase = "starting" /\ home = Nowhere

\* The first connection is made.
Arrive(s) ==
    /\ phase = "starting"
    /\ home = Nowhere
    /\ home' = s
    /\ UNCHANGED phase

\* The client is ready, with a greeter or without.
Settle ==
    /\ phase = "starting"
    /\ home # Nowhere
    /\ phase' \in {"choosing", "using"}
    /\ UNCHANGED home

Move(s) ==
    /\ phase = "choosing"
    /\ phase' = "using"
    /\ home' = s

\* Clients end at any time; one that never arrived had nowhere to be.
End ==
    /\ phase # "broken"
    /\ phase' = "ended"
    /\ home' = Nowhere

Break ==
    /\ phase = "choosing"
    /\ phase' = "broken"
    /\ UNCHANGED home

ClientNext == Settle \/ End \/ Break \/ \E s \in Sessions : Arrive(s) \/ Move(s)

ClientSpec == ClientInit /\ [][ClientNext]_clientVars
=============================================================================
