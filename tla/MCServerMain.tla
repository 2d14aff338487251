---------------------------- MODULE MCServerMain ----------------------------
(***************************************************************************)
(* Two sessions, the second of which takes the display of the first one, a *)
(* controller program that runs in either, a client that is shown a        *)
(* greeter, and the signal that ends the server.                           *)
(***************************************************************************)
EXTENDS ServerMain

=============================================================================
