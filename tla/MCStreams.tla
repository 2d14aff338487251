----------------------------- MODULE MCStreams -----------------------------
(***************************************************************************)
(* A handshake, a message that is read, one that is forwarded in three     *)
(* chunks, the first of them the pushed-back byte, and one with a header   *)
(* and a text.                                                             *)
(***************************************************************************)
EXTENDS Streams

MCLengths == <<1, 2, 4, 3>>
MCHeaders == <<1, 2, 0, 2>>

=============================================================================
