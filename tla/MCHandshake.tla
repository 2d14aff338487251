---------------------------- MODULE MCHandshake ----------------------------
(***************************************************************************)
(* Every value of the option "security" with up to three names, and lists  *)
(* of an Xvnc that make each choice of the connection possible.            *)
(***************************************************************************)
EXTENDS Handshake

MCTokens == BoundedSeq({"TLS", "X509", "None"}, 3) \union {<<"Plain">>, <<"TLS", "tls">>}

MCOffers == {<<>>, <<"other">>, <<"None", "VncAuth">>, <<"VncAuth", "None">>,
             <<"other", "VeNCrypt", "None">>, <<"TLSNone", "Plain">>}

=============================================================================
