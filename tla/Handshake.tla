----------------------------- MODULE Handshake -----------------------------
(***************************************************************************)
(* The two ends of the RFB handshake: VncTunnel's towards the client, with *)
(* the configured security types, and XvncConnection's towards an Xvnc.    *)
(* Scenes: a client and the tunnel; the connection and an Xvnc that sends  *)
(* what it likes; or both ends with each other, each being the only        *)
(* description of the protocol that the other one has here.                *)
(***************************************************************************)
EXTENDS Naturals, SequencesExt

CONSTANTS Tokens,  \* the values of the option "security", split at the commas
          Offers   \* the lists of types and subtypes that an Xvnc may offer

ASSUME HandshakeAssumption == Tokens \subseteq Seq(STRING)

Protection == {"TLSNone", "X509None", "None"}
SecurityType == {"None", "VncAuth", "VeNCrypt", "other"}
Subtype == Protection \union {"VncAuth", "Plain", "other"}

VARIABLES
    scene,     \* "client", "server" or "halves"
    security,  \* Configuration::options["security"]
    key,       \* whether the certificate and its key can be read
    supports,  \* what a usual client knows; {} is a client that chooses anything
    tunnel,    \* what the tunnel waits for
    chosen,    \* the types and subtypes that the tunnel has accepted
    cover,     \* what the tunnel's stream is protected with
    conn,      \* what the connection waits for
    handlers,  \* whether initialize() was given handlers
    picked,    \* the types and subtypes that the connection has chosen
    toTunnel, toConn  \* what is on its way between the halves

vars == <<scene, security, key, supports, tunnel, chosen, cover, conn, handlers, picked,
          toTunnel, toConn>>

tunnelVars == <<tunnel, chosen, cover>>
connVars == <<conn, handlers, picked>>
given == <<scene, security, supports>>

-----------------------------------------------------------------------------

\* The validator of the option: anything else than these names is an error.
Parsed(tokens) ==
    LET name == [TLS |-> "TLSNone", X509 |-> "X509None", None |-> "None"]
    IN  [i \in DOMAIN tokens |-> name[tokens[i]]]

Valid(tokens) == tokens # <<>> /\ Range(tokens) \subseteq {"TLS", "X509", "None"}

\* Fault: VeNCrypt is offered after the other types.
VeNCryptLast(subtypes) ==
    SelectSeq(subtypes, LAMBDA s : s = "None")
        \o (IF Range(subtypes) \subseteq {"None"} THEN <<>> ELSE <<"VeNCrypt">>)

\* configuredSecurityTypes: VeNCrypt stands where its first subtype stood.
ConfiguredSecurityTypes(subtypes) ==
    LET VenCryptIncluded(i) == \E j \in 1..(i - 1) : subtypes[j] # "None"
        Pushed(i) == CASE subtypes[i] = "None" -> <<"None">>
                       [] subtypes[i] # "None" /\ VenCryptIncluded(i) -> <<>>
                       [] OTHER -> <<"VeNCrypt">>
    IN  FlattenSeq([i \in DOMAIN subtypes |-> Pushed(i)])

\* The first supported element of a list, in a set: none or one.
First(list, supported) ==
    {list[i] : i \in {i \in DOMAIN list : /\ list[i] \in supported
                                          /\ \A j \in 1..(i - 1) : list[j] \notin supported}}

-----------------------------------------------------------------------------

\* check(): the server does not start with X509 and no key.
Init ==
    /\ scene \in {"client", "server", "halves"}
    /\ \E tokens \in Tokens : Valid(tokens) /\ security = Parsed(tokens)
    /\ key \in BOOLEAN /\ ("X509None" \in Range(security) => key)
    /\ supports \in IF scene = "client" THEN SUBSET Protection ELSE {{}}
    /\ tunnel = IF scene = "server" THEN "none" ELSE "version"
    /\ chosen = <<>> /\ cover = "None"
    /\ conn = IF scene = "client" THEN "none" ELSE "version"
    /\ handlers \in BOOLEAN
    /\ picked = <<>>
    /\ toTunnel = <<>>
    /\ toConn = IF scene = "halves" THEN << <<"version", "3.8">> >> ELSE <<>>

\* recv: an arbitrary client or Xvnc may send anything.
TunnelReceives(value) ==
    \/ scene = "client" /\ UNCHANGED toTunnel
    \/ toTunnel # <<>> /\ Head(toTunnel) = <<tunnel, value>> /\ toTunnel' = Tail(toTunnel)

ConnReceives(value) ==
    \/ scene = "server" /\ UNCHANGED toConn
    \/ toConn # <<>> /\ Head(toConn) = <<conn, value>> /\ toConn' = Tail(toConn)

TunnelSends(messages) == toConn' = IF scene = "halves" THEN toConn \o messages ELSE toConn

ConnSends(messages) == toTunnel' = IF scene = "halves" THEN toTunnel \o messages ELSE toTunnel

\* "VNC clients normally choose the first type they support."
Chooses(value, list) ==
    LET known == supports \union (IF supports = {} THEN {} ELSE {"VeNCrypt"})
    IN  supports = {} \/ value \in First(list, known)

-----------------------------------------------------------------------------
(* VncTunnel::clientInitalize.                                             *)

ReceiveVersion ==
    /\ tunnel = "version"
    /\ \E version \in {"3.8", "other"} :
          /\ TunnelReceives(version)
          /\ supports # {} => version = "3.8"
          /\ IF version = "3.8"
             THEN /\ tunnel' = "type"
                  /\ TunnelSends(<< <<"types", ConfiguredSecurityTypes(security)>> >>)
             ELSE /\ tunnel' = "ended"
                  /\ TunnelSends(<< <<"types", <<>> >>, <<"reason", "version">> >>)
    /\ UNCHANGED <<given, key, chosen, cover, connVars>>

\* Fault: the type is not looked up.
AcceptsAny(type) == type \in SecurityType

Accepts(type) == type \in Range(ConfiguredSecurityTypes(security))

ReceiveType ==
    /\ tunnel = "type"
    /\ \E type \in SecurityType :
          /\ TunnelReceives(type)
          /\ Chooses(type, ConfiguredSecurityTypes(security))
          /\ IF Accepts(type)
             THEN /\ chosen' = <<type>>
                  /\ IF type = "None"
                     THEN tunnel' = "clientInit" /\ TunnelSends(<< <<"result", "OK">> >>)
                     ELSE tunnel' = "vencrypt" /\ TunnelSends(<< <<"vencrypt", "0.2">> >>)
             ELSE /\ tunnel' = "ended"
                  /\ TunnelSends(<< <<"result", "Failed">>, <<"reason", "type">> >>)
                  /\ UNCHANGED chosen
    /\ UNCHANGED <<given, key, cover, connVars>>

ReceiveVeNCryptVersion ==
    /\ tunnel = "vencrypt"
    /\ \E version \in {"0.2", "other"} :
          /\ TunnelReceives(version)
          /\ IF version = "0.2"
             THEN /\ tunnel' = "subtype"
                  /\ TunnelSends(<< <<"status", 0>>, <<"subtypes", security>> >>)
             ELSE tunnel' = "ended" /\ TunnelSends(<< <<"status", 1>> >>)
    /\ UNCHANGED <<given, key, chosen, cover, connVars>>

\* The acknowledgement is sent before every subtype, None included.
ReceiveSubtype ==
    /\ tunnel = "subtype"
    /\ \E subtype \in Subtype :
          /\ TunnelReceives(subtype)
          /\ Chooses(subtype, security)
          /\ IF subtype \in Range(security)
             THEN /\ chosen' = Append(chosen, subtype)
                  /\ IF subtype = "None"
                     THEN /\ tunnel' = "clientInit"
                          /\ TunnelSends(<< <<"ack", 1>>, <<"result", "OK">> >>)
                     ELSE tunnel' = "tls" /\ TunnelSends(<< <<"ack", 1>> >>)
             ELSE /\ tunnel' = "ended"
                  /\ TunnelSends(<< <<"ack", 0>>, <<"result", "Failed">>, <<"reason", "subtype">> >>)
                  /\ UNCHANGED chosen
    /\ UNCHANGED <<given, key, cover, connVars>>

\* TLSStream::initialize succeeds only with the credentials it needs.
InitializeTLS ==
    /\ tunnel = "tls"
    /\ \/ /\ Last(chosen) = "X509None" => key
          /\ cover' = Last(chosen)
          /\ tunnel' = "clientInit"
       \/ tunnel' = "ended" /\ UNCHANGED cover
    /\ UNCHANGED <<given, key, chosen, connVars, toTunnel, toConn>>

FinishClientInitialization ==
    /\ tunnel = "clientInit"
    /\ TunnelReceives("shared")
    /\ tunnel' = "ready"
    /\ TunnelSends(<< <<"serverInit", "name">> >>)
    /\ UNCHANGED <<given, key, chosen, cover, connVars>>

\* The peer has closed the connection: recv throws.
TunnelEnds ==
    /\ tunnel \notin {"none", "tls", "ready", "ended"}
    /\ \/ scene = "client"
       \/ scene = "halves" /\ conn = "failed" /\ toTunnel = <<>>
    /\ tunnel' = "ended"
    /\ UNCHANGED <<given, key, chosen, cover, connVars, toTunnel, toConn>>

\* Someone replaces the files while the server runs.
KeyChanges ==
    /\ tunnel \notin {"none", "ready", "ended"} /\ scene = "client"
    /\ key' = ~key
    /\ UNCHANGED <<given, tunnelVars, connVars, toTunnel, toConn>>

-----------------------------------------------------------------------------
(* XvncConnection::initialize.                                             *)

ReceiveServerVersion ==
    /\ conn = "version"
    /\ \E version \in {"3.8", "other"} :
          /\ ConnReceives(version)
          /\ IF version = "3.8"
             THEN conn' = "types" /\ ConnSends(<< <<"version", "3.8">> >>)
             ELSE conn' = "failed" /\ UNCHANGED toTunnel
    /\ UNCHANGED <<given, key, tunnelVars, handlers, picked>>

\* The first type in the server's order; without handlers only None.
ReceiveTypes ==
    /\ conn = "types"
    /\ \E types \in Offers \union {ConfiguredSecurityTypes(security)} :
          /\ ConnReceives(types)
          /\ LET selected == First(types, IF handlers THEN {"None", "VncAuth", "VeNCrypt"}
                                                      ELSE {"None"})
             IN  \/ types = <<>> /\ conn' = "reason" /\ UNCHANGED <<picked, toTunnel>>
                 \/ types # <<>> /\ selected = {} /\ conn' = "failed"
                    /\ UNCHANGED <<picked, toTunnel>>
                 \/ \E type \in selected :
                       /\ picked' = <<type>>
                       /\ conn' = CASE type = "None" -> "result"
                                    [] type = "VncAuth" -> "password"
                                    [] type = "VeNCrypt" -> "vencrypt"
                       /\ ConnSends(<< <<"type", type>> >>)
    /\ UNCHANGED <<given, key, tunnelVars, handlers>>

\* Fault: the status is not read.
SkipStatus ==
    /\ conn = "vencrypt"
    /\ ConnReceives("0.2")
    /\ conn' = "subtypes" /\ ConnSends(<< <<"vencrypt", "0.2">> >>)
    /\ UNCHANGED <<given, key, tunnelVars, handlers, picked>>

ReceiveServerVeNCryptVersion ==
    /\ conn = "vencrypt"
    /\ \E version \in {"0.2", "other"} :
          /\ ConnReceives(version)
          /\ IF version = "0.2"
             THEN conn' = "status" /\ ConnSends(<< <<"vencrypt", version>> >>)
             ELSE conn' = "failed" /\ UNCHANGED toTunnel
    /\ UNCHANGED <<given, key, tunnelVars, handlers, picked>>

ReceiveStatus ==
    /\ conn = "status"
    /\ \E status \in {0, 1} :
          /\ ConnReceives(status)
          /\ conn' = IF status = 0 THEN "subtypes" ELSE "failed"
    /\ UNCHANGED <<given, key, tunnelVars, handlers, picked, toTunnel>>

ReceiveSubtypes ==
    /\ conn = "subtypes"
    /\ \E subtypes \in Offers \union {security} :
          /\ ConnReceives(subtypes)
          /\ LET selected == First(subtypes, {"Plain", "None", "VncAuth"})
             IN  \/ selected = {} /\ conn' = "failed" /\ UNCHANGED <<picked, toTunnel>>
                 \/ \E subtype \in selected :
                       /\ picked' = Append(picked, subtype)
                       /\ conn' = CASE subtype = "None" -> "result"
                                    [] subtype = "VncAuth" -> "password"
                                    [] subtype = "Plain" -> "credentials"
                       /\ ConnSends(<< <<"subtype", subtype>> >>)
    /\ UNCHANGED <<given, key, tunnelVars, handlers>>

\* The greeter answers a question: the challenge is answered, or the answer is sent.
Answer ==
    /\ \/ conn = "password" /\ conn' = "challenge"
       \/ conn = "credentials" /\ conn' = "result"
    /\ UNCHANGED <<given, key, tunnelVars, handlers, picked, toTunnel, toConn>>

AnswerChallenge ==
    /\ conn = "challenge"
    /\ ConnReceives("data")
    /\ conn' = "result"
    /\ UNCHANGED <<given, key, tunnelVars, handlers, picked, toTunnel>>

\* Fault: the shared flag is not sent.
SendNoClientInit ==
    /\ conn = "result"
    /\ ConnReceives("OK")
    /\ conn' = "serverInit"
    /\ UNCHANGED <<given, key, tunnelVars, handlers, picked, toTunnel>>

ReceiveSecurityResult ==
    /\ conn = "result"
    /\ \E result \in {"OK", "Failed"} :
          /\ ConnReceives(result)
          /\ IF result = "OK"
             THEN conn' = "serverInit" /\ ConnSends(<< <<"clientInit", "shared">> >>)
             ELSE conn' = "reason" /\ UNCHANGED toTunnel
    /\ UNCHANGED <<given, key, tunnelVars, handlers, picked>>

\* The byte that VncTunnel sends before the result is read as its first one: the
\* result is not zero, and one byte is left where the length of a reason should be.
MisreadSecurityResult ==
    /\ conn = "result"
    /\ toConn = << <<"ack", 1>>, <<"result", "OK">> >>
    /\ toConn' = << <<"rest", 1>> >>
    /\ conn' = "reason"
    /\ UNCHANGED <<given, key, tunnelVars, handlers, picked, toTunnel>>

ReceiveFailureReason ==
    /\ conn = "reason"
    /\ \E reason \in {"version", "type", "subtype"} : ConnReceives(reason)
    /\ conn' = "failed"
    /\ UNCHANGED <<given, key, tunnelVars, handlers, picked, toTunnel>>

\* completeInitialization, after its ClientInit.
CompleteInitialization ==
    /\ conn = "serverInit"
    /\ ConnReceives("name")
    /\ conn' = "ready"
    /\ UNCHANGED <<given, key, tunnelVars, handlers, picked, toTunnel>>

\* recv throws at the end of the stream.
ConnFails ==
    /\ conn \notin {"none", "password", "credentials", "ready", "failed"}
    /\ \/ scene = "server"
       \/ scene = "halves" /\ tunnel = "ended" /\ toConn = <<>>
    /\ conn' = "failed"
    /\ UNCHANGED <<given, key, tunnelVars, handlers, picked, toTunnel, toConn>>

-----------------------------------------------------------------------------

ClientInitalize ==
    \/ ReceiveVersion \/ ReceiveType \/ ReceiveVeNCryptVersion \/ ReceiveSubtype
    \/ InitializeTLS \/ FinishClientInitialization \/ TunnelEnds

Initialize ==
    \/ ReceiveServerVersion \/ ReceiveTypes \/ ReceiveServerVeNCryptVersion \/ ReceiveStatus
    \/ ReceiveSubtypes \/ Answer \/ AnswerChallenge \/ ReceiveSecurityResult
    \/ MisreadSecurityResult \/ ReceiveFailureReason \/ CompleteInitialization \/ ConnFails

Next == ClientInitalize \/ Initialize \/ KeyChanges

Spec == Init /\ [][Next]_vars

\* Nobody makes a strange client or server speak; the halves run.
FairSpec ==
    /\ Spec
    /\ WF_vars(scene = "halves" /\ ClientInitalize)
    /\ WF_vars(scene = "halves" /\ Initialize)

-----------------------------------------------------------------------------

\* The variables have their types; the two switches over what the client has chosen
\* never come to their assert(!"Not reached").
TypeOK ==
    /\ scene \in {"client", "server", "halves"}
    /\ security \in Seq(Protection) /\ security # <<>>
    /\ key \in BOOLEAN /\ supports \subseteq Protection
    /\ tunnel \in {"none", "version", "type", "vencrypt", "subtype", "tls", "clientInit",
                   "ready", "ended"}
    /\ chosen \in {<<>>, <<"None">>, <<"VeNCrypt">>} \union ({"VeNCrypt"} \X Protection)
    /\ cover \in Protection
    /\ conn \in {"none", "version", "types", "password", "challenge", "vencrypt", "status",
                 "subtypes", "credentials", "result", "reason", "serverInit", "ready", "failed"}
    /\ handlers \in BOOLEAN
    /\ picked \in {<<>>} \union {<<t>> : t \in SecurityType \ {"other"}}
                  \union ({"VeNCrypt"} \X {"None", "VncAuth", "Plain"})

\* The client is let in only with a protection that is configured, whichever type and
\* subtype it asked for; and a usual client with the best it knows: the configured order is
\* the priority (vncmanager.conf), in spite of the two lists that the types are spread over.
CoverIsConfigured ==
    tunnel = "ready" =>
        /\ cover \in Range(security)
        /\ supports # {} => cover \in First(security, supports)

\* The connection has chosen VeNCrypt without TLS, the only choice that the two ends of
\* the program understand differently.
Misunderstood == picked = <<"VeNCrypt", "None">>

\* The two ends agree on who speaks next and what about: what comes in is what is
\* waited for, and nothing of the handshake is left when the session begins.
InStep ==
    /\ toTunnel # <<>> /\ tunnel # "ended" => Head(toTunnel)[1] = tunnel
    /\ toConn # <<>> /\ conn # "failed" /\ ~Misunderstood => Head(toConn)[1] = conn
    /\ scene = "halves" /\ conn = "ready" =>
           tunnel = "ready" /\ toTunnel = <<>> /\ toConn = <<>>

\* The two ends get to the session together or both give up: neither waits for ever for
\* the other one.
HalvesFinish ==
    scene = "halves" ~> \/ conn = "ready" /\ tunnel = "ready"
                        \/ conn = "failed" /\ tunnel = "ended"
                        \/ Misunderstood

=============================================================================
