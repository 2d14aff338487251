-------------------------- MODULE HandshakeProofs --------------------------
(***************************************************************************)
(* Theorems about Handshake, for every list of tokens in the option        *)
(* "security" and everything that a client or an Xvnc may send.  When both *)
(* ends are the program's, the joint handshake is a walk through a few     *)
(* places, each with what is on its way there: StageInv lists them.        *)
(***************************************************************************)
EXTENDS Handshake, SequenceFacts

\* What the tunnel offers.
Types == ConfiguredSecurityTypes(security)

\* What the two ends have chosen when they are at a certain place.
TypeInv ==
    /\ TypeOK
    /\ supports # {} => scene = "client"
    /\ scene = "client" => conn = "none"
    /\ scene = "server" => tunnel = "none"
    /\ scene # "halves" => toTunnel = <<>> /\ toConn = <<>>
    /\ tunnel \in {"vencrypt", "subtype"} => chosen = <<"VeNCrypt">>
    /\ tunnel = "tls" => chosen \in {"VeNCrypt"} \X Protection
    /\ conn \in {"vencrypt", "status", "subtypes"} => picked = <<"VeNCrypt">>

\* A protection that may become the client's.
Proper(protection) ==
    /\ protection \in Range(security)
    /\ supports # {} => protection \in First(security, supports)

\* What becomes of the client's choices: it is heading for a configured protection.
CoverInv ==
    /\ tunnel \in {"version", "type", "vencrypt", "subtype", "tls"} => cover = "None"
    /\ tunnel = "tls" => Proper(Last(chosen))
    /\ tunnel \in {"clientInit", "ready"} => Proper(cover)

\* Where the two ends are, and what is on its way.
At(t, c, here, there) == tunnel = t /\ conn = c /\ toTunnel = here /\ toConn = there

\* Up to the type; the vector of types is the configured one.
Beginning ==
    \/ At("version", "version", <<>>, << <<"version", "3.8">> >>)
    \/ At("version", "types", << <<"version", "3.8">> >>, <<>>)
    \/ At("type", "types", <<>>, << <<"types", Types>> >>)
    \/ At("type", "result", << <<"type", "None">> >>, <<>>) /\ "None" \in Range(Types)
    \/ At("type", "vencrypt", << <<"type", "VeNCrypt">> >>, <<>>) /\ "VeNCrypt" \in Range(Types)

\* The rounds of VeNCrypt.
Negotiating ==
    \/ At("vencrypt", "vencrypt", <<>>, << <<"vencrypt", "0.2">> >>)
    \/ At("vencrypt", "status", << <<"vencrypt", "0.2">> >>, <<>>)
    \/ At("subtype", "status", <<>>, << <<"status", 0>>, <<"subtypes", security>> >>)
    \/ At("subtype", "subtypes", <<>>, << <<"subtypes", security>> >>)

\* From the result to the session.
Finishing ==
    \/ At("clientInit", "result", <<>>, << <<"result", "OK">> >>)
    \/ At("clientInit", "serverInit", << <<"clientInit", "shared">> >>, <<>>)
    \/ At("ready", "serverInit", <<>>, << <<"serverInit", "name">> >>)
    \/ At("ready", "ready", <<>>, <<>>)

\* The one acknowledgement that is not expected, and what is made of it.
Misunderstanding ==
    /\ Misunderstood
    /\ \/ At("subtype", "result", << <<"subtype", "None">> >>, <<>>) /\ "None" \in Range(security)
       \/ At("clientInit", "result", <<>>, << <<"ack", 1>>, <<"result", "OK">> >>)
       \/ At("clientInit", "reason", <<>>, << <<"rest", 1>> >>)

\* The connection has found nothing it knows, and the tunnel has noticed or will.
GivingUp ==
    \/ At("type", "failed", <<>>, <<>>)
    \/ At("subtype", "failed", <<>>, <<>>)
    \/ At("ended", "failed", <<>>, <<>>)

\* The places of the joint handshake.
StageInv ==
    scene = "halves" => Beginning \/ Negotiating \/ Finishing \/ Misunderstanding \/ GivingUp

\* What First returns.
LEMMA FirstFacts ==
  ASSUME NEW list, NEW supported
  PROVE  First(list, supported) \subseteq Range(list) \cap supported
  BY DEF First, Range

\* The elements of a sequence over S.
LEMMA RangeIsTyped ==
  ASSUME NEW S, NEW s \in Seq(S)
  PROVE  Range(s) \subseteq S
  BY LenProperties, ElementOfSeq DEF Range

\* The types are offered for what is configured, and the first of them for the first.
LEMMA TypesFacts ==
  ASSUME NEW s \in Seq(Protection), s # <<>>
  PROVE  /\ ConfiguredSecurityTypes(s) \in Seq({"None", "VeNCrypt"})
         /\ ConfiguredSecurityTypes(s) # <<>>
         /\ "None" \in Range(ConfiguredSecurityTypes(s)) => "None" \in Range(s)
         /\ ConfiguredSecurityTypes(s)[1] = "None" => s[1] = "None"
  <1> DEFINE n == Len(s)
             VenCryptIncluded(i) == \E j \in 1..(i - 1) : s[j] # "None"
             Pushed(i) == CASE s[i] = "None" -> <<"None">>
                            [] s[i] # "None" /\ VenCryptIncluded(i) -> <<>>
                            [] OTHER -> <<"VeNCrypt">>
             ss == [i \in 1..n |-> Pushed(i)]
             S == {"None", "VeNCrypt"}
  <1>1. n \in Nat /\ n # 0 /\ DOMAIN s = 1..n
    BY LenProperties, EmptySeq
  <1>2. ConfiguredSecurityTypes(s) = FlattenSeq(ss)
    BY <1>1 DEF ConfiguredSecurityTypes
  <1>3. /\ <<"None">> \in Seq(S) /\ ToSet(<<"None">>) = {"None"}
        /\ <<"VeNCrypt">> \in Seq(S) /\ ToSet(<<"VeNCrypt">>) = {"VeNCrypt"}
        /\ <<>> \in Seq(S) /\ ToSet(<<>>) = {}
    BY DEF ToSet
  <1>4. ~VenCryptIncluded(1)
    OBVIOUS
  <1> HIDE DEF VenCryptIncluded
  <1>5. \A i : /\ s[i] = "None" => Pushed(i) = <<"None">>
               /\ s[i] # "None" => Pushed(i) \in {<<>>, <<"VeNCrypt">>}
    OBVIOUS
  <1>6. s[1] # "None" => Pushed(1) = <<"VeNCrypt">>
    BY <1>4
  <1> HIDE DEF Pushed
  <1>7. \A i \in 1..n : Pushed(i) \in Seq(S)
    BY <1>3, <1>5
  <1>8. ss \in Seq(Seq(S)) /\ Len(ss) = n /\ ss # <<>> /\ \A i \in 1..n : ss[i] = Pushed(i)
    BY <1>1, <1>7
  <1> HIDE DEF ss, n, S
  <1>9. FlattenSeq(ss) \in Seq(S)
    BY <1>8, FlattenType
  <1>10. ss[1] # <<>> /\ (ss[1][1] = "None" => s[1] = "None")
    <2>1. ss[1] = Pushed(1)
      BY <1>1, <1>8
    <2>2. CASE s[1] = "None"
      <3>1. ss[1] = <<"None">>
        BY <1>5, <2>1, <2>2
      <3> QED
        BY <2>2, <3>1
    <2>3. CASE s[1] # "None"
      <3>1. ss[1] = <<"VeNCrypt">>
        BY <1>6, <2>1, <2>3
      <3> QED
        BY <3>1
    <2> QED
      BY <2>2, <2>3
  <1>11. FlattenSeq(ss) # <<>> /\ FlattenSeq(ss)[1] = ss[1][1]
    BY <1>8, <1>10, FlattenHead
  <1>12. ASSUME "None" \in Range(FlattenSeq(ss)) PROVE "None" \in Range(s)
    <2>1. "None" \in ToSet(FlattenSeq(ss))
      BY <1>12 DEF ToSet, Range
    <2>2. PICK i \in 1..n : "None" \in ToSet(ss[i])
      BY <1>8, <2>1, FlattenElements
    <2>3. s[i] = "None"
      BY <1>3, <1>5, <1>8, <2>2
    <2> QED
      BY <1>1, <2>3 DEF Range
  <1> QED
    BY <1>2, <1>9, <1>10, <1>11, <1>12 DEF S

\* A usual client that chooses None from the types likes no other configured protection
\* better.
LEMMA NoneIsBest ==
  ASSUME TypeOK, supports # {}, Chooses("None", Types)
  PROVE  "None" \in First(security, supports)
  <1> DEFINE known == supports \cup {"VeNCrypt"}
  <1>1. security \in Seq(Protection) /\ security # <<>> /\ 1 \in DOMAIN security
    BY LenProperties, EmptySeq DEF TypeOK
  <1>2. Types \in Seq({"None", "VeNCrypt"}) /\ (Types[1] = "None" => security[1] = "None")
    BY <1>1, TypesFacts DEF Types
  <1> HIDE DEF Types
  <1>3. PICK i \in DOMAIN Types : /\ Types[i] = "None" /\ "None" \in known
                                  /\ \A j \in 1..(i - 1) : Types[j] \notin known
    BY DEF Chooses, First
  <1>4. "None" \in supports
    BY <1>3
  <1>5. i = 1
    <2>1. \A j \in 1..Len(Types) : Types[j] \in known
      BY <1>2, <1>4, ElementOfSeq
    <2>2. i \in 1..Len(Types) /\ Len(Types) \in Nat
      BY <1>2, LenProperties
    <2>3. CASE i # 1
      <3>1. 1 \in 1..(i - 1) /\ 1 \in 1..Len(Types)
        BY <2>2, <2>3
      <3> QED
        BY <1>3, <2>1, <3>1
    <2> QED
      BY <2>3
  <1>6. security[1] = "None"
    BY <1>2, <1>3, <1>5
  <1> QED
    BY <1>1, <1>4, <1>6 DEF First

\* And the one that chooses a subtype chooses the best.
LEMMA SubtypeIsBest ==
  ASSUME TypeOK, supports # {}, NEW subtype, Chooses(subtype, security)
  PROVE  subtype \in First(security, supports)
  <1> DEFINE known == supports \cup {"VeNCrypt"}
  <1>1. security \in Seq(Protection) /\ "VeNCrypt" \notin Protection
    BY DEF TypeOK, Protection
  <1>2. PICK i \in DOMAIN security :
           /\ subtype = security[i] /\ security[i] \in known
           /\ \A j \in 1..(i - 1) : security[j] \notin known
    BY DEF Chooses, First
  <1>3. security[i] \in Protection
    BY <1>1
  <1>4. security[i] \in supports /\ \A j \in 1..(i - 1) : security[j] \notin supports
    BY <1>1, <1>2, <1>3
  <1> QED
    BY <1>2, <1>4 DEF First

-----------------------------------------------------------------------------

\* The parsed option is a list of protections, and is not empty.
LEMMA ParsedType ==
  ASSUME NEW tokens \in Tokens, Valid(tokens)
  PROVE  Parsed(tokens) \in Seq(Protection) /\ Parsed(tokens) # <<>>
  <1>1. tokens \in Seq(STRING) /\ Len(tokens) \in Nat /\ DOMAIN tokens = 1..Len(tokens)
        /\ Len(tokens) # 0
    BY HandshakeAssumption, LenProperties, EmptySeq DEF Valid
  <1> DEFINE name == [TLS |-> "TLSNone", X509 |-> "X509None", None |-> "None"]
  <1>2. \A i \in 1..Len(tokens) : name[tokens[i]] \in Protection
    <2>1. \A i \in 1..Len(tokens) : tokens[i] \in {"TLS", "X509", "None"}
      BY <1>1 DEF Valid, Range
    <2> QED
      BY <2>1 DEF Protection
  <1> HIDE DEF name
  <1> DEFINE names == [i \in 1..Len(tokens) |-> name[tokens[i]]]
  <1>3. Parsed(tokens) = names
    BY <1>1 DEF Parsed, name
  <1>4. names \in Seq(Protection) /\ Len(names) = Len(tokens)
    BY <1>1, <1>2
  <1> QED
    BY <1>1, <1>3, <1>4, EmptySeq

\* The initial states are typed.
LEMMA TypeInit == Init => TypeInv
  <1> SUFFICES ASSUME Init PROVE TypeInv
    OBVIOUS
  <1>1. security \in Seq(Protection) /\ security # <<>>
    BY ParsedType DEF Init
  <1>2. supports \subseteq Protection
    BY DEF Init
  <1> QED
    BY <1>1, <1>2 DEF Init, TypeInv, TypeOK, Protection

\* Every step keeps the types, and the choices that belong to a place of the two ends:
\* the assert(!"Not reached") of clientInitalize (VncTunnel.cpp) would need another one.
LEMMA TypeStep == TypeInv /\ [Next]_vars => TypeInv'
  <1> SUFFICES ASSUME TypeInv, [Next]_vars PROVE TypeInv'
    OBVIOUS
  <1> USE DEF TypeInv, TypeOK, given, connVars, tunnelVars
  <1>1. ASSUME NEW value, TunnelReceives(value)
        PROVE  scene # "halves" => toTunnel' = <<>>
    BY <1>1 DEF TunnelReceives
  <1>2. ASSUME NEW value, ConnReceives(value)
        PROVE  scene # "halves" => toConn' = <<>>
    BY <1>2 DEF ConnReceives
  <1>3. ASSUME NEW messages, TunnelSends(messages)
        PROVE  scene # "halves" => toConn' = <<>>
    BY <1>3 DEF TunnelSends
  <1>4. ASSUME NEW messages, ConnSends(messages)
        PROVE  scene # "halves" => toTunnel' = <<>>
    BY <1>4 DEF ConnSends
  <1>5. CASE ReceiveVersion
    BY <1>1, <1>3, <1>5 DEF ReceiveVersion
  <1>6. CASE ReceiveType
    <2>1. PICK type \in SecurityType :
            /\ TunnelReceives(type)
            /\ IF Accepts(type)
               THEN /\ chosen' = <<type>>
                    /\ IF type = "None"
                       THEN tunnel' = "clientInit" /\ TunnelSends(<< <<"result", "OK">> >>)
                       ELSE tunnel' = "vencrypt" /\ TunnelSends(<< <<"vencrypt", "0.2">> >>)
               ELSE /\ tunnel' = "ended"
                    /\ TunnelSends(<< <<"result", "Failed">>, <<"reason", "type">> >>)
                    /\ UNCHANGED chosen
      BY <1>6 DEF ReceiveType
    <2>2. Accepts(type) => type \in {"None", "VeNCrypt"}
      BY TypesFacts, RangeIsTyped DEF Accepts
    <2> QED
      BY <1>1, <1>3, <1>6, <2>1, <2>2 DEF ReceiveType
  <1>7. CASE ReceiveVeNCryptVersion
    BY <1>1, <1>3, <1>7 DEF ReceiveVeNCryptVersion
  <1>8. CASE ReceiveSubtype
    <2>1. PICK subtype \in Subtype :
            /\ TunnelReceives(subtype)
            /\ IF subtype \in Range(security)
               THEN /\ chosen' = Append(chosen, subtype)
                    /\ IF subtype = "None"
                       THEN /\ tunnel' = "clientInit"
                            /\ TunnelSends(<< <<"ack", 1>>, <<"result", "OK">> >>)
                       ELSE tunnel' = "tls" /\ TunnelSends(<< <<"ack", 1>> >>)
               ELSE /\ tunnel' = "ended"
                    /\ TunnelSends(<< <<"ack", 0>>, <<"result", "Failed">>,
                                      <<"reason", "subtype">> >>)
                    /\ UNCHANGED chosen
      BY <1>8 DEF ReceiveSubtype
    <2>2. subtype \in Range(security) => subtype \in Protection
      BY RangeIsTyped
    <2>3. Append(chosen, subtype) = <<"VeNCrypt", subtype>>
      BY <1>8, PairIsAppended DEF ReceiveSubtype
    <2> QED
      BY <1>1, <1>3, <1>8, <2>1, <2>2, <2>3 DEF ReceiveSubtype
  <1>9. CASE InitializeTLS
    <2>1. PICK p \in Protection : chosen = <<"VeNCrypt", p>>
      BY <1>9 DEF InitializeTLS
    <2>2. Last(chosen) = p
      BY <2>1 DEF Last
    <2> QED
      BY <1>9, <2>1, <2>2 DEF InitializeTLS
  <1>10. CASE FinishClientInitialization
    BY <1>1, <1>3, <1>10 DEF FinishClientInitialization
  <1>11. CASE TunnelEnds
    BY <1>11 DEF TunnelEnds
  <1>12. CASE ReceiveServerVersion
    BY <1>2, <1>4, <1>12 DEF ReceiveServerVersion
  <1>13. CASE ReceiveTypes
    <2> DEFINE mine == IF handlers THEN {"None", "VncAuth", "VeNCrypt"} ELSE {"None"}
    <2>1. PICK types : /\ ConnReceives(types)
                       /\ \/ /\ conn' \in {"reason", "failed"}
                             /\ UNCHANGED <<picked, toTunnel>>
                          \/ \E type \in First(types, mine) :
                               /\ picked' = <<type>>
                               /\ conn' = CASE type = "None" -> "result"
                                            [] type = "VncAuth" -> "password"
                                            [] type = "VeNCrypt" -> "vencrypt"
                               /\ ConnSends(<< <<"type", type>> >>)
      BY <1>13 DEF ReceiveTypes
    <2>2. First(types, mine) \subseteq {"None", "VncAuth", "VeNCrypt"}
      BY FirstFacts
    <2>3. \A type \in {"None", "VncAuth", "VeNCrypt"} : type \in SecurityType \ {"other"}
      BY DEF SecurityType
    <2> QED
      BY <1>2, <1>4, <1>13, <2>1, <2>2, <2>3 DEF ReceiveTypes
  <1>14. CASE ReceiveServerVeNCryptVersion
    BY <1>2, <1>4, <1>14 DEF ReceiveServerVeNCryptVersion
  <1>15. CASE ReceiveStatus
    BY <1>2, <1>15 DEF ReceiveStatus
  <1>16. CASE ReceiveSubtypes
    <2>1. PICK subtypes :
            /\ ConnReceives(subtypes)
            /\ \/ conn' = "failed" /\ UNCHANGED <<picked, toTunnel>>
               \/ \E subtype \in First(subtypes, {"Plain", "None", "VncAuth"}) :
                    /\ picked' = Append(picked, subtype)
                    /\ conn' = CASE subtype = "None" -> "result"
                                 [] subtype = "VncAuth" -> "password"
                                 [] subtype = "Plain" -> "credentials"
                    /\ ConnSends(<< <<"subtype", subtype>> >>)
      BY <1>16 DEF ReceiveSubtypes
    <2>2. First(subtypes, {"Plain", "None", "VncAuth"}) \subseteq {"Plain", "None", "VncAuth"}
      BY FirstFacts
    <2>3. \A subtype : Append(picked, subtype) = <<"VeNCrypt", subtype>>
      BY <1>16, PairIsAppended DEF ReceiveSubtypes
    <2>4. CASE conn' = "failed" /\ UNCHANGED <<picked, toTunnel>>
      BY <1>2, <1>16, <2>1, <2>4 DEF ReceiveSubtypes
    <2>5. CASE ~(conn' = "failed" /\ UNCHANGED <<picked, toTunnel>>)
      <3>1. PICK subtype \in {"Plain", "None", "VncAuth"} :
              /\ picked' = <<"VeNCrypt", subtype>>
              /\ conn' \in {"result", "password", "credentials"}
              /\ ConnSends(<< <<"subtype", subtype>> >>)
        BY <2>1, <2>2, <2>3, <2>5
      <3>2. picked' \in {"VeNCrypt"} \X {"None", "VncAuth", "Plain"}
        BY <3>1
      <3>3. scene # "halves" => toTunnel' = <<>> /\ toConn' = <<>>
        BY <1>2, <1>4, <2>1, <3>1
      <3> QED
        BY <1>16, <3>1, <3>2, <3>3 DEF ReceiveSubtypes
    <2> QED
      BY <2>4, <2>5
  <1>17. CASE Answer
    BY <1>17 DEF Answer
  <1>18. CASE AnswerChallenge
    BY <1>2, <1>18 DEF AnswerChallenge
  <1>19. CASE ReceiveSecurityResult
    BY <1>2, <1>4, <1>19 DEF ReceiveSecurityResult
  <1>20. CASE MisreadSecurityResult
    BY <1>20 DEF MisreadSecurityResult
  <1>21. CASE ReceiveFailureReason
    BY <1>2, <1>21 DEF ReceiveFailureReason
  <1>22. CASE CompleteInitialization
    BY <1>2, <1>22 DEF CompleteInitialization
  <1>23. CASE ConnFails
    BY <1>23 DEF ConnFails
  <1>24. CASE KeyChanges
    BY <1>24 DEF KeyChanges
  <1>25. CASE UNCHANGED vars
    BY <1>25 DEF vars
  <1> QED
    BY <1>5, <1>6, <1>7, <1>8, <1>9, <1>10, <1>11, <1>12, <1>13, <1>14, <1>15, <1>16, <1>17,
       <1>18, <1>19, <1>20, <1>21, <1>22, <1>23, <1>24, <1>25
       DEF Next, ClientInitalize, Initialize

-----------------------------------------------------------------------------

\* Every step keeps that only a configured protection gets as far as ClientInit.
LEMMA CoverStep == TypeInv /\ CoverInv /\ [Next]_vars => CoverInv'
  <1> SUFFICES ASSUME TypeInv, CoverInv, [Next]_vars PROVE CoverInv'
    OBVIOUS
  <1> USE DEF CoverInv, given, connVars, tunnelVars
  <1>1. TypeOK /\ security \in Seq(Protection) /\ security # <<>>
    BY DEF TypeInv, TypeOK
  <1>2. ASSUME UNCHANGED <<security, supports>>, NEW p
        PROVE  Proper(p) <=> Proper(p)'
    BY <1>2 DEF Proper
  <1>3. CASE ReceiveVersion
    BY <1>2, <1>3 DEF ReceiveVersion
  <1>4. CASE ReceiveType
    <2>1. PICK type \in SecurityType :
            /\ Chooses(type, Types)
            /\ IF Accepts(type)
               THEN IF type = "None" THEN tunnel' = "clientInit" ELSE tunnel' = "vencrypt"
               ELSE tunnel' = "ended"
      BY <1>4 DEF ReceiveType, Types
    <2>2. CASE Accepts(type) /\ type = "None"
      <3>1. "None" \in Range(security)
        BY <1>1, <2>2, TypesFacts DEF Accepts
      <3>2. supports # {} => "None" \in First(security, supports)
        BY <1>1, <2>1, <2>2, NoneIsBest
      <3>3. Proper("None") /\ cover = "None"
        BY <1>4, <3>1, <3>2 DEF Proper, ReceiveType
      <3> QED
        BY <1>2, <1>4, <2>1, <2>2, <3>3 DEF ReceiveType
    <2>3. CASE ~(Accepts(type) /\ type = "None")
      BY <1>4, <2>1, <2>3 DEF ReceiveType
    <2> QED
      BY <2>2, <2>3
  <1>5. CASE ReceiveVeNCryptVersion
    BY <1>2, <1>5 DEF ReceiveVeNCryptVersion
  <1>6. CASE ReceiveSubtype
    <2>1. PICK subtype \in Subtype :
            /\ Chooses(subtype, security)
            /\ IF subtype \in Range(security)
               THEN /\ chosen' = Append(chosen, subtype)
                    /\ IF subtype = "None" THEN tunnel' = "clientInit" ELSE tunnel' = "tls"
               ELSE tunnel' = "ended"
      BY <1>6 DEF ReceiveSubtype
    <2>2. CASE subtype \in Range(security)
      <3>1. supports # {} => subtype \in First(security, supports)
        BY <1>1, <2>1, SubtypeIsBest
      <3>2. Proper(subtype)
        BY <2>2, <3>1 DEF Proper
      <3>3. Proper(subtype)' /\ cover = "None" /\ cover' = cover
        BY <1>2, <1>6, <3>2 DEF ReceiveSubtype
      <3>4. chosen' = <<"VeNCrypt", subtype>>
        BY <1>6, <2>1, <2>2, PairIsAppended DEF ReceiveSubtype, TypeInv
      <3>5. Last(chosen') = subtype
        BY <3>4 DEF Last
      <3> QED
        BY <2>1, <2>2, <3>3, <3>5
    <2>3. CASE subtype \notin Range(security)
      BY <1>6, <2>1, <2>3 DEF ReceiveSubtype
    <2> QED
      BY <2>2, <2>3
  <1>7. CASE InitializeTLS
    BY <1>2, <1>7 DEF InitializeTLS
  <1>8. CASE FinishClientInitialization
    BY <1>2, <1>8 DEF FinishClientInitialization
  <1>9. CASE TunnelEnds
    BY <1>9 DEF TunnelEnds
  <1>10. ASSUME UNCHANGED <<tunnelVars, given>> PROVE CoverInv'
    BY <1>2, <1>10
  <1>11. CASE Initialize
    BY <1>10, <1>11 DEF Initialize, ReceiveServerVersion, ReceiveTypes,
       ReceiveServerVeNCryptVersion, ReceiveStatus, ReceiveSubtypes, Answer, AnswerChallenge,
       ReceiveSecurityResult, MisreadSecurityResult, ReceiveFailureReason,
       CompleteInitialization, ConnFails
  <1>12. CASE KeyChanges
    BY <1>10, <1>12 DEF KeyChanges
  <1>13. CASE UNCHANGED vars
    BY <1>10, <1>13 DEF vars
  <1> QED
    BY <1>3, <1>4, <1>5, <1>6, <1>7, <1>8, <1>9, <1>11, <1>12, <1>13
       DEF Next, ClientInitalize

-----------------------------------------------------------------------------

\* The queues hold one message or two.
LEMMA QueueFacts ==
  ASSUME NEW a, NEW b
  PROVE  /\ Head(<<a>>) = a /\ Tail(<<a>>) = <<>> /\ <<a>> # <<>>
         /\ Head(<<a, b>>) = a /\ Tail(<<a, b>>) = <<b>> /\ <<a, b>> # <<>>
         /\ <<>> \o <<a>> = <<a>> /\ <<>> \o <<a, b>> = <<a, b>>
  OBVIOUS

\* The handshake begins at its first place.
LEMMA StageInit == Init => StageInv
  BY DEF Init, StageInv, Beginning, At

\* Every step leads from a place of the handshake to another one: each end's calls of
\* send are matched, in their order, by the other end's calls of recv, but for the
\* acknowledgement of the subtype None.
LEMMA StageStep == TypeInv /\ StageInv /\ [Next]_vars => StageInv'
  <1> SUFFICES ASSUME TypeInv, StageInv, [Next]_vars, scene' = "halves"
               PROVE  Beginning' \/ Negotiating' \/ Finishing' \/ Misunderstanding' \/ GivingUp'
    BY DEF StageInv
  <1>1. scene = "halves" /\ security' = security /\ Types' = Types
    BY DEF Next, ClientInitalize, Initialize, vars, given, Types, ReceiveVersion, ReceiveType,
       ReceiveVeNCryptVersion, ReceiveSubtype, InitializeTLS, FinishClientInitialization,
       TunnelEnds, KeyChanges, ReceiveServerVersion, ReceiveTypes,
       ReceiveServerVeNCryptVersion, ReceiveStatus, ReceiveSubtypes, Answer, AnswerChallenge,
       ReceiveSecurityResult, MisreadSecurityResult, ReceiveFailureReason,
       CompleteInitialization, ConnFails
  <1>2. security \in Seq(Protection) /\ security # <<>>
    BY DEF TypeInv, TypeOK
  <1>3. Types # <<>> /\ Range(Types) \subseteq {"None", "VeNCrypt"}
    BY <1>2, TypesFacts, RangeIsTyped DEF Types
  <1>4. ASSUME NEW value, TunnelReceives(value)
        PROVE  toTunnel # <<>> /\ Head(toTunnel) = <<tunnel, value>> /\ toTunnel' = Tail(toTunnel)
    BY <1>1, <1>4 DEF TunnelReceives
  <1>5. ASSUME NEW value, ConnReceives(value)
        PROVE  toConn # <<>> /\ Head(toConn) = <<conn, value>> /\ toConn' = Tail(toConn)
    BY <1>1, <1>5 DEF ConnReceives
  <1>6. ASSUME NEW messages, TunnelSends(messages) PROVE toConn' = toConn \o messages
    BY <1>1, <1>6 DEF TunnelSends
  <1>7. ASSUME NEW messages, ConnSends(messages) PROVE toTunnel' = toTunnel \o messages
    BY <1>1, <1>7 DEF ConnSends
  <1>8. Beginning \/ Negotiating \/ Finishing \/ Misunderstanding \/ GivingUp
    BY <1>1 DEF StageInv
  <1> HIDE DEF Types
  <1>9. CASE ReceiveVersion
    <2>1. PICK version :
            /\ TunnelReceives(version)
            /\ version = "3.8" => tunnel' = "type" /\ TunnelSends(<< <<"types", Types>> >>)
      BY <1>9 DEF ReceiveVersion, Types
    <2>2. tunnel = "version" /\ UNCHANGED conn /\ toTunnel # <<>>
      BY <1>4, <1>9, <2>1 DEF ReceiveVersion, connVars
    <2>3. At("version", "types", << <<"version", "3.8">> >>, <<>>)
      BY <1>8, <2>2 DEF Beginning, Negotiating, Finishing, Misunderstanding, GivingUp, At
    <2>4. version = "3.8" /\ toTunnel' = <<>>
      BY <1>4, <2>1, <2>3, QueueFacts DEF At
    <2>5. toConn' = << <<"types", Types>> >>
      BY <1>6, <2>1, <2>3, <2>4, QueueFacts DEF At
    <2>6. At("type", "types", <<>>, << <<"types", Types>> >>)'
      BY <1>1, <2>1, <2>2, <2>3, <2>4, <2>5 DEF At
    <2> QED
      BY <2>6 DEF Beginning
  <1>10. CASE ReceiveType
    <2>1. PICK type \in SecurityType :
            /\ TunnelReceives(type)
            /\ Accepts(type) /\ type = "None" =>
                 tunnel' = "clientInit" /\ TunnelSends(<< <<"result", "OK">> >>)
            /\ Accepts(type) /\ type # "None" =>
                 tunnel' = "vencrypt" /\ TunnelSends(<< <<"vencrypt", "0.2">> >>)
      BY <1>10 DEF ReceiveType
    <2>2. tunnel = "type" /\ UNCHANGED conn /\ toTunnel # <<>>
      BY <1>4, <1>10, <2>1 DEF ReceiveType, connVars
    <2>3. \/ At("type", "result", << <<"type", "None">> >>, <<>>) /\ "None" \in Range(Types)
          \/ /\ At("type", "vencrypt", << <<"type", "VeNCrypt">> >>, <<>>)
             /\ "VeNCrypt" \in Range(Types)
      BY <1>8, <2>2 DEF Beginning, Negotiating, Finishing, Misunderstanding, GivingUp, At
    <2>4. CASE At("type", "result", << <<"type", "None">> >>, <<>>) /\ "None" \in Range(Types)
      <3>1. type = "None" /\ toTunnel' = <<>>
        BY <1>4, <2>1, <2>4, QueueFacts DEF At
      <3>2. Accepts(type)
        BY <2>4, <3>1 DEF Accepts, Types
      <3>3. toConn' = << <<"result", "OK">> >>
        BY <1>6, <2>1, <2>4, <3>1, <3>2, QueueFacts DEF At
      <3>4. At("clientInit", "result", <<>>, << <<"result", "OK">> >>)'
        BY <2>1, <2>2, <2>4, <3>1, <3>2, <3>3 DEF At
      <3> QED
        BY <3>4 DEF Finishing
    <2>5. CASE /\ At("type", "vencrypt", << <<"type", "VeNCrypt">> >>, <<>>)
               /\ "VeNCrypt" \in Range(Types)
      <3>1. type = "VeNCrypt" /\ toTunnel' = <<>>
        BY <1>4, <2>1, <2>5, QueueFacts DEF At
      <3>2. Accepts(type)
        BY <2>5, <3>1 DEF Accepts, Types
      <3>3. toConn' = << <<"vencrypt", "0.2">> >>
        BY <1>6, <2>1, <2>5, <3>1, <3>2, QueueFacts DEF At
      <3>4. At("vencrypt", "vencrypt", <<>>, << <<"vencrypt", "0.2">> >>)'
        BY <2>1, <2>2, <2>5, <3>1, <3>2, <3>3 DEF At
      <3> QED
        BY <3>4 DEF Negotiating
    <2> QED
      BY <2>3, <2>4, <2>5
  <1>11. CASE ReceiveVeNCryptVersion
    <2>1. PICK version :
            /\ TunnelReceives(version)
            /\ version = "0.2" =>
                 /\ tunnel' = "subtype"
                 /\ TunnelSends(<< <<"status", 0>>, <<"subtypes", security>> >>)
      BY <1>11 DEF ReceiveVeNCryptVersion
    <2>2. tunnel = "vencrypt" /\ UNCHANGED conn /\ toTunnel # <<>>
      BY <1>4, <1>11, <2>1 DEF ReceiveVeNCryptVersion, connVars
    <2>3. At("vencrypt", "status", << <<"vencrypt", "0.2">> >>, <<>>)
      BY <1>8, <2>2 DEF Beginning, Negotiating, Finishing, Misunderstanding, GivingUp, At
    <2>4. version = "0.2" /\ toTunnel' = <<>>
      BY <1>4, <2>1, <2>3, QueueFacts DEF At
    <2>5. toConn' = << <<"status", 0>>, <<"subtypes", security>> >>
      BY <1>6, <2>1, <2>3, <2>4, QueueFacts DEF At
    <2>6. At("subtype", "status", <<>>, << <<"status", 0>>, <<"subtypes", security>> >>)'
      BY <1>1, <2>1, <2>2, <2>3, <2>4, <2>5 DEF At
    <2> QED
      BY <2>6 DEF Negotiating
  <1>12. CASE ReceiveSubtype
    <2>1. PICK subtype \in Subtype :
            /\ TunnelReceives(subtype)
            /\ subtype \in Range(security) /\ subtype = "None" =>
                 /\ tunnel' = "clientInit"
                 /\ TunnelSends(<< <<"ack", 1>>, <<"result", "OK">> >>)
      BY <1>12 DEF ReceiveSubtype
    <2>2. tunnel = "subtype" /\ UNCHANGED <<conn, picked>> /\ toTunnel # <<>>
      BY <1>4, <1>12, <2>1 DEF ReceiveSubtype, connVars
    <2>3. /\ At("subtype", "result", << <<"subtype", "None">> >>, <<>>)
          /\ Misunderstood /\ "None" \in Range(security)
      BY <1>8, <2>2 DEF Beginning, Negotiating, Finishing, Misunderstanding, GivingUp, At
    <2>4. subtype = "None" /\ toTunnel' = <<>>
      BY <1>4, <2>1, <2>3, QueueFacts DEF At
    <2>5. toConn' = << <<"ack", 1>>, <<"result", "OK">> >>
      BY <1>6, <2>1, <2>3, <2>4, QueueFacts DEF At
    <2>6. At("clientInit", "result", <<>>, << <<"ack", 1>>, <<"result", "OK">> >>)'
      BY <2>1, <2>2, <2>3, <2>4, <2>5 DEF At
    <2> QED
      BY <2>2, <2>3, <2>6 DEF Misunderstanding, Misunderstood
  <1>13. CASE InitializeTLS
    BY <1>8, <1>13
       DEF InitializeTLS, Beginning, Negotiating, Finishing, Misunderstanding, GivingUp, At
  <1>14. CASE FinishClientInitialization
    <2>1. /\ tunnel = "clientInit" /\ UNCHANGED conn /\ tunnel' = "ready"
          /\ TunnelReceives("shared") /\ TunnelSends(<< <<"serverInit", "name">> >>)
      BY <1>14 DEF FinishClientInitialization, connVars
    <2>2. At("clientInit", "serverInit", << <<"clientInit", "shared">> >>, <<>>)
      BY <1>4, <1>8, <2>1 DEF Beginning, Negotiating, Finishing, Misunderstanding, GivingUp, At
    <2>3. toTunnel' = <<>> /\ toConn' = << <<"serverInit", "name">> >>
      BY <1>4, <1>6, <2>1, <2>2, QueueFacts DEF At
    <2>4. At("ready", "serverInit", <<>>, << <<"serverInit", "name">> >>)'
      BY <2>1, <2>2, <2>3 DEF At
    <2> QED
      BY <2>4 DEF Finishing
  <1>15. CASE TunnelEnds
    <2>1. At(tunnel, "failed", <<>>, <<>>)
      BY <1>1, <1>8, <1>15
         DEF TunnelEnds, Beginning, Negotiating, Finishing, Misunderstanding, GivingUp, At
    <2>2. At("ended", "failed", <<>>, <<>>)'
      BY <1>15, <2>1 DEF TunnelEnds, connVars, At
    <2> QED
      BY <2>2 DEF GivingUp
  <1>16. CASE KeyChanges
    BY <1>1, <1>16 DEF KeyChanges
  <1>17. CASE ReceiveServerVersion
    <2>1. PICK version :
            /\ ConnReceives(version)
            /\ version = "3.8" => conn' = "types" /\ ConnSends(<< <<"version", "3.8">> >>)
      BY <1>17 DEF ReceiveServerVersion
    <2>2. conn = "version" /\ UNCHANGED tunnel /\ toConn # <<>>
      BY <1>5, <1>17, <2>1 DEF ReceiveServerVersion, tunnelVars
    <2>3. At("version", "version", <<>>, << <<"version", "3.8">> >>)
      BY <1>8, <2>2 DEF Beginning, Negotiating, Finishing, Misunderstanding, GivingUp, At
    <2>4. version = "3.8" /\ toConn' = <<>>
      BY <1>5, <2>1, <2>3, QueueFacts DEF At
    <2>5. toTunnel' = << <<"version", "3.8">> >>
      BY <1>7, <2>1, <2>3, <2>4, QueueFacts DEF At
    <2>6. At("version", "types", << <<"version", "3.8">> >>, <<>>)'
      BY <2>1, <2>2, <2>3, <2>4, <2>5 DEF At
    <2> QED
      BY <2>6 DEF Beginning
  <1>18. CASE ReceiveTypes
    <2> DEFINE mine == IF handlers THEN {"None", "VncAuth", "VeNCrypt"} ELSE {"None"}
    <2>1. PICK types :
            /\ ConnReceives(types)
            /\ \/ types = <<>>
               \/ conn' = "failed" /\ UNCHANGED toTunnel
               \/ \E type \in First(types, mine) :
                    /\ conn' = CASE type = "None" -> "result"
                                 [] type = "VncAuth" -> "password"
                                 [] type = "VeNCrypt" -> "vencrypt"
                    /\ ConnSends(<< <<"type", type>> >>)
      BY <1>18 DEF ReceiveTypes
    <2>2. conn = "types" /\ UNCHANGED tunnel /\ toConn # <<>>
      BY <1>5, <1>18, <2>1 DEF ReceiveTypes, tunnelVars
    <2>3. At("type", "types", <<>>, << <<"types", Types>> >>)
      BY <1>8, <2>2 DEF Beginning, Negotiating, Finishing, Misunderstanding, GivingUp, At
    <2>4. types = Types /\ toConn' = <<>>
      BY <1>5, <2>1, <2>3, QueueFacts DEF At
    <2>5. CASE conn' = "failed" /\ UNCHANGED toTunnel
      <3>1. At("type", "failed", <<>>, <<>>)'
        BY <2>2, <2>3, <2>4, <2>5 DEF At
      <3> QED
        BY <3>1 DEF GivingUp
    <2>6. CASE ~(conn' = "failed" /\ UNCHANGED toTunnel)
      <3>1. PICK type \in First(types, mine) :
              /\ conn' = CASE type = "None" -> "result"
                           [] type = "VncAuth" -> "password"
                           [] type = "VeNCrypt" -> "vencrypt"
              /\ ConnSends(<< <<"type", type>> >>)
        BY <1>3, <2>1, <2>4, <2>6
      <3>2. type \in Range(Types) /\ type \in {"None", "VeNCrypt"}
        BY <1>3, <2>4, FirstFacts
      <3>3. toTunnel' = << <<"type", type>> >>
        BY <1>7, <2>3, <3>1, QueueFacts DEF At
      <3>4. CASE type = "None"
        <4>1. At("type", "result", << <<"type", "None">> >>, <<>>)'
          BY <2>2, <2>3, <2>4, <3>1, <3>3, <3>4 DEF At
        <4> QED
          BY <1>1, <3>2, <3>4, <4>1 DEF Beginning
      <3>5. CASE type = "VeNCrypt"
        <4>1. At("type", "vencrypt", << <<"type", "VeNCrypt">> >>, <<>>)'
          BY <2>2, <2>3, <2>4, <3>1, <3>3, <3>5 DEF At
        <4> QED
          BY <1>1, <3>2, <3>5, <4>1 DEF Beginning
      <3> QED
        BY <3>2, <3>4, <3>5
    <2> QED
      BY <2>5, <2>6
  <1>19. CASE ReceiveServerVeNCryptVersion
    <2>1. PICK version :
            /\ ConnReceives(version)
            /\ version = "0.2" => conn' = "status" /\ ConnSends(<< <<"vencrypt", version>> >>)
      BY <1>19 DEF ReceiveServerVeNCryptVersion
    <2>2. conn = "vencrypt" /\ UNCHANGED tunnel /\ toConn # <<>>
      BY <1>5, <1>19, <2>1 DEF ReceiveServerVeNCryptVersion, tunnelVars
    <2>3. At("vencrypt", "vencrypt", <<>>, << <<"vencrypt", "0.2">> >>)
      BY <1>8, <2>2 DEF Beginning, Negotiating, Finishing, Misunderstanding, GivingUp, At
    <2>4. version = "0.2" /\ toConn' = <<>>
      BY <1>5, <2>1, <2>3, QueueFacts DEF At
    <2>5. toTunnel' = << <<"vencrypt", "0.2">> >>
      BY <1>7, <2>1, <2>3, <2>4, QueueFacts DEF At
    <2>6. At("vencrypt", "status", << <<"vencrypt", "0.2">> >>, <<>>)'
      BY <2>1, <2>2, <2>3, <2>4, <2>5 DEF At
    <2> QED
      BY <2>6 DEF Negotiating
  <1>20. CASE ReceiveStatus
    <2>1. PICK status :
            ConnReceives(status) /\ conn' = IF status = 0 THEN "subtypes" ELSE "failed"
      BY <1>20 DEF ReceiveStatus
    <2>2. conn = "status" /\ UNCHANGED <<tunnel, toTunnel>> /\ toConn # <<>>
      BY <1>5, <1>20, <2>1 DEF ReceiveStatus, tunnelVars
    <2>3. At("subtype", "status", <<>>, << <<"status", 0>>, <<"subtypes", security>> >>)
      BY <1>8, <2>2 DEF Beginning, Negotiating, Finishing, Misunderstanding, GivingUp, At
    <2> DEFINE first == <<"status", 0>>
               second == <<"subtypes", security>>
    <2>4. status = 0 /\ toConn' = << <<"subtypes", security>> >>
      <3>1. toConn = <<first, second>> /\ toConn' = Tail(toConn) /\ Head(toConn) = <<conn, status>>
        BY <1>5, <2>1, <2>3 DEF At
      <3> HIDE DEF first, second
      <3>2. toConn' = <<second>> /\ first = <<conn, status>>
        BY <3>1, QueueFacts
      <3> QED
        BY <3>2 DEF first, second
    <2>5. At("subtype", "subtypes", <<>>, << <<"subtypes", security>> >>)'
      BY <1>1, <2>1, <2>2, <2>3, <2>4 DEF At
    <2> QED
      BY <2>5 DEF Negotiating
  <1>21. CASE ReceiveSubtypes
    <2>1. PICK subtypes :
            /\ ConnReceives(subtypes)
            /\ \/ conn' = "failed" /\ UNCHANGED toTunnel
               \/ \E subtype \in First(subtypes, {"Plain", "None", "VncAuth"}) :
                    /\ picked' = Append(picked, subtype)
                    /\ conn' = CASE subtype = "None" -> "result"
                                 [] subtype = "VncAuth" -> "password"
                                 [] subtype = "Plain" -> "credentials"
                    /\ ConnSends(<< <<"subtype", subtype>> >>)
      BY <1>21 DEF ReceiveSubtypes
    <2>2. conn = "subtypes" /\ UNCHANGED tunnel /\ toConn # <<>>
      BY <1>5, <1>21, <2>1 DEF ReceiveSubtypes, tunnelVars
    <2>3. At("subtype", "subtypes", <<>>, << <<"subtypes", security>> >>)
      BY <1>8, <2>2 DEF Beginning, Negotiating, Finishing, Misunderstanding, GivingUp, At
    <2>4. subtypes = security /\ toConn' = <<>>
      BY <1>5, <2>1, <2>3, QueueFacts DEF At
    <2>5. CASE conn' = "failed" /\ UNCHANGED toTunnel
      <3>1. At("subtype", "failed", <<>>, <<>>)'
        BY <2>2, <2>3, <2>4, <2>5 DEF At
      <3> QED
        BY <3>1 DEF GivingUp
    <2>6. CASE ~(conn' = "failed" /\ UNCHANGED toTunnel)
      <3>1. PICK subtype \in First(subtypes, {"Plain", "None", "VncAuth"}) :
              /\ picked' = Append(picked, subtype)
              /\ conn' = CASE subtype = "None" -> "result"
                           [] subtype = "VncAuth" -> "password"
                           [] subtype = "Plain" -> "credentials"
              /\ ConnSends(<< <<"subtype", subtype>> >>)
        BY <2>1, <2>6
      <3>2. subtype \in Range(security) /\ subtype \in {"Plain", "None", "VncAuth"}
        BY <2>4, FirstFacts
      <3>3. subtype = "None"
        BY <1>2, <3>2, RangeIsTyped DEF Protection
      <3>4. picked' = <<"VeNCrypt", "None">>
        BY <2>2, <3>1, <3>3, PairIsAppended DEF TypeInv
      <3>5. toTunnel' = << <<"subtype", "None">> >> /\ conn' = "result"
        BY <1>7, <2>3, <3>1, <3>3, QueueFacts DEF At
      <3>6. At("subtype", "result", << <<"subtype", "None">> >>, <<>>)'
        BY <2>2, <2>3, <2>4, <3>5 DEF At
      <3> QED
        BY <1>1, <3>2, <3>3, <3>4, <3>6 DEF Misunderstanding, Misunderstood
    <2> QED
      BY <2>5, <2>6
  <1>22. CASE Answer
    BY <1>8, <1>22 DEF Answer, Beginning, Negotiating, Finishing, Misunderstanding, GivingUp, At
  <1>23. CASE AnswerChallenge
    BY <1>8, <1>23
       DEF AnswerChallenge, Beginning, Negotiating, Finishing, Misunderstanding, GivingUp, At
  <1>24. CASE ReceiveSecurityResult
    <2>1. PICK result :
            /\ ConnReceives(result)
            /\ result = "OK" => conn' = "serverInit" /\ ConnSends(<< <<"clientInit", "shared">> >>)
      BY <1>24 DEF ReceiveSecurityResult
    <2>2. conn = "result" /\ UNCHANGED tunnel /\ toConn # <<>>
          /\ Head(toConn) = <<"result", result>>
      BY <1>5, <1>24, <2>1 DEF ReceiveSecurityResult, tunnelVars
    <2>3. At("clientInit", "result", <<>>, << <<"result", "OK">> >>)
          \/ At("clientInit", "result", <<>>, << <<"ack", 1>>, <<"result", "OK">> >>)
      BY <1>8, <2>2 DEF Beginning, Negotiating, Finishing, Misunderstanding, GivingUp, At
    <2>4. At("clientInit", "result", <<>>, << <<"result", "OK">> >>)
      BY <2>2, <2>3, QueueFacts DEF At
    <2>5. result = "OK" /\ toConn' = <<>>
      BY <1>5, <2>1, <2>4, QueueFacts DEF At
    <2>6. toTunnel' = << <<"clientInit", "shared">> >>
      BY <1>7, <2>1, <2>4, <2>5, QueueFacts DEF At
    <2>7. At("clientInit", "serverInit", << <<"clientInit", "shared">> >>, <<>>)'
      BY <2>1, <2>2, <2>4, <2>5, <2>6 DEF At
    <2> QED
      BY <2>7 DEF Finishing
  <1>25. CASE MisreadSecurityResult
    <2>1. At("clientInit", "result", <<>>, << <<"ack", 1>>, <<"result", "OK">> >>) /\ Misunderstood
      <3>1. conn = "result" /\ toConn = << <<"ack", 1>>, <<"result", "OK">> >>
        BY <1>25 DEF MisreadSecurityResult
      <3>2. toConn # <<>> /\ toConn # << <<"result", "OK">> >>
        BY <3>1
      <3> QED
        BY <1>8, <3>1, <3>2 DEF Beginning, Negotiating, Finishing, Misunderstanding, GivingUp, At
    <2>2. At("clientInit", "reason", <<>>, << <<"rest", 1>> >>)' /\ UNCHANGED picked
      BY <1>25, <2>1 DEF MisreadSecurityResult, tunnelVars, At
    <2> QED
      BY <2>1, <2>2 DEF Misunderstanding, Misunderstood
  <1>26. CASE ReceiveFailureReason
    <2>1. PICK reason : ConnReceives(reason) /\ conn = "reason"
      BY <1>26 DEF ReceiveFailureReason
    <2>2. toConn = << <<"rest", 1>> >>
      BY <1>8, <2>1 DEF Beginning, Negotiating, Finishing, Misunderstanding, GivingUp, At
    <2>3. Head(toConn) = <<"rest", 1>> /\ Head(toConn) = <<"reason", reason>>
      BY <1>5, <2>1, <2>2, QueueFacts
    <2> QED
      BY <2>3
  <1>27. CASE CompleteInitialization
    <2>1. /\ conn = "serverInit" /\ conn' = "ready" /\ UNCHANGED <<tunnel, toTunnel>>
          /\ ConnReceives("name")
      BY <1>27 DEF CompleteInitialization, tunnelVars
    <2>2. At("ready", "serverInit", <<>>, << <<"serverInit", "name">> >>)
      BY <1>5, <1>8, <2>1 DEF Beginning, Negotiating, Finishing, Misunderstanding, GivingUp, At
    <2>3. At("ready", "ready", <<>>, <<>>)'
      BY <1>5, <2>1, <2>2, QueueFacts DEF At
    <2> QED
      BY <2>3 DEF Finishing
  <1>28. CASE ConnFails
    BY <1>1, <1>8, <1>28
       DEF ConnFails, Beginning, Negotiating, Finishing, Misunderstanding, GivingUp, At
  <1>29. CASE UNCHANGED vars
    BY <1>1, <1>8, <1>29
       DEF vars, Misunderstood, Beginning, Negotiating, Finishing, Misunderstanding, GivingUp, At
  <1> QED
    BY <1>9, <1>10, <1>11, <1>12, <1>13, <1>14, <1>15, <1>16, <1>17, <1>18, <1>19, <1>20, <1>21,
       <1>22, <1>23, <1>24, <1>25, <1>26, <1>27, <1>28, <1>29
       DEF Next, ClientInitalize, Initialize

\* What comes is what is waited for, at each of these places.
LEMMA StageImpliesInStep == TypeInv /\ StageInv => InStep
  <1> SUFFICES ASSUME TypeInv, StageInv PROVE InStep
    OBVIOUS
  <1>1. CASE scene # "halves"
    BY <1>1 DEF InStep, TypeInv
  <1>2. CASE scene = "halves"
    <2>1. Beginning => InStep
      BY QueueFacts DEF Beginning, At, InStep
    <2>2. Negotiating => InStep
      BY QueueFacts DEF Negotiating, At, InStep
    <2>3. Finishing => InStep
      BY QueueFacts DEF Finishing, At, InStep
    <2>4. Misunderstanding => InStep
      BY QueueFacts DEF Misunderstanding, At, InStep
    <2>5. GivingUp => InStep
      BY DEF GivingUp, At, InStep
    <2> QED
      BY <1>2, <2>1, <2>2, <2>3, <2>4, <2>5 DEF StageInv
  <1> QED
    BY <1>1, <1>2

-----------------------------------------------------------------------------

\* The invariant: the types, the protection the client is heading for, and the place
\* where the two ends are.
THEOREM HandshakeCorrect == Spec => [](TypeInv /\ CoverInv /\ StageInv)
  <1>1. Init => TypeInv /\ CoverInv /\ StageInv
    <2>1. Init => CoverInv
      BY DEF Init, CoverInv
    <2> QED
      BY <2>1, TypeInit, StageInit
  <1>2. TypeInv /\ CoverInv /\ StageInv /\ [Next]_vars => (TypeInv /\ CoverInv /\ StageInv)'
    BY TypeStep, CoverStep, StageStep
  <1> QED
    BY <1>1, <1>2, PTL DEF Spec

\* The variables have their types, and the switches over the client's choices
\* (clientInitalize, VncTunnel.cpp) their cases, for every value of the option
\* and every client and Xvnc.
THEOREM TypeCorrect == Spec => []TypeOK
  <1>1. TypeInv => TypeOK
    BY DEF TypeInv
  <1> QED
    BY <1>1, HandshakeCorrect, PTL

\* Nobody gets to the session without a configured protection, and a client that takes
\* what it likes best from the offered lists gets the best configured one
\* (configuredSecurityTypes, VncTunnel.cpp), for every value of the option "security".
THEOREM ClientsAreCovered == Spec => []CoverIsConfigured
  <1>1. CoverInv => CoverIsConfigured
    BY DEF CoverInv, CoverIsConfigured, Proper
  <1> QED
    BY <1>1, HandshakeCorrect, PTL

\* The server's end of the handshake (clientInitalize) and the client's
\* (XvncConnection::initialize) read what the other has sent, whatever is configured,
\* as long as the client's end does not choose None of VeNCrypt.
THEOREM HalvesAreInStep == Spec => []InStep
  BY StageImpliesInStep, HandshakeCorrect, PTL

=============================================================================
