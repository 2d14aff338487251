----------------------- MODULE ConnectionSwitchProofs ----------------------
(***************************************************************************)
(* Theorems about ConnectionSwitch for any numbers of sessions,            *)
(* connections and commands: no path through the thread loses a            *)
(* connection, counts it wrongly or runs a handler that is not current.    *)
(*                                                                         *)
(* At every call the two pointers of the tunnel lead to different live     *)
(* connections (PointerInv); only the way to ~VncTunnel may leave the      *)
(* potential one deleted.  The greeter's handlers belong to connections    *)
(* that were potential, so that one of them that is not deleted is the     *)
(* potential connection still (HandlerInv).  What is ready belongs to      *)
(* what is registered now (ReadyInv), and the thread deals with a          *)
(* potential connection only while there is a greeter (GreeterInv).        *)
(***************************************************************************)
EXTENDS ConnectionSwitch, FiniteSetTheorems, TLAPS

\* Where the thread is while the client is served.
Serving == {"update", "sessions", "select", "dispatch", "forward", "create", "open",
            "switch", "initialize", "authenticate", "complete", "refused"}

\* Where it deals with what the greeter has asked for.
Switching == {"create", "open", "switch", "initialize", "authenticate", "complete",
              "refused"}

Starting == {"start", "connect", "first", "welcome"}

\* The connections that are open to a session.
LiveIn(s) == {c \in Conns : Live(c) /\ session[c] = s}

\* TypeOK without the counts, which CountInv defines.
ShapeInv ==
    /\ pc \in PCs
    /\ current \in Conns \cup {Null} /\ potential \in Conns \cup {Null}
    /\ conn \in Conns \cup {Null} /\ target \in Sessions \cup {Null}
    /\ state \in [Conns -> {"unused", "handshake", "asking", "open", "deleted"}]
    /\ session \in [Conns -> Sessions \cup {Null}]
    /\ greeter \in BOOLEAN /\ dead \in BOOLEAN
    /\ handler \in [Kinds -> Conns \cup {Null}]
    /\ program \in {"none", "running", "dead"}
    /\ ready \subseteq {ClientFd, GreeterFd} \cup {ServerFd(c) : c \in Conns}

InputInv ==
    /\ questions \in [Kinds -> Nat]
    /\ pipe \in Seq(Commands) /\ buffered \in Seq(Commands)

CountInv == connections = [s \in Sessions |-> Cardinality(LiveIn(s))]

PointerInv ==
    /\ \A c \in Conns : Live(c) => c \in {current, potential}
    /\ current # Null => Live(current) /\ current # potential
    /\ potential # Null => state[potential] # "unused"
    /\ potential # Null /\ pc \notin {"close", "undefined"} => Live(potential)
    /\ pc \in Serving \cup {"welcome"} => current # Null /\ state[current] = "open"
    /\ pc = "first" => current # Null
    /\ pc \in {"start", "connect"} => current = Null
    /\ pc \in Starting => potential = Null
    /\ pc \in {"connect", "open", "switch"} => target # Null
    /\ pc \in {"initialize", "authenticate", "complete", "refused"} =>
         conn = potential /\ potential # Null

HandlerInv ==
    /\ \A k \in Kinds : handler[k] # Null =>
         handler[k] # current /\ state[handler[k]] # "unused"
    /\ pc \in Starting => \A k \in Kinds : handler[k] = Null

ReadyInv ==
    /\ \A c \in Conns : ServerFd(c) \in ready => c = current
    /\ GreeterFd \in ready => greeter
    /\ pc \in Starting \cup {"update", "sessions", "select", "initialize", "close", "done"} =>
         ready = {}

GreeterInv ==
    /\ program = "running" => greeter
    /\ potential # Null => greeter
    /\ pc \in Switching => greeter
    /\ pc = "start" => ~greeter

\* The parts of the inductive invariant that are about one thread's program.
ControlInv == ShapeInv /\ PointerInv /\ HandlerInv /\ ReadyInv /\ GreeterInv

\* The inductive invariant.
TunnelInv == ControlInv /\ CountInv

-----------------------------------------------------------------------------
\* Descriptors of different kinds, and of different connections, differ.
LEMMA FdsDiffer ==
  /\ ClientFd # GreeterFd
  /\ \A c \in Conns : ServerFd(c) # ClientFd /\ ServerFd(c) # GreeterFd
  /\ \A c, d \in Conns : ServerFd(c) = ServerFd(d) => c = d
  BY DEF ClientFd, GreeterFd, ServerFd

\* The thread starts without connections.
LEMMA InitTunnel == Init => TunnelInv
  <1> SUFFICES ASSUME Init PROVE TunnelInv
    OBVIOUS
  <1>1. ControlInv
    BY SwitchAssumption
       DEF Init, ControlInv, ShapeInv, PointerInv, HandlerInv, ReadyInv, GreeterInv, PCs,
           Starting, Switching, Serving, Live, Kinds
  <1>2. \A s \in Sessions : LiveIn(s) = {}
    BY DEF Init, LiveIn, Live
  <1>3. CountInv
    BY <1>2, FS_EmptySet DEF CountInv, Init
  <1> QED
    BY <1>1, <1>3 DEF TunnelInv

-----------------------------------------------------------------------------
(* The thread's program.                                                   *)

\* From the start to the client's welcome there is at most one connection.
LEMMA StartStep ==
  ASSUME ControlInv, Start \/ Connect \/ InitializeFirst \/ Welcome
  PROVE  ControlInv'
  <1> USE SwitchAssumption
      DEF ControlInv, ShapeInv, PointerInv, HandlerInv, ReadyInv, GreeterInv, PCs, Starting,
          Switching, Serving, Live, pointers, objects, greeting, outside, Throw
  <1>1. CASE Start
    BY <1>1 DEF Start
  <1>2. CASE Connect
    BY <1>2 DEF Connect, Construct, Fresh
  <1>3. CASE InitializeFirst
    BY <1>3 DEF InitializeFirst
  <1>4. CASE Welcome
    BY <1>4 DEF Welcome
  <1> QED
    BY <1>1, <1>2, <1>3, <1>4

\* The loop and the handlers of messages leave the connections alone.
LEMMA LoopStep ==
  ASSUME ControlInv,
         \/ Update \/ SendSessions \/ Select \/ Return \/ ReceiveNothing \/ Authenticate
         \/ Forwarded \/ \E f \in ready : Forward(f)
  PROVE  ControlInv'
  <1> USE SwitchAssumption, FdsDiffer
      DEF ControlInv, ShapeInv, PointerInv, HandlerInv, ReadyInv, GreeterInv, PCs, Starting,
          Switching, Serving, Live, pointers, objects, greeting, outside, Throw
  <1>1. CASE Update
    BY <1>1 DEF Update
  <1>2. CASE Select
    BY <1>2 DEF Select, Readable
  <1>3. CASE Return
    BY <1>3 DEF Return
  <1>4. CASE ReceiveNothing
    BY <1>4 DEF ReceiveNothing
  <1>5. CASE Authenticate
    BY <1>5 DEF Authenticate
  <1>6. ASSUME NEW f \in ready, Forward(f) PROVE ControlInv'
    BY <1>6 DEF Forward
  <1>7. CASE SendSessions \/ Forwarded
    BY <1>7 DEF SendSessions, Forwarded
  <1> QED
    BY <1>1, <1>2, <1>3, <1>4, <1>5, <1>6, <1>7

\* A command of the greeter is about the potential connection, or asks for one.
LEMMA ReceiveStep ==
  ASSUME ControlInv,
         \/ ReceiveNew \/ NewSession \/ OpenSession
         \/ \E s \in Sessions : ReceiveOpen(s)
         \/ \E k \in Kinds : ReceiveAnswer(k)
  PROVE  ControlInv'
  <1> USE SwitchAssumption
      DEF ControlInv, ShapeInv, PointerInv, HandlerInv, ReadyInv, GreeterInv, PCs, Starting,
          Switching, Serving, Live, pointers, objects, greeting, outside, Throw, Receive
  <1>1. CASE ReceiveNew
    BY <1>1 DEF ReceiveNew
  <1>2. ASSUME NEW s \in Sessions, ReceiveOpen(s) PROVE ControlInv'
    BY <1>2 DEF ReceiveOpen
  <1>3. ASSUME NEW k \in Kinds, ReceiveAnswer(k) PROVE ControlInv'
    BY <1>3 DEF ReceiveAnswer
  <1>4. CASE NewSession \/ OpenSession
    BY <1>4 DEF NewSession, OpenSession
  <1> QED
    BY <1>1, <1>2, <1>3, <1>4

\* The potential connection is replaced, asked about, moved to or given up.
LEMMA SwitchStep ==
  ASSUME ControlInv, SwitchToConnection \/ Initialize \/ Complete \/ Refused \/ Close
  PROVE  ControlInv'
  <1> USE SwitchAssumption
      DEF ControlInv, ShapeInv, PointerInv, HandlerInv, ReadyInv, GreeterInv, PCs, Starting,
          Switching, Serving, Live, pointers, objects, greeting, outside, Throw, Deleted
  <1>1. CASE SwitchToConnection
    <2>1. CASE pc' = "close"
      BY <1>1, <2>1 DEF SwitchToConnection
    <2>2. CASE pc' # "close"
      <3>1. PICK c \in Conns :
              /\ state[c] = "unused"
              /\ session' = [session EXCEPT ![c] = target]
              /\ state' = [Deleted({potential} \ {Null}) EXCEPT ![c] = "handshake"]
              /\ potential' = c /\ conn' = c /\ pc' = "initialize" /\ ready' = {}
        BY <1>1, <2>2 DEF SwitchToConnection, Construct, Fresh
      <3>2. /\ pc = "switch"
            /\ UNCHANGED <<current, target, greeter, dead, handler, program>>
        BY <1>1 DEF SwitchToConnection
      <3>3. /\ state'[c] = "handshake"
            /\ \A d \in Conns \ {c} :
                 state'[d] = IF d = potential THEN "deleted" ELSE state[d]
        BY <3>1
      <3>4. c # current /\ c # potential /\ \A k \in Kinds : c # handler[k]
        BY <3>1, <3>2
      <3>5. ShapeInv'
        BY <3>1, <3>2
      <3>6. PointerInv'
        BY <3>1, <3>2, <3>3, <3>4
      <3>7. HandlerInv' /\ ReadyInv' /\ GreeterInv'
        BY <3>1, <3>2, <3>3, <3>4
      <3> QED
        BY <3>5, <3>6, <3>7
    <2> QED
      BY <2>1, <2>2
  <1>2. CASE Initialize
    BY <1>2 DEF Initialize
  <1>3. CASE Complete
    BY <1>3 DEF Complete, ReleaseGreeter
  <1>4. CASE Refused
    BY <1>4 DEF Refused
  <1>5. CASE Close
    <2>1. CASE pc' = "undefined"
      BY <1>5, <2>1 DEF Close
    <2>2. CASE pc' # "undefined"
      <3>1. /\ pc' = "done" /\ current' = Null /\ potential' = Null
            /\ state' = Deleted({current, potential} \ {Null})
            /\ greeter' = FALSE /\ dead' = FALSE /\ program' = "none"
            /\ handler' = [k \in Kinds |-> Null]
            /\ pc = "close" /\ UNCHANGED <<conn, session, target, ready>>
        BY <1>5, <2>2 DEF Close, ReleaseGreeter
      <3>2. \A c \in Conns : state'[c] = IF c = current \/ c = potential THEN "deleted"
                                                                    ELSE state[c]
        BY <3>1
      <3>3. ShapeInv'
        BY <3>1
      <3>4. PointerInv'
        BY <3>1, <3>2
      <3>5. HandlerInv' /\ ReadyInv' /\ GreeterInv'
        BY <3>1
      <3> QED
        BY <3>3, <3>4, <3>5
    <2> QED
      BY <2>1, <2>2
  <1> QED
    BY <1>1, <1>2, <1>3, <1>4, <1>5

\* The greeter's program and the main thread do not touch the tunnel.
LEMMA OutsideStep ==
  ASSUME ControlInv,
         \/ \E cmd \in Commands : GreeterWrites(cmd)
         \/ GreeterDies \/ MarkDead \/ Terminated \/ UNCHANGED vars
  PROVE  ControlInv'
  <1> USE DEF ControlInv, ShapeInv, PointerInv, HandlerInv, ReadyInv, GreeterInv, Live,
              pointers, objects, greeting, outside
  <1>1. ASSUME NEW cmd \in Commands, GreeterWrites(cmd) PROVE ControlInv'
    BY <1>1 DEF GreeterWrites
  <1>2. CASE GreeterDies
    BY <1>2 DEF GreeterDies
  <1>3. CASE MarkDead
    BY <1>3 DEF MarkDead
  <1>4. CASE Terminated \/ UNCHANGED vars
    BY <1>4 DEF Terminated, vars
  <1> QED
    BY <1>1, <1>2, <1>3, <1>4

\* Every step keeps the thread's program in order.
LEMMA ControlStep == ControlInv /\ [Next]_vars => ControlInv'
  BY StartStep, LoopStep, ReceiveStep, SwitchStep, OutsideStep DEF Next, ThreadStep, Loop, Call

-----------------------------------------------------------------------------
(* The counts.                                                             *)

\* There are finitely many connections.
LEMMA LiveFinite ==
  ASSUME NEW s PROVE IsFiniteSet(LiveIn(s)) /\ Cardinality(LiveIn(s)) \in Nat
  <1>1. IsFiniteSet(Conns)
    BY SwitchAssumption, FS_Interval DEF Conns
  <1>2. LiveIn(s) \in SUBSET Conns
    BY DEF LiveIn
  <1>3. IsFiniteSet(LiveIn(s))
    BY <1>1, <1>2, FS_Subset
  <1> QED
    BY <1>3, FS_CardinalityType

\* Deleting live connections leaves the others counted.
LEMMA DeletionCounts ==
  ASSUME CountInv, NEW D, D \subseteq Conns, \A c \in D : Live(c), NEW s \in Sessions
  PROVE  Uncounted(D)[s] = Cardinality(LiveIn(s) \ D)
  <1> DEFINE gone == {c \in D : session[c] = s}
  <1>1. LiveIn(s) \cap D = gone
    BY DEF LiveIn
  <1>2. Cardinality(LiveIn(s) \ D) = Cardinality(LiveIn(s)) - Cardinality(LiveIn(s) \cap D)
    BY LiveFinite, FS_Difference
  <1>3. Uncounted(D)[s] = Cardinality(LiveIn(s)) - Cardinality(gone)
    BY DEF Uncounted, CountInv
  <1> QED
    BY <1>1, <1>2, <1>3

\* A step that only deletes live connections counts them down.
LEMMA DeletionStep ==
  ASSUME CountInv, NEW D, D \subseteq Conns, \A c \in D : Live(c),
         UNCHANGED session, connections' = Uncounted(D),
         \A c \in Conns : Live(c)' <=> Live(c) /\ c \notin D
  PROVE  CountInv'
  <1>1. \A s \in Sessions : LiveIn(s)' = LiveIn(s) \ D
    BY DEF LiveIn
  <1>2. \A s \in Sessions : Uncounted(D)[s] = Cardinality(LiveIn(s) \ D)
    BY DeletionCounts
  <1>3. connections' = [s \in Sessions |-> Uncounted(D)[s]]
    BY DEF Uncounted
  <1> QED
    BY <1>1, <1>2, <1>3 DEF CountInv

\* A step that deletes live connections and constructs another one counts that too.
LEMMA ConstructionStep ==
  ASSUME CountInv, NEW D, D \subseteq Conns, \A c \in D : Live(c),
         session \in [Conns -> Sessions \cup {Null}],
         NEW c \in Conns, ~Live(c), Live(c)', NEW s \in Sessions,
         session' = [session EXCEPT ![c] = s],
         connections' = [Uncounted(D) EXCEPT ![s] = @ + 1],
         \A d \in Conns \ {c} : Live(d)' <=> Live(d) /\ d \notin D
  PROVE  CountInv'
  <1>1. ASSUME NEW x \in Sessions PROVE connections'[x] = Cardinality(LiveIn(x)')
    <2>1. Uncounted(D)[x] = Cardinality(LiveIn(x) \ D)
      BY DeletionCounts
    <2>2. IsFiniteSet(LiveIn(x) \ D) /\ c \notin LiveIn(x) \ D
      BY LiveFinite, FS_Difference DEF LiveIn
    <2>3. CASE x = s
      <3>1. LiveIn(x)' = (LiveIn(x) \ D) \cup {c}
        BY <2>3 DEF LiveIn
      <3>2. connections'[x] = Uncounted(D)[x] + 1
        BY <2>3 DEF Uncounted
      <3> QED
        BY <2>1, <2>2, <3>1, <3>2, FS_AddElement
    <2>4. CASE x # s
      <3>1. LiveIn(x)' = LiveIn(x) \ D
        BY <2>4 DEF LiveIn
      <3>2. connections'[x] = Uncounted(D)[x]
        BY <2>4 DEF Uncounted
      <3> QED
        BY <2>1, <3>1, <3>2
    <2> QED
      BY <2>3, <2>4
  <1>2. connections' = [x \in Sessions |-> connections'[x]]
    BY DEF Uncounted
  <1> QED
    BY <1>1, <1>2 DEF CountInv

\* A step that deletes and constructs nothing.
LEMMA SameCounts ==
  ASSUME CountInv, UNCHANGED <<session, connections>>, \A c \in Conns : Live(c)' <=> Live(c)
  PROVE  CountInv'
  BY DEF CountInv, LiveIn

\* Nothing is deleted.
LEMMA NoneUncounted == CountInv => Uncounted({}) = connections
  <1> SUFFICES ASSUME CountInv PROVE Uncounted({}) = connections
    OBVIOUS
  <1>1. \A s \in Sessions : Uncounted({})[s] = connections[s]
    <2>1. \A s \in Sessions : {c \in {} : session[c] = s} = {}
      OBVIOUS
    <2>2. \A s \in Sessions : connections[s] \in Nat
      BY LiveFinite DEF CountInv
    <2> QED
      BY <2>1, <2>2, FS_EmptySet DEF Uncounted
  <1> QED
    BY <1>1 DEF Uncounted, CountInv

\* The first connection is counted.
LEMMA ConnectCounts ==
  ASSUME TunnelInv, Connect
  PROVE  CountInv'
  <1> USE DEF TunnelInv, ControlInv, ShapeInv, PointerInv
  <1>1. CASE pc' = "close"
    BY <1>1, SameCounts DEF Connect, objects, Live
  <1>2. CASE pc' # "close"
    <2>1. PICK c \in Conns :
            /\ state[c] = "unused"
            /\ session' = [session EXCEPT ![c] = target]
            /\ state' = [state EXCEPT ![c] = "handshake"]
            /\ connections' = [connections EXCEPT ![target] = @ + 1]
      BY <1>2 DEF Connect, Construct, Fresh, Throw
    <2>2. target \in Sessions
      BY DEF Connect
    <2>3. connections' = [Uncounted({}) EXCEPT ![target] = @ + 1]
      BY <2>1, NoneUncounted
    <2>4. ~Live(c) /\ Live(c)' /\ \A d \in Conns \ {c} : Live(d)' <=> Live(d) /\ d \notin {}
      BY <2>1 DEF Live
    <2> DEFINE D == {}
    <2>5. /\ CountInv /\ session \in [Conns -> Sessions \cup {Null}]
          /\ D \subseteq Conns /\ \A d \in D : Live(d)
      OBVIOUS
    <2>6. /\ connections' = [Uncounted(D) EXCEPT ![target] = @ + 1]
          /\ \A d \in Conns \ {c} : Live(d)' <=> Live(d) /\ d \notin D
      BY <2>3, <2>4
    <2> HIDE DEF D, TunnelInv, ControlInv, ShapeInv, PointerInv
    <2> QED
      BY <2>1, <2>2, <2>4, <2>5, <2>6, ConstructionStep
  <1> QED
    BY <1>1, <1>2

\* The new potential connection is counted, and the old one no longer.
LEMMA SwitchCounts ==
  ASSUME TunnelInv, SwitchToConnection
  PROVE  CountInv'
  <1> USE DEF TunnelInv, ControlInv, ShapeInv, PointerInv
  <1> DEFINE gone == {potential} \ {Null}
  <1>1. gone \subseteq Conns /\ \A c \in gone : Live(c)
    BY DEF SwitchToConnection
  <1>2. CASE pc' = "close"
    <2>1. /\ state' = Deleted(gone) /\ connections' = Uncounted(gone)
          /\ UNCHANGED session
      BY <1>2 DEF SwitchToConnection
    <2>2. \A c \in Conns : Live(c)' <=> Live(c) /\ c \notin gone
      BY <2>1 DEF Live, Deleted
    <2> QED
      BY <1>1, <2>1, <2>2, DeletionStep
  <1>3. CASE pc' # "close"
    <2>1. PICK c \in Conns :
            /\ state[c] = "unused"
            /\ session' = [session EXCEPT ![c] = target]
            /\ state' = [Deleted(gone) EXCEPT ![c] = "handshake"]
            /\ connections' = [Uncounted(gone) EXCEPT ![target] = @ + 1]
      BY <1>3 DEF SwitchToConnection, Construct, Fresh, Throw
    <2>2. target \in Sessions
      BY DEF SwitchToConnection
    <2>3. ~Live(c) /\ Live(c)' /\ \A d \in Conns \ {c} : Live(d)' <=> Live(d) /\ d \notin gone
      BY <2>1 DEF Live, Deleted
    <2>4. CountInv /\ session \in [Conns -> Sessions \cup {Null}]
      OBVIOUS
    <2> HIDE DEF gone, TunnelInv, ControlInv, ShapeInv, PointerInv
    <2> QED
      BY <1>1, <2>1, <2>2, <2>3, <2>4, ConstructionStep
  <1> QED
    BY <1>2, <1>3

\* What a completed switch, a refusal and ~VncTunnel delete is counted no longer.
LEMMA EndCounts ==
  ASSUME TunnelInv, Complete \/ Refused \/ Close
  PROVE  CountInv'
  <1> USE SwitchAssumption DEF TunnelInv, ControlInv, ShapeInv, PointerInv, Serving
  <1>1. CASE Complete
    <2>1. {current} \subseteq Conns /\ \A c \in {current} : Live(c)
      BY <1>1 DEF Complete
    <2>2. /\ state' = [Deleted({current}) EXCEPT ![potential] = "open"]
          /\ connections' = Uncounted({current}) /\ UNCHANGED session
      BY <1>1 DEF Complete
    <2>3. \A c \in Conns : Live(c)' <=> Live(c) /\ c \notin {current}
      BY <1>1, <2>2 DEF Complete, Live, Deleted
    <2> QED
      BY <2>1, <2>2, <2>3, DeletionStep
  <1>2. CASE Refused
    <2>1. {potential} \cap ({conn} \ {current}) = {potential}
      BY <1>2 DEF Refused
    <2>2. /\ state' = Deleted({potential}) /\ connections' = Uncounted({potential})
          /\ UNCHANGED session
      BY <1>2, <2>1 DEF Refused
    <2>3. {potential} \subseteq Conns /\ \A c \in {potential} : Live(c)
      BY <1>2 DEF Refused
    <2>4. \A c \in Conns : Live(c)' <=> Live(c) /\ c \notin {potential}
      BY <2>2 DEF Live, Deleted
    <2> QED
      BY <2>2, <2>3, <2>4, DeletionStep
  <1>3. CASE Close
    <2> DEFINE gone == {current, potential} \ {Null}
    <2>1. CASE pc' = "undefined"
      BY <1>3, <2>1, SameCounts DEF Close, Live
    <2>2. CASE pc' # "undefined"
      <3>1. /\ state' = Deleted(gone) /\ connections' = Uncounted(gone)
            /\ UNCHANGED session
            /\ \A c \in gone : Live(c)
        BY <1>3, <2>2 DEF Close
      <3>2. gone \subseteq Conns
        OBVIOUS
      <3>3. \A c \in Conns : Live(c)' <=> Live(c) /\ c \notin gone
        BY <3>1 DEF Live, Deleted
      <3> QED
        BY <3>1, <3>2, <3>3, DeletionStep
    <2> QED
      BY <2>1, <2>2
  <1> QED
    BY <1>1, <1>2, <1>3

\* No other step constructs or deletes a connection.
LEMMA QuietCounts ==
  ASSUME TunnelInv, [Next]_vars,
         ~Connect, ~SwitchToConnection, ~Complete, ~Refused, ~Close
  PROVE  CountInv'
  <1> USE DEF TunnelInv, ControlInv, ShapeInv, PointerInv, Serving, Live
  <1>1. CASE UNCHANGED objects
    BY <1>1, SameCounts DEF objects
  <1>2. CASE InitializeFirst
    BY <1>2, SameCounts DEF InitializeFirst
  <1>3. CASE Initialize
    BY <1>3, SameCounts DEF Initialize
  <1>4. CASE ~(UNCHANGED objects) /\ ~InitializeFirst /\ ~Initialize
    BY <1>4 DEF Next, ThreadStep, Loop, Call, Start, Welcome, Update, SendSessions, Select,
                Return, Forward, Forwarded, ReceiveNothing, ReceiveNew, NewSession,
                ReceiveOpen, OpenSession, ReceiveAnswer, Authenticate, GreeterWrites,
                GreeterDies, MarkDead, Terminated, objects, vars
  <1> QED
    BY <1>1, <1>2, <1>3, <1>4

-----------------------------------------------------------------------------
(* The theorems.                                                           *)

\* TunnelInv is an invariant.
LEMMA TunnelCorrect == Spec => []TunnelInv
  <1>1. TunnelInv /\ [Next]_vars => TunnelInv'
    BY ControlStep, ConnectCounts, SwitchCounts, EndCounts, QuietCounts DEF TunnelInv
  <1> QED
    BY <1>1, InitTunnel, PTL DEF Spec

\* The questions and the commands on their way stay within their types.
LEMMA InputStep ==
  ASSUME InputInv, [Next]_vars
  PROVE  InputInv'
  <1> USE DEF InputInv, outside
  <1>1. CASE Start \/ Connect \/ InitializeFirst \/ Welcome \/ Update \/ Select \/ Return
    BY <1>1 DEF Start, Connect, InitializeFirst, Welcome, Update, Select, Return
  <1>2. ASSUME NEW f \in ready, Forward(f) PROVE InputInv'
    BY <1>2 DEF Forward
  <1>3. ASSUME NEW cmd, Receive(cmd), UNCHANGED questions PROVE InputInv'
    BY <1>3 DEF Receive, Input
  <1>4. CASE ReceiveNothing \/ Authenticate \/ SwitchToConnection \/ Refused
    BY <1>4 DEF ReceiveNothing, Authenticate, SwitchToConnection, Refused
  <1>5. CASE ReceiveNew \/ (\E s \in Sessions : ReceiveOpen(s))
             \/ (\E k \in Kinds : ReceiveAnswer(k))
    BY <1>3, <1>5 DEF ReceiveNew, ReceiveOpen, ReceiveAnswer
  <1>6. CASE Initialize
    BY <1>6 DEF Initialize
  <1>7. CASE Complete \/ Close
    <2>1. CASE UNCHANGED <<questions, pipe, buffered>>
      BY <2>1
    <2>2. CASE questions' = [k \in Kinds |-> 0] /\ pipe' = <<>> /\ buffered' = <<>>
      BY <2>2
    <2> QED
      BY <1>7, <2>1, <2>2 DEF Complete, Close, ReleaseGreeter
  <1>8. ASSUME NEW cmd \in Commands, GreeterWrites(cmd) PROVE InputInv'
    BY <1>8 DEF GreeterWrites
  <1>9. CASE GreeterDies \/ MarkDead \/ Terminated \/ UNCHANGED vars
    BY <1>9 DEF GreeterDies, MarkDead, Terminated, vars
  <1>10. CASE SendSessions \/ Forwarded \/ NewSession \/ OpenSession
    BY <1>10 DEF SendSessions, Forwarded, NewSession, OpenSession
  <1> QED
    BY <1>1, <1>2, <1>4, <1>5, <1>6, <1>7, <1>8, <1>9, <1>10 DEF Next, ThreadStep, Loop, Call

\* Every variable of the tunnel stays within its type; no Xvnc counts less than nothing.
THEOREM TypeCorrect == Spec => []TypeOK
  <1>1. Init => InputInv
    BY DEF Init, InputInv
  <1>2. InputInv /\ [Next]_vars => InputInv'
    BY InputStep
  <1>3. TunnelInv /\ InputInv => TypeOK
    <2>1. CountInv => connections \in [Sessions -> Nat]
      BY LiveFinite DEF CountInv
    <2> QED
      BY <2>1 DEF TunnelInv, ControlInv, ShapeInv, InputInv, TypeOK
  <1> QED
    BY <1>1, <1>2, <1>3, TunnelCorrect, PTL DEF Spec

\* No path through the thread loses a connection or counts one twice.
THEOREM NoneIsLost == Spec => []ConnectionsAreOwned
  <1>1. TunnelInv => ConnectionsAreOwned
    BY DEF TunnelInv, ControlInv, PointerInv, CountInv, LiveIn, ConnectionsAreOwned
  <1> QED
    BY <1>1, TunnelCorrect, PTL

\* No handler runs for a connection that was replaced, and none completes or refuses
\* another connection than the potential one.
THEOREM HandlersAreCurrent == Spec => []DispatchIsCurrent
  <1>1. TunnelInv => DispatchIsCurrent
    BY SwitchAssumption
       DEF TunnelInv, ControlInv, ShapeInv, PointerInv, ReadyInv, Serving, Live,
           DispatchIsCurrent
  <1> QED
    BY <1>1, TunnelCorrect, PTL

\* No greeter is left behind, and no potential connection without a greeter.
THEOREM GreeterIsKept == Spec => []GreeterIsOwned
  <1>1. TunnelInv => GreeterIsOwned
    BY DEF TunnelInv, ControlInv, GreeterInv, GreeterIsOwned
  <1> QED
    BY <1>1, TunnelCorrect, PTL

-----------------------------------------------------------------------------
(* The refinement of ClientLife.                                           *)

\* What the refinement mapping gives.
Phase == CASE pc = "done" -> "ended"
           [] pc \in {"null", "undefined"} -> "broken"
           [] Settling -> "starting"
           [] OTHER -> IF greeter THEN "choosing" ELSE "using"

Home == IF current = Null THEN Null ELSE session[current]

\* Live connections are connections to a session, and the potential one is there only
\* besides a current one.
HomeInv ==
    /\ \A c \in Conns : Live(c) => session[c] \in Sessions
    /\ potential # Null => current # Null

\* HomeInv is inductive.
LEMMA HomeStep == TunnelInv /\ HomeInv /\ [Next]_vars => HomeInv'
  <1> SUFFICES ASSUME TunnelInv, HomeInv, [Next]_vars PROVE HomeInv'
    OBVIOUS
  <1> USE SwitchAssumption
      DEF TunnelInv, ControlInv, ShapeInv, PointerInv, HomeInv, Live, Serving, Starting
  <1>1. CASE UNCHANGED <<current, potential, objects>>
    BY <1>1 DEF objects
  <1>2. CASE Connect
    BY <1>2 DEF Connect, Construct, objects
  <1>3. CASE InitializeFirst
    BY <1>3 DEF InitializeFirst, pointers
  <1>4. CASE SwitchToConnection
    BY <1>4 DEF SwitchToConnection, Construct, Fresh, Deleted
  <1>5. CASE Initialize
    BY <1>5 DEF Initialize, pointers
  <1>6. CASE Complete
    BY <1>6 DEF Complete, Deleted
  <1>7. CASE Refused
    BY <1>7 DEF Refused, Deleted
  <1>8. CASE Close
    BY <1>8 DEF Close, Deleted
  <1>9. CASE \/ Start \/ Welcome \/ Update \/ SendSessions \/ Select \/ Return \/ Forwarded
             \/ ReceiveNothing \/ ReceiveNew \/ NewSession \/ OpenSession
             \/ Authenticate \/ GreeterDies \/ MarkDead \/ Terminated \/ UNCHANGED vars
             \/ \E f \in ready : Forward(f)
             \/ \E x \in Sessions : ReceiveOpen(x)
             \/ \E k \in Kinds : ReceiveAnswer(k)
             \/ \E cmd \in Commands : GreeterWrites(cmd)
    BY <1>1, <1>9 DEF Start, Welcome, Update, SendSessions, Select, Return, Forward,
                      Forwarded, ReceiveNothing, ReceiveNew, NewSession, OpenSession,
                      ReceiveOpen, ReceiveAnswer, Authenticate, GreeterWrites,
                      GreeterDies, MarkDead, Terminated, pointers, vars
  <1> QED
    BY <1>2, <1>3, <1>4, <1>5, <1>6, <1>7, <1>8, <1>9 DEF Next, ThreadStep, Loop, Call

Choice == IF greeter THEN "choosing" ELSE "using"

\* A client that is served has a home, and the greeter says whether it may move.
PhaseInv ==
    /\ pc \in Serving => Phase = Choice /\ Home \in Sessions
    /\ pc \in Starting => Phase = "starting"
    /\ pc = "close" /\ current # Null => Phase = Choice /\ Home \in Sessions
    /\ pc = "close" /\ current = Null => Phase = "starting" /\ Home = Null
    /\ pc = "done" => Phase = "ended"
    /\ pc \in {"null", "undefined"} => Phase = "broken"

\* PhaseInv follows from the others.
LEMMA ServedPhase == TunnelInv /\ HomeInv => PhaseInv
  <1> SUFFICES ASSUME TunnelInv, HomeInv PROVE PhaseInv
    OBVIOUS
  <1> USE SwitchAssumption
      DEF TunnelInv, ControlInv, ShapeInv, PointerInv, HomeInv, Settling, Serving, Starting,
          Choice, PhaseInv
  <1>1. CASE pc \in Serving
    BY <1>1 DEF Phase, Home
  <1>2. CASE pc \in Starting
    BY <1>2 DEF Phase, Home
  <1>3. CASE pc = "close"
    BY <1>3 DEF Phase, Home
  <1>4. CASE pc \in {"done", "null", "undefined"}
    BY <1>4 DEF Phase
  <1> QED
    BY <1>1, <1>2, <1>3, <1>4 DEF PCs

\* What a step may do to the life of a client: ClientNext, or nothing.
Moves ==
    \/ UNCHANGED <<Phase, Home>>
    \/ /\ Phase = "starting" /\ Home = Null
       /\ Home' \in Sessions /\ UNCHANGED Phase
    \/ /\ Phase = "starting" /\ Home # Null
       /\ Phase' \in {"choosing", "using"} /\ UNCHANGED Home
    \/ Phase = "choosing" /\ Phase' = "using" /\ Home' \in Sessions
    \/ Phase # "broken" /\ Phase' = "ended" /\ Home' = Null
    \/ Phase = "choosing" /\ Phase' = "broken" /\ UNCHANGED Home

\* A step that leaves the thread where it serves the client leaves the client, too.
LEMMA StillServed ==
  ASSUME PhaseInv, PhaseInv', pc \in Serving, current # Null,
         pc' \in Serving \cup {"close"},
         UNCHANGED <<current, greeter>>, session'[current] = session[current]
  PROVE  Moves
  BY DEF PhaseInv, Moves, Choice, Home

\* Each step of the thread is a step of the client's life, or none.
LEMMA LifeStep ==
  ASSUME TunnelInv, HomeInv, PhaseInv, PhaseInv', [Next]_vars
  PROVE  Moves
  <1> USE SwitchAssumption
      DEF TunnelInv, ControlInv, ShapeInv, PointerInv, Throw
  <1>1. CASE Start
    BY <1>1 DEF Start, PhaseInv, Moves, Home, Starting, pointers, objects
  <1>2. CASE Connect
    <2>1. Phase = "starting" /\ Home = Null
      BY <1>2 DEF Connect, PhaseInv, Home, Starting
    <2>2. CASE pc' = "first"
      <3>1. Phase' = "starting"
        BY <2>2 DEF PhaseInv, Starting
      <3>2. current' \in Conns /\ session' = [session EXCEPT ![current'] = target]
        BY <1>2, <2>2 DEF Connect, Construct
      <3>3. target \in Sessions
        BY <1>2 DEF Connect
      <3>4. Home' \in Sessions
        BY <3>2, <3>3 DEF Home
      <3> QED
        BY <2>1, <3>1, <3>4 DEF Moves
    <2>3. CASE pc' = "close"
      BY <1>2, <2>1, <2>3 DEF Connect, PhaseInv, Moves
    <2> QED
      BY <1>2, <2>2, <2>3 DEF Connect
  <1>3. CASE InitializeFirst
    BY <1>3 DEF InitializeFirst, PhaseInv, Moves, Home, Starting, Choice, pointers
  <1>4. CASE Welcome
    <2>1. /\ pc = "welcome" /\ pc' \in {"update", "close"}
          /\ UNCHANGED <<current, session, greeter>>
      BY <1>4 DEF Welcome, pointers, objects, greeting
    <2>2. Phase = "starting" /\ current # Null
      BY <2>1 DEF PhaseInv, Starting
    <2>3. Phase' = Choice' /\ Home' \in Sessions
      BY <2>1, <2>2 DEF PhaseInv, Serving
    <2>4. Home' = Home
      BY <2>1 DEF Home
    <2> QED
      BY <2>2, <2>3, <2>4 DEF Moves, Choice
  <1>5. CASE \/ Update \/ SendSessions \/ Select \/ Return \/ ReceiveNothing \/ ReceiveNew
             \/ NewSession \/ Authenticate \/ Forwarded
             \/ \E f \in ready : Forward(f)
             \/ \E s \in Sessions : ReceiveOpen(s)
    BY <1>5, StillServed
       DEF Update, SendSessions, Select, Return, ReceiveNothing, ReceiveNew, NewSession,
           Receive, ReceiveOpen, Authenticate, Forward, Forwarded, Serving, pointers,
           objects, greeting
  <1>6. CASE OpenSession \/ \E k \in Kinds : ReceiveAnswer(k)
    <2>1. /\ pc \in {"dispatch", "open"} /\ greeter
          /\ UNCHANGED <<current, session, greeter>>
      BY <1>6 DEF OpenSession, ReceiveAnswer, Receive, ReadyInv, GreeterInv, Switching,
                  pointers, objects, greeting
    <2>2. CASE pc' \in Serving \cup {"close"}
      BY <2>1, <2>2, StillServed DEF Serving
    <2>3. CASE pc' \in {"null", "undefined"}
      BY <2>1, <2>3 DEF PhaseInv, Moves, Home, Choice, Serving
    <2> QED
      BY <1>6, <2>2, <2>3 DEF OpenSession, ReceiveAnswer, Serving
  <1>7. CASE SwitchToConnection
    <2>1. pc' \in {"initialize", "close"} /\ UNCHANGED <<current, greeter>>
      BY <1>7 DEF SwitchToConnection, greeting
    <2>2. session'[current] = session[current]
      BY <1>7 DEF SwitchToConnection, Construct, Fresh, Serving, Live
    <2> QED
      BY <1>7, <2>1, <2>2, StillServed DEF SwitchToConnection, Serving
  <1>8. CASE Initialize
    BY <1>8, StillServed DEF Initialize, Serving, pointers
  <1>9. CASE Complete
    BY <1>9 DEF Complete, ReleaseGreeter, PhaseInv, Moves, Serving, Switching, GreeterInv, Choice
  <1>10. CASE Refused
    BY <1>10, StillServed DEF Refused, Serving, greeting
  <1>11. CASE Close
    <2>1. CASE pc' = "done"
      BY <1>11, <2>1 DEF Close, PhaseInv, Moves, Home, Choice
    <2>2. CASE pc' # "done"
      <3>1. /\ pc = "close" /\ pc' = "undefined" /\ UNCHANGED <<current, session>>
            /\ \E c \in {current, potential} \ {Null} : ~Live(c)
        BY <1>11, <2>2 DEF Close
      <3>2. current # Null /\ greeter
        BY <3>1 DEF HomeInv, GreeterInv
      <3> QED
        BY <3>1, <3>2 DEF PhaseInv, Moves, Home, Choice
    <2> QED
      BY <2>1, <2>2
  <1>12. CASE \/ GreeterDies \/ MarkDead \/ Terminated \/ UNCHANGED vars
              \/ \E cmd \in Commands : GreeterWrites(cmd)
    BY <1>12 DEF GreeterDies, MarkDead, Terminated, GreeterWrites, vars, pointers, objects,
                 greeting, Moves, Phase, Home, Settling
  <1> QED
    BY <1>1, <1>2, <1>3, <1>4, <1>5, <1>6, <1>7, <1>8, <1>9, <1>10, <1>11, <1>12
       DEF Next, ThreadStep, Loop, Call

\* A client is moved at most once, in one step, only while it has a greeter, and stays
\* where it is until then: the thread implements ClientLife.
THEOREM ClientIsServed == Spec => ImplementsClient
  <1>1. Init => HomeInv
    BY DEF Init, HomeInv, Live
  <1>2. Init => Client!ClientInit
    BY DEF Init, Client!ClientInit, Settling
  <1>3. Moves => [Client!ClientNext]_(Client!clientVars)
    BY DEF Moves, Phase, Home, Client!ClientNext, Client!clientVars, Client!Settle,
           Client!End, Client!Break, Client!Arrive, Client!Move
  <1> QED
    BY <1>1, <1>2, <1>3, HomeStep, ServedPhase, LifeStep, TunnelCorrect, PTL
       DEF Spec, ImplementsClient, Client!ClientSpec
=============================================================================
