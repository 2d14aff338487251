-------------------------- MODULE ConnectionSwitch -------------------------
(***************************************************************************)
(* One client thread (VncTunnel::start) with its connections to Xvnc       *)
(* servers and its greeter: how the client is moved from the session the   *)
(* greeter is shown in to the session the user picks.                      *)
(*                                                                         *)
(* m_currentConnection is what the client sees, m_potentialConnection what *)
(* the greeter asked for and what is still being initialized.  The thread  *)
(* waits in ReadSelector::select for the client, the current connection    *)
(* and the greeter; it runs the handlers of those that are ready one after *)
(* the other, unless a handler cancels the rest.                           *)
(*                                                                         *)
(* One action is one call made by the thread, up to the next one that may  *)
(* throw.  What a call reads from the client, from an Xvnc or from a new   *)
(* process is external: it succeeds, throws a ConnectionException, or      *)
(* throws anything else.  The greeter program writes commands at any time, *)
(* and answers what it was asked some time later; it may die.              *)
(*                                                                         *)
(* Bounds: MaxConns calls of Xvnc::connect succeed; the greeter writes     *)
(* only while fewer than MaxCommands commands are on their way.            *)
(***************************************************************************)
EXTENDS Naturals, FiniteSets, Sequences

CONSTANTS Sessions,     \* the Xvncs there are or may be started
          Null,         \* a null pointer, an empty std::function
          MaxConns,     \* bound on successful connections
          MaxCommands   \* bound on commands the thread has not yet handled

Conns == 1 .. MaxConns
Kinds == {"password", "credentials"}
Commands == {<<"NEW">>} \cup ({"OPEN"} \X Sessions) \cup ({"ANSWER"} \X Kinds)

ASSUME SwitchAssumption ==
    /\ MaxConns \in Nat
    /\ MaxCommands \in Nat
    /\ Null \notin Conns
    /\ Null \notin Sessions

VARIABLES
    pc,           \* the call the thread makes next
    current,      \* m_currentConnection
    potential,    \* m_potentialConnection; it may point to a deleted object
    state,        \* what has become of an XvncConnection
    session,      \* XvncConnection::m_xvnc
    connections,  \* Xvnc::m_connectionCount, as far as this client counts
    target,       \* the session of switchToConnection
    conn,         \* the connection being initialized: `this`, faultyConnection
    greeter,      \* m_greeterConnection # nullptr
    dead,         \* GreeterConnection::m_dead
    handler,      \* m_passwordHandler, m_credentialsHandler: whose they are
    program,      \* the greeter program
    questions,    \* requests the program has not yet answered
    pipe,         \* the program's output in the pipe
    buffered,     \* what m_in has read ahead of the commands handled
    ready         \* descriptors of this select() whose handlers have yet to run

pointers == <<current, potential, conn>>
objects  == <<state, session, connections>>
greeting == <<greeter, dead, handler>>
outside  == <<program, questions, pipe>>
vars == <<pc, current, potential, conn, state, session, connections, target,
          greeter, dead, handler, program, questions, pipe, buffered, ready>>

PCs == {"start", "connect", "first", "welcome", "update", "sessions", "select",
        "dispatch", "forward", "create", "open", "switch", "initialize",
        "authenticate", "complete", "refused", "close", "done", "null", "undefined"}
-----------------------------------------------------------------------------
(* Helpers *)

\* The descriptors a round of select() waits for; the server's is known by the
\* connection its handler was registered for.
ClientFd == <<"client">>
GreeterFd == <<"greeter">>
ServerFd(c) == <<"server", c>>

Live(c) == state[c] \in {"handshake", "asking", "open"}

\* operator new finds memory for the next connection.
Fresh(c) == state[c] = "unused" /\ \A d \in 1 .. c - 1 : state[d] # "unused"

\* select() finds the greeter's descriptor readable: data, or end of file.
Readable == greeter /\ (pipe # <<>> \/ program = "dead")

\* The states and counts once the connections in D are deleted: ~XvncConnection
\* calls Xvnc::disconnect.
Deleted(D) == [c \in Conns |-> IF c \in D THEN "deleted" ELSE state[c]]
Uncounted(D) ==
    [s \in Sessions |-> connections[s] - Cardinality({c \in D : session[c] = s})]

\* An exception other than those the loop of start() knows, and end of file.
Throw == pc' = "close" /\ ready' = {}
-----------------------------------------------------------------------------
Init ==
    /\ pc = "start"
    /\ current = Null /\ potential = Null /\ conn = Null /\ target = Null
    /\ state = [c \in Conns |-> "unused"]
    /\ session = [c \in Conns |-> Null]
    /\ connections = [s \in Sessions |-> 0]
    /\ greeter = FALSE /\ dead = FALSE
    /\ handler = [k \in Kinds |-> Null]
    /\ program = "none"
    /\ questions = [k \in Kinds |-> 0]
    /\ pipe = <<>> /\ buffered = <<>>
    /\ ready = {}

\* createSession and, if there is something to choose from, createGreeter;
\* either may throw.
Start ==
    /\ pc = "start"
    /\ \/ /\ \E s \in Sessions : target' = s
          /\ greeter' \in BOOLEAN
          /\ program' = IF greeter' THEN "running" ELSE "none"
          /\ pc' = "connect"
          /\ UNCHANGED ready
       \/ /\ Throw
          /\ UNCHANGED <<target, greeter, program>>
    /\ UNCHANGED <<pointers, objects, dead, handler, questions, pipe, buffered>>

\* XvncConnection's constructor, which calls Xvnc::connect.
Construct(c, s) ==
    /\ Fresh(c)
    /\ session' = [session EXCEPT ![c] = s]

Connect ==
    /\ pc = "connect"
    /\ \/ \E c \in Conns :
            /\ Construct(c, target)
            /\ state' = [state EXCEPT ![c] = "handshake"]
            /\ connections' = [connections EXCEPT ![target] = @ + 1]
            /\ current' = c
            /\ pc' = "first"
            /\ UNCHANGED ready
       \/ Throw /\ UNCHANGED <<objects, current>>
    /\ UNCHANGED <<potential, conn, target, greeting, outside, buffered>>

\* The first connection's initialize(), which only knows security type None.
InitializeFirst ==
    /\ pc = "first"
    /\ \/ /\ state' = [state EXCEPT ![current] = "open"]
          /\ pc' = "welcome"
          /\ UNCHANGED ready
       \/ Throw /\ UNCHANGED state
    /\ UNCHANGED <<pointers, session, connections, target, greeting, outside, buffered>>

\* clientInitalize: the handshake with the client.
Welcome ==
    /\ pc = "welcome"
    /\ \/ pc' = "update" /\ UNCHANGED ready
       \/ Throw
    /\ UNCHANGED <<pointers, objects, target, greeting, outside, buffered>>

\* Fault: update() does not look at m_dead.
UpdateBlindly ==
    /\ pc = "update"
    /\ pc' = "select"
    /\ UNCHANGED <<pointers, objects, target, greeting, outside, buffered, ready>>

\* The head of the loop: GreeterConnection::update throws if the greeter is dead,
\* and sends the sessions if their list has changed.
Update ==
    /\ pc = "update"
    /\ \/ ~greeter /\ pc' = "select" /\ UNCHANGED ready
       \/ greeter /\ ~dead /\ pc' \in {"sessions", "select"} /\ UNCHANGED ready
       \/ greeter /\ dead /\ Throw
    /\ UNCHANGED <<pointers, objects, target, greeting, outside, buffered>>

\* sendSessions needs XvncManager's lock, and room in the greeter's pipe.
SendSessions ==
    /\ pc = "sessions"
    /\ pc' = "select"
    /\ UNCHANGED <<pointers, objects, target, greeting, outside, buffered, ready>>

\* select() returns: some of the client, the current connection and the greeter
\* are ready.
Select ==
    /\ pc = "select"
    /\ \E S \in SUBSET {ClientFd, ServerFd(current)} :
         ready' = S \cup (IF Readable THEN {GreeterFd} ELSE {})
    /\ ready' # {}
    /\ pc' = "dispatch"
    /\ UNCHANGED <<pointers, objects, target, greeting, outside, buffered>>

\* All handlers have run.
Return ==
    /\ pc = "dispatch"
    /\ ready = {}
    /\ pc' = "update"
    /\ UNCHANGED <<pointers, objects, target, greeting, outside, buffered, ready>>

\* clientReceive or serverReceive is called ...
Forward(f) ==
    /\ pc = "dispatch"
    /\ f \in ready \ {GreeterFd}
    /\ ready' = ready \ {f}
    /\ pc' = "forward"
    /\ UNCHANGED <<pointers, objects, target, greeting, outside, buffered>>

\* ... and has forwarded a whole message, or fails.
Forwarded ==
    /\ pc = "forward"
    /\ \/ pc' = "dispatch" /\ UNCHANGED ready
       \/ Throw
    /\ UNCHANGED <<pointers, objects, target, greeting, outside, buffered>>
-----------------------------------------------------------------------------
(* GreeterConnection::receive *)

\* The word m_in >> cmd yields: m_in reads all there is when it has nothing left.
Input == IF buffered = <<>> THEN pipe ELSE buffered

Receive(cmd) ==
    /\ pc = "dispatch"
    /\ GreeterFd \in ready
    /\ Input # <<>>
    /\ cmd = Head(Input)
    /\ buffered' = Tail(Input)
    /\ pipe' = IF buffered = <<>> THEN <<>> ELSE pipe

\* End of file: the empty word is no command.
ReceiveNothing ==
    /\ pc = "dispatch"
    /\ GreeterFd \in ready
    /\ Input = <<>>
    /\ ready' = ready \ {GreeterFd}
    /\ UNCHANGED <<pc, pointers, objects, target, greeting, outside, buffered>>

\* NEW and OPEN call the tunnel's handlers.
ReceiveNew ==
    /\ Receive(<<"NEW">>)
    /\ pc' = "create"
    /\ UNCHANGED <<pointers, objects, target, greeting, program, questions, ready>>

ReceiveOpen(s) ==
    /\ Receive(<<"OPEN", s>>)
    /\ target' = s
    /\ pc' = "open"
    /\ UNCHANGED <<pointers, objects, greeting, program, questions, ready>>

\* newSessionHandler: Xvnc starts under a session of its own, or does not.
NewSession ==
    /\ pc = "create"
    /\ \/ /\ \E s \in Sessions : connections[s] = 0 /\ target' = s
          /\ pc' = "switch"
          /\ UNCHANGED ready
       \/ Throw /\ UNCHANGED target
    /\ UNCHANGED <<pointers, objects, greeting, outside, buffered>>

\* openSessionHandler: getSession returns the session, or a null pointer when it
\* has left the list, which XvncConnection's constructor dereferences.
OpenSession ==
    /\ pc = "open"
    /\ pc' \in {"switch", "null"}
    /\ UNCHANGED <<pointers, objects, target, greeting, outside, buffered, ready>>

\* PASSWORD and CREDENTIALS: the handler that is registered continues the
\* initialization of its connection.  An empty handler throws; that of a
\* deleted connection is undefined.
ReceiveAnswer(k) ==
    /\ Receive(<<"ANSWER", k>>)
    /\ conn' = handler[k]
    /\ IF conn' = Null THEN Throw
       ELSE /\ pc' = IF state[conn'] = "deleted" THEN "undefined" ELSE "authenticate"
            /\ UNCHANGED ready
    /\ UNCHANGED <<current, potential, objects, target, greeting, program, questions>>
-----------------------------------------------------------------------------
(* Switching *)

\* Fault: the connection that was asked for before is not deleted.
SwitchKeepsPotential ==
    /\ pc = "switch"
    /\ \/ \E c \in Conns :
            /\ Construct(c, target)
            /\ state' = [state EXCEPT ![c] = "handshake"]
            /\ connections' = [connections EXCEPT ![target] = @ + 1]
            /\ potential' = c
            /\ conn' = c
            /\ pc' = "initialize"
            /\ ready' = {}
       \/ Throw /\ UNCHANGED <<objects, potential, conn>>
    /\ UNCHANGED <<current, target, greeting, outside, buffered>>

\* switchToConnection up to the call of initialize: the potential connection is
\* deleted and another constructed.  When the constructor throws, the member
\* still points to the deleted one.
SwitchToConnection ==
    /\ pc = "switch"
    /\ LET gone == {potential} \ {Null}
       IN  \/ \E c \in Conns :
                /\ Construct(c, target)
                /\ state' = [Deleted(gone) EXCEPT ![c] = "handshake"]
                /\ connections' = [Uncounted(gone) EXCEPT ![target] = @ + 1]
                /\ potential' = c
                /\ conn' = c
                /\ pc' = "initialize"
                /\ ready' = {}
           \/ /\ Throw
              /\ state' = Deleted(gone) /\ connections' = Uncounted(gone)
              /\ UNCHANGED <<session, potential, conn>>
    /\ UNCHANGED <<current, target, greeting, outside, buffered>>

\* XvncConnection::initialize with handlers: no more to ask, a question for the
\* user, an Xvnc that refuses, or an end of file or an error.
Initialize ==
    /\ pc = "initialize"
    /\ \/ /\ pc' \in {"complete", "refused"}
          /\ UNCHANGED <<state, handler, questions, ready>>
       \/ \E k \in Kinds :
            /\ state' = [state EXCEPT ![conn] = "asking"]
            /\ handler' = [handler EXCEPT ![k] = conn]
            /\ questions' = [questions EXCEPT ![k] = @ + 1]
            /\ pc' = "update"
            /\ UNCHANGED ready
       \/ Throw /\ UNCHANGED <<state, handler, questions>>
    /\ UNCHANGED <<pointers, session, connections, target, greeter, dead, program, pipe,
                   buffered>>

\* handleVncAuthSecurityWithPassword, handleVeNCryptSecurityWithCredentials.
Authenticate ==
    /\ pc = "authenticate"
    /\ \/ pc' \in {"complete", "refused"} /\ UNCHANGED ready
       \/ Throw
    /\ UNCHANGED <<pointers, objects, target, greeting, outside, buffered>>

\* Fault: the greeter is forgotten and not released.
ForgetGreeter ==
    /\ greeter' = FALSE
    /\ dead' = FALSE
    /\ handler' = [k \in Kinds |-> Null]
    /\ UNCHANGED <<program, questions, pipe, buffered>>

\* Fault: the greeter stays.
KeepGreeter == UNCHANGED <<greeting, outside, buffered>>

\* releaseGreeter: the program is told to end, unless it is known to be dead.
ReleaseGreeter ==
    /\ greeter' = FALSE
    /\ dead' = FALSE
    /\ handler' = [k \in Kinds |-> Null]
    /\ program' = "none"
    /\ questions' = [k \in Kinds |-> 0]
    /\ pipe' = <<>> /\ buffered' = <<>>

\* Fault: the handlers of the other ready descriptors are not canceled.
CompleteWithoutCancel ==
    /\ pc = "complete"
    /\ ReleaseGreeter
    /\ state' = [Deleted({current}) EXCEPT ![potential] = "open"]
    /\ connections' = Uncounted({current})
    /\ current' = potential
    /\ potential' = Null
    /\ ready' = ready \ {GreeterFd}
    /\ pc' = "dispatch"
    /\ UNCHANGED <<session, conn, target>>

\* completeInitialization and connectionSwitched: the greeter is released, the
\* current connection deleted and replaced.  Writing to the new one may fail.
Complete ==
    /\ pc = "complete"
    /\ ReleaseGreeter
    /\ state' = [Deleted({current}) EXCEPT ![potential] = "open"]
    /\ connections' = Uncounted({current})
    /\ current' = potential
    /\ potential' = Null
    /\ ready' = {}
    /\ pc' \in {"update", "close"}
    /\ UNCHANGED <<session, conn, target>>

\* Fault: the connection is deleted and the member still points to it.
RefusedKeepsPointer ==
    /\ pc = "refused"
    /\ ready' = {}
    /\ state' = Deleted({potential})
    /\ connections' = Uncounted({potential})
    /\ pc' = "update"
    /\ UNCHANGED <<pointers, session, target, greeting, outside, buffered>>

\* start() catches the ConnectionException, shows the error in the greeter, and
\* deletes the potential connection if it is the faulty one; the client stays
\* where it is.  A fault of the current connection would be thrown on.
Refused ==
    /\ pc = "refused"
    /\ ready' = {}
    /\ LET gone == {potential} \cap ({conn} \ {current})
       IN  /\ state' = Deleted(gone)
           /\ connections' = Uncounted(gone)
           /\ potential' = IF gone = {} THEN potential ELSE Null
    /\ pc' = IF conn = current THEN "close" ELSE "update"
    /\ UNCHANGED <<current, conn, session, target, greeting, outside, buffered>>

\* ~VncTunnel.  Deleting the potential connection a second time is undefined.
Close ==
    /\ pc = "close"
    /\ LET gone == {current, potential} \ {Null}
       IN  IF \A c \in gone : Live(c)
           THEN /\ pc' = "done"
                /\ state' = Deleted(gone) /\ connections' = Uncounted(gone)
                /\ ReleaseGreeter
                /\ current' = Null /\ potential' = Null
           ELSE /\ pc' = "undefined"
                /\ UNCHANGED <<current, potential, state, connections, greeting,
                               outside, buffered>>
    /\ UNCHANGED <<conn, session, target, ready>>
-----------------------------------------------------------------------------
(* The greeter program and the main thread *)

GreeterWrites(cmd) ==
    /\ program = "running"
    /\ Len(pipe) + Len(buffered) < MaxCommands
    /\ pipe' = Append(pipe, cmd)
    /\ \/ cmd[1] \in {"NEW", "OPEN"} /\ UNCHANGED questions
       \/ /\ cmd[1] = "ANSWER"
          /\ questions[cmd[2]] > 0
          /\ questions' = [questions EXCEPT ![cmd[2]] = @ - 1]
    /\ UNCHANGED <<pc, pointers, objects, target, greeting, program, buffered, ready>>

GreeterDies ==
    /\ program = "running"
    /\ program' = "dead"
    /\ UNCHANGED <<pc, pointers, objects, target, greeting, questions, pipe, buffered,
                   ready>>

\* GreeterManager::childDied, on the main thread.
MarkDead ==
    /\ program = "dead"
    /\ greeter
    /\ ~dead
    /\ dead' = TRUE
    /\ UNCHANGED <<pc, pointers, objects, target, greeter, handler, outside, buffered,
                   ready>>

Terminated == pc \in {"done", "null", "undefined"} /\ UNCHANGED vars

\* What the thread does on its way round the loop, between the calls that it makes.
Loop ==
    \/ Update \/ Return \/ ReceiveNothing \/ ReceiveNew
    \/ \E f \in ready : Forward(f)
    \/ \E s \in Sessions : ReceiveOpen(s)
    \/ \E k \in Kinds : ReceiveAnswer(k)

\* The calls.  Each may wait: for the client, an Xvnc or the greeter, none of which
\* has a time limit, or for a lock that is held by a thread that does.
Call ==
    \/ Start \/ Connect \/ InitializeFirst \/ Welcome \/ SendSessions \/ Forwarded
    \/ NewSession \/ OpenSession \/ SwitchToConnection \/ Initialize \/ Authenticate
    \/ Complete \/ Refused \/ Close

ThreadStep == Loop \/ Call

Next ==
    \/ ThreadStep \/ Select
    \/ \E cmd \in Commands : GreeterWrites(cmd)
    \/ GreeterDies \/ MarkDead
    \/ Terminated

Spec == Init /\ [][Next]_vars

\* The scheduler runs the thread, and select() returns when the greeter is readable.
\* No call is taken to end: nothing is assumed of the client, the servers and the
\* greeter, nor of the main thread.  (That another child may hold a dead greeter's
\* pipe open, so that select() does not find its end, is GreeterLifecycle's part.)
FairSpec ==
    /\ Spec
    /\ WF_vars(Loop)
    /\ WF_vars(Readable /\ Select)
-----------------------------------------------------------------------------
(* Properties *)

\* The type invariant.
TypeOK ==
    /\ pc \in PCs
    /\ current \in Conns \cup {Null} /\ potential \in Conns \cup {Null}
    /\ conn \in Conns \cup {Null} /\ target \in Sessions \cup {Null}
    /\ state \in [Conns -> {"unused", "handshake", "asking", "open", "deleted"}]
    /\ session \in [Conns -> Sessions \cup {Null}]
    /\ connections \in [Sessions -> Nat]
    /\ greeter \in BOOLEAN /\ dead \in BOOLEAN
    /\ handler \in [Kinds -> Conns \cup {Null}]
    /\ program \in {"none", "running", "dead"}
    /\ questions \in [Kinds -> Nat]
    /\ pipe \in Seq(Commands) /\ buffered \in Seq(Commands)
    /\ ready \subseteq {ClientFd, GreeterFd} \cup {ServerFd(c) : c \in Conns}

\* The tunnel owns every connection there is, and every Xvnc counts exactly the
\* connections that are open to it (Xvnc::connect, Xvnc::disconnect): no path
\* through switchToConnection, connectionSwitched and the catch in start()
\* loses one or counts one twice.
ConnectionsAreOwned ==
    /\ \A c \in Conns : Live(c) => c \in {current, potential}
    /\ \A s \in Sessions :
         connections[s] = Cardinality({c \in Conns : Live(c) /\ session[c] = s})

\* Handlers run for the connections they were registered for: cancel() drops
\* those that were ready in the same select() (ReadSelector.h:75).  And the
\* connection that completes or is refused is the potential one, never one that
\* was given up before.
DispatchIsCurrent ==
    /\ pc \in {"update", "sessions", "select", "dispatch", "forward"} =>
         current # Null /\ state[current] = "open"
    /\ \A c \in Conns : ServerFd(c) \in ready => c = current /\ Live(c)
    /\ GreeterFd \in ready => greeter
    /\ pc \in {"initialize", "complete", "refused"} =>
         conn = potential /\ potential \notin {Null, current} /\ Live(potential)

\* A greeter program that runs has a tunnel that can hear it, show it errors and
\* will release it: none is left behind by a switch or by the end of the client.
\* And there is a potential connection only while there is a greeter, which the
\* assertion in connectionSwitched relies on.
GreeterIsOwned ==
    /\ program = "running" => greeter
    /\ potential # Null => greeter

\* The assertion in Xvnc::disconnect (Xvnc.cpp:162): when ~VncTunnel deletes its
\* connections, each still counts in its session.
DisconnectIsCounted ==
    pc = "close" => \A c \in {current, potential} \ {Null} : connections[session[c]] > 0

\* Where the thread is while it makes one of the calls.
Calls == {"connect", "first", "welcome", "sessions", "forward", "create", "open",
          "switch", "initialize", "authenticate", "complete", "refused", "close"}

\* A greeter that the tunnel is told to be dead (childDied sets m_dead) takes its
\* client with it, unless the client is switched first: update() throws, and
\* select() cannot keep the thread from it.  But there is no time limit in any call
\* the thread makes (VncTunnel.cpp:79-84): one that never ends, since the client or
\* an Xvnc is silent, keeps the client.
DeadGreeterEndsClient ==
    \/ dead ~> ~greeter \/ pc \in {"done", "null", "undefined"}
    \/ \E call \in Calls : <>[](pc = call)

\* The switch implements the life of a client.
Settling ==
    \/ pc \in {"start", "connect", "first", "welcome"}
    \/ pc = "close" /\ current = Null

Client == INSTANCE ClientLife WITH
    Nowhere <- Null,
    phase <- CASE pc = "done" -> "ended"
               [] pc \in {"null", "undefined"} -> "broken"
               [] Settling -> "starting"
               [] OTHER -> IF greeter THEN "choosing" ELSE "using",
    home <- IF current = Null THEN Null ELSE session[current]

ImplementsClient == Client!ClientSpec
=============================================================================
