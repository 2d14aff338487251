----------------------------- MODULE ServerMain -----------------------------
(***************************************************************************)
(* The main thread from its start to its end: Server::run with its signals *)
(* and the two kinds of connections it accepts, and the threads of the     *)
(* controllers (ControllerConnection), which find the session they run in  *)
(* by its display number and have to prove it by a key that comes back     *)
(* through the session's desktop name.                                     *)
(*                                                                         *)
(* Clients' threads appear as far as they can keep these waiting: by the   *)
(* lock of XvncManager while an Xvnc they start has not reported its       *)
(* display number, by the lock of GreeterManager while they start a        *)
(* greeter, and by the lock of a session, which they may never give back.  *)
(*                                                                         *)
(* Bounds: MaxSessions sessions, one client per address, one greeter for   *)
(* those of Greeted, each signal of Signals sent once; a controller        *)
(* program does nothing more when the thread that serves it has ended.     *)
(***************************************************************************)
EXTENDS Naturals, FiniteSets

CONSTANTS Controllers,    \* controller programs, each with a key of its own
          MaxSessions,    \* the sessions are numbered 1..MaxSessions, as their ids are
          Displays,       \* X display numbers
          Addresses,      \* the configured addresses to listen on
          Greeted,        \* those whose client is shown a greeter, if it likes
          Signals,        \* what is sent to the server, besides SIGCHLD
          approvalTries

ASSUME ServerMainAssumption ==
    /\ MaxSessions \in Nat
    /\ approvalTries \in Nat
    /\ 0 \notin Displays
    /\ Greeted \subseteq Addresses
    /\ Signals \subseteq {"TERM", "PIPE"}

Sessions == 1..MaxSessions

VARIABLES
    main,       \* where the main thread is
    listening,  \* the addresses of m_listenfds
    running,    \* m_run
    sent,       \* signals sent to the server so far, each at most once: a bound
    pending,    \* signals that are waiting in m_sigfd; equal ones are one
    ready,      \* descriptors whose handlers this round of select() is still to call
    reaped,     \* the session whose pid waitpid has returned, 0 is none
    mgrLock,    \* XvncManager::m_lock: the session whose creation holds it, 0 is none
    clients,    \* the addresses where a client has been accepted
    greeter,    \* the greeter of each of them, "starting" with GreeterManager::m_lock
    xvnc,       \* the process of each session
    display,    \* its display number, 0 is none
    listed,     \* XvncManager::m_xvncs
    approved,   \* Xvnc::m_approvedControllerKeys
    pc,         \* where each controller's thread is
    home,       \* the session that the controller program runs in, 0 is none
    open,       \* whether it has not hung up
    named,      \* whether the Xvnc of that session has been given its key as a name
    session,    \* ControllerConnection::m_xvnc, 0 is none
    key,        \* whether the key has been read
    tries

vars == <<main, listening, running, sent, pending, ready, reaped, mgrLock, clients,
          greeter, xvnc, display, listed, approved, pc, home, open, named, session, key,
          tries>>

mainVars == <<main, listening, running, ready, reaped>>
signalVars == <<sent, pending>>
clientVars == <<clients, greeter, mgrLock>>
serverVars == <<mainVars, signalVars, clientVars>>
sessionVars == <<xvnc, display, listed, approved>>
programVars == <<home, open, named>>
threadVars == <<pc, session, key, tries>>

-----------------------------------------------------------------------------

Init ==
    /\ main = "parse"
    /\ listening = {} /\ running = FALSE
    /\ sent = {} /\ pending = {} /\ ready = {} /\ reaped = 0
    /\ mgrLock = 0
    /\ clients = {}
    /\ greeter = [a \in Greeted |-> "none"]
    /\ xvnc = [x \in Sessions |-> "none"]
    /\ display = [x \in Sessions |-> 0]
    /\ listed = {}
    /\ approved = [x \in Sessions |-> {}]
    /\ pc = [c \in Controllers |-> "none"]
    /\ home = [c \in Controllers |-> 0]
    /\ open = [c \in Controllers |-> FALSE]
    /\ named = [c \in Controllers |-> FALSE]
    /\ session = [c \in Controllers |-> 0]
    /\ key = [c \in Controllers |-> FALSE]
    /\ tries = [c \in Controllers |-> 0]

-----------------------------------------------------------------------------
(* The start; each of its steps may throw, which ends main().              *)

Goes(from, to) ==
    /\ main = from
    /\ main' \in {to, "exit"}
    /\ UNCHANGED <<running, ready, reaped, clientVars, sessionVars, programVars, threadVars>>

\* The options, "help" among them, and the files that check() looks for.
Parse == Goes("parse", "managers") /\ UNCHANGED <<listening, signalVars>>

\* The constructor of ControllerManager makes its socket.
ConstructManagers == Goes("managers", "signals") /\ UNCHANGED <<listening, signalVars>>

PrepareSignals == Goes("signals", "listen") /\ UNCHANGED <<listening, signalVars>>

\* Addresses that cannot be bound are skipped, unless they are all there are.
Listen ==
    /\ Goes("listen", "run")
    /\ listening' \in SUBSET Addresses
    /\ main' = "run" <=> listening' # {}
    /\ UNCHANGED signalVars

Run ==
    /\ main = "run"
    /\ main' = "select"
    /\ running' = TRUE
    /\ UNCHANGED <<listening, signalVars, ready, reaped, clientVars, sessionVars, programVars,
                   threadVars>>

-----------------------------------------------------------------------------
(* Server::run.                                                            *)

Queued == {c \in Controllers : pc[c] = "queued"}

Readable ==
    (IF pending # {} THEN {"signal"} ELSE {})
        \union (IF Queued # {} THEN {"control"} ELSE {})
        \union (listening \ clients)

\* Clients may connect or not, signals and controllers are there to be read.
Select ==
    /\ main = "select"
    /\ Readable # {}
    /\ \E absent \in SUBSET (listening \ clients) : ready' = Readable \ absent
    /\ ready' # {}
    /\ main' = "round"
    /\ UNCHANGED <<listening, running, signalVars, reaped, clientVars, sessionVars,
                   programVars, threadVars>>

\* The handlers of the round are over; only then is m_run looked at.
EndRound ==
    /\ main = "round" /\ ready = {}
    /\ main' = IF running THEN "select" ELSE "exit"
    /\ UNCHANGED <<listening, running, signalVars, ready, reaped, clientVars, sessionVars,
                   programVars, threadVars>>

\* Server::accept, which throws when accept4 fails, whatever the reason.
Accept(address) ==
    /\ main = "round" /\ address \in ready \intersect Addresses
    /\ ready' = ready \ {address}
    /\ \/ clients' = clients \union {address} /\ UNCHANGED main
       \/ main' = "exit" /\ UNCHANGED clients
    /\ UNCHANGED <<listening, running, signalVars, reaped, greeter, mgrLock, sessionVars,
                   programVars, threadVars>>

\* ControllerManager::accept.
AcceptController ==
    /\ main = "round" /\ "control" \in ready
    /\ ready' = ready \ {"control"}
    /\ \/ \E c \in Queued : pc' = [pc EXCEPT ![c] = "hello"]
          /\ UNCHANGED main
       \/ main' = "exit" /\ UNCHANGED pc
    /\ UNCHANGED <<listening, running, signalVars, reaped, clientVars, sessionVars,
                   programVars, session, key, tries>>

\* SIGPIPE is ignored.
Handle(signal) ==
    /\ main' = IF signal = "CHLD" THEN "reap" ELSE main
    /\ running' = (running /\ signal # "TERM")

\* Server::handleSignal reads one signal.
HandleSignal ==
    /\ main = "round" /\ "signal" \in ready
    /\ ready' = ready \ {"signal"}
    /\ \E signal \in pending :
          /\ pending' = pending \ {signal}
          /\ Handle(signal)
    /\ UNCHANGED <<listening, sent, reaped, clientVars, sessionVars, programVars, threadVars>>

Zombies == {x \in Sessions : xvnc[x] = "zombie"}
DeadGreeters == {a \in Greeted : greeter[a] = "zombie"}

\* waitpid until no child is left; reaped is 0 for the pid of a greeter.
Reap ==
    /\ main = "reap"
    /\ \/ /\ Zombies = {} /\ DeadGreeters = {}
          /\ main' = "round"
          /\ UNCHANGED <<reaped, xvnc, greeter>>
       \/ \E x \in Zombies :
             /\ reaped' = x
             /\ xvnc' = [xvnc EXCEPT ![x] = "reaped"]
             /\ main' = "childDied"
             /\ UNCHANGED greeter
       \/ \E a \in DeadGreeters :
             /\ greeter' = [greeter EXCEPT ![a] = "reaped"]
             /\ main' = "childDied"
             /\ UNCHANGED <<reaped, xvnc>>
    /\ UNCHANGED <<listening, running, signalVars, ready, clients, mgrLock, display, listed,
                   approved, programVars, threadVars>>

\* XvncManager::childDied needs the lock, whoever the child was.
ChildDied ==
    /\ main = "childDied"
    /\ mgrLock = 0
    /\ listed' = listed \ {reaped}
    /\ reaped' = 0
    /\ main' = "greeters"
    /\ UNCHANGED <<listening, running, signalVars, ready, clientVars, xvnc, display, approved,
                   programVars, threadVars>>


ReapOn == "reap"

\* GreeterManager::childDied, which looks for the pid under its own lock.
GreeterDied ==
    /\ main = "greeters"
    /\ \A a \in Greeted : greeter[a] # "starting"
    /\ main' = ReapOn
    /\ UNCHANGED <<listening, running, signalVars, ready, reaped, clientVars, sessionVars,
                   programVars, threadVars>>

\* main() returns: the managers are destroyed while other threads go on, until exit()
\* ends them too.
Exit ==
    /\ \/ main = "exit" /\ main' = "destroyed" /\ UNCHANGED pc
       \/ main = "destroyed" /\ main' = "ended"
          /\ pc' = [c \in Controllers |-> "ended"]
    /\ UNCHANGED <<listening, running, signalVars, ready, reaped, clientVars, sessionVars,
                   programVars, session, key, tries>>

Main ==
    \/ Parse \/ ConstructManagers \/ PrepareSignals \/ Listen \/ Run
    \/ Select \/ EndRound \/ (\E address \in Addresses : Accept(address))
    \/ AcceptController \/ HandleSignal \/ Reap \/ ChildDied \/ GreeterDied \/ Exit

-----------------------------------------------------------------------------
(* The clients and their sessions, as far as the rest needs them.          *)

Alive == main \notin {"parse", "managers", "signals", "listen", "ended"}

\* The managers are there.
Managed == Alive /\ main # "destroyed"

\* A client's thread takes the lock and starts an Xvnc, which takes a display that no
\* Xvnc has now (a failure before the fork leaves nothing) ...
CreateSession(x) ==
    /\ Managed /\ clients # {}
    /\ mgrLock = 0
    /\ xvnc[x] = "none" /\ \A y \in 1..(x - 1) : xvnc[y] # "none"
    /\ mgrLock' = x
    /\ \E d \in Displays \ {display[y] : y \in {y \in Sessions : xvnc[y] = "running"}} :
          display' = [display EXCEPT ![x] = d]
    /\ xvnc' = [xvnc EXCEPT ![x] = "running"]
    /\ UNCHANGED <<mainVars, signalVars, clients, greeter, listed, approved, programVars,
                   threadVars>>

\* ... and may report it, which the thread waits for, and may die, then or before; ...
Created(x) ==
    /\ Managed
    /\ mgrLock = x
    /\ mgrLock' = 0
    /\ listed' = listed \union {x}
    /\ UNCHANGED <<mainVars, signalVars, clients, greeter, xvnc, display, approved,
                   programVars, threadVars>>

\* ... or the pipe ends, or making the xauth file fails: the Xvnc is not listed.
CreationFails(x) ==
    /\ Managed
    /\ mgrLock = x
    /\ mgrLock' = 0
    /\ UNCHANGED <<mainVars, signalVars, clients, greeter, sessionVars, programVars,
                   threadVars>>

\* createGreeter takes the manager's lock, and keeps it until the greeter is forked.
CreateGreeter(a) ==
    /\ Managed /\ a \in clients
    /\ greeter[a] = "none" /\ \A b \in Greeted : greeter[b] # "starting"
    /\ greeter' = [greeter EXCEPT ![a] = "starting"]
    /\ UNCHANGED <<mainVars, signalVars, clients, mgrLock, sessionVars, programVars, threadVars>>

GreeterCreated(a) ==
    /\ Alive
    /\ greeter[a] = "starting"
    /\ greeter' = [greeter EXCEPT ![a] = "running"]
    /\ UNCHANGED <<mainVars, signalVars, clients, mgrLock, sessionVars, programVars, threadVars>>

\* The greeter ends, by itself or because it is released.
GreeterEnds(a) ==
    /\ Alive
    /\ greeter[a] = "running"
    /\ greeter' = [greeter EXCEPT ![a] = "zombie"]
    /\ pending' = pending \union {"CHLD"}
    /\ UNCHANGED <<mainVars, sent, clients, mgrLock, sessionVars, programVars, threadVars>>

Die(x) ==
    /\ Alive
    /\ xvnc[x] = "running"
    /\ xvnc' = [xvnc EXCEPT ![x] = "zombie"]
    /\ pending' = pending \union {"CHLD"}
    /\ UNCHANGED <<mainVars, sent, clientVars, display, listed, approved, programVars,
                   threadVars>>

Kill ==
    /\ Alive
    /\ \E signal \in Signals \ sent :
          /\ sent' = sent \union {signal}
          /\ pending' = pending \union {signal}
    /\ UNCHANGED <<mainVars, clientVars, sessionVars, programVars, threadVars>>

\* XvncConnection passes the desktop name on; a name with a key is no name.
SetDesktopName(c) ==
    /\ Alive
    /\ named[c]
    /\ approved' = [approved EXCEPT ![home[c]] = @ \union {c}]
    /\ UNCHANGED <<serverVars, xvnc, display, listed, programVars, threadVars>>

-----------------------------------------------------------------------------
(* The controller programs.                                                *)

Connect(c, x) ==
    /\ main \in {"run", "select", "round", "reap", "childDied", "greeters"}
    /\ pc[c] = "none" /\ xvnc[x] = "running"
    /\ home' = [home EXCEPT ![c] = x]
    /\ open' = [open EXCEPT ![c] = TRUE]
    /\ pc' = [pc EXCEPT ![c] = "queued"]
    /\ UNCHANGED <<serverVars, sessionVars, named, session, key, tries>>

\* It gives its Xvnc the key as a desktop name.
Name(c) ==
    /\ main # "ended"
    /\ home[c] # 0 /\ ~named[c] /\ pc[c] # "ended"
    /\ xvnc[home[c]] = "running"
    /\ named' = [named EXCEPT ![c] = TRUE]
    /\ UNCHANGED <<serverVars, sessionVars, home, open, threadVars>>

HangUp(c) ==
    /\ main # "ended"
    /\ open[c] /\ pc[c] # "ended"
    /\ open' = [open EXCEPT ![c] = FALSE]
    /\ UNCHANGED <<serverVars, sessionVars, home, named, threadVars>>

-----------------------------------------------------------------------------
(* ControllerConnection::start.                                            *)

\* getSessionByDisplayNumber: the first listed one.
ByDisplayNumber(d) ==
    {x \in listed : display[x] = d /\ \A y \in listed : display[y] = d => x <= y}

\* The manager is no more: what the call does is undefined.
AttachLate(c) ==
    /\ pc[c] = "hello" /\ main = "destroyed"
    /\ pc' = [pc EXCEPT ![c] = "undefined"]
    /\ UNCHANGED <<serverVars, sessionVars, programVars, session, key, tries>>

\* A number that was never read is any number.
Attach(c) ==
    /\ pc[c] = "hello" /\ main # "destroyed"
    /\ mgrLock = 0
    /\ \E d \in IF open[c] THEN {display[home[c]]} ELSE Displays \union {0} :
          \/ \E x \in ByDisplayNumber(d) :
                /\ session' = [session EXCEPT ![c] = x]
                /\ pc' = [pc EXCEPT ![c] = "key"]
          \/ /\ ByDisplayNumber(d) = {}
             /\ pc' = [pc EXCEPT ![c] = "ended"]
             /\ UNCHANGED session
    /\ UNCHANGED <<serverVars, sessionVars, programVars, key, tries>>

\* What was written before the program hung up may be read or not.
ReadKey(c) ==
    /\ pc[c] = "key"
    /\ \E read \in IF open[c] THEN {TRUE} ELSE BOOLEAN : key' = [key EXCEPT ![c] = read]
    /\ pc' = [pc EXCEPT ![c] = "check"]
    /\ UNCHANGED <<serverVars, sessionVars, programVars, session, tries>>

\* Fault: the keys of all sessions are looked through.
IsKeyKnown(c) == key[c] /\ \E x \in Sessions : c \in approved[x]

IsKeyApproved(c) == key[c] /\ c \in approved[session[c]]

\* Fault: the tries are looked at first.
CheckTriesFirst(c) ==
    /\ pc[c] = "check"
    /\ pc' = [pc EXCEPT ![c] = IF tries[c] < approvalTries /\ IsKeyApproved(c)
                               THEN "serving" ELSE "tries"]
    /\ UNCHANGED <<serverVars, sessionVars, programVars, session, key, tries>>

CheckKey(c) ==
    /\ pc[c] = "check"
    /\ pc' = [pc EXCEPT ![c] = IF IsKeyApproved(c) THEN "serving" ELSE "tries"]
    /\ UNCHANGED <<serverVars, sessionVars, programVars, session, key, tries>>

\* Fault: the tries are not counted.
TryForEver(c) ==
    /\ pc[c] = "tries"
    /\ pc' = [pc EXCEPT ![c] = "check"]
    /\ tries' = [tries EXCEPT ![c] = @ + 1]
    /\ UNCHANGED <<serverVars, sessionVars, programVars, session, key>>

\* It sleeps and tries again, whether or not anyone is at the other end.
TryAgain(c) ==
    /\ pc[c] = "tries"
    /\ IF tries[c] = approvalTries
       THEN pc' = [pc EXCEPT ![c] = "ended"] /\ UNCHANGED tries
       ELSE /\ pc' = [pc EXCEPT ![c] = "check"]
            /\ tries' = [tries EXCEPT ![c] = @ + 1]
    /\ UNCHANGED <<serverVars, sessionVars, programVars, session, key>>

\* The loop of start() ends with the stream.
Disconnect(c) ==
    /\ pc[c] = "serving" /\ ~open[c]
    /\ pc' = [pc EXCEPT ![c] = "ended"]
    /\ UNCHANGED <<serverVars, sessionVars, programVars, session, key, tries>>

Controller(c) ==
    \/ Attach(c) \/ AttachLate(c) \/ ReadKey(c) \/ CheckKey(c) \/ TryAgain(c) \/ Disconnect(c)

-----------------------------------------------------------------------------

Next ==
    \/ Main \/ Kill
    \/ \E x \in Sessions :
          \/ CreateSession(x) \/ Created(x) \/ CreationFails(x) \/ Die(x)
    \/ \E a \in Greeted : CreateGreeter(a) \/ GreeterCreated(a) \/ GreeterEnds(a)
    \/ \E c \in Controllers :
          \/ Controller(c) \/ Name(c) \/ HangUp(c) \/ SetDesktopName(c)
          \/ \E x \in Sessions : Connect(c, x)

Spec == Init /\ [][Next]_vars

\* The main thread runs, and so does a controller's while it waits for no more than its
\* own sleep.  The main thread gets a lock although others take it again and again.
\* Clients, controller programs and Xvncs do what they like: no thread needs to get what
\* it reads from them, or to give back what it locked meanwhile; isKeyApproved may wait
\* for ever.  Starting a greeter waits for nobody.
FairSpec ==
    /\ Spec
    /\ WF_vars(Main) /\ SF_vars(ChildDied) /\ SF_vars(GreeterDied)
    /\ \A c \in Controllers : WF_vars(TryAgain(c))
    /\ \A a \in Greeted : WF_vars(GreeterCreated(a))

-----------------------------------------------------------------------------

\* The variables have their types.
TypeOK ==
    /\ main \in {"parse", "managers", "signals", "listen", "run", "select", "round", "reap",
                 "childDied", "greeters", "exit", "destroyed", "ended"}
    /\ listening \subseteq Addresses /\ running \in BOOLEAN
    /\ sent \subseteq Signals /\ pending \subseteq Signals \union {"CHLD"}
    /\ ready \subseteq Addresses \union {"signal", "control"}
    /\ reaped \in Sessions \union {0} /\ clients \subseteq Addresses
    /\ mgrLock \in Sessions \union {0}
    /\ greeter \in [Greeted -> {"none", "starting", "running", "zombie", "reaped"}]
    /\ xvnc \in [Sessions -> {"none", "running", "zombie", "reaped"}]
    /\ display \in [Sessions -> Displays \union {0}]
    /\ listed \subseteq Sessions
    /\ approved \in [Sessions -> SUBSET Controllers]
    /\ pc \in [Controllers -> {"none", "queued", "hello", "key", "check", "tries", "serving",
                              "ended", "undefined"}]
    /\ home \in [Controllers -> Sessions \union {0}]
    /\ open \in [Controllers -> BOOLEAN] /\ named \in [Controllers -> BOOLEAN]
    /\ session \in [Controllers -> Sessions \union {0}]
    /\ key \in [Controllers -> BOOLEAN]
    /\ tries \in [Controllers -> 0..approvalTries]

\* A controller commands only the session that it runs in, although display numbers
\* lead to dead sessions and a number that was not read leads anywhere.
ControlsOwnSession ==
    \A c \in Controllers : pc[c] = "serving" => session[c] = home[c]

\* A key that is approved before it is looked at, at the last try too, admits its
\* controller, unless the server ends, or isKeyApproved waits for ever for the lock of
\* the session (Xvnc.cpp:344): other threads hold it while they connect to the Xvnc or
\* wait for XvncManager's lock, without a time limit.
ApprovedIsAdmitted ==
    \A c \in Controllers :
        \/ (pc[c] = "check" /\ IsKeyApproved(c)) ~> (pc[c] = "serving" \/ main = "ended")
        \/ <>[](pc[c] = "check")

\* The main thread waits for the lock of a createSession (XvncManager.cpp:95) whose Xvnc
\* neither reports its display number nor lets the pipe end (Xvnc.cpp:276).
Stuck == main = "childDied" /\ mgrLock # 0


=============================================================================
