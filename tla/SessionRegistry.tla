-------------------------- MODULE SessionRegistry --------------------------
(***************************************************************************)
(* The list of Xvnc sessions that all threads of vncmanager share: the     *)
(* class XvncManager, the Xvnc objects it lists, and everything the        *)
(* threads do to them.                                                     *)
(*                                                                         *)
(*  - A client thread (VncTunnel::start) asks whether sessions are         *)
(*    visible, creates sessions, connects to them, changes their desktop   *)
(*    name and, between two calls of select(), sends the greeter program   *)
(*    the list of visible sessions when the list's version has grown.      *)
(*  - A controller thread (ControllerConnection::start) holds one session, *)
(*    marks it visible or invisible and sets its user name.                *)
(*  - The main thread (Server::handleSignal) reaps dead child processes    *)
(*    and takes their sessions off the list.                               *)
(*                                                                         *)
(* XvncManager::m_lock is a recursive mutex, Xvnc::m_lock a plain one.  A  *)
(* critical section that touches nothing outside its lock is one action    *)
(* guarded by the lock being free; one that calls out, forks or reads      *)
(* something another lock protects is split where the other threads can    *)
(* see it.  Sessions are std::shared_ptr<Xvnc>: whoever drops the last     *)
(* reference runs ~Xvnc, which takes the session's lock and then the       *)
(* manager's.                                                              *)
(*                                                                         *)
(* Bounds: MaxSessions calls of createSession get past the id; a change of *)
(* a session is only begun while the version is below MaxVersion.          *)
(***************************************************************************)
EXTENDS Naturals, FiniteSets

CONSTANTS Tunnels,          \* client threads
          Controllers,      \* controller threads
          Main,             \* the main thread
          Nobody,           \* owner of a free mutex
          NoSession,        \* a null std::shared_ptr<Xvnc>
          Names,            \* desktop names and user names
          NoName,           \* the empty string, a session's first names
          MaxSessions,      \* bound on createSession
          MaxVersion,       \* bound on the changes of sessions
          AlwaysShowGreeter \* the option always-show-greeter

Threads == Tunnels \cup Controllers \cup {Main}
Sessions == 0 .. MaxSessions - 1

ASSUME RegistryAssumption ==
    /\ MaxSessions \in Nat
    /\ MaxVersion \in Nat
    /\ AlwaysShowGreeter \in BOOLEAN
    /\ Nobody \notin Threads
    /\ NoSession \notin Nat
    /\ NoName \in Names
    /\ Tunnels \cap Controllers = {}
    /\ Main \notin Tunnels \cup Controllers

VARIABLES
    nextId,       \* XvncManager::m_nextId
    listed,       \* the keys of XvncManager::m_xvncs
    version,      \* XvncManager::m_sessionListVersion
    mgrOwner,     \* who holds XvncManager::m_lock
    xOwner,       \* who holds Xvnc::m_lock, per session
    visible,      \* Xvnc::m_visible
    desktopName,  \* Xvnc::m_desktopName
    username,     \* Xvnc::m_sessionUsername
    process,      \* what has become of the Xvnc process: none, running, zombie, reaped
    pc,           \* what a thread does next
    ret,          \* where it continues after markVisible, setDesktopName, ...
    cur,          \* the session it works on; both are cleared when the call returns
    new,          \* the name it is about to assign
    refs,         \* sessions a thread keeps alive (start's xvnc, XvncConnection::m_xvnc, ...)
    first,        \* VncTunnel::start's local xvnc, ControllerConnection::m_xvnc
    other,        \* the session of the connection the greeter asked for
    greeter,      \* whether the tunnel has a GreeterConnection
    lastSent,     \* GreeterConnection::m_lastSentSessionListVersion
    copy,         \* sendSessions' local copy of the list
    todo,         \* the part of a list a loop has still to visit
    count,        \* sendSessions' count of the visible sessions
    lines,        \* the lines sendSessions has written
    sentCount,    \* the count in the last complete message to the greeter
    view          \* the lines in the last complete message to the greeter

manager  == <<nextId, listed, version, mgrOwner>>
objects  == <<xOwner, visible, desktopName, username>>
control  == <<pc, ret, cur>>
holding  == <<refs, first, other>>
sending  == <<copy, todo, count, lines>>
greeters == <<greeter, lastSent, sentCount, view>>
vars == <<nextId, listed, version, mgrOwner, xOwner, visible, desktopName,
          username, process, pc, ret, cur, new, refs, first, other, greeter,
          lastSent, copy, todo, count, lines, sentCount, view>>

PCs == {"start", "scan", "create", "construct", "connect", "replace", "loop",
        "fetch", "count", "lines", "dropCopy", "close", "null", "done",
        "attach", "approve", "serve", "idle", "childDied", "release",
        "assignDesktop", "assignUser", "notify", "destroy", "none"}

-----------------------------------------------------------------------------
(* Helpers *)

\* The session a loop over S visits next: std::map iterates in key order.
IsNext(x, S) == x \in S /\ \A y \in S : x <= y

\* What a thread keeps alive.
Held(t) == refs[t] \cup copy[t]

\* Fault: references are not counted, whoever lets go deletes the session.
NoOtherHolder(t, x) == FALSE

\* Whether anyone but t, the list not included, keeps x alive.
HeldElsewhere(t, x) == \E u \in Threads \ {t} : x \in Held(u)

Goto(t, l) == pc' = [pc EXCEPT ![t] = l]

\* The end of a nested call.
Return(t) ==
    /\ Goto(t, ret[t])
    /\ ret' = [ret EXCEPT ![t] = "none"]
    /\ cur' = [cur EXCEPT ![t] = NoSession]

\* What a shared_ptr of t does when it lets go of x and t has no other: the
\* last one out runs ~Xvnc, and the thread goes on at `back` afterwards.
LetGo(t, x, stillShared, back) ==
    \/ /\ stillShared
       /\ Goto(t, back)
       /\ cur' = [cur EXCEPT ![t] = NoSession]
       /\ UNCHANGED ret
    \/ /\ ~stillShared
       /\ Goto(t, "destroy")
       /\ ret' = [ret EXCEPT ![t] = back]
       /\ cur' = [cur EXCEPT ![t] = x]

\* The line of a session in the message to the greeter.
LineOf(x) == <<x, username[x], desktopName[x]>>

\* What reading a name returns: the string, or anything at all while another
\* thread is in the assignment at l, since the getters take no lock.
Reads(x, names, l) ==
    IF \E t \in Threads : pc[t] = l /\ cur[t] = x THEN Names ELSE {names[x]}
-----------------------------------------------------------------------------
Init ==
    /\ nextId = 0 /\ listed = {} /\ version = 0 /\ mgrOwner = Nobody
    /\ xOwner = [x \in Sessions |-> Nobody]
    /\ visible = [x \in Sessions |-> FALSE]
    /\ desktopName = [x \in Sessions |-> NoName]
    /\ username = [x \in Sessions |-> NoName]
    /\ process = [x \in Sessions |-> "none"]
    /\ pc = [t \in Threads |-> IF t = Main THEN "idle"
                               ELSE IF t \in Tunnels THEN "start" ELSE "attach"]
    /\ ret = [t \in Threads |-> "none"]
    /\ cur = [t \in Threads |-> NoSession]
    /\ new = [t \in Threads |-> NoName]
    /\ refs = [t \in Threads |-> {}]
    /\ first = [t \in Threads |-> NoSession]
    /\ other = [t \in Tunnels |-> NoSession]
    /\ greeter = [t \in Tunnels |-> FALSE]
    /\ lastSent = [t \in Tunnels |-> 0]
    /\ copy = [t \in Threads |-> {}]
    /\ todo = [t \in Tunnels |-> {}]
    /\ count = [t \in Tunnels |-> 0]
    /\ lines = [t \in Tunnels |-> {}]
    /\ sentCount = [t \in Tunnels |-> 0]
    /\ view = [t \in Tunnels |-> {}]
-----------------------------------------------------------------------------
(* XvncManager, as the client threads use it *)

\* VncTunnel::start decides on the greeter; hasVisibleSessions takes the lock.
Start(t) ==
    /\ pc[t] = "start"
    /\ \/ /\ AlwaysShowGreeter
          /\ greeter' = [greeter EXCEPT ![t] = TRUE]
          /\ Goto(t, "create")
          /\ UNCHANGED <<mgrOwner, todo>>
       \/ /\ ~AlwaysShowGreeter
          /\ mgrOwner = Nobody
          /\ mgrOwner' = t
          /\ todo' = [todo EXCEPT ![t] = listed]
          /\ Goto(t, "scan")
          /\ UNCHANGED greeter
    /\ UNCHANGED <<nextId, listed, version, objects, process, ret, cur, new,
                   holding, lastSent, sentCount, view, copy, count, lines>>

\* One step of hasVisibleSessions' any_of, which reads m_visible of a session
\* without the session's lock.
Scan(t) ==
    /\ pc[t] = "scan"
    /\ \/ \E x \in todo[t] :
            /\ IsNext(x, todo[t])
            /\ ~visible[x]
            /\ todo' = [todo EXCEPT ![t] = @ \ {x}]
            /\ UNCHANGED <<mgrOwner, greeter, pc>>
       \/ /\ \A x \in todo[t] : IsNext(x, todo[t]) => visible[x]
          /\ greeter' = [greeter EXCEPT ![t] = todo[t] # {}]
          /\ todo' = [todo EXCEPT ![t] = {}]
          /\ mgrOwner' = Nobody
          /\ Goto(t, "create")
    /\ UNCHANGED <<nextId, listed, version, objects, process, ret, cur, new,
                   holding, lastSent, sentCount, view, copy, count, lines>>

\* Fault: createSession constructs the session before it takes the lock.
CreateSessionUnlocked(t) ==
    /\ pc[t] = "create"
    /\ nextId < MaxSessions
    /\ nextId' = nextId + 1
    /\ process' = [process EXCEPT ![nextId] = "running"]
    /\ cur' = [cur EXCEPT ![t] = nextId]
    /\ Goto(t, "construct")
    /\ UNCHANGED <<listed, version, mgrOwner, objects, ret, new, holding, greeters,
                   sending>>

\* createSession takes the lock and the next id, and Xvnc's constructor forks.
CreateSession(t) ==
    /\ pc[t] = "create"
    /\ mgrOwner = Nobody
    /\ nextId < MaxSessions
    /\ mgrOwner' = t
    /\ nextId' = nextId + 1
    /\ process' = [process EXCEPT ![nextId] = "running"]
    /\ cur' = [cur EXCEPT ![t] = nextId]
    /\ Goto(t, "construct")
    /\ UNCHANGED <<listed, version, objects, ret, new, holding, greeters, sending>>

\* The constructor has read the display number: createSession lists the session,
\* releases the lock and returns.  The first one is the client's own.
Constructed(t) ==
    /\ pc[t] = "construct"
    /\ listed' = listed \cup {cur[t]}
    /\ mgrOwner' = Nobody
    /\ refs' = [refs EXCEPT ![t] = @ \cup {cur[t]}]
    /\ \/ /\ first[t] = NoSession
          /\ first' = [first EXCEPT ![t] = cur[t]]
          /\ cur' = [cur EXCEPT ![t] = NoSession]
          /\ Goto(t, "connect")
       \/ /\ first[t] # NoSession
          /\ Goto(t, "replace")
          /\ UNCHANGED <<first, cur>>
    /\ UNCHANGED <<nextId, version, objects, process, ret, new, other, greeters,
                   sending>>

\* Fault: the lock is not released when the constructor throws.
CreateFailsLocked(t) ==
    /\ \/ pc[t] = "construct"
       \/ pc[t] = "create" /\ nextId = MaxSessions
    /\ cur' = [cur EXCEPT ![t] = NoSession]
    /\ Goto(t, "close")
    /\ UNCHANGED <<manager, objects, process, ret, new, holding, greeters, sending>>

\* The constructor throws: the session is in no list, the client thread ends.
\* At the bound on sessions the next call fails too.
CreateFails(t) ==
    /\ \/ pc[t] = "construct" /\ mgrOwner' = Nobody
       \/ pc[t] = "create" /\ nextId = MaxSessions /\ UNCHANGED mgrOwner
    /\ cur' = [cur EXCEPT ![t] = NoSession]
    /\ Goto(t, "close")
    /\ UNCHANGED <<nextId, listed, version, objects, process, ret, new, holding,
                   greeters, sending>>

\* newSessionHandler: the greeter asks for a new session.
New(t) ==
    /\ pc[t] = "loop"
    /\ greeter[t]
    /\ Goto(t, "create")
    /\ UNCHANGED <<manager, objects, process, ret, cur, new, holding, greeters,
                   sending>>

\* Fault: the null pointer of a missing session is kept as a session.
OpenUnchecked(t, x) ==
    /\ pc[t] = "loop"
    /\ greeter[t]
    /\ x \in {l[1] : l \in view[t]}
    /\ mgrOwner = Nobody
    /\ LET y == IF x \in listed THEN x ELSE NoSession
       IN  /\ refs' = [refs EXCEPT ![t] = @ \cup {y}]
           /\ cur' = [cur EXCEPT ![t] = y]
    /\ Goto(t, "replace")
    /\ UNCHANGED <<manager, objects, process, ret, new, first, other, greeters,
                   sending>>

\* Fault: the session is found by a pointer kept since it was shown.
OpenStale(t, x) ==
    /\ pc[t] = "loop"
    /\ greeter[t]
    /\ x \in {l[1] : l \in view[t]}
    /\ mgrOwner = Nobody
    /\ refs' = [refs EXCEPT ![t] = @ \cup {x}]
    /\ cur' = [cur EXCEPT ![t] = x]
    /\ Goto(t, "replace")
    /\ UNCHANGED <<manager, objects, process, ret, new, first, other, greeters,
                   sending>>

\* openSessionHandler: the greeter asks for a session it was shown.  A session
\* that has left the list makes getSession return a null pointer, which
\* XvncConnection's constructor dereferences: "null" is that crash.
Open(t, x) ==
    /\ pc[t] = "loop"
    /\ greeter[t]
    /\ x \in {l[1] : l \in view[t]}
    /\ mgrOwner = Nobody
    /\ \/ /\ x \in listed
          /\ refs' = [refs EXCEPT ![t] = @ \cup {x}]
          /\ cur' = [cur EXCEPT ![t] = x]
          /\ Goto(t, "replace")
       \/ /\ x \notin listed
          /\ Goto(t, "null")
          /\ UNCHANGED <<refs, cur>>
    /\ UNCHANGED <<manager, objects, process, ret, new, first, other, greeters,
                   sending>>

\* switchToConnection deletes the connection it replaces ...
Replace(t) ==
    /\ pc[t] = "replace"
    /\ other' = [other EXCEPT ![t] = cur[t]]
    /\ \/ /\ other[t] \in {NoSession, first[t], cur[t]}
          /\ Goto(t, "connect")
          /\ cur' = [cur EXCEPT ![t] = NoSession]
          /\ UNCHANGED <<refs, ret>>
       \/ /\ other[t] \notin {NoSession, first[t], cur[t]}
          /\ refs' = [refs EXCEPT ![t] = @ \ {other[t]}]
          /\ LetGo(t, other[t],
                   other[t] \in listed \/ HeldElsewhere(t, other[t]), "connect")
    /\ UNCHANGED <<manager, objects, process, new, first, greeters, sending>>

\* ... and connects to the new session (Xvnc::connect, under the session's
\* lock).  An error of the socket ends the client thread.
Connect(t) ==
    /\ pc[t] = "connect"
    /\ LET x == IF other[t] = NoSession THEN first[t] ELSE other[t]
       IN  xOwner[x] = Nobody
    /\ Goto(t, "loop") \/ Goto(t, "close")
    /\ UNCHANGED <<manager, objects, process, ret, cur, new, holding, greeters,
                   sending>>

\* A ConnectionException of the potential connection: start deletes it.
Abandon(t) ==
    /\ pc[t] = "loop"
    /\ greeter[t]
    /\ other[t] # NoSession
    /\ other' = [other EXCEPT ![t] = NoSession]
    /\ \/ other[t] = first[t] /\ UNCHANGED <<refs, control>>
       \/ /\ other[t] # first[t]
          /\ refs' = [refs EXCEPT ![t] = @ \ {other[t]}]
          /\ LetGo(t, other[t],
                   other[t] \in listed \/ HeldElsewhere(t, other[t]), "loop")
    /\ UNCHANGED <<manager, objects, process, new, first, greeters, sending>>

\* The GreeterConnection is deleted.
EndGreeter(t) ==
    /\ greeter' = [greeter EXCEPT ![t] = FALSE]
    /\ lastSent' = [lastSent EXCEPT ![t] = 0]
    /\ sentCount' = [sentCount EXCEPT ![t] = 0]
    /\ view' = [view EXCEPT ![t] = {}]

\* connectionSwitched: the greeter is released.  The first session's connection
\* is deleted, start's local xvnc still holds the session.
Switch(t) ==
    /\ pc[t] = "loop"
    /\ greeter[t]
    /\ other[t] # NoSession
    /\ EndGreeter(t)
    /\ UNCHANGED <<manager, objects, process, control, new, holding, sending>>

\* The main loop ends, for whatever reason.
Close(t) ==
    /\ pc[t] = "loop"
    /\ Goto(t, "close")
    /\ UNCHANGED <<manager, objects, process, ret, cur, new, holding, greeters,
                   sending>>

\* start's locals and ~VncTunnel: the greeter goes, then the sessions one by one.
Finish(t) ==
    /\ pc[t] = "close"
    /\ EndGreeter(t)
    /\ first' = [first EXCEPT ![t] = NoSession]
    /\ other' = [other EXCEPT ![t] = NoSession]
    /\ \/ refs[t] = {} /\ Goto(t, "done") /\ UNCHANGED <<refs, ret, cur>>
       \/ \E x \in refs[t] :
            /\ refs' = [refs EXCEPT ![t] = @ \ {x}]
            /\ LetGo(t, x, x \in listed \/ HeldElsewhere(t, x), "close")
    /\ UNCHANGED <<manager, objects, process, new, sending>>
-----------------------------------------------------------------------------
(* GreeterConnection::update, which start calls before every select() *)

\* The version is read, without the lock, and recorded before the list is.
Update(t) ==
    /\ pc[t] = "loop"
    /\ greeter[t]
    /\ lastSent[t] < version
    /\ lastSent' = [lastSent EXCEPT ![t] = version]
    /\ Goto(t, "fetch")
    /\ UNCHANGED <<manager, objects, process, ret, cur, new, holding, greeter,
                   sentCount, view, sending>>

\* sessionList copies the map, and with it a reference to every session.
Fetch(t) ==
    /\ pc[t] = "fetch"
    /\ mgrOwner = Nobody
    /\ copy' = [copy EXCEPT ![t] = listed]
    /\ todo' = [todo EXCEPT ![t] = listed]
    /\ Goto(t, "count")
    /\ UNCHANGED <<manager, objects, process, ret, cur, new, holding, greeters,
                   count, lines>>

\* The first loop of sendSessions: count_if over the copy.
Count(t) ==
    /\ pc[t] = "count"
    /\ \/ /\ todo[t] = {}
          /\ todo' = [todo EXCEPT ![t] = copy[t]]
          /\ Goto(t, "lines")
          /\ UNCHANGED count
       \/ \E x \in todo[t] :
            /\ IsNext(x, todo[t])
            /\ count' = [count EXCEPT ![t] = IF visible[x] THEN @ + 1 ELSE @]
            /\ todo' = [todo EXCEPT ![t] = @ \ {x}]
            /\ UNCHANGED pc
    /\ UNCHANGED <<manager, objects, process, ret, cur, new, holding, greeters,
                   copy, lines>>

\* Fault: the version is read again, and recorded, after the list was sent.
WriteLineThenVersion(t) ==
    /\ pc[t] = "lines"
    /\ \/ /\ todo[t] = {}
          /\ view' = [view EXCEPT ![t] = lines[t]]
          /\ sentCount' = [sentCount EXCEPT ![t] = count[t]]
          /\ lines' = [lines EXCEPT ![t] = {}]
          /\ count' = [count EXCEPT ![t] = 0]
          /\ lastSent' = [lastSent EXCEPT ![t] = version]
          /\ Goto(t, "dropCopy")
          /\ UNCHANGED todo
       \/ \E x \in todo[t] :
            /\ IsNext(x, todo[t])
            /\ todo' = [todo EXCEPT ![t] = @ \ {x}]
            /\ lines' = [lines EXCEPT ![t] = IF visible[x] THEN @ \cup {LineOf(x)} ELSE @]
            /\ UNCHANGED <<view, sentCount, lastSent, count, pc>>
    /\ UNCHANGED <<manager, objects, process, ret, cur, new, holding, greeter, copy>>

\* The second loop asks every session again, writes a line for each visible
\* one, and the message is flushed.
WriteLine(t) ==
    /\ pc[t] = "lines"
    /\ \/ /\ todo[t] = {}
          /\ view' = [view EXCEPT ![t] = lines[t]]
          /\ sentCount' = [sentCount EXCEPT ![t] = count[t]]
          /\ lines' = [lines EXCEPT ![t] = {}]
          /\ count' = [count EXCEPT ![t] = 0]
          /\ Goto(t, "dropCopy")
          /\ UNCHANGED todo
       \/ \E x \in todo[t] :
            /\ IsNext(x, todo[t])
            /\ todo' = [todo EXCEPT ![t] = @ \ {x}]
            /\ \/ ~visible[x] /\ UNCHANGED lines
               \/ /\ visible[x]
                  /\ \E u \in Reads(x, username, "assignUser"),
                        d \in Reads(x, desktopName, "assignDesktop") :
                       lines' = [lines EXCEPT ![t] = @ \cup {<<x, u, d>>}]
            /\ UNCHANGED <<view, sentCount, count, pc>>
    /\ UNCHANGED <<manager, objects, process, ret, cur, new, holding, greeter,
                   lastSent, copy>>

\* The copy goes out of scope: every reference in it is dropped.
DropCopy(t) ==
    /\ pc[t] = "dropCopy"
    /\ \/ copy[t] = {} /\ Goto(t, "loop") /\ UNCHANGED <<copy, ret, cur>>
       \/ \E x \in copy[t] :
            /\ copy' = [copy EXCEPT ![t] = @ \ {x}]
            /\ LetGo(t, x, x \in listed \/ x \in refs[t] \/ HeldElsewhere(t, x),
                     "dropCopy")
    /\ UNCHANGED <<manager, objects, process, new, holding, greeters, todo, count,
                   lines>>
-----------------------------------------------------------------------------
(* The changes of a session *)

\* The sessions a client thread is connected to.
Connected(t) == IF other[t] = NoSession THEN {first[t]}
                ELSE IF greeter[t] THEN {first[t], other[t]} ELSE {other[t]}

\* Xvnc::setDesktopName takes the session's lock and finds the name changed.
SetDesktopName(t, x, n) ==
    /\ pc[t] = "loop"
    /\ x \in Connected(t)
    /\ version < MaxVersion
    /\ xOwner[x] = Nobody
    /\ n # desktopName[x]
    /\ xOwner' = [xOwner EXCEPT ![x] = t]
    /\ new' = [new EXCEPT ![t] = n]
    /\ cur' = [cur EXCEPT ![t] = x]
    /\ ret' = [ret EXCEPT ![t] = "loop"]
    /\ Goto(t, "assignDesktop")
    /\ UNCHANGED <<manager, visible, desktopName, username, process, holding,
                   greeters, sending>>

AssignDesktopName(t) ==
    /\ pc[t] = "assignDesktop"
    /\ desktopName' = [desktopName EXCEPT ![cur[t]] = new[t]]
    /\ new' = [new EXCEPT ![t] = NoName]
    /\ Goto(t, "notify")
    /\ UNCHANGED <<manager, xOwner, visible, username, process, ret, cur,
                   holding, greeters, sending>>

\* The controller's key is approved: Xvnc::setSessionUsername, without a lock.
SetSessionUsername(c, n) ==
    /\ pc[c] = "approve"
    /\ version < MaxVersion
    /\ \/ /\ n = username[first[c]]
          /\ Goto(c, "serve")
          /\ UNCHANGED <<new, cur, ret>>
       \/ /\ n # username[first[c]]
          /\ new' = [new EXCEPT ![c] = n]
          /\ cur' = [cur EXCEPT ![c] = first[c]]
          /\ ret' = [ret EXCEPT ![c] = "serve"]
          /\ Goto(c, "assignUser")
    /\ UNCHANGED <<manager, objects, process, holding, greeters, sending>>

AssignUsername(c) ==
    /\ pc[c] = "assignUser"
    /\ username' = [username EXCEPT ![cur[c]] = new[c]]
    /\ new' = [new EXCEPT ![c] = NoName]
    /\ Goto(c, "notify")
    /\ UNCHANGED <<manager, xOwner, visible, desktopName, process, ret, cur,
                   holding, greeters, sending>>

\* Xvnc::markVisible up to the call of notifySessionChanged; no change, no call.
MarkVisible(t, x, v, back) ==
    /\ xOwner[x] = Nobody
    /\ \/ /\ visible[x] = v
          /\ Goto(t, back)
          /\ ret' = [ret EXCEPT ![t] = "none"]
          /\ cur' = [cur EXCEPT ![t] = NoSession]
          /\ UNCHANGED <<xOwner, visible>>
       \/ /\ visible[x] # v
          /\ xOwner' = [xOwner EXCEPT ![x] = t]
          /\ visible' = [visible EXCEPT ![x] = v]
          /\ ret' = [ret EXCEPT ![t] = back]
          /\ cur' = [cur EXCEPT ![t] = x]
          /\ Goto(t, "notify")
    /\ UNCHANGED <<desktopName, username>>

\* Fault: the manager's mutex is not recursive.
NotifyPlainMutex(t) ==
    /\ pc[t] = "notify"
    /\ mgrOwner = Nobody
    /\ version' = version + 1
    /\ xOwner' = [xOwner EXCEPT ![cur[t]] = IF @ = t THEN Nobody ELSE @]
    /\ Return(t)
    /\ UNCHANGED <<nextId, listed, mgrOwner, visible, desktopName, username,
                   process, new, holding, greeters, sending>>

\* XvncManager::notifySessionChanged takes the recursive lock, which its caller
\* may hold already, counts the change and returns; the caller then releases
\* the session's lock, if it took it.
Notify(t) ==
    /\ pc[t] = "notify"
    /\ mgrOwner \in {Nobody, t}
    /\ version' = version + 1
    /\ xOwner' = [xOwner EXCEPT ![cur[t]] = IF @ = t THEN Nobody ELSE @]
    /\ Return(t)
    /\ UNCHANGED <<nextId, listed, mgrOwner, visible, desktopName, username,
                   process, new, holding, greeters, sending>>

\* ~Xvnc, on whichever thread dropped the last reference.
Destroy(t) ==
    /\ pc[t] = "destroy"
    /\ MarkVisible(t, cur[t], FALSE, ret[t])
    /\ UNCHANGED <<manager, process, new, holding, greeters, sending>>
-----------------------------------------------------------------------------
(* Controllers *)

\* getSessionByDisplayNumber finds a session, or the controller is turned away.
Attach(c) ==
    /\ pc[c] = "attach"
    /\ mgrOwner = Nobody
    /\ \/ \E x \in listed : /\ refs' = [refs EXCEPT ![c] = {x}]
                            /\ first' = [first EXCEPT ![c] = x]
                            /\ Goto(c, "approve")
       \/ Goto(c, "done") /\ UNCHANGED <<refs, first>>
    /\ UNCHANGED <<manager, objects, process, ret, cur, new, other, greeters,
                   sending>>

\* The command VISIBLE.
Visible(c, v) ==
    /\ pc[c] = "serve"
    /\ version < MaxVersion
    /\ v # visible[first[c]]
    /\ MarkVisible(c, first[c], v, "serve")
    /\ UNCHANGED <<manager, process, new, holding, greeters, sending>>

\* The controller disconnects, or its key was not approved in time.
Detach(c) ==
    /\ pc[c] \in {"approve", "serve"}
    /\ refs' = [refs EXCEPT ![c] = {}]
    /\ first' = [first EXCEPT ![c] = NoSession]
    /\ LetGo(c, first[c], first[c] \in listed \/ HeldElsewhere(c, first[c]), "done")
    /\ UNCHANGED <<manager, objects, process, new, other, greeters, sending>>
-----------------------------------------------------------------------------
(* Processes and the main thread *)

\* An Xvnc ends: by itself, after its last client, or because it failed.
Die(x) ==
    /\ process[x] = "running"
    /\ process' = [process EXCEPT ![x] = "zombie"]
    /\ UNCHANGED <<manager, objects, control, new, holding, greeters, sending>>

\* handleSignal: waitpid returns a child.
Reap(x) ==
    /\ pc[Main] = "idle"
    /\ process[x] = "zombie"
    /\ process' = [process EXCEPT ![x] = "reaped"]
    /\ cur' = [cur EXCEPT ![Main] = x]
    /\ Goto(Main, "childDied")
    /\ UNCHANGED <<manager, objects, ret, new, holding, greeters, sending>>

\* XvncManager::childDied takes the lock and erases the session.  Erasing the
\* last reference runs ~Xvnc before the lock is released.
ChildDied ==
    /\ pc[Main] = "childDied"
    /\ mgrOwner = Nobody
    /\ mgrOwner' = Main
    /\ listed' = listed \ {cur[Main]}
    /\ LetGo(Main, cur[Main],
             cur[Main] \notin listed \/ HeldElsewhere(Main, cur[Main]), "release")
    /\ UNCHANGED <<nextId, version, objects, process, new, holding, greeters,
                   sending>>

Release ==
    /\ pc[Main] = "release"
    /\ mgrOwner' = Nobody
    /\ Goto(Main, "idle")
    /\ UNCHANGED <<nextId, listed, version, objects, process, ret, cur, new,
                   holding, greeters, sending>>
-----------------------------------------------------------------------------
\* All client and controller threads have ended and no child is left to reap.
Terminated ==
    /\ \A t \in Tunnels \cup Controllers : pc[t] \in {"done", "null"}
    /\ pc[Main] = "idle"
    /\ \A x \in Sessions : process[x] \in {"none", "reaped"}
    /\ UNCHANGED vars

TunnelStep(t) ==
    \/ Start(t) \/ Scan(t) \/ CreateSession(t) \/ Constructed(t) \/ CreateFails(t)
    \/ New(t) \/ Replace(t) \/ Connect(t) \/ Abandon(t) \/ Switch(t) \/ Close(t)
    \/ Finish(t) \/ Update(t) \/ Fetch(t) \/ Count(t) \/ WriteLine(t) \/ DropCopy(t)
    \/ AssignDesktopName(t)
    \/ \E x \in Sessions : Open(t, x)
    \/ \E x \in Sessions, n \in Names : SetDesktopName(t, x, n)

ControllerStep(c) ==
    \/ Attach(c) \/ Detach(c) \/ AssignUsername(c)
    \/ \E n \in Names : SetSessionUsername(c, n)
    \/ \E v \in BOOLEAN : Visible(c, v)

MainStep == ChildDied \/ Release \/ \E x \in Sessions : Reap(x)

Next ==
    \/ \E t \in Tunnels : TunnelStep(t)
    \/ \E c \in Controllers : ControllerStep(c)
    \/ \E t \in Threads : Notify(t) \/ Destroy(t)
    \/ MainStep
    \/ \E x \in Sessions : Die(x)
    \/ Terminated

Spec == Init /\ [][Next]_vars

\* What a thread does without waiting for a client, a greeter, a controller or
\* a signal: finishing the call it is in.  (The constructor of Xvnc counts too:
\* the new process reports its display number, or dies and the read fails.)
Working(t) ==
    \/ t \in Tunnels /\ \/ Start(t) \/ Scan(t) \/ CreateSession(t) \/ Constructed(t)
                         \/ CreateFails(t) \/ Replace(t) \/ Connect(t) \/ Finish(t)
                         \/ Fetch(t) \/ Count(t) \/ WriteLine(t) \/ DropCopy(t)
                         \/ AssignDesktopName(t)
    \/ t \in Controllers /\ AssignUsername(t)
    \/ t = Main /\ MainStep
    \/ Notify(t)
    \/ Destroy(t)

FairSpec == Spec /\ \A t \in Threads : WF_vars(Working(t))
-----------------------------------------------------------------------------
(* Properties *)

\* The type invariant: every variable has a value the C++ type allows.
ManagerType ==
    /\ nextId \in 0 .. MaxSessions
    /\ listed \subseteq Sessions
    /\ version \in Nat
    /\ mgrOwner \in Threads \cup {Nobody}
ObjectType ==
    /\ xOwner \in [Sessions -> Threads \cup {Nobody}]
    /\ visible \in [Sessions -> BOOLEAN]
    /\ desktopName \in [Sessions -> Names]
    /\ username \in [Sessions -> Names]
    /\ process \in [Sessions -> {"none", "running", "zombie", "reaped"}]
ControlType ==
    /\ pc \in [Threads -> PCs]
    /\ ret \in [Threads -> PCs]
    /\ cur \in [Threads -> Sessions \cup {NoSession}]
    /\ new \in [Threads -> Names]
HoldingType ==
    /\ refs \in [Threads -> SUBSET Sessions]
    /\ first \in [Threads -> Sessions \cup {NoSession}]
    /\ other \in [Tunnels -> Sessions \cup {NoSession}]
GreeterType ==
    /\ greeter \in [Tunnels -> BOOLEAN]
    /\ lastSent \in [Tunnels -> Nat]
    /\ sentCount \in [Tunnels -> Nat]
    /\ view \in [Tunnels -> SUBSET (Sessions \X Names \X Names)]
SendingType ==
    /\ copy \in [Threads -> SUBSET Sessions]
    /\ todo \in [Tunnels -> SUBSET Sessions]
    /\ count \in [Tunnels -> Nat]
    /\ lines \in [Tunnels -> SUBSET (Sessions \X Names \X Names)]
TypeOK ==
    /\ ManagerType /\ ObjectType /\ ControlType
    /\ HoldingType /\ GreeterType /\ SendingType

\* ~Xvnc runs when nobody can reach the session any more: it is off the list,
\* no thread holds a reference and nobody has its lock.  (The shared_ptr
\* discipline across createSession, getSession, sessionList and childDied.)
DestroyedAlone ==
    \A t \in Threads : pc[t] = "destroy" =>
        /\ cur[t] \notin listed
        /\ \A u \in Threads : cur[t] \notin Held(u)
        /\ xOwner[cur[t]] = Nobody

\* Whether t waits for a mutex that another thread holds.
Blocked(t) ==
    \/ /\ pc[t] \in {"create", "fetch", "attach", "childDied", "notify"}
       /\ mgrOwner \notin {Nobody, t}
    \/ pc[t] = "destroy" /\ xOwner[cur[t]] # Nobody
    \/ pc[t] = "serve" /\ xOwner[first[t]] # Nobody
    \/ /\ pc[t] = "loop"
       /\ \A x \in Connected(t) : xOwner[x] # Nobody

\* markVisible takes the session's lock and then the manager's, childDied the
\* manager's and then, in ~Xvnc, the session's.  The opposite orders never
\* meet: who holds the manager's lock never waits for another mutex.
ManagerHolderRuns == \A t \in Threads : mgrOwner = t => ~Blocked(t)

\* The main thread never erases too early: once it is done with the death of
\* an Xvnc, the session is off the list, even when the process died while
\* createSession was still constructing the session.
ReapedIsDelisted ==
    \A x \in listed : process[x] = "reaped" =>
        pc[Main] = "childDied" /\ cur[Main] = x

\* A change of x is under way that notifySessionChanged has yet to count.
Pending(x) ==
    \E t \in Threads :
        /\ cur[t] = x
        /\ \/ pc[t] \in {"assignDesktop", "assignUser", "notify"}
           \/ pc[t] = "destroy" /\ visible[x]

\* The greeter of t has received the list for the version the tunnel recorded.
Delivered(t) == greeter[t] /\ pc[t] \notin {"fetch", "count", "lines"}

\* A tunnel whose recorded version is the current one has nothing to tell its
\* greeter: what the greeter shows is exactly the visible sessions, but for
\* those whose change is not counted yet and those that are off the list and
\* still referenced (their ~Xvnc is going to count a change).
GreeterUpToDate ==
    \A t \in Tunnels : Delivered(t) /\ lastSent[t] = version =>
        \A x \in Sessions : ~Pending(x) =>
            /\ x \in listed /\ visible[x] => LineOf(x) \in view[t]
            /\ \A l \in view[t] : l[1] = x =>
                 /\ visible[x] /\ l = LineOf(x)
                 /\ x \in listed \/ \E u \in Threads : x \in Held(u)

\* sendSessions counts in one loop and writes in another, and the two can
\* disagree.  A message whose count was wrong is followed by another: the
\* change that came between is counted after the version the tunnel recorded.
WrongCountIsRepaired ==
    \A t \in Tunnels : Delivered(t) /\ sentCount[t] # Cardinality(view[t]) =>
        lastSent[t] < version \/ \E x \in Sessions : Pending(x)

\* Nobody keeps the manager's lock: not when Xvnc's constructor throws, not when
\* childDied runs ~Xvnc, which asks for the same lock again.
ManagerLockIsReleased == mgrOwner # Nobody ~> mgrOwner = Nobody

\* The session of a dead Xvnc leaves the list, whatever the others are doing.
DeadSessionIsDelisted ==
    \A x \in Sessions :
        x \in listed /\ process[x] = "zombie" ~> x \notin listed

\* The registry implements the life of a session: listed or delisted by
\* m_xvncs, held by the threads' references, gone when ~Xvnc is through.
Holders(x) == {t \in Threads : x \in Held(t)}
Building(x) == \E t \in Threads : pc[t] = "construct" /\ cur[t] = x
Finishing(x) == \E t \in Threads : pc[t] \in {"destroy", "notify"} /\ cur[t] = x

LifeOf(x) ==
    IF x >= nextId THEN "unborn"
    ELSE IF x \in listed THEN "listed"
    ELSE IF Building(x) THEN "building"
    ELSE IF Holders(x) # {} \/ Finishing(x) THEN "delisted"
    ELSE "gone"

Life == INSTANCE SessionLife WITH
            Users <- Threads, Ids <- Sessions,
            life <- [x \in Sessions |-> LifeOf(x)],
            holders <- [x \in Sessions |-> Holders(x)],
            shown <- visible

\* Every behaviour of the registry is a life of sessions as SessionLife allows.
ImplementsLife == Life!LifeSpec
=============================================================================
