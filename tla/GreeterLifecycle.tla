-------------------------- MODULE GreeterLifecycle -------------------------
(***************************************************************************)
(* The child processes: GreeterManager, the parts of GreeterConnection and *)
(* Xvnc that fork, and the main thread that reaps, on top of the kernel's  *)
(* pids and pipes.                                                         *)
(*                                                                         *)
(* A client thread creates its greeter under the manager's lock, welcomes  *)
(* its client, waits in select() for anything to read and handles it,      *)
(* looks at m_dead before the next round and releases the greeter in the   *)
(* end, killing it unless it is known to be dead.  A thread that creates   *)
(* an Xvnc waits, with XvncManager's lock, until it has read a display     *)
(* number from a pipe or the pipe ends.  The main thread reaps a child and *)
(* tells both managers its pid, which is free already.  Every fork()      *)
(* passes on the write ends of the pipes that the process has open then.   *)
(*                                                                         *)
(* A pid is given out again once it is free; PromptReuse says whether it   *)
(* may be while the main thread is still telling the managers about it.    *)
(*                                                                         *)
(* Bounds: one greeter per client thread, Servers the sessions created.    *)
(***************************************************************************)
EXTENDS Naturals, FiniteSets

CONSTANTS Tunnels,      \* client threads, each with a greeter of its own
          Servers,      \* Xvnc processes, each started by a thread of its own
          Main,         \* the main thread
          None,         \* nobody, nothing
          Pids,         \* process ids
          PromptReuse   \* whether pids are reused before the reaper is done

Programs == Tunnels \cup Servers

ASSUME GreeterAssumption ==
    /\ PromptReuse \in BOOLEAN
    /\ Main \notin Programs /\ None \notin Programs \cup {Main} \cup Pids
    /\ Tunnels \cap Servers = {}

VARIABLES
    pc,         \* what the thread of a program, or the main thread, does next
    lock,       \* who holds GreeterManager::m_lock
    mgrLock,    \* who holds XvncManager::m_lock
    greeters,   \* GreeterManager::m_greeters: a greeter or None, per pid
    pid,        \* GreeterConnection::m_greeterPID, Xvnc::m_pid
    dead,       \* GreeterConnection::m_dead
    status,     \* of a program: none, running, killed, zombie, reaped
    writeEnd,   \* the parent has the write end of a program's pipe open
    inherited,  \* the programs that have the write end of a program's pipe open
    reaping     \* the pid the main thread is busy with, or None

vars == <<pc, lock, mgrLock, greeters, pid, dead, status, writeEnd, inherited, reaping>>
processes == <<pid, status, writeEnd, inherited>>
-----------------------------------------------------------------------------
Alive(q) == status[q] \in {"running", "killed"}

\* The pid belongs to no process, running or zombie, and the kernel gives it out.
Free(p) ==
    /\ \A q \in Programs : Alive(q) \/ status[q] = "zombie" => pid[q] # p
    /\ reaping = p => PromptReuse

\* fork() and execve(): the child has every write end the parent has open.
Fork(q, p) ==
    /\ Free(p)
    /\ pid' = [pid EXCEPT ![q] = p]
    /\ status' = [status EXCEPT ![q] = "running"]
    /\ inherited' = [r \in Programs |-> IF writeEnd[r] THEN inherited[r] \cup {q}
                                        ELSE inherited[r]]

\* A read from the pipe of q finds the end of file.
EndOfFile(q) == ~writeEnd[q] /\ inherited[q] = {}

Goto(r, l) == pc' = [pc EXCEPT ![r] = l]

Init ==
    /\ pc = [q \in Programs \cup {Main} |-> IF q = Main THEN "poll" ELSE "start"]
    /\ lock = None
    /\ mgrLock = None
    /\ greeters = [p \in Pids |-> None]
    /\ pid = [q \in Programs |-> None]
    /\ dead = [t \in Tunnels |-> FALSE]
    /\ status = [q \in Programs |-> "none"]
    /\ writeEnd = [q \in Programs |-> FALSE]
    /\ inherited = [q \in Programs |-> {}]
    /\ reaping = None
-----------------------------------------------------------------------------
(* Client threads *)

\* Fault: createGreeter does not take the lock.
CreateGreeterUnlocked(t) ==
    /\ pc[t] = "start"
    /\ writeEnd' = [writeEnd EXCEPT ![t] = TRUE]
    /\ Goto(t, "fork")
    /\ UNCHANGED <<lock, mgrLock, greeters, pid, dead, status, inherited, reaping>>

\* createGreeter takes the lock; the constructor opens the pipes ...
CreateGreeter(t) ==
    /\ pc[t] = "start"
    /\ lock = None
    /\ lock' = t
    /\ writeEnd' = [writeEnd EXCEPT ![t] = TRUE]
    /\ Goto(t, "fork")
    /\ UNCHANGED <<mgrLock, greeters, pid, dead, status, inherited, reaping>>

\* ... and forks,
ForkGreeter(t) ==
    /\ pc[t] = "fork"
    /\ \E p \in Pids : Fork(t, p)
    /\ Goto(t, "insert")
    /\ UNCHANGED <<lock, mgrLock, greeters, dead, writeEnd, reaping>>

\* Fault: the result of fork() is not checked.
ForkFailsUnchecked(t) ==
    /\ pc[t] = "fork"
    /\ Goto(t, "insert")
    /\ UNCHANGED <<lock, mgrLock, greeters, dead, reaping, processes>>

\* ... or cannot: the exception leaves the pipes open, and the client ends.
ForkFails(t) ==
    /\ pc[t] = "fork"
    /\ lock' = None
    /\ Goto(t, "done")
    /\ UNCHANGED <<mgrLock, greeters, dead, reaping, processes>>

\* The parent closes the child's end; createGreeter inserts the greeter under its
\* pid, which changes nothing if the pid is in the map, and returns.
InsertGreeter(t) ==
    /\ pc[t] = "insert"
    /\ writeEnd' = [writeEnd EXCEPT ![t] = FALSE]
    /\ greeters' = [greeters EXCEPT ![pid[t]] = IF @ = None THEN t ELSE @]
    /\ lock' = None
    /\ Goto(t, "welcome")
    /\ UNCHANGED <<mgrLock, pid, dead, status, inherited, reaping>>

\* start() connects to the Xvnc and goes through the handshakes with it and with the
\* client, each of which it waits for and may fail.
Welcome(t) ==
    /\ pc[t] = "welcome"
    /\ Goto(t, "update") \/ Goto(t, "release")
    /\ UNCHANGED <<lock, mgrLock, greeters, dead, reaping, processes>>

\* GreeterConnection::update throws if m_dead is set, and sends the sessions if their
\* list has changed ...
Update(t) ==
    /\ pc[t] = "update"
    /\ \/ dead[t] /\ Goto(t, "release")
       \/ ~dead[t] /\ (Goto(t, "sessions") \/ Goto(t, "select"))
    /\ UNCHANGED <<lock, mgrLock, greeters, dead, reaping, processes>>

\* ... for which it needs XvncManager's lock.
SendSessions(t) ==
    /\ pc[t] = "sessions"
    /\ mgrLock = None
    /\ Goto(t, "select")
    /\ UNCHANGED <<lock, mgrLock, greeters, dead, reaping, processes>>

\* select() returns because of the greeter's end of file ...
Wake(t) ==
    /\ pc[t] = "select"
    /\ EndOfFile(t)
    /\ Goto(t, "update")
    /\ UNCHANGED <<lock, mgrLock, greeters, dead, reaping, processes>>

\* ... or because of a client, an Xvnc or a command.
Receive(t) ==
    /\ pc[t] = "select"
    /\ Goto(t, "handle")
    /\ UNCHANGED <<lock, mgrLock, greeters, dead, reaping, processes>>

\* The handlers wait for the rest of a message, for a handshake or for a new session;
\* in the end the greeter is kept, or not.
Handle(t) ==
    /\ pc[t] = "handle"
    /\ Goto(t, "update") \/ Goto(t, "release")
    /\ UNCHANGED <<lock, mgrLock, greeters, dead, reaping, processes>>

\* kill() reaches whoever has the pid now.
Kill(p) ==
    status' = [q \in Programs |-> IF pid[q] = p /\ status[q] = "running" THEN "killed"
                                  ELSE status[q]]

\* Fault: the greeter is deleted and stays in the map.
ReleaseWithoutErase(t) ==
    /\ pc[t] = "release"
    /\ lock = None
    /\ IF dead[t] THEN UNCHANGED status ELSE Kill(pid[t])
    /\ Goto(t, "done")
    /\ UNCHANGED <<lock, mgrLock, greeters, pid, dead, writeEnd, inherited, reaping>>

\* releaseGreeter, under the lock: the pid is erased from the map, the program
\* told to end, the greeter deleted.
ReleaseGreeter(t) ==
    /\ pc[t] = "release"
    /\ lock = None
    /\ greeters' = [greeters EXCEPT ![pid[t]] = None]
    /\ IF dead[t] THEN UNCHANGED status ELSE Kill(pid[t])
    /\ Goto(t, "done")
    /\ UNCHANGED <<lock, mgrLock, pid, dead, writeEnd, inherited, reaping>>
-----------------------------------------------------------------------------
(* Threads that create sessions *)

\* createSession takes XvncManager's lock; execute opens the pipe for the display
\* number ...
CreateSession(x) ==
    /\ pc[x] = "start"
    /\ mgrLock = None
    /\ mgrLock' = x
    /\ writeEnd' = [writeEnd EXCEPT ![x] = TRUE]
    /\ Goto(x, "fork")
    /\ UNCHANGED <<lock, greeters, pid, dead, status, inherited, reaping>>

\* ... forks ...
ForkServer(x) ==
    /\ pc[x] = "fork"
    /\ \E p \in Pids : Fork(x, p)
    /\ Goto(x, "close")
    /\ UNCHANGED <<lock, mgrLock, greeters, dead, writeEnd, reaping>>

\* ... or cannot, and throws: the pipe stays open.
ForkServerFails(x) ==
    /\ pc[x] = "fork"
    /\ mgrLock' = None
    /\ Goto(x, "done")
    /\ UNCHANGED <<lock, greeters, dead, processes, reaping>>

\* Fault: the parent keeps the write end of the pipe.
CloseNothing(x) ==
    /\ pc[x] = "close"
    /\ Goto(x, "read")
    /\ UNCHANGED <<lock, mgrLock, greeters, dead, processes, reaping>>

CloseWriteEnd(x) ==
    /\ pc[x] = "close"
    /\ writeEnd' = [writeEnd EXCEPT ![x] = FALSE]
    /\ Goto(x, "read")
    /\ UNCHANGED <<lock, mgrLock, greeters, pid, dead, status, inherited, reaping>>

\* The display number arrives, or the pipe ends and an exception is thrown; either
\* way createSession ends.
ReadDisplay(x) ==
    /\ pc[x] = "read"
    /\ mgrLock' = None
    /\ Goto(x, "done")
    /\ UNCHANGED <<lock, greeters, dead, processes, reaping>>
-----------------------------------------------------------------------------
(* The programs, and the main thread *)

\* A program ends: what it had open is closed.
Exit(q) ==
    /\ Alive(q)
    /\ status' = [status EXCEPT ![q] = "zombie"]
    /\ inherited' = [r \in Programs |-> inherited[r] \ {q}]
    /\ UNCHANGED <<pc, lock, mgrLock, greeters, pid, dead, writeEnd, reaping>>

\* Fault: the signal's pid is believed, though the child may only have stopped.
ReapStopped(q) ==
    /\ pc[Main] = "poll"
    /\ status[q] \in {"running", "zombie"}
    /\ status' = [status EXCEPT ![q] = IF @ = "zombie" THEN "reaped" ELSE @]
    /\ reaping' = pid[q]
    /\ Goto(Main, "sessions")
    /\ UNCHANGED <<lock, mgrLock, greeters, pid, dead, writeEnd, inherited>>

\* handleSignal: waitpid returns a pid, which is free from then on.
Reap(q) ==
    /\ pc[Main] = "poll"
    /\ status[q] = "zombie"
    /\ status' = [status EXCEPT ![q] = "reaped"]
    /\ reaping' = pid[q]
    /\ Goto(Main, "sessions")
    /\ UNCHANGED <<lock, mgrLock, greeters, pid, dead, writeEnd, inherited>>

\* XvncManager::childDied, as far as it matters here: it needs the lock.
SessionDied ==
    /\ pc[Main] = "sessions"
    /\ mgrLock = None
    /\ Goto(Main, "greeters")
    /\ UNCHANGED <<lock, mgrLock, greeters, dead, processes, reaping>>

\* Fault: the greeter is taken out of the map, and not told.
ChildDiedForgets ==
    /\ pc[Main] = "greeters"
    /\ lock = None
    /\ greeters' = [greeters EXCEPT ![reaping] = None]
    /\ reaping' = None
    /\ Goto(Main, "poll")
    /\ UNCHANGED <<lock, mgrLock, dead, processes>>

\* GreeterManager::childDied.
ChildDied ==
    /\ pc[Main] = "greeters"
    /\ lock = None
    /\ dead' = [t \in Tunnels |-> dead[t] \/ greeters[reaping] = t]
    /\ greeters' = [greeters EXCEPT ![reaping] = None]
    /\ reaping' = None
    /\ Goto(Main, "poll")
    /\ UNCHANGED <<lock, mgrLock, processes>>

\* Every thread has come to its end, every child is reaped.
Terminated ==
    /\ \A q \in Programs : pc[q] = "done" /\ status[q] \in {"none", "reaped"}
    /\ pc[Main] = "poll"
    /\ UNCHANGED vars

Call(t) ==
    \/ CreateGreeter(t) \/ ForkGreeter(t) \/ ForkFails(t) \/ InsertGreeter(t)
    \/ Update(t) \/ SendSessions(t) \/ Wake(t) \/ ReleaseGreeter(t)

\* What the thread does with its client and the Xvncs.
Serve(t) == Welcome(t) \/ Receive(t) \/ Handle(t)

Create(x) ==
    \/ CreateSession(x) \/ ForkServer(x) \/ ForkServerFails(x) \/ CloseWriteEnd(x)
    \/ ReadDisplay(x)

Next ==
    \/ \E t \in Tunnels : Call(t) \/ Serve(t)
    \/ \E x \in Servers : Create(x)
    \/ \E q \in Programs : Exit(q) \/ Reap(q)
    \/ SessionDied
    \/ ChildDied
    \/ Terminated

Spec == Init /\ [][Next]_vars

\* The threads run as far as they wait for no client and no Xvnc: those may be silent
\* for ever, and an Xvnc need not report its display number.  A program that is killed
\* ends, but no other needs to.  Strong fairness: whoever waits for a
\* lock is served although others come and go.
FairSpec ==
    /\ Spec
    /\ \A t \in Tunnels : SF_vars(Call(t))
    /\ \A x \in Servers : SF_vars((pc[x] = "read" => EndOfFile(x)) /\ Create(x))
    /\ \A q \in Programs : WF_vars(Reap(q)) /\ WF_vars(status[q] = "killed" /\ Exit(q))
    /\ SF_vars(SessionDied)
    /\ SF_vars(ChildDied)
-----------------------------------------------------------------------------
(* Properties *)

\* createGreeter has returned, and releaseGreeter has not.
HasGreeter(t) ==
    pc[t] \in {"welcome", "update", "sessions", "select", "handle", "release"}

\* The type invariant, with the part that kill() depends on: whoever goes on with
\* a greeter has a pid, never the -1 of a fork() that failed.
TypeOK ==
    /\ pc \in [Programs \cup {Main} ->
                {"start", "fork", "insert", "welcome", "update", "sessions", "select",
                 "handle", "release", "close", "read", "done", "poll", "greeters"}]
    /\ lock \in Tunnels \cup {None}
    /\ mgrLock \in Servers \cup {None}
    /\ greeters \in [Pids -> Tunnels \cup {None}]
    /\ pid \in [Programs -> Pids \cup {None}]
    /\ dead \in [Tunnels -> BOOLEAN]
    /\ status \in [Programs -> {"none", "running", "killed", "zombie", "reaped"}]
    /\ writeEnd \in [Programs -> BOOLEAN]
    /\ inherited \in [Programs -> SUBSET Programs]
    /\ reaping \in Pids \cup {None}
    /\ pc[Main] = "poll" <=> reaping = None
    /\ \A t \in Tunnels : pc[t] = "insert" \/ HasGreeter(t) => pid[t] \in Pids

\* The map never leads to a deleted greeter: childDied may call what it finds.
\* (Entries are found by pid, and pids are shared over time.)
NoDanglingGreeter ==
    \A p \in Pids : greeters[p] # None =>
        /\ pid[greeters[p]] = p
        /\ HasGreeter(greeters[p])

\* GreeterConnection.h:111: a greeter is only marked as dead when it is known for
\* sure that its program is not running any more.
MarkedIsDead == \A t \in Tunnels : dead[t] => status[t] = "reaped"

\* The pid of t's greeter was, or is, another greeter's: releasing the other one
\* takes t's greeter off the map, since it is found by its pid.
SharesPid(t) == \E u \in Tunnels \ {t} : pid[u] = pid[t]

\* kill() never reaches another process than the greeter: while m_dead is not set
\* the pid is the greeter's own, though it may have been reaped.  Not so for one
\* that was taken off the map with another greeter of that pid.
KillHitsOwn ==
    \A t \in Tunnels : \A q \in Programs \ {t} :
        /\ HasGreeter(t) /\ ~dead[t] /\ ~SharesPid(t)
        /\ pid[q] = pid[t]
        => ~Alive(q) /\ status[q] # "zombie"

\* A greeter that nobody shares a pid with is in the map until its client is told
\* that it is dead.
LiveIsRegistered ==
    \A t \in Tunnels :
        HasGreeter(t) /\ ~dead[t] /\ ~SharesPid(t) =>
            greeters[pid[t]] = t

\* createSession is stuck with XvncManager's lock: the Xvnc lives and says nothing,
\* or it is dead and another program has its pipe.
Stuck(x) == pc[x] = "read" /\ inherited[x] # {}

\* A client whose greeter has died and left it an end of file is told so, and does
\* not go round in its loop for ever.  Four things may keep it: its pid is shared;
\* another child has inherited the pipe, so that there is no end of file yet; the main
\* thread or its own waits for a session that is stuck for good; or its thread waits
\* for good in a handshake or in a handler, which have no time limit, for a client or
\* an Xvnc that is silent (VncTunnel.cpp:79-84).
DeadGreeterIsNoticed ==
    \A t \in Tunnels :
        \/ status[t] \in {"zombie", "reaped"} /\ EndOfFile(t) ~>
                pc[t] = "done" \/ SharesPid(t)
        \/ \E x \in Servers : <>[]Stuck(x)
        \/ <>[](pc[t] = "welcome") \/ <>[](pc[t] = "handle")

\* The main thread always comes back to accept clients and reap children, unless
\* it waits for a session that is stuck for good.
MainServes == []<>(pc[Main] = "poll") \/ \E x \in Servers : <>[]Stuck(x)

\* "Xvnc did not report display number correctly." (Xvnc.cpp:280): createSession
\* finds out that its Xvnc has died.
DeadServerIsNoticed ==
    \A x \in Servers : status[x] \in {"zombie", "reaped"} ~> pc[x] = "done"
=============================================================================
