----------------------- MODULE GreeterLifecycleProofs ----------------------
(***************************************************************************)
(* Theorems about GreeterLifecycle for any number of client threads,       *)
(* sessions and pids: type correctness, that the map of greeters never     *)
(* leads to a deleted one, and, as long as pids are not used again under   *)
(* the main thread's hands, that only dead greeters are marked as dead,    *)
(* live ones stay registered, and kill() reaches the tunnel's own greeter. *)
(*                                                                         *)
(* The argument is about pids.  Of the programs that have the same pid at  *)
(* most one has not been reaped (PidInv).  While the main thread is busy   *)
(* with a pid, none is running under it (ReapInv).  A greeter that has     *)
(* been reaped and is not marked is the one the main thread is busy with   *)
(* (NoticeInv), because no greeter is between its fork and the map while   *)
(* the lock is free (LockInv).                                             *)
(***************************************************************************)
EXTENDS GreeterLifecycle, TLAPS

\* A process, running or zombie.
Exists(q) == Alive(q) \/ status[q] = "zombie"

\* Programs get their pid when they are forked, and are forked once.
BornInv ==
    /\ \A q \in Programs : pid[q] = None <=> status[q] = "none"
    /\ \A q \in Programs : pc[q] \in {"start", "fork"} => status[q] = "none"

\* Two processes have two pids.
PidInv ==
    \A q, r \in Programs : Exists(q) /\ Exists(r) /\ pid[q] = pid[r] => q = r

\* Greeters are forked and put into the map under the lock.
LockInv == \A t \in Tunnels : pc[t] \in {"fork", "insert"} => lock = t

\* Nothing runs under the pid the main thread is busy with.
ReapInv ==
    PromptReuse \/ \A q \in Programs : pid[q] = reaping => ~Exists(q)

\* A greeter that has been reaped, with a pid of its own, is marked, or will be.
NoticeInv ==
    PromptReuse \/
        \A t \in Tunnels :
            /\ HasGreeter(t) \/ pc[t] = "insert"
            /\ status[t] = "reaped" /\ ~dead[t] /\ ~SharesPid(t)
            => reaping = pid[t]

\* The three properties that need pids not to be reused too soon.
MarkedInv == PromptReuse \/ MarkedIsDead
LiveInv == PromptReuse \/ LiveIsRegistered

\* The inductive invariant.
GreeterInv ==
    /\ BornInv /\ PidInv /\ LockInv /\ NoDanglingGreeter
    /\ ReapInv /\ MarkedInv /\ NoticeInv /\ LiveInv
-----------------------------------------------------------------------------
\* Every action keeps the type invariant.
LEMMA TypeStep == TypeOK /\ BornInv /\ [Next]_vars => TypeOK'
  <1> SUFFICES ASSUME TypeOK, BornInv, [Next]_vars PROVE TypeOK'
    OBVIOUS
  <1> USE GreeterAssumption DEF TypeOK, HasGreeter, Programs, Goto, processes
  <1>1. ASSUME NEW t \in Tunnels, CreateGreeter(t) PROVE TypeOK'
    BY <1>1 DEF CreateGreeter
  <1>2. ASSUME NEW t \in Tunnels, ForkGreeter(t) PROVE TypeOK'
    BY <1>2 DEF ForkGreeter, Fork, Free, Alive
  <1>3. ASSUME NEW t \in Tunnels, ForkFails(t) PROVE TypeOK'
    BY <1>3 DEF ForkFails
  <1>4. ASSUME NEW t \in Tunnels, InsertGreeter(t) PROVE TypeOK'
    BY <1>4 DEF InsertGreeter
  <1>5. ASSUME NEW t \in Tunnels, Update(t) PROVE TypeOK'
    BY <1>5 DEF Update
  <1>6. ASSUME NEW t \in Tunnels, Wake(t) PROVE TypeOK'
    BY <1>6 DEF Wake
  <1>7. ASSUME NEW t \in Tunnels, ReleaseGreeter(t) PROVE TypeOK'
    BY <1>7 DEF ReleaseGreeter, Kill
  <1>8. ASSUME NEW t \in Tunnels, Receive(t) PROVE TypeOK'
    BY <1>8 DEF Receive
  <1>9. ASSUME NEW x \in Servers, CreateSession(x) PROVE TypeOK'
    BY <1>9 DEF CreateSession
  <1>10. ASSUME NEW x \in Servers, ForkServer(x) PROVE TypeOK'
    BY <1>10 DEF ForkServer, Fork, Free, Alive
  <1>11. ASSUME NEW x \in Servers, ForkServerFails(x) PROVE TypeOK'
    BY <1>11 DEF ForkServerFails
  <1>12. ASSUME NEW x \in Servers, CloseWriteEnd(x) PROVE TypeOK'
    BY <1>12 DEF CloseWriteEnd
  <1>13. ASSUME NEW x \in Servers, ReadDisplay(x) PROVE TypeOK'
    BY <1>13 DEF ReadDisplay
  <1>14. ASSUME NEW q \in Programs, Exit(q) PROVE TypeOK'
    BY <1>14 DEF Exit, Alive
  <1>15. ASSUME NEW q \in Programs, Reap(q) PROVE TypeOK'
    BY <1>15 DEF Reap, BornInv
  <1>16. ASSUME SessionDied PROVE TypeOK'
    BY <1>16 DEF SessionDied
  <1>17. ASSUME ChildDied PROVE TypeOK'
    BY <1>17 DEF ChildDied
  <1>18. ASSUME NEW t \in Tunnels, Welcome(t) PROVE TypeOK'
    BY <1>18 DEF Welcome
  <1>19. ASSUME NEW t \in Tunnels, SendSessions(t) PROVE TypeOK'
    BY <1>19 DEF SendSessions
  <1>20. ASSUME NEW t \in Tunnels, Handle(t) PROVE TypeOK'
    BY <1>20 DEF Handle
  <1>21. CASE UNCHANGED vars
    BY <1>21 DEF vars
  <1> QED
    BY <1>1, <1>2, <1>3, <1>4, <1>5, <1>6, <1>7, <1>8, <1>9, <1>10, <1>11, <1>12,
           <1>13, <1>14, <1>15, <1>16, <1>17, <1>18, <1>19, <1>20, <1>21
       DEF Next, Call, Serve, Create, Terminated

\* Every action keeps the invariant.
LEMMA GreeterStep == TypeOK /\ GreeterInv /\ [Next]_vars => GreeterInv'
  <1> SUFFICES ASSUME TypeOK, GreeterInv, [Next]_vars PROVE GreeterInv'
    OBVIOUS
  <1> USE GreeterAssumption DEF TypeOK, HasGreeter, Programs, Goto, processes, GreeterInv
  <1>1. ASSUME NEW t \in Tunnels, CreateGreeter(t) PROVE GreeterInv'
    BY <1>1 DEF CreateGreeter, BornInv, PidInv, Exists, Alive, LockInv,
           NoDanglingGreeter, ReapInv, MarkedInv, MarkedIsDead, NoticeInv,
           SharesPid, LiveInv, LiveIsRegistered
  <1>2. ASSUME NEW t \in Tunnels, ForkGreeter(t) PROVE GreeterInv'
    <2>1. BornInv'
      BY <1>2 DEF ForkGreeter, Fork, Free, Alive, BornInv
    <2>2. PidInv'
      BY <1>2 DEF ForkGreeter, Fork, Free, Alive, PidInv, Exists
    <2>3. (LockInv /\ NoDanglingGreeter)'
      BY <1>2 DEF ForkGreeter, Fork, Free, Alive, LockInv, NoDanglingGreeter
    <2>4. ReapInv'
      BY <1>2 DEF ForkGreeter, Fork, Free, Alive, ReapInv, Exists
    <2>5. MarkedInv'
      BY <1>2 DEF ForkGreeter, Fork, Free, Alive, MarkedInv, MarkedIsDead, BornInv
    <2>6. NoticeInv'
      BY <1>2 DEF ForkGreeter, Fork, Free, Alive, NoticeInv, SharesPid,
             BornInv
    <2>7. LiveInv'
      BY <1>2 DEF ForkGreeter, Fork, Free, Alive, LiveInv, LiveIsRegistered,
             SharesPid, BornInv
    <2> QED
      BY <2>1, <2>2, <2>3, <2>4, <2>5, <2>6, <2>7
  <1>3. ASSUME NEW t \in Tunnels, ForkFails(t) PROVE GreeterInv'
    BY <1>3 DEF ForkFails, BornInv, PidInv, Exists, Alive, LockInv,
           NoDanglingGreeter, ReapInv, MarkedInv, MarkedIsDead, NoticeInv,
           SharesPid, LiveInv, LiveIsRegistered
  <1>4. ASSUME NEW t \in Tunnels, InsertGreeter(t) PROVE GreeterInv'
    <2>1. (BornInv /\ PidInv /\ LockInv)'
      BY <1>4 DEF InsertGreeter, BornInv, PidInv, Exists, Alive, LockInv
    <2>2. NoDanglingGreeter'
      BY <1>4 DEF InsertGreeter, NoDanglingGreeter
    <2>3. (ReapInv /\ MarkedInv)'
      BY <1>4 DEF InsertGreeter, ReapInv, Exists, Alive, MarkedInv, MarkedIsDead
    <2>4. NoticeInv'
      BY <1>4 DEF InsertGreeter, NoticeInv, SharesPid
    <2>5. LiveInv'
      BY <1>4 DEF InsertGreeter, LiveInv, LiveIsRegistered, SharesPid,
             NoDanglingGreeter
    <2> QED
      BY <2>1, <2>2, <2>3, <2>4, <2>5
  <1>5. ASSUME NEW t \in Tunnels, Update(t) PROVE GreeterInv'
    BY <1>5 DEF Update, BornInv, PidInv, Exists, Alive, LockInv, NoDanglingGreeter,
           ReapInv, MarkedInv, MarkedIsDead, NoticeInv, SharesPid,
           LiveInv, LiveIsRegistered
  <1>6. ASSUME NEW t \in Tunnels, Wake(t) PROVE GreeterInv'
    BY <1>6 DEF Wake, BornInv, PidInv, Exists, Alive, LockInv, NoDanglingGreeter,
           ReapInv, MarkedInv, MarkedIsDead, NoticeInv, SharesPid,
           LiveInv, LiveIsRegistered
  <1>7. ASSUME NEW t \in Tunnels, ReleaseGreeter(t) PROVE GreeterInv'
    <2>1. (BornInv /\ PidInv /\ LockInv)'
      BY <1>7 DEF ReleaseGreeter, Kill, BornInv, PidInv, Exists, Alive, LockInv
    <2>2. NoDanglingGreeter'
      BY <1>7 DEF ReleaseGreeter, Kill, NoDanglingGreeter
    <2>3. (ReapInv /\ MarkedInv)'
      BY <1>7 DEF ReleaseGreeter, Kill, ReapInv, Exists, Alive, MarkedInv,
             MarkedIsDead
    <2>4. NoticeInv'
      BY <1>7 DEF ReleaseGreeter, Kill, NoticeInv, SharesPid
    <2>5. LiveInv'
      BY <1>7 DEF ReleaseGreeter, Kill, LiveInv, LiveIsRegistered, SharesPid
    <2> QED
      BY <2>1, <2>2, <2>3, <2>4, <2>5
  <1>8. ASSUME NEW t \in Tunnels, Receive(t) PROVE GreeterInv'
    BY <1>8 DEF Receive, BornInv, PidInv, Exists, Alive, LockInv, NoDanglingGreeter,
           ReapInv, MarkedInv, MarkedIsDead, NoticeInv, SharesPid,
           LiveInv, LiveIsRegistered
  <1>9. ASSUME NEW x \in Servers, CreateSession(x) PROVE GreeterInv'
    BY <1>9 DEF CreateSession, BornInv, PidInv, Exists, Alive, LockInv,
           NoDanglingGreeter, ReapInv, MarkedInv, MarkedIsDead, NoticeInv,
           SharesPid, LiveInv, LiveIsRegistered
  <1>10. ASSUME NEW x \in Servers, ForkServer(x) PROVE GreeterInv'
    <2>1. BornInv'
      BY <1>10 DEF ForkServer, Fork, Free, Alive, BornInv
    <2>2. PidInv'
      BY <1>10 DEF ForkServer, Fork, Free, Alive, PidInv, Exists
    <2>3. (LockInv /\ NoDanglingGreeter)'
      BY <1>10 DEF ForkServer, Fork, Free, Alive, LockInv, NoDanglingGreeter
    <2>4. ReapInv'
      BY <1>10 DEF ForkServer, Fork, Free, Alive, ReapInv, Exists
    <2>5. (MarkedInv /\ NoticeInv /\ LiveInv)'
      BY <1>10 DEF ForkServer, Fork, Free, Alive, MarkedInv, MarkedIsDead, BornInv,
             NoticeInv, SharesPid, LiveInv, LiveIsRegistered
    <2> QED
      BY <2>1, <2>2, <2>3, <2>4, <2>5
  <1>11. ASSUME NEW x \in Servers, ForkServerFails(x) PROVE GreeterInv'
    BY <1>11 DEF ForkServerFails, BornInv, PidInv, Exists, Alive, LockInv,
           NoDanglingGreeter, ReapInv, MarkedInv, MarkedIsDead, NoticeInv,
           SharesPid, LiveInv, LiveIsRegistered
  <1>12. ASSUME NEW x \in Servers, CloseWriteEnd(x) PROVE GreeterInv'
    BY <1>12 DEF CloseWriteEnd, BornInv, PidInv, Exists, Alive, LockInv,
           NoDanglingGreeter, ReapInv, MarkedInv, MarkedIsDead, NoticeInv,
           SharesPid, LiveInv, LiveIsRegistered
  <1>13. ASSUME NEW x \in Servers, ReadDisplay(x) PROVE GreeterInv'
    BY <1>13 DEF ReadDisplay, BornInv, PidInv, Exists, Alive, LockInv,
           NoDanglingGreeter, ReapInv, MarkedInv, MarkedIsDead, NoticeInv,
           SharesPid, LiveInv, LiveIsRegistered
  <1>14. ASSUME NEW q \in Programs, Exit(q) PROVE GreeterInv'
    <2>1. (BornInv /\ PidInv /\ LockInv)'
      BY <1>14 DEF Exit, Alive, BornInv, PidInv, Exists, LockInv
    <2>2. (NoDanglingGreeter /\ LiveInv)'
      BY <1>14 DEF Exit, Alive, NoDanglingGreeter, LiveInv, LiveIsRegistered,
             SharesPid
    <2>3. ReapInv'
      BY <1>14 DEF Exit, Alive, ReapInv, Exists
    <2>4. (MarkedInv /\ NoticeInv)'
      BY <1>14 DEF Exit, Alive, MarkedInv, MarkedIsDead, NoticeInv,
             SharesPid
    <2> QED
      BY <2>1, <2>2, <2>3, <2>4
  <1>15. ASSUME NEW q \in Programs, Reap(q) PROVE GreeterInv'
    <2>1. (BornInv /\ PidInv /\ LockInv)'
      BY <1>15 DEF Reap, BornInv, PidInv, Exists, Alive, LockInv
    <2>2. (NoDanglingGreeter /\ LiveInv)'
      BY <1>15 DEF Reap, NoDanglingGreeter, LiveInv, LiveIsRegistered, SharesPid
    <2>3. ReapInv'
      BY <1>15 DEF Reap, ReapInv, Exists, Alive, PidInv
    <2>4. (MarkedInv /\ NoticeInv)'
      BY <1>15 DEF Reap, MarkedInv, MarkedIsDead, NoticeInv, SharesPid
    <2> QED
      BY <2>1, <2>2, <2>3, <2>4
  <1>16. ASSUME SessionDied PROVE GreeterInv'
    BY <1>16 DEF SessionDied, BornInv, PidInv, Exists, Alive, LockInv,
           NoDanglingGreeter, ReapInv, MarkedInv, MarkedIsDead, NoticeInv,
           SharesPid, LiveInv, LiveIsRegistered
  <1>17. ASSUME ChildDied PROVE GreeterInv'
    <2>1. (BornInv /\ PidInv /\ LockInv)'
      BY <1>17 DEF ChildDied, BornInv, PidInv, Exists, Alive, LockInv
    <2>2. (NoDanglingGreeter /\ LiveInv)'
      <3>1. NoDanglingGreeter'
        BY <1>17 DEF ChildDied, NoDanglingGreeter
      <3>2. LiveInv'
        BY <1>17 DEF ChildDied, LiveInv, LiveIsRegistered, SharesPid
      <3> QED
        BY <3>1, <3>2
    <2>3. ReapInv'
      BY <1>17 DEF ChildDied, ReapInv, Exists, Alive, BornInv
    \* The greeter that is marked has the pid that was reaped.
    <2>4. MarkedInv'
      <3>1. SUFFICES ASSUME ~PromptReuse, NEW t \in Tunnels, greeters[reaping] = t
                     PROVE  status[t] = "reaped"
        BY <1>17 DEF ChildDied, MarkedInv, MarkedIsDead
      <3>2. pid[t] = reaping /\ pid[t] # None
        BY <3>1, <1>17 DEF ChildDied, NoDanglingGreeter
      <3> QED
        BY <3>1, <3>2 DEF BornInv, ReapInv, Exists, Alive
    \* Whoever waits to be noticed is in the map, and marked.
    <2>5. NoticeInv'
      <3>1. SUFFICES ASSUME ~PromptReuse, NEW t \in Tunnels,
                            HasGreeter(t) \/ pc[t] = "insert",
                            status[t] = "reaped", ~dead[t], ~SharesPid(t)
                     PROVE  dead'[t]
        BY <1>17 DEF ChildDied, NoticeInv, SharesPid
      <3>2. reaping = pid[t]
        BY <3>1 DEF NoticeInv
      <3>3. HasGreeter(t)
        BY <3>1, <1>17 DEF ChildDied, LockInv
      <3>4. greeters[reaping] = t
        BY <3>1, <3>2, <3>3 DEF LiveInv, LiveIsRegistered
      <3> QED
        BY <3>4, <1>17 DEF ChildDied
    <2> QED
      BY <2>1, <2>2, <2>3, <2>4, <2>5
  <1>18. ASSUME NEW t \in Tunnels, Welcome(t) PROVE GreeterInv'
    BY <1>18 DEF Welcome, BornInv, PidInv, Exists, Alive, LockInv, NoDanglingGreeter,
           ReapInv, MarkedInv, MarkedIsDead, NoticeInv, SharesPid, LiveInv,
           LiveIsRegistered
  <1>19. ASSUME NEW t \in Tunnels, SendSessions(t) PROVE GreeterInv'
    BY <1>19 DEF SendSessions, BornInv, PidInv, Exists, Alive, LockInv, NoDanglingGreeter,
           ReapInv, MarkedInv, MarkedIsDead, NoticeInv, SharesPid, LiveInv,
           LiveIsRegistered
  <1>20. ASSUME NEW t \in Tunnels, Handle(t) PROVE GreeterInv'
    BY <1>20 DEF Handle, BornInv, PidInv, Exists, Alive, LockInv, NoDanglingGreeter,
           ReapInv, MarkedInv, MarkedIsDead, NoticeInv, SharesPid, LiveInv,
           LiveIsRegistered
  <1>21. CASE UNCHANGED vars
    BY <1>21 DEF vars, BornInv, PidInv, Exists, Alive, LockInv, NoDanglingGreeter,
           ReapInv, MarkedInv, MarkedIsDead, NoticeInv, SharesPid, LiveInv,
           LiveIsRegistered
  <1> QED
    BY <1>1, <1>2, <1>3, <1>4, <1>5, <1>6, <1>7, <1>8, <1>9, <1>10, <1>11, <1>12,
           <1>13, <1>14, <1>15, <1>16, <1>17, <1>18, <1>19, <1>20, <1>21
       DEF Next, Call, Serve, Create, Terminated

\* The invariant holds at the start ...
LEMMA GreeterInit == Init => TypeOK /\ GreeterInv
  <1> SUFFICES ASSUME Init PROVE TypeOK /\ GreeterInv
    OBVIOUS
  <1> USE GreeterAssumption DEF Init, Programs, HasGreeter
  <1>1. TypeOK
    BY DEF TypeOK
  <1>2. BornInv /\ LockInv
    BY DEF BornInv, LockInv
  <1>3. PidInv /\ ReapInv
    BY DEF PidInv, ReapInv, Exists, Alive
  <1>4. NoDanglingGreeter /\ MarkedInv
    BY DEF NoDanglingGreeter, MarkedInv, MarkedIsDead
  <1>5. NoticeInv /\ LiveInv
    BY DEF NoticeInv, LiveInv, LiveIsRegistered
  <1> QED
    BY <1>1, <1>2, <1>3, <1>4, <1>5 DEF GreeterInv

\* ... and for ever.
LEMMA GreeterCorrect == Spec => [](TypeOK /\ GreeterInv)
  <1>1. Init => TypeOK /\ GreeterInv
    BY GreeterInit
  <1>2. TypeOK /\ GreeterInv /\ [Next]_vars => (TypeOK /\ GreeterInv)'
    BY TypeStep, GreeterStep DEF GreeterInv
  <1> QED
    BY <1>1, <1>2, PTL DEF Spec
-----------------------------------------------------------------------------
\* Every variable stays within its type, and whoever goes on with a greeter has the
\* pid of a child (GreeterConnection.cpp:59).
THEOREM TypeCorrect == Spec => []TypeOK
  BY GreeterCorrect, PTL

\* GreeterManager::childDied never calls a deleted greeter, even if pids are used
\* again at once.
THEOREM MapLeadsToGreeters == Spec => []NoDanglingGreeter
  <1>1. GreeterInv => NoDanglingGreeter
    BY DEF GreeterInv
  <1> QED
    BY <1>1, GreeterCorrect, PTL

\* GreeterConnection::markDead is only called for dead greeters, if pids are not
\* used again between waitpid and childDied.
THEOREM DeadIsDead ==
    ASSUME ~PromptReuse
    PROVE  Spec => []MarkedIsDead
  <1>1. GreeterInv => MarkedIsDead
    BY DEF GreeterInv, MarkedInv
  <1> QED
    BY <1>1, GreeterCorrect, PTL

\* No death of a greeter is missed, unless its pid is another's (releaseGreeter
\* erases by pid), under the same condition.
THEOREM GreetersStayRegistered ==
    ASSUME ~PromptReuse
    PROVE  Spec => []LiveIsRegistered
  <1>1. GreeterInv => LiveIsRegistered
    BY DEF GreeterInv, LiveInv
  <1> QED
    BY <1>1, GreeterCorrect, PTL

\* ~GreeterConnection's kill() reaches no process but the greeter, unless it shares
\* its pid with another, under the same condition: a greeter that was reaped and
\* is not marked has the pid the main thread is busy with.
THEOREM KillIsSafe ==
    ASSUME ~PromptReuse
    PROVE  Spec => []KillHitsOwn
  <1>1. TypeOK /\ GreeterInv => KillHitsOwn
    <2> SUFFICES ASSUME TypeOK, GreeterInv,
                        NEW t \in Tunnels, NEW q \in Programs \ {t},
                        HasGreeter(t), ~dead[t], ~SharesPid(t), pid[q] = pid[t]
                 PROVE  ~Exists(q)
      BY DEF KillHitsOwn, Exists
    <2> USE GreeterAssumption DEF Programs, HasGreeter
    <2>1. pid[t] # None
      BY DEF TypeOK
    <2>2. CASE Exists(t)
      BY <2>2 DEF GreeterInv, PidInv
    <2>3. CASE ~Exists(t)
      <3>1. status[t] = "reaped"
        BY <2>1, <2>3 DEF GreeterInv, BornInv, TypeOK, Exists, Alive
      <3>2. reaping = pid[t]
        BY <3>1 DEF GreeterInv, NoticeInv
      <3> QED
        BY <3>2 DEF GreeterInv, ReapInv
    <2> QED
      BY <2>2, <2>3
  <1> QED
    BY <1>1, GreeterCorrect, PTL
=============================================================================
