----------------------- MODULE SessionRegistryProofs -----------------------
(***************************************************************************)
(* Theorems about SessionRegistry for any number of threads, sessions and  *)
(* changes: type correctness, the safety of ~Xvnc, the absence of a cycle  *)
(* between the manager's lock and the sessions' locks, that dead sessions  *)
(* leave the list, that the registry implements the life of a session, and *)
(* that a greeter shows what its tunnel believes it shows.                 *)
(*                                                                         *)
(* The argument is about references.  A session's lock is only ever held   *)
(* by a thread that has a reference to the session, or by the one thread   *)
(* in its destructor (OwnerInv); a session in its destructor is neither    *)
(* listed nor referenced, so nobody can reach it, lock it or begin to      *)
(* destroy it again (DestroyInv); and a session under construction is not  *)
(* known to anyone else (ConstructInv).                                    *)
(*                                                                         *)
(* A thread inside of a method of a session has a reference to it or is    *)
(* alone with it in ~Xvnc (LifeInv): with that, every step of the registry *)
(* is a step of SessionLife or leaves the life of every session alone.     *)
(*                                                                         *)
(* Every change of a session is pending until notifySessionChanged counts  *)
(* it (ChangeFacts).  So while the version that a tunnel recorded stays    *)
(* the current one, what its loops have read stays true of all sessions    *)
(* but those with a change pending (SendingInv, CountInv).                 *)
(***************************************************************************)
EXTENDS SessionRegistry, FiniteSetTheorems, TLAPS

\* No list and no reference leads to x.
Unreachable(x) == x \notin listed /\ \A u \in Threads : x \notin Held(u)

\* Who holds the manager's lock is where the code holds it.
HolderInv(t) == mgrOwner = t =>
    \/ pc[t] \in {"scan", "construct", "release"}
    \/ pc[t] \in {"destroy", "notify"} /\ ret[t] = "release"

\* A copy of the list lives inside sendSessions only.
CopyInv(t) == copy[t] # {} =>
    \/ pc[t] \in {"count", "lines", "dropCopy"}
    \/ pc[t] \in {"destroy", "notify"} /\ ret[t] = "dropCopy"

\* Where a nested call returns to.
ReturnInv(t) == pc[t] \in {"destroy", "notify", "assignDesktop", "assignUser"} =>
    ret[t] \in {"connect", "loop", "dropCopy", "close", "serve", "done", "release"}

\* What a client thread is connected to, it references.
TunnelInv(t) ==
    /\ first[t] \in refs[t] \cup {NoSession}
    /\ other[t] \in refs[t] \cup {NoSession}
    /\ pc[t] = "replace" => cur[t] \in refs[t]
    /\ \/ pc[t] \in {"replace", "connect", "loop", "fetch", "count", "lines",
                     "dropCopy", "assignDesktop"}
       \/ pc[t] \in {"destroy", "notify"} /\ ret[t] \in {"connect", "loop", "dropCopy"}
       => first[t] # NoSession

\* A controller references its session, from Attach to Detach.
ControllerInv(c) ==
    /\ refs[c] = IF first[c] = NoSession THEN {} ELSE {first[c]}
    /\ \/ pc[c] \in {"approve", "serve", "assignUser"}
       \/ pc[c] \in {"destroy", "notify"} /\ ret[c] # "done"
       => first[c] # NoSession

\* What is known of a thread from where it is in its program.
LocalInv(t) ==
    /\ HolderInv(t) /\ CopyInv(t) /\ ReturnInv(t)
    /\ t \in Tunnels => TunnelInv(t)
    /\ t \in Controllers => ControllerInv(t)
    /\ t = Main => refs[t] = {}

\* Who holds a session's lock is inside one of its methods.
OwnerInv ==
    \A x \in Sessions, u \in Threads : xOwner[x] = u =>
        /\ pc[u] \in {"assignDesktop", "notify"}
        /\ cur[u] = x
        /\ x \in refs[u] \/ Unreachable(x)

\* A destructor is alone with its session.
DestroyInv ==
    \A t \in Threads : pc[t] = "destroy" =>
        /\ cur[t] \in Sessions
        /\ Unreachable(cur[t])
        /\ xOwner[cur[t]] = Nobody
        /\ \A u \in Threads : pc[u] = "destroy" /\ cur[u] = cur[t] => u = t

\* A constructor is alone with its session too.
ConstructInv ==
    \A t \in Threads : pc[t] = "construct" =>
        /\ cur[t] \in Sessions
        /\ Unreachable(cur[t])
        /\ xOwner[cur[t]] = Nobody
        /\ \A u \in Threads : pc[u] \in {"destroy", "construct"} /\ cur[u] = cur[t]
                                 => u = t

\* Ids that were not handed out are nowhere.
FreshInv ==
    \A x \in Sessions : x >= nextId =>
        /\ Unreachable(x)
        /\ xOwner[x] = Nobody
        /\ \A t \in Threads : pc[t] \in {"destroy", "construct"} => cur[t] # x

SessionInv == OwnerInv /\ DestroyInv /\ ConstructInv /\ FreshInv

\* The inductive invariant.
RegistryInv == SessionInv /\ \A t \in Threads : LocalInv(t)

\* A step of t leaves the other threads alone.
OthersStay(t) ==
    /\ \A u \in Threads \ {t} :
        /\ pc'[u] = pc[u] /\ ret'[u] = ret[u] /\ cur'[u] = cur[u]
        /\ refs'[u] = refs[u] /\ copy'[u] = copy[u] /\ first'[u] = first[u]
    /\ \A u \in Tunnels \ {t} : other'[u] = other[u]
    /\ mgrOwner' \in {mgrOwner, t, Nobody}
-----------------------------------------------------------------------------
(* Type correctness *)

\* The kinds of threads.
LEMMA ThreadKinds ==
    /\ Tunnels \subseteq Threads
    /\ Controllers \subseteq Threads
    /\ Main \in Threads
    /\ Nobody \notin Threads
    /\ NoSession \notin Sessions
    /\ Tunnels \cap Controllers = {}
    /\ Main \notin Tunnels \cup Controllers
  BY RegistryAssumption DEF Threads, Sessions

\* The labels of pc.
LEMMA Labels ==
    /\ "scan" \in PCs /\ "create" \in PCs /\ "construct" \in PCs /\ "connect" \in PCs
    /\ "replace" \in PCs /\ "loop" \in PCs /\ "fetch" \in PCs /\ "count" \in PCs
    /\ "lines" \in PCs /\ "dropCopy" \in PCs /\ "close" \in PCs /\ "null" \in PCs
    /\ "done" \in PCs /\ "approve" \in PCs /\ "serve" \in PCs /\ "idle" \in PCs
    /\ "childDied" \in PCs /\ "release" \in PCs /\ "assignDesktop" \in PCs
    /\ "assignUser" \in PCs /\ "notify" \in PCs /\ "destroy" \in PCs /\ "none" \in PCs
    /\ "start" \in PCs /\ "attach" \in PCs
  BY DEF PCs

\* What a thread's control state is after it let go of a session.
LEMMA LetGoType ==
    ASSUME ControlType, NEW t \in Threads, NEW x \in Sessions \cup {NoSession},
           NEW b, NEW l \in PCs, LetGo(t, x, b, l)
    PROVE  /\ pc' \in [Threads -> PCs]
           /\ ret' \in [Threads -> PCs]
           /\ cur' \in [Threads -> Sessions \cup {NoSession}]
  BY Labels DEF ControlType, LetGo, Goto

\* What a session and its caller are after markVisible's first step.
LEMMA MarkVisibleType ==
    ASSUME ControlType, ObjectType, NEW t \in Threads,
           NEW x \in Sessions \cup {NoSession},
           NEW v \in BOOLEAN, NEW l \in PCs, MarkVisible(t, x, v, l),
           UNCHANGED <<process, new>>
    PROVE  ControlType' /\ ObjectType'
  <1>1. ControlType'
    BY Labels DEF ControlType, MarkVisible, Goto
  <1>2. xOwner' \in [Sessions -> Threads \cup {Nobody}]
    BY DEF ObjectType, MarkVisible
  <1>3. visible' \in [Sessions -> BOOLEAN]
    BY DEF ObjectType, MarkVisible
  <1>4. QED
    BY <1>1, <1>2, <1>3 DEF ObjectType, MarkVisible

\* Every action keeps the types: one step per action, and under it one per
\* group of variables it touches.
LEMMA TypeStep == TypeOK /\ ConstructInv /\ [Next]_vars => TypeOK'
  <1> SUFFICES ASSUME TypeOK, ConstructInv, [Next]_vars PROVE TypeOK'
    OBVIOUS
  <1> USE ThreadKinds, Labels DEF TypeOK
  <1>1. ASSUME NEW t \in Tunnels, Start(t)
         PROVE TypeOK'
    <2>1. ManagerType'
      BY <1>1 DEF Start, ManagerType, Goto, manager
    <2>2. ControlType'
      BY <1>1 DEF Start, ControlType, Goto, control
    <2>3. GreeterType'
      BY <1>1 DEF Start, GreeterType, Goto, greeters
    <2>4. SendingType'
      BY <1>1 DEF Start, SendingType, ManagerType
    <2>5. ObjectType' /\ HoldingType'
      BY <1>1 DEF Start, ObjectType, HoldingType,
         objects, holding, control
    <2> QED
      BY <2>1, <2>2, <2>3, <2>4, <2>5
  <1>2. ASSUME NEW t \in Tunnels, Scan(t)
         PROVE TypeOK'
    <2>1. ManagerType'
      BY <1>2 DEF Scan, ManagerType, Goto, manager
    <2>2. ControlType'
      BY <1>2 DEF Scan, ControlType, Goto, control
    <2>3. GreeterType'
      BY <1>2 DEF Scan, GreeterType, Goto, greeters
    <2>4. SendingType'
      BY <1>2 DEF Scan, SendingType, Goto, sending
    <2>5. ObjectType' /\ HoldingType'
      BY <1>2 DEF Scan, ObjectType, HoldingType,
         objects, holding, control
    <2> QED
      BY <2>1, <2>2, <2>3, <2>4, <2>5
  <1>3. ASSUME NEW t \in Tunnels, CreateSession(t)
         PROVE TypeOK'
    <2>1. nextId \in Sessions /\ nextId + 1 \in 0 .. MaxSessions
      BY <1>3, RegistryAssumption DEF CreateSession, ManagerType, Sessions
    <2>2. ManagerType'
      BY <1>3, <2>1 DEF CreateSession, ManagerType, Goto, manager
    <2>3. ObjectType'
      BY <1>3 DEF CreateSession, ObjectType, Goto, objects
    <2>4. ControlType'
      BY <1>3, <2>1 DEF CreateSession, ControlType, Goto, control
    <2>5. HoldingType' /\ GreeterType' /\ SendingType'
      BY <1>3 DEF CreateSession, HoldingType, GreeterType, SendingType,
         holding, greeters, sending, control
    <2> QED
      BY <2>2, <2>3, <2>4, <2>5
  <1>4. ASSUME NEW t \in Tunnels, Constructed(t)
         PROVE TypeOK'
    <2>1. cur[t] \in Sessions
      BY <1>4 DEF ConstructInv, Constructed
    <2>2. ManagerType'
      BY <1>4, <2>1 DEF Constructed, ManagerType, Goto, manager
    <2>3. ControlType'
      BY <1>4 DEF Constructed, ControlType, Goto, control
    <2>4. HoldingType'
      BY <1>4, <2>1 DEF Constructed, HoldingType, Goto, holding
    <2>5. ObjectType' /\ GreeterType' /\ SendingType'
      BY <1>4 DEF Constructed, ObjectType, GreeterType, SendingType,
         objects, greeters, sending, control
    <2> QED
      BY <2>2, <2>3, <2>4, <2>5
  <1>5. ASSUME NEW t \in Tunnels, CreateFails(t)
         PROVE TypeOK'
    <2>1. ManagerType'
      BY <1>5 DEF CreateFails, ManagerType, Goto, manager
    <2>2. ControlType'
      BY <1>5 DEF CreateFails, ControlType, Goto, control
    <2>3. ObjectType' /\ HoldingType' /\ GreeterType' /\ SendingType'
      BY <1>5 DEF CreateFails, ObjectType, HoldingType, GreeterType, SendingType,
         objects, holding, greeters, sending, control
    <2> QED
      BY <2>1, <2>2, <2>3
  <1>6. ASSUME NEW t \in Tunnels, New(t)
         PROVE TypeOK'
    <2>1. ControlType'
      BY <1>6 DEF New, ControlType, Goto, control
    <2>2. ManagerType' /\ ObjectType' /\ HoldingType' /\ GreeterType' /\ SendingType'
      BY <1>6 DEF New, ManagerType, ObjectType, HoldingType, GreeterType, SendingType,
         manager, objects, holding, greeters, sending, control
    <2> QED
      BY <2>1, <2>2
  <1>7. ASSUME NEW t \in Tunnels, Replace(t)
         PROVE TypeOK'
    <2>1. ControlType'
      <3>1. other[t] \in Sessions \cup {NoSession}
        BY DEF HoldingType, ControlType
      <3>2. QED
        BY <1>7, <3>1, LetGoType DEF Replace, ControlType, Goto, control
    <2>2. HoldingType'
      BY <1>7 DEF Replace, HoldingType, ControlType
    <2>3. ManagerType' /\ ObjectType' /\ GreeterType' /\ SendingType'
      BY <1>7 DEF Replace, ManagerType, ObjectType, GreeterType, SendingType,
         manager, objects, greeters, sending, control
    <2> QED
      BY <2>1, <2>2, <2>3
  <1>8. ASSUME NEW t \in Tunnels, Connect(t)
         PROVE TypeOK'
    <2>1. ControlType'
      BY <1>8 DEF Connect, ControlType, Goto, control
    <2>2. ManagerType' /\ ObjectType' /\ HoldingType' /\ GreeterType' /\ SendingType'
      BY <1>8 DEF Connect, ManagerType, ObjectType, HoldingType, GreeterType, SendingType,
         manager, objects, holding, greeters, sending, control
    <2> QED
      BY <2>1, <2>2
  <1>9. ASSUME NEW t \in Tunnels, Abandon(t)
         PROVE TypeOK'
    <2>1. ControlType'
      <3>1. other[t] \in Sessions \cup {NoSession}
        BY DEF HoldingType, ControlType
      <3>2. QED
        BY <1>9, <3>1, LetGoType DEF Abandon, ControlType, Goto, control
    <2>2. HoldingType'
      BY <1>9 DEF Abandon, HoldingType, Goto, holding
    <2>3. ManagerType' /\ ObjectType' /\ GreeterType' /\ SendingType'
      BY <1>9 DEF Abandon, ManagerType, ObjectType, GreeterType, SendingType,
         manager, objects, greeters, sending, control
    <2> QED
      BY <2>1, <2>2, <2>3
  <1>10. ASSUME NEW t \in Tunnels, Switch(t)
         PROVE TypeOK'
    <2>1. GreeterType'
      BY <1>10 DEF Switch, GreeterType, Goto, greeters, EndGreeter
    <2>2. ManagerType' /\ ObjectType' /\ ControlType' /\ HoldingType' /\ SendingType'
      BY <1>10 DEF Switch, EndGreeter,
         ManagerType, ObjectType, ControlType, HoldingType, SendingType,
         manager, objects, control, holding, sending
    <2> QED
      BY <2>1, <2>2
  <1>11. ASSUME NEW t \in Tunnels, Close(t)
         PROVE TypeOK'
    <2>1. ControlType'
      BY <1>11 DEF Close, ControlType, Goto, control
    <2>2. ManagerType' /\ ObjectType' /\ HoldingType' /\ GreeterType' /\ SendingType'
      BY <1>11 DEF Close, ManagerType, ObjectType, HoldingType, GreeterType, SendingType,
         manager, objects, holding, greeters, sending, control
    <2> QED
      BY <2>1, <2>2
  <1>12. ASSUME NEW t \in Tunnels, Finish(t)
         PROVE TypeOK'
    <2>1. ControlType'
      <3>1. CASE Goto(t, "done") /\ UNCHANGED <<ret, cur>>
        BY <1>12, <3>1 DEF Finish, ControlType, Goto
      <3>2. ASSUME NEW x \in refs[t],
                   LetGo(t, x, x \in listed \/ HeldElsewhere(t, x), "close")
            PROVE  ControlType'
        <4>1. x \in Sessions
          BY DEF HoldingType, SendingType
        <4>2. QED
          BY <1>12, <3>2, <4>1, LetGoType DEF Finish, ControlType
      <3>3. QED
        BY <1>12, <3>1, <3>2 DEF Finish
    <2>2. HoldingType'
      BY <1>12 DEF Finish, HoldingType, Goto, holding, EndGreeter
    <2>3. GreeterType'
      BY <1>12 DEF Finish, GreeterType, Goto, greeters, EndGreeter
    <2>4. ManagerType' /\ ObjectType' /\ SendingType'
      BY <1>12 DEF Finish, EndGreeter,
         ManagerType, ObjectType, SendingType,
         manager, objects, sending
    <2> QED
      BY <2>1, <2>2, <2>3, <2>4
  <1>13. ASSUME NEW t \in Tunnels, Update(t)
         PROVE TypeOK'
    <2>1. ControlType'
      BY <1>13 DEF Update, ControlType, Goto, control
    <2>2. GreeterType'
      BY <1>13 DEF Update, GreeterType, ManagerType
    <2>3. ManagerType' /\ ObjectType' /\ HoldingType' /\ SendingType'
      BY <1>13 DEF Update, ManagerType, ObjectType, HoldingType, SendingType,
         manager, objects, holding, sending, control
    <2> QED
      BY <2>1, <2>2, <2>3
  <1>14. ASSUME NEW t \in Tunnels, Fetch(t)
         PROVE TypeOK'
    <2>1. ControlType'
      BY <1>14 DEF Fetch, ControlType, Goto, control
    <2>2. SendingType'
      BY <1>14 DEF Fetch, SendingType, ManagerType
    <2>3. ManagerType' /\ ObjectType' /\ HoldingType' /\ GreeterType'
      BY <1>14 DEF Fetch, ManagerType, ObjectType, HoldingType, GreeterType,
         manager, objects, holding, greeters, control
    <2> QED
      BY <2>1, <2>2, <2>3
  <1>15. ASSUME NEW t \in Tunnels, Count(t)
         PROVE TypeOK'
    <2>1. ControlType'
      BY <1>15 DEF Count, ControlType, Goto, control
    <2>2. SendingType'
      <3>1. count' \in [Tunnels -> Nat]
        BY <1>15 DEF Count, SendingType
      <3>2. todo' \in [Tunnels -> SUBSET Sessions]
        BY <1>15 DEF Count, SendingType
      <3>3. QED
        BY <1>15, <3>1, <3>2 DEF Count, SendingType
    <2>3. ManagerType' /\ ObjectType' /\ HoldingType' /\ GreeterType'
      BY <1>15 DEF Count, ManagerType, ObjectType, HoldingType, GreeterType,
         manager, objects, holding, greeters, control
    <2> QED
      BY <2>1, <2>2, <2>3
  <1>16. ASSUME NEW t \in Tunnels, WriteLine(t)
         PROVE TypeOK'
    <2>1. ControlType'
      BY <1>16 DEF WriteLine, ControlType, Goto, control
    <2>2. GreeterType'
      BY <1>16 DEF WriteLine, GreeterType, SendingType
    <2>3. SendingType'
      <3>1. todo' \in [Tunnels -> SUBSET Sessions] /\ count' \in [Tunnels -> Nat]
        BY <1>16 DEF WriteLine, SendingType
      <3>2. CASE \/ UNCHANGED lines
                 \/ lines' = [lines EXCEPT ![t] = {}]
        BY <1>16, <3>1, <3>2 DEF WriteLine, SendingType
      <3>3. ASSUME NEW x \in todo[t], NEW u \in Reads(x, username, "assignUser"),
                   NEW d \in Reads(x, desktopName, "assignDesktop"),
                   lines' = [lines EXCEPT ![t] = @ \cup {<<x, u, d>>}]
            PROVE  SendingType'
        <4>1. x \in Sessions
          BY DEF SendingType
        <4>2. u \in Names /\ d \in Names
          BY <3>3, <4>1 DEF Reads, ObjectType
        <4>3. lines' \in [Tunnels -> SUBSET (Sessions \X Names \X Names)]
          BY <3>3, <4>1, <4>2 DEF SendingType
        <4>4. QED
          BY <1>16, <3>1, <4>3 DEF WriteLine, SendingType
      <3>4. QED
        BY <1>16, <3>2, <3>3 DEF WriteLine
    <2>4. ManagerType' /\ ObjectType' /\ HoldingType'
      BY <1>16 DEF WriteLine, ManagerType, ObjectType, HoldingType,
         manager, objects, holding, control
    <2> QED
      BY <2>1, <2>2, <2>3, <2>4
  <1>17. ASSUME NEW t \in Tunnels, DropCopy(t)
         PROVE TypeOK'
    <2>1. ControlType'
      <3>1. CASE Goto(t, "loop") /\ UNCHANGED <<ret, cur>>
        BY <1>17, <3>1 DEF DropCopy, ControlType, Goto
      <3>2. ASSUME NEW x \in copy[t],
                   LetGo(t, x, x \in listed \/ x \in refs[t] \/ HeldElsewhere(t, x), "dropCopy")
            PROVE  ControlType'
        <4>1. x \in Sessions
          BY DEF HoldingType, SendingType
        <4>2. QED
          BY <1>17, <3>2, <4>1, LetGoType DEF DropCopy, ControlType
      <3>3. QED
        BY <1>17, <3>1, <3>2 DEF DropCopy
    <2>2. SendingType'
      BY <1>17 DEF DropCopy, SendingType, Goto, sending
    <2>3. ManagerType' /\ ObjectType' /\ HoldingType' /\ GreeterType'
      BY <1>17 DEF DropCopy, ManagerType, ObjectType, HoldingType, GreeterType,
         manager, objects, holding, greeters, control
    <2> QED
      BY <2>1, <2>2, <2>3
  <1>18. ASSUME NEW t \in Tunnels, AssignDesktopName(t)
         PROVE TypeOK'
    <2>1. ObjectType'
      BY <1>18 DEF AssignDesktopName, ObjectType, ControlType
    <2>2. ControlType'
      BY <1>18, RegistryAssumption DEF AssignDesktopName, ControlType, Goto, control
    <2>3. ManagerType' /\ HoldingType' /\ GreeterType' /\ SendingType'
      BY <1>18 DEF AssignDesktopName, ManagerType, HoldingType, GreeterType, SendingType,
         manager, holding, greeters, sending, control
    <2> QED
      BY <2>1, <2>2, <2>3
  <1>19. ASSUME NEW t \in Tunnels, NEW x \in Sessions, Open(t, x)
         PROVE TypeOK'
    <2>1. ControlType'
      BY <1>19 DEF Open, ControlType, Goto, control
    <2>2. HoldingType'
      BY <1>19 DEF Open, HoldingType, Goto, holding
    <2>3. ManagerType' /\ ObjectType' /\ GreeterType' /\ SendingType'
      BY <1>19 DEF Open, ManagerType, ObjectType, GreeterType, SendingType,
         manager, objects, greeters, sending, control
    <2> QED
      BY <2>1, <2>2, <2>3
  <1>20. ASSUME NEW t \in Tunnels, NEW x \in Sessions, NEW n \in Names,
                SetDesktopName(t, x, n)
         PROVE TypeOK'
    <2>1. ObjectType'
      BY <1>20 DEF SetDesktopName, ObjectType, Goto, objects
    <2>2. ControlType'
      BY <1>20 DEF SetDesktopName, ControlType, Goto, control
    <2>3. ManagerType' /\ HoldingType' /\ GreeterType' /\ SendingType'
      BY <1>20 DEF SetDesktopName, ManagerType, HoldingType, GreeterType, SendingType,
         manager, holding, greeters, sending, control
    <2> QED
      BY <2>1, <2>2, <2>3
  <1>21. ASSUME NEW c \in Controllers, Attach(c)
         PROVE TypeOK'
    <2>1. ControlType'
      BY <1>21 DEF Attach, ControlType, Goto, control
    <2>2. HoldingType'
      BY <1>21 DEF Attach, HoldingType, ManagerType
    <2>3. ManagerType' /\ ObjectType' /\ GreeterType' /\ SendingType'
      BY <1>21 DEF Attach, ManagerType, ObjectType, GreeterType, SendingType,
         manager, objects, greeters, sending, control
    <2> QED
      BY <2>1, <2>2, <2>3
  <1>22. ASSUME NEW c \in Controllers, Detach(c)
         PROVE TypeOK'
    <2>1. ControlType'
      <3>1. first[c] \in Sessions \cup {NoSession}
        BY DEF HoldingType, ControlType
      <3>2. QED
        BY <1>22, <3>1, LetGoType DEF Detach, ControlType, Goto, control
    <2>2. HoldingType'
      BY <1>22 DEF Detach, HoldingType, Goto, holding
    <2>3. ManagerType' /\ ObjectType' /\ GreeterType' /\ SendingType'
      BY <1>22 DEF Detach, ManagerType, ObjectType, GreeterType, SendingType,
         manager, objects, greeters, sending, control
    <2> QED
      BY <2>1, <2>2, <2>3
  <1>23. ASSUME NEW c \in Controllers, AssignUsername(c)
         PROVE TypeOK'
    <2>1. ObjectType'
      BY <1>23 DEF AssignUsername, ObjectType, ControlType
    <2>2. ControlType'
      BY <1>23, RegistryAssumption DEF AssignUsername, ControlType, Goto, control
    <2>3. ManagerType' /\ HoldingType' /\ GreeterType' /\ SendingType'
      BY <1>23 DEF AssignUsername, ManagerType, HoldingType, GreeterType, SendingType,
         manager, holding, greeters, sending, control
    <2> QED
      BY <2>1, <2>2, <2>3
  <1>24. ASSUME NEW c \in Controllers, NEW n \in Names, SetSessionUsername(c, n)
         PROVE TypeOK'
    <2>1. ControlType'
      BY <1>24 DEF SetSessionUsername, ControlType, HoldingType, Goto
    <2>2. ManagerType' /\ ObjectType' /\ HoldingType' /\ GreeterType' /\ SendingType'
      BY <1>24 DEF SetSessionUsername, ManagerType, ObjectType, HoldingType, GreeterType, SendingType,
         manager, objects, holding, greeters, sending, control
    <2> QED
      BY <2>1, <2>2
  <1>25. ASSUME NEW c \in Controllers, NEW v \in BOOLEAN, Visible(c, v)
         PROVE TypeOK'
    <2>1. ControlType' /\ ObjectType'
      <3>1. first[c] \in Sessions \cup {NoSession}
        BY DEF HoldingType, ControlType
      <3>2. QED
        BY <1>25, <3>1, MarkVisibleType DEF Visible
    <2>2. ManagerType' /\ HoldingType' /\ GreeterType' /\ SendingType'
      BY <1>25 DEF Visible, ManagerType, HoldingType, GreeterType, SendingType,
         manager, holding, greeters, sending
    <2> QED
      BY <2>1, <2>2
  <1>26. ASSUME NEW t \in Threads, Notify(t)
         PROVE TypeOK'
    <2>1. ManagerType'
      BY <1>26 DEF Notify, ManagerType, Goto, manager
    <2>2. ObjectType'
      BY <1>26 DEF Notify, ObjectType, Goto, objects
    <2>3. ControlType'
      BY <1>26 DEF Notify, Return, Goto, ControlType
    <2>4. HoldingType' /\ GreeterType' /\ SendingType'
      BY <1>26 DEF Notify, HoldingType, GreeterType, SendingType,
         holding, greeters, sending, control
    <2> QED
      BY <2>1, <2>2, <2>3, <2>4
  <1>27. ASSUME NEW t \in Threads, Destroy(t)
         PROVE TypeOK'
    <2>1. ControlType' /\ ObjectType'
      <3>1. cur[t] \in Sessions \cup {NoSession} /\ ret[t] \in PCs
        BY DEF HoldingType, ControlType
      <3>2. QED
        BY <1>27, <3>1, MarkVisibleType DEF Destroy
    <2>2. ManagerType' /\ HoldingType' /\ GreeterType' /\ SendingType'
      BY <1>27 DEF Destroy, ManagerType, HoldingType, GreeterType, SendingType,
         manager, holding, greeters, sending
    <2> QED
      BY <2>1, <2>2
  <1>28. ASSUME NEW x \in Sessions, Reap(x)
         PROVE TypeOK'
    <2>1. ObjectType'
      BY <1>28 DEF Reap, ObjectType, Goto, objects
    <2>2. ControlType'
      BY <1>28 DEF Reap, ControlType, Goto, control
    <2>3. ManagerType' /\ HoldingType' /\ GreeterType' /\ SendingType'
      BY <1>28 DEF Reap, ManagerType, HoldingType, GreeterType, SendingType,
         manager, holding, greeters, sending, control
    <2> QED
      BY <2>1, <2>2, <2>3
  <1>29. ASSUME ChildDied
         PROVE TypeOK'
    <2>1. ManagerType'
      BY <1>29 DEF ChildDied, ManagerType, Goto, manager
    <2>2. ControlType'
      <3>1. cur[Main] \in Sessions \cup {NoSession}
        BY DEF HoldingType, ControlType
      <3>2. QED
        BY <1>29, <3>1, LetGoType DEF ChildDied, ControlType, Goto, control
    <2>3. ObjectType' /\ HoldingType' /\ GreeterType' /\ SendingType'
      BY <1>29 DEF ChildDied, ObjectType, HoldingType, GreeterType, SendingType,
         objects, holding, greeters, sending, control
    <2> QED
      BY <2>1, <2>2, <2>3
  <1>30. ASSUME Release
         PROVE TypeOK'
    <2>1. ManagerType'
      BY <1>30 DEF Release, ManagerType, Goto, manager
    <2>2. ControlType'
      BY <1>30 DEF Release, ControlType, Goto, control
    <2>3. ObjectType' /\ HoldingType' /\ GreeterType' /\ SendingType'
      BY <1>30 DEF Release, ObjectType, HoldingType, GreeterType, SendingType,
         objects, holding, greeters, sending, control
    <2> QED
      BY <2>1, <2>2, <2>3
  <1>31. ASSUME NEW x \in Sessions, Die(x)
         PROVE TypeOK'
    <2>1. ObjectType'
      BY <1>31 DEF Die, ObjectType, Goto, objects
    <2>2. ControlType'
      BY <1>31 DEF Die, ControlType, Goto, control
    <2>3. ManagerType' /\ HoldingType' /\ GreeterType' /\ SendingType'
      BY <1>31 DEF Die, ManagerType, HoldingType, GreeterType, SendingType,
         manager, holding, greeters, sending, control
    <2> QED
      BY <2>1, <2>2, <2>3
  <1>32. CASE UNCHANGED vars
    BY <1>32 DEF vars, ManagerType, ObjectType, ControlType, HoldingType, GreeterType, SendingType
  <1>33. QED
    <2>1. ASSUME NEW t \in Tunnels, TunnelStep(t) PROVE TypeOK'
      BY <2>1, <1>1, <1>2, <1>3, <1>4, <1>5, <1>6, <1>7, <1>8, <1>9, <1>10, <1>11,
         <1>12, <1>13, <1>14, <1>15, <1>16, <1>17, <1>18, <1>19, <1>20 DEF TunnelStep
    <2>2. ASSUME NEW c \in Controllers, ControllerStep(c) PROVE TypeOK'
      BY <2>2, <1>21, <1>22, <1>23, <1>24, <1>25 DEF ControllerStep
    <2>3. CASE MainStep
      BY <2>3, <1>28, <1>29, <1>30 DEF MainStep
    <2>4. QED
      BY <2>1, <2>2, <2>3, <1>26, <1>27, <1>31, <1>32 DEF Next, Terminated
-----------------------------------------------------------------------------
(* The inductive invariant *)

\* A step of t has only to keep what is known of t.
LEMMA LocalStep ==
    ASSUME RegistryInv, NEW t \in Threads, OthersStay(t), LocalInv(t)'
    PROVE  \A u \in Threads : LocalInv(u)'
  <1> SUFFICES ASSUME NEW u \in Threads \ {t} PROVE LocalInv(u)'
    OBVIOUS
  <1>1. LocalInv(u)
    BY DEF RegistryInv
  <1>2. HolderInv(u)' /\ CopyInv(u)' /\ ReturnInv(u)'
    BY <1>1, ThreadKinds DEF LocalInv, HolderInv, CopyInv, ReturnInv, OthersStay
  <1>3. u \in Tunnels => TunnelInv(u)'
    BY <1>1 DEF LocalInv, TunnelInv, OthersStay
  <1>4. u \in Controllers => ControllerInv(u)'
    BY <1>1 DEF LocalInv, ControllerInv, OthersStay
  <1>5. u = Main => refs'[u] = {}
    BY <1>1 DEF LocalInv, OthersStay
  <1>6. QED
    BY <1>2, <1>3, <1>4, <1>5 DEF LocalInv

\* What nobody could reach stays out of reach.
NothingReached == \A x \in Sessions : Unreachable(x) => Unreachable(x)'

\* A lock stays with a session that stays out of reach.
LEMMA OwnersKept ==
    ASSUME RegistryInv, NEW t \in Threads, OthersStay(t), NothingReached,
           pc[t] \notin {"assignDesktop", "notify"}, UNCHANGED xOwner
    PROVE  OwnerInv'
  BY DEF RegistryInv, SessionInv, OwnerInv, OthersStay, NothingReached

\* A step that neither begins nor ends a constructor, a destructor or a critical
\* section of a session, and gets hold of no session but those in the list.
LEMMA QuietStep ==
    ASSUME RegistryInv, NEW t \in Threads, OthersStay(t), NothingReached,
           pc[t] \notin {"assignDesktop", "notify"},
           pc'[t] \notin {"construct", "destroy"}, UNCHANGED <<nextId, xOwner>>
    PROVE  SessionInv'
  <1>1. OwnerInv'
    BY OwnersKept
  <1>2. DestroyInv'
    BY DEF RegistryInv, SessionInv, DestroyInv, OthersStay, NothingReached
  <1>3. ConstructInv'
    BY DEF RegistryInv, SessionInv, ConstructInv, OthersStay, NothingReached
  <1>4. FreshInv'
    BY DEF RegistryInv, SessionInv, FreshInv, OthersStay, NothingReached
  <1>5. QED
    BY <1>1, <1>2, <1>3, <1>4 DEF SessionInv

\* A thread that drops the last reference to x has x to itself.
LEMMA LastReference ==
    ASSUME TypeOK, RegistryInv, NEW t \in Threads, NEW x \in Sessions,
           ~Unreachable(x), ~HeldElsewhere(t, x),
           pc[t] \notin {"assignDesktop", "notify"}
    PROVE  /\ xOwner[x] = Nobody
           /\ \A u \in Threads : pc[u] \in {"destroy", "construct"} => cur[u] # x
           /\ x < nextId
  <1>1. \A u \in Threads : xOwner[x] # u
    BY DEF RegistryInv, SessionInv, OwnerInv, HeldElsewhere, Held
  <1>2. xOwner[x] = Nobody
    BY <1>1 DEF TypeOK, ObjectType
  <1>3. \A u \in Threads : pc[u] \in {"destroy", "construct"} => cur[u] # x
    BY DEF RegistryInv, SessionInv, DestroyInv, ConstructInv
  <1>4. x < nextId
    BY DEF RegistryInv, SessionInv, FreshInv, TypeOK, ManagerType, Sessions
  <1>5. QED
    BY <1>2, <1>3, <1>4

\* Letting go of a session keeps the destructors and constructors alone.
LEMMA LetGoStep ==
    ASSUME TypeOK, RegistryInv, NEW t \in Threads, NEW x \in Sessions,
           NEW b \in BOOLEAN, NEW l \in PCs \ {"destroy", "construct"},
           LetGo(t, x, b, l), OthersStay(t), NothingReached, ~Unreachable(x),
           ~b => ~HeldElsewhere(t, x) /\ Unreachable(x)',
           pc[t] \notin {"assignDesktop", "notify"}, UNCHANGED <<nextId, xOwner>>
    PROVE  SessionInv'
  <1>1. CASE b
    <2>1. pc'[t] \notin {"destroy", "construct"}
      BY <1>1 DEF LetGo, Goto, TypeOK, ControlType
    <2>2. QED
      BY <2>1, QuietStep
  <1>2. CASE ~b
    <2>1. pc'[t] = "destroy" /\ cur'[t] = x
      BY <1>2 DEF LetGo, Goto, TypeOK, ControlType
    <2>2. /\ xOwner[x] = Nobody
          /\ \A u \in Threads : pc[u] \in {"destroy", "construct"} => cur[u] # x
          /\ x < nextId
      BY <1>2, LastReference
    <2>3. OwnerInv'
      BY OwnersKept
    <2>4. DestroyInv'
      BY <1>2, <2>1, <2>2 DEF RegistryInv, SessionInv, DestroyInv, OthersStay, NothingReached
    <2>5. ConstructInv'
      BY <1>2, <2>1, <2>2 DEF RegistryInv, SessionInv, ConstructInv, OthersStay, NothingReached
    <2>6. FreshInv'
      BY <2>1, <2>2 DEF RegistryInv, SessionInv, FreshInv, OthersStay, NothingReached,
         TypeOK, ManagerType, Sessions
    <2>7. QED
      BY <2>3, <2>4, <2>5, <2>6 DEF SessionInv
  <1>3. QED
    BY <1>1, <1>2

\* markVisible on a session of one's own, or in its destructor.
LEMMA MarkVisibleStep ==
    ASSUME TypeOK, RegistryInv, NEW t \in Threads, NEW x \in Sessions,
           NEW v \in BOOLEAN, NEW l \in PCs \ {"destroy", "construct"},
           MarkVisible(t, x, v, l), OthersStay(t),
           UNCHANGED <<nextId, listed, refs, copy>>,
           \/ pc[t] = "serve" /\ x \in refs[t]
           \/ pc[t] = "destroy" /\ cur[t] = x
    PROVE  SessionInv'
  <1>1. NothingReached /\ \A y \in Sessions : Unreachable(y)' => Unreachable(y)
    BY DEF NothingReached, Unreachable, Held
  <1>2. pc'[t] \notin {"destroy", "construct"}
    BY DEF MarkVisible, Goto, TypeOK, ControlType
  <1>3. CASE UNCHANGED xOwner
    BY <1>1, <1>2, <1>3, QuietStep
  <1>4. CASE xOwner' = [xOwner EXCEPT ![x] = t] /\ pc'[t] = "notify" /\ cur'[t] = x
    <2>1. \A y \in Sessions \ {x} : xOwner'[y] = xOwner[y]
      BY <1>4 DEF TypeOK, ObjectType
    <2>2. xOwner'[x] = t
      BY <1>4 DEF TypeOK, ObjectType
    <2>3. \A u \in Threads : pc[u] \in {"destroy", "construct"} /\ cur[u] = x => u = t
      BY DEF RegistryInv, SessionInv, DestroyInv, ConstructInv, Unreachable, Held
    <2>4. x < nextId
      BY DEF RegistryInv, SessionInv, FreshInv, Unreachable, Held, TypeOK, ManagerType, Sessions
    <2>5. x \in refs[t] \/ Unreachable(x)
      BY DEF RegistryInv, SessionInv, DestroyInv
    <2>6. OwnerInv'
      <3>1. \A y \in Sessions : xOwner[y] # t
        BY DEF RegistryInv, SessionInv, OwnerInv
      <3>2. ASSUME NEW y \in Sessions \ {x}, NEW u \in Threads, xOwner'[y] = u
            PROVE  /\ pc'[u] \in {"assignDesktop", "notify"}
                   /\ cur'[u] = y
                   /\ y \in refs'[u] \/ Unreachable(y)'
        BY <1>1, <2>1, <3>1, <3>2 DEF RegistryInv, SessionInv, OwnerInv, OthersStay, NothingReached
      <3>3. x \in refs'[t] \/ Unreachable(x)'
        BY <1>1, <2>5 DEF NothingReached
      <3>4. QED
        BY <1>4, <2>2, <3>2, <3>3 DEF OwnerInv
    <2>7. DestroyInv'
      BY <1>1, <1>2, <2>1, <2>3 DEF RegistryInv, SessionInv, DestroyInv, OthersStay, NothingReached
    <2>8. ConstructInv'
      BY <1>1, <1>2, <2>1, <2>3 DEF RegistryInv, SessionInv, ConstructInv, OthersStay, NothingReached
    <2>9. FreshInv'
      BY <1>1, <1>2, <2>1, <2>4 DEF RegistryInv, SessionInv, FreshInv, OthersStay,
         NothingReached, TypeOK, ManagerType, Sessions
    <2>10. QED
      BY <2>6, <2>7, <2>8, <2>9 DEF SessionInv
  <1>5. QED
    BY <1>3, <1>4 DEF MarkVisible, Goto, TypeOK, ControlType

\* Every action keeps the invariant: one step per action, and under it what
\* becomes of the other threads, of the thread itself and of the sessions.
LEMMA RegistryStep == TypeOK /\ RegistryInv /\ [Next]_vars => RegistryInv'
  <1> SUFFICES ASSUME TypeOK, RegistryInv, [Next]_vars PROVE RegistryInv'
    OBVIOUS
  <1> USE ThreadKinds DEF TypeOK
  <1>1. ASSUME NEW t \in Tunnels, Start(t)
         PROVE RegistryInv'
    <2>1. OthersStay(t)
      BY <1>1 DEF Start, OthersStay, Goto, ControlType, HoldingType, SendingType,
         manager, objects, control, holding, sending, greeters
    <2>2. LocalInv(t)'
      <3>1. LocalInv(t)
        BY DEF RegistryInv
      <3>2. QED
        BY <1>1, <3>1 DEF Start, LocalInv, HolderInv, CopyInv, ReturnInv, TunnelInv,
           Goto, ManagerType, ControlType, HoldingType, SendingType, manager, objects,
           control, holding, sending, greeters
    <2>3. NothingReached
      BY <1>1 DEF Start, NothingReached, Unreachable, Held, ManagerType, HoldingType,
         SendingType, manager, objects, control, holding, sending, greeters
    <2>4. SessionInv'
      BY <1>1, <2>1, <2>3, QuietStep DEF Start, Goto, ControlType, manager, objects,
         control
    <2>5. QED
      BY <2>1, <2>2, <2>4, LocalStep DEF RegistryInv
  <1>2. ASSUME NEW t \in Tunnels, Scan(t)
         PROVE RegistryInv'
    <2>1. OthersStay(t)
      BY <1>2 DEF Scan, OthersStay, Goto, ControlType, HoldingType, SendingType,
         manager, objects, control, holding, sending, greeters
    <2>2. LocalInv(t)'
      <3>1. LocalInv(t)
        BY DEF RegistryInv
      <3>2. QED
        BY <1>2, <3>1 DEF Scan, LocalInv, HolderInv, CopyInv, ReturnInv, TunnelInv,
           Goto, ManagerType, ControlType, HoldingType, SendingType, manager, objects,
           control, holding, sending, greeters
    <2>3. NothingReached
      BY <1>2 DEF Scan, NothingReached, Unreachable, Held, ManagerType, HoldingType,
         SendingType, manager, objects, control, holding, sending, greeters
    <2>4. SessionInv'
      BY <1>2, <2>1, <2>3, QuietStep DEF Scan, Goto, ControlType, manager, objects,
         control
    <2>5. QED
      BY <2>1, <2>2, <2>4, LocalStep DEF RegistryInv
  <1>3. ASSUME NEW t \in Tunnels, CreateSession(t)
         PROVE RegistryInv'
    <2>1. OthersStay(t)
      BY <1>3 DEF CreateSession, OthersStay, Goto, ControlType, HoldingType,
         SendingType, manager, objects, control, holding, sending, greeters
    <2>2. LocalInv(t)'
      <3>1. LocalInv(t)
        BY DEF RegistryInv
      <3>2. QED
        BY <1>3, <3>1 DEF CreateSession, LocalInv, HolderInv, CopyInv, ReturnInv,
           TunnelInv, Goto, ManagerType, ControlType, HoldingType, SendingType,
           manager, objects, control, holding, sending, greeters
    <2>3. NothingReached
      BY <1>3 DEF CreateSession, NothingReached, Unreachable, Held, ManagerType,
         HoldingType, SendingType, manager, objects, control, holding, sending,
         greeters
    <2>4. SessionInv'
      <3>1. /\ nextId \in Sessions /\ nextId' = nextId + 1 /\ cur'[t] = nextId
            /\ pc'[t] = "construct" /\ UNCHANGED xOwner /\ pc[t] = "create"
        BY <1>3, RegistryAssumption DEF CreateSession, ManagerType, Sessions, ControlType, Goto,
           objects
      <3>2. /\ Unreachable(nextId) /\ xOwner[nextId] = Nobody
            /\ \A u \in Threads : pc[u] \in {"destroy", "construct"} => cur[u] # nextId
        BY <3>1 DEF RegistryInv, SessionInv, FreshInv, Sessions
      <3>3. OwnerInv'
        BY <2>1, <2>3, <3>1, OwnersKept
      <3>4. DestroyInv'
        BY <2>1, <2>3, <3>1 DEF RegistryInv, SessionInv, DestroyInv, OthersStay, NothingReached
      <3>5. ConstructInv'
        BY <2>1, <2>3, <3>1, <3>2 DEF RegistryInv, SessionInv, ConstructInv, OthersStay,
           NothingReached
      <3>6. FreshInv'
        BY <2>1, <2>3, <3>1 DEF RegistryInv, SessionInv, FreshInv, OthersStay, NothingReached,
           ManagerType, Sessions
      <3>7. QED
        BY <3>3, <3>4, <3>5, <3>6 DEF SessionInv
    <2>5. QED
      BY <2>1, <2>2, <2>4, LocalStep DEF RegistryInv
  <1>4. ASSUME NEW t \in Tunnels, Constructed(t)
         PROVE RegistryInv'
    <2>1. OthersStay(t)
      BY <1>4 DEF Constructed, OthersStay, Goto, ControlType, HoldingType,
         SendingType, manager, objects, control, holding, sending, greeters
    <2>2. LocalInv(t)'
      <3>1. LocalInv(t)
        BY DEF RegistryInv
      <3>2. cur[t] \in Sessions
        BY <1>4 DEF Constructed, RegistryInv, SessionInv, ConstructInv
      <3>3. /\ refs'[t] = refs[t] \cup {cur[t]} /\ pc'[t] \in {"connect", "replace"}
            /\ first'[t] \in {first[t], cur[t]} /\ first'[t] # NoSession
            /\ other'[t] = other[t]
            /\ pc'[t] = "replace" => cur'[t] = cur[t]
            /\ copy'[t] = copy[t] /\ mgrOwner' = Nobody /\ pc[t] = "construct"
        BY <1>4, <3>2 DEF Constructed, Goto, ControlType, HoldingType, sending
      <3>4. HolderInv(t)' /\ CopyInv(t)' /\ ReturnInv(t)'
        BY <3>1, <3>3 DEF LocalInv, HolderInv, CopyInv, ReturnInv
      <3>5. TunnelInv(t)'
        BY <3>1, <3>2, <3>3, <1>4 DEF LocalInv, TunnelInv
      <3>6. QED
        BY <3>4, <3>5 DEF LocalInv
    <2>3. SessionInv'
      <3>1. /\ cur[t] \in Sessions /\ Unreachable(cur[t]) /\ xOwner[cur[t]] = Nobody
            /\ \A u \in Threads \ {t} : pc[u] \in {"destroy", "construct"} => cur[u] # cur[t]
            /\ cur[t] < nextId /\ pc[t] = "construct"
        BY <1>4 DEF Constructed, RegistryInv, SessionInv, ConstructInv, FreshInv, ManagerType, Sessions
      <3>2. /\ pc'[t] \in {"connect", "replace"} /\ UNCHANGED <<nextId, xOwner>>
            /\ \A x \in Sessions \ {cur[t]} : Unreachable(x) => Unreachable(x)'
        BY <1>4 DEF Constructed, Goto, ControlType, HoldingType, Unreachable, Held, objects, sending
      <3>3. OwnerInv'
        BY <2>1, <3>1, <3>2 DEF RegistryInv, SessionInv, OwnerInv, OthersStay
      <3>4. DestroyInv'
        BY <2>1, <3>1, <3>2 DEF RegistryInv, SessionInv, DestroyInv, OthersStay
      <3>5. ConstructInv'
        BY <2>1, <3>1, <3>2 DEF RegistryInv, SessionInv, ConstructInv, OthersStay
      <3>6. FreshInv'
        BY <2>1, <3>1, <3>2 DEF RegistryInv, SessionInv, FreshInv, OthersStay, ManagerType, Sessions
      <3>7. QED
        BY <3>3, <3>4, <3>5, <3>6 DEF SessionInv
    <2>4. QED
      BY <2>1, <2>2, <2>3, LocalStep DEF RegistryInv
  <1>5. ASSUME NEW t \in Tunnels, CreateFails(t)
         PROVE RegistryInv'
    <2>1. OthersStay(t)
      BY <1>5 DEF CreateFails, OthersStay, Goto, ControlType, HoldingType,
         SendingType, manager, objects, control, holding, sending, greeters
    <2>2. LocalInv(t)'
      <3>1. LocalInv(t)
        BY DEF RegistryInv
      <3>2. QED
        BY <1>5, <3>1 DEF CreateFails, LocalInv, HolderInv, CopyInv, ReturnInv,
           TunnelInv, Goto, ManagerType, ControlType, HoldingType, SendingType,
           manager, objects, control, holding, sending, greeters
    <2>3. NothingReached
      BY <1>5 DEF CreateFails, NothingReached, Unreachable, Held, ManagerType,
         HoldingType, SendingType, manager, objects, control, holding, sending,
         greeters
    <2>4. SessionInv'
      BY <1>5, <2>1, <2>3, QuietStep DEF CreateFails, Goto, ControlType, manager,
         objects, control
    <2>5. QED
      BY <2>1, <2>2, <2>4, LocalStep DEF RegistryInv
  <1>6. ASSUME NEW t \in Tunnels, New(t)
         PROVE RegistryInv'
    <2>1. OthersStay(t)
      BY <1>6 DEF New, OthersStay, Goto, ControlType, HoldingType, SendingType,
         manager, objects, control, holding, sending, greeters
    <2>2. LocalInv(t)'
      <3>1. LocalInv(t)
        BY DEF RegistryInv
      <3>2. QED
        BY <1>6, <3>1 DEF New, LocalInv, HolderInv, CopyInv, ReturnInv, TunnelInv,
           Goto, ManagerType, ControlType, HoldingType, SendingType, manager, objects,
           control, holding, sending, greeters
    <2>3. NothingReached
      BY <1>6 DEF New, NothingReached, Unreachable, Held, ManagerType, HoldingType,
         SendingType, manager, objects, control, holding, sending, greeters
    <2>4. SessionInv'
      BY <1>6, <2>1, <2>3, QuietStep DEF New, Goto, ControlType, manager, objects,
         control
    <2>5. QED
      BY <2>1, <2>2, <2>4, LocalStep DEF RegistryInv
  <1>7. ASSUME NEW t \in Tunnels, Replace(t)
         PROVE RegistryInv'
    <2>1. OthersStay(t)
      BY <1>7 DEF Replace, LetGo, OthersStay, Goto, ControlType, HoldingType,
         SendingType, manager, objects, control, holding, sending, greeters
    <2>2. LocalInv(t)'
      <3>1. LocalInv(t)
        BY DEF RegistryInv
      <3>2. QED
        BY <1>7, <3>1 DEF Replace, LetGo, LocalInv, HolderInv, CopyInv, ReturnInv,
           TunnelInv, Goto, ManagerType, ControlType, HoldingType, SendingType,
           manager, objects, control, holding, sending, greeters
    <2>3. NothingReached
      BY <1>7 DEF Replace, LetGo, NothingReached, Unreachable, Held, ManagerType,
         HoldingType, SendingType, manager, objects, control, holding, sending,
         greeters
    <2>4. SessionInv'
      <3>1. CASE pc'[t] = "connect"
        BY <1>7, <2>1, <2>3, <3>1, QuietStep DEF Replace, LetGo, Goto, ControlType,
           manager, objects, control
      <3>2. ASSUME NEW x \in Sessions, x = other[t], other[t] \notin {NoSession, first[t], cur[t]},
                   refs' = [refs EXCEPT ![t] = @ \ {other[t]}],
                   LetGo(t, x, x \in listed \/ HeldElsewhere(t, x), "connect")
            PROVE  SessionInv'
        <4>1. x \in Sessions /\ ~Unreachable(x) /\ pc[t] = "replace"
          BY <1>7, <3>2 DEF Replace, Unreachable, Held, HoldingType, SendingType,
             ControlType, ManagerType, RegistryInv, LocalInv, TunnelInv, ControllerInv
        <4>2. ASSUME ~(x \in listed \/ HeldElsewhere(t, x))
              PROVE  ~HeldElsewhere(t, x) /\ Unreachable(x)'
          <5>1. LocalInv(t)
            BY DEF RegistryInv
          <5>2. QED
            BY <1>7, <2>1, <3>2, <4>1, <4>2, <5>1 DEF Replace, OthersStay, Unreachable,
               Held, HeldElsewhere, HoldingType, SendingType, LocalInv, CopyInv,
               ControllerInv, manager, objects, control, holding, sending, greeters
        <4>3. "connect" \in PCs \ {"destroy", "construct"} /\ UNCHANGED <<nextId, xOwner>>
          BY <1>7, Labels DEF Replace, manager, objects
        <4>4. (x \in listed \/ HeldElsewhere(t, x)) \in BOOLEAN
          BY DEF HeldElsewhere
        <4>5. QED
          BY <2>1, <2>3, <3>2, <4>1, <4>2, <4>3, <4>4, LetGoStep
      <3> other[t] \in Sessions \cup {NoSession}
        BY DEF HoldingType
      <3> QED
        BY <1>7, <3>1, <3>2 DEF Replace, Goto, ControlType
    <2>5. QED
      BY <2>1, <2>2, <2>4, LocalStep DEF RegistryInv
  <1>8. ASSUME NEW t \in Tunnels, Connect(t)
         PROVE RegistryInv'
    <2>1. OthersStay(t)
      BY <1>8 DEF Connect, OthersStay, Goto, ControlType, HoldingType, SendingType,
         manager, objects, control, holding, sending, greeters
    <2>2. LocalInv(t)'
      <3>1. LocalInv(t)
        BY DEF RegistryInv
      <3>2. QED
        BY <1>8, <3>1 DEF Connect, LocalInv, HolderInv, CopyInv, ReturnInv, TunnelInv,
           Goto, ManagerType, ControlType, HoldingType, SendingType, manager, objects,
           control, holding, sending, greeters
    <2>3. NothingReached
      BY <1>8 DEF Connect, NothingReached, Unreachable, Held, ManagerType,
         HoldingType, SendingType, manager, objects, control, holding, sending,
         greeters
    <2>4. SessionInv'
      BY <1>8, <2>1, <2>3, QuietStep DEF Connect, Goto, ControlType, manager, objects,
         control
    <2>5. QED
      BY <2>1, <2>2, <2>4, LocalStep DEF RegistryInv
  <1>9. ASSUME NEW t \in Tunnels, Abandon(t)
         PROVE RegistryInv'
    <2>1. OthersStay(t)
      BY <1>9 DEF Abandon, LetGo, OthersStay, Goto, ControlType, HoldingType,
         SendingType, manager, objects, control, holding, sending, greeters
    <2>2. LocalInv(t)'
      <3>1. LocalInv(t)
        BY DEF RegistryInv
      <3>2. QED
        BY <1>9, <3>1 DEF Abandon, LetGo, LocalInv, HolderInv, CopyInv, ReturnInv,
           TunnelInv, Goto, ManagerType, ControlType, HoldingType, SendingType,
           manager, objects, control, holding, sending, greeters
    <2>3. NothingReached
      BY <1>9 DEF Abandon, LetGo, NothingReached, Unreachable, Held, ManagerType,
         HoldingType, SendingType, manager, objects, control, holding, sending,
         greeters
    <2>4. SessionInv'
      <3>1. CASE UNCHANGED control
        BY <1>9, <2>1, <2>3, <3>1, QuietStep DEF Abandon, LetGo, Goto, ControlType,
           manager, objects, control
      <3>2. ASSUME NEW x \in Sessions, x = other[t], other[t] # first[t],
                   refs' = [refs EXCEPT ![t] = @ \ {other[t]}],
                   LetGo(t, x, x \in listed \/ HeldElsewhere(t, x), "loop")
            PROVE  SessionInv'
        <4>1. x \in Sessions /\ ~Unreachable(x) /\ pc[t] = "loop"
          BY <1>9, <3>2 DEF Abandon, Unreachable, Held, HoldingType, SendingType,
             ControlType, ManagerType, RegistryInv, LocalInv, TunnelInv, ControllerInv
        <4>2. ASSUME ~(x \in listed \/ HeldElsewhere(t, x))
              PROVE  ~HeldElsewhere(t, x) /\ Unreachable(x)'
          <5>1. LocalInv(t)
            BY DEF RegistryInv
          <5>2. QED
            BY <1>9, <2>1, <3>2, <4>1, <4>2, <5>1 DEF Abandon, OthersStay, Unreachable,
               Held, HeldElsewhere, HoldingType, SendingType, LocalInv, CopyInv,
               ControllerInv, manager, objects, control, holding, sending, greeters
        <4>3. "loop" \in PCs \ {"destroy", "construct"} /\ UNCHANGED <<nextId, xOwner>>
          BY <1>9, Labels DEF Abandon, manager, objects
        <4>4. (x \in listed \/ HeldElsewhere(t, x)) \in BOOLEAN
          BY DEF HeldElsewhere
        <4>5. QED
          BY <2>1, <2>3, <3>2, <4>1, <4>2, <4>3, <4>4, LetGoStep
      <3> other[t] \in Sessions \cup {NoSession}
        BY DEF HoldingType
      <3> QED
        BY <1>9, <3>1, <3>2 DEF Abandon
    <2>5. QED
      BY <2>1, <2>2, <2>4, LocalStep DEF RegistryInv
  <1>10. ASSUME NEW t \in Tunnels, Switch(t)
         PROVE RegistryInv'
    <2>1. OthersStay(t)
      BY <1>10 DEF Switch, EndGreeter, OthersStay, Goto, ControlType, HoldingType,
         SendingType, manager, objects, control, holding, sending, greeters
    <2>2. LocalInv(t)'
      <3>1. LocalInv(t)
        BY DEF RegistryInv
      <3>2. QED
        BY <1>10, <3>1 DEF Switch, EndGreeter, LocalInv, HolderInv, CopyInv,
           ReturnInv, TunnelInv, Goto, ManagerType, ControlType, HoldingType,
           SendingType, manager, objects, control, holding, sending, greeters
    <2>3. NothingReached
      BY <1>10 DEF Switch, EndGreeter, NothingReached, Unreachable, Held, ManagerType,
         HoldingType, SendingType, manager, objects, control, holding, sending,
         greeters
    <2>4. SessionInv'
      BY <1>10, <2>1, <2>3, QuietStep DEF Switch, EndGreeter, Goto, ControlType,
         manager, objects, control
    <2>5. QED
      BY <2>1, <2>2, <2>4, LocalStep DEF RegistryInv
  <1>11. ASSUME NEW t \in Tunnels, Close(t)
         PROVE RegistryInv'
    <2>1. OthersStay(t)
      BY <1>11 DEF Close, OthersStay, Goto, ControlType, HoldingType, SendingType,
         manager, objects, control, holding, sending, greeters
    <2>2. LocalInv(t)'
      <3>1. LocalInv(t)
        BY DEF RegistryInv
      <3>2. QED
        BY <1>11, <3>1 DEF Close, LocalInv, HolderInv, CopyInv, ReturnInv, TunnelInv,
           Goto, ManagerType, ControlType, HoldingType, SendingType, manager, objects,
           control, holding, sending, greeters
    <2>3. NothingReached
      BY <1>11 DEF Close, NothingReached, Unreachable, Held, ManagerType, HoldingType,
         SendingType, manager, objects, control, holding, sending, greeters
    <2>4. SessionInv'
      BY <1>11, <2>1, <2>3, QuietStep DEF Close, Goto, ControlType, manager, objects,
         control
    <2>5. QED
      BY <2>1, <2>2, <2>4, LocalStep DEF RegistryInv
  <1>12. ASSUME NEW t \in Tunnels, Finish(t)
         PROVE RegistryInv'
    <2>1. OthersStay(t)
      BY <1>12 DEF Finish, LetGo, EndGreeter, OthersStay, Goto, ControlType,
         HoldingType, SendingType, manager, objects, control, holding, sending,
         greeters
    <2>2. LocalInv(t)'
      <3>1. LocalInv(t)
        BY DEF RegistryInv
      <3>2. QED
        BY <1>12, <3>1 DEF Finish, LetGo, EndGreeter, LocalInv, HolderInv, CopyInv,
           ReturnInv, TunnelInv, Goto, ManagerType, ControlType, HoldingType,
           SendingType, manager, objects, control, holding, sending, greeters
    <2>3. NothingReached
      BY <1>12 DEF Finish, LetGo, EndGreeter, NothingReached, Unreachable, Held,
         ManagerType, HoldingType, SendingType, manager, objects, control, holding,
         sending, greeters
    <2>4. SessionInv'
      <3>1. CASE Goto(t, "done") /\ UNCHANGED <<ret, cur>>
        BY <1>12, <2>1, <2>3, <3>1, QuietStep DEF Finish, LetGo, Goto, ControlType,
           manager, objects, control
      <3>2. ASSUME NEW x \in refs[t], refs' = [refs EXCEPT ![t] = @ \ {x}],
                   LetGo(t, x, x \in listed \/ HeldElsewhere(t, x), "close")
            PROVE  SessionInv'
        <4>1. x \in Sessions /\ ~Unreachable(x) /\ pc[t] = "close"
          BY <1>12, <3>2 DEF Finish, Unreachable, Held, HoldingType, SendingType,
             ControlType, ManagerType, RegistryInv, LocalInv, TunnelInv, ControllerInv
        <4>2. ASSUME ~(x \in listed \/ HeldElsewhere(t, x))
              PROVE  ~HeldElsewhere(t, x) /\ Unreachable(x)'
          <5>1. LocalInv(t)
            BY DEF RegistryInv
          <5>2. QED
            BY <1>12, <2>1, <3>2, <4>1, <4>2, <5>1 DEF Finish, OthersStay, Unreachable,
               Held, HeldElsewhere, HoldingType, SendingType, LocalInv, CopyInv,
               ControllerInv, manager, objects, control, holding, sending, greeters
        <4>3. "close" \in PCs \ {"destroy", "construct"} /\ UNCHANGED <<nextId, xOwner>>
          BY <1>12, Labels DEF Finish, manager, objects
        <4>4. (x \in listed \/ HeldElsewhere(t, x)) \in BOOLEAN
          BY DEF HeldElsewhere
        <4>5. QED
          BY <2>1, <2>3, <3>2, <4>1, <4>2, <4>3, <4>4, LetGoStep
      <3> QED
        BY <1>12, <3>1, <3>2 DEF Finish
    <2>5. QED
      BY <2>1, <2>2, <2>4, LocalStep DEF RegistryInv
  <1>13. ASSUME NEW t \in Tunnels, Update(t)
         PROVE RegistryInv'
    <2>1. OthersStay(t)
      BY <1>13 DEF Update, OthersStay, Goto, ControlType, HoldingType, SendingType,
         manager, objects, control, holding, sending, greeters
    <2>2. LocalInv(t)'
      <3>1. LocalInv(t)
        BY DEF RegistryInv
      <3>2. QED
        BY <1>13, <3>1 DEF Update, LocalInv, HolderInv, CopyInv, ReturnInv, TunnelInv,
           Goto, ManagerType, ControlType, HoldingType, SendingType, manager, objects,
           control, holding, sending, greeters
    <2>3. NothingReached
      BY <1>13 DEF Update, NothingReached, Unreachable, Held, ManagerType,
         HoldingType, SendingType, manager, objects, control, holding, sending,
         greeters
    <2>4. SessionInv'
      BY <1>13, <2>1, <2>3, QuietStep DEF Update, Goto, ControlType, manager, objects,
         control
    <2>5. QED
      BY <2>1, <2>2, <2>4, LocalStep DEF RegistryInv
  <1>14. ASSUME NEW t \in Tunnels, Fetch(t)
         PROVE RegistryInv'
    <2>1. OthersStay(t)
      BY <1>14 DEF Fetch, OthersStay, Goto, ControlType, HoldingType, SendingType,
         manager, objects, control, holding, sending, greeters
    <2>2. LocalInv(t)'
      <3>1. LocalInv(t)
        BY DEF RegistryInv
      <3>2. QED
        BY <1>14, <3>1 DEF Fetch, LocalInv, HolderInv, CopyInv, ReturnInv, TunnelInv,
           Goto, ManagerType, ControlType, HoldingType, SendingType, manager, objects,
           control, holding, sending, greeters
    <2>3. NothingReached
      BY <1>14 DEF Fetch, NothingReached, Unreachable, Held, ManagerType, HoldingType,
         SendingType, manager, objects, control, holding, sending, greeters
    <2>4. SessionInv'
      BY <1>14, <2>1, <2>3, QuietStep DEF Fetch, Goto, ControlType, manager, objects,
         control
    <2>5. QED
      BY <2>1, <2>2, <2>4, LocalStep DEF RegistryInv
  <1>15. ASSUME NEW t \in Tunnels, Count(t)
         PROVE RegistryInv'
    <2>1. OthersStay(t)
      BY <1>15 DEF Count, OthersStay, Goto, ControlType, HoldingType, SendingType,
         manager, objects, control, holding, sending, greeters
    <2>2. LocalInv(t)'
      <3>1. LocalInv(t)
        BY DEF RegistryInv
      <3>2. QED
        BY <1>15, <3>1 DEF Count, LocalInv, HolderInv, CopyInv, ReturnInv, TunnelInv,
           Goto, ManagerType, ControlType, HoldingType, SendingType, manager, objects,
           control, holding, sending, greeters
    <2>3. NothingReached
      BY <1>15 DEF Count, NothingReached, Unreachable, Held, ManagerType, HoldingType,
         SendingType, manager, objects, control, holding, sending, greeters
    <2>4. SessionInv'
      BY <1>15, <2>1, <2>3, QuietStep DEF Count, Goto, ControlType, manager, objects,
         control
    <2>5. QED
      BY <2>1, <2>2, <2>4, LocalStep DEF RegistryInv
  <1>16. ASSUME NEW t \in Tunnels, WriteLine(t)
         PROVE RegistryInv'
    <2>1. OthersStay(t)
      BY <1>16 DEF WriteLine, OthersStay, Goto, ControlType, HoldingType, SendingType,
         manager, objects, control, holding, sending, greeters
    <2>2. LocalInv(t)'
      <3>1. LocalInv(t)
        BY DEF RegistryInv
      <3>2. QED
        BY <1>16, <3>1 DEF WriteLine, LocalInv, HolderInv, CopyInv, ReturnInv,
           TunnelInv, Goto, ManagerType, ControlType, HoldingType, SendingType,
           manager, objects, control, holding, sending, greeters
    <2>3. NothingReached
      BY <1>16 DEF WriteLine, NothingReached, Unreachable, Held, ManagerType,
         HoldingType, SendingType, manager, objects, control, holding, sending,
         greeters
    <2>4. SessionInv'
      BY <1>16, <2>1, <2>3, QuietStep DEF WriteLine, Goto, ControlType, manager,
         objects, control
    <2>5. QED
      BY <2>1, <2>2, <2>4, LocalStep DEF RegistryInv
  <1>17. ASSUME NEW t \in Tunnels, DropCopy(t)
         PROVE RegistryInv'
    <2>1. OthersStay(t)
      BY <1>17 DEF DropCopy, LetGo, OthersStay, Goto, ControlType, HoldingType,
         SendingType, manager, objects, control, holding, sending, greeters
    <2>2. LocalInv(t)'
      <3>1. LocalInv(t)
        BY DEF RegistryInv
      <3>2. QED
        BY <1>17, <3>1 DEF DropCopy, LetGo, LocalInv, HolderInv, CopyInv, ReturnInv,
           TunnelInv, Goto, ManagerType, ControlType, HoldingType, SendingType,
           manager, objects, control, holding, sending, greeters
    <2>3. NothingReached
      BY <1>17 DEF DropCopy, LetGo, NothingReached, Unreachable, Held, ManagerType,
         HoldingType, SendingType, manager, objects, control, holding, sending,
         greeters
    <2>4. SessionInv'
      <3>1. CASE Goto(t, "loop") /\ UNCHANGED <<ret, cur>>
        BY <1>17, <2>1, <2>3, <3>1, QuietStep DEF DropCopy, LetGo, Goto, ControlType,
           manager, objects, control
      <3>2. ASSUME NEW x \in copy[t], copy' = [copy EXCEPT ![t] = @ \ {x}],
                   LetGo(t, x, x \in listed \/ x \in refs[t] \/ HeldElsewhere(t, x), "dropCopy")
            PROVE  SessionInv'
        <4>1. x \in Sessions /\ ~Unreachable(x) /\ pc[t] = "dropCopy"
          BY <1>17, <3>2 DEF DropCopy, Unreachable, Held, HoldingType, SendingType,
             ControlType, ManagerType, RegistryInv, LocalInv, TunnelInv, ControllerInv
        <4>2. ASSUME ~(x \in listed \/ x \in refs[t] \/ HeldElsewhere(t, x))
              PROVE  ~HeldElsewhere(t, x) /\ Unreachable(x)'
          <5>1. LocalInv(t)
            BY DEF RegistryInv
          <5>2. QED
            BY <1>17, <2>1, <3>2, <4>1, <4>2, <5>1 DEF DropCopy, OthersStay, Unreachable,
               Held, HeldElsewhere, HoldingType, SendingType, LocalInv, CopyInv,
               ControllerInv, manager, objects, control, holding, sending, greeters
        <4>3. "dropCopy" \in PCs \ {"destroy", "construct"} /\ UNCHANGED <<nextId, xOwner>>
          BY <1>17, Labels DEF DropCopy, manager, objects
        <4>4. (x \in listed \/ x \in refs[t] \/ HeldElsewhere(t, x)) \in BOOLEAN
          BY DEF HeldElsewhere
        <4>5. QED
          BY <2>1, <2>3, <3>2, <4>1, <4>2, <4>3, <4>4, LetGoStep
      <3> QED
        BY <1>17, <3>1, <3>2 DEF DropCopy
    <2>5. QED
      BY <2>1, <2>2, <2>4, LocalStep DEF RegistryInv
  <1>18. ASSUME NEW t \in Tunnels, AssignDesktopName(t)
         PROVE RegistryInv'
    <2>1. OthersStay(t)
      BY <1>18 DEF AssignDesktopName, OthersStay, Goto, ControlType, HoldingType,
         SendingType, manager, objects, control, holding, sending, greeters
    <2>2. LocalInv(t)'
      <3>1. LocalInv(t)
        BY DEF RegistryInv
      <3>2. QED
        BY <1>18, <3>1 DEF AssignDesktopName, LocalInv, HolderInv, CopyInv, ReturnInv,
           TunnelInv, Goto, ManagerType, ControlType, HoldingType, SendingType,
           manager, objects, control, holding, sending, greeters
    <2>3. NothingReached
      BY <1>18 DEF AssignDesktopName, NothingReached, Unreachable, Held, ManagerType,
         HoldingType, SendingType, manager, objects, control, holding, sending,
         greeters
    <2>4. SessionInv'
      <3>1. /\ pc[t] = "assignDesktop" /\ pc'[t] = "notify"
            /\ cur'[t] = cur[t] /\ refs'[t] = refs[t] /\ UNCHANGED <<nextId, xOwner>>
        BY <1>18 DEF AssignDesktopName, Goto, ControlType, manager, holding
      <3>2. OwnerInv'
        BY <2>1, <2>3, <3>1 DEF RegistryInv, SessionInv, OwnerInv, OthersStay, NothingReached,
           ObjectType
      <3>3. DestroyInv'
        BY <2>1, <2>3, <3>1 DEF RegistryInv, SessionInv, DestroyInv, OthersStay, NothingReached,
           ObjectType
      <3>4. ConstructInv'
        BY <2>1, <2>3, <3>1 DEF RegistryInv, SessionInv, ConstructInv, OthersStay, NothingReached,
           ObjectType
      <3>5. FreshInv'
        BY <2>1, <2>3, <3>1 DEF RegistryInv, SessionInv, FreshInv, OthersStay, NothingReached,
           ObjectType
      <3>6. QED
        BY <3>2, <3>3, <3>4, <3>5 DEF SessionInv
    <2>5. QED
      BY <2>1, <2>2, <2>4, LocalStep DEF RegistryInv
  <1>19. ASSUME NEW t \in Tunnels, NEW x \in Sessions, Open(t, x)
         PROVE RegistryInv'
    <2>1. OthersStay(t)
      BY <1>19 DEF Open, OthersStay, Goto, ControlType, HoldingType, SendingType,
         manager, objects, control, holding, sending, greeters
    <2>2. LocalInv(t)'
      <3>1. LocalInv(t)
        BY DEF RegistryInv
      <3>2. QED
        BY <1>19, <3>1 DEF Open, LocalInv, HolderInv, CopyInv, ReturnInv, TunnelInv,
           Goto, ManagerType, ControlType, HoldingType, SendingType, manager, objects,
           control, holding, sending, greeters
    <2>3. NothingReached
      BY <1>19 DEF Open, NothingReached, Unreachable, Held, ManagerType, HoldingType,
         SendingType, manager, objects, control, holding, sending, greeters
    <2>4. SessionInv'
      BY <1>19, <2>1, <2>3, QuietStep DEF Open, Goto, ControlType, manager, objects,
         control
    <2>5. QED
      BY <2>1, <2>2, <2>4, LocalStep DEF RegistryInv
  <1>20. ASSUME NEW t \in Tunnels, NEW x \in Sessions, NEW n \in Names,
                SetDesktopName(t, x, n)
         PROVE RegistryInv'
    <2>1. OthersStay(t)
      BY <1>20 DEF SetDesktopName, Connected, OthersStay, Goto, ControlType,
         HoldingType, SendingType, manager, objects, control, holding, sending,
         greeters
    <2>2. LocalInv(t)'
      <3>1. LocalInv(t)
        BY DEF RegistryInv
      <3>2. QED
        BY <1>20, <3>1 DEF SetDesktopName, Connected, LocalInv, HolderInv, CopyInv,
           ReturnInv, TunnelInv, Goto, ManagerType, ControlType, HoldingType,
           SendingType, manager, objects, control, holding, sending, greeters
    <2>3. NothingReached
      BY <1>20 DEF SetDesktopName, Connected, NothingReached, Unreachable, Held,
         ManagerType, HoldingType, SendingType, manager, objects, control, holding,
         sending, greeters
    <2>4. SessionInv'
      <3>1. /\ xOwner' = [xOwner EXCEPT ![x] = t] /\ x \in refs[t] /\ refs' = refs
            /\ pc[t] = "loop" /\ pc'[t] = "assignDesktop" /\ cur'[t] = x
            /\ ~Unreachable(x) /\ UNCHANGED nextId
        BY <1>20 DEF SetDesktopName, Connected, Goto, ControlType, manager, holding, RegistryInv,
           LocalInv, TunnelInv, Unreachable, Held
      <3>2. OwnerInv'
        BY <2>1, <2>3, <3>1 DEF RegistryInv, SessionInv, OwnerInv, OthersStay, NothingReached,
           ObjectType
      <3>3. DestroyInv'
        BY <2>1, <2>3, <3>1 DEF RegistryInv, SessionInv, DestroyInv, OthersStay, NothingReached,
           ObjectType
      <3>4. ConstructInv'
        BY <2>1, <2>3, <3>1 DEF RegistryInv, SessionInv, ConstructInv, OthersStay, NothingReached,
           ObjectType
      <3>5. FreshInv'
        BY <2>1, <2>3, <3>1 DEF RegistryInv, SessionInv, FreshInv, OthersStay, NothingReached,
           ObjectType
      <3>6. QED
        BY <3>2, <3>3, <3>4, <3>5 DEF SessionInv
    <2>5. QED
      BY <2>1, <2>2, <2>4, LocalStep DEF RegistryInv
  <1>21. ASSUME NEW c \in Controllers, Attach(c)
         PROVE RegistryInv'
    <2>1. OthersStay(c)
      BY <1>21 DEF Attach, OthersStay, Goto, ControlType, HoldingType, SendingType,
         manager, objects, control, holding, sending, greeters
    <2>2. LocalInv(c)'
      <3>1. LocalInv(c)
        BY DEF RegistryInv
      <3>2. /\ \/ pc'[c] = "approve" /\ first'[c] # NoSession /\ refs'[c] = {first'[c]}
               \/ pc'[c] = "done" /\ first'[c] = first[c] /\ refs'[c] = refs[c]
            /\ pc[c] = "attach" /\ copy'[c] = copy[c] /\ mgrOwner = Nobody /\ mgrOwner' = mgrOwner
        BY <1>21 DEF Attach, Goto, ManagerType, ControlType, HoldingType, manager, sending
      <3>3. QED
        BY <3>1, <3>2 DEF LocalInv, HolderInv, CopyInv, ReturnInv, ControllerInv
    <2>3. NothingReached
      BY <1>21 DEF Attach, NothingReached, Unreachable, Held, ManagerType,
         HoldingType, SendingType, manager, objects, control, holding, sending,
         greeters
    <2>4. SessionInv'
      BY <1>21, <2>1, <2>3, QuietStep DEF Attach, Goto, ControlType, manager, objects,
         control
    <2>5. QED
      BY <2>1, <2>2, <2>4, LocalStep DEF RegistryInv
  <1>22. ASSUME NEW c \in Controllers, Detach(c)
         PROVE RegistryInv'
    <2>1. OthersStay(c)
      BY <1>22 DEF Detach, LetGo, OthersStay, Goto, ControlType, HoldingType,
         SendingType, manager, objects, control, holding, sending, greeters
    <2>2. LocalInv(c)'
      <3>1. LocalInv(c)
        BY DEF RegistryInv
      <3>2. QED
        BY <1>22, <3>1 DEF Detach, LetGo, LocalInv, HolderInv, CopyInv, ReturnInv,
           ControllerInv, Goto, ManagerType, ControlType, HoldingType, SendingType,
           manager, objects, control, holding, sending, greeters
    <2>3. NothingReached
      BY <1>22 DEF Detach, LetGo, NothingReached, Unreachable, Held, ManagerType,
         HoldingType, SendingType, manager, objects, control, holding, sending,
         greeters
    <2>4. SessionInv'
      <3>1. ASSUME NEW x \in Sessions, x = first[c],
                   LetGo(c, x, x \in listed \/ HeldElsewhere(c, x), "done")
            PROVE  SessionInv'
        <4>1. x \in Sessions /\ ~Unreachable(x) /\ pc[c] \in {"approve", "serve"}
          BY <1>22, <3>1 DEF Detach, Unreachable, Held, HoldingType, SendingType,
             ControlType, ManagerType, RegistryInv, LocalInv, TunnelInv, ControllerInv
        <4>2. ASSUME ~(x \in listed \/ HeldElsewhere(c, x))
              PROVE  ~HeldElsewhere(c, x) /\ Unreachable(x)'
          <5>1. LocalInv(c)
            BY DEF RegistryInv
          <5>2. QED
            BY <1>22, <2>1, <3>1, <4>1, <4>2, <5>1 DEF Detach, OthersStay, Unreachable,
               Held, HeldElsewhere, HoldingType, SendingType, LocalInv, CopyInv,
               ControllerInv, manager, objects, control, holding, sending, greeters
        <4>3. "done" \in PCs \ {"destroy", "construct"} /\ UNCHANGED <<nextId, xOwner>>
          BY <1>22, Labels DEF Detach, manager, objects
        <4>4. (x \in listed \/ HeldElsewhere(c, x)) \in BOOLEAN
          BY DEF HeldElsewhere
        <4>5. QED
          BY <2>1, <2>3, <3>1, <4>1, <4>2, <4>3, <4>4, LetGoStep
      <3> first[c] \in Sessions
        BY <1>22 DEF Detach, RegistryInv, LocalInv, ControllerInv, HoldingType
      <3> QED
        BY <1>22, <3>1 DEF Detach
    <2>5. QED
      BY <2>1, <2>2, <2>4, LocalStep DEF RegistryInv
  <1>23. ASSUME NEW c \in Controllers, AssignUsername(c)
         PROVE RegistryInv'
    <2>1. OthersStay(c)
      BY <1>23 DEF AssignUsername, OthersStay, Goto, ControlType, HoldingType,
         SendingType, manager, objects, control, holding, sending, greeters
    <2>2. LocalInv(c)'
      <3>1. LocalInv(c)
        BY DEF RegistryInv
      <3>2. QED
        BY <1>23, <3>1 DEF AssignUsername, LocalInv, HolderInv, CopyInv, ReturnInv,
           ControllerInv, Goto, ManagerType, ControlType, HoldingType, SendingType,
           manager, objects, control, holding, sending, greeters
    <2>3. NothingReached
      BY <1>23 DEF AssignUsername, NothingReached, Unreachable, Held, ManagerType,
         HoldingType, SendingType, manager, objects, control, holding, sending,
         greeters
    <2>4. SessionInv'
      BY <1>23, <2>1, <2>3, QuietStep DEF AssignUsername, Goto, ControlType, manager,
         objects, control
    <2>5. QED
      BY <2>1, <2>2, <2>4, LocalStep DEF RegistryInv
  <1>24. ASSUME NEW c \in Controllers, NEW n \in Names, SetSessionUsername(c, n)
         PROVE RegistryInv'
    <2>1. OthersStay(c)
      BY <1>24 DEF SetSessionUsername, OthersStay, Goto, ControlType, HoldingType,
         SendingType, manager, objects, control, holding, sending, greeters
    <2>2. LocalInv(c)'
      <3>1. LocalInv(c)
        BY DEF RegistryInv
      <3>2. QED
        BY <1>24, <3>1 DEF SetSessionUsername, LocalInv, HolderInv, CopyInv,
           ReturnInv, ControllerInv, Goto, ManagerType, ControlType, HoldingType,
           SendingType, manager, objects, control, holding, sending, greeters
    <2>3. NothingReached
      BY <1>24 DEF SetSessionUsername, NothingReached, Unreachable, Held, ManagerType,
         HoldingType, SendingType, manager, objects, control, holding, sending,
         greeters
    <2>4. SessionInv'
      BY <1>24, <2>1, <2>3, QuietStep DEF SetSessionUsername, Goto, ControlType,
         manager, objects, control
    <2>5. QED
      BY <2>1, <2>2, <2>4, LocalStep DEF RegistryInv
  <1>25. ASSUME NEW c \in Controllers, NEW v \in BOOLEAN, Visible(c, v)
         PROVE RegistryInv'
    <2>1. OthersStay(c)
      BY <1>25 DEF Visible, MarkVisible, OthersStay, Goto, ControlType, HoldingType,
         SendingType, manager, objects, control, holding, sending, greeters
    <2>2. LocalInv(c)'
      <3>1. LocalInv(c)
        BY DEF RegistryInv
      <3>2. QED
        BY <1>25, <3>1 DEF Visible, MarkVisible, LocalInv, HolderInv, CopyInv,
           ReturnInv, ControllerInv, Goto, ManagerType, ControlType, HoldingType,
           SendingType, manager, objects, control, holding, sending, greeters
    <2>3. SessionInv'
      <3>1. first[c] \in Sessions /\ first[c] \in refs[c] /\ pc[c] = "serve"
        BY <1>25 DEF Visible, RegistryInv, LocalInv, ControllerInv, HoldingType
      <3>2. QED
        BY <1>25, <2>1, <3>1, Labels, MarkVisibleStep DEF Visible, manager, holding, sending
    <2>4. QED
      BY <2>1, <2>2, <2>3, LocalStep DEF RegistryInv
  <1>26. ASSUME NEW t \in Threads, Notify(t)
         PROVE RegistryInv'
    <2>1. OthersStay(t)
      BY <1>26 DEF Notify, Return, OthersStay, Goto, ControlType, HoldingType,
         SendingType, manager, objects, control, holding, sending, greeters
    <2>2. LocalInv(t)'
      <3>1. LocalInv(t)
        BY DEF RegistryInv
      <3>2. QED
        BY <1>26, <3>1 DEF Notify, Return, LocalInv, HolderInv, CopyInv, ReturnInv,
           TunnelInv, ControllerInv, Goto, ManagerType, ControlType, HoldingType,
           SendingType, manager, objects, control, holding, sending, greeters
    <2>3. NothingReached
      BY <1>26 DEF Notify, Return, NothingReached, Unreachable, Held, ManagerType,
         HoldingType, SendingType, manager, objects, control, holding, sending,
         greeters
    <2>4. SessionInv'
      <3>1. /\ xOwner' = [xOwner EXCEPT ![cur[t]] = IF @ = t THEN Nobody ELSE @]
            /\ pc[t] = "notify" /\ pc'[t] \notin {"destroy", "construct"} /\ refs' = refs
            /\ UNCHANGED nextId
        BY <1>26 DEF Notify, Return, Goto, ControlType, holding, RegistryInv, LocalInv, ReturnInv
      <3>2. OwnerInv'
        BY <2>1, <2>3, <3>1 DEF RegistryInv, SessionInv, OwnerInv, OthersStay, NothingReached,
           ObjectType
      <3>3. DestroyInv'
        BY <2>1, <2>3, <3>1 DEF RegistryInv, SessionInv, DestroyInv, OthersStay, NothingReached,
           ObjectType
      <3>4. ConstructInv'
        BY <2>1, <2>3, <3>1 DEF RegistryInv, SessionInv, ConstructInv, OthersStay, NothingReached,
           ObjectType
      <3>5. FreshInv'
        BY <2>1, <2>3, <3>1 DEF RegistryInv, SessionInv, FreshInv, OthersStay, NothingReached,
           ObjectType
      <3>6. QED
        BY <3>2, <3>3, <3>4, <3>5 DEF SessionInv
    <2>5. QED
      BY <2>1, <2>2, <2>4, LocalStep DEF RegistryInv
  <1>27. ASSUME NEW t \in Threads, Destroy(t)
         PROVE RegistryInv'
    <2>1. OthersStay(t)
      <3>1. \A u \in Threads \ {t} : pc'[u] = pc[u] /\ ret'[u] = ret[u] /\ cur'[u] = cur[u]
        BY <1>27 DEF Destroy, MarkVisible, Goto, ControlType
      <3>2. QED
        BY <1>27, <3>1 DEF Destroy, OthersStay, manager, holding, sending
    <2>2. LocalInv(t)'
      <3>1. LocalInv(t)
        BY DEF RegistryInv
      <3>2. /\ pc[t] = "destroy"
            /\ pc'[t] = ret[t] \/ (pc'[t] = "notify" /\ ret'[t] = ret[t])
        BY <1>27 DEF Destroy, MarkVisible, Goto, ControlType
      <3>3. UNCHANGED <<mgrOwner, refs, first, other, copy>>
        BY <1>27 DEF Destroy, manager, holding, sending
      <3>4. HolderInv(t)' /\ CopyInv(t)' /\ ReturnInv(t)'
        BY <3>1, <3>2, <3>3 DEF LocalInv, HolderInv, CopyInv, ReturnInv
      <3>5. t \in Tunnels => TunnelInv(t)'
        BY <3>1, <3>2, <3>3 DEF LocalInv, ReturnInv, TunnelInv
      <3>6. t \in Controllers => ControllerInv(t)'
        BY <3>1, <3>2, <3>3 DEF LocalInv, ReturnInv, ControllerInv
      <3>7. QED
        BY <3>1, <3>3, <3>4, <3>5, <3>6 DEF LocalInv
    <2>3. SessionInv'
      <3>1. /\ cur[t] \in Sessions /\ pc[t] = "destroy"
            /\ ret[t] \in PCs \ {"destroy", "construct"} /\ FALSE \in BOOLEAN
        BY <1>27 DEF Destroy, RegistryInv, LocalInv, ReturnInv, SessionInv, DestroyInv, ControlType
      <3>2. QED
        BY <1>27, <2>1, <3>1, Labels, MarkVisibleStep DEF Destroy, manager, holding, sending
    <2>4. QED
      BY <2>1, <2>2, <2>3, LocalStep DEF RegistryInv
  <1>28. ASSUME NEW x \in Sessions, Reap(x)
         PROVE RegistryInv'
    <2>1. OthersStay(Main)
      BY <1>28 DEF Reap, OthersStay, Goto, ControlType, HoldingType, SendingType,
         manager, objects, control, holding, sending, greeters
    <2>2. LocalInv(Main)'
      <3>1. LocalInv(Main)
        BY DEF RegistryInv
      <3>2. QED
        BY <1>28, <3>1 DEF Reap, LocalInv, HolderInv, CopyInv, ReturnInv, Goto,
           ManagerType, ControlType, HoldingType, SendingType, manager, objects,
           control, holding, sending, greeters
    <2>3. NothingReached
      BY <1>28 DEF Reap, NothingReached, Unreachable, Held, ManagerType, HoldingType,
         SendingType, manager, objects, control, holding, sending, greeters
    <2>4. SessionInv'
      BY <1>28, <2>1, <2>3, QuietStep DEF Reap, Goto, ControlType, manager, objects,
         control
    <2>5. QED
      BY <2>1, <2>2, <2>4, LocalStep DEF RegistryInv
  <1>29. ASSUME ChildDied
         PROVE RegistryInv'
    <2>1. OthersStay(Main)
      BY <1>29 DEF ChildDied, LetGo, OthersStay, Goto, ControlType, HoldingType,
         SendingType, manager, objects, control, holding, sending, greeters
    <2>2. LocalInv(Main)'
      <3>1. LocalInv(Main)
        BY DEF RegistryInv
      <3>2. QED
        BY <1>29, <3>1 DEF ChildDied, LetGo, LocalInv, HolderInv, CopyInv, ReturnInv,
           Goto, ManagerType, ControlType, HoldingType, SendingType, manager, objects,
           control, holding, sending, greeters
    <2>3. NothingReached
      BY <1>29 DEF ChildDied, LetGo, NothingReached, Unreachable, Held, ManagerType,
         HoldingType, SendingType, manager, objects, control, holding, sending,
         greeters
    <2>4. SessionInv'
      <3>1. CASE cur[Main] \notin listed
        BY <1>29, <2>1, <2>3, <3>1, QuietStep DEF ChildDied, LetGo, Goto, ControlType,
           manager, objects, control
      <3>2. ASSUME NEW x \in Sessions, x = cur[Main], cur[Main] \in listed,
                   LetGo(Main, x, x \notin listed \/ HeldElsewhere(Main, x), "release")
            PROVE  SessionInv'
        <4>1. x \in Sessions /\ ~Unreachable(x) /\ pc[Main] = "childDied"
          BY <1>29, <3>2 DEF ChildDied, Unreachable, Held, HoldingType, SendingType,
             ControlType, ManagerType, RegistryInv, LocalInv, TunnelInv, ControllerInv
        <4>2. ASSUME ~(x \notin listed \/ HeldElsewhere(Main, x))
              PROVE  ~HeldElsewhere(Main, x) /\ Unreachable(x)'
          <5>1. LocalInv(Main)
            BY DEF RegistryInv
          <5>2. QED
            BY <1>29, <2>1, <3>2, <4>1, <4>2, <5>1 DEF ChildDied, OthersStay, Unreachable,
               Held, HeldElsewhere, HoldingType, SendingType, LocalInv, CopyInv,
               ControllerInv, manager, objects, control, holding, sending, greeters
        <4>3. "release" \in PCs \ {"destroy", "construct"} /\ UNCHANGED <<nextId, xOwner>>
          BY <1>29, Labels DEF ChildDied, manager, objects
        <4>4. (x \notin listed \/ HeldElsewhere(Main, x)) \in BOOLEAN
          BY DEF HeldElsewhere
        <4>5. QED
          BY <2>1, <2>3, <3>2, <4>1, <4>2, <4>3, <4>4, LetGoStep
      <3> listed \subseteq Sessions
        BY DEF ManagerType
      <3> QED
        BY <1>29, <3>1, <3>2 DEF ChildDied
    <2>5. QED
      BY <2>1, <2>2, <2>4, LocalStep DEF RegistryInv
  <1>30. ASSUME Release
         PROVE RegistryInv'
    <2>1. OthersStay(Main)
      BY <1>30 DEF Release, OthersStay, Goto, ControlType, HoldingType, SendingType,
         manager, objects, control, holding, sending, greeters
    <2>2. LocalInv(Main)'
      <3>1. LocalInv(Main)
        BY DEF RegistryInv
      <3>2. QED
        BY <1>30, <3>1 DEF Release, LocalInv, HolderInv, CopyInv, ReturnInv, Goto,
           ManagerType, ControlType, HoldingType, SendingType, manager, objects,
           control, holding, sending, greeters
    <2>3. NothingReached
      BY <1>30 DEF Release, NothingReached, Unreachable, Held, ManagerType,
         HoldingType, SendingType, manager, objects, control, holding, sending,
         greeters
    <2>4. SessionInv'
      BY <1>30, <2>1, <2>3, QuietStep DEF Release, Goto, ControlType, manager,
         objects, control
    <2>5. QED
      BY <2>1, <2>2, <2>4, LocalStep DEF RegistryInv
  <1>31. ASSUME NEW x \in Sessions, Die(x) PROVE RegistryInv'
    <2>1. OthersStay(Main)
      BY <1>31 DEF Die, OthersStay, manager, control, holding, sending
    <2>2. LocalInv(Main)'
      BY <1>31 DEF Die, RegistryInv, LocalInv, HolderInv, CopyInv, ReturnInv, manager, control,
         holding, sending
    <2>3. SessionInv'
      BY <1>31 DEF Die, RegistryInv, SessionInv, OwnerInv, DestroyInv, ConstructInv, FreshInv,
         Unreachable, Held, manager, objects, control, holding, sending
    <2>4. QED
      BY <2>1, <2>2, <2>3, LocalStep DEF RegistryInv
  <1>32. ASSUME UNCHANGED vars PROVE RegistryInv'
    <2>1. SessionInv'
      BY <1>32 DEF vars, RegistryInv, SessionInv, OwnerInv, DestroyInv, ConstructInv, FreshInv,
         Unreachable, Held
    <2>2. OthersStay(Main) /\ LocalInv(Main)'
      BY <1>32 DEF vars, RegistryInv, OthersStay, LocalInv, HolderInv, CopyInv, ReturnInv
    <2>3. QED
      BY <2>1, <2>2, LocalStep DEF RegistryInv
  <1>33. QED
    <2>1. ASSUME NEW t \in Tunnels, TunnelStep(t) PROVE RegistryInv'
      BY <2>1, <1>1, <1>2, <1>3, <1>4, <1>5, <1>6, <1>7, <1>8, <1>9, <1>10, <1>11,
         <1>12, <1>13, <1>14, <1>15, <1>16, <1>17, <1>18, <1>19, <1>20 DEF TunnelStep
    <2>2. ASSUME NEW c \in Controllers, ControllerStep(c) PROVE RegistryInv'
      BY <2>2, <1>21, <1>22, <1>23, <1>24, <1>25 DEF ControllerStep
    <2>3. CASE MainStep
      BY <2>3, <1>28, <1>29, <1>30 DEF MainStep
    <2>4. QED
      BY <2>1, <2>2, <2>3, <1>26, <1>27, <1>31, <1>32 DEF Next, Terminated

\* Every variable begins with a value of its type.
LEMMA TypeInit == Init => TypeOK
  BY RegistryAssumption, ThreadKinds, Labels
     DEF Init, TypeOK, ManagerType, ObjectType, ControlType, HoldingType,
         GreeterType, SendingType, Sessions

\* Nothing is listed, referenced or locked at first.
LEMMA RegistryInit == Init => RegistryInv
  BY RegistryAssumption, ThreadKinds, Labels
     DEF Init, RegistryInv, SessionInv, LocalInv, HolderInv, OwnerInv, DestroyInv, ConstructInv, FreshInv,
         CopyInv, TunnelInv, ControllerInv, ReturnInv, Unreachable, Held, Sessions

\* RegistryInv holds in every reachable state.
LEMMA RegistryCorrect == Spec => [](TypeOK /\ RegistryInv)
  <1>1. Init => TypeOK /\ RegistryInv
    BY TypeInit, RegistryInit
  <1>2. TypeOK /\ RegistryInv /\ [Next]_vars => (TypeOK /\ RegistryInv)'
    BY TypeStep, RegistryStep DEF RegistryInv, SessionInv
  <1>3. QED
    BY <1>1, <1>2, PTL DEF Spec
-----------------------------------------------------------------------------
(* Theorems *)

\* Every variable of the registry keeps a value its C++ type allows.
THEOREM TypeCorrect == Spec => []TypeOK
  BY RegistryCorrect, PTL

\* ~Xvnc is alone with its session: no list, no reference and no lock leads to
\* it, however many threads copy, look up and drop references.
THEOREM DestructorIsAlone == Spec => []DestroyedAlone
  <1>1. RegistryInv => DestroyedAlone
    BY DEF RegistryInv, SessionInv, DestroyInv, DestroyedAlone, Unreachable
  <1>2. QED
    BY <1>1, RegistryCorrect, PTL

\* The manager's lock and a session's lock are never waited for in a cycle: the
\* thread that has the manager's lock waits for no mutex, so the only session
\* whose lock it takes is the one it is destroying, which nobody has locked.
THEOREM LocksAreOrdered == Spec => []ManagerHolderRuns
  <1>1. TypeOK /\ RegistryInv => ManagerHolderRuns
    <2> SUFFICES ASSUME TypeOK, RegistryInv, NEW t \in Threads, mgrOwner = t, Blocked(t)
                 PROVE  FALSE
      BY DEF ManagerHolderRuns
    <2>1. pc[t] \in {"scan", "construct", "release", "destroy", "notify"}
      BY DEF RegistryInv, LocalInv, HolderInv
    <2>2. pc[t] = "destroy" /\ xOwner[cur[t]] # Nobody
      BY <2>1 DEF Blocked
    <2>3. QED
      BY <2>2 DEF RegistryInv, SessionInv, DestroyInv
  <1>2. QED
    BY <1>1, RegistryCorrect, PTL

-----------------------------------------------------------------------------
(* Dead sessions *)

\* Where a thread has the manager's lock, the converse of HolderInv.
Inside(t) ==
    \/ pc[t] \in {"scan", "construct", "release"}
    \/ pc[t] \in {"destroy", "notify", "assignDesktop", "assignUser"} /\ ret[t] = "release"

\* The session is on the list, or will be put there by its constructor.
Listable(x) == x \in listed \/ \E t \in Threads : pc[t] = "construct" /\ cur[t] = x

\* Until the main thread has the manager's lock a reaped session may be listed.
ReapInv ==
    /\ \A t \in Threads : Inside(t) => mgrOwner = t
    /\ \A x \in Sessions : process[x] = "reaped" /\ Listable(x) =>
         pc[Main] = "childDied" /\ cur[Main] = x

\* A thread that does not enter a critical section keeps ReapInv.
LEMMA OutsideStep ==
  ASSUME ReapInv, NEW t \in Threads,
         \A u \in Threads \ {t} : pc'[u] = pc[u] /\ ret'[u] = ret[u] /\ cur'[u] = cur[u],
         UNCHANGED <<listed, process, mgrOwner>>,
         Inside(t)' => Inside(t), pc[t] # "childDied", pc'[t] # "construct"
  PROVE  ReapInv'
  BY ThreadKinds DEF ReapInv, Inside, Listable

\* The steps of a client's thread outside of the manager.
LEMMA ReapTunnel ==
  ASSUME TypeOK, RegistryInv, ReapInv, NEW t \in Tunnels,
         \/ New(t) \/ Replace(t) \/ Connect(t) \/ Abandon(t) \/ Switch(t) \/ Close(t)
         \/ Finish(t) \/ Update(t) \/ Fetch(t) \/ Count(t) \/ WriteLine(t) \/ DropCopy(t)
         \/ AssignDesktopName(t)
         \/ \E x \in Sessions : Open(t, x)
         \/ \E x \in Sessions, n \in Names : SetDesktopName(t, x, n)
  PROVE  ReapInv'
  <1> USE ThreadKinds DEF TypeOK, ControlType, Inside, Goto, LetGo, manager, control
  <1>1. CASE New(t) \/ Connect(t) \/ Switch(t) \/ Close(t) \/ Update(t) \/ Fetch(t)
    BY <1>1, OutsideStep DEF New, Connect, Switch, Close, Update, Fetch
  <1>2. CASE Count(t) \/ WriteLine(t) \/ AssignDesktopName(t)
    BY <1>2, OutsideStep DEF Count, WriteLine, AssignDesktopName
  <1>3. CASE Replace(t)
    BY <1>3, OutsideStep DEF Replace
  <1>4. CASE Abandon(t)
    BY <1>4, OutsideStep DEF Abandon
  <1>5. CASE Finish(t)
    BY <1>5, OutsideStep DEF Finish
  <1>6. CASE DropCopy(t)
    BY <1>6, OutsideStep DEF DropCopy
  <1>7. ASSUME NEW x \in Sessions, Open(t, x) PROVE ReapInv'
    BY <1>7, OutsideStep DEF Open
  <1>8. ASSUME NEW x \in Sessions, NEW n \in Names, SetDesktopName(t, x, n) PROVE ReapInv'
    BY <1>8, OutsideStep DEF SetDesktopName
  <1> QED
    BY <1>1, <1>2, <1>3, <1>4, <1>5, <1>6, <1>7, <1>8

\* The critical sections of a client's thread.
LEMMA ReapSection ==
  ASSUME TypeOK, RegistryInv, ReapInv, NEW t \in Tunnels,
         Start(t) \/ Scan(t) \/ CreateSession(t) \/ Constructed(t) \/ CreateFails(t)
  PROVE  ReapInv'
  <1> USE ThreadKinds DEF TypeOK, ControlType, ReapInv, Inside, Listable, Goto, manager
  <1>1. CASE Start(t)
    BY <1>1 DEF Start
  <1>2. CASE Scan(t)
    BY <1>2 DEF Scan
  <1>3. CASE CreateSession(t)
    BY <1>3, RegistryAssumption DEF CreateSession, ManagerType, ObjectType, Sessions
  <1>4. CASE Constructed(t)
    BY <1>4 DEF Constructed
  <1>5. CASE CreateFails(t)
    BY <1>5 DEF CreateFails
  <1> QED
    BY <1>1, <1>2, <1>3, <1>4, <1>5

\* A controller's thread and the nested calls of every thread.
LEMMA ReapNested ==
  ASSUME TypeOK, RegistryInv, ReapInv,
         \/ \E c \in Controllers : ControllerStep(c)
         \/ \E t \in Threads : Notify(t) \/ Destroy(t)
  PROVE  ReapInv'
  <1> USE ThreadKinds DEF TypeOK, ControlType, Inside, Goto, LetGo, manager
  <1>1. ASSUME NEW c \in Controllers, Attach(c) PROVE ReapInv'
    BY <1>1, OutsideStep DEF Attach
  <1>2. ASSUME NEW c \in Controllers, Detach(c) PROVE ReapInv'
    BY <1>2, OutsideStep DEF Detach
  <1>3. ASSUME NEW c \in Controllers, AssignUsername(c) PROVE ReapInv'
    BY <1>3, OutsideStep DEF AssignUsername
  <1>4. ASSUME NEW c \in Controllers, NEW n \in Names, SetSessionUsername(c, n) PROVE ReapInv'
    BY <1>4, OutsideStep DEF SetSessionUsername
  <1>5. ASSUME NEW c \in Controllers, NEW v \in BOOLEAN, Visible(c, v) PROVE ReapInv'
    BY <1>5, OutsideStep DEF Visible, MarkVisible
  <1>6. ASSUME NEW t \in Threads, Notify(t) PROVE ReapInv'
    BY <1>6, OutsideStep DEF Notify, Return, RegistryInv, LocalInv, ReturnInv
  <1>7. ASSUME NEW t \in Threads, Destroy(t) PROVE ReapInv'
    <2>1. /\ pc[t] = "destroy"
          /\ \/ pc'[t] = ret[t]
             \/ pc'[t] = "notify" /\ ret'[t] = ret[t]
          /\ \A u \in Threads \ {t} : pc'[u] = pc[u] /\ ret'[u] = ret[u] /\ cur'[u] = cur[u]
          /\ UNCHANGED <<listed, process, mgrOwner>>
      <3>1. /\ pc[t] = "destroy" /\ UNCHANGED <<listed, process, mgrOwner>>
            /\ MarkVisible(t, cur[t], FALSE, ret[t])
        BY <1>7 DEF Destroy
      <3>2. ASSUME NEW v \in BOOLEAN, NEW l, NEW x, MarkVisible(t, x, v, l)
            PROVE  /\ pc'[t] = l \/ (pc'[t] = "notify" /\ ret'[t] = l)
                   /\ \A u \in Threads \ {t} :
                        pc'[u] = pc[u] /\ ret'[u] = ret[u] /\ cur'[u] = cur[u]
        BY <3>2 DEF MarkVisible
      <3> QED
        BY <3>1, <3>2
    <2>2. ret[t] \in {"connect", "loop", "dropCopy", "close", "serve", "done", "release"}
      BY <2>1 DEF RegistryInv, LocalInv, ReturnInv
    <2> QED
      BY <2>1, <2>2, OutsideStep
  <1> QED
    BY <1>1, <1>2, <1>3, <1>4, <1>5, <1>6, <1>7 DEF ControllerStep

\* The main thread: with the lock it takes the session off the list, and no
\* constructor can put it there any more.
LEMMA ReapMain ==
  ASSUME TypeOK, RegistryInv, ReapInv,
         MainStep \/ (\E x \in Sessions : Die(x)) \/ Terminated \/ UNCHANGED vars
  PROVE  ReapInv'
  <1> USE ThreadKinds DEF TypeOK, ControlType, ObjectType, ReapInv, Inside, Listable, Goto, manager,
          control
  <1>1. CASE ChildDied
    <2>1. \A t \in Threads : ~Inside(t)
      BY <1>1 DEF ChildDied
    <2>2. listed' = listed \ {cur[Main]} /\ UNCHANGED process
      BY <1>1 DEF ChildDied
    <2>3. /\ \A t \in Threads \ {Main} : pc'[t] = pc[t] /\ ret'[t] = ret[t] /\ cur'[t] = cur[t]
          /\ mgrOwner' = Main /\ pc'[Main] # "construct"
      BY <1>1 DEF ChildDied, LetGo
    <2> QED
      BY <2>1, <2>2, <2>3
  <1>2. CASE Release
    BY <1>2 DEF Release
  <1>3. ASSUME NEW x \in Sessions, Reap(x) PROVE ReapInv'
    <2>1. pc[Main] = "idle" /\ \A y \in Sessions : process[y] = "reaped" => ~Listable(y)
      BY <1>3 DEF Reap
    <2>2. /\ process' = [process EXCEPT ![x] = "reaped"] /\ pc'[Main] = "childDied"
          /\ cur'[Main] = x /\ UNCHANGED <<listed, mgrOwner, ret>>
          /\ \A t \in Threads \ {Main} : pc'[t] = pc[t] /\ cur'[t] = cur[t]
      BY <1>3 DEF Reap
    <2> QED
      BY <2>1, <2>2
  <1>4. ASSUME NEW x \in Sessions, Die(x) PROVE ReapInv'
    BY <1>4 DEF Die
  <1>5. CASE Terminated \/ UNCHANGED vars
    BY <1>5 DEF Terminated, vars
  <1> QED
    BY <1>1, <1>2, <1>3, <1>4, <1>5 DEF MainStep

\* The session of a dead Xvnc is off the list when the main thread is through with it,
\* even if it was dead before createSession had listed it.
THEOREM DeadAreDelisted == Spec => []ReapedIsDelisted
  <1>1. Init => ReapInv
    BY ThreadKinds DEF Init, ReapInv, Inside, Listable
  <1>2. TypeOK /\ RegistryInv /\ ReapInv /\ [Next]_vars => ReapInv'
    BY ReapTunnel, ReapSection, ReapNested, ReapMain DEF Next, TunnelStep
  <1>3. TypeOK /\ ReapInv => ReapedIsDelisted
    BY DEF ReapInv, Listable, ReapedIsDelisted, TypeOK, ManagerType
  <1> QED
    BY <1>1, <1>2, <1>3, RegistryCorrect, PTL DEF Spec
-----------------------------------------------------------------------------
(* What a step leaves to the other threads *)

\* A thread changes only what is its own.
LEMMA TunnelOthers ==
  ASSUME TypeOK, NEW t \in Tunnels, TunnelStep(t)
  PROVE  OthersStay(t)
  <1> USE ThreadKinds DEF OthersStay, Goto, TypeOK, ControlType
  <1>1. CASE Start(t) \/ Scan(t)
    BY <1>1 DEF Start, Scan, objects, holding
  <1>2. CASE CreateSession(t) \/ CreateFails(t) \/ New(t) \/ Connect(t) \/ Close(t)
    BY <1>2 DEF CreateSession, CreateFails, New, Connect, Close, manager, holding, sending
  <1>3. CASE Constructed(t)
    BY <1>3 DEF Constructed, HoldingType, sending
  <1>4. CASE Switch(t) \/ Update(t)
    BY <1>4 DEF Switch, Update, manager, control, holding, sending
  <1>5. CASE Count(t) \/ WriteLine(t)
    BY <1>5 DEF Count, WriteLine, manager, control, holding
  <1>6. CASE Fetch(t)
    BY <1>6 DEF Fetch, SendingType, holding, manager
  <1>7. CASE DropCopy(t)
    BY <1>7 DEF DropCopy, LetGo, SendingType, holding, manager
  <1>8. CASE Replace(t)
    BY <1>8 DEF Replace, LetGo, HoldingType, sending, manager
  <1>9. CASE Abandon(t)
    BY <1>9 DEF Abandon, LetGo, HoldingType, sending, manager, control
  <1>10. CASE Finish(t)
    BY <1>10 DEF Finish, LetGo, HoldingType, sending, manager
  <1>11. CASE AssignDesktopName(t)
    BY <1>11 DEF AssignDesktopName, holding, sending, manager
  <1>12. ASSUME NEW x \in Sessions, Open(t, x) PROVE OthersStay(t)
    BY <1>12 DEF Open, HoldingType, sending, manager
  <1>13. ASSUME NEW x \in Sessions, NEW n \in Names, SetDesktopName(t, x, n)
         PROVE  OthersStay(t)
    BY <1>13 DEF SetDesktopName, holding, sending, manager
  <1> QED
    BY <1>1, <1>2, <1>3, <1>4, <1>5, <1>6, <1>7, <1>8, <1>9, <1>10, <1>11, <1>12, <1>13
       DEF TunnelStep

\* Neither does a controller thread ...
LEMMA ControllerOthers ==
  ASSUME TypeOK, NEW c \in Controllers, ControllerStep(c)
  PROVE  OthersStay(c)
  <1> USE ThreadKinds DEF OthersStay, Goto, TypeOK, ControlType
  <1>1. CASE Attach(c)
    BY <1>1 DEF Attach, HoldingType, manager, sending
  <1>2. CASE Detach(c)
    BY <1>2 DEF Detach, LetGo, HoldingType, manager, sending
  <1>3. CASE AssignUsername(c)
    BY <1>3 DEF AssignUsername, manager, holding, sending
  <1>4. ASSUME NEW n \in Names, SetSessionUsername(c, n) PROVE OthersStay(c)
    BY <1>4 DEF SetSessionUsername, manager, holding, sending
  <1>5. ASSUME NEW v \in BOOLEAN, Visible(c, v) PROVE OthersStay(c)
    BY <1>5 DEF Visible, MarkVisible, manager, holding, sending
  <1> QED
    BY <1>1, <1>2, <1>3, <1>4, <1>5 DEF ControllerStep

\* ... nor a thread in notifySessionChanged or ~Xvnc ...
LEMMA NestedOthers ==
  ASSUME TypeOK, NEW t \in Threads, Notify(t) \/ Destroy(t)
  PROVE  OthersStay(t)
  <1> USE ThreadKinds DEF OthersStay, Goto, TypeOK, ControlType
  <1>1. CASE Notify(t)
    BY <1>1 DEF Notify, Return, manager, holding, sending
  <1>2. CASE Destroy(t)
    BY <1>2 DEF Destroy, MarkVisible, manager, holding, sending
  <1> QED
    BY <1>1, <1>2

\* ... nor the main thread.
LEMMA MainOthers ==
  ASSUME TypeOK, MainStep
  PROVE  OthersStay(Main)
  <1> USE ThreadKinds DEF OthersStay, Goto, TypeOK, ControlType
  <1>1. CASE ChildDied
    BY <1>1 DEF ChildDied, LetGo, holding, sending
  <1>2. CASE Release
    BY <1>2 DEF Release, holding, sending
  <1>3. ASSUME NEW x \in Sessions, Reap(x) PROVE OthersStay(Main)
    BY <1>3 DEF Reap, manager, holding, sending
  <1> QED
    BY <1>1, <1>2, <1>3 DEF MainStep
-----------------------------------------------------------------------------
(* Who is inside of a call on a session *)

\* A thread inside of a call on a session has a reference to it, or it is in ~Xvnc
\* and alone; a controller has no reference before it has asked for one.
CallInv(t) ==
    /\ pc[t] \in {"assignDesktop", "assignUser"} => cur[t] \in refs[t]
    /\ pc[t] = "notify" =>
         \/ cur[t] \in refs[t]
         \/ /\ cur[t] \in Sessions
            /\ Unreachable(cur[t]) /\ xOwner[cur[t]] = t /\ ~visible[cur[t]]
    /\ t \in Controllers /\ pc[t] = "attach" => refs[t] = {}

LifeInv == \A t \in Threads : CallInv(t)

\* A step of t does not touch the sessions that others have locked.
LocksRespected(t) ==
    \A x \in Sessions, u \in Threads \ {t} : xOwner[x] = u =>
        xOwner'[x] = u /\ visible'[x] = visible[x] /\ (Unreachable(x) => Unreachable(x)')

\* LifeInv is kept when the thread of the step keeps its own part and does not
\* touch what others have locked.
LEMMA CallStep ==
  ASSUME LifeInv, NEW t \in Threads, OthersStay(t), LocksRespected(t), CallInv(t)'
  PROVE  LifeInv'
  BY DEF LifeInv, CallInv, OthersStay, LocksRespected

\* The operations of a client thread keep LifeInv.
LEMMA CallTunnel ==
  ASSUME TypeOK, RegistryInv, LifeInv, NEW t \in Tunnels, TunnelStep(t)
  PROVE  LifeInv'
  <1> USE ThreadKinds DEF Goto
  <1>1. OthersStay(t)
    BY TunnelOthers
  <1> DEFINE Quiet == /\ OthersStay(t) /\ LocksRespected(t)
                      /\ pc'[t] \notin {"assignDesktop", "assignUser", "notify"}
  <1>2. Quiet => LifeInv'
    BY CallStep DEF CallInv
  <1>3. CASE Start(t)
    <2>1. LocksRespected(t)
      BY <1>3 DEF Start, LocksRespected, Unreachable, Held, objects, holding
    <2> QED BY <1>1, <1>2, <1>3, <2>1 DEF Start, TypeOK, ControlType
  <1>4. CASE Scan(t)
    <2>1. LocksRespected(t)
      BY <1>4 DEF Scan, LocksRespected, Unreachable, Held, objects, holding
    <2> QED BY <1>1, <1>2, <1>4, <2>1 DEF Scan, TypeOK, ControlType
  <1>5. CASE CreateSession(t)
    <2>1. LocksRespected(t)
      BY <1>5 DEF CreateSession, LocksRespected, Unreachable, Held, objects, holding,
         sending
    <2> QED BY <1>1, <1>2, <1>5, <2>1 DEF CreateSession, TypeOK, ControlType
  <1>6. CASE Constructed(t)
    <2>1. LocksRespected(t)
      BY <1>6 DEF Constructed, LocksRespected, Unreachable, Held, objects, sending,
          RegistryInv, SessionInv, ConstructInv, TypeOK, HoldingType
    <2> QED BY <1>1, <1>2, <1>6, <2>1 DEF Constructed, TypeOK, ControlType
  <1>7. CASE CreateFails(t)
    <2>1. LocksRespected(t)
      BY <1>7 DEF CreateFails, LocksRespected, Unreachable, Held, objects, holding, sending
    <2> QED BY <1>1, <1>2, <1>7, <2>1 DEF CreateFails, TypeOK, ControlType
  <1>8. CASE \/ New(t) \/ Connect(t) \/ Switch(t) \/ Close(t)
             \/ Update(t) \/ Count(t) \/ WriteLine(t)
    <2>1. UNCHANGED <<mgrOwner, listed, visible, xOwner, refs, first, other, copy, ret, cur>>
      BY <1>8 DEF New, Connect, Switch, Close, Update, Count, WriteLine, manager, objects,
         holding, sending, control
    <2>2. \/ pc' = pc
          \/ \E l \in {"create", "loop", "close", "fetch", "lines", "dropCopy"} : Goto(t, l)
      BY <1>8 DEF New, Connect, Switch, Close, Update, Count, WriteLine, control
    <2>3. pc[t] \in {"loop", "connect", "count", "lines"}
      BY <1>8 DEF New, Connect, Switch, Close, Update, Count, WriteLine
    <2>4. LocksRespected(t)
      BY <2>1 DEF LocksRespected, Unreachable, Held
    <2> QED BY <1>1, <1>2, <2>2, <2>3, <2>4 DEF TypeOK, ControlType
  <1>9. CASE Fetch(t)
    <2>1. LocksRespected(t)
      BY <1>9 DEF Fetch, LocksRespected, Unreachable, Held, objects, holding, manager,
         TypeOK, SendingType
    <2> QED BY <1>1, <1>2, <1>9, <2>1 DEF Fetch, TypeOK, ControlType
  <1>10. CASE DropCopy(t)
    <2>1. LocksRespected(t)
      BY <1>10 DEF DropCopy, LetGo, LocksRespected, Unreachable, Held, objects, holding,
         manager, TypeOK, SendingType
    <2> QED BY <1>1, <1>2, <1>10, <2>1 DEF DropCopy, LetGo, TypeOK, ControlType
  <1>11. CASE Replace(t)
    <2>1. LocksRespected(t)
      BY <1>11 DEF Replace, LetGo, LocksRespected, Unreachable, Held, objects, sending,
         manager, TypeOK, HoldingType
    <2> QED BY <1>1, <1>2, <1>11, <2>1 DEF Replace, LetGo, TypeOK, ControlType
  <1>12. CASE Abandon(t)
    <2>1. LocksRespected(t)
      BY <1>12 DEF Abandon, LetGo, LocksRespected, Unreachable, Held, objects, sending,
         manager, TypeOK, HoldingType
    <2> QED BY <1>1, <1>2, <1>12, <2>1 DEF Abandon, LetGo, TypeOK, ControlType, control
  <1>13. CASE Finish(t)
    <2>1. LocksRespected(t)
      BY <1>13 DEF Finish, LetGo, LocksRespected, Unreachable, Held, objects, sending,
         manager, TypeOK, HoldingType
    <2> QED BY <1>1, <1>2, <1>13, <2>1 DEF Finish, LetGo, TypeOK, ControlType
  <1>14. ASSUME NEW x \in Sessions, Open(t, x) PROVE LifeInv'
    <2>1. LocksRespected(t)
      BY <1>14 DEF Open, LocksRespected, Unreachable, Held, objects, sending, manager,
         TypeOK, HoldingType
    <2> QED BY <1>1, <1>2, <1>14, <2>1 DEF Open, TypeOK, ControlType
  <1>15. CASE AssignDesktopName(t)
    <2>1. LocksRespected(t)
      BY <1>15 DEF AssignDesktopName, LocksRespected, Unreachable, Held, holding, sending,
         manager
    <2>2. CallInv(t)'
      <3>1. CallInv(t)
        BY DEF LifeInv
      <3> QED BY <1>15, <3>1 DEF AssignDesktopName, CallInv, TypeOK, ControlType, holding
    <2> QED BY <1>1, <2>1, <2>2, CallStep
  <1>16. ASSUME NEW x \in Sessions, NEW n \in Names, SetDesktopName(t, x, n) PROVE LifeInv'
    <2>1. LocksRespected(t)
      BY <1>16 DEF SetDesktopName, LocksRespected, Unreachable, Held, holding, sending,
         manager, TypeOK, ObjectType
    <2>2. CallInv(t)'
      <3>1. x \in refs[t]
        BY <1>16 DEF SetDesktopName, Connected, RegistryInv, LocalInv, TunnelInv
      <3> QED BY <1>16, <3>1 DEF SetDesktopName, CallInv, TypeOK, ControlType, holding
    <2> QED BY <1>1, <2>1, <2>2, CallStep
  <1> QED
    BY <1>3, <1>4, <1>5, <1>6, <1>7, <1>8, <1>9, <1>10, <1>11, <1>12, <1>13, <1>14, <1>15,
       <1>16 DEF TunnelStep

\* Those of a controller keep it: a controller that calls a method has a reference.
LEMMA CallController ==
  ASSUME TypeOK, RegistryInv, LifeInv, NEW c \in Controllers, ControllerStep(c)
  PROVE  LifeInv'
  <1> USE ThreadKinds DEF Goto
  <1>1. OthersStay(c)
    BY ControllerOthers
  <1>2. CASE Attach(c)
    <2>1. LocksRespected(c)
      BY <1>2 DEF Attach, LocksRespected, Unreachable, Held, manager, objects, sending,
         TypeOK, HoldingType
    <2>2. CallInv(c)'
      BY <1>2 DEF Attach, CallInv, TypeOK, ControlType
    <2> QED BY <1>1, <2>1, <2>2, CallStep
  <1>3. CASE Detach(c)
    <2>1. LocksRespected(c)
      BY <1>3 DEF Detach, LetGo, LocksRespected, Unreachable, Held, manager, objects,
         sending, TypeOK, HoldingType
    <2>2. CallInv(c)'
      BY <1>3 DEF Detach, LetGo, CallInv, TypeOK, ControlType
    <2> QED BY <1>1, <2>1, <2>2, CallStep
  <1>4. CASE AssignUsername(c)
    <2>1. LocksRespected(c)
      BY <1>4 DEF AssignUsername, LocksRespected, Unreachable, Held, manager, holding,
         sending, TypeOK, HoldingType
    <2>2. CallInv(c)'
      <3>1. CallInv(c)
        BY DEF LifeInv
      <3> QED BY <1>4, <3>1 DEF AssignUsername, CallInv, TypeOK, ControlType, holding
    <2> QED BY <1>1, <2>1, <2>2, CallStep
  <1>5. ASSUME NEW n \in Names, SetSessionUsername(c, n) PROVE LifeInv'
    <2>1. LocksRespected(c)
      BY <1>5 DEF SetSessionUsername, LocksRespected, Unreachable, Held, manager, objects,
         holding, sending
    <2>2. CallInv(c)'
      <3>1. LocalInv(c)
        BY DEF RegistryInv
      <3> QED
        BY <1>5, <3>1 DEF SetSessionUsername, CallInv, TypeOK, ControlType, holding,
           LocalInv, ControllerInv
    <2> QED BY <1>1, <2>1, <2>2, CallStep
  <1>6. ASSUME NEW v \in BOOLEAN, Visible(c, v) PROVE LifeInv'
    <2>1. LocksRespected(c)
      BY <1>6 DEF Visible, MarkVisible, LocksRespected, Unreachable, Held, manager, holding,
         sending, TypeOK, ObjectType
    <2>2. CallInv(c)'
      <3>1. LocalInv(c)
        BY DEF RegistryInv
      <3> QED
        BY <1>6, <3>1 DEF Visible, MarkVisible, CallInv, TypeOK, ControlType, holding,
           LocalInv, ControllerInv
    <2> QED BY <1>1, <2>1, <2>2, CallStep
  <1> QED
    BY <1>2, <1>3, <1>4, <1>5, <1>6 DEF ControllerStep

\* Inside of notifySessionChanged and ~Xvnc: the thread that marks the session
\* invisible is alone with it and stays so until it returns.
LEMMA CallNested ==
  ASSUME TypeOK, RegistryInv, LifeInv, NEW t \in Threads, Notify(t) \/ Destroy(t)
  PROVE  LifeInv'
  <1> USE ThreadKinds DEF Goto
  <1>1. OthersStay(t)
    BY NestedOthers
  <1>2. ret[t] \in {"connect", "loop", "dropCopy", "close", "serve", "done", "release"}
    BY DEF Notify, Destroy, RegistryInv, LocalInv, ReturnInv
  <1>3. CASE Notify(t)
    <2>1. LocksRespected(t)
      BY <1>3 DEF Notify, Return, LocksRespected, Unreachable, Held, manager, holding,
         sending, TypeOK, ObjectType
    <2>2. CallInv(t)'
      BY <1>2, <1>3 DEF Notify, Return, CallInv, TypeOK, ControlType
    <2> QED BY <1>1, <2>1, <2>2, CallStep
  <1>4. CASE Destroy(t)
    <2>1. PICK x \in Sessions : x = cur[t] /\ Unreachable(x)
      BY <1>4 DEF Destroy, RegistryInv, SessionInv, DestroyInv
    <2>2. LocksRespected(t)
      BY <1>4, <2>1 DEF Destroy, MarkVisible, LocksRespected, Unreachable, Held, manager,
         holding, sending, TypeOK, ObjectType
    <2>3. CallInv(t)'
      <3>1. CASE pc'[t] = ret[t]
        BY <1>2, <3>1 DEF CallInv
      <3>2. CASE pc'[t] # ret[t]
        <4>1. pc'[t] = "notify" /\ cur'[t] = x /\ xOwner'[x] = t /\ ~visible'[x]
          BY <1>4, <2>1, <3>2 DEF Destroy, MarkVisible, TypeOK, ControlType, ObjectType
        <4>2. Unreachable(x)'
          BY <1>4, <2>1 DEF Destroy, Unreachable, Held, manager, holding, sending
        <4> QED BY <2>1, <4>1, <4>2 DEF CallInv
      <3> QED BY <3>1, <3>2
    <2> QED BY <1>1, <2>2, <2>3, CallStep
  <1> QED
    BY <1>3, <1>4

\* The main thread has no references; ~Xvnc is the one method it is ever inside of.
LEMMA CallMain ==
  ASSUME TypeOK, RegistryInv, LifeInv,
         MainStep \/ (\E x \in Sessions : Die(x)) \/ Terminated \/ UNCHANGED vars
  PROVE  LifeInv'
  <1> USE ThreadKinds DEF Goto
  <1>1. CASE ChildDied
    <2>1. OthersStay(Main)
      BY <1>1, MainOthers DEF MainStep
    <2>2. LocksRespected(Main)
      BY <1>1 DEF ChildDied, LetGo, LocksRespected, Unreachable, Held, objects, holding,
         sending
    <2>3. CallInv(Main)'
      BY <1>1 DEF ChildDied, LetGo, CallInv, TypeOK, ControlType
    <2> QED BY <2>1, <2>2, <2>3, CallStep
  <1>2. CASE Release
    <2>1. OthersStay(Main)
      BY <1>2, MainOthers DEF MainStep
    <2>2. LocksRespected(Main)
      BY <1>2 DEF Release, LocksRespected, Unreachable, Held, objects, holding, sending
    <2>3. CallInv(Main)'
      BY <1>2 DEF Release, CallInv, TypeOK, ControlType
    <2> QED BY <2>1, <2>2, <2>3, CallStep
  <1>3. ASSUME NEW x \in Sessions, Reap(x) PROVE LifeInv'
    <2>1. OthersStay(Main)
      BY <1>3, MainOthers DEF MainStep
    <2>2. LocksRespected(Main)
      BY <1>3 DEF Reap, LocksRespected, Unreachable, Held, manager, objects, holding,
         sending
    <2>3. CallInv(Main)'
      BY <1>3 DEF Reap, CallInv, TypeOK, ControlType
    <2> QED BY <2>1, <2>2, <2>3, CallStep
  <1>4. ASSUME NEW x \in Sessions, Die(x) PROVE LifeInv'
    BY <1>4 DEF Die, LifeInv, CallInv, Unreachable, Held, manager, objects, control,
       holding, sending
  <1>5. CASE Terminated \/ UNCHANGED vars
    BY <1>5 DEF Terminated, vars, LifeInv, CallInv, Unreachable, Held
  <1> QED
    BY <1>1, <1>2, <1>3, <1>4, <1>5 DEF MainStep

\* LifeInv holds in every reachable state.
LEMMA LifeInvCorrect == Spec => [](TypeOK /\ RegistryInv /\ LifeInv)
  <1>1. Init => LifeInv
    BY ThreadKinds DEF Init, LifeInv, CallInv
  <1>2. TypeOK /\ RegistryInv /\ LifeInv /\ [Next]_vars => LifeInv'
    BY CallTunnel, CallController, CallNested, CallMain DEF Next
  <1> QED
    BY <1>1, <1>2, RegistryCorrect, PTL DEF Spec
-----------------------------------------------------------------------------
(* The registry implements the life of a session *)

\* The stages exclude each other.
LEMMA StageFacts ==
  ASSUME TypeOK, RegistryInv, LifeInv, NEW x \in Sessions
  PROVE  /\ ~(x < nextId) <=> x >= nextId
         /\ x \in listed \/ Holders(x) # {} \/ Finishing(x) => x < nextId /\ ~Building(x)
         /\ Building(x) => x < nextId /\ Holders(x) = {}
  <1>1. x \in Nat /\ nextId \in Nat
    BY RegistryAssumption DEF Sessions, TypeOK, ManagerType
  <1>2. x >= nextId => x >= nextId /\ Unreachable(x) /\ xOwner[x] = Nobody
    BY <1>1 DEF RegistryInv, SessionInv, FreshInv
  <1>3. Building(x) => Unreachable(x) /\ xOwner[x] = Nobody /\ x < nextId
    BY <1>1, <1>2 DEF Building, RegistryInv, SessionInv, ConstructInv, FreshInv
  <1>4. Unreachable(x) <=> x \notin listed /\ Holders(x) = {}
    BY DEF Unreachable, Holders
  <1>5. Unreachable(x) /\ xOwner[x] = Nobody /\ Finishing(x) =>
          \E t \in Threads : pc[t] = "destroy" /\ cur[t] = x
    BY ThreadKinds DEF Finishing, LifeInv, CallInv, Unreachable, Held
  <1>6. Finishing(x) => x < nextId /\ ~Building(x)
    BY <1>1, <1>2, <1>3, <1>5 DEF Building, RegistryInv, SessionInv, ConstructInv, FreshInv
  <1> QED
    BY <1>1, <1>2, <1>3, <1>4, <1>6

\* A stutter: nothing that the mapping looks at.
LEMMA NoLifeStep ==
  ASSUME \A x \in Sessions : LifeOf(x)' = LifeOf(x) /\ Holders(x)' = Holders(x),
         UNCHANGED visible
  PROVE  UNCHANGED Life!lifeVars
  BY DEF Life!lifeVars, Holders

\* One lemma per operation of SessionLife: what the registry has to do to x for it.
\* An id is handed out.
LEMMA BuildStep ==
  ASSUME NEW x \in Sessions, LifeOf(x) = "unborn", LifeOf(x)' = "building",
         \A y \in Sessions : y < x => LifeOf(y) # "unborn",
         \A y \in Sessions \ {x} : LifeOf(y)' = LifeOf(y),
         \A y \in Sessions : Holders(y)' = Holders(y),
         UNCHANGED visible
  PROVE  Life!LifeNext
  <1>1. Life!Build(x)
    BY DEF Life!Build, Life!Become, Holders
  <1> QED BY <1>1 DEF Life!LifeNext

\* The constructor throws.
LEMMA FailStep ==
  ASSUME NEW x \in Sessions, LifeOf(x) = "building", LifeOf(x)' = "gone",
         \A y \in Sessions \ {x} : LifeOf(y)' = LifeOf(y),
         \A y \in Sessions : Holders(y)' = Holders(y),
         UNCHANGED visible
  PROVE  Life!LifeNext
  <1>1. Life!Fail(x)
    BY DEF Life!Fail, Life!Become, Holders
  <1> QED BY <1>1 DEF Life!LifeNext

\* createSession lists the session.
LEMMA ListStep ==
  ASSUME NEW x \in Sessions, NEW t \in Threads,
         LifeOf(x) = "building", LifeOf(x)' = "listed", Holders(x)' = {t},
         \A y \in Sessions \ {x} : LifeOf(y)' = LifeOf(y) /\ Holders(y)' = Holders(y),
         UNCHANGED visible
  PROVE  Life!LifeNext
  <1>1. Life!List(t, x)
    BY DEF Life!List, Life!Become, Holders
  <1> QED BY <1>1 DEF Life!LifeNext

\* getSession, getSessionByDisplayNumber, sessionList: references to listed sessions.
LEMMA ObtainStep ==
  ASSUME NEW t \in Threads, \A y \in Sessions : LifeOf(y)' = LifeOf(y),
         \A y \in Sessions : \/ Holders(y)' = Holders(y)
                             \/ LifeOf(y) = "listed" /\ Holders(y)' = Holders(y) \cup {t},
         UNCHANGED visible
  PROVE  Life!LifeNext
  <1>1. Life!Obtain(t)
    BY DEF Life!Obtain, Holders
  <1> QED BY <1>1 DEF Life!LifeNext

\* A reference is dropped.
LEMMA LetStep ==
  ASSUME NEW t \in Threads, NEW x \in Sessions,
         t \in Holders(x), Holders(x)' = Holders(x) \ {t},
         \A y \in Sessions : LifeOf(y)' = LifeOf(y),
         \A y \in Sessions \ {x} : Holders(y)' = Holders(y),
         UNCHANGED visible
  PROVE  Life!LifeNext
  <1>1. Life!Let(t, x)
    BY DEF Life!Let, Holders
  <1> QED BY <1>1 DEF Life!LifeNext

\* childDied takes the session off the list.
LEMMA DelistStep ==
  ASSUME NEW x \in Sessions, LifeOf(x) = "listed", LifeOf(x)' = "delisted",
         \A y \in Sessions \ {x} : LifeOf(y)' = LifeOf(y),
         \A y \in Sessions : Holders(y)' = Holders(y),
         UNCHANGED visible
  PROVE  Life!LifeNext
  <1>1. Life!Delist(x)
    BY DEF Life!Delist, Life!Become, Holders
  <1> QED BY <1>1 DEF Life!LifeNext

\* markVisible.
LEMMA ChangeStep ==
  ASSUME NEW x \in Sessions, LifeOf(x) \in {"listed", "delisted"},
         LifeOf(x) = "delisted" /\ Holders(x) = {} => visible[x],
         \A y \in Sessions : LifeOf(y)' = LifeOf(y) /\ Holders(y)' = Holders(y),
         visible' = [visible EXCEPT ![x] = ~@]
  PROVE  Life!LifeNext
  <1>1. Life!Change(x)
    BY DEF Life!Change, Holders
  <1> QED BY <1>1 DEF Life!LifeNext

\* ~Xvnc is through.
LEMMA GoStep ==
  ASSUME NEW x \in Sessions, Holders(x) = {}, ~visible[x],
         LifeOf(x) = "delisted", LifeOf(x)' = "gone",
         \A y \in Sessions \ {x} : LifeOf(y)' = LifeOf(y),
         \A y \in Sessions : Holders(y)' = Holders(y),
         UNCHANGED visible
  PROVE  Life!LifeNext
  <1>1. Life!Go(x)
    BY DEF Life!Go, Life!Become, Holders
  <1> QED BY <1>1 DEF Life!LifeNext

\* Where a thread is neither in a constructor nor in a destructor.
Passing == PCs \ {"construct", "destroy", "notify"}

\* What the stage of a session is read from.
LEMMA StageKept ==
  ASSUME NEW x \in Sessions, UNCHANGED <<nextId, listed>>, Building(x)' <=> Building(x),
         (Holders(x)' # {} \/ Finishing(x)') <=> (Holders(x) # {} \/ Finishing(x))
  PROVE  LifeOf(x)' = LifeOf(x)
  BY DEF LifeOf

\* A thread that neither enters nor leaves a constructor, a destructor or
\* notifySessionChanged does not change a stage.
LEMMA PassingFacts ==
  ASSUME NEW t \in Threads, OthersStay(t), pc[t] \in Passing, pc'[t] \in Passing
  PROVE  \A x \in Sessions : /\ Building(x)' <=> Building(x)
                             /\ Finishing(x)' <=> Finishing(x)
  BY DEF Passing, OthersStay, Building, Finishing

\* A step that touches neither the list, nor the references, nor what is visible.
LEMMA QuietLife ==
  ASSUME TypeOK, NEW t \in Threads, OthersStay(t), pc[t] \in Passing, pc'[t] \in Passing,
         UNCHANGED <<nextId, listed, refs, copy, visible>>
  PROVE  UNCHANGED Life!lifeVars
  <1>1. \A x \in Sessions : Holders(x)' = Holders(x)
    BY DEF Holders, Held
  <1>2. \A x \in Sessions : (Building(x)' <=> Building(x)) /\ (Finishing(x)' <=> Finishing(x))
    BY PassingFacts
  <1>3. \A x \in Sessions : LifeOf(x)' = LifeOf(x)
    BY <1>1, <1>2, StageKept
  <1> QED BY <1>1, <1>3, NoLifeStep

\* A shared_ptr goes: the session is still shared, or its destructor begins.
LEMMA LetGoLife ==
  ASSUME TypeOK, RegistryInv, LifeInv, NEW t \in Threads, OthersStay(t), pc[t] \in Passing,
         NEW x \in Sessions, x \in Held(t), NEW l \in Passing,
         Held(t)' = Held(t) \ {x},
         LetGo(t, x, x \in listed \/ HeldElsewhere(t, x), l),
         UNCHANGED <<nextId, listed, visible>>
  PROVE  Life!LifeNext
  <1>1. Holders(x)' = Holders(x) \ {t} /\ t \in Holders(x)
    BY DEF Holders, Held, OthersStay
  <1>2. \A y \in Sessions \ {x} : Holders(y)' = Holders(y)
    BY DEF Holders, Held, OthersStay
  <1>3. \/ pc'[t] = l /\ (x \in listed \/ HeldElsewhere(t, x))
        \/ pc'[t] = "destroy" /\ cur'[t] = x
    BY DEF LetGo, Goto, TypeOK, ControlType
  <1>4. \A y \in Sessions \ {x} : /\ Building(y)' <=> Building(y)
                                  /\ Finishing(y)' <=> Finishing(y)
    BY <1>3 DEF Passing, OthersStay, Building, Finishing
  <1>5. (Building(x)' <=> Building(x))
    BY <1>3 DEF Passing, OthersStay, Building
  <1>6. \A y \in Sessions \ {x} : LifeOf(y)' = LifeOf(y)
    BY <1>2, <1>4, StageKept
  <1>7. LifeOf(x)' = LifeOf(x)
    <2>1. CASE x \in listed
      BY <2>1 DEF LifeOf
    <2>2. CASE x \notin listed
      <3>1. Holders(x)' # {} \/ Finishing(x)'
        BY <1>1, <1>3, <2>2 DEF HeldElsewhere, Holders, Finishing
      <3> QED BY <1>1, <1>5, <3>1, StageKept
    <2> QED BY <2>1, <2>2
  <1> QED BY <1>1, <1>2, <1>6, <1>7, LetStep

\* The operations of a client thread that no session notices.
LEMMA LifeTunnelQuiet ==
  ASSUME TypeOK, RegistryInv, LifeInv, NEW t \in Tunnels,
         \/ Start(t) \/ Scan(t) \/ New(t) \/ Connect(t) \/ Switch(t) \/ Close(t)
         \/ Update(t) \/ Count(t) \/ WriteLine(t)
         \/ \E x \in Sessions, n \in Names : SetDesktopName(t, x, n)
  PROVE  UNCHANGED Life!lifeVars
  <1> USE ThreadKinds, Labels DEF Goto, Passing
  <1>1. OthersStay(t)
    BY TunnelOthers DEF TunnelStep
  <1>2. CASE Start(t)
    <2> QED BY <1>1, <1>2, QuietLife DEF Start, TypeOK, ControlType, objects, holding
  <1>3. CASE Scan(t)
    <2> QED BY <1>1, <1>3, QuietLife DEF Scan, TypeOK, ControlType, objects, holding
  <1>4. CASE \/ New(t) \/ Connect(t) \/ Switch(t) \/ Close(t)
             \/ Update(t) \/ Count(t) \/ WriteLine(t)
    <2>1. UNCHANGED <<nextId, mgrOwner, listed, visible, refs, first, other, copy, ret, cur>>
      BY <1>4 DEF New, Connect, Switch, Close, Update, Count, WriteLine, manager, objects,
         holding, sending, control
    <2>2. \/ pc' = pc
          \/ \E l \in {"create", "loop", "close", "fetch", "lines", "dropCopy"} : Goto(t, l)
      BY <1>4 DEF New, Connect, Switch, Close, Update, Count, WriteLine, control
    <2>3. pc[t] \in {"loop", "connect", "count", "lines"}
      BY <1>4 DEF New, Connect, Switch, Close, Update, Count, WriteLine
    <2>4. pc'[t] \in Passing /\ pc[t] \in Passing
      BY <2>2, <2>3 DEF TypeOK, ControlType
    <2> QED BY <1>1, <2>1, <2>4, QuietLife
  <1>5. ASSUME NEW x \in Sessions, NEW n \in Names, SetDesktopName(t, x, n)
        PROVE  UNCHANGED Life!lifeVars
    <2> QED
      BY <1>1, <1>5, QuietLife DEF SetDesktopName, TypeOK, ControlType, manager, holding,
         sending
  <1> QED BY <1>2, <1>3, <1>4, <1>5

\* Those that drop a reference.
LEMMA LifeTunnelDrops ==
  ASSUME TypeOK, RegistryInv, LifeInv, NEW t \in Tunnels,
         Replace(t) \/ Abandon(t) \/ Finish(t) \/ DropCopy(t)
  PROVE  Life!LifeNext \/ UNCHANGED Life!lifeVars
  <1> USE ThreadKinds, Labels DEF Goto
  <1>1. OthersStay(t)
    BY TunnelOthers DEF TunnelStep
  <1>2. LocalInv(t)
    BY DEF RegistryInv
  <1>3. CASE Replace(t)
    <2>1. CASE other[t] \in {NoSession, first[t], cur[t]}
      BY <1>1, <1>3, <2>1, QuietLife DEF Replace, Passing, TypeOK, ControlType, manager,
         objects, sending
    <2>2. CASE other[t] \notin {NoSession, first[t], cur[t]}
      <3>1. PICK x \in Sessions : x = other[t]
        BY <2>2 DEF TypeOK, HoldingType
      <3>2. copy[t] = {} /\ copy'[t] = {} /\ x \in refs[t]
        BY <1>2, <1>3, <2>2, <3>1 DEF Replace, LocalInv, CopyInv, TunnelInv, sending
      <3>3. Held(t)' = Held(t) \ {x} /\ x \in Held(t)
        BY <1>3, <2>2, <3>1, <3>2 DEF Replace, Held, TypeOK, HoldingType
      <3> QED
        BY <1>1, <1>3, <2>2, <3>1, <3>3, LetGoLife DEF Replace, Passing, manager, objects
    <2> QED BY <2>1, <2>2
  <1>4. CASE Abandon(t)
    <2>1. CASE other[t] = first[t]
      BY <1>1, <1>4, <2>1, QuietLife DEF Abandon, Passing, manager, objects, sending,
         control
    <2>2. CASE other[t] # first[t]
      <3>1. PICK x \in Sessions : x = other[t]
        BY <1>4 DEF Abandon, TypeOK, HoldingType
      <3>2. copy[t] = {} /\ copy'[t] = {} /\ x \in refs[t]
        BY <1>2, <1>4, <2>2, <3>1 DEF Abandon, LocalInv, CopyInv, TunnelInv, sending
      <3>3. Held(t)' = Held(t) \ {x} /\ x \in Held(t)
        BY <1>4, <2>2, <3>1, <3>2 DEF Abandon, Held, TypeOK, HoldingType
      <3> QED
        BY <1>1, <1>4, <2>2, <3>1, <3>3, LetGoLife DEF Abandon, Passing, manager, objects
    <2> QED BY <2>1, <2>2
  <1>5. CASE Finish(t)
    <2>1. CASE refs[t] = {} /\ Goto(t, "done") /\ UNCHANGED <<refs, ret, cur>>
      BY <1>1, <1>5, <2>1, QuietLife DEF Finish, Passing, TypeOK, ControlType, manager,
         objects, sending
    <2>2. ASSUME NEW x \in refs[t], refs' = [refs EXCEPT ![t] = @ \ {x}],
                 LetGo(t, x, x \in listed \/ HeldElsewhere(t, x), "close")
          PROVE  Life!LifeNext
      <3>1. copy[t] = {} /\ copy'[t] = {} /\ x \in Sessions
        BY <1>2, <1>5 DEF Finish, LocalInv, CopyInv, sending, TypeOK, HoldingType
      <3>2. Held(t)' = Held(t) \ {x} /\ x \in Held(t)
        BY <2>2, <3>1 DEF Held, TypeOK, HoldingType
      <3> QED
        BY <1>1, <1>5, <2>2, <3>1, <3>2, LetGoLife DEF Finish, Passing, manager, objects
    <2> QED BY <1>5, <2>1, <2>2 DEF Finish
  <1>6. CASE DropCopy(t)
    <2>1. CASE copy[t] = {} /\ Goto(t, "loop") /\ UNCHANGED <<copy, ret, cur>>
      BY <1>1, <1>6, <2>1, QuietLife DEF DropCopy, Passing, TypeOK, ControlType, manager,
         objects, holding
    <2>2. ASSUME NEW x \in copy[t], copy' = [copy EXCEPT ![t] = @ \ {x}],
                 LetGo(t, x, x \in listed \/ x \in refs[t] \/ HeldElsewhere(t, x), "dropCopy")
          PROVE  Life!LifeNext \/ UNCHANGED Life!lifeVars
      <3>1. /\ x \in Sessions /\ x \in Held(t) /\ pc[t] = "dropCopy"
            /\ UNCHANGED <<nextId, listed, visible, refs>>
        BY <1>6 DEF DropCopy, TypeOK, SendingType, Held, manager, objects, holding
      <3>2. CASE x \notin refs[t]
        <4>1. Held(t)' = Held(t) \ {x}
          BY <2>2, <3>1, <3>2 DEF Held, TypeOK, SendingType
        <4>2. LetGo(t, x, x \in listed \/ HeldElsewhere(t, x), "dropCopy")
          BY <2>2, <3>2 DEF LetGo
        <4> QED BY <1>1, <3>1, <4>1, <4>2, LetGoLife DEF Passing
      <3>3. CASE x \in refs[t]
        <4>1. pc'[t] = "dropCopy"
          BY <2>2, <3>1, <3>3 DEF LetGo, TypeOK, ControlType
        <4>2. \A y \in Sessions : Holders(y)' = Holders(y)
          <5>1. \A u \in Threads : Held(u)' = Held(u)
            BY <2>2, <3>1, <3>3 DEF Held, TypeOK, SendingType
          <5> QED BY <5>1 DEF Holders
        <4>3. \A y \in Sessions : LifeOf(y)' = LifeOf(y)
          <5>1. \A y \in Sessions : /\ Building(y)' <=> Building(y)
                                    /\ Finishing(y)' <=> Finishing(y)
            BY <1>1, <3>1, <4>1, PassingFacts DEF Passing
          <5> QED BY <3>1, <4>2, <5>1, StageKept
        <4> QED BY <3>1, <4>2, <4>3, NoLifeStep
      <3> QED BY <3>2, <3>3
    <2> QED BY <1>6, <2>1, <2>2 DEF DropCopy
  <1> QED BY <1>3, <1>4, <1>5, <1>6

\* References to listed sessions are taken.
LEMMA GetHoldLife ==
  ASSUME TypeOK, RegistryInv, LifeInv, NEW t \in Threads, OthersStay(t),
         pc[t] \in Passing, pc'[t] \in Passing,
         Held(t) \subseteq Held(t)', Held(t)' \subseteq Held(t) \cup listed,
         UNCHANGED <<nextId, listed, visible>>
  PROVE  Life!LifeNext
  <1>1. \A x \in Sessions : \/ Holders(x)' = Holders(x)
                            \/ x \in listed /\ Holders(x)' = Holders(x) \cup {t}
    BY DEF Holders, Held, OthersStay
  <1>2. \A x \in Sessions : (Building(x)' <=> Building(x)) /\ (Finishing(x)' <=> Finishing(x))
    BY PassingFacts
  <1>3. \A x \in Sessions : LifeOf(x)' = LifeOf(x)
    BY <1>1, <1>2 DEF LifeOf
  <1>4. \A x \in listed \cap Sessions : LifeOf(x) = "listed"
    BY StageFacts DEF LifeOf
  <1> QED BY <1>1, <1>3, <1>4, ObtainStep

\* openSessionHandler and sendSessions take them.
LEMMA LifeTunnelObtains ==
  ASSUME TypeOK, RegistryInv, LifeInv, NEW t \in Tunnels,
         Fetch(t) \/ \E x \in Sessions : Open(t, x)
  PROVE  Life!LifeNext
  <1> USE ThreadKinds, Labels DEF Goto, Passing
  <1>1. OthersStay(t)
    BY TunnelOthers DEF TunnelStep
  <1>2. CASE Fetch(t)
    <2>1. copy[t] = {} /\ copy'[t] = listed /\ refs'[t] = refs[t]
      BY <1>2 DEF Fetch, RegistryInv, LocalInv, CopyInv, TypeOK, SendingType, holding
    <2> QED
      BY <1>1, <1>2, <2>1, GetHoldLife DEF Fetch, Held, TypeOK, ControlType, objects,
         manager
  <1>3. ASSUME NEW x \in Sessions, Open(t, x) PROVE Life!LifeNext
    <2>1. /\ copy'[t] = copy[t] /\ refs[t] \subseteq refs'[t]
          /\ refs'[t] \subseteq refs[t] \cup listed
      BY <1>3 DEF Open, TypeOK, HoldingType, sending
    <2> QED
      BY <1>1, <1>3, <2>1, GetHoldLife DEF Open, Held, TypeOK, ControlType, objects, manager
  <1> QED BY <1>2, <1>3

\* createSession, from the new id to the listed session or the exception.
LEMMA LifeConstructor ==
  ASSUME TypeOK, RegistryInv, LifeInv, NEW t \in Tunnels,
         CreateSession(t) \/ Constructed(t) \/ CreateFails(t)
  PROVE  Life!LifeNext \/ UNCHANGED Life!lifeVars
  <1> USE ThreadKinds, Labels DEF Goto
  <1>1. OthersStay(t)
    BY TunnelOthers DEF TunnelStep
  <1>2. CASE CreateSession(t)
    <2>1. PICK x \in Sessions : x = nextId
      BY <1>2, RegistryAssumption DEF CreateSession, TypeOK, ManagerType, Sessions
    <2>2. /\ pc[t] = "create" /\ pc'[t] = "construct" /\ cur'[t] = x /\ nextId' = x + 1
          /\ UNCHANGED <<listed, refs, copy, visible>>
      BY <1>2, <2>1 DEF CreateSession, TypeOK, ControlType, objects, holding, sending
    <2>3. \A y \in Sessions : Holders(y)' = Holders(y)
      BY <2>2 DEF Holders, Held
    <2>4. \A y \in Sessions \ {x} : /\ Building(y)' <=> Building(y)
                                    /\ Finishing(y)' <=> Finishing(y)
      BY <1>1, <2>2 DEF OthersStay, Building, Finishing
    <2>5. \A y \in Sessions \ {x} : y >= nextId' <=> y >= nextId
      BY <2>1, <2>2, RegistryAssumption DEF Sessions
    <2>6. \A y \in Sessions \ {x} : LifeOf(y)' = LifeOf(y)
      BY <2>2, <2>3, <2>4, <2>5 DEF LifeOf
    <2>7. LifeOf(x) = "unborn" /\ \A y \in Sessions : y < x => LifeOf(y) # "unborn"
      BY <2>1, RegistryAssumption DEF LifeOf, Sessions
    <2>8. LifeOf(x)' = "building"
      <3>1. ~(x >= nextId') /\ Building(x)'
        BY <2>2, RegistryAssumption DEF Building, Sessions
      <3>2. x \notin listed'
        BY <2>1, <2>2, RegistryAssumption DEF RegistryInv, SessionInv, FreshInv,
           Unreachable, Sessions
      <3> QED BY <3>1, <3>2 DEF LifeOf
    <2> QED BY <2>2, <2>3, <2>6, <2>7, <2>8, BuildStep
  <1>3. ASSUME pc[t] = "construct", Constructed(t) \/ CreateFails(t)
        PROVE  Life!LifeNext
    <2>1. PICK x \in Sessions : x = cur[t]
      BY <1>3 DEF RegistryInv, SessionInv, ConstructInv
    <2>2. pc'[t] \in Passing /\ UNCHANGED <<nextId, visible>>
      BY <1>3 DEF CreateFails, Constructed, Passing, TypeOK, ControlType, objects
    <2>3. \A y \in Sessions \ {x} : /\ Building(y)' <=> Building(y)
                                    /\ Finishing(y)' <=> Finishing(y)
      BY <1>1, <1>3, <2>1, <2>2 DEF OthersStay, Building, Finishing, Passing
    <2>4. ~Building(x)' /\ Building(x)
      BY <1>1, <1>3, <2>1, <2>2 DEF OthersStay, Building, Passing, RegistryInv, SessionInv,
         ConstructInv
    <2>5. /\ LifeOf(x) = "building" /\ x < nextId /\ ~(x >= nextId)
          /\ Holders(x) = {} /\ x \notin listed /\ ~Finishing(x)
      BY <2>4, StageFacts DEF LifeOf
    <2>6. ~Finishing(x)'
      BY <1>1, <2>2, <2>5 DEF OthersStay, Finishing, Passing
    <2>7. CASE Constructed(t)
      <3>1. /\ listed' = listed \cup {x} /\ refs' = [refs EXCEPT ![t] = @ \cup {x}]
            /\ UNCHANGED copy
        BY <2>1, <2>7 DEF Constructed, sending
      <3>2. \A y \in Sessions \ {x} : Holders(y)' = Holders(y)
        BY <3>1 DEF Holders, Held, TypeOK, HoldingType
      <3>3. Holders(x)' = {t}
        BY <2>5, <3>1 DEF Holders, Held, TypeOK, HoldingType
      <3>4. LifeOf(x)' = "listed"
        BY <2>2, <2>5, <3>1 DEF LifeOf
      <3>5. \A y \in Sessions \ {x} : LifeOf(y)' = LifeOf(y)
        BY <2>2, <2>3, <3>1, <3>2 DEF LifeOf
      <3> QED BY <2>2, <2>5, <3>2, <3>3, <3>4, <3>5, ListStep
    <2>8. CASE CreateFails(t)
      <3>1. UNCHANGED <<listed, refs, copy>>
        BY <2>8 DEF CreateFails, holding, sending
      <3>2. \A y \in Sessions : Holders(y)' = Holders(y)
        BY <3>1 DEF Holders, Held
      <3>3. \A y \in Sessions \ {x} : LifeOf(y)' = LifeOf(y)
        BY <2>2, <2>3, <3>1, <3>2 DEF LifeOf
      <3>4. LifeOf(x)' = "gone"
        BY <2>2, <2>4, <2>5, <2>6, <3>1, <3>2 DEF LifeOf
      <3> QED BY <2>2, <2>5, <3>2, <3>3, <3>4, FailStep
    <2> QED BY <1>3, <2>7, <2>8
  <1>4. ASSUME pc[t] # "construct", CreateFails(t)
        PROVE  UNCHANGED Life!lifeVars
    <2> QED
      BY <1>1, <1>4, QuietLife DEF CreateFails, Passing, TypeOK, ControlType, objects,
         holding, sending
  <1> QED BY <1>2, <1>3, <1>4 DEF Constructed

\* The names are assigned by a thread that has a reference.
LEMMA LifeNames ==
  ASSUME TypeOK, RegistryInv, LifeInv, NEW t \in Threads,
         \/ t \in Tunnels /\ AssignDesktopName(t)
         \/ t \in Controllers /\ AssignUsername(t)
  PROVE  UNCHANGED Life!lifeVars
  <1> USE ThreadKinds, Labels DEF Goto
  <1>1. /\ pc[t] \in {"assignDesktop", "assignUser"} /\ pc'[t] = "notify"
        /\ UNCHANGED <<mgrOwner, other, first, nextId, listed, visible, refs, copy, cur>>
    BY DEF AssignDesktopName, AssignUsername, TypeOK, ControlType, manager, holding, sending
  <1>2. OthersStay(t)
    BY <1>1 DEF AssignDesktopName, AssignUsername, OthersStay, TypeOK, ControlType
  <1>3. cur[t] \in Held(t)
    BY <1>1 DEF LifeInv, CallInv, Held
  <1>4. \A x \in Sessions : Holders(x)' = Holders(x)
    BY <1>1 DEF Holders, Held
  <1>5. \A x \in Sessions : /\ Building(x)' <=> Building(x)
                            /\ x # cur[t] => (Finishing(x)' <=> Finishing(x))
    BY <1>1, <1>2 DEF OthersStay, Building, Finishing
  <1>6. cur[t] \in Sessions => Holders(cur[t]) # {}
    BY <1>3 DEF Holders
  <1>7. \A x \in Sessions : LifeOf(x)' = LifeOf(x)
    BY <1>1, <1>4, <1>5, <1>6 DEF LifeOf
  <1> QED BY <1>1, <1>4, <1>7, NoLifeStep

\* The operations of a controller.
LEMMA LifeController ==
  ASSUME TypeOK, RegistryInv, LifeInv, NEW c \in Controllers,
         \/ Attach(c) \/ Detach(c)
         \/ \E n \in Names : SetSessionUsername(c, n)
         \/ \E v \in BOOLEAN : Visible(c, v)
  PROVE  Life!LifeNext \/ UNCHANGED Life!lifeVars
  <1> USE ThreadKinds, Labels DEF Goto
  <1>1. OthersStay(c)
    BY ControllerOthers DEF ControllerStep
  <1>2. LocalInv(c)
    BY DEF RegistryInv
  <1>3. CASE Attach(c)
    <2>1. refs[c] = {} /\ UNCHANGED copy
      BY <1>3 DEF Attach, LifeInv, CallInv, sending
    <2>2. refs'[c] \subseteq listed
      BY <1>3, <2>1 DEF Attach, TypeOK, HoldingType
    <2> QED
      BY <1>1, <1>3, <2>1, <2>2, GetHoldLife DEF Attach, Held, Passing, TypeOK, ControlType,
         manager, objects
  <1>4. CASE Detach(c)
    <2>1. PICK x \in Sessions : x = first[c] /\ refs[c] = {x}
      BY <1>2, <1>4 DEF Detach, LocalInv, ControllerInv, TypeOK, HoldingType
    <2>2. copy[c] = {} /\ copy'[c] = {} /\ refs'[c] = {}
      BY <1>2, <1>4 DEF Detach, LocalInv, CopyInv, sending, TypeOK, HoldingType
    <2>3. Held(c)' = Held(c) \ {x} /\ x \in Held(c)
      BY <2>1, <2>2 DEF Held
    <2> QED BY <1>1, <1>4, <2>1, <2>3, LetGoLife DEF Detach, Passing, manager, objects
  <1>5. ASSUME NEW n \in Names, SetSessionUsername(c, n) PROVE UNCHANGED Life!lifeVars
    <2> QED
      BY <1>1, <1>5, QuietLife DEF SetSessionUsername, Passing, TypeOK, ControlType,
         manager, objects, holding, sending
  <1>6. ASSUME NEW v \in BOOLEAN, Visible(c, v) PROVE Life!LifeNext
    <2>1. PICK x \in Sessions : x = first[c] /\ refs[c] = {x}
      BY <1>2, <1>6 DEF Visible, LocalInv, ControllerInv, TypeOK, HoldingType
    <2>2. /\ visible' = [visible EXCEPT ![x] = ~@]
          /\ pc[c] = "serve" /\ pc'[c] = "notify" /\ cur'[c] = x
          /\ UNCHANGED <<nextId, listed, refs, copy>>
      BY <1>6, <2>1 DEF Visible, MarkVisible, TypeOK, ControlType, ObjectType, manager,
         holding, sending
    <2>3. \A y \in Sessions : Holders(y)' = Holders(y)
      BY <2>2 DEF Holders, Held
    <2>4. Holders(x) # {}
      BY <2>1 DEF Holders, Held
    <2>5. \A y \in Sessions : /\ Building(y)' <=> Building(y)
                              /\ y # x => (Finishing(y)' <=> Finishing(y))
      BY <1>1, <2>2 DEF OthersStay, Building, Finishing
    <2>6. \A y \in Sessions : LifeOf(y)' = LifeOf(y)
      BY <2>2, <2>3, <2>4, <2>5 DEF LifeOf
    <2>7. LifeOf(x) \in {"listed", "delisted"}
      BY <2>4, StageFacts DEF LifeOf
    <2> QED BY <2>2, <2>3, <2>4, <2>6, <2>7, ChangeStep
  <1> QED BY <1>3, <1>4, <1>5, <1>6

\* The last call on a session returns: nobody can reach it, so it is gone.
LEMMA LifeEnds ==
  ASSUME TypeOK, RegistryInv, LifeInv, NEW t \in Threads, NEW x \in Sessions, OthersStay(t),
         pc[t] \in {"destroy", "notify"}, cur[t] = x, Unreachable(x), ~visible[x],
         pc[t] = "notify" => xOwner[x] = t,
         pc'[t] \in Passing, UNCHANGED <<nextId, listed, refs, copy, visible>>
  PROVE  Life!LifeNext
  <1> USE ThreadKinds
  <1>1. \A y \in Sessions : Holders(y)' = Holders(y)
    BY DEF Holders, Held
  <1>2. \A y \in Sessions : Building(y)' <=> Building(y)
    BY DEF OthersStay, Building, Passing
  <1>3. \A y \in Sessions \ {x} : Finishing(y)' <=> Finishing(y)
    BY DEF OthersStay, Finishing, Passing
  <1>4. Finishing(x)
    BY DEF Finishing
  <1>5. \A u \in Threads \ {t} : ~(pc[u] \in {"destroy", "notify"} /\ cur[u] = x)
    <2> SUFFICES ASSUME NEW u \in Threads \ {t}, pc[u] \in {"destroy", "notify"}, cur[u] = x
                 PROVE  FALSE
      OBVIOUS
    <2>1. CASE pc[u] = "destroy"
      BY <2>1 DEF RegistryInv, SessionInv, DestroyInv
    <2>2. CASE pc[u] = "notify"
      <3>1. xOwner[x] = u
        BY <2>2 DEF LifeInv, CallInv, Unreachable, Held
      <3> QED BY <3>1 DEF RegistryInv, SessionInv, DestroyInv
    <2> QED BY <2>1, <2>2
  <1>6. ~Finishing(x)'
    BY <1>5 DEF OthersStay, Finishing, Passing
  <1>7. x < nextId /\ ~(x >= nextId) /\ ~Building(x) /\ Holders(x) = {} /\ x \notin listed
    BY <1>4, StageFacts DEF Unreachable, Holders
  <1>8. LifeOf(x) = "delisted" /\ LifeOf(x)' = "gone"
    BY <1>1, <1>2, <1>4, <1>6, <1>7 DEF LifeOf
  <1>9. \A y \in Sessions \ {x} : LifeOf(y)' = LifeOf(y)
    BY <1>1, <1>2, <1>3 DEF LifeOf
  <1> QED BY <1>1, <1>7, <1>8, <1>9, GoStep

\* notifySessionChanged and ~Xvnc: the life of a session ends when the thread that
\* destroys it returns from the last call.
LEMMA LifeNested ==
  ASSUME TypeOK, RegistryInv, LifeInv, NEW t \in Threads, Notify(t) \/ Destroy(t)
  PROVE  Life!LifeNext \/ UNCHANGED Life!lifeVars
  <1> USE ThreadKinds, Labels DEF Goto
  <1>1. OthersStay(t)
    BY NestedOthers
  <1>2. ret[t] \in Passing
    BY DEF Notify, Destroy, RegistryInv, LocalInv, ReturnInv, Passing
  <1>3. CASE Notify(t)
    <2>1. /\ pc[t] = "notify" /\ pc'[t] = ret[t]
          /\ UNCHANGED <<nextId, listed, refs, copy, visible>>
      BY <1>3 DEF Notify, Return, TypeOK, ControlType, holding, sending
    <2>2. CASE cur[t] \in refs[t]
      <3>1. \A y \in Sessions : Holders(y)' = Holders(y)
        BY <2>1 DEF Holders, Held
      <3>2. \A y \in Sessions : /\ Building(y)' <=> Building(y)
                                /\ y # cur[t] => (Finishing(y)' <=> Finishing(y))
        BY <1>1, <1>2, <2>1 DEF OthersStay, Building, Finishing, Passing
      <3>3. cur[t] \in Sessions => Holders(cur[t]) # {}
        BY <2>2 DEF Holders, Held
      <3>4. \A y \in Sessions : LifeOf(y)' = LifeOf(y)
        BY <2>1, <3>1, <3>2, <3>3 DEF LifeOf
      <3> QED BY <2>1, <3>1, <3>4, NoLifeStep
    <2>3. CASE cur[t] \notin refs[t]
      <3>1. /\ cur[t] \in Sessions /\ Unreachable(cur[t]) /\ xOwner[cur[t]] = t
            /\ ~visible[cur[t]]
        BY <2>1, <2>3 DEF LifeInv, CallInv
      <3> QED BY <1>1, <1>2, <2>1, <3>1, LifeEnds
    <2> QED BY <2>2, <2>3
  <1>4. CASE Destroy(t)
    <2>1. PICK x \in Sessions : x = cur[t] /\ Unreachable(x)
      BY <1>4 DEF Destroy, RegistryInv, SessionInv, DestroyInv
    <2>2. pc[t] = "destroy" /\ UNCHANGED <<nextId, listed, refs, copy>>
      BY <1>4 DEF Destroy, manager, holding, sending
    <2>3. CASE visible[x] = FALSE
      <3>1. pc'[t] = ret[t] /\ UNCHANGED visible
        BY <1>4, <2>1, <2>3 DEF Destroy, MarkVisible, TypeOK, ControlType
      <3> QED BY <1>1, <1>2, <2>1, <2>2, <2>3, <3>1, LifeEnds
    <2>4. CASE visible[x] = TRUE
      <3>1. pc'[t] = "notify" /\ cur'[t] = x /\ visible' = [visible EXCEPT ![x] = ~@]
        BY <1>4, <2>1, <2>4 DEF Destroy, MarkVisible, TypeOK, ControlType, ObjectType
      <3>2. \A y \in Sessions : Holders(y)' = Holders(y)
        BY <2>2 DEF Holders, Held
      <3>3. \A y \in Sessions : /\ Building(y)' <=> Building(y)
                                /\ Finishing(y)' <=> Finishing(y)
        BY <1>1, <2>1, <2>2, <3>1 DEF OthersStay, Building, Finishing
      <3>4. \A y \in Sessions : LifeOf(y)' = LifeOf(y)
        BY <2>2, <3>2, <3>3 DEF LifeOf
      <3>5. Finishing(x) /\ Holders(x) = {} /\ x \notin listed
        BY <2>1, <2>2 DEF Finishing, Holders, Unreachable
      <3>6. LifeOf(x) = "delisted"
        BY <3>5, StageFacts DEF LifeOf
      <3> QED BY <2>4, <3>1, <3>2, <3>4, <3>6, ChangeStep
    <2> QED BY <2>3, <2>4 DEF TypeOK, ObjectType
  <1> QED BY <1>3, <1>4

\* The main thread: childDied takes a session off the list.
LEMMA LifeMain ==
  ASSUME TypeOK, RegistryInv, LifeInv,
         MainStep \/ (\E x \in Sessions : Die(x)) \/ Terminated \/ UNCHANGED vars
  PROVE  Life!LifeNext \/ UNCHANGED Life!lifeVars
  <1> USE ThreadKinds, Labels DEF Goto
  <1>1. CASE ChildDied
    <2>1. OthersStay(Main)
      BY <1>1, MainOthers DEF MainStep
    <2>2. \A y \in Sessions : Holders(y)' = Holders(y)
      BY <1>1 DEF ChildDied, Holders, Held, holding, sending
    <2>3. CASE cur[Main] \notin listed
      <3>1. pc'[Main] = "release" /\ listed' = listed
        BY <1>1, <2>3 DEF ChildDied, LetGo, TypeOK, ControlType
      <3> QED
        BY <1>1, <2>1, <3>1, QuietLife DEF ChildDied, Passing, objects, holding, sending
    <2>4. ASSUME NEW x \in Sessions, x = cur[Main], x \in listed PROVE Life!LifeNext
      <3>1. listed' = listed \ {x} /\ UNCHANGED <<nextId, visible>> /\ pc[Main] = "childDied"
        BY <1>1, <2>4 DEF ChildDied, objects
      <3>2. \/ pc'[Main] = "release" /\ Holders(x) # {}
            \/ pc'[Main] = "destroy" /\ cur'[Main] = x
        BY <1>1, <2>4 DEF ChildDied, LetGo, HeldElsewhere, Holders, TypeOK, ControlType
      <3>3. \A y \in Sessions : Building(y)' <=> Building(y)
        BY <2>1, <3>1, <3>2 DEF OthersStay, Building
      <3>4. \A y \in Sessions \ {x} : Finishing(y)' <=> Finishing(y)
        BY <2>1, <3>1, <3>2 DEF OthersStay, Finishing
      <3>5. Finishing(x)' \/ Holders(x)' # {}
        BY <2>2, <3>2 DEF Finishing
      <3>6. x < nextId /\ ~(x >= nextId) /\ ~Building(x)
        BY <2>4, StageFacts
      <3>7. LifeOf(x) = "listed" /\ LifeOf(x)' = "delisted"
        BY <2>4, <3>1, <3>3, <3>5, <3>6 DEF LifeOf
      <3>8. \A y \in Sessions \ {x} : LifeOf(y)' = LifeOf(y)
        BY <2>2, <3>1, <3>3, <3>4 DEF LifeOf
      <3> QED BY <2>2, <3>1, <3>7, <3>8, DelistStep
    <2> QED BY <2>3, <2>4 DEF TypeOK, ManagerType
  <1>2. CASE Release
    <2>1. OthersStay(Main)
      BY <1>2, MainOthers DEF MainStep
    <2> QED
      BY <1>2, <2>1, QuietLife DEF Release, Passing, TypeOK, ControlType, objects, holding,
         sending
  <1>3. ASSUME NEW x \in Sessions, Reap(x) PROVE UNCHANGED Life!lifeVars
    <2>1. OthersStay(Main)
      BY <1>3, MainOthers DEF MainStep
    <2> QED
      BY <1>3, <2>1, QuietLife DEF Reap, Passing, TypeOK, ControlType, manager, objects,
         holding, sending
  <1>4. CASE (\E x \in Sessions : Die(x)) \/ Terminated \/ UNCHANGED vars
    <2>1. UNCHANGED <<nextId, listed, refs, copy, visible, pc, cur>>
      BY <1>4 DEF Die, Terminated, vars, manager, objects, control, holding, sending
    <2>2. \A y \in Sessions : LifeOf(y)' = LifeOf(y) /\ Holders(y)' = Holders(y)
      BY <2>1 DEF LifeOf, Building, Holders, Finishing, Held
    <2> QED BY <2>1, <2>2, NoLifeStep
  <1> QED BY <1>1, <1>2, <1>3, <1>4 DEF MainStep

\* Every step of the registry is a step of the life of a session, or none.
LEMMA LifeStep ==
  TypeOK /\ RegistryInv /\ LifeInv /\ [Next]_vars => [Life!LifeNext]_(Life!lifeVars)
  <1> SUFFICES ASSUME TypeOK, RegistryInv, LifeInv, [Next]_vars
               PROVE  Life!LifeNext \/ UNCHANGED Life!lifeVars
    OBVIOUS
  <1>1. ASSUME NEW t \in Tunnels, TunnelStep(t)
        PROVE  Life!LifeNext \/ UNCHANGED Life!lifeVars
    BY <1>1, ThreadKinds, LifeTunnelQuiet, LifeTunnelDrops, LifeTunnelObtains,
       LifeConstructor, LifeNames DEF TunnelStep
  <1>2. ASSUME NEW c \in Controllers, ControllerStep(c)
        PROVE  Life!LifeNext \/ UNCHANGED Life!lifeVars
    BY <1>2, ThreadKinds, LifeController, LifeNames DEF ControllerStep
  <1> QED BY <1>1, <1>2, LifeNested, LifeMain DEF Next

\* The registry begins where SessionLife does.
LEMMA LifeStart == Init => Life!LifeInit
  <1> SUFFICES ASSUME Init PROVE Life!LifeInit
    OBVIOUS
  <1>1. \A x \in Sessions : LifeOf(x) = "unborn"
    BY RegistryAssumption DEF Init, LifeOf, Sessions
  <1>2. \A x \in Sessions : Holders(x) = {}
    BY DEF Init, Holders, Held
  <1> QED BY <1>1, <1>2 DEF Life!LifeInit, Init

\* The registry implements SessionLife: a session is built once, listed once, obtained
\* while it is listed, and gone once the last reference and ~Xvnc are, for any number
\* of threads and sessions.
THEOREM SessionsAreLives == Spec => ImplementsLife
  BY LifeStart, LifeStep, LifeInvCorrect, PTL DEF Spec, ImplementsLife, Life!LifeSpec
-----------------------------------------------------------------------------
(* What the greeters are told *)

\* What a loop knows of the list it walks.
LoopInv(t) ==
    /\ lastSent[t] <= version
    /\ pc[t] \in {"start", "scan"} => ~greeter[t]
    /\ pc[t] \in {"fetch", "count", "lines"} => greeter[t]
    /\ ~greeter[t] => lastSent[t] = 0 /\ view[t] = {} /\ sentCount[t] = 0
    /\ pc[t] \notin {"count", "lines"} => count[t] = 0
    /\ pc[t] # "lines" => lines[t] = {}
    /\ pc[t] \in {"count", "lines"} => todo[t] \subseteq copy[t]
    /\ IsFiniteSet(lines[t])
    /\ \A l \in lines[t] : l[1] \in copy[t] \ todo[t]

\* The lines of S are those of its visible session x.
Shows(S, x) == \A l \in S : l[1] = x => visible[x] /\ l = LineOf(x)

\* What nobody can have been shown yet is not visible.
UnseenInv ==
    \A x \in Sessions :
        /\ x >= nextId \/ Building(x) => ~visible[x]
        /\ version = 0 /\ ~Pending(x) => ~visible[x]

\* The version that t recorded is current: then what t has read of the list, of the
\* sessions and what it has sent is true of every session without a pending change.
\* A session in the view was referenced or listed all the time.
SendingInv(t) ==
    lastSent[t] = version => \A x \in Sessions : ~Pending(x) =>
        /\ pc[t] \in {"count", "lines"} /\ x \in listed /\ visible[x] => x \in copy[t]
        /\ pc[t] = "lines" =>
             /\ x \in copy[t] /\ visible[x] => x \in todo[t] \/ LineOf(x) \in lines[t]
             /\ Shows(lines[t], x)
        /\ Delivered(t) =>
             /\ x \in listed /\ visible[x] => LineOf(x) \in view[t]
             /\ Shows(view[t], x)
             /\ (\E l \in view[t] : l[1] = x) => ~Unreachable(x)

\* The visible sessions of S.
VisibleIn(S) == {x \in S : visible[x]}

\* The version that t recorded is current and nobody changes a session: then the
\* count is the number of lines.
CountInv(t) ==
    lastSent[t] = version /\ (\A x \in Sessions : ~Pending(x)) =>
        /\ pc[t] = "count" => count[t] = Cardinality(VisibleIn(copy[t] \ todo[t]))
        /\ pc[t] = "lines" =>
             /\ count[t] = Cardinality(VisibleIn(copy[t]))
             /\ Cardinality(lines[t]) = Cardinality(VisibleIn(copy[t] \ todo[t]))
        /\ Delivered(t) => sentCount[t] = Cardinality(view[t])

\* What is known of the greeters.
ViewInv == UnseenInv /\ \A t \in Tunnels : LoopInv(t) /\ SendingInv(t) /\ CountInv(t)

\* What a session without a change under way keeps in a step.
Stable(x) ==
    /\ ~Pending(x)
    /\ visible'[x] = visible[x] /\ LineOf(x)' = LineOf(x)
    /\ visible[x] /\ x \in listed' => x \in listed
    /\ visible[x] /\ ~Unreachable(x) => ~Unreachable(x)'

\* What a step does to the sessions.
ChangeFacts ==
    /\ version' \in Nat /\ version' >= version
    /\ \A x \in Sessions :
         /\ x >= nextId' => x >= nextId
         /\ Building(x)' => Building(x) \/ x >= nextId
         /\ visible'[x] => visible[x] \/ ~Unreachable(x)
    /\ version' = version => \A x \in Sessions : ~Pending(x)' => Stable(x)

\* Where a thread is inside of a call that changes a session.
Calling == {"assignDesktop", "assignUser", "notify", "destroy"}

\* A step outside of the calls that change a session: it may begin one.
LEMMA MoveChanges ==
  ASSUME TypeOK, NEW t \in Threads, OthersStay(t), pc[t] \notin Calling,
         UNCHANGED <<version, visible, desktopName, username>>,
         nextId' \in Nat, nextId' >= nextId,
         pc'[t] = "construct" => cur'[t] >= nextId,
         \A x \in listed' \cap Sessions : visible[x] => x \in listed,
         \A x \in Sessions : visible[x] /\ ~Unreachable(x) =>
            ~Unreachable(x)' \/ (pc'[t] = "destroy" /\ cur'[t] = x)
  PROVE  ChangeFacts
  <1>1. \A x \in Sessions : Pending(x) => Pending(x)'
    BY DEF Pending, Calling, OthersStay
  <1>2. \A x \in Sessions : visible[x] /\ pc'[t] = "destroy" /\ cur'[t] = x => Pending(x)'
    BY DEF Pending
  <1>3. \A x \in Sessions : Building(x)' => Building(x) \/ x >= nextId
    BY DEF Building, OthersStay
  <1>4. \A x \in Sessions : x >= nextId' => x >= nextId
    BY RegistryAssumption DEF TypeOK, ManagerType, Sessions
  <1>5. \A x \in Sessions : LineOf(x)' = LineOf(x)
    BY DEF LineOf
  <1>6. \A x \in Sessions : ~Pending(x)' => Stable(x)
    BY <1>1, <1>2, <1>5 DEF Stable
  <1> QED
    BY <1>3, <1>4, <1>6 DEF ChangeFacts, TypeOK, ManagerType

\* The nested calls: a change of x is under way after the step.
LEMMA CallChanges ==
  ASSUME TypeOK, NEW t \in Threads, OthersStay(t), NEW x \in Sessions,
         pc[t] # "notify", pc'[t] = "notify", cur'[t] = x,
         pc[t] \in Calling => cur[t] = x,
         UNCHANGED <<version, nextId, listed, refs, copy>>,
         \A y \in Sessions \ {x} : visible'[y] = visible[y] /\ LineOf(y)' = LineOf(y),
         visible'[x] => visible[x] \/ ~Unreachable(x)
  PROVE  ChangeFacts
  <1>1. \A y \in Sessions : Unreachable(y)' = Unreachable(y)
    BY DEF Unreachable, Held
  <1>2. Pending(x)'
    BY DEF Pending
  <1>3. \A y \in Sessions \ {x} : Pending(y) => Pending(y)'
    BY DEF Pending, Calling, OthersStay
  <1>4. \A y \in Sessions : Building(y)' => Building(y)
    BY DEF Building, OthersStay
  <1>5. \A y \in Sessions : ~Pending(y)' => Stable(y)
    BY <1>1, <1>2, <1>3 DEF Stable
  <1> QED
    BY <1>4, <1>5 DEF ChangeFacts, TypeOK, ManagerType

\* A step of a client thread.
LEMMA TunnelChanges ==
  ASSUME TypeOK, RegistryInv, LifeInv, UnseenInv, NEW t \in Tunnels, TunnelStep(t)
  PROVE  ChangeFacts
  <1> USE ThreadKinds DEF Goto
  <1>1. OthersStay(t)
    BY TunnelOthers
  <1>2. nextId \in Nat
    BY DEF TypeOK, ManagerType
  <1>3. CASE Start(t)
    BY <1>1, <1>2, <1>3, MoveChanges DEF Start, Unreachable, Held, Calling, TypeOK,
       ControlType, objects, holding
  <1>4. CASE Scan(t)
    BY <1>1, <1>2, <1>4, MoveChanges DEF Scan, Unreachable, Held, Calling, TypeOK,
       ControlType, objects, holding
  <1>5. CASE CreateSession(t)
    BY <1>1, <1>2, <1>5, MoveChanges DEF CreateSession, Unreachable, Held, Calling, TypeOK,
       ControlType, objects, holding, sending
  <1>6. CASE Constructed(t)
    <2>1. PICK x \in Sessions : x = cur[t] /\ ~visible[x]
      BY <1>6 DEF Constructed, RegistryInv, SessionInv, ConstructInv, UnseenInv, Building
    <2>2. /\ listed' = listed \cup {x}
          /\ UNCHANGED <<nextId, version, visible, desktopName, username>>
      BY <1>6, <2>1 DEF Constructed, objects
    <2>3. \A y \in Sessions : ~Unreachable(y) => ~Unreachable(y)'
      BY <1>6 DEF Constructed, Unreachable, Held, TypeOK, HoldingType, sending
    <2> QED
      BY <1>1, <1>2, <1>6, <2>1, <2>2, <2>3, MoveChanges DEF Constructed, Calling, TypeOK,
         ControlType
  <1>7. CASE CreateFails(t)
    BY <1>1, <1>2, <1>7, MoveChanges DEF CreateFails, Unreachable, Held, Calling, TypeOK,
       ControlType, objects, holding, sending
  <1>8. CASE \/ New(t) \/ Connect(t) \/ Switch(t) \/ Close(t)
             \/ Update(t) \/ Count(t) \/ WriteLine(t)
    <2>1. UNCHANGED <<nextId, listed, version, visible, desktopName, username, refs, copy>>
      BY <1>8 DEF New, Connect, Switch, Close, Update, Count, WriteLine, manager, objects,
         holding, sending
    <2>2. \/ pc' = pc
          \/ \E l \in {"create", "loop", "close", "fetch", "lines", "dropCopy"} : Goto(t, l)
      BY <1>8 DEF New, Connect, Switch, Close, Update, Count, WriteLine, control
    <2>3. pc[t] \in {"loop", "connect", "count", "lines"}
      BY <1>8 DEF New, Connect, Switch, Close, Update, Count, WriteLine
    <2> QED
      BY <1>1, <1>2, <2>1, <2>2, <2>3, MoveChanges DEF Unreachable, Held, Calling, TypeOK,
         ControlType
  <1>9. CASE Fetch(t)
    <2>1. copy[t] = {}
      BY <1>9 DEF Fetch, RegistryInv, LocalInv, CopyInv
    <2>2. \A y \in Sessions : ~Unreachable(y) => ~Unreachable(y)'
      BY <1>9, <2>1 DEF Fetch, Unreachable, Held, TypeOK, SendingType, manager, holding
    <2> QED
      BY <1>1, <1>2, <1>9, <2>2, MoveChanges DEF Fetch, Calling, TypeOK, ControlType,
         manager, objects
  <1>10. CASE DropCopy(t)
    <2>1. \A y \in Sessions : ~Unreachable(y) =>
                ~Unreachable(y)' \/ (pc'[t] = "destroy" /\ cur'[t] = y)
      BY <1>1, <1>10 DEF DropCopy, LetGo, HeldElsewhere, Unreachable, Held, OthersStay,
         TypeOK, ControlType, SendingType, manager, holding
    <2> QED
      BY <1>1, <1>2, <1>10, <2>1, MoveChanges DEF DropCopy, LetGo, Calling, TypeOK,
         ControlType, manager, objects
  <1>11. CASE Replace(t)
    <2>1. \A y \in Sessions : ~Unreachable(y) =>
                ~Unreachable(y)' \/ (pc'[t] = "destroy" /\ cur'[t] = y)
      BY <1>1, <1>11 DEF Replace, LetGo, HeldElsewhere, Unreachable, Held, OthersStay,
         TypeOK, ControlType, HoldingType, manager, sending
    <2> QED
      BY <1>1, <1>2, <1>11, <2>1, MoveChanges DEF Replace, LetGo, Calling, TypeOK,
         ControlType, manager, objects
  <1>12. CASE Abandon(t)
    <2>1. \A y \in Sessions : ~Unreachable(y) =>
                ~Unreachable(y)' \/ (pc'[t] = "destroy" /\ cur'[t] = y)
      BY <1>1, <1>12 DEF Abandon, LetGo, HeldElsewhere, Unreachable, Held, OthersStay,
         TypeOK, ControlType, HoldingType, manager, sending
    <2> QED
      BY <1>1, <1>2, <1>12, <2>1, MoveChanges DEF Abandon, LetGo, Calling, TypeOK,
         ControlType, manager, objects, control
  <1>13. CASE Finish(t)
    <2>1. \A y \in Sessions : ~Unreachable(y) =>
                ~Unreachable(y)' \/ (pc'[t] = "destroy" /\ cur'[t] = y)
      BY <1>1, <1>13 DEF Finish, LetGo, HeldElsewhere, Unreachable, Held, OthersStay,
         TypeOK, ControlType, HoldingType, manager, sending
    <2> QED
      BY <1>1, <1>2, <1>13, <2>1, MoveChanges DEF Finish, LetGo, Calling, TypeOK,
         ControlType, manager, objects
  <1>14. ASSUME NEW x \in Sessions, Open(t, x) PROVE ChangeFacts
    <2>1. \A y \in Sessions : ~Unreachable(y) => ~Unreachable(y)'
      BY <1>14 DEF Open, Unreachable, Held, TypeOK, HoldingType, manager, sending
    <2> QED
      BY <1>1, <1>2, <1>14, <2>1, MoveChanges DEF Open, Calling, TypeOK, ControlType,
         manager, objects
  <1>15. CASE AssignDesktopName(t)
    <2>1. PICK x \in Sessions : x = cur[t]
      BY <1>15 DEF AssignDesktopName, LifeInv, CallInv, TypeOK, HoldingType
    <2>2. \A y \in Sessions \ {x} : visible'[y] = visible[y] /\ LineOf(y)' = LineOf(y)
      BY <1>15, <2>1 DEF AssignDesktopName, LineOf, TypeOK, ObjectType
    <2> QED
      BY <1>1, <1>15, <2>1, <2>2, CallChanges DEF AssignDesktopName, Calling, TypeOK,
         ControlType, manager, holding, sending
  <1>16. ASSUME NEW x \in Sessions, NEW n \in Names, SetDesktopName(t, x, n) PROVE ChangeFacts
    BY <1>1, <1>2, <1>16, MoveChanges DEF SetDesktopName, Unreachable, Held, Calling,
       TypeOK, ControlType, manager, holding, sending
  <1> QED
    BY <1>3, <1>4, <1>5, <1>6, <1>7, <1>8, <1>9, <1>10, <1>11, <1>12, <1>13, <1>14, <1>15,
       <1>16 DEF TunnelStep

\* A step of a controller.
LEMMA ControllerChanges ==
  ASSUME TypeOK, RegistryInv, LifeInv, UnseenInv, NEW c \in Controllers, ControllerStep(c)
  PROVE  ChangeFacts
  <1> USE ThreadKinds DEF Goto
  <1>1. OthersStay(c)
    BY ControllerOthers
  <1>2. nextId \in Nat
    BY DEF TypeOK, ManagerType
  <1>3. CASE Attach(c)
    <2>1. \A y \in Sessions : ~Unreachable(y) => ~Unreachable(y)'
      BY <1>3 DEF Attach, LifeInv, CallInv, Unreachable, Held, TypeOK, HoldingType, manager,
         sending
    <2> QED
      BY <1>1, <1>2, <1>3, <2>1, MoveChanges DEF Attach, Calling, TypeOK, ControlType,
         manager, objects
  <1>4. CASE Detach(c)
    <2>1. LocalInv(c)
      BY DEF RegistryInv
    <2>2. \A y \in Sessions : ~Unreachable(y) =>
                ~Unreachable(y)' \/ (pc'[c] = "destroy" /\ cur'[c] = y)
      BY <1>1, <1>4, <2>1 DEF Detach, LocalInv, ControllerInv, LetGo, HeldElsewhere,
         Unreachable, Held, OthersStay, TypeOK, ControlType, HoldingType, manager, sending
    <2> QED
      BY <1>1, <1>2, <1>4, <2>2, MoveChanges DEF Detach, LetGo, Calling, TypeOK,
         ControlType, manager, objects
  <1>5. CASE AssignUsername(c)
    <2>1. PICK x \in Sessions : x = cur[c]
      BY <1>5 DEF AssignUsername, LifeInv, CallInv, TypeOK, HoldingType
    <2>2. \A y \in Sessions \ {x} : visible'[y] = visible[y] /\ LineOf(y)' = LineOf(y)
      BY <1>5, <2>1 DEF AssignUsername, LineOf, TypeOK, ObjectType
    <2> QED
      BY <1>1, <1>5, <2>1, <2>2, CallChanges DEF AssignUsername, Calling, TypeOK,
         ControlType, manager, holding, sending
  <1>6. ASSUME NEW n \in Names, SetSessionUsername(c, n) PROVE ChangeFacts
    BY <1>1, <1>2, <1>6, MoveChanges DEF SetSessionUsername, Unreachable, Held, Calling,
       TypeOK, ControlType, manager, objects, holding, sending
  <1>7. ASSUME NEW v \in BOOLEAN, Visible(c, v) PROVE ChangeFacts
    <2>1. PICK x \in Sessions : x = first[c] /\ ~Unreachable(x)
      BY <1>7 DEF Visible, RegistryInv, LocalInv, ControllerInv, Unreachable, Held, TypeOK,
         HoldingType
    <2>2. \A y \in Sessions \ {x} : visible'[y] = visible[y] /\ LineOf(y)' = LineOf(y)
      BY <1>7, <2>1 DEF Visible, MarkVisible, LineOf, TypeOK, ObjectType
    <2>3. pc[c] = "serve" /\ pc'[c] = "notify" /\ cur'[c] = x
      BY <1>7, <2>1 DEF Visible, MarkVisible, TypeOK, ControlType
    <2> QED
      BY <1>1, <1>7, <2>1, <2>2, <2>3, CallChanges DEF Visible, Calling, manager, holding,
         sending
  <1> QED
    BY <1>3, <1>4, <1>5, <1>6, <1>7 DEF ControllerStep

\* notifySessionChanged counts the change it was called for; ~Xvnc begins one.
LEMMA NestedChanges ==
  ASSUME TypeOK, RegistryInv, LifeInv, UnseenInv, NEW t \in Threads, Notify(t) \/ Destroy(t)
  PROVE  ChangeFacts
  <1> USE ThreadKinds DEF Goto
  <1>1. OthersStay(t)
    BY NestedOthers
  <1>2. ret[t] \in Passing
    BY DEF Notify, Destroy, RegistryInv, LocalInv, ReturnInv, Passing, PCs
  <1>3. CASE Notify(t)
    <2>1. pc'[t] = ret[t] /\ version' = version + 1 /\ UNCHANGED <<nextId, visible>>
      BY <1>3 DEF Notify, Return, TypeOK, ControlType
    <2>2. \A x \in Sessions : Building(x)' => Building(x)
      BY <1>1, <1>2, <2>1 DEF Building, OthersStay, Passing
    <2> QED BY <2>1, <2>2 DEF ChangeFacts, TypeOK, ManagerType
  <1>4. CASE Destroy(t)
    <2>1. PICK x \in Sessions : x = cur[t]
      BY <1>4 DEF Destroy, RegistryInv, SessionInv, DestroyInv
    <2>2. /\ pc[t] = "destroy"
          /\ UNCHANGED <<version, nextId, listed, refs, copy, desktopName, username>>
      BY <1>4 DEF Destroy, MarkVisible, manager, holding, sending
    <2>3. \A y \in Sessions : Unreachable(y)' = Unreachable(y)
      BY <2>2 DEF Unreachable, Held
    <2>4. CASE ~visible[x]
      <3>1. pc'[t] = ret[t] /\ UNCHANGED visible
        BY <1>4, <2>1, <2>4 DEF Destroy, MarkVisible, TypeOK, ControlType, ObjectType
      <3>2. \A y \in Sessions : Pending(y) => Pending(y)'
        BY <1>1, <2>1, <2>2, <2>4, <3>1 DEF Pending, OthersStay
      <3>3. \A y \in Sessions : Building(y)' => Building(y)
        BY <1>1, <1>2, <3>1 DEF Building, OthersStay, Passing
      <3>4. \A y \in Sessions : ~Pending(y)' => Stable(y)
        BY <2>2, <2>3, <3>1, <3>2 DEF Stable, LineOf
      <3> QED BY <2>2, <3>1, <3>3, <3>4 DEF ChangeFacts, TypeOK, ManagerType
    <2>5. CASE visible[x]
      <3>1. pc'[t] = "notify" /\ cur'[t] = x /\ visible' = [visible EXCEPT ![x] = FALSE]
        BY <1>4, <2>1, <2>5 DEF Destroy, MarkVisible, TypeOK, ControlType, ObjectType
      <3>2. \A y \in Sessions \ {x} : visible'[y] = visible[y] /\ LineOf(y)' = LineOf(y)
        BY <2>2, <3>1 DEF LineOf, TypeOK, ObjectType
      <3> QED BY <1>1, <2>1, <2>2, <2>5, <3>1, <3>2, CallChanges DEF Calling
    <2> QED BY <2>4, <2>5
  <1> QED BY <1>3, <1>4

\* A step of the main thread, and the death of an Xvnc.
LEMMA MainChanges ==
  ASSUME TypeOK, RegistryInv, LifeInv, UnseenInv,
         MainStep \/ (\E x \in Sessions : Die(x)) \/ Terminated \/ UNCHANGED vars
  PROVE  ChangeFacts
  <1> USE ThreadKinds DEF Goto
  <1>1. nextId \in Nat
    BY DEF TypeOK, ManagerType
  <1>2. CASE ChildDied
    <2>1. OthersStay(Main)
      BY <1>2, MainOthers DEF MainStep
    <2>2. \A y \in Sessions : ~Unreachable(y) =>
                ~Unreachable(y)' \/ (pc'[Main] = "destroy" /\ cur'[Main] = y)
      <3>1. LocalInv(Main)
        BY DEF RegistryInv
      <3>2. refs[Main] = {} /\ copy[Main] = {} /\ UNCHANGED <<refs, copy>>
        BY <1>2, <3>1 DEF ChildDied, LocalInv, CopyInv, holding, sending
      <3> QED
        BY <1>2, <3>2 DEF ChildDied, LetGo, HeldElsewhere, Unreachable, Held, TypeOK,
           ControlType
    <2> QED
      BY <1>1, <1>2, <2>1, <2>2, MoveChanges DEF ChildDied, LetGo, Calling, TypeOK,
         ControlType, objects
  <1>3. CASE Release
    <2>1. OthersStay(Main)
      BY <1>3, MainOthers DEF MainStep
    <2> QED
      BY <1>1, <1>3, <2>1, MoveChanges DEF Release, Unreachable, Held, Calling, TypeOK,
         ControlType, objects, holding, sending
  <1>4. ASSUME NEW x \in Sessions, Reap(x) PROVE ChangeFacts
    <2>1. OthersStay(Main)
      BY <1>4, MainOthers DEF MainStep
    <2> QED
      BY <1>1, <1>4, <2>1, MoveChanges DEF Reap, Unreachable, Held, Calling, TypeOK,
         ControlType, manager, objects, holding, sending
  <1>5. CASE (\E x \in Sessions : Die(x)) \/ Terminated \/ UNCHANGED vars
    <2>1. UNCHANGED <<version, nextId, listed, refs, copy,
                      visible, desktopName, username, pc, cur>>
      BY <1>5 DEF Die, Terminated, vars, manager, objects, control, holding, sending
    <2> QED
      BY <2>1 DEF ChangeFacts, Stable, Building, Pending, LineOf, Unreachable, Held, TypeOK,
         ManagerType
  <1> QED BY <1>2, <1>3, <1>4, <1>5 DEF MainStep

\* Every step changes the sessions in this way and in no other.
LEMMA StepChanges ==
  ASSUME TypeOK, RegistryInv, LifeInv, UnseenInv, [Next]_vars
  PROVE  ChangeFacts
  BY TunnelChanges, ControllerChanges, NestedChanges, MainChanges DEF Next

\* No session is visible before the first change is counted.
LEMMA UnseenStep ==
  ASSUME TypeOK, RegistryInv, LifeInv, UnseenInv, ChangeFacts
  PROVE  UnseenInv'
  <1> SUFFICES ASSUME NEW x \in Sessions
               PROVE  /\ x >= nextId' \/ Building(x)' => ~visible'[x]
                      /\ version' = 0 /\ ~Pending(x)' => ~visible'[x]
    BY DEF UnseenInv
  <1>1. x >= nextId' \/ Building(x)' => ~visible'[x]
    <2>1. x >= nextId' \/ Building(x)' => x >= nextId \/ Building(x)
      BY DEF ChangeFacts
    <2>2. x >= nextId \/ Building(x) => ~visible[x] /\ Unreachable(x)
      BY StageFacts DEF UnseenInv, RegistryInv, SessionInv, FreshInv, Building, ConstructInv
    <2> QED BY <2>1, <2>2 DEF ChangeFacts
  <1>2. version' = 0 /\ ~Pending(x)' => ~visible'[x]
    <2>1. version' = 0 => version = 0 /\ version' = version
      BY DEF ChangeFacts, TypeOK, ManagerType
    <2> QED BY <2>1 DEF ChangeFacts, Stable, UnseenInv
  <1> QED BY <1>1, <1>2

\* What is known of one greeter.
TunnelView(t) == LoopInv(t) /\ SendingInv(t) /\ CountInv(t)

\* What t's greeter is sent and was sent is the same after the step.
SameView(t) ==
    /\ lastSent'[t] = lastSent[t] /\ greeter'[t] = greeter[t]
    /\ view'[t] = view[t] /\ sentCount'[t] = sentCount[t]
    /\ todo'[t] = todo[t] /\ lines'[t] = lines[t] /\ count'[t] = count[t]

\* When the version a tunnel recorded is still the current one after a step, it was
\* before, and the sessions without a pending change are as they were.
LEMMA CurrentIsStable ==
  ASSUME TypeOK, NEW t \in Tunnels, ChangeFacts, LoopInv(t), lastSent'[t] = lastSent[t],
         lastSent'[t] = version'
  PROVE  /\ lastSent[t] = version
         /\ \A x \in Sessions : ~Pending(x)' => Stable(x)
  <1>1. lastSent[t] \in Nat /\ version \in Nat
    BY DEF TypeOK, GreeterType, ManagerType
  <1>2. version' = version
    BY <1>1 DEF ChangeFacts, LoopInv
  <1> QED BY <1>2 DEF ChangeFacts

\* A step of others.
LEMMA WaitingKeeps ==
  ASSUME TypeOK, NEW t \in Tunnels, ChangeFacts, TunnelView(t), SameView(t),
         pc'[t] = pc[t], copy'[t] = copy[t]
  PROVE  TunnelView(t)'
  <1>1. LoopInv(t)'
    <2>1. lastSent'[t] <= version'
      BY DEF TunnelView, LoopInv, SameView, ChangeFacts, TypeOK, GreeterType, ManagerType
    <2> QED BY <2>1 DEF TunnelView, LoopInv, SameView
  <1> SUFFICES ASSUME lastSent'[t] = version' PROVE SendingInv(t)' /\ CountInv(t)'
    BY <1>1 DEF TunnelView, SendingInv, CountInv
  <1>2. lastSent[t] = version /\ \A x \in Sessions : ~Pending(x)' => Stable(x)
    BY CurrentIsStable DEF TunnelView, SameView
  <1>3. Delivered(t)' = Delivered(t)
    BY DEF Delivered, SameView
  <1>4. SendingInv(t)'
    <2> SUFFICES ASSUME NEW x \in Sessions, ~Pending(x)'
                 PROVE  /\ pc'[t] \in {"count", "lines"} /\ x \in listed' /\ visible'[x] =>
                             x \in copy'[t]
                        /\ pc'[t] = "lines" =>
                             /\ x \in copy'[t] /\ visible'[x] =>
                                  x \in todo'[t] \/ LineOf(x)' \in lines'[t]
                             /\ Shows(lines[t], x)'
                        /\ Delivered(t)' =>
                             /\ x \in listed' /\ visible'[x] => LineOf(x)' \in view'[t]
                             /\ Shows(view[t], x)'
                             /\ (\E l \in view'[t] : l[1] = x) => ~Unreachable(x)'
      BY DEF SendingInv
    <2>1. Stable(x)
      BY <1>2
    <2>2. ~Pending(x) /\ visible'[x] = visible[x] /\ LineOf(x)' = LineOf(x)
      BY <2>1 DEF Stable
    <2>3. Shows(lines[t], x) => Shows(lines[t], x)'
      BY <2>2 DEF Shows, SameView
    <2>4. Shows(view[t], x) => Shows(view[t], x)'
      BY <2>2 DEF Shows, SameView
    <2>5. /\ pc[t] \in {"count", "lines"} /\ x \in listed /\ visible[x] => x \in copy[t]
          /\ pc[t] = "lines" =>
               /\ x \in copy[t] /\ visible[x] => x \in todo[t] \/ LineOf(x) \in lines[t]
               /\ Shows(lines[t], x)
          /\ Delivered(t) =>
               /\ x \in listed /\ visible[x] => LineOf(x) \in view[t]
               /\ Shows(view[t], x)
               /\ (\E l \in view[t] : l[1] = x) => ~Unreachable(x)
      BY <1>2, <2>2 DEF TunnelView, SendingInv
    <2>6. Delivered(t) /\ (\E l \in view[t] : l[1] = x) => visible[x]
      BY <2>5 DEF Shows
    <2> QED BY <1>3, <2>1, <2>2, <2>3, <2>4, <2>5, <2>6 DEF Stable, SameView
  <1>5. CountInv(t)'
    <2> SUFFICES ASSUME \A x \in Sessions : ~Pending(x)'
                 PROVE  /\ pc'[t] = "count" =>
                             count'[t] = Cardinality(VisibleIn(copy[t] \ todo[t])')
                        /\ pc'[t] = "lines" =>
                             /\ count'[t] = Cardinality(VisibleIn(copy[t])')
                             /\ Cardinality(lines'[t]) = Cardinality(VisibleIn(copy[t] \ todo[t])')
                        /\ Delivered(t)' => sentCount'[t] = Cardinality(view'[t])
      BY DEF CountInv
    <2>1. \A x \in Sessions : Stable(x) /\ ~Pending(x)
      BY <1>2 DEF Stable
    <2>2. VisibleIn(copy[t])' = VisibleIn(copy[t])
          /\ VisibleIn(copy[t] \ todo[t])' = VisibleIn(copy[t] \ todo[t])
      <3>1. copy[t] \subseteq Sessions /\ todo'[t] = todo[t]
        BY ThreadKinds DEF TypeOK, SendingType, SameView
      <3> QED BY <2>1, <3>1 DEF VisibleIn, Stable
    <2> QED BY <1>2, <1>3, <2>1, <2>2 DEF TunnelView, CountInv, SameView
  <1> QED BY <1>1, <1>4, <1>5 DEF TunnelView

\* A step of t's outside of sendSessions.
LEMMA OutsideKeeps ==
  ASSUME TypeOK, NEW t \in Tunnels, ChangeFacts, TunnelView(t), SameView(t),
         pc[t] \notin {"fetch", "count", "lines"},
         pc'[t] \notin {"fetch", "count", "lines", "start", "scan"}
  PROVE  TunnelView(t)'
  <1>1. LoopInv(t)'
    <2>1. lastSent'[t] <= version'
      BY DEF TunnelView, LoopInv, SameView, ChangeFacts, TypeOK, GreeterType, ManagerType
    <2>2. lines'[t] = {} /\ count'[t] = 0
      BY DEF TunnelView, LoopInv, SameView
    <2> QED BY <2>1, <2>2 DEF TunnelView, LoopInv, SameView
  <1> SUFFICES ASSUME lastSent'[t] = version' PROVE SendingInv(t)' /\ CountInv(t)'
    BY <1>1 DEF TunnelView, SendingInv, CountInv
  <1>2. lastSent[t] = version /\ \A x \in Sessions : ~Pending(x)' => Stable(x)
    BY CurrentIsStable DEF TunnelView, SameView
  <1>3. Delivered(t)' = Delivered(t)
    BY DEF Delivered, SameView
  <1>4. ASSUME NEW x \in Sessions, ~Pending(x)', Delivered(t)
        PROVE  /\ x \in listed' /\ visible'[x] => LineOf(x)' \in view'[t]
               /\ Shows(view[t], x)'
               /\ (\E l \in view'[t] : l[1] = x) => ~Unreachable(x)'
    <2>1. Stable(x)
      BY <1>2, <1>4
    <2>2. ~Pending(x) /\ visible'[x] = visible[x] /\ LineOf(x)' = LineOf(x)
      BY <2>1 DEF Stable
    <2>3. Shows(view[t], x) => Shows(view[t], x)'
      BY <2>2 DEF Shows, SameView
    <2>4. /\ x \in listed /\ visible[x] => LineOf(x) \in view[t]
          /\ Shows(view[t], x)
          /\ (\E l \in view[t] : l[1] = x) => ~Unreachable(x)
      BY <1>2, <1>4, <2>2 DEF TunnelView, SendingInv
    <2>5. (\E l \in view[t] : l[1] = x) => visible[x]
      BY <2>4 DEF Shows
    <2> QED BY <2>1, <2>2, <2>3, <2>4, <2>5 DEF Stable, SameView
  <1>5. SendingInv(t)'
    BY <1>3, <1>4 DEF SendingInv
  <1>6. CountInv(t)'
    BY <1>2, <1>3 DEF CountInv, Stable, TunnelView, SameView
  <1> QED BY <1>5, <1>6

\* The greeter is new or gone.
LEMMA FreshView ==
  ASSUME TypeOK, NEW t \in Tunnels, UnseenInv', version \in Nat, version' = version,
         lastSent'[t] = 0, view'[t] = {}, sentCount'[t] = 0, count'[t] = 0, lines'[t] = {},
         pc'[t] \notin {"fetch", "count", "lines", "start"},
         pc'[t] = "scan" => ~greeter'[t]
  PROVE  TunnelView(t)'
  <1>1. LoopInv(t)'
    BY FS_EmptySet DEF LoopInv
  <1>2. SendingInv(t)'
    BY DEF SendingInv, UnseenInv, Shows
  <1>3. CountInv(t)'
    BY FS_EmptySet DEF CountInv
  <1> QED BY <1>1, <1>2, <1>3 DEF TunnelView

\* There are finitely many sessions.
LEMMA SessionsAreFinite == ASSUME NEW S \in SUBSET Sessions PROVE IsFiniteSet(S)
  <1>1. 0 \in Int /\ MaxSessions - 1 \in Int
    BY RegistryAssumption
  <1>2. IsFiniteSet(0 .. MaxSessions - 1)
    BY <1>1, FS_Interval
  <1> QED BY <1>2, FS_Subset DEF Sessions

\* A loop goes on by one session.
LEMMA OneMoreVisible ==
  ASSUME NEW S \in SUBSET Sessions, NEW T \in SUBSET S, NEW x \in T
  PROVE  Cardinality(VisibleIn(S \ (T \ {x}))) =
           IF visible[x] THEN Cardinality(VisibleIn(S \ T)) + 1
           ELSE Cardinality(VisibleIn(S \ T))
  <1>1. VisibleIn(S \ T) \in SUBSET Sessions /\ x \notin VisibleIn(S \ T)
    BY DEF VisibleIn
  <1>2. CASE visible[x]
    <2>1. VisibleIn(S \ (T \ {x})) = VisibleIn(S \ T) \cup {x}
      BY <1>2 DEF VisibleIn
    <2> QED BY <1>1, <1>2, <2>1, SessionsAreFinite, FS_AddElement
  <1>3. CASE ~visible[x]
    <2>1. VisibleIn(S \ (T \ {x})) = VisibleIn(S \ T)
      BY <1>3 DEF VisibleIn
    <2> QED BY <1>3, <2>1
  <1> QED BY <1>2, <1>3

\* sessionList: the copy has what is listed.
LEMMA FetchKeeps ==
  ASSUME TypeOK, NEW t \in Tunnels, TunnelView(t), Fetch(t)
  PROVE  TunnelView(t)'
  <1>1. /\ pc[t] = "fetch" /\ pc'[t] = "count" /\ copy'[t] = listed /\ todo'[t] = listed
        /\ UNCHANGED <<version, lastSent, greeter, view, sentCount, listed, count, lines>>
    BY ThreadKinds DEF Fetch, Goto, TypeOK, ControlType, SendingType, manager, greeters
  <1>2. LoopInv(t)'
    BY <1>1 DEF TunnelView, LoopInv
  <1>3. ~Delivered(t)'
    BY <1>1 DEF Delivered
  <1>4. SendingInv(t)'
    BY <1>1, <1>3 DEF SendingInv
  <1>5. count'[t] = 0 /\ VisibleIn(copy[t] \ todo[t])' = {}
    BY <1>1 DEF TunnelView, LoopInv, VisibleIn
  <1>6. CountInv(t)'
    BY <1>1, <1>3, <1>5, FS_EmptySet DEF CountInv
  <1> QED BY <1>2, <1>4, <1>6 DEF TunnelView

\* The first loop of sendSessions.
LEMMA CountKeeps ==
  ASSUME TypeOK, NEW t \in Tunnels, TunnelView(t), Count(t)
  PROVE  TunnelView(t)'
  <1> USE ThreadKinds DEF Goto
  <1>1. /\ pc[t] = "count" /\ lines[t] = {} /\ todo[t] \subseteq copy[t]
        /\ UNCHANGED <<version, lastSent, greeter, view, sentCount, listed,
                       copy, lines, visible, cur, desktopName, username>>
    BY DEF Count, TunnelView, LoopInv, manager, objects, greeters
  <1>2. \A u \in Threads : pc'[u] = pc[u] \/ (u = t /\ pc'[u] = "lines")
    BY DEF Count, TypeOK, ControlType
  <1>3. \A x \in Sessions : Pending(x)' = Pending(x)
    BY <1>1, <1>2 DEF Pending
  <1>4. ~Delivered(t)'
    BY <1>1, <1>2, ThreadKinds DEF Delivered
  <1>5. CASE pc' = pc
    <2>1. ~(todo[t] = {} /\ Goto(t, "lines"))
      BY <1>1, <1>5 DEF TypeOK, ControlType
    <2>2. PICK x \in todo[t] : /\ count'[t] = IF visible[x] THEN count[t] + 1 ELSE count[t]
                               /\ todo'[t] = todo[t] \ {x}
      BY <2>1 DEF Count, TypeOK, SendingType
    <2>3. LoopInv(t)'
      BY <1>1, <1>5, <2>2 DEF TunnelView, LoopInv
    <2>4. SendingInv(t)'
      BY <1>1, <1>3, <1>4, <1>5 DEF TunnelView, SendingInv
    <2>5. VisibleIn(copy[t] \ todo[t])' = VisibleIn(copy[t] \ (todo[t] \ {x}))
      BY <1>1, <2>2 DEF VisibleIn
    <2>6. Cardinality(VisibleIn(copy[t] \ (todo[t] \ {x}))) =
           IF visible[x] THEN Cardinality(VisibleIn(copy[t] \ todo[t])) + 1
           ELSE Cardinality(VisibleIn(copy[t] \ todo[t]))
      BY <1>1, OneMoreVisible DEF TypeOK, SendingType
    <2>7. CountInv(t)'
      BY <1>1, <1>3, <1>4, <1>5, <2>2, <2>5, <2>6 DEF TunnelView, CountInv
    <2> QED BY <2>3, <2>4, <2>7 DEF TunnelView
  <1>6. CASE pc' # pc
    <2>1. todo[t] = {} /\ todo'[t] = copy[t] /\ pc'[t] = "lines" /\ count' = count
      BY <1>1, <1>6, ThreadKinds DEF Count, TypeOK, SendingType, ControlType
    <2>2. LoopInv(t)'
      BY <1>1, <2>1 DEF TunnelView, LoopInv
    <2>3. SendingInv(t)'
      BY <1>1, <1>3, <1>4, <2>1 DEF TunnelView, SendingInv, Shows
    <2>4. /\ VisibleIn(copy[t])' = VisibleIn(copy[t] \ todo[t])
          /\ VisibleIn(copy[t] \ todo[t])' = {}
      BY <1>1, <2>1 DEF VisibleIn
    <2>5. CountInv(t)'
      BY <1>1, <1>3, <1>4, <2>1, <2>4, FS_EmptySet DEF TunnelView, CountInv
    <2> QED BY <2>2, <2>3, <2>5 DEF TunnelView
  <1> QED BY <1>5, <1>6

\* No thread assigns a name: what is read is the name.
LEMMA ReadsName ==
  ASSUME NEW x \in Sessions, ~Pending(x),
         NEW u \in Reads(x, username, "assignUser"),
         NEW d \in Reads(x, desktopName, "assignDesktop")
  PROVE  <<x, u, d>> = LineOf(x)
  BY DEF Reads, Pending, LineOf

\* The second loop of sendSessions, and the message.
LEMMA LineKeeps ==
  ASSUME TypeOK, NEW t \in Tunnels, TunnelView(t), WriteLine(t)
  PROVE  TunnelView(t)'
  <1> USE ThreadKinds DEF Goto
  <1>1. /\ pc[t] = "lines" /\ todo[t] \subseteq copy[t]
        /\ UNCHANGED <<version, lastSent, greeter, listed, refs,
                       copy, visible, cur, desktopName, username>>
    BY DEF WriteLine, TunnelView, LoopInv, manager, objects, holding
  <1>2. \A u \in Threads : pc'[u] = pc[u] \/ (u = t /\ pc'[u] = "dropCopy")
    BY DEF WriteLine, TypeOK, ControlType
  <1>3. \A x \in Sessions : Pending(x)' = Pending(x) /\ LineOf(x)' = LineOf(x)
    BY <1>1, <1>2 DEF Pending, LineOf
  <1>4. \A l \in lines[t] : l[1] \in copy[t] \ todo[t]
    BY DEF TunnelView, LoopInv
  <1>5. CASE pc' = pc
    <2>1. ~(todo[t] = {} /\ Goto(t, "dropCopy"))
      BY <1>1, <1>5 DEF TypeOK, ControlType
    <2>2. PICK x \in todo[t] : /\ todo'[t] = todo[t] \ {x}
                               /\ \/ ~visible[x] /\ lines'[t] = lines[t]
                                  \/ /\ visible[x]
                                     /\ \E u \in Reads(x, username, "assignUser"),
                                         d \in Reads(x, desktopName, "assignDesktop") :
                                          lines'[t] = lines[t] \cup {<<x, u, d>>}
                               /\ UNCHANGED <<view, sentCount, count>>
      BY <2>1 DEF WriteLine, TypeOK, SendingType
    <2>3. x \in Sessions /\ x \in copy[t]
      BY <1>1 DEF TypeOK, SendingType
    <2>4. ~Delivered(t)'
      BY <1>1, <1>5 DEF Delivered
    <2>5. \A l \in lines'[t] : l \in lines[t] \/ l[1] = x
      BY <2>2
    <2>6. IsFiniteSet(lines'[t])
      <3>1. PICK l : lines'[t] \in {lines[t], lines[t] \cup {l}}
        BY <2>2
      <3>2. IsFiniteSet(lines[t])
        BY DEF TunnelView, LoopInv
      <3>3. IsFiniteSet(lines[t] \cup {l})
        BY <3>2, FS_AddElement
      <3> QED BY <3>1, <3>2, <3>3
    <2>7. LoopInv(t)'
      BY <1>1, <1>4, <1>5, <2>2, <2>3, <2>5, <2>6 DEF TunnelView, LoopInv
    <2>8. ~Pending(x) => lines'[t] = IF visible[x] THEN lines[t] \cup {LineOf(x)}
                                     ELSE lines[t]
      BY <2>2, <2>3, ReadsName
    <2>9. SendingInv(t)'
      <3> SUFFICES ASSUME lastSent'[t] = version', NEW y \in Sessions, ~Pending(y)'
                   PROVE  /\ y \in listed' /\ visible'[y] => y \in copy'[t]
                          /\ y \in copy'[t] /\ visible'[y] =>
                               y \in todo'[t] \/ LineOf(y)' \in lines'[t]
                          /\ Shows(lines[t], y)'
        BY <1>1, <1>5, <2>4 DEF SendingInv
      <3>1. ~Pending(y) /\ LineOf(y)' = LineOf(y)
        BY <1>3
      <3>2. /\ y \in listed /\ visible[y] => y \in copy[t]
            /\ y \in copy[t] /\ visible[y] => y \in todo[t] \/ LineOf(y) \in lines[t]
            /\ Shows(lines[t], y)
        BY <1>1, <3>1 DEF TunnelView, SendingInv
      <3>3. Shows(lines[t], y)'
        <4> SUFFICES ASSUME NEW l \in lines'[t], l[1] = y PROVE visible'[y] /\ l = LineOf(y)'
          BY DEF Shows
        <4>1. CASE l \in lines[t]
          BY <1>1, <3>1, <3>2, <4>1 DEF Shows
        <4>2. CASE l \notin lines[t]
          BY <1>1, <2>5, <2>8, <3>1, <4>2
        <4> QED BY <4>1, <4>2
      <3>4. y \in copy'[t] /\ visible'[y] => y \in todo'[t] \/ LineOf(y)' \in lines'[t]
        <4>1. CASE y = x
          BY <1>1, <2>8, <3>1, <4>1
        <4>2. CASE y # x
          BY <1>1, <2>2, <3>1, <3>2, <4>2
        <4> QED BY <4>1, <4>2
      <3> QED BY <1>1, <3>2, <3>3, <3>4
    <2>10. CountInv(t)'
      <3> SUFFICES ASSUME lastSent'[t] = version', \A y \in Sessions : ~Pending(y)'
                   PROVE  /\ count'[t] = Cardinality(VisibleIn(copy[t])')
                          /\ Cardinality(lines'[t]) = Cardinality(VisibleIn(copy[t] \ todo[t])')
        BY <1>1, <1>5, <2>4 DEF CountInv
      <3>1. /\ count[t] = Cardinality(VisibleIn(copy[t]))
            /\ Cardinality(lines[t]) = Cardinality(VisibleIn(copy[t] \ todo[t]))
        BY <1>1, <1>3 DEF TunnelView, CountInv
      <3>2. /\ VisibleIn(copy[t])' = VisibleIn(copy[t])
            /\ VisibleIn(copy[t] \ todo[t])' = VisibleIn(copy[t] \ (todo[t] \ {x}))
        BY <1>1, <2>2 DEF VisibleIn
      <3>3. Cardinality(VisibleIn(copy[t] \ (todo[t] \ {x}))) =
              IF visible[x] THEN Cardinality(VisibleIn(copy[t] \ todo[t])) + 1
              ELSE Cardinality(VisibleIn(copy[t] \ todo[t]))
        BY <1>1, OneMoreVisible DEF TypeOK, SendingType
      <3>4. Cardinality(lines'[t]) = IF visible[x] THEN Cardinality(lines[t]) + 1
                                     ELSE Cardinality(lines[t])
        <4>1. LineOf(x) \notin lines[t]
          BY <1>4 DEF LineOf
        <4>2. IsFiniteSet(lines[t])
          BY DEF TunnelView, LoopInv
        <4> QED BY <1>3, <2>3, <2>8, <4>1, <4>2, FS_AddElement
      <3> QED BY <2>2, <3>1, <3>2, <3>3, <3>4
    <2> QED BY <2>7, <2>9, <2>10 DEF TunnelView
  <1>6. CASE pc' # pc
    <2>1. /\ todo[t] = {} /\ todo' = todo /\ pc'[t] = "dropCopy" /\ view'[t] = lines[t]
          /\ sentCount'[t] = count[t]
          /\ lines'[t] = {} /\ count'[t] = 0
      BY <1>1, <1>6, ThreadKinds DEF WriteLine, TypeOK, SendingType, ControlType,
         GreeterType
    <2>2. LoopInv(t)'
      BY <1>1, <2>1, FS_EmptySet DEF TunnelView, LoopInv
    <2>3. SendingInv(t)'
      <3> SUFFICES ASSUME lastSent'[t] = version', NEW y \in Sessions, ~Pending(y)'
                   PROVE  /\ y \in listed' /\ visible'[y] => LineOf(y)' \in view'[t]
                          /\ Shows(view[t], y)'
                          /\ (\E l \in view'[t] : l[1] = y) => ~Unreachable(y)'
        BY <2>1 DEF SendingInv
      <3>1. ~Pending(y) /\ LineOf(y)' = LineOf(y)
        BY <1>3
      <3>2. /\ y \in listed /\ visible[y] => y \in copy[t]
            /\ y \in copy[t] /\ visible[y] => y \in todo[t] \/ LineOf(y) \in lines[t]
            /\ Shows(lines[t], y)
        BY <1>1, <3>1 DEF TunnelView, SendingInv
      <3>3. Shows(view[t], y)'
        BY <1>1, <2>1, <3>1, <3>2 DEF Shows
      <3>4. (\E l \in view'[t] : l[1] = y) => ~Unreachable(y)'
        BY <1>1, <1>4, <2>1, ThreadKinds DEF Unreachable, Held
      <3> QED BY <1>1, <2>1, <3>1, <3>2, <3>3, <3>4
    <2>4. CountInv(t)'
      <3>1. VisibleIn(copy[t] \ todo[t]) = VisibleIn(copy[t])
        BY <2>1 DEF VisibleIn
      <3> QED BY <1>1, <1>3, <2>1, <3>1 DEF TunnelView, CountInv
    <2> QED BY <2>2, <2>3, <2>4 DEF TunnelView
  <1> QED BY <1>5, <1>6

\* What t's greeter was sent is the same after the step, and so is what t sends it.
KeptView(t) == SameView(t) /\ pc'[t] = pc[t] /\ copy'[t] = copy[t]

\* A client thread touches no other thread's greeter.
LEMMA TunnelKeepsOthers ==
  ASSUME TypeOK, NEW t \in Tunnels, TunnelStep(t), NEW u \in Tunnels \ {t}
  PROVE  KeptView(u)
  <1>1. pc'[u] = pc[u] /\ copy'[u] = copy[u]
    BY TunnelOthers, ThreadKinds DEF OthersStay
  <1>2. SameView(u)
    <2> USE DEF SameView, TypeOK, GreeterType, SendingType
    <2>1. CASE Start(t) \/ Scan(t)
      BY <2>1 DEF Start, Scan
    <2>2. CASE \/ CreateSession(t) \/ Constructed(t) \/ CreateFails(t)
               \/ New(t) \/ Connect(t) \/ Close(t)
      BY <2>2 DEF CreateSession, Constructed, CreateFails, New, Connect, Close, greeters,
         sending
    <2>3. CASE Replace(t) \/ Abandon(t) \/ AssignDesktopName(t)
      BY <2>3 DEF Replace, Abandon, AssignDesktopName, greeters, sending
    <2>4. CASE Switch(t) \/ Finish(t)
      BY <2>4 DEF Switch, Finish, EndGreeter, sending
    <2>5. CASE Update(t)
      BY <2>5 DEF Update, sending
    <2>6. CASE Fetch(t) \/ Count(t) \/ DropCopy(t)
      BY <2>6 DEF Fetch, Count, DropCopy, greeters
    <2>7. CASE WriteLine(t)
      BY <2>7 DEF WriteLine
    <2>8. CASE \/ \E x \in Sessions : Open(t, x)
               \/ \E x \in Sessions, n \in Names : SetDesktopName(t, x, n)
      BY <2>8 DEF Open, SetDesktopName, greeters, sending
    <2> QED
      BY <2>1, <2>2, <2>3, <2>4, <2>5, <2>6, <2>7, <2>8 DEF TunnelStep
  <1> QED BY <1>1, <1>2 DEF KeptView

\* Neither do the controllers ...
LEMMA ControllerKeepsViews ==
  ASSUME TypeOK, NEW c \in Controllers, ControllerStep(c), NEW u \in Tunnels
  PROVE  KeptView(u)
  <1>1. u # c
    BY ThreadKinds
  <1>2. pc'[u] = pc[u] /\ copy'[u] = copy[u]
    BY <1>1, ControllerOthers, ThreadKinds DEF OthersStay
  <1>3. UNCHANGED <<lastSent, greeter, view, sentCount, todo, lines, count>>
    BY DEF ControllerStep, Attach, Detach, AssignUsername, SetSessionUsername, Visible,
       greeters, sending
  <1> QED BY <1>2, <1>3 DEF KeptView, SameView

\* ... nor does the main thread.
LEMMA MainKeepsViews ==
  ASSUME TypeOK, MainStep \/ (\E x \in Sessions : Die(x)) \/ Terminated \/ UNCHANGED vars,
         NEW u \in Tunnels
  PROVE  KeptView(u)
  <1>1. u # Main
    BY ThreadKinds
  <1>2. pc'[u] = pc[u] /\ copy'[u] = copy[u]
    BY <1>1, MainOthers, ThreadKinds DEF OthersStay, Die, Terminated, vars, control, sending
  <1>3. UNCHANGED <<lastSent, greeter, view, sentCount, todo, lines, count>>
    BY DEF MainStep, ChildDied, Release, Reap, Die, Terminated, vars, greeters, sending
  <1> QED BY <1>2, <1>3 DEF KeptView, SameView

\* notifySessionChanged and ~Xvnc, on the greeter's own thread or on another.
LEMMA NestedView ==
  ASSUME TypeOK, RegistryInv, ChangeFacts, NEW t \in Threads, Notify(t) \/ Destroy(t),
         NEW u \in Tunnels, TunnelView(u)
  PROVE  TunnelView(u)'
  <1>1. SameView(u)
    BY DEF Notify, Destroy, SameView, greeters, sending
  <1>2. CASE u # t
    BY <1>1, <1>2, WaitingKeeps, NestedOthers, ThreadKinds DEF OthersStay
  <1>3. CASE u = t
    <2>1. /\ pc[t] \in {"notify", "destroy"}
          /\ ret[t] \in Passing \ {"fetch", "count", "lines", "start", "scan"}
      BY DEF Notify, Destroy, RegistryInv, LocalInv, ReturnInv, Passing, PCs
    <2>2. pc'[t] \in {ret[t], "notify"}
      BY DEF Notify, Destroy, Return, MarkVisible, Goto, TypeOK, ControlType
    <2> QED BY <1>1, <1>3, <2>1, <2>2, OutsideKeeps DEF Passing
  <1> QED BY <1>2, <1>3

\* The step of a client thread, seen by its own greeter.
LEMMA UpdateKeeps ==
  ASSUME TypeOK, NEW t \in Tunnels, TunnelView(t), Update(t)
  PROVE  TunnelView(t)'
  <1>1. /\ pc[t] = "loop" /\ pc'[t] = "fetch" /\ greeter[t] /\ lastSent'[t] = version
        /\ UNCHANGED <<version, greeter, view, sentCount, copy, todo, count, lines>>
    BY ThreadKinds DEF Update, Goto, TypeOK, ControlType, GreeterType, manager, sending
  <1>2. version \in Nat /\ ~Delivered(t)'
    BY <1>1 DEF Delivered, TypeOK, ManagerType
  <1>3. LoopInv(t)'
    BY <1>1, <1>2 DEF TunnelView, LoopInv
  <1>4. SendingInv(t)' /\ CountInv(t)'
    BY <1>1, <1>2 DEF SendingInv, CountInv
  <1> QED BY <1>3, <1>4 DEF TunnelView

\* The greeter begins and ends without a list.
LEMMA StartsView ==
  ASSUME TypeOK, RegistryInv, NEW t \in Tunnels, UnseenInv', TunnelView(t),
         Start(t) \/ Scan(t) \/ Finish(t) \/ Switch(t)
  PROVE  TunnelView(t)'
  <1> USE ThreadKinds DEF Goto
  <1>1. version \in Nat
    BY DEF TypeOK, ManagerType
  <1>2. CASE Start(t) \/ Scan(t)
    <2>1. /\ pc[t] \in {"start", "scan"}
          /\ UNCHANGED <<version, lastSent, sentCount, view, copy, count, lines>>
      BY <1>2 DEF Start, Scan
    <2>2. /\ pc'[t] \in {"create", "scan"}
          /\ pc'[t] = "scan" => UNCHANGED greeter
      BY <1>2, <2>1 DEF Start, Scan, TypeOK, ControlType
    <2>3. /\ lastSent[t] = 0 /\ view[t] = {} /\ sentCount[t] = 0 /\ count[t] = 0
          /\ lines[t] = {} /\ ~greeter[t]
      BY <2>1 DEF TunnelView, LoopInv
    <2> QED BY <1>1, <2>1, <2>2, <2>3, FreshView
  <1>3. CASE Finish(t) \/ Switch(t)
    <2>1. /\ pc[t] \in {"close", "loop"}
          /\ UNCHANGED <<version, count, lines>>
          /\ lastSent'[t] = 0 /\ view'[t] = {} /\ sentCount'[t] = 0
      BY <1>3 DEF Finish, Switch, EndGreeter, TypeOK, GreeterType, manager, sending
    <2>2. pc'[t] \in {"done", "close", "destroy", "loop"}
      BY <1>3 DEF Finish, Switch, LetGo, TypeOK, ControlType, control
    <2>3. count[t] = 0 /\ lines[t] = {}
      BY <2>1 DEF TunnelView, LoopInv
    <2> QED BY <1>1, <2>1, <2>2, <2>3, FreshView
  <1> QED BY <1>2, <1>3

\* Everything else a client thread does.
LEMMA OtherOperations ==
  ASSUME TypeOK, NEW t \in Tunnels, ChangeFacts, TunnelView(t), TunnelStep(t),
         ~(Start(t) \/ Scan(t) \/ Finish(t) \/ Switch(t)),
         ~(Update(t) \/ Fetch(t) \/ Count(t) \/ WriteLine(t))
  PROVE  TunnelView(t)'
  <1> USE ThreadKinds DEF Goto
  <1>1. CASE \/ CreateSession(t) \/ Constructed(t) \/ CreateFails(t)
             \/ New(t) \/ Connect(t) \/ Close(t)
    <2>1. SameView(t)
      BY <1>1 DEF CreateSession, Constructed, CreateFails, New, Connect, Close, SameView,
         greeters, sending
    <2>2. /\ pc[t] \in {"create", "construct", "connect", "loop"}
          /\ pc'[t] \in {"construct", "connect", "replace", "close", "create", "loop"}
      BY <1>1 DEF CreateSession, Constructed, CreateFails, New, Connect, Close, TypeOK,
         ControlType
    <2> QED BY <2>1, <2>2, OutsideKeeps
  <1>2. CASE Replace(t) \/ Abandon(t) \/ AssignDesktopName(t)
    <2>1. SameView(t)
      BY <1>2 DEF Replace, Abandon, AssignDesktopName, SameView, greeters, sending
    <2>2. /\ pc[t] \in {"replace", "loop", "assignDesktop"}
          /\ pc'[t] \in {"connect", "destroy", "loop", "notify"}
      BY <1>2 DEF Replace, Abandon, AssignDesktopName, LetGo, control, TypeOK, ControlType
    <2> QED BY <2>1, <2>2, OutsideKeeps
  <1>3. CASE DropCopy(t)
    <2>1. SameView(t)
      BY <1>3 DEF DropCopy, SameView, greeters
    <2>2. pc[t] = "dropCopy" /\ pc'[t] \in {"loop", "destroy", "dropCopy"}
      BY <1>3 DEF DropCopy, LetGo, TypeOK, ControlType
    <2> QED BY <2>1, <2>2, OutsideKeeps
  <1>4. CASE \/ \E x \in Sessions : Open(t, x)
             \/ \E x \in Sessions, n \in Names : SetDesktopName(t, x, n)
    <2>1. SameView(t)
      BY <1>4 DEF Open, SetDesktopName, SameView, greeters, sending
    <2>2. pc[t] = "loop" /\ pc'[t] \in {"replace", "null", "assignDesktop"}
      BY <1>4 DEF Open, SetDesktopName, TypeOK, ControlType
    <2> QED BY <2>1, <2>2, OutsideKeeps
  <1> QED
    BY <1>1, <1>2, <1>3, <1>4 DEF TunnelStep

\* A step of a client thread keeps what is known of every greeter.
LEMMA TunnelStepView ==
  ASSUME TypeOK, RegistryInv, NEW t \in Tunnels, UnseenInv', ChangeFacts, TunnelStep(t),
         NEW u \in Tunnels, TunnelView(u)
  PROVE  TunnelView(u)'
  <1>1. CASE u # t
    BY <1>1, TunnelKeepsOthers, WaitingKeeps DEF KeptView
  <1>2. CASE u = t
    <2>1. CASE Start(t) \/ Scan(t) \/ Finish(t) \/ Switch(t)
      BY <1>2, <2>1, StartsView
    <2>2. CASE Update(t) \/ Fetch(t) \/ Count(t) \/ WriteLine(t)
      BY <1>2, <2>2, UpdateKeeps, FetchKeeps, CountKeeps, LineKeeps
    <2> QED BY <1>2, <2>1, <2>2, OtherOperations
  <1> QED BY <1>1, <1>2

\* ViewInv is inductive, relative to the invariants before.
LEMMA ViewStep ==
  ASSUME TypeOK, RegistryInv, LifeInv, ViewInv, [Next]_vars
  PROVE  ViewInv'
  <1>1. ChangeFacts /\ UnseenInv'
    BY StepChanges, UnseenStep DEF ViewInv
  <1>2. ASSUME NEW u \in Tunnels PROVE TunnelView(u)'
    <2>1. TunnelView(u)
      BY DEF ViewInv, TunnelView
    <2>2. CASE \E t \in Tunnels : TunnelStep(t)
      BY <1>1, <2>1, <2>2, TunnelStepView
    <2>3. CASE \E t \in Threads : Notify(t) \/ Destroy(t)
      BY <1>1, <2>1, <2>3, NestedView
    <2>4. CASE \E c \in Controllers : ControllerStep(c)
      BY <1>1, <2>1, <2>4, ControllerKeepsViews, WaitingKeeps DEF KeptView
    <2>5. CASE MainStep \/ (\E x \in Sessions : Die(x)) \/ Terminated \/ UNCHANGED vars
      BY <1>1, <2>1, <2>5, MainKeepsViews, WaitingKeeps DEF KeptView
    <2> QED BY <2>2, <2>3, <2>4, <2>5 DEF Next
  <1> QED BY <1>1, <1>2 DEF ViewInv, TunnelView

\* No greeter has been sent anything at first.
LEMMA ViewStart == Init => ViewInv
  <1> SUFFICES ASSUME Init PROVE ViewInv
    OBVIOUS
  <1>1. UnseenInv
    BY DEF Init, UnseenInv
  <1>2. ASSUME NEW t \in Tunnels PROVE LoopInv(t) /\ SendingInv(t) /\ CountInv(t)
    <2>1. /\ pc[t] = "start" /\ ~greeter[t] /\ lastSent[t] = 0 /\ view[t] = {}
          /\ sentCount[t] = 0 /\ count[t] = 0 /\ lines[t] = {} /\ version = 0
      BY ThreadKinds DEF Init
    <2>2. LoopInv(t)
      BY <2>1, FS_EmptySet DEF LoopInv
    <2> QED BY <2>1, <2>2 DEF SendingInv, CountInv, Delivered
  <1> QED BY <1>1, <1>2 DEF ViewInv

\* ViewInv holds in every reachable state.
LEMMA ViewCorrect == Spec => [](TypeOK /\ RegistryInv /\ LifeInv /\ ViewInv)
  <1>1. Init => ViewInv
    BY ViewStart
  <1>2. TypeOK /\ RegistryInv /\ LifeInv /\ ViewInv /\ [Next]_vars => ViewInv'
    BY ViewStep
  <1> QED BY <1>1, <1>2, LifeInvCorrect, PTL DEF Spec

\* A greeter whose tunnel has recorded the current version shows the visible sessions:
\* update() may record the version before it reads the list, because a change is only
\* counted after it is made.
THEOREM GreetersAreUpToDate == Spec => []GreeterUpToDate
  <1>1. TypeOK /\ RegistryInv /\ LifeInv /\ ViewInv => GreeterUpToDate
    BY DEF ViewInv, SendingInv, Shows, Unreachable, GreeterUpToDate
  <1> QED BY <1>1, ViewCorrect, PTL

\* A message with a wrong count of lines is followed by another one.
THEOREM WrongCountsAreRepaired == Spec => []WrongCountIsRepaired
  <1>1. TypeOK /\ RegistryInv /\ LifeInv /\ ViewInv => WrongCountIsRepaired
    <2> SUFFICES ASSUME TypeOK, ViewInv, NEW t \in Tunnels,
                        Delivered(t), sentCount[t] # Cardinality(view[t])
                 PROVE  lastSent[t] < version \/ \E x \in Sessions : Pending(x)
      BY DEF WrongCountIsRepaired
    <2>1. lastSent[t] <= version /\ lastSent[t] \in Nat /\ version \in Nat
      BY DEF ViewInv, LoopInv, TypeOK, GreeterType, ManagerType
    <2>2. lastSent[t] # version \/ \E x \in Sessions : Pending(x)
      BY DEF ViewInv, CountInv
    <2> QED BY <2>1, <2>2
  <1> QED BY <1>1, ViewCorrect, PTL
=============================================================================
