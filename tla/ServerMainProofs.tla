-------------------------- MODULE ServerMainProofs --------------------------
(***************************************************************************)
(* Theorems about ServerMain for any number of controllers, sessions,      *)
(* displays, addresses and tries: type correctness, and that a controller  *)
(* commands no other session than its own.                                 *)
(*                                                                         *)
(* The display number that a controller gives does not lead to its own     *)
(* session in general.  The argument is about its key: only the session    *)
(* that it runs in ever approves it (KeyInv), since a controller gets its  *)
(* key before any session has seen it (HomeInv), and the key is looked for *)
(* in one session (AttachedInv).                                           *)
(***************************************************************************)
EXTENDS ServerMain, TLAPS

\* A program that runs in a session has been started.
HomeInv == \A c \in Controllers : pc[c] = "none" => home[c] = 0

\* A key is approved by the session that its controller runs in only.
KeyInv == \A x \in Sessions : \A c \in approved[x] : home[c] = x

\* Who waits for an approval waits for one session.
AttachedInv == \A c \in Controllers : pc[c] \in {"key", "check", "tries"} => session[c] # 0

\* The inductive invariant.
ControlInv == TypeOK /\ HomeInv /\ KeyInv /\ AttachedInv /\ ControlsOwnSession

-----------------------------------------------------------------------------
\* The start leaves the variables in their types.
LEMMA StartType ==
  ASSUME TypeOK, Parse \/ ConstructManagers \/ PrepareSignals \/ Listen \/ Run
  PROVE  TypeOK'
  <1> USE DEF TypeOK, signalVars, clientVars, sessionVars, programVars, threadVars
  <1>1. CASE Parse
    BY <1>1 DEF Parse, Goes
  <1>2. CASE ConstructManagers
    BY <1>2 DEF ConstructManagers, Goes
  <1>3. CASE PrepareSignals
    BY <1>3 DEF PrepareSignals, Goes
  <1>4. CASE Listen
    BY <1>4 DEF Listen, Goes
  <1>5. CASE Run
    BY <1>5 DEF Run
  <1> QED
    BY <1>1, <1>2, <1>3, <1>4, <1>5

\* The loop of the main thread, and its end, leave the variables in their types.
LEMMA MainType ==
  ASSUME TypeOK, Main
  PROVE  TypeOK'
  <1> USE DEF TypeOK, signalVars, clientVars, sessionVars, programVars, threadVars
  <1>1. CASE Parse \/ ConstructManagers \/ PrepareSignals \/ Listen \/ Run
    BY <1>1, StartType
  <1>2. CASE Select
    BY <1>2 DEF Select, Readable
  <1>3. CASE EndRound
    BY <1>3 DEF EndRound
  <1>4. ASSUME NEW address \in Addresses, Accept(address) PROVE TypeOK'
    BY <1>4 DEF Accept
  <1>5. CASE AcceptController
    BY <1>5 DEF AcceptController
  <1>6. CASE HandleSignal
    BY <1>6, ServerMainAssumption DEF HandleSignal, Handle
  <1>7. CASE Reap
    BY <1>7 DEF Reap, Zombies, DeadGreeters
  <1>8. CASE ChildDied
    BY <1>8 DEF ChildDied
  <1>9. CASE GreeterDied
    BY <1>9 DEF GreeterDied, ReapOn
  <1>10. CASE Exit
    BY <1>10 DEF Exit
  <1> QED
    BY <1>1, <1>2, <1>3, <1>4, <1>5, <1>6, <1>7, <1>8, <1>9, <1>10 DEF Main

\* The thread of a controller leaves the variables in their types.
LEMMA ControllerType ==
  ASSUME TypeOK, NEW c \in Controllers, Controller(c)
  PROVE  TypeOK'
  <1> USE ServerMainAssumption
      DEF TypeOK, serverVars, mainVars, signalVars, clientVars, sessionVars, programVars
  <1>1. CASE Attach(c)
    BY <1>1 DEF Attach, ByDisplayNumber
  <1>2. CASE AttachLate(c)
    BY <1>2 DEF AttachLate
  <1>3. CASE ReadKey(c)
    <2>1. key' \in [Controllers -> BOOLEAN]
      BY <1>3 DEF ReadKey
    <2>2. /\ pc' = [pc EXCEPT ![c] = "check"]
          /\ UNCHANGED <<serverVars, sessionVars, programVars, session, tries>>
      BY <1>3 DEF ReadKey
    <2> QED
      BY <2>1, <2>2
  <1>4. CASE CheckKey(c)
    BY <1>4 DEF CheckKey
  <1>5. CASE TryAgain(c)
    BY <1>5 DEF TryAgain
  <1>6. CASE Disconnect(c)
    BY <1>6 DEF Disconnect
  <1> QED
    BY <1>1, <1>2, <1>3, <1>4, <1>5, <1>6 DEF Controller

\* Every step leaves the variables in their types.
LEMMA TypeStep == TypeOK /\ [Next]_vars => TypeOK'
  <1> SUFFICES ASSUME TypeOK, [Next]_vars PROVE TypeOK'
    OBVIOUS
  <1> USE DEF TypeOK, serverVars, mainVars, signalVars, clientVars, sessionVars,
              programVars, threadVars
  <1>1. CASE Main
    BY <1>1, MainType
  <1>2. CASE Kill
    BY <1>2 DEF Kill
  <1>3. ASSUME NEW x \in Sessions,
               CreateSession(x) \/ Created(x) \/ CreationFails(x)
        PROVE  TypeOK'
    BY <1>3 DEF CreateSession, Created, CreationFails
  <1>4. ASSUME NEW x \in Sessions, Die(x) PROVE TypeOK'
    BY <1>4 DEF Die
  <1>5. ASSUME NEW c \in Controllers, Controller(c) PROVE TypeOK'
    BY <1>5, ControllerType
  <1>6. ASSUME NEW c \in Controllers, Name(c) PROVE TypeOK'
    BY <1>6 DEF Name
  <1>7. ASSUME NEW c \in Controllers, HangUp(c) PROVE TypeOK'
    BY <1>7 DEF HangUp
  <1>8. ASSUME NEW c \in Controllers, SetDesktopName(c) PROVE TypeOK'
    BY <1>8 DEF SetDesktopName
  <1>9. ASSUME NEW c \in Controllers, NEW x \in Sessions, Connect(c, x) PROVE TypeOK'
    BY <1>9 DEF Connect
  <1>10. ASSUME NEW a \in Greeted, CreateGreeter(a) \/ GreeterCreated(a) \/ GreeterEnds(a)
         PROVE  TypeOK'
    BY <1>10 DEF CreateGreeter, GreeterCreated, GreeterEnds
  <1>11. CASE UNCHANGED vars
    BY <1>11 DEF vars
  <1> QED
    BY <1>1, <1>2, <1>3, <1>4, <1>5, <1>6, <1>7, <1>8, <1>9, <1>10, <1>11 DEF Next

\* Every variable of the main thread and of the controllers stays within its type.
THEOREM TypeCorrect == Spec => []TypeOK
  <1>1. ASSUME Init PROVE TypeOK
    <2>1. tries \in [Controllers -> 0..approvalTries]
      BY <1>1, ServerMainAssumption DEF Init
    <2>2. /\ main = "parse" /\ running \in BOOLEAN
          /\ listening \subseteq Addresses /\ clients \subseteq Addresses
          /\ listed \subseteq Sessions
          /\ sent \subseteq Signals /\ pending \subseteq Signals \union {"CHLD"}
          /\ mgrLock \in Sessions \union {0}
          /\ greeter \in [Greeted -> {"none", "starting", "running", "zombie", "reaped"}]
          /\ ready \subseteq Addresses \union {"signal", "control"}
          /\ reaped \in Sessions \union {0}
      BY <1>1 DEF Init
    <2>3. /\ xvnc \in [Sessions -> {"none", "running", "zombie", "reaped"}]
          /\ display \in [Sessions -> Displays \union {0}]
          /\ approved \in [Sessions -> SUBSET Controllers]
      BY <1>1 DEF Init
    <2>4. /\ pc \in [Controllers -> {"none", "queued", "hello", "key", "check", "tries",
                                      "serving", "ended", "undefined"}]
          /\ home \in [Controllers -> Sessions \union {0}]
          /\ session \in [Controllers -> Sessions \union {0}]
      BY <1>1 DEF Init
    <2>5. /\ open \in [Controllers -> BOOLEAN] /\ named \in [Controllers -> BOOLEAN]
          /\ key \in [Controllers -> BOOLEAN]
      BY <1>1, Zenon DEF Init
    <2> QED
      BY <2>1, <2>2, <2>3, <2>4, <2>5 DEF TypeOK
  <1> QED
    BY <1>1, TypeStep, PTL DEF Spec
-----------------------------------------------------------------------------
\* The main thread and what is outside of the program leave the keys alone, or give a
\* key to the session that its controller runs in.
LEMMA ControlStepOutside ==
  ASSUME ControlInv,
         \/ Main \/ Kill \/ UNCHANGED vars
         \/ \E x \in Sessions :
               \/ CreateSession(x) \/ Created(x) \/ CreationFails(x) \/ Die(x)
         \/ \E a \in Greeted : CreateGreeter(a) \/ GreeterCreated(a) \/ GreeterEnds(a)
         \/ \E c \in Controllers :
               \/ Name(c) \/ HangUp(c) \/ SetDesktopName(c)
               \/ \E x \in Sessions : Connect(c, x)
  PROVE  HomeInv' /\ KeyInv' /\ AttachedInv' /\ ControlsOwnSession'
  <1> USE DEF ControlInv, TypeOK, HomeInv, KeyInv, AttachedInv, ControlsOwnSession
  <1>1. ASSUME UNCHANGED <<approved, programVars, threadVars>>
        PROVE  HomeInv' /\ KeyInv' /\ AttachedInv' /\ ControlsOwnSession'
    BY <1>1 DEF programVars, threadVars
  <1>2. CASE AcceptController
    BY <1>2 DEF AcceptController, Queued, sessionVars, programVars
  <1>3. CASE Exit
    BY <1>3 DEF Exit, sessionVars, programVars
  <1>4. CASE Main /\ ~AcceptController /\ ~Exit
    BY <1>1, <1>4 DEF Main, Parse, ConstructManagers, PrepareSignals, Listen, Goes, Run, Select,
                      EndRound, Accept, HandleSignal, Reap, ChildDied, GreeterDied,
                      sessionVars
  <1>5. CASE \/ Kill \/ UNCHANGED vars
             \/ \E x \in Sessions :
                   \/ CreateSession(x) \/ Created(x) \/ CreationFails(x)
                   \/ Die(x)
             \/ \E a \in Greeted : CreateGreeter(a) \/ GreeterCreated(a) \/ GreeterEnds(a)
    BY <1>1, <1>5 DEF Kill, CreateSession, Created, CreationFails, CreateGreeter, GreeterCreated, GreeterEnds, Die, sessionVars,
                      programVars, threadVars, vars
  <1>6. ASSUME NEW c \in Controllers, Name(c) \/ HangUp(c)
        PROVE  HomeInv' /\ KeyInv' /\ AttachedInv' /\ ControlsOwnSession'
    BY <1>6 DEF Name, HangUp, sessionVars, threadVars
  <1>7. ASSUME NEW c \in Controllers, SetDesktopName(c)
        PROVE  HomeInv' /\ KeyInv' /\ AttachedInv' /\ ControlsOwnSession'
    BY <1>7 DEF SetDesktopName, programVars, threadVars
  <1>8. ASSUME NEW c \in Controllers, NEW x \in Sessions, Connect(c, x)
        PROVE  HomeInv' /\ KeyInv' /\ AttachedInv' /\ ControlsOwnSession'
    <2>1. home[c] = 0
      BY <1>8 DEF Connect
    <2>2. \A y \in Sessions : c \notin approved[y]
      BY <2>1 DEF Sessions
    <2> QED
      BY <1>8, <2>2 DEF Connect, sessionVars
  <1> QED
    BY <1>2, <1>3, <1>4, <1>5, <1>6, <1>7, <1>8

\* The thread of a controller serves it in the session that has approved its key.
LEMMA ControlStepController ==
  ASSUME ControlInv, NEW c \in Controllers, Controller(c)
  PROVE  HomeInv' /\ KeyInv' /\ AttachedInv' /\ ControlsOwnSession'
  <1> USE DEF ControlInv, TypeOK, HomeInv, KeyInv, AttachedInv, ControlsOwnSession,
              sessionVars, programVars
  <1>1. CASE Attach(c)
    <2>1. 0 \notin Sessions
      BY DEF Sessions
    <2>2. CASE \E x \in listed : /\ session' = [session EXCEPT ![c] = x]
                                /\ pc' = [pc EXCEPT ![c] = "key"]
      BY <1>1, <2>1, <2>2 DEF Attach
    <2>3. CASE pc' = [pc EXCEPT ![c] = "ended"] /\ UNCHANGED session
      BY <1>1, <2>3 DEF Attach
    <2> QED
      BY <1>1, <2>2, <2>3 DEF Attach, ByDisplayNumber
  <1>2. CASE AttachLate(c)
    BY <1>2 DEF AttachLate
  <1>3. CASE ReadKey(c)
    BY <1>3 DEF ReadKey
  <1>4. CASE CheckKey(c)
    <2>1. CASE IsKeyApproved(c)
      <3>1. session[c] \in Sessions /\ c \in approved[session[c]]
        BY <1>4, <2>1 DEF CheckKey, IsKeyApproved
      <3>2. home[c] = session[c]
        BY <3>1
      <3> QED
        BY <1>4, <2>1, <3>2 DEF CheckKey
    <2>2. CASE ~IsKeyApproved(c)
      BY <1>4, <2>2 DEF CheckKey
    <2> QED
      BY <2>1, <2>2
  <1>5. CASE TryAgain(c)
    BY <1>5 DEF TryAgain
  <1>6. CASE Disconnect(c)
    BY <1>6 DEF Disconnect
  <1> QED
    BY <1>1, <1>2, <1>3, <1>4, <1>5, <1>6 DEF Controller

\* A controller that commands a session runs in it, whatever display numbers lead to.
THEOREM ControllersStayAtHome == Spec => []ControlsOwnSession
  <1>1. Init => HomeInv /\ KeyInv /\ AttachedInv /\ ControlsOwnSession
    BY DEF Init, HomeInv, KeyInv, AttachedInv, ControlsOwnSession
  <1>2. ControlInv /\ [Next]_vars => ControlInv'
    <2> SUFFICES ASSUME ControlInv, [Next]_vars PROVE ControlInv'
      OBVIOUS
    <2>1. TypeOK'
      BY TypeStep DEF ControlInv
    <2>2. HomeInv' /\ KeyInv' /\ AttachedInv' /\ ControlsOwnSession'
      BY ControlStepOutside, ControlStepController DEF Next
    <2> QED
      BY <2>1, <2>2 DEF ControlInv
  <1>3. ControlInv => ControlsOwnSession
    BY DEF ControlInv
  <1>4. Init /\ TypeOK => ControlInv
    BY <1>1 DEF ControlInv
  <1> QED
    BY <1>2, <1>3, <1>4, TypeCorrect, PTL DEF Spec
=============================================================================
