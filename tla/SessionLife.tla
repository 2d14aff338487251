----------------------------- MODULE SessionLife -----------------------------
(***************************************************************************)
(* What XvncManager promises the threads that use it, without locks,       *)
(* reference counts or processes: the life of a session.                   *)
(*                                                                         *)
(* A session is built under a fresh id, listed, taken off the list once,   *)
(* and gone.  Threads get hold of it only while it is listed; it stays     *)
(* usable, even delisted, until the last of them lets go, and only then is *)
(* it gone.  A session that is gone is not visible and stays gone.         *)
(***************************************************************************)
EXTENDS Naturals

CONSTANTS Users, Ids

VARIABLES life,     \* unborn, building, listed, delisted or gone, per session
          holders,  \* who may use the session
          shown     \* whether it asks to be offered to greeters

lifeVars == <<life, holders, shown>>

LifeInit ==
    /\ life = [x \in Ids |-> "unborn"]
    /\ holders = [x \in Ids |-> {}]
    /\ shown = [x \in Ids |-> FALSE]

Become(x, s) == life' = [life EXCEPT ![x] = s]

\* Ids are handed out in order, never again.
Build(x) ==
    /\ life[x] = "unborn"
    /\ \A y \in Ids : y < x => life[y] # "unborn"
    /\ Become(x, "building")
    /\ UNCHANGED <<holders, shown>>

Fail(x) == life[x] = "building" /\ Become(x, "gone") /\ UNCHANGED <<holders, shown>>

\* Whoever built a session holds it.
List(u, x) ==
    /\ life[x] = "building"
    /\ Become(x, "listed")
    /\ holders' = [holders EXCEPT ![x] = {u}]
    /\ UNCHANGED shown

\* A thread looks up a session, or copies the list and with it any of them.
Obtain(u) ==
    /\ UNCHANGED <<life, shown>>
    /\ holders' = [x \in Ids |-> IF u \in holders'[x] THEN holders[x] \cup {u}
                                 ELSE holders[x]]
    /\ \A x \in Ids : holders'[x] # holders[x] => life[x] = "listed"

Let(u, x) ==
    /\ u \in holders[x]
    /\ holders' = [holders EXCEPT ![x] = @ \ {u}]
    /\ UNCHANGED <<life, shown>>

Delist(x) ==
    /\ life[x] = "listed"
    /\ Become(x, "delisted")
    /\ UNCHANGED <<holders, shown>>

Change(x) ==
    /\ \/ life[x] = "listed"
       \/ life[x] = "delisted" /\ (holders[x] = {} => shown[x])
    /\ shown' = [shown EXCEPT ![x] = ~@]
    /\ UNCHANGED <<life, holders>>

Go(x) ==
    /\ life[x] = "delisted"
    /\ holders[x] = {}
    /\ ~shown[x]
    /\ Become(x, "gone")
    /\ UNCHANGED <<holders, shown>>

LifeNext ==
    \/ \E x \in Ids : Build(x) \/ Fail(x) \/ Delist(x) \/ Change(x) \/ Go(x)
    \/ \E u \in Users, x \in Ids : List(u, x) \/ Let(u, x)
    \/ \E u \in Users : Obtain(u)

LifeSpec == LifeInit /\ [][LifeNext]_lifeVars
=============================================================================
