--------------------------- MODULE ImapIdleProofs ---------------------------
(***************************************************************************)
(* Proofs, for any number of connections, posts and faults, that the three *)
(* holders of the client agree, that the observer closes no channel twice, *)
(* that no connection is left without a watcher, and that IDLE and the     *)
(* commands exclude each other on the first connection.                    *)
(***************************************************************************)
EXTENDS ImapIdle, TLAPS

(* A stopped observer is not running, and its done channel is a new one:   *)
(* every channel that was closed is older.                                 *)
ObserverInv ==
  /\ oclient = None => ~running
  /\ \A n \in oclosed : n < odone

IInv == TypeOK /\ ObserverInv /\ Watched

USE DEF None

-----------------------------------------------------------------------------
LEMMA ObserverIsOff ==
  ASSUME IInv, ObserverOff
  PROVE  /\ oclient' = None /\ ~running'
         /\ odone' \in Nat \ {0} /\ odone' >= odone
         /\ oclosed' \subseteq 1..odone' /\ \A n \in oclosed' : n < odone'
BY DEF IInv, TypeOK, ObserverInv, ObserverOff

LEMMA ObserverIsOn ==
  ASSUME IInv, NEW c \in Nat \ {0}, ObserverOn(c)
  PROVE  /\ oclient' = c /\ running' = TRUE
         /\ odone' \in Nat \ {0} /\ odone' >= odone
         /\ oclosed' \subseteq 1..odone' /\ \A n \in oclosed' : n < odone'
         /\ watchers' = watchers \cup {Watcher("spawned", c, None, 0)}
BY DEF IInv, TypeOK, ObserverInv, ObserverOn

(* Both goroutine sets stay well formed when only the counters they refer  *)
(* to grow.                                                                *)
LEMMA WatchersKept ==
  ASSUME IInv, watchers' \subseteq watchers, conns' \in Nat, conns' >= conns,
         odone' \in Nat, odone' >= odone
  PROVE  WatchersOK'
BY DEF IInv, TypeOK, WatchersOK

LEMMA IdlesKept ==
  ASSUME IInv, idles' \subseteq idles, conns' \in Nat, conns' >= conns,
         stop' \in Nat, stop' >= stop
  PROVE  IdlesOK'
BY DEF IInv, TypeOK, IdlesOK

LEMMA IdlerStarts ==
  ASSUME IInv, conns' \in 1..MaxConns, conns' >= conns,
         StartIdler(TRUE) \/ StartIdler(FALSE)
  PROVE  /\ stop' \in Nat \ {0} /\ closed' \subseteq 1..stop'
         /\ armed' \subseteq 1..stop' /\ firing' \subseteq 1..stop'
         /\ IdlesOK'
<1> DEFINE P == /\ stop' \in Nat \ {0} /\ stop' >= stop /\ closed' \subseteq 1..stop'
                /\ armed' \subseteq 1..stop' /\ firing' \subseteq 1..stop'
<1>0. /\ stop \in Nat \ {0} /\ closed \subseteq 1..stop
      /\ armed \subseteq 1..stop /\ firing \subseteq 1..stop
      BY DEF IInv, TypeOK
<1>1. P
  <2>1. CASE StartIdler(TRUE)
    <3>1. /\ stop' = stop + 1 /\ closed' = closed \cup {stop}
          /\ armed' = armed \cup {stop + 1} /\ firing' = firing
          BY <2>1 DEF StartIdler
    <3> QED BY <1>0, <3>1
  <2>2. CASE StartIdler(FALSE)
    <3>1. /\ stop' = stop /\ closed' = closed /\ armed' = armed /\ firing' = firing
          BY <2>2 DEF StartIdler
    <3> QED BY <1>0, <3>1
  <2> QED BY <2>1, <2>2
<1>2. idles' \subseteq idles  BY DEF StartIdler
<1>3. conns' \in Nat  BY BoundsAssumption
<1> QED BY <1>1, <1>2, <1>3, IdlesKept

-----------------------------------------------------------------------------
LEMMA InitIInv == Init => IInv
<1> SUFFICES ASSUME Init PROVE IInv
    OBVIOUS
<1>1. offline \in BOOLEAN /\ running \in BOOLEAN
  BY DEF Init
<1>2. TypeOK
  BY <1>1, BoundsAssumption DEF Init, TypeOK, IdlesOK, WatchersOK, Watcher
<1>3. ObserverInv
  BY DEF Init, ObserverInv
<1>4. Watched
  BY DEF Init, Watched, Watches, Watcher
<1> QED BY <1>2, <1>3, <1>4 DEF IInv

LEMMA StepIInv == IInv /\ [Next]_vars => IInv'
<1> SUFFICES ASSUME IInv, [Next]_vars PROVE IInv'
    OBVIOUS
<1> USE BoundsAssumption, KindsAssumption
<1> USE DEF idlervars, obsvars, connvars, envvars
<1>1. ASSUME NEW w \in watchers, WatcherStarts(w) PROVE IInv'
  <2> USE <1>1 DEF WatcherStarts, Watcher
  <2>1. TypeOK'  BY DEF IInv, TypeOK, IdlesOK, WatchersOK
  <2>2. ObserverInv'  BY DEF IInv, ObserverInv
  <2>3. oclient = wclient /\ odone \notin oclosed
        BY DEF IInv, TypeOK, ObserverInv
  <2> DEFINE new == Watcher("watching", w.id, oclient, odone)
  <2>4. /\ new \in watchers' /\ new.st = "watching" /\ new.conn = wclient'
        /\ new.done \notin oclosed'
        BY <2>3
  <2>5. wclient' # None
        BY <2>3
  <2> HIDE DEF new
  <2>7. Watched'  BY <2>4, <2>5 DEF Watched, Watches
  <2> QED BY <2>1, <2>2, <2>7 DEF IInv
<1>2. ASSUME NEW w \in watchers, WatcherEmits(w) PROVE IInv'
  <2> USE <1>2 DEF WatcherEmits
  <2>1. TypeOK'
    <3>1. IdlesOK'  BY DEF IInv, TypeOK, IdlesOK
    <3>2. WatchersOK'  BY DEF IInv, TypeOK, WatchersOK
    <3>3. errors' \in Nat
      <4>1. errors \in Nat  BY DEF IInv, TypeOK
      <4> QED BY <4>1
    <3>4. running' \in BOOLEAN  OBVIOUS
    <3> QED BY <3>1, <3>2, <3>3, <3>4 DEF IInv, TypeOK
  <2>2. ObserverInv'  BY DEF IInv, ObserverInv
  <2>3. Watched'  BY DEF IInv, TypeOK, Watched, Reported
  <2> QED BY <2>1, <2>2, <2>3 DEF IInv
<1>3. ASSUME NEW w \in watchers, WatcherStops(w) PROVE IInv'
  <2> USE <1>3 DEF WatcherStops
  <2>1. TypeOK'  BY DEF IInv, TypeOK, IdlesOK, WatchersOK
  <2>2. ObserverInv'  BY DEF IInv, ObserverInv
  <2>3. ~Watches(w)  BY DEF Watches
  <2>4. Watched'  BY <2>3 DEF IInv, Watched, Watches, Reported, Posted
  <2> QED BY <2>1, <2>2, <2>4 DEF IInv
<1>4. ASSUME NEW t \in armed, TimerFires(t) PROVE IInv'
  <2> USE <1>4 DEF TimerFires
  <2>1. TypeOK'  BY DEF IInv, TypeOK, IdlesOK, WatchersOK
  <2>2. ObserverInv' /\ Watched'
        BY DEF IInv, ObserverInv, Watched, Watches, Reported, Posted
  <2> QED BY <2>1, <2>2 DEF IInv
<1>5. ASSUME NEW t \in firing, Execute(t) PROVE IInv'
  <2> USE <1>5 DEF Execute
  <2>1. TypeOK'
    <3> DEFINE new == Idle(t, "spawned", None, 0, FALSE)
    <3>1. idles' \subseteq idles \cup {new}  OBVIOUS
    <3>2. /\ new.timer \in 1..stop /\ new.stop \in 0..stop /\ new.conn \in 0..conns
          /\ new.st = "spawned" /\ new.err = FALSE
          BY DEF Idle, IInv, TypeOK
    <3> HIDE DEF new
    <3>3. IdlesOK'  BY <3>1, <3>2 DEF IInv, TypeOK, IdlesOK
    <3>4. WatchersOK'  BY DEF IInv, TypeOK, WatchersOK
    <3> QED BY <3>3, <3>4 DEF IInv, TypeOK
  <2>2. ObserverInv' /\ Watched'
        BY DEF IInv, ObserverInv, Watched, Watches, Reported, Posted
  <2> QED BY <2>1, <2>2 DEF IInv
<1>6. ASSUME NEW g \in idles, IdleStarts(g) PROVE IInv'
  <2> USE <1>6 DEF IdleStarts
  <2>1. TypeOK'
    <3>1. PICK new : /\ idles' = (idles \ {g}) \cup {new}
                     /\ \/ new = Idle(g.timer, "idling", iclient, stop, FALSE)
                        \/ new = Idle(g.timer, "ended", iclient, stop, TRUE)
          OBVIOUS
    <3>2. /\ g.timer \in 1..stop /\ iclient \in 0..conns /\ stop \in 0..stop
          BY DEF IInv, TypeOK, IdlesOK
    <3>3. /\ new.timer \in 1..stop /\ new.stop \in 0..stop /\ new.conn \in 0..conns
          /\ new.st \in {"idling", "ended"} /\ new.err \in BOOLEAN
      <4>1. CASE new = Idle(g.timer, "idling", iclient, stop, FALSE)
            BY <4>1, <3>2 DEF Idle
      <4>2. CASE new = Idle(g.timer, "ended", iclient, stop, TRUE)
            BY <4>2, <3>2 DEF Idle
      <4> QED BY <3>1, <4>1, <4>2
    <3>4. IdlesOK'  BY <3>1, <3>3 DEF IInv, TypeOK, IdlesOK
    <3>5. WatchersOK'  BY DEF IInv, TypeOK, WatchersOK
    <3> QED BY <3>4, <3>5 DEF IInv, TypeOK
  <2>2. ObserverInv' /\ Watched'
        BY DEF IInv, ObserverInv, Watched, Watches, Reported, Posted
  <2> QED BY <2>1, <2>2 DEF IInv
<1>7. ASSUME NEW g \in idles, IdleEnds(g) PROVE IInv'
  <2> USE <1>7 DEF IdleEnds
  <2> DEFINE e == [g EXCEPT !.st = "ended", !.err = g.conn \notin up]
  <2>1. IdlesOK'
    <3>1. IdlesOK  BY DEF IInv, TypeOK, IdlesOK
    <3>2. stop' = stop /\ conns' = conns  OBVIOUS
    <3>3. /\ e.timer = g.timer /\ e.stop = g.stop /\ e.conn = g.conn
          /\ e.st = "ended" /\ e.err = (g.conn \notin up)
          BY DEF CanEnd
    <3> QED BY <3>1, <3>2, <3>3 DEF IdlesOK
  <2>2. TypeOK'  BY <2>1 DEF IInv, TypeOK, IdlesOK, WatchersOK
  <2>3. ObserverInv' /\ Watched'
        BY DEF IInv, ObserverInv, Watched, Watches, Reported, Posted
  <2> QED BY <2>2, <2>3 DEF IInv
<1>8. CASE Receive
  <2> USE <1>8 DEF Receive
  <2>1. Head(queue) \in UserKinds \cup {"Reconnect"} /\ Tail(queue) \in Seq(UserKinds \cup {"Reconnect"})
        BY DEF IInv, TypeOK
  <2>2. TypeOK'
    <3>1. /\ act' \in UserKinds \cup {"Command", "Reconnect"}
          /\ queue' \in Seq(UserKinds \cup {"Reconnect"})
          /\ pc' \in {"select", "waitDone", "handle"}
          BY <2>1
    <3>2. closed' \subseteq 1..stop' /\ armed' \subseteq 1..stop'
      <4>1. /\ stop' = stop /\ closed' \subseteq closed \cup {stop} /\ armed' \subseteq armed
            OBVIOUS
      <4>2. stop \in 1..stop /\ closed \subseteq 1..stop /\ armed \subseteq 1..stop
            BY DEF IInv, TypeOK
      <4> QED BY ONLY <4>1, <4>2
    <3>3. IdlesOK' /\ WatchersOK'
          BY DEF IInv, TypeOK, IdlesOK, WatchersOK
    <3> QED BY <3>1, <3>2, <3>3 DEF IInv, TypeOK
  <2>3. ObserverInv'  BY DEF IInv, ObserverInv
  <2>4. ASSUME "Reconnect" \in Posted PROVE Reported'
    <3>1. PICK i \in DOMAIN queue : queue[i] = "Reconnect"
          BY <2>4 DEF Posted
    <3>2. CASE i = 1
      <4>1. act' = "Reconnect" /\ pc' # "select"  BY <3>1, <3>2
      <4> QED BY <4>1 DEF Reported
    <3>3. CASE i # 1
      <4>1. i - 1 \in DOMAIN queue' /\ queue'[i - 1] = "Reconnect"
            BY <3>1, <3>3 DEF IInv, TypeOK
      <4> QED BY <4>1 DEF Reported, Posted
    <3> QED BY <3>2, <3>3
  <2>5. Watched'
        BY <2>4 DEF IInv, TypeOK, Watched, Watches, Reported
  <2> QED BY <2>2, <2>3, <2>5 DEF IInv
<1>9. ASSUME Terminate, UNCHANGED <<act, queue, envvars>>, idles' \subseteq idles PROVE IInv'
  <2> USE <1>9 DEF Terminate
  <2>1. /\ oclient' = None /\ ~running' /\ odone' \in Nat \ {0} /\ odone' >= odone
        /\ oclosed' \subseteq 1..odone' /\ \A n \in oclosed' : n < odone'
        /\ running' \in BOOLEAN /\ watchers' = watchers
        BY ObserverIsOff DEF ObserverOff, IInv, TypeOK
  <2>2. TypeOK'  BY <2>1 DEF IInv, TypeOK, IdlesOK, WatchersOK
  <2>3. ObserverInv'  BY <2>1 DEF ObserverInv
  <2>4. Watched'  BY DEF IInv, TypeOK, Watched, Reported
  <2> QED BY <2>2, <2>3, <2>4 DEF IInv
<1>10. ASSUME NEW g \in idles, StopReceives(g) PROVE IInv'
  <2> USE <1>10 DEF StopReceives
  <2>1. CASE g.err
        BY <2>1, <1>9
  <2>2. CASE ~g.err
    <3>1. TypeOK'  BY <2>2 DEF IInv, TypeOK, IdlesOK, WatchersOK
    <3>2. ObserverInv' /\ Watched'
          BY <2>2 DEF IInv, ObserverInv, Watched, Watches, Reported, Posted
    <3> QED BY <3>1, <3>2 DEF IInv
  <2> QED BY <2>1, <2>2
<1>11. CASE StopTimesOut
      BY <1>11, <1>9 DEF StopTimesOut
<1>12. CASE Command
  <2> USE <1>12 DEF Command
  <2>1. /\ StartIdler(TRUE) \/ StartIdler(FALSE)
        /\ conns' \in 1..MaxConns /\ conns' >= conns
        BY DEF StartIdler, IInv, TypeOK
  <2>2. /\ stop' \in Nat \ {0} /\ closed' \subseteq 1..stop'
        /\ armed' \subseteq 1..stop' /\ firing' \subseteq 1..stop' /\ IdlesOK'
        BY <2>1, IdlerStarts
  <2>3. TypeOK'  BY <2>2 DEF IInv, TypeOK, IdlesOK, WatchersOK
  <2>4. ObserverInv' /\ Watched'
        BY DEF IInv, ObserverInv, Watched, Watches, Reported, Posted
  <2> QED BY <2>3, <2>4 DEF IInv
<1>13. CASE ReconnectSucceeds
  <2> USE <1>13 DEF ReconnectSucceeds
  <2>1. conns' \in 1..MaxConns /\ conns' = conns + 1 /\ conns \in Nat
        BY DEF IInv, TypeOK
  <2>2. /\ stop' \in Nat \ {0} /\ closed' \subseteq 1..stop'
        /\ armed' \subseteq 1..stop' /\ firing' \subseteq 1..stop' /\ IdlesOK'
        BY <2>1, IdlerStarts DEF StartIdler
  <2>3. /\ oclient' = conns + 1 /\ running' = TRUE
        /\ odone' \in Nat \ {0} /\ odone' >= odone
        /\ oclosed' \subseteq 1..odone' /\ \A n \in oclosed' : n < odone'
        /\ watchers' = watchers \cup {Watcher("spawned", conns + 1, None, 0)}
    <3>1. ObserverOn(conns + 1) /\ conns + 1 \in Nat \ {0}  BY <2>1
    <3> QED BY ONLY <3>1, IInv, ObserverIsOn
  <2>4. WatchersOK'
        BY <2>1, <2>3 DEF IInv, TypeOK, WatchersOK, Watcher
  <2>5. TypeOK'
    <3>1. /\ pc' \in {"select", "waitDone", "handle"}
          /\ act' \in UserKinds \cup {"Command", "Reconnect"}
          /\ queue' \in Seq(UserKinds \cup {"Reconnect"})
          /\ errors' \in Nat /\ posts' \in 0..MaxPosts /\ faults' \in 0..MaxFaults
      BY ONLY <1>13, IInv DEF ReconnectSucceeds, envvars, IInv, TypeOK
    <3>2. /\ wclient' \in 0..conns' /\ iclient' = wclient' /\ oclient' = wclient'
          /\ up' \subseteq 1..conns' /\ silent' \subseteq 1..conns'
      BY ONLY <1>13, <2>1, <2>3, IInv DEF ReconnectSucceeds, IInv, TypeOK
    <3>3. offline' \in BOOLEAN /\ running' \in BOOLEAN
      BY ONLY <1>13, <2>3 DEF ReconnectSucceeds
    <3> QED BY ONLY <3>1, <3>2, <3>3, <2>1, <2>2, <2>3, <2>4 DEF TypeOK
  <2>6. ObserverInv'  BY <2>1, <2>3 DEF ObserverInv
  <2>7. Watched'
    <3> DEFINE w == Watcher("spawned", conns + 1, None, 0)
    <3>1. w \in watchers' /\ w.st = "spawned"  BY <2>3 DEF Watcher
    <3>2. wclient' # None  BY <2>1
    <3> HIDE DEF w
    <3> QED BY <3>1, <3>2 DEF Watched, Watches
  <2> QED BY <2>5, <2>6, <2>7 DEF IInv
<1>14. CASE ReconnectFails
  <2> USE <1>14 DEF ReconnectFails, Fault
  <2>1. /\ StartIdler(TRUE) \/ StartIdler(FALSE)
        /\ conns' \in 1..MaxConns /\ conns' >= conns
        BY DEF StartIdler, IInv, TypeOK
  <2>2. /\ stop' \in Nat \ {0} /\ closed' \subseteq 1..stop'
        /\ armed' \subseteq 1..stop' /\ firing' \subseteq 1..stop' /\ IdlesOK'
        BY <2>1, IdlerStarts
  <2>3. TypeOK'  BY <2>2 DEF IInv, TypeOK, IdlesOK, WatchersOK
  <2>4. ObserverInv'  BY DEF IInv, ObserverInv
  <2>5. Watched'  BY DEF IInv, TypeOK, Watched, Reported
  <2> QED BY <2>3, <2>4, <2>5 DEF IInv
<1>15. CASE Disconnect
  <2> USE <1>15 DEF Disconnect
  <2>1. conns' = conns /\ conns \in 1..MaxConns  BY DEF IInv, TypeOK
  <2>2. /\ stop' \in Nat \ {0} /\ closed' \subseteq 1..stop'
        /\ armed' \subseteq 1..stop' /\ firing' \subseteq 1..stop' /\ IdlesOK'
        BY <2>1, IdlerStarts DEF StartIdler
  <2>3. /\ oclient' = None /\ ~running' /\ odone' \in Nat \ {0} /\ odone' >= odone
        /\ oclosed' \subseteq 1..odone' /\ \A n \in oclosed' : n < odone'
        /\ running' \in BOOLEAN /\ watchers' = watchers
        BY ObserverIsOff DEF ObserverOff, IInv, TypeOK
  <2>4. TypeOK'  BY <2>1, <2>2, <2>3 DEF IInv, TypeOK, IdlesOK, WatchersOK
  <2>5. ObserverInv'  BY <2>3 DEF ObserverInv
  <2>6. Watched'  BY DEF IInv, TypeOK, Watched
  <2> QED BY <2>4, <2>5, <2>6 DEF IInv
<1>16. ASSUME NEW kind \in UserKinds, UserPosts(kind) PROVE IInv'
  <2> USE <1>16 DEF UserPosts
  <2>1. TypeOK'  BY DEF IInv, TypeOK, IdlesOK, WatchersOK
  <2>2. ObserverInv'  BY DEF IInv, ObserverInv
  <2>3. ASSUME "Reconnect" \in Posted PROVE "Reconnect" \in Posted'
    <3>1. PICK i \in DOMAIN queue : queue[i] = "Reconnect"
          BY <2>3 DEF Posted
    <3>2. queue \in Seq(UserKinds \cup {"Reconnect"})  BY DEF IInv, TypeOK
    <3>3. i \in DOMAIN queue' /\ queue'[i] = "Reconnect"
          BY <3>1, <3>2
    <3> QED BY <3>3 DEF Posted
  <2>4. Watched'  BY <2>3 DEF IInv, Watched, Watches, Reported
  <2> QED BY <2>1, <2>2, <2>4 DEF IInv
<1>17. CASE PostReconnect
  <2> USE <1>17 DEF PostReconnect
  <2>1. TypeOK'  BY DEF IInv, TypeOK, IdlesOK, WatchersOK
  <2>2. ObserverInv'  BY DEF IInv, ObserverInv
  <2>3. "Reconnect" \in Posted'
    <3>1. queue \in Seq(UserKinds \cup {"Reconnect"})  BY DEF IInv, TypeOK
    <3>2. Len(queue) + 1 \in DOMAIN queue' /\ queue'[Len(queue) + 1] = "Reconnect"
          BY <3>1
    <3> QED BY <3>2 DEF Posted
  <2>4. Watched'  BY <2>3 DEF Watched, Reported
  <2> QED BY <2>1, <2>2, <2>4 DEF IInv
<1>18. ASSUME NEW c \in up, ConnectionLost(c) \/ ServerFallsSilent(c) PROVE IInv'
  <2> USE <1>18 DEF ConnectionLost, ServerFallsSilent, Fault
  <2>1. TypeOK'
    <3>1. IdlesOK' /\ WatchersOK'  BY DEF IInv, TypeOK, IdlesOK, WatchersOK
    <3>2. c \in 1..conns /\ up' \subseteq 1..conns' /\ silent' \subseteq 1..conns'
          BY DEF IInv, TypeOK
    <3>3. faults' \in 0..MaxFaults /\ posts' \in 0..MaxPosts
          BY DEF IInv, TypeOK
    <3> QED BY <3>1, <3>2, <3>3 DEF IInv, TypeOK
  <2>2. ObserverInv' /\ Watched'
        BY DEF IInv, ObserverInv, Watched, Watches, Reported, Posted
  <2> QED BY <2>1, <2>2 DEF IInv
<1>19. CASE UNCHANGED vars
  <2> USE <1>19 DEF vars
  <2>1. TypeOK'  BY DEF IInv, TypeOK, IdlesOK, WatchersOK
  <2>2. ObserverInv' /\ Watched'
        BY DEF IInv, ObserverInv, Watched, Watches, Reported, Posted
  <2> QED BY <2>1, <2>2 DEF IInv
<1> QED
    BY <1>1, <1>2, <1>3, <1>4, <1>5, <1>6, <1>7, <1>8, <1>10, <1>11, <1>12, <1>13, <1>14,
       <1>15, <1>16, <1>17, <1>18, <1>19
    DEF Next, Worker, Goroutines, Execution, Environment

LEMMA Invariance == Spec => []IInv
BY InitIInv, StepIInv, PTL DEF Spec

-----------------------------------------------------------------------------
(* TypeOK: in particular the worker, its idler and its observer never hold *)
(* different clients (SetClient follows every assignment of w.client).     *)
THEOREM TypeCorrect == Spec => []TypeOK
<1>1. IInv => TypeOK  BY DEF IInv
<1> QED BY <1>1, Invariance, PTL

(* observer.Stop never closes a closed channel, which would panic, however *)
(* often the client is replaced, lost or terminated.                       *)
THEOREM NoDoubleClose == Spec => []ClosedOnce
<1>1. IInv => ClosedOnce  BY DEF IInv, TypeOK, ObserverInv, ClosedOnce
<1> QED BY <1>1, Invariance, PTL

(* Until the user disconnects, the client in use has a goroutine that      *)
(* watches or will watch it, or its loss has been reported: observer.Start *)
(* never skips a new client because an old goroutine still runs.           *)
THEOREM AlwaysWatched == Spec => []Watched
<1>1. IInv => Watched  BY DEF IInv
<1> QED BY <1>1, Invariance, PTL

-----------------------------------------------------------------------------
(* IDLE and commands *)

(* The timer, the send on executeIdle and the goroutine of Execute that     *)
(* follow one Start come one after another, and bear its number.           *)
OneIdler ==
  /\ armed \cup firing \cup {g.timer : g \in idles} \subseteq {stop}
  /\ armed # {} => firing = {} /\ idles = {}
  /\ firing # {} => idles = {}
  /\ \A g, h \in idles : g = h

(* Between Stop and Start a ready connection has none of them.             *)
IdleRight ==
  /\ OneIdler
  /\ pc = "handle" /\ Ready => armed = {} /\ firing = {} /\ idles = {}
  /\ pc = "select" /\ Ready => stop \notin closed

LEMMA IdleInit == Init => IdleRight
BY DEF Init, IdleRight, OneIdler, Ready

(* Without a second connection a client that is lost is not ready again.    *)
LEMMA IdleFrame ==
  ASSUME IdleRight, UNCHANGED <<pc, stop, closed, armed, firing, idles>>, Ready' => Ready
  PROVE  IdleRight'
BY DEF IdleRight, OneIdler

LEMMA StartIdlerRight ==
  ASSUME TypeOK, IdleRight, pc = "handle", pc' = "select", UNCHANGED <<iclient, up>>, StartIdler(Ready)
  PROVE  IdleRight'
<1>1. Ready' = Ready
  BY DEF Ready
<1>2. CASE Ready
  <2>1. armed = {} /\ firing = {} /\ idles = {} /\ stop \in Nat /\ closed \subseteq 1..stop
    BY <1>2 DEF IdleRight, TypeOK
  <2>2. closed' = closed \cup {stop} /\ stop' = stop + 1 /\ armed' = {stop + 1} /\ firing' = {} /\ idles' = {}
    BY <1>2, <2>1 DEF StartIdler
  <2>3. stop + 1 \notin closed'
    BY <2>1, <2>2
  <2> QED BY <2>2, <2>3 DEF IdleRight, OneIdler
<1>3. CASE ~Ready
  BY <1>1, <1>3 DEF StartIdler, IdleRight, OneIdler
<1> QED BY <1>2, <1>3

LEMMA TerminateRight ==
  ASSUME TypeOK, IdleRight, Terminate, idles' \subseteq idles
  PROVE  IdleRight'
<1>1. ~Ready'
  BY DEF Terminate, Ready, TypeOK
<1> QED BY <1>1 DEF Terminate, IdleRight, OneIdler

LEMMA IdleStep ==
  ASSUME TypeOK, IdleRight, conns = 1, conns' = 1, [Next]_vars
  PROVE  IdleRight'
<1>a. 0 \notin up /\ iclient = wclient
  BY DEF TypeOK
<1>1. CASE Receive
  <2>1. Ready' = Ready /\ UNCHANGED <<stop, firing, idles>> /\ pc = "select" /\ pc' \in {"handle", "waitDone"}
    BY <1>1 DEF Receive, Ready, connvars
  <2>2. CASE ~Ready \/ stop \in closed
    BY <1>1, <2>1, <2>2 DEF Receive, IdleRight, OneIdler
  <2>3. CASE Ready /\ stop \notin closed
    <3>1. armed' = armed \ {stop} /\ (pc' = "handle" <=> stop \in armed)
      BY <1>1, <2>3 DEF Receive
    <3>2. armed' = {}
      BY <3>1 DEF IdleRight, OneIdler
    <3> QED BY <2>1, <3>1, <3>2 DEF IdleRight, OneIdler
  <2> QED BY <2>2, <2>3
<1>2. CASE StopTimesOut
  BY <1>2, TerminateRight DEF StopTimesOut
<1>3. ASSUME NEW g \in idles, StopReceives(g) PROVE IdleRight'
  <2>1. CASE g.err
    BY <1>3, <2>1, TerminateRight DEF StopReceives
  <2>2. CASE ~g.err
    <3>1. idles' = {} /\ UNCHANGED <<stop, closed, armed, firing>> /\ pc' = "handle"
      BY <1>3, <2>2 DEF StopReceives, IdleRight, OneIdler
    <3>2. armed = {} /\ firing = {}
      BY DEF IdleRight, OneIdler
    <3> QED BY <3>1, <3>2 DEF IdleRight, OneIdler
  <2> QED BY <2>1, <2>2
<1>4. CASE Command
  BY <1>4, StartIdlerRight DEF Command, connvars
<1>5. CASE ReconnectSucceeds
  BY <1>5 DEF ReconnectSucceeds
<1>6. CASE ReconnectFails
  BY <1>6, StartIdlerRight DEF ReconnectFails, connvars
<1>7. CASE Disconnect
  <2>1. ~Ready' /\ UNCHANGED <<stop, closed, armed, firing, idles>>
    BY <1>7, <1>a DEF Disconnect, StartIdler, Ready
  <2> QED BY <1>7, <2>1 DEF Disconnect, IdleRight, OneIdler
<1>8. ASSUME NEW t \in armed, TimerFires(t) PROVE IdleRight'
  <2>1. armed = {t} /\ t = stop /\ firing = {} /\ idles = {}
    BY DEF IdleRight, OneIdler
  <2>2. armed' = {} /\ firing' = {t} /\ idles' = {} /\ UNCHANGED <<pc, stop, closed>> /\ Ready' = Ready
    BY <1>8, <2>1 DEF TimerFires, connvars, Ready
  <2> QED BY <2>1, <2>2 DEF IdleRight, OneIdler
<1>9. ASSUME NEW t \in firing, Execute(t) PROVE IdleRight'
  <2>1. firing = {t} /\ t = stop /\ armed = {} /\ idles = {}
    BY DEF IdleRight, OneIdler
  <2>2. /\ armed' = {} /\ firing' = {} /\ UNCHANGED <<pc, stop, closed>> /\ Ready' = Ready /\ pc = "select"
        /\ idles' \subseteq {Idle(t, "spawned", None, 0, FALSE)}
    BY <1>9, <2>1 DEF Execute, connvars, Ready
  <2>3. Idle(t, "spawned", None, 0, FALSE).timer = t
    BY DEF Idle
  <2> QED BY <2>1, <2>2, <2>3 DEF IdleRight, OneIdler
<1>10. ASSUME NEW g \in idles, IdleStarts(g) \/ IdleEnds(g) PROVE IdleRight'
  <2>1. idles = {g} /\ g.timer = stop /\ armed = {} /\ firing = {} /\ ~(pc = "handle" /\ Ready)
    BY DEF IdleRight, OneIdler
  <2>2. UNCHANGED <<pc, stop, closed, armed, firing>> /\ Ready' = Ready
    BY <1>10 DEF IdleStarts, IdleEnds, connvars, Ready
  <2>3. PICK h : idles' = {h} /\ h.timer = g.timer
    <3>1. CASE IdleStarts(g)
      <4>1. \A st, c, ch, err : Idle(g.timer, st, c, ch, err).timer = g.timer
        BY DEF Idle
      <4> QED BY <2>1, <3>1, <4>1 DEF IdleStarts
    <3>2. CASE IdleEnds(g)
      <4>1. g.timer = [g EXCEPT !.st = "ended", !.err = g.conn \notin up].timer
        OBVIOUS
      <4> QED BY <2>1, <3>2, <4>1 DEF IdleEnds
    <3> QED BY <1>10, <3>1, <3>2
  <2> QED BY <2>1, <2>2, <2>3 DEF IdleRight, OneIdler
<1>11. ASSUME NEW w \in watchers, WatcherStarts(w) \/ WatcherEmits(w) \/ WatcherStops(w) PROVE IdleRight'
  BY <1>11, IdleFrame DEF WatcherStarts, WatcherEmits, WatcherStops, connvars, idlervars, Ready
<1>12. ASSUME NEW kind \in UserKinds, UserPosts(kind) PROVE IdleRight'
  BY <1>12, IdleFrame DEF UserPosts, connvars, idlervars, Ready
<1>13. CASE PostReconnect
  BY <1>13, IdleFrame DEF PostReconnect, connvars, idlervars, Ready
<1>14. ASSUME NEW c \in up, ConnectionLost(c) \/ ServerFallsSilent(c) PROVE IdleRight'
  BY <1>14, IdleFrame DEF ConnectionLost, ServerFallsSilent, idlervars, Ready
<1>15. CASE UNCHANGED vars
  BY <1>15, IdleFrame DEF vars, connvars, idlervars, Ready
<1> QED BY <1>1, <1>2, <1>3, <1>4, <1>5, <1>6, <1>7, <1>8, <1>9, <1>10, <1>11, <1>12, <1>13, <1>14, <1>15
        DEF Next, Worker, Goroutines, Execution, Environment

LEMMA ConnsGrow ==
  ASSUME TypeOK, [Next]_vars
  PROVE  conns' >= conns /\ conns \in Nat \ {0}
<1>1. conns \in Nat \ {0}
  BY BoundsAssumption DEF TypeOK
<1>2. conns' = conns \/ conns' = conns + 1
  BY DEF Next, Worker, Goroutines, Execution, Environment, Receive, StopTimesOut, StopReceives, Terminate,
     Command, ReconnectSucceeds, ReconnectFails, Disconnect, TimerFires, Execute, IdleStarts, IdleEnds,
     WatcherStarts, WatcherEmits, WatcherStops, UserPosts, PostReconnect, ConnectionLost, ServerFallsSilent,
     vars, connvars
<1> QED BY <1>1, <1>2

(* idler.Start and idler.Stop: on the first connection no second timer or   *)
(* goroutine of idle mode exists, and none at all while Run handles an      *)
(* action.                                                                 *)
THEOREM IdleExcludes == Spec => []IdleExclusive
<1> DEFINE Inv == IInv /\ (conns = 1 => IdleRight)
<1>1. Init => Inv
  BY InitIInv, IdleInit
<1>2. Inv /\ [Next]_vars => Inv'
  <2> SUFFICES ASSUME Inv, [Next]_vars PROVE Inv'
      OBVIOUS
  <2>1. TypeOK /\ IInv'
    BY StepIInv DEF IInv
  <2>2. ASSUME conns' = 1 PROVE IdleRight'
    <3>1. conns = 1
      BY <2>1, <2>2, ConnsGrow
    <3> QED BY <2>1, <2>2, <3>1, IdleStep
  <2> QED BY <2>1, <2>2
<1>3. Inv => IdleExclusive
  BY DEF IdleExclusive, IdleRight, OneIdler
<1> QED BY <1>1, <1>2, <1>3, PTL DEF Spec
=============================================================================
