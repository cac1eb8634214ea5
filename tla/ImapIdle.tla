------------------------------ MODULE ImapIdle ------------------------------
(***************************************************************************)
(* The IDLE mode of the IMAP worker (worker/imap/idler.go), the observer   *)
(* of its connection (worker/imap/observer.go) and the loop that drives    *)
(* both (worker/imap/worker.go, Run, stopIdler, startIdler, terminate).    *)
(*                                                                         *)
(* Five kinds of goroutine meet here: the worker, the debounce timers that *)
(* send on executeIdle, the goroutines that run client.Idle and send on    *)
(* done, the goroutines of the observer, and the user interface that       *)
(* answers every ConnError with a Reconnect.  Both channels are            *)
(* unbuffered.  The idle and the observer goroutines read the fields       *)
(* i.client, i.stop, o.client and o.done when they start to run, which may *)
(* be long after the go statement.                                         *)
(***************************************************************************)
EXTENDS Naturals, Sequences

CONSTANTS
  MaxConns,     \* bound on the connections made, numbered from 1
  MaxPosts,     \* bound on the actions posted by the user
  MaxFaults,    \* bound on lost, silent and refused connections
  UserKinds     \* actions of the user: "Command", "Disconnect"

ASSUME BoundsAssumption == MaxConns \in Nat \ {0} /\ MaxPosts \in Nat /\ MaxFaults \in Nat
ASSUME KindsAssumption == UserKinds \subseteq {"Command", "Disconnect"}

None == 0    \* a nil *imapClient

VARIABLES
  pc,        \* the worker: "select", "waitDone" (in idler.Stop) or "handle"
  act,       \* the action it handles
  queue,     \* Worker.actions
  wclient,   \* IMAPWorker.client
  up,        \* connections in the selected state
  silent,    \* connections on which the server does not answer any more
  conns,     \* number of connections made
  offline,   \* history: a Disconnect of the user was handled after the last connection
  (* idler *)
  iclient,   \* idler.client
  stop,      \* number of the channel idler.stop; idler.debouncer has the same number
  closed,    \* stop channels that are closed
  armed,     \* debounce timers that run
  firing,    \* timers that have fired and wait to send on executeIdle
  idles,     \* goroutines of Execute
  (* observer *)
  oclient,   \* observer.client
  odone,     \* number of the channel observer.done
  oclosed,   \* done channels of the observer that are closed
  running,   \* observer.running
  watchers,  \* goroutines of the observer
  (* user interface and environment *)
  errors,    \* ConnErrors the user interface has not answered yet
  posts, faults

idlervars == <<iclient, stop, closed, armed, firing, idles>>
obsvars   == <<oclient, odone, oclosed, running, watchers>>
connvars  == <<wclient, up, silent, conns, offline>>
envvars   == <<posts, faults>>
vars == <<pc, act, queue, connvars, idlervars, obsvars, errors, envvars>>

Idle(t, st, c, ch, err) == [timer |-> t, st |-> st, conn |-> c, stop |-> ch, err |-> err]
Watcher(st, id, c, ch) == [st |-> st, id |-> id, conn |-> c, done |-> ch]

Ready == iclient \in up                           \* idler.ready
Ended == {g \in idles : g.st = "ended"}           \* blocked in done <- err

(* The first connection is up and idle mode has not started yet. *)
Init ==
  /\ pc = "handle" /\ act = "Command" /\ queue = <<>>
  /\ wclient = 1 /\ up = {1} /\ silent = {} /\ conns = 1 /\ offline = FALSE
  /\ iclient = 1 /\ stop = 1 /\ closed = {} /\ armed = {} /\ firing = {} /\ idles = {}
  /\ oclient = 1 /\ odone = 1 /\ oclosed = {} /\ running = TRUE
  /\ watchers = {Watcher("watching", 1, 1, 1)}
  /\ errors = 0 /\ posts = 0 /\ faults = 0

Fault == faults < MaxFaults /\ faults' = faults + 1 /\ UNCHANGED posts

-----------------------------------------------------------------------------
(* observer.go *)

(* A bug: both calls of Stop close the same channel. *)
ObserverOffClosesTwice ==
  /\ oclosed' = IF oclient = None THEN oclosed ELSE oclosed \cup {odone}
  /\ UNCHANGED odone
  /\ running' = IF oclient = None THEN running ELSE FALSE
  /\ oclient' = None
  /\ UNCHANGED watchers

(* Stop followed by SetClient(None). *)
ObserverOff ==
  /\ oclosed' = IF oclient = None THEN oclosed ELSE oclosed \cup {odone, odone + 1}
  /\ odone' = IF oclient = None THEN odone ELSE odone + 2
  /\ running' = IF oclient = None THEN running ELSE FALSE
  /\ oclient' = None
  /\ UNCHANGED watchers

(* A bug: Stop leaves running set, so Start does not watch the new client. *)
ObserverOnStillRunning(c) ==
  /\ oclosed' = IF oclient = None THEN oclosed ELSE oclosed \cup {odone}
  /\ odone' = IF oclient = None THEN odone ELSE odone + 1
  /\ oclient' = c
  /\ running' = TRUE
  /\ watchers' = IF running THEN watchers
                 ELSE watchers \cup {Watcher("spawned", c, None, 0)}

(* SetClient(c) of a connected client: Stop, then Start. *)
ObserverOn(c) ==
  LET runs == oclient = None /\ running IN
  /\ oclosed' = IF oclient = None THEN oclosed ELSE oclosed \cup {odone}
  /\ odone' = IF oclient = None THEN odone ELSE odone + 1
  /\ oclient' = c
  /\ running' = TRUE
  /\ watchers' = IF runs THEN watchers
                 ELSE watchers \cup {Watcher("spawned", c, None, 0)}

(* The goroutine starts to run and reads o.client and o.done. *)
WatcherStarts(w) ==
  /\ w.st = "spawned"
  /\ oclient # None
  /\ watchers' = (watchers \ {w}) \cup
                   {Watcher("watching", w.id, oclient, odone)}
  /\ UNCHANGED <<pc, act, queue, connvars, idlervars, oclient, odone, oclosed, running,
                 errors, envvars>>

(* LoggedOut: the connection is gone. *)
WatcherEmits(w) ==
  /\ w.st = "watching" /\ w.conn \notin up
  /\ watchers' = watchers \ {w}
  /\ running' = FALSE
  /\ errors' = errors + 1
  /\ UNCHANGED <<pc, act, queue, connvars, idlervars, oclient, odone, oclosed, envvars>>

WatcherStops(w) ==
  /\ w.st = "watching" /\ w.done \in oclosed
  /\ watchers' = watchers \ {w}
  /\ running' = FALSE
  /\ UNCHANGED <<pc, act, queue, connvars, idlervars, oclient, odone, oclosed, errors,
                 envvars>>

-----------------------------------------------------------------------------
(* idler.go *)

(* Start: unless the client is not ready, close the old stop channel, make *)
(* a new one, drain done and arm the debounce timer.                       *)
StartIdler(ready) ==
  IF ready
  THEN /\ closed' = closed \cup {stop}
       /\ stop' = stop + 1
       /\ idles' = idles \ Ended
       /\ armed' = armed \cup {stop + 1}
       /\ UNCHANGED firing
  ELSE UNCHANGED <<stop, closed, armed, firing, idles>>

(* The timer fires; its goroutine waits in i.start <- struct{}{}. *)
TimerFires(t) ==
  /\ t \in armed
  /\ armed' = armed \ {t}
  /\ firing' = firing \cup {t}
  /\ UNCHANGED <<pc, act, queue, connvars, iclient, stop, closed, idles, obsvars, errors,
                 envvars>>

(* Run receives from executeIdle; Execute spawns the goroutine. *)
Execute(t) ==
  /\ pc = "select" /\ t \in firing
  /\ firing' = firing \ {t}
  /\ idles' = IF Ready THEN idles \cup {Idle(t, "spawned", None, 0, FALSE)} ELSE idles
  /\ UNCHANGED <<pc, act, queue, connvars, iclient, stop, closed, armed, obsvars, errors,
                 envvars>>

(* The goroutine starts to run, reads i.client and i.stop and sends IDLE;  *)
(* client.Idle fails at once without a selected connection.                *)
IdleStarts(g) ==
  /\ g.st = "spawned"
  /\ iclient # None
  /\ idles' = (idles \ {g}) \cup
                {IF Ready THEN Idle(g.timer, "idling", iclient, stop, FALSE)
                          ELSE Idle(g.timer, "ended", iclient, stop, TRUE)}
  /\ UNCHANGED <<pc, act, queue, connvars, iclient, stop, closed, armed, firing, obsvars,
                 errors, envvars>>

(* client.Idle returns: the stop channel is closed and the server answers  *)
(* DONE, or the connection is gone.                                        *)
CanEnd(g) ==
  /\ g.st = "idling"
  /\ \/ g.stop \in closed /\ g.conn \notin silent
     \/ g.conn \notin up

IdleEnds(g) ==
  /\ CanEnd(g)
  /\ idles' = (idles \ {g}) \cup {[g EXCEPT !.st = "ended", !.err = g.conn \notin up]}
  /\ UNCHANGED <<pc, act, queue, connvars, iclient, stop, closed, armed, firing, obsvars,
                 errors, envvars>>

-----------------------------------------------------------------------------
(* worker.go *)

(* A bug: Stop does not wait for done. *)
ReceiveWithoutWaiting ==
  /\ pc = "select" /\ queue # <<>>
  /\ act' = Head(queue)
  /\ queue' = Tail(queue)
  /\ pc' = "handle"
  /\ IF ~Ready \/ stop \in closed
     THEN UNCHANGED <<closed, armed>>
     ELSE closed' = closed \cup {stop} /\ armed' = armed \ {stop}
  /\ UNCHANGED <<connvars, iclient, stop, firing, idles, obsvars, errors, envvars>>

(* stopIdler and idler.Stop, up to the wait for done. *)
Receive ==
  /\ pc = "select" /\ queue # <<>>
  /\ act' = Head(queue)
  /\ queue' = Tail(queue)
  /\ IF ~Ready \/ stop \in closed
     THEN pc' = "handle" /\ UNCHANGED <<closed, armed>>
     ELSE /\ closed' = closed \cup {stop}
          /\ armed' = armed \ {stop}
          /\ pc' = IF stop \in armed THEN "handle" ELSE "waitDone"
  /\ UNCHANGED <<connvars, iclient, stop, firing, idles, obsvars, errors, envvars>>

(* terminate, after the idler did not stop in order; the action is refused. *)
Terminate ==
  /\ ObserverOff
  /\ up' = up \ {wclient}
  /\ wclient' = None
  /\ iclient' = None
  /\ pc' = "select"
  /\ errors' = errors + 1            \* EmitIfNotConnected
  /\ UNCHANGED <<silent, conns, offline, stop, closed, armed, firing>>

(* Stop receives from done. *)
StopReceives(g) ==
  /\ pc = "waitDone" /\ g \in Ended
  /\ idles' = idles \ {g}
  /\ IF g.err
     THEN Terminate
     ELSE /\ pc' = "handle"
          /\ UNCHANGED <<connvars, iclient, stop, closed, armed, firing, obsvars, errors>>
  /\ UNCHANGED <<act, queue, envvars>>

(* A bug: Stop waits for done alone. *)
StopWithoutTimeout == FALSE

(* Ten seconds pass: everything that can run without the worker has run.   *)
StopTimesOut ==
  /\ pc = "waitDone"
  /\ \A g \in idles : g.st = "idling" /\ ~CanEnd(g)
  /\ Terminate
  /\ UNCHANGED <<act, queue, idles, envvars>>

(* Any action that sends commands to the server. *)
Command ==
  /\ pc = "handle" /\ act = "Command"
  /\ pc' = "select"
  /\ StartIdler(Ready)
  /\ UNCHANGED <<act, queue, connvars, iclient, obsvars, errors, envvars>>

(* Reconnect: connect and newClient, whatever client there is ... *)
ReconnectSucceeds ==
  /\ pc = "handle" /\ act = "Reconnect"
  /\ conns < MaxConns
  /\ conns' = conns + 1 /\ wclient' = conns + 1 /\ iclient' = conns + 1
  /\ up' = up \cup {conns + 1}
  /\ offline' = FALSE
  /\ ObserverOn(conns + 1)
  /\ pc' = "select"
  /\ StartIdler(TRUE)
  /\ UNCHANGED <<act, queue, silent, errors, envvars>>

(* ... or another ConnError. *)
ReconnectFails ==
  /\ pc = "handle" /\ act = "Reconnect"
  /\ Fault
  /\ errors' = errors + 1
  /\ pc' = "select"
  /\ StartIdler(Ready)
  /\ UNCHANGED <<act, queue, connvars, iclient, obsvars>>

(* Logout when the client is connected; it is forgotten in any case. *)
Disconnect ==
  /\ pc = "handle" /\ act = "Disconnect"
  /\ ObserverOff
  /\ up' = up \ {wclient}
  /\ wclient' = None
  /\ iclient' = None
  /\ offline' = TRUE
  /\ pc' = "select"
  /\ StartIdler(FALSE)
  /\ UNCHANGED <<act, queue, silent, conns, errors, envvars>>

-----------------------------------------------------------------------------
(* The user interface and the environment *)

UserPosts(kind) ==
  /\ posts < MaxPosts
  /\ posts' = posts + 1
  /\ queue' = Append(queue, kind)
  /\ UNCHANGED <<pc, act, connvars, idlervars, obsvars, errors, faults>>

(* account.go: the timer started for a ConnError posts Reconnect. *)
PostReconnect ==
  /\ errors > 0
  /\ errors' = errors - 1
  /\ queue' = Append(queue, "Reconnect")
  /\ UNCHANGED <<pc, act, connvars, idlervars, obsvars, envvars>>

ConnectionLost(c) ==
  /\ c \in up
  /\ Fault
  /\ up' = up \ {c}
  /\ UNCHANGED <<pc, act, queue, wclient, silent, conns, offline, idlervars, obsvars, errors>>

ServerFallsSilent(c) ==
  /\ c \in up \ silent
  /\ Fault
  /\ silent' = silent \cup {c}
  /\ UNCHANGED <<pc, act, queue, wclient, up, conns, offline, idlervars, obsvars, errors>>

-----------------------------------------------------------------------------
Worker ==
  \/ Receive \/ StopTimesOut \/ \E g \in idles : StopReceives(g)
  \/ Command \/ ReconnectSucceeds \/ ReconnectFails \/ Disconnect

Goroutines ==
  \/ \E t \in armed : TimerFires(t)
  \/ \E g \in idles : IdleStarts(g) \/ IdleEnds(g)
  \/ \E w \in watchers : WatcherStarts(w) \/ WatcherEmits(w) \/ WatcherStops(w)

Environment ==
  \/ \E kind \in UserKinds : UserPosts(kind)
  \/ \E c \in up : ConnectionLost(c) \/ ServerFallsSilent(c)

Execution == \E t \in firing : Execute(t)

Next == Worker \/ Goroutines \/ Execution \/ PostReconnect \/ Environment

(* The worker loop, the goroutines and the timers are scheduled; a select  *)
(* with several ready cases does not neglect one of them for ever.         *)
Fairness ==
  /\ WF_vars(Worker) /\ SF_vars(Receive) /\ SF_vars(Execution)
  /\ WF_vars(\E t \in armed : TimerFires(t))
  /\ \A t \in 1..(2 * MaxConns + MaxPosts + 2) :
       WF_vars(\E g \in idles : g.timer = t /\ (IdleStarts(g) \/ IdleEnds(g)))
  /\ \A c \in 1..MaxConns :
       WF_vars(\E w \in watchers :
                w.id = c /\ (WatcherStarts(w) \/ WatcherEmits(w) \/ WatcherStops(w)))
  /\ WF_vars(PostReconnect)

Spec == Init /\ [][Next]_vars /\ Fairness

-----------------------------------------------------------------------------
Posted == {queue[i] : i \in DOMAIN queue}

IdlesOK ==
  \A g \in idles :
    /\ g.timer \in 1..stop /\ g.stop \in 0..stop /\ g.conn \in 0..conns
    /\ g.st \in {"spawned", "idling", "ended"} /\ g.err \in BOOLEAN

WatchersOK ==
  \A w \in watchers :
    /\ w.st \in {"spawned", "watching"} /\ w.id \in 1..conns
    /\ w.conn \in 0..conns /\ w.done \in 0..odone

(* Types, and: idler.SetClient and observer.SetClient are called whenever   *)
(* w.client changes, so the three components always hold the same client.  *)
TypeOK ==
  /\ pc \in {"select", "waitDone", "handle"}
  /\ act \in UserKinds \cup {"Command", "Reconnect"}
  /\ queue \in Seq(UserKinds \cup {"Reconnect"})
  /\ conns \in 1..MaxConns /\ offline \in BOOLEAN
  /\ wclient \in 0..conns /\ iclient = wclient /\ oclient = wclient
  /\ up \subseteq 1..conns /\ silent \subseteq 1..conns
  /\ stop \in Nat \ {0} /\ closed \subseteq 1..stop
  /\ armed \subseteq 1..stop /\ firing \subseteq 1..stop
  /\ IdlesOK
  /\ odone \in Nat \ {0} /\ oclosed \subseteq 1..odone /\ running \in BOOLEAN
  /\ WatchersOK
  /\ errors \in Nat /\ posts \in 0..MaxPosts /\ faults \in 0..MaxFaults

(* The observer never misses a connection: a goroutine watches or will     *)
(* watch the client in use, or its loss is already reported and a          *)
(* Reconnect is on its way.  Without a client and without a report the     *)
(* last thing that happened to the connection is the user's Disconnect.    *)
Reported ==
  \/ errors > 0 \/ "Reconnect" \in Posted
  \/ act = "Reconnect" /\ pc # "select"

Watches(w) ==
  \/ w.st = "spawned"
  \/ w.st = "watching" /\ w.conn = wclient /\ w.done \notin oclosed

Watched ==
  \/ Reported
  \/ wclient # None /\ \E w \in watchers : Watches(w)
  \/ wclient = None /\ offline

(* While the first connection lasts, IDLE and the other commands exclude   *)
(* each other: there is at most one timer or goroutine of idle mode and    *)
(* none while the worker handles an action on a connection that is up.     *)
IdleExclusive ==
  conns = 1 =>
    /\ \A t, u \in armed \cup firing \cup {g.timer : g \in idles} : t = u
    /\ pc = "handle" /\ Ready => idles = {}

(* A stopped observer channel is never stopped a second time. *)
ClosedOnce == odone \notin oclosed

(* The worker loop never hangs in idler.Stop: whatever the server does and *)
(* whichever timer was stopped, Stop returns.                              *)
WorkerResponds == pc = "waitDone" ~> pc # "waitDone"

-----------------------------------------------------------------------------
(* What the comment of idler promises. *)

(* A task leaves idle mode without harm: the worker does not give up a     *)
(* connection that is up and whose server answers.                         *)
KeepsHealthy ==
  [][pc = "waitDone" /\ wclient' = None => wclient \notin up \/ wclient \in silent]_vars
=============================================================================
