----------------------------- MODULE JmapListen -----------------------------
(***************************************************************************)
(* Connect, Reconnect and Disconnect of the JMAP worker                    *)
(* (worker/jmap/worker.go, connect.go) and the two goroutines of every     *)
(* connection, monitorChanges and the one that stops it (push.go), which   *)
(* share the field w.stop without a lock.                                  *)
(*                                                                         *)
(* Channels and goroutines are numbered by the connection that makes them. *)
(***************************************************************************)
EXTENDS Integers, FiniteSets

CONSTANT MaxConnections  \* bound on the commands

VARIABLES
  stop,      \* w.stop, 0 for nil
  closed,    \* channels that are closed
  monitor,   \* the loop of monitorChanges of each connection
  stopper,   \* the goroutine that waits to end it
  awaits,    \* the channel the stopper waits on
  breaks,    \* event sources that have been closed while they listened
  connected, \* what the last command that succeeded wanted
  hasty,     \* history: a command came before the goroutines of the last one were through
  again,     \* history: a Reconnect has ended one connection and started the next
  crossed,   \* history: a goroutine has met the channel of another connection in w.stop
  panicked,
  connections, listen_commands

vars == <<stop, closed, monitor, stopper, awaits, breaks, connected, hasty, again, crossed,
          panicked, connections, listen_commands>>

Ids == 1..MaxConnections

Init ==
  /\ stop = 0 /\ closed = {}
  /\ monitor = [m \in Ids |-> "none"] /\ stopper = [m \in Ids |-> "none"]
  /\ awaits = [m \in Ids |-> 0]
  /\ breaks = {}
  /\ connected = FALSE /\ hasty = FALSE /\ again = FALSE /\ crossed = FALSE /\ panicked = FALSE
  /\ connections = 0 /\ listen_commands = 0

(* Something started by an earlier command still has to happen. *)
Busy == \E m \in Ids :
  \/ monitor[m] = "starts" \/ stopper[m] \in {"starts", "closes"}
  \/ stopper[m] = "waits" /\ awaits[m] \in closed
  \/ stopper[m] = "ended" /\ (monitor[m] \in {"loops", "sleeps"} \/ m \in breaks)

-----------------------------------------------------------------------------
(* The worker.                                                             *)

Takes ==
  /\ ~panicked /\ listen_commands < MaxConnections
  /\ listen_commands' = listen_commands + 1
  /\ hasty' = (hasty \/ Busy) /\ UNCHANGED crossed

(* handleConnect starts monitorChanges unless the session cannot be got; what was connected
   before stays as it was. *)
handleConnect(ok, before) ==
  IF ok
  THEN /\ connections' = connections + 1
       /\ monitor' = [monitor EXCEPT ![connections + 1] = "starts"]
       /\ connected' = TRUE
  ELSE /\ connected' = before /\ UNCHANGED <<connections, monitor>>

(* Refused with "already connected", or done. *)
Connect(ok) ==
  /\ Takes
  /\ IF stop = 0 THEN handleConnect(ok, connected) ELSE UNCHANGED <<connections, monitor, connected>>
  /\ UNCHANGED <<stop, closed, stopper, awaits, breaks, again, panicked>>

(* Refused with "not connected", or done; a channel that is closed twice panics. *)
Reconnect(ok) ==
  /\ Takes /\ stop # 0 /\ again' = TRUE
  /\ closed' = closed \cup {stop} /\ panicked' = (stop \in closed)
  /\ handleConnect(ok, FALSE)
  /\ UNCHANGED <<stop, stopper, awaits, breaks>>

Disconnect ==
  /\ Takes /\ stop # 0
  /\ closed' = closed \cup {stop} /\ panicked' = (stop \in closed)
  /\ connected' = FALSE
  /\ UNCHANGED <<stop, monitor, stopper, awaits, breaks, again, connections>>

-----------------------------------------------------------------------------
(* The goroutines of connection m.                                         *)

Moves(m, pc) == monitor' = [monitor EXCEPT ![m] = pc]

(* What is in w.stop is the channel of another connection. *)
Meets(m) == crossed' = (crossed \/ stop \notin {0, m})

Rest == UNCHANGED <<closed, connected, hasty, again, panicked, connections, listen_commands>>

MonitorStarts(m) ==
  /\ monitor[m] = "starts" /\ Moves(m, "loops")
  /\ stop' = m /\ Meets(m)
  /\ stopper' = [stopper EXCEPT ![m] = "starts"]
  /\ Rest /\ UNCHANGED <<awaits, breaks>>

(* Which channel it waits on it reads when it starts to run. *)
StopperStarts(m) ==
  /\ stopper[m] = "starts" /\ stopper' = [stopper EXCEPT ![m] = "waits"]
  /\ awaits' = [awaits EXCEPT ![m] = stop] /\ Meets(m)
  /\ Rest /\ UNCHANGED <<stop, monitor, breaks>>

StopperWakes(m) ==
  /\ stopper[m] = "waits" /\ awaits[m] \in closed
  /\ stopper' = [stopper EXCEPT ![m] = "closes"]
  /\ stop' = 0 /\ Meets(m)
  /\ Rest /\ UNCHANGED <<monitor, awaits, breaks>>

(* events.Close ends the Listen under way. *)
StopperCloses(m) ==
  /\ stopper[m] = "closes" /\ stopper' = [stopper EXCEPT ![m] = "ended"]
  /\ breaks' = IF monitor[m] = "listens" THEN breaks \cup {m} ELSE breaks
  /\ Rest /\ UNCHANGED <<stop, monitor, awaits, crossed>>

MonitorLoops(m) ==
  /\ monitor[m] = "loops" /\ Moves(m, IF stop # 0 THEN "listens" ELSE "ended")
  /\ Meets(m)
  /\ Rest /\ UNCHANGED <<stop, stopper, awaits, breaks>>

(* Listen fails, or returns because the source has been closed; after an error the monitor
   sleeps for five seconds. *)
ListenReturns(m, err) ==
  /\ monitor[m] = "listens" /\ (err \/ m \in breaks)
  /\ Moves(m, IF err THEN "sleeps" ELSE "loops")
  /\ breaks' = breaks \ {m}
  /\ Rest /\ UNCHANGED <<stop, stopper, awaits, crossed>>

SleepEnds(m) ==
  /\ monitor[m] = "sleeps" /\ Moves(m, "loops")
  /\ Rest /\ UNCHANGED <<stop, stopper, awaits, breaks, crossed>>

Goroutines == \E m \in Ids :
  \/ MonitorStarts(m) \/ StopperStarts(m) \/ StopperWakes(m) \/ StopperCloses(m)
  \/ MonitorLoops(m) \/ SleepEnds(m) \/ \E err \in BOOLEAN : ListenReturns(m, err)

Next ==
  \/ Goroutines
  \/ Disconnect \/ \E ok \in BOOLEAN : Connect(ok) \/ Reconnect(ok)

Spec == Init /\ [][Next]_vars

-----------------------------------------------------------------------------
Listening == {m \in Ids : monitor[m] = "listens"}
Settled == ~Busy /\ breaks = {} /\ \A m \in Ids : monitor[m] \notin {"loops", "sleeps"}

(* Once the goroutines have settled, one of them listens for changes when the account is
   connected and none when it is not, through Connects, Disconnects and Reconnects, unless a
   command came before the goroutines of the last one were through or one of them has met the
   channel of another connection in w.stop (worker/jmap/push.go:29-38). Without hasty commands
   this takes a Reconnect (worker.go:109-114), and a channel is closed twice only after it. *)
ListensOnce ==
  ~hasty =>
    /\ ~crossed /\ Settled => Cardinality(Listening) = IF connected THEN 1 ELSE 0
    /\ crossed => again
    /\ panicked => crossed
=============================================================================
