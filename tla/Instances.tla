------------------------------ MODULE Instances ------------------------------
(***************************************************************************)
(* Several aerc processes and the socket they share: a new one hands its   *)
(* command to the one that listens, or starts and listens itself           *)
(* (main.go, lib/ipc/receive.go, lib/ipc/send.go).                         *)
(***************************************************************************)
EXTENDS Integers, Sequences, FiniteSets, Functions

CONSTANTS
  Processes,      \* positive numbers
  Launches,       \* how they may be started: functions to [does, asks, serves]
  MaxFaults       \* crashes and answers after the deadline

VARIABLES
  pc, launch,     \* of each process
  sock,           \* who made the socket file, 0 when there is none
  listening,      \* processes with an open listener
  started,        \* those whose startup is done
  backlog,        \* connections of each, the oldest first: [from, ping, done]
  serving,        \* the one that Serve answers, NoOne for none
  held,           \* clients left without an answer, whose connection stays open
  ran,            \* ghost: the processes that executed the command of each, in order
  asked,          \* ghost: who was listening when each handed over its command
  quits,          \* calls of ui.Exit
  overlap,        \* ghost: a process was about to remove the socket when another made it
  in_faults

insVars == <<pc, launch, sock, listening, started, backlog, serving, held, ran, asked, quits,
             overlap, in_faults>>

NoOne == [from |-> 0, ping |-> TRUE, done |-> TRUE]
Ended == {"answered", "closed", "crashed"}

Init ==
  /\ pc = [p \in Processes |-> "off"]
  /\ launch \in Launches
  /\ sock = 0 /\ listening = {} /\ started = {}
  /\ backlog = [p \in Processes |-> <<>>] /\ serving = [p \in Processes |-> NoOne]
  /\ held = [p \in Processes |-> {}]
  /\ ran = [p \in Processes |-> <<>>] /\ asked = [p \in Processes |-> 0]
  /\ quits = [p \in Processes |-> 0]
  /\ overlap = FALSE /\ in_faults = 0

Fault == in_faults < MaxFaults /\ in_faults' = in_faults + 1

-----------------------------------------------------------------------------
(* A new process: the command line, then the server. *)

(* Bug: the end of file of a process that ends counts as its answer. *)
RefusedAsAnswered(p) == IF pc[p] \in {"ask", "asking"} THEN "answered" ELSE "remove"

(* What follows a ConnectAndExec that fails, for each of its two callers. *)
Refused(p) ==
  CASE pc[p] \in {"ask", "asking"} -> IF launch[p].serves THEN "ping" ELSE "main"
    [] pc[p] \in {"ping", "pinging"} -> "remove"

Connection(p) == [from |-> p, ping |-> pc[p] = "ping", done |-> FALSE]

Launch(p) ==
  /\ pc[p] = "off"
  /\ LET l == launch[p]
     IN pc' = [pc EXCEPT ![p] = IF l.does # "nothing" /\ l.asks THEN "ask"
                                ELSE IF l.serves THEN "ping" ELSE "main"]
  /\ UNCHANGED <<launch, sock, listening, started, backlog, serving, held, ran, asked, quits,
                 overlap, in_faults>>

ConnectAndExec(p) ==
  /\ pc[p] \in {"ask", "ping"}
  /\ IF sock \in listening
     THEN /\ backlog' = [backlog EXCEPT ![sock] = Append(@, Connection(p))]
          /\ pc' = [pc EXCEPT ![p] = IF @ = "ask" THEN "asking" ELSE "pinging"]
          /\ asked' = [asked EXCEPT ![p] = IF pc[p] = "ask" THEN sock ELSE @]
     ELSE pc' = [pc EXCEPT ![p] = Refused(p)] /\ UNCHANGED <<backlog, asked>>
  /\ UNCHANGED <<launch, sock, listening, started, serving, held, ran, quits, overlap, in_faults>>

(* StartServer: whatever file has the name goes. *)
RemoveStale(p) ==
  /\ pc[p] = "remove"
  /\ sock' = 0 /\ pc' = [pc EXCEPT ![p] = "listen"]
  /\ UNCHANGED <<launch, listening, started, backlog, serving, held, ran, asked, quits, overlap,
                 in_faults>>

StartServer(p) ==
  /\ pc[p] = "listen"
  /\ pc' = [pc EXCEPT ![p] = "main"]
  /\ IF sock = 0
     THEN /\ sock' = p /\ listening' = listening \cup {p}
          /\ overlap' = (overlap \/ \E q \in Processes \ {p} : pc[q] = "remove")
     ELSE UNCHANGED <<sock, listening, overlap>>
  /\ UNCHANGED <<launch, started, backlog, serving, held, ran, asked, quits, in_faults>>

-----------------------------------------------------------------------------
(* The end of a process: its clients read an end of file. *)

Clients(p) == {c.from : c \in Range(backlog[p]) \cup {serving[p]}} \cup held[p]

End(p, how, removes) ==
  /\ pc' = [q \in Processes |->
              IF q = p THEN how
              ELSE IF q \in Clients(p) /\ pc[q] \in {"asking", "pinging"} THEN Refused(q)
              ELSE pc[q]]
  /\ listening' = listening \ {p}
  /\ backlog' = [backlog EXCEPT ![p] = <<>>] /\ serving' = [serving EXCEPT ![p] = NoOne]
  /\ held' = [held EXCEPT ![p] = {}]
  /\ sock' = IF removes /\ p \in listening THEN 0 ELSE sock

(* ui.Exit closes a channel: the second call panics. now is serving when the process lives on. *)
Exit(p, now) ==
  /\ quits' = [quits EXCEPT ![p] = @ + 1]
  /\ IF quits[p] = 0 THEN serving' = now /\ UNCHANGED <<pc, listening, backlog, held, sock>>
     ELSE End(p, "crashed", FALSE)

(* :quit and the signal goroutine. *)
Quit(p) ==
  /\ pc[p] \in {"main", "closing"}
  /\ Exit(p, serving)
  /\ UNCHANGED <<launch, started, ran, asked, overlap, in_faults>>

(* The main loop ends; the shutdown hook runs while Serve still answers. *)
EndLoop(p) ==
  /\ pc[p] = "main" /\ quits[p] > 0
  /\ pc' = [pc EXCEPT ![p] = "closing"]
  /\ UNCHANGED <<launch, sock, listening, started, backlog, serving, held, ran, asked, quits,
                 overlap, in_faults>>

(* The listener removes the file of its name, whoever made it. *)
Close(p) ==
  /\ pc[p] = "closing"
  /\ End(p, "closed", TRUE)
  /\ UNCHANGED <<launch, started, ran, asked, quits, overlap, in_faults>>

Crash(p) ==
  /\ Fault /\ pc[p] \notin Ended \cup {"off"}
  /\ End(p, "crashed", FALSE)
  /\ UNCHANGED <<launch, started, ran, asked, quits, overlap>>

-----------------------------------------------------------------------------
(* The main loop and Serve. *)

(* aerc.Command in process p, for the command of process c. *)
Command(p, c, now) ==
  /\ ran' = [ran EXCEPT ![c] = Append(@, p)]
  /\ IF launch[c].does = "quit" THEN Exit(p, now)
     ELSE serving' = now /\ UNCHANGED <<pc, sock, listening, backlog, held, quits>>

Nothing(now) ==
  serving' = now /\ UNCHANGED <<pc, sock, listening, backlog, held, ran, quits>>

(* The first message of a worker. *)
endStartup(p) ==
  /\ pc[p] = "main" /\ p \notin started
  /\ started' = started \cup {p}
  /\ IF launch[p].does = "nothing" THEN Nothing(serving) ELSE Command(p, p, serving)
  /\ UNCHANGED <<launch, asked, overlap, in_faults>>

Accept(s) ==
  /\ s \in listening \cap started /\ serving[s] = NoOne /\ backlog[s] # <<>>
  /\ serving' = [serving EXCEPT ![s] = Head(backlog[s])]
  /\ backlog' = [backlog EXCEPT ![s] = Tail(@)]
  /\ UNCHANGED <<pc, launch, sock, listening, started, held, ran, asked, quits, overlap, in_faults>>

(* A ping has no arguments and does nothing. *)
handleMessage(s) ==
  /\ ~serving[s].done
  /\ LET now == [serving EXCEPT ![s].done = TRUE]
     IN IF serving[s].ping THEN Nothing(now) ELSE Command(s, serving[s].from, now)
  /\ UNCHANGED <<launch, started, asked, overlap, in_faults>>

Answered(q) == IF pc[q] = "asking" THEN "answered" ELSE "listen"

Respond(s) ==
  /\ serving[s] # NoOne /\ serving[s].done
  /\ LET q == serving[s].from
     IN pc' = [pc EXCEPT ![q] = IF @ \in {"asking", "pinging"} THEN Answered(q) ELSE @]
  /\ serving' = [serving EXCEPT ![s] = NoOne]
  /\ UNCHANGED <<launch, sock, listening, started, backlog, held, ran, asked, quits, overlap,
                 in_faults>>

(* The command took more than a minute: the answer fails, and the connection is closed only *)
(* when Serve returns.                                                                      *)
RespondLate(s) ==
  /\ Fault /\ serving[s] # NoOne /\ serving[s].done
  /\ held' = [held EXCEPT ![s] = @ \cup {serving[s].from}]
  /\ serving' = [serving EXCEPT ![s] = NoOne]
  /\ UNCHANGED <<pc, launch, sock, listening, started, backlog, ran, asked, quits, overlap>>

Next ==
  \/ \E p \in Processes : Launch(p) \/ ConnectAndExec(p) \/ RemoveStale(p) \/ StartServer(p)
  \/ \E p \in Processes : Quit(p) \/ EndLoop(p) \/ Close(p) \/ Crash(p)
  \/ \E p \in Processes : endStartup(p)
  \/ \E s \in Processes : Accept(s) \/ handleMessage(s) \/ Respond(s) \/ RespondLate(s)

Spec == Init /\ [][Next]_insVars

-----------------------------------------------------------------------------
(* No one waits for a process that has ended: every client without an      *)
(* answer has a connection that someone will answer or close.              *)
SomeoneAnswers ==
  \A p \in Processes : pc[p] \in {"asking", "pinging"} =>
    \E s \in listening : p \in Clients(s) /\ pc[s] \notin Ended

(* A command runs in one process only, unless the one that executed it      *)
(* ended before it answered; who hands its command over does not run it     *)
(* while the process it asked lives.                                       *)
RunsOnce ==
  \A p \in Processes :
    /\ \A i \in 1..(Len(ran[p]) - 1) : pc[ran[p][i]] \in Ended
    /\ pc[p] = "answered" => ran[p] # <<>> /\ ran[p][Len(ran[p])] # p
    /\ (p \in Range(ran[p]) /\ asked[p] # 0) => pc[asked[p]] \in Ended

(* The file is the socket of the only process that listens, unless two      *)
(* started at the same time: then one removes the other's.                 *)
OneSocket == ~overlap => \A s \in listening : sock = s

InstancesRight == SomeoneAnswers /\ RunsOnce /\ OneSocket
=============================================================================
