------------------------------ MODULE UiRedraw ------------------------------
(***************************************************************************)
(* Redraw, refresh and suspend requests of the terminal user interface     *)
(* (lib/ui/ui.go), and the part of the main loop (main.go) that serves     *)
(* them.                                                                   *)
(*                                                                         *)
(* Any goroutine changes what the widgets show and then calls Invalidate,  *)
(* QueueRefresh or QueueSuspend.  Each of them swaps an atomic flag and    *)
(* sends on a channel of capacity one only when the flag was clear.  The   *)
(* main goroutine receives and draws; it calls the same functions itself   *)
(* when it handles an event, so a send that blocks there would stop the    *)
(* whole program.                                                          *)
(*                                                                         *)
(* The status line (app/status.go) is one such widget, with a lock of its  *)
(* own that Draw takes as well: PushError and the like invalidate with the *)
(* lock held, and give the message its colour after that.                  *)
(***************************************************************************)
EXTENDS Naturals

CONSTANTS
  Workers,    \* goroutines other than the main one (workers, timers, pty readers)
  Main,       \* the goroutine that runs the main loop
  Timer,      \* the goroutines that remove status messages, which the lock lets in one by one
  NoOne,      \* no goroutine
  MaxChanges  \* bound on the number of content changes and status messages

ASSUME GoroutinesAssumption ==
  /\ Main \notin Workers /\ Timer \notin Workers /\ Main # Timer
  /\ NoOne \notin Workers \cup {Main, Timer}
ASSUME MaxChangesAssumption == MaxChanges \in Nat

RedrawCap  == 1    \* Redraw = make(chan bool, 1)
SuspendCap == 1    \* SuspendQueue = make(chan bool, 1)

VARIABLES
  version,     \* number of changes made so far to what the widgets show
  drawn,       \* version that the last content.Draw put in the cell buffer
  shown,       \* version that the last vx.Render or vx.Refresh put on the terminal
  dirty,       \* state.dirty
  refresh,     \* state.refresh
  suspending,  \* state.suspending
  redraw,      \* number of values in the Redraw channel
  suspendq,    \* number of values in the SuspendQueue channel
  pc,          \* what each goroutine does next
  lock,        \* who holds the lock of the status line
  stack,       \* the status messages, each named by the version that brought it
  sleeping,    \* messages whose time has not run out
  message,     \* the message each goroutine has pushed and not coloured yet
  late,        \* versions that are colours set by other goroutines than the main one
  changes      \* number of changes and messages begun

terminal == <<drawn, shown>>
flags == <<dirty, refresh, suspending>>
channels == <<redraw, suspendq>>
status == <<stack, sleeping, message, late>>
vars == <<version, terminal, flags, channels, pc, lock, status, changes>>

Procs == Workers \cup {Main, Timer}

(* Where a goroutine rests: the main one in its select, the others in their own code. *)
Rest(p) == IF p = Main THEN "loop" ELSE "own"

Goto(p, l) == pc' = [pc EXCEPT ![p] = l]

(* Initialize has set the content, and its call of Invalidate is under way. *)
Init ==
  /\ version = 1 /\ drawn = 0 /\ shown = 0
  /\ dirty = 0 /\ refresh = 0 /\ suspending = 0
  /\ redraw = 0 /\ suspendq = 0
  /\ pc = [p \in Procs |-> IF p = Main THEN "invalidate" ELSE "own"]
  /\ lock = NoOne
  /\ stack = {} /\ sleeping = {} /\ message = [p \in Procs |-> 0] /\ late = {}
  /\ changes = 0

-----------------------------------------------------------------------------
(* Requests. The main goroutine makes them while it handles an event, a    *)
(* worker message or a queued callback.                                    *)

Begins(p) == pc[p] = Rest(p) /\ p # Timer

(* A goroutine changes what a widget shows and is about to call Invalidate. *)
Change(p) ==
  /\ Begins(p)
  /\ changes < MaxChanges /\ changes' = changes + 1
  /\ version' = version + 1
  /\ Goto(p, "invalidate")
  /\ UNCHANGED <<terminal, flags, channels, lock, status>>

(* Invalidate returns; Push and Expire release the lock of the status line. *)
Return(p) ==
  /\ Goto(p, IF lock = p /\ message[p] # 0 THEN "colour" ELSE Rest(p))
  /\ lock' = IF lock = p THEN NoOne ELSE lock

(* A bug: the send no longer depends on the value that was swapped out. *)
InvalidateSwapAlwaysSends(p) ==
  /\ pc[p] = "invalidate"
  /\ dirty' = 1
  /\ Goto(p, "sendRedraw")
  /\ UNCHANGED <<version, terminal, refresh, suspending, channels, lock, status, changes>>

(* Invalidate: the atomic swap of state.dirty. *)
InvalidateSwap(p) ==
  /\ pc[p] = "invalidate"
  /\ dirty' = 1
  /\ IF dirty # 1 THEN Goto(p, "sendRedraw") /\ UNCHANGED lock ELSE Return(p)
  /\ UNCHANGED <<version, terminal, refresh, suspending, channels, status, changes>>

(* Invalidate: Redraw <- true, which waits while the channel is full. *)
InvalidateSend(p) ==
  /\ pc[p] = "sendRedraw"
  /\ redraw < RedrawCap
  /\ redraw' = redraw + 1
  /\ Return(p)
  /\ UNCHANGED <<version, terminal, flags, suspendq, status, changes>>

(* QueueRefresh: request that the next frame repaints the whole terminal. *)
QueueRefresh(p) ==
  /\ Begins(p)
  /\ refresh' = 1
  /\ Goto(p, IF refresh # 1 THEN "invalidate" ELSE Rest(p))
  /\ UNCHANGED <<version, terminal, dirty, suspending, channels, lock, status, changes>>

(* QueueSuspend: the swap of state.suspending, then SuspendQueue <- true. *)
QueueSuspendSwap(p) ==
  /\ Begins(p)
  /\ suspending' = 1
  /\ Goto(p, IF suspending # 1 THEN "sendSuspend" ELSE Rest(p))
  /\ UNCHANGED <<version, terminal, dirty, refresh, channels, lock, status, changes>>

QueueSuspendSend(p) ==
  /\ pc[p] = "sendSuspend"
  /\ suspendq < SuspendCap
  /\ suspendq' = suspendq + 1
  /\ Goto(p, Rest(p))
  /\ UNCHANGED <<version, terminal, flags, redraw, lock, status, changes>>

-----------------------------------------------------------------------------
(* The status line *)

(* A goroutine calls PushStatus, PushError, PushWarning or PushSuccess. *)
CallPush(p) ==
  /\ Begins(p)
  /\ changes < MaxChanges /\ changes' = changes + 1
  /\ Goto(p, "push")
  /\ UNCHANGED <<version, terminal, flags, channels, lock, status>>

(* Push: with the lock, the message is on the stack, its timer starts, and Invalidate follows. *)
Push(p) ==
  /\ pc[p] = "push" /\ lock = NoOne
  /\ lock' = p
  /\ version' = version + 1
  /\ stack' = stack \cup {version + 1} /\ sleeping' = sleeping \cup {version + 1}
  /\ message' = [message EXCEPT ![p] = version + 1]
  /\ Goto(p, "invalidate")
  /\ UNCHANGED <<terminal, flags, channels, late, changes>>

(* Color, without lock or Invalidate, of a message that may be gone; PushStatus sets none. *)
Colour(p) ==
  /\ pc[p] = "colour"
  /\ \/ /\ message[p] \in stack
        /\ version' = version + 1
        /\ late' = IF p = Main THEN late ELSE late \cup {version + 1}
     \/ UNCHANGED <<version, late>>
  /\ message' = [message EXCEPT ![p] = 0]
  /\ Goto(p, Rest(p))
  /\ UNCHANGED <<terminal, flags, channels, lock, stack, sleeping, changes>>

(* A bug: the timer takes the message away and does not invalidate. *)
TimerEndsSilently(m) ==
  /\ pc[Timer] = "own" /\ lock = NoOne /\ m \in sleeping
  /\ sleeping' = sleeping \ {m} /\ stack' = stack \ {m}
  /\ version' = version + 1
  /\ UNCHANGED <<terminal, flags, channels, pc, lock, message, late, changes>>

(* The timer of Push: the message goes if it is still there, with an Invalidate in any case. *)
TimerEnds(m) ==
  /\ pc[Timer] = "own" /\ lock = NoOne /\ m \in sleeping
  /\ lock' = Timer
  /\ sleeping' = sleeping \ {m} /\ stack' = stack \ {m}
  /\ version' = version + 1
  /\ Goto(Timer, "invalidate")
  /\ UNCHANGED <<terminal, flags, channels, message, late, changes>>

(* A key is pressed: Expire empties the stack, and Aerc.Event invalidates. *)
KeyPressed ==
  /\ pc[Main] = "loop"
  /\ changes < MaxChanges /\ changes' = changes + 1
  /\ Goto(Main, "expire")
  /\ UNCHANGED <<version, terminal, flags, channels, lock, status>>

Expire ==
  /\ pc[Main] = "expire" /\ lock = NoOne
  /\ stack' = {}
  /\ version' = version + 1
  /\ Goto(Main, "invalidate")
  /\ UNCHANGED <<terminal, flags, channels, lock, sleeping, message, late, changes>>

-----------------------------------------------------------------------------
(* The main loop *)

RecvRedraw ==
  /\ pc[Main] = "loop"
  /\ redraw > 0
  /\ redraw' = redraw - 1
  /\ Goto(Main, "render")
  /\ UNCHANGED <<version, terminal, flags, suspendq, lock, status, changes>>

(* A bug: Render reads state.dirty without clearing it. *)
RenderSwapKeeps ==
  /\ pc[Main] = "render"
  /\ Goto(Main, IF dirty # 0 THEN "draw" ELSE "loop")
  /\ UNCHANGED <<version, terminal, flags, channels, lock, status, changes>>

(* Render: nothing is drawn when state.dirty was clear. *)
RenderSwap ==
  /\ pc[Main] = "render"
  /\ dirty' = 0
  /\ Goto(Main, IF dirty # 0 THEN "draw" ELSE "loop")
  /\ UNCHANGED <<version, terminal, refresh, suspending, channels, lock, status, changes>>

(* Render: content.Draw, which takes the lock of the status line. *)
RenderDraw ==
  /\ pc[Main] = "draw" /\ lock = NoOne
  /\ drawn' = version
  /\ Goto(Main, "flush")
  /\ UNCHANGED <<version, shown, flags, channels, lock, status, changes>>

(* Render: swap state.refresh and put the frame on the terminal. *)
RenderFlush ==
  /\ pc[Main] = "flush"
  /\ refresh' = 0
  /\ shown' = drawn
  /\ Goto(Main, "loop")
  /\ UNCHANGED <<version, drawn, dirty, suspending, channels, lock, status, changes>>

RecvSuspend ==
  /\ pc[Main] = "loop"
  /\ suspendq > 0
  /\ suspendq' = suspendq - 1
  /\ Goto(Main, "suspend")
  /\ UNCHANGED <<version, terminal, flags, redraw, lock, status, changes>>

(* The main loop reports an error of Suspend with PushError. *)
ReportsError == changes < MaxChanges /\ changes' = changes + 1 /\ Goto(Main, "push")

(* Suspend: swap state.suspending, leave the terminal and stop the process; *)
(* vx.Suspend may fail.                                                     *)
SuspendSwap ==
  /\ pc[Main] = "suspend"
  /\ suspending' = 0
  /\ \/ suspending = 0 /\ Goto(Main, "loop") /\ UNCHANGED changes
     \/ suspending # 0 /\ Goto(Main, "stopped") /\ UNCHANGED changes
     \/ suspending # 0 /\ ReportsError
  /\ UNCHANGED <<version, terminal, dirty, refresh, channels, lock, status>>

(* Suspend: SIGCONT arrived; vx.Resume may fail, the content is drawn and  *)
(* rendered directly in any case.                                          *)
SuspendResume ==
  /\ pc[Main] = "stopped" /\ lock = NoOne
  /\ drawn' = version
  /\ shown' = version
  /\ \/ Goto(Main, "loop") /\ UNCHANGED changes
     \/ ReportsError
  /\ UNCHANGED <<version, flags, channels, lock, status>>

-----------------------------------------------------------------------------
Request(p) ==
  \/ Change(p)
  \/ CallPush(p)
  \/ QueueRefresh(p)
  \/ QueueSuspendSwap(p)

Finish(p) ==
  \/ InvalidateSwap(p)
  \/ InvalidateSend(p)
  \/ QueueSuspendSend(p)
  \/ Colour(p)

TimeRunsOut == \E m \in sleeping : TimerEnds(m)

MainLoop ==
  \/ KeyPressed
  \/ Expire
  \/ RecvRedraw
  \/ RenderSwap
  \/ RenderDraw
  \/ RenderFlush
  \/ RecvSuspend
  \/ SuspendSwap
  \/ SuspendResume

Next ==
  \/ MainLoop
  \/ TimeRunsOut
  \/ \E p \in Procs : Request(p) \/ Push(p) \/ Finish(p)

(* The Go scheduler runs every runnable goroutine, and a mutex serves those *)
(* who wait for it in turn; the main select keeps serving both channels (a  *)
(* receive that stays possible is chosen in the end); the shell brings a    *)
(* stopped process back.                                                    *)
Fairness ==
  /\ \A p \in Procs : WF_vars(Finish(p)) /\ SF_vars(Push(p))
  /\ SF_vars(TimeRunsOut)
  /\ WF_vars(RenderSwap \/ RenderFlush \/ SuspendSwap)
  /\ SF_vars(Expire \/ RenderDraw \/ SuspendResume)
  /\ SF_vars(RecvRedraw)
  /\ SF_vars(RecvSuspend)

Spec == Init /\ [][Next]_vars /\ Fairness

-----------------------------------------------------------------------------
(* Types of the variables. *)
TypeOK ==
  /\ version \in Nat /\ drawn \in Nat /\ shown \in Nat /\ changes \in Nat
  /\ dirty \in {0, 1} /\ refresh \in {0, 1} /\ suspending \in {0, 1}
  /\ redraw \in 0..RedrawCap /\ suspendq \in 0..SuspendCap
  /\ pc \in [Procs -> {"own", "loop", "invalidate", "sendRedraw", "sendSuspend", "push",
                       "colour", "expire", "render", "draw", "flush", "suspend", "stopped"}]
  /\ lock \in Procs \cup {NoOne}
  /\ stack \subseteq Nat /\ sleeping \subseteq Nat /\ late \subseteq Nat
  /\ message \in [Procs -> Nat]

(* Invalidate "will never block" (ui.go), and neither does QueueSuspend: a  *)
(* goroutine that has won the swap always finds room in the channel.        *)
NeverBlocks ==
  \A p \in Procs :
    /\ pc[p] = "sendRedraw" => redraw < RedrawCap
    /\ pc[p] = "sendSuspend" => suspendq < SuspendCap

(* Between the flag and the channel no change is lost but the colour of a   *)
(* status message that another goroutine than the main one has pushed:      *)
(* when every goroutine is back in its own code and nothing is queued, the  *)
(* terminal shows everything else, and no refresh is outstanding.           *)
Quiet == /\ \A p \in Procs : pc[p] = Rest(p)
         /\ redraw = 0
NoLostRedraw == Quiet => (\A v \in (shown + 1)..version : v \in late) /\ refresh = 0

(* Once nothing changes any more the terminal shows everything, whatever    *)
(* else is requested meanwhile, and a late colour at the latest in the      *)
(* frame without its message.                                               *)
EventuallyShown == []<>(shown = version)
=============================================================================
