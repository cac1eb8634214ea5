--------------------------- MODULE UiRedrawProofs ---------------------------
(***************************************************************************)
(* Proofs, for any number of goroutines and any number of changes, that    *)
(* Invalidate and QueueSuspend never block and that no redraw is lost.     *)
(*                                                                         *)
(* Each flag is a token.  It is set exactly while one of three places      *)
(* holds the token: a goroutine that won the swap and has not sent yet,    *)
(* the channel, or the main goroutine between the receive and its swap.    *)
(***************************************************************************)
EXTENDS UiRedraw, TLAPS

(* Workers and timers never stand at a label of the main loop, and the     *)
(* main goroutine is never in a worker's own code; when it colours a       *)
(* message, the Invalidate of the message still stands, because nobody     *)
(* else clears the flag.                                                   *)
Labels ==
  /\ pc[Main] # "own"
  /\ \A p \in Workers \cup {Timer} :
       pc[p] \in {"own", "invalidate", "sendRedraw", "sendSuspend", "push", "colour"}
  /\ pc[Main] = "colour" => dirty = 1

(* At most one of the three places holds the redraw token, and the flag    *)
(* state.dirty says whether one does.                                      *)
RedrawToken ==
  /\ \A p, q \in Procs : pc[p] = "sendRedraw" /\ pc[q] = "sendRedraw" => p = q
  /\ \A p \in Procs : pc[p] = "sendRedraw" =>
       redraw = 0 /\ dirty = 1 /\ pc[Main] # "render"
  /\ redraw = 1 => dirty = 1 /\ pc[Main] # "render"
  /\ pc[Main] = "render" => dirty = 1
  /\ dirty = 1 => redraw = 1 \/ pc[Main] = "render"
                    \/ \E p \in Procs : pc[p] = "sendRedraw"

(* The same for state.suspending and the SuspendQueue channel. *)
SuspendToken ==
  /\ \A p, q \in Procs : pc[p] = "sendSuspend" /\ pc[q] = "sendSuspend" => p = q
  /\ \A p \in Procs : pc[p] = "sendSuspend" =>
       suspendq = 0 /\ suspending = 1 /\ pc[Main] # "suspend"
  /\ suspendq = 1 => suspending = 1 /\ pc[Main] # "suspend"
  /\ pc[Main] = "suspend" => suspending = 1

(* A draw is still to come: the flag is set, or some goroutine is about to *)
(* set it, or the main goroutine has cleared it and not drawn yet.         *)
DrawAhead ==
  \/ dirty = 1
  \/ \E p \in Procs : pc[p] = "invalidate"
  \/ pc[Main] = "draw"

(* The frame on the terminal, or in the cell buffer when it is flushed next. *)
Frame == IF pc[Main] = "flush" THEN drawn ELSE shown

(* What the terminal does not show yet will be drawn or is in the cell     *)
(* buffer of the frame being flushed, but for late colours.                *)
Fresh ==
  /\ DrawAhead \/ \A v \in Nat : Frame < v /\ v <= version => v \in late
  /\ refresh = 0 \/ DrawAhead \/ pc[Main] = "flush"

IInv == TypeOK /\ Labels /\ RedrawToken /\ SuspendToken /\ Fresh

-----------------------------------------------------------------------------
LEMMA InitIInv == Init => IInv
<1> SUFFICES ASSUME Init PROVE IInv
    OBVIOUS
<1> USE GoroutinesAssumption, MaxChangesAssumption DEF Init, Procs
<1>1. TypeOK  BY DEF TypeOK, RedrawCap, SuspendCap
<1>2. Labels  BY DEF Labels
<1>3. RedrawToken /\ SuspendToken  BY DEF RedrawToken, SuspendToken
<1>4. Fresh  BY DEF Fresh, DrawAhead
<1> QED BY <1>1, <1>2, <1>3, <1>4 DEF IInv

LEMMA StepIInv == IInv /\ [Next]_vars => IInv'
<1> SUFFICES ASSUME IInv, [Next]_vars PROVE IInv'
    OBVIOUS
<1> USE GoroutinesAssumption, MaxChangesAssumption
    DEF IInv, Procs, Rest, Goto, RedrawCap, SuspendCap, terminal, flags, channels, status
<1>1. ASSUME NEW p \in Procs, Change(p) PROVE IInv'
  <2> USE <1>1 DEF Change, Begins
  <2>1. TypeOK'  BY DEF TypeOK
  <2>2. Labels'  BY DEF Labels, TypeOK, RedrawToken
  <2>3. RedrawToken'  BY DEF RedrawToken, TypeOK, Labels
  <2>4. SuspendToken'  BY DEF SuspendToken, TypeOK, Labels
  <2>5. Fresh'  BY DEF Fresh, Frame, DrawAhead, TypeOK, RedrawToken, Labels
  <2> QED BY <2>1, <2>2, <2>3, <2>4, <2>5
<1>2. ASSUME NEW p \in Procs, CallPush(p) PROVE IInv'
  <2> USE <1>2 DEF CallPush, Begins
  <2>1. TypeOK'  BY DEF TypeOK
  <2>2. Labels'  BY DEF Labels, TypeOK, RedrawToken
  <2>3. RedrawToken'  BY DEF RedrawToken, TypeOK, Labels
  <2>4. SuspendToken'  BY DEF SuspendToken, TypeOK, Labels
  <2>5. Fresh'  BY DEF Fresh, Frame, DrawAhead, TypeOK, RedrawToken, Labels
  <2> QED BY <2>1, <2>2, <2>3, <2>4, <2>5
<1>3. ASSUME NEW p \in Procs, InvalidateSwap(p) PROVE IInv'
  <2> USE <1>3 DEF InvalidateSwap, Return
  <2>1. TypeOK'  BY DEF TypeOK
  <2>2. Labels'  BY DEF Labels, TypeOK, RedrawToken
  <2>3. RedrawToken'  BY DEF RedrawToken, TypeOK, Labels
  <2>4. SuspendToken'  BY DEF SuspendToken, TypeOK, Labels
  <2>5. Fresh'  BY DEF Fresh, Frame, DrawAhead, TypeOK, RedrawToken, Labels
  <2> QED BY <2>1, <2>2, <2>3, <2>4, <2>5
<1>4. ASSUME NEW p \in Procs, InvalidateSend(p) PROVE IInv'
  <2> USE <1>4 DEF InvalidateSend, Return
  <2>1. TypeOK'  BY DEF TypeOK
  <2>2. Labels'  BY DEF Labels, TypeOK, RedrawToken
  <2>3. RedrawToken'  BY DEF RedrawToken, TypeOK, Labels
  <2>4. SuspendToken'  BY DEF SuspendToken, TypeOK, Labels
  <2>5. Fresh'  BY DEF Fresh, Frame, DrawAhead, TypeOK, RedrawToken, Labels
  <2> QED BY <2>1, <2>2, <2>3, <2>4, <2>5
<1>5. ASSUME NEW p \in Procs, QueueRefresh(p) PROVE IInv'
  <2> USE <1>5 DEF QueueRefresh, Begins
  <2>1. TypeOK'  BY DEF TypeOK
  <2>2. Labels'  BY DEF Labels, TypeOK, RedrawToken
  <2>3. RedrawToken'  BY DEF RedrawToken, TypeOK, Labels
  <2>4. SuspendToken'  BY DEF SuspendToken, TypeOK, Labels
  <2>5. Fresh'  BY DEF Fresh, Frame, DrawAhead, TypeOK, RedrawToken, Labels
  <2> QED BY <2>1, <2>2, <2>3, <2>4, <2>5
<1>6. ASSUME NEW p \in Procs, QueueSuspendSwap(p) PROVE IInv'
  <2> USE <1>6 DEF QueueSuspendSwap, Begins
  <2>1. TypeOK'  BY DEF TypeOK
  <2>2. Labels'  BY DEF Labels, TypeOK, RedrawToken
  <2>3. RedrawToken'  BY DEF RedrawToken, TypeOK, Labels
  <2>4. SuspendToken'  BY DEF SuspendToken, TypeOK, Labels
  <2>5. Fresh'  BY DEF Fresh, Frame, DrawAhead, TypeOK, RedrawToken, Labels
  <2> QED BY <2>1, <2>2, <2>3, <2>4, <2>5
<1>7. ASSUME NEW p \in Procs, QueueSuspendSend(p) PROVE IInv'
  <2> USE <1>7 DEF QueueSuspendSend
  <2>1. TypeOK'  BY DEF TypeOK
  <2>2. Labels'  BY DEF Labels, TypeOK, RedrawToken
  <2>3. RedrawToken'  BY DEF RedrawToken, TypeOK, Labels
  <2>4. SuspendToken'  BY DEF SuspendToken, TypeOK, Labels
  <2>5. Fresh'  BY DEF Fresh, Frame, DrawAhead, TypeOK, RedrawToken, Labels
  <2> QED BY <2>1, <2>2, <2>3, <2>4, <2>5
<1>8. ASSUME NEW p \in Procs, Push(p) PROVE IInv'
  <2> USE <1>8 DEF Push
  <2>1. TypeOK'  BY DEF TypeOK
  <2>2. Labels'  BY DEF Labels, TypeOK, RedrawToken
  <2>3. RedrawToken'  BY DEF RedrawToken, TypeOK, Labels
  <2>4. SuspendToken'  BY DEF SuspendToken, TypeOK, Labels
  <2>5. Fresh'  BY DEF Fresh, Frame, DrawAhead, TypeOK, RedrawToken, Labels
  <2> QED BY <2>1, <2>2, <2>3, <2>4, <2>5
<1>9. ASSUME NEW p \in Procs, Colour(p) PROVE IInv'
  <2> USE <1>9 DEF Colour
  <2>1. TypeOK'
    <3>1. late \subseteq Nat /\ version \in Nat /\ version + 1 \in Nat  BY DEF TypeOK
    <3>2. late' = late \/ late' = late \cup {version + 1}
      OBVIOUS
    <3>3. late' \subseteq Nat  BY <3>1, <3>2
    <3>4. version' \in Nat  BY <3>1
    <3>5. message' \in [Procs -> Nat] /\ pc[p] = "colour"  BY DEF TypeOK
    <3>6. Rest(p) \in {"loop", "own"}
      OBVIOUS
    <3> QED BY <3>3, <3>4, <3>5, <3>6 DEF TypeOK
  <2>2. Labels'  BY DEF Labels, TypeOK, RedrawToken
  <2>3. RedrawToken'  BY DEF RedrawToken, TypeOK, Labels
  <2>4. SuspendToken'  BY DEF SuspendToken, TypeOK, Labels
  <2>5. Fresh'  BY DEF Fresh, Frame, DrawAhead, TypeOK, RedrawToken, Labels
  <2> QED BY <2>1, <2>2, <2>3, <2>4, <2>5
<1>10. ASSUME NEW m \in sleeping, TimerEnds(m) PROVE IInv'
  <2> USE <1>10 DEF TimerEnds
  <2>1. TypeOK'  BY DEF TypeOK
  <2>2. Labels'  BY DEF Labels, TypeOK, RedrawToken
  <2>3. RedrawToken'  BY DEF RedrawToken, TypeOK, Labels
  <2>4. SuspendToken'  BY DEF SuspendToken, TypeOK, Labels
  <2>5. Fresh'  BY DEF Fresh, Frame, DrawAhead, TypeOK, RedrawToken, Labels
  <2> QED BY <2>1, <2>2, <2>3, <2>4, <2>5
<1>11. CASE KeyPressed
  <2> USE <1>11 DEF KeyPressed
  <2>1. TypeOK'  BY DEF TypeOK
  <2>2. Labels'  BY DEF Labels, TypeOK, RedrawToken
  <2>3. RedrawToken'  BY DEF RedrawToken, TypeOK, Labels
  <2>4. SuspendToken'  BY DEF SuspendToken, TypeOK, Labels
  <2>5. Fresh'  BY DEF Fresh, Frame, DrawAhead, TypeOK, RedrawToken, Labels
  <2> QED BY <2>1, <2>2, <2>3, <2>4, <2>5
<1>12. CASE Expire
  <2> USE <1>12 DEF Expire
  <2>1. TypeOK'  BY DEF TypeOK
  <2>2. Labels'  BY DEF Labels, TypeOK, RedrawToken
  <2>3. RedrawToken'  BY DEF RedrawToken, TypeOK, Labels
  <2>4. SuspendToken'  BY DEF SuspendToken, TypeOK, Labels
  <2>5. Fresh'  BY DEF Fresh, Frame, DrawAhead, TypeOK, RedrawToken, Labels
  <2> QED BY <2>1, <2>2, <2>3, <2>4, <2>5
<1>13. CASE RecvRedraw
  <2> USE <1>13 DEF RecvRedraw
  <2>1. TypeOK'  BY DEF TypeOK
  <2>2. Labels'  BY DEF Labels, TypeOK, RedrawToken
  <2>3. RedrawToken'  BY DEF RedrawToken, TypeOK, Labels
  <2>4. SuspendToken'  BY DEF SuspendToken, TypeOK, Labels
  <2>5. Fresh'  BY DEF Fresh, Frame, DrawAhead, TypeOK, RedrawToken, Labels
  <2> QED BY <2>1, <2>2, <2>3, <2>4, <2>5
<1>14. CASE RenderSwap
  <2> USE <1>14 DEF RenderSwap
  <2>1. TypeOK'  BY DEF TypeOK
  <2>2. Labels'  BY DEF Labels, TypeOK, RedrawToken
  <2>3. RedrawToken'  BY DEF RedrawToken, TypeOK, Labels
  <2>4. SuspendToken'  BY DEF SuspendToken, TypeOK, Labels
  <2>5. Fresh'  BY DEF Fresh, Frame, DrawAhead, TypeOK, RedrawToken, Labels
  <2> QED BY <2>1, <2>2, <2>3, <2>4, <2>5
<1>15. CASE RenderDraw
  <2> USE <1>15 DEF RenderDraw
  <2>1. TypeOK'  BY DEF TypeOK
  <2>2. Labels'  BY DEF Labels, TypeOK, RedrawToken
  <2>3. RedrawToken'  BY DEF RedrawToken, TypeOK, Labels
  <2>4. SuspendToken'  BY DEF SuspendToken, TypeOK, Labels
  <2>5. Fresh'  BY DEF Fresh, Frame, DrawAhead, TypeOK, RedrawToken, Labels
  <2> QED BY <2>1, <2>2, <2>3, <2>4, <2>5
<1>16. CASE RenderFlush
  <2> USE <1>16 DEF RenderFlush
  <2>1. TypeOK'  BY DEF TypeOK
  <2>2. Labels'  BY DEF Labels, TypeOK, RedrawToken
  <2>3. RedrawToken'  BY DEF RedrawToken, TypeOK, Labels
  <2>4. SuspendToken'  BY DEF SuspendToken, TypeOK, Labels
  <2>5. Fresh'  BY DEF Fresh, Frame, DrawAhead, TypeOK, RedrawToken, Labels
  <2> QED BY <2>1, <2>2, <2>3, <2>4, <2>5
<1>17. CASE RecvSuspend
  <2> USE <1>17 DEF RecvSuspend
  <2>1. TypeOK'  BY DEF TypeOK
  <2>2. Labels'  BY DEF Labels, TypeOK, RedrawToken
  <2>3. RedrawToken'  BY DEF RedrawToken, TypeOK, Labels
  <2>4. SuspendToken'  BY DEF SuspendToken, TypeOK, Labels
  <2>5. Fresh'  BY DEF Fresh, Frame, DrawAhead, TypeOK, RedrawToken, Labels
  <2> QED BY <2>1, <2>2, <2>3, <2>4, <2>5
<1>18. CASE SuspendSwap
  <2> USE <1>18 DEF SuspendSwap, ReportsError
  <2>1. TypeOK'  BY DEF TypeOK
  <2>2. Labels'  BY DEF Labels, TypeOK, RedrawToken
  <2>3. RedrawToken'  BY DEF RedrawToken, TypeOK, Labels
  <2>4. SuspendToken'  BY DEF SuspendToken, TypeOK, Labels
  <2>5. Fresh'  BY DEF Fresh, Frame, DrawAhead, TypeOK, RedrawToken, Labels
  <2> QED BY <2>1, <2>2, <2>3, <2>4, <2>5
<1>19. CASE SuspendResume
  <2> USE <1>19 DEF SuspendResume, ReportsError
  <2>1. TypeOK'  BY DEF TypeOK
  <2>2. Labels'  BY DEF Labels, TypeOK, RedrawToken
  <2>3. RedrawToken'  BY DEF RedrawToken, TypeOK, Labels
  <2>4. SuspendToken'  BY DEF SuspendToken, TypeOK, Labels
  <2>5. Fresh'  BY DEF Fresh, Frame, DrawAhead, TypeOK, RedrawToken, Labels
  <2> QED BY <2>1, <2>2, <2>3, <2>4, <2>5
<1>20. CASE UNCHANGED vars
  BY <1>20 DEF vars, TypeOK, Labels, RedrawToken, SuspendToken, Fresh, Frame, DrawAhead
<1> QED
  BY <1>1, <1>2, <1>3, <1>4, <1>5, <1>6, <1>7, <1>8, <1>9, <1>10, <1>11, <1>12, <1>13, <1>14, <1>15, <1>16, <1>17, <1>18, <1>19, <1>20
     DEF Next, MainLoop, Request, Finish, TimeRunsOut

LEMMA InvariantIInv == Spec => []IInv
BY InitIInv, StepIInv, PTL DEF Spec

-----------------------------------------------------------------------------
(* The flags and channels of the user interface keep their types whatever  *)
(* the goroutines do.                                                      *)
THEOREM TypeCorrect == Spec => []TypeOK
<1>1. IInv => TypeOK  BY DEF IInv
<1> QED BY <1>1, InvariantIInv, PTL

(* Invalidate and QueueSuspend never block their caller (ui.go, Invalidate *)
(* and QueueSuspend), for any number of goroutines that call them.         *)
THEOREM InvalidateNeverBlocks == Spec => []NeverBlocks
<1>1. IInv => NeverBlocks
  BY DEF IInv, TypeOK, RedrawToken, SuspendToken, NeverBlocks, RedrawCap, SuspendCap
<1> QED BY <1>1, InvariantIInv, PTL

(* A change or a refresh is never lost between the flags and the channel,  *)
(* but for a colour that another goroutine sets after the Invalidate of    *)
(* its message (ui.go, Invalidate, QueueRefresh and Render; status.go,     *)
(* Push and PushError).                                                    *)
THEOREM RedrawNotLost == Spec => []NoLostRedraw
<1>1. IInv => NoLostRedraw
  <2> SUFFICES ASSUME IInv, Quiet
               PROVE  (\A v \in (shown + 1)..version : v \in late) /\ refresh = 0
      BY DEF NoLostRedraw
  <2>1. pc[Main] = "loop" /\ \A p \in Procs : pc[p] \in {"own", "loop"}
    BY DEF Quiet, Rest, Procs
  <2>2. dirty = 0
    BY <2>1 DEF IInv, TypeOK, RedrawToken, Quiet
  <2>3. ~DrawAhead  BY <2>1, <2>2 DEF DrawAhead
  <2> QED BY <2>1, <2>3 DEF IInv, TypeOK, Fresh, Frame
<1> QED BY <1>1, InvariantIInv, PTL
=============================================================================
