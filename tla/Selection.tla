----------------------------- MODULE Selection ------------------------------
(***************************************************************************)
(* The selected message of a list, the marks and the visual mode           *)
(* (lib/marker/marker.go), the results of a search, and the moves through  *)
(* both (lib/msgstore.go, lib/iterator).  The list changes under them:     *)
(* messages arrive and leave, a filter hides some, threads are rebuilt.    *)
(*                                                                         *)
(* The list is drawn from its end, or from its start with reverse-order.   *)
(* 0 is MagicUid, no selection yet.  The ghost meant is what the user      *)
(* marked, written from the manual and not from the maps of the marker.    *)
(***************************************************************************)
EXTENDS Integers, SequencesExt, FiniteSetsExt, Sublists

CONSTANTS
  Messages,      \* UIDs, positive
  ReverseOrder,  \* reverse-msglist-order: the iterators of reverseFactory
  Threaded,      \* threads are built and shown
  MaxSteps       \* bound on commands and changes

VARIABLES
  uids,          \* store.Uids()
  selected,      \* selectedUid
  mc,            \* the marker: [marked, lastMarked, shared, visual, start, base]; shared:
                 \* marked and lastMarked are one map
  results, index,   \* of the search; -1: none selected yet
  callback,      \* threadCallback: the index it selects, or -1
  meant, meantLast, session,   \* what the user marked; [start, base] of the visual mode
  astray,        \* why marks may differ from that: see MarksMeant
  hiddenResults, \* results that left the list without being deleted
  sel_steps

selVars == <<uids, selected, mc, results, index, callback, meant, meantLast, session, astray,
             hiddenResults, sel_steps>>

NoSession == [start |-> 0, base |-> {}]
IndexOf(us, u) == IF u \in ToSet(us) THEN SelectInSeq(us, LAMBDA v : v = u) - 1 ELSE -1

-----------------------------------------------------------------------------
(* lib/iterator. *)

StartIndex(n) == IF ReverseOrder THEN 0 ELSE n - 1
EndIndex(n) == IF ReverseOrder THEN n - 1 ELSE 0

FixBounds(i, lower, upper) == IF i > upper THEN upper ELSE IF i < lower THEN lower ELSE i
WrapBounds(i, lower, upper) ==
  IF upper <= 0 THEN lower
  ELSE IF i > upper THEN lower + ((i - upper - 1) % upper)
  ELSE IF i < lower THEN upper - ((lower - i - 1) % upper)
  ELSE i
MoveIndex(i, delta, n, wrap) ==
  LET Bounds(j, lower, upper) ==
        IF wrap THEN WrapBounds(j, lower, upper) ELSE FixBounds(j, lower, upper)
  IN IF EndIndex(n) < StartIndex(n) THEN Bounds(i - delta, EndIndex(n), StartIndex(n))
     ELSE Bounds(i + delta, StartIndex(n), EndIndex(n))

-----------------------------------------------------------------------------
(* The marker. *)

resetMark(m) == [m EXCEPT !.lastMarked = m.marked, !.marked = {}, !.shared = FALSE]
ClearVisualMark(m) == [resetMark(m) EXCEPT !.visual = FALSE, !.start = 0]

(* Marks change in place, in lastMarked too while it is the same map. *)
Marks(m, new) == [m EXCEPT !.marked = new, !.lastMarked = IF m.shared THEN new ELSE @]

Between(us, u, v) ==
  LET i == IndexOf(us, u) j == IndexOf(us, v)
  IN {us[k + 1] : k \in IF i < j THEN i..j ELSE j..i}

(* Bug: marks from before the visual mode are lost on a move. *)
UpdateVisualMarkAnew(m, us, sel) ==
  IF ~m.visual THEN m
  ELSE IF m.start \notin ToSet(us) THEN ClearVisualMark(m)
  ELSE IF sel \notin ToSet(us) THEN m
  ELSE [m EXCEPT !.marked = Between(us, m.start, sel), !.shared = FALSE]

UpdateVisualMark(m, us, sel) ==
  IF ~m.visual THEN m
  ELSE IF m.start \notin ToSet(us) THEN ClearVisualMark(m)
  ELSE IF sel \notin ToSet(us) THEN m
  ELSE [m EXCEPT !.marked = m.base \cup Between(us, m.start, sel), !.shared = FALSE]

ToggleVisualMark(m, clear, us, sel) ==
  LET reset == IF clear THEN resetMark(m) ELSE m
      with == Marks(reset, reset.marked \cup {sel})
  IN IF m.visual THEN [m EXCEPT !.visual = FALSE]
     ELSE IF sel \in ToSet(us)
          THEN [with EXCEPT !.visual = TRUE, !.start = sel, !.base = with.marked]
          ELSE [reset EXCEPT !.visual = TRUE]

-----------------------------------------------------------------------------
(* What the user means.  In visual mode the marks are those from before    *)
(* and the messages from the first selected one to the present one.        *)

Forgets == meantLast' = meant /\ meant' = {} /\ session' = NoSession

Selecting(us, sel) ==
  IF ~mc.visual \/ session = NoSession THEN UNCHANGED <<meant, meantLast, session>>
  ELSE IF session.start \notin ToSet(us) THEN Forgets
  ELSE /\ meant' = IF sel \in ToSet(us) THEN session.base \cup Between(us, session.start, sel)
                   ELSE meant
       /\ UNCHANGED <<meantLast, session>>

(* Select, and selectPriv: a pending callback is forgotten. *)
Select(us, u) ==
  /\ selected' = u
  /\ callback' = -1
  /\ mc' = UpdateVisualMark(mc, us, u)
  /\ Selecting(us, u)

(* SelectedUid: MagicUid becomes the first message of the list. *)
SelectedUid(us) ==
  IF selected = 0 /\ us # <<>> THEN us[StartIndex(Len(us)) + 1] ELSE selected

Step == sel_steps < MaxSteps /\ sel_steps' = sel_steps + 1

Init ==
  /\ uids = [n \in 1..Cardinality(Messages) |-> Nth(Messages, n)]
  /\ selected = uids[StartIndex(Len(uids)) + 1]
  /\ mc = [marked |-> {}, lastMarked |-> {}, shared |-> FALSE, visual |-> FALSE,
           start |-> 0, base |-> {}]
  /\ results = <<>> /\ index = -1 /\ callback = -1
  /\ meant = {} /\ meantLast = {} /\ session = NoSession
  /\ astray = {} /\ hiddenResults = {} /\ sel_steps = 0

-----------------------------------------------------------------------------
(* Moves. *)

(* NextPrev, with updateResults; threads that are rebuilt later put the    *)
(* selection back to the index it has now.                                 *)
NextPrev ==
  /\ Step /\ uids # <<>>
  /\ \E delta \in {-1, 1} :
       LET now == IndexOf(uids, SelectedUid(uids))
           new == IF now < 0 THEN StartIndex(Len(uids))
                  ELSE MoveIndex(now, delta, Len(uids), FALSE)
           u == uids[new + 1]
       IN /\ selected' = u
          /\ callback' = IF Threaded /\ now >= 0 THEN new ELSE -1
          /\ mc' = UpdateVisualMark(mc, uids, u)
          /\ Selecting(uids, u)
          /\ index' = IF now >= 0 /\ index >= 0 /\ u \in ToSet(results)
                      THEN IndexOf(results, u) ELSE index
  /\ UNCHANGED <<uids, results, astray, hiddenResults>>

(* Draw asks for the selected UID. *)
Draw ==
  /\ selected = 0 /\ uids # <<>>
  /\ Select(uids, SelectedUid(uids))
  /\ UNCHANGED <<uids, results, index, astray, hiddenResults, sel_steps>>

(* Search and ApplySearch: the answer holds what is in the list, in its    *)
(* order; the first result is selected.                                    *)
NextResult(rs, i, delta) ==
  LET new == IF i < 0 THEN StartIndex(Len(rs)) ELSE MoveIndex(i, delta, Len(rs), TRUE)
  IN IF rs = <<>> THEN index' = i /\ UNCHANGED <<selected, callback, mc, meant, meantLast, session>>
     ELSE index' = new /\ Select(uids, rs[new + 1])

ApplySearch ==
  /\ Step
  /\ \E found \in SUBSET ToSet(uids) :
       LET rs == Those(uids, found)
       IN results' = rs /\ NextResult(rs, -1, 1)
  /\ hiddenResults' = {}
  /\ UNCHANGED <<uids, astray>>

NextPrevResult ==
  /\ Step /\ results # <<>>
  /\ \E delta \in {-1, 1} : NextResult(results, index, delta)
  /\ UNCHANGED <<uids, results, astray, hiddenResults>>

-----------------------------------------------------------------------------
(* Marks. *)

Still == UNCHANGED <<uids, selected, results, index, callback, hiddenResults>>

(* :mark and :unmark, of the selected message or of those a filter finds,  *)
(* and their -t.                                                           *)
Chosen == {{selected} \cap ToSet(uids)} \cup SUBSET ToSet(uids)
Shares(new) == astray' = IF mc.shared /\ new # mc.marked THEN astray \cup {"shared"} ELSE astray

Mark ==
  /\ Step /\ ~mc.visual
  /\ \E us \in Chosen :
       /\ mc' = Marks(mc, mc.marked \cup us)
       /\ meant' = meant \cup us
       /\ Shares(mc.marked \cup us)
  /\ UNCHANGED <<meantLast, session>> /\ Still

ToggleMark ==
  /\ Step /\ ~mc.visual
  /\ \E us \in Chosen :
       /\ mc' = Marks(mc, SymDiff(mc.marked, us))
       /\ meant' = SymDiff(meant, us)
       /\ Shares(SymDiff(mc.marked, us))
  /\ UNCHANGED <<meantLast, session>> /\ Still

Unmark ==
  /\ Step
  /\ \E us \in Chosen \ {{}} :
       IF mc.visual
       THEN mc' = ClearVisualMark(mc) /\ Forgets /\ UNCHANGED astray
       ELSE /\ mc' = Marks(mc, mc.marked \ us)
            /\ meant' = meant \ us
            /\ Shares(mc.marked \ us)
            /\ UNCHANGED <<meantLast, session>>
  /\ Still

(* :mark -v and -V.  Without a selected message the start and the base     *)
(* stay those of the last time.                                            *)
Visual ==
  /\ Step
  /\ \E clear \in BOOLEAN :
       LET before == IF clear THEN {} ELSE meant
           here == {selected} \cap ToSet(uids)
       IN /\ mc' = ToggleVisualMark(mc, clear, uids, selected)
          /\ IF mc.visual THEN session' = NoSession /\ UNCHANGED <<meant, meantLast>>
             ELSE /\ meantLast' = IF clear THEN meant ELSE meantLast
                  /\ meant' = before \cup here
                  /\ session' = IF here = {} THEN NoSession
                                ELSE [start |-> selected, base |-> before \cup here]
          /\ astray' = astray
               \cup (IF ~mc.visual /\ here = {} THEN {"no start"} ELSE {})
               \cup (IF mc.shared /\ ~mc.visual /\ ~clear /\ here # {} THEN {"shared"} ELSE {})
  /\ Still

Remark ==
  /\ Step
  /\ mc' = [mc EXCEPT !.marked = mc.lastMarked, !.shared = TRUE]
  /\ meant' = meantLast
  /\ UNCHANGED <<meantLast, session, astray>> /\ Still

(* A command on the marked messages: Marked drops those that left; the     *)
(* marks are cleared.                                                      *)
ActOnMarked ==
  /\ Step
  /\ mc' = ClearVisualMark(Marks(mc, mc.marked \cap ToSet(uids)))
  /\ meantLast' = meant \cap ToSet(uids) /\ meant' = {} /\ session' = NoSession
  /\ UNCHANGED astray /\ Still

-----------------------------------------------------------------------------
(* The list changes. *)

(* MessagesDeleted; an empty list has no selection. *)
MessagesDeleted ==
  /\ Step
  /\ \E u \in ToSet(uids) :
       /\ uids' = Without(uids, {u})
       /\ results' = Without(results, {u})
       /\ IF uids' = <<>> THEN Select(uids', 0)
          ELSE UNCHANGED <<selected, mc, callback, meant, meantLast, session>>
  /\ UNCHANGED <<index, astray, hiddenResults>>

(* Contents for a filter or a sort, or with new mail; the callback of Sort *)
(* looks for the selected message and takes the place it had otherwise.    *)
Sorted ==
  /\ Step
  /\ \E us \in UNION {SetToSeqs(s) : s \in SUBSET Messages} :
       LET had == Len(uids) - (IndexOf(uids, selected) + 1)
           first == StartIndex(Len(us))
           at == IF selected \in ToSet(us) THEN IndexOf(us, selected)
                 ELSE MoveIndex(first, had, Len(us), FALSE)
       IN /\ Cardinality(SymDiff(ToSet(us), ToSet(uids))) <= 1
          /\ us # uids
          /\ uids' = us
          /\ selected' = IF us = <<>> THEN 0 ELSE us[at + 1]
          /\ callback' = IF Threaded /\ us # <<>> /\ selected \notin ToSet(us) THEN at ELSE -1
          /\ mc' = UpdateVisualMark(mc, us, selected')
          /\ Selecting(us, selected')
          /\ hiddenResults' = hiddenResults \cup (ToSet(uids) \ ToSet(us))
  /\ UNCHANGED <<results, index, astray>>

(* Threads are built anew, and the callback of the last move selects what  *)
(* is at its index now.                                                    *)
Rebuilt ==
  /\ Step /\ Threaded
  /\ \E us \in SetToSeqs(ToSet(uids)) :
       /\ us # uids
       /\ uids' = us
       /\ IF callback >= 0 /\ Len(us) > callback
          THEN /\ selected' = us[callback + 1] /\ callback' = -1
               /\ mc' = UpdateVisualMark(mc, us, us[callback + 1])
               /\ astray' = IF mc.visual /\ us[callback + 1] # selected
                            THEN astray \cup {"shifted"} ELSE astray
               /\ Selecting(us, selected)
          ELSE UNCHANGED <<selected, callback, mc, meant, meantLast, session, astray>>
  /\ UNCHANGED <<results, index, hiddenResults>>

Next ==
  \/ NextPrev \/ Draw \/ ApplySearch \/ NextPrevResult
  \/ Mark \/ ToggleMark \/ Unmark \/ Visual \/ Remark \/ ActOnMarked
  \/ MessagesDeleted \/ Sorted \/ Rebuilt

Spec == Init /\ [][Next]_selVars

-----------------------------------------------------------------------------
(* The marks in the list are those the user set.  They may differ after    *)
(* the visual mode was entered without a selected message ("no start"),    *)
(* after the marks changed while they were the remembered ones too         *)
(* ("shared"), and after a rebuilt thread list moved the selection in      *)
(* visual mode ("shifted").                                                *)
MarksMeant ==
  astray = {} => \A u \in ToSet(uids) : u \in mc.marked <=> u \in meant

(* Going through the results selects what is in the list, unless the list  *)
(* changed otherwise than by a deletion since the search.                  *)
ResultsShown == ToSet(results) \subseteq ToSet(uids) \cup hiddenResults

SelectionRight == MarksMeant /\ ResultsShown
=============================================================================
