-------------------------------- MODULE Tabs --------------------------------
(***************************************************************************)
(* The tabs of the window (lib/ui/tab.go) and who has the focus: the       *)
(* selected tab, the command line or a prompt (app/aerc.go, app/exline.go, *)
(* lib/ui/stack.go).  Commands run from a key binding or from the command  *)
(* line; programs that end, answers of workers and :reload remove and      *)
(* replace tabs at any time.                                               *)
(*                                                                         *)
(* A tab is a number.  bar is the struct Tabs without its lock:            *)
(*   list             tabs, indexed from 1 here                            *)
(*   cur              curIndex                                             *)
(*   history          tabs selected before, the latest last                *)
(*   shown, focused   tabs whose content is visible, has the focus         *)
(*   pinned, before   Tab.pinned, Tab.indexBeforePin (counted from 0)      *)
(***************************************************************************)
EXTENDS Integers, SequencesExt, Sublists

CONSTANTS
  Kinds,        \* kinds of the first tabs: "account", or "broken" for one that failed
  MaxTabs,      \* bound on the tabs ever opened
  MaxHistory,   \* maxHistory, 256 in the code
  MaxSteps      \* bound on the commands and events

VARIABLES
  bar,
  tab_kind,     \* tab -> "account", "broken", "viewer", "term"
  lines,        \* the exlines on the status bar: [prompt, previous]
  line,         \* aerc.focused: the number of an exline, 0 for none
  prompts,      \* number of prompts that wait for the next Draw
  committing,   \* "no", "run", "finish": ExLine.commit and ExLine.finish
  stray,        \* tabs another one was selected over without unselecting them
  shuffled,     \* tabs moved or unpinned across the pinned ones
  tab_steps

barVars == <<bar, tab_kind, lines, line, prompts, committing, stray, shuffled, tab_steps>>

-----------------------------------------------------------------------------
(* The operations of Tabs. *)

Selected(b) == b.list[b.cur]
Range0(b) == 1..Len(b.list)

PushHistory(h, t) ==
  LET g == Append(h, t) IN IF Len(g) > MaxHistory THEN Tail(g) ELSE g

Hidden(b, t) == [b EXCEPT !.shown = @ \ {t}, !.focused = @ \ {t}]

SelectPriv(b, i, unselectPrev) ==
  LET h == IF unselectPrev /\ b.cur <= Len(b.list)
           THEN [Hidden(b, Selected(b)) EXCEPT !.history = PushHistory(@, Selected(b))]
           ELSE b
  IN IF i \notin Range0(b) THEN b
     ELSE [h EXCEPT !.cur = i, !.shown = @ \cup {b.list[i]}, !.focused = @ \cup {b.list[i]}]

Added(b, t, background) ==
  LET a == [b EXCEPT !.list = Append(@, t)]
  IN IF background THEN a ELSE SelectPriv(a, Len(a.list), TRUE)

(* Cycling: SelectOffset, NextTab, PrevTab and the wheel of the mouse. *)
SelectOffset(b, n) == SelectPriv(b, ((b.cur - 1 + n) % Len(b.list)) + 1, TRUE)

(* popHistory, 0 when it fails. *)
Popped(b) ==
  IF b.history = <<>> THEN 0
  ELSE IF Last(b.history) \in ToSet(b.list)
       THEN CHOOSE i \in Range0(b) : b.list[i] = Last(b.history) ELSE 0
SelectPrevious(b) ==
  LET h == IF b.history = <<>> THEN b ELSE [b EXCEPT !.history = Front(@)]
  IN SelectPriv(h, Popped(b), TRUE)

(* Bug: the removed tab stays in the history. *)
RemovedKeepsHistory(b, t) ==
  LET i == CHOOSE i \in Range0(b) : b.list[i] = t
      r == [Hidden(b, t) EXCEPT !.list = RemoveAt(@, i)]
      prev == IF Popped(r) # 0 THEN Popped(r)
              ELSE IF b.cur <= Len(r.list) THEN b.cur ELSE Len(r.list)
  IN CASE i = b.cur -> SelectPriv(r, prev, FALSE)
       [] i < b.cur -> SelectPriv(r, b.cur - 1, FALSE)
       [] OTHER     -> r

Removed(b, t) ==
  LET i == CHOOSE i \in Range0(b) : b.list[i] = t
      r == [Hidden(b, t) EXCEPT !.list = RemoveAt(@, i),
                                !.history = Without(@, {t})]
      prev == IF Popped(r) # 0 THEN Popped(r)
              ELSE IF b.cur <= Len(r.list) THEN b.cur ELSE Len(r.list)
  IN CASE i = b.cur -> SelectPriv(IF r.history = <<>> THEN r
                                  ELSE [r EXCEPT !.history = Front(@)], prev, FALSE)
       [] i < b.cur -> SelectPriv(r, b.cur - 1, FALSE)
       [] OTHER     -> r

Replaced(b, t) ==
  SelectPriv(Hidden(b, t), CHOOSE i \in Range0(b) : b.list[i] = t, FALSE)

MoveTab(b, to) ==
  LET i == IF to < 1 THEN 1 ELSE IF to > Len(b.list) THEN Len(b.list) ELSE to
  IN [b EXCEPT !.list = [b.list EXCEPT ![b.cur] = b.list[i], ![i] = b.list[b.cur]],
               !.cur = i]

(* The number of pinned tabs before the first one that is not. *)
PinEnd(b) ==
  CHOOSE n \in 0..Len(b.list) :
    /\ \A i \in 1..n : b.list[i] \in b.pinned
    /\ n < Len(b.list) => b.list[n + 1] \notin b.pinned

PinTab(b) ==
  LET t == Selected(b)
      place == b.cur - 1 - PinEnd(b)
      before == [s \in b.pinned \cup {t} |->
                   IF s = t THEN place
                   ELSE IF b.before[s] > place THEN b.before[s] - 1 ELSE b.before[s]]
  IN IF t \in b.pinned THEN b
     ELSE MoveTab([b EXCEPT !.pinned = @ \cup {t}, !.before = before], PinEnd(b) + 1)

UnpinTab(b) ==
  LET t == Selected(b)
      run == {b.list[i] : i \in 1..PinEnd(b)} \ {t}
      before == [s \in DOMAIN b.before |->
                   IF s \in run /\ b.before[s] > b.before[t] THEN b.before[s] + 1
                   ELSE b.before[s]]
  IN IF t \notin b.pinned THEN b
     ELSE MoveTab([b EXCEPT !.pinned = @ \ {t}, !.before = before],
                  b.before[t] + PinEnd(b))

-----------------------------------------------------------------------------
(* Focus: aerc.focus, for the selected tab of b. *)
Refocused(b, item) ==
  CASE item = line -> b
    [] item \notin {0, line} -> [b EXCEPT !.focused = @ \ {Selected(b)}]
    [] OTHER -> [b EXCEPT !.focused = @ \cup {Selected(b)}]

(* The tabs of the accounts are added and selected one after the other, then the first one; *)
(* it is current when it is added itself, so it goes into the history twice.                *)
FirstBar(n) ==
  LET left == [i \in 1..(n + 1) |-> IF i = 1 THEN 1 ELSE i - 1]
      from == IF n + 1 > MaxHistory THEN n + 2 - MaxHistory ELSE 1
  IN [list |-> [i \in 1..n |-> i], cur |-> 1, history |-> SubSeq(left, from, n + 1),
      shown |-> {1}, focused |-> {1}, pinned |-> {}, before |-> <<>>]

Init ==
  \E k \in Kinds :
    /\ bar = FirstBar(Len(k))
    /\ tab_kind = k
    /\ lines = <<>> /\ line = 0 /\ prompts = 0 /\ committing = "no"
    /\ stray = {} /\ shuffled = {} /\ tab_steps = 0

Step == tab_steps < MaxSteps /\ tab_steps' = tab_steps + 1
Idle == bar.list # <<>> /\ committing = "no"

(* Commands run from a key binding, or from the line that commits. *)
Command ==
  /\ bar.list # <<>>
  /\ \/ committing = "no" /\ line = 0 /\ Step /\ UNCHANGED committing
     \/ committing = "run" /\ committing' = "finish" /\ UNCHANGED tab_steps

Quiet == UNCHANGED <<tab_kind, lines, line, prompts, stray, shuffled>>

Selects ==
  /\ Command
  /\ \/ \E i \in Range0(bar) : bar' = SelectPriv(bar, i, TRUE)
     \/ \E n \in {1, -1} : bar' = SelectOffset(bar, n)
     \/ bar' = SelectPrevious(bar)
  /\ stray' = stray \ {Selected(bar)}
  /\ UNCHANGED <<tab_kind, lines, line, prompts, shuffled>>

Opens ==
  /\ Command /\ Len(tab_kind) < MaxTabs
  /\ \E k \in {"viewer", "term"}, background \in BOOLEAN :
       /\ bar' = Added(bar, Len(tab_kind) + 1, background)
       /\ tab_kind' = Append(tab_kind, k)
       /\ stray' = IF background THEN stray ELSE stray \ {Selected(bar)}
  /\ UNCHANGED <<lines, line, prompts, shuffled>>

Moves ==
  /\ Command
  /\ \E i \in Range0(bar) :
       /\ bar' = MoveTab(bar, i)
       /\ shuffled' = shuffled \cup {bar.list[i], Selected(bar)}
  /\ UNCHANGED <<tab_kind, lines, line, prompts, stray>>

Pins ==
  /\ Command
  /\ \/ bar' = PinTab(bar) /\ UNCHANGED shuffled
     \/ /\ bar' = UnpinTab(bar)
        /\ shuffled' = IF bar' = bar THEN shuffled ELSE shuffled \cup bar.pinned \cup ToSet(bar.list)
  /\ UNCHANGED <<tab_kind, lines, line, prompts, stray>>

(* :close of a viewer or a terminal. *)
Closes ==
  /\ Command /\ tab_kind[Selected(bar)] \in {"viewer", "term"}
  /\ bar' = Removed(bar, Selected(bar))
  /\ stray' = stray \ {Selected(bar)}
  /\ UNCHANGED <<tab_kind, lines, line, prompts, shuffled>>

(* :prompt, or a command that does not touch tabs. *)
Others ==
  /\ Command
  /\ prompts' \in {prompts, prompts + 1}
  /\ UNCHANGED <<bar, tab_kind, lines, line, stray, shuffled>>

-----------------------------------------------------------------------------
(* BeginExCommand, on the ex key. *)
BeginExCommand ==
  /\ Idle /\ line = 0 /\ Step
  /\ lines' = Append(lines, [prompt |-> FALSE, previous |-> line])
  /\ line' = Len(lines) + 1
  /\ bar' = Refocused(bar, Len(lines) + 1)
  /\ UNCHANGED <<tab_kind, prompts, committing, stray, shuffled>>

(* Aerc.Draw puts a prompt on the status bar. *)
Draw ==
  /\ Idle /\ prompts > 0
  /\ prompts' = prompts - 1
  /\ lines' = Append(lines, [prompt |-> TRUE, previous |-> line])
  /\ line' = Len(lines) + 1
  /\ bar' = Refocused(bar, Len(lines) + 1)
  /\ UNCHANGED <<tab_kind, committing, stray, shuffled, tab_steps>>

(* ExLine.Event: Enter commits, then finishes; Esc only finishes. *)
Enter ==
  /\ Idle /\ line # 0
  /\ committing' = "run"
  /\ UNCHANGED <<bar, tab_kind, lines, line, prompts, stray, shuffled, tab_steps>>

Finish ==
  /\ bar.list # <<>> /\ line # 0
  /\ committing \in {"no", "finish"} /\ committing' = "no"
  /\ lines' = Front(lines)
  /\ line' = lines[line].previous
  /\ bar' = Refocused(bar, lines[line].previous)
  /\ UNCHANGED <<tab_kind, prompts, stray, shuffled, tab_steps>>

-----------------------------------------------------------------------------
(* A terminal ends, a composer has sent, a viewed message is deleted. *)
Ends ==
  /\ Idle /\ Step
  /\ \E t \in ToSet(bar.list) :
       /\ tab_kind[t] \in {"viewer", "term"}
       /\ bar' = Removed(bar, t)
       /\ stray' = (stray \ {t}) \cup (IF line = 0 THEN {} ELSE bar'.focused)
  /\ UNCHANGED <<tab_kind, lines, line, prompts, committing, shuffled>>

(* The next message of a viewer has been fetched, or :reload builds the     *)
(* viewers again: the tab is selected even if the user has gone elsewhere.  *)
Replaces ==
  /\ Idle /\ Step
  /\ \E t \in ToSet(bar.list) :
       /\ tab_kind[t] = "viewer"
       /\ bar' = Replaced(bar, t)
       /\ stray' = IF line # 0 THEN stray \cup {t, Selected(bar)}
                   ELSE IF t # Selected(bar) THEN stray \cup {Selected(bar)} ELSE stray
  /\ UNCHANGED <<tab_kind, lines, line, prompts, committing, shuffled>>

(* TabStrip.MouseEvent: the middle button closes any tab but an account's.  *)
(* Without a tab left the handler fails at the index it looks up.            *)
MiddleClick ==
  /\ Idle /\ line = 0 /\ Step
  /\ \E t \in ToSet(bar.list) :
       LET b == Removed([bar EXCEPT !.focused = @ \ {Selected(bar)}], t)
       IN /\ tab_kind[t] # "account"
          /\ bar' = IF b.list = <<>> THEN b ELSE [b EXCEPT !.focused = @ \cup {Selected(b)}]
          /\ stray' = stray \ {t}
  /\ UNCHANGED <<tab_kind, lines, line, prompts, committing, shuffled>>

Next ==
  \/ Selects \/ Opens \/ Moves \/ Pins \/ Closes \/ Others
  \/ BeginExCommand \/ Draw \/ Enter \/ Finish
  \/ Ends \/ Replaces \/ MiddleClick

-----------------------------------------------------------------------------
(* The user sees and types into one place: the selected tab and no other is *)
(* visible, and it has the focus unless the command line or a prompt, the   *)
(* top one of the status bar, has it.  A tab that a late answer or a program *)
(* that ended has selected or left (stray) is the known exception.           *)
OneFocus ==
  committing = "no" /\ bar.list # <<>> =>
    /\ Selected(bar) \in bar.shown
    /\ bar.shown \subseteq {Selected(bar)} \cup stray
    /\ line = 0 => Selected(bar) \in bar.focused
    /\ bar.focused \subseteq (IF line = 0 THEN {Selected(bar)} ELSE {}) \cup stray
    /\ line = Len(lines)

(* The history never leads to a tab that is closed and never grows beyond   *)
(* its limit (removeHistory, maxHistory).                                   *)
HistoryOpen == ToSet(bar.history) \subseteq ToSet(bar.list) /\ Len(bar.history) <= MaxHistory

(* "Moves the current tab to the left of all non-pinned tabs"               *)
(* (doc/aerc.1.scd:209), unless tabs were moved or unpinned meanwhile; and   *)
(* the next :unpin-tab "returns the tab to its previous location".           *)
PinsRight ==
  shuffled = {} /\ bar.list # <<>> =>
    /\ \A i, j \in Range0(bar) : i < j /\ bar.list[j] \in bar.pinned => bar.list[i] \in bar.pinned
    /\ Selected(bar) \notin bar.pinned =>
         UnpinTab(PinTab(bar)).list = bar.list /\ UnpinTab(PinTab(bar)).cur = bar.cur
=============================================================================
