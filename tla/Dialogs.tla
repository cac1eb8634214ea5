------------------------------- MODULE Dialogs -------------------------------
(***************************************************************************)
(* The one dialog of aerc and those who put theirs there: questions,       *)
(* menus with a program or a list, :unsubscribe and the drop-down          *)
(* terminal, which rolls down and up while its shell runs and ends         *)
(* (app/quake.go, app/terminal.go, commands/menu.go, app/listbox.go).      *)
(***************************************************************************)
EXTENDS Integers, Sequences, FiniteSets, SequencesExt

CONSTANTS
  Lines,          \* of the list a menu offers
  Terms,          \* what the user types to filter them
  Matching,       \* function from Terms to the lines each one matches
  Methods,        \* schemes of List-Unsubscribe, in the order of the header
  MaxSteps, MaxFaults

VARIABLES
  dialog,         \* aerc.dialog: [kind, id]
  unanswered,     \* dialogs someone waits for
  quake,          \* quakeTerminal: rolling, visible and the terminal, 0 for none
  rollers,        \* goroutines of Roller.Roll, the oldest first: [way, term]
  callbacks,      \* ui.Callbacks
  terms,          \* terminals: "new", "running" or "closed"
  picks,          \* temporary files of menus
  box,            \* the list: filter, selected line, cursorPos (0 for none), drawn since
  posting,        \* requests of :unsubscribe
  executed,       \* ghost: lines picked, the filter, and whether it had been drawn
  dg_lost,        \* ghost: unanswered dialogs taken away by others, 0 for the terminal
  dg_outrun,      \* ghost: the terminal was rolled again before it had stopped
  dg_steps, dg_faults

dgVars == <<dialog, unanswered, quake, rollers, callbacks, terms, picks, box, posting,
            executed, dg_lost, dg_outrun, dg_steps, dg_faults>>

NoDialog == [kind |-> "none", id |-> -1]
NoOne == -1
Empty == [kind |-> "empty", id |-> 0]
Dialog(kind, id) == [kind |-> kind, id |-> id]

Filtered(term) == SelectSeq(Lines, LAMBDA l : l \in Matching[term])
NewBox == [filter |-> "", selected |-> "", cursor |-> 0, drawn |-> FALSE]

Init ==
  /\ dialog = NoDialog /\ unanswered = {}
  /\ quake = [term |-> 0, visible |-> FALSE, rolling |-> FALSE]
  /\ rollers = <<>> /\ callbacks = <<>> /\ terms = <<>> /\ picks = {} /\ box = NewBox
  /\ posting = {} /\ executed = {} /\ dg_lost = {} /\ dg_outrun = FALSE
  /\ dg_steps = 0 /\ dg_faults = 0

Id == dg_steps + 1
Step == dg_steps < MaxSteps /\ dg_steps' = dg_steps + 1
Fault == dg_faults < MaxFaults /\ dg_faults' = dg_faults + 1

(* AddDialog and CloseDialog act on whatever is there; own may be gone. *)
Replace(d, own) ==
  /\ dialog' = d
  /\ LET there == IF dialog.kind = "quake" THEN 0 ELSE dialog.id
     IN dg_lost' = IF there \in (unanswered \cup {0}) \ {own} THEN dg_lost \cup {there} ELSE dg_lost

Added(kind) == terms' = Append(terms, kind)

-----------------------------------------------------------------------------
(* The drop-down terminal. *)

Show(q) ==
  /\ quake' = [q EXCEPT !.rolling = TRUE, !.visible = TRUE]
  /\ rollers' = Append(rollers, [way |-> "show", term |-> q.term])
  /\ Replace(Empty, 0)
  /\ UNCHANGED callbacks

(* Hide leaves the dialog to the main goroutine. *)
Hide(q) ==
  /\ quake' = [q EXCEPT !.rolling = TRUE, !.visible = FALSE]
  /\ rollers' = Append(rollers, [way |-> "hide", term |-> q.term])
  /\ callbacks' = Append(callbacks, [do |-> "empty", term |-> q.term])

Moving == rollers # <<>> \/ callbacks # <<>>

(* F1, before any dialog sees it. *)
ToggleQuake ==
  /\ Step
  /\ LET fresh == quake.term = 0
         q == IF fresh THEN [quake EXCEPT !.term = Id] ELSE quake
     IN /\ terms' = Append(terms, IF fresh THEN "new" ELSE "none")
        /\ IF q.rolling THEN quake' = q /\ UNCHANGED <<rollers, callbacks, dialog, dg_lost>>
           ELSE IF q.visible THEN Hide(q) /\ UNCHANGED <<dialog, dg_lost>>
           ELSE Show(q)
        /\ dg_outrun' = (dg_outrun \/ (~q.rolling /\ Moving))
  /\ UNCHANGED <<unanswered, picks, box, posting, executed, dg_faults>>

(* The goroutine of a roller ends. *)
Rolled ==
  \E i \in DOMAIN rollers :
    /\ rollers' = RemoveAt(rollers, i)
    /\ callbacks' = Append(callbacks, [do |-> rollers[i].way, term |-> rollers[i].term])
    /\ UNCHANGED <<dialog, unanswered, quake, terms, picks, box, posting, executed, dg_lost,
                   dg_outrun, dg_steps, dg_faults>>

(* The callbacks of Hide and Show, and those their done functions queue. *)
Main ==
  /\ callbacks # <<>>
  /\ LET c == Head(callbacks) IN
     /\ CASE c.do = "empty" -> Replace(Empty, 0)
          [] c.do = "place" -> Replace(Dialog("quake", c.term), 0)
          [] c.do = "close" -> Replace(NoDialog, 0)
          [] OTHER -> UNCHANGED <<dialog, dg_lost>>
     /\ callbacks' = Tail(callbacks) \o
          CASE c.do = "show" -> <<[c EXCEPT !.do = "place"]>>
            [] c.do = "hide" -> <<[c EXCEPT !.do = "close"]>>
            [] OTHER -> <<>>
     /\ quake' = IF c.do \in {"show", "hide"} THEN [quake EXCEPT !.rolling = FALSE] ELSE quake
  /\ UNCHANGED <<unanswered, rollers, terms, picks, box, posting, executed, dg_outrun, dg_steps,
                 dg_faults>>

-----------------------------------------------------------------------------
(* Terminals: the process starts with the first Draw, and ends in the       *)
(* goroutine of the terminal, which calls OnClose.                         *)

OnClose(t) ==
  IF t \in picks
  THEN /\ picks' = picks \ {t} /\ unanswered' = unanswered \ {t}
       /\ Replace(NoDialog, t)
       /\ UNCHANGED <<quake, rollers, callbacks>>
  ELSE /\ Hide([quake EXCEPT !.term = 0])
       /\ UNCHANGED <<dialog, dg_lost, picks, unanswered>>

(* drawBox: the selected line stays, or the first one is selected. *)
drawBox(list) ==
  [box EXCEPT !.cursor = IF Contains(list, box.selected)
                         THEN SelectInSeq(list, LAMBDA l : l = box.selected)
                         ELSE IF list = <<>> THEN 0 ELSE 1,
              !.selected = IF Contains(list, box.selected) THEN box.selected
                           ELSE IF list = <<>> THEN "" ELSE list[1],
              !.drawn = TRUE]

Draw ==
  \/ /\ dialog.kind \in {"menu", "quake"} /\ terms[dialog.id] = "new"
     /\ \/ /\ terms' = [terms EXCEPT ![dialog.id] = "running"]
           /\ UNCHANGED <<dialog, unanswered, quake, rollers, callbacks, picks, dg_lost, dg_faults>>
        \/ /\ Fault
           /\ terms' = [terms EXCEPT ![dialog.id] = "closed"]
           /\ OnClose(dialog.id)
     /\ UNCHANGED <<box, posting, executed, dg_outrun, dg_steps>>
  \/ /\ dialog.kind = "list"
     /\ box' = drawBox(Filtered(box.filter)) /\ box' # box
     /\ UNCHANGED <<dialog, unanswered, quake, rollers, callbacks, terms, picks, posting, executed,
                    dg_lost, dg_outrun, dg_steps, dg_faults>>

Exit ==
  \E t \in DOMAIN terms :
    /\ terms[t] = "running"
    /\ terms' = [terms EXCEPT ![t] = "closed"]
    /\ OnClose(t)
    /\ dg_outrun' = (dg_outrun \/ (t \notin picks /\ Moving))
    /\ UNCHANGED <<box, posting, executed, dg_steps, dg_faults>>

-----------------------------------------------------------------------------
(* Dialogs that are put up: questions by anyone at any time, the others by  *)
(* commands, which nobody types while a dialog takes the keys.             *)

GetPassword ==
  /\ Step /\ unanswered' = unanswered \cup {Id} /\ Added("none")
  /\ Replace(Dialog("question", Id), NoOne)
  /\ UNCHANGED <<quake, rollers, callbacks, picks, box, posting, executed, dg_outrun, dg_faults>>

Menu ==
  /\ Step /\ dialog = NoDialog
  /\ unanswered' = unanswered \cup {Id}
  /\ \E list \in BOOLEAN :
       /\ dialog' = Dialog(IF list THEN "list" ELSE "menu", Id)
       /\ Added(IF list THEN "none" ELSE "new")
       /\ picks' = IF list THEN picks ELSE picks \cup {Id}
       /\ box' = IF list THEN NewBox ELSE box
  /\ UNCHANGED <<quake, rollers, callbacks, posting, executed, dg_lost, dg_outrun, dg_faults>>

(* A web page is asked about, for mail there is a composer. *)
Chosen(method, id) == IF method = "mailto" THEN NoDialog ELSE Dialog("confirm", id)

Unsubscribe ==
  /\ Step /\ dialog = NoDialog /\ Added("none")
  /\ dialog' = IF Len(Methods) = 1 THEN Chosen(Methods[1], Id) ELSE Dialog("methods", Id)
  /\ unanswered' = unanswered \cup ({dialog'.id} \ {NoOne})
  /\ UNCHANGED <<quake, rollers, callbacks, picks, box, posting, executed, dg_lost, dg_outrun,
                 dg_faults>>

(* The request has been answered: another dialog, from its goroutine. *)
Posted ==
  \E id \in posting :
    /\ posting' = posting \ {id}
    /\ \/ /\ Replace(Dialog("confirmation", id), NoOne)
          /\ UNCHANGED dg_faults
       \/ Fault /\ UNCHANGED <<dialog, dg_lost>>
    /\ UNCHANGED <<unanswered, quake, rollers, callbacks, terms, picks, box, executed, dg_outrun,
                   dg_steps>>

-----------------------------------------------------------------------------
(* Keys of the dialog. *)

moveCursor(delta) ==
  LET list == Filtered(box.filter)
      at == box.cursor + delta
      to == IF at < 1 THEN 1 ELSE IF at > Len(list) THEN Len(list) ELSE at
  IN IF list = <<>> THEN box ELSE [box EXCEPT !.cursor = to, !.selected = list[to]]

ListKey ==
  /\ dialog.kind = "list" /\ Step /\ Added("none")
  /\ \/ \E delta \in {-1, 1} : box' = moveCursor(delta) /\ box' # box
     \/ \E term \in Terms \ {box.filter} : box' = [box EXCEPT !.filter = term, !.drawn = FALSE]
  /\ UNCHANGED <<dialog, unanswered, quake, rollers, callbacks, picks, posting, executed, dg_lost,
                 dg_outrun, dg_faults>>

(* What is shown after Enter or Esc: the callbacks close the dialog first. *)
Answered(enter, method) ==
  IF dialog.kind = "methods" /\ enter THEN Chosen(method, dialog.id) ELSE NoDialog

(* Enter or Esc.  The method is looked up by its scheme. *)
Answer ==
  /\ dialog.kind \in {"question", "list", "methods", "confirm", "confirmation"}
  /\ \E enter \in BOOLEAN : \E option \in 1..Len(Methods) :
       LET first == SelectInSeq(Methods, LAMBDA m : m = Methods[option])
           list == dialog.kind = "list" /\ enter /\ box.selected # "" IN
       /\ dialog.kind # "methods" => option = 1
       /\ dialog' = Answered(enter, Methods[first])
       /\ unanswered' = IF dialog'.kind = "confirm" THEN unanswered ELSE unanswered \ {dialog.id}
       /\ posting' = IF dialog.kind = "confirm" /\ enter THEN posting \cup {dialog.id} ELSE posting
       /\ executed' = IF list THEN executed \cup {[line |-> box.selected, filter |-> box.filter,
                                                   drawn |-> box.drawn]}
                      ELSE executed
  /\ UNCHANGED <<quake, rollers, callbacks, terms, picks, box, dg_lost, dg_outrun, dg_steps, dg_faults>>

Next ==
  \/ ToggleQuake \/ Rolled \/ Main \/ Draw \/ Exit
  \/ GetPassword \/ Menu \/ Unsubscribe \/ Posted \/ ListKey \/ Answer

Spec == Init /\ [][Next]_dgVars

-----------------------------------------------------------------------------
(* Who asks is asked on the screen until the answer comes, and no longer;   *)
(* but the drop-down terminal, the end of a menu's program and a newer      *)
(* question take away what is there (AddDialog and CloseDialog name no one). *)
QuestionsShown ==
  /\ \A id \in unanswered : dialog.id = id \/ id \in dg_lost
  /\ dialog.kind \in {"question", "list", "methods", "confirm", "menu"} => dialog.id \in unanswered

(* The terminal rolls only while a roller does; when all is quiet it is on  *)
(* the screen if it is said to be, and its shell lives, unless it was       *)
(* rolled again before it had stopped (outrun) or covered by a question.    *)
QuakeRight ==
  /\ quake.rolling => rollers # <<>> \/ \E i \in DOMAIN callbacks : callbacks[i].do \in {"show", "hide"}
  /\ quake.visible => quake.term # 0 /\ terms[quake.term] # "closed"
  /\ ~Moving /\ 0 \notin dg_lost /\ ~dg_outrun =>
       /\ quake.visible <=> dialog.kind = "quake"
       /\ dialog.kind = "quake" => dialog.id = quake.term
       /\ dialog # Empty

(* A menu's temporary file is there as long as its program may write it.    *)
PicksRight ==
  \A t \in DOMAIN terms :
    t \in picks => terms[t] # "closed" /\ t \in unanswered

(* The line Enter picks matches the filter, once the list has been drawn    *)
(* with it.                                                                *)
ChoicesRight == \A c \in executed : c.drawn => c.line \in Matching[c.filter]

DialogsRight == QuestionsShown /\ QuakeRight /\ PicksRight /\ ChoicesRight
=============================================================================
