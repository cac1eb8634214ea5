-------------------------------- MODULE Keys --------------------------------
(***************************************************************************)
(* From keys to commands: the sections of binds.conf and how they overlay  *)
(* each other (config/binds.go), the keys of the user and the simulated    *)
(* ones of a binding (app/aerc.go), the command line, prompts and the      *)
(* history of commands (app/exline.go, commands/history.go).               *)
(*                                                                         *)
(* A group of bindings has binds, in their order, its ex key, its          *)
(* completion key, globals: whether the global bindings hold, too.         *)
(* A command line is the sequence of its keys.                             *)
(***************************************************************************)
EXTENDS Integers, SequencesExt, FiniteSetsExt

CONSTANTS
  Default,       \* the group [default]
  Groups,        \* the groups of the views, by section
  Contextual,    \* by section, the groups for accounts and for folders, in their order
  Places,         \* [section, account, folder] of what can be selected
  Effect,        \* what commands do: a prompt, a dialog, another view
  UserKeys, MaxKeys, MaxHistory

VARIABLES
  keys,          \* [view, pending, pasting, frames: the strokes each binding has left to
                 \*  simulate, lines: the command lines over the status bar, focused: one of
                 \*  them or 0, prompts: not shown yet, dialog, history, at: the place in it]
  last,          \* what the keys typed last stood for
  real,          \* is the terminal pasting?
  astray,        \* why keys may not do what was meant: see KeysRight
  keysLeft

keyVars == <<keys, last, real, astray, keysLeft>>

EmptyGroup == [binds |-> <<>>, ex |-> ":", complete |-> "tab", globals |-> TRUE]

-----------------------------------------------------------------------------
(* config/binds.go *)

(* The first of those with the same keys, and none if that is empty. *)
filterAndCleanBindings(binds) ==
  LET first == {i \in DOMAIN binds : \A j \in 1..(i - 1) : binds[j].input # binds[i].input}
      keep == {i \in first : binds[i].output # <<>>}
  IN [k \in 1..Cardinality(keep) |->
        binds[CHOOSE i \in keep : Cardinality({j \in keep : j <= i}) = k]]
MergeBindings(over, base) ==
  [over EXCEPT !.binds = filterAndCleanBindings(IF over.globals THEN @ \o base.binds ELSE @)]
LoadBinds(section) == MergeBindings(Groups[section], EmptyGroup)
contextual(base, section, type, value) ==
  LET fits == SelectSeq(Contextual[section], LAMBDA c : c.type = type /\ value \in c.matches)
  IN FoldLeft(LAMBDA b, c : MergeBindings(c.group, b), base, fits)
getBindings(view) ==
  IF view.section = "terminal" THEN LoadBinds("terminal")
  ELSE contextual(contextual(LoadBinds(view.section), view.section, "account", view.account),
                  view.section, "folder", view.folder)
Global == [MergeBindings(Default, EmptyGroup) EXCEPT !.globals = FALSE]

GetBinding(group, input) ==
  LET exact == {i \in DOMAIN group.binds : group.binds[i].input = input}
  IN IF exact # {} THEN [found |-> TRUE, output |-> group.binds[Min(exact)].output]
     ELSE [found |-> FALSE,
           incomplete |-> \E i \in DOMAIN group.binds : IsStrictPrefix(input, group.binds[i].input)]

-----------------------------------------------------------------------------
(* The history of commands. *)

Beginning == <<"(Already at beginning)">>
End == <<"(Already at end)">>
HistoryAdd(s, cmd) ==
  LET cut == IF Len(s.history) >= MaxHistory THEN Tail(s.history) ELSE s.history
      all == IF cut = <<>> THEN <<cmd>> ELSE IF Last(cut) = cmd THEN cut ELSE Append(cut, cmd)
  IN [s EXCEPT !.history = all, !.at = Len(all)]
HistoryReset(s) == [s EXCEPT !.at = Len(s.history)]
SetText(s, text) == [s EXCEPT !.lines[s.focused].text = text]
HistoryPrev(s) ==
  IF s.at <= 0 \/ s.history = <<>> THEN SetText([s EXCEPT !.at = -1], Beginning)
  ELSE SetText([s EXCEPT !.at = @ - 1], s.history[s.at])
HistoryNext(s) ==
  IF s.at >= Len(s.history) - 1 \/ s.history = <<>> THEN SetText([s EXCEPT !.at = Len(s.history)], End)
  ELSE SetText([s EXCEPT !.at = @ + 1], s.history[s.at + 2])

-----------------------------------------------------------------------------
(* The command line. *)

Push(s, kind, tab) ==
  [s EXCEPT !.lines = Append(@, [kind |-> kind, text |-> <<>>, previous |-> s.focused, tab |-> tab]),
            !.focused = Len(s.lines) + 1]
BeginExCommand(s) == Push(s, "ex", s.frames = <<>>)
finish(s, line) == [s EXCEPT !.lines = Front(@), !.focused = line.previous]
Command(s, cmd) ==
  CASE cmd \notin DOMAIN Effect -> s
    [] Effect[cmd].does = "prompt" -> [s EXCEPT !.prompts = Append(@, "prompt")]
    [] Effect[cmd].does = "dialog" -> [s EXCEPT !.dialog = TRUE]
    [] OTHER -> [s EXCEPT !.view = Effect[cmd].view]
LineEvent(s, key) ==
  LET line == s.lines[s.focused]
      ran == Command(s, line.text)
  IN CASE key = "enter" ->
            IF line.kind = "prompt" THEN finish(s, line)
            ELSE finish(IF s.frames = <<>> THEN HistoryAdd(ran, line.text) ELSE ran, line)
       [] key = "esc" -> finish(IF line.kind = "prompt" THEN s ELSE HistoryReset(s), line)
       [] key = "up" -> IF line.kind = "prompt" THEN s ELSE HistoryPrev(s)
       [] key = "down" -> IF line.kind = "prompt" THEN s ELSE HistoryNext(s)
       [] key = "tab" -> s
       [] OTHER -> SetText(s, Append(line.text, key))
Draw(s) ==
  IF s.prompts = <<>> THEN s
  ELSE Push([s EXCEPT !.prompts = Front(@)], "prompt", TRUE)

-----------------------------------------------------------------------------
(* app/aerc.go *)

simulate(s, output) ==
  [s EXCEPT !.pending = <<>>, !.frames = Append(@, [left |-> output, all |-> output])]
(* At its end, a line that is still open can complete. *)
simulated(s) ==
  LET t == [s EXCEPT !.frames = Front(@)]
  IN IF s.focused # 0 THEN [t EXCEPT !.lines[s.focused].tab = TRUE] ELSE t

KeyEvent(s, key) ==
  LET pending == Append(s.pending, key)
      group == getBindings(s.view)
      own == GetBinding(group, pending)
      global == GetBinding(Global, pending)
      exKey == IF s.frames = <<>> THEN group.ex ELSE Global.ex
  IN IF own.found THEN simulate(s, own.output)
     ELSE IF group.globals /\ global.found THEN simulate(s, global.output)
     ELSE IF own.incomplete \/ (group.globals /\ global.incomplete)
     THEN [s EXCEPT !.pending = pending]
     ELSE LET t == [s EXCEPT !.pending = <<>>]
          IN IF key = exKey THEN BeginExCommand(t) ELSE t
Event(s, key) ==
  IF s.dialog THEN [s EXCEPT !.dialog = key \notin {"enter", "esc"}]
  ELSE IF s.focused # 0 THEN LineEvent(s, key)
  ELSE IF s.pasting THEN s
  ELSE KeyEvent(s, key)

-----------------------------------------------------------------------------
(* What the documentation says of a sequence of keys: the bindings of a    *)
(* folder come before those of an account, these before those of the view, *)
(* and the global ones last, if at all.                                    *)
Meant(view, input) ==
  LET of(group) == {i \in DOMAIN group.binds : group.binds[i].input = input}
      fits(type, value) ==
        IF view.section = "terminal" THEN <<>>
        ELSE SelectSeq(Contextual[view.section],
                       LAMBDA c : c.type = type /\ value \in c.matches)
      groups == [i \in DOMAIN fits("folder", view.folder) |->
                   Reverse(fits("folder", view.folder))[i].group]
                \o [i \in DOMAIN fits("account", view.account) |->
                   Reverse(fits("account", view.account))[i].group]
                \o <<Groups[view.section]>>
      shut == {i \in DOMAIN groups : ~groups[i].globals}
      all == IF shut = {} THEN groups \o <<Default>> ELSE SubSeq(groups, 1, Min(shut))
      having == {i \in DOMAIN all : of(all[i]) # {}}
  IN IF having = {} THEN <<>> ELSE all[Min(having)].binds[Min(of(all[Min(having)]))].output

-----------------------------------------------------------------------------
Busy == keys.frames # <<>>
(* The main goroutine has taken key in the state s. *)
Took(s, key) ==
  LET t == Event(s, key)
      bound == ~s.dialog /\ s.focused = 0 /\ ~s.pasting /\ t.pending = <<>>
      begun == Len(t.frames) > Len(s.frames)
  IN /\ keys' = t
     /\ last' = IF ~bound THEN last
                ELSE [view |-> s.view, input |-> Append(s.pending, key),
                      output |-> IF begun THEN Last(t.frames).all ELSE <<>>]
     /\ astray' = astray \cup (IF t.pending # <<>> /\ t.view # s.view THEN {"moved"} ELSE {})
                         \cup (IF Busy /\ t.at # s.at THEN {"simulated"} ELSE {})
Type(key) ==
  /\ ~Busy /\ keysLeft > 0
  /\ Took(keys, key)
  /\ keysLeft' = keysLeft - 1
  /\ UNCHANGED real
Stroke ==
  /\ Busy
  /\ LET left == Last(keys.frames).left
     IN IF left = <<>> THEN keys' = simulated(keys) /\ UNCHANGED <<last, astray>>
        ELSE Took([keys EXCEPT !.frames[Len(keys.frames)].left = Tail(@)], Head(left))
  /\ UNCHANGED <<real, keysLeft>>
ShowPrompt ==
  /\ ~Busy /\ keys.prompts # <<>>
  /\ keys' = Draw(keys)
  /\ UNCHANGED <<last, real, astray, keysLeft>>
(* A worker asks for a password, the mouse selects another tab. *)
AddDialog ==
  /\ ~Busy /\ ~keys.dialog /\ keysLeft > 0
  /\ keys' = [keys EXCEPT !.dialog = TRUE]
  /\ keysLeft' = keysLeft - 1
  /\ UNCHANGED <<last, real, astray>>
SelectTab(view) ==
  /\ ~Busy /\ keysLeft > 0 /\ view # keys.view
  /\ keys' = [keys EXCEPT !.view = view]
  /\ keysLeft' = keysLeft - 1
  /\ astray' = astray \cup (IF keys.pending # <<>> THEN {"moved"} ELSE {})
  /\ UNCHANGED <<last, real>>
(* Only what is selected hears of a paste, unless a dialog or a line does. *)
Paste(begins) ==
  /\ ~Busy /\ keysLeft > 0 /\ real # begins
  /\ real' = begins
  /\ keysLeft' = keysLeft - 1
  /\ IF keys.dialog \/ keys.focused # 0
     THEN UNCHANGED keys /\ astray' = astray \cup {"paste"}
     ELSE keys' = [keys EXCEPT !.pasting = begins] /\ UNCHANGED astray
  /\ UNCHANGED last

Init ==
  /\ \E view \in Places :
       keys = [view |-> view, pending |-> <<>>, pasting |-> FALSE, frames |-> <<>>, lines |-> <<>>,
               focused |-> 0, prompts |-> <<>>, dialog |-> FALSE, history |-> <<>>, at |-> 0]
  /\ last = [view |-> keys.view, input |-> <<>>, output |-> <<>>]
  /\ real = FALSE /\ astray = {} /\ keysLeft = MaxKeys
Next ==
  \/ \E key \in UserKeys : Type(key)
  \/ Stroke \/ ShowPrompt \/ AddDialog
  \/ \E view \in Places : SelectTab(view)
  \/ \E begins \in BOOLEAN : Paste(begins)

-----------------------------------------------------------------------------
(* Keys run the binding that is meant. An empty binding does not hide a    *)
(* global one, and a group for an account or a folder brings the global    *)
(* ones back into a view that does without.                                *)
Hides(view, input) ==
  \E i \in DOMAIN getBindings(view).binds : getBindings(view).binds[i].input = input
BoundRight ==
  last.output # Meant(last.view, last.input) =>
    /\ Meant(last.view, last.input) = <<>> /\ ~Hides(last.view, last.input)
    /\ last.output = GetBinding(Global, last.input).output

(* Keys are kept only while a binding may come of them. *)
PendingRight ==
  keys.pending # <<>> /\ "moved" \notin astray =>
    \E group \in {getBindings(keys.view), Global} :
      \E i \in DOMAIN group.binds : IsStrictPrefix(keys.pending, group.binds[i].input)

(* The keys go to the line on top of the status bar, which completes as    *)
(* soon as the user types in it.                                           *)
FocusRight ==
  /\ keys.focused = Len(keys.lines)
  /\ ~Busy /\ keys.focused # 0 => keys.lines[keys.focused].tab

(* Without a line, the history is at its end, but for strokes simulated.   *)
HistoryRight ==
  /\ keys.at \in -1..Len(keys.history)
  /\ keys.lines = <<>> /\ "simulated" \notin astray => keys.at = Len(keys.history)

(* The end of a paste is missed only when it went elsewhere. *)
PasteRight == "paste" \notin astray => keys.pasting = real

KeysRight == BoundRight /\ PendingRight /\ FocusRight /\ HistoryRight /\ PasteRight
=============================================================================
