------------------------------ MODULE TextInput -----------------------------
(***************************************************************************)
(* A line of input (lib/ui/textinput.go): the keys that edit it, and the   *)
(* completions, which goroutines find and the popover of the last drawing  *)
(* offers (lib/ui/popover.go, lib/ui/ui.go).  A text is the sequence of    *)
(* its characters.  The completer offers the words that begin with what    *)
(* follows the last space.                                                 *)
(***************************************************************************)
EXTENDS Integers, SequencesExt, FiniteSetsExt

CONSTANTS
  Chars, Separators,
  Words,         \* what the completer knows, in its order
  MinChars,      \* completion-min-chars, -1: only with the completion key
  Width,         \* cells there are for the text
  Texts,         \* what may be there at first
  MaxText, MaxKeys

VARIABLES
  ti,            \* [text, index, scroll; completions, prefix, chosen (0 none): of the popover]
  popover,       \* has the last drawing a popover?
  timer,         \* is the debouncer running?
  asks,          \* goroutines: [left, explicit, live, at: "new", "asked", "checked"]
  committed, lost,   \* the text entered at last, characters that completions took away
  astray,        \* why a completion may not fit: see InputRight
  keysLeft

inputVars == <<ti, popover, timer, asks, committed, lost, astray, keysLeft>>

NewTextInput == [text |-> <<>>, index |-> 0, scroll |-> 0, completions |-> <<>>, prefix |-> <<>>,
                 chosen |-> 0]

StringLeft(t) == SubSeq(t.text, 1, t.index)
StringRight(t) == SubSeq(t.text, t.index + 1, Len(t.text))
SetText(t, text) == [t EXCEPT !.text = text, !.index = Len(text), !.scroll = 0]

ensureScroll(t) ==
  LET s == IF t.index >= t.scroll + Width THEN t.index - Width + 1 ELSE t.scroll
  IN [t EXCEPT !.scroll = IF t.index < s THEN t.index ELSE s]
At(t, index) == ensureScroll([t EXCEPT !.index = index])
Changed(t, text, index) == ensureScroll([t EXCEPT !.text = text, !.index = index])

(* The ends of runs of characters, to the left and to the right.           *)
Back(text, i, S) ==
  IF \A j \in 1..i : text[j] \in S THEN 0 ELSE Max({j \in 1..i : text[j] \notin S})
Ahead(text, i, S) ==
  IF \A j \in (i + 1)..Len(text) : text[j] \in S THEN Len(text)
  ELSE Min({j \in (i + 1)..Len(text) : text[j] \notin S}) - 1
InWord == Chars \ (Separators \cup {" "})
wordStart(t) ==
  LET i == Back(t.text, t.index, {" "})
  IN Back(t.text, i, IF i > 0 /\ t.text[i] \in Separators THEN Separators ELSE InWord)
nextWordStart(t) ==
  LET n == Len(t.text)
      first == t.text[t.index + 1]
      i == Ahead(t.text, t.index, IF first \in Separators THEN Separators ELSE InWord)
      j == Ahead(t.text, i, {" "})
  IN IF t.index = n THEN n
     ELSE IF j = n /\ first # " " THEN Back(t.text, n, {" "}) ELSE j

-----------------------------------------------------------------------------
(* completions *)

completer(left) ==
  LET cut == Back(left, Len(left), Chars \ {" "})
      word == SubSeq(left, cut + 1, Len(left))
  IN [prefix |-> SubSeq(left, 1, cut), matches |-> SelectSeq(Words, LAMBDA w : IsPrefix(word, w))]
executeCompletion(t) ==
  IF t.completions = <<>> THEN t
  ELSE SetText(t, t.prefix \o t.completions[t.chosen] \o StringRight(t))
keepCompletions(t) == t
invalidateCompletions(t) == [t EXCEPT !.completions = <<>>]
exec(t) == invalidateCompletions(executeCompletion(t))
next(t) == [t EXCEPT !.chosen = IF @ >= Len(t.completions) THEN 0 ELSE @ + 1]
prev(t) == [t EXCEPT !.chosen = IF @ = 0 THEN Len(t.completions) ELSE @ - 1]
findStem(words) ==
  IF words = <<>> THEN <<>>
  ELSE SubSeq(words[1], 1, Max({k \in 0..Len(words[1]) :
         \A w \in ToSet(words) : IsPrefix(SubSeq(words[1], 1, k), w)}))
stem(t) ==
  LET s == findStem(t.completions)
  IN IF s = <<>> \/ t.chosen > 0 \/ Len(s) + Len(t.prefix) <= t.index THEN t
     ELSE [SetText(t, t.prefix \o s \o StringRight(t)) EXCEPT !.index = Len(t.prefix \o s)]

showCompletions(explicit) ==
  Append([i \in DOMAIN asks |-> [asks[i] EXCEPT !.live = FALSE]],
         [left |-> <<>>, explicit |-> explicit, live |-> TRUE, at |-> "new"])

(* The debouncer fires: in MinChars, only what is left of the cursor counts.*)
TimerFires ==
  /\ timer /\ timer' = FALSE
  /\ asks' = IF ti.index >= MinChars THEN showCompletions(FALSE) ELSE asks
  /\ UNCHANGED <<ti, popover, committed, lost, astray, keysLeft>>
(* The goroutine reads the text, asks, sees that it is not cancelled, and  *)
(* then waits for the lock.                                                *)
Ask(i) ==
  /\ i \in DOMAIN asks /\ asks[i].at = "new"
  /\ asks' = [asks EXCEPT ![i].at = "asked", ![i].left = StringLeft(ti)]
  /\ UNCHANGED <<ti, popover, timer, committed, lost, astray, keysLeft>>
Check(i) ==
  /\ i \in DOMAIN asks /\ asks[i].at = "asked"
  /\ asks' = IF asks[i].live THEN [asks EXCEPT ![i].at = "checked"] ELSE RemoveAt(asks, i)
  /\ UNCHANGED <<ti, popover, timer, committed, lost, astray, keysLeft>>
Offer(i) ==
  /\ i \in DOMAIN asks /\ asks[i].at = "checked"
  /\ LET found == completer(asks[i].left)
         t == [ti EXCEPT !.completions = found.matches, !.prefix = found.prefix, !.chosen = 0]
         only == asks[i].explicit /\ Len(found.matches) = 1
     IN /\ ti' = IF only THEN exec([t EXCEPT !.chosen = 1]) ELSE t
        /\ lost' = IF only /\ ~IsPrefix(StringLeft(ti), found.prefix \o found.matches[1])
                   THEN StringLeft(ti) ELSE lost
        /\ astray' = astray \cup (IF asks[i].left # StringLeft(ti) THEN {"late"} ELSE {})
  /\ asks' = RemoveAt(asks, i)
  /\ UNCHANGED <<popover, timer, committed, keysLeft>>

-----------------------------------------------------------------------------
(* events *)

Edited(t, key) ==
  LET n == Len(t.text) i == t.index IN
  CASE key \in Chars -> Changed(t, StringLeft(t) \o <<key>> \o StringRight(t), i + 1)
    [] key = "backspace" /\ i > 0 -> Changed(t, RemoveAt(t.text, i), i - 1)
    [] key = "delete" /\ i < n -> Changed(t, RemoveAt(t.text, i + 1), i)
    [] key = "left" /\ i > 0 -> At(t, i - 1)
    [] key = "right" /\ i < n -> At(t, i + 1)
    [] key = "word left" -> At(t, wordStart(t))
    [] key = "word right" -> At(t, nextWordStart(t))
    [] key = "home" -> At(t, 0)
    [] key = "end" -> At(t, n)
    [] key = "kill" /\ i < n -> Changed(t, StringLeft(t), i)
    [] key = "kill word" /\ i > 0 ->
         Changed(t, SubSeq(t.text, 1, wordStart(t)) \o StringRight(t), wordStart(t))
    [] key = "kill back" /\ i > 0 -> Changed(t, StringRight(t), 0)
    [] OTHER -> t
(* onChange, but not after what only moves. *)
Changes(t, key) == Edited(t, key).text # t.text

(* The popover that was drawn sees the keys first, even if its completions *)
(* are gone since. *)
PopoverTakes(key) ==
  popover /\ (key \in {"tab", "down", "up"} \/ (key = "enter" /\ ti.chosen > 0))
PopoverEvent(key) ==
  CASE key = "tab" -> IF Len(ti.completions) = 1 THEN exec([ti EXCEPT !.chosen = 1]) ELSE next(stem(ti))
    [] key = "down" -> next(ti)
    [] key = "up" -> prev(ti)
    [] key = "enter" -> exec(ti)
Press(key) ==
  /\ keysLeft > 0
  /\ keysLeft' = keysLeft - 1
  /\ Len(ti.text) < MaxText \/ key \notin Chars
  /\ IF PopoverTakes(key)
     THEN /\ ti' = PopoverEvent(key)
          /\ astray' = astray \cup (IF ti.completions = <<>> THEN {"undrawn"} ELSE {})
          /\ lost' = IF PopoverEvent(key).text # ti.text
                        /\ ~IsPrefix(StringLeft(ti), PopoverEvent(key).text)
                     THEN StringLeft(ti) ELSE lost
          /\ UNCHANGED <<timer, asks, committed>>
     ELSE IF key = "tab"
     THEN /\ asks' = showCompletions(TRUE)
          /\ UNCHANGED <<ti, timer, committed, lost, astray>>
     ELSE IF key = "enter"
     THEN /\ committed' = ti.text
          /\ ti' = NewTextInput /\ asks' = <<>> /\ timer' = FALSE
          /\ UNCHANGED <<lost, astray>>
     ELSE /\ ti' = Edited(invalidateCompletions(ti), key)
          /\ timer' = (timer \/ (Changes(ti, key) /\ MinChars # -1))
          /\ UNCHANGED <<asks, committed, lost, astray>>
  /\ UNCHANGED popover
(* A click moves the cursor, counting from the prompt. *)
Click(index) ==
  /\ keysLeft > 0
  /\ keysLeft' = keysLeft - 1
  /\ index \in 0..(Len(ti.text) - ti.scroll)
  /\ ti' = At(ti, index)
  /\ astray' = astray \cup {"clicked"}
  /\ UNCHANGED <<popover, timer, asks, committed, lost>>
Draw ==
  /\ ti' = ensureScroll(ti)
  /\ popover' = (ti.completions # <<>>)
  /\ UNCHANGED <<timer, asks, committed, lost, astray, keysLeft>>

Init ==
  /\ \E text \in Texts : ti = SetText(NewTextInput, text)
  /\ popover = FALSE /\ timer = FALSE /\ asks = <<>>
  /\ committed = <<>> /\ lost = <<>> /\ astray = {} /\ keysLeft = MaxKeys
Next ==
  \/ \E key \in Chars \cup {"backspace", "delete", "left", "right", "word left", "word right",
                            "home", "end", "kill", "kill word", "kill back", "tab", "enter",
                            "down", "up"} : Press(key)
  \/ \E index \in 0..MaxText : Click(index)
  \/ TimerFires \/ Draw
  \/ \E i \in DOMAIN asks : Ask(i) \/ Check(i) \/ Offer(i)

-----------------------------------------------------------------------------
(* The cursor and the scrolling stay in the text, and a completion is in   *)
(* the list when it is used.                                               *)
CursorRight ==
  /\ ti.index \in 0..Len(ti.text) /\ ti.scroll \in 0..Len(ti.text)
  /\ ti.completions # <<>> => ti.chosen \in 0..Len(ti.completions)

(* Deleting or moving by words agree with each other: what is passed over  *)
(* to the left holds one word or one run of separators.                    *)
WordsRight ==
  LET passed == SubSeq(ti.text, wordStart(ti) + 1, ti.index)
      word == SelectSeq(passed, LAMBDA c : c # " ")
  IN /\ ti.index > 0 => wordStart(ti) < ti.index
     /\ ti.index < Len(ti.text) => nextWordStart(ti) > ti.index
     /\ ToSet(word) \subseteq Separators \/ ToSet(word) \cap Separators = {}

(* What is offered continues what is left of the cursor, and no completion *)
(* takes away what was typed, unless it came after another key or the      *)
(* cursor was moved by a click.                                            *)
OffersFit ==
  astray \cap {"late", "clicked"} = {} =>
    /\ lost = <<>>
    /\ \A w \in ToSet(ti.completions) :
         ti.chosen = 0 => IsPrefix(StringLeft(ti), ti.prefix \o w)

(* At most one goroutine is still to offer its completions. *)
OneAsks == Cardinality({i \in DOMAIN asks : asks[i].live}) <= 1

InputRight == CursorRight /\ WordsRight /\ OffersFit /\ OneAsks
=============================================================================
