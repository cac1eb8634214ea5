--------------------------- MODULE ComposeFields ---------------------------
(***************************************************************************)
(* The form of one composer (app/compose.go): header editors, the text     *)
(* editor in its terminal, the file between them, the review screen, the   *)
(* focus, the account and the security settings, under the commands of     *)
(* commands/compose.                                                       *)
(*                                                                         *)
(* A header has up to four copies: the mail.Header, the input of its       *)
(* editor, its line in the file when headers are edited there, and what    *)
(* the user has seen last.  The value of a header is a set of addresses,   *)
(* {} when the header is absent or empty.  Rows of the layout, completion, *)
(* titles, the mouse and drawing are left out; the lock of the composer     *)
(* makes every operation atomic.  A command comes from another process, or *)
(* from the command line, which takes the focus first (Leave) and gives it *)
(* back (Return).                                                          *)
(***************************************************************************)
EXTENDS Integers, Sequences, SequencesExt

CONSTANTS
  Accounts,      \* the accounts, each its own sender address
  Rcpts,         \* other addresses
  HasKey,        \* addresses with a key in the keyring
  Extra,         \* a header without a place in the configured layout
  Touched,       \* the headers that commands and the text editor change
  FocusBody,     \* [compose] focus-body
  Drafts,        \* what composers start with: Cc, headers in the file, steps spent
  MaxCommands    \* bound on the steps of the user; those about security count twice

ConfigLayout == <<"to", "from">>
Headers == {"from", "to", "cc", Extra}

VARIABLES
  header,       \* c.header
  input,        \* c.editors: the text of each header editor
  layout,       \* c.layout, flattened
  focusable,    \* c.focusable: header editors and, last, the terminal
  focused,      \* c.focused
  cursor,       \* the header editor whose input has the focus, or "none"
  storing,      \* headers whose editor stores all editors when it loses the focus
  term,         \* c.editor # nil
  review,       \* c.review # nil
  editHeaders,  \* c.editHeaders
  file,         \* the header lines of the file; NoLines without any
  seen,         \* what the user has entered or seen last in the form
  crypto,       \* sign, encrypt, the status line, the watched editors, attachKey, keys
  form_acct,    \* c.acct
  open,         \* the composer's tab is open
  careless,     \* history: headers typed in an editor that may leave its text unstored
  untold,        \* history: headers of which the file was not told the last text
  commands

vars == <<header, input, layout, focusable, focused, cursor, storing, term, review,
          editHeaders, file, seen, crypto, form_acct, open, careless, untold, commands>>

Terminal == "terminal"
NoLines == [h \in {} |-> {}]
Put(f, h, v) == [x \in DOMAIN f \cup {h} |-> IF x = h THEN v ELSE f[x]]
Without(f, h) == [x \in DOMAIN f \ {h} |-> f[x]]

(* Deliberate bug: the editors are not stored. *)
StoredNothing == header

(* PrepareHeader: every editor stores its text in the header. *)
Stored == [h \in Headers |-> IF h \in DOMAIN input THEN input[h] ELSE header[h]]

-----------------------------------------------------------------------------
(* Security.                                                               *)

Status(s, e) == <<s, e>>

(* checkEncryptionKeys: without an opportunistic account every missing key *)
(* is an error and the answer is true all the same.                        *)
CanEncrypt(h) ==
  LET rcpts == h["to"] \cup h["cc"] IN rcpts # {} /\ rcpts \subseteq HasKey

checkEncryptionKeys(cr, h) ==
  [cr EXCEPT !.encrypt = CanEncrypt(h), !.status = Status(cr.sign, CanEncrypt(h))]

(* SetEncrypt: the answer of checkEncryptionKeys is kept, the status line  *)
(* shows what it found, and the first call watches the editors of          *)
(* recipients.                                                             *)
SetEncrypt(cr, on, h) ==
  IF on
  THEN [checkEncryptionKeys(cr, h) EXCEPT
         !.encrypt = TRUE,
         !.watched = IF cr.oneShot THEN {"to", "cc"} \cap DOMAIN input ELSE @,
         !.oneShot = FALSE]
  ELSE [cr EXCEPT !.encrypt = FALSE, !.status = Status(cr.sign, FALSE)]

-----------------------------------------------------------------------------
(* Layout and focus.                                                       *)

(* buildComposeHeader: the configured layout, and Cc when the header has it; From comes first. *)
Built(h) == IF h["cc"] # {} THEN Append(ConfigLayout, "cc") ELSE ConfigLayout

FocusOrder(l) == <<"from">> \o SelectSeq(l, LAMBDA h : h # "from")

Clip(i, s) == IF i >= Len(s) THEN Len(s) - 1 ELSE i

FocusedWidget ==
  IF focused < 0 \/ focused >= Len(focusable) THEN "none" ELSE focusable[focused + 1]

(* focusActiveWidget(FALSE): only editors of the configured layout store    *)
(* all editors when they lose the focus; the check of the keys, which       *)
(* watched editors make, does so too.                                       *)
FocusLost ==
  /\ header' = IF cursor \in storing \cup crypto.watched THEN Stored ELSE header
  /\ crypto' = IF cursor \in crypto.watched THEN checkEncryptionKeys(crypto, Stored) ELSE crypto

(* The lines that setContents writes, from the header and not from the editors. *)
Lines(h, l) == [x \in {y \in Range(l) : h[y] # {}} |-> h[x]]

(* A message to nobody yet, or a reply to all, its headers in the form or in the file. *)
Init ==
  /\ form_acct \in {CHOOSE a \in Accounts : TRUE}
  /\ \E d \in Drafts :
        /\ header = [h \in Headers |-> CASE h = "from" -> {form_acct}
                                       [] h = "cc" -> d.cc
                                       [] OTHER -> {}]
        /\ editHeaders = d.edit
        /\ commands = d.spent
  /\ seen = header
  /\ layout = Built(header)
  /\ input = [h \in Range(layout) |-> header[h]]
  /\ storing = Range(ConfigLayout)
  /\ focusable = Append(FocusOrder(layout), Terminal)
  /\ focused = IF FocusBody \/ editHeaders THEN Len(layout) ELSE 1
  /\ cursor = "none"
  /\ term = TRUE /\ review = FALSE
  /\ file = IF editHeaders THEN Lines(header, layout) ELSE NoLines
  /\ crypto = [sign |-> FALSE, encrypt |-> FALSE, status |-> Status(FALSE, FALSE),
               watched |-> {}, oneShot |-> TRUE, attachKey |-> FALSE, signKey |-> "",
               keys |-> <<>>]
  /\ open = TRUE /\ careless = {} /\ untold = {}

Command == open /\ commands < MaxCommands /\ commands' = commands + 1
Security == open /\ commands + 1 < MaxCommands /\ commands' = commands + 2

-----------------------------------------------------------------------------
(* Typing and moving.                                                      *)

(* The user types in the focused header editor: what he enters is stored when *)
(* that editor loses the focus, if it does so and has it.                     *)
Type(v) ==
  /\ Command /\ term /\ FocusedWidget \in DOMAIN input
  /\ input' = [input EXCEPT ![FocusedWidget] = v]
  /\ seen' = IF editHeaders THEN seen ELSE [seen EXCEPT ![FocusedWidget] = v]
  /\ careless' = IF FocusedWidget \in storing /\ cursor = FocusedWidget THEN careless
                 ELSE careless \cup {FocusedWidget}
  /\ UNCHANGED <<header, layout, focusable, focused, cursor, storing, term, review,
                 editHeaders, file, crypto, form_acct, open, untold>>

(* The user changes a line of the header in the text editor, or deletes it. *)
TypeInFile(h, v) ==
  /\ Command /\ term /\ editHeaders /\ FocusedWidget = Terminal
  /\ v = {} => h \in DOMAIN file
  /\ file' = IF v = {} THEN Without(file, h) ELSE Put(file, h, v)
  /\ seen' = [seen EXCEPT ![h] = v]
  /\ UNCHANGED <<header, input, layout, focusable, focused, cursor, storing, term, review,
                 editHeaders, crypto, form_acct, open, careless, untold>>

(* Composer.Focus: the command line or another tab takes the focus, and gives it back. *)
Leave ==
  /\ Command /\ term /\ cursor # "none" /\ FocusedWidget = cursor
  /\ FocusLost /\ cursor' = "none"
  /\ UNCHANGED <<input, layout, focusable, focused, storing, term, review, editHeaders, file,
                 seen, form_acct, open, careless, untold>>

Return ==
  /\ open /\ term /\ FocusedWidget \in DOMAIN input /\ cursor # FocusedWidget
  /\ cursor' = FocusedWidget
  /\ UNCHANGED <<header, input, layout, focusable, focused, storing, term, review,
                 editHeaders, file, seen, crypto, form_acct, open, careless, untold, commands>>

(* The input that has the focus once the widget at i of s got it. *)
CursorAt(i, s) ==
  IF i \in 0 .. Len(s) - 1 /\ s[i + 1] # Terminal THEN s[i + 1] ELSE "none"

(* NextField and PrevField *)
MoveTo(i) ==
  /\ Command /\ term /\ ~editHeaders
  /\ FocusLost
  /\ focused' = i /\ cursor' = CursorAt(i, focusable)
  /\ UNCHANGED <<input, layout, focusable, storing, term, review, editHeaders, file, seen,
                 form_acct, open, careless, untold>>

NextField == MoveTo((focused + 1) % Len(focusable))
PrevField == MoveTo(IF focused = 0 THEN Len(focusable) - 1 ELSE focused - 1)

-----------------------------------------------------------------------------
(* Header editors.                                                         *)

(* addEditor: an editor that exists is flushed, a new one comes before the terminal. *)
Added(lay, foc, h) ==
  IF h \in Range(lay) THEN [layout |-> lay, focusable |-> foc]
  ELSE [layout |-> Append(lay, h),
        focusable |-> IF term' /\ foc # <<>>
                      THEN InsertAt(foc, Len(foc), h) ELSE Append(foc, h)]

(* :header -f, :cc and :bcc (append), on the header hd: an empty value moves *)
(* the focus to the editor.                                                  *)
AddEditorTo(hd, h, v, append) ==
  LET old   == IF h \in DOMAIN input THEN input[h] ELSE hd[h]
      new   == IF append THEN old \cup v ELSE v
      kept  == IF new # {} THEN new ELSE old
      a     == Added(layout, focusable, h)
      loses == IF new = {} THEN cursor ELSE "none"
      place == SelectInSeq(a.focusable, LAMBDA w : w = h) - 1
  IN /\ Command /\ ~(editHeaders /\ term)
     /\ UNCHANGED term
     /\ layout' = a.layout /\ focusable' = a.focusable
     /\ input' = Put(input, h, kept)
     /\ header' = [(IF loses \in storing \cup crypto.watched THEN Stored ELSE hd)
                   EXCEPT ![h] = kept]
     /\ seen' = [seen EXCEPT ![h] = kept]
     /\ focused' = IF new = {} THEN place ELSE focused
     /\ cursor' = IF new = {} THEN h ELSE cursor
     /\ crypto' = IF loses \in crypto.watched
                  THEN checkEncryptionKeys(crypto, header') ELSE crypto
     /\ UNCHANGED <<storing, review, editHeaders, file, form_acct, open, careless, untold>>

AddEditor(h, v, append) == AddEditorTo(header, h, v, append)

(* :header without -f stores all editors first and refuses to replace a value. *)
AddHeader(h, v) ==
  \/ /\ v = {} \/ Stored[h] = {}
     /\ AddEditorTo(Stored, h, v, FALSE)
  \/ /\ v # {} /\ Stored[h] # {}
     /\ Command /\ header' = Stored
     /\ UNCHANGED <<input, layout, focusable, focused, cursor, storing, term, review,
                    editHeaders, file, seen, crypto, form_acct, open, careless, untold>>

(* delEditor, for one header: the focus moves up when the editor was at or above it. *)
Deleted(s, h) ==
  LET i == SelectInSeq(s.focusable, LAMBDA w : w = h) - 1
  IN [header    |-> [s.header EXCEPT ![h] = {}],
      input     |-> Without(s.input, h),
      layout    |-> SelectSeq(s.layout, LAMBDA x : x # h),
      focusable |-> SelectSeq(s.focusable, LAMBDA x : x # h),
      focused   |-> IF i >= 0 /\ s.focused > 0 /\ s.focused >= i
                    THEN s.focused - 1 ELSE s.focused]

Form == [header |-> header, input |-> input, layout |-> layout,
         focusable |-> focusable, focused |-> focused]

(* :header -d; the widget that has the focus then gets it. *)
DelEditor(h) ==
  LET s == Deleted(Form, h)
  IN /\ Command /\ ~(editHeaders /\ term)
     /\ header' = s.header /\ input' = s.input /\ layout' = s.layout
     /\ focusable' = s.focusable /\ focused' = s.focused
     /\ cursor' = IF h \in DOMAIN input THEN CursorAt(s.focused, s.focusable) ELSE cursor
     /\ storing' = storing \ {h}
     /\ seen' = [seen EXCEPT ![h] = {}]
     /\ crypto' = [crypto EXCEPT !.watched = @ \ {h}]
     /\ UNCHANGED <<term, review, editHeaders, file, form_acct, open, careless, untold>>

-----------------------------------------------------------------------------
(* The text editor and the review.                                         *)

(* :edit.  The file is rewritten from the header, before the terminal takes the *)
(* focus.                                                                       *)
ShowTerminal(withHeaders) ==
  /\ Command /\ ~term
  /\ editHeaders' = withHeaders
  /\ file' = IF withHeaders THEN Lines(header, layout) ELSE NoLines
  /\ untold' = IF withHeaders THEN untold \cup careless ELSE untold
  /\ term' = TRUE /\ review' = FALSE
  /\ focusable' = Append(focusable, Terminal)
  /\ FocusLost /\ cursor' = "none"
  /\ focused' = Len(focusable)
  /\ UNCHANGED <<input, layout, storing, seen, form_acct, open, careless>>

(* termClosed when the editor has failed: the tab is removed. *)
EditorFails ==
  /\ Command /\ term
  /\ open' = FALSE /\ term' = FALSE
  /\ focusable' = Front(focusable)
  /\ focused' = Clip(focused, Front(focusable))
  /\ UNCHANGED <<header, input, layout, cursor, storing, review, editHeaders, file, seen,
                 crypto, form_acct, careless, untold>>

(* termClosed when the headers of the file do not parse: the editor opens again. *)
EditorReopens ==
  /\ Command /\ term /\ editHeaders
  /\ FocusLost /\ cursor' = "none"
  /\ focused' = Len(focusable) - 1
  /\ UNCHANGED <<input, layout, focusable, storing, term, review, editHeaders, file, seen,
                 form_acct, open, careless, untold>>

(* termClosed: with headers in the file, the editors are deleted in the     *)
(* order of the layout and added again in that of the file; the value of a  *)
(* header goes from the file to the editor and from there to the header.    *)
(* None of these editors stores what is typed in it later.                  *)
EditorCloses ==
  LET closed  == [Form EXCEPT !.focusable = Front(@), !.focused = Clip(@, Front(focusable))]
      emptied == FoldSeq(LAMBDA h, s : Deleted(s, h), closed, Reverse(layout))
      lines   == SetToSeq(DOMAIN file)
  IN /\ Command /\ term
     /\ term' = FALSE /\ review' = TRUE
     /\ IF editHeaders
        THEN /\ header' = [h \in Headers |->
                             IF h \in DOMAIN file THEN file[h] ELSE emptied.header[h]]
             /\ input' = file
             /\ layout' = lines
             /\ focusable' = lines
             /\ focused' = emptied.focused
             /\ cursor' = "none" /\ storing' = {}
             /\ crypto' = [crypto EXCEPT !.watched = {}]
             /\ UNCHANGED careless
        ELSE /\ focusable' = closed.focusable /\ focused' = closed.focused
             /\ careless' = IF cursor = "none" THEN careless ELSE careless \cup {cursor}
             /\ UNCHANGED <<header, input, layout, cursor, storing, crypto>>
     /\ file' = NoLines
     /\ UNCHANGED <<editHeaders, seen, form_acct, open, untold>>

-----------------------------------------------------------------------------
(* Account and security commands.                                          *)

(* :switch-account: editors and layout are rebuilt, the focused index and   *)
(* the terminal are kept, security starts anew; the file is not rewritten,  *)
(* and a header that loses its editor is deleted no more.                   *)
SwitchAccount(a) ==
  LET h == [Stored EXCEPT !["from"] = {a}]
      l == Built(h)
      f == FocusOrder(l) \o (IF term THEN <<Terminal>> ELSE <<>>)
  IN /\ Command /\ form_acct' = a
     /\ header' = h /\ layout' = l
     /\ input' = [x \in Range(l) |-> h[x]]
     /\ focusable' = f /\ focused' = Clip(focused, f)
     /\ cursor' = "none" /\ storing' = Range(ConfigLayout)
     /\ seen' = [seen EXCEPT !["from"] = IF term /\ editHeaders THEN @ ELSE {a}]
     /\ untold' = IF term /\ editHeaders THEN untold \cup (Range(layout) \ Range(l)) ELSE untold
     /\ crypto' = [crypto EXCEPT !.sign = FALSE, !.encrypt = FALSE, !.signKey = "",
                                 !.status = Status(FALSE, FALSE),
                                 !.watched = {}, !.oneShot = TRUE]
     /\ UNCHANGED <<term, review, editHeaders, file, open, careless>>

(* :sign.  Signer reads the header, not the editor; without a key the old setting stays. *)
SetSign ==
  LET signer == IF header["from"] = {} THEN form_acct
                ELSE CHOOSE x \in header["from"] : TRUE
  IN /\ Security /\ (crypto.sign \/ signer \in HasKey)
     /\ crypto' = IF crypto.sign
                  THEN [crypto EXCEPT !.sign = FALSE, !.status = Status(FALSE, crypto.encrypt)]
                  ELSE [crypto EXCEPT !.sign = TRUE, !.status = Status(TRUE, crypto.encrypt),
                                      !.signKey = signer]
     /\ UNCHANGED <<header, input, layout, focusable, focused, cursor, storing, term, review, editHeaders,
                    file, seen, form_acct, open, careless, untold>>

(* :encrypt *)
ToggleEncrypt ==
  /\ Security
  /\ header' = IF crypto.encrypt THEN header ELSE Stored
  /\ crypto' = SetEncrypt(crypto, ~crypto.encrypt, Stored)
  /\ UNCHANGED <<input, layout, focusable, focused, cursor, storing, term, review, editHeaders, file, seen,
                 form_acct, open, careless, untold>>

(* :attach-key.  The attachment to delete is looked for by the key of the signature. *)
SetAttachKey ==
  LET key == IF crypto.signKey = "" THEN form_acct ELSE crypto.signKey
  IN /\ Security
     /\ crypto' = IF crypto.attachKey
                  THEN [crypto EXCEPT !.attachKey = FALSE, !.keys = Remove(@, crypto.signKey)]
                  ELSE [crypto EXCEPT !.attachKey = TRUE, !.signKey = key,
                                      !.keys = Append(@, key)]
     /\ (crypto.attachKey \/ key \in HasKey)
     /\ UNCHANGED <<header, input, layout, focusable, focused, cursor, storing, term, review, editHeaders,
                    file, seen, form_acct, open, careless, untold>>

(* :send and :postpone prepare the header; the tab is left. *)
Send ==
  /\ Command /\ review
  /\ header' = Stored /\ open' = FALSE
  /\ UNCHANGED <<input, layout, focusable, focused, cursor, storing, term, review, editHeaders, file, seen,
                 crypto, form_acct, careless, untold>>

Next ==
  \/ \E r \in Rcpts :
        \/ Type({r})
        \/ \E h \in Touched : TypeInFile(h, {r}) \/ AddHeader(h, {r})
        \/ AddEditor("cc", {r}, TRUE)
        \/ AddEditor(Extra, {r}, FALSE)
  \/ Type({})
  \/ AddEditor("cc", {}, FALSE) \/ AddEditor(Extra, {}, FALSE)
  \/ Leave \/ Return
  \/ \E h \in Touched : TypeInFile(h, {}) \/ DelEditor(h)
  \/ NextField \/ PrevField
  \/ \E b \in BOOLEAN : ShowTerminal(b)
  \/ EditorFails \/ EditorReopens \/ EditorCloses
  \/ \E a \in Accounts : SwitchAccount(a)
  \/ SetSign \/ ToggleEncrypt \/ SetAttachKey
  \/ Send

Spec == Init /\ [][Next]_vars

-----------------------------------------------------------------------------
(* One editor and one place in the focus order for each header of the      *)
(* layout, the terminal last and only while the text editor runs, and a    *)
(* widget with the focus as long as there is a choice: adding, deleting,   *)
(* switching accounts and closing the editor rebuild all of them.          *)
FieldsAgree ==
  /\ DOMAIN input = Range(layout)
  /\ Range(focusable) = DOMAIN input \cup (IF term THEN {Terminal} ELSE {})
  /\ Len(focusable) = Len(layout) + (IF term THEN 1 ELSE 0)
  /\ term => Last(focusable) = Terminal
  /\ open /\ term /\ Len(focusable) > 1 => FocusedWidget # "none"

(* What is sent is what the user has seen: on the review screen, for every *)
(* header, in the form or not, the header that PrepareHeader makes has the *)
(* value entered last, through editors, file, commands or a change of      *)
(* account.  Left out is a header that stores nothing by itself: one typed *)
(* in an editor that a command, the file or a reply has added, or that had *)
(* the focus when the text editor ended, once :edit has written the header *)
(* without that text to the file; and one that lost its editor to a change *)
(* of account while its line was edited.                                   *)
SentAsSeen ==
  open /\ review => \A h \in Headers \ untold : Stored[h] = seen[h]
=============================================================================
