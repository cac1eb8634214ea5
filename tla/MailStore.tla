----------------------------- MODULE MailStore -----------------------------
(***************************************************************************)
(* What a worker promises about the mail of an account, whatever keeps it: *)
(* the folders change only as the answers say.  A message leaves a folder  *)
(* when it was reported deleted or moved there, or when somebody other     *)
(* than aerc removed it, and a moved message is in the folder it was moved *)
(* to; nothing else makes mail disappear.                                  *)
(*                                                                         *)
(* The backends share this contract through the messages of                *)
(* worker/types/messages.go: MessagesDeleted, MessagesMoved,               *)
(* MessagesCopied and Done.                                                *)
(***************************************************************************)
EXTENDS FiniteSets

CONSTANTS Folders, Messages

VARIABLES
  mail,    \* the messages of each folder
  answer   \* the last answer of the worker: what was done, where and to which messages

Answer(kind, from, to, done) == [kind |-> kind, from |-> from, to |-> to, done |-> done]
Nothing == Answer("nothing", "", "", {})

Init ==
  /\ mail \in [Folders -> SUBSET Messages]
  /\ answer = Nothing

(* Another program, or the server, changes a folder. *)
Foreign(f) ==
  /\ \E S \in SUBSET Messages : mail' = [mail EXCEPT ![f] = S]
  /\ answer' = Answer("foreign", f, f, {})

Deleted(f, S) ==
  /\ S \subseteq mail[f]
  /\ mail' = [mail EXCEPT ![f] = @ \ S]
  /\ answer' = Answer("deleted", f, f, S)

Moved(f, g, S) ==
  /\ S \subseteq mail[f]
  /\ mail' = IF f = g THEN mail ELSE [mail EXCEPT ![f] = @ \ S, ![g] = @ \cup S]
  /\ answer' = Answer("moved", f, g, S)

(* Copies and appended messages: the folder gains them and loses nothing. *)
Added(g, S) ==
  /\ mail' = [mail EXCEPT ![g] = @ \cup S]
  /\ answer' = Answer("added", g, g, S)

(* Opening, listing, creating or flagging changes no folder. *)
Unchanged ==
  /\ UNCHANGED mail
  /\ answer' = Nothing

(* RemoveDirectory *)
Removed(f) ==
  /\ mail' = [mail EXCEPT ![f] = {}]
  /\ answer' = Answer("removed", f, f, {})

Next ==
  \/ Unchanged
  \/ \E f \in Folders : Foreign(f) \/ Removed(f)
  \/ \E f \in Folders, S \in SUBSET Messages :
        Deleted(f, S) \/ Added(f, S) \/ \E g \in Folders : Moved(f, g, S)

Spec == Init /\ [][Next]_<<mail, answer>>
=============================================================================
