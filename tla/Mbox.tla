------------------------------- MODULE Mbox -------------------------------
(***************************************************************************)
(* The mbox worker (worker/mbox).  The files are read once, when the       *)
(* worker is configured, and every change stays in memory.  A message is   *)
(* known by the hash of its contents, so equal messages of a folder share  *)
(* one UID; here a message is that UID.                                    *)
(*                                                                         *)
(* md.mailboxes maps names to containers and w.folder points at the        *)
(* container of the folder opened last, even when the name has been given  *)
(* another container since.  Counts, searches and bodies are left out.     *)
(***************************************************************************)
EXTENDS Naturals, Sequences, SequencesExt, FiniteSets, Sublists

CONSTANTS
  Names,        \* folder names
  Files,        \* the folders read from files: a function from names to messages
  Contents,     \* contents of messages
  MaxActions    \* bound on the actions of the user

VARIABLES
  boxes,        \* md.mailboxes: from names to containers
  containers,   \* the messages of each container ever made, in order
  folder,       \* w.folder, 0 before the first opening
  box_name,     \* w.name
  box_answer,   \* what the worker has told last
  actions

vars == <<boxes, containers, folder, box_name, box_answer, actions>>

Mail(b, c) == [n \in Names |-> IF n \in DOMAIN b THEN Range(c[b[n]]) ELSE {}]

Store == INSTANCE MailStore
  WITH Folders <- Names, Messages <- Contents, mail <- Mail(boxes, containers),
       answer <- box_answer

(* createMailboxContainer: one container for each file. *)
Init ==
  /\ LET order == SetToSeq(DOMAIN Files)
     IN /\ boxes = [n \in DOMAIN Files |-> CHOOSE i \in DOMAIN order : order[i] = n]
        /\ containers = [i \in DOMAIN order |-> Files[order[i]]]
  /\ folder = 0 /\ box_name = ""
  /\ box_answer = Store!Nothing
  /\ actions = 0

Act == actions < MaxActions /\ actions' = actions + 1

FolderMail == Mail(boxes, containers)

(* w.dir: an unknown name stands for the folder opened last. *)
dir(n) == IF n \in DOMAIN boxes THEN boxes[n] ELSE folder

(* md.Create: the name gets a new container. *)
Create(n) ==
  /\ containers' = Append(containers, <<>>)
  /\ boxes' = [x \in DOMAIN boxes \cup {n} |->
                 IF x = n THEN Len(containers) + 1 ELSE boxes[x]]

(* md.Copy: the messages of the source at the start, in its order. *)
Copied(src, dest, S) == [containers EXCEPT ![dest] = @ \o Those(containers[src], S)]

-----------------------------------------------------------------------------
OpenDirectory(n) ==
  /\ Act
  /\ box_name' = n
  /\ IF n \in DOMAIN boxes
     THEN folder' = boxes[n] /\ UNCHANGED <<boxes, containers>>
     ELSE Create(n) /\ folder' = boxes'[n]
  /\ box_answer' = Store!Nothing

(* The name may have a container already; store.Append of the message store sends this. *)
CreateDirectory(n) ==
  /\ Act
  /\ Create(n)
  /\ box_answer' = Store!Nothing
  /\ UNCHANGED <<folder, box_name>>

RemoveDirectory(n) ==
  /\ Act
  /\ boxes' = [x \in DOMAIN boxes \ {n} |-> boxes[x]]
  /\ box_answer' = Store!Answer("removed", n, n, {})
  /\ UNCHANGED <<containers, folder, box_name>>

DeleteMessages(n, S) ==
  /\ Act /\ dir(n) # 0 /\ S # {}
  /\ containers' = [containers EXCEPT ![dir(n)] = Without(@, S)]
  /\ box_answer' = Store!Answer("deleted", n, n, S \cap Range(containers[dir(n)]))
  /\ UNCHANGED <<boxes, folder, box_name>>

(* md.Copy wants both folders; without one of them a copy or a move is an error. *)
Refused(src, dest) ==
  /\ Act /\ ~({src, dest} \subseteq DOMAIN boxes)
  /\ box_answer' = Store!Nothing
  /\ UNCHANGED <<boxes, containers, folder, box_name>>

CopyMessages(src, dest, S) ==
  /\ Act /\ {src, dest} \subseteq DOMAIN boxes /\ S # {}
  /\ containers' = Copied(boxes[src], boxes[dest], S)
  /\ box_answer' = Store!Answer("added", dest, dest, S \cap Range(containers[boxes[src]]))
  /\ UNCHANGED <<boxes, folder, box_name>>

(* MoveMessages copies and then deletes from the source. *)
MoveMessages(src, dest, S) ==
  /\ Act /\ {src, dest} \subseteq DOMAIN boxes /\ S # {}
  /\ LET copied == Copied(boxes[src], boxes[dest], S)
     IN containers' = [copied EXCEPT ![boxes[src]] = Without(@, S)]
  /\ box_answer' = Store!Answer("moved", src, dest, S \cap Range(containers[boxes[src]]))
  /\ UNCHANGED <<boxes, folder, box_name>>

AppendMessage(n, m) ==
  /\ Act
  /\ IF n \in DOMAIN boxes
     THEN containers' = [containers EXCEPT ![boxes[n]] = Append(@, m)] /\ UNCHANGED boxes
     ELSE /\ boxes' = [x \in DOMAIN boxes \cup {n} |->
                         IF x = n THEN Len(containers) + 1 ELSE boxes[x]]
          /\ containers' = Append(containers, <<m>>)
  /\ box_answer' = Store!Answer("added", n, n, {m})
  /\ UNCHANGED <<folder, box_name>>

Next ==
  \/ \E n \in Names : OpenDirectory(n) \/ CreateDirectory(n) \/ RemoveDirectory(n)
  \/ \E n \in Names, S \in SUBSET Contents :
        \/ DeleteMessages(n, S)
        \/ \E d \in Names : CopyMessages(n, d, S) \/ MoveMessages(n, d, S)
  \/ \E n, d \in Names : Refused(n, d)
  \/ \E n \in Names, m \in Contents : AppendMessage(n, m)

Spec == Init /\ [][Next]_vars

-----------------------------------------------------------------------------
(* What the worker does against the contract of a mail store, step by step. *)

(* A folder that exists is created: its messages are gone, and nothing is said. *)
CreatedAgain(n) ==
  /\ n \in DOMAIN boxes
  /\ FolderMail' = [FolderMail EXCEPT ![n] = {}]
  /\ box_answer' = Store!Nothing

(* Messages moved to the folder they are in are copied there and then deleted, copies and all. *)
MovedOntoItself(n, S) ==
  /\ FolderMail' = [FolderMail EXCEPT ![n] = @ \ S]
  /\ box_answer' = Store!Answer("moved", n, n, S)

(* A deletion that names a folder that does not exist deletes the messages of the folder opened
   last, and of no other. *)
Strayed(n, S) ==
  /\ n \notin DOMAIN boxes /\ folder # 0
  /\ S \subseteq Range(containers[folder])
  /\ FolderMail' = [m \in Names |-> IF m \in DOMAIN boxes /\ boxes[m] = folder
                                    THEN FolderMail[m] \ S ELSE FolderMail[m]]
  /\ box_answer' = Store!Answer("deleted", n, n, S)

BreaksContract ==
  \/ \E n \in Names : CreatedAgain(n)
  \/ \E n \in Names, S \in SUBSET Contents : MovedOntoItself(n, S) \/ Strayed(n, S)

(* The mbox worker keeps the contract of a mail store (messages leave a folder only as its       *)
(* answers say) but for the three steps above.                                                   *)
MboxKeepsMail == Store!Init /\ [][Store!Next \/ BreaksContract]_<<FolderMail, box_answer>>
=============================================================================
