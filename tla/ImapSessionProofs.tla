-------------------------- MODULE ImapSessionProofs --------------------------
(***************************************************************************)
(* Proofs about the IMAP session for any number of mailboxes, actions,     *)
(* contexts and faults: types, the mailbox a command runs in, one answer   *)
(* for each action, and the folder shown in the end.                       *)
(***************************************************************************)
EXTENDS ImapSession, TLAPS

MessageRecords == [type : {"Done", "ConnError"}, req : ActionRecords]

-----------------------------------------------------------------------------
(* Types *)

LEMMA ActionType ==
  ASSUME NEW id \in Nat, NEW kind \in Kinds, NEW dir \in Dirs \cup {NoDir}, NEW c \in Nat,
         kind = "Open" => dir \in Dirs
  PROVE  Action(id, kind, dir, c) \in ActionRecords
BY DEF Action, ActionRecords

LEMMA NoActionType == NoAction \in ActionRecords
BY DEF NoAction, ActionRecords

(* What a post does to the queue. *)
LEMMA PostType ==
  ASSUME TypeOK, NEW kind \in Kinds, NEW dir \in Dirs \cup {NoDir}, NEW c \in Nat,
         kind = "Open" => dir \in Dirs,
         PostAction(kind, dir, c)
  PROVE  actions' \in Seq(ActionRecords) /\ pending' \subseteq Nat /\ nextId' \in Nat
<1>1. Action(nextId, kind, dir, c) \in ActionRecords
  BY ActionType DEF TypeOK
<1>2. actions' \in Seq(ActionRecords)
  BY <1>1 DEF PostAction, TypeOK
<1> QED BY <1>2 DEF PostAction, TypeOK

LEMMA NoPostType ==
  ASSUME TypeOK, NoPost
  PROVE  actions' \in Seq(ActionRecords) /\ pending' \subseteq Nat /\ nextId' \in Nat
BY DEF TypeOK, NoPost

(* The part of TypeOK that the worker's steps change, but for the connection. *)
WorkerType ==
  /\ actions \in Seq(ActionRecords) /\ pending \subseteq Nat /\ nextId \in Nat
  /\ pc \in Labels /\ cur \in ActionRecords
  /\ messages \in Seq(MessageRecords)

Answers == {"Done", "Error", "Cancelled", "Unsupported"}

LEMMA AnswerType == ASSUME TypeOK, NEW type \in Answers, Answer(type) PROVE WorkerType'
<1>1. messages' \in Seq(MessageRecords)
  <2>1. CASE Reacts(type)
    <3>1. [type |-> type, req |-> cur] \in MessageRecords
      BY <2>1 DEF Reacts, TypeOK, MessageRecords
    <3> QED BY <2>1, <3>1 DEF Answer, TypeOK, MessageRecords
  <2>2. CASE ~Reacts(type)
    BY <2>2 DEF Answer, TypeOK, MessageRecords
  <2> QED BY <2>1, <2>2
<1> QED BY <1>1, NoActionType DEF Answer, TypeOK, Labels, WorkerType

LEMMA ConnErrorAnswerType ==
  ASSUME TypeOK, NEW type \in Answers, AnswerAfterConnError(type) PROVE WorkerType'
<1>1. ConnError \in MessageRecords  BY NoActionType DEF ConnError, MessageRecords
<1>2. messages' \in Seq(MessageRecords)
  BY <1>1 DEF AnswerAfterConnError, TypeOK, MessageRecords
<1> QED BY <1>2, NoActionType DEF AnswerAfterConnError, TypeOK, Labels, WorkerType

LEMMA GotoType == ASSUME TypeOK, NEW l \in Labels, Goto(l) PROVE WorkerType'
BY DEF Goto, NoPost, TypeOK, MessageRecords, WorkerType

(* What the selection may become. *)
LEMMA SelectType ==
  ASSUME TypeOK, NEW sel \in Dirs \cup {NoDir}, NEW mbox \in Dirs \cup {NoDir},
         NEW by \in Selections, Select(sel, mbox, by)
  PROVE  /\ selected' \in Dirs \cup {NoDir} /\ mailbox' \in Dirs \cup {NoDir}
         /\ selectedBy' \in Selections
BY DEF Select, TypeOK

LEMMA TypeInit == Init => TypeOK
<1> SUFFICES ASSUME Init PROVE TypeOK
    OBVIOUS
<1>1. Action(1, "Connect", NoDir, 0) \in ActionRecords
  BY ActionType DEF Kinds, ConnKinds
<1>2. actions \in Seq(ActionRecords)  BY <1>1 DEF Init
<1> QED BY <1>2, NoActionType, DirsAssumption DEF Init, TypeOK, Labels, Selections

SelectionType ==
  /\ selected \in Dirs \cup {NoDir} /\ mailbox \in Dirs \cup {NoDir}
  /\ selectedBy \in Selections

LEMMA WorkerKeepsTypes ==
  ASSUME TypeOK, WorkerType', SelectionType', client' \in {"none", "selected", "logout"},
         faults' \in Nat, UNCHANGED <<posts, uivars>>
  PROVE  TypeOK'
BY DEF TypeOK, WorkerType, SelectionType, uivars, MessageRecords

LEMMA WorkerTypeOK == ASSUME TypeOK, Worker PROVE TypeOK'
<1> USE DEF KeepSelection, KeepClient, Answers
<1>a. ASSUME NEW type \in Answers, Answer(type) \/ AnswerAfterConnError(type)
      PROVE  WorkerType'
  BY <1>a, AnswerType, ConnErrorAnswerType
<1>b. ASSUME NEW l \in Labels, Goto(l) PROVE WorkerType'
  BY <1>b, GotoType
<1>c. ASSUME KeepSelection PROVE SelectionType'
  BY <1>c DEF SelectionType, TypeOK
<1>d. ASSUME NEW sel \in Dirs \cup {NoDir}, NEW mbox \in Dirs \cup {NoDir},
             NEW by \in Selections, Select(sel, mbox, by)
      PROVE  SelectionType'
  BY <1>d, SelectType DEF SelectionType
<1>e. UNCHANGED faults \/ Fault => faults' \in Nat
  BY DEF Fault, TypeOK
<1>f. UNCHANGED client => client' \in {"none", "selected", "logout"}
  BY DEF TypeOK
<1>g. cur.dir \in Dirs \cup {NoDir} /\ selected \in Dirs \cup {NoDir}
      /\ mailbox \in Dirs \cup {NoDir} /\ Inbox \in Dirs
      /\ selectedBy \in Selections
  BY DirsAssumption DEF TypeOK, ActionRecords
<1>h. SelectFails => SelectionType' /\ WorkerType' /\ faults' \in Nat
  BY <1>a, <1>d, <1>e, <1>g DEF SelectFails, Selections
<1>1. CASE Receive
  <2>1. Head(actions) \in ActionRecords /\ Tail(actions) \in Seq(ActionRecords)
    BY <1>1 DEF Receive, TypeOK
  <2>2. WorkerType'
    BY <1>1, <2>1 DEF Receive, WorkerType, TypeOK, Labels, MessageRecords
  <2> QED BY <1>1, <2>2, <1>c, <1>e, <1>f, WorkerKeepsTypes DEF Receive
<1>2. CASE ReceiveIdleError
  <2>1. Tail(actions) \in Seq(ActionRecords)
    BY <1>2 DEF ReceiveIdleError, TypeOK
  <2>2. ConnError \in MessageRecords  BY NoActionType DEF ConnError, MessageRecords
  <2>3. messages' \in Seq(MessageRecords)
    BY <1>2, <2>2 DEF ReceiveIdleError, TypeOK, MessageRecords
  <2>5. WorkerType'
    BY <1>2, <2>1, <2>3 DEF ReceiveIdleError, WorkerType, TypeOK
  <2>4. SelectionType'  BY <1>2, <1>d DEF ReceiveIdleError, Selections
  <2> QED BY <1>2, <2>5, <2>4, <1>e, WorkerKeepsTypes DEF ReceiveIdleError
<1>3. CASE NotReady
  BY <1>3, <1>a, <1>c, <1>e, <1>f, WorkerKeepsTypes DEF NotReady
<1>4. ASSUME NewClient PROVE SelectionType' /\ client' \in {"none", "selected", "logout"}
  BY <1>4, <1>d, <1>g DEF NewClient, Selections
<1>5. CASE Connect
  BY <1>5, <1>4, <1>a, <1>c, <1>e, <1>f, WorkerKeepsTypes DEF Connect
<1>6. CASE Reconnect
  BY <1>6, <1>4, <1>a, <1>c, <1>e, <1>f, WorkerKeepsTypes DEF Reconnect
<1>7. CASE Disconnect
  <2>1. SelectionType'
    BY <1>7, <1>c, <1>d, <1>g DEF Disconnect, Selections
  <2> QED BY <1>7, <2>1, <1>a, <1>e, WorkerKeepsTypes DEF Disconnect
<1>8. CASE OpenSelect
  <2>1. SelectionType' /\ WorkerType' /\ faults' \in Nat
    BY <1>8, <1>b, <1>d, <1>e, <1>g, <1>h DEF OpenSelect, Selections, Labels
  <2> QED BY <1>8, <2>1, <1>f, WorkerKeepsTypes DEF OpenSelect
<1>9. CASE OpenDone
  <2>1. SelectionType' /\ WorkerType'
    BY <1>9, <1>a, <1>c, <1>d, <1>g DEF OpenDone, Selections
  <2> QED BY <1>9, <2>1, <1>e, <1>f, WorkerKeepsTypes DEF OpenDone
<1>10. CASE RefuseCancelled
  BY <1>10, <1>a, <1>c, <1>e, <1>f, WorkerKeepsTypes DEF RefuseCancelled
<1>11. CASE ensureSelected
  <2>1. AfterSelect => WorkerType'
    BY <1>a, <1>b DEF AfterSelect, Labels
  <2>2. SelectionType' /\ WorkerType' /\ faults' \in Nat
    BY <1>11, <2>1, <1>c, <1>d, <1>e, <1>g, <1>h DEF ensureSelected, Selections
  <2> QED BY <1>11, <2>2, <1>f, WorkerKeepsTypes DEF ensureSelected
<1>12. CASE CommandFails
  BY <1>12, <1>a, <1>c, <1>e, <1>f, WorkerKeepsTypes DEF CommandFails
<1>13. CASE Search
  BY <1>13, <1>a, <1>c, <1>e, <1>f, WorkerKeepsTypes DEF Search
<1>14. CASE FetchOrCopy
  BY <1>14, <1>a, <1>c, <1>e, <1>f, WorkerKeepsTypes DEF FetchOrCopy
<1>15. CASE DeleteStore
  BY <1>15, <1>b, <1>c, <1>e, <1>f, WorkerKeepsTypes DEF DeleteStore, Labels
<1>16. CASE DeleteExpunge
  BY <1>16, <1>a, <1>c, <1>e, <1>f, WorkerKeepsTypes DEF DeleteExpunge
<1>17. CASE StoreFlags
  BY <1>17, <1>b, <1>c, <1>e, <1>f, WorkerKeepsTypes DEF StoreFlags, Labels
<1>18. CASE StorePost
  <2>1. actions' \in Seq(ActionRecords) /\ pending' \subseteq Nat /\ nextId' \in Nat
    BY <1>18, <1>g, PostType DEF StorePost, Kinds, GlobalKinds
  <2>2. WorkerType'
    BY <1>18, <2>1 DEF StorePost, WorkerType, TypeOK, Labels, MessageRecords
  <2> QED BY <1>18, <2>2, <1>c, <1>e, <1>f, WorkerKeepsTypes DEF StorePost
<1>19. CASE StoreDone
  BY <1>19, <1>a, <1>c, <1>e, <1>f, WorkerKeepsTypes DEF StoreDone
<1>20. CASE CheckMail
  <2>1. SelectionType' /\ WorkerType' /\ faults' \in Nat
    BY <1>20, <1>a, <1>c, <1>e, <1>g DEF CheckMail, SelectionType, TypeOK
  <2> QED BY <1>20, <2>1, <1>f, WorkerKeepsTypes DEF CheckMail
<1>21. CASE GlobalCommand
  BY <1>21, <1>a, <1>c, <1>e, <1>f, WorkerKeepsTypes DEF GlobalCommand
<1> QED BY <1>1, <1>2, <1>3, <1>5, <1>6, <1>7, <1>8, <1>9, <1>10, <1>11, <1>12, <1>13,
           <1>14, <1>15, <1>16, <1>17, <1>18, <1>19, <1>20, <1>21 DEF Worker

LEMMA LostTypeOK == ASSUME TypeOK, ConnectionLost PROVE TypeOK'
<1>1. ConnError \in MessageRecords  BY NoActionType DEF ConnError, MessageRecords
<1>2. WorkerType'
  BY <1>1 DEF ConnectionLost, NoPost, WorkerType, TypeOK, MessageRecords
<1>3. SelectionType'
  BY SelectType DEF ConnectionLost, SelectionType, TypeOK, Selections
<1>4. faults' \in Nat  BY DEF ConnectionLost, Fault, TypeOK
<1> QED BY <1>2, <1>3, <1>4, WorkerKeepsTypes DEF ConnectionLost

(* The part of TypeOK that the steps of the user interface change. *)
UiType ==
  /\ posts \in Nat
  /\ ctx \in Nat /\ opening \subseteq [dir : Dirs, ctx : Nat]
  /\ storeCtx \in [Dirs -> Nat] /\ uiDir \in Dirs \cup {NoDir}
  /\ reconnects \in Nat

QueueType ==
  /\ actions \in Seq(ActionRecords) /\ pending \subseteq Nat /\ nextId \in Nat
  /\ messages \in Seq(MessageRecords)

LEMMA UiKeepsTypes ==
  ASSUME TypeOK, UiType', QueueType', UNCHANGED <<faults, wvars>>
  PROVE  TypeOK'
BY DEF TypeOK, UiType, QueueType, wvars, MessageRecords

LEMMA UiTypeOK ==
  ASSUME TypeOK, OnMessage \/ PostReconnect \/ User \/ \E g \in opening : PostOpen(g)
  PROVE  TypeOK'
<1>k. UNCHANGED <<actions, pending, nextId, messages>> => QueueType'
  BY DEF QueueType, TypeOK, MessageRecords
<1>u. UNCHANGED <<posts, uivars>> => UiType'
  BY DEF UiType, uivars, TypeOK
<1>h. messages # <<>> => /\ Head(messages).req \in ActionRecords
                         /\ Tail(messages) \in Seq(MessageRecords)
  <2>1. messages \in Seq(MessageRecords)  BY DEF TypeOK, MessageRecords
  <2>2. messages # <<>> => /\ Head(messages) \in MessageRecords
                           /\ Tail(messages) \in Seq(MessageRecords)
    BY <2>1
  <2> QED BY <2>2 DEF MessageRecords
<1>p. ASSUME NEW kind \in Kinds, NEW dir \in Dirs \cup {NoDir}, NEW c \in Nat,
             kind = "Open" => dir \in Dirs, PostAction(kind, dir, c),
             messages' \in Seq(MessageRecords)
      PROVE  QueueType'
  BY <1>p, PostType DEF QueueType
<1>m. messages \in Seq(MessageRecords)  BY DEF TypeOK, MessageRecords
<1>o. ASSUME NEW d \in Dirs, Open(d)
      PROVE  ctx' \in Nat /\ opening' \subseteq [dir : Dirs, ctx : Nat]
  BY <1>o DEF Open, TypeOK
<1>1. CASE OnConnError
  <2>1. QueueType'
    BY <1>1, <1>h, NoPostType DEF OnConnError, QueueType
  <2>2. UiType'  BY <1>1 DEF OnConnError, UiType, TypeOK
  <2> QED BY <1>1, <2>1, <2>2, UiKeepsTypes DEF OnConnError
<1>2. CASE OnConnected
  <2>1. QueueType'
    BY <1>2, <1>p, <1>h DEF OnConnected, DoneHead, Kinds, GlobalKinds
  <2> QED BY <1>2, <2>1, <1>u, UiKeepsTypes DEF OnConnected
<1>3. CASE OnListed
  <2>1. QueueType'
    BY <1>3, <1>h, NoPostType DEF OnListed, DoneHead, QueueType
  <2>2. (IF uiDir = NoDir THEN Inbox ELSE uiDir) \in Dirs
    BY DirsAssumption DEF TypeOK
  <2>3. UiType'  BY <1>3, <2>2, <1>o DEF OnListed, UiType, TypeOK
  <2> QED BY <1>3, <2>1, <2>3, UiKeepsTypes DEF OnListed
<1>4. CASE OnOpened
  <2>1. Head(messages).req.dir \in Dirs /\ Head(messages).req.ctx \in Nat
    BY <1>4, <1>h DEF OnOpened, DoneHead, ActionRecords
  <2>2. uiDir' \in Dirs /\ storeCtx' \in [Dirs -> Nat] /\ storeCtx'[uiDir'] \in Nat
    BY <1>4, <2>1 DEF OnOpened, TypeOK
  <2>3. QueueType'
    BY <1>4, <2>2, <1>p, <1>h DEF OnOpened, DoneHead, Kinds, MailboxKinds, SearchKinds
  <2>4. UiType'  BY <1>4, <2>2 DEF OnOpened, UiType, TypeOK
  <2> QED BY <1>4, <2>3, <2>4, UiKeepsTypes DEF OnOpened
<1>5. CASE OnDisconnected
  <2>1. QueueType'
    BY <1>5, <1>h, NoPostType DEF OnDisconnected, DoneHead, QueueType
  <2>2. UiType'  BY <1>5 DEF OnDisconnected, UiType, TypeOK
  <2> QED BY <1>5, <2>1, <2>2, UiKeepsTypes DEF OnDisconnected
<1>6. CASE PostReconnect
  <2>1. QueueType'
    BY <1>6, <1>p, <1>m DEF PostReconnect, Kinds, ConnKinds
  <2>2. UiType'  BY <1>6 DEF PostReconnect, UiType, TypeOK
  <2> QED BY <1>6, <2>1, <2>2, UiKeepsTypes DEF PostReconnect
<1>7. ASSUME NEW d \in Dirs, UserOpens(d) PROVE TypeOK'
  <2>1. QueueType'  BY <1>7, <1>k DEF UserOpens, NoPost
  <2>2. UiType'  BY <1>7, <1>o DEF UserOpens, UiType, TypeOK
  <2> QED BY <1>7, <2>1, <2>2, UiKeepsTypes DEF UserOpens
<1>8. ASSUME NEW kind \in MailboxKinds \cup {"CheckMail"}, NEW d \in Dirs,
             UserPosts(kind, d)
      PROVE  TypeOK'
  <2> DEFINE c == IF kind \in SearchKinds \cup FetchKinds THEN storeCtx[d] ELSE 0
  <2>1. c \in Nat  BY DEF TypeOK
  <2>2. kind \in Kinds  BY DEF Kinds, GlobalKinds
  <2>3. PostAction(kind, d, c) /\ messages' \in Seq(MessageRecords)
    BY <1>8, <1>m DEF UserPosts
  <2>4. QueueType'
    <3> HIDE DEF c
    <3> QED BY <2>1, <2>2, <2>3, <1>p
  <2>5. UiType'  BY <1>8 DEF UserPosts, UiType, uivars, TypeOK
  <2> QED BY <1>8, <2>4, <2>5, UiKeepsTypes DEF UserPosts
<1>9. ASSUME NEW kind \in {"Connect", "Disconnect", "Global"}, UserCommands(kind)
      PROVE  TypeOK'
  <2>1. QueueType'
    BY <1>9, <1>p, <1>m DEF UserCommands, Kinds, ConnKinds, GlobalKinds
  <2>2. UiType'  BY <1>9 DEF UserCommands, UiType, uivars, TypeOK
  <2> QED BY <1>9, <2>1, <2>2, UiKeepsTypes DEF UserCommands
<1>10. ASSUME NEW g \in opening, PostOpen(g) PROVE TypeOK'
  <2>1. g.dir \in Dirs /\ g.ctx \in Nat  BY DEF TypeOK
  <2>2. QueueType'
    <3>1. CASE PostAction("Open", g.dir, g.ctx)
      BY <1>10, <2>1, <3>1, <1>p, <1>m DEF PostOpen, Kinds
    <3>2. CASE NoPost
      BY <1>10, <3>2, <1>k DEF PostOpen, NoPost
    <3> QED BY <1>10, <3>1, <3>2 DEF PostOpen
  <2>3. UiType'  BY <1>10 DEF PostOpen, UiType, TypeOK
  <2> QED BY <1>10, <2>2, <2>3, UiKeepsTypes DEF PostOpen
<1> QED BY <1>1, <1>2, <1>3, <1>4, <1>5, <1>6, <1>7, <1>8, <1>9, <1>10 DEF OnMessage, User

LEMMA TypeStep == TypeOK /\ [Next]_vars => TypeOK'
<1>1. ASSUME TypeOK, UNCHANGED vars PROVE TypeOK'
  BY <1>1 DEF TypeOK, vars, wvars, uivars
<1> QED BY <1>1, WorkerTypeOK, LostTypeOK, UiTypeOK DEF Next

-----------------------------------------------------------------------------
(* The selection *)

(* A mailbox that the server has selected is the one of the worker, but    *)
(* between the SELECT of an opening and its end, after an opening that was *)
(* cancelled and after a new connection.                                   *)
Agree ==
  \/ mailbox = NoDir \/ selected = mailbox
  \/ pc = "opened"
  \/ selectedBy \in {"cancelled", "newClient"}

(* The SELECT of an opening is for the directory of its action. *)
OpenedRight ==
  pc = "opened" => mailbox \in {NoDir, cur.dir}

SelectionInv == Agree /\ OpenedRight /\ UidsNameDirectory

LEMMA SelectionInit == Init => SelectionInv
BY DEF Init, SelectionInv, Agree, OpenedRight, UidsNameDirectory, InMailbox

(* Where neither an opening nor a command is under way. *)
Outside == ~InMailbox /\ pc # "opened"

LEMMA OutsideInv == Agree' /\ Outside' => SelectionInv'
BY DEF SelectionInv, Outside, OpenedRight, UidsNameDirectory

(* After an answer no command is running. *)
LEMMA AnswerLeaves ==
  ASSUME NEW type \in Answers, Answer(type) \/ AnswerAfterConnError(type)
  PROVE  Outside'
BY DEF Answer, AnswerAfterConnError, Outside, InMailbox

(* A step outside of an opening that keeps the selection. *)
LEMMA KeepAgrees == ASSUME Agree, KeepSelection, pc # "opened" PROVE Agree'
BY DEF KeepSelection, Agree

LEMMA DropAgrees == ASSUME NEW sel, NEW by, Select(sel, NoDir, by) PROVE Agree'
BY DEF Select, Agree

LEMMA SelectionStep == SelectionInv /\ [Next]_vars => SelectionInv'
<1> SUFFICES ASSUME SelectionInv, [Next]_vars PROVE SelectionInv'
    OBVIOUS
<1> USE DEF KeepClient, Answers
<1>a. Agree /\ OpenedRight /\ UidsNameDirectory
  BY DEF SelectionInv
<1>f. SelectFails => SelectionInv'
  BY DropAgrees, AnswerLeaves, OutsideInv DEF SelectFails
<1>k. UNCHANGED wvars => SelectionInv'
  BY <1>a DEF wvars, SelectionInv, Agree, OpenedRight, UidsNameDirectory, InMailbox
<1>1. CASE Receive
  <2>1. pc' = "dispatch" /\ Agree'
    BY <1>1, <1>a, KeepAgrees DEF Receive
  <2> QED BY <2>1, OutsideInv DEF Outside, InMailbox
<1>2. CASE ReceiveIdleError
  <2>1. pc' = "recv" /\ Agree'
    BY <1>2, DropAgrees DEF ReceiveIdleError
  <2> QED BY <2>1, OutsideInv DEF Outside, InMailbox
<1>3. CASE NotReady \/ RefuseCancelled \/ CommandFails \/ Search \/ FetchOrCopy
           \/ DeleteExpunge \/ StoreDone \/ GlobalCommand
  <2>1. pc # "opened" /\ KeepSelection
    BY <1>3 DEF NotReady, RefuseCancelled, CommandFails, Search, FetchOrCopy, DeleteExpunge,
       StoreDone, GlobalCommand, At, CommandRuns
  <2>2. Outside'
    BY <1>3, AnswerLeaves DEF NotReady, RefuseCancelled, CommandFails, Search, FetchOrCopy,
       DeleteExpunge, StoreDone, GlobalCommand
  <2> QED BY <1>a, <2>1, <2>2, KeepAgrees, OutsideInv
<1>4. NewClient => Agree'  BY DEF NewClient, Select, Agree
<1>5. CASE Connect \/ Reconnect
  <2>1. pc # "opened" /\ Outside'
    BY <1>5, AnswerLeaves DEF Connect, Reconnect, At
  <2>2. Agree'
    BY <1>5, <1>4, <1>a, <2>1, KeepAgrees DEF Connect, Reconnect
  <2> QED BY <2>1, <2>2, OutsideInv
<1>7. CASE Disconnect
  <2>1. pc # "opened" /\ Outside'
    BY <1>7, AnswerLeaves DEF Disconnect, At
  <2>2. Agree'
    BY <1>7, <1>a, <2>1, DropAgrees, KeepAgrees DEF Disconnect
  <2> QED BY <2>1, <2>2, OutsideInv
<1>8. CASE OpenSelect
  <2>1. CASE SelectFails  BY <2>1, <1>f
  <2>2. CASE Select(selected, cur.dir, "open") /\ Goto("opened")
    BY <2>2 DEF Select, Goto, SelectionInv, Agree, OpenedRight, UidsNameDirectory, InMailbox
  <2> QED BY <1>8, <2>1, <2>2 DEF OpenSelect
<1>9. CASE OpenDone
  <2>1. Outside'  BY <1>9, AnswerLeaves DEF OpenDone
  <2>2. Agree'
    BY <1>9, <1>a DEF OpenDone, Select, Agree, OpenedRight
  <2> QED BY <2>1, <2>2, OutsideInv
<1>10. CASE ensureSelected
  <2>0. pc # "opened"
    BY <1>10 DEF ensureSelected, At
  <2>1. CASE SelectFails  BY <2>1, <1>f
  <2>2. CASE cur.dir = selected /\ AfterSelect /\ KeepSelection
    <3>1. Agree'  BY <2>0, <2>2, <1>a, KeepAgrees
    <3>2. CASE Answer("Cancelled")  BY <3>1, <3>2, AnswerLeaves, OutsideInv
    <3>3. CASE Goto("command")
      BY <2>2, <3>1, <3>3
         DEF Goto, KeepSelection, SelectionInv, OpenedRight, UidsNameDirectory, InMailbox
    <3> QED BY <2>2, <3>2, <3>3 DEF AfterSelect
  <2>3. CASE Select(cur.dir, cur.dir, "command") /\ AfterSelect
    <3>1. Agree'  BY <2>3 DEF Select, Agree
    <3>2. CASE Answer("Cancelled")  BY <3>1, <3>2, AnswerLeaves, OutsideInv
    <3>3. CASE Goto("command")
      BY <2>3, <3>1, <3>3
         DEF Goto, Select, SelectionInv, OpenedRight, UidsNameDirectory, InMailbox
    <3> QED BY <2>3, <3>2, <3>3 DEF AfterSelect
  <2> QED BY <1>10, <2>1, <2>2, <2>3 DEF ensureSelected
<1>11. CASE DeleteStore \/ StoreFlags \/ StorePost
  <2>1. pc # "opened" /\ pc' # "opened" /\ KeepSelection
    BY <1>11 DEF DeleteStore, StoreFlags, StorePost, CommandRuns, Goto
  <2>2. UidsNameDirectory'
    BY <1>11, <1>a DEF DeleteStore, StoreFlags, StorePost, CommandRuns, Goto, KeepSelection,
       UidsNameDirectory, InMailbox
  <2> QED BY <1>a, <2>1, <2>2, KeepAgrees DEF SelectionInv, OpenedRight
<1>12. CASE CheckMail
  <2>1. KeepSelection /\ pc # "opened"
    BY <1>12 DEF CheckMail, KeepSelection, At
  <2>2. Outside'  BY <1>12, AnswerLeaves DEF CheckMail
  <2> QED BY <1>a, <2>1, <2>2, KeepAgrees, OutsideInv
<1>13. CASE ConnectionLost
  <2>1. Agree'  BY <1>13, DropAgrees DEF ConnectionLost
  <2>2. UidsNameDirectory' /\ OpenedRight'
    BY <1>13, <1>a DEF ConnectionLost, Select, UidsNameDirectory, InMailbox, OpenedRight
  <2> QED BY <2>1, <2>2 DEF SelectionInv
<1>14. CASE OnMessage \/ PostReconnect \/ User \/ \E g \in opening : PostOpen(g)
  BY <1>14, <1>k
     DEF OnMessage, OnConnError, OnConnected, OnListed, OnOpened, OnDisconnected,
         PostReconnect, User, UserOpens, UserPosts, UserCommands, PostOpen
<1>15. CASE UNCHANGED vars
  BY <1>15, <1>k DEF vars
<1> QED BY <1>1, <1>2, <1>3, <1>5, <1>7, <1>8, <1>9, <1>10, <1>11, <1>12, <1>13,
           <1>14, <1>15 DEF Next, Worker

LEMMA SelectionAlways == Spec => []SelectionInv
BY SelectionInit, SelectionStep, PTL DEF Spec

(* Every identifier reported by a command on a mailbox carries the name of *)
(* the directory of the action (imap.go, Uint32ToUid), however openings,   *)
(* cancellations, mail checks and lost connections interleave.             *)
THEOREM UidsRight == Spec => []UidsNameDirectory
<1>1. SelectionInv => UidsNameDirectory  BY DEF SelectionInv
<1> QED BY <1>1, SelectionAlways, PTL

(* A refused SELECT, a lost or terminated connection, a logout or a mail   *)
(* check never makes a later command run in another mailbox than the one   *)
(* of its action: only an opening cancelled after its SELECT (open.go,     *)
(* handleOpenDirectory) and a new connection (connect) can, until the next *)
(* SELECT of a handler that goes on (worker.go, ensureSelected).           *)
THEOREM MailboxRight == Spec => []RightUnlessCancelled
<1>1. SelectionInv => RightUnlessCancelled
  BY DEF SelectionInv, Agree, UidsNameDirectory, RightUnlessCancelled, RunsInMailbox, InMailbox
<1> QED BY <1>1, SelectionAlways, PTL

(* The actions, contexts, messages and selections keep their types. *)
THEOREM TypeCorrect == Spec => []TypeOK
BY TypeInit, TypeStep, PTL DEF Spec
-----------------------------------------------------------------------------
(* Answers *)

(* Identifiers of the past are below the next one. *)
OldIds ==
  /\ \A i \in DOMAIN actions : actions[i].id < nextId
  /\ pc # "recv" => cur.id < nextId

AnswerInv == TypeOK /\ OneAnswer /\ OldIds

LEMMA AnswerInit == Init => OneAnswer /\ OldIds
BY DEF Init, OneAnswer, OldIds, Queued, Action

(* Between the receive and the answer the worker holds the action. *)
Holds == pc # "recv" /\ pc' # "recv" /\ cur' = cur

LEMMA PostKeeps ==
  ASSUME AnswerInv, NEW kind, NEW dir, NEW c, PostAction(kind, dir, c),
         UNCHANGED <<pc, cur>> \/ Holds
  PROVE  OneAnswer' /\ OldIds'
<1> DEFINE a == Action(nextId, kind, dir, c)
<1>1. /\ actions \in Seq(ActionRecords) /\ nextId \in Nat /\ cur.id \in Nat
      /\ \A i \in DOMAIN actions : actions[i].id \in Nat
  BY DEF AnswerInv, TypeOK, ActionRecords
<1>2. /\ DOMAIN actions = 1..Len(actions) /\ Len(actions) \in Nat
      /\ DOMAIN actions' = 1..(Len(actions) + 1)
      /\ \A i \in DOMAIN actions : actions'[i] = actions[i]
      /\ actions'[Len(actions) + 1] = a
  BY <1>1 DEF PostAction
<1>3. a.id = nextId  BY DEF Action
<1> HIDE DEF a
<1>4. nextId' = nextId + 1 /\ pending' = pending \cup {nextId}
  BY DEF PostAction
<1>5. Queued' = Queued \cup {nextId}
  BY <1>2, <1>3 DEF Queued
<1>6. OldIds'
  BY <1>1, <1>2, <1>3, <1>4 DEF AnswerInv, OldIds, Holds
<1>7. \A i, j \in DOMAIN actions' : actions'[i].id = actions'[j].id => i = j
  BY <1>1, <1>2, <1>3 DEF AnswerInv, OneAnswer, OldIds
<1>8. pc' # "recv" => cur'.id \notin Queued'
  BY <1>1, <1>5 DEF AnswerInv, OneAnswer, OldIds, Holds
<1>9. pending' = Queued' \cup (IF pc' = "recv" THEN {} ELSE {cur'.id})
  BY <1>4, <1>5 DEF AnswerInv, OneAnswer, Holds
<1> QED BY <1>6, <1>7, <1>8, <1>9 DEF OneAnswer

LEMMA AnswerKeeps ==
  ASSUME AnswerInv, pc # "recv",
         NEW type \in Answers, Answer(type) \/ AnswerAfterConnError(type)
  PROVE  OneAnswer' /\ OldIds'
<1>1. /\ UNCHANGED <<actions, nextId>> /\ pc' = "recv" /\ pending' = pending \ {cur.id}
  BY DEF Answer, AnswerAfterConnError
<1> QED BY <1>1 DEF AnswerInv, OneAnswer, OldIds, Queued

LEMMA HoldKeeps ==
  ASSUME AnswerInv, NoPost, UNCHANGED <<pc, cur>> \/ Holds
  PROVE  OneAnswer' /\ OldIds'
BY DEF AnswerInv, OneAnswer, OldIds, Queued, NoPost, Holds

LEMMA ReceiveKeeps ==
  ASSUME AnswerInv, pc = "recv", actions # <<>>, actions' = Tail(actions), nextId' = nextId,
         \/ pc' # "recv" /\ cur' = Head(actions) /\ pending' = pending
         \/ pc' = "recv" /\ pending' = pending \ {Head(actions).id}
  PROVE  OneAnswer' /\ OldIds'
<1>1. actions \in Seq(ActionRecords)  BY DEF AnswerInv, TypeOK
<1>2. /\ DOMAIN actions = 1..Len(actions) /\ Len(actions) \in Nat /\ Len(actions) > 0
      /\ DOMAIN actions' = 1..(Len(actions) - 1)
      /\ \A i \in DOMAIN actions' : actions'[i] = actions[i + 1]
      /\ Head(actions) = actions[1]
  BY <1>1
<1>3. \A i \in DOMAIN actions' : i + 1 \in DOMAIN actions  BY <1>2
<1>4. Queued = Queued' \cup {Head(actions).id}
  <2>1. ASSUME NEW i \in DOMAIN actions, i # 1
        PROVE  i - 1 \in DOMAIN actions' /\ actions[i] = actions'[i - 1]
    <3>1. i \in Nat /\ i - 1 \in 1..(Len(actions) - 1) /\ (i - 1) + 1 = i
      BY <1>2, <2>1
    <3>2. i - 1 \in DOMAIN actions'  BY <3>1, <1>2
    <3>3. actions'[i - 1] = actions[(i - 1) + 1]  BY <3>2, <1>2
    <3> QED BY <3>1, <3>2, <3>3
  <2>2. 1 \in DOMAIN actions  BY <1>2
  <2>3. ASSUME NEW x \in Queued' \cup {Head(actions).id} PROVE x \in Queued
    <3>1. CASE x = Head(actions).id  BY <3>1, <1>2, <2>2 DEF Queued
    <3>2. CASE x \in Queued'
      <4>1. PICK i \in DOMAIN actions' : x = actions'[i].id  BY <3>2 DEF Queued
      <4>2. x = actions[i + 1].id /\ i + 1 \in DOMAIN actions  BY <4>1, <1>2, <1>3
      <4> QED BY <4>2 DEF Queued
    <3> QED BY <3>1, <3>2
  <2>4. ASSUME NEW x \in Queued PROVE x \in Queued' \cup {Head(actions).id}
    <3>1. PICK i \in DOMAIN actions : x = actions[i].id  BY DEF Queued
    <3>2. CASE i = 1  BY <3>1, <3>2, <1>2
    <3>3. CASE i # 1  BY <3>1, <3>3, <2>1 DEF Queued
    <3> QED BY <3>2, <3>3
  <2> QED BY <2>3, <2>4
<1>5. Head(actions).id \notin Queued'
  BY <1>2, <1>3 DEF AnswerInv, OneAnswer, Queued
<1>6. \A i, j \in DOMAIN actions' : actions'[i].id = actions'[j].id => i = j
  BY <1>2, <1>3 DEF AnswerInv, OneAnswer
<1>7. OldIds'
  BY <1>2, <1>3 DEF AnswerInv, OldIds
<1> QED BY <1>4, <1>5, <1>6, <1>7 DEF AnswerInv, OneAnswer

LEMMA AnswerStep == AnswerInv /\ [Next]_vars => OneAnswer' /\ OldIds'
<1> SUFFICES ASSUME AnswerInv, [Next]_vars PROVE OneAnswer' /\ OldIds'
    OBVIOUS
<1> USE DEF Answers
<1>s. SelectFails /\ pc # "recv" => OneAnswer' /\ OldIds'
  BY AnswerKeeps DEF SelectFails
<1>1. CASE Receive
  BY <1>1, ReceiveKeeps DEF Receive
<1>2. CASE ReceiveIdleError
  BY <1>2, ReceiveKeeps DEF ReceiveIdleError
<1>3. CASE NotReady \/ RefuseCancelled \/ CommandFails \/ Search \/ FetchOrCopy
           \/ DeleteExpunge \/ StoreDone
  <2>1. pc # "recv"
    BY <1>3 DEF NotReady, RefuseCancelled, CommandFails, Search, FetchOrCopy,
                DeleteExpunge, StoreDone, At, CommandRuns
  <2> QED BY <1>3, <2>1, AnswerKeeps
             DEF NotReady, RefuseCancelled, CommandFails, Search, FetchOrCopy,
                 DeleteExpunge, StoreDone
<1>4. CASE Connect \/ Reconnect \/ Disconnect
  BY <1>4, AnswerKeeps DEF Connect, Reconnect, Disconnect, At
<1>5. CASE GlobalCommand \/ CheckMail \/ OpenDone
  BY <1>5, AnswerKeeps DEF GlobalCommand, CheckMail, OpenDone, At
<1>6. CASE OpenSelect
  <2>1. CASE Goto("opened")
    BY <1>6, <2>1, HoldKeeps DEF OpenSelect, Goto, At, Holds
  <2> QED BY <1>6, <2>1, <1>s DEF OpenSelect, At
<1>7. CASE ensureSelected
  <2>1. CASE AfterSelect
    BY <1>7, <2>1, HoldKeeps, AnswerKeeps DEF ensureSelected, AfterSelect, Goto, At, Holds
  <2> QED BY <1>7, <2>1, <1>s DEF ensureSelected, At
<1>8. CASE DeleteStore \/ StoreFlags
  BY <1>8, HoldKeeps DEF DeleteStore, StoreFlags, CommandRuns, Goto, Holds
<1>9. CASE StorePost
  BY <1>9, PostKeeps DEF StorePost, Holds
<1>10. CASE ConnectionLost
  BY <1>10, HoldKeeps DEF ConnectionLost
<1>11. CASE OnConnError \/ OnListed \/ OnDisconnected
  BY <1>11, HoldKeeps DEF OnConnError, OnListed, OnDisconnected, wvars
<1>12. CASE OnConnected \/ OnOpened \/ PostReconnect
  BY <1>12, PostKeeps DEF OnConnected, OnOpened, PostReconnect, wvars
<1>13. CASE User
  BY <1>13, PostKeeps, HoldKeeps DEF User, UserOpens, UserPosts, UserCommands, wvars
<1>14. CASE \E g \in opening : PostOpen(g)
  BY <1>14, PostKeeps, HoldKeeps DEF PostOpen, wvars
<1>15. CASE UNCHANGED vars
  BY <1>15, HoldKeeps DEF vars, wvars, NoPost
<1> QED BY <1>1, <1>2, <1>3, <1>4, <1>5, <1>6, <1>7, <1>8, <1>9, <1>10, <1>11, <1>12,
           <1>13, <1>14, <1>15 DEF Next, Worker, OnMessage

(* Every action waits for exactly one final answer of the worker's Run     *)
(* loop: no error path answers twice or not at all (worker.go, Run).       *)
THEOREM AnsweredOnce == Spec => []OneAnswer
<1>1. AnswerInv /\ [Next]_vars => AnswerInv'
  BY AnswerStep, TypeStep DEF AnswerInv
<1>2. Init => AnswerInv
  BY AnswerInit, TypeInit DEF AnswerInv
<1>3. AnswerInv => OneAnswer  BY DEF AnswerInv
<1> QED BY <1>1, <1>2, <1>3, PTL DEF Spec

-----------------------------------------------------------------------------
(* The last opening *)

(* Openings have contexts of the past or the present, and no handler that   *)
(* has sent a command runs without a connection.                           *)
OldOpenings ==
  /\ \A i \in 1..Len(actions) : actions[i].kind = "Open" => actions[i].ctx \in 1..ctx
  /\ \A g \in opening : g.ctx \in 1..ctx

OpeningHandled ==
  /\ pc # "recv" /\ cur.kind = "Open" => pc \in {"dispatch", "opened"} /\ cur.ctx \in 1..ctx
  /\ pc = "opened" => cur.kind = "Open"
  /\ pc \notin {"recv", "dispatch"} => client # "none" /\ cur.kind # "Disconnect"

OpeningsRight == OldOpenings /\ OpeningHandled

LEMMA PostedLast ==
  ASSUME TypeOK, NEW kind, NEW dir, NEW c, PostAction(kind, dir, c)
  PROVE  /\ Len(actions) \in Nat /\ Len(actions') = Len(actions) + 1
         /\ \A i \in 1..Len(actions) : actions'[i] = actions[i]
         /\ actions'[Len(actions) + 1].kind = kind /\ actions'[Len(actions) + 1].ctx = c
<1>1. actions \in Seq(ActionRecords)
  BY DEF TypeOK
<1>2. actions' = Append(actions, Action(nextId, kind, dir, c))
  BY DEF PostAction
<1>3. Action(nextId, kind, dir, c).kind = kind /\ Action(nextId, kind, dir, c).ctx = c
  BY DEF Action
<1> QED BY <1>1, <1>2, <1>3

LEMMA ReceivedFirst ==
  ASSUME TypeOK, actions # <<>>, actions' = Tail(actions)
  PROVE  /\ Len(actions) \in Nat \ {0} /\ Len(actions') = Len(actions) - 1 /\ Head(actions) = actions[1]
         /\ \A i \in 1..Len(actions') : actions'[i] = actions[i + 1] /\ i + 1 \in 1..Len(actions)
<1>1. actions \in Seq(ActionRecords)
  BY DEF TypeOK
<1> QED BY <1>1

LEMMA PostKeepsOpenings ==
  ASSUME TypeOK, OldOpenings, ctx' = ctx, NEW kind, NEW dir, NEW c, PostAction(kind, dir, c),
         kind = "Open" => c \in 1..ctx, \A g \in opening' : g \in opening
  PROVE  OldOpenings'
<1>1. \A i \in 1..Len(actions') : i \in 1..Len(actions) \/ i = Len(actions) + 1
  BY PostedLast
<1> QED BY <1>1, PostedLast DEF OldOpenings

LEMMA ReceiveKeepsOpenings ==
  ASSUME TypeOK, OldOpenings, actions # <<>>, actions' = Tail(actions), UNCHANGED <<ctx, opening>>
  PROVE  OldOpenings' /\ (Head(actions).kind = "Open" => Head(actions).ctx \in 1..ctx)
<1>1. 1 \in 1..Len(actions)
  BY ReceivedFirst
<1> QED BY <1>1, ReceivedFirst DEF OldOpenings

LEMMA OpeningsInit == Init => OpeningsRight
BY DEF Init, OpeningsRight, OldOpenings, OpeningHandled, Action

LEMMA OpeningsStep == TypeOK /\ OpeningsRight /\ [Next]_vars => OpeningsRight'
<1> SUFFICES ASSUME TypeOK, OpeningsRight, [Next]_vars PROVE OpeningsRight'
    OBVIOUS
<1>a. UNCHANGED <<actions, ctx, opening>> => OldOpenings'
  BY DEF OpeningsRight, OldOpenings
<1>b. UNCHANGED <<pc, cur, ctx, client>> => OpeningHandled'
  BY DEF OpeningsRight, OpeningHandled
<1>c. pc' = "recv" => OpeningHandled'
  BY DEF OpeningHandled
<1>d. ASSUME NEW type, Answer(type) \/ AnswerAfterConnError(type), UNCHANGED uivars PROVE OpeningsRight'
  BY <1>a, <1>c, <1>d DEF OpeningsRight, Answer, AnswerAfterConnError, uivars
<1>1. CASE Receive
  BY <1>1, <1>c, ReceiveKeepsOpenings DEF Receive, OpeningsRight, OpeningHandled, uivars
<1>2. CASE ReceiveIdleError
  BY <1>2, ReceiveKeepsOpenings DEF ReceiveIdleError, OpeningsRight, OpeningHandled, uivars
<1>3. CASE NotReady \/ RefuseCancelled \/ CommandFails \/ Search \/ FetchOrCopy \/ DeleteExpunge \/ StoreDone
           \/ Connect \/ Reconnect \/ Disconnect \/ GlobalCommand \/ CheckMail \/ OpenDone
  BY <1>3, <1>d DEF NotReady, RefuseCancelled, CommandFails, Search, FetchOrCopy, DeleteExpunge, StoreDone,
     Connect, Reconnect, Disconnect, GlobalCommand, CheckMail, OpenDone
<1>4. CASE OpenSelect
  <2>1. CASE Goto("opened")
    BY <1>4, <1>a, <2>1 DEF OpenSelect, Goto, NoPost, At, OpeningsRight, OpeningHandled, uivars
  <2>2. CASE SelectFails
    BY <1>4, <1>d, <2>2 DEF OpenSelect, SelectFails
  <2> QED BY <1>4, <2>1, <2>2 DEF OpenSelect
<1>5. CASE ensureSelected
  <2>1. CASE Goto("command")
    BY <1>5, <1>a, <2>1 DEF ensureSelected, Goto, NoPost, At, OpeningsRight, OpeningHandled, uivars,
       MailboxKinds, SearchKinds, FetchKinds, WriteKinds
  <2>2. CASE Answer("Cancelled") \/ SelectFails
    BY <1>5, <1>d, <2>2 DEF ensureSelected, SelectFails
  <2> QED BY <1>5, <2>1, <2>2 DEF ensureSelected, AfterSelect
<1>6. CASE DeleteStore \/ StoreFlags
  BY <1>6, <1>a DEF DeleteStore, StoreFlags, CommandRuns, Goto, NoPost, KeepClient, OpeningsRight, OpeningHandled,
     uivars
<1>7. CASE StorePost
  <2>1. OldOpenings'
    BY <1>7, PostKeepsOpenings DEF StorePost, OpeningsRight, uivars
  <2> QED BY <1>7, <2>1 DEF StorePost, KeepClient, OpeningsRight, OpeningHandled, uivars
<1>8. CASE ConnectionLost
  BY <1>8, <1>a DEF ConnectionLost, NoPost, OpeningsRight, OpeningHandled, uivars
<1>9. CASE OnConnError \/ OnDisconnected
  BY <1>9, <1>a, <1>b DEF OnConnError, OnDisconnected, NoPost, wvars, OpeningsRight
<1>10. CASE OnConnected \/ OnOpened \/ PostReconnect
  <2>1. OldOpenings'
    BY <1>10, PostKeepsOpenings DEF OnConnected, OnOpened, PostReconnect, OpeningsRight, uivars
  <2> QED BY <1>10, <1>b, <2>1 DEF OnConnected, OnOpened, PostReconnect, OpeningsRight, wvars, uivars
<1>11. CASE OnListed \/ \E d \in Dirs : UserOpens(d)
  <2>1. ctx \in Nat /\ ctx' = ctx + 1 /\ UNCHANGED <<actions, pc, cur, client>>
    BY <1>11 DEF TypeOK, OnListed, UserOpens, Open, NoPost, wvars
  <2>2. \A g \in opening' : g \in opening \/ g.ctx = ctx + 1
    BY <1>11 DEF OnListed, UserOpens, Open
  <2> QED BY <2>1, <2>2 DEF OpeningsRight, OldOpenings, OpeningHandled
<1>12. CASE \E kind \in UserKinds \cap (MailboxKinds \cup {"CheckMail"}), d \in Dirs : UserPosts(kind, d)
  <2>1. OldOpenings'
    BY <1>12, PostKeepsOpenings DEF UserPosts, OpeningsRight, uivars, MailboxKinds, SearchKinds, FetchKinds, WriteKinds
  <2> QED BY <1>12, <1>b, <2>1 DEF UserPosts, OpeningsRight, wvars, uivars
<1>13. CASE \E kind \in UserKinds \cap {"Connect", "Disconnect", "Global"} : UserCommands(kind)
  <2>1. OldOpenings'
    BY <1>13, PostKeepsOpenings DEF UserCommands, OpeningsRight, uivars
  <2> QED BY <1>13, <1>b, <2>1 DEF UserCommands, OpeningsRight, wvars, uivars
<1>14. ASSUME NEW g \in opening, PostOpen(g) PROVE OpeningsRight'
  <2>1. CASE PostAction("Open", g.dir, g.ctx)
    <3>1. OldOpenings'
      BY <1>14, <2>1, PostKeepsOpenings DEF PostOpen, OpeningsRight, OldOpenings
    <3> QED BY <1>14, <1>b, <3>1 DEF PostOpen, OpeningsRight, wvars
  <2>2. CASE NoPost
    BY <1>14, <1>b, <2>2 DEF PostOpen, OpeningsRight, OldOpenings, wvars, NoPost
  <2> QED BY <1>14, <2>1, <2>2 DEF PostOpen
<1>15. CASE UNCHANGED vars
  BY <1>15, <1>a, <1>b DEF vars, wvars, uivars, OpeningsRight
<1> QED BY <1>1, <1>2, <1>3, <1>4, <1>5, <1>6, <1>7, <1>8, <1>9, <1>10, <1>11, <1>12,
           <1>13, <1>14, <1>15 DEF Next, Worker, OnMessage, User

(* The messages after which the user interface shows another folder, or     *)
(* none.                                                                   *)
Settles(m) == m.type = "Done" /\ m.req.kind \in {"Open", "Disconnect"}
Unsettled == \A k \in 1..Len(messages) : ~Settles(messages[k])
SettlesLast(k) ==
  /\ Settles(messages[k])
  /\ \A l \in 1..Len(messages) : l > k => ~Settles(messages[l])

(* Once it has taken all messages it shows no folder, or the last one.     *)
Cleared ==
  \/ \E k \in 1..Len(messages) : SettlesLast(k) /\ messages[k].req.kind = "Disconnect"
  \/ Unsettled /\ (uiDir # NoDir => storeCtx[uiDir] = 0)
Current ==
  \/ \E k \in 1..Len(messages) : SettlesLast(k) /\ messages[k].req.kind = "Open" /\ messages[k].req.ctx = ctx
  \/ Unsettled /\ (uiDir # NoDir => storeCtx[uiDir] = ctx)

(* The last opening has not been answered yet. *)
Underway ==
  \/ \E g \in opening : g.ctx = ctx
  \/ \E i \in 1..Len(actions) : actions[i].kind = "Open" /\ actions[i].ctx = ctx
  \/ pc # "recv" /\ cur.kind = "Open" /\ cur.ctx = ctx

(* Without faults a worker loses its connection only to :disconnect.       *)
LastOpening ==
  /\ client = "none" => Cleared
  /\ client # "logout"
  /\ Underway \/ Cleared \/ Current

LEMMA MessageAdded ==
  ASSUME TypeOK, NEW m \in MessageRecords, messages' = Append(messages, m), UNCHANGED <<storeCtx, uiDir, ctx>>
  PROVE  /\ ~Settles(m) => (Cleared => Cleared') /\ (Current => Current')
         /\ Settles(m) /\ m.req.kind = "Disconnect" => Cleared'
         /\ Settles(m) /\ m.req.kind = "Open" /\ m.req.ctx = ctx => Current'
<1>1. /\ Len(messages) \in Nat /\ Len(messages') = Len(messages) + 1
      /\ \A k \in 1..Len(messages) : messages'[k] = messages[k]
      /\ messages'[Len(messages) + 1] = m
  BY DEF TypeOK, MessageRecords
<1>2. \A k \in 1..Len(messages') : k \in 1..Len(messages) \/ k = Len(messages) + 1
  BY <1>1
<1>3. ~Settles(m) => (Unsettled => Unsettled') /\ \A k \in 1..Len(messages) : SettlesLast(k) => SettlesLast(k)'
  BY <1>1, <1>2 DEF Unsettled, SettlesLast, Settles
<1>p. PICK n \in Nat : n = Len(messages) + 1
  BY <1>1
<1>4. Settles(m) => SettlesLast(n)'
  BY <1>1, <1>2, <1>p DEF SettlesLast, Settles
<1>5. \A k \in 1..Len(messages) : k \in 1..Len(messages')
  BY <1>1
<1>6. n \in 1..Len(messages') /\ messages'[n] = m
  BY <1>1, <1>p
<1>7. ~Settles(m) => (Cleared => Cleared') /\ (Current => Current')
  BY <1>1, <1>3, <1>5 DEF Cleared, Current
<1>8. Settles(m) /\ m.req.kind = "Disconnect" => Cleared'
  BY <1>4, <1>6 DEF Cleared
<1>9. Settles(m) /\ m.req.kind = "Open" /\ m.req.ctx = ctx => Current'
  BY <1>4, <1>6 DEF Current
<1> QED BY <1>7, <1>8, <1>9

(* What is left of the messages settles as before, unless it was the first  *)
(* that did.                                                               *)
LEMMA MessageTaken ==
  ASSUME TypeOK, messages # <<>>, messages' = Tail(messages)
  PROVE  /\ \A k \in 1..Len(messages) : SettlesLast(k) /\ k # 1 =>
              /\ k - 1 \in 1..Len(messages') /\ SettlesLast(k - 1)' /\ messages'[k - 1] = messages[k]
         /\ Unsettled \/ (1 \in 1..Len(messages) /\ SettlesLast(1)) => Unsettled'
         /\ Head(messages) = messages[1] /\ 1 \in 1..Len(messages)
<1>1. /\ Len(messages) \in Nat \ {0} /\ Len(messages') = Len(messages) - 1 /\ Head(messages) = messages[1]
      /\ \A k \in 1..Len(messages') : messages'[k] = messages[k + 1] /\ k + 1 \in 1..Len(messages)
  BY DEF TypeOK
<1>2. ASSUME NEW k \in 1..Len(messages), SettlesLast(k), k # 1
      PROVE  k - 1 \in 1..Len(messages') /\ SettlesLast(k - 1)' /\ messages'[k - 1] = messages[k]
  <2>1. k - 1 \in 1..Len(messages') /\ messages'[k - 1] = messages[k]
    BY <1>1, <1>2
  <2>2. \A l \in 1..Len(messages') : l > k - 1 => l + 1 > k
    BY <1>1
  <2> QED BY <1>1, <1>2, <2>1, <2>2 DEF SettlesLast, Settles
<1>3. Unsettled => Unsettled'
  BY <1>1 DEF Unsettled, Settles
<1>4. SettlesLast(1) => Unsettled'
  BY <1>1 DEF SettlesLast, Unsettled, Settles
<1>5. 1 \in 1..Len(messages)
  BY <1>1
<1> QED BY <1>1, <1>2, <1>3, <1>4, <1>5

(* A message that does not settle changes nothing. *)
LEMMA OtherTaken ==
  ASSUME TypeOK, messages # <<>>, messages' = Tail(messages), ~Settles(Head(messages)),
         UNCHANGED <<storeCtx, uiDir>>
  PROVE  (Cleared => Cleared') /\ (Current /\ ctx' = ctx => Current')
<1>1. \A k \in 1..Len(messages) : SettlesLast(k) => k # 1
  BY MessageTaken DEF SettlesLast
<1>2. Cleared => Cleared'
  <2>1. ASSUME NEW k \in 1..Len(messages), SettlesLast(k), messages[k].req.kind = "Disconnect" PROVE Cleared'
    BY <1>1, <2>1, MessageTaken DEF Cleared
  <2> QED BY <2>1, MessageTaken DEF Cleared
<1>3. Current /\ ctx' = ctx => Current'
  <2>1. ASSUME ctx' = ctx, NEW k \in 1..Len(messages), SettlesLast(k), messages[k].req.kind = "Open",
               messages[k].req.ctx = ctx
        PROVE  Current'
    BY <1>1, <2>1, MessageTaken DEF Current
  <2> QED BY <2>1, MessageTaken DEF Current
<1> QED BY <1>2, <1>3

LEMMA OpenedTaken ==
  ASSUME TypeOK, OnOpened
  PROVE  (Cleared => Cleared') /\ (Current => Current')
<1>1. /\ messages # <<>> /\ messages' = Tail(messages) /\ ctx' = ctx
      /\ Settles(Head(messages)) /\ Head(messages).req.kind = "Open"
  BY DEF OnOpened, DoneHead, Settles
<1>2. \E k \in 1..Len(messages) : Settles(messages[k])
  BY <1>1, MessageTaken
<1>3. ~Unsettled
  BY <1>2 DEF Unsettled
<1>4. Cleared => Cleared'
  <2>1. ASSUME NEW k \in 1..Len(messages), SettlesLast(k), messages[k].req.kind = "Disconnect" PROVE Cleared'
    <3>1. k # 1
      BY <1>1, <2>1, MessageTaken
    <3> QED BY <1>1, <2>1, <3>1, MessageTaken DEF Cleared
  <2> QED BY <1>3, <2>1 DEF Cleared
<1>5. Current => Current'
  <2>1. ASSUME NEW k \in 1..Len(messages), SettlesLast(k), messages[k].req.kind = "Open",
               messages[k].req.ctx = ctx
        PROVE  Current'
    <3>1. CASE k # 1
      BY <1>1, <2>1, <3>1, MessageTaken DEF Current
    <3>2. CASE k = 1
      <4>1. Unsettled'
        BY <1>1, <2>1, <3>2, MessageTaken
      <4>2. Head(messages).req.ctx = ctx /\ Head(messages).req.dir \in Dirs
        <5>1. messages \in Seq(MessageRecords) /\ 1 \in 1..Len(messages)
          BY <1>1, MessageTaken DEF TypeOK, MessageRecords
        <5>2. messages[1] \in MessageRecords
          BY <5>1
        <5>3. messages[1].req \in ActionRecords
          BY <5>2 DEF MessageRecords
        <5> QED BY <1>1, <2>1, <3>2, <5>3, MessageTaken DEF ActionRecords
      <4>3. uiDir' = Head(messages).req.dir /\ storeCtx' = [storeCtx EXCEPT ![uiDir'] = Head(messages).req.ctx]
        BY DEF OnOpened
      <4>4. storeCtx'[uiDir'] = ctx
        BY <4>2, <4>3 DEF TypeOK
      <4> QED BY <1>1, <4>1, <4>4 DEF Current
    <3> QED BY <3>1, <3>2
  <2> QED BY <1>3, <2>1 DEF Current
<1> QED BY <1>4, <1>5

LEMMA DisconnectedTaken ==
  ASSUME TypeOK, OnDisconnected
  PROVE  (Cleared => Cleared') /\ (Current => Current')
<1>1. /\ messages # <<>> /\ messages' = Tail(messages) /\ ctx' = ctx /\ uiDir' = uiDir
      /\ Settles(Head(messages)) /\ Head(messages).req.kind = "Disconnect"
      /\ storeCtx' = [d \in Dirs |-> 0]
  BY DEF OnDisconnected, DoneHead, Settles
<1>2. \E k \in 1..Len(messages) : Settles(messages[k])
  BY <1>1, MessageTaken
<1>3. ~Unsettled
  BY <1>2 DEF Unsettled
<1>4. Cleared => Cleared'
  <2>1. ASSUME NEW k \in 1..Len(messages), SettlesLast(k), messages[k].req.kind = "Disconnect" PROVE Cleared'
    <3>1. CASE k # 1
      BY <1>1, <2>1, <3>1, MessageTaken DEF Cleared
    <3>2. CASE k = 1
      <4>1. Unsettled'
        BY <1>1, <2>1, <3>2, MessageTaken
      <4> QED BY <1>1, <4>1 DEF Cleared, TypeOK
    <3> QED BY <3>1, <3>2
  <2> QED BY <1>3, <2>1 DEF Cleared
<1>5. Current => Current'
  <2>1. ASSUME NEW k \in 1..Len(messages), SettlesLast(k), messages[k].req.kind = "Open",
               messages[k].req.ctx = ctx
        PROVE  Current'
    <3>1. k # 1
      BY <1>1, <2>1, MessageTaken
    <3> QED BY <1>1, <2>1, <3>1, MessageTaken DEF Current
  <2> QED BY <1>3, <2>1 DEF Current
<1> QED BY <1>4, <1>5

(* A post keeps the last opening under way. *)
LEMMA PostUnderway ==
  ASSUME TypeOK, NEW kind, NEW dir, NEW c, PostAction(kind, dir, c), ctx' = ctx, UNCHANGED opening,
         UNCHANGED <<pc, cur>> \/ Holds, Underway
  PROVE  Underway'
<1>1. \A i \in 1..Len(actions) : i \in 1..Len(actions') /\ actions'[i] = actions[i]
  BY PostedLast
<1> QED BY <1>1 DEF Underway, Holds

(* What an answer of the worker may change. *)
LEMMA AnswerKeepsLast ==
  ASSUME TypeOK, OpeningsRight, LastOpening, client # "none", client' = client, UNCHANGED uivars,
         NEW type \in {"Done", "Error", "Cancelled", "Unsupported"}, Answer(type), pc # "recv",
         cur.kind # "Disconnect", cur.kind = "Open" => pc = "opened" /\ (type = "Done" <=> ~IsCancelled(cur.ctx))
  PROVE  LastOpening'
<1>1. UNCHANGED <<actions, opening, ctx, storeCtx, uiDir>>
  BY DEF Answer, uivars
<1>2. CASE cur.kind = "Open" /\ type = "Done"
  <2>1. cur.ctx = ctx
    BY <1>2 DEF OpeningsRight, OpeningHandled, IsCancelled, TypeOK
  <2>2. [type |-> type, req |-> cur] \in MessageRecords
    BY <1>2 DEF TypeOK, MessageRecords
  <2>3. messages' = Append(messages, [type |-> type, req |-> cur])
    BY <1>2 DEF Answer, Reacts
  <2>4. Current'
    BY <1>1, <1>2, <2>1, <2>2, <2>3, MessageAdded DEF Settles
  <2> QED BY <2>4 DEF LastOpening
<1>3. CASE ~(cur.kind = "Open" /\ type = "Done")
  <2>1. (Cleared => Cleared') /\ (Current => Current')
    <3>1. CASE messages' = messages
      BY <1>1, <3>1 DEF Cleared, Current, Unsettled, SettlesLast, Settles
    <3>2. CASE messages' = Append(messages, [type |-> type, req |-> cur]) /\ type = "Done"
      <4>1. [type |-> type, req |-> cur] \in MessageRecords
        BY <3>2 DEF TypeOK, MessageRecords
      <4>2. ~Settles([type |-> type, req |-> cur])
        BY <1>3, <3>2 DEF Settles
      <4> QED BY <1>1, <3>2, <4>1, <4>2, MessageAdded
    <3> QED BY <3>1, <3>2 DEF Answer, Reacts
  <2>2. Underway => Underway'
    <3>1. cur.kind = "Open" => cur.ctx # ctx
      BY <1>3 DEF IsCancelled, TypeOK
    <3> QED BY <1>1, <3>1 DEF Underway
  <2> QED BY <2>1, <2>2 DEF LastOpening
<1> QED BY <1>2, <1>3

LEMMA LastOpeningInit == Init => LastOpening
BY DEF Init, LastOpening, Cleared, Unsettled

LEMMA FaultsGrow == ASSUME TypeOK, Next, faults' = 0 PROVE faults = 0
<1>1. ~Fault
  BY DEF Fault, TypeOK
<1>2. CASE Worker
  BY <1>1, <1>2 DEF Worker, Receive, ReceiveIdleError, NotReady, Connect, Reconnect, Disconnect, OpenSelect,
     SelectFails, OpenDone, RefuseCancelled, ensureSelected, CommandFails, Search, FetchOrCopy, DeleteStore,
     DeleteExpunge, StoreFlags, StorePost, StoreDone, CheckMail, GlobalCommand
<1>3. CASE OnMessage \/ PostReconnect
  BY <1>3 DEF OnMessage, OnConnError, OnConnected, OnListed, OnOpened, OnDisconnected, PostReconnect
<1>4. CASE ConnectionLost
  BY <1>1, <1>4 DEF ConnectionLost
<1>5. CASE User \/ \E g \in opening : PostOpen(g)
  BY <1>5 DEF User, UserOpens, UserPosts, UserCommands, PostOpen
<1> QED BY <1>2, <1>3, <1>4, <1>5 DEF Next

LEMMA LastOpeningStutter ==
  ASSUME UNCHANGED vars, faults = 0 => LastOpening, faults' = 0
  PROVE  LastOpening'
<1>1. UNCHANGED <<actions, faults, pc, cur, client, messages, ctx, opening, storeCtx, uiDir>>
  BY DEF vars, wvars, uivars
<1>2. Unsettled' = Unsettled /\ \A k : SettlesLast(k)' = SettlesLast(k)
  BY <1>1 DEF Unsettled, SettlesLast, Settles
<1>3. (Cleared => Cleared') /\ (Current => Current') /\ (Underway => Underway')
  BY <1>1, <1>2 DEF Cleared, Current, Underway
<1> QED BY <1>1, <1>3 DEF LastOpening

LEMMA LastOpeningStep ==
  ASSUME TypeOK, OpeningsRight, LastOpening, faults = 0, faults' = 0, Next
  PROVE  LastOpening'
<1>a. ~Fault
  BY DEF Fault
<1>b. UNCHANGED <<messages, storeCtx, uiDir, ctx>> => (Cleared => Cleared') /\ (Current => Current')
  <2>1. UNCHANGED messages => Unsettled' = Unsettled /\ \A k : SettlesLast(k)' = SettlesLast(k)
    BY DEF Unsettled, SettlesLast, Settles
  <2> QED BY <2>1 DEF Cleared, Current
<1>c. UNCHANGED <<actions, opening, ctx>> /\ (UNCHANGED <<pc, cur>> \/ Holds) => (Underway => Underway')
  BY DEF Underway, Holds
<1>1. CASE Receive
  <2>1. Underway => Underway'
    <3>1. ASSUME NEW i \in 1..Len(actions), actions[i].kind = "Open", actions[i].ctx = ctx PROVE Underway'
      <4>1. CASE i = 1
        BY <1>1, <3>1, <4>1, ReceivedFirst DEF Receive, Underway, uivars
      <4>2. CASE i # 1
        <5>1. i - 1 \in 1..Len(actions') /\ actions'[i - 1] = actions[i]
          BY <1>1, <4>2, ReceivedFirst DEF Receive
        <5> QED BY <1>1, <3>1, <5>1 DEF Receive, Underway, uivars
      <4> QED BY <4>1, <4>2
    <3> QED BY <1>1, <3>1 DEF Receive, Underway, uivars
  <2> QED BY <1>1, <1>b, <2>1 DEF Receive, LastOpening, KeepClient, uivars
<1>2. CASE ReceiveIdleError
  BY <1>2, <1>a DEF ReceiveIdleError
<1>3. CASE NotReady
  <2>1. Cleared /\ messages' = messages
    BY <1>3 DEF NotReady, LastOpening, Answer, Reacts
  <2> QED BY <1>3, <1>b, <2>1 DEF NotReady, LastOpening, KeepClient, uivars
<1>4. CASE RefuseCancelled \/ CommandFails \/ Search \/ FetchOrCopy \/ DeleteExpunge \/ StoreDone
           \/ GlobalCommand \/ CheckMail
  <2>1. client # "none" /\ client' = client /\ UNCHANGED uivars /\ pc # "recv" /\ cur.kind \notin {"Open", "Disconnect"}
    BY <1>4 DEF RefuseCancelled, CommandFails, Search, FetchOrCopy, DeleteExpunge, StoreDone, GlobalCommand,
       CheckMail, CommandRuns, At, KeepClient, OpeningsRight, OpeningHandled,
       MailboxKinds, SearchKinds, FetchKinds, WriteKinds
  <2> QED BY <1>4, <2>1, AnswerKeepsLast
          DEF RefuseCancelled, CommandFails, Search, FetchOrCopy, DeleteExpunge, StoreDone, GlobalCommand, CheckMail
<1>5. CASE Connect \/ Reconnect
  <2>1. (Answer("Error") /\ KeepClient) \/ (Answer("Done") /\ client' = "selected")
    BY <1>5, <1>a DEF Connect, Reconnect, NewClient
  <2>2. cur.kind \in {"Connect", "Reconnect"} /\ UNCHANGED uivars /\ UNCHANGED <<actions, opening, ctx>>
    BY <1>5, <2>1 DEF Connect, Reconnect, At, Answer, uivars
  <2>3. UNCHANGED <<storeCtx, uiDir>>
    BY <2>2 DEF uivars
  <2>4. messages' = messages \/ messages' = Append(messages, [type |-> "Done", req |-> cur])
    BY <2>1 DEF Answer, Reacts
  <2>5. [type |-> "Done", req |-> cur] \in MessageRecords /\ ~Settles([type |-> "Done", req |-> cur])
    BY <2>2 DEF TypeOK, MessageRecords, Settles
  <2>6. (Cleared => Cleared') /\ (Current => Current')
    BY <1>b, <2>2, <2>3, <2>4, <2>5, MessageAdded
  <2>7. Underway => Underway'
    BY <2>2 DEF Underway
  <2>8. client' \in {client, "selected"}
    BY <2>1 DEF KeepClient
  <2> QED BY <2>6, <2>7, <2>8 DEF LastOpening
<1>6. CASE Disconnect
  <2>1. UNCHANGED <<actions, opening, ctx, storeCtx, uiDir>> /\ client' = "none" /\ cur.kind = "Disconnect"
    BY <1>6 DEF Disconnect, At, Answer, uivars
  <2>2. CASE Answer("Error") /\ client # "selected"
    <3>1. Cleared /\ messages' = messages
      BY <2>2 DEF LastOpening, TypeOK, Answer, Reacts
    <3> QED BY <1>b, <2>1, <3>1 DEF LastOpening
  <2>3. CASE Answer("Done")
    <3>1. messages' = Append(messages, [type |-> "Done", req |-> cur])
      BY <2>1, <2>3 DEF Answer, Reacts, ConnKinds
    <3>2. [type |-> "Done", req |-> cur] \in MessageRecords
      BY DEF TypeOK, MessageRecords
    <3>3. Cleared'
      BY <2>1, <3>1, <3>2, MessageAdded DEF Settles
    <3> QED BY <2>1, <3>3 DEF LastOpening
  <2> QED BY <1>6, <1>a, <2>2, <2>3 DEF Disconnect
<1>7. CASE OpenSelect \/ ensureSelected
  <2>1. pc = "dispatch" /\ client = "selected" /\ client' = client /\ UNCHANGED uivars
    BY <1>7 DEF OpenSelect, ensureSelected, At, LastOpening, TypeOK
  <2>2. UNCHANGED <<opening, ctx, storeCtx, uiDir>>
    BY <2>1 DEF uivars
  <2>3. ASSUME NEW l \in {"opened", "command"}, Goto(l) PROVE LastOpening'
    BY <1>b, <1>c, <2>1, <2>2, <2>3 DEF Goto, NoPost, Holds, LastOpening
  <2>4. CASE OpenSelect
    BY <1>a, <2>1, <2>3, <2>4 DEF OpenSelect, SelectFails
  <2>5. CASE ensureSelected /\ Answer("Cancelled")
    <3>1. cur.kind \in MailboxKinds
      BY <2>5 DEF ensureSelected, At
    <3> QED BY <2>1, <2>5, <3>1, AnswerKeepsLast DEF MailboxKinds, SearchKinds, FetchKinds, WriteKinds
  <2>6. CASE ensureSelected /\ ~Answer("Cancelled")
    BY <1>a, <2>1, <2>3, <2>6 DEF ensureSelected, AfterSelect, SelectFails
  <2> QED BY <1>7, <2>4, <2>5, <2>6
<1>8. CASE OpenDone
  <2>1. client # "none" /\ client' = client /\ UNCHANGED uivars /\ cur.kind = "Open"
    BY <1>8 DEF OpenDone, OpeningsRight, OpeningHandled
  <2>2. CASE IsCancelled(cur.ctx)
    BY <1>8, <2>1, <2>2, AnswerKeepsLast DEF OpenDone
  <2>3. CASE ~IsCancelled(cur.ctx)
    BY <1>8, <2>1, <2>3, AnswerKeepsLast DEF OpenDone
  <2> QED BY <2>2, <2>3
<1>9. CASE DeleteStore \/ StoreFlags
  BY <1>9, <1>b, <1>c DEF DeleteStore, StoreFlags, CommandRuns, Goto, NoPost, KeepClient, Holds, LastOpening, uivars
<1>10. CASE StorePost
  <2>1. Underway => Underway'
    BY <1>10, PostUnderway DEF StorePost, Holds, uivars
  <2> QED BY <1>10, <1>b, <2>1 DEF StorePost, KeepClient, LastOpening, uivars
<1>11. CASE ConnectionLost
  BY <1>11, <1>a DEF ConnectionLost
<1>12. CASE OnConnError \/ OnConnected
  <2>1. messages # <<>> /\ messages' = Tail(messages) /\ ~Settles(Head(messages))
    BY <1>12 DEF OnConnError, OnConnected, DoneHead, Settles
  <2>2. UNCHANGED <<storeCtx, uiDir, ctx, opening, pc, cur, client>>
    BY <1>12 DEF OnConnError, OnConnected, uivars, wvars
  <2>3. Underway => Underway'
    BY <1>12, <1>c, <2>2, PostUnderway DEF OnConnError, OnConnected, NoPost
  <2> QED BY <2>1, <2>2, <2>3, OtherTaken DEF LastOpening
<1>13. CASE OnListed
  <2>1. messages # <<>> /\ messages' = Tail(messages) /\ ~Settles(Head(messages))
    BY <1>13 DEF OnListed, DoneHead, Settles
  <2>2. PICK d : opening' = opening \cup {[dir |-> d, ctx |-> ctx + 1]}
    BY <1>13 DEF OnListed, Open
  <2>3. [dir |-> d, ctx |-> ctx + 1] \in opening' /\ ctx' = ctx + 1 /\ UNCHANGED <<storeCtx, uiDir, client>>
    BY <1>13, <2>2 DEF OnListed, Open, wvars
  <2>4. Underway'
    BY <2>3 DEF Underway
  <2> QED BY <2>1, <2>3, <2>4, OtherTaken DEF LastOpening
<1>14. CASE OnOpened
  <2>1. UNCHANGED <<ctx, opening, pc, cur, client>>
    BY <1>14 DEF OnOpened, wvars
  <2>2. Underway => Underway'
    BY <1>14, <2>1, PostUnderway DEF OnOpened
  <2> QED BY <1>14, <2>1, <2>2, OpenedTaken DEF LastOpening
<1>15. CASE OnDisconnected
  <2>1. UNCHANGED <<actions, ctx, opening, pc, cur, client>>
    BY <1>15 DEF OnDisconnected, NoPost, wvars
  <2> QED BY <1>15, <1>c, <2>1, DisconnectedTaken DEF LastOpening
<1>16. CASE PostReconnect
  <2>1. Underway => Underway'
    BY <1>16, PostUnderway DEF PostReconnect, wvars
  <2> QED BY <1>16, <1>b, <2>1 DEF PostReconnect, wvars, LastOpening
<1>17. CASE \E d \in Dirs : UserOpens(d)
  <2>1. PICK d \in Dirs : UserOpens(d)
    BY <1>17
  <2>2. /\ UNCHANGED <<messages, storeCtx, uiDir, client>>
        /\ [dir |-> d, ctx |-> ctx + 1] \in opening' /\ ctx' = ctx + 1
    BY <2>1 DEF UserOpens, Open, wvars
  <2>3. Underway'
    BY <2>2 DEF Underway
  <2>4. Cleared => Cleared'
    BY <2>2 DEF Cleared, Unsettled, SettlesLast, Settles
  <2> QED BY <2>2, <2>3, <2>4 DEF LastOpening
<1>18. CASE \/ \E kind \in UserKinds \cap (MailboxKinds \cup {"CheckMail"}), d \in Dirs : UserPosts(kind, d)
            \/ \E kind \in UserKinds \cap {"Connect", "Disconnect", "Global"} : UserCommands(kind)
  <2>1. UNCHANGED <<messages, storeCtx, uiDir, ctx, opening, pc, cur, client>>
    BY <1>18 DEF UserPosts, UserCommands, wvars, uivars
  <2>2. Underway => Underway'
    BY <1>18, <2>1, PostUnderway DEF UserPosts, UserCommands
  <2> QED BY <1>b, <2>1, <2>2 DEF LastOpening
<1>19. ASSUME NEW g \in opening, PostOpen(g) PROVE LastOpening'
  <2>1. UNCHANGED <<messages, storeCtx, uiDir, ctx, pc, cur, client>> /\ opening' = opening \ {g}
    BY <1>19 DEF PostOpen, wvars
  <2>2. CASE PostAction("Open", g.dir, g.ctx)
    <3>1. Underway => Underway'
      <4>1. Len(actions) + 1 \in 1..Len(actions') /\ \A i \in 1..Len(actions) : i \in 1..Len(actions')
        BY <2>2, PostedLast
      <4> QED BY <2>1, <2>2, <4>1, PostedLast DEF Underway
    <3> QED BY <1>b, <2>1, <3>1 DEF LastOpening
  <2>3. CASE IsCancelled(g.ctx) /\ NoPost
    <3>1. g.ctx # ctx
      BY <2>3 DEF IsCancelled, TypeOK
    <3>2. Underway => Underway'
      BY <2>1, <2>3, <3>1 DEF Underway, NoPost
    <3> QED BY <1>b, <2>1, <3>2 DEF LastOpening
  <2> QED BY <1>19, <2>2, <2>3 DEF PostOpen
<1> QED BY <1>1, <1>2, <1>3, <1>4, <1>5, <1>6, <1>7, <1>8, <1>9, <1>10, <1>11, <1>12,
           <1>13, <1>14, <1>15, <1>16, <1>17, <1>18, <1>19 DEF Next, Worker, OnMessage, User

(* DirectoryList.Open cancels the context of the one before it: whatever    *)
(* the order in which its goroutines post and the worker answers, the      *)
(* folder shown in the end is the last one asked for.                      *)
THEOREM LastOpened == Spec => []LastOpenWins
<1> DEFINE Inv == TypeOK /\ OpeningsRight /\ (faults = 0 => LastOpening)
<1>1. Init => Inv
  BY TypeInit, OpeningsInit, LastOpeningInit
<1>2. Inv /\ [Next]_vars => Inv'
  <2> SUFFICES ASSUME Inv, [Next]_vars PROVE Inv'
      OBVIOUS
  <2>1. TypeOK' /\ OpeningsRight'
    BY TypeStep, OpeningsStep
  <2>2. ASSUME faults' = 0 PROVE LastOpening'
    <3>1. CASE Next
      <4>1. faults = 0
        BY <2>2, <3>1, FaultsGrow
      <4> QED BY <2>2, <3>1, <4>1, LastOpeningStep
    <3>2. CASE UNCHANGED vars
      BY <2>2, <3>2, LastOpeningStutter
    <3> QED BY <3>1, <3>2
  <2> QED BY <2>1, <2>2
<1>3. Inv => LastOpenWins
  BY DEF LastOpenWins, Quiet, LastOpening, Underway, Cleared, Current
<1> QED BY <1>1, <1>2, <1>3, PTL DEF Spec
=============================================================================
