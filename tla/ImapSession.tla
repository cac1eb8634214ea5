----------------------------- MODULE ImapSession -----------------------------
(***************************************************************************)
(* The IMAP worker (worker/imap) as the account view drives it             *)
(* (app/account.go, app/dirlist.go): the queue of actions, the one         *)
(* connection to the server, the mailbox that is selected on it, and the   *)
(* worker's own idea of it (IMAPWorker.selected).                          *)
(*                                                                         *)
(* The worker handles one action at a time.  A handler stops at every      *)
(* command it sends to the server, and meanwhile the user goes on: opening *)
(* another folder cancels the context of the previous one, the connection  *)
(* may be lost, and more actions are queued.                               *)
(*                                                                         *)
(* Every command of the worker's client may fail or find the connection    *)
(* lost.  SELECT follows RFC 3501: when it fails no mailbox is selected.   *)
(***************************************************************************)
EXTENDS Naturals, Sequences

CONSTANTS
  Dirs,       \* the mailboxes of the account
  Inbox,      \* the mailbox that connect() selects and that is opened by default
  NoDir,      \* no mailbox
  UserKinds,  \* the kinds of action the user's commands post
  QueueCap,   \* capacity of Worker.actions
  MaxPosts,   \* bound on the actions posted by user commands
  MaxNav,     \* bound on the contexts that DirectoryList.NewContext makes
  MaxFaults   \* bound on failed commands and lost connections

ConnKinds   == {"Connect", "Reconnect", "Disconnect"}
SearchKinds == {"Contents"}   \* FetchDirectoryContents, FetchDirectoryThreaded, SearchDirectory
FetchKinds  == {"Headers", "Fetch"}  \* FetchMessageHeaders; FetchFullMessages, ...BodyPart, ...Flags
WriteKinds  == {"Store", "Delete", "Copy"}  \* Flag/AnsweredMessages; DeleteMessages; Copy/MoveMessages
GlobalKinds == {"List", "CheckMail", "Global"}  \* Global: Create/RemoveDirectory, AppendMessage
MailboxKinds == SearchKinds \cup FetchKinds \cup WriteKinds
Kinds == ConnKinds \cup {"Open"} \cup MailboxKinds \cup GlobalKinds

ASSUME DirsAssumption == Inbox \in Dirs /\ NoDir \notin Dirs
ASSUME KindsAssumption == UserKinds \subseteq
  (MailboxKinds \cup {"CheckMail", "Connect", "Disconnect", "Global"})
ASSUME BoundsAssumption ==
  QueueCap \in Nat /\ MaxPosts \in Nat /\ MaxNav \in Nat /\ MaxFaults \in Nat

VARIABLES
  actions,    \* Worker.actions, oldest first
  pending,    \* ids of the actions that have no final answer yet
  nextId,     \* lastId
  posts,      \* number of actions the user has posted
  faults,     \* number of faults so far
  pc, cur,    \* where the worker is in the handler of which action
  client,     \* IMAPWorker.client: "none", or the state of the connection
  selected,   \* IMAPWorker.selected.Name
  mailbox,    \* the mailbox selected on the server's side of the connection
  selectedBy, \* history: what selected the mailbox on the server's side
  messages,   \* messages to the user interface that it reacts to here
  ctx,        \* DirectoryList.ctx; every earlier context is cancelled
  opening,    \* goroutines of DirectoryList.Open that wait for the delay
  storeCtx,   \* MessageStore.ctx of each directory's store, 0 before it is opened
  uiDir,      \* DirectoryList.selected
  reconnects  \* reconnect timers that the account view has started

wvars == <<pc, cur, client, selected, mailbox, selectedBy>>
uivars == <<ctx, opening, storeCtx, uiDir, reconnects>>
vars == <<actions, pending, nextId, posts, faults, messages, wvars, uivars>>

NoAction == [id |-> 0, kind |-> "None", dir |-> NoDir, ctx |-> 0]
Action(id, kind, dir, c) == [id |-> id, kind |-> kind, dir |-> dir, ctx |-> c]

(* context.TODO() is 0 and never cancelled. *)
IsCancelled(c) == c # 0 /\ c < ctx

(* Configure has been handled, Connect is queued. *)
Init ==
  /\ actions = <<Action(1, "Connect", NoDir, 0)>>
  /\ pending = {1} /\ nextId = 2 /\ posts = 0 /\ faults = 0
  /\ pc = "recv" /\ cur = NoAction
  /\ client = "none" /\ selected = NoDir /\ mailbox = NoDir /\ selectedBy = "none"
  /\ messages = <<>>
  /\ ctx = 1 /\ opening = {} /\ storeCtx = [d \in Dirs |-> 0] /\ uiDir = NoDir
  /\ reconnects = 0

-----------------------------------------------------------------------------
(* Posting actions and answers *)

(* Worker.PostAction: blocks while the channel is full. *)
PostAction(kind, dir, c) ==
  /\ Len(actions) < QueueCap
  /\ actions' = Append(actions, Action(nextId, kind, dir, c))
  /\ pending' = pending \cup {nextId}
  /\ nextId' = nextId + 1

NoPost == UNCHANGED <<actions, pending, nextId>>

ConnError == [type |-> "ConnError", req |-> NoAction]

(* Answers on which the user interface changes state of this model. *)
Reacts(type) == type = "Done" /\ cur.kind \in ConnKinds \cup {"List", "Open"}

(* Run: the final answer to the action being handled. *)
Answer(type) ==
  /\ pending' = pending \ {cur.id}
  /\ pc' = "recv"
  /\ cur' = NoAction
  /\ messages' = IF Reacts(type) THEN Append(messages, [type |-> type, req |-> cur])
                                 ELSE messages
  /\ UNCHANGED <<actions, nextId>>

(* An answer after a ConnError that the handler posted itself. *)
AnswerAfterConnError(type) ==
  /\ pending' = pending \ {cur.id}
  /\ pc' = "recv"
  /\ cur' = NoAction
  /\ messages' = Append(messages, ConnError)
  /\ type # "Done"
  /\ UNCHANGED <<actions, nextId>>

Goto(label) == pc' = label /\ UNCHANGED <<cur, messages>> /\ NoPost

Fault == faults < MaxFaults /\ faults' = faults + 1

(* The worker's and the server's selection after a step, and what selected *)
(* the server's.                                                           *)
Select(sel, mbox, by) ==
  /\ selected' = sel
  /\ mailbox' = mbox
  /\ selectedBy' = by

KeepSelection == UNCHANGED <<selected, mailbox, selectedBy>>
KeepClient == UNCHANGED client /\ KeepSelection

-----------------------------------------------------------------------------
(* The worker *)

(* Run: an action is received and the idler stops.                         *)
Receive ==
  /\ pc = "recv" /\ actions # <<>>
  /\ cur' = Head(actions)
  /\ actions' = Tail(actions)
  /\ pc' = "dispatch"
  /\ KeepClient
  /\ UNCHANGED <<pending, nextId, posts, faults, messages, uivars>>

(* A bug: the break after the answer of a failed stopIdler is missing. *)
ReceiveIdleErrorGoesOn ==
  /\ pc = "recv" /\ actions # <<>>
  /\ client = "selected"
  /\ Fault
  /\ actions' = Tail(actions)
  /\ pending' = pending \ {Head(actions).id}
  /\ client' = "none"
  /\ Select(NoDir, NoDir, "none")
  /\ messages' = Append(messages, ConnError)
  /\ cur' = Head(actions)
  /\ pc' = "dispatch"
  /\ UNCHANGED <<nextId, posts, uivars>>

(* Run and stopIdler: the idler does not stop, the connection is           *)
(* terminated and the action is refused.                                   *)
ReceiveIdleError ==
  /\ pc = "recv" /\ actions # <<>>
  /\ client = "selected"
  /\ Fault
  /\ actions' = Tail(actions)
  /\ pending' = pending \ {Head(actions).id}
  /\ client' = "none"
  /\ Select(NoDir, NoDir, "none")
  /\ messages' = Append(messages, ConnError)
  /\ UNCHANGED <<nextId, posts, pc, cur, uivars>>

At(kinds) == pc = "dispatch" /\ cur.kind \in kinds

(* A bug: the action is dropped without an answer when there is no client. *)
NotReadySilent ==
  /\ At(Kinds \ ConnKinds)
  /\ client = "none"
  /\ pc' = "recv" /\ cur' = NoAction
  /\ NoPost /\ KeepClient
  /\ UNCHANGED <<posts, faults, messages, uivars>>

(* handleMessage: without a client only connection actions are handled. *)
NotReady ==
  /\ At(Kinds \ ConnKinds)
  /\ client = "none"
  /\ Answer("Error")
  /\ KeepClient
  /\ UNCHANGED <<posts, faults, uivars>>

(* newClient: the new connection has INBOX selected; selected is left as it was. *)
NewClient == client' = "selected" /\ Select(selected, Inbox, "newClient")

Connect ==
  /\ At({"Connect"})
  /\ \/ /\ client = "selected"            \* errAlreadyConnected
        /\ Answer("Error") /\ KeepClient /\ UNCHANGED faults
     \/ /\ client # "selected"
        /\ NewClient /\ Answer("Done") /\ UNCHANGED faults
     \/ /\ client # "selected"
        /\ Fault /\ AnswerAfterConnError("Error") /\ KeepClient
  /\ UNCHANGED <<posts, uivars>>

(* A failed Reconnect falls out of the switch with ErrUnsupported. *)
Reconnect ==
  /\ At({"Reconnect"})
  /\ \/ NewClient /\ Answer("Done") /\ UNCHANGED faults
     \/ Fault /\ AnswerAfterConnError("Unsupported") /\ KeepClient
  /\ UNCHANGED <<posts, uivars>>

Disconnect ==
  /\ At({"Disconnect"})
  /\ client' = "none"
  /\ \/ /\ client # "selected"            \* errNotConnected
        /\ Answer("Error") /\ KeepSelection /\ UNCHANGED faults
     \/ /\ client = "selected"            \* Logout
        /\ Select(selected, NoDir, "none") /\ Answer("Done") /\ UNCHANGED faults
     \/ /\ client = "selected"            \* Logout fails, terminate
        /\ Fault /\ Select(NoDir, NoDir, "none") /\ Answer("Error")
  /\ UNCHANGED <<posts, uivars>>

(* A SELECT that fails, because the server refuses it or the connection is *)
(* gone, leaves no mailbox selected on the server.                         *)
SelectFails ==
  /\ \/ client = "selected" /\ Fault
     \/ client = "logout" /\ UNCHANGED faults
  /\ Select(selected, NoDir, "none")
  /\ Answer("Error")

(* handleOpenDirectory: SELECT, then the look at the context. *)
OpenSelect ==
  /\ At({"Open"})
  /\ client # "none"
  /\ \/ /\ client = "selected"
        /\ Select(selected, cur.dir, "open")
        /\ Goto("opened") /\ UNCHANGED faults
     \/ SelectFails
  /\ UNCHANGED <<posts, client, uivars>>

(* A bug: the context is not looked at after the SELECT. *)
OpenDoneAnyway ==
  /\ pc = "opened"
  /\ Answer("Done") /\ Select(cur.dir, mailbox, selectedBy)
  /\ UNCHANGED <<posts, faults, client, uivars>>

(* When the context was cancelled during the SELECT, selected stays.       *)
OpenDone ==
  /\ pc = "opened"
  /\ IF IsCancelled(cur.ctx)
     THEN Answer("Cancelled") /\ Select(selected, mailbox, "cancelled")
     ELSE Answer("Done") /\ Select(cur.dir, mailbox, selectedBy)
  /\ UNCHANGED <<posts, faults, client, uivars>>

(* The handlers of commands on a mailbox: ensureSelected, with the look at *)
(* the context before it (searches) or after it (FetchMessageHeaders).     *)
RefusedBefore == cur.kind \in SearchKinds /\ IsCancelled(cur.ctx)
RefusedAfter  == cur.kind = "Headers" /\ IsCancelled(cur.ctx)

RefuseCancelled ==
  /\ At(MailboxKinds)
  /\ client # "none"
  /\ RefusedBefore
  /\ Answer("Cancelled")
  /\ KeepClient
  /\ UNCHANGED <<posts, faults, uivars>>

(* Where the handler goes on once the directory is taken to be selected. *)
AfterSelect ==
  IF RefusedAfter THEN Answer("Cancelled") ELSE Goto("command")

(* A bug: ensureSelected does not keep the result of its SELECT. *)
ensureSelectedForgets ==
  /\ At(MailboxKinds)
  /\ client # "none"
  /\ ~RefusedBefore
  /\ \/ /\ cur.dir = selected
        /\ AfterSelect /\ KeepSelection /\ UNCHANGED faults
     \/ /\ cur.dir # selected
        /\ client = "selected"
        /\ Select(selected, cur.dir, "command")
        /\ AfterSelect /\ UNCHANGED faults
     \/ /\ cur.dir # selected
        /\ SelectFails
  /\ UNCHANGED <<posts, client, uivars>>

ensureSelected ==
  /\ At(MailboxKinds)
  /\ client # "none"
  /\ ~RefusedBefore
  /\ \/ /\ cur.dir = selected
        /\ AfterSelect /\ KeepSelection /\ UNCHANGED faults
     \/ /\ cur.dir # selected
        /\ client = "selected"
        /\ Select(cur.dir, cur.dir, "command")
        /\ AfterSelect /\ UNCHANGED faults
     \/ /\ cur.dir # selected
        /\ SelectFails
  /\ UNCHANGED <<posts, client, uivars>>

(* A command on the selected mailbox fails for lack of one, too. *)
CommandFails ==
  /\ pc \in {"command", "expunge"}
  /\ \/ client = "selected" /\ mailbox # NoDir /\ Fault
     \/ (client # "selected" \/ mailbox = NoDir) /\ UNCHANGED faults
  /\ Answer("Error")
  /\ KeepClient
  /\ UNCHANGED <<posts, uivars>>

CommandRuns == pc = "command" /\ client = "selected" /\ mailbox # NoDir

(* UID SEARCH, SORT or THREAD: the result is dropped when the context was  *)
(* cancelled in the meantime.                                              *)
Search ==
  /\ CommandRuns /\ cur.kind \in SearchKinds
  /\ Answer(IF IsCancelled(cur.ctx) THEN "Cancelled" ELSE "Done")
  /\ KeepClient
  /\ UNCHANGED <<posts, faults, uivars>>

(* UID FETCH runs to its end, whatever the context; UID COPY and UID MOVE. *)
FetchOrCopy ==
  /\ CommandRuns /\ cur.kind \in FetchKinds \cup {"Copy"}
  /\ Answer("Done")
  /\ KeepClient
  /\ UNCHANGED <<posts, faults, uivars>>

(* handleDeleteMessages: UID STORE +FLAGS \Deleted, then EXPUNGE. *)
DeleteStore ==
  /\ CommandRuns /\ cur.kind = "Delete"
  /\ Goto("expunge")
  /\ KeepClient
  /\ UNCHANGED <<posts, faults, uivars>>

DeleteExpunge ==
  /\ pc = "expunge" /\ client = "selected" /\ mailbox # NoDir
  /\ Answer("Done")
  /\ KeepClient
  /\ UNCHANGED <<posts, faults, uivars>>

(* handleStoreOps: UID STORE, then PostAction(CheckMail) from the worker's *)
(* own goroutine.                                                          *)
StoreFlags ==
  /\ CommandRuns /\ cur.kind = "Store"
  /\ Goto("postCheckMail")
  /\ KeepClient
  /\ UNCHANGED <<posts, faults, uivars>>

StorePost ==
  /\ pc = "postCheckMail"
  /\ PostAction("CheckMail", selected, 0)
  /\ pc' = "stored"
  /\ KeepClient
  /\ UNCHANGED <<posts, faults, cur, messages, uivars>>

StoreDone ==
  /\ pc = "stored"
  /\ Answer("Done")
  /\ KeepClient
  /\ UNCHANGED <<posts, faults, uivars>>

(* A bug: CheckMail adopts the status of whatever directory was checked. *)
CheckMailAdopts ==
  /\ At({"CheckMail"})
  /\ client # "none"
  /\ \/ /\ client = "selected"
        /\ Answer("Done") /\ UNCHANGED <<faults, mailbox, selectedBy>>
        /\ selected' = cur.dir
     \/ /\ client = "selected" /\ Fault /\ Answer("Error") /\ KeepSelection
     \/ /\ client = "logout" /\ Answer("Error") /\ KeepSelection /\ UNCHANGED faults
  /\ UNCHANGED <<posts, client, uivars>>

(* handleCheckMailMessage: STATUS or LIST-STATUS; the status replaces      *)
(* IMAPWorker.selected only when it has the same name.                     *)
CheckMail ==
  /\ At({"CheckMail"})
  /\ client # "none"
  /\ \/ /\ client = "selected"
        /\ Answer("Done") /\ UNCHANGED <<faults, mailbox, selectedBy>>
        /\ selected' = IF cur.dir = selected THEN cur.dir ELSE selected
     \/ /\ client = "selected" /\ Fault /\ Answer("Error") /\ KeepSelection
     \/ /\ client = "logout" /\ Answer("Error") /\ KeepSelection /\ UNCHANGED faults
  /\ UNCHANGED <<posts, client, uivars>>

(* LIST, CREATE, DELETE and APPEND name their mailbox themselves. *)
GlobalCommand ==
  /\ At({"List", "Global"})
  /\ client # "none"
  /\ \/ /\ client = "selected" /\ Answer("Done") /\ UNCHANGED faults
     \/ /\ client = "selected" /\ Fault /\ Answer("Error")
     \/ /\ client = "logout" /\ Answer("Error") /\ UNCHANGED faults
  /\ KeepClient
  /\ UNCHANGED <<posts, uivars>>

(* The connection is lost; the observer sees LoggedOut and reports it. *)
ConnectionLost ==
  /\ client = "selected"
  /\ Fault
  /\ client' = "logout"
  /\ Select(selected, NoDir, "none")
  /\ messages' = Append(messages, ConnError)
  /\ NoPost
  /\ UNCHANGED <<posts, pc, cur, uivars>>

-----------------------------------------------------------------------------
(* The account view and the directory list *)

(* DirectoryList.Open: cancel the previous context, wait for the delay. *)
Open(d) ==
  /\ ctx' = ctx + 1
  /\ opening' = opening \cup {[dir |-> d, ctx |-> ctx + 1]}

(* The user moves to another directory. *)
UserOpens(d) ==
  /\ ctx < MaxNav
  /\ Open(d)
  /\ NoPost
  /\ UNCHANGED <<posts, faults, messages, wvars, storeCtx, uiDir, reconnects>>

(* The goroutine of Open: the delay ends, or the context is cancelled. *)
PostOpen(g) ==
  /\ g \in opening
  /\ opening' = opening \ {g}
  /\ \/ PostAction("Open", g.dir, g.ctx)
     \/ IsCancelled(g.ctx) /\ NoPost
  /\ UNCHANGED <<posts, faults, messages, wvars, ctx, storeCtx, uiDir, reconnects>>

(* A command of the user on a store whose directory was opened. *)
UserPosts(kind, d) ==
  /\ posts < MaxPosts
  /\ posts' = posts + 1
  /\ storeCtx[d] # 0
  /\ PostAction(kind, d, IF kind \in SearchKinds \cup FetchKinds THEN storeCtx[d] ELSE 0)
  /\ UNCHANGED <<faults, messages, wvars, uivars>>

(* A command of the user on the account (:connect, :disconnect, :mkdir). *)
UserCommands(kind) ==
  /\ posts < MaxPosts
  /\ posts' = posts + 1
  /\ PostAction(kind, NoDir, 0)
  /\ UNCHANGED <<faults, messages, wvars, uivars>>

(* onMessage: the messages that change what the user interface does next. *)
OnConnError ==
  /\ messages # <<>> /\ Head(messages).type = "ConnError"
  /\ messages' = Tail(messages)
  /\ reconnects' = reconnects + 1
  /\ NoPost
  /\ UNCHANGED <<posts, faults, wvars, ctx, opening, storeCtx, uiDir>>

DoneHead(kinds) ==
  /\ messages # <<>> /\ Head(messages).type = "Done"
  /\ Head(messages).req.kind \in kinds
  /\ messages' = Tail(messages)

OnConnected ==
  /\ DoneHead({"Connect", "Reconnect"})
  /\ PostAction("List", NoDir, 0)
  /\ UNCHANGED <<posts, faults, wvars, uivars>>

(* After the list the selected or the default directory is opened again;   *)
(* the bound on contexts does not stop this call.                          *)
OnListed ==
  /\ DoneHead({"List"})
  /\ Open(IF uiDir = NoDir THEN Inbox ELSE uiDir)
  /\ NoPost
  /\ UNCHANGED <<posts, faults, wvars, storeCtx, uiDir, reconnects>>

(* The directory becomes the selected one, its store takes the context of  *)
(* the action and asks for the contents (MessageStore.Sort).               *)
OnOpened ==
  /\ DoneHead({"Open"})
  /\ uiDir' = Head(messages).req.dir
  /\ storeCtx' = [storeCtx EXCEPT ![uiDir'] = Head(messages).req.ctx]
  /\ PostAction("Contents", uiDir', storeCtx'[uiDir'])
  /\ UNCHANGED <<posts, faults, wvars, ctx, opening, reconnects>>

(* DirectoryList.ClearList drops every store. *)
OnDisconnected ==
  /\ DoneHead({"Disconnect"})
  /\ storeCtx' = [d \in Dirs |-> 0]
  /\ NoPost
  /\ UNCHANGED <<posts, faults, wvars, ctx, opening, uiDir, reconnects>>

(* The reconnect timer fires. *)
PostReconnect ==
  /\ reconnects > 0
  /\ reconnects' = reconnects - 1
  /\ PostAction("Reconnect", NoDir, 0)
  /\ UNCHANGED <<posts, faults, messages, wvars, ctx, opening, storeCtx, uiDir>>

-----------------------------------------------------------------------------
Worker ==
  \/ Receive \/ ReceiveIdleError \/ NotReady
  \/ Connect \/ Reconnect \/ Disconnect
  \/ OpenSelect \/ OpenDone
  \/ RefuseCancelled \/ ensureSelected
  \/ CommandFails \/ Search \/ FetchOrCopy \/ DeleteStore \/ DeleteExpunge
  \/ StoreFlags \/ StorePost \/ StoreDone
  \/ CheckMail \/ GlobalCommand

OnMessage ==
  \/ OnConnError \/ OnConnected \/ OnListed \/ OnOpened \/ OnDisconnected

User ==
  \/ \E d \in Dirs : UserOpens(d)
  \/ \E kind \in UserKinds \cap (MailboxKinds \cup {"CheckMail"}), d \in Dirs :
       UserPosts(kind, d)
  \/ \E kind \in UserKinds \cap {"Connect", "Disconnect", "Global"} : UserCommands(kind)

Next ==
  \/ Worker \/ OnMessage \/ PostReconnect \/ ConnectionLost \/ User
  \/ \E g \in opening : PostOpen(g)

(* The worker's loop, the main loop and the timers keep running; the user  *)
(* and the faults are free.                                                *)
Fairness ==
  /\ WF_vars(Worker)
  /\ WF_vars(OnMessage)
  /\ WF_vars(PostReconnect)
  /\ WF_vars(\E g \in opening : PostOpen(g))

Spec == Init /\ [][Next]_vars /\ Fairness

-----------------------------------------------------------------------------
ActionRecords ==
  {a \in [id : Nat, kind : Kinds \cup {"None"}, dir : Dirs \cup {NoDir}, ctx : Nat] :
     a.kind = "Open" => a.dir \in Dirs}

Labels == {"recv", "dispatch", "opened", "command", "expunge", "postCheckMail", "stored"}
Selections == {"none", "newClient", "open", "cancelled", "command"}

(* Types of the variables. *)
TypeOK ==
  /\ actions \in Seq(ActionRecords)
  /\ pending \subseteq Nat /\ nextId \in Nat /\ posts \in Nat /\ faults \in Nat
  /\ pc \in Labels /\ cur \in ActionRecords
  /\ client \in {"none", "selected", "logout"}
  /\ selected \in Dirs \cup {NoDir} /\ mailbox \in Dirs \cup {NoDir}
  /\ selectedBy \in Selections
  /\ messages \in Seq([type : {"Done", "ConnError"}, req : ActionRecords])
  /\ ctx \in Nat /\ opening \subseteq [dir : Dirs, ctx : Nat]
  /\ storeCtx \in [Dirs -> Nat] /\ uiDir \in Dirs \cup {NoDir}
  /\ reconnects \in Nat

(* Every action posted to the worker waits for exactly one final answer:   *)
(* none is answered twice and none is dropped, on any error path of Run    *)
(* and of the handlers.                                                    *)
Queued == {actions[i].id : i \in DOMAIN actions}
OneAnswer ==
  /\ pending = Queued \cup (IF pc = "recv" THEN {} ELSE {cur.id})
  /\ pc # "recv" => cur.id \notin Queued
  /\ \A i, j \in DOMAIN actions : actions[i].id = actions[j].id => i = j

(* While a command on a mailbox runs, IMAPWorker.selected is the directory *)
(* of the action: Uint32ToUid makes the identifiers it reports from it.    *)
InMailbox == pc \in {"command", "expunge", "postCheckMail", "stored"}
UidsNameDirectory == InMailbox => selected = cur.dir

(* "ensures that the requested directory is selected" (ensureSelected):    *)
(* a command on a mailbox runs in the directory of its action.             *)
RunsInMailbox == InMailbox /\ client = "selected" /\ mailbox # NoDir
RightMailbox == RunsInMailbox => mailbox = cur.dir

(* A command on a mailbox runs in the directory of its action whatever     *)
(* fails before it: a refused SELECT, a lost or terminated connection, a   *)
(* logout, a mail check of another mailbox or a late OpenDirectory.  Two   *)
(* events alone can break this, because selected does not follow them: an  *)
(* opening cancelled after its SELECT, and a new connection, in INBOX,     *)
(* until the next SELECT of a handler that goes on.                        *)
RightUnlessCancelled ==
  RunsInMailbox => mailbox = cur.dir \/ selectedBy \in {"cancelled", "newClient"}

(* Whatever the order in which the delayed goroutines of Open post and the *)
(* worker answers, the directory shown in the end is the last one asked    *)
(* for, and its store can fetch (its context is not cancelled), unless a   *)
(* :disconnect has dropped it.                                             *)
Quiet == actions = <<>> /\ pc = "recv" /\ messages = <<>> /\ opening = {}
LastOpenWins ==
  Quiet /\ faults = 0 /\ uiDir # NoDir => storeCtx[uiDir] \in {0, ctx}

(* Every action is answered, also when connections fail under it: posts    *)
(* are bounded, so time and again no action is left waiting.               *)
Answered == []<>(pending = {})
=============================================================================
