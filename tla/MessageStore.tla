----------------------------- MODULE MessageStore -----------------------------
(***************************************************************************)
(* The message store of one mailbox (lib/msgstore.go) between the message  *)
(* list that draws it (app/msglist.go), the account view that routes the   *)
(* worker's messages to it (app/account.go) and the worker (worker/imap).  *)
(*                                                                         *)
(* The store asks the worker for the list of messages and for the headers  *)
(* of those on the screen, and it marks what the user deletes or moves     *)
(* before the worker has done it.  Answers and the server's own updates    *)
(* arrive later and may find the list changed, the selected message gone   *)
(* or the folder opened once more.                                         *)
(*                                                                         *)
(* The worker runs each action in one step on the right mailbox            *)
(* (ImapSession), and an expunge names the right message (ImapExpunge).    *)
(***************************************************************************)
EXTENDS Integers, Sequences, FiniteSets, SequencesExt, FiniteSetsExt

CONSTANTS
  MaxUid,      \* messages are numbered in the order of their arrival
  FirstBox,    \* the messages of the mailbox at the start
  Height,      \* rows of the message list
  Unsupported, \* kinds of action the backend may answer with Unsupported
  MaxCommands, \* bound on the user's moves, :delete and :move
  MaxOpens,    \* bound on the user opening the folder once more
  MaxForeign,  \* bound on expunges and flag changes by other clients
  MaxFaults,   \* bound on failed commands and unreadable messages
  MaxEvents    \* bound on the sum of these four and the arrivals

UIDs == 1..MaxUid
MagicUid == 0

ASSUME BoxAssumption == FirstBox \subseteq UIDs
ASSUME BoundsAssumption ==
  /\ MaxUid \in Nat /\ Height \in Nat \ {0} /\ Unsupported \subseteq {"Delete", "Move"}
  /\ MaxCommands \in Nat /\ MaxOpens \in Nat /\ MaxForeign \in Nat /\ MaxFaults \in Nat
  /\ MaxEvents \in Nat

VARIABLES
  box,         \* the messages on the server
  nextUid,     \* UIDNEXT of the server
  status,      \* IMAPWorker.selected: UidNext and Messages
  hold,        \* now is before IMAPWorker.noCheckMailBefore
  updates,     \* IMAPWorker.updates, oldest first
  expunger,    \* IMAPWorker.expunger: none, or of which command
  taken,       \* messages that commands have taken out of the sequence map
  actions,     \* Worker.actions, oldest first
  messages,    \* messages of the worker to the user interface, oldest first
  known,       \* store.Messages: "nil", "flags" (no envelope) or "info"
  uids,        \* store.uids
  selected,    \* store.selectedUid
  deleted,     \* store.Deleted
  pending,     \* store.pendingHeaders
  fresh,       \* store.ctx is not cancelled
  scroll,      \* MessageList.scroll, and store.scrollOffset
  drawn,       \* the list has been drawn with messages in it
  dirty,       \* a redraw has been asked for
  crashed,     \* the user interface has dereferenced a nil pointer
  unseen,      \* history: the worker ignored an update or failed to refresh the list
  kept,        \* history: a MessagesDeleted was ignored since the last list
  commands, opens, foreign, faults   \* counters of the bounds

server == <<box, nextUid>>
worker == <<status, hold, updates, expunger, taken, unseen>>
store  == <<known, uids, selected, deleted, pending, fresh, crashed, kept>>
list   == <<scroll, drawn>>
bounds == <<commands, opens, foreign, faults>>
vars   == <<server, worker, actions, messages, store, list, dirty, bounds>>

(* An action: the messages it names, whether its context is cancelled, and *)
(* what its callback has captured (idx of Sort; sel and next of :delete).  *)
Action(kind, us, stale, idx, sel, next) ==
  [kind |-> kind, uids |-> us, stale |-> stale, idx |-> idx, sel |-> sel, next |-> next]

Response(type, req, us) == [type |-> type, req |-> req, uids |-> us]
NoRequest == Action("None", {}, FALSE, 0, MagicUid, FALSE)

(* The n-th of the numbers S, S in ascending order, and the items of the   *)
(* sequence q at the positions S.                                          *)
Nth(S, n) == CHOOSE u \in S : Cardinality({v \in S : v <= u}) = n
Ascending(S) == [n \in 1..Cardinality(S) |-> Nth(S, n)]
Picked(q, S) == [n \in 1..Cardinality(S) |-> q[Nth(S, n)]]

EventsLeft == (nextUid - Max(FirstBox \cup {0}) - 1) + commands + opens + foreign + faults < MaxEvents

Status == [next |-> nextUid, count |-> Cardinality(box)]

(* The folder was opened, its first list is on the way. *)
Init ==
  /\ box = FirstBox /\ nextUid = Max(FirstBox \cup {0}) + 1
  /\ status = Status /\ hold = FALSE /\ updates = <<>>
  /\ expunger = "none" /\ taken = {} /\ unseen = FALSE
  /\ actions = <<Action("Contents", {}, FALSE, 0, MagicUid, FALSE)>>
  /\ messages = <<>>
  /\ known = <<>> /\ uids = <<>> /\ selected = MagicUid
  /\ deleted = {} /\ pending = {} /\ fresh = TRUE /\ crashed = FALSE /\ kept = FALSE
  /\ scroll = 0 /\ drawn = FALSE /\ dirty = TRUE
  /\ commands = 0 /\ opens = 0 /\ foreign = 0 /\ faults = 0

-----------------------------------------------------------------------------
(* Selection. The list shows the last of uids in its first row. *)

Index(us, u) == SelectInSeq(us, LAMBDA v : v = u)   \* FindIndexByUid, 0 if not found
StartUid(us) == Last(us)

(* SelectedUid: the magic UID stands for the first row. *)
SelectedUid(us, sel) == IF sel = MagicUid /\ us # <<>> THEN StartUid(us) ELSE sel

(* MoveIndex with FixBounds, in the default order of the iterator. *)
MoveIndex(i, delta, n) == Max({1, Min({n, i - delta})})

NextPrev(us, sel, delta) ==
  LET i == Index(us, SelectedUid(us, sel)) IN
  CASE us = <<>> -> sel
    [] us # <<>> /\ i = 0 -> StartUid(us)
    [] OTHER -> us[MoveIndex(i, delta, Len(us))]

(* store.Selected() is not nil. *)
Loaded(u) == u \in DOMAIN known /\ known[u] # "nil"

(* findNextNonDeleted: down the list, then up again, until a message that   *)
(* stays or one whose header is missing; the selection follows the walk.   *)
findNextNonDeleted(us) ==
  LET Stays(u) == u \notin us \cup deleted
      stops == {i \in DOMAIN uids : Stays(uids[i]) \/ ~Loaded(uids[i])}
      i0 == IF Index(uids, selected) = 0 THEN Len(uids) ELSE Index(uids, selected)
      down == {i \in stops : i <= i0}
      end == CASE down # {} -> Max(down) [] stops # {} /\ down = {} -> Min(stops)
               [] OTHER -> Len(uids)
      Here(u) == [sel |-> u, found |-> Loaded(u) /\ Stays(u)]
  IN IF ~Loaded(selected) \/ Stays(selected) \/ uids = <<>>
     THEN Here(selected) ELSE Here(uids[end])

-----------------------------------------------------------------------------
(* Requests of the store *)

(* FetchHeaders asks for the headers that are not asked for yet. *)
FetchHeadersAction(us) ==
  IF us \ pending = {} THEN <<>>
  ELSE <<Action("Headers", us \ pending, ~fresh, 0, MagicUid, FALSE)>>

(* Sort remembers how far down the list the selected message is. *)
SortAction(us, sel, stale) ==
  Action("Contents", {}, stale, Len(us) - Index(us, sel), MagicUid, FALSE)

(* EnsureScroll without an offset, for the row of the selected message. *)
EnsureScroll(sel) ==
  LET row == Len(uids) - Index(uids, sel)
      want == CASE row < scroll -> row
                [] row >= scroll + Height -> row - Height + 1
                [] OTHER -> scroll
  IN IF Index(uids, sel) = 0 THEN scroll
     ELSE Min({want, Max({0, Len(uids) - Height})})

Rows(us, top, height) ==
  {us[i] : i \in {j \in DOMAIN us : Len(us) - j \in top..(top + height - 1)}}

(* A bug: a message that came with its flags only counts as loaded. *)
DrawSkipsFlags ==
  /\ dirty /\ ~crashed
  /\ dirty' = FALSE
  /\ IF uids = <<>> THEN UNCHANGED <<actions, selected, pending, list>>
     ELSE LET us == {u \in Rows(uids, scroll', Height) \cap DOMAIN known : known[u] = "nil"}
          IN /\ selected' = SelectedUid(uids, selected)
             /\ scroll' = EnsureScroll(selected')
             /\ drawn' = TRUE
             /\ actions' = actions \o FetchHeadersAction(us)
             /\ pending' = pending \cup us
  /\ UNCHANGED <<server, worker, messages, known, uids, deleted, fresh, crashed, kept, bounds>>

(* MessageList.Draw asks for the headers of the rows that have none. *)
Draw ==
  /\ dirty /\ ~crashed
  /\ dirty' = FALSE
  /\ IF uids = <<>> THEN UNCHANGED <<actions, selected, pending, list>>
     ELSE LET us == {u \in Rows(uids, scroll', Height) \cap DOMAIN known : known[u] # "info"}
          IN /\ selected' = SelectedUid(uids, selected)
             /\ scroll' = EnsureScroll(selected')
             /\ drawn' = TRUE
             /\ actions' = actions \o FetchHeadersAction(us)
             /\ pending' = pending \cup us
  /\ UNCHANGED <<server, worker, messages, known, uids, deleted, fresh, crashed, kept, bounds>>

-----------------------------------------------------------------------------
(* The user *)

UserMoves(delta) ==
  /\ ~crashed /\ commands < MaxCommands /\ EventsLeft
  /\ commands' = commands + 1
  /\ selected' = NextPrev(uids, selected, delta)
  /\ dirty' = TRUE
  /\ UNCHANGED <<server, worker, actions, messages, known, uids, deleted, pending, fresh,
                 crashed, kept, list, opens, foreign, faults>>

(* MarkedOrSelected: the marked messages, or the selected one. *)
MarkedOrSelected ==
  (SUBSET ToSet(uids) \ {{}}) \cup (IF Loaded(selected) /\ uids # <<>> THEN {{selected}} ELSE {})

(* :delete and :move of the messages us, store.Delete and store.Move. *)
UserRemoves(kind, us) ==
  /\ ~crashed /\ commands < MaxCommands /\ EventsLeft
  /\ commands' = commands + 1
  /\ LET next == findNextNonDeleted(us) IN
     /\ selected' = next.sel
     /\ actions' = Append(actions, Action(kind, us, FALSE, 0,
          IF kind = "Delete" /\ Loaded(selected) THEN selected ELSE MagicUid, next.found))
  /\ deleted' = deleted \cup us
  /\ dirty' = TRUE
  /\ UNCHANGED <<server, worker, messages, known, uids, pending, fresh, crashed, kept, list,
                 opens, foreign, faults>>

(* NewContext cancels the context of everything under way, the store's too. *)
Cancelled(q) == [i \in DOMAIN q |->
  IF q[i].kind \in {"Open", "Contents", "Headers"} THEN [q[i] EXCEPT !.stale = TRUE] ELSE q[i]]

(* The user opens the folder once more (DirectoryList.Open). *)
UserReopens ==
  /\ ~crashed /\ opens < MaxOpens /\ EventsLeft
  /\ opens' = opens + 1
  /\ actions' = Append(Cancelled(actions), Action("Open", {}, FALSE, 0, MagicUid, FALSE))
  /\ messages' = [i \in DOMAIN messages |->
       IF messages[i].req.kind = "Open" THEN [messages[i] EXCEPT !.req.stale = TRUE]
       ELSE messages[i]]
  /\ fresh' = FALSE
  /\ UNCHANGED <<server, worker, known, uids, selected, deleted, pending, crashed, kept, list,
                 dirty, commands, foreign, faults>>

-----------------------------------------------------------------------------
(* The worker: one action, or one update between two actions *)

act == Head(actions)
At(kind) == actions # <<>> /\ act.kind = kind
Take == actions' = Tail(actions)
Answer(type) == messages' = Append(messages, Response(type, act, <<>>))
Fault == faults < MaxFaults /\ EventsLeft /\ faults' = faults + 1

KeepUI == UNCHANGED <<store, list, dirty, commands, opens, foreign>>

(* RefuseStale: the context is looked at first. *)
Refuse ==
  /\ actions # <<>> /\ act.stale
  /\ Take /\ Answer("Cancelled")
  /\ KeepUI /\ UNCHANGED <<server, worker, faults>>

Open ==
  /\ At("Open") /\ ~act.stale /\ Take
  /\ \/ Answer("Done") /\ status' = Status /\ UNCHANGED <<faults, unseen>>
     \/ Answer("Error") /\ Fault /\ unseen' = TRUE /\ UNCHANGED status
  /\ KeepUI /\ UNCHANGED <<server, hold, updates, expunger, taken>>

(* handleFetchDirectoryContents: UID SEARCH, then the list and Done. *)
FetchContents ==
  /\ At("Contents") /\ ~act.stale /\ Take
  /\ \/ /\ messages' = messages \o <<Response("Contents", act, Ascending(box)),
                                     Response("Done", act, <<>>)>>
        /\ unseen' = FALSE /\ UNCHANGED faults
     \/ Answer("Error") /\ Fault /\ unseen' = TRUE
  /\ KeepUI /\ UNCHANGED <<server, status, hold, updates, expunger, taken>>

(* handleFetchMessageHeaders: the answer for a message that is gone or     *)
(* that cannot be read names no directory and reaches no store.            *)
FetchHeaders ==
  /\ At("Headers") /\ ~act.stale /\ Take
  /\ \/ \E bad \in SUBSET (act.uids \cap box) :
          /\ IF bad = {} THEN UNCHANGED faults ELSE Fault
          /\ LET good == Ascending((act.uids \cap box) \ bad) IN
             messages' = messages \o <<Response("Info", act, good), Response("Done", act, <<>>)>>
     \/ Answer("Error") /\ Fault
  /\ KeepUI /\ UNCHANGED <<server, worker>>

(* A bug: the status replaces the old one before the two are compared. *)
CheckMailComparesLate ==
  /\ At("CheckMail") /\ Take
  /\ \/ status' = Status /\ UNCHANGED <<messages, unseen, faults>>
     \/ Fault /\ unseen' = TRUE /\ UNCHANGED <<messages, status>>
  /\ KeepUI /\ UNCHANGED <<server, hold, updates, expunger, taken>>

(* handleCheckMailMessage for the folder that is open. Without LIST-STATUS  *)
(* it gives way to actions that wait, and nobody asks for the rest again.  *)
CheckMail ==
  /\ At("CheckMail") /\ Take
  /\ \/ /\ status' = Status /\ UNCHANGED faults
        /\ IF status = Status THEN UNCHANGED <<messages, unseen>>
           ELSE /\ messages' = Append(messages, Response("Refetch", NoRequest, <<>>))
                /\ unseen' = FALSE
     \/ Len(actions) > 1 /\ unseen' = TRUE /\ UNCHANGED <<messages, status, faults>>
     \/ Fault /\ unseen' = TRUE /\ UNCHANGED <<messages, status>>
  /\ KeepUI /\ UNCHANGED <<server, hold, updates, expunger, taken>>

(* What handleImapUpdate makes of updates that are not of a new message:   *)
(* after a delete every expunge is taken for one of the user's; flags of a *)
(* message outside of the sequence map are not put down to that message.   *)
Reported(u, exp, out) ==
  (u.type = "flags" /\ u.uid \notin out) \/ (u.type = "expunge" /\ exp # "Delete")
News(u) == Response(IF u.type = "flags" THEN "Flags" ELSE "Deleted", NoRequest, <<u.uid>>)

(* drainUpdates drops the news of new messages. *)
Missed(u, exp) == u.type = "exists" \/ (u.type = "expunge" /\ exp = "Delete")

(* The parts of a command that removes messages: those it removes if it is *)
(* ok, the updates that wait with the expunges of a move, those of them    *)
(* that are told on (the first j while the old expunger is in place), and  *)
(* the MessagesDeleted of a delete.                                        *)
Expunges(S) == [n \in 1..Cardinality(S) |-> [type |-> "expunge", uid |-> Nth(S, n)]]
NewsOf(q, told) == [n \in DOMAIN Picked(q, told) |-> News(Picked(q, told)[n])]
Gone(ok) == IF ok THEN act.uids \cap box ELSE {}
AllUpdates(ok) == updates \o (IF act.kind = "Delete" THEN <<>> ELSE Expunges(Gone(ok)))
Told(ok, j, k) ==
  {i \in 1..j : Reported(AllUpdates(ok)[i], expunger, taken)}
    \cup {i \in (j + 1)..k : Reported(AllUpdates(ok)[i], act.kind, taken \cup act.uids)}
Deletion(ok) == IF ok /\ act.kind = "Delete"
                THEN <<Response("Deleted", NoRequest, Ascending(act.uids))>> ELSE <<>>
Answered(ok) == Response(IF ok THEN "Done" ELSE "Error", act, <<>>)
Outcome(ok, j, k) == NewsOf(AllUpdates(ok), Told(ok, j, k)) \o (Deletion(ok) \o <<Answered(ok)>>)

(* While the command runs its drain handles the first k updates.           *)
Drains(ok, j, k) ==
  /\ box' = box \ Gone(ok)
  /\ updates' = SubSeq(AllUpdates(ok), k + 1, Len(AllUpdates(ok)))
  /\ messages' = messages \o Outcome(ok, j, k)
  /\ unseen' = \/ unseen
               \/ \E i \in 1..j : Missed(AllUpdates(ok)[i], expunger)
               \/ \E i \in (j + 1)..k : Missed(AllUpdates(ok)[i], act.kind)

(* handleDeleteMessages and handleMoveMessages.                            *)
RemoveMessages ==
  /\ (At("Delete") \/ At("Move")) /\ Take
  /\ expunger' = act.kind /\ taken' = taken \cup act.uids
  /\ \E ok \in BOOLEAN :
       /\ \E k \in 0..Len(AllUpdates(ok)) : \E j \in 0..k : Drains(ok, j, k)
       /\ IF ok THEN UNCHANGED faults ELSE Fault
  /\ KeepUI /\ UNCHANGED <<nextUid, status, hold>>

(* The backend may answer Unsupported, for the messages or for the strategy. *)
Refused ==
  /\ actions # <<>> /\ act.kind \in Unsupported /\ Take
  /\ Answer("Unsupported") /\ Fault
  /\ KeepUI /\ UNCHANGED <<server, worker>>

(* handleImapUpdate: of the news of new messages the first within 20 ms    *)
(* counts; it posts CheckMail.                                             *)
HandleUpdate ==
  /\ updates # <<>>
  /\ updates' = Tail(updates)
  /\ IF Head(updates).type = "exists"
     THEN /\ hold' = TRUE
          /\ actions' = IF hold THEN actions
                        ELSE Append(actions, Action("CheckMail", {}, FALSE, 0, MagicUid, FALSE))
          /\ unseen' = (unseen \/ hold)
          /\ UNCHANGED messages
     ELSE /\ messages' = IF Reported(Head(updates), expunger, taken)
                         THEN Append(messages, News(Head(updates))) ELSE messages
          /\ unseen' = (unseen \/ Missed(Head(updates), expunger))
          /\ UNCHANGED <<hold, actions>>
  /\ KeepUI /\ UNCHANGED <<server, status, expunger, taken, faults>>

(* 20 ms have passed since the last MailboxUpdate. *)
HoldEnds ==
  /\ hold /\ hold' = FALSE
  /\ KeepUI /\ UNCHANGED <<server, status, updates, expunger, taken, unseen, actions, messages, faults>>

-----------------------------------------------------------------------------
(* The server and other clients *)

Tell(type, u) == updates' = Append(updates, [type |-> type, uid |-> u])
KeepAllBut == UNCHANGED <<status, hold, expunger, taken, unseen, actions, messages, store, list, dirty,
                          commands, opens, faults>>

Arrive ==
  /\ nextUid \in UIDs /\ EventsLeft
  /\ box' = box \cup {nextUid} /\ nextUid' = nextUid + 1
  /\ Tell("exists", nextUid)
  /\ KeepAllBut /\ UNCHANGED foreign

Foreign(type, u) ==
  /\ foreign < MaxForeign /\ EventsLeft /\ foreign' = foreign + 1
  /\ u \in box
  /\ box' = IF type = "expunge" THEN box \ {u} ELSE box
  /\ Tell(type, u)
  /\ KeepAllBut /\ UNCHANGED nextUid

-----------------------------------------------------------------------------
(* onMessage: the callback of the action first, then store.Update. Every   *)
(* message ends with UpdateStatus, which asks for a redraw.                *)

msg == Head(messages)
Got(types) == /\ ~crashed /\ messages # <<>> /\ msg.type \in types
              /\ messages' = Tail(messages) /\ dirty' = TRUE
Final == {"Done", "Error", "Cancelled", "Unsupported"}
GotAnswer(kind) == Got(Final) /\ msg.req.kind = kind
Post(as) == actions' = actions \o as
KeepRest == UNCHANGED <<server, worker, list, bounds>>

(* A bug: the selection is kept although its message is not in the list.   *)
SortReturnedKeeps(idx) == SelectedUid(uids, selected)

(* handle_return of Sort: when the selected message is gone, the one that  *)
(* is now as far down the list is selected.                                *)
SortReturned(idx) ==
  IF Index(uids, SelectedUid(uids, selected)) # 0 THEN SelectedUid(uids, selected)
  ELSE NextPrev(uids, MagicUid, idx)

(* The list: headers of new messages on the screen are asked for at once.  *)
OnContents ==
  /\ Got({"Contents"})
  /\ LET us == msg.uids
         new == {u \in Rows(us, scroll, IF drawn THEN Height ELSE 25) : u \notin DOMAIN known}
     IN /\ known' = [u \in ToSet(us) |-> IF u \in DOMAIN known THEN known[u] ELSE "nil"]
        /\ uids' = us
        /\ Post(FetchHeadersAction(new))
        /\ pending' = pending \cup new
  /\ selected' = SortReturned(msg.req.idx)
  /\ kept' = FALSE
  /\ KeepRest /\ UNCHANGED <<deleted, fresh, crashed>>

OnSorted ==
  /\ GotAnswer("Contents")
  /\ selected' = SortReturned(msg.req.idx)
  /\ KeepRest /\ UNCHANGED <<actions, known, uids, deleted, pending, fresh, crashed, kept>>

(* The answers to FetchMessageHeaders, with the envelopes. *)
OnInfo ==
  /\ Got({"Info"})
  /\ LET us == ToSet(msg.uids) IN
     /\ known' = [u \in DOMAIN known \cup us |-> IF u \in us THEN "info" ELSE known[u]]
     /\ pending' = pending \ us
  /\ KeepRest /\ UNCHANGED <<actions, uids, selected, deleted, fresh, crashed, kept>>

(* A MessageInfo that the server sent by itself, without an envelope.      *)
OnFlags ==
  /\ Got({"Flags"})
  /\ LET u == msg.uids[1] IN
     /\ known' = [v \in DOMAIN known \cup {u} |-> IF v = u /\ ~Loaded(u) THEN "flags" ELSE known[v]]
     /\ uids' = IF Loaded(u) \/ Contains(uids, u) THEN uids ELSE Append(uids, u)
  /\ KeepRest /\ UNCHANGED <<actions, selected, deleted, pending, fresh, crashed, kept>>

(* MessagesDeleted: ignored when it names more messages than the list has. *)
OnDeleted ==
  /\ Got({"Deleted"})
  /\ LET gone == ToSet(msg.uids) IN
     IF Len(uids) < Len(msg.uids)
     THEN kept' = TRUE /\ UNCHANGED <<known, deleted, uids, selected>>
     ELSE /\ known' = [u \in DOMAIN known \ gone |-> known[u]]
          /\ deleted' = deleted \ gone
          /\ uids' = Picked(uids, {i \in DOMAIN uids : uids[i] \notin gone})
          /\ selected' = IF uids' = <<>> THEN MagicUid ELSE selected
          /\ UNCHANGED kept
  /\ KeepRest /\ UNCHANGED <<actions, pending, fresh, crashed>>

(* DirectoryInfo with Refetch: Sort. *)
OnRefetch ==
  /\ Got({"Refetch"})
  /\ Post(<<SortAction(uids, selected, ~fresh)>>)
  /\ KeepRest /\ UNCHANGED store

(* The folder is open: the store takes the context of the action and sorts. *)
OnOpened ==
  /\ GotAnswer("Open")
  /\ IF msg.type = "Done"
     THEN /\ fresh' = ~msg.req.stale
          /\ Post(<<SortAction(uids, selected, msg.req.stale)>>)
     ELSE UNCHANGED <<fresh, actions>>
  /\ KeepRest /\ UNCHANGED <<known, uids, selected, deleted, pending, crashed, kept>>

(* A bug: headers stay pending when their action was cancelled. *)
OnHeadersIgnoresCancelled ==
  /\ GotAnswer("Headers")
  /\ pending' = IF msg.type = "Cancelled" THEN pending ELSE pending \ msg.req.uids
  /\ KeepRest /\ UNCHANGED <<actions, known, uids, selected, deleted, fresh, crashed, kept>>

(* The callback of FetchHeaders. *)
OnHeaders ==
  /\ GotAnswer("Headers")
  /\ pending' = pending \ msg.req.uids
  /\ KeepRest /\ UNCHANGED <<actions, known, uids, selected, deleted, fresh, crashed, kept>>

(* A bug: a refused :delete leaves its messages marked. *)
OnRemovedKeepsMarks ==
  /\ (GotAnswer("Delete") \/ GotAnswer("Move"))
  /\ deleted' = IF msg.type = "Error" THEN deleted \ msg.req.uids ELSE deleted
  /\ UNCHANGED <<selected, crashed>>
  /\ KeepRest /\ UNCHANGED <<actions, known, uids, pending, fresh, kept>>

(* The callbacks of store.Delete, store.Move and of the two commands. The  *)
(* selection goes back after a :delete that failed (sel.Uid, which panics  *)
(* when no message was selected) and to the last row when none was next.   *)
OnRemoved ==
  /\ (GotAnswer("Delete") \/ GotAnswer("Move"))
  /\ LET failed == msg.type # "Done"
         delete == msg.req.kind = "Delete"
     IN /\ deleted' = IF failed /\ (delete \/ msg.type = "Error")
                      THEN deleted \ msg.req.uids ELSE deleted
        /\ crashed' = (failed /\ delete /\ msg.req.sel = MagicUid)
        /\ selected' = CASE failed /\ delete -> msg.req.sel
                         [] ~failed /\ ~msg.req.next -> IF uids = <<>> THEN MagicUid ELSE uids[1]
                         [] OTHER -> selected
  /\ KeepRest /\ UNCHANGED <<actions, known, uids, pending, fresh, kept>>

-----------------------------------------------------------------------------
Worker == \/ Refuse \/ Open \/ FetchContents \/ FetchHeaders \/ CheckMail \/ RemoveMessages \/ Refused
          \/ HandleUpdate

OnMessage == \/ OnContents \/ OnSorted \/ OnInfo \/ OnFlags \/ OnDeleted \/ OnRefetch
             \/ OnOpened \/ OnHeaders \/ OnRemoved

User == \/ \E delta \in {1, -1} : UserMoves(delta)
        \/ \E kind \in {"Delete", "Move"}, us \in MarkedOrSelected : UserRemoves(kind, us)
        \/ UserReopens

Server == Arrive \/ \E type \in {"expunge", "flags"}, u \in box : Foreign(type, u)

Next == Draw \/ Worker \/ OnMessage \/ User \/ Server \/ HoldEnds

(* The worker and the main loop keep running, and the worker's select does *)
(* not pass over the updates for ever; the user, the server, other clients *)
(* and the faults are free.                                                *)
Fairness == WF_vars(Worker) /\ WF_vars(HandleUpdate) /\ WF_vars(OnMessage) /\ WF_vars(Draw)

Spec == Init /\ [][Next]_vars /\ Fairness

-----------------------------------------------------------------------------
Actions == [kind : {"None", "Open", "Contents", "Headers", "CheckMail", "Delete", "Move"},
            uids : SUBSET UIDs, stale : BOOLEAN, idx : Nat, sel : UIDs \cup {MagicUid},
            next : BOOLEAN]

Messages == [type : Final \cup {"Contents", "Info", "Flags", "Deleted", "Refetch"},
             req : Actions, uids : Seq(UIDs)]
Updates == [type : {"exists", "expunge", "flags"}, uid : UIDs]

(* Types of the variables. *)
TypeOK ==
  /\ box \subseteq UIDs /\ nextUid \in 1..(MaxUid + 1)
  /\ status \in [next : 1..(MaxUid + 1), count : 0..MaxUid] /\ hold \in BOOLEAN
  /\ updates \in Seq(Updates)
  /\ expunger \in {"none", "Delete", "Move"} /\ taken \subseteq UIDs /\ unseen \in BOOLEAN
  /\ actions \in Seq(Actions)
  /\ messages \in Seq(Messages)
  /\ DOMAIN known \subseteq UIDs /\ \A u \in DOMAIN known : known[u] \in {"nil", "flags", "info"}
  /\ uids \in Seq(UIDs) /\ selected \in UIDs \cup {MagicUid}
  /\ deleted \subseteq UIDs /\ pending \subseteq UIDs
  /\ fresh \in BOOLEAN /\ scroll \in Nat /\ drawn \in BOOLEAN /\ dirty \in BOOLEAN
  /\ crashed \in BOOLEAN /\ kept \in BOOLEAN
  /\ commands \in Nat /\ opens \in Nat /\ foreign \in Nat /\ faults \in Nat

(* Every row of the list is a message the store knows, and no message is   *)
(* listed twice, however lists, removals and updates follow each other.    *)
UidsKnown ==
  /\ ToSet(uids) \subseteq DOMAIN known
  /\ \A i, j \in DOMAIN uids : uids[i] = uids[j] => i = j

(* A header that is held back as pending is really being fetched: else the *)
(* message would never be drawn ("Map of uids we've asked the worker to    *)
(* fetch").                                                                *)
Asked == {a \in ToSet(actions) \cup {m.req : m \in ToSet(messages)} : a.kind = "Headers"}
HeadersRequested == pending \subseteq UNION {a.uids : a \in Asked}

(* The list and the headers it waits for (MessageStore.Update,             *)
(* FetchHeaders).                                                          *)
HeadersRight == TypeOK /\ UidsKnown /\ HeadersRequested

(* When all is handled the list shows the mailbox, and no message in it is *)
(* still marked as deleted by a command that failed or was refused; unless *)
(* the worker has ignored an update, a list has failed, a MessagesDeleted  *)
(* was too long, or the context of the folder is cancelled.                *)
Quiet == actions = <<>> /\ messages = <<>> /\ updates = <<>>
Settled == Quiet /\ fresh /\ ~unseen /\ ~kept
ListRight == Settled => ToSet(uids) = box
MarksReverted == Settled /\ "Move" \notin Unsupported => deleted \cap ToSet(uids) = {}

(* After a sort a message of the list is selected. *)
SortSelects ==
  [][OnSorted => uids' = <<>> \/ selected' \in ToSet(uids')]_vars

(* Time and again every message of the mailbox that is on the screen has   *)
(* its header, as long as the context of the folder is alive: a fetch that *)
(* failed, was cancelled or overtaken by a new list is asked for again.    *)
OnScreen == {u \in Rows(uids, scroll, Height) : known[u] # "info"}
HeadersShown == []<>(OnScreen \cap box = {} \/ ~fresh \/ crashed)
=============================================================================
