----------------------------- MODULE ImapExpunge -----------------------------
(***************************************************************************)
(* How the IMAP worker follows the sequence numbers of its mailbox:        *)
(* worker/imap/seqmap.go, expungehandler.go, the delete and move commands  *)
(* with their drain goroutine (flags.go, movecopy.go), handleImapUpdate    *)
(* (worker.go) and the list of messages the user interface keeps           *)
(* (lib/msgstore.go, MessagesDeleted and DirectoryContents).               *)
(*                                                                         *)
(* UIDs are numbers.  A mailbox is the set of its UIDs: the sequence       *)
(* number of a message is its rank.  SeqMap is sorted after every change,  *)
(* so it is a set as well.                                                 *)
(***************************************************************************)
EXTENDS Naturals, Integers, Sequences, FiniteSets

CONSTANTS
  Dirs,          \* mailboxes
  FirstDir,      \* the one that is open at the start
  InitialBoxes,  \* the UIDs in each of them
  MaxUid,        \* bound on these UIDs
  Servers,       \* pairs <<expunge-policy, order>> of an account and its server
  UserKinds,     \* operations of the user: "delete", "move"
  Filters,       \* whether the lists asked for are filtered: a set of Booleans
  UpdatesCap,    \* capacity of IMAPWorker.updates (50 in the code)
  MaxOps, MaxNav, MaxMails, MaxForeign, MaxFaults    \* bounds on the environment

Policies == {"auto", "low-to-high", "stable"}
Orders   == {"low-to-high", "high-to-low", "stable"}

ASSUME DirsAssumption == FirstDir \in Dirs
ASSUME UidsAssumption == MaxUid \in Nat /\ InitialBoxes \in [Dirs -> SUBSET (1..MaxUid)]
ASSUME ServersAssumption == Servers \subseteq Policies \X Orders
ASSUME KindsAssumption == UserKinds \subseteq {"delete", "move"} /\ Filters \subseteq BOOLEAN
ASSUME BoundsAssumption ==
  UpdatesCap \in Nat \ {0} /\ {MaxOps, MaxNav, MaxMails, MaxForeign, MaxFaults} \subseteq Nat

VARIABLES
  (* server *)
  box,       \* the mailboxes
  flagged,   \* the messages marked \Deleted in them
  server,    \* <<expunge-policy of the account, order of the server>>
  todo,      \* messages the running command still has to expunge
  base,      \* the mailbox when the command began
  (* worker *)
  sel,       \* the selected mailbox, client.Mailbox()
  seqmap,    \* IMAPWorker.seqMap
  expunger,  \* IMAPWorker.expunger
  updates,   \* IMAPWorker.updates
  pc,        \* "select", or where the running command is
  op,        \* the running command
  (* user interface *)
  ui,        \* UIDs in the store of every mailbox
  ask,       \* mailboxes whose contents are to be listed
  (* environment *)
  ops, nav, mails, foreign, faults,
  astray     \* history: the events that lead the worker astray

(* What can lead it astray: a command or a list that begins before the     *)
(* updates received so far are handled ("pending"), a command that fails   *)
(* ("fault"), that expunges what another client marked ("unasked"), or     *)
(* during which another client expunges ("overlap"), an update that is not *)
(* passed on because the last deletion was the user's ("suppressed"), a    *)
(* mailbox whose unfiltered list the worker has not seen ("unlisted"), a   *)
(* command in such a mailbox, whose numbers the expunger keeps ("blind"),  *)
(* and an expunge-policy that is not that of the server ("misfit").        *)
Events == {"pending", "fault", "unasked", "overlap", "suppressed", "unlisted", "blind", "misfit"}

(* The policies that are right for a server: "auto" is "not reliably       *)
(* automatically detected" for a stable one (aerc-imap(5)).                *)
Fits(policy, order) ==
  CASE policy = "auto"        -> order # "stable"
    [] policy = "low-to-high" -> order = "low-to-high"
    [] policy = "stable"      -> order # "low-to-high"

servervars == <<box, flagged, server, todo, base>>
workervars == <<sel, seqmap, expunger, updates, pc, op>>
uivars     == <<ui, ask>>
envvars    == <<ops, nav, mails, foreign, faults>>

vars == <<servervars, workervars, uivars, envvars, astray>>

EventIf(event, happened) == IF happened THEN {event} ELSE {}
WentAstray(event, happened) == astray' = astray \cup EventIf(event, happened)

SeqNum(S, u) == Cardinality({v \in S : v <= u})
Nth(S, n)    == CHOOSE u \in S : SeqNum(S, u) = n

NoExpunger == [on |-> FALSE, policy |-> "stable", items |-> <<>>, minNum |-> 0,
               forDelete |-> FALSE, gotFirst |-> FALSE]
NoOp == [kind |-> "none", dir |-> FirstDir, uids |-> {}, ok |-> TRUE]

Init ==
  /\ box = InitialBoxes /\ flagged = [d \in Dirs |-> {}]
  /\ server \in Servers /\ todo = {} /\ base = {}
  /\ sel = FirstDir /\ seqmap = InitialBoxes[FirstDir] /\ expunger = NoExpunger
  /\ updates = <<>> /\ pc = "select" /\ op = NoOp
  /\ ui = [d \in Dirs |-> IF d = FirstDir THEN InitialBoxes[d] ELSE {}] /\ ask = {}
  /\ ops = 0 /\ nav = 0 /\ mails = 0 /\ foreign = 0 /\ faults = 0
  /\ astray = EventIf("misfit", ~Fits(server[1], server[2]))

-----------------------------------------------------------------------------
(* expungehandler.go *)

(* NewExpungeHandler, with the snapshot of SeqMap.Snapshot. *)
NewExpunger(uids, forDelete) ==
  LET nums == {SeqNum(seqmap, u) : u \in uids \cap seqmap} IN
  [on |-> TRUE, policy |-> server[1], items |-> [n \in nums |-> Nth(seqmap, n)],
   minNum |-> IF nums = {} THEN 0 ELSE CHOOSE n \in nums : \A m \in nums : n <= m,
   forDelete |-> forDelete, gotFirst |-> FALSE]

Without(f, n) == [m \in DOMAIN f \ {n} |-> f[m]]

(* The keys of the code are uint32, and 0 - 1 wraps; neither that key nor  *)
(* a negative one is the sequence number of a message.                     *)
Decremented(f) == [n \in {m - 1 : m \in DOMAIN f} |-> f[n + 1]]

(* A bug: the numbers of the other messages stay. *)
PoppedKeepsNumbers(h, n) ==
  LET policy == IF h.gotFirst \/ h.policy # "auto" THEN h.policy
                ELSE IF n = h.minNum THEN "low-to-high" ELSE "stable"
  IN [h EXCEPT !.gotFirst = TRUE, !.policy = policy, !.items = Without(h.items, n)]

(* PopSequenceNumber, its effect on the handler. *)
Popped(h, n) ==
  LET policy == IF h.gotFirst \/ h.policy # "auto" THEN h.policy
                ELSE IF n = h.minNum THEN "low-to-high" ELSE "stable"
      rest   == Without(h.items, n)
  IN [h EXCEPT !.gotFirst = TRUE, !.policy = policy,
               !.items = IF n \in DOMAIN h.items /\ policy = "low-to-high"
                         THEN Decremented(rest) ELSE rest]

IsExpungingForDelete(u) ==
  expunger.forDelete /\ \E n \in DOMAIN expunger.items : expunger.items[n] = u

-----------------------------------------------------------------------------
(* lib/msgstore.go: the store of d drops deleted messages.                 *)
Dropped(d, uids) ==
  IF Cardinality(ui[d]) < Cardinality(uids) THEN ui ELSE [ui EXCEPT ![d] = @ \ uids]

(* handleImapUpdate *)
Expunge(n) == [kind |-> "expunge", seq |-> n, uid |-> 0]
Fetch(n, u) == [kind |-> "fetch", seq |-> n, uid |-> u]
Exists == [kind |-> "exists", seq |-> 0, uid |-> 0]

HandleExpunge(n) ==
  LET known == n \in DOMAIN expunger.items
      uid == IF known THEN expunger.items[n]
             ELSE IF n \in 1..Cardinality(seqmap) THEN Nth(seqmap, n) ELSE 0
  IN /\ expunger' = IF expunger.on THEN Popped(expunger, n) ELSE expunger
     /\ seqmap' = IF known THEN seqmap ELSE seqmap \ {uid}
     /\ ui' = IF uid # 0 /\ ~expunger.forDelete THEN Dropped(sel, {uid}) ELSE ui

HandleFetch(n, u) ==
  /\ seqmap' = IF ~IsExpungingForDelete(u) /\ n > Cardinality(seqmap)
               THEN seqmap \cup {u} ELSE seqmap
  /\ UNCHANGED <<expunger, ui>>

Suppressed(m) ==
  m.kind = "expunge" /\ expunger.forDelete /\ m.seq \notin DOMAIN expunger.items

Pending == \E i \in DOMAIN updates : updates[i].kind # "exists"

Update(m) ==
  \/ m.kind = "expunge" /\ HandleExpunge(m.seq)
  \/ m.kind = "fetch" /\ HandleFetch(m.seq, m.uid)
  \/ m.kind = "exists" /\ UNCHANGED <<seqmap, expunger, ui>>

(* Run receives an update.  A new message makes the worker check the mail  *)
(* and the user interface list the mailbox again, unless another one came  *)
(* less than 20 ms before.                                                 *)
HandleUpdate ==
  /\ pc = "select" /\ updates # <<>>
  /\ Update(Head(updates))
  /\ updates' = Tail(updates)
  /\ WentAstray("suppressed", Suppressed(Head(updates)))
  /\ \/ ask' = IF Head(updates).kind = "exists" THEN ask \cup {sel} ELSE ask
     \/ Head(updates).kind = "exists" /\ mails > 1 /\ ask' = ask
  /\ UNCHANGED <<servervars, sel, pc, op, envvars>>

(* A bug: the goroutine ends when the command has been sent.               *)
DrainUntilSent ==
  /\ pc = "store" /\ updates # <<>>
  /\ Update(Head(updates))
  /\ updates' = Tail(updates)
  /\ WentAstray("suppressed", Suppressed(Head(updates)))
  /\ UNCHANGED <<servervars, sel, pc, op, ask, envvars>>

(* The goroutine of drainUpdates receives an update; it skips new mail.    *)
Drain ==
  /\ pc \in {"store", "expunge", "close"} /\ updates # <<>>
  /\ Update(Head(updates))
  /\ updates' = Tail(updates)
  /\ WentAstray("suppressed", Suppressed(Head(updates)))
  /\ UNCHANGED <<servervars, sel, pc, op, ask, envvars>>

-----------------------------------------------------------------------------
(* handleDeleteMessages and handleMoveMessages *)

(* A bug: the snapshot leaves the messages in SeqMap. *)
BeginKeepsSeqMap(kind, dir, uids) ==
  /\ pc = "select" /\ ops < MaxOps
  /\ uids # {} /\ uids \subseteq ui[dir]
  /\ ops' = ops + 1
  /\ sel' = dir
  /\ expunger' = NewExpunger(uids, kind = "delete")
  /\ op' = [kind |-> kind, dir |-> dir, uids |-> uids, ok |-> TRUE]
  /\ pc' = "store"
  /\ astray' = astray \cup EventIf("pending", Pending) \cup EventIf("unlisted", dir # sel)
                  \cup EventIf("blind", dir # sel \/ "unlisted" \in astray)
  /\ UNCHANGED <<servervars, seqmap, updates, uivars, nav, mails, foreign, faults>>

(* ensureSelected, drainUpdates, BuildExpungeHandler. *)
Begin(kind, dir, uids) ==
  /\ pc = "select" /\ ops < MaxOps
  /\ uids # {} /\ uids \subseteq ui[dir]
  /\ ops' = ops + 1
  /\ sel' = dir
  /\ expunger' = NewExpunger(uids, kind = "delete")
  /\ seqmap' = seqmap \ uids
  /\ op' = [kind |-> kind, dir |-> dir, uids |-> uids, ok |-> TRUE]
  /\ pc' = "store"
  /\ astray' = astray \cup EventIf("pending", Pending) \cup EventIf("unlisted", dir # sel)
                  \cup EventIf("blind", dir # sel \/ "unlisted" \in astray)
  /\ UNCHANGED <<servervars, updates, uivars, nav, mails, foreign, faults>>

(* UidStore of \Deleted, then Expunge: the server expunges every message   *)
(* that bears the flag, whoever set it.                                    *)
StoreDeleted(notify) ==
  LET new == op.uids \cap box[sel]
      news == IF notify
              THEN [i \in 1..Cardinality(new) |-> Fetch(SeqNum(box[sel], Nth(new, i)), Nth(new, i))]
              ELSE <<>>
  IN /\ pc = "store" /\ op.kind = "delete"
     /\ Len(updates) + Len(news) <= UpdatesCap
     /\ flagged' = [flagged EXCEPT ![sel] = @ \cup new]
     /\ todo' = flagged'[sel]
     /\ base' = box[sel]
     /\ updates' = updates \o news
     /\ pc' = "expunge"
     /\ WentAstray("unasked", ~(todo' \subseteq op.uids))
     /\ UNCHANGED <<box, server, sel, seqmap, expunger, op, uivars, envvars>>

(* UidMove *)
Move ==
  /\ pc = "store" /\ op.kind = "move"
  /\ todo' = op.uids \cap box[sel]
  /\ base' = box[sel]
  /\ pc' = "expunge"
  /\ UNCHANGED <<astray, box, flagged, server, sel, seqmap, expunger, updates, op, uivars, envvars>>

(* The server expunges the next message and tells its sequence number.     *)
ServerExpunges(u) ==
  /\ pc = "expunge" /\ u \in todo
  /\ server[2] = "low-to-high" => \A v \in todo : u <= v
  /\ server[2] = "high-to-low" => \A v \in todo : u >= v
  /\ Len(updates) < UpdatesCap
  /\ updates' = Append(updates, Expunge(SeqNum(IF server[2] = "stable" THEN base
                                               ELSE box[sel], u)))
  /\ box' = [box EXCEPT ![sel] = @ \ {u}]
  /\ flagged' = [flagged EXCEPT ![sel] = @ \ {u}]
  /\ todo' = todo \ {u}
  /\ UNCHANGED <<astray, server, base, sel, seqmap, expunger, pc, op, uivars, envvars>>

CommandEnds ==
  /\ pc = "expunge" /\ todo = {}
  /\ pc' = "close"
  /\ UNCHANGED <<astray, servervars, sel, seqmap, expunger, updates, op, uivars, envvars>>

(* A command is refused, before or after some of the messages are gone.    *)
CommandFails ==
  /\ pc \in {"store", "expunge"} /\ faults < MaxFaults
  /\ faults' = faults + 1
  /\ op' = [op EXCEPT !.ok = FALSE]
  /\ todo' = {}
  /\ pc' = "close"
  /\ WentAstray("fault", TRUE)
  /\ UNCHANGED <<box, flagged, server, base, sel, seqmap, expunger, updates, uivars,
                 ops, nav, mails, foreign>>

(* A bug: the deleted messages are not announced.                          *)
CloseSilently ==
  /\ pc = "close"
  /\ pc' = "select"
  /\ UNCHANGED <<astray, servervars, sel, seqmap, expunger, updates, op, uivars, envvars>>

(* drain.Close: the goroutine may take done before the updates that are    *)
(* left.  A successful delete is announced as a whole.                     *)
Close ==
  /\ pc = "close"
  /\ ui' = IF op.kind = "delete" /\ op.ok THEN Dropped(op.dir, op.uids) ELSE ui
  /\ pc' = "select"
  /\ UNCHANGED <<astray, servervars, sel, seqmap, expunger, updates, op, ask, envvars>>

-----------------------------------------------------------------------------
(* handleOpenDirectory; the user interface then asks for the contents.     *)
Open(dir) ==
  /\ pc = "select" /\ nav < MaxNav
  /\ nav' = nav + 1
  /\ sel' = dir
  /\ ask' = ask \cup {dir}
  /\ WentAstray("unlisted", dir # sel)
  /\ UNCHANGED <<servervars, seqmap, expunger, updates, pc, op, ui, ops, mails, foreign, faults>>

(* handleFetchDirectoryContents; every message matches the filter.  Only a *)
(* list without a filter initializes the SeqMap.                           *)
Contents(dir, filter) ==
  /\ pc = "select" /\ dir \in ask
  /\ sel' = dir
  /\ seqmap' = IF filter THEN seqmap ELSE box[dir]
  /\ ui' = [ui EXCEPT ![dir] = box[dir]]
  /\ ask' = ask \ {dir}
  /\ astray' = (astray \ {"unlisted"}) \cup EventIf("pending", Pending)
                 \cup EventIf("unlisted", filter /\ seqmap # box[dir])
  /\ UNCHANGED <<servervars, expunger, updates, pc, op, envvars>>

-----------------------------------------------------------------------------
(* The rest of the world *)

NewUid == MaxUid + 1 + mails

Arrive ==
  /\ mails < MaxMails /\ Len(updates) < UpdatesCap
  /\ mails' = mails + 1
  /\ box' = [box EXCEPT ![sel] = @ \cup {NewUid}]
  /\ updates' = Append(updates, Exists)
  /\ UNCHANGED <<astray, flagged, server, todo, base, sel, seqmap, expunger, pc, op, uivars, ops,
                 nav, foreign, faults>>

(* Another client deletes a message, or marks it only: the FETCH that tells *)
(* so names no UID and changes flags alone.                                *)
ForeignExpunge(u) ==
  /\ foreign < MaxForeign /\ Len(updates) < UpdatesCap
  /\ u \in box[sel]
  /\ foreign' = foreign + 1
  /\ updates' = Append(updates, Expunge(SeqNum(box[sel], u)))
  /\ box' = [box EXCEPT ![sel] = @ \ {u}]
  /\ flagged' = [flagged EXCEPT ![sel] = @ \ {u}]
  /\ WentAstray("overlap", pc # "select")
  /\ todo' = todo \ {u}
  /\ UNCHANGED <<server, base, sel, seqmap, expunger, pc, op, uivars, ops, nav, mails,
                 faults>>

ForeignFlag(u) ==
  /\ foreign < MaxForeign
  /\ u \in box[sel] \ flagged[sel]
  /\ foreign' = foreign + 1
  /\ flagged' = [flagged EXCEPT ![sel] = @ \cup {u}]
  /\ UNCHANGED <<astray, box, server, todo, base, workervars, uivars, ops, nav, mails, faults>>

-----------------------------------------------------------------------------
User ==
  \/ \E kind \in UserKinds, d \in Dirs : \E uids \in SUBSET ui[d] : Begin(kind, d, uids)
  \/ \E d \in Dirs : Open(d)

Command ==
  \/ \E notify \in BOOLEAN : StoreDeleted(notify)
  \/ Move \/ \E u \in todo : ServerExpunges(u)
  \/ CommandEnds \/ Close

Lists == \E d \in ask, filter \in Filters : Contents(d, filter)

Environment ==
  \/ CommandFails \/ Arrive
  \/ \E u \in box[sel] : ForeignExpunge(u) \/ ForeignFlag(u)

Next == User \/ Command \/ Drain \/ HandleUpdate \/ Lists \/ Environment

(* The worker, its drain goroutine and the server go on. *)
Fairness == WF_vars(Command) /\ WF_vars(Drain)

Spec == Init /\ [][Next]_vars /\ Fairness

-----------------------------------------------------------------------------
Uids == 1..(MaxUid + MaxMails)

UpdateRecords == [kind : {"fetch"}, seq : Nat, uid : Uids]
                   \cup [kind : {"expunge", "exists"}, seq : Nat, uid : {0}]

TypeOK ==
  /\ box \in [Dirs -> SUBSET Uids] /\ flagged \in [Dirs -> SUBSET Uids]
  /\ \A d \in Dirs : flagged[d] \subseteq box[d]
  /\ server \in Servers /\ todo \subseteq box[sel] /\ base \subseteq Uids
  /\ sel \in Dirs /\ seqmap \subseteq Uids
  /\ expunger \in [on : BOOLEAN, policy : Policies, items : {expunger.items}, minNum : Nat,
                  forDelete : BOOLEAN, gotFirst : BOOLEAN]
  /\ \A n \in DOMAIN expunger.items : n \in Int /\ expunger.items[n] \in Uids
  /\ updates \in Seq(UpdateRecords) /\ Len(updates) <= UpdatesCap
  /\ pc \in {"select", "store", "expunge", "close"}
  /\ op \in [kind : {"none", "delete", "move"}, dir : Dirs, uids : SUBSET Uids, ok : BOOLEAN]
  /\ ui \in [Dirs -> SUBSET Uids] /\ ask \subseteq Dirs
  /\ {ops, nav, mails, foreign, faults} \subseteq Nat /\ mails <= MaxMails
  /\ astray \subseteq Events

Quiet == pc = "select" /\ updates = <<>>

(* Once all updates are handled, every sequence number in SeqMap is that   *)
(* of its message on the server (messages the worker has not heard of come *)
(* after them) ...                                                         *)
SeqMapRight ==
  Quiet => /\ seqmap \subseteq box[sel]
           /\ \A u \in seqmap : SeqNum(seqmap, u) = SeqNum(box[sel], u)

(* ... unless the worker was led astray. *)
SeqMapAgrees == TypeOK /\ (astray \subseteq {"suppressed"} => SeqMapRight)

(* The user interface drops a message only when the server has expunged    *)
(* it, unless the worker was led astray.                                   *)
DropsRight ==
  [][astray' \subseteq {"suppressed"} =>
       \A d \in Dirs : (ui[d] \ ui'[d]) \cap box'[d] = {}]_vars

(* Once all updates are handled, no message that is gone is still shown    *)
(* ...                                                                     *)
ShowsNoGone == Quiet => ui[sel] \subseteq box[sel]

(* ... unless the worker was led astray. *)
ShowsRight == astray = {} => ShowsNoGone

(* A delete or a move comes to its end, although the channel of updates is *)
(* bounded: the drain goroutine makes room.                                *)
Completes == pc # "select" ~> pc = "select"
=============================================================================
