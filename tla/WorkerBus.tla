------------------------------ MODULE WorkerBus ------------------------------
(***************************************************************************)
(* How the user interface and the workers of all accounts talk: the        *)
(* bounded channels of actions and of messages and the table of callbacks  *)
(* (worker/types/worker.go), the main loop (main.go, app/account.go), the  *)
(* loops of the workers, and the periodic check for mail with its lock     *)
(* (AccountView.CheckMail).                                                *)
(*                                                                         *)
(* The main goroutine posts actions and is the only one to receive         *)
(* messages; a worker posts messages and is the only one to receive its    *)
(* actions.  An IMAP worker also posts actions to itself.  Sends on a full *)
(* channel block, and so does the lock of an account.                      *)
(***************************************************************************)
EXTENDS Naturals, Sequences, FiniteSets, SequencesExt

CONSTANTS
  Accounts,    \* every account has one worker
  Imap,        \* those of IMAP; the others check for mail in a goroutine (maildir, notmuch)
  ActionsCap,  \* capacity of Worker.actions (32 in the code)
  MessagesCap, \* capacity of WorkerMessages (2048 in the code)
  MaxUser,     \* bound on the commands of the user
  MaxTicks,    \* bound on the ticks of check-mail
  MaxUpdates,  \* bound on the updates of the mail stores
  MaxFaults,   \* bound on actions that fail
  MaxDeferred, \* bound on checks for mail that give way to other actions
  MaxEvents    \* bound on the sum of the first four

ASSUME AccountsAssumption == Imap \subseteq Accounts
ASSUME BoundsAssumption ==
  /\ ActionsCap \in Nat \ {0} /\ MessagesCap \in Nat \ {0}
  /\ MaxUser \in Nat /\ MaxTicks \in Nat /\ MaxUpdates \in Nat /\ MaxFaults \in Nat
  /\ MaxDeferred \in Nat /\ MaxEvents \in Nat

VARIABLES
  actions,    \* Worker.actions of every account
  messages,   \* WorkerMessages
  callbacks,  \* Worker.actionCallbacks: the ids in it
  nextId,     \* lastId
  out,        \* what the worker has still to send before its next select
  side,       \* goroutines of handleCheckMail, with what they have still to send
  ui,         \* what the main goroutine has still to do before its next select
  posters,    \* goroutines of DirectoryList.Open and of timers, blocked or not in PostAction
  ticker,     \* the goroutine of CheckMailTimer: waits, wants the lock, or sends with it
  lock,       \* AccountView.Mutex: nobody, main or ticker
  checking,   \* AccountView.checkingMail
  early,      \* history: a check was answered before its last answer
  open,       \* history: ids whose callbacks are never deleted
  user, ticks, updates, faults, deferred   \* counters of the bounds

channels == <<actions, messages, callbacks, nextId>>
checks   == <<ticker, lock, checking>>
history  == <<early, open>>
bounds   == <<user, ticks, updates, faults, deferred>>
vars     == <<channels, out, side, ui, posters, checks, history, bounds>>

EventsLeft == user + ticks + updates + faults < MaxEvents

Act(id, kind, cb) == [id |-> id, kind |-> kind, cb |-> cb]
NoAct == Act(0, "none", FALSE)
Message(a, act, type) == [acct |-> a, act |-> act, type |-> type]
Step(do, a, act) == [do |-> do, acct |-> a, act |-> act]

(* Configure and Connect have been answered; nothing is under way. *)
Init ==
  /\ actions = [a \in Accounts |-> <<>>] /\ messages = <<>>
  /\ callbacks = [a \in Accounts |-> {}] /\ nextId = 1
  /\ out = [a \in Accounts |-> <<>>] /\ side = {} /\ ui = <<>> /\ posters = {}
  /\ ticker = [a \in Accounts |-> Step("wait", a, NoAct)]
  /\ lock = [a \in Accounts |-> "free"]
  /\ checking = [a \in Accounts |-> FALSE]
  /\ early = [a \in Accounts |-> FALSE] /\ open = {}
  /\ user = 0 /\ ticks = 0 /\ updates = 0 /\ faults = 0 /\ deferred = 0

-----------------------------------------------------------------------------
(* PostAction: the id and the callback first, then the send. *)

Register(a, cb) ==
  /\ nextId' = nextId + 1
  /\ callbacks' = IF cb THEN [callbacks EXCEPT ![a] = @ \cup {nextId}] ELSE callbacks

ActionRoom(a) == Len(actions[a]) < ActionsCap
SendAction(a, act) == ActionRoom(a) /\ actions' = [actions EXCEPT ![a] = Append(@, act)]

MessageRoom == Len(messages) < MessagesCap
SendMessage(m) == MessageRoom /\ messages' = Append(messages, m)

-----------------------------------------------------------------------------
(* Workers *)

Final == {"Done", "Error", "Cancelled", "Unsupported"}

(* What the worker of a sends for an action, in order. The check that an    *)
(* IMAP worker posts to itself is of the open folder and makes the store   *)
(* sort; the others leave that folder out.                                 *)
Reply(a, act) ==
  LET M(type) == Message(a, act, type)
      SelfPost == Message(a, Act(0, "check", FALSE), "self")
  IN CASE act.kind = "check" ->
            <<Message(a, NoAct, IF act.cb THEN "info" ELSE "news"), M("Done")>>
       [] act.kind = "read" -> <<M("info"), M("Done")>>
       [] act.kind = "store" /\ a \in Imap -> <<SelfPost, M("Done")>>
       [] OTHER -> <<M("Done")>>

(* CheckMailDirectories: with other actions waiting the rest of the         *)
(* directories, or all of them, are put off.                               *)
PutsOff(a, act) ==
  /\ act.kind = "check" /\ Len(actions[a]) > 1
  /\ deferred < MaxDeferred /\ deferred' = deferred + 1
  /\ out' = [out EXCEPT ![a] = <<Message(a, act, "more"), Message(a, act, "Done")>>]
  /\ early' = [early EXCEPT ![a] = @ \/ act.cb]

(* A fault: the action fails, is cancelled or refused. *)
Failures(a, act) ==
  {<<Message(a, act, type)>> : type \in Final \ {"Done"}}

Fault == faults < MaxFaults /\ EventsLeft /\ faults' = faults + 1

(* handleCheckMail of maildir: after errors it goes on to Done. *)
SideReply(a, act) == <<Message(a, NoAct, "info"), Message(a, act, "Done")>>
SideFailures(a, act) ==
  {<<Message(a, act, "Error")>>, <<Message(a, act, "Error"), Message(a, act, "Done")>>}

(* Run takes the next action; ProcessAction finds no callback.             *)
Receive(a) ==
  /\ out[a] = <<>> /\ actions[a] # <<>>
  /\ actions' = [actions EXCEPT ![a] = Tail(@)]
  /\ LET act == Head(actions[a]) IN
     IF act.kind = "check" /\ a \notin Imap
     THEN /\ \/ side' = side \cup {SideReply(a, act)} /\ UNCHANGED <<faults, early>>
             \/ \E rs \in SideFailures(a, act) :
                  /\ side' = side \cup {rs} /\ Fault
                  /\ early' = [early EXCEPT ![a] = @ \/ Len(rs) > 1]
          /\ UNCHANGED <<out, deferred>>
     ELSE /\ \/ /\ out' = [out EXCEPT ![a] = Reply(a, act)]
                /\ UNCHANGED <<faults, deferred, early>>
             \/ PutsOff(a, act) /\ UNCHANGED faults
             \/ \E rs \in Failures(a, act) :
                  /\ out' = [out EXCEPT ![a] = rs] /\ Fault
                  /\ UNCHANGED <<deferred, early>>
          /\ UNCHANGED side
  /\ UNCHANGED <<messages, callbacks, nextId, ui, posters, checks, open, user, ticks, updates>>

(* An update of the mail store: news for the user interface, or a check    *)
(* that an IMAP worker posts to itself.                                    *)
Update(a) ==
  /\ out[a] = <<>> /\ updates < MaxUpdates /\ EventsLeft
  /\ updates' = updates + 1
  /\ \E m \in {Message(a, NoAct, "news")}
                \cup (IF a \in Imap THEN {Message(a, Act(0, "check", FALSE), "self")} ELSE {}) :
       out' = [out EXCEPT ![a] = <<m>>]
  /\ UNCHANGED <<channels, side, ui, posters, checks, history, user, ticks, faults, deferred>>

WorkerSends(a) ==
  /\ out[a] # <<>>
  /\ out' = [out EXCEPT ![a] = Tail(@)]
  /\ LET m == Head(out[a]) IN
     IF m.type = "self"
     THEN /\ SendAction(a, Act(nextId, m.act.kind, FALSE))
          /\ Register(a, FALSE)
          /\ UNCHANGED messages
     ELSE SendMessage(m) /\ UNCHANGED <<actions, callbacks, nextId>>
  /\ UNCHANGED <<side, ui, posters, checks, history, bounds>>

SideSends(rs) ==
  /\ SendMessage(Head(rs))
  /\ side' = (side \ {rs}) \cup (IF Len(rs) > 1 THEN {Tail(rs)} ELSE {})
  /\ UNCHANGED <<actions, callbacks, nextId, out, ui, posters, checks, history, bounds>>

-----------------------------------------------------------------------------
(* The goroutines beside the main one *)

PosterSends(p) ==
  /\ SendAction(p.acct, p.act)
  /\ posters' = posters \ {p}
  /\ UNCHANGED <<messages, callbacks, nextId, out, side, ui, checks, history, bounds>>

Tick(a) ==
  /\ ticker[a].do = "wait" /\ ticks < MaxTicks /\ EventsLeft
  /\ ticks' = ticks + 1
  /\ ticker' = [ticker EXCEPT ![a] = Step("lock", a, NoAct)]
  /\ UNCHANGED <<channels, out, side, ui, posters, lock, checking, history, user, updates, faults, deferred>>

(* Bugs: the early return keeps the lock; checkingMail is not looked at.   *)
TickLocksForGood(a) ==
  /\ ticker[a].do = "lock" /\ lock[a] = "free"
  /\ IF checking[a]
     THEN /\ ticker' = [ticker EXCEPT ![a] = Step("wait", a, NoAct)]
          /\ lock' = [lock EXCEPT ![a] = "ticker"]
          /\ UNCHANGED <<checking, callbacks, nextId>>
     ELSE /\ checking' = [checking EXCEPT ![a] = TRUE]
          /\ lock' = [lock EXCEPT ![a] = "ticker"]
          /\ Register(a, TRUE)
          /\ ticker' = [ticker EXCEPT ![a] = Step("send", a, Act(nextId, "check", TRUE))]
  /\ UNCHANGED <<actions, messages, out, side, ui, posters, history, bounds>>

(* CheckMail in the goroutine of the ticker. It posts with the lock held.  *)
TickLocks(a) ==
  /\ ticker[a].do = "lock" /\ lock[a] = "free"
  /\ IF checking[a]
     THEN /\ ticker' = [ticker EXCEPT ![a] = Step("wait", a, NoAct)]
          /\ UNCHANGED <<lock, checking, callbacks, nextId>>
     ELSE /\ checking' = [checking EXCEPT ![a] = TRUE]
          /\ lock' = [lock EXCEPT ![a] = "ticker"]
          /\ Register(a, TRUE)
          /\ ticker' = [ticker EXCEPT ![a] = Step("send", a, Act(nextId, "check", TRUE))]
  /\ UNCHANGED <<actions, messages, out, side, ui, posters, history, bounds>>

TickSends(a) ==
  /\ ticker[a].do = "send"
  /\ SendAction(a, ticker[a].act)
  /\ ticker' = [ticker EXCEPT ![a] = Step("wait", a, NoAct)]
  /\ lock' = [lock EXCEPT ![a] = "free"]
  /\ UNCHANGED <<messages, callbacks, nextId, out, side, ui, posters, checking, history, bounds>>

-----------------------------------------------------------------------------
(* The main goroutine *)

Called(m) == m.act.id \in callbacks[m.acct]
CheckCalled(m) == Called(m) /\ m.act.kind = "check"

(* A bug: an error leaves checkingMail set. *)
CallbackOnDoneOnly(m) ==
  CASE CheckCalled(m) /\ m.type = "more" -> <<Step("post", m.acct, Act(0, "check", TRUE))>>
    [] CheckCalled(m) /\ m.type = "Done" -> <<Step("reset", m.acct, NoAct)>>
    [] OTHER -> <<>>

(* The callback of the action: that of CheckMail goes on with the rest of  *)
(* the directories, or resets checkingMail; others only draw.              *)
Callback(m) ==
  CASE CheckCalled(m) /\ m.type = "more" -> <<Step("post", m.acct, Act(0, "check", TRUE))>>
    [] CheckCalled(m) /\ m.type # "more" -> <<Step("reset", m.acct, NoAct)>>
    [] OTHER -> <<>>

(* A bug: only Done deletes the callback. *)
DeletionOnDoneOnly(m) ==
  IF Called(m) /\ m.type = "Done" THEN <<Step("delete", m.acct, m.act)>> ELSE <<>>

(* ProcessMessage deletes the callback after Done and Cancelled. *)
Deletion(m) ==
  IF Called(m) /\ m.type \in {"Done", "Cancelled"} THEN <<Step("delete", m.acct, m.act)>> ELSE <<>>

(* onMessage: the store lists a folder that was opened or has changed. *)
OnMessage(m) ==
  IF (m.type = "Done" /\ m.act.kind = "open") \/ m.type = "news"
  THEN <<Step("post", m.acct, Act(0, "read", FALSE))>> ELSE <<>>

MainReceives ==
  /\ ui = <<>> /\ messages # <<>>
  /\ messages' = Tail(messages)
  /\ LET m == Head(messages) IN
     /\ ui' = Callback(m) \o Deletion(m) \o OnMessage(m)
     /\ open' = IF m.type \in {"Error", "Unsupported"} THEN open \cup {m.act.id} ELSE open
  /\ UNCHANGED <<actions, callbacks, nextId, out, side, posters, checks, early, bounds>>

(* A command of the user: a fetch or a change with a callback, :check-mail, *)
(* or a folder that is opened by a goroutine of its own.                   *)
Command(a) ==
  /\ ui = <<>> /\ user < MaxUser /\ EventsLeft
  /\ user' = user + 1
  /\ \/ \E kind \in {"read", "store"} : ui' = <<Step("post", a, Act(0, kind, TRUE))>>
        /\ UNCHANGED <<posters, callbacks, nextId>>
     \/ ui' = <<Step("check", a, NoAct)>> /\ UNCHANGED <<posters, callbacks, nextId>>
     \/ /\ Register(a, TRUE)
        /\ posters' = posters \cup {Step("send", a, Act(nextId, "open", TRUE))}
        /\ UNCHANGED ui
  /\ UNCHANGED <<actions, messages, out, side, checks, history, ticks, updates, faults, deferred>>

Does(do) == ui # <<>> /\ Head(ui).do = do
me == Head(ui)

MainRegisters ==
  /\ Does("post")
  /\ Register(me.acct, me.act.cb)
  /\ ui' = <<Step("send", me.acct, [me.act EXCEPT !.id = nextId])>> \o Tail(ui)
  /\ UNCHANGED <<actions, messages, out, side, posters, checks, history, bounds>>

MainSends ==
  /\ Does("send")
  /\ SendAction(me.acct, me.act)
  /\ ui' = Tail(ui)
  /\ UNCHANGED <<messages, callbacks, nextId, out, side, posters, checks, history, bounds>>

MainDeletes ==
  /\ Does("delete")
  /\ callbacks' = [callbacks EXCEPT ![me.acct] = @ \ {me.act.id}]
  /\ ui' = Tail(ui)
  /\ UNCHANGED <<actions, messages, nextId, out, side, posters, checks, history, bounds>>

(* The callback of CheckMail takes the lock for a moment. *)
MainResets ==
  /\ Does("reset") /\ lock[me.acct] = "free"
  /\ checking' = [checking EXCEPT ![me.acct] = FALSE]
  /\ ui' = Tail(ui)
  /\ UNCHANGED <<channels, out, side, posters, ticker, lock, history, bounds>>

(* CheckMail in the main goroutine; it posts with the lock held, too. *)
MainChecks ==
  /\ Does("check") /\ lock[me.acct] = "free"
  /\ IF checking[me.acct]
     THEN ui' = Tail(ui) /\ UNCHANGED <<lock, checking, callbacks, nextId>>
     ELSE /\ checking' = [checking EXCEPT ![me.acct] = TRUE]
          /\ lock' = [lock EXCEPT ![me.acct] = "main"]
          /\ Register(me.acct, TRUE)
          /\ ui' = <<Step("send", me.acct, Act(nextId, "check", TRUE)),
                     Step("unlock", me.acct, NoAct)>> \o Tail(ui)
  /\ UNCHANGED <<actions, messages, out, side, posters, ticker, history, bounds>>

MainUnlocks ==
  /\ Does("unlock")
  /\ lock' = [lock EXCEPT ![me.acct] = "free"]
  /\ ui' = Tail(ui)
  /\ UNCHANGED <<channels, out, side, posters, ticker, checking, history, bounds>>

-----------------------------------------------------------------------------
Main == \/ MainReceives \/ MainRegisters \/ MainSends \/ MainDeletes \/ MainResets \/ MainChecks
        \/ MainUnlocks
Worker(a) == Receive(a) \/ WorkerSends(a)
Others(a) == TickLocks(a) \/ TickSends(a)

Next ==
  \/ Main
  \/ \E a \in Accounts : Worker(a) \/ Others(a) \/ Update(a) \/ Tick(a) \/ Command(a)
  \/ \E rs \in side : SideSends(rs)
  \/ \E p \in posters : PosterSends(p)

(* Every goroutine that can run runs; a channel serves its senders, and a   *)
(* lock its waiters, in turn.                                              *)
Fairness ==
  /\ WF_vars(Main)
  /\ \A a \in Accounts : WF_vars(Worker(a)) /\ WF_vars(Others(a))
  /\ WF_vars(\E rs \in side : SideSends(rs))
  /\ WF_vars(\E p \in posters : PosterSends(p))

Spec == Init /\ [][Next]_vars /\ Fairness

-----------------------------------------------------------------------------
Acts == [id : Nat, kind : {"none", "check", "open", "read", "store"}, cb : BOOLEAN]
Messages == [acct : Accounts, act : Acts,
             type : Final \cup {"more", "info", "news", "self"}]
Steps == [do : {"wait", "lock", "send", "post", "reset", "delete", "check", "unlock"},
          acct : Accounts, act : Acts]

(* Types of the variables. *)
TypeOK ==
  /\ actions \in [Accounts -> Seq(Acts)] /\ \A a \in Accounts : Len(actions[a]) <= ActionsCap
  /\ messages \in Seq(Messages) /\ Len(messages) <= MessagesCap
  /\ callbacks \in [Accounts -> SUBSET Nat] /\ nextId \in Nat
  /\ out \in [Accounts -> Seq(Messages)] /\ side \subseteq Seq(Messages)
  /\ ui \in Seq(Steps) /\ posters \subseteq Steps /\ ticker \in [Accounts -> Steps]
  /\ lock \in [Accounts -> {"free", "main", "ticker"}] /\ checking \in [Accounts -> BOOLEAN]
  /\ early \in [Accounts -> BOOLEAN] /\ open \subseteq Nat
  /\ user \in Nat /\ ticks \in Nat /\ updates \in Nat /\ faults \in Nat /\ deferred \in Nat

(* The actions of an account that wait for an answer, wherever they or     *)
(* their answers are.                                                      *)
InFlight(a) ==
  ToSet(actions[a])
    \cup {m.act : m \in {n \in ToSet(messages) \cup ToSet(out[a]) \cup UNION {ToSet(rs) : rs \in side} :
                           n.acct = a /\ n.type # "self"}}
    \cup {s.act : s \in {t \in ToSet(ui) \cup posters \cup {ticker[a]} :
                           t.acct = a /\ t.do = "send"}}

(* An answer always finds the callback it was asked with, intermediate     *)
(* answers and the last one alike (actionCallbacks).                       *)
Registered ==
  \A a \in Accounts : \A act \in InFlight(a) : act.cb => act.id \in callbacks[a]

(* The table of callbacks does not grow but for actions that failed or were *)
(* refused.                                                                *)
Forgotten(a) == callbacks[a] \ ({act.id : act \in InFlight(a)} \cup open)
TableClean ==
  \A a \in Accounts : Forgotten(a) \subseteq
    {s.act.id : s \in {t \in ToSet(ui) : t.do = "delete" /\ t.acct = a}}

(* The callbacks of the worker's answers: there when needed, gone          *)
(* afterwards (types.Worker ProcessMessage).                               *)
CallbacksRight == TypeOK /\ Registered /\ TableClean

(* checkingMail is never left set: a check with a callback is under way or *)
(* the callback is about to reset it; else mail would never be checked for *)
(* again.                                                                  *)
Checks(a) == {act \in InFlight(a) : act.kind = "check" /\ act.cb}
Reset(a) == \E s \in ToSet(ui) : s.acct = a /\ s.do \in {"reset", "post"}
CheckingResets == \A a \in Accounts : checking[a] => Checks(a) # {} \/ Reset(a)

(* checkingMail keeps a second check from starting, unless the first was    *)
(* answered early (with the rest of the directories, or with an error and  *)
(* then with Done).                                                        *)
OneCheck == \A a \in Accounts : ~early[a] => Cardinality(Checks(a)) <= 1

(* The flag of the check for mail (AccountView.CheckMail) is set while one  *)
(* check is under way, and only then.                                      *)
ChecksRight == CheckingResets /\ OneCheck

(* The only ways in which everyone waits for everyone: a worker posts to    *)
(* itself when its queue is full; or the main goroutine waits for a worker *)
(* that waits for the main goroutine to take messages, either in its own   *)
(* send or for a lock that the ticker holds in its send.                   *)
WaitsFor(a) ==
  /\ ~ActionRoom(a) /\ ui # <<>> /\ me.acct = a
  /\ \/ me.do = "send"
     \/ me.do \in {"reset", "check"} /\ lock[a] = "ticker"
Circle ==
  \E a \in Accounts :
    /\ out[a] # <<>>
    /\ \/ Head(out[a]).type = "self" /\ ~ActionRoom(a)
       \/ Head(out[a]).type # "self" /\ ~MessageRoom /\ WaitsFor(a)

(* As long as none of them occurs every action is answered and the main    *)
(* loop returns to its select.                                             *)
Answered == []<>(Circle \/ (ui = <<>> /\ \A a \in Accounts : InFlight(a) \subseteq {NoAct}))
=============================================================================
