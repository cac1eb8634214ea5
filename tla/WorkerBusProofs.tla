---------------------------- MODULE WorkerBusProofs ----------------------------
(***************************************************************************)
(* For any number of accounts and any capacities of the channels: an       *)
(* answer finds the callback of its action, the table of callbacks keeps   *)
(* nothing it should have forgotten, the flag of the check for mail is set *)
(* while a check is under way, and no second check starts meanwhile.       *)
(*                                                                         *)
(* The argument follows an action from place to place: it is held by the   *)
(* goroutine that posts it, then queued, then its answers are held by the  *)
(* worker, then by WorkerMessages, and at last its callback is deleted.    *)
(* An id is never in two of these places, but for answers of which the     *)
(* first have been sent and the rest not.                                  *)
(***************************************************************************)
EXTENDS WorkerBus, FiniteSetTheorems, TLAPS

-----------------------------------------------------------------------------
(* Where actions are *)

Places == {"main", "poster", "ticker", "queued", "out", "side", "message", "deleting"}
Answering == {"out", "side", "message"}

Sent(s, a) == s.acct = a /\ s.do = "send"

Held(p, a) ==
  CASE p = "main"     -> {ui[k].act : k \in {j \in 1..Len(ui) : Sent(ui[j], a)}}
    [] p = "poster"   -> {s.act : s \in {t \in posters : Sent(t, a)}}
    [] p = "ticker"   -> {s.act : s \in {t \in {ticker[a]} : Sent(t, a)}}
    [] p = "queued"   -> {actions[a][k] : k \in 1..Len(actions[a])}
    [] p = "out"      -> {out[a][k].act : k \in {j \in 1..Len(out[a]) : out[a][j].type # "self"}}
    [] p = "side"     -> UNION {{rs[k].act : k \in {j \in 1..Len(rs) : rs[j].acct = a}} : rs \in side}
    [] p = "message"  -> {messages[k].act : k \in {j \in 1..Len(messages) : messages[j].acct = a}}
    [] p = "deleting" -> {ui[k].act : k \in {j \in 1..Len(ui) : ui[j].acct = a /\ ui[j].do = "delete"}}

(* No other answer follows this one. *)
Ends(m) ==
  \/ m.type \in {"Done", "Cancelled"}
  \/ m.act.kind = "check" /\ m.act.cb /\ ~early[m.acct]

-----------------------------------------------------------------------------
(* The inductive invariant *)

(* Ids are given out once; 0 is no id. *)
IdsFresh ==
  /\ nextId > 0
  /\ \A a \in Accounts : \A i \in callbacks[a] : 0 < i /\ i < nextId
  /\ \A p \in Places, a \in Accounts : \A x \in Held(p, a) :
       /\ x.id < nextId
       /\ p \notin Answering => x.id # 0

(* An action has its callback in the table, and only an action posted with  *)
(* a callback has one.                                                     *)
TableRight ==
  \A p \in Places, a \in Accounts : \A x \in Held(p, a) : x.cb <=> x.id \in callbacks[a]

(* What is in the table is under way, or failed. *)
TableUsed ==
  \A a \in Accounts : \A i \in callbacks[a] :
    i \in open \/ \E p \in Places : \E x \in Held(p, a) : x.id = i

Shared(p, q) == p = q \/ {p, q} = {"message", "out"} \/ {p, q} = {"message", "side"}

(* An id belongs to one action of one account, which is in one place. *)
OnePlace ==
  \A p, q \in Places, a, b \in Accounts : \A x \in Held(p, a), y \in Held(q, b) :
    x.id = y.id /\ x.id # 0 => a = b /\ x = y /\ Shared(p, q)

(* ... and once in a queue of actions. *)
QueuedOnce ==
  \A a \in Accounts : \A k, l \in 1..Len(actions[a]) :
    actions[a][k].id = actions[a][l].id => k = l

(* What a worker still has to send of an action: the last answer is last. *)
Answers(a, rs) ==
  /\ Len(rs) <= 2
  /\ \A k \in 1..Len(rs) :
       /\ rs[k].acct = a
       /\ rs[k].type = "self" => rs[k].act = Act(0, "check", FALSE)
       /\ rs[k].act.id = 0 => ~rs[k].act.cb
       /\ rs[k].act.id # 0 /\ rs[k].type \notin Final => k = 1 /\ Len(rs) = 2
  /\ Len(rs) = 2 =>
       /\ rs[2].act.id # 0 /\ rs[2].type \in Final
       /\ rs[1].act.id # 0 => rs[1].act = rs[2].act /\ ~Ends(rs[1])

OutRight == \A a \in Accounts : Answers(a, out[a])

SideRight ==
  /\ \A rs \in side : /\ rs # <<>> /\ rs[Len(rs)].act.id # 0
                      /\ \E a \in Accounts : Answers(a, rs)
                      /\ \A k \in 1..Len(rs) : rs[k].type # "self"
  /\ \A rs, rt \in side : rs[Len(rs)].act.id = rt[Len(rt)].act.id => rs = rt

(* Messages: after the last answer comes no other, before the last there    *)
(* is one to come.                                                         *)
Later(k) ==
  LET m == messages[k]
  IN \/ \E l \in 1..Len(messages) :
          l > k /\ messages[l].acct = m.acct /\ messages[l].act = m.act
     \/ m.act \in Held("out", m.acct) \cup Held("side", m.acct)

MessageRight(k) ==
  LET m == messages[k]
  IN /\ m.type # "self"
     /\ m.act.id = 0 => ~m.act.cb
     /\ m.act.id # 0 => /\ Ends(m) => ~Later(k)
                        /\ m.type \notin Final => Later(k)

MessagesRight == \A k \in 1..Len(messages) : MessageRight(k)

(* What the main goroutine has still to do. *)
UiRight ==
  /\ \A k, l \in 1..Len(ui) : ui[k].do = ui[l].do => k = l
  /\ \A k \in 1..Len(ui) :
       /\ ui[k].do = "send" => k = 1
       /\ ui[k].do = "check" => Len(ui) = 1

HoldersRight ==
  /\ \A p \in posters : p.do = "send"
  /\ \A a \in Accounts : ticker[a].acct = a

(* The flag of the check for mail. *)
Resets(s) == s.do = "reset" \/ (s.do = "post" /\ s.act.kind = "check" /\ s.act.cb)

CheckingOwned ==
  \A a \in Accounts : checking[a] =>
    \/ \E p \in Places \ {"deleting"} : \E x \in Held(p, a) : x.kind = "check" /\ x.cb
    \/ \E k \in 1..Len(ui) : ui[k].acct = a /\ Resets(ui[k])

CheckHeld(p, a, x) == p # "deleting" /\ x \in Held(p, a) /\ x.kind = "check" /\ x.cb

CheckAlone ==
  \A a \in Accounts : ~early[a] =>
    /\ \A p, q \in Places : \A x \in Held(p, a), y \in Held(q, a) :
         CheckHeld(p, a, x) /\ CheckHeld(q, a, y) => x.id = y.id
    /\ \A p \in Places : \A x \in Held(p, a) : CheckHeld(p, a, x) => checking[a]
    /\ \A k \in 1..Len(ui) : ui[k].acct = a /\ Resets(ui[k]) =>
         /\ ui[k].do = "reset" /\ checking[a]
         /\ \A p \in Places : \A x \in Held(p, a) : ~CheckHeld(p, a, x)

IInv ==
  /\ TypeOK /\ IdsFresh /\ TableRight /\ TableUsed /\ OnePlace /\ QueuedOnce
  /\ OutRight /\ SideRight /\ MessagesRight /\ UiRight /\ HoldersRight
  /\ CheckingOwned /\ CheckAlone

-----------------------------------------------------------------------------
(* Types *)

LEMMA SeqTail ==
  ASSUME NEW S, NEW s \in Seq(S), s # <<>>
  PROVE  /\ Tail(s) \in Seq(S) /\ Len(Tail(s)) = Len(s) - 1 /\ Len(s) \in Nat /\ Len(s) > 0
         /\ Head(s) = s[1] /\ s[1] \in S /\ Head(s) \in S
         /\ \A k \in 1..Len(Tail(s)) : Tail(s)[k] = s[k + 1] /\ k + 1 \in 1..Len(s)
OBVIOUS

LEMMA SeqAppend ==
  ASSUME NEW S, NEW s \in Seq(S), NEW e \in S
  PROVE  /\ Append(s, e) \in Seq(S) /\ Len(Append(s, e)) = Len(s) + 1 /\ Len(s) \in Nat
         /\ Append(s, e)[Len(s) + 1] = e
         /\ \A k \in 1..Len(s) : Append(s, e)[k] = s[k]
OBVIOUS

LEMMA SeqShort ==
  ASSUME NEW S
  PROVE  /\ <<>> \in Seq(S) /\ Len(<<>>) = 0
         /\ \A x \in S : <<x>> \in Seq(S) /\ Len(<<x>>) = 1 /\ <<x>>[1] = x
         /\ \A x, y \in S : <<x, y>> \in Seq(S) /\ Len(<<x, y>>) = 2 /\ <<x, y>>[1] = x /\ <<x, y>>[2] = y
OBVIOUS

LEMMA SeqConcat ==
  ASSUME NEW S, NEW s \in Seq(S), NEW t \in Seq(S)
  PROVE  /\ s \o t \in Seq(S) /\ Len(s \o t) = Len(s) + Len(t) /\ Len(s) \in Nat /\ Len(t) \in Nat
         /\ \A k \in 1..Len(s) : (s \o t)[k] = s[k]
         /\ \A k \in 1..Len(t) : (s \o t)[Len(s) + k] = t[k]
OBVIOUS

LEMMA ReplyTypes ==
  ASSUME NEW a \in Accounts, NEW act \in Acts
  PROVE  /\ Reply(a, act) \in Seq(Messages)
         /\ Failures(a, act) \subseteq Seq(Messages)
         /\ SideReply(a, act) \in Seq(Messages)
         /\ SideFailures(a, act) \subseteq Seq(Messages)
<1>1. NoAct \in Acts /\ Act(0, "check", FALSE) \in Acts
  BY DEF NoAct, Act, Acts
<1>2. \A x \in Acts, t \in Final \cup {"more", "info", "news", "self"} : Message(a, x, t) \in Messages
  BY DEF Message, Messages
<1> DEFINE M(type) == Message(a, act, type)
<1>3. Reply(a, act) \in Seq(Messages)
  <2>1. M("info") \in Messages /\ M("Done") \in Messages
    BY <1>2 DEF Final
  <2>2. /\ Message(a, NoAct, "info") \in Messages /\ Message(a, NoAct, "news") \in Messages
        /\ Message(a, Act(0, "check", FALSE), "self") \in Messages
    BY <1>1, <1>2
  <2>3. Reply(a, act) \in {<<Message(a, NoAct, "info"), M("Done")>>, <<Message(a, NoAct, "news"), M("Done")>>,
                            <<M("info"), M("Done")>>, <<Message(a, Act(0, "check", FALSE), "self"), M("Done")>>,
                            <<M("Done")>>}
    BY DEF Reply
  <2> HIDE DEF M
  <2>4. \A x, y \in Messages : <<x, y>> \in Seq(Messages) /\ <<y>> \in Seq(Messages)
    BY SeqShort
  <2> HIDE DEF Messages
  <2>5. QED
    BY <2>1, <2>2, <2>3, <2>4
<1>4. Failures(a, act) \subseteq Seq(Messages)
  BY <1>2, SeqShort DEF Failures
<1>5. SideReply(a, act) \in Seq(Messages)
  BY <1>1, <1>2, SeqShort DEF SideReply, Final
<1>6. SideFailures(a, act) \subseteq Seq(Messages)
  BY <1>1, <1>2, SeqShort DEF SideFailures, Final
<1>7. QED
  BY <1>3, <1>4, <1>5, <1>6

LEMMA RegisterTypes ==
  ASSUME TypeOK, NEW a \in Accounts, NEW cb \in BOOLEAN, Register(a, cb)
  PROVE  nextId' \in Nat /\ callbacks' \in [Accounts -> SUBSET Nat]
BY DEF TypeOK, Register

LEMMA SendTypes ==
  ASSUME TypeOK
  PROVE  /\ \A a \in Accounts, act \in Acts : SendAction(a, act) =>
              actions' \in [Accounts -> Seq(Acts)] /\ \A b \in Accounts : Len(actions'[b]) <= ActionsCap
         /\ \A m \in Messages : SendMessage(m) =>
              messages' \in Seq(Messages) /\ Len(messages') <= MessagesCap
<1>1. ASSUME NEW a \in Accounts, NEW act \in Acts, SendAction(a, act)
      PROVE  actions' \in [Accounts -> Seq(Acts)] /\ \A b \in Accounts : Len(actions'[b]) <= ActionsCap
  BY <1>1, BoundsAssumption DEF TypeOK, SendAction, ActionRoom
<1>2. ASSUME NEW m \in Messages, SendMessage(m)
      PROVE  messages' \in Seq(Messages) /\ Len(messages') <= MessagesCap
  BY <1>2, BoundsAssumption DEF TypeOK, SendMessage, MessageRoom
<1>3. QED
  BY <1>1, <1>2

LEMMA UiTypes ==
  ASSUME TypeOK, ui # <<>>
  PROVE  /\ me \in Steps /\ me.acct \in Accounts /\ me.act \in Acts
         /\ me.act.id \in Nat /\ me.act.cb \in BOOLEAN
         /\ Tail(ui) \in Seq(Steps)
         /\ me = ui[1] /\ 1 \in 1..Len(ui)
<1>1. ui \in Seq(Steps)
  BY DEF TypeOK
<1>2. Tail(ui) \in Seq(Steps) /\ me = ui[1] /\ 1 \in 1..Len(ui) /\ me \in Steps
  BY <1>1, SeqTail DEF me
<1>3. QED
  BY <1>2 DEF Steps, Acts

LEMMA ActTypes ==
  /\ NoAct \in Acts
  /\ \A i \in Nat, k \in {"none", "check", "open", "read", "store"}, cb \in BOOLEAN : Act(i, k, cb) \in Acts
  /\ \A a \in Accounts, x \in Acts :
       \A do \in {"wait", "lock", "send", "post", "reset", "delete", "check", "unlock"} :
         Step(do, a, x) \in Steps
BY DEF NoAct, Act, Acts, Step, Steps

LEMMA AnswerTypes ==
  ASSUME TypeOK, NEW m \in Messages
  PROVE  /\ Callback(m) \in Seq(Steps) /\ Deletion(m) \in Seq(Steps) /\ OnMessage(m) \in Seq(Steps)
         /\ m.acct \in Accounts /\ m.act \in Acts /\ m.act.id \in Nat
<1>1. m.acct \in Accounts /\ m.act \in Acts /\ m.act.id \in Nat
  BY DEF Messages, Acts
<1>2. /\ Step("post", m.acct, Act(0, "check", TRUE)) \in Steps
      /\ Step("reset", m.acct, NoAct) \in Steps
      /\ Step("delete", m.acct, m.act) \in Steps
      /\ Step("post", m.acct, Act(0, "read", FALSE)) \in Steps
  BY <1>1, ActTypes
<1>3. QED
  BY <1>1, <1>2, SeqShort DEF Callback, Deletion, OnMessage

LEMMA TypeInit == Init => TypeOK
<1> SUFFICES ASSUME Init PROVE TypeOK
  OBVIOUS
<1>1. \A a \in Accounts : Step("wait", a, NoAct) \in Steps
  BY ActTypes
<1>2. QED
  BY <1>1, BoundsAssumption DEF Init, TypeOK

LEMMA TypeStep ==
  ASSUME TypeOK, SideRight, [Next]_vars
  PROVE  TypeOK'
<1> USE DEF TypeOK
<1>1. ASSUME NEW a \in Accounts, Receive(a) PROVE TypeOK'
  <2> DEFINE act == Head(actions[a])
  <2>1. act \in Acts /\ act.cb \in BOOLEAN /\ Tail(actions[a]) \in Seq(Acts) /\ Len(Tail(actions[a])) <= ActionsCap
    <3>1. actions[a] \in Seq(Acts) /\ actions[a] # <<>> /\ Len(actions[a]) <= ActionsCap
      BY <1>1 DEF Receive
    <3>2. act \in Acts /\ Tail(actions[a]) \in Seq(Acts) /\ Len(Tail(actions[a])) <= ActionsCap
      BY <3>1, SeqTail, BoundsAssumption
    <3>3. QED
      BY <3>2 DEF Acts
  <2>2. /\ Reply(a, act) \in Seq(Messages) /\ SideReply(a, act) \in Seq(Messages)
        /\ Failures(a, act) \subseteq Seq(Messages) /\ SideFailures(a, act) \subseteq Seq(Messages)
    BY <2>1, ReplyTypes
  <2>3. <<Message(a, act, "more"), Message(a, act, "Done")>> \in Seq(Messages)
    BY <2>1, SeqShort DEF Message, Messages, Final
  <2>4. actions' \in [Accounts -> Seq(Acts)] /\ \A b \in Accounts : Len(actions'[b]) <= ActionsCap
    BY <1>1, <2>1 DEF Receive
  <2> HIDE DEF act
  <2>5. side' \subseteq Seq(Messages) /\ out' \in [Accounts -> Seq(Messages)]
    <3>1. CASE act.kind = "check" /\ a \notin Imap
      BY <1>1, <2>2, <3>1 DEF Receive, act
    <3>2. CASE ~(act.kind = "check" /\ a \notin Imap)
      <4>1. \E rs \in Seq(Messages) : out' = [out EXCEPT ![a] = rs]
        BY <1>1, <2>2, <2>3, <3>2 DEF Receive, PutsOff, act
      <4>2. QED
        BY <1>1, <3>2, <4>1 DEF Receive, act
    <3>3. QED
      BY <3>1, <3>2
  <2>6. early' \in [Accounts -> BOOLEAN] /\ deferred' \in Nat /\ faults' \in Nat
    <3>1. early[a] \in BOOLEAN /\ \A rs : (Len(rs) > 1) \in BOOLEAN
      OBVIOUS
    <3>2. early' = early \/ \E v \in BOOLEAN : early' = [early EXCEPT ![a] = v]
      BY <1>1, <2>1, <3>1 DEF Receive, PutsOff, act
    <3>3. early' \in [Accounts -> BOOLEAN]
      BY <3>2
    <3>4. deferred' \in Nat /\ faults' \in Nat
      BY <1>1 DEF Receive, PutsOff, Fault, act
    <3>5. QED
      BY <3>3, <3>4
  <2>7. QED
    BY <1>1, <2>4, <2>5, <2>6 DEF Receive, checks
<1>2. ASSUME NEW a \in Accounts, Update(a) PROVE TypeOK'
  <2>1. \A m \in {Message(a, NoAct, "news")}
                \cup (IF a \in Imap THEN {Message(a, Act(0, "check", FALSE), "self")} ELSE {}) :
          m \in Messages
    <3>1. NoAct \in Acts /\ Act(0, "check", FALSE) \in Acts
      BY ActTypes
    <3>2. Message(a, NoAct, "news") \in Messages /\ Message(a, Act(0, "check", FALSE), "self") \in Messages
      BY <3>1 DEF Message, Messages
    <3>3. QED
      BY <3>2
  <2>2. out' \in [Accounts -> Seq(Messages)]
    <3>1. \E rs \in Seq(Messages) : out' = [out EXCEPT ![a] = rs]
      BY <1>2, <2>1, SeqShort DEF Update
    <3>2. QED
      BY <3>1
  <2>3. QED
    BY <1>2, <2>2 DEF Update, channels, checks, history
<1>3. ASSUME NEW a \in Accounts, WorkerSends(a) PROVE TypeOK'
  <2> DEFINE m == Head(out[a])
  <2>1. m \in Messages /\ Tail(out[a]) \in Seq(Messages)
    BY <1>3, SeqTail DEF WorkerSends
  <2>7. m.act.kind \in {"none", "check", "open", "read", "store"}
    BY <2>1 DEF Messages, Acts
  <2>2. Act(nextId, m.act.kind, FALSE) \in Acts
    BY <2>7, ActTypes
  <2>3. out' \in [Accounts -> Seq(Messages)]
    BY <1>3, <2>1 DEF WorkerSends
  <2>4. CASE m.type = "self"
    BY <1>3, <2>2, <2>3, <2>4, RegisterTypes, SendTypes DEF WorkerSends, checks, history, bounds
  <2>5. CASE m.type # "self"
    BY <1>3, <2>1, <2>3, <2>5, SendTypes DEF WorkerSends, checks, history, bounds
  <2>6. QED
    BY <2>4, <2>5
<1>4. ASSUME NEW rs \in side, SideSends(rs) PROVE TypeOK'
  <2>1. Tail(rs) \in Seq(Messages) /\ Head(rs) \in Messages
    BY SeqTail DEF SideRight
  <2>2. QED
    BY <1>4, <2>1, SendTypes DEF SideSends, checks, history, bounds
<1>5. ASSUME NEW p \in posters, PosterSends(p) PROVE TypeOK'
  <2>1. p.acct \in Accounts /\ p.act \in Acts
    BY DEF Steps
  <2>2. QED
    BY <1>5, <2>1, SendTypes DEF PosterSends, checks, history, bounds
<1>6. ASSUME NEW a \in Accounts, Tick(a) PROVE TypeOK'
  BY <1>6, ActTypes DEF Tick, channels, history
<1>7. ASSUME NEW a \in Accounts, TickLocks(a) PROVE TypeOK'
  <2>1. Act(nextId, "check", TRUE) \in Acts /\ Step("wait", a, NoAct) \in Steps
        /\ Step("send", a, Act(nextId, "check", TRUE)) \in Steps
    BY ActTypes
  <2>2. QED
    BY <1>7, <2>1, RegisterTypes DEF TickLocks, history, bounds
<1>8. ASSUME NEW a \in Accounts, TickSends(a) PROVE TypeOK'
  <2>1. ticker[a].act \in Acts
    BY DEF Steps
  <2>2. QED
    BY <1>8, <2>1, SendTypes, ActTypes DEF TickSends, history, bounds
<1>9. ASSUME MainReceives PROVE TypeOK'
  <2> DEFINE m == Head(messages)
  <2>1. m \in Messages /\ Tail(messages) \in Seq(Messages) /\ Len(Tail(messages)) <= MessagesCap
    <3>1. messages \in Seq(Messages) /\ messages # <<>> /\ Len(messages) <= MessagesCap
      BY <1>9 DEF MainReceives
    <3>2. QED
      BY <3>1, SeqTail, BoundsAssumption
  <2>2. /\ Callback(m) \in Seq(Steps) /\ Deletion(m) \in Seq(Steps) /\ OnMessage(m) \in Seq(Steps)
        /\ m.act.id \in Nat
    BY <2>1, AnswerTypes
  <2> HIDE DEF m
  <2>3. ui' \in Seq(Steps) /\ open' \subseteq Nat
    <3>1. Callback(m) \o Deletion(m) \o OnMessage(m) \in Seq(Steps)
      BY <2>2, SeqConcat
    <3>2. QED
      BY <1>9, <2>2, <3>1 DEF MainReceives, m
  <2>4. QED
    BY <1>9, <2>1, <2>3 DEF MainReceives, checks, bounds, m
<1>10. ASSUME NEW a \in Accounts, Command(a) PROVE TypeOK'
  <2>1. \A kind \in {"read", "store"} : Step("post", a, Act(0, kind, TRUE)) \in Steps
    BY ActTypes
  <2>2. Step("check", a, NoAct) \in Steps /\ Step("send", a, Act(nextId, "open", TRUE)) \in Steps
    BY ActTypes
  <2>3. ui' \in Seq(Steps) /\ posters' \subseteq Steps /\ nextId' \in Nat /\ callbacks' \in [Accounts -> SUBSET Nat]
    <3>1. /\ \A kind \in {"read", "store"} : <<Step("post", a, Act(0, kind, TRUE))>> \in Seq(Steps)
          /\ <<Step("check", a, NoAct)>> \in Seq(Steps)
      BY <2>1, <2>2, SeqShort
    <3>2. CASE Register(a, TRUE)
      BY <1>10, <2>2, <3>1, <3>2, RegisterTypes DEF Command
    <3>3. CASE UNCHANGED <<posters, callbacks, nextId>>
      BY <1>10, <2>2, <3>1, <3>3 DEF Command
    <3>4. QED
      BY <1>10, <3>2, <3>3 DEF Command
  <2>4. QED
    BY <1>10, <2>3 DEF Command, checks, history
<1>11. ASSUME MainRegisters PROVE TypeOK'
  <2>1. ui # <<>>
    BY <1>11 DEF MainRegisters, Does
  <2>2. [me.act EXCEPT !.id = nextId] \in Acts
    BY <2>1, UiTypes DEF Acts
  <2>3. Step("send", me.acct, [me.act EXCEPT !.id = nextId]) \in Steps
    BY <2>1, <2>2, UiTypes, ActTypes
  <2>4. ui' \in Seq(Steps)
    BY <1>11, <2>1, <2>3, UiTypes DEF MainRegisters
  <2>5. QED
    BY <1>11, <2>1, <2>4, UiTypes, RegisterTypes DEF MainRegisters, checks, history, bounds
<1>12. ASSUME MainSends PROVE TypeOK'
  <2>1. ui # <<>>
    BY <1>12 DEF MainSends, Does
  <2>2. QED
    BY <1>12, <2>1, UiTypes, SendTypes DEF MainSends, checks, history, bounds
<1>13. ASSUME MainDeletes PROVE TypeOK'
  <2>1. ui # <<>>
    BY <1>13 DEF MainDeletes, Does
  <2>2. QED
    BY <1>13, <2>1, UiTypes DEF MainDeletes, checks, history, bounds
<1>14. ASSUME MainResets PROVE TypeOK'
  <2>1. ui # <<>>
    BY <1>14 DEF MainResets, Does
  <2>2. QED
    BY <1>14, <2>1, UiTypes DEF MainResets, channels, history, bounds
<1>15. ASSUME MainChecks PROVE TypeOK'
  <2>1. ui # <<>>
    BY <1>15 DEF MainChecks, Does
  <2>2. /\ Step("send", me.acct, Act(nextId, "check", TRUE)) \in Steps
        /\ Step("unlock", me.acct, NoAct) \in Steps
    BY <2>1, UiTypes, ActTypes
  <2>3. ui' \in Seq(Steps) /\ nextId' \in Nat /\ callbacks' \in [Accounts -> SUBSET Nat]
    <3>1. <<Step("send", me.acct, Act(nextId, "check", TRUE)), Step("unlock", me.acct, NoAct)>>
             \o Tail(ui) \in Seq(Steps)
      BY <2>1, <2>2, UiTypes, SeqShort, SeqConcat
    <3>2. CASE checking[me.acct]
      BY <1>15, <2>1, <3>2, UiTypes DEF MainChecks
    <3>3. CASE ~checking[me.acct]
      BY <1>15, <2>1, <3>1, <3>3, UiTypes, RegisterTypes DEF MainChecks
    <3>4. QED
      BY <3>2, <3>3
  <2>4. QED
    BY <1>15, <2>3 DEF MainChecks, history, bounds
<1>16. ASSUME MainUnlocks PROVE TypeOK'
  <2>1. ui # <<>>
    BY <1>16 DEF MainUnlocks, Does
  <2>2. QED
    BY <1>16, <2>1, UiTypes DEF MainUnlocks, channels, history, bounds
<1>17. CASE UNCHANGED vars
  BY <1>17 DEF vars, channels, checks, history, bounds
<1>18. QED
  BY <1>1, <1>2, <1>3, <1>4, <1>5, <1>6, <1>7, <1>8, <1>9, <1>10, <1>11, <1>12, <1>13, <1>14,
     <1>15, <1>16, <1>17 DEF Next, Main, Worker, Others

-----------------------------------------------------------------------------
(* What a step does to the places *)

(* A place changes only with the variables it is made of. *)
LEMMA HeldFrame ==
  ASSUME NEW a
  PROVE  /\ UNCHANGED ui => Held("main", a)' = Held("main", a) /\ Held("deleting", a)' = Held("deleting", a)
         /\ UNCHANGED posters => Held("poster", a)' = Held("poster", a)
         /\ UNCHANGED ticker => Held("ticker", a)' = Held("ticker", a)
         /\ UNCHANGED actions => Held("queued", a)' = Held("queued", a)
         /\ UNCHANGED out => Held("out", a)' = Held("out", a)
         /\ UNCHANGED side => Held("side", a)' = Held("side", a)
         /\ UNCHANGED messages => Held("message", a)' = Held("message", a)
BY DEF Held, Sent

LEMMA HeldTypes ==
  ASSUME TypeOK, NEW p \in Places, NEW a \in Accounts
  PROVE  Held(p, a) \subseteq Acts
<1>1. \A s \in Steps : s.act \in Acts
  BY DEF Steps
<1>2. \A m \in Messages : m.act \in Acts
  BY DEF Messages
<1>3. CASE p \in {"main", "deleting"}
  <2>1. \A k \in 1..Len(ui) : ui[k] \in Steps
    BY DEF TypeOK
  <2>2. QED
    BY <1>1, <1>3, <2>1 DEF Held
<1>4. CASE p \in {"poster", "ticker"}
  <2>1. posters \subseteq Steps /\ ticker[a] \in Steps
    BY DEF TypeOK
  <2>2. QED
    BY <1>1, <1>4, <2>1 DEF Held
<1>5. CASE p = "queued"
  <2>1. actions[a] \in Seq(Acts)
    BY DEF TypeOK
  <2>2. QED
    BY <1>5, <2>1 DEF Held
<1>6. CASE p = "out"
  <2>1. \A k \in 1..Len(out[a]) : out[a][k] \in Messages
    BY DEF TypeOK
  <2>2. QED
    BY <1>2, <1>6, <2>1 DEF Held
<1>7. CASE p = "side"
  <2>1. \A rs \in side : \A k \in 1..Len(rs) : rs[k] \in Messages
    BY DEF TypeOK
  <2>2. QED
    BY <1>2, <1>7, <2>1 DEF Held
<1>8. CASE p = "message"
  <2>1. \A k \in 1..Len(messages) : messages[k] \in Messages
    BY DEF TypeOK
  <2>2. QED
    BY <1>2, <1>8, <2>1 DEF Held
<1>9. QED
  BY <1>3, <1>4, <1>5, <1>6, <1>7, <1>8 DEF Places

(* A send adds one action to one queue, and one answer to the messages. *)
LEMMA QueueSend ==
  ASSUME TypeOK, NEW a \in Accounts, NEW x \in Acts, SendAction(a, x), NEW b \in Accounts
  PROVE  Held("queued", b)' = Held("queued", b) \cup (IF b = a THEN {x} ELSE {})
<1>1. actions[a] \in Seq(Acts) /\ actions[b] \in Seq(Acts) /\ actions' = [actions EXCEPT ![a] = Append(@, x)]
  BY DEF TypeOK, SendAction
<1>2. CASE b # a
  <2>1. actions'[b] = actions[b]
    BY <1>1, <1>2 DEF TypeOK
  <2>2. QED
    BY <1>2, <2>1 DEF Held
<1>3. CASE b = a
  <2>1. actions'[a] = Append(actions[a], x)
    BY <1>1 DEF TypeOK
  <2>2. QED
    BY <1>1, <1>3, <2>1, SeqAppend DEF Held
<1>4. QED
  BY <1>2, <1>3

LEMMA MessageSend ==
  ASSUME TypeOK, NEW m \in Messages, SendMessage(m), NEW b \in Accounts
  PROVE  Held("message", b)' = Held("message", b) \cup (IF b = m.acct THEN {m.act} ELSE {})
<1>1. messages \in Seq(Messages) /\ messages' = Append(messages, m)
  BY DEF TypeOK, SendMessage
<1>2. \A y : y \in Held("message", b)' <=>
        \E k \in 1..(Len(messages) + 1) : messages'[k].acct = b /\ messages'[k].act = y
  BY <1>1, SeqAppend DEF Held
<1>3. \A y : y \in Held("message", b) <=>
        \E k \in 1..Len(messages) : messages[k].acct = b /\ messages[k].act = y
  BY DEF Held
<1>4. QED
  BY <1>1, <1>2, <1>3, SeqAppend

-----------------------------------------------------------------------------
(* What follows from where the actions go *)

(* Nothing is new and nothing is lost. *)
Carried ==
  /\ \A p \in Places, a \in Accounts : \A x \in Held(p, a)' :
       \/ x.id = 0 /\ ~x.cb /\ p \in Answering
       \/ x.id # 0 /\ \E q \in Places : x \in Held(q, a) /\ (p = "deleting" <=> q = "deleting")
  /\ \A p \in Places, a \in Accounts : \A x \in Held(p, a) :
       x.id # 0 => \E q \in Places : x \in Held(q, a)' /\ (p = "deleting" <=> q = "deleting")

LEMMA CarriedTable ==
  ASSUME IdsFresh, TableRight, TableUsed, Carried, UNCHANGED <<callbacks, nextId>>, open \subseteq open'
  PROVE  IdsFresh' /\ TableRight' /\ TableUsed'
<1>1. IdsFresh'
  BY DEF IdsFresh, Carried
<1>2. TableRight'
  BY DEF IdsFresh, TableRight, Carried
<1>3. ASSUME NEW a \in Accounts, NEW i \in callbacks[a]
      PROVE  i \in open' \/ \E p \in Places : \E x \in Held(p, a)' : x.id = i
  BY <1>3 DEF IdsFresh, TableUsed, Carried
<1>4. TableUsed'
  BY <1>3 DEF TableUsed
<1>5. QED
  BY <1>1, <1>2, <1>4

(* The steps of the main goroutine that reset checkingMail, now and then.   *)
ResetsKept ==
  /\ \A k \in 1..Len(ui) : Resets(ui[k]) => \E l \in 1..Len(ui') : ui'[l] = ui[k]
  /\ \A k \in 1..Len(ui') : Resets(ui'[k]) => \E l \in 1..Len(ui) : ui[l] = ui'[k]

LEMMA CarriedChecks ==
  ASSUME IdsFresh, TableRight, CheckingOwned, CheckAlone, Carried, ResetsKept,
         UNCHANGED checking, \A a \in Accounts : early[a] => early'[a]
  PROVE  CheckingOwned' /\ CheckAlone'
<1>1. \A p \in Places, a \in Accounts : \A x \in Held(p, a) : x.cb => x.id # 0
  BY DEF IdsFresh, TableRight
<1>2. \A p \in Places, a \in Accounts : \A x :
        CheckHeld(p, a, x)' => \E q \in Places : CheckHeld(q, a, x)
  BY DEF Carried, CheckHeld
<1>3. ASSUME NEW a \in Accounts, checking'[a]
      PROVE  \/ \E p \in Places \ {"deleting"} : \E x \in Held(p, a)' : x.kind = "check" /\ x.cb
             \/ \E k \in 1..Len(ui') : ui'[k].acct = a /\ Resets(ui'[k])
  <2>1. CASE \E p \in Places \ {"deleting"} : \E x \in Held(p, a) : x.kind = "check" /\ x.cb
    BY <1>1, <2>1 DEF Carried
  <2>2. CASE \E k \in 1..Len(ui) : ui[k].acct = a /\ Resets(ui[k])
    BY <2>2 DEF ResetsKept
  <2>3. QED
    BY <1>3, <2>1, <2>2 DEF CheckingOwned
<1>4. CheckingOwned'
  BY <1>3 DEF CheckingOwned, Resets
<1>5. ASSUME NEW a \in Accounts, ~early'[a]
      PROVE  /\ \A p, q \in Places : \A x \in Held(p, a)', y \in Held(q, a)' :
                  CheckHeld(p, a, x)' /\ CheckHeld(q, a, y)' => x.id = y.id
             /\ \A p \in Places : \A x \in Held(p, a)' : CheckHeld(p, a, x)' => checking'[a]
             /\ \A k \in 1..Len(ui') : ui'[k].acct = a /\ Resets(ui'[k]) =>
                  /\ ui'[k].do = "reset" /\ checking'[a]
                  /\ \A p \in Places : \A x \in Held(p, a)' : ~CheckHeld(p, a, x)'
  <2>1. ~early[a]
    BY <1>5
  <2>2. \A p, q \in Places : \A x, y :
         CheckHeld(p, a, x) /\ CheckHeld(q, a, y) => x.id = y.id /\ checking[a]
    BY <2>1 DEF CheckAlone, CheckHeld
  <2>3. ASSUME NEW k \in 1..Len(ui'), ui'[k].acct = a, Resets(ui'[k])
        PROVE  /\ ui'[k].do = "reset" /\ checking'[a]
               /\ \A p \in Places : \A x \in Held(p, a)' : ~CheckHeld(p, a, x)'
    <3>1. PICK l \in 1..Len(ui) : ui[l] = ui'[k]
      BY <2>3 DEF ResetsKept
    <3>2. ui[l].do = "reset" /\ checking[a] /\ \A p \in Places : \A x : ~CheckHeld(p, a, x)
      BY <2>1, <2>3, <3>1 DEF CheckAlone, CheckHeld
    <3>3. QED
      BY <1>2, <3>1, <3>2
  <2>4. ASSUME NEW p \in Places, NEW x \in Held(p, a)', CheckHeld(p, a, x)'
        PROVE  checking'[a]
    BY <1>2, <2>2, <2>4
  <2>5. ASSUME NEW p \in Places, NEW q \in Places, NEW x \in Held(p, a)', NEW y \in Held(q, a)',
               CheckHeld(p, a, x)', CheckHeld(q, a, y)'
        PROVE  x.id = y.id
    BY <1>2, <2>2, <2>5
  <2>6. QED
    BY <2>3, <2>4, <2>5
<1>6. CheckAlone'
  BY <1>5 DEF CheckAlone, Resets
<1>7. QED
  BY <1>4, <1>6

(* An action of which there is no answer yet is in no other place. *)
LEMMA Alone ==
  ASSUME OnePlace, NEW p \in Places \ Answering, NEW a \in Accounts, NEW x \in Held(p, a), x.id # 0
  PROVE  \A r \in Places, b \in Accounts : \A y \in Held(r, b) : y.id = x.id => r = p /\ b = a /\ y = x
<1>1. \A r \in Places : Shared(p, r) => r = p
  BY DEF Shared, Answering
<1>2. QED
  BY <1>1 DEF OnePlace

(* An id stays in one place when its action moves, ... *)
LEMMA MoveOnePlace ==
  ASSUME OnePlace, NEW p \in Places, NEW q \in Places, NEW a \in Accounts, NEW x \in Held(p, a), x.id # 0,
         \A r \in Places, b \in Accounts : \A y \in Held(r, b)' :
           y.id = 0 \/ y \in Held(r, b) \/ (r = q /\ b = a /\ y = x),
         \A r \in Places : x \in Held(r, a)' => Shared(r, q)
  PROVE  OnePlace'
<1> SUFFICES ASSUME NEW r \in Places, NEW s \in Places, NEW b \in Accounts, NEW c \in Accounts,
                    NEW y \in Held(r, b)', NEW z \in Held(s, c)', y.id = z.id, y.id # 0
             PROVE  b = c /\ y = z /\ Shared(r, s)
  BY SMTT(30) DEF OnePlace, Shared
<1>1. CASE y \in Held(r, b) /\ z \in Held(s, c)
  BY <1>1 DEF OnePlace
<1>2. \A t \in Places, d \in Accounts : \A w \in Held(t, d) : w.id = x.id => d = a /\ w = x
  BY DEF OnePlace
<1>3. CASE r = q /\ b = a /\ y = x
  BY <1>2, <1>3 DEF Shared
<1>4. CASE s = q /\ c = a /\ z = x
  BY <1>2, <1>4 DEF Shared
<1>5. QED
  BY <1>1, <1>3, <1>4

(* ... when it is new, ... *)
LEMMA NewOnePlace ==
  ASSUME TypeOK, OnePlace, IdsFresh, NEW q \in Places, NEW a \in Accounts, NEW x, x.id = nextId,
         \A r \in Places, b \in Accounts : \A y \in Held(r, b)' :
           y.id = 0 \/ y \in Held(r, b) \/ (r = q /\ b = a /\ y = x)
  PROVE  OnePlace'
<1> SUFFICES ASSUME NEW r \in Places, NEW s \in Places, NEW b \in Accounts, NEW c \in Accounts,
                    NEW y \in Held(r, b)', NEW z \in Held(s, c)', y.id = z.id, y.id # 0
             PROVE  b = c /\ y = z /\ Shared(r, s)
  BY SMTT(30) DEF OnePlace, Shared
<1>1. CASE y \in Held(r, b) /\ z \in Held(s, c)
  BY <1>1 DEF OnePlace
<1>2. \A t \in Places, d \in Accounts : \A w \in Held(t, d) : w.id < nextId
  BY DEF IdsFresh
<1>3. ~(nextId < nextId)
  BY DEF TypeOK
<1>4. QED
  BY <1>1, <1>2, <1>3 DEF Shared

(* ... and when others are done with. *)
LEMMA LessOnePlace ==
  ASSUME OnePlace,
         \A r \in Places, b \in Accounts : \A y \in Held(r, b)' : y.id = 0 \/ y \in Held(r, b)
  PROVE  OnePlace'
BY DEF OnePlace, Shared

-----------------------------------------------------------------------------
(* The parts of the invariant that a step leaves alone *)

LEMMA Frame ==
  /\ QueuedOnce /\ UNCHANGED actions => QueuedOnce'
  /\ OutRight /\ UNCHANGED <<out, early>> => OutRight'
  /\ SideRight /\ UNCHANGED <<side, early>> => SideRight'
  /\ MessagesRight /\ UNCHANGED <<messages, out, side, early>> => MessagesRight'
  /\ UiRight /\ UNCHANGED ui => UiRight'
  /\ HoldersRight /\ UNCHANGED <<posters, ticker>> => HoldersRight'
  /\ UNCHANGED ui => ResetsKept
<1>1. QueuedOnce /\ UNCHANGED actions => QueuedOnce'
  BY DEF QueuedOnce
<1>2. OutRight /\ UNCHANGED <<out, early>> => OutRight'
  <2> SUFFICES ASSUME OutRight, UNCHANGED <<out, early>>
               PROVE  OutRight'
    OBVIOUS
  <2>1. \A m : Ends(m)' = Ends(m)
    BY DEF Ends
  <2>2. \A a, rs : Answers(a, rs) => Answers(a, rs)'
    BY <2>1 DEF Answers
  <2>3. QED
    BY <2>2 DEF OutRight
<1>3. SideRight /\ UNCHANGED <<side, early>> => SideRight'
  <2> SUFFICES ASSUME SideRight, UNCHANGED <<side, early>>
               PROVE  SideRight'
    OBVIOUS
  <2>1. \A m : Ends(m)' = Ends(m)
    BY DEF Ends
  <2>2. \A a, rs : Answers(a, rs) => Answers(a, rs)'
    BY <2>1 DEF Answers
  <2>3. QED
    BY <2>2 DEF SideRight
<1>4. MessagesRight /\ UNCHANGED <<messages, out, side, early>> => MessagesRight'
  <2> SUFFICES ASSUME MessagesRight, UNCHANGED <<messages, out, side, early>>
               PROVE  MessagesRight'
    OBVIOUS
  <2>1. \A k : Later(k)' = Later(k)
    BY HeldFrame DEF Later
  <2>2. \A m : Ends(m)' = Ends(m)
    BY DEF Ends
  <2>3. QED
    BY <2>1, <2>2 DEF MessagesRight, MessageRight
<1>5. (UiRight /\ UNCHANGED ui => UiRight') /\ (UNCHANGED ui => ResetsKept)
  BY DEF UiRight, ResetsKept
<1>6. HoldersRight /\ UNCHANGED <<posters, ticker>> => HoldersRight'
  BY DEF HoldersRight
<1>7. QED
  BY <1>1, <1>2, <1>3, <1>4, <1>5, <1>6

-----------------------------------------------------------------------------
(* Sends to a worker *)

LEMMA QueueOnce ==
  ASSUME TypeOK, QueuedOnce, NEW a \in Accounts, NEW x \in Acts, SendAction(a, x),
         \A y \in Held("queued", a) : y.id # x.id
  PROVE  QueuedOnce'
<1>1. \A k \in 1..Len(actions[a]) : actions[a][k].id # x.id
  BY DEF Held
<1>2. actions[a] \in Seq(Acts) /\ actions' = [actions EXCEPT ![a] = Append(@, x)] /\ DOMAIN actions = Accounts
  BY DEF TypeOK, SendAction
<1>3. ASSUME NEW b \in Accounts, NEW k \in 1..Len(actions'[b]), NEW l \in 1..Len(actions'[b]),
             actions'[b][k].id = actions'[b][l].id
      PROVE  k = l
  <2>1. CASE b # a
    BY <1>2, <1>3, <2>1 DEF QueuedOnce
  <2>2. CASE b = a
    <3>1. actions'[a] = Append(actions[a], x)
      BY <1>2
    <3>2. \A j \in 1..Len(actions'[a]) :
            \/ j = Len(actions[a]) + 1 /\ actions'[a][j] = x
            \/ j \in 1..Len(actions[a]) /\ actions'[a][j] = actions[a][j]
      BY <1>2, <3>1, SeqAppend
    <3>3. QED
      BY <1>1, <1>3, <2>2, <3>2 DEF QueuedOnce
  <2>3. QED
    BY <2>1, <2>2
<1>4. QED
  BY <1>3 DEF QueuedOnce

(* The one that posted an action puts it in the queue. *)
LEMMA QueueMove ==
  ASSUME IInv, NEW p \in {"main", "poster", "ticker"}, NEW a \in Accounts, NEW x \in Acts, x \in Held(p, a),
         SendAction(a, x),
         \A b \in Accounts : \A y \in Held(p, b)' : y \in Held(p, b) /\ (b # a \/ y # x),
         \A b \in Accounts : \A y \in Held(p, b) : (b # a \/ y # x) => y \in Held(p, b)',
         \A r \in Places \ {p, "queued"}, b \in Accounts : Held(r, b)' = Held(r, b)
  PROVE  Carried /\ OnePlace' /\ QueuedOnce'
<1>1. x.id # 0 /\ x.id \in Nat
  BY DEF IInv, IdsFresh, Places, Answering, Acts
<1>2. \A b \in Accounts : Held("queued", b)' = Held("queued", b) \cup (IF b = a THEN {x} ELSE {})
  BY QueueSend DEF IInv
<1>3. p \in Places /\ p # "deleting" /\ p # "queued" /\ p \notin Answering /\ "queued" \in Places
  BY DEF Places, Answering
<1>4. \A r \in Places, b \in Accounts : \A y \in Held(r, b)' :
        y \in Held(r, b) \/ (r = "queued" /\ b = a /\ y = x)
  BY <1>2
<1>5. \A r \in Places, b \in Accounts : \A y \in Held(r, b) :
        y \in Held(r, b)' \/ (r = p /\ b = a /\ y = x)
  BY <1>2
<1>6. x \in Held("queued", a)'
  BY <1>2
<1>7. \A r \in Places, b \in Accounts : \A y \in Held(r, b) : y.id = x.id => r = p
  BY <1>1, <1>3 DEF IInv, OnePlace, Shared
<1>8. OnePlace'
  <2>1. \A r \in Places : x \in Held(r, a)' => Shared(r, "queued")
    BY <1>4, <1>7 DEF Shared
  <2>2. QED
    BY <1>1, <1>3, <1>4, <2>1, MoveOnePlace DEF IInv
<1>9. Carried
  <2>1. \A r \in Places, b \in Accounts : \A y \in Held(r, b) : r \in Answering /\ y.id = 0 => ~y.cb
    BY DEF IInv, IdsFresh, TableRight
  <2>2. \A r \in Places, b \in Accounts : \A y \in Held(r, b) : y.id = 0 => r \in Answering
    BY DEF IInv, IdsFresh
  <2>3. QED
    BY <1>1, <1>3, <1>4, <1>5, <1>6, <2>1, <2>2 DEF Carried
<1>10. QueuedOnce'
  <2>1. \A y \in Held("queued", a) : y.id # x.id
    BY <1>3, <1>7
  <2>2. QED
    BY <2>1, QueueOnce DEF IInv
<1>11. QED
  BY <1>8, <1>9, <1>10

(* The parts that follow when an action is carried and the flag is left alone. *)
LEMMA CarriedRest ==
  ASSUME IInv, Carried, ResetsKept, UNCHANGED <<callbacks, nextId, open, checking, early>>
  PROVE  IdsFresh' /\ TableRight' /\ TableUsed' /\ CheckingOwned' /\ CheckAlone'
BY CarriedTable, CarriedChecks DEF IInv

LEMMA PosterSendsRight ==
  ASSUME IInv, TypeOK', NEW p \in posters, PosterSends(p)
  PROVE  IInv'
<1>1. p \in Steps /\ p.acct \in Accounts /\ p.act \in Acts /\ p.do = "send"
  BY DEF IInv, TypeOK, Steps, HoldersRight
<1>2. /\ UNCHANGED <<messages, callbacks, nextId, out, side, ui, ticker, checking, early, open>>
      /\ SendAction(p.acct, p.act) /\ posters' = posters \ {p}
  BY DEF PosterSends, checks, history
<1>3. \A b \in Accounts : \A y : y \in Held("poster", b) <=> \E q \in posters : Sent(q, b) /\ q.act = y
  BY DEF Held
<1>4. \A b \in Accounts : \A y : y \in Held("poster", b)' <=> \E q \in posters : q # p /\ Sent(q, b) /\ q.act = y
  BY <1>2 DEF Held, Sent
<1>5. p.act \in Held("poster", p.acct)
  BY <1>1, <1>3 DEF Sent
<1>6. \A b \in Accounts : \A y \in Held("poster", b)' : y \in Held("poster", b) /\ (b # p.acct \/ y # p.act)
  <2>1. \A q \in posters : q.acct = p.acct /\ q.act = p.act => q = p
    <3>1. \A q \in posters : q \in Steps /\ q.do = "send"
      BY DEF IInv, TypeOK, HoldersRight
    <3>2. QED
      BY <1>1, <3>1 DEF Steps
  <2>2. QED
    BY <1>3, <1>4, <2>1 DEF Sent
<1>7. \A b \in Accounts : \A y \in Held("poster", b) : (b # p.acct \/ y # p.act) => y \in Held("poster", b)'
  BY <1>3, <1>4 DEF Sent
<1>8. \A r \in Places \ {"poster", "queued"}, b \in Accounts : Held(r, b)' = Held(r, b)
  BY <1>2, HeldFrame DEF Places
<1>9. Carried /\ OnePlace' /\ QueuedOnce'
  BY <1>1, <1>2, <1>5, <1>6, <1>7, <1>8, QueueMove
<1>10. OutRight' /\ SideRight' /\ MessagesRight' /\ UiRight' /\ ResetsKept
  BY <1>2, Frame DEF IInv
<1>11. HoldersRight'
  BY <1>2 DEF IInv, HoldersRight
<1>12. QED
  BY <1>2, <1>9, <1>10, <1>11, CarriedRest DEF IInv

(* The main goroutine is done with a step. *)
LEMMA UiPop ==
  ASSUME TypeOK, UiRight, ui # <<>>, ui' = Tail(ui)
  PROVE  /\ UiRight'
         /\ \A k \in 1..Len(ui') : k + 1 \in 1..Len(ui) /\ ui'[k] = ui[k + 1]
         /\ \A k \in 1..Len(ui) : k = 1 \/ (k - 1 \in 1..Len(ui') /\ ui'[k - 1] = ui[k])
         /\ ~Resets(me) => ResetsKept
         /\ \A b \in Accounts :
              /\ Held("main", b)' = {}
              /\ \A y \in Held("main", b) : Sent(me, b) /\ y = me.act
              /\ me.do # "delete" => Held("deleting", b)' = Held("deleting", b)
              /\ me.do = "delete" => /\ Held("deleting", b)' = {}
                                     /\ \A y \in Held("deleting", b) : me.acct = b /\ y = me.act
<1>1. ui \in Seq(Steps) /\ me = ui[1] /\ Len(ui) \in Nat /\ Len(ui) > 0 /\ Len(ui') = Len(ui) - 1
  BY SeqTail DEF TypeOK, me
<1>2. \A k \in 1..Len(ui') : k + 1 \in 1..Len(ui) /\ ui'[k] = ui[k + 1]
  BY <1>1, SeqTail
<1>3. \A k \in 1..Len(ui) : k = 1 \/ (k - 1 \in 1..Len(ui') /\ ui'[k - 1] = ui[k])
  BY <1>1, <1>2
<1>4. UiRight'
  <2>1. ASSUME NEW k \in 1..Len(ui'), NEW l \in 1..Len(ui'), ui'[k].do = ui'[l].do
        PROVE  k = l
    <3>1. k + 1 = l + 1
      BY <1>2, <2>1 DEF UiRight
    <3>2. QED
      BY <1>1, <3>1
  <2>2. ASSUME NEW k \in 1..Len(ui') PROVE ui'[k].do # "send" /\ ui'[k].do # "check"
    <3>1. k + 1 \in 1..Len(ui) /\ ui'[k] = ui[k + 1] /\ k + 1 # 1 /\ Len(ui) # 1
      BY <1>1, <1>2
    <3>2. ui[k + 1].do # "send" /\ ui[k + 1].do # "check"
      BY <3>1 DEF UiRight
    <3>3. QED
      BY <3>1, <3>2
  <2>3. QED
    BY <2>1, <2>2 DEF UiRight
<1>5. ~Resets(me) => ResetsKept
  BY <1>1, <1>2, <1>3 DEF ResetsKept
<1>6. ASSUME NEW b \in Accounts
      PROVE  /\ Held("main", b)' = {}
             /\ \A y \in Held("main", b) : Sent(me, b) /\ y = me.act
             /\ me.do # "delete" => Held("deleting", b)' = Held("deleting", b)
             /\ me.do = "delete" => /\ Held("deleting", b)' = {}
                                    /\ \A y \in Held("deleting", b) : me.acct = b /\ y = me.act
  <2>1. \A k \in 1..Len(ui') : ui'[k].do # "send"
    <3>1. \A k \in 1..Len(ui') : k + 1 # 1
      BY <1>1
    <3>2. QED
      BY <1>2, <3>1 DEF UiRight
  <2>2. Held("main", b)' = {}
    BY <2>1 DEF Held, Sent
  <2>3. ASSUME NEW y \in Held("main", b) PROVE Sent(me, b) /\ y = me.act
    BY <1>1, <2>3 DEF Held, Sent, UiRight
  <2>4. \A y : y \in Held("deleting", b) <=>
          \E k \in 1..Len(ui) : ui[k].acct = b /\ ui[k].do = "delete" /\ ui[k].act = y
    BY DEF Held
  <2>5. \A y : y \in Held("deleting", b)' <=>
          \E k \in 1..Len(ui') : ui'[k].acct = b /\ ui'[k].do = "delete" /\ ui'[k].act = y
    BY DEF Held
  <2>6. me.do # "delete" => Held("deleting", b)' = Held("deleting", b)
    <3>1. ASSUME me.do # "delete", NEW y \in Held("deleting", b) PROVE y \in Held("deleting", b)'
      <4>1. PICK k \in 1..Len(ui) : ui[k].acct = b /\ ui[k].do = "delete" /\ ui[k].act = y
        BY <3>1, <2>4
      <4>2. k # 1
        BY <1>1, <3>1, <4>1
      <4>3. PICK j \in 1..Len(ui') : ui'[j] = ui[k]
        BY <1>3, <4>1, <4>2
      <4>4. ui'[j].acct = b /\ ui'[j].do = "delete" /\ ui'[j].act = y
        BY <4>1, <4>3, Zenon
      <4>5. QED
        BY <2>5, <4>4, Zenon
    <3>2. ASSUME NEW y \in Held("deleting", b)' PROVE y \in Held("deleting", b)
      BY <1>2, <2>4, <2>5, <3>2
    <3>3. QED
      BY <3>1, <3>2
  <2>7. ASSUME me.do = "delete"
        PROVE  /\ Held("deleting", b)' = {}
               /\ \A y \in Held("deleting", b) : me.acct = b /\ y = me.act
    <3>1. 1 \in 1..Len(ui)
      BY <1>1
    <3>2. \A k \in 1..Len(ui) : ui[k].do = "delete" => k = 1
      BY <1>1, <2>7, <3>1 DEF UiRight
    <3>3. \A k \in 1..Len(ui') : k + 1 # 1
      BY <1>1
    <3>4. \A k \in 1..Len(ui') : ui'[k].do # "delete"
      BY <1>2, <3>2, <3>3
    <3>5. QED
      BY <1>1, <2>4, <2>5, <3>2, <3>4
  <2>8. QED
    BY <2>2, <2>3, <2>6, <2>7
<1>7. QED
  BY <1>2, <1>3, <1>4, <1>5, <1>6

LEMMA TickSendsRight ==
  ASSUME IInv, TypeOK', NEW a \in Accounts, TickSends(a)
  PROVE  IInv'
<1>1. ticker[a] \in Steps /\ ticker[a].acct = a /\ ticker[a].act \in Acts /\ ticker[a].do = "send"
  BY DEF IInv, TypeOK, Steps, HoldersRight, TickSends
<1>2. /\ UNCHANGED <<messages, callbacks, nextId, out, side, ui, posters, checking, early, open>>
      /\ SendAction(a, ticker[a].act) /\ ticker' = [ticker EXCEPT ![a] = Step("wait", a, NoAct)]
      /\ DOMAIN ticker = Accounts
  BY DEF IInv, TypeOK, TickSends, history
<1>3. \A b \in Accounts : \A y : y \in Held("ticker", b) <=> Sent(ticker[b], b) /\ ticker[b].act = y
  BY DEF Held
<1>4. \A b \in Accounts : \A y : y \in Held("ticker", b)' <=> Sent(ticker'[b], b) /\ ticker'[b].act = y
  BY DEF Held, Sent
<1>5. ~Sent(ticker'[a], a) /\ \A b \in Accounts : b # a => ticker'[b] = ticker[b]
  BY <1>2 DEF Step, Sent
<1>6. Carried /\ OnePlace' /\ QueuedOnce'
  <2>1. ticker[a].act \in Held("ticker", a)
    BY <1>1, <1>3 DEF Sent
  <2>2. \A b \in Accounts : \A y \in Held("ticker", b)' : y \in Held("ticker", b) /\ b # a
    BY <1>3, <1>4, <1>5
  <2>3. \A b \in Accounts : \A y \in Held("ticker", b) : (b # a \/ y # ticker[a].act) => y \in Held("ticker", b)'
    BY <1>3, <1>4, <1>5
  <2>4. \A r \in Places \ {"ticker", "queued"}, b \in Accounts : Held(r, b)' = Held(r, b)
    BY <1>2, HeldFrame DEF Places
  <2>5. QED
    BY <1>1, <1>2, <2>1, <2>2, <2>3, <2>4, QueueMove
<1>7. OutRight' /\ SideRight' /\ MessagesRight' /\ UiRight' /\ ResetsKept
  BY <1>2, Frame DEF IInv
<1>8. HoldersRight'
  BY <1>2, <1>5 DEF IInv, HoldersRight, Step
<1>9. QED
  BY <1>2, <1>6, <1>7, <1>8, CarriedRest DEF IInv

LEMMA MainSendsRight ==
  ASSUME IInv, TypeOK', MainSends
  PROVE  IInv'
<1>1. ui # <<>> /\ me.do = "send" /\ me.acct \in Accounts /\ me.act \in Acts
  BY UiTypes DEF IInv, MainSends, Does, me
<1>2. /\ UNCHANGED <<messages, callbacks, nextId, out, side, posters, ticker, checking, early, open>>
      /\ SendAction(me.acct, me.act) /\ ui' = Tail(ui)
  BY DEF MainSends, checks, history
<1>3. ~Resets(me)
  BY <1>1 DEF Resets
<1>4. UiRight' /\ ResetsKept
  BY <1>1, <1>2, <1>3, UiPop DEF IInv
<1>5. Carried /\ OnePlace' /\ QueuedOnce'
  <2>1. me.act \in Held("main", me.acct)
    <3>1. me = ui[1] /\ 1 \in 1..Len(ui)
      BY <1>1, UiTypes DEF IInv
    <3>2. QED
      BY <1>1, <3>1 DEF Held, Sent
  <2>2. \A b \in Accounts : Held("main", b)' = {} /\ \A y \in Held("main", b) : b = me.acct /\ y = me.act
    BY <1>1, <1>2, UiPop DEF IInv, Sent
  <2>3. \A r \in Places \ {"main", "queued"}, b \in Accounts : Held(r, b)' = Held(r, b)
    BY <1>1, <1>2, HeldFrame, UiPop DEF Places, IInv
  <2>4. QED
    BY <1>1, <1>2, <2>1, <2>2, <2>3, QueueMove
<1>6. OutRight' /\ SideRight' /\ MessagesRight' /\ HoldersRight'
  BY <1>2, Frame DEF IInv
<1>7. QED
  BY <1>2, <1>4, <1>5, <1>6, CarriedRest DEF IInv

-----------------------------------------------------------------------------
(* Steps that move no action *)

LEMMA Stays ==
  ASSUME IInv, \A r \in Places, b \in Accounts : Held(r, b)' = Held(r, b)
  PROVE  Carried /\ OnePlace'
<1>1. \A r \in Places, b \in Accounts : \A y \in Held(r, b) :
        \/ y.id = 0 /\ ~y.cb /\ r \in Answering
        \/ y.id # 0
  BY DEF IInv, IdsFresh, TableRight
<1>2. Carried
  BY <1>1 DEF Carried
<1>3. OnePlace'
  BY LessOnePlace DEF IInv
<1>4. QED
  BY <1>2, <1>3

LEMMA TickRight ==
  ASSUME IInv, TypeOK', NEW a \in Accounts, Tick(a)
  PROVE  IInv'
<1>1. /\ UNCHANGED <<actions, messages, callbacks, nextId, out, side, ui, posters, checking, early, open>>
      /\ ticker[a].do = "wait" /\ ticker' = [ticker EXCEPT ![a] = Step("lock", a, NoAct)]
      /\ DOMAIN ticker = Accounts
  BY DEF IInv, TypeOK, Tick, channels, history
<1>2. ~Sent(ticker[a], a) /\ ~Sent(ticker'[a], a) /\ \A b \in Accounts : b # a => ticker'[b] = ticker[b]
  BY <1>1 DEF Step, Sent
<1>3. \A b \in Accounts : Held("ticker", b)' = Held("ticker", b)
  BY <1>2 DEF Held, Sent
<1>4. \A r \in Places, b \in Accounts : Held(r, b)' = Held(r, b)
  BY <1>1, <1>3, HeldFrame DEF Places
<1>5. QueuedOnce' /\ OutRight' /\ SideRight' /\ MessagesRight' /\ UiRight' /\ ResetsKept
  BY <1>1, Frame DEF IInv
<1>6. HoldersRight'
  BY <1>1, <1>2 DEF IInv, HoldersRight, Step
<1>7. QED
  BY <1>1, <1>4, <1>5, <1>6, Stays, CarriedRest DEF IInv

(* A step of the main goroutine that holds no action and deletes none. *)
LEMMA UiStays ==
  ASSUME IInv, ui # <<>>, ui' = Tail(ui), me.do # "send", me.do # "delete",
         UNCHANGED <<actions, messages, out, side, posters, ticker, early>>
  PROVE  /\ \A r \in Places, b \in Accounts : Held(r, b)' = Held(r, b)
         /\ QueuedOnce' /\ OutRight' /\ SideRight' /\ MessagesRight' /\ UiRight' /\ HoldersRight'
<1>1. \A b \in Accounts : Held("main", b)' = Held("main", b) /\ Held("deleting", b)' = Held("deleting", b)
  BY UiPop DEF IInv, Sent
<1>2. \A r \in Places, b \in Accounts : Held(r, b)' = Held(r, b)
  BY <1>1, HeldFrame DEF Places
<1>3. UiRight'
  BY UiPop DEF IInv
<1>4. QED
  BY <1>2, <1>3, Frame DEF IInv

LEMMA MainUnlocksRight ==
  ASSUME IInv, TypeOK', MainUnlocks
  PROVE  IInv'
<1>1. ui # <<>> /\ me.do = "unlock" /\ ui' = Tail(ui)
  BY DEF MainUnlocks, Does, me
<1>2. UNCHANGED <<actions, messages, callbacks, nextId, out, side, posters, ticker, checking, early, open>>
  BY DEF MainUnlocks, channels, history
<1>3. ResetsKept
  BY <1>1, UiPop DEF IInv, Resets
<1>4. QED
  BY <1>1, <1>2, <1>3, UiStays, Stays, CarriedRest DEF IInv

(* The callback of the check is done: the flag goes with the last check. *)
LEMMA MainResetsRight ==
  ASSUME IInv, TypeOK', MainResets
  PROVE  IInv'
<1>1. ui # <<>> /\ me.do = "reset" /\ ui' = Tail(ui) /\ me.acct \in Accounts
  BY UiTypes DEF IInv, MainResets, Does, me
<1>2. UNCHANGED <<actions, messages, callbacks, nextId, out, side, posters, ticker, early, open>>
  BY DEF MainResets, channels, history
<1>3. checking' = [checking EXCEPT ![me.acct] = FALSE] /\ DOMAIN checking = Accounts
  BY DEF IInv, TypeOK, MainResets
<1>4. /\ \A r \in Places, b \in Accounts : Held(r, b)' = Held(r, b)
      /\ QueuedOnce' /\ OutRight' /\ SideRight' /\ MessagesRight' /\ UiRight' /\ HoldersRight'
  BY <1>1, <1>2, UiStays
<1>5. Carried /\ OnePlace'
  BY <1>4, Stays
<1>6. IdsFresh' /\ TableRight' /\ TableUsed'
  BY <1>2, <1>5, CarriedTable DEF IInv
<1>7. me = ui[1] /\ 1 \in 1..Len(ui)
  BY <1>1, UiTypes DEF IInv
<1>8. /\ \A k \in 1..Len(ui') : k + 1 \in 1..Len(ui) /\ ui'[k] = ui[k + 1]
      /\ \A k \in 1..Len(ui) : k = 1 \/ (k - 1 \in 1..Len(ui') /\ ui'[k - 1] = ui[k])
  BY <1>1, UiPop DEF IInv
<1>9. \A k \in 1..Len(ui') : ui'[k].do # "reset"
  <2>1. \A k \in 1..Len(ui') : k + 1 # 1
    OBVIOUS
  <2>2. QED
    BY <1>1, <1>7, <1>8, <2>1 DEF IInv, UiRight
<1>10. CheckingOwned'
  <2>1. ASSUME NEW a \in Accounts, checking'[a]
        PROVE  \/ \E p \in Places \ {"deleting"} : \E x \in Held(p, a)' : x.kind = "check" /\ x.cb
               \/ \E k \in 1..Len(ui') : ui'[k].acct = a /\ Resets(ui'[k])
    <3>1. a # me.acct /\ checking[a]
      BY <1>1, <1>3, <2>1
    <3>2. CASE \E p \in Places \ {"deleting"} : \E x \in Held(p, a) : x.kind = "check" /\ x.cb
      BY <1>4, <3>2
    <3>3. CASE \E k \in 1..Len(ui) : ui[k].acct = a /\ Resets(ui[k])
      BY <1>7, <1>8, <3>1, <3>3
    <3>4. QED
      BY <3>1, <3>2, <3>3 DEF IInv, CheckingOwned
  <2>2. QED
    BY <2>1 DEF CheckingOwned, Resets
<1>11. CheckAlone'
  <2>1. ASSUME NEW a \in Accounts, ~early[a]
        PROVE  /\ \A p, q \in Places : \A x \in Held(p, a), y \in Held(q, a) :
                    CheckHeld(p, a, x) /\ CheckHeld(q, a, y) => x.id = y.id
               /\ \A p \in Places : \A x \in Held(p, a) : CheckHeld(p, a, x) => checking'[a]
               /\ \A k \in 1..Len(ui') : ui'[k].acct = a /\ Resets(ui'[k]) => FALSE
    <3>1. /\ \A p, q \in Places : \A x \in Held(p, a), y \in Held(q, a) :
               CheckHeld(p, a, x) /\ CheckHeld(q, a, y) => x.id = y.id
          /\ \A p \in Places : \A x \in Held(p, a) : CheckHeld(p, a, x) => checking[a]
          /\ \A k \in 1..Len(ui) : ui[k].acct = a /\ Resets(ui[k]) =>
               /\ ui[k].do = "reset"
               /\ \A p \in Places : \A x \in Held(p, a) : ~CheckHeld(p, a, x)
      BY <2>1 DEF IInv, CheckAlone
    <3>2. a = me.acct => \A p \in Places : \A x \in Held(p, a) : ~CheckHeld(p, a, x)
      BY <1>1, <1>7, <3>1 DEF Resets
    <3>3. a # me.acct => checking'[a] = checking[a]
      BY <1>3
    <3>4. \A k \in 1..Len(ui') : ui'[k].acct = a /\ Resets(ui'[k]) => FALSE
      <4>1. ASSUME NEW k \in 1..Len(ui'), ui'[k].acct = a, Resets(ui'[k]) PROVE FALSE
        <5>1. k + 1 \in 1..Len(ui) /\ ui'[k] = ui[k + 1]
          BY <1>8
        <5>2. ui[k + 1].do = "reset"
          BY <3>1, <4>1, <5>1
        <5>3. QED
          BY <1>9, <5>1, <5>2
      <4>2. QED
        BY <4>1
    <3>5. QED
      BY <3>1, <3>2, <3>3, <3>4
  <2>2. \A p \in Places, a \in Accounts : \A x : CheckHeld(p, a, x)' = CheckHeld(p, a, x)
    BY <1>4 DEF CheckHeld
  <2>3. QED
    BY <1>2, <1>4, <2>1, <2>2 DEF CheckAlone, Resets
<1>12. QED
  BY <1>4, <1>5, <1>6, <1>10, <1>11 DEF IInv

(* The callback of an answered action is deleted; nothing else has its id.  *)
LEMMA MainDeletesRight ==
  ASSUME IInv, TypeOK', MainDeletes
  PROVE  IInv'
<1>1. ui # <<>> /\ me.do = "delete" /\ ui' = Tail(ui) /\ me.acct \in Accounts /\ me.act \in Acts
  BY UiTypes DEF IInv, MainDeletes, Does, me
<1>2. UNCHANGED <<actions, messages, nextId, out, side, posters, ticker, checking, early, open>>
  BY DEF MainDeletes, checks, history
<1>3. callbacks' = [callbacks EXCEPT ![me.acct] = @ \ {me.act.id}] /\ DOMAIN callbacks = Accounts
  BY DEF IInv, TypeOK, MainDeletes
<1>4. me.act \in Held("deleting", me.acct)
  <2>1. me = ui[1] /\ 1 \in 1..Len(ui)
    BY <1>1, UiTypes DEF IInv
  <2>2. QED
    BY <1>1, <2>1 DEF Held
<1>5. UiRight' /\ ResetsKept
  BY <1>1, UiPop DEF IInv, Resets
<1>6. \A b \in Accounts : Held("main", b)' = Held("main", b) /\ Held("deleting", b)' = {}
                          /\ \A y \in Held("deleting", b) : b = me.acct /\ y = me.act
  BY <1>1, UiPop DEF IInv, Sent
<1>7. \A r \in Places \ {"deleting"}, b \in Accounts : Held(r, b)' = Held(r, b)
  BY <1>2, <1>6, HeldFrame DEF Places
<1>8. OnePlace'
  BY <1>6, <1>7, LessOnePlace DEF IInv
<1>9. me.act.id # 0 /\ \A r \in Places, b \in Accounts : \A y \in Held(r, b)' : y.id # me.act.id
  <2>1. "deleting" \in Places /\ "deleting" \notin Answering
    BY DEF Places, Answering
  <2>2. me.act.id # 0
    BY <1>1, <1>4, <2>1 DEF IInv, IdsFresh
  <2>3. \A r \in Places, b \in Accounts : \A y \in Held(r, b) : y.id = me.act.id => r = "deleting"
    BY <1>1, <1>4, <2>1, <2>2, Alone DEF IInv
  <2>4. ASSUME NEW r \in Places, NEW b \in Accounts, NEW y \in Held(r, b)' PROVE y.id # me.act.id
    <3>1. r # "deleting"
      BY <1>6, <2>4
    <3>2. y \in Held(r, b)
      BY <1>7, <2>4, <3>1
    <3>3. QED
      BY <2>3, <3>1, <3>2
  <2>5. QED
    BY <2>2, <2>4
<1>10. IdsFresh'
  <2>1. \A a \in Accounts : callbacks'[a] \subseteq callbacks[a]
    BY <1>3
  <2>2. QED
    BY <1>2, <1>6, <1>7, <2>1 DEF IInv, IdsFresh
<1>11. TableRight'
  <2>1. \A a \in Accounts : \A i : i # me.act.id => (i \in callbacks'[a] <=> i \in callbacks[a])
    BY <1>3
  <2>2. QED
    <3>1. ASSUME NEW p \in Places, NEW a \in Accounts, NEW x \in Held(p, a)'
          PROVE  x.cb <=> x.id \in callbacks'[a]
      <4>1. x \in Held(p, a) /\ x.id # me.act.id
        BY <1>6, <1>7, <1>9
      <4>2. x.cb <=> x.id \in callbacks[a]
        BY <4>1 DEF IInv, TableRight
      <4>3. QED
        BY <2>1, <4>1, <4>2
    <3>2. QED
      BY <3>1 DEF TableRight
<1>12. TableUsed'
  <2>1. ASSUME NEW a \in Accounts, NEW i \in callbacks'[a]
        PROVE  i \in open \/ \E p \in Places : \E x \in Held(p, a)' : x.id = i
    <3>1. i \in callbacks[a] /\ (a = me.acct => i # me.act.id)
      BY <1>3, <2>1
    <3>2. CASE \E p \in Places : \E x \in Held(p, a) : x.id = i
      BY <1>6, <1>7, <3>1, <3>2
    <3>3. QED
      BY <3>1, <3>2 DEF IInv, TableUsed
  <2>2. QED
    BY <1>2, <2>1 DEF TableUsed
<1>13. CheckingOwned'
  <2>1. ASSUME NEW a \in Accounts, checking[a]
        PROVE  \/ \E p \in Places \ {"deleting"} : \E x \in Held(p, a) : x.kind = "check" /\ x.cb
               \/ \E k \in 1..Len(ui') : ui'[k].acct = a /\ Resets(ui'[k])
    BY <1>5, <2>1 DEF IInv, CheckingOwned, ResetsKept
  <2>2. QED
    BY <1>2, <1>7, <2>1 DEF CheckingOwned, Resets
<1>14. CheckAlone'
  <2>1. \A p \in Places, a \in Accounts : \A x : CheckHeld(p, a, x)' = CheckHeld(p, a, x)
    BY <1>7 DEF CheckHeld
  <2>2. ASSUME NEW a \in Accounts, ~early[a]
        PROVE  /\ \A p, q \in Places : \A x \in Held(p, a)', y \in Held(q, a)' :
                    CheckHeld(p, a, x) /\ CheckHeld(q, a, y) => x.id = y.id
               /\ \A p \in Places : \A x \in Held(p, a)' : CheckHeld(p, a, x) => checking[a]
               /\ \A k \in 1..Len(ui') : ui'[k].acct = a /\ Resets(ui'[k]) =>
                    /\ ui'[k].do = "reset" /\ checking[a]
                    /\ \A p \in Places : \A x \in Held(p, a)' : ~CheckHeld(p, a, x)
    <3>1. \A p \in Places : \A x \in Held(p, a)' : x \in Held(p, a)
      BY <1>6, <1>7
    <3>2. QED
      BY <1>5, <2>2, <3>1 DEF IInv, CheckAlone, ResetsKept
  <2>3. QED
    BY <1>2, <2>1, <2>2 DEF CheckAlone, Resets
<1>15. QueuedOnce' /\ OutRight' /\ SideRight' /\ MessagesRight' /\ HoldersRight'
  BY <1>2, Frame DEF IInv
<1>16. QED
  BY <1>5, <1>8, <1>10, <1>11, <1>12, <1>13, <1>14, <1>15 DEF IInv

-----------------------------------------------------------------------------
(* Actions that are registered *)

IsCheck(x) == x.kind = "check" /\ x.cb

New(q, a, x) ==
  \A r \in Places, b \in Accounts : Held(r, b)' = Held(r, b) \cup (IF r = q /\ b = a THEN {x} ELSE {})

LEMMA RegisterTable ==
  ASSUME IInv, NEW q \in {"main", "poster", "ticker", "queued"}, NEW a \in Accounts, NEW x \in Acts,
         x.id = nextId, Register(a, x.cb), New(q, a, x), UNCHANGED open
  PROVE  IdsFresh' /\ TableRight' /\ TableUsed' /\ OnePlace'
<1>1. q \in Places /\ q \notin Answering /\ nextId \in Nat /\ nextId > 0 /\ nextId' = nextId + 1
  BY DEF Places, Answering, IInv, TypeOK, IdsFresh, Register
<1>2. \A r \in Places, b \in Accounts : \A y \in Held(r, b)' : y \in Held(r, b) \/ (r = q /\ b = a /\ y = x)
  BY DEF New
<1>3. \A r \in Places, b \in Accounts : \A y \in Held(r, b) : y \in Held(r, b)'
  BY DEF New
<1>4. x \in Held(q, a)'
  BY <1>1 DEF New
<1>5. \A b \in Accounts : \A i \in Nat :
        i \in callbacks'[b] <=> i \in callbacks[b] \/ (b = a /\ x.cb /\ i = nextId)
  <2>1. callbacks \in [Accounts -> SUBSET Nat] /\ x.cb \in BOOLEAN
    BY DEF IInv, TypeOK, Acts
  <2>2. CASE x.cb
    BY <2>1, <2>2 DEF Register
  <2>3. CASE ~x.cb
    BY <2>1, <2>3 DEF Register
  <2>4. QED
    BY <2>1, <2>2, <2>3
<1>6. \A b \in Accounts : callbacks'[b] \subseteq Nat
  <2>1. callbacks \in [Accounts -> SUBSET Nat] /\ x.cb \in BOOLEAN
    BY DEF IInv, TypeOK, Acts
  <2>2. QED
    BY <1>1, <2>1 DEF Register
<1>7. \A r \in Places, b \in Accounts : \A y \in Held(r, b) :
        y.id < nextId /\ (r \notin Answering => y.id # 0) /\ (y.cb <=> y.id \in callbacks[b])
  BY DEF IInv, IdsFresh, TableRight
<1>8. \A b \in Accounts : \A i \in callbacks[b] : 0 < i /\ i < nextId
  BY DEF IInv, IdsFresh
<1>9. OnePlace'
  BY <1>1, <1>2, NewOnePlace DEF IInv
<1>10. IdsFresh'
  <2>1. ASSUME NEW b \in Accounts, NEW i \in callbacks'[b] PROVE 0 < i /\ i < nextId'
    <3>1. i \in Nat
      BY <1>6
    <3>2. CASE i \in callbacks[b]
      BY <1>1, <1>8, <3>1, <3>2
    <3>3. CASE i = nextId
      BY <1>1, <3>3
    <3>4. QED
      BY <1>5, <3>1, <3>2, <3>3
  <2>3. ASSUME NEW r \in Places, NEW b \in Accounts, NEW y \in Held(r, b)'
        PROVE  y.id < nextId' /\ (r \notin Answering => y.id # 0)
    <3>1. CASE y \in Held(r, b)
      <4>1. y.id \in Nat
        BY <3>1, HeldTypes DEF IInv, Acts
      <4>2. QED
        BY <1>1, <1>7, <3>1, <4>1
    <3>2. CASE y = x
      BY <1>1, <3>2
    <3>3. QED
      BY <1>2, <3>1, <3>2
  <2>4. QED
    BY <1>1, <2>1, <2>3 DEF IdsFresh
<1>11. TableRight'
  <2>1. ASSUME NEW r \in Places, NEW b \in Accounts, NEW y \in Held(r, b)'
        PROVE  y.cb <=> y.id \in callbacks'[b]
    <3>1. CASE y \in Held(r, b)
      <4>1. y.id \in Nat /\ y.id < nextId /\ (y.cb <=> y.id \in callbacks[b])
        BY <1>7, <3>1, HeldTypes DEF IInv, Acts
      <4>2. y.id # nextId
        BY <1>1, <4>1
      <4>3. QED
        BY <1>5, <4>1, <4>2
    <3>2. CASE b = a /\ y = x
      <4>1. nextId \notin callbacks[a]
        BY <1>1, <1>8
      <4>2. QED
        BY <1>1, <1>5, <3>2, <4>1
    <3>3. QED
      BY <1>2, <3>1, <3>2
  <2>2. QED
    BY <2>1 DEF TableRight
<1>12. TableUsed'
  <2>1. ASSUME NEW b \in Accounts, NEW i \in callbacks'[b]
        PROVE  i \in open \/ \E p \in Places : \E y \in Held(p, b)' : y.id = i
    <3>1. CASE i \in callbacks[b]
      BY <1>3, <3>1 DEF IInv, TableUsed
    <3>2. CASE b = a /\ i = nextId
      BY <1>1, <1>4, <3>2
    <3>3. QED
      BY <1>5, <1>6, <3>1, <3>2
  <2>2. QED
    BY <2>1 DEF TableUsed
<1>13. QED
  BY <1>9, <1>10, <1>11, <1>12

(* A new check starts when none is under way, or with one that goes on.      *)
LEMMA RegisterChecks ==
  ASSUME IInv, NEW q \in {"main", "poster", "ticker", "queued"}, NEW a \in Accounts, NEW x \in Acts,
         New(q, a, x), UNCHANGED early,
         IsCheck(x) => early[a] \/ (~checking[a] /\ checking'[a]),
         \A b \in Accounts : checking'[b] => checking[b] \/ (b = a /\ IsCheck(x)),
         \A b \in Accounts : checking[b] => checking'[b],
         \A k \in 1..Len(ui) : Resets(ui[k]) =>
           (ui[k].acct = a /\ IsCheck(x)) \/ \E l \in 1..Len(ui') : ui'[l] = ui[k],
         \A k \in 1..Len(ui') : Resets(ui'[k]) => \E l \in 1..Len(ui) : ui[l] = ui'[k]
  PROVE  CheckingOwned' /\ CheckAlone'
<1>1. q \in Places \ {"deleting"} /\ x \in Held(q, a)'
  BY DEF Places, New
<1>2. \A r \in Places, b \in Accounts : \A y \in Held(r, b)' : y \in Held(r, b) \/ (r = q /\ b = a /\ y = x)
  BY DEF New
<1>3. \A r \in Places, b \in Accounts : \A y \in Held(r, b) : y \in Held(r, b)'
  BY DEF New
<1>4. CheckingOwned'
  <2>1. ASSUME NEW b \in Accounts, checking'[b]
        PROVE  \/ \E p \in Places \ {"deleting"} : \E y \in Held(p, b)' : y.kind = "check" /\ y.cb
               \/ \E k \in 1..Len(ui') : ui'[k].acct = b /\ Resets(ui'[k])
    <3>1. CASE b = a /\ IsCheck(x)
      BY <1>1, <3>1 DEF IsCheck
    <3>2. CASE checking[b] /\ ~(b = a /\ IsCheck(x))
      <4>1. CASE \E p \in Places \ {"deleting"} : \E y \in Held(p, b) : y.kind = "check" /\ y.cb
        BY <1>3, <4>1
      <4>2. CASE \E k \in 1..Len(ui) : ui[k].acct = b /\ Resets(ui[k])
        BY <3>2, <4>2
      <4>3. QED
        BY <3>2, <4>1, <4>2 DEF IInv, CheckingOwned
    <3>3. QED
      BY <2>1, <3>1, <3>2
  <2>2. QED
    BY <2>1 DEF CheckingOwned, Resets
<1>5. CheckAlone'
  <2>1. ASSUME NEW b \in Accounts, ~early[b]
        PROVE  /\ \A p, r \in Places : \A y \in Held(p, b)', z \in Held(r, b)' :
                    CheckHeld(p, b, y)' /\ CheckHeld(r, b, z)' => y.id = z.id
               /\ \A p \in Places : \A y \in Held(p, b)' : CheckHeld(p, b, y)' => checking'[b]
               /\ \A k \in 1..Len(ui') : ui'[k].acct = b /\ Resets(ui'[k]) =>
                    /\ ui'[k].do = "reset" /\ checking'[b]
                    /\ \A p \in Places : \A y \in Held(p, b)' : ~CheckHeld(p, b, y)'
    <3>1. /\ \A p, r \in Places : \A y, z : CheckHeld(p, b, y) /\ CheckHeld(r, b, z) => y.id = z.id /\ checking[b]
          /\ \A k \in 1..Len(ui) : ui[k].acct = b /\ Resets(ui[k]) =>
               /\ ui[k].do = "reset" /\ checking[b]
               /\ \A p \in Places : \A y : ~CheckHeld(p, b, y)
      BY <2>1 DEF IInv, CheckAlone, CheckHeld
    <3>2. CASE b = a /\ IsCheck(x)
      <4>1. ~checking[b] /\ checking'[b]
        BY <2>1, <3>2
      <4>2. \A p \in Places : \A y : CheckHeld(p, b, y)' => y = x
        BY <1>2, <3>1, <4>1 DEF CheckHeld
      <4>3. \A k \in 1..Len(ui') : ~(ui'[k].acct = b /\ Resets(ui'[k]))
        BY <3>1, <4>1
      <4>4. QED
        BY <4>1, <4>2, <4>3
    <3>3. CASE ~(b = a /\ IsCheck(x))
      <4>1. \A p \in Places : \A y : CheckHeld(p, b, y)' => CheckHeld(p, b, y)
        BY <1>2, <3>3 DEF CheckHeld, IsCheck
      <4>2. ASSUME NEW k \in 1..Len(ui'), ui'[k].acct = b, Resets(ui'[k])
            PROVE  /\ ui'[k].do = "reset" /\ checking'[b]
                   /\ \A p \in Places : \A y \in Held(p, b)' : ~CheckHeld(p, b, y)'
        BY <3>1, <4>1, <4>2
      <4>3. ASSUME NEW p \in Places, NEW r \in Places, NEW y \in Held(p, b)', NEW z \in Held(r, b)',
                   CheckHeld(p, b, y)', CheckHeld(r, b, z)'
            PROVE  y.id = z.id
        BY <3>1, <4>1, <4>3
      <4>4. ASSUME NEW p \in Places, NEW y \in Held(p, b)', CheckHeld(p, b, y)'
            PROVE  checking'[b]
        BY <3>1, <4>1, <4>4
      <4>5. QED
        BY <4>2, <4>3, <4>4
    <3>4. QED
      BY <3>2, <3>3
  <2>2. QED
    BY <2>1 DEF CheckAlone, Resets
<1>6. QED
  BY <1>4, <1>5

LEMMA TickLocksRight ==
  ASSUME IInv, TypeOK', NEW a \in Accounts, TickLocks(a)
  PROVE  IInv'
<1>1. /\ UNCHANGED <<actions, messages, out, side, ui, posters, early, open>>
      /\ ticker[a].do = "lock" /\ ticker \in [Accounts -> Steps] /\ nextId \in Nat
      /\ checking \in [Accounts -> BOOLEAN]
  BY DEF IInv, TypeOK, TickLocks, history
<1>2. /\ QueuedOnce' /\ OutRight' /\ SideRight' /\ MessagesRight' /\ UiRight' /\ ResetsKept
      /\ \A r \in Places \ {"ticker"}, b \in Accounts : Held(r, b)' = Held(r, b)
  BY <1>1, Frame, HeldFrame DEF IInv, Places
<1>3. CASE checking[a]
  <2>1. ticker' = [ticker EXCEPT ![a] = Step("wait", a, NoAct)] /\ UNCHANGED <<checking, callbacks, nextId>>
    BY <1>3 DEF TickLocks
  <2>2. ~Sent(ticker[a], a) /\ ~Sent(ticker'[a], a) /\ \A b \in Accounts : b # a => ticker'[b] = ticker[b]
    BY <1>1, <2>1 DEF Step, Sent
  <2>3. \A b \in Accounts : Held("ticker", b)' = Held("ticker", b)
    BY <2>2 DEF Held, Sent
  <2>4. HoldersRight'
    BY <1>1, <2>1, <2>2 DEF IInv, HoldersRight, Step
  <2>5. \A r \in Places, b \in Accounts : Held(r, b)' = Held(r, b)
    BY <1>2, <2>3
  <2>6. QED
    BY <1>1, <1>2, <2>1, <2>4, <2>5, Stays, CarriedRest DEF IInv
<1>4. CASE ~checking[a]
  <2> DEFINE x == Act(nextId, "check", TRUE)
  <2>1. /\ ticker' = [ticker EXCEPT ![a] = Step("send", a, x)]
        /\ checking' = [checking EXCEPT ![a] = TRUE] /\ Register(a, TRUE)
    BY <1>4 DEF TickLocks
  <2>2. x \in Acts /\ x.id = nextId /\ x.cb = TRUE /\ IsCheck(x)
    BY <1>1 DEF Act, Acts, IsCheck
  <2>3. /\ ticker'[a].do = "send" /\ ticker'[a].acct = a /\ ticker'[a].act = x
        /\ \A b \in Accounts : b # a => ticker'[b] = ticker[b]
    BY <1>1, <2>1 DEF Step
  <2> HIDE DEF x
  <2>4. \A b \in Accounts : Held("ticker", b)' = Held("ticker", b) \cup (IF b = a THEN {x} ELSE {})
    <3>1. ~Sent(ticker[a], a) /\ Sent(ticker'[a], a)
      BY <1>1, <2>3 DEF Sent
    <3>2. QED
      BY <2>3, <3>1 DEF Held, Sent
  <2>5. New("ticker", a, x)
    BY <1>2, <2>4 DEF New
  <2>6. HoldersRight'
    BY <1>1, <2>3 DEF IInv, HoldersRight
  <2>7. IdsFresh' /\ TableRight' /\ TableUsed' /\ OnePlace'
    BY <1>1, <2>1, <2>2, <2>5, RegisterTable
  <2>8. CheckingOwned' /\ CheckAlone'
    <3>1. /\ ~checking[a] /\ checking'[a]
          /\ \A b \in Accounts : checking'[b] => checking[b] \/ b = a
          /\ \A b \in Accounts : checking[b] => checking'[b]
      BY <1>1, <1>4, <2>1
    <3>2. QED
      BY <1>1, <2>2, <2>5, <3>1, RegisterChecks
  <2>9. QED
    BY <1>2, <2>6, <2>7, <2>8 DEF IInv
<1>5. QED
  BY <1>3, <1>4

LEMMA CommandRight ==
  ASSUME IInv, TypeOK', NEW a \in Accounts, Command(a)
  PROVE  IInv'
<1>1. /\ UNCHANGED <<actions, messages, out, side, ticker, checking, early, open>>
      /\ ui = <<>> /\ nextId \in Nat /\ checking \in [Accounts -> BOOLEAN]
  BY DEF IInv, TypeOK, Command, checks, history
<1>2. /\ QueuedOnce' /\ OutRight' /\ SideRight' /\ MessagesRight'
  BY <1>1, Frame DEF IInv
<1>3. \A r \in Places \ {"main", "deleting", "poster"}, b \in Accounts : Held(r, b)' = Held(r, b)
  BY <1>1, HeldFrame DEF Places
<1>4. ASSUME \E s : s.do \in {"post", "check"} /\ ~Resets(s) /\ ui' = <<s>>,
             UNCHANGED <<posters, callbacks, nextId>>
      PROVE  IInv'
  <2>a. PICK s : s.do \in {"post", "check"} /\ ~Resets(s) /\ ui' = <<s>>
    BY <1>4
  <2>1. \A k \in 1..Len(ui') : k = 1 /\ ui'[k] = s
    BY <2>a
  <2>2. Len(ui) = 0 /\ Len(ui') = 1
    BY <1>1, <2>a
  <2>3. UiRight' /\ ResetsKept
    BY <2>a, <2>1, <2>2 DEF UiRight, ResetsKept
  <2>4. \A b \in Accounts : Held("main", b)' = Held("main", b) /\ Held("deleting", b)' = Held("deleting", b)
    BY <2>a, <2>1, <2>2 DEF Held, Sent
  <2>5. \A r \in Places, b \in Accounts : Held(r, b)' = Held(r, b)
    BY <1>3, <1>4, <2>4, HeldFrame
  <2>6. HoldersRight'
    BY <1>1, <1>4 DEF IInv, HoldersRight
  <2>7. QED
    BY <1>1, <1>2, <1>4, <2>3, <2>5, <2>6, Stays, CarriedRest DEF IInv
<1>5. ASSUME Register(a, TRUE), UNCHANGED ui,
             posters' = posters \cup {Step("send", a, Act(nextId, "open", TRUE))}
      PROVE  IInv'
  <2> DEFINE x == Act(nextId, "open", TRUE)
  <2>1. x \in Acts /\ x.id = nextId /\ x.cb = TRUE /\ ~IsCheck(x)
    BY <1>1 DEF Act, Acts, IsCheck
  <2>2. posters' = posters \cup {Step("send", a, x)}
    BY <1>5
  <2> HIDE DEF x
  <2>3. \A b \in Accounts : Held("poster", b)' = Held("poster", b) \cup (IF b = a THEN {x} ELSE {})
    <3>1. \A b \in Accounts : \A y : y \in Held("poster", b) <=> \E t \in posters : Sent(t, b) /\ t.act = y
      BY DEF Held
    <3>2. \A b \in Accounts : \A y : y \in Held("poster", b)' <=> \E t \in posters' : Sent(t, b) /\ t.act = y
      BY DEF Held, Sent
    <3>3. \A b \in Accounts : Sent(Step("send", a, x), b) <=> b = a
      BY DEF Sent, Step
    <3>4. Step("send", a, x).act = x
      BY DEF Step
    <3>5. QED
      BY <2>2, <3>1, <3>2, <3>3, <3>4
  <2>4. New("poster", a, x)
    <3>1. \A b \in Accounts : Held("main", b)' = Held("main", b) /\ Held("deleting", b)' = Held("deleting", b)
      BY <1>5, HeldFrame
    <3>2. QED
      BY <1>3, <2>3, <3>1 DEF New
  <2>5. IdsFresh' /\ TableRight' /\ TableUsed' /\ OnePlace'
    BY <1>1, <1>5, <2>1, <2>4, RegisterTable
  <2>6. UiRight' /\ ResetsKept
    BY <1>5, Frame DEF IInv
  <2>7. CheckingOwned' /\ CheckAlone'
    BY <1>1, <2>1, <2>4, <2>6, RegisterChecks DEF ResetsKept
  <2>8. HoldersRight'
    BY <1>1, <2>2 DEF IInv, HoldersRight, Step
  <2>9. QED
    BY <1>2, <2>5, <2>6, <2>7, <2>8 DEF IInv
<1>6. /\ \A kind \in {"read", "store"} :
           Step("post", a, Act(0, kind, TRUE)).do = "post" /\ ~Resets(Step("post", a, Act(0, kind, TRUE)))
      /\ Step("check", a, NoAct).do = "check" /\ ~Resets(Step("check", a, NoAct))
  BY DEF Step, Act, Resets
<1>7. ASSUME \/ \E kind \in {"read", "store"} : ui' = <<Step("post", a, Act(0, kind, TRUE))>>
             \/ ui' = <<Step("check", a, NoAct)>>,
             UNCHANGED <<posters, callbacks, nextId>>
      PROVE  IInv'
  <2>1. \E s : s.do \in {"post", "check"} /\ ~Resets(s) /\ ui' = <<s>>
    BY <1>6, <1>7
  <2>2. QED
    BY <1>4, <1>7, <2>1
<1>8. QED
  BY <1>5, <1>7 DEF Command

LEMMA MainRegistersRight ==
  ASSUME IInv, TypeOK', MainRegisters
  PROVE  IInv'
<1> DEFINE a == me.acct
           x == [me.act EXCEPT !.id = nextId]
           s == Step("send", a, x)
<1>1. /\ ui # <<>> /\ me.do = "post" /\ a \in Accounts /\ me.act \in Acts /\ me = ui[1] /\ nextId \in Nat
      /\ ui \in Seq(Steps)
  BY UiTypes DEF IInv, TypeOK, MainRegisters, Does, me
<1>2. x \in Acts /\ x.id = nextId /\ x.cb = me.act.cb /\ x.kind = me.act.kind
  BY <1>1 DEF Acts
<1>3. /\ UNCHANGED <<actions, messages, out, side, posters, ticker, checking, early, open>>
      /\ Register(a, x.cb) /\ ui' = <<s>> \o Tail(ui)
  BY <1>1, <1>2 DEF MainRegisters, checks, history
<1>4. s.do = "send" /\ s.acct = a /\ s.act = x /\ s \in Steps
  BY <1>1, <1>2, ActTypes DEF Step
<1> HIDE DEF a, x, s
<1>5. /\ Len(ui') = Len(ui) /\ Len(ui) \in Nat /\ Len(ui) > 0 /\ ui'[1] = s
      /\ \A k \in 1..Len(ui) : k = 1 \/ ui'[k] = ui[k]
  <2>1. Tail(ui) \in Seq(Steps) /\ <<s>> \in Seq(Steps) /\ Len(<<s>>) = 1 /\ <<s>>[1] = s
    BY <1>1, <1>4, SeqTail, SeqShort
  <2>2. QED
    BY <1>1, <1>3, <2>1, SeqTail
<1>6. \A k \in 1..Len(ui) : ui[k].do \in {"send", "check", "post"} => k = 1
  BY <1>1, <1>5 DEF IInv, UiRight
<1>7. UiRight'
  <2>1. ASSUME NEW k \in 1..Len(ui'), NEW l \in 1..Len(ui'), ui'[k].do = ui'[l].do PROVE k = l
    BY <1>4, <1>5, <1>6, <2>1 DEF IInv, UiRight
  <2>2. ASSUME NEW k \in 1..Len(ui') PROVE (ui'[k].do = "send" => k = 1) /\ ui'[k].do # "check"
    BY <1>4, <1>5, <1>6
  <2>3. QED
    BY <2>1, <2>2 DEF UiRight
<1>8. \A b \in Accounts : Held("main", b) = {} /\ Held("main", b)' = (IF b = a THEN {x} ELSE {})
  <2>1. \A k \in 1..Len(ui) : ui[k].do # "send"
    BY <1>1, <1>6
  <2>2. \A b \in Accounts : Held("main", b) = {}
    BY <2>1 DEF Held, Sent
  <2>3. \A k \in 1..Len(ui') : ui'[k].do = "send" <=> k = 1
    BY <1>4, <1>5, <2>1
  <2>4. \A b \in Accounts : \A y : y \in Held("main", b)' <=>
          \E k \in 1..Len(ui') : ui'[k].acct = b /\ ui'[k].do = "send" /\ ui'[k].act = y
    BY DEF Held, Sent
  <2>5. \A b \in Accounts : \A y : y \in Held("main", b)' <=> b = a /\ y = x
    BY <1>4, <1>5, <2>3, <2>4
  <2>6. QED
    BY <2>2, <2>5
<1>9. \A b \in Accounts : Held("deleting", b)' = Held("deleting", b)
  <2>1. \A k \in 1..Len(ui) : ui[k].do = "delete" => ui'[k] = ui[k]
    BY <1>1, <1>5
  <2>2. \A k \in 1..Len(ui) : ui'[k].do = "delete" => ui'[k] = ui[k]
    BY <1>4, <1>5
  <2>3. QED
    BY <1>5, <2>1, <2>2 DEF Held
<1>10. \A r \in Places \ {"main"}, b \in Accounts : Held(r, b)' = Held(r, b)
  BY <1>3, <1>9, HeldFrame DEF Places
<1>11. New("main", a, x)
  BY <1>8, <1>10 DEF New
<1>12. IdsFresh' /\ TableRight' /\ TableUsed' /\ OnePlace'
  BY <1>1, <1>2, <1>3, <1>11, RegisterTable
<1>13. IsCheck(x) => Resets(me) /\ early[a]
  <2>1. IsCheck(x) => Resets(me)
    BY <1>1, <1>2 DEF IsCheck, Resets
  <2>2. Resets(me) /\ ~early[a] => me.do = "reset"
    BY <1>1, <1>5 DEF IInv, CheckAlone, a
  <2>3. QED
    BY <1>1, <2>1, <2>2
<1>14. CheckingOwned' /\ CheckAlone'
  <2>1. \A k \in 1..Len(ui) : Resets(ui[k]) =>
          (ui[k].acct = a /\ IsCheck(x)) \/ \E l \in 1..Len(ui') : ui'[l] = ui[k]
    <3>1. Resets(me) => IsCheck(x) /\ me.acct = a
      BY <1>1, <1>2 DEF Resets, IsCheck, a
    <3>2. QED
      BY <1>1, <1>5, <3>1
  <2>2. \A k \in 1..Len(ui') : Resets(ui'[k]) => \E l \in 1..Len(ui) : ui[l] = ui'[k]
    <3>1. ~Resets(s)
      BY <1>4 DEF Resets
    <3>2. QED
      BY <1>5, <3>1
  <2>3. QED
    BY <1>1, <1>2, <1>3, <1>11, <1>13, <2>1, <2>2, RegisterChecks
<1>15. QueuedOnce' /\ OutRight' /\ SideRight' /\ MessagesRight' /\ HoldersRight'
  BY <1>3, Frame DEF IInv
<1>16. QED
  BY <1>7, <1>12, <1>14, <1>15 DEF IInv

LEMMA MainChecksRight ==
  ASSUME IInv, TypeOK', MainChecks
  PROVE  IInv'
<1>1. /\ ui # <<>> /\ me.do = "check" /\ me.acct \in Accounts /\ me = ui[1] /\ nextId \in Nat
      /\ ui \in Seq(Steps) /\ 1 \in 1..Len(ui) /\ checking \in [Accounts -> BOOLEAN]
  BY UiTypes DEF IInv, TypeOK, MainChecks, Does, me
<1>2. UNCHANGED <<actions, messages, out, side, posters, ticker, early, open>>
  BY DEF MainChecks, history
<1>3. CASE checking[me.acct]
  <2>1. ui' = Tail(ui) /\ UNCHANGED <<checking, callbacks, nextId>>
    BY <1>3 DEF MainChecks
  <2>2. ResetsKept
    BY <1>1, <2>1, UiPop DEF IInv, Resets
  <2>3. QED
    BY <1>1, <1>2, <2>1, <2>2, UiStays, Stays, CarriedRest DEF IInv
<1>4. CASE ~checking[me.acct]
  <2> DEFINE a == me.acct
             x == Act(nextId, "check", TRUE)
             s == Step("send", a, x)
             u == Step("unlock", a, NoAct)
  <2>1. x \in Acts /\ x.id = nextId /\ x.cb = TRUE /\ IsCheck(x)
    BY <1>1 DEF Act, Acts, IsCheck
  <2>2. /\ checking' = [checking EXCEPT ![a] = TRUE] /\ Register(a, TRUE)
        /\ ui' = <<s, u>> \o Tail(ui)
    BY <1>4 DEF MainChecks
  <2>3. Len(ui) = 1 /\ Tail(ui) \in Seq(Steps) /\ Len(Tail(ui)) = 0 /\ \A k \in 1..Len(ui) : k = 1
    <3>1. Len(ui) = 1
      BY <1>1 DEF IInv, UiRight
    <3>2. QED
      BY <1>1, <3>1, SeqTail
  <2>4. s.do = "send" /\ s.acct = a /\ s.act = x /\ u.do = "unlock" /\ s \in Steps /\ u \in Steps
    BY <1>1, <2>1, ActTypes DEF Step
  <2> HIDE DEF a, x, s, u
  <2>5. Len(ui') = 2 /\ ui'[1] = s /\ ui'[2] = u /\ \A k \in 1..Len(ui') : k = 1 \/ k = 2
    <3>1. <<s, u>> \in Seq(Steps) /\ Len(<<s, u>>) = 2 /\ <<s, u>>[1] = s /\ <<s, u>>[2] = u
      BY <2>4, SeqShort
    <3> DEFINE w == <<s, u>>
    <3>2. w \in Seq(Steps) /\ Len(w) = 2 /\ w[1] = s /\ w[2] = u /\ ui' = w \o Tail(ui)
      BY <2>2, <3>1
    <3> HIDE DEF w
    <3>3. Len(w \o Tail(ui)) = Len(w) + Len(Tail(ui)) /\ \A k \in 1..Len(w) : (w \o Tail(ui))[k] = w[k]
      <4> DEFINE t == Tail(ui)
      <4>1. t \in Seq(Steps)
        BY <2>3
      <4> HIDE DEF t
      <4>2. w \in Seq(Steps)
        BY <3>2, Zenon
      <4>3. Len(w \o t) = Len(w) + Len(t) /\ \A k \in 1..Len(w) : (w \o t)[k] = w[k]
        BY <4>1, <4>2, SeqConcat, Zenon
      <4>4. QED
        BY <4>3 DEF t
    <3>4. Len(ui') = 2
      <4>1. Len(ui') = 2 + 0
        BY <2>3, <3>2, <3>3, Zenon
      <4>2. QED
        BY <4>1
    <3>5. ui'[1] = w[1] /\ ui'[2] = w[2]
      <4>1. 1 \in 1..Len(w) /\ 2 \in 1..Len(w)
        BY <3>2
      <4>2. QED
        BY <3>2, <3>3, <4>1
    <3>6. \A k \in 1..2 : k = 1 \/ k = 2
      OBVIOUS
    <3>7. QED
      BY <3>2, <3>4, <3>5, <3>6
  <2>6. UiRight'
    BY <2>4, <2>5 DEF UiRight
  <2>7. \A b \in Accounts : /\ Held("main", b)' = Held("main", b) \cup (IF b = a THEN {x} ELSE {})
                            /\ Held("deleting", b)' = Held("deleting", b)
    <3>1. \A b \in Accounts : Held("main", b) = {} /\ Held("deleting", b) = {}
      BY <1>1, <2>3 DEF Held, Sent
    <3>2. \A b \in Accounts : Held("deleting", b)' = {}
      BY <2>4, <2>5 DEF Held
    <3>3. \A b \in Accounts : \A y : y \in Held("main", b)' <=>
            \E k \in 1..Len(ui') : ui'[k].acct = b /\ ui'[k].do = "send" /\ ui'[k].act = y
      BY DEF Held, Sent
    <3>4. 1 \in 1..Len(ui') /\ 2 \in 1..Len(ui')
      BY <2>5
    <3>5. \A b \in Accounts : \A y : y \in Held("main", b)' <=> b = a /\ y = x
      BY <2>4, <2>5, <3>3, <3>4
    <3>6. QED
      BY <3>1, <3>2, <3>5
  <2>8. New("main", a, x)
    <3>1. \A r \in Places \ {"main"}, b \in Accounts : Held(r, b)' = Held(r, b)
      BY <1>2, <2>7, HeldFrame DEF Places
    <3>2. QED
      BY <2>7, <3>1 DEF New
  <2>9. IdsFresh' /\ TableRight' /\ TableUsed' /\ OnePlace'
    BY <1>1, <1>2, <2>1, <2>2, <2>8, RegisterTable DEF a
  <2>10. CheckingOwned' /\ CheckAlone'
    <3>1. /\ ~checking[a] /\ checking'[a]
          /\ \A b \in Accounts : checking'[b] => checking[b] \/ b = a
          /\ \A b \in Accounts : checking[b] => checking'[b]
      BY <1>1, <1>4, <2>2 DEF a
    <3>2. \A k \in 1..Len(ui) : ~Resets(ui[k])
      BY <1>1, <2>3 DEF Resets
    <3>3. \A k \in 1..Len(ui') : ~Resets(ui'[k])
      BY <2>4, <2>5 DEF Resets
    <3>4. QED
      BY <1>1, <1>2, <2>1, <2>8, <3>1, <3>2, <3>3, RegisterChecks DEF a
  <2>11. QueuedOnce' /\ OutRight' /\ SideRight' /\ MessagesRight' /\ HoldersRight'
    BY <1>2, Frame DEF IInv
  <2>12. QED
    BY <2>6, <2>9, <2>10, <2>11 DEF IInv
<1>5. QED
  BY <1>3, <1>4

-----------------------------------------------------------------------------
(* Answers of a worker *)

LEMMA AnswersEarly ==
  ASSUME \A a \in Accounts : early[a] => early'[a]
  PROVE  /\ \A m : m.acct \in Accounts /\ Ends(m)' => Ends(m)
         /\ \A a \in Accounts : \A rs : Answers(a, rs) => Answers(a, rs)'
<1>1. ASSUME NEW m, m.acct \in Accounts, Ends(m)' PROVE Ends(m)
  BY <1>1 DEF Ends
<1>2. ASSUME NEW a \in Accounts, NEW rs, Answers(a, rs) PROVE Answers(a, rs)'
  <2>1. Len(rs) = 2 => rs[1].acct = a
    BY <1>2 DEF Answers
  <2>2. Len(rs) = 2 /\ ~Ends(rs[1]) => ~Ends(rs[1])'
    BY <1>1, <2>1
  <2>3. QED
    BY <1>2, <2>2 DEF Answers
<1>3. QED
  BY <1>1, <1>2

LEMMA AnswersStay ==
  ASSUME \A a \in Accounts : early[a] => early'[a]
  PROVE  /\ OutRight /\ UNCHANGED out => OutRight'
         /\ SideRight /\ UNCHANGED side => SideRight'
<1>1. ASSUME OutRight, UNCHANGED out PROVE OutRight'
  <2>1. ASSUME NEW a \in Accounts, NEW rs, rs = out[a] PROVE Answers(a, rs)'
    BY <1>1, <2>1, AnswersEarly DEF OutRight
  <2>2. ASSUME NEW a \in Accounts, NEW rs, rs = out'[a], Answers(a, rs)' PROVE Answers(a, out[a])'
    BY <2>2 DEF Answers, Ends
  <2>3. QED
    BY <1>1, <2>1, <2>2 DEF OutRight
<1>2. ASSUME SideRight, UNCHANGED side PROVE SideRight'
  <2>1. \A rs \in side : \E a \in Accounts : Answers(a, rs)'
    BY <1>2, AnswersEarly DEF SideRight
  <2>2. QED
    BY <1>2, <2>1 DEF SideRight
<1>3. QED
  BY <1>1, <1>2

LEMMA AnswersTail ==
  ASSUME NEW a \in Accounts, NEW rs \in Seq(Messages), rs # <<>>, Answers(a, rs)
  PROVE  /\ Answers(a, Tail(rs)) /\ Len(rs) \in 1..2 /\ Head(rs) = rs[1] /\ Head(rs) \in Messages
         /\ Len(rs) = 1 => Len(Tail(rs)) = 0
         /\ Len(rs) = 2 => Len(Tail(rs)) = 1 /\ Tail(rs)[1] = rs[2]
         /\ 1 \in 1..Len(rs) /\ \A k \in 1..Len(rs) : k = 1 \/ (k = 2 /\ Len(rs) = 2)
<1> DEFINE t == Tail(rs)
<1>1. /\ Len(rs) \in Nat /\ Len(rs) > 0 /\ Len(t) = Len(rs) - 1 /\ Head(rs) = rs[1] /\ Head(rs) \in Messages
      /\ \A k \in 1..Len(t) : t[k] = rs[k + 1]
  BY SeqTail
<1>2. Len(rs) <= 2
  BY DEF Answers
<1> HIDE DEF t
<1>3. Len(rs) \in 1..2 /\ 1 \in 1..Len(rs) /\ \A k \in 1..Len(rs) : k = 1 \/ (k = 2 /\ Len(rs) = 2)
  BY <1>1, <1>2
<1>4. Len(rs) = 1 => Len(t) = 0
  BY <1>1
<1>5. Len(rs) = 2 => Len(t) = 1 /\ t[1] = rs[2]
  <2>1. Len(rs) = 2 => Len(t) = 1
    BY <1>1
  <2>2. 1 \in 1..1 /\ 1 + 1 = 2
    OBVIOUS
  <2>3. QED
    BY <1>1, <2>1, <2>2
<1>6. Answers(a, t)
  <2>1. CASE Len(rs) = 1
    <3>1. Len(t) <= 2 /\ Len(t) # 2 /\ \A k \in 1..Len(t) : FALSE
      BY <1>4, <2>1
    <3>2. QED
      BY <3>1 DEF Answers
  <2>2. CASE Len(rs) = 2
    <3>1. 2 \in 1..Len(rs)
      BY <2>2
    <3>2. /\ rs[2].acct = a /\ rs[2].type \in Final /\ rs[2].act.id # 0
          /\ rs[2].type = "self" => rs[2].act = Act(0, "check", FALSE)
      BY <2>2, <3>1 DEF Answers
    <3>3. Len(t) <= 2 /\ Len(t) # 2 /\ \A k \in 1..Len(t) : k = 1
      <4>1. Len(t) = 1 /\ \A k \in 1..1 : k = 1
        BY <1>5, <2>2
      <4>2. QED
        BY <4>1
    <3>4. \A k \in 1..Len(t) : t[k] = rs[2]
      BY <1>5, <2>2, <3>3
    <3>5. QED
      BY <3>2, <3>3, <3>4 DEF Answers
  <2>3. QED
    BY <1>3, <2>1, <2>2
<1>7. QED
  BY <1>1, <1>3, <1>4, <1>5, <1>6 DEF t

(* The acts that a worker still answers. *)
LEMMA HeldOut ==
  ASSUME NEW a \in Accounts
  PROVE  /\ \A y : y \in Held("out", a) <=> \E k \in 1..Len(out[a]) : out[a][k].type # "self" /\ out[a][k].act = y
         /\ \A y : y \in Held("out", a)' <=>
              \E k \in 1..Len(out'[a]) : out'[a][k].type # "self" /\ out'[a][k].act = y
         /\ \A y : y \in Held("side", a) <=>
              \E rs \in side : \E k \in 1..Len(rs) : rs[k].acct = a /\ rs[k].act = y
         /\ \A y : y \in Held("side", a)' <=>
              \E rs \in side' : \E k \in 1..Len(rs) : rs[k].acct = a /\ rs[k].act = y
         /\ \A y : y \in Held("message", a) <=>
              \E k \in 1..Len(messages) : messages[k].acct = a /\ messages[k].act = y
         /\ \A y : y \in Held("message", a)' <=>
              \E k \in 1..Len(messages') : messages'[k].acct = a /\ messages'[k].act = y
BY DEF Held

(* What makes a message right after a step. *)
LEMMA RightNext ==
  ASSUME NEW k, NEW m, messages'[k] = m, m.type # "self", m.act.id = 0 => ~m.act.cb,
         m.act.id # 0 => (Ends(m)' => ~Later(k)') /\ (m.type \notin Final => Later(k)')
  PROVE  MessageRight(k)'
<1>1. Ends(messages[k])' <=> Ends(m)'
  BY DEF Ends
<1>2. QED
  BY <1>1 DEF MessageRight

(* An answer goes from the worker to the messages. *)
LEMMA MessageMove ==
  ASSUME IInv, NEW p \in {"out", "side"}, NEW a \in Accounts, NEW rs \in Seq(Messages), rs # <<>>,
         Answers(a, rs), NEW m, m = Head(rs), m.type # "self", m.act \in Held(p, a), SendMessage(m),
         UNCHANGED early,
         \A r \in Places \ {p, "message"}, b \in Accounts : Held(r, b)' = Held(r, b),
         \A b \in Accounts : \A y \in Held(p, b)' : y \in Held(p, b),
         \A b \in Accounts : \A y \in Held(p, b) : y \in Held(p, b)' \/ (b = a /\ y = m.act),
         Len(rs) = 2 /\ m.act.id # 0 => m.act \in Held(p, a)',
         Len(rs) = 1 /\ m.act.id # 0 => m.act \notin Held(p, a)'
  PROVE  Carried /\ OnePlace' /\ MessagesRight'
<1> DEFINE x == m.act
<1>1. /\ m \in Messages /\ m.acct = a /\ m = rs[1] /\ Len(rs) \in 1..2 /\ 1 \in 1..Len(rs)
      /\ x.id = 0 => ~x.cb
      /\ x.id # 0 /\ m.type \notin Final => Len(rs) = 2
      /\ Len(rs) = 2 /\ x.id # 0 => ~Ends(m)
  <2>1. m \in Messages /\ m = rs[1] /\ Len(rs) \in 1..2 /\ 1 \in 1..Len(rs)
    BY AnswersTail
  <2>2. QED
    BY <2>1 DEF Answers
<1>2. p \in Places /\ "message" \in Places /\ p # "message" /\ p \in Answering /\ "message" \in Answering
      /\ "deleting" \notin Answering
  BY DEF Places, Answering
<1>3. \A b \in Accounts : Held("message", b)' = Held("message", b) \cup (IF b = a THEN {x} ELSE {})
  BY <1>1, MessageSend DEF IInv
<1> HIDE DEF x
<1>4. \A r \in Places, b \in Accounts : \A y \in Held(r, b)' :
        y \in Held(r, b) \/ (r = "message" /\ b = a /\ y = x)
  BY <1>3
<1>5. \A r \in Places, b \in Accounts : \A y \in Held(r, b) :
        y \in Held(r, b)' \/ (r = p /\ b = a /\ y = x)
  BY <1>3 DEF x
<1>6. x \in Held("message", a)' /\ x \in Held(p, a)
  BY <1>3 DEF x
<1>7. \A r \in Places, b \in Accounts : \A y \in Held(r, b) : y.id = 0 => ~y.cb /\ r \in Answering
  BY DEF IInv, IdsFresh, TableRight
<1>8. Carried
  <2>1. ASSUME NEW r \in Places, NEW b \in Accounts, NEW y \in Held(r, b)'
        PROVE  \/ y.id = 0 /\ ~y.cb /\ r \in Answering
               \/ y.id # 0 /\ \E q \in Places : y \in Held(q, b) /\ (r = "deleting" <=> q = "deleting")
    <3>1. CASE y \in Held(r, b)
      BY <1>7, <3>1
    <3>2. CASE r = "message" /\ b = a /\ y = x
      BY <1>1, <1>2, <1>6, <3>2 DEF x
    <3>3. QED
      BY <1>4, <3>1, <3>2
  <2>2. ASSUME NEW r \in Places, NEW b \in Accounts, NEW y \in Held(r, b)
        PROVE  \E q \in Places : y \in Held(q, b)' /\ (r = "deleting" <=> q = "deleting")
    BY <1>2, <1>5, <1>6
  <2>3. QED
    BY <2>1, <2>2 DEF Carried
<1>9. OnePlace'
  <2>1. CASE x.id = 0
    BY <1>4, <2>1, LessOnePlace DEF IInv
  <2>2. CASE x.id # 0
    <3>1. \A r \in Places : x \in Held(r, a) => r \in {p, "message"}
      <4>1. \A r \in Places : Shared(p, r) => r \in {p, "message"}
        BY DEF Shared
      <4>2. QED
        BY <1>2, <1>6, <2>2, <4>1 DEF IInv, OnePlace
    <3>2. \A r \in Places : x \in Held(r, a)' => Shared(r, "message")
      <4>1. \A r \in Places : x \in Held(r, a)' => r \in {p, "message"}
        BY <1>4, <3>1
      <4>2. Shared(p, "message") /\ Shared("message", "message")
        BY DEF Shared
      <4>3. QED
        BY <4>1, <4>2
    <3>3. QED
      BY <1>2, <1>4, <1>6, <2>2, <3>2, MoveOnePlace DEF IInv
  <2>3. QED
    BY <2>1, <2>2
<1>10. /\ messages \in Seq(Messages) /\ messages' = Append(messages, m) /\ Len(messages') = Len(messages) + 1
       /\ Len(messages) \in Nat /\ messages'[Len(messages) + 1] = m
       /\ \A k \in 1..Len(messages) : messages'[k] = messages[k] /\ messages[k].acct \in Accounts
  <2>1. messages \in Seq(Messages) /\ messages' = Append(messages, m)
    BY DEF IInv, TypeOK, SendMessage
  <2>2. \A k \in 1..Len(messages) : messages[k].acct \in Accounts
    <3>1. \A w \in Messages : w.acct \in Accounts
      BY DEF Messages
    <3>2. QED
      BY <2>1, <3>1
  <2>3. QED
    BY <1>1, <2>1, <2>2, SeqAppend
<1>11. PICK n \in Nat : n = Len(messages) + 1
  BY <1>10
<1>12. /\ messages'[n] = m /\ n \in 1..Len(messages')
       /\ \A k \in 1..Len(messages) : k \in 1..Len(messages') /\ n > k
       /\ \A k \in 1..Len(messages') : (k = n \/ k \in 1..Len(messages)) /\ ~(k > n)
  BY <1>10, <1>11
<1>13. "out" \in Places /\ "side" \in Places /\ "out" # "message" /\ "side" # "message"
  BY DEF Places
<1>14. ASSUME NEW k \in 1..Len(messages) PROVE MessageRight(k)'
  <2>1. PICK w : w = messages[k]
    OBVIOUS
  <2>2. messages'[k] = w /\ w.acct \in Accounts
    BY <1>10, <2>1
  <2>3. Later(k) <=> \/ \E l \in 1..Len(messages) : l > k /\ messages[l].acct = w.acct /\ messages[l].act = w.act
                     \/ w.act \in Held("out", w.acct) \/ w.act \in Held("side", w.acct)
    BY <2>1 DEF Later
  <2>4. Later(k)' <=> \/ \E l \in 1..Len(messages') : l > k /\ messages'[l].acct = w.acct /\ messages'[l].act = w.act
                      \/ w.act \in Held("out", w.acct)' \/ w.act \in Held("side", w.acct)'
    BY <2>2 DEF Later
  <2>5. Later(k) => Later(k)'
    <3>1. CASE \E l \in 1..Len(messages) : l > k /\ messages[l].acct = w.acct /\ messages[l].act = w.act
      BY <1>10, <1>12, <2>4, <3>1
    <3>2. CASE w.acct = a /\ w.act = x
      BY <1>1, <1>12, <2>4, <3>2 DEF x
    <3>3. CASE ~(w.acct = a /\ w.act = x)
      <4>1. \A r \in Places : w.act \in Held(r, w.acct) => w.act \in Held(r, w.acct)'
        BY <1>5, <2>2, <3>3
      <4>2. QED
        BY <1>13, <2>3, <2>4, <3>1, <4>1
    <3>4. QED
      BY <3>2, <3>3
  <2>6. Later(k)' => Later(k)
    <3>1. CASE w.act \in Held("out", w.acct)' \/ w.act \in Held("side", w.acct)'
      <4>1. \A r \in Places \ {"message"} : w.act \in Held(r, w.acct)' => w.act \in Held(r, w.acct)
        BY <1>4, <2>2
      <4>2. QED
        BY <1>13, <2>3, <3>1, <4>1
    <3>2. ASSUME NEW l \in 1..Len(messages'), l > k, messages'[l].acct = w.acct, messages'[l].act = w.act
          PROVE  Later(k)
      <4>1. CASE l = n
        <5>1. w.acct = a /\ w.act = x
          BY <1>1, <1>12, <3>2, <4>1 DEF x
        <5>2. QED
          BY <1>6, <2>3, <5>1
      <4>2. CASE l \in 1..Len(messages)
        BY <1>10, <2>3, <3>2, <4>2
      <4>3. QED
        BY <1>12, <4>1, <4>2
    <3>3. QED
      BY <2>4, <3>1, <3>2
  <2>7. Ends(w)' = Ends(w)
    BY DEF Ends
  <2>8. MessageRight(k)
    BY DEF IInv, MessagesRight
  <2>9. /\ w.type # "self" /\ (w.act.id = 0 => ~w.act.cb)
        /\ w.act.id # 0 => (Ends(w) => ~Later(k)) /\ (w.type \notin Final => Later(k))
    BY <2>1, <2>8 DEF MessageRight
  <2>10. QED
    BY <2>2, <2>5, <2>6, <2>7, <2>9, RightNext
<1>15. MessageRight(n)'
  <2>1. x.id # 0 => (Later(n)' <=> x \in Held(p, a)')
    <3>1. Later(n)' <=> x \in Held("out", a)' \/ x \in Held("side", a)'
      BY <1>1, <1>12 DEF Later, x
    <3>2. ASSUME x.id # 0 PROVE \A r \in {"out", "side"} : x \in Held(r, a)' => r = p
      <4>1. \A r \in Places : x \in Held(r, a) => Shared(r, p)
        BY <1>2, <1>6, <3>2 DEF IInv, OnePlace
      <4>2. ASSUME NEW r \in {"out", "side"}, Shared(r, p) PROVE r = p
        <5>1. "message" \notin {r, p}
          OBVIOUS
        <5>2. "message" \in {"message", "out"} /\ "message" \in {"message", "side"}
          OBVIOUS
        <5>3. {r, p} # {"message", "out"} /\ {r, p} # {"message", "side"}
          BY <5>1, <5>2
        <5>4. QED
          BY <4>2, <5>3 DEF Shared
      <4>3. QED
        BY <1>4, <1>13, <4>1, <4>2
    <3>3. QED
      BY <3>1, <3>2
  <2>2. Ends(m)' = Ends(m)
    BY DEF Ends
  <2>3. x.id # 0 => (Len(rs) = 2 => x \in Held(p, a)') /\ (Len(rs) = 1 => x \notin Held(p, a)')
    BY DEF x
  <2>4. /\ x.id = 0 => ~x.cb
        /\ x.id # 0 => (Ends(m)' => ~Later(n)') /\ (m.type \notin Final => Later(n)')
    BY <1>1, <2>1, <2>2, <2>3 DEF x
  <2>5. QED
    BY <1>12, <2>4, RightNext DEF x
<1>16. MessagesRight'
  BY <1>12, <1>14, <1>15 DEF MessagesRight
<1>17. QED
  BY <1>8, <1>9, <1>16

(* Messages stay right when the worker keeps what it has still to send of them. *)
LEMMA MessagesStay ==
  ASSUME TypeOK, MessagesRight, UNCHANGED messages, \A a \in Accounts : early[a] => early'[a],
         \A b \in Accounts : \A y \in Held("message", b) : y.id # 0 =>
           (y \in Held("out", b)' \/ y \in Held("side", b)' <=> y \in Held("out", b) \/ y \in Held("side", b))
  PROVE  MessagesRight'
<1>1. ASSUME NEW k \in 1..Len(messages) PROVE MessageRight(k)'
  <2>1. PICK w : w = messages[k]
    OBVIOUS
  <2>2. messages'[k] = w /\ w.acct \in Accounts /\ w.act \in Held("message", w.acct)
    <3>1. messages[k] \in Messages
      BY DEF TypeOK
    <3>2. w.acct \in Accounts
      BY <2>1, <3>1 DEF Messages
    <3>3. QED
      BY <2>1, <3>2, HeldOut
  <2>3. w.act.id # 0 => Later(k)' = Later(k)
    <3>1. Later(k) <=> \/ \E l \in 1..Len(messages) : l > k /\ messages[l].acct = w.acct /\ messages[l].act = w.act
                       \/ w.act \in Held("out", w.acct) \/ w.act \in Held("side", w.acct)
      BY <2>1 DEF Later
    <3>2. Later(k)' <=> \/ \E l \in 1..Len(messages) : l > k /\ messages[l].acct = w.acct /\ messages[l].act = w.act
                        \/ w.act \in Held("out", w.acct)' \/ w.act \in Held("side", w.acct)'
      BY <2>1 DEF Later
    <3>3. QED
      BY <2>2, <3>1, <3>2 DEF Later
  <2>4. Ends(w)' => Ends(w)
    BY <2>2, AnswersEarly
  <2>5. MessageRight(k)
    BY DEF MessagesRight
  <2>6. /\ w.type # "self" /\ (w.act.id = 0 => ~w.act.cb)
        /\ w.act.id # 0 => (Ends(w) => ~Later(k)) /\ (w.type \notin Final => Later(k))
    BY <2>1, <2>5 DEF MessageRight
  <2>7. QED
    BY <2>2, <2>3, <2>4, <2>6, RightNext
<1>2. QED
  BY <1>1 DEF MessagesRight

LEMMA WorkerSendsRight ==
  ASSUME IInv, TypeOK', NEW a \in Accounts, WorkerSends(a)
  PROVE  IInv'
<1>1. /\ UNCHANGED <<side, ui, posters, ticker, checking, early, open>>
      /\ out \in [Accounts -> Seq(Messages)] /\ out[a] # <<>> /\ out' = [out EXCEPT ![a] = Tail(@)]
      /\ Answers(a, out[a]) /\ nextId \in Nat
  BY DEF IInv, TypeOK, WorkerSends, checks, history, OutRight
<1>2. PICK rs \in Seq(Messages) : rs = out[a]
  BY <1>1
<1>3. PICK m : m = Head(rs)
  OBVIOUS
<1>4. out'[a] = Tail(rs) /\ \A b \in Accounts : b # a => out'[b] = out[b]
  BY <1>1, <1>2
<1>5. rs # <<>> /\ Answers(a, rs)
  BY <1>1, <1>2
<1>6. /\ Answers(a, Tail(rs)) /\ Len(rs) \in 1..2 /\ m = rs[1] /\ m \in Messages
      /\ Len(rs) = 1 => Len(Tail(rs)) = 0
      /\ Len(rs) = 2 => Len(Tail(rs)) = 1 /\ Tail(rs)[1] = rs[2]
      /\ 1 \in 1..Len(rs) /\ \A k \in 1..Len(rs) : k = 1 \/ (k = 2 /\ Len(rs) = 2)
  BY <1>3, <1>5, AnswersTail
<1>7. OutRight'
  <2>1. \A b \in Accounts : Answers(b, out'[b])
    BY <1>4, <1>6 DEF IInv, OutRight
  <2>2. \A b \in Accounts : Answers(b, out'[b]) => Answers(b, out[b])'
    <3>1. ASSUME NEW b \in Accounts, NEW s, s = out'[b], Answers(b, s) PROVE Answers(b, out[b])'
      <4>1. Answers(b, s)'
        BY <1>1, <3>1, AnswersEarly
      <4>2. QED
        BY <3>1, <4>1 DEF Answers, Ends
    <3>2. QED
      BY <3>1
  <2>3. QED
    BY <2>1, <2>2 DEF OutRight
<1>8. /\ \A y : y \in Held("out", a) <=> (m.type # "self" /\ m.act = y) \/ (Len(rs) = 2 /\ rs[2].act = y)
      /\ \A y : y \in Held("out", a)' <=> Len(rs) = 2 /\ rs[2].act = y
      /\ \A b \in Accounts : b # a => Held("out", b)' = Held("out", b)
  <2>1. Len(rs) = 2 => rs[2].type # "self" /\ 2 \in 1..Len(rs)
    BY <1>5 DEF Answers, Final
  <2>2. \A y : y \in Held("out", a) <=> (m.type # "self" /\ m.act = y) \/ (Len(rs) = 2 /\ rs[2].act = y)
    BY <1>2, <1>6, <2>1, HeldOut
  <2>3. \A y : y \in Held("out", a)' <=> \E k \in 1..Len(Tail(rs)) : Tail(rs)[k].type # "self" /\ Tail(rs)[k].act = y
    <3>1. PICK t : t = Tail(rs)
      OBVIOUS
    <3>2. out'[a] = t
      BY <1>4, <3>1
    <3>3. \A y : y \in Held("out", a)' <=> \E k \in 1..Len(t) : t[k].type # "self" /\ t[k].act = y
      BY <3>2, HeldOut
    <3>4. QED
      BY <3>1, <3>3
  <2>4. /\ Len(rs) = 1 => \A k \in 1..Len(Tail(rs)) : FALSE
        /\ Len(rs) = 2 => 1 \in 1..Len(Tail(rs)) /\ \A k \in 1..Len(Tail(rs)) : k = 1
    BY <1>6
  <2>5. \A y : y \in Held("out", a)' <=> Len(rs) = 2 /\ rs[2].act = y
    BY <1>6, <2>1, <2>3, <2>4
  <2>6. \A b \in Accounts : b # a => Held("out", b)' = Held("out", b)
    BY <1>4 DEF Held
  <2>7. QED
    BY <2>2, <2>5, <2>6
<1>9. SideRight' /\ UiRight' /\ HoldersRight' /\ ResetsKept
  BY <1>1, Frame DEF IInv
<1>10. CASE m.type # "self"
  <2>1. SendMessage(m) /\ UNCHANGED <<actions, callbacks, nextId>>
    BY <1>2, <1>3, <1>10 DEF WorkerSends
  <2>2. \A r \in Places \ {"out", "message"}, b \in Accounts : Held(r, b)' = Held(r, b)
    BY <1>1, <2>1, HeldFrame DEF Places
  <2>3. m.act \in Held("out", a)
    BY <1>8, <1>10
  <2>4. \A b \in Accounts : \A y \in Held("out", b)' : y \in Held("out", b)
    BY <1>8
  <2>5. \A b \in Accounts : \A y \in Held("out", b) : y \in Held("out", b)' \/ (b = a /\ y = m.act)
    BY <1>8
  <2>6. Len(rs) = 2 /\ m.act.id # 0 => m.act \in Held("out", a)'
    BY <1>5, <1>6, <1>8 DEF Answers
  <2>7. Len(rs) = 1 /\ m.act.id # 0 => m.act \notin Held("out", a)'
    BY <1>8
  <2>8. Carried /\ OnePlace' /\ MessagesRight'
    BY <1>1, <1>3, <1>5, <1>10, <2>1, <2>2, <2>3, <2>4, <2>5, <2>6, <2>7, MessageMove
  <2>9. QueuedOnce'
    BY <2>1, Frame DEF IInv
  <2>10. QED
    BY <1>1, <1>7, <1>9, <2>1, <2>8, <2>9, CarriedRest DEF IInv
<1>11. CASE m.type = "self"
  <2>1. m.act = Act(0, "check", FALSE)
    BY <1>5, <1>6, <1>11 DEF Answers
  <2>2. PICK x \in Acts : x = Act(nextId, "check", FALSE)
    BY <1>1, ActTypes
  <2>3. x.id = nextId /\ x.cb = FALSE /\ ~IsCheck(x)
    BY <2>2 DEF Act, IsCheck
  <2>4. SendAction(a, x) /\ Register(a, x.cb) /\ UNCHANGED messages
    <3>1. m.act.kind = "check"
      BY <2>1 DEF Act
    <3>2. QED
      BY <1>2, <1>3, <1>11, <2>2, <2>3, <3>1 DEF WorkerSends
  <2>5. \A b \in Accounts : Held("out", b)' = Held("out", b)
    <3>1. \A y : y \in Held("out", a)' <=> y \in Held("out", a)
      BY <1>8, <1>11
    <3>2. Held("out", a)' = Held("out", a)
      BY <3>1
    <3>3. QED
      BY <1>8, <3>2
  <2>6. New("queued", a, x)
    <3>1. \A b \in Accounts : Held("queued", b)' = Held("queued", b) \cup (IF b = a THEN {x} ELSE {})
      BY <2>4, QueueSend DEF IInv
    <3>2. \A r \in Places \ {"queued"}, b \in Accounts : Held(r, b)' = Held(r, b)
      BY <1>1, <2>4, <2>5, HeldFrame DEF Places
    <3>3. QED
      BY <3>1, <3>2 DEF New
  <2>7. IdsFresh' /\ TableRight' /\ TableUsed' /\ OnePlace'
    BY <1>1, <2>3, <2>4, <2>6, RegisterTable
  <2>8. CheckingOwned' /\ CheckAlone'
    BY <1>1, <2>3, <2>6, RegisterChecks
  <2>9. QueuedOnce'
    <3>1. "queued" \in Places
      BY DEF Places
    <3>2. \A y \in Held("queued", a) : y.id \in Nat /\ y.id < nextId
      BY <3>1, HeldTypes DEF IInv, IdsFresh, Acts
    <3>3. \A y \in Held("queued", a) : y.id # x.id
      BY <1>1, <2>3, <3>2
    <3>4. QED
      BY <2>4, <3>3, QueueOnce DEF IInv
  <2>10. MessagesRight'
    BY <1>1, <2>4, <2>5, HeldFrame, MessagesStay DEF IInv
  <2>11. QED
    BY <1>7, <1>9, <2>7, <2>8, <2>9, <2>10 DEF IInv
<1>12. QED
  BY <1>10, <1>11

(* Both answers of a check that a goroutine still sends are of one action. *)
LEMMA SideAct ==
  ASSUME TypeOK, SideRight, NEW s \in side, NEW k \in 1..Len(s), s[k].act.id # 0
  PROVE  s[k].act = s[Len(s)].act
<1>1. PICK b \in Accounts : Answers(b, s)
  BY DEF SideRight
<1>2. Len(s) <= 2 /\ (Len(s) = 2 /\ s[1].act.id # 0 => s[1].act = s[2].act)
  BY <1>1 DEF Answers
<1>3. k = Len(s) \/ (k = 1 /\ Len(s) = 2)
  <2>1. PICK n \in Nat : n = Len(s)
    BY DEF TypeOK
  <2>2. n <= 2 /\ k \in 1..n
    BY <1>2, <2>1
  <2>3. k = n \/ (k = 1 /\ n = 2)
    BY <2>2
  <2>4. QED
    BY <2>1, <2>3
<1>4. QED
  BY <1>2, <1>3

LEMMA SideSendsRight ==
  ASSUME IInv, TypeOK', NEW rs \in side, SideSends(rs)
  PROVE  IInv'
<1>1. /\ UNCHANGED <<actions, callbacks, nextId, out, ui, posters, ticker, checking, early, open>>
      /\ rs \in Seq(Messages) /\ rs # <<>> /\ SendMessage(Head(rs)) /\ rs[Len(rs)].act.id # 0
      /\ side' = (side \ {rs}) \cup (IF Len(rs) > 1 THEN {Tail(rs)} ELSE {})
      /\ \A k \in 1..Len(rs) : rs[k].type # "self"
  BY DEF IInv, TypeOK, SideSends, checks, history, SideRight
<1>2. PICK a \in Accounts : Answers(a, rs)
  BY DEF IInv, SideRight
<1>3. PICK m : m = Head(rs)
  OBVIOUS
<1>4. PICK t : t = Tail(rs)
  OBVIOUS
<1>5. /\ Answers(a, t) /\ Len(rs) \in 1..2 /\ m = rs[1] /\ m \in Messages
      /\ Len(rs) = 1 => Len(t) = 0
      /\ Len(rs) = 2 => Len(t) = 1 /\ t[1] = rs[2]
      /\ 1 \in 1..Len(rs) /\ \A k \in 1..Len(rs) : k = 1 \/ (k = 2 /\ Len(rs) = 2)
  BY <1>1, <1>2, <1>3, <1>4, AnswersTail
<1>6. /\ m.type # "self" /\ \A k \in 1..Len(rs) : rs[k].acct = a
      /\ Len(rs) = 2 => 2 \in 1..Len(rs)
      /\ Len(rs) = 2 /\ m.act.id # 0 => m.act = rs[2].act
  BY <1>1, <1>2, <1>5 DEF Answers
<1>7. \A s : s \in side' <=> (s \in side /\ s # rs) \/ (Len(rs) = 2 /\ s = t)
  BY <1>1, <1>4, <1>5
<1>8. \A s \in side : s[Len(s)].act.id = rs[Len(rs)].act.id => s = rs
  BY DEF IInv, SideRight
<1> DEFINE Other(b, y) == \E s \in side : s # rs /\ \E k \in 1..Len(s) : s[k].acct = b /\ s[k].act = y
<1>9. \A b \in Accounts : \A y : y \in Held("side", b) <=>
        Other(b, y) \/ (b = a /\ m.act = y) \/ (Len(rs) = 2 /\ b = a /\ rs[2].act = y)
  <2>1. \A b \in Accounts : \A y : y \in Held("side", b) <=>
          Other(b, y) \/ \E k \in 1..Len(rs) : rs[k].acct = b /\ rs[k].act = y
    BY HeldOut
  <2> HIDE DEF Other
  <2>2. QED
    BY <1>5, <1>6, <2>1
<1>10. \A b \in Accounts : \A y : y \in Held("side", b)' <=>
         Other(b, y) \/ (Len(rs) = 2 /\ b = a /\ rs[2].act = y)
  <2>1. \A b \in Accounts : \A y : y \in Held("side", b)' <=>
          Other(b, y) \/ (Len(rs) = 2 /\ \E k \in 1..Len(t) : t[k].acct = b /\ t[k].act = y)
    <3>1. \A b \in Accounts : \A y : y \in Held("side", b)' <=>
            \E s \in side' : \E k \in 1..Len(s) : s[k].acct = b /\ s[k].act = y
      BY HeldOut
    <3>2. QED
      BY <1>7, <3>1
  <2> HIDE DEF Other
  <2>2. Len(rs) = 2 => 1 \in 1..Len(t) /\ \A k \in 1..Len(t) : k = 1
    <3>1. 1 \in 1..1 /\ \A k \in 1..1 : k = 1
      OBVIOUS
    <3>2. QED
      BY <1>5, <3>1
  <2>3. QED
    BY <1>5, <1>6, <2>1, <2>2
<1> HIDE DEF Other
<1>11. SideRight'
  <2>1. ASSUME NEW s \in side'
        PROVE  /\ s # <<>> /\ s[Len(s)].act.id # 0
               /\ \E b \in Accounts : Answers(b, s)'
               /\ \A k \in 1..Len(s) : s[k].type # "self"
    <3>1. CASE s \in side
      <4>1. PICK b \in Accounts : Answers(b, s)
        BY <3>1 DEF IInv, SideRight
      <4>2. Answers(b, s)'
        BY <1>1, <4>1, AnswersEarly
      <4>3. QED
        BY <3>1, <4>2 DEF IInv, SideRight
    <3>2. CASE Len(rs) = 2 /\ s = t
      <4>1. Answers(a, t)'
        BY <1>1, <1>5, AnswersEarly
      <4>2. t # <<>> /\ t[Len(t)] = rs[2] /\ \A k \in 1..Len(t) : k = 1
        <5>1. Len(t) = 1 /\ \A k \in 1..1 : k = 1
          BY <1>5, <3>2
        <5>2. QED
          BY <1>5, <3>2, <5>1
      <4>3. rs[2].act.id # 0 /\ rs[2].type # "self"
        BY <1>1, <1>6, <3>2
      <4>4. QED
        BY <1>5, <3>2, <4>1, <4>2, <4>3
    <3>3. QED
      BY <1>7, <2>1, <3>1, <3>2
  <2>2. ASSUME NEW s \in side', NEW u \in side', s[Len(s)].act.id = u[Len(u)].act.id
        PROVE  s = u
    <3>1. Len(rs) = 2 => t[Len(t)] = rs[Len(rs)]
      BY <1>5
    <3>2. QED
      BY <1>7, <1>8, <2>2, <3>1 DEF IInv, SideRight
  <2>3. QED
    BY <2>1, <2>2 DEF SideRight
<1>12. Carried /\ OnePlace' /\ MessagesRight'
  <2>1. \A r \in Places \ {"side", "message"}, b \in Accounts : Held(r, b)' = Held(r, b)
    BY <1>1, HeldFrame DEF Places
  <2>2. m.act \in Held("side", a)
    BY <1>9
  <2>3. \A b \in Accounts : \A y \in Held("side", b)' : y \in Held("side", b)
    BY <1>9, <1>10
  <2>4. \A b \in Accounts : \A y \in Held("side", b) : y \in Held("side", b)' \/ (b = a /\ y = m.act)
    BY <1>9, <1>10
  <2>5. Len(rs) = 2 /\ m.act.id # 0 => m.act \in Held("side", a)'
    BY <1>6, <1>10
  <2>6. Len(rs) = 1 /\ m.act.id # 0 => m.act \notin Held("side", a)'
    <3>1. ASSUME Len(rs) = 1, m.act.id # 0, NEW s \in side, s # rs, NEW k \in 1..Len(s), s[k].act = m.act
          PROVE  FALSE
      <4>1. s[Len(s)].act = m.act
        BY <3>1, SideAct DEF IInv
      <4>2. rs[Len(rs)] = m
        BY <1>5, <3>1
      <4>3. QED
        BY <1>8, <3>1, <4>1, <4>2
    <3>2. QED
      BY <1>10, <3>1 DEF Other
  <2>7. SendMessage(m)
    BY <1>1, <1>3
  <2>8. QED
    BY <1>1, <1>2, <1>3, <1>6, <2>1, <2>2, <2>3, <2>4, <2>5, <2>6, <2>7, MessageMove
<1>13. QueuedOnce' /\ OutRight' /\ UiRight' /\ HoldersRight' /\ ResetsKept
  BY <1>1, Frame DEF IInv
<1>14. QED
  BY <1>1, <1>11, <1>12, <1>13, CarriedRest DEF IInv

LEMMA AnswersOne ==
  ASSUME NEW a, NEW m, m.acct = a, m.type = "self" => m.act = Act(0, "check", FALSE),
         m.act.id = 0 => ~m.act.cb, m.act.id # 0 => m.type \in Final
  PROVE  Answers(a, <<m>>)'
<1>1. PICK rs : rs = <<m>>
  OBVIOUS
<1>2. Len(rs) = 1 /\ rs[1] = m
  BY <1>1
<1>3. Len(rs) <= 2 /\ Len(rs) # 2 /\ \A k \in 1..Len(rs) : rs[k] = m
  BY <1>2
<1>4. Answers(a, rs)'
  BY <1>3 DEF Answers
<1>5. QED
  BY <1>1, <1>4

LEMMA AnswersTwo ==
  ASSUME NEW a, NEW m, NEW n, m.acct = a, n.acct = a, n.type \in Final, n.act.id # 0,
         m.type = "self" => m.act = Act(0, "check", FALSE),
         m.act.id = 0 => ~m.act.cb,
         m.act.id # 0 => m.act = n.act /\ ~Ends(m)'
  PROVE  Answers(a, <<m, n>>)'
<1>1. PICK rs : rs = <<m, n>>
  OBVIOUS
<1>2. Len(rs) = 2 /\ rs[1] = m /\ rs[2] = n
  BY <1>1
<1>3. Len(rs) <= 2 /\ \A k \in 1..Len(rs) : (k = 1 /\ rs[k] = m) \/ rs[k] = n
  BY <1>2
<1>4. n.type # "self"
  BY DEF Final
<1>5. Answers(a, rs)'
  <2>1. \A k \in 1..Len(rs) :
          /\ rs[k].acct = a
          /\ rs[k].type = "self" => rs[k].act = Act(0, "check", FALSE)
          /\ rs[k].act.id = 0 => ~rs[k].act.cb
          /\ rs[k].act.id # 0 /\ rs[k].type \notin Final => k = 1 /\ Len(rs) = 2
    BY <1>2, <1>3, <1>4
  <2>2. rs[1].act.id # 0 => ~Ends(rs[1])'
    BY <1>2 DEF Ends
  <2>3. QED
    BY <1>2, <1>3, <2>1, <2>2 DEF Answers, Ends
<1>6. QED
  BY <1>1, <1>5

(* An update of the mail store answers no action. *)
LEMMA UpdateRight ==
  ASSUME IInv, TypeOK', NEW a \in Accounts, Update(a)
  PROVE  IInv'
<1>1. /\ UNCHANGED <<actions, messages, callbacks, nextId, side, ui, posters, ticker, checking, early, open>>
      /\ out \in [Accounts -> Seq(Messages)] /\ out[a] = <<>>
  BY DEF IInv, TypeOK, Update, channels, checks, history
<1>2. PICK m \in {Message(a, NoAct, "news"), Message(a, Act(0, "check", FALSE), "self")} :
        out' = [out EXCEPT ![a] = <<m>>]
  BY DEF Update
<1>3. /\ m.acct = a /\ m.act.id = 0 /\ ~m.act.cb
      /\ m.type = "self" => m.act = Act(0, "check", FALSE)
  <2>1. CASE m = Message(a, NoAct, "news")
    BY <2>1 DEF Message, NoAct, Act
  <2>2. CASE m = Message(a, Act(0, "check", FALSE), "self")
    BY <2>2 DEF Message, Act
  <2>3. QED
    BY <2>1, <2>2
<1>4. PICK rs : rs = <<m>>
  OBVIOUS
<1>5. out'[a] = rs /\ \A b \in Accounts : b # a => out'[b] = out[b]
  BY <1>1, <1>2, <1>4
<1>6. /\ \A b \in Accounts : b # a => Held("out", b)' = Held("out", b)
      /\ \A y : y \notin Held("out", a)
      /\ \A y \in Held("out", a)' : y.id = 0 /\ ~y.cb
  <2>1. \A b \in Accounts : b # a => Held("out", b)' = Held("out", b)
    BY <1>5 DEF Held
  <2>2. \A y : y \notin Held("out", a)
    BY <1>1, HeldOut
  <2>3. \A y : y \in Held("out", a)' <=> \E k \in 1..Len(rs) : rs[k].type # "self" /\ rs[k].act = y
    BY <1>5, HeldOut
  <2>4. \A k \in 1..Len(rs) : rs[k] = m
    <3>1. Len(rs) = 1 /\ rs[1] = m
      BY <1>4
    <3>2. QED
      BY <3>1
  <2>5. QED
    BY <1>3, <2>1, <2>2, <2>3, <2>4
<1>7. \A r \in Places \ {"out"}, b \in Accounts : Held(r, b)' = Held(r, b)
  BY <1>1, HeldFrame DEF Places
<1>8. "out" \in Places /\ "out" \in Answering /\ "out" # "deleting"
  BY DEF Places, Answering
<1>9. Carried
  <2>1. \A r \in Places, b \in Accounts : \A y \in Held(r, b) : y.id = 0 => ~y.cb /\ r \in Answering
    BY DEF IInv, IdsFresh, TableRight
  <2>2. ASSUME NEW r \in Places, NEW b \in Accounts PROVE (r = "out" /\ b = a) \/ Held(r, b)' = Held(r, b)
    BY <1>6, <1>7
  <2>3. QED
    BY <1>6, <1>8, <2>1, <2>2 DEF Carried
<1>10. OnePlace'
  BY <1>6, <1>7, LessOnePlace DEF IInv
<1>11. OutRight'
  <2>1. Answers(a, rs)'
    BY <1>3, <1>4, AnswersOne
  <2>2. ASSUME NEW b \in Accounts, NEW s, s = out'[b], Answers(b, s)' PROVE Answers(b, out[b])'
    BY <2>2 DEF Answers, Ends
  <2>3. \A b \in Accounts : b # a => Answers(b, out[b])'
    <3>1. \A b \in Accounts : Answers(b, out[b])
      BY DEF IInv, OutRight
    <3>2. ASSUME NEW b \in Accounts, b # a, NEW s, s = out[b] PROVE Answers(b, s)'
      BY <1>1, <3>1, <3>2, AnswersEarly
    <3>3. QED
      BY <1>5, <2>2, <3>2
  <2>4. QED
    BY <1>5, <2>1, <2>2, <2>3 DEF OutRight
<1>12. MessagesRight'
  <2>1. \A b \in Accounts : Held("side", b)' = Held("side", b)
    BY <1>1, HeldFrame
  <2>2. QED
    BY <1>1, <1>6, <2>1, MessagesStay DEF IInv
<1>13. QueuedOnce' /\ SideRight' /\ UiRight' /\ HoldersRight' /\ ResetsKept
  BY <1>1, Frame DEF IInv
<1>14. QED
  BY <1>1, <1>9, <1>10, <1>11, <1>12, <1>13, CarriedRest DEF IInv

(* The answers that a worker makes of an action, and where they wait. *)
Bundle(a, x, rs) ==
  /\ rs # <<>> /\ rs \in Seq(Messages) /\ rs[Len(rs)].act = x
  /\ \A k \in 1..Len(rs) : rs[k].act = x \/ rs[k].act.id = 0

LEMMA BundleOne ==
  ASSUME NEW a \in Accounts, NEW x \in Acts, x.id # 0, NEW type \in Final
  PROVE  LET rs == <<Message(a, x, type)>>
         IN Bundle(a, x, rs) /\ Answers(a, rs)' /\ \A k \in 1..Len(rs) : rs[k].type # "self"
<1>1. PICK m : m = Message(a, x, type)
  OBVIOUS
<1>2. m.acct = a /\ m.act = x /\ m.type = type /\ m \in Messages
  BY <1>1 DEF Message, Messages
<1>3. type # "self"
  BY DEF Final
<1>4. PICK rs : rs = <<m>>
  OBVIOUS
<1>5. Len(rs) = 1 /\ rs[1] = m /\ rs # <<>> /\ rs \in Seq(Messages) /\ \A k \in 1..Len(rs) : rs[k] = m
  BY <1>2, <1>4
<1>6. Bundle(a, x, rs) /\ \A k \in 1..Len(rs) : rs[k].type # "self"
  BY <1>2, <1>3, <1>5 DEF Bundle
<1>7. Answers(a, rs)'
  BY <1>2, <1>3, <1>4, AnswersOne
<1>8. QED
  BY <1>1, <1>4, <1>6, <1>7

LEMMA BundleTwo ==
  ASSUME NEW a \in Accounts, NEW x \in Acts, x.id # 0, NEW type \in Final, NEW m \in Messages, m.acct = a,
         m.type = "self" => m.act = Act(0, "check", FALSE),
         \/ m.act.id = 0 /\ ~m.act.cb
         \/ m.act = x /\ ~Ends(m)'
  PROVE  LET rs == <<m, Message(a, x, type)>>
         IN /\ Bundle(a, x, rs) /\ Answers(a, rs)'
            /\ m.type # "self" => \A k \in 1..Len(rs) : rs[k].type # "self"
<1>1. PICK n : n = Message(a, x, type)
  OBVIOUS
<1>2. n.acct = a /\ n.act = x /\ n.type = type /\ n \in Messages
  BY <1>1 DEF Message, Messages
<1>3. type # "self"
  BY DEF Final
<1>4. PICK rs : rs = <<m, n>>
  OBVIOUS
<1>5. Len(rs) = 2 /\ rs[2] = n /\ rs # <<>> /\ rs \in Seq(Messages) /\ \A k \in 1..Len(rs) : rs[k] = m \/ rs[k] = n
  BY <1>2, <1>4
<1>6. Bundle(a, x, rs) /\ (m.type # "self" => \A k \in 1..Len(rs) : rs[k].type # "self")
  BY <1>2, <1>3, <1>5 DEF Bundle
<1>7. Answers(a, rs)'
  BY <1>2, <1>4, AnswersTwo
<1>8. QED
  BY <1>1, <1>4, <1>6, <1>7

LEMMA ReplyRight ==
  ASSUME NEW a \in Accounts, NEW x \in Acts, x.id # 0
  PROVE  Bundle(a, x, Reply(a, x)) /\ Answers(a, Reply(a, x))'
<1>1. "Done" \in Final
  BY DEF Final
<1>2. CASE x.kind = "check"
  <2>1. PICK m : m = Message(a, NoAct, IF x.cb THEN "info" ELSE "news")
    OBVIOUS
  <2>2. m \in Messages /\ m.acct = a /\ m.act.id = 0 /\ ~m.act.cb /\ m.type # "self"
    BY <2>1 DEF Message, Messages, NoAct, Act, Acts
  <2>3. Reply(a, x) = <<m, Message(a, x, "Done")>>
    BY <1>2, <2>1 DEF Reply
  <2>4. QED
    BY <1>1, <2>2, <2>3, BundleTwo
<1>3. CASE x.kind = "read"
  <2>1. PICK m : m = Message(a, x, "info")
    OBVIOUS
  <2>2. m \in Messages /\ m.acct = a /\ m.act = x /\ m.type = "info"
    BY <2>1 DEF Message, Messages
  <2>3. ~Ends(m)'
    BY <1>3, <2>2 DEF Ends
  <2>4. Reply(a, x) = <<m, Message(a, x, "Done")>>
    BY <1>3, <2>1 DEF Reply
  <2>5. QED
    BY <1>1, <2>2, <2>3, <2>4, BundleTwo
<1>4. CASE x.kind = "store" /\ a \in Imap
  <2>1. PICK m : m = Message(a, Act(0, "check", FALSE), "self")
    OBVIOUS
  <2>2. m \in Messages /\ m.acct = a /\ m.act = Act(0, "check", FALSE)
    BY <2>1 DEF Message, Messages, Act, Acts
  <2>3. m.act.id = 0 /\ ~m.act.cb
    BY <2>2 DEF Act
  <2>4. Reply(a, x) = <<m, Message(a, x, "Done")>>
    BY <1>4, <2>1 DEF Reply
  <2>5. QED
    BY <1>1, <2>2, <2>3, <2>4, BundleTwo
<1>5. CASE x.kind # "check" /\ x.kind # "read" /\ ~(x.kind = "store" /\ a \in Imap)
  <2>1. Reply(a, x) = <<Message(a, x, "Done")>>
    BY <1>5 DEF Reply
  <2>2. QED
    BY <1>1, <2>1, BundleOne
<1>6. QED
  BY <1>2, <1>3, <1>4, <1>5

LEMMA ReceiveAnswers ==
  ASSUME TypeOK, NEW a \in Accounts, Receive(a), NEW x \in Acts, x = Head(actions[a]), x.id # 0
  PROVE  /\ \A b \in Accounts : early[b] => early'[b]
         /\ \E rs : /\ Bundle(a, x, rs) /\ Answers(a, rs)'
                    /\ \/ UNCHANGED side /\ out' = [out EXCEPT ![a] = rs]
                       \/ /\ UNCHANGED out /\ side' = side \cup {rs}
                          /\ \A k \in 1..Len(rs) : rs[k].type # "self"
<1> DEFINE Goal == \E rs : /\ Bundle(a, x, rs) /\ Answers(a, rs)'
                           /\ \/ UNCHANGED side /\ out' = [out EXCEPT ![a] = rs]
                              \/ /\ UNCHANGED out /\ side' = side \cup {rs}
                                 /\ \A k \in 1..Len(rs) : rs[k].type # "self"
<1>1. early \in [Accounts -> BOOLEAN] /\ x.cb \in BOOLEAN /\ "Done" \in Final /\ "Error" \in Final
  BY DEF TypeOK, Acts, Final
<1>2. CASE x.kind = "check" /\ a \notin Imap
  <2>1. UNCHANGED out
    BY <1>2 DEF Receive
  <2>2. CASE side' = side \cup {SideReply(a, x)} /\ UNCHANGED <<faults, early>>
    <3>1. PICK m : m = Message(a, NoAct, "info")
      OBVIOUS
    <3>2. m \in Messages /\ m.acct = a /\ m.act.id = 0 /\ ~m.act.cb /\ m.type # "self"
      BY <3>1 DEF Message, Messages, NoAct, Act, Acts
    <3>3. SideReply(a, x) = <<m, Message(a, x, "Done")>>
      BY <3>1 DEF SideReply
    <3>4. PICK rs : rs = SideReply(a, x)
      OBVIOUS
    <3>5. /\ Bundle(a, x, rs) /\ Answers(a, rs)'
          /\ \A k \in 1..Len(rs) : rs[k].type # "self"
      <4>1. rs = <<m, Message(a, x, "Done")>>
        BY <3>3, <3>4
      <4>2. LET two == <<m, Message(a, x, "Done")>>
            IN /\ Bundle(a, x, two) /\ Answers(a, two)'
               /\ m.type # "self" => \A k \in 1..Len(two) : two[k].type # "self"
        BY <1>1, <3>2, BundleTwo, Zenon
      <4>3. QED
        BY <3>2, <4>1, <4>2, Zenon
    <3>6. Goal
      BY <2>1, <2>2, <3>4, <3>5
    <3>7. QED
      BY <2>2, <3>6
  <2>3. ASSUME NEW rs \in SideFailures(a, x), side' = side \cup {rs},
               early' = [early EXCEPT ![a] = @ \/ Len(rs) > 1]
        PROVE  Goal /\ \A b \in Accounts : early[b] => early'[b]
    <3>1. \A b \in Accounts : early[b] => early'[b]
      BY <1>1, <2>3
    <3>2. CASE rs = <<Message(a, x, "Error")>>
      <4>1. /\ Bundle(a, x, rs) /\ Answers(a, rs)'
            /\ \A k \in 1..Len(rs) : rs[k].type # "self"
        BY <1>1, <3>2, BundleOne
      <4>2. QED
        BY <2>1, <2>3, <3>1, <4>1
    <3>3. CASE rs = <<Message(a, x, "Error"), Message(a, x, "Done")>>
      <4>1. PICK m : m = Message(a, x, "Error")
        OBVIOUS
      <4>2. m \in Messages /\ m.acct = a /\ m.act = x /\ m.type = "Error"
        BY <4>1 DEF Message, Messages, Final
      <4>3. Len(rs) > 1
        BY <3>3
      <4>4. early'[a]
        BY <1>1, <2>3, <4>3
      <4>5. ~Ends(m)'
        BY <4>2, <4>4 DEF Ends
      <4>6. /\ Bundle(a, x, rs) /\ Answers(a, rs)'
            /\ \A k \in 1..Len(rs) : rs[k].type # "self"
        BY <1>1, <3>3, <4>1, <4>2, <4>5, BundleTwo
      <4>7. QED
        BY <2>1, <2>3, <3>1, <4>6
    <3>4. QED
      BY <2>3, <3>2, <3>3 DEF SideFailures
  <2>4. QED
    BY <1>2, <2>2, <2>3 DEF Receive
<1>3. CASE ~(x.kind = "check" /\ a \notin Imap)
  <2>1. UNCHANGED side
    BY <1>3 DEF Receive
  <2>2. CASE out' = [out EXCEPT ![a] = Reply(a, x)] /\ UNCHANGED early
    BY <2>1, <2>2, ReplyRight
  <2>3. CASE PutsOff(a, x)
    <3>1. PICK m : m = Message(a, x, "more")
      OBVIOUS
    <3>2. m \in Messages /\ m.acct = a /\ m.act = x /\ m.type = "more"
      BY <3>1 DEF Message, Messages
    <3>3. early' = [early EXCEPT ![a] = @ \/ x.cb] /\ out' = [out EXCEPT ![a] = <<m, Message(a, x, "Done")>>]
      BY <2>3, <3>1 DEF PutsOff
    <3>4. (x.cb => early'[a]) /\ \A b \in Accounts : early[b] => early'[b]
      BY <1>1, <3>3
    <3>5. ~Ends(m)'
      BY <3>2, <3>4 DEF Ends
    <3>6. Bundle(a, x, <<m, Message(a, x, "Done")>>) /\ Answers(a, <<m, Message(a, x, "Done")>>)'
      BY <1>1, <3>2, <3>5, BundleTwo
    <3>7. Goal
      BY <2>1, <3>3, <3>6
    <3>8. QED
      BY <3>4, <3>7
  <2>4. ASSUME NEW rs \in Failures(a, x), out' = [out EXCEPT ![a] = rs], UNCHANGED early
        PROVE  Goal /\ \A b \in Accounts : early[b] => early'[b]
    <3>1. PICK type \in Final : rs = <<Message(a, x, type)>>
      BY <2>4 DEF Failures
    <3>2. Bundle(a, x, rs) /\ Answers(a, rs)'
      BY <3>1, BundleOne
    <3>3. QED
      BY <2>1, <2>4, <3>2
  <2>5. QED
    BY <1>3, <2>2, <2>3, <2>4 DEF Receive
<1>4. QED
  BY <1>2, <1>3

(* The worker takes an action and has its answers to send. *)
LEMMA ReceiveRight ==
  ASSUME IInv, TypeOK', NEW a \in Accounts, Receive(a)
  PROVE  IInv'
<1>1. /\ UNCHANGED <<messages, callbacks, nextId, ui, posters, ticker, checking, open>>
      /\ actions \in [Accounts -> Seq(Acts)] /\ actions[a] # <<>> /\ out[a] = <<>>
      /\ actions' = [actions EXCEPT ![a] = Tail(@)] /\ out \in [Accounts -> Seq(Messages)]
  BY DEF IInv, TypeOK, Receive, checks
<1>2. PICK s \in Seq(Acts) : s = actions[a]
  BY <1>1
<1>3. PICK t : t = Tail(s)
  OBVIOUS
<1>4. /\ Len(s) \in Nat /\ Len(s) > 0 /\ Len(t) = Len(s) - 1 /\ Head(s) = s[1] /\ s[1] \in Acts
      /\ \A k \in 1..Len(t) : t[k] = s[k + 1] /\ k + 1 \in 1..Len(s)
  BY <1>1, <1>2, <1>3, SeqTail
<1>5. PICK x \in Acts : x = s[1]
  BY <1>4
<1>6. actions'[a] = t /\ \A b \in Accounts : b # a => actions'[b] = actions[b]
  BY <1>1, <1>2, <1>3
<1>7. \A k, l \in 1..Len(s) : s[k].id = s[l].id => k = l
  BY <1>2 DEF IInv, QueuedOnce
<1>8. QueuedOnce'
  <2>1. ASSUME NEW k \in 1..Len(t), NEW l \in 1..Len(t), t[k].id = t[l].id PROVE k = l
    <3>1. k + 1 = l + 1
      BY <1>4, <1>7, <2>1
    <3>2. QED
      BY <1>4, <3>1
  <2>2. \A b \in Accounts : \A k, l \in 1..Len(actions'[b]) : actions'[b][k].id = actions'[b][l].id => k = l
    BY <1>6, <2>1 DEF IInv, QueuedOnce
  <2>3. QED
    BY <2>2 DEF QueuedOnce
<1>9. /\ \A b \in Accounts : b # a => Held("queued", b)' = Held("queued", b)
      /\ \A y \in Held("queued", a)' : y \in Held("queued", a) /\ y # x
      /\ \A y \in Held("queued", a) : y \in Held("queued", a)' \/ y = x
      /\ x \in Held("queued", a)
  <2>1. \A b \in Accounts : b # a => Held("queued", b)' = Held("queued", b)
    BY <1>6 DEF Held
  <2>2. \A y : y \in Held("queued", a) <=> \E k \in 1..Len(s) : s[k] = y
    BY <1>2 DEF Held
  <2>3. \A y : y \in Held("queued", a)' <=> \E k \in 1..Len(t) : t[k] = y
    <3>1. \A y : y \in Held("queued", a)' <=> \E k \in 1..Len(actions'[a]) : actions'[a][k] = y
      BY DEF Held
    <3>2. QED
      BY <1>6, <3>1
  <2>4. ASSUME NEW k \in 1..Len(t) PROVE t[k] # x /\ \E l \in 1..Len(s) : t[k] = s[l]
    <3>1. k + 1 \in 1..Len(s) /\ t[k] = s[k + 1] /\ 1 \in 1..Len(s) /\ k + 1 # 1
      BY <1>4
    <3>2. QED
      BY <1>5, <1>7, <3>1
  <2>5. ASSUME NEW k \in 1..Len(s) PROVE s[k] = x \/ \E l \in 1..Len(t) : t[l] = s[k]
    <3>1. CASE k = 1
      BY <1>5, <3>1
    <3>2. CASE k # 1
      <4>1. k - 1 \in 1..Len(t) /\ (k - 1) + 1 = k
        BY <1>4, <3>2
      <4>2. t[k - 1] = s[k]
        BY <1>4, <4>1
      <4>3. QED
        BY <4>1, <4>2
    <3>3. QED
      BY <3>1, <3>2
  <2>6. 1 \in 1..Len(s)
    BY <1>4
  <2>7. ASSUME NEW y, y \in Held("queued", a)' PROVE y \in Held("queued", a) /\ y # x
    BY <2>2, <2>3, <2>4, <2>7
  <2>8. ASSUME NEW y, y \in Held("queued", a) PROVE y \in Held("queued", a)' \/ y = x
    BY <2>2, <2>3, <2>5, <2>8
  <2>9. x \in Held("queued", a)
    BY <1>5, <2>2, <2>6
  <2>10. QED
    BY <2>1, <2>7, <2>8, <2>9
<1>10. /\ "queued" \in Places /\ "queued" \notin Answering /\ "queued" # "deleting" /\ "queued" # "out" /\ "queued" # "side"
       /\ {"out", "side"} \subseteq Places \cap Answering /\ "deleting" \notin Answering
  BY DEF Places, Answering
<1>11. x.id # 0
  BY <1>9, <1>10 DEF IInv, IdsFresh
<1>12. \A r \in Places, b \in Accounts : \A y \in Held(r, b) : y.id = x.id => r = "queued" /\ b = a /\ y = x
  <2>1. "queued" \in Places \ Answering
    BY <1>10
  <2>2. QED
    BY <1>9, <1>11, <2>1, Alone DEF IInv
<1>13. /\ \A b \in Accounts : early[b] => early'[b]
       /\ \E rs : /\ Bundle(a, x, rs) /\ Answers(a, rs)'
                  /\ \/ UNCHANGED side /\ out' = [out EXCEPT ![a] = rs]
                     \/ /\ UNCHANGED out /\ side' = side \cup {rs}
                        /\ \A k \in 1..Len(rs) : rs[k].type # "self"
  <2>1. x = Head(actions[a]) /\ TypeOK
    BY <1>2, <1>4, <1>5 DEF IInv
  <2>2. QED
    BY <1>11, <2>1, ReceiveAnswers
<1>14. PICK rs : /\ Bundle(a, x, rs) /\ Answers(a, rs)'
                 /\ \/ UNCHANGED side /\ out' = [out EXCEPT ![a] = rs]
                    \/ /\ UNCHANGED out /\ side' = side \cup {rs}
                       /\ \A k \in 1..Len(rs) : rs[k].type # "self"
  BY <1>13
<1>15. /\ rs # <<>> /\ rs[Len(rs)].act = x /\ \A k \in 1..Len(rs) : rs[k].act = x \/ rs[k].act.id = 0
       /\ Len(rs) \in 1..Len(rs) /\ \A k \in 1..Len(rs) : rs[k].acct = a /\ (rs[k].act.id = 0 => ~rs[k].act.cb)
       /\ rs[Len(rs)].type # "self"
  <2>1. rs # <<>> /\ rs[Len(rs)].act = x /\ \A k \in 1..Len(rs) : rs[k].act = x \/ rs[k].act.id = 0
    BY <1>14 DEF Bundle
  <2>2. \A k \in 1..Len(rs) : rs[k].acct = a /\ (rs[k].act.id = 0 => ~rs[k].act.cb)
                              /\ (rs[k].type = "self" => rs[k].act = Act(0, "check", FALSE))
    BY <1>14 DEF Answers
  <2>3. Len(rs) \in 1..Len(rs)
    <3>1. rs \in Seq(Messages)
      BY <1>14 DEF Bundle
    <3>2. QED
      BY <2>1, <3>1
  <2>4. rs[Len(rs)].type # "self"
    <3>1. Act(0, "check", FALSE).id = 0
      BY DEF Act
    <3>2. QED
      BY <1>11, <2>1, <2>2, <2>3, <3>1
  <2>5. QED
    BY <2>1, <2>2, <2>3, <2>4
<1> DEFINE Arrives(q) ==
      /\ \A b \in Accounts : \A y \in Held(q, b)' : y \in Held(q, b) \/ (b = a /\ (y = x \/ (y.id = 0 /\ ~y.cb)))
      /\ \A b \in Accounts : \A y \in Held(q, b) : y \in Held(q, b)'
      /\ x \in Held(q, a)'
      /\ \A r \in Places \ {"queued", q}, b \in Accounts : Held(r, b)' = Held(r, b)
<1> DEFINE Side == UNCHANGED out /\ side' = side \cup {rs} /\ \A k \in 1..Len(rs) : rs[k].type # "self"
<1>16. ASSUME UNCHANGED side, out' = [out EXCEPT ![a] = rs]
       PROVE  Arrives("out") /\ OutRight' /\ SideRight'
  <2>1. out'[a] = rs /\ \A b \in Accounts : b # a => out'[b] = out[b]
    BY <1>1, <1>16
  <2>2. Arrives("out")
    <3>1. \A b \in Accounts : b # a => Held("out", b)' = Held("out", b)
      BY <2>1 DEF Held
    <3>2. \A y : y \notin Held("out", a)
      BY <1>1, HeldOut
    <3>3. \A y : y \in Held("out", a)' <=> \E k \in 1..Len(rs) : rs[k].type # "self" /\ rs[k].act = y
      BY <2>1, HeldOut
    <3>4. \A y \in Held("out", a)' : y = x \/ (y.id = 0 /\ ~y.cb)
      BY <1>15, <3>3
    <3>5. x \in Held("out", a)'
      BY <1>15, <3>3
    <3>6. \A r \in Places \ {"queued", "out"}, b \in Accounts : Held(r, b)' = Held(r, b)
      BY <1>1, <1>16, HeldFrame DEF Places
    <3>7. QED
      BY <3>1, <3>2, <3>4, <3>5, <3>6
  <2> HIDE DEF Arrives
  <2>3. OutRight'
    <3>1. ASSUME NEW b \in Accounts, NEW s2, s2 = out'[b], Answers(b, s2)' PROVE Answers(b, out[b])'
      BY <3>1 DEF Answers, Ends
    <3>2. ASSUME NEW b \in Accounts, b # a, NEW s2, s2 = out[b] PROVE Answers(b, s2)'
      BY <1>13, <3>2, AnswersEarly DEF IInv, OutRight
    <3>3. QED
      BY <1>14, <2>1, <3>1, <3>2 DEF OutRight
  <2>4. SideRight'
    BY <1>13, <1>16, AnswersStay DEF IInv
  <2>5. QED
    BY <2>2, <2>3, <2>4
<1>17. ASSUME Side
       PROVE  Arrives("side") /\ OutRight' /\ SideRight'
  <2>1. \A b \in Accounts : \A y : y \in Held("side", b)' <=>
          y \in Held("side", b) \/ \E k \in 1..Len(rs) : rs[k].acct = b /\ rs[k].act = y
    BY <1>17, HeldOut
  <2>2. Arrives("side")
    <3>1. \A b \in Accounts : \A y \in Held("side", b)' : y \in Held("side", b) \/ (b = a /\ (y = x \/ (y.id = 0 /\ ~y.cb)))
      BY <1>15, <2>1
    <3>2. x \in Held("side", a)'
      BY <1>15, <2>1
    <3>3. \A r \in Places \ {"queued", "side"}, b \in Accounts : Held(r, b)' = Held(r, b)
      BY <1>1, <1>17, HeldFrame DEF Places
    <3>4. QED
      BY <2>1, <3>1, <3>2, <3>3
  <2> HIDE DEF Arrives
  <2>3. OutRight'
    BY <1>13, <1>17, AnswersStay DEF IInv
  <2>4. SideRight'
    <3>1. ASSUME NEW w \in side'
          PROVE  /\ w # <<>> /\ w[Len(w)].act.id # 0
                 /\ \E b \in Accounts : Answers(b, w)'
                 /\ \A k \in 1..Len(w) : w[k].type # "self"
      <4>1. CASE w \in side
        <5>1. PICK b \in Accounts : Answers(b, w)
          BY <4>1 DEF IInv, SideRight
        <5>2. Answers(b, w)'
          BY <1>13, <5>1, AnswersEarly
        <5>3. QED
          BY <4>1, <5>2 DEF IInv, SideRight
      <4>2. CASE w = rs
        BY <1>11, <1>14, <1>15, <1>17, <4>2
      <4>3. QED
        BY <1>17, <3>1, <4>1, <4>2
    <3>2. \A w \in side : w[Len(w)].act.id # x.id
      <4>1. ASSUME NEW w \in side PROVE w[Len(w)].act.id # x.id
        <5>1. PICK b \in Accounts : Answers(b, w)
          BY DEF IInv, SideRight
        <5>2. Len(w) \in 1..Len(w)
          <6>1. w \in Seq(Messages) /\ w # <<>>
            BY DEF IInv, TypeOK, SideRight
          <6>2. QED
            BY <6>1
        <5>3. w[Len(w)].acct = b
          BY <5>1, <5>2 DEF Answers
        <5>4. w[Len(w)].act \in Held("side", b)
          BY <5>2, <5>3, HeldOut
        <5>5. QED
          BY <1>10, <1>12, <5>4
      <4>2. QED
        BY <4>1
    <3>3. ASSUME NEW w \in side', NEW u \in side', w[Len(w)].act.id = u[Len(u)].act.id
          PROVE  w = u
      <4>1. CASE w \in side /\ u \in side
        BY <3>3, <4>1 DEF IInv, SideRight
      <4>2. QED
        BY <1>15, <1>17, <3>2, <3>3, <4>1
    <3>4. QED
      BY <3>1, <3>3 DEF SideRight
  <2>5. QED
    BY <2>2, <2>3, <2>4
<1>18. PICK q \in {"out", "side"} : Arrives(q)
  BY <1>14, <1>16, <1>17
<1>19. OutRight' /\ SideRight'
  BY <1>14, <1>16, <1>17
<1>20. \A r \in Places, b \in Accounts : \A y \in Held(r, b)' :
         \/ y.id = 0 /\ ~y.cb /\ r \in Answering
         \/ y \in Held(r, b) /\ (r # "queued" \/ y # x)
         \/ r = q /\ b = a /\ y = x
  <2>1. ASSUME NEW r \in Places, NEW b \in Accounts, NEW y \in Held(r, b)'
        PROVE  \/ y.id = 0 /\ ~y.cb /\ r \in Answering
               \/ y \in Held(r, b) /\ (r # "queued" \/ y # x)
               \/ r = q /\ b = a /\ y = x
    <3>1. CASE r = "queued"
      <4>1. b # a => ~(x \in Held("queued", b))
        BY <1>10, <1>12
      <4>2. QED
        BY <1>9, <2>1, <3>1, <4>1
    <3>2. CASE r = q
      BY <1>10, <1>18, <2>1, <3>2
    <3>3. CASE r # "queued" /\ r # q
      BY <1>18, <2>1, <3>3
    <3>4. QED
      BY <3>1, <3>2, <3>3
  <2>2. QED
    BY <2>1
<1>21. \A r \in Places, b \in Accounts : \A y \in Held(r, b) :
         y \in Held(r, b)' \/ (r = "queued" /\ b = a /\ y = x)
  <2>1. ASSUME NEW r \in Places, NEW b \in Accounts, NEW y \in Held(r, b)
        PROVE  y \in Held(r, b)' \/ (r = "queued" /\ b = a /\ y = x)
    <3>1. CASE r = "queued"
      BY <1>9, <2>1, <3>1
    <3>2. CASE r = q
      BY <1>18, <2>1, <3>2
    <3>3. CASE r # "queued" /\ r # q
      BY <1>18, <2>1, <3>3
    <3>4. QED
      BY <3>1, <3>2, <3>3
  <2>2. QED
    BY <2>1
<1>22. x \in Held(q, a)' /\ q \in Places /\ q \in Answering /\ q # "deleting"
  BY <1>10, <1>18
<1> HIDE DEF Arrives, Side
<1>23. Carried
  <2>1. ASSUME NEW r \in Places, NEW b \in Accounts, NEW y \in Held(r, b)'
        PROVE  \/ y.id = 0 /\ ~y.cb /\ r \in Answering
               \/ y.id # 0 /\ \E p \in Places : y \in Held(p, b) /\ (r = "deleting" <=> p = "deleting")
    <3>1. CASE y \in Held(r, b)
      <4>1. y.id = 0 => ~y.cb /\ r \in Answering
        BY <3>1 DEF IInv, IdsFresh, TableRight
      <4>2. QED
        BY <3>1, <4>1
    <3>2. CASE r = q /\ b = a /\ y = x
      BY <1>9, <1>10, <1>11, <1>22, <3>2
    <3>3. QED
      BY <1>20, <2>1, <3>1, <3>2
  <2>2. ASSUME NEW r \in Places, NEW b \in Accounts, NEW y \in Held(r, b)
        PROVE  \E p \in Places : y \in Held(p, b)' /\ (r = "deleting" <=> p = "deleting")
    BY <1>10, <1>21, <1>22, <2>2
  <2>3. QED
    BY <2>1, <2>2 DEF Carried
<1>24. OnePlace'
  <2>1. \A r \in Places, b \in Accounts : \A y \in Held(r, b)' :
          y.id = 0 \/ y \in Held(r, b) \/ (r = q /\ b = a /\ y = x)
    BY <1>20
  <2>2. \A r \in Places : x \in Held(r, a)' => r = q
    BY <1>11, <1>12, <1>20
  <2>3. \A r \in Places : x \in Held(r, a)' => Shared(r, q)
    BY <2>2 DEF Shared
  <2>4. QED
    BY <1>9, <1>10, <1>11, <1>22, <2>1, <2>3, MoveOnePlace DEF IInv
<1>25. MessagesRight'
  <2>1. ASSUME NEW b \in Accounts, NEW y \in Held("message", b), y.id # 0
        PROVE  \A r \in {"out", "side"} : y \in Held(r, b)' <=> y \in Held(r, b)
    <3>1. "message" \in Places /\ "message" # "queued"
      BY DEF Places
    <3>2. y # x
      BY <1>12, <2>1, <3>1
    <3>3. QED
      BY <1>10, <1>20, <1>21, <2>1, <3>2
  <2>2. QED
    BY <1>1, <1>13, <2>1, MessagesStay DEF IInv
<1>26. UiRight' /\ HoldersRight' /\ ResetsKept
  BY <1>1, Frame DEF IInv
<1>27. IdsFresh' /\ TableRight' /\ TableUsed'
  BY <1>1, <1>23, CarriedTable DEF IInv
<1>28. CheckingOwned' /\ CheckAlone'
  BY <1>1, <1>13, <1>23, <1>26, CarriedChecks DEF IInv
<1>29. QED
  BY <1>8, <1>19, <1>24, <1>25, <1>26, <1>27, <1>28 DEF IInv

-----------------------------------------------------------------------------
(* Messages that the main goroutine takes *)

LEMMA ConcatThree ==
  ASSUME NEW S, NEW c \in Seq(S), NEW d \in Seq(S), NEW e \in Seq(S),
         Len(c) <= 1, Len(d) <= 1, Len(e) <= 1
  PROVE  /\ Len(c \o d \o e) = Len(c) + Len(d) + Len(e)
         /\ Len(c) \in 0..1 /\ Len(d) \in 0..1 /\ Len(e) \in 0..1
         /\ Len(c) = 1 => (c \o d \o e)[1] = c[1]
         /\ Len(d) = 1 => (c \o d \o e)[Len(c) + 1] = d[1]
         /\ Len(e) = 1 => (c \o d \o e)[Len(c) + Len(d) + 1] = e[1]
<1>1. PICK w : w = c \o d
  OBVIOUS
<1>2. /\ w \in Seq(S) /\ Len(w) = Len(c) + Len(d) /\ Len(c) \in Nat /\ Len(d) \in Nat
      /\ \A k \in 1..Len(c) : w[k] = c[k]
      /\ \A k \in 1..Len(d) : w[Len(c) + k] = d[k]
  BY <1>1, SeqConcat
<1>3. PICK v : v = w \o e
  OBVIOUS
<1>4. /\ Len(v) = Len(w) + Len(e) /\ Len(e) \in Nat
      /\ \A k \in 1..Len(w) : v[k] = w[k]
      /\ \A k \in 1..Len(e) : v[Len(w) + k] = e[k]
  BY <1>2, <1>3, SeqConcat
<1>5. Len(c) \in 0..1 /\ Len(d) \in 0..1 /\ Len(e) \in 0..1
  <2>1. \A i \in Nat : i <= 1 => i \in 0..1
    OBVIOUS
  <2>2. QED
    BY <1>2, <1>4, <2>1
<1>6. Len(v) = Len(c) + Len(d) + Len(e)
  BY <1>2, <1>4
<1>7. Len(c) = 1 => v[1] = c[1]
  <2>1. Len(c) = 1 => 1 \in 1..Len(c) /\ 1 \in 1..Len(w)
    BY <1>2
  <2>2. QED
    BY <1>2, <1>4, <2>1
<1>8. Len(d) = 1 => v[Len(c) + 1] = d[1]
  <2>1. Len(d) = 1 => 1 \in 1..Len(d) /\ Len(c) + 1 \in 1..Len(w)
    BY <1>2
  <2>2. QED
    BY <1>2, <1>4, <2>1
<1>9. Len(e) = 1 => v[Len(w) + 1] = e[1]
  <2>1. Len(e) = 1 => 1 \in 1..Len(e)
    OBVIOUS
  <2>2. QED
    BY <1>4, <2>1
<1>10. QED
  BY <1>1, <1>2, <1>3, <1>5, <1>6, <1>7, <1>8, <1>9

Ended(m) == Called(m) /\ m.type \in {"Done", "Cancelled"}

(* The steps that a message makes: a check goes on or is reset, the          *)
(* callback of an action that ended is deleted, a folder is read.          *)
LEMMA ReceivedSteps ==
  ASSUME TypeOK, MainReceives, NEW m, m = Head(messages)
  PROVE  /\ \A k \in 1..Len(ui') :
              /\ ui'[k].acct = m.acct
              /\ \/ /\ CheckCalled(m) /\ ui'[k].do = "post" /\ m.type = "more"
                 \/ /\ CheckCalled(m) /\ ui'[k].do = "reset" /\ m.type # "more"
                 \/ /\ Ended(m) /\ ui'[k].do = "delete" /\ ui'[k].act = m.act
                 \/ /\ ui'[k].do = "post" /\ ui'[k].act = Act(0, "read", FALSE)
         /\ CheckCalled(m) => \E k \in 1..Len(ui') : ui'[k].acct = m.acct /\ Resets(ui'[k])
         /\ Ended(m) => \E k \in 1..Len(ui') : ui'[k].acct = m.acct /\ ui'[k].do = "delete" /\ ui'[k].act = m.act
         /\ UiRight'
<1>1. m \in Messages
  <2>1. messages \in Seq(Messages) /\ messages # <<>>
    BY DEF TypeOK, MainReceives
  <2>2. QED
    BY <2>1, SeqTail
<1>2. PICK c \in Seq(Steps) : c = Callback(m)
  BY <1>1, AnswerTypes
<1>3. PICK d \in Seq(Steps) : d = Deletion(m)
  BY <1>1, AnswerTypes
<1>4. PICK e \in Seq(Steps) : e = OnMessage(m)
  BY <1>1, AnswerTypes
<1>5. /\ Len(c) <= 1 /\ (Len(c) = 1 <=> CheckCalled(m))
      /\ Len(c) = 1 => c[1] = IF m.type = "more" THEN Step("post", m.acct, Act(0, "check", TRUE))
                                                ELSE Step("reset", m.acct, NoAct)
  <2>1. CASE ~CheckCalled(m)
    <3>1. c = <<>>
      BY <1>2, <2>1 DEF Callback, CheckCalled
    <3>2. QED
      BY <2>1, <3>1
  <2>2. CASE CheckCalled(m)
    <3>1. PICK s : s = IF m.type = "more" THEN Step("post", m.acct, Act(0, "check", TRUE))
                                          ELSE Step("reset", m.acct, NoAct)
      OBVIOUS
    <3>2. c = <<s>>
      BY <1>2, <2>2, <3>1 DEF Callback, CheckCalled
    <3>3. Len(c) = 1 /\ c[1] = s
      BY <3>2
    <3>4. QED
      BY <2>2, <3>1, <3>3
  <2>3. QED
    BY <2>1, <2>2
<1>6. Len(d) <= 1 /\ (Len(d) = 1 <=> Ended(m)) /\ (Len(d) = 1 => d[1] = Step("delete", m.acct, m.act))
  <2>1. CASE ~Ended(m)
    <3>1. d = <<>>
      BY <1>3, <2>1 DEF Deletion, Ended
    <3>2. QED
      BY <2>1, <3>1
  <2>2. CASE Ended(m)
    <3>1. PICK s : s = Step("delete", m.acct, m.act)
      OBVIOUS
    <3>2. d = <<s>>
      BY <1>3, <2>2, <3>1 DEF Deletion, Ended
    <3>3. Len(d) = 1 /\ d[1] = s
      BY <3>2
    <3>4. QED
      BY <2>2, <3>1, <3>3
  <2>3. QED
    BY <2>1, <2>2
<1>7. Len(e) <= 1 /\ (Len(e) = 1 => m.type # "more" /\ e[1] = Step("post", m.acct, Act(0, "read", FALSE)))
  <2>1. CASE e = <<>>
    BY <2>1
  <2>2. CASE e # <<>>
    <3>1. PICK s : s = Step("post", m.acct, Act(0, "read", FALSE))
      OBVIOUS
    <3>2. e = <<s>> /\ m.type # "more"
      BY <1>4, <2>2, <3>1 DEF OnMessage
    <3>3. Len(e) = 1 /\ e[1] = s
      BY <3>2
    <3>4. QED
      BY <3>1, <3>2, <3>3
  <2>3. QED
    BY <2>1, <2>2
<1>8. PICK v : v = c \o d \o e
  OBVIOUS
<1>9. ui' = v
  BY <1>2, <1>3, <1>4, <1>8 DEF MainReceives
<1>10. /\ Len(v) = Len(c) + Len(d) + Len(e)
       /\ Len(c) \in 0..1 /\ Len(d) \in 0..1 /\ Len(e) \in 0..1
       /\ Len(c) = 1 => v[1] = c[1]
       /\ Len(d) = 1 => v[Len(c) + 1] = d[1]
       /\ Len(e) = 1 => v[Len(c) + Len(d) + 1] = e[1]
  BY <1>5, <1>6, <1>7, <1>8, ConcatThree
<1>11. \A k \in 1..Len(v) :
         \/ Len(c) = 1 /\ k = 1 /\ v[k] = c[1]
         \/ Len(d) = 1 /\ k = Len(c) + 1 /\ v[k] = d[1]
         \/ Len(e) = 1 /\ k = Len(c) + Len(d) + 1 /\ v[k] = e[1]
  <2>1. \A i, j, l \in 0..1 : \A k \in 1..(i + j + l) :
          (i = 1 /\ k = 1) \/ (j = 1 /\ k = i + 1) \/ (l = 1 /\ k = i + j + 1)
    OBVIOUS
  <2>2. ASSUME NEW k \in 1..Len(v)
        PROVE  \/ Len(c) = 1 /\ k = 1 /\ v[k] = c[1]
               \/ Len(d) = 1 /\ k = Len(c) + 1 /\ v[k] = d[1]
               \/ Len(e) = 1 /\ k = Len(c) + Len(d) + 1 /\ v[k] = e[1]
    <3>1. PICK i, j, l \in 0..1 : i = Len(c) /\ j = Len(d) /\ l = Len(e)
      BY <1>10
    <3>2. k \in 1..(i + j + l)
      BY <1>10, <3>1
    <3>3. (i = 1 /\ k = 1) \/ (j = 1 /\ k = i + 1) \/ (l = 1 /\ k = i + j + 1)
      BY <2>1, <3>2
    <3>4. QED
      BY <1>10, <3>1, <3>3
  <2>3. QED
    BY <2>2
<1>12. \A k \in 1..Len(v) :
         \/ CheckCalled(m) /\ k = 1 /\ v[k] = Step("post", m.acct, Act(0, "check", TRUE)) /\ m.type = "more"
         \/ CheckCalled(m) /\ k = 1 /\ v[k] = Step("reset", m.acct, NoAct) /\ m.type # "more"
         \/ Ended(m) /\ k = Len(c) + 1 /\ v[k] = Step("delete", m.acct, m.act)
         \/ m.type # "more" /\ k = Len(c) + Len(d) + 1 /\ v[k] = Step("post", m.acct, Act(0, "read", FALSE))
  BY <1>5, <1>6, <1>7, <1>11
<1>13. \A k \in 1..Len(v) :
         /\ v[k].acct = m.acct
         /\ \/ CheckCalled(m) /\ k = 1 /\ v[k].do = "post" /\ m.type = "more"
            \/ CheckCalled(m) /\ k = 1 /\ v[k].do = "reset" /\ m.type # "more"
            \/ Ended(m) /\ k = Len(c) + 1 /\ v[k].do = "delete" /\ v[k].act = m.act
            \/ /\ m.type # "more" /\ k = Len(c) + Len(d) + 1
               /\ v[k].do = "post" /\ v[k].act = Act(0, "read", FALSE)
  <2>2. ASSUME NEW k \in 1..Len(v)
        PROVE  /\ v[k].acct = m.acct
               /\ \/ CheckCalled(m) /\ k = 1 /\ v[k].do = "post" /\ m.type = "more"
                  \/ CheckCalled(m) /\ k = 1 /\ v[k].do = "reset" /\ m.type # "more"
                  \/ Ended(m) /\ k = Len(c) + 1 /\ v[k].do = "delete" /\ v[k].act = m.act
                  \/ /\ m.type # "more" /\ k = Len(c) + Len(d) + 1
                     /\ v[k].do = "post" /\ v[k].act = Act(0, "read", FALSE)
    <3>1. CASE CheckCalled(m) /\ k = 1 /\ v[k] = Step("post", m.acct, Act(0, "check", TRUE)) /\ m.type = "more"
      <4>1. v[k].acct = m.acct /\ v[k].do = "post"
        BY <3>1 DEF Step
      <4>2. QED
        BY <3>1, <4>1
    <3>2. CASE CheckCalled(m) /\ k = 1 /\ v[k] = Step("reset", m.acct, NoAct) /\ m.type # "more"
      <4>1. v[k].acct = m.acct /\ v[k].do = "reset"
        BY <3>2 DEF Step
      <4>2. QED
        BY <3>2, <4>1
    <3>3. CASE Ended(m) /\ k = Len(c) + 1 /\ v[k] = Step("delete", m.acct, m.act)
      <4>1. v[k].acct = m.acct /\ v[k].do = "delete" /\ v[k].act = m.act
        BY <3>3 DEF Step
      <4>2. QED
        BY <3>3, <4>1
    <3>4. CASE /\ m.type # "more" /\ k = Len(c) + Len(d) + 1
               /\ v[k] = Step("post", m.acct, Act(0, "read", FALSE))
      <4>1. v[k].acct = m.acct /\ v[k].do = "post" /\ v[k].act = Act(0, "read", FALSE)
        BY <3>4 DEF Step
      <4>2. QED
        BY <3>4, <4>1
    <3>5. QED
      BY <1>12, <3>1, <3>2, <3>3, <3>4
  <2>3. QED
    BY <2>2
<1>14. CheckCalled(m) => \E k \in 1..Len(v) : v[k].acct = m.acct /\ Resets(v[k])
  <2>1. CheckCalled(m) => 1 \in 1..Len(v) /\ v[1] = c[1]
    BY <1>5, <1>10
  <2>2. QED
    BY <1>5, <2>1 DEF Step, Act, Resets
<1>15. Ended(m) => \E k \in 1..Len(v) : v[k].acct = m.acct /\ v[k].do = "delete" /\ v[k].act = m.act
  <2>1. Ended(m) => Len(c) + 1 \in 1..Len(v) /\ v[Len(c) + 1] = d[1]
    BY <1>6, <1>10
  <2>2. QED
    BY <1>6, <2>1 DEF Step
<1>16. UiRight'
  <2>1. ASSUME NEW k \in 1..Len(v) PROVE v[k].do # "send" /\ v[k].do # "check"
    BY <1>13
  <2>2. ASSUME NEW k \in 1..Len(v), NEW l \in 1..Len(v), v[k].do = v[l].do PROVE k = l
    BY <1>13, <2>2
  <2>3. QED
    BY <1>9, <2>1, <2>2 DEF UiRight
<1>17. QED
  BY <1>9, <1>13, <1>14, <1>15, <1>16

(* The main goroutine takes a message: its action has other answers to come, *)
(* or its callback is deleted, or its id stays in the table for good.        *)
LEMMA MainReceivesRight ==
  ASSUME IInv, TypeOK', MainReceives
  PROVE  IInv'
<1>1. /\ UNCHANGED <<actions, callbacks, nextId, out, side, posters, ticker, checking, early>>
      /\ ui = <<>> /\ Len(ui) = 0 /\ messages # <<>> /\ messages \in Seq(Messages) /\ messages' = Tail(messages)
  BY DEF IInv, TypeOK, MainReceives, checks
<1>2. PICK m \in Messages : m = Head(messages)
  BY <1>1, SeqTail
<1>3. /\ m = messages[1] /\ Len(messages) \in Nat /\ Len(messages) > 0 /\ Len(messages') = Len(messages) - 1
      /\ \A k \in 1..Len(messages') : messages'[k] = messages[k + 1] /\ k + 1 \in 1..Len(messages)
      /\ 1 \in 1..Len(messages)
      /\ \A k \in 1..Len(messages) : k = 1 \/ (k - 1 \in 1..Len(messages') /\ messages'[k - 1] = messages[k])
  <2>1. /\ m = messages[1] /\ Len(messages) \in Nat /\ Len(messages) > 0 /\ Len(messages') = Len(messages) - 1
        /\ \A k \in 1..Len(messages') : messages'[k] = messages[k + 1] /\ k + 1 \in 1..Len(messages)
    BY <1>1, <1>2, SeqTail
  <2>2. 1 \in 1..Len(messages)
    BY <2>1
  <2>3. ASSUME NEW k \in 1..Len(messages), k # 1
        PROVE  k - 1 \in 1..Len(messages') /\ messages'[k - 1] = messages[k]
    <3>1. k - 1 \in 1..Len(messages') /\ (k - 1) + 1 = k
      BY <2>1, <2>3
    <3>2. QED
      BY <2>1, <3>1
  <2>4. QED
    BY <2>1, <2>2, <2>3
<1>4. PICK a \in Accounts : a = m.acct
  BY DEF Messages
<1>5. PICK x \in Acts : x = m.act
  BY DEF Messages
<1>6. /\ \A k \in 1..Len(ui') :
           /\ ui'[k].acct = a
           /\ \/ /\ CheckCalled(m) /\ ui'[k].do = "post" /\ m.type = "more"
              \/ /\ CheckCalled(m) /\ ui'[k].do = "reset" /\ m.type # "more"
              \/ /\ Ended(m) /\ ui'[k].do = "delete" /\ ui'[k].act = x
              \/ /\ ui'[k].do = "post" /\ ui'[k].act = Act(0, "read", FALSE)
      /\ CheckCalled(m) => \E k \in 1..Len(ui') : ui'[k].acct = a /\ Resets(ui'[k])
      /\ Ended(m) => \E k \in 1..Len(ui') : ui'[k].acct = a /\ ui'[k].do = "delete" /\ ui'[k].act = x
      /\ UiRight'
  BY <1>2, <1>4, <1>5, ReceivedSteps DEF IInv
<1>7. /\ {"main", "deleting", "message", "out", "side"} \subseteq Places
      /\ {"message", "out", "side"} \subseteq Answering /\ "deleting" \notin Answering
  BY DEF Places, Answering
<1>8. x \in Held("message", a)
  BY <1>3, <1>4, <1>5, HeldOut
<1>9. (Called(m) <=> x.cb) /\ (Called(m) => x.id # 0) /\ x.id \in Nat
  BY <1>4, <1>5, <1>7, <1>8 DEF Called, IInv, IdsFresh, TableRight, Acts
<1>10. \A b \in Accounts : Held("main", b) = {} /\ Held("deleting", b) = {} /\ Held("main", b)' = {}
  <2>1. \A k \in 1..Len(ui) : FALSE
    BY <1>1
  <2>2. \A k \in 1..Len(ui') : ui'[k].do # "send"
    BY <1>6
  <2>3. QED
    BY <2>1, <2>2 DEF Held, Sent
<1>11. \A b \in Accounts : \A y : y \in Held("deleting", b)' <=> Ended(m) /\ b = a /\ y = x
  <2>1. \A b \in Accounts : \A y : y \in Held("deleting", b)' <=>
          \E k \in 1..Len(ui') : ui'[k].acct = b /\ ui'[k].do = "delete" /\ ui'[k].act = y
    BY DEF Held
  <2>2. \A k \in 1..Len(ui') :
          ui'[k].do = "delete" => ui'[k].acct = a /\ Ended(m) /\ ui'[k].act = x
    BY <1>6
  <2>3. ASSUME NEW b \in Accounts, NEW y, y \in Held("deleting", b)'
        PROVE  Ended(m) /\ b = a /\ y = x
    BY <2>1, <2>2, <2>3
  <2>4. ASSUME Ended(m) PROVE x \in Held("deleting", a)'
    BY <1>4, <1>5, <1>6, <2>1, <2>4
  <2>5. QED
    BY <2>3, <2>4
<1>12. /\ \A b \in Accounts : \A y \in Held("message", b)' : y \in Held("message", b)
       /\ \A b \in Accounts : \A y \in Held("message", b) : y \in Held("message", b)' \/ (b = a /\ y = x)
  BY <1>3, <1>4, <1>5, HeldOut
<1>13. \A r \in Places \ {"main", "deleting", "message"}, b \in Accounts : Held(r, b)' = Held(r, b)
  BY <1>1, HeldFrame DEF Places
<1>14. \A r \in Places \ {"deleting"}, b \in Accounts : \A y \in Held(r, b)' : y \in Held(r, b)
  BY <1>10, <1>12, <1>13
<1>15. \A r \in Places, b \in Accounts : \A y \in Held(r, b) :
         y \in Held(r, b)' \/ (r = "message" /\ b = a /\ y = x)
  BY <1>10, <1>12, <1>13
<1>16. Later(1) <=> \/ x \in Held("message", a)' \/ x \in Held("out", a)' \/ x \in Held("side", a)'
  <2>1. Held("out", a)' = Held("out", a) /\ Held("side", a)' = Held("side", a)
    BY <1>1, HeldFrame
  <2>2. x \in Held("message", a)' <=> \E k \in 1..Len(messages') : messages'[k].acct = a /\ messages'[k].act = x
    BY HeldOut
  <2>3. Later(1) <=> \/ \E l \in 1..Len(messages) : l > 1 /\ messages[l].acct = a /\ messages[l].act = x
                     \/ x \in Held("out", a) \/ x \in Held("side", a)
    BY <1>3, <1>4, <1>5 DEF Later
  <2>4. (\E l \in 1..Len(messages) : l > 1 /\ messages[l].acct = a /\ messages[l].act = x)
          <=> \E k \in 1..Len(messages') : messages'[k].acct = a /\ messages'[k].act = x
    <3>1. ASSUME NEW l \in 1..Len(messages), l > 1
          PROVE  l - 1 \in 1..Len(messages') /\ messages'[l - 1] = messages[l]
      BY <1>3, <3>1
    <3>2. ASSUME NEW k \in 1..Len(messages')
          PROVE  k + 1 \in 1..Len(messages) /\ k + 1 > 1 /\ messages'[k] = messages[k + 1]
      BY <1>3
    <3>3. ASSUME NEW l \in 1..Len(messages), l > 1, messages[l].acct = a, messages[l].act = x
          PROVE  \E k \in 1..Len(messages') : messages'[k].acct = a /\ messages'[k].act = x
      <4>1. PICK k \in 1..Len(messages') : messages'[k] = messages[l]
        BY <3>1, <3>3
      <4>2. messages'[k].acct = a /\ messages'[k].act = x
        BY <3>3, <4>1, Zenon
      <4>3. QED
        BY <4>2
    <3>4. ASSUME NEW k \in 1..Len(messages'), messages'[k].acct = a, messages'[k].act = x
          PROVE  \E l \in 1..Len(messages) : l > 1 /\ messages[l].acct = a /\ messages[l].act = x
      <4>1. PICK l \in 1..Len(messages) : l > 1 /\ messages'[k] = messages[l]
        BY <3>2
      <4>2. messages[l].acct = a /\ messages[l].act = x
        BY <3>4, <4>1, Zenon
      <4>3. QED
        BY <4>1, <4>2
    <3>5. QED
      BY <3>3, <3>4
  <2>5. QED
    BY <2>1, <2>2, <2>3, <2>4
<1>17. x.id # 0 => (Ends(m) => ~Later(1)) /\ (m.type \notin Final => Later(1))
  <2>1. MessageRight(1)
    BY <1>3 DEF IInv, MessagesRight
  <2>2. QED
    BY <1>3, <1>5, <2>1 DEF MessageRight
<1>18. x.id # 0 => \A r \in Places, b \in Accounts : \A y \in Held(r, b) :
         y.id = x.id => b = a /\ y = x /\ r \in {"message", "out", "side"}
  <2>1. ASSUME NEW r \in Places, Shared(r, "message") PROVE r \in {"message", "out", "side"}
    <3>1. r \in {r, "message"}
      OBVIOUS
    <3>2. QED
      BY <2>1, <3>1 DEF Shared
  <2>2. QED
    BY <1>7, <1>8, <2>1 DEF IInv, OnePlace
<1>19. x.id # 0 /\ Ends(m) => \A r \in Places \ {"deleting"}, b \in Accounts : \A y \in Held(r, b)' : y.id # x.id
  BY <1>14, <1>16, <1>17, <1>18
<1>20. Ended(m) => Ends(m) /\ x.id # 0
  BY <1>9 DEF Ended, Ends
<1>21. \A r \in Places, b \in Accounts : \A y \in Held(r, b)' :
         \/ y \in Held(r, b)
         \/ Ended(m) /\ r = "deleting" /\ b = a /\ y = x
  BY <1>11, <1>14
<1>22. IdsFresh'
  <2>1. ASSUME NEW r \in Places, NEW b \in Accounts, NEW y \in Held(r, b)'
        PROVE  y.id < nextId /\ (r \notin Answering => y.id # 0)
    <3>1. CASE y \in Held(r, b)
      BY <3>1 DEF IInv, IdsFresh
    <3>2. CASE Ended(m) /\ r = "deleting" /\ b = a /\ y = x
      BY <1>7, <1>8, <1>20, <3>2 DEF IInv, IdsFresh
    <3>3. QED
      BY <1>21, <2>1, <3>1, <3>2
  <2>2. QED
    BY <1>1, <2>1 DEF IInv, IdsFresh
<1>23. TableRight'
  <2>1. ASSUME NEW r \in Places, NEW b \in Accounts, NEW y \in Held(r, b)'
        PROVE  \E p \in Places : y \in Held(p, b)
    BY <1>7, <1>8, <1>21, <2>1
  <2>2. QED
    BY <1>1, <2>1 DEF IInv, TableRight
<1>24. TableUsed'
  <2>1. ASSUME NEW b \in Accounts, NEW i \in callbacks[b]
        PROVE  i \in open' \/ \E p \in Places : \E y \in Held(p, b)' : y.id = i
    <3>1. open \subseteq open' /\ (m.type \in {"Error", "Unsupported"} => x.id \in open')
      BY <1>2, <1>5 DEF MainReceives
    <3>2. ASSUME NEW p \in Places, NEW y \in Held(p, b), y.id = i, y \notin Held(p, b)'
          PROVE  i \in open' \/ \E r \in Places : \E z \in Held(r, b)' : z.id = i
      <4>1. b = a /\ y = x /\ x.id = i
        BY <1>15, <3>2
      <4>2. Called(m) /\ x.id # 0
        BY <1>4, <1>5, <1>9, <2>1, <4>1 DEF Called
      <4>3. CASE m.type \in {"Error", "Unsupported"}
        BY <3>1, <4>1, <4>3
      <4>4. CASE m.type \in {"Done", "Cancelled"}
        <5>1. x \in Held("deleting", a)'
          BY <1>11, <4>2, <4>4 DEF Ended
        <5>2. QED
          BY <1>7, <4>1, <5>1
      <4>5. CASE m.type \notin Final
        BY <1>7, <1>16, <1>17, <4>1, <4>2, <4>5
      <4>6. QED
        BY <4>3, <4>4, <4>5 DEF Final
    <3>3. CASE i \in open
      BY <3>1, <3>3
    <3>4. CASE \E p \in Places : \E y \in Held(p, b) : y.id = i
      BY <3>2, <3>4
    <3>5. QED
      BY <2>1, <3>3, <3>4 DEF IInv, TableUsed
  <2>2. QED
    BY <1>1, <2>1 DEF TableUsed
<1>25. OnePlace'
  <2>1. CASE Ended(m)
    <3>1. \A r \in Places : x \in Held(r, a)' => r = "deleting"
      BY <1>19, <1>20, <2>1
    <3>2. \A r \in Places : x \in Held(r, a)' => Shared(r, "deleting")
      BY <3>1 DEF Shared
    <3>3. \A r \in Places, b \in Accounts : \A y \in Held(r, b)' :
            y.id = 0 \/ y \in Held(r, b) \/ (r = "deleting" /\ b = a /\ y = x)
      BY <1>21
    <3>4. QED
      BY <1>7, <1>8, <1>20, <2>1, <3>2, <3>3, MoveOnePlace DEF IInv
  <2>2. CASE ~Ended(m)
    BY <1>21, <2>2, LessOnePlace DEF IInv
  <2>3. QED
    BY <2>1, <2>2
<1>26. MessagesRight'
  <2>1. ASSUME NEW k \in 1..Len(messages') PROVE MessageRight(k)'
    <3>1. PICK w : w = messages[k + 1]
      OBVIOUS
    <3>2. messages'[k] = w /\ k + 1 \in 1..Len(messages)
      BY <1>3, <3>1
    <3>3. MessageRight(k + 1)
      BY <3>2 DEF IInv, MessagesRight
    <3>4. /\ w.type # "self" /\ (w.act.id = 0 => ~w.act.cb)
          /\ w.act.id # 0 => (Ends(w) => ~Later(k + 1)) /\ (w.type \notin Final => Later(k + 1))
      BY <3>1, <3>3 DEF MessageRight
    <3>5. w.acct \in Accounts
      <4>1. messages[k + 1] \in Messages
        BY <1>1, <3>2
      <4>2. QED
        BY <3>1, <4>1 DEF Messages
    <3>6. Held("out", w.acct)' = Held("out", w.acct) /\ Held("side", w.acct)' = Held("side", w.acct)
      BY <1>1, <3>5, HeldFrame
    <3>7. Later(k + 1) <=> \/ \E l \in 1..Len(messages) : l > k + 1 /\ messages[l].acct = w.acct /\ messages[l].act = w.act
                           \/ w.act \in Held("out", w.acct) \/ w.act \in Held("side", w.acct)
      BY <3>1 DEF Later
    <3>8. Later(k)' <=> \/ \E l \in 1..Len(messages') : l > k /\ messages'[l].acct = w.acct /\ messages'[l].act = w.act
                        \/ w.act \in Held("out", w.acct)' \/ w.act \in Held("side", w.acct)'
      BY <3>2 DEF Later
    <3>9. (\E l \in 1..Len(messages) : l > k + 1 /\ messages[l].acct = w.acct /\ messages[l].act = w.act)
            <=> \E l \in 1..Len(messages') : l > k /\ messages'[l].acct = w.acct /\ messages'[l].act = w.act
      <4>1. ASSUME NEW l \in 1..Len(messages), l > k + 1
            PROVE  l - 1 \in 1..Len(messages') /\ l - 1 > k /\ messages'[l - 1] = messages[l]
        <5>1. l # 1 /\ l - 1 > k
          BY <1>3, <4>1
        <5>2. QED
          BY <1>3, <5>1
      <4>2. ASSUME NEW l \in 1..Len(messages'), l > k
            PROVE  l + 1 \in 1..Len(messages) /\ l + 1 > k + 1 /\ messages'[l] = messages[l + 1]
        BY <1>3, <4>2
      <4>3. ASSUME NEW l \in 1..Len(messages), l > k + 1 /\ messages[l].acct = w.acct /\ messages[l].act = w.act
            PROVE  \E j \in 1..Len(messages') : j > k /\ messages'[j].acct = w.acct /\ messages'[j].act = w.act
        BY <4>1, <4>3
      <4>4. ASSUME NEW l \in 1..Len(messages'), l > k /\ messages'[l].acct = w.acct /\ messages'[l].act = w.act
            PROVE  \E j \in 1..Len(messages) : j > k + 1 /\ messages[j].acct = w.acct /\ messages[j].act = w.act
        BY <4>2, <4>4
      <4>5. QED
        BY <4>3, <4>4
    <3>10. Later(k)' <=> Later(k + 1)
      BY <3>6, <3>7, <3>8, <3>9
    <3>11. Ends(w)' <=> Ends(w)
      BY <1>1 DEF Ends
    <3>12. QED
      BY <3>2, <3>4, <3>10, <3>11, RightNext
  <2>2. QED
    BY <2>1 DEF MessagesRight
<1>27. CheckingOwned'
  <2>1. ASSUME NEW b \in Accounts, checking[b]
        PROVE  \/ \E p \in Places \ {"deleting"} : \E y \in Held(p, b)' : y.kind = "check" /\ y.cb
               \/ \E k \in 1..Len(ui') : ui'[k].acct = b /\ Resets(ui'[k])
    <3>1. PICK p \in Places \ {"deleting"} : \E y \in Held(p, b) : y.kind = "check" /\ y.cb
      <4>1. \A k \in 1..Len(ui) : FALSE
        BY <1>1
      <4>2. QED
        BY <2>1, <4>1 DEF IInv, CheckingOwned
    <3>2. PICK y \in Held(p, b) : y.kind = "check" /\ y.cb
      BY <3>1
    <3>3. CASE y \in Held(p, b)'
      BY <3>2, <3>3
    <3>4. CASE b = a /\ y = x
      BY <1>5, <1>6, <1>9, <3>2, <3>4 DEF CheckCalled
    <3>5. QED
      BY <1>15, <3>2, <3>3, <3>4
  <2>2. QED
    BY <1>1, <2>1 DEF CheckingOwned, Resets
<1>28. CheckAlone'
  <2>1. \A p \in Places, b \in Accounts : \A y : CheckHeld(p, b, y)' => CheckHeld(p, b, y)
    BY <1>14 DEF CheckHeld
  <2>2. ASSUME NEW b \in Accounts, ~early[b], NEW k \in 1..Len(ui'), ui'[k].acct = b, Resets(ui'[k])
        PROVE  /\ ui'[k].do = "reset" /\ checking[b]
               /\ \A p \in Places : \A y \in Held(p, b)' : ~CheckHeld(p, b, y)'
    <3>1. b = a
      BY <1>6, <2>2
    <3>2. CheckCalled(m) /\ (ui'[k].do = "reset" \/ m.type = "more")
      <4>1. ~Act(0, "read", FALSE).cb
        BY DEF Act
      <4>2. QED
        BY <1>6, <2>2, <4>1 DEF Resets
    <3>3. Called(m) /\ x.kind = "check" /\ x.cb /\ x.id # 0
      BY <1>5, <1>9, <3>2 DEF CheckCalled
    <3>4. Ends(m)
      BY <1>4, <1>5, <2>2, <3>1, <3>3 DEF Ends
    <3>5. m.type # "more"
      BY <1>17, <3>3, <3>4 DEF Final
    <3>6. CheckHeld("message", a, x) /\ checking[b]
      BY <1>7, <1>8, <2>2, <3>1, <3>3 DEF CheckHeld, IInv, CheckAlone
    <3>7. ASSUME NEW p \in Places, NEW y \in Held(p, b)', CheckHeld(p, b, y)' PROVE FALSE
      <4>1. p # "deleting" /\ CheckHeld(p, b, y)
        BY <2>1, <3>7 DEF CheckHeld
      <4>2. y.id = x.id
        BY <1>7, <1>8, <2>2, <3>1, <3>6, <4>1 DEF IInv, CheckAlone, CheckHeld
      <4>3. QED
        BY <1>19, <3>3, <3>4, <3>7, <4>1, <4>2
    <3>8. QED
      BY <3>2, <3>5, <3>6, <3>7
  <2>3. ASSUME NEW b \in Accounts, ~early[b]
        PROVE  /\ \A p, q \in Places : \A y \in Held(p, b)', z \in Held(q, b)' :
                    CheckHeld(p, b, y)' /\ CheckHeld(q, b, z)' => y.id = z.id
               /\ \A p \in Places : \A y \in Held(p, b)' : CheckHeld(p, b, y)' => checking[b]
    <3>1. \A p, q \in Places : \A y, z : CheckHeld(p, b, y) /\ CheckHeld(q, b, z) => y.id = z.id /\ checking[b]
      BY <2>3 DEF IInv, CheckAlone, CheckHeld
    <3>2. QED
      BY <2>1, <3>1
  <2>4. QED
    BY <1>1, <2>2, <2>3 DEF CheckAlone, Resets
<1>29. QueuedOnce' /\ OutRight' /\ SideRight' /\ HoldersRight'
  BY <1>1, Frame DEF IInv
<1>30. QED
  BY <1>6, <1>22, <1>23, <1>24, <1>25, <1>26, <1>27, <1>28, <1>29 DEF IInv

-----------------------------------------------------------------------------
(* The invariant holds at first and after every step *)

LEMMA InitRight == Init => IInv
<1> SUFFICES ASSUME Init PROVE IInv
  OBVIOUS
<1>1. /\ actions = [a \in Accounts |-> <<>>] /\ messages = <<>> /\ ui = <<>> /\ side = {} /\ posters = {}
      /\ out = [a \in Accounts |-> <<>>] /\ ticker = [a \in Accounts |-> Step("wait", a, NoAct)]
      /\ callbacks = [a \in Accounts |-> {}] /\ nextId = 1 /\ checking = [a \in Accounts |-> FALSE]
  BY DEF Init
<1>2. Len(messages) = 0 /\ Len(ui) = 0 /\ \A a \in Accounts : Len(actions[a]) = 0 /\ Len(out[a]) = 0
  BY <1>1
<1>3. \A a \in Accounts : ticker[a].do = "wait" /\ ticker[a].acct = a
  BY <1>1 DEF Step
<1>4. \A p \in Places, a \in Accounts : Held(p, a) = {}
  BY <1>1, <1>2, <1>3 DEF Places, Held, Sent
<1>5. IdsFresh /\ TableRight /\ TableUsed /\ OnePlace
  BY <1>1, <1>4 DEF IdsFresh, TableRight, TableUsed, OnePlace
<1>6. QueuedOnce /\ OutRight /\ SideRight /\ MessagesRight /\ UiRight /\ HoldersRight
  BY <1>1, <1>2, <1>3 DEF QueuedOnce, OutRight, Answers, SideRight, MessagesRight, UiRight, HoldersRight
<1>7. CheckingOwned /\ CheckAlone
  BY <1>1, <1>2, <1>4 DEF CheckingOwned, CheckAlone
<1>8. QED
  BY <1>5, <1>6, <1>7, TypeInit DEF IInv

LEMMA StutterRight ==
  ASSUME IInv, UNCHANGED vars
  PROVE  IInv'
<1>1. /\ UNCHANGED <<actions, messages, callbacks, nextId, out, side, ui, posters, ticker, checking, early, open>>
      /\ UNCHANGED vars
  BY DEF vars, channels, checks, history
<1>2. TypeOK'
  BY TypeStep DEF IInv
<1>3. \A r \in Places, b \in Accounts : Held(r, b)' = Held(r, b)
  BY <1>1, HeldFrame DEF Places
<1>4. QueuedOnce' /\ OutRight' /\ SideRight' /\ MessagesRight' /\ UiRight' /\ HoldersRight' /\ ResetsKept
  BY <1>1, Frame DEF IInv
<1>5. QED
  BY <1>1, <1>2, <1>3, <1>4, Stays, CarriedRest DEF IInv

LEMMA StepRight ==
  ASSUME IInv, [Next]_vars
  PROVE  IInv'
<1>1. TypeOK'
  BY TypeStep DEF IInv
<1>2. CASE Main
  BY <1>1, <1>2, MainReceivesRight, MainRegistersRight, MainSendsRight, MainDeletesRight, MainResetsRight,
     MainChecksRight, MainUnlocksRight DEF Main
<1>3. ASSUME NEW a \in Accounts, Worker(a) \/ Others(a) \/ Update(a) \/ Tick(a) \/ Command(a)
      PROVE  IInv'
  BY <1>1, <1>3, ReceiveRight, WorkerSendsRight, TickLocksRight, TickSendsRight, UpdateRight, TickRight,
     CommandRight DEF Worker, Others
<1>4. ASSUME NEW rs \in side, SideSends(rs) PROVE IInv'
  BY <1>1, <1>4, SideSendsRight
<1>5. ASSUME NEW p \in posters, PosterSends(p) PROVE IInv'
  BY <1>1, <1>5, PosterSendsRight
<1>6. CASE UNCHANGED vars
  BY <1>6, StutterRight
<1>7. QED
  BY <1>2, <1>3, <1>4, <1>5, <1>6 DEF Next

-----------------------------------------------------------------------------
(* What the invariant says of the properties *)

(* An action under way is in one of the places but the last. *)
LEMMA InFlightHeld ==
  ASSUME IInv, NEW a \in Accounts
  PROVE  \A x : x \in InFlight(a) <=> \E p \in Places \ {"deleting"} : x \in Held(p, a)
<1>1. /\ messages \in Seq(Messages) /\ out[a] \in Seq(Messages) /\ actions[a] \in Seq(Acts)
      /\ ui \in Seq(Steps) /\ side \subseteq Seq(Messages)
  BY DEF IInv, TypeOK
<1>2. /\ \A k \in 1..Len(messages) : messages[k].type # "self"
      /\ \A k \in 1..Len(out[a]) : out[a][k].acct = a
      /\ \A rs \in side : \A k \in 1..Len(rs) : rs[k].type # "self"
  BY DEF IInv, MessagesRight, MessageRight, OutRight, Answers, SideRight
<1>3. \A x : x \in Held("queued", a) <=> x \in ToSet(actions[a])
  BY <1>1 DEF Held, ToSet
<1>4. \A x : x \in Held("message", a) <=> \E m \in ToSet(messages) : m.acct = a /\ m.type # "self" /\ m.act = x
  BY <1>1, <1>2 DEF Held, ToSet
<1>5. \A x : x \in Held("out", a) <=> \E m \in ToSet(out[a]) : m.acct = a /\ m.type # "self" /\ m.act = x
  <2>1. \A x : x \in Held("out", a) <=> \E k \in 1..Len(out[a]) : out[a][k].type # "self" /\ out[a][k].act = x
    BY DEF Held
  <2>2. \A m : m \in ToSet(out[a]) <=> \E k \in 1..Len(out[a]) : m = out[a][k]
    BY <1>1 DEF ToSet
  <2>3. ASSUME NEW x \in Held("out", a)
        PROVE  \E m \in ToSet(out[a]) : m.acct = a /\ m.type # "self" /\ m.act = x
    <3>1. PICK k \in 1..Len(out[a]) : out[a][k].type # "self" /\ out[a][k].act = x
      BY <2>1
    <3>2. PICK m \in ToSet(out[a]) : m = out[a][k]
      BY <2>2
    <3>3. m.acct = a
      BY <1>2, <3>2
    <3>4. QED
      BY <3>1, <3>2, <3>3
  <2>4. ASSUME NEW x, NEW m \in ToSet(out[a]), m.type # "self", m.act = x
        PROVE  x \in Held("out", a)
    <3>1. PICK k \in 1..Len(out[a]) : m = out[a][k]
      BY <2>2
    <3>2. QED
      BY <2>1, <2>4, <3>1
  <2>5. QED
    BY <2>3, <2>4
<1>6. \A x : x \in Held("side", a) <=>
        \E m \in UNION {ToSet(rs) : rs \in side} : m.acct = a /\ m.type # "self" /\ m.act = x
  <2>1. \A x : x \in Held("side", a) <=> \E rs \in side : \E k \in 1..Len(rs) : rs[k].acct = a /\ rs[k].act = x
    BY DEF Held
  <2>2. \A rs \in side : \A m : m \in ToSet(rs) <=> \E k \in 1..Len(rs) : m = rs[k]
    BY <1>1 DEF ToSet
  <2>3. ASSUME NEW x \in Held("side", a)
        PROVE  \E m \in UNION {ToSet(rs) : rs \in side} : m.acct = a /\ m.type # "self" /\ m.act = x
    <3>1. PICK rs \in side : \E k \in 1..Len(rs) : rs[k].acct = a /\ rs[k].act = x
      BY <2>1
    <3>2. PICK k \in 1..Len(rs) : rs[k].acct = a /\ rs[k].act = x
      BY <3>1
    <3>3. PICK m \in ToSet(rs) : m = rs[k]
      BY <2>2
    <3>4. m.type # "self"
      BY <1>2, <3>3
    <3>5. m \in UNION {ToSet(rt) : rt \in side}
      BY <3>3
    <3>6. QED
      BY <3>2, <3>3, <3>4, <3>5
  <2>4. ASSUME NEW x, NEW m \in UNION {ToSet(rs) : rs \in side}, m.acct = a, m.act = x
        PROVE  x \in Held("side", a)
    <3>1. PICK rs \in side : m \in ToSet(rs)
      BY <2>4
    <3>2. PICK k \in 1..Len(rs) : m = rs[k]
      BY <2>2, <3>1
    <3>3. QED
      BY <2>1, <2>4, <3>2
  <2>5. QED
    BY <2>3, <2>4
<1>7. \A x : x \in Held("main", a) <=> \E s \in ToSet(ui) : s.acct = a /\ s.do = "send" /\ s.act = x
  BY <1>1, SMTT(30) DEF Held, Sent, ToSet
<1>8. \A x : x \in Held("poster", a) <=> \E s \in posters : s.acct = a /\ s.do = "send" /\ s.act = x
  BY DEF Held, Sent
<1>9. \A x : x \in Held("ticker", a) <=> \E s \in {ticker[a]} : s.acct = a /\ s.do = "send" /\ s.act = x
  BY DEF Held, Sent
<1>10. \A x : x \in InFlight(a) <=>
         \/ x \in ToSet(actions[a])
         \/ \E m \in ToSet(messages) \cup ToSet(out[a]) \cup UNION {ToSet(rs) : rs \in side} :
              m.acct = a /\ m.type # "self" /\ m.act = x
         \/ \E s \in ToSet(ui) \cup posters \cup {ticker[a]} : s.acct = a /\ s.do = "send" /\ s.act = x
  BY DEF InFlight
<1>11. \A x : x \in InFlight(a) <=>
         \/ x \in Held("queued", a)
         \/ x \in Held("message", a) \/ x \in Held("out", a) \/ x \in Held("side", a)
         \/ x \in Held("main", a) \/ x \in Held("poster", a) \/ x \in Held("ticker", a)
  <2>1. ASSUME NEW x
        PROVE  /\ (\E m \in ToSet(messages) \cup ToSet(out[a]) \cup UNION {ToSet(rs) : rs \in side} :
                     m.acct = a /\ m.type # "self" /\ m.act = x)
                  <=> x \in Held("message", a) \/ x \in Held("out", a) \/ x \in Held("side", a)
               /\ (\E s \in ToSet(ui) \cup posters \cup {ticker[a]} : s.acct = a /\ s.do = "send" /\ s.act = x)
                  <=> x \in Held("main", a) \/ x \in Held("poster", a) \/ x \in Held("ticker", a)
    BY <1>4, <1>5, <1>6, <1>7, <1>8, <1>9
  <2>2. QED
    BY <1>3, <1>10, <2>1
<1>12. Places \ {"deleting"} = {"queued", "message", "out", "side", "main", "poster", "ticker"}
  BY DEF Places
<1>13. QED
  BY <1>11, <1>12

LEMMA CallbacksHeld == IInv => CallbacksRight
<1> SUFFICES ASSUME IInv PROVE CallbacksRight
  OBVIOUS
<1>1. Registered
  BY InFlightHeld DEF Registered, IInv, TableRight
<1>2. ASSUME NEW a \in Accounts, NEW i \in Forgotten(a)
      PROVE  i \in {s.act.id : s \in {t \in ToSet(ui) : t.do = "delete" /\ t.acct = a}}
  <2>1. i \in callbacks[a] /\ i \notin open /\ \A x \in InFlight(a) : x.id # i
    BY <1>2 DEF Forgotten
  <2>2. PICK p \in Places : \E x \in Held(p, a) : x.id = i
    BY <2>1 DEF IInv, TableUsed
  <2>3. p = "deleting"
    BY <2>1, <2>2, InFlightHeld
  <2>4. PICK k \in 1..Len(ui) : ui[k].acct = a /\ ui[k].do = "delete" /\ ui[k].act.id = i
    BY <2>2, <2>3 DEF Held
  <2>5. ui[k] \in ToSet(ui)
    BY DEF IInv, TypeOK, ToSet
  <2>6. QED
    BY <2>4, <2>5
<1>3. TableClean
  BY <1>2 DEF TableClean
<1>4. QED
  BY <1>1, <1>3 DEF CallbacksRight, IInv

LEMMA ChecksHeld == IInv => ChecksRight
<1> SUFFICES ASSUME IInv PROVE ChecksRight
  OBVIOUS
<1>1. ASSUME NEW a \in Accounts, checking[a] PROVE Checks(a) # {} \/ Reset(a)
  <2>1. CASE \E p \in Places \ {"deleting"} : \E x \in Held(p, a) : x.kind = "check" /\ x.cb
    BY <2>1, InFlightHeld DEF Checks
  <2>2. CASE \E k \in 1..Len(ui) : ui[k].acct = a /\ Resets(ui[k])
    <3>1. PICK k \in 1..Len(ui) : ui[k].acct = a /\ ui[k].do \in {"reset", "post"}
      BY <2>2 DEF Resets
    <3>2. ui[k] \in ToSet(ui)
      BY DEF IInv, TypeOK, ToSet
    <3>3. QED
      BY <3>1, <3>2 DEF Reset
  <2>3. QED
    BY <1>1, <2>1, <2>2 DEF IInv, CheckingOwned
<1>2. ASSUME NEW a \in Accounts, ~early[a] PROVE Cardinality(Checks(a)) <= 1
  <2>1. ASSUME NEW x \in Checks(a), NEW y \in Checks(a) PROVE x = y
    <3>1. PICK p \in Places : CheckHeld(p, a, x)
      BY InFlightHeld DEF Checks, CheckHeld
    <3>2. PICK q \in Places : CheckHeld(q, a, y)
      BY InFlightHeld DEF Checks, CheckHeld
    <3>3. x.id = y.id
      BY <1>2, <3>1, <3>2 DEF IInv, CheckAlone, CheckHeld
    <3>4. x.id # 0
      BY <3>1 DEF IInv, TableRight, IdsFresh, CheckHeld
    <3>5. QED
      BY <3>1, <3>2, <3>3, <3>4 DEF IInv, OnePlace, CheckHeld
  <2>2. CASE Checks(a) = {}
    BY <2>2, FS_EmptySet
  <2>3. CASE \E x : x \in Checks(a)
    <3>1. PICK x : Checks(a) = {x}
      BY <2>1, <2>3
    <3>2. QED
      BY <3>1, FS_Singleton
  <2>4. QED
    BY <2>2, <2>3
<1>3. QED
  BY <1>1, <1>2 DEF ChecksRight, CheckingResets, OneCheck

-----------------------------------------------------------------------------
LEMMA Invariance == Spec => []IInv
BY InitRight, StepRight, PTL DEF Spec

(* The channels never exceed their capacities and all the goroutines hold  *)
(* what they should (types.Worker, AccountView).                           *)
THEOREM TypeCorrect == Spec => []TypeOK
<1>1. IInv => TypeOK
  BY DEF IInv
<1> QED BY <1>1, Invariance, PTL

(* ProcessMessage finds the callback of every answer to an action posted   *)
(* with one, and afterwards the table has forgotten all but the actions    *)
(* that failed or were refused (types.Worker.actionCallbacks).             *)
THEOREM CallbacksAlways == Spec => []CallbacksRight
BY CallbacksHeld, Invariance, PTL

(* AccountView.CheckMail: checkingMail is never left set, and while it is   *)
(* set no second check starts, but after an answer that came early.        *)
THEOREM ChecksAlways == Spec => []ChecksRight
BY ChecksHeld, Invariance, PTL
=============================================================================
