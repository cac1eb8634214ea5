--------------------------- MODULE BackendsProofs ---------------------------
(***************************************************************************)
(* The backends, for all bounds, folders and mail.  An account that is to  *)
(* be connected never stops trying; the mbox and the Maildir worker keep   *)
(* the contract of a mail store; the counts of a maildir are right at rest.*)
(***************************************************************************)
EXTENDS Backends, SequenceTheorems, FiniteSetTheorems, TLAPS

-----------------------------------------------------------------------------
(* AccountReconnect *)

(* The queues and the timers, as far as they matter. *)
Queues ==
  /\ timers \in Nat
  /\ actions \in Seq({"connect", "reconnect", "disconnect"})
  /\ messages \in Seq({"error", "connected"})

Attempted(as) == \E i \in DOMAIN as : as[i] # "disconnect"
Failed(ms) == \E i \in DOMAIN ms : ms[i] = "error"

ReconnectIInv == Queues /\ KeepsTrying

(* What was in a queue behind its head is in the tail. *)
LEMMA Behind ==
  ASSUME NEW S, NEW q \in Seq(S), q # <<>>, NEW T \in SUBSET S,
         Head(q) \notin T, \E i \in DOMAIN q : q[i] \in T
  PROVE  \E i \in DOMAIN Tail(q) : Tail(q)[i] \in T
<1>1. /\ Len(q) \in Nat \ {0} /\ DOMAIN q = 1..Len(q)
      /\ Tail(q) \in Seq(S) /\ Len(Tail(q)) = Len(q) - 1
      /\ DOMAIN Tail(q) = 1..(Len(q) - 1)
      /\ \A i \in 1..(Len(q) - 1) : Tail(q)[i] = q[i + 1]
      /\ Head(q) = q[1]
  BY HeadTailProperties
<1>2. PICK i \in DOMAIN q : q[i] \in T
  OBVIOUS
<1>3. i # 1 /\ i - 1 \in 1..(Len(q) - 1) /\ Tail(q)[i - 1] = q[i]
  BY <1>1, <1>2
<1> QED BY <1>1, <1>2, <1>3

Trying ==
  up \/ wanted = "disconnect" \/ timers > 0 \/ Attempted(actions) \/ Failed(messages)

LEMMA TryingMeans == KeepsTrying <=> Trying
BY DEF KeepsTrying, Trying, Attempted, Failed

LEMMA ReconnectInit == Init => ReconnectIInv
BY DEF Init, ReconnectIInv, Queues, KeepsTrying

LEMMA QueuesStep == Queues /\ [Next]_vars => Queues'
<1> SUFFICES ASSUME Queues, [Next]_vars PROVE Queues'
  OBVIOUS
<1> USE DEF Queues
<1>1. ASSUME HandleConnError PROVE Queues'
  BY <1>1 DEF HandleConnError, Received
<1>2. ASSUME HandleConnected PROVE Queues'
  BY <1>2 DEF HandleConnected, Received
<1>3. ASSUME TimerFires PROVE Queues'
  BY <1>3 DEF TimerFires
<1>4. ASSUME NEW kind \in {"connect", "disconnect"}, Command(kind) PROVE Queues'
  BY <1>4 DEF Command
<1>5. ASSUME NEW kind \in {"connect", "reconnect"}, Connect(kind) \/ ConnectFails(kind)
      PROVE Queues'
  <2>1. Tail(actions) \in Seq({"connect", "reconnect", "disconnect"})
    BY <1>5, HeadTailProperties DEF Connect, ConnectFails, Takes
  <2>2. Append(messages, "connected") \in Seq({"error", "connected"})
        /\ Append(messages, "error") \in Seq({"error", "connected"})
    OBVIOUS
  <2>3. CASE Connect(kind)
    BY <2>1, <2>2, <2>3 DEF Connect, Takes
  <2>4. CASE ConnectFails(kind)
    BY <2>1, <2>2, <2>4 DEF ConnectFails, Takes
  <2> QED BY <1>5, <2>3, <2>4
<1>6. ASSUME Disconnect PROVE Queues'
  BY <1>6 DEF Disconnect, Takes
<1>7. ASSUME ConnectionLost PROVE Queues'
  <2>1. messages \o <<"error", "error">> \in Seq({"error", "connected"})
    OBVIOUS
  <2>2. Append(messages, "error") \in Seq({"error", "connected"})
    OBVIOUS
  <2>3. messages' \in {Append(messages, "error"), messages \o <<"error", "error">>}
        /\ actions' = actions /\ timers' = timers
    BY <1>7 DEF ConnectionLost
  <2>4. messages' \in Seq({"error", "connected"})
    BY <2>1, <2>2, <2>3
  <2> QED BY <2>3, <2>4
<1>8. ASSUME UNCHANGED vars PROVE Queues'
  BY <1>8 DEF vars
<1> QED BY <1>1, <1>2, <1>3, <1>4, <1>5, <1>6, <1>7, <1>8 DEF Next

(* An error at the head of the messages becomes a timer, a timer becomes a *)
(* Reconnect in the queue, and a Reconnect becomes a connection or an      *)
(* error.                                                                  *)
LEMMA TryingStep == Queues /\ Trying /\ [Next]_vars => Trying'
<1> SUFFICES ASSUME Queues, Trying, [Next]_vars PROVE Trying'
  OBVIOUS
<1>1. ASSUME HandleConnError PROVE Trying'
  BY <1>1 DEF HandleConnError, Queues, Trying
<1>2. ASSUME HandleConnected PROVE Trying'
  <2>1. ASSUME Failed(messages) PROVE Failed(messages')
    <3>1. messages # <<>> /\ Head(messages) = "connected" /\ messages' = Tail(messages)
      BY <1>2 DEF HandleConnected, Received
    <3>2. Head(messages) \notin {"error"} /\ \E i \in DOMAIN messages : messages[i] \in {"error"}
      BY <2>1, <3>1 DEF Failed
    <3>3. \E i \in DOMAIN Tail(messages) : Tail(messages)[i] \in {"error"}
      <4> DEFINE S == {"error", "connected"}
                 T == {"error"}
      <4>1. messages \in Seq(S) /\ T \in SUBSET S
        BY DEF Queues
      <4> HIDE DEF S, T
      <4>2. Head(messages) \notin T /\ \E i \in DOMAIN messages : messages[i] \in T
        BY <3>2 DEF T
      <4>3. \E i \in DOMAIN Tail(messages) : Tail(messages)[i] \in T
        BY <3>1, <4>1, <4>2, Behind
      <4> QED BY <4>3 DEF T
    <3> QED BY <3>1, <3>3 DEF Failed
  <2> QED BY <1>2, <2>1 DEF HandleConnected, Trying
<1>3. ASSUME TimerFires PROVE Trying'
  <2>1. Attempted(Append(actions, "reconnect"))
    <3>1. actions \in Seq({"connect", "reconnect", "disconnect"})
      BY DEF Queues
    <3> QED BY <3>1 DEF Attempted
  <2> QED BY <1>3, <2>1 DEF TimerFires, Trying
<1>4. ASSUME NEW kind \in {"connect", "disconnect"}, Command(kind) PROVE Trying'
  <2>1. ASSUME Attempted(actions) PROVE Attempted(Append(actions, kind))
    <3>1. actions \in Seq({"connect", "reconnect", "disconnect"})
      BY DEF Queues
    <3> QED BY <2>1, <3>1 DEF Attempted
  <2> QED BY <1>4, <2>1 DEF Command, Trying
<1>5. ASSUME NEW kind \in {"connect", "reconnect"}, Connect(kind) PROVE Trying'
  BY <1>5 DEF Connect, Trying
<1>6. ASSUME NEW kind \in {"connect", "reconnect"}, ConnectFails(kind) PROVE Trying'
  <2>1. Failed(Append(messages, "error"))
    <3>1. messages \in Seq({"error", "connected"})
      BY DEF Queues
    <3> QED BY <3>1 DEF Failed
  <2> QED BY <1>6, <2>1 DEF ConnectFails, Trying
<1>7. ASSUME Disconnect PROVE Trying'
  BY <1>7 DEF Disconnect, Wants, Trying
<1>8. ASSUME ConnectionLost PROVE Trying'
  <2>1. messages \in Seq({"error", "connected"}) /\ Len(messages) \in Nat
    BY DEF Queues
  <2>2. Failed(Append(messages, "error"))
    <3>1. /\ Len(messages) + 1 \in DOMAIN Append(messages, "error")
          /\ Append(messages, "error")[Len(messages) + 1] = "error"
      BY <2>1
    <3> QED BY <3>1 DEF Failed
  <2>3. Failed(messages \o <<"error", "error">>)
    <3> DEFINE S == {"error", "connected"}
               more == <<"error", "error">>
    <3>1. more \in Seq(S) /\ Len(more) = 2 /\ more[1] = "error" /\ messages \in Seq(S)
      BY <2>1
    <3> HIDE DEF S, more
    <3>2. /\ messages \o more \in Seq(S)
          /\ Len(messages \o more) = Len(messages) + Len(more)
          /\ \A i \in 1..(Len(messages) + Len(more)) : (messages \o more)[i] =
                IF i <= Len(messages) THEN messages[i] ELSE more[i - Len(messages)]
      BY <3>1, ConcatProperties, Zenon
    <3>3. /\ Len(messages) + 1 \in DOMAIN (messages \o more)
          /\ (messages \o more)[Len(messages) + 1] = "error"
      BY <2>1, <3>1, <3>2
    <3>4. Failed(messages \o more)
      BY <3>3 DEF Failed
    <3> QED BY <3>4 DEF more
  <2>4. Failed(messages')
    BY <1>8, <2>2, <2>3 DEF ConnectionLost
  <2> QED BY <2>4 DEF Trying
<1>9. ASSUME UNCHANGED vars PROVE Trying'
  BY <1>9 DEF vars, Trying, Attempted, Failed
<1> QED BY <1>1, <1>2, <1>3, <1>4, <1>5, <1>6, <1>7, <1>8, <1>9 DEF Next

(* An account that the user wants connected is connected or on the way to  *)
(* it, however losses, failures, timers and commands follow each other     *)
(* (the ConnError case of onMessage and its timer).                        *)
THEOREM NeverGivesUp == Spec => []KeepsTrying
<1>1. Init => Queues /\ Trying
  BY ReconnectInit, TryingMeans DEF ReconnectIInv
<1>2. Queues /\ Trying /\ [Next]_vars => (Queues /\ Trying)'
  BY QueuesStep, TryingStep
<1>3. Queues /\ Trying => KeepsTrying
  BY TryingMeans
<1> QED BY <1>1, <1>2, <1>3, PTL DEF Spec

-----------------------------------------------------------------------------
(* Maildir *)

(* Every message is in one folder only, in new or in cur, and the watches are those of the
   selected folder, but while they are taken to another one. *)
DirTypes ==
  /\ fresh \in [Dirs -> SUBSET Keys] /\ cur \in [Dirs -> SUBSET Keys]
  /\ info = [d \in Dirs |-> info[d]]
  /\ fired \in Nat
  /\ \/ opening = Dir!NoOpening
     \/ opening \in [dir : Dirs, unwatched : BOOLEAN]
  /\ \/ selected = "" /\ watched = {} /\ ~opening.unwatched
     \/ selected \in Dirs /\ watched = {selected} /\ ~opening.unwatched
     \/ selected \in Dirs /\ watched = {} /\ opening.unwatched /\ opening.dir = selected

OnePlace ==
  /\ \A d \in Dirs : fresh[d] \cap cur[d] = {}
  /\ \A d, e \in Dirs : d # e => (fresh[d] \cup cur[d]) \cap (fresh[e] \cup cur[e]) = {}

CountsRight ==
  /\ fresh[selected] = {}
  /\ info[selected].exists = Dir!Cardinality(cur[selected])
  /\ info[selected].unseen = Dir!Cardinality(cur[selected] \ seen)

(* Something makes the worker count again, or excuses that it does not. *)
Counting == events \/ timer \/ fired > 0

(* The counts of the selected folder are right unless something is under way that makes the
   worker count again. *)
CountsDue ==
  \/ Counting \/ outdated \/ missed \/ selected = "" \/ opening # Dir!NoOpening
  \/ CountsRight

(* While a folder is opened nothing is left in its new but what will be told. *)
OpenDue ==
  opening # Dir!NoOpening => Counting \/ missed \/ fresh[opening.dir] = {}

DirIInv == DirTypes /\ OnePlace /\ CountsDue /\ OpenDue

LEMMA DirInit == Dir!Init => DirIInv
<1> SUFFICES ASSUME Dir!Init PROVE DirIInv
  OBVIOUS
<1>1. /\ fresh = InitialNew /\ cur = [d \in Dirs |-> {}] /\ selected = "" /\ watched = {}
      /\ fired = 0 /\ info = [d \in Dirs |-> Dir!Unknown] /\ opening = Dir!NoOpening
  BY DEF Dir!Init
<1>2. DirTypes
  BY <1>1, DirsAssumption DEF DirTypes, Dir!NoOpening
<1>3. OnePlace
  BY <1>1, DirsAssumption DEF OnePlace
<1>4. CountsDue /\ OpenDue
  BY <1>1 DEF CountsDue, OpenDue
<1> QED
  BY <1>2, <1>3, <1>4 DEF DirIInv

(* SyncNewMail: everything of the folder is in cur then. *)
LEMMA SyncStep ==
  ASSUME DirTypes, OnePlace, NEW d \in Dirs, Dir!SyncNewMail(d)
  PROVE  /\ fresh' \in [Dirs -> SUBSET Keys] /\ cur' \in [Dirs -> SUBSET Keys]
         /\ OnePlace'
         /\ [e \in Dirs |-> fresh[e] \cup cur[e]]' = [e \in Dirs |-> fresh[e] \cup cur[e]]
         /\ fresh'[d] = {}
         /\ events => events'
         /\ \A e \in Dirs : \/ fresh'[e] = fresh[e] /\ cur'[e] = cur[e]
                            \/ e = d /\ (events' \/ d \notin watched)
<1>1. /\ fresh' = [fresh EXCEPT ![d] = {}]
      /\ cur' = [cur EXCEPT ![d] = @ \cup fresh[d]]
      /\ events' = (events \/ (IF fresh[d] = {} THEN {} ELSE {d}) \cap watched # {})
  BY DEF Dir!SyncNewMail, Dir!Touch
<1>2. fresh' \in [Dirs -> SUBSET Keys] /\ cur' \in [Dirs -> SUBSET Keys]
  BY <1>1 DEF DirTypes
<1>3. \A e \in Dirs : /\ fresh'[e] = IF e = d THEN {} ELSE fresh[e]
                      /\ cur'[e] = IF e = d THEN cur[e] \cup fresh[e] ELSE cur[e]
  BY <1>1 DEF DirTypes
<1>4. \A e \in Dirs : fresh'[e] \cup cur'[e] = fresh[e] \cup cur[e] /\ fresh'[e] \cap cur'[e] = {}
  BY <1>3 DEF OnePlace
<1>5. OnePlace'
  BY <1>4 DEF OnePlace
<1>6. [e \in Dirs |-> fresh[e] \cup cur[e]]' = [e \in Dirs |-> fresh[e] \cup cur[e]]
  BY <1>4
<1>7. ASSUME NEW e \in Dirs
      PROVE  \/ fresh'[e] = fresh[e] /\ cur'[e] = cur[e]
             \/ e = d /\ (events' \/ d \notin watched)
  <2>1. CASE e # d
    BY <1>3, <2>1
  <2>2. CASE e = d /\ fresh[d] = {}
    BY <1>3, <2>2
  <2>3. CASE e = d /\ fresh[d] # {}
    BY <1>1, <2>3
  <2> QED
    BY <2>1, <2>2, <2>3
<1> QED
  BY <1>1, <1>2, <1>3, <1>5, <1>6, <1>7

(* What the workers promise about mail, a step of which every step of the worker is. *)
DirKept == [Dir!Store!Next]_<<[d \in Dirs |-> fresh[d] \cup cur[d]], dir_answer>>

(* Steps that leave the folders as they are and say that nothing happened. *)
LEMMA DirNothing ==
  ASSUME [d \in Dirs |-> fresh[d] \cup cur[d]]' = [d \in Dirs |-> fresh[d] \cup cur[d]],
         dir_answer' \in {dir_answer, Dir!Store!Nothing}
  PROVE  DirKept
<1>1. CASE dir_answer' = dir_answer
  BY <1>1 DEF DirKept
<1>2. CASE dir_answer' = Dir!Store!Nothing
  BY <1>2 DEF DirKept, Dir!Store!Next, Dir!Store!Unchanged
<1> QED
  BY <1>1, <1>2

(* Another program changes the folder d. *)
Becomes(d, f, c) ==
  /\ fresh' = [fresh EXCEPT ![d] = f] /\ cur' = [cur EXCEPT ![d] = c]
  /\ f \cap c = {}
  /\ \A e \in Dirs : e # d => (f \cup c) \cap (fresh[e] \cup cur[e]) = {}
  /\ \A e \in Dirs : e # d => cur[e] \ seen' = cur[e] \ seen

LEMMA DirForeignStep ==
  ASSUME DirIInv, NEW d \in Dirs, Dir!Foreign(d),
         NEW f \in SUBSET Keys, NEW c \in SUBSET Keys, Becomes(d, f, c),
         missed => missed',
         f # fresh[d] => missed' \/ opening.dir # d \/ d \in watched
  PROVE  DirIInv' /\ DirKept
<1> USE DEF DirIInv, Becomes
<1>1. /\ events' = (events \/ {d} \cap watched # {})
      /\ dir_answer' = Dir!Store!Answer("foreign", d, d, {})
      /\ selected' = selected /\ watched' = watched /\ timer' = timer /\ fired' = fired
      /\ info' = info /\ outdated' = outdated /\ opening' = opening
  BY DEF Dir!Foreign, Dir!Touch
<1>2. DirTypes'
  BY <1>1 DEF DirTypes
<1>3. \A e \in Dirs : /\ fresh'[e] = IF e = d THEN f ELSE fresh[e]
                      /\ cur'[e] = IF e = d THEN c ELSE cur[e]
  BY DEF DirTypes
<1>4. OnePlace'
  <2>1. \A e \in Dirs : fresh'[e] \cap cur'[e] = {}
    BY <1>3 DEF OnePlace
  <2>2. ASSUME NEW e1 \in Dirs, NEW e2 \in Dirs, e1 # e2
        PROVE  (fresh'[e1] \cup cur'[e1]) \cap (fresh'[e2] \cup cur'[e2]) = {}
    <3>1. CASE e1 = d
      BY <1>3, <2>2, <3>1
    <3>2. CASE e2 = d
      BY <1>3, <2>2, <3>2
    <3>3. CASE e1 # d /\ e2 # d
      BY <1>3, <2>2, <3>3 DEF OnePlace
    <3> QED
      BY <3>1, <3>2, <3>3
  <2> QED
    BY <2>1, <2>2 DEF OnePlace
<1>5. CountsDue'
  <2>1. CASE selected = d
    <3>1. CASE watched = {}
      <4>2. opening.unwatched
        BY ONLY DirIInv, <2>1, <3>1, DirsAssumption, d \in Dirs, Zenon DEF DirIInv, DirTypes
      <4>3. ~Dir!NoOpening.unwatched
        BY DEF Dir!NoOpening
      <4>1. opening # Dir!NoOpening
        BY ONLY <4>2, <4>3, Zenon
      <4> QED
        BY <1>1, <4>1 DEF CountsDue
    <3>2. CASE watched = {selected}
      BY <1>1, <2>1, <3>2 DEF CountsDue, Counting
    <3> QED
      BY <2>1, <3>1, <3>2 DEF DirTypes
  <2>2. CASE selected # d /\ selected # ""
    <3>1. /\ selected \in Dirs /\ fresh'[selected] = fresh[selected]
          /\ cur'[selected] = cur[selected] /\ cur'[selected] \ seen' = cur[selected] \ seen
      BY <1>3, <2>2 DEF DirTypes
    <3>2. CountsRight => CountsRight'
      BY <1>1, <3>1 DEF CountsRight
    <3> QED
      BY <1>1, <3>2 DEF CountsDue, Counting
  <2> QED
    BY <1>1, <2>1, <2>2 DEF CountsDue, Counting
<1>7. OpenDue'
  <2>1. CASE opening.dir = d /\ f # fresh[d]
    BY <1>1, <2>1 DEF OpenDue, Counting
  <2>2. CASE opening # Dir!NoOpening /\ (opening.dir # d \/ f = fresh[d])
    <3>1. opening.dir \in Dirs
      BY <2>2 DEF DirTypes
    <3>2. fresh'[opening.dir] = fresh[opening.dir]
      BY <1>3, <2>2, <3>1
    <3> QED
      BY <1>1, <3>2 DEF OpenDue, Counting
  <2> QED
    BY <1>1, <2>1, <2>2 DEF OpenDue
<1>6. DirKept
  <2>1. [e \in Dirs |-> fresh[e] \cup cur[e]]'
          = [[e \in Dirs |-> fresh[e] \cup cur[e]] EXCEPT ![d] = f \cup c]
    <3>1. [e \in Dirs |-> fresh[e] \cup cur[e]]'
            = [e \in Dirs |-> IF e = d THEN f \cup c ELSE fresh[e] \cup cur[e]]
      BY <1>3
    <3>2. [[e \in Dirs |-> fresh[e] \cup cur[e]] EXCEPT ![d] = f \cup c]
            = [e \in Dirs |-> IF e = d THEN f \cup c ELSE fresh[e] \cup cur[e]]
      OBVIOUS
    <3> QED
      BY <3>1, <3>2
  <2>2. f \cup c \in SUBSET Keys
    OBVIOUS
  <2>3. Dir!Store!Foreign(d)
    BY <1>1, <2>1, <2>2 DEF Dir!Store!Foreign
  <2> QED
    BY <2>3 DEF DirKept, Dir!Store!Next
<1> QED
  BY <1>2, <1>4, <1>5, <1>6, <1>7

LEMMA DeliverStep ==
  ASSUME DirIInv, NEW d \in Dirs, NEW k \in Keys, Dir!Deliver(d, k)
  PROVE  DirIInv' /\ DirKept
<1>1. /\ k \notin Dir!Used /\ Dir!Foreign(d) /\ cur' = cur /\ seen' = seen
      /\ fresh' = [fresh EXCEPT ![d] = @ \cup {k}]
      /\ missed' = (missed \/ (opening.dir = d /\ d \notin watched))
  BY DEF Dir!Deliver
<1>2. \A e \in Dirs : k \notin fresh[e] \cup cur[e]
  BY <1>1 DEF Dir!Used
<1>3. /\ fresh \in [Dirs -> SUBSET Keys] /\ cur \in [Dirs -> SUBSET Keys]
  BY DEF DirIInv, DirTypes
<1>4. /\ fresh' = [fresh EXCEPT ![d] = fresh[d] \cup {k}]
      /\ cur' = [cur EXCEPT ![d] = cur[d]]
  BY <1>1, <1>3
<1>5. /\ (fresh[d] \cup {k}) \cap cur[d] = {}
      /\ \A e \in Dirs : e # d => ((fresh[d] \cup {k}) \cup cur[d]) \cap (fresh[e] \cup cur[e]) = {}
  BY <1>2 DEF DirIInv, OnePlace
<1>6. PICK f \in SUBSET Keys, c \in SUBSET Keys : f = fresh[d] \cup {k} /\ c = cur[d]
  BY <1>3
<1>7. \A e \in Dirs : e # d => cur[e] \ seen' = cur[e] \ seen
  BY <1>1
<1>8. Becomes(d, f, c)
  BY <1>1, <1>4, <1>5, <1>6, <1>7 DEF Becomes
<1> QED
  BY <1>1, <1>6, <1>8, DirForeignStep

LEMMA ForeignSeenStep ==
  ASSUME DirIInv, NEW d \in Dirs, NEW k \in Keys, Dir!ForeignSeen(d, k)
  PROVE  DirIInv' /\ DirKept
<1>1. /\ k \in cur[d] /\ Dir!Foreign(d) /\ cur' = cur /\ fresh' = fresh
      /\ seen' = seen \cup {k}
      /\ missed' = missed
  BY DEF Dir!ForeignSeen
<1>2. /\ fresh \in [Dirs -> SUBSET Keys] /\ cur \in [Dirs -> SUBSET Keys]
  BY DEF DirIInv, DirTypes
<1>3. /\ fresh' = [fresh EXCEPT ![d] = fresh[d]] /\ cur' = [cur EXCEPT ![d] = cur[d]]
  BY <1>1, <1>2
<1>a. PICK f \in SUBSET Keys, c \in SUBSET Keys : f = fresh[d] /\ c = cur[d]
  BY <1>2
<1>4. \A e \in Dirs : e # d => (fresh[d] \cup cur[d]) \cap (fresh[e] \cup cur[e]) = {}
  BY DEF DirIInv, OnePlace
<1>5. \A e \in Dirs : e # d => cur[e] \ seen' = cur[e] \ seen
  BY <1>1, <1>4
<1>6. fresh[d] \cap cur[d] = {}
  BY DEF DirIInv, OnePlace
<1>8. Becomes(d, f, c)
  BY <1>1, <1>3, <1>a, <1>4, <1>5, <1>6 DEF Becomes
<1> QED
  BY <1>1, <1>a, <1>8, DirForeignStep

LEMMA ForeignRemoveStep ==
  ASSUME DirIInv, NEW d \in Dirs, NEW k \in Keys, Dir!ForeignRemove(d, k)
  PROVE  DirIInv' /\ DirKept
<1>1. /\ k \in cur[d] /\ Dir!Foreign(d) /\ fresh' = fresh
      /\ cur' = [cur EXCEPT ![d] = @ \ {k}] /\ seen' = seen \ {k} /\ missed' = missed
  BY DEF Dir!ForeignRemove
<1>2. /\ fresh \in [Dirs -> SUBSET Keys] /\ cur \in [Dirs -> SUBSET Keys]
  BY DEF DirIInv, DirTypes
<1>3. /\ fresh' = [fresh EXCEPT ![d] = fresh[d]] /\ cur' = [cur EXCEPT ![d] = cur[d] \ {k}]
  BY <1>1, <1>2
<1>a. PICK f \in SUBSET Keys, c \in SUBSET Keys : f = fresh[d] /\ c = cur[d] \ {k}
  BY <1>2
<1>4. \A e \in Dirs : e # d => (fresh[d] \cup cur[d]) \cap (fresh[e] \cup cur[e]) = {}
  BY DEF DirIInv, OnePlace
<1>5. \A e \in Dirs : e # d => /\ cur[e] \ seen' = cur[e] \ seen
                               /\ (fresh[d] \cup (cur[d] \ {k})) \cap (fresh[e] \cup cur[e]) = {}
  BY <1>1, <1>4
<1>6. fresh[d] \cap (cur[d] \ {k}) = {}
  BY DEF DirIInv, OnePlace
<1>8. Becomes(d, f, c)
  BY <1>1, <1>3, <1>a, <1>5, <1>6 DEF Becomes
<1> QED
  BY <1>1, <1>a, <1>8, DirForeignStep

(* What Counts tells. *)
LEMMA CountsFields ==
  \A c, s, r, d : /\ Dir!Counts(c, s, r, d).exists = Dir!Cardinality(c[d])
                  /\ Dir!Counts(c, s, r, d).unseen = Dir!Cardinality(c[d] \ s)
BY DEF Dir!Counts

(* Steps next to an opening. *)
LEMMA OpenDueKept ==
  ASSUME DirIInv, opening' = opening, missed' = missed, Counting => Counting',
         \A e \in Dirs : fresh'[e] \in {fresh[e], {}}
  PROVE  OpenDue'
<1>1. opening # Dir!NoOpening => opening.dir \in Dirs
  BY DEF DirIInv, DirTypes
<1> QED
  BY <1>1 DEF DirIInv, OpenDue

(* The handler of a command runs while no folder is being opened. *)
LEMMA CommandFree ==
  ASSUME DirIInv, Dir!Command
  PROVE  /\ opening = Dir!NoOpening
         /\ \/ selected = "" /\ watched = {}
            \/ selected \in Dirs /\ watched = {selected}
         /\ opening' = opening => OpenDue'
BY DEF DirIInv, DirTypes, OpenDue, Dir!Command, Dir!Free, Dir!NoOpening

LEMMA HandleFSEventStep ==
  ASSUME DirIInv, Dir!handleFSEvent
  PROVE  DirIInv' /\ DirKept
<1> USE DEF DirIInv
<1>1. /\ fired > 0 /\ fired' = fired - 1 /\ dir_answer' = Dir!Store!Nothing
      /\ seen' = seen /\ selected' = selected /\ watched' = watched
      /\ opening = Dir!NoOpening /\ opening' = opening
  BY DEF Dir!handleFSEvent, Dir!Free
<1>a. fired \in Nat
  BY DEF DirTypes
<1>2. fired' \in Nat
  BY <1>1, <1>a
<1>o. OpenDue'
  BY <1>1 DEF OpenDue
<1>3. CASE selected = ""
  <2>1. fresh' = fresh /\ cur' = cur /\ info' = info
    BY <1>3 DEF Dir!handleFSEvent
  <2>2. DirIInv'
    BY <1>1, <1>2, <1>3, <1>o, <2>1 DEF DirTypes, OnePlace, CountsDue
  <2>3. DirKept
    BY <1>1, <2>1, DirNothing
  <2> QED
    BY <2>2, <2>3
<1>4. CASE selected # ""
  <2>1. /\ selected \in Dirs
        /\ Dir!SyncNewMail(selected)
        /\ info' = [info EXCEPT ![selected] = Dir!Counts(cur', seen, recent', selected)]
    BY <1>4 DEF Dir!handleFSEvent, DirTypes
  <2>2. /\ fresh' \in [Dirs -> SUBSET Keys] /\ cur' \in [Dirs -> SUBSET Keys]
        /\ OnePlace'
        /\ [e \in Dirs |-> fresh[e] \cup cur[e]]' = [e \in Dirs |-> fresh[e] \cup cur[e]]
        /\ fresh'[selected] = {}
    BY <2>1, SyncStep
  <2>3. info' = [e \in Dirs |-> IF e = selected THEN Dir!Counts(cur', seen, recent', selected)
                                ELSE info[e]]
    BY <2>1 DEF DirTypes
  <2>4. DirTypes'
    BY <1>1, <1>2, <2>2, <2>3 DEF DirTypes
  <2>5. CountsRight'
    <3>1. info'[selected] = Dir!Counts(cur', seen, recent', selected)
      BY <2>1, <2>3
    <3> QED
      BY <1>1, <2>2, <3>1, CountsFields DEF CountsRight
  <2> QED
    BY <1>1, <1>o, <2>2, <2>4, <2>5, DirNothing DEF CountsDue
<1> QED
  BY <1>3, <1>4

LEMMA OpenDirectoryStep ==
  ASSUME DirIInv, NEW d \in Dirs, Dir!OpenDirectory(d)
  PROVE  DirIInv' /\ DirKept
<1> USE DEF DirIInv
<1>1. /\ opening = Dir!NoOpening /\ opening' = [dir |-> d, unwatched |-> FALSE]
      /\ Dir!SyncNewMail(d) /\ dir_answer' = Dir!Store!Nothing
      /\ selected' = selected /\ watched' = watched /\ fired' = fired /\ info' = info
  BY DEF Dir!OpenDirectory, Dir!Command, Dir!Free
<1>2. /\ fresh' \in [Dirs -> SUBSET Keys] /\ cur' \in [Dirs -> SUBSET Keys]
      /\ OnePlace' /\ fresh'[d] = {}
      /\ [e \in Dirs |-> fresh[e] \cup cur[e]]' = [e \in Dirs |-> fresh[e] \cup cur[e]]
  BY <1>1, SyncStep
<1>3. DirTypes'
  BY <1>1, <1>2 DEF DirTypes, Dir!NoOpening
<1>4. opening' # Dir!NoOpening /\ opening'.dir = d
  BY <1>1, DirsAssumption DEF Dir!NoOpening
<1>5. CountsDue' /\ OpenDue'
  BY <1>2, <1>4 DEF CountsDue, OpenDue
<1> QED
  BY <1>1, <1>2, <1>3, <1>5, DirNothing

LEMMA OpenUnwatchesStep ==
  ASSUME DirIInv, NEW d \in Dirs, Dir!OpenUnwatches(d)
  PROVE  DirIInv' /\ DirKept
<1> USE DEF DirIInv
<1>1. /\ opening = [dir |-> d, unwatched |-> FALSE] /\ opening' = [dir |-> d, unwatched |-> TRUE]
      /\ selected' = d /\ watched' = {} /\ missed' = missed
      /\ fresh' = fresh /\ cur' = cur /\ seen' = seen /\ info' = info
      /\ events' = events /\ timer' = timer /\ fired' = fired /\ dir_answer' = dir_answer
  BY DEF Dir!OpenUnwatches
<1>2. opening # Dir!NoOpening /\ opening' # Dir!NoOpening /\ opening'.dir = opening.dir
  BY <1>1, DirsAssumption DEF Dir!NoOpening
<1>3. DirTypes' /\ OnePlace'
  BY <1>1 DEF DirTypes, OnePlace
<1>4. CountsDue' /\ OpenDue'
  BY <1>1, <1>2 DEF CountsDue, OpenDue, Counting
<1>5. [e \in Dirs |-> fresh[e] \cup cur[e]]' = [e \in Dirs |-> fresh[e] \cup cur[e]]
  BY <1>1
<1> QED
  BY <1>1, <1>3, <1>4, <1>5, DirNothing

LEMMA OpenWatchesStep ==
  ASSUME DirIInv, NEW d \in Dirs, Dir!OpenWatches(d)
  PROVE  DirIInv' /\ DirKept
<1> USE DEF DirIInv
<1>1. /\ opening = [dir |-> d, unwatched |-> TRUE] /\ opening' = Dir!NoOpening
      /\ selected' = selected /\ watched' = {d} /\ missed' = missed
      /\ info' = [info EXCEPT ![d] = Dir!Counts(cur, seen, recent, d)]
      /\ fresh' = fresh /\ cur' = cur /\ seen' = seen
      /\ events' = events /\ timer' = timer /\ fired' = fired /\ dir_answer' = dir_answer
  BY DEF Dir!OpenWatches
<1>2. opening # Dir!NoOpening /\ opening.dir = d /\ ~opening'.unwatched /\ selected = d
  BY <1>1, DirsAssumption DEF Dir!NoOpening, DirTypes
<1>3. info' = [e \in Dirs |-> IF e = d THEN Dir!Counts(cur, seen, recent, d) ELSE info[e]]
  BY <1>1 DEF DirTypes
<1>4. DirTypes' /\ OnePlace'
  BY <1>1, <1>2, <1>3 DEF DirTypes, OnePlace
<1>5. Counting' \/ missed' \/ fresh'[selected'] = {}
  BY <1>1, <1>2 DEF OpenDue, Counting
<1>6. fresh'[selected'] = {} => CountsRight'
  <2>1. info'[d] = Dir!Counts(cur, seen, recent, d)
    BY <1>3
  <2> QED
    BY <1>1, <1>2, <2>1, CountsFields DEF CountsRight
<1>7. CountsDue' /\ OpenDue'
  BY <1>1, <1>5, <1>6 DEF CountsDue, OpenDue
<1>8. [e \in Dirs |-> fresh[e] \cup cur[e]]' = [e \in Dirs |-> fresh[e] \cup cur[e]]
  BY <1>1
<1> QED
  BY <1>1, <1>4, <1>7, <1>8, DirNothing

LEMMA CheckSyncsStep ==
  ASSUME DirIInv, NEW d \in Dirs, Dir!CheckSyncs(d)
  PROVE  DirIInv' /\ DirKept
<1> USE DEF DirIInv
<1>1. /\ Dir!SyncNewMail(d) /\ seen' = seen /\ selected' = selected /\ watched' = watched
      /\ timer' = timer /\ fired' = fired /\ info' = info /\ outdated' = outdated
      /\ dir_answer' = Dir!Store!Nothing /\ opening' = opening /\ missed' = missed
  BY DEF Dir!CheckSyncs, Dir!openState
<1>2. /\ fresh' \in [Dirs -> SUBSET Keys] /\ cur' \in [Dirs -> SUBSET Keys]
      /\ OnePlace'
      /\ [e \in Dirs |-> fresh[e] \cup cur[e]]' = [e \in Dirs |-> fresh[e] \cup cur[e]]
      /\ events => events' /\ fresh'[d] = {}
      /\ \A e \in Dirs : \/ fresh'[e] = fresh[e] /\ cur'[e] = cur[e]
                         \/ e = d /\ (events' \/ d \notin watched)
  BY <1>1, SyncStep
<1>3. DirTypes'
  BY <1>1, <1>2 DEF DirTypes
<1>4. CountsDue'
  <2>1. CASE selected = "" \/ events' \/ timer \/ fired > 0 \/ outdated \/ missed
             \/ opening # Dir!NoOpening
    BY <1>1, <2>1 DEF CountsDue, Counting
  <2>2. CASE selected # "" /\ ~events' /\ CountsRight /\ opening = Dir!NoOpening
    <3>1. selected \in Dirs /\ watched = {selected}
      BY <2>2 DEF DirTypes, Dir!NoOpening
    <3>2. fresh'[selected] = fresh[selected] /\ cur'[selected] = cur[selected]
      BY <1>2, <2>2, <3>1
    <3> QED
      BY <1>1, <2>2, <3>2 DEF CountsDue, CountsRight
  <2>3. CASE events
    BY <1>2, <2>1, <2>3
  <2> QED
    BY <2>1, <2>2, <2>3, Zenon DEF CountsDue, Counting
<1>5. DirKept
  BY <1>1, <1>2, DirNothing
<1>6. OpenDue'
  <2>1. Counting => Counting'
    BY <1>1, <1>2 DEF Counting
  <2>2. \A e \in Dirs : fresh'[e] \in {fresh[e], {}}
    <3>1. fresh' = [fresh EXCEPT ![d] = {}]
      BY <1>1 DEF Dir!SyncNewMail
    <3> QED
      BY <3>1 DEF DirTypes
  <2>3. opening' = opening /\ missed' = missed
    BY <1>1
  <2> HIDE DEF DirIInv
  <2> QED
    BY <2>1, <2>2, <2>3, OpenDueKept, Zenon
<1> QED
  BY <1>2, <1>3, <1>4, <1>5, <1>6

LEMMA CheckPostsStep ==
  ASSUME DirIInv, NEW d \in Dirs, Dir!CheckPosts(d)
  PROVE  DirIInv' /\ DirKept
<1> USE DEF DirIInv
<1>1. /\ info' = [info EXCEPT ![d] = check.counts]
      /\ outdated' = (outdated \/ check.counts # Dir!Counts(cur, seen, recent, d))
      /\ fresh' = fresh /\ cur' = cur /\ seen' = seen /\ selected' = selected
      /\ watched' = watched /\ events' = events /\ timer' = timer /\ fired' = fired
      /\ dir_answer' = dir_answer /\ opening' = opening /\ missed' = missed
  BY DEF Dir!CheckPosts, Dir!openState
<1>2. info' = [e \in Dirs |-> IF e = d THEN check.counts ELSE info[e]]
  BY <1>1 DEF DirTypes
<1>3. DirTypes' /\ OnePlace'
  BY <1>1, <1>2 DEF DirTypes, OnePlace
<1>4. CountsDue'
  <2>1. CASE selected = "" \/ events \/ timer \/ fired > 0 \/ outdated' \/ missed
             \/ opening # Dir!NoOpening
    BY <1>1, <2>1 DEF CountsDue, Counting
  <2>2. CASE selected # "" /\ ~outdated' /\ CountsRight
    <3>1. selected \in Dirs /\ check.counts = Dir!Counts(cur, seen, recent, d)
      BY <1>1, <2>2 DEF DirTypes
    <3>2. info'[selected] = IF selected = d THEN Dir!Counts(cur, seen, recent, selected)
                            ELSE info[selected]
      BY <1>2, <3>1
    <3>3. info'[selected].exists = Dir!Cardinality(cur[selected])
          /\ info'[selected].unseen = Dir!Cardinality(cur[selected] \ seen)
      <4>1. CASE selected = d
        BY <3>2, <4>1 DEF Dir!Counts
      <4>2. CASE selected # d
        BY <2>2, <3>2, <4>2 DEF CountsRight
      <4> QED
        BY <4>1, <4>2
    <3> QED
      BY <1>1, <2>2, <3>3 DEF CountsDue, CountsRight
  <2> QED
    BY <1>1, <2>1, <2>2 DEF CountsDue, Counting
<1>5. DirKept
  BY <1>1, DirNothing
<1>6. OpenDue'
  BY <1>1, OpenDueKept DEF Counting
<1> QED
  BY <1>3, <1>4, <1>5, <1>6

LEMMA ListDirectoriesStep ==
  ASSUME DirIInv, Dir!ListDirectories
  PROVE  DirIInv' /\ DirKept
<1> USE DEF DirIInv
<1>1. /\ fresh' = [d \in Dirs |-> {}]
      /\ cur' = [d \in Dirs |-> cur[d] \cup fresh[d]]
      /\ info' = [d \in Dirs |-> Dir!Counts(cur', seen, recent', d)]
      /\ seen' = seen /\ selected' = selected /\ watched' = watched /\ fired' = fired
      /\ dir_answer' = Dir!Store!Nothing /\ opening' = opening /\ Dir!Command
  BY DEF Dir!ListDirectories
<1>2. DirTypes' /\ OnePlace'
  BY <1>1 DEF DirTypes, OnePlace
<1>3. [e \in Dirs |-> fresh[e] \cup cur[e]]' = [e \in Dirs |-> fresh[e] \cup cur[e]]
  BY <1>1
<1>4. ASSUME selected # "" PROVE CountsRight'
  <2>1. selected \in Dirs
    BY <1>4 DEF DirTypes
  <2>2. info'[selected] = Dir!Counts(cur', seen, recent', selected) /\ fresh'[selected] = {}
    BY <1>1, <2>1
  <2>3. /\ info'[selected].exists = Dir!Cardinality(cur'[selected])
        /\ info'[selected].unseen = Dir!Cardinality(cur'[selected] \ seen)
    BY <2>2 DEF Dir!Counts
  <2> QED
    BY <1>1, <2>2, <2>3 DEF CountsRight
<1> QED
  BY <1>1, <1>2, <1>3, <1>4, DirNothing, CommandFree DEF CountsDue

(* Steps that touch no file. *)
LEMMA DirQuietStep ==
  ASSUME DirIInv,
         fresh' = fresh, cur' = cur, seen' = seen, info' = info,
         UNCHANGED Dir!openState, outdated' = outdated, fired' \in Nat,
         Counting => Counting',
         dir_answer' \in {dir_answer, Dir!Store!Nothing}
  PROVE  DirIInv' /\ DirKept
<1> USE DEF DirIInv, Dir!openState
<1>1. DirTypes' /\ OnePlace'
  BY DEF DirTypes, OnePlace
<1>2. CountsRight => CountsRight'
  BY DEF CountsRight
<1>3. CountsDue'
  BY <1>2 DEF CountsDue
<1>4. [d \in Dirs |-> fresh[d] \cup cur[d]]' = [d \in Dirs |-> fresh[d] \cup cur[d]]
  OBVIOUS
<1>5. DirKept
  BY <1>4, DirNothing
<1>6. OpenDue'
  BY OpenDueKept
<1> QED
  BY <1>1, <1>3, <1>5, <1>6

LEMMA DirQuietSteps ==
  ASSUME DirIInv,
         \/ Dir!ReceiveEvent \/ Dir!DebounceFires \/ Dir!CheckMail \/ UNCHANGED Dir!vars
         \/ \E d, S : Dir!FetchMessageHeaders(d, S)
  PROVE  DirIInv' /\ DirKept
<1>a. fired \in Nat
  BY DEF DirIInv, DirTypes
<1>1. CASE Dir!ReceiveEvent
  BY <1>a, <1>1, DirQuietStep DEF Dir!ReceiveEvent, Counting
<1>2. CASE Dir!DebounceFires
  <2>1. fired' = fired + 1
    BY <1>2 DEF Dir!DebounceFires
  <2>2. fired' \in Nat /\ fired' > 0
    BY <1>a, <2>1
  <2> QED
    BY <1>2, <2>2, DirQuietStep DEF Dir!DebounceFires, Counting
<1>3. CASE Dir!CheckMail
  BY <1>a, <1>3, DirQuietStep DEF Dir!CheckMail, Counting
<1>4. CASE UNCHANGED Dir!vars
  BY <1>a, <1>4, DirQuietStep DEF Dir!vars, Counting
<1>5. ASSUME NEW d, NEW S, Dir!FetchMessageHeaders(d, S) PROVE DirIInv' /\ DirKept
  BY <1>a, <1>5, DirQuietStep DEF Dir!FetchMessageHeaders, Counting
<1> QED
  BY <1>1, <1>2, <1>3, <1>4, <1>5

(* The files of the selected folder are as they were, or the worker has been told. *)
LEMMA CountsStep ==
  ASSUME DirIInv, timer' = timer, fired' = fired, outdated' = outdated,
         UNCHANGED Dir!openState,
         events => events',
         \/ selected = "" \/ events'
         \/ /\ fresh'[selected] = fresh[selected] /\ cur'[selected] = cur[selected]
            /\ cur'[selected] \ seen' = cur[selected] \ seen
            /\ info'[selected] = info[selected]
  PROVE  CountsDue'
<1>1. CASE selected = "" \/ events' \/ timer \/ fired > 0 \/ outdated \/ missed
           \/ opening # Dir!NoOpening
  BY <1>1 DEF CountsDue, Counting, Dir!openState
<1>2. CASE selected # "" /\ ~events' /\ CountsRight
  BY <1>2 DEF CountsDue, CountsRight, Dir!openState
<1> QED
  BY <1>1, <1>2 DEF DirIInv, CountsDue, Counting

LEMMA FlagMessagesStep ==
  ASSUME DirIInv, selected \in Dirs, NEW S, NEW T, NEW enable,
         Dir!FlagMessages(selected, S, T, enable)
  PROVE  DirIInv' /\ DirKept
<1>1. /\ info' = IF T = S THEN [info EXCEPT ![selected] = Dir!Counts(cur, seen', recent, selected)]
                 ELSE info
      /\ events' = (events \/ (IF seen' = seen THEN {} ELSE {selected}) \cap watched # {})
      /\ fresh' = fresh /\ cur' = cur /\ UNCHANGED Dir!openState /\ Dir!Command
      /\ timer' = timer /\ fired' = fired /\ outdated' = outdated
      /\ dir_answer' = Dir!Store!Nothing
  BY DEF Dir!FlagMessages, Dir!Touch
<1>2. selected \in Dirs /\ watched = {selected} /\ info = [d \in Dirs |-> info[d]]
  BY <1>1, CommandFree, DirsAssumption DEF DirIInv, DirTypes
<1>3. info' = [d \in Dirs |-> IF d = selected /\ T = S
                              THEN Dir!Counts(cur, seen', recent, selected) ELSE info[d]]
  BY <1>1, <1>2
<1>4. DirTypes' /\ OnePlace'
  BY <1>1, <1>3 DEF DirIInv, DirTypes, OnePlace, Dir!openState
<1>5. CountsDue'
  <2>1. CASE events'
    BY <2>1 DEF CountsDue, Counting
  <2>2. CASE ~events' /\ T # S
    <3>1. seen' = seen /\ info' = info
      BY <1>1, <1>2, <2>2
    <3> QED
      BY <1>1, <3>1, CountsStep
  <2>3. CASE ~events' /\ T = S
    <3>1. CASE timer \/ fired > 0 \/ outdated \/ missed
      BY <1>1, <3>1 DEF CountsDue, Counting, Dir!openState
    <3>2. CASE CountsRight
      <4>1. info'[selected] = Dir!Counts(cur, seen', recent, selected)
        BY <1>2, <1>3, <2>3
      <4>2. info'[selected].exists = Dir!Cardinality(cur[selected])
        BY <4>1, CountsFields
      <4>3. info'[selected].unseen = Dir!Cardinality(cur[selected] \ seen')
        BY <4>1, CountsFields
      <4> QED
        BY <1>1, <3>2, <4>2, <4>3 DEF CountsRight, CountsDue, Counting, Dir!openState
    <3> QED
      BY <1>1, <2>3, <3>1, <3>2, CommandFree DEF DirIInv, CountsDue, Counting, Dir!openState
  <2> QED
    BY <2>1, <2>2, <2>3
<1>6. [d \in Dirs |-> fresh[d] \cup cur[d]]' = [d \in Dirs |-> fresh[d] \cup cur[d]]
  BY <1>1
<1>7. DirKept
  BY <1>1, <1>6, DirNothing
<1>8. OpenDue'
  BY <1>1, CommandFree DEF Dir!openState
<1> QED
  BY <1>4, <1>5, <1>7, <1>8 DEF DirIInv

LEMMA DeleteMessagesStep ==
  ASSUME DirIInv, selected # "", NEW S \in SUBSET Keys, NEW T \in SUBSET S,
         Dir!DeleteMessages(selected, S, T)
  PROVE  DirIInv' /\ DirKept
<1>1. /\ T \subseteq cur[selected]
      /\ cur' = [cur EXCEPT ![selected] = @ \ T] /\ seen' = seen \ T
      /\ events' = (events \/ (IF T = {} THEN {} ELSE {selected}) \cap watched # {})
      /\ dir_answer' = Dir!Store!Answer("deleted", selected, selected, T)
      /\ fresh' = fresh /\ info' = info /\ UNCHANGED Dir!openState /\ Dir!Command
      /\ timer' = timer /\ fired' = fired /\ outdated' = outdated
  BY DEF Dir!DeleteMessages, Dir!Touch
<1>2. /\ selected \in Dirs /\ watched = {selected}
      /\ fresh \in [Dirs -> SUBSET Keys] /\ cur \in [Dirs -> SUBSET Keys]
  BY <1>1, CommandFree DEF DirIInv, DirTypes
<1>3. cur' = [d \in Dirs |-> IF d = selected THEN cur[d] \ T ELSE cur[d]]
  BY <1>1, <1>2
<1>4. DirTypes'
  BY <1>1, <1>2, <1>3 DEF DirIInv, DirTypes, Dir!openState
<1>5. OnePlace'
  BY <1>1, <1>3 DEF DirIInv, OnePlace
<1>6. CountsDue'
  <2>1. CASE T # {}
    BY <1>1, <1>2, <2>1 DEF CountsDue, Counting
  <2>2. CASE T = {}
    <3>1. cur'[selected] = cur[selected] /\ seen' = seen
      BY <1>1, <1>2, <1>3, <2>2
    <3> QED
      BY <1>1, <3>1, CountsStep
  <2> QED
    BY <2>1, <2>2
<1>7. DirKept
  <2>1. fresh[selected] \cap cur[selected] = {}
    BY <1>2 DEF DirIInv, OnePlace
  <2>2. [d \in Dirs |-> fresh[d] \cup cur[d]]'
          = [d \in Dirs |-> IF d = selected THEN (fresh[d] \cup cur[d]) \ T
                            ELSE fresh[d] \cup cur[d]]
    BY <1>1, <1>3, <2>1
  <2>3. [[d \in Dirs |-> fresh[d] \cup cur[d]] EXCEPT ![selected] = @ \ T]
          = [d \in Dirs |-> IF d = selected THEN (fresh[d] \cup cur[d]) \ T
                            ELSE fresh[d] \cup cur[d]]
    OBVIOUS
  <2>4. T \subseteq [d \in Dirs |-> fresh[d] \cup cur[d]][selected]
    BY <1>1, <1>2
  <2>5. Dir!Store!Deleted(selected, T)
    BY <1>1, <2>2, <2>3, <2>4 DEF Dir!Store!Deleted
  <2> QED
    BY <1>2, <2>5 DEF DirKept, Dir!Store!Next
<1>8. OpenDue'
  BY <1>1, CommandFree DEF Dir!openState
<1> QED
  BY <1>4, <1>5, <1>6, <1>7, <1>8 DEF DirIInv

LEMMA MoveMessagesStep ==
  ASSUME DirIInv, selected # "", NEW e \in Dirs, NEW S \in SUBSET Keys, NEW T \in SUBSET S,
         Dir!MoveMessages(selected, e, S, T)
  PROVE  DirIInv' /\ DirKept
<1>1. /\ T \subseteq cur[selected]
      /\ cur' = IF selected = e THEN cur
                ELSE [cur EXCEPT ![selected] = @ \ T, ![e] = @ \cup T]
      /\ events' = (events \/ (IF T = {} \/ selected = e THEN {} ELSE {selected, e}) \cap watched # {})
      /\ dir_answer' = Dir!Store!Answer("moved", selected, e, T)
      /\ fresh' = fresh /\ info' = info /\ seen' = seen /\ UNCHANGED Dir!openState
      /\ Dir!Command /\ timer' = timer /\ fired' = fired /\ outdated' = outdated
  BY DEF Dir!MoveMessages, Dir!Touch
<1>2. /\ selected \in Dirs /\ watched = {selected}
      /\ fresh \in [Dirs -> SUBSET Keys] /\ cur \in [Dirs -> SUBSET Keys]
  BY <1>1, CommandFree DEF DirIInv, DirTypes
<1>3. cur' = [d \in Dirs |-> IF d = selected /\ d # e THEN cur[d] \ T
                             ELSE IF d = e THEN cur[d] \cup T ELSE cur[d]]
  <2>1. CASE selected = e
    BY <1>1, <1>2, <2>1
  <2>2. CASE selected # e
    BY <1>1, <1>2, <2>2
  <2> QED
    BY <2>1, <2>2
<1>a. T \in SUBSET Keys
  OBVIOUS
<1>4. DirTypes'
  <2>1. cur' \in [Dirs -> SUBSET Keys]
    BY <1>2, <1>3, <1>a
  <2> QED
    BY <1>1, <2>1 DEF DirIInv, DirTypes, Dir!openState
<1>5. OnePlace'
  <2>1. \A d \in Dirs : \A x : x \in cur'[d] => x \in cur[d] \/ (d = e /\ x \in T)
    BY <1>2, <1>3
  <2>2. \A d1, d2 \in Dirs : d1 # d2 => (fresh[d1] \cup cur[d1]) \cap (fresh[d2] \cup cur[d2]) = {}
    BY DEF DirIInv, OnePlace
  <2>3. \A d \in Dirs : fresh[d] \cap cur[d] = {}
    BY DEF DirIInv, OnePlace
  <2>4. ASSUME NEW d \in Dirs PROVE fresh'[d] \cap cur'[d] = {}
    BY <1>1, <1>2, <2>1, <2>2, <2>3
  <2>5. ASSUME NEW d1 \in Dirs, NEW d2 \in Dirs, d1 # d2, NEW x,
               x \in fresh[d1] \cup cur'[d1], x \in fresh[d2] \cup cur'[d2]
        PROVE  FALSE
    <3>1. x \in fresh[d1] \cup cur[d1] \/ (d1 = e /\ x \in T)
      BY <2>1, <2>5
    <3>2. x \in fresh[d2] \cup cur[d2] \/ (d2 = e /\ x \in T)
      BY <2>1, <2>5
    <3>3. CASE x \in T /\ selected # e
      <4>1. x \notin fresh[selected] /\ x \in cur[selected]
        BY <1>1, <1>2, <2>3, <3>3
      <4>2. \A d \in Dirs : d # selected => x \notin fresh[d] /\ x \notin cur[d]
        BY <1>2, <2>2, <4>1
      <4>3. \A d \in Dirs : d # e => x \notin cur'[d]
        BY <1>2, <1>3, <3>3, <4>2
      <4> QED
        BY <2>5, <4>1, <4>2, <4>3
    <3>4. CASE x \notin T \/ selected = e
      <4>1. x \in T => selected = e /\ x \in cur[e]
        BY <1>1, <3>4
      <4> QED
        BY <2>2, <2>5, <3>1, <3>2, <4>1
    <3> QED
      BY <3>3, <3>4
  <2>6. \A d1, d2 \in Dirs : d1 # d2 => (fresh'[d1] \cup cur'[d1]) \cap (fresh'[d2] \cup cur'[d2]) = {}
    BY <1>1, <2>5
  <2> QED
    BY <2>4, <2>6 DEF OnePlace
<1>6. CountsDue'
  <2>1. CASE T # {} /\ selected # e
    BY <1>1, <1>2, <2>1 DEF CountsDue, Counting
  <2>2. CASE T = {} \/ selected = e
    <3>1. cur'[selected] = cur[selected]
      BY <1>1, <1>2, <1>3, <2>2
    <3> QED
      BY <1>1, <3>1, CountsStep
  <2> QED
    BY <2>1, <2>2
<1>7. DirKept
  <2> DEFINE mail == [d \in Dirs |-> fresh[d] \cup cur[d]]
  <2>1. fresh[selected] \cap cur[selected] = {}
    BY <1>2 DEF DirIInv, OnePlace
  <2>2. mail' = IF selected = e THEN mail ELSE [mail EXCEPT ![selected] = @ \ T, ![e] = @ \cup T]
    <3>1. CASE selected = e
      BY <1>1, <3>1
    <3>2. CASE selected # e
      <4>1. mail' = [d \in Dirs |-> IF d = selected THEN (fresh[d] \cup cur[d]) \ T
                                    ELSE IF d = e THEN (fresh[d] \cup cur[d]) \cup T
                                    ELSE fresh[d] \cup cur[d]]
        BY <1>1, <1>3, <2>1, <3>2
      <4>2. [mail EXCEPT ![selected] = @ \ T, ![e] = @ \cup T]
              = [d \in Dirs |-> IF d = selected THEN (fresh[d] \cup cur[d]) \ T
                                ELSE IF d = e THEN (fresh[d] \cup cur[d]) \cup T
                                ELSE fresh[d] \cup cur[d]]
        BY <1>2, <3>2
      <4> QED
        BY <3>2, <4>1, <4>2
    <3> QED
      BY <3>1, <3>2
  <2>3. T \subseteq mail[selected]
    BY <1>1, <1>2
  <2>4. Dir!Store!Moved(selected, e, T)
    BY <1>1, <2>2, <2>3 DEF Dir!Store!Moved
  <2> QED
    BY <1>2, <1>a, <2>4 DEF DirKept, Dir!Store!Next
<1>8. OpenDue'
  BY <1>1, CommandFree DEF Dir!openState
<1> QED
  BY <1>4, <1>5, <1>6, <1>7, <1>8 DEF DirIInv

LEMMA AddMessageStep ==
  ASSUME DirIInv, NEW e \in Dirs, NEW k \in Keys, NEW append, Dir!AddMessage(e, k, append)
  PROVE  DirIInv' /\ DirKept
<1>1. /\ k \notin Dir!Used
      /\ cur' = [cur EXCEPT ![e] = @ \cup {k}]
      /\ events' = (events \/ {e} \cap watched # {})
      /\ info' = IF append THEN [info EXCEPT ![e] = Dir!Counts(cur', seen, recent, e)] ELSE info
      /\ dir_answer' = Dir!Store!Answer("added", e, e, {k})
      /\ fresh' = fresh /\ seen' = seen /\ UNCHANGED Dir!openState
      /\ Dir!Command /\ timer' = timer /\ fired' = fired /\ outdated' = outdated
  BY DEF Dir!AddMessage, Dir!Touch
<1>2. /\ fresh \in [Dirs -> SUBSET Keys] /\ cur \in [Dirs -> SUBSET Keys]
      /\ info = [d \in Dirs |-> info[d]]
      /\ \/ selected = "" /\ watched = {}
         \/ selected \in Dirs /\ watched = {selected}
  BY <1>1, CommandFree DEF DirIInv, DirTypes
<1>3. cur' = [d \in Dirs |-> IF d = e THEN cur[d] \cup {k} ELSE cur[d]]
  BY <1>1, <1>2
<1>a. info' = [d \in Dirs |-> IF append /\ d = e THEN Dir!Counts(cur', seen, recent, e) ELSE info[d]]
  BY <1>1, <1>2
<1>4. DirTypes'
  <2>1. cur' \in [Dirs -> SUBSET Keys] /\ info' = [d \in Dirs |-> info'[d]]
    BY <1>2, <1>3, <1>a
  <2> QED
    BY <1>1, <2>1 DEF DirIInv, DirTypes, Dir!openState
<1>b. \A d \in Dirs : k \notin fresh[d] /\ k \notin cur[d]
  BY <1>1 DEF Dir!Used
<1>5. OnePlace'
  BY <1>1, <1>3, <1>b DEF DirIInv, OnePlace
<1>6. CountsDue'
  <2>1. CASE selected = e
    BY <1>1, <1>2, <2>1, DirsAssumption DEF CountsDue, Counting
  <2>2. CASE selected # e
    <3>1. \/ selected = ""
          \/ /\ cur'[selected] = cur[selected] /\ info'[selected] = info[selected]
      BY <1>2, <1>3, <1>a, <2>2
    <3> QED
      BY <1>1, <3>1, CountsStep
  <2> QED
    BY <2>1, <2>2
<1>7. DirKept
  <2> DEFINE mail == [d \in Dirs |-> fresh[d] \cup cur[d]]
  <2>1. mail' = [d \in Dirs |-> IF d = e THEN (fresh[d] \cup cur[d]) \cup {k} ELSE fresh[d] \cup cur[d]]
    BY <1>1, <1>3
  <2>2. [mail EXCEPT ![e] = @ \cup {k}]
          = [d \in Dirs |-> IF d = e THEN (fresh[d] \cup cur[d]) \cup {k} ELSE fresh[d] \cup cur[d]]
    OBVIOUS
  <2>3. Dir!Store!Added(e, {k})
    BY <1>1, <2>1, <2>2 DEF Dir!Store!Added
  <2> QED
    BY <2>3 DEF DirKept, Dir!Store!Next
<1>8. OpenDue'
  BY <1>1, CommandFree DEF Dir!openState
<1> QED
  BY <1>4, <1>5, <1>6, <1>7, <1>8 DEF DirIInv

LEMMA DirStep == DirIInv /\ [Dir!Next]_(Dir!vars) => DirIInv' /\ DirKept
<1> SUFFICES ASSUME DirIInv, [Dir!Next]_(Dir!vars) PROVE DirIInv' /\ DirKept
  OBVIOUS
<1>1. ASSUME NEW d \in Dirs, NEW k \in Keys,
             \/ Dir!Deliver(d, k) \/ Dir!ForeignSeen(d, k) \/ Dir!ForeignRemove(d, k)
             \/ \E b \in BOOLEAN : Dir!AddMessage(d, k, b)
      PROVE  DirIInv' /\ DirKept
  BY <1>1, DeliverStep, ForeignSeenStep, ForeignRemoveStep, AddMessageStep
<1>2. CASE Dir!ReceiveEvent \/ Dir!DebounceFires \/ Dir!CheckMail \/ UNCHANGED Dir!vars
  BY <1>2, DirQuietSteps
<1>3. CASE Dir!handleFSEvent
  BY <1>3, HandleFSEventStep
<1>4. CASE Dir!ListDirectories
  BY <1>4, ListDirectoriesStep
<1>5. ASSUME NEW d \in Dirs,
             \/ Dir!OpenDirectory(d) \/ Dir!OpenUnwatches(d) \/ Dir!OpenWatches(d)
             \/ Dir!CheckSyncs(d) \/ Dir!CheckPosts(d)
      PROVE  DirIInv' /\ DirKept
  BY <1>5, OpenDirectoryStep, OpenUnwatchesStep, OpenWatchesStep, CheckSyncsStep, CheckPostsStep
<1>6. ASSUME selected # "", NEW S \in (SUBSET Keys) \ {{}},
             \/ Dir!FetchMessageHeaders(selected, S)
             \/ \E T \in SUBSET S :
                  \/ Dir!DeleteMessages(selected, S, T)
                  \/ \E b \in BOOLEAN : Dir!FlagMessages(selected, S, T, b)
                  \/ \E e \in Dirs : Dir!MoveMessages(selected, e, S, T)
      PROVE  DirIInv' /\ DirKept
  <2>1. CASE Dir!FetchMessageHeaders(selected, S)
    BY <2>1, DirQuietSteps
  <2>2. ASSUME NEW T \in SUBSET S, Dir!DeleteMessages(selected, S, T) PROVE DirIInv' /\ DirKept
    BY <1>6, <2>2, DeleteMessagesStep
  <2>3. ASSUME NEW T \in SUBSET S, NEW b \in BOOLEAN, Dir!FlagMessages(selected, S, T, b)
        PROVE  DirIInv' /\ DirKept
    <3>1. selected \in Dirs
      BY <1>6 DEF DirIInv, DirTypes
    <3> QED
      BY <2>3, <3>1, FlagMessagesStep
  <2>4. ASSUME NEW T \in SUBSET S, NEW e \in Dirs, Dir!MoveMessages(selected, e, S, T)
        PROVE  DirIInv' /\ DirKept
    BY <1>6, <2>4, MoveMessagesStep
  <2> QED
    BY <1>6, <2>1, <2>2, <2>3, <2>4
<1> QED
  BY <1>1, <1>2, <1>3, <1>4, <1>5, <1>6 DEF Dir!Next

-----------------------------------------------------------------------------
(* Mbox: what the loops over containers leave. *)

LEMMA BoxCardinality == \A S : Box!Cardinality(S) = Cardinality(S)
BY DEF Box!Cardinality, Cardinality

(* Every position of a finite set is the n-th for one n: the number of those up to it is an
   injection of the set into an interval of its size. *)
LEMMA NthRight ==
  ASSUME NEW S, S \subseteq Nat, IsFiniteSet(S)
  PROVE  /\ Cardinality(S) \in Nat
         /\ \A n \in 1..Cardinality(S) : Box!Nth(S, n) \in S
         /\ \A u \in S : \E n \in 1..Cardinality(S) : Box!Nth(S, n) = u
<1> DEFINE Upto(u) == {v \in S : v <= u}
           rank == [u \in S |-> Cardinality(Upto(u))]
           N == Cardinality(S)
<1>1. N \in Nat
  BY FS_CardinalityType
<1>2. ASSUME NEW u \in S
      PROVE  IsFiniteSet(Upto(u)) /\ Cardinality(Upto(u)) \in 1..N
  <2>1. Upto(u) \in SUBSET S /\ u \in Upto(u)
    OBVIOUS
  <2>2. IsFiniteSet(Upto(u)) /\ Cardinality(Upto(u)) <= N
    BY <2>1, FS_Subset
  <2>3. Cardinality(Upto(u)) \in Nat /\ Cardinality(Upto(u)) # 0
    BY <2>1, <2>2, FS_CardinalityType, FS_EmptySet
  <2> QED
    BY <1>1, <2>2, <2>3
<1>3. ASSUME NEW u \in S, NEW w \in S, u < w
      PROVE  Cardinality(Upto(u)) < Cardinality(Upto(w))
  <2>a. /\ \A v \in S : v <= u => v <= w
        /\ w <= w /\ ~(w <= u)
    BY <1>3
  <2>1. Upto(u) \in SUBSET Upto(w) /\ w \in Upto(w) /\ w \notin Upto(u)
    BY <2>a, Zenon
  <2>2. Cardinality(Upto(u)) <= Cardinality(Upto(w)) /\ Cardinality(Upto(u)) # Cardinality(Upto(w))
    BY <1>2, <2>1, FS_Subset
  <2> QED
    BY <1>1, <1>2, <2>2
<1>4. rank \in Injection(S, 1..N)
  <2>1. rank \in [S -> 1..N]
    BY <1>2
  <2>2. \A u, w \in S : rank[u] = rank[w] => u = w
    <3>1. \A u, w \in S : u < w \/ w < u \/ u = w
      OBVIOUS
    <3> QED
      BY <1>1, <1>2, <1>3, <3>1
  <2> QED
    BY <2>1, <2>2 DEF Injection, IsInjective
<1>5. rank \in Surjection(S, 1..N)
  BY <1>1, <1>4, FS_Injection, FS_Interval
<1>6. ASSUME NEW n \in 1..N
      PROVE  Box!Nth(S, n) \in S /\ rank[Box!Nth(S, n)] = n
  <2>1. \E u \in S : Cardinality(Upto(u)) = n
    BY <1>5 DEF Surjection
  <2> QED
    BY <2>1, BoxCardinality DEF Box!Nth
<1>7. ASSUME NEW u \in S
      PROVE  \E n \in 1..N : Box!Nth(S, n) = u
  <2>1. rank[u] \in 1..N
    BY <1>2
  <2>2. Box!Nth(S, rank[u]) \in S /\ rank[Box!Nth(S, rank[u])] = rank[u]
    BY <1>6, <2>1
  <2> QED
    BY <1>4, <2>1, <2>2 DEF Injection, IsInjective
<1> QED
  BY <1>1, <1>6, <1>7

LEMMA RangePicked ==
  ASSUME NEW c \in Seq(Contents), NEW S \in SUBSET DOMAIN c
  PROVE  /\ Box!Picked(c, S) \in Seq(Contents)
         /\ Box!Range(Box!Picked(c, S)) = {c[i] : i \in S}
<1> DEFINE p == Box!Picked(c, S)
<1>1. S \subseteq Nat /\ S \in SUBSET (1..Len(c)) /\ Len(c) \in Nat
  OBVIOUS
<1>2. IsFiniteSet(S)
  BY <1>1, FS_Interval, FS_Subset
<1>3. /\ Cardinality(S) \in Nat
      /\ \A n \in 1..Cardinality(S) : Box!Nth(S, n) \in S
      /\ \A u \in S : \E n \in 1..Cardinality(S) : Box!Nth(S, n) = u
  BY <1>1, <1>2, NthRight
<1>4. p = [n \in 1..Cardinality(S) |-> c[Box!Nth(S, n)]]
  BY BoxCardinality DEF Box!Picked
<1> HIDE DEF p
<1>5. \A i \in S : c[i] \in Contents
  OBVIOUS
<1>6. p \in Seq(Contents)
  BY <1>3, <1>4, <1>5
<1>7. ASSUME NEW x \in Box!Range(p) PROVE \E i \in S : x = c[i]
  <2>1. PICK n \in DOMAIN p : x = p[n]
    BY DEF Box!Range
  <2> QED
    BY <1>3, <1>4, <2>1
<1>8. ASSUME NEW i \in S PROVE c[i] \in Box!Range(p)
  <2>1. PICK n \in 1..Cardinality(S) : Box!Nth(S, n) = i
    BY <1>3
  <2>2. n \in DOMAIN p /\ p[n] = c[i]
    BY <1>4, <2>1
  <2> QED
    BY <2>2 DEF Box!Range
<1>9. Box!Range(p) = {c[i] : i \in S}
  BY <1>7, <1>8
<1> QED
  BY <1>6, <1>9 DEF p

LEMMA WithoutThose ==
  ASSUME NEW c \in Seq(Contents), NEW S
  PROVE  /\ Box!Without(c, S) \in Seq(Contents)
         /\ Box!Range(Box!Without(c, S)) = Box!Range(c) \ S
         /\ Box!Those(c, S) \in Seq(Contents)
         /\ Box!Range(Box!Those(c, S)) = Box!Range(c) \cap S
<1>1. PICK out \in SUBSET DOMAIN c : out = {i \in DOMAIN c : c[i] \notin S}
  OBVIOUS
<1>2. PICK in \in SUBSET DOMAIN c : in = {i \in DOMAIN c : c[i] \in S}
  OBVIOUS
<1>3. Box!Without(c, S) = Box!Picked(c, out) /\ Box!Those(c, S) = Box!Picked(c, in)
  BY <1>1, <1>2 DEF Box!Without, Box!Those
<1>4. {c[i] : i \in out} = Box!Range(c) \ S
  BY <1>1 DEF Box!Range
<1>5. {c[i] : i \in in} = Box!Range(c) \cap S
  BY <1>2 DEF Box!Range
<1>6. /\ Box!Picked(c, out) \in Seq(Contents)
      /\ Box!Range(Box!Picked(c, out)) = {c[i] : i \in out}
  BY RangePicked
<1>7. /\ Box!Picked(c, in) \in Seq(Contents)
      /\ Box!Range(Box!Picked(c, in)) = {c[i] : i \in in}
  BY RangePicked
<1> QED
  BY <1>3, <1>4, <1>5, <1>6, <1>7

LEMMA RangeOfJoined ==
  ASSUME NEW c \in Seq(Contents), NEW d \in Seq(Contents)
  PROVE  c \o d \in Seq(Contents) /\ Box!Range(c \o d) = Box!Range(c) \cup Box!Range(d)
<1>1. /\ c \o d \in Seq(Contents) /\ Len(c \o d) = Len(c) + Len(d)
      /\ \A i \in 1..Len(c) : (c \o d)[i] = c[i]
      /\ \A i \in 1..Len(d) : (c \o d)[Len(c) + i] = d[i]
      /\ \A i \in 1..(Len(c) + Len(d)) : (c \o d)[i] = IF i <= Len(c) THEN c[i] ELSE d[i - Len(c)]
  OBVIOUS
<1>2. Len(c) \in Nat /\ Len(d) \in Nat
  OBVIOUS
<1>3. ASSUME NEW x \in Box!Range(c \o d) PROVE x \in Box!Range(c) \cup Box!Range(d)
  <2>1. PICK i \in 1..(Len(c) + Len(d)) : x = (c \o d)[i]
    BY <1>1 DEF Box!Range
  <2>2. CASE i <= Len(c)
    BY <1>1, <1>2, <2>1, <2>2 DEF Box!Range
  <2>3. CASE ~(i <= Len(c))
    <3>1. i - Len(c) \in 1..Len(d) /\ x = d[i - Len(c)]
      BY <1>1, <1>2, <2>1, <2>3
    <3> QED
      BY <3>1 DEF Box!Range
  <2> QED
    BY <2>2, <2>3
<1>4. ASSUME NEW x \in Box!Range(c) PROVE x \in Box!Range(c \o d)
  <2>1. PICK i \in 1..Len(c) : x = c[i]
    BY DEF Box!Range
  <2>2. i \in 1..Len(c \o d) /\ x = (c \o d)[i]
    BY <1>1, <1>2, <2>1
  <2> QED
    BY <1>1, <2>2 DEF Box!Range
<1>5. ASSUME NEW x \in Box!Range(d) PROVE x \in Box!Range(c \o d)
  <2>1. PICK i \in 1..Len(d) : x = d[i]
    BY DEF Box!Range
  <2>2. Len(c) + i \in 1..Len(c \o d) /\ x = (c \o d)[Len(c) + i]
    BY <1>1, <1>2, <2>1
  <2> QED
    BY <1>1, <2>2 DEF Box!Range
<1> QED
  BY <1>1, <1>3, <1>4, <1>5

LEMMA RangeOfNone == <<>> \in Seq(Contents) /\ Box!Range(<<>>) = {}
BY DEF Box!Range

LEMMA RangeOfOne ==
  ASSUME NEW m \in Contents
  PROVE  /\ <<m>> \in Seq(Contents) /\ Box!Range(<<m>>) = {m}
         /\ \A c \in Seq(Contents) : Append(c, m) = c \o <<m>>
<1>1. <<m>> \in Seq(Contents) /\ Box!Range(<<m>>) = {m}
  BY DEF Box!Range
<1>2. \A c \in Seq(Contents) : Append(c, m) = c \o <<m>>
  OBVIOUS
<1> QED
  BY <1>1, <1>2

-----------------------------------------------------------------------------
(* Mbox: steps. *)

(* Every folder has a container of its own. *)
BoxIInv ==
  /\ containers \in Seq(Seq(Contents))
  /\ DOMAIN boxes \subseteq BoxNames
  /\ boxes \in [DOMAIN boxes -> 1..Len(containers)]
  /\ \A m, n \in DOMAIN boxes : boxes[m] = boxes[n] => m = n

BoxMail == Box!Mail(boxes, containers)
BoxKept == [Box!Store!Next \/ Box!BreaksContract]_<<BoxMail, box_answer>>

(* The folder opened last has a container, be it of a name or not. *)
OpenedIInv == folder \in 0..Len(containers)

(* What is in the folder n. *)
LEMMA BoxMailOf ==
  \A b, c : /\ Box!Mail(b, c) = [n \in BoxNames |-> IF n \in DOMAIN b THEN Box!Range(c[b[n]]) ELSE {}]
BY DEF Box!Mail

LEMMA BoxInit == Box!Init => BoxIInv /\ Box!Store!Init
<1> SUFFICES ASSUME Box!Init PROVE BoxIInv /\ Box!Store!Init
  OBVIOUS
<1> DEFINE names == DOMAIN Files
           order == Box!SetToSeq(names)
           size == Cardinality(names)
<1>1. /\ boxes = [n \in names |-> CHOOSE i \in DOMAIN order : order[i] = n]
      /\ containers = [i \in DOMAIN order |-> Files[order[i]]]
      /\ box_answer = Box!Store!Nothing
  BY DEF Box!Init
<1>2. /\ size \in Nat /\ ExistsBijection(1..size, names)
  BY FilesAssumption, FS_CountingElements, FS_NatBijection, FS_CardinalityType
<1>3. PICK f \in Bijection(1..size, names) : TRUE
  BY <1>2 DEF ExistsBijection
<1>4. f \in [1..size -> names] /\ \A a, b \in DOMAIN f : f[a] = f[b] => a = b
  BY <1>3 DEF Bijection, Injection, Surjection, IsInjective
<1>5. order = CHOOSE g \in [1..size -> names] : Box!IsInjective(g)
  BY BoxCardinality DEF Box!SetToSeq
<1>6. order \in [1..size -> names] /\ Box!IsInjective(order)
  BY <1>4, <1>5 DEF Box!IsInjective
<1>7. order \in Injection(1..size, names)
  BY <1>6 DEF Injection, IsInjective, Box!IsInjective
<1>8. order \in Surjection(1..size, names)
  BY <1>2, <1>7, FilesAssumption, FS_Injection, FS_Interval, FS_CardinalityType
<1>9. \A n \in names : \E i \in DOMAIN order : order[i] = n
  BY <1>6, <1>8 DEF Surjection
<1> HIDE DEF order, size
<1>10. \A n \in names : boxes[n] \in DOMAIN order /\ order[boxes[n]] = n
  BY <1>1, <1>9
<1>11. DOMAIN order = 1..size /\ DOMAIN boxes = names
  BY <1>1, <1>6
<1>12. containers \in Seq(Seq(Contents)) /\ Len(containers) = size
  BY <1>1, <1>2, <1>6, <1>11, FilesAssumption
<1>13. boxes \in [DOMAIN boxes -> 1..Len(containers)]
  BY <1>1, <1>10, <1>11, <1>12
<1>14. BoxIInv
  BY <1>10, <1>11, <1>12, <1>13, FilesAssumption DEF BoxIInv
<1>15. Box!Store!Init
  <2>1. \A n \in DOMAIN boxes : containers[boxes[n]] \in Seq(Contents)
    BY <1>12, <1>13
  <2>2. \A n \in DOMAIN boxes : Box!Range(containers[boxes[n]]) \in SUBSET Contents
    BY <2>1 DEF Box!Range
  <2>3. BoxMail \in [BoxNames -> SUBSET Contents]
    BY <2>2, BoxMailOf DEF BoxMail
  <2> QED
    BY <1>1, <2>3 DEF Box!Store!Init, BoxMail
<1> QED
  BY <1>14, <1>15

(* A folder gets a new container, with the messages q. *)
LEMMA NewBox ==
  ASSUME BoxIInv, NEW n \in BoxNames, NEW q \in Seq(Contents),
         containers' = Append(containers, q),
         boxes' = [x \in DOMAIN boxes \cup {n} |->
                     IF x = n THEN Len(containers) + 1 ELSE boxes[x]]
  PROVE  /\ BoxIInv'
         /\ BoxMail' = [BoxMail EXCEPT ![n] = Box!Range(q)]
         /\ n \notin DOMAIN boxes => BoxMail[n] = {}
<1> USE DEF BoxIInv
<1>1. /\ containers' \in Seq(Seq(Contents)) /\ Len(containers') = Len(containers) + 1
      /\ \A i \in 1..Len(containers) : containers'[i] = containers[i]
      /\ containers'[Len(containers) + 1] = q
  OBVIOUS
<1>2. Len(containers) \in Nat
  OBVIOUS
<1>3. DOMAIN boxes' = DOMAIN boxes \cup {n}
  OBVIOUS
<1>4. \A x \in DOMAIN boxes \ {n} : boxes'[x] = boxes[x] /\ boxes[x] \in 1..Len(containers)
  OBVIOUS
<1>5. boxes'[n] = Len(containers) + 1
  OBVIOUS
<1>6. boxes' \in [DOMAIN boxes' -> 1..Len(containers')]
  <2>1. \A x \in DOMAIN boxes' : boxes'[x] \in 1..Len(containers')
    BY <1>1, <1>2, <1>3, <1>4, <1>5
  <2> QED
    BY <2>1
<1>7. \A x, y \in DOMAIN boxes' : boxes'[x] = boxes'[y] => x = y
  BY <1>2, <1>3, <1>4, <1>5
<1>8. BoxIInv'
  BY <1>1, <1>3, <1>6, <1>7
<1>9. \A x \in DOMAIN boxes \ {n} : containers'[boxes'[x]] = containers[boxes[x]]
  BY <1>1, <1>4
<1>10. containers'[boxes'[n]] = q
  BY <1>1, <1>5
<1>11. BoxMail' = [x \in BoxNames |-> IF x = n THEN Box!Range(q)
                                   ELSE IF x \in DOMAIN boxes THEN Box!Range(containers[boxes[x]]) ELSE {}]
  <2>1. BoxMail' = [x \in BoxNames |-> IF x \in DOMAIN boxes' THEN Box!Range(containers'[boxes'[x]]) ELSE {}]
    BY BoxMailOf DEF BoxMail
  <2> QED
    BY <1>3, <1>9, <1>10, <2>1
<1>12. BoxMail = [x \in BoxNames |-> IF x \in DOMAIN boxes THEN Box!Range(containers[boxes[x]]) ELSE {}]
  BY BoxMailOf DEF BoxMail
<1>13. BoxMail' = [BoxMail EXCEPT ![n] = Box!Range(q)]
  BY <1>11, <1>12
<1> QED
  BY <1>8, <1>12, <1>13

(* The container of a folder that exists gets other messages. *)
LEMMA FilledBox ==
  ASSUME BoxIInv, NEW n \in DOMAIN boxes, NEW q \in Seq(Contents),
         containers' = [containers EXCEPT ![boxes[n]] = q], boxes' = boxes
  PROVE  /\ BoxIInv'
         /\ BoxMail' = [BoxMail EXCEPT ![n] = Box!Range(q)]
         /\ BoxMail[n] = Box!Range(containers[boxes[n]])
         /\ containers[boxes[n]] \in Seq(Contents)
<1> USE DEF BoxIInv
<1>1. /\ containers' \in Seq(Seq(Contents)) /\ Len(containers') = Len(containers)
      /\ boxes[n] \in 1..Len(containers) /\ containers[boxes[n]] \in Seq(Contents)
  OBVIOUS
<1>2. BoxIInv'
  BY <1>1
<1>3. \A x \in DOMAIN boxes : containers'[boxes[x]] = IF x = n THEN q ELSE containers[boxes[x]]
  BY <1>1
<1>4. BoxMail' = [x \in BoxNames |-> IF x \in DOMAIN boxes
                                  THEN IF x = n THEN Box!Range(q) ELSE Box!Range(containers[boxes[x]])
                                  ELSE {}]
  <2>1. BoxMail' = [x \in BoxNames |-> IF x \in DOMAIN boxes' THEN Box!Range(containers'[boxes'[x]]) ELSE {}]
    BY BoxMailOf DEF BoxMail
  <2> QED
    BY <1>3, <2>1
<1>5. BoxMail = [x \in BoxNames |-> IF x \in DOMAIN boxes THEN Box!Range(containers[boxes[x]]) ELSE {}]
  BY BoxMailOf DEF BoxMail
<1>6. n \in BoxNames
  OBVIOUS
<1>7. BoxMail' = [BoxMail EXCEPT ![n] = Box!Range(q)]
  BY <1>4, <1>5, <1>6
<1> QED
  BY <1>1, <1>2, <1>5, <1>6, <1>7

(* Steps that leave every folder as it is and say that nothing happened. *)
LEMMA BoxNothing ==
  ASSUME BoxMail' = BoxMail, box_answer' = Box!Store!Nothing
  PROVE  BoxKept
BY DEF BoxKept, BoxMail, Box!Store!Next, Box!Store!Unchanged

LEMMA BoxOpens ==
  ASSUME BoxIInv, NEW n \in BoxNames, Box!OpenDirectory(n)
  PROVE  BoxIInv' /\ BoxKept
<1>1. box_answer' = Box!Store!Nothing
  BY DEF Box!OpenDirectory
<1>2. CASE n \in DOMAIN boxes
  <2>1. boxes' = boxes /\ containers' = containers
    BY <1>2 DEF Box!OpenDirectory
  <2>2. BoxIInv' /\ BoxMail' = BoxMail
    BY <2>1 DEF BoxIInv, BoxMail
  <2> QED
    BY <1>1, <2>2, BoxNothing
<1>3. CASE n \notin DOMAIN boxes
  <2>1. Box!Create(n)
    BY <1>3 DEF Box!OpenDirectory
  <2>2. BoxIInv' /\ BoxMail' = BoxMail
    <3>1. PICK q \in Seq(Contents) : q = <<>> /\ Box!Range(q) = {}
      BY RangeOfNone
    <3>2. /\ BoxIInv' /\ BoxMail' = [BoxMail EXCEPT ![n] = Box!Range(q)]
          /\ BoxMail[n] = {}
      BY <1>3, <2>1, <3>1, NewBox DEF Box!Create
    <3> QED
      BY <3>1, <3>2, BoxMailOf DEF BoxMail
  <2> QED
    BY <1>1, <2>2, BoxNothing
<1> QED
  BY <1>2, <1>3

LEMMA BoxCreates ==
  ASSUME BoxIInv, NEW n \in BoxNames, Box!CreateDirectory(n)
  PROVE  BoxIInv' /\ BoxKept
<1>1. box_answer' = Box!Store!Nothing /\ Box!Create(n)
  BY DEF Box!CreateDirectory
<1>2. PICK q \in Seq(Contents) : q = <<>> /\ Box!Range(q) = {}
  BY RangeOfNone
<1>3. /\ BoxIInv' /\ BoxMail' = [BoxMail EXCEPT ![n] = Box!Range(q)]
      /\ n \notin DOMAIN boxes => BoxMail[n] = {}
  BY <1>1, <1>2, NewBox DEF Box!Create
<1>4. CASE n \notin DOMAIN boxes
  <2>1. BoxMail' = BoxMail
    BY <1>2, <1>3, <1>4, BoxMailOf DEF BoxMail
  <2> QED
    BY <1>1, <1>3, <2>1, BoxNothing
<1>5. CASE n \in DOMAIN boxes
  <2>1. Box!CreatedAgain(n)
    BY <1>1, <1>2, <1>3, <1>5 DEF Box!CreatedAgain, Box!FolderMail, BoxMail
  <2> QED
    BY <1>3, <2>1 DEF BoxKept, Box!BreaksContract
<1> QED
  BY <1>4, <1>5

LEMMA BoxRemoves ==
  ASSUME BoxIInv, NEW n \in BoxNames, Box!RemoveDirectory(n)
  PROVE  BoxIInv' /\ BoxKept
<1>1. /\ boxes' = [x \in DOMAIN boxes \ {n} |-> boxes[x]] /\ containers' = containers
      /\ box_answer' = Box!Store!Answer("removed", n, n, {})
  BY DEF Box!RemoveDirectory
<1>2. BoxIInv'
  <2>1. DOMAIN boxes' = DOMAIN boxes \ {n} /\ \A x \in DOMAIN boxes' : boxes'[x] = boxes[x]
    BY <1>1
  <2>2. boxes' \in [DOMAIN boxes' -> 1..Len(containers)]
    BY <1>1, <2>1 DEF BoxIInv
  <2> QED
    BY <1>1, <2>1, <2>2 DEF BoxIInv
<1>3. BoxMail' = [x \in BoxNames |-> IF x \in DOMAIN boxes \ {n} THEN Box!Range(containers[boxes[x]]) ELSE {}]
  <2>1. BoxMail' = [x \in BoxNames |-> IF x \in DOMAIN boxes' THEN Box!Range(containers'[boxes'[x]]) ELSE {}]
    BY BoxMailOf DEF BoxMail
  <2> QED
    BY <1>1, <2>1
<1>4. BoxMail = [x \in BoxNames |-> IF x \in DOMAIN boxes THEN Box!Range(containers[boxes[x]]) ELSE {}]
  BY BoxMailOf DEF BoxMail
<1>5. BoxMail' = [BoxMail EXCEPT ![n] = {}]
  BY <1>3, <1>4
<1>6. Box!Store!Removed(n)
  BY <1>1, <1>5 DEF Box!Store!Removed, BoxMail
<1> QED
  BY <1>2, <1>6 DEF BoxKept, Box!Store!Next

LEMMA BoxDeletesNamed ==
  ASSUME BoxIInv, NEW n \in DOMAIN boxes, NEW S \in SUBSET Contents, Box!DeleteMessages(n, S)
  PROVE  BoxIInv' /\ BoxKept
<1> DEFINE c == containers[boxes[n]]
<1>1. Box!dir(n) = boxes[n]
  BY DEF Box!dir
<1>2. /\ containers' = [containers EXCEPT ![boxes[n]] = Box!Without(c, S)] /\ boxes' = boxes
      /\ box_answer' = Box!Store!Answer("deleted", n, n, S \cap Box!Range(c))
  BY <1>1 DEF Box!DeleteMessages, BoxIInv
<1>3. c \in Seq(Contents) /\ n \in BoxNames
  BY DEF BoxIInv
<1> HIDE DEF c
<1>4. PICK q \in Seq(Contents) : q = Box!Without(c, S) /\ Box!Range(q) = Box!Range(c) \ S
  BY <1>3, WithoutThose
<1>5. /\ BoxIInv' /\ BoxMail' = [BoxMail EXCEPT ![n] = Box!Range(q)]
      /\ BoxMail[n] = Box!Range(c)
  BY <1>2, <1>4, FilledBox DEF c
<1>6. PICK T \in SUBSET Contents : T = S \cap Box!Range(c)
  OBVIOUS
<1>7. BoxMail' = [BoxMail EXCEPT ![n] = @ \ T] /\ T \subseteq BoxMail[n]
  <2>1. Box!Range(q) = BoxMail[n] \ T
    BY <1>4, <1>5, <1>6
  <2> QED
    BY <1>5, <1>6, <2>1
<1>8. Box!Store!Deleted(n, T)
  BY <1>2, <1>6, <1>7 DEF Box!Store!Deleted, BoxMail
<1> QED
  BY <1>3, <1>5, <1>8 DEF BoxKept, Box!Store!Next

(* The name of the deletion has no container: the folder opened last stands for it. *)
LEMMA BoxDeletesOpened ==
  ASSUME BoxIInv, OpenedIInv, NEW n \in BoxNames, n \notin DOMAIN boxes,
         NEW S \in SUBSET Contents, Box!DeleteMessages(n, S)
  PROVE  BoxIInv' /\ BoxKept
<1> DEFINE c == containers[folder]
<1>1. Box!dir(n) = folder /\ folder \in 1..Len(containers)
  BY DEF Box!dir, Box!DeleteMessages, OpenedIInv
<1>2. /\ containers' = [containers EXCEPT ![folder] = Box!Without(c, S)] /\ boxes' = boxes
      /\ box_answer' = Box!Store!Answer("deleted", n, n, S \cap Box!Range(c))
  BY <1>1 DEF Box!DeleteMessages, BoxIInv
<1>3. c \in Seq(Contents)
  BY <1>1 DEF BoxIInv
<1> HIDE DEF c
<1>4. PICK q \in Seq(Contents) : q = Box!Without(c, S) /\ Box!Range(q) = Box!Range(c) \ S
  BY <1>3, WithoutThose
<1>5. PICK T \in SUBSET Contents : T = S \cap Box!Range(c)
  OBVIOUS
<1>6. /\ containers' \in Seq(Seq(Contents)) /\ Len(containers') = Len(containers)
      /\ \A i \in 1..Len(containers) : containers'[i] = IF i = folder THEN q ELSE containers[i]
  BY <1>1, <1>2, <1>4 DEF BoxIInv
<1>7. BoxIInv'
  BY <1>2, <1>6 DEF BoxIInv
<1>8. \A m \in DOMAIN boxes : Box!Range(containers'[boxes[m]]) =
          IF boxes[m] = folder THEN Box!Range(containers[boxes[m]]) \ T
          ELSE Box!Range(containers[boxes[m]])
  <2>1. Box!Range(q) = Box!Range(c) \ T
    BY <1>4, <1>5
  <2>2. \A m \in DOMAIN boxes : boxes[m] \in 1..Len(containers)
    BY DEF BoxIInv
  <2> QED
    BY <1>6, <2>1, <2>2 DEF c
<1>9. BoxMail' = [m \in BoxNames |-> IF m \in DOMAIN boxes THEN Box!Range(containers'[boxes[m]]) ELSE {}]
  <2>1. BoxMail' = [m \in BoxNames |-> IF m \in DOMAIN boxes' THEN Box!Range(containers'[boxes'[m]]) ELSE {}]
    BY BoxMailOf DEF BoxMail
  <2> QED
    BY <1>2, <2>1
<1>10. BoxMail = [m \in BoxNames |-> IF m \in DOMAIN boxes THEN Box!Range(containers[boxes[m]]) ELSE {}]
  BY BoxMailOf DEF BoxMail
<1>11. BoxMail' = [m \in BoxNames |-> IF m \in DOMAIN boxes /\ boxes[m] = folder
                                    THEN BoxMail[m] \ T ELSE BoxMail[m]]
  BY <1>8, <1>9, <1>10
<1>12. Box!Strayed(n, T)
  <2>1. folder # 0 /\ T \subseteq Box!Range(containers[folder])
    BY <1>1, <1>5 DEF c
  <2> QED
    BY <1>2, <1>5, <1>11, <2>1 DEF Box!Strayed, Box!FolderMail, BoxMail
<1> QED
  BY <1>7, <1>12 DEF BoxKept, Box!BreaksContract

LEMMA BoxCopies ==
  ASSUME BoxIInv, NEW src \in DOMAIN boxes, NEW dest \in DOMAIN boxes, NEW S \in SUBSET Contents,
         Box!CopyMessages(src, dest, S)
  PROVE  BoxIInv' /\ BoxKept
<1> DEFINE c == containers[boxes[src]]
           d == containers[boxes[dest]]
<1>1. /\ containers' = Box!Copied(boxes[src], boxes[dest], S) /\ boxes' = boxes
      /\ box_answer' = Box!Store!Answer("added", dest, dest, S \cap Box!Range(c))
  BY DEF Box!CopyMessages
<1>2. c \in Seq(Contents) /\ d \in Seq(Contents) /\ src \in BoxNames /\ dest \in BoxNames
  BY DEF BoxIInv
<1>3. containers' = [containers EXCEPT ![boxes[dest]] = d \o Box!Those(c, S)]
  BY <1>1 DEF Box!Copied, BoxIInv
<1> HIDE DEF c, d
<1>4. PICK p \in Seq(Contents) : p = Box!Those(c, S) /\ Box!Range(p) = Box!Range(c) \cap S
  BY <1>2, WithoutThose
<1>5. PICK q \in Seq(Contents) : q = d \o p /\ Box!Range(q) = Box!Range(d) \cup Box!Range(p)
  BY <1>2, RangeOfJoined
<1>6. /\ BoxIInv' /\ BoxMail' = [BoxMail EXCEPT ![dest] = Box!Range(q)]
      /\ BoxMail[dest] = Box!Range(d)
  BY <1>1, <1>3, <1>4, <1>5, FilledBox DEF d
<1>7. PICK T \in SUBSET Contents : T = S \cap Box!Range(c)
  OBVIOUS
<1>8. BoxMail' = [BoxMail EXCEPT ![dest] = @ \cup T]
  <2>1. Box!Range(q) = BoxMail[dest] \cup T
    BY <1>4, <1>5, <1>6, <1>7
  <2> QED
    BY <1>6, <2>1
<1>9. Box!Store!Added(dest, T)
  BY <1>1, <1>7, <1>8 DEF Box!Store!Added, BoxMail
<1> QED
  BY <1>2, <1>6, <1>9 DEF BoxKept, Box!Store!Next

LEMMA BoxMovesAway ==
  ASSUME BoxIInv, NEW src \in DOMAIN boxes, NEW dest \in DOMAIN boxes, src # dest,
         NEW S \in SUBSET Contents, Box!MoveMessages(src, dest, S)
  PROVE  BoxIInv' /\ BoxKept
<1> DEFINE c == containers[boxes[src]]
           d == containers[boxes[dest]]
<1>1. /\ src # dest /\ boxes' = boxes
      /\ containers' = [Box!Copied(boxes[src], boxes[dest], S) EXCEPT
                          ![boxes[src]] = Box!Without(@, S)]
      /\ box_answer' = Box!Store!Answer("moved", src, dest, S \cap Box!Range(c))
  BY DEF Box!MoveMessages
<1>2. /\ c \in Seq(Contents) /\ d \in Seq(Contents) /\ src \in BoxNames /\ dest \in BoxNames
      /\ boxes[src] \in 1..Len(containers) /\ boxes[dest] \in 1..Len(containers)
      /\ boxes[src] # boxes[dest] /\ containers \in Seq(Seq(Contents))
  BY <1>1 DEF BoxIInv
<1>3. PICK p \in Seq(Contents) : p = Box!Those(c, S) /\ Box!Range(p) = Box!Range(c) \cap S
  BY <1>2, WithoutThose
<1>4. PICK q \in Seq(Contents) : q = d \o p /\ Box!Range(q) = Box!Range(d) \cup Box!Range(p)
  BY <1>2, RangeOfJoined
<1>5. PICK r \in Seq(Contents) : r = Box!Without(c, S) /\ Box!Range(r) = Box!Range(c) \ S
  BY <1>2, WithoutThose
<1>6. Box!Copied(boxes[src], boxes[dest], S) = [containers EXCEPT ![boxes[dest]] = q]
  BY <1>3, <1>4 DEF Box!Copied
<1>7. containers' = [i \in 1..Len(containers) |-> IF i = boxes[src] THEN r
                                                ELSE IF i = boxes[dest] THEN q ELSE containers[i]]
  <2>a. containers = [i \in 1..Len(containers) |-> containers[i]]
    BY <1>2
  <2>1. [containers EXCEPT ![boxes[dest]] = q]
          = [i \in 1..Len(containers) |-> IF i = boxes[dest] THEN q ELSE containers[i]]
    BY <2>a
  <2>2. [containers EXCEPT ![boxes[dest]] = q][boxes[src]] = c
    BY <1>2, <2>1
  <2> QED
    BY <1>1, <1>2, <1>5, <1>6, <2>1, <2>2
<1> HIDE DEF c, d
<1>8. containers' \in Seq(Seq(Contents)) /\ Len(containers') = Len(containers)
  BY <1>2, <1>7
<1>9. BoxIInv'
  BY <1>1, <1>8 DEF BoxIInv
<1>10. \A x \in DOMAIN boxes : containers'[boxes[x]] = IF x = src THEN r ELSE IF x = dest THEN q
                                                       ELSE containers[boxes[x]]
  BY <1>1, <1>7 DEF BoxIInv
<1>11. BoxMail' = [x \in BoxNames |-> IF x = src THEN Box!Range(r) ELSE IF x = dest THEN Box!Range(q)
                                   ELSE IF x \in DOMAIN boxes THEN Box!Range(containers[boxes[x]])
                                   ELSE {}]
  <2>1. BoxMail' = [x \in BoxNames |-> IF x \in DOMAIN boxes' THEN Box!Range(containers'[boxes'[x]]) ELSE {}]
    BY BoxMailOf DEF BoxMail
  <2> QED
    BY <1>1, <1>10, <2>1
<1>12. BoxMail = [x \in BoxNames |-> IF x \in DOMAIN boxes THEN Box!Range(containers[boxes[x]]) ELSE {}]
  BY BoxMailOf DEF BoxMail
<1>13. PICK T \in SUBSET Contents : T = S \cap Box!Range(c)
  OBVIOUS
<1>14. /\ BoxMail[src] = Box!Range(c) /\ BoxMail[dest] = Box!Range(d)
       /\ Box!Range(r) = BoxMail[src] \ T /\ Box!Range(q) = BoxMail[dest] \cup T
  BY <1>2, <1>3, <1>4, <1>5, <1>12, <1>13 DEF c, d
<1>15. BoxMail' = [BoxMail EXCEPT ![src] = @ \ T, ![dest] = @ \cup T]
  BY <1>1, <1>2, <1>11, <1>12, <1>14
<1>16. Box!Store!Moved(src, dest, T)
  BY <1>1, <1>13, <1>14, <1>15 DEF Box!Store!Moved, BoxMail
<1> QED
  BY <1>2, <1>9, <1>16 DEF BoxKept, Box!Store!Next

(* A move within a folder: the copies have the UIDs of the messages and are deleted with them. *)
LEMMA BoxMovesOnto ==
  ASSUME BoxIInv, NEW n \in DOMAIN boxes, NEW S \in SUBSET Contents, Box!MoveMessages(n, n, S)
  PROVE  BoxIInv' /\ BoxKept
<1> DEFINE c == containers[boxes[n]]
<1>1. /\ boxes' = boxes
      /\ containers' = [Box!Copied(boxes[n], boxes[n], S) EXCEPT ![boxes[n]] = Box!Without(@, S)]
      /\ box_answer' = Box!Store!Answer("moved", n, n, S \cap Box!Range(c))
  BY DEF Box!MoveMessages
<1>2. /\ c \in Seq(Contents) /\ n \in BoxNames /\ containers \in Seq(Seq(Contents))
      /\ boxes[n] \in 1..Len(containers)
  BY DEF BoxIInv
<1>3. PICK p \in Seq(Contents) : p = Box!Those(c, S) /\ Box!Range(p) = Box!Range(c) \cap S
  BY <1>2, WithoutThose
<1>4. PICK q \in Seq(Contents) : q = c \o p /\ Box!Range(q) = Box!Range(c) \cup Box!Range(p)
  BY <1>2, RangeOfJoined
<1>5. PICK r \in Seq(Contents) : r = Box!Without(q, S) /\ Box!Range(r) = Box!Range(q) \ S
  BY WithoutThose
<1>6. containers' = [containers EXCEPT ![boxes[n]] = r]
  <2>1. Box!Copied(boxes[n], boxes[n], S) = [containers EXCEPT ![boxes[n]] = q]
    BY <1>3, <1>4 DEF Box!Copied
  <2>2. [containers EXCEPT ![boxes[n]] = q][boxes[n]] = q
    BY <1>2
  <2> QED
    BY <1>1, <1>5, <2>1, <2>2
<1> HIDE DEF c
<1>7. /\ BoxIInv' /\ BoxMail' = [BoxMail EXCEPT ![n] = Box!Range(r)]
      /\ BoxMail[n] = Box!Range(c)
  BY <1>1, <1>6, FilledBox DEF c
<1>8. PICK T \in SUBSET Contents : T = S \cap Box!Range(c)
  OBVIOUS
<1>9. Box!Range(r) = BoxMail[n] \ T
  BY <1>3, <1>4, <1>5, <1>7, <1>8
<1>10. Box!MovedOntoItself(n, T)
  BY <1>1, <1>7, <1>8, <1>9 DEF Box!MovedOntoItself, Box!FolderMail, BoxMail
<1> QED
  BY <1>2, <1>7, <1>10 DEF BoxKept, Box!BreaksContract

LEMMA BoxAppends ==
  ASSUME BoxIInv, NEW n \in BoxNames, NEW m \in Contents, Box!AppendMessage(n, m)
  PROVE  BoxIInv' /\ BoxKept
<1>1. box_answer' = Box!Store!Answer("added", n, n, {m})
  BY DEF Box!AppendMessage
<1>2. BoxIInv' /\ BoxMail' = [BoxMail EXCEPT ![n] = @ \cup {m}]
  <2>1. CASE n \in DOMAIN boxes
    <3>1. /\ containers' = [containers EXCEPT ![boxes[n]] = Append(containers[boxes[n]], m)]
          /\ boxes' = boxes
      BY <2>1 DEF Box!AppendMessage, BoxIInv
    <3>2. PICK d \in Seq(Contents) : d = containers[boxes[n]]
      BY <2>1 DEF BoxIInv
    <3>3. PICK o \in Seq(Contents) : o = <<m>> /\ Box!Range(o) = {m} /\ Append(d, m) = d \o o
      BY RangeOfOne
    <3>4. PICK q \in Seq(Contents) : q = d \o o /\ Box!Range(q) = Box!Range(d) \cup Box!Range(o)
      BY RangeOfJoined
    <3>5. /\ BoxIInv' /\ BoxMail' = [BoxMail EXCEPT ![n] = Box!Range(q)]
          /\ BoxMail[n] = Box!Range(d)
      BY <2>1, <3>1, <3>2, <3>3, <3>4, FilledBox
    <3> QED
      BY <3>3, <3>4, <3>5
  <2>2. CASE n \notin DOMAIN boxes
    <3>1. PICK q \in Seq(Contents) : q = <<m>> /\ Box!Range(q) = {m}
      BY RangeOfOne
    <3>2. /\ BoxIInv' /\ BoxMail' = [BoxMail EXCEPT ![n] = Box!Range(q)]
          /\ BoxMail[n] = {}
      BY <2>2, <3>1, NewBox DEF Box!AppendMessage
    <3> QED
      BY <3>1, <3>2
  <2> QED
    BY <2>1, <2>2
<1>3. {m} \in SUBSET Contents
  OBVIOUS
<1>4. Box!Store!Added(n, {m})
  BY <1>1, <1>2 DEF Box!Store!Added, BoxMail
<1> QED
  BY <1>2, <1>3, <1>4 DEF BoxKept, Box!Store!Next

LEMMA BoxOpened ==
  ASSUME BoxIInv, OpenedIInv, [Box!Next]_(Box!vars)
  PROVE  OpenedIInv'
<1>1. Len(containers) \in Nat
  BY DEF BoxIInv
<1>2. ASSUME Len(containers') >= Len(containers), Len(containers') \in Nat, folder' = folder
      PROVE  OpenedIInv'
  BY <1>1, <1>2 DEF OpenedIInv
<1>3. \A q : Len(Append(containers, q)) = Len(containers) + 1
  BY DEF BoxIInv
<1>4. \A i, q : Len([containers EXCEPT ![i] = q]) = Len(containers)
  BY DEF BoxIInv
<1>5. ASSUME NEW n \in BoxNames, Box!OpenDirectory(n)
      PROVE  OpenedIInv'
  <2>1. CASE n \in DOMAIN boxes
    BY <1>1, <1>5, <2>1 DEF Box!OpenDirectory, OpenedIInv, BoxIInv
  <2>2. CASE n \notin DOMAIN boxes
    <3>1. containers' = Append(containers, <<>>) /\ folder' = Len(containers) + 1
      BY <1>5, <2>2 DEF Box!OpenDirectory, Box!Create
    <3> QED
      BY <1>1, <1>3, <3>1 DEF OpenedIInv
  <2> QED
    BY <2>1, <2>2
<1>6. ASSUME NEW n \in BoxNames, Box!CreateDirectory(n) \/ Box!RemoveDirectory(n)
      PROVE  OpenedIInv'
  BY <1>1, <1>2, <1>3, <1>6 DEF Box!CreateDirectory, Box!RemoveDirectory, Box!Create
<1>7. ASSUME NEW n \in BoxNames, NEW S \in SUBSET Contents, Box!DeleteMessages(n, S)
      PROVE  OpenedIInv'
  BY <1>1, <1>2, <1>4, <1>7 DEF Box!DeleteMessages
<1>8. ASSUME NEW n \in BoxNames, NEW d \in BoxNames, NEW S \in SUBSET Contents,
             Box!CopyMessages(n, d, S) \/ Box!MoveMessages(n, d, S)
      PROVE  OpenedIInv'
  <2>1. CASE Box!CopyMessages(n, d, S)
    BY <1>1, <1>2, <1>4, <2>1 DEF Box!CopyMessages, Box!Copied
  <2>2. CASE Box!MoveMessages(n, d, S)
    <3>1. PICK i, x : Box!Copied(boxes[n], boxes[d], S) = [containers EXCEPT ![i] = x]
      BY DEF Box!Copied
    <3>2. \A j, y : Len([[containers EXCEPT ![i] = x] EXCEPT ![j] = y]) = Len(containers)
      BY DEF BoxIInv
    <3>3. Len(containers') = Len(containers) /\ folder' = folder
      BY <2>2, <3>1, <3>2 DEF Box!MoveMessages
    <3> QED
      BY <1>1, <1>2, <3>3
  <2> QED
    BY <1>8, <2>1, <2>2
<1>9. ASSUME NEW n \in BoxNames, NEW m \in Contents, Box!AppendMessage(n, m)
      PROVE  OpenedIInv'
  BY <1>1, <1>2, <1>3, <1>4, <1>9 DEF Box!AppendMessage
<1>10. ASSUME containers' = containers, folder' = folder
       PROVE  OpenedIInv'
  BY <1>10 DEF OpenedIInv
<1>11. CASE UNCHANGED Box!vars
  BY <1>10, <1>11 DEF Box!vars
<1>12. ASSUME NEW n \in BoxNames, NEW d \in BoxNames, Box!Refused(n, d)
       PROVE  OpenedIInv'
  BY <1>10, <1>12 DEF Box!Refused
<1> QED
  BY <1>5, <1>6, <1>7, <1>8, <1>9, <1>11, <1>12 DEF Box!Next

LEMMA BoxStep ==
  BoxIInv /\ OpenedIInv /\ [Box!Next]_(Box!vars) => BoxIInv' /\ OpenedIInv' /\ BoxKept
<1> SUFFICES ASSUME BoxIInv, OpenedIInv, [Box!Next]_(Box!vars)
             PROVE  BoxIInv' /\ BoxKept
  BY BoxOpened
<1>1. ASSUME NEW n \in BoxNames, Box!OpenDirectory(n) \/ Box!CreateDirectory(n) \/ Box!RemoveDirectory(n)
      PROVE  BoxIInv' /\ BoxKept
  BY <1>1, BoxOpens, BoxCreates, BoxRemoves
<1>2. ASSUME NEW n \in BoxNames, NEW S \in SUBSET Contents, Box!DeleteMessages(n, S)
      PROVE  BoxIInv' /\ BoxKept
  BY <1>2, BoxDeletesNamed, BoxDeletesOpened
<1>3. ASSUME NEW n \in BoxNames, NEW d \in BoxNames, NEW S \in SUBSET Contents,
             Box!CopyMessages(n, d, S)
      PROVE  BoxIInv' /\ BoxKept
  <2>1. n \in DOMAIN boxes /\ d \in DOMAIN boxes
    BY <1>3 DEF Box!CopyMessages
  <2> QED
    BY <1>3, <2>1, BoxCopies
<1>4. ASSUME NEW n \in BoxNames, NEW d \in BoxNames, NEW S \in SUBSET Contents,
             Box!MoveMessages(n, d, S)
      PROVE  BoxIInv' /\ BoxKept
  <2>1. n \in DOMAIN boxes /\ d \in DOMAIN boxes
    BY <1>4 DEF Box!MoveMessages
  <2> QED
    BY <1>4, <2>1, BoxMovesAway, BoxMovesOnto
<1>5. ASSUME NEW n \in BoxNames, NEW m \in Contents, Box!AppendMessage(n, m)
      PROVE  BoxIInv' /\ BoxKept
  BY <1>5, BoxAppends
<1>6. ASSUME NEW n \in BoxNames, NEW d \in BoxNames, Box!Refused(n, d)
      PROVE  BoxIInv' /\ BoxKept
  <2>1. boxes' = boxes /\ containers' = containers /\ box_answer' = Box!Store!Nothing
    BY <1>6 DEF Box!Refused
  <2> QED
    BY <2>1, BoxNothing DEF BoxIInv, BoxMail
<1>7. CASE UNCHANGED Box!vars
  <2>1. boxes' = boxes /\ containers' = containers /\ box_answer' = box_answer
    BY <1>7 DEF Box!vars
  <2> QED
    BY <2>1 DEF BoxIInv, BoxKept, BoxMail
<1> QED
  BY <1>1, <1>2, <1>3, <1>4, <1>5, <1>6, <1>7 DEF Box!Next

-----------------------------------------------------------------------------
(* Theorems *)

(* The maildir worker keeps the contract of a mail store: every step of it, of other programs
   in its folders and of :check-mail is a step of MailStore or changes no mail
   (worker/maildir/worker.go). *)
THEOREM MaildirRefinesMailStore == Dir!Spec => Dir!MaildirKeepsMail
<1>1. Dir!Init => Dir!Store!Init
  BY DirsAssumption DEF Dir!Init, Dir!Store!Init, Dir!Store!Nothing, Dir!Store!Answer
<1>2. Dir!Init => DirIInv
  BY DirInit
<1>3. DirIInv /\ [Dir!Next]_(Dir!vars) => DirIInv' /\ DirKept
  BY DirStep
<1> QED
  BY <1>1, <1>2, <1>3, PTL DEF Dir!Spec, Dir!MaildirKeepsMail, Dir!Store!Spec, DirKept

(* The mbox worker keeps the contract of a mail store, whatever folders its commands name, but
   for folders created over ones that exist, messages moved to the folder they are in and
   deletions that name a folder that does not exist (worker/mbox/worker.go). *)
THEOREM MboxRefinesMailStore == Box!Spec => Box!MboxKeepsMail
<1>1. Box!Init => BoxIInv /\ OpenedIInv /\ Box!Store!Init
  <2>1. ASSUME Box!Init PROVE OpenedIInv
    <3>1. BoxIInv /\ folder = 0
      BY <2>1, BoxInit DEF Box!Init
    <3> QED
      BY <3>1 DEF OpenedIInv, BoxIInv
  <2> QED
    BY <2>1, BoxInit
<1>2. BoxIInv /\ OpenedIInv /\ [Box!Next]_(Box!vars) => BoxIInv' /\ OpenedIInv' /\ BoxKept
  BY BoxStep
<1>3. BoxKept <=> [Box!Store!Next \/ Box!BreaksContract]_<<Box!FolderMail, box_answer>>
  BY DEF BoxKept, BoxMail, Box!FolderMail
<1> QED
  BY <1>1, <1>2, <1>3, PTL DEF Box!Spec, Box!MboxKeepsMail

(* Each worker takes its own steps. *)
LEMMA BackendsParts ==
  BackendsSpec => Box!Spec /\ Dir!Spec
<1>1. BackendsInit => Box!Init /\ Dir!Init
  BY DEF BackendsInit
<1>2. [BackendsNext]_<<vars, boxVars, dirVars>> => [Box!Next]_(Box!vars) /\ [Dir!Next]_(Dir!vars)
  BY DEF BackendsNext, boxVars, dirVars, Box!vars, Dir!vars, Dir!openState
<1> QED
  BY <1>1, <1>2, PTL DEF BackendsSpec, Box!Spec, Dir!Spec

(* No mail disappears from the folders of either worker but as its answers say: nothing is
   lost between new and cur, by a move that stops half way, by copies that become moves, or
   when folders come and go, but for the mbox worker's three ways of losing it, each stated
   exactly (MailKept, for all folders, mail, bounds and names that commands may carry). *)
THEOREM BackendsKeepMail == BackendsSpec => MailKept
  BY MboxRefinesMailStore, MaildirRefinesMailStore, BackendsParts, PTL DEF MailKept

(* Once the debounce timers, the events and :check-mail are through, the counts of the
   selected folder are those of its files, whoever changed them (CountsFresh). *)
THEOREM BackendsCountsFresh == BackendsSpec => []CountsFresh
<1>1. Dir!Init => DirIInv
  BY DirInit
<1>2. DirIInv /\ [Dir!Next]_(Dir!vars) => DirIInv'
  BY DirStep
<1>3. DirIInv => CountsFresh
  <2> SUFFICES ASSUME DirIInv, Dir!Quiet, selected # "", ~outdated, ~missed, ~Dir!Unheard
               PROVE  CountsRight
    BY DEF CountsFresh, Dir!CountsFresh, CountsRight
  <2>1. ~events /\ ~timer /\ (maildirpp \/ fired = 0) /\ opening = Dir!NoOpening
    BY Zenon DEF Dir!Quiet, Dir!Free
  <2>2. ~(fired > 0)
    <3>1. CASE maildirpp
      BY <3>1, Zenon DEF Dir!Unheard
    <3>2. CASE ~maildirpp
      <4>1. fired = 0
        BY <2>1, <3>2, Zenon
      <4> QED
        BY ONLY <4>1
    <3> QED
      BY <3>1, <3>2
  <2> QED
    BY <2>1, <2>2, Zenon DEF DirIInv, CountsDue, Counting
<1> QED
  BY <1>1, <1>2, <1>3, BackendsParts, PTL DEF Dir!Spec
=============================================================================
