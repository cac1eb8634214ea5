------------------------------- MODULE Viewer -------------------------------
(***************************************************************************)
(* Viewing messages: :view opens a tab, :next and :delete move a viewer to *)
(* another message (commands/account, commands/msg/delete.go), an           *)
(* encrypted message is fetched and decrypted first (lib/messageview.go),   *)
(* the selected viewer fetches the part it draws (app/msgviewer.go), and    *)
(* the store remembers which bodies are on their way (lib/msgstore.go).     *)
(*                                                                         *)
(* The worker answers one request after the other.  Viewers are numbered    *)
(* in the order of their creation; a slot is a tab, whose viewer changes.   *)
(***************************************************************************)
EXTENDS Integers, Sequences, Sublists

CONSTANTS
  N,            \* messages 1..N in the order of the list
  Encrypted,    \* messages that PGP decrypts
  Unloaded,     \* messages whose header is not there at first
  MaxSlots,     \* bound on the tabs
  MaxCommands   \* bound on the commands and failures

VARIABLES
  sel,          \* the selected message of the store
  gone,         \* store.Deleted
  loaded,       \* messages with a header
  asking,       \* pendingHeaders
  pending,      \* pendingBodies
  calls,        \* bodyCallbacks: message -> what is to be done with the body
  requests,     \* Worker.actions
  made,         \* viewers and views: [msg, closed, part], part "no", "asked", "shown"
  slots,        \* the viewer of each tab, 0 when the tab is closed
  at,           \* the selected tab, 0 for the message list
  nav,          \* the tab in which the store's selection was last moved, 0 for another place
  stuck,        \* bodies that were cancelled and stay pending
  orphans,      \* viewers whose tab was gone when they were ready
  done          \* commands and failures so far

viewVars == <<sel, gone, loaded, asking, pending, calls, requests, made, slots, at, nav, stuck,
              orphans, done>>

Messages == 1..N
Step == done < MaxCommands /\ done' = done + 1
Open(v) == \E s \in DOMAIN slots : slots[s] = v /\ v # 0
Closed(vs, v) == IF v = 0 THEN vs ELSE [vs EXCEPT ![v].closed = TRUE]

(* What becomes of a body: a viewer of message msg replaces viewer from, or  *)
(* opens a new tab when from is 0; view is the one that fetched it. *)
Then(do, msg, from, view) == [do |-> do, msg |-> msg, from |-> from, view |-> view]
Request(kind, msg, then) == [kind |-> kind, msg |-> msg, then |-> then]

Init ==
  /\ sel = 1 /\ gone = {} /\ loaded = Messages \ Unloaded
  /\ asking \in SUBSET Unloaded
  /\ requests = [n \in 1..Cardinality(asking) |->
                   Request("header", Nth(asking, n), Then("none", Nth(asking, n), 0, 0))]
  /\ pending = {} /\ calls = [m \in Messages |-> <<>>]
  /\ made = <<>> /\ slots = <<>> /\ at = 0 /\ nav = 0
  /\ stuck = {} /\ orphans = {} /\ done = 0

-----------------------------------------------------------------------------
View(m) == [msg |-> m, closed |-> FALSE, part |-> "no"]
New == Len(made) + 1

(* NewMessageViewer for a message that is ready, in a new tab or, by         *)
(* ReplaceTab, in that of viewer from, which is closed even when its tab is   *)
(* gone.  n is what becomes of nav. *)
Shows(m, from, n) ==
  LET s == CHOOSE s \in DOMAIN slots : slots[s] = from
  IN /\ made' = Append(Closed(made, from), View(m))
     /\ IF from = 0 THEN /\ slots' = Append(slots, New) /\ at' = Len(slots) + 1
                         /\ nav' = IF m = sel THEN Len(slots) + 1 ELSE 0
                         /\ UNCHANGED orphans
        ELSE IF Open(from) THEN /\ slots' = [slots EXCEPT ![s] = New] /\ at' = s /\ nav' = n
                                /\ UNCHANGED orphans
        ELSE orphans' = orphans \cup {New} /\ nav' = n /\ UNCHANGED <<slots, at>>

(* MessageStore.FetchFull, after the requests of q: a body that is pending is *)
(* not asked for again, and the new callback is dropped. *)
FetchFull(m, then, q) ==
  IF m \in pending THEN requests' = q /\ UNCHANGED <<pending, calls>>
  ELSE /\ pending' = pending \cup {m}
       /\ calls' = [calls EXCEPT ![m] = Append(@, then)]
       /\ requests' = Append(q, Request("full", m, then))

(* NewMessageStoreView with its callback. *)
NewMessageStoreView(m, from, n, q) ==
  IF m \in Encrypted
  THEN /\ FetchFull(m, Then("view", m, from, 0), q)
       /\ nav' = IF m \in pending THEN 0 ELSE n
       /\ UNCHANGED <<made, slots, at, orphans>>
  ELSE Shows(m, from, n) /\ requests' = q /\ UNCHANGED <<pending, calls>>

-----------------------------------------------------------------------------
(* Commands *)

(* :view in the message list. *)
ViewMessage ==
  /\ at = 0 /\ sel \in loaded \ gone /\ Len(slots) < MaxSlots /\ Step
  /\ NewMessageStoreView(sel, 0, nav, requests)
  /\ UNCHANGED <<sel, gone, loaded, asking, stuck>>

(* A bug: the viewer is asked for with the message that was selected before. *)
NextPrevMsgLate ==
  /\ Step
  /\ \E to \in {sel - 1, sel + 1} \cap (Messages \ gone) :
       /\ sel' = to
       /\ IF at # 0 THEN NewMessageStoreView(sel, slots[at], at, requests)
          ELSE nav' = 0 /\ UNCHANGED <<pending, calls, requests, made, slots, at, orphans>>
  /\ UNCHANGED <<gone, loaded, asking, stuck>>

(* :next and :prev, with reloadViewer in a viewer. *)
NextPrevMsg ==
  /\ Step
  /\ \E to \in {sel - 1, sel + 1} \cap (Messages \ gone) :
       /\ sel' = to
       /\ CASE at = 0 -> nav' = 0 /\ UNCHANGED <<asking, pending, calls, requests, made, slots, at, orphans>>
            [] at # 0 /\ to \in loaded ->
                 NewMessageStoreView(to, slots[at], at, requests) /\ UNCHANGED asking
            [] OTHER ->
                 /\ asking' = asking \cup {to}
                 /\ requests' = IF to \in asking THEN requests
                                ELSE Append(requests, Request("header", to, Then("view", to, slots[at], 0)))
                 /\ nav' = IF to \in asking THEN 0 ELSE at
                 /\ UNCHANGED <<pending, calls, made, slots, at, orphans>>
  /\ UNCHANGED <<gone, loaded, stuck>>

(* A command that needs the whole message: :pipe -m, :save, :reply. *)
FetchesFull ==
  /\ at # 0 /\ Step
  /\ LET m == made[slots[at]].msg IN FetchFull(m, Then("pipe", m, 0, slots[at]), requests)
  /\ UNCHANGED <<sel, gone, loaded, asking, made, slots, at, nav, stuck, orphans>>

(* :delete in a viewer: the store's selection moves on at once, to a message *)
(* with a header or to none (0). *)
Delete ==
  LET m == made[slots[at]].msg
      left == Messages \ (gone \cup {m})
      after == {i \in left : i >= sel}
      next == CASE after # {} -> CHOOSE i \in after : \A j \in after : i <= j
                [] after = {} /\ left # {} -> CHOOSE i \in left : \A j \in left : j <= i
                [] OTHER -> 0
  IN /\ at # 0 /\ m \notin gone /\ next \in loaded \cup {0} /\ Step
     /\ gone' = gone \cup {m}
     /\ sel' = IF next = 0 THEN sel ELSE next
     /\ nav' = IF next = 0 THEN 0 ELSE at
     /\ requests' = Append(requests, Request("delete", m, Then("view", next, slots[at], 0)))
     /\ UNCHANGED <<loaded, asking, pending, calls, made, slots, at, stuck, orphans>>

(* RemoveTab of viewer v, which is closed. *)
Removes(v) ==
  LET s == CHOOSE s \in DOMAIN slots : slots[s] = v
  IN /\ made' = Closed(made, v)
     /\ slots' = IF Open(v) THEN [slots EXCEPT ![s] = 0] ELSE slots
     /\ IF Open(v) /\ at = s THEN at' \in {0} \cup {t \in DOMAIN slots : slots'[t] # 0}
        ELSE UNCHANGED at

Close ==
  /\ at # 0 /\ Step
  /\ Removes(slots[at]) /\ nav' = 0
  /\ UNCHANGED <<sel, gone, loaded, asking, pending, calls, requests, stuck, orphans>>

SelectTab ==
  /\ at' \in ({0} \cup {s \in DOMAIN slots : slots[s] # 0}) \ {at} /\ Step
  /\ UNCHANGED <<sel, gone, loaded, asking, pending, calls, requests, made, slots, nav, stuck,
                 orphans>>

(* PartViewer.Draw fetches the selected part once; that of a decrypted       *)
(* message is at hand. *)
Draw ==
  /\ at # 0 /\ made[slots[at]].part = "no"
  /\ LET v == slots[at]
         m == made[v].msg
         part == IF m \in Encrypted THEN "shown" ELSE "asked"
     IN /\ made' = [made EXCEPT ![v].part = part]
        /\ requests' = IF m \in Encrypted THEN requests
                       ELSE Append(requests, Request("part", m, Then("draw", m, 0, v)))
  /\ UNCHANGED <<sel, gone, loaded, asking, pending, calls, slots, at, nav, stuck, orphans, done>>

-----------------------------------------------------------------------------
(* Answers *)

(* The callbacks that show the message. *)
ToShow(c) == Picked(c, {i \in DOMAIN c : c[i].do = "view"})

Answers(kind) == requests # <<>> /\ Head(requests).kind = kind
Job == Head(requests)
Rest == Tail(requests)

(* FullMessage: the callbacks run; a message that cannot be decrypted is only *)
(* reported. *)
FullAnswered ==
  /\ Answers("full") /\ ~(Job.then.view # 0 /\ made[Job.then.view].closed)
  /\ requests' = Rest
  /\ pending' = pending \ {Job.msg}
  /\ calls' = [calls EXCEPT ![Job.msg] = <<>>]
  /\ LET opens == ToShow(calls[Job.msg])
     IN \/ opens # <<>> /\ Shows(Job.msg, Head(opens).from, nav) /\ UNCHANGED done
        \/ opens # <<>> /\ Step /\ nav' = 0 /\ UNCHANGED <<made, slots, at, orphans>>
        \/ opens = <<>> /\ UNCHANGED <<made, slots, at, nav, orphans, done>>
  /\ UNCHANGED <<sel, gone, loaded, asking, stuck>>

(* The view that asked was closed: Cancelled, and the body stays pending. *)
FullCancelled ==
  /\ Answers("full") /\ Job.then.view # 0 /\ made[Job.then.view].closed
  /\ requests' = Rest
  /\ stuck' = stuck \cup {Job.msg}
  /\ UNCHANGED <<sel, gone, loaded, asking, pending, calls, made, slots, at, nav, orphans, done>>

FullFails ==
  /\ Answers("full") /\ Step
  /\ requests' = Rest
  /\ pending' = pending \ {Job.msg}
  /\ calls' = [calls EXCEPT ![Job.msg] = <<>>]
  /\ nav' = 0
  /\ UNCHANGED <<sel, gone, loaded, asking, made, slots, at, stuck, orphans>>

(* MessageInfo and Done of FetchMessageHeaders, with the callback of :next. *)
HeaderAnswered ==
  /\ Answers("header")
  /\ loaded' = loaded \cup {Job.msg} /\ asking' = asking \ {Job.msg}
  /\ IF Job.then.do = "view" THEN NewMessageStoreView(Job.msg, Job.then.from, nav, Rest)
     ELSE requests' = Rest /\ UNCHANGED <<pending, calls, made, slots, at, nav, orphans>>
  /\ UNCHANGED <<sel, gone, stuck, done>>

HeaderFails ==
  /\ Answers("header") /\ Step
  /\ requests' = Rest /\ asking' = asking \ {Job.msg} /\ nav' = 0
  /\ UNCHANGED <<sel, gone, loaded, pending, calls, made, slots, at, stuck, orphans>>

PartAnswered ==
  /\ Answers("part")
  /\ requests' = Rest
  /\ made' = [made EXCEPT ![Job.then.view].part = "shown"]
  /\ UNCHANGED <<sel, gone, loaded, asking, pending, calls, slots, at, nav, stuck, orphans, done>>

(* Done of DeleteMessages: the viewer moves to the message found before, or   *)
(* its tab is closed when there is none. *)
DeleteDone ==
  /\ Answers("delete")
  /\ IF Job.then.msg = 0
     THEN /\ Removes(Job.then.from) /\ requests' = Rest /\ nav' = 0
          /\ UNCHANGED <<pending, calls, orphans>>
     ELSE NewMessageStoreView(Job.then.msg, Job.then.from, nav, Rest)
  /\ UNCHANGED <<sel, gone, loaded, asking, stuck, done>>

Next ==
  \/ ViewMessage \/ NextPrevMsg \/ FetchesFull \/ Delete \/ Close \/ SelectTab \/ Draw
  \/ FullAnswered \/ FullCancelled \/ FullFails \/ HeaderAnswered \/ HeaderFails
  \/ PartAnswered \/ DeleteDone

-----------------------------------------------------------------------------
(* A body that is pending is on its way, or was cancelled (stuck): else no    *)
(* command would ever get that message again.                                 *)
BodiesComing ==
  \A m \in Messages :
    /\ m \in pending \ stuck => \E i \in DOMAIN requests : requests[i].kind = "full" /\ requests[i].msg = m
    /\ calls[m] # <<>> => m \in pending

(* No tab shows a viewer whose pager is closed, and a viewer without a tab is *)
(* closed, but for those that were late (orphans).                           *)
ViewersClosed ==
  \A v \in DOMAIN made :
    /\ Open(v) => ~made[v].closed
    /\ ~Open(v) => made[v].closed \/ v \in orphans

(* Once everything is answered, the viewer in which the selection was last    *)
(* moved shows the selected message, unless that came when the viewer had     *)
(* been replaced already (orphans): :delete and :archive act on the viewer's  *)
(* message, :next on the store's selection.                                   *)
ViewerFollows ==
  requests = <<>> /\ nav # 0 =>
    \/ slots[nav] = 0
    \/ made[slots[nav]].msg = sel
    \/ \E v \in orphans : made[v].msg = sel
=============================================================================
