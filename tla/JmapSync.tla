------------------------------ MODULE JmapSync ------------------------------
(***************************************************************************)
(* The cache of the JMAP worker (worker/jmap, worker/jmap/cache) between   *)
(* the server, the goroutine of the event source (handleChange and         *)
(* refreshQueriesAndThreads, push.go) and the worker, whose requests       *)
(* overlap with those of the goroutine.                                    *)
(*                                                                         *)
(* The server's past is kept whole: its n-th state is the n-th snapshot,   *)
(* and the states of emails, threads and queries are all numbered by it. A *)
(* request reads the cache and is answered by the server in one step; its  *)
(* response is put into the cache in a later one.                          *)
(***************************************************************************)
EXTENDS Integers, Sequences, FiniteSets, SequencesExt, Functions

CONSTANTS
  Order,       \* all emails, in the order of every mailbox
  Boxes,       \* mailboxes
  First,       \* the first snapshot
  ThreadOf,    \* the thread of an email
  MaxEvents    \* bound on changes, actions of the worker and faults together

VARIABLES
  hist,      \* snapshots of the server: [boxes, seen] of each email; no boxes: no email
  pushes,    \* state changes the event source has yet to deliver
  emails,    \* cached emails
  state,     \* cached email state, 0 for ""
  contents,  \* cached folder contents, q = 0 for none
  threads,   \* cached threads
  tstate,    \* cached thread state
  listener,  \* the goroutine of the event source and its request
  work,      \* the worker and its request
  listed,    \* messages in the store of each mailbox
  opened,    \* mailboxes whose contents the store has got
  commands,
  latest,    \* history: the latest state of the answers stored so far
  astray     \* history: what has set cache, store and server apart

vars == <<hist, pushes, emails, state, contents, threads, tstate, listener, work, listed,
          opened, commands, latest, astray>>

Emails == Range(Order)
Threads == Range(ThreadOf)
now == Len(hist)

NoEmail == [kind |-> "none", boxes |-> {}, seen |-> FALSE]
Partial == [kind |-> "partial", boxes |-> {}, seen |-> FALSE]
Full(k, e) == [kind |-> "full", boxes |-> hist[k][e].boxes, seen |-> hist[k][e].seen]
NoContents == [ids |-> <<>>, q |-> 0]

Exists(k, e) == hist[k][e].boxes # {}
Listing(k, b) == SelectSeq(Order, LAMBDA e : b \in hist[k][e].boxes)
Members(k, t) == {e \in Emails : ThreadOf[e] = t /\ Exists(k, e)}
Changed(s, k) == {e \in Emails : \E j \in (s + 1)..k : hist[j][e] # hist[j - 1][e]}

Idle == [pc |-> "idle"]

(* What one change makes of e: moved, copied, created or destroyed, or else flagged. *)
ChangesOf(snapshot, e) ==
  {[boxes |-> bs, seen |-> bs # {} /\ snapshot[e].seen] : bs \in SUBSET Boxes}
    \cup {[snapshot[e] EXCEPT !.seen = snapshot[e].boxes # {} /\ ~@]}

(* Without cache-state the cache starts empty; with it, it is that of an earlier run, and the
   mail may have changed since, of which no push tells. *)
Init ==
  /\ \E persisted, away \in BOOLEAN :
       /\ away => persisted
       /\ IF away THEN \E e \in Emails : \E new \in ChangesOf(First, e) \ {First[e]} :
                         hist = <<First, [First EXCEPT ![e] = new]>>
          ELSE hist = <<First>>
       /\ astray = IF away THEN {"away"} ELSE {}
       /\ emails = [e \in Emails |-> IF persisted /\ Exists(1, e) THEN Full(1, e) ELSE NoEmail]
       /\ state = IF persisted THEN 1 ELSE 0
       /\ contents = [b \in Boxes |->
                        IF persisted THEN [ids |-> Listing(1, b), q |-> 1] ELSE NoContents]
       /\ threads = [t \in Threads |-> IF persisted THEN Members(1, t) ELSE {}]
       /\ tstate = IF persisted THEN 1 ELSE 0
  /\ pushes = <<>>
  /\ listener = Idle /\ work = Idle
  /\ listed = [b \in Boxes |-> {}] /\ opened = {}
  /\ commands = 0
  /\ latest = 1

-----------------------------------------------------------------------------
(* The server.                                                             *)

ChangedTo(e) == ChangesOf(hist[now], e)

Faults == astray \cap {"lost", "dropped", "refused"}
Budget == now + commands + Cardinality(Faults) <= MaxEvents
Faultless == Faults = {} /\ Budget

Sets(e, new) ==
  /\ Budget /\ new # hist[now][e]
  /\ hist' = Append(hist, [hist[now] EXCEPT ![e] = new])
  /\ pushes' = Append(pushes, now + 1)

(* Another client, or an AppendMessage, CopyMessages, MoveMessages or DeleteMessages of the
   worker: they leave the cache alone and wait for the push. *)
ServerChanges(e, new) ==
  /\ Sets(e, new)
  /\ UNCHANGED <<emails, state, contents, threads, tstate, listener, work, listed, opened,
                 commands, astray, latest>>

(* Listen fails; what happens in the five seconds before it is called again is not pushed. *)
PushLost ==
  /\ Faultless /\ pushes # <<>>
  /\ pushes' = Tail(pushes)
  /\ astray' = astray \cup {"lost"}
  /\ UNCHANGED <<hist, emails, state, contents, threads, tstate, listener, work, listed, opened,
                 commands, latest>>

-----------------------------------------------------------------------------
(* Parts of the handlers.                                                  *)

(* PutEmailState(k) after only some emails were fetched jumps over the changes of others. *)
Skips(k, got) ==
  IF state # 0 /\ \E e \in Changed(state, k) \ got : emails[e].kind # "none"
  THEN {"skipped"} ELSE {}

(* An answer is stored, after a later one perhaps. *)
Stores(k) ==
  /\ latest' = IF k > latest THEN k ELSE latest
  /\ UNCHANGED <<hist, pushes>>

Overtakes(k) == IF k < latest THEN {"overtaken"} ELSE {}

(* MessagesDeleted in the store. *)
Dropped(list, gone) == IF Cardinality(list) < Cardinality(gone) THEN list ELSE list \ gone

(* Deliberate bug: added messages are taken to be in the places of the old list. *)
RebuiltInOldPlaces(ids, removed, added) ==
  {SelectSeq(ids, LAMBDA id : id \notin removed) \o tail : tail \in SetToSeqs(Range(added))}

(* The cached list of a mailbox after removals and additions at the given indices; what is
   left over comes last, in the order of a Go map. *)
Rebuilt(ids, removed, added) ==
  LET Walk(acc, id) ==
        IF id \in removed THEN acc
        ELSE IF acc.i \in DOMAIN acc.left
        THEN [ids |-> acc.ids \o <<acc.left[acc.i], id>>, i |-> acc.i + 2,
              left |-> Restrict(acc.left, DOMAIN acc.left \ {acc.i})]
        ELSE [acc EXCEPT !.ids = Append(@, id), !.i = @ + 1]
      end == FoldLeft(Walk, [ids |-> <<>>, i |-> 0, left |-> added], ids)
  IN {end.ids \o tail : tail \in SetToSeqs(Range(end.left))}

(* Email/queryChanges of a mailbox between two states; the server may report emails that
   have only changed as removed and added again. *)
Stayed(b, q, k) == Changed(q, k) \cap ToSet(Listing(q, b)) \cap ToSet(Listing(k, b))
Removals(b, q, k, again) ==
  (ToSet(Listing(q, b)) \ ToSet(Listing(k, b))) \cup (again \cap Stayed(b, q, k))
Additions(b, q, k, again) ==
  LET list == Listing(k, b)
      new == (ToSet(list) \ ToSet(Listing(q, b))) \cup (again \cap Stayed(b, q, k))
  IN [i \in {j \in 0..(Len(list) - 1) : list[j + 1] \in new} |-> list[i + 1]]

Adjacent(added) == \E i \in DOMAIN added : i + 1 \in DOMAIN added

(* The store of b after MessagesDeleted and MessageInfo for fetched emails; skip are those
   known to be removed from b. *)
Told(list, b, got, k, skip) ==
  (list \ {e \in got : b \in emails[e].boxes \ hist[k][e].boxes})
    \cup {e \in got \ skip : b \in hist[k][e].boxes}

PutEmails(got, k) == emails' = [e \in Emails |-> IF e \in got THEN Full(k, e) ELSE emails[e]]

Present(S, k) == {e \in S : Exists(k, e)}

-----------------------------------------------------------------------------
(* The goroutine of the event source.                                      *)

Running == work.pc # "crashed"

(* handleChange asks for all that has changed since the cached states. *)
HandleChange ==
  /\ Running /\ listener.pc = "idle" /\ pushes # <<>>
  /\ pushes' = Tail(pushes)
  /\ listener' =
       [pc |-> "changes", at |-> now,
        since |-> IF Head(pushes) = state THEN 0 ELSE state,
        tsince |-> IF Head(pushes) = tstate THEN 0 ELSE tstate,
        contents |-> contents]
  /\ UNCHANGED <<latest, hist, emails, state, contents, threads, tstate, work, listed, opened,
                 commands,
                 astray>>

(* w.Do fails: the push is forgotten. *)
RequestFails ==
  /\ Running /\ Faultless /\ listener.pc # "idle"
  /\ listener' = Idle
  /\ astray' = astray \cup {IF listener.pc = "changes" THEN "lost" ELSE "dropped"}
  /\ UNCHANGED <<hist, pushes, emails, state, contents, threads, tstate, work, listed, opened,
                 commands, latest>>

(* The responses of handleChange, in their order: queries, threads, emails. Then
   refreshQueriesAndThreads asks for the added emails that were not among the changed ones,
   and for those of changed threads. The server may refuse to calculate changes. *)
Changes(again, refuses) ==
  /\ Running /\ listener.pc = "changes"
  /\ refuses # {} => Faultless
  /\ LET k == listener.at
         asked == {b \in Boxes : listener.contents[b].q # 0}
         q == [b \in asked |-> listener.contents[b].q]
         queried == IF "queries" \in refuses THEN {} ELSE asked
         removed == [b \in queried |-> Removals(b, q[b], k, again)]
         added == [b \in queried |-> Additions(b, q[b], k, again)]
         gone == [b \in Boxes |-> IF b \in queried THEN removed[b] \ Range(added[b]) ELSE {}]
         got == IF listener.since = 0 \/ "emails" \in refuses THEN {}
                ELSE Present(Changed(listener.since, k), k)
         changedThreads ==
           IF listener.tsince = 0 THEN {}
           ELSE {t \in Threads : Members(k, t) \notin {{}, Members(listener.tsince, t)}}
         new == UNION {Range(added[b]) \ removed[b] : b \in queried} \ got
         more == Present(new \cup UNION {Members(k, t) : t \in changedThreads}, now)
         lists == [b \in Boxes |->
                     IF b \in queried
                     THEN {[ids |-> ids, q |-> k] :
                            ids \in Rebuilt(listener.contents[b].ids, removed[b], added[b])}
                     ELSE {IF b \in asked THEN NoContents ELSE contents[b]}]
     IN /\ contents' \in {f \in [Boxes -> UNION Range(lists)] : \A b \in Boxes : f[b] \in lists[b]}
        /\ threads' = [t \in Threads |-> IF t \in changedThreads THEN Members(k, t)
                                         ELSE threads[t]]
        /\ tstate' = IF listener.tsince = 0 THEN tstate ELSE k
        /\ PutEmails(got, k)
        /\ state' = IF listener.since = 0 \/ "emails" \in refuses THEN state ELSE k
        /\ listed' = [b \in Boxes |-> Told(Dropped(listed[b], gone[b]), b, got, k, gone[b])]
        /\ listener' = IF more = {} THEN Idle ELSE [pc |-> "emails", at |-> now, ids |-> more]
        /\ astray' = (IF refuses = {} /\ k = now THEN astray \ {"lost", "away"} ELSE astray)
             \cup Overtakes(k) \cup (IF refuses = {} THEN {} ELSE {"refused"})
             \cup (IF \E b \in queried : Adjacent(added[b]) THEN {"jumbled"} ELSE {})
  /\ Stores(listener.at)
  /\ UNCHANGED <<work, opened, commands>>

(* The response to refreshQueriesAndThreads. *)
Refreshed ==
  /\ Running /\ listener.pc = "emails"
  /\ PutEmails(listener.ids, listener.at)
  /\ state' = listener.at
  /\ listed' = [b \in Boxes |-> Told(listed[b], b, listener.ids, listener.at, {})]
  /\ astray' = astray \cup Skips(listener.at, listener.ids) \cup Overtakes(listener.at)
  /\ listener' = Idle
  /\ Stores(listener.at)
  /\ UNCHANGED <<contents, threads, tstate, work, opened, commands>>

-----------------------------------------------------------------------------
(* The worker.                                                             *)

Takes == Running /\ work.pc = "idle" /\ Budget

(* FetchDirectoryContents, of the cached order or another one. *)
FetchContents(b, other) ==
  /\ Takes /\ commands' = commands + 1
  /\ IF contents[b].q = 0 \/ other
     THEN work' = [pc |-> "contents", at |-> now, b |-> b] /\ UNCHANGED <<listed, opened, latest>>
     ELSE /\ listed' = [listed EXCEPT ![b] = ToSet(contents[b].ids)]
          /\ opened' = opened \cup {b}
          /\ UNCHANGED work
  /\ UNCHANGED <<hist, pushes, emails, state, contents, threads, tstate, listener, astray, latest>>

ContentsAnswered(canCalculateChanges) ==
  /\ work.pc = "contents"
  /\ canCalculateChanges \/ Faultless
  /\ LET b == work.b
         list == Listing(work.at, b)
     IN /\ contents' = [contents EXCEPT ![b] =
                          IF canCalculateChanges THEN [ids |-> list, q |-> work.at]
                          ELSE NoContents]
        /\ listed' = [listed EXCEPT ![b] = ToSet(list)]
        /\ opened' = opened \cup {b}
        /\ astray' = astray
             \cup Overtakes(work.at)
             \cup (IF listener.pc = "changes" /\ work.at < listener.at THEN {"overtaken"} ELSE {})
             \cup (IF canCalculateChanges THEN {} ELSE {"refused"})
  /\ work' = Idle
  /\ Stores(work.at)
  /\ UNCHANGED <<emails, state, threads, tstate, listener, commands>>

(* getEmails: what is not cached is asked for. *)
Missing(S) == {e \in S : emails[e].kind = "none"}

FetchHeaders(S) ==
  /\ Takes /\ commands' = commands + 1
  /\ S # {} /\ S \subseteq UNION Range(listed)
  /\ work' = [pc |-> "headers", at |-> now, ids |-> S]
  /\ UNCHANGED <<hist, pushes, emails, state, contents, threads, tstate, listener, listed, opened,
                 astray, latest>>

FetchFull(S) ==
  /\ Takes /\ commands' = commands + 1
  /\ S # {} /\ S \subseteq UNION Range(listed)
  /\ work' = [pc |-> "full", at |-> now, ids |-> S]
  /\ UNCHANGED <<hist, pushes, emails, state, contents, threads, tstate, listener, listed, opened,
                 astray, latest>>

(* getEmails for full messages caches emails that have but their identifiers. *)
FullAnswered ==
  /\ work.pc = "full"
  /\ LET missing == Missing(work.ids)
     IN /\ emails' = [e \in Emails |-> IF e \in Present(missing, work.at) THEN Partial
                                       ELSE emails[e]]
        /\ state' = IF missing = {} THEN state ELSE work.at
        /\ astray' = IF missing = {} THEN astray
                     ELSE astray \cup Skips(work.at, missing) \cup Overtakes(work.at)
  /\ work' = Idle
  /\ Stores(work.at)
  /\ UNCHANGED <<contents, threads, tstate, listener, listed, opened, commands>>

(* Headers are posted, with those of cached threads; the rest of the threads is asked for. *)
HeadersAnswered ==
  /\ work.pc = "headers"
  /\ LET missing == Missing(work.ids)
         posted == {e \in work.ids : emails'[e].kind # "none"}
         wanted == {t \in {ThreadOf[e] : e \in posted} : threads[t] = {}}
         told == posted \cup UNION {threads[ThreadOf[e]] : e \in posted}
     IN /\ PutEmails(Present(missing, work.at), work.at)
        /\ state' = IF missing = {} THEN state ELSE work.at
        /\ astray' = IF missing = {} THEN astray
                     ELSE astray \cup Skips(work.at, missing) \cup Overtakes(work.at)
        /\ work' = IF \E e \in told : emails'[e].kind = "partial" THEN [pc |-> "crashed"]
                   ELSE IF wanted = {} THEN Idle
                   ELSE [pc |-> "threads", at |-> now, ids |-> wanted]
  /\ Stores(work.at)
  /\ UNCHANGED <<contents, threads, tstate, listener, listed, opened, commands>>

(* fetchEntireThreads and the rest of handleFetchMessageHeaders. *)
ThreadsAnswered ==
  /\ work.pc = "threads"
  /\ LET got == UNION {Members(work.at, t) : t \in work.ids}
     IN /\ threads' = [t \in Threads |-> IF t \in work.ids THEN Members(work.at, t)
                                         ELSE threads[t]]
        /\ tstate' = work.at
        /\ PutEmails(got, work.at)
        /\ state' = work.at
        /\ astray' = astray \cup Skips(work.at, got) \cup Overtakes(work.at)
  /\ work' = Idle
  /\ Stores(work.at)
  /\ UNCHANGED <<contents, listener, listed, opened, commands>>

(* updateFlags: Email/set at the server; the flag is patched, the rest stays. *)
UpdateFlags(e) ==
  /\ Takes
  /\ e \in UNION Range(listed) /\ Exists(now, e)
  /\ Sets(e, [hist[now][e] EXCEPT !.seen = ~@])
  /\ work' = [pc |-> "flags", at |-> now + 1, e |-> e]
  /\ UNCHANGED <<emails, state, contents, threads, tstate, listener, listed, opened, commands,
                 astray, latest>>

(* The cached email and the stores are updated, but not the email state. *)
FlagsAnswered ==
  /\ work.pc = "flags"
  /\ LET e == work.e
         seen == hist[work.at][e].seen
         known == emails[e].kind = "full"
     IN /\ emails' = IF known THEN [emails EXCEPT ![e].seen = seen] ELSE emails
        /\ listed' = [b \in Boxes |-> listed[b] \cup (IF b \in emails[e].boxes THEN {e} ELSE {})]
        /\ work' = IF emails[e].kind = "partial" /\ seen THEN [pc |-> "crashed"] ELSE Idle
        /\ astray' = astray \cup (IF known THEN Overtakes(work.at) ELSE {})
  /\ Stores(work.at)
  /\ UNCHANGED <<state, contents, threads, tstate, listener, opened, commands>>

WorkFails ==
  /\ work.pc \in {"contents", "headers", "threads", "full"}
  /\ work' = Idle
  /\ UNCHANGED <<hist, pushes, emails, state, contents, threads, tstate, listener, listed, opened,
                 commands, astray, latest>>

-----------------------------------------------------------------------------
Next ==
  \/ \E e \in Emails : \E new \in ChangedTo(e) : ServerChanges(e, new)
  \/ PushLost \/ HandleChange \/ RequestFails
  \/ \E again \in SUBSET Emails, refuses \in {{}, {"queries"}, {"emails"}} :
       Changes(again, refuses)
  \/ Refreshed
  \/ \E b \in Boxes, other \in BOOLEAN : FetchContents(b, other)
  \/ \E canCalculateChanges \in BOOLEAN : ContentsAnswered(canCalculateChanges)
  \/ \E S \in SUBSET Emails : FetchHeaders(S) \/ FetchFull(S)
  \/ HeadersAnswered \/ ThreadsAnswered \/ FullAnswered
  \/ \E e \in Emails : UpdateFlags(e)
  \/ FlagsAnswered \/ WorkFails

Spec == Init /\ [][Next]_vars

-----------------------------------------------------------------------------
(* A cached email is as on the server, or it has changed since the cached state, so that the
   next push brings it (the comment at worker/jmap/set.go:46): unless a state was stored that
   jumps over changes, or an answer was stored over a later one. *)
CacheHonest ==
  astray \cap {"skipped", "overtaken"} = {} =>
    \A e \in Emails :
      emails[e].kind = "full" /\ Exists(now, e) /\ e \notin Changed(state, now) =>
        emails[e] = Full(now, e)

(* The cached list of a mailbox is the server's at its query state, unless two messages were
   added side by side (push.go:311-325). *)
ContentsHonest ==
  "jumbled" \notin astray =>
    \A b \in Boxes : contents[b].q # 0 => contents[b].ids = Listing(contents[b].q, b)

(* At rest the store of an opened mailbox has the messages the mailbox has, unless a push or
   its request was lost, the server refused to calculate changes, or one of the recorded
   races happened. *)
ShownRight ==
  pushes = <<>> /\ listener.pc = "idle" /\ work.pc = "idle"
    /\ astray \cap {"lost", "away", "dropped", "refused", "overtaken"} = {} =>
  \A b \in opened : listed[b] = ToSet(Listing(now, b))

=============================================================================
