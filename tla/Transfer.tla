------------------------------ MODULE Transfer ------------------------------
(***************************************************************************)
(* Commands that carry whole messages in a goroutine of their own:         *)
(* :move and :copy to another account (commands/msg/move.go, copy.go),     *)
(* :archive (archive.go), :export-mbox and :import-mbox                    *)
(* (commands/account).  They fetch through MessageStore.FetchFull or the   *)
(* worker, append through MessageStore.Append, and delete what they moved. *)
(*                                                                         *)
(* The account has Folders; UIDs are those of a folder, as in IMAP, so the *)
(* same UID names another message in another folder.  A message is         *)
(* <<folder, uid>>.  The answers of both workers reach the main goroutine  *)
(* in one channel; timers of 30 seconds may fire before any answer.        *)
(***************************************************************************)
EXTENDS Integers, SequencesExt, FiniteSetsExt

CONSTANTS
  Folders,      \* folders of the account the messages are in
  Uids,         \* the UIDs of the messages of every folder, in order 1..n
  Unsupported,  \* whether the workers refuse appends and moves
  MaxRetries,   \* retries of an export, 10 in the code
  Plans         \* bounds: [kinds, faults], the commands to come, and how many
                \* errors, lost answers and timers that fire early

VARIABLES
  mailbox,      \* folder -> the UIDs in it
  there,        \* what was appended to the other account or archive, in order
  file,         \* messages written to the exported file
  folder,       \* the folder whose store is selected
  pendingBodies,
  bodyCallbacks,\* folder -> UID -> the job called back, 0 if none
  marks,        \* folder -> UIDs in store.Deleted
  jobs,         \* the commands: see NewJob
  actions,      \* account -> actions posted and not taken
  messages,     \* answers posted and not received
  stuck,        \* the main goroutine waits for a channel nobody reads
  astray,       \* messages whose place another one took, or that came empty
  excused,      \* messages that may be in two places: see MovedOnce
  kinds,        \* the commands to come
  faults        \* faults to come

transferVars == <<mailbox, there, file, folder, pendingBodies, bodyCallbacks, marks, jobs,
                  actions, messages, stuck, astray, excused, kinds, faults>>

Messages == Folders \X Uids
Empty == <<"empty", 0>>     \* what a reader gives that was read before

NewJob(kind, us) ==
  [kind |-> kind, from |-> folder, uids |-> us,
   got |-> <<>>,           \* messages: [uid, content]
   fetched |-> FALSE,      \* fetchDone holds a value
   phase |-> "fetching", todo |-> <<>>,
   done |-> "none",        \* what the channel done of this round holds
   appended |-> {}, timeout |-> FALSE, retries |-> 0,
   wg |-> 0, success |-> TRUE,
   claimed |-> 0]          \* messages reported as moved, archived or exported

Init ==
  /\ mailbox = [f \in Folders |-> Uids]
  /\ there = <<>> /\ file = <<>>
  /\ folder \in Folders
  /\ pendingBodies = [f \in Folders |-> {}]
  /\ bodyCallbacks = [f \in Folders |-> [u \in Uids |-> 0]]
  /\ marks = [f \in Folders |-> {}]
  /\ jobs = <<>>
  /\ actions = [here |-> <<>>, there |-> <<>>]
  /\ messages = <<>>
  /\ stuck = FALSE /\ astray = {} /\ excused = {}
  /\ \E p \in Plans : kinds = p.kinds /\ faults = p.faults

Fault == faults > 0 /\ faults' = faults - 1
Post(to, as) == actions' = [actions EXCEPT ![to] = @ \o as]
Inorder(us) == SetToSortSeq(us, <)

-----------------------------------------------------------------------------
(* The main goroutine starts a command. *)

Starts(kind) == ~stuck /\ kinds # <<>> /\ Head(kinds) = kind /\ kinds' = Tail(kinds)
Number == Len(jobs) + 1

(* Copies stay in two places, and so may what two commands carry at once:  *)
(* a move marks its messages as deleted only when it has appended them.    *)
Excusing(kind, us) ==
  LET carried == UNION {jobs[j].uids : j \in {j \in DOMAIN jobs :
                   jobs[j].from = folder /\ jobs[j].phase # "ended"}}
  IN excused' = excused \cup ({folder} \X (IF kind = "copy" THEN us ELSE us \cap carried))

FetchFull(us, j, f) ==
  LET toFetch == us \ pendingBodies[f] IN
  /\ pendingBodies' = [pendingBodies EXCEPT ![f] = @ \cup us]
  /\ bodyCallbacks' = [bodyCallbacks EXCEPT ![f] =
       [u \in Uids |-> IF u \in toFetch THEN j ELSE @[u]]]
  /\ IF toFetch = {} THEN UNCHANGED actions
     ELSE Post("here", <<[type |-> "fetch", job |-> 0, folder |-> f, uids |-> toFetch]>>)

StartTransfer ==
  /\ \E kind \in {"move", "copy"}, us \in SUBSET mailbox[folder] \ {{}} :
       /\ Starts(kind)
       /\ jobs' = Append(jobs, NewJob(kind, us))
       /\ FetchFull(us, Number, folder)
       /\ Excusing(kind, us)
  /\ UNCHANGED <<mailbox, there, file, folder, marks, messages, stuck, astray, faults>>

(* :archive, every message in a month of its own: one Move each. *)
StartArchive ==
  /\ Starts("archive")
  /\ \E us \in SUBSET mailbox[folder] \ {{}} :
       /\ jobs' = Append(jobs, [NewJob("archive", us) EXCEPT !.phase = "waiting",
                                                             !.wg = Cardinality(us)])
       /\ marks' = [marks EXCEPT ![folder] = @ \cup us]
       /\ Post("here", [i \in 1..Cardinality(us) |->
            [type |-> "move", job |-> Number, folder |-> folder, uids |-> {Inorder(us)[i]}]])
       /\ Excusing("archive", us)
  /\ UNCHANGED <<mailbox, there, file, folder, pendingBodies, bodyCallbacks, messages, stuck,
                 astray, faults>>

StartExport ==
  /\ Starts("export") /\ mailbox[folder] # {}
  /\ jobs' = Append(jobs, [NewJob("export", mailbox[folder]) EXCEPT !.phase = "appending"])
  /\ UNCHANGED <<mailbox, there, file, folder, pendingBodies, bodyCallbacks, marks, actions,
                 messages, stuck, astray, excused, faults>>

(* The file has one message for every UID; todo holds them. *)
StartImport ==
  /\ Starts("import")
  /\ jobs' = Append(jobs, [NewJob("import", {}) EXCEPT
       !.phase = "appending", !.retries = 4,
       !.todo = [i \in 1..Cardinality(Uids) |-> [uid |-> i, content |-> <<"file", i>>]]])
  /\ UNCHANGED <<mailbox, there, file, folder, pendingBodies, bodyCallbacks, marks, actions,
                 messages, stuck, astray, excused, faults>>

ChangeFolder ==
  /\ ~stuck
  /\ \E f \in Folders \ {folder} : folder' = f
  /\ UNCHANGED <<mailbox, there, file, pendingBodies, bodyCallbacks, marks, jobs, actions,
                 messages, stuck, astray, excused, kinds, faults>>

-----------------------------------------------------------------------------
(* The goroutine of a move or copy. *)

Goes(j, phase) == jobs[j].phase = phase
Carries(j) == jobs[j].kind \in {"move", "copy"}

FetchDone(j) ==
  /\ Goes(j, "fetching") /\ jobs[j].fetched
  /\ jobs' = [jobs EXCEPT ![j].phase = "appending", ![j].todo = jobs[j].got]
  /\ UNCHANGED <<mailbox, there, file, folder, pendingBodies, bodyCallbacks, marks, actions,
                 messages, stuck, astray, excused, kinds, faults>>

(* Whatever was fetched by then is moved. *)
FetchTimesOut(j) ==
  /\ Goes(j, "fetching") /\ ~jobs[j].fetched
  /\ \/ Fault
     \/ messages = <<>> /\ actions["here"] = <<>> /\ UNCHANGED faults
  /\ jobs' = [jobs EXCEPT ![j].phase = IF @ = "fetching" /\ jobs[j].got = <<>>
                                       THEN "ended" ELSE "appending",
                          ![j].todo = jobs[j].got]
  /\ UNCHANGED <<mailbox, there, file, folder, pendingBodies, bodyCallbacks, marks, actions,
                 messages, stuck, astray, excused, kinds>>

(* Append posts CreateDirectory, which is answered to nobody, and          *)
(* AppendMessage.  A copy does not wait for the answer.                    *)
AppendNext(j) ==
  /\ Goes(j, "appending") /\ jobs[j].todo # <<>> /\ jobs[j].kind # "export"
  /\ LET m == Head(jobs[j].todo) IN
     /\ Post("there", <<[type |-> "append", job |-> j, uid |-> m.uid, content |-> m.content,
                         round |-> jobs[j].retries]>>)
     /\ jobs' = [jobs EXCEPT ![j].done = "none",
                             ![j].phase = IF jobs[j].kind = "copy" THEN @ ELSE "waiting",
                             ![j].todo = IF jobs[j].kind = "copy" THEN Tail(@) ELSE @]
  /\ UNCHANGED <<mailbox, there, file, folder, pendingBodies, bodyCallbacks, marks, messages,
                 stuck, astray, excused, kinds, faults>>

(* The reader of a message fails: a move stops there, a copy goes on. *)
ReadFails(j) ==
  /\ Goes(j, "appending") /\ jobs[j].todo # <<>> /\ Carries(j) /\ Fault
  /\ jobs' = [jobs EXCEPT ![j].todo = IF jobs[j].kind = "copy" THEN Tail(@) ELSE <<>>]
  /\ UNCHANGED <<mailbox, there, file, folder, pendingBodies, bodyCallbacks, marks, actions,
                 messages, stuck, astray, excused, kinds>>

(* The answer to the append; an import tries a message four times.  Its    *)
(* channel has no room: the main goroutine has handed the value over.      *)
Answered(j) ==
  /\ Goes(j, "waiting") /\ jobs[j].kind \in {"move", "import"} /\ jobs[j].done # "none"
  /\ LET ok == jobs[j].done = "yes"
         import == jobs[j].kind = "import"
         next == ok \/ (import /\ jobs[j].retries = 1)
     IN jobs' = [jobs EXCEPT ![j].phase = "appending", ![j].done = "none",
                             ![j].todo = IF next THEN Tail(@) ELSE IF import THEN @ ELSE <<>>,
                             ![j].retries = IF ~import THEN 0 ELSE IF next THEN 4 ELSE @ - 1]
  /\ UNCHANGED <<mailbox, there, file, folder, pendingBodies, bodyCallbacks, marks, actions,
                 messages, stuck, astray, excused, kinds, faults>>

NoAnswerComes(j) ==
  /\ \A i \in DOMAIN actions["there"] : actions["there"][i].job # j
  /\ \A i \in DOMAIN messages : messages[i].job # j

(* The message may still arrive there: it will be in both places. *)
AppendTimesOut(j) ==
  /\ Goes(j, "waiting") /\ jobs[j].kind \in {"move", "import"} /\ jobs[j].done = "none"
  /\ IF stuck \/ NoAnswerComes(j) THEN UNCHANGED faults ELSE Fault
  /\ jobs' = [jobs EXCEPT ![j].timeout = TRUE, ![j].todo = <<>>,
                          ![j].phase = IF jobs[j].kind = "import" THEN "ended" ELSE "appending"]
  /\ excused' = excused \cup {Head(jobs[j].todo).content}
  /\ UNCHANGED <<mailbox, there, file, folder, pendingBodies, bodyCallbacks, marks, actions,
                 messages, stuck, astray, kinds>>

Deletes(j, us) ==
  /\ Goes(j, "appending") /\ jobs[j].todo = <<>> /\ jobs[j].kind # "export"
  /\ LET f == jobs[j].from
         deletes == jobs[j].kind = "move" /\ us # {}
     IN /\ jobs' = [jobs EXCEPT ![j].phase = IF deletes THEN "deleting" ELSE "ended"]
        /\ IF ~deletes THEN UNCHANGED <<marks, actions>>
           ELSE /\ marks' = [marks EXCEPT ![f] = @ \cup us]
                /\ Post("here", <<[type |-> "delete", job |-> j, folder |-> f, uids |-> us]>>)
  /\ UNCHANGED <<mailbox, there, file, folder, pendingBodies, bodyCallbacks, messages, stuck,
                 astray, excused, kinds, faults>>

(* Bug: all messages of the command are deleted, appended or not. *)
FinishDeletesAll(j) == Deletes(j, jobs[j].uids)

Finish(j) == Deletes(j, jobs[j].appended)

-----------------------------------------------------------------------------
(* The goroutines of archive and export. *)

ArchiveDone(j) ==
  /\ Goes(j, "waiting") /\ jobs[j].kind = "archive" /\ jobs[j].wg = 0
  /\ jobs' = [jobs EXCEPT ![j].phase = "ended",
       ![j].claimed = IF jobs[j].success THEN Cardinality(jobs[j].uids) ELSE 0]
  /\ UNCHANGED <<mailbox, there, file, folder, pendingBodies, bodyCallbacks, marks, actions,
                 messages, stuck, astray, excused, kinds, faults>>

ExportFetch(j) ==
  /\ Goes(j, "appending") /\ jobs[j].kind = "export"
  /\ IF jobs[j].uids = {} \/ jobs[j].retries > MaxRetries
     THEN jobs' = [jobs EXCEPT ![j].phase = "ended"] /\ UNCHANGED actions
     ELSE /\ jobs' = [jobs EXCEPT ![j].phase = "waiting", ![j].done = "none"]
          /\ Post("here", <<[type |-> "fetch", job |-> j, folder |-> jobs[j].from,
                             uids |-> jobs[j].uids]>>)
  /\ UNCHANGED <<mailbox, there, file, folder, pendingBodies, bodyCallbacks, marks, messages,
                 stuck, astray, excused, kinds, faults>>

(* appended is processedUids: what was written is not fetched again. *)
ExportAnswered(j) ==
  /\ Goes(j, "waiting") /\ jobs[j].kind = "export" /\ jobs[j].done # "none"
  /\ jobs' = [jobs EXCEPT
       ![j].phase = IF jobs[j].done = "yes" THEN "ended" ELSE "appending",
       ![j].uids = IF jobs[j].done = "yes" THEN @ ELSE @ \ jobs[j].appended,
       ![j].retries = IF jobs[j].done = "yes" THEN @ ELSE @ + 1]
  /\ UNCHANGED <<mailbox, there, file, folder, pendingBodies, bodyCallbacks, marks, actions,
                 messages, stuck, astray, excused, kinds, faults>>

Transfers(j) ==
  \/ FetchDone(j) \/ AppendNext(j) \/ Answered(j) \/ Finish(j)
  \/ ArchiveDone(j) \/ ExportFetch(j) \/ ExportAnswered(j)
TimesOut(j) == FetchTimesOut(j) \/ AppendTimesOut(j)

-----------------------------------------------------------------------------
(* The workers. *)

Answer(as) == messages' = messages \o as
Final(type, a) == [type |-> type, job |-> a.job, of |-> a]

Fetch(a) ==
  LET found == Inorder(a.uids \cap mailbox[a.folder]) IN
  \E n \in 0..Len(found) : \E ok \in BOOLEAN :
    /\ IF ok THEN n = Len(found) /\ UNCHANGED faults ELSE Fault
    /\ Answer([i \in 1..n |-> [type |-> "full", job |-> a.job, of |-> a, uid |-> found[i],
                               content |-> <<a.folder, found[i]>>]]
              \o <<Final(IF ok THEN "done" ELSE "error", a)>>)
    /\ UNCHANGED <<mailbox, there, excused>>

(* An error may come although the message was stored. *)
AppendMessage(a) ==
  \/ /\ Unsupported /\ Answer(<<Final("unsupported", a)>>)
     /\ UNCHANGED <<mailbox, there, excused, faults>>
  \/ /\ ~Unsupported /\ there' = Append(there, a.content) /\ Answer(<<Final("done", a)>>)
     /\ UNCHANGED <<mailbox, excused, faults>>
  \/ /\ ~Unsupported /\ Fault /\ Answer(<<Final("error", a)>>)
     /\ UNCHANGED <<mailbox, there, excused>>
  \/ /\ ~Unsupported /\ Fault /\ Answer(<<Final("error", a)>>)
     /\ there' = Append(there, a.content) /\ excused' = excused \cup {a.content}
     /\ UNCHANGED mailbox

DeleteMessages(a) ==
  \/ /\ mailbox' = [mailbox EXCEPT ![a.folder] = @ \ a.uids]
     /\ Answer(<<Final("done", a)>>) /\ UNCHANGED <<there, excused, faults>>
  \/ /\ Fault /\ Answer(<<Final("error", a)>>)
     /\ excused' = excused \cup ({a.folder} \X a.uids) /\ UNCHANGED <<mailbox, there>>

MoveMessages(a) ==
  LET us == a.uids \cap mailbox[a.folder] IN
  \/ /\ Unsupported /\ Answer(<<Final("unsupported", a)>>)
     /\ UNCHANGED <<mailbox, there, excused, faults>>
  \/ /\ ~Unsupported
     /\ mailbox' = [mailbox EXCEPT ![a.folder] = @ \ us]
     /\ there' = there \o SetToSeq({a.folder} \X us)
     /\ Answer(<<Final("done", a)>>) /\ UNCHANGED <<excused, faults>>
  \/ ~Unsupported /\ Fault /\ Answer(<<Final("error", a)>>) /\ UNCHANGED <<mailbox, there, excused>>

Work(to) ==
  /\ actions[to] # <<>>
  /\ LET a == Head(actions[to]) IN
     CASE a.type = "fetch" -> Fetch(a) [] a.type = "append" -> AppendMessage(a)
       [] a.type = "delete" -> DeleteMessages(a) [] OTHER -> MoveMessages(a)
  /\ actions' = [actions EXCEPT ![to] = Tail(@)]
  /\ UNCHANGED <<file, folder, pendingBodies, bodyCallbacks, marks, jobs, stuck, astray, kinds>>

-----------------------------------------------------------------------------
(* The main goroutine receives an answer: first the callback of the action, *)
(* then the store of the folder selected by now.                            *)

(* Of a FullMessage: an export reads the reader a store may also hand on;   *)
(* the store looks for the UID only.                                        *)
OnFull(m) ==
  LET u == m.uid
      export == m.job # 0
      mine == u \in pendingBodies[folder]
      j == IF mine THEN bodyCallbacks[folder][u] ELSE 0
      content == IF export THEN Empty ELSE m.content
      written == IF ~export THEN jobs ELSE [jobs EXCEPT ![m.job].appended = @ \cup {u}]
  IN /\ file' = IF export THEN Append(file, m.content) ELSE file
     /\ pendingBodies' = [pendingBodies EXCEPT ![folder] = @ \ {u}]
     /\ bodyCallbacks' = [bodyCallbacks EXCEPT ![folder][u] = IF mine THEN 0 ELSE @]
     /\ jobs' = IF j = 0 THEN written
                ELSE [written EXCEPT
                        ![j].got = Append(@, [uid |-> u, content |-> content]),
                        ![j].fetched = Len(jobs[j].got) + 1 = Cardinality(jobs[j].uids)]
     /\ astray' = IF j # 0 /\ content # <<folder, u>> THEN astray \cup {<<folder, u>>} ELSE astray
     /\ excused' = IF j # 0 /\ content # <<folder, u>> THEN excused \cup {content} ELSE excused
     /\ UNCHANGED <<marks, stuck>>

OnFetched(m) ==
  /\ IF m.job # 0
     THEN /\ jobs' = [jobs EXCEPT ![m.job].done = IF m.type = "done" THEN "yes" ELSE "no"]
          /\ UNCHANGED <<pendingBodies, bodyCallbacks>>
     ELSE /\ pendingBodies' = IF m.type # "error" THEN pendingBodies
                              ELSE [pendingBodies EXCEPT ![m.of.folder] = @ \ m.of.uids]
          /\ bodyCallbacks' = IF m.type # "error" THEN bodyCallbacks
                              ELSE [bodyCallbacks EXCEPT ![m.of.folder] =
                                     [u \in Uids |-> IF u \in m.of.uids THEN 0 ELSE @[u]]]
          /\ UNCHANGED jobs
  /\ UNCHANGED <<file, marks, stuck, astray, excused>>

(* The channel of a move holds a value nobody may read any more; that of an *)
(* import does not, and the main goroutine waits for ever to hand it over.  *)
OnAppended(m) ==
  LET job == jobs[m.job]
      waits == job.phase = "waiting"
      ok == m.type = "done"
  IN /\ jobs' = IF job.kind = "copy" \/ m.type = "unsupported" THEN jobs
                ELSE [jobs EXCEPT
                        ![m.job].appended = IF ok THEN @ \cup {m.of.uid} ELSE @,
                        ![m.job].done = IF ~waits THEN @ ELSE IF ok THEN "yes" ELSE "no"]
     /\ stuck' = (job.kind = "import" /\ m.type # "unsupported" /\ ~waits)
     /\ UNCHANGED <<file, pendingBodies, bodyCallbacks, marks, astray, excused>>

(* Move.CallBack reports as many messages as were appended by now. *)
OnDeleted(m) ==
  /\ marks' = [marks EXCEPT ![m.of.folder] = @ \ m.of.uids]
  /\ jobs' = [jobs EXCEPT ![m.job].phase = "ended",
       ![m.job].claimed = IF m.type = "done" THEN Cardinality(jobs[m.job].appended) ELSE 0]
  /\ UNCHANGED <<file, pendingBodies, bodyCallbacks, stuck, astray, excused>>

(* MessageStore.Move does not pass on that moving is unsupported. *)
OnMoved(m) ==
  /\ IF m.type = "unsupported" THEN UNCHANGED <<marks, jobs>>
     ELSE /\ marks' = [marks EXCEPT ![m.of.folder] = @ \ m.of.uids]
          /\ jobs' = [jobs EXCEPT ![m.job].wg = @ - 1,
                                  ![m.job].success = @ /\ m.type = "done"]
  /\ UNCHANGED <<file, pendingBodies, bodyCallbacks, stuck, astray, excused>>

Receive ==
  /\ ~stuck /\ messages # <<>>
  /\ LET m == Head(messages) IN
     CASE m.type = "full" -> OnFull(m)
       [] m.of.type = "fetch" /\ m.type # "full" -> OnFetched(m)
       [] m.of.type = "append" -> OnAppended(m)
       [] m.of.type = "delete" -> OnDeleted(m)
       [] OTHER -> OnMoved(m)
  /\ messages' = Tail(messages)
  /\ UNCHANGED <<mailbox, there, folder, actions, kinds, faults>>

Next ==
  \/ StartTransfer \/ StartArchive \/ StartExport \/ StartImport \/ ChangeFolder
  \/ \E j \in DOMAIN jobs : Transfers(j) \/ TimesOut(j) \/ ReadFails(j)
  \/ \E to \in {"here", "there"} : Work(to)
  \/ Receive

Spec == Init /\ [][Next]_transferVars

-----------------------------------------------------------------------------
(* No message is lost: it is in its folder or was appended, unless a job   *)
(* was given another message or an empty one in its place: FullMessage     *)
(* goes to the selected folder by its UID alone, and after an export has   *)
(* read it.                                                                 *)
MailKept ==
  \A f \in Folders, u \in Uids :
    <<f, u>> \in astray \/ u \in mailbox[f] \/ <<f, u>> \in ToSet(there)

AtRest ==
  /\ messages = <<>> /\ \A to \in DOMAIN actions : actions[to] = <<>>
  /\ \A j \in DOMAIN jobs : jobs[j].phase = "ended"
Moved(c) == Cardinality({i \in DOMAIN there : there[i] = c})
InPlace(c) == IF c[1] \in Folders /\ c[2] \in mailbox[c[1]] THEN 1 ELSE 0

(* In the end a message that was not copied is in one place, unless an     *)
(* append was answered late or wrongly, or the delete failed.              *)
MovedOnce ==
  AtRest => \A c \in (Messages \cup ToSet(there)) \ (excused \cup {Empty}) :
              c \in astray \/ Moved(c) + InPlace(c) <= 1

(* In the end no message is shown as deleted, unless moving is unsupported. *)
MarksGone == AtRest => Unsupported \/ \A f \in Folders : marks[f] = {}

(* The main goroutine stops only after an import that timed out. *)
MainFree == stuck => \E j \in DOMAIN jobs : jobs[j].kind = "import" /\ jobs[j].timeout

(* What a command reports to have moved is gone, unless an append was late. *)
ClaimsRight ==
  \A j \in DOMAIN jobs :
    jobs[j].claimed <= Cardinality(jobs[j].uids \ mailbox[jobs[j].from]) \/ jobs[j].timeout

(* An export writes no message twice, whatever it has to fetch again. *)
ExportedOnce == \A i, k \in DOMAIN file : file[i] = file[k] => i = k

TransfersRight ==
  MailKept /\ MovedOnce /\ MarksGone /\ MainFree /\ ClaimsRight /\ ExportedOnce
=============================================================================
