------------------------------ MODULE Notmuch -------------------------------
(***************************************************************************)
(* The notmuch worker (worker/notmuch/worker.go, message.go,               *)
(* eventhandlers.go, lib/database.go) and what the message store shows of  *)
(* it.  A message has one file or several; the database indexes files and  *)
(* keeps tags.  Other programs move files, index them and change tags.     *)
(* The worker takes one action at a time, with the database open; a change *)
(* of the database wakes it a moment later (Event).                        *)
(*                                                                         *)
(* A file is <<folder, name>>, the name without flags and UID, in cur.     *)
(* Folders are maildirs; Views are names of the query map, each for the    *)
(* messages with the tag of its name.                                       *)
(***************************************************************************)
EXTENDS Integers, SequencesExt, FiniteSetsExt

CONSTANTS
  Folders, Views,
  Msgs,          \* message IDs, the UIDs of this worker
  FirstFiles,    \* message -> its files at first, indexed
  Tags,          \* "unread" among them
  Strategies,    \* multi-file strategies the commands are given
  MaxCommands,   \* bound on the commands of the user
  MaxForeign     \* bound on the changes by other programs

VARIABLES
  disk,          \* message -> its files
  index,         \* message -> its files as the database knows them
  tags,          \* message -> tags, {} for one the database does not have
  changed,       \* messages modified since w.state
  event,         \* nmStateChange: a change of the database is to be handled
  query,         \* currentQueryName: the name of the open directory
  shown,         \* name -> messages in the list of its store
  cached,        \* name -> message -> flags in the store, or Unknown
  deleted,       \* messages whose files a command was told to delete
  unplaced,      \* messages acted on with no file in the directory of the command
  onItself,      \* messages moved to the folder they were in
  foreign,       \* messages whose files another program touched
  stale,         \* <<name, message>> whose flags the store cannot know: see ShownRight
  nm_commands, nm_foreign

nmVars == <<disk, index, tags, changed, event, query, shown, cached, deleted, unplaced,
            onItself, foreign, stale, nm_commands, nm_foreign>>

Names == Folders \cup Views
Unknown == {"unknown"}
InDb(ix) == {m \in Msgs : ix[m] # {}}

(* What the query of a directory finds: folder:name or tag:name. *)
Found(ix, ts, n) ==
  {m \in InDb(ix) : IF n \in Folders THEN \E f \in ix[m] : f[1] = n ELSE n \in ts[m]}

(* ModelFlags: unread stands for seen, the other way round. *)
Flags(ts) == (ts \ {"unread"}) \cup (IF "unread" \in ts THEN {} ELSE {"seen"})

Init ==
  /\ disk = FirstFiles /\ index = FirstFiles
  /\ tags = [m \in Msgs |-> IF FirstFiles[m] = {} THEN {} ELSE {"unread"}]
  /\ changed = {} /\ event = FALSE
  /\ query \in Folders
  /\ shown = [n \in Names |-> IF n = query THEN Found(index, tags, n) ELSE {}]
  /\ cached = [n \in Names |-> [m \in Msgs |-> Unknown]]
  /\ deleted = {} /\ unplaced = {} /\ onItself = {} /\ foreign = {} /\ stale = {}
  /\ nm_commands = 0 /\ nm_foreign = 0

Command == nm_commands < MaxCommands /\ nm_commands' = nm_commands + 1
           /\ UNCHANGED <<nm_foreign, foreign, query>>

-----------------------------------------------------------------------------
(* Acting on the files of a message.  s is [ok, disk, index] of the        *)
(* message; an operation does nothing after one that failed.               *)

Act(s, f, does) == IF ~s.ok \/ f \notin s.disk THEN [s EXCEPT !.ok = FALSE] ELSE does

DeleteFile(s, f) == Act(s, f, [s EXCEPT !.disk = @ \ {f}, !.index = @ \ {f}])
MoveFile(s, f, dest) ==
  LET g == <<dest, f[2]>>
  IN Act(s, f, [s EXCEPT !.disk = (@ \ {f}) \cup {g}, !.index = (@ \cup {g}) \ {f}])
CopyFile(s, f, dest) ==
  LET g == <<dest, 1 + Max({h[2] : h \in UNION {disk[m] : m \in Msgs} \cup s.disk})>>
  IN Act(s, f, [s EXCEPT !.disk = @ \cup {g}, !.index = @ \cup {g}])

(* filterForStrategy: the files to act on and those to delete.  files is   *)
(* in the order of the database.                                           *)
filterForStrategy(files, strategy, curDir) ==
  LET s == IF curDir = "" /\ strategy \in {"act-dir", "act-dir-delete-rest"}
           THEN "refuse" ELSE strategy
      here == SelectSeq(files, LAMBDA f : f[1] = curDir)
      rest == SelectSeq(files, LAMBDA f : f[1] # curDir)
  IN CASE Len(files) < 2 -> [ok |-> TRUE, act |-> files, del |-> <<>>]
       [] Len(files) > 1 /\ s = "refuse" -> [ok |-> FALSE, act |-> <<>>, del |-> <<>>]
       [] Len(files) > 1 /\ s = "act-all" -> [ok |-> TRUE, act |-> files, del |-> <<>>]
       [] Len(files) > 1 /\ s = "act-one" ->
            [ok |-> TRUE, act |-> <<Head(files)>>, del |-> <<>>]
       [] Len(files) > 1 /\ s = "act-one-delete-rest" ->
            [ok |-> TRUE, act |-> <<Head(files)>>, del |-> Tail(files)]
       [] Len(files) > 1 /\ s = "act-dir" -> [ok |-> TRUE, act |-> here, del |-> <<>>]
       [] OTHER -> [ok |-> TRUE, act |-> here, del |-> rest]

(* Message.Remove, Move, Copy. *)
Acted(op, m, order, strategy, curDir, dest) ==
  LET p == filterForStrategy(order, strategy, curDir)
      s == [ok |-> p.ok, disk |-> disk[m], index |-> index[m]]
      all == IF op = "delete" THEN FoldLeft(DeleteFile, s, p.act)
             ELSE FoldLeft(LAMBDA t, f : IF op = "move" THEN MoveFile(t, f, dest)
                                         ELSE CopyFile(t, f, dest), s, p.act)
  IN FoldLeft(DeleteFile, all, p.del)

(* folderDir: the maildir of the command, that of the open directory if    *)
(* its name is none.                                                       *)
folderDir(name) == IF name \in Folders THEN name ELSE ""

-----------------------------------------------------------------------------
(* What the store makes of the answers. *)

Changes(ms) == changed' = changed \cup ms /\ event' = (event \/ ms # {})
Unlisted(ms) == shown' = [shown EXCEPT ![query] = @ \ ms]
               /\ cached' = [cached EXCEPT ![query] =
                    [m \in Msgs |-> IF m \in ms THEN Unknown ELSE @[m]]]

(* handleDeleteMessages, handleMoveMessages, handleCopyMessages, of one    *)
(* or two messages: an error ends the action before it has reported those  *)
(* it has done.                                                            *)
OnFiles(op) ==
  /\ Command
  /\ \E ms \in {<<m>> : m \in shown[query]} \cup
              {<<m, n>> : m \in shown[query], n \in shown[query]},
        strategy \in Strategies, dest \in Folders, backwards \in BOOLEAN :
         LET dir == folderDir(query)
             files == [m \in Msgs |-> SetToSeq(index[m])]
             order == [m \in Msgs |-> IF backwards THEN Reverse(files[m]) ELSE files[m]]
             r == [m \in ToSet(ms) |-> Acted(op, m, order[m], strategy, dir, dest)]
             okay == \A m \in ToSet(ms) : r[m].ok
             fails == SelectInSeq(ms, LAMBDA m : ~r[m].ok)
             done == IF okay THEN ToSet(ms) ELSE {ms[i] : i \in 1..fails}
         IN /\ IsInjective(ms)
            /\ op = "delete" => dest = CHOOSE f \in Folders : TRUE
            /\ disk' = [m \in Msgs |-> IF m \in done THEN r[m].disk ELSE disk[m]]
            /\ index' = [m \in Msgs |-> IF m \in done THEN r[m].index ELSE index[m]]
            /\ tags' = [m \in Msgs |-> IF index'[m] = {} THEN {} ELSE tags[m]]
            /\ Changes({m \in done : index'[m] # index[m]})
            /\ IF okay /\ op # "copy" THEN Unlisted(ToSet(ms)) ELSE UNCHANGED <<shown, cached>>
            /\ deleted' = IF op = "delete" THEN deleted \cup done ELSE deleted
            /\ unplaced' = unplaced \cup {m \in done : strategy = "act-dir-delete-rest"
                 /\ Cardinality(index[m]) > 1 /\ \A f \in index[m] : f[1] # dir}
            /\ onItself' = IF op # "move" THEN onItself
                 ELSE onItself \cup {m \in done : \E f \in index[m] : f[1] = dest}
  /\ UNCHANGED <<stale>>

Delete == OnFiles("delete")
Move == OnFiles("move")
Copy == OnFiles("copy")

(* handleAppendMessage: a message the database may have already. *)
AppendMessage ==
  /\ Command
  /\ \E m \in Msgs, dest \in Folders, seen \in BOOLEAN :
       LET g == <<dest, 1 + Max({h[2] : h \in UNION {disk[o] : o \in Msgs}} \cup {0})>>
           ts == IF seen THEN tags[m] \ {"unread"} ELSE tags[m]
       IN /\ disk' = [disk EXCEPT ![m] = @ \cup {g}]
          /\ index' = [index EXCEPT ![m] = @ \cup {g}]
          /\ tags' = [tags EXCEPT ![m] = ts]
          /\ Changes({m})
  /\ UNCHANGED <<shown, cached, deleted, unplaced, onItself, stale>>

(* handleFlagMessages and handleModifyLabels: SetFlag turns seen round and *)
(* does nothing when the tag is as it should be.                           *)
Retag(m, ts) ==
  /\ tags' = [tags EXCEPT ![m] = ts]
  /\ Changes(IF ts # tags[m] THEN {m} ELSE {})
  /\ UNCHANGED <<disk, index, shown, cached, deleted, unplaced, onItself, stale>>

FlagMessages ==
  /\ Command
  /\ \E m \in shown[query] \cap InDb(index), t \in Tags, enable \in BOOLEAN :
       LET add == enable # (t = "unread")
       IN Retag(m, IF add THEN tags[m] \cup {t} ELSE tags[m] \ {t})

(* handleOpenDirectory; the store asks for the contents at once. *)
OpenDirectory ==
  /\ nm_commands < MaxCommands /\ nm_commands' = nm_commands + 1
  /\ \E n \in Names \ {query} :
       /\ query' = n
       /\ shown' = [shown EXCEPT ![n] = Found(index, tags, n)]
       /\ cached' = [cached EXCEPT ![n] =
            [m \in Msgs |-> IF m \in Found(index, tags, n) THEN @[m] ELSE Unknown]]
  /\ UNCHANGED <<disk, index, tags, changed, event, deleted, unplaced, onItself, foreign,
                 stale, nm_foreign>>

(* The list asks for the headers it does not have. *)
FetchMessageHeaders ==
  LET ms == {m \in shown[query] \cap InDb(index) : cached[query][m] = Unknown} IN
  /\ ms # {}
  /\ cached' = [cached EXCEPT ![query] = [m \in Msgs |-> IF m \in ms THEN Flags(tags[m]) ELSE @[m]]]
  /\ stale' = stale \ ({query} \X ms)
  /\ UNCHANGED <<disk, index, tags, changed, event, query, shown, deleted, unplaced, onItself,
                 foreign, nm_commands, nm_foreign>>

(* handleNotmuchEvent: the counts, the open directory fetched again, the   *)
(* messages of it that changed.                                            *)
Handled(ms) ==
  /\ event /\ event' = FALSE /\ changed' = {}
  /\ LET found == Found(index, tags, query) IN
     /\ shown' = [shown EXCEPT ![query] = found]
     /\ cached' = [cached EXCEPT ![query] =
          [m \in Msgs |-> IF m \notin found THEN Unknown
                          ELSE IF m \notin ms THEN @[m]
                          ELSE IF @[m] = Unknown THEN Flags(tags[m])
                          ELSE @[m] \cup Flags(tags[m])]]
     /\ stale' = stale \cup
          {<<n, m>> : n \in Names \ {query}, m \in changed} \cup
          {<<query, m>> : m \in {m \in found : cached[query][m] # Unknown
                                              /\ cached[query][m] \ Flags(tags[m]) # {}}}
  /\ UNCHANGED <<disk, index, tags, query, deleted, unplaced, onItself, foreign, nm_commands,
                 nm_foreign>>

(* Bug: only messages that were not listed before are read again. *)
EventForNew == Handled(changed \ shown[query])

Event == Handled(changed)

-----------------------------------------------------------------------------
(* Other programs. *)

Foreign == nm_foreign < MaxForeign /\ nm_foreign' = nm_foreign + 1
           /\ UNCHANGED <<query, nm_commands>>

(* A mail synchroniser moves a file; notmuch new indexes what is there.    *)
FileMoved ==
  /\ Foreign
  /\ \E m \in Msgs, d \in Folders : \E f \in disk[m] :
       /\ f[1] # d
       /\ disk' = [disk EXCEPT ![m] = (@ \ {f}) \cup {<<d, f[2]>>}]
       /\ foreign' = foreign \cup {m}
  /\ UNCHANGED <<index, tags, changed, event, shown, cached, deleted, unplaced, onItself, stale>>

NotmuchNew ==
  /\ Foreign /\ index # disk
  /\ index' = disk
  /\ tags' = [m \in Msgs |-> IF disk[m] = {} THEN {} ELSE IF index[m] = {} THEN {"unread"} ELSE tags[m]]
  /\ Changes({m \in Msgs : index[m] # disk[m]})
  /\ foreign' = {} /\ onItself' = {}
  /\ UNCHANGED <<disk, shown, cached, deleted, unplaced, stale>>

NotmuchTag ==
  /\ Foreign
  /\ \E m \in InDb(index), t \in Tags :
       Retag(m, IF t \in tags[m] THEN tags[m] \ {t} ELSE tags[m] \cup {t})
  /\ UNCHANGED foreign

Next ==
  \/ Delete \/ Move \/ Copy \/ AppendMessage \/ FlagMessages \/ OpenDirectory
  \/ FetchMessageHeaders \/ Event
  \/ FileMoved \/ NotmuchNew \/ NotmuchTag

Spec == Init /\ [][Next]_nmVars

-----------------------------------------------------------------------------
(* A message that was not deleted keeps a file, unless the command was     *)
(* told to delete the files outside a directory that had none of it.       *)
FilesKept ==
  \A m \in Msgs : FirstFiles[m] # {} /\ disk[m] = {} => m \in deleted \cup unplaced

(* The database knows the files there are, unless another program moved    *)
(* them or the worker moved a file onto itself, which it then forgets.     *)
IndexRight == \A m \in Msgs \ (foreign \cup onItself) : index[m] = disk[m]

(* With no event to come the list shows what the query finds, and the      *)
(* flags of the tags.  Excused are flags that were taken away (the store   *)
(* only adds flags) and messages that changed while another directory was  *)
(* open (only the open one is told).                                       *)
ShownRight ==
  ~event =>
    /\ shown[query] = Found(index, tags, query)
    /\ \A m \in shown[query] :
         cached[query][m] \in {Unknown, Flags(tags[m])} \/ <<query, m>> \in stale

NotmuchRight == FilesKept /\ IndexRight /\ ShownRight
=============================================================================
