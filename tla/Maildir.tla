------------------------------ MODULE Maildir ------------------------------
(***************************************************************************)
(* The maildir worker (worker/maildir) on its files, which other programs  *)
(* change, too: deliveries into new, and renames and removals in cur.      *)
(*                                                                         *)
(* Changes in the two watched subdirectories of the selected folder wake   *)
(* the worker through a debounce timer; it moves new mail to cur and posts *)
(* the counts of the folder.  :check-mail does the same for all folders    *)
(* from a goroutine of its own.  A maildir++ worker differs in one thing:  *)
(* it has no channel on which its debounce timer could wake it.            *)
(***************************************************************************)
EXTENDS Naturals, Sequences, FiniteSets

CONSTANTS
  Dirs,        \* folders
  Keys,        \* keys of messages, the UIDs
  InitialNew,  \* what lies in new at the start: a function from folders to keys
  MaxForeign,  \* bound on the changes by other programs
  MaxCommands  \* bound on the actions of the user

VARIABLES
  fresh,       \* files in new
  cur,         \* files in cur
  seen,        \* keys with the flag S
  recent,      \* c.recentUIDS
  selected,    \* w.selectedName, "" before the first opening
  watched,     \* the folders of which new and cur are watched
  maildirpp,   \* NewMaildirppWorker made the worker: w.fsEvents is nil
  opening,     \* how far handleOpenDirectory is
  events,      \* the watcher has an event for Run
  timer,       \* w.watcherDebounce is running
  fired,       \* number of debounce functions waiting to send on fsEvents
  info,        \* counts of each folder, as posted last
  check,       \* the goroutine of CheckMail: folders to do, counts not yet posted
  outdated,    \* history: that goroutine posted counts that had changed since
  missed,      \* history: mail came to the folder being opened, unwatched, after its sync
  dir_answer,  \* what the worker has told last
  foreign, dir_commands

openState == <<selected, watched, maildirpp, opening, missed>>
vars == <<fresh, cur, seen, recent, openState, events, timer, fired, info, check, outdated,
          dir_answer, foreign, dir_commands>>

Store == INSTANCE MailStore
  WITH Folders <- Dirs, Messages <- Keys,
       mail <- [d \in Dirs |-> fresh[d] \cup cur[d]], answer <- dir_answer

(* getDirectoryInfo counts the files of cur. *)
Counts(c, s, r, d) == [exists |-> Cardinality(c[d]), unseen |-> Cardinality(c[d] \ s),
                       recent |-> Cardinality(c[d] \cap r)]
Unknown == [exists |-> 0, unseen |-> 0, recent |-> 0]
NoOpening == [dir |-> "", unwatched |-> FALSE]
NoCheck == [todo |-> {}, post |-> {}, counts |-> Unknown]

Init ==
  /\ fresh = InitialNew
  /\ cur = [d \in Dirs |-> {}]
  /\ seen = {} /\ recent = {}
  /\ selected = "" /\ watched = {}
  /\ maildirpp \in BOOLEAN /\ opening = NoOpening /\ missed = FALSE
  /\ events = FALSE /\ timer = FALSE /\ fired = 0
  /\ info = [d \in Dirs |-> Unknown]
  /\ check = NoCheck /\ outdated = FALSE
  /\ dir_answer = Store!Nothing
  /\ foreign = 0 /\ dir_commands = 0

Used == UNION {fresh[d] \cup cur[d] : d \in Dirs}

(* Files of the folders ds appear, vanish or are renamed: the kernel tells the watcher. *)
Touch(ds) == events' = (events \/ ds \cap watched # {})

-----------------------------------------------------------------------------
(* Other programs.                                                         *)

Foreign(d) ==
  /\ foreign < MaxForeign /\ foreign' = foreign + 1
  /\ Touch({d})
  /\ dir_answer' = Store!Answer("foreign", d, d, {})
  /\ UNCHANGED <<recent, selected, watched, maildirpp, opening, timer, fired, info, check, outdated,
                 dir_commands>>

Deliver(d, k) ==
  /\ k \notin Used
  /\ fresh' = [fresh EXCEPT ![d] = @ \cup {k}]
  /\ missed' = (missed \/ (opening.dir = d /\ d \notin watched))
  /\ Foreign(d) /\ UNCHANGED <<cur, seen>>

ForeignSeen(d, k) ==
  /\ k \in cur[d] \ seen
  /\ seen' = seen \cup {k}
  /\ Foreign(d) /\ UNCHANGED <<fresh, cur, missed>>

ForeignRemove(d, k) ==
  /\ k \in cur[d]
  /\ cur' = [cur EXCEPT ![d] = @ \ {k}]
  /\ seen' = seen \ {k}
  /\ Foreign(d) /\ UNCHANGED <<fresh, missed>>

-----------------------------------------------------------------------------
(* Run: file system events.  Run does nothing else while it opens a folder. *)

Free == opening = NoOpening

(* An event restarts the debounce timer; a function that has fired goes on waiting. *)
ReceiveEvent ==
  /\ Free /\ events /\ events' = FALSE
  /\ timer' = TRUE
  /\ UNCHANGED <<fresh, cur, seen, recent, openState, fired, info, check, outdated,
                 dir_answer, foreign, dir_commands>>

DebounceFires ==
  /\ timer /\ timer' = FALSE
  /\ fired' = fired + 1
  /\ UNCHANGED <<fresh, cur, seen, recent, openState, events, info, check, outdated,
                 dir_answer, foreign, dir_commands>>

(* SyncNewMail moves the files of new to cur and remembers them as recent; the counts are  *)
(* those after it.                                                                         *)
SyncNewMail(d) ==
  /\ fresh' = [fresh EXCEPT ![d] = {}]
  /\ cur' = [cur EXCEPT ![d] = @ \cup fresh[d]]
  /\ recent' = recent \cup fresh[d]
  /\ Touch(IF fresh[d] = {} THEN {} ELSE {d})

(* The functions of a maildir++ worker send on a nil channel, for ever. *)
handleFSEvent ==
  /\ Free /\ ~maildirpp
  /\ fired > 0 /\ fired' = fired - 1
  /\ IF selected = "" THEN UNCHANGED <<fresh, cur, recent, events, info, missed>>
     ELSE SyncNewMail(selected)
          /\ info' = [info EXCEPT ![selected] = Counts(cur', seen, recent', selected)]
          /\ missed' = FALSE
  /\ dir_answer' = Store!Nothing
  /\ UNCHANGED <<seen, selected, watched, maildirpp, opening, timer, check, outdated, foreign,
                 dir_commands>>

-----------------------------------------------------------------------------
(* Run: actions of the user.                                               *)

Command == Free /\ dir_commands < MaxCommands /\ dir_commands' = dir_commands + 1

(* handleOpenDirectory: the new mail of the folder is moved to cur first ... *)
OpenDirectory(d) ==
  /\ Command
  /\ SyncNewMail(d)
  /\ opening' = [dir |-> d, unwatched |-> FALSE] /\ missed' = FALSE
  /\ dir_answer' = Store!Nothing
  /\ UNCHANGED <<seen, selected, watched, maildirpp, timer, fired, info, check, outdated, foreign>>

(* ... then the watches leave the folder that was selected ... *)
OpenUnwatches(d) ==
  /\ opening = [dir |-> d, unwatched |-> FALSE]
  /\ opening' = [dir |-> d, unwatched |-> TRUE]
  /\ selected' = d /\ watched' = {}
  /\ UNCHANGED <<fresh, cur, seen, recent, maildirpp, missed, events, timer, fired, info, check,
                 outdated, dir_answer, foreign, dir_commands>>

(* Deliberate bug: the folder opened is not watched. *)
OpenWatchesNothing(d) ==
  /\ opening = [dir |-> d, unwatched |-> TRUE]
  /\ opening' = NoOpening
  /\ watched' = watched
  /\ info' = [info EXCEPT ![d] = Counts(cur, seen, recent, d)]
  /\ UNCHANGED <<fresh, cur, seen, recent, selected, maildirpp, missed, events, timer, fired, check,
                 outdated, dir_answer, foreign, dir_commands>>

(* ... and go to the new one, the messages of which are counted. *)
OpenWatches(d) ==
  /\ opening = [dir |-> d, unwatched |-> TRUE]
  /\ opening' = NoOpening
  /\ watched' = {d}
  /\ info' = [info EXCEPT ![d] = Counts(cur, seen, recent, d)]
  /\ UNCHANGED <<fresh, cur, seen, recent, selected, maildirpp, missed, events, timer, fired, check,
                 outdated, dir_answer, foreign, dir_commands>>

(* ListDirectories syncs and counts every folder. *)
ListDirectories ==
  /\ Command
  /\ fresh' = [d \in Dirs |-> {}]
  /\ cur' = [d \in Dirs |-> cur[d] \cup fresh[d]]
  /\ recent' = recent \cup UNION {fresh[d] : d \in Dirs}
  /\ info' = [d \in Dirs |-> Counts(cur', seen, recent', d)]
  /\ Touch({d \in Dirs : fresh[d] # {}})
  /\ dir_answer' = Store!Nothing
  /\ missed' = FALSE
  /\ UNCHANGED <<seen, selected, watched, maildirpp, opening, timer, fired, check, outdated,
                 foreign>>

(* FetchMessageHeaders: a message is recent until its header has been fetched. *)
FetchMessageHeaders(d, S) ==
  /\ Command
  /\ recent' = recent \ (S \cap cur[d])
  /\ dir_answer' = Store!Nothing
  /\ UNCHANGED <<fresh, cur, seen, openState, events, timer, fired, info, check,
                 outdated, foreign>>

(* FlagMessages stops at the first message that is not there; the counts follow when all were. *)
FlagMessages(d, S, T, enable) ==
  /\ Command
  /\ T \subseteq S \cap cur[d]
  /\ T # S => S \ T # {} /\ ~(S \subseteq cur[d])
  /\ seen' = IF enable THEN seen \cup T ELSE seen \ T
  /\ info' = IF T = S THEN [info EXCEPT ![d] = Counts(cur, seen', recent, d)] ELSE info
  /\ Touch(IF seen' = seen THEN {} ELSE {d})
  /\ dir_answer' = Store!Nothing
  /\ UNCHANGED <<fresh, cur, recent, openState, timer, fired, check, outdated, foreign>>

(* DeleteAll stops at the first failure: T is what it got to. *)
DeleteMessages(d, S, T) ==
  /\ Command
  /\ T \subseteq S \cap cur[d] /\ (S \subseteq cur[d] => T = S)
  /\ cur' = [cur EXCEPT ![d] = @ \ T]
  /\ seen' = seen \ T
  /\ Touch(IF T = {} THEN {} ELSE {d})
  /\ dir_answer' = Store!Answer("deleted", d, d, T)
  /\ UNCHANGED <<fresh, recent, openState, timer, fired, info, check, outdated, foreign>>

(* Deliberate bug: the answer names the messages that were not moved, too. *)
MoveMessagesReportsAll(d, e, S, T) ==
  /\ Command
  /\ T \subseteq S \cap cur[d] /\ (S \subseteq cur[d] => T = S)
  /\ cur' = IF d = e THEN cur ELSE [cur EXCEPT ![d] = @ \ T, ![e] = @ \cup T]
  /\ Touch(IF T = {} \/ d = e THEN {} ELSE {d, e})
  /\ dir_answer' = Store!Answer("moved", d, e, S)
  /\ UNCHANGED <<fresh, seen, recent, openState, timer, fired, info, check, outdated,
                 foreign>>

(* MoveAll renames one file after the other, key and flags as they are, and stops at the   *)
(* first failure.                                                                          *)
MoveMessages(d, e, S, T) ==
  /\ Command
  /\ T \subseteq S \cap cur[d] /\ (S \subseteq cur[d] => T = S)
  /\ cur' = IF d = e THEN cur ELSE [cur EXCEPT ![d] = @ \ T, ![e] = @ \cup T]
  /\ Touch(IF T = {} \/ d = e THEN {} ELSE {d, e})
  /\ dir_answer' = Store!Answer("moved", d, e, T)
  /\ UNCHANGED <<fresh, seen, recent, openState, timer, fired, info, check, outdated,
                 foreign>>

(* CopyMessages and AppendMessage make a file with a new key; appending posts the counts. *)
AddMessage(e, k, append) ==
  /\ Command /\ k \notin Used
  /\ cur' = [cur EXCEPT ![e] = @ \cup {k}]
  /\ Touch({e})
  /\ info' = IF append THEN [info EXCEPT ![e] = Counts(cur', seen, recent, e)] ELSE info
  /\ dir_answer' = Store!Answer("added", e, e, {k})
  /\ UNCHANGED <<fresh, seen, recent, openState, timer, fired, check, outdated, foreign>>

-----------------------------------------------------------------------------
(* :check-mail.  The goroutine does one folder after the other, next to Run. *)
CheckMail ==
  /\ check = NoCheck /\ Command
  /\ check' = [NoCheck EXCEPT !.todo = Dirs]
  /\ UNCHANGED <<fresh, cur, seen, recent, openState, events, timer, fired, info,
                 outdated, dir_answer, foreign>>

CheckSyncs(d) ==
  /\ d \in check.todo /\ check.post = {}
  /\ SyncNewMail(d)
  /\ check' = [todo |-> check.todo \ {d}, post |-> {d},
               counts |-> Counts(cur', seen, recent', d)]
  /\ dir_answer' = Store!Nothing
  /\ UNCHANGED <<seen, openState, timer, fired, info, outdated, foreign, dir_commands>>

CheckPosts(d) ==
  /\ d \in check.post
  /\ check' = IF check.todo = {} THEN NoCheck ELSE [check EXCEPT !.post = {}]
  /\ info' = [info EXCEPT ![d] = check.counts]
  /\ outdated' = (outdated \/ check.counts # Counts(cur, seen, recent, d))
  /\ UNCHANGED <<fresh, cur, seen, recent, openState, events, timer, fired,
                 dir_answer, foreign, dir_commands>>

Next ==
  \/ \E d \in Dirs, k \in Keys :
        \/ Deliver(d, k) \/ ForeignSeen(d, k) \/ ForeignRemove(d, k)
        \/ \E b \in BOOLEAN : AddMessage(d, k, b)
  \/ ReceiveEvent \/ DebounceFires \/ handleFSEvent
  \/ ListDirectories \/ CheckMail
  \/ \E d \in Dirs : OpenDirectory(d) \/ OpenUnwatches(d) \/ OpenWatches(d)
  \/ \E d \in Dirs : CheckSyncs(d) \/ CheckPosts(d)
  \/ selected # "" /\ \E S \in (SUBSET Keys) \ {{}} :
        \/ FetchMessageHeaders(selected, S)
        \/ \E T \in SUBSET S :
              \/ DeleteMessages(selected, S, T)
              \/ \E b \in BOOLEAN : FlagMessages(selected, S, T, b)
              \/ \E e \in Dirs : MoveMessages(selected, e, S, T)

Spec == Init /\ [][Next]_vars

-----------------------------------------------------------------------------
(* The maildir worker keeps the contract of a mail store: no message is     *)
(* lost between new and cur or by a move that stops half way, and its       *)
(* answers name the messages that are gone.                                 *)
MaildirKeepsMail == Store!Spec

(* Nothing is under way; a maildir++ worker never takes what its timer sends. *)
Quiet ==
  /\ Free /\ check = NoCheck
  /\ ~events /\ ~timer /\ (maildirpp \/ fired = 0)

Unheard == maildirpp /\ fired > 0

(* When everything is at rest the selected folder has no mail left in new   *)
(* and the counts posted last are those of its files, whoever changed them  *)
(* (recent aside: fetched headers post no counts), but for three causes:    *)
(* :check-mail posted counts that had changed since it took them, mail came *)
(* while the folder was opened, between its sync and its watch, or a        *)
(* maildir++ worker did not hear of an event.                               *)
CountsFresh ==
  Quiet /\ selected # "" /\ ~outdated /\ ~missed /\ ~Unheard =>
    /\ fresh[selected] = {}
    /\ info[selected].exists = Cardinality(cur[selected])
    /\ info[selected].unseen = Cardinality(cur[selected] \ seen)
=============================================================================
