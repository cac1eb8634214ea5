------------------------------ MODULE Programs ------------------------------
(***************************************************************************)
(* The commands that hand mail to programs and files while the user goes   *)
(* on: :pipe, :term, :exec, :open, :save and :attach -m, with the bodies   *)
(* and parts they fetch first and the tabs of their terminals, and the     *)
(* images an HTML part waits for (commands/msg/pipe.go, commands/util.go,  *)
(* commands/msgview/, commands/compose/attach.go, lib/inlineimages.go).    *)
(***************************************************************************)
EXTENDS Integers, Sequences, FiniteSets, SequencesExt

CONSTANTS
  Mails,          \* numbers, in the order of their subjects
  Series,         \* those with the subject of a patch series
  Composers,      \* tabs of composers, numbers below Viewer
  Pipes,          \* what :pipe may be given: [uids, background, silent]
  Attachments,    \* the names of the parts of :save -a: sequences <<base, number...>>
  Images,         \* parts an HTML part refers to, positive numbers
  Existing,       \* names of files that exist
  MaxCommands, MaxFaults

List == 0         \* the tab of the account
Viewer == -1      \* the tab of a message

VARIABLES
  jobs,           \* commands that wait or run
  actions,        \* fetches the worker has to answer, the oldest first
  pending,        \* pendingBodies of the store
  owner,          \* bodyCallbacks: job of each pending body, 0 for none
  infos,          \* messages the store has an envelope of
  tabs, selected, \* the open tabs and the one in front
  files,          \* names of the files there are
  temps,          \* temporary directories, by their job
  picker,         \* composer that opened the file picker, 0 for none
  crashed,
  starved,        \* ghost: jobs with something to wait for that does not come
  switched,       \* ghost: the selected tab changed since the picker opened
  attached,       \* ghost: files attached: [from, to, switched]
  clobbered,      \* ghost: jobs that wrote over a file without -f
  pg_commands, pg_faults

pgVars == <<jobs, actions, pending, owner, infos, tabs, selected, files, temps, picker, crashed,
            starved, switched, attached, clobbered, pg_commands, pg_faults>>

Init ==
  /\ jobs = <<>> /\ actions = <<>> /\ pending = {} /\ owner = [u \in Mails |-> 0]
  /\ infos = Mails /\ tabs = Composers \cup {Viewer, List} /\ selected = List /\ files = Existing
  /\ temps = {} /\ picker = 0 /\ crashed = FALSE /\ starved = {} /\ switched = FALSE
  /\ attached = {} /\ clobbered = {} /\ pg_commands = 0 /\ pg_faults = 0

Command == pg_commands < MaxCommands /\ pg_commands' = pg_commands + 1 /\ picker = 0
Fault == pg_faults < MaxFaults /\ pg_faults' = pg_faults + 1

(* left: what is to arrive; got: the bodies that did; force: -f of :save and -d of :open. *)
Job(kind, left) ==
  [kind |-> kind, left |-> left, got |-> <<>>, state |-> "fetching", sent |-> <<>>,
   background |-> FALSE, silent |-> FALSE, force |-> FALSE, path |-> <<>>, closed |-> 0,
   command |-> pg_commands]

Id == Len(jobs) + 1
FetchPart(job, part) == [job |-> job, full |-> FALSE, all |-> {part}, left |-> {part}]

-----------------------------------------------------------------------------
(* Terminals. NewTab selects the tab, from whatever goroutine.             *)

(* The state of a job whose program gets its input: the process of a tab starts with Draw. *)
Start(job) == [job EXCEPT !.state = IF job.background THEN "running" ELSE "new"]
Opens(j, job) ==
  IF job.background THEN UNCHANGED <<tabs, selected, switched>>
  ELSE tabs' = tabs \cup {j} /\ selected' = j /\ switched' = (switched \/ picker # 0)

(* Tabs tells which tab is next. *)
RemoveTab(t) ==
  /\ tabs' = tabs \ {t}
  /\ IF t = selected THEN selected' \in tabs \ {t} ELSE UNCHANGED selected

Draw ==
  /\ selected > 0 /\ jobs[selected].state = "new"
  /\ jobs' = [jobs EXCEPT ![selected].state = "running"]
  /\ UNCHANGED <<actions, pending, owner, infos, tabs, selected, files, temps, picker, crashed,
                 starved, switched, attached, clobbered, pg_commands, pg_faults>>

(* closeErr runs OnClose once; without an error :pipe leaves the tab until a key. *)
closeErr(j, failed) ==
  LET stays == jobs[j].kind = "pipe" /\ ~failed /\ ~jobs[j].silent
  IN /\ jobs' = [jobs EXCEPT ![j].state = IF stays THEN "complete" ELSE "gone", ![j].closed = @ + 1]
     /\ IF stays THEN UNCHANGED <<tabs, selected>> ELSE RemoveTab(j)

(* The process ends: those of a tab in the goroutine of the terminal. *)
Ends(j) ==
  /\ jobs[j].state = "running"
  /\ IF jobs[j].background
     THEN /\ jobs' = [jobs EXCEPT ![j].state = "gone", ![j].closed = @ + 1]
          /\ UNCHANGED <<tabs, selected>>
     ELSE \E failed \in BOOLEAN : closeErr(j, failed)
  /\ temps' = IF jobs[j].force THEN temps \ {j} ELSE temps
  /\ switched' = (switched \/ (picker # 0 /\ selected' # selected))
  /\ UNCHANGED <<actions, pending, owner, infos, files, picker, crashed, starved, attached,
                 clobbered, pg_commands, pg_faults>>

(* :close on the tab of a terminal, or any key after the end. *)
CloseTab ==
  /\ picker = 0 /\ selected > 0
  /\ LET j == selected IN
       /\ jobs' = [jobs EXCEPT ![j].closed = IF jobs[j].state = "complete" THEN @ ELSE @ + 1,
                               ![j].state = "gone"]
       /\ RemoveTab(j)
  /\ UNCHANGED <<actions, pending, owner, infos, files, temps, picker, crashed, starved, switched,
                 attached, clobbered, pg_commands, pg_faults>>

SelectTab ==
  /\ picker = 0
  /\ selected' \in tabs \ {selected}
  /\ UNCHANGED <<jobs, actions, pending, owner, infos, tabs, files, temps, picker, crashed,
                 starved, switched, attached, clobbered, pg_commands, pg_faults>>

Run(job) ==
  /\ jobs' = Append(jobs, Start(job))
  /\ Opens(Id, job)

(* :term, :exec, and :pipe of the message under review. *)
Term ==
  /\ Command
  /\ \/ Run(Job("term", {}))
     \/ Run([Job("exec", {}) EXCEPT !.background = TRUE])
     \/ selected \in Composers /\ \E p \in Pipes :
          Run([Job("pipe", {}) EXCEPT !.background = p.background, !.silent = p.silent])
  /\ UNCHANGED <<actions, pending, owner, infos, files, temps, picker, crashed, starved, attached,
                 clobbered, pg_faults>>

-----------------------------------------------------------------------------
(* Commands that fetch first. *)

Unchanged == UNCHANGED <<infos, tabs, selected, files, temps, picker, crashed, switched, attached,
                         clobbered, pg_faults>>

(* :pipe -m; FetchFull leaves out the bodies that are pending, with their callback. *)
Pipe ==
  /\ Command /\ selected \in {List, Viewer}
  /\ \E p \in Pipes :
       LET fetch == p.uids \ pending
       IN /\ jobs' = Append(jobs, [Job("pipe", p.uids) EXCEPT !.background = p.background,
                                                             !.silent = p.silent])
          /\ pending' = pending \cup fetch
          /\ owner' = [u \in Mails |-> IF u \in fetch THEN Id ELSE owner[u]]
          /\ actions' = IF fetch = {} THEN actions
                        ELSE Append(actions, [job |-> Id, full |-> TRUE, all |-> fetch,
                                              left |-> fetch])
          /\ starved' = IF fetch = p.uids THEN starved ELSE starved \cup {Id}
  /\ Unchanged

(* :pipe -p, :open, and the view of an HTML part. *)
FetchBodyPart ==
  /\ Command /\ selected = Viewer
  /\ \E kind \in {"pipe", "open", "html"}, delete \in BOOLEAN :
       /\ delete => kind = "open"
       /\ jobs' = Append(jobs, [Job(kind, {0}) EXCEPT !.force = delete,
                                                !.background = kind = "open"])
  /\ actions' = Append(actions, FetchPart(Id, 0))
  /\ UNCHANGED <<pending, owner, starved>> /\ Unchanged

getCollisionlessFilename(path, names) ==
  LET Numbered(n) == IF n = 0 THEN path ELSE Append(path, n)
      free == {n \in 0..Cardinality(names) : Numbered(n) \notin names}
  IN Numbered(Min(free))

(* The paths of the parts in order. *)
PathsOf(parts) ==
  FoldLeft(LAMBDA done, part : Append(done, getCollisionlessFilename(part, ToSet(done))),
           <<>>, parts)

(* :save -a: the first name that exists ends the command, not the parts before it. *)
Save ==
  /\ Command /\ selected = Viewer
  /\ \E force \in BOOLEAN :
       LET paths == PathsOf(Attachments)
           taken == {i \in DOMAIN paths : ~force /\ paths[i] \in files}
           n == IF taken = {} THEN Len(paths) ELSE Min(taken) - 1
       IN /\ jobs' = jobs \o [i \in 1..n |-> [Job("save", {0}) EXCEPT !.path = paths[i],
                                              !.force = force]]
          /\ actions' = actions \o [i \in 1..n |-> FetchPart(Len(jobs) + i, 0)]
  /\ UNCHANGED <<pending, owner, starved>> /\ Unchanged

-----------------------------------------------------------------------------
(* The worker answers. *)

Pop(a) == IF a.left = {} \/ ~a.full THEN Tail(actions) ELSE <<a>> \o Tail(actions)

(* Sorted by subject when one of them is of a series. *)
InOrder(got) ==
  IF ToSet(got) \cap Series = {} THEN got ELSE SetToSortSeq(ToSet(got), <)

(* A body: FetchFull's callback counts it, as an error when its message is gone. *)
FullMessage ==
  /\ actions # <<>> /\ Head(actions).full
  /\ \E u \in Head(actions).left :
       LET j == IF u \in pending THEN owner[u] ELSE 0
       IN /\ actions' = Pop([Head(actions) EXCEPT !.left = @ \ {u}])
          /\ pending' = pending \ {u} /\ owner' = [owner EXCEPT ![u] = 0]
          /\ jobs' = IF j = 0 THEN jobs
                     ELSE [jobs EXCEPT ![j].left = @ \ {u},
                                       ![j].got = IF u \in infos THEN Append(@, u) ELSE @]
  /\ UNCHANGED starved /\ Unchanged /\ UNCHANGED pg_commands

(* The goroutine of :pipe -m, with all messages or after 30 seconds with those there are. *)
Piping(j) ==
  /\ jobs[j].kind = "pipe" /\ jobs[j].state = "fetching" /\ jobs[j].left # {0}
  /\ \/ /\ jobs[j].left # {} /\ jobs[j].got = <<>>
        /\ jobs' = [jobs EXCEPT ![j].state = "gone"]
        /\ UNCHANGED <<tabs, selected, switched>>
     \/ /\ jobs[j].left = {} \/ jobs[j].got # <<>>
        /\ jobs' = [jobs EXCEPT ![j] = Start([jobs[j] EXCEPT !.sent = InOrder(jobs[j].got)])]
        /\ Opens(j, jobs[j])
  /\ UNCHANGED <<actions, pending, owner, infos, files, temps, picker, crashed, starved, attached,
                 clobbered, pg_commands, pg_faults>>

(* A part, in the main goroutine. *)
MessageBodyPart ==
  /\ actions # <<>> /\ ~Head(actions).full
  /\ LET a == Head(actions)
         j == a.job
         job == [jobs[j] EXCEPT !.left = @ \ a.left]
         images == IF job.kind = "html" /\ a.left = {0} THEN SetToSeq(Images) ELSE <<>>
     IN /\ actions' = Tail(actions) \o [i \in DOMAIN images |-> FetchPart(j, images[i])]
        /\ jobs' = [jobs EXCEPT ![j] =
                      IF images # <<>> THEN [job EXCEPT !.left = Images]
                      ELSE IF job.left # {} THEN job
                      ELSE IF job.kind \in {"pipe", "open"} THEN Start(job)
                      ELSE [job EXCEPT !.state = "gone"]]
        /\ IF job.kind = "pipe" THEN Opens(j, job) ELSE UNCHANGED <<tabs, selected, switched>>
        /\ temps' = IF job.kind = "open" THEN temps \cup {j} ELSE temps
        /\ files' = IF job.kind = "save" THEN files \cup {job.path} ELSE files
        /\ clobbered' = IF job.kind = "save" /\ job.path \in files /\ ~job.force
                        THEN clobbered \cup {j} ELSE clobbered
  /\ UNCHANGED <<pending, owner, infos, picker, crashed, starved, attached, pg_commands,
                 pg_faults>>

(* An error of a fetch: FetchFull forgets its messages, FetchBodyPart tells no one. *)
Failure ==
  /\ Fault /\ actions # <<>>
  /\ LET a == Head(actions) IN
       /\ actions' = Tail(actions)
       /\ IF a.full
          THEN /\ pending' = pending \ a.all
               /\ owner' = [u \in Mails |-> IF u \in a.all THEN 0 ELSE owner[u]]
               /\ starved' = starved \cup {a.job} \cup {owner[u] : u \in a.all}
          ELSE UNCHANGED <<pending, owner>> /\ starved' = starved \cup {a.job}
  /\ UNCHANGED <<jobs, infos, tabs, selected, files, temps, picker, crashed, switched, attached,
                 clobbered, pg_commands>>

(* Done although messages are missing: they are no longer in the folder. *)
Missing ==
  /\ Fault /\ actions # <<>> /\ Head(actions).full
  /\ actions' = Tail(actions) /\ starved' = starved \cup {Head(actions).job}
  /\ UNCHANGED <<jobs, pending, owner, infos, tabs, selected, files, temps, picker, crashed,
                 switched, attached, clobbered, pg_commands>>

(* The message leaves the store. *)
Expunged ==
  /\ Fault /\ \E u \in infos : infos' = infos \ {u}
  /\ UNCHANGED <<jobs, actions, pending, owner, tabs, selected, files, temps, picker, crashed,
                 starved, switched, attached, clobbered, pg_commands>>

-----------------------------------------------------------------------------
(* :attach -m: the dialog takes the keys, but not the tabs others open. *)
openMenu ==
  /\ Command /\ selected \in Composers
  /\ picker' = selected /\ switched' = FALSE
  /\ UNCHANGED <<jobs, actions, pending, owner, infos, tabs, selected, files, temps, crashed,
                 starved, attached, clobbered, pg_faults>>

(* The picker ends with a file or with nothing; addPath takes the composer of the tab selected *)
(* now, and without one uses a nil pointer.                                                  *)
addPath ==
  /\ picker # 0 /\ picker' = 0
  /\ \/ UNCHANGED <<attached, crashed>>
     \/ /\ attached' = attached \cup {[from |-> picker, to |-> selected, switched |-> switched]}
        /\ crashed' = (selected \notin Composers)
  /\ UNCHANGED <<jobs, actions, pending, owner, infos, tabs, selected, files, temps, starved,
                 switched, clobbered, pg_commands, pg_faults>>

Next ==
  /\ ~crashed
  /\ \/ Draw \/ CloseTab \/ SelectTab \/ Term \/ Pipe \/ FetchBodyPart \/ Save
     \/ FullMessage \/ MessageBodyPart \/ Failure \/ Missing \/ Expunged
     \/ openMenu \/ addPath
     \/ \E j \in DOMAIN jobs : Ends(j) \/ Piping(j)

Spec == Init /\ [][Next]_pgVars

-----------------------------------------------------------------------------
(* A command waits only for what the worker will answer and give to it,     *)
(* unless a fetch failed or one of its bodies was pending already.          *)
FetchesComing ==
  \A j \in DOMAIN jobs \ starved : jobs[j].state = "fetching" =>
    \A u \in jobs[j].left : \E i \in DOMAIN actions :
      /\ u \in actions[i].left
      /\ IF actions[i].full THEN u \in pending /\ owner[u] = j ELSE actions[i].job = j

(* What a program gets is what was asked for, each message once, and a       *)
(* patch series in the order of its subjects.                               *)
InputOrdered ==
  \A j \in DOMAIN jobs :
    LET s == jobs[j].sent
    IN \A a, b \in DOMAIN s : a < b =>
         s[a] # s[b] /\ (ToSet(s) \cap Series # {} => s[a] < s[b])

(* What follows a program runs once, when it is over, and the tab of one     *)
(* that is over is gone; the tabs that are there are of programs that live. *)
TabsOfPrograms ==
  \A j \in DOMAIN jobs :
    LET job == jobs[j]
    IN /\ job.closed <= 1
       /\ job.closed = 1 => job.state \in {"gone", "complete"}
       /\ j \in tabs <=>
            (job.state \in {"new", "running", "complete"} /\ ~job.background)

(* Without -f no file is written over, unless another :save was on its way  *)
(* to the same name: the parts of one command do not meet.                  *)
SavesApart ==
  /\ \A j, k \in DOMAIN jobs :
       (j # k /\ jobs[j].kind = "save" /\ jobs[k].kind = "save"
         /\ jobs[j].command = jobs[k].command) => jobs[j].path # jobs[k].path
  /\ \A j \in clobbered : \E k \in DOMAIN jobs :
       jobs[k].path = jobs[j].path /\ jobs[k].command # jobs[j].command

(* The files picked go to the composer that asked, unless a tab came to the *)
(* front meanwhile.                                                         *)
AttachedRight == \A a \in attached : a.to # a.from => a.switched

(* The directory of :open -d lives as long as its program. *)
TempsRight == \A j \in temps : jobs[j].force => jobs[j].state = "running"

ProgramsRight ==
  /\ FetchesComing /\ InputOrdered /\ TabsOfPrograms /\ SavesApart /\ AttachedRight /\ TempsRight
=============================================================================
