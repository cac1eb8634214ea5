------------------------------- MODULE Backends -------------------------------
(***************************************************************************)
(* The reconnects of an account and the two workers that keep mail in      *)
(* files, mbox and Maildir, side by side: they share nothing, and each     *)
(* takes its steps while the others rest.                                  *)
(***************************************************************************)
EXTENDS AccountReconnect

CONSTANTS
  (* Mbox *)
  BoxNames, Files, Contents, MaxActions,
  (* Maildir *)
  Dirs, Keys, InitialNew, MaxForeign, MaxCommands

ASSUME FilesAssumption ==
  /\ IsFiniteSet(DOMAIN Files) /\ DOMAIN Files \subseteq BoxNames
  /\ \A n \in DOMAIN Files : Files[n] \in Seq(Contents)

(* No two messages have the same key, and a folder has a name: "" stands for none. *)
ASSUME DirsAssumption ==
  /\ "" \notin Dirs
  /\ InitialNew \in [Dirs -> SUBSET Keys]
  /\ \A d, e \in Dirs : d # e => InitialNew[d] \cap InitialNew[e] = {}

VARIABLES
  (* Mbox *)
  boxes, containers, folder, box_name, box_answer, box_actions,
  (* Maildir *)
  fresh, cur, seen, recent, selected, watched, maildirpp, opening, missed, events, timer, fired,
  info, check, outdated, dir_answer, foreign, dir_commands

Box == INSTANCE Mbox WITH Names <- BoxNames, actions <- box_actions
Dir == INSTANCE Maildir

boxVars ==
  <<boxes, containers, folder, box_name, box_answer, box_actions>>
dirVars ==
  <<fresh, cur, seen, recent, selected, watched, maildirpp, opening, missed, events, timer, fired,
    info, check, outdated, dir_answer, foreign, dir_commands>>

BackendsInit == Init /\ Box!Init /\ Dir!Init

BackendsNext ==
  \/ Next /\ UNCHANGED <<boxVars, dirVars>>
  \/ Box!Next /\ UNCHANGED <<vars, dirVars>>
  \/ Dir!Next /\ UNCHANGED <<vars, boxVars>>

BackendsSpec == BackendsInit /\ [][BackendsNext]_<<vars, boxVars, dirVars>>

(* At rest the counts posted last for the selected maildir are those of its files, whoever     *)
(* changed them (the watcher, its debounce timer and :check-mail of worker/maildir/worker.go).  *)
CountsFresh == Dir!CountsFresh

(* What leaves a folder does so as the worker's answers say, also when a move stops half way    *)
(* (DeleteMessages, CopyMessages and MoveMessages of both workers); the mbox worker breaks this *)
(* in the three ways that BreaksContract names, and in no other.                                *)
MailKept == Box!MboxKeepsMail /\ Dir!MaildirKeepsMail
=============================================================================
