------------------------------ MODULE Interface ------------------------------
(***************************************************************************)
(* The tabs with the focus, the viewers, the selection with its marks, a   *)
(* message that is sent, and the processes that share a socket, side by    *)
(* side: each takes its steps while the others rest.                       *)
(***************************************************************************)
EXTENDS Tabs

CONSTANTS
  (* Viewer *)
  N, Encrypted, Unloaded, MaxSlots, MaxViews,
  (* Selection *)
  ListUids, ReverseOrder, Threaded, MaxMoves,
  (* ComposeSend *)
  ComposerKinds, CopyTo, Parent, CopyToReplied, Refusals, MaxFailures,
  (* Instances *)
  Processes, Launches, MaxCrashes

(* There is a tab for every account, and history has a place at least for the last tab. *)
ASSUME TabsAssumption ==
  /\ Kinds \subseteq Seq({"account", "broken"}) \ {<<>>}
  /\ MaxHistory \in Nat \ {0} /\ MaxTabs \in Nat /\ MaxSteps \in Nat

ASSUME ViewsAssumption ==
  N \in Nat \ {0} /\ Unloaded \subseteq 1..N

ASSUME ListAssumption == ListUids \subseteq Nat \ {0} /\ IsFiniteSet(ListUids)

(* "draft" names the append of :postpone, and no folder. *)
ASSUME SendingAssumption == "draft" \notin CopyTo \cup {Parent}

(* Processes have numbers; 0 stands for none. *)
ASSUME ProcessesAssumption == Processes \subseteq Nat \ {0}

VARIABLES
  (* Viewer *)
  sel, gone, loaded, asking, pending, calls, requests, made, slots, at, nav, view_stuck,
  orphans, done,
  (* Selection *)
  marks_uids, selected, mc, results, index, callback, meant, meantLast, session,
  marks_astray, hiddenResults, sel_steps,
  (* ComposeSend *)
  kind, tab, live, other, noquit, send_pc, postpone_pc, appends, errch, main, flag, server,
  overlap, failures,
  (* Instances *)
  pc, launch, sock, listening, started, backlog, serving, held, ran, instances_asked, quits,
  instances_overlap, in_faults

Views == INSTANCE Viewer WITH MaxCommands <- MaxViews, stuck <- view_stuck
Marks == INSTANCE Selection
  WITH Messages <- ListUids, MaxSteps <- MaxMoves, uids <- marks_uids, astray <- marks_astray
Sending == INSTANCE ComposeSend WITH Kinds <- ComposerKinds
Peers == INSTANCE Instances
  WITH MaxFaults <- MaxCrashes, asked <- instances_asked, overlap <- instances_overlap

viewVars ==
  <<sel, gone, loaded, asking, pending, calls, requests, made, slots, at, nav, view_stuck,
    orphans, done>>
marksVars ==
  <<marks_uids, selected, mc, results, index, callback, meant, meantLast, session,
    marks_astray, hiddenResults, sel_steps>>

sendingVars ==
  <<kind, tab, live, other, noquit, send_pc, postpone_pc, appends, errch, main, flag,
    server, overlap, failures>>
instancesVars ==
  <<pc, launch, sock, listening, started, backlog, serving, held, ran, instances_asked,
    quits, instances_overlap, in_faults>>
interfaceVars == <<barVars, viewVars, marksVars, sendingVars, instancesVars>>

InterfaceInit == Init /\ Views!Init /\ Marks!Init /\ Sending!Init /\ Peers!Init

InterfaceNext ==
  \/ Next /\ UNCHANGED <<viewVars, marksVars, sendingVars, instancesVars>>
  \/ Views!Next /\ UNCHANGED <<barVars, marksVars, sendingVars, instancesVars>>
  \/ Marks!Next /\ UNCHANGED <<barVars, viewVars, sendingVars, instancesVars>>
  \/ Sending!Next /\ UNCHANGED <<barVars, viewVars, marksVars, instancesVars>>
  \/ Peers!Next /\ UNCHANGED <<barVars, viewVars, marksVars, sendingVars>>

InterfaceSpec == InterfaceInit /\ [][InterfaceNext]_interfaceVars

(* What the user sees and types into is one tab, the history leads to open tabs only, and      *)
(* pinned tabs come first and go back to their places (lib/ui/tab.go, app/aerc.go).            *)
TabsRight == OneFocus /\ HistoryOpen /\ PinsRight

(* Bodies that are waited for come, viewers are closed with their tabs, and the viewer follows *)
(* the selection (app/msgviewer.go, lib/messageview.go, commands/account/next.go).             *)
ViewersRight == Views!BodiesComing /\ Views!ViewersClosed /\ Views!ViewerFollows

(* What is marked is what the user marked, and results are in the list (lib/marker/marker.go). *)
SelectionRight == Marks!SelectionRight

(* A composed message is in a tab, on its way, delivered or saved, and aerc does not quit while *)
(* it is not (commands/compose/send.go, postpone.go, commands/mode/noquit.go).                  *)
SendingRight == Sending!Kept /\ Sending!QuitGuarded

(* Whoever hands a command over is answered, the command runs once, and the file of the socket  *)
(* belongs to who listens (main.go, lib/ipc/receive.go, lib/ipc/send.go).                       *)
InstancesRight == Peers!InstancesRight
=============================================================================
