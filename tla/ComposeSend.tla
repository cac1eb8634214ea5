---------------------------- MODULE ComposeSend ----------------------------
(***************************************************************************)
(* What becomes of one composed message: :send with its two goroutines and *)
(* the copies to folders (commands/compose/send.go), :postpone with its    *)
(* goroutine (postpone.go), :abort, the callbacks that a reply, a forward  *)
(* or a recalled draft runs when its composer closes (commands/msg) and    *)
(* the count that guards :quit (commands/mode/noquit.go).                  *)
(*                                                                         *)
(* The main goroutine runs the commands and the callbacks of the worker's  *)
(* answers; while it waits for room in a channel (main = "stuck") nothing  *)
(* of the program moves but the goroutines.                                *)
(***************************************************************************)
EXTENDS Integers, FiniteSets

CONSTANTS
  Kinds,          \* of composers: subset of {"new", "reply", "forward", "recall"}
  CopyTo,         \* folders of copy-to
  Parent,         \* folder of the message replied to
  CopyToReplied,  \* copy-to-replied
  Refusals,       \* final answers of AppendMessage besides Done and Error
  MaxFailures     \* bound on sends and postponements that fail

VARIABLES
  kind,        \* what the composer was opened for
  tab,         \* number of tabs that show the composer
  live,        \* its temporary file is open (c.email # nil)
  other,       \* another composer is open
  noquit,      \* mode.noquit
  send_pc,     \* the two goroutines of sendHelper
  postpone_pc, \* the goroutine of :postpone
  appends,     \* AppendMessage actions without an answer: folders, or "draft"
  errch,       \* number of values in errCh of copyToSent, capacity 1
  main,        \* "runs", or "stuck" on a full errCh
  flag,        \* c.sent and c.postponed
  server,      \* what has been delivered, copied, saved, answered and deleted
  overlap,     \* history: another command ran while a postponement waited
  failures

vars == <<kind, tab, live, other, noquit, send_pc, postpone_pc, appends, errch, main, flag,
          server, overlap, failures>>

ErrChCap == 1

Init ==
  /\ kind \in Kinds
  /\ tab = 1 /\ live = TRUE /\ other = FALSE
  /\ noquit = 1                                  \* NewComposer
  /\ send_pc = "none" /\ postpone_pc = "none"
  /\ appends = {} /\ errch = 0 /\ main = "runs"
  /\ flag = "none"
  /\ server = [delivered |-> FALSE, copied |-> {}, draft |-> FALSE,
               recalled |-> kind = "recall", marked |-> FALSE]
  /\ overlap = FALSE /\ failures = 0

(* copyToSent: the folders the message is appended to.  What :forward opens has a parent too, *)
(* whose folder has no name.                                                                  *)
Folders == CopyTo \cup (IF CopyToReplied /\ kind \in {"reply", "forward"} THEN {Parent} ELSE {})

shouldCopy == CopyTo # {} \/ CopyToReplied

(* The OnClose callback of :reply and :forward: was the original marked? *)
AfterReply(fl, sv) == sv.marked \/ (fl = "sent" /\ kind \in {"reply", "forward"})

(* The OnClose callback of :recall: is the draft that was opened still there? *)
AfterRecall(fl, sv) == sv.recalled /\ fl = "none"

(* Composer.Close; fl is what the composer has been told before. *)
Close(fl, sv) ==
  /\ live' = FALSE
  /\ flag' = fl
  /\ server' = [sv EXCEPT !.marked = AfterReply(fl, sv), !.recalled = AfterRecall(fl, sv)]

-----------------------------------------------------------------------------
(* Commands of the user, on the review screen.                             *)

Runs == main = "runs"
Overlap == overlap' = (overlap \/ postpone_pc # "none")

(* Deliberate bug: :send does not count the message on its way. *)
SendUncounted ==
  /\ Runs /\ tab > 0
  /\ tab' = tab - 1
  /\ send_pc = "none" /\ send_pc' = "write"
  /\ Overlap
  /\ UNCHANGED <<kind, live, other, noquit, postpone_pc, appends, errch, main, flag, server,
                 failures>>

(* :send; a prompt about an empty subject or a missing attachment comes first or not. *)
Send ==
  /\ Runs /\ tab > 0
  /\ tab' = tab - 1
  /\ noquit' = noquit + 1
  /\ send_pc = "none" /\ send_pc' = "write"
  /\ Overlap
  /\ UNCHANGED <<kind, live, other, postpone_pc, appends, errch, main, flag, server, failures>>

(* :postpone, for a folder that exists or has to be created first. *)
Postpone(exists) ==
  /\ Runs /\ tab > 0
  /\ postpone_pc = "none"
  /\ postpone_pc' = IF exists THEN "save" ELSE "create"
  /\ UNCHANGED <<kind, tab, live, other, noquit, send_pc, appends, errch, main, flag, server,
                 overlap, failures>>

(* :abort *)
Abort ==
  /\ Runs /\ tab > 0
  /\ tab' = tab - 1
  /\ Close(flag, server)
  /\ noquit' = noquit - 1
  /\ Overlap
  /\ UNCHANGED <<kind, other, send_pc, postpone_pc, appends, errch, main, failures>>

(* Another composer is opened, and closed again. *)
OtherOpens ==
  /\ Runs /\ ~other /\ other' = TRUE /\ noquit' = noquit + 1
  /\ UNCHANGED <<kind, tab, live, send_pc, postpone_pc, appends, errch, main, flag, server,
                 overlap, failures>>

OtherCloses ==
  /\ Runs /\ other /\ other' = FALSE /\ noquit' = noquit - 1
  /\ UNCHANGED <<kind, tab, live, send_pc, postpone_pc, appends, errch, main, flag, server,
                 overlap, failures>>

-----------------------------------------------------------------------------
(* The goroutines of sendHelper.                                           *)

(* The writer fails, before the transport has the message or after; the cleanup opens a tab. *)
WriterFails(delivered) ==
  /\ send_pc = "write" /\ failures < MaxFailures
  /\ delivered => live
  /\ send_pc' = "none"
  /\ tab' = tab + 1
  /\ noquit' = noquit - 1
  /\ server' = [server EXCEPT !.delivered = @ \/ delivered]
  /\ failures' = failures + 1
  /\ UNCHANGED <<kind, live, other, postpone_pc, appends, errch, main, flag, overlap>>

(* The transport takes the message; copyToSent posts one AppendMessage for each folder. *)
WriterSends ==
  /\ send_pc = "write" /\ live
  /\ server' = [server EXCEPT !.delivered = TRUE]
  /\ send_pc' = IF shouldCopy THEN "copy" ELSE "end"
  /\ appends' = IF shouldCopy THEN appends \cup Folders ELSE appends
  /\ errch' = 0
  /\ UNCHANGED <<kind, tab, live, other, noquit, postpone_pc, main, flag, overlap, failures>>

(* The cleanup takes the first answer, whatever it is; a callback that waited for room goes on. *)
FirstCopyAnswered ==
  /\ send_pc = "copy" /\ errch > 0
  /\ send_pc' = "end"
  /\ errch' = IF main = "stuck" THEN errch ELSE errch - 1
  /\ main' = "runs"
  /\ UNCHANGED <<kind, tab, live, other, noquit, postpone_pc, appends, flag, server, overlap,
                 failures>>

(* SetSent, the hook, Close and the deferred NoQuitDone. *)
CleanupCloses ==
  /\ send_pc = "end"
  /\ send_pc' = "none"
  /\ Close("sent", server)
  /\ noquit' = noquit - 2
  /\ UNCHANGED <<kind, tab, other, postpone_pc, appends, errch, main, overlap, failures>>

-----------------------------------------------------------------------------
(* Answers of the worker; their callbacks run in the main goroutine.       *)

(* The answer to a copy: Done and Error are sent on errCh, any other is not. *)
CopyAnswered(f, answer) ==
  /\ Runs /\ f \in appends \ {"draft"}
  /\ appends' = appends \ {f}
  /\ server' = IF answer = "done" THEN [server EXCEPT !.copied = @ \cup {f}] ELSE server
  /\ IF answer \in {"done", "error"}
     THEN IF errch < ErrChCap
          THEN errch' = errch + 1 /\ UNCHANGED main
          ELSE main' = "stuck" /\ UNCHANGED errch
     ELSE UNCHANGED <<errch, main>>
  /\ UNCHANGED <<kind, tab, live, other, noquit, send_pc, postpone_pc, flag, overlap, failures>>

(* CreateDirectory of :postpone: an error ends the goroutine. *)
CreateAnswered(ok) ==
  /\ Runs /\ postpone_pc = "create"
  /\ ok \/ failures < MaxFailures
  /\ failures' = IF ok THEN failures ELSE failures + 1
  /\ postpone_pc' = IF ok THEN "save" ELSE "none"
  /\ UNCHANGED <<kind, tab, live, other, noquit, send_pc, appends, errch, main, flag, server,
                 overlap>>

(* The goroutine of :postpone removes the tab if there still is one, and    *)
(* writes the message; with the file closed that fails and a tab opens.     *)
PostponeWrites ==
  /\ postpone_pc = "save"
  /\ LET gone == IF tab > 0 THEN tab - 1 ELSE 0
     IN IF live
        THEN /\ postpone_pc' = "append" /\ appends' = appends \cup {"draft"} /\ tab' = gone
             /\ UNCHANGED failures
        ELSE /\ failures < MaxFailures /\ failures' = failures + 1
             /\ postpone_pc' = "none" /\ tab' = gone + 1 /\ UNCHANGED appends
  /\ UNCHANGED <<kind, live, other, noquit, send_pc, errch, main, flag, server, overlap>>

(* The draft is saved and the composer closed; or a tab opens; or, after any other answer, *)
(* neither.                                                                                *)
DraftAnswered(answer) ==
  /\ Runs /\ "draft" \in appends
  /\ appends' = appends \ {"draft"}
  /\ postpone_pc' = IF answer \in {"done", "error"} THEN "none" ELSE "refused"
  /\ CASE answer = "done" ->
            /\ Close("postponed", [server EXCEPT !.draft = TRUE])
            /\ noquit' = noquit - 1 /\ UNCHANGED <<tab, failures>>
       [] answer = "error" ->
            /\ failures < MaxFailures /\ failures' = failures + 1
            /\ tab' = tab + 1 /\ UNCHANGED <<live, flag, server, noquit>>
       [] OTHER -> UNCHANGED <<tab, failures, live, flag, server, noquit>>
  /\ UNCHANGED <<kind, other, send_pc, errch, main, overlap>>

Next ==
  \/ Send \/ Abort \/ OtherOpens \/ OtherCloses
  \/ \E b \in BOOLEAN : Postpone(b) \/ CreateAnswered(b) \/ WriterFails(b)
  \/ WriterSends \/ FirstCopyAnswered \/ CleanupCloses \/ PostponeWrites
  \/ \E answer \in {"done", "error"} \cup Refusals :
        DraftAnswered(answer) \/ \E f \in CopyTo \cup {Parent} : CopyAnswered(f, answer)

Spec == Init /\ [][Next]_vars

-----------------------------------------------------------------------------
Sending == send_pc # "none"
Postponing == postpone_pc \in {"save", "append"}

(* The message is never lost between tab, goroutines and server: unless the *)
(* user aborted, it is in a tab with its file, on its way, delivered or     *)
(* saved as a draft.  A recalled draft stays until then.  A backend that    *)
(* refuses AppendMessage with Unsupported drops it (postpone_pc refused).   *)
Kept ==
  /\ \/ (tab > 0 /\ live)
     \/ Sending \/ Postponing
     \/ server.delivered \/ server.draft
     \/ postpone_pc = "refused"
     \/ (~live /\ flag = "none")
  /\ (kind = "recall" /\ ~server.recalled) => server.delivered \/ server.draft
  /\ (server.marked => server.delivered)

(* :quit is refused as long as a composer is open or a message is being     *)
(* sent, unless a command overtook a postponement that was waiting.         *)
QuitGuarded ==
  (~overlap /\ (tab > 0 \/ other \/ Sending \/ Postponing)) => noquit > 0
=============================================================================
