------------------------------- MODULE Replies -------------------------------
(***************************************************************************)
(* The commands that answer a message: :reply, :forward, :recall, :accept  *)
(* with its kind, and :bounce (commands/msg).  Each reads the selected     *)
(* message at once, asks for parts of its body and goes on when they come, *)
(* while the user moves on.                                                *)
(***************************************************************************)
EXTENDS Integers, Sequences, FiniteSets, SequencesExt

CONSTANTS
  Me,             \* the account's own address
  Aliases,        \* sequence of aliases: the set of the addresses each one matches
  ReplyToSelf,    \* [compose].reply-to-self
  Mails,          \* messages: record of the address lists of the envelope
  Options,        \* of :reply: sets of "a", "f", "l", "c", "q"
  Parts,          \* parts of the body: 1 is the text
  NoMessage,
  MaxCommands, MaxFaults

VARIABLES
  mail,           \* envelopes of the two messages of the list, by the store
  selected,       \* in the message list
  viewer,         \* the open message viewer: [id, msg], or NoViewer
  jobs,           \* commands that wait for a body, and the composers they open
  asked,          \* <<job, part>> that are being fetched; part 0 is the full message
  flagged,        \* flags the commands set: <<flag, message>>, and deletions
  bounces,        \* :bounce under way
  rp_astray,      \* what has gone wrong
  rp_steps, rp_faults

rpVars == <<mail, selected, viewer, jobs, asked, flagged, bounces, rp_astray, rp_steps,
            rp_faults>>

Messages == {1, 2}
NoViewer == [id |-> 0, msg |-> NoMessage]

-----------------------------------------------------------------------------
(* Recipients. *)

(* addrSet and dedupe: what is new in a list, and all that is known then. *)
dedupe(rec, addrs) ==
  FoldLeft(LAMBDA d, a : IF a \in d.rec THEN d
                         ELSE [rec |-> d.rec \cup {a}, new |-> Append(d.new, a)],
           [rec |-> rec, new |-> <<>>], addrs)

Extended(d, addrs) ==
  LET e == dedupe(d.rec, addrs) IN [rec |-> e.rec, new |-> d.new \o e.new]

(* chooseFromAddr: the sets are maps, so any address an alias matches will do. *)
chooseFromAddr(m) ==
  LET rec == ToSet(m.from) \cup ToSet(m.to) \cup ToSet(m.cc) \cup ToSet(m.originalTo)
      matching == {i \in DOMAIN Aliases : Aliases[i] \cap rec # {}}
  IN IF Aliases = <<>> \/ Me \in rec \/ matching = {} THEN {Me}
     ELSE LET i == CHOOSE i \in matching : \A j \in matching : i <= j IN Aliases[i] \cap rec

Author(m) == IF m.replyTo # <<>> THEN m.replyTo ELSE IF m.from # <<>> THEN m.from ELSE m.sender

(* Execute of reply, as far as the addresses of the header. *)
ReplyRecipients(m, opts, from) ==
  LET first == dedupe(IF ReplyToSelf THEN {} ELSE {from}, Author(m))
      more == IF "f" \in opts THEN Extended(first, m.from) ELSE first
      list == IF "l" \in opts /\ m.post # <<>> THEN [more EXCEPT !.new = m.post] ELSE more
      some == IF ~ReplyToSelf /\ list.new = <<>> THEN dedupe({}, m.to) ELSE list
      all == IF "a" \in opts THEN Extended(some, m.to) ELSE some
  IN [to |-> all.new, cc |-> IF "a" \in opts THEN dedupe(all.rec, m.cc \o m.sender).new ELSE <<>>]

(* Execute of invite takes itself out of the slice of the envelope: what   *)
(* follows moves up, there as well.                                        *)
Out(list, from) ==
  IF ReplyToSelf \/ ~Contains(list, from) THEN list
  ELSE RemoveAt(list, SelectInSeq(list, LAMBDA a : a = from))
Shifted(list, from) ==
  IF Out(list, from) = list THEN list ELSE Append(Out(list, from), Last(list))

InviteRecipients(m, from) ==
  LET left == Out(IF m.replyTo # <<>> THEN m.replyTo ELSE m.from, from)
      some == IF ~ReplyToSelf /\ left = <<>> THEN m.to ELSE left
  IN some \o SelectSeq(m.organizers, LAMBDA o : ~Contains(some, o))

-----------------------------------------------------------------------------
Step == rp_steps < MaxCommands /\ rp_steps' = rp_steps + 1
Fault == rp_faults < MaxFaults /\ rp_faults' = rp_faults + 1

Init ==
  /\ mail \in {[m \in Messages |-> x] : x \in Mails}
  /\ selected = 1 /\ viewer = NoViewer
  /\ jobs = <<>> /\ asked = {} /\ flagged = {} /\ bounces = <<>>
  /\ rp_astray = {} /\ rp_steps = 0 /\ rp_faults = 0

(* ProvidesMessage of the selected tab: the viewer's message, or the list's. *)
Provided == IF viewer = NoViewer THEN selected ELSE viewer.msg

Job(cmd, opts, a) ==
  [cmd |-> cmd, opts |-> opts, msg |-> Provided, viewer |-> viewer.id, to |-> a.to, cc |-> a.cc,
   from |-> a.from, state |-> "fetching", attached |-> {},
   tmp |-> cmd = "forward" /\ "F" \in opts]
Nobody == [to |-> <<>>, cc |-> <<>>, from |-> Me]

(* A command that waits for a part of the body (crypto.IsEncrypted: only the viewer has it). *)
Ask(job, part) ==
  /\ ~(mail[Provided].encrypted /\ viewer = NoViewer)
  /\ jobs' = Append(jobs, job) /\ asked' = asked \cup {<<Len(jobs) + 1, part>>}

(* addTab: the composer is there, and :reply -c closes the viewer it was   *)
(* typed in.                                                               *)
Opened(job) ==
  /\ viewer' = IF job.cmd = "reply" /\ "c" \in job.opts /\ viewer.id = job.viewer THEN NoViewer
               ELSE viewer

Reply ==
  \E opts \in Options :
    \E from \in chooseFromAddr(mail[Provided]) :
      LET r == ReplyRecipients(mail[Provided], opts, from)
          job == Job("reply", opts, [to |-> r.to, cc |-> r.cc, from |-> from]) IN
      /\ Step
      /\ IF "q" \in opts THEN Ask(job, 1) /\ UNCHANGED viewer
         ELSE /\ jobs' = Append(jobs, [job EXCEPT !.state = "open"])
              /\ Opened(job) /\ UNCHANGED asked
      /\ UNCHANGED <<mail, selected, flagged, bounces, rp_astray, rp_faults>>

Forward ==
  \E opts \in {{}, {"A"}, {"F"}} :
    /\ Step
    /\ IF "F" \in opts THEN /\ jobs' = Append(jobs, Job("forward", opts, Nobody))
                            /\ asked' = asked \cup {<<Len(jobs) + 1, 0>>}
       ELSE Ask(Job("forward", opts, Nobody), 1)
    /\ UNCHANGED <<mail, selected, viewer, flagged, bounces, rp_astray, rp_faults>>

(* A draft, or any message with -f. *)
Recall ==
  /\ Step
  /\ jobs' = Append(jobs, Job("recall", {}, Nobody)) /\ asked' = asked \cup {<<Len(jobs) + 1, 1>>}
  /\ UNCHANGED <<mail, selected, viewer, flagged, bounces, rp_astray, rp_faults>>

(* :accept acts on the message list even in a viewer. *)
Invite ==
  \E from \in chooseFromAddr(mail[selected]) :
    LET m == mail[selected]
        field == IF m.replyTo # <<>> THEN "replyTo" ELSE "from"
        job == [Job("invite", {}, [to |-> InviteRecipients(m, from), cc |-> <<>>, from |-> from])
                  EXCEPT !.msg = selected, !.viewer = 0] IN
    /\ Step /\ m.organizers # <<>>
    /\ jobs' = Append(jobs, job) /\ asked' = asked \cup {<<Len(jobs) + 1, 1>>}
    /\ mail' = [mail EXCEPT ![selected][field] = Shifted(@, from)]
    /\ rp_astray' = IF mail' = mail THEN rp_astray ELSE rp_astray \cup {"shifted"}
    /\ UNCHANGED <<selected, viewer, flagged, bounces, rp_faults>>

-----------------------------------------------------------------------------
(* Parts of the body arrive. *)

(* The parts that are to be attached: all but the one that is the text. *)
Attachments(job) ==
  IF job.cmd = "recall" \/ (job.cmd = "forward" /\ "A" \in job.opts) THEN Parts \ {1}
  ELSE IF "F" \in job.opts THEN {0} ELSE {}

BodyArrives(j) ==
  \E part \in {0, 1} : LET job == jobs[j] IN
    /\ <<j, part>> \in asked /\ job.state = "fetching"
    /\ asked' = (asked \ {<<j, part>>}) \cup {<<j, p>> : p \in Attachments(job) \ {0}}
    /\ jobs' = [jobs EXCEPT ![j].state = "open", ![j].attached = {part} \cap {0}]
    /\ Opened(job)
    /\ UNCHANGED <<mail, selected, flagged, bounces, rp_astray, rp_steps, rp_faults>>

AttachmentArrives(j) ==
  \E part \in Parts :
    /\ <<j, part>> \in asked /\ jobs[j].state # "fetching"
    /\ asked' = asked \ {<<j, part>>}
    /\ jobs' = [jobs EXCEPT ![j].attached = IF jobs[j].state = "open" THEN @ \cup {part} ELSE @]
    /\ UNCHANGED <<mail, selected, viewer, flagged, bounces, rp_astray, rp_steps, rp_faults>>

(* FetchBodyPart and FetchFull tell nobody of a failure. *)
FetchFails(j) ==
  \E part \in Parts \cup {0} :
    /\ Fault /\ <<j, part>> \in asked
    /\ asked' = asked \ {<<j, part>>}
    /\ jobs' = [jobs EXCEPT ![j].state = IF @ = "fetching" THEN "dropped" ELSE @]
    /\ rp_astray' = rp_astray \cup {"failed"}
    /\ UNCHANGED <<mail, selected, viewer, flagged, bounces, rp_steps>>

-----------------------------------------------------------------------------
(* The composer closes: OnClose of each command. *)

Done(job, how) ==
  CASE job.cmd = "reply" /\ how = "sent" -> {<<"answered", job.msg>>}
    [] job.cmd = "invite" /\ how = "sent" -> {<<"answered", job.msg>>}
    [] job.cmd = "forward" /\ how = "sent" /\ job.opts \subseteq {"A", "F"} ->
         {<<"forwarded", job.msg>>}
    [] job.cmd = "recall" /\ how # "aborted" -> {<<"deleted", job.msg>>}
    [] OTHER -> {}

(* A composer closed while parts are on their way goes without them; a     *)
(* reply given up opens the message that is selected by now again.         *)
Close(j) ==
  \E how \in {"sent", "postponed", "aborted"} :
    LET job == jobs[j]
        again == job.cmd = "reply" /\ how # "sent" /\ "c" \in job.opts /\ job.viewer # 0
        early == how # "aborted" /\ \E p \in Parts : <<j, p>> \in asked IN
    /\ job.state = "open"
    /\ jobs' = [jobs EXCEPT ![j].state = how, ![j].tmp = FALSE]
    /\ flagged' = flagged \cup Done(job, how)
    /\ viewer' = IF again THEN [id |-> rp_steps + 10 * j, msg |-> selected] ELSE viewer
    /\ rp_astray' = IF early THEN rp_astray \cup {"early"} ELSE rp_astray
    /\ UNCHANGED <<mail, selected, asked, bounces, rp_steps, rp_faults>>

-----------------------------------------------------------------------------
(* :bounce of a set of messages. *)

(* One goroutine counts the results of all messages; FetchFull drops the   *)
(* callback of a message whose body is on its way already.                 *)
Bounce ==
  \E ms \in SUBSET Messages \ {{}} :
    LET taken == {m \in ms : \E b \in DOMAIN bounces : m \in bounces[b].fetching} IN
    /\ Step
    /\ bounces' = Append(bounces, [all |-> ms, fetching |-> ms \ taken, sending |-> {}, good |-> {},
                                   bad |-> {}, remarked |-> FALSE])
    /\ rp_astray' = IF taken = {} THEN rp_astray ELSE rp_astray \cup {"silent"}
    /\ UNCHANGED <<mail, selected, viewer, jobs, asked, flagged, rp_faults>>

Counted(b) == b.good \cup b.bad
NoQuit(b) == Counted(b) # b.all

(* The body comes and a goroutine sends it, or nothing more is heard: an   *)
(* error drops the callbacks of all bodies still to come.                  *)
BounceFetched(i) ==
  \E m \in bounces[i].fetching :
    /\ bounces' = [bounces EXCEPT ![i].fetching = @ \ {m}, ![i].sending = @ \cup {m}]
    /\ UNCHANGED <<mail, selected, viewer, jobs, asked, flagged, rp_astray, rp_steps, rp_faults>>

BounceFetchFails(i) ==
  /\ Fault /\ bounces[i].fetching # {}
  /\ bounces' = [bounces EXCEPT ![i].fetching = {}]
  /\ rp_astray' = rp_astray \cup {"silent"}
  /\ UNCHANGED <<mail, selected, viewer, jobs, asked, flagged, rp_steps>>

(* The last result ends the mode in which aerc does not quit, and marks    *)
(* the messages again when one failed.                                     *)
BounceSent(i) ==
  \E m \in bounces[i].sending : \E ok \in BOOLEAN :
    /\ IF ok THEN UNCHANGED rp_faults ELSE Fault
    /\ LET b == IF ok THEN [bounces[i] EXCEPT !.sending = @ \ {m}, !.good = @ \cup {m}]
                ELSE [bounces[i] EXCEPT !.sending = @ \ {m}, !.bad = @ \cup {m}]
       IN bounces' = [bounces EXCEPT ![i] = [b EXCEPT !.remarked = ~NoQuit(b) /\ b.bad # {}]]
    /\ UNCHANGED <<mail, selected, viewer, jobs, asked, flagged, rp_astray, rp_steps>>

-----------------------------------------------------------------------------
(* The user moves on. *)
Select ==
  /\ Step /\ selected' = 3 - selected
  /\ UNCHANGED <<mail, viewer, jobs, asked, flagged, bounces, rp_astray, rp_faults>>

View ==
  /\ Step /\ viewer' = IF viewer = NoViewer THEN [id |-> rp_steps + 1, msg |-> selected] ELSE NoViewer
  /\ UNCHANGED <<mail, selected, jobs, asked, flagged, bounces, rp_astray, rp_faults>>

Next ==
  \/ Reply \/ Forward \/ Recall \/ Invite \/ Bounce \/ Select \/ View
  \/ \E j \in DOMAIN jobs : BodyArrives(j) \/ AttachmentArrives(j) \/ FetchFails(j) \/ Close(j)
  \/ \E i \in DOMAIN bounces : BounceFetched(i) \/ BounceFetchFails(i) \/ BounceSent(i)

Spec == Init /\ [][Next]_rpVars

-----------------------------------------------------------------------------
(* Every reply goes to somebody if the message names anybody, and to no one *)
(* twice; not to the sender itself, unless nobody else is there; with -a to *)
(* everyone the message went to (Execute of reply).  A list-post address    *)
(* may be repeated by -a, and envelopes changed by :accept are left out.    *)
Addressed ==
  \A j \in DOMAIN jobs :
    LET job == jobs[j]  m == mail[job.msg]
        got == ToSet(job.to) \cup ToSet(job.cc)
        named == ToSet(Author(m)) \cup ToSet(m.to)
    IN job.cmd = "reply" /\ "shifted" \notin rp_astray =>
         /\ named # {} => got # {}
         /\ ~({"a", "l"} \subseteq job.opts) => Cardinality(got) = Len(job.to) + Len(job.cc)
         /\ (job.from \in got /\ ~ReplyToSelf) =>
              \/ ToSet(Author(m)) \subseteq {job.from} \/ "l" \in job.opts
         /\ "a" \in job.opts => (named \cup ToSet(m.cc)) \ {job.from} \subseteq got \/ "l" \in job.opts

(* What is sent or postponed has every part of the message it was made     *)
(* from, so that a recalled draft that is deleted is not lost; the user who *)
(* is faster than the parts (early) and fetches that fail are left out.    *)
PartsKept ==
  \A j \in DOMAIN jobs :
    LET job == jobs[j] IN
    /\ 1 \notin job.attached
    /\ (job.state \in {"sent", "postponed"} /\ rp_astray \cap {"early", "failed"} = {} =>
          IF "F" \in job.opts THEN job.attached = {0}
          ELSE (job.cmd = "recall" \/ "A" \in job.opts) => job.attached = Parts \ {1})

(* A message is flagged or deleted only after a composer made for it has    *)
(* been sent, or postponed when it was recalled.                           *)
FlaggedRight ==
  \A f \in flagged : \E j \in DOMAIN jobs :
    /\ jobs[j].msg = f[2] /\ jobs[j].state \in {"sent", "postponed"}
    /\ jobs[j].cmd \in CASE f[1] = "answered" -> {"reply", "invite"}
                         [] f[1] = "forwarded" -> {"forward"}
                         [] OTHER -> {"recall"}

(* When nothing is under way aerc may quit: every bounced message has been  *)
(* counted, unless its body never came (silent); and temporary files are    *)
(* gone unless a fetch failed.                                             *)
QuitAgain ==
  /\ \A i \in DOMAIN bounces :
       bounces[i].fetching \cup bounces[i].sending = {} /\ "silent" \notin rp_astray =>
         ~NoQuit(bounces[i]) /\ (bounces[i].remarked <=> bounces[i].bad # {})
  /\ \A j \in DOMAIN jobs :
       jobs[j].tmp => jobs[j].state \in {"fetching", "open"} \/ "failed" \in rp_astray

RepliesRight == Addressed /\ PartsKept /\ FlaggedRight /\ QuitAgain
=============================================================================
