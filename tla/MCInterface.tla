------------------------------ MODULE MCInterface -----------------------------
(***************************************************************************)
(* Interface and the other components of the user interface for TLC: each *)
(* behaviour is one of a single component, chosen by part, while the *)
(* others rest.                                                      *)
(***************************************************************************)
EXTENDS Interface, TLC

VARIABLES
  part,
  (* ComposeFields *)
  header, input, layout, focusable, focused, cursor, storing, term, review, editHeaders, file,
  seen, crypto, form_acct, open, careless, untold, commands,
  (* Transfer *)
  mailbox, there, carry_file, folder, pendingBodies, bodyCallbacks, marks, jobs, actions,
  messages, stuck, astray, excused, kinds, faults,
  (* Threads *)
  mail, uids, blocks, forest, known, hidden, threads_gone, threadedUids, due, orphaned,
  revived, th_events,
  (* Patches *)
  head, todo, projects, current, pipes, editor, timer, switching, origin, given,
  patching_meant, causes, badDrops, fresh, commandsLeft, foreignLeft,
  (* Folders *)
  folders_server, ui, answers, folders_astray, folders_commandsLeft, faultsLeft,
  (* Keys *)
  keys, last, real, keys_astray, keysLeft,
  (* TextInput *)
  ti, popover, line_timer, asks, committed, lost, line_astray, line_keysLeft,
  (* Replies *)
  answer_mail, answer_selected, viewer, answer_jobs, asked, flagged, bounces, rp_astray,
  rp_steps, rp_faults,
  (* Wizard *)
  form, page, focus, discovered, discoveredFor, lookups, wizard_file, accounts, wizard_open,
  confirmed, wz_astray, wz_edits, wz_faults,
  (* Dialogs *)
  dialog, unanswered, quake, rollers, callbacks, terms, picks, box, posting, executed,
  dg_lost, dg_outrun, dg_steps, dg_faults,
  (* Programs *)
  programs_jobs, programs_actions, programs_pending, owner, infos, tabs, programs_selected,
  files, temps, picker, crashed, starved, switched, attached, clobbered, pg_commands,
  pg_faults

(* The first tabs. *)
MCKinds == {<<"account", "account">>, <<"broken">>}

Launched(d) == [does |-> d, asks |-> TRUE, serves |-> TRUE]
MCLaunches ==
  {<<Launched("nothing"), Launched("mailto"), Launched("quit")>>,
   <<Launched("mailto"), Launched("quit"),
     [Launched("quit") EXCEPT !.asks = FALSE, !.serves = FALSE]>>}

Bind(i, o) == [input |-> i, output |-> o]
Section(b, g) == [binds |-> b, ex |-> ":", complete |-> "tab", globals |-> g]
Place(s, a, f) == [section |-> s, account |-> a, folder |-> f]

Form == INSTANCE ComposeFields
  WITH Accounts <- {"A", "B"},
       Rcpts <- {"r"},
       HasKey <- {"A"},
       Extra <- "x",
       FocusBody <- FALSE,
       Touched <- {"from", "cc", "x"},
       Drafts <- {[cc |-> {}, edit |-> FALSE, spent |-> 0],
                  [cc |-> {"r"}, edit |-> FALSE, spent |-> 1],
                  [cc |-> {}, edit |-> TRUE, spent |-> 1]},
       MaxCommands <- 6

Carry == INSTANCE Transfer
  WITH Folders <- {"a", "b"},
       Uids <- {1, 2},
       Unsupported <- FALSE,
       MaxRetries <- 1,
       Plans <- {[kinds |-> <<"move">>, faults |-> 2], [kinds |-> <<"copy">>, faults |-> 1],
             [kinds |-> <<"archive">>, faults |-> 1], [kinds |-> <<"import">>, faults |-> 1],
             [kinds |-> <<"move", "move">>, faults |-> 0], [kinds |-> <<"export", "move">>, faults |-> 0],
             [kinds |-> <<"export">>, faults |-> 2]},
       file <- carry_file

Trees == INSTANCE Threads
  WITH Messages <- 1..3,
       Ids <- 1..4,
       SortSiblings <- TRUE,
       MaxEvents <- 2,
       Mails <-
         LET H(id, r, s, p) ==
               [id |-> id, refs |-> r, irp |-> 0, text |-> 0, base |-> s, reply |-> p]
         IN {<<H(1, a, 0, FALSE), H(2, b, 0, FALSE), H(3, c, 0, FALSE)>> :
              a \in {<<>>, <<3>>}, b \in {<<>>, <<1>>, <<4>>, <<4, 3>>, <<1, 4>>},
              c \in {<<>>, <<2>>, <<1, 2>>, <<2, 4>>, <<4, 1>>}}
            \cup {<<H(1, <<>>, 1, p), H(2, <<4>>, 1, q), H(3, c, 1, TRUE)>> :
                  p \in BOOLEAN, q \in BOOLEAN, c \in {<<>>, <<4>>}}
            \cup {<<H(1, <<>>, 0, FALSE), H(1, a, 0, FALSE), H(3, <<1>>, 0, FALSE)>> :
                  a \in {<<>>, <<3>>}},
       gone <- threads_gone

Patching == INSTANCE Patches
  WITH Series <- [a |-> <<"a1", "a2">>, b |-> <<"b1">>, c |-> <<"c1">>],
       Applied <- <<"a">>,
       NewTag <- "n",
       Subject <- [a1 |-> "s", a2 |-> "t", b1 |-> "u", c1 |-> "v", own |-> "v",
                   up |-> "x", root |-> "r"],
       Needs <- {<<"c1", "a1">>},
       MaxCommands <- 2,
       MaxForeign <- 1,
       meant <- patching_meant

Dirs == INSTANCE Folders
  WITH Alphabet <- <<"a", "b", "c", "d", "e">>,
       OnServer <- {<<"a">>, <<"b", "c", "d">>},
       Makes <- {<<"b", "e">>},
       Excluded <- {},
       FoldersSort <- <<<<"b", "c", "d">>>>,
       EnableFoldersSort <- TRUE,
       Default <- <<"a">>,
       Unseen <- {<<"b", "c", "d">>},
       DirListCollapse <- 1,
       StartAsTree <- TRUE,
       MaxCommands <- 2,
       MaxFaults <- 1,
       server <- folders_server,
       astray <- folders_astray,
       commandsLeft <- folders_commandsLeft

Input == INSTANCE Keys
  WITH Default <- Section(<<Bind(<<"g", "q">>, <<":", "p", "enter">>), Bind(<<"q">>, <<":", "d", "enter", "g">>)>>, TRUE),
       Groups <-
         [messages |-> Section(<<Bind(<<"g", "g">>, <<"q">>), Bind(<<"d">>, <<":", "up", "enter">>)>>, TRUE),
          view |-> Section(<<Bind(<<"g", "d">>, <<":", "p", "enter">>)>>, FALSE),
          terminal |-> [Section(<<Bind(<<"d">>, <<":", "m">>)>>, FALSE) EXCEPT !.ex = "x"]],
       Contextual <-
         [messages |-> <<[type |-> "account", matches |-> {"A"},
                          group |-> Section(<<Bind(<<"q">>, <<>>), Bind(<<"d">>, <<>>)>>, TRUE)],
                         [type |-> "folder", matches |-> {"F"},
                          group |-> Section(<<Bind(<<"d">>, <<":", "m", "enter">>)>>, FALSE)]>>,
          view |-> <<[type |-> "account", matches |-> {"A"},
                      group |-> Section(<<Bind(<<"d">>, <<"q">>)>>, TRUE)]>>,
          terminal |-> <<>>],
       Places <- {Place("messages", "A", "I"), Place("messages", "A", "F"), Place("messages", "B", "I"),
                  Place("view", "A", "I"), Place("terminal", "A", "I")},
       Effect <- (<<"p">> :> [does |-> "prompt"]) @@ (<<"d">> :> [does |-> "dialog"])
                @@ (<<"m">> :> [does |-> "view", view |-> Place("terminal", "A", "I")]),
       UserKeys <- {"g", "q", "d", ":", "x", "enter", "esc", "up"},
       MaxKeys <- 4,
       MaxHistory <- 2,
       astray <- keys_astray

Line == INSTANCE TextInput
  WITH Chars <- {"a", " ", "/"},
       Separators <- {"/"},
       Words <- <<<<"a", "/", "a">>, <<"a", "a">>>>,
       MinChars <- 1,
       Width <- 2,
       Texts <- {<<>>, <<"a", " ", "/">>},
       MaxText <- 4,
       MaxKeys <- 3,
       timer <- line_timer,
       astray <- line_astray,
       keysLeft <- line_keysLeft

Answer == INSTANCE Replies
  WITH Me <- "me",
       Aliases <- <<{"al", "z"}>>,
       ReplyToSelf <- FALSE,
       Mails <-
         LET Blank == [replyTo |-> <<>>, from |-> <<"x">>, sender |-> <<>>, to |-> <<"me">>, cc |-> <<>>,
                       post |-> <<>>, originalTo |-> <<>>, organizers |-> <<>>, encrypted |-> FALSE]
         IN {[Blank EXCEPT !.from = <<"me", "x">>, !.organizers = <<"x", "y">>, !.encrypted = TRUE],
             [Blank EXCEPT !.from = <<"me">>, !.to = <<"x", "me", "x">>, !.cc = <<"y", "al">>],
             [Blank EXCEPT !.replyTo = <<"y">>, !.to = <<"al", "x">>, !.cc = <<"x", "y">>,
                           !.sender = <<"z">>, !.post = <<"x">>]},
       Options <- {{}, {"a"}, {"a", "l"}, {"a", "f"}, {"c", "q"}},
       Parts <- {1, 2},
       NoMessage <- 0,
       MaxCommands <- 2,
       MaxFaults <- 1,
       mail <- answer_mail,
       selected <- answer_selected,
       jobs <- answer_jobs

Setup == INSTANCE Wizard
  WITH Sources <- <<"IMAP", "Maildir">>,
       Outgoings <- <<"SMTP", "sendmail">>,
       Transports <- <<"SSL/TLS", "STARTTLS">>,
       Services <- {"IMAP", "plain"},
       Emails <- {"e"},
       Typable <- {"sPass", "oServer"},
       Temporary <- FALSE,
       Existing <- "old",
       MaxEdits <- 2,
       MaxFaults <- 1,
       file <- wizard_file,
       open <- wizard_open

Screen == INSTANCE Dialogs
  WITH Lines <- <<"a", "b", "ab">>,
       Terms <- {"", "a", "b"},
       Matching <- (("" :> {"a", "b", "ab"}) @@ ("a" :> {"a", "ab"}) @@ ("b" :> {"b", "ab"})),
       Methods <- <<"https", "mailto">>,
       MaxSteps <- 4,
       MaxFaults <- 1

Jobs == INSTANCE Programs
  WITH Mails <- 1..2,
       Series <- {1},
       Composers <- {-2, -3},
       Pipes <-
         {[uids |-> {1, 2}, background |-> FALSE, silent |-> TRUE],
          [uids |-> {2}, background |-> TRUE, silent |-> FALSE]},
       Attachments <- <<<<"a">>, <<"a">>>>,
       Images <- {1},
       Existing <- {},
       MaxCommands <- 2,
       MaxFaults <- 1,
       jobs <- programs_jobs,
       actions <- programs_actions,
       pending <- programs_pending,
       selected <- programs_selected

formVars ==
  <<header, input, layout, focusable, focused, cursor, storing, term, review, editHeaders,
    file, seen, crypto, form_acct, open, careless, untold, commands>>
carryVars ==
  <<mailbox, there, carry_file, folder, pendingBodies, bodyCallbacks, marks, jobs, actions,
    messages, stuck, astray, excused, kinds, faults>>
threadsVars ==
  <<mail, uids, blocks, forest, known, hidden, threads_gone, threadedUids, due, orphaned,
    revived, th_events>>
patchingVars ==
  <<head, todo, projects, current, pipes, editor, timer, switching, origin, given,
    patching_meant, causes, badDrops, fresh, commandsLeft, foreignLeft>>
foldersVars ==
  <<folders_server, ui, answers, folders_astray, folders_commandsLeft, faultsLeft>>
keysVars ==
  <<keys, last, real, keys_astray, keysLeft>>
lineVars ==
  <<ti, popover, line_timer, asks, committed, lost, line_astray, line_keysLeft>>
answerVars ==
  <<answer_mail, answer_selected, viewer, answer_jobs, asked, flagged, bounces, rp_astray,
    rp_steps, rp_faults>>
wizardVars ==
  <<form, page, focus, discovered, discoveredFor, lookups, wizard_file, accounts,
    wizard_open, confirmed, wz_astray, wz_edits, wz_faults>>
dialogsVars ==
  <<dialog, unanswered, quake, rollers, callbacks, terms, picks, box, posting, executed,
    dg_lost, dg_outrun, dg_steps, dg_faults>>
programsVars ==
  <<programs_jobs, programs_actions, programs_pending, owner, infos, tabs,
    programs_selected, files, temps, picker, crashed, starved, switched, attached,
    clobbered, pg_commands, pg_faults>>

(* The variables of a component that takes no part have no value of interest. *)
NoState == 0

MCInit ==
  /\ part \in {"form", "sending", "tabs", "carry", "view", "threads", "marks", "patching",
               "folders", "keys", "line", "answer", "wizard", "dialogs", "instances",
               "programs"}
  /\ InterfaceInit
  /\ part = "tabs" \/ tab_kind = <<"broken">>
  /\ part = "view" \/ asking = {}
  /\ part = "sending" \/ kind = "new"
  /\ part = "instances" \/ launch = CHOOSE l \in Launches : TRUE
  /\ IF part = "form" THEN Form!Init
     ELSE /\ header = NoState /\ input = NoState /\ layout = NoState /\ focusable = NoState
          /\ focused = NoState /\ term = NoState /\ review = NoState
          /\ editHeaders = NoState /\ file = NoState /\ seen = NoState /\ crypto = NoState
          /\ form_acct = NoState /\ open = NoState /\ careless = NoState /\ untold = NoState
          /\ cursor = NoState /\ storing = NoState /\ commands = NoState
  /\ IF part = "carry" THEN Carry!Init
     ELSE /\ mailbox = NoState /\ there = NoState /\ carry_file = NoState
          /\ folder = NoState /\ pendingBodies = NoState /\ bodyCallbacks = NoState
          /\ marks = NoState /\ jobs = NoState /\ actions = NoState /\ messages = NoState
          /\ stuck = NoState /\ astray = NoState /\ excused = NoState /\ kinds = NoState
          /\ faults = NoState
  /\ IF part = "threads" THEN Trees!Init
     ELSE /\ mail = NoState /\ uids = NoState /\ blocks = NoState /\ forest = NoState
          /\ known = NoState /\ hidden = NoState /\ threads_gone = NoState
          /\ threadedUids = NoState /\ due = NoState /\ orphaned = NoState
          /\ revived = NoState /\ th_events = NoState
  /\ IF part = "patching" THEN Patching!Init
     ELSE /\ head = NoState /\ todo = NoState /\ projects = NoState /\ current = NoState
          /\ pipes = NoState /\ editor = NoState /\ timer = NoState
          /\ switching = NoState /\ origin = NoState /\ given = NoState
          /\ patching_meant = NoState /\ causes = NoState /\ badDrops = NoState
          /\ fresh = NoState /\ commandsLeft = NoState /\ foreignLeft = NoState
  /\ IF part = "folders" THEN Dirs!Init
     ELSE /\ folders_server = NoState /\ ui = NoState /\ answers = NoState
          /\ folders_astray = NoState /\ folders_commandsLeft = NoState
          /\ faultsLeft = NoState
  /\ IF part = "keys" THEN Input!Init
     ELSE /\ keys = NoState /\ last = NoState /\ real = NoState /\ keys_astray = NoState
          /\ keysLeft = NoState
  /\ IF part = "line" THEN Line!Init
     ELSE /\ ti = NoState /\ popover = NoState /\ line_timer = NoState /\ asks = NoState
          /\ committed = NoState /\ lost = NoState /\ line_astray = NoState
          /\ line_keysLeft = NoState
  /\ IF part = "answer" THEN Answer!Init
     ELSE /\ answer_mail = NoState /\ answer_selected = NoState /\ viewer = NoState
          /\ answer_jobs = NoState /\ asked = NoState /\ flagged = NoState
          /\ bounces = NoState /\ rp_astray = NoState /\ rp_steps = NoState
          /\ rp_faults = NoState
  /\ IF part = "wizard" THEN Setup!Init
     ELSE /\ form = NoState /\ page = NoState /\ focus = NoState /\ discovered = NoState
          /\ discoveredFor = NoState /\ lookups = NoState /\ wizard_file = NoState
          /\ accounts = NoState /\ wizard_open = NoState /\ confirmed = NoState
          /\ wz_astray = NoState /\ wz_edits = NoState /\ wz_faults = NoState
  /\ IF part = "dialogs" THEN Screen!Init
     ELSE /\ dialog = NoState /\ unanswered = NoState /\ quake = NoState
          /\ rollers = NoState /\ callbacks = NoState /\ terms = NoState /\ picks = NoState
          /\ box = NoState /\ posting = NoState /\ executed = NoState /\ dg_lost = NoState
          /\ dg_outrun = NoState /\ dg_steps = NoState /\ dg_faults = NoState
  /\ IF part = "programs" THEN Jobs!Init
     ELSE /\ programs_jobs = NoState /\ programs_actions = NoState
          /\ programs_pending = NoState /\ owner = NoState /\ infos = NoState
          /\ tabs = NoState /\ programs_selected = NoState /\ files = NoState
          /\ temps = NoState /\ picker = NoState /\ crashed = NoState /\ starved = NoState
          /\ switched = NoState /\ attached = NoState /\ clobbered = NoState
          /\ pg_commands = NoState /\ pg_faults = NoState

Rest(p) ==
  /\ UNCHANGED part
  /\ IF p = "form" THEN TRUE ELSE UNCHANGED formVars
  /\ IF p = "sending" THEN TRUE ELSE UNCHANGED sendingVars
  /\ IF p = "tabs" THEN TRUE ELSE UNCHANGED barVars
  /\ IF p = "carry" THEN TRUE ELSE UNCHANGED carryVars
  /\ IF p = "view" THEN TRUE ELSE UNCHANGED viewVars
  /\ IF p = "threads" THEN TRUE ELSE UNCHANGED threadsVars
  /\ IF p = "marks" THEN TRUE ELSE UNCHANGED marksVars
  /\ IF p = "patching" THEN TRUE ELSE UNCHANGED patchingVars
  /\ IF p = "folders" THEN TRUE ELSE UNCHANGED foldersVars
  /\ IF p = "keys" THEN TRUE ELSE UNCHANGED keysVars
  /\ IF p = "line" THEN TRUE ELSE UNCHANGED lineVars
  /\ IF p = "answer" THEN TRUE ELSE UNCHANGED answerVars
  /\ IF p = "wizard" THEN TRUE ELSE UNCHANGED wizardVars
  /\ IF p = "dialogs" THEN TRUE ELSE UNCHANGED dialogsVars
  /\ IF p = "instances" THEN TRUE ELSE UNCHANGED instancesVars
  /\ IF p = "programs" THEN TRUE ELSE UNCHANGED programsVars

MCNext ==
  \/ part = "form" /\ Form!Next /\ Rest("form")
  \/ part = "sending" /\ Sending!Next /\ Rest("sending")
  \/ part = "tabs" /\ Next /\ Rest("tabs")
  \/ part = "carry" /\ Carry!Next /\ Rest("carry")
  \/ part = "view" /\ Views!Next /\ Rest("view")
  \/ part = "threads" /\ Trees!Next /\ Rest("threads")
  \/ part = "marks" /\ Marks!Next /\ Rest("marks")
  \/ part = "patching" /\ Patching!Next /\ Rest("patching")
  \/ part = "folders" /\ Dirs!Next /\ Rest("folders")
  \/ part = "keys" /\ Input!Next /\ Rest("keys")
  \/ part = "line" /\ Line!Next /\ Rest("line")
  \/ part = "answer" /\ Answer!Next /\ Rest("answer")
  \/ part = "wizard" /\ Setup!Next /\ Rest("wizard")
  \/ part = "dialogs" /\ Screen!Next /\ Rest("dialogs")
  \/ part = "instances" /\ Peers!Next /\ Rest("instances")
  \/ part = "programs" /\ Jobs!Next /\ Rest("programs")

mcVars ==
  <<part, formVars, sendingVars, barVars, carryVars, viewVars, threadsVars, marksVars,
    patchingVars, foldersVars, keysVars, lineVars, answerVars, wizardVars, dialogsVars,
    instancesVars, programsVars>>

MCSpec == MCInit /\ [][MCNext]_mcVars

(* What is sent is what the form shows, and replies go to whom they should (app/compose.go, *)
(* commands/msg/reply.go).                                                                  *)
ComposerRight ==
  /\ part = "form" => (Form!FieldsAgree /\ Form!SentAsSeen)
  /\ part = "answer" => Answer!RepliesRight

(* Messages that are carried, and files for programs, arrive or fail (commands/msg/move.go, *)
(* commands/msg/pipe.go).                                                                   *)
TransfersRight ==
  /\ part = "carry" => Carry!TransfersRight
  /\ part = "programs" => Jobs!ProgramsRight

(* A tag names the commits of its patches (lib/pama). *)
PatchesRight == part = "patching" => Patching!PatchesRight

(* Threads and directories have the shape their messages and folders ask for *)
(* (lib/threadbuilder.go, app/dirtree.go).                                   *)
TreesRight ==
  /\ part = "threads" => Trees!ThreadsRight
  /\ part = "folders" => Dirs!FoldersRight

(* Keys, texts, look-ups and dialogs go to whom the user means (app/aerc.go, *)
(* lib/ui/textinput.go, app/account-wizard.go, app/listbox.go).              *)
InputRight ==
  /\ part = "keys" => Input!KeysRight
  /\ part = "line" => Line!InputRight
  /\ part = "wizard" => Setup!WizardRight
  /\ part = "dialogs" => Screen!DialogsRight
=============================================================================
