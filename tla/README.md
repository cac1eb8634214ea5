# A TLA+ model of aerc

aerc is a terminal mail client. A single process runs one *user interface*
goroutine, which owns every widget and all state about accounts, folders and
messages, and for every account one *worker* goroutine, which talks to the mail
store (IMAP, JMAP, maildir, mbox, notmuch). The two halves share no state: the
interface posts *actions* into a channel of the worker, the worker answers with
*messages* through one channel that all workers share. What is hard about the
program follows from that design: an answer arrives when the world has moved on.
The user has opened another folder, another client has expunged a message, the
connection was replaced, the list was sorted again.

The modules in this directory model those parts. TLC checks them on small
instances, and TLAPS proves the most important facts for every instance.
`PROJECT.json` maps each definition to the lines of the source it stands for.

Contents: 1 inventory, 2 modules, 3 runs, 4 fairness, 5 proofs, 6 where code
and documentation disagree, 7 what is not modelled, 8 plan.

## 1. Inventory

| component | state | operations | what is hard | what must hold |
|---|---|---|---|---|
| redraw loop (`lib/ui/ui.go`, `main.go`) | atomic flags `dirty`, `refresh`, `suspending`; two channels of capacity 1 | `Invalidate`, `QueueRefresh`, `QueueSuspend`, `Render`, `Suspend` | called from any goroutine, also from the only receiver | never blocks; the last change is shown |
| worker bus (`worker/types/worker.go`) | action queue (32), message queue (2048), two callback tables, last id | `PostAction`, `PostMessage`, `ProcessAction`, `ProcessMessage` | both queues bounded, a worker posts to itself | every action answered once; no wait in a circle |
| IMAP session (`worker/imap/worker.go` and the handlers) | client, `selected`, current action | one handler for each kind of action, `ensureSelected`, reconnect, terminate | cancellation between commands, lost connections, failed SELECT | commands run in the mailbox they name |
| idle mode and observer (`idler.go`, `observer.go`) | client, `stop`, `done`, debounce timer, `running` | `Start`, `Execute`, `Stop`, `SetClient`, `EmitIfNotConnected` | five kinds of goroutine, unbuffered channels, fields read late | one at a time on the wire; no loss unnoticed |
| sequence numbers (`seqmap.go`, `expungehandler.go`, `flags.go`, `movecopy.go`) | `seqMap`, `expunger`, channel `updates` (50) | `Initialize`, `Put`, `Pop`, `Remove`, drain goroutine, delete, move | servers expunge in different orders; others expunge meanwhile | an update names the right message |
| account view (`app/account.go`) | connection state, retries, `checkingMail`, stores by folder | `onMessage`, backoff timer, `CheckMail` | timers that survive what they were set for | a lost connection comes back |
| folder list (`app/dirlist.go`, `dirtree.go`) | selected folder, context, stores, tree | `Open` with delay, `NewContext`, `Update` | delayed goroutines, cancelled contexts | the last folder asked for is shown |
| message store (`lib/msgstore.go`) | `uids`, `Messages`, `Deleted`, pending headers and bodies, selection, filter, threads | `Update`, `FetchHeaders`, `Sort`, `Delete`, `Move`, `NextPrev`, `Select`, search, threads | answers to a list that has changed; marks set in advance | the list becomes the mailbox; no header is lost |
| message list (`app/msglist.go`, `scrollable.go`) | scroll position, height | `Draw`, `Select` | drawing asks for headers | rows exist; visible rows are loaded |
| commands (`commands/`) | none of their own; closures over messages and stores | parse, act, callback | the closure is old when it runs | selection and marks come back after a failure |
| threads (`lib/threadbuilder.go`, `lib/jwz`, `worker/types/thread.go`) | tree, debounce timer | build, fold, sort | rebuilt in a goroutine while the list changes | the tree has every message once |
| marker, iterator (`lib/marker`, `lib/iterator`) | marked and remembered UIDs, visual start | mark, toggle, visual mode, remark | UIDs vanish under it | marked messages exist |
| filter, search, dates (`worker/types/search.go`, `worker/*/search.go`, `lib/parse`) | the criteria of a list | combine, translate, evaluate | one object shared with workers; five languages | what is listed meets what was typed |
| tabs and focus (`lib/ui/tab.go`, `app/exline.go`) | order, history, pins, focus | select, move, pin, replace, remove | programs and reloads remove tabs at any time | one focus; history leads to open tabs |
| keys (`config/binds.go`, `app/aerc.go`) | pending keys, history, command line | overlay, match, simulate, paste | keys that outlive their view | the binding meant is run |
| input line (`lib/ui/textinput.go`) | text, cursor, completions | edit, complete | completions found in goroutines | cursor in the text; nothing typed is lost |
| dialogs, drop-down terminal (`app/aerc.go`, `app/quake.go`) | the one dialog | ask, pick, roll | openers do not know of each other | a question stays until answered |
| viewer (`app/msgviewer.go`, `lib/messageview.go`) | viewers, bodies on their way | open, move, decrypt, fetch parts | the answer comes when the viewer shows something else | each viewer shows its message in the end |
| transfers, programs, files (`commands/`) | goroutines with timers, temporary files | move, copy, archive, export, import; pipe, open, save, attach | timers race answers; UIDs are those of a folder | no message lost, none moved twice |
| composer (`app/compose.go`, `commands/compose`) | four copies of each header, review, count of unsent mail | edit, send, copy, postpone, quit | copies go apart; goroutines of send and postpone | what is sent is what was seen |
| replies (`commands/msg`) | parts on their way, bounces | reply, forward, recall, accept, bounce | parts arrive while the user writes | right recipients; all parts |
| wizard (`app/account-wizard.go`) | fields, look-ups, URLs | edit, look up, save | fields fill each other; late look-ups | what is saved is what is shown |
| processes (`main.go`, `lib/ipc`) | socket, connections | connect, listen, execute, quit | start-ups and ends at the same time | a command runs once |
| local workers (`worker/maildir`, `mbox`, `notmuch`, `lib/watchers`) | UID tables, file names that hold flags, database revision | open, flag, move, delete, watch | other programs change the files | a UID names one message |
| JMAP worker (`worker/jmap`) | state strings, cache, push stream | query, changes, set, upload | state strings that go stale | cache follows the server |
| patches (`lib/pama`, `commands/patch`) | projects, lists of commits | apply, drop, rebase, link, switch | git runs beside the commands | each commit belongs to its patch |
| middleware (`worker/middleware`) | map of folder names | translate both ways | names in both spaces | what goes out comes back |
| configuration, parsing, templates, crypto, hooks, ipc, filters | mostly none | pure functions, external programs | — | — |

### How they interact

```
 key, timer, IPC ──> commands ──> message store, folder list, composer
                        │                │  PostAction(ctx, action, callback)
                        │                v
 Invalidate          callback      Worker.actions ──> worker loop ──> server
   │                    ^                               │   ^
   v                    │                               │   └─ updates, idle
 main loop <── WorkerMessages <──────── PostMessage ────┘
   └─> callback of the action, then AccountView.onMessage ──> store.Update
```

One loop (`main.go`) selects between terminal events, worker messages, queued
callbacks, redraws and suspends, and handles each to its end. A worker does the
same with actions, server updates and the idle timer. Every interleaving in the
modules is one of whole iterations of these two loops, split where the code
gives the other side a chance: at a channel, an atomic operation, a command on
the wire, a goroutine or a timer.

## 2. Modules

The modules of the first seven components below are run directly, with one `.cfg` for each
question asked of them (ImapExpunge needs definitions for its instance: `MCImapExpunge`);
the other modules belong to the compositions (Backends, Interface, `MCBackends`, `MCInterface`). `Sublists` has what
loops leave that drop elements of a list, for all who have such a loop. Definitions named like another one with
an ending that spells out a fault (for instance `InvalidateSwapAlwaysSends`) are
deliberate bugs, each preceded by a comment that says so. They belong to no
next-state relation; they serve to confirm that a property notices the fault.

### UiRedraw, UiRedrawProofs

`version` stands for everything the widgets show, `drawn` for the cell buffer,
`shown` for the terminal. Each goroutine has a program counter that stops
between the atomic swap and the channel operation of `Invalidate` and
`QueueSuspend`, and between the swap, the drawing and the flush of `Render`. The
main goroutine makes the same requests as all others, so a blocking send would
be its own end. The status line is such a widget, with a lock that `Draw` takes too:
`Push` invalidates with the lock held, and `Colour` is what `PushError` and its like do
after that, without lock or `Invalidate`. The main goroutine cannot draw in
between; another one is overtaken, and `late` remembers its colour.

### ImapSession, ImapSessionProofs

The worker as the account view drives it. The variables are the queue of
actions, the action being handled with a program counter that stops at every
command on the wire, `client`, `selected` (what the worker believes) and
`mailbox` (what the server has selected), and of the interface the context of
the folder list, the contexts of the stores, the delayed goroutines of `Open`
and the pending answers. Handlers with the same control share an action: kinds
of fetch, of store, of delete and so on are members of the sets `FetchKinds`,
`WriteKinds` and the like. The history variable `selectedBy` says what the
last SELECT or connection was (an opening, a cancelled one, a command, a new
client); it is set whether or not `selected` and `mailbox` differ, and
read by properties only.

### ImapIdle, ImapIdleProofs

Idler, observer, worker loop and everything spawned by them, one action for each
step between two channel operations. Channels that are created anew
(`idler.stop`, `observer.done`) are numbered, so that a goroutine that holds an
old one is seen to hold it. `client`, `stop` and `done` are read when a goroutine
starts to run, not when it is created, as in the code. `offline` records that the user has
disconnected: without it, `Watched` wants a client and its watcher, or the report of a loss.

### ImapExpunge, ImapExpungeProofs

A mailbox is a set of UIDs and the sequence number of a message is its rank.
The server expunges in its own order and reports sequence numbers; the worker
translates them by the expunge handler (with the account's `expunge-policy`) or by
the sequence map. The drain goroutine and the bounded channel of updates are
explicit. The variable `astray` collects the events after which the code cannot be right
(a list that overtakes updates, another client's expunge during a command, an
`expunge-policy` that does not fit the server, and so on; the comment on `Events` has them
all). The properties say that nothing else leads the worker astray. `Fits` says which
policies fit a server: `auto` looks at the first number only, so it cannot tell a server
that keeps its numbers from one that starts with the first message, as the manual warns.

### AccountReconnect

`ConnError`, `Connect`, `Reconnect` and `Disconnect` in the account view, with the
timers of the backoff. The delay is computed as in the code: `1.8^n` seconds,
converted to an `int64` of nanoseconds. TLC has 32-bit integers, so the module
brings arithmetic on limbs of four decimal digits; `power` is `18^retries`.

### MessageStore, MessageStoreProofs

The list, the store and the worker's side of listing, fetching headers,
checking for mail, deleting and moving. It builds on the two modules before: a
worker action is one step here, in the right mailbox (ImapSession) and with the
right UIDs (ImapExpunge). What is left is the protocol between the store and
the worker.

| TLA+ | code |
|---|---|
| `known` | `store.Messages`: no header yet (`nil`), flags only, or complete |
| `uids`, `selected`, `deleted`, `pending` | the fields of the same purpose |
| `fresh` | `store.ctx` is not cancelled |
| `scroll`, `drawn`, `dirty` | the message list and the pending redraw |
| `Draw` | `MessageList.Draw`: select, scroll, ask for the headers of empty rows |
| `UserRemoves` | `:delete` and `:move` up to `PostAction`, with `findNextNonDeleted` |
| `OnRemoved` | their callbacks: marks, selection, `Select(-1)` |
| `OnContents`, `OnSorted` | `DirectoryContents` and the callback of `Sort` |
| `OnInfo`, `OnFlags`, `OnDeleted` | `MessageInfo` asked for and unasked, `MessagesDeleted` |
| `HandleUpdate`, `hold` | `handleImapUpdate` with the 20 ms in which a second `MailboxUpdate` is ignored |
| `RemoveMessages` | `handleDeleteMessages`, `handleMoveMessages` with what their drain goroutine takes in |

### WorkerBus, WorkerBusProofs

The channels and the table of callbacks of `worker/types/worker.go` for several
accounts, the main loop at the grain of single sends, and the periodic check for
mail. Where the modules above follow one worker with room in its queue, this one
asks what happens when the channels are full.

| TLA+ | code |
|---|---|
| `actions`, `messages`, `callbacks` | `Worker.actions`, `WorkerMessages`, `Worker.actionCallbacks` |
| `Register`, `SendAction` | the two halves of `PostAction`: the callback, then the send that may block |
| `ui` | what the main goroutine has still to do in one iteration of its select |
| `out`, `side` | what a worker, or a goroutine of `handleCheckMail`, has still to send |
| `ticker`, `lock`, `checking` | `CheckMailTimer`, `AccountView.Mutex`, `checkingMail` |
| `Callback`, `Deletion`, `OnMessage` | `ProcessMessage`, then `onMessage` |
| `PutsOff` | a `CheckMail` that gives way to waiting actions (`CheckMailDirectories`) |

`Circle` names the states in which everyone waits for everyone. There are two
kinds: an IMAP worker posts a `CheckMail` to its own full queue
(`handleStoreOps`, `handleImapUpdate`), against the warning above `PostAction`;
or the main goroutine waits for room in the queue of a worker which waits for
room in `WorkerMessages`, in its own send or for the lock that the ticker holds in
`CheckMail` while it sends. `Answered` says that there is no other.

### MailStore, Mbox, Maildir

`MailStore` is the abstract specification of what every backend promises: which
messages are in which folder, and that a step changes this only as its answer says
or as somebody else's change does. `Mbox` and `Maildir` implement it: each
instantiates it with a refinement mapping (`Store`) from its containers or its
files to sets of messages, and the property `MailKept` of the run `backends` is
that their specifications imply `Store!Spec` (`BackendsProofs` proves it). In `Mbox` a message is the hash of its contents,
which is its UID in the code; `w.folder` keeps pointing at a container that has been replaced,
and is what `dir` falls back to when a command names a folder that does not exist.
In `Maildir` other programs deliver, rename and remove; the debounced watcher and
the goroutine of `:check-mail` are steps of their own, and so are the sync, the end of the old
watches and the new watches of an opening. A maildir++ worker (`maildirpp`) never reads
what its timer sends.

### JmapSync, JmapMailboxes, JmapListen

Three sides of `worker/jmap` that share little. In `JmapSync` the past of the
server is kept, so that a state string is the number of a snapshot and "what
changed since" is computed; requests of the event source and of the worker read the cache
in one step and write it in another. It starts with an empty cache or with that of an earlier
run, since when the mail may have changed. `JmapMailboxes` has the tree of mailboxes and the four
copies of it in the worker, cache and interface, with a restart that loses the pushes of the
meantime. `JmapListen` has the goroutines of successive connections, which share `w.stop`;
`crossed` records that one of them has met another connection's channel there.

### Notmuch

Messages with several files, an index that other programs leave behind, tags.
The strategies of delete, move and copy are those of `filterForStrategy`. The
list is included, because what the worker reports is right or wrong only together
with what the store does with it.

### Searches, DateRanges

What the user types (`filter`), the criteria (`object`, one object per list that
is changed in place) and what each backend makes of it. `Meets` is the
reference, written from `aerc-search(1)`; `Differs` lists, for each
backend, where it does something else. `DateRanges` has Go's arithmetic of
dates; `DatesRight` compares with a calendar that counts days one by one.

### Selection, Threads

`Selection`: marks, visual mode, search results and the iterators in both
orders; `meant` is what the user marked, computed from the manual. `Threads`:
the whole of `lib/jwz` (containers, pruning, gathering by subject), the builder
and its timer, folds. `NearestAncestor` is stated over the references of the
messages alone.

### Viewer, Transfer, Programs

What fetches bodies. Each follows closures: a callback is a record of what it has
captured. `Viewer` has tabs with viewers, `:next`, `:delete`, decryption and
`pendingBodies`. `Transfer` has two accounts, with a timer for every
fetch and append; a message is `<<folder, uid>>`, because UIDs of two folders
coincide. `Programs` has `:pipe`, `:open`, `:save`, `:attach -m` and inline images.

### ComposeFields, ComposeSend, Replies

`ComposeFields`: a header has a value in the message, in its editor, in the
edited file and in what the user saw; `SentAsSeen` relates the first and
the last. `cursor` is the editor that has the focus, and `storing` are the editors
which store the form when they lose it: those that `buildComposeHeader` makes, not those that
`addEditor` does. `ComposeSend`: the goroutines of `:send` and `:postpone`, with the
channel of capacity one between main goroutine and copies, and the counter that keeps
aerc from quitting. `Replies`: recipients, attachments on their way, and what
closing the composer does to the original.

### Folders

Folder list and folder tree in one module, because the tree embeds the list; `ui`
is what the main goroutine owns. The delayed goroutine of `Open`, the
answers and the commands interleave.

### Tabs, Keys, TextInput, Dialogs, Wizard

The rest of the interface. `Tabs` has the struct without its lock, with the focus
of tabs and command lines. `Keys` has the overlay of bindings and the way of a key
through `Event`, with simulated keys one stroke at a time. `TextInput` has the cursor
arithmetic and the debounced completion. `Dialogs` has everybody who opens or
closes the one dialog. `Wizard` has the form with its URLs and look-ups.

### Instances

Several processes: each step of start-up, of the socket, of the goroutine that
serves connections and of the end of a process is an action.

### Patches

`lib/pama`. The hash of a commit is the sequence of changes from the root, so
that a rebase gives new hashes; `meant` says which patch each change was
applied for. A project's base is what was typed (`HEAD`, `ORIGIN` or a hash), and
`RevParse` is what git makes of it now. `git am`, the editor, the timer and the goroutine of the
automatic switch, which locks the store, interleave with commands and with
foreign changes of the repository.

### Backends, BackendsProofs

`Backends` puts AccountReconnect, Mbox and Maildir side by side, in every interleaving, and
names what they promise (`MailKept`, `CountsFresh`), so that the theorems and the run
speak of the same definitions.

### Interface, InterfaceProofs

`Interface` does the same for Tabs, Viewer, Selection, ComposeSend and Instances, each
with its own state: `TabsRight`, `ViewersRight`, `SelectionRight`, `SendingRight` and
`InstancesRight` are what they promise, with the assumptions on the constants that the code
justifies: at least one tab to begin with, room for one tab in the history, finitely many
messages. Two are about the model's names: "draft" stands for the append of `:postpone`, so
that no folder has that name, and the numbers of processes are positive (0 is none).

### MCBackends, MCInterface

These components share no state with each other worth checking together, and each is small. The two modules put them side by
side: the variable `part`, chosen at the start, says which one runs; the others
rest (their variables have the value `NoState`). A property of the run is the
conjunction of the parts' properties, each under `part = "..."`. One run thus does for
all what a run for each would.

## 3. Runs

| run | properties | instance | what it shows |
|---|---|---|---|
| `ui_redraw` | `NeverBlocks`, `NoLostRedraw`, `EventuallyShown` | one goroutine beside the main one and the timers, two changes or status messages | no request blocks, the terminal ends with every change but late colours. Three requesters race with each other and with `Render`, and a second change falls in each gap of a frame. |
| `imap_session` | `OneAnswer`, `UidsNameDirectory`, `RightUnlessCancelled`, `LastOpenWins`, `Answered` | two mailboxes, three openings, one command of five kinds, one fault | every action is answered once; commands run in their mailbox unless an opening was cancelled or the connection is new; the last opening wins. Three openings give a cancelled one before and after the live one. |
| `imap_session_drift` | `RightMailbox` (violated) | the same, a delete and no fault | see section 6 |
| `imap_idle` | `Watched`, `IdleExclusive`, `ClosedOnce`, `WorkerResponds` | three connections, one user action, two faults | two reconnects in a row, with goroutines of both earlier connections still alive |
| `imap_idle_healthy` | `KeepsHealthy` (violated) | two connections, one command, no fault | see section 6 |
| `imap_expunge` | `SeqMapAgrees`, `ShowsRight`, `DropsRight`, `Completes` | three messages with a gap in their UIDs, pairs of policy and server, one each of command, refresh, mail, foreign expunge, fault; a channel of two | removal of any subset under every order; with a channel of two a command of three expunges fills it |
| `imap_expunge_foreign` | `ShowsNoGone` (violated) | two messages | see section 6 |
| `message_store` | `HeadersRight`, `MarksReverted`, `ListRight`, `SortSelects`, `HeadersShown` | up to five messages, two rows, any two events of: arrival, move of the selection, delete, move, reopening, foreign expunge or flag, fault | the list becomes the mailbox; nothing stays pending or marked |
| `worker_bus` | `CallbacksRight`, `ChecksRight`, `Answered` | an IMAP account and a maildir account; channels of two actions and one message; three events: up to two commands, one tick, one update, one fault; one check put off | everyone waits for everyone in the circles named by `Circle` only; an answer finds its callback, and no callback stays but those of failed actions; `checkingMail` is never left set. Capacities this small fill with three events; that the code's are 32 and 2048 makes the circles rare, not impossible. |
| `backends` | see below | see below | each part keeps its promise but for the recorded causes |
| `interface` | see below | see below | the same for sixteen parts of the interface |
| `account_reconnect_long` | `WaitRight` (violated) | more retries | see section 6 |

The parts of `backends`:

| part | property | instance |
|---|---|---|
| reconnects | `WaitRight`, `KeepsTrying` | maximum delays 0, 30, 90 s, 40 retries, one loss, one command: both sides of the cap, a cap of zero, and every retry up to the last whose delay fits |
| `Mbox` | `MailKept` | three names, two contents, one folder with duplicates; three commands, on folders that exist or not |
| `Maildir` | `MailKept`, `CountsFresh` | two folders, two messages, three commands, one change by another program, a `:check-mail`, Maildir and Maildir++: a move may stop after any subset |
| `JmapSync` | `JmapRight` | two emails of one thread, two mailboxes, no cache or an old one, three events: a change between a request and its answer and one after it |
| `JmapMailboxes` | `JmapRight` | three mailboxes, two names, three trees, one restart: a chain of parents, an exchange of names |
| `JmapListen` | `JmapRight` | three connections: goroutines of two earlier ones |
| `Notmuch` | `QueriesRight` | two messages, one of them with a file in each folder, two strategies, two commands and one foreign change |
| `Searches` | `QueriesRight` | five messages that differ in every criterion, five backends, nineteen command lines, two commands: every pair of filters, a search in a filtered list, `:clear` |
| `DateRanges` | `QueriesRight` | 84 days around the end of February and of the year, in leap years and after them; all words and pairs of them, relative terms, open ends |

The parts of `interface`:

| part | property | instance |
|---|---|---|
| `ComposeFields` | `ComposerRight` | two accounts, one of them with a key; a new mail, a reply to all, headers in the form or in the file; six commands (signing, encrypting and attaching the key count twice): type, leave the field, close the file, come back to it and send |
| `ComposeSend` | `SendingRight` | new mail, reply and recalled draft; two folders for copies; two failures |
| `Replies` | `ComposerRight` | three messages (to oneself, from oneself, with Reply-To), five sets of options, two parts, two commands, one fault |
| `Tabs` | `TabsRight` | four tabs, four commands of two kinds of tab |
| `Viewer` | `ViewersRight` | three messages, one encrypted, one without header; two tabs; five commands |
| `Transfer` | `TransfersRight` | two folders with two messages each; seven plans of one or two commands with up to two faults |
| `Programs` | `TransfersRight` | two messages, two composers, two commands, one fault |
| `Selection` | `SelectionRight` | three messages, threaded; four commands or changes |
| `Threads` | `TreesRight` | three messages with contradictory references, equal IDs or equal subjects; two events; folds at any time |
| `Patches` | `PatchesRight` | three series with a conflict and two equal subjects, two of them to apply, so that one may overtake the other; work trees at HEAD, at origin and at a hash; two commands, one foreign change |
| `Folders` | `TreesRight` | a folder and one three levels deep, one made later; list and tree; two commands, one fault |
| `Keys` | `InputRight` | three sections with bindings for account and folder, prefixes and recursive bindings; four keys |
| `TextInput` | `InputRight` | words with separators, a width of two; three keys with all interleavings of completions |
| `Wizard` | `InputRight` | two protocols on each side, two edits, one failure |
| `Dialogs` | `InputRight` | four openings or answers, one failure |
| `Instances` | `InstancesRight` | three processes (start, mailto, quit) in every order, one fault |

Bounds. All counters of environment events (`MaxPosts`, `MaxFaults`,
`MaxForeign`, `MaxEvents`, `MaxCommands`, ...) occur in guards of the events only, never in a
step of the program: a run explores everything the program does after these
events, to the end. The exception is `MaxDeferred` of WorkerBus: two checks for mail may put each
other off without end, which the bound cuts. Two events are what most hazards need: one that starts
something and one that overtakes it; parts whose state is built up by the user's commands (composer,
viewer, tabs, marks) have four or five. `Height = 2` with three to five messages
makes rows scroll out and in. For the reconnects the bound of 40 retries is
exact: the 41st delay does not fit.

`CHECK_DEADLOCK FALSE` stands where the program may rest: when the bounds on the
environment are used up and everything is handled, no action is left.

Histories keep statements honest: `selectedBy`, `late`, `astray`, `unseen` with `kept`,
`early` with `open`, `causes`, `untold`, `stale`, `excused` and the like. Each property is conditional on the absence of the recorded causes and
thereby states that these are *all* the causes. The mutants confirm that a
behaviour of the code outside of the list is noticed.

## 4. Fairness

* The Go scheduler runs every goroutine that can run: weak fairness for steps
  of a goroutine, of timers, of the worker and of the main loop.
* A `select` with several ready cases picks one at random: strong fairness for
  the receipt of a redraw or a suspend (`UiRedraw`) and for `Receive` and
  `Execution` (`ImapIdle`), which other cases may make unavailable time and again; in
  `MessageStore`, weak fairness of `HandleUpdate` beside that of the worker as
  a whole.
* A channel serves its senders and a lock its waiters in turn: weak fairness of
  `Others` and of the senders of WorkerBus; strong fairness, in `UiRedraw`, of those who want
  the lock of the status line (`Push`, `TimeRunsOut`, and `Expire`, `RenderDraw` and
  `SuspendResume` of the main goroutine), which a Go mutex hands over in turn.
* The server and the user owe nothing: no fairness for user actions,
  arrivals, foreign changes or faults. In `ImapIdle` a silent server stays silent; the ten
  seconds of `idler.Stop` are an action of the worker. In `ImapExpunge` a running command
  gets its answer; the connection timeout is the failing branch.
* `AccountReconnect` has no fairness; its properties are invariants.

## 5. Proofs

TLAPS proves the following for every value of the constants, from the named
assumptions on constants in the modules (`MainAssumption`,
`BoundsAssumption`, ...) and nothing else.

**UiRedrawProofs**, for any number of goroutines and changes. `NeverBlocks` is
not inductive. The invariant is
`TypeOK /\ Labels /\ RedrawToken /\ SuspendToken /\ Fresh`. `RedrawToken` counts
the carriers of a set `dirty` flag: while it is set there is
exactly one of a goroutine about to send and a value in the channel, or the main
goroutine has received and not yet swapped. So a goroutine about to send finds the
channel empty. `Fresh` says that content newer than the terminal's always has
someone responsible for it: a goroutine before its `Invalidate`, a set flag, or a
frame under way; what nobody is responsible for is in `late`. That the main goroutine's own
colours are never there follows from its place: between its `Push` and `Colour` it does not
draw, and the flag is still set. Theorems: `TypeCorrect`, `InvalidateNeverBlocks`,
`RedrawNotLost`.

**ImapSessionProofs**. `TypeCorrect`; `UidsRight` and `MailboxRight` from
`SelectionInv`, which says that `selected` and `mailbox` agree (`Agree`) but between the SELECT
of an opening and its end, after an opening that was cancelled and after a new connection,
that an opening has selected its own directory (`OpenedRight`), and that a handler past
its `ensureSelected` has `selected` equal to the directory of its action; `AnsweredOnce` from `OneAnswer`, the types and
`OldIds`, which says that every id in use is smaller than the next one.
`LastOpened` proves `LastOpenWins`. The property speaks of rest only and says nothing
of the way there, so the invariant `LastOpening` follows the opening that was asked
for last: it is under way (held by its delayed goroutine, in the queue, or being
handled), or else, of the messages on the way to the interface that change the
folder shown (`Settles`), the last one is its answer or that of a
`:disconnect`; and if there is no such message, the interface shows that folder or
none. `OpeningsRight` bounds the contexts of older openings. Without a
connection only the case of the `:disconnect` is possible.

**ImapIdleProofs**. The invariant is `TypeOK /\ ObserverInv /\ Watched`.
`ObserverInv` relates `observer.running`, the channel `done` and its goroutines.
Worker, idler and observer hold the same client at every step, which is
part of `TypeOK` there. Theorems: `TypeCorrect`, `NoDoubleClose`,
`AlwaysWatched`. `IdleExcludes` proves `IdleExclusive` from `IdleRight`: on the first
connection the timer, the send on `executeIdle` and the goroutine of `Execute`
follow one another and bear the number of the last `Start` (`OneIdler`), and all of
them are over when `Stop` has returned. The invariant needs that in `select` the
current `stop` channel is open, or a second `Stop` would find no one to wait for.

**BackendsProofs**. `NeverGivesUp`: `KeepsTrying` is inductive together
with the types of the queues. A report of a loss becomes a timer, a timer a
`Reconnect` in the queue, and a `Reconnect` a connection or another report.

`MboxRefinesMailStore` and `MaildirRefinesMailStore` prove, action by action, that each
step of the two workers is one of MailStore under its refinement mapping or leaves it as
it is; `BackendsKeepMail` joins them to `MailKept`. The mbox worker needs to know that
no two folders share a container (`BoxIInv`; CreateDirectory numbers them anew) and that the
folder opened last has a container (`OpenedIInv`). It breaks the contract in three ways, which
section 6 explains; the theorem allows these steps (`BreaksContract`), each with
exactly the loss that the code causes, and no other. The Maildir
worker needs `OnePlace`: a message is in one folder only, and in new or in cur.

`BackendsCountsFresh` needs `CountsDue`: while the counts posted last differ from the
files of the selected folder, an opening, an event of the watcher, its timer or its firing is
under way, or `outdated` records that `:check-mail` posted counts that had changed since it took
them, or `missed` that mail arrived between the sync and the watch of an opening. Each disjunct hands over to the next one. TLC checked the invariant
with four commands and two foreign changes (two million states) before it was proved.

**InterfaceProofs**, for any messages, lists, tabs, folders, processes and bounds.

* `InterfaceSelection`: the marks of the listed messages are only a part of what moves
  together. `MarksKept` says that while `marks_astray` is empty the marker is exactly
  what the user means: marks, remembered marks (one map with the marks after
  `:remark`, as in the code), and the message and the marks with which the
  visual mode began. Each command, selection, deletion and rebuilt list changes the
  marker as it changes the meaning, or enters a cause in `marks_astray`. `ListsShown`
  follows results and list through filters and deletions.
* `InterfaceTabs`: `TabsIInv` says that every tab is listed once, that the history leads
  to listed tabs and has no more than `MaxHistory`, that pinned tabs come first (while
  `shuffled` is empty), who has
  the focus, and that each command line remembers the one below it (`LinesStacked`).
  `OneFocus` speaks of the time between commands only; while one runs from the command line
  the selected tab may or may not have the focus, and `FocusKept` says what remains true
  then: nothing but that tab has it. The operations of `lib/ui/tab.go` have a lemma each
  (`SelectRight`, `RemovedRight`, `PinRight`, ...). That `:unpin-tab` undoes `:pin-tab` is
  shown for every list with its pinned tabs in front (`PinsReturn`): the place before is
  counted from the end of the pinned tabs, which is the same before and after.
* `InterfaceViewers`: `ViewersIInv` joins what viewers and requests owe each other.
  `BodiesKept`: a body that is waited for has one request, unless it was cancelled
  (`stuck`), and the callback stored for the message is that request's; so, cancelled ones apart,
  no callback is for a body nobody will bring. `ViewersKept`: a viewer is in one tab at most, and
  the selected tab has one. `RequestsRight`: a request names viewers that exist, and
  shows the message it asks for. `NavKept` is what makes `ViewerFollows`, which speaks
  only of rest, inductive: the tab in which the selection was last moved shows the selected
  message and nothing on its way will replace that (`Settled`), or the order for
  that message is on its way (`Awaited`), or the tab is closed, or the order came when its
  viewer had been replaced (`orphans`, the recorded cause). Orders
  given before the last move may still arrive: if one does so first, it replaces the viewer and
  the awaited order is late (`orphans`); if one does so afterwards, its viewer is no longer in
  any tab and it opens nothing there. `NavShows` proves it, for any number of orders.
* `InterfaceSending`: that `:quit` is refused needs the count itself (`NoQuitCounts`):
  `noquit` is one for another composer, one for the tab, two for a message on its way (its
  composer's and that of `:send`) and one for a postponement whose tab is closed. At most
  one of tab, sending and postponing exists (`Composers <= 1`), until a command is given
  while a postponement creates its folder or waits for its answer (`overlap`, the recorded
  cause). `MessageKept` holds in any case: it says of each stage of the two goroutines
  what the server has by then, and of the two flags of the composer what they mean.
* `InterfaceInstances`: `ConnectionsRight` says that a connection is with a process that
  listens, in its queue once or being served, and `WaitersRight` that a process that waits has
  one; so nobody waits for a process that has ended. `RunsRight` says where each command
  has been: nowhere while it is queued, in the process that serves it once it has been executed,
  and, for a process that went on by itself, nowhere, there, in itself, or there and then in
  itself; the process it asked, if any, has ended. `SocketRight`
  (nobody listens while the file is about to be removed) holds until two processes
  start at once.

The lemmas on `Nth`, `Picked`, `Without` and the like at its start are independent of the model.

**WorkerBusProofs**, for any number of accounts and any capacities.
`CallbacksAlways` and `ChecksAlways` rest on one invariant, which follows an action
from place to place (`Held`): the goroutine that posts it, the queue, the answers a
worker or a goroutine of `handleCheckMail` has still to send, `WorkerMessages`, the
deletion of its callback. `OnePlace` says that an id belongs to one action in one
place, but for answers of which the first has been sent and the rest not;
`TableRight` that an action with a callback has it in the table wherever it is;
`TableUsed` that nothing else is there. They need to know which answer is the
last one: `Answers` and `MessagesRight` say that no answer follows a final one, and
that a preliminary one is followed by another. For the checks, `CheckAlone` says
that there is one id with a check that has a callback, `CheckingOwned` that while
`checkingMail` is set a check or the step that resets it exists.

**MessageStoreProofs**, for any mailbox, height and number of events. One
invariant gives four theorems.

* `HeadersAlways`: `HeadersRight` needs `QueuesRight`, because the rows of a list
  come from messages: every `DirectoryContents` on the way has no UID twice, and a
  `MessageInfo` is followed by another answer to the same request, so that the
  request still stands for the headers not yet drawn.
* `ListAlways`: that the list is right at rest says nothing of the way there. The
  invariant `ListCovered` says that whatever is wrong with the list is on its way to
  being put right, at each place in the queue: a row (of the screen, or of the k-th
  message) whose message is gone is covered by a later `MessagesDeleted`, a later list or
  an update the worker has still to handle; a message without a row by a later
  list, or by a check for mail that will find `UidNext` changed. Since the check
  compares with `status`, a message without a row must not be older than `status`
  unless a list is to come. Flags update the store, and would bring a
  message back that is gone; `FlagsCovered` says that news of its end follows.
* `MarksAlways`: `MarkRight` says that a message marked as deleted is gone from the
  mailbox or named by a command not yet answered; a row of a message that is gone is
  covered by `ListCovered`.
* `SortAlways`, an action property, from the types and `UidsKnown`.

`OldRight` (nothing names a message that has not arrived yet), `GoneRight` (what is
told to be gone is gone) and `OpensRight` (of several openings only the last can bring a
live context) are what these need of the queues. The lemmas about `Nth`, `Ascending`,
`Picked`, `Index` and subsequences at the start of the module are independent of it.
All conjuncts were checked by TLC on the instance of the run before they were proved.

**ImapExpungeProofs**, for any mailboxes, any mail in them, any pair of policy and
server, any capacity of `updates` and any number of events; the run has one mailbox, the
proof any number. An update tells a number that was right when the server sent it, and
the mailbox may have changed several times before the worker reads it. The invariant
therefore speaks of the whole way (`Way(c)`): there are boxes c[1], c[2], ... such
that c[i] is the mailbox before the i-th update that waits and the last one is the
mailbox as it is.

* `Items`: the messages the expunger holds are in c[1]; each expunge takes from one box
  to the next the held message that the server's order allows (`NextOf`), under its number
  in that box, or in `base` if the server keeps its numbers; new mail comes after them and
  nothing comes back.
* `Boxes`: expunger and sequence map together are c[1] but for its newest
  messages (`Prefix`), and an expunge that takes none of the held messages takes one
  under its rank. This part needs that the mailbox has been listed.
* `ExpungerRight`: the keys of the expunger are the numbers of its messages in c[1] (or
  `base`), and its policy is that of the server or will be chosen so at the first number
  (`Undecided`). `Fits` is needed here, and shows why `auto` is right for both
  other orders: from low to high the first number is the least, from high to low it
  is not, unless it is the only one.
* `CommandRight`: a command expunges exactly the messages of its expunger.
* `ShownRight`: the list shows only messages of c[1], and those a delete has yet to
  announce.

That a handled update makes c[2] the first box is the lemma `UpdateHandled`, with the
cases of a held message (`HeldHandled`, which rests on `PoppedRight` for
`PopSequenceNumber`), another one (`StrangerHandled`) and a fetch; a sent one makes the way
longer (`WayExtended`). At rest the way is one box, and the expunger is
empty: `SeqMapAlways` and `ShowsAlways` follow. `DropsAlways` is an action property;
its case of an update is part of `UpdateHandled`. The lemmas on ranks at the start
(`SeqNumOrder`, `SeqNumWithout`, `PrefixNumbers`, ...) are independent of the model.
The invariant was checked by TLC with one mailbox of three messages (any policy, any
server) and with two mailboxes before it was proved. TLC found that a command in a
mailbox whose list the worker has not seen leaves wrong numbers in the expunger
(`blind`), which no later list repairs.

Only model-checked: all liveness (`EventuallyShown`, `Answered`,
`WorkerResponds`, `Completes`, `HeadersShown`), because TLAPS cannot reason about
fairness and `ENABLED`; and all modules of `MCBackends` and `MCInterface` but AccountReconnect,
Mbox, Maildir, Selection, Tabs, Viewer, ComposeSend and Instances. Threads uses
`RECURSIVE` operators, which TLAPS does not handle, and most of Searches, DateRanges,
Keys and TextInput is the value of a function over finite data, for which a proof would need
induction over that data. The delays of AccountReconnect (`WaitRight`) are
computed, not proved.

## 6. Where code and documentation disagree

Four runs state what a comment promises and are violated. `PROJECT.json` quotes
the comments.

* `RightMailbox`: after an opening that is cancelled behind its SELECT a command
  runs in another mailbox than its own. `ensureSelected` compares with `selected`,
  which the cancelled handler has not updated. After a new connection (`:disconnect` and
  `:connect`, or a reconnect) `selected` keeps its value too, while the server has INBOX
  selected. `RightUnlessCancelled` says that nothing else does this.
* `KeepsHealthy`: when the debounce timer fires just before an action is received,
  `idler.Stop` waits ten seconds for an idle goroutine that was never started, and
  the worker gives up a connection that works.
* `ShowsNoGone`: after the first delete of a session, expunges by other clients
  are taken for the user's own and never reach the list.
* `WaitRight` beyond 40 attempts: the delay overflows and becomes
  negative, so the account reconnects without pause.

The other modules have such behaviours in them, as what the code does, and their
properties name them as the only exceptions. The most important:

*Status line.* `PushError` and its like set the colour of a message after `Invalidate`. When
another goroutine than the main one pushes it (`commands/msg/move.go:138`), the main loop may have
drawn the message already: it stays in the default colour until the next frame or its end
(`late`).

*Workers and store.* A `MessagesDeleted` longer than the list is ignored
(`kept`); mail that arrives while a delete drains the updates, within 20 ms of
other mail, or while actions wait on a server without LIST-STATUS, is not listed
until the next check (`unseen`); a refused move leaves its marks; a failed delete
of marked messages dereferences the selected message, which may be nil
(`crashed`). In WorkerBus: the circles; the first `Done` of a check that was put
off resets `checkingMail` although the rest is still to be checked, and so does
the `Error` that a check of maildir sends before its `Done` (`early`); the
callback of an action that failed or was refused is never deleted (`open`).

*mbox.* Listing a folder without a filter dereferences nil criteria
(`worker/lib/search.go:188`) and panics (`Panics` in Searches; `SearchesRight` allows
it for mbox alone). Creating a mailbox over an existing one empties it, and a move
within a folder loses the messages (`CreatedAgain`, `MovedOntoItself`). A delete that names a
folder which does not exist deletes the messages with the same UIDs from the folder that is open
(`worker/mbox/worker.go:48-55`, `Strayed`); a copy or move of that kind is refused.

*Maildir.* Mail delivered between the sync of an opening and its watch stays in `new`, uncounted,
until something else happens in the folder (`missed`). A maildir++ worker has no
`fsEvents` (`worker/maildir/worker.go:74-87`), so the changes of other programs reach nobody
until a command or `:check-mail` looks (`Unheard`).

*JMAP.* `PutEmailState` stores states that jump over changes, answers are
stored over later ones (`skipped`, `overtaken`), messages added side by side end
in wrong places (`jumbled`), and a push whose handling fails is lost. After a
restart the directories come from a list that pushes do not maintain
(`confusion`), and what changed while aerc was not running, or while nobody listened, is not
asked for: directories and lists stay those of the cache until the next push
(`directories.go:26-45`; `unheard`, `away`). Pushes that arrive before the directories are listed
find no mailbox (`early`). A `Connect` soon after a `Disconnect` may leave two listeners or none
(`hasty`); so may a `Reconnect` (`worker.go:109-114`), whose new goroutine creates
`w.stop` while that of the old connection has yet to clear it (`crossed`), and a
channel may be closed twice.

*notmuch.* With `act-dir-delete-rest` and no file in the directory all files are
deleted (`unplaced`); moving a file onto itself makes the database forget it
(`onItself`); flags that others remove stay in the list, and changes while another directory
is open are not told (`stale`).

*Searches* (`Differs`). A later filter replaces dates and header values of
an earlier one; `-b` and `-a` of one filter hold for the terms of all; several
`-v` filters exclude only what meets all of them in Maildir and IMAP; in Maildir a term with a
capital is case-sensitive, several `-X` or `-u` exclude only messages with all the flags, and an empty
`-H` value matches everything; IMAP and JMAP do not know
`forwarded`; JMAP refuses `-v` and looks for From, To and Cc alternatively;
notmuch takes `-u` for `-r`, ignores headers and inverts each clause of `-v` by itself.

*Date ranges.* In a leap year after February "last year" begins one day early, on
31 December two years before; in the year after a leap year it begins on 2 January. A range of
week days or months is empty on the days between its ends. `aerc-search(1)` says of `-d
<since[..until]>` that without `until` the search goes from since to the present; a term alone
means that one day here (`OneDay`). A range excludes its end (`aerc-search(1)`,
`lib/parse/daterange.go:16-17`), but the search of Maildir and mbox (`date.After`,
`worker/lib/search.go:146-150`) and that of notmuch (`date:..@end`) find a message of the very
instant at which the last day begins (`FindsEnd`). "1 month ago" on the 31st may be a
day of this month. An abbreviation of several words means any of them, by the order of a map.

*Viewer, transfers, programs.* A body that is already being fetched drops the
second caller's callback (`stuck`, `starved`). A `FullMessage` goes to the folder
selected now, by its UID alone, so that a move may carry the wrong message
(`astray`). An append answered after 30 seconds, and two moves at once, leave duplicates
(`excused`). The file picker attaches to the composer that is in front (`switched`);
`:save` checks for a file before it fetches (`clobbered`).

*Composer and replies.* Only the editors of the configured layout store what was typed when they
lose the focus (`app/compose.go:293`). Text typed in one that `:cc`, `:header`, a reply's Cc or
the file has added is in the editor alone, so that `:edit` with headers writes a file without
it, and the text is lost when that is read back (`untold`); a header whose editor
`:switch-account` drops while the file is edited can no longer be deleted in the file. Postponing beside sending or aborting (`overlap`) closes
or counts twice; a copy that waits on a full channel stops the main goroutine;
`:send` with `copy-to-replied` and no `copy-to` waits for ever for copies if the message
answers none, and so does one whose copies no worker supports; `:quit` stays refused;
parts that arrive after the message was sent are lost (`early`); `:accept`
removes the own address from the selected message's list in place (`shifted`); a bounce whose body
never comes keeps aerc from quitting (`silent`).

*Interface.* Replacing a tab in the background brings it to the front (`stray`,
`shuffled`). F1, the end of a hidden shell and a newer question take a dialog away
(`lost`). A second `:quit` closes a closed channel. Processes that start together
remove each other's socket (`overlap`). A folder that is removed while it is opened
leaves the tree's index outside of its list (`cut`). A late completion replaces
what was typed (`late`); pending keys survive a change of tab (`moved`). Wizard:
a change of one protocol leaves the other URL behind. Threads: a folded
message whose parent leaves stays invisible (`orphaned`). Patches: commands that
overlap lose each other's changes (`overtaken`); a drop that fails half way (`half`). The base
of a work tree is the text that was typed (`lib/pama/worktree.go:44`) and is resolved anew by
every use: with HEAD or a branch that moved, `:patch rebase` without argument sees no
commits above the base and drops all tracking (`moved`), and with HEAD `:patch drop` slices an
empty history (`lib/pama/drop.go:57-61`) and panics. While the goroutine of the automatic switch
holds the store, `:patch apply` and `:patch drop` cannot save what git has done (`unsaved`).

## 7. What is not modelled, and why

* The network, `go-imap`, `go-jmap`, libnotmuch, git, the shell and the terminal
  emulator are external. Their contract is stated where it is used:
  commands are answered or fail, SELECT that fails leaves no mailbox
  selected, updates arrive in order, and so on.
* Message contents, headers and bodies are abstract but where a property
  reads them (addresses in Replies, references in Threads, all criteria in Searches).
* Layout, colours, templates, help and parsing of configuration and options are data without
  control; the groups of bindings that the configuration defines are in Keys.
* The header cache and the Gmail extensions of the IMAP worker, and the
  middleware that renames folders, do not alter the control modelled here.
* Cryptography, autoconfig, hooks and calendars run external programs or parse one
  text; their success or failure is an outcome in the modules that call them.
* In the modules of one worker the queues between interface and worker do not
  fill up; WorkerBus is about that. The parts of `interface` and `backends` are
  checked one at a time: what two of them do to each other is in a module only
  where they share state (`Tabs` and `Viewer` have each their own tabs).
* Data races that the Go memory model leaves undefined (the criteria of Searches,
  `w.stop`, the timer of the thread builder) are modelled as reads and writes of
  whole values in any order.

## 8. Plan

Done: the eight runs about workers, store and bus; the two compositions with
twenty-five modules; the refinement of MailStore by Mbox and Maildir; proofs of all
safety properties of UiRedraw, ImapSession, ImapIdle, ImapExpunge, MessageStore, WorkerBus,
Selection, Tabs, Viewer, ComposeSend and Instances that the passing runs check, of that refinement and of the counts of
Maildir.

Next, the most important first:

1. Proofs: `ListensOnce` of JmapListen, whose state is small.
2. The IMAP worker's header cache together with `UIDVALIDITY`.
