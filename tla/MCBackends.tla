------------------------------ MODULE MCBackends ------------------------------
(***************************************************************************)
(* Backends, the JMAP and notmuch workers, searches and date ranges for    *)
(* TLC: each behaviour is one of a single component, chosen by part, while *)
(* the others rest.                                                        *)
(***************************************************************************)
EXTENDS Backends, TLC

VARIABLES
  part,
  (* JmapSync *)
  hist, pushes, emails, state, contents, threads, tstate, listener, work, listed, opened,
  sync_commands, latest, astray,
  (* JmapMailboxes *)
  trees, mail_pushes, c_mailbox, c_list, c_state, mboxes, mbox2dir, dir2mbox, directories,
  phase, unheard, restarts, confusion,
  (* JmapListen *)
  stop, closed, monitor, stopper, awaits, breaks, connected, hasty, again, crossed, panicked,
    connections,
  listen_commands,
  (* Notmuch *)
  disk, index, tags, changed, event, query, shown, cached, deleted, unplaced, onItself,
  nm_foreign, stale, nm_commands, nm_nm_foreign,
  (* Searches *)
  backend, unreadable, filter, object, requests, searching_shown, results, given, last,
  failed, crashed, se_commands,
  (* DateRanges *)
  today, asked, answer

Opt(o, a) == [opt |-> o, arg |-> a]
Flag(o) == Opt(o, "")
Filters ==
  {<<Flag("-r")>>, <<Flag("-u")>>, <<Opt("-X", "seen"), Opt("-X", "flagged")>>, <<Opt("-f", "a")>>,
   <<Opt("-f", "b"), Flag("-r")>>, <<Opt("-t", "b")>>, <<Opt("-x", "forwarded")>>,
   <<Opt("-H", [name |-> "List", value |-> "l"])>>, <<Opt("-H", [name |-> "List", value |-> ""])>>,
   <<Opt("-d", [start |-> 4, end |-> 8])>>, <<Opt("-d", [start |-> 6, end |-> 0])>>,
   <<Opt("terms", <<"x">>)>>, <<Opt("terms", <<"X", "y">>)>>,
   <<Flag("-b"), Opt("terms", <<"x">>)>>, <<Flag("-a"), Opt("terms", <<"y", "b">>)>>,
   <<Flag("-v"), Flag("-r")>>, <<Flag("-v"), Opt("-f", "a"), Flag("-r")>>,
   <<Flag("-v"), Flag("-b"), Opt("terms", <<"y">>)>>,
   <<Flag("-v"), Opt("-d", [start |-> 6, end |-> 8])>>}

(* Words of the dates; the days are in February and March 2024, at the end *)
(* of 2024 and in March 2025.                                              *)
Words ==
  [w \in {"today", "yesterday", "week", "month", "year", "monday", "tuesday", "friday", "sunday",
          "january", "february", "march", "december"} |-> {w}]
  @@ ("mon" :> {"monday", "month"}) @@ ("ma" :> {"march", "may"})
  @@ ("day" :> {"today", "yesterday", "sunday"}) @@ ("x" :> {})
Word(p, w) == [prefix |-> p, word |-> w]
Ago(n, u) == [relative |-> <<[n |-> n, unit |-> u]>>]
Typed ==
  LET Upto == [dots |-> TRUE] IN
  {<<Word(p, w)>> : p \in {"", "this", "last"}, w \in DOMAIN Words}
  \cup {<<Ago(1, "m")>>, <<Ago(1, "y")>>, <<Ago(1, "x")>>, <<Upto>>, <<Upto, Ago(1, "w")>>,
        <<[relative |-> <<[n |-> 2, unit |-> "d"], [n |-> 13, unit |-> "m"]>>]>>,
        <<[date |-> 738886], Upto, [date |-> 738900]>>, <<Word("last", "month"), Upto>>}
  \cup {<<Word("", a), Upto, Word("", b)>> : a \in {"monday", "february"}, b \in {"friday", "march"}}

(* Mail in files. *)
MCFiles == [a |-> <<"m1", "m2", "m1">>, b |-> <<>>]
MCInitialNew == [a |-> {"k1"}, b |-> {}]

Sync == INSTANCE JmapSync
  WITH Order <- <<"e1", "e2">>,
       Boxes <- {"a", "b"},
       First <- [e \in {"e1", "e2"} |->
                   [boxes |-> IF e = "e1" THEN {} ELSE {"a"}, seen |-> FALSE]],
       ThreadOf <- [e \in {"e1", "e2"} |-> "t"],
       MaxEvents <- 3,
       commands <- sync_commands

Tree == INSTANCE JmapMailboxes
  WITH Ids <- 1..3,
       MailboxNames <- {"x", "y"},
       MaxTrees <- 3,
       MaxRestarts <- 1,
       FirstTree <- [i \in 1..3 |-> [name |-> IF i = 1 THEN "x" ELSE "", parent |-> 0]]

Listen == INSTANCE JmapListen
  WITH MaxConnections <- 3

Nm == INSTANCE Notmuch
  WITH Folders <- {"in", "ar"},
       Views <- {"unread"},
       Msgs <- {"m", "n"},
       FirstFiles <- [m |-> {<<"in", 1>>, <<"ar", 2>>}, n |-> {<<"in", 3>>}],
       Tags <- {"unread"},
       Strategies <- {"act-dir-delete-rest", "act-one"},
       MaxCommands <- 2,
       MaxForeign <- 1,
       foreign <- nm_foreign,
       nm_foreign <- nm_nm_foreign

Searching == INSTANCE Searches
  WITH Mail <-
         LET M(s, b, f, t, l, fl, d) ==
               [subject |-> s, body |-> b, flags |-> fl, date |-> d,
                headers |-> [From |-> f, To |-> t, Cc |-> "", List |-> l]]
         IN <<M({"x"}, {"y"}, "a", "b", "l", {}, 4),
              M({"x", "y"}, {"x"}, "a", "a", "", {"seen"}, 5),
              M({"X", "y"}, {"x", "y"}, "b", "a", "k", {"seen", "flagged"}, 6),
              M({}, {"y"}, "b", "b", "l", {"flagged", "forwarded"}, 8),
              M({"x"}, {}, "a", "a", "", {"seen"}, 9)>>,
       CommandLines <- Filters,
       MaxCommands <- 2,
       shown <- searching_shown

Dates == INSTANCE DateRanges
  WITH Todays <- (738942..738977) \cup (739246..739259) \cup (739309..739342),
       Ranges <- Typed,
       Entries <- Words

syncVars ==
  <<hist, pushes, emails, state, contents, threads, tstate, listener, work, listed, opened,
    sync_commands, latest, astray>>
treeVars ==
  <<trees, mail_pushes, c_mailbox, c_list, c_state, mboxes, mbox2dir, dir2mbox, directories,
    phase, unheard, restarts, confusion>>
listenVars ==
  <<stop, closed, monitor, stopper, awaits, breaks, connected, hasty, again, crossed, panicked,
    connections,
    listen_commands>>
nmVars ==
  <<disk, index, tags, changed, event, query, shown, cached, deleted, unplaced, onItself,
    nm_foreign, stale, nm_commands, nm_nm_foreign>>
searchingVars ==
  <<backend, unreadable, filter, object, requests, searching_shown, results, given, last,
    failed, crashed, se_commands>>
datesVars ==
  <<today, asked, answer>>

(* The variables of a component that takes no part have no value of interest. *)
NoState == 0

MCInit ==
  /\ part \in {"reconnect", "box", "dir", "sync", "tree", "listen", "nm", "searching", "dates"}
  /\ BackendsInit /\ (part = "reconnect" \/ maxWait = 0) /\ (part = "dir" \/ ~maildirpp)
  /\ IF part = "sync" THEN Sync!Init
     ELSE /\ hist = NoState /\ pushes = NoState /\ emails = NoState /\ state = NoState
          /\ contents = NoState /\ threads = NoState /\ tstate = NoState
          /\ listener = NoState /\ work = NoState /\ listed = NoState /\ opened = NoState
          /\ sync_commands = NoState /\ latest = NoState /\ astray = NoState
  /\ IF part = "tree" THEN Tree!Init
     ELSE /\ trees = NoState /\ mail_pushes = NoState /\ c_mailbox = NoState
          /\ c_list = NoState /\ c_state = NoState /\ mboxes = NoState
          /\ mbox2dir = NoState /\ dir2mbox = NoState /\ directories = NoState
          /\ phase = NoState /\ unheard = NoState /\ restarts = NoState /\ confusion = NoState
  /\ IF part = "listen" THEN Listen!Init
     ELSE /\ stop = NoState /\ closed = NoState /\ monitor = NoState /\ stopper = NoState
          /\ awaits = NoState /\ breaks = NoState /\ connected = NoState /\ hasty = NoState
          /\ again = NoState /\ crossed = NoState
          /\ panicked = NoState /\ connections = NoState /\ listen_commands = NoState
  /\ IF part = "nm" THEN Nm!Init
     ELSE /\ disk = NoState /\ index = NoState /\ tags = NoState /\ changed = NoState
          /\ event = NoState /\ query = NoState /\ shown = NoState /\ cached = NoState
          /\ deleted = NoState /\ unplaced = NoState /\ onItself = NoState
          /\ nm_foreign = NoState /\ stale = NoState /\ nm_commands = NoState
          /\ nm_nm_foreign = NoState
  /\ IF part = "searching" THEN Searching!Init
     ELSE /\ backend = NoState /\ unreadable = NoState /\ filter = NoState
          /\ object = NoState /\ requests = NoState /\ searching_shown = NoState
          /\ results = NoState /\ given = NoState /\ last = NoState /\ failed = NoState
          /\ crashed = NoState /\ se_commands = NoState
  /\ IF part = "dates" THEN Dates!Init
     ELSE /\ today = NoState /\ asked = NoState /\ answer = NoState

Rest(p) ==
  /\ UNCHANGED part
  /\ IF p = "reconnect" THEN TRUE ELSE UNCHANGED vars
  /\ IF p = "box" THEN TRUE ELSE UNCHANGED boxVars
  /\ IF p = "dir" THEN TRUE ELSE UNCHANGED dirVars
  /\ IF p = "sync" THEN TRUE ELSE UNCHANGED syncVars
  /\ IF p = "tree" THEN TRUE ELSE UNCHANGED treeVars
  /\ IF p = "listen" THEN TRUE ELSE UNCHANGED listenVars
  /\ IF p = "nm" THEN TRUE ELSE UNCHANGED nmVars
  /\ IF p = "searching" THEN TRUE ELSE UNCHANGED searchingVars
  /\ IF p = "dates" THEN TRUE ELSE UNCHANGED datesVars

MCNext ==
  \/ part = "reconnect" /\ Next /\ Rest("reconnect")
  \/ part = "box" /\ Box!Next /\ Rest("box")
  \/ part = "dir" /\ Dir!Next /\ Rest("dir")
  \/ part = "sync" /\ Sync!Next /\ Rest("sync")
  \/ part = "tree" /\ Tree!Next /\ Rest("tree")
  \/ part = "listen" /\ Listen!Next /\ Rest("listen")
  \/ part = "nm" /\ Nm!Next /\ Rest("nm")
  \/ part = "searching" /\ Searching!Next /\ Rest("searching")
  \/ part = "dates" /\ Dates!Next /\ Rest("dates")

mcVars ==
  <<part, vars, boxVars, dirVars, syncVars, treeVars, listenVars, nmVars, searchingVars, datesVars>>

MCSpec == MCInit /\ [][MCNext]_mcVars

(* What the JMAP worker caches and shows is the server's mail, directories keep the names and *)
(* places of their mailboxes, and one goroutine listens (worker/jmap).                        *)
JmapRight ==
  /\ part = "sync" => (Sync!CacheHonest /\ Sync!ContentsHonest /\ Sync!ShownRight)
  /\ part = "tree" => Tree!DirectoriesRight
  /\ part = "listen" => Listen!ListensOnce

(* Commands reach the files of their messages, results match what was asked for, and a range *)
(* holds the days it names (worker/notmuch, worker/lib/search.go, lib/parse/daterange.go).   *)
QueriesRight ==
  /\ part = "nm" => Nm!NotmuchRight
  /\ part = "searching" => Searching!SearchesRight
  /\ part = "dates" => Dates!DatesRight
=============================================================================
