------------------------------- MODULE Folders ------------------------------
(***************************************************************************)
(* The list and the tree of directories (app/dirlist.go, app/dirtree.go),  *)
(* the answers of the worker to them (app/account.go), and the commands    *)
(* that move among, make, remove, fold and reload directories              *)
(* (commands/account, commands/reload.go).                                 *)
(*                                                                         *)
(* A directory is the sequence of its path elements, <<>> none.  ui holds  *)
(* what the main goroutine owns, and is passed from call to call.          *)
(***************************************************************************)
EXTENDS Integers, SequencesExt, FiniteSetsExt

CONSTANTS
  Alphabet,      \* the elements, in alphabetical order
  OnServer,      \* directories there at first
  Makes,         \* directories :mkdir may make
  Excluded,      \* folders-exclude
  FoldersSort, EnableFoldersSort, Default,
  Unseen,        \* directories with unread messages
  DirListCollapse, StartAsTree,
  MaxCommands, MaxFaults

VARIABLES
  server,        \* the directories there
  ui,            \* [dirs, order, has, selecting, selected, previous: the DirectoryList;
                 \*  isTree, list, idx, virtual: the DirectoryTree;
                 \*  shown: the store of the message list; waiting: the goroutine of the last
                 \*  Open before its delay; queue: actions of the worker; crashed]
  answers,       \* messages on their way to the main goroutine
  astray,        \* why list and messages may differ: see FoldersRight
  commandsLeft, faultsLeft

folderVars == <<server, ui, answers, astray, commandsLeft, faultsLeft>>

None == <<>>
NoOpen == [dir |-> None]
Rank(e) == SelectInSeq(Alphabet, LAMBDA x : x = e)
Less(p, q) ==  \* by name
  \/ IsStrictPrefix(p, q)
  \/ \E i \in DOMAIN p \cap DOMAIN q :
       Rank(p[i]) < Rank(q[i]) /\ \A j \in 1..(i - 1) : p[j] = q[j]
SortedSet(S, Before(_, _)) ==
  CHOOSE s \in SetToSeqs(S) : \A i, j \in DOMAIN s : i < j => Before(s[i], s[j])
findString(s, x) == SelectInSeq(s, LAMBDA y : y = x)  \* from 1, 0: not there
InConfigOrder(p, q) ==
  LET a == findString(FoldersSort, p) b == findString(FoldersSort, q)
  IN IF a = b THEN Less(p, q) ELSE IF a > 0 /\ b > 0 THEN a < b ELSE a > 0

-----------------------------------------------------------------------------
(* lib/dirstore.go and the list *)

SetMessageStore(s, d) ==
  [s EXCEPT !.order = IF d \in s.has THEN @ ELSE Append(@, d), !.has = @ \cup {d}]
StoreRemove(s, d) == [s EXCEPT !.has = @ \ {d}]
StoreList(s) ==
  LET last(d) == Max({i \in DOMAIN s.order : s.order[i] = d})
  IN SortedSet(s.has, LAMBDA p, q : last(p) < last(q))

FilterDirs(s) == SelectSeq(StoreList(s), LAMBDA d : d \notin Excluded)
SortDirs(dirs) == IF EnableFoldersSort THEN SortedSet(ToSet(dirs), InConfigOrder) ELSE dirs
ListOpened(s, d) ==
  LET dirs == FilterDirs(s)
  IN [s EXCEPT !.previous = s.selected, !.selected = d,
               !.dirs = SortDirs(IF d \in ToSet(dirs) THEN dirs ELSE Append(dirs, d))]
ListChanged(s) == [s EXCEPT !.dirs = SortDirs(FilterDirs(s))]

NewContext(s) ==
  [s EXCEPT !.waiting = NoOpen,
            !.queue = [i \in DOMAIN @ |-> IF @[i].kind = "open" THEN [@[i] EXCEPT !.live = FALSE]
                                          ELSE @[i]]]
ListOpen(s, d, then, again) ==
  [NewContext([s EXCEPT !.selecting = d]) EXCEPT
     !.waiting = [kind |-> "open", dir |-> d, then |-> then, again |-> again, live |-> TRUE]]

-----------------------------------------------------------------------------
(* the tree *)

isVisible(list, i) ==
  \A j \in DOMAIN list : IsStrictPrefix(list[j].path, list[i].path) => ~list[j].hidden
HasKids(list, p) == \E j \in DOMAIN list : IsStrictPrefix(p, list[j].path)
Node(list, d) == SelectInSeq(list, LAMBDA n : n.path = d)
makeVisible(list, d) ==
  [j \in DOMAIN list |-> IF IsStrictPrefix(list[j].path, d) THEN [list[j] EXCEPT !.hidden = FALSE]
                         ELSE list[j]]
reindex(s, d) ==
  IF Node(s.list, d) = 0 THEN s
  ELSE [s EXCEPT !.list = makeVisible(@, d), !.idx = Node(s.list, d)]

(* A folded node is remembered by the path of its parent, and the children *)
(* of that parent are folded afterwards; roots are not remembered.         *)
hiddenDirectories(list) ==
  {Front(list[i].path) : i \in {j \in DOMAIN list :
     list[j].hidden /\ HasKids(list, list[j].path) /\ Len(list[j].path) > 1}}
TreeOf(s, paths, folded) ==
  [s EXCEPT !.list = [i \in DOMAIN paths |->
     [path |-> paths[i], dummy |-> paths[i] \notin ToSet(s.dirs),
      hidden |-> (DirListCollapse # 0 /\ Len(paths[i]) + 1 > DirListCollapse)
                 \/ (Len(paths[i]) > 1 /\ Front(paths[i]) \in folded)]]]
PathsOf(nodes) ==
  LET kids(p) == {n \in nodes : Len(n) = Len(p) + 1 /\ IsPrefix(p, n)}
      below(k, walk) == FlattenSeq([i \in DOMAIN k |-> <<k[i]>> \o walk[k[i]]])
      walk[p \in nodes \cup {None}] ==
        below(SortedSet(kids(p), LAMBDA a, b : IF p = None /\ EnableFoldersSort
                                               THEN InConfigOrder(a, b) ELSE Less(a, b)), walk)
  IN walk[None]
buildTree(s) ==
  TreeOf(s, PathsOf(UNION {{SubSeq(d, 1, k) : k \in DOMAIN d} : d \in ToSet(s.dirs)}),
         hiddenDirectories(s.list))

Selected(s) ==
  IF s.isTree /\ s.idx \in DOMAIN s.list THEN s.list[s.idx].path ELSE s.selected
Found(t, d) == IF d = None THEN t ELSE reindex(t, d)
TreeChanged(s) == Found(buildTree(ListChanged(s)), Selected(s))
Changed(s) == IF s.isTree THEN TreeChanged(s) ELSE ListChanged(s)

Open(s, d, then) ==
  IF ~s.isTree THEN ListOpen(s, d, then, FALSE)
  ELSE IF d = None THEN s
  ELSE ListOpen(reindex(s, d), d, then, Node(s.list, d) = 0)

(* Fails to find the store of the selected directory on a virtual node.    *)
SelectedMsgStore(s) ==
  IF s.isTree /\ s.virtual THEN s
  ELSE IF s.isTree /\ Node(s.list, s.selected) = 0 THEN reindex(buildTree(s), s.selected)
  ELSE s
StoreShown(s) == IF (s.isTree /\ s.virtual) \/ s.selected \notin s.has THEN None ELSE s.selected

selectIndex(s, i) ==
  LET t == [s EXCEPT !.idx = i, !.virtual = s.list[i].dummy]
  IN IF s.list[i].dummy THEN NewContext([t EXCEPT !.shown = None])
     ELSE Open(t, s.list[i].path, None)

-----------------------------------------------------------------------------
(* moving *)

ListNextPrev(s, delta) ==
  LET n == Len(s.dirs)
      i == findString(s.dirs, s.selecting) - 1 + delta
      new == IF i < 0 THEN n - 1 ELSE IF i >= n THEN 0 ELSE i
  IN IF n = 0 THEN s ELSE Open(s, s.dirs[new + 1], None)
TreeNextPrev(s, delta) ==
  LET n == Len(s.list)
      step == IF delta < 0 THEN -1 ELSE 1
      wrap(i) == IF i < 1 THEN n ELSE IF i > n THEN 1 ELSE i
      go[i \in -1..(n + 4), left \in 0..2] ==
        IF left = 0 THEN i
        ELSE go[wrap(i + step), left - (IF isVisible(s.list, wrap(i + step)) THEN 1 ELSE 0)]
  IN IF n = 0 \/ s.idx = n + 1 THEN s ELSE selectIndex(s, go[s.idx, delta * step])
NextPrevDelta(s, delta) == IF s.isTree THEN TreeNextPrev(s, delta) ELSE ListNextPrev(s, delta)
(* -u: one by one until a directory has unread messages; one that is not   *)
(* in the store dereferences nil.                                          *)
Seen(t) ==
  LET at == IF t.isTree THEN Selected(t) ELSE t.selecting
      listed == IF t.isTree THEN at \in ToSet(t.dirs) ELSE TRUE
  IN IF listed /\ at \notin t.has THEN [done |-> TRUE, s |-> [t EXCEPT !.crashed = TRUE]]
     ELSE [done |-> listed /\ at \in Unseen, s |-> t]
NextPrevUnseen(s, delta) ==
  LET n == IF s.isTree THEN Cardinality({i \in DOMAIN s.list : isVisible(s.list, i)})
           ELSE Len(s.dirs)
      on(g) == IF g.done \/ g.s.crashed THEN g ELSE Seen(NextPrevDelta(g.s, delta))
      go[i \in 0..n] == IF i = 0 THEN [done |-> FALSE, s |-> s] ELSE on(go[i - 1])
  IN go[n].s

CollapseFolder(s, d) ==
  LET i == Node(s.list, d)
      fold(l, p) == [l EXCEPT ![Node(l, p)].hidden = TRUE]
  IN IF i = 0 THEN s
     ELSE IF Len(d) > 1 /\ (s.list[i].hidden \/ ~HasKids(s.list, d))
     THEN LET t == [s EXCEPT !.list = fold(@, Front(d))]
          IN IF s.idx = i THEN selectIndex(t, Node(s.list, Front(d))) ELSE t
     ELSE [s EXCEPT !.list = fold(@, d)]
ExpandFolder(s, d) ==
  IF Node(s.list, d) = 0 THEN s ELSE [s EXCEPT !.list[Node(s.list, d)].hidden = FALSE]
ToggleFolder(s, d) ==
  LET i == Node(s.list, d) IN
  IF i = 0 THEN s
  ELSE IF ~HasKids(s.list, d)
       THEN IF Len(d) = 1 THEN s
            ELSE IF s.list[Node(s.list, Front(d))].hidden THEN ExpandFolder(s, Front(d))
            ELSE CollapseFolder(s, d)
  ELSE IF s.list[i].hidden THEN ExpandFolder(s, d) ELSE CollapseFolder(s, d)

-----------------------------------------------------------------------------
(* The actions of the user. *)

(* s[:idx] of a list shorter than that.                                    *)
Drawn(s) == IF s.isTree /\ s.list # <<>> /\ s.idx > Len(s.list) + 1 THEN [s EXCEPT !.crashed = TRUE] ELSE s
Command(s) ==
  /\ commandsLeft > 0 /\ ~ui.crashed
  /\ commandsLeft' = commandsLeft - 1
  /\ ui' = Drawn(s)
  /\ UNCHANGED <<server, answers, faultsLeft>>
(* Leaving a virtual node other than by selectIndex leaves virtual set.    *)
Leaves(s) == IF s.isTree /\ s.virtual THEN {"virtual"} ELSE {}

NextPrevFolder(delta, unseen) ==
  /\ Command(IF unseen THEN NextPrevUnseen(ui, delta) ELSE NextPrevDelta(ui, delta))
  /\ UNCHANGED astray
ChangeFolder(d) ==
  /\ d # None
  /\ Command(Open(ui, d, None))
  /\ astray' = astray \cup Leaves(ui) \cup (IF d \notin ui.has THEN {"unlisted"} ELSE {})
ChangeBack == ui.previous # None /\ ChangeFolder(ui.previous)
MakeDir(d) ==
  /\ Command([ui EXCEPT !.queue = Append(@, [kind |-> "create", dir |-> d])])
  /\ UNCHANGED astray
RemoveDir(s, d, reopen) ==
  [s EXCEPT !.queue = Append(@, [kind |-> "remove", dir |-> d, reopen |-> reopen])]
RemoveOther(d) ==
  /\ d \in ui.has
  /\ d # ui.selected \/ (ui.isTree /\ ui.virtual)
  /\ Command(RemoveDir(ui, d, None))
  /\ UNCHANGED astray
(* The current directory: another is opened first; one that is not in the  *)
(* store dereferences nil.                                                 *)
Elsewhere(s) ==
  LET others == SelectSeq(s.dirs, LAMBDA d : d # s.selected)
  IN IF s.previous \notin {None, s.selected} /\ s.previous \in ToSet(s.dirs) THEN s.previous
     ELSE IF Default # s.selected /\ Default \in ToSet(s.dirs) THEN Default
     ELSE IF others # <<>> THEN others[1] ELSE None
RemoveCurrent ==
  /\ ~(ui.isTree /\ ui.virtual)
  /\ ui.selected \in ui.has => Elsewhere(ui) # None
  /\ Command(IF ui.selected \notin ui.has THEN [ui EXCEPT !.crashed = TRUE]
             ELSE Open(ui, Elsewhere(ui), ui.selected))
  /\ astray' = astray \cup (IF ui.selected = None THEN {"unlisted"} ELSE {})
ExpandCollapse(how) ==
  /\ ui.isTree
  /\ Command(CASE how = "expand" -> ExpandFolder(ui, Selected(ui))
               [] how = "collapse" -> CollapseFolder(ui, Selected(ui))
               [] how = "toggle" -> ToggleFolder(ui, Selected(ui)))
  /\ astray' = astray \cup {"folded"}
Disconnect ==
  /\ Command([ui EXCEPT !.queue = Append(@, [kind |-> "disconnect", dir |-> None])])
  /\ UNCHANGED astray
Reload ==
  /\ Command(IF ui.isTree THEN [ui EXCEPT !.isTree = FALSE]
             ELSE SelectedMsgStore([ui EXCEPT !.isTree = TRUE, !.list = <<>>, !.idx = 0,
                                              !.virtual = FALSE]))
  /\ astray' = astray \cup {"reload"} \cup Leaves(ui)

-----------------------------------------------------------------------------
(* The goroutine of Open posts after its delay; the worker answers.        *)
PostOpen ==
  /\ ui.waiting # NoOpen
  /\ ui' = [ui EXCEPT !.waiting = NoOpen, !.queue = Append(@, ui.waiting)]
  /\ UNCHANGED <<server, answers, astray, commandsLeft, faultsLeft>>

Work(result) ==
  /\ ui.queue # <<>>
  /\ LET a == Head(ui.queue)
         can == CASE a.kind = "open" -> IF a.dir \in server THEN "done" ELSE "error"
                  [] a.kind = "create" -> IF a.dir \in server THEN "error" ELSE "done"
                  [] a.kind = "remove" -> IF a.dir \in server THEN "done" ELSE "error"
                  [] OTHER -> "done"
     IN /\ result \in {can} \cup (IF a.kind = "open" /\ ~a.live THEN {"cancelled"} ELSE {})
                            \cup (IF faultsLeft > 0 /\ a.dir # None THEN {"error"} ELSE {})
        /\ faultsLeft' = IF result = "error" /\ can # "error" THEN faultsLeft - 1 ELSE faultsLeft
        /\ answers' = Append(answers, [action |-> a, result |-> result])
        /\ server' = IF result # "done" THEN server
                     ELSE IF a.kind = "create" THEN server \cup {a.dir}
                     ELSE IF a.kind = "remove" THEN server \ {a.dir} ELSE server
        /\ ui' = [ui EXCEPT !.queue = Tail(@)]
  /\ UNCHANGED <<astray, commandsLeft>>

(* The callbacks of an opening: of the list, of :rmdir, of the tree.       *)
Then(s, a, result) ==
  IF a.then = None \/ result = "cancelled" THEN s
  ELSE IF result = "done" THEN RemoveDir(s, a.then, a.then) ELSE Open(s, a.then, None)
Again(s, a, result) ==
  IF ~(a.again /\ result = "done") THEN s
  ELSE reindex(buildTree([s EXCEPT !.dirs = IF a.dir \in ToSet(@) THEN @ ELSE Append(@, a.dir)]),
               a.dir)
OpenCallback(s, a, result) ==
  Again(Then(IF result = "error" THEN [s EXCEPT !.selecting = None] ELSE s, a, result), a, result)
Shown(t) == [t EXCEPT !.shown = StoreShown(t)]
OnOpened(s, a) == Shown(SelectedMsgStore(ListOpened(s, a.dir)))
OnRemoved(s, a) == Changed(StoreRemove(s, a.dir))
OnCreated(s, a) == Changed(SetMessageStore(s, a.dir))
OpenFirst(t) ==
  LET first == IF Selected(t) # None THEN Selected(t)
               ELSE IF Default \in ToSet(t.dirs) THEN Default
               ELSE IF t.dirs # <<>> THEN t.dirs[1] ELSE None
  IN IF first = None THEN t ELSE Open(t, first, None)
OnListed(s, dirs) == OpenFirst(Changed(FoldLeft(SetMessageStore, s, SortedSet(dirs, Less))))
ClearList(s) ==
  [(IF s.isTree THEN [s EXCEPT !.list = <<>>]
    ELSE [s EXCEPT !.order = <<>>, !.has = {}, !.dirs = <<>>])
   EXCEPT !.shown = None, !.queue = Append(@, [kind |-> "list", dir |-> None])]

Lost(s) == s.isTree /\ Selected(ui) # None /\ Selected(s) # Selected(ui)
Called(a, result) ==
  CASE a.kind = "open" -> OpenCallback(ui, a, result)
    [] a.kind = "create" /\ result = "done" -> Open(ui, a.dir, None)
    [] a.kind = "remove" /\ result # "done" /\ a.reopen # None -> Open(ui, a.reopen, None)
    [] OTHER -> ui
Told(called, a, result) ==
  CASE result # "done" -> called
    [] a.kind = "open" -> OnOpened(called, a)
    [] a.kind = "create" -> OnCreated(called, a)
    [] a.kind = "remove" -> OnRemoved(called, a)
    [] a.kind = "list" -> OnListed(called, server)
    [] a.kind = "disconnect" -> ClearList(called)

Received(a, result, called, s) ==
  LET done == result = "done"
  IN /\ ui' = Drawn(s)
     /\ astray' = astray
          \cup (IF a.kind = "open" /\ result = "error" THEN {"failed"} ELSE {})
          \cup (IF a.kind = "open" /\ done /\ ui.selecting # a.dir THEN {"overtaken"} ELSE {})
          \cup (IF a.kind # "open" /\ done /\ Lost(s) THEN {"orphan"} ELSE {})
          \cup (IF a.kind = "disconnect" /\ ~ui.isTree THEN {"unlisted"} ELSE {})
          \cup (IF a.kind = "remove" /\ done /\ a.dir \in {ui.selected, ui.selecting}
                THEN {"cut"} ELSE {})
          \cup (IF a.kind \in {"create", "remove"} /\ called # ui THEN Leaves(ui) ELSE {})

OnMessage ==
  /\ answers # <<>> /\ ~ui.crashed
  /\ LET m == Head(answers) IN
     \E called \in {Called(m.action, m.result)} :
       \E s \in {Told(called, m.action, m.result)} : Received(m.action, m.result, called, s)
  /\ answers' = Tail(answers)
  /\ UNCHANGED <<server, commandsLeft, faultsLeft>>

-----------------------------------------------------------------------------
Init ==
  /\ server = OnServer
  /\ ui = [dirs |-> <<>>, order |-> <<>>, has |-> {}, selecting |-> None, selected |-> None,
           previous |-> None, isTree |-> StartAsTree, list |-> <<>>, idx |-> 0,
           virtual |-> FALSE, shown |-> None, waiting |-> NoOpen,
           queue |-> <<[kind |-> "list", dir |-> None]>>, crashed |-> FALSE]
  /\ answers = <<>>
  /\ astray = {}
  /\ commandsLeft = MaxCommands /\ faultsLeft = MaxFaults

Next ==
  \/ \E delta \in {-1, 1, 2}, unseen \in BOOLEAN : NextPrevFolder(delta, unseen)
  \/ \E d \in OnServer \cup Makes : ChangeFolder(d) \/ RemoveOther(d)
  \/ ChangeBack \/ RemoveCurrent \/ Disconnect \/ Reload
  \/ \E d \in Makes : MakeDir(d)
  \/ \E how \in {"expand", "collapse", "toggle"} : ExpandCollapse(how)
  \/ PostOpen \/ OnMessage
  \/ \E result \in {"done", "error", "cancelled"} : Work(result)

-----------------------------------------------------------------------------
Quiet == ui.waiting = NoOpen /\ ui.queue = <<>> /\ answers = <<>> /\ ~ui.crashed

(* In the end the message list shows the directory opened last, unless     *)
(* that one was opened from a virtual node by other means than moving to   *)
(* it.                                                                     *)
ShownRight ==
  Quiet /\ "virtual" \notin astray =>
    \/ ui.shown = IF ui.isTree /\ ui.virtual THEN None ELSE ui.selected
    \/ ui.shown = None /\ "failed" \in astray

(* It is also the highlighted one, and no fold of the tree hides it, but   *)
(* for openings that fail or end after the next one began.                 *)
HighlightRight ==
  Quiet /\ astray \cap {"virtual", "failed", "overtaken", "orphan", "cut", "reload"} = {}
  /\ ~ui.virtual =>
    /\ (IF ui.isTree THEN Selected(ui) ELSE ui.selecting) = ui.selected
    /\ ui.isTree /\ "folded" \notin astray /\ ui.idx > 0 => isVisible(ui.list, ui.idx)

(* The list has each directory once, in its order, and all of them that    *)
(* the configuration shows.                                                *)
ListsAll ==
  Quiet =>
    /\ ToSet(ui.dirs) \ {ui.selected} = (server \ Excluded) \ {ui.selected}
    /\ IsInjective(ui.dirs)
    /\ EnableFoldersSort => ui.dirs = SortDirs(ui.dirs)
    /\ ui.isTree => {ui.list[i].path : i \in {j \in DOMAIN ui.list : ~ui.list[j].dummy}} = ToSet(ui.dirs)

(* A directory that was removed is not shown any more. *)
RemovedGone == Quiet /\ "cut" \notin astray => ui.shown \in server \cup {None}
NoCrash == ui.crashed => astray \cap {"orphan", "cut", "unlisted"} # {}

FoldersRight == ShownRight /\ HighlightRight /\ ListsAll /\ RemovedGone /\ NoCrash
=============================================================================
