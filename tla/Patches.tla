------------------------------- MODULE Patches ------------------------------
(***************************************************************************)
(* Patch management (lib/pama, commands/patch): which commits of a         *)
(* repository belong to which patch, while git am, the editor of :patch    *)
(* rebase and a timer run beside the commands, and the user changes the    *)
(* repository by other means.                                              *)
(*                                                                         *)
(* A change is <<name, version>>; its subject is that of its name.  The    *)
(* hash of a commit is the sequence of changes from the root to it, so     *)
(* that rewriting a commit gives everything above it another hash.  A base *)
(* is kept as it was typed, a hash or a name that git resolves each time.  *)
(*                                                                         *)
(* The store is locked for whoever has opened it: while the goroutine of   *)
(* the timer switches projects, a command may fail to store what it has    *)
(* done.  A command that fails before it does anything is left out.        *)
(***************************************************************************)
EXTENDS Integers, SequencesExt, FiniteSetsExt

CONSTANTS
  Series,       \* tag |-> the names of the changes it is mailed as
  Applied,      \* the tags applied before
  NewTag,       \* a tag the user gives in the editor
  Subject,      \* name |-> subject
  Needs,        \* pairs <<n, m>>: n does not apply without m
  MaxCommands, MaxForeign

VARIABLES
  head,         \* root |-> HEAD of that work tree, <<>>: no such work tree
  todo,         \* root |-> [orig, rest] of a rebase or am in progress, or Idle
  projects,     \* the store: name |-> project, or NoProject
  current,      \* current.project, "" when never set
  pipes,        \* the applies under way
  editor,       \* the dialog of :patch rebase
  timer,        \* the project switchDebouncer is going to select, or ""
  switching,    \* the project its goroutine is selecting, or ""
  origin,     \* the commit of origin/master
  given,        \* project |-> the commit its base named when the user gave it
  meant,        \* project |-> [name |-> the tag the user gave it last, "" for none]
  causes,       \* name of project |-> why its data may be wrong: see PatchesRight
  badDrops,     \* drops that removed something else
  fresh,        \* the series not applied yet: each is applied once
  commandsLeft, foreignLeft

patchVars == <<head, todo, projects, current, pipes, editor, timer, switching, origin,
               given, meant, causes, badDrops, fresh, commandsLeft, foreignLeft>>

NoProject == [root |-> "none"]
NoEditor == [open |-> FALSE]
Idle == [orig |-> <<>>, rest |-> <<>>]
Untracked == "untracked"
Root == <<"root", 0>>
HEAD == <<<<"HEAD", 0>>>>
ORIGIN == <<<<"origin/master", 0>>>>
ProjectNames == {"p", "w"}
Roots == {"repo", "tree"}
Names(h) == {h[i][1] : i \in DOMAIN h}
AllNames == DOMAIN Subject
NothingMeant == [n \in AllNames |-> ""]
SubjectOf(id) == Subject[Last(id)[1]]

-----------------------------------------------------------------------------
(* git, as lib/pama/revctrl calls it. *)

Exists(id, h) == IsPrefix(id, h) /\ id # <<>>
Common(id, h) == Max({n \in 0..Min({Len(id), Len(h)}) : SubSeq(id, 1, n) = SubSeq(h, 1, n)})
History(id, h) ==
  LET n == Common(id, h) IN [i \in 1..(Len(h) - n) |-> SubSeq(h, 1, n + i)]
Clean(r) == todo[r] = Idle

(* What git makes of a commit-ish in a work tree whose HEAD is h. *)
RevParse(c, h) == IF c = HEAD THEN h ELSE IF c = ORIGIN THEN origin ELSE c
Conflicts(c, h) == \E p \in Needs : p[1] = c[1] /\ p[2] \notin Names(h)

(* The changes of rest on top of h, up to the first that does not apply;   *)
(* one that is there already is skipped.                                   *)
Reapply(h, rest) ==
  LET go[i \in 0..Len(rest)] ==
        IF i = 0 THEN [h |-> h, rest |-> <<>>]
        ELSE LET g == go[i - 1] c == rest[i]
             IN IF g.rest # <<>> \/ Conflicts(c, g.h) THEN [g EXCEPT !.rest = Append(@, c)]
                ELSE IF c \in ToSet(g.h) THEN g ELSE [g EXCEPT !.h = Append(@, c)]
  IN go[Len(rest)]

(* git rebase --onto id^ id: what HEAD has and id has not, on the parent.  *)
GitDrop(id, h) ==
  LET upstream == {Last(c) : c \in ToSet(SubSeq([i \in 1..Len(id) |-> SubSeq(id, 1, i)],
                                               Common(id, h) + 1, Len(id)))}
      pick == SelectSeq([i \in DOMAIN History(id, h) |-> Last(History(id, h)[i])],
                        LAMBDA c : c \notin upstream)
  IN Reapply(Front(id), pick)

-----------------------------------------------------------------------------
(* lib/pama *)

NewCommit(id, tag) == [id |-> id, subject |-> SubjectOf(id), tag |-> tag]
HasTag(p, tag) == \E i \in DOMAIN p.commits : p.commits[i].tag = tag
CurrentExists == current # "" /\ projects[current] # NoProject
CurrentProject == projects[current]
isWorktree(p) == p.parent # ""
Tracked(p) == {Last(p.commits[i].id)[1] : i \in DOMAIN p.commits}
Blame(name, why) == causes' = [causes EXCEPT ![name] = @ \cup why]
StoreProject(p) == projects' = [projects EXCEPT ![p.name] = p]
(* A captured project that is stored over what others stored meanwhile. *)
Overwrites(p) == IF projects[p.name] # p THEN {"overtaken"} ELSE {}
(* openStorage: whether it opens. *)
Opens == IF switching = "" THEN {TRUE} ELSE BOOLEAN

Command == commandsLeft > 0 /\ ~editor.open /\ commandsLeft' = commandsLeft - 1

ProjectInit(overwrite, selected) ==
  LET p == [name |-> "p", root |-> "repo", base |-> head["repo"], commits |-> <<>>, parent |-> ""]
  IN /\ Command
     /\ projects["p"] = NoProject \/ overwrite
     /\ StoreProject(p)
     /\ current' = IF selected THEN "p" ELSE current
     /\ given' = [given EXCEPT !["p"] = head["repo"]]
     /\ Blame("p", IF projects["p"] = NoProject THEN {} ELSE {"reset"})
     /\ meant' = [meant EXCEPT !["p"] = NothingMeant]
     /\ UNCHANGED <<head, todo, pipes, editor, timer, switching, origin, badDrops, foreignLeft,
                    fresh>>

Piped(p, tag, h) ==
  IF HasTag(p, tag) \/ h = <<>> THEN pipes
  ELSE Append(pipes, [p |-> p, tag |-> tag, from |-> h, stage |-> "fetching", added |-> {}])

(* :patch apply *)
Apply(tag) ==
  LET p == CurrentProject
  IN /\ Command
     /\ CurrentExists /\ tag \in fresh
     /\ pipes' = IF Clean(p.root) THEN Piped(p, tag, head[p.root]) ELSE pipes
     /\ fresh' = fresh \ {tag}
     /\ UNCHANGED <<head, todo, projects, current, editor, timer, switching, origin, given,
                    meant, causes, badDrops, foreignLeft>>

(* :patch apply -w, in a new work tree at commitish; the base of its project *)
(* is what the user typed.                                                   *)
CreateWorktree(p, commitish) ==
  [name |-> "w", root |-> "tree", base |-> commitish, commits |-> <<>>, parent |-> p.name]
ApplyInWorktree(tag, commitish, stored, selected) ==
  LET p == CurrentProject
      w == CreateWorktree(p, commitish)
      h == RevParse(commitish, head[p.root])
  IN /\ Command
     /\ CurrentExists /\ tag \in fresh
     /\ ~isWorktree(p) /\ head["tree"] = <<>> /\ h # <<>>
     /\ head' = [head EXCEPT !["tree"] = h]
     /\ IF stored
        THEN /\ StoreProject(w)
             /\ current' = IF selected THEN "w" ELSE current
             /\ given' = [given EXCEPT !["w"] = h]
             /\ pipes' = Piped(w, tag, h)
             /\ causes' = [causes EXCEPT !["w"] = {}]
             /\ meant' = [meant EXCEPT !["w"] = NothingMeant]
        ELSE UNCHANGED <<projects, current, given, pipes, causes, meant>>
     /\ fresh' = fresh \ {tag}
     /\ UNCHANGED <<todo, editor, timer, switching, origin, badDrops, foreignLeft>>

FetchFails(i) ==
  /\ i \in DOMAIN pipes /\ pipes[i].stage = "fetching"
  /\ pipes' = RemoveAt(pipes, i)
  /\ UNCHANGED <<head, todo, projects, current, editor, timer, switching, origin,
                 given, meant, causes, badDrops,
                 commandsLeft, foreignLeft, fresh>>

(* git am in its terminal: refused while another is in progress. *)
GitAm(i) ==
  /\ i \in DOMAIN pipes /\ pipes[i].stage = "fetching"
  /\ LET x == pipes[i]
         r == x.p.root
         mails == [k \in DOMAIN Series[x.tag] |-> <<Series[x.tag][k], 0>>]
         g == Reapply(head[r], mails)
         added == Names(g.h) \ Names(head[r])
     IN /\ pipes' = [pipes EXCEPT ![i].stage = "applied",
                                   ![i].added = IF Clean(r) THEN added ELSE {}]
        /\ IF Clean(r) /\ head[r] # <<>>
           THEN /\ head' = [head EXCEPT ![r] = g.h]
                /\ todo' = [todo EXCEPT ![r] = IF g.rest = <<>> THEN Idle
                                               ELSE [orig |-> head[r], rest |-> g.rest]]
                /\ meant' = [meant EXCEPT ![x.p.name] =
                     [n \in AllNames |-> IF n \in added THEN x.tag ELSE @[n]]]
           ELSE UNCHANGED <<head, todo, meant>>
  /\ UNCHANGED <<projects, current, editor, timer, switching, origin, given, causes,
                 badDrops, commandsLeft, foreignLeft,
                 fresh>>

(* The terminal is closed, however git am ended; an error goes to the log. *)
ApplyUpdate(i, stored) ==
  LET x == pipes[i]
      ids == History(x.from, head[x.p.root])
      tag == IF HasTag(x.p, x.tag) THEN x.tag \o "_1" ELSE x.tag
      p == [x.p EXCEPT !.commits = @ \o [k \in DOMAIN ids |-> NewCommit(ids[k], tag)]]
  IN /\ i \in DOMAIN pipes /\ x.stage = "applied"
     /\ pipes' = RemoveAt(pipes, i)
     /\ IF head[x.p.root] = <<>> \/ ids = <<>> THEN UNCHANGED <<projects, causes>>
        ELSE IF ~stored THEN UNCHANGED projects /\ Blame(x.p.name, {"unsaved"})
        ELSE /\ StoreProject(p)
             /\ Blame(x.p.name, Overwrites(x.p)
                   \cup (IF {Last(id)[1] : id \in ToSet(ids)} = x.added THEN {} ELSE {"overtaken"}))
     /\ UNCHANGED <<head, todo, current, editor, timer, switching, origin, given,
                    meant, badDrops, commandsLeft,
                    foreignLeft, fresh>>

(* A mutant: the hashes are not translated. *)
DropOneKeepsHashes(s, id) ==
  LET g == GitDrop(id, s.head)
  IN IF g.rest # <<>> THEN [s EXCEPT !.head = g.h, !.todo = [orig |-> s.head, rest |-> g.rest]]
     ELSE [s EXCEPT !.head = g.h, !.removed = @ \cup {id}]

(* :patch drop.  The commits are taken from the last to the first; the     *)
(* hashes of those above are translated after each.                        *)
DropOne(s, id) ==
  LET before == History(id, s.head)
      g == GitDrop(id, s.head)
      all == History(RevParse(s.base, g.h), g.h)
      after == SubSeq(all, Len(all) - Len(before) + 1, Len(all))
      at(c) == CHOOSE j \in DOMAIN before : before[j] = c.id
      move(c) == IF c.id \in ToSet(before) THEN NewCommit(after[at(c)], c.tag) ELSE c
  IN IF s.todo # Idle \/ s.crashed THEN s
     ELSE IF g.rest # <<>>
          THEN [s EXCEPT !.head = g.h, !.todo = [orig |-> s.head, rest |-> g.rest]]
     ELSE IF Len(all) < Len(before) THEN [s EXCEPT !.head = g.h, !.crashed = TRUE]
     ELSE [s EXCEPT !.head = g.h, !.removed = @ \cup {id},
                    !.commits = [k \in DOMAIN @ |-> move(@[k])]]
Dropped(p, tag) ==
  LET ids == [k \in DOMAIN p.commits |-> p.commits[k].id]
      remove == SelectSeq(p.commits, LAMBDA c : c.tag = tag)
      n == Len(remove)
      go[i \in 0..n] ==
        IF i = 0 THEN [head |-> head[p.root], todo |-> Idle, commits |-> p.commits,
                       removed |-> {}, crashed |-> FALSE, base |-> p.base]
        ELSE DropOne(go[i - 1], remove[n - i + 1].id)
  IN go[n]
DropPatch(tag, stored) ==
  LET p == CurrentProject
      d == Dropped(p, tag)
      mine == {k \in DOMAIN p.commits : p.commits[k].tag = tag}
      wanted == {Last(p.commits[k].id) : k \in mine}
      complete == Cardinality(d.removed) = Cardinality(mine)
  IN /\ Command
     /\ CurrentExists /\ HasTag(p, tag) /\ Clean(p.root)
     /\ \A k \in DOMAIN p.commits : Exists(p.commits[k].id, head[p.root])
     /\ head' = [head EXCEPT ![p.root] = d.head]
     /\ todo' = [todo EXCEPT ![p.root] = d.todo]
     /\ projects' = IF ~(complete /\ stored) THEN projects
                    ELSE [projects EXCEPT ![p.name].commits =
                            SelectSeq(d.commits, LAMBDA c : c.id \notin d.removed)]
     /\ meant' = IF complete
                 THEN [meant EXCEPT ![p.name] =
                         [n \in AllNames |-> IF n \in {c[1] : c \in wanted} THEN "" ELSE @[n]]]
                 ELSE meant
     /\ Blame(p.name, IF ~complete THEN {"half"} ELSE IF ~stored THEN {"unsaved"} ELSE {})
     /\ badDrops' = IF complete /\ stored /\ ToSet(d.head) # ToSet(head[p.root]) \ wanted
                    THEN badDrops \cup {p.name} ELSE badDrops
     /\ UNCHANGED <<current, pipes, editor, timer, switching, origin, given,
                    foreignLeft, fresh>>

(* :patch rebase.  The tag of an entry goes to the commits of its hash or  *)
(* of its subject.                                                         *)
RebaseCommits(p, base) ==
  LET ids == History(RevParse(base, head[p.root]), head[p.root])
      from(id) == {k \in DOMAIN p.commits : p.commits[k].id = id
                                            \/ p.commits[k].subject = SubjectOf(id)}
  IN [i \in DOMAIN ids |->
        NewCommit(ids[i], IF from(ids[i]) = {} THEN Untracked
                          ELSE p.commits[Min(from(ids[i]))].tag)]
(* Entries that lend their tag to another change than their own. *)
Twins(p, commits) ==
  \E i \in DOMAIN commits : commits[i].tag # Untracked
     /\ \A k \in DOMAIN p.commits : Last(p.commits[k].id)[1] = Last(commits[i].id)[1]
                                    => p.commits[k].tag # commits[i].tag

SaveRebased(p, base, commits) ==
  LET h == head[p.root]
      exist == SelectSeq(commits, LAMBDA c : Exists(c.id, h))
  IN StoreProject([p EXCEPT !.commits = exist,
                            !.base = IF Exists(RevParse(base, h), h) THEN base ELSE @])
(* What the user has left out, or what is below the base she gave, is not  *)
(* meant to be followed any more.                                          *)
Remember(commits, p, at) ==
  meant' = [meant EXCEPT ![p.name] =
    [n \in AllNames |->
       IF \E i \in DOMAIN commits : Last(commits[i].id)[1] = n
       THEN commits[CHOOSE i \in DOMAIN commits : Last(commits[i].id)[1] = n].tag
       ELSE IF n \in at THEN @[n] ELSE ""]]
(* The changes above the base she gave that the base of now hides. *)
Hidden(p, at, base) ==
  LET h == head[p.root]
      above(b) == {Last(id)[1] : id \in ToSet(History(b, h))}
  IN IF Exists(at, h) THEN above(at) \ above(RevParse(base, h)) ELSE {}
Mended(name) == causes[name] \ {"half", "rewritten", "shuffled", "unsaved"}
Moved(hidden) == IF hidden = {} THEN {} ELSE {"moved"}

Rebase(base, typed) ==
  /\ Command
  /\ CurrentExists
  /\ LET p == CurrentProject
         at == IF typed THEN RevParse(base, head[p.root]) ELSE given[p.name]
         commits == RebaseCommits(p, base)
         hidden == Hidden(p, at, base)
     IN /\ typed \/ base = p.base
        /\ Exists(RevParse(base, head[p.root]), head[p.root])
        /\ IF commits = <<>>
           THEN /\ SaveRebased(p, base, <<>>)
                /\ Remember(<<>>, p, hidden)
                /\ given' = [given EXCEPT ![p.name] = at]
                /\ causes' = [causes EXCEPT ![p.name] = Mended(p.name) \cup Moved(hidden)]
                /\ UNCHANGED editor
           ELSE /\ editor' = [open |-> TRUE, p |-> p, base |-> base, at |-> at,
                              hidden |-> hidden, commits |-> commits]
                /\ Blame(p.name, IF Twins(p, commits) THEN {"twins"} ELSE {})
                /\ UNCHANGED <<projects, given, meant>>
  /\ UNCHANGED <<head, todo, current, pipes, timer, switching, origin, badDrops, foreignLeft,
                 fresh>>

(* sort.SliceStable as it runs for less than 20 elements, with a           *)
(* comparison that looks its indices up in now, which does not move.       *)
reorder(toSort, now, by) ==
  LET rank(i) == SelectInSeq(by, LAMBDA c : c = now[i])
      sink[s \in Seq(Range(toSort)), j \in 1..Len(toSort)] ==
        IF j > 1 /\ rank(j) < rank(j - 1)
        THEN sink[[s EXCEPT ![j] = s[j - 1], ![j - 1] = s[j]], j - 1] ELSE s
      go[i \in 1..Len(toSort)] == IF i = 1 THEN toSort ELSE sink[go[i - 1], i]
  IN IF toSort = <<>> THEN toSort ELSE go[Len(toSort)]

(* The lines the user leaves, in an order of hers; keep says which tag.    *)
Lines(e) ==
  LET n == Len(e.commits) IN
  {[i \in DOMAIN s |-> e.commits[s[i]]] :
     s \in {t \in UNION {[1..m -> 1..n] : m \in 0..n} :
              \A i, j \in DOMAIN t : t[i] = t[j] => i = j}}
Retagged(s, i, tag) == IF i = 0 THEN s ELSE [s EXCEPT ![i].tag = tag]
parse(lines, by) ==
  LET kept == SelectSeq(lines, LAMBDA c : c.tag # Untracked)
      ids(s) == [i \in DOMAIN s |-> s[i].id]
  IN reorder(kept, ids(kept), ids(by))
InOrder(commits) ==
  \A i, j \in DOMAIN commits : i < j => Len(commits[i].id) < Len(commits[j].id)

EditorSaves(lines, i, tag) ==
  LET p == editor.p
      commits == parse(Retagged(lines, i, tag), editor.commits)
  IN /\ editor.open
     /\ editor' = NoEditor
     /\ SaveRebased(p, editor.base, commits)
     /\ Remember(commits, p, editor.hidden)
     /\ given' = IF Exists(RevParse(editor.base, head[p.root]), head[p.root])
                 THEN [given EXCEPT ![p.name] = editor.at] ELSE given
     /\ causes' = [causes EXCEPT ![p.name] =
          Mended(p.name) \cup Moved(editor.hidden) \cup Overwrites(p)
          \cup (IF \A k \in DOMAIN commits : Exists(commits[k].id, head[p.root]) THEN {}
                ELSE {"overtaken"})
          \cup (IF InOrder(commits) THEN {} ELSE {"shuffled"})]
     /\ UNCHANGED <<head, todo, current, pipes, timer, switching, origin, badDrops,
                    commandsLeft, foreignLeft, fresh>>
EditorQuits ==
  /\ editor.open
  /\ editor' = NoEditor
  /\ UNCHANGED <<head, todo, projects, current, pipes, timer, switching, origin, given,
                 meant, causes, badDrops,
                 commandsLeft, foreignLeft, fresh>>

SwitchTo(name) == current' = IF projects[name] # NoProject THEN name ELSE current
Switch(name) ==
  /\ Command
  /\ SwitchTo(name)
  /\ UNCHANGED <<head, todo, projects, pipes, editor, timer, switching, origin, given,
                 meant, causes, badDrops,
                 foreignLeft, fresh>>

(* pama-auto-switch: a message of the project is selected, or another. *)
DebouncedSwitch(name) ==
  /\ foreignLeft > 0 /\ foreignLeft' = foreignLeft - 1
  /\ timer' = name
  /\ UNCHANGED <<head, todo, projects, current, pipes, editor, switching, origin, given,
                 meant, causes, badDrops, commandsLeft, fresh>>
TimerFires ==
  /\ timer # "" /\ switching = ""
  /\ timer' = "" /\ switching' = timer
  /\ UNCHANGED <<head, todo, projects, current, pipes, editor, origin, given, meant, causes,
                 badDrops, commandsLeft, foreignLeft, fresh>>
SwitchEnds(selected) ==
  /\ switching # ""
  /\ switching' = ""
  /\ IF selected THEN SwitchTo(switching) ELSE UNCHANGED current
  /\ UNCHANGED <<head, todo, projects, pipes, editor, timer, origin, given, meant, causes,
                 badDrops, commandsLeft, foreignLeft, fresh>>

(* current becomes another project, or the parent even if that is gone; *)
(* read, selected and deleted say which accesses to the store succeed.    *)
Unlink(name, read, selected, deleted) ==
  LET p == projects[name]
      others == {n \in ProjectNames \ {name} : projects[n] # NoProject}
      next == IF current # name THEN current
              ELSE IF others = {} THEN "" ELSE CHOOSE n \in others : TRUE
  IN /\ Command
     /\ p # NoProject
     /\ current' = IF read /\ isWorktree(p) /\ selected THEN p.parent ELSE next
     /\ head' = IF read /\ isWorktree(p) /\ Clean(p.root)
                THEN [head EXCEPT ![p.root] = <<>>] ELSE head
     /\ projects' = IF deleted THEN [projects EXCEPT ![name] = NoProject] ELSE projects
     /\ Blame(name, {"unlinked"})
     /\ UNCHANGED <<todo, pipes, editor, timer, switching, origin, given, meant, badDrops,
                    foreignLeft, fresh>>

-----------------------------------------------------------------------------
(* What the user does to the repository besides; Upstream is a pull that rebases. *)

Rewrite(r, h, why) ==
  /\ foreignLeft > 0
  /\ foreignLeft' = foreignLeft - 1
  /\ head[r] # <<>> /\ Clean(r)
  /\ head' = [head EXCEPT ![r] = h]
  /\ causes' = [n \in ProjectNames |->
       IF projects[n] # NoProject /\ projects[n].root = r
       THEN causes[n] \cup why ELSE causes[n]]
  /\ UNCHANGED <<todo, projects, current, pipes, editor, timer, switching, given, badDrops,
                 commandsLeft, fresh>>
Commit(r) == Rewrite(r, Append(head[r], <<"own", 0>>), {}) /\ "own" \notin Names(head[r])
             /\ UNCHANGED <<meant, origin>>
Amend(r) ==
  /\ Len(head[r]) > 1 /\ Last(head[r])[2] = 0
  /\ Rewrite(r, Append(Front(head[r]), <<Last(head[r])[1], 1>>), {"rewritten"})
  /\ UNCHANGED <<meant, origin>>
Reset(r) ==
  /\ Len(head[r]) > 1
  /\ Rewrite(r, Front(head[r]), {"rewritten", "reset"})
  /\ meant' = [n \in ProjectNames |->
       IF projects[n] # NoProject /\ projects[n].root = r
       THEN [meant[n] EXCEPT ![Last(head[r])[1]] = ""] ELSE meant[n]]
  /\ UNCHANGED origin
Upstream(r) ==
  /\ "up" \notin Names(head[r])
  /\ origin' = <<Root, <<"up", 0>>>>
  /\ Rewrite(r, origin' \o Tail(head[r]), {"rewritten"})
  /\ UNCHANGED meant
Resolve(r, abort) ==
  /\ ~Clean(r)
  /\ todo' = [todo EXCEPT ![r] = Idle]
  /\ head' = [head EXCEPT ![r] = IF abort THEN todo[r].orig ELSE head[r] \o todo[r].rest]
  /\ causes' = [n \in ProjectNames |->
       IF projects[n] # NoProject /\ projects[n].root = r
       THEN causes[n] \cup {"rewritten", "resolved"} ELSE causes[n]]
  /\ UNCHANGED <<projects, current, pipes, editor, timer, switching, origin, given,
                 meant, badDrops, commandsLeft,
                 foreignLeft, fresh>>

-----------------------------------------------------------------------------
Old == LET names == FlattenSeq([k \in DOMAIN Applied |-> Series[Applied[k]]])
       IN [k \in DOMAIN names |-> <<names[k], 0>>]
OldTag(c) == CHOOSE t \in ToSet(Applied) : c \in ToSet(Series[t])

Init ==
  /\ head = [r \in Roots |-> IF r = "repo" THEN <<Root>> \o Old ELSE <<>>]
  /\ todo = [r \in Roots |-> Idle]
  /\ projects = [n \in ProjectNames |-> IF n = "p"
       THEN [name |-> "p", root |-> "repo", base |-> <<Root>>, parent |-> "",
             commits |-> [k \in DOMAIN Old |->
                            NewCommit(<<Root>> \o SubSeq(Old, 1, k), OldTag(Old[k][1]))]]
       ELSE NoProject]
  /\ current = "p"
  /\ pipes = <<>> /\ editor = NoEditor /\ timer = ""
  /\ meant = [n \in ProjectNames |->
       IF n = "p" THEN [c \in AllNames |-> IF <<c, 0>> \in ToSet(Old) THEN OldTag(c) ELSE ""]
       ELSE NothingMeant]
  /\ causes = [n \in ProjectNames |-> {}]
  /\ switching = "" /\ origin = <<Root>>
  /\ given = [n \in ProjectNames |-> <<Root>>]
  /\ badDrops = {} /\ fresh = DOMAIN Series \ ToSet(Applied)
  /\ commandsLeft = MaxCommands /\ foreignLeft = MaxForeign

Next ==
  \/ \E overwrite \in BOOLEAN, selected \in Opens : ProjectInit(overwrite, selected)
  \/ \E tag \in DOMAIN Series : Apply(tag)
  \/ CurrentExists /\ \E tag \in fresh, commitish \in {CurrentProject.base, HEAD, ORIGIN},
                         stored \in Opens, selected \in Opens :
       ApplyInWorktree(tag, commitish, stored, selected)
  \/ \E i \in DOMAIN pipes : FetchFails(i) \/ GitAm(i)
                            \/ \E stored \in Opens : ApplyUpdate(i, stored)
  \/ \E tag \in DOMAIN Series \cup {NewTag}, stored \in Opens : DropPatch(tag, stored)
  \/ \E r \in Roots : \E n \in 1..Len(head[r]) : Rebase(SubSeq(head[r], 1, n), TRUE)
  \/ Rebase(HEAD, TRUE) \/ Rebase(ORIGIN, TRUE)
  \/ CurrentExists /\ Rebase(CurrentProject.base, FALSE)
  \/ editor.open /\ \E lines \in Lines(editor) : \E i \in {0, Len(lines)} :
       EditorSaves(lines, i, NewTag)
  \/ EditorQuits
  \/ \E name \in ProjectNames : Switch(name) \/ DebouncedSwitch(name)
       \/ \E read, selected, deleted \in Opens : Unlink(name, read, selected, deleted)
  \/ TimerFires \/ \E selected \in BOOLEAN : SwitchEnds(selected)
  \/ \E r \in Roots : Commit(r) \/ Amend(r) \/ Reset(r) \/ Upstream(r)
                      \/ \E abort \in BOOLEAN : Resolve(r, abort)

-----------------------------------------------------------------------------
(* The hashes a project tracks are in its repository, unless its history   *)
(* was rewritten by other means, a drop stopped half way, or the store was *)
(* locked when it had to be saved; :patch rebase mends all of them.        *)
Alive(n) ==
  LET p == projects[n] IN
  causes[n] \cap {"half", "unsaved", "rewritten", "overtaken", "resolved", "unlinked"} = {} =>
    \A k \in DOMAIN p.commits : Exists(p.commits[k].id, head[p.root])

(* They are tracked in the order of the repository, which drop relies on,  *)
(* unless the lines were reordered in a way reorder cannot undo.           *)
Ordered(n) ==
  causes[n] \cap {"shuffled", "overtaken", "resolved", "half", "unsaved", "rewritten",
                  "unlinked"} = {} =>
    InOrder(projects[n].commits)

(* A change is tracked under the tag the user gave it, and what was        *)
(* applied is tracked until the user drops it or leaves it out of a        *)
(* rebase.  Not so after a lost update, when subjects are equal, or when   *)
(* the base is a name that now stands for a later commit: a rebase without *)
(* argument then drops what it does not show.                              *)
TagsMeant(n) ==
  LET p == projects[n]
      busy == \E i \in DOMAIN pipes : pipes[i].p.name = n
  IN causes[n] \cap {"twins", "overtaken", "half", "unsaved", "resolved", "reset", "moved",
                  "unlinked"} = {} =>
       /\ \A k \in DOMAIN p.commits :
            meant[n][Last(p.commits[k].id)[1]] \in {p.commits[k].tag, ""}
       /\ ~busy /\ Exists(given[n], head[p.root]) =>
            \A c \in Names(head[p.root]) \ Names(given[n]) :
              meant[n][c] # "" => c \in Tracked(p)

(* A drop that reports success removed the commits of the patch, and       *)
(* nothing else.                                                           *)
DropsExact == \A n \in badDrops : causes[n] \cap {"shuffled", "overtaken", "unlinked"} # {}

PatchesRight ==
  /\ \A n \in ProjectNames : projects[n] # NoProject => Alive(n) /\ Ordered(n) /\ TagsMeant(n)
  /\ DropsExact
=============================================================================
