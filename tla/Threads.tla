------------------------------ MODULE Threads -------------------------------
(***************************************************************************)
(* Threads built by the client (lib/threadbuilder.go on lib/jwz), shown by *)
(* the message store (lib/msgstore.go) and folded by the user.  Headers    *)
(* arrive one by one; the builder runs when a timer fires or when a whole  *)
(* list arrives.  It forgets nothing: headers, folds and deletion marks    *)
(* stay in its maps when their message leaves the directory.               *)
(*                                                                         *)
(* A tree is [msg, kids]: msg is a UID, or 0 for a container without a     *)
(* message (a dummy), kids the sequence of its subtrees.  RECURSIVE        *)
(* operators walk trees, so nothing is proved of this module.              *)
(***************************************************************************)
EXTENDS Integers, SequencesExt, FiniteSetsExt

CONSTANTS
  Messages,      \* UIDs, positive
  Ids,           \* message IDs, positive; some of no message
  Mails,         \* the headers to choose from: message ->
                 \*   [id, refs, irp (0: none), text (rank of the subject, 0: ignored),
                 \*    base (simplified subject, 0: none), reply]
  SortSiblings,  \* sort-thread-siblings
  MaxEvents      \* bound on what happens to the directory

VARIABLES
  mail,          \* the headers
  uids,          \* store.uids
  blocks,        \* threadBlocks: the messages whose headers the builder has
  forest,        \* store.threads
  known, hidden, gone,   \* threadMap: its UIDs, their Hidden and Deleted
  threadedUids,  \* the UIDs shown
  due,           \* threadBuilderDebounce is running
  orphaned,      \* hidden when a message above them was no longer above them
  revived,       \* back after they were deleted
  th_events

thVars == <<mail, uids, blocks, forest, known, hidden, gone, threadedUids, due, orphaned,
            revived, th_events>>

-----------------------------------------------------------------------------
(* lib/jwz: containers.  Keys are message IDs, and made-up ones for        *)
(* messages whose ID is taken.                                             *)

Bogus(m) == Max(Ids) + m
Keys == Ids \cup {Bogus(m) : m \in Messages}

(* cleanRefs and MessageThreadReferences. *)
References(m) ==
  LET h == mail[m]
      refs == IF h.refs # <<>> THEN h.refs ELSE IF h.irp # 0 THEN <<h.irp>> ELSE <<>>
      once == FoldLeft(LAMBDA s, r : IF r = h.id \/ Contains(s, r) THEN s ELSE Append(s, r),
                       <<>>, refs)
  IN IF once # <<>> /\ h.irp # 0 /\ Head(once) = h.irp THEN Append(Tail(once), h.irp) ELSE once

(* findChild: x is somewhere below a. *)
Below(t, x, a) ==
  LET up[k \in Keys] == t.par[k] # 0 /\ (t.par[k] = a \/ up[t.par[k]]) IN up[x]

Linked(t, c, p) == [t EXCEPT !.par[c] = p, !.kids[p] = <<c>> \o @]
Unlinked(t, c) ==
  IF t.par[c] = 0 THEN t
  ELSE [t EXCEPT !.par[c] = 0, !.kids[t.par[c]] = SelectSeq(@, LAMBDA k : k # c)]

(* The references of a message, each made the child of the one before      *)
(* unless it has a parent or the link would close a circle.                *)
Referred(t0, p, r) ==
  LET t == [t0 EXCEPT !.keys = @ \cup {r}]
      link == p # 0 /\ t.par[r] = 0 /\ p # r /\ ~Below(t, p, r) /\ ~Below(t, r, p)
  IN IF link THEN Linked(t, r, p) ELSE t

AllReferred(t1, refs) ==
  LET after[i \in 1..Len(refs)] ==
        IF i = 1 THEN t1 ELSE Referred(after[i - 1], refs[i - 1], refs[i])
  IN after[Len(refs)]

(* The table, the container of the message and what is its parent now. *)
Placed(t, c, last) ==
  [t |-> t, c |-> c, parent |-> IF last = c \/ (last # 0 /\ Below(t, last, c)) THEN 0 ELSE last]
Contained(t0, m, c, refs) ==
  Placed(AllReferred([t0 EXCEPT !.keys = @ \cup {c}, !.here[c] = m], refs), c, Last(refs))

(* Bug: the message stays below the parent it had. *)
MovedLinksTwice(s) == IF s.parent = 0 THEN Unlinked(s.t, s.c) ELSE Linked(s.t, s.c, s.parent)

(* The last reference is the parent now, whatever other messages said. *)
Moved(s) ==
  IF s.parent = 0 THEN Unlinked(s.t, s.c) ELSE Linked(Unlinked(s.t, s.c), s.c, s.parent)

buildContainer(t0, m) ==
  LET id == mail[m].id
  IN Moved(Contained(t0, m, IF id \in t0.keys /\ t0.here[id] # 0 THEN Bogus(m) ELSE id,
                     <<0>> \o References(m)))

RECURSIVE ToTree(_, _)
ToTree(t, k) ==
  [msg |-> t.here[k], kids |-> [i \in 1..Len(t.kids[k]) |-> ToTree(t, t.kids[k][i])]]

(* findRootSet: the roots in the order of a Go map, which is any.  Only    *)
(* gatherSubjects tells one order from another.                            *)
Ordered(roots) ==
  IF \A m \in Messages : mail[m].base = 0
  THEN {SelectSeq([i \in 1..Max(Keys) |-> i], LAMBDA k : k \in roots)} ELSE SetToSeqs(roots)
Trees(t) ==
  {[i \in 1..Len(s) |-> ToTree(t, s[i])] : s \in Ordered({k \in t.keys : t.par[k] = 0})}

RootSets(ms) ==
  LET built[i \in 0..Len(ms)] ==
        IF i = 0 THEN [keys |-> {}, here |-> [k \in Keys |-> 0], par |-> [k \in Keys |-> 0],
                       kids |-> [k \in Keys |-> <<>>]]
        ELSE buildContainer(built[i - 1], ms[i])
  IN Trees(built[Len(ms)])

(* pruneEmptyContainers: a container without a message goes; its children  *)
(* take its place, except several at the root.                             *)
RECURSIVE Pruned(_, _)
Pruned(list, atRoot) ==
  IF list = <<>> THEN <<>>
  ELSE LET c == Head(list)
           kids == Pruned(c.kids, FALSE)
       IN IF c.msg = 0 /\ c.kids # <<>> /\ (~atRoot \/ Len(c.kids) = 1)
          THEN Pruned(c.kids \o Tail(list), atRoot)
          ELSE (IF c.msg = 0 /\ kids = <<>> THEN <<>> ELSE <<[c EXCEPT !.kids = kids]>>)
               \o Pruned(Tail(list), atRoot)

RECURSIVE Reversed(_)
Reversed(list) ==
  Reverse([i \in 1..Len(list) |-> [list[i] EXCEPT !.kids = Reversed(@)]])

(* gatherSubjects: the roots of one subject become one.  The first kid     *)
(* stands for a dummy.                                                     *)
Representative(c) == IF c.msg # 0 THEN c.msg ELSE c.kids[1].msg
Reply(c) == c.msg # 0 /\ mail[c.msg].reply

Merged(old, c) ==
  IF old.msg = 0 /\ c.msg = 0 THEN [old EXCEPT !.kids = @ \o c.kids]
  ELSE IF old.msg = 0 \/ (Reply(c) /\ ~Reply(old)) THEN [old EXCEPT !.kids = <<c>> \o @]
  ELSE [msg |-> 0, kids |-> <<c, old>>]

GatheredOn(list, subject) ==
  LET group == SelectSeq([i \in 1..Len(list) |-> i],
                         LAMBDA i : mail[Representative(list[i])].base = subject)
      better(c, old) == \/ c.msg = 0 /\ old.msg # 0
                        \/ old.msg # 0 /\ Reply(old) /\ c.msg # 0 /\ ~Reply(c)
      keep == FoldLeft(LAMBDA k, i : IF better(list[i], list[k]) THEN i ELSE k,
                       Head(group), Tail(group))
      all == FoldLeft(LAMBDA t, i : IF i = keep THEN t ELSE Merged(t, list[i]),
                      list[keep], group)
      left == SelectSeq([i \in 1..Len(list) |-> i],
                        LAMBDA i : i = keep \/ ~Contains(group, i))
  IN [j \in 1..Len(left) |-> IF left[j] = keep THEN all ELSE list[left[j]]]

gatherSubjects(list) ==
  LET subjects == {mail[Representative(list[i])].base : i \in 1..Len(list)} \ {0}
  IN FoldSet(LAMBDA s, l : GatheredOn(l, s), list, subjects)

threadRoots(ms) == {gatherSubjects(Reversed(Pruned(r, TRUE))) : r \in RootSets(ms)}

-----------------------------------------------------------------------------
(* The builder. *)

Position(us, u) == IF u \in ToSet(us) THEN SelectInSeq(us, LAMBDA v : v = u) - 1 ELSE 0

(* The order of siblings: that of the list of UIDs, or of their dates. *)
Bigger(l, r, us) ==
  IF SortSiblings THEN Position(us, l.msg) > Position(us, r.msg)
  ELSE mail[l.msg].text > mail[r.msg].text

(* InsertCmp: a child goes behind those it is bigger than. *)
InsertCmp(kids, t, us) ==
  LET stop == SelectInSeq(kids, LAMBDA k : ~Bigger(t, k, us))
      at == IF stop = 0 THEN Len(kids) + 1 ELSE stop
  IN InsertAt(kids, at, t)

(* buildTree: children of a dummy are in reverse, others are sorted. *)
RECURSIVE buildTree(_, _, _)
buildTree(list, us, rootLevel) ==
  LET node(c) == [c EXCEPT !.kids = buildTree(@, us, c.msg = 0)]
  IN FoldLeft(LAMBDA kids, c : IF rootLevel THEN <<node(c)>> \o kids
                               ELSE InsertCmp(kids, node(c), us), <<>>, list)

RECURSIVE Walk(_)
Walk(list) ==
  IF list = <<>> THEN <<>>
  ELSE <<Head(list).msg>> \o Walk(Head(list).kids) \o Walk(Tail(list))

WalkOf(list) == SelectSeq(Walk(list), LAMBDA m : m # 0)

(* Threads, with SortThreadsBy: roots go by the last of their messages. *)
Threads(us, have) ==
  LET ms == SelectSeq(us, LAMBDA m : m \in have)
      bare(s) == [i \in 1..Len(s) |-> [msg |-> s[i], kids |-> <<>>]]
      last(t) == Max({Position(us, m) : m \in ToSet(WalkOf(<<t>>))} \cup {0})
      all(r) == bare(SelectSeq(us, LAMBDA m : m \notin have)) \o buildTree(r, us, TRUE)
  IN IF ms = <<>> THEN {bare(us)}
     ELSE {SortSeq(all(r), LAMBDA a, b : last(a) < last(b)) : r \in threadRoots(ms)}

(* RebuildUids: hidden and deleted messages keep their place in the tree.  *)
(* The list is read from its end.                                          *)
RebuildUids(f, hid, del) ==
  SelectSeq(Reverse(WalkOf(Reverse(f))), LAMBDA m : hid[m] = 0 /\ ~del[m])

(* The pairs <<above, below>> of a forest. *)
RECURSIVE Order(_)
Order(list) ==
  UNION {({list[i].msg} \X ToSet(WalkOf(list[i].kids))) \cup Order(list[i].kids) :
         i \in 1..Len(list)}

runThreadBuilderNow(us, have, del) ==
  /\ \E f \in Threads(us, have) :
       /\ forest' = f
       /\ known' = known \cup ToSet(us)
       /\ orphaned' = orphaned \cup {m \in Messages : hidden[m] > 0
            /\ \E a \in Messages : <<a, m>> \in Order(forest) \ Order(f)}
       /\ threadedUids' = RebuildUids(f, hidden, del)
  /\ due' = FALSE

RECURSIVE Subtrees(_)
Subtrees(list) == ToSet(list) \cup UNION {Subtrees(list[i].kids) : i \in 1..Len(list)}

ThreadOf(m) == CHOOSE t \in Subtrees(forest) : t.msg = m

-----------------------------------------------------------------------------
(* The message store. *)

Event == th_events < MaxEvents /\ th_events' = th_events + 1

Init ==
  /\ mail \in Mails
  /\ uids = SetToSortSeq(Messages, LAMBDA a, b : a < b)
  /\ blocks \in {Messages, Messages \ {Max(Messages)}}
  /\ forest \in Threads(uids, blocks)
  /\ known = Messages /\ hidden = [m \in Messages |-> 0] /\ gone = [m \in Messages |-> FALSE]
  /\ threadedUids = RebuildUids(forest, hidden, gone)
  /\ due = FALSE /\ orphaned = {} /\ revived = {} /\ th_events = 0

(* MessageInfo, the answer to a request for headers. *)
HeaderArrives ==
  /\ \E m \in ToSet(uids) \ blocks : blocks' = blocks \cup {m}
  /\ due' = TRUE
  /\ UNCHANGED <<mail, uids, forest, known, hidden, gone, threadedUids, orphaned, revived,
                 th_events>>

(* MessageInfo of a message that is new, at the index the worker gives. *)
insertUid ==
  /\ Event
  /\ \E m \in Messages \ ToSet(uids), index \in 0..Len(uids) :
       /\ uids' = IF index = 0 THEN Append(uids, m) ELSE InsertAt(uids, index + 1, m)
       /\ blocks' = blocks \cup {m}
       /\ revived' = IF gone[m] THEN revived \cup {m} ELSE revived
  /\ due' = TRUE
  /\ UNCHANGED <<mail, forest, known, hidden, gone, threadedUids, orphaned>>

MessagesDeleted ==
  /\ Event
  /\ \E m \in ToSet(uids) :
       /\ uids' = SelectSeq(uids, LAMBDA u : u # m)
       /\ gone' = [gone EXCEPT ![m] = @ \/ m \in known]
  /\ due' = TRUE
  /\ UNCHANGED <<mail, blocks, forest, known, hidden, threadedUids, orphaned, revived>>

(* The contents anew, in another order or of another set of messages. *)
DirectoryContents ==
  /\ Event
  /\ \E us \in SetToSeqs(ToSet(uids)) \cup
              {Append(uids, m) : m \in Messages \ ToSet(uids)} \cup
              {SelectSeq(uids, LAMBDA u : u # m) : m \in ToSet(uids)} :
       /\ uids' = us
       /\ revived' = revived \cup {m \in ToSet(us) : gone[m]}
       /\ runThreadBuilderNow(us, blocks, gone)
  /\ UNCHANGED <<mail, blocks, hidden, gone>>

(* The debounce timer. *)
runThreadBuilder ==
  /\ due
  /\ runThreadBuilderNow(uids, blocks, gone)
  /\ UNCHANGED <<mail, uids, blocks, hidden, gone, revived, th_events>>

(* :fold and :unfold of a message that is shown. *)
doThreadFolding(hide, toggle) ==
  /\ Event
  /\ \E u \in ToSet(threadedUids) :
       LET kids == ThreadOf(u).kids
           below == ToSet(WalkOf(kids))
           folded == hidden[Head(kids).msg] > 0
           more(h) == h + 1
           less(h) == IF h > 1 THEN h - 1 ELSE 0
           hides == IF toggle THEN ~folded ELSE hide
       IN /\ kids # <<>>
          /\ toggle \/ ~hide \/ ~folded
          /\ hidden' = [m \in Messages |-> IF m \notin below THEN hidden[m]
                                           ELSE IF hides THEN more(hidden[m]) ELSE less(hidden[m])]
  /\ threadedUids' = RebuildUids(forest, hidden', gone)
  /\ UNCHANGED <<mail, uids, blocks, forest, known, gone, due, orphaned, revived>>

Fold == \E toggle \in BOOLEAN : doThreadFolding(TRUE, toggle)
Unfold == doThreadFolding(FALSE, FALSE)

Next ==
  \/ HeaderArrives \/ insertUid \/ MessagesDeleted \/ DirectoryContents \/ runThreadBuilder
  \/ Fold \/ Unfold

Spec == Init /\ [][Next]_thVars

-----------------------------------------------------------------------------
(* However the references contradict each other, and whatever the order of *)
(* the map of containers, each message of the directory is in one place.   *)
EachOnce ==
  /\ IsInjective(WalkOf(forest))
  /\ ~due => ToSet(WalkOf(forest)) = ToSet(uids)

(* References that agree (no message has two parents, each message one ID, *)
(* the last reference of a message its parent, and one without references  *)
(* is nobody's child) tell the threads: a message goes below its nearest   *)
(* ancestor that is here.                                                  *)
Here == {m \in ToSet(uids) : m \in blocks}

Links ==
  UNION {LET chain == Append(mail[m].refs, mail[m].id)
         IN {<<chain[i], chain[i + 1]>> : i \in 1..(Len(chain) - 1)} : m \in Here}

AncestorIds(id) ==
  LET up[n \in 0..Cardinality(Ids)] ==
        IF n = 0 THEN {l[1] : l \in {k \in Links : k[2] = id}}
        ELSE up[n - 1] \cup {l[1] : l \in {k \in Links : k[2] \in up[n - 1]}}
  IN up[Cardinality(Ids)]

Agree ==
  /\ \A k, l \in Links : k[2] = l[2] => k = l
  /\ \A id \in Ids : id \notin AncestorIds(id)
  /\ \A m, n \in Here : mail[m].id = mail[n].id => m = n
  /\ \A m \in Here : /\ mail[m].base = 0 /\ mail[m].irp \in {0} \cup ToSet(mail[m].refs)
                     /\ mail[m].refs = <<>> => \A k \in Links : k[2] # mail[m].id
                     /\ mail[m].irp # 0 => Last(mail[m].refs) = mail[m].irp

NearestAncestor ==
  (~due /\ Agree) =>
    \A m, n \in Here :
      <<m, n>> \in Order(forest) <=> mail[m].id \in AncestorIds(mail[n].id)

(* A hidden message is below one that is shown, so that it can be          *)
(* unfolded.  Excused are messages hidden when one above them left or the  *)
(* threads changed, and those that came back with the mark of a deletion.  *)
Reachable ==
  ~due => \A m \in ToSet(uids) \ (orphaned \cup revived) :
            \/ m \in ToSet(threadedUids)
            \/ \E a \in ToSet(threadedUids) : <<a, m>> \in Order(forest)

ThreadsRight == EachOnce /\ NearestAncestor /\ Reachable
=============================================================================
