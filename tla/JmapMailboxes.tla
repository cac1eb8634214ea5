--------------------------- MODULE JmapMailboxes ---------------------------
(***************************************************************************)
(* The mailboxes of a JMAP account: the tree at the server, the cached     *)
(* mailboxes, list and state (worker/jmap/cache), the worker's maps        *)
(* mboxes, mbox2dir and dir2mbox (worker.go), and the directories the user *)
(* sees, as ListDirectories (directories.go) and the pushes (push.go)      *)
(* leave them. Mailboxes have no role here.                                *)
(***************************************************************************)
EXTENDS Integers, Sequences, FiniteSets, SequencesExt, Functions

CONSTANTS
  Ids,          \* of mailboxes; their parents have smaller ones
  MailboxNames, \* names of mailboxes
  FirstTree,    \* the mailboxes at first
  MaxTrees,     \* bound on the changes at the server
  MaxRestarts

VARIABLES
  trees,      \* all states of the server: [name, parent] of each mailbox, name "" for none
  mail_pushes,\* state changes to be delivered
  c_mailbox,  \* cached mailboxes
  c_list,     \* cached list of mailboxes, {} for none
  c_state,    \* cached mailbox state, 0 for ""
  mboxes, mbox2dir, dir2mbox,   \* the worker's maps
  directories,\* what the user sees
  phase,      \* "down", "connected" or "listed", when ListDirectories has been answered
  unheard,    \* history: mailboxes have changed of which no push has come or will come
  restarts,
  confusion   \* history: what has set the maps and the server apart

vars == <<trees, mail_pushes, c_mailbox, c_list, c_state, mboxes, mbox2dir, dir2mbox,
          directories, phase, unheard, restarts, confusion>>

top == Len(trees)
NoMailbox == [name |-> "", parent |-> 0]
Exist(tree) == {i \in Ids : tree[i].name # ""}

(* MailboxPath: a parent the worker does not know is left out. *)
PathIn(tree) ==
  LET path[i \in {0} \cup Ids] ==
        IF i = 0 \/ tree[i].name = "" THEN <<>> ELSE Append(path[tree[i].parent], tree[i].name)
  IN path

Without(f, S) == Restrict(f, DOMAIN f \ S)

Init ==
  /\ trees = <<FirstTree>>
  /\ mail_pushes = <<>>
  /\ c_mailbox = [i \in Ids |-> NoMailbox] /\ c_list = {} /\ c_state = 0
  /\ mboxes = [i \in Ids |-> NoMailbox] /\ mbox2dir = <<>> /\ dir2mbox = <<>>
  /\ directories = {}
  /\ phase = "down" /\ unheard = FALSE
  /\ restarts = 0 /\ confusion = {}

-----------------------------------------------------------------------------
(* The server, changed by other clients or by CreateDirectory and          *)
(* RemoveDirectory, which leave the maps to the push.                      *)

Siblings(tree, i) == {tree[j].name : j \in {j \in Exist(tree) \ {i} : tree[j].parent = tree[i].parent}}
Sound(tree) ==
  \A i \in Exist(tree) :
    /\ tree[i].parent = 0 \/ tree[i].parent \in Exist(tree)
    /\ tree[i].name \notin Siblings(tree, i)

(* Nothing is pushed while aerc is not connected, or in the five seconds after Listen fails. *)
ServerSets(i, mailbox, heard) ==
  /\ top < MaxTrees /\ (heard => phase # "down")
  /\ mailbox # trees[top][i]
  /\ LET tree == [trees[top] EXCEPT ![i] = mailbox]
     IN Sound(tree) /\ trees' = Append(trees, tree)
  /\ mail_pushes' = IF heard THEN Append(mail_pushes, top + 1) ELSE mail_pushes
  /\ unheard' = (unheard \/ ~heard)
  /\ UNCHANGED <<c_mailbox, c_list, c_state, mboxes, mbox2dir, dir2mbox, directories, phase,
                 restarts, confusion>>

-----------------------------------------------------------------------------
(* addMbox and deleteMbox, on the record [mboxes, mbox2dir, dir2mbox, dirs]. *)

addMbox(m, i, mailbox) ==
  LET boxes == [m.mboxes EXCEPT ![i] = mailbox]
      dir == PathIn(boxes)[i]
  IN [mboxes |-> boxes,
      mbox2dir |-> [d \in DOMAIN m.mbox2dir \cup {i} |-> IF d = i THEN dir ELSE m.mbox2dir[d]],
      dir2mbox |-> [d \in DOMAIN m.dir2mbox \cup {dir} |-> IF d = dir THEN i ELSE m.dir2mbox[d]],
      dirs |-> m.dirs]

deleteMbox(m, i) ==
  LET named == {d \in DOMAIN m.dir2mbox : m.dir2mbox[d] = i}
      dir == IF named = {} THEN {} ELSE {CHOOSE d \in named : TRUE}
  IN [m EXCEPT !.mboxes[i] = NoMailbox, !.mbox2dir = Without(@, {i}), !.dir2mbox = Without(@, dir)]

Hide(m, i) ==
  [m EXCEPT !.dirs = IF i \in DOMAIN m.mbox2dir THEN @ \ {m.mbox2dir[i]} ELSE @]

(* A mailbox of Mailbox/get: renamed, updated or new. *)
Updated(m, i, mailbox) ==
  IF m.mboxes[i].name = mailbox.name
  THEN [m EXCEPT !.mboxes[i] = mailbox]
  ELSE LET n == IF m.mboxes[i] = NoMailbox THEN m ELSE deleteMbox(Hide(m, i), i)
           added == addMbox(n, i, mailbox)
       IN [added EXCEPT !.dirs = @ \cup {added.mbox2dir[i]}]

Maps == [mboxes |-> mboxes, mbox2dir |-> mbox2dir, dir2mbox |-> dir2mbox, dirs |-> directories]

Becomes(m) ==
  /\ mboxes' = m.mboxes /\ mbox2dir' = m.mbox2dir /\ dir2mbox' = m.dir2mbox
  /\ directories' = m.dirs

(* handleConnect starts to listen; the directories are listed later. *)
Connect ==
  /\ phase = "down" /\ phase' = "connected"
  /\ UNCHANGED <<trees, mail_pushes, c_mailbox, c_list, c_state, mboxes, mbox2dir, dir2mbox,
                 directories, unheard, restarts, confusion>>

(* handleListDirectories: from the cache when it has a state and every mailbox of its list. *)
ListDirectories ==
  /\ phase = "connected" /\ phase' = "listed"
  /\ LET missing == {i \in c_list : c_mailbox[i] = NoMailbox}
         asks == c_state = 0 \/ missing # {}
         tree == IF asks THEN trees[top]
                 ELSE [i \in Ids |-> IF i \in c_list THEN c_mailbox[i] ELSE NoMailbox]
     IN /\ tree # [i \in Ids |-> NoMailbox]
        /\ c_mailbox' = IF asks THEN [i \in Ids |-> IF i \in Exist(tree) THEN tree[i]
                                                    ELSE c_mailbox[i]]
                        ELSE c_mailbox
        /\ c_list' = IF asks THEN Exist(tree) ELSE c_list
        /\ c_state' = IF asks THEN top ELSE c_state
        /\ LET start == [Maps EXCEPT !.mboxes = tree]
               filled == FoldSet(LAMBDA i, m : addMbox(m, i, tree[i]), start, Exist(tree))
           IN Becomes([filled EXCEPT !.dirs = {filled.mbox2dir[i] : i \in Exist(tree)}])
        /\ unheard' = (unheard /\ ~asks)
        /\ confusion' = IF asks \/ c_list = Exist(trees[c_state]) THEN confusion
                        ELSE confusion \cup {"list"}
  /\ UNCHANGED <<trees, mail_pushes, restarts>>

(* handleChange: what was destroyed, created and updated since the cached state, the last two
   in any order each; also before the directories are listed, into empty maps. *)
HandleChange(order) ==
  /\ phase # "down" /\ mail_pushes # <<>> /\ mail_pushes' = Tail(mail_pushes)
  /\ IF c_state \in {0, Head(mail_pushes)}
     THEN UNCHANGED <<c_mailbox, c_state, mboxes, mbox2dir, dir2mbox, directories, unheard,
                      confusion>>
     ELSE LET old == trees[c_state]
              new == trees[top]
              destroyed == Exist(old) \ Exist(new)
              created == Exist(new) \ Exist(old)
              updated == {i \in Exist(old) \cap Exist(new) :
                            \E k \in (c_state + 1)..top : trees[k][i] # trees[k - 1][i]}
              InOrder(S) == SelectSeq(order, LAMBDA i : i \in S)
              gone == FoldLeft(LAMBDA m, i : deleteMbox(Hide(m, i), i), Maps, InOrder(destroyed))
              got == InOrder(created) \o InOrder(updated)
              told == FoldLeft(LAMBDA m, i : Updated(m, i, new[i]), gone, got)
          IN /\ Becomes(told)
             /\ c_mailbox' = [i \in Ids |-> IF i \in destroyed THEN NoMailbox
                                            ELSE IF i \in ToSet(got) THEN new[i]
                                            ELSE c_mailbox[i]]
             /\ c_state' = top
             /\ unheard' = FALSE
             /\ confusion' = confusion
                  \cup (IF phase = "connected" /\ got # <<>> THEN {"early"} ELSE {})
                  \cup {"orphan" : i \in {i \in created : \E n \in 1..Len(got), j \in created :
                                           new[i].parent = j /\ got[n] = j
                                           /\ i \in ToSet(SubSeq(got, 1, n))}}
                  \cup {"moved" : i \in {i \in updated : new[i].parent # old[i].parent}}
                  \cup {"renamed" : i \in {i \in updated : \E j \in Ids : i \in {old[j].parent, new[j].parent}}}
                  \cup {"reused" : i \in {i \in created \cup updated :
                                           \E j \in Exist(old) \ {i} :
                                             PathIn(old)[j] = PathIn(new)[i]}}
  /\ UNCHANGED <<trees, c_list, phase, restarts>>

(* aerc ends and starts again; with cache-state the cache is what it was, however old. What
   had been pushed and not handled is forgotten. *)
Restart(cacheState) ==
  /\ restarts < MaxRestarts /\ restarts' = restarts + 1
  /\ phase' = "down"
  /\ mail_pushes' = <<>> /\ unheard' = (unheard \/ mail_pushes # <<>>)
  /\ mboxes' = [i \in Ids |-> NoMailbox] /\ mbox2dir' = <<>> /\ dir2mbox' = <<>>
  /\ directories' = {}
  /\ IF cacheState THEN UNCHANGED <<c_mailbox, c_list, c_state>>
     ELSE c_mailbox' = [i \in Ids |-> NoMailbox] /\ c_list' = {} /\ c_state' = 0
  /\ UNCHANGED <<trees, confusion>>

Orders == SetToSeqs(Ids)
Mailboxes == [name : MailboxNames, parent : {0} \cup Ids]

Next ==
  \/ \E i \in Ids, mailbox \in Mailboxes \cup {NoMailbox} :
       mailbox.parent < i /\ \E heard \in BOOLEAN : ServerSets(i, mailbox, heard)
  \/ Connect \/ ListDirectories \/ \E order \in Orders : HandleChange(order)
  \/ \E cacheState \in BOOLEAN : Restart(cacheState)

Spec == Init /\ [][Next]_vars

-----------------------------------------------------------------------------
(* When every push has been handled, the user sees a directory for every mailbox of the state
   that is cached, under its path, and the name of each, and no other, leads to its own mailbox
   (getMbox, worker/jmap/directories.go:126): unless a restart read a list that pushes do not
   keep, or a push came before the list, brought a child before its parent, moved a mailbox,
   renamed a parent, or gave a mailbox the old name of another. That state is the server's,
   unless mailboxes changed while nobody listened and no push has come since
   (directories.go:26-45 asks for nothing when the cache has a state). *)
DirectoriesRight ==
  phase = "listed" /\ mail_pushes = <<>> /\ confusion = {} =>
    LET tree == trees[c_state]
    IN /\ c_state = top \/ unheard
       /\ directories = {PathIn(tree)[i] : i \in Exist(tree)}
       /\ DOMAIN dir2mbox = directories
       /\ \A i \in Exist(tree) : dir2mbox[PathIn(tree)[i]] = i /\ mboxes[i] = tree[i]
=============================================================================
