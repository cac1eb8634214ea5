--------------------------- MODULE InterfaceProofs ---------------------------
(***************************************************************************)
(* The user interface, for all messages, tabs and bounds: marks are what   *)
(* the user marked and results are in the list; the focus is in one place, *)
(* the history leads to open tabs, and pins come first; bodies that are    *)
(* waited for come, and the viewer follows the selection; a message that   *)
(* is sent is somewhere, and :quit knows; whoever asks another process is  *)
(* answered, and commands run once.                                        *)
(***************************************************************************)
EXTENDS Interface, SequenceTheorems, FiniteSetTheorems, TLAPS

-----------------------------------------------------------------------------

(* Lists without some of their elements. *)

(* Every position of a finite set is the n-th for one n: the number of those up to it is an
   injection of the set into an interval of its size. *)
LEMMA NthRight ==
  ASSUME NEW S, S \subseteq Nat, IsFiniteSet(S)
  PROVE  /\ Cardinality(S) \in Nat
         /\ \A n \in 1..Cardinality(S) : Nth(S, n) \in S
         /\ \A u \in S : \E n \in 1..Cardinality(S) : Nth(S, n) = u
         /\ \A n \in 1..Cardinality(S) : Cardinality({v \in S : v <= Nth(S, n)}) = n
<1> DEFINE Upto(u) == {v \in S : v <= u}
           rank == [u \in S |-> Cardinality(Upto(u))]
           size == Cardinality(S)
<1>1. size \in Nat
  BY FS_CardinalityType
<1>2. ASSUME NEW u \in S
      PROVE  IsFiniteSet(Upto(u)) /\ Cardinality(Upto(u)) \in 1..size
  <2>1. Upto(u) \in SUBSET S /\ u \in Upto(u)
    OBVIOUS
  <2>2. IsFiniteSet(Upto(u)) /\ Cardinality(Upto(u)) <= size
    BY <2>1, FS_Subset
  <2>3. Cardinality(Upto(u)) \in Nat /\ Cardinality(Upto(u)) # 0
    BY <2>1, <2>2, FS_CardinalityType, FS_EmptySet
  <2> QED
    BY <1>1, <2>2, <2>3
<1>3. ASSUME NEW u \in S, NEW w \in S, u < w
      PROVE  Cardinality(Upto(u)) < Cardinality(Upto(w))
  <2>a. /\ \A v \in S : v <= u => v <= w
        /\ w <= w /\ ~(w <= u)
    BY <1>3
  <2>1. Upto(u) \in SUBSET Upto(w) /\ w \in Upto(w) /\ w \notin Upto(u)
    BY <2>a, Zenon
  <2>2. Cardinality(Upto(u)) <= Cardinality(Upto(w)) /\ Cardinality(Upto(u)) # Cardinality(Upto(w))
    BY <1>2, <2>1, FS_Subset
  <2> QED
    BY <1>1, <1>2, <2>2
<1>4. rank \in Injection(S, 1..size)
  <2>1. rank \in [S -> 1..size]
    BY <1>2
  <2>2. \A u, w \in S : rank[u] = rank[w] => u = w
    <3>1. \A u, w \in S : u < w \/ w < u \/ u = w
      OBVIOUS
    <3> QED
      BY <1>1, <1>2, <1>3, <3>1
  <2> QED
    BY <2>1, <2>2 DEF Injection, IsInjective
<1>5. rank \in Surjection(S, 1..size)
  BY <1>1, <1>4, FS_Injection, FS_Interval
<1>6. ASSUME NEW n \in 1..size
      PROVE  Nth(S, n) \in S /\ rank[Nth(S, n)] = n
  <2>1. \E u \in S : Cardinality(Upto(u)) = n
    BY <1>5 DEF Surjection
  <2> QED
    BY <2>1 DEF Nth
<1>7. ASSUME NEW u \in S
      PROVE  \E n \in 1..size : Nth(S, n) = u
  <2>1. rank[u] \in 1..size
    BY <1>2
  <2>2. Nth(S, rank[u]) \in S /\ rank[Nth(S, rank[u])] = rank[u]
    BY <1>6, <2>1
  <2> QED
    BY <1>4, <2>1, <2>2 DEF Injection, IsInjective
<1> QED
  BY <1>1, <1>6, <1>7

LEMMA RangePicked ==
  ASSUME NEW X, NEW c \in Seq(X), NEW S \in SUBSET DOMAIN c
  PROVE  /\ Picked(c, S) \in Seq(X)
         /\ ToSet(Picked(c, S)) = {c[i] : i \in S}
<1> DEFINE p == Picked(c, S)
<1>1. S \subseteq Nat /\ S \in SUBSET (1..Len(c)) /\ Len(c) \in Nat
  OBVIOUS
<1>2. IsFiniteSet(S)
  BY <1>1, FS_Interval, FS_Subset
<1>3. /\ Cardinality(S) \in Nat
      /\ \A n \in 1..Cardinality(S) : Nth(S, n) \in S
      /\ \A u \in S : \E n \in 1..Cardinality(S) : Nth(S, n) = u
  BY <1>1, <1>2, NthRight
<1>4. p = [n \in 1..Cardinality(S) |-> c[Nth(S, n)]]
  BY DEF Picked
<1> HIDE DEF p
<1>5. \A i \in S : c[i] \in X
  OBVIOUS
<1>6. p \in Seq(X)
  BY <1>3, <1>4, <1>5
<1>7. ASSUME NEW x \in ToSet(p) PROVE \E i \in S : x = c[i]
  <2>1. PICK n \in DOMAIN p : x = p[n]
    BY DEF ToSet
  <2> QED
    BY <1>3, <1>4, <2>1
<1>8. ASSUME NEW i \in S PROVE c[i] \in ToSet(p)
  <2>1. PICK n \in 1..Cardinality(S) : Nth(S, n) = i
    BY <1>3
  <2>2. n \in DOMAIN p /\ p[n] = c[i]
    BY <1>4, <2>1
  <2> QED
    BY <2>2 DEF ToSet
<1>9. ToSet(p) = {c[i] : i \in S}
  BY <1>7, <1>8
<1> QED
  BY <1>6, <1>9 DEF p

LEMMA WithoutThose ==
  ASSUME NEW X, NEW c \in Seq(X), NEW S
  PROVE  /\ Without(c, S) \in Seq(X)
         /\ ToSet(Without(c, S)) = ToSet(c) \ S
         /\ Those(c, S) \in Seq(X)
         /\ ToSet(Those(c, S)) = ToSet(c) \cap S
<1>1. PICK out \in SUBSET DOMAIN c : out = {i \in DOMAIN c : c[i] \notin S}
  OBVIOUS
<1>2. PICK in \in SUBSET DOMAIN c : in = {i \in DOMAIN c : c[i] \in S}
  OBVIOUS
<1>3. Without(c, S) = Picked(c, out) /\ Those(c, S) = Picked(c, in)
  BY <1>1, <1>2 DEF Without, Those
<1>4. {c[i] : i \in out} = ToSet(c) \ S
  BY <1>1 DEF ToSet
<1>5. {c[i] : i \in in} = ToSet(c) \cap S
  BY <1>2 DEF ToSet
<1>6. /\ Picked(c, out) \in Seq(X)
      /\ ToSet(Picked(c, out)) = {c[i] : i \in out}
  BY RangePicked
<1>7. /\ Picked(c, in) \in Seq(X)
      /\ ToSet(Picked(c, in)) = {c[i] : i \in in}
  BY RangePicked
<1> QED
  BY <1>3, <1>4, <1>5, <1>6, <1>7

(* Selection has these operators too. *)
LEMMA MarksLists ==
  /\ \A S : Marks!Cardinality(S) = Cardinality(S)
  /\ \A S, n : Marks!Nth(S, n) = Nth(S, n)
  /\ \A c, S : Marks!Without(c, S) = Without(c, S) /\ Marks!Those(c, S) = Those(c, S)
  /\ \A c : Marks!ToSet(c) = ToSet(c)
<1>1. \A S : Marks!Cardinality(S) = Cardinality(S)
  BY DEF Marks!Cardinality, Cardinality
<1>2. \A S, n : Marks!Nth(S, n) = Nth(S, n)
  BY <1>1 DEF Marks!Nth, Nth
<1>3. \A c, S : Marks!Picked(c, S) = Picked(c, S)
  BY <1>1, <1>2 DEF Marks!Picked, Picked
<1>4. \A c, S : Marks!Without(c, S) = Without(c, S) /\ Marks!Those(c, S) = Those(c, S)
  BY <1>3 DEF Marks!Without, Without, Marks!Those, Those
<1>5. \A c : Marks!ToSet(c) = ToSet(c)
  BY DEF Marks!ToSet, ToSet
<1> QED
  BY <1>1, <1>2, <1>4, <1>5

-----------------------------------------------------------------------------
(* Selection: marks. *)

(* As long as nothing led the marks astray they are those the user means, the
   remembered ones too, and the visual mode started where the user started it. *)
MarksKept ==
  marks_astray = {} =>
    /\ mc.marked = meant /\ mc.lastMarked = meantLast
    /\ mc.shared => mc.lastMarked = mc.marked
    /\ mc.visual <=> session # Marks!NoSession
    /\ mc.visual => mc.start = session.start /\ mc.base = session.base

MarkerShape ==
  /\ mc = [marked |-> mc.marked, lastMarked |-> mc.lastMarked, shared |-> mc.shared,
           visual |-> mc.visual, start |-> mc.start, base |-> mc.base]
  /\ mc.shared \in BOOLEAN /\ mc.visual \in BOOLEAN

ListsShown ==
  /\ marks_uids \in Seq(ListUids) /\ results \in Seq(ListUids)
  /\ Marks!ResultsShown

MarksIInv == MarkerShape /\ MarksKept /\ ListsShown

(* A selection changes the marker and what is meant alike. *)
LEMMA Follows ==
  ASSUME MarkerShape, MarksKept, marks_astray = {}, NEW us, NEW u,
         mc' = Marks!UpdateVisualMark(mc, us, u), Marks!Selecting(us, u),
         marks_astray' = {}
  PROVE  MarkerShape' /\ MarksKept'
<1>1. CASE ~mc.visual
  <2>1. mc' = mc /\ meant' = meant /\ meantLast' = meantLast /\ session' = session
    BY <1>1 DEF Marks!UpdateVisualMark, Marks!Selecting
  <2> QED
    BY <2>1 DEF MarkerShape, MarksKept
<1>2. CASE mc.visual
  <2>1. /\ mc.marked = meant /\ mc.lastMarked = meantLast /\ session # Marks!NoSession
        /\ mc.start = session.start /\ mc.base = session.base
    BY <1>2 DEF MarksKept
  <2>2. CASE mc.start \notin Marks!ToSet(us)
    <3>1. mc' = Marks!ClearVisualMark(mc)
      BY <1>2, <2>2 DEF Marks!UpdateVisualMark
    <3>2. /\ mc'.marked = {} /\ mc'.lastMarked = mc.marked /\ mc'.shared = FALSE
          /\ mc'.visual = FALSE /\ MarkerShape'
      BY <3>1 DEF Marks!ClearVisualMark, Marks!resetMark, MarkerShape
    <3>3. meantLast' = meant /\ meant' = {} /\ session' = Marks!NoSession
      BY <1>2, <2>1, <2>2 DEF Marks!Selecting, Marks!Forgets
    <3> QED
      BY <2>1, <3>2, <3>3 DEF MarksKept
  <2>3. CASE mc.start \in Marks!ToSet(us) /\ u \notin Marks!ToSet(us)
    <3>1. mc' = mc /\ meant' = meant /\ meantLast' = meantLast /\ session' = session
      BY <1>2, <2>1, <2>3 DEF Marks!UpdateVisualMark, Marks!Selecting
    <3> QED
      BY <3>1 DEF MarkerShape, MarksKept
  <2>4. CASE mc.start \in Marks!ToSet(us) /\ u \in Marks!ToSet(us)
    <3>1. mc' = [mc EXCEPT !.marked = mc.base \cup Marks!Between(us, mc.start, u),
                           !.shared = FALSE]
      BY <1>2, <2>4 DEF Marks!UpdateVisualMark
    <3>2. /\ mc'.marked = mc.base \cup Marks!Between(us, mc.start, u)
          /\ mc'.lastMarked = mc.lastMarked /\ mc'.shared = FALSE /\ mc'.visual = mc.visual
          /\ mc'.start = mc.start /\ mc'.base = mc.base /\ MarkerShape'
      BY <3>1 DEF MarkerShape
    <3>3. /\ meant' = session.base \cup Marks!Between(us, session.start, u)
          /\ meantLast' = meantLast /\ session' = session
      BY <1>2, <2>1, <2>4 DEF Marks!Selecting
    <3> QED
      BY <1>2, <2>1, <3>2, <3>3 DEF MarksKept
  <2> QED
    BY <2>2, <2>3, <2>4
<1> QED
  BY <1>1, <1>2 DEF MarkerShape

LEMMA ShapeFollows ==
  ASSUME MarkerShape, NEW us, NEW u, mc' = Marks!UpdateVisualMark(mc, us, u)
  PROVE  MarkerShape'
BY DEF MarkerShape, Marks!UpdateVisualMark, Marks!ClearVisualMark, Marks!resetMark

MarksHeld == MarkerShape /\ MarksKept

LEMMA FollowsHeld ==
  ASSUME MarksHeld, NEW us, NEW u, mc' = Marks!UpdateVisualMark(mc, us, u),
         Marks!Selecting(us, u), marks_astray' = marks_astray
  PROVE  MarksHeld'
<1>1. MarkerShape'
  BY ShapeFollows DEF MarksHeld
<1>2. CASE marks_astray = {}
  BY <1>2, Follows DEF MarksHeld
<1>3. CASE marks_astray # {}
  BY <1>1, <1>3 DEF MarksHeld, MarksKept
<1> QED
  BY <1>2, <1>3

LEMMA SelectHeld ==
  ASSUME MarksHeld, NEW us, NEW u, Marks!Select(us, u), marks_astray' = marks_astray
  PROVE  MarksHeld'
BY FollowsHeld DEF Marks!Select

LEMMA MarksRest ==
  ASSUME MarksHeld, mc' = mc, meant' = meant, meantLast' = meantLast, session' = session,
         marks_astray' = marks_astray
  PROVE  MarksHeld'
BY DEF MarksHeld, MarkerShape, MarksKept

(* :mark, :unmark and their like, outside of the visual mode. *)
LEMMA MarksHeldNew ==
  ASSUME MarksHeld, ~mc.visual, NEW new, mc' = Marks!Marks(mc, new),
         marks_astray = {} => meant' = new,
         Marks!Shares(new), meantLast' = meantLast, session' = session
  PROVE  MarksHeld'
<1>1. /\ mc'.marked = new /\ mc'.lastMarked = (IF mc.shared THEN new ELSE mc.lastMarked)
      /\ mc'.shared = mc.shared /\ mc'.visual = mc.visual
      /\ MarkerShape'
  BY DEF Marks!Marks, MarksHeld, MarkerShape
<1>2. ASSUME marks_astray' = {} PROVE MarksKept'
  <2>1. marks_astray = {} /\ (mc.shared => new = mc.marked)
    BY <1>2 DEF Marks!Shares
  <2>2. /\ mc.marked = meant /\ mc.lastMarked = meantLast
        /\ mc.shared => mc.lastMarked = mc.marked
        /\ session = Marks!NoSession
    BY <2>1 DEF MarksHeld, MarksKept
  <2>3. mc'.lastMarked = meantLast' /\ (mc'.shared => mc'.lastMarked = mc'.marked)
    BY <1>1, <2>1, <2>2
  <2>4. mc'.marked = meant' /\ ~mc'.visual /\ session' = Marks!NoSession
    BY <1>1, <2>1, <2>2
  <2> QED
    BY <2>3, <2>4 DEF MarksKept
<1> QED
  BY <1>1, <1>2 DEF MarksHeld, MarksKept

LEMMA MarkHeld == ASSUME MarksHeld, Marks!Mark PROVE MarksHeld'
<1>1. PICK us : /\ mc' = Marks!Marks(mc, mc.marked \cup us) /\ meant' = meant \cup us
                /\ Marks!Shares(mc.marked \cup us)
  BY DEF Marks!Mark
<1>2. ~mc.visual /\ meantLast' = meantLast /\ session' = session
  BY DEF Marks!Mark
<1>3. marks_astray = {} => meant' = mc.marked \cup us
  BY <1>1 DEF MarksHeld, MarksKept
<1> QED
  BY <1>1, <1>2, <1>3, MarksHeldNew

LEMMA ToggleMarkHeld == ASSUME MarksHeld, Marks!ToggleMark PROVE MarksHeld'
<1>1. PICK us : /\ mc' = Marks!Marks(mc, Marks!SymDiff(mc.marked, us))
                /\ meant' = Marks!SymDiff(meant, us)
                /\ Marks!Shares(Marks!SymDiff(mc.marked, us))
  BY DEF Marks!ToggleMark
<1>2. ~mc.visual /\ meantLast' = meantLast /\ session' = session
  BY DEF Marks!ToggleMark
<1>3. marks_astray = {} => meant' = Marks!SymDiff(mc.marked, us)
  BY <1>1 DEF MarksHeld, MarksKept
<1> QED
  BY <1>1, <1>2, <1>3, MarksHeldNew

(* The marks are cleared and remembered. *)
LEMMA Cleared ==
  ASSUME MarkerShape, marks_astray' = {} => marks_astray = {},
         NEW last, mc' = [Marks!ClearVisualMark(mc) EXCEPT !.lastMarked = last],
         marks_astray = {} => meantLast' = last,
         meant' = {}, session' = Marks!NoSession
  PROVE  MarksHeld'
<1>1. /\ mc'.marked = {} /\ mc'.lastMarked = last /\ mc'.shared = FALSE /\ mc'.visual = FALSE
      /\ MarkerShape'
  BY DEF Marks!ClearVisualMark, Marks!resetMark, MarkerShape
<1> QED
  BY <1>1 DEF MarksHeld, MarksKept

LEMMA UnmarkHeld == ASSUME MarksHeld, Marks!Unmark PROVE MarksHeld'
<1>1. CASE mc.visual
  <2>1. /\ mc' = Marks!ClearVisualMark(mc)
        /\ meantLast' = meant /\ meant' = {} /\ session' = Marks!NoSession
        /\ marks_astray' = marks_astray
    BY <1>1 DEF Marks!Unmark, Marks!Forgets
  <2>2. mc' = [Marks!ClearVisualMark(mc) EXCEPT !.lastMarked = mc.marked]
    BY <2>1 DEF Marks!ClearVisualMark, Marks!resetMark, MarksHeld, MarkerShape
  <2>3. marks_astray = {} => meantLast' = mc.marked
    BY <2>1 DEF MarksHeld, MarksKept
  <2>4. MarkerShape
    BY DEF MarksHeld
  <2> QED
    BY <2>1, <2>2, <2>3, <2>4, Cleared
<1>2. CASE ~mc.visual
  <2>1. PICK us : /\ mc' = Marks!Marks(mc, mc.marked \ us) /\ meant' = meant \ us
                  /\ Marks!Shares(mc.marked \ us) /\ meantLast' = meantLast /\ session' = session
    BY <1>2 DEF Marks!Unmark
  <2>2. marks_astray = {} => meant' = mc.marked \ us
    BY <2>1 DEF MarksHeld, MarksKept
  <2> QED
    BY <1>2, <2>1, <2>2, MarksHeldNew
<1> QED
  BY <1>1, <1>2

LEMMA ActOnMarkedHeld == ASSUME MarksHeld, Marks!ActOnMarked PROVE MarksHeld'
<1> DEFINE left == mc.marked \cap Marks!ToSet(marks_uids)
<1>1. /\ mc' = Marks!ClearVisualMark(Marks!Marks(mc, left))
      /\ meantLast' = meant \cap Marks!ToSet(marks_uids)
      /\ meant' = {} /\ session' = Marks!NoSession /\ marks_astray' = marks_astray
  BY DEF Marks!ActOnMarked
<1>2. mc' = [Marks!ClearVisualMark(mc) EXCEPT !.lastMarked = left]
  <2> HIDE DEF left
  <2> QED
    BY <1>1 DEF Marks!ClearVisualMark, Marks!resetMark, Marks!Marks, MarksHeld, MarkerShape
<1>3. marks_astray = {} => meantLast' = left
  BY <1>1 DEF MarksHeld, MarksKept
<1>4. MarkerShape
  BY DEF MarksHeld
<1> HIDE DEF left
<1> QED
  BY <1>1, <1>2, <1>3, <1>4, Cleared

LEMMA RemarkHeld == ASSUME MarksHeld, Marks!Remark PROVE MarksHeld'
<1>1. /\ mc' = [mc EXCEPT !.marked = mc.lastMarked, !.shared = TRUE] /\ meant' = meantLast
      /\ meantLast' = meantLast /\ session' = session /\ marks_astray' = marks_astray
  BY DEF Marks!Remark
<1>2. /\ mc'.marked = mc.lastMarked /\ mc'.lastMarked = mc.lastMarked /\ mc'.visual = mc.visual
      /\ mc'.start = mc.start /\ mc'.base = mc.base /\ MarkerShape'
  BY <1>1 DEF MarksHeld, MarkerShape
<1> QED
  BY <1>1, <1>2 DEF MarksHeld, MarksKept

(* :mark -v and -V. *)
LEMMA VisualHeld == ASSUME MarksHeld, Marks!Visual PROVE MarksHeld'
<1>1. PICK clear \in BOOLEAN :
        LET before == IF clear THEN {} ELSE meant
            here == {selected} \cap Marks!ToSet(marks_uids)
        IN /\ mc' = Marks!ToggleVisualMark(mc, clear, marks_uids, selected)
           /\ IF mc.visual THEN session' = Marks!NoSession /\ UNCHANGED <<meant, meantLast>>
              ELSE /\ meantLast' = IF clear THEN meant ELSE meantLast
                   /\ meant' = before \cup here
                   /\ session' = IF here = {} THEN Marks!NoSession
                                 ELSE [start |-> selected, base |-> before \cup here]
           /\ marks_astray' = marks_astray
                \cup (IF ~mc.visual /\ here = {} THEN {"no start"} ELSE {})
                \cup (IF mc.shared /\ ~mc.visual /\ ~clear /\ here # {} THEN {"shared"} ELSE {})
  BY DEF Marks!Visual
<1>2. MarkerShape'
  BY <1>1 DEF Marks!ToggleVisualMark, Marks!Marks, Marks!resetMark, MarksHeld, MarkerShape
<1>3. CASE mc.visual
  <2>1. /\ mc' = [mc EXCEPT !.visual = FALSE]
        /\ session' = Marks!NoSession /\ meant' = meant /\ meantLast' = meantLast
        /\ marks_astray' = marks_astray
    BY <1>1, <1>3 DEF Marks!ToggleVisualMark
  <2>2. /\ mc'.marked = mc.marked /\ mc'.lastMarked = mc.lastMarked /\ mc'.shared = mc.shared
        /\ mc'.visual = FALSE
    BY <2>1 DEF MarksHeld, MarkerShape
  <2> QED
    BY <1>2, <2>1, <2>2 DEF MarksHeld, MarksKept
<1>4. CASE ~mc.visual
  <2>1. ASSUME marks_astray' = {} PROVE MarksKept'
    <3>1. marks_astray = {} /\ selected \in Marks!ToSet(marks_uids) /\ (mc.shared => clear)
      BY <1>1, <1>4, <2>1
    <3>2. {selected} \cap Marks!ToSet(marks_uids) = {selected}
      BY <3>1
    <3>3. mc.marked = meant /\ mc.lastMarked = meantLast
      BY <3>1 DEF MarksHeld, MarksKept
    <3>4. /\ meantLast' = (IF clear THEN meant ELSE meantLast)
          /\ meant' = (IF clear THEN {} ELSE meant) \cup {selected}
          /\ session' = [start |-> selected, base |-> meant']
      BY <1>1, <1>4, <3>2
    <3>5. /\ mc'.marked = (IF clear THEN {} ELSE mc.marked) \cup {selected}
          /\ mc'.lastMarked = (IF clear THEN mc.marked ELSE mc.lastMarked)
          /\ mc'.shared = FALSE /\ mc'.visual = TRUE /\ mc'.start = selected
          /\ mc'.base = mc'.marked
      BY <1>1, <1>4, <3>1
         DEF Marks!ToggleVisualMark, Marks!Marks, Marks!resetMark, MarksHeld, MarkerShape
    <3>6. session' # Marks!NoSession /\ session'.start = selected /\ session'.base = meant'
      BY <3>4 DEF Marks!NoSession
    <3>7. mc'.marked = meant' /\ mc'.lastMarked = meantLast'
      BY <3>3, <3>4, <3>5
    <3> QED
      BY <3>5, <3>6, <3>7 DEF MarksKept
  <2> QED
    BY <1>2, <2>1 DEF MarksHeld, MarksKept
<1> QED
  BY <1>3, <1>4

LEMMA NextPrevHeld == ASSUME MarksHeld, Marks!NextPrev PROVE MarksHeld'
<1>1. PICK u : /\ mc' = Marks!UpdateVisualMark(mc, marks_uids, u)
               /\ Marks!Selecting(marks_uids, u)
               /\ marks_astray' = marks_astray
  BY DEF Marks!NextPrev
<1> QED
  BY <1>1, FollowsHeld

LEMMA NextResultHeld ==
  ASSUME MarksHeld, NEW rs, NEW i, NEW delta, Marks!NextResult(rs, i, delta),
         marks_astray' = marks_astray
  PROVE  MarksHeld'
<1>1. CASE rs = <<>>
  BY <1>1, MarksRest DEF Marks!NextResult
<1>2. CASE rs # <<>>
  <2>1. \E u : Marks!Select(marks_uids, u)
    BY <1>2 DEF Marks!NextResult
  <2> QED
    BY <2>1, SelectHeld
<1> QED
  BY <1>1, <1>2

LEMMA MessagesDeletedHeld == ASSUME MarksHeld, Marks!MessagesDeleted PROVE MarksHeld'
<1>1. \/ Marks!Select(marks_uids', 0)
      \/ UNCHANGED <<selected, mc, callback, meant, meantLast, session>>
  BY DEF Marks!MessagesDeleted
<1>2. marks_astray' = marks_astray
  BY DEF Marks!MessagesDeleted
<1>3. CASE Marks!Select(marks_uids', 0)
  <2>1. PICK us : us = marks_uids'
    OBVIOUS
  <2>2. Marks!Select(us, 0)
    BY <1>3, <2>1 DEF Marks!Select, Marks!UpdateVisualMark, Marks!Selecting
  <2> QED
    BY <1>2, <2>2, SelectHeld
<1> QED
  BY <1>1, <1>2, <1>3, MarksRest

LEMMA SortedHeld == ASSUME MarksHeld, Marks!Sorted PROVE MarksHeld'
<1>1. PICK us : /\ mc' = Marks!UpdateVisualMark(mc, us, selected')
                /\ Marks!Selecting(us, selected')
                /\ marks_astray' = marks_astray
  BY DEF Marks!Sorted
<1>2. PICK u : u = selected'
  OBVIOUS
<1>3. mc' = Marks!UpdateVisualMark(mc, us, u) /\ Marks!Selecting(us, u)
  BY <1>1, <1>2 DEF Marks!Selecting
<1> QED
  BY <1>1, <1>3, FollowsHeld

LEMMA RebuiltHeld == ASSUME MarksHeld, Marks!Rebuilt PROVE MarksHeld'
<1>1. CASE UNCHANGED <<selected, callback, mc, meant, meantLast, session, marks_astray>>
  BY <1>1, MarksRest
<1>2. CASE ~UNCHANGED <<selected, callback, mc, meant, meantLast, session, marks_astray>>
  <2>1. PICK us :
          /\ mc' = Marks!UpdateVisualMark(mc, us, us[callback + 1])
          /\ marks_astray' = (IF mc.visual /\ us[callback + 1] # selected
                              THEN marks_astray \cup {"shifted"} ELSE marks_astray)
          /\ Marks!Selecting(us, selected)
    BY <1>2 DEF Marks!Rebuilt
  <2>2. MarkerShape'
    BY <2>1, ShapeFollows DEF MarksHeld
  <2>3. CASE us[callback + 1] = selected
    BY <2>1, <2>3, FollowsHeld
  <2>4. CASE ~mc.visual
    <3>1. mc' = mc /\ meant' = meant /\ meantLast' = meantLast /\ session' = session
          /\ marks_astray' = marks_astray
      BY <2>1, <2>4 DEF Marks!UpdateVisualMark, Marks!Selecting
    <3> QED
      BY <3>1, MarksRest
  <2>5. CASE mc.visual /\ us[callback + 1] # selected
    BY <2>1, <2>2, <2>5 DEF MarksHeld, MarksKept
  <2> QED
    BY <2>3, <2>4, <2>5
<1> QED
  BY <1>1, <1>2

LEMMA MarksHeldStep ==
  ASSUME MarksHeld, [Marks!Next]_(Marks!selVars)
  PROVE  MarksHeld'
<1>1. CASE Marks!NextPrev
  BY <1>1, NextPrevHeld
<1>2. CASE Marks!Draw
  <2>1. PICK u : Marks!Select(marks_uids, u) /\ marks_astray' = marks_astray
    BY <1>2 DEF Marks!Draw
  <2> QED
    BY <2>1, SelectHeld
<1>3. CASE Marks!ApplySearch
  <2>1. PICK rs : Marks!NextResult(rs, -1, 1)
    BY <1>3 DEF Marks!ApplySearch
  <2>2. marks_astray' = marks_astray
    BY <1>3 DEF Marks!ApplySearch
  <2> QED
    BY <2>1, <2>2, NextResultHeld
<1>4. CASE Marks!NextPrevResult
  <2>1. PICK delta \in {-1, 1} : Marks!NextResult(results, index, delta)
    BY <1>4 DEF Marks!NextPrevResult
  <2>2. marks_astray' = marks_astray
    BY <1>4 DEF Marks!NextPrevResult
  <2> QED
    BY <2>1, <2>2, NextResultHeld
<1>5. CASE Marks!Mark
  BY <1>5, MarkHeld
<1>6. CASE Marks!ToggleMark
  BY <1>6, ToggleMarkHeld
<1>7. CASE Marks!Unmark
  BY <1>7, UnmarkHeld
<1>8. CASE Marks!Visual
  BY <1>8, VisualHeld
<1>9. CASE Marks!Remark
  BY <1>9, RemarkHeld
<1>10. CASE Marks!ActOnMarked
  BY <1>10, ActOnMarkedHeld
<1>11. CASE Marks!MessagesDeleted
  BY <1>11, MessagesDeletedHeld
<1>12. CASE Marks!Sorted
  BY <1>12, SortedHeld
<1>13. CASE Marks!Rebuilt
  BY <1>13, RebuiltHeld
<1>14. CASE UNCHANGED Marks!selVars
  BY <1>14, MarksRest DEF Marks!selVars
<1> QED
  BY <1>1, <1>2, <1>3, <1>4, <1>5, <1>6, <1>7, <1>8, <1>9, <1>10, <1>11, <1>12, <1>13, <1>14
     DEF Marks!Next

-----------------------------------------------------------------------------
(* Selection: the list and the results of a search. *)

LEMMA ListsRest ==
  ASSUME ListsShown, marks_uids' = marks_uids, results' = results,
         hiddenResults' = hiddenResults
  PROVE  ListsShown'
BY DEF ListsShown, Marks!ResultsShown, Marks!ToSet

LEMMA ListOfSet ==
  ASSUME NEW S \in SUBSET ListUids, NEW us \in Marks!SetToSeqs(S)
  PROVE  us \in Seq(ListUids) /\ Marks!ToSet(us) = S
<1>1. IsFiniteSet(S) /\ Cardinality(S) \in Nat
  BY ListAssumption, FS_Subset, FS_CardinalityType
<1>2. /\ us \in [1..Cardinality(S) -> S]
      /\ \A i, j \in 1..Cardinality(S) : i # j => us[i] # us[j]
  BY MarksLists DEF Marks!SetToSeqs
<1>3. us \in Seq(ListUids)
  BY <1>1, <1>2
<1>4. us \in Injection(1..Cardinality(S), S)
  BY <1>2 DEF Injection, IsInjective
<1>5. IsFiniteSet(1..Cardinality(S)) /\ Cardinality(1..Cardinality(S)) = Cardinality(S)
  BY <1>1, FS_Interval
<1>6. us \in Surjection(1..Cardinality(S), S)
  BY <1>1, <1>4, <1>5, FS_Injection
<1>7. Marks!ToSet(us) = S
  BY <1>2, <1>6 DEF Surjection, Marks!ToSet
<1> QED
  BY <1>3, <1>7

LEMMA ListsStep ==
  ASSUME ListsShown, [Marks!Next]_(Marks!selVars)
  PROVE  ListsShown'
<1>1. CASE Marks!ApplySearch
  <2>1. PICK found \in SUBSET Marks!ToSet(marks_uids) : results' = Marks!Those(marks_uids, found)
    BY <1>1 DEF Marks!ApplySearch
  <2>2. marks_uids' = marks_uids
    BY <1>1 DEF Marks!ApplySearch
  <2>3. results' \in Seq(ListUids) /\ Marks!ToSet(results') = Marks!ToSet(marks_uids) \cap found
    BY <2>1, WithoutThose, MarksLists DEF ListsShown
  <2> QED
    BY <2>2, <2>3 DEF ListsShown, Marks!ResultsShown
<1>2. CASE Marks!MessagesDeleted
  <2>1. PICK u : marks_uids' = Marks!Without(marks_uids, {u}) /\ results' = Marks!Without(results, {u})
    BY <1>2 DEF Marks!MessagesDeleted
  <2>2. hiddenResults' = hiddenResults
    BY <1>2 DEF Marks!MessagesDeleted
  <2>3. /\ marks_uids' \in Seq(ListUids)
        /\ Marks!ToSet(marks_uids') = Marks!ToSet(marks_uids) \ {u}
    BY <2>1, WithoutThose, MarksLists DEF ListsShown
  <2>4. results' \in Seq(ListUids) /\ Marks!ToSet(results') = Marks!ToSet(results) \ {u}
    BY <2>1, WithoutThose, MarksLists DEF ListsShown
  <2> QED
    BY <2>2, <2>3, <2>4 DEF ListsShown, Marks!ResultsShown
<1>3. CASE Marks!Sorted
  <2>1. PICK us \in UNION {Marks!SetToSeqs(s) : s \in SUBSET ListUids} :
          /\ marks_uids' = us
          /\ hiddenResults' = hiddenResults \cup (Marks!ToSet(marks_uids) \ Marks!ToSet(us))
    BY <1>3 DEF Marks!Sorted
  <2>2. results' = results
    BY <1>3 DEF Marks!Sorted
  <2>3. PICK s \in SUBSET ListUids : us \in Marks!SetToSeqs(s)
    OBVIOUS
  <2>4. us \in Seq(ListUids)
    BY <2>3, ListOfSet
  <2>5. Marks!ToSet(results) \subseteq Marks!ToSet(us) \cup hiddenResults'
    BY <2>1 DEF ListsShown, Marks!ResultsShown
  <2> QED
    BY <2>1, <2>2, <2>4, <2>5 DEF ListsShown, Marks!ResultsShown
<1>4. CASE Marks!Rebuilt
  <2>1. PICK us \in Marks!SetToSeqs(Marks!ToSet(marks_uids)) : marks_uids' = us
    BY <1>4 DEF Marks!Rebuilt
  <2>2. results' = results /\ hiddenResults' = hiddenResults
    BY <1>4 DEF Marks!Rebuilt
  <2>3. Marks!ToSet(marks_uids) \in SUBSET ListUids
    BY DEF ListsShown, Marks!ToSet
  <2>4. us \in Seq(ListUids) /\ Marks!ToSet(us) = Marks!ToSet(marks_uids)
    BY <2>3, ListOfSet
  <2> QED
    BY <2>1, <2>2, <2>4 DEF ListsShown, Marks!ResultsShown
<1>5. CASE \/ Marks!NextPrev \/ Marks!Draw \/ Marks!NextPrevResult \/ Marks!Mark
           \/ Marks!ToggleMark \/ Marks!Unmark \/ Marks!Visual \/ Marks!Remark
           \/ Marks!ActOnMarked \/ UNCHANGED Marks!selVars
  <2>1. marks_uids' = marks_uids /\ results' = results
    BY <1>5 DEF Marks!NextPrev, Marks!Draw, Marks!NextPrevResult, Marks!Mark, Marks!ToggleMark,
                Marks!Unmark, Marks!Visual, Marks!Remark, Marks!ActOnMarked, Marks!Still,
                Marks!selVars
  <2>2. hiddenResults' = hiddenResults
    BY <1>5 DEF Marks!NextPrev, Marks!Draw, Marks!NextPrevResult, Marks!Mark, Marks!ToggleMark,
                Marks!Unmark, Marks!Visual, Marks!Remark, Marks!ActOnMarked, Marks!Still,
                Marks!selVars
  <2> QED
    BY <2>1, <2>2, ListsRest
<1> QED
  BY <1>1, <1>2, <1>3, <1>4, <1>5 DEF Marks!Next

LEMMA MarksInit == Marks!Init => MarksIInv
<1> SUFFICES ASSUME Marks!Init PROVE MarksIInv
  OBVIOUS
<1>1. /\ mc = [marked |-> {}, lastMarked |-> {}, shared |-> FALSE, visual |-> FALSE,
               start |-> 0, base |-> {}]
      /\ meant = {} /\ meantLast = {} /\ session = Marks!NoSession
  BY DEF Marks!Init
<1>2. MarkerShape /\ MarksKept
  BY <1>1 DEF MarkerShape, MarksKept
<1>3. /\ Cardinality(ListUids) \in Nat
      /\ \A n \in 1..Cardinality(ListUids) : Marks!Nth(ListUids, n) \in ListUids
  BY ListAssumption, NthRight, MarksLists
<1>4. marks_uids = [n \in 1..Cardinality(ListUids) |-> Marks!Nth(ListUids, n)]
  BY MarksLists DEF Marks!Init
<1>5. marks_uids \in Seq(ListUids)
  BY <1>3, <1>4
<1>6. results = <<>>
  BY DEF Marks!Init
<1>7. ListsShown
  BY <1>5, <1>6 DEF ListsShown, Marks!ResultsShown, Marks!ToSet
<1> QED
  BY <1>2, <1>7 DEF MarksIInv

LEMMA MarksStep == MarksIInv /\ [Marks!Next]_(Marks!selVars) => MarksIInv'
<1> SUFFICES ASSUME MarksIInv, [Marks!Next]_(Marks!selVars) PROVE MarksIInv'
  OBVIOUS
<1>1. MarksHeld /\ ListsShown
  BY DEF MarksIInv, MarksHeld
<1>2. MarksHeld'
  BY <1>1, MarksHeldStep
<1>3. ListsShown'
  BY <1>1, ListsStep
<1> QED
  BY <1>2, <1>3 DEF MarksIInv, MarksHeld

-----------------------------------------------------------------------------
(* Tabs: the operations on the bar.  Every tab is listed once, and those of the history are
   listed; k is the number of tabs ever opened. *)

BarShape(b) ==
  b = [list |-> b.list, cur |-> b.cur, history |-> b.history, shown |-> b.shown,
       focused |-> b.focused, pinned |-> b.pinned, before |-> b.before]

ListedOnce(b, k) ==
  /\ b.list \in Seq(1..k)
  /\ \A i, j \in 1..Len(b.list) : b.list[i] = b.list[j] => i = j
  /\ b.cur \in Nat \ {0}

HistoryListed(b, k) ==
  /\ b.history \in Seq(1..k)
  /\ ToSet(b.history) \subseteq ToSet(b.list)
  /\ Len(b.history) <= MaxHistory

PinsKnown(b, k) ==
  /\ b.pinned \subseteq 1..k /\ b.pinned \subseteq DOMAIN b.before
  /\ \A t \in DOMAIN b.before : b.before[t] \in Int

Listable(b, k) == BarShape(b) /\ ListedOnce(b, k) /\ HistoryListed(b, k) /\ PinsKnown(b, k)
Listed(b, k) == Listable(b, k) /\ (b.list # <<>> => b.cur <= Len(b.list))

PinnedFirst(b) ==
  \A i, j \in 1..Len(b.list) : i < j /\ b.list[j] \in b.pinned => b.list[i] \in b.pinned

LEMMA SelectedListed ==
  ASSUME NEW b, NEW k \in Nat, Listed(b, k), b.list # <<>>
  PROVE  b.cur \in 1..Len(b.list) /\ Selected(b) \in ToSet(b.list) /\ Selected(b) \in 1..k
<1>1. b.cur \in 1..Len(b.list) /\ b.list \in Seq(1..k)
  BY DEF Listed, Listable, ListedOnce
<1>2. b.cur \in DOMAIN b.list /\ b.list[b.cur] \in 1..k
  BY <1>1
<1> QED
  BY <1>1, <1>2 DEF Selected, ToSet

LEMMA PushRight ==
  ASSUME NEW X, NEW h \in Seq(X), NEW t \in X, Len(h) <= MaxHistory
  PROVE  /\ PushHistory(h, t) \in Seq(X)
         /\ ToSet(PushHistory(h, t)) \subseteq ToSet(h) \cup {t}
         /\ Len(PushHistory(h, t)) <= MaxHistory
<1>1. PICK g \in Seq(X) : g = Append(h, t)
  BY AppendProperties
<1>2. /\ Len(g) = Len(h) + 1 /\ Len(h) \in Nat /\ g # <<>>
      /\ \A i \in 1..Len(g) : g[i] = IF i <= Len(h) THEN h[i] ELSE t
  BY <1>1
<1>3. \A i \in 1..Len(g) : g[i] \in ToSet(h) \cup {t}
  BY <1>2 DEF ToSet
<1>4. ToSet(g) \subseteq ToSet(h) \cup {t}
  BY <1>3 DEF ToSet
<1>5. CASE Len(g) > MaxHistory
  <2>1. PushHistory(h, t) = Tail(g)
    BY <1>1, <1>5 DEF PushHistory
  <2>2. /\ Tail(g) \in Seq(X) /\ Len(Tail(g)) = Len(g) - 1
        /\ \A i \in 1..Len(Tail(g)) : Tail(g)[i] = g[i + 1]
    BY <1>2
  <2>3. \A i \in 1..Len(Tail(g)) : Tail(g)[i] \in ToSet(h) \cup {t}
    BY <1>2, <1>3, <2>2
  <2>4. ToSet(Tail(g)) \subseteq ToSet(h) \cup {t}
    BY <2>2, <2>3 DEF ToSet
  <2> QED
    BY <1>2, <2>1, <2>2, <2>4
<1>6. CASE ~(Len(g) > MaxHistory)
  <2>1. PushHistory(h, t) = g
    BY <1>1, <1>6 DEF PushHistory
  <2> QED
    BY <1>2, <1>4, <1>6, <2>1, TabsAssumption
<1> QED
  BY <1>5, <1>6

LEMMA HiddenRight ==
  ASSUME NEW b, NEW k \in Nat, Listed(b, k), NEW t
  PROVE  /\ Listed(Hidden(b, t), k)
         /\ Hidden(b, t).list = b.list /\ Hidden(b, t).cur = b.cur
         /\ Hidden(b, t).history = b.history /\ Hidden(b, t).pinned = b.pinned
         /\ Hidden(b, t).before = b.before
         /\ Hidden(b, t).shown = b.shown \ {t} /\ Hidden(b, t).focused = b.focused \ {t}
<1>1. PICK a : a = [b EXCEPT !.shown = @ \ {t}, !.focused = @ \ {t}]
  OBVIOUS
<1>2. /\ BarShape(a) /\ a.list = b.list /\ a.cur = b.cur /\ a.history = b.history
      /\ a.pinned = b.pinned /\ a.before = b.before
      /\ a.shown = b.shown \ {t} /\ a.focused = b.focused \ {t}
  BY <1>1 DEF Listed, Listable, BarShape
<1>3. Listed(a, k)
  BY <1>2 DEF Listed, Listable, ListedOnce, HistoryListed, PinsKnown
<1> QED
  BY <1>1, <1>2, <1>3 DEF Hidden

(* Tabs.selectPriv: the tab that is left is hidden and goes into the history. *)
Left(b, i) == SelectPriv(b, i, TRUE)

LEMMA SelectRight ==
  ASSUME NEW b, NEW k \in Nat, Listed(b, k), b.list # <<>>, NEW i \in Int,
         NEW a, a = Left(b, i)
  PROVE  /\ Listed(a, k)
         /\ a.list = b.list /\ a.pinned = b.pinned /\ a.before = b.before
         /\ i \notin 1..Len(b.list) => a = b
         /\ i \in 1..Len(b.list) =>
              /\ a.cur = i /\ Selected(a) = b.list[i]
              /\ a.shown = (b.shown \ {Selected(b)}) \cup {b.list[i]}
              /\ a.focused = (b.focused \ {Selected(b)}) \cup {b.list[i]}
<1>1. CASE i \notin 1..Len(b.list)
  BY <1>1 DEF Left, SelectPriv, Range0
<1>2. CASE i \in 1..Len(b.list)
  <2>1. /\ b.cur <= Len(b.list) /\ Selected(b) \in 1..k /\ Selected(b) \in ToSet(b.list)
    BY SelectedListed DEF Listed, Listable, ListedOnce
  <2>2. PICK g : g = Hidden(b, Selected(b))
    OBVIOUS
  <2>3. PICK h : h = [g EXCEPT !.history = PushHistory(@, Selected(b))]
    OBVIOUS
  <2>4. a = [h EXCEPT !.cur = i, !.shown = @ \cup {b.list[i]}, !.focused = @ \cup {b.list[i]}]
    BY <1>2, <2>1, <2>2, <2>3 DEF Left, SelectPriv, Range0
  <2>5. /\ BarShape(g) /\ g.list = b.list /\ g.pinned = b.pinned /\ g.before = b.before
        /\ g.history = b.history
        /\ g.shown = b.shown \ {Selected(b)} /\ g.focused = b.focused \ {Selected(b)}
    BY <2>2, HiddenRight DEF Listed, Listable
  <2>6. /\ BarShape(h) /\ h.list = b.list /\ h.pinned = b.pinned /\ h.before = b.before
        /\ h.history = PushHistory(b.history, Selected(b))
        /\ h.shown = b.shown \ {Selected(b)} /\ h.focused = b.focused \ {Selected(b)}
    BY <2>3, <2>5 DEF BarShape
  <2>7. /\ BarShape(a) /\ a.list = b.list /\ a.pinned = b.pinned /\ a.before = b.before
        /\ a.history = PushHistory(b.history, Selected(b)) /\ a.cur = i
        /\ a.shown = (b.shown \ {Selected(b)}) \cup {b.list[i]}
        /\ a.focused = (b.focused \ {Selected(b)}) \cup {b.list[i]}
    BY <2>4, <2>6 DEF BarShape
  <2>8. HistoryListed(a, k)
    <3>1. b.history \in Seq(1..k) /\ ToSet(b.history) \subseteq ToSet(b.list)
          /\ Len(b.history) <= MaxHistory
      BY DEF Listed, Listable, HistoryListed
    <3>2. PICK t \in 1..k : t = Selected(b)
      BY <2>1
    <3>3. PICK s \in Seq(1..k) : s = b.history
      BY <3>1
    <3>4. /\ PushHistory(s, t) \in Seq(1..k)
          /\ ToSet(PushHistory(s, t)) \subseteq ToSet(s) \cup {t}
          /\ Len(PushHistory(s, t)) <= MaxHistory
      BY <3>1, <3>3, PushRight
    <3> QED
      BY <2>1, <2>7, <3>1, <3>2, <3>3, <3>4 DEF HistoryListed
  <2>9. ListedOnce(a, k) /\ PinsKnown(a, k) /\ a.cur <= Len(a.list)
    BY <1>2, <2>7 DEF Listed, Listable, ListedOnce, PinsKnown
  <2> QED
    BY <1>2, <2>7, <2>8, <2>9 DEF Listed, Listable, Selected
<1> QED
  BY <1>1, <1>2

LEMMA FrontRight ==
  ASSUME NEW X, NEW s \in Seq(X), s # <<>>
  PROVE  /\ Front(s) \in Seq(X) /\ Len(Front(s)) = Len(s) - 1
         /\ ToSet(Front(s)) \subseteq ToSet(s)
         /\ \A i \in 1..(Len(s) - 1) : Front(s)[i] = s[i]
<1>1. Len(s) \in Nat \ {0} /\ \A i \in 1..(Len(s) - 1) : s[i] \in X
  BY EmptySeq
<1>2. PICK n : n = Len(s) - 1
  OBVIOUS
<1>3. n \in Nat /\ Front(s) = SubSeq(s, 1, n) /\ \A i \in 1..n : s[i] \in X
  BY <1>1, <1>2 DEF Front
<1>4. /\ Front(s) \in Seq(X) /\ Len(Front(s)) = n
      /\ \A i \in 1..n : Front(s)[i] = s[i]
  <2>1. /\ SubSeq(s, 1, n) \in Seq(X)
        /\ Len(SubSeq(s, 1, n)) = IF 1 <= n THEN n - 1 + 1 ELSE 0
        /\ \A i \in 1..(n - 1 + 1) : SubSeq(s, 1, n)[i] = s[1 + i - 1]
    BY <1>3, SubSeqProperties
  <2> QED
    BY <1>3, <2>1
<1>5. ToSet(Front(s)) \subseteq ToSet(s)
  <2>1. DOMAIN s = 1..Len(s) /\ DOMAIN Front(s) = 1..n
    BY <1>4
  <2> QED
    BY <1>1, <1>2, <1>4, <2>1 DEF ToSet
<1> QED
  BY <1>2, <1>4, <1>5

(* The history without its latest tab. *)
Forgotten(b) == IF b.history = <<>> THEN b ELSE [b EXCEPT !.history = Front(@)]

LEMMA ForgottenRight ==
  ASSUME NEW b, NEW k \in Nat, Listable(b, k)
  PROVE  /\ Listable(Forgotten(b), k)
         /\ Forgotten(b).list = b.list /\ Forgotten(b).cur = b.cur
         /\ Forgotten(b).pinned = b.pinned /\ Forgotten(b).before = b.before
         /\ Forgotten(b).shown = b.shown /\ Forgotten(b).focused = b.focused
<1>1. CASE b.history = <<>>
  BY <1>1 DEF Forgotten
<1>2. CASE b.history # <<>>
  <2>1. PICK a : a = [b EXCEPT !.history = Front(@)]
    OBVIOUS
  <2>2. /\ BarShape(a) /\ a.list = b.list /\ a.cur = b.cur /\ a.history = Front(b.history)
        /\ a.pinned = b.pinned /\ a.before = b.before
        /\ a.shown = b.shown /\ a.focused = b.focused
    BY <2>1 DEF Listable, BarShape
  <2>3. /\ b.history \in Seq(1..k) /\ ToSet(b.history) \subseteq ToSet(b.list)
        /\ Len(b.history) <= MaxHistory
    BY DEF Listable, HistoryListed
  <2>4. /\ Front(b.history) \in Seq(1..k) /\ ToSet(Front(b.history)) \subseteq ToSet(b.history)
        /\ Len(Front(b.history)) = Len(b.history) - 1
    BY <1>2, <2>3, FrontRight
  <2>5. HistoryListed(a, k)
    BY <2>2, <2>3, <2>4, TabsAssumption DEF HistoryListed
  <2>6. ListedOnce(a, k) /\ PinsKnown(a, k)
    BY <2>2 DEF Listable, ListedOnce, PinsKnown
  <2>7. Forgotten(b) = a
    BY <1>2, <2>1 DEF Forgotten
  <2> QED
    BY <2>2, <2>5, <2>6, <2>7 DEF Listable
<1> QED
  BY <1>1, <1>2

(* popHistory finds the latest tab of the history. *)
LEMMA PoppedRight ==
  ASSUME NEW b, NEW k \in Nat, Listable(b, k)
  PROVE  /\ Popped(b) \in 0..Len(b.list)
         /\ b.history # <<>> => Popped(b) \in 1..Len(b.list)
         /\ b.history = <<>> => Popped(b) = 0
<1>1. CASE b.history = <<>>
  BY <1>1 DEF Popped, Listable, ListedOnce
<1>2. CASE b.history # <<>>
  <2>1. /\ b.history \in Seq(1..k) /\ ToSet(b.history) \subseteq ToSet(b.list)
        /\ b.list \in Seq(1..k)
    BY DEF Listable, ListedOnce, HistoryListed
  <2>2. Last(b.history) \in ToSet(b.list)
    <3>1. Len(b.history) \in Nat \ {0}
      BY <1>2, <2>1, EmptySeq
    <3>2. Len(b.history) \in DOMAIN b.history
      BY <2>1, <3>1
    <3>3. Last(b.history) \in ToSet(b.history)
      BY <3>2 DEF Last, ToSet
    <3> QED
      BY <2>1, <3>3
  <2>3. \E i \in 1..Len(b.list) : b.list[i] = Last(b.history)
    <3>1. DOMAIN b.list = 1..Len(b.list)
      BY <2>1
    <3> QED
      BY <2>2, <3>1 DEF ToSet
  <2>4. Popped(b) = CHOOSE i \in 1..Len(b.list) : b.list[i] = Last(b.history)
    BY <1>2, <2>2 DEF Popped, Range0
  <2>5. Popped(b) \in 1..Len(b.list)
    BY <2>3, <2>4
  <2>6. Len(b.list) \in Nat
    BY <2>1
  <2> QED
    BY <1>2, <2>5, <2>6
<1> QED
  BY <1>1, <1>2

LEMMA WithoutLength ==
  ASSUME NEW X, NEW c \in Seq(X), NEW S
  PROVE  Len(Without(c, S)) <= Len(c)
<1>1. PICK out : out = {i \in DOMAIN c : c[i] \notin S}
  OBVIOUS
<1>2. Len(c) \in Nat /\ DOMAIN c = 1..Len(c)
  OBVIOUS
<1>3. IsFiniteSet(1..Len(c)) /\ Cardinality(1..Len(c)) = Len(c)
  BY <1>2, FS_Interval
<1>4. out \in SUBSET (1..Len(c))
  BY <1>1, <1>2
<1>5. Cardinality(out) \in Nat /\ Cardinality(out) <= Len(c)
  BY <1>3, <1>4, FS_Subset, FS_CardinalityType
<1>6. Without(c, S) = [n \in 1..Cardinality(out) |-> c[Nth(out, n)]]
  BY <1>1 DEF Without, Picked
<1> QED
  BY <1>5, <1>6

LEMMA RemoveAtRight ==
  ASSUME NEW X, NEW s \in Seq(X), NEW i \in 1..Len(s)
  PROVE  /\ RemoveAt(s, i) \in Seq(X) /\ Len(RemoveAt(s, i)) = Len(s) - 1
         /\ \A j \in 1..(Len(s) - 1) : RemoveAt(s, i)[j] = IF j < i THEN s[j] ELSE s[j + 1]
<1>1. Len(s) \in Nat /\ i \in Nat \ {0} /\ i <= Len(s) /\ \A j \in 1..Len(s) : s[j] \in X
  OBVIOUS
<1>2. PICK n : n = Len(s)
  OBVIOUS
<1>3. PICK p : p = SubSeq(s, 1, i - 1)
  OBVIOUS
<1>4. PICK q : q = SubSeq(s, i + 1, n)
  OBVIOUS
<1>5. /\ p \in Seq(X) /\ Len(p) = i - 1 /\ \A j \in 1..(i - 1) : p[j] = s[j]
  <2>1. \A j \in 1..(i - 1) : s[j] \in X
    BY <1>1
  <2>2. /\ SubSeq(s, 1, i - 1) \in Seq(X)
        /\ Len(SubSeq(s, 1, i - 1)) = IF 1 <= i - 1 THEN i - 1 - 1 + 1 ELSE 0
        /\ \A j \in 1..(i - 1 - 1 + 1) : SubSeq(s, 1, i - 1)[j] = s[1 + j - 1]
    BY <1>1, <2>1, SubSeqProperties
  <2> QED
    BY <1>1, <1>3, <2>2
<1>6. /\ q \in Seq(X) /\ Len(q) = n - i /\ \A j \in 1..(n - i) : q[j] = s[i + j]
  <2>1. \A j \in (i + 1)..n : s[j] \in X
    BY <1>1, <1>2
  <2>2. /\ SubSeq(s, i + 1, n) \in Seq(X)
        /\ Len(SubSeq(s, i + 1, n)) = IF i + 1 <= n THEN n - (i + 1) + 1 ELSE 0
        /\ \A j \in 1..(n - (i + 1) + 1) : SubSeq(s, i + 1, n)[j] = s[(i + 1) + j - 1]
    BY <1>1, <1>2, <2>1, SubSeqProperties
  <2>3. \A j \in 1..(n - i) : j \in 1..(n - (i + 1) + 1) /\ (i + 1) + j - 1 = i + j
    BY <1>1, <1>2
  <2> QED
    BY <1>1, <1>2, <1>4, <2>2, <2>3
<1>7. RemoveAt(s, i) = p \o q
  BY <1>2, <1>3, <1>4 DEF RemoveAt
<1>8. /\ p \o q \in Seq(X) /\ Len(p \o q) = n - 1
      /\ \A j \in 1..(n - 1) : (p \o q)[j] = IF j <= i - 1 THEN p[j] ELSE q[j - (i - 1)]
  <2>1. /\ p \o q \in Seq(X) /\ Len(p \o q) = Len(p) + Len(q)
        /\ \A j \in 1..(Len(p) + Len(q)) :
             (p \o q)[j] = IF j <= Len(p) THEN p[j] ELSE q[j - Len(p)]
    BY <1>5, <1>6, ConcatProperties
  <2> QED
    BY <1>1, <1>2, <1>5, <1>6, <2>1
<1>9. ASSUME NEW j \in 1..(n - 1)
      PROVE  (p \o q)[j] = IF j < i THEN s[j] ELSE s[j + 1]
  <2>1. CASE j < i
    BY <1>1, <1>2, <1>5, <1>8, <2>1
  <2>2. CASE ~(j < i)
    <3>1. j - (i - 1) \in 1..(n - i) /\ i + (j - (i - 1)) = j + 1
      BY <1>1, <1>2, <2>2
    <3>2. (p \o q)[j] = q[j - (i - 1)]
      BY <1>1, <1>2, <1>8, <2>2
    <3>3. q[j - (i - 1)] = s[i + (j - (i - 1))]
      BY <1>6, <3>1
    <3> QED
      BY <2>2, <3>1, <3>2, <3>3
  <2> QED
    BY <2>1, <2>2
<1> QED
  BY <1>2, <1>7, <1>8, <1>9

(* A tab that is listed has one place. *)
LEMMA PlaceRight ==
  ASSUME NEW b, NEW k \in Nat, Listed(b, k), NEW t \in ToSet(b.list),
         NEW i, i = CHOOSE j \in Range0(b) : b.list[j] = t
  PROVE  i \in 1..Len(b.list) /\ b.list[i] = t
<1>1. DOMAIN b.list = 1..Len(b.list)
  BY DEF Listed, Listable, ListedOnce
<1>2. \E j \in 1..Len(b.list) : b.list[j] = t
  BY <1>1 DEF ToSet
<1> QED
  BY <1>2 DEF Range0

(* The bar without the tab at place i, and without it in the history. *)
Taken(b, t, i) == [Hidden(b, t) EXCEPT !.list = RemoveAt(@, i), !.history = Without(@, {t})]

LEMMA TakenRight ==
  ASSUME NEW b, NEW k \in Nat, Listed(b, k), NEW i \in 1..Len(b.list), NEW t, t = b.list[i],
         NEW r, r = Taken(b, t, i)
  PROVE  /\ BarShape(r) /\ r.list \in Seq(1..k) /\ Len(r.list) = Len(b.list) - 1
         /\ \A j \in 1..(Len(b.list) - 1) :
              r.list[j] = IF j < i THEN b.list[j] ELSE b.list[j + 1]
         /\ r.cur = b.cur /\ r.pinned = b.pinned /\ r.before = b.before
         /\ r.shown = b.shown \ {t} /\ r.focused = b.focused \ {t}
         /\ \A j, l \in 1..Len(r.list) : r.list[j] = r.list[l] => j = l
         /\ ToSet(r.list) = ToSet(b.list) \ {t}
         /\ HistoryListed(r, k) /\ PinsKnown(r, k)
         /\ PinnedFirst(b) => PinnedFirst(r)
<1>1. PICK h : h = Hidden(b, t)
  OBVIOUS
<1>2. /\ Listed(h, k) /\ h.list = b.list /\ h.cur = b.cur /\ h.history = b.history
      /\ h.pinned = b.pinned /\ h.before = b.before
      /\ h.shown = b.shown \ {t} /\ h.focused = b.focused \ {t}
  BY <1>1, HiddenRight
<1>3. r = [h EXCEPT !.list = RemoveAt(@, i), !.history = Without(@, {t})]
  BY <1>1 DEF Taken
<1>4. /\ BarShape(r) /\ r.list = RemoveAt(b.list, i) /\ r.history = Without(b.history, {t})
      /\ r.cur = b.cur /\ r.pinned = b.pinned /\ r.before = b.before
      /\ r.shown = b.shown \ {t} /\ r.focused = b.focused \ {t}
  BY <1>2, <1>3 DEF Listed, Listable, BarShape
<1>5. /\ b.list \in Seq(1..k) /\ Len(b.list) \in Nat
      /\ \A j, l \in 1..Len(b.list) : b.list[j] = b.list[l] => j = l
  BY DEF Listed, Listable, ListedOnce
<1>6. PICK n : n = Len(b.list)
  OBVIOUS
<1>7. /\ r.list \in Seq(1..k) /\ Len(r.list) = n - 1
      /\ \A j \in 1..(n - 1) : r.list[j] = IF j < i THEN b.list[j] ELSE b.list[j + 1]
  <2>1. PICK s \in Seq(1..k) : s = b.list
    BY <1>5
  <2>2. /\ RemoveAt(s, i) \in Seq(1..k) /\ Len(RemoveAt(s, i)) = Len(s) - 1
        /\ \A j \in 1..(Len(s) - 1) : RemoveAt(s, i)[j] = IF j < i THEN s[j] ELSE s[j + 1]
    BY <2>1, RemoveAtRight
  <2> QED
    BY <1>4, <1>6, <2>1, <2>2
<1>8. \A j, l \in 1..Len(r.list) : r.list[j] = r.list[l] => j = l
  <2> SUFFICES ASSUME NEW j \in 1..(n - 1), NEW l \in 1..(n - 1), r.list[j] = r.list[l]
               PROVE  j = l
    BY <1>7
  <2>1. n \in Nat /\ i \in 1..n
    BY <1>5, <1>6
  <2>2. PICK jj : jj = IF j < i THEN j ELSE j + 1
    OBVIOUS
  <2>3. PICK ll : ll = IF l < i THEN l ELSE l + 1
    OBVIOUS
  <2>4. jj \in 1..n /\ ll \in 1..n
    BY <2>1, <2>2, <2>3
  <2>5. r.list[j] = b.list[jj] /\ r.list[l] = b.list[ll]
    BY <1>7, <2>2, <2>3
  <2>6. jj = ll
    BY <1>5, <1>6, <2>4, <2>5
  <2> QED
    BY <2>1, <2>2, <2>3, <2>6
<1>9. ToSet(r.list) = ToSet(b.list) \ {t}
  <2>1. DOMAIN b.list = 1..n /\ DOMAIN r.list = 1..(n - 1) /\ n \in Nat /\ i \in 1..n
    BY <1>5, <1>6, <1>7
  <2>2. ASSUME NEW j \in 1..(n - 1)
        PROVE  r.list[j] \in ToSet(b.list) /\ r.list[j] # t
    <3>1. PICK l : l = IF j < i THEN j ELSE j + 1
      OBVIOUS
    <3>2. l \in 1..n /\ l # i
      BY <2>1, <3>1
    <3>3. r.list[j] = b.list[l]
      BY <1>7, <3>1
    <3> QED
      BY <1>5, <1>6, <2>1, <3>2, <3>3 DEF ToSet
  <2>3. ASSUME NEW l \in 1..n, b.list[l] # t
        PROVE  \E j \in 1..(n - 1) : r.list[j] = b.list[l]
    <3>1. PICK j : j = IF l < i THEN l ELSE l - 1
      OBVIOUS
    <3>2. l # i
      BY <2>3
    <3>3. j \in 1..(n - 1) /\ l = IF j < i THEN j ELSE j + 1
      BY <2>1, <3>1, <3>2
    <3> QED
      BY <1>7, <3>3
  <2>4. ASSUME NEW x \in ToSet(r.list) PROVE x \in ToSet(b.list) \ {t}
    <3>1. PICK j \in 1..(n - 1) : x = r.list[j]
      BY <2>1 DEF ToSet
    <3> QED
      BY <2>2, <3>1
  <2>5. ASSUME NEW x \in ToSet(b.list) \ {t} PROVE x \in ToSet(r.list)
    <3>1. PICK l \in 1..n : x = b.list[l]
      BY <2>1 DEF ToSet
    <3>2. PICK j \in 1..(n - 1) : r.list[j] = b.list[l]
      BY <2>3, <3>1
    <3> QED
      BY <2>1, <3>1, <3>2 DEF ToSet
  <2> QED
    BY <2>4, <2>5
<1>10. HistoryListed(r, k)
  <2>1. /\ b.history \in Seq(1..k) /\ ToSet(b.history) \subseteq ToSet(b.list)
        /\ Len(b.history) <= MaxHistory
    BY DEF Listed, Listable, HistoryListed
  <2>2. /\ Without(b.history, {t}) \in Seq(1..k)
        /\ ToSet(Without(b.history, {t})) = ToSet(b.history) \ {t}
    BY <2>1, WithoutThose
  <2>3. Len(Without(b.history, {t})) <= Len(b.history)
    BY <2>1, WithoutLength
  <2>4. Len(Without(b.history, {t})) \in Nat /\ Len(b.history) \in Nat
    BY <2>1, <2>2
  <2>5. Len(Without(b.history, {t})) <= MaxHistory
    BY <2>1, <2>3, <2>4, TabsAssumption
  <2> QED
    BY <1>4, <1>9, <2>1, <2>2, <2>5 DEF HistoryListed
<1>11. PinsKnown(r, k)
  BY <1>4 DEF Listed, Listable, PinsKnown
<1>12. ASSUME PinnedFirst(b) PROVE PinnedFirst(r)
  <2> SUFFICES ASSUME NEW j \in 1..(n - 1), NEW l \in 1..(n - 1), j < l, r.list[l] \in b.pinned
               PROVE  r.list[j] \in b.pinned
    BY <1>4, <1>7 DEF PinnedFirst
  <2>1. n \in Nat /\ i \in 1..n
    BY <1>5, <1>6
  <2>2. PICK jj : jj = IF j < i THEN j ELSE j + 1
    OBVIOUS
  <2>3. PICK ll : ll = IF l < i THEN l ELSE l + 1
    OBVIOUS
  <2>4. jj \in 1..n /\ ll \in 1..n /\ jj < ll
    BY <2>1, <2>2, <2>3
  <2>5. r.list[j] = b.list[jj] /\ r.list[l] = b.list[ll]
    BY <1>7, <2>2, <2>3
  <2> QED
    BY <1>6, <1>12, <2>4, <2>5 DEF PinnedFirst
<1> QED
  BY <1>4, <1>6, <1>7, <1>8, <1>9, <1>10, <1>11, <1>12

(* selectPriv without leaving a tab: the current place may lie behind the list. *)
Put(b, i) ==
  [b EXCEPT !.cur = i, !.shown = @ \cup {b.list[i]}, !.focused = @ \cup {b.list[i]}]

LEMMA SelectInto ==
  ASSUME NEW b, NEW k \in Nat, Listable(b, k), NEW i \in 1..Len(b.list),
         NEW a, a = Put(b, i)
  PROVE  /\ Listed(a, k)
         /\ a.list = b.list /\ a.pinned = b.pinned /\ a.before = b.before
         /\ a.cur = i /\ Selected(a) = b.list[i]
         /\ a.shown = b.shown \cup {b.list[i]} /\ a.focused = b.focused \cup {b.list[i]}
<1>1. a = [b EXCEPT !.cur = i, !.shown = @ \cup {b.list[i]}, !.focused = @ \cup {b.list[i]}]
  BY DEF Put
<1>2. /\ BarShape(a) /\ a.list = b.list /\ a.pinned = b.pinned /\ a.before = b.before
      /\ a.history = b.history /\ a.cur = i
      /\ a.shown = b.shown \cup {b.list[i]} /\ a.focused = b.focused \cup {b.list[i]}
  BY <1>1 DEF Listable, BarShape
<1>3. HistoryListed(a, k) /\ PinsKnown(a, k)
  BY <1>2 DEF Listable, HistoryListed, PinsKnown
<1>4. b.list \in Seq(1..k) /\ Len(b.list) \in Nat
  BY DEF Listable, ListedOnce
<1>5. i \in Nat \ {0} /\ i <= Len(b.list)
  BY <1>4
<1>6. a.cur \in Nat \ {0} /\ a.cur <= Len(a.list)
  BY <1>2, <1>5
<1>7. a.list \in Seq(1..k) /\ \A j, l \in 1..Len(a.list) : a.list[j] = a.list[l] => j = l
  BY <1>2 DEF Listable, ListedOnce
<1> QED
  BY <1>2, <1>3, <1>6, <1>7 DEF Listed, Listable, ListedOnce, Selected

(* What removing a tab changes: the tab is hidden; if it was the selected one, another one is
   selected instead, else the selected one stays. *)
RemovalRight(b, a, t, k) ==
  /\ Listed(a, k) /\ a.pinned = b.pinned
  /\ PinnedFirst(b) => PinnedFirst(a)
  /\ a.list # <<>> =>
       /\ a.shown \in {b.shown \ {t}, (b.shown \ {t}) \cup {Selected(a)}}
       /\ a.focused \in {b.focused \ {t}, (b.focused \ {t}) \cup {Selected(a)}}
       /\ t # Selected(b) => Selected(a) = Selected(b)
       /\ t = Selected(b) => Selected(a) \in a.shown /\ Selected(a) \in a.focused

LEMMA RemovedRight ==
  ASSUME NEW b, NEW k \in Nat, Listed(b, k), NEW t \in ToSet(b.list), NEW a, a = Removed(b, t)
  PROVE  RemovalRight(b, a, t, k)
<1>1. PICK i : i = CHOOSE j \in Range0(b) : b.list[j] = t
  OBVIOUS
<1>2. i \in 1..Len(b.list) /\ b.list[i] = t
  BY <1>1, PlaceRight
<1>3. PICK r : r = Taken(b, t, i)
  OBVIOUS
<1>4. PICK n : n = Len(b.list)
  OBVIOUS
<1>5. /\ b.list \in Seq(1..k) /\ n \in Nat /\ i \in 1..n /\ b.cur \in 1..n
      /\ \A j, l \in 1..n : b.list[j] = b.list[l] => j = l
      /\ Selected(b) = b.list[b.cur]
  <2>1. b.list \in Seq(1..k) /\ n \in Nat /\ i \in 1..n
        /\ \A j, l \in 1..n : b.list[j] = b.list[l] => j = l
    BY <1>2, <1>4 DEF Listed, Listable, ListedOnce
  <2>2. b.list # <<>>
    BY <1>2, <2>1
  <2>3. b.cur \in 1..n
    BY <1>4, <2>2, SelectedListed
  <2> QED
    BY <2>1, <2>3 DEF Selected
<1>a. n \in Nat /\ i \in 1..n /\ b.cur \in 1..n
  BY <1>5
<1>6. /\ BarShape(r) /\ r.list \in Seq(1..k) /\ Len(r.list) = n - 1
      /\ \A j \in 1..(n - 1) : r.list[j] = IF j < i THEN b.list[j] ELSE b.list[j + 1]
      /\ r.cur = b.cur /\ r.pinned = b.pinned /\ r.before = b.before
      /\ r.shown = b.shown \ {t} /\ r.focused = b.focused \ {t}
      /\ \A j, l \in 1..Len(r.list) : r.list[j] = r.list[l] => j = l
      /\ HistoryListed(r, k) /\ PinsKnown(r, k)
      /\ PinnedFirst(b) => PinnedFirst(r)
  <2>1. t = b.list[i]
    BY <1>2
  <2>2. /\ BarShape(r) /\ r.list \in Seq(1..k) /\ Len(r.list) = Len(b.list) - 1
        /\ \A j \in 1..(Len(b.list) - 1) :
              r.list[j] = IF j < i THEN b.list[j] ELSE b.list[j + 1]
        /\ r.cur = b.cur /\ r.pinned = b.pinned /\ r.before = b.before
        /\ r.shown = b.shown \ {t} /\ r.focused = b.focused \ {t}
        /\ \A j, l \in 1..Len(r.list) : r.list[j] = r.list[l] => j = l
        /\ HistoryListed(r, k) /\ PinsKnown(r, k)
        /\ PinnedFirst(b) => PinnedFirst(r)
    BY <1>2, <1>3, <2>1, TakenRight, SMTT(20)
  <2> QED
    BY <1>4, <2>2
<1>7. Listable(r, k)
  BY <1>5, <1>6 DEF Listable, ListedOnce
<1>8. PICK p : p = IF Popped(r) # 0 THEN Popped(r)
                   ELSE IF b.cur <= Len(r.list) THEN b.cur ELSE Len(r.list)
  OBVIOUS
<1>9. a = CASE i = b.cur -> SelectPriv(Forgotten(r), p, FALSE)
            [] i < b.cur -> SelectPriv(r, b.cur - 1, FALSE)
            [] OTHER     -> r
  BY <1>1, <1>3, <1>8 DEF Removed, Taken, Forgotten
<1>10. CASE i = b.cur
  <2>1. PICK f : f = Forgotten(r)
    OBVIOUS
  <2>2. /\ Listable(f, k) /\ f.list = r.list /\ f.pinned = r.pinned
        /\ f.shown = r.shown /\ f.focused = r.focused
    BY <1>7, <2>1, ForgottenRight
  <2>3. a = SelectPriv(f, p, FALSE)
    <3>1. ~(i < b.cur)
      BY <1>5, <1>10
    <3> QED
      BY <1>9, <1>10, <2>1, <3>1
  <2>4. Popped(r) \in 0..(n - 1)
    BY <1>6, <1>7, PoppedRight
  <2>5. CASE r.list = <<>>
    <3>1. n - 1 = 0
      BY <1>6, <2>5
    <3>2. p = 0
      BY <1>5, <1>6, <1>8, <2>4, <3>1
    <3>3. a = f
      BY <2>2, <2>3, <2>5, <3>2 DEF SelectPriv, Range0
    <3>4. Listed(a, k) /\ a.list = <<>>
      BY <2>2, <2>5, <3>3 DEF Listed
    <3>5. PinnedFirst(a)
      BY <3>4 DEF PinnedFirst
    <3> QED
      BY <1>6, <2>2, <3>3, <3>4, <3>5 DEF RemovalRight
  <2>6. CASE r.list # <<>>
    <3>1. n - 1 # 0
      BY <1>6, <2>6
    <3>2. p \in 1..(n - 1)
      BY <1>5, <1>6, <1>8, <2>4, <3>1
    <3>3. p \in 1..Len(f.list)
      BY <1>6, <2>2, <3>2
    <3>4. /\ Listed(a, k) /\ a.list = f.list /\ a.pinned = f.pinned /\ Selected(a) = f.list[p]
          /\ a.shown = f.shown \cup {f.list[p]} /\ a.focused = f.focused \cup {f.list[p]}
      <4>1. a = Put(f, p)
        BY <2>3, <3>3 DEF SelectPriv, Range0, Put
      <4> QED
        BY <2>2, <3>3, <4>1, SelectInto
    <3>5. PinnedFirst(b) => PinnedFirst(a)
      BY <1>6, <3>4, <2>2 DEF PinnedFirst
    <3>6. t = Selected(b)
      BY <1>2, <1>5, <1>10
    <3>7. /\ a.shown = (b.shown \ {t}) \cup {Selected(a)}
          /\ a.focused = (b.focused \ {t}) \cup {Selected(a)}
      BY <1>6, <2>2, <3>4
    <3> QED
      BY <1>6, <2>2, <3>4, <3>5, <3>6, <3>7 DEF RemovalRight
  <2> QED
    BY <2>5, <2>6
<1>11. CASE i < b.cur
  <2>1. a = SelectPriv(r, b.cur - 1, FALSE)
    <3>1. i # b.cur /\ i < b.cur
      BY <1>a, <1>11
    <3> QED
      BY <1>9, <3>1
  <2>2. PICK c : c = b.cur - 1
    OBVIOUS
  <2>3. c \in 1..Len(r.list) /\ c \in 1..(n - 1) /\ ~(c < i) /\ c + 1 = b.cur
    <3>1. Len(r.list) = n - 1
      BY <1>6
    <3> QED
      BY <1>a, <1>11, <2>2, <3>1
  <2>4. r.list[c] = Selected(b)
    BY <1>5, <1>6, <2>3
  <2>5. /\ Listed(a, k) /\ a.list = r.list /\ a.pinned = r.pinned /\ Selected(a) = r.list[c]
        /\ a.shown = r.shown \cup {r.list[c]} /\ a.focused = r.focused \cup {r.list[c]}
    <3>1. a = Put(r, c)
      BY <2>1, <2>2, <2>3 DEF SelectPriv, Range0, Put
    <3> QED
      BY <1>7, <2>3, <3>1, SelectInto
  <2>6. t # Selected(b)
    <3>1. i # b.cur
      BY <1>a, <1>11
    <3> QED
      BY <1>2, <1>4, <1>5, <3>1
  <2>7. PinnedFirst(b) => PinnedFirst(a)
    BY <1>6, <2>5 DEF PinnedFirst
  <2> QED
    BY <1>6, <2>4, <2>5, <2>6, <2>7 DEF RemovalRight
<1>12. CASE b.cur < i
  <2>1. a = r
    <3>1. i # b.cur /\ ~(i < b.cur)
      BY <1>a, <1>12
    <3> QED
      BY <1>9, <3>1
  <2>2. b.cur \in 1..(n - 1)
    BY <1>5, <1>12
  <2>3. Selected(a) = Selected(b)
    BY <1>5, <1>6, <1>12, <2>1, <2>2 DEF Selected
  <2>4. Listed(a, k)
    BY <1>6, <1>7, <2>1, <2>2 DEF Listed
  <2>5. t # Selected(b)
    <3>1. i # b.cur
      BY <1>a, <1>12
    <3> QED
      BY <1>2, <1>4, <1>5, <3>1
  <2> QED
    BY <1>6, <2>1, <2>3, <2>4, <2>5 DEF RemovalRight
<1> QED
  BY <1>a, <1>10, <1>11, <1>12

LEMMA ReplacedRight ==
  ASSUME NEW b, NEW k \in Nat, Listed(b, k), NEW t \in ToSet(b.list), NEW a, a = Replaced(b, t)
  PROVE  /\ Listed(a, k) /\ a.list = b.list /\ a.pinned = b.pinned /\ Selected(a) = t
         /\ a.shown = b.shown \cup {t} /\ a.focused = b.focused \cup {t}
<1>1. PICK i : i = CHOOSE j \in Range0(b) : b.list[j] = t
  OBVIOUS
<1>2. i \in 1..Len(b.list) /\ b.list[i] = t
  BY <1>1, PlaceRight
<1>3. PICK h : h = Hidden(b, t)
  OBVIOUS
<1>4. /\ Listed(h, k) /\ h.list = b.list /\ h.pinned = b.pinned
      /\ h.shown = b.shown \ {t} /\ h.focused = b.focused \ {t}
  BY <1>3, HiddenRight
<1>5. a = SelectPriv(h, i, FALSE)
  BY <1>1, <1>3 DEF Replaced
<1>6. Listable(h, k) /\ i \in 1..Len(h.list)
  BY <1>2, <1>4 DEF Listed
<1>7. /\ Listed(a, k) /\ a.list = h.list /\ a.pinned = h.pinned /\ Selected(a) = h.list[i]
      /\ a.shown = h.shown \cup {h.list[i]} /\ a.focused = h.focused \cup {h.list[i]}
  <2>1. a = Put(h, i)
    BY <1>5, <1>6 DEF SelectPriv, Range0, Put
  <2> QED
    BY <1>6, <2>1, SelectInto
<1> QED
  BY <1>2, <1>4, <1>7

(* Tabs.Add: the new tab is the last one. *)
LEMMA AddedRight ==
  ASSUME NEW b, NEW k \in Nat, Listed(b, k), b.list # <<>>, NEW background \in BOOLEAN,
         NEW a, a = Added(b, k + 1, background)
  PROVE  /\ Listed(a, k + 1)
         /\ PinnedFirst(b) => PinnedFirst(a)
         /\ background => /\ Selected(a) = Selected(b)
                          /\ a.shown = b.shown /\ a.focused = b.focused
         /\ ~background => /\ Selected(a) = k + 1
                           /\ a.shown = (b.shown \ {Selected(b)}) \cup {k + 1}
                           /\ a.focused = (b.focused \ {Selected(b)}) \cup {k + 1}
<1>1. PICK n : n = Len(b.list)
  OBVIOUS
<1>2. /\ b.list \in Seq(1..k) /\ n \in Nat /\ b.cur \in 1..n
      /\ \A i \in 1..n : b.list[i] \in 1..k
      /\ \A i, j \in 1..n : b.list[i] = b.list[j] => i = j
  <2>1. /\ b.list \in Seq(1..k)
        /\ \A i, j \in 1..n : b.list[i] = b.list[j] => i = j
    BY <1>1 DEF Listed, Listable, ListedOnce
  <2>2. b.cur \in 1..n
    BY <1>1, SelectedListed
  <2>3. n \in Nat /\ \A i \in 1..n : b.list[i] \in 1..k
    BY <1>1, <2>1
  <2> QED
    BY <2>1, <2>2, <2>3
<1>3. PICK h : h = [b EXCEPT !.list = Append(@, k + 1)]
  OBVIOUS
<1>4. /\ BarShape(h) /\ h.list = Append(b.list, k + 1) /\ h.cur = b.cur /\ h.history = b.history
      /\ h.pinned = b.pinned /\ h.before = b.before /\ h.shown = b.shown /\ h.focused = b.focused
  BY <1>3 DEF Listed, Listable, BarShape
<1>5. /\ h.list \in Seq(1..(k + 1)) /\ Len(h.list) = n + 1
      /\ \A i \in 1..n : h.list[i] = b.list[i]
      /\ h.list[n + 1] = k + 1
  <2>1. b.list \in Seq(1..(k + 1)) /\ k + 1 \in 1..(k + 1)
    <3>1. 1..k \subseteq 1..(k + 1)
      OBVIOUS
    <3> QED
      BY <1>2, <3>1, SeqMonotonic
  <2> QED
    BY <1>1, <1>4, <2>1, AppendProperties
<1>6. \A i, j \in 1..(n + 1) : h.list[i] = h.list[j] => i = j
  <2> SUFFICES ASSUME NEW i \in 1..(n + 1), NEW j \in 1..(n + 1), h.list[i] = h.list[j]
               PROVE  i = j
    OBVIOUS
  <2>a. k + 1 \notin 1..k
    OBVIOUS
  <2>b. \A l \in 1..n : h.list[l] \in 1..k
    BY <1>2, <1>5
  <2>1. \A l \in 1..n : h.list[l] # k + 1
    BY <2>a, <2>b
  <2>2. (i \in 1..n \/ i = n + 1) /\ (j \in 1..n \/ j = n + 1)
    BY <1>2
  <2>3. CASE i \in 1..n /\ j \in 1..n
    BY <1>2, <1>5, <2>3
  <2>4. CASE i = n + 1 \/ j = n + 1
    BY <1>5, <2>1, <2>2, <2>4
  <2> QED
    BY <2>2, <2>3, <2>4
<1>7. HistoryListed(h, k + 1)
  <2>1. b.history \in Seq(1..k) /\ ToSet(b.history) \subseteq ToSet(b.list)
        /\ Len(b.history) <= MaxHistory
    BY DEF Listed, Listable, HistoryListed
  <2>2. b.history \in Seq(1..(k + 1))
    <3>1. 1..k \subseteq 1..(k + 1)
      OBVIOUS
    <3> QED
      BY <2>1, <3>1, SeqMonotonic
  <2>3. ToSet(b.list) \subseteq ToSet(h.list)
    <3>1. DOMAIN b.list = 1..n /\ DOMAIN h.list = 1..(n + 1) /\ 1..n \subseteq 1..(n + 1)
      BY <1>1, <1>2, <1>5
    <3> QED
      BY <1>5, <3>1 DEF ToSet
  <2> QED
    BY <1>4, <2>1, <2>2, <2>3 DEF HistoryListed
<1>8. PinsKnown(h, k + 1)
  BY <1>4 DEF Listed, Listable, PinsKnown
<1>9. Listed(h, k + 1)
  BY <1>2, <1>4, <1>5, <1>6, <1>7, <1>8, SMTT(20) DEF Listed, Listable, ListedOnce
<1>10. k + 1 \notin b.pinned
  BY DEF Listed, Listable, PinsKnown
<1>11. ASSUME PinnedFirst(b) PROVE PinnedFirst(h)
  BY <1>1, <1>2, <1>4, <1>5, <1>10, <1>11, SMTT(20) DEF PinnedFirst
<1>12. Selected(h) = Selected(b)
  BY <1>2, <1>4, <1>5 DEF Selected
<1>13. CASE background
  BY <1>3, <1>4, <1>9, <1>11, <1>12, <1>13 DEF Added
<1>14. CASE ~background
  <2>1. a = Left(h, n + 1)
    BY <1>3, <1>5, <1>14 DEF Added, Left
  <2>2. h.list # <<>> /\ n + 1 \in Int /\ n + 1 \in 1..Len(h.list) /\ k + 1 \in Nat
    BY <1>2, <1>5
  <2>3. /\ Listed(a, k + 1) /\ a.list = h.list /\ a.pinned = h.pinned
        /\ Selected(a) = h.list[n + 1]
        /\ a.shown = (h.shown \ {Selected(h)}) \cup {h.list[n + 1]}
        /\ a.focused = (h.focused \ {Selected(h)}) \cup {h.list[n + 1]}
    BY <1>9, <2>1, <2>2, SelectRight
  <2>4. PinnedFirst(b) => PinnedFirst(a)
    BY <1>11, <2>3 DEF PinnedFirst
  <2> QED
    BY <1>4, <1>5, <1>12, <1>14, <2>3, <2>4
<1> QED
  BY <1>13, <1>14

LEMMA FocusedRight ==
  ASSUME NEW b, NEW k \in Nat, Listed(b, k), NEW F, NEW a, a = [b EXCEPT !.focused = F]
  PROVE  /\ Listed(a, k) /\ a.list = b.list /\ a.pinned = b.pinned /\ Selected(a) = Selected(b)
         /\ a.shown = b.shown /\ a.focused = F
<1>1. /\ BarShape(a) /\ a.list = b.list /\ a.cur = b.cur /\ a.history = b.history
      /\ a.pinned = b.pinned /\ a.before = b.before /\ a.shown = b.shown /\ a.focused = F
  BY DEF Listed, Listable, BarShape
<1>2. Listed(a, k)
  BY <1>1 DEF Listed, Listable, ListedOnce, HistoryListed, PinsKnown
<1> QED
  BY <1>1, <1>2 DEF Selected

(* MoveTab exchanges two tabs, and the selected one stays selected. *)
LEMMA MoveRight ==
  ASSUME NEW b, NEW k \in Nat, Listed(b, k), b.list # <<>>, NEW to \in Int,
         NEW a, a = MoveTab(b, to)
  PROVE  /\ Listed(a, k) /\ a.pinned = b.pinned /\ Selected(a) = Selected(b)
         /\ a.shown = b.shown /\ a.focused = b.focused /\ a.history = b.history
         /\ a.before = b.before
         /\ Len(a.list) = Len(b.list) /\ a.cur \in 1..Len(b.list)
         /\ to \in 1..Len(b.list) => a.cur = to
         /\ \A j \in 1..Len(b.list) :
              a.list[j] = IF j = a.cur THEN b.list[b.cur]
                          ELSE IF j = b.cur THEN b.list[a.cur] ELSE b.list[j]
<1>1. PICK n : n = Len(b.list)
  OBVIOUS
<1>2. PICK c : c = b.cur
  OBVIOUS
<1>3. PICK s : s = b.list
  OBVIOUS
<1>4. s \in Seq(1..k) /\ n = Len(s) /\ n \in Nat /\ n # 0 /\ c \in 1..n
  BY <1>1, <1>2, <1>3, SelectedListed DEF Listed, Listable, ListedOnce
<1>5. \A i, j \in 1..n : s[i] = s[j] => i = j
  BY <1>1, <1>3 DEF Listed, Listable, ListedOnce
<1>6. PICK i : i = IF to < 1 THEN 1 ELSE IF to > n THEN n ELSE to
  OBVIOUS
<1>7. i \in 1..n /\ (to \in 1..n => i = to)
  BY <1>4, <1>6
<1>8. PICK u : u = [s EXCEPT ![c] = s[i], ![i] = s[c]]
  OBVIOUS
<1>9. a = [b EXCEPT !.list = u, !.cur = i]
  BY <1>1, <1>2, <1>3, <1>6, <1>8 DEF MoveTab
<1>10. /\ BarShape(a) /\ a.list = u /\ a.cur = i /\ a.history = b.history
       /\ a.pinned = b.pinned /\ a.before = b.before
       /\ a.shown = b.shown /\ a.focused = b.focused
  BY <1>9 DEF Listed, Listable, BarShape
<1>11. DOMAIN s = 1..n /\ \A j \in 1..n : s[j] \in 1..k
  BY <1>4
<1>12. \A j \in 1..n : u[j] = IF j = i THEN s[c] ELSE IF j = c THEN s[i] ELSE s[j]
  BY <1>4, <1>7, <1>8, <1>11
<1>13. DOMAIN u = 1..n /\ \A j \in 1..n : u[j] \in 1..k
  BY <1>4, <1>7, <1>8, <1>11, <1>12
<1>14. u \in Seq(1..k) /\ Len(u) = n
  <2>1. u \in [1..n -> 1..k]
    BY <1>8, <1>11, <1>13
  <2>2. n \in Nat
    BY <1>4
  <2> QED
    BY <2>1, <2>2
<1>15. \A j, l \in 1..n : u[j] = u[l] => j = l
  <2> SUFFICES ASSUME NEW j \in 1..n, NEW l \in 1..n, u[j] = u[l] PROVE j = l
    OBVIOUS
  <2>1. PICK jj : jj = IF j = i THEN c ELSE IF j = c THEN i ELSE j
    OBVIOUS
  <2>2. PICK ll : ll = IF l = i THEN c ELSE IF l = c THEN i ELSE l
    OBVIOUS
  <2>3. jj \in 1..n /\ ll \in 1..n
    BY <1>4, <1>7, <2>1, <2>2
  <2>4. u[j] = s[jj] /\ u[l] = s[ll]
    BY <1>12, <2>1, <2>2
  <2>5. jj = ll
    BY <1>5, <2>3, <2>4
  <2> QED
    BY <2>1, <2>2, <2>5
<1>16. ToSet(u) = ToSet(s)
  <2>1. ASSUME NEW j \in 1..n PROVE (\E l \in 1..n : u[j] = s[l]) /\ (\E l \in 1..n : s[j] = u[l])
    <3>1. PICK jj : jj = IF j = i THEN c ELSE IF j = c THEN i ELSE j
      OBVIOUS
    <3>2. jj \in 1..n
      BY <1>4, <1>7, <3>1
    <3>3. u[j] = s[jj]
      BY <1>12, <3>1
    <3>4. u[jj] = s[j]
      BY <1>12, <3>1, <3>2
    <3> QED
      BY <3>2, <3>3, <3>4
  <2>2. ASSUME NEW x \in ToSet(u) PROVE x \in ToSet(s)
    <3>1. PICK j \in 1..n : x = u[j]
      BY <1>13 DEF ToSet
    <3>2. PICK l \in 1..n : u[j] = s[l]
      BY <2>1
    <3> QED
      BY <1>11, <3>1, <3>2 DEF ToSet
  <2>3. ASSUME NEW x \in ToSet(s) PROVE x \in ToSet(u)
    <3>1. PICK j \in 1..n : x = s[j]
      BY <1>11 DEF ToSet
    <3>2. PICK l \in 1..n : s[j] = u[l]
      BY <2>1
    <3> QED
      BY <1>13, <3>1, <3>2 DEF ToSet
  <2> QED
    BY <2>2, <2>3
<1>17. ListedOnce(a, k) /\ a.cur <= Len(a.list)
  <2>1. i \in Nat \ {0} /\ i <= n
    BY <1>4, <1>7
  <2> QED
    BY <1>10, <1>14, <1>15, <2>1 DEF ListedOnce
<1>18. HistoryListed(a, k)
  BY <1>3, <1>10, <1>16 DEF Listed, Listable, HistoryListed
<1>19. PinsKnown(a, k)
  BY <1>10 DEF Listed, Listable, PinsKnown
<1>20. Selected(a) = Selected(b)
  BY <1>2, <1>3, <1>7, <1>10, <1>12 DEF Selected
<1>21. /\ Len(a.list) = Len(b.list) /\ a.cur \in 1..Len(b.list)
       /\ to \in 1..Len(b.list) => a.cur = to
  BY <1>1, <1>7, <1>10, <1>14
<1>22. \A j \in 1..Len(b.list) :
         a.list[j] = IF j = a.cur THEN b.list[b.cur]
                     ELSE IF j = b.cur THEN b.list[a.cur] ELSE b.list[j]
  BY <1>1, <1>2, <1>3, <1>10, <1>12
<1>23. Listed(a, k)
  BY <1>10, <1>17, <1>18, <1>19 DEF Listed, Listable
<1> QED
  BY <1>10, <1>20, <1>21, <1>22, <1>23

(* The pinned tabs before the first one that is not. *)
EndsAt(b, e) ==
  /\ e \in 0..Len(b.list)
  /\ \A i \in 1..e : b.list[i] \in b.pinned
  /\ e < Len(b.list) => b.list[e + 1] \notin b.pinned

LEMMA PinEndUnique ==
  ASSUME NEW b, Len(b.list) \in Nat, NEW e, NEW f, EndsAt(b, e), EndsAt(b, f)
  PROVE  e = f
<1>1. e \in Nat /\ f \in Nat /\ e <= Len(b.list) /\ f <= Len(b.list)
  BY DEF EndsAt
<1>2. ~(e < f)
  <2> SUFFICES ASSUME e < f PROVE FALSE
    OBVIOUS
  <2>1. e + 1 \in 1..f /\ e < Len(b.list)
    BY <1>1
  <2> QED
    BY <2>1 DEF EndsAt
<1>3. ~(f < e)
  <2> SUFFICES ASSUME f < e PROVE FALSE
    OBVIOUS
  <2>1. f + 1 \in 1..e /\ f < Len(b.list)
    BY <1>1
  <2> QED
    BY <2>1 DEF EndsAt
<1> QED
  BY <1>1, <1>2, <1>3

LEMMA PinEndRight ==
  ASSUME NEW b, NEW k \in Nat, Listed(b, k)
  PROVE  EndsAt(b, PinEnd(b))
<1>1. PICK n : n = Len(b.list)
  OBVIOUS
<1>2. n \in Nat
  BY <1>1 DEF Listed, Listable, ListedOnce
<1>3. PICK U \in SUBSET (1..n) : U = {i \in 1..n : b.list[i] \notin b.pinned}
  OBVIOUS
<1>4. IsFiniteSet(U) /\ U \subseteq Nat
  <2>1. IsFiniteSet(1..n)
    BY <1>2, FS_Interval
  <2>2. IsFiniteSet(U)
    BY <2>1, FS_Subset
  <2> QED
    BY <1>2, <2>2
<1>5. \E e \in 0..n : EndsAt(b, e)
  <2>1. CASE U = {}
    <3>1. n \in 0..n /\ \A i \in 1..n : b.list[i] \in b.pinned
      BY <1>2, <1>3, <2>1
    <3> QED
      BY <1>1, <3>1 DEF EndsAt
  <2>2. CASE U # {}
    <3>1. Cardinality(U) \in Nat /\ Cardinality(U) # 0
      BY <1>4, <2>2, FS_CardinalityType, FS_EmptySet
    <3>2. 1 \in 1..Cardinality(U)
      BY <3>1
    <3>3. Nth(U, 1) \in U /\ Cardinality({v \in U : v <= Nth(U, 1)}) = 1
      BY <1>4, <3>2, NthRight
    <3>4. PICK m \in U : m = Nth(U, 1)
      BY <3>3
    <3>5. PICK V : V = {v \in U : v <= m}
      OBVIOUS
    <3>6. V \in SUBSET U /\ m \in V
      BY <1>4, <3>5
    <3>7. IsFiniteSet(V) /\ Cardinality(V) = 1
      BY <1>4, <3>3, <3>4, <3>5, <3>6, FS_Subset
    <3>8. V = {m}
      BY <3>6, <3>7, FS_Singleton
    <3>9. \A v \in U : v <= m => v = m
      BY <3>5, <3>8
    <3>10. m \in 1..n
      BY <1>3
    <3>11. m - 1 \in 0..n /\ (m - 1) + 1 = m
      BY <1>2, <3>10
    <3>12. ASSUME NEW i \in 1..(m - 1) PROVE b.list[i] \in b.pinned
      <4>1. i \in 1..n /\ i <= m /\ i # m
        BY <1>2, <3>10
      <4> QED
        BY <1>3, <3>9, <4>1
    <3>13. b.list[m] \notin b.pinned
      BY <1>3
    <3> QED
      BY <1>1, <3>11, <3>12, <3>13 DEF EndsAt
  <2> QED
    BY <2>1, <2>2
<1>6. PinEnd(b) = CHOOSE e \in 0..n : EndsAt(b, e)
  BY <1>1 DEF PinEnd, EndsAt
<1> QED
  BY <1>5, <1>6

(* PinTab exchanges the tab with the first one that is not pinned. *)
LEMMA PinRight ==
  ASSUME NEW b, NEW k \in Nat, Listed(b, k), b.list # <<>>, Selected(b) \notin b.pinned,
         NEW a, a = PinTab(b)
  PROVE  /\ Listed(a, k) /\ Selected(a) = Selected(b)
         /\ a.pinned = b.pinned \cup {Selected(b)}
         /\ a.shown = b.shown /\ a.focused = b.focused
         /\ Len(a.list) = Len(b.list)
         /\ PinEnd(b) + 1 \in 1..Len(b.list) /\ a.cur = PinEnd(b) + 1
         /\ \A j \in 1..Len(b.list) :
              a.list[j] = IF j = PinEnd(b) + 1 THEN b.list[b.cur]
                          ELSE IF j = b.cur THEN b.list[PinEnd(b) + 1] ELSE b.list[j]
         /\ a.before[Selected(b)] = b.cur - 1 - PinEnd(b)
<1>1. PICK n : n = Len(b.list)
  OBVIOUS
<1>2. n \in Nat /\ b.cur \in 1..n /\ Selected(b) \in 1..k /\ Selected(b) = b.list[b.cur]
  BY <1>1, SelectedListed DEF Listed, Listable, ListedOnce, Selected
<1>3. PICK e : e = PinEnd(b)
  OBVIOUS
<1>4. EndsAt(b, e)
  BY <1>3, PinEndRight
<1>5. e \in 0..n /\ \A i \in 1..e : b.list[i] \in b.pinned
  BY <1>1, <1>4 DEF EndsAt
<1>6. e + 1 \in 1..n /\ e \in Int
  <2>1. CASE e = n
    BY <1>2, <1>5, <2>1
  <2>2. CASE e # n
    BY <1>2, <1>5, <2>2
  <2> QED
    BY <2>1, <2>2
<1>7. PICK t : t = Selected(b)
  OBVIOUS
<1>8. PICK c : c = b.cur - 1 - e
  OBVIOUS
<1>9. PICK w : w = [s \in b.pinned \cup {t} |->
                      IF s = t THEN c
                      ELSE IF b.before[s] > c THEN b.before[s] - 1 ELSE b.before[s]]
  OBVIOUS
<1>11. PICK h : h = [b EXCEPT !.pinned = @ \cup {t}, !.before = w]
  OBVIOUS
<1>12. a = MoveTab(h, e + 1)
  BY <1>3, <1>7, <1>8, <1>9, <1>11 DEF PinTab
<1>13. /\ BarShape(h) /\ h.list = b.list /\ h.cur = b.cur /\ h.history = b.history
       /\ h.pinned = b.pinned \cup {t} /\ h.before = w
       /\ h.shown = b.shown /\ h.focused = b.focused
  BY <1>11 DEF Listed, Listable, BarShape
<1>14. c \in Int
  BY <1>2, <1>6, <1>8
<1>15. DOMAIN w = b.pinned \cup {t} /\ w[t] = c
       /\ \A s \in b.pinned : w[s] = IF s = t THEN c
                                     ELSE IF b.before[s] > c THEN b.before[s] - 1 ELSE b.before[s]
  BY <1>9
<1>16. PinsKnown(h, k)
  <2>1. /\ b.pinned \subseteq 1..k /\ b.pinned \subseteq DOMAIN b.before
        /\ \A s \in DOMAIN b.before : b.before[s] \in Int
    BY DEF Listed, Listable, PinsKnown
  <2>2. \A s \in DOMAIN w : w[s] \in Int
    BY <1>14, <1>15, <2>1
  <2> QED
    BY <1>2, <1>7, <1>13, <1>15, <2>1, <2>2 DEF PinsKnown
<1>17. Listed(h, k) /\ h.list # <<>> /\ Selected(h) = Selected(b)
  BY <1>13, <1>16 DEF Listed, Listable, ListedOnce, HistoryListed, Selected
<1>18. e + 1 \in Int /\ e + 1 \in 1..Len(h.list)
  BY <1>1, <1>6, <1>13
<1>19. /\ Listed(a, k) /\ a.pinned = h.pinned /\ Selected(a) = Selected(h)
       /\ a.shown = h.shown /\ a.focused = h.focused /\ a.before = h.before
       /\ Len(a.list) = Len(h.list) /\ a.cur = e + 1
       /\ \A j \in 1..Len(h.list) :
            a.list[j] = IF j = a.cur THEN h.list[h.cur]
                        ELSE IF j = h.cur THEN h.list[a.cur] ELSE h.list[j]
  BY <1>12, <1>17, <1>18, MoveRight
<1>20. /\ Listed(a, k) /\ Selected(a) = Selected(b)
       /\ a.pinned = b.pinned \cup {Selected(b)}
       /\ a.shown = b.shown /\ a.focused = b.focused
       /\ Len(a.list) = Len(b.list)
  BY <1>7, <1>13, <1>17, <1>19
<1>21. /\ e + 1 \in 1..Len(b.list) /\ a.cur = e + 1
       /\ a.before[Selected(b)] = b.cur - 1 - e
  BY <1>1, <1>6, <1>7, <1>8, <1>13, <1>15, <1>19
<1>22. \A j \in 1..Len(b.list) :
         a.list[j] = IF j = e + 1 THEN b.list[b.cur]
                     ELSE IF j = b.cur THEN b.list[e + 1] ELSE b.list[j]
  BY <1>13, <1>19
<1> QED
  BY <1>3, <1>20, <1>21, <1>22

LEMMA PinFirst ==
  ASSUME NEW b, NEW k \in Nat, Listed(b, k), b.list # <<>>, Selected(b) \notin b.pinned,
         PinnedFirst(b), NEW a, a = PinTab(b)
  PROVE  PinnedFirst(a) /\ EndsAt(a, PinEnd(b) + 1)
<1>1. PICK n : n = Len(b.list)
  OBVIOUS
<1>2. PICK e : e = PinEnd(b)
  OBVIOUS
<1>3. PICK c : c = b.cur
  OBVIOUS
<1>4. n \in Nat /\ c \in 1..n /\ Selected(b) = b.list[c]
  BY <1>1, <1>3, SelectedListed DEF Listed, Listable, ListedOnce, Selected
<1>5. e \in 0..n /\ e + 1 \in 1..n
      /\ (\A i \in 1..e : b.list[i] \in b.pinned)
      /\ b.list[e + 1] \notin b.pinned
  <2>1. EndsAt(b, e)
    BY <1>2, PinEndRight
  <2>2. e + 1 \in 1..n
    BY <1>1, <1>2, PinRight
  <2>3. e \in 0..n /\ e < n
    BY <1>1, <1>4, <2>1, <2>2 DEF EndsAt
  <2> QED
    BY <1>1, <2>1, <2>2, <2>3 DEF EndsAt
<1>6. /\ a.pinned = b.pinned \cup {b.list[c]} /\ Len(a.list) = n
      /\ \A j \in 1..n : a.list[j] = IF j = e + 1 THEN b.list[c]
                                     ELSE IF j = c THEN b.list[e + 1] ELSE b.list[j]
  BY <1>1, <1>2, <1>3, <1>4, PinRight
<1>7. \A i, j \in 1..n : b.list[i] = b.list[j] => i = j
  BY <1>1 DEF Listed, Listable, ListedOnce
<1>8. ASSUME NEW j \in 1..n, e + 1 < j PROVE a.list[j] \notin a.pinned
  <2>1. \A l \in 1..n : l > e => b.list[l] \notin b.pinned
    BY <1>1, <1>4, <1>5 DEF PinnedFirst
  <2>2. CASE j = c
    <3>1. a.list[j] = b.list[e + 1] /\ e + 1 # c
      BY <1>4, <1>5, <1>6, <1>8, <2>2
    <3> QED
      BY <1>4, <1>5, <1>6, <1>7, <3>1
  <2>3. CASE j # c
    <3>1. a.list[j] = b.list[j] /\ j > e
      BY <1>4, <1>5, <1>6, <1>8, <2>3
    <3> QED
      BY <1>4, <1>6, <1>7, <2>1, <2>3, <3>1
  <2> QED
    BY <2>2, <2>3
<1>9. ASSUME NEW j \in 1..n, j <= e + 1 PROVE a.list[j] \in a.pinned
  <2>1. CASE j = e + 1
    BY <1>5, <1>6, <2>1
  <2>2. CASE j # e + 1
    <3>1. j \in 1..e
      BY <1>5, <1>9, <2>2
    <3>2. j # c
      BY <1>4, <1>5, <3>1
    <3> QED
      BY <1>5, <1>6, <2>2, <3>1, <3>2
  <2> QED
    BY <2>1, <2>2
<1>10. PinnedFirst(a)
  <2> SUFFICES ASSUME NEW i \in 1..n, NEW j \in 1..n, i < j, a.list[j] \in a.pinned
               PROVE  a.list[i] \in a.pinned
    BY <1>6 DEF PinnedFirst
  <2>1. ~(e + 1 < j)
    BY <1>8
  <2>2. i <= e + 1
    BY <1>5, <2>1
  <2> QED
    BY <1>9, <2>2
<1>11. EndsAt(a, e + 1)
  <2>1. e + 1 \in 0..n
    BY <1>5
  <2>2. \A i \in 1..(e + 1) : a.list[i] \in a.pinned
    <3> SUFFICES ASSUME NEW i \in 1..(e + 1) PROVE a.list[i] \in a.pinned
      OBVIOUS
    <3>1. i \in 1..n /\ i <= e + 1
      BY <1>4, <1>5
    <3> QED
      BY <1>9, <3>1
  <2>3. e + 1 < n => a.list[(e + 1) + 1] \notin a.pinned
    <3> SUFFICES ASSUME e + 1 < n PROVE a.list[(e + 1) + 1] \notin a.pinned
      OBVIOUS
    <3>1. (e + 1) + 1 \in 1..n /\ e + 1 < (e + 1) + 1
      BY <1>4, <1>5
    <3> QED
      BY <1>8, <3>1
  <2> QED
    BY <1>6, <2>1, <2>2, <2>3 DEF EndsAt
<1> QED
  BY <1>2, <1>10, <1>11

(* UnpinTab moves the tab as far as it was moved when it was pinned. *)
LEMMA UnpinRight ==
  ASSUME NEW b, NEW k \in Nat, Listed(b, k), b.list # <<>>, Selected(b) \in b.pinned,
         NEW a, a = UnpinTab(b)
  PROVE  /\ Listed(a, k) /\ Selected(a) = Selected(b)
         /\ a.pinned = b.pinned \ {Selected(b)}
         /\ a.shown = b.shown /\ a.focused = b.focused
         /\ Len(a.list) = Len(b.list) /\ a.cur \in 1..Len(b.list)
         /\ b.before[Selected(b)] + PinEnd(b) \in 1..Len(b.list) =>
              a.cur = b.before[Selected(b)] + PinEnd(b)
         /\ \A j \in 1..Len(b.list) :
              a.list[j] = IF j = a.cur THEN b.list[b.cur]
                          ELSE IF j = b.cur THEN b.list[a.cur] ELSE b.list[j]
<1>1. PICK e : e = PinEnd(b)
  OBVIOUS
<1>2. e \in Int
  BY <1>1, PinEndRight DEF EndsAt
<1>3. PICK t : t = Selected(b)
  OBVIOUS
<1>4. PICK run : run = {b.list[i] : i \in 1..PinEnd(b)} \ {t}
  OBVIOUS
<1>5. PICK w : w = [s \in DOMAIN b.before |->
                     IF s \in run /\ b.before[s] > b.before[t] THEN b.before[s] + 1
                     ELSE b.before[s]]
  OBVIOUS
<1>6. PICK h : h = [b EXCEPT !.pinned = @ \ {t}, !.before = w]
  OBVIOUS
<1>7. a = MoveTab(h, b.before[t] + e)
  BY <1>1, <1>3, <1>4, <1>5, <1>6 DEF UnpinTab
<1>8. /\ BarShape(h) /\ h.list = b.list /\ h.cur = b.cur /\ h.history = b.history
      /\ h.pinned = b.pinned \ {t} /\ h.before = w
      /\ h.shown = b.shown /\ h.focused = b.focused
  BY <1>6 DEF Listed, Listable, BarShape
<1>9. /\ b.pinned \subseteq 1..k /\ b.pinned \subseteq DOMAIN b.before
      /\ \A s \in DOMAIN b.before : b.before[s] \in Int
  BY DEF Listed, Listable, PinsKnown
<1>10. DOMAIN w = DOMAIN b.before /\ \A s \in DOMAIN w : w[s] \in Int
  BY <1>5, <1>9
<1>11. PinsKnown(h, k)
  BY <1>8, <1>9, <1>10 DEF PinsKnown
<1>12. Listed(h, k) /\ h.list # <<>> /\ Selected(h) = Selected(b)
  BY <1>8, <1>11 DEF Listed, Listable, ListedOnce, HistoryListed, Selected
<1>13. b.before[t] \in Int
  BY <1>3, <1>9
<1>14. PICK to \in Int : to = b.before[t] + e
  BY <1>2, <1>13
<1>15. /\ Listed(a, k) /\ a.pinned = h.pinned /\ Selected(a) = Selected(h)
       /\ a.shown = h.shown /\ a.focused = h.focused
       /\ Len(a.list) = Len(h.list) /\ a.cur \in 1..Len(h.list)
       /\ to \in 1..Len(h.list) => a.cur = to
       /\ \A j \in 1..Len(h.list) :
            a.list[j] = IF j = a.cur THEN h.list[h.cur]
                        ELSE IF j = h.cur THEN h.list[a.cur] ELSE h.list[j]
  BY <1>7, <1>12, <1>14, MoveRight, SMTT(20)
<1>16. /\ Listed(a, k) /\ Selected(a) = Selected(b)
       /\ a.pinned = b.pinned \ {Selected(b)}
       /\ a.shown = b.shown /\ a.focused = b.focused
       /\ Len(a.list) = Len(b.list) /\ a.cur \in 1..Len(b.list)
  BY <1>3, <1>8, <1>12, <1>15
<1>17. b.before[Selected(b)] + PinEnd(b) \in 1..Len(b.list) =>
         a.cur = b.before[Selected(b)] + PinEnd(b)
  BY <1>1, <1>3, <1>8, <1>14, <1>15
<1>18. \A j \in 1..Len(b.list) :
         a.list[j] = IF j = a.cur THEN b.list[b.cur]
                     ELSE IF j = b.cur THEN b.list[a.cur] ELSE b.list[j]
  BY <1>8, <1>15
<1> QED
  BY <1>16, <1>17, <1>18

(* A pinned tab that is unpinned at once is back at its place. *)
LEMMA PinsReturn ==
  ASSUME NEW b, NEW k \in Nat, Listed(b, k), b.list # <<>>, Selected(b) \notin b.pinned,
         PinnedFirst(b)
  PROVE  UnpinTab(PinTab(b)).list = b.list /\ UnpinTab(PinTab(b)).cur = b.cur
<1>1. PICK p : p = PinTab(b)
  OBVIOUS
<1>2. PICK u : u = UnpinTab(p)
  OBVIOUS
<1>3. PICK n : n = Len(b.list)
  OBVIOUS
<1>4. PICK e : e = PinEnd(b)
  OBVIOUS
<1>5. PICK c : c = b.cur
  OBVIOUS
<1>6. n \in Nat /\ c \in 1..n /\ b.list \in Seq(1..k)
  BY <1>3, <1>5, SelectedListed DEF Listed, Listable, ListedOnce
<1>7. /\ Listed(p, k) /\ Selected(p) = Selected(b) /\ p.pinned = b.pinned \cup {Selected(b)}
      /\ Len(p.list) = n /\ e + 1 \in 1..n /\ p.cur = e + 1
      /\ \A j \in 1..n : p.list[j] = IF j = e + 1 THEN b.list[c]
                                     ELSE IF j = c THEN b.list[e + 1] ELSE b.list[j]
      /\ p.before[Selected(b)] = c - 1 - e
  BY <1>1, <1>3, <1>4, <1>5, PinRight
<1>8. PinEnd(p) = e + 1
  <2>1. EndsAt(p, e + 1)
    BY <1>1, <1>4, PinFirst
  <2>2. EndsAt(p, PinEnd(p))
    BY <1>7, PinEndRight
  <2>3. Len(p.list) \in Nat
    BY <1>6, <1>7
  <2> QED
    BY <2>1, <2>2, <2>3, PinEndUnique
<1>9. e \in Int
  BY <1>4, PinEndRight DEF EndsAt
<1>10. p.before[Selected(p)] + PinEnd(p) = c
  BY <1>6, <1>7, <1>8, <1>9
<1>11. p.list # <<>> /\ Selected(p) \in p.pinned
  BY <1>6, <1>7
<1>12. /\ Listed(u, k) /\ Len(u.list) = Len(p.list)
       /\ p.before[Selected(p)] + PinEnd(p) \in 1..Len(p.list) =>
            u.cur = p.before[Selected(p)] + PinEnd(p)
       /\ \A j \in 1..Len(p.list) :
            u.list[j] = IF j = u.cur THEN p.list[p.cur]
                        ELSE IF j = p.cur THEN p.list[u.cur] ELSE p.list[j]
  BY <1>2, <1>7, <1>11, UnpinRight
<1>13. /\ Len(u.list) = n /\ u.cur = c
       /\ \A j \in 1..n : u.list[j] = IF j = c THEN p.list[e + 1]
                                      ELSE IF j = e + 1 THEN p.list[c] ELSE p.list[j]
  BY <1>6, <1>7, <1>10, <1>12
<1>14. ASSUME NEW j \in 1..n PROVE u.list[j] = b.list[j]
  <2>1. CASE j = c
    BY <1>6, <1>7, <1>13, <2>1
  <2>2. CASE j # c /\ j = e + 1
    BY <1>6, <1>7, <1>13, <2>2
  <2>3. CASE j # c /\ j # e + 1
    BY <1>7, <1>13, <2>3
  <2> QED
    BY <2>1, <2>2, <2>3
<1>15. u.list \in Seq(1..k)
  BY <1>12 DEF Listed, Listable, ListedOnce
<1>16. u.list = b.list
  <2>1. PICK s \in Seq(1..k) : s = u.list
    BY <1>15
  <2>2. PICK t \in Seq(1..k) : t = b.list
    BY <1>6
  <2>3. Len(s) = Len(t) /\ \A i \in 1..Len(s) : s[i] = t[i]
    BY <1>3, <1>13, <1>14, <2>1, <2>2
  <2> QED
    BY <2>1, <2>2, <2>3, SeqEqual
<1> QED
  BY <1>1, <1>2, <1>5, <1>13, <1>16

-----------------------------------------------------------------------------
(* Tabs: the focus. *)

Free == committing = "no" /\ line = 0
Typed == committing = "no" /\ line # 0

TabKinds == {"account", "broken", "viewer", "term"}
BarListed == tab_kind \in Seq(TabKinds) /\ Listed(bar, Len(tab_kind))

LinesStacked ==
  /\ lines \in Seq([prompt : BOOLEAN, previous : Nat]) /\ line = Len(lines)
  /\ \A i \in 1..Len(lines) : lines[i].previous = i - 1

(* While a command from the command line runs, the selected tab may have the focus or not. *)
FocusKept ==
  bar.list # <<>> =>
    /\ Selected(bar) \in bar.shown
    /\ bar.shown \subseteq {Selected(bar)} \cup stray
    /\ bar.focused \subseteq {Selected(bar)} \cup stray
    /\ Free => Selected(bar) \in bar.focused
    /\ Typed => bar.focused \subseteq stray

PinsKept == shuffled = {} => PinnedFirst(bar)

BarKept == BarListed /\ FocusKept /\ PinsKept
TabsIInv == BarKept /\ LinesStacked

LEMMA BarRests ==
  ASSUME BarKept, bar' = bar, tab_kind' = tab_kind, stray' = stray,
         shuffled' = shuffled \/ shuffled' # {}, Free' => Free, Typed' => Typed
  PROVE  BarKept'
BY DEF BarKept, BarListed, FocusKept, PinsKept

(* Another tab is selected by a command, which may have taken one from the history. *)
LEMMA BarLeft ==
  ASSUME BarKept, bar.list # <<>>, NEW h, Listed(h, Len(tab_kind)), h.list = bar.list,
         h.cur = bar.cur, h.pinned = bar.pinned, h.shown = bar.shown, h.focused = bar.focused,
         NEW i \in Int, bar' = Left(h, i), tab_kind' = tab_kind,
         stray' = stray \ {Selected(bar)}, shuffled' = shuffled, Free' => Free, ~Typed'
  PROVE  BarKept'
<1>1. PICK k \in Nat : k = Len(tab_kind)
  BY DEF BarKept, BarListed
<1>2. Selected(h) = Selected(bar) /\ h.list # <<>> /\ Listed(h, k)
  BY <1>1 DEF Selected
<1>3. PICK a : a = Left(h, i)
  OBVIOUS
<1>4. /\ Listed(a, k)
      /\ a.list = h.list /\ a.pinned = h.pinned
      /\ i \notin 1..Len(h.list) => a = h
      /\ i \in 1..Len(h.list) =>
           /\ Selected(a) = h.list[i]
           /\ a.shown = (h.shown \ {Selected(h)}) \cup {h.list[i]}
           /\ a.focused = (h.focused \ {Selected(h)}) \cup {h.list[i]}
  BY <1>2, <1>3, SelectRight
<1>5. BarListed'
  BY <1>1, <1>3, <1>4 DEF BarKept, BarListed
<1>6. PinsKept'
  BY <1>3, <1>4 DEF BarKept, PinsKept, PinnedFirst
<1>7. FocusKept'
  <2>1. /\ Selected(bar) \in bar.shown
        /\ bar.shown \subseteq {Selected(bar)} \cup stray
        /\ bar.focused \subseteq {Selected(bar)} \cup stray
        /\ Free => Selected(bar) \in bar.focused
    BY DEF BarKept, FocusKept
  <2>2. CASE i \notin 1..Len(h.list)
    <3>1. bar' = h
      BY <1>3, <1>4, <2>2
    <3>2. Selected(bar') = Selected(bar) /\ bar'.shown = bar.shown /\ bar'.focused = bar.focused
      BY <1>2, <3>1
    <3> QED
      BY <2>1, <3>2 DEF FocusKept
  <2>3. CASE i \in 1..Len(h.list)
    <3>1. /\ bar'.shown = (bar.shown \ {Selected(bar)}) \cup {Selected(bar')}
          /\ bar'.focused = (bar.focused \ {Selected(bar)}) \cup {Selected(bar')}
      BY <1>2, <1>3, <1>4, <2>3
    <3> QED
      BY <2>1, <3>1 DEF FocusKept
  <2> QED
    BY <2>2, <2>3
<1> QED
  BY <1>5, <1>6, <1>7 DEF BarKept

LEMMA SelectsKept == BarKept /\ Selects => BarKept'
<1> SUFFICES ASSUME BarKept, Selects PROVE BarKept'
  OBVIOUS
<1>1. /\ bar.list # <<>> /\ tab_kind' = tab_kind /\ shuffled' = shuffled
      /\ stray' = stray \ {Selected(bar)} /\ line' = line
  BY DEF Selects, Command
<1>2. (Free' => Free) /\ ~Typed'
  BY DEF Selects, Command, Free, Typed
<1>3. PICK k \in Nat : k = Len(tab_kind)
  BY DEF BarKept, BarListed
<1>4. Listed(bar, k)
  BY <1>3 DEF BarKept, BarListed
<1>5. bar.cur \in 1..Len(bar.list) /\ Len(bar.list) \in Nat
  BY <1>1, <1>4, SelectedListed DEF Listed, Listable, ListedOnce
<1>6. ASSUME NEW i \in Range0(bar), bar' = SelectPriv(bar, i, TRUE) PROVE BarKept'
  <2>1. i \in Int /\ bar' = Left(bar, i)
    BY <1>5, <1>6 DEF Range0, Left
  <2> QED
    BY <1>1, <1>2, <1>3, <1>4, <2>1, BarLeft
<1>7. ASSUME NEW n \in {1, -1}, bar' = SelectOffset(bar, n) PROVE BarKept'
  <2>1. PICK i : i = ((bar.cur - 1 + n) % Len(bar.list)) + 1
    OBVIOUS
  <2>2. bar' = Left(bar, i)
    BY <1>7, <2>1 DEF SelectOffset, Left
  <2>3. i \in Int
    <3>1. Len(bar.list) > 0 /\ bar.cur - 1 + n \in Int
      BY <1>5
    <3>2. (bar.cur - 1 + n) % Len(bar.list) \in Int
      BY <1>5, <3>1
    <3> QED
      BY <2>1, <3>2
  <2> QED
    BY <1>1, <1>2, <1>3, <1>4, <2>2, <2>3, BarLeft
<1>8. ASSUME bar' = SelectPrevious(bar) PROVE BarKept'
  <2>1. PICK h : h = Forgotten(bar)
    OBVIOUS
  <2>2. PICK i : i = Popped(bar)
    OBVIOUS
  <2>3. bar' = Left(h, i)
    BY <1>8, <2>1, <2>2 DEF SelectPrevious, Forgotten, Left
  <2>4. Listable(bar, k)
    BY <1>4 DEF Listed
  <2>5. i \in Int
    BY <1>5, <2>2, <2>4, PoppedRight
  <2>6. /\ Listable(h, k) /\ h.list = bar.list /\ h.cur = bar.cur /\ h.pinned = bar.pinned
        /\ h.shown = bar.shown /\ h.focused = bar.focused
    BY <2>1, <2>4, ForgottenRight
  <2>7. Listed(h, k)
    BY <1>4, <2>6 DEF Listed
  <2> QED
    BY <1>1, <1>2, <1>3, <2>3, <2>5, <2>6, <2>7, BarLeft
<1> QED
  BY <1>6, <1>7, <1>8 DEF Selects

LEMMA OpensKept == BarKept /\ Opens => BarKept'
<1> SUFFICES ASSUME BarKept, Opens PROVE BarKept'
  OBVIOUS
<1>1. PICK sort \in {"viewer", "term"}, background \in BOOLEAN :
        /\ bar' = Added(bar, Len(tab_kind) + 1, background)
        /\ tab_kind' = Append(tab_kind, sort)
        /\ stray' = IF background THEN stray ELSE stray \ {Selected(bar)}
  BY DEF Opens
<1>2. bar.list # <<>> /\ shuffled' = shuffled /\ line' = line
  BY DEF Opens, Command
<1>3. (Free' => Free) /\ ~Typed'
  BY DEF Opens, Command, Free, Typed
<1>4. PICK k : k = Len(tab_kind)
  OBVIOUS
<1>5. k \in Nat /\ Listed(bar, k)
  BY <1>4 DEF BarKept, BarListed
<1>6. PICK a : a = Added(bar, k + 1, background)
  OBVIOUS
<1>7. /\ Listed(a, k + 1)
      /\ PinnedFirst(bar) => PinnedFirst(a)
      /\ background => /\ Selected(a) = Selected(bar)
                       /\ a.shown = bar.shown /\ a.focused = bar.focused
      /\ ~background => /\ Selected(a) = k + 1
                        /\ a.shown = (bar.shown \ {Selected(bar)}) \cup {k + 1}
                        /\ a.focused = (bar.focused \ {Selected(bar)}) \cup {k + 1}
  BY <1>2, <1>5, <1>6, AddedRight
<1>8. bar' = a
  BY <1>1, <1>4, <1>6
<1>9. tab_kind' \in Seq(TabKinds) /\ Len(tab_kind') = k + 1
  <2>1. tab_kind \in Seq(TabKinds) /\ sort \in TabKinds
    BY <1>1 DEF BarKept, BarListed, TabKinds
  <2> QED
    BY <1>1, <1>4, <2>1, AppendProperties
<1>10. BarListed'
  BY <1>7, <1>8, <1>9 DEF BarListed
<1>11. PinsKept'
  BY <1>2, <1>7, <1>8 DEF BarKept, PinsKept
<1>12. FocusKept'
  <2>1. /\ Selected(bar) \in bar.shown
        /\ bar.shown \subseteq {Selected(bar)} \cup stray
        /\ bar.focused \subseteq {Selected(bar)} \cup stray
        /\ Free => Selected(bar) \in bar.focused
    BY <1>2 DEF BarKept, FocusKept
  <2>2. CASE background
    <3>1. stray' = stray
      BY <1>1, <2>2
    <3> QED
      BY <1>3, <1>7, <1>8, <2>1, <2>2, <3>1 DEF FocusKept
  <2>3. CASE ~background
    <3>1. stray' = stray \ {Selected(bar)}
      BY <1>1, <2>3
    <3>2. /\ bar'.shown = (bar.shown \ {Selected(bar)}) \cup {Selected(bar')}
          /\ bar'.focused = (bar.focused \ {Selected(bar)}) \cup {Selected(bar')}
      BY <1>7, <1>8, <2>3
    <3> QED
      BY <1>3, <2>1, <3>1, <3>2 DEF FocusKept
  <2> QED
    BY <2>2, <2>3
<1> QED
  BY <1>10, <1>11, <1>12 DEF BarKept

(* The list is in another order, or tabs are pinned, and the selected tab stays selected. *)
LEMMA BarOrdered ==
  ASSUME BarKept, bar.list # <<>>, Listed(bar', Len(tab_kind)), Selected(bar') = Selected(bar),
         bar'.shown = bar.shown, bar'.focused = bar.focused, tab_kind' = tab_kind,
         stray' = stray, shuffled' = {} => PinnedFirst(bar'), Free' => Free, Typed' => Typed
  PROVE  BarKept'
<1>1. BarListed'
  BY DEF BarKept, BarListed
<1>2. PinsKept'
  BY DEF PinsKept
<1>3. FocusKept'
  BY DEF BarKept, FocusKept
<1> QED
  BY <1>1, <1>2, <1>3 DEF BarKept

LEMMA MovesKept == BarKept /\ Moves => BarKept'
<1> SUFFICES ASSUME BarKept, Moves PROVE BarKept'
  OBVIOUS
<1>1. PICK i \in Range0(bar) :
        /\ bar' = MoveTab(bar, i)
        /\ shuffled' = shuffled \cup {bar.list[i], Selected(bar)}
  BY DEF Moves
<1>2. bar.list # <<>> /\ tab_kind' = tab_kind /\ stray' = stray /\ line' = line
  BY DEF Moves, Command
<1>3. (Free' => Free) /\ (Typed' => Typed)
  BY DEF Moves, Command, Free, Typed
<1>4. PICK k \in Nat : k = Len(tab_kind)
  BY DEF BarKept, BarListed
<1>5. Listed(bar, k) /\ Len(bar.list) \in Nat
  BY <1>4 DEF BarKept, BarListed, Listed, Listable, ListedOnce
<1>6. i \in Int
  BY <1>5 DEF Range0
<1>7. PICK a : a = MoveTab(bar, i)
  OBVIOUS
<1>8. /\ Listed(a, k) /\ Selected(a) = Selected(bar)
      /\ a.shown = bar.shown /\ a.focused = bar.focused
  BY <1>2, <1>5, <1>6, <1>7, MoveRight
<1>9. shuffled' # {}
  BY <1>1
<1> QED
  BY <1>1, <1>2, <1>3, <1>4, <1>7, <1>8, <1>9, BarOrdered

LEMMA PinsKeptStep == BarKept /\ Pins => BarKept'
<1> SUFFICES ASSUME BarKept, Pins PROVE BarKept'
  OBVIOUS
<1>1. bar.list # <<>> /\ tab_kind' = tab_kind /\ stray' = stray /\ line' = line
  BY DEF Pins, Command
<1>2. (Free' => Free) /\ (Typed' => Typed)
  BY DEF Pins, Command, Free, Typed
<1>3. PICK k \in Nat : k = Len(tab_kind)
  BY DEF BarKept, BarListed
<1>4. Listed(bar, k)
  BY <1>3 DEF BarKept, BarListed
<1>5. ASSUME bar' = bar PROVE BarKept'
  <2>1. shuffled' = shuffled
    BY <1>5 DEF Pins
  <2> QED
    BY <1>1, <1>2, <1>5, <2>1, BarRests
<1>6. ASSUME bar' = PinTab(bar), shuffled' = shuffled PROVE BarKept'
  <2>1. CASE Selected(bar) \in bar.pinned
    BY <1>5, <1>6, <2>1 DEF PinTab
  <2>2. CASE Selected(bar) \notin bar.pinned
    <3>1. PICK a : a = PinTab(bar)
      OBVIOUS
    <3>2. /\ Listed(a, k) /\ Selected(a) = Selected(bar)
          /\ a.shown = bar.shown /\ a.focused = bar.focused
      BY <1>1, <1>4, <2>2, <3>1, PinRight
    <3>3. PinnedFirst(bar) => PinnedFirst(a)
      BY <1>1, <1>4, <2>2, <3>1, PinFirst
    <3>4. shuffled' = {} => PinnedFirst(a)
      BY <1>6, <3>3 DEF BarKept, PinsKept
    <3> QED
      BY <1>1, <1>2, <1>3, <1>6, <3>1, <3>2, <3>4, BarOrdered
  <2> QED
    BY <2>1, <2>2
<1>7. ASSUME bar' = UnpinTab(bar),
             shuffled' = IF bar' = bar THEN shuffled
                         ELSE shuffled \cup bar.pinned \cup ToSet(bar.list)
      PROVE  BarKept'
  <2>1. CASE Selected(bar) \notin bar.pinned
    BY <1>5, <1>7, <2>1 DEF UnpinTab
  <2>2. CASE Selected(bar) \in bar.pinned
    <3>1. PICK a : a = UnpinTab(bar)
      OBVIOUS
    <3>2. /\ Listed(a, k) /\ Selected(a) = Selected(bar)
          /\ a.pinned = bar.pinned \ {Selected(bar)}
          /\ a.shown = bar.shown /\ a.focused = bar.focused
      BY <1>1, <1>4, <2>2, <3>1, UnpinRight
    <3>3. bar' # bar
      BY <1>7, <2>2, <3>1, <3>2
    <3>4. shuffled' # {}
      BY <1>7, <2>2, <3>3
    <3> QED
      BY <1>1, <1>2, <1>3, <1>7, <3>1, <3>2, <3>4, BarOrdered
  <2> QED
    BY <2>1, <2>2
<1> QED
  BY <1>6, <1>7 DEF Pins

LEMMA OthersKept == BarKept /\ Others => BarKept'
<1> SUFFICES ASSUME BarKept, Others PROVE BarKept'
  OBVIOUS
<1>1. bar' = bar /\ tab_kind' = tab_kind /\ stray' = stray /\ shuffled' = shuffled
  BY DEF Others
<1>2. (Free' => Free) /\ (Typed' => Typed)
  BY DEF Others, Command, Free, Typed
<1> QED
  BY <1>1, <1>2, BarRests

(* A tab is removed, by a command or by an event; the one selected then gets the focus at
   least if the one before had it. *)
LEMMA BarRemoved ==
  ASSUME BarKept, NEW t \in ToSet(bar.list), RemovalRight(bar, bar', t, Len(tab_kind)),
         tab_kind' = tab_kind, shuffled' = shuffled, stray \ {t} \subseteq stray',
         Free' => Free, Typed' => bar'.focused \subseteq stray'
  PROVE  BarKept'
<1>1. bar.list # <<>>
  <2>1. DOMAIN bar.list # {}
    BY DEF ToSet
  <2> QED
    BY <2>1
<1>2. /\ Selected(bar) \in bar.shown
      /\ bar.shown \subseteq {Selected(bar)} \cup stray
      /\ bar.focused \subseteq {Selected(bar)} \cup stray
      /\ Free => Selected(bar) \in bar.focused
  BY <1>1 DEF BarKept, FocusKept
<1>3. BarListed' /\ PinsKept'
  BY DEF RemovalRight, BarKept, BarListed, PinsKept
<1>4. FocusKept'
  <2> SUFFICES ASSUME bar'.list # <<>>
               PROVE  /\ Selected(bar') \in bar'.shown
                      /\ bar'.shown \subseteq {Selected(bar')} \cup stray'
                      /\ bar'.focused \subseteq {Selected(bar')} \cup stray'
                      /\ Free' => Selected(bar') \in bar'.focused
    BY DEF FocusKept
  <2>1. /\ bar'.shown \in {bar.shown \ {t}, (bar.shown \ {t}) \cup {Selected(bar')}}
        /\ bar'.focused \in {bar.focused \ {t}, (bar.focused \ {t}) \cup {Selected(bar')}}
        /\ t # Selected(bar) => Selected(bar') = Selected(bar)
        /\ t = Selected(bar) => Selected(bar') \in bar'.shown /\ Selected(bar') \in bar'.focused
    BY DEF RemovalRight
  <2>2. CASE t = Selected(bar)
    BY <1>2, <2>1, <2>2
  <2>3. CASE t # Selected(bar)
    BY <1>2, <2>1, <2>3
  <2> QED
    BY <2>2, <2>3
<1> QED
  BY <1>3, <1>4 DEF BarKept

LEMMA ClosesKept == BarKept /\ Closes => BarKept'
<1> SUFFICES ASSUME BarKept, Closes PROVE BarKept'
  OBVIOUS
<1>1. /\ bar.list # <<>> /\ tab_kind' = tab_kind /\ shuffled' = shuffled
      /\ bar' = Removed(bar, Selected(bar)) /\ stray' = stray \ {Selected(bar)}
  BY DEF Closes, Command
<1>2. (Free' => Free) /\ ~Typed'
  BY DEF Closes, Command, Free, Typed
<1>3. PICK k \in Nat : k = Len(tab_kind)
  BY DEF BarKept, BarListed
<1>4. Listed(bar, k)
  BY <1>3 DEF BarKept, BarListed
<1>5. PICK t \in ToSet(bar.list) : t = Selected(bar)
  BY <1>1, <1>4, SelectedListed
<1>6. RemovalRight(bar, bar', t, k)
  BY <1>1, <1>4, <1>5, RemovedRight
<1> QED
  BY <1>1, <1>2, <1>3, <1>5, <1>6, BarRemoved

LEMMA EndsKept == BarKept /\ Ends => BarKept'
<1> SUFFICES ASSUME BarKept, Ends PROVE BarKept'
  OBVIOUS
<1>1. PICK t \in ToSet(bar.list) :
        /\ bar' = Removed(bar, t)
        /\ stray' = (stray \ {t}) \cup (IF line = 0 THEN {} ELSE bar'.focused)
  BY DEF Ends
<1>2. tab_kind' = tab_kind /\ shuffled' = shuffled /\ line' = line /\ committing' = committing
  BY DEF Ends
<1>3. (Free' => Free) /\ (Typed' => line # 0)
  BY <1>2 DEF Free, Typed
<1>4. PICK k \in Nat : k = Len(tab_kind)
  BY DEF BarKept, BarListed
<1>5. Listed(bar, k)
  BY <1>4 DEF BarKept, BarListed
<1>6. RemovalRight(bar, bar', t, k)
  BY <1>1, <1>5, RemovedRight
<1> QED
  BY <1>1, <1>2, <1>3, <1>4, <1>6, BarRemoved

LEMMA ReplacesKept == BarKept /\ Replaces => BarKept'
<1> SUFFICES ASSUME BarKept, Replaces PROVE BarKept'
  OBVIOUS
<1>1. PICK t \in ToSet(bar.list) :
        /\ bar' = Replaced(bar, t)
        /\ stray' = IF line # 0 THEN stray \cup {t, Selected(bar)}
                    ELSE IF t # Selected(bar) THEN stray \cup {Selected(bar)} ELSE stray
  BY DEF Replaces
<1>2. tab_kind' = tab_kind /\ shuffled' = shuffled /\ line' = line /\ committing' = committing
      /\ bar.list # <<>> /\ committing = "no"
  BY DEF Replaces, Idle
<1>3. PICK k \in Nat : k = Len(tab_kind)
  BY DEF BarKept, BarListed
<1>4. Listed(bar, k)
  BY <1>3 DEF BarKept, BarListed
<1>5. /\ Listed(bar', k) /\ bar'.list = bar.list /\ bar'.pinned = bar.pinned
      /\ Selected(bar') = t
      /\ bar'.shown = bar.shown \cup {t} /\ bar'.focused = bar.focused \cup {t}
  BY <1>1, <1>4, ReplacedRight
<1>6. BarListed' /\ PinsKept'
  BY <1>2, <1>3, <1>5 DEF BarKept, BarListed, PinsKept, PinnedFirst
<1>7. stray \subseteq stray' /\ Selected(bar) \in stray' \cup {t}
  BY <1>1
<1>8. Typed' => Typed /\ t \in stray' /\ Selected(bar) \in stray'
  BY <1>1, <1>2 DEF Typed
<1>9. FocusKept'
  BY <1>2, <1>5, <1>7, <1>8 DEF BarKept, FocusKept
<1> QED
  BY <1>6, <1>9 DEF BarKept

LEMMA MiddleClickKept == BarKept /\ MiddleClick => BarKept'
<1> SUFFICES ASSUME BarKept, MiddleClick PROVE BarKept'
  OBVIOUS
<1>1. PICK h : h = [bar EXCEPT !.focused = @ \ {Selected(bar)}]
  OBVIOUS
<1>2. PICK t \in ToSet(bar.list) :
        /\ bar' = IF Removed(h, t).list = <<>> THEN Removed(h, t)
                  ELSE [Removed(h, t) EXCEPT !.focused = @ \cup {Selected(Removed(h, t))}]
        /\ stray' = stray \ {t}
  BY <1>1 DEF MiddleClick
<1>3. PICK r : r = Removed(h, t)
  OBVIOUS
<1>4. /\ tab_kind' = tab_kind /\ shuffled' = shuffled /\ line' = line /\ line = 0
      /\ committing' = committing /\ bar.list # <<>> /\ committing = "no"
  BY DEF MiddleClick, Idle
<1>5. Free /\ ~Typed'
  BY <1>4 DEF Free, Typed
<1>6. PICK k \in Nat : k = Len(tab_kind)
  BY DEF BarKept, BarListed
<1>7. Listed(bar, k)
  BY <1>6 DEF BarKept, BarListed
<1>8. /\ Listed(h, k) /\ h.list = bar.list /\ h.pinned = bar.pinned
      /\ Selected(h) = Selected(bar)
      /\ h.shown = bar.shown /\ h.focused = bar.focused \ {Selected(bar)}
  BY <1>1, <1>7, FocusedRight
<1>9. RemovalRight(h, r, t, k)
  BY <1>3, <1>8, RemovedRight
<1>10. Listed(r, k)
  BY <1>9 DEF RemovalRight
<1>11. PinnedFirst(bar) => PinnedFirst(r)
  BY <1>8, <1>9 DEF RemovalRight, PinnedFirst
<1>12. CASE r.list = <<>>
  <2>1. bar' = r
    BY <1>2, <1>3, <1>12
  <2> QED
    BY <1>4, <1>6, <1>10, <1>11, <1>12, <2>1 DEF BarKept, BarListed, FocusKept, PinsKept
<1>13. CASE r.list # <<>>
  <2>1. bar' = [r EXCEPT !.focused = @ \cup {Selected(r)}]
    BY <1>2, <1>3, <1>13
  <2>2. /\ Listed(bar', k) /\ bar'.list = r.list /\ bar'.pinned = r.pinned
        /\ Selected(bar') = Selected(r)
        /\ bar'.shown = r.shown /\ bar'.focused = r.focused \cup {Selected(r)}
    BY <1>10, <2>1, FocusedRight
  <2>3. BarListed' /\ PinsKept'
    BY <1>4, <1>6, <1>11, <2>2 DEF BarKept, BarListed, PinsKept, PinnedFirst
  <2>4. /\ r.shown \in {bar.shown \ {t}, (bar.shown \ {t}) \cup {Selected(r)}}
        /\ r.focused \subseteq (bar.focused \ {t, Selected(bar)}) \cup {Selected(r)}
        /\ t # Selected(bar) => Selected(r) = Selected(bar)
        /\ t = Selected(bar) => Selected(r) \in r.shown
    BY <1>8, <1>9, <1>13 DEF RemovalRight
  <2>5. /\ Selected(bar) \in bar.shown
        /\ bar.shown \subseteq {Selected(bar)} \cup stray
        /\ bar.focused \subseteq {Selected(bar)} \cup stray
    BY <1>4 DEF BarKept, FocusKept
  <2>6. /\ bar'.shown \subseteq {Selected(bar')} \cup stray'
        /\ bar'.focused \subseteq {Selected(bar')} \cup stray'
        /\ Selected(bar') \in bar'.focused
    BY <1>2, <2>2, <2>4, <2>5
  <2>7. Selected(bar') \in bar'.shown
    BY <2>2, <2>4, <2>5
  <2> QED
    BY <1>5, <2>3, <2>6, <2>7 DEF BarKept, FocusKept
<1> QED
  BY <1>12, <1>13

(* The focus goes to an exline, or back to the selected tab. *)
LEMMA BarRefocused ==
  ASSUME BarKept, bar.list # <<>>, NEW item, item # line, bar' = Refocused(bar, item),
         line' = item, tab_kind' = tab_kind, stray' = stray, shuffled' = shuffled,
         committing' = "no", committing = "no" \/ line # 0
  PROVE  BarKept'
<1>1. PICK F : F = IF item = 0 THEN bar.focused \cup {Selected(bar)}
                   ELSE bar.focused \ {Selected(bar)}
  OBVIOUS
<1>2. bar' = [bar EXCEPT !.focused = F]
  <2>1. CASE item = 0
    <3>1. bar' = [bar EXCEPT !.focused = @ \cup {Selected(bar)}]
      BY <2>1 DEF Refocused
    <3> QED
      BY <1>1, <2>1, <3>1
  <2>2. CASE item # 0
    <3>1. bar' = [bar EXCEPT !.focused = @ \ {Selected(bar)}]
      BY <2>2 DEF Refocused
    <3> QED
      BY <1>1, <2>2, <3>1
  <2> QED
    BY <2>1, <2>2
<1>3. PICK k \in Nat : k = Len(tab_kind)
  BY DEF BarKept, BarListed
<1>4. Listed(bar, k)
  BY <1>3 DEF BarKept, BarListed
<1>5. /\ Listed(bar', k) /\ bar'.list = bar.list /\ bar'.pinned = bar.pinned
      /\ Selected(bar') = Selected(bar)
      /\ bar'.shown = bar.shown /\ bar'.focused = F
  <2>1. PICK a : a = [bar EXCEPT !.focused = F]
    OBVIOUS
  <2>2. /\ Listed(a, k) /\ a.list = bar.list /\ a.pinned = bar.pinned
        /\ Selected(a) = Selected(bar)
        /\ a.shown = bar.shown /\ a.focused = F
    BY <1>4, <2>1, FocusedRight, SMTT(20)
  <2> QED
    BY <1>2, <2>1, <2>2
<1>6. BarListed' /\ PinsKept'
  BY <1>3, <1>5 DEF BarKept, BarListed, PinsKept, PinnedFirst
<1>7. FocusKept'
  <2>1. /\ Selected(bar) \in bar.shown
        /\ bar.shown \subseteq {Selected(bar)} \cup stray
        /\ bar.focused \subseteq {Selected(bar)} \cup stray
    BY DEF BarKept, FocusKept
  <2>2. (Free' => item = 0) /\ (Typed' => item # 0)
    BY DEF Free, Typed
  <2>3. CASE item = 0
    <3>1. bar'.focused = bar.focused \cup {Selected(bar)}
      BY <1>1, <1>5, <2>3
    <3> QED
      BY <1>5, <2>1, <2>2, <2>3, <3>1 DEF FocusKept
  <2>4. CASE item # 0
    <3>1. bar'.focused = bar.focused \ {Selected(bar)}
      BY <1>1, <1>5, <2>4
    <3> QED
      BY <1>5, <2>1, <2>2, <2>4, <3>1 DEF FocusKept
  <2> QED
    BY <2>3, <2>4
<1> QED
  BY <1>6, <1>7 DEF BarKept

LEMMA LinesPushed ==
  ASSUME LinesStacked, NEW prompt \in BOOLEAN,
         lines' = Append(lines, [prompt |-> prompt, previous |-> line]),
         line' = Len(lines) + 1
  PROVE  LinesStacked' /\ Len(lines) + 1 # line
<1>1. lines \in Seq([prompt : BOOLEAN, previous : Nat]) /\ line = Len(lines) /\ line \in Nat
  BY DEF LinesStacked
<1>2. PICK r \in [prompt : BOOLEAN, previous : Nat] : r = [prompt |-> prompt, previous |-> line]
  BY <1>1
<1>3. /\ lines' \in Seq([prompt : BOOLEAN, previous : Nat])
      /\ Len(lines') = line + 1
      /\ \A i \in 1..line : lines'[i] = lines[i]
      /\ lines'[line + 1] = r
  BY <1>1, <1>2, AppendProperties
<1>4. ASSUME NEW i \in 1..(line + 1) PROVE lines'[i].previous = i - 1
  <2>1. CASE i = line + 1
    BY <1>1, <1>2, <1>3, <2>1
  <2>2. CASE i # line + 1
    <3>1. i \in 1..line
      BY <1>1, <2>2
    <3> QED
      BY <1>1, <1>3, <3>1 DEF LinesStacked
  <2> QED
    BY <2>1, <2>2
<1>5. Len(lines) + 1 # line
  BY <1>1
<1> QED
  BY <1>1, <1>3, <1>4, <1>5 DEF LinesStacked

LEMMA LinesPopped ==
  ASSUME LinesStacked, line # 0, lines' = Front(lines), line' = lines[line].previous
  PROVE  LinesStacked' /\ lines[line].previous # line
<1>1. lines \in Seq([prompt : BOOLEAN, previous : Nat]) /\ line = Len(lines) /\ line \in Nat \ {0}
  BY DEF LinesStacked
<1>2. lines # <<>>
  BY <1>1
<1>3. /\ lines' \in Seq([prompt : BOOLEAN, previous : Nat]) /\ Len(lines') = line - 1
      /\ \A i \in 1..(line - 1) : lines'[i] = lines[i]
  <2>1. PICK s \in Seq([prompt : BOOLEAN, previous : Nat]) : s = lines
    BY <1>1
  <2>2. /\ Front(s) \in Seq([prompt : BOOLEAN, previous : Nat]) /\ Len(Front(s)) = Len(s) - 1
        /\ \A i \in 1..(Len(s) - 1) : Front(s)[i] = s[i]
    BY <1>2, <2>1, FrontRight
  <2> QED
    BY <1>1, <2>1, <2>2
<1>4. lines[line].previous = line - 1
  BY <1>1 DEF LinesStacked
<1>5. \A i \in 1..(line - 1) : lines'[i].previous = i - 1
  <2>1. 1..(line - 1) \subseteq 1..line
    BY <1>1
  <2> QED
    BY <1>1, <1>3, <2>1 DEF LinesStacked
<1> QED
  BY <1>1, <1>3, <1>4, <1>5 DEF LinesStacked

LEMMA LinesKept ==
  LinesStacked /\ lines' = lines /\ line' = line => LinesStacked'
BY DEF LinesStacked

LEMMA BeginExCommandKept == TabsIInv /\ BeginExCommand => TabsIInv'
<1> SUFFICES ASSUME TabsIInv, BeginExCommand PROVE TabsIInv'
  OBVIOUS
<1>1. /\ bar.list # <<>> /\ committing = "no" /\ committing' = "no"
      /\ lines' = Append(lines, [prompt |-> FALSE, previous |-> line])
      /\ line' = Len(lines) + 1 /\ bar' = Refocused(bar, Len(lines) + 1)
      /\ tab_kind' = tab_kind /\ stray' = stray /\ shuffled' = shuffled
  BY DEF BeginExCommand, Idle
<1>2. LinesStacked' /\ Len(lines) + 1 # line
  BY <1>1, LinesPushed DEF TabsIInv
<1>3. BarKept'
  BY <1>1, <1>2, BarRefocused DEF TabsIInv
<1> QED
  BY <1>2, <1>3 DEF TabsIInv

LEMMA DrawKept == TabsIInv /\ Draw => TabsIInv'
<1> SUFFICES ASSUME TabsIInv, Draw PROVE TabsIInv'
  OBVIOUS
<1>1. /\ bar.list # <<>> /\ committing = "no" /\ committing' = "no"
      /\ lines' = Append(lines, [prompt |-> TRUE, previous |-> line])
      /\ line' = Len(lines) + 1 /\ bar' = Refocused(bar, Len(lines) + 1)
      /\ tab_kind' = tab_kind /\ stray' = stray /\ shuffled' = shuffled
  BY DEF Draw, Idle
<1>2. LinesStacked' /\ Len(lines) + 1 # line
  BY <1>1, LinesPushed DEF TabsIInv
<1>3. BarKept'
  BY <1>1, <1>2, BarRefocused DEF TabsIInv
<1> QED
  BY <1>2, <1>3 DEF TabsIInv

LEMMA EnterKept == TabsIInv /\ Enter => TabsIInv'
<1> SUFFICES ASSUME TabsIInv, Enter PROVE TabsIInv'
  OBVIOUS
<1>1. /\ bar' = bar /\ tab_kind' = tab_kind /\ stray' = stray /\ shuffled' = shuffled
      /\ lines' = lines /\ line' = line
  BY DEF Enter
<1>2. ~Free' /\ ~Typed'
  BY DEF Enter, Free, Typed
<1>3. BarKept'
  BY <1>1, <1>2, BarRests DEF TabsIInv
<1> QED
  BY <1>1, <1>3, LinesKept DEF TabsIInv

LEMMA FinishKept == TabsIInv /\ Finish => TabsIInv'
<1> SUFFICES ASSUME TabsIInv, Finish PROVE TabsIInv'
  OBVIOUS
<1>1. /\ bar.list # <<>> /\ line # 0 /\ committing' = "no"
      /\ lines' = Front(lines) /\ line' = lines[line].previous
      /\ bar' = Refocused(bar, lines[line].previous)
      /\ tab_kind' = tab_kind /\ stray' = stray /\ shuffled' = shuffled
  BY DEF Finish
<1>2. LinesStacked' /\ lines[line].previous # line
  BY <1>1, LinesPopped DEF TabsIInv
<1>3. BarKept'
  BY <1>1, <1>2, BarRefocused DEF TabsIInv
<1> QED
  BY <1>2, <1>3 DEF TabsIInv

LEMMA TabsStep == TabsIInv /\ [Next]_barVars => TabsIInv'
<1> SUFFICES ASSUME TabsIInv, [Next]_barVars PROVE TabsIInv'
  OBVIOUS
<1>1. BarKept /\ LinesStacked
  BY DEF TabsIInv
<1>2. CASE Selects \/ Opens \/ Moves \/ Pins \/ Closes \/ Others \/ Ends \/ Replaces \/ MiddleClick
  <2>1. lines' = lines /\ line' = line
    BY <1>2 DEF Selects, Opens, Moves, Pins, Closes, Others, Ends, Replaces, MiddleClick
  <2>2. BarKept'
    BY <1>1, <1>2, SelectsKept, OpensKept, MovesKept, PinsKeptStep, ClosesKept, OthersKept,
       EndsKept, ReplacesKept, MiddleClickKept
  <2> QED
    BY <1>1, <2>1, <2>2, LinesKept DEF TabsIInv
<1>3. CASE UNCHANGED barVars
  <2>1. /\ bar' = bar /\ tab_kind' = tab_kind /\ stray' = stray /\ shuffled' = shuffled
        /\ lines' = lines /\ line' = line /\ committing' = committing
    BY <1>3 DEF barVars
  <2>2. (Free' => Free) /\ (Typed' => Typed)
    BY <2>1 DEF Free, Typed
  <2> QED
    BY <1>1, <2>1, <2>2, BarRests, LinesKept DEF TabsIInv
<1> QED
  BY <1>2, <1>3, BeginExCommandKept, DrawKept, EnterKept, FinishKept DEF Next

LEMMA TabsInit == Init => TabsIInv
<1> SUFFICES ASSUME Init PROVE TabsIInv
  OBVIOUS
<1>1. PICK kinds \in Kinds :
        /\ bar = FirstBar(Len(kinds)) /\ tab_kind = kinds
        /\ lines = <<>> /\ line = 0 /\ committing = "no" /\ stray = {} /\ shuffled = {}
  BY DEF Init
<1>2. kinds \in Seq({"account", "broken"}) /\ kinds # <<>>
  BY TabsAssumption
<1>3. PICK n : n = Len(kinds)
  OBVIOUS
<1>4. n \in Nat \ {0} /\ kinds \in Seq(TabKinds)
  <2>1. n \in Nat \ {0}
    BY <1>2, <1>3, EmptySeq
  <2>2. {"account", "broken"} \subseteq TabKinds
    BY DEF TabKinds
  <2>3. kinds \in Seq(TabKinds)
    BY <1>2, <2>2, SeqMonotonic
  <2> QED
    BY <2>1, <2>3
<1>5. PICK f : f = n + 1
  OBVIOUS
<1>6. PICK left : left = [i \in 1..f |-> IF i = 1 THEN 1 ELSE i - 1]
  OBVIOUS
<1>7. PICK from : from = IF f > MaxHistory THEN n + 2 - MaxHistory ELSE 1
  OBVIOUS
<1>8. PICK list : list = [i \in 1..n |-> i]
  OBVIOUS
<1>9. bar = [list |-> list, cur |-> 1, history |-> SubSeq(left, from, f),
             shown |-> {1}, focused |-> {1}, pinned |-> {}, before |-> <<>>]
  BY <1>1, <1>3, <1>5, <1>6, <1>7, <1>8 DEF FirstBar
<1>10. list \in Seq(1..n) /\ Len(list) = n /\ list # <<>> /\ \A i \in 1..n : list[i] = i
  BY <1>4, <1>8
<1>11. from \in Nat \ {0} /\ from <= f /\ f - from + 1 <= MaxHistory /\ f \in Nat
  BY <1>4, <1>5, <1>7, TabsAssumption
<1>12. \A i \in from..f : left[i] \in 1..n
  <2>1. \A i \in from..f : i \in 1..f
    BY <1>11
  <2>2. \A i \in 1..f : (IF i = 1 THEN 1 ELSE i - 1) \in 1..n
    BY <1>4, <1>5
  <2> QED
    BY <1>6, <2>1, <2>2
<1>13. SubSeq(left, from, f) \in Seq(1..n) /\ Len(SubSeq(left, from, f)) <= MaxHistory
  <2>1. /\ SubSeq(left, from, f) \in Seq(1..n)
        /\ Len(SubSeq(left, from, f)) = IF from <= f THEN f - from + 1 ELSE 0
    BY <1>11, <1>12, SubSeqProperties
  <2> QED
    BY <1>11, <2>1
<1>14. ToSet(list) = 1..n
  <2>1. DOMAIN list = 1..n
    BY <1>8
  <2> QED
    BY <1>10, <2>1 DEF ToSet
<1>15. ASSUME NEW s \in Seq(1..n) PROVE ToSet(s) \subseteq 1..n
  <2>1. DOMAIN s = 1..Len(s) /\ s \in [1..Len(s) -> 1..n]
    BY LenProperties
  <2>2. \A i \in DOMAIN s : s[i] \in 1..n
    BY <2>1
  <2> QED
    BY <2>2 DEF ToSet
<1>16. HistoryListed(bar, n)
  BY <1>9, <1>13, <1>14, <1>15 DEF HistoryListed
<1>17. ListedOnce(bar, n) /\ bar.cur <= Len(bar.list) /\ BarShape(bar)
  BY <1>4, <1>9, <1>10 DEF ListedOnce, BarShape
<1>18. PinsKnown(bar, n)
  <2>1. DOMAIN bar.before = {}
    BY <1>9
  <2> QED
    BY <1>9, <2>1 DEF PinsKnown
<1>19. BarListed
  BY <1>1, <1>3, <1>4, <1>16, <1>17, <1>18 DEF BarListed, Listed, Listable
<1>20. FocusKept /\ PinsKept
  <2>1. Selected(bar) = 1
    BY <1>4, <1>9, <1>10 DEF Selected
  <2> QED
    BY <1>1, <1>9, <2>1 DEF FocusKept, PinsKept, PinnedFirst, Typed
<1>21. LinesStacked
  BY <1>1 DEF LinesStacked
<1> QED
  BY <1>19, <1>20, <1>21 DEF TabsIInv, BarKept

LEMMA TabsImplied == TabsIInv => TabsRight
<1> SUFFICES ASSUME TabsIInv PROVE TabsRight
  OBVIOUS
<1>1. PICK k \in Nat : k = Len(tab_kind)
  BY DEF TabsIInv, BarKept, BarListed
<1>2. Listed(bar, k)
  BY <1>1 DEF TabsIInv, BarKept, BarListed
<1>3. OneFocus
  <2> SUFFICES ASSUME committing = "no", bar.list # <<>>
               PROVE  /\ Selected(bar) \in bar.shown
                      /\ bar.shown \subseteq {Selected(bar)} \cup stray
                      /\ line = 0 => Selected(bar) \in bar.focused
                      /\ bar.focused \subseteq (IF line = 0 THEN {Selected(bar)} ELSE {}) \cup stray
                      /\ line = Len(lines)
    BY DEF OneFocus
  <2>1. line = Len(lines)
    BY DEF TabsIInv, LinesStacked
  <2>2. (Free <=> line = 0) /\ (Typed <=> line # 0)
    BY DEF Free, Typed
  <2> QED
    BY <2>1, <2>2 DEF TabsIInv, BarKept, FocusKept
<1>4. HistoryOpen
  BY <1>2 DEF HistoryOpen, Listed, Listable, HistoryListed
<1>5. PinsRight
  <2> SUFFICES ASSUME shuffled = {}, bar.list # <<>>
               PROVE  /\ \A i, j \in Range0(bar) :
                           i < j /\ bar.list[j] \in bar.pinned => bar.list[i] \in bar.pinned
                      /\ Selected(bar) \notin bar.pinned =>
                           /\ UnpinTab(PinTab(bar)).list = bar.list
                           /\ UnpinTab(PinTab(bar)).cur = bar.cur
    BY DEF PinsRight
  <2>1. PinnedFirst(bar)
    BY DEF TabsIInv, BarKept, PinsKept
  <2>2. Selected(bar) \notin bar.pinned =>
          /\ UnpinTab(PinTab(bar)).list = bar.list
          /\ UnpinTab(PinTab(bar)).cur = bar.cur
    BY <1>2, <2>1, PinsReturn
  <2> QED
    BY <2>1, <2>2 DEF PinnedFirst, Range0
<1> QED
  BY <1>3, <1>4, <1>5 DEF TabsRight

-----------------------------------------------------------------------------
(* Viewers: the requests of the worker and the bodies they ask for. *)

Viewers == [msg : 1..N, closed : BOOLEAN, part : {"no", "asked", "shown"}]
Orders == [do : {"none", "view", "pipe", "draw"}, msg : 0..N, from : Nat, view : Nat]
Requests == [kind : {"header", "full", "part", "delete"}, msg : 1..N, then : Orders]

(* A body is asked for once, and its callback is what the request is for. *)
FullOnce(qs) ==
  \A i, j \in 1..Len(qs) :
    qs[i].kind = "full" /\ qs[j].kind = "full" /\ qs[i].msg = qs[j].msg => i = j

BodiesKept(qs, waiting, backs, lost) ==
  /\ qs \in Seq(Requests) /\ FullOnce(qs)
  /\ waiting \subseteq 1..N /\ backs = [m \in 1..N |-> backs[m]]
  /\ \A i \in 1..Len(qs) :
       qs[i].kind = "full" => qs[i].msg \in waiting /\ backs[qs[i].msg] = <<qs[i].then>>
  /\ \A m \in 1..N : backs[m] # <<>> => m \in waiting
  /\ \A m \in waiting \ lost : \E i \in 1..Len(qs) : qs[i].kind = "full" /\ qs[i].msg = m

(* Without its head a sequence keeps its other elements in their order. *)
LEMMA TailRight ==
  ASSUME NEW X, NEW s \in Seq(X), s # <<>>
  PROVE  /\ Tail(s) \in Seq(X) /\ Len(Tail(s)) = Len(s) - 1 /\ Len(s) \in Nat \ {0}
         /\ \A i \in 1..(Len(s) - 1) : Tail(s)[i] = s[i + 1]
         /\ Head(s) = s[1] /\ Head(s) \in X
<1>1. Len(s) \in Nat \ {0}
  BY EmptySeq
<1>2. /\ Tail(s) \in Seq(X) /\ Len(Tail(s)) = Len(s) - 1
      /\ \A i \in 1..(Len(s) - 1) : Tail(s)[i] = s[i + 1]
  BY <1>1
<1>3. Head(s) = s[1] /\ s[1] \in X
  BY <1>1
<1> QED
  BY <1>1, <1>2, <1>3

(* The first request is answered: its body, if it was for one, is no longer waited for. *)
LEMMA BodiesAnswered ==
  ASSUME NEW qs, NEW waiting, NEW backs, NEW lost, BodiesKept(qs, waiting, backs, lost),
         qs # <<>>
  PROVE  /\ Head(qs).kind # "full" => BodiesKept(Tail(qs), waiting, backs, lost)
         /\ Head(qs).kind = "full" =>
              /\ BodiesKept(Tail(qs), waiting \ {Head(qs).msg},
                            [backs EXCEPT ![Head(qs).msg] = <<>>], lost)
              /\ BodiesKept(Tail(qs), waiting, backs, lost \cup {Head(qs).msg})
              /\ backs[Head(qs).msg] = <<Head(qs).then>>
<1>1. PICK s \in Seq(Requests) : s = qs
  BY DEF BodiesKept
<1>2. PICK n : n = Len(s)
  OBVIOUS
<1>3. PICK r : r = Tail(s)
  OBVIOUS
<1>4. PICK h : h = Head(s)
  OBVIOUS
<1>5. /\ r \in Seq(Requests) /\ Len(r) = n - 1 /\ n \in Nat \ {0}
      /\ \A i \in 1..(n - 1) : r[i] = s[i + 1]
      /\ h = s[1] /\ h \in Requests
  BY <1>1, <1>2, <1>3, <1>4, TailRight
<1>6. \A i \in 1..(n - 1) : i + 1 \in 1..n /\ i + 1 # 1
  BY <1>5
<1>7. 1 \in 1..n /\ \A i \in 1..n : i # 1 => i - 1 \in 1..(n - 1) /\ (i - 1) + 1 = i
  BY <1>5
<1>8. /\ waiting \subseteq 1..N /\ backs = [m \in 1..N |-> backs[m]]
      /\ \A i, j \in 1..n :
           s[i].kind = "full" /\ s[j].kind = "full" /\ s[i].msg = s[j].msg => i = j
      /\ \A i \in 1..n :
           s[i].kind = "full" => s[i].msg \in waiting /\ backs[s[i].msg] = <<s[i].then>>
      /\ \A m \in 1..N : backs[m] # <<>> => m \in waiting
      /\ \A m \in waiting \ lost : \E i \in 1..n : s[i].kind = "full" /\ s[i].msg = m
  BY <1>1, <1>2 DEF BodiesKept, FullOnce
<1>9. FullOnce(r)
  <2> SUFFICES ASSUME NEW i \in 1..(n - 1), NEW j \in 1..(n - 1), r[i].kind = "full",
                      r[j].kind = "full", r[i].msg = r[j].msg
               PROVE  i = j
    BY <1>5 DEF FullOnce
  <2>1. r[i] = s[i + 1] /\ r[j] = s[j + 1] /\ i + 1 \in 1..n /\ j + 1 \in 1..n
    BY <1>5, <1>6
  <2>2. i + 1 = j + 1
    BY <1>8, <2>1
  <2> QED
    BY <2>2
<1>10. \A i \in 1..(n - 1) :
         r[i].kind = "full" => r[i].msg \in waiting /\ backs[r[i].msg] = <<r[i].then>>
  <2> SUFFICES ASSUME NEW i \in 1..(n - 1), r[i].kind = "full"
               PROVE  r[i].msg \in waiting /\ backs[r[i].msg] = <<r[i].then>>
    OBVIOUS
  <2>1. r[i] = s[i + 1] /\ i + 1 \in 1..n
    BY <1>5, <1>6
  <2> QED
    BY <1>8, <2>1
<1>11. ASSUME NEW m \in waiting \ lost, h.kind = "full" => m # h.msg
       PROVE  \E i \in 1..(n - 1) : r[i].kind = "full" /\ r[i].msg = m
  <2>1. PICK i \in 1..n : s[i].kind = "full" /\ s[i].msg = m
    BY <1>8
  <2>2. i # 1
    BY <1>5, <1>11, <2>1
  <2>3. PICK j \in 1..(n - 1) : j + 1 = i
    BY <1>7, <2>2
  <2>4. r[j] = s[i]
    BY <1>5, <2>3
  <2> QED
    BY <2>1, <2>4
<1>12. CASE h.kind # "full"
  <2>1. \A m \in waiting \ lost : \E i \in 1..(n - 1) : r[i].kind = "full" /\ r[i].msg = m
    BY <1>11, <1>12
  <2>2. BodiesKept(r, waiting, backs, lost)
    BY <1>5, <1>8, <1>9, <1>10, <2>1 DEF BodiesKept
  <2> QED
    BY <1>1, <1>3, <1>4, <1>12, <2>2
<1>13. CASE h.kind = "full"
  <2>1. h.msg \in waiting /\ backs[h.msg] = <<h.then>>
    BY <1>5, <1>7, <1>8, <1>13
  <2>2. \A i \in 1..(n - 1) : r[i].kind = "full" => r[i].msg # h.msg
    <3> SUFFICES ASSUME NEW i \in 1..(n - 1), r[i].kind = "full", r[i].msg = h.msg PROVE FALSE
      OBVIOUS
    <3>1. s[i + 1].kind = "full" /\ s[i + 1].msg = s[1].msg /\ i + 1 \in 1..n /\ i + 1 # 1
      BY <1>5, <1>6
    <3> QED
      BY <1>5, <1>7, <1>8, <1>13, <3>1
  <2>3. PICK w : w = waiting \ {h.msg}
    OBVIOUS
  <2>4. PICK b : b = [backs EXCEPT ![h.msg] = <<>>]
    OBVIOUS
  <2>5. /\ b = [m \in 1..N |-> b[m]]
        /\ \A m \in 1..N : b[m] = IF m = h.msg THEN <<>> ELSE backs[m]
    BY <1>8, <2>4
  <2>6. \A i \in 1..(n - 1) : r[i].kind = "full" => r[i].msg \in w /\ b[r[i].msg] = <<r[i].then>>
    BY <1>8, <1>10, <2>2, <2>3, <2>5
  <2>7. \A m \in 1..N : b[m] # <<>> => m \in w
    BY <1>8, <2>3, <2>5
  <2>8. \A m \in w \ lost : \E i \in 1..(n - 1) : r[i].kind = "full" /\ r[i].msg = m
    BY <1>11, <2>3
  <2>9. BodiesKept(r, w, b, lost)
    BY <1>5, <1>8, <1>9, <2>3, <2>5, <2>6, <2>7, <2>8 DEF BodiesKept
  <2>10. \A m \in waiting \ (lost \cup {h.msg}) :
           \E i \in 1..(n - 1) : r[i].kind = "full" /\ r[i].msg = m
    BY <1>11
  <2>11. BodiesKept(r, waiting, backs, lost \cup {h.msg})
    BY <1>5, <1>8, <1>9, <1>10, <2>10 DEF BodiesKept
  <2> QED
    BY <1>1, <1>3, <1>4, <1>13, <2>1, <2>3, <2>4, <2>9, <2>11
<1> QED
  BY <1>12, <1>13

(* A request is added: a body that was not waited for is, with its callback. *)
LEMMA BodiesAsked ==
  ASSUME NEW qs, NEW waiting, NEW backs, NEW lost, BodiesKept(qs, waiting, backs, lost),
         NEW q \in Requests
  PROVE  /\ q.kind # "full" => BodiesKept(Append(qs, q), waiting, backs, lost)
         /\ q.kind = "full" /\ q.msg \notin waiting =>
              BodiesKept(Append(qs, q), waiting \cup {q.msg},
                         [backs EXCEPT ![q.msg] = Append(@, q.then)], lost)
<1>1. PICK s \in Seq(Requests) : s = qs
  BY DEF BodiesKept
<1>2. PICK n : n = Len(s)
  OBVIOUS
<1>3. PICK r : r = Append(s, q)
  OBVIOUS
<1>4. /\ r \in Seq(Requests) /\ Len(r) = n + 1 /\ n \in Nat
      /\ \A i \in 1..n : r[i] = s[i]
      /\ r[n + 1] = q
  BY <1>1, <1>2, <1>3, AppendProperties
<1>5. /\ \A i \in 1..(n + 1) : i \in 1..n \/ i = n + 1
      /\ \A i \in 1..n : i \in 1..(n + 1)
      /\ n + 1 \in 1..(n + 1)
  BY <1>4
<1>6. /\ waiting \subseteq 1..N /\ backs = [m \in 1..N |-> backs[m]]
      /\ \A i, j \in 1..n :
           s[i].kind = "full" /\ s[j].kind = "full" /\ s[i].msg = s[j].msg => i = j
      /\ \A i \in 1..n :
           s[i].kind = "full" => s[i].msg \in waiting /\ backs[s[i].msg] = <<s[i].then>>
      /\ \A m \in 1..N : backs[m] # <<>> => m \in waiting
      /\ \A m \in waiting \ lost : \E i \in 1..n : s[i].kind = "full" /\ s[i].msg = m
  BY <1>1, <1>2 DEF BodiesKept, FullOnce
<1>7. ASSUME q.kind = "full" => q.msg \notin waiting PROVE FullOnce(r)
  <2> SUFFICES ASSUME NEW i \in 1..(n + 1), NEW j \in 1..(n + 1), r[i].kind = "full",
                      r[j].kind = "full", r[i].msg = r[j].msg
               PROVE  i = j
    BY <1>4 DEF FullOnce
  <2>1. ASSUME NEW l \in 1..n, r[l].kind = "full" PROVE r[l].msg \in waiting /\ r[l] = s[l]
    BY <1>4, <1>6, <2>1
  <2>2. CASE i \in 1..n /\ j \in 1..n
    BY <1>6, <2>1, <2>2
  <2>3. CASE i \in 1..n /\ j = n + 1
    BY <1>4, <1>7, <2>1, <2>3
  <2>4. CASE i = n + 1 /\ j \in 1..n
    BY <1>4, <1>7, <2>1, <2>4
  <2> QED
    BY <1>5, <2>2, <2>3, <2>4
<1>8. CASE q.kind # "full"
  <2>1. \A i \in 1..(n + 1) :
          r[i].kind = "full" => r[i].msg \in waiting /\ backs[r[i].msg] = <<r[i].then>>
    BY <1>4, <1>5, <1>6, <1>8
  <2>2. \A m \in waiting \ lost : \E i \in 1..(n + 1) : r[i].kind = "full" /\ r[i].msg = m
    BY <1>4, <1>5, <1>6
  <2>3. BodiesKept(r, waiting, backs, lost)
    BY <1>4, <1>6, <1>7, <1>8, <2>1, <2>2 DEF BodiesKept
  <2> QED
    BY <1>1, <1>3, <1>8, <2>3
<1>9. CASE q.kind = "full" /\ q.msg \notin waiting
  <2>1. q.msg \in 1..N /\ backs[q.msg] = <<>>
    BY <1>6, <1>9 DEF Requests
  <2>2. PICK w : w = waiting \cup {q.msg}
    OBVIOUS
  <2>3. PICK b : b = [backs EXCEPT ![q.msg] = Append(@, q.then)]
    OBVIOUS
  <2>4. b = [backs EXCEPT ![q.msg] = <<q.then>>]
    BY <2>1, <2>3
  <2>5. /\ b = [m \in 1..N |-> b[m]]
        /\ \A m \in 1..N : b[m] = IF m = q.msg THEN <<q.then>> ELSE backs[m]
    BY <1>6, <2>1, <2>4
  <2>6. \A i \in 1..(n + 1) : r[i].kind = "full" => r[i].msg \in w /\ b[r[i].msg] = <<r[i].then>>
    <3>1. ASSUME NEW i \in 1..n, r[i].kind = "full"
          PROVE  r[i].msg \in w /\ b[r[i].msg] = <<r[i].then>>
      <4>1. r[i] = s[i] /\ s[i].msg \in waiting /\ backs[s[i].msg] = <<s[i].then>>
        BY <1>4, <1>6, <3>1
      <4>2. s[i].msg # q.msg /\ s[i].msg \in 1..N
        BY <1>6, <1>9, <4>1
      <4> QED
        BY <2>2, <2>5, <4>1, <4>2
    <3>2. r[n + 1].msg \in w /\ b[r[n + 1].msg] = <<r[n + 1].then>>
      BY <1>4, <2>1, <2>2, <2>5
    <3> QED
      BY <1>5, <3>1, <3>2
  <2>7. \A m \in 1..N : b[m] # <<>> => m \in w
    BY <1>6, <2>2, <2>5
  <2>8. \A m \in w \ lost : \E i \in 1..(n + 1) : r[i].kind = "full" /\ r[i].msg = m
    BY <1>4, <1>5, <1>6, <1>9, <2>2
  <2>9. BodiesKept(r, w, b, lost)
    BY <1>4, <1>6, <1>7, <1>9, <2>1, <2>2, <2>5, <2>6, <2>7, <2>8 DEF BodiesKept
  <2> QED
    BY <1>1, <1>3, <1>9, <2>2, <2>3, <2>9
<1> QED
  BY <1>8, <1>9

-----------------------------------------------------------------------------
(* Viewers: their tabs. *)

(* A viewer is in one tab at most; the selected tab has one. *)
ViewersTyped ==
  /\ made \in Seq(Viewers)
  /\ slots \in Seq(Nat) /\ \A s \in 1..Len(slots) : slots[s] <= Len(made)
  /\ \A s, t \in 1..Len(slots) : slots[s] = slots[t] /\ slots[s] # 0 => s = t
  /\ orphans \subseteq 1..Len(made)

PlacesTyped ==
  /\ at \in 0..Len(slots) /\ (at # 0 => slots[at] # 0)
  /\ nav \in 0..Len(slots)

ViewersKept == ViewersTyped /\ PlacesTyped /\ Views!ViewersClosed

(* A viewer is open when a tab shows it. *)
LEMMA OpenRight ==
  ASSUME ViewersTyped, NEW v
  PROVE  Views!Open(v) <=> v # 0 /\ \E s \in 1..Len(slots) : slots[s] = v
<1>1. DOMAIN slots = 1..Len(slots)
  BY DEF ViewersTyped
<1> QED
  BY <1>1 DEF Views!Open

(* Closing a viewer (PartViewer.Close, MessageViewer.Close) changes that viewer only. *)
LEMMA ClosedRight ==
  ASSUME NEW vs \in Seq(Viewers), NEW v \in 0..Len(vs), NEW c, c = Views!Closed(vs, v)
  PROVE  /\ c \in Seq(Viewers) /\ Len(c) = Len(vs)
         /\ \A u \in 1..Len(vs) : c[u].msg = vs[u].msg /\ (u # v => c[u] = vs[u])
         /\ v # 0 => c[v].closed
<1>1. CASE v = 0
  BY <1>1 DEF Views!Closed
<1>2. CASE v # 0
  <2>1. v \in 1..Len(vs) /\ vs[v] \in Viewers
    BY <1>2
  <2>2. PICK r : r = [vs[v] EXCEPT !.closed = TRUE]
    OBVIOUS
  <2>3. r \in Viewers /\ r.msg = vs[v].msg /\ r.closed = TRUE
    BY <2>1, <2>2 DEF Viewers
  <2>4. c = [vs EXCEPT ![v] = r]
    BY <1>2, <2>2 DEF Views!Closed
  <2>5. /\ c \in Seq(Viewers) /\ Len(c) = Len(vs)
        /\ \A u \in 1..Len(vs) : c[u] = IF u = v THEN r ELSE vs[u]
    BY <2>1, <2>3, <2>4, ExceptSeq
  <2> QED
    BY <1>2, <2>1, <2>3, <2>5
<1> QED
  BY <1>1, <1>2

PartOf(vs, v, p) == [vs EXCEPT ![v].part = p]

(* Fetching or showing a part changes neither message nor pager of any viewer. *)
LEMMA PartRight ==
  ASSUME NEW vs \in Seq(Viewers), NEW v \in 1..Len(vs), NEW p \in {"no", "asked", "shown"},
         NEW c, c = PartOf(vs, v, p)
  PROVE  /\ c \in Seq(Viewers) /\ Len(c) = Len(vs)
         /\ \A u \in 1..Len(vs) : c[u].msg = vs[u].msg /\ c[u].closed = vs[u].closed
<1>1. vs[v] \in Viewers
  OBVIOUS
<1>2. PICK r : r = [vs[v] EXCEPT !.part = p]
  OBVIOUS
<1>3. r \in Viewers /\ r.msg = vs[v].msg /\ r.closed = vs[v].closed
  BY <1>1, <1>2 DEF Viewers
<1>4. c = [vs EXCEPT ![v] = r]
  BY <1>2 DEF PartOf
<1>5. /\ c \in Seq(Viewers) /\ Len(c) = Len(vs)
      /\ \A u \in 1..Len(vs) : c[u] = IF u = v THEN r ELSE vs[u]
  BY <1>3, <1>4, ExceptSeq
<1> QED
  BY <1>3, <1>5

(* A new viewer of m opens a tab, replaces the viewer from in its tab, or has none. *)
ViewerAdded(m, from) ==
  /\ Len(made') = Len(made) + 1 /\ made'[Len(made) + 1].msg = m
  /\ \A v \in 1..Len(made) : made'[v].msg = made[v].msg
  /\ orphans \subseteq orphans'
  /\ from = 0 =>
       /\ Len(slots') = Len(slots) + 1 /\ slots'[Len(slots) + 1] = Len(made) + 1
       /\ \A s \in 1..Len(slots) : slots'[s] = slots[s]
  /\ from # 0 => Len(slots') = Len(slots)
  /\ Views!Open(from) =>
       \E s \in 1..Len(slots) :
         /\ slots[s] = from /\ slots'[s] = Len(made) + 1
         /\ \A t \in 1..Len(slots) : t # s => slots'[t] = slots[t]
  /\ from # 0 /\ ~Views!Open(from) => slots' = slots /\ Len(made) + 1 \in orphans'

(* A new viewer gets a new tab, or replaces the viewer of its tab (ReplaceTab), or is late. *)
LEMMA ShowsRight ==
  ASSUME ViewersKept, NEW m \in 1..N, NEW from \in 0..Len(made), NEW n \in 0..Len(slots),
         Views!Shows(m, from, n)
  PROVE  /\ ViewersKept' /\ ViewerAdded(m, from)
         /\ nav' = IF from = 0 THEN IF m = sel THEN Len(slots) + 1 ELSE 0 ELSE n
<1>1. PICK k : k = Len(made)
  OBVIOUS
<1>2. PICK l : l = Len(slots)
  OBVIOUS
<1>3. /\ made \in Seq(Viewers) /\ k \in Nat /\ slots \in Seq(Nat) /\ l \in Nat
      /\ \A s \in 1..l : slots[s] \in Nat /\ slots[s] <= k
      /\ \A s, t \in 1..l : slots[s] = slots[t] /\ slots[s] # 0 => s = t
      /\ orphans \subseteq 1..k /\ from \in 0..k
  BY <1>1, <1>2 DEF ViewersKept, ViewersTyped
<1>4. /\ at \in 0..l /\ (at # 0 => slots[at] # 0) /\ nav \in 0..l
  BY <1>2 DEF ViewersKept, PlacesTyped
<1>5. \A v \in 1..k :
        /\ Views!Open(v) => ~made[v].closed
        /\ ~Views!Open(v) => made[v].closed \/ v \in orphans
  <2>1. DOMAIN made = 1..k
    BY <1>1, <1>3
  <2> QED
    BY <2>1 DEF ViewersKept, Views!ViewersClosed
<1>6. PICK c : c = Views!Closed(made, from)
  OBVIOUS
<1>7. /\ c \in Seq(Viewers) /\ Len(c) = k
      /\ \A u \in 1..k : c[u].msg = made[u].msg /\ (u # from => c[u] = made[u])
      /\ from # 0 => c[from].closed
  <2>1. PICK vs \in Seq(Viewers) : vs = made
    BY <1>3
  <2>2. from \in 0..Len(vs)
    BY <2>1
  <2>3. /\ c \in Seq(Viewers) /\ Len(c) = Len(vs)
        /\ \A u \in 1..Len(vs) : c[u].msg = vs[u].msg /\ (u # from => c[u] = vs[u])
        /\ from # 0 => c[from].closed
    BY <1>6, <2>1, <2>2, ClosedRight
  <2> QED
    BY <1>1, <2>1, <2>3
<1>8. PICK w : w = Views!View(m)
  OBVIOUS
<1>9. w \in Viewers /\ w.msg = m /\ w.closed = FALSE
  BY <1>8 DEF Views!View, Viewers
<1>10. made' = Append(c, w) /\ Views!New = k + 1
  BY <1>1, <1>6, <1>8 DEF Views!Shows, Views!New
<1>11. /\ made' \in Seq(Viewers) /\ Len(made') = k + 1 /\ made'[k + 1] = w
       /\ \A u \in 1..k : made'[u] = c[u]
  <2>1. PICK vs \in Seq(Viewers) : vs = c
    BY <1>7
  <2>2. PICK x \in Viewers : x = w
    BY <1>9
  <2>3. /\ Append(vs, x) \in Seq(Viewers) /\ Len(Append(vs, x)) = Len(vs) + 1
        /\ \A u \in 1..Len(vs) : Append(vs, x)[u] = vs[u]
        /\ Append(vs, x)[Len(vs) + 1] = x
    BY AppendProperties
  <2> QED
    BY <1>7, <1>10, <2>1, <2>2, <2>3
<1>12. \A u \in 1..k : made'[u].msg = made[u].msg /\ (u # from => made'[u] = made[u])
  BY <1>7, <1>11
<1>13. from # 0 => made'[from].closed
  BY <1>3, <1>7, <1>11
<1>a. DOMAIN made' = 1..(k + 1) /\ \A u \in 1..(k + 1) : u \in 1..k \/ u = k + 1
  BY <1>3, <1>11
<1>14. CASE from = 0
  <2>1. slots' = Append(slots, k + 1) /\ at' = l + 1 /\ orphans' = orphans
        /\ nav' = IF m = sel THEN l + 1 ELSE 0
    BY <1>2, <1>10, <1>14 DEF Views!Shows
  <2>2. /\ slots' \in Seq(Nat) /\ Len(slots') = l + 1 /\ slots'[l + 1] = k + 1
        /\ \A s \in 1..l : slots'[s] = slots[s]
    BY <1>2, <1>3, <2>1, AppendProperties
  <2>3. \A s \in 1..(l + 1) : s \in 1..l \/ s = l + 1
    BY <1>3
  <2>4. \A s \in 1..(l + 1) : slots'[s] <= k + 1
    <3>1. k + 1 <= k + 1 /\ \A s \in 1..l : slots[s] <= k + 1
      BY <1>3
    <3> QED
      BY <2>2, <2>3, <3>1
  <2>5. \A s \in 1..l : slots'[s] # k + 1
    <3>1. \A s \in 1..l : slots[s] # k + 1
      BY <1>3
    <3> QED
      BY <2>2, <3>1
  <2>6. \A s, t \in 1..(l + 1) : slots'[s] = slots'[t] /\ slots'[s] # 0 => s = t
    BY <1>3, <2>2, <2>3, <2>5
  <2>7. orphans' \subseteq 1..(k + 1)
    BY <1>3, <2>1
  <2>8. ViewersTyped'
    BY <1>11, <2>2, <2>4, <2>6, <2>7 DEF ViewersTyped
  <2>9. PlacesTyped'
    BY <1>3, <2>1, <2>2 DEF PlacesTyped
  <2>10. \A v : Views!Open(v) <=> v # 0 /\ \E s \in 1..l : slots[s] = v
    BY <1>2, OpenRight DEF ViewersKept
  <2>11. DOMAIN slots' = 1..(l + 1)
    BY <2>2
  <2>12. \A v : Views!Open(v)' <=> v # 0 /\ \E s \in 1..(l + 1) : slots'[s] = v
    BY <2>11 DEF Views!Open
  <2>13. ASSUME NEW v \in 1..k PROVE Views!Open(v)' <=> Views!Open(v)
    <3>1. v # k + 1 /\ \A s \in 1..l : s \in 1..(l + 1)
      BY <1>3
    <3>2. (\E s \in 1..(l + 1) : slots'[s] = v) <=> \E s \in 1..l : slots[s] = v
      BY <2>2, <2>3, <3>1
    <3> QED
      BY <2>10, <2>12, <3>2
  <2>14. Views!Open(k + 1)'
    BY <1>3, <2>2, <2>12
  <2>15. Views!ViewersClosed'
    <3> SUFFICES ASSUME NEW v \in 1..(k + 1)
                 PROVE  /\ Views!Open(v)' => ~made'[v].closed
                        /\ ~Views!Open(v)' => made'[v].closed \/ v \in orphans'
      BY <1>a DEF Views!ViewersClosed
    <3>1. CASE v = k + 1
      BY <1>9, <1>11, <2>14, <3>1
    <3>2. CASE v \in 1..k
      BY <1>5, <1>12, <1>14, <2>1, <2>13, <3>2
    <3> QED
      BY <1>a, <3>1, <3>2
  <2>16. ~Views!Open(from)
    BY <1>14, <2>10
  <2> QED
    BY <1>1, <1>2, <1>9, <1>11, <1>12, <1>14, <2>1, <2>2, <2>8, <2>9, <2>15, <2>16
       DEF ViewersKept, ViewerAdded
<1>15. CASE Views!Open(from)
  <2>1. PICK s : s = CHOOSE t \in DOMAIN slots : slots[t] = from
    OBVIOUS
  <2>2. DOMAIN slots = 1..l
    BY <1>2, <1>3
  <2>3. from # 0 /\ s \in 1..l /\ slots[s] = from
    BY <1>15, <2>1, <2>2 DEF Views!Open
  <2>4. slots' = [slots EXCEPT ![s] = k + 1] /\ at' = s /\ nav' = n /\ orphans' = orphans
    BY <1>10, <1>15, <2>1, <2>3 DEF Views!Shows
  <2>5. /\ slots' \in Seq(Nat) /\ Len(slots') = l
        /\ \A t \in 1..l : slots'[t] = IF t = s THEN k + 1 ELSE slots[t]
    <3>1. k + 1 \in Nat
      BY <1>3
    <3>2. PICK z \in Seq(Nat) : z = slots
      BY <1>3
    <3>3. PICK e : e = [z EXCEPT ![s] = k + 1]
      OBVIOUS
    <3>4. s \in 1..Len(z)
      BY <1>2, <2>3, <3>2
    <3>5. /\ e \in Seq(Nat) /\ Len(e) = Len(z)
          /\ \A j \in 1..Len(z) : e[j] = IF j = s THEN k + 1 ELSE z[j]
      BY <3>1, <3>3, <3>4, ExceptSeq
    <3>6. slots' = e /\ l = Len(z)
      BY <1>2, <2>4, <3>2, <3>3
    <3>7. slots' \in Seq(Nat) /\ Len(slots') = l
      BY <3>5, <3>6
    <3>8. \A t \in 1..l : slots'[t] = IF t = s THEN k + 1 ELSE slots[t]
      BY <3>2, <3>5, <3>6
    <3> QED
      BY <3>7, <3>8
  <2>6. \A t \in 1..l : slots'[t] <= k + 1
    <3>1. k + 1 <= k + 1 /\ \A t \in 1..l : slots[t] <= k + 1
      BY <1>3
    <3> QED
      BY <2>5, <3>1
  <2>7. \A t \in 1..l : slots[t] # k + 1
    BY <1>3
  <2>8. \A t, u \in 1..l : slots'[t] = slots'[u] /\ slots'[t] # 0 => t = u
    BY <1>3, <2>5, <2>7
  <2>9. orphans' \subseteq 1..(k + 1)
    BY <1>3, <2>4
  <2>10. ViewersTyped'
    BY <1>11, <2>5, <2>6, <2>8, <2>9 DEF ViewersTyped
  <2>11. PlacesTyped'
    BY <1>2, <1>3, <2>3, <2>4, <2>5 DEF PlacesTyped
  <2>12. \A v : Views!Open(v) <=> v # 0 /\ \E t \in 1..l : slots[t] = v
    BY <1>2, OpenRight DEF ViewersKept
  <2>13. DOMAIN slots' = 1..l
    BY <2>5
  <2>14. \A v : Views!Open(v)' <=> v # 0 /\ \E t \in 1..l : slots'[t] = v
    BY <2>13 DEF Views!Open
  <2>15. ASSUME NEW v \in 1..k, v # from PROVE Views!Open(v)' <=> Views!Open(v)
    <3>1. v # k + 1
      BY <1>3
    <3> QED
      BY <2>3, <2>5, <2>12, <2>14, <2>15, <3>1
  <2>16. ~Views!Open(from)'
    <3> SUFFICES ASSUME NEW t \in 1..l, slots'[t] = from PROVE FALSE
      BY <2>14
    <3>1. t # s
      BY <1>3, <2>5
    <3> QED
      BY <1>3, <2>3, <2>5, <3>1
  <2>17. Views!Open(k + 1)'
    <3>1. k + 1 # 0 /\ slots'[s] = k + 1
      BY <1>3, <2>3, <2>5
    <3> QED
      BY <2>3, <2>14, <3>1
  <2>18. Views!ViewersClosed'
    <3> SUFFICES ASSUME NEW v \in 1..(k + 1)
                 PROVE  /\ Views!Open(v)' => ~made'[v].closed
                        /\ ~Views!Open(v)' => made'[v].closed \/ v \in orphans'
      BY <1>a DEF Views!ViewersClosed
    <3>1. CASE v = k + 1
      BY <1>9, <1>11, <2>17, <3>1
    <3>2. CASE v = from
      BY <1>13, <2>3, <2>16, <3>2
    <3>3. CASE v \in 1..k /\ v # from
      BY <1>5, <1>12, <2>4, <2>15, <3>3
    <3> QED
      BY <1>a, <3>1, <3>2, <3>3
  <2>19. \E t \in 1..l : /\ slots[t] = from /\ slots'[t] = k + 1
                         /\ \A u \in 1..l : u # t => slots'[u] = slots[u]
    BY <2>3, <2>5
  <2> QED
    BY <1>1, <1>2, <1>9, <1>11, <1>12, <1>15, <2>3, <2>4, <2>5, <2>10, <2>11, <2>18, <2>19
       DEF ViewersKept, ViewerAdded
<1>16. CASE from # 0 /\ ~Views!Open(from)
  <2>1. slots' = slots /\ at' = at /\ nav' = n /\ orphans' = orphans \cup {k + 1}
    BY <1>10, <1>16 DEF Views!Shows
  <2>2. \A s \in 1..l : slots[s] <= k + 1
    BY <1>3
  <2>3. orphans' \subseteq 1..(k + 1)
    BY <1>3, <2>1
  <2>4. ViewersTyped'
    BY <1>2, <1>3, <1>11, <2>1, <2>2, <2>3 DEF ViewersTyped
  <2>5. PlacesTyped'
    BY <1>2, <1>4, <2>1 DEF PlacesTyped
  <2>6. \A v : Views!Open(v)' <=> Views!Open(v)
    BY <2>1 DEF Views!Open
  <2>7. ~Views!Open(k + 1)
    <3>1. \A s \in 1..l : slots[s] # k + 1
      BY <1>3
    <3> QED
      BY <1>2, <3>1, OpenRight DEF ViewersKept
  <2>8. Views!ViewersClosed'
    <3> SUFFICES ASSUME NEW v \in 1..(k + 1)
                 PROVE  /\ Views!Open(v)' => ~made'[v].closed
                        /\ ~Views!Open(v)' => made'[v].closed \/ v \in orphans'
      BY <1>a DEF Views!ViewersClosed
    <3>1. CASE v = k + 1
      BY <2>1, <2>6, <2>7, <3>1
    <3>2. CASE v = from
      BY <1>13, <1>16, <2>6, <3>2
    <3>3. CASE v \in 1..k /\ v # from
      BY <1>5, <1>12, <2>1, <2>6, <3>3
    <3> QED
      BY <1>a, <3>1, <3>2, <3>3
  <2> QED
    BY <1>1, <1>2, <1>9, <1>11, <1>12, <1>16, <2>1, <2>4, <2>5, <2>8
       DEF ViewersKept, ViewerAdded
<1> QED
  BY <1>14, <1>15, <1>16

-----------------------------------------------------------------------------
(* Viewers: what the requests are for. *)

(* A request names viewers that exist; what shows a message shows that of the request, and has
   not been asked for by a view. *)
RequestRight(q, k) ==
  /\ q.then.from <= k /\ q.then.view <= k
  /\ q.then.do = "view" => q.then.view = 0
  /\ q.kind \in {"header", "full"} /\ q.then.do = "view" => q.then.msg = q.msg
  /\ q.kind = "header" => q.then.do \in {"view", "none"}
  /\ q.kind = "delete" => q.then.do = "view"
  /\ q.kind = "part" => q.then.do = "draw" /\ q.then.view # 0

RequestsRight(qs, k) == qs \in Seq(Requests) /\ \A i \in 1..Len(qs) : RequestRight(qs[i], k)

(* The orders to show a message. *)
ToView(q) == IF q.then.do = "view" THEN {q.then} ELSE {}
OrdersOf(qs) == UNION {ToView(qs[i]) : i \in 1..Len(qs)}

(* The first request is answered: those after it keep their viewers and their orders. *)
LEMMA RequestsAnswered ==
  ASSUME NEW k, NEW qs, RequestsRight(qs, k), qs # <<>>
  PROVE  /\ RequestsRight(Tail(qs), k)
         /\ Head(qs) \in Requests /\ RequestRight(Head(qs), k)
         /\ OrdersOf(qs) = ToView(Head(qs)) \cup OrdersOf(Tail(qs))
<1>1. PICK s \in Seq(Requests) : s = qs
  BY DEF RequestsRight
<1>2. PICK n : n = Len(s)
  OBVIOUS
<1>3. PICK r : r = Tail(s)
  OBVIOUS
<1>4. PICK h : h = Head(s)
  OBVIOUS
<1>5. /\ r \in Seq(Requests) /\ Len(r) = n - 1 /\ n \in Nat \ {0}
      /\ \A i \in 1..(n - 1) : r[i] = s[i + 1]
      /\ h = s[1] /\ h \in Requests
  BY <1>1, <1>2, <1>3, <1>4, TailRight
<1>6. \A i \in 1..(n - 1) : i + 1 \in 1..n
  BY <1>5
<1>7. 1 \in 1..n /\ \A i \in 1..n : i # 1 => i - 1 \in 1..(n - 1) /\ (i - 1) + 1 = i
  BY <1>5
<1>8. \A i \in 1..n : RequestRight(s[i], k)
  BY <1>1, <1>2 DEF RequestsRight
<1>9. \A i \in 1..(n - 1) : RequestRight(r[i], k)
  BY <1>5, <1>6, <1>8
<1>10. RequestsRight(r, k)
  BY <1>5, <1>9 DEF RequestsRight
<1>11. \A i \in 1..n : i = 1 \/ \E j \in 1..(n - 1) : r[j] = s[i]
  <2> SUFFICES ASSUME NEW i \in 1..n, i # 1 PROVE \E j \in 1..(n - 1) : r[j] = s[i]
    OBVIOUS
  <2>1. PICK j \in 1..(n - 1) : j + 1 = i
    BY <1>7
  <2> QED
    BY <1>5, <2>1
<1>12. OrdersOf(s) = ToView(h) \cup OrdersOf(r)
  <2>1. OrdersOf(s) = UNION {ToView(s[i]) : i \in 1..n}
    BY <1>2 DEF OrdersOf
  <2>2. OrdersOf(r) = UNION {ToView(r[i]) : i \in 1..(n - 1)}
    BY <1>5 DEF OrdersOf
  <2>3. ASSUME NEW o \in OrdersOf(s) PROVE o \in ToView(h) \cup OrdersOf(r)
    <3>1. PICK i \in 1..n : o \in ToView(s[i])
      BY <2>1
    <3>2. CASE i = 1
      BY <1>5, <3>1, <3>2
    <3>3. CASE i # 1
      <4>1. PICK j \in 1..(n - 1) : r[j] = s[i]
        BY <1>11, <3>3
      <4> QED
        BY <2>2, <3>1, <4>1
    <3> QED
      BY <3>2, <3>3
  <2>4. ToView(h) \subseteq OrdersOf(s)
    BY <1>5, <1>7, <2>1
  <2>5. ASSUME NEW o \in OrdersOf(r) PROVE o \in OrdersOf(s)
    <3>1. PICK j \in 1..(n - 1) : o \in ToView(r[j])
      BY <2>2
    <3>2. j + 1 \in 1..n /\ o \in ToView(s[j + 1])
      BY <1>5, <1>6, <3>1
    <3> QED
      BY <2>1, <3>2
  <2> QED
    BY <2>3, <2>4, <2>5
<1> QED
  BY <1>1, <1>3, <1>4, <1>5, <1>7, <1>8, <1>10, <1>12

(* A request for existing viewers is added at the end, with its order. *)
LEMMA RequestsAsked ==
  ASSUME NEW k, NEW qs, RequestsRight(qs, k), NEW q \in Requests, RequestRight(q, k)
  PROVE  /\ RequestsRight(Append(qs, q), k)
         /\ OrdersOf(Append(qs, q)) = OrdersOf(qs) \cup ToView(q)
<1>1. PICK s \in Seq(Requests) : s = qs
  BY DEF RequestsRight
<1>2. PICK n : n = Len(s)
  OBVIOUS
<1>3. PICK r : r = Append(s, q)
  OBVIOUS
<1>4. /\ r \in Seq(Requests) /\ Len(r) = n + 1 /\ n \in Nat
      /\ \A i \in 1..n : r[i] = s[i]
      /\ r[n + 1] = q
  BY <1>1, <1>2, <1>3, AppendProperties
<1>5. /\ \A i \in 1..(n + 1) : i \in 1..n \/ i = n + 1
      /\ \A i \in 1..n : i \in 1..(n + 1)
      /\ n + 1 \in 1..(n + 1)
  BY <1>4
<1>6. \A i \in 1..n : RequestRight(s[i], k)
  BY <1>1, <1>2 DEF RequestsRight
<1>7. \A i \in 1..(n + 1) : RequestRight(r[i], k)
  BY <1>4, <1>5, <1>6
<1>8. RequestsRight(r, k)
  BY <1>4, <1>7 DEF RequestsRight
<1>9. OrdersOf(r) = OrdersOf(s) \cup ToView(q)
  <2>1. OrdersOf(s) = UNION {ToView(s[i]) : i \in 1..n}
    BY <1>2 DEF OrdersOf
  <2>2. OrdersOf(r) = UNION {ToView(r[i]) : i \in 1..(n + 1)}
    BY <1>4 DEF OrdersOf
  <2>3. ASSUME NEW o \in OrdersOf(r) PROVE o \in OrdersOf(s) \cup ToView(q)
    <3>1. PICK i \in 1..(n + 1) : o \in ToView(r[i])
      BY <2>2
    <3> QED
      BY <1>4, <1>5, <2>1, <3>1
  <2>4. ToView(q) \subseteq OrdersOf(r)
    BY <1>4, <1>5, <2>2
  <2>5. ASSUME NEW o \in OrdersOf(s) PROVE o \in OrdersOf(r)
    <3>1. PICK i \in 1..n : o \in ToView(s[i])
      BY <2>1
    <3>2. i \in 1..(n + 1) /\ o \in ToView(r[i])
      BY <1>4, <1>5, <3>1
    <3> QED
      BY <2>2, <3>2
  <2> QED
    BY <2>3, <2>4, <2>5
<1> QED
  BY <1>1, <1>3, <1>8, <1>9

(* More viewers. *)
LEMMA RequestsLater ==
  ASSUME NEW k \in Nat, NEW l \in Nat, k <= l, NEW qs, RequestsRight(qs, k)
  PROVE  RequestsRight(qs, l)
<1> SUFFICES ASSUME NEW i \in 1..Len(qs) PROVE RequestRight(qs[i], l)
  BY DEF RequestsRight
<1>1. RequestRight(qs[i], k) /\ qs[i] \in Requests
  BY DEF RequestsRight
<1>2. qs[i].then.from \in Nat /\ qs[i].then.view \in Nat
  BY <1>1 DEF Requests, Orders
<1>3. qs[i].then.from <= l /\ qs[i].then.view <= l
  BY <1>1, <1>2 DEF RequestRight
<1> QED
  BY <1>1, <1>3 DEF RequestRight

(* Every order is one of an existing request. *)
LEMMA OrdersRight ==
  ASSUME NEW k, NEW qs, RequestsRight(qs, k), NEW o \in OrdersOf(qs)
  PROVE  o \in Orders /\ o.from <= k /\ o.do = "view"
<1>1. PICK i \in 1..Len(qs) : o \in ToView(qs[i])
  BY DEF OrdersOf
<1>2. qs[i] \in Requests /\ RequestRight(qs[i], k)
  BY <1>1 DEF RequestsRight
<1>3. o = qs[i].then /\ o.do = "view"
  BY <1>1 DEF ToView
<1> QED
  BY <1>2, <1>3 DEF Requests, RequestRight

(* The callbacks of one body. *)
LEMMA ToShowOne ==
  ASSUME NEW o, NEW c, c = <<o>>
  PROVE  IF o.do = "view" THEN Views!ToShow(c) # <<>> /\ Head(Views!ToShow(c)) = o
                          ELSE Views!ToShow(c) = <<>>
<1>1. \A S : Views!Cardinality(S) = Cardinality(S)
  BY DEF Views!Cardinality, Cardinality
<1>2. \A S, n : Views!Nth(S, n) = Nth(S, n)
  BY <1>1 DEF Views!Nth, Nth
<1>3. PICK S : S = {i \in DOMAIN c : c[i].do = "view"}
  OBVIOUS
<1>4. PICK r : r = Views!ToShow(c)
  OBVIOUS
<1>5. r = [n \in 1..Cardinality(S) |-> c[Nth(S, n)]]
  BY <1>1, <1>2, <1>3, <1>4 DEF Views!ToShow, Views!Picked
<1>6. DOMAIN c = {1} /\ c[1] = o
  OBVIOUS
<1>7. CASE o.do = "view"
  <2>1. S = {1}
    BY <1>3, <1>6, <1>7
  <2>2. Cardinality(S) = 1 /\ IsFiniteSet(S)
    BY <2>1, FS_Singleton, Zenon
  <2>a. S \subseteq Nat
    BY <2>1
  <2>b. \A n \in 1..Cardinality(S) : Nth(S, n) \in S
    BY <2>2, <2>a, NthRight
  <2>3. Nth(S, 1) \in S
    BY <2>2, <2>b
  <2>4. r = [n \in 1..1 |-> c[Nth(S, n)]]
    BY <1>5, <2>2
  <2>5. r = <<o>>
    BY <1>6, <2>1, <2>3, <2>4
  <2> QED
    BY <1>4, <1>7, <2>5
<1>8. CASE o.do # "view"
  <2>1. S = {}
    BY <1>3, <1>6, <1>8
  <2>2. Cardinality(S) = 0
    BY <2>1, FS_EmptySet
  <2>3. r = <<>>
    BY <1>5, <2>2
  <2> QED
    BY <1>4, <1>8, <2>3
<1> QED
  BY <1>7, <1>8

-----------------------------------------------------------------------------
(* Viewers: the one in which the selection was last moved shows the selected message, or an
   order to do so is on its way, or came too late.  O are the orders. *)

Orphaned == \E v \in orphans : made[v].msg = sel
Awaited(o) == o.msg = sel /\ o.from # 0 /\ (Views!Open(o.from) => slots[nav] = o.from)
Settled(O) == made[slots[nav]].msg = sel /\ \A o \in O : o.from = slots[nav] => o.msg = sel

NavKept(O) ==
  nav # 0 => slots[nav] = 0 \/ Orphaned \/ (\E o \in O : Awaited(o)) \/ Settled(O)

(* The new viewer j is the one, and no order is for it. *)
LEMMA NavShown ==
  ASSUME NEW P, NEW j, nav' # 0 => slots'[nav'] = j /\ made'[j].msg = sel',
         \A o \in P : o.from # j
  PROVE  NavKept(P)'
BY DEF NavKept, Settled

(* The selection moves, and the viewer is asked to follow. *)
LEMMA NavAwaits ==
  ASSUME NEW P, NEW o \in P, o.msg = sel', o.from # 0, slots'[nav'] = o.from
  PROVE  NavKept(P)'
<1>1. Awaited(o)'
  BY DEF Awaited
<1> QED
  BY <1>1 DEF NavKept

(* The viewers keep their messages, and new orders are for the selected one. *)
LEMMA NavSame ==
  ASSUME ViewersKept, NEW O, NavKept(O), NEW P, O \subseteq P,
         \A o \in P : o \in O \/ o.msg = sel,
         \A v \in 1..Len(made) : made'[v].msg = made[v].msg,
         slots' = slots, orphans' = orphans, sel' = sel, nav' = nav
  PROVE  NavKept(P)'
<1> SUFFICES ASSUME nav # 0 PROVE NavKept(P)'
  BY DEF NavKept
<1>1. /\ nav \in 1..Len(slots) /\ orphans \subseteq 1..Len(made)
      /\ slots[nav] \in Nat /\ slots[nav] <= Len(made) /\ Len(made) \in Nat
  <2>1. nav \in 0..Len(slots) /\ Len(slots) \in Nat
    BY DEF ViewersKept, PlacesTyped, ViewersTyped
  <2>2. nav \in 1..Len(slots)
    BY <2>1
  <2> QED
    BY <2>2 DEF ViewersKept, ViewersTyped
<1>2. CASE slots[nav] = 0
  BY <1>2 DEF NavKept
<1>3. CASE Orphaned
  <2>1. Orphaned'
    BY <1>1, <1>3 DEF Orphaned
  <2> QED
    BY <2>1 DEF NavKept
<1>4. ASSUME NEW o \in O, Awaited(o) PROVE NavKept(P)'
  <2>1. Views!Open(o.from)' <=> Views!Open(o.from)
    BY DEF Views!Open
  <2>2. Awaited(o)'
    BY <1>4, <2>1 DEF Awaited
  <2> QED
    BY <2>2 DEF NavKept
<1>5. CASE Settled(O) /\ slots[nav] # 0
  <2>1. slots[nav] \in 1..Len(made)
    BY <1>1, <1>5
  <2>2. Settled(P)'
    BY <1>5, <2>1 DEF Settled
  <2> QED
    BY <2>2 DEF NavKept
<1> QED
  BY <1>2, <1>3, <1>4, <1>5 DEF NavKept

(* Order R shows its message. *)
LEMMA NavShows ==
  ASSUME ViewersKept, ViewersKept', NEW m \in 1..N, NEW from \in 0..Len(made),
         ViewerAdded(m, from), NEW O, NavKept(O),
         \A o \in O : o.from \in 0..Len(made),
         NEW R \in O, R.msg = m, R.from = from, NEW P, P \subseteq O, O \subseteq P \cup {R},
         sel' = sel,
         nav' = IF from = 0 THEN IF m = sel THEN Len(slots) + 1 ELSE 0 ELSE nav
  PROVE  NavKept(P)'
<1>1. PICK k : k = Len(made)
  OBVIOUS
<1>2. PICK l : l = Len(slots)
  OBVIOUS
<1>3. /\ k \in Nat /\ l \in Nat /\ nav \in 0..l /\ orphans \subseteq 1..k /\ from \in 0..k
      /\ \A s \in 1..l : slots[s] \in Nat /\ slots[s] <= k
      /\ \A s, t \in 1..l : slots[s] = slots[t] /\ slots[s] # 0 => s = t
      /\ \A o \in O : o.from \in 0..k
  <2>1. /\ made \in Seq(Viewers) /\ slots \in Seq(Nat) /\ nav \in 0..l
        /\ \A s \in 1..l : slots[s] <= k
        /\ \A s, t \in 1..l : slots[s] = slots[t] /\ slots[s] # 0 => s = t
        /\ orphans \subseteq 1..k
    BY <1>1, <1>2 DEF ViewersKept, ViewersTyped, PlacesTyped
  <2>2. k \in Nat /\ l \in Nat /\ \A s \in 1..l : slots[s] \in Nat
    BY <1>1, <1>2, <2>1
  <2>3. from \in 0..k /\ \A o \in O : o.from \in 0..k
    BY <1>1
  <2> QED
    BY <2>1, <2>2, <2>3
<1>4. /\ made'[k + 1].msg = m /\ orphans \subseteq orphans'
      /\ \A v \in 1..k : made'[v].msg = made[v].msg
  BY <1>1 DEF ViewerAdded
<1>5. \A o \in P : o.from # k + 1
  BY <1>3
<1>6. CASE from = 0
  <2>1. slots'[l + 1] = k + 1 /\ nav' = IF m = sel THEN l + 1 ELSE 0
    BY <1>1, <1>2, <1>6 DEF ViewerAdded
  <2>2. nav' # 0 => slots'[nav'] = k + 1 /\ made'[k + 1].msg = sel'
    BY <1>4, <2>1
  <2>3. PICK j : j = k + 1
    OBVIOUS
  <2> QED
    BY <1>5, <2>2, <2>3, NavShown
<1>7. CASE nav = 0 /\ from # 0
  BY <1>7 DEF NavKept
<1>8. CASE nav # 0 /\ from # 0
  <2>1. nav' = nav /\ nav \in 1..l /\ Len(slots') = l
    BY <1>2, <1>3, <1>8 DEF ViewerAdded
  <2>2. \A v : Views!Open(v) <=> v # 0 /\ \E s \in 1..l : slots[s] = v
    BY <1>2, OpenRight DEF ViewersKept
  <2>3. DOMAIN slots' = 1..l
    BY <2>1 DEF ViewersKept, ViewersTyped
  <2>4. \A v : Views!Open(v)' <=> v # 0 /\ \E s \in 1..l : slots'[s] = v
    BY <2>3 DEF Views!Open
  <2>5. CASE Views!Open(from)
    <3>1. PICK s \in 1..l : /\ slots[s] = from /\ slots'[s] = k + 1
                            /\ \A t \in 1..l : t # s => slots'[t] = slots[t]
      BY <1>1, <1>2, <2>5 DEF ViewerAdded
    <3>2. ASSUME NEW v \in 1..k, Views!Open(v)' PROVE Views!Open(v) /\ v # from
      <4>1. PICK t \in 1..l : slots'[t] = v
        BY <2>4, <3>2
      <4>2. v # k + 1 /\ v # 0
        BY <1>3
      <4>3. t # s /\ slots[t] = v
        BY <3>1, <4>1, <4>2
      <4> QED
        BY <1>3, <2>2, <3>1, <4>2, <4>3
    <3>3. slots'[nav] = IF slots[nav] = from THEN k + 1 ELSE slots[nav]
      <4>1. slots[nav] = from => nav = s
        BY <1>3, <1>8, <2>1, <3>1
      <4>2. slots[nav] # from => nav # s
        BY <3>1
      <4> QED
        BY <2>1, <3>1, <4>1, <4>2
    <3>4. \A v \in 1..k : Views!Open(v)' => Views!Open(v) /\ v # from
      BY <3>2
    <3>5. CASE slots[nav] = from /\ m = sel
      <4>1. slots'[nav'] = k + 1 /\ made'[k + 1].msg = sel'
        BY <1>4, <2>1, <3>3, <3>5
      <4>2. PICK j : j = k + 1
        OBVIOUS
      <4> QED
        BY <1>5, <4>1, <4>2, NavShown
    <3>6. CASE ~(slots[nav] = from /\ m = sel)
      <4>1. CASE slots[nav] = 0
        <5>1. slots'[nav'] = 0
          BY <1>8, <2>1, <3>3, <4>1
        <5> QED
          BY <5>1 DEF NavKept
      <4>2. CASE Orphaned
        <5>1. Orphaned'
          BY <1>3, <1>4, <4>2 DEF Orphaned
        <5> QED
          BY <5>1 DEF NavKept
      <4>3. ASSUME NEW o \in O, Awaited(o) PROVE NavKept(P)'
        <5>1. o.msg = sel /\ o.from # 0 /\ (Views!Open(o.from) => slots[nav] = o.from)
          BY <4>3 DEF Awaited
        <5>2. o \in P
          BY <2>5, <3>6, <5>1
        <5>3. o.from \in 1..k
          BY <1>3, <5>1
        <5>4. Views!Open(o.from)' => slots'[nav'] = o.from
          BY <2>1, <3>3, <3>4, <5>1, <5>3
        <5>5. Awaited(o)'
          BY <5>1, <5>4 DEF Awaited
        <5> QED
          BY <5>2, <5>5 DEF NavKept
      <4>4. CASE Settled(O) /\ slots[nav] # 0
        <5>1. made[slots[nav]].msg = sel /\ \A o \in O : o.from = slots[nav] => o.msg = sel
          BY <4>4 DEF Settled
        <5>2. slots[nav] # from
          BY <3>6, <5>1
        <5>3. slots'[nav'] = slots[nav] /\ slots[nav] \in 1..k
          BY <1>3, <2>1, <3>3, <4>4, <5>2
        <5>4. Settled(P)'
          BY <1>4, <5>1, <5>3 DEF Settled
        <5> QED
          BY <5>4 DEF NavKept
      <4> QED
        BY <1>8, <4>1, <4>2, <4>3, <4>4 DEF NavKept
    <3> QED
      BY <3>5, <3>6
  <2>6. CASE ~Views!Open(from)
    <3>1. slots' = slots /\ k + 1 \in orphans'
      BY <1>1, <1>8, <2>6 DEF ViewerAdded
    <3>2. \A v : Views!Open(v)' <=> Views!Open(v)
      BY <3>1 DEF Views!Open
    <3>3. CASE m = sel
      <4>1. Orphaned'
        BY <1>4, <3>1, <3>3 DEF Orphaned
      <4> QED
        BY <4>1 DEF NavKept
    <3>4. CASE m # sel
      <4>1. CASE slots[nav] = 0
        BY <2>1, <3>1, <4>1 DEF NavKept
      <4>2. CASE Orphaned
        <5>1. Orphaned'
          BY <1>3, <1>4, <4>2 DEF Orphaned
        <5> QED
          BY <5>1 DEF NavKept
      <4>3. ASSUME NEW o \in O, Awaited(o) PROVE NavKept(P)'
        <5>1. o.msg = sel /\ o.from # 0 /\ (Views!Open(o.from) => slots[nav] = o.from)
          BY <4>3 DEF Awaited
        <5>2. o \in P
          BY <3>4, <5>1
        <5>3. Awaited(o)'
          BY <2>1, <3>1, <3>2, <5>1 DEF Awaited
        <5> QED
          BY <5>2, <5>3 DEF NavKept
      <4>4. CASE Settled(O) /\ slots[nav] # 0
        <5>1. slots[nav] \in 1..k
          BY <1>3, <2>1, <4>4
        <5>2. Settled(P)'
          BY <1>4, <2>1, <3>1, <4>4, <5>1 DEF Settled
        <5> QED
          BY <5>2 DEF NavKept
      <4> QED
        BY <1>8, <4>1, <4>2, <4>3, <4>4 DEF NavKept
    <3> QED
      BY <3>3, <3>4
  <2> QED
    BY <2>5, <2>6
<1> QED
  BY <1>6, <1>7, <1>8

-----------------------------------------------------------------------------
(* Viewers: the parts of the steps. *)

(* No viewer comes, goes or closes. *)
LEMMA ViewersSame ==
  ASSUME ViewersKept, slots' = slots, orphans' = orphans, made' \in Seq(Viewers),
         Len(made') = Len(made), \A v \in 1..Len(made) : made'[v].closed = made[v].closed,
         PlacesTyped'
  PROVE  ViewersKept'
<1>1. ViewersTyped'
  BY DEF ViewersKept, ViewersTyped
<1>2. \A v : Views!Open(v)' <=> Views!Open(v)
  BY DEF Views!Open
<1>3. DOMAIN made = 1..Len(made) /\ DOMAIN made' = 1..Len(made)
  BY DEF ViewersKept, ViewersTyped
<1>4. \A v \in 1..Len(made) :
        /\ Views!Open(v) => ~made[v].closed
        /\ ~Views!Open(v) => made[v].closed \/ v \in orphans
  BY <1>3 DEF ViewersKept, Views!ViewersClosed
<1>5. \A v \in 1..Len(made) :
        /\ Views!Open(v)' => ~made'[v].closed
        /\ ~Views!Open(v)' => made'[v].closed \/ v \in orphans'
  BY <1>2, <1>4
<1>6. Views!ViewersClosed'
  BY <1>3, <1>5 DEF Views!ViewersClosed
<1> QED
  BY <1>1, <1>6 DEF ViewersKept

(* A viewer is closed with its tab (RemoveTab). *)
LEMMA RemovesRight ==
  ASSUME ViewersKept, NEW v \in 0..Len(made), Views!Removes(v), nav' = 0, orphans' = orphans
  PROVE  ViewersKept' /\ Len(made') = Len(made)
<1>1. PICK k : k = Len(made)
  OBVIOUS
<1>2. PICK l : l = Len(slots)
  OBVIOUS
<1>3. /\ made \in Seq(Viewers) /\ slots \in Seq(Nat)
      /\ \A s \in 1..l : slots[s] <= k
      /\ \A s, t \in 1..l : slots[s] = slots[t] /\ slots[s] # 0 => s = t
      /\ orphans \subseteq 1..k
      /\ at \in 0..l /\ (at # 0 => slots[at] # 0)
  BY <1>1, <1>2 DEF ViewersKept, ViewersTyped, PlacesTyped
<1>4. k \in Nat /\ l \in Nat /\ v \in 0..k /\ DOMAIN slots = 1..l /\ DOMAIN made = 1..k
  BY <1>1, <1>2, <1>3
<1>5. \A u \in 1..k :
        /\ Views!Open(u) => ~made[u].closed
        /\ ~Views!Open(u) => made[u].closed \/ u \in orphans
  BY <1>4 DEF ViewersKept, Views!ViewersClosed
<1>6. /\ made' \in Seq(Viewers) /\ Len(made') = k
      /\ \A u \in 1..k : u # v => made'[u] = made[u]
      /\ v # 0 => made'[v].closed
  <2>1. PICK vs \in Seq(Viewers) : vs = made
    BY <1>3
  <2>2. PICK c : c = Views!Closed(vs, v)
    OBVIOUS
  <2>3. v \in 0..Len(vs)
    BY <2>1
  <2>4. /\ c \in Seq(Viewers) /\ Len(c) = Len(vs)
        /\ \A u \in 1..Len(vs) : c[u].msg = vs[u].msg /\ (u # v => c[u] = vs[u])
        /\ v # 0 => c[v].closed
    BY <2>2, <2>3, ClosedRight
  <2>5. made' = c
    BY <2>1, <2>2 DEF Views!Removes
  <2> QED
    BY <1>1, <2>1, <2>4, <2>5
<1>7. \A u : Views!Open(u) <=> u # 0 /\ \E s \in 1..l : slots[s] = u
  BY <1>2, OpenRight DEF ViewersKept
<1>8. CASE ~Views!Open(v)
  <2>1. slots' = slots /\ at' = at
    BY <1>8 DEF Views!Removes
  <2>2. ViewersTyped'
    BY <1>2, <1>3, <1>6, <2>1 DEF ViewersTyped
  <2>3. PlacesTyped'
    BY <1>2, <1>3, <1>4, <2>1 DEF PlacesTyped
  <2>4. \A u : Views!Open(u)' <=> Views!Open(u)
    BY <2>1 DEF Views!Open
  <2>5. \A u \in 1..k :
          /\ Views!Open(u)' => ~made'[u].closed
          /\ ~Views!Open(u)' => made'[u].closed \/ u \in orphans'
    <3> SUFFICES ASSUME NEW u \in 1..k
                 PROVE  /\ Views!Open(u)' => ~made'[u].closed
                        /\ ~Views!Open(u)' => made'[u].closed \/ u \in orphans'
      OBVIOUS
    <3>1. CASE u = v
      <4>1. u # 0
        BY <1>4
      <4> QED
        BY <1>6, <1>8, <2>4, <3>1, <4>1
    <3>2. CASE u # v
      BY <1>5, <1>6, <2>4, <3>2
    <3> QED
      BY <3>1, <3>2
  <2>6. DOMAIN made' = 1..k
    BY <1>6
  <2>7. Views!ViewersClosed'
    BY <2>5, <2>6 DEF Views!ViewersClosed
  <2> QED
    BY <1>1, <1>6, <2>2, <2>3, <2>7 DEF ViewersKept
<1>9. CASE Views!Open(v)
  <2>1. PICK s : s = CHOOSE t \in DOMAIN slots : slots[t] = v
    OBVIOUS
  <2>2. v # 0 /\ s \in 1..l /\ slots[s] = v
    BY <1>4, <1>7, <1>9, <2>1
  <2>3. /\ slots' = [slots EXCEPT ![s] = 0]
        /\ IF at = s THEN at' \in {0} \cup {t \in DOMAIN slots : slots'[t] # 0} ELSE at' = at
    BY <1>9, <2>1 DEF Views!Removes
  <2>4. /\ slots' \in Seq(Nat) /\ Len(slots') = l
        /\ \A t \in 1..l : slots'[t] = IF t = s THEN 0 ELSE slots[t]
    <3>1. PICK z \in Seq(Nat) : z = slots
      BY <1>3
    <3>2. PICK e : e = [z EXCEPT ![s] = 0]
      OBVIOUS
    <3>3. s \in 1..Len(z)
      BY <1>2, <2>2, <3>1
    <3>4. /\ e \in Seq(Nat) /\ Len(e) = Len(z)
          /\ \A j \in 1..Len(z) : e[j] = IF j = s THEN 0 ELSE z[j]
      BY <3>2, <3>3, ExceptSeq
    <3>5. slots' = e /\ l = Len(z)
      BY <1>2, <2>3, <3>1, <3>2
    <3>6. slots' \in Seq(Nat) /\ Len(slots') = l
      BY <3>4, <3>5
    <3>7. \A t \in 1..l : slots'[t] = IF t = s THEN 0 ELSE slots[t]
      BY <3>1, <3>4, <3>5
    <3> QED
      BY <3>6, <3>7
  <2>5. \A t \in 1..l : slots'[t] <= k
    <3>1. 0 <= k
      BY <1>4
    <3> QED
      BY <1>3, <2>4, <3>1
  <2>6. \A t, u \in 1..l : slots'[t] = slots'[u] /\ slots'[t] # 0 => t = u
    BY <1>3, <2>4
  <2>7. ViewersTyped'
    BY <1>3, <1>6, <2>4, <2>5, <2>6 DEF ViewersTyped
  <2>8. PlacesTyped'
    <3>1. CASE at = s
      <4>1. at' = 0 \/ (at' \in 1..l /\ slots'[at'] # 0)
        BY <1>4, <2>3, <3>1
      <4> QED
        BY <1>4, <2>4, <4>1 DEF PlacesTyped
    <3>2. CASE at # s
      <4>1. at' = at /\ (at # 0 => slots'[at] # 0)
        <5>1. at # 0 => at \in 1..l
          BY <1>3, <1>4
        <5> QED
          BY <1>3, <2>3, <2>4, <3>2, <5>1
      <4> QED
        BY <1>3, <1>4, <2>4, <4>1 DEF PlacesTyped
    <3> QED
      BY <3>1, <3>2
  <2>9. DOMAIN slots' = 1..l /\ DOMAIN made' = 1..k
    BY <1>6, <2>4
  <2>10. \A u : Views!Open(u)' <=> u # 0 /\ \E t \in 1..l : slots'[t] = u
    BY <2>9 DEF Views!Open
  <2>11. \A u : Views!Open(u)' <=> Views!Open(u) /\ u # v
    BY <1>3, <1>7, <2>2, <2>4, <2>10
  <2>12. \A u \in 1..k :
           /\ Views!Open(u)' => ~made'[u].closed
           /\ ~Views!Open(u)' => made'[u].closed \/ u \in orphans'
    <3> SUFFICES ASSUME NEW u \in 1..k
                 PROVE  /\ Views!Open(u)' => ~made'[u].closed
                        /\ ~Views!Open(u)' => made'[u].closed \/ u \in orphans'
      OBVIOUS
    <3>1. CASE u = v
      BY <1>6, <2>2, <2>11, <3>1
    <3>2. CASE u # v
      BY <1>5, <1>6, <2>11, <3>2
    <3> QED
      BY <3>1, <3>2
  <2>13. Views!ViewersClosed'
    BY <2>9, <2>12 DEF Views!ViewersClosed
  <2> QED
    BY <1>1, <1>6, <2>7, <2>8, <2>13 DEF ViewersKept
<1> QED
  BY <1>8, <1>9

(* The orders of the next state may be counted before they are known. *)
LEMMA NavOrders ==
  ASSUME NEW P, P = OrdersOf(requests'), NavKept(P)'
  PROVE  NavKept(OrdersOf(requests))'
BY DEF NavKept, Settled, Awaited

(* A body is asked for, unless it is pending. *)
LEMMA FetchedRight ==
  ASSUME NEW q, NEW k, BodiesKept(q, pending, calls, view_stuck), RequestsRight(q, k),
         NEW m \in 1..N, NEW o \in Orders, o.from <= k, o.view <= k,
         o.do = "view" => o.view = 0 /\ o.msg = m,
         Views!FetchFull(m, o, q), view_stuck' = view_stuck
  PROVE  /\ BodiesKept(requests', pending', calls', view_stuck')
         /\ RequestsRight(requests', k)
         /\ OrdersOf(requests') =
              OrdersOf(q) \cup (IF m \in pending \/ o.do # "view" THEN {} ELSE {o})
<1>1. CASE m \in pending
  <2>1. requests' = q /\ pending' = pending /\ calls' = calls
    BY <1>1 DEF Views!FetchFull
  <2> QED
    BY <1>1, <2>1
<1>2. CASE m \notin pending
  <2>1. PICK r : r = Views!Request("full", m, o)
    OBVIOUS
  <2>2. r = [kind |-> "full", msg |-> m, then |-> o]
    BY <2>1 DEF Views!Request
  <2>3. r \in Requests /\ r.kind = "full" /\ r.msg = m /\ r.then = o
    BY <2>2 DEF Requests
  <2>4. RequestRight(r, k)
    BY <2>3 DEF RequestRight
  <2>5. /\ requests' = Append(q, r) /\ pending' = pending \cup {r.msg}
        /\ calls' = [calls EXCEPT ![r.msg] = Append(@, r.then)]
    BY <1>2, <2>1, <2>3 DEF Views!FetchFull
  <2>6. BodiesKept(Append(q, r), pending \cup {r.msg},
                   [calls EXCEPT ![r.msg] = Append(@, r.then)], view_stuck)
    BY <1>2, <2>3, BodiesAsked
  <2>7. RequestsRight(Append(q, r), k) /\ OrdersOf(Append(q, r)) = OrdersOf(q) \cup ToView(r)
    BY <2>3, <2>4, RequestsAsked
  <2>8. ToView(r) = IF o.do # "view" THEN {} ELSE {o}
    BY <2>3 DEF ToView
  <2> QED
    BY <1>2, <2>5, <2>6, <2>7, <2>8
<1> QED
  BY <1>1, <1>2

(* What NewMessageStoreView makes of the requests q: nothing any more, an order, or a viewer. *)
Viewing(m, from, n, O) ==
  \/ nav' = 0
  \/ /\ OrdersOf(requests') = O \cup {Views!Then("view", m, from, 0)} /\ nav' = n
     /\ made' = made /\ slots' = slots /\ orphans' = orphans
  \/ /\ ViewerAdded(m, from) /\ OrdersOf(requests') = O
     /\ nav' = IF from = 0 THEN IF m = sel THEN Len(slots) + 1 ELSE 0 ELSE n

(* NewMessageStoreView shows a loaded message at once, or after its answer (lib/messageview.go). *)
LEMMA ViewRight ==
  ASSUME ViewersKept, NEW q, BodiesKept(q, pending, calls, view_stuck),
         RequestsRight(q, Len(made)), NEW m \in 1..N, NEW from \in 0..Len(made),
         NEW n \in 0..Len(slots), Views!NewMessageStoreView(m, from, n, q),
         view_stuck' = view_stuck
  PROVE  /\ ViewersKept' /\ BodiesKept(requests', pending', calls', view_stuck')
         /\ RequestsRight(requests', Len(made'))
         /\ Viewing(m, from, n, OrdersOf(q))
<1>1. Len(made) \in Nat /\ Len(slots) \in Nat
  BY DEF ViewersKept, ViewersTyped
<1>2. CASE m \in Encrypted
  <2>1. /\ Views!FetchFull(m, Views!Then("view", m, from, 0), q)
        /\ nav' = (IF m \in pending THEN 0 ELSE n)
        /\ made' = made /\ slots' = slots /\ at' = at /\ orphans' = orphans
    BY <1>2 DEF Views!NewMessageStoreView
  <2>2. PICK o : o = Views!Then("view", m, from, 0)
    OBVIOUS
  <2>3. o = [do |-> "view", msg |-> m, from |-> from, view |-> 0]
    BY <2>2 DEF Views!Then
  <2>4. m \in 0..N /\ from \in Nat /\ from <= Len(made) /\ 0 <= Len(made)
    BY <1>1, ViewsAssumption
  <2>5. o \in Orders /\ o.do = "view" /\ o.msg = m /\ o.view = 0 /\ o.from = from
    BY <2>3, <2>4 DEF Orders
  <2>6. PICK k : k = Len(made)
    OBVIOUS
  <2>7. /\ BodiesKept(requests', pending', calls', view_stuck')
        /\ RequestsRight(requests', k)
        /\ OrdersOf(requests') =
             OrdersOf(q) \cup (IF m \in pending \/ o.do # "view" THEN {} ELSE {o})
    BY <2>1, <2>2, <2>4, <2>5, <2>6, FetchedRight
  <2>8. nav' \in 0..Len(slots)
    BY <1>1, <2>1
  <2>9. PlacesTyped'
    BY <2>1, <2>8 DEF ViewersKept, PlacesTyped
  <2>10. ViewersKept'
    BY <2>1, <2>9, ViewersSame DEF ViewersKept, ViewersTyped
  <2>11. Viewing(m, from, n, OrdersOf(q))
    BY <2>1, <2>2, <2>5, <2>7 DEF Viewing
  <2> QED
    BY <2>1, <2>6, <2>7, <2>10, <2>11
<1>3. CASE m \notin Encrypted
  <2>1. /\ Views!Shows(m, from, n) /\ requests' = q
        /\ pending' = pending /\ calls' = calls
    BY <1>3 DEF Views!NewMessageStoreView
  <2>2. /\ ViewersKept' /\ ViewerAdded(m, from)
        /\ nav' = IF from = 0 THEN IF m = sel THEN Len(slots) + 1 ELSE 0 ELSE n
    BY <2>1, ShowsRight
  <2>3. PICK k \in Nat : k = Len(made)
    BY <1>1
  <2>4. PICK l \in Nat : l = Len(made')
    BY <2>2 DEF ViewersKept, ViewersTyped
  <2>5. k <= l
    BY <2>2, <2>3, <2>4 DEF ViewerAdded
  <2>6. RequestsRight(q, l)
    BY <2>3, <2>5, RequestsLater
  <2>7. Viewing(m, from, n, OrdersOf(q))
    BY <2>1, <2>2 DEF Viewing
  <2> QED
    BY <2>1, <2>2, <2>4, <2>6, <2>7
<1> QED
  BY <1>2, <1>3

-----------------------------------------------------------------------------
(* Viewers: the steps. *)

ViewersIInv ==
  /\ ViewersKept
  /\ BodiesKept(requests, pending, calls, view_stuck)
  /\ RequestsRight(requests, Len(made))
  /\ NavKept(OrdersOf(requests))
  /\ sel \in 1..N /\ loaded \subseteq 1..N

(* The selected viewer. *)
LEMMA AtRight ==
  ASSUME ViewersKept, at # 0
  PROVE  /\ at \in 1..Len(slots) /\ slots[at] \in 1..Len(made)
         /\ made[slots[at]].msg \in 1..N
<1>1. /\ made \in Seq(Viewers) /\ slots \in Seq(Nat)
      /\ \A s \in 1..Len(slots) : slots[s] <= Len(made)
      /\ at \in 0..Len(slots) /\ slots[at] # 0
  BY DEF ViewersKept, ViewersTyped, PlacesTyped
<1>2. at \in 1..Len(slots)
  BY <1>1
<1>3. slots[at] \in Nat /\ slots[at] <= Len(made) /\ Len(made) \in Nat
  BY <1>1, <1>2
<1>4. slots[at] \in 1..Len(made)
  BY <1>1, <1>3
<1>5. made[slots[at]] \in Viewers
  BY <1>1, <1>4
<1> QED
  BY <1>2, <1>4, <1>5 DEF Viewers

(* The first request is answered. *)
LEMMA JobRight ==
  ASSUME ViewersIInv, NEW sort, Views!Answers(sort)
  PROVE  /\ Views!Job \in Requests /\ RequestRight(Views!Job, Len(made))
         /\ Views!Job.kind = sort
         /\ RequestsRight(Views!Rest, Len(made))
         /\ OrdersOf(requests) = ToView(Views!Job) \cup OrdersOf(Views!Rest)
         /\ sort # "full" => BodiesKept(Views!Rest, pending, calls, view_stuck)
         /\ sort = "full" =>
              /\ BodiesKept(Views!Rest, pending \ {Views!Job.msg},
                            [calls EXCEPT ![Views!Job.msg] = <<>>], view_stuck)
              /\ BodiesKept(Views!Rest, pending, calls, view_stuck \cup {Views!Job.msg})
              /\ calls[Views!Job.msg] = <<Views!Job.then>>
<1>1. requests # <<>> /\ Head(requests).kind = sort
  BY DEF Views!Answers
<1>2. Views!Job = Head(requests) /\ Views!Rest = Tail(requests)
  BY DEF Views!Job, Views!Rest
<1>3. PICK k : k = Len(made)
  OBVIOUS
<1>4. PICK qs : qs = requests
  OBVIOUS
<1>5. RequestsRight(qs, k) /\ BodiesKept(qs, pending, calls, view_stuck)
  BY <1>3, <1>4 DEF ViewersIInv
<1>6. /\ RequestsRight(Tail(qs), k)
      /\ Head(qs) \in Requests /\ RequestRight(Head(qs), k)
      /\ OrdersOf(qs) = ToView(Head(qs)) \cup OrdersOf(Tail(qs))
  BY <1>1, <1>4, <1>5, RequestsAnswered
<1>7. /\ Head(qs).kind # "full" => BodiesKept(Tail(qs), pending, calls, view_stuck)
      /\ Head(qs).kind = "full" =>
           /\ BodiesKept(Tail(qs), pending \ {Head(qs).msg},
                         [calls EXCEPT ![Head(qs).msg] = <<>>], view_stuck)
           /\ BodiesKept(Tail(qs), pending, calls, view_stuck \cup {Head(qs).msg})
           /\ calls[Head(qs).msg] = <<Head(qs).then>>
  BY <1>1, <1>4, <1>5, BodiesAnswered
<1> QED
  BY <1>1, <1>2, <1>3, <1>4, <1>6, <1>7

(* Orders stay as they are, or the last move of the selection is forgotten. *)
LEMMA NavRests ==
  ASSUME ViewersIInv, NEW P, P = OrdersOf(requests'),
         \/ nav' = 0
         \/ /\ P = OrdersOf(requests)
            /\ \A v \in 1..Len(made) : made'[v].msg = made[v].msg
            /\ slots' = slots /\ orphans' = orphans /\ sel' = sel /\ nav' = nav
  PROVE  NavKept(OrdersOf(requests))'
<1>1. CASE nav' = 0
  BY <1>1 DEF NavKept
<1>2. CASE nav' # 0
  <2>1. PICK O : O = OrdersOf(requests)
    OBVIOUS
  <2>2. NavKept(O)
    BY <2>1 DEF ViewersIInv
  <2>3. NavKept(P)'
    BY <1>2, <2>1, <2>2, NavSame DEF ViewersIInv
  <2> QED
    BY <2>3, NavOrders
<1> QED
  BY <1>1, <1>2

(* The order of the first request is carried out. *)
LEMMA NavAnswered ==
  ASSUME ViewersIInv, ViewersKept', NEW sort, Views!Answers(sort),
         NEW m \in 1..N, NEW from \in 0..Len(made), Views!Job.then.do = "view",
         Views!Job.then.msg = m, Views!Job.then.from = from,
         Viewing(m, from, nav, OrdersOf(Views!Rest)), sel' = sel
  PROVE  NavKept(OrdersOf(requests))'
<1>1. PICK R : R = Views!Job.then
  OBVIOUS
<1>2. PICK O : O = OrdersOf(requests)
  OBVIOUS
<1>3. PICK P : P = OrdersOf(Views!Rest)
  OBVIOUS
<1>4. /\ Views!Job \in Requests /\ RequestRight(Views!Job, Len(made))
      /\ O = ToView(Views!Job) \cup P
  BY <1>2, <1>3, JobRight
<1>5. O = P \cup {R}
  BY <1>1, <1>4 DEF ToView
<1>6. R \in Orders /\ R.do = "view" /\ R.msg = m /\ R.from = from /\ R.view = 0
  BY <1>1, <1>4 DEF Requests, RequestRight
<1>7. NavKept(O)
  BY <1>2 DEF ViewersIInv
<1>8. CASE nav' = 0
  BY <1>8 DEF NavKept
<1>9. CASE /\ OrdersOf(requests') = P \cup {Views!Then("view", m, from, 0)} /\ nav' = nav
           /\ made' = made /\ slots' = slots /\ orphans' = orphans
  <2>1. Views!Then("view", m, from, 0) = R
    BY <1>6 DEF Views!Then, Orders
  <2>2. OrdersOf(requests') = O
    BY <1>5, <1>9, <2>1
  <2> QED
    BY <1>2, <1>9, <2>2, NavRests
<1>10. CASE /\ ViewerAdded(m, from) /\ OrdersOf(requests') = P
            /\ nav' = IF from = 0 THEN IF m = sel THEN Len(slots) + 1 ELSE 0 ELSE nav
  <2>1. \A o \in O : o.from \in 0..Len(made)
    <3> SUFFICES ASSUME NEW o \in O PROVE o.from \in 0..Len(made)
      OBVIOUS
    <3>1. PICK k : k = Len(made)
      OBVIOUS
    <3>2. PICK qs : qs = requests
      OBVIOUS
    <3>3. o \in Orders /\ o.from <= k
      BY <1>2, <3>1, <3>2, OrdersRight DEF ViewersIInv
    <3>4. o.from \in Nat /\ k \in Nat
      BY <3>1, <3>3 DEF Orders, ViewersIInv, ViewersKept, ViewersTyped
    <3> QED
      BY <3>1, <3>3, <3>4
  <2>2. R \in O /\ P \subseteq O /\ O \subseteq P \cup {R}
    BY <1>5
  <2>3. NavKept(P)'
    BY <1>6, <1>7, <1>10, <2>1, <2>2, NavShows DEF ViewersIInv
  <2> QED
    BY <1>10, <2>3, NavOrders
<1> QED
  BY <1>3, <1>8, <1>9, <1>10 DEF Viewing

(* The commands. *)

LEMMA StepViewMessage == ASSUME ViewersIInv, Views!ViewMessage PROVE ViewersIInv'
<1>1. PICK q : q = requests
  OBVIOUS
<1>2. /\ Views!NewMessageStoreView(sel, 0, nav, q)
      /\ sel' = sel /\ loaded' = loaded /\ view_stuck' = view_stuck
  BY <1>1 DEF Views!ViewMessage
<1>3. PICK m \in 1..N : m = sel
  BY DEF ViewersIInv
<1>4. PICK n : n = nav
  OBVIOUS
<1>5. /\ ViewersKept /\ BodiesKept(q, pending, calls, view_stuck)
      /\ RequestsRight(q, Len(made))
  BY <1>1 DEF ViewersIInv
<1>6. /\ n \in 0..Len(slots) /\ Len(made) \in Nat /\ 0 \in 0..Len(made)
  BY <1>4 DEF ViewersIInv, ViewersKept, PlacesTyped, ViewersTyped
<1>7. Views!NewMessageStoreView(m, 0, n, q)
  BY <1>2, <1>3, <1>4
<1>8. /\ ViewersKept' /\ BodiesKept(requests', pending', calls', view_stuck')
      /\ RequestsRight(requests', Len(made')) /\ Viewing(m, 0, n, OrdersOf(q))
  BY <1>2, <1>5, <1>6, <1>7, ViewRight
<1>9. NavKept(OrdersOf(requests))'
  <2>1. CASE nav' = 0
    BY <2>1 DEF NavKept
  <2>2. CASE /\ OrdersOf(requests') = OrdersOf(q) \cup {Views!Then("view", m, 0, 0)} /\ nav' = n
             /\ made' = made /\ slots' = slots /\ orphans' = orphans
    <3>1. PICK O : O = OrdersOf(requests)
      OBVIOUS
    <3>2. PICK P : P = OrdersOf(requests')
      OBVIOUS
    <3>3. Views!Then("view", m, 0, 0).msg = sel
      BY <1>3 DEF Views!Then
    <3>4. O \subseteq P /\ \A o \in P : o \in O \/ o.msg = sel
      BY <1>1, <2>2, <3>1, <3>2, <3>3
    <3>5. NavKept(O)
      BY <3>1 DEF ViewersIInv
    <3>6. NavKept(P)'
      BY <1>2, <1>4, <1>5, <2>2, <3>4, <3>5, NavSame
    <3> QED
      BY <3>2, <3>6, NavOrders
  <2>3. CASE /\ ViewerAdded(m, 0) /\ OrdersOf(requests') = OrdersOf(q)
             /\ nav' = IF m = sel THEN Len(slots) + 1 ELSE 0
    <3>1. PICK j : j = Len(made) + 1
      OBVIOUS
    <3>2. slots'[nav'] = j /\ made'[j].msg = sel'
      BY <1>2, <1>3, <2>3, <3>1 DEF ViewerAdded
    <3>3. PICK P : P = OrdersOf(requests')
      OBVIOUS
    <3>4. PICK k \in Nat : k = Len(made)
      BY <1>6
    <3>5. ASSUME NEW o \in P PROVE o.from # j
      <4>1. o \in OrdersOf(q) /\ RequestsRight(q, k)
        BY <1>5, <2>3, <3>3, <3>4
      <4>2. o \in Orders /\ o.from <= k
        BY <4>1, OrdersRight
      <4>3. o.from \in Nat
        BY <4>2 DEF Orders
      <4> QED
        BY <3>1, <3>4, <4>2, <4>3
    <3>6. NavKept(P)'
      BY <3>2, <3>5, NavShown
    <3> QED
      BY <3>3, <3>6, NavOrders
  <2> QED
    BY <1>8, <2>1, <2>2, <2>3 DEF Viewing
<1> QED
  BY <1>2, <1>8, <1>9 DEF ViewersIInv

(* A new order for the viewer of the selected tab, to which the selection moves. *)
LEMMA NavOrdered ==
  ASSUME ViewersKept, at # 0, slots' = slots, nav' = at,
         NEW o \in OrdersOf(requests'), o.msg = sel', o.from = slots[at]
  PROVE  NavKept(OrdersOf(requests))'
<1>1. slots[at] # 0
  BY DEF ViewersKept, PlacesTyped
<1>2. PICK P : P = OrdersOf(requests')
  OBVIOUS
<1>3. NavKept(P)'
  BY <1>1, <1>2, NavAwaits
<1> QED
  BY <1>2, <1>3, NavOrders

(* :next and :prev in list and viewer (commands/account/next.go). *)
LEMMA StepNextPrevMsg == ASSUME ViewersIInv, Views!NextPrevMsg PROVE ViewersIInv'
<1>1. PICK to : /\ to \in 1..N /\ sel' = to
                /\ CASE at = 0 -> nav' = 0 /\ UNCHANGED <<asking, pending, calls, requests, made, slots, at, orphans>>
                     [] at # 0 /\ to \in loaded ->
                          Views!NewMessageStoreView(to, slots[at], at, requests) /\ UNCHANGED asking
                     [] OTHER ->
                          /\ asking' = asking \cup {to}
                          /\ requests' = (IF to \in asking THEN requests
                                          ELSE Append(requests,
                                                 Views!Request("header", to, Views!Then("view", to, slots[at], 0))))
                          /\ nav' = (IF to \in asking THEN 0 ELSE at)
                          /\ UNCHANGED <<pending, calls, made, slots, at, orphans>>
  BY DEF Views!NextPrevMsg, Views!Messages
<1>2. loaded' = loaded /\ view_stuck' = view_stuck
  BY DEF Views!NextPrevMsg
<1>3. /\ ViewersKept /\ BodiesKept(requests, pending, calls, view_stuck)
      /\ RequestsRight(requests, Len(made)) /\ loaded \subseteq 1..N
  BY DEF ViewersIInv
<1>4. CASE at = 0
  <2>1. nav' = 0 /\ UNCHANGED <<pending, calls, requests, made, slots, at, orphans>>
    BY <1>1, <1>4
  <2>2. NavKept(OrdersOf(requests))'
    BY <2>1 DEF NavKept
  <2>3. PlacesTyped'
    <3>1. Len(slots) \in Nat
      BY <1>3 DEF ViewersKept, ViewersTyped
    <3> QED
      BY <1>3, <2>1, <3>1 DEF ViewersKept, PlacesTyped
  <2>4. ViewersKept'
    BY <1>3, <2>1, <2>3, ViewersSame DEF ViewersKept, ViewersTyped
  <2> QED
    BY <1>1, <1>2, <1>3, <2>1, <2>2, <2>4 DEF ViewersIInv
<1>5. CASE at # 0 /\ to \in loaded
  <2>1. PICK from : from = slots[at]
    OBVIOUS
  <2>2. PICK n : n = at
    OBVIOUS
  <2>3. PICK q : q = requests
    OBVIOUS
  <2>4. n \in 1..Len(slots) /\ from \in 1..Len(made) /\ Len(made) \in Nat /\ Len(slots) \in Nat
    <3>1. at \in 1..Len(slots) /\ slots[at] \in 1..Len(made)
      BY <1>3, <1>5, AtRight
    <3>2. Len(made) \in Nat /\ Len(slots) \in Nat
      BY <1>3 DEF ViewersKept, ViewersTyped
    <3> QED
      BY <2>1, <2>2, <3>1, <3>2
  <2>5. n \in 0..Len(slots) /\ from \in 0..Len(made) /\ from # 0 /\ n # 0
    BY <2>4
  <2>6. Views!NewMessageStoreView(to, from, n, q)
    BY <1>1, <1>5, <2>1, <2>2, <2>3
  <2>7. /\ ViewersKept' /\ BodiesKept(requests', pending', calls', view_stuck')
        /\ RequestsRight(requests', Len(made')) /\ Viewing(to, from, n, OrdersOf(q))
    BY <1>1, <1>2, <1>3, <2>3, <2>5, <2>6, ViewRight
  <2>8. NavKept(OrdersOf(requests))'
    <3>1. CASE nav' = 0
      BY <3>1 DEF NavKept
    <3>2. CASE /\ OrdersOf(requests') = OrdersOf(q) \cup {Views!Then("view", to, from, 0)} /\ nav' = n
               /\ made' = made /\ slots' = slots /\ orphans' = orphans
      <4>1. PICK o : o = Views!Then("view", to, from, 0)
        OBVIOUS
      <4>2. o.msg = to /\ o.from = from
        BY <4>1 DEF Views!Then
      <4>3. o \in OrdersOf(requests')
        BY <3>2, <4>1
      <4> QED
        BY <1>1, <1>3, <1>5, <2>1, <2>2, <3>2, <4>2, <4>3, NavOrdered
    <3>3. CASE /\ ViewerAdded(to, from) /\ OrdersOf(requests') = OrdersOf(q)
               /\ nav' = IF from = 0 THEN IF to = sel THEN Len(slots) + 1 ELSE 0 ELSE n
      <4>1. PICK j : j = Len(made) + 1
        OBVIOUS
      <4>2. Views!Open(from)
        BY <1>3, <2>1, <2>2, <2>4, <2>5, OpenRight DEF ViewersKept
      <4>3. PICK s \in 1..Len(slots) : slots[s] = from /\ slots'[s] = j
        BY <3>3, <4>1, <4>2 DEF ViewerAdded
      <4>4. s = n
        BY <1>3, <2>1, <2>2, <2>4, <2>5, <4>3 DEF ViewersKept, ViewersTyped
      <4>5. slots'[nav'] = j /\ made'[j].msg = sel'
        BY <1>1, <2>5, <3>3, <4>1, <4>3, <4>4 DEF ViewerAdded
      <4>6. PICK P : P = OrdersOf(requests')
        OBVIOUS
      <4>7. PICK k \in Nat : k = Len(made)
        BY <2>4
      <4>8. ASSUME NEW o \in P PROVE o.from # j
        <5>1. o \in OrdersOf(q) /\ RequestsRight(q, k)
          BY <1>3, <2>3, <3>3, <4>6, <4>7
        <5>2. o \in Orders /\ o.from <= k
          BY <5>1, OrdersRight
        <5>3. o.from \in Nat
          BY <5>2 DEF Orders
        <5> QED
          BY <4>1, <4>7, <5>2, <5>3
      <4>9. NavKept(P)'
        BY <4>5, <4>8, NavShown
      <4> QED
        BY <4>6, <4>9, NavOrders
    <3> QED
      BY <2>7, <3>1, <3>2, <3>3 DEF Viewing
  <2> QED
    BY <1>1, <1>2, <1>3, <2>7, <2>8 DEF ViewersIInv
<1>6. CASE at # 0 /\ to \notin loaded
  <2>1. /\ requests' = (IF to \in asking THEN requests
                        ELSE Append(requests,
                               Views!Request("header", to, Views!Then("view", to, slots[at], 0))))
        /\ nav' = (IF to \in asking THEN 0 ELSE at)
        /\ UNCHANGED <<pending, calls, made, slots, at, orphans>>
    BY <1>1, <1>6
  <2>2. /\ at \in 1..Len(slots) /\ slots[at] \in 1..Len(made) /\ Len(made) \in Nat
        /\ Len(slots) \in Nat
    <3>1. at \in 1..Len(slots) /\ slots[at] \in 1..Len(made)
      BY <1>3, <1>6, AtRight
    <3>2. Len(made) \in Nat /\ Len(slots) \in Nat
      BY <1>3 DEF ViewersKept, ViewersTyped
    <3> QED
      BY <3>1, <3>2
  <2>3. PlacesTyped'
    BY <1>3, <2>1, <2>2 DEF ViewersKept, PlacesTyped
  <2>4. ViewersKept'
    BY <1>3, <2>1, <2>3, ViewersSame DEF ViewersKept, ViewersTyped
  <2>5. CASE to \in asking
    <3>1. NavKept(OrdersOf(requests))'
      BY <2>1, <2>5 DEF NavKept
    <3> QED
      BY <1>1, <1>2, <1>3, <2>1, <2>4, <2>5, <3>1 DEF ViewersIInv
  <2>6. CASE to \notin asking
    <3>1. PICK o : o = Views!Then("view", to, slots[at], 0)
      OBVIOUS
    <3>2. PICK r : r = Views!Request("header", to, o)
      OBVIOUS
    <3>3. o = [do |-> "view", msg |-> to, from |-> slots[at], view |-> 0]
      BY <3>1 DEF Views!Then
    <3>4. to \in 0..N /\ slots[at] \in Nat /\ slots[at] <= Len(made) /\ 0 <= Len(made)
      BY <1>1, <2>2, ViewsAssumption
    <3>5. /\ o \in Orders /\ o.do = "view" /\ o.msg = to /\ o.from = slots[at]
          /\ o.view = 0
      BY <3>3, <3>4 DEF Orders
    <3>6. r = [kind |-> "header", msg |-> to, then |-> o]
      BY <3>2 DEF Views!Request
    <3>7. r \in Requests /\ r.kind = "header" /\ r.msg = to /\ r.then = o
      BY <1>1, <3>5, <3>6 DEF Requests
    <3>8. PICK k : k = Len(made)
      OBVIOUS
    <3>9. RequestRight(r, k)
      BY <3>4, <3>5, <3>7, <3>8 DEF RequestRight
    <3>10. PICK q : q = requests
      OBVIOUS
    <3>11. requests' = Append(q, r)
      BY <2>1, <2>6, <3>1, <3>2, <3>10
    <3>12. RequestsRight(Append(q, r), k) /\ OrdersOf(Append(q, r)) = OrdersOf(q) \cup ToView(r)
      BY <1>3, <3>7, <3>8, <3>9, <3>10, RequestsAsked
    <3>13. BodiesKept(Append(q, r), pending, calls, view_stuck)
      BY <1>3, <3>7, <3>10, BodiesAsked
    <3>14. o \in OrdersOf(requests')
      BY <3>5, <3>7, <3>11, <3>12 DEF ToView
    <3>15. NavKept(OrdersOf(requests))'
      BY <1>1, <1>3, <1>6, <2>1, <2>6, <3>5, <3>14, NavOrdered
    <3> QED
      BY <1>1, <1>2, <1>3, <2>1, <2>4, <3>8, <3>11, <3>12, <3>13, <3>15 DEF ViewersIInv
  <2> QED
    BY <2>5, <2>6
<1> QED
  BY <1>4, <1>5, <1>6

(* :pipe and other commands that need the whole message (lib/messageview.go). *)
LEMMA StepFetchesFull == ASSUME ViewersIInv, Views!FetchesFull PROVE ViewersIInv'
<1>1. PICK q : q = requests
  OBVIOUS
<1>2. PICK v : v = slots[at]
  OBVIOUS
<1>3. PICK m : m = made[v].msg
  OBVIOUS
<1>4. PICK o : o = Views!Then("pipe", m, 0, v)
  OBVIOUS
<1>5. /\ at # 0 /\ Views!FetchFull(m, o, q)
      /\ UNCHANGED <<sel, loaded, made, slots, at, nav, view_stuck, orphans>>
  BY <1>1, <1>2, <1>3, <1>4 DEF Views!FetchesFull
<1>6. PICK k : k = Len(made)
  OBVIOUS
<1>7. /\ ViewersKept /\ BodiesKept(q, pending, calls, view_stuck)
      /\ RequestsRight(q, k) /\ sel \in 1..N /\ loaded \subseteq 1..N
  BY <1>1, <1>6 DEF ViewersIInv
<1>8. v \in 1..k /\ m \in 1..N
  BY <1>2, <1>3, <1>5, <1>6, <1>7, AtRight
<1>9. o = [do |-> "pipe", msg |-> m, from |-> 0, view |-> v]
  BY <1>4 DEF Views!Then
<1>10. k \in Nat /\ m \in 0..N /\ v \in Nat /\ v <= k /\ 0 <= k
  BY <1>6, <1>7, <1>8, ViewsAssumption DEF ViewersKept, ViewersTyped
<1>11. o \in Orders /\ o.do = "pipe" /\ o.from = 0 /\ o.view = v
  BY <1>9, <1>10 DEF Orders
<1>12. /\ BodiesKept(requests', pending', calls', view_stuck')
       /\ RequestsRight(requests', k)
       /\ OrdersOf(requests') =
            OrdersOf(q) \cup (IF m \in pending \/ o.do # "view" THEN {} ELSE {o})
  BY <1>5, <1>7, <1>8, <1>10, <1>11, FetchedRight
<1>13. OrdersOf(requests') = OrdersOf(requests)
  BY <1>1, <1>11, <1>12
<1>14. NavKept(OrdersOf(requests))'
  BY <1>5, <1>13, NavRests
<1>15. ViewersKept'
  BY <1>5, <1>7, ViewersSame DEF ViewersKept, ViewersTyped, PlacesTyped
<1> QED
  BY <1>5, <1>6, <1>7, <1>12, <1>14, <1>15 DEF ViewersIInv

(* :delete goes on to the next message before the worker has answered (commands/msg/delete.go). *)
LEMMA StepDelete == ASSUME ViewersIInv, Views!Delete PROVE ViewersIInv'
<1>1. PICK q : q = requests
  OBVIOUS
<1>2. PICK v : v = slots[at]
  OBVIOUS
<1>3. PICK m : m = made[v].msg
  OBVIOUS
<1>4. PICK next : /\ next \in loaded \cup {0}
                  /\ sel' = (IF next = 0 THEN sel ELSE next)
                  /\ nav' = (IF next = 0 THEN 0 ELSE at)
                  /\ requests' = Append(q, Views!Request("delete", m, Views!Then("view", next, v, 0)))
  BY <1>1, <1>2, <1>3 DEF Views!Delete
<1>5. /\ at # 0
      /\ UNCHANGED <<loaded, pending, calls, made, slots, at, view_stuck, orphans>>
  BY DEF Views!Delete
<1>6. PICK k : k = Len(made)
  OBVIOUS
<1>7. /\ ViewersKept /\ BodiesKept(q, pending, calls, view_stuck)
      /\ RequestsRight(q, k) /\ sel \in 1..N /\ loaded \subseteq 1..N
  BY <1>1, <1>6 DEF ViewersIInv
<1>8. at \in 1..Len(slots) /\ v \in 1..k /\ m \in 1..N
  BY <1>2, <1>3, <1>5, <1>6, <1>7, AtRight
<1>9. PICK o : o = Views!Then("view", next, v, 0)
  OBVIOUS
<1>10. o = [do |-> "view", msg |-> next, from |-> v, view |-> 0]
  BY <1>9 DEF Views!Then
<1>11. /\ k \in Nat /\ Len(slots) \in Nat
  BY <1>6, <1>7 DEF ViewersKept, ViewersTyped
<1>12. next \in 0..N /\ v \in Nat /\ v <= k /\ 0 <= k /\ (next # 0 => next \in 1..N)
  BY <1>4, <1>7, <1>8, <1>11, ViewsAssumption
<1>13. o \in Orders /\ o.do = "view" /\ o.msg = next /\ o.from = v /\ o.view = 0
  BY <1>10, <1>12 DEF Orders
<1>14. PICK r : r = Views!Request("delete", m, o)
  OBVIOUS
<1>15. r = [kind |-> "delete", msg |-> m, then |-> o]
  BY <1>14 DEF Views!Request
<1>16. r \in Requests /\ r.kind = "delete" /\ r.msg = m /\ r.then = o
  BY <1>8, <1>13, <1>15 DEF Requests
<1>17. RequestRight(r, k)
  BY <1>12, <1>13, <1>16 DEF RequestRight
<1>18. requests' = Append(q, r)
  BY <1>4, <1>9, <1>14
<1>19. RequestsRight(Append(q, r), k) /\ OrdersOf(Append(q, r)) = OrdersOf(q) \cup ToView(r)
  BY <1>7, <1>16, <1>17, RequestsAsked
<1>20. BodiesKept(Append(q, r), pending, calls, view_stuck)
  BY <1>7, <1>16, BodiesAsked
<1>21. o \in OrdersOf(requests')
  BY <1>13, <1>16, <1>18, <1>19 DEF ToView
<1>22. NavKept(OrdersOf(requests))'
  <2>1. CASE next = 0
    BY <1>4, <2>1 DEF NavKept
  <2>2. CASE next # 0
    BY <1>2, <1>4, <1>5, <1>7, <1>13, <1>21, <2>2, NavOrdered
  <2> QED
    BY <2>1, <2>2
<1>23. PlacesTyped'
  BY <1>4, <1>5, <1>7, <1>8, <1>11 DEF ViewersKept, PlacesTyped
<1>24. ViewersKept'
  BY <1>5, <1>7, <1>23, ViewersSame DEF ViewersKept, ViewersTyped
<1> QED
  BY <1>4, <1>5, <1>6, <1>7, <1>12, <1>18, <1>19, <1>20, <1>22, <1>24 DEF ViewersIInv

(* :close in a viewer (app/msgviewer.go). *)
LEMMA StepClose == ASSUME ViewersIInv, Views!Close PROVE ViewersIInv'
<1>1. PICK v : v = slots[at]
  OBVIOUS
<1>2. /\ at # 0 /\ Views!Removes(v) /\ nav' = 0
      /\ UNCHANGED <<sel, loaded, pending, calls, requests, view_stuck, orphans>>
  BY <1>1 DEF Views!Close
<1>3. /\ ViewersKept /\ BodiesKept(requests, pending, calls, view_stuck)
      /\ RequestsRight(requests, Len(made)) /\ sel \in 1..N /\ loaded \subseteq 1..N
  BY DEF ViewersIInv
<1>4. v \in 1..Len(made)
  BY <1>1, <1>2, <1>3, AtRight
<1>5. v \in 0..Len(made)
  BY <1>3, <1>4 DEF ViewersKept, ViewersTyped
<1>6. ViewersKept' /\ Len(made') = Len(made)
  BY <1>2, <1>3, <1>5, RemovesRight
<1>7. NavKept(OrdersOf(requests))'
  BY <1>2 DEF NavKept
<1> QED
  BY <1>2, <1>3, <1>6, <1>7 DEF ViewersIInv

(* Another tab is selected (app/aerc.go). *)
LEMMA StepSelectTab == ASSUME ViewersIInv, Views!SelectTab PROVE ViewersIInv'
<1>1. /\ at' \in {0} \cup {s \in DOMAIN slots : slots[s] # 0}
      /\ UNCHANGED <<sel, loaded, pending, calls, requests, made, slots, nav, view_stuck, orphans>>
  BY DEF Views!SelectTab
<1>2. /\ ViewersKept /\ BodiesKept(requests, pending, calls, view_stuck)
      /\ RequestsRight(requests, Len(made)) /\ sel \in 1..N /\ loaded \subseteq 1..N
  BY DEF ViewersIInv
<1>3. Len(slots) \in Nat /\ DOMAIN slots = 1..Len(slots)
  BY <1>2 DEF ViewersKept, ViewersTyped
<1>4. at' \in 0..Len(slots) /\ (at' # 0 => slots[at'] # 0)
  BY <1>1, <1>3
<1>5. PlacesTyped'
  BY <1>1, <1>2, <1>4 DEF ViewersKept, PlacesTyped
<1>6. ViewersKept'
  BY <1>1, <1>2, <1>5, ViewersSame DEF ViewersKept, ViewersTyped
<1>7. NavKept(OrdersOf(requests))'
  BY <1>1, NavRests
<1> QED
  BY <1>1, <1>2, <1>6, <1>7 DEF ViewersIInv

(* A part is drawn for the first time and fetched (PartViewer.Draw, app/msgviewer.go). *)
LEMMA StepDraw == ASSUME ViewersIInv, Views!Draw PROVE ViewersIInv'
<1>1. PICK q : q = requests
  OBVIOUS
<1>2. PICK v : v = slots[at]
  OBVIOUS
<1>3. PICK m : m = made[v].msg
  OBVIOUS
<1>4. PICK o : o = Views!Then("draw", m, 0, v)
  OBVIOUS
<1>5. PICK r : r = Views!Request("part", m, o)
  OBVIOUS
<1>6. PICK p : p = IF m \in Encrypted THEN "shown" ELSE "asked"
  OBVIOUS
<1>7. /\ at # 0 /\ made' = [made EXCEPT ![v].part = p]
      /\ requests' = (IF m \in Encrypted THEN q ELSE Append(q, r))
      /\ UNCHANGED <<sel, loaded, pending, calls, slots, at, nav, view_stuck, orphans>>
  BY <1>1, <1>2, <1>3, <1>4, <1>5, <1>6 DEF Views!Draw
<1>8. PICK k : k = Len(made)
  OBVIOUS
<1>9. /\ ViewersKept /\ BodiesKept(q, pending, calls, view_stuck)
      /\ RequestsRight(q, k) /\ sel \in 1..N /\ loaded \subseteq 1..N /\ made \in Seq(Viewers)
  BY <1>1, <1>8 DEF ViewersIInv, ViewersKept, ViewersTyped
<1>10. v \in 1..k /\ m \in 1..N
  BY <1>2, <1>3, <1>7, <1>8, <1>9, AtRight
<1>11. o = [do |-> "draw", msg |-> m, from |-> 0, view |-> v]
  BY <1>4 DEF Views!Then
<1>12. k \in Nat /\ m \in 0..N /\ v \in Nat /\ v <= k /\ 0 <= k /\ v # 0
  BY <1>8, <1>9, <1>10, ViewsAssumption
<1>13. o \in Orders /\ o.do = "draw" /\ o.from = 0 /\ o.view = v
  BY <1>11, <1>12 DEF Orders
<1>14. r = [kind |-> "part", msg |-> m, then |-> o]
  BY <1>5 DEF Views!Request
<1>15. r \in Requests /\ r.kind = "part" /\ r.then = o
  BY <1>10, <1>13, <1>14 DEF Requests
<1>16. RequestRight(r, k)
  BY <1>12, <1>13, <1>15 DEF RequestRight
<1>17. RequestsRight(Append(q, r), k) /\ OrdersOf(Append(q, r)) = OrdersOf(q) \cup ToView(r)
  BY <1>9, <1>15, <1>16, RequestsAsked
<1>18. BodiesKept(Append(q, r), pending, calls, view_stuck)
  BY <1>9, <1>15, BodiesAsked
<1>19. /\ RequestsRight(requests', k) /\ BodiesKept(requests', pending, calls, view_stuck)
       /\ OrdersOf(requests') = OrdersOf(requests)
  BY <1>1, <1>7, <1>9, <1>13, <1>15, <1>17, <1>18 DEF ToView
<1>20. /\ made' \in Seq(Viewers) /\ Len(made') = k
       /\ \A u \in 1..k : made'[u].msg = made[u].msg /\ made'[u].closed = made[u].closed
  <2>1. PICK vs \in Seq(Viewers) : vs = made
    BY <1>9
  <2>2. PICK c : c = PartOf(vs, v, p)
    OBVIOUS
  <2>3. v \in 1..Len(vs) /\ p \in {"no", "asked", "shown"}
    BY <1>6, <1>8, <1>10, <2>1
  <2>4. /\ c \in Seq(Viewers) /\ Len(c) = Len(vs)
        /\ \A u \in 1..Len(vs) : c[u].msg = vs[u].msg /\ c[u].closed = vs[u].closed
    BY <2>2, <2>3, PartRight
  <2>5. made' = c
    BY <1>7, <2>1, <2>2 DEF PartOf
  <2> QED
    BY <1>8, <2>1, <2>4, <2>5
<1>21. ViewersKept'
  BY <1>7, <1>8, <1>9, <1>20, ViewersSame DEF ViewersKept, PlacesTyped
<1>22. NavKept(OrdersOf(requests))'
  BY <1>7, <1>8, <1>19, <1>20, NavRests
<1> QED
  BY <1>7, <1>8, <1>9, <1>19, <1>20, <1>21, <1>22 DEF ViewersIInv

(* The answers. *)

LEMMA StepFullAnswered == ASSUME ViewersIInv, Views!FullAnswered PROVE ViewersIInv'
<1>1. PICK j : j = Views!Job
  OBVIOUS
<1>2. PICK q : q = Views!Rest
  OBVIOUS
<1>3. PICK opens : opens = Views!ToShow(calls[j.msg])
  OBVIOUS
<1>4. /\ Views!Answers("full") /\ requests' = q
      /\ pending' = pending \ {j.msg} /\ calls' = [calls EXCEPT ![j.msg] = <<>>]
      /\ \/ opens # <<>> /\ Views!Shows(j.msg, Head(opens).from, nav)
         \/ opens # <<>> /\ nav' = 0 /\ UNCHANGED <<made, slots, at, orphans>>
         \/ opens = <<>> /\ UNCHANGED <<made, slots, at, nav, orphans>>
      /\ UNCHANGED <<sel, loaded, view_stuck>>
  BY <1>1, <1>2, <1>3 DEF Views!FullAnswered
<1>5. PICK k : k = Len(made)
  OBVIOUS
<1>6. /\ ViewersKept /\ sel \in 1..N /\ loaded \subseteq 1..N
      /\ k \in Nat /\ nav \in 0..Len(slots) /\ Len(slots) \in Nat
  BY <1>5 DEF ViewersIInv, ViewersKept, ViewersTyped, PlacesTyped
<1>7. /\ j \in Requests /\ RequestRight(j, k) /\ j.kind = "full"
      /\ RequestsRight(q, k) /\ OrdersOf(requests) = ToView(j) \cup OrdersOf(q)
      /\ BodiesKept(q, pending \ {j.msg}, [calls EXCEPT ![j.msg] = <<>>], view_stuck)
      /\ calls[j.msg] = <<j.then>>
  BY <1>1, <1>2, <1>4, <1>5, JobRight
<1>8. BodiesKept(requests', pending', calls', view_stuck')
  BY <1>4, <1>7
<1>9. IF j.then.do = "view" THEN opens # <<>> /\ Head(opens) = j.then ELSE opens = <<>>
  BY <1>3, <1>7, ToShowOne
<1>10. j.msg \in 1..N /\ j.then \in Orders
  BY <1>7 DEF Requests
<1>11. CASE opens # <<>> /\ Views!Shows(j.msg, Head(opens).from, nav)
  <2>1. PICK m \in 1..N : m = j.msg
    BY <1>10
  <2>2. PICK from : from = j.then.from
    OBVIOUS
  <2>3. PICK n : n = nav
    OBVIOUS
  <2>4. j.then.do = "view" /\ Head(opens).from = from /\ j.then.msg = m
    BY <1>7, <1>9, <1>11, <2>1, <2>2 DEF RequestRight
  <2>5. from \in Nat /\ from <= k
    BY <1>7, <1>10, <2>2 DEF Orders, RequestRight
  <2>6. from \in 0..Len(made) /\ n \in 0..Len(slots)
    BY <1>5, <1>6, <2>3, <2>5
  <2>7. Views!Shows(m, from, n)
    BY <1>11, <2>1, <2>3, <2>4
  <2>8. /\ ViewersKept' /\ ViewerAdded(m, from)
        /\ nav' = IF from = 0 THEN IF m = sel THEN Len(slots) + 1 ELSE 0 ELSE n
    BY <1>6, <2>6, <2>7, ShowsRight
  <2>9. Viewing(m, from, nav, OrdersOf(Views!Rest))
    BY <1>2, <1>4, <2>3, <2>8 DEF Viewing
  <2>10. NavKept(OrdersOf(requests))'
    BY <1>1, <1>4, <2>1, <2>2, <2>4, <2>6, <2>8, <2>9, NavAnswered
  <2>11. PICK l \in Nat : l = Len(made')
    BY <2>8 DEF ViewersKept, ViewersTyped
  <2>12. k <= l
    BY <1>5, <1>6, <2>8, <2>11 DEF ViewerAdded
  <2>13. RequestsRight(q, l)
    BY <1>6, <1>7, <2>12, RequestsLater
  <2> QED
    BY <1>4, <1>6, <1>8, <2>8, <2>10, <2>11, <2>13 DEF ViewersIInv
<1>12. CASE opens # <<>> /\ nav' = 0 /\ UNCHANGED <<made, slots, at, orphans>>
  <2>1. NavKept(OrdersOf(requests))'
    BY <1>12 DEF NavKept
  <2>2. PlacesTyped'
    BY <1>6, <1>12 DEF ViewersKept, PlacesTyped
  <2>3. ViewersKept'
    BY <1>6, <1>12, <2>2, ViewersSame DEF ViewersKept, ViewersTyped
  <2> QED
    BY <1>4, <1>5, <1>6, <1>7, <1>8, <1>12, <2>1, <2>3 DEF ViewersIInv
<1>13. CASE opens = <<>> /\ UNCHANGED <<made, slots, at, nav, orphans>>
  <2>1. OrdersOf(requests') = OrdersOf(requests)
    BY <1>4, <1>7, <1>9, <1>13 DEF ToView
  <2>2. NavKept(OrdersOf(requests))'
    BY <1>4, <1>13, <2>1, NavRests
  <2>3. ViewersKept'
    BY <1>6, <1>13, ViewersSame DEF ViewersKept, ViewersTyped, PlacesTyped
  <2> QED
    BY <1>4, <1>5, <1>6, <1>7, <1>8, <1>13, <2>2, <2>3 DEF ViewersIInv
<1> QED
  BY <1>4, <1>11, <1>12, <1>13

(* The first request is gone and no viewer has changed. *)
LEMMA JobDone ==
  ASSUME ViewersIInv, NEW sort, Views!Answers(sort), requests' = Views!Rest,
         BodiesKept(requests', pending', calls', view_stuck'),
         nav' = 0 \/ (nav' = nav /\ Views!Job.then.do # "view"),
         sel' = sel, loaded' \subseteq 1..N, made' = made, slots' = slots, at' = at,
         orphans' = orphans
  PROVE  ViewersIInv'
<1>1. /\ RequestsRight(Views!Rest, Len(made))
      /\ OrdersOf(requests) = ToView(Views!Job) \cup OrdersOf(Views!Rest)
  BY JobRight
<1>2. Views!Job.then.do # "view" => OrdersOf(requests') = OrdersOf(requests)
  BY <1>1 DEF ToView
<1>3. NavKept(OrdersOf(requests))'
  BY <1>2, NavRests
<1>4. PlacesTyped'
  <2>1. nav' \in 0..Len(slots)
    BY DEF ViewersIInv, ViewersKept, ViewersTyped, PlacesTyped
  <2> QED
    BY <2>1 DEF ViewersIInv, ViewersKept, PlacesTyped
<1>5. ViewersKept'
  BY <1>4, ViewersSame DEF ViewersIInv, ViewersKept, ViewersTyped
<1> QED
  BY <1>1, <1>3, <1>5 DEF ViewersIInv

(* A fetch of bodies was cancelled: nobody is told. *)
LEMMA StepFullCancelled == ASSUME ViewersIInv, Views!FullCancelled PROVE ViewersIInv'
<1>1. /\ Views!Answers("full") /\ Views!Job.then.view # 0 /\ requests' = Views!Rest
      /\ view_stuck' = view_stuck \cup {Views!Job.msg}
      /\ UNCHANGED <<sel, loaded, pending, calls, made, slots, at, nav, orphans>>
  BY DEF Views!FullCancelled
<1>2. /\ RequestRight(Views!Job, Len(made))
      /\ BodiesKept(Views!Rest, pending, calls, view_stuck \cup {Views!Job.msg})
  BY <1>1, JobRight
<1>3. Views!Job.then.do # "view"
  BY <1>1, <1>2 DEF RequestRight
<1>4. BodiesKept(requests', pending', calls', view_stuck')
  BY <1>1, <1>2
<1>5. loaded' \subseteq 1..N
  BY <1>1 DEF ViewersIInv
<1> QED
  BY <1>1, <1>3, <1>4, <1>5, JobDone

(* A body could not be fetched. *)
LEMMA StepFullFails == ASSUME ViewersIInv, Views!FullFails PROVE ViewersIInv'
<1>1. /\ Views!Answers("full") /\ requests' = Views!Rest /\ nav' = 0
      /\ pending' = pending \ {Views!Job.msg}
      /\ calls' = [calls EXCEPT ![Views!Job.msg] = <<>>]
      /\ UNCHANGED <<sel, loaded, made, slots, at, view_stuck, orphans>>
  BY DEF Views!FullFails
<1>2. BodiesKept(Views!Rest, pending \ {Views!Job.msg},
                 [calls EXCEPT ![Views!Job.msg] = <<>>], view_stuck)
  BY <1>1, JobRight
<1>3. BodiesKept(requests', pending', calls', view_stuck')
  BY <1>1, <1>2
<1>4. loaded' \subseteq 1..N
  BY <1>1 DEF ViewersIInv
<1> QED
  BY <1>1, <1>3, <1>4, JobDone

(* The callbacks that go on to view a message. *)
LEMMA JobViews ==
  ASSUME ViewersIInv, NEW sort, sort # "full", Views!Answers(sort),
         Views!Job.then.do = "view", NEW m \in 1..N, Views!Job.then.msg = m,
         Views!NewMessageStoreView(m, Views!Job.then.from, nav, Views!Rest),
         sel' = sel, loaded' \subseteq 1..N, view_stuck' = view_stuck
  PROVE  ViewersIInv'
<1>1. PICK from : from = Views!Job.then.from
  OBVIOUS
<1>2. PICK n : n = nav
  OBVIOUS
<1>3. PICK q : q = Views!Rest
  OBVIOUS
<1>4. PICK k : k = Len(made)
  OBVIOUS
<1>5. /\ Views!Job \in Requests /\ RequestRight(Views!Job, k)
      /\ RequestsRight(q, k) /\ BodiesKept(q, pending, calls, view_stuck)
  BY <1>3, <1>4, JobRight
<1>6. from \in Nat /\ from <= k
  BY <1>1, <1>5 DEF Requests, Orders, RequestRight
<1>7. /\ ViewersKept /\ sel \in 1..N
      /\ k \in Nat /\ nav \in 0..Len(slots) /\ Len(slots) \in Nat
  BY <1>4 DEF ViewersIInv, ViewersKept, ViewersTyped, PlacesTyped
<1>8. from \in 0..Len(made) /\ n \in 0..Len(slots)
  BY <1>2, <1>4, <1>6, <1>7
<1>9. Views!NewMessageStoreView(m, from, n, q)
  BY <1>1, <1>2, <1>3
<1>10. /\ ViewersKept' /\ BodiesKept(requests', pending', calls', view_stuck')
       /\ RequestsRight(requests', Len(made')) /\ Viewing(m, from, n, OrdersOf(q))
  BY <1>4, <1>5, <1>7, <1>8, <1>9, ViewRight
<1>11. Viewing(m, from, nav, OrdersOf(Views!Rest))
  BY <1>2, <1>3, <1>10
<1>12. NavKept(OrdersOf(requests))'
  BY <1>1, <1>8, <1>10, <1>11, NavAnswered
<1> QED
  BY <1>7, <1>10, <1>12 DEF ViewersIInv

(* A header has come, and the body is asked for if a viewer waits for it. *)
LEMMA StepHeaderAnswered == ASSUME ViewersIInv, Views!HeaderAnswered PROVE ViewersIInv'
<1>1. /\ Views!Answers("header")
      /\ loaded' = loaded \cup {Views!Job.msg}
      /\ IF Views!Job.then.do = "view"
         THEN Views!NewMessageStoreView(Views!Job.msg, Views!Job.then.from, nav, Views!Rest)
         ELSE requests' = Views!Rest /\ UNCHANGED <<pending, calls, made, slots, at, nav, orphans>>
      /\ UNCHANGED <<sel, view_stuck>>
  BY DEF Views!HeaderAnswered
<1>2. "header" # "full"
  OBVIOUS
<1>3. /\ Views!Job \in Requests /\ RequestRight(Views!Job, Len(made))
      /\ Views!Job.kind = "header"
      /\ BodiesKept(Views!Rest, pending, calls, view_stuck)
  BY <1>1, <1>2, JobRight
<1>4. PICK m \in 1..N : m = Views!Job.msg
  BY <1>3 DEF Requests
<1>5. loaded' \subseteq 1..N
  BY <1>1, <1>4 DEF ViewersIInv
<1>6. CASE Views!Job.then.do = "view"
  <2>1. Views!Job.then.msg = m
    BY <1>3, <1>4, <1>6 DEF RequestRight
  <2>2. Views!NewMessageStoreView(m, Views!Job.then.from, nav, Views!Rest)
    BY <1>1, <1>4, <1>6
  <2> QED
    BY <1>1, <1>2, <1>5, <1>6, <2>1, <2>2, JobViews
<1>7. CASE Views!Job.then.do # "view"
  <2>1. requests' = Views!Rest /\ UNCHANGED <<pending, calls, made, slots, at, nav, orphans>>
    BY <1>1, <1>7
  <2>2. BodiesKept(requests', pending', calls', view_stuck')
    BY <1>1, <1>3, <2>1
  <2> QED
    BY <1>1, <1>5, <1>7, <2>1, <2>2, JobDone
<1> QED
  BY <1>6, <1>7

(* A header could not be fetched. *)
LEMMA StepHeaderFails == ASSUME ViewersIInv, Views!HeaderFails PROVE ViewersIInv'
<1>1. /\ Views!Answers("header") /\ requests' = Views!Rest /\ nav' = 0
      /\ UNCHANGED <<sel, loaded, pending, calls, made, slots, at, view_stuck, orphans>>
  BY DEF Views!HeaderFails
<1>2. "header" # "full"
  OBVIOUS
<1>3. BodiesKept(Views!Rest, pending, calls, view_stuck)
  BY <1>1, <1>2, JobRight
<1>4. BodiesKept(requests', pending', calls', view_stuck')
  BY <1>1, <1>3
<1>5. loaded' \subseteq 1..N
  BY <1>1 DEF ViewersIInv
<1> QED
  BY <1>1, <1>4, <1>5, JobDone

(* A part has come. *)
LEMMA StepPartAnswered == ASSUME ViewersIInv, Views!PartAnswered PROVE ViewersIInv'
<1>1. PICK v : v = Views!Job.then.view
  OBVIOUS
<1>2. PICK p : p = "shown"
  OBVIOUS
<1>3. /\ Views!Answers("part") /\ requests' = Views!Rest
      /\ made' = [made EXCEPT ![v].part = p]
      /\ UNCHANGED <<sel, loaded, pending, calls, slots, at, nav, view_stuck, orphans>>
  BY <1>1, <1>2 DEF Views!PartAnswered
<1>4. PICK k : k = Len(made)
  OBVIOUS
<1>5. "part" # "full"
  OBVIOUS
<1>6. /\ Views!Job \in Requests /\ RequestRight(Views!Job, k) /\ Views!Job.kind = "part"
      /\ RequestsRight(Views!Rest, k) /\ BodiesKept(Views!Rest, pending, calls, view_stuck)
      /\ OrdersOf(requests) = ToView(Views!Job) \cup OrdersOf(Views!Rest)
  BY <1>3, <1>4, <1>5, JobRight
<1>7. Views!Job.then.do = "draw" /\ v # 0 /\ v <= k /\ v \in Nat
  BY <1>1, <1>6 DEF RequestRight, Requests, Orders
<1>8. OrdersOf(requests') = OrdersOf(requests)
  BY <1>3, <1>6, <1>7 DEF ToView
<1>9. /\ ViewersKept /\ sel \in 1..N /\ loaded \subseteq 1..N /\ made \in Seq(Viewers)
      /\ k \in Nat
  BY <1>4 DEF ViewersIInv, ViewersKept, ViewersTyped
<1>10. v \in 1..k
  BY <1>7, <1>9
<1>11. /\ made' \in Seq(Viewers) /\ Len(made') = k
       /\ \A u \in 1..k : made'[u].msg = made[u].msg /\ made'[u].closed = made[u].closed
  <2>1. PICK vs \in Seq(Viewers) : vs = made
    BY <1>9
  <2>2. PICK c : c = PartOf(vs, v, p)
    OBVIOUS
  <2>3. v \in 1..Len(vs) /\ p \in {"no", "asked", "shown"}
    BY <1>2, <1>4, <1>10, <2>1
  <2>4. /\ c \in Seq(Viewers) /\ Len(c) = Len(vs)
        /\ \A u \in 1..Len(vs) : c[u].msg = vs[u].msg /\ c[u].closed = vs[u].closed
    BY <2>2, <2>3, PartRight
  <2>5. made' = c
    BY <1>3, <2>1, <2>2 DEF PartOf
  <2> QED
    BY <1>4, <2>1, <2>4, <2>5
<1>12. ViewersKept'
  BY <1>3, <1>4, <1>9, <1>11, ViewersSame DEF ViewersKept, PlacesTyped
<1>13. NavKept(OrdersOf(requests))'
  BY <1>3, <1>4, <1>8, <1>11, NavRests
<1> QED
  BY <1>3, <1>4, <1>6, <1>9, <1>11, <1>12, <1>13 DEF ViewersIInv

(* A message is deleted: its viewer is replaced by the next one, or closed with its tab. *)
LEMMA StepDeleteDone == ASSUME ViewersIInv, Views!DeleteDone PROVE ViewersIInv'
<1>1. /\ Views!Answers("delete")
      /\ IF Views!Job.then.msg = 0
         THEN /\ Views!Removes(Views!Job.then.from) /\ requests' = Views!Rest /\ nav' = 0
              /\ UNCHANGED <<pending, calls, orphans>>
         ELSE Views!NewMessageStoreView(Views!Job.then.msg, Views!Job.then.from, nav, Views!Rest)
      /\ UNCHANGED <<sel, loaded, view_stuck>>
  BY DEF Views!DeleteDone
<1>2. "delete" # "full"
  OBVIOUS
<1>3. PICK k : k = Len(made)
  OBVIOUS
<1>4. /\ Views!Job \in Requests /\ RequestRight(Views!Job, k) /\ Views!Job.kind = "delete"
      /\ RequestsRight(Views!Rest, k) /\ BodiesKept(Views!Rest, pending, calls, view_stuck)
  BY <1>1, <1>2, <1>3, JobRight
<1>5. /\ ViewersKept /\ sel \in 1..N /\ loaded \subseteq 1..N /\ k \in Nat
  BY <1>3 DEF ViewersIInv, ViewersKept, ViewersTyped
<1>6. CASE Views!Job.then.msg = 0
  <2>1. PICK v : v = Views!Job.then.from
    OBVIOUS
  <2>2. v \in Nat /\ v <= k
    BY <1>4, <2>1 DEF Requests, Orders, RequestRight
  <2>3. v \in 0..Len(made)
    BY <1>3, <1>5, <2>2
  <2>4. /\ Views!Removes(v) /\ requests' = Views!Rest /\ nav' = 0
        /\ UNCHANGED <<pending, calls, orphans>>
    BY <1>1, <1>6, <2>1
  <2>5. ViewersKept' /\ Len(made') = k
    BY <1>3, <1>5, <2>3, <2>4, RemovesRight
  <2>6. NavKept(OrdersOf(requests))'
    BY <2>4 DEF NavKept
  <2> QED
    BY <1>1, <1>4, <1>5, <2>4, <2>5, <2>6 DEF ViewersIInv
<1>7. CASE Views!Job.then.msg # 0
  <2>1. Views!Job.then.do = "view"
    BY <1>4 DEF RequestRight
  <2>2. Views!Job.then.msg \in 0..N
    BY <1>4 DEF Requests, Orders
  <2>3. PICK m \in 1..N : m = Views!Job.then.msg
    BY <1>7, <2>2, ViewsAssumption
  <2>4. Views!NewMessageStoreView(m, Views!Job.then.from, nav, Views!Rest)
    BY <1>1, <1>7, <2>3
  <2>5. loaded' \subseteq 1..N
    BY <1>1, <1>5
  <2> QED
    BY <1>1, <1>2, <2>1, <2>3, <2>4, <2>5, JobViews
<1> QED
  BY <1>6, <1>7

(* At the start no viewer is open, and some headers are on their way. *)
LEMMA ViewersInit == ASSUME Views!Init PROVE ViewersIInv
<1>1. /\ sel = 1 /\ loaded = (1..N) \ Unloaded /\ asking \in SUBSET Unloaded
      /\ pending = {} /\ calls = [m \in 1..N |-> <<>>] /\ made = <<>> /\ slots = <<>>
      /\ at = 0 /\ nav = 0 /\ orphans = {}
  BY DEF Views!Init, Views!Messages
<1>2. \A S : Views!Cardinality(S) = Cardinality(S)
  BY DEF Views!Cardinality, Cardinality
<1>3. \A S, n : Views!Nth(S, n) = Nth(S, n)
  BY <1>2 DEF Views!Nth, Nth
<1>4. PICK c : c = Cardinality(asking)
  OBVIOUS
<1>5. requests = [n \in 1..c |-> Views!Request("header", Nth(asking, n),
                                               Views!Then("none", Nth(asking, n), 0, 0))]
  BY <1>2, <1>3, <1>4 DEF Views!Init
<1>6. asking \subseteq 1..N /\ N \in Nat /\ 1 \in 1..N
  BY <1>1, ViewsAssumption
<1>7. asking \subseteq Nat /\ IsFiniteSet(asking)
  <2>1. asking \subseteq Nat
    BY <1>6
  <2>2. 1 \in Int /\ N \in Int
    BY <1>6
  <2>3. IsFiniteSet(1..N)
    BY <2>2, FS_Interval, Zenon
  <2>4. asking \in SUBSET (1..N)
    BY <1>6
  <2>5. IsFiniteSet(asking)
    BY <2>3, <2>4, FS_Subset, Zenon
  <2> QED
    BY <2>1, <2>5
<1>8. c \in Nat /\ \A n \in 1..c : Nth(asking, n) \in asking
  BY <1>4, <1>7, NthRight
<1>9. ASSUME NEW n \in 1..c
      PROVE  requests[n] \in Requests /\ RequestRight(requests[n], 0)
             /\ requests[n].kind = "header" /\ requests[n].then.do = "none"
  <2>1. PICK m \in 1..N : m = Nth(asking, n)
    BY <1>6, <1>8
  <2>2. PICK o : o = Views!Then("none", m, 0, 0)
    OBVIOUS
  <2>3. o = [do |-> "none", msg |-> m, from |-> 0, view |-> 0]
    BY <2>2 DEF Views!Then
  <2>4. m \in 0..N
    BY <1>6
  <2>5. o \in Orders /\ o.do = "none" /\ o.from = 0 /\ o.view = 0
    BY <2>3, <2>4 DEF Orders
  <2>6. requests[n] = [kind |-> "header", msg |-> m, then |-> o]
    BY <1>5, <2>1, <2>2 DEF Views!Request
  <2>7. PICK r : r = requests[n]
    OBVIOUS
  <2>8. r \in Requests /\ r.kind = "header" /\ r.then = o
    BY <2>5, <2>6, <2>7 DEF Requests
  <2>9. RequestRight(r, 0)
    BY <2>5, <2>8 DEF RequestRight
  <2> QED
    BY <2>5, <2>7, <2>8, <2>9
<1>10. requests \in Seq(Requests) /\ Len(requests) = c
  <2>1. requests = [n \in 1..c |-> requests[n]]
    BY <1>5
  <2>2. requests \in [1..c -> Requests]
    BY <1>9, <2>1
  <2> QED
    BY <1>8, <2>2
<1>11. BodiesKept(requests, pending, calls, view_stuck)
  <2>1. FullOnce(requests)
    <3> SUFFICES ASSUME NEW i \in 1..Len(requests), requests[i].kind = "full" PROVE FALSE
      BY DEF FullOnce
    <3> QED
      BY <1>9, <1>10
  <2>2. \A i \in 1..Len(requests) : requests[i].kind # "full"
    BY <1>9, <1>10
  <2>3. calls = [m \in 1..N |-> calls[m]] /\ \A m \in 1..N : calls[m] = <<>>
    BY <1>1
  <2> QED
    BY <1>1, <1>10, <2>1, <2>2, <2>3 DEF BodiesKept
<1>12. Len(made) = 0 /\ Len(slots) = 0 /\ made \in Seq(Viewers) /\ slots \in Seq(Nat)
  BY <1>1
<1>13. RequestsRight(requests, Len(made))
  BY <1>9, <1>10, <1>12 DEF RequestsRight
<1>14. ViewersKept
  <2>1. ViewersTyped
    BY <1>1, <1>12 DEF ViewersTyped
  <2>2. PlacesTyped
    BY <1>1, <1>12 DEF PlacesTyped
  <2>3. DOMAIN made = {}
    BY <1>1
  <2>4. Views!ViewersClosed
    BY <2>3 DEF Views!ViewersClosed
  <2> QED
    BY <2>1, <2>2, <2>4 DEF ViewersKept
<1>15. NavKept(OrdersOf(requests))
  BY <1>1 DEF NavKept
<1> QED
  BY <1>1, <1>6, <1>11, <1>13, <1>14, <1>15 DEF ViewersIInv

(* Every step keeps the invariant. *)
LEMMA ViewersStep ==
  ASSUME ViewersIInv, [Views!Next]_viewVars
  PROVE  ViewersIInv'
<1>1. CASE UNCHANGED viewVars
  <2>1. UNCHANGED <<sel, loaded, pending, calls, requests, made, slots, at, nav, view_stuck, orphans>>
    BY <1>1 DEF viewVars
  <2>2. ViewersKept'
    BY <2>1, ViewersSame DEF ViewersIInv, ViewersKept, ViewersTyped, PlacesTyped
  <2>3. NavKept(OrdersOf(requests))'
    BY <2>1, NavRests
  <2> QED
    BY <2>1, <2>2, <2>3 DEF ViewersIInv
<1> QED
  BY <1>1, StepViewMessage, StepNextPrevMsg, StepFetchesFull, StepDelete, StepClose,
     StepSelectTab, StepDraw, StepFullAnswered, StepFullCancelled, StepFullFails,
     StepHeaderAnswered, StepHeaderFails, StepPartAnswered, StepDeleteDone DEF Views!Next

(* The invariant implies what the runs check. *)
LEMMA ViewersImplied == ASSUME ViewersIInv PROVE ViewersRight
<1>1. Views!BodiesComing
  <2>1. PICK k : k = Len(requests)
    OBVIOUS
  <2>2. DOMAIN requests = 1..Len(requests)
    BY DEF ViewersIInv, RequestsRight
  <2>3. /\ \A m \in 1..N : calls[m] # <<>> => m \in pending
        /\ \A m \in pending \ view_stuck :
             \E i \in 1..Len(requests) : requests[i].kind = "full" /\ requests[i].msg = m
    BY DEF ViewersIInv, BodiesKept
  <2> QED
    BY <2>2, <2>3 DEF Views!BodiesComing, Views!Messages
<1>2. Views!ViewersClosed
  BY DEF ViewersIInv, ViewersKept
<1>3. Views!ViewerFollows
  <2> SUFFICES ASSUME requests = <<>>, nav # 0
               PROVE  slots[nav] = 0 \/ made[slots[nav]].msg = sel
                      \/ \E v \in orphans : made[v].msg = sel
    BY DEF Views!ViewerFollows
  <2>1. OrdersOf(requests) = {}
    BY DEF OrdersOf
  <2>2. PICK O : O = OrdersOf(requests)
    OBVIOUS
  <2>3. NavKept(O) /\ O = {}
    BY <2>1, <2>2 DEF ViewersIInv
  <2> QED
    BY <2>3 DEF NavKept, Settled, Orphaned
<1> QED
  BY <1>1, <1>2, <1>3 DEF ViewersRight

-----------------------------------------------------------------------------
(* A composed message. *)

OneIf(b) == IF b THEN 1 ELSE 0

SendingTyped ==
  /\ tab \in Nat /\ noquit \in Int /\ live \in BOOLEAN /\ other \in BOOLEAN /\ overlap \in BOOLEAN
  /\ send_pc \in {"none", "write", "copy", "end"}
  /\ postpone_pc \in {"none", "create", "save", "append", "refused"}
  /\ flag \in {"none", "sent", "postponed"}
  /\ server \in [delivered : BOOLEAN, copied : SUBSET (CopyTo \cup {Parent}), draft : BOOLEAN,
                 recalled : BOOLEAN, marked : BOOLEAN]
  /\ "draft" \in appends <=> postpone_pc = "append"

(* With its file the message is in a tab or on its way; without it the flag says why. *)
MessageKept ==
  /\ live => \/ tab > 0 \/ send_pc # "none" \/ postpone_pc \in {"save", "append", "refused"}
             \/ server.delivered \/ server.draft
  /\ send_pc \in {"copy", "end"} \/ flag = "sent" \/ server.marked => server.delivered
  /\ flag = "postponed" => server.draft
  /\ kind = "recall" /\ ~server.recalled => server.delivered \/ server.draft

(* What counts for mode.noquit, until a command overtakes a postponement. *)
Composers ==
  tab + OneIf(send_pc # "none") + OneIf(postpone_pc \in {"append", "refused"})
NoQuitCounts ==
  /\ noquit = OneIf(other) + Composers + OneIf(send_pc # "none")
  /\ Composers <= 1
  /\ postpone_pc \in {"create", "save"} => tab = 1
  /\ tab > 0 \/ send_pc # "none" \/ postpone_pc = "append" => live

SendingIInv == SendingTyped /\ MessageKept /\ (~overlap => NoQuitCounts)

(* A new composer has one tab and one count. *)
LEMMA SendingInit == ASSUME Sending!Init PROVE SendingIInv
<1>1. /\ tab = 1 /\ live = TRUE /\ other = FALSE /\ noquit = 1 /\ send_pc = "none"
      /\ postpone_pc = "none" /\ appends = {} /\ flag = "none" /\ overlap = FALSE
      /\ server = [delivered |-> FALSE, copied |-> {}, draft |-> FALSE,
                   recalled |-> kind = "recall", marked |-> FALSE]
  BY DEF Sending!Init
<1>2. PICK b \in BOOLEAN : b = (kind = "recall")
  OBVIOUS
<1>3. server = [delivered |-> FALSE, copied |-> {}, draft |-> FALSE, recalled |-> b,
                marked |-> FALSE]
  BY <1>1, <1>2, Zenon
<1>a. server \in [delivered : BOOLEAN, copied : SUBSET (CopyTo \cup {Parent}),
                  draft : BOOLEAN, recalled : BOOLEAN, marked : BOOLEAN]
  BY <1>3
<1>b. server.delivered = FALSE /\ server.draft = FALSE /\ server.marked = FALSE
  BY <1>3
<1>c. server.recalled = b
  BY <1>3
<1>4. SendingTyped
  <2>1. tab \in Nat /\ noquit \in Int
    BY <1>1
  <2> QED
    BY <1>1, <1>a, <2>1, Zenon DEF SendingTyped
<1>5. MessageKept
  <2>1. tab > 0
    BY <1>1
  <2>2. ~(kind = "recall" /\ ~server.recalled)
    BY <1>2, <1>c, Zenon
  <2> QED
    BY <1>1, <1>b, <2>1, <2>2 DEF MessageKept
<1>6. NoQuitCounts
  BY <1>1 DEF NoQuitCounts, Composers, OneIf
<1> QED
  BY <1>4, <1>5, <1>6 DEF SendingIInv

(* The OnClose callbacks keep what the flag says (Composer.Close). *)
LEMMA CloseRight ==
  ASSUME NEW f \in {"none", "sent", "postponed"},
         NEW s \in [delivered : BOOLEAN, copied : SUBSET (CopyTo \cup {Parent}),
                    draft : BOOLEAN, recalled : BOOLEAN, marked : BOOLEAN],
         Sending!Close(f, s),
         f = "sent" \/ s.marked => s.delivered, f = "postponed" => s.draft,
         kind = "recall" /\ ~s.recalled => s.delivered \/ s.draft
  PROVE  /\ live' = FALSE /\ flag' = f
         /\ server' \in [delivered : BOOLEAN, copied : SUBSET (CopyTo \cup {Parent}),
                         draft : BOOLEAN, recalled : BOOLEAN, marked : BOOLEAN]
         /\ server'.delivered = s.delivered /\ server'.draft = s.draft
         /\ server'.marked => s.delivered
         /\ kind = "recall" /\ ~server'.recalled => s.delivered \/ s.draft
<1>1. PICK m \in BOOLEAN : m = (s.marked \/ (f = "sent" /\ kind \in {"reply", "forward"}))
  OBVIOUS
<1>2. PICK r \in BOOLEAN : r = (s.recalled /\ f = "none")
  OBVIOUS
<1>3. Sending!AfterReply(f, s) = m /\ Sending!AfterRecall(f, s) = r
  BY <1>1, <1>2 DEF Sending!AfterReply, Sending!AfterRecall
<1>4. live' = FALSE /\ flag' = f /\ server' = [s EXCEPT !.marked = m, !.recalled = r]
  BY <1>3 DEF Sending!Close
<1>5. m => s.delivered
  BY <1>1
<1>6. kind = "recall" /\ ~r => s.delivered \/ s.draft
  BY <1>2
<1> QED
  BY <1>4, <1>5, <1>6

(* The commands of the user. *)
LEMMA StepSend == ASSUME SendingIInv, Sending!Send PROVE SendingIInv'
<1>1. /\ tab > 0 /\ tab' = tab - 1 /\ noquit' = noquit + 1
      /\ send_pc = "none" /\ send_pc' = "write"
      /\ overlap' = (overlap \/ postpone_pc # "none")
      /\ kind' = kind /\ live' = live /\ other' = other /\ postpone_pc' = postpone_pc
      /\ appends' = appends /\ flag' = flag /\ server' = server
  BY DEF Sending!Send, Sending!Overlap
<1>2. SendingTyped'
  <2>1. tab \in Nat /\ noquit \in Int /\ tab' \in Nat /\ noquit' \in Int
    BY <1>1 DEF SendingIInv, SendingTyped
  <2> QED
    BY <1>1, <2>1 DEF SendingIInv, SendingTyped
<1>3. MessageKept'
  BY <1>1 DEF SendingIInv, MessageKept
<1>4. ASSUME ~overlap' PROVE NoQuitCounts'
  <2>1. ~overlap /\ postpone_pc = "none" /\ NoQuitCounts /\ tab \in Nat
    BY <1>1, <1>4 DEF SendingIInv, SendingTyped
  <2> QED
    BY <1>1, <2>1 DEF NoQuitCounts, Composers, OneIf
<1> QED
  BY <1>2, <1>3, <1>4 DEF SendingIInv

LEMMA StepPostpone == ASSUME SendingIInv, NEW e \in BOOLEAN, Sending!Postpone(e) PROVE SendingIInv'
<1>1. /\ tab > 0 /\ postpone_pc = "none" /\ postpone_pc' \in {"save", "create"}
      /\ kind' = kind /\ tab' = tab /\ live' = live /\ other' = other /\ noquit' = noquit
      /\ send_pc' = send_pc /\ appends' = appends /\ flag' = flag /\ server' = server
      /\ overlap' = overlap
  BY DEF Sending!Postpone
<1>2. SendingTyped'
  BY <1>1 DEF SendingIInv, SendingTyped
<1>3. MessageKept'
  BY <1>1 DEF SendingIInv, MessageKept
<1>4. ASSUME ~overlap' PROVE NoQuitCounts'
  <2>1. NoQuitCounts /\ tab \in Nat
    BY <1>1, <1>4 DEF SendingIInv, SendingTyped
  <2> QED
    BY <1>1, <2>1 DEF NoQuitCounts, Composers, OneIf
<1> QED
  BY <1>2, <1>3, <1>4 DEF SendingIInv

(* Whoever closes the composer keeps what the flag says. *)
LEMMA ClosedKept ==
  ASSUME SendingTyped, MessageKept, Sending!Close(flag, server), kind' = kind,
         send_pc' = send_pc
  PROVE  /\ MessageKept' /\ live' = FALSE /\ flag' = flag
         /\ server' \in [delivered : BOOLEAN, copied : SUBSET (CopyTo \cup {Parent}),
                         draft : BOOLEAN, recalled : BOOLEAN, marked : BOOLEAN]
<1>1. PICK f \in {"none", "sent", "postponed"} : f = flag
  BY DEF SendingTyped
<1>2. PICK s \in [delivered : BOOLEAN, copied : SUBSET (CopyTo \cup {Parent}),
                  draft : BOOLEAN, recalled : BOOLEAN, marked : BOOLEAN] : s = server
  BY DEF SendingTyped
<1>3. /\ f = "sent" \/ s.marked => s.delivered
      /\ f = "postponed" => s.draft
      /\ kind = "recall" /\ ~s.recalled => s.delivered \/ s.draft
  BY <1>1, <1>2 DEF MessageKept
<1>4. Sending!Close(f, s)
  BY <1>1, <1>2
<1>5. /\ live' = FALSE /\ flag' = f
      /\ server' \in [delivered : BOOLEAN, copied : SUBSET (CopyTo \cup {Parent}),
                      draft : BOOLEAN, recalled : BOOLEAN, marked : BOOLEAN]
      /\ server'.delivered = s.delivered /\ server'.draft = s.draft
      /\ server'.marked => s.delivered
      /\ kind = "recall" /\ ~server'.recalled => s.delivered \/ s.draft
  BY <1>3, <1>4, CloseRight
<1> QED
  BY <1>1, <1>2, <1>3, <1>5 DEF MessageKept

LEMMA StepAbort == ASSUME SendingIInv, Sending!Abort PROVE SendingIInv'
<1>1. /\ tab > 0 /\ tab' = tab - 1 /\ noquit' = noquit - 1
      /\ overlap' = (overlap \/ postpone_pc # "none")
      /\ kind' = kind /\ other' = other /\ send_pc' = send_pc
      /\ postpone_pc' = postpone_pc /\ appends' = appends
      /\ Sending!Close(flag, server)
  BY DEF Sending!Abort, Sending!Overlap
<1>2. /\ MessageKept' /\ live' = FALSE /\ flag' = flag
      /\ server' \in [delivered : BOOLEAN, copied : SUBSET (CopyTo \cup {Parent}),
                      draft : BOOLEAN, recalled : BOOLEAN, marked : BOOLEAN]
  BY <1>1, ClosedKept DEF SendingIInv
<1>3. SendingTyped'
  <2>1. tab \in Nat /\ noquit \in Int /\ tab' \in Nat /\ noquit' \in Int
    BY <1>1 DEF SendingIInv, SendingTyped
  <2> QED
    BY <1>1, <1>2, <2>1 DEF SendingIInv, SendingTyped
<1>4. ASSUME ~overlap' PROVE NoQuitCounts'
  <2>1. ~overlap /\ postpone_pc = "none" /\ NoQuitCounts /\ tab \in Nat
    BY <1>1, <1>4 DEF SendingIInv, SendingTyped
  <2>2. send_pc = "none" /\ tab = 1
    BY <1>1, <2>1 DEF NoQuitCounts, Composers, OneIf
  <2> QED
    BY <1>1, <1>2, <2>1, <2>2 DEF NoQuitCounts, Composers, OneIf
<1> QED
  BY <1>2, <1>3, <1>4 DEF SendingIInv

(* Another composer counts for itself. *)
LEMMA StepOther ==
  ASSUME SendingIInv, Sending!OtherOpens \/ Sending!OtherCloses PROVE SendingIInv'
<1>1. /\ \/ ~other /\ other' = TRUE /\ noquit' = noquit + 1
         \/ other /\ other' = FALSE /\ noquit' = noquit - 1
      /\ kind' = kind /\ tab' = tab /\ live' = live /\ send_pc' = send_pc
      /\ postpone_pc' = postpone_pc /\ appends' = appends /\ flag' = flag
      /\ server' = server /\ overlap' = overlap
  BY DEF Sending!OtherOpens, Sending!OtherCloses
<1>2. SendingTyped'
  <2>1. noquit \in Int
    BY DEF SendingIInv, SendingTyped
  <2>2. noquit' = noquit + 1 \/ noquit' = noquit - 1
    BY <1>1
  <2>3. noquit' \in Int
    BY <2>1, <2>2
  <2>4. other' \in BOOLEAN
    BY <1>1
  <2> QED
    BY <1>1, <2>3, <2>4 DEF SendingIInv, SendingTyped
<1>3. MessageKept'
  BY <1>1 DEF SendingIInv, MessageKept
<1>4. ASSUME ~overlap' PROVE NoQuitCounts'
  <2>1. NoQuitCounts /\ tab \in Nat
    BY <1>1, <1>4 DEF SendingIInv, SendingTyped
  <2>2. Composers' = Composers /\ Composers \in Int
    BY <1>1, <2>1 DEF Composers, OneIf
  <2> QED
    BY <1>1, <2>1, <2>2 DEF NoQuitCounts, OneIf
<1> QED
  BY <1>2, <1>3, <1>4 DEF SendingIInv

(* The goroutines of :send. *)
LEMMA StepWriterFails ==
  ASSUME SendingIInv, NEW d \in BOOLEAN, Sending!WriterFails(d) PROVE SendingIInv'
<1>1. /\ send_pc = "write" /\ send_pc' = "none" /\ tab' = tab + 1 /\ noquit' = noquit - 1
      /\ server' = [server EXCEPT !.delivered = @ \/ d]
      /\ kind' = kind /\ live' = live /\ other' = other /\ postpone_pc' = postpone_pc
      /\ appends' = appends /\ flag' = flag /\ overlap' = overlap
  BY DEF Sending!WriterFails
<1>2. PICK s \in [delivered : BOOLEAN, copied : SUBSET (CopyTo \cup {Parent}),
                  draft : BOOLEAN, recalled : BOOLEAN, marked : BOOLEAN] : s = server
  BY DEF SendingIInv, SendingTyped
<1>3. PICK e \in BOOLEAN : e = (s.delivered \/ d)
  BY <1>2
<1>4. server' = [s EXCEPT !.delivered = e]
  BY <1>1, <1>2, <1>3
<1>5. /\ server' \in [delivered : BOOLEAN, copied : SUBSET (CopyTo \cup {Parent}),
                      draft : BOOLEAN, recalled : BOOLEAN, marked : BOOLEAN]
      /\ server'.delivered = e /\ server'.draft = s.draft
      /\ server'.recalled = s.recalled /\ server'.marked = s.marked
  BY <1>4
<1>6. tab \in Nat /\ noquit \in Int /\ tab' \in Nat /\ noquit' \in Int /\ tab' > 0
  BY <1>1 DEF SendingIInv, SendingTyped
<1>7. SendingTyped'
  BY <1>1, <1>5, <1>6 DEF SendingIInv, SendingTyped
<1>8. MessageKept'
  BY <1>1, <1>2, <1>3, <1>5, <1>6 DEF SendingIInv, MessageKept
<1>9. ASSUME ~overlap' PROVE NoQuitCounts'
  <2>1. NoQuitCounts
    BY <1>1, <1>9 DEF SendingIInv
  <2> QED
    BY <1>1, <1>6, <2>1 DEF NoQuitCounts, Composers, OneIf
<1> QED
  BY <1>7, <1>8, <1>9 DEF SendingIInv

LEMMA StepWriterSends == ASSUME SendingIInv, Sending!WriterSends PROVE SendingIInv'
<1>1. /\ send_pc = "write" /\ live /\ send_pc' \in {"copy", "end"}
      /\ server' = [server EXCEPT !.delivered = TRUE]
      /\ kind' = kind /\ live' = live /\ other' = other /\ postpone_pc' = postpone_pc
      /\ tab' = tab /\ noquit' = noquit /\ flag' = flag /\ overlap' = overlap
  BY DEF Sending!WriterSends
<1>2. "draft" \in appends' <=> "draft" \in appends
  <2>1. "draft" \notin Sending!Folders
    BY SendingAssumption DEF Sending!Folders
  <2> QED
    BY <2>1 DEF Sending!WriterSends
<1>3. PICK s \in [delivered : BOOLEAN, copied : SUBSET (CopyTo \cup {Parent}),
                  draft : BOOLEAN, recalled : BOOLEAN, marked : BOOLEAN] : s = server
  BY DEF SendingIInv, SendingTyped
<1>4. /\ server' \in [delivered : BOOLEAN, copied : SUBSET (CopyTo \cup {Parent}),
                      draft : BOOLEAN, recalled : BOOLEAN, marked : BOOLEAN]
      /\ server'.delivered = TRUE /\ server'.draft = s.draft
      /\ server'.recalled = s.recalled /\ server'.marked = s.marked
  BY <1>1, <1>3
<1>5. SendingTyped'
  BY <1>1, <1>2, <1>4 DEF SendingIInv, SendingTyped
<1>6. MessageKept'
  BY <1>1, <1>3, <1>4 DEF SendingIInv, MessageKept
<1>7. ASSUME ~overlap' PROVE NoQuitCounts'
  <2>1. NoQuitCounts
    BY <1>1, <1>7 DEF SendingIInv
  <2> QED
    BY <1>1, <2>1 DEF NoQuitCounts, Composers, OneIf
<1> QED
  BY <1>5, <1>6, <1>7 DEF SendingIInv

LEMMA StepFirstCopyAnswered == ASSUME SendingIInv, Sending!FirstCopyAnswered PROVE SendingIInv'
<1>1. /\ send_pc = "copy" /\ send_pc' = "end" /\ server' = server /\ appends' = appends
      /\ kind' = kind /\ live' = live /\ other' = other /\ postpone_pc' = postpone_pc
      /\ tab' = tab /\ noquit' = noquit /\ flag' = flag /\ overlap' = overlap
  BY DEF Sending!FirstCopyAnswered
<1>2. SendingTyped' /\ MessageKept'
  BY <1>1 DEF SendingIInv, SendingTyped, MessageKept
<1>3. ASSUME ~overlap' PROVE NoQuitCounts'
  BY <1>1, <1>3 DEF SendingIInv, NoQuitCounts, Composers, OneIf
<1> QED
  BY <1>2, <1>3 DEF SendingIInv

LEMMA StepCleanupCloses == ASSUME SendingIInv, Sending!CleanupCloses PROVE SendingIInv'
<1>1. /\ send_pc = "end" /\ send_pc' = "none" /\ noquit' = noquit - 2
      /\ kind' = kind /\ tab' = tab /\ other' = other /\ postpone_pc' = postpone_pc
      /\ appends' = appends /\ overlap' = overlap
      /\ Sending!Close("sent", server)
  BY DEF Sending!CleanupCloses
<1>2. PICK s \in [delivered : BOOLEAN, copied : SUBSET (CopyTo \cup {Parent}),
                  draft : BOOLEAN, recalled : BOOLEAN, marked : BOOLEAN] : s = server
  BY DEF SendingIInv, SendingTyped
<1>3. s.delivered
  BY <1>1, <1>2 DEF SendingIInv, MessageKept
<1>4. Sending!Close("sent", s)
  BY <1>1, <1>2
<1>5. /\ live' = FALSE /\ flag' = "sent"
      /\ server' \in [delivered : BOOLEAN, copied : SUBSET (CopyTo \cup {Parent}),
                      draft : BOOLEAN, recalled : BOOLEAN, marked : BOOLEAN]
      /\ server'.delivered
  BY <1>3, <1>4, CloseRight
<1>6. SendingTyped'
  <2>1. noquit \in Int /\ noquit' \in Int
    BY <1>1 DEF SendingIInv, SendingTyped
  <2> QED
    BY <1>1, <1>5, <2>1 DEF SendingIInv, SendingTyped
<1>7. MessageKept'
  BY <1>1, <1>5 DEF MessageKept
<1>8. ASSUME ~overlap' PROVE NoQuitCounts'
  <2>1. NoQuitCounts /\ tab \in Nat
    BY <1>1, <1>8 DEF SendingIInv, SendingTyped
  <2>2. tab = 0 /\ postpone_pc \notin {"append", "refused", "create", "save"}
    BY <1>1, <2>1 DEF NoQuitCounts, Composers, OneIf
  <2> QED
    BY <1>1, <1>5, <2>1, <2>2 DEF NoQuitCounts, Composers, OneIf
<1> QED
  BY <1>6, <1>7, <1>8 DEF SendingIInv

(* The answers of the worker, and the goroutine of :postpone. *)
LEMMA StepCopyAnswered ==
  ASSUME SendingIInv, NEW f \in CopyTo \cup {Parent}, NEW w, Sending!CopyAnswered(f, w)
  PROVE  SendingIInv'
<1>1. /\ f # "draft" /\ appends' = appends \ {f}
      /\ server' = (IF w = "done" THEN [server EXCEPT !.copied = @ \cup {f}] ELSE server)
      /\ send_pc' = send_pc /\ kind' = kind /\ live' = live /\ other' = other
      /\ postpone_pc' = postpone_pc /\ tab' = tab /\ noquit' = noquit /\ flag' = flag
      /\ overlap' = overlap
  BY SendingAssumption DEF Sending!CopyAnswered
<1>2. PICK s \in [delivered : BOOLEAN, copied : SUBSET (CopyTo \cup {Parent}),
                  draft : BOOLEAN, recalled : BOOLEAN, marked : BOOLEAN] : s = server
  BY DEF SendingIInv, SendingTyped
<1>3. PICK c \in SUBSET (CopyTo \cup {Parent}) : c = s.copied \cup {f}
  BY <1>2
<1>4. server' = s \/ server' = [s EXCEPT !.copied = c]
  BY <1>1, <1>2, <1>3
<1>5. /\ server' \in [delivered : BOOLEAN, copied : SUBSET (CopyTo \cup {Parent}),
                      draft : BOOLEAN, recalled : BOOLEAN, marked : BOOLEAN]
      /\ server'.delivered = s.delivered /\ server'.draft = s.draft
      /\ server'.recalled = s.recalled /\ server'.marked = s.marked
  BY <1>4
<1>6. SendingTyped'
  BY <1>1, <1>5 DEF SendingIInv, SendingTyped
<1>7. MessageKept'
  BY <1>1, <1>2, <1>5 DEF SendingIInv, MessageKept
<1>8. ASSUME ~overlap' PROVE NoQuitCounts'
  BY <1>1, <1>8 DEF SendingIInv, NoQuitCounts, Composers, OneIf
<1> QED
  BY <1>6, <1>7, <1>8 DEF SendingIInv

LEMMA StepCreateAnswered ==
  ASSUME SendingIInv, NEW ok \in BOOLEAN, Sending!CreateAnswered(ok) PROVE SendingIInv'
<1>1. /\ postpone_pc = "create" /\ postpone_pc' \in {"save", "none"}
      /\ server' = server /\ appends' = appends /\ send_pc' = send_pc /\ kind' = kind
      /\ live' = live /\ other' = other /\ tab' = tab /\ noquit' = noquit
      /\ flag' = flag /\ overlap' = overlap
  BY DEF Sending!CreateAnswered
<1>2. SendingTyped' /\ MessageKept'
  BY <1>1 DEF SendingIInv, SendingTyped, MessageKept
<1>3. ASSUME ~overlap' PROVE NoQuitCounts'
  BY <1>1, <1>3 DEF SendingIInv, NoQuitCounts, Composers, OneIf
<1> QED
  BY <1>2, <1>3 DEF SendingIInv

LEMMA StepPostponeWrites == ASSUME SendingIInv, Sending!PostponeWrites PROVE SendingIInv'
<1>1. PICK fewer : fewer = (IF tab > 0 THEN tab - 1 ELSE 0)
  OBVIOUS
<1>2. /\ postpone_pc = "save"
      /\ \/ /\ live /\ postpone_pc' = "append" /\ appends' = appends \cup {"draft"}
            /\ tab' = fewer
         \/ /\ ~live /\ postpone_pc' = "none" /\ appends' = appends /\ tab' = fewer + 1
      /\ server' = server /\ send_pc' = send_pc /\ kind' = kind
      /\ live' = live /\ other' = other /\ noquit' = noquit
      /\ flag' = flag /\ overlap' = overlap
  BY <1>1 DEF Sending!PostponeWrites
<1>3. tab \in Nat /\ fewer \in Nat /\ tab' \in Nat
  <2>1. tab \in Nat
    BY DEF SendingIInv, SendingTyped
  <2>2. fewer \in Nat
    BY <1>1, <2>1
  <2> QED
    BY <1>2, <2>1, <2>2
<1>4. "draft" \in appends' <=> postpone_pc' = "append"
  BY <1>2 DEF SendingIInv, SendingTyped
<1>5. SendingTyped'
  BY <1>2, <1>3, <1>4 DEF SendingIInv, SendingTyped
<1>6. MessageKept'
  BY <1>2 DEF SendingIInv, MessageKept
<1>7. ASSUME ~overlap' PROVE NoQuitCounts'
  <2>1. NoQuitCounts /\ tab = 1 /\ live
    BY <1>2, <1>3, <1>7 DEF SendingIInv, NoQuitCounts
  <2>2. tab' = 0 /\ postpone_pc' = "append"
    BY <1>1, <1>2, <2>1
  <2> QED
    BY <1>2, <2>1, <2>2 DEF NoQuitCounts, Composers, OneIf
<1> QED
  BY <1>5, <1>6, <1>7 DEF SendingIInv

LEMMA StepDraftAnswered ==
  ASSUME SendingIInv, NEW w, Sending!DraftAnswered(w) PROVE SendingIInv'
<1>1. /\ "draft" \in appends /\ appends' = appends \ {"draft"} /\ send_pc' = send_pc
      /\ kind' = kind /\ other' = other /\ overlap' = overlap
  BY DEF Sending!DraftAnswered
<1>2. postpone_pc = "append"
  BY <1>1 DEF SendingIInv, SendingTyped
<1>3. tab \in Nat /\ noquit \in Int /\ tab + 1 \in Nat /\ noquit - 1 \in Int /\ tab + 1 > 0
  BY DEF SendingIInv, SendingTyped
<1>4. CASE w = "done"
  <2>1. /\ postpone_pc' = "none" /\ noquit' = noquit - 1 /\ tab' = tab
        /\ Sending!Close("postponed", [server EXCEPT !.draft = TRUE])
    BY <1>4 DEF Sending!DraftAnswered
  <2>2. PICK s \in [delivered : BOOLEAN, copied : SUBSET (CopyTo \cup {Parent}),
                    draft : BOOLEAN, recalled : BOOLEAN, marked : BOOLEAN] : s = server
    BY DEF SendingIInv, SendingTyped
  <2>3. PICK t : t = [s EXCEPT !.draft = TRUE]
    OBVIOUS
  <2>4. /\ t \in [delivered : BOOLEAN, copied : SUBSET (CopyTo \cup {Parent}),
                  draft : BOOLEAN, recalled : BOOLEAN, marked : BOOLEAN]
        /\ t.draft = TRUE /\ t.delivered = s.delivered
        /\ t.recalled = s.recalled /\ t.marked = s.marked
    BY <2>2, <2>3
  <2>5. Sending!Close("postponed", t)
    BY <2>1, <2>2, <2>3
  <2>6. t.marked => t.delivered
    BY <2>2, <2>4 DEF SendingIInv, MessageKept
  <2>7. /\ live' = FALSE /\ flag' = "postponed"
        /\ server' \in [delivered : BOOLEAN, copied : SUBSET (CopyTo \cup {Parent}),
                        draft : BOOLEAN, recalled : BOOLEAN, marked : BOOLEAN]
        /\ server'.delivered = t.delivered /\ server'.draft
        /\ server'.marked => t.delivered
    BY <2>4, <2>5, <2>6, CloseRight
  <2>8. SendingTyped'
    BY <1>1, <1>3, <2>1, <2>7 DEF SendingIInv, SendingTyped
  <2>9. MessageKept'
    BY <1>1, <2>2, <2>4, <2>7 DEF SendingIInv, MessageKept
  <2>10. ASSUME ~overlap' PROVE NoQuitCounts'
    <3>1. NoQuitCounts
      BY <1>1, <2>10 DEF SendingIInv
    <3>2. tab = 0 /\ send_pc = "none"
      BY <1>2, <1>3, <3>1 DEF NoQuitCounts, Composers, OneIf
    <3> QED
      BY <1>1, <1>2, <1>3, <2>1, <2>7, <3>1, <3>2 DEF NoQuitCounts, Composers, OneIf
  <2> QED
    BY <2>8, <2>9, <2>10 DEF SendingIInv
<1>5. CASE w # "done"
  <2>1. /\ live' = live /\ flag' = flag /\ server' = server /\ noquit' = noquit
        /\ \/ postpone_pc' = "none" /\ tab' = tab + 1
           \/ postpone_pc' = "refused" /\ tab' = tab
    BY <1>5 DEF Sending!DraftAnswered
  <2>2. SendingTyped'
    BY <1>1, <1>3, <2>1 DEF SendingIInv, SendingTyped
  <2>3. MessageKept'
    BY <1>1, <1>3, <2>1 DEF SendingIInv, MessageKept
  <2>4. ASSUME ~overlap' PROVE NoQuitCounts'
    <3>1. NoQuitCounts
      BY <1>1, <2>4 DEF SendingIInv
    <3> QED
      BY <1>1, <1>2, <1>3, <2>1, <3>1 DEF NoQuitCounts, Composers, OneIf
  <2> QED
    BY <2>2, <2>3, <2>4 DEF SendingIInv
<1> QED
  BY <1>4, <1>5

(* Every step keeps the invariant. *)
LEMMA SendingStep ==
  ASSUME SendingIInv, [Sending!Next]_sendingVars PROVE SendingIInv'
<1>1. CASE UNCHANGED sendingVars
  BY <1>1 DEF sendingVars, SendingIInv, SendingTyped, MessageKept, NoQuitCounts, Composers
<1>2. CASE Sending!Send \/ Sending!Abort \/ Sending!OtherOpens \/ Sending!OtherCloses
  BY <1>2, StepSend, StepAbort, StepOther
<1>3. ASSUME NEW b \in BOOLEAN,
             Sending!Postpone(b) \/ Sending!CreateAnswered(b) \/ Sending!WriterFails(b)
      PROVE  SendingIInv'
  BY <1>3, StepPostpone, StepCreateAnswered, StepWriterFails
<1>4. CASE \/ Sending!WriterSends \/ Sending!FirstCopyAnswered \/ Sending!CleanupCloses
           \/ Sending!PostponeWrites
  BY <1>4, StepWriterSends, StepFirstCopyAnswered, StepCleanupCloses, StepPostponeWrites
<1>5. ASSUME NEW w,
             Sending!DraftAnswered(w)
             \/ \E f \in CopyTo \cup {Parent} : Sending!CopyAnswered(f, w)
      PROVE  SendingIInv'
  BY <1>5, StepDraftAnswered, StepCopyAnswered
<1> QED
  BY <1>1, <1>2, <1>3, <1>4, <1>5 DEF Sending!Next

(* The invariant implies what the runs check. *)
LEMMA SendingImplied == ASSUME SendingIInv PROVE SendingRight
<1>1. tab \in Nat /\ noquit \in Int
  BY DEF SendingIInv, SendingTyped
<1>2. Sending!Kept
  BY DEF SendingIInv, SendingTyped, MessageKept, Sending!Kept, Sending!Sending,
         Sending!Postponing
<1>3. ASSUME ~overlap, tab > 0 \/ other \/ Sending!Sending \/ Sending!Postponing
      PROVE  noquit > 0
  <2>1. NoQuitCounts
    BY <1>3 DEF SendingIInv
  <2>2. CASE postpone_pc = "save"
    BY <1>1, <2>1, <2>2 DEF NoQuitCounts, Composers, OneIf
  <2>3. CASE postpone_pc # "save"
    BY <1>1, <1>3, <2>1, <2>3
    DEF NoQuitCounts, Composers, OneIf, Sending!Sending, Sending!Postponing
  <2> QED
    BY <2>2, <2>3
<1> QED
  BY <1>2, <1>3 DEF SendingRight, Sending!QuitGuarded

-----------------------------------------------------------------------------
(* Processes that share a socket. *)

ProcessStates ==
  {"off", "ask", "asking", "ping", "pinging", "remove", "listen", "main", "closing",
   "answered", "closed", "crashed"}
Connections == [from : Processes, ping : BOOLEAN, done : BOOLEAN]
Unserved == [from : Processes, ping : BOOLEAN, done : {FALSE}]

PeersTyped ==
  /\ pc \in [Processes -> ProcessStates]
  /\ sock \in {0} \cup Processes /\ listening \subseteq Processes
  /\ started \subseteq Processes
  /\ backlog \in [Processes -> Seq(Unserved)]
  /\ serving \in [Processes -> Connections \cup {Peers!NoOne}]
  /\ held \in [Processes -> SUBSET Processes]
  /\ ran \in [Processes -> Seq(Processes)]
  /\ instances_asked \in [Processes -> {0} \cup Processes]

(* p's connection, or its command, is with s. *)
Waiting(s, p) == \E i \in 1..Len(backlog[s]) : backlog[s][i].from = p
ClientOf(s, p) == Waiting(s, p) \/ serving[s].from = p \/ p \in held[s]
Queued(s, p) == \E i \in 1..Len(backlog[s]) : backlog[s][i].from = p /\ ~backlog[s][i].ping
Served(s, p) == serving[s].from = p /\ ~serving[s].ping
Pinged(s, p) ==
  \/ \E i \in 1..Len(backlog[s]) : backlog[s][i].from = p /\ backlog[s][i].ping
  \/ serving[s].from = p /\ serving[s].ping

(* Connections are with a process that listens; a command is handed over once. *)
ConnectionsRight ==
  /\ \A s \in Processes :
       backlog[s] # <<>> \/ serving[s] # Peers!NoOne \/ held[s] # {} => s \in listening
  /\ \A s \in Processes : \A i, j \in 1..Len(backlog[s]) :
       ~backlog[s][i].ping /\ ~backlog[s][j].ping /\ backlog[s][i].from = backlog[s][j].from
         => i = j
  /\ \A s, p \in Processes :
       /\ Queued(s, p) \/ Served(s, p) => instances_asked[p] = s
       /\ ~(Queued(s, p) /\ Served(s, p))
       /\ Pinged(s, p) => pc[p] \notin {"off", "ask", "asking", "ping", "answered"}
       /\ p \in held[s] => /\ pc[p] \notin {"off", "ask"}
                           /\ pc[p] = "asking" => instances_asked[p] = s

(* Who goes on by itself after asking has asked a process that has ended. *)
ProcessesRight ==
  /\ \A p \in listening : pc[p] \in {"main", "closing"}
  /\ \A p \in started : pc[p] \in {"main", "closing", "closed", "crashed"}
  /\ \A p \in Processes :
       /\ instances_asked[p] # p
       /\ pc[p] \in {"off", "ask"} => instances_asked[p] = 0
       /\ instances_asked[p] # 0
          /\ pc[p] \in {"ping", "pinging", "remove", "listen", "main", "closing", "closed"}
            => pc[instances_asked[p]] \in Peers!Ended

WaitersRight ==
  \A p \in Processes : pc[p] \in {"asking", "pinging"} => \E s \in listening : ClientOf(s, p)

SocketRight ==
  ~instances_overlap =>
    /\ \A s \in listening : sock = s
    /\ \A q \in Processes : pc[q] = "remove" => listening = {}

PeersKept ==
  PeersTyped /\ ConnectionsRight /\ ProcessesRight /\ WaitersRight /\ SocketRight

(* Where the command of each process has run. *)
RunsRight ==
  /\ \A s, p \in Processes :
       /\ Queued(s, p) \/ (Served(s, p) /\ ~serving[s].done) => ran[p] = <<>>
       /\ Served(s, p) /\ serving[s].done => ran[p] = <<s>>
  /\ \A p \in Processes :
       /\ \/ ran[p] = <<>>
          \/ instances_asked[p] # 0 /\ ran[p] = <<instances_asked[p]>>
          \/ p \in started /\ ran[p] = <<p>>
          \/ p \in started /\ instances_asked[p] # 0 /\ ran[p] = <<instances_asked[p], p>>
       /\ p \in started /\ instances_asked[p] # 0 => pc[instances_asked[p]] \in Peers!Ended
       /\ pc[p] = "answered" => instances_asked[p] # 0 /\ ran[p] = <<instances_asked[p]>>

PeersIInv == PeersKept /\ RunsRight

(* At first no process runs. *)
LEMMA PeersInit == ASSUME Peers!Init PROVE PeersIInv
<1>1. /\ pc = [p \in Processes |-> "off"] /\ sock = 0 /\ listening = {} /\ started = {}
      /\ backlog = [p \in Processes |-> <<>>]
      /\ serving = [p \in Processes |-> Peers!NoOne]
      /\ held = [p \in Processes |-> {}] /\ ran = [p \in Processes |-> <<>>]
      /\ instances_asked = [p \in Processes |-> 0]
  BY DEF Peers!Init
<1>2. \A p \in Processes : /\ p # 0 /\ pc[p] = "off" /\ backlog[p] = <<>> /\ held[p] = {}
                           /\ serving[p] = Peers!NoOne /\ serving[p].from = 0
                           /\ ran[p] = <<>> /\ instances_asked[p] = 0
  BY <1>1, ProcessesAssumption DEF Peers!NoOne
<1>3. PeersTyped
  <2>1. <<>> \in Seq(Unserved) /\ <<>> \in Seq(Processes)
    OBVIOUS
  <2> QED
    BY <1>1, <2>1 DEF PeersTyped, ProcessStates
<1>4. \A s, p \in Processes : ~Queued(s, p) /\ ~Served(s, p) /\ ~Pinged(s, p)
  <2>1. \A s \in Processes : 1..Len(backlog[s]) = {}
    BY <1>2
  <2> QED
    BY <1>2, <2>1 DEF Queued, Served, Pinged
<1>5. ConnectionsRight
  BY <1>2, <1>4 DEF ConnectionsRight
<1>6. ProcessesRight
  BY <1>1, <1>2 DEF ProcessesRight
<1>7. WaitersRight
  BY <1>2 DEF WaitersRight
<1>8. SocketRight
  BY <1>1 DEF SocketRight
<1>9. RunsRight
  BY <1>1, <1>2, <1>4 DEF RunsRight
<1> QED
  BY <1>3, <1>5, <1>6, <1>7, <1>8, <1>9 DEF PeersIInv, PeersKept

(* The clients of a process are those with a connection to it. *)
LEMMA ClientsRight ==
  ASSUME PeersTyped, NEW s \in Processes, NEW p \in Processes
  PROVE  p \in Peers!Clients(s) <=> ClientOf(s, p)
<1>1. DOMAIN backlog[s] = 1..Len(backlog[s])
  BY DEF PeersTyped
<1> QED
  BY <1>1 DEF Peers!Clients, Peers!Range, ClientOf, Waiting

(* A process that waits for its command has no ping, one that waits for its ping no command. *)
LEMMA AskingRight ==
  ASSUME PeersKept, NEW s \in Processes, NEW p \in Processes, ClientOf(s, p), pc[p] = "asking"
  PROVE  instances_asked[p] = s
<1>1. p # 0
  BY ProcessesAssumption
<1>2. CASE Waiting(s, p)
  <2>1. PICK i \in 1..Len(backlog[s]) : backlog[s][i].from = p
    BY <1>2 DEF Waiting
  <2>2. CASE backlog[s][i].ping
    BY <2>1, <2>2 DEF PeersKept, ConnectionsRight, Pinged
  <2>3. CASE ~backlog[s][i].ping
    BY <2>1, <2>3 DEF PeersKept, ConnectionsRight, Queued
  <2> QED
    BY <2>2, <2>3
<1>3. CASE serving[s].from = p
  BY <1>3 DEF PeersKept, ConnectionsRight, Pinged, Served
<1>4. CASE p \in held[s]
  BY <1>4 DEF PeersKept, ConnectionsRight
<1> QED
  BY <1>2, <1>3, <1>4 DEF ClientOf

(* A process with clients listens. *)
LEMMA ClientListens ==
  ASSUME PeersKept, NEW s \in Processes, NEW p \in Processes, ClientOf(s, p)
  PROVE  s \in listening
<1>1. p # 0 /\ Peers!NoOne.from = 0
  BY ProcessesAssumption DEF Peers!NoOne
<1>2. backlog[s] = <<>> => 1..Len(backlog[s]) = {}
  OBVIOUS
<1> QED
  BY <1>1, <1>2 DEF PeersKept, ConnectionsRight, ClientOf, Waiting

(* What a step that adds no connection leaves true of the connections. *)
LEMMA ConnectionsLeft ==
  ASSUME PeersKept, instances_asked' = instances_asked, NEW P \in SUBSET Processes,
         \A s \in Processes : s \notin P => /\ backlog'[s] = backlog[s] /\ held'[s] = held[s]
                                            /\ serving'[s] = serving[s],
         \A s \in P : /\ backlog'[s] = <<>> /\ held'[s] = {} /\ serving'[s] = Peers!NoOne,
         listening \ P \subseteq listening',
         \A q \in Processes : /\ pc'[q] = "asking" => pc[q] = "asking"
                              /\ pc'[q] \in {"off", "ask"} => pc[q] \in {"off", "ask"}
                              /\ pc'[q] \in {"off", "ask", "asking", "ping", "answered"} =>
                                   pc[q] \in {"off", "ask", "asking", "ping", "answered"}
  PROVE  /\ ConnectionsRight'
         /\ \A s, q \in Processes :
              /\ ClientOf(s, q)' <=> s \notin P /\ ClientOf(s, q)
              /\ Queued(s, q)' <=> s \notin P /\ Queued(s, q)
              /\ Served(s, q)' <=> s \notin P /\ Served(s, q)
<1>1. \A q \in Processes : q # 0 /\ Peers!NoOne.from = 0
  BY ProcessesAssumption DEF Peers!NoOne
<1>2. \A s \in P : 1..Len(backlog'[s]) = {}
  OBVIOUS
<1>3. \A s, q \in Processes :
        /\ ClientOf(s, q)' <=> s \notin P /\ ClientOf(s, q)
        /\ Queued(s, q)' <=> s \notin P /\ Queued(s, q)
        /\ Served(s, q)' <=> s \notin P /\ Served(s, q)
        /\ Pinged(s, q)' <=> s \notin P /\ Pinged(s, q)
  <2> SUFFICES ASSUME NEW s \in Processes, NEW q \in Processes
               PROVE  /\ ClientOf(s, q)' <=> s \notin P /\ ClientOf(s, q)
                      /\ Queued(s, q)' <=> s \notin P /\ Queued(s, q)
                      /\ Served(s, q)' <=> s \notin P /\ Served(s, q)
                      /\ Pinged(s, q)' <=> s \notin P /\ Pinged(s, q)
    OBVIOUS
  <2>1. CASE s \in P
    BY <1>1, <1>2, <2>1 DEF ClientOf, Waiting, Queued, Served, Pinged
  <2>2. CASE s \notin P
    BY <2>2 DEF ClientOf, Waiting, Queued, Served, Pinged
  <2> QED
    BY <2>1, <2>2
<1>4. \A s \in Processes :
        backlog'[s] # <<>> \/ serving'[s] # Peers!NoOne \/ held'[s] # {} => s \in listening'
  BY DEF PeersKept, ConnectionsRight
<1>5. \A s \in Processes : \A i, j \in 1..Len(backlog'[s]) :
        ~backlog'[s][i].ping /\ ~backlog'[s][j].ping /\ backlog'[s][i].from = backlog'[s][j].from
          => i = j
  BY <1>2 DEF PeersKept, ConnectionsRight
<1>6. ASSUME NEW s \in Processes, NEW q \in Processes
      PROVE  /\ Queued(s, q)' \/ Served(s, q)' => instances_asked'[q] = s
             /\ ~(Queued(s, q)' /\ Served(s, q)')
             /\ Pinged(s, q)' => pc'[q] \notin {"off", "ask", "asking", "ping", "answered"}
             /\ q \in held'[s] => /\ pc'[q] \notin {"off", "ask"}
                                  /\ pc'[q] = "asking" => instances_asked'[q] = s
  <2>1. /\ Queued(s, q) \/ Served(s, q) => instances_asked[q] = s
        /\ ~(Queued(s, q) /\ Served(s, q))
        /\ Pinged(s, q) => pc[q] \notin {"off", "ask", "asking", "ping", "answered"}
        /\ q \in held[s] => /\ pc[q] \notin {"off", "ask"}
                            /\ pc[q] = "asking" => instances_asked[q] = s
    BY DEF PeersKept, ConnectionsRight
  <2>2. /\ pc'[q] = "asking" => pc[q] = "asking"
        /\ pc'[q] \in {"off", "ask"} => pc[q] \in {"off", "ask"}
        /\ Pinged(s, q)' => pc'[q] \notin {"off", "ask", "asking", "ping", "answered"}
    BY <1>3, <2>1
  <2>3. q \in held'[s] => q \in held[s]
    OBVIOUS
  <2>4. q \in held'[s] => /\ pc'[q] \notin {"off", "ask"}
                          /\ pc'[q] = "asking" => instances_asked'[q] = s
    BY <2>1, <2>2, <2>3
  <2>5. /\ Queued(s, q)' \/ Served(s, q)' => instances_asked'[q] = s
        /\ ~(Queued(s, q)' /\ Served(s, q)')
    BY <1>3, <2>1
  <2> QED
    BY <2>2, <2>4, <2>5
<1>7. ConnectionsRight'
  <2>1. \A s, q \in Processes :
          /\ Queued(s, q)' \/ Served(s, q)' => instances_asked'[q] = s
          /\ ~(Queued(s, q)' /\ Served(s, q)')
          /\ Pinged(s, q)' => pc'[q] \notin {"off", "ask", "asking", "ping", "answered"}
          /\ q \in held'[s] => /\ pc'[q] \notin {"off", "ask"}
                               /\ pc'[q] = "asking" => instances_asked'[q] = s
    BY <1>6
  <2> QED
    BY <1>4, <1>5, <2>1, Zenon DEF ConnectionsRight
<1> QED
  BY <1>3, <1>7

(* A process ends: its clients go on by themselves (Close, the end of a crashed process). *)
LEMMA EndKept ==
  ASSUME PeersKept, NEW p \in Processes, NEW how \in {"closed", "crashed"}, NEW rm \in BOOLEAN,
         Peers!End(p, how, rm), pc[p] \notin Peers!Ended, how = "crashed" \/ pc[p] = "closing",
         instances_asked' = instances_asked, instances_overlap' = instances_overlap,
         started' = started \/ started' = started \cup {p},
         ran' \in [Processes -> Seq(Processes)]
  PROVE  /\ PeersKept'
         /\ \A s, q \in Processes :
              /\ Queued(s, q)' <=> s # p /\ Queued(s, q)
              /\ Served(s, q)' <=> s # p /\ Served(s, q)
         /\ \A s \in Processes : s # p => serving'[s] = serving[s]
         /\ \A q \in Processes : /\ pc[q] \in Peers!Ended => pc'[q] \in Peers!Ended
                                 /\ pc'[q] = "answered" => pc[q] = "answered"
         /\ pc'[p] \in Peers!Ended
<1>1. /\ pc \in [Processes -> ProcessStates] /\ backlog \in [Processes -> Seq(Unserved)]
      /\ serving \in [Processes -> Connections \cup {Peers!NoOne}]
      /\ held \in [Processes -> SUBSET Processes]
      /\ listening \subseteq Processes /\ started \subseteq Processes
      /\ instances_asked \in [Processes -> {0} \cup Processes]
      /\ ran \in [Processes -> Seq(Processes)]
      /\ sock \in {0} \cup Processes
  BY DEF PeersKept, PeersTyped
<1>2. /\ pc' = [q \in Processes |->
                 IF q = p THEN how
                 ELSE IF ClientOf(p, q) /\ pc[q] \in {"asking", "pinging"}
                      THEN Peers!Refused(q) ELSE pc[q]]
      /\ listening' = listening \ {p}
      /\ backlog' = [backlog EXCEPT ![p] = <<>>]
      /\ serving' = [serving EXCEPT ![p] = Peers!NoOne]
      /\ held' = [held EXCEPT ![p] = {}]
      /\ sock' = (IF rm /\ p \in listening THEN 0 ELSE sock)
  <2>1. \A q \in Processes : q \in Peers!Clients(p) <=> ClientOf(p, q)
    BY ClientsRight DEF PeersKept
  <2> QED
    BY <2>1 DEF Peers!End
<1>3. \A q \in Processes :
        /\ pc[q] = "asking" => Peers!Refused(q) \in {"ping", "main"}
        /\ pc[q] = "pinging" => Peers!Refused(q) = "remove"
  BY DEF Peers!Refused
<1>4. pc'[p] = how /\ \A q \in Processes : q # p =>
        \/ pc'[q] = pc[q] /\ (pc[q] \in {"asking", "pinging"} => ~ClientOf(p, q))
        \/ ClientOf(p, q) /\ pc[q] = "asking" /\ pc'[q] \in {"ping", "main"}
        \/ ClientOf(p, q) /\ pc[q] = "pinging" /\ pc'[q] = "remove"
  BY <1>2, <1>3
<1>5. /\ \A s \in Processes : s # p => /\ backlog'[s] = backlog[s] /\ held'[s] = held[s]
                                       /\ serving'[s] = serving[s]
      /\ backlog'[p] = <<>> /\ held'[p] = {} /\ serving'[p] = Peers!NoOne
  BY <1>1, <1>2
<1>6. /\ ConnectionsRight'
      /\ \A s, q \in Processes :
           /\ ClientOf(s, q)' <=> s # p /\ ClientOf(s, q)
           /\ Queued(s, q)' <=> s # p /\ Queued(s, q)
           /\ Served(s, q)' <=> s # p /\ Served(s, q)
  <2>1. {p} \in SUBSET Processes /\ listening \ {p} \subseteq listening'
    BY <1>2
  <2>2. \A q \in Processes : /\ pc'[q] = "asking" => pc[q] = "asking"
                             /\ pc'[q] \in {"off", "ask"} => pc[q] \in {"off", "ask"}
                             /\ pc'[q] \in {"off", "ask", "asking", "ping", "answered"} =>
                                  pc[q] \in {"off", "ask", "asking", "ping", "answered"}
    BY <1>4
  <2>3. /\ \A s \in Processes : s \notin {p} => /\ backlog'[s] = backlog[s]
                                                /\ held'[s] = held[s]
                                                /\ serving'[s] = serving[s]
        /\ \A s \in {p} : /\ backlog'[s] = <<>> /\ held'[s] = {} /\ serving'[s] = Peers!NoOne
    BY <1>5
  <2>4. /\ ConnectionsRight'
        /\ \A s, q \in Processes :
             /\ ClientOf(s, q)' <=> s \notin {p} /\ ClientOf(s, q)
             /\ Queued(s, q)' <=> s \notin {p} /\ Queued(s, q)
             /\ Served(s, q)' <=> s \notin {p} /\ Served(s, q)
    BY <2>1, <2>2, <2>3, ConnectionsLeft
  <2> QED
    BY <2>4
<1>7. /\ \A q \in Processes : /\ pc[q] \in Peers!Ended => pc'[q] \in Peers!Ended
                              /\ pc'[q] = "answered" => pc[q] = "answered"
      /\ pc'[p] \in Peers!Ended
  BY <1>4 DEF Peers!Ended
<1>8. PeersTyped'
  <2>1. pc' \in [Processes -> ProcessStates]
    <3>1. \A q \in Processes : pc'[q] \in ProcessStates
      BY <1>1, <1>4 DEF ProcessStates
    <3> QED
      BY <1>2, <3>1
  <2>2. <<>> \in Seq(Unserved)
    OBVIOUS
  <2> QED
    BY <1>1, <1>2, <2>1, <2>2 DEF PeersTyped
<1>9. ProcessesRight'
  <2>1. ASSUME NEW q \in listening' PROVE pc'[q] \in {"main", "closing"}
    <3>1. q \in Processes /\ q # p /\ q \in listening
      BY <1>1, <1>2
    <3>2. pc[q] \in {"main", "closing"}
      BY <3>1 DEF PeersKept, ProcessesRight
    <3> QED
      BY <1>4, <3>1, <3>2
  <2>2. ASSUME NEW q \in started' PROVE pc'[q] \in {"main", "closing", "closed", "crashed"}
    <3>1. q = p \/ (q \in Processes /\ q # p /\ q \in started)
      BY <1>1
    <3>2. q \in started => pc[q] \in {"main", "closing", "closed", "crashed"}
      BY DEF PeersKept, ProcessesRight
    <3> QED
      BY <1>4, <3>1, <3>2
  <2>3. ASSUME NEW q \in Processes
        PROVE  /\ instances_asked'[q] # q
               /\ pc'[q] \in {"off", "ask"} => instances_asked'[q] = 0
               /\ instances_asked'[q] # 0
                  /\ pc'[q] \in {"ping", "pinging", "remove", "listen", "main", "closing", "closed"}
                    => pc'[instances_asked'[q]] \in Peers!Ended
    <3>1. /\ instances_asked[q] # q /\ instances_asked[q] \in {0} \cup Processes
          /\ pc[q] \in {"off", "ask"} => instances_asked[q] = 0
          /\ instances_asked[q] # 0
             /\ pc[q] \in {"ping", "pinging", "remove", "listen", "main", "closing", "closed"}
               => pc[instances_asked[q]] \in Peers!Ended
      BY <1>1 DEF PeersKept, ProcessesRight
    <3>2. pc'[q] \in {"off", "ask"} => pc[q] = pc'[q]
      BY <1>4
    <3>3. CASE ClientOf(p, q) /\ pc[q] = "asking"
      BY <1>7, <3>1, <3>2, <3>3, AskingRight
    <3>4. CASE ~(ClientOf(p, q) /\ pc[q] = "asking")
      <4>1. pc'[q] \in {"ping", "pinging", "remove", "listen", "main", "closing", "closed"} =>
              pc[q] \in {"ping", "pinging", "remove", "listen", "main", "closing", "closed"}
        BY <1>4, <3>4
      <4> QED
        BY <1>7, <3>1, <3>2, <4>1
    <3> QED
      BY <3>3, <3>4
  <2> QED
    BY <2>1, <2>2, <2>3 DEF ProcessesRight
<1>10. WaitersRight'
  <2> SUFFICES ASSUME NEW q \in Processes, pc'[q] \in {"asking", "pinging"}
               PROVE  \E s \in listening' : ClientOf(s, q)'
    BY DEF WaitersRight
  <2>1. q # p /\ pc[q] \in {"asking", "pinging"} /\ ~ClientOf(p, q)
    BY <1>4
  <2>2. PICK s \in listening : ClientOf(s, q)
    BY <2>1 DEF PeersKept, WaitersRight
  <2> QED
    BY <1>1, <1>2, <1>6, <2>1, <2>2
<1>11. SocketRight'
  <2> SUFFICES ASSUME ~instances_overlap
               PROVE  /\ \A s \in listening' : sock' = s
                      /\ \A q \in Processes : pc'[q] = "remove" => listening' = {}
    BY DEF SocketRight
  <2>1. /\ \A s \in listening : sock = s
        /\ \A q \in Processes : pc[q] = "remove" => listening = {}
    BY DEF PeersKept, SocketRight
  <2>2. \A s \in listening' : sock' = s
    BY <1>2, <2>1
  <2>3. ASSUME NEW q \in Processes, pc'[q] = "remove" PROVE listening' = {}
    <3>1. CASE pc[q] = "remove"
      BY <1>2, <2>1, <3>1
    <3>2. CASE pc[q] # "remove"
      <4>1. ClientOf(p, q)
        BY <1>4, <2>3, <3>2
      <4>2. p \in listening
        BY <4>1, ClientListens
      <4> QED
        BY <1>2, <2>1, <4>2
    <3> QED
      BY <3>1, <3>2
  <2> QED
    BY <2>2, <2>3
<1> QED
  BY <1>5, <1>6, <1>7, <1>8, <1>9, <1>10, <1>11 DEF PeersKept


(* A step that executes no command leaves true where the commands have run. *)
LEMMA RunsKept ==
  ASSUME RunsRight, ran' = ran, instances_asked' = instances_asked, started \subseteq started',
         \A s, q \in Processes :
           /\ Queued(s, q)' \/ (Served(s, q)' /\ ~serving'[s].done) =>
                Queued(s, q) \/ (Served(s, q) /\ ~serving[s].done)
           /\ Served(s, q)' /\ serving'[s].done => Served(s, q) /\ serving[s].done,
         \A q \in Processes :
           q \in started' /\ instances_asked[q] # 0 => pc'[instances_asked[q]] \in Peers!Ended,
         \A q \in Processes : pc'[q] = "answered" =>
           pc[q] = "answered" \/ (instances_asked[q] # 0 /\ ran[q] = <<instances_asked[q]>>)
  PROVE  RunsRight'
<1>1. ASSUME NEW s \in Processes, NEW q \in Processes
      PROVE  /\ Queued(s, q)' \/ (Served(s, q)' /\ ~serving'[s].done) => ran'[q] = <<>>
             /\ Served(s, q)' /\ serving'[s].done => ran'[q] = <<s>>
  BY DEF RunsRight
<1>2. ASSUME NEW q \in Processes
      PROVE  /\ \/ ran'[q] = <<>>
                \/ instances_asked'[q] # 0 /\ ran'[q] = <<instances_asked'[q]>>
                \/ q \in started' /\ ran'[q] = <<q>>
                \/ q \in started' /\ instances_asked'[q] # 0
                   /\ ran'[q] = <<instances_asked'[q], q>>
             /\ q \in started' /\ instances_asked'[q] # 0 =>
                  pc'[instances_asked'[q]] \in Peers!Ended
             /\ pc'[q] = "answered" =>
                  instances_asked'[q] # 0 /\ ran'[q] = <<instances_asked'[q]>>
  BY DEF RunsRight
<1> QED
  BY <1>1, <1>2 DEF RunsRight

LEMMA PairAppended ==
  ASSUME NEW S, NEW a \in S, NEW b \in S PROVE Append(<<a>>, b) = <<a, b>>
<1>1. <<a>> \in Seq(S) /\ Len(<<a>>) = 1 /\ <<a>>[1] = a
  OBVIOUS
<1>2. PICK r \in Seq(S) : r = <<a>> /\ Len(r) = 1 /\ r[1] = a
  BY <1>1
<1>3. PICK t \in Seq(S) : t = <<a, b>> /\ Len(t) = 2 /\ t[1] = a /\ t[2] = b
  <2>1. <<a, b>> \in Seq(S) /\ Len(<<a, b>>) = 2
    OBVIOUS
  <2>2. <<a, b>>[1] = a /\ <<a, b>>[2] = b
    OBVIOUS
  <2> QED
    BY <2>1, <2>2
<1>4. /\ Append(r, b) \in Seq(S) /\ Len(Append(r, b)) = 2
      /\ Append(r, b)[1] = a /\ Append(r, b)[2] = b
  <2>1. /\ Append(r, b) \in Seq(S) /\ Len(Append(r, b)) = Len(r) + 1
        /\ \A i \in 1..Len(r) : Append(r, b)[i] = r[i]
        /\ Append(r, b)[Len(r) + 1] = b
    BY AppendProperties
  <2> QED
    BY <1>2, <2>1
<1>5. Append(r, b) = t
  <2>1. \A i \in 1..Len(Append(r, b)) : Append(r, b)[i] = t[i]
    <3>1. \A i \in 1..2 : i = 1 \/ i = 2
      OBVIOUS
    <3> QED
      BY <1>3, <1>4, <3>1
  <2> QED
    BY <1>3, <1>4, <2>1, SeqEqual
<1> QED
  BY <1>2, <1>3, <1>5

(* A process executes a command: its own, or that of a process that asked it. *)
LEMMA RunsOne ==
  ASSUME RunsRight, PeersTyped, NEW p \in Processes, NEW c \in Processes,
         ran' = [ran EXCEPT ![c] = Append(@, p)],
         instances_asked' = instances_asked, started \subseteq started',
         \A s, q \in Processes : q # c =>
           /\ Queued(s, q)' => Queued(s, q)
           /\ Served(s, q)' => Served(s, q) /\ serving'[s] = serving[s],
         \A s \in Processes :
           /\ ~Queued(s, c)'
           /\ Served(s, c)' => s = p /\ serving'[s].done /\ ran[c] = <<>>,
         \A q \in Processes :
           q \in started' /\ instances_asked[q] # 0 => pc'[instances_asked[q]] \in Peers!Ended,
         \A q \in Processes : pc'[q] = "answered" => pc[q] = "answered", pc'[c] # "answered",
         \/ instances_asked[c] = p /\ ran[c] = <<>>
         \/ c = p /\ p \in started' /\ p \notin started
  PROVE  RunsRight'
<1>1. /\ ran \in [Processes -> Seq(Processes)] /\ ran'[c] = Append(ran[c], p) /\ p # 0
      /\ \A q \in Processes : q # c => ran'[q] = ran[q]
  BY ProcessesAssumption DEF PeersTyped
<1>2. Append(<<>>, p) = <<p>>
  OBVIOUS
<1>3. ASSUME NEW s \in Processes, NEW q \in Processes
      PROVE  /\ Queued(s, q)' \/ (Served(s, q)' /\ ~serving'[s].done) => ran'[q] = <<>>
             /\ Served(s, q)' /\ serving'[s].done => ran'[q] = <<s>>
  <2>1. CASE q = c
    BY <1>1, <1>2, <2>1
  <2>2. CASE q # c
    <3>1. Queued(s, q)' \/ (Served(s, q)' /\ ~serving'[s].done) => ran[q] = <<>>
      BY <2>2 DEF RunsRight
    <3>2. Served(s, q)' /\ serving'[s].done => ran[q] = <<s>>
      BY <2>2 DEF RunsRight
    <3> QED
      BY <1>1, <2>2, <3>1, <3>2
  <2> QED
    BY <2>1, <2>2
<1>4. ASSUME NEW q \in Processes
      PROVE  /\ \/ ran'[q] = <<>>
                \/ instances_asked'[q] # 0 /\ ran'[q] = <<instances_asked'[q]>>
                \/ q \in started' /\ ran'[q] = <<q>>
                \/ q \in started' /\ instances_asked'[q] # 0
                   /\ ran'[q] = <<instances_asked'[q], q>>
             /\ pc'[q] = "answered" =>
                  instances_asked'[q] # 0 /\ ran'[q] = <<instances_asked'[q]>>
  <2>1. CASE q # c
    BY <1>1, <2>1 DEF RunsRight
  <2>2. CASE q = c /\ instances_asked[c] = p /\ ran[c] = <<>>
    BY <1>1, <1>2, <2>2
  <2>3. CASE q = c /\ c = p /\ p \in started' /\ p \notin started
    <3>1. ran[p] = <<>> \/ (instances_asked[p] # 0 /\ ran[p] = <<instances_asked[p]>>)
      BY <2>3 DEF RunsRight
    <3>2. ASSUME instances_asked[p] # 0, ran[p] = <<instances_asked[p]>>
          PROVE  ran'[p] = <<instances_asked[p], p>>
      <4>1. PICK a \in Processes : a = instances_asked[p]
        BY <3>2 DEF PeersTyped
      <4>2. Append(<<a>>, p) = <<a, p>>
        BY PairAppended
      <4> QED
        BY <1>1, <2>3, <3>2, <4>1, <4>2
    <3> QED
      BY <1>1, <1>2, <2>3, <3>1, <3>2
  <2> QED
    BY <2>1, <2>2, <2>3
<1> QED
  BY <1>3, <1>4 DEF RunsRight

(* A process takes a step of its own, with its connections as they were. *)
LEMMA AloneRight ==
  ASSUME PeersIInv, NEW p \in Processes,
         pc[p] \in {"off", "ask", "ping", "remove", "listen", "main"},
         NEW new \in {"ask", "ping", "remove", "listen", "main", "closing"},
         new = "ask" => pc[p] = "off",
         new = "ping" => pc[p] \in {"off", "ask"},
         pc[p] = "main" => new \in {"main", "closing"},
         pc' = [pc EXCEPT ![p] = new],
         UNCHANGED <<backlog, serving, held, ran, instances_asked, started>>,
         listening' = listening \/ (listening' = listening \cup {p} /\ new = "main"),
         sock' \in {0} \cup Processes, SocketRight'
  PROVE  PeersIInv'
<1>1. /\ pc \in [Processes -> ProcessStates] /\ pc'[p] = new
      /\ \A q \in Processes : q # p => pc'[q] = pc[q]
      /\ listening \subseteq Processes /\ started \subseteq Processes
      /\ instances_asked \in [Processes -> {0} \cup Processes]
  BY DEF PeersIInv, PeersKept, PeersTyped
<1>2. PeersKept
  BY DEF PeersIInv
<1>3. PeersTyped'
  <2>1. new \in ProcessStates
    BY DEF ProcessStates
  <2> QED
    BY <1>2, <2>1 DEF PeersKept, PeersTyped
<1>4. /\ ConnectionsRight'
      /\ \A s, q \in Processes :
           /\ ClientOf(s, q)' <=> ClientOf(s, q)
           /\ Queued(s, q)' <=> Queued(s, q)
           /\ Served(s, q)' <=> Served(s, q)
  <2>1. {} \in SUBSET Processes /\ listening \ {} \subseteq listening'
    OBVIOUS
  <2>2. \A q \in Processes : /\ pc'[q] = "asking" => pc[q] = "asking"
                             /\ pc'[q] \in {"off", "ask"} => pc[q] \in {"off", "ask"}
                             /\ pc'[q] \in {"off", "ask", "asking", "ping", "answered"} =>
                                  pc[q] \in {"off", "ask", "asking", "ping", "answered"}
    BY <1>1
  <2>3. /\ \A s \in Processes : s \notin {} => /\ backlog'[s] = backlog[s]
                                               /\ held'[s] = held[s]
                                               /\ serving'[s] = serving[s]
        /\ \A s \in {} : /\ backlog'[s] = <<>> /\ held'[s] = {} /\ serving'[s] = Peers!NoOne
    OBVIOUS
  <2>4. /\ ConnectionsRight'
        /\ \A s, q \in Processes :
             /\ ClientOf(s, q)' <=> s \notin {} /\ ClientOf(s, q)
             /\ Queued(s, q)' <=> s \notin {} /\ Queued(s, q)
             /\ Served(s, q)' <=> s \notin {} /\ Served(s, q)
    BY <1>2, <2>1, <2>2, <2>3, ConnectionsLeft
  <2> QED
    BY <2>4
<1>5. \A q \in Processes : /\ pc[q] \in Peers!Ended <=> pc'[q] \in Peers!Ended
                           /\ pc'[q] = "answered" => pc[q] = "answered"
  BY <1>1 DEF Peers!Ended
<1>6. \A q \in Processes : /\ instances_asked[q] # q /\ instances_asked[q] \in {0} \cup Processes
                           /\ pc[q] \in {"off", "ask"} => instances_asked[q] = 0
  BY <1>1, <1>2 DEF PeersKept, ProcessesRight
<1>7. \A q \in Processes :
        instances_asked[q] # 0
        /\ pc'[q] \in {"ping", "pinging", "remove", "listen", "main", "closing", "closed"} =>
          pc[instances_asked[q]] \in Peers!Ended
  <2>1. \A q \in Processes :
          instances_asked[q] # 0
          /\ pc[q] \in {"ping", "pinging", "remove", "listen", "main", "closing", "closed"} =>
            pc[instances_asked[q]] \in Peers!Ended
    BY <1>2 DEF PeersKept, ProcessesRight
  <2> QED
    BY <1>1, <1>6, <2>1
<1>8. ProcessesRight'
  <2>1. \A q \in listening' : pc'[q] \in {"main", "closing"}
    <3>1. \A q \in listening : pc[q] \in {"main", "closing"}
      BY <1>2 DEF PeersKept, ProcessesRight
    <3> QED
      BY <1>1, <3>1
  <2>2. \A q \in started' : pc'[q] \in {"main", "closing", "closed", "crashed"}
    <3>1. \A q \in started : pc[q] \in {"main", "closing", "closed", "crashed"}
      BY <1>2 DEF PeersKept, ProcessesRight
    <3> QED
      BY <1>1, <3>1
  <2>3. \A q \in Processes :
          /\ instances_asked'[q] # q
          /\ pc'[q] \in {"off", "ask"} => instances_asked'[q] = 0
    BY <1>1, <1>6
  <2> QED
    BY <1>5, <1>6, <1>7, <2>1, <2>2, <2>3 DEF ProcessesRight
<1>9. WaitersRight'
  <2> SUFFICES ASSUME NEW q \in Processes, pc'[q] \in {"asking", "pinging"}
               PROVE  \E s \in listening' : ClientOf(s, q)'
    BY DEF WaitersRight
  <2>1. PICK s \in listening : ClientOf(s, q)
    BY <1>1, <1>2 DEF PeersKept, WaitersRight
  <2> QED
    BY <1>1, <1>4, <2>1
<1>10. RunsRight'
  <2>1. RunsRight
    BY DEF PeersIInv
  <2>2. \A q \in Processes :
          q \in started' /\ instances_asked[q] # 0 => pc'[instances_asked[q]] \in Peers!Ended
    BY <1>5, <1>6, <2>1 DEF RunsRight
  <2>3. \A s, q \in Processes :
          /\ Queued(s, q)' \/ (Served(s, q)' /\ ~serving'[s].done) =>
               Queued(s, q) \/ (Served(s, q) /\ ~serving[s].done)
          /\ Served(s, q)' /\ serving'[s].done => Served(s, q) /\ serving[s].done
    BY <1>4
  <2> QED
    BY <1>5, <2>1, <2>2, <2>3, RunsKept
<1> QED
  BY <1>3, <1>4, <1>8, <1>9, <1>10 DEF PeersIInv, PeersKept


(* Nothing that the invariant speaks of changes. *)
LEMMA PeersSame ==
  ASSUME PeersIInv,
         UNCHANGED <<pc, sock, listening, started, backlog, serving, held, ran, instances_asked,
                     instances_overlap>>
  PROVE  PeersIInv'
<1>1. \A s, q \in Processes : /\ ClientOf(s, q)' <=> ClientOf(s, q)
                              /\ Queued(s, q)' <=> Queued(s, q)
                              /\ Served(s, q)' <=> Served(s, q)
                              /\ Pinged(s, q)' <=> Pinged(s, q)
  BY DEF ClientOf, Waiting, Queued, Served, Pinged
<1>2. PeersTyped' /\ ProcessesRight' /\ SocketRight'
  BY DEF PeersIInv, PeersKept, PeersTyped, ProcessesRight, SocketRight
<1>3. ConnectionsRight'
  BY <1>1 DEF PeersIInv, PeersKept, ConnectionsRight
<1>4. WaitersRight'
  BY <1>1, Zenon DEF PeersIInv, PeersKept, WaitersRight, PeersTyped
<1>5. RunsRight'
  BY <1>1 DEF PeersIInv, RunsRight
<1> QED
  BY <1>2, <1>3, <1>4, <1>5 DEF PeersIInv, PeersKept

LEMMA StepLaunch == ASSUME PeersIInv, NEW p \in Processes, Peers!Launch(p) PROVE PeersIInv'
<1>1. PICK new \in {"ask", "ping", "main"} : pc' = [pc EXCEPT ![p] = new]
  BY DEF Peers!Launch
<1>2. pc \in [Processes -> ProcessStates] /\ pc[p] = "off" /\ sock \in {0} \cup Processes
  BY DEF PeersIInv, PeersKept, PeersTyped, Peers!Launch
<1>3. SocketRight'
  BY <1>1, <1>2 DEF PeersIInv, PeersKept, SocketRight, Peers!Launch
<1> QED
  BY <1>1, <1>2, <1>3, AloneRight DEF Peers!Launch

(* The one that asks when no one listens: ConnectAndExec fails. *)
LEMMA StepRefused ==
  ASSUME PeersIInv, NEW p \in Processes, Peers!ConnectAndExec(p), sock \notin listening
  PROVE  PeersIInv'
<1>1. pc[p] \in {"ask", "ping"} /\ pc' = [pc EXCEPT ![p] = Peers!Refused(p)]
      /\ UNCHANGED <<sock, listening, started, backlog, serving, held, ran, instances_asked,
                     instances_overlap>>
  BY DEF Peers!ConnectAndExec
<1>2. PICK new \in {"ping", "main", "remove"} :
        new = Peers!Refused(p) /\ (new = "ping" => pc[p] = "ask")
  BY <1>1 DEF Peers!Refused
<1>3. pc \in [Processes -> ProcessStates] /\ sock \in {0} \cup Processes
  BY DEF PeersIInv, PeersKept, PeersTyped
<1>4. SocketRight'
  <2>1. ~instances_overlap => listening = {}
    BY DEF PeersIInv, PeersKept, SocketRight
  <2> QED
    BY <1>1, <2>1 DEF SocketRight
<1> QED
  BY <1>1, <1>2, <1>3, <1>4, AloneRight

LEMMA StepRemoveStale ==
  ASSUME PeersIInv, NEW p \in Processes, Peers!RemoveStale(p) PROVE PeersIInv'
<1>1. pc[p] = "remove" /\ pc' = [pc EXCEPT ![p] = "listen"] /\ sock' = 0
      /\ UNCHANGED <<listening, started, backlog, serving, held, ran, instances_asked,
                     instances_overlap>>
  BY DEF Peers!RemoveStale
<1>2. SocketRight'
  <2>1. ~instances_overlap => listening = {}
    BY <1>1 DEF PeersIInv, PeersKept, SocketRight
  <2> QED
    BY <1>1, <2>1 DEF SocketRight
<1> QED
  BY <1>1, <1>2, AloneRight

LEMMA StepStartServer ==
  ASSUME PeersIInv, NEW p \in Processes, Peers!StartServer(p) PROVE PeersIInv'
<1>1. pc[p] = "listen" /\ pc' = [pc EXCEPT ![p] = "main"]
      /\ UNCHANGED <<started, backlog, serving, held, ran, instances_asked>>
  BY DEF Peers!StartServer
<1>2. pc \in [Processes -> ProcessStates] /\ sock \in {0} \cup Processes
      /\ listening \subseteq Processes
  BY DEF PeersIInv, PeersKept, PeersTyped
<1>3. \A q \in Processes : pc'[q] = "remove" => pc[q] = "remove" /\ q # p
  BY <1>1, <1>2
<1>4. CASE sock = 0
  <2>1. /\ sock' = p /\ listening' = listening \cup {p}
        /\ instances_overlap' = (instances_overlap
                                 \/ \E q \in Processes \ {p} : pc[q] = "remove")
    BY <1>4 DEF Peers!StartServer
  <2>2. SocketRight'
    <3> SUFFICES ASSUME ~instances_overlap'
                 PROVE  /\ \A s \in listening' : sock' = s
                        /\ \A q \in Processes : pc'[q] = "remove" => listening' = {}
      BY DEF SocketRight
    <3>1. ~instances_overlap /\ \A q \in Processes \ {p} : pc[q] # "remove"
      BY <2>1
    <3>2. \A s \in listening : s = 0
      BY <1>4, <3>1 DEF PeersIInv, PeersKept, SocketRight
    <3>3. listening = {}
      BY <1>2, <3>2, ProcessesAssumption
    <3> QED
      BY <1>3, <2>1, <3>1, <3>3
  <2> QED
    BY <1>1, <1>2, <2>1, <2>2, AloneRight
<1>5. CASE sock # 0
  <2>1. UNCHANGED <<sock, listening, instances_overlap>>
    BY <1>5 DEF Peers!StartServer
  <2>2. SocketRight'
    BY <1>3, <2>1 DEF PeersIInv, PeersKept, SocketRight
  <2> QED
    BY <1>1, <1>2, <2>1, <2>2, AloneRight
<1> QED
  BY <1>4, <1>5

LEMMA StepEndLoop == ASSUME PeersIInv, NEW p \in Processes, Peers!EndLoop(p) PROVE PeersIInv'
<1>1. pc[p] = "main" /\ pc' = [pc EXCEPT ![p] = "closing"]
      /\ UNCHANGED <<sock, listening, started, backlog, serving, held, ran, instances_asked,
                     instances_overlap>>
  BY DEF Peers!EndLoop
<1>2. pc \in [Processes -> ProcessStates] /\ sock \in {0} \cup Processes
  BY DEF PeersIInv, PeersKept, PeersTyped
<1>3. SocketRight'
  BY <1>1, <1>2 DEF PeersIInv, PeersKept, SocketRight
<1> QED
  BY <1>1, <1>2, <1>3, AloneRight

(* A process ends and executes nothing. *)
LEMMA EndRight ==
  ASSUME PeersIInv, NEW p \in Processes, NEW how \in {"closed", "crashed"}, NEW rm \in BOOLEAN,
         Peers!End(p, how, rm), pc[p] \notin Peers!Ended, how = "crashed" \/ pc[p] = "closing",
         UNCHANGED <<instances_asked, instances_overlap, started, ran>>
  PROVE  PeersIInv'
<1>1. PeersKept /\ RunsRight /\ ran' \in [Processes -> Seq(Processes)]
      /\ instances_asked \in [Processes -> {0} \cup Processes]
  BY DEF PeersIInv, PeersKept, PeersTyped
<1>2. /\ PeersKept'
      /\ \A s, q \in Processes :
           /\ Queued(s, q)' <=> s # p /\ Queued(s, q)
           /\ Served(s, q)' <=> s # p /\ Served(s, q)
      /\ \A s \in Processes : s # p => serving'[s] = serving[s]
      /\ \A q \in Processes : /\ pc[q] \in Peers!Ended => pc'[q] \in Peers!Ended
                              /\ pc'[q] = "answered" => pc[q] = "answered"
  BY <1>1, EndKept
<1>3. \A s, q \in Processes :
        /\ Queued(s, q)' \/ (Served(s, q)' /\ ~serving'[s].done) =>
             Queued(s, q) \/ (Served(s, q) /\ ~serving[s].done)
        /\ Served(s, q)' /\ serving'[s].done => Served(s, q) /\ serving[s].done
  BY <1>2
<1>4. \A q \in Processes :
        q \in started' /\ instances_asked[q] # 0 => pc'[instances_asked[q]] \in Peers!Ended
  BY <1>1, <1>2 DEF RunsRight
<1> QED
  BY <1>1, <1>2, <1>3, <1>4, RunsKept DEF PeersIInv

(* :quit and the signals, when ui.Exit was not called before, and when it was. *)
LEMMA StepQuit == ASSUME PeersIInv, NEW p \in Processes, Peers!Quit(p) PROVE PeersIInv'
<1>1. pc[p] \in {"main", "closing"} /\ Peers!Exit(p, serving)
      /\ UNCHANGED <<started, ran, instances_asked, instances_overlap>>
  BY DEF Peers!Quit
<1>2. CASE quits[p] = 0
  <2>1. serving' = serving /\ UNCHANGED <<pc, listening, backlog, held, sock>>
    BY <1>1, <1>2 DEF Peers!Exit
  <2> QED
    BY <1>1, <2>1, PeersSame
<1>3. CASE quits[p] # 0
  <2>1. Peers!End(p, "crashed", FALSE)
    BY <1>1, <1>3 DEF Peers!Exit
  <2>2. pc[p] \notin Peers!Ended
    BY <1>1 DEF Peers!Ended
  <2> QED
    BY <1>1, <2>1, <2>2, EndRight
<1> QED
  BY <1>2, <1>3

LEMMA StepListenerClose == ASSUME PeersIInv, NEW p \in Processes, Peers!Close(p) PROVE PeersIInv'
<1>1. pc[p] = "closing" /\ Peers!End(p, "closed", TRUE)
      /\ UNCHANGED <<started, ran, instances_asked, instances_overlap>>
  BY DEF Peers!Close
<1>2. pc[p] \notin Peers!Ended
  BY <1>1 DEF Peers!Ended
<1> QED
  BY <1>1, <1>2, EndRight

LEMMA StepCrash == ASSUME PeersIInv, NEW p \in Processes, Peers!Crash(p) PROVE PeersIInv'
<1>1. pc[p] \notin Peers!Ended /\ Peers!End(p, "crashed", FALSE)
      /\ UNCHANGED <<started, ran, instances_asked, instances_overlap>>
  BY DEF Peers!Crash
<1> QED
  BY <1>1, EndRight


(* A step of the main loop that keeps the process leaves its connections as they were. *)
LEMMA ServeRight ==
  ASSUME PeersKept,
         UNCHANGED <<pc, sock, listening, backlog, held, instances_asked, instances_overlap>>,
         serving' \in [Processes -> Connections \cup {Peers!NoOne}],
         \A s \in Processes : /\ serving'[s] # Peers!NoOne => serving[s] # Peers!NoOne
                              /\ serving'[s].from = serving[s].from
                              /\ serving'[s].ping <=> serving[s].ping,
         NEW p \in Processes, pc[p] = "main" \/ started' = started,
         started' = started \/ started' = started \cup {p},
         ran' \in [Processes -> Seq(Processes)]
  PROVE  /\ PeersKept'
         /\ \A s, q \in Processes : /\ Queued(s, q)' <=> Queued(s, q)
                                    /\ Served(s, q)' <=> Served(s, q)
<1>1. \A s, q \in Processes : /\ ClientOf(s, q)' <=> ClientOf(s, q)
                              /\ Queued(s, q)' <=> Queued(s, q)
                              /\ Served(s, q)' <=> Served(s, q)
                              /\ Pinged(s, q)' <=> Pinged(s, q)
  BY DEF ClientOf, Waiting, Queued, Served, Pinged
<1>2. PeersTyped'
  BY DEF PeersKept, PeersTyped
<1>3. ConnectionsRight'
  <2>1. \A s \in Processes :
          backlog'[s] # <<>> \/ serving'[s] # Peers!NoOne \/ held'[s] # {} => s \in listening'
    BY DEF PeersKept, ConnectionsRight
  <2> QED
    BY <1>1, <2>1 DEF PeersKept, ConnectionsRight
<1>4. ProcessesRight'
  BY DEF PeersKept, ProcessesRight
<1>5. WaitersRight'
  BY <1>1, Zenon DEF PeersKept, WaitersRight, PeersTyped
<1>6. SocketRight'
  BY DEF PeersKept, SocketRight
<1> QED
  BY <1>1, <1>2, <1>3, <1>4, <1>5, <1>6 DEF PeersKept

(* Before its startup is done no process has a command with a process that lives. *)
LEMMA NotStarted ==
  ASSUME PeersKept, NEW p \in Processes, pc[p] = "main", NEW s \in Processes
  PROVE  ~Queued(s, p) /\ ~Served(s, p)
<1> SUFFICES ASSUME Queued(s, p) \/ Served(s, p) PROVE FALSE
  OBVIOUS
<1>1. ClientOf(s, p)
  BY DEF Queued, Served, ClientOf, Waiting
<1>2. s \in listening /\ pc[s] \in {"main", "closing"}
  BY <1>1, ClientListens DEF PeersKept, ProcessesRight
<1>3. instances_asked[p] = s /\ s # 0
  BY ProcessesAssumption DEF PeersKept, ConnectionsRight
<1> QED
  BY <1>2, <1>3 DEF PeersKept, ProcessesRight, Peers!Ended

(* The first message of a worker: the process executes its own command, if it did not hand it *)
(* over.                                                                                      *)
LEMMA StepEndStartup ==
  ASSUME PeersIInv, NEW p \in Processes, Peers!endStartup(p) PROVE PeersIInv'
<1>1. pc[p] = "main" /\ p \notin started /\ started' = started \cup {p}
      /\ UNCHANGED <<instances_asked, instances_overlap>>
  BY DEF Peers!endStartup
<1>2. PeersKept /\ RunsRight /\ PeersTyped
      /\ ran \in [Processes -> Seq(Processes)]
      /\ serving \in [Processes -> Connections \cup {Peers!NoOne}]
      /\ instances_asked \in [Processes -> {0} \cup Processes]
  BY DEF PeersIInv, PeersKept, PeersTyped
<1>3. \A q \in Processes :
        q \in started' /\ instances_asked[q] # 0 => pc[instances_asked[q]] \in Peers!Ended
  BY <1>1, <1>2 DEF PeersKept, ProcessesRight, RunsRight
<1>4. CASE launch[p].does = "nothing"
  <2>1. serving' = serving /\ UNCHANGED <<pc, sock, listening, backlog, held, ran>>
    BY <1>4 DEF Peers!endStartup, Peers!Nothing
  <2>2. /\ PeersKept'
        /\ \A s, q \in Processes : /\ Queued(s, q)' <=> Queued(s, q)
                                   /\ Served(s, q)' <=> Served(s, q)
    BY <1>1, <1>2, <2>1, ServeRight
  <2>3. RunsRight'
    BY <1>1, <1>2, <1>3, <2>1, <2>2, RunsKept
  <2> QED
    BY <2>2, <2>3 DEF PeersIInv
<1>5. CASE launch[p].does # "nothing"
  <2>1. ran' = [ran EXCEPT ![p] = Append(@, p)]
    BY <1>5 DEF Peers!endStartup, Peers!Command
  <2>2. ran' \in [Processes -> Seq(Processes)]
    BY <1>2, <2>1
  <2>3. \A s \in Processes : ~Queued(s, p) /\ ~Served(s, p)
    BY <1>1, <1>2, NotStarted
  <2>4. CASE serving' = serving /\ UNCHANGED <<pc, sock, listening, backlog, held>>
    <3>1. /\ PeersKept'
          /\ \A s, q \in Processes : /\ Queued(s, q)' <=> Queued(s, q)
                                     /\ Served(s, q)' <=> Served(s, q)
      BY <1>1, <1>2, <2>2, <2>4, ServeRight
    <3>2. RunsRight'
      BY <1>1, <1>2, <1>3, <2>1, <2>3, <2>4, <3>1, RunsOne
    <3> QED
      BY <3>1, <3>2 DEF PeersIInv
  <2>5. CASE Peers!End(p, "crashed", FALSE)
    <3>1. pc[p] \notin Peers!Ended
      BY <1>1 DEF Peers!Ended
    <3>2. /\ PeersKept'
          /\ \A s, q \in Processes :
               /\ Queued(s, q)' <=> s # p /\ Queued(s, q)
               /\ Served(s, q)' <=> s # p /\ Served(s, q)
          /\ \A s \in Processes : s # p => serving'[s] = serving[s]
          /\ \A q \in Processes : /\ pc[q] \in Peers!Ended => pc'[q] \in Peers!Ended
                                  /\ pc'[q] = "answered" => pc[q] = "answered"
      BY <1>1, <1>2, <2>2, <2>5, <3>1, EndKept
    <3>3. \A q \in Processes :
            q \in started' /\ instances_asked[q] # 0 => pc'[instances_asked[q]] \in Peers!Ended
      BY <1>2, <1>3, <3>2
    <3>4. RunsRight'
      BY <1>1, <1>2, <2>1, <2>3, <3>2, <3>3, RunsOne
    <3> QED
      BY <3>2, <3>4 DEF PeersIInv
  <2>6. Peers!Command(p, p, serving)
    BY <1>5 DEF Peers!endStartup
  <2> QED
    BY <2>4, <2>5, <2>6, Zenon DEF Peers!Command, Peers!Exit
<1> QED
  BY <1>4, <1>5

(* Serve executes the command of the connection it reads. *)
LEMMA StepHandleMessage ==
  ASSUME PeersIInv, NEW p \in Processes, Peers!handleMessage(p) PROVE PeersIInv'
<1> DEFINE now == [serving EXCEPT ![p].done = TRUE]
<1>1. ~serving[p].done /\ UNCHANGED <<started, instances_asked, instances_overlap>>
  BY DEF Peers!handleMessage
<1>2. PeersKept /\ RunsRight /\ PeersTyped
      /\ ran \in [Processes -> Seq(Processes)]
      /\ serving \in [Processes -> Connections \cup {Peers!NoOne}]
      /\ instances_asked \in [Processes -> {0} \cup Processes]
  BY DEF PeersIInv, PeersKept, PeersTyped
<1>3. serving[p] \in Connections /\ serving[p].from \in Processes
  <2>1. Peers!NoOne.done
    BY DEF Peers!NoOne
  <2>2. serving[p] \in Connections
    BY <1>1, <1>2, <2>1
  <2> QED
    BY <2>2 DEF Connections
<1>c. PICK c \in Processes : c = serving[p].from
  BY <1>3
<1>4. /\ now \in [Processes -> Connections \cup {Peers!NoOne}]
      /\ \A s \in Processes : s # p => now[s] = serving[s]
      /\ now[p].from = serving[p].from /\ now[p].done
      /\ now[p].ping <=> serving[p].ping
  <2>1. PICK r \in Connections : r = serving[p]
    BY <1>3
  <2>2. [r EXCEPT !.done = TRUE] \in Connections
    BY DEF Connections
  <2>3. now[p] = [r EXCEPT !.done = TRUE]
    BY <1>2, <2>1
  <2>4. /\ [r EXCEPT !.done = TRUE].from = r.from /\ [r EXCEPT !.done = TRUE].done
        /\ [r EXCEPT !.done = TRUE].ping = r.ping
    BY DEF Connections
  <2>5. now[p].from = serving[p].from /\ now[p].done /\ now[p].ping = serving[p].ping
    BY <2>1, <2>3, <2>4, Zenon
  <2> QED
    BY <1>2, <2>2, <2>3, <2>5
<1>5. /\ \A s \in Processes : /\ now[s] # Peers!NoOne => serving[s] # Peers!NoOne
                              /\ now[s].from = serving[s].from
                              /\ now[s].ping <=> serving[s].ping
  <2>1. serving[p] # Peers!NoOne
    BY <1>1 DEF Peers!NoOne
  <2> QED
    BY <1>4, <2>1
<1>6. p \in listening /\ pc[p] \in {"main", "closing"}
  <2>1. serving[p] # Peers!NoOne
    BY <1>1 DEF Peers!NoOne
  <2> QED
    BY <1>2, <2>1 DEF PeersKept, ConnectionsRight, ProcessesRight
<1>7. \A q \in Processes :
        q \in started' /\ instances_asked[q] # 0 => pc[instances_asked[q]] \in Peers!Ended
  BY <1>1, <1>2 DEF RunsRight
<1>8. CASE serving[p].ping
  <2>1. serving' = now /\ UNCHANGED <<pc, sock, listening, backlog, held, ran>>
    BY <1>8 DEF Peers!handleMessage, Peers!Nothing
  <2>2. /\ PeersKept'
        /\ \A s, q \in Processes : /\ Queued(s, q)' <=> Queued(s, q)
                                   /\ Served(s, q)' <=> Served(s, q)
    BY <1>1, <1>2, <1>4, <1>5, <2>1, ServeRight
  <2>3. \A s, q \in Processes : Served(s, q) => s # p
    BY <1>8 DEF Served
  <2>4. \A s, q \in Processes : Served(s, q)' => serving'[s] = serving[s]
    BY <1>4, <2>1, <2>2, <2>3
  <2>5. RunsRight'
    BY <1>1, <1>2, <1>7, <2>1, <2>2, <2>4, RunsKept
  <2> QED
    BY <2>2, <2>5 DEF PeersIInv
<1>9. CASE ~serving[p].ping
  <2>1. Peers!Command(p, c, now)
    BY <1>9, <1>c DEF Peers!handleMessage
  <2>2. ran' = [ran EXCEPT ![c] = Append(@, p)]
    BY <2>1 DEF Peers!Command
  <2>3. ran' \in [Processes -> Seq(Processes)]
    BY <1>2, <1>3, <2>2
  <2>4. Served(p, c)
    BY <1>9, <1>c DEF Served
  <2>5. instances_asked[c] = p /\ ran[c] = <<>>
    BY <1>1, <1>2, <1>3, <2>4 DEF PeersKept, ConnectionsRight, RunsRight
  <2>6. \A s \in Processes : /\ ~Queued(s, c)
                             /\ Served(s, c) => s = p
    <3> SUFFICES ASSUME NEW s \in Processes PROVE ~Queued(s, c) /\ (Served(s, c) => s = p)
      OBVIOUS
    <3>1. Queued(s, c) \/ Served(s, c) => instances_asked[c] = s
      BY <1>2 DEF PeersKept, ConnectionsRight
    <3>2. ~(Queued(s, c) /\ Served(s, c))
      BY <1>2 DEF PeersKept, ConnectionsRight
    <3>3. s = p => Served(s, c)
      BY <2>4
    <3> QED
      BY <2>5, <3>1, <3>2, <3>3
  <2>7. pc[c] # "answered"
    <3>1. pc[c] = "answered" => ran[c] = <<p>>
      BY <1>2, <2>5 DEF RunsRight
    <3>2. <<p>> # <<>>
      OBVIOUS
    <3> QED
      BY <2>5, <3>1, <3>2
  <2>8. CASE serving' = now /\ UNCHANGED <<pc, sock, listening, backlog, held>>
    <3>1. /\ PeersKept'
          /\ \A s, q \in Processes : /\ Queued(s, q)' <=> Queued(s, q)
                                     /\ Served(s, q)' <=> Served(s, q)
      BY <1>1, <1>2, <1>4, <1>5, <2>3, <2>8, ServeRight
    <3>2. \A s, q \in Processes : q # c =>
            /\ Queued(s, q)' => Queued(s, q)
            /\ Served(s, q)' => Served(s, q) /\ serving'[s] = serving[s]
      <4>1. \A q \in Processes : Served(p, q) => q = c
        BY <1>c DEF Served
      <4> QED
        BY <1>4, <2>8, <3>1, <4>1
    <3>3. \A s \in Processes :
            /\ ~Queued(s, c)'
            /\ Served(s, c)' => s = p /\ serving'[s].done /\ ran[c] = <<>>
      <4>1. \A s \in Processes : s = p => serving'[s].done
        BY <1>4, <2>8
      <4> QED
        BY <2>5, <2>6, <3>1, <4>1
    <3>4. RunsRight'
      <4>1. /\ \A q \in Processes :
                 q \in started' /\ instances_asked[q] # 0 => pc'[instances_asked[q]] \in Peers!Ended
            /\ \A q \in Processes : pc'[q] = "answered" => pc[q] = "answered"
            /\ pc'[c] # "answered"
        BY <1>7, <2>7, <2>8
      <4>2. instances_asked' = instances_asked /\ started \subseteq started'
        BY <1>1
      <4> QED
        BY <1>2, <2>2, <2>5, <3>2, <3>3, <4>1, <4>2, RunsOne
    <3> QED
      BY <3>1, <3>4 DEF PeersIInv
  <2>9. CASE Peers!End(p, "crashed", FALSE)
    <3>1. pc[p] \notin Peers!Ended
      BY <1>6 DEF Peers!Ended
    <3>2. /\ PeersKept'
          /\ \A s, q \in Processes :
               /\ Queued(s, q)' <=> s # p /\ Queued(s, q)
               /\ Served(s, q)' <=> s # p /\ Served(s, q)
          /\ \A s \in Processes : s # p => serving'[s] = serving[s]
          /\ \A q \in Processes : /\ pc[q] \in Peers!Ended => pc'[q] \in Peers!Ended
                                  /\ pc'[q] = "answered" => pc[q] = "answered"
      BY <1>1, <1>2, <2>3, <2>9, <3>1, EndKept
    <3>3. \A q \in Processes :
            q \in started' /\ instances_asked[q] # 0 => pc'[instances_asked[q]] \in Peers!Ended
      BY <1>2, <1>7, <3>2
    <3>4. \A s \in Processes : ~Queued(s, c)' /\ ~Served(s, c)'
      BY <1>3, <2>6, <3>2
    <3>5. pc'[c] # "answered"
      BY <1>3, <2>7, <3>2
    <3>6. \A s, q \in Processes : q # c =>
            /\ Queued(s, q)' => Queued(s, q)
            /\ Served(s, q)' => Served(s, q) /\ serving'[s] = serving[s]
      BY <3>2
    <3>7. RunsRight'
      BY <1>1, <1>2, <1>3, <2>2, <2>5, <3>2, <3>3, <3>4, <3>5, <3>6, RunsOne
    <3> QED
      BY <3>2, <3>7 DEF PeersIInv
  <2>10. \/ serving' = now /\ UNCHANGED <<pc, sock, listening, backlog, held>>
         \/ Peers!End(p, "crashed", FALSE)
    BY <2>1, Zenon DEF Peers!Command, Peers!Exit
  <2> QED
    BY <2>8, <2>9, <2>10
<1> QED
  BY <1>8, <1>9


(* Connections change their places, and no process takes a step. *)
LEMMA MovedRight ==
  ASSUME PeersKept, PeersTyped', ConnectionsRight',
         UNCHANGED <<pc, sock, listening, started, ran, instances_asked, instances_overlap>>,
         \A s, q \in Processes : ClientOf(s, q) => ClientOf(s, q)'
  PROVE  PeersKept'
<1>1. ProcessesRight'
  BY DEF PeersKept, ProcessesRight
<1>2. WaitersRight'
  <2>1. \A s \in listening : s \in Processes
    BY DEF PeersKept, PeersTyped
  <2> QED
    BY <2>1, Zenon DEF PeersKept, WaitersRight
<1>3. SocketRight'
  BY DEF PeersKept, SocketRight
<1> QED
  BY <1>1, <1>2, <1>3 DEF PeersKept

(* Serve takes the oldest connection. *)
LEMMA StepAccept == ASSUME PeersIInv, NEW p \in Processes, Peers!Accept(p) PROVE PeersIInv'
<1>1. /\ p \in listening /\ serving[p] = Peers!NoOne /\ backlog[p] # <<>>
      /\ serving' = [serving EXCEPT ![p] = Head(backlog[p])]
      /\ backlog' = [backlog EXCEPT ![p] = Tail(@)]
      /\ UNCHANGED <<pc, sock, listening, started, held, ran, instances_asked,
                     instances_overlap>>
  BY DEF Peers!Accept
<1>2. PeersKept /\ RunsRight /\ PeersTyped
      /\ backlog \in [Processes -> Seq(Unserved)]
      /\ serving \in [Processes -> Connections \cup {Peers!NoOne}]
      /\ instances_asked \in [Processes -> {0} \cup Processes]
  BY DEF PeersIInv, PeersKept, PeersTyped
<1>3. PICK b \in Seq(Unserved) : b = backlog[p]
  BY <1>2
<1>4. /\ b # <<>> /\ Len(b) \in Nat \ {0} /\ Head(b) = b[1] /\ Head(b) \in Unserved
      /\ Tail(b) \in Seq(Unserved) /\ Len(Tail(b)) = Len(b) - 1
      /\ \A i \in 1..Len(Tail(b)) : Tail(b)[i] = b[i + 1]
  BY <1>1, <1>3
<1>5. PICK h \in Unserved : h = b[1]
  BY <1>4
<1>6. PICK t \in Seq(Unserved) : t = Tail(b)
  BY <1>4
<1>7. /\ Len(b) \in Nat \ {0} /\ Len(t) = Len(b) - 1
      /\ \A i \in 1..Len(t) : t[i] = b[i + 1] /\ i + 1 \in 1..Len(b) /\ i + 1 # 1
      /\ \A i \in 1..Len(b) : i = 1 \/ (i - 1 \in 1..Len(t) /\ t[i - 1] = b[i])
      /\ 1 \in 1..Len(b)
  <2>1. /\ Len(b) \in Nat \ {0} /\ Len(t) = Len(b) - 1
        /\ \A i \in 1..Len(t) : t[i] = b[i + 1]
    BY <1>4, <1>6
  <2> QED
    BY <2>1
<1>8. /\ serving'[p] = h /\ backlog'[p] = t
      /\ \A s \in Processes : s # p => serving'[s] = serving[s] /\ backlog'[s] = backlog[s]
  BY <1>1, <1>2, <1>3, <1>4, <1>5, <1>6
<1>9. /\ h \in Connections /\ h.from \in Processes /\ ~h.done
      /\ h # Peers!NoOne
  <2>1. Peers!NoOne.done
    BY DEF Peers!NoOne
  <2>2. h \in Connections /\ h.from \in Processes /\ h.done = FALSE
    BY DEF Unserved, Connections
  <2> QED
    BY <2>1, <2>2
<1>10. PeersTyped'
  BY <1>1, <1>2, <1>3, <1>4, <1>5, <1>6, <1>9 DEF PeersTyped
<1>11. \A q \in Processes : ~Served(p, q) /\ serving[p].from # q
  BY <1>1, ProcessesAssumption DEF Served, Peers!NoOne
<1>12. ASSUME NEW s \in Processes, NEW q \in Processes, s # p
       PROVE  /\ ClientOf(s, q)' <=> ClientOf(s, q)
              /\ Queued(s, q)' <=> Queued(s, q)
              /\ Served(s, q)' <=> Served(s, q)
              /\ Pinged(s, q)' <=> Pinged(s, q)
  BY <1>1, <1>8, <1>12 DEF ClientOf, Waiting, Queued, Served, Pinged
<1>13. ASSUME NEW q \in Processes
       PROVE  /\ ClientOf(p, q) => ClientOf(p, q)'
              /\ Queued(p, q)' => Queued(p, q)
              /\ Served(p, q)' => Queued(p, q)
              /\ ~(Queued(p, q)' /\ Served(p, q)')
              /\ Pinged(p, q)' => Pinged(p, q)
  <2>1. ClientOf(p, q) => ClientOf(p, q)'
    <3>1. ASSUME Waiting(p, q) PROVE ClientOf(p, q)'
      <4>1. PICK i \in 1..Len(b) : b[i].from = q
        BY <1>3, <3>1 DEF Waiting
      <4>2. CASE i = 1
        BY <1>5, <1>8, <4>1, <4>2 DEF ClientOf
      <4>3. CASE i # 1
        <5>1. i - 1 \in 1..Len(t) /\ t[i - 1].from = q
          BY <1>7, <4>1, <4>3
        <5> QED
          BY <1>8, <5>1 DEF ClientOf, Waiting
      <4> QED
        BY <4>2, <4>3
    <3> QED
      BY <1>1, <1>11, <3>1 DEF ClientOf
  <2>2. Queued(p, q)' => Queued(p, q)
    <3>1. ASSUME NEW i \in 1..Len(t), t[i].from = q, ~t[i].ping PROVE Queued(p, q)
      BY <1>3, <1>7, <3>1 DEF Queued
    <3> QED
      BY <1>8, <3>1 DEF Queued
  <2>3. Served(p, q)' => Queued(p, q)
    BY <1>3, <1>5, <1>7, <1>8 DEF Served, Queued
  <2>4. ~(Queued(p, q)' /\ Served(p, q)')
    <3> SUFFICES ASSUME Queued(p, q)', Served(p, q)' PROVE FALSE
      OBVIOUS
    <3>1. PICK i \in 1..Len(t) : t[i].from = q /\ ~t[i].ping
      BY <1>8 DEF Queued
    <3>2. /\ i + 1 \in 1..Len(b) /\ i + 1 # 1 /\ 1 \in 1..Len(b)
          /\ b[i + 1].from = b[1].from /\ ~b[i + 1].ping /\ ~b[1].ping
      BY <1>5, <1>7, <1>8, <3>1 DEF Served
    <3>3. \A j, k \in 1..Len(b) : ~b[j].ping /\ ~b[k].ping /\ b[j].from = b[k].from => j = k
      BY <1>2, <1>3 DEF PeersKept, ConnectionsRight
    <3> QED
      BY <3>2, <3>3
  <2>5. Pinged(p, q)' => Pinged(p, q)
    <3>1. ASSUME NEW i \in 1..Len(t), t[i].from = q, t[i].ping PROVE Pinged(p, q)
      BY <1>3, <1>7, <3>1 DEF Pinged
    <3>2. h.from = q /\ h.ping => Pinged(p, q)
      BY <1>3, <1>5, <1>7 DEF Pinged
    <3> QED
      BY <1>8, <3>1, <3>2 DEF Pinged
  <2> QED
    BY <2>1, <2>2, <2>3, <2>4, <2>5
<1>14. ConnectionsRight'
  <2>1. \A s \in Processes :
          backlog'[s] # <<>> \/ serving'[s] # Peers!NoOne \/ held'[s] # {} => s \in listening'
    <3>1. \A s \in Processes :
            backlog[s] # <<>> \/ serving[s] # Peers!NoOne \/ held[s] # {} => s \in listening
      BY <1>2 DEF PeersKept, ConnectionsRight
    <3> QED
      BY <1>1, <1>8, <3>1
  <2>2. ASSUME NEW s \in Processes, NEW i \in 1..Len(backlog'[s]), NEW j \in 1..Len(backlog'[s]),
               ~backlog'[s][i].ping, ~backlog'[s][j].ping,
               backlog'[s][i].from = backlog'[s][j].from
        PROVE  i = j
    <3>1. \A x \in Processes : \A k, l \in 1..Len(backlog[x]) :
            ~backlog[x][k].ping /\ ~backlog[x][l].ping /\ backlog[x][k].from = backlog[x][l].from
              => k = l
      BY <1>2 DEF PeersKept, ConnectionsRight
    <3>2. CASE s # p
      BY <1>8, <2>2, <3>1, <3>2
    <3>3. CASE s = p
      <4>1. /\ i \in 1..Len(t) /\ j \in 1..Len(t) /\ ~t[i].ping /\ ~t[j].ping
            /\ t[i].from = t[j].from
        BY <1>8, <2>2, <3>3
      <4>2. /\ i + 1 \in 1..Len(b) /\ j + 1 \in 1..Len(b) /\ ~b[i + 1].ping /\ ~b[j + 1].ping
            /\ b[i + 1].from = b[j + 1].from
        BY <1>7, <4>1
      <4>3. i + 1 = j + 1
        BY <1>3, <3>1, <4>2
      <4> QED
        BY <4>1, <4>3
    <3> QED
      BY <3>2, <3>3
  <2>3. ASSUME NEW s \in Processes, NEW q \in Processes
        PROVE  /\ Queued(s, q)' \/ Served(s, q)' => instances_asked'[q] = s
               /\ ~(Queued(s, q)' /\ Served(s, q)')
               /\ Pinged(s, q)' => pc'[q] \notin {"off", "ask", "asking", "ping", "answered"}
               /\ q \in held'[s] => /\ pc'[q] \notin {"off", "ask"}
                                    /\ pc'[q] = "asking" => instances_asked'[q] = s
    <3>1. /\ Queued(s, q) \/ Served(s, q) => instances_asked[q] = s
          /\ ~(Queued(s, q) /\ Served(s, q))
          /\ Pinged(s, q) => pc[q] \notin {"off", "ask", "asking", "ping", "answered"}
          /\ q \in held[s] => /\ pc[q] \notin {"off", "ask"}
                              /\ pc[q] = "asking" => instances_asked[q] = s
      BY <1>2 DEF PeersKept, ConnectionsRight
    <3>2. CASE s # p
      BY <1>1, <1>12, <3>1, <3>2
    <3>3. CASE s = p
      BY <1>1, <1>13, <3>1, <3>3
    <3> QED
      BY <3>2, <3>3
  <2> QED
    BY <2>1, <2>2, <2>3 DEF ConnectionsRight
<1>15. PeersKept'
  <2>1. \A s, q \in Processes : ClientOf(s, q) => ClientOf(s, q)'
    BY <1>12, <1>13
  <2> QED
    BY <1>1, <1>2, <1>10, <1>14, <2>1, MovedRight
<1>16. RunsRight'
  <2>1. ASSUME NEW s \in Processes, NEW q \in Processes
        PROVE  /\ Queued(s, q)' \/ (Served(s, q)' /\ ~serving'[s].done) =>
                    Queued(s, q) \/ (Served(s, q) /\ ~serving[s].done)
               /\ Served(s, q)' /\ serving'[s].done => Served(s, q) /\ serving[s].done
    <3>1. CASE s # p
      BY <1>8, <1>12, <3>1
    <3>2. CASE s = p
      BY <1>8, <1>9, <1>13, <3>2
    <3> QED
      BY <3>1, <3>2
  <2>2. \A q \in Processes :
          q \in started' /\ instances_asked[q] # 0 => pc'[instances_asked[q]] \in Peers!Ended
    BY <1>1, <1>2 DEF RunsRight
  <2> QED
    BY <1>1, <1>2, <2>1, <2>2, RunsKept
<1> QED
  BY <1>15, <1>16 DEF PeersIInv


(* Who is answered, or is told that a server is there, goes on. *)
LEMMA StepRespond == ASSUME PeersIInv, NEW p \in Processes, Peers!Respond(p) PROVE PeersIInv'
<1>1. /\ serving[p] # Peers!NoOne /\ serving[p].done
      /\ pc' = [pc EXCEPT ![serving[p].from] =
                  IF @ \in {"asking", "pinging"} THEN Peers!Answered(serving[p].from) ELSE @]
      /\ serving' = [serving EXCEPT ![p] = Peers!NoOne]
      /\ UNCHANGED <<sock, listening, started, backlog, held, ran, instances_asked,
                     instances_overlap>>
  BY DEF Peers!Respond
<1>2. PeersKept /\ RunsRight /\ PeersTyped
      /\ pc \in [Processes -> ProcessStates]
      /\ serving \in [Processes -> Connections \cup {Peers!NoOne}]
      /\ instances_asked \in [Processes -> {0} \cup Processes]
      /\ listening \subseteq Processes /\ started \subseteq Processes
  BY DEF PeersIInv, PeersKept, PeersTyped
<1>3. PICK c \in Processes : c = serving[p].from
  BY <1>1, <1>2 DEF Connections
<1>4. p \in listening
  BY <1>1, <1>2 DEF PeersKept, ConnectionsRight
<1>5. pc[c] = "asking" => /\ Served(p, c) /\ ran[c] = <<p>> /\ instances_asked[c] = p
                          /\ p # 0
  <2> SUFFICES ASSUME pc[c] = "asking"
               PROVE  Served(p, c) /\ ran[c] = <<p>> /\ instances_asked[c] = p /\ p # 0
    OBVIOUS
  <2>1. ~serving[p].ping
    BY <1>2, <1>3 DEF PeersKept, ConnectionsRight, Pinged
  <2>2. Served(p, c)
    BY <1>3, <2>1 DEF Served
  <2>3. ran[c] = <<p>>
    BY <1>1, <1>2, <2>2 DEF RunsRight
  <2>4. instances_asked[c] = p
    BY <1>2, <2>2 DEF PeersKept, ConnectionsRight
  <2> QED
    BY <2>2, <2>3, <2>4, ProcessesAssumption
<1>6. /\ \A q \in Processes : q # c => pc'[q] = pc[q]
      /\ pc[c] = "asking" => pc'[c] = "answered"
      /\ pc[c] = "pinging" => pc'[c] = "listen"
      /\ pc[c] \notin {"asking", "pinging"} => pc'[c] = pc[c]
  BY <1>1, <1>2, <1>3 DEF Peers!Answered
<1>7. serving'[p] = Peers!NoOne /\ \A s \in Processes : s # p => serving'[s] = serving[s]
  BY <1>1, <1>2
<1>8. \A q \in Processes : ~Served(p, q)' /\ ~(serving'[p].from = q)
  BY <1>7, ProcessesAssumption DEF Served, Peers!NoOne
<1>9. ASSUME NEW s \in Processes, NEW q \in Processes
      PROVE  /\ Queued(s, q)' <=> Queued(s, q)
             /\ Served(s, q)' <=> s # p /\ Served(s, q)
             /\ Pinged(s, q)' => Pinged(s, q)
             /\ ClientOf(s, q) => ClientOf(s, q)' \/ q = c
  <2>1. CASE s # p
    BY <1>1, <1>7, <2>1 DEF ClientOf, Waiting, Queued, Served, Pinged
  <2>2. CASE s = p
    <3>1. (Queued(p, q)' <=> Queued(p, q)) /\ (Pinged(p, q)' => Pinged(p, q))
      BY <1>1, <1>8 DEF Queued, Pinged
    <3>2. ClientOf(p, q) => ClientOf(p, q)' \/ q = c
      BY <1>1, <1>3 DEF ClientOf, Waiting
    <3> QED
      BY <1>8, <2>2, <3>1, <3>2
  <2> QED
    BY <2>1, <2>2
<1>10. PeersTyped'
  <2>1. \A q \in Processes : pc'[q] \in ProcessStates
    BY <1>2, <1>6 DEF ProcessStates
  <2>2. pc' \in [Processes -> ProcessStates]
    BY <1>1, <1>2, <2>1
  <2> QED
    BY <1>1, <1>2, <2>2 DEF PeersTyped
<1>11. ConnectionsRight'
  <2>1. \A s \in Processes :
          backlog'[s] # <<>> \/ serving'[s] # Peers!NoOne \/ held'[s] # {} => s \in listening'
    BY <1>1, <1>2, <1>4, <1>7 DEF PeersKept, ConnectionsRight
  <2>2. \A s \in Processes : \A i, j \in 1..Len(backlog'[s]) :
          ~backlog'[s][i].ping /\ ~backlog'[s][j].ping
          /\ backlog'[s][i].from = backlog'[s][j].from => i = j
    BY <1>1, <1>2 DEF PeersKept, ConnectionsRight
  <2>3. ASSUME NEW s \in Processes, NEW q \in Processes
        PROVE  /\ Queued(s, q)' \/ Served(s, q)' => instances_asked'[q] = s
               /\ ~(Queued(s, q)' /\ Served(s, q)')
               /\ Pinged(s, q)' => pc'[q] \notin {"off", "ask", "asking", "ping", "answered"}
               /\ q \in held'[s] => /\ pc'[q] \notin {"off", "ask"}
                                    /\ pc'[q] = "asking" => instances_asked'[q] = s
    <3>1. /\ Queued(s, q) \/ Served(s, q) => instances_asked[q] = s
          /\ ~(Queued(s, q) /\ Served(s, q))
          /\ Pinged(s, q) => pc[q] \notin {"off", "ask", "asking", "ping", "answered"}
          /\ q \in held[s] => /\ pc[q] \notin {"off", "ask"}
                              /\ pc[q] = "asking" => instances_asked[q] = s
      BY <1>2 DEF PeersKept, ConnectionsRight
    <3>2. Pinged(s, q)' => pc'[q] \notin {"off", "ask", "asking", "ping", "answered"}
      BY <1>6, <1>9, <3>1
    <3>3. q \in held'[s] => /\ pc'[q] \notin {"off", "ask"}
                            /\ pc'[q] = "asking" => instances_asked'[q] = s
      BY <1>1, <1>6, <3>1
    <3>4. /\ Queued(s, q)' \/ Served(s, q)' => instances_asked'[q] = s
          /\ ~(Queued(s, q)' /\ Served(s, q)')
      BY <1>1, <1>9, <3>1
    <3> QED
      BY <3>2, <3>3, <3>4
  <2> QED
    BY <2>1, <2>2, <2>3 DEF ConnectionsRight
<1>12. \A q \in Processes : pc[q] \in Peers!Ended => pc'[q] \in Peers!Ended
  BY <1>6 DEF Peers!Ended
<1>13. ProcessesRight'
  <2>1. ASSUME NEW q \in listening' PROVE pc'[q] \in {"main", "closing"}
    <3>1. pc[q] \in {"main", "closing"} /\ q \in Processes
      BY <1>1, <1>2 DEF PeersKept, ProcessesRight
    <3> QED
      BY <1>6, <3>1
  <2>2. ASSUME NEW q \in started' PROVE pc'[q] \in {"main", "closing", "closed", "crashed"}
    <3>1. pc[q] \in {"main", "closing", "closed", "crashed"} /\ q \in Processes
      BY <1>1, <1>2 DEF PeersKept, ProcessesRight
    <3> QED
      BY <1>6, <3>1
  <2>3. ASSUME NEW q \in Processes
        PROVE  /\ instances_asked'[q] # q
               /\ pc'[q] \in {"off", "ask"} => instances_asked'[q] = 0
               /\ instances_asked'[q] # 0
                  /\ pc'[q] \in {"ping", "pinging", "remove", "listen", "main", "closing", "closed"}
                    => pc'[instances_asked'[q]] \in Peers!Ended
    <3>1. /\ instances_asked[q] # q /\ instances_asked[q] \in {0} \cup Processes
          /\ pc[q] \in {"off", "ask"} => instances_asked[q] = 0
          /\ instances_asked[q] # 0
             /\ pc[q] \in {"ping", "pinging", "remove", "listen", "main", "closing", "closed"}
               => pc[instances_asked[q]] \in Peers!Ended
      BY <1>2 DEF PeersKept, ProcessesRight
    <3>2. /\ pc'[q] \in {"off", "ask"} => pc[q] = pc'[q]
          /\ pc'[q] \in {"ping", "pinging", "remove", "listen", "main", "closing", "closed"} =>
               pc[q] \in {"ping", "pinging", "remove", "listen", "main", "closing", "closed"}
      BY <1>6
    <3> QED
      BY <1>1, <1>12, <3>1, <3>2
  <2> QED
    BY <2>1, <2>2, <2>3 DEF ProcessesRight
<1>14. WaitersRight'
  <2> SUFFICES ASSUME NEW q \in Processes, pc'[q] \in {"asking", "pinging"}
               PROVE  \E s \in listening' : ClientOf(s, q)'
    BY DEF WaitersRight
  <2>1. q # c /\ pc[q] \in {"asking", "pinging"}
    BY <1>6
  <2>2. PICK s \in listening : ClientOf(s, q)
    BY <1>2, <2>1 DEF PeersKept, WaitersRight
  <2> QED
    BY <1>1, <1>2, <1>9, <2>1, <2>2
<1>15. SocketRight'
  <2>1. \A q \in Processes : pc'[q] = "remove" => pc[q] = "remove"
    BY <1>6
  <2> QED
    BY <1>1, <1>2, <2>1 DEF PeersKept, SocketRight
<1>16. RunsRight'
  <2>1. ASSUME NEW s \in Processes, NEW q \in Processes
        PROVE  /\ Queued(s, q)' \/ (Served(s, q)' /\ ~serving'[s].done) =>
                    Queued(s, q) \/ (Served(s, q) /\ ~serving[s].done)
               /\ Served(s, q)' /\ serving'[s].done => Served(s, q) /\ serving[s].done
    BY <1>7, <1>9
  <2>2. \A q \in Processes :
          q \in started' /\ instances_asked[q] # 0 => pc'[instances_asked[q]] \in Peers!Ended
    BY <1>1, <1>2, <1>12 DEF RunsRight
  <2>3. \A q \in Processes : pc'[q] = "answered" =>
          pc[q] = "answered" \/ (instances_asked[q] # 0 /\ ran[q] = <<instances_asked[q]>>)
    BY <1>5, <1>6
  <2> QED
    BY <1>1, <1>2, <2>1, <2>2, <2>3, RunsKept
<1> QED
  BY <1>2, <1>10, <1>11, <1>13, <1>14, <1>15, <1>16 DEF PeersIInv, PeersKept

(* The answer comes too late: its connection stays open. *)
LEMMA StepRespondLate ==
  ASSUME PeersIInv, NEW p \in Processes, Peers!RespondLate(p) PROVE PeersIInv'
<1>1. /\ serving[p] # Peers!NoOne
      /\ held' = [held EXCEPT ![p] = @ \cup {serving[p].from}]
      /\ serving' = [serving EXCEPT ![p] = Peers!NoOne]
      /\ UNCHANGED <<pc, sock, listening, started, backlog, ran, instances_asked,
                     instances_overlap>>
  BY DEF Peers!RespondLate
<1>2. PeersKept /\ RunsRight /\ PeersTyped
      /\ pc \in [Processes -> ProcessStates]
      /\ serving \in [Processes -> Connections \cup {Peers!NoOne}]
      /\ held \in [Processes -> SUBSET Processes]
      /\ instances_asked \in [Processes -> {0} \cup Processes]
  BY DEF PeersIInv, PeersKept, PeersTyped
<1>3. PICK c \in Processes : c = serving[p].from
  BY <1>1, <1>2 DEF Connections
<1>4. p \in listening
  BY <1>1, <1>2 DEF PeersKept, ConnectionsRight
<1>5. /\ serving'[p] = Peers!NoOne /\ held'[p] = held[p] \cup {c}
      /\ \A s \in Processes : s # p => serving'[s] = serving[s] /\ held'[s] = held[s]
  BY <1>1, <1>2, <1>3
<1>6. \A q \in Processes : ~Served(p, q)' /\ ~(serving'[p].from = q)
  BY <1>5, ProcessesAssumption DEF Served, Peers!NoOne
<1>7. ASSUME NEW s \in Processes, NEW q \in Processes
      PROVE  /\ Queued(s, q)' <=> Queued(s, q)
             /\ Served(s, q)' <=> s # p /\ Served(s, q)
             /\ Pinged(s, q)' => Pinged(s, q)
             /\ ClientOf(s, q) => ClientOf(s, q)'
  <2>1. CASE s # p
    BY <1>1, <1>5, <2>1 DEF ClientOf, Waiting, Queued, Served, Pinged
  <2>2. CASE s = p
    <3>1. (Queued(p, q)' <=> Queued(p, q)) /\ (Pinged(p, q)' => Pinged(p, q))
      BY <1>1, <1>6 DEF Queued, Pinged
    <3>2. ClientOf(p, q) => ClientOf(p, q)'
      BY <1>1, <1>3, <1>5 DEF ClientOf, Waiting
    <3> QED
      BY <1>6, <2>2, <3>1, <3>2
  <2> QED
    BY <2>1, <2>2
<1>8. PeersTyped'
  BY <1>1, <1>2, <1>3 DEF PeersTyped
<1>9. pc[c] \notin {"off", "ask"} /\ (pc[c] = "asking" => instances_asked[c] = p)
  <2>1. ClientOf(p, c)
    BY <1>3 DEF ClientOf
  <2>2. CASE serving[p].ping
    <3>1. Pinged(p, c)
      BY <1>3, <2>2 DEF Pinged
    <3> QED
      BY <1>2, <3>1 DEF PeersKept, ConnectionsRight
  <2>3. CASE ~serving[p].ping
    <3>1. instances_asked[c] = p /\ p # 0
      BY <1>2, <1>3, <2>3, ProcessesAssumption DEF PeersKept, ConnectionsRight, Served
    <3>2. pc[c] \in {"off", "ask"} => instances_asked[c] = 0
      BY <1>2 DEF PeersKept, ProcessesRight
    <3> QED
      BY <3>1, <3>2
  <2> QED
    BY <2>2, <2>3
<1>10. ConnectionsRight'
  <2>1. \A s \in Processes :
          backlog'[s] # <<>> \/ serving'[s] # Peers!NoOne \/ held'[s] # {} => s \in listening'
    BY <1>1, <1>2, <1>4, <1>5 DEF PeersKept, ConnectionsRight
  <2>2. \A s \in Processes : \A i, j \in 1..Len(backlog'[s]) :
          ~backlog'[s][i].ping /\ ~backlog'[s][j].ping
          /\ backlog'[s][i].from = backlog'[s][j].from => i = j
    BY <1>1, <1>2 DEF PeersKept, ConnectionsRight
  <2>3. ASSUME NEW s \in Processes, NEW q \in Processes
        PROVE  /\ Queued(s, q)' \/ Served(s, q)' => instances_asked'[q] = s
               /\ ~(Queued(s, q)' /\ Served(s, q)')
               /\ Pinged(s, q)' => pc'[q] \notin {"off", "ask", "asking", "ping", "answered"}
               /\ q \in held'[s] => /\ pc'[q] \notin {"off", "ask"}
                                    /\ pc'[q] = "asking" => instances_asked'[q] = s
    <3>1. /\ Queued(s, q) \/ Served(s, q) => instances_asked[q] = s
          /\ ~(Queued(s, q) /\ Served(s, q))
          /\ Pinged(s, q) => pc[q] \notin {"off", "ask", "asking", "ping", "answered"}
          /\ q \in held[s] => /\ pc[q] \notin {"off", "ask"}
                              /\ pc[q] = "asking" => instances_asked[q] = s
      BY <1>2 DEF PeersKept, ConnectionsRight
    <3>2. q \in held'[s] => /\ pc'[q] \notin {"off", "ask"}
                            /\ pc'[q] = "asking" => instances_asked'[q] = s
      <4>1. q \in held'[s] => q \in held[s] \/ (s = p /\ q = c)
        BY <1>5
      <4> QED
        BY <1>1, <1>9, <3>1, <4>1
    <3>3. /\ Queued(s, q)' \/ Served(s, q)' => instances_asked'[q] = s
          /\ ~(Queued(s, q)' /\ Served(s, q)')
          /\ Pinged(s, q)' => pc'[q] \notin {"off", "ask", "asking", "ping", "answered"}
      BY <1>1, <1>7, <3>1
    <3> QED
      BY <3>2, <3>3
  <2> QED
    BY <2>1, <2>2, <2>3 DEF ConnectionsRight
<1>11. PeersKept'
  BY <1>1, <1>2, <1>7, <1>8, <1>10, MovedRight
<1>12. RunsRight'
  <2>1. ASSUME NEW s \in Processes, NEW q \in Processes
        PROVE  /\ Queued(s, q)' \/ (Served(s, q)' /\ ~serving'[s].done) =>
                    Queued(s, q) \/ (Served(s, q) /\ ~serving[s].done)
               /\ Served(s, q)' /\ serving'[s].done => Served(s, q) /\ serving[s].done
    BY <1>5, <1>7
  <2>2. \A q \in Processes :
          q \in started' /\ instances_asked[q] # 0 => pc'[instances_asked[q]] \in Peers!Ended
    BY <1>1, <1>2 DEF RunsRight
  <2> QED
    BY <1>1, <1>2, <2>1, <2>2, RunsKept
<1> QED
  BY <1>11, <1>12 DEF PeersIInv


(* A process asks another: for its command, or whether it is there. *)
LEMMA StepConnect ==
  ASSUME PeersIInv, NEW p \in Processes, Peers!ConnectAndExec(p), sock \in listening
  PROVE  PeersIInv'
<1>1. /\ pc[p] \in {"ask", "ping"}
      /\ backlog' = [backlog EXCEPT ![sock] = Append(@, Peers!Connection(p))]
      /\ pc' = [pc EXCEPT ![p] = IF @ = "ask" THEN "asking" ELSE "pinging"]
      /\ instances_asked' = [instances_asked EXCEPT ![p] = IF pc[p] = "ask" THEN sock ELSE @]
      /\ UNCHANGED <<sock, listening, started, serving, held, ran, instances_overlap>>
  BY DEF Peers!ConnectAndExec
<1>2. PeersKept /\ RunsRight /\ PeersTyped
      /\ pc \in [Processes -> ProcessStates]
      /\ backlog \in [Processes -> Seq(Unserved)]
      /\ instances_asked \in [Processes -> {0} \cup Processes]
      /\ listening \subseteq Processes /\ started \subseteq Processes
  BY DEF PeersIInv, PeersKept, PeersTyped
<1>3. PICK z \in Processes : z = sock /\ z \in listening
  BY <1>2
<1>4. z # p /\ z # 0 /\ pc[z] \in {"main", "closing"} /\ p \notin started
  BY <1>1, <1>2, <1>3, ProcessesAssumption DEF PeersKept, ProcessesRight
<1>5. PICK g \in BOOLEAN : g = (pc[p] = "ping")
  OBVIOUS
<1>6. PICK e \in Unserved : e = Peers!Connection(p) /\ e.from = p /\ e.ping = g
  <2>1. [from |-> p, ping |-> g, done |-> FALSE] \in Unserved
    BY DEF Unserved
  <2>2. Peers!Connection(p) = [from |-> p, ping |-> g, done |-> FALSE]
    BY <1>5, Zenon DEF Peers!Connection
  <2> QED
    BY <2>1, <2>2
<1>7. g <=> pc[p] = "ping"
  BY <1>5
<1>8. PICK b \in Seq(Unserved) : b = backlog[z]
  BY <1>2
<1>9. PICK t \in Seq(Unserved) : /\ t = Append(b, e) /\ Len(b) \in Nat /\ Len(t) = Len(b) + 1
                                 /\ \A i \in 1..Len(b) : t[i] = b[i]
                                 /\ t[Len(b) + 1] = e
  <2>1. /\ Append(b, e) \in Seq(Unserved) /\ Len(Append(b, e)) = Len(b) + 1
        /\ \A i \in 1..Len(b) : Append(b, e)[i] = b[i]
        /\ Append(b, e)[Len(b) + 1] = e
    BY AppendProperties
  <2>2. Len(b) \in Nat
    OBVIOUS
  <2> QED
    BY <2>1, <2>2
<1>10. backlog'[z] = t /\ \A s \in Processes : s # z => backlog'[s] = backlog[s]
  BY <1>1, <1>2, <1>3, <1>6, <1>8, <1>9
<1>11. \A i \in 1..Len(t) : i \in 1..Len(b) \/ i = Len(b) + 1
  BY <1>9
<1>12. \A i \in 1..Len(b) : i \in 1..Len(t)
  BY <1>9
<1>13. Len(b) + 1 \in 1..Len(t)
  BY <1>9
<1>14. ASSUME NEW s \in Processes, NEW q \in Processes
       PROVE  /\ Queued(s, q)' => Queued(s, q) \/ (s = z /\ q = p /\ ~g)
              /\ Served(s, q)' <=> Served(s, q)
              /\ Pinged(s, q)' => Pinged(s, q) \/ (q = p /\ g)
              /\ ClientOf(s, q) => ClientOf(s, q)'
              /\ ClientOf(z, p)'
  <2>1. ClientOf(z, p)'
    <3>1. t[Len(b) + 1].from = p
      BY <1>6, <1>9
    <3> QED
      BY <1>10, <1>13, <3>1 DEF ClientOf, Waiting
  <2>2. Served(s, q)' <=> Served(s, q)
    BY <1>1 DEF Served
  <2>3. CASE s # z
    BY <1>1, <1>10, <2>1, <2>2, <2>3 DEF ClientOf, Waiting, Queued, Pinged
  <2>4. CASE s = z
    <3>1. Queued(z, q)' => Queued(z, q) \/ (q = p /\ ~g)
      <4>1. ASSUME NEW i \in 1..Len(t), t[i].from = q, ~t[i].ping
            PROVE  Queued(z, q) \/ (q = p /\ ~g)
        <5>1. CASE i \in 1..Len(b)
          BY <1>8, <1>9, <4>1, <5>1 DEF Queued
        <5>2. CASE i = Len(b) + 1
          BY <1>6, <1>9, <4>1, <5>2
        <5> QED
          BY <1>11, <5>1, <5>2
      <4> QED
        BY <1>10, <4>1 DEF Queued
    <3>2. Pinged(z, q)' => Pinged(z, q) \/ (q = p /\ g)
      <4>1. ASSUME NEW i \in 1..Len(t), t[i].from = q, t[i].ping
            PROVE  Pinged(z, q) \/ (q = p /\ g)
        <5>1. CASE i \in 1..Len(b)
          BY <1>8, <1>9, <4>1, <5>1 DEF Pinged
        <5>2. CASE i = Len(b) + 1
          BY <1>6, <1>9, <4>1, <5>2
        <5> QED
          BY <1>11, <5>1, <5>2
      <4> QED
        BY <1>1, <1>10, <4>1 DEF Pinged
    <3>3. ClientOf(z, q) => ClientOf(z, q)'
      <4>1. Waiting(z, q) => Waiting(z, q)'
        BY <1>8, <1>9, <1>10, <1>12 DEF Waiting
      <4> QED
        BY <1>1, <4>1 DEF ClientOf
    <3> QED
      BY <2>1, <2>2, <2>4, <3>1, <3>2, <3>3
  <2> QED
    BY <2>3, <2>4
<1>15. /\ pc'[p] = (IF g THEN "pinging" ELSE "asking")
       /\ \A q \in Processes : q # p => pc'[q] = pc[q] /\ instances_asked'[q] = instances_asked[q]
       /\ instances_asked'[p] = IF g THEN instances_asked[p] ELSE z
       /\ pc[p] = IF g THEN "ping" ELSE "ask"
  BY <1>1, <1>2, <1>3, <1>7
<1>16. ~g => /\ instances_asked[p] = 0 /\ ran[p] = <<>>
             /\ \A s \in Processes : ~Queued(s, p) /\ ~Served(s, p)
  <2> SUFFICES ASSUME ~g
               PROVE  /\ instances_asked[p] = 0 /\ ran[p] = <<>>
                      /\ \A s \in Processes : ~Queued(s, p) /\ ~Served(s, p)
    OBVIOUS
  <2>1. instances_asked[p] = 0
    BY <1>2, <1>15 DEF PeersKept, ProcessesRight
  <2>2. ran[p] = <<>>
    BY <1>2, <1>4, <2>1 DEF RunsRight
  <2>3. \A s \in Processes : (Queued(s, p) \/ Served(s, p) => instances_asked[p] = s) /\ s # 0
    BY <1>2, ProcessesAssumption DEF PeersKept, ConnectionsRight
  <2> QED
    BY <2>1, <2>2, <2>3
<1>17. PeersTyped'
  <2>1. \A q \in Processes : pc'[q] \in ProcessStates
    BY <1>2, <1>15 DEF ProcessStates
  <2>2. pc' \in [Processes -> ProcessStates]
    BY <1>1, <1>2, <2>1
  <2>3. instances_asked' \in [Processes -> {0} \cup Processes]
    BY <1>1, <1>2, <1>3
  <2>4. backlog' \in [Processes -> Seq(Unserved)]
    BY <1>1, <1>2, <1>3, <1>6, <1>8, <1>9
  <2> QED
    BY <1>1, <1>2, <2>2, <2>3, <2>4 DEF PeersTyped
<1>18. ConnectionsRight'
  <2>1. \A s \in Processes :
          backlog'[s] # <<>> \/ serving'[s] # Peers!NoOne \/ held'[s] # {} => s \in listening'
    BY <1>1, <1>2, <1>3, <1>10 DEF PeersKept, ConnectionsRight
  <2>2. ASSUME NEW s \in Processes, NEW i \in 1..Len(backlog'[s]), NEW j \in 1..Len(backlog'[s]),
               ~backlog'[s][i].ping, ~backlog'[s][j].ping,
               backlog'[s][i].from = backlog'[s][j].from
        PROVE  i = j
    <3>1. \A x \in Processes : \A k, l \in 1..Len(backlog[x]) :
            ~backlog[x][k].ping /\ ~backlog[x][l].ping /\ backlog[x][k].from = backlog[x][l].from
              => k = l
      BY <1>2 DEF PeersKept, ConnectionsRight
    <3>2. CASE s # z
      BY <1>10, <2>2, <3>1, <3>2
    <3>3. CASE s = z
      <4>1. /\ i \in 1..Len(t) /\ j \in 1..Len(t) /\ ~t[i].ping /\ ~t[j].ping
            /\ t[i].from = t[j].from
        BY <1>10, <2>2, <3>3
      <4>2. ~g => \A k \in 1..Len(b) : b[k].from = p => b[k].ping
        BY <1>8, <1>16 DEF Queued
      <4>3. CASE i \in 1..Len(b) /\ j \in 1..Len(b)
        <5>1. ~b[i].ping /\ ~b[j].ping /\ b[i].from = b[j].from
          BY <1>9, <4>1, <4>3
        <5> QED
          BY <1>8, <3>1, <4>3, <5>1
      <4>4. CASE i \in 1..Len(b) /\ j = Len(b) + 1
        BY <1>6, <1>9, <4>1, <4>2, <4>4
      <4>5. CASE i = Len(b) + 1 /\ j \in 1..Len(b)
        BY <1>6, <1>9, <4>1, <4>2, <4>5
      <4> QED
        BY <1>11, <4>1, <4>3, <4>4, <4>5
    <3> QED
      BY <3>2, <3>3
  <2>3. ASSUME NEW s \in Processes, NEW q \in Processes
        PROVE  /\ Queued(s, q)' \/ Served(s, q)' => instances_asked'[q] = s
               /\ ~(Queued(s, q)' /\ Served(s, q)')
               /\ Pinged(s, q)' => pc'[q] \notin {"off", "ask", "asking", "ping", "answered"}
               /\ q \in held'[s] => /\ pc'[q] \notin {"off", "ask"}
                                    /\ pc'[q] = "asking" => instances_asked'[q] = s
    <3>1. /\ Queued(s, q) \/ Served(s, q) => instances_asked[q] = s
          /\ ~(Queued(s, q) /\ Served(s, q))
          /\ Pinged(s, q) => pc[q] \notin {"off", "ask", "asking", "ping", "answered"}
          /\ q \in held[s] => /\ pc[q] \notin {"off", "ask"}
                              /\ pc[q] = "asking" => instances_asked[q] = s
      BY <1>2 DEF PeersKept, ConnectionsRight
    <3>2. CASE q # p
      BY <1>1, <1>14, <1>15, <3>1, <3>2
    <3>3. CASE q = p /\ g
      BY <1>1, <1>14, <1>15, <3>1, <3>3
    <3>4. CASE q = p /\ ~g
      <4>1. Queued(s, q)' \/ Served(s, q)' => instances_asked'[q] = s
        BY <1>14, <1>15, <1>16, <3>4
      <4>2. ~Served(s, q)'
        BY <1>14, <1>16, <3>4
      <4>3. ~Pinged(s, q)'
        BY <1>14, <1>15, <3>1, <3>4
      <4>4. q \notin held'[s]
        BY <1>1, <1>15, <3>1, <3>4
      <4> QED
        BY <4>1, <4>2, <4>3, <4>4
    <3> QED
      BY <3>2, <3>3, <3>4
  <2> QED
    BY <2>1, <2>2, <2>3 DEF ConnectionsRight
<1>19. \A q \in Processes : /\ pc[q] \in Peers!Ended => pc'[q] \in Peers!Ended
                            /\ pc'[q] = "answered" => q # p /\ pc[q] = "answered"
  BY <1>15 DEF Peers!Ended
<1>20. ProcessesRight'
  <2>1. ASSUME NEW q \in listening' PROVE pc'[q] \in {"main", "closing"}
    <3>1. pc[q] \in {"main", "closing"} /\ q \in Processes
      BY <1>1, <1>2 DEF PeersKept, ProcessesRight
    <3> QED
      BY <1>15, <3>1
  <2>2. ASSUME NEW q \in started' PROVE pc'[q] \in {"main", "closing", "closed", "crashed"}
    <3>1. pc[q] \in {"main", "closing", "closed", "crashed"} /\ q \in Processes
      BY <1>1, <1>2 DEF PeersKept, ProcessesRight
    <3> QED
      BY <1>15, <3>1
  <2>3. ASSUME NEW q \in Processes
        PROVE  /\ instances_asked'[q] # q
               /\ pc'[q] \in {"off", "ask"} => instances_asked'[q] = 0
               /\ instances_asked'[q] # 0
                  /\ pc'[q] \in {"ping", "pinging", "remove", "listen", "main", "closing", "closed"}
                    => pc'[instances_asked'[q]] \in Peers!Ended
    <3>1. /\ instances_asked[q] # q /\ instances_asked[q] \in {0} \cup Processes
          /\ pc[q] \in {"off", "ask"} => instances_asked[q] = 0
          /\ instances_asked[q] # 0
             /\ pc[q] \in {"ping", "pinging", "remove", "listen", "main", "closing", "closed"}
               => pc[instances_asked[q]] \in Peers!Ended
      BY <1>2 DEF PeersKept, ProcessesRight
    <3>2. CASE q # p
      BY <1>15, <1>19, <3>1, <3>2
    <3>3. CASE q = p /\ g
      BY <1>15, <1>19, <3>1, <3>3
    <3>4. CASE q = p /\ ~g
      BY <1>4, <1>15, <3>4
    <3> QED
      BY <3>2, <3>3, <3>4
  <2> QED
    BY <2>1, <2>2, <2>3 DEF ProcessesRight
<1>21. WaitersRight'
  <2> SUFFICES ASSUME NEW q \in Processes, pc'[q] \in {"asking", "pinging"}
               PROVE  \E s \in listening' : ClientOf(s, q)'
    BY DEF WaitersRight
  <2>1. CASE q = p
    BY <1>1, <1>3, <1>14, <2>1
  <2>2. CASE q # p
    <3>1. PICK s \in listening : ClientOf(s, q)
      BY <1>2, <1>15, <2>2 DEF PeersKept, WaitersRight
    <3> QED
      BY <1>1, <1>2, <1>14, <3>1
  <2> QED
    BY <2>1, <2>2
<1>22. SocketRight'
  <2>1. \A q \in Processes : pc'[q] = "remove" => pc[q] = "remove"
    BY <1>15
  <2> QED
    BY <1>1, <1>2, <2>1 DEF PeersKept, SocketRight
<1>23. RunsRight'
  <2>1. ASSUME NEW s \in Processes, NEW q \in Processes
        PROVE  /\ Queued(s, q)' \/ (Served(s, q)' /\ ~serving'[s].done) => ran'[q] = <<>>
               /\ Served(s, q)' /\ serving'[s].done => ran'[q] = <<s>>
    <3>1. /\ Queued(s, q) \/ (Served(s, q) /\ ~serving[s].done) => ran[q] = <<>>
          /\ Served(s, q) /\ serving[s].done => ran[q] = <<s>>
      BY <1>2 DEF RunsRight
    <3>2. Queued(s, q)' => Queued(s, q) \/ ran[q] = <<>>
      BY <1>14, <1>16
    <3> QED
      BY <1>1, <1>14, <3>1, <3>2
  <2>2. ASSUME NEW q \in Processes, q # p \/ g
        PROVE  /\ \/ ran'[q] = <<>>
                  \/ instances_asked'[q] # 0 /\ ran'[q] = <<instances_asked'[q]>>
                  \/ q \in started' /\ ran'[q] = <<q>>
                  \/ q \in started' /\ instances_asked'[q] # 0
                     /\ ran'[q] = <<instances_asked'[q], q>>
               /\ q \in started' /\ instances_asked'[q] # 0 =>
                    pc'[instances_asked'[q]] \in Peers!Ended
               /\ pc'[q] = "answered" =>
                    instances_asked'[q] # 0 /\ ran'[q] = <<instances_asked'[q]>>
    <3>1. instances_asked'[q] = instances_asked[q] /\ ran'[q] = ran[q] /\ started' = started
          /\ instances_asked[q] \in {0} \cup Processes
      BY <1>1, <1>2, <1>15, <2>2
    <3>2. /\ \/ ran[q] = <<>>
             \/ instances_asked[q] # 0 /\ ran[q] = <<instances_asked[q]>>
             \/ q \in started /\ ran[q] = <<q>>
             \/ q \in started /\ instances_asked[q] # 0 /\ ran[q] = <<instances_asked[q], q>>
          /\ q \in started /\ instances_asked[q] # 0 => pc[instances_asked[q]] \in Peers!Ended
          /\ pc[q] = "answered" => instances_asked[q] # 0 /\ ran[q] = <<instances_asked[q]>>
      BY <1>2 DEF RunsRight
    <3> QED
      BY <1>19, <3>1, <3>2
  <2>3. ~g => ran'[p] = <<>> /\ p \notin started' /\ pc'[p] # "answered"
    BY <1>1, <1>4, <1>15, <1>16
  <2> QED
    BY <2>1, <2>2, <2>3 DEF RunsRight
<1> QED
  BY <1>17, <1>18, <1>20, <1>21, <1>22, <1>23 DEF PeersIInv, PeersKept


LEMMA PeersStep == ASSUME PeersIInv, [Peers!Next]_instancesVars PROVE PeersIInv'
<1>1. CASE UNCHANGED instancesVars
  BY <1>1, PeersSame DEF instancesVars
<1>2. CASE \E p \in Processes : \/ Peers!Launch(p) \/ Peers!ConnectAndExec(p)
                                \/ Peers!RemoveStale(p) \/ Peers!StartServer(p)
  BY <1>2, StepLaunch, StepConnect, StepRefused, StepRemoveStale, StepStartServer
<1>3. CASE \E p \in Processes : \/ Peers!Quit(p) \/ Peers!EndLoop(p) \/ Peers!Close(p)
                                \/ Peers!Crash(p)
  BY <1>3, StepQuit, StepEndLoop, StepListenerClose, StepCrash
<1>4. CASE \E p \in Processes : Peers!endStartup(p)
  BY <1>4, StepEndStartup
<1>5. CASE \E p \in Processes : \/ Peers!Accept(p) \/ Peers!handleMessage(p)
                                \/ Peers!Respond(p) \/ Peers!RespondLate(p)
  BY <1>5, StepAccept, StepHandleMessage, StepRespond, StepRespondLate
<1> QED
  BY <1>1, <1>2, <1>3, <1>4, <1>5 DEF Peers!Next

LEMMA PeersImplied == ASSUME PeersIInv PROVE InstancesRight
<1>1. /\ PeersKept /\ RunsRight /\ PeersTyped /\ listening \subseteq Processes
      /\ ran \in [Processes -> Seq(Processes)]
  BY DEF PeersIInv, PeersKept, PeersTyped
<1>2. Peers!SomeoneAnswers
  <2> SUFFICES ASSUME NEW p \in Processes, pc[p] \in {"asking", "pinging"}
               PROVE  \E s \in listening : p \in Peers!Clients(s) /\ pc[s] \notin Peers!Ended
    BY DEF Peers!SomeoneAnswers
  <2>1. PICK s \in listening : ClientOf(s, p)
    BY <1>1 DEF PeersKept, WaitersRight
  <2>2. p \in Peers!Clients(s)
    BY <1>1, <2>1, ClientsRight
  <2>3. pc[s] \notin Peers!Ended
    BY <1>1 DEF PeersKept, ProcessesRight, Peers!Ended
  <2> QED
    BY <2>2, <2>3
<1>3. ASSUME NEW p \in Processes
      PROVE  /\ \A i \in 1..(Len(ran[p]) - 1) : pc[ran[p][i]] \in Peers!Ended
             /\ pc[p] = "answered" => ran[p] # <<>> /\ ran[p][Len(ran[p])] # p
             /\ (p \in Peers!Range(ran[p]) /\ instances_asked[p] # 0) =>
                  pc[instances_asked[p]] \in Peers!Ended
  <2>1. /\ \/ ran[p] = <<>>
           \/ instances_asked[p] # 0 /\ ran[p] = <<instances_asked[p]>>
           \/ p \in started /\ ran[p] = <<p>>
           \/ p \in started /\ instances_asked[p] # 0 /\ ran[p] = <<instances_asked[p], p>>
        /\ p \in started /\ instances_asked[p] # 0 => pc[instances_asked[p]] \in Peers!Ended
        /\ pc[p] = "answered" => instances_asked[p] # 0 /\ ran[p] = <<instances_asked[p]>>
        /\ instances_asked[p] # p
    BY <1>1 DEF RunsRight, PeersKept, ProcessesRight
  <2>2. \A i \in 1..(Len(ran[p]) - 1) : pc[ran[p][i]] \in Peers!Ended
    <3>1. CASE p \in started /\ instances_asked[p] # 0 /\ ran[p] = <<instances_asked[p], p>>
      <4>1. Len(ran[p]) = 2 /\ ran[p][1] = instances_asked[p]
        BY <3>1
      <4>2. \A i \in 1..1 : i = 1
        OBVIOUS
      <4> QED
        BY <2>1, <3>1, <4>1, <4>2
    <3>2. CASE Len(ran[p]) \in {0, 1}
      <4>1. PICK n \in {0, 1} : n = Len(ran[p])
        BY <3>2
      <4>2. 1..(n - 1) = {}
        OBVIOUS
      <4> QED
        BY <4>1, <4>2
    <3>3. Len(<<>>) = 0 /\ Len(<<instances_asked[p]>>) = 1 /\ Len(<<p>>) = 1
      OBVIOUS
    <3> QED
      BY <2>1, <3>1, <3>2, <3>3
  <2>3. ASSUME ran[p] = <<instances_asked[p]>>
        PROVE  ran[p] # <<>> /\ ran[p][Len(ran[p])] = instances_asked[p]
    BY <2>3
  <2>4. p \in Peers!Range(ran[p]) => p \in started \/ instances_asked[p] = 0
    <3>1. CASE ran[p] = <<>>
      BY <3>1 DEF Peers!Range
    <3>2. CASE ran[p] = <<instances_asked[p]>>
      <4>1. \A i \in DOMAIN ran[p] : ran[p][i] = instances_asked[p]
        BY <3>2
      <4> QED
        BY <2>1, <4>1 DEF Peers!Range
    <3> QED
      BY <2>1, <3>1, <3>2
  <2> QED
    BY <2>1, <2>2, <2>3, <2>4
<1>4. Peers!RunsOnce
  BY <1>3 DEF Peers!RunsOnce
<1>5. Peers!OneSocket
  BY <1>1 DEF PeersKept, SocketRight, Peers!OneSocket
<1> QED
  BY <1>2, <1>4, <1>5 DEF InstancesRight, Peers!InstancesRight

-----------------------------------------------------------------------------
(* Theorems *)

(* The marks of the listed messages are those the user set, and a search leads only to messages
   of the list, unless a recorded cause excuses them: however moves, the visual mode, remembered
   marks, deletions, filters and threads built anew follow each other (lib/marker/marker.go,
   lib/msgstore.go; SelectionRight, for all lists and orders). *)
THEOREM InterfaceSelection == InterfaceSpec => []SelectionRight
<1>1. InterfaceInit => MarksIInv
  BY MarksInit DEF InterfaceInit
<1>2. MarksIInv /\ [InterfaceNext]_interfaceVars => MarksIInv'
  <2>1. [InterfaceNext]_interfaceVars => [Marks!Next]_(Marks!selVars)
    BY DEF InterfaceNext, interfaceVars, marksVars, Marks!selVars
  <2> QED
    BY <2>1, MarksStep
<1>3. MarksIInv => SelectionRight
  BY DEF MarksIInv, MarksKept, ListsShown, SelectionRight, Marks!SelectionRight, Marks!MarksMeant
<1> QED
  BY <1>1, <1>2, <1>3, PTL DEF InterfaceSpec

(* The user sees and types into one tab, or into the top line of the status bar; the history
   leads to open tabs; pinned tabs come first, and unpinning at once undoes pinning: whatever the
   order of commands, prompts, tabs that programs and answers close or replace, and clicks
   (lib/ui/tab.go, app/aerc.go, app/exline.go; TabsRight, for all accounts and any history). *)
THEOREM InterfaceTabs == InterfaceSpec => []TabsRight
<1>1. InterfaceInit => TabsIInv
  BY TabsInit DEF InterfaceInit
<1>2. TabsIInv /\ [InterfaceNext]_interfaceVars => TabsIInv'
  <2>1. [InterfaceNext]_interfaceVars => [Next]_barVars
    BY DEF InterfaceNext, interfaceVars
  <2> QED
    BY <2>1, TabsStep
<1> QED
  BY <1>1, <1>2, TabsImplied, PTL DEF InterfaceSpec

(* A body that is waited for comes or was given up, a viewer is closed with its tab and no tab
   keeps a closed one, and once every answer has come the viewer the user moved on in shows the
   message the list selects: whatever headers and bodies come late or twice, whatever is closed,
   deleted, or moved on meanwhile (lib/msgstore.go, lib/messageview.go, app/msgviewer.go,
   commands/account/next.go; ViewersRight, for all messages, tabs and orders of answers). *)
THEOREM InterfaceViewers == InterfaceSpec => []ViewersRight
<1>1. InterfaceInit => ViewersIInv
  BY ViewersInit DEF InterfaceInit
<1>2. ViewersIInv /\ [InterfaceNext]_interfaceVars => ViewersIInv'
  <2>1. [InterfaceNext]_interfaceVars => [Views!Next]_viewVars
    BY DEF InterfaceNext, interfaceVars
  <2> QED
    BY <2>1, ViewersStep
<1> QED
  BY <1>1, <1>2, ViewersImplied, PTL DEF InterfaceSpec

(* A composed message is in a tab, on its way, delivered, or saved as a draft until the user
   gives it up, and :quit counts it as long as it is only in a tab or on its way, unless a command
   overtakes a postponement: whichever of sending, copying, appending and recalling fails
   (commands/compose/send.go, postpone.go, commands/mode/noquit.go; SendingRight, for all folders
   and any number of failures). *)
THEOREM InterfaceSending == InterfaceSpec => []SendingRight
<1>1. InterfaceInit => SendingIInv
  BY SendingInit DEF InterfaceInit
<1>2. SendingIInv /\ [InterfaceNext]_interfaceVars => SendingIInv'
  <2>1. [InterfaceNext]_interfaceVars => [Sending!Next]_sendingVars
    BY DEF InterfaceNext, interfaceVars
  <2> QED
    BY <2>1, SendingStep
<1> QED
  BY <1>1, <1>2, SendingImplied, PTL DEF InterfaceSpec

(* No process waits for one that has ended; a command runs in one process only, unless the first
   ended before it answered; and the socket's file belongs to the one process that listens, unless
   two started at once: whatever asks, starts, quits, crashes or answers late in the meantime
   (main.go, lib/ipc/receive.go, lib/ipc/send.go; InstancesRight, for any set of processes). *)
THEOREM InterfaceInstances == InterfaceSpec => []InstancesRight
<1>1. InterfaceInit => PeersIInv
  BY PeersInit DEF InterfaceInit
<1>2. PeersIInv /\ [InterfaceNext]_interfaceVars => PeersIInv'
  <2>1. [InterfaceNext]_interfaceVars => [Peers!Next]_instancesVars
    BY DEF InterfaceNext, interfaceVars
  <2> QED
    BY <2>1, PeersStep
<1> QED
  BY <1>1, <1>2, PeersImplied, PTL DEF InterfaceSpec
=============================================================================
