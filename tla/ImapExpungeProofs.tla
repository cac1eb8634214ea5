-------------------------- MODULE ImapExpungeProofs --------------------------
(***************************************************************************)
(* Proofs about sequence numbers, for any mailboxes, any servers and any   *)
(* bounds: unless the worker was led astray, the sequence map is right at  *)
(* rest, the user interface drops only what is gone, and shows nothing     *)
(* that is gone.                                                           *)
(*                                                                         *)
(* An update tells a number that was right when the server sent it.  The   *)
(* invariant therefore speaks of the boxes c[1], c[2], ... that the        *)
(* mailbox was before each update that waits, the last one being what it   *)
(* is now.  The expunger and the sequence map together know the first of   *)
(* them but for new messages, and every expunge on the way takes one       *)
(* message to the next box, under the number it has there (or had when the *)
(* command began, if the server is stable).                                *)
(***************************************************************************)
EXTENDS ImapExpunge, FiniteSetTheorems, TLAPS

(* The messages of the expunger, and all the worker knows of.              *)
Held == {expunger.items[n] : n \in DOMAIN expunger.items}
Known == seqmap \cup Held

Prefix(A, S) == A \subseteq S /\ \A u \in A, v \in S \ A : u < v

Guided == astray \subseteq {"suppressed", "unlisted"}
Listed == astray \subseteq {"suppressed"}

-----------------------------------------------------------------------------
(* The way of the mailbox: c[i] is the box before the update q[i]. *)

(* The next of the messages S that a server expunges. *)
NextOf(order, u, S) ==
  /\ order = "low-to-high" => \A v \in S : u <= v
  /\ order = "high-to-low" => \A v \in S : v <= u

(* An update on the way of held messages.  An expunge that finds some of   *)
(* them takes one, under its number in ref.                                *)
ItemStep(m, S, T, held, order, ref) ==
  /\ m.kind # "expunge" => S \subseteq T
  /\ m.kind = "fetch" => m.uid \in S \cap held
  /\ m.kind = "expunge" => T \subseteq S
  /\ m.kind = "expunge" /\ S \cap held # {} =>
       \E u \in S \cap held : /\ T = S \ {u} /\ NextOf(order, u, S \cap held)
                              /\ m.seq = SeqNum(IF order = "stable" THEN ref ELSE S, u)

(* What is gone does not come back, ... *)
NoReturn(c, n, A) == \A i, j \in 1..n : i <= j => A \cap c[j] \subseteq c[i]
(* ... it goes by an expunge, ... *)
Leaves(c, q) == \A i \in 1..Len(q) : \A u \in c[i] :
                  u \in c[Len(q) + 1] \/ \E j \in i..Len(q) : q[j].kind = "expunge"
(* ... and new messages come last. *)
Later(c, n, A) == \A i \in 1..n : \A v \in c[i] \ c[1], u \in A : u < v

Items(c, q, held, order, ref) ==
  /\ c \in [1..(Len(q) + 1) -> SUBSET Nat]
  /\ \A i \in 1..(Len(q) + 1) : IsFiniteSet(c[i])
  /\ held \subseteq c[1]
  /\ \A i \in 1..Len(q) : ItemStep(q[i], c[i], c[i + 1], held, order, ref)
  /\ NoReturn(c, Len(q) + 1, held) /\ Later(c, Len(q) + 1, held) /\ Leaves(c, q)

(* In a mailbox that is listed the way ends in the mailbox as it is, and   *)
(* every other expunge takes a message, under its number.                  *)
OtherStep(m, S, T, held) ==
  m.kind = "expunge" /\ S \cap held = {} => \E u \in S : T = S \ {u} /\ m.seq = SeqNum(S, u)

Boxes(c, q, held, map, shown, end) ==
  /\ c[Len(q) + 1] = end
  /\ map \cap held = {} /\ Prefix(map \cup held, c[1])
  /\ \A i \in 1..Len(q) : OtherStep(q[i], c[i], c[i + 1], held)
  /\ NoReturn(c, Len(q) + 1, map \cup held) /\ Later(c, Len(q) + 1, map \cup held)
  /\ \A i \in 1..(Len(q) + 1) : shown \cap (c[i] \ c[1]) = {}
  /\ shown \cap c[1] \subseteq map \cup held

-----------------------------------------------------------------------------
(* The expunger *)

KeysRight(items, S) == \A n \in DOMAIN items : items[n] \in S /\ n = SeqNum(S, items[n])

(* The policy is that of the server, or will be chosen so at the first of  *)
(* the numbers.                                                            *)
Undecided(h) ==
  /\ h.policy = "auto" /\ ~h.gotFirst
  /\ h.minNum \in DOMAIN h.items /\ \A n \in DOMAIN h.items : h.minNum <= n
PolicyRight(h, order) ==
  CASE order = "low-to-high" -> h.policy = "low-to-high" \/ Undecided(h)
    [] order = "high-to-low" -> h.policy = "stable" \/ Undecided(h)
    [] order = "stable"      -> h.policy = "stable"

Reference(c) == IF server[2] = "stable" /\ pc # "store" THEN base ELSE c[1]
ExpungerRight(c) ==
  /\ KeysRight(expunger.items, Reference(c))
  /\ Held # {} => expunger.on /\ PolicyRight(expunger, server[2])

(* The messages of the expunger that are still in the mailbox.             *)
Remaining == CASE pc = "store" -> Held [] pc = "expunge" -> todo [] OTHER -> {}

(* A command runs in a mailbox that is listed, and expunges exactly its    *)
(* own messages.                                                           *)
CommandRight ==
  /\ pc # "select" =>
       /\ Listed /\ op.dir = sel /\ op.ok /\ Held \subseteq op.uids
       /\ op.uids \cap box[sel] = Remaining
       /\ op.kind = "delete" <=> expunger.forDelete
       /\ op.kind = "delete" => op.uids \subseteq ui[sel]
  /\ pc = "store" => \A i \in DOMAIN updates : updates[i].kind = "exists"
  /\ \A i \in DOMAIN updates : updates[i].kind = "fetch" => expunger.forDelete

(* What a delete has expunged is shown until it ends. *)
Deleting == IF pc # "select" /\ op.kind = "delete" THEN op.uids ELSE {}
ShownRight(c) ==
  /\ pc = "select" /\ expunger.forDelete => Held \cap ui[sel] = {}
  /\ astray = {} => ui[sel] \subseteq c[1] \cup Deleting

Way(c) ==
  /\ Items(c, updates, Held, server[2], base)
  /\ c[Len(updates) + 1] \cap Held = Remaining
  /\ ExpungerRight(c)
  /\ Listed => Boxes(c, updates, Held, seqmap, ui[sel], box[sel]) /\ ShownRight(c)

(* The UIDs that have been given to a message.                             *)
Given == 1..(MaxUid + mails)

Ways == [1..(Len(updates) + 1) -> SUBSET Given]
WayRight == CommandRight /\ \E c \in Ways : Way(c)

IInv ==
  /\ TypeOK
  /\ pc # "expunge" => todo = {}
  /\ op.uids \subseteq Given /\ \A d \in Dirs : box[d] \cup ui[d] \subseteq Given
  /\ "misfit" \in astray \/ Fits(server[1], server[2])
  /\ Guided => WayRight

-----------------------------------------------------------------------------
(* Sequence numbers *)

LEMMA SeqNumType ==
  ASSUME NEW S, IsFiniteSet(S), NEW u
  PROVE  /\ IsFiniteSet({v \in S : v <= u})
         /\ SeqNum(S, u) \in Nat /\ Cardinality(S) \in Nat /\ SeqNum(S, u) <= Cardinality(S)
         /\ u \in S /\ S \subseteq Nat => SeqNum(S, u) # 0
<1> DEFINE Upto == {v \in S : v <= u}
<1>1. Upto \in SUBSET S
  OBVIOUS
<1>2. IsFiniteSet(Upto) /\ Cardinality(Upto) <= Cardinality(S)
  BY <1>1, FS_Subset
<1>3. Cardinality(Upto) \in Nat /\ Cardinality(S) \in Nat
  BY <1>2, FS_CardinalityType
<1>4. ASSUME u \in S, S \subseteq Nat
      PROVE  Cardinality(Upto) # 0
  <2>1. u \in Upto
    BY <1>4
  <2> QED
    BY <1>2, <2>1, FS_EmptySet
<1> QED
  BY <1>2, <1>3, <1>4 DEF SeqNum

LEMMA SeqNumOrder ==
  ASSUME NEW S, S \subseteq Nat, IsFiniteSet(S), NEW u \in Nat, NEW v \in S, u < v
  PROVE  SeqNum(S, u) < SeqNum(S, v)
<1> DEFINE U == {w \in S : w <= u}
           V == {w \in S : w <= v}
<1>1. \A w \in S : w <= u => w <= v
  OBVIOUS
<1>2. v <= v /\ ~(v <= u)
  OBVIOUS
<1>3. U \in SUBSET V /\ v \in V /\ v \notin U
  BY <1>1, <1>2
<1>4. IsFiniteSet(V) /\ Cardinality(U) \in Nat /\ Cardinality(V) \in Nat
  BY SeqNumType DEF SeqNum
<1>5. Cardinality(U) <= Cardinality(V) /\ Cardinality(U) # Cardinality(V)
  BY <1>3, <1>4, FS_Subset
<1> QED
  BY <1>4, <1>5 DEF SeqNum

LEMMA SeqNumInjective ==
  ASSUME NEW S, S \subseteq Nat, IsFiniteSet(S), NEW u \in S, NEW v \in S, SeqNum(S, u) = SeqNum(S, v)
  PROVE  u = v
<1>1. u \in Nat /\ v \in Nat /\ SeqNum(S, u) \in Nat /\ SeqNum(S, v) \in Nat
  BY SeqNumType
<1>2. u < v => SeqNum(S, u) < SeqNum(S, v)
  BY <1>1, SeqNumOrder, Zenon
<1>3. v < u => SeqNum(S, v) < SeqNum(S, u)
  BY <1>1, SeqNumOrder, Zenon
<1> QED
  BY <1>1, <1>2, <1>3

(* New messages come after the old ones. *)
LEMMA SeqNumGrows ==
  ASSUME NEW S, NEW T, S \subseteq T, T \subseteq Nat, NEW u \in Nat, \A v \in T \ S : u < v
  PROVE  SeqNum(T, u) = SeqNum(S, u)
<1>1. \A v \in T : v <= u => v \in S
  OBVIOUS
<1>2. {v \in T : v <= u} = {v \in S : v <= u}
  BY <1>1
<1> QED
  BY <1>2 DEF SeqNum

(* The number of a message when another one goes. *)
LEMMA SeqNumWithout ==
  ASSUME NEW S, S \subseteq Nat, IsFiniteSet(S), NEW u \in S, NEW v \in S
  PROVE  /\ u < v => SeqNum(S \ {u}, v) = SeqNum(S, v) - 1
         /\ v < u => SeqNum(S \ {u}, v) = SeqNum(S, v)
<1> DEFINE V == {w \in S : w <= v}
<1>1. IsFiniteSet(V)
  BY SeqNumType
<1>2. CASE u < v
  <2>1. u \in V /\ {w \in S \ {u} : w <= v} = V \ {u}
    BY <1>2
  <2>2. Cardinality(V \ {u}) = Cardinality(V) - 1
    BY <1>1, <2>1, FS_RemoveElement
  <2>3. ~(v < u)
    BY <1>2
  <2> QED
    BY <2>1, <2>2, <2>3 DEF SeqNum
<1>3. CASE v < u
  <2>1. ~(u <= v) /\ ~(u < v)
    BY <1>3
  <2>2. {w \in S \ {u} : w <= v} = V
    BY <2>1
  <2> QED
    BY <2>1, <2>2 DEF SeqNum
<1> QED
  BY <1>2, <1>3

LEMMA NthOf ==
  ASSUME NEW S, S \subseteq Nat, IsFiniteSet(S), NEW u \in S
  PROVE  Nth(S, SeqNum(S, u)) = u
<1>1. \E v \in S : SeqNum(S, v) = SeqNum(S, u)
  OBVIOUS
<1>2. Nth(S, SeqNum(S, u)) \in S /\ SeqNum(S, Nth(S, SeqNum(S, u))) = SeqNum(S, u)
  BY <1>1 DEF Nth
<1> QED
  BY <1>2, SeqNumInjective

(* Every number up to the size of a mailbox is that of a message: numbers  *)
(* map it into an interval of its size.                                    *)
LEMMA NthRight ==
  ASSUME NEW S, S \subseteq Nat, IsFiniteSet(S), NEW n \in 1..Cardinality(S)
  PROVE  Nth(S, n) \in S /\ SeqNum(S, Nth(S, n)) = n
<1> DEFINE rank == [u \in S |-> SeqNum(S, u)]
           N == Cardinality(S)
<1>1. N \in Nat
  BY FS_CardinalityType
<1>2. ASSUME NEW u \in S
      PROVE  SeqNum(S, u) \in 1..N
  <2>1. SeqNum(S, u) \in Nat /\ SeqNum(S, u) <= N /\ SeqNum(S, u) # 0
    BY SeqNumType, Zenon
  <2> QED
    BY <1>1, <2>1
<1>3. rank \in [S -> 1..N]
  BY <1>2
<1>4. rank \in Injection(S, 1..N)
  BY <1>3, SeqNumInjective DEF Injection, IsInjective
<1>5. rank \in Surjection(S, 1..N)
  BY <1>1, <1>4, FS_Injection, FS_Interval
<1>6. \E u \in S : SeqNum(S, u) = n
  BY <1>5 DEF Surjection
<1> QED
  BY <1>6 DEF Nth

LEMMA Least ==
  ASSUME NEW S, S \subseteq Nat, IsFiniteSet(S), S # {}
  PROVE  \E u \in S : \A v \in S : u <= v
<1>1. Cardinality(S) \in Nat /\ Cardinality(S) # 0
  BY FS_CardinalityType, FS_EmptySet
<1>2. 1 \in 1..Cardinality(S)
  BY <1>1
<1>3. PICK u \in S : SeqNum(S, u) = 1
  BY <1>2, NthRight
<1>4. ASSUME NEW v \in S
      PROVE  u <= v
  <2>1. u \in Nat /\ v \in Nat
    OBVIOUS
  <2>2. SeqNum(S, v) \in Nat /\ SeqNum(S, v) # 0
    BY SeqNumType, Zenon
  <2>3. v < u => SeqNum(S, v) < SeqNum(S, u)
    BY <2>1, SeqNumOrder, Zenon
  <2> QED
    BY <1>3, <2>1, <2>2, <2>3
<1> QED
  BY <1>4

(* The numbers of known messages are those of the mailbox, the others are  *)
(* greater.                                                                *)
LEMMA PrefixNumbers ==
  ASSUME NEW A, NEW S, S \subseteq Nat, IsFiniteSet(S), Prefix(A, S)
  PROVE  /\ IsFiniteSet(A)
         /\ \A u \in A : SeqNum(A, u) = SeqNum(S, u)
         /\ \A u \in S \ A : SeqNum(S, u) > Cardinality(A)
<1>1. A \subseteq S /\ A \subseteq Nat /\ A \in SUBSET S
  BY DEF Prefix
<1>2. IsFiniteSet(A) /\ Cardinality(A) \in Nat
  BY <1>1, FS_Subset, FS_CardinalityType
<1>3. ASSUME NEW u \in A
      PROVE  SeqNum(A, u) = SeqNum(S, u)
  <2>1. \A v \in S \ A : u < v
    BY DEF Prefix
  <2> QED
    BY <1>1, <2>1, SeqNumGrows
<1>4. ASSUME NEW u \in S \ A
      PROVE  SeqNum(S, u) > Cardinality(A)
  <2> DEFINE V == {v \in S : v <= u}
  <2>1. \A v \in A : v < u
    BY DEF Prefix
  <2>2. A \in SUBSET V /\ u \in V /\ u \notin A
    BY <1>1, <2>1
  <2>3. IsFiniteSet(V) /\ Cardinality(V) \in Nat
    BY SeqNumType DEF SeqNum
  <2>4. Cardinality(A) <= Cardinality(V) /\ Cardinality(A) # Cardinality(V)
    BY <2>2, <2>3, FS_Subset
  <2> QED
    BY <1>2, <2>3, <2>4 DEF SeqNum
<1> QED
  BY <1>2, <1>3, <1>4

-----------------------------------------------------------------------------
(* The way after its first update *)

Rest(c, q) == [i \in 1..Len(q) |-> c[i + 1]]

LEMMA ItemsRest ==
  ASSUME NEW c, NEW q \in Seq(UpdateRecords), q # <<>>, NEW held, NEW order, NEW ref,
         Items(c, q, held, order, ref),
         NEW gone, gone \subseteq held, held \ gone \subseteq c[2],
         held = {} \/ c[1] \subseteq c[2] \cup gone,
         \A i \in 2..(Len(q) + 1) : c[i] \cap gone = {}
  PROVE  Items(Rest(c, q), Tail(q), held \ gone, order, ref)
<1> DEFINE n == Len(q)
           d == Rest(c, q)
           p == Tail(q)
<1>1. n \in Nat /\ n >= 1 /\ Len(p) = n - 1 /\ \A i \in 1..(n - 1) : p[i] = q[i + 1]
  OBVIOUS
<1>2. DOMAIN d = 1..n /\ d = [i \in 1..n |-> d[i]] /\ \A i \in 1..n : d[i] = c[i + 1]
  BY DEF Rest
<1>3. \A i \in 1..n : i + 1 \in 2..(n + 1) /\ i + 1 \in 1..(n + 1)
  BY <1>1
<1>4. d \in [1..(Len(p) + 1) -> SUBSET Nat] /\ \A i \in 1..(Len(p) + 1) : IsFiniteSet(d[i])
  BY <1>1, <1>2, <1>3 DEF Items
<1>5. held \ gone \subseteq d[1]
  BY <1>1, <1>2
<1>6. ASSUME NEW i \in 1..Len(p)
      PROVE  ItemStep(p[i], d[i], d[i + 1], held \ gone, order, ref)
  <2>1. i + 1 \in 1..n /\ i \in 1..n /\ p[i] = q[i + 1]
    BY <1>1
  <2>2. ItemStep(q[i + 1], c[i + 1], c[i + 2], held, order, ref)
    BY <2>1 DEF Items
  <2>3. d[i] = c[i + 1] /\ d[i + 1] = c[i + 2] /\ c[i + 1] \cap gone = {}
    BY <1>2, <1>3, <2>1
  <2>4. c[i + 1] \cap held = c[i + 1] \cap (held \ gone)
    BY <2>3
  <2> QED
    BY <2>1, <2>2, <2>3, <2>4 DEF ItemStep
<1>7. NoReturn(d, Len(p) + 1, held \ gone)
  BY <1>1, <1>2, <1>3 DEF Items, NoReturn
<1>8. ASSUME NEW i \in 1..(Len(p) + 1), NEW v \in d[i] \ d[1], NEW u \in held \ gone
      PROVE  u < v
  <2>1. v \in c[i + 1] /\ v \notin c[2] /\ v \notin gone /\ i + 1 \in 1..(n + 1)
    BY <1>1, <1>2, <1>3
  <2>2. v \in c[i + 1] \ c[1]
    BY <2>1
  <2> QED
    BY <2>1, <2>2 DEF Items, Later
<1>9. ASSUME NEW i \in 1..Len(p), NEW u \in d[i]
      PROVE  u \in d[Len(p) + 1] \/ \E j \in i..Len(p) : p[j].kind = "expunge"
  <2>1. i + 1 \in 1..n /\ u \in c[i + 1] /\ d[Len(p) + 1] = c[n + 1]
    BY <1>1, <1>2
  <2>2. u \in c[n + 1] \/ \E j \in (i + 1)..n : q[j].kind = "expunge"
    BY <2>1 DEF Items, Leaves
  <2>3. ASSUME NEW j \in (i + 1)..n, q[j].kind = "expunge"
        PROVE  j - 1 \in i..Len(p) /\ p[j - 1].kind = "expunge"
    BY <1>1, <2>3
  <2> QED
    BY <2>1, <2>2, <2>3
<1> QED
  BY <1>4, <1>5, <1>6, <1>7, <1>8, <1>9 DEF Items, Later, Leaves

LEMMA BoxesRest ==
  ASSUME NEW c, NEW q \in Seq(UpdateRecords), q # <<>>, NEW held, NEW map, NEW shown, NEW end,
         c \in [1..(Len(q) + 1) -> SUBSET Nat], Boxes(c, q, held, map, shown, end),
         NEW gone, gone \subseteq c[1], gone \cap c[2] = {}, c[1] \subseteq c[2] \cup gone,
         NEW shown2, shown2 \subseteq shown
  PROVE  Boxes(Rest(c, q), Tail(q), held \ gone, map \ gone, shown2, end)
<1> DEFINE n == Len(q)
           d == Rest(c, q)
           p == Tail(q)
           A == map \cup held
           B == (map \ gone) \cup (held \ gone)
<1>1. n \in Nat /\ n >= 1 /\ Len(p) = n - 1 /\ \A i \in 1..(n - 1) : p[i] = q[i + 1]
  OBVIOUS
<1>2. \A i \in 1..n : d[i] = c[i + 1] /\ i + 1 \in 1..(n + 1)
  BY <1>1 DEF Rest
<1>3. B = A \ gone /\ 1 \in 1..n /\ 2 \in 1..(n + 1) /\ d[1] = c[2]
  BY <1>1, <1>2
<1>4. \A i \in 1..n : A \cap c[i + 1] \subseteq c[2] /\ c[i + 1] \cap A \cap gone = {}
  <2>1. \A i \in 1..n : 2 <= i + 1 /\ i + 1 \in 1..(n + 1)
    BY <1>1
  <2> QED
    BY <1>3, <2>1 DEF Boxes, NoReturn
<1>5. \A i \in 1..n : \A v \in c[i + 1] \ c[1], u \in A : u < v
  BY <1>2 DEF Boxes, Later
<1>6. d[Len(p) + 1] = end
  BY <1>1, <1>2 DEF Boxes
<1>7. (map \ gone) \cap (held \ gone) = {}
  BY DEF Boxes
<1>8. Prefix(B, d[1])
  <2>1. B \subseteq c[2]
    BY <1>3 DEF Boxes, Prefix
  <2>2. ASSUME NEW u \in B, NEW v \in c[2] \ B
        PROVE  u < v
    <3>1. CASE v \in c[1]
      BY <1>3, <3>1 DEF Boxes, Prefix
    <3>2. CASE v \notin c[1]
      <4>1. 1 \in 1..n /\ v \in c[1 + 1] \ c[1] /\ u \in A
        BY <1>3, <3>2
      <4> QED
        BY <1>5, <4>1
    <3> QED
      BY <3>1, <3>2
  <2> QED
    BY <1>3, <2>1, <2>2 DEF Prefix
<1>9. ASSUME NEW i \in 1..Len(p)
      PROVE  OtherStep(p[i], d[i], d[i + 1], held \ gone)
  <2>1. i + 1 \in 1..n /\ i \in 1..n /\ p[i] = q[i + 1]
    BY <1>1
  <2>2. OtherStep(q[i + 1], c[i + 1], c[i + 2], held)
    BY <2>1 DEF Boxes
  <2>3. d[i] = c[i + 1] /\ d[i + 1] = c[i + 2]
    BY <1>2, <2>1
  <2>4. c[i + 1] \cap held = c[i + 1] \cap (held \ gone)
    BY <1>4, <2>1
  <2> QED
    BY <2>1, <2>2, <2>3, <2>4 DEF OtherStep
<1>10. NoReturn(d, Len(p) + 1, B)
  BY <1>1, <1>2, <1>3 DEF Boxes, NoReturn
<1>11. ASSUME NEW i \in 1..(Len(p) + 1), NEW v \in d[i] \ d[1], NEW u \in B
       PROVE  u < v
  <2>1. i \in 1..n /\ v \in c[i + 1] /\ v \notin c[2] /\ u \in A
    BY <1>1, <1>2, <1>3
  <2>2. CASE v \notin c[1]
    BY <1>5, <2>1, <2>2
  <2>3. CASE v \in c[1]
    <3>1. v \in gone /\ v \notin A
      BY <1>4, <2>1, <2>3
    <3> QED
      BY <2>1, <2>3, <3>1 DEF Boxes, Prefix
  <2> QED
    BY <2>2, <2>3
<1>12. ASSUME NEW i \in 1..(Len(p) + 1), NEW u \in shown2
       PROVE  u \notin d[i] \ d[1]
  <2>1. i \in 1..n /\ u \in shown
    BY <1>1
  <2>2. u \in c[i + 1] => u \in c[1] /\ u \in A
    BY <1>2, <2>1 DEF Boxes
  <2>3. u \in c[i + 1] => u \in c[2]
    BY <1>4, <2>1, <2>2
  <2> QED
    BY <1>2, <1>3, <2>1, <2>3
<1>13. ASSUME NEW u \in shown2, u \in d[1]
       PROVE  u \in B
  <2>1. u \in c[1]
    BY <1>3, <1>13 DEF Boxes
  <2> QED
    BY <1>3, <1>13, <2>1 DEF Boxes
<1> QED
  BY <1>1, <1>6, <1>7, <1>8, <1>9, <1>10, <1>11, <1>12, <1>13 DEF Boxes, Later

(* The way with more updates: the first of them leads to T, the others     *)
(* stay there.                                                             *)
Extended(c, q, p, T) == [i \in 1..(Len(p) + 1) |-> IF i <= Len(q) + 1 THEN c[i] ELSE T]
Onto(c, q, i, T) == IF i = Len(q) + 1 THEN c[i] ELSE T
Extends(p, q) == /\ Len(q) \in Nat /\ Len(p) \in Nat /\ Len(q) <= Len(p)
                 /\ \A i \in 1..Len(q) : p[i] = q[i]

LEMMA ExtendedValues ==
  ASSUME NEW c, NEW q, NEW p, Extends(p, q), NEW T
  PROVE  /\ \A i \in 1..(Len(q) + 1) : i \in 1..(Len(p) + 1) /\ Extended(c, q, p, T)[i] = c[i]
         /\ \A i \in (Len(q) + 2)..(Len(p) + 1) : Extended(c, q, p, T)[i] = T
         /\ \A i \in (Len(q) + 1)..Len(p) : /\ Extended(c, q, p, T)[i] = Onto(c, q, i, T)
                                            /\ Extended(c, q, p, T)[i + 1] = T
<1>1. \A i \in 1..(Len(q) + 1) : i \in 1..(Len(p) + 1) /\ i <= Len(q) + 1
  BY DEF Extends
<1>2. \A i \in (Len(q) + 2)..(Len(p) + 1) : i \in 1..(Len(p) + 1) /\ ~(i <= Len(q) + 1)
  BY DEF Extends
<1>3. ASSUME NEW i \in (Len(q) + 1)..Len(p)
      PROVE  /\ Extended(c, q, p, T)[i] = Onto(c, q, i, T)
             /\ Extended(c, q, p, T)[i + 1] = T
  <2>1. i \in 1..(Len(p) + 1) /\ i + 1 \in 1..(Len(p) + 1) /\ ~(i + 1 <= Len(q) + 1)
    BY DEF Extends
  <2>2. i <= Len(q) + 1 <=> i = Len(q) + 1
    BY DEF Extends
  <2> QED
    BY <2>1, <2>2 DEF Extended, Onto
<1> QED
  BY <1>1, <1>2, <1>3 DEF Extended

LEMMA ItemsExtended ==
  ASSUME NEW c, NEW q, NEW p, Extends(p, q), NEW held, NEW order, NEW ref, Items(c, q, held, order, ref),
         NEW T, T \subseteq Nat, IsFiniteSet(T), held \cap T \subseteq c[Len(q) + 1],
         \A v \in T \ c[Len(q) + 1], u \in held : u < v,
         \A i \in (Len(q) + 1)..Len(p) : ItemStep(p[i], Onto(c, q, i, T), T, held, order, ref),
         \/ c[Len(q) + 1] \subseteq T
         \/ \E i \in (Len(q) + 1)..Len(p) : p[i].kind = "expunge"
  PROVE  Items(Extended(c, q, p, T), p, held, order, ref)
<1> DEFINE n == Len(q)
           m == Len(p)
           d == Extended(c, q, p, T)
<1>1. n \in Nat /\ m \in Nat /\ n <= m /\ \A i \in 1..n : p[i] = q[i]
  BY DEF Extends
<1>2. /\ \A i \in 1..(n + 1) : i \in 1..(m + 1) /\ d[i] = c[i]
      /\ \A i \in (n + 2)..(m + 1) : d[i] = T
      /\ \A i \in (n + 1)..m : d[i] = Onto(c, q, i, T) /\ d[i + 1] = T
  BY ExtendedValues
<1>3. DOMAIN d = 1..(m + 1) /\ d = [i \in 1..(m + 1) |-> d[i]]
  BY DEF Extended
<1>4. \A i \in 1..(m + 1) : i \in 1..(n + 1) \/ i \in (n + 2)..(m + 1)
  BY <1>1
<1>5. 1 \in 1..(n + 1) /\ n + 1 \in 1..(n + 1) /\ d[1] = c[1]
  BY <1>1, <1>2
<1>6. /\ \A i \in 1..(n + 1) : c[i] \subseteq Nat /\ IsFiniteSet(c[i])
      /\ held \subseteq c[1]
  BY DEF Items
<1>7. \A i \in 1..(m + 1) : d[i] \in SUBSET Nat /\ IsFiniteSet(d[i])
  BY <1>2, <1>4, <1>6
<1>8. ASSUME NEW i \in 1..m
      PROVE  ItemStep(p[i], d[i], d[i + 1], held, order, ref)
  <2>1. CASE i \in (n + 1)..m
    BY <1>2, <2>1
  <2>2. CASE i \notin (n + 1)..m
    <3>1. i \in 1..n /\ i \in 1..(n + 1) /\ i + 1 \in 1..(n + 1)
      BY <1>1, <2>2
    <3> QED
      BY <1>1, <1>2, <3>1 DEF Items
  <2> QED
    BY <2>1, <2>2
<1>9. ASSUME NEW i \in 1..(m + 1), NEW j \in 1..(m + 1), i <= j
      PROVE  held \cap d[j] \subseteq d[i]
  <2>1. \A k \in 1..(n + 1) : held \cap c[n + 1] \subseteq c[k]
    <3>1. \A k \in 1..(n + 1) : k <= n + 1
      BY <1>1
    <3> QED
      BY <1>5, <3>1 DEF Items, NoReturn
  <2>2. CASE j \in 1..(n + 1)
    <3>1. i \in 1..(n + 1)
      BY <1>1, <1>9, <2>2
    <3> QED
      BY <1>2, <1>9, <2>2, <3>1 DEF Items, NoReturn
  <2>3. CASE j \in (n + 2)..(m + 1) /\ i \in 1..(n + 1)
    BY <1>2, <2>1, <2>3
  <2>4. CASE j \in (n + 2)..(m + 1) /\ i \in (n + 2)..(m + 1)
    BY <1>2, <2>4
  <2> QED
    BY <1>4, <2>2, <2>3, <2>4
<1>10. ASSUME NEW i \in 1..(m + 1), NEW v \in d[i] \ d[1], NEW u \in held
       PROVE  u < v
  <2>1. \A k \in 1..(n + 1) : v \in c[k] => u < v
    BY <1>5, <1>10 DEF Items, Later
  <2>2. v \in T => u < v
    BY <1>5, <2>1
  <2> QED
    BY <1>2, <1>4, <2>1, <2>2
<1>11. ASSUME NEW i \in 1..m, NEW u \in d[i]
       PROVE  u \in d[m + 1] \/ \E j \in i..m : p[j].kind = "expunge"
  <2>1. CASE m = n
    <3>1. i \in 1..n /\ u \in c[i] /\ d[m + 1] = c[n + 1]
      BY <1>2, <1>5, <2>1
    <3>2. u \in c[n + 1] \/ \E j \in i..n : q[j].kind = "expunge"
      BY <3>1 DEF Items, Leaves
    <3>3. \A j \in i..n : j \in i..m /\ p[j] = q[j]
      BY <1>1, <2>1
    <3> QED
      BY <3>1, <3>2, <3>3
  <2>2. CASE m # n
    <3>1. d[m + 1] = T
      BY <1>1, <1>2, <2>2
    <3>2. CASE i \in (n + 2)..(m + 1)
      BY <1>2, <3>1, <3>2
    <3>3. CASE i \in 1..(n + 1)
      <4>1. u \in c[i] /\ (i \in 1..n \/ i = n + 1)
        BY <1>1, <1>2, <3>3
      <4>2. u \in c[n + 1] \/ \E j \in i..n : q[j].kind = "expunge"
        BY <4>1 DEF Items, Leaves
      <4>3. \A j \in i..n : j \in i..m /\ p[j] = q[j]
        BY <1>1
      <4>4. \A j \in (n + 1)..m : j \in i..m
        BY <1>1, <3>3
      <4> QED
        BY <3>1, <4>2, <4>3, <4>4
    <3> QED
      BY <1>4, <3>2, <3>3
  <2> QED
    BY <2>1, <2>2
<1>12. d \in [1..(m + 1) -> SUBSET Nat] /\ \A i \in 1..(m + 1) : IsFiniteSet(d[i])
  BY <1>3, <1>7
<1>13. held \subseteq d[1]
  BY <1>5, <1>6
<1> QED
  BY <1>8, <1>9, <1>10, <1>11, <1>12, <1>13 DEF Items, NoReturn, Later, Leaves

LEMMA BoxesExtended ==
  ASSUME NEW c, NEW q, NEW p, Extends(p, q), NEW held, NEW map, NEW shown, NEW end,
         Boxes(c, q, held, map, shown, end),
         NEW T, (map \cup held) \cap T \subseteq end, shown \cap (T \ end) = {},
         \A v \in T \ end, u \in map \cup held : u < v,
         \A i \in (Len(q) + 1)..Len(p) : OtherStep(p[i], Onto(c, q, i, T), T, held),
         Len(p) = Len(q) => T = end
  PROVE  Boxes(Extended(c, q, p, T), p, held, map, shown, T)
<1> DEFINE n == Len(q)
           m == Len(p)
           d == Extended(c, q, p, T)
           A == map \cup held
<1>1. n \in Nat /\ m \in Nat /\ n <= m /\ \A i \in 1..n : p[i] = q[i]
  BY DEF Extends
<1>2. /\ \A i \in 1..(n + 1) : i \in 1..(m + 1) /\ d[i] = c[i]
      /\ \A i \in (n + 2)..(m + 1) : d[i] = T
      /\ \A i \in (n + 1)..m : d[i] = Onto(c, q, i, T) /\ d[i + 1] = T
  BY ExtendedValues
<1>3. \A i \in 1..(m + 1) : i \in 1..(n + 1) \/ i \in (n + 2)..(m + 1)
  BY <1>1
<1>4. 1 \in 1..(n + 1) /\ n + 1 \in 1..(n + 1) /\ d[1] = c[1] /\ c[n + 1] = end
  BY <1>1, <1>2 DEF Boxes
<1>5. d[m + 1] = T
  <2>1. CASE m = n
    BY <1>2, <1>4, <2>1
  <2>2. CASE m # n
    BY <1>1, <1>2, <2>2
  <2> QED
    BY <2>1, <2>2
<1>6. ASSUME NEW i \in 1..m
      PROVE  OtherStep(p[i], d[i], d[i + 1], held)
  <2>1. CASE i \in (n + 1)..m
    BY <1>2, <2>1
  <2>2. CASE i \notin (n + 1)..m
    <3>1. i \in 1..n /\ i \in 1..(n + 1) /\ i + 1 \in 1..(n + 1)
      BY <1>1, <2>2
    <3> QED
      BY <1>1, <1>2, <3>1 DEF Boxes
  <2> QED
    BY <2>1, <2>2
<1>7. ASSUME NEW i \in 1..(m + 1), NEW j \in 1..(m + 1), i <= j
      PROVE  A \cap d[j] \subseteq d[i]
  <2>1. \A k \in 1..(n + 1) : A \cap c[n + 1] \subseteq c[k]
    <3>1. \A k \in 1..(n + 1) : k <= n + 1
      BY <1>1
    <3> QED
      BY <1>4, <3>1 DEF Boxes, NoReturn
  <2>2. CASE j \in 1..(n + 1)
    <3>1. i \in 1..(n + 1)
      BY <1>1, <1>7, <2>2
    <3> QED
      BY <1>2, <1>7, <2>2, <3>1 DEF Boxes, NoReturn
  <2>3. CASE j \in (n + 2)..(m + 1) /\ i \in 1..(n + 1)
    BY <1>2, <1>4, <2>1, <2>3
  <2>4. CASE j \in (n + 2)..(m + 1) /\ i \in (n + 2)..(m + 1)
    BY <1>2, <2>4
  <2> QED
    BY <1>3, <2>2, <2>3, <2>4
<1>8. ASSUME NEW i \in 1..(m + 1), NEW v \in d[i] \ d[1], NEW u \in A
      PROVE  u < v
  <2>1. \A k \in 1..(n + 1) : v \in c[k] => u < v
    BY <1>4, <1>8 DEF Boxes, Later
  <2>2. v \in T => u < v
    BY <1>4, <2>1
  <2> QED
    BY <1>2, <1>3, <2>1, <2>2
<1>9. ASSUME NEW i \in 1..(m + 1)
      PROVE  shown \cap (d[i] \ d[1]) = {}
  <2>1. \A k \in 1..(n + 1) : shown \cap (c[k] \ c[1]) = {}
    BY DEF Boxes
  <2>2. shown \cap (T \ c[1]) = {}
    BY <1>4, <2>1
  <2> QED
    BY <1>2, <1>3, <1>4, <2>1, <2>2
<1>10. /\ map \cap held = {} /\ Prefix(A, d[1])
       /\ shown \cap d[1] \subseteq A
  BY <1>4 DEF Boxes
<1> QED
  BY <1>5, <1>6, <1>7, <1>8, <1>9, <1>10 DEF Boxes, NoReturn, Later

(* A queue that tells of new messages alone: nothing has gone, and the     *)
(* messages the expunger holds can be chosen anew.                         *)
Calm(q) == \A i \in 1..Len(q) : q[i].kind = "exists"

LEMMA CalmKeeps ==
  ASSUME NEW c, NEW q, Len(q) \in Nat, Calm(q), NEW held, NEW order, NEW ref,
         Items(c, q, held, order, ref)
  PROVE  c[1] \subseteq c[Len(q) + 1]
<1>1. CASE Len(q) = 0
  BY <1>1
<1>2. CASE Len(q) # 0
  <2>1. 1 \in 1..Len(q)
    BY <1>2
  <2>2. \A j \in 1..Len(q) : q[j].kind # "expunge"
    BY DEF Calm
  <2> QED
    BY <2>1, <2>2 DEF Items, Leaves
<1> QED
  BY <1>1, <1>2

LEMMA CalmItems ==
  ASSUME NEW c, NEW q, Len(q) \in Nat, Calm(q), NEW held, NEW order, NEW ref,
         Items(c, q, held, order, ref), NEW held2, NEW ref2,
         held2 \subseteq c[1], NoReturn(c, Len(q) + 1, held2), Later(c, Len(q) + 1, held2)
  PROVE  Items(c, q, held2, order, ref2)
<1>1. ASSUME NEW i \in 1..Len(q)
      PROVE  ItemStep(q[i], c[i], c[i + 1], held2, order, ref2)
  <2>1. q[i].kind = "exists" /\ ItemStep(q[i], c[i], c[i + 1], held, order, ref)
    BY DEF Calm, Items
  <2> QED
    BY <2>1 DEF ItemStep
<1> QED
  BY <1>1 DEF Items

-----------------------------------------------------------------------------
(* The expunger: what it does with a number that is the next one. *)

Values(f) == {f[n] : n \in DOMAIN f}
Handlers(items) == [on : BOOLEAN, policy : Policies, items : items, minNum : Nat,
                    forDelete : BOOLEAN, gotFirst : BOOLEAN]
Handler(h) == h \in Handlers({h.items})
Chosen(h, n) == IF h.gotFirst \/ h.policy # "auto" THEN h.policy
                ELSE IF n = h.minNum THEN "low-to-high" ELSE "stable"
Kept(h, n) == IF n \in DOMAIN h.items /\ Chosen(h, n) = "low-to-high"
              THEN Decremented(Without(h.items, n)) ELSE Without(h.items, n)

LEMMA PoppedFields ==
  ASSUME NEW h, Handler(h), NEW n
  PROVE  LET new == Popped(h, n) IN
         /\ Handler(new) /\ new.gotFirst = TRUE
         /\ new.on = h.on /\ new.forDelete = h.forDelete /\ new.minNum = h.minNum
         /\ new.policy = Chosen(h, n) /\ new.items = Kept(h, n)
<1>1. PICK policy : policy = Chosen(h, n)
  OBVIOUS
<1>2. PICK items : items = Kept(h, n)
  OBVIOUS
<1>3. policy \in Policies
  BY <1>1 DEF Handler, Handlers, Chosen, Policies
<1>4. Popped(h, n) = [h EXCEPT !.gotFirst = TRUE, !.policy = policy, !.items = items]
  BY <1>1, <1>2 DEF Popped, Chosen, Kept
<1>5. /\ Popped(h, n) \in Handlers({items}) /\ Popped(h, n).gotFirst = TRUE
      /\ Popped(h, n).on = h.on /\ Popped(h, n).forDelete = h.forDelete
      /\ Popped(h, n).minNum = h.minNum
      /\ Popped(h, n).policy = policy /\ Popped(h, n).items = items
  BY <1>3, <1>4 DEF Handler, Handlers
<1> QED
  BY <1>1, <1>2, <1>5 DEF Handler

LEMMA WithoutValues ==
  ASSUME NEW f, NEW n \in DOMAIN f, \A m \in DOMAIN f : f[m] = f[n] => m = n
  PROVE  Values(Without(f, n)) = Values(f) \ {f[n]}
BY DEF Values, Without

LEMMA DecrementedValues ==
  ASSUME NEW f, \A n \in DOMAIN f : n \in Int
  PROVE  Values(Decremented(f)) = Values(f)
<1>1. \A n \in DOMAIN f : (n - 1) + 1 = n
  OBVIOUS
<1>2. /\ DOMAIN Decremented(f) = {n - 1 : n \in DOMAIN f}
      /\ \A n \in DOMAIN f : Decremented(f)[n - 1] = f[n]
  BY <1>1 DEF Decremented
<1> QED
  BY <1>2 DEF Values

(* The number n of u in S takes u from the messages held. *)
PopsRight(h, n, S, held, order, u) ==
  /\ n \in DOMAIN h.items /\ h.items[n] = u
  /\ Values(Popped(h, n).items) = held \ {u}
  /\ KeysRight(Popped(h, n).items, IF order = "stable" THEN S ELSE S \ {u})
  /\ held \ {u} # {} => PolicyRight(Popped(h, n), order)

LEMMA PoppedRight ==
  ASSUME NEW h, Handler(h), NEW S, S \subseteq Nat, IsFiniteSet(S),
         NEW held, held = Values(h.items), held \subseteq S, KeysRight(h.items, S),
         NEW order \in Orders, PolicyRight(h, order), NEW u \in held, NextOf(order, u, held)
  PROVE  PopsRight(h, SeqNum(S, u), S, held, order, u)
<1> DEFINE f == h.items
           n == SeqNum(S, u)
           new == Popped(h, n)
           rest == Without(f, n)
<1>1. ASSUME NEW m \in DOMAIN f
      PROVE  f[m] \in S /\ f[m] \in Nat /\ f[m] \in held /\ m = SeqNum(S, f[m]) /\ m \in Nat
  <2>1. f[m] \in held /\ m = SeqNum(S, f[m])
    BY DEF Values, KeysRight
  <2>2. SeqNum(S, f[m]) \in Nat
    BY SeqNumType
  <2> QED
    BY <2>1, <2>2
<1>2. u \in S /\ u \in Nat /\ n \in Nat
  BY SeqNumType
<1>3. n \in DOMAIN f /\ f[n] = u
  <2>1. PICK m \in DOMAIN f : f[m] = u
    BY DEF Values
  <2> QED
    BY <1>1, <2>1
<1>4. \A m \in DOMAIN f : f[m] = f[n] => m = n
  BY <1>1, <1>3
<1>5. Values(rest) = held \ {u}
  BY <1>3, <1>4, WithoutValues
<1>6. DOMAIN rest = DOMAIN f \ {n} /\ \A m \in DOMAIN f \ {n} : rest[m] = f[m] /\ m \in Int
  BY <1>1 DEF Without
<1>7. new.items = Kept(h, n) /\ new.policy = Chosen(h, n) /\ new.gotFirst = TRUE
  BY PoppedFields
<1>8. Values(new.items) = held \ {u}
  BY <1>5, <1>6, <1>7, DecrementedValues DEF Kept
<1>9. \A m \in DOMAIN f \ {n} : f[m] # u
  BY <1>3, <1>4
<1>10. ASSUME NEW m \in DOMAIN f
       PROVE  /\ u < f[m] => n < m /\ SeqNum(S \ {u}, f[m]) = m - 1
              /\ f[m] < u => m < n /\ SeqNum(S \ {u}, f[m]) = m
  <2>1. f[m] \in S /\ m = SeqNum(S, f[m]) /\ f[m] \in Nat
    BY <1>1
  <2>2. u < f[m] => n < m
    BY <1>2, <2>1, SeqNumOrder
  <2>3. f[m] < u => m < n
    BY <1>2, <2>1, SeqNumOrder
  <2> QED
    BY <1>2, <2>1, <2>2, <2>3, SeqNumWithout
<1>11. CASE order = "stable"
  <2>1. h.policy = "stable"
    BY <1>11 DEF PolicyRight
  <2>2. Chosen(h, n) = "stable"
    BY <2>1 DEF Chosen
  <2>3. new.items = rest
    BY <1>7, <2>2 DEF Kept
  <2>4. KeysRight(rest, S)
    BY <1>1, <1>6 DEF KeysRight
  <2>5. PolicyRight(new, order)
    BY <1>7, <1>11, <2>2 DEF PolicyRight
  <2> QED
    BY <1>3, <1>8, <1>11, <2>3, <2>4, <2>5 DEF PopsRight
<1>12. CASE order = "low-to-high"
  <2>1. \A m \in DOMAIN f \ {n} : u < f[m]
    <3>1. \A v \in held : u <= v
      BY <1>12 DEF NextOf
    <3> QED
      BY <1>1, <1>2, <1>9, <3>1
  <2>2. Chosen(h, n) = "low-to-high"
    <3>1. CASE h.policy = "low-to-high"
      BY <3>1 DEF Chosen
    <3>2. CASE Undecided(h)
      <4>1. h.minNum \in DOMAIN f /\ h.minNum <= n
        BY <1>3, <3>2 DEF Undecided
      <4>2. h.minNum # n => n < h.minNum /\ h.minNum \in Nat
        BY <1>1, <1>10, <2>1, <4>1
      <4>3. n = h.minNum
        BY <1>2, <4>1, <4>2
      <4> QED
        BY <3>2, <4>3 DEF Undecided, Chosen
    <3> QED
      BY <1>12, <3>1, <3>2 DEF PolicyRight
  <2>3. new.items = Decremented(rest)
    BY <1>3, <1>7, <2>2 DEF Kept
  <2>4. ASSUME NEW k \in DOMAIN Decremented(rest)
        PROVE  Decremented(rest)[k] \in S \ {u} /\ k = SeqNum(S \ {u}, Decremented(rest)[k])
    <3>1. PICK m \in DOMAIN rest : k = m - 1
      BY DEF Decremented
    <3>2. m \in DOMAIN f \ {n} /\ k + 1 = m
      BY <1>6, <3>1
    <3>3. Decremented(rest)[k] = f[m]
      BY <1>6, <3>2 DEF Decremented
    <3>4. f[m] \in S \ {u}
      BY <1>1, <1>9, <3>2
    <3> QED
      BY <1>10, <2>1, <3>1, <3>2, <3>3, <3>4
  <2>5. PolicyRight(new, order)
    BY <1>7, <1>12, <2>2 DEF PolicyRight
  <2> QED
    BY <1>3, <1>8, <1>12, <2>3, <2>4, <2>5 DEF KeysRight, PopsRight
<1>13. CASE order = "high-to-low"
  <2>1. \A m \in DOMAIN f \ {n} : f[m] < u
    <3>1. \A v \in held : v <= u
      BY <1>13 DEF NextOf
    <3> QED
      BY <1>1, <1>2, <1>9, <3>1
  <2>2. CASE DOMAIN rest = {}
    <3>1. new.items = rest \/ new.items = Decremented(rest)
      BY <1>7 DEF Kept
    <3>2. DOMAIN new.items = {}
      BY <2>2, <3>1 DEF Decremented
    <3>3. held \ {u} = {}
      BY <1>5, <2>2 DEF Values
    <3> QED
      BY <1>3, <1>8, <3>2, <3>3 DEF KeysRight, PopsRight
  <2>3. CASE DOMAIN rest # {}
    <3>1. PICK m \in DOMAIN f : m < n
      BY <1>6, <1>10, <2>1, <2>3
    <3>2. Chosen(h, n) = "stable"
      <4>1. CASE h.policy = "stable"
        BY <4>1 DEF Chosen
      <4>2. CASE Undecided(h)
        <5>1. h.minNum \in DOMAIN f /\ h.minNum <= m
          BY <4>2 DEF Undecided
        <5>2. n # h.minNum
          BY <1>1, <1>2, <3>1, <5>1
        <5> QED
          BY <4>2, <5>2 DEF Undecided, Chosen
      <4> QED
        BY <1>13, <4>1, <4>2 DEF PolicyRight
    <3>3. new.items = rest
      BY <1>7, <3>2 DEF Kept
    <3>4. KeysRight(rest, S \ {u})
      <4>1. \A k \in DOMAIN rest : k \in DOMAIN f /\ rest[k] = f[k] /\ f[k] < u /\ f[k] \in S \ {u}
        BY <1>1, <1>6, <1>9, <2>1
      <4> QED
        BY <1>10, <4>1 DEF KeysRight
    <3>5. PolicyRight(new, order)
      BY <1>7, <1>13, <3>2 DEF PolicyRight
    <3> QED
      BY <1>3, <1>8, <1>13, <3>3, <3>4, <3>5 DEF PopsRight
  <2> QED
    BY <2>2, <2>3
<1>14. PopsRight(h, n, S, held, order, u)
  BY <1>11, <1>12, <1>13 DEF Orders, PopsRight
<1> QED
  BY <1>14

-----------------------------------------------------------------------------
(* What the types say. *)

LEMMA Shape ==
  ASSUME TypeOK
  PROVE  /\ updates \in Seq(UpdateRecords) /\ Len(updates) \in Nat
         /\ server[1] \in Policies /\ server[2] \in Orders
         /\ sel \in Dirs /\ pc \in {"select", "store", "expunge", "close"}
         /\ Handler(expunger) /\ Held = Values(expunger.items)
         /\ MaxUid + mails \in Nat /\ MaxUid + mails <= MaxUid + MaxMails
<1>1. server \in Policies \X Orders
  BY ServersAssumption DEF TypeOK
<1>2. Handler(expunger) /\ Held = Values(expunger.items)
  BY DEF TypeOK, Handler, Handlers, Held, Values
<1>3. mails \in Nat /\ mails <= MaxMails /\ MaxMails \in Nat /\ MaxUid \in Nat
  BY BoundsAssumption, UidsAssumption DEF TypeOK
<1> QED
  BY <1>1, <1>2, <1>3 DEF TypeOK

LEMMA FiniteUids ==
  ASSUME NEW S, S \subseteq Uids
  PROVE  IsFiniteSet(S) /\ S \subseteq Nat /\ 0 \notin S
<1>1. MaxUid + MaxMails \in Nat
  BY BoundsAssumption, UidsAssumption
<1>2. IsFiniteSet(Uids) /\ S \in SUBSET Uids
  BY <1>1, FS_Interval DEF Uids
<1>3. IsFiniteSet(S)
  BY <1>2, FS_Subset
<1> QED
  BY <1>1, <1>3 DEF Uids

LEMMA GivenUids ==
  ASSUME TypeOK
  PROVE  Given \subseteq Uids /\ Given \subseteq Nat
BY Shape, BoundsAssumption, UidsAssumption DEF Given, Uids

LEMMA SetTypes ==
  ASSUME TypeOK
  PROVE  /\ \A d \in Dirs : box[d] \subseteq Uids /\ ui[d] \subseteq Uids
         /\ Held \subseteq Uids /\ seqmap \subseteq Uids /\ base \subseteq Uids /\ op.uids \subseteq Uids
BY DEF TypeOK, Held

(* The store drops what it is told to drop. *)
LEMMA DroppedRight ==
  ASSUME TypeOK, NEW d \in Dirs, NEW uids,
         uids \subseteq ui[d] \/ \E u : uids = {u}
  PROVE  Dropped(d, uids) = [ui EXCEPT ![d] = @ \ uids]
<1>1. ui[d] \subseteq Uids /\ IsFiniteSet(ui[d]) /\ Cardinality(ui[d]) \in Nat
  BY SetTypes, FiniteUids, FS_CardinalityType
<1>2. CASE uids \subseteq ui[d]
  <2>1. Cardinality(uids) <= Cardinality(ui[d]) /\ Cardinality(uids) \in Nat
    BY <1>1, <1>2, FS_Subset, FS_CardinalityType
  <2>2. ~(Cardinality(ui[d]) < Cardinality(uids))
    BY <1>1, <2>1
  <2> QED
    BY <2>2 DEF Dropped
<1>3. ASSUME NEW u, uids = {u}
      PROVE  Dropped(d, uids) = [ui EXCEPT ![d] = @ \ uids]
  <2>1. Cardinality(uids) = 1
    BY <1>3, FS_Singleton
  <2>2. CASE Cardinality(ui[d]) < Cardinality(uids)
    <3>1. ui[d] = {}
      BY <1>1, <2>1, <2>2, FS_EmptySet
    <3>2. ui = [ui EXCEPT ![d] = @ \ uids]
      BY <3>1 DEF TypeOK
    <3> QED
      BY <2>2, <3>2 DEF Dropped
  <2>3. CASE ~(Cardinality(ui[d]) < Cardinality(uids))
    BY <2>3 DEF Dropped
  <2> QED
    BY <2>2, <2>3
<1> QED
  BY <1>2, <1>3

-----------------------------------------------------------------------------
(* An update is handled.  Gone is what it takes from the mailbox. *)

Gone(c) == c[1] \ c[2]

LEMMA WayPopped ==
  ASSUME TypeOK, CommandRight, NEW c \in Ways, Way(c), updates # <<>>, updates' = Tail(updates),
         UNCHANGED <<box, server, todo, base, sel, pc, op, mails>>, Listed' <=> Listed,
         Held' = Held \ Gone(c), expunger'.forDelete = expunger.forDelete,
         Held = {} \/ Gone(c) \subseteq Held,
         Listed => seqmap' = seqmap \ Gone(c),
         Listed => ui'[sel] \subseteq ui[sel],
         expunger.forDelete => ui'[sel] = ui[sel],
         NEW d, d = Rest(c, updates), ExpungerRight(d)',
         Listed /\ astray' = {} => ui'[sel] \subseteq c[2] \cup Deleting
  PROVE  /\ d \in Ways' /\ Way(d)' /\ CommandRight'
         /\ Listed => Gone(c) \cap seqmap \cap box[sel] = {} /\ Gone(c) \cap Held \cap box[sel] = {}
<1> DEFINE n == Len(updates)
           gone == Gone(c) \cap Held
<1>1. updates \in Seq(UpdateRecords) /\ n \in Nat /\ n # 0
  BY Shape
<1>2. /\ n >= 1 /\ Len(updates') = n - 1 /\ \A i \in 1..(n - 1) : updates'[i] = updates[i + 1]
      /\ DOMAIN updates = 1..n /\ DOMAIN updates' = 1..(n - 1)
  BY <1>1
<1>3. /\ DOMAIN d = 1..n /\ d = [i \in 1..n |-> d[i]] /\ \A i \in 1..n : d[i] = c[i + 1] /\ i + 1 \in 1..(n + 1)
      /\ d[1] = c[2] /\ d[Len(updates') + 1] = c[n + 1]
  BY <1>1, <1>2 DEF Rest
<1>4. Items(c, updates, Held, server[2], base) /\ c[n + 1] \cap Held = Remaining
  BY DEF Way
<1>5. Held \subseteq c[1] /\ \A i \in 2..(n + 1) : c[i] \cap Held \subseteq c[2]
  <2>1. \A i \in 2..(n + 1) : 2 \in 1..(n + 1) /\ i \in 1..(n + 1) /\ 2 <= i
    BY <1>1
  <2> QED
    BY <1>4, <2>1 DEF Items, NoReturn
<1>6. n + 1 \in 2..(n + 1)
  BY <1>2
<1>7. d \in Ways'
  <2>1. \A i \in 1..n : d[i] \in SUBSET Given
    BY <1>3 DEF Ways
  <2>2. d \in [1..n -> SUBSET Given]
    BY <1>3, <2>1
  <2>3. Given' = Given
    BY DEF Given
  <2>4. Len(updates') + 1 = n
    BY <1>2
  <2> QED
    BY <2>2, <2>3, <2>4 DEF Ways
<1>8. Items(d, updates', Held', server'[2], base')
  <2>1. /\ gone \subseteq Held /\ Held \ gone = Held \ Gone(c) /\ Held \ gone \subseteq c[2]
        /\ Held = {} \/ c[1] \subseteq c[2] \cup gone
        /\ \A i \in 2..(n + 1) : c[i] \cap gone = {}
    BY <1>5 DEF Gone
  <2>2. Items(d, Tail(updates), Held \ gone, server[2], base)
    BY <1>1, <1>4, <2>1, ItemsRest
  <2> QED
    BY <2>1, <2>2
<1>9. Gone(c) \cap Held \cap c[n + 1] = {}
  BY <1>5, <1>6 DEF Gone
<1>10. Remaining' = Remaining /\ d[Len(updates') + 1] \cap Held' = Remaining'
  <2>1. c[n + 1] \cap Held' = Remaining
    BY <1>4, <1>9
  <2>2. pc = "store" => Remaining = Held /\ Remaining' = Held'
    BY DEF Remaining
  <2>3. pc = "store" => Held' = Held
    BY <1>4, <1>9, <2>2
  <2>4. pc # "store" => Remaining' = Remaining
    BY DEF Remaining
  <2>5. Remaining' = Remaining
    BY <2>2, <2>3, <2>4
  <2> QED
    BY <1>3, <2>1, <2>5
<1>11. ASSUME Listed
       PROVE  Boxes(d, updates', Held', seqmap', ui'[sel'], box'[sel']) /\ ShownRight(d)'
  <2>1. Boxes(c, updates, Held, seqmap, ui[sel], box[sel]) /\ ShownRight(c)
    BY <1>11 DEF Way
  <2>2. c \in [1..(n + 1) -> SUBSET Nat]
    BY <1>4 DEF Items
  <2>3. Boxes(d, Tail(updates), Held \ Gone(c), seqmap \ Gone(c), ui'[sel], box[sel])
    <3>1. Gone(c) \subseteq c[1] /\ Gone(c) \cap c[2] = {} /\ c[1] \subseteq c[2] \cup Gone(c)
      BY DEF Gone
    <3> QED
      BY <1>1, <1>11, <2>1, <2>2, <3>1, BoxesRest
  <2>4. pc' = "select" /\ expunger'.forDelete => Held' \cap ui'[sel'] = {}
    BY <1>11, <2>1 DEF ShownRight
  <2>5. Deleting' = Deleting
    BY DEF Deleting
  <2>6. astray' = {} => ui'[sel'] \subseteq d[1] \cup Deleting'
    BY <1>3, <1>11, <2>5
  <2> QED
    BY <1>11, <2>3, <2>4, <2>6 DEF ShownRight
<1>12. CommandRight'
  <2>1. pc' = "store" => \A i \in DOMAIN updates' : updates'[i].kind = "exists"
    BY <1>2 DEF CommandRight
  <2>2. \A i \in DOMAIN updates' : updates'[i].kind = "fetch" => expunger'.forDelete
    BY <1>2 DEF CommandRight
  <2>3. ASSUME pc' # "select"
        PROVE  /\ Listed' /\ op'.dir = sel' /\ op'.ok /\ Held' \subseteq op'.uids
               /\ op'.uids \cap box'[sel'] = Remaining'
               /\ op'.kind = "delete" <=> expunger'.forDelete
    BY <1>10, <2>3 DEF CommandRight
  <2>4. ASSUME pc' # "select", op'.kind = "delete"
        PROVE  op'.uids \subseteq ui'[sel']
    BY <2>3, <2>4 DEF CommandRight
  <2> QED
    BY <2>1, <2>2, <2>3, <2>4 DEF CommandRight
<1>13. ASSUME Listed
       PROVE  Gone(c) \cap seqmap \cap box[sel] = {} /\ Gone(c) \cap Held \cap box[sel] = {}
  <2>1. /\ NoReturn(c, n + 1, seqmap \cup Held) /\ c[n + 1] = box[sel]
    BY <1>13 DEF Way, Boxes
  <2>2. 2 \in 1..(n + 1) /\ n + 1 \in 1..(n + 1) /\ 2 <= n + 1
    BY <1>2
  <2>3. (seqmap \cup Held) \cap c[n + 1] \subseteq c[2]
    BY <2>1, <2>2 DEF NoReturn
  <2> QED
    BY <2>1, <2>3 DEF Gone
<1>14. Way(d)'
  BY <1>8, <1>10, <1>11 DEF Way
<1> QED
  BY <1>7, <1>12, <1>13, <1>14

(* What the worker does with the update: the command and the mailbox stay. *)
Handles ==
  /\ updates # <<>> /\ Update(Head(updates)) /\ updates' = Tail(updates)
  /\ WentAstray("suppressed", Suppressed(Head(updates)))
  /\ UNCHANGED <<box, server, todo, base, sel, pc, op, mails>>

LEMMA HandlesEvents ==
  ASSUME Handles
  PROVE  /\ Listed' <=> Listed
         /\ astray' = {} => astray = {} /\ ~Suppressed(Head(updates))
         /\ astray \subseteq astray'
BY DEF Handles, WentAstray, EventIf, Listed

LEMMA HeadStep ==
  ASSUME TypeOK, updates # <<>>, NEW c \in Ways, Way(c), CommandRight
  PROVE  LET m == Head(updates) IN
         /\ m \in UpdateRecords /\ ItemStep(m, c[1], c[2], Held, server[2], base)
         /\ Held \subseteq c[1] /\ c[1] \in SUBSET Uids /\ c[2] \in SUBSET Uids
         /\ \A v \in c[2] \ c[1], u \in Held : u < v
         /\ m.kind = "expunge" => pc # "store"
         /\ m.kind = "fetch" => expunger.forDelete
         /\ Listed => OtherStep(m, c[1], c[2], Held)
<1>1. updates \in Seq(UpdateRecords) /\ Len(updates) \in Nat /\ Len(updates) # 0
  BY Shape
<1>2. /\ 1 \in DOMAIN updates /\ 1 \in 1..Len(updates) /\ 1 \in 1..(Len(updates) + 1)
      /\ 2 \in 1..(Len(updates) + 1) /\ 1 + 1 = 2
      /\ Head(updates) = updates[1] /\ updates[1] \in UpdateRecords
  BY <1>1
<1>3. Items(c, updates, Held, server[2], base)
  BY DEF Way
<1>4. Listed => Boxes(c, updates, Held, seqmap, ui[sel], box[sel])
  BY DEF Way
<1>5. ItemStep(updates[1], c[1], c[2], Held, server[2], base) /\ Held \subseteq c[1]
  BY <1>2, <1>3 DEF Items
<1>6. \A v \in c[2] \ c[1], u \in Held : u < v
  BY <1>2, <1>3 DEF Items, Later
<1>7. Listed => OtherStep(updates[1], c[1], c[2], Held)
  BY <1>2, <1>4 DEF Boxes
<1>8. c[1] \in SUBSET Uids /\ c[2] \in SUBSET Uids
  BY <1>2, GivenUids DEF Ways
<1>9. updates[1].kind = "expunge" => pc # "store"
  BY <1>2 DEF CommandRight
<1>10. updates[1].kind = "fetch" => expunger.forDelete
  BY <1>2 DEF CommandRight
<1> QED
  BY <1>2, <1>5, <1>6, <1>7, <1>8, <1>9, <1>10

(* New mail and the flags of the messages that go change nothing.          *)
LEMMA OtherHandled ==
  ASSUME TypeOK, CommandRight, NEW c \in Ways, Way(c), Handles, Head(updates).kind # "expunge",
         NEW d, d = Rest(c, updates)
  PROVE  d \in Ways' /\ Way(d)' /\ CommandRight' /\ ui' = ui
<1> DEFINE m == Head(updates)
<1>1. /\ updates # <<>> /\ updates' = Tail(updates) /\ Update(m)
      /\ UNCHANGED <<box, server, todo, base, sel, pc, op, mails>>
  BY DEF Handles
<1>2. /\ m \in UpdateRecords /\ ItemStep(m, c[1], c[2], Held, server[2], base)
      /\ Held \subseteq c[1] /\ c[1] \in SUBSET Uids /\ c[2] \in SUBSET Uids
      /\ \A v \in c[2] \ c[1], u \in Held : u < v
      /\ m.kind = "fetch" => expunger.forDelete
  BY <1>1, HeadStep
<1>3. Gone(c) = {} /\ c[1] \subseteq c[2] /\ (m.kind = "fetch" => m.uid \in Held)
  BY <1>2 DEF ItemStep, Gone
<1>4. UNCHANGED <<seqmap, expunger, ui>>
  <2>1. CASE m.kind = "exists"
    BY <1>1, <2>1 DEF Update
  <2>2. CASE m.kind = "fetch"
    <3>1. IsExpungingForDelete(m.uid)
      BY <1>2, <1>3, <2>2 DEF IsExpungingForDelete, Held
    <3> QED
      BY <1>1, <2>2, <3>1 DEF Update, HandleFetch
  <2>3. m.kind \in {"expunge", "fetch", "exists"}
    BY <1>2 DEF UpdateRecords
  <2> QED
    BY <2>1, <2>2, <2>3
<1>5. Held' = Held /\ Held' = Held \ Gone(c)
  BY <1>3, <1>4 DEF Held
<1>6. Listed' <=> Listed
  BY HandlesEvents
<1>7. astray' = {} => astray = {}
  BY HandlesEvents
<1>8. d[1] = c[2]
  <2>1. 1 \in 1..Len(updates)
    BY <1>1, Shape
  <2> QED
    BY <2>1 DEF Rest
<1>9. ExpungerRight(c)
  BY DEF Way
<1>10. ASSUME NEW S, NEW T, S = Reference(c), T = Reference(d)', NEW n \in DOMAIN expunger.items
       PROVE  expunger.items[n] \in T /\ n = SeqNum(T, expunger.items[n])
  <2> DEFINE u == expunger.items[n]
  <2>1. u \in S /\ n = SeqNum(S, u) /\ u \in Held
    BY <1>9, <1>10 DEF ExpungerRight, KeysRight, Held
  <2>2. CASE server[2] = "stable" /\ pc # "store"
    BY <1>1, <1>10, <2>1, <2>2 DEF Reference
  <2>3. CASE ~(server[2] = "stable" /\ pc # "store")
    <3>1. S = c[1] /\ T = c[2]
      BY <1>1, <1>8, <1>10, <2>3 DEF Reference
    <3>2. c[2] \subseteq Nat /\ u \in Nat
      BY <1>2, <1>3, <2>1, <3>1, FiniteUids
    <3> QED
      BY <1>2, <1>3, <2>1, <3>1, <3>2, SeqNumGrows
  <2> QED
    BY <2>2, <2>3
<1>11. ExpungerRight(d)'
  <2>1. PICK S, T : S = Reference(c) /\ T = Reference(d)'
    OBVIOUS
  <2>2. KeysRight(expunger.items, T)
    BY <1>10, <2>1 DEF KeysRight
  <2>3. KeysRight(expunger.items, Reference(d))'
    BY <1>4, <2>1, <2>2
  <2> QED
    BY <1>1, <1>4, <1>5, <1>9, <2>3 DEF ExpungerRight
<1>12. Listed /\ astray' = {} => ui'[sel] \subseteq c[2] \cup Deleting
  BY <1>3, <1>4, <1>7 DEF Way, ShownRight
<1>13. /\ Listed => seqmap' = seqmap \ Gone(c)
       /\ Listed => ui'[sel] \subseteq ui[sel]
       /\ expunger.forDelete => ui'[sel] = ui[sel]
       /\ expunger'.forDelete = expunger.forDelete
       /\ Held = {} \/ Gone(c) \subseteq Held
  BY <1>3, <1>4
<1> QED
  BY <1>1, <1>4, <1>5, <1>6, <1>11, <1>12, <1>13, WayPopped

(* A message of the expunger goes.                                         *)
LEMMA HeldHandled ==
  ASSUME TypeOK, CommandRight, NEW c \in Ways, Way(c), Handles, Head(updates).kind = "expunge",
         Held # {}, NEW d, d = Rest(c, updates)
  PROVE  /\ d \in Ways' /\ Way(d)' /\ CommandRight'
         /\ Listed => \A e \in Dirs : (ui[e] \ ui'[e]) \cap box[e] = {}
<1> DEFINE m == Head(updates)
           n == m.seq
<1>1. /\ updates # <<>> /\ updates' = Tail(updates) /\ Update(m)
      /\ UNCHANGED <<box, server, todo, base, sel, pc, op, mails>>
  BY DEF Handles
<1>2. /\ ItemStep(m, c[1], c[2], Held, server[2], base)
      /\ Held \subseteq c[1] /\ c[1] \in SUBSET Uids /\ c[2] \in SUBSET Uids
      /\ pc # "store"
  BY <1>1, HeadStep
<1>3. PICK S : S = Reference(c)
  OBVIOUS
<1>4. S = IF server[2] = "stable" THEN base ELSE c[1]
  BY <1>2, <1>3 DEF Reference
<1>5. PICK u \in Held : /\ c[2] = c[1] \ {u} /\ NextOf(server[2], u, Held)
                        /\ n = SeqNum(S, u)
  <2>1. c[1] \cap Held = Held
    BY <1>2
  <2> QED
    BY <1>2, <1>4, <2>1 DEF ItemStep
<1>6. /\ Handler(expunger) /\ Held = Values(expunger.items) /\ server[2] \in Orders /\ sel \in Dirs
  BY Shape
<1>7. /\ KeysRight(expunger.items, S) /\ expunger.on /\ PolicyRight(expunger, server[2])
  BY <1>3 DEF Way, ExpungerRight
<1>8. S \subseteq Nat /\ IsFiniteSet(S) /\ Held \subseteq S /\ u \in Uids /\ u # 0
  <2>1. S \subseteq Uids /\ Held \subseteq Uids
    BY <1>2, <1>4, SetTypes
  <2>2. Held \subseteq S
    BY <1>6, <1>7 DEF KeysRight, Values
  <2> QED
    BY <2>1, <2>2, FiniteUids
<1>9. PICK new : new = Popped(expunger, n)
  OBVIOUS
<1>10. /\ n \in DOMAIN expunger.items /\ expunger.items[n] = u
       /\ Values(new.items) = Held \ {u}
       /\ KeysRight(new.items, IF server[2] = "stable" THEN S ELSE S \ {u})
       /\ Held \ {u} # {} => PolicyRight(new, server[2])
  <2>1. PICK h, held, order : h = expunger /\ held = Held /\ order = server[2]
    OBVIOUS
  <2>2. /\ Handler(h) /\ held = Values(h.items) /\ held \subseteq S /\ KeysRight(h.items, S)
        /\ order \in Orders /\ PolicyRight(h, order) /\ u \in held /\ NextOf(order, u, held)
    BY <1>5, <1>6, <1>7, <1>8, <2>1
  <2>3. PopsRight(h, SeqNum(S, u), S, held, order, u)
    BY <1>8, <2>2, PoppedRight
  <2> QED
    BY <1>5, <1>9, <2>1, <2>3 DEF PopsRight
<1>11. Handler(new) /\ new.on = expunger.on /\ new.forDelete = expunger.forDelete
  BY <1>6, <1>9, PoppedFields
<1>12. HandleExpunge(n)
  BY <1>1 DEF Update
<1>13. /\ expunger' = new /\ seqmap' = seqmap
       /\ ui' = IF ~expunger.forDelete THEN Dropped(sel, {u}) ELSE ui
  BY <1>7, <1>8, <1>9, <1>10, <1>12 DEF HandleExpunge
<1>14. Gone(c) = {u}
  BY <1>2, <1>5 DEF Gone
<1>15. Held' = Held \ Gone(c)
  BY <1>10, <1>13, <1>14 DEF Held, Values
<1>16. ui' = IF ~expunger.forDelete THEN [ui EXCEPT ![sel] = @ \ {u}] ELSE ui
  BY <1>6, <1>13, DroppedRight
<1>17. Listed' <=> Listed
  BY HandlesEvents
<1>18. astray' = {} => astray = {}
  BY HandlesEvents
<1>19. ui'[sel] = IF ~expunger.forDelete THEN ui[sel] \ {u} ELSE ui[sel]
  BY <1>6, <1>16 DEF TypeOK
<1>20. ExpungerRight(d)'
  <2>1. d[1] = c[2]
    <3>1. 1 \in 1..Len(updates)
      BY <1>1, Shape
    <3> QED
      BY <3>1 DEF Rest
  <2>2. PICK T : T = Reference(d)'
    OBVIOUS
  <2>3. T = IF server[2] = "stable" THEN S ELSE S \ {u}
    BY <1>1, <1>2, <1>4, <1>5, <2>1, <2>2 DEF Reference
  <2>4. KeysRight(expunger'.items, T)
    BY <1>10, <1>13, <2>3
  <2>5. Held' # {} => expunger'.on /\ PolicyRight(expunger', server'[2])
    BY <1>1, <1>7, <1>10, <1>11, <1>13, <1>14, <1>15
  <2> QED
    BY <2>2, <2>4, <2>5 DEF ExpungerRight
<1>21. Listed => seqmap' = seqmap \ Gone(c)
  BY <1>13, <1>14 DEF Way, Boxes
<1>22. ASSUME Listed, astray' = {}
       PROVE  ui'[sel] \subseteq c[2] \cup Deleting
  <2>1. ShownRight(c)
    BY <1>22 DEF Way
  <2>2. ui[sel] \subseteq c[1] \cup Deleting
    BY <1>18, <1>22, <2>1 DEF ShownRight
  <2>3. CASE ~expunger.forDelete
    BY <1>5, <1>19, <2>2, <2>3
  <2>4. CASE expunger.forDelete /\ pc = "select"
    BY <1>5, <1>19, <2>1, <2>2, <2>4 DEF ShownRight
  <2>5. CASE expunger.forDelete /\ pc # "select"
    <3>1. u \in Deleting
      BY <2>5 DEF CommandRight, Deleting
    <3> QED
      BY <1>5, <1>19, <2>2, <2>5, <3>1
  <2> QED
    BY <2>3, <2>4, <2>5
<1>23. /\ Listed => ui'[sel] \subseteq ui[sel]
       /\ expunger.forDelete => ui'[sel] = ui[sel]
       /\ expunger'.forDelete = expunger.forDelete
       /\ Held = {} \/ Gone(c) \subseteq Held
  BY <1>11, <1>13, <1>14, <1>19
<1>24. /\ d \in Ways' /\ Way(d)' /\ CommandRight'
       /\ Listed => Gone(c) \cap Held \cap box[sel] = {}
  BY <1>1, <1>15, <1>17, <1>20, <1>21, <1>22, <1>23, WayPopped
<1>25. ASSUME Listed, NEW e \in Dirs
       PROVE  (ui[e] \ ui'[e]) \cap box[e] = {}
  <2>1. u \notin box[sel]
    BY <1>14, <1>24, <1>25
  <2>2. e # sel => ui'[e] = ui[e]
    BY <1>16 DEF TypeOK
  <2> QED
    BY <1>19, <2>1, <2>2
<1> QED
  BY <1>24, <1>25

(* A message goes of which the expunger has not been told: another client  *)
(* has deleted it.                                                         *)
LEMMA StrangerHandled ==
  ASSUME TypeOK, CommandRight, NEW c \in Ways, Way(c), Handles, Head(updates).kind = "expunge",
         Held = {}, NEW d, d = Rest(c, updates)
  PROVE  /\ d \in Ways' /\ Way(d)' /\ CommandRight'
         /\ Listed => \A e \in Dirs : (ui[e] \ ui'[e]) \cap box[e] = {}
<1> DEFINE m == Head(updates)
           n == m.seq
<1>1. /\ updates # <<>> /\ updates' = Tail(updates) /\ Update(m)
      /\ UNCHANGED <<box, server, todo, base, sel, pc, op, mails>>
  BY DEF Handles
<1>2. /\ ItemStep(m, c[1], c[2], Held, server[2], base)
      /\ c[1] \in SUBSET Uids /\ c[2] \in SUBSET Uids /\ c[2] \subseteq c[1]
      /\ Listed => OtherStep(m, c[1], c[2], Held)
  <2>1. /\ ItemStep(m, c[1], c[2], Held, server[2], base)
        /\ c[1] \in SUBSET Uids /\ c[2] \in SUBSET Uids
        /\ Listed => OtherStep(m, c[1], c[2], Held)
    BY <1>1, HeadStep
  <2> QED
    BY <2>1 DEF ItemStep
<1>3. Handler(expunger) /\ sel \in Dirs /\ DOMAIN expunger.items = {}
  BY Shape DEF Values
<1>4. PICK uid : uid = IF n \in 1..Cardinality(seqmap) THEN Nth(seqmap, n) ELSE 0
  OBVIOUS
<1>5. HandleExpunge(n)
  BY <1>1 DEF Update
<1>6. /\ expunger' = (IF expunger.on THEN Popped(expunger, n) ELSE expunger)
      /\ seqmap' = seqmap \ {uid}
      /\ ui' = IF uid # 0 /\ ~expunger.forDelete THEN Dropped(sel, {uid}) ELSE ui
  BY <1>3, <1>4, <1>5 DEF HandleExpunge
<1>7. DOMAIN expunger'.items = {} /\ expunger'.forDelete = expunger.forDelete
  <2>1. Popped(expunger, n).items = Kept(expunger, n) /\ Popped(expunger, n).forDelete = expunger.forDelete
    <3>1. PICK h : h = expunger
      OBVIOUS
    <3>2. Popped(h, n).items = Kept(h, n) /\ Popped(h, n).forDelete = h.forDelete
      BY <1>3, <3>1, PoppedFields
    <3> QED
      BY <3>1, <3>2
  <2>2. DOMAIN Kept(expunger, n) = {}
    BY <1>3 DEF Kept, Without
  <2> QED
    BY <1>3, <1>6, <2>1, <2>2
<1>8. Held' = {} /\ Held' = Held \ Gone(c)
  BY <1>7 DEF Held
<1>9. ExpungerRight(d)'
  BY <1>7, <1>8 DEF ExpungerRight, KeysRight
<1>10. ui' = IF uid # 0 /\ ~expunger.forDelete THEN [ui EXCEPT ![sel] = @ \ {uid}] ELSE ui
  BY <1>3, <1>6, DroppedRight
<1>11. ui'[sel] = IF uid # 0 /\ ~expunger.forDelete THEN ui[sel] \ {uid} ELSE ui[sel]
  BY <1>3, <1>10 DEF TypeOK
<1>12. ASSUME Listed
       PROVE  /\ seqmap' = seqmap \ Gone(c)
              /\ uid # 0 => Gone(c) = {uid} /\ uid \in seqmap
              /\ astray' = {} => ui'[sel] \subseteq c[2] \cup Deleting
  <2>1. PICK u \in c[1] : c[2] = c[1] \ {u} /\ n = SeqNum(c[1], u)
    BY <1>2, <1>12 DEF OtherStep
  <2>2. Gone(c) = {u}
    BY <2>1 DEF Gone
  <2>3. Boxes(c, updates, Held, seqmap, ui[sel], box[sel]) /\ ShownRight(c)
    BY <1>12 DEF Way
  <2>4. Prefix(seqmap, c[1]) /\ ui[sel] \cap c[1] \subseteq seqmap
    <3>1. seqmap \cup Held = seqmap
      OBVIOUS
    <3> QED
      BY <2>3, <3>1 DEF Boxes
  <2>5. c[1] \subseteq Nat /\ IsFiniteSet(c[1]) /\ seqmap \subseteq Nat /\ 0 \notin seqmap
    BY <1>2, SetTypes, FiniteUids
  <2>6. /\ IsFiniteSet(seqmap)
        /\ u \in seqmap => SeqNum(seqmap, u) = n
        /\ u \notin seqmap => n > Cardinality(seqmap)
    BY <2>1, <2>4, <2>5, PrefixNumbers
  <2>7. CASE u \in seqmap
    <3>1. n \in Nat /\ Cardinality(seqmap) \in Nat /\ n <= Cardinality(seqmap) /\ n # 0
      BY <2>5, <2>6, <2>7, SeqNumType
    <3>2. uid = u
      <4>1. PICK map : map = seqmap
        OBVIOUS
      <4>2. Nth(map, SeqNum(map, u)) = u
        BY <2>5, <2>6, <2>7, <4>1, NthOf
      <4>3. Nth(seqmap, n) = u
        BY <2>6, <2>7, <4>1, <4>2
      <4> QED
        BY <1>4, <3>1, <4>3
    <3>3. u # 0
      BY <2>5, <2>7
    <3>4. astray' = {} => astray = {} /\ ~expunger.forDelete
      BY <1>3, HandlesEvents DEF Suppressed
    <3>5. astray' = {} => ui'[sel] \subseteq c[2] \cup Deleting
      BY <1>11, <2>1, <2>3, <3>2, <3>3, <3>4 DEF ShownRight
    <3> QED
      BY <1>6, <2>2, <2>7, <3>2, <3>5
  <2>8. CASE u \notin seqmap
    <3>1. Cardinality(seqmap) \in Nat /\ n \in Nat
      BY <2>1, <2>5, <2>6, FS_CardinalityType, SeqNumType
    <3>2. n \notin 1..Cardinality(seqmap)
      BY <2>6, <2>8, <3>1
    <3>3. uid = 0
      BY <1>4, <3>2
    <3>4. ui'[sel] = ui[sel] /\ u \notin ui[sel]
      BY <1>11, <2>1, <2>4, <2>8, <3>3
    <3>5. astray' = {} => astray = {}
      BY HandlesEvents
    <3>6. astray' = {} => ui'[sel] \subseteq c[2] \cup Deleting
      BY <2>1, <2>3, <3>4, <3>5 DEF ShownRight
    <3> QED
      BY <1>6, <2>2, <2>5, <2>8, <3>3, <3>6
  <2> QED
    BY <2>7, <2>8
<1>13. /\ Listed => ui'[sel] \subseteq ui[sel]
       /\ expunger.forDelete => ui'[sel] = ui[sel]
  BY <1>11
<1>14. Listed' <=> Listed
  BY HandlesEvents
<1>15. /\ d \in Ways' /\ Way(d)' /\ CommandRight'
       /\ Listed => Gone(c) \cap seqmap \cap box[sel] = {}
  BY <1>1, <1>7, <1>8, <1>9, <1>12, <1>13, <1>14, WayPopped
<1>16. ASSUME Listed, NEW e \in Dirs
       PROVE  (ui[e] \ ui'[e]) \cap box[e] = {}
  <2>1. uid # 0 => uid \notin box[sel]
    BY <1>12, <1>15, <1>16
  <2>2. e # sel => ui'[e] = ui[e]
    BY <1>10 DEF TypeOK
  <2> QED
    BY <1>11, <2>1, <2>2
<1> QED
  BY <1>15, <1>16

LEMMA UpdateHandled ==
  ASSUME TypeOK, WayRight, Handles
  PROVE  /\ WayRight'
         /\ Listed => \A e \in Dirs : (ui[e] \ ui'[e]) \cap box[e] = {}
<1>1. CommandRight
  BY DEF WayRight
<1>2. PICK c \in Ways : Way(c)
  BY DEF WayRight
<1>3. PICK d : d = Rest(c, updates)
  OBVIOUS
<1>4. /\ d \in Ways' /\ Way(d)' /\ CommandRight'
      /\ Listed => \A e \in Dirs : (ui[e] \ ui'[e]) \cap box[e] = {}
  <2>1. CASE Head(updates).kind # "expunge"
    BY <1>1, <1>2, <1>3, <2>1, OtherHandled
  <2>2. CASE Head(updates).kind = "expunge" /\ Held # {}
    BY <1>1, <1>2, <1>3, <2>2, HeldHandled
  <2>3. CASE Head(updates).kind = "expunge" /\ Held = {}
    BY <1>1, <1>2, <1>3, <2>3, StrangerHandled
  <2> QED
    BY <2>1, <2>2, <2>3
<1>5. (\E e \in Ways : Way(e))'
  BY <1>4
<1> QED
  BY <1>4, <1>5 DEF WayRight

-----------------------------------------------------------------------------
(* Steps that keep the way, or add to it. *)

LEMMA WayKept ==
  ASSUME NEW c \in Ways, Way(c), UNCHANGED <<updates, server, base, mails>>, Held' = Held,
         Remaining' = Remaining, ExpungerRight(c)',
         Listed' => /\ Listed /\ (seqmap \cup Held)' = seqmap \cup Held /\ seqmap' \cap Held = {}
                    /\ sel' = sel /\ box'[sel] = box[sel] /\ ui'[sel] \subseteq ui[sel] /\ ShownRight(c)'
  PROVE  (\E d \in Ways : Way(d))'
<1>1. c \in Ways'
  BY DEF Ways, Given
<1>2. Items(c, updates, Held, server[2], base)' /\ (c[Len(updates) + 1] \cap Held = Remaining)'
  BY DEF Way
<1>3. ASSUME Listed'
      PROVE  Boxes(c, updates', Held', seqmap', ui'[sel'], box'[sel']) /\ ShownRight(c)'
  <2>1. Boxes(c, updates, Held, seqmap, ui[sel], box[sel])
    BY <1>3 DEF Way
  <2>2. Boxes(c, updates, Held, seqmap', ui'[sel], box[sel])
    BY <1>3, <2>1 DEF Boxes
  <2> QED
    BY <1>3, <2>2
<1>4. Way(c)'
  BY <1>2, <1>3 DEF Way
<1> QED
  BY <1>1, <1>4

LEMMA WayExtended ==
  ASSUME NEW c \in Ways, Way(c), Extends(updates', updates), Held' = Held, Given \subseteq Given',
         Items(c, updates, Held, server'[2], base'), ExpungerRight(c)',
         NEW T, T \subseteq Given', T \subseteq Nat, IsFiniteSet(T), T \cap Held = Remaining',
         Held \cap T \subseteq c[Len(updates) + 1],
         \A v \in T \ c[Len(updates) + 1], u \in Held : u < v,
         \A i \in (Len(updates) + 1)..Len(updates') :
           ItemStep(updates'[i], Onto(c, updates, i, T), T, Held, server'[2], base'),
         \/ c[Len(updates) + 1] \subseteq T
         \/ \E i \in (Len(updates) + 1)..Len(updates') : updates'[i].kind = "expunge",
         Listed' => /\ Listed /\ seqmap' = seqmap /\ sel' = sel /\ T = box'[sel] /\ ui' = ui
                    /\ (seqmap \cup Held) \cap T \subseteq box[sel] /\ ui[sel] \cap (T \ box[sel]) = {}
                    /\ \A v \in T \ box[sel], u \in seqmap \cup Held : u < v
                    /\ \A i \in (Len(updates) + 1)..Len(updates') :
                         OtherStep(updates'[i], Onto(c, updates, i, T), T, Held)
                    /\ ShownRight(c)',
         Len(updates') = Len(updates) => T = c[Len(updates) + 1]
  PROVE  (\E d \in Ways : Way(d))'
<1>1. PICK d : d = Extended(c, updates, updates', T)
  OBVIOUS
<1>2. PICK p : p = updates'
  OBVIOUS
<1> DEFINE n == Len(updates)
           m == Len(p)
<1>3. n \in Nat /\ m \in Nat /\ n <= m /\ Extends(p, updates)
  BY <1>2 DEF Extends
<1>4. /\ \A i \in 1..(n + 1) : i \in 1..(m + 1) /\ d[i] = c[i]
      /\ \A i \in (n + 2)..(m + 1) : d[i] = T
  BY <1>1, <1>2, <1>3, ExtendedValues
<1>5. DOMAIN d = 1..(m + 1) /\ d = [i \in 1..(m + 1) |-> d[i]]
  BY <1>1, <1>2 DEF Extended
<1>6. \A i \in 1..(m + 1) : i \in 1..(n + 1) \/ i \in (n + 2)..(m + 1)
  BY <1>3
<1>7. d[1] = c[1] /\ d[m + 1] = T
  <2>1. CASE m = n
    BY <1>2, <1>3, <1>4, <2>1
  <2>2. CASE m # n
    BY <1>3, <1>4, <2>2
  <2> QED
    BY <2>1, <2>2
<1>8. d \in Ways'
  <2>1. \A i \in 1..(n + 1) : c[i] \in SUBSET Given'
    BY DEF Ways
  <2>2. \A i \in 1..(m + 1) : d[i] \in SUBSET Given'
    BY <1>4, <1>6, <2>1
  <2>3. d \in [1..(m + 1) -> SUBSET Given']
    BY <1>5, <2>2
  <2> QED
    BY <1>2, <2>3 DEF Ways
<1>9. Items(d, updates', Held', server'[2], base')
  <2>1. PICK order, ref : order = server'[2] /\ ref = base'
    OBVIOUS
  <2>2. PICK held, q : held = Held /\ q = updates
    OBVIOUS
  <2>3. Items(Extended(c, q, p, T), p, held, order, ref)
    BY <1>2, <1>3, <2>1, <2>2, ItemsExtended
  <2> QED
    BY <1>1, <1>2, <2>1, <2>2, <2>3
<1>10. ExpungerRight(d)'
  <2>1. Reference(d)' = Reference(c)'
    BY <1>7 DEF Reference
  <2> QED
    BY <2>1 DEF ExpungerRight
<1>11. ASSUME Listed'
       PROVE  Boxes(d, updates', Held', seqmap', ui'[sel'], box'[sel']) /\ ShownRight(d)'
  <2>1. Boxes(c, updates, Held, seqmap, ui[sel], box[sel])
    BY <1>11 DEF Way
  <2>2. PICK held, q, map, shown, end :
          held = Held /\ q = updates /\ map = seqmap /\ shown = ui[sel] /\ end = box[sel]
    OBVIOUS
  <2>3. Boxes(Extended(c, q, p, T), p, held, map, shown, T)
    <3>1. Len(p) = Len(q) => T = end
      BY <1>2, <2>1, <2>2 DEF Boxes
    <3> QED
      BY <1>2, <1>3, <1>11, <2>1, <2>2, <3>1, BoxesExtended
  <2>4. ShownRight(d)'
    BY <1>7, <1>11 DEF ShownRight
  <2> QED
    BY <1>1, <1>2, <1>11, <2>2, <2>3, <2>4
<1>12. Way(d)'
  BY <1>2, <1>7, <1>9, <1>10, <1>11 DEF Way
<1> QED
  BY <1>8, <1>12

-----------------------------------------------------------------------------
(* The actions, one by one. *)

(* The expunger of a new command: it holds those of the messages that are  *)
(* known, under their numbers, and its policy suits the server.            *)
LEMMA NewExpungerRight ==
  ASSUME TypeOK, NEW uids, NEW forDelete \in BOOLEAN, NEW S, S \subseteq Nat, IsFiniteSet(S), Prefix(seqmap, S)
  PROVE  LET new == NewExpunger(uids, forDelete) IN
         /\ Handler(new) /\ new.on /\ new.forDelete = forDelete
         /\ Values(new.items) = uids \cap seqmap /\ KeysRight(new.items, S)
         /\ uids \cap seqmap # {} /\ Fits(server[1], server[2]) => PolicyRight(new, server[2])
<1> DEFINE known == uids \cap seqmap
<1>1. PICK nums : nums = {SeqNum(seqmap, u) : u \in known}
  OBVIOUS
<1>2. PICK items : items = [n \in nums |-> Nth(seqmap, n)]
  OBVIOUS
<1>3. PICK new : new = NewExpunger(uids, forDelete)
  OBVIOUS
<1>4. PICK minNum : minNum = IF nums = {} THEN 0 ELSE CHOOSE n \in nums : \A m \in nums : n <= m
  OBVIOUS
<1>5. new = [on |-> TRUE, policy |-> server[1], items |-> items, minNum |-> minNum,
             forDelete |-> forDelete, gotFirst |-> FALSE]
  BY <1>1, <1>2, <1>3, <1>4 DEF NewExpunger
<1>6. seqmap \subseteq Nat /\ IsFiniteSet(seqmap) /\ server[1] \in Policies /\ server[2] \in Orders
  BY Shape, SetTypes, FiniteUids
<1>7. \A u \in known : /\ SeqNum(seqmap, u) \in Nat /\ SeqNum(seqmap, u) <= Cardinality(seqmap)
                       /\ Nth(seqmap, SeqNum(seqmap, u)) = u
                       /\ SeqNum(seqmap, u) = SeqNum(S, u) /\ u \in S
  <2>1. PICK map : map = seqmap
    OBVIOUS
  <2>2. \A u \in map : SeqNum(map, u) \in Nat /\ SeqNum(map, u) <= Cardinality(map)
    BY <1>6, <2>1, SeqNumType
  <2>3. \A u \in map : Nth(map, SeqNum(map, u)) = u
    BY <1>6, <2>1, NthOf
  <2>4. \A u \in map : SeqNum(map, u) = SeqNum(S, u)
    BY <2>1, PrefixNumbers, Zenon
  <2>5. map \subseteq S
    BY <2>1 DEF Prefix
  <2> QED
    BY <2>1, <2>2, <2>3, <2>4, <2>5
<1>8. /\ DOMAIN items = nums /\ \A u \in known : SeqNum(seqmap, u) \in nums /\ items[SeqNum(seqmap, u)] = u
      /\ \A n \in nums : items[n] \in known /\ n = SeqNum(seqmap, items[n])
  BY <1>1, <1>2, <1>7
<1>9. nums \subseteq Nat /\ IsFiniteSet(nums)
  <2>1. Cardinality(seqmap) \in Nat
    BY <1>6, FS_CardinalityType
  <2>2. nums \in SUBSET (0..Cardinality(seqmap))
    BY <1>1, <1>7, <2>1
  <2>3. IsFiniteSet(0..Cardinality(seqmap))
    BY <2>1, FS_Interval
  <2>4. IsFiniteSet(nums)
    BY <2>2, <2>3, FS_Subset
  <2> QED
    BY <2>2, <2>4
<1>10. minNum \in Nat /\ (nums # {} => minNum \in nums /\ \A m \in nums : minNum <= m)
  <2>1. CASE nums = {}
    BY <1>4, <2>1
  <2>2. CASE nums # {}
    <3>1. \E n \in nums : \A m \in nums : n <= m
      BY <1>9, <2>2, Least
    <3>2. minNum = CHOOSE n \in nums : \A m \in nums : n <= m
      BY <1>4, <2>2
    <3>3. minNum \in nums /\ \A m \in nums : minNum <= m
      BY <3>1, <3>2
    <3> QED
      BY <1>9, <3>3
  <2> QED
    BY <2>1, <2>2
<1>11. /\ new.items = items /\ new.policy = server[1] /\ ~new.gotFirst /\ new.minNum = minNum
      /\ new.on /\ new.forDelete = forDelete
  BY <1>5
<1>12. Handler(new)
  BY <1>5, <1>6, <1>10 DEF Handler, Handlers
<1>13. Values(new.items) = known
  <2>1. \A u \in known : u \in Values(items)
    BY <1>8 DEF Values
  <2>2. \A u \in Values(items) : u \in known
    BY <1>8 DEF Values
  <2> QED
    BY <1>11, <2>1, <2>2
<1>14. KeysRight(new.items, S)
  BY <1>7, <1>8, <1>11 DEF KeysRight
<1>15. ASSUME known # {}, Fits(server[1], server[2])
       PROVE  PolicyRight(new, server[2])
  <2>1. DOMAIN new.items # {} /\ DOMAIN new.items = nums
    <3>1. PICK u : u \in known
      BY <1>15
    <3> QED
      BY <1>8, <1>11, <3>1
  <2>2. new.policy = "auto" => Undecided(new)
    BY <1>10, <1>11, <2>1 DEF Undecided
  <2> QED
    BY <1>6, <1>11, <1>15, <2>2 DEF PolicyRight, Fits, Policies, Orders
<1> QED
  BY <1>3, <1>11, <1>12, <1>13, <1>14, <1>15

(* When no command runs and nothing has gone, the expunger is empty.       *)
LEMMA Idle ==
  ASSUME TypeOK, NEW c \in Ways, Way(c), pc = "select", Calm(updates)
  PROVE  Held = {}
<1>1. Items(c, updates, Held, server[2], base) /\ c[Len(updates) + 1] \cap Held = {}
  BY DEF Way, Remaining
<1>2. c[1] \subseteq c[Len(updates) + 1]
  BY <1>1, Shape, CalmKeeps
<1> QED
  BY <1>1, <1>2 DEF Items

LEMMA NotPending ==
  ASSUME TypeOK, WayRight, pc = "select", ~Pending
  PROVE  Calm(updates)
BY Shape DEF Pending, Calm

LEMMA BeginWay ==
  ASSUME IInv, Guided, Guided', NEW kind \in {"delete", "move"}, NEW dir \in Dirs, NEW uids,
         Begin(kind, dir, uids)
  PROVE  WayRight'
<1>1. TypeOK /\ CommandRight /\ WayRight
  BY DEF IInv, WayRight
<1>2. PICK c \in Ways : Way(c)
  BY DEF IInv, WayRight
<1>3. /\ pc = "select" /\ uids \subseteq ui[dir] /\ sel' = dir /\ pc' = "store"
      /\ expunger' = NewExpunger(uids, kind = "delete") /\ seqmap' = seqmap \ uids
      /\ op' = [kind |-> kind, dir |-> dir, uids |-> uids, ok |-> TRUE]
      /\ UNCHANGED <<updates, server, base, mails, box, ui>>
  BY DEF Begin, servervars, uivars
<1>4. astray' = astray \cup EventIf("pending", Pending) \cup EventIf("unlisted", dir # sel)
                  \cup EventIf("blind", dir # sel \/ "unlisted" \in astray)
  BY DEF Begin
<1>5. ~Pending /\ dir = sel /\ Listed /\ Listed' /\ "misfit" \notin astray /\ (astray' = {} => astray = {})
  BY <1>4 DEF Guided, Listed, EventIf
<1>6. Calm(updates) /\ Held = {}
  BY <1>1, <1>2, <1>3, <1>5, NotPending, Idle
<1>7. Items(c, updates, {}, server[2], base) /\ Boxes(c, updates, {}, seqmap, ui[sel], box[sel]) /\ ShownRight(c)
  BY <1>2, <1>5, <1>6 DEF Way
<1>8. Len(updates) \in Nat /\ 1 \in 1..(Len(updates) + 1) /\ Len(updates) + 1 \in 1..(Len(updates) + 1) /\ sel \in Dirs
  BY <1>1, Shape
<1>9. c[1] \subseteq Nat /\ IsFiniteSet(c[1]) /\ Prefix(seqmap, c[1]) /\ seqmap \subseteq c[1]
      /\ c[Len(updates) + 1] = box[sel] /\ c[1] \subseteq box[sel]
  <2>1. seqmap \cup {} = seqmap
    OBVIOUS
  <2>2. c[1] \subseteq c[Len(updates) + 1]
    BY <1>6, <1>7, <1>8, CalmKeeps
  <2> QED
    BY <1>7, <1>8, <2>1, <2>2 DEF Items, Boxes, Prefix
<1>10. PICK new : new = NewExpunger(uids, kind = "delete")
  OBVIOUS
<1>11. /\ new.on /\ new.forDelete = (kind = "delete")
       /\ Values(new.items) = uids \cap seqmap /\ KeysRight(new.items, c[1])
       /\ uids \cap seqmap # {} /\ Fits(server[1], server[2]) => PolicyRight(new, server[2])
  BY <1>1, <1>9, <1>10, NewExpungerRight
<1>12. Held' = uids \cap seqmap /\ Held' \subseteq seqmap
  BY <1>3, <1>10, <1>11 DEF Held, Values
<1>13. Fits(server[1], server[2])
  BY <1>5 DEF IInv
<1>14. NoReturn(c, Len(updates) + 1, Held') /\ Later(c, Len(updates) + 1, Held')
  BY <1>7, <1>12 DEF Boxes, NoReturn, Later
<1>15. Items(c, updates', Held', server'[2], base')
  <2>1. Held' \subseteq c[1]
    BY <1>9, <1>12
  <2>2. Items(c, updates, Held', server[2], base)
    BY <1>6, <1>7, <1>8, <1>14, <2>1, CalmItems
  <2> QED
    BY <1>3, <2>2
<1>16. ui[sel] \cap box[sel] \subseteq seqmap
  BY <1>7, <1>8, <1>9 DEF Boxes
<1>17. Remaining' = Held'
  BY <1>3 DEF Remaining
<1>18. ExpungerRight(c)'
  <2>1. Reference(c)' = c[1]
    BY <1>3 DEF Reference
  <2> QED
    BY <1>3, <1>10, <1>11, <1>12, <1>13, <2>1 DEF ExpungerRight
<1>19. Boxes(c, updates', Held', seqmap', ui'[sel'], box'[sel'])
  <2>1. seqmap' \cup Held' = seqmap /\ seqmap' \cap Held' = {}
    BY <1>3, <1>12
  <2>2. \A i \in 1..Len(updates) : updates[i].kind # "expunge"
    BY <1>6 DEF Calm
  <2>3. Boxes(c, updates, Held', seqmap', ui[sel], box[sel])
    BY <1>7, <2>1, <2>2 DEF Boxes, OtherStep
  <2> QED
    BY <1>3, <1>5, <2>3
<1>20. ShownRight(c)'
  BY <1>3, <1>5, <1>7 DEF ShownRight, Deleting
<1>21. Way(c)' /\ c \in Ways'
  <2>1. (c[Len(updates) + 1] \cap Held = Remaining)'
    BY <1>3, <1>9, <1>12, <1>17
  <2> QED
    BY <1>3, <1>15, <1>18, <1>19, <1>20, <2>1 DEF Way, Ways, Given
<1>22. CommandRight'
  <2>1. /\ op'.dir = sel' /\ op'.ok /\ op'.uids = uids /\ op'.kind = kind
        /\ expunger'.forDelete = (kind = "delete")
    BY <1>3, <1>5, <1>10, <1>11
  <2>2. op'.uids \cap box'[sel'] = Remaining'
    BY <1>3, <1>5, <1>9, <1>12, <1>16, <1>17, <2>1
  <2>3. \A i \in DOMAIN updates' : updates'[i].kind = "exists"
    BY <1>1, <1>3, <1>6, Shape DEF Calm
  <2>4. \A i \in DOMAIN updates' : updates'[i].kind # "fetch"
    BY <2>3
  <2>5. Held' \subseteq op'.uids /\ op'.uids \subseteq ui'[sel']
    BY <1>3, <1>12, <2>1
  <2> QED
    BY <1>5, <2>1, <2>2, <2>3, <2>4, <2>5 DEF CommandRight
<1> QED
  BY <1>21, <1>22 DEF WayRight

LEMMA OpenWay ==
  ASSUME IInv, Guided, NEW dir, Open(dir)
  PROVE  WayRight'
<1>1. CommandRight
  BY DEF IInv, WayRight
<1>2. PICK c \in Ways : Way(c)
  BY DEF IInv, WayRight
<1>3. /\ pc = "select" /\ sel' = dir
      /\ UNCHANGED <<box, server, todo, base, seqmap, expunger, updates, pc, op, ui, mails>>
  BY DEF Open, servervars
<1>4. /\ astray \subseteq astray' /\ (Listed' => Listed /\ dir = sel)
  BY DEF Open, WentAstray, EventIf, Listed
<1>5. Held' = Held /\ Remaining' = Remaining /\ Held' = Held
  BY <1>3 DEF Held, Remaining
<1>6. ExpungerRight(c)'
  BY <1>2, <1>3, <1>5 DEF Way, ExpungerRight, Reference
<1>7. Listed' => ShownRight(c)'
  <2>1. Listed' => ShownRight(c)
    BY <1>2, <1>4 DEF Way
  <2>2. astray' = {} => astray = {}
    BY <1>4
  <2> QED
    BY <1>3, <1>4, <1>5, <2>1, <2>2 DEF ShownRight, Deleting
<1>8. Listed' => seqmap \cap Held = {}
  BY <1>2, <1>4 DEF Way, Boxes
<1>9. (\E d \in Ways : Way(d))'
  BY <1>2, <1>3, <1>4, <1>5, <1>6, <1>7, <1>8, WayKept
<1>10. CommandRight'
  BY <1>1, <1>3 DEF CommandRight
<1> QED
  BY <1>9, <1>10 DEF WayRight

LEMMA EndsWay ==
  ASSUME IInv, Guided, CommandEnds
  PROVE  WayRight'
<1>1. CommandRight
  BY DEF IInv, WayRight
<1>2. PICK c \in Ways : Way(c)
  BY DEF IInv, WayRight
<1>3. /\ pc = "expunge" /\ pc' = "close" /\ todo = {}
      /\ UNCHANGED <<box, server, base, sel, seqmap, expunger, updates, op, ui, mails, astray>>
  BY DEF CommandEnds, servervars, uivars, envvars
<1>4. Held' = Held /\ Remaining' = Remaining
  BY <1>3 DEF Held, Remaining
<1>5. ExpungerRight(c)'
  BY <1>2, <1>3, <1>4 DEF Way, ExpungerRight, Reference
<1>6. Listed' <=> Listed
  BY <1>3 DEF Listed
<1>7. Listed => ShownRight(c)' /\ seqmap \cap Held = {}
  BY <1>2, <1>3, <1>4 DEF Way, Boxes, ShownRight, Deleting
<1>8. (\E d \in Ways : Way(d))'
  BY <1>2, <1>3, <1>4, <1>5, <1>6, <1>7, WayKept
<1>9. CommandRight'
  BY <1>1, <1>3, <1>4, <1>6 DEF CommandRight
<1> QED
  BY <1>8, <1>9 DEF WayRight

LEMMA ForeignFlagWay ==
  ASSUME IInv, Guided, NEW u, ForeignFlag(u)
  PROVE  WayRight'
<1>1. CommandRight
  BY DEF IInv, WayRight
<1>2. PICK c \in Ways : Way(c)
  BY DEF IInv, WayRight
<1>3. UNCHANGED <<box, server, todo, base, sel, seqmap, expunger, updates, pc, op, ui, mails, astray>>
  BY DEF ForeignFlag, workervars, uivars
<1>4. Held' = Held /\ Remaining' = Remaining
  BY <1>3 DEF Held, Remaining
<1>5. ExpungerRight(c)'
  BY <1>2, <1>3, <1>4 DEF Way, ExpungerRight, Reference
<1>6. Listed' <=> Listed
  BY <1>3 DEF Listed
<1>7. Listed => ShownRight(c)' /\ seqmap \cap Held = {}
  BY <1>2, <1>3, <1>4 DEF Way, Boxes, ShownRight, Deleting
<1>8. (\E d \in Ways : Way(d))'
  BY <1>2, <1>3, <1>4, <1>5, <1>6, <1>7, WayKept
<1>9. CommandRight'
  BY <1>1, <1>3, <1>4, <1>6 DEF CommandRight
<1> QED
  BY <1>8, <1>9 DEF WayRight

(* A delete that comes to its end tells the store what is gone.            *)
LEMMA CloseWay ==
  ASSUME IInv, Guided, Close
  PROVE  /\ WayRight'
         /\ \A e \in Dirs : (ui[e] \ ui'[e]) \cap box[e] = {}
<1>1. TypeOK /\ CommandRight
  BY DEF IInv, WayRight
<1>2. PICK c \in Ways : Way(c)
  BY DEF IInv, WayRight
<1>3. /\ pc = "close" /\ pc' = "select"
      /\ ui' = IF op.kind = "delete" /\ op.ok THEN Dropped(op.dir, op.uids) ELSE ui
      /\ UNCHANGED <<box, server, todo, base, sel, seqmap, expunger, updates, op, mails, astray>>
  BY DEF Close, servervars, envvars
<1>4. /\ Listed /\ op.dir = sel /\ op.ok /\ Held \subseteq op.uids
      /\ op.uids \cap box[sel] = Remaining
      /\ op.kind = "delete" <=> expunger.forDelete
      /\ op.kind = "delete" => op.uids \subseteq ui[sel]
  BY <1>1, <1>3 DEF CommandRight
<1>5. Remaining = {} /\ Remaining' = {} /\ Held' = Held
  BY <1>3 DEF Held, Remaining
<1>6. sel \in Dirs
  BY <1>1, Shape
<1>7. ui' = IF op.kind = "delete" THEN [ui EXCEPT ![sel] = @ \ op.uids] ELSE ui
  BY <1>1, <1>3, <1>4, <1>6, DroppedRight
<1>8. /\ ui'[sel] = IF op.kind = "delete" THEN ui[sel] \ op.uids ELSE ui[sel]
      /\ \A e \in Dirs \ {sel} : ui'[e] = ui[e]
  BY <1>1, <1>6, <1>7 DEF TypeOK
<1>9. ExpungerRight(c)'
  BY <1>2, <1>3, <1>5 DEF Way, ExpungerRight, Reference
<1>10. Listed' <=> Listed
  BY <1>3 DEF Listed
<1>11. ShownRight(c)'
  <2>1. ShownRight(c)
    BY <1>2, <1>4 DEF Way
  <2>2. expunger'.forDelete => Held' \cap ui'[sel] = {}
    BY <1>3, <1>4, <1>5, <1>8
  <2>3. astray' = {} => ui'[sel] \subseteq c[1]
    BY <1>3, <1>8, <2>1 DEF ShownRight, Deleting
  <2> QED
    BY <1>3, <2>2, <2>3 DEF ShownRight
<1>12. seqmap \cap Held = {} /\ ui'[sel] \subseteq ui[sel]
  BY <1>2, <1>4, <1>8 DEF Way, Boxes
<1>13. (\E d \in Ways : Way(d))'
  BY <1>2, <1>3, <1>5, <1>9, <1>10, <1>11, <1>12, WayKept
<1>14. CommandRight'
  BY <1>1, <1>3 DEF CommandRight
<1>15. ASSUME NEW e \in Dirs
       PROVE  (ui[e] \ ui'[e]) \cap box[e] = {}
  BY <1>4, <1>5, <1>8
<1> QED
  BY <1>13, <1>14, <1>15 DEF WayRight

(* The server starts to expunge: it has told at most of the flags of the   *)
(* messages it is about to expunge.                                        *)
LEMMA StoreWay ==
  ASSUME IInv, Guided, pc = "store", pc' = "expunge", base' = box[sel], todo' = op.uids \cap box[sel],
         Extends(updates', updates), DOMAIN updates = 1..Len(updates), DOMAIN updates' = 1..Len(updates'),
         \A i \in (Len(updates) + 1)..Len(updates') :
           updates'[i].kind = "fetch" /\ updates'[i].uid \in Held /\ expunger.forDelete,
         UNCHANGED <<box, server, sel, seqmap, expunger, op, ui, mails>>,
         Listed' <=> Listed, astray' = {} => astray = {}
  PROVE  WayRight'
<1>1. TypeOK /\ CommandRight
  BY DEF IInv, WayRight
<1>2. PICK c \in Ways : Way(c)
  BY DEF IInv, WayRight
<1> DEFINE n == Len(updates)
           last == c[n + 1]
<1>3. /\ Listed /\ op.dir = sel /\ op.ok /\ Held \subseteq op.uids
      /\ op.uids \cap box[sel] = Remaining /\ Remaining = Held
      /\ op.kind = "delete" <=> expunger.forDelete
      /\ op.kind = "delete" => op.uids \subseteq ui[sel]
      /\ \A i \in DOMAIN updates : updates[i].kind = "exists"
  BY <1>1 DEF CommandRight, Remaining
<1>4. n \in Nat /\ n + 1 \in 1..(n + 1) /\ Calm(updates)
  BY <1>1, <1>3, Shape DEF Calm
<1>5. /\ Items(c, updates, Held, server[2], base) /\ ShownRight(c) /\ ExpungerRight(c)
      /\ Boxes(c, updates, Held, seqmap, ui[sel], box[sel]) /\ last = box[sel]
  BY <1>2, <1>3 DEF Way, Boxes
<1>6. Held' = Held /\ Remaining' = Held /\ todo' = Held
  BY <1>3 DEF Held, Remaining
<1>7. Items(c, updates, Held, server'[2], base')
  <2>1. PICK ref2, held, q : ref2 = base' /\ held = Held /\ q = updates
    OBVIOUS
  <2>2. Items(c, q, held, server[2], base)
    BY <1>5, <2>1
  <2>3. held \subseteq c[1] /\ NoReturn(c, Len(q) + 1, held) /\ Later(c, Len(q) + 1, held)
    BY <2>2 DEF Items
  <2>4. Items(c, q, held, server[2], ref2)
    BY <1>4, <2>1, <2>2, <2>3, CalmItems
  <2> QED
    BY <1>4, <1>6, <2>1, <2>4
<1>8. c[1] \subseteq last /\ last \subseteq Nat /\ IsFiniteSet(last) /\ Held \subseteq c[1]
      /\ \A v \in last \ c[1], u \in Held : u < v
  <2>1. c[1] \subseteq last
    BY <1>4, <1>5, CalmKeeps
  <2> QED
    BY <1>4, <1>5, <2>1 DEF Items, Later
<1>9. ExpungerRight(c)'
  <2>1. PICK S, f : S = Reference(c)' /\ f = expunger.items
    OBVIOUS
  <2>2. S = IF server[2] = "stable" THEN last ELSE c[1]
    BY <1>5, <2>1 DEF Reference
  <2>3. KeysRight(f, c[1]) /\ \A k \in DOMAIN f : f[k] \in Held
    BY <1>5, <2>1 DEF ExpungerRight, Reference, Held
  <2>4. ASSUME NEW k \in DOMAIN f
        PROVE  f[k] \in last /\ k = SeqNum(last, f[k])
    <3>1. f[k] \in c[1] /\ k = SeqNum(c[1], f[k]) /\ f[k] \in Nat
      BY <1>8, <2>3 DEF KeysRight
    <3>2. \A v \in last \ c[1] : f[k] < v
      BY <1>8, <2>3
    <3> QED
      BY <1>8, <3>1, <3>2, SeqNumGrows
  <2>5. KeysRight(f, S)
    BY <2>2, <2>3, <2>4 DEF KeysRight
  <2> QED
    BY <1>5, <1>6, <2>1, <2>5 DEF ExpungerRight
<1>10. ShownRight(c)'
  BY <1>5, <1>6 DEF ShownRight, Deleting
<1>11. ASSUME NEW i \in (n + 1)..Len(updates')
       PROVE  /\ ItemStep(updates'[i], Onto(c, updates, i, last), last, Held, server'[2], base')
              /\ OtherStep(updates'[i], Onto(c, updates, i, last), last, Held)
  <2>1. Onto(c, updates, i, last) = last
    BY DEF Onto
  <2>2. updates'[i].kind = "fetch" /\ updates'[i].uid \in last \cap Held
    BY <1>8
  <2> QED
    BY <2>1, <2>2 DEF ItemStep, OtherStep
<1>12. last \subseteq Given /\ Given' = Given
  BY <1>1, <1>5, Shape DEF IInv, Given
<1>13. last \cap Held = Remaining'
  BY <1>6, <1>8
<1>14. (\E d \in Ways : Way(d))'
  BY <1>2, <1>3, <1>5, <1>6, <1>7, <1>8, <1>9, <1>10, <1>11, <1>12, <1>13, WayExtended
<1>15. \A i \in DOMAIN updates' : updates'[i].kind = "fetch" => expunger'.forDelete
  <2>1. \A i \in DOMAIN updates' : i \in 1..n \/ i \in (n + 1)..Len(updates')
    BY <1>4 DEF Extends
  <2>2. \A i \in 1..n : updates'[i] = updates[i] /\ updates[i].kind = "exists"
    BY <1>3 DEF Extends
  <2> QED
    BY <2>1, <2>2
<1>16. CommandRight'
  BY <1>3, <1>6, <1>15 DEF CommandRight, Remaining
<1> QED
  BY <1>14, <1>16 DEF WayRight

(* What the server may tell of the flags it has set. *)
News(new) == [i \in 1..Cardinality(new) |-> Fetch(SeqNum(box[sel], Nth(new, i)), Nth(new, i))]

LEMMA NewsRight ==
  ASSUME TypeOK, NEW new, new \subseteq box[sel]
  PROVE  /\ News(new) \in Seq(UpdateRecords) /\ Len(News(new)) = Cardinality(new) /\ Cardinality(new) \in Nat
         /\ \A i \in 1..Cardinality(new) : News(new)[i].kind = "fetch" /\ News(new)[i].uid \in new
<1>1. PICK S : S = box[sel]
  OBVIOUS
<1>2. PICK size : size = Cardinality(new)
  OBVIOUS
<1>3. sel \in Dirs /\ box[sel] \subseteq Uids
  BY Shape, SetTypes
<1>4. /\ S \subseteq Uids /\ IsFiniteSet(S) /\ S \subseteq Nat /\ new \subseteq Uids
      /\ IsFiniteSet(new) /\ new \subseteq Nat /\ size \in Nat
  BY <1>1, <1>2, <1>3, FiniteUids, FS_CardinalityType
<1>5. ASSUME NEW i \in 1..size
      PROVE  /\ Fetch(SeqNum(S, Nth(new, i)), Nth(new, i)) \in UpdateRecords
             /\ Fetch(SeqNum(S, Nth(new, i)), Nth(new, i)).kind = "fetch"
             /\ Fetch(SeqNum(S, Nth(new, i)), Nth(new, i)).uid = Nth(new, i)
             /\ Nth(new, i) \in new
  <2>1. PICK u : u = Nth(new, i)
    OBVIOUS
  <2>2. u \in new
    BY <1>2, <1>4, <2>1, NthRight
  <2>3. PICK n : n = SeqNum(S, u)
    OBVIOUS
  <2>4. n \in Nat
    BY <1>4, <2>3, SeqNumType
  <2>5. /\ Fetch(n, u) \in UpdateRecords /\ Fetch(n, u).kind = "fetch" /\ Fetch(n, u).uid = u
    BY <1>4, <2>2, <2>4 DEF Fetch, UpdateRecords
  <2> QED
    BY <2>1, <2>2, <2>3, <2>5
<1>6. PICK news : news = [i \in 1..size |-> Fetch(SeqNum(S, Nth(new, i)), Nth(new, i))]
  OBVIOUS
<1>7. News(new) = news
  BY <1>1, <1>2, <1>6 DEF News
<1>8. \A i \in 1..size : news[i] \in UpdateRecords /\ news[i].kind = "fetch" /\ news[i].uid \in new
  BY <1>5, <1>6
<1>9. news \in [1..size -> UpdateRecords]
  BY <1>6, <1>8
<1>10. news \in Seq(UpdateRecords) /\ Len(news) = size
  BY <1>4, <1>9
<1> QED
  BY <1>2, <1>4, <1>7, <1>8, <1>10

(* A longer queue. *)
LEMMA Joined ==
  ASSUME TypeOK, NEW news \in Seq(UpdateRecords), updates' = updates \o news
  PROVE  /\ Extends(updates', updates) /\ Len(updates') = Len(updates) + Len(news)
         /\ DOMAIN updates = 1..Len(updates) /\ DOMAIN updates' = 1..Len(updates')
         /\ updates' \in Seq(UpdateRecords)
         /\ \A i \in (Len(updates) + 1)..Len(updates') :
              i - Len(updates) \in 1..Len(news) /\ updates'[i] = news[i - Len(updates)]
<1>1. PICK q, p : q = updates /\ p = updates'
  OBVIOUS
<1>2. q \in Seq(UpdateRecords) /\ p = q \o news
  BY <1>1, Shape
<1>3. /\ Len(q) \in Nat /\ Len(news) \in Nat /\ Len(p) = Len(q) + Len(news) /\ p \in Seq(UpdateRecords)
      /\ DOMAIN q = 1..Len(q) /\ DOMAIN p = 1..Len(p)
  BY <1>2
<1>4. \A i \in 1..Len(q) : p[i] = q[i]
  BY <1>2
<1>5. ASSUME NEW i \in (Len(q) + 1)..Len(p)
      PROVE  i - Len(q) \in 1..Len(news) /\ p[i] = news[i - Len(q)]
  BY <1>2, <1>3
<1> QED
  BY <1>1, <1>3, <1>4, <1>5 DEF Extends

LEMMA Appended ==
  ASSUME TypeOK, NEW m \in UpdateRecords, updates' = Append(updates, m)
  PROVE  /\ Extends(updates', updates) /\ Len(updates') = Len(updates) + 1
         /\ DOMAIN updates = 1..Len(updates) /\ DOMAIN updates' = 1..Len(updates')
         /\ updates' \in Seq(UpdateRecords)
         /\ Len(updates) + 1 \in (Len(updates) + 1)..Len(updates') /\ updates'[Len(updates) + 1] = m
         /\ \A i \in (Len(updates) + 1)..Len(updates') : i = Len(updates) + 1
         /\ \A i \in 1..Len(updates') : i \in 1..Len(updates) \/ i = Len(updates) + 1
<1>1. PICK q, p : q = updates /\ p = updates'
  OBVIOUS
<1>2. q \in Seq(UpdateRecords) /\ p = Append(q, m)
  BY <1>1, Shape
<1>3. /\ Len(q) \in Nat /\ Len(p) = Len(q) + 1 /\ p \in Seq(UpdateRecords)
      /\ DOMAIN q = 1..Len(q) /\ DOMAIN p = 1..Len(p) /\ p[Len(q) + 1] = m
  BY <1>2
<1>4. \A i \in 1..Len(q) : p[i] = q[i]
  BY <1>2
<1> QED
  BY <1>1, <1>3, <1>4 DEF Extends

LEMMA StoreDeletedWay ==
  ASSUME IInv, Guided, Guided', NEW notify \in BOOLEAN, StoreDeleted(notify)
  PROVE  WayRight'
<1>1. TypeOK /\ CommandRight /\ sel \in Dirs
  BY Shape DEF IInv, WayRight
<1>2. PICK new : new = op.uids \cap box[sel]
  OBVIOUS
<1>3. PICK news : news = IF notify THEN News(new) ELSE <<>>
  OBVIOUS
<1>4. /\ pc = "store" /\ pc' = "expunge" /\ op.kind = "delete" /\ base' = box[sel]
      /\ flagged' = [flagged EXCEPT ![sel] = @ \cup new] /\ todo' = flagged'[sel]
      /\ updates' = updates \o news
      /\ UNCHANGED <<box, server, sel, seqmap, expunger, op, ui, mails>>
  BY <1>2, <1>3 DEF StoreDeleted, News, uivars, envvars
<1>5. astray' = astray \cup EventIf("unasked", ~(todo' \subseteq op.uids))
  BY DEF StoreDeleted, WentAstray
<1>6. todo' \subseteq op.uids /\ astray' = astray
  BY <1>5 DEF Guided, EventIf
<1>7. todo' = new
  <2>1. todo' = flagged[sel] \cup new /\ flagged[sel] \subseteq box[sel]
    BY <1>1, <1>4 DEF TypeOK
  <2> QED
    BY <1>2, <1>6, <2>1
<1>8. new = Held /\ expunger.forDelete
  BY <1>1, <1>2, <1>4 DEF CommandRight, Remaining
<1>9. news \in Seq(UpdateRecords) /\ \A i \in 1..Len(news) : news[i].kind = "fetch" /\ news[i].uid \in new
  <2>1. CASE notify
    <3>1. news = News(new) /\ new \subseteq box[sel]
      BY <1>2, <1>3, <2>1
    <3> QED
      BY <1>1, <3>1, NewsRight
  <2>2. CASE ~notify
    BY <1>3, <2>2
  <2> QED
    BY <2>1, <2>2
<1>10. /\ Extends(updates', updates) /\ DOMAIN updates = 1..Len(updates) /\ DOMAIN updates' = 1..Len(updates')
       /\ \A i \in (Len(updates) + 1)..Len(updates') :
            i - Len(updates) \in 1..Len(news) /\ updates'[i] = news[i - Len(updates)]
  BY <1>1, <1>4, <1>9, Joined
<1>11. \A i \in (Len(updates) + 1)..Len(updates') :
         updates'[i].kind = "fetch" /\ updates'[i].uid \in Held /\ expunger.forDelete
  BY <1>8, <1>9, <1>10
<1>12. (Listed' <=> Listed) /\ (astray' = {} => astray = {})
  BY <1>6 DEF Listed
<1> QED
  BY <1>2, <1>4, <1>7, <1>10, <1>11, <1>12, StoreWay

LEMMA MoveWay ==
  ASSUME IInv, Guided, Move
  PROVE  WayRight'
<1>1. TypeOK /\ updates \in Seq(UpdateRecords) /\ Len(updates) \in Nat
  BY Shape DEF IInv
<1>2. /\ pc = "store" /\ pc' = "expunge" /\ base' = box[sel] /\ todo' = op.uids \cap box[sel]
      /\ UNCHANGED <<box, server, sel, seqmap, expunger, updates, op, ui, mails, astray>>
  BY DEF Move, uivars, envvars
<1>3. /\ Extends(updates', updates) /\ DOMAIN updates = 1..Len(updates) /\ DOMAIN updates' = 1..Len(updates')
      /\ (Len(updates) + 1)..Len(updates') = {}
  BY <1>1, <1>2 DEF Extends
<1>4. (Listed' <=> Listed) /\ (astray' = {} => astray = {})
  BY <1>2 DEF Listed
<1> QED
  BY <1>2, <1>3, <1>4, StoreWay

LEMMA ServerExpungesWay ==
  ASSUME IInv, Guided, NEW u, ServerExpunges(u)
  PROVE  WayRight'
<1>1. TypeOK /\ CommandRight /\ sel \in Dirs /\ server[2] \in Orders
  BY Shape DEF IInv, WayRight
<1>2. PICK c \in Ways : Way(c)
  BY DEF IInv, WayRight
<1>3. PICK n : n = Len(updates)
  OBVIOUS
<1>4. PICK last : last = box[sel]
  OBVIOUS
<1>5. PICK T : T = last \ {u}
  OBVIOUS
<1>6. PICK m : m = Expunge(SeqNum(IF server[2] = "stable" THEN base ELSE last, u))
  OBVIOUS
<1>7. /\ pc = "expunge" /\ u \in todo /\ updates' = Append(updates, m) /\ todo' = todo \ {u}
      /\ server[2] = "low-to-high" => \A v \in todo : u <= v
      /\ server[2] = "high-to-low" => \A v \in todo : u >= v
      /\ box' = [box EXCEPT ![sel] = @ \ {u}]
      /\ UNCHANGED <<server, base, sel, seqmap, expunger, pc, op, ui, mails, astray>>
  BY <1>4, <1>6 DEF ServerExpunges, uivars, envvars
<1>8. box'[sel] = T /\ last \subseteq Uids /\ IsFiniteSet(last) /\ last \subseteq Nat /\ base \subseteq Uids
  BY <1>1, <1>4, <1>5, <1>7, SetTypes, FiniteUids DEF TypeOK
<1>9. /\ Listed /\ op.dir = sel /\ op.ok /\ Held \subseteq op.uids
      /\ op.uids \cap last = todo /\ Remaining = todo
      /\ op.kind = "delete" <=> expunger.forDelete
      /\ op.kind = "delete" => op.uids \subseteq ui[sel]
      /\ \A i \in DOMAIN updates : updates[i].kind = "fetch" => expunger.forDelete
  BY <1>1, <1>4, <1>7 DEF CommandRight, Remaining
<1>10. /\ Items(c, updates, Held, server[2], base) /\ ShownRight(c) /\ ExpungerRight(c)
       /\ c[n + 1] = last /\ last \cap Held = todo /\ seqmap \cup Held \subseteq c[1]
  BY <1>2, <1>3, <1>4, <1>9 DEF Way, Boxes, Prefix
<1>11. /\ u \in last /\ u \in Held /\ T \subseteq last /\ IsFiniteSet(T) /\ T \subseteq Nat
       /\ T \cap Held = todo \ {u} /\ T \subseteq Given
  BY <1>1, <1>4, <1>5, <1>7, <1>8, <1>10, FS_RemoveElement DEF IInv
<1>12. m \in UpdateRecords /\ m.kind = "expunge" /\ m.seq = SeqNum(IF server[2] = "stable" THEN base ELSE last, u)
  <2>1. PICK k : k = SeqNum(IF server[2] = "stable" THEN base ELSE last, u)
    OBVIOUS
  <2>2. IsFiniteSet(base)
    BY <1>8, FiniteUids
  <2>3. k \in Nat
    <3>1. CASE server[2] = "stable"
      BY <2>1, <2>2, <3>1, SeqNumType
    <3>2. CASE server[2] # "stable"
      BY <1>8, <2>1, <3>2, SeqNumType
    <3> QED
      BY <3>1, <3>2
  <2> QED
    BY <1>6, <2>1, <2>3 DEF Expunge, UpdateRecords
<1>13. /\ Extends(updates', updates) /\ DOMAIN updates = 1..n /\ DOMAIN updates' = 1..Len(updates')
       /\ n + 1 \in (n + 1)..Len(updates') /\ updates'[n + 1] = m
       /\ \A i \in (n + 1)..Len(updates') : i = n + 1
       /\ \A i \in 1..Len(updates') : i \in 1..n \/ i = n + 1
       /\ Len(updates') # Len(updates)
  <2>1. n \in Nat
    BY <1>1, <1>3, Shape
  <2> QED
    BY <1>1, <1>3, <1>7, <1>12, <2>1, Appended
<1>14. ItemStep(m, last, T, Held, server[2], base) /\ OtherStep(m, last, T, Held)
  <2>1. last \cap Held = todo /\ u \in last \cap Held
    BY <1>10, <1>11
  <2>2. todo \subseteq Nat /\ u \in Nat
    BY <1>8, <1>10, <1>11
  <2>3. NextOf(server[2], u, last \cap Held)
    BY <1>7, <2>1, <2>2 DEF NextOf
  <2> QED
    BY <1>5, <1>11, <1>12, <2>1, <2>3 DEF ItemStep, OtherStep
<1>15. ASSUME NEW i \in (n + 1)..Len(updates')
       PROVE  /\ ItemStep(updates'[i], Onto(c, updates, i, T), T, Held, server'[2], base')
              /\ OtherStep(updates'[i], Onto(c, updates, i, T), T, Held)
  <2>1. i = n + 1 /\ updates'[i] = m /\ Onto(c, updates, i, T) = last
    BY <1>3, <1>10, <1>13 DEF Onto
  <2> QED
    BY <1>7, <1>14, <2>1
<1>16. Held' = Held /\ Remaining' = todo \ {u} /\ Given' = Given
  BY <1>7 DEF Held, Remaining, Given
<1>17. ExpungerRight(c)' /\ ShownRight(c)'
  BY <1>7, <1>10, <1>16 DEF ExpungerRight, Reference, ShownRight, Deleting
<1>18. Items(c, updates, Held, server'[2], base')
  BY <1>7, <1>10
<1>19. Listed' <=> Listed
  BY <1>7 DEF Listed
<1>20. \E i \in (n + 1)..Len(updates') : updates'[i].kind = "expunge"
  BY <1>12, <1>13
<1>21. (\E d \in Ways : Way(d))'
  <2>1. /\ Given \subseteq Given' /\ T \subseteq Given' /\ T \cap Held = Remaining'
        /\ Held \cap T \subseteq c[n + 1] /\ T \ c[n + 1] = {} /\ T \ box[sel] = {}
        /\ (seqmap \cup Held) \cap T \subseteq box[sel] /\ T = box'[sel]
    BY <1>4, <1>8, <1>10, <1>11, <1>16
  <2>2. \A i \in (Len(updates) + 1)..Len(updates') :
          /\ ItemStep(updates'[i], Onto(c, updates, i, T), T, Held, server'[2], base')
          /\ OtherStep(updates'[i], Onto(c, updates, i, T), T, Held)
    BY <1>3, <1>15
  <2>3. \E i \in (Len(updates) + 1)..Len(updates') : updates'[i].kind = "expunge"
    BY <1>3, <1>20
  <2>4. /\ \A v \in T \ c[Len(updates) + 1], w \in Held : w < v
        /\ \A v \in T \ box[sel], w \in seqmap \cup Held : w < v
        /\ Held \cap T \subseteq c[Len(updates) + 1]
    BY <1>3, <2>1
  <2>5. /\ Listed /\ seqmap' = seqmap /\ sel' = sel /\ T = box'[sel] /\ ui' = ui
        /\ (seqmap \cup Held) \cap T \subseteq box[sel] /\ ui[sel] \cap (T \ box[sel]) = {}
        /\ ShownRight(c)'
    BY <1>7, <1>9, <1>17, <2>1
  <2> QED
    BY <1>2, <1>11, <1>13, <1>16, <1>17, <1>18, <2>1, <2>2, <2>3, <2>4, <2>5, WayExtended
<1>22. CommandRight'
  <2>1. \A i \in DOMAIN updates' : updates'[i].kind = "fetch" => expunger'.forDelete
    BY <1>7, <1>9, <1>12, <1>13 DEF Extends
  <2>2. op'.uids \cap box'[sel'] = Remaining' /\ Held' \subseteq op'.uids
    <3>1. op.uids \cap T = todo \ {u} /\ Held \subseteq op.uids
      BY <1>5, <1>9
    <3> QED
      BY <1>7, <1>8, <1>16, <3>1
  <2>3. Listed' /\ op'.dir = sel' /\ op'.ok /\ (op'.kind = "delete" <=> expunger'.forDelete)
        /\ (op'.kind = "delete" => op'.uids \subseteq ui'[sel'])
    BY <1>7, <1>9, <1>19
  <2>4. pc' # "store"
    BY <1>7
  <2> QED
    BY <2>1, <2>2, <2>3, <2>4 DEF CommandRight
<1> QED
  BY <1>21, <1>22 DEF WayRight

(* A new message has a number above all others.  What comes to a mailbox   *)
(* that is not listed is not followed.                                     *)
LEMMA ArriveWay ==
  ASSUME IInv, Guided, Arrive
  PROVE  WayRight'
<1>1. TypeOK /\ CommandRight /\ sel \in Dirs /\ MaxUid + mails \in Nat
  BY Shape DEF IInv, WayRight
<1>2. PICK c \in Ways : Way(c)
  BY DEF IInv, WayRight
<1>3. PICK n, last, new : n = Len(updates) /\ last = c[n + 1] /\ new = NewUid
  OBVIOUS
<1>4. PICK T : T = IF Listed THEN last \cup {new} ELSE last
  OBVIOUS
<1>5. /\ updates' = Append(updates, Exists) /\ box' = [box EXCEPT ![sel] = @ \cup {new}] /\ mails' = mails + 1
      /\ UNCHANGED <<server, todo, base, sel, seqmap, expunger, pc, op, ui, astray>>
  BY <1>3 DEF Arrive, uivars
<1>6. new = MaxUid + mails + 1 /\ new \in Nat /\ \A u \in Given : u < new /\ u \in Nat
  <2>1. MaxUid \in Nat /\ mails \in Nat
    BY <1>1, UidsAssumption DEF TypeOK
  <2> QED
    BY <2>1, <1>3 DEF NewUid, Given
<1>7. Given \subseteq Given' /\ new \in Given'
  <2>1. MaxUid \in Nat /\ mails \in Nat
    BY <1>1, UidsAssumption DEF TypeOK
  <2> QED
    BY <2>1, <1>5, <1>6 DEF Given
<1>8. n \in Nat /\ 1 \in 1..(n + 1) /\ n + 1 \in 1..(n + 1)
  BY <1>1, <1>3, Shape
<1>9. /\ Items(c, updates, Held, server[2], base) /\ ExpungerRight(c) /\ last \cap Held = Remaining
      /\ Listed => /\ Boxes(c, updates, Held, seqmap, ui[sel], box[sel]) /\ ShownRight(c)
                   /\ last = box[sel]
  BY <1>2, <1>3 DEF Way, Boxes
<1>10. /\ last \subseteq Given /\ c[1] \subseteq Given /\ IsFiniteSet(last) /\ last \subseteq Nat
       /\ Held \subseteq c[1] /\ (Listed => seqmap \cup Held \subseteq c[1])
  <2>1. last \subseteq Given /\ c[1] \subseteq Given /\ last \subseteq Nat /\ IsFiniteSet(last) /\ Held \subseteq c[1]
    BY <1>3, <1>8, <1>9 DEF Items, Ways
  <2>2. Listed => seqmap \cup Held \subseteq c[1]
    BY <1>9 DEF Boxes, Prefix
  <2> QED
    BY <2>1, <2>2
<1>11. /\ last \subseteq T /\ IsFiniteSet(T) /\ T \subseteq Nat /\ T \subseteq Given' /\ T \ last \subseteq {new}
       /\ new \notin Held /\ (Listed => new \notin seqmap)
  <2>1. IsFiniteSet(last \cup {new})
    BY <1>10, FS_AddElement
  <2>2. new \notin Given
    BY <1>6
  <2>3. IsFiniteSet(T)
    BY <1>4, <1>10, <2>1
  <2> QED
    BY <1>4, <1>6, <1>7, <1>10, <2>2, <2>3
<1>12. Exists \in UpdateRecords /\ Exists.kind = "exists"
  BY DEF Exists, UpdateRecords
<1>13. /\ Extends(updates', updates) /\ DOMAIN updates = 1..n /\ DOMAIN updates' = 1..Len(updates')
       /\ n + 1 \in (n + 1)..Len(updates') /\ updates'[n + 1] = Exists
       /\ \A i \in (n + 1)..Len(updates') : i = n + 1
       /\ \A i \in 1..Len(updates') : i \in 1..n \/ i = n + 1
       /\ Len(updates') # Len(updates)
  BY <1>1, <1>3, <1>5, <1>8, <1>12, Appended
<1>14. ASSUME NEW i \in (n + 1)..Len(updates')
       PROVE  /\ ItemStep(updates'[i], Onto(c, updates, i, T), T, Held, server'[2], base')
              /\ OtherStep(updates'[i], Onto(c, updates, i, T), T, Held)
  <2>1. i = n + 1 /\ updates'[i].kind = "exists" /\ Onto(c, updates, i, T) = last
    BY <1>3, <1>12, <1>13 DEF Onto
  <2> QED
    BY <1>11, <2>1 DEF ItemStep, OtherStep
<1>15. Held' = Held /\ Remaining' = Remaining /\ (Listed' <=> Listed)
  BY <1>5 DEF Held, Remaining, Listed
<1>16. ExpungerRight(c)' /\ (Listed => ShownRight(c)')
  BY <1>5, <1>9, <1>15 DEF ExpungerRight, Reference, ShownRight, Deleting
<1>17. new \notin ui[sel] /\ new \notin op.uids
  <2>1. ui[sel] \subseteq Given /\ op.uids \subseteq Given
    BY <1>1 DEF IInv
  <2> QED
    BY <1>6, <2>1
<1>18. \A v \in T \ last, u \in c[1] : u < v
  <2>1. \A u \in c[1] : u < new
    BY <1>6, <1>10
  <2> QED
    BY <1>11, <2>1
<1>19. box'[sel] = box[sel] \cup {new}
  BY <1>1, <1>5 DEF TypeOK
<1>20. (\E d \in Ways : Way(d))'
  <2>1. /\ T \cap Held = Remaining' /\ Held \cap T \subseteq c[n + 1]
        /\ \A v \in T \ c[n + 1], u \in Held : u < v
        /\ Items(c, updates, Held, server'[2], base')
    BY <1>3, <1>5, <1>9, <1>10, <1>11, <1>15, <1>18
  <2>2. ASSUME Listed
        PROVE  /\ T = box'[sel] /\ (seqmap \cup Held) \cap T \subseteq box[sel] /\ ui[sel] \cap (T \ box[sel]) = {}
               /\ \A v \in T \ box[sel], u \in seqmap \cup Held : u < v
    BY <1>4, <1>9, <1>10, <1>11, <1>17, <1>18, <1>19, <2>2
  <2> QED
    BY <1>2, <1>3, <1>5, <1>7, <1>11, <1>13, <1>14, <1>15, <1>16, <2>1, <2>2, WayExtended
<1>21. CommandRight'
  <2>1. /\ \A i \in DOMAIN updates' : updates'[i].kind = "fetch" => expunger'.forDelete
        /\ pc' = "store" => \A i \in DOMAIN updates' : updates'[i].kind = "exists"
    BY <1>1, <1>5, <1>12, <1>13 DEF CommandRight, Extends
  <2>2. ASSUME pc' # "select"
        PROVE  /\ Listed' /\ op'.dir = sel' /\ op'.ok /\ Held' \subseteq op'.uids
               /\ op'.uids \cap box'[sel'] = Remaining'
               /\ op'.kind = "delete" <=> expunger'.forDelete
    BY <1>1, <1>5, <1>15, <1>17, <1>19, <2>2 DEF CommandRight
  <2>3. ASSUME pc' # "select", op'.kind = "delete"
        PROVE  op'.uids \subseteq ui'[sel']
    BY <1>1, <1>5, <2>3 DEF CommandRight
  <2> QED
    BY <2>1, <2>2, <2>3 DEF CommandRight
<1> QED
  BY <1>20, <1>21 DEF WayRight

(* Another client expunges while no command runs.                          *)
LEMMA ForeignExpungeWay ==
  ASSUME IInv, Guided, Guided', NEW u, ForeignExpunge(u)
  PROVE  WayRight'
<1>1. TypeOK /\ CommandRight /\ sel \in Dirs
  BY Shape DEF IInv, WayRight
<1>2. PICK c \in Ways : Way(c)
  BY DEF IInv, WayRight
<1>3. PICK n, last, m : n = Len(updates) /\ last = c[n + 1] /\ m = Expunge(SeqNum(box[sel], u))
  OBVIOUS
<1>4. PICK T : T = IF Listed THEN last \ {u} ELSE last
  OBVIOUS
<1>5. /\ u \in box[sel] /\ updates' = Append(updates, m) /\ box' = [box EXCEPT ![sel] = @ \ {u}]
      /\ UNCHANGED <<server, base, sel, seqmap, expunger, pc, op, ui, mails>>
      /\ astray' = astray \cup EventIf("overlap", pc # "select")
  BY <1>3 DEF ForeignExpunge, uivars, WentAstray
<1>6. pc = "select" /\ astray' = astray
  BY <1>5 DEF Guided, EventIf
<1>7. n \in Nat /\ n + 1 \in 1..(n + 1)
  BY <1>1, <1>3, Shape
<1>8. /\ Items(c, updates, Held, server[2], base) /\ ExpungerRight(c) /\ last \cap Held = {}
      /\ Listed => /\ Boxes(c, updates, Held, seqmap, ui[sel], box[sel]) /\ ShownRight(c)
                   /\ last = box[sel]
  BY <1>2, <1>3, <1>6 DEF Way, Boxes, Remaining
<1>9. /\ last \subseteq Given /\ IsFiniteSet(last) /\ last \subseteq Nat
  BY <1>3, <1>7, <1>8 DEF Items, Ways
<1>10. /\ T \subseteq last /\ IsFiniteSet(T) /\ T \subseteq Nat /\ T \subseteq Given
  BY <1>4, <1>9, FS_RemoveElement
<1>11. m \in UpdateRecords /\ m.kind = "expunge" /\ m.seq = SeqNum(box[sel], u)
  <2>1. PICK k, S : S = box[sel] /\ k = SeqNum(S, u)
    OBVIOUS
  <2>2. k \in Nat
    BY <1>1, <2>1, SetTypes, FiniteUids, SeqNumType
  <2> QED
    BY <1>3, <2>1, <2>2 DEF Expunge, UpdateRecords
<1>12. /\ Extends(updates', updates) /\ DOMAIN updates = 1..n /\ DOMAIN updates' = 1..Len(updates')
       /\ n + 1 \in (n + 1)..Len(updates') /\ updates'[n + 1] = m
       /\ \A i \in (n + 1)..Len(updates') : i = n + 1
       /\ \A i \in 1..Len(updates') : i \in 1..n \/ i = n + 1
       /\ Len(updates') # Len(updates)
  BY <1>1, <1>3, <1>5, <1>7, <1>11, Appended
<1>13. ItemStep(m, last, T, Held, server[2], base)
  BY <1>8, <1>10, <1>11 DEF ItemStep
<1>14. Listed => OtherStep(m, last, T, Held)
  BY <1>4, <1>5, <1>8, <1>11 DEF OtherStep
<1>15. Held' = Held /\ Remaining' = {} /\ Given' = Given /\ (Listed' <=> Listed)
  BY <1>5, <1>6 DEF Held, Remaining, Given, Listed
<1>16. ExpungerRight(c)' /\ (Listed => ShownRight(c)')
  BY <1>5, <1>6, <1>8, <1>15 DEF ExpungerRight, Reference, ShownRight, Deleting
<1>17. box'[sel] = box[sel] \ {u}
  BY <1>1, <1>5 DEF TypeOK
<1>18. (\E d \in Ways : Way(d))'
  <2>1. \A i \in (Len(updates) + 1)..Len(updates') :
          /\ ItemStep(updates'[i], Onto(c, updates, i, T), T, Held, server'[2], base')
          /\ Listed => OtherStep(updates'[i], Onto(c, updates, i, T), T, Held)
          /\ updates'[i].kind = "expunge"
    <3>1. Onto(c, updates, n + 1, T) = last
      BY <1>3 DEF Onto
    <3> QED
      BY <1>3, <1>5, <1>11, <1>12, <1>13, <1>14, <3>1
  <2>2. \E i \in (Len(updates) + 1)..Len(updates') : updates'[i].kind = "expunge"
    BY <1>3, <1>12, <2>1
  <2>3. /\ \A v \in T \ c[Len(updates) + 1], w \in Held : w < v
        /\ Held \cap T \subseteq c[Len(updates) + 1] /\ T \cap Held = Remaining'
    BY <1>3, <1>8, <1>10, <1>15
  <2>4. Items(c, updates, Held, server'[2], base')
    BY <1>5, <1>8
  <2>5. ASSUME Listed'
        PROVE  /\ Listed /\ seqmap' = seqmap /\ sel' = sel /\ T = box'[sel] /\ ui' = ui
               /\ (seqmap \cup Held) \cap T \subseteq box[sel] /\ ui[sel] \cap (T \ box[sel]) = {}
               /\ \A v \in T \ box[sel], w \in seqmap \cup Held : w < v
               /\ ShownRight(c)'
    BY <1>4, <1>5, <1>8, <1>15, <1>16, <1>17, <2>5
  <2> QED
    BY <1>2, <1>10, <1>12, <1>15, <1>16, <2>1, <2>2, <2>3, <2>4, <2>5, WayExtended
<1>19. CommandRight'
  <2>1. \A i \in DOMAIN updates' : updates'[i].kind = "fetch" => expunger'.forDelete
    BY <1>1, <1>5, <1>11, <1>12 DEF CommandRight, Extends
  <2> QED
    BY <1>5, <1>6, <2>1 DEF CommandRight
<1> QED
  BY <1>18, <1>19 DEF WayRight

(* The list of a mailbox starts a new way, unless it is filtered and the   *)
(* worker does not know the mailbox.                                       *)
LEMMA ContentsWay ==
  ASSUME IInv, Guided, Guided', NEW dir \in Dirs, NEW filter \in BOOLEAN, Contents(dir, filter)
  PROVE  WayRight'
<1>1. TypeOK /\ CommandRight /\ WayRight
  BY DEF IInv, WayRight
<1>2. PICK c \in Ways : Way(c)
  BY DEF IInv, WayRight
<1>3. /\ pc = "select" /\ sel' = dir /\ seqmap' = IF filter THEN seqmap ELSE box[dir]
      /\ ui' = [ui EXCEPT ![dir] = box[dir]]
      /\ UNCHANGED <<box, server, todo, base, expunger, updates, pc, op, mails>>
  BY DEF Contents, servervars, envvars
<1>4. astray' = (astray \ {"unlisted"}) \cup EventIf("pending", Pending)
                  \cup EventIf("unlisted", filter /\ seqmap # box[dir])
  BY DEF Contents
<1>5. ~Pending /\ (Listed' => seqmap' = box[dir])
  <2>1. ~Pending
    BY <1>4 DEF Guided, EventIf
  <2>2. Listed' => ~(filter /\ seqmap # box[dir])
    BY <1>4 DEF Listed, EventIf
  <2> QED
    BY <1>3, <2>1, <2>2
<1>6. Calm(updates) /\ Held = {} /\ Held' = {}
  <2>1. Calm(updates) /\ Held = {}
    BY <1>1, <1>2, <1>3, <1>5, NotPending, Idle
  <2> QED
    BY <1>3, <2>1 DEF Held
<1>7. Remaining = {} /\ Remaining' = {}
  BY <1>3 DEF Remaining
<1>8. DOMAIN expunger.items = {}
  BY <1>6 DEF Held
<1>9. CommandRight'
  BY <1>1, <1>3 DEF CommandRight
<1>10. CASE ~Listed'
  <2>1. ExpungerRight(c)'
    BY <1>3, <1>6, <1>8 DEF ExpungerRight, KeysRight
  <2>2. (\E d \in Ways : Way(d))'
    BY <1>2, <1>3, <1>6, <1>7, <1>10, <2>1, WayKept
  <2> QED
    BY <1>9, <2>2 DEF WayRight
<1>11. CASE Listed'
  <2>1. PICK n, S, q : n = Len(updates) /\ S = box[dir] /\ q = updates
    OBVIOUS
  <2>2. PICK d : d = [i \in 1..(n + 1) |-> S]
    OBVIOUS
  <2>3. n \in Nat /\ \A i \in 1..n : i \in 1..(n + 1) /\ i + 1 \in 1..(n + 1)
    BY <1>1, <2>1, Shape
  <2>4. n + 1 \in 1..(n + 1) /\ 1 \in 1..(n + 1) /\ d[n + 1] = S /\ d[1] = S /\ \A i \in 1..(n + 1) : d[i] = S
    BY <2>2, <2>3
  <2>5. S \subseteq Given /\ IsFiniteSet(S) /\ S \subseteq Nat
    <3>1. S \subseteq Uids /\ S \subseteq Given
      BY <1>1, <2>1, SetTypes DEF IInv
    <3> QED
      BY <3>1, FiniteUids
  <2>6. d \in Ways'
    <3>1. d \in [1..(n + 1) -> SUBSET Given] /\ Given' = Given
      BY <1>3, <2>2, <2>5 DEF Given
    <3> QED
      BY <1>3, <2>1, <3>1 DEF Ways
  <2>7. \A i \in 1..n : q[i].kind = "exists"
    BY <1>6, <2>1 DEF Calm
  <2>8. Items(d, q, {}, server'[2], base')
    <3>1. d \in [1..(n + 1) -> SUBSET Nat] /\ \A i \in 1..(n + 1) : IsFiniteSet(d[i])
      BY <2>2, <2>5
    <3>2. \A i \in 1..n : ItemStep(q[i], d[i], d[i + 1], {}, server'[2], base')
      BY <2>3, <2>4, <2>7 DEF ItemStep
    <3>3. Leaves(d, q)
      BY <2>1, <2>3, <2>4 DEF Leaves
    <3> QED
      BY <2>1, <3>1, <3>2, <3>3 DEF Items, NoReturn, Later
  <2>9. Boxes(d, q, {}, S, S, S)
    <3>1. \A i \in 1..n : OtherStep(q[i], d[i], d[i + 1], {})
      BY <2>7 DEF OtherStep
    <3>2. NoReturn(d, n + 1, S) /\ Later(d, n + 1, S)
      BY <2>4 DEF NoReturn, Later
    <3> QED
      BY <2>1, <2>4, <3>1, <3>2 DEF Boxes, Prefix
  <2>10. ui'[sel'] = S /\ seqmap' = S /\ box'[sel'] = S
    BY <1>1, <1>3, <1>5, <1>11, <2>1 DEF TypeOK
  <2>11. ExpungerRight(d)'
    BY <1>3, <1>6, <1>8 DEF ExpungerRight, KeysRight
  <2>12. ShownRight(d)'
    BY <1>6, <2>4, <2>10 DEF ShownRight
  <2>13. Boxes(d, updates', Held', seqmap', ui'[sel'], box'[sel'])
    BY <1>3, <1>6, <2>1, <2>9, <2>10
  <2>14. Items(d, updates', Held', server'[2], base')
    BY <1>3, <1>6, <2>1, <2>8
  <2>15. Way(d)'
    BY <1>6, <1>7, <2>11, <2>12, <2>13, <2>14 DEF Way
  <2> QED
    BY <1>9, <2>6, <2>15 DEF WayRight
<1> QED
  BY <1>10, <1>11

LEMMA InitWay ==
  ASSUME Init, TypeOK
  PROVE  WayRight
<1>1. /\ box[sel] = ui[sel] /\ seqmap = box[sel] /\ updates = <<>> /\ pc = "select"
      /\ expunger = NoExpunger /\ box[sel] \subseteq 1..MaxUid /\ mails = 0
  BY DirsAssumption, UidsAssumption DEF Init
<1>2. DOMAIN expunger.items = {} /\ Held = {}
  BY <1>1 DEF NoExpunger, Held
<1>3. PICK S, q, d : S = box[sel] /\ q = updates /\ d = [i \in 1..1 |-> S]
  OBVIOUS
<1>4. Len(q) = 0 /\ 1..Len(q) = {} /\ Len(q) + 1 = 1
  BY <1>1, <1>3
<1>5. S \subseteq Given /\ S \subseteq Nat /\ IsFiniteSet(S) /\ d[1] = S
  BY <1>1, <1>3, UidsAssumption, Shape, SetTypes, FiniteUids DEF Given
<1>6. d \in Ways
  BY <1>3, <1>4, <1>5 DEF Ways
<1>7. Items(d, q, {}, server[2], base)
  <2>1. d \in [1..1 -> SUBSET Nat] /\ \A i \in 1..1 : IsFiniteSet(d[i])
    BY <1>3, <1>5
  <2>2. Leaves(d, q)
    BY <1>4 DEF Leaves
  <2>3. NoReturn(d, 1, {}) /\ Later(d, 1, {})
    BY DEF NoReturn, Later
  <2> QED
    BY <1>4, <2>1, <2>2, <2>3 DEF Items
<1>8. Boxes(d, q, {}, S, S, S)
  <2>1. NoReturn(d, 1, S) /\ Later(d, 1, S)
    BY <1>5 DEF NoReturn, Later
  <2> QED
    BY <1>4, <1>5, <2>1 DEF Boxes, Prefix
<1>9. ExpungerRight(d) /\ ShownRight(d)
  BY <1>1, <1>2, <1>3, <1>5 DEF ExpungerRight, KeysRight, ShownRight
<1>10. Way(d)
  BY <1>1, <1>2, <1>3, <1>4, <1>7, <1>8, <1>9 DEF Way, Remaining
<1>11. CommandRight
  BY <1>1 DEF CommandRight
<1> QED
  BY <1>6, <1>10, <1>11 DEF WayRight

-----------------------------------------------------------------------------
(* Type correctness, part by part. *)

MailboxesTyped ==
  /\ server \in Servers /\ sel \in Dirs
  /\ box \in [Dirs -> SUBSET Uids] /\ flagged \in [Dirs -> SUBSET Uids]
  /\ \A d \in Dirs : flagged[d] \subseteq box[d] /\ box[d] \subseteq Given
  /\ todo \subseteq box[sel] /\ base \subseteq Uids /\ (pc # "expunge" => todo = {})

WorkerTyped ==
  /\ seqmap \subseteq Uids /\ Handler(expunger)
  /\ \A n \in DOMAIN expunger.items : n \in Int /\ expunger.items[n] \in Uids

QueueTyped == updates \in Seq(UpdateRecords) /\ Len(updates) <= UpdatesCap

CommandTyped ==
  /\ pc \in {"select", "store", "expunge", "close"}
  /\ op \in [kind : {"none", "delete", "move"}, dir : Dirs, uids : SUBSET Uids, ok : BOOLEAN]
  /\ op.uids \subseteq Given

InterfaceTyped ==
  /\ ui \in [Dirs -> SUBSET Uids] /\ ask \subseteq Dirs
  /\ \A d \in Dirs : ui[d] \subseteq Given

CountersTyped ==
  /\ ops \in Nat /\ nav \in Nat /\ mails \in Nat /\ foreign \in Nat /\ faults \in Nat /\ mails <= MaxMails
  /\ astray \subseteq Events
  /\ "misfit" \in astray \/ Fits(server[1], server[2])

Types == /\ MailboxesTyped /\ WorkerTyped /\ QueueTyped
         /\ CommandTyped /\ InterfaceTyped /\ CountersTyped

LEMMA TypesMean ==
  Types <=> /\ TypeOK /\ (pc # "expunge" => todo = {})
            /\ op.uids \subseteq Given /\ (\A d \in Dirs : box[d] \cup ui[d] \subseteq Given)
            /\ ("misfit" \in astray \/ Fits(server[1], server[2]))
<1>1. Handler(expunger) <=>
        expunger \in [on : BOOLEAN, policy : Policies, items : {expunger.items}, minNum : Nat,
                      forDelete : BOOLEAN, gotFirst : BOOLEAN]
  BY DEF Handler, Handlers
<1>2. {ops, nav, mails, foreign, faults} \subseteq Nat <=>
        ops \in Nat /\ nav \in Nat /\ mails \in Nat /\ foreign \in Nat /\ faults \in Nat
  OBVIOUS
<1>3. (\A d \in Dirs : box[d] \cup ui[d] \subseteq Given)
        <=> (\A d \in Dirs : box[d] \subseteq Given) /\ (\A d \in Dirs : ui[d] \subseteq Given)
  OBVIOUS
<1>4. (\A d \in Dirs : flagged[d] \subseteq box[d] /\ box[d] \subseteq Given)
        <=> (\A d \in Dirs : flagged[d] \subseteq box[d]) /\ (\A d \in Dirs : box[d] \subseteq Given)
  OBVIOUS
<1> QED
  BY <1>1, <1>2, <1>3, <1>4, Zenon
     DEF Types, TypeOK, MailboxesTyped, WorkerTyped, QueueTyped, CommandTyped, InterfaceTyped, CountersTyped

LEMMA DroppedTyped ==
  ASSUME InterfaceTyped, NEW d \in Dirs, NEW uids
  PROVE  /\ Dropped(d, uids) \in [Dirs -> SUBSET Uids]
         /\ \A e \in Dirs : Dropped(d, uids)[e] \subseteq ui[e]
<1>1. [ui EXCEPT ![d] = @ \ uids] \in [Dirs -> SUBSET Uids]
  BY DEF InterfaceTyped
<1>2. \A e \in Dirs : [ui EXCEPT ![d] = @ \ uids][e] \subseteq ui[e]
  BY DEF InterfaceTyped
<1> QED
  BY <1>1, <1>2 DEF Dropped, InterfaceTyped

LEMMA KeptTyped ==
  ASSUME NEW h, NEW n, \A k \in DOMAIN h.items : k \in Int /\ h.items[k] \in Uids
  PROVE  \A k \in DOMAIN Kept(h, n) : k \in Int /\ Kept(h, n)[k] \in Uids
<1>1. PICK f : f = Without(h.items, n)
  OBVIOUS
<1>2. \A k \in DOMAIN f : k \in Int /\ f[k] \in Uids
  BY <1>1 DEF Without
<1>3. ASSUME NEW k \in DOMAIN Decremented(f)
      PROVE  k \in Int /\ Decremented(f)[k] \in Uids
  <2>1. PICK j \in DOMAIN f : k = j - 1
    BY DEF Decremented
  <2>2. j \in Int /\ k + 1 = j /\ f[j] \in Uids
    BY <1>2, <2>1
  <2>3. Decremented(f)[k] = f[k + 1]
    BY DEF Decremented
  <2> QED
    BY <2>1, <2>2, <2>3
<1> QED
  BY <1>1, <1>2, <1>3 DEF Kept

LEMMA InitTypes ==
  ASSUME Init
  PROVE  Types
<1>1. /\ mails = 0 /\ Given = 1..MaxUid /\ Given \subseteq Uids
      /\ MaxMails \in Nat /\ MaxUid \in Nat
  BY UidsAssumption, BoundsAssumption DEF Init, Given, Uids
<1>2. InitialBoxes \in [Dirs -> SUBSET Given] /\ InitialBoxes \in [Dirs -> SUBSET Uids]
  BY <1>1, UidsAssumption
<1>3. MailboxesTyped
  BY <1>2, DirsAssumption DEF Init, MailboxesTyped
<1>4. WorkerTyped
  BY <1>2, DirsAssumption DEF Init, WorkerTyped, NoExpunger, Handler, Handlers, Policies
<1>5. QueueTyped
  BY BoundsAssumption DEF Init, QueueTyped
<1>6. CommandTyped
  BY DirsAssumption DEF Init, CommandTyped, NoOp
<1>7. InterfaceTyped
  BY <1>2, DirsAssumption DEF Init, InterfaceTyped
<1>8. CountersTyped
  BY <1>1 DEF Init, CountersTyped, EventIf, Events
<1> QED
  BY <1>3, <1>4, <1>5, <1>6, <1>7, <1>8 DEF Types

(* An update is handled. *)
LEMMA UpdateTypes ==
  ASSUME Types, updates # <<>>, Update(Head(updates)), updates' = Tail(updates),
         WentAstray("suppressed", Suppressed(Head(updates))),
         UNCHANGED <<servervars, sel, pc, op, envvars>>, ask' \in {ask, ask \cup {sel}}
  PROVE  Types'
<1>1. TypeOK /\ sel \in Dirs /\ seqmap \subseteq Nat /\ IsFiniteSet(seqmap)
  BY TypesMean, Shape, SetTypes, FiniteUids
<1>2. PICK q, m : q = updates /\ m = Head(updates)
  OBVIOUS
<1>3. q \in Seq(UpdateRecords) /\ q # <<>> /\ m = Head(q) /\ Len(q) \in Nat /\ Len(q) <= UpdatesCap
  BY <1>2 DEF Types, QueueTyped
<1>4. m \in UpdateRecords /\ Tail(q) \in Seq(UpdateRecords) /\ Len(Tail(q)) = Len(q) - 1
  BY <1>3
<1>5. QueueTyped'
  <2>1. UpdatesCap \in Nat
    BY BoundsAssumption
  <2> QED
    BY <1>2, <1>3, <1>4, <2>1 DEF QueueTyped
<1>6. MailboxesTyped' /\ CommandTyped'
  BY DEF Types, MailboxesTyped, CommandTyped, servervars, envvars, Given
<1>7. CountersTyped'
  BY DEF Types, CountersTyped, WentAstray, EventIf, Events, servervars, envvars
<1>8. /\ seqmap' \subseteq Uids
      /\ expunger' = expunger \/ \E n : expunger' = Popped(expunger, n)
      /\ ui' = ui \/ \E uid : ui' = Dropped(sel, {uid})
  <2>1. CASE m.kind = "exists" /\ UNCHANGED <<seqmap, expunger, ui>>
    BY <1>1, <2>1 DEF Types, WorkerTyped
  <2>2. CASE m.kind = "fetch" /\ HandleFetch(m.seq, m.uid)
    <3>1. m.uid \in Uids
      BY <1>4, <2>2 DEF UpdateRecords
    <3> QED
      BY <2>2, <3>1 DEF HandleFetch, Types, WorkerTyped
  <2>3. CASE m.kind = "expunge" /\ HandleExpunge(m.seq)
    BY <2>3 DEF HandleExpunge, Types, WorkerTyped
  <2> QED
    BY <1>2, <2>1, <2>2, <2>3 DEF Update
<1>9. WorkerTyped'
  <2>1. CASE expunger' = expunger
    BY <1>8, <2>1 DEF Types, WorkerTyped
  <2>2. ASSUME NEW n, expunger' = Popped(expunger, n)
        PROVE  WorkerTyped'
    <3>1. PICK h, g : h = expunger /\ g = Popped(h, n)
      OBVIOUS
    <3>2. Handler(h) /\ \A k \in DOMAIN h.items : k \in Int /\ h.items[k] \in Uids
      BY <3>1 DEF Types, WorkerTyped
    <3>3. Handler(g) /\ g.items = Kept(h, n)
      BY <3>1, <3>2, PoppedFields
    <3>4. \A k \in DOMAIN g.items : k \in Int /\ g.items[k] \in Uids
      BY <3>2, <3>3, KeptTyped
    <3> QED
      BY <1>8, <2>2, <3>1, <3>3, <3>4 DEF WorkerTyped
  <2> QED
    BY <1>8, <2>1, <2>2
<1>10. InterfaceTyped'
  <2>1. InterfaceTyped /\ ask' \subseteq Dirs /\ Given' = Given
    BY <1>1 DEF Types, InterfaceTyped, envvars, Given
  <2>2. ui' \in [Dirs -> SUBSET Uids] /\ \A d \in Dirs : ui'[d] \subseteq ui[d]
    BY <1>1, <1>8, <2>1, DroppedTyped DEF InterfaceTyped
  <2> QED
    BY <2>1, <2>2 DEF InterfaceTyped
<1> QED
  BY <1>5, <1>6, <1>7, <1>9, <1>10 DEF Types

LEMMA BeginTypes ==
  ASSUME Types, NEW kind \in {"delete", "move"}, NEW dir \in Dirs, NEW uids, Begin(kind, dir, uids)
  PROVE  Types'
<1>1. TypeOK /\ seqmap \subseteq Uids /\ seqmap \subseteq Nat /\ IsFiniteSet(seqmap) /\ ui[dir] \subseteq Uids
  BY TypesMean, SetTypes, FiniteUids
<1>2. /\ pc = "select" /\ uids \subseteq ui[dir] /\ sel' = dir /\ pc' = "store" /\ ops' = ops + 1
      /\ expunger' = NewExpunger(uids, kind = "delete") /\ seqmap' = seqmap \ uids
      /\ op' = [kind |-> kind, dir |-> dir, uids |-> uids, ok |-> TRUE]
      /\ UNCHANGED <<box, flagged, server, todo, base, updates, ui, ask, nav, mails, foreign, faults>>
  BY DEF Begin, servervars, uivars
<1>3. astray' = astray \cup EventIf("pending", Pending) \cup EventIf("unlisted", dir # sel)
                  \cup EventIf("blind", dir # sel \/ "unlisted" \in astray)
  BY DEF Begin
<1>4. Given' = Given /\ ui[dir] \subseteq Given
  BY <1>2 DEF Types, InterfaceTyped, Given
<1>5. MailboxesTyped'
  BY <1>2, <1>4 DEF Types, MailboxesTyped
<1>6. WorkerTyped'
  <2>1. PICK new, map : new = NewExpunger(uids, kind = "delete") /\ map = seqmap
    OBVIOUS
  <2>2. /\ Handler(new) /\ Values(new.items) \subseteq seqmap /\ KeysRight(new.items, seqmap)
    <3>1. Prefix(seqmap, map)
      BY <2>1 DEF Prefix
    <3> QED
      BY <1>1, <2>1, <3>1, NewExpungerRight
  <2>3. ASSUME NEW n \in DOMAIN new.items
        PROVE  n \in Int /\ new.items[n] \in Uids
    <3>1. new.items[n] \in map /\ n = SeqNum(map, new.items[n])
      BY <2>1, <2>2 DEF KeysRight
    <3>2. SeqNum(map, new.items[n]) \in Nat
      BY <1>1, <2>1, SeqNumType
    <3> QED
      BY <1>1, <2>1, <3>1, <3>2
  <2> QED
    BY <1>1, <1>2, <2>1, <2>2, <2>3 DEF WorkerTyped
<1>7. QueueTyped'
  BY <1>2 DEF Types, QueueTyped
<1>8. CommandTyped'
  <2>1. uids \subseteq Uids /\ uids \subseteq Given
    BY <1>1, <1>2, <1>4
  <2> QED
    BY <1>2, <1>4, <2>1 DEF CommandTyped
<1>9. InterfaceTyped'
  BY <1>2, <1>4 DEF Types, InterfaceTyped
<1>10. CountersTyped'
  <2>1. astray' \subseteq Events /\ astray \subseteq astray'
    BY <1>3 DEF Types, CountersTyped, EventIf, Events
  <2> QED
    BY <1>2, <2>1 DEF Types, CountersTyped
<1> QED
  BY <1>5, <1>6, <1>7, <1>8, <1>9, <1>10 DEF Types

LEMMA StoreDeletedTypes ==
  ASSUME Types, NEW notify \in BOOLEAN, StoreDeleted(notify)
  PROVE  Types'
<1>1. TypeOK /\ sel \in Dirs
  BY TypesMean, Shape
<1>2. PICK new : new = op.uids \cap box[sel]
  OBVIOUS
<1>3. PICK news : news = IF notify THEN News(new) ELSE <<>>
  OBVIOUS
<1>4. /\ pc' = "expunge" /\ base' = box[sel] /\ Len(updates) + Len(news) <= UpdatesCap
      /\ flagged' = [flagged EXCEPT ![sel] = @ \cup new] /\ todo' = flagged'[sel]
      /\ updates' = updates \o news
      /\ WentAstray("unasked", ~(todo' \subseteq op.uids))
      /\ UNCHANGED <<box, server, sel, seqmap, expunger, op, ui, ask, ops, nav, mails, foreign, faults>>
  BY <1>2, <1>3 DEF StoreDeleted, News, uivars, envvars
<1>5. news \in Seq(UpdateRecords)
  <2>1. CASE notify
    BY <1>1, <1>2, <1>3, <2>1, NewsRight
  <2>2. CASE ~notify
    BY <1>3, <2>2
  <2> QED
    BY <2>1, <2>2
<1>6. updates' \in Seq(UpdateRecords) /\ Len(updates') = Len(updates) + Len(news)
  BY <1>1, <1>4, <1>5, Joined
<1>7. QueueTyped'
  BY <1>4, <1>6 DEF QueueTyped
<1>8. MailboxesTyped'
  BY <1>1, <1>2, <1>4 DEF Types, MailboxesTyped, Given
<1>9. WorkerTyped' /\ InterfaceTyped' /\ CommandTyped'
  BY <1>4 DEF Types, WorkerTyped, InterfaceTyped, CommandTyped, Given
<1>10. CountersTyped'
  BY <1>4 DEF Types, CountersTyped, WentAstray, EventIf, Events
<1> QED
  BY <1>7, <1>8, <1>9, <1>10 DEF Types

LEMMA MoveTypes ==
  ASSUME Types, Move
  PROVE  Types'
<1>1. /\ pc' = "expunge" /\ base' = box[sel] /\ todo' = op.uids \cap box[sel]
      /\ UNCHANGED <<astray, box, flagged, server, sel, seqmap, expunger, updates, op, ui, ask, ops, nav, mails,
                     foreign, faults>>
  BY DEF Move, uivars, envvars
<1>2. MailboxesTyped'
  BY <1>1 DEF Types, MailboxesTyped, Given
<1>3. WorkerTyped' /\ QueueTyped' /\ CommandTyped' /\ InterfaceTyped' /\ CountersTyped'
  BY <1>1 DEF Types, WorkerTyped, QueueTyped, CommandTyped, InterfaceTyped, CountersTyped, Given
<1> QED
  BY <1>2, <1>3 DEF Types

(* A message goes from the mailbox that is open. *)
LEMMA GoneTypes ==
  ASSUME Types, NEW u, NEW S, S \subseteq Uids,
         updates' = Append(updates, Expunge(SeqNum(S, u))), Len(updates) < UpdatesCap,
         box' = [box EXCEPT ![sel] = @ \ {u}], flagged' = [flagged EXCEPT ![sel] = @ \ {u}],
         todo' = todo \ {u}, UNCHANGED <<server, base, sel, seqmap, expunger, pc, op, ui, ask, mails>>
  PROVE  MailboxesTyped' /\ WorkerTyped' /\ QueueTyped' /\ CommandTyped' /\ InterfaceTyped'
<1>1. TypeOK
  BY TypesMean
<1>2. PICK n, m : n = SeqNum(S, u) /\ m = Expunge(n)
  OBVIOUS
<1>3. n \in Nat
  BY <1>2, FiniteUids, SeqNumType
<1>4. m \in UpdateRecords
  BY <1>2, <1>3 DEF Expunge, UpdateRecords
<1>5. updates' \in Seq(UpdateRecords) /\ Len(updates') = Len(updates) + 1
  BY <1>1, <1>2, <1>4, Appended
<1>6. QueueTyped'
  <2>1. Len(updates) \in Nat /\ UpdatesCap \in Nat
    BY <1>1, Shape, BoundsAssumption
  <2> QED
    BY <1>5, <2>1 DEF QueueTyped
<1>7. MailboxesTyped'
  BY DEF Types, MailboxesTyped, Given
<1>8. WorkerTyped' /\ CommandTyped' /\ InterfaceTyped'
  BY DEF Types, WorkerTyped, CommandTyped, InterfaceTyped, Given
<1> QED
  BY <1>6, <1>7, <1>8

LEMMA ServerExpungesTypes ==
  ASSUME Types, NEW u, ServerExpunges(u)
  PROVE  Types'
<1>1. TypeOK
  BY TypesMean
<1>2. PICK S : S = IF server[2] = "stable" THEN base ELSE box[sel]
  OBVIOUS
<1>3. S \subseteq Uids
  <2>1. sel \in Dirs
    BY <1>1, Shape
  <2> QED
    BY <1>1, <1>2, <2>1, SetTypes
<1>4. /\ Len(updates) < UpdatesCap /\ updates' = Append(updates, Expunge(SeqNum(S, u)))
      /\ box' = [box EXCEPT ![sel] = @ \ {u}] /\ flagged' = [flagged EXCEPT ![sel] = @ \ {u}]
      /\ todo' = todo \ {u}
      /\ UNCHANGED <<astray, server, base, sel, seqmap, expunger, pc, op, ui, ask, ops, nav, mails, foreign,
                     faults>>
  BY <1>2 DEF ServerExpunges, uivars, envvars
<1>5. MailboxesTyped' /\ WorkerTyped' /\ QueueTyped' /\ CommandTyped' /\ InterfaceTyped'
  BY <1>3, <1>4, GoneTypes
<1>6. CountersTyped'
  BY <1>4 DEF Types, CountersTyped
<1> QED
  BY <1>5, <1>6 DEF Types

LEMMA CommandTypes ==
  ASSUME Types, CommandEnds \/ CommandFails
  PROVE  Types'
<1>1. /\ pc' = "close" /\ todo' = {} /\ (op' = op \/ op' = [op EXCEPT !.ok = FALSE])
      /\ UNCHANGED <<box, flagged, server, base, sel, seqmap, expunger, updates, ui, ask, ops, nav, mails, foreign>>
  BY DEF CommandEnds, CommandFails, servervars, uivars, envvars
<1>2. MailboxesTyped'
  BY <1>1 DEF Types, MailboxesTyped, Given
<1>3. CommandTyped'
  BY <1>1 DEF Types, CommandTyped, Given
<1>4. WorkerTyped' /\ QueueTyped' /\ InterfaceTyped'
  BY <1>1 DEF Types, WorkerTyped, QueueTyped, InterfaceTyped, Given
<1>5. CountersTyped'
  <2>1. astray \subseteq astray' /\ astray' \subseteq Events /\ faults' \in Nat
    BY DEF CommandEnds, CommandFails, WentAstray, EventIf, envvars, Types, CountersTyped, Events
  <2> QED
    BY <1>1, <2>1 DEF Types, CountersTyped
<1> QED
  BY <1>2, <1>3, <1>4, <1>5 DEF Types

LEMMA CloseTypes ==
  ASSUME Types, Close
  PROVE  Types'
<1>1. /\ pc = "close" /\ pc' = "select" /\ (ui' = ui \/ ui' = Dropped(op.dir, op.uids))
      /\ UNCHANGED <<astray, box, flagged, server, todo, base, sel, seqmap, expunger, updates, op, ask, ops, nav,
                     mails, foreign, faults>>
  BY DEF Close, servervars, envvars
<1>2. InterfaceTyped'
  <2>1. InterfaceTyped /\ op.dir \in Dirs
    BY DEF Types, CommandTyped
  <2>2. ui' \in [Dirs -> SUBSET Uids] /\ \A d \in Dirs : ui'[d] \subseteq ui[d]
    BY <1>1, <2>1, DroppedTyped DEF InterfaceTyped
  <2> QED
    BY <1>1, <2>1, <2>2 DEF InterfaceTyped, Given
<1>3. MailboxesTyped'
  BY <1>1 DEF Types, MailboxesTyped, Given
<1>4. WorkerTyped' /\ QueueTyped' /\ CommandTyped' /\ CountersTyped'
  BY <1>1 DEF Types, WorkerTyped, QueueTyped, CommandTyped, CountersTyped, Given
<1> QED
  BY <1>2, <1>3, <1>4 DEF Types

LEMMA OpenTypes ==
  ASSUME Types, NEW dir \in Dirs, Open(dir)
  PROVE  Types'
<1>1. /\ pc = "select" /\ sel' = dir /\ ask' = ask \cup {dir} /\ nav' = nav + 1
      /\ WentAstray("unlisted", dir # sel)
      /\ UNCHANGED <<box, flagged, server, todo, base, seqmap, expunger, updates, pc, op, ui, ops, mails,
                     foreign, faults>>
  BY DEF Open, servervars
<1>2. MailboxesTyped'
  BY <1>1 DEF Types, MailboxesTyped, Given
<1>3. WorkerTyped' /\ QueueTyped' /\ CommandTyped' /\ InterfaceTyped'
  BY <1>1 DEF Types, WorkerTyped, QueueTyped, CommandTyped, InterfaceTyped, Given
<1>4. CountersTyped'
  BY <1>1 DEF Types, CountersTyped, WentAstray, EventIf, Events
<1> QED
  BY <1>2, <1>3, <1>4 DEF Types

LEMMA ContentsTypes ==
  ASSUME Types, NEW dir \in Dirs, NEW filter, Contents(dir, filter)
  PROVE  Types'
<1>1. /\ pc = "select" /\ sel' = dir /\ seqmap' \in {seqmap, box[dir]}
      /\ ui' = [ui EXCEPT ![dir] = box[dir]] /\ ask' = ask \ {dir}
      /\ UNCHANGED <<box, flagged, server, todo, base, expunger, updates, pc, op, ops, nav, mails, foreign, faults>>
  BY DEF Contents, servervars, envvars
<1>2. astray' = (astray \ {"unlisted"}) \cup EventIf("pending", Pending)
                  \cup EventIf("unlisted", filter /\ seqmap # box[dir])
  BY DEF Contents
<1>3. box[dir] \subseteq Uids /\ box[dir] \subseteq Given
  BY DEF Types, MailboxesTyped
<1>4. MailboxesTyped'
  BY <1>1 DEF Types, MailboxesTyped, Given
<1>5. WorkerTyped'
  BY <1>1, <1>3 DEF Types, WorkerTyped
<1>6. InterfaceTyped'
  BY <1>1, <1>3 DEF Types, InterfaceTyped, Given
<1>7. QueueTyped' /\ CommandTyped'
  BY <1>1 DEF Types, QueueTyped, CommandTyped, Given
<1>8. CountersTyped'
  <2>1. astray' \subseteq Events /\ ("misfit" \in astray => "misfit" \in astray')
    BY <1>2 DEF Types, CountersTyped, EventIf, Events
  <2> QED
    BY <1>1, <2>1 DEF Types, CountersTyped
<1> QED
  BY <1>4, <1>5, <1>6, <1>7, <1>8 DEF Types

LEMMA ArriveTypes ==
  ASSUME Types, Arrive
  PROVE  Types'
<1>1. /\ mails < MaxMails /\ mails' = mails + 1 /\ Len(updates) < UpdatesCap
      /\ box' = [box EXCEPT ![sel] = @ \cup {NewUid}] /\ updates' = Append(updates, Exists)
      /\ UNCHANGED <<astray, flagged, server, todo, base, sel, seqmap, expunger, pc, op, ui, ask, ops, nav,
                     foreign, faults>>
  BY DEF Arrive, uivars
<1>2. TypeOK /\ mails \in Nat /\ MaxUid \in Nat /\ MaxMails \in Nat
  BY TypesMean, UidsAssumption, BoundsAssumption DEF Types, CountersTyped
<1>3. NewUid \in Uids /\ NewUid \in Given' /\ Given \subseteq Given'
  BY <1>1, <1>2 DEF NewUid, Uids, Given
<1>4. MailboxesTyped'
  BY <1>1, <1>3 DEF Types, MailboxesTyped
<1>5. QueueTyped'
  <2>1. Exists \in UpdateRecords
    BY DEF Exists, UpdateRecords
  <2>2. updates' \in Seq(UpdateRecords) /\ Len(updates') = Len(updates) + 1
    BY <1>1, <1>2, <2>1, Appended
  <2>3. Len(updates) \in Nat /\ UpdatesCap \in Nat
    BY <1>2, Shape, BoundsAssumption
  <2> QED
    BY <1>1, <2>2, <2>3 DEF QueueTyped
<1>6. WorkerTyped' /\ CommandTyped' /\ InterfaceTyped'
  BY <1>1, <1>3 DEF Types, WorkerTyped, CommandTyped, InterfaceTyped
<1>7. CountersTyped'
  BY <1>1, <1>2 DEF Types, CountersTyped
<1> QED
  BY <1>4, <1>5, <1>6, <1>7 DEF Types

LEMMA ForeignTypes ==
  ASSUME Types, NEW u, ForeignExpunge(u) \/ ForeignFlag(u)
  PROVE  Types'
<1>1. TypeOK /\ sel \in Dirs /\ box[sel] \subseteq Uids
  BY TypesMean, Shape, SetTypes
<1>2. CASE ForeignExpunge(u)
  <2>1. /\ Len(updates) < UpdatesCap /\ u \in box[sel] /\ foreign' = foreign + 1
        /\ updates' = Append(updates, Expunge(SeqNum(box[sel], u)))
        /\ box' = [box EXCEPT ![sel] = @ \ {u}] /\ flagged' = [flagged EXCEPT ![sel] = @ \ {u}]
        /\ WentAstray("overlap", pc # "select") /\ todo' = todo \ {u}
        /\ UNCHANGED <<server, base, sel, seqmap, expunger, pc, op, ui, ask, ops, nav, mails, faults>>
    BY <1>2 DEF ForeignExpunge, uivars
  <2>2. PICK S : S = box[sel]
    OBVIOUS
  <2>3. MailboxesTyped' /\ WorkerTyped' /\ QueueTyped' /\ CommandTyped' /\ InterfaceTyped'
    BY <1>1, <2>1, <2>2, GoneTypes
  <2>4. CountersTyped'
    BY <2>1 DEF Types, CountersTyped, WentAstray, EventIf, Events
  <2> QED
    BY <2>3, <2>4 DEF Types
<1>3. CASE ForeignFlag(u)
  <2>1. /\ u \in box[sel] /\ foreign' = foreign + 1 /\ flagged' = [flagged EXCEPT ![sel] = @ \cup {u}]
        /\ UNCHANGED <<astray, box, server, todo, base, sel, seqmap, expunger, updates, pc, op, ui, ask, ops, nav,
                       mails, faults>>
    BY <1>3 DEF ForeignFlag, workervars, uivars
  <2>2. MailboxesTyped'
    BY <1>1, <2>1 DEF Types, MailboxesTyped, Given
  <2>3. WorkerTyped' /\ QueueTyped' /\ CommandTyped' /\ InterfaceTyped'
    BY <2>1 DEF Types, WorkerTyped, QueueTyped, CommandTyped, InterfaceTyped, Given
  <2>4. CountersTyped'
    BY <2>1 DEF Types, CountersTyped
  <2> QED
    BY <2>2, <2>3, <2>4 DEF Types
<1> QED
  BY <1>2, <1>3

-----------------------------------------------------------------------------
(* The invariant *)

LEMMA TypesOf ==
  ASSUME IInv
  PROVE  Types
BY TypesMean DEF IInv

(* It is enough that a step leaves the way right that was right before.    *)
LEMMA InvFrom ==
  ASSUME Types', Guided' => WayRight'
  PROVE  IInv'
<1>1. (Types <=> /\ TypeOK /\ (pc # "expunge" => todo = {})
                 /\ op.uids \subseteq Given /\ (\A d \in Dirs : box[d] \cup ui[d] \subseteq Given)
                 /\ ("misfit" \in astray \/ Fits(server[1], server[2])))'
  BY TypesMean, PTL
<1> QED
  BY <1>1, Zenon DEF IInv

LEMMA InitInv ==
  ASSUME Init
  PROVE  IInv
<1>1. Types
  BY InitTypes
<1>2. TypeOK
  BY <1>1, TypesMean
<1>3. WayRight
  BY <1>2, InitWay
<1> QED
  BY <1>1, <1>3, TypesMean DEF IInv

(* Both the worker and the drain goroutine handle an update.               *)
LEMMA Receives ==
  ASSUME Drain \/ HandleUpdate
  PROVE  /\ Handles
         /\ ask' \in {ask, ask \cup {sel}}
         /\ UNCHANGED <<servervars, sel, pc, op, envvars>>
<1>1. CASE Drain
  BY <1>1 DEF Drain, Handles, servervars, envvars
<1>2. CASE HandleUpdate
  BY <1>2 DEF HandleUpdate, Handles, servervars, envvars
<1> QED
  BY <1>1, <1>2

LEMMA ReceivesInv ==
  ASSUME IInv, Drain \/ HandleUpdate
  PROVE  IInv'
<1>1. /\ Handles /\ ask' \in {ask, ask \cup {sel}}
      /\ UNCHANGED <<servervars, sel, pc, op, envvars>>
  BY Receives
<1>2. Types'
  BY <1>1, TypesOf, UpdateTypes DEF Handles
<1>3. ASSUME Guided' PROVE WayRight'
  <2>1. Guided
    BY <1>1, <1>3, HandlesEvents DEF Guided
  <2>2. TypeOK /\ WayRight
    BY <2>1 DEF IInv
  <2> QED
    BY <1>1, <2>2, UpdateHandled
<1> QED
  BY <1>2, <1>3, InvFrom

LEMMA UserInv ==
  ASSUME IInv, User
  PROVE  IInv'
<1>1. ASSUME NEW kind \in UserKinds, NEW dir \in Dirs, NEW uids, Begin(kind, dir, uids)
      PROVE  IInv'
  <2>1. kind \in {"delete", "move"}
    BY KindsAssumption
  <2>2. Types'
    BY <1>1, <2>1, TypesOf, BeginTypes
  <2>3. ASSUME Guided' PROVE WayRight'
    <3>1. Guided
      BY <1>1, <2>3 DEF Begin, Guided
    <3>2. WayRight'
      BY <1>1, <2>1, <2>3, <3>1, BeginWay
    <3> QED
      BY <3>2
  <2> QED
    BY <2>2, <2>3, InvFrom
<1>2. ASSUME NEW dir \in Dirs, Open(dir)
      PROVE  IInv'
  <2>1. Types'
    BY <1>2, TypesOf, OpenTypes
  <2>2. ASSUME Guided' PROVE WayRight'
    <3>1. Guided
      BY <1>2, <2>2 DEF Open, WentAstray, Guided
    <3> QED
      BY <1>2, <3>1, OpenWay
  <2> QED
    BY <2>1, <2>2, InvFrom
<1> QED
  BY <1>1, <1>2 DEF User

LEMMA CommandInv ==
  ASSUME IInv, Command
  PROVE  IInv'
<1>1. ASSUME NEW notify \in BOOLEAN, StoreDeleted(notify)
      PROVE  IInv'
  <2>1. Types'
    BY <1>1, TypesOf, StoreDeletedTypes
  <2>2. ASSUME Guided' PROVE WayRight'
    <3>1. Guided
      BY <1>1, <2>2 DEF StoreDeleted, WentAstray, Guided
    <3> QED
      BY <1>1, <2>2, <3>1, StoreDeletedWay
  <2> QED
    BY <2>1, <2>2, InvFrom
<1>2. CASE Move
  <2>1. Types'
    BY <1>2, TypesOf, MoveTypes
  <2>2. Guided' => Guided
    BY <1>2 DEF Move, Guided
  <2> QED
    BY <1>2, <2>1, <2>2, MoveWay, InvFrom
<1>3. ASSUME NEW u, ServerExpunges(u)
      PROVE  IInv'
  <2>1. Types'
    BY <1>3, TypesOf, ServerExpungesTypes
  <2>2. Guided' => Guided
    BY <1>3 DEF ServerExpunges, Guided
  <2>3. Guided => WayRight'
    BY <1>3, ServerExpungesWay
  <2> QED
    BY <2>1, <2>2, <2>3, InvFrom
<1>4. CASE CommandEnds
  <2>1. Types'
    BY <1>4, TypesOf, CommandTypes
  <2>2. Guided' => Guided
    BY <1>4 DEF CommandEnds, Guided
  <2> QED
    BY <1>4, <2>1, <2>2, EndsWay, InvFrom
<1>5. CASE Close
  <2>1. Types'
    BY <1>5, TypesOf, CloseTypes
  <2>2. Guided' => Guided
    BY <1>5 DEF Close, Guided
  <2> QED
    BY <1>5, <2>1, <2>2, CloseWay, InvFrom
<1> QED
  BY <1>1, <1>2, <1>3, <1>4, <1>5 DEF Command

LEMMA ListsInv ==
  ASSUME IInv, Lists
  PROVE  IInv'
<1>1. PICK dir \in ask, filter \in Filters : Contents(dir, filter)
  BY DEF Lists
<1>2. dir \in Dirs /\ filter \in BOOLEAN
  BY KindsAssumption DEF IInv, TypeOK
<1>3. Types'
  BY <1>1, <1>2, TypesOf, ContentsTypes
<1>4. ASSUME Guided' PROVE WayRight'
  <2>1. Guided
    BY <1>1, <1>4 DEF Contents, Guided
  <2> QED
    BY <1>1, <1>2, <1>4, <2>1, ContentsWay
<1> QED
  BY <1>3, <1>4, InvFrom

LEMMA EnvironmentInv ==
  ASSUME IInv, Environment
  PROVE  IInv'
<1>1. CASE CommandFails
  <2>1. Types'
    BY <1>1, TypesOf, CommandTypes
  <2>2. ~Guided'
    BY <1>1 DEF CommandFails, WentAstray, EventIf, Guided
  <2> QED
    BY <2>1, <2>2, InvFrom
<1>2. CASE Arrive
  <2>1. Types'
    BY <1>2, TypesOf, ArriveTypes
  <2>2. Guided' => Guided
    BY <1>2 DEF Arrive, Guided
  <2> QED
    BY <1>2, <2>1, <2>2, ArriveWay, InvFrom
<1>3. ASSUME NEW u, ForeignExpunge(u)
      PROVE  IInv'
  <2>1. Types'
    BY <1>3, TypesOf, ForeignTypes
  <2>2. ASSUME Guided' PROVE WayRight'
    <3>1. Guided
      BY <1>3, <2>2 DEF ForeignExpunge, WentAstray, Guided
    <3> QED
      BY <1>3, <2>2, <3>1, ForeignExpungeWay
  <2> QED
    BY <2>1, <2>2, InvFrom
<1>4. ASSUME NEW u, ForeignFlag(u)
      PROVE  IInv'
  <2>1. Types'
    BY <1>4, TypesOf, ForeignTypes
  <2>2. Guided' => Guided
    BY <1>4 DEF ForeignFlag, Guided
  <2>3. Guided => WayRight'
    BY <1>4, ForeignFlagWay
  <2> QED
    BY <2>1, <2>2, <2>3, InvFrom
<1> QED
  BY <1>1, <1>2, <1>3, <1>4 DEF Environment

LEMMA IdleInv ==
  ASSUME IInv, UNCHANGED vars
  PROVE  IInv'
<1>1. UNCHANGED <<box, flagged, server, todo, base, sel, seqmap, expunger, updates, pc, op, ui, ask,
                  ops, nav, mails, foreign, faults, astray>>
  BY DEF vars, servervars, workervars, uivars, envvars
<1>2. Types'
  BY <1>1, TypesOf
     DEF Types, MailboxesTyped, WorkerTyped, QueueTyped, CommandTyped, InterfaceTyped, CountersTyped, Given
<1>3. Guided' => Guided
  BY <1>1 DEF Guided
<1>4. ASSUME WayRight PROVE WayRight'
  <2>1. PICK c \in Ways : Way(c)
    BY <1>4 DEF WayRight
  <2>2. CommandRight'
    BY <1>1, <1>4 DEF WayRight, CommandRight, Listed, Held, Remaining
  <2>3. ExpungerRight(c)' /\ (Listed => ShownRight(c)')
    BY <1>1, <2>1 DEF Way, ExpungerRight, ShownRight, Reference, Held, PolicyRight, Undecided, Deleting
  <2>4. (\E d \in Ways : Way(d))'
    <3>1. Held' = Held /\ Remaining' = Remaining /\ (Listed' <=> Listed) /\ (seqmap \cup Held)' = seqmap \cup Held
      BY <1>1 DEF Held, Remaining, Listed
    <3>2. Listed => seqmap \cap Held = {}
      BY <2>1 DEF Way, Boxes
    <3> QED
      BY <1>1, <2>1, <2>3, <3>1, <3>2, WayKept
  <2> QED
    BY <2>2, <2>4 DEF WayRight
<1> QED
  BY <1>2, <1>3, <1>4, InvFrom DEF IInv

LEMMA StepInv ==
  ASSUME IInv, [Next]_vars
  PROVE  IInv'
BY UserInv, CommandInv, ReceivesInv, ListsInv, EnvironmentInv, IdleInv DEF Next

THEOREM Invariance == Spec => []IInv
<1>1. Init => IInv
  BY InitInv
<1>2. IInv /\ [Next]_vars => IInv'
  BY StepInv
<1> QED
  BY <1>1, <1>2, PTL DEF Spec

-----------------------------------------------------------------------------
(* What follows *)

(* At rest the way is the mailbox alone, and the expunger is done with.    *)
LEMMA AtRest ==
  ASSUME IInv, Listed, Quiet
  PROVE  Prefix(seqmap, box[sel]) /\ (astray = {} => ui[sel] \subseteq box[sel])
<1>1. TypeOK /\ WayRight
  BY DEF IInv, Guided, Listed
<1>2. PICK c \in Ways : Way(c)
  BY <1>1 DEF WayRight
<1>3. Len(updates) = 0 /\ pc = "select" /\ Calm(updates)
  BY DEF Quiet, Calm
<1>4. Held = {}
  BY <1>1, <1>2, <1>3, Idle
<1>5. Boxes(c, updates, Held, seqmap, ui[sel], box[sel]) /\ ShownRight(c)
  BY <1>2 DEF Way
<1>6. c[1] = box[sel] /\ Prefix(seqmap \cup Held, c[1])
  BY <1>3, <1>5 DEF Boxes
<1>7. astray = {} => ui[sel] \subseteq c[1]
  BY <1>3, <1>5 DEF ShownRight, Deleting
<1>8. seqmap \cup Held = seqmap
  BY <1>4
<1> QED
  BY <1>6, <1>7, <1>8

(* Types of all variables.                                                 *)
THEOREM TypeCorrect == Spec => []TypeOK
<1>1. IInv => TypeOK
  BY DEF IInv
<1> QED
  BY <1>1, Invariance, PTL

(* Once handleImapUpdate and drainUpdates have taken every update, the     *)
(* position of a message in SeqMap is its sequence number on the server:   *)
(* PopSequenceNumber has translated every number of a deletion, whatever   *)
(* order the server expunges in.                                           *)
THEOREM SeqMapAlways == Spec => []SeqMapAgrees
<1>1. ASSUME IInv PROVE SeqMapAgrees
  <2>1. TypeOK
    BY <1>1 DEF IInv
  <2>2. ASSUME Listed, Quiet
        PROVE  seqmap \subseteq box[sel] /\ \A u \in seqmap : SeqNum(seqmap, u) = SeqNum(box[sel], u)
    <3>1. Prefix(seqmap, box[sel])
      BY <1>1, <2>2, AtRest
    <3>2. box[sel] \subseteq Uids
      BY <2>1, Shape, SetTypes
    <3>3. box[sel] \subseteq Nat /\ IsFiniteSet(box[sel])
      BY <3>2, FiniteUids DEF Uids
    <3>4. \A u \in seqmap : SeqNum(seqmap, u) = SeqNum(box[sel], u)
      BY <3>1, <3>3, PrefixNumbers
    <3> QED
      BY <3>1, <3>4 DEF Prefix
  <2> QED
    BY <2>1, <2>2 DEF SeqMapAgrees, SeqMapRight, Listed
<1> QED
  BY <1>1, Invariance, PTL

(* Once every update is handled, the store of the open mailbox holds no    *)
(* message that the server has expunged: MessagesDeleted has named all.    *)
THEOREM ShowsAlways == Spec => []ShowsRight
<1>1. ASSUME IInv PROVE ShowsRight
  <2>1. astray = {} => Listed
    BY DEF Listed
  <2> QED
    BY <1>1, <2>1, AtRest DEF ShowsRight, ShowsNoGone
<1> QED
  BY <1>1, Invariance, PTL

(* The user interface drops a message only when the server has expunged    *)
(* it: neither an expunge that is told by number, nor the announcement of  *)
(* a whole deletion, nor a new list takes a message that still exists.     *)
LEMMA DropsStep ==
  ASSUME IInv, Next, Listed', NEW d \in Dirs
  PROVE  (ui[d] \ ui'[d]) \cap box'[d] = {}
<1>1. CASE Drain \/ HandleUpdate
  <2>1. Handles
    BY <1>1, Receives
  <2>2. Listed /\ box' = box
    BY <2>1, HandlesEvents DEF Handles
  <2>3. TypeOK /\ WayRight
    BY <2>2 DEF IInv, Guided, Listed
  <2>4. \A e \in Dirs : (ui[e] \ ui'[e]) \cap box[e] = {}
    BY <2>1, <2>2, <2>3, UpdateHandled
  <2> QED
    BY <2>2, <2>4
<1>2. CASE Close
  <2>1. Guided /\ box' = box
    BY <1>2 DEF Close, servervars, Guided, Listed
  <2>2. \A e \in Dirs : (ui[e] \ ui'[e]) \cap box[e] = {}
    BY <1>2, <2>1, CloseWay
  <2> QED
    BY <2>1, <2>2
<1>3. CASE Lists
  <2>1. PICK dir \in ask, filter \in Filters : Contents(dir, filter)
    BY <1>3 DEF Lists
  <2>2. ui' = [ui EXCEPT ![dir] = box[dir]] /\ box' = box
    BY <2>1 DEF Contents, servervars
  <2>3. ui \in [Dirs -> SUBSET Uids]
    BY DEF IInv, TypeOK
  <2> QED
    BY <2>2, <2>3
<1>4. ASSUME UNCHANGED ui
      PROVE  (ui[d] \ ui'[d]) \cap box'[d] = {}
  BY <1>4
<1>5. CASE User
  BY <1>4, <1>5 DEF User, Begin, Open, uivars
<1>6. CASE Environment
  BY <1>4, <1>6 DEF Environment, CommandFails, Arrive, ForeignExpunge, ForeignFlag, uivars
<1>7. CASE Command
  <2>1. ASSUME ~Close PROVE UNCHANGED ui
    BY <1>7, <2>1 DEF Command, StoreDeleted, Move, ServerExpunges, CommandEnds, uivars
  <2> QED
    BY <1>2, <1>4, <2>1
<1> QED
  BY <1>1, <1>2, <1>3, <1>5, <1>6, <1>7 DEF Next

THEOREM DropsAlways == Spec => DropsRight
<1>1. IInv /\ [Next]_vars =>
        [astray' \subseteq {"suppressed"} => \A d \in Dirs : (ui[d] \ ui'[d]) \cap box'[d] = {}]_vars
  BY DropsStep DEF Listed
<1> QED
  BY <1>1, Invariance, PTL DEF Spec, DropsRight
=============================================================================
