-------------------------- MODULE MessageStoreProofs --------------------------
(***************************************************************************)
(* Proofs about the message store, for any number of messages, any mailbox *)
(* at the start and any bounds.                                            *)
(*                                                                         *)
(* The list of the store is right in the end because whatever is still     *)
(* wrong with it is on its way to being put right: a row whose message is  *)
(* gone is named by a message, an update or a list to come, and a message  *)
(* that has no row is covered by a list to come or by a check for new mail *)
(* that will find the status of the mailbox changed.  The invariant says   *)
(* so of the list on the screen and of every list and row that is still    *)
(* under way, at its place in the queue.                                   *)
(***************************************************************************)
EXTENDS MessageStore, FiniteSetTheorems, SequenceTheorems, TLAPS

Removal == {"Delete", "Move"}
ByItself == {"Flags", "Deleted", "Refetch"}
ListChange == {"Contents", "Refetch"}

Distinct(q) == \A i, j \in DOMAIN q : q[i] = q[j] => i = j

(* What a message of a type carries. *)
MessageRight(m) ==
  /\ m.type = "Contents" => m.req.kind = "Contents" /\ Distinct(m.uids)
  /\ m.type = "Info" => m.req.kind = "Headers"
  /\ m.type \in ByItself => m.req.kind = "None"
  /\ m.type = "Flags" => Len(m.uids) = 1
  /\ m.type = "Cancelled" => m.req.kind \notin Removal
  /\ m.type = "Unsupported" => m.req.kind \in Unsupported

(* Only what NewContext cancels is ever stale. *)
ActionRight(a) == a.stale => a.kind \in {"Open", "Contents", "Headers"}

(* The headers of a request are followed by another answer to it. *)
Followed(q) == \A i \in DOMAIN q : q[i].type = "Info" =>
  i + 1 \in DOMAIN q /\ q[i + 1].req = q[i].req

QueuesRight ==
  /\ \A m \in ToSet(messages) : MessageRight(m)
  /\ \A a \in ToSet(actions) : ActionRight(a)
  /\ Followed(messages)

(* Nothing names a message that has not arrived yet, the last status too.  *)
OldAction(a, n) == a.kind \in Removal => \A u \in a.uids : u < n
OldMessage(m, n) == OldAction(m.req, n) /\ \A u \in ToSet(m.uids) : u < n
OldRight ==
  /\ \A u \in box \cup DOMAIN known \cup deleted : u < nextUid
  /\ \A t \in ToSet(updates) : t.uid < nextUid
  /\ status.next <= nextUid
  /\ \A a \in ToSet(actions) : OldAction(a, nextUid)
  /\ \A m \in ToSet(messages) : OldMessage(m, nextUid)

(* What is told to be gone is gone. *)
GoneMessage(m, S) ==
  /\ m.type = "Deleted" => ToSet(m.uids) \cap S = {}
  /\ m.type = "Done" /\ m.req.kind \in Removal => m.req.uids \cap S = {}
GoneRight ==
  /\ \A t \in ToSet(updates) : t.type = "expunge" => t.uid \notin box
  /\ \A m \in ToSet(messages) : GoneMessage(m, box)

(* A message is marked until its command is answered, or for good. *)
Removing(u) ==
  \/ \E a \in ToSet(actions) : a.kind \in Removal /\ u \in a.uids
  \/ \E m \in ToSet(messages) : m.req.kind \in Removal /\ u \in m.req.uids
MarkRight == "Move" \notin Unsupported => \A u \in deleted : u \notin box \/ Removing(u)

(* Of the openings under way only the last can bring a live context, and   *)
(* while one is under way the store has none.                              *)
OpensRight ==
  /\ fresh => \A m \in ToSet(messages) : m.req.kind # "Open"
  /\ fresh => \A a \in ToSet(actions) : a.kind # "Open"
  /\ \A i, j \in DOMAIN messages :
       i < j /\ messages[i].req.kind = "Open" /\ messages[j].req.kind = "Open" => messages[i].req.stale
  /\ \A m \in ToSet(messages), a \in ToSet(actions) :
       m.req.kind = "Open" /\ a.kind = "Open" => m.req.stale
  /\ \A i, j \in DOMAIN actions :
       i < j /\ actions[i].kind = "Open" /\ actions[j].kind = "Open" => actions[i].stale

(* What comes after the k-th of the messages q: a list, or that u is gone. *)
LaterList(q, k) == \E j \in DOMAIN q : j > k /\ q[j].type \in ListChange
LaterGone(q, u, k) == \E j \in DOMAIN q : j > k /\ q[j].type = "Deleted" /\ u \in ToSet(q[j].uids)

(* What the worker has still to do. *)
Sorting == \E a \in ToSet(actions) : a.kind = "Contents" /\ ~a.stale
Checking == \/ \E a \in ToSet(actions) : a.kind = "CheckMail"
            \/ \E t \in ToSet(updates) : t.type = "exists"
Leaving(u) == \E t \in ToSet(updates) : t.type = "expunge" /\ t.uid = u

WorkerDrops(u) == u \in box \/ unseen \/ Sorting \/ Leaving(u)
WorkerAdds(u) == unseen \/ Sorting \/ (u >= status.next /\ Checking)

Dropped(u, k) == WorkerDrops(u) \/ (k = 0 /\ kept) \/ LaterList(messages, k) \/ LaterGone(messages, u, k)
Added(u, k) == WorkerAdds(u) \/ LaterList(messages, k)

(* A row of a message that is gone is going to be dropped; a message of    *)
(* the mailbox without a row is going to get one.                          *)
RowsCovered ==
  /\ \A u \in ToSet(uids) : Dropped(u, 0)
  /\ \A k \in DOMAIN messages : messages[k].type \in {"Contents", "Flags"} =>
       \A u \in ToSet(messages[k].uids) : Dropped(u, k)
BoxCovered ==
  /\ \A u \in box : u \in ToSet(uids) \/ Added(u, 0)
  /\ \A k \in DOMAIN messages : messages[k].type = "Contents" =>
       \A u \in box : u \in ToSet(messages[k].uids) \/ Added(u, k)
ListCovered == fresh => RowsCovered /\ BoxCovered

(* Flags of a message not in S are followed by the news that it is gone. *)
FlagsRight(q, S) == \A i \in DOMAIN q : q[i].type = "flags" =>
  \/ q[i].uid \in S
  \/ \E j \in DOMAIN q : j > i /\ q[j].type = "expunge" /\ q[j].uid = q[i].uid
FlagsCovered == FlagsRight(updates, box \cup taken)

IInv == /\ TypeOK /\ UidsKnown /\ QueuesRight /\ OldRight /\ GoneRight /\ HeadersRequested
        /\ MarkRight /\ OpensRight /\ FlagsCovered /\ ListCovered

-----------------------------------------------------------------------------
(* Sets of numbers in order *)

(* The n-th number of a finite set is defined, and the order is that of    *)
(* the numbers: the number of those up to u is an injection of the set     *)
(* into an interval of its size.                                           *)
LEMMA NthRight ==
  ASSUME NEW S, S \subseteq Nat, IsFiniteSet(S)
  PROVE  /\ Cardinality(S) \in Nat
         /\ \A n \in 1..Cardinality(S) : Nth(S, n) \in S
         /\ \A u \in S : \E n \in 1..Cardinality(S) : Nth(S, n) = u
         /\ \A m, n \in 1..Cardinality(S) : m < n => Nth(S, m) < Nth(S, n)
<1> DEFINE Upto(u) == {v \in S : v <= u}
           rank == [u \in S |-> Cardinality(Upto(u))]
           N == Cardinality(S)
<1>1. N \in Nat
  BY FS_CardinalityType
<1>2. ASSUME NEW u \in S
      PROVE  IsFiniteSet(Upto(u)) /\ Cardinality(Upto(u)) \in 1..N
  <2>1. Upto(u) \in SUBSET S /\ u \in Upto(u)
    OBVIOUS
  <2>2. IsFiniteSet(Upto(u)) /\ Cardinality(Upto(u)) <= N
    BY <2>1, FS_Subset
  <2>3. Cardinality(Upto(u)) \in Nat /\ Cardinality(Upto(u)) # 0
    BY <2>1, <2>2, FS_CardinalityType, FS_EmptySet
  <2> QED
    BY <1>1, <2>2, <2>3
<1>3. ASSUME NEW u \in S, NEW w \in S, u < w
      PROVE  Cardinality(Upto(u)) < Cardinality(Upto(w))
  <2>a. /\ \A v \in S : v <= u => v <= w
        /\ w <= w /\ ~(w <= u)
    BY <1>3
  <2>1. Upto(u) \in SUBSET Upto(w) /\ w \in Upto(w) /\ w \notin Upto(u)
    BY <2>a, Zenon
  <2>2. Cardinality(Upto(u)) <= Cardinality(Upto(w)) /\ Cardinality(Upto(u)) # Cardinality(Upto(w))
    BY <1>2, <2>1, FS_Subset
  <2> QED
    BY <1>1, <1>2, <2>2
<1>4. rank \in Injection(S, 1..N)
  <2>1. rank \in [S -> 1..N]
    BY <1>2
  <2>2. \A u, w \in S : rank[u] = rank[w] => u = w
    <3>1. \A u, w \in S : u < w \/ w < u \/ u = w
      OBVIOUS
    <3> QED
      BY <1>1, <1>2, <1>3, <3>1
  <2> QED
    BY <2>1, <2>2 DEF Injection, IsInjective
<1>5. rank \in Surjection(S, 1..N)
  BY <1>1, <1>4, FS_Injection, FS_Interval
<1>6. ASSUME NEW n \in 1..N
      PROVE  Nth(S, n) \in S /\ rank[Nth(S, n)] = n
  <2>1. \E u \in S : Cardinality(Upto(u)) = n
    BY <1>5 DEF Surjection
  <2> QED
    BY <2>1 DEF Nth
<1>7. ASSUME NEW u \in S
      PROVE  \E n \in 1..N : Nth(S, n) = u
  <2>1. rank[u] \in 1..N
    BY <1>2
  <2>2. Nth(S, rank[u]) \in S /\ rank[Nth(S, rank[u])] = rank[u]
    BY <1>6, <2>1
  <2> QED
    BY <1>4, <2>1, <2>2 DEF Injection, IsInjective
<1>8. ASSUME NEW m \in 1..N, NEW n \in 1..N, m < n
      PROVE  Nth(S, m) < Nth(S, n)
  <2>1. PICK u \in S : u = Nth(S, m) /\ Cardinality(Upto(u)) = m
    BY <1>6
  <2>2. PICK w \in S : w = Nth(S, n) /\ Cardinality(Upto(w)) = n
    BY <1>6
  <2>3. u < w \/ w < u \/ u = w
    OBVIOUS
  <2>4. ~(w < u) /\ u # w
    BY <1>1, <1>3, <1>8, <2>1, <2>2
  <2> QED
    BY <2>1, <2>2, <2>3, <2>4
<1> QED
  BY <1>1, <1>6, <1>7, <1>8

(* The sorted list of a set has exactly its members, each once. *)
LEMMA AscendingRight ==
  ASSUME NEW S, S \subseteq Nat, IsFiniteSet(S)
  PROVE  /\ Ascending(S) \in Seq(S)
         /\ ToSet(Ascending(S)) = S
         /\ \A i, j \in DOMAIN Ascending(S) : Ascending(S)[i] = Ascending(S)[j] => i = j
<1> DEFINE N == Cardinality(S)
<1>1. /\ N \in Nat
      /\ \A n \in 1..N : Nth(S, n) \in S
      /\ \A u \in S : \E n \in 1..N : Nth(S, n) = u
      /\ \A m, n \in 1..N : m < n => Nth(S, m) < Nth(S, n)
  BY NthRight
<1>2. Ascending(S) \in Seq(S) /\ DOMAIN Ascending(S) = 1..N
  BY <1>1 DEF Ascending
<1>3. \A n \in 1..N : Ascending(S)[n] = Nth(S, n)
  BY DEF Ascending
<1>4. ToSet(Ascending(S)) = S
  BY <1>1, <1>2, <1>3 DEF ToSet
<1>5. ASSUME NEW i \in 1..N, NEW j \in 1..N, Ascending(S)[i] = Ascending(S)[j]
      PROVE  i = j
  <2>1. Nth(S, i) = Nth(S, j) /\ Nth(S, i) \in Nat
    BY <1>1, <1>3, <1>5
  <2> QED
    BY <1>1, <2>1
<1> QED
  BY <1>2, <1>4, <1>5

(* The least and the greatest of a finite set of numbers. *)
LEMMA MinMax ==
  ASSUME NEW S, S \subseteq Nat, IsFiniteSet(S), S # {}
  PROVE  /\ Min(S) \in S /\ \A v \in S : Min(S) <= v
         /\ Max(S) \in S /\ \A v \in S : v <= Max(S)
<1> DEFINE N == Cardinality(S)
<1>1. /\ N \in Nat
      /\ \A n \in 1..N : Nth(S, n) \in S
      /\ \A u \in S : \E n \in 1..N : Nth(S, n) = u
      /\ \A m, n \in 1..N : m < n => Nth(S, m) < Nth(S, n)
  BY NthRight
<1>a. 1..N # {}
  BY <1>1
<1>2. 1 \in 1..N /\ N \in 1..N
  BY <1>1, <1>a
<1>3. \A v \in S : Nth(S, 1) <= v /\ v <= Nth(S, N)
  <2> TAKE v \in S
  <2>1. PICK n \in 1..N : Nth(S, n) = v
    BY <1>1
  <2>2. (n = 1 \/ 1 < n) /\ (n = N \/ n < N)
    BY <1>1
  <2>3. v \in Nat /\ Nth(S, 1) \in Nat /\ Nth(S, N) \in Nat
    BY <1>1, <1>2
  <2>4. Nth(S, 1) = v \/ Nth(S, 1) < v
    BY <1>1, <1>2, <2>1, <2>2
  <2>5. Nth(S, N) = v \/ v < Nth(S, N)
    BY <1>1, <1>2, <2>1, <2>2
  <2> QED
    BY <2>3, <2>4, <2>5
<1>4. \E x \in S : \A y \in S : x =< y
  BY <1>1, <1>2, <1>3
<1>5. \E x \in S : \A y \in S : x >= y
  BY <1>1, <1>2, <1>3
<1>6. Min(S) \in S /\ \A v \in S : Min(S) <= v
  BY <1>4 DEF Min
<1>7. Max(S) \in S /\ \A v \in S : v <= Max(S)
  BY <1>5 DEF Max
<1> QED
  BY <1>6, <1>7

(* What Index finds. *)
LEMMA IndexRight ==
  ASSUME NEW T, NEW us \in Seq(T), NEW u
  PROVE  /\ Index(us, u) \in 0..Len(us)
         /\ Index(us, u) # 0 => us[Index(us, u)] = u
         /\ u \in ToSet(us) <=> Index(us, u) # 0
<1> DEFINE I == {i \in 1..Len(us) : us[i] = u}
<1>1. Index(us, u) = IF I # {} THEN Min(I) ELSE 0
  BY DEF Index, SelectInSeq
<1>2. I \subseteq Nat /\ I \in SUBSET (1..Len(us)) /\ Len(us) \in Nat
  OBVIOUS
<1>3. IsFiniteSet(1..Len(us))
  BY <1>2, FS_Interval
<1>5. u \in ToSet(us) <=> I # {}
  BY DEF ToSet
<1>6. \A i \in I : i \in 1..Len(us) /\ us[i] = u
  OBVIOUS
<1> HIDE DEF I
<1>7. IsFiniteSet(I)
  BY <1>2, <1>3, FS_Subset
<1>8. I # {} => Min(I) \in I
  BY <1>2, <1>7, MinMax
<1>9. CASE I = {}
  BY <1>1, <1>2, <1>5, <1>9
<1>10. CASE I # {}
  <2>1. PICK i \in I : Index(us, u) = i
    BY <1>1, <1>8, <1>10
  <2>2. i \in 1..Len(us) /\ us[i] = u
    BY <1>6
  <2>3. i \in 0..Len(us) /\ i # 0
    BY <1>2, <2>2
  <2> QED
    BY <1>5, <1>10, <2>1, <2>2, <2>3
<1> QED
  BY <1>9, <1>10

(* What is left of a list when some rows are picked. *)
LEMMA PickedRight ==
  ASSUME NEW T, NEW q \in Seq(T), NEW S, S \subseteq DOMAIN q
  PROVE  /\ Picked(q, S) \in Seq(T)
         /\ DOMAIN Picked(q, S) = 1..Cardinality(S)
         /\ Cardinality(S) \in Nat
         /\ \A n \in 1..Cardinality(S) : Nth(S, n) \in S /\ Picked(q, S)[n] = q[Nth(S, n)]
         /\ \A i \in S : \E n \in 1..Cardinality(S) : Nth(S, n) = i
         /\ \A m, n \in 1..Cardinality(S) : m < n => Nth(S, m) < Nth(S, n)
<1>1. S \subseteq Nat /\ S \in SUBSET (1..Len(q)) /\ Len(q) \in Nat
  OBVIOUS
<1>a. IsFiniteSet(1..Len(q))
  BY <1>1, FS_Interval
<1>2. IsFiniteSet(S)
  BY <1>1, <1>a, FS_Subset
<1>3. /\ Cardinality(S) \in Nat
      /\ \A n \in 1..Cardinality(S) : Nth(S, n) \in S
      /\ \A u \in S : \E n \in 1..Cardinality(S) : Nth(S, n) = u
      /\ \A m, n \in 1..Cardinality(S) : m < n => Nth(S, m) < Nth(S, n)
  BY <1>1, <1>2, NthRight
<1>4. \A n \in 1..Cardinality(S) : Picked(q, S)[n] = q[Nth(S, n)]
  BY DEF Picked
<1>5. DOMAIN Picked(q, S) = 1..Cardinality(S)
  BY DEF Picked
<1>6. Picked(q, S) \in Seq(T)
  BY <1>3 DEF Picked
<1> QED
  BY <1>3, <1>4, <1>5, <1>6

(* A list without some of its messages. *)
Staying(us, gone) == {i \in DOMAIN us : us[i] \notin gone}

LEMMA WithoutRight ==
  ASSUME NEW T, NEW us \in Seq(T), NEW gone,
         Distinct(us), NEW left, left = Picked(us, Staying(us, gone))
  PROVE  left \in Seq(T) /\ ToSet(left) = ToSet(us) \ gone /\ Distinct(left)
<1> DEFINE S == Staying(us, gone)
           N == Cardinality(S)
<1>a. \A i : i \in S <=> i \in DOMAIN us /\ us[i] \notin gone
  BY DEF Staying
<1> HIDE DEF S
<1>b. left = Picked(us, S)
  BY DEF S
<1>1. S \subseteq DOMAIN us
  BY <1>a
<1>2. /\ left \in Seq(T) /\ DOMAIN left = 1..N /\ N \in Nat
      /\ \A n \in 1..N : Nth(S, n) \in S /\ left[n] = us[Nth(S, n)]
      /\ \A i \in S : \E n \in 1..N : Nth(S, n) = i
      /\ \A m, n \in 1..N : m < n => Nth(S, m) < Nth(S, n)
  BY <1>1, <1>b, PickedRight
<1> HIDE DEF N
<1>3. ToSet(left) = ToSet(us) \ gone
  <2>1. ASSUME NEW u \in ToSet(left) PROVE u \in ToSet(us) \ gone
    <3>1. PICK n \in 1..N : u = left[n]
      BY <1>2 DEF ToSet
    <3>2. Nth(S, n) \in DOMAIN us /\ us[Nth(S, n)] = u /\ u \notin gone
      BY <1>2, <1>a, <3>1
    <3> QED
      BY <3>2 DEF ToSet
  <2>2. ASSUME NEW u \in ToSet(us) \ gone PROVE u \in ToSet(left)
    <3>1. PICK i \in DOMAIN us : u = us[i]
      BY DEF ToSet
    <3>2. i \in S
      BY <1>a, <3>1
    <3>3. PICK n \in 1..N : Nth(S, n) = i
      BY <1>2, <3>2
    <3> QED
      BY <1>2, <3>1, <3>3 DEF ToSet
  <2> QED
    BY <2>1, <2>2
<1>4. ASSUME NEW i \in 1..N, NEW j \in 1..N, left[i] = left[j]
      PROVE  i = j
  <2>1. Nth(S, i) = Nth(S, j) /\ Nth(S, i) \in Nat /\ Nth(S, j) \in Nat
    BY <1>1, <1>2, <1>4 DEF Distinct
  <2>2. i < j \/ j < i \/ i = j
    BY <1>2
  <2> QED
    BY <1>2, <2>1, <2>2
<1> QED
  BY <1>2, <1>3, <1>4 DEF Distinct

-----------------------------------------------------------------------------
(* Queues *)

LEMMA TailRight ==
  ASSUME NEW T, NEW q \in Seq(T), q # <<>>
  PROVE  /\ Head(q) = q[1] /\ 1 \in DOMAIN q /\ Head(q) \in T
         /\ Tail(q) \in Seq(T) /\ Len(Tail(q)) = Len(q) - 1
         /\ \A i \in DOMAIN Tail(q) : i + 1 \in DOMAIN q /\ Tail(q)[i] = q[i + 1]
         /\ \A i \in DOMAIN q : i # 1 => i - 1 \in DOMAIN Tail(q) /\ Tail(q)[i - 1] = q[i]
<1>1. PICK n \in Nat : n = Len(q)
  OBVIOUS
<1>2. n # 0 /\ DOMAIN q = 1..n
  BY <1>1
<1>3. Head(q) = q[1] /\ 1 \in DOMAIN q /\ Head(q) \in T
  BY <1>1, <1>2
<1>4. Tail(q) \in Seq(T) /\ Len(Tail(q)) = n - 1 /\ DOMAIN Tail(q) = 1..(n - 1)
  BY <1>1, <1>2
<1>5. \A i \in 1..(n - 1) : Tail(q)[i] = q[i + 1]
  BY <1>1, <1>2
<1>6. ASSUME NEW i \in 1..n, i # 1
      PROVE  i - 1 \in 1..(n - 1) /\ Tail(q)[i - 1] = q[i]
  <2>1. i - 1 \in 1..(n - 1) /\ (i - 1) + 1 = i
    BY <1>6
  <2> QED
    BY <1>5, <2>1
<1> QED
  BY <1>1, <1>2, <1>3, <1>4, <1>5, <1>6

LEMMA TailSet ==
  ASSUME NEW T, NEW q \in Seq(T), q # <<>>
  PROVE  /\ Head(q) \in ToSet(q) /\ ToSet(Tail(q)) \subseteq ToSet(q)
         /\ \A x \in ToSet(q) : x = Head(q) \/ x \in ToSet(Tail(q))
<1>1. Head(q) \in ToSet(q)
  BY TailRight DEF ToSet
<1>2. ASSUME NEW x \in ToSet(Tail(q)) PROVE x \in ToSet(q)
  <2>1. PICK i \in DOMAIN Tail(q) : x = Tail(q)[i]
    BY DEF ToSet
  <2> QED
    BY <2>1, TailRight DEF ToSet
<1>3. ASSUME NEW x \in ToSet(q) PROVE x = Head(q) \/ x \in ToSet(Tail(q))
  <2>1. PICK i \in DOMAIN q : x = q[i]
    BY DEF ToSet
  <2>2. CASE i = 1
    BY <2>1, <2>2, TailRight
  <2>3. CASE i # 1
    BY <2>1, <2>3, TailRight DEF ToSet
  <2> QED
    BY <2>2, <2>3
<1> QED
  BY <1>1, <1>2, <1>3

LEMMA JoinRight ==
  ASSUME NEW T, NEW p \in Seq(T), NEW q \in Seq(T)
  PROVE  /\ p \o q \in Seq(T) /\ Len(p) \in Nat
         /\ \A i \in DOMAIN p : i \in DOMAIN (p \o q) /\ (p \o q)[i] = p[i] /\ i <= Len(p)
         /\ \A i \in DOMAIN q : i + Len(p) \in DOMAIN (p \o q) /\ (p \o q)[i + Len(p)] = q[i]
         /\ \A i \in DOMAIN (p \o q) : i \in DOMAIN p \/ (i > Len(p) /\ i - Len(p) \in DOMAIN q)
         /\ \A i \in DOMAIN (p \o q) : i \in Nat \ {0}
<1>1. PICK m \in Nat : m = Len(p)
  OBVIOUS
<1>2. PICK n \in Nat : n = Len(q)
  OBVIOUS
<1>3. p \o q \in Seq(T) /\ Len(p \o q) = m + n
  BY <1>1, <1>2
<1>4. DOMAIN p = 1..m /\ DOMAIN q = 1..n /\ DOMAIN (p \o q) = 1..(m + n)
  BY <1>1, <1>2, <1>3
<1>5. \A i \in 1..(m + n) : (p \o q)[i] = IF i <= m THEN p[i] ELSE q[i - m]
  BY <1>1, <1>2
<1>6. \A i \in 1..m : i \in 1..(m + n) /\ (p \o q)[i] = p[i] /\ i <= m
  <2> TAKE i \in 1..m
  <2>1. i \in 1..(m + n) /\ i <= m
    OBVIOUS
  <2> QED
    BY <1>5, <2>1
<1>7. ASSUME NEW i \in 1..n PROVE i + m \in 1..(m + n) /\ (p \o q)[i + m] = q[i]
  <2>1. i + m \in 1..(m + n) /\ ~(i + m <= m) /\ (i + m) - m = i
    OBVIOUS
  <2> QED
    BY <1>5, <2>1
<1>8. \A i \in 1..(m + n) : i \in 1..m \/ (i > m /\ i - m \in 1..n)
  OBVIOUS
<1> QED
  BY <1>1, <1>3, <1>4, <1>6, <1>7, <1>8

LEMMA JoinSet ==
  ASSUME NEW T, NEW p \in Seq(T), NEW q \in Seq(T)
  PROVE  ToSet(p \o q) = ToSet(p) \cup ToSet(q)
<1>1. ASSUME NEW x \in ToSet(p \o q) PROVE x \in ToSet(p) \cup ToSet(q)
  <2>1. PICK i \in DOMAIN (p \o q) : x = (p \o q)[i]
    BY DEF ToSet
  <2>2. CASE i \in DOMAIN p
    BY <2>1, <2>2, JoinRight DEF ToSet
  <2>3. CASE i \notin DOMAIN p
    <3>1. i - Len(p) \in DOMAIN q /\ i \in Nat /\ Len(p) \in Nat
      BY <2>3, JoinRight
    <3>2. PICK j \in DOMAIN q : j = i - Len(p)
      BY <3>1
    <3>3. j + Len(p) = i
      BY <3>1, <3>2
    <3> QED
      BY <2>1, <3>3, JoinRight DEF ToSet
  <2> QED
    BY <2>2, <2>3
<1>2. ASSUME NEW x \in ToSet(p) \cup ToSet(q) PROVE x \in ToSet(p \o q)
  <2>1. CASE x \in ToSet(p)
    <3>1. PICK i \in DOMAIN p : x = p[i]
      BY <2>1 DEF ToSet
    <3> QED
      BY <3>1, JoinRight DEF ToSet
  <2>2. CASE x \in ToSet(q)
    <3>1. PICK i \in DOMAIN q : x = q[i]
      BY <2>2 DEF ToSet
    <3>2. i + Len(p) \in DOMAIN (p \o q) /\ (p \o q)[i + Len(p)] = q[i]
      BY JoinRight
    <3> QED
      BY <3>1, <3>2 DEF ToSet
  <2> QED
    BY <2>1, <2>2
<1> QED
  BY <1>1, <1>2

LEMMA ShortSets ==
  /\ ToSet(<<>>) = {}
  /\ \A x : ToSet(<<x>>) = {x}
  /\ \A x, y : ToSet(<<x, y>>) = {x, y}
BY DEF ToSet

(* A queue that grows by one. *)
LEMMA AppendRight ==
  ASSUME NEW T, NEW q \in Seq(T), NEW x \in T
  PROVE  Append(q, x) = q \o <<x>> /\ <<x>> \in Seq(T) /\ ToSet(<<x>>) = {x}
BY DEF ToSet

-----------------------------------------------------------------------------
(* Selection, scrolling and the requests of the store *)

LEMMA PairMinMax ==
  ASSUME NEW a \in Int, NEW b \in Int
  PROVE  /\ Min({a, b}) = IF a <= b THEN a ELSE b
         /\ Max({a, b}) = IF a <= b THEN b ELSE a
<1>1. \E x \in {a, b} : \A y \in {a, b} : x =< y
  OBVIOUS
<1>2. Min({a, b}) \in {a, b} /\ \A y \in {a, b} : Min({a, b}) =< y
  BY <1>1 DEF Min
<1>3. \E x \in {a, b} : \A y \in {a, b} : x >= y
  OBVIOUS
<1>4. Max({a, b}) \in {a, b} /\ \A y \in {a, b} : Max({a, b}) >= y
  BY <1>3 DEF Max
<1> QED
  BY <1>2, <1>4

LEMMA MoveIndexRight ==
  ASSUME NEW i \in Int, NEW delta \in Int, NEW n \in Nat \ {0}
  PROVE  MoveIndex(i, delta, n) \in 1..n
<1>1. PICK m \in Int : m = Min({n, i - delta}) /\ m <= n
  BY PairMinMax
<1>2. MoveIndex(i, delta, n) = Max({1, m})
  BY <1>1 DEF MoveIndex
<1>3. Max({1, m}) = IF 1 <= m THEN m ELSE 1
  BY PairMinMax
<1> QED
  BY <1>1, <1>2, <1>3

(* Moving in a list that is not empty selects a message of it. *)
LEMMA NextPrevRight ==
  ASSUME NEW us \in Seq(UIDs), NEW sel \in UIDs \cup {MagicUid}, NEW delta \in Int
  PROVE  /\ NextPrev(us, sel, delta) \in UIDs \cup {MagicUid}
         /\ us # <<>> => NextPrev(us, sel, delta) \in ToSet(us)
<1>1. CASE us = <<>>
  BY <1>1 DEF NextPrev
<1>2. CASE us # <<>>
  <2>1. PICK n \in Nat \ {0} : n = Len(us)
    BY <1>2
  <2>2. PICK i \in Nat : i = Index(us, SelectedUid(us, sel))
    BY IndexRight
  <2>3. StartUid(us) = us[n] /\ n \in DOMAIN us
    BY <2>1 DEF StartUid, Last
  <2>a. MoveIndex(i, delta, n) \in 1..n
    BY MoveIndexRight
  <2>4. MoveIndex(i, delta, n) \in DOMAIN us
    BY <2>1, <2>a
  <2>5. NextPrev(us, sel, delta) = us[n] \/ NextPrev(us, sel, delta) = us[MoveIndex(i, delta, n)]
    BY <1>2, <2>1, <2>2, <2>3 DEF NextPrev
  <2>6. \E k \in DOMAIN us : NextPrev(us, sel, delta) = us[k]
    BY <2>3, <2>4, <2>5
  <2>7. NextPrev(us, sel, delta) \in ToSet(us)
    BY <2>6 DEF ToSet
  <2>8. NextPrev(us, sel, delta) \in UIDs
    BY <2>6
  <2> QED
    BY <2>7, <2>8
<1> QED
  BY <1>1, <1>2

LEMMA SelectedUidRight ==
  ASSUME NEW us \in Seq(UIDs), NEW sel \in UIDs \cup {MagicUid}
  PROVE  SelectedUid(us, sel) \in UIDs \cup {MagicUid}
<1>1. us # <<>> => Len(us) \in DOMAIN us
  OBVIOUS
<1> QED
  BY <1>1 DEF SelectedUid, StartUid, Last

LEMMA SortReturnedRight ==
  ASSUME TypeOK, NEW idx \in Nat
  PROVE  /\ SortReturned(idx) \in UIDs \cup {MagicUid}
         /\ uids # <<>> => SortReturned(idx) \in ToSet(uids)
<1>1. uids \in Seq(UIDs) /\ selected \in UIDs \cup {MagicUid}
  BY DEF TypeOK
<1>2. SelectedUid(uids, selected) \in UIDs \cup {MagicUid}
  BY <1>1, SelectedUidRight
<1>3. /\ NextPrev(uids, MagicUid, idx) \in UIDs \cup {MagicUid}
      /\ uids # <<>> => NextPrev(uids, MagicUid, idx) \in ToSet(uids)
  BY <1>1, NextPrevRight, SMTT(30)
<1>4. Index(uids, SelectedUid(uids, selected)) # 0 => SelectedUid(uids, selected) \in ToSet(uids)
  BY <1>1, IndexRight
<1> QED
  BY <1>2, <1>3, <1>4 DEF SortReturned

LEMMA EnsureScrollType ==
  ASSUME TypeOK, NEW sel
  PROVE  EnsureScroll(sel) \in Nat
<1>1. PICK n \in Nat : n = Len(uids)
  BY DEF TypeOK
<1>2. PICK i \in 0..n : i = Index(uids, sel)
  BY <1>1, IndexRight DEF TypeOK
<1>3. scroll \in Nat /\ Height \in Nat \ {0}
  BY BoundsAssumption DEF TypeOK
<1>4. PICK m \in Nat : m = Max({0, n - Height})
  BY <1>3, PairMinMax
<1> DEFINE row == n - i
           want == CASE row < scroll -> row [] row >= scroll + Height -> row - Height + 1 [] OTHER -> scroll
<1>5. want \in Nat
  <2>1. row \in Nat
    BY <1>2
  <2>2. CASE row < scroll
    BY <1>3, <2>1, <2>2
  <2>3. CASE row >= scroll + Height
    BY <1>3, <2>1, <2>3
  <2>4. CASE ~(row < scroll) /\ ~(row >= scroll + Height)
    BY <1>3, <2>1, <2>4
  <2> QED
    BY <2>2, <2>3, <2>4
<1>6. EnsureScroll(sel) = IF i = 0 THEN scroll ELSE Min({want, m})
  BY <1>1, <1>2, <1>4 DEF EnsureScroll
<1> HIDE DEF want
<1>7. Min({want, m}) \in Nat
  BY <1>4, <1>5, PairMinMax
<1> QED
  BY <1>3, <1>6, <1>7

LEMMA RowsRight ==
  ASSUME NEW us, NEW top, NEW height
  PROVE  Rows(us, top, height) \subseteq ToSet(us)
BY DEF Rows, ToSet

LEMMA ActionType ==
  ASSUME NEW kind \in {"None", "Open", "Contents", "Headers", "CheckMail", "Delete", "Move"},
         NEW us, us \subseteq UIDs, NEW stale \in BOOLEAN, NEW idx \in Nat,
         NEW sel \in UIDs \cup {MagicUid}, NEW next \in BOOLEAN
  PROVE  Action(kind, us, stale, idx, sel, next) \in Actions
BY DEF Action, Actions

LEMMA ResponseType ==
  ASSUME NEW type \in Final \cup {"Contents", "Info", "Flags", "Deleted", "Refetch"},
         NEW req \in Actions, NEW us \in Seq(UIDs)
  PROVE  Response(type, req, us) \in Messages
BY DEF Response, Messages

(* The fields of what is in the queues. *)
LEMMA FieldTypes ==
  /\ \A a \in Actions : /\ a.kind \in {"None", "Open", "Contents", "Headers", "CheckMail", "Delete", "Move"}
                        /\ a.uids \subseteq UIDs /\ a.stale \in BOOLEAN /\ a.idx \in Nat
                        /\ a.sel \in UIDs \cup {MagicUid} /\ a.next \in BOOLEAN
  /\ \A m \in Messages : /\ m.type \in Final \cup {"Contents", "Info", "Flags", "Deleted", "Refetch"}
                         /\ m.req \in Actions /\ m.uids \in Seq(UIDs)
  /\ \A t \in Updates : t.type \in {"exists", "expunge", "flags"} /\ t.uid \in UIDs
BY DEF Actions, Messages, Updates

LEMMA NoRequestType == NoRequest \in Actions /\ NoRequest.kind = "None"
BY ActionType DEF NoRequest, Action

LEMMA FetchHeadersType ==
  ASSUME TypeOK, NEW us, us \subseteq UIDs
  PROVE  /\ FetchHeadersAction(us) \in Seq(Actions)
         /\ \A a \in ToSet(FetchHeadersAction(us)) :
              a.kind = "Headers" /\ a.uids = us \ pending /\ a.stale = (~fresh)
         /\ us \ pending # {} => \E a \in ToSet(FetchHeadersAction(us)) :
              a.kind = "Headers" /\ a.uids = us \ pending
<1>1. us \ pending \subseteq UIDs /\ (~fresh) \in BOOLEAN
  OBVIOUS
<1> DEFINE a == Action("Headers", us \ pending, ~fresh, 0, MagicUid, FALSE)
<1>2. a \in Actions
  BY <1>1, ActionType
<1>3. a.kind = "Headers" /\ a.uids = us \ pending /\ a.stale = (~fresh)
  BY DEF Action
<1>4. FetchHeadersAction(us) = IF us \ pending = {} THEN <<>> ELSE <<a>>
  BY DEF FetchHeadersAction
<1> HIDE DEF a
<1> QED
  BY <1>2, <1>3, <1>4, ShortSets

LEMMA SortActionType ==
  ASSUME TypeOK, NEW stale \in BOOLEAN
  PROVE  LET a == SortAction(uids, selected, stale)
         IN a \in Actions /\ a.kind = "Contents" /\ a.stale = stale
<1>1. PICK n \in Nat : n = Len(uids)
  BY DEF TypeOK
<1>2. PICK i \in 0..n : i = Index(uids, selected)
  BY <1>1, IndexRight DEF TypeOK
<1>3. n - i \in Nat
  BY <1>2
<1>4. SortAction(uids, selected, stale) = Action("Contents", {}, stale, n - i, MagicUid, FALSE)
  BY <1>1, <1>2 DEF SortAction
<1>5. Action("Contents", {}, stale, n - i, MagicUid, FALSE) \in Actions
  BY <1>3, ActionType
<1> QED
  BY <1>4, <1>5 DEF Action

(* The search for the next message that stays ends at a row of the list. *)
LEMMA NextNonDeletedType ==
  ASSUME TypeOK, NEW us
  PROVE  /\ findNextNonDeleted(us).sel \in UIDs \cup {MagicUid}
         /\ findNextNonDeleted(us).found \in BOOLEAN
<1> DEFINE Stays(u) == u \notin us \cup deleted
           stops == {i \in DOMAIN uids : Stays(uids[i]) \/ ~Loaded(uids[i])}
           i0 == IF Index(uids, selected) = 0 THEN Len(uids) ELSE Index(uids, selected)
           down == {i \in stops : i <= i0}
           end == CASE down # {} -> Max(down) [] stops # {} /\ down = {} -> Min(stops)
                    [] OTHER -> Len(uids)
           Here(u) == [sel |-> u, found |-> Loaded(u) /\ Stays(u)]
<1>1. uids \in Seq(UIDs) /\ selected \in UIDs \cup {MagicUid}
  BY DEF TypeOK
<1>2. PICK n \in Nat : n = Len(uids)
  BY <1>1
<1>3. DOMAIN uids = 1..n /\ 1..n \subseteq Nat /\ IsFiniteSet(1..n)
  BY <1>1, <1>2, FS_Interval
<1>4. stops \in SUBSET (1..n) /\ down \in SUBSET (1..n)
  BY <1>3
<1> HIDE DEF stops, down
<1>5. stops \subseteq Nat /\ down \subseteq Nat /\ IsFiniteSet(stops) /\ IsFiniteSet(down)
  BY <1>3, <1>4, FS_Subset
<1>6. (stops # {} => Min(stops) \in 1..n) /\ (down # {} => Max(down) \in 1..n)
  BY <1>4, <1>5, MinMax
<1>7. uids # <<>> => n \in 1..n
  BY <1>1, <1>2
<1>8. uids # <<>> => end \in 1..n
  BY <1>2, <1>6, <1>7
<1> HIDE DEF end
<1>9. uids # <<>> => uids[end] \in UIDs
  BY <1>1, <1>3, <1>8
<1>10. findNextNonDeleted(us) = IF ~Loaded(selected) \/ Stays(selected) \/ uids = <<>>
                                THEN Here(selected) ELSE Here(uids[end])
  BY DEF findNextNonDeleted, stops, down, end
<1>11. PICK v \in UIDs \cup {MagicUid} : findNextNonDeleted(us) = Here(v)
  BY <1>1, <1>9, <1>10
<1> QED
  BY <1>11 DEF Loaded

-----------------------------------------------------------------------------
(* Types *)

StoreType == /\ DOMAIN known \subseteq UIDs
             /\ \A u \in DOMAIN known : known[u] \in {"nil", "flags", "info"}
             /\ uids \in Seq(UIDs) /\ selected \in UIDs \cup {MagicUid}
             /\ deleted \subseteq UIDs /\ pending \subseteq UIDs
             /\ fresh \in BOOLEAN /\ crashed \in BOOLEAN /\ kept \in BOOLEAN
WorkerType == /\ status \in [next : 1..(MaxUid + 1), count : 0..MaxUid] /\ hold \in BOOLEAN
              /\ updates \in Seq(Updates) /\ expunger \in {"none", "Delete", "Move"}
              /\ taken \subseteq UIDs /\ unseen \in BOOLEAN
ServerType == box \subseteq UIDs /\ nextUid \in 1..(MaxUid + 1)
ListType == scroll \in Nat /\ drawn \in BOOLEAN
BoundsType == commands \in Nat /\ opens \in Nat /\ foreign \in Nat /\ faults \in Nat
QueuesType == actions \in Seq(Actions) /\ messages \in Seq(Messages)

(* The types of the parts. *)
LEMMA TypeParts ==
  TypeOK <=> /\ StoreType /\ WorkerType /\ ServerType /\ ListType /\ BoundsType /\ QueuesType
             /\ dirty \in BOOLEAN
BY DEF TypeOK, StoreType, WorkerType, ServerType, ListType, BoundsType, QueuesType

LEMMA StatusType ==
  ASSUME ServerType
  PROVE  Status \in [next : 1..(MaxUid + 1), count : 0..MaxUid]
<1>1. MaxUid \in Nat /\ 1 \in Int
  BY BoundsAssumption
<1>2. IsFiniteSet(1..MaxUid) /\ Cardinality(1..MaxUid) = MaxUid
  BY <1>1, FS_Interval
<1>3. IsFiniteSet(box) /\ Cardinality(box) <= MaxUid
  BY <1>2, FS_Subset DEF ServerType, UIDs
<1>4. Cardinality(box) \in Nat
  BY <1>3, FS_CardinalityType
<1>5. Cardinality(box) \in 0..MaxUid
  BY <1>1, <1>3, <1>4
<1> QED
  BY <1>5 DEF ServerType, Status

LEMMA UIDsFinite == ASSUME NEW S, S \subseteq UIDs PROVE S \subseteq Nat /\ IsFiniteSet(S)
<1>1. MaxUid \in Nat
  BY BoundsAssumption
<1>2. IsFiniteSet(1..MaxUid)
  BY <1>1, FS_Interval
<1>3. S \subseteq Nat /\ S \in SUBSET (1..MaxUid)
  BY DEF UIDs
<1> QED
  BY <1>2, <1>3, FS_Subset

LEMMA AscendingType ==
  ASSUME NEW S, S \subseteq UIDs
  PROVE  Ascending(S) \in Seq(UIDs) /\ ToSet(Ascending(S)) = S /\ Distinct(Ascending(S))
<1>1. Ascending(S) \in Seq(S) /\ ToSet(Ascending(S)) = S /\ Distinct(Ascending(S))
  BY UIDsFinite, AscendingRight DEF Distinct
<1> QED
  BY <1>1

(* The folder is open and its first list on the way. *)
LEMMA InitType == ASSUME Init PROVE TypeOK /\ nextUid = Max(FirstBox \cup {0}) + 1 /\ \A u \in box : u < nextUid
<1>1. FirstBox \cup {0} \subseteq Nat /\ IsFiniteSet(FirstBox \cup {0}) /\ FirstBox \cup {0} # {}
  <2>1. FirstBox \subseteq Nat /\ IsFiniteSet(FirstBox)
    BY BoxAssumption, UIDsFinite
  <2> QED
    BY <2>1, FS_AddElement
<1>2. PICK m : m = Max(FirstBox \cup {0})
  OBVIOUS
<1>3. m \in FirstBox \cup {0} /\ \A v \in FirstBox \cup {0} : v <= m
  BY <1>1, <1>2, MinMax
<1>4. m \in 0..MaxUid
  BY <1>3, BoxAssumption, BoundsAssumption DEF UIDs
<1>5. nextUid = m + 1 /\ box = FirstBox
  BY <1>2 DEF Init
<1>6. ServerType
  BY <1>4, <1>5, BoxAssumption, BoundsAssumption DEF ServerType
<1>a. \A T : <<>> \in Seq(T)
  OBVIOUS
<1>b. DOMAIN <<>> = {}
  OBVIOUS
<1>7. WorkerType
  <2>1. status = Status /\ hold = FALSE /\ updates = <<>> /\ expunger = "none" /\ taken = {} /\ unseen = FALSE
    BY DEF Init
  <2>2. Status \in [next : 1..(MaxUid + 1), count : 0..MaxUid]
    BY <1>6, StatusType
  <2> QED
    BY <1>a, <2>1, <2>2 DEF WorkerType
<1>8. QueuesType
  <2>1. Action("Contents", {}, FALSE, 0, MagicUid, FALSE) \in Actions
    BY ActionType
  <2>2. PICK a \in Actions : a = Action("Contents", {}, FALSE, 0, MagicUid, FALSE)
    BY <2>1
  <2>3. actions = <<a>> /\ messages = <<>>
    BY <2>2 DEF Init
  <2> QED
    BY <1>a, <2>3 DEF QueuesType
<1>9. StoreType /\ ListType /\ BoundsType /\ dirty \in BOOLEAN
  <2>1. /\ known = <<>> /\ uids = <<>> /\ selected = MagicUid /\ deleted = {} /\ pending = {}
        /\ fresh = TRUE /\ crashed = FALSE /\ kept = FALSE
    BY DEF Init
  <2>2. StoreType
    BY <1>a, <1>b, <2>1 DEF StoreType
  <2>3. ListType /\ BoundsType /\ dirty \in BOOLEAN
    BY DEF Init, ListType, BoundsType
  <2> QED
    BY <2>2, <2>3
<1>10. \A u \in box : u < nextUid
  BY <1>3, <1>4, <1>5, BoxAssumption, BoundsAssumption DEF UIDs
<1> QED
  BY <1>2, <1>5, <1>6, <1>7, <1>8, <1>9, <1>10, TypeParts

LEMMA Acting ==
  ASSUME QueuesType, actions # <<>>
  PROVE  /\ act \in Actions /\ act \in ToSet(actions)
         /\ Tail(actions) \in Seq(Actions) /\ ToSet(Tail(actions)) \subseteq ToSet(actions)
         /\ \A a \in ToSet(actions) : a = act \/ a \in ToSet(Tail(actions))
<1>1. actions \in Seq(Actions)
  BY DEF QueuesType
<1>2. act = Head(actions)
  BY DEF act
<1>3. Head(actions) \in Actions /\ Tail(actions) \in Seq(Actions)
  BY <1>1, TailRight
<1>4. /\ Head(actions) \in ToSet(actions) /\ ToSet(Tail(actions)) \subseteq ToSet(actions)
      /\ \A x \in ToSet(actions) : x = Head(actions) \/ x \in ToSet(Tail(actions))
  BY <1>1, TailSet
<1> QED
  BY <1>2, <1>3, <1>4

LEMMA Receiving ==
  ASSUME QueuesType, messages # <<>>
  PROVE  /\ msg \in Messages /\ msg \in ToSet(messages)
         /\ Tail(messages) \in Seq(Messages) /\ ToSet(Tail(messages)) \subseteq ToSet(messages)
         /\ \A m \in ToSet(messages) : m = msg \/ m \in ToSet(Tail(messages))
<1>1. messages \in Seq(Messages)
  BY DEF QueuesType
<1>2. msg = Head(messages)
  BY DEF msg
<1>3. Head(messages) \in Messages /\ Tail(messages) \in Seq(Messages)
  BY <1>1, TailRight
<1>4. /\ Head(messages) \in ToSet(messages) /\ ToSet(Tail(messages)) \subseteq ToSet(messages)
      /\ \A x \in ToSet(messages) : x = Head(messages) \/ x \in ToSet(Tail(messages))
  BY <1>1, TailSet
<1> QED
  BY <1>2, <1>3, <1>4

LEMMA DrawType == ASSUME TypeOK, Draw PROVE TypeOK'
<1>1. ServerType /\ WorkerType /\ BoundsType /\ StoreType /\ ListType /\ QueuesType
  BY TypeParts
<1>2. ServerType' /\ WorkerType' /\ BoundsType' /\ dirty' \in BOOLEAN
  BY <1>1 DEF Draw, ServerType, WorkerType, BoundsType, server, worker, bounds
<1>3. CASE uids = <<>>
  <2>1. StoreType' /\ ListType' /\ QueuesType'
    BY <1>1, <1>3 DEF Draw, StoreType, ListType, QueuesType, list
  <2> QED
    BY <1>2, <2>1 DEF TypeOK, StoreType, WorkerType, ServerType, ListType, BoundsType, QueuesType
<1>4. CASE uids # <<>>
  <2> DEFINE us == {u \in Rows(uids, scroll', Height) \cap DOMAIN known : known[u] # "info"}
  <2>1. /\ selected' = SelectedUid(uids, selected) /\ scroll' = EnsureScroll(selected') /\ drawn' = TRUE
        /\ actions' = actions \o FetchHeadersAction(us) /\ pending' = pending \cup us
        /\ UNCHANGED <<messages, known, uids, deleted, fresh, crashed, kept>>
    BY <1>4 DEF Draw
  <2>2. us \subseteq UIDs
    BY <1>1 DEF StoreType
  <2> HIDE DEF us
  <2>3. FetchHeadersAction(us) \in Seq(Actions)
    BY <2>2, FetchHeadersType
  <2>4. selected' \in UIDs \cup {MagicUid}
    BY <1>1, <2>1, SelectedUidRight DEF StoreType
  <2>5. scroll' \in Nat
    BY <2>1, EnsureScrollType
  <2>6. StoreType'
    BY <1>1, <2>1, <2>2, <2>4 DEF StoreType
  <2>7. QueuesType'
    BY <1>1, <2>1, <2>3 DEF QueuesType
  <2> QED
    BY <1>2, <2>1, <2>5, <2>6, <2>7 DEF TypeOK, StoreType, WorkerType, ServerType, ListType, BoundsType, QueuesType
<1> QED
  BY <1>3, <1>4

LEMMA UserMovesType == ASSUME TypeOK, NEW delta \in Int, UserMoves(delta) PROVE TypeOK'
<1>1. uids \in Seq(UIDs) /\ selected \in UIDs \cup {MagicUid} /\ commands \in Nat
  BY DEF TypeOK
<1>2. NextPrev(uids, selected, delta) \in UIDs \cup {MagicUid}
  BY <1>1, NextPrevRight
<1>3. selected' \in UIDs \cup {MagicUid} /\ commands' \in Nat /\ dirty' \in BOOLEAN
  BY <1>1, <1>2 DEF UserMoves
<1> QED
  BY <1>3 DEF UserMoves, TypeOK, server, worker, list

(* The messages a command names are in the list, or loaded. *)
LEMMA MarkedType ==
  ASSUME TypeOK, NEW us \in MarkedOrSelected
  PROVE  us \subseteq ToSet(uids) \cup DOMAIN known /\ us \subseteq UIDs
<1>1. ToSet(uids) \subseteq UIDs /\ DOMAIN known \subseteq UIDs
  BY DEF TypeOK, ToSet
<1>2. us \subseteq ToSet(uids) \/ us \subseteq DOMAIN known
  BY DEF MarkedOrSelected, Loaded
<1> QED
  BY <1>1, <1>2

LEMMA RemovesAction ==
  ASSUME TypeOK, NEW kind \in Removal, NEW us \in MarkedOrSelected, UserRemoves(kind, us)
  PROVE  \E a \in Actions : /\ a.kind = kind /\ a.uids = us /\ a.stale = FALSE
                            /\ actions' = actions \o <<a>> /\ <<a>> \in Seq(Actions)
<1>1. us \subseteq UIDs /\ selected \in UIDs \cup {MagicUid}
  BY MarkedType DEF TypeOK
<1> DEFINE sel == IF kind = "Delete" /\ Loaded(selected) THEN selected ELSE MagicUid
           next == findNextNonDeleted(us)
           a == Action(kind, us, FALSE, 0, sel, next.found)
<1>2. sel \in UIDs \cup {MagicUid} /\ next.found \in BOOLEAN
  BY <1>1, NextNonDeletedType
<1>3. actions' = Append(actions, a)
  BY DEF UserRemoves
<1> HIDE DEF sel, next
<1>4. a \in Actions
  BY <1>1, <1>2, ActionType DEF Removal
<1>5. a.kind = kind /\ a.uids = us /\ a.stale = FALSE
  BY DEF Action
<1> HIDE DEF a
<1>6. actions \in Seq(Actions)
  BY DEF TypeOK
<1> QED
  BY <1>3, <1>4, <1>5, <1>6, AppendRight

LEMMA UserRemovesType ==
  ASSUME TypeOK, NEW kind \in Removal, NEW us \in MarkedOrSelected, UserRemoves(kind, us)
  PROVE  TypeOK'
<1>1. us \subseteq UIDs /\ deleted \subseteq UIDs /\ commands \in Nat /\ actions \in Seq(Actions)
  BY MarkedType DEF TypeOK
<1>2. selected' = findNextNonDeleted(us).sel
  BY DEF UserRemoves
<1>3. selected' \in UIDs \cup {MagicUid}
  BY <1>2, NextNonDeletedType
<1>4. actions' \in Seq(Actions)
  <2>1. PICK a \in Actions : actions' = actions \o <<a>> /\ <<a>> \in Seq(Actions)
    BY RemovesAction
  <2> QED
    BY <1>1, <2>1, JoinRight
<1>5. deleted' \subseteq UIDs /\ commands' \in Nat /\ dirty' \in BOOLEAN
  BY <1>1 DEF UserRemoves
<1> QED
  BY <1>3, <1>4, <1>5 DEF UserRemoves, TypeOK, server, worker, list

(* Opening the folder once more: what is cancelled and what is not. *)
LEMMA CancelledRight ==
  ASSUME QueuesType
  PROVE  /\ Cancelled(actions) \in Seq(Actions) /\ DOMAIN Cancelled(actions) = DOMAIN actions
         /\ \A i \in DOMAIN actions :
              LET a == Cancelled(actions)[i]
              IN /\ a.kind = actions[i].kind /\ a.uids = actions[i].uids
                 /\ a.stale = (actions[i].stale \/ actions[i].kind \in {"Open", "Contents", "Headers"})
<1>1. PICK n \in Nat : n = Len(actions)
  BY DEF QueuesType
<1>2. DOMAIN actions = 1..n /\ \A i \in 1..n : actions[i] \in Actions
  BY <1>1 DEF QueuesType
<1>3. DOMAIN Cancelled(actions) = 1..n
  BY <1>2 DEF Cancelled
<1>4. ASSUME NEW i \in 1..n
      PROVE  LET a == Cancelled(actions)[i]
             IN /\ a \in Actions /\ a.kind = actions[i].kind /\ a.uids = actions[i].uids
                /\ a.stale = (actions[i].stale \/ actions[i].kind \in {"Open", "Contents", "Headers"})
  <2>1. PICK b \in Actions : b = actions[i]
    BY <1>2
  <2>2. Cancelled(actions)[i] = IF b.kind \in {"Open", "Contents", "Headers"}
                                THEN [b EXCEPT !.stale = TRUE] ELSE b
    BY <1>2, <2>1 DEF Cancelled
  <2>3. b.stale \in BOOLEAN
    BY FieldTypes
  <2>4. CASE b.kind \in {"Open", "Contents", "Headers"}
    <3>1. /\ [b EXCEPT !.stale = TRUE] \in Actions
          /\ [b EXCEPT !.stale = TRUE].kind = b.kind /\ [b EXCEPT !.stale = TRUE].uids = b.uids
          /\ [b EXCEPT !.stale = TRUE].stale = TRUE
      BY DEF Actions
    <3> QED
      BY <2>1, <2>2, <2>4, <3>1
  <2>5. CASE b.kind \notin {"Open", "Contents", "Headers"}
    BY <2>1, <2>2, <2>3, <2>5
  <2> QED
    BY <2>4, <2>5
<1>5. Cancelled(actions) = [i \in 1..n |-> Cancelled(actions)[i]]
  BY <1>2 DEF Cancelled
<1>6. Cancelled(actions) \in Seq(Actions)
  BY <1>4, <1>5
<1> QED
  BY <1>2, <1>3, <1>4, <1>6

LEMMA ReopenRight ==
  ASSUME QueuesType, UserReopens
  PROVE  /\ \E o \in Actions : /\ actions' = Cancelled(actions) \o <<o>> /\ <<o>> \in Seq(Actions)
                               /\ o.kind = "Open" /\ o.stale = FALSE
         /\ messages' \in Seq(Messages) /\ DOMAIN messages' = DOMAIN messages
         /\ \A i \in DOMAIN messages :
              /\ messages'[i].type = messages[i].type /\ messages'[i].uids = messages[i].uids
              /\ messages'[i].req.kind = messages[i].req.kind
              /\ messages'[i].req.uids = messages[i].req.uids
              /\ messages[i].req.kind = "Open" => messages'[i].req.stale
              /\ messages[i].req.kind # "Open" => messages'[i] = messages[i]
<1>1. \E o \in Actions : /\ actions' = Cancelled(actions) \o <<o>> /\ <<o>> \in Seq(Actions)
                         /\ o.kind = "Open" /\ o.stale = FALSE
  <2> DEFINE o == Action("Open", {}, FALSE, 0, MagicUid, FALSE)
  <2>1. o \in Actions /\ o.kind = "Open" /\ o.stale = FALSE
    BY ActionType DEF Action
  <2>2. actions' = Append(Cancelled(actions), o)
    BY DEF UserReopens
  <2> HIDE DEF o
  <2>3. PICK q \in Seq(Actions) : q = Cancelled(actions)
    BY CancelledRight
  <2>4. Append(q, o) = q \o <<o>> /\ <<o>> \in Seq(Actions)
    BY <2>1, AppendRight
  <2> QED
    BY <2>1, <2>2, <2>3, <2>4
<1>2. PICK n \in Nat : n = Len(messages)
  BY DEF QueuesType
<1>3. DOMAIN messages = 1..n /\ \A i \in 1..n : messages[i] \in Messages
  BY <1>2 DEF QueuesType
<1>4. messages' = [i \in 1..n |-> IF messages[i].req.kind = "Open"
                                  THEN [messages[i] EXCEPT !.req.stale = TRUE] ELSE messages[i]]
  BY <1>3 DEF UserReopens
<1>5. ASSUME NEW i \in 1..n
      PROVE  /\ messages'[i] \in Messages
             /\ messages'[i].type = messages[i].type /\ messages'[i].uids = messages[i].uids
             /\ messages'[i].req.kind = messages[i].req.kind
             /\ messages'[i].req.uids = messages[i].req.uids
             /\ messages[i].req.kind = "Open" => messages'[i].req.stale
             /\ messages[i].req.kind # "Open" => messages'[i] = messages[i]
  <2>1. PICK m \in Messages : m = messages[i]
    BY <1>3
  <2>2. messages'[i] = IF m.req.kind = "Open" THEN [m EXCEPT !.req.stale = TRUE] ELSE m
    BY <1>4, <2>1
  <2>3. CASE m.req.kind = "Open"
    <3>1. PICK r \in Actions : r = m.req
      BY FieldTypes
    <3>2. [r EXCEPT !.stale = TRUE] \in Actions /\ [r EXCEPT !.stale = TRUE].kind = r.kind
          /\ [r EXCEPT !.stale = TRUE].uids = r.uids /\ [r EXCEPT !.stale = TRUE].stale = TRUE
      BY DEF Actions
    <3>3. PICK s \in Actions : s = [r EXCEPT !.stale = TRUE]
      BY <3>2
    <3>4. [m EXCEPT !.req.stale = TRUE] = [m EXCEPT !.req = s]
      BY <3>1, <3>3 DEF Messages
    <3>5. /\ [m EXCEPT !.req = s] \in Messages /\ [m EXCEPT !.req = s].type = m.type
          /\ [m EXCEPT !.req = s].uids = m.uids /\ [m EXCEPT !.req = s].req = s
      BY DEF Messages
    <3> QED
      BY <2>1, <2>2, <2>3, <3>1, <3>2, <3>3, <3>4, <3>5
  <2>4. CASE m.req.kind # "Open"
    BY <2>1, <2>2, <2>4
  <2> QED
    BY <2>3, <2>4
<1>6. messages' \in Seq(Messages) /\ DOMAIN messages' = 1..n
  <2>1. DOMAIN messages' = 1..n /\ messages' = [i \in 1..n |-> messages'[i]]
    BY <1>4
  <2> QED
    BY <1>5, <2>1
<1> QED
  BY <1>1, <1>3, <1>5, <1>6

LEMMA UserReopensType == ASSUME TypeOK, UserReopens PROVE TypeOK'
<1>1. QueuesType /\ opens \in Nat
  BY DEF TypeOK, QueuesType
<1>2. actions' \in Seq(Actions)
  <2>1. PICK o \in Actions : actions' = Cancelled(actions) \o <<o>> /\ <<o>> \in Seq(Actions)
    BY <1>1, ReopenRight
  <2>2. Cancelled(actions) \in Seq(Actions)
    BY <1>1, CancelledRight
  <2> QED
    BY <2>1, <2>2, JoinRight
<1>3. messages' \in Seq(Messages)
  BY <1>1, ReopenRight
<1>a. fresh' = FALSE /\ opens' = opens + 1
  BY DEF UserReopens
<1>4. fresh' \in BOOLEAN
  BY <1>a
<1>6. opens' \in Nat
  BY <1>1, <1>a
<1>5. /\ UNCHANGED <<box, nextUid, status, hold, updates, expunger, taken, unseen>>
      /\ UNCHANGED <<known, uids, selected, deleted, pending, crashed, kept>>
      /\ UNCHANGED <<scroll, drawn, dirty, commands, foreign, faults>>
  BY DEF UserReopens, server, worker, list
<1> QED
  BY <1>2, <1>3, <1>4, <1>5, <1>6 DEF TypeOK

(* An answer of the worker to the action in hand, or news by itself. *)
LEMMA AnswerType ==
  ASSUME QueuesType, actions # <<>>, NEW type \in Final \cup {"Info"}
  PROVE  /\ Response(type, act, <<>>) \in Messages
         /\ Append(messages, Response(type, act, <<>>)) = messages \o <<Response(type, act, <<>>)>>
         /\ <<Response(type, act, <<>>)>> \in Seq(Messages)
         /\ ToSet(<<Response(type, act, <<>>)>>) = {Response(type, act, <<>>)}
<1>1. act \in Actions /\ <<>> \in Seq(UIDs)
  BY Acting
<1>2. Response(type, act, <<>>) \in Messages
  BY <1>1, ResponseType
<1>3. messages \in Seq(Messages)
  BY DEF QueuesType
<1> QED
  BY <1>2, <1>3, AppendRight

LEMMA ResponseFields ==
  \A type, req, us : LET m == Response(type, req, us) IN m.type = type /\ m.req = req /\ m.uids = us
BY DEF Response

(* What an action of the worker leaves alone, and how the queues move on.  *)
Takes(new) == /\ actions # <<>> /\ actions' = Tail(actions)
              /\ new \in Seq(Messages) /\ messages' = messages \o new
KeepStore == /\ UNCHANGED <<known, uids, selected, deleted, pending, fresh, crashed, kept>>
             /\ UNCHANGED <<scroll, drawn, dirty, commands, opens, foreign>>

LEMMA TakesType ==
  ASSUME TypeOK, NEW new, Takes(new), KeepStore, WorkerType', ServerType', faults' \in Nat
  PROVE  TypeOK'
<1>1. QueuesType
  BY TypeParts
<1>2. actions' \in Seq(Actions)
  BY <1>1, Acting DEF Takes
<1>3. messages' \in Seq(Messages)
  BY <1>1, JoinRight DEF Takes, QueuesType
<1> QED
  BY <1>2, <1>3 DEF TypeOK, KeepStore, WorkerType, ServerType

LEMMA KeepServer ==
  ASSUME TypeOK, UNCHANGED server
  PROVE  ServerType' /\ box' = box /\ nextUid' = nextUid
BY DEF TypeOK, ServerType, server

LEMMA KeepWorker ==
  ASSUME TypeOK, UNCHANGED worker
  PROVE  WorkerType'
BY DEF TypeOK, WorkerType, worker

LEMMA FaultType == ASSUME TypeOK, UNCHANGED faults \/ Fault PROVE faults' \in Nat
BY DEF TypeOK, Fault

(* How each action of the worker moves the queues. *)
LEMMA RefuseMoves ==
  ASSUME TypeOK, Refuse
  PROVE  /\ Takes(<<Response("Cancelled", act, <<>>)>>) /\ KeepStore
         /\ UNCHANGED <<box, nextUid>> /\ UNCHANGED worker /\ act.stale /\ TypeOK'
<1>1. QueuesType /\ actions # <<>>
  BY TypeParts DEF Refuse
<1>2. messages' = Append(messages, Response("Cancelled", act, <<>>))
  BY DEF Refuse, Answer
<1>3. Takes(<<Response("Cancelled", act, <<>>)>>)
  BY <1>1, <1>2, AnswerType DEF Refuse, Take, Takes, Final
<1>4. KeepStore /\ UNCHANGED server /\ UNCHANGED worker /\ UNCHANGED faults /\ act.stale
  BY DEF Refuse, KeepUI, KeepStore, store, list
<1>5. TypeOK'
  BY <1>3, <1>4, KeepServer, KeepWorker, FaultType, TakesType
<1> QED
  BY <1>3, <1>4, <1>5 DEF server

LEMMA RefusedMoves ==
  ASSUME TypeOK, Refused
  PROVE  /\ Takes(<<Response("Unsupported", act, <<>>)>>) /\ KeepStore
         /\ UNCHANGED <<box, nextUid>> /\ UNCHANGED worker /\ act.kind \in Unsupported /\ TypeOK'
<1>1. QueuesType /\ actions # <<>>
  BY TypeParts DEF Refused
<1>2. messages' = Append(messages, Response("Unsupported", act, <<>>))
  BY DEF Refused, Answer
<1>3. Takes(<<Response("Unsupported", act, <<>>)>>)
  BY <1>1, <1>2, AnswerType DEF Refused, Take, Takes, Final
<1>4. KeepStore /\ UNCHANGED server /\ UNCHANGED worker /\ Fault /\ act.kind \in Unsupported
  BY DEF Refused, KeepUI, KeepStore, store, list
<1>5. TypeOK'
  BY <1>3, <1>4, KeepServer, KeepWorker, FaultType, TakesType
<1> QED
  BY <1>3, <1>4, <1>5 DEF server

LEMMA OpenMoves ==
  ASSUME TypeOK, Open
  PROVE  \E type \in {"Done", "Error"} :
           /\ Takes(<<Response(type, act, <<>>)>>) /\ KeepStore /\ UNCHANGED <<box, nextUid>>
           /\ UNCHANGED <<hold, updates, expunger, taken>> /\ act.kind = "Open" /\ TypeOK'
           /\ status' \in {status, Status}
<1>1. QueuesType /\ actions # <<>> /\ ServerType /\ WorkerType
  BY TypeParts DEF Open, At
<1>2. PICK type \in {"Done", "Error"} :
        messages' = Append(messages, Response(type, act, <<>>))
  BY DEF Open, Answer
<1>3. Takes(<<Response(type, act, <<>>)>>)
  BY <1>1, <1>2, AnswerType DEF Open, Take, Takes, Final
<1>4. KeepStore /\ UNCHANGED server /\ UNCHANGED <<hold, updates, expunger, taken>> /\ act.kind = "Open"
  BY DEF Open, At, KeepUI, KeepStore, store, list
<1>5. (UNCHANGED faults \/ Fault) /\ (status' = Status \/ status' = status) /\ (unseen' = unseen \/ unseen' = TRUE)
  BY DEF Open
<1>6. status' \in [next : 1..(MaxUid + 1), count : 0..MaxUid]
  BY <1>1, <1>5, StatusType DEF WorkerType
<1>7. WorkerType'
  BY <1>1, <1>4, <1>5, <1>6 DEF WorkerType
<1>8. TypeOK'
  BY <1>3, <1>4, <1>5, <1>7, KeepServer, FaultType, TakesType
<1> QED
  BY <1>3, <1>4, <1>5, <1>8 DEF server

LEMMA FetchContentsMoves ==
  ASSUME TypeOK, FetchContents
  PROVE  /\ KeepStore /\ UNCHANGED <<box, nextUid>> /\ act.kind = "Contents" /\ TypeOK'
         /\ UNCHANGED <<status, hold, updates, expunger, taken>>
         /\ \/ \E m \in Messages, d \in Messages :
                 /\ Takes(<<m, d>>)
                 /\ m.type = "Contents" /\ m.req = act /\ ToSet(m.uids) = box /\ Distinct(m.uids)
                 /\ d.type = "Done" /\ d.req = act /\ d.uids = <<>>
            \/ Takes(<<Response("Error", act, <<>>)>>) /\ unseen' = TRUE
<1>1. QueuesType /\ actions # <<>> /\ ServerType /\ WorkerType /\ act \in Actions
  BY TypeParts, Acting DEF FetchContents, At
<1>2. KeepStore /\ UNCHANGED server /\ act.kind = "Contents" /\ UNCHANGED <<status, hold, updates, expunger, taken>>
  BY DEF FetchContents, At, KeepUI, KeepStore, store, list
<1>3. (UNCHANGED faults \/ Fault) /\ (unseen' = FALSE \/ unseen' = TRUE) /\ actions' = Tail(actions)
  BY DEF FetchContents, Take
<1>4. WorkerType'
  BY <1>1, <1>2, <1>3 DEF WorkerType
<1> DEFINE m == Response("Contents", act, Ascending(box))
           d == Response("Done", act, <<>>)
<1>5. m \in Messages /\ m.type = "Contents" /\ m.req = act /\ ToSet(m.uids) = box /\ Distinct(m.uids)
  <2>1. Ascending(box) \in Seq(UIDs) /\ ToSet(Ascending(box)) = box /\ Distinct(Ascending(box))
    BY <1>1, AscendingType DEF ServerType
  <2>2. PICK us \in Seq(UIDs) : us = Ascending(box)
    BY <2>1
  <2>3. Response("Contents", act, us) \in Messages
    BY <1>1, ResponseType
  <2>4. Response("Contents", act, us).type = "Contents" /\ Response("Contents", act, us).req = act
        /\ Response("Contents", act, us).uids = us
    BY ResponseFields
  <2> QED
    BY <2>1, <2>2, <2>3, <2>4
<1>6. d \in Messages /\ d.type = "Done" /\ d.req = act /\ d.uids = <<>>
  BY <1>1, AnswerType, ResponseFields DEF Final
<1>7. \/ messages' = messages \o <<m, d>>
      \/ messages' = Append(messages, Response("Error", act, <<>>)) /\ unseen' = TRUE
  BY DEF FetchContents, Answer
<1> HIDE DEF m, d
<1>8. CASE messages' = messages \o <<m, d>>
  <2>1. Takes(<<m, d>>)
    BY <1>1, <1>3, <1>5, <1>6, <1>8 DEF Takes
  <2>2. TypeOK'
    BY <1>2, <1>3, <1>4, <2>1, KeepServer, FaultType, TakesType
  <2> QED
    BY <1>2, <1>5, <1>6, <2>1, <2>2 DEF server
<1>9. CASE messages' = Append(messages, Response("Error", act, <<>>)) /\ unseen' = TRUE
  <2>1. Takes(<<Response("Error", act, <<>>)>>)
    BY <1>1, <1>3, <1>9, AnswerType DEF Takes, Final
  <2>2. TypeOK'
    BY <1>2, <1>3, <1>4, <2>1, KeepServer, FaultType, TakesType
  <2> QED
    BY <1>2, <1>9, <2>1, <2>2 DEF server
<1> QED
  BY <1>7, <1>8, <1>9

LEMMA FetchHeadersMoves ==
  ASSUME TypeOK, FetchHeaders
  PROVE  /\ KeepStore /\ UNCHANGED <<box, nextUid>> /\ act.kind = "Headers" /\ TypeOK'
         /\ UNCHANGED worker
         /\ \/ \E m \in Messages, d \in Messages :
                 /\ Takes(<<m, d>>)
                 /\ m.type = "Info" /\ m.req = act /\ ToSet(m.uids) \subseteq box
                 /\ d.type = "Done" /\ d.req = act /\ d.uids = <<>>
            \/ Takes(<<Response("Error", act, <<>>)>>)
<1>1. QueuesType /\ actions # <<>> /\ ServerType /\ WorkerType /\ act \in Actions
  BY TypeParts, Acting DEF FetchHeaders, At
<1>2. KeepStore /\ UNCHANGED server /\ act.kind = "Headers" /\ UNCHANGED worker
  BY DEF FetchHeaders, At, KeepUI, KeepStore, store, list
<1>3. actions' = Tail(actions)
  BY DEF FetchHeaders, Take
<1>a. UNCHANGED faults \/ Fault
  BY DEF FetchHeaders
<1> DEFINE m(bad) == Response("Info", act, Ascending((act.uids \cap box) \ bad))
           d == Response("Done", act, <<>>)
<1>5. ASSUME NEW bad
      PROVE  m(bad) \in Messages /\ m(bad).type = "Info" /\ m(bad).req = act /\ ToSet(m(bad).uids) \subseteq box
  <2>1. PICK S : S = (act.uids \cap box) \ bad
    OBVIOUS
  <2>2. S \subseteq UIDs /\ S \subseteq box
    BY <1>1, <2>1 DEF ServerType
  <2>3. Ascending(S) \in Seq(UIDs) /\ ToSet(Ascending(S)) = S
    BY <2>2, AscendingType
  <2>4. PICK us \in Seq(UIDs) : us = Ascending(S)
    BY <2>3
  <2>5. Response("Info", act, us) \in Messages
    BY <1>1, ResponseType
  <2>6. Response("Info", act, us).type = "Info" /\ Response("Info", act, us).req = act
        /\ Response("Info", act, us).uids = us
    BY ResponseFields
  <2> QED
    BY <2>1, <2>2, <2>3, <2>4, <2>5, <2>6
<1>6. d \in Messages /\ d.type = "Done" /\ d.req = act /\ d.uids = <<>>
  BY <1>1, AnswerType, ResponseFields DEF Final
<1>7. \/ \E bad : messages' = messages \o <<m(bad), d>>
      \/ messages' = Append(messages, Response("Error", act, <<>>))
  BY DEF FetchHeaders, Answer
<1> HIDE DEF m, d
<1>8. ASSUME NEW bad, messages' = messages \o <<m(bad), d>>
      PROVE  TypeOK' /\ Takes(<<m(bad), d>>)
  <2>1. Takes(<<m(bad), d>>)
    BY <1>1, <1>3, <1>5, <1>6, <1>8 DEF Takes
  <2> QED
    BY <1>2, <1>a, <2>1, KeepServer, KeepWorker, FaultType, TakesType
<1>9. CASE messages' = Append(messages, Response("Error", act, <<>>))
  <2>1. Takes(<<Response("Error", act, <<>>)>>)
    BY <1>1, <1>3, <1>9, AnswerType DEF Takes, Final
  <2>2. TypeOK'
    BY <1>2, <1>a, <2>1, KeepServer, KeepWorker, FaultType, TakesType
  <2> QED
    BY <1>2, <2>1, <2>2 DEF server
<1>10. CASE \E bad : messages' = messages \o <<m(bad), d>>
  <2>1. PICK bad : messages' = messages \o <<m(bad), d>>
    BY <1>10
  <2>2. TypeOK' /\ Takes(<<m(bad), d>>)
    BY <1>8, <2>1
  <2> QED
    BY <1>2, <1>5, <1>6, <2>2 DEF server
<1> QED
  BY <1>7, <1>9, <1>10

LEMMA CheckMailMoves ==
  ASSUME TypeOK, CheckMail
  PROVE  /\ KeepStore /\ UNCHANGED <<box, nextUid>> /\ act.kind = "CheckMail" /\ TypeOK'
         /\ UNCHANGED <<hold, updates, expunger, taken>> /\ status' \in {status, Status}
         /\ \/ Takes(<<>>) /\ status' = status /\ status = Status /\ unseen' = unseen
            \/ Takes(<<>>) /\ status' = status /\ unseen' = TRUE
            \/ \E m \in Messages :
                 Takes(<<m>>) /\ m.type = "Refetch" /\ m.req.kind = "None" /\ m.uids = <<>>
<1>1. QueuesType /\ actions # <<>> /\ ServerType /\ WorkerType /\ messages \in Seq(Messages)
  BY TypeParts DEF CheckMail, At, QueuesType
<1>2. KeepStore /\ UNCHANGED server /\ act.kind = "CheckMail" /\ UNCHANGED <<hold, updates, expunger, taken>>
  BY DEF CheckMail, At, KeepUI, KeepStore, store, list
<1>3. actions' = Tail(actions)
  BY DEF CheckMail, Take
<1>4. /\ UNCHANGED faults \/ Fault
      /\ status' = Status \/ status' = status
      /\ unseen' = FALSE \/ unseen' = TRUE \/ unseen' = unseen
  BY DEF CheckMail
<1>5. status' \in [next : 1..(MaxUid + 1), count : 0..MaxUid]
  BY <1>1, <1>4, StatusType DEF WorkerType
<1>6. WorkerType'
  BY <1>1, <1>2, <1>4, <1>5 DEF WorkerType
<1> DEFINE m == Response("Refetch", NoRequest, <<>>)
<1>7. m \in Messages /\ m.type = "Refetch" /\ m.req.kind = "None" /\ m.uids = <<>>
  <2>1. <<>> \in Seq(UIDs)
    OBVIOUS
  <2>2. m \in Messages
    BY <2>1, ResponseType, NoRequestType
  <2>3. m.type = "Refetch" /\ m.req = NoRequest /\ m.uids = <<>>
    BY ResponseFields
  <2> QED
    BY <2>2, <2>3, NoRequestType
<1>8. \/ messages' = messages /\ status' = status /\ status = Status /\ unseen' = unseen
      \/ messages' = messages /\ status' = status /\ unseen' = TRUE
      \/ messages' = Append(messages, m)
  BY DEF CheckMail
<1> HIDE DEF m
<1>9. CASE messages' = messages
  <2>1. <<>> \in Seq(Messages) /\ messages \o <<>> = messages
    BY <1>1
  <2>2. Takes(<<>>)
    BY <1>1, <1>3, <1>9, <2>1 DEF Takes
  <2>3. TypeOK'
    BY <1>2, <1>4, <1>6, <2>2, KeepServer, FaultType, TakesType
  <2>4. \/ status' = status /\ status = Status /\ unseen' = unseen
        \/ status' = status /\ unseen' = TRUE
        \/ messages' = Append(messages, m)
    BY <1>8
  <2>5. messages' # Append(messages, m)
    <3>1. Len(Append(messages, m)) = Len(messages) + 1 /\ Len(messages) \in Nat
      BY <1>1, <1>7
    <3> QED
      BY <1>9, <3>1
  <2> QED
    BY <1>2, <1>4, <2>2, <2>3, <2>4, <2>5 DEF server
<1>10. CASE messages' = Append(messages, m)
  <2>1. Takes(<<m>>)
    BY <1>1, <1>3, <1>7, <1>10, AppendRight DEF Takes
  <2>2. TypeOK'
    BY <1>2, <1>4, <1>6, <2>1, KeepServer, FaultType, TakesType
  <2> QED
    BY <1>2, <1>4, <1>7, <2>1, <2>2 DEF server
<1> QED
  BY <1>8, <1>9, <1>10

LEMMA NewsRight ==
  ASSUME NEW t \in Updates
  PROVE  /\ News(t) \in Messages
         /\ News(t).type = IF t.type = "flags" THEN "Flags" ELSE "Deleted"
         /\ News(t).req.kind = "None" /\ News(t).uids = <<t.uid>>
         /\ ToSet(<<t.uid>>) = {t.uid} /\ Len(<<t.uid>>) = 1
<1>1. t.uid \in UIDs
  BY FieldTypes
<1>2. <<t.uid>> \in Seq(UIDs) /\ ToSet(<<t.uid>>) = {t.uid} /\ Len(<<t.uid>>) = 1
  BY <1>1, ShortSets
<1>3. PICK type : type = IF t.type = "flags" THEN "Flags" ELSE "Deleted"
  OBVIOUS
<1>4. type \in Final \cup {"Contents", "Info", "Flags", "Deleted", "Refetch"}
  BY <1>3
<1>5. News(t) = Response(type, NoRequest, <<t.uid>>)
  BY <1>3 DEF News
<1>6. Response(type, NoRequest, <<t.uid>>) \in Messages
  BY <1>2, <1>4, ResponseType, NoRequestType
<1> QED
  BY <1>2, <1>3, <1>5, <1>6, ResponseFields, NoRequestType

(* An update that waits: a new message leads to a check, any other to news *)
(* unless it is passed over.                                               *)
LEMMA HandleUpdateMoves ==
  ASSUME TypeOK, HandleUpdate
  PROVE  /\ KeepStore /\ UNCHANGED <<box, nextUid, status, expunger, taken>> /\ TypeOK'
         /\ updates # <<>> /\ updates' = Tail(updates) /\ Head(updates) \in Updates
         /\ \E as \in Seq(Actions), ms \in Seq(Messages) :
              /\ actions' = actions \o as /\ messages' = messages \o ms
              /\ \/ /\ Head(updates).type = "exists" /\ ms = <<>>
                    /\ \/ as = <<>> /\ unseen' = TRUE
                       \/ /\ unseen' = unseen
                          /\ \E a \in Actions : as = <<a>> /\ a.kind = "CheckMail" /\ a.stale = FALSE
                 \/ /\ Head(updates).type # "exists" /\ as = <<>>
                    /\ ms = IF Reported(Head(updates), expunger, taken) THEN <<News(Head(updates))>> ELSE <<>>
                    /\ unseen' = (unseen \/ Missed(Head(updates), expunger))
<1>1. /\ QueuesType /\ ServerType /\ WorkerType /\ faults \in Nat
      /\ messages \in Seq(Messages) /\ actions \in Seq(Actions) /\ updates \in Seq(Updates)
  BY TypeParts DEF QueuesType, WorkerType, BoundsType
<1>2. /\ KeepStore /\ UNCHANGED <<box, nextUid, status, expunger, taken>> /\ UNCHANGED faults
      /\ updates # <<>> /\ updates' = Tail(updates)
  BY DEF HandleUpdate, KeepUI, KeepStore, store, list, server
<1>3. PICK t \in Updates : t = Head(updates)
  BY <1>1, <1>2, TailRight
<1>4. updates' \in Seq(Updates)
  BY <1>1, <1>2, TailRight
<1>5. <<>> \in Seq(Actions) /\ <<>> \in Seq(Messages) /\ actions \o <<>> = actions /\ messages \o <<>> = messages
  BY <1>1
<1> DEFINE a == Action("CheckMail", {}, FALSE, 0, MagicUid, FALSE)
<1>6. a \in Actions /\ a.kind = "CheckMail" /\ a.stale = FALSE
  BY ActionType DEF Action
<1>7. CASE t.type = "exists"
  <2>1. /\ hold' = TRUE /\ messages' = messages /\ unseen' = (unseen \/ hold)
        /\ actions' = IF hold THEN actions ELSE Append(actions, a)
    BY <1>3, <1>7 DEF HandleUpdate
  <2> HIDE DEF a
  <2>2. PICK as \in Seq(Actions) : /\ actions' = actions \o as
                                   /\ \/ as = <<>> /\ hold
                                      \/ as = <<a>> /\ ~hold
    <3>1. CASE hold
      BY <1>5, <2>1, <3>1
    <3>2. CASE ~hold
      BY <1>1, <1>6, <2>1, <3>2, AppendRight
    <3> QED
      BY <3>1, <3>2
  <2>3. unseen' \in BOOLEAN /\ hold' \in BOOLEAN
    BY <2>1
  <2>4. WorkerType'
    BY <1>1, <1>2, <1>4, <2>3 DEF WorkerType
  <2>a. actions \o as \in Seq(Actions)
    BY <1>1, JoinRight
  <2>5. QueuesType'
    BY <1>1, <2>1, <2>2, <2>a DEF QueuesType
  <2>6. TypeOK'
    BY <1>2, <1>1, <2>4, <2>5 DEF TypeOK, WorkerType, QueuesType, KeepStore
  <2>7. \/ as = <<>> /\ unseen' = TRUE
        \/ as = <<a>> /\ unseen' = unseen
    BY <1>1, <2>1, <2>2 DEF WorkerType
  <2> QED
    BY <1>2, <1>3, <1>5, <1>6, <1>7, <2>1, <2>2, <2>6, <2>7
<1>8. CASE t.type # "exists"
  <2>1. /\ hold' = hold /\ actions' = actions /\ unseen' = (unseen \/ Missed(t, expunger))
        /\ messages' = IF Reported(t, expunger, taken) THEN Append(messages, News(t)) ELSE messages
    BY <1>3, <1>8 DEF HandleUpdate
  <2>2. PICK ms \in Seq(Messages) :
          /\ messages' = messages \o ms
          /\ ms = IF Reported(t, expunger, taken) THEN <<News(t)>> ELSE <<>>
    <3>1. CASE Reported(t, expunger, taken)
      <4>1. PICK m \in Messages : m = News(t)
        BY NewsRight
      <4>2. Append(messages, m) = messages \o <<m>> /\ <<m>> \in Seq(Messages)
        BY <1>1, AppendRight
      <4> QED
        BY <2>1, <3>1, <4>1, <4>2
    <3>2. CASE ~Reported(t, expunger, taken)
      BY <1>5, <2>1, <3>2
    <3> QED
      BY <3>1, <3>2
  <2>3. unseen' \in BOOLEAN /\ hold' \in BOOLEAN
    BY <1>1, <2>1 DEF WorkerType, Missed
  <2>4. WorkerType'
    BY <1>1, <1>2, <1>4, <2>3 DEF WorkerType
  <2>5. QueuesType'
    BY <1>1, <2>1, <2>2, JoinRight DEF QueuesType
  <2>6. TypeOK'
    BY <1>2, <1>1, <2>4, <2>5 DEF TypeOK, WorkerType, QueuesType, KeepStore
  <2> QED
    BY <1>2, <1>3, <1>5, <1>8, <2>1, <2>2, <2>6
<1> QED
  BY <1>7, <1>8

LEMMA HoldEndsMoves ==
  ASSUME TypeOK, HoldEnds
  PROVE  /\ KeepStore /\ UNCHANGED <<box, nextUid, status, updates, expunger, taken, unseen, actions, messages>>
         /\ TypeOK'
<1>1. /\ KeepStore /\ UNCHANGED <<box, nextUid, status, updates, expunger, taken, unseen, actions, messages, faults>>
      /\ hold' = FALSE
  BY DEF HoldEnds, KeepUI, KeepStore, store, list, server
<1>2. hold' \in BOOLEAN
  BY <1>1
<1> QED
  BY <1>1, <1>2 DEF TypeOK, KeepStore

(* News of the server: a message arrives, another client removes or flags. *)
LEMMA ArriveMoves ==
  ASSUME TypeOK, Arrive
  PROVE  /\ KeepStore /\ UNCHANGED <<status, expunger, taken, unseen, actions, messages>> /\ TypeOK'
         /\ nextUid \in UIDs /\ box' = box \cup {nextUid} /\ nextUid' = nextUid + 1
         /\ \E t \in Updates : updates' = updates \o <<t>> /\ <<t>> \in Seq(Updates)
                               /\ t.type = "exists" /\ t.uid = nextUid
<1>1. /\ KeepStore /\ UNCHANGED <<status, hold, expunger, taken, unseen, actions, messages, faults>>
      /\ nextUid \in UIDs /\ box' = box \cup {nextUid} /\ nextUid' = nextUid + 1
      /\ updates' = Append(updates, [type |-> "exists", uid |-> nextUid])
  BY DEF Arrive, Tell, KeepAllBut, KeepStore, store, list
<1>2. PICK t \in Updates : t = [type |-> "exists", uid |-> nextUid]
  BY <1>1 DEF Updates
<1>3. updates \in Seq(Updates) /\ box \subseteq UIDs
  BY DEF TypeOK
<1>4. updates' = updates \o <<t>> /\ <<t>> \in Seq(Updates) /\ t.type = "exists" /\ t.uid = nextUid
  BY <1>1, <1>2, <1>3, AppendRight
<1>5. updates' \in Seq(Updates)
  BY <1>3, <1>4, JoinRight
<1>6. nextUid' \in 1..(MaxUid + 1) /\ box' \subseteq UIDs
  BY <1>1, <1>3, BoundsAssumption DEF UIDs
<1>7. TypeOK'
  BY <1>1, <1>5, <1>6 DEF TypeOK, KeepStore
<1> QED
  BY <1>1, <1>4, <1>7

LEMMA ForeignMoves ==
  ASSUME TypeOK, NEW type \in {"expunge", "flags"}, NEW u \in box, Foreign(type, u)
  PROVE  /\ UNCHANGED <<known, uids, selected, deleted, pending, fresh, crashed, kept>>
         /\ UNCHANGED <<nextUid, status, expunger, taken, unseen, actions, messages>> /\ TypeOK'
         /\ box' = IF type = "expunge" THEN box \ {u} ELSE box
         /\ \E t \in Updates : updates' = updates \o <<t>> /\ <<t>> \in Seq(Updates)
                               /\ t.type = type /\ t.uid = u
<1>1. /\ UNCHANGED <<known, uids, selected, deleted, pending, fresh, crashed, kept>>
      /\ UNCHANGED <<scroll, drawn, dirty, commands, opens, faults>>
      /\ UNCHANGED <<nextUid, status, hold, expunger, taken, unseen, actions, messages>>
      /\ box' = IF type = "expunge" THEN box \ {u} ELSE box
      /\ updates' = Append(updates, [type |-> type, uid |-> u]) /\ foreign' = foreign + 1
  BY DEF Foreign, Tell, KeepAllBut, store, list
<1>2. updates \in Seq(Updates) /\ box \subseteq UIDs /\ u \in UIDs /\ foreign \in Nat
  BY DEF TypeOK
<1>3. PICK t \in Updates : t = [type |-> type, uid |-> u]
  BY <1>2 DEF Updates
<1>4. updates' = updates \o <<t>> /\ <<t>> \in Seq(Updates) /\ t.type = type /\ t.uid = u
  BY <1>1, <1>2, <1>3, AppendRight
<1>5. updates' \in Seq(Updates)
  BY <1>2, <1>4, JoinRight
<1>6. box' \subseteq UIDs /\ foreign' \in Nat
  BY <1>1, <1>2
<1>7. TypeOK'
  BY <1>1, <1>5, <1>6 DEF TypeOK
<1> QED
  BY <1>1, <1>4, <1>7

-----------------------------------------------------------------------------
(* The drain of a command that removes messages *)

(* The expunges of a move name the messages it has taken out. *)
LEMMA ExpungesRight ==
  ASSUME NEW S, S \subseteq UIDs
  PROVE  /\ Expunges(S) \in Seq(Updates)
         /\ \A i \in DOMAIN Expunges(S) : Expunges(S)[i].type = "expunge" /\ Expunges(S)[i].uid \in S
         /\ \A u \in S : \E i \in DOMAIN Expunges(S) : Expunges(S)[i].uid = u
<1>1. PICK n \in Nat : n = Cardinality(S)
  BY UIDsFinite, NthRight
<1>2. /\ \A i \in 1..n : Nth(S, i) \in S
      /\ \A u \in S : \E i \in 1..n : Nth(S, i) = u
  BY <1>1, UIDsFinite, NthRight
<1>3. DOMAIN Expunges(S) = 1..n
  BY <1>1 DEF Expunges
<1>4. \A i \in 1..n : Expunges(S)[i] = [type |-> "expunge", uid |-> Nth(S, i)]
  BY <1>1 DEF Expunges
<1>5. \A i \in 1..n : Expunges(S)[i] \in Updates /\ Expunges(S)[i].type = "expunge" /\ Expunges(S)[i].uid = Nth(S, i)
  <2> TAKE i \in 1..n
  <2>1. PICK u \in UIDs : u = Nth(S, i)
    BY <1>2
  <2>2. [type |-> "expunge", uid |-> u] \in Updates
    BY DEF Updates
  <2> QED
    BY <1>4, <2>1, <2>2
<1>6. Expunges(S) = [i \in 1..n |-> Expunges(S)[i]]
  BY <1>1 DEF Expunges
<1>7. Expunges(S) \in Seq(Updates)
  BY <1>5, <1>6
<1> QED
  BY <1>2, <1>3, <1>5, <1>7

(* The news of the updates of q at the positions told, in their order. *)
LEMMA NewsOfRight ==
  ASSUME NEW q \in Seq(Updates), NEW told, told \subseteq DOMAIN q
  PROVE  /\ NewsOf(q, told) \in Seq(Messages)
         /\ \A n \in DOMAIN NewsOf(q, told) : Nth(told, n) \in told /\ NewsOf(q, told)[n] = News(q[Nth(told, n)])
         /\ \A i \in told : \E n \in DOMAIN NewsOf(q, told) : Nth(told, n) = i
         /\ \A m, n \in DOMAIN NewsOf(q, told) : Nth(told, m) < Nth(told, n) => m < n
<1>1. PICK c \in Nat : c = Cardinality(told)
  BY PickedRight
<1>2. /\ Picked(q, told) \in Seq(Updates) /\ DOMAIN Picked(q, told) = 1..c
      /\ \A n \in 1..c : Nth(told, n) \in told /\ Picked(q, told)[n] = q[Nth(told, n)]
      /\ \A i \in told : \E n \in 1..c : Nth(told, n) = i
      /\ \A m, n \in 1..c : m < n => Nth(told, m) < Nth(told, n)
  BY <1>1, PickedRight
<1>3. DOMAIN NewsOf(q, told) = 1..c /\ NewsOf(q, told) = [n \in 1..c |-> News(Picked(q, told)[n])]
  BY <1>2 DEF NewsOf
<1>4. \A n \in 1..c : Picked(q, told)[n] \in Updates
  BY <1>2
<1>5. \A n \in 1..c : News(Picked(q, told)[n]) \in Messages
  BY <1>4, NewsRight
<1>6. NewsOf(q, told) \in Seq(Messages)
  BY <1>3, <1>5
<1>7. \A n \in 1..c : NewsOf(q, told)[n] = News(q[Nth(told, n)])
  BY <1>2, <1>3
<1>8. ASSUME NEW m \in 1..c, NEW n \in 1..c, Nth(told, m) < Nth(told, n)
      PROVE  m < n
  <2>1. Nth(told, m) \in Nat /\ Nth(told, n) \in Nat
    BY <1>2
  <2>2. n < m => Nth(told, n) < Nth(told, m)
    BY <1>2
  <2>3. n = m \/ n < m \/ m < n
    OBVIOUS
  <2> QED
    BY <1>8, <2>1, <2>2, <2>3
<1> QED
  BY <1>2, <1>3, <1>6, <1>7, <1>8

(* What is left of a queue behind its first k items. *)
LEMMA SuffixRight ==
  ASSUME NEW T, NEW q \in Seq(T), NEW k \in 0..Len(q)
  PROVE  LET s == SubSeq(q, k + 1, Len(q))
         IN /\ s \in Seq(T)
            /\ \A i \in DOMAIN s : i + k \in DOMAIN q /\ s[i] = q[i + k]
            /\ \A i \in DOMAIN q : i > k => i - k \in DOMAIN s /\ s[i - k] = q[i]
<1>1. PICK n \in Nat : n = Len(q)
  OBVIOUS
<1> DEFINE s == SubSeq(q, k + 1, n)
<1>2. k \in 0..n /\ DOMAIN q = 1..n
  BY <1>1
<1>3. s \in Seq(T) /\ Len(s) = n - k
  BY <1>1, <1>2
<1>4. DOMAIN s = 1..(n - k)
  BY <1>2, <1>3
<1>5. \A i \in 1..(n - k) : s[i] = q[i + k] /\ i + k \in 1..n
  BY <1>1, <1>2, <1>3
<1> HIDE DEF s
<1>6. ASSUME NEW i \in 1..n, i > k PROVE i - k \in 1..(n - k) /\ s[i - k] = q[i]
  <2>1. i - k \in 1..(n - k) /\ (i - k) + k = i
    BY <1>2, <1>6
  <2> QED
    BY <1>5, <2>1
<1> QED
  BY <1>1, <1>2, <1>3, <1>4, <1>5, <1>6 DEF s

LEMMA RemoveParts ==
  ASSUME TypeOK, RemoveMessages
  PROVE  /\ actions # <<>> /\ act.kind \in Removal /\ actions' = Tail(actions)
         /\ expunger' = act.kind /\ taken' = taken \cup act.uids
         /\ KeepStore /\ UNCHANGED <<nextUid, status, hold>> /\ faults' \in Nat
         /\ \E ok \in BOOLEAN : \E k \in 0..Len(AllUpdates(ok)) : \E j \in 0..k : Drains(ok, j, k)
<1>1. /\ actions # <<>> /\ act.kind \in Removal /\ actions' = Tail(actions)
      /\ expunger' = act.kind /\ taken' = taken \cup act.uids
      /\ KeepStore /\ UNCHANGED <<nextUid, status, hold>>
  BY DEF RemoveMessages, At, Take, Removal, KeepUI, KeepStore, store, list
<1>2. UNCHANGED faults \/ Fault
  BY DEF RemoveMessages
<1>3. faults' \in Nat
  BY <1>2, FaultType
<1>4. \E ok \in BOOLEAN : \E k \in 0..Len(AllUpdates(ok)) : \E j \in 0..k : Drains(ok, j, k)
  BY DEF RemoveMessages
<1> QED
  BY <1>1, <1>3, <1>4

(* Types of the parts. *)
LEMMA DrainTypes ==
  ASSUME TypeOK, actions # <<>>, act.kind \in Removal, NEW ok \in BOOLEAN
  PROVE  /\ Gone(ok) \subseteq act.uids \cap box
         /\ AllUpdates(ok) \in Seq(Updates)
         /\ \A i \in DOMAIN updates : i \in DOMAIN AllUpdates(ok) /\ AllUpdates(ok)[i] = updates[i]
         /\ \A i \in DOMAIN AllUpdates(ok) : i \in DOMAIN updates \/
              /\ i > Len(updates) /\ AllUpdates(ok)[i].type = "expunge" /\ AllUpdates(ok)[i].uid \in Gone(ok)
         /\ act.kind = "Move" => \A u \in Gone(ok) : \E i \in DOMAIN AllUpdates(ok) :
              i > Len(updates) /\ AllUpdates(ok)[i].type = "expunge" /\ AllUpdates(ok)[i].uid = u
         /\ Deletion(ok) \in Seq(Messages) /\ Answered(ok) \in Messages
         /\ \A m \in ToSet(Deletion(ok)) : m.type = "Deleted" /\ m.req.kind = "None" /\ ToSet(m.uids) = act.uids /\ ok
         /\ ok /\ act.kind = "Delete" => \E m \in ToSet(Deletion(ok)) : m.type = "Deleted" /\ ToSet(m.uids) = act.uids
         /\ Answered(ok).type = (IF ok THEN "Done" ELSE "Error") /\ Answered(ok).req = act /\ Answered(ok).uids = <<>>
<1>1. QueuesType /\ act \in Actions /\ act.uids \subseteq UIDs /\ updates \in Seq(Updates) /\ box \subseteq UIDs
  BY TypeParts, Acting, FieldTypes DEF WorkerType, ServerType
<1>2. Gone(ok) \subseteq act.uids \cap box /\ Gone(ok) \subseteq UIDs
  BY <1>1 DEF Gone
<1> DEFINE exps == IF act.kind = "Delete" THEN <<>> ELSE Expunges(Gone(ok))
<1>3. /\ exps \in Seq(Updates)
      /\ \A i \in DOMAIN exps : exps[i].type = "expunge" /\ exps[i].uid \in Gone(ok)
      /\ act.kind = "Move" => \A u \in Gone(ok) : \E i \in DOMAIN exps : exps[i].uid = u
  <2>1. CASE act.kind = "Delete"
    BY <2>1
  <2>2. CASE act.kind # "Delete"
    BY <1>2, <2>2, ExpungesRight
  <2> QED
    BY <2>1, <2>2
<1>4. AllUpdates(ok) = updates \o exps
  BY DEF AllUpdates
<1> HIDE DEF exps
<1>5. PICK l \in Nat : l = Len(updates)
  BY <1>1
<1>6. /\ updates \o exps \in Seq(Updates)
      /\ \A i \in DOMAIN updates : i \in DOMAIN (updates \o exps) /\ (updates \o exps)[i] = updates[i]
      /\ \A i \in DOMAIN exps : i + l \in DOMAIN (updates \o exps) /\ (updates \o exps)[i + l] = exps[i]
      /\ \A i \in DOMAIN (updates \o exps) : i \in DOMAIN updates \/ (i > l /\ i - l \in DOMAIN exps)
      /\ \A i \in DOMAIN (updates \o exps) : i \in Nat \ {0}
  BY <1>1, <1>3, <1>5, JoinRight
<1>7. ASSUME NEW i \in DOMAIN (updates \o exps), i \notin DOMAIN updates
      PROVE  i > l /\ (updates \o exps)[i].type = "expunge" /\ (updates \o exps)[i].uid \in Gone(ok)
  <2>1. PICK n \in DOMAIN exps : n = i - l
    BY <1>6, <1>7
  <2>2. n + l = i /\ i > l
    BY <1>6, <1>7, <2>1
  <2> QED
    BY <1>3, <1>6, <2>2
<1>8. ASSUME act.kind = "Move", NEW u \in Gone(ok)
      PROVE  \E i \in DOMAIN (updates \o exps) :
               i > l /\ (updates \o exps)[i].type = "expunge" /\ (updates \o exps)[i].uid = u
  <2>1. PICK n \in DOMAIN exps : exps[n].uid = u
    BY <1>3, <1>8
  <2>2. n + l \in DOMAIN (updates \o exps) /\ (updates \o exps)[n + l] = exps[n]
    BY <1>6
  <2>3. n \in Nat \ {0}
    BY <1>3
  <2> QED
    BY <1>3, <2>1, <2>2, <2>3
<1>9. Answered(ok) \in Messages /\ Answered(ok).type = (IF ok THEN "Done" ELSE "Error")
      /\ Answered(ok).req = act /\ Answered(ok).uids = <<>>
  <2>1. PICK type \in {"Done", "Error"} : type = IF ok THEN "Done" ELSE "Error"
    OBVIOUS
  <2>2. Response(type, act, <<>>) \in Messages
    BY <1>1, AnswerType DEF Final
  <2> QED
    BY <2>1, <2>2, ResponseFields DEF Answered
<1>10. /\ Deletion(ok) \in Seq(Messages)
       /\ \A m \in ToSet(Deletion(ok)) : m.type = "Deleted" /\ m.req.kind = "None" /\ ToSet(m.uids) = act.uids /\ ok
       /\ ok /\ act.kind = "Delete" => \E m \in ToSet(Deletion(ok)) : m.type = "Deleted" /\ ToSet(m.uids) = act.uids
  <2>1. PICK us \in Seq(UIDs) : us = Ascending(act.uids) /\ ToSet(us) = act.uids
    BY <1>1, AscendingType
  <2>2. PICK d \in Messages : d = Response("Deleted", NoRequest, us)
    BY ResponseType, NoRequestType
  <2>3. d.type = "Deleted" /\ d.req.kind = "None" /\ d.uids = us
    BY <2>2, ResponseFields, NoRequestType
  <2>4. CASE ok /\ act.kind = "Delete"
    <3>1. Deletion(ok) = <<d>>
      BY <2>1, <2>2, <2>4 DEF Deletion
    <3>2. ToSet(<<d>>) = {d} /\ <<d>> \in Seq(Messages)
      BY ShortSets
    <3>3. ToSet(Deletion(ok)) = {d} /\ Deletion(ok) \in Seq(Messages)
      BY <3>1, <3>2
    <3>4. ToSet(d.uids) = act.uids
      BY <2>1, <2>3
    <3> QED
      BY <2>3, <2>4, <3>3, <3>4
  <2>5. CASE ~(ok /\ act.kind = "Delete")
    <3>1. Deletion(ok) = <<>>
      BY <2>5 DEF Deletion
    <3> QED
      BY <2>5, <3>1, ShortSets
  <2> QED
    BY <2>4, <2>5
<1> QED
  BY <1>2, <1>4, <1>5, <1>6, <1>7, <1>8, <1>9, <1>10

(* Which of the updates are told on, and that a drain which passes over an *)
(* expunge or a new message has been noted.                                *)
LEMMA ToldRight ==
  ASSUME NEW ok \in BOOLEAN, AllUpdates(ok) \in Seq(Updates),
         NEW k \in 0..Len(AllUpdates(ok)), NEW j \in 0..k
  PROVE  /\ Told(ok, j, k) \subseteq DOMAIN AllUpdates(ok)
         /\ \A i \in Told(ok, j, k) : i \in Nat /\ AllUpdates(ok)[i].type \in {"flags", "expunge"}
              /\ (AllUpdates(ok)[i].type = "flags" => AllUpdates(ok)[i].uid \notin taken)
         /\ Drains(ok, j, k) => \A i \in DOMAIN AllUpdates(ok) : i <= k =>
              /\ AllUpdates(ok)[i].type = "expunge" => i \in Told(ok, j, k) \/ unseen'
              /\ AllUpdates(ok)[i].type = "exists" => unseen'
<1>1. PICK all \in Seq(Updates) : all = AllUpdates(ok)
  OBVIOUS
<1>2. PICK l \in Nat : l = Len(all) /\ k \in 0..l
  BY <1>1
<1>3. DOMAIN all = 1..l
  BY <1>2
<1>4. Told(ok, j, k) = {i \in 1..j : Reported(all[i], expunger, taken)}
                         \cup {i \in (j + 1)..k : Reported(all[i], act.kind, taken \cup act.uids)}
  BY <1>1 DEF Told
<1>5. \A i \in 1..j : i \in 1..l
  BY <1>2
<1>6. \A i \in (j + 1)..k : i \in 1..l
  BY <1>2
<1>7. ASSUME NEW i \in Told(ok, j, k)
      PROVE  /\ i \in 1..l /\ i \in Nat /\ all[i].type \in {"flags", "expunge"}
             /\ all[i].type = "flags" => all[i].uid \notin taken
  <2>1. i \in 1..l
    BY <1>4, <1>5, <1>6
  <2>2. Reported(all[i], expunger, taken) \/ Reported(all[i], act.kind, taken \cup act.uids)
    BY <1>4
  <2> QED
    BY <2>1, <2>2 DEF Reported
<1>8. ASSUME Drains(ok, j, k), NEW i \in 1..l, i <= k
      PROVE  /\ all[i].type = "expunge" => i \in Told(ok, j, k) \/ unseen'
             /\ all[i].type = "exists" => unseen'
  <2>1. unseen' = \/ unseen
                  \/ \E n \in 1..j : Missed(all[n], expunger)
                  \/ \E n \in (j + 1)..k : Missed(all[n], act.kind)
    BY <1>1, <1>8 DEF Drains
  <2>2. i \in 1..j \/ i \in (j + 1)..k
    BY <1>8
  <2>3. CASE i \in 1..j
    <3>1. Missed(all[i], expunger) => unseen'
      BY <2>1, <2>3
    <3>2. Reported(all[i], expunger, taken) => i \in Told(ok, j, k)
      BY <1>4, <2>3
    <3> QED
      BY <3>1, <3>2 DEF Missed, Reported
  <2>4. CASE i \in (j + 1)..k
    <3>1. Missed(all[i], act.kind) => unseen'
      BY <2>1, <2>4
    <3>2. Reported(all[i], act.kind, taken \cup act.uids) => i \in Told(ok, j, k)
      BY <1>4, <2>4
    <3> QED
      BY <3>1, <3>2 DEF Missed, Reported
  <2> QED
    BY <2>2, <2>3, <2>4
<1> QED
  BY <1>1, <1>3, <1>7, <1>8

(* News, then d and last a: what comes after what. *)
Ordered(new, all, told, d, a) ==
  /\ a \in ToSet(new) /\ ToSet(d) \subseteq ToSet(new)
  /\ \A i \in told : \E n \in DOMAIN new : new[n] = News(all[i])
  /\ \A n \in DOMAIN new :
       \/ new[n] = a \/ new[n] \in ToSet(d)
       \/ \E i \in told :
            /\ new[n] = News(all[i])
            /\ \A h \in told : h > i => \E m \in DOMAIN new : m > n /\ new[m] = News(all[h])
            /\ \A x \in ToSet(d) : \E m \in DOMAIN new : m > n /\ new[m] = x

LEMMA OutcomeOrder ==
  ASSUME NEW all \in Seq(Updates), NEW told, told \subseteq DOMAIN all, \A i \in told : i \in Nat,
         NEW d \in Seq(Messages), NEW a \in Messages
  PROVE  \E new \in Seq(Messages) :
           new = NewsOf(all, told) \o (d \o <<a>>) /\ Ordered(new, all, told, d, a)
<1>1. PICK p \in Seq(Messages) : p = NewsOf(all, told)
  BY NewsOfRight
<1>2. /\ \A n \in DOMAIN p : Nth(told, n) \in told /\ p[n] = News(all[Nth(told, n)])
      /\ \A i \in told : \E n \in DOMAIN p : Nth(told, n) = i
      /\ \A m, n \in DOMAIN p : Nth(told, m) < Nth(told, n) => m < n
  BY <1>1, NewsOfRight
<1>3. <<a>> \in Seq(Messages) /\ ToSet(<<a>>) = {a}
  BY ShortSets
<1>4. PICK b \in Seq(Messages) : b = d \o <<a>>
  BY <1>3, JoinRight
<1>5. ToSet(b) = ToSet(d) \cup {a}
  <2>1. PICK s \in Seq(Messages) : s = <<a>>
    BY <1>3
  <2>2. ToSet(d \o s) = ToSet(d) \cup ToSet(s)
    BY JoinSet
  <2> QED
    BY <1>3, <1>4, <2>1, <2>2
<1>6. PICK new \in Seq(Messages) : new = p \o b
  BY JoinRight
<1>7. ToSet(new) = ToSet(p) \cup ToSet(b)
  <2>1. ToSet(p \o b) = ToSet(p) \cup ToSet(b)
    BY JoinSet
  <2> QED
    BY <1>6, <2>1
<1>8. PICK l \in Nat : l = Len(p)
  OBVIOUS
<1>9. /\ \A i \in DOMAIN p : i \in DOMAIN new /\ new[i] = p[i] /\ i <= l
      /\ \A i \in DOMAIN b : i + l \in DOMAIN new /\ new[i + l] = b[i]
      /\ \A i \in DOMAIN new : i \in DOMAIN p \/ (i > l /\ i - l \in DOMAIN b)
      /\ \A i \in DOMAIN new : i \in Nat \ {0}
  BY <1>6, <1>8, JoinRight
<1>10. \A i \in told : \E n \in DOMAIN new : new[n] = News(all[i])
  BY <1>2, <1>9
<1>11. ASSUME NEW n \in DOMAIN new, n \notin DOMAIN p PROVE new[n] \in ToSet(b)
  <2>1. PICK i \in DOMAIN b : i = n - l
    BY <1>9, <1>11
  <2>2. i + l = n
    BY <1>9, <2>1
  <2> QED
    BY <1>9, <2>2 DEF ToSet
<1>12. ASSUME NEW n \in DOMAIN p
       PROVE  \E i \in told :
                /\ new[n] = News(all[i])
                /\ \A h \in told : h > i => \E m \in DOMAIN new : m > n /\ new[m] = News(all[h])
                /\ \A x \in ToSet(d) : \E m \in DOMAIN new : m > n /\ new[m] = x
  <2>1. PICK i \in told : i = Nth(told, n)
    BY <1>2
  <2>2. new[n] = News(all[i]) /\ n <= l /\ n \in Nat
    BY <1>2, <1>9, <2>1
  <2>3. ASSUME NEW h \in told, h > i
        PROVE  \E m \in DOMAIN new : m > n /\ new[m] = News(all[h])
    <3>1. PICK m \in DOMAIN p : Nth(told, m) = h
      BY <1>2
    <3>2. Nth(told, n) < Nth(told, m)
      BY <2>1, <2>3, <3>1
    <3>3. n < m /\ m \in Nat
      BY <1>2, <1>9, <3>1, <3>2
    <3>4. new[m] = News(all[h]) /\ m \in DOMAIN new
      BY <1>2, <1>9, <3>1
    <3> QED
      BY <2>2, <3>3, <3>4
  <2>4. ASSUME NEW x \in ToSet(d) PROVE \E m \in DOMAIN new : m > n /\ new[m] = x
    <3>1. PICK i0 \in DOMAIN b : b[i0] = x
      BY <1>5 DEF ToSet
    <3>2. i0 + l \in DOMAIN new /\ new[i0 + l] = x /\ i0 \in Nat \ {0}
      BY <1>9, <3>1
    <3>3. i0 + l > n
      BY <2>2, <3>2
    <3> QED
      BY <3>2, <3>3
  <2> QED
    BY <2>1, <2>2, <2>3, <2>4
<1>13. ASSUME NEW n \in DOMAIN new
       PROVE  \/ new[n] = a \/ new[n] \in ToSet(d)
              \/ \E i \in told :
                   /\ new[n] = News(all[i])
                   /\ \A h \in told : h > i => \E m \in DOMAIN new : m > n /\ new[m] = News(all[h])
                   /\ \A x \in ToSet(d) : \E m \in DOMAIN new : m > n /\ new[m] = x
  <2>1. CASE n \in DOMAIN p
    BY <1>12, <2>1
  <2>2. CASE n \notin DOMAIN p
    BY <1>5, <1>11, <2>2
  <2> QED
    BY <2>1, <2>2
<1>14. new \in Seq(Messages) /\ a \in ToSet(new) /\ ToSet(d) \subseteq ToSet(new)
  BY <1>5, <1>6, <1>7
<1>15. new = NewsOf(all, told) \o (d \o <<a>>)
  BY <1>1, <1>4, <1>6
<1>16. Ordered(new, all, told, d, a)
  BY <1>10, <1>13, <1>14 DEF Ordered
<1> QED
  BY <1>15, <1>16

-----------------------------------------------------------------------------
(* How the worker's steps move on what is right of the queues *)

LEMMA FollowedTail ==
  ASSUME NEW q \in Seq(Messages), q # <<>>, Followed(q)
  PROVE  Followed(Tail(q))
<1>1. PICK s \in Seq(Messages) : s = Tail(q)
  BY TailRight
<1>2. /\ \A i \in DOMAIN s : i + 1 \in DOMAIN q /\ s[i] = q[i + 1]
      /\ \A i \in DOMAIN q : i # 1 => i - 1 \in DOMAIN s /\ s[i - 1] = q[i]
  BY <1>1, TailRight
<1>3. ASSUME NEW i \in DOMAIN s, s[i].type = "Info"
      PROVE  i + 1 \in DOMAIN s /\ s[i + 1].req = s[i].req
  <2>0. i \in Nat \ {0}
    OBVIOUS
  <2>1. PICK j \in DOMAIN q : j = i + 1 /\ s[i] = q[j]
    BY <1>2
  <2>2. PICK h \in DOMAIN q : h = j + 1 /\ q[h].req = q[j].req
    BY <1>3, <2>1 DEF Followed
  <2>3. h # 1 /\ h - 1 = i + 1
    BY <2>0, <2>1, <2>2
  <2>4. h - 1 \in DOMAIN s /\ s[h - 1] = q[h]
    BY <1>2, <2>3
  <2> QED
    BY <2>1, <2>2, <2>3, <2>4
<1> QED
  BY <1>1, <1>3 DEF Followed

LEMMA FollowedJoin ==
  ASSUME NEW p \in Seq(Messages), NEW q \in Seq(Messages), Followed(p), Followed(q)
  PROVE  Followed(p \o q)
<1>1. PICK s \in Seq(Messages) : s = p \o q
  BY JoinRight
<1>2. PICK l \in Nat : l = Len(p)
  OBVIOUS
<1>3. /\ \A i \in DOMAIN p : i \in DOMAIN s /\ s[i] = p[i] /\ i <= l
      /\ \A i \in DOMAIN q : i + l \in DOMAIN s /\ s[i + l] = q[i]
      /\ \A i \in DOMAIN s : i \in DOMAIN p \/ (i > l /\ i - l \in DOMAIN q)
      /\ \A i \in DOMAIN s : i \in Nat \ {0}
  BY <1>1, <1>2, JoinRight
<1>4. ASSUME NEW i \in DOMAIN s, s[i].type = "Info"
      PROVE  i + 1 \in DOMAIN s /\ s[i + 1].req = s[i].req
  <2>1. CASE i \in DOMAIN p
    <3>1. i + 1 \in DOMAIN p /\ p[i + 1].req = p[i].req
      BY <1>3, <1>4, <2>1 DEF Followed
    <3> QED
      BY <1>3, <2>1, <3>1
  <2>2. CASE i \notin DOMAIN p
    <3>1. PICK j \in DOMAIN q : j = i - l
      BY <1>3, <2>2
    <3>2. j + l = i /\ j \in Nat \ {0}
      BY <1>3, <3>1
    <3>3. s[i] = q[j]
      BY <1>3, <3>2
    <3>4. PICK h \in DOMAIN q : h = j + 1 /\ q[h].req = q[j].req
      BY <1>4, <3>3 DEF Followed
    <3>5. h + l \in DOMAIN s /\ s[h + l] = q[h] /\ h + l = i + 1
      BY <1>3, <3>2, <3>4
    <3> QED
      BY <3>3, <3>4, <3>5
  <2> QED
    BY <2>1, <2>2
<1> QED
  BY <1>1, <1>4 DEF Followed

LEMMA FollowedShort ==
  ASSUME NEW q \in Seq(Messages), \A m \in ToSet(q) : m.type # "Info"
  PROVE  Followed(q)
BY DEF Followed, ToSet

(* A step of the worker that answers the action in hand with new. *)
Work(new) ==
  /\ Takes(new) /\ KeepStore /\ nextUid' = nextUid /\ box' \subseteq box
  /\ \A m \in ToSet(new) : MessageRight(m) /\ OldMessage(m, nextUid) /\ GoneMessage(m, box')
  /\ \A m \in ToSet(new) : m.req = act \/ m.req.kind = "None"
  /\ act.kind \in {"Headers"} \cup Removal => \E m \in ToSet(new) : m.req = act
  /\ act.kind = "Open" => Len(new) = 1
  /\ Followed(new)

LEMMA WorkSets ==
  ASSUME QueuesType, NEW new, Work(new)
  PROVE  /\ ToSet(messages') = ToSet(messages) \cup ToSet(new)
         /\ ToSet(actions') \subseteq ToSet(actions)
         /\ \A a \in ToSet(actions) : a = act \/ a \in ToSet(actions')
         /\ act \in ToSet(actions)
<1>1. messages \in Seq(Messages) /\ new \in Seq(Messages) /\ messages' = messages \o new
  BY DEF QueuesType, Work, Takes
<1>2. PICK n \in Seq(Messages) : n = new
  BY <1>1
<1>3. ToSet(messages \o n) = ToSet(messages) \cup ToSet(n)
  BY <1>1, JoinSet
<1>4. actions # <<>> /\ actions' = Tail(actions)
  BY DEF Work, Takes
<1>5. /\ ToSet(Tail(actions)) \subseteq ToSet(actions) /\ act \in ToSet(actions)
      /\ \A a \in ToSet(actions) : a = act \/ a \in ToSet(Tail(actions))
  BY <1>4, Acting
<1> QED
  BY <1>1, <1>2, <1>3, <1>4, <1>5

LEMMA WorkQueues ==
  ASSUME TypeOK, QueuesRight, NEW new, Work(new)
  PROVE  QueuesRight'
<1>1. QueuesType
  BY TypeParts
<1>2. ToSet(messages') = ToSet(messages) \cup ToSet(new) /\ ToSet(actions') \subseteq ToSet(actions)
  BY <1>1, WorkSets
<1>3. \A m \in ToSet(messages') : MessageRight(m)
  BY <1>2 DEF QueuesRight, Work
<1>4. \A a \in ToSet(actions') : ActionRight(a)
  BY <1>2 DEF QueuesRight
<1>5. new \in Seq(Messages) /\ messages' = messages \o new /\ messages \in Seq(Messages)
  BY <1>1 DEF QueuesType, Work, Takes
<1>6. Followed(messages \o new)
  BY <1>5, FollowedJoin DEF QueuesRight, Work
<1> QED
  BY <1>3, <1>4, <1>5, <1>6 DEF QueuesRight

LEMMA WorkHeaders ==
  ASSUME TypeOK, HeadersRequested, NEW new, Work(new)
  PROVE  HeadersRequested'
<1>1. QueuesType /\ pending' = pending
  BY TypeParts DEF Work, KeepStore
<1>2. /\ ToSet(messages') = ToSet(messages) \cup ToSet(new)
      /\ \A a \in ToSet(actions) : a = act \/ a \in ToSet(actions')
  BY <1>1, WorkSets
<1>3. ASSUME NEW a \in Asked PROVE a \in Asked'
  <2>1. a.kind = "Headers"
    BY DEF Asked
  <2>2. CASE a = act
    <3>1. PICK m \in ToSet(new) : m.req = act
      BY <2>1, <2>2 DEF Work
    <3> QED
      BY <1>2, <2>1, <2>2, <3>1 DEF Asked
  <2>3. CASE a # act
    BY <1>2, <2>1, <2>3 DEF Asked
  <2> QED
    BY <2>2, <2>3
<1> QED
  BY <1>1, <1>3 DEF HeadersRequested

LEMMA WorkMarks ==
  ASSUME TypeOK, MarkRight, NEW new, Work(new)
  PROVE  MarkRight'
<1>1. QueuesType /\ deleted' = deleted /\ box' \subseteq box
  BY TypeParts DEF Work, KeepStore
<1>2. /\ ToSet(messages') = ToSet(messages) \cup ToSet(new)
      /\ \A a \in ToSet(actions) : a = act \/ a \in ToSet(actions')
  BY <1>1, WorkSets
<1>3. ASSUME NEW u, Removing(u) PROVE Removing(u)'
  <2>1. CASE \E m \in ToSet(messages) : m.req.kind \in Removal /\ u \in m.req.uids
    BY <1>2, <2>1 DEF Removing
  <2>2. ASSUME NEW a \in ToSet(actions), a.kind \in Removal, u \in a.uids PROVE Removing(u)'
    <3>1. CASE a = act
      <4>1. PICK m \in ToSet(new) : m.req = act
        BY <2>2, <3>1 DEF Work
      <4> QED
        BY <1>2, <2>2, <3>1, <4>1 DEF Removing
    <3>2. CASE a # act
      BY <1>2, <2>2, <3>2 DEF Removing
    <3> QED
      BY <3>1, <3>2
  <2> QED
    BY <1>3, <2>1, <2>2 DEF Removing
<1> QED
  BY <1>1, <1>3 DEF MarkRight

LEMMA WorkGone ==
  ASSUME TypeOK, GoneRight, NEW new, Work(new)
  PROVE  \A m \in ToSet(messages') : GoneMessage(m, box')
<1>1. QueuesType /\ box' \subseteq box
  BY TypeParts DEF Work
<1>2. ToSet(messages') = ToSet(messages) \cup ToSet(new)
  BY <1>1, WorkSets
<1>3. \A m \in ToSet(messages) : GoneMessage(m, box) => GoneMessage(m, box')
  BY <1>1 DEF GoneMessage
<1> QED
  BY <1>2, <1>3 DEF GoneRight, Work

LEMMA WorkOld ==
  ASSUME TypeOK, OldRight, NEW new, Work(new),
         status'.next <= nextUid, \A t \in ToSet(updates') : t.uid < nextUid
  PROVE  OldRight'
<1>1. QueuesType /\ UNCHANGED <<known, deleted>> /\ nextUid' = nextUid /\ box' \subseteq box
  BY TypeParts DEF Work, KeepStore
<1>2. ToSet(messages') = ToSet(messages) \cup ToSet(new) /\ ToSet(actions') \subseteq ToSet(actions)
  BY <1>1, WorkSets
<1>3. \A m \in ToSet(messages') : OldMessage(m, nextUid)
  BY <1>2 DEF OldRight, Work
<1>4. \A a \in ToSet(actions') : OldAction(a, nextUid)
  BY <1>2 DEF OldRight
<1>5. \A u \in box' \cup DOMAIN known' \cup deleted' : u < nextUid
  BY <1>1 DEF OldRight
<1> QED
  BY <1>1, <1>3, <1>4, <1>5 DEF OldRight

(* Openings stay in order: the answer takes the place of the action.       *)
LEMMA WorkOpens ==
  ASSUME TypeOK, OpensRight, NEW new, Work(new)
  PROVE  OpensRight'
<1>1. QueuesType /\ fresh' = fresh
  BY TypeParts DEF Work, KeepStore
<1>2. /\ ToSet(messages') = ToSet(messages) \cup ToSet(new) /\ ToSet(actions') \subseteq ToSet(actions)
      /\ act \in ToSet(actions)
  BY <1>1, WorkSets
<1>3. /\ messages \in Seq(Messages) /\ new \in Seq(Messages) /\ messages' = messages \o new
      /\ actions \in Seq(Actions) /\ actions # <<>> /\ actions' = Tail(actions) /\ act = Head(actions)
  BY <1>1 DEF QueuesType, Work, Takes, act
<1>4. \A m \in ToSet(new) : m.req.kind = "Open" => m.req = act
  BY DEF Work
<1>5. fresh' => \A m \in ToSet(messages') : m.req.kind # "Open"
  BY <1>1, <1>2, <1>4 DEF OpensRight
<1>6. fresh' => \A a \in ToSet(actions') : a.kind # "Open"
  BY <1>1, <1>2 DEF OpensRight
<1>7. /\ act = actions[1] /\ 1 \in DOMAIN actions
      /\ \A i \in DOMAIN actions' : i + 1 \in DOMAIN actions /\ actions'[i] = actions[i + 1]
  BY <1>3, TailRight
<1>8. \A i \in DOMAIN actions' : i \in Nat \ {0}
  <2>1. actions' \in Seq(Actions)
    BY <1>3, TailRight
  <2> QED
    BY <2>1
<1>9. ASSUME NEW i \in DOMAIN actions', NEW j \in DOMAIN actions', i < j,
             actions'[i].kind = "Open", actions'[j].kind = "Open"
      PROVE  actions'[i].stale
  <2>1. i + 1 \in DOMAIN actions /\ j + 1 \in DOMAIN actions /\ i + 1 < j + 1
    BY <1>7, <1>8, <1>9
  <2> QED
    BY <1>7, <1>9, <2>1 DEF OpensRight
<1>10. ASSUME NEW a \in ToSet(actions'), a.kind = "Open", act.kind = "Open"
       PROVE  act.stale
  <2>1. PICK i \in DOMAIN actions' : a = actions'[i]
    BY DEF ToSet
  <2>2. i + 1 \in DOMAIN actions /\ a = actions[i + 1] /\ 1 < i + 1
    BY <1>7, <1>8, <2>1
  <2> QED
    BY <1>7, <1>10, <2>2 DEF OpensRight
<1>11. ASSUME NEW m \in ToSet(messages'), NEW a \in ToSet(actions'), m.req.kind = "Open", a.kind = "Open"
       PROVE  m.req.stale
  <2>1. CASE m \in ToSet(messages)
    BY <1>2, <1>11, <2>1 DEF OpensRight
  <2>2. CASE m \in ToSet(new)
    BY <1>4, <1>10, <1>11, <2>2
  <2> QED
    BY <1>2, <2>1, <2>2
<1>12. PICK ms \in Seq(Messages) : ms = messages' /\ ms = messages \o new
  BY <1>3, JoinRight
<1>a. messages \in Seq(Messages) /\ new \in Seq(Messages)
  BY <1>3
<1>b. ms = messages \o new
  BY <1>12
<1>13. PICK l \in Nat : l = Len(messages)
  BY <1>a
<1>14. /\ \A i \in DOMAIN messages : i \in DOMAIN ms /\ ms[i] = messages[i] /\ i <= l
       /\ \A i \in DOMAIN new : i + l \in DOMAIN ms /\ ms[i + l] = new[i]
       /\ \A i \in DOMAIN ms : i \in DOMAIN messages \/ (i > l /\ i - l \in DOMAIN new)
       /\ \A i \in DOMAIN ms : i \in Nat \ {0}
       /\ \A i \in DOMAIN new : i \in Nat
  BY <1>a, <1>b, <1>13, JoinRight
<1>15. ASSUME NEW i \in DOMAIN ms, i \notin DOMAIN messages, ms[i].req.kind = "Open"
       PROVE  ms[i].req = act /\ act.kind = "Open" /\ i = l + 1
  <2>1. PICK n \in DOMAIN new : n = i - l
    BY <1>14, <1>15
  <2>2. n + l = i /\ ms[i] = new[n] /\ n \in Nat
    BY <1>14, <2>1
  <2>3. new[n] \in ToSet(new)
    BY DEF ToSet
  <2>4. ms[i].req = act /\ act.kind = "Open"
    BY <1>4, <1>15, <2>2, <2>3
  <2>5. Len(new) = 1
    BY <2>4 DEF Work
  <2>6. n = 1
    BY <1>3, <2>5
  <2> QED
    BY <2>2, <2>4, <2>6
<1>16. ASSUME NEW i \in DOMAIN ms, NEW j \in DOMAIN ms, i < j,
              ms[i].req.kind = "Open", ms[j].req.kind = "Open"
       PROVE  ms[i].req.stale
  <2>1. CASE i \in DOMAIN messages /\ j \in DOMAIN messages
    BY <1>14, <1>16, <2>1 DEF OpensRight
  <2>2. CASE i \in DOMAIN messages /\ j \notin DOMAIN messages
    <3>1. act.kind = "Open"
      BY <1>15, <1>16, <2>2
    <3>2. ms[i] = messages[i] /\ messages[i] \in ToSet(messages)
      BY <1>14, <2>2 DEF ToSet
    <3> QED
      BY <1>2, <1>16, <3>1, <3>2 DEF OpensRight
  <2>3. CASE i \notin DOMAIN messages
    <3>1. i = l + 1 /\ j > l
      BY <1>14, <1>15, <1>16, <2>3
    <3>2. j \notin DOMAIN messages
      BY <1>14, <1>16, <3>1
    <3>3. j = l + 1
      BY <1>15, <1>16, <3>2
    <3> QED
      BY <1>14, <1>16, <3>1, <3>3
  <2> QED
    BY <2>1, <2>2, <2>3
<1> QED
  BY <1>5, <1>6, <1>9, <1>11, <1>12, <1>16 DEF OpensRight

(* Every row that is covered stays so when the worker's step covers what   *)
(* it takes away and what it brings.                                       *)
Covers(new) ==
  /\ \A u \in UIDs : WorkerDrops(u) => WorkerDrops(u)' \/ LaterList(new, 0) \/ LaterGone(new, u, 0)
  /\ \A k \in DOMAIN new : new[k].type \in {"Contents", "Flags"} =>
       \A u \in ToSet(new[k].uids) : WorkerDrops(u)' \/ LaterList(new, k) \/ LaterGone(new, u, k)
  /\ \A u \in box' : IF u \in box THEN WorkerAdds(u) => WorkerAdds(u)' \/ LaterList(new, 0)
                                  ELSE WorkerAdds(u)'
  /\ \A k \in DOMAIN new : new[k].type = "Contents" =>
       \A u \in box' : u \in ToSet(new[k].uids) \/ WorkerAdds(u)' \/ LaterList(new, k)

LEMMA CoversRight ==
  ASSUME TypeOK, ListCovered, UNCHANGED <<uids, kept, fresh>>, NEW new \in Seq(Messages),
         messages' = messages \o new, Covers(new)
  PROVE  ListCovered'
<1>1. QueuesType /\ uids \in Seq(UIDs)
  BY TypeParts DEF StoreType
<1>2. messages \in Seq(Messages)
  BY <1>1 DEF QueuesType
<1>3. PICK ms \in Seq(Messages) : ms = messages'
  BY <1>2, JoinRight
<1>4. PICK l \in Nat : l = Len(messages)
  BY <1>2
<1>5. /\ \A i \in DOMAIN messages : i \in DOMAIN ms /\ ms[i] = messages[i] /\ i <= l /\ i \in Nat
      /\ \A i \in DOMAIN new : i + l \in DOMAIN ms /\ ms[i + l] = new[i] /\ i \in Nat \ {0}
      /\ \A i \in DOMAIN ms : i \in DOMAIN messages \/ (i > l /\ i - l \in DOMAIN new)
      /\ \A i \in DOMAIN ms : i \in Nat \ {0}
  BY <1>2, <1>3, <1>4, JoinRight
<1>6. ASSUME NEW k \in 0..l
      PROVE  /\ LaterList(messages, k) \/ LaterList(new, 0) => LaterList(ms, k)
             /\ \A u : LaterGone(messages, u, k) \/ LaterGone(new, u, 0) => LaterGone(ms, u, k)
  <2>1. \A j \in DOMAIN new : j + l > k
    BY <1>5
  <2> QED
    BY <1>5, <2>1 DEF LaterList, LaterGone
<1>7. ASSUME NEW k \in DOMAIN new
      PROVE  /\ LaterList(new, k) => LaterList(ms, k + l)
             /\ \A u : LaterGone(new, u, k) => LaterGone(ms, u, k + l)
  <2>1. \A j \in DOMAIN new : j > k => j + l > k + l
    BY <1>5
  <2> QED
    BY <1>5, <2>1 DEF LaterList, LaterGone
<1>8. ASSUME NEW k \in 0..l, NEW u \in UIDs, Dropped(u, k)
      PROVE  Dropped(u, k)'
  <2>1. WorkerDrops(u) => WorkerDrops(u)' \/ LaterList(new, 0) \/ LaterGone(new, u, 0)
    BY DEF Covers
  <2> QED
    BY <1>3, <1>6, <1>8, <2>1 DEF Dropped
<1>9. ASSUME NEW k \in 0..l, NEW u \in box', u \in box, Added(u, k)
      PROVE  Added(u, k)'
  <2>1. WorkerAdds(u) => WorkerAdds(u)' \/ LaterList(new, 0)
    BY <1>9 DEF Covers
  <2> QED
    BY <1>3, <1>6, <1>9, <2>1 DEF Added
<1>10. ASSUME NEW k, NEW u \in box', u \notin box PROVE Added(u, k)'
  BY <1>10 DEF Covers, Added
<1>11. ASSUME NEW i \in DOMAIN ms, i \notin DOMAIN messages
       PROVE  \E k \in DOMAIN new : i = k + l /\ ms[i] = new[k]
  <2>1. PICK k \in DOMAIN new : k = i - l
    BY <1>5, <1>11
  <2>2. k + l = i
    BY <1>5, <2>1
  <2> QED
    BY <1>5, <2>2
<1>12. \A i \in DOMAIN ms : ms[i].uids \in Seq(UIDs) /\ ToSet(ms[i].uids) \subseteq UIDs
  <2> TAKE i \in DOMAIN ms
  <2>1. PICK m \in Messages : m = ms[i]
    OBVIOUS
  <2>2. m.uids \in Seq(UIDs)
    BY FieldTypes
  <2> QED
    BY <2>1, <2>2 DEF ToSet
<1>13. ASSUME fresh, NEW i \in DOMAIN ms, ms[i].type \in {"Contents", "Flags"}, NEW u \in ToSet(ms[i].uids)
       PROVE  Dropped(u, i)'
  <2>0. u \in UIDs
    BY <1>12
  <2>1. CASE i \in DOMAIN messages
    <3>1. i \in 0..l /\ ms[i] = messages[i]
      BY <1>5, <2>1
    <3>2. Dropped(u, i)
      BY <1>13, <2>1, <3>1 DEF ListCovered, RowsCovered
    <3> QED
      BY <1>8, <2>0, <3>1, <3>2
  <2>2. CASE i \notin DOMAIN messages
    <3>1. PICK k \in DOMAIN new : i = k + l /\ ms[i] = new[k]
      BY <1>11, <2>2
    <3>2. WorkerDrops(u)' \/ LaterList(new, k) \/ LaterGone(new, u, k)
      BY <1>13, <3>1 DEF Covers
    <3> QED
      BY <1>3, <1>7, <3>1, <3>2 DEF Dropped
  <2> QED
    BY <2>1, <2>2
<1>14. ASSUME fresh, NEW i \in DOMAIN ms, ms[i].type = "Contents", NEW u \in box'
       PROVE  u \in ToSet(ms[i].uids) \/ Added(u, i)'
  <2>1. CASE i \in DOMAIN messages
    <3>1. i \in 0..l /\ ms[i] = messages[i]
      BY <1>5, <2>1
    <3>2. CASE u \in box
      <4>1. u \in ToSet(messages[i].uids) \/ Added(u, i)
        BY <1>14, <2>1, <3>1, <3>2 DEF ListCovered, BoxCovered
      <4> QED
        BY <1>9, <3>1, <3>2, <4>1
    <3> QED
      BY <1>10, <3>2
  <2>2. CASE i \notin DOMAIN messages
    <3>1. PICK k \in DOMAIN new : i = k + l /\ ms[i] = new[k]
      BY <1>11, <2>2
    <3>2. u \in ToSet(new[k].uids) \/ WorkerAdds(u)' \/ LaterList(new, k)
      BY <1>14, <3>1 DEF Covers
    <3> QED
      BY <1>3, <1>7, <3>1, <3>2 DEF Added
  <2> QED
    BY <2>1, <2>2
<1>15. ToSet(uids) \subseteq UIDs /\ 0 \in 0..l
  BY <1>1 DEF ToSet
<1>16. fresh => \A u \in ToSet(uids) : Dropped(u, 0)'
  BY <1>8, <1>15 DEF ListCovered, RowsCovered
<1>17. fresh => \A u \in box' : u \in ToSet(uids) \/ Added(u, 0)'
  BY <1>9, <1>10, <1>15 DEF ListCovered, BoxCovered
<1> QED
  BY <1>3, <1>13, <1>14, <1>16, <1>17 DEF ListCovered, RowsCovered, BoxCovered

-----------------------------------------------------------------------------
(* A command that removes messages *)

Removes(ok, j, k) ==
  /\ actions # <<>> /\ act.kind \in Removal /\ actions' = Tail(actions)
  /\ expunger' = act.kind /\ taken' = taken \cup act.uids
  /\ KeepStore /\ UNCHANGED <<nextUid, status, hold>> /\ faults' \in Nat
  /\ ok \in BOOLEAN /\ k \in 0..Len(AllUpdates(ok)) /\ j \in 0..k /\ Drains(ok, j, k)

LEMMA RemovesRight ==
  ASSUME TypeOK, RemoveMessages PROVE \E ok, j, k : Removes(ok, j, k)
BY RemoveParts DEF Removes

(* All updates, with what is known of each. *)
LEMMA AllRight ==
  ASSUME TypeOK, OldRight, GoneRight, FlagsCovered, NEW ok, NEW j, NEW k, Removes(ok, j, k)
  PROVE  LET all == AllUpdates(ok)
         IN /\ all \in Seq(Updates) /\ k \in 0..Len(all) /\ box' \subseteq box
            /\ \A i \in DOMAIN all : all[i].type = "expunge" => all[i].uid \notin box'
            /\ \A i \in DOMAIN all : all[i].uid < nextUid
            /\ \A i \in DOMAIN all : all[i].type # "expunge" => i \in DOMAIN updates
            /\ \A i \in DOMAIN updates : i \in DOMAIN all /\ all[i] = updates[i]
            /\ \A u \in box : u \in box' \/ (ok /\ u \in act.uids)
            /\ act.kind = "Move" => \A u \in box \ box', h \in DOMAIN updates \cup {0} :
                 \E i \in DOMAIN all : i > h /\ i \in Nat /\ all[i].type = "expunge" /\ all[i].uid = u
            /\ \A i \in DOMAIN all : all[i].type = "flags" =>
                 \/ all[i].uid \in box \cup taken
                 \/ \E h \in DOMAIN all : h > i /\ all[h].type = "expunge" /\ all[h].uid = all[i].uid
<1>1. actions # <<>> /\ act.kind \in Removal /\ ok \in BOOLEAN /\ k \in 0..Len(AllUpdates(ok)) /\ Drains(ok, j, k)
  BY DEF Removes
<1>2. PICK all \in Seq(Updates) : all = AllUpdates(ok)
  BY <1>1, DrainTypes
<1>3. PICK gone : gone = Gone(ok)
  OBVIOUS
<1>4. /\ gone \subseteq act.uids \cap box
      /\ \A i \in DOMAIN updates : i \in DOMAIN all /\ all[i] = updates[i]
      /\ \A i \in DOMAIN all : i \in DOMAIN updates \/
           /\ i > Len(updates) /\ all[i].type = "expunge" /\ all[i].uid \in gone
      /\ act.kind = "Move" => \A u \in gone : \E i \in DOMAIN all :
           i > Len(updates) /\ all[i].type = "expunge" /\ all[i].uid = u
  BY <1>1, <1>2, <1>3, DrainTypes
<1>5. box' = box \ gone /\ (ok => gone = act.uids \cap box) /\ (~ok => gone = {})
  BY <1>1, <1>3 DEF Drains, Gone
<1>6. updates \in Seq(Updates) /\ QueuesType
  BY TypeParts DEF WorkerType
<1>7. \A i \in DOMAIN updates : updates[i] \in ToSet(updates)
  BY DEF ToSet
<1>8. ASSUME NEW i \in DOMAIN all
      PROVE  /\ all[i].type = "expunge" => all[i].uid \notin box'
             /\ all[i].uid < nextUid
             /\ all[i].type # "expunge" => i \in DOMAIN updates
  <2>1. CASE i \in DOMAIN updates
    <3>1. all[i] = updates[i] /\ updates[i] \in ToSet(updates)
      BY <1>4, <1>7, <2>1
    <3> QED
      BY <1>5, <2>1, <3>1 DEF OldRight, GoneRight
  <2>2. CASE i \notin DOMAIN updates
    BY <1>4, <1>5, <2>2 DEF OldRight
  <2> QED
    BY <2>1, <2>2
<1>9. ASSUME act.kind = "Move", NEW u \in box \ box', NEW h \in DOMAIN updates \cup {0}
      PROVE  \E i \in DOMAIN all : i > h /\ i \in Nat /\ all[i].type = "expunge" /\ all[i].uid = u
  <2>1. PICK i \in DOMAIN all : i > Len(updates) /\ all[i].type = "expunge" /\ all[i].uid = u
    BY <1>4, <1>5, <1>9
  <2>2. i \in Nat /\ h <= Len(updates) /\ h \in Nat
    BY <1>2, <1>6
  <2>3. i > h
    BY <1>6, <2>1, <2>2
  <2> QED
    BY <2>1, <2>2, <2>3
<1>10. ASSUME NEW i \in DOMAIN all, all[i].type = "flags"
       PROVE  \/ all[i].uid \in box \cup taken
              \/ \E h \in DOMAIN all : h > i /\ all[h].type = "expunge" /\ all[h].uid = all[i].uid
  <2>1. i \in DOMAIN updates /\ all[i] = updates[i]
    BY <1>4, <1>8, <1>10
  <2>2. \/ updates[i].uid \in box \cup taken
        \/ \E h \in DOMAIN updates : h > i /\ updates[h].type = "expunge" /\ updates[h].uid = updates[i].uid
    BY <1>10, <2>1 DEF FlagsCovered, FlagsRight
  <2> QED
    BY <1>4, <2>1, <2>2
<1>11. \A u \in box : u \in box' \/ (ok /\ u \in act.uids)
  BY <1>1, <1>5
<1>12. k \in 0..Len(all) /\ box' \subseteq box
  BY <1>1, <1>2, <1>5
<1> QED
  BY <1>2, <1>4, <1>8, <1>9, <1>10, <1>11, <1>12

(* The updates that are left. *)
LEMMA RemovesUpdates ==
  ASSUME TypeOK, OldRight, GoneRight, FlagsCovered, NEW ok, NEW j, NEW k, Removes(ok, j, k)
  PROVE  /\ updates' \in Seq(Updates) /\ FlagsCovered'
         /\ status'.next <= nextUid
         /\ \A t \in ToSet(updates') : t.uid < nextUid /\ (t.type = "expunge" => t.uid \notin box')
         /\ \A i \in DOMAIN AllUpdates(ok) : i > k => AllUpdates(ok)[i] \in ToSet(updates')
<1>1. PICK all \in Seq(Updates) : all = AllUpdates(ok)
  BY AllRight
<1>2. /\ k \in 0..Len(all)
      /\ \A i \in DOMAIN all : all[i].type = "expunge" => all[i].uid \notin box'
      /\ \A i \in DOMAIN all : all[i].uid < nextUid
      /\ \A u \in box : u \in box' \/ (ok /\ u \in act.uids)
      /\ \A i \in DOMAIN all : all[i].type = "flags" =>
           \/ all[i].uid \in box \cup taken
           \/ \E h \in DOMAIN all : h > i /\ all[h].type = "expunge" /\ all[h].uid = all[i].uid
  BY <1>1, AllRight
<1>3. updates' = SubSeq(all, k + 1, Len(all)) /\ taken' = taken \cup act.uids
  BY <1>1 DEF Removes, Drains
<1>4. PICK s \in Seq(Updates) : s = SubSeq(all, k + 1, Len(all))
  BY <1>2, SuffixRight
<1>5. /\ \A i \in DOMAIN s : i + k \in DOMAIN all /\ s[i] = all[i + k]
      /\ \A i \in DOMAIN all : i > k => i - k \in DOMAIN s /\ s[i - k] = all[i]
  BY <1>2, <1>4, SuffixRight
<1>6. /\ \A i \in DOMAIN s : i \in Nat
      /\ \A i \in DOMAIN all : i \in Nat
      /\ k \in Nat
  BY <1>2
<1>7. ASSUME NEW i \in DOMAIN s, s[i].type = "flags"
      PROVE  \/ s[i].uid \in box' \cup taken'
             \/ \E h \in DOMAIN s : h > i /\ s[h].type = "expunge" /\ s[h].uid = s[i].uid
  <2>1. PICK i0 \in DOMAIN all : i0 = i + k /\ s[i] = all[i0]
    BY <1>5
  <2>2. CASE all[i0].uid \in box \cup taken
    BY <1>2, <1>3, <2>1, <2>2
  <2>3. ASSUME NEW h \in DOMAIN all, h > i0, all[h].type = "expunge", all[h].uid = all[i0].uid
        PROVE  \E h0 \in DOMAIN s : h0 > i /\ s[h0].type = "expunge" /\ s[h0].uid = s[i].uid
    <3>1. h > k /\ h - k > i
      BY <1>6, <2>1, <2>3
    <3>2. h - k \in DOMAIN s /\ s[h - k] = all[h]
      BY <1>5, <3>1
    <3> QED
      BY <2>1, <2>3, <3>1, <3>2
  <2> QED
    BY <1>2, <1>7, <2>1, <2>2, <2>3
<1>8. ASSUME NEW t \in ToSet(s)
      PROVE  t.uid < nextUid /\ (t.type = "expunge" => t.uid \notin box')
  <2>1. PICK i \in DOMAIN s : t = s[i]
    BY DEF ToSet
  <2>2. PICK i0 \in DOMAIN all : s[i] = all[i0]
    BY <1>5
  <2> QED
    BY <1>2, <2>1, <2>2
<1>9. ASSUME NEW i \in DOMAIN all, i > k PROVE all[i] \in ToSet(s)
  BY <1>5, <1>9 DEF ToSet
<1>10. status'.next <= nextUid
  BY DEF Removes, OldRight
<1> QED
  BY <1>1, <1>3, <1>4, <1>7, <1>8, <1>9, <1>10 DEF FlagsCovered, FlagsRight

(* What the worker tells of is true. *)
LEMMA RemovesWork ==
  ASSUME TypeOK, QueuesRight, OldRight, GoneRight, FlagsCovered,
         NEW ok, NEW j, NEW k, Removes(ok, j, k),
         NEW new \in Seq(Messages), new = Outcome(ok, j, k)
  PROVE  Work(new)
<1>1. /\ actions # <<>> /\ act.kind \in Removal /\ actions' = Tail(actions)
      /\ KeepStore /\ nextUid' = nextUid
      /\ ok \in BOOLEAN /\ k \in 0..Len(AllUpdates(ok)) /\ j \in 0..k /\ Drains(ok, j, k)
  BY DEF Removes
<1>2. PICK all \in Seq(Updates) : all = AllUpdates(ok)
  BY AllRight
<1>3. /\ box' \subseteq box
      /\ \A i \in DOMAIN all : all[i].type = "expunge" => all[i].uid \notin box'
      /\ \A i \in DOMAIN all : all[i].uid < nextUid
  BY <1>2, AllRight
<1>4. PICK told : told = Told(ok, j, k)
  OBVIOUS
<1>5. /\ told \subseteq DOMAIN all
      /\ \A i \in told : i \in Nat /\ all[i].type \in {"flags", "expunge"}
  BY <1>1, <1>2, <1>4, ToldRight
<1>6. PICK d \in Seq(Messages) : d = Deletion(ok)
  BY <1>1, DrainTypes
<1>7. PICK a \in Messages : a = Answered(ok)
  BY <1>1, DrainTypes
<1>8. /\ \A m \in ToSet(d) : m.type = "Deleted" /\ m.req.kind = "None" /\ ToSet(m.uids) = act.uids /\ ok
      /\ a.type = (IF ok THEN "Done" ELSE "Error") /\ a.req = act /\ a.uids = <<>>
  BY <1>1, <1>6, <1>7, DrainTypes
<1>9. new = NewsOf(all, told) \o (d \o <<a>>)
  BY <1>2, <1>4, <1>6, <1>7 DEF Outcome
<1>b. \A i \in told : i \in Nat
  BY <1>5
<1>c. told \subseteq DOMAIN all
  BY <1>5
<1>d. PICK q \in Seq(Messages) : q = NewsOf(all, told) \o (d \o <<a>>) /\ Ordered(q, all, told, d, a)
  BY <1>b, <1>c, OutcomeOrder, Zenon
<1>10. /\ a \in ToSet(q) /\ ToSet(d) \subseteq ToSet(q)
       /\ \A i \in told : \E n \in DOMAIN q : q[n] = News(all[i])
       /\ \A n \in DOMAIN q :
            \/ q[n] = a \/ q[n] \in ToSet(d)
            \/ \E i \in told :
                 /\ q[n] = News(all[i])
                 /\ \A h \in told : h > i => \E m \in DOMAIN q : m > n /\ q[m] = News(all[h])
                 /\ \A x \in ToSet(d) : \E m \in DOMAIN q : m > n /\ q[m] = x
  BY <1>d, Zenon DEF Ordered
<1>11. q = new
  BY <1>9, <1>d
<1>12. box' = box \ Gone(ok)
  BY <1>1 DEF Drains
<1>13. ok => act.uids \cap box' = {}
  BY <1>12 DEF Gone
<1>14. act \in ToSet(actions) /\ QueuesType
  BY <1>1, TypeParts, Acting
<1>15. \A u \in act.uids : u < nextUid
  BY <1>1, <1>14 DEF OldRight, OldAction
<1>16. ToSet(<<>>) = {}
  BY ShortSets
<1>17. ASSUME NEW m \in ToSet(q)
       PROVE  /\ MessageRight(m) /\ OldMessage(m, nextUid) /\ GoneMessage(m, box')
              /\ (m.req = act \/ m.req.kind = "None") /\ m.type # "Info"
  <2>1. PICK n \in DOMAIN q : m = q[n]
    BY DEF ToSet
  <2>2. CASE m = a
    <3>1. m.type = (IF ok THEN "Done" ELSE "Error") /\ m.req = act /\ m.uids = <<>>
      BY <1>8, <2>2
    <3>2. MessageRight(m) /\ m.type # "Info"
      BY <3>1 DEF MessageRight, ByItself
    <3>3. OldMessage(m, nextUid)
      BY <1>15, <1>16, <3>1 DEF OldMessage, OldAction
    <3>4. GoneMessage(m, box')
      BY <1>13, <3>1 DEF GoneMessage
    <3> QED
      BY <3>1, <3>2, <3>3, <3>4
  <2>3. CASE m \in ToSet(d)
    <3>1. m.type = "Deleted" /\ m.req.kind = "None" /\ ToSet(m.uids) = act.uids /\ ok
      BY <1>8, <2>3
    <3>2. MessageRight(m)
      BY <3>1 DEF MessageRight, ByItself
    <3>3. OldMessage(m, nextUid)
      BY <1>15, <3>1 DEF OldMessage, OldAction, Removal
    <3>4. GoneMessage(m, box')
      BY <1>13, <3>1 DEF GoneMessage
    <3> QED
      BY <3>1, <3>2, <3>3, <3>4
  <2>4. ASSUME NEW i \in told, m = News(all[i])
        PROVE  /\ MessageRight(m) /\ OldMessage(m, nextUid) /\ GoneMessage(m, box')
               /\ (m.req = act \/ m.req.kind = "None") /\ m.type # "Info"
    <3>1. PICK t \in Updates : t = all[i] /\ t.type \in {"flags", "expunge"}
      BY <1>5
    <3>2. /\ m.type = (IF t.type = "flags" THEN "Flags" ELSE "Deleted")
          /\ m.req.kind = "None" /\ m.uids = <<t.uid>>
          /\ ToSet(<<t.uid>>) = {t.uid} /\ Len(<<t.uid>>) = 1
      BY <2>4, <3>1, NewsRight
    <3>3. t.uid < nextUid /\ (t.type = "expunge" => t.uid \notin box')
      BY <1>3, <1>5, <3>1
    <3>4. MessageRight(m) /\ m.type # "Info"
      BY <3>2 DEF MessageRight, ByItself
    <3>5. OldMessage(m, nextUid)
      BY <3>2, <3>3 DEF OldMessage, OldAction, Removal
    <3>6. GoneMessage(m, box')
      BY <3>1, <3>2, <3>3 DEF GoneMessage
    <3> QED
      BY <3>2, <3>4, <3>5, <3>6
  <2> QED
    BY <1>10, <2>1, <2>2, <2>3, <2>4
<1>18. Followed(q)
  BY <1>17, FollowedShort
<1>19. messages' = messages \o q
  BY <1>1, <1>11 DEF Drains
<1>20. Takes(q)
  BY <1>1, <1>19 DEF Takes
<1>21. \E m \in ToSet(q) : m.req = act
  BY <1>8, <1>10
<1>22. act.kind # "Open"
  BY <1>1 DEF Removal
<1> QED
  BY <1>1, <1>3, <1>11, <1>17, <1>18, <1>20, <1>21, <1>22 DEF Work

(* The row of a message that goes is dropped by what the worker tells of   *)
(* or by the updates that are left, and flags come before the expunge.     *)
LEMMA RemovesCover ==
  ASSUME TypeOK, QueuesRight, OldRight, GoneRight, FlagsCovered,
         NEW ok, NEW j, NEW k, Removes(ok, j, k),
         NEW new \in Seq(Messages), new = Outcome(ok, j, k)
  PROVE  Covers(new)
<1>1. /\ actions # <<>> /\ act.kind \in Removal /\ actions' = Tail(actions) /\ status' = status
      /\ ok \in BOOLEAN /\ k \in 0..Len(AllUpdates(ok)) /\ j \in 0..k /\ Drains(ok, j, k)
  BY DEF Removes
<1>2. PICK all \in Seq(Updates) : all = AllUpdates(ok)
  BY AllRight
<1>3. /\ k \in 0..Len(all) /\ box' \subseteq box
      /\ \A i \in DOMAIN all : all[i].type # "expunge" => i \in DOMAIN updates
      /\ \A i \in DOMAIN updates : i \in DOMAIN all /\ all[i] = updates[i]
      /\ \A u \in box : u \in box' \/ (ok /\ u \in act.uids)
  BY <1>2, AllRight
<1>a. /\ act.kind = "Move" => \A u \in box \ box', h \in DOMAIN updates \cup {0} :
           \E i \in DOMAIN all : i > h /\ i \in Nat /\ all[i].type = "expunge" /\ all[i].uid = u
      /\ \A i \in DOMAIN all : all[i].type = "flags" =>
           \/ all[i].uid \in box \cup taken
           \/ \E h \in DOMAIN all : h > i /\ all[h].type = "expunge" /\ all[h].uid = all[i].uid
  BY <1>2, AllRight, SMTT(30)
<1>4. PICK told : told = Told(ok, j, k)
  OBVIOUS
<1>5. /\ told \subseteq DOMAIN all
      /\ \A i \in told : i \in Nat /\ all[i].type \in {"flags", "expunge"}
           /\ (all[i].type = "flags" => all[i].uid \notin taken)
      /\ \A i \in DOMAIN all : i <= k =>
           /\ all[i].type = "expunge" => i \in told \/ unseen'
           /\ all[i].type = "exists" => unseen'
  BY <1>1, <1>2, <1>4, ToldRight
<1>6. PICK d \in Seq(Messages) : d = Deletion(ok)
  BY <1>1, DrainTypes
<1>7. PICK a \in Messages : a = Answered(ok)
  BY <1>1, DrainTypes
<1>8. /\ \A m \in ToSet(d) : m.type = "Deleted"
      /\ ok /\ act.kind = "Delete" => \E m \in ToSet(d) : m.type = "Deleted" /\ ToSet(m.uids) = act.uids
      /\ a.type = (IF ok THEN "Done" ELSE "Error")
  BY <1>1, <1>6, <1>7, DrainTypes
<1>9. new = NewsOf(all, told) \o (d \o <<a>>)
  BY <1>2, <1>4, <1>6, <1>7 DEF Outcome
<1>b. \A i \in told : i \in Nat
  BY <1>5
<1>c. told \subseteq DOMAIN all
  BY <1>5
<1>d. PICK q \in Seq(Messages) : q = NewsOf(all, told) \o (d \o <<a>>) /\ Ordered(q, all, told, d, a)
  BY <1>b, <1>c, OutcomeOrder, Zenon
<1>10. /\ a \in ToSet(q) /\ ToSet(d) \subseteq ToSet(q)
       /\ \A i \in told : \E n \in DOMAIN q : q[n] = News(all[i])
       /\ \A n \in DOMAIN q :
            \/ q[n] = a \/ q[n] \in ToSet(d)
            \/ \E i \in told :
                 /\ q[n] = News(all[i])
                 /\ \A h \in told : h > i => \E m \in DOMAIN q : m > n /\ q[m] = News(all[h])
                 /\ \A x \in ToSet(d) : \E m \in DOMAIN q : m > n /\ q[m] = x
  BY <1>d, Zenon DEF Ordered
<1>11. q = new
  BY <1>9, <1>d
<1>12. /\ \A i \in DOMAIN all : i \in Nat /\ (i > k => all[i] \in ToSet(updates'))
       /\ k \in Nat /\ \A n \in DOMAIN q : n > 0
  BY <1>2, <1>3, RemovesUpdates
<1>13. \A i \in told : /\ News(all[i]).type = (IF all[i].type = "flags" THEN "Flags" ELSE "Deleted")
                       /\ ToSet(News(all[i]).uids) = {all[i].uid}
  <2> TAKE i \in told
  <2>1. PICK t \in Updates : t = all[i]
    BY <1>5
  <2> QED
    BY <2>1, NewsRight
<1>14. QueuesType /\ updates \in Seq(Updates)
  BY TypeParts DEF WorkerType
<1>15. \A x \in ToSet(actions) : x = act \/ x \in ToSet(actions')
  BY <1>1, <1>14, Acting
<1>16. Sorting => Sorting'
  BY <1>1, <1>15 DEF Sorting, Removal
<1>17. unseen => unseen'
  BY <1>1 DEF Drains
<1>18. ASSUME NEW i \in DOMAIN all, all[i].type = "expunge"
       PROVE  unseen' \/ Leaving(all[i].uid)' \/ i \in told
  <2>1. CASE i > k
    BY <1>12, <1>18, <2>1 DEF Leaving
  <2>2. CASE i <= k
    BY <1>5, <1>18, <2>2
  <2> QED
    BY <1>12, <2>1, <2>2
<1>19. ASSUME NEW i \in told, all[i].type = "expunge"
       PROVE  LaterGone(q, all[i].uid, 0)
  <2>1. PICK n \in DOMAIN q : q[n] = News(all[i])
    BY <1>10
  <2> QED
    BY <1>12, <1>13, <1>19, <2>1 DEF LaterGone
<1>20. ASSUME NEW i \in DOMAIN all, all[i].type = "expunge"
       PROVE  WorkerDrops(all[i].uid)' \/ LaterGone(q, all[i].uid, 0)
  BY <1>18, <1>19, <1>20 DEF WorkerDrops
<1>21. ASSUME NEW u \in box, u \notin box'
       PROVE  WorkerDrops(u)' \/ LaterGone(q, u, 0)
  <2>1. CASE act.kind = "Delete"
    <3>1. PICK m \in ToSet(d) : m.type = "Deleted" /\ u \in ToSet(m.uids)
      BY <1>3, <1>8, <1>21, <2>1
    <3>2. PICK n \in DOMAIN q : q[n] = m
      BY <1>10 DEF ToSet
    <3> QED
      BY <1>12, <3>1, <3>2 DEF LaterGone
  <2>2. CASE act.kind = "Move"
    <3>1. \E i \in DOMAIN all : all[i].type = "expunge" /\ all[i].uid = u
      BY <1>a, <1>21, <2>2
    <3> QED
      BY <1>20, <3>1
  <2> QED
    BY <1>1, <2>1, <2>2 DEF Removal
<1>22. ASSUME NEW u \in UIDs, WorkerDrops(u)
       PROVE  WorkerDrops(u)' \/ LaterGone(q, u, 0)
  <2>1. CASE u \in box
    BY <1>21, <2>1 DEF WorkerDrops
  <2>2. CASE unseen \/ Sorting
    BY <1>16, <1>17, <2>2 DEF WorkerDrops
  <2>3. CASE Leaving(u)
    <3>1. PICK i \in DOMAIN updates : updates[i].type = "expunge" /\ updates[i].uid = u
      BY <2>3 DEF Leaving, ToSet
    <3> QED
      BY <1>3, <1>20, <3>1
  <2> QED
    BY <1>22, <2>1, <2>2, <2>3 DEF WorkerDrops
<1>23. ASSUME NEW n \in DOMAIN q, q[n].type \in {"Contents", "Flags"}, NEW u \in ToSet(q[n].uids)
       PROVE  WorkerDrops(u)' \/ LaterGone(q, u, n)
  <2>1. q[n] # a /\ q[n] \notin ToSet(d)
    BY <1>8, <1>23
  <2>2. PICK i \in told :
          /\ q[n] = News(all[i])
          /\ \A h \in told : h > i => \E m \in DOMAIN q : m > n /\ q[m] = News(all[h])
          /\ \A x \in ToSet(d) : \E m \in DOMAIN q : m > n /\ q[m] = x
    BY <1>10, <2>1
  <2>3. all[i].type = "flags" /\ u = all[i].uid /\ i \in DOMAIN all /\ u \notin taken
    <3>1. i \in DOMAIN all /\ (all[i].type = "flags" => all[i].uid \notin taken)
      BY <1>5
    <3>2. /\ q[n].type = IF all[i].type = "flags" THEN "Flags" ELSE "Deleted"
          /\ ToSet(q[n].uids) = {all[i].uid}
      BY <1>13, <2>2
    <3>3. all[i].type = "flags" /\ u = all[i].uid
      BY <1>23, <3>2
    <3> QED
      BY <3>1, <3>3
  <2>4. ASSUME NEW h \in DOMAIN all, h > i, all[h].type = "expunge", all[h].uid = u
        PROVE  WorkerDrops(u)' \/ LaterGone(q, u, n)
    <3>1. CASE h \in told
      <4>1. PICK m \in DOMAIN q : m > n /\ q[m] = News(all[h])
        BY <2>2, <2>4, <3>1
      <4> QED
        BY <1>13, <2>4, <3>1, <4>1 DEF LaterGone
    <3>2. CASE h \notin told
      BY <1>18, <2>4, <3>2 DEF WorkerDrops
    <3> QED
      BY <3>1, <3>2
  <2>5. CASE u \in box'
    BY <2>5 DEF WorkerDrops
  <2>6. CASE u \in box /\ u \notin box' /\ act.kind = "Delete"
    <3>1. PICK x \in ToSet(d) : x.type = "Deleted" /\ u \in ToSet(x.uids)
      BY <1>3, <1>8, <2>6
    <3>2. PICK m \in DOMAIN q : m > n /\ q[m] = x
      BY <2>2
    <3> QED
      BY <3>1, <3>2 DEF LaterGone
  <2>7. CASE u \in box /\ u \notin box' /\ act.kind = "Move"
    <3>1. i \in DOMAIN updates
      BY <1>3, <2>3
    <3>2. PICK h \in DOMAIN all : h > i /\ all[h].type = "expunge" /\ all[h].uid = u
      BY <1>a, <2>7, <3>1
    <3> QED
      BY <2>4, <3>2
  <2>8. CASE u \notin box
    <3>1. PICK h \in DOMAIN all : h > i /\ all[h].type = "expunge" /\ all[h].uid = u
      BY <1>a, <2>3, <2>8
    <3> QED
      BY <2>4, <3>1
  <2> QED
    BY <1>1, <2>5, <2>6, <2>7, <2>8 DEF Removal
<1>24. ASSUME Checking PROVE unseen' \/ Checking'
  <2>1. CASE \E x \in ToSet(actions) : x.kind = "CheckMail"
    BY <1>1, <1>15, <2>1 DEF Checking, Removal
  <2>2. ASSUME NEW t \in ToSet(updates), t.type = "exists" PROVE unseen' \/ Checking'
    <3>1. PICK i \in DOMAIN updates : t = updates[i]
      BY DEF ToSet
    <3>2. i \in DOMAIN all /\ all[i].type = "exists" /\ i \in Nat
      BY <1>3, <1>12, <2>2, <3>1
    <3>3. CASE i > k
      BY <1>12, <3>2, <3>3 DEF Checking
    <3>4. CASE i <= k
      BY <1>5, <3>2, <3>4
    <3> QED
      BY <1>12, <3>2, <3>3, <3>4
  <2> QED
    BY <1>24, <2>1, <2>2 DEF Checking
<1>25. ASSUME NEW u \in box', WorkerAdds(u) PROVE WorkerAdds(u)'
  BY <1>1, <1>16, <1>17, <1>24, <1>25 DEF WorkerAdds
<1>26. \A n \in DOMAIN q : q[n].type # "Contents"
  <2> TAKE n \in DOMAIN q
  <2>1. q[n] = a => q[n].type # "Contents"
    BY <1>8
  <2>2. q[n] \in ToSet(d) => q[n].type # "Contents"
    BY <1>8
  <2>3. \A i \in told : q[n] = News(all[i]) => q[n].type # "Contents"
    BY <1>13
  <2> QED
    BY <1>10, <2>1, <2>2, <2>3
<1>27. box' \subseteq box
  BY <1>3
<1> QED
  BY <1>11, <1>22, <1>23, <1>25, <1>26, <1>27 DEF Covers

-----------------------------------------------------------------------------
(* The steps of the worker *)

UpdatesRight == /\ FlagsCovered /\ status.next <= nextUid
                /\ \A t \in ToSet(updates) : t.uid < nextUid /\ (t.type = "expunge" => t.uid \notin box)

LEMMA WorkStep ==
  ASSUME IInv, TypeOK', UpdatesRight', NEW new, Work(new), fresh => Covers(new)
  PROVE  IInv'
<1>1. /\ TypeOK /\ UidsKnown /\ QueuesRight /\ OldRight /\ GoneRight /\ HeadersRequested
      /\ MarkRight /\ OpensRight /\ FlagsCovered /\ ListCovered
  BY DEF IInv
<1>2. UNCHANGED <<known, uids, kept, fresh>> /\ nextUid' = nextUid
  BY DEF Work, KeepStore
<1>3. UidsKnown'
  BY <1>1, <1>2 DEF UidsKnown
<1>4. QueuesRight' /\ HeadersRequested' /\ MarkRight' /\ OpensRight'
  BY <1>1, WorkQueues, WorkHeaders, WorkMarks, WorkOpens
<1>5. /\ status'.next <= nextUid
      /\ \A t \in ToSet(updates') : t.uid < nextUid /\ (t.type = "expunge" => t.uid \notin box')
  BY <1>2 DEF UpdatesRight
<1>6. OldRight'
  BY <1>1, <1>5, WorkOld
<1>7. \A m \in ToSet(messages') : GoneMessage(m, box')
  BY <1>1, WorkGone
<1>8. GoneRight'
  BY <1>5, <1>7 DEF GoneRight
<1>9. new \in Seq(Messages) /\ messages' = messages \o new
  BY DEF Work, Takes
<1>10. ListCovered'
  <2>1. CASE fresh
    BY <1>1, <1>2, <1>9, <2>1, CoversRight
  <2>2. CASE ~fresh
    BY <1>2, <2>2 DEF ListCovered
  <2> QED
    BY <2>1, <2>2
<1> QED
  BY <1>3, <1>4, <1>6, <1>8, <1>10 DEF IInv, UpdatesRight

LEMMA SameUpdates ==
  ASSUME IInv, UNCHANGED <<box, nextUid, updates, taken>>, status' \in {status, Status}
  PROVE  UpdatesRight'
<1>1. status'.next <= nextUid
  <2>1. Status.next = nextUid /\ nextUid \in Nat
    BY DEF Status, IInv, TypeOK
  <2> QED
    BY <2>1 DEF IInv, OldRight
<1> QED
  BY <1>1 DEF IInv, UpdatesRight, OldRight, GoneRight, FlagsCovered

LEMMA RemoveStep == ASSUME IInv, RemoveMessages PROVE IInv'
<1>1. TypeOK /\ QueuesRight /\ OldRight /\ GoneRight /\ FlagsCovered
  BY DEF IInv
<1>2. PICK ok, j, k : Removes(ok, j, k)
  BY <1>1, RemovesRight
<1>3. PICK new : new = Outcome(ok, j, k)
  OBVIOUS
<1>4. new \in Seq(Messages)
  <2>1. PICK all \in Seq(Updates) : all = AllUpdates(ok)
    BY <1>1, <1>2, AllRight
  <2>2. /\ actions # <<>> /\ act.kind \in Removal
        /\ ok \in BOOLEAN /\ k \in 0..Len(AllUpdates(ok)) /\ j \in 0..k
    BY <1>2 DEF Removes
  <2>3. PICK told : told = Told(ok, j, k)
    OBVIOUS
  <2>4. /\ told \subseteq DOMAIN all
        /\ \A i \in told : i \in Nat
    BY <2>1, <2>2, <2>3, ToldRight
  <2>5. PICK d \in Seq(Messages) : d = Deletion(ok)
    BY <1>1, <2>2, DrainTypes
  <2>6. PICK a \in Messages : a = Answered(ok)
    BY <1>1, <2>2, DrainTypes
  <2>7. PICK q \in Seq(Messages) : q = NewsOf(all, told) \o (d \o <<a>>) /\ Ordered(q, all, told, d, a)
    BY <2>4, OutcomeOrder, Zenon
  <2>8. new = NewsOf(all, told) \o (d \o <<a>>)
    BY <1>3, <2>1, <2>3, <2>5, <2>6 DEF Outcome
  <2> QED
    BY <2>7, <2>8
<1>5. Work(new) /\ Covers(new)
  BY <1>1, <1>2, <1>3, <1>4, RemovesWork, RemovesCover
<1>6. updates' \in Seq(Updates) /\ nextUid' = nextUid /\ UpdatesRight'
  BY <1>1, <1>2, RemovesUpdates DEF Removes, UpdatesRight
<1>7. TypeOK'
  <2>1. /\ expunger' = act.kind /\ act.kind \in Removal /\ taken' = taken \cup act.uids
        /\ UNCHANGED <<nextUid, status, hold>> /\ faults' \in Nat /\ actions # <<>>
        /\ KeepStore /\ Drains(ok, j, k)
    BY <1>2 DEF Removes
  <2>2. ServerType /\ WorkerType /\ QueuesType
    BY <1>1, TypeParts
  <2>3. act.uids \subseteq UIDs
    BY <2>1, <2>2, Acting, FieldTypes
  <2>4. box' \subseteq box /\ unseen' \in BOOLEAN
    BY <2>1, <2>2 DEF Drains, WorkerType, Missed
  <2>5. WorkerType'
    BY <1>6, <2>1, <2>2, <2>3, <2>4 DEF WorkerType, Removal
  <2>6. ServerType'
    BY <2>1, <2>2, <2>4 DEF ServerType
  <2>7. Takes(new)
    BY <1>5 DEF Work
  <2> QED
    BY <1>1, <2>1, <2>5, <2>6, <2>7, TakesType
<1> QED
  BY <1>5, <1>6, <1>7, WorkStep

(* An answer that brings no news of the mailbox. *)
LEMMA AnswerWork ==
  ASSUME IInv, NEW type \in Final, Takes(<<Response(type, act, <<>>)>>), KeepStore,
         UNCHANGED <<box, nextUid>>,
         type = "Cancelled" => act.kind \notin Removal,
         type = "Unsupported" => act.kind \in Unsupported,
         type = "Done" => act.kind \notin Removal
  PROVE  Work(<<Response(type, act, <<>>)>>)
<1>1. TypeOK /\ OldRight /\ QueuesType /\ actions # <<>>
  BY TypeParts DEF IInv, Takes
<1>2. act \in ToSet(actions)
  BY <1>1, Acting
<1>3. PICK m \in Messages : m = Response(type, act, <<>>)
  BY <1>1, AnswerType
<1>4. m.type = type /\ m.req = act /\ m.uids = <<>>
  BY <1>3, ResponseFields
<1>5. ToSet(<<m>>) = {m} /\ Len(<<m>>) = 1 /\ ToSet(<<>>) = {} /\ <<m>> \in Seq(Messages)
  BY ShortSets
<1>6. MessageRight(m) /\ m.type # "Info"
  BY <1>4 DEF MessageRight, ByItself, Final
<1>7. OldMessage(m, nextUid)
  BY <1>1, <1>2, <1>4, <1>5 DEF OldMessage, OldRight
<1>8. GoneMessage(m, box')
  BY <1>4 DEF GoneMessage, Final
<1>9. Followed(<<m>>)
  BY <1>5, <1>6, FollowedShort
<1>10. Takes(<<m>>)
  BY <1>3
<1>11. Work(<<m>>)
  BY <1>4, <1>5, <1>6, <1>7, <1>8, <1>9, <1>10 DEF Work
<1> QED
  BY <1>3, <1>11

LEMMA PlainCovers ==
  ASSUME NEW new, \A k \in DOMAIN new : new[k].type \notin {"Contents", "Flags"}, box' = box,
         \A u \in UIDs : WorkerDrops(u) => WorkerDrops(u)',
         \A u \in box : WorkerAdds(u) => WorkerAdds(u)'
  PROVE  Covers(new)
BY DEF Covers

LEMMA AnswerCovers ==
  ASSUME NEW type \in Final, box' = box,
         \A u \in UIDs : WorkerDrops(u) => WorkerDrops(u)',
         \A u \in box : WorkerAdds(u) => WorkerAdds(u)'
  PROVE  Covers(<<Response(type, act, <<>>)>>)
<1>1. PICK m : m = Response(type, act, <<>>)
  OBVIOUS
<1>2. m.type \notin {"Contents", "Flags"}
  BY <1>1, ResponseFields DEF Final
<1>3. \A k \in DOMAIN <<m>> : <<m>>[k].type \notin {"Contents", "Flags"}
  BY <1>2
<1>4. Covers(<<m>>)
  BY <1>3, PlainCovers
<1> QED
  BY <1>1, <1>4

(* An action that is no request for the list and no check is not missed.   *)
LEMMA StillThere ==
  ASSUME TypeOK, actions # <<>>, actions' = Tail(actions), act.kind # "CheckMail",
         act.kind # "Contents" \/ act.stale,
         UNCHANGED <<box, updates, status>>, unseen => unseen'
  PROVE  /\ \A u : WorkerDrops(u) => WorkerDrops(u)'
         /\ \A u : WorkerAdds(u) => WorkerAdds(u)'
<1>1. \A a \in ToSet(actions) : a = act \/ a \in ToSet(actions')
  BY TypeParts, Acting
<1>2. Sorting => Sorting'
  BY <1>1 DEF Sorting
<1>3. Checking => Checking'
  BY <1>1 DEF Checking
<1>4. \A u : Leaving(u) => Leaving(u)'
  BY DEF Leaving
<1>5. \A u : WorkerDrops(u) => WorkerDrops(u)'
  BY <1>2, <1>4 DEF WorkerDrops
<1>6. \A u : WorkerAdds(u) => WorkerAdds(u)'
  BY <1>2, <1>3 DEF WorkerAdds
<1> QED
  BY <1>5, <1>6

LEMMA RefuseStep == ASSUME IInv, Refuse PROVE IInv'
<1>1. TypeOK /\ QueuesRight
  BY DEF IInv
<1>2. /\ Takes(<<Response("Cancelled", act, <<>>)>>) /\ KeepStore
      /\ UNCHANGED <<box, nextUid>> /\ UNCHANGED worker /\ act.stale /\ TypeOK'
  BY <1>1, RefuseMoves
<1>3. actions # <<>> /\ actions' = Tail(actions) /\ UNCHANGED <<updates, status, unseen, taken>>
  BY <1>2 DEF Takes, worker
<1>4. act.kind \in {"Open", "Contents", "Headers"}
  BY <1>1, <1>2, <1>3, TypeParts, Acting DEF QueuesRight, ActionRight
<1>5. Work(<<Response("Cancelled", act, <<>>)>>)
  BY <1>2, <1>4, AnswerWork DEF Final, Removal
<1>6. /\ \A u : WorkerDrops(u) => WorkerDrops(u)'
      /\ \A u : WorkerAdds(u) => WorkerAdds(u)'
  BY <1>1, <1>2, <1>3, <1>4, StillThere
<1>7. Covers(<<Response("Cancelled", act, <<>>)>>)
  BY <1>2, <1>6, AnswerCovers DEF Final
<1>8. UpdatesRight'
  BY <1>2, <1>3, SameUpdates
<1> QED
  BY <1>2, <1>5, <1>7, <1>8, WorkStep

LEMMA RefusedStep == ASSUME IInv, Refused PROVE IInv'
<1>1. TypeOK /\ QueuesRight
  BY DEF IInv
<1>2. /\ Takes(<<Response("Unsupported", act, <<>>)>>) /\ KeepStore
      /\ UNCHANGED <<box, nextUid>> /\ UNCHANGED worker /\ act.kind \in Unsupported /\ TypeOK'
  BY <1>1, RefusedMoves
<1>3. actions # <<>> /\ actions' = Tail(actions) /\ UNCHANGED <<updates, status, unseen, taken>>
  BY <1>2 DEF Takes, worker
<1>4. act.kind \in {"Delete", "Move"}
  BY <1>2, BoundsAssumption
<1>5. Work(<<Response("Unsupported", act, <<>>)>>)
  BY <1>2, AnswerWork DEF Final
<1>6. /\ \A u : WorkerDrops(u) => WorkerDrops(u)'
      /\ \A u : WorkerAdds(u) => WorkerAdds(u)'
  BY <1>1, <1>2, <1>3, <1>4, StillThere
<1>7. Covers(<<Response("Unsupported", act, <<>>)>>)
  BY <1>2, <1>6, AnswerCovers DEF Final
<1>8. UpdatesRight'
  BY <1>2, <1>3, SameUpdates
<1> QED
  BY <1>2, <1>5, <1>7, <1>8, WorkStep

(* A folder is opened only while the store has no live context. *)
LEMMA OpenStep == ASSUME IInv, Open PROVE IInv'
<1>1. TypeOK /\ OpensRight
  BY DEF IInv
<1>2. PICK type \in {"Done", "Error"} :
        /\ Takes(<<Response(type, act, <<>>)>>) /\ KeepStore /\ UNCHANGED <<box, nextUid>>
        /\ UNCHANGED <<hold, updates, expunger, taken>> /\ act.kind = "Open" /\ TypeOK'
        /\ status' \in {status, Status}
  BY <1>1, OpenMoves
<1>3. actions # <<>>
  BY <1>2 DEF Takes
<1>4. ~fresh
  BY <1>1, <1>2, <1>3, TypeParts, Acting DEF OpensRight
<1>5. Work(<<Response(type, act, <<>>)>>)
  BY <1>2, AnswerWork DEF Final, Removal
<1>6. UpdatesRight'
  BY <1>2, SameUpdates
<1> QED
  BY <1>2, <1>4, <1>5, <1>6, WorkStep

LEMMA PairFacts ==
  ASSUME NEW m \in Messages, NEW d \in Messages
  PROVE  /\ <<m, d>> \in Seq(Messages) /\ ToSet(<<m, d>>) = {m, d}
         /\ DOMAIN <<m, d>> = {1, 2} /\ <<m, d>>[1] = m /\ <<m, d>>[2] = d
         /\ d.type # "Info" /\ (m.type = "Info" => d.req = m.req) => Followed(<<m, d>>)
<1>1. /\ <<m, d>> \in Seq(Messages) /\ ToSet(<<m, d>>) = {m, d}
      /\ DOMAIN <<m, d>> = {1, 2} /\ <<m, d>>[1] = m /\ <<m, d>>[2] = d
  BY ShortSets
<1>2. PICK q \in Seq(Messages) : q = <<m, d>>
  BY <1>1
<1>3. d.type # "Info" /\ (m.type = "Info" => d.req = m.req) => Followed(q)
  BY <1>1, <1>2 DEF Followed
<1> QED
  BY <1>1, <1>2, <1>3

(* The list that is fetched is the mailbox.                                *)
LEMMA FetchContentsStep == ASSUME IInv, FetchContents PROVE IInv'
<1>1. TypeOK /\ OldRight
  BY DEF IInv
<1>2. /\ KeepStore /\ UNCHANGED <<box, nextUid>> /\ act.kind = "Contents" /\ TypeOK'
      /\ UNCHANGED <<status, hold, updates, expunger, taken>>
      /\ \/ \E m \in Messages, d \in Messages :
              /\ Takes(<<m, d>>)
              /\ m.type = "Contents" /\ m.req = act /\ ToSet(m.uids) = box /\ Distinct(m.uids)
              /\ d.type = "Done" /\ d.req = act /\ d.uids = <<>>
         \/ Takes(<<Response("Error", act, <<>>)>>) /\ unseen' = TRUE
  BY <1>1, FetchContentsMoves
<1>3. UpdatesRight'
  BY <1>2, SameUpdates
<1>4. CASE Takes(<<Response("Error", act, <<>>)>>) /\ unseen' = TRUE
  <2>1. Work(<<Response("Error", act, <<>>)>>)
    BY <1>2, <1>4, AnswerWork DEF Final
  <2>2. \A u : WorkerDrops(u)' /\ WorkerAdds(u)'
    BY <1>4 DEF WorkerDrops, WorkerAdds
  <2>3. Covers(<<Response("Error", act, <<>>)>>)
    BY <1>2, <2>2, AnswerCovers DEF Final
  <2> QED
    BY <1>2, <1>3, <2>1, <2>3, WorkStep
<1>5. ASSUME NEW m \in Messages, NEW d \in Messages, Takes(<<m, d>>),
             m.type = "Contents", m.req = act, ToSet(m.uids) = box, Distinct(m.uids),
             d.type = "Done", d.req = act, d.uids = <<>>
      PROVE  IInv'
  <2>1. PICK new \in Seq(Messages) :
          /\ new = <<m, d>> /\ ToSet(new) = {m, d}
          /\ DOMAIN new = {1, 2} /\ new[1] = m /\ new[2] = d
    BY PairFacts
  <2>2. Followed(new)
    BY <1>5, <2>1, PairFacts
  <2>3. MessageRight(m) /\ MessageRight(d)
    BY <1>2, <1>5 DEF MessageRight, ByItself
  <2>4. OldMessage(m, nextUid) /\ OldMessage(d, nextUid)
    <3>1. \A u \in box : u < nextUid
      BY <1>1 DEF OldRight
    <3>2. ToSet(<<>>) = {}
      BY ShortSets
    <3> QED
      BY <1>2, <1>5, <3>1, <3>2 DEF OldMessage, OldAction, Removal
  <2>5. GoneMessage(m, box') /\ GoneMessage(d, box')
    BY <1>2, <1>5 DEF GoneMessage, Removal
  <2>6. Takes(new)
    BY <1>5, <2>1
  <2>7. act.kind \notin {"Headers"} \cup Removal /\ act.kind # "Open" /\ box' \subseteq box
    BY <1>2 DEF Removal
  <2>8. Work(new)
    BY <1>2, <1>5, <2>1, <2>2, <2>3, <2>4, <2>5, <2>6, <2>7 DEF Work
  <2>9. LaterList(new, 0)
    BY <1>5, <2>1 DEF LaterList, ListChange
  <2>10. \A u \in box : WorkerDrops(u)'
    BY <1>2 DEF WorkerDrops
  <2>11. Covers(new)
    BY <1>2, <1>5, <2>1, <2>9, <2>10 DEF Covers
  <2> QED
    BY <1>2, <1>3, <2>8, <2>11, WorkStep
<1> QED
  BY <1>2, <1>4, <1>5

LEMMA FetchHeadersStep == ASSUME IInv, FetchHeaders PROVE IInv'
<1>1. TypeOK /\ OldRight
  BY DEF IInv
<1>2. /\ KeepStore /\ UNCHANGED <<box, nextUid>> /\ act.kind = "Headers" /\ TypeOK'
      /\ UNCHANGED worker
      /\ \/ \E m \in Messages, d \in Messages :
              /\ Takes(<<m, d>>)
              /\ m.type = "Info" /\ m.req = act /\ ToSet(m.uids) \subseteq box
              /\ d.type = "Done" /\ d.req = act /\ d.uids = <<>>
         \/ Takes(<<Response("Error", act, <<>>)>>)
  BY <1>1, FetchHeadersMoves
<1>3. UNCHANGED <<status, updates, taken, unseen>> /\ actions # <<>> /\ actions' = Tail(actions)
  BY <1>2 DEF worker, Takes
<1>4. UpdatesRight'
  BY <1>2, <1>3, SameUpdates
<1>5. /\ \A u : WorkerDrops(u) => WorkerDrops(u)'
      /\ \A u : WorkerAdds(u) => WorkerAdds(u)'
  BY <1>1, <1>2, <1>3, StillThere
<1>6. CASE Takes(<<Response("Error", act, <<>>)>>)
  <2>1. Work(<<Response("Error", act, <<>>)>>)
    BY <1>2, <1>6, AnswerWork DEF Final
  <2>2. Covers(<<Response("Error", act, <<>>)>>)
    BY <1>2, <1>5, AnswerCovers DEF Final
  <2> QED
    BY <1>2, <1>4, <2>1, <2>2, WorkStep
<1>7. ASSUME NEW m \in Messages, NEW d \in Messages, Takes(<<m, d>>),
             m.type = "Info", m.req = act, ToSet(m.uids) \subseteq box,
             d.type = "Done", d.req = act, d.uids = <<>>
      PROVE  IInv'
  <2>1. PICK new \in Seq(Messages) :
          /\ new = <<m, d>> /\ ToSet(new) = {m, d}
          /\ DOMAIN new = {1, 2} /\ new[1] = m /\ new[2] = d
    BY PairFacts
  <2>2. Followed(new)
    BY <1>7, <2>1, PairFacts
  <2>3. MessageRight(m) /\ MessageRight(d)
    BY <1>2, <1>7 DEF MessageRight, ByItself
  <2>4. OldMessage(m, nextUid) /\ OldMessage(d, nextUid)
    <3>1. \A u \in box : u < nextUid
      BY <1>1 DEF OldRight
    <3>2. ToSet(<<>>) = {}
      BY ShortSets
    <3> QED
      BY <1>2, <1>7, <3>1, <3>2 DEF OldMessage, OldAction, Removal
  <2>5. GoneMessage(m, box') /\ GoneMessage(d, box')
    BY <1>2, <1>7 DEF GoneMessage, Removal
  <2>6. Takes(new)
    BY <1>7, <2>1
  <2>7. act.kind # "Open" /\ box' \subseteq box
    BY <1>2
  <2>8. Work(new)
    BY <1>2, <1>7, <2>1, <2>2, <2>3, <2>4, <2>5, <2>6, <2>7 DEF Work
  <2>9. \A n \in DOMAIN new : new[n].type \notin {"Contents", "Flags"}
    BY <1>7, <2>1
  <2>10. Covers(new)
    BY <1>2, <1>5, <2>9, PlainCovers
  <2> QED
    BY <1>2, <1>4, <2>8, <2>10, WorkStep
<1> QED
  BY <1>2, <1>6, <1>7

(* A check for new mail finds the status changed, or nothing has come.     *)
LEMMA CheckMailStep == ASSUME IInv, CheckMail PROVE IInv'
<1>1. TypeOK /\ OldRight
  BY DEF IInv
<1>2. /\ KeepStore /\ UNCHANGED <<box, nextUid>> /\ act.kind = "CheckMail" /\ TypeOK'
      /\ UNCHANGED <<hold, updates, expunger, taken>> /\ status' \in {status, Status}
      /\ \/ Takes(<<>>) /\ status' = status /\ status = Status /\ unseen' = unseen
         \/ Takes(<<>>) /\ status' = status /\ unseen' = TRUE
         \/ \E m \in Messages :
              Takes(<<m>>) /\ m.type = "Refetch" /\ m.req.kind = "None" /\ m.uids = <<>>
  BY <1>1, CheckMailMoves
<1>3. UpdatesRight'
  BY <1>2, SameUpdates
<1>4. act.kind \notin {"Headers"} \cup Removal /\ act.kind # "Open" /\ box' \subseteq box
  BY <1>2 DEF Removal
<1>5. CASE Takes(<<>>) /\ status' = status /\ (unseen' = TRUE \/ (status = Status /\ unseen' = unseen))
  <2>1. ToSet(<<>>) = {} /\ <<>> \in Seq(Messages) /\ DOMAIN <<>> = {}
    BY ShortSets
  <2>2. Followed(<<>>)
    BY <2>1, FollowedShort
  <2>3. Work(<<>>)
    BY <1>2, <1>4, <1>5, <2>1, <2>2 DEF Work
  <2>4. actions # <<>> /\ actions' = Tail(actions)
    BY <1>5 DEF Takes
  <2>5. \A a \in ToSet(actions) : a = act \/ a \in ToSet(actions')
    BY <1>1, <2>4, TypeParts, Acting
  <2>6. Sorting => Sorting'
    BY <1>2, <2>5 DEF Sorting
  <2>7. \A u : WorkerDrops(u) => WorkerDrops(u)'
    BY <1>2, <1>5, <2>6 DEF WorkerDrops, Leaving
  <2>8. ASSUME NEW u \in box, WorkerAdds(u) PROVE WorkerAdds(u)'
    <3>1. CASE unseen' \/ Sorting
      BY <2>6, <3>1 DEF WorkerAdds
    <3>2. CASE ~unseen' /\ ~Sorting
      <4>1. u >= status.next /\ status = Status
        BY <1>5, <2>8, <3>2 DEF WorkerAdds
      <4>2. status.next = nextUid
        BY <4>1 DEF Status
      <4>3. u < nextUid /\ u \in Nat /\ nextUid \in Nat
        BY <1>1 DEF OldRight, TypeOK, UIDs
      <4> QED
        BY <4>1, <4>2, <4>3
    <3> QED
      BY <3>1, <3>2
  <2>9. Covers(<<>>)
    BY <1>2, <2>1, <2>7, <2>8, PlainCovers
  <2> QED
    BY <1>2, <1>3, <2>3, <2>9, WorkStep
<1>6. ASSUME NEW m \in Messages, Takes(<<m>>), m.type = "Refetch", m.req.kind = "None", m.uids = <<>>
      PROVE  IInv'
  <2>1. PICK new \in Seq(Messages) : new = <<m>> /\ ToSet(new) = {m} /\ DOMAIN new = {1} /\ new[1] = m
    <3>1. <<m>> \in Seq(Messages) /\ ToSet(<<m>>) = {m} /\ DOMAIN <<m>> = {1} /\ <<m>>[1] = m
      BY ShortSets
    <3> QED
      BY <3>1
  <2>2. Followed(new)
    BY <1>6, <2>1, FollowedShort
  <2>3. MessageRight(m) /\ GoneMessage(m, box')
    BY <1>6 DEF MessageRight, ByItself, GoneMessage
  <2>4. OldMessage(m, nextUid)
    <3>1. ToSet(<<>>) = {}
      BY ShortSets
    <3> QED
      BY <1>6, <3>1 DEF OldMessage, OldAction, Removal
  <2>5. Takes(new)
    BY <1>6, <2>1
  <2>6. Work(new)
    BY <1>2, <1>4, <1>6, <2>1, <2>2, <2>3, <2>4, <2>5 DEF Work
  <2>7. LaterList(new, 0)
    BY <1>6, <2>1 DEF LaterList, ListChange
  <2>8. Covers(new)
    BY <1>2, <1>6, <2>1, <2>7 DEF Covers
  <2> QED
    BY <1>2, <1>3, <2>6, <2>8, WorkStep
<1> QED
  BY <1>2, <1>5, <1>6

-----------------------------------------------------------------------------
(* News of the server, and what the worker makes of it *)

(* A queue that grows. *)
LEMMA GrowQueue ==
  ASSUME NEW T, NEW p \in Seq(T), NEW q \in Seq(T)
  PROVE  /\ ToSet(p \o q) = ToSet(p) \cup ToSet(q)
         /\ \A i \in DOMAIN p : i \in DOMAIN (p \o q) /\ (p \o q)[i] = p[i]
         /\ \A i \in DOMAIN (p \o q) : i \in DOMAIN p \/ (p \o q)[i] \in ToSet(q)
         /\ \A x \in ToSet(p \o q) : x \in T
<1>1. PICK r \in Seq(T) : r = p \o q
  BY JoinRight
<1>2. PICK l \in Nat : l = Len(p)
  OBVIOUS
<1>3. /\ \A i \in DOMAIN p : i \in DOMAIN r /\ r[i] = p[i] /\ i <= l
      /\ \A i \in DOMAIN q : i + l \in DOMAIN r /\ r[i + l] = q[i]
      /\ \A i \in DOMAIN r : i \in DOMAIN p \/ (i > l /\ i - l \in DOMAIN q)
      /\ \A i \in DOMAIN r : i \in Nat \ {0}
  BY <1>1, <1>2, JoinRight
<1>4. ASSUME NEW i \in DOMAIN r, i \notin DOMAIN p PROVE r[i] \in ToSet(q)
  <2>1. PICK n \in DOMAIN q : n = i - l
    BY <1>3, <1>4
  <2>2. n + l = i
    BY <1>3, <2>1
  <2> QED
    BY <1>3, <2>2 DEF ToSet
<1>5. ToSet(r) = ToSet(p) \cup ToSet(q)
  BY <1>1, JoinSet
<1>6. \A x \in ToSet(r) : x \in T
  BY DEF ToSet
<1> QED
  BY <1>1, <1>3, <1>4, <1>5, <1>6

(* The queues grow by checks for new mail and by news, and the mailbox by  *)
(* messages that are new.                                                  *)
LEMMA GrowStep ==
  ASSUME IInv, TypeOK', UpdatesRight',
         NEW as \in Seq(Actions), actions' = actions \o as,
         NEW ms \in Seq(Messages), messages' = messages \o ms,
         UNCHANGED <<known, uids, deleted, pending, kept, fresh>>,
         nextUid <= nextUid', \A u \in box' : u < nextUid' /\ (u \in box \/ u >= nextUid),
         \A a \in ToSet(as) : a.kind = "CheckMail" /\ a.stale = FALSE,
         \A m \in ToSet(ms) : /\ MessageRight(m) /\ m.req.kind = "None" /\ m.type # "Info"
                              /\ OldMessage(m, nextUid) /\ GoneMessage(m, box'),
         Covers(ms)
  PROVE  IInv'
<1>1. /\ TypeOK /\ UidsKnown /\ QueuesRight /\ OldRight /\ GoneRight /\ HeadersRequested
      /\ MarkRight /\ OpensRight /\ FlagsCovered /\ ListCovered
  BY DEF IInv
<1>2. actions \in Seq(Actions) /\ messages \in Seq(Messages) /\ nextUid \in Nat /\ nextUid' \in Nat
  BY <1>1 DEF TypeOK
<1>a. /\ ToSet(actions') = ToSet(actions) \cup ToSet(as)
      /\ \A i \in DOMAIN actions : i \in DOMAIN actions' /\ actions'[i] = actions[i]
      /\ \A i \in DOMAIN actions' : i \in DOMAIN actions \/ actions'[i] \in ToSet(as)
      /\ \A a \in ToSet(actions') : a \in Actions
  <2>1. PICK q \in Seq(Actions) : q = actions
    BY <1>2
  <2>2. /\ ToSet(q \o as) = ToSet(q) \cup ToSet(as)
        /\ \A i \in DOMAIN q : i \in DOMAIN (q \o as) /\ (q \o as)[i] = q[i]
        /\ \A i \in DOMAIN (q \o as) : i \in DOMAIN q \/ (q \o as)[i] \in ToSet(as)
        /\ \A x \in ToSet(q \o as) : x \in Actions
    BY GrowQueue, Zenon
  <2>3. actions' = q \o as
    BY <2>1
  <2> QED
    BY <2>1, <2>2, <2>3, Zenon
<1>b. /\ ToSet(messages') = ToSet(messages) \cup ToSet(ms)
      /\ \A i \in DOMAIN messages : i \in DOMAIN messages' /\ messages'[i] = messages[i]
      /\ \A i \in DOMAIN messages' : i \in DOMAIN messages \/ messages'[i] \in ToSet(ms)
      /\ \A m \in ToSet(messages') : m \in Messages
  <2>1. PICK q \in Seq(Messages) : q = messages
    BY <1>2
  <2>2. messages' = q \o ms
    BY <2>1
  <2> QED
    BY <2>1, <2>2, GrowQueue
<1>3. ToSet(actions') = ToSet(actions) \cup ToSet(as) /\ ToSet(messages') = ToSet(messages) \cup ToSet(ms)
  BY <1>a, <1>b
<1>4. UidsKnown'
  BY <1>1 DEF UidsKnown
<1>5. QueuesRight'
  <2>1. Followed(ms)
    BY FollowedShort
  <2>2. Followed(messages')
    BY <1>1, <1>2, <2>1, FollowedJoin DEF QueuesRight
  <2>3. \A m \in ToSet(messages') : MessageRight(m)
    BY <1>1, <1>3 DEF QueuesRight
  <2>4. \A a \in ToSet(actions') : ActionRight(a)
    BY <1>1, <1>3 DEF QueuesRight, ActionRight
  <2> QED
    BY <2>2, <2>3, <2>4 DEF QueuesRight
<1>6. \A u \in UIDs : u < nextUid => u < nextUid'
  BY <1>2 DEF UIDs
<1>7. \A m \in ToSet(messages') : /\ m.uids \in Seq(UIDs) /\ ToSet(m.uids) \subseteq UIDs
                                  /\ m.req.uids \subseteq UIDs /\ OldMessage(m, nextUid)
  <2>1. \A m \in ToSet(messages') : m \in Messages
    BY <1>b
  <2>2. \A m \in Messages : m.uids \in Seq(UIDs) /\ ToSet(m.uids) \subseteq UIDs /\ m.req.uids \subseteq UIDs
    BY FieldTypes DEF ToSet
  <2> QED
    BY <1>1, <1>3, <2>1, <2>2 DEF OldRight
<1>8. \A a \in ToSet(actions') : a.uids \subseteq UIDs /\ OldAction(a, nextUid)
  <2>1. \A a \in ToSet(actions') : a \in Actions
    BY <1>a
  <2> QED
    BY <1>1, <1>3, <2>1, FieldTypes DEF OldRight, OldAction, Removal
<1>9. OldRight'
  <2>1. \A u \in DOMAIN known' \cup deleted' : u < nextUid'
    BY <1>1, <1>6 DEF OldRight, TypeOK
  <2>2. \A a \in ToSet(actions') : OldAction(a, nextUid')
    BY <1>6, <1>8 DEF OldAction
  <2>3. \A m \in ToSet(messages') : OldMessage(m, nextUid')
    BY <1>6, <1>7 DEF OldMessage, OldAction
  <2> QED
    BY <2>1, <2>2, <2>3 DEF OldRight, UpdatesRight
<1>10. GoneRight'
  <2>1. ASSUME NEW m \in ToSet(messages), NEW S, S \in SUBSET UIDs,
               \A u \in S : u \in box \/ u >= nextUid PROVE GoneMessage(m, S)
    <3>1. GoneMessage(m, box)
      BY <1>1 DEF GoneRight
    <3>2. OldMessage(m, nextUid)
      BY <1>3, <1>7
    <3>3. \A u \in S : ~(u < nextUid) \/ u \in box
      BY <1>2, <2>1 DEF UIDs
    <3> QED
      BY <3>1, <3>2, <3>3 DEF GoneMessage, OldMessage, OldAction
  <2>2. box' \in SUBSET UIDs
    BY DEF TypeOK
  <2>3. \A m \in ToSet(messages') : GoneMessage(m, box')
    BY <1>3, <2>1, <2>2
  <2> QED
    BY <2>3 DEF GoneRight, UpdatesRight
<1>11. HeadersRequested'
  <2>1. \A a \in Asked : a \in Asked'
    BY <1>3 DEF Asked
  <2> QED
    BY <1>1, <2>1 DEF HeadersRequested
<1>12. MarkRight'
  <2>1. \A u : Removing(u) => Removing(u)'
    BY <1>3 DEF Removing
  <2>2. \A u \in deleted : u \in box' => u \in box
    <3>1. \A u \in deleted : u < nextUid /\ u \in Nat
      BY <1>1 DEF OldRight, TypeOK, UIDs
    <3> QED
      BY <1>2, <3>1
  <2> QED
    BY <1>1, <2>1, <2>2 DEF MarkRight
<1>13. OpensRight'
  <2>1. /\ \A i \in DOMAIN actions : i \in DOMAIN actions' /\ actions'[i] = actions[i]
        /\ \A i \in DOMAIN actions' : i \in DOMAIN actions \/ actions'[i] \in ToSet(as)
    BY <1>a
  <2>2. /\ \A i \in DOMAIN messages : i \in DOMAIN messages' /\ messages'[i] = messages[i]
        /\ \A i \in DOMAIN messages' : i \in DOMAIN messages \/ messages'[i] \in ToSet(ms)
    BY <1>b
  <2>3. /\ \A a \in ToSet(as) : a.kind # "Open"
        /\ \A m \in ToSet(ms) : m.req.kind # "Open"
    OBVIOUS
  <2>4. fresh' => /\ \A m \in ToSet(messages') : m.req.kind # "Open"
                  /\ \A a \in ToSet(actions') : a.kind # "Open"
    BY <1>1, <1>3, <2>3 DEF OpensRight
  <2>5. \A i, j \in DOMAIN messages' :
          i < j /\ messages'[i].req.kind = "Open" /\ messages'[j].req.kind = "Open" => messages'[i].req.stale
    BY <1>1, <2>2, <2>3 DEF OpensRight
  <2>6. \A i, j \in DOMAIN actions' :
          i < j /\ actions'[i].kind = "Open" /\ actions'[j].kind = "Open" => actions'[i].stale
    BY <1>1, <2>1, <2>3 DEF OpensRight
  <2>7. \A m \in ToSet(messages'), a \in ToSet(actions') :
          m.req.kind = "Open" /\ a.kind = "Open" => m.req.stale
    BY <1>1, <1>3, <2>3 DEF OpensRight
  <2> QED
    BY <2>4, <2>5, <2>6, <2>7 DEF OpensRight
<1>14. ListCovered'
  BY <1>1, CoversRight
<1> QED
  BY <1>4, <1>5, <1>9, <1>10, <1>11, <1>12, <1>13, <1>14 DEF IInv, UpdatesRight

LEMMA Nothing ==
  /\ <<>> \in Seq(Actions) /\ <<>> \in Seq(Messages) /\ ToSet(<<>>) = {} /\ DOMAIN <<>> = {}
  /\ TypeOK => actions \o <<>> = actions /\ messages \o <<>> = messages
<1>1. <<>> \in Seq(Actions) /\ <<>> \in Seq(Messages) /\ ToSet(<<>>) = {} /\ DOMAIN <<>> = {}
  BY ShortSets
<1>2. ASSUME TypeOK PROVE actions \o <<>> = actions /\ messages \o <<>> = messages
  <2>1. actions \in Seq(Actions) /\ messages \in Seq(Messages)
    BY <1>2 DEF TypeOK
  <2> QED
    BY <2>1
<1> QED
  BY <1>1, <1>2

(* Nothing that the invariant speaks of changes. *)
LEMMA StillStep ==
  ASSUME IInv, TypeOK', UNCHANGED <<known, uids, deleted, pending, kept, fresh>>,
         UNCHANGED <<box, nextUid, status, updates, taken, unseen, actions, messages>>
  PROVE  IInv'
<1>1. TypeOK /\ OldRight
  BY DEF IInv
<1>2. actions' = actions \o <<>> /\ messages' = messages \o <<>>
  BY <1>1, Nothing
<1>3. UpdatesRight'
  BY SameUpdates
<1>4. nextUid \in Nat /\ \A u \in box : u < nextUid
  BY <1>1 DEF OldRight, TypeOK
<1>5. Sorting' = Sorting /\ Checking' = Checking /\ \A u : Leaving(u)' = Leaving(u)
  BY DEF Sorting, Checking, Leaving
<1>6. Covers(<<>>)
  BY <1>5, Nothing DEF Covers, WorkerDrops, WorkerAdds
<1>7. nextUid <= nextUid' /\ \A u \in box' : u < nextUid' /\ (u \in box \/ u >= nextUid)
  BY <1>4
<1> QED
  BY <1>2, <1>3, <1>6, <1>7, Nothing, GrowStep

LEMMA HoldEndsStep == ASSUME IInv, HoldEnds PROVE IInv'
<1>1. /\ KeepStore /\ UNCHANGED <<box, nextUid, status, updates, expunger, taken, unseen, actions, messages>>
      /\ TypeOK'
  BY HoldEndsMoves DEF IInv
<1> QED
  BY <1>1, StillStep DEF KeepStore

(* The oldest update is taken. *)
LEMMA UpdateTaken ==
  ASSUME IInv, TypeOK', UNCHANGED <<box, nextUid, status, taken>>, updates # <<>>, updates' = Tail(updates)
  PROVE  /\ UpdatesRight'
         /\ \E t \in Updates :
              /\ t = Head(updates) /\ t.uid < nextUid /\ (t.type = "expunge" => t.uid \notin box)
              /\ t.type = "flags" => t.uid \in box \cup taken \/ Leaving(t.uid)'
              /\ \A s \in ToSet(updates) : s = t \/ s \in ToSet(updates')
<1>1. /\ OldRight /\ GoneRight /\ FlagsCovered /\ updates \in Seq(Updates)
  BY DEF IInv, TypeOK
<1>2. PICK q \in Seq(Updates) : q = updates
  BY <1>1
<1>3. PICK p \in Seq(Updates) : p = Tail(q)
  BY <1>1, <1>2, TailRight
<1>4. /\ Head(q) = q[1] /\ 1 \in DOMAIN q /\ Head(q) \in Updates
      /\ \A i \in DOMAIN p : i + 1 \in DOMAIN q /\ p[i] = q[i + 1]
      /\ \A i \in DOMAIN q : i # 1 => i - 1 \in DOMAIN p /\ p[i - 1] = q[i]
  BY <1>2, <1>3, TailRight
<1>5. /\ Head(q) \in ToSet(q) /\ ToSet(p) \subseteq ToSet(q)
      /\ \A t \in ToSet(q) : t = Head(q) \/ t \in ToSet(p)
  BY <1>2, <1>3, TailSet
<1>6. \A i \in DOMAIN p : i \in Nat
  OBVIOUS
<1>7. \A i \in DOMAIN q : i \in Nat /\ i >= 1
  OBVIOUS
<1>8. FlagsRight(q, box \cup taken)
  BY <1>1, <1>2 DEF FlagsCovered
<1>9. FlagsRight(p, box \cup taken)
  <2> SUFFICES ASSUME NEW i \in DOMAIN p, p[i].type = "flags", p[i].uid \notin box \cup taken
               PROVE  \E j \in DOMAIN p : j > i /\ p[j].type = "expunge" /\ p[j].uid = p[i].uid
    BY DEF FlagsRight
  <2>1. PICK j \in DOMAIN q : j > i + 1 /\ q[j].type = "expunge" /\ q[j].uid = p[i].uid
    BY <1>4, <1>8 DEF FlagsRight
  <2>2. j # 1 /\ j - 1 > i
    BY <1>6, <1>7, <2>1
  <2>3. j - 1 \in DOMAIN p /\ p[j - 1] = q[j]
    BY <1>4, <2>2
  <2> QED
    BY <2>1, <2>2, <2>3
<1>10. updates' = p
  BY <1>2, <1>3
<1>11. FlagsCovered'
  BY <1>9, <1>10 DEF FlagsCovered
<1>12. /\ status'.next <= nextUid'
       /\ \A t \in ToSet(updates') : t.uid < nextUid' /\ (t.type = "expunge" => t.uid \notin box')
  BY <1>1, <1>2, <1>5, <1>10 DEF OldRight, GoneRight
<1>13. q[1].type = "flags" => q[1].uid \in box \cup taken \/ \E t \in ToSet(p) : t.type = "expunge" /\ t.uid = q[1].uid
  <2> SUFFICES ASSUME q[1].type = "flags", q[1].uid \notin box \cup taken
               PROVE  \E t \in ToSet(p) : t.type = "expunge" /\ t.uid = q[1].uid
    OBVIOUS
  <2>1. PICK j \in DOMAIN q : j > 1 /\ q[j].type = "expunge" /\ q[j].uid = q[1].uid
    BY <1>4, <1>8 DEF FlagsRight
  <2>2. j # 1
    BY <1>7, <2>1
  <2>3. j - 1 \in DOMAIN p /\ p[j - 1] = q[j]
    BY <1>4, <2>2
  <2> QED
    BY <2>1, <2>3 DEF ToSet
<1>14. Head(q).uid < nextUid /\ (Head(q).type = "expunge" => Head(q).uid \notin box)
  BY <1>1, <1>2, <1>5 DEF OldRight, GoneRight
<1>15. UpdatesRight'
  BY <1>11, <1>12 DEF UpdatesRight
<1>16. PICK t \in Updates : t = Head(q)
  BY <1>4
<1>17. t.type = "flags" => t.uid \in box \cup taken \/ Leaving(t.uid)'
  BY <1>4, <1>10, <1>13, <1>16 DEF Leaving
<1>18. \A s \in ToSet(updates) : s = t \/ s \in ToSet(updates')
  BY <1>2, <1>5, <1>10, <1>16
<1> QED
  BY <1>2, <1>14, <1>15, <1>16, <1>17, <1>18

LEMMA HandleUpdateStep == ASSUME IInv, HandleUpdate PROVE IInv'
<1>1. TypeOK /\ OldRight
  BY DEF IInv
<1>2. /\ KeepStore /\ UNCHANGED <<box, nextUid, status, expunger, taken>> /\ TypeOK'
      /\ updates # <<>> /\ updates' = Tail(updates)
  BY <1>1, HandleUpdateMoves
<1>3. PICK t \in Updates :
        /\ t = Head(updates) /\ t.uid < nextUid /\ (t.type = "expunge" => t.uid \notin box)
        /\ t.type = "flags" => t.uid \in box \cup taken \/ Leaving(t.uid)'
        /\ \A s \in ToSet(updates) : s = t \/ s \in ToSet(updates')
  BY <1>2, UpdateTaken
<1>4. PICK as \in Seq(Actions), ms \in Seq(Messages) :
        /\ actions' = actions \o as /\ messages' = messages \o ms
        /\ \/ /\ t.type = "exists" /\ ms = <<>>
              /\ \/ as = <<>> /\ unseen' = TRUE
                 \/ /\ unseen' = unseen
                    /\ \E a \in Actions : as = <<a>> /\ a.kind = "CheckMail" /\ a.stale = FALSE
           \/ /\ t.type # "exists" /\ as = <<>>
              /\ ms = IF Reported(t, expunger, taken) THEN <<News(t)>> ELSE <<>>
              /\ unseen' = (unseen \/ Missed(t, expunger))
  BY <1>1, <1>3, HandleUpdateMoves
<1>5. /\ UpdatesRight' /\ t.uid < nextUid /\ (t.type = "expunge" => t.uid \notin box)
      /\ t.type = "flags" => t.uid \in box \cup taken \/ Leaving(t.uid)'
      /\ \A s \in ToSet(updates) : s = t \/ s \in ToSet(updates')
  BY <1>2, <1>3, UpdateTaken
<1>6. nextUid <= nextUid' /\ \A u \in box' : u < nextUid' /\ (u \in box \/ u >= nextUid)
  BY <1>1, <1>2 DEF OldRight, TypeOK
<1>7. UNCHANGED <<known, uids, deleted, pending, kept, fresh>>
  BY <1>2 DEF KeepStore
<1>8. ToSet(actions') = ToSet(actions) \cup ToSet(as)
  <2>1. PICK q \in Seq(Actions) : q = actions
    BY <1>1 DEF TypeOK
  <2>2. ToSet(q \o as) = ToSet(q) \cup ToSet(as)
    BY JoinSet, ZenonT(30)
  <2>3. actions' = q \o as
    BY <1>4, <2>1, Zenon
  <2> QED
    BY <2>1, <2>2, <2>3, Zenon
<1>9. Sorting => Sorting'
  BY <1>8 DEF Sorting
<1>10. t.type # "expunge" => \A u : Leaving(u) => Leaving(u)'
  BY <1>5 DEF Leaving
<1>11. \A a \in ToSet(as) : a.kind = "CheckMail" /\ a.stale = FALSE
  <2>1. as = <<>> \/ \E a \in Actions : as = <<a>> /\ a.kind = "CheckMail" /\ a.stale = FALSE
    BY <1>4, Zenon
  <2>2. ASSUME NEW a \in Actions, as = <<a>>, a.kind = "CheckMail", a.stale = FALSE
        PROVE  \A b \in ToSet(as) : b.kind = "CheckMail" /\ b.stale = FALSE
    <3>1. ToSet(as) = {a}
      BY <2>2, ShortSets, Zenon
    <3> QED
      BY <2>2, <3>1
  <2>3. as = <<>> => ToSet(as) = {}
    BY ShortSets, Zenon
  <2> QED
    BY <2>1, <2>2, <2>3
<1>12. CASE t.type = "exists"
  <2>1. ms = <<>> /\ ToSet(ms) = {} /\ DOMAIN ms = {}
    BY <1>4, <1>12, Nothing
  <2>2. unseen => unseen'
    BY <1>4, <1>12
  <2>3. \A u : WorkerDrops(u) => WorkerDrops(u)'
    BY <1>2, <1>9, <1>10, <1>12, <2>2 DEF WorkerDrops
  <2>4. unseen' \/ Checking'
    <3>1. CASE unseen'
      BY <3>1
    <3>2. CASE ~unseen'
      <4>1. PICK a \in Actions : as = <<a>> /\ a.kind = "CheckMail"
        BY <1>4, <1>12, <3>2
      <4>2. a \in ToSet(actions')
        BY <1>8, <4>1, ShortSets
      <4> QED
        BY <4>1, <4>2 DEF Checking
    <3> QED
      BY <3>1, <3>2
  <2>5. \A u : WorkerAdds(u) => WorkerAdds(u)'
    BY <1>2, <1>9, <2>2, <2>4 DEF WorkerAdds
  <2>6. Covers(ms)
    BY <1>2, <2>1, <2>3, <2>5, PlainCovers
  <2> QED
    BY <1>2, <1>4, <1>5, <1>6, <1>7, <1>11, <2>1, <2>6, GrowStep
<1>13. CASE t.type # "exists"
  <2>1. /\ ms = IF Reported(t, expunger, taken) THEN <<News(t)>> ELSE <<>>
        /\ unseen' = (unseen \/ Missed(t, expunger))
    BY <1>4, <1>13
  <2>2. Checking => Checking'
    BY <1>5, <1>8, <1>13 DEF Checking
  <2>3. \A u : WorkerAdds(u) => WorkerAdds(u)'
    BY <1>2, <1>9, <2>1, <2>2 DEF WorkerAdds
  <2>4. \A u : u # t.uid => (Leaving(u) => Leaving(u)')
    BY <1>5 DEF Leaving
  <2>5. \A u : u # t.uid \/ t.type # "expunge" \/ unseen' => (WorkerDrops(u) => WorkerDrops(u)')
    BY <1>2, <1>9, <1>10, <2>1, <2>4 DEF WorkerDrops
  <2>6. CASE ~Reported(t, expunger, taken)
    <3>1. ms = <<>> /\ ToSet(ms) = {} /\ DOMAIN ms = {}
      BY <2>1, <2>6, Nothing
    <3>2. t.type # "expunge" \/ unseen'
      BY <1>13, <2>1, <2>6 DEF Reported, Missed
    <3>3. Covers(ms)
      BY <1>2, <2>3, <2>5, <3>1, <3>2, PlainCovers
    <3> QED
      BY <1>2, <1>4, <1>5, <1>6, <1>7, <1>11, <3>1, <3>3, GrowStep
  <2>7. CASE Reported(t, expunger, taken)
    <3>1. PICK m \in Messages : m = News(t)
      BY NewsRight
    <3>2. /\ m.type = IF t.type = "flags" THEN "Flags" ELSE "Deleted"
          /\ m.req.kind = "None" /\ m.uids = <<t.uid>>
          /\ ToSet(m.uids) = {t.uid} /\ Len(m.uids) = 1
      BY <3>1, NewsRight
    <3>3. ms = <<m>> /\ ToSet(ms) = {m} /\ DOMAIN ms = {1} /\ ms[1] = m
      BY <2>1, <2>7, <3>1, ShortSets
    <3>4. MessageRight(m) /\ m.type # "Info"
      BY <3>2 DEF MessageRight, ByItself
    <3>5. OldMessage(m, nextUid)
      BY <1>5, <3>2 DEF OldMessage, OldAction, Removal
    <3>6. t.type \in {"flags", "expunge"}
      BY <1>13 DEF Updates
    <3>7. GoneMessage(m, box')
      BY <1>2, <1>5, <3>2, <3>6 DEF GoneMessage
    <3>8. t.type = "expunge" => LaterGone(ms, t.uid, 0)
      BY <3>2, <3>3 DEF LaterGone
    <3>9. t.type = "flags" => WorkerDrops(t.uid)'
      <4>1. t.type = "flags" => t.uid \notin taken
        BY <2>7 DEF Reported
      <4> QED
        BY <1>2, <1>5, <4>1 DEF WorkerDrops
    <3>10. \A u : WorkerDrops(u) => WorkerDrops(u)' \/ LaterGone(ms, u, 0)
      BY <2>5, <3>8
    <3>11. \A k \in DOMAIN ms : ms[k].type \in {"Contents", "Flags"} => \A u \in ToSet(ms[k].uids) : WorkerDrops(u)'
      <4>1. m.type \in {"Contents", "Flags"} => t.type = "flags"
        BY <3>2
      <4> QED
        BY <3>2, <3>3, <3>9, <4>1
    <3>12. \A k \in DOMAIN ms : ms[k].type # "Contents"
      BY <3>2, <3>3
    <3>13. Covers(ms)
      BY <1>2, <2>3, <3>10, <3>11, <3>12 DEF Covers
    <3> QED
      BY <1>2, <1>4, <1>5, <1>6, <1>7, <1>11, <3>3, <3>4, <3>2, <3>5, <3>7, <3>13, GrowStep
  <2> QED
    BY <2>6, <2>7
<1> QED
  BY <1>12, <1>13

(* An update comes. *)
LEMMA UpdateComes ==
  ASSUME IInv, NEW t \in Updates, updates' = updates \o <<t>>, <<t>> \in Seq(Updates),
         UNCHANGED <<status, taken, actions>>,
         nextUid' \in Nat, nextUid <= nextUid', t.uid < nextUid',
         t.type = "flags" => t.uid \in box', t.type = "expunge" => t.uid \notin box',
         \A u \in box : u \in box' \/ (t.type = "expunge" /\ t.uid = u),
         \A u \in box' : u \in box \/ u >= nextUid
  PROVE  /\ UpdatesRight'
         /\ \A u : Leaving(u) => Leaving(u)'
         /\ t.type = "expunge" => Leaving(t.uid)'
         /\ Checking \/ t.type = "exists" => Checking'
<1>1. /\ OldRight /\ GoneRight /\ FlagsCovered /\ updates \in Seq(Updates)
      /\ nextUid \in Nat /\ status.next \in Nat
  BY DEF IInv, TypeOK
<1>2. PICK q \in Seq(Updates) : q = updates
  BY <1>1
<1>3. PICK p \in Seq(Updates) : p = <<t>> /\ ToSet(p) = {t} /\ DOMAIN p = {1} /\ p[1] = t
  <2>1. ToSet(<<t>>) = {t} /\ DOMAIN <<t>> = {1} /\ <<t>>[1] = t
    BY ShortSets
  <2> QED
    BY <2>1
<1>4. PICK r \in Seq(Updates) : r = q \o p
  BY JoinRight
<1>5. PICK l \in Nat : l = Len(q)
  OBVIOUS
<1>6. /\ \A i \in DOMAIN q : i \in DOMAIN r /\ r[i] = q[i] /\ i <= l /\ i \in Nat
      /\ 1 + l \in DOMAIN r /\ r[1 + l] = t
      /\ \A i \in DOMAIN r : i \in DOMAIN q \/ i = 1 + l
      /\ ToSet(r) = ToSet(q) \cup {t}
  <2>1. /\ \A i \in DOMAIN q : i \in DOMAIN r /\ r[i] = q[i] /\ i <= l
        /\ \A i \in DOMAIN p : i + l \in DOMAIN r /\ r[i + l] = p[i]
        /\ \A i \in DOMAIN r : i \in DOMAIN q \/ (i > l /\ i - l \in DOMAIN p)
        /\ \A i \in DOMAIN r : i \in Nat \ {0}
    BY <1>4, <1>5, JoinRight
  <2>2. ToSet(r) = ToSet(q) \cup ToSet(p)
    BY <1>4, JoinSet
  <2>3. 1 + l \in DOMAIN r /\ r[1 + l] = t
    BY <1>3, <2>1
  <2>4. \A i \in DOMAIN r : i \in DOMAIN q \/ i = 1 + l
    <3>1. \A i \in DOMAIN r : i \in DOMAIN q \/ i - l = 1
      BY <1>3, <2>1
    <3> QED
      BY <2>1, <3>1
  <2> QED
    BY <1>3, <2>1, <2>2, <2>3, <2>4
<1>7. updates' = r
  BY <1>2, <1>3, <1>4, Zenon
<1>8. FlagsRight(q, box \cup taken)
  BY <1>1, <1>2 DEF FlagsCovered
<1>9. FlagsRight(r, box' \cup taken)
  <2> SUFFICES ASSUME NEW i \in DOMAIN r, r[i].type = "flags", r[i].uid \notin box' \cup taken
               PROVE  \E j \in DOMAIN r : j > i /\ r[j].type = "expunge" /\ r[j].uid = r[i].uid
    BY DEF FlagsRight
  <2>1. i \in DOMAIN q /\ q[i] = r[i]
    BY <1>6
  <2>2. CASE q[i].uid \in box
    <3>1. t.type = "expunge" /\ t.uid = q[i].uid
      BY <2>1, <2>2
    <3>2. 1 + l > i
      BY <1>6, <2>1
    <3> QED
      BY <1>6, <2>1, <3>1, <3>2
  <2>3. CASE q[i].uid \notin box
    <3>1. PICK j \in DOMAIN q : j > i /\ q[j].type = "expunge" /\ q[j].uid = q[i].uid
      BY <1>8, <2>1, <2>3 DEF FlagsRight
    <3> QED
      BY <1>6, <2>1, <3>1
  <2> QED
    BY <2>2, <2>3
<1>10. FlagsCovered'
  BY <1>7, <1>9 DEF FlagsCovered
<1>11. \A s \in ToSet(r) : s.uid < nextUid'
  <2>1. \A s \in ToSet(q) : s \in Updates /\ s.uid < nextUid
    BY <1>1, <1>2 DEF OldRight, ToSet
  <2>2. \A s \in Updates : s.uid \in Nat
    BY DEF Updates, UIDs
  <2>3. \A s \in ToSet(q) : s.uid < nextUid'
    BY <1>1, <2>1, <2>2
  <2> QED
    BY <1>6, <2>3
<1>12. \A s \in ToSet(r) : s.type = "expunge" => s.uid \notin box'
  <2>1. \A s \in ToSet(q) : s.type = "expunge" => s.uid \notin box
    BY <1>1, <1>2 DEF GoneRight
  <2>2. \A s \in ToSet(q) : s.uid \in Nat /\ s.uid < nextUid
    <3>1. \A s \in ToSet(q) : s \in Updates /\ s.uid < nextUid
      BY <1>1, <1>2 DEF OldRight, ToSet
    <3>2. \A s \in Updates : s.uid \in Nat
      BY DEF Updates, UIDs
    <3> QED
      BY <3>1, <3>2
  <2>3. \A s \in ToSet(q) : s.uid \in box' => s.uid \in box
    BY <1>1, <2>2
  <2> QED
    BY <1>6, <2>1, <2>3
<1>13. status'.next <= nextUid'
  BY <1>1 DEF OldRight
<1>14. UpdatesRight'
  BY <1>7, <1>10, <1>11, <1>12, <1>13 DEF UpdatesRight
<1>15. \A u : Leaving(u) => Leaving(u)'
  BY <1>2, <1>6, <1>7 DEF Leaving
<1>16. t.type = "expunge" => Leaving(t.uid)'
  BY <1>6, <1>7 DEF Leaving
<1>17. Checking \/ t.type = "exists" => Checking'
  BY <1>2, <1>6, <1>7 DEF Checking
<1> QED
  BY <1>14, <1>15, <1>16, <1>17

LEMMA ServerStep ==
  ASSUME IInv, TypeOK', NEW t \in Updates, updates' = updates \o <<t>>, <<t>> \in Seq(Updates),
         UNCHANGED <<status, taken, unseen, actions, messages>>,
         UNCHANGED <<known, uids, deleted, pending, kept, fresh>>,
         nextUid <= nextUid', t.uid < nextUid',
         t.type = "flags" => t.uid \in box', t.type = "expunge" => t.uid \notin box',
         \A u \in box : u \in box' \/ (t.type = "expunge" /\ t.uid = u),
         \A u \in box' : u < nextUid' /\ (u \in box \/ (u >= nextUid /\ t.type = "exists"))
  PROVE  IInv'
<1>1. /\ TypeOK /\ OldRight /\ nextUid' \in Nat /\ nextUid \in Nat /\ status.next \in Nat
  BY SMTT(30) DEF IInv, TypeOK
<1>2. /\ UpdatesRight'
      /\ \A u : Leaving(u) => Leaving(u)'
      /\ t.type = "expunge" => Leaving(t.uid)'
      /\ Checking \/ t.type = "exists" => Checking'
  BY <1>1, UpdateComes
<1>3. Sorting' = Sorting
  BY DEF Sorting
<1>4. \A u : WorkerDrops(u) => WorkerDrops(u)'
  BY <1>2, <1>3 DEF WorkerDrops
<1>5. \A u : WorkerAdds(u) => WorkerAdds(u)'
  BY <1>2, <1>3 DEF WorkerAdds
<1>6. \A u \in box' : u \notin box => WorkerAdds(u)'
  <2>1. status.next <= nextUid
    BY <1>1 DEF OldRight
  <2>2. \A u \in UIDs : u >= nextUid => u >= status.next
    BY <1>1, <2>1 DEF UIDs
  <2>3. box' \subseteq UIDs
    BY DEF TypeOK
  <2> QED
    BY <1>2, <2>2, <2>3 DEF WorkerAdds
<1>7. Covers(<<>>)
  BY <1>4, <1>5, <1>6, Nothing DEF Covers
<1>8. actions' = actions \o <<>> /\ messages' = messages \o <<>>
  BY <1>1, Nothing
<1> QED
  BY <1>2, <1>7, <1>8, Nothing, GrowStep

LEMMA ArriveStep == ASSUME IInv, Arrive PROVE IInv'
<1>1. /\ TypeOK /\ OldRight /\ nextUid \in Nat
  BY DEF IInv, TypeOK
<1>2. /\ KeepStore /\ UNCHANGED <<status, expunger, taken, unseen, actions, messages>> /\ TypeOK'
      /\ nextUid \in UIDs /\ box' = box \cup {nextUid} /\ nextUid' = nextUid + 1
  BY <1>1, ArriveMoves
<1>3. PICK t \in Updates : updates' = updates \o <<t>> /\ <<t>> \in Seq(Updates)
                           /\ t.type = "exists" /\ t.uid = nextUid
  BY <1>1, ArriveMoves
<1>4. UNCHANGED <<known, uids, deleted, pending, kept, fresh>>
  BY <1>2 DEF KeepStore
<1>5. nextUid <= nextUid' /\ t.uid < nextUid'
  BY <1>1, <1>2, <1>3
<1>6. box \subseteq Nat /\ \A u \in box : u < nextUid
  BY <1>1 DEF OldRight, TypeOK, UIDs
<1>7. \A u \in box' : u < nextUid' /\ (u \in box \/ u >= nextUid)
  BY <1>1, <1>2, <1>6
<1>8. \A u \in box : u \in box' \/ (t.type = "expunge" /\ t.uid = u)
  BY <1>2
<1> QED
  BY <1>2, <1>3, <1>4, <1>5, <1>7, <1>8, ServerStep

LEMMA ForeignStep ==
  ASSUME IInv, NEW type \in {"expunge", "flags"}, NEW u \in box, Foreign(type, u) PROVE IInv'
<1>1. /\ TypeOK /\ OldRight /\ nextUid \in Nat
  BY DEF IInv, TypeOK
<1>2. /\ UNCHANGED <<known, uids, selected, deleted, pending, fresh, crashed, kept>>
      /\ UNCHANGED <<nextUid, status, expunger, taken, unseen, actions, messages>> /\ TypeOK'
      /\ box' = IF type = "expunge" THEN box \ {u} ELSE box
      /\ \E t \in Updates : updates' = updates \o <<t>> /\ <<t>> \in Seq(Updates)
                            /\ t.type = type /\ t.uid = u
  BY <1>1, ForeignMoves
<1>3. PICK t \in Updates : updates' = updates \o <<t>> /\ <<t>> \in Seq(Updates)
                           /\ t.type = type /\ t.uid = u
  BY <1>2
<1>4. box \subseteq Nat /\ \A v \in box : v < nextUid
  BY <1>1 DEF OldRight, TypeOK, UIDs
<1>5. nextUid <= nextUid' /\ t.uid < nextUid'
  BY <1>1, <1>2, <1>3, <1>4
<1>6. \A v \in box' : v < nextUid' /\ v \in box
  BY <1>2, <1>4
<1>7. \A v \in box : v \in box' \/ (t.type = "expunge" /\ t.uid = v)
  BY <1>2, <1>3
<1>8. (t.type = "flags" => t.uid \in box') /\ (t.type = "expunge" => t.uid \notin box')
  BY <1>2, <1>3
<1> QED
  BY <1>2, <1>3, <1>5, <1>6, <1>7, <1>8, ServerStep

-----------------------------------------------------------------------------
(* The user, and the list that is drawn *)

(* Requests of the user join the queue. *)
LEMMA AskStep ==
  ASSUME IInv, TypeOK', UNCHANGED <<box, nextUid, status, updates, taken, unseen, messages>>,
         UNCHANGED <<known, uids, kept, fresh>>,
         NEW as \in Seq(Actions), actions' = actions \o as,
         \A a \in ToSet(as) : /\ a.kind \in {"Headers"} \cup Removal
                              /\ ActionRight(a) /\ OldAction(a, nextUid),
         \A u \in pending' : u \in pending \/ \E a \in ToSet(as) : a.kind = "Headers" /\ u \in a.uids,
         \A u \in deleted' : u \in deleted \/ \E a \in ToSet(as) : a.kind \in Removal /\ u \in a.uids
  PROVE  IInv'
<1>1. /\ TypeOK /\ UidsKnown /\ QueuesRight /\ OldRight /\ GoneRight /\ HeadersRequested
      /\ MarkRight /\ OpensRight /\ FlagsCovered /\ ListCovered
  BY DEF IInv
<1>2. /\ ToSet(actions') = ToSet(actions) \cup ToSet(as)
      /\ \A i \in DOMAIN actions : i \in DOMAIN actions' /\ actions'[i] = actions[i]
      /\ \A i \in DOMAIN actions' : i \in DOMAIN actions \/ actions'[i] \in ToSet(as)
  <2>1. PICK q \in Seq(Actions) : q = actions
    BY <1>1 DEF TypeOK
  <2>2. /\ ToSet(q \o as) = ToSet(q) \cup ToSet(as)
        /\ \A i \in DOMAIN q : i \in DOMAIN (q \o as) /\ (q \o as)[i] = q[i]
        /\ \A i \in DOMAIN (q \o as) : i \in DOMAIN q \/ (q \o as)[i] \in ToSet(as)
        /\ \A x \in ToSet(q \o as) : x \in Actions
    BY GrowQueue, Zenon
  <2>3. actions' = q \o as
    BY <2>1
  <2> QED
    BY <2>1, <2>2, <2>3, Zenon
<1>3. UidsKnown' /\ GoneRight' /\ FlagsCovered'
  BY <1>1 DEF UidsKnown, GoneRight, FlagsCovered
<1>4. QueuesRight'
  BY <1>1, <1>2 DEF QueuesRight
<1>5. OldRight'
  <2>1. \A u \in deleted' : u < nextUid
    BY <1>1 , <1>2 DEF OldRight, OldAction
  <2> QED
    BY <1>1, <1>2, <2>1 DEF OldRight
<1>6. HeadersRequested'
  <2>1. \A a \in Asked : a \in Asked'
    BY <1>2 DEF Asked
  <2>2. \A a \in ToSet(as) : a.kind = "Headers" => a \in Asked'
    BY <1>2 DEF Asked
  <2> QED
    BY <1>1, <2>1, <2>2 DEF HeadersRequested
<1>7. MarkRight'
  <2>1. \A u : Removing(u) => Removing(u)'
    BY <1>2 DEF Removing
  <2>2. \A u \in deleted' : u \in deleted \/ Removing(u)'
    BY <1>2 DEF Removing
  <2> QED
    BY <1>1, <2>1, <2>2 DEF MarkRight
<1>8. OpensRight'
  <2>1. \A a \in ToSet(as) : a.kind # "Open"
    BY DEF Removal
  <2>2. fresh' => /\ \A m \in ToSet(messages') : m.req.kind # "Open"
                  /\ \A a \in ToSet(actions') : a.kind # "Open"
    BY <1>1, <1>2, <2>1 DEF OpensRight
  <2>3. \A i, j \in DOMAIN messages' :
          i < j /\ messages'[i].req.kind = "Open" /\ messages'[j].req.kind = "Open" => messages'[i].req.stale
    BY <1>1 DEF OpensRight
  <2>4. \A i, j \in DOMAIN actions' :
          i < j /\ actions'[i].kind = "Open" /\ actions'[j].kind = "Open" => actions'[i].stale
    BY <1>1, <1>2, <2>1 DEF OpensRight
  <2>5. \A m \in ToSet(messages'), a \in ToSet(actions') :
          m.req.kind = "Open" /\ a.kind = "Open" => m.req.stale
    BY <1>1, <1>2, <2>1 DEF OpensRight
  <2> QED
    BY <2>2, <2>3, <2>4, <2>5 DEF OpensRight
<1>9. ListCovered'
  <2>1. (Sorting => Sorting') /\ (Checking => Checking')
    BY <1>2 DEF Sorting, Checking
  <2>2. \A u : Leaving(u)' = Leaving(u)
    BY DEF Leaving
  <2>3. \A u : WorkerDrops(u) => WorkerDrops(u)'
    BY <2>1, <2>2 DEF WorkerDrops
  <2>4. \A u : WorkerAdds(u) => WorkerAdds(u)'
    BY <2>1 DEF WorkerAdds
  <2>5. Covers(<<>>)
    BY <2>3, <2>4, Nothing, PlainCovers
  <2>6. messages' = messages \o <<>> /\ <<>> \in Seq(Messages)
    BY <1>1, Nothing
  <2> QED
    BY <1>1, <2>5, <2>6, CoversRight
<1> QED
  BY <1>3, <1>4, <1>5, <1>6, <1>7, <1>8, <1>9 DEF IInv

LEMMA DrawStep == ASSUME IInv, Draw PROVE IInv'
<1>1. TypeOK /\ TypeOK'
  BY DrawType DEF IInv
<1>2. /\ UNCHANGED <<box, nextUid, status, updates, taken, unseen, messages>>
      /\ UNCHANGED <<known, uids, kept, fresh, deleted>>
  BY DEF Draw, server, worker
<1>3. CASE uids = <<>>
  <2>1. UNCHANGED <<actions, pending>>
    BY <1>3 DEF Draw
  <2> QED
    BY <1>1, <1>2, <2>1, StillStep
<1>4. CASE uids # <<>>
  <2>1. PICK us : /\ us \subseteq DOMAIN known
                  /\ actions' = actions \o FetchHeadersAction(us) /\ pending' = pending \cup us
    <3>1. PICK us : us = {u \in Rows(uids, scroll', Height) \cap DOMAIN known : known[u] # "info"}
      OBVIOUS
    <3>2. actions' = actions \o FetchHeadersAction(us) /\ pending' = pending \cup us
      BY <1>4, <3>1 DEF Draw
    <3>3. us \subseteq DOMAIN known
      BY <3>1
    <3> QED
      BY <3>2, <3>3
  <2>2. us \subseteq UIDs
    BY <1>1, <2>1 DEF TypeOK
  <2>3. PICK as \in Seq(Actions) :
          /\ as = FetchHeadersAction(us)
          /\ \A a \in ToSet(as) : a.kind = "Headers"
          /\ us \ pending # {} => \E a \in ToSet(as) : a.kind = "Headers" /\ a.uids = us \ pending
    BY <1>1, <2>2, FetchHeadersType
  <2>4. \A a \in ToSet(as) : /\ a.kind \in {"Headers"} \cup Removal
                             /\ ActionRight(a) /\ OldAction(a, nextUid)
    BY <2>3 DEF ActionRight, OldAction, Removal
  <2>5. \A u \in pending' : u \in pending \/ \E a \in ToSet(as) : a.kind = "Headers" /\ u \in a.uids
    BY <2>1, <2>3
  <2>6. actions' = actions \o as
    BY <2>1, <2>3
  <2> QED
    BY <1>1, <1>2, <2>4, <2>5, <2>6, AskStep
<1> QED
  BY <1>3, <1>4

LEMMA UserMovesStep == ASSUME IInv, NEW delta \in Int, UserMoves(delta) PROVE IInv'
<1>1. TypeOK'
  BY UserMovesType DEF IInv
<1> QED
  BY <1>1, StillStep DEF UserMoves, server, worker

LEMMA UserRemovesStep ==
  ASSUME IInv, NEW kind \in Removal, NEW us \in MarkedOrSelected, UserRemoves(kind, us)
  PROVE  IInv'
<1>1. TypeOK /\ TypeOK' /\ UidsKnown /\ OldRight
  BY UserRemovesType DEF IInv
<1>2. /\ UNCHANGED <<box, nextUid, status, updates, taken, unseen, messages>>
      /\ UNCHANGED <<known, uids, kept, fresh, pending>> /\ deleted' = deleted \cup us
  BY DEF UserRemoves, server, worker
<1>3. PICK a \in Actions : /\ a.kind = kind /\ a.uids = us /\ a.stale = FALSE
                           /\ actions' = actions \o <<a>> /\ <<a>> \in Seq(Actions)
  BY <1>1, RemovesAction
<1>4. \A u \in us : u < nextUid
  <2>1. us \subseteq DOMAIN known
    BY <1>1, MarkedType DEF UidsKnown
  <2> QED
    BY <1>1, <2>1 DEF OldRight
<1>5. ToSet(<<a>>) = {a}
  BY ShortSets
<1>6. \A b \in ToSet(<<a>>) : /\ b.kind \in {"Headers"} \cup Removal
                              /\ ActionRight(b) /\ OldAction(b, nextUid)
  BY <1>3, <1>4, <1>5 DEF ActionRight, OldAction
<1>7. \A u \in deleted' : u \in deleted \/ \E b \in ToSet(<<a>>) : b.kind \in Removal /\ u \in b.uids
  BY <1>2, <1>3, <1>5
<1> QED
  BY <1>1, <1>2, <1>3, <1>6, <1>7, AskStep

(* Opening the folder once more leaves nothing under way that could bring  *)
(* a live context before the new opening has.                              *)
LEMMA UserReopensStep == ASSUME IInv, UserReopens PROVE IInv'
<1>1. /\ TypeOK /\ UidsKnown /\ QueuesRight /\ OldRight /\ GoneRight /\ HeadersRequested
      /\ MarkRight /\ OpensRight /\ FlagsCovered /\ TypeOK'
  BY UserReopensType DEF IInv
<1>2. QueuesType
  BY <1>1, TypeParts
<1>3. /\ UNCHANGED <<box, nextUid, status, updates, taken>> /\ fresh' = FALSE
      /\ UNCHANGED <<known, uids, deleted, pending>>
  BY DEF UserReopens, server, worker
<1>4. PICK q \in Seq(Actions) : q = Cancelled(actions)
  BY <1>2, CancelledRight
<1>5. /\ DOMAIN q = DOMAIN actions
      /\ \A i \in DOMAIN actions :
           /\ q[i].kind = actions[i].kind /\ q[i].uids = actions[i].uids
           /\ q[i].stale = (actions[i].stale \/ actions[i].kind \in {"Open", "Contents", "Headers"})
  BY <1>2, <1>4, CancelledRight
<1>6. PICK o \in Actions : /\ actions' = q \o <<o>> /\ <<o>> \in Seq(Actions)
                           /\ o.kind = "Open" /\ o.stale = FALSE
  BY <1>2, <1>4, ReopenRight
<1>7. PICK n \in Nat : n = Len(q)
  OBVIOUS
<1>8. /\ ToSet(actions') = ToSet(q) \cup {o}
      /\ \A i \in DOMAIN q : i \in DOMAIN actions' /\ actions'[i] = q[i] /\ i <= n /\ i \in Nat
      /\ \A i \in DOMAIN actions' : i \in DOMAIN q \/ i = n + 1
  <2>1. PICK p \in Seq(Actions) : p = <<o>> /\ ToSet(p) = {o} /\ DOMAIN p = {1}
    <3>1. ToSet(<<o>>) = {o} /\ DOMAIN <<o>> = {1}
      BY ShortSets
    <3> QED
      BY <1>6, <3>1
  <2>2. PICK r \in Seq(Actions) : r = q \o p
    BY JoinRight
  <2>3. /\ \A i \in DOMAIN q : i \in DOMAIN r /\ r[i] = q[i] /\ i <= n
        /\ \A i \in DOMAIN r : i \in DOMAIN q \/ (i > n /\ i - n \in DOMAIN p)
        /\ \A i \in DOMAIN r : i \in Nat \ {0}
    BY <1>7, <2>2, JoinRight
  <2>4. ToSet(r) = ToSet(q) \cup {o}
    <3>1. ToSet(q \o p) = ToSet(q) \cup ToSet(p)
      BY JoinSet, Zenon
    <3> QED
      BY <2>1, <2>2, <3>1
  <2>5. \A i \in DOMAIN r : i \in DOMAIN q \/ i = n + 1
    <3>1. \A i \in DOMAIN r : i \in DOMAIN q \/ i - n = 1
      BY <2>1, <2>3
    <3> QED
      BY <2>3, <3>1
  <2>6. actions' = r
    BY <1>6, <2>1, <2>2, Zenon
  <2> QED
    BY <2>3, <2>4, <2>5, <2>6
<1>9. /\ \A a \in ToSet(actions) : \E b \in ToSet(actions') : b.kind = a.kind /\ b.uids = a.uids
      /\ \A b \in ToSet(actions') :
           b = o \/ \E a \in ToSet(actions) : b.kind = a.kind /\ b.uids = a.uids
                       /\ (b.stale => a.stale \/ a.kind \in {"Open", "Contents", "Headers"})
  <2>1. ASSUME NEW a \in ToSet(actions) PROVE \E b \in ToSet(q) : b.kind = a.kind /\ b.uids = a.uids
    <3>1. PICK i \in DOMAIN actions : a = actions[i]
      BY DEF ToSet
    <3>2. q[i] \in ToSet(q)
      BY <1>5 DEF ToSet
    <3> QED
      BY <1>5, <3>1, <3>2
  <2>2. ASSUME NEW b \in ToSet(q)
        PROVE  \E a \in ToSet(actions) : /\ b.kind = a.kind /\ b.uids = a.uids
                                         /\ (b.stale => a.stale \/ a.kind \in {"Open", "Contents", "Headers"})
    <3>1. PICK i \in DOMAIN actions : b = q[i]
      BY <1>5 DEF ToSet
    <3>2. actions[i] \in ToSet(actions)
      BY DEF ToSet
    <3> QED
      BY <1>5, <3>1, <3>2
  <2> QED
    BY <1>8, <2>1, <2>2
<1>10. /\ DOMAIN messages' = DOMAIN messages
       /\ \A i \in DOMAIN messages :
            /\ messages'[i].type = messages[i].type /\ messages'[i].uids = messages[i].uids
            /\ messages'[i].req.kind = messages[i].req.kind
            /\ messages'[i].req.uids = messages[i].req.uids
            /\ messages[i].req.kind = "Open" => messages'[i].req.stale
            /\ messages[i].req.kind # "Open" => messages'[i] = messages[i]
  BY <1>2, ReopenRight
<1>11. /\ \A m \in ToSet(messages) : \E w \in ToSet(messages') :
            /\ w.type = m.type /\ w.uids = m.uids
            /\ w.req.kind = m.req.kind /\ w.req.uids = m.req.uids
       /\ \A w \in ToSet(messages') : \E m \in ToSet(messages) :
            /\ w.type = m.type /\ w.uids = m.uids /\ (w.req.kind = "Open" => w.req.stale)
            /\ w.req.kind = m.req.kind /\ w.req.uids = m.req.uids
  BY <1>10 DEF ToSet
<1>12. UidsKnown' /\ FlagsCovered'
  BY <1>1, <1>3 DEF UidsKnown, FlagsCovered
<1>13. QueuesRight'
  <2>1. \A w \in ToSet(messages') : MessageRight(w)
    BY <1>1, <1>11 DEF QueuesRight, MessageRight, Distinct
  <2>2. \A b \in ToSet(actions') : ActionRight(b)
    BY <1>1, <1>6, <1>9 DEF QueuesRight, ActionRight
  <2>3. \A m \in ToSet(messages) : m.type = "Info" => m.req.kind = "Headers"
    BY <1>1 DEF QueuesRight, MessageRight
  <2>4. \A i \in DOMAIN messages : messages[i].type = "Info" => messages[i].req.kind # "Open"
    BY <2>3 DEF ToSet
  <2>5. Followed(messages')
    <3> SUFFICES ASSUME NEW i \in DOMAIN messages, messages'[i].type = "Info"
                 PROVE  i + 1 \in DOMAIN messages /\ messages'[i + 1].req = messages'[i].req
      BY <1>10 DEF Followed
    <3>1. messages[i].type = "Info" /\ messages[i].req.kind # "Open"
      BY <1>10, <2>4
    <3>2. i + 1 \in DOMAIN messages /\ messages[i + 1].req = messages[i].req
      BY <1>1, <3>1 DEF QueuesRight, Followed
    <3> QED
      BY <1>10, <3>1, <3>2
  <2> QED
    BY <2>1, <2>2, <2>5 DEF QueuesRight
<1>14. OldRight'
  <2>1. \A b \in ToSet(actions') : OldAction(b, nextUid)
    BY <1>1, <1>6, <1>9 DEF OldRight, OldAction, Removal
  <2>2. \A w \in ToSet(messages') : OldMessage(w, nextUid)
    BY <1>1, <1>11 DEF OldRight, OldMessage, OldAction
  <2> QED
    BY <1>1, <1>3, <2>1, <2>2 DEF OldRight
<1>15. GoneRight'
  <2>1. \A w \in ToSet(messages') : GoneMessage(w, box)
    BY <1>1, <1>11 DEF GoneRight, GoneMessage
  <2> QED
    BY <1>1, <1>3, <2>1 DEF GoneRight
<1>16. HeadersRequested'
  <2>1. \A a \in ToSet(actions) : a.kind = "Headers" => \E b \in Asked' : b.uids = a.uids
    BY <1>9 DEF Asked
  <2>2. \A m \in ToSet(messages) : m.req.kind = "Headers" => \E b \in Asked' : b.uids = m.req.uids
    BY <1>11 DEF Asked
  <2>3. \A a \in Asked : \E b \in Asked' : b.uids = a.uids
    BY <2>1, <2>2 DEF Asked
  <2> QED
    BY <1>1, <1>3, <2>3 DEF HeadersRequested
<1>17. MarkRight'
  <2>1. \A u : Removing(u) => Removing(u)'
    BY <1>9, <1>11 DEF Removing
  <2> QED
    BY <1>1, <1>3, <2>1 DEF MarkRight
<1>18. OpensRight'
  <2>1. \A i \in DOMAIN messages' : messages'[i].req.kind = "Open" => messages'[i].req.stale
    BY <1>10
  <2>2. \A w \in ToSet(messages') : w.req.kind = "Open" => w.req.stale
    BY <1>11
  <2>3. \A i, j \in DOMAIN actions' : i < j => i \in DOMAIN q
    BY <1>8
  <2>4. \A i \in DOMAIN q : actions'[i].kind = "Open" => actions'[i].stale
    BY <1>5, <1>8
  <2>5. \A i, j \in DOMAIN actions' :
          i < j /\ actions'[i].kind = "Open" /\ actions'[j].kind = "Open" => actions'[i].stale
    BY <2>3, <2>4
  <2> QED
    BY <1>3, <2>1, <2>2, <2>5 DEF OpensRight
<1>19. ListCovered'
  BY <1>3 DEF ListCovered
<1> QED
  BY <1>1, <1>12, <1>13, <1>14, <1>15, <1>16, <1>17, <1>18, <1>19 DEF IInv

-----------------------------------------------------------------------------
(* The handlers of the store *)

(* A handler takes the oldest message and posts requests for lists and for *)
(* headers; the mailbox and the worker do not notice.                      *)
Handles(as) ==
  /\ messages # <<>> /\ messages' = Tail(messages)
  /\ as \in Seq(Actions) /\ actions' = actions \o as
  /\ \A a \in ToSet(as) : a.kind \in {"Headers", "Contents"}
  /\ UNCHANGED <<box, nextUid, status, updates, taken, unseen>>

LEMMA HandlesSets ==
  ASSUME TypeOK, NEW as, Handles(as)
  PROVE  /\ ToSet(actions') = ToSet(actions) \cup ToSet(as)
         /\ \A i \in DOMAIN actions' : i \in DOMAIN actions \/ actions'[i] \in ToSet(as)
         /\ \A i \in DOMAIN actions : actions'[i] = actions[i]
         /\ msg = messages[1] /\ 1 \in DOMAIN messages /\ msg \in Messages /\ msg \in ToSet(messages)
         /\ messages' \in Seq(Messages) /\ ToSet(messages') \subseteq ToSet(messages)
         /\ \A m \in ToSet(messages) : m = msg \/ m \in ToSet(messages')
         /\ \A i \in DOMAIN messages' :
              i + 1 \in DOMAIN messages /\ messages'[i] = messages[i + 1] /\ i \in Nat /\ i >= 1
         /\ \A i \in DOMAIN messages : i \in Nat /\ i >= 1
         /\ \A i \in DOMAIN messages :
              i # 1 => i - 1 \in DOMAIN messages' /\ messages'[i - 1] = messages[i]
<1>1. actions \in Seq(Actions) /\ messages \in Seq(Messages) /\ QueuesType
  BY DEF TypeOK, QueuesType
<1>2. PICK p \in Seq(Actions) : p = actions
  BY <1>1
<1>3. PICK b \in Seq(Actions) : b = as
  BY DEF Handles
<1>4. actions' = p \o b
  BY <1>2, <1>3, Zenon DEF Handles
<1>5. /\ ToSet(p \o b) = ToSet(p) \cup ToSet(b)
      /\ \A i \in DOMAIN p : i \in DOMAIN (p \o b) /\ (p \o b)[i] = p[i]
      /\ \A i \in DOMAIN (p \o b) : i \in DOMAIN p \/ (p \o b)[i] \in ToSet(b)
      /\ \A x \in ToSet(p \o b) : x \in Actions
  BY GrowQueue, Zenon
<1>6. PICK q \in Seq(Messages) : q = messages /\ q # <<>>
  BY <1>1 DEF Handles
<1>7. messages' = Tail(q) /\ msg = Head(q)
  BY <1>6 DEF Handles, msg
<1>8. /\ Head(q) = q[1] /\ 1 \in DOMAIN q /\ Head(q) \in Messages /\ Tail(q) \in Seq(Messages)
      /\ \A i \in DOMAIN Tail(q) : i + 1 \in DOMAIN q /\ Tail(q)[i] = q[i + 1]
      /\ \A i \in DOMAIN q : i # 1 => i - 1 \in DOMAIN Tail(q) /\ Tail(q)[i - 1] = q[i]
  BY <1>6, TailRight
<1>9. /\ Head(q) \in ToSet(q) /\ ToSet(Tail(q)) \subseteq ToSet(q)
      /\ \A x \in ToSet(q) : x = Head(q) \/ x \in ToSet(Tail(q))
  BY <1>6, TailSet
<1>10. PICK r \in Seq(Messages) : r = Tail(q)
  BY <1>8
<1>11. /\ \A i \in DOMAIN r : i \in Nat /\ i >= 1
       /\ \A i \in DOMAIN q : i \in Nat /\ i >= 1
  OBVIOUS
<1> QED
  BY <1>2, <1>3, <1>4, <1>5, <1>6, <1>7, <1>8, <1>9, <1>10, <1>11

LEMMA HandlesParts ==
  ASSUME IInv, NEW as, Handles(as)
  PROVE  /\ QueuesRight' /\ GoneRight' /\ FlagsCovered'
         /\ \A a \in ToSet(actions') : OldAction(a, nextUid)
         /\ \A m \in ToSet(messages') : OldMessage(m, nextUid)
         /\ MessageRight(msg) /\ OldMessage(msg, nextUid) /\ GoneMessage(msg, box)
<1>1. TypeOK /\ QueuesRight /\ OldRight /\ GoneRight /\ FlagsCovered
  BY DEF IInv
<1>2. /\ ToSet(actions') = ToSet(actions) \cup ToSet(as)
      /\ msg \in ToSet(messages) /\ messages' \in Seq(Messages)
      /\ ToSet(messages') \subseteq ToSet(messages)
  BY <1>1, HandlesSets
<1>3. \A a \in ToSet(as) : a.kind \in {"Headers", "Contents"}
  BY DEF Handles
<1>4. UNCHANGED <<box, nextUid, status, updates, taken, unseen>> /\ messages # <<>> /\ messages' = Tail(messages)
  BY DEF Handles
<1>5. \A a \in ToSet(actions') : ActionRight(a) /\ OldAction(a, nextUid)
  BY <1>1, <1>2, <1>3 DEF QueuesRight, OldRight, ActionRight, OldAction, Removal
<1>6. Followed(messages')
  <2>1. messages \in Seq(Messages) /\ Followed(messages)
    BY <1>1 DEF TypeOK, QueuesRight
  <2> QED
    BY <1>4, <2>1, FollowedTail
<1>7. QueuesRight'
  BY <1>1, <1>2, <1>5, <1>6 DEF QueuesRight
<1>8. GoneRight'
  BY <1>1, <1>2, <1>4 DEF GoneRight
<1>9. FlagsCovered'
  BY <1>1, <1>4 DEF FlagsCovered
<1>10. \A m \in ToSet(messages') : OldMessage(m, nextUid)
  BY <1>1, <1>2 DEF OldRight
<1>11. MessageRight(msg) /\ OldMessage(msg, nextUid) /\ GoneMessage(msg, box)
  BY <1>1, <1>2 DEF QueuesRight, OldRight, GoneRight
<1> QED
  BY <1>5, <1>7, <1>8, <1>9, <1>10, <1>11

(* Headers stay pending as long as another answer is to come. *)
LEMMA HandlesHeaders ==
  ASSUME TypeOK, QueuesRight, HeadersRequested, NEW as, Handles(as),
         \A u \in pending' : u \in pending \/ \E a \in ToSet(as) : a.kind = "Headers" /\ u \in a.uids,
         \/ msg.req.kind # "Headers"
         \/ msg.type = "Info"
         \/ \A u \in pending' : u \in msg.req.uids =>
              \E a \in ToSet(as) : a.kind = "Headers" /\ u \in a.uids
  PROVE  HeadersRequested'
<1>1. ToSet(actions') = ToSet(actions) \cup ToSet(as)
  BY HandlesSets
<1>2. /\ \A m \in ToSet(messages) : m = msg \/ m \in ToSet(messages')
      /\ msg = messages[1] /\ 1 \in DOMAIN messages
      /\ \A i \in DOMAIN messages : i # 1 => i - 1 \in DOMAIN messages' /\ messages'[i - 1] = messages[i]
  BY HandlesSets
<1>3. \A a \in ToSet(as) : a.kind = "Headers" => a \in Asked'
  BY <1>1 DEF Asked
<1>4. \A a \in Asked : a = msg.req \/ a \in Asked'
  BY <1>1, <1>2 DEF Asked
<1>5. msg.type = "Info" /\ msg.req.kind = "Headers" => msg.req \in Asked'
  <2> SUFFICES ASSUME msg.type = "Info", msg.req.kind = "Headers" PROVE msg.req \in Asked'
    OBVIOUS
  <2>1. 2 \in DOMAIN messages /\ messages[2].req = msg.req
    BY <1>2 DEF QueuesRight, Followed
  <2>2. 1 \in DOMAIN messages' /\ messages'[1].req = msg.req
    BY <1>2, <2>1
  <2>3. messages'[1] \in ToSet(messages')
    BY <2>2 DEF ToSet
  <2>4. PICK r : r = msg.req
    OBVIOUS
  <2>5. r \in {m.req : m \in ToSet(messages')}
    BY <2>2, <2>3, <2>4
  <2>6. r \in Asked'
    BY <2>4, <2>5 DEF Asked
  <2> QED
    BY <2>4, <2>6
<1>6. PICK S : S = Asked'
  OBVIOUS
<1>7. ASSUME NEW u \in pending' PROVE \E a \in S : u \in a.uids
  <2>1. CASE \E a \in ToSet(as) : a.kind = "Headers" /\ u \in a.uids
    BY <1>3, <1>6, <2>1
  <2>2. CASE u \in pending /\ ~\E a \in ToSet(as) : a.kind = "Headers" /\ u \in a.uids
    <3>1. PICK a \in Asked : u \in a.uids
      BY <2>2 DEF HeadersRequested
    <3>2. a.kind = "Headers"
      BY DEF Asked
    <3>3. CASE a = msg.req
      <4>1. msg.req.kind = "Headers" /\ u \in msg.req.uids
        BY <3>1, <3>2, <3>3
      <4>2. msg.req \in S
        BY <1>5, <1>6, <1>7, <2>2, <4>1
      <4> QED
        BY <3>1, <3>3, <4>2
    <3>4. CASE a # msg.req
      BY <1>4, <1>6, <3>1, <3>4
    <3> QED
      BY <3>3, <3>4
  <2> QED
    BY <1>7, <2>1, <2>2
<1>8. pending' \subseteq UNION {a.uids : a \in S}
  BY <1>7
<1> QED
  BY <1>6, <1>8 DEF HeadersRequested

(* The marks of a command that is answered go, or its messages are gone.   *)
LEMMA HandlesMarks ==
  ASSUME TypeOK, MarkRight, NEW as, Handles(as), deleted' \subseteq deleted,
         msg.req.kind \in Removal /\ "Move" \notin Unsupported => \A u \in deleted' \cap msg.req.uids : u \notin box
  PROVE  MarkRight'
<1>1. /\ ToSet(actions') = ToSet(actions) \cup ToSet(as)
      /\ \A m \in ToSet(messages) : m = msg \/ m \in ToSet(messages')
  BY HandlesSets
<1>2. box' = box
  BY DEF Handles
<1>3. \A u : Removing(u) => Removing(u)' \/ (msg.req.kind \in Removal /\ u \in msg.req.uids)
  BY <1>1 DEF Removing
<1> QED
  BY <1>2, <1>3 DEF MarkRight

(* The opening that brings a live context is the last one under way. *)
LEMMA HandlesOpens ==
  ASSUME TypeOK, OpensRight, NEW as, Handles(as),
         fresh' => fresh \/ (msg.req.kind = "Open" /\ ~msg.req.stale)
  PROVE  OpensRight'
<1>1. /\ ToSet(actions') = ToSet(actions) \cup ToSet(as)
      /\ \A i \in DOMAIN actions' : i \in DOMAIN actions \/ actions'[i] \in ToSet(as)
      /\ \A i \in DOMAIN actions : actions'[i] = actions[i]
      /\ msg = messages[1] /\ 1 \in DOMAIN messages /\ msg \in ToSet(messages)
      /\ ToSet(messages') \subseteq ToSet(messages)
  BY HandlesSets
<1>2. /\ \A i \in DOMAIN messages' :
           i + 1 \in DOMAIN messages /\ messages'[i] = messages[i + 1] /\ i \in Nat /\ i >= 1
  BY HandlesSets
<1>3. \A a \in ToSet(as) : a.kind # "Open"
  BY DEF Handles
<1>4. \A i, j \in DOMAIN messages' :
        i < j /\ messages'[i].req.kind = "Open" /\ messages'[j].req.kind = "Open" => messages'[i].req.stale
  <2> SUFFICES ASSUME NEW i \in DOMAIN messages', NEW j \in DOMAIN messages', i < j,
                      messages'[i].req.kind = "Open", messages'[j].req.kind = "Open"
               PROVE  messages'[i].req.stale
    OBVIOUS
  <2>1. i + 1 \in DOMAIN messages /\ j + 1 \in DOMAIN messages /\ i + 1 < j + 1
        /\ messages'[i] = messages[i + 1] /\ messages'[j] = messages[j + 1]
    BY <1>2
  <2> QED
    BY <2>1 DEF OpensRight
<1>5. \A i, j \in DOMAIN actions' :
        i < j /\ actions'[i].kind = "Open" /\ actions'[j].kind = "Open" => actions'[i].stale
  BY <1>1, <1>3 DEF OpensRight
<1>6. \A m \in ToSet(messages'), a \in ToSet(actions') : m.req.kind = "Open" /\ a.kind = "Open" => m.req.stale
  BY <1>1, <1>3 DEF OpensRight
<1>7. ASSUME fresh' PROVE /\ \A m \in ToSet(messages') : m.req.kind # "Open"
                          /\ \A a \in ToSet(actions') : a.kind # "Open"
  <2>1. CASE fresh
    BY <1>1, <1>3, <2>1 DEF OpensRight
  <2>2. CASE msg.req.kind = "Open" /\ ~msg.req.stale
    <3>1. \A a \in ToSet(actions') : a.kind # "Open"
      BY <1>1, <1>3, <2>2 DEF OpensRight
    <3>2. ASSUME NEW m \in ToSet(messages') PROVE m.req.kind # "Open"
      <4>1. PICK i \in DOMAIN messages' : m = messages'[i]
        BY DEF ToSet
      <4>2. i + 1 \in DOMAIN messages /\ m = messages[i + 1] /\ 1 < i + 1
        BY <1>2, <4>1
      <4> QED
        BY <1>1, <2>2, <4>2 DEF OpensRight
    <3> QED
      BY <3>1, <3>2
  <2> QED
    BY <1>7, <2>1, <2>2
<1> QED
  BY <1>4, <1>5, <1>6, <1>7 DEF OpensRight

(* A row that a handler leaves or adds is covered by what was known of it, *)
(* and so is a message that still has no row.                              *)
KeepsRow(u) == /\ u \in ToSet(uids) /\ msg.type \notin ListChange
               /\ ~(msg.type = "Deleted" /\ u \in ToSet(msg.uids)) /\ (kept => kept')
TakesRow(u) == msg.type \in {"Contents", "Flags"} /\ u \in ToSet(msg.uids)
LacksRow(u) == \/ msg.type = "Contents" /\ u \notin ToSet(msg.uids)
               \/ u \notin ToSet(uids) /\ msg.type \notin ListChange

LEMMA HandlesCover ==
  ASSUME TypeOK, ListCovered, NEW as, Handles(as),
         Sorting' \/ (fresh' => /\ fresh
                                /\ \A u \in ToSet(uids') : kept' \/ KeepsRow(u) \/ TakesRow(u)
                                /\ \A u \in box : u \in ToSet(uids') \/ LacksRow(u))
  PROVE  ListCovered'
<1>1. box' = box /\ UNCHANGED <<status, updates, unseen>>
  BY DEF Handles
<1>2. /\ ToSet(actions') = ToSet(actions) \cup ToSet(as)
      /\ msg = messages[1] /\ 1 \in DOMAIN messages
  BY HandlesSets
<1>3. /\ \A i \in DOMAIN messages' :
           i + 1 \in DOMAIN messages /\ messages'[i] = messages[i + 1] /\ i \in Nat /\ i >= 1
      /\ \A i \in DOMAIN messages : i \in Nat /\ i >= 1
      /\ \A i \in DOMAIN messages : i # 1 => i - 1 \in DOMAIN messages' /\ messages'[i - 1] = messages[i]
  BY HandlesSets
<1>4. CASE Sorting'
  <2>1. \A u : WorkerDrops(u)' /\ WorkerAdds(u)'
    BY <1>4 DEF WorkerDrops, WorkerAdds
  <2> QED
    BY <2>1 DEF ListCovered, RowsCovered, BoxCovered, Dropped, Added
<1>5. CASE ~fresh'
  BY <1>5 DEF ListCovered
<1>6. CASE /\ fresh
           /\ \A u \in ToSet(uids') : kept' \/ KeepsRow(u) \/ TakesRow(u)
           /\ \A u \in box : u \in ToSet(uids') \/ LacksRow(u)
  <2>1. /\ \A u : WorkerDrops(u) => WorkerDrops(u)'
        /\ \A u : WorkerAdds(u) => WorkerAdds(u)'
    <3>1. (Sorting => Sorting') /\ (Checking => Checking')
      BY <1>1, <1>2 DEF Sorting, Checking
    <3>2. \A u : Leaving(u)' = Leaving(u)
      BY <1>1 DEF Leaving
    <3> QED
      BY <1>1, <3>1, <3>2 DEF WorkerDrops, WorkerAdds
  <2>2. ASSUME NEW k \in Nat
        PROVE  /\ LaterList(messages, k + 1) => LaterList(messages', k)
               /\ \A u : LaterGone(messages, u, k + 1) => LaterGone(messages', u, k)
    <3>1. \A j \in DOMAIN messages : j > k + 1 => j - 1 \in DOMAIN messages' /\ j - 1 > k /\ messages'[j - 1] = messages[j]
      BY <1>3, <2>2
    <3>2. LaterList(messages, k + 1) => LaterList(messages', k)
      BY <3>1 DEF LaterList
    <3>3. \A u : LaterGone(messages, u, k + 1) => LaterGone(messages', u, k)
      BY <3>1 DEF LaterGone
    <3> QED
      BY <3>2, <3>3
  <2>3. /\ LaterList(messages, 0) => LaterList(messages, 1) \/ msg.type \in ListChange
        /\ \A u : LaterGone(messages, u, 0) => LaterGone(messages, u, 1) \/ (msg.type = "Deleted" /\ u \in ToSet(msg.uids))
    <3>1. \A j \in DOMAIN messages : j > 1 \/ messages[j] = msg
      BY <1>2, <1>3
    <3> QED
      BY <3>1 DEF LaterList, LaterGone
  <2>4. RowsCovered /\ BoxCovered
    BY <1>6 DEF ListCovered
  <2>5. ASSUME NEW k \in Nat, NEW u, Dropped(u, k + 1) PROVE Dropped(u, k)'
    <3>1. k + 1 # 0
      BY <2>5
    <3>2. WorkerDrops(u) \/ LaterList(messages, k + 1) \/ LaterGone(messages, u, k + 1)
      BY <2>5, <3>1 DEF Dropped
    <3> QED
      BY <2>1, <2>2, <3>2 DEF Dropped
  <2>6. ASSUME NEW k \in Nat, NEW u, Added(u, k + 1) PROVE Added(u, k)'
    BY <2>1, <2>2, <2>6 DEF Added
  <2>7. 0 \in Nat /\ 0 + 1 = 1
    OBVIOUS
  <2>8. ASSUME NEW u \in ToSet(uids') PROVE Dropped(u, 0)'
    <3>1. CASE kept'
      BY <3>1 DEF Dropped
    <3>2. CASE KeepsRow(u) /\ ~kept'
      <4>1. Dropped(u, 0) /\ ~kept
        BY <2>4, <3>2 DEF RowsCovered, KeepsRow
      <4>2. WorkerDrops(u) \/ LaterList(messages, 1) \/ LaterGone(messages, u, 1)
        BY <2>3, <3>2, <4>1 DEF Dropped, KeepsRow
      <4> QED
        BY <2>5, <2>7, <4>2 DEF Dropped
    <3>3. CASE TakesRow(u)
      <4>1. Dropped(u, 1)
        BY <1>2, <2>4, <3>3 DEF RowsCovered, TakesRow
      <4> QED
        BY <2>5, <2>7, <4>1
    <3> QED
      BY <1>6, <3>1, <3>2, <3>3
  <2>9. ASSUME NEW k \in DOMAIN messages', messages'[k].type \in {"Contents", "Flags"},
               NEW u \in ToSet(messages'[k].uids)
        PROVE  Dropped(u, k)'
    <3>1. k + 1 \in DOMAIN messages /\ messages'[k] = messages[k + 1] /\ k \in Nat
      BY <1>3
    <3>2. Dropped(u, k + 1)
      BY <2>4, <2>9, <3>1 DEF RowsCovered
    <3> QED
      BY <2>5, <3>1, <3>2
  <2>10. ASSUME NEW u \in box, u \notin ToSet(uids') PROVE Added(u, 0)'
    <3>1. CASE msg.type = "Contents" /\ u \notin ToSet(msg.uids)
      <4>1. Added(u, 1)
        BY <1>2, <2>4, <3>1 DEF BoxCovered
      <4> QED
        BY <2>6, <2>7, <4>1
    <3>2. CASE u \notin ToSet(uids) /\ msg.type \notin ListChange
      <4>1. Added(u, 0)
        BY <2>4, <3>2 DEF BoxCovered
      <4>2. Added(u, 1)
        BY <2>3, <3>2, <4>1 DEF Added
      <4> QED
        BY <2>6, <2>7, <4>2
    <3> QED
      BY <1>6, <2>10, <3>1, <3>2 DEF LacksRow
  <2>11. ASSUME NEW k \in DOMAIN messages', messages'[k].type = "Contents",
                NEW u \in box, u \notin ToSet(messages'[k].uids)
         PROVE  Added(u, k)'
    <3>1. k + 1 \in DOMAIN messages /\ messages'[k] = messages[k + 1] /\ k \in Nat
      BY <1>3
    <3>2. Added(u, k + 1)
      BY <2>4, <2>11, <3>1 DEF BoxCovered
    <3> QED
      BY <2>6, <3>1, <3>2
  <2>12. RowsCovered'
    BY <2>8, <2>9 DEF RowsCovered
  <2>13. BoxCovered'
    BY <1>1, <2>10, <2>11 DEF BoxCovered
  <2> QED
    BY <2>12, <2>13 DEF ListCovered
<1> QED
  BY <1>4, <1>5, <1>6

LEMMA HandlesStep ==
  ASSUME IInv, NEW as, Handles(as), StoreType', KeepRest, dirty' \in BOOLEAN, UidsKnown',
         \A u \in DOMAIN known' : u \in DOMAIN known \/ u \in ToSet(msg.uids),
         deleted' \subseteq deleted,
         msg.req.kind \in Removal /\ "Move" \notin Unsupported => \A u \in deleted' \cap msg.req.uids : u \notin box,
         \A u \in pending' : u \in pending \/ \E a \in ToSet(as) : a.kind = "Headers" /\ u \in a.uids,
         \/ msg.req.kind # "Headers"
         \/ msg.type = "Info"
         \/ \A u \in pending' : u \in msg.req.uids =>
              \E a \in ToSet(as) : a.kind = "Headers" /\ u \in a.uids,
         fresh' => fresh \/ (msg.req.kind = "Open" /\ ~msg.req.stale),
         Sorting' \/ (fresh' => /\ fresh
                                /\ \A u \in ToSet(uids') : kept' \/ KeepsRow(u) \/ TakesRow(u)
                                /\ \A u \in box : u \in ToSet(uids') \/ LacksRow(u))
  PROVE  IInv'
<1>1. /\ TypeOK /\ UidsKnown /\ QueuesRight /\ OldRight /\ GoneRight /\ HeadersRequested
      /\ MarkRight /\ OpensRight /\ FlagsCovered /\ ListCovered
  BY DEF IInv
<1>2. TypeOK'
  <2>1. WorkerType /\ ServerType /\ ListType /\ BoundsType /\ QueuesType
    BY <1>1, TypeParts
  <2>2. WorkerType' /\ ServerType' /\ ListType' /\ BoundsType'
    BY <2>1 DEF KeepRest, WorkerType, ServerType, ListType, BoundsType, server, worker, list, bounds
  <2>3. messages' \in Seq(Messages)
    BY <1>1, HandlesSets
  <2>4. actions' \in Seq(Actions)
    <3>1. actions \in Seq(Actions) /\ as \in Seq(Actions) /\ actions' = actions \o as
      BY <2>1 DEF QueuesType, Handles
    <3> QED
      BY <3>1, JoinRight
  <2> QED
    BY <2>2, <2>3, <2>4 DEF TypeOK, StoreType, WorkerType, ServerType, ListType, BoundsType
<1>3. /\ QueuesRight' /\ GoneRight' /\ FlagsCovered'
      /\ \A a \in ToSet(actions') : OldAction(a, nextUid)
      /\ \A m \in ToSet(messages') : OldMessage(m, nextUid)
      /\ OldMessage(msg, nextUid)
  BY HandlesParts
<1>4. HeadersRequested'
  BY <1>1, HandlesHeaders
<1>5. MarkRight'
  BY <1>1, HandlesMarks
<1>6. OpensRight'
  BY <1>1, HandlesOpens
<1>7. ListCovered'
  BY <1>1, HandlesCover
<1>8. OldRight'
  <2>1. UNCHANGED <<box, nextUid, status, updates>>
    BY DEF Handles
  <2>2. \A u \in DOMAIN known' \cup deleted' : u < nextUid
    BY <1>1, <1>3 DEF OldRight, OldMessage
  <2> QED
    BY <1>1, <1>3, <2>1, <2>2 DEF OldRight
<1> QED
  BY <1>2, <1>3, <1>4, <1>5, <1>6, <1>7, <1>8 DEF IInv

(* A handler that posts nothing, and one whose list stays as it is. *)
LEMMA PostsNothing ==
  ASSUME TypeOK, messages # <<>>, messages' = Tail(messages), actions' = actions, KeepRest
  PROVE  Handles(<<>>)
<1>1. actions' = actions \o <<>>
  BY Nothing
<1>2. UNCHANGED <<box, nextUid, status, updates, taken, unseen>>
  BY DEF KeepRest, server, worker
<1> QED
  BY <1>1, <1>2, Nothing DEF Handles

LEMMA SameRows ==
  ASSUME UNCHANGED <<uids, kept>>, msg.type \notin ListChange \cup {"Deleted"}
  PROVE  /\ \A u \in ToSet(uids') : kept' \/ KeepsRow(u) \/ TakesRow(u)
         /\ \A u \in box : u \in ToSet(uids') \/ LacksRow(u)
BY DEF KeepsRow, LacksRow

LEMMA FinalTypes == Final \cap (ListChange \cup {"Deleted", "Info", "Flags"}) = {}
BY DEF Final, ListChange

LEMMA OnSortedStep == ASSUME IInv, OnSorted PROVE IInv'
<1>1. TypeOK /\ StoreType /\ UidsKnown
  BY TypeParts DEF IInv
<1>2. /\ messages # <<>> /\ messages' = Tail(messages) /\ dirty' = TRUE /\ msg.type \in Final
      /\ msg.req.kind = "Contents" /\ selected' = SortReturned(msg.req.idx) /\ KeepRest
      /\ UNCHANGED <<actions, known, uids, deleted, pending, fresh, crashed, kept>>
  BY DEF OnSorted, GotAnswer, Got
<1>3. Handles(<<>>)
  BY <1>1, <1>2, PostsNothing
<1>4. msg.req.idx \in Nat
  BY <1>1, <1>3, HandlesSets, FieldTypes
<1>5. selected' \in UIDs \cup {MagicUid}
  BY <1>1, <1>2, <1>4, SortReturnedRight
<1>6. StoreType' /\ UidsKnown' /\ dirty' \in BOOLEAN
  BY <1>1, <1>2, <1>5 DEF StoreType, UidsKnown
<1>7. /\ \A u \in ToSet(uids') : kept' \/ KeepsRow(u) \/ TakesRow(u)
      /\ \A u \in box : u \in ToSet(uids') \/ LacksRow(u)
  BY <1>2, FinalTypes, SameRows
<1>8. msg.req.kind \notin Removal /\ msg.req.kind # "Headers"
  BY <1>2 DEF Removal
<1> QED
  BY <1>2, <1>3, <1>6, <1>7, <1>8, HandlesStep

LEMMA OnHeadersStep == ASSUME IInv, OnHeaders PROVE IInv'
<1>1. TypeOK /\ StoreType /\ UidsKnown
  BY TypeParts DEF IInv
<1>2. /\ messages # <<>> /\ messages' = Tail(messages) /\ dirty' = TRUE /\ msg.type \in Final
      /\ msg.req.kind = "Headers" /\ pending' = pending \ msg.req.uids /\ KeepRest
      /\ UNCHANGED <<actions, known, uids, selected, deleted, fresh, crashed, kept>>
  BY DEF OnHeaders, GotAnswer, Got
<1>3. Handles(<<>>)
  BY <1>1, <1>2, PostsNothing
<1>4. StoreType' /\ UidsKnown' /\ dirty' \in BOOLEAN
  BY <1>1, <1>2 DEF StoreType, UidsKnown
<1>5. /\ \A u \in ToSet(uids') : kept' \/ KeepsRow(u) \/ TakesRow(u)
      /\ \A u \in box : u \in ToSet(uids') \/ LacksRow(u)
  BY <1>2, FinalTypes, SameRows
<1>6. msg.req.kind \notin Removal
  BY <1>2 DEF Removal
<1>7. \A u \in pending' : u \in pending /\ u \notin msg.req.uids
  BY <1>2
<1> QED
  BY <1>2, <1>3, <1>4, <1>5, <1>6, <1>7, HandlesStep

LEMMA OnRemovedStep == ASSUME IInv, OnRemoved PROVE IInv'
<1>1. TypeOK /\ StoreType /\ UidsKnown
  BY TypeParts DEF IInv
<1> DEFINE failed == msg.type # "Done"
           delete == msg.req.kind = "Delete"
<1>2. /\ messages # <<>> /\ messages' = Tail(messages) /\ dirty' = TRUE /\ msg.type \in Final
      /\ msg.req.kind \in Removal /\ KeepRest
      /\ UNCHANGED <<actions, known, uids, pending, fresh, kept>>
      /\ deleted' = IF failed /\ (delete \/ msg.type = "Error") THEN deleted \ msg.req.uids ELSE deleted
      /\ crashed' = (failed /\ delete /\ msg.req.sel = MagicUid)
      /\ selected' = CASE failed /\ delete -> msg.req.sel
                       [] ~failed /\ ~msg.req.next -> IF uids = <<>> THEN MagicUid ELSE uids[1]
                       [] OTHER -> selected
  BY DEF OnRemoved, GotAnswer, Got, Removal
<1>3. Handles(<<>>)
  BY <1>1, <1>2, PostsNothing
<1>4. msg \in Messages /\ msg.req \in Actions /\ msg.req.sel \in UIDs \cup {MagicUid} /\ msg.req.next \in BOOLEAN
  BY <1>1, <1>3, HandlesSets, FieldTypes
<1>5. uids # <<>> => uids[1] \in UIDs
  BY <1>1 DEF StoreType
<1>6. selected' \in UIDs \cup {MagicUid}
  <2>1. CASE failed /\ delete
    BY <1>2, <1>4, <2>1
  <2>2. CASE ~failed /\ ~msg.req.next
    BY <1>2, <1>5, <2>2
  <2>3. CASE ~(failed /\ delete) /\ ~(~failed /\ ~msg.req.next)
    BY <1>1, <1>2, <2>3 DEF StoreType
  <2> QED
    BY <2>1, <2>2, <2>3
<1>7. crashed' \in BOOLEAN /\ deleted' \subseteq deleted
  BY <1>2
<1>8. StoreType' /\ UidsKnown' /\ dirty' \in BOOLEAN
  BY <1>1, <1>2, <1>6, <1>7 DEF StoreType, UidsKnown
<1>9. /\ \A u \in ToSet(uids') : kept' \/ KeepsRow(u) \/ TakesRow(u)
      /\ \A u \in box : u \in ToSet(uids') \/ LacksRow(u)
  BY <1>2, FinalTypes, SameRows
<1>10. MessageRight(msg) /\ GoneMessage(msg, box)
  BY <1>3, HandlesParts
<1>11. msg.req.kind # "Headers"
  BY <1>2 DEF Removal
<1>12. ASSUME "Move" \notin Unsupported, NEW u \in deleted' \cap msg.req.uids PROVE u \notin box
  <2>1. CASE msg.type = "Done"
    BY <1>2, <1>10, <1>12, <2>1 DEF GoneMessage
  <2>2. CASE msg.type # "Done"
    <3>1. ~delete /\ msg.type # "Error"
      BY <1>2, <1>12, <2>2
    <3>2. msg.type = "Unsupported" /\ msg.req.kind = "Move"
      BY <1>2, <1>10, <2>2, <3>1 DEF MessageRight, Final, Removal
    <3> QED
      BY <1>10, <1>12, <3>2 DEF MessageRight
  <2> QED
    BY <2>1, <2>2
<1> HIDE DEF failed, delete
<1> QED
  BY <1>2, <1>3, <1>7, <1>8, <1>9, <1>11, <1>12, HandlesStep

LEMMA OnInfoStep == ASSUME IInv, OnInfo PROVE IInv'
<1>1. TypeOK /\ StoreType /\ UidsKnown
  BY TypeParts DEF IInv
<1>2. /\ messages # <<>> /\ messages' = Tail(messages) /\ dirty' = TRUE /\ msg.type = "Info" /\ KeepRest
      /\ UNCHANGED <<actions, uids, selected, deleted, fresh, crashed, kept>>
      /\ known' = [u \in DOMAIN known \cup ToSet(msg.uids) |-> IF u \in ToSet(msg.uids) THEN "info" ELSE known[u]]
      /\ pending' = pending \ ToSet(msg.uids)
  BY DEF OnInfo, Got
<1>3. Handles(<<>>)
  BY <1>1, <1>2, PostsNothing
<1>4. ToSet(msg.uids) \subseteq UIDs
  <2>1. msg.uids \in Seq(UIDs)
    BY <1>1, <1>3, HandlesSets, FieldTypes
  <2> QED
    BY <2>1 DEF ToSet
<1>5. StoreType' /\ dirty' \in BOOLEAN
  BY <1>1, <1>2, <1>4 DEF StoreType
<1>6. UidsKnown'
  BY <1>1, <1>2 DEF UidsKnown
<1>7. /\ \A u \in ToSet(uids') : kept' \/ KeepsRow(u) \/ TakesRow(u)
      /\ \A u \in box : u \in ToSet(uids') \/ LacksRow(u)
  BY <1>2, SameRows DEF ListChange
<1>8. msg.req.kind \notin Removal
  <2>1. MessageRight(msg)
    BY <1>3, HandlesParts
  <2> QED
    BY <1>2, <2>1 DEF MessageRight, Removal
<1>9. /\ \A u \in DOMAIN known' : u \in DOMAIN known \/ u \in ToSet(msg.uids)
      /\ \A u \in pending' : u \in pending
  BY <1>2
<1> QED
  BY <1>2, <1>3, <1>5, <1>6, <1>7, <1>8, <1>9, HandlesStep

LEMMA OnContentsStep == ASSUME IInv, OnContents PROVE IInv'
<1>1. TypeOK /\ StoreType /\ QueuesType
  BY TypeParts DEF IInv
<1>2. PICK us, new :
        /\ us = msg.uids /\ new \subseteq ToSet(us)
        /\ known' = [u \in ToSet(us) |-> IF u \in DOMAIN known THEN known[u] ELSE "nil"] /\ uids' = us
        /\ actions' = actions \o FetchHeadersAction(new) /\ pending' = pending \cup new
  <2>1. PICK us, new : /\ us = msg.uids
                       /\ new = {u \in Rows(us, scroll, IF drawn THEN Height ELSE 25) : u \notin DOMAIN known}
    OBVIOUS
  <2>2. /\ known' = [u \in ToSet(us) |-> IF u \in DOMAIN known THEN known[u] ELSE "nil"] /\ uids' = us
        /\ actions' = actions \o FetchHeadersAction(new) /\ pending' = pending \cup new
    BY <2>1 DEF OnContents, Post
  <2>3. new \subseteq ToSet(us)
    BY <2>1, RowsRight
  <2> QED
    BY <2>1, <2>2, <2>3
<1>3. /\ messages # <<>> /\ messages' = Tail(messages) /\ dirty' = TRUE /\ msg.type = "Contents" /\ KeepRest
      /\ selected' = SortReturned(msg.req.idx) /\ kept' = FALSE
      /\ UNCHANGED <<deleted, fresh, crashed>>
  BY DEF OnContents, Got
<1>4. msg \in Messages /\ msg \in ToSet(messages)
  BY <1>1, <1>3, Receiving
<1>5. us \in Seq(UIDs) /\ ToSet(us) \subseteq UIDs /\ msg.req.idx \in Nat
  BY <1>2, <1>4, FieldTypes DEF ToSet
<1>6. PICK as \in Seq(Actions) :
        /\ as = FetchHeadersAction(new)
        /\ \A a \in ToSet(as) : a.kind = "Headers"
        /\ new \ pending # {} => \E a \in ToSet(as) : a.kind = "Headers" /\ a.uids = new \ pending
  <2>1. new \subseteq UIDs
    BY <1>2, <1>5
  <2> QED
    BY <1>1, <2>1, FetchHeadersType
<1>7. Handles(as)
  BY <1>2, <1>3, <1>6 DEF Handles, KeepRest, server, worker
<1>8. MessageRight(msg)
  BY <1>7, HandlesParts
<1>9. selected' \in UIDs \cup {MagicUid}
  BY <1>1, <1>3, <1>5, SortReturnedRight
<1>10. DOMAIN known' = ToSet(us) /\ \A u \in DOMAIN known' : known'[u] \in {"nil", "flags", "info"}
  BY <1>1, <1>2 DEF StoreType
<1>11. pending' \subseteq UIDs
  BY <1>1, <1>2, <1>5 DEF StoreType
<1>12. StoreType' /\ dirty' \in BOOLEAN
  BY <1>1, <1>2, <1>3, <1>5, <1>9, <1>10, <1>11 DEF StoreType
<1>13. UidsKnown'
  BY <1>2, <1>3, <1>8, <1>10 DEF UidsKnown, MessageRight, Distinct
<1>14. msg.req.kind \notin Removal /\ msg.req.kind # "Headers"
  BY <1>3, <1>8 DEF MessageRight, Removal
<1>15. /\ \A u \in ToSet(uids') : kept' \/ KeepsRow(u) \/ TakesRow(u)
       /\ \A u \in box : u \in ToSet(uids') \/ LacksRow(u)
  BY <1>2, <1>3 DEF TakesRow, LacksRow
<1>16. \A u \in pending' : u \in pending \/ \E a \in ToSet(as) : a.kind = "Headers" /\ u \in a.uids
  BY <1>2, <1>6
<1>17. \A u \in DOMAIN known' : u \in DOMAIN known \/ u \in ToSet(msg.uids)
  BY <1>2, <1>10
<1> QED
  BY <1>3, <1>7, <1>12, <1>13, <1>14, <1>15, <1>16, <1>17, HandlesStep

LEMMA OnFlagsStep == ASSUME IInv, OnFlags PROVE IInv'
<1>1. TypeOK /\ StoreType /\ UidsKnown /\ QueuesType
  BY TypeParts DEF IInv
<1>2. PICK u : u = msg.uids[1]
  OBVIOUS
<1>3. /\ messages # <<>> /\ messages' = Tail(messages) /\ dirty' = TRUE /\ msg.type = "Flags" /\ KeepRest
      /\ UNCHANGED <<actions, selected, deleted, pending, fresh, crashed, kept>>
      /\ known' = [v \in DOMAIN known \cup {u} |-> IF v = u /\ ~Loaded(u) THEN "flags" ELSE known[v]]
      /\ uids' = IF Loaded(u) \/ Contains(uids, u) THEN uids ELSE Append(uids, u)
  BY <1>2 DEF OnFlags, Got
<1>4. Handles(<<>>)
  BY <1>1, <1>3, PostsNothing
<1>5. MessageRight(msg)
  BY <1>4, HandlesParts
<1>6. ToSet(msg.uids) = {u} /\ u \in UIDs
  <2>1. msg.uids \in Seq(UIDs) /\ Len(msg.uids) = 1
    BY <1>1, <1>3, <1>5, Receiving, FieldTypes DEF MessageRight
  <2>2. DOMAIN msg.uids = {1}
    BY <2>1
  <2> QED
    BY <1>2, <2>1, <2>2 DEF ToSet
<1>7. PICK us \in Seq(UIDs) : us = uids /\ ToSet(us) \subseteq DOMAIN known /\ Distinct(us)
  BY <1>1 DEF StoreType, UidsKnown, Distinct
<1>8. Contains(us, u) <=> u \in ToSet(us)
  BY DEF Contains, ToSet
<1>9. Loaded(u) => u \in DOMAIN known
  BY DEF Loaded
<1>10. CASE uids' = us
  <2>1. DOMAIN known' = DOMAIN known \cup {u} /\ \A v \in DOMAIN known' : known'[v] \in {"nil", "flags", "info"}
    BY <1>1, <1>3, <1>9 DEF StoreType
  <2>2. StoreType' /\ UidsKnown' /\ dirty' \in BOOLEAN
    BY <1>1, <1>3, <1>6, <1>7, <1>10, <2>1 DEF StoreType, UidsKnown
  <2>3. UNCHANGED <<uids, kept>>
    BY <1>3, <1>7, <1>10
  <2>4. /\ \A v \in ToSet(uids') : kept' \/ KeepsRow(v) \/ TakesRow(v)
        /\ \A v \in box : v \in ToSet(uids') \/ LacksRow(v)
    BY <1>3, <2>3, SameRows DEF ListChange
  <2>5. msg.req.kind \notin Removal /\ msg.req.kind # "Headers"
    BY <1>3, <1>5 DEF MessageRight, Removal, ByItself
  <2>6. \A v \in DOMAIN known' : v \in DOMAIN known \/ v \in ToSet(msg.uids)
    BY <1>6, <2>1
  <2> QED
    BY <1>3, <1>4, <2>2, <2>4, <2>5, <2>6, HandlesStep
<1>11. CASE uids' # us
  <2>1. uids' = Append(us, u) /\ u \notin ToSet(us)
    BY <1>3, <1>7, <1>8, <1>11
  <2>2. PICK p \in Seq(UIDs) : p = us \o <<u>> /\ uids' = p
    <3>1. Append(us, u) = us \o <<u>>
      BY <1>6, AppendRight
    <3>2. Append(us, u) \in Seq(UIDs)
      BY <1>6
    <3> QED
      BY <2>1, <3>1, <3>2
  <2>3. ToSet(p) = ToSet(us) \cup {u}
    <3>1. PICK b \in Seq(UIDs) : b = <<u>> /\ ToSet(b) = {u}
      BY <1>6, AppendRight
    <3>2. ToSet(us \o b) = ToSet(us) \cup ToSet(b)
      BY JoinSet, Zenon
    <3> QED
      BY <2>2, <3>1, <3>2
  <2>4. Distinct(p)
    <3>1. PICK n \in Nat : n = Len(us)
      OBVIOUS
    <3>2. DOMAIN p = 1..(n + 1) /\ p[n + 1] = u /\ \A i \in 1..n : p[i] = us[i] /\ i \in DOMAIN us
      BY <2>2, <3>1
    <3>3. \A i \in 1..n : p[i] # u
      BY <2>1, <3>2 DEF ToSet
    <3>4. ASSUME NEW i \in 1..(n + 1), NEW j \in 1..(n + 1), p[i] = p[j] PROVE i = j
      <4>1. i \in 1..n \/ i = n + 1
        OBVIOUS
      <4>2. j \in 1..n \/ j = n + 1
        OBVIOUS
      <4> QED
        BY <1>7, <3>2, <3>3, <3>4, <4>1, <4>2 DEF Distinct
    <3> QED
      BY <3>2, <3>4 DEF Distinct
  <2>5. DOMAIN known' = DOMAIN known \cup {u} /\ \A v \in DOMAIN known' : known'[v] \in {"nil", "flags", "info"}
    BY <1>1, <1>3, <1>9 DEF StoreType
  <2>6. StoreType' /\ dirty' \in BOOLEAN
    BY <1>1, <1>3, <1>6, <2>2, <2>5 DEF StoreType
  <2>7. UidsKnown'
    BY <1>7, <2>2, <2>3, <2>4, <2>5 DEF UidsKnown, Distinct
  <2>8. /\ \A v \in ToSet(uids') : kept' \/ KeepsRow(v) \/ TakesRow(v)
        /\ \A v \in box : v \in ToSet(uids') \/ LacksRow(v)
    BY <1>3, <1>6, <1>7, <2>2, <2>3 DEF KeepsRow, TakesRow, LacksRow, ListChange
  <2>9. msg.req.kind \notin Removal /\ msg.req.kind # "Headers"
    BY <1>3, <1>5 DEF MessageRight, Removal, ByItself
  <2>10. \A v \in DOMAIN known' : v \in DOMAIN known \/ v \in ToSet(msg.uids)
    BY <1>6, <2>5
  <2> QED
    BY <1>3, <1>4, <2>6, <2>7, <2>8, <2>9, <2>10, HandlesStep
<1> QED
  BY <1>10, <1>11

LEMMA OnDeletedStep == ASSUME IInv, OnDeleted PROVE IInv'
<1>1. TypeOK /\ StoreType /\ UidsKnown /\ QueuesType
  BY TypeParts DEF IInv
<1>2. PICK gone : gone = ToSet(msg.uids)
  OBVIOUS
<1>3. /\ messages # <<>> /\ messages' = Tail(messages) /\ dirty' = TRUE /\ msg.type = "Deleted" /\ KeepRest
      /\ UNCHANGED <<actions, pending, fresh, crashed>>
      /\ \/ kept' = TRUE /\ UNCHANGED <<known, deleted, uids, selected>>
         \/ /\ known' = [u \in DOMAIN known \ gone |-> known[u]]
            /\ deleted' = deleted \ gone
            /\ uids' = Picked(uids, {i \in DOMAIN uids : uids[i] \notin gone})
            /\ selected' = IF uids' = <<>> THEN MagicUid ELSE selected
            /\ UNCHANGED kept
  BY <1>2 DEF OnDeleted, Got
<1>4. Handles(<<>>)
  BY <1>1, <1>3, PostsNothing
<1>5. MessageRight(msg) /\ GoneMessage(msg, box)
  BY <1>4, HandlesParts
<1>6. msg.req.kind \notin Removal /\ msg.req.kind # "Headers"
  BY <1>3, <1>5 DEF MessageRight, Removal, ByItself
<1>7. gone \cap box = {}
  BY <1>2, <1>3, <1>5 DEF GoneMessage
<1>8. CASE kept' = TRUE /\ UNCHANGED <<known, deleted, uids, selected>>
  <2>1. StoreType' /\ UidsKnown' /\ dirty' \in BOOLEAN
    BY <1>1, <1>3, <1>8 DEF StoreType, UidsKnown
  <2>2. /\ \A u \in ToSet(uids') : kept' \/ KeepsRow(u) \/ TakesRow(u)
        /\ \A u \in box : u \in ToSet(uids') \/ LacksRow(u)
    BY <1>3, <1>8 DEF LacksRow, ListChange
  <2> QED
    BY <1>3, <1>4, <1>6, <1>8, <2>1, <2>2, HandlesStep
<1>9. CASE /\ known' = [u \in DOMAIN known \ gone |-> known[u]]
           /\ deleted' = deleted \ gone
           /\ uids' = Picked(uids, {i \in DOMAIN uids : uids[i] \notin gone})
           /\ selected' = IF uids' = <<>> THEN MagicUid ELSE selected
           /\ UNCHANGED kept
  <2>1. PICK us \in Seq(UIDs) : us = uids
    BY <1>1 DEF StoreType
  <2>2. Distinct(us)
    BY <1>1, <2>1 DEF UidsKnown, Distinct
  <2>3. PICK left : left = Picked(us, Staying(us, gone))
    OBVIOUS
  <2>4. left \in Seq(UIDs) /\ ToSet(left) = ToSet(us) \ gone /\ Distinct(left)
    BY <2>2, <2>3, WithoutRight
  <2>5. uids' = left
    BY <1>9, <2>1, <2>3 DEF Staying
  <2>6. StoreType' /\ dirty' \in BOOLEAN
    BY <1>1, <1>3, <1>9, <2>4, <2>5 DEF StoreType
  <2>7. UidsKnown'
    BY <1>1, <1>9, <2>1, <2>4, <2>5 DEF UidsKnown, Distinct
  <2>8. /\ \A u \in ToSet(uids') : kept' \/ KeepsRow(u) \/ TakesRow(u)
        /\ \A u \in box : u \in ToSet(uids') \/ LacksRow(u)
    BY <1>2, <1>3, <1>7, <1>9, <2>1, <2>4, <2>5 DEF KeepsRow, LacksRow, ListChange
  <2>9. deleted' \subseteq deleted /\ \A u \in DOMAIN known' : u \in DOMAIN known
    BY <1>9
  <2> QED
    BY <1>3, <1>4, <1>6, <2>6, <2>7, <2>8, <2>9, HandlesStep
<1> QED
  BY <1>3, <1>8, <1>9

(* A sort with the context of the store puts everything right. *)
LEMMA PostsSort ==
  ASSUME TypeOK, messages # <<>>, messages' = Tail(messages), KeepRest, NEW stale \in BOOLEAN,
         Post(<<SortAction(uids, selected, stale)>>)
  PROVE  \E as \in Seq(Actions) : /\ Handles(as) /\ (~stale => Sorting')
<1>1. PICK a \in Actions : /\ a = SortAction(uids, selected, stale)
                           /\ a.kind = "Contents" /\ a.stale = stale
  BY SortActionType
<1>2. <<a>> \in Seq(Actions) /\ ToSet(<<a>>) = {a}
  BY ShortSets
<1>3. actions' = actions \o <<a>>
  BY <1>1 DEF Post
<1>4. Handles(<<a>>)
  BY <1>1, <1>2, <1>3 DEF Handles, KeepRest, server, worker
<1>5. a \in ToSet(actions')
  BY <1>2, <1>4, HandlesSets
<1>6. ~stale => Sorting'
  BY <1>1, <1>5 DEF Sorting
<1> QED
  BY <1>2, <1>4, <1>6

LEMMA OnRefetchStep == ASSUME IInv, OnRefetch PROVE IInv'
<1>1. TypeOK /\ StoreType /\ UidsKnown
  BY TypeParts DEF IInv
<1>2. /\ messages # <<>> /\ messages' = Tail(messages) /\ dirty' = TRUE /\ msg.type = "Refetch" /\ KeepRest
      /\ Post(<<SortAction(uids, selected, ~fresh)>>)
      /\ UNCHANGED <<known, uids, selected, deleted, pending, fresh, crashed, kept>>
  BY DEF OnRefetch, Got, store
<1>3. PICK stale \in BOOLEAN : stale = (~fresh)
  OBVIOUS
<1>4. PICK as \in Seq(Actions) : Handles(as) /\ (~stale => Sorting')
  BY <1>1, <1>2, <1>3, PostsSort
<1>5. StoreType' /\ UidsKnown' /\ dirty' \in BOOLEAN
  BY <1>1, <1>2 DEF StoreType, UidsKnown
<1>6. msg.req.kind \notin Removal /\ msg.req.kind # "Headers"
  <2>1. MessageRight(msg)
    BY <1>4, HandlesParts
  <2> QED
    BY <1>2, <2>1 DEF MessageRight, ByItself, Removal
<1>7. Sorting' \/ ~fresh'
  BY <1>2, <1>3, <1>4
<1> QED
  BY <1>2, <1>4, <1>5, <1>6, <1>7, HandlesStep

LEMMA OnOpenedStep == ASSUME IInv, OnOpened PROVE IInv'
<1>1. TypeOK /\ StoreType /\ UidsKnown /\ QueuesType
  BY TypeParts DEF IInv
<1>2. /\ messages # <<>> /\ messages' = Tail(messages) /\ dirty' = TRUE /\ msg.type \in Final
      /\ msg.req.kind = "Open" /\ KeepRest
      /\ UNCHANGED <<known, uids, selected, deleted, pending, crashed, kept>>
      /\ \/ fresh' = (~msg.req.stale) /\ Post(<<SortAction(uids, selected, msg.req.stale)>>)
         \/ UNCHANGED <<fresh, actions>>
  BY DEF OnOpened, GotAnswer, Got
<1>3. msg.req.stale \in BOOLEAN
  BY <1>1, <1>2, Receiving, FieldTypes
<1>4. msg.req.kind \notin Removal /\ msg.req.kind # "Headers"
  BY <1>2 DEF Removal
<1>5. CASE fresh' = (~msg.req.stale) /\ Post(<<SortAction(uids, selected, msg.req.stale)>>)
  <2>1. PICK stale \in BOOLEAN : stale = msg.req.stale
    BY <1>3
  <2>2. PICK as \in Seq(Actions) : Handles(as) /\ (~stale => Sorting')
    BY <1>1, <1>2, <1>5, <2>1, PostsSort
  <2>3. StoreType' /\ UidsKnown' /\ dirty' \in BOOLEAN
    BY <1>1, <1>2, <1>3, <1>5 DEF StoreType, UidsKnown
  <2>4. Sorting' \/ ~fresh'
    BY <1>5, <2>1, <2>2
  <2>5. fresh' => ~msg.req.stale
    BY <1>5
  <2> QED
    BY <1>2, <1>4, <2>2, <2>3, <2>4, <2>5, HandlesStep
<1>6. CASE UNCHANGED <<fresh, actions>>
  <2>1. Handles(<<>>)
    BY <1>1, <1>2, <1>6, PostsNothing
  <2>2. StoreType' /\ UidsKnown' /\ dirty' \in BOOLEAN
    BY <1>1, <1>2, <1>6 DEF StoreType, UidsKnown
  <2>3. /\ \A u \in ToSet(uids') : kept' \/ KeepsRow(u) \/ TakesRow(u)
        /\ \A u \in box : u \in ToSet(uids') \/ LacksRow(u)
    BY <1>2, FinalTypes, SameRows
  <2> QED
    BY <1>2, <1>4, <1>6, <2>1, <2>2, <2>3, HandlesStep
<1> QED
  BY <1>2, <1>5, <1>6

-----------------------------------------------------------------------------
(* The invariant and what follows from it *)

LEMMA InitInv == Init => IInv
<1> SUFFICES ASSUME Init PROVE IInv
  OBVIOUS
<1>1. TypeOK /\ \A u \in box : u < nextUid
  BY InitType
<1>2. /\ status = Status /\ updates = <<>> /\ messages = <<>> /\ uids = <<>> /\ known = <<>>
      /\ deleted = {} /\ pending = {} /\ taken = {}
  BY DEF Init
<1>3. PICK a : a = Action("Contents", {}, FALSE, 0, MagicUid, FALSE)
  OBVIOUS
<1>4. a.kind = "Contents" /\ a.stale = FALSE
  BY <1>3 DEF Action
<1>5. ToSet(actions) = {a} /\ DOMAIN actions = {1} /\ actions[1] = a
  <2>1. ToSet(<<a>>) = {a} /\ DOMAIN <<a>> = {1} /\ <<a>>[1] = a
    BY ShortSets
  <2>2. actions = <<a>>
    BY <1>3 DEF Init
  <2> QED
    BY <2>1, <2>2
<1>6. ToSet(messages) = {} /\ ToSet(updates) = {} /\ ToSet(uids) = {} /\ DOMAIN known = {}
      /\ DOMAIN messages = {} /\ DOMAIN updates = {} /\ DOMAIN uids = {}
  <2>1. ToSet(<<>>) = {} /\ DOMAIN <<>> = {}
    BY ShortSets
  <2> QED
    BY <1>2, <2>1
<1>7. UidsKnown
  BY <1>6 DEF UidsKnown
<1>8. QueuesRight
  BY <1>4, <1>5, <1>6 DEF QueuesRight, ActionRight, Followed
<1>9. OldRight
  <2>1. status.next = nextUid /\ nextUid \in Nat
    BY <1>1, <1>2 DEF Status, TypeOK
  <2>2. status.next <= nextUid
    BY <2>1
  <2> QED
    BY <1>1, <1>2, <1>4, <1>5, <1>6, <2>2 DEF OldRight, OldAction, Removal
<1>10. GoneRight /\ FlagsCovered
  BY <1>6 DEF GoneRight, FlagsCovered, FlagsRight
<1>11. HeadersRequested /\ MarkRight
  BY <1>2 DEF HeadersRequested, MarkRight
<1>12. OpensRight
  BY <1>4, <1>5, <1>6 DEF OpensRight
<1>13. ListCovered
  <2>1. Sorting
    BY <1>4, <1>5 DEF Sorting
  <2>2. \A u : Added(u, 0)
    BY <2>1 DEF Added, WorkerAdds
  <2> QED
    BY <1>6, <2>2 DEF ListCovered, RowsCovered, BoxCovered
<1> QED
  BY <1>1, <1>7, <1>8, <1>9, <1>10, <1>11, <1>12, <1>13 DEF IInv

LEMMA Stutter == ASSUME IInv, UNCHANGED vars PROVE IInv'
<1>1. /\ UNCHANGED <<box, nextUid, status, hold, updates, expunger, taken, unseen, actions, messages>>
      /\ UNCHANGED <<known, uids, selected, deleted, pending, fresh, crashed, kept>>
      /\ UNCHANGED <<scroll, drawn, dirty, commands, opens, foreign, faults>>
  BY DEF vars, server, worker, store, list, bounds
<1>2. TypeOK'
  BY <1>1 DEF IInv, TypeOK
<1> QED
  BY <1>1, <1>2, StillStep

LEMMA StepInv == ASSUME IInv, Next PROVE IInv'
<1>1. CASE Draw
  BY <1>1, DrawStep
<1>2. CASE Worker
  BY <1>2, RefuseStep, OpenStep, FetchContentsStep, FetchHeadersStep, CheckMailStep, RemoveStep,
     RefusedStep, HandleUpdateStep DEF Worker
<1>3. CASE OnMessage
  BY <1>3, OnContentsStep, OnSortedStep, OnInfoStep, OnFlagsStep, OnDeletedStep, OnRefetchStep,
     OnOpenedStep, OnHeadersStep, OnRemovedStep DEF OnMessage
<1>4. CASE User
  <2>1. ASSUME NEW delta \in {1, -1}, UserMoves(delta) PROVE IInv'
    <3>1. delta \in Int
      OBVIOUS
    <3> QED
      BY <2>1, <3>1, UserMovesStep
  <2>2. ASSUME NEW kind \in {"Delete", "Move"}, NEW us \in MarkedOrSelected, UserRemoves(kind, us) PROVE IInv'
    BY <2>2, UserRemovesStep DEF Removal
  <2> QED
    BY <1>4, <2>1, <2>2, UserReopensStep DEF User
<1>5. CASE Server
  BY <1>5, ArriveStep, ForeignStep DEF Server
<1>6. CASE HoldEnds
  BY <1>6, HoldEndsStep
<1> QED
  BY <1>1, <1>2, <1>3, <1>4, <1>5, <1>6 DEF Next

LEMMA Invariance == Spec => []IInv
<1>1. IInv /\ [Next]_vars => IInv'
  BY StepInv, Stutter
<1> QED
  BY InitInv, <1>1, PTL DEF Spec

(* Every row of the list is a message that the store knows, no message is  *)
(* listed twice, and the headers that it holds back as pending are really  *)
(* being fetched (MessageStore.Update, FetchHeaders).                      *)
THEOREM HeadersAlways == Spec => []HeadersRight
<1>1. IInv => HeadersRight
  BY DEF IInv, HeadersRight
<1> QED
  BY Invariance, <1>1, PTL

(* When all is handled nothing is left that could cover a wrong row.       *)
LEMMA SettledList == ASSUME IInv, Settled PROVE ToSet(uids) = box /\ \A u : ~Removing(u)
<1>1. /\ actions = <<>> /\ messages = <<>> /\ updates = <<>>
      /\ fresh /\ ~unseen /\ ~kept /\ ListCovered
  BY DEF Settled, Quiet, IInv
<1>2. /\ ToSet(actions) = {} /\ ToSet(messages) = {} /\ ToSet(updates) = {}
      /\ DOMAIN messages = {}
  <2>1. ToSet(<<>>) = {} /\ DOMAIN <<>> = {}
    BY ShortSets
  <2> QED
    BY <1>1, <2>1
<1>3. ~Sorting /\ ~Checking /\ \A u : ~Leaving(u)
  BY <1>2 DEF Sorting, Checking, Leaving
<1>4. \A u : ~LaterList(messages, 0) /\ ~LaterGone(messages, u, 0)
  BY <1>2 DEF LaterList, LaterGone
<1>5. \A u : Dropped(u, 0) => u \in box
  BY <1>1, <1>3, <1>4 DEF Dropped, WorkerDrops
<1>6. \A u : ~Added(u, 0)
  BY <1>1, <1>3, <1>4 DEF Added, WorkerAdds
<1>7. ToSet(uids) = box
  BY <1>1, <1>5, <1>6 DEF ListCovered, RowsCovered, BoxCovered
<1>8. \A u : ~Removing(u)
  BY <1>2 DEF Removing
<1> QED
  BY <1>7, <1>8

(* When all is handled, and nothing was ignored, the list shows exactly    *)
(* the messages of the mailbox (MessageStore.Update, Worker.drainUpdates). *)
THEOREM ListAlways == Spec => []ListRight
<1>1. IInv => ListRight
  BY SettledList DEF ListRight
<1> QED
  BY Invariance, <1>1, PTL

(* No message of the list is still marked as deleted by a command that     *)
(* failed or was refused (MessageStore.Delete, MessageStore.Move).         *)
THEOREM MarksAlways == Spec => []MarksReverted
<1>1. ASSUME IInv, Settled, "Move" \notin Unsupported PROVE deleted \cap ToSet(uids) = {}
  <2>1. ToSet(uids) = box /\ \A u : ~Removing(u)
    BY <1>1, SettledList
  <2>2. MarkRight
    BY <1>1 DEF IInv
  <2> QED
    BY <1>1, <2>1, <2>2 DEF MarkRight
<1>2. IInv => MarksReverted
  BY <1>1 DEF MarksReverted
<1> QED
  BY Invariance, <1>2, PTL

(* After a sort a message of the list is selected, whatever the callback   *)
(* has remembered (MessageStore.Sort).                                     *)
THEOREM SortAlways == Spec => SortSelects
<1>1. ASSUME TypeOK, OnSorted PROVE uids' = <<>> \/ selected' \in ToSet(uids')
  <2>1. /\ messages # <<>> /\ selected' = SortReturned(msg.req.idx) /\ uids' = uids
    BY <1>1 DEF OnSorted, GotAnswer, Got
  <2>2. QueuesType
    BY <1>1, TypeParts
  <2>3. msg.req.idx \in Nat
    BY <2>1, <2>2, Receiving, FieldTypes
  <2>4. uids # <<>> => SortReturned(msg.req.idx) \in ToSet(uids)
    BY <1>1, <2>3, SortReturnedRight
  <2> QED
    BY <2>1, <2>4
<1>2. IInv /\ [Next]_vars => [OnSorted => uids' = <<>> \/ selected' \in ToSet(uids')]_vars
  BY <1>1 DEF IInv
<1> QED
  BY Invariance, <1>2, PTL DEF Spec, SortSelects
=============================================================================
