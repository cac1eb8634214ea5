------------------------------ MODULE Sublists ------------------------------
(***************************************************************************)
(* What loops over a list leave that drop some of its elements and keep    *)
(* the order of the others: containers of mail, the history of the tabs,   *)
(* the messages of a list.                                                 *)
(***************************************************************************)
EXTENDS Naturals, FiniteSets

(* The n-th number of S, and the elements of c at the positions S. *)
Nth(S, n) == CHOOSE i \in S : Cardinality({j \in S : j <= i}) = n
Picked(c, S) == [n \in 1..Cardinality(S) |-> c[Nth(S, n)]]

Without(c, S) == Picked(c, {i \in DOMAIN c : c[i] \notin S})
Those(c, S) == Picked(c, {i \in DOMAIN c : c[i] \in S})
=============================================================================
