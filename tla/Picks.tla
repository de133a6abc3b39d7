------------------------------- MODULE Picks -------------------------------
(***************************************************************************)
(* What a loop over a sequence leaves when it appends some of the items it *)
(* passes and skips the others.                                            *)
(***************************************************************************)
EXTENDS Naturals, FiniteSets

(* The rank of a number in a set, from 1, and the kth of the set.            *)
RankIn(S, i) == Cardinality({j \in S : j <= i})
Nth(S, k)   == CHOOSE i \in S : RankIn(S, i) = k

(* The items of a sequence at a set of its indices, in their order.          *)
Picked(seq, S) == [k \in 1 .. Cardinality(S) |-> seq[Nth(S, k)]]
=============================================================================
