----------------------------- MODULE MCTransport -----------------------------
(* Instances of Transport: two nodes, a with the smaller id.               *)
EXTENDS Transport, TLC

CONSTANTS a, b, k1, k3

Two == {a, b}
OnlyA == {a}
RankAB == a :> 1 @@ b :> 2

\* One connection each way.
Pairwise == {k1, k3}
FromPair == k1 :> a @@ k3 :> b
ToPair == k1 :> b @@ k3 :> a
=============================================================================
