---------------------------- MODULE MCDirectory ----------------------------
(* Instances of Directory: one actor on each node, and the nodes alike.     *)
EXTENDS Directory, TLC
OneEach == [n \in Node |-> n]
Alike == Permutations(Node)
=============================================================================
