------------------------------ MODULE MCExits ------------------------------
(* Instances of Exits: an actor a and its local peer c on one node, and b on *)
(* the other.                                                                *)
EXTENDS Exits
CONSTANTS A, B, a, b, c, away, near
Placement == [x \in {a, b, c} |-> IF x = b THEN B ELSE A]
Watchers == [r \in {away, near} |-> a]
Targets == [r \in {away, near} |-> IF r = away THEN b ELSE c]
Links == {<<a, b>>, <<c, a>>}
=============================================================================
