---------------------------- MODULE MCSupervisor ----------------------------
(* Small instances of Supervisor for TLC.                                  *)
EXTENDS Supervisor

CONSTANTS a, b, c

Two == {a, b}
Three == {a, b, c}
OnlyA == {a}
None == {}

\* Every child has its own name, or a and b have the same.
Distinct2 == [x \in Two |-> x]
Distinct3 == [x \in Three |-> x]
SameAB == [x \in Three |-> IF x = c THEN c ELSE a]
=============================================================================
