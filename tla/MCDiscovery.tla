---------------------------- MODULE MCDiscovery ----------------------------
(* Instances of Discovery: a seed s that knows a circle of others, one of   *)
(* which cannot be reached.                                                 *)
EXTENDS Discovery
CONSTANTS me, s, p, q, x, one, two
Circle == [n \in {s, p, q, x} |-> CASE n = s -> {s, p, x}
                                    [] n = p -> {s, p, q}
                                    [] n = q -> {p, q, me}
                                    [] n = x -> {s, x}]
Entrances == [j \in {one, two} |-> IF j = one THEN {s} ELSE {me, q, p}]
=============================================================================
