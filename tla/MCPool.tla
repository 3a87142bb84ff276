------------------------------- MODULE MCPool -------------------------------
(* A small instance of Pool for TLC.                                       *)
EXTENDS Pool

CONSTANTS local, remote, note, w1, w2, pool
Calls == {local, remote, note}
LocalCall == {local}
RemoteCall == {remote}
Notes == {note}
Workers == {w1, w2}
PoolActors == {pool, w1, w2}

\* The two asks have the same key, the note another.
Keys == [c \in Calls |-> IF c = note THEN w2 ELSE w1]
=============================================================================
