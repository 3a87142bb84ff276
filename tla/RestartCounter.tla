---------------------------- MODULE RestartCounter ----------------------------
(***************************************************************************)
(* What Supervisor._allow_restart promises its callers, with no clock: a   *)
(* counter of at most max_restarts restarts, from which any number may     *)
(* have expired by the next crash.  Module Supervisor keeps this counter;  *)
(* module RestartBudget, which keeps the clock, implements it.             *)
(***************************************************************************)
EXTENDS Naturals

CONSTANTS Child, MaxRestarts
VARIABLES
    restarts,  \* entries of _restart_times
    gone       \* children given up

Init ==
    /\ restarts = 0
    /\ gone = {}

\* A crash with budget left: some entries expire and one is added.
Grant ==
    \E kept \in 0..restarts :
        /\ kept < MaxRestarts
        /\ restarts' = kept + 1
        /\ UNCHANGED gone

\* A crash without: the crashed child, or its whole group, is given up.
Refuse ==
    \E kept \in 0..restarts, c \in Child \ gone :
        /\ kept >= MaxRestarts
        /\ restarts' = kept
        /\ gone' \in {gone \union {c}, Child}

Next == Grant \/ Refuse
Spec == Init /\ [][Next]_<<restarts, gone>>
=============================================================================
