---------------------------- MODULE RestartBudget ----------------------------
(***************************************************************************)
(* The restart budget a Supervisor's children share: _allow_restart and    *)
(* _backoff (lapinbeam/supervisor.py), with the clock they read.  Module   *)
(* Supervisor uses the same budget without a clock: there any number of    *)
(* entries may have left the window since the last crash.                  *)
(*                                                                         *)
(* _restart_times is a list of clock readings of which the code only uses  *)
(* the length and the filter, so it is a set here; an entry carries the    *)
(* number of its grant, which keeps two grants of one instant apart.       *)
(***************************************************************************)
EXTENDS Naturals, FiniteSets

CONSTANTS
    Child,        \* the children sharing the budget
    MaxRestarts,  \* max_restarts
    Window,       \* restart_window, in backoff units of 0.05 s
    MaxLate,      \* bound: time that may pass while a child is up or due
    Horizon       \* bound: the clock stops here

ASSUME BudgetAssumption ==
    /\ MaxRestarts \in Nat
    /\ Window \in Nat
    /\ MaxLate \in Nat
    /\ Horizon \in Nat

VARIABLES
    now,            \* time.monotonic()
    restart_times,  \* Supervisor._restart_times
    granted,        \* history: every entry ever added
    wake,           \* per child: when its backoff ends; 0 while it is up
    gone,           \* children given up
    late            \* history: time passed while a child was up or due
vars == <<now, restart_times, granted, wake, gone, late>>

Entry == [id : Nat, t : Nat]

TypeOK ==
    /\ now \in Nat
    /\ restart_times \subseteq Entry
    /\ granted \subseteq Entry
    /\ wake \in [Child -> Nat]
    /\ gone \subseteq Child
    /\ late \in Nat

Init ==
    /\ now = 0
    /\ restart_times = {}
    /\ granted = {}
    /\ wake = [c \in Child |-> 0]
    /\ gone = {}
    /\ late = 0

\* The entries of T inside the window at the instant `at`.
InWindowShort(T, at) == {e \in T : at + 1 < e.t + Window}
InWindowLong(T, at) == {e \in T : at <= e.t + Window}
InWindow(T, at) == {e \in T : at < e.t + Window}

\* _allow_restart's test on the entries it keeps.
Allowed(kept) == Cardinality(kept) < MaxRestarts

\* _backoff: min(2 ** len(_restart_times) * 0.05, 1.0), in units of 0.05 s.
BackoffUncapped(n) == 2 ^ n
Backoff(n) == IF n > 4 THEN 20 ELSE <<1, 2, 4, 8, 16>>[n + 1]

\* When a sleep that starts now with n entries in the list ends.
WakeAt(n) == now + Backoff(n)

\* Variant: the entries outside the window stay in the list.
GrantedUnpruned(c) ==
    LET entry == [id |-> Cardinality(granted), t |-> now]
    IN  /\ c \notin gone /\ wake[c] = 0
        /\ Allowed(InWindow(restart_times, now))
        /\ restart_times' = restart_times \union {entry}
        /\ granted' = granted \union {entry}
        /\ wake' = [wake EXCEPT ![c] = WakeAt(Cardinality(restart_times'))]
        /\ UNCHANGED <<now, gone, late>>

\* A crash with budget left.  _allow_restart forgets the entries outside the
\* window and adds this one; the child then sleeps.
Granted(c) ==
    LET kept == InWindow(restart_times, now)
        entry == [id |-> Cardinality(granted), t |-> now]
    IN  /\ c \notin gone /\ wake[c] = 0
        /\ Allowed(kept)
        /\ restart_times' = kept \union {entry}
        /\ granted' = granted \union {entry}
        /\ wake' = [wake EXCEPT ![c] = WakeAt(Cardinality(restart_times'))]
        /\ UNCHANGED <<now, gone, late>>

\* A crash without: the filtered list stays, and the child (one_for_one) or
\* the whole group (the other strategies) is given up.
Denied(c) ==
    LET kept == InWindow(restart_times, now)
    IN  /\ c \notin gone /\ wake[c] = 0
        /\ ~Allowed(kept)
        /\ restart_times' = kept
        /\ gone' = gone \union {c} \/ gone' = Child
        /\ UNCHANGED <<now, granted, wake, late>>

\* The sleep is over: asyncio may wake a sleeper late, never early.
Wake(c) ==
    /\ c \notin gone
    /\ wake[c] > 0
    /\ wake[c] <= now
    /\ wake' = [wake EXCEPT ![c] = 0]
    /\ UNCHANGED <<now, restart_times, granted, gone, late>>

\* A child that is up, or whose sleep is over: it can crash or wake now.
Due(c) == c \notin gone /\ wake[c] <= now

\* Time passes.  In a crash loop, late = 0, it only does when no child is due.
Tick ==
    /\ now < Horizon
    /\ now' = now + 1
    /\ late' = IF \E c \in Child : Due(c) THEN late + 1 ELSE late
    /\ late' <= MaxLate
    /\ UNCHANGED <<restart_times, granted, wake, gone>>

Next == Tick \/ \E c \in Child : Granted(c) \/ Denied(c) \/ Wake(c)
Spec == Init /\ [][Next]_vars
-----------------------------------------------------------------------------
(* Properties                                                              *)

\* "up to max_restarts within restart_window": whatever instant a window ends
\* at, _allow_restart has granted at most max_restarts restarts inside it.
BudgetHolds ==
    \A at \in 0..now :
        Cardinality({g \in granted : g.t <= at /\ at < g.t + Window})
            <= MaxRestarts

\* _allow_restart refuses only on a spent budget: nothing is given up unless
\* max_restarts restarts were granted inside the window that ends now.
DenialIsJustified ==
    [][gone' # gone =>
        Cardinality({g \in granted : now < g.t + Window}) >= MaxRestarts]_vars

\* Seen without its clock, the budget is the counter that module Supervisor
\* keeps in the place of _restart_times: it implements RestartCounter.
Counter == INSTANCE RestartCounter WITH restarts <- Cardinality(restart_times)
CounterAbstraction == Counter!Spec

\* The backoff stays short enough for the window: children that crash again
\* at once use the budget up and are given up, they do not restart forever.
CrashLoopGivesUp == late = 0 => Cardinality(granted) <= MaxRestarts
=============================================================================
