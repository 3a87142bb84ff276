-------------------------------- MODULE Tree --------------------------------
(***************************************************************************)
(* A nested Supervisor: spawn_supervisor and _run_supervisor_child of      *)
(* lapinbeam/supervisor.py, which build a fresh Supervisor with its actors *)
(* for every generation of the subtree, under a parent that shuts it down, *)
(* sweeps it in a group restart, or restarts it when it gives up.  How the *)
(* actors of a generation are supervised is module Supervisor's; here each *)
(* is up, between two restarts, or given up.  at says where the task of    *)
(* the subtree is suspended.                                               *)
(***************************************************************************)
EXTENDS Naturals

CONSTANTS
    Leaves,       \* how many actors build spawns
    Flawed,       \* build may raise after any of them
    MaxRestarts,  \* the parent's restart budget
    MaxCrashes,   \* bound: crashes of actors within the subtree's budget
    MaxCancels    \* bound: cancellations of the subtree by its parent

ASSUME TreeAssumption ==
    /\ Leaves \in Nat \ {0} /\ Flawed \in BOOLEAN
    /\ MaxRestarts \in Nat /\ MaxCrashes \in Nat /\ MaxCancels \in Nat

VARIABLES
    at,        \* "new", "building", "waiting", "backoff", "closing" or "done"
    sweeping,  \* the parent will respawn the subtree when its task is done
    gen,       \* the current generation, child.supervisor
    built,     \* how many actors its build has spawned
    leaf,      \* the actors of each generation
    gaveUp,    \* the generations whose Supervisor has set _given_up
    dropped,   \* history: generations left behind with an actor alive
    restarts, crashes, cancels
vars == <<at, sweeping, gen, built, leaf, gaveUp, dropped, restarts, crashes, cancels>>

Leaf == 1..Leaves
Gen == 1..(1 + MaxRestarts + MaxCancels)
TypeOK ==
    /\ at \in {"new", "building", "waiting", "backoff", "closing", "done"}
    /\ sweeping \in BOOLEAN
    /\ gen \in Gen \union {0} /\ built \in 0..Leaves
    /\ leaf \in [Gen -> [Leaf -> {"none", "up", "backoff", "stopping", "ended"}]]
    /\ \A l \in Leaf, g, h \in Gen :
          (leaf[g][l] \in {"up", "stopping"} /\ leaf[h][l] \in {"up", "stopping"}) => g = h
    /\ gaveUp \subseteq Gen /\ dropped \subseteq Gen
    /\ restarts \in 0..MaxRestarts /\ crashes \in 0..MaxCrashes /\ cancels \in 0..MaxCancels

Init ==
    /\ at = "new" /\ sweeping = FALSE
    /\ gen = 0 /\ built = 0
    /\ leaf = [g \in Gen |-> [l \in Leaf |-> "none"]]
    /\ gaveUp = {} /\ dropped = {}
    /\ restarts = 0 /\ crashes = 0 /\ cancels = 0

Alive(g) == {l \in Leaf : leaf[g][l] \in {"up", "backoff"}}

\* Node.register_actor: a mailbox holds the name.
Taken(l) == \E g \in Gen : leaf[g][l] \in {"up", "stopping"}

-----------------------------------------------------------------------------
(* The task of the subtree                                                 *)

\* A turn of the loop: a fresh Supervisor, and build is called.
Begin ==
    /\ at \in {"new", "backoff"} /\ gen + 1 \in Gen
    /\ at' = "building"
    /\ gen' = gen + 1
    /\ built' = 0
    /\ UNCHANGED <<sweeping, leaf, gaveUp, dropped, restarts, crashes, cancels>>

\* _handle_child_crash of the parent, one_for_one: restart after a pause, or
\* give the subtree up.  The generation is left as it is.
HandleChildCrash ==
    /\ IF restarts < MaxRestarts
       THEN at' = "backoff" /\ restarts' = restarts + 1
       ELSE at' = "done" /\ UNCHANGED restarts
    /\ dropped' = IF Alive(gen) # {} THEN dropped \union {gen} ELSE dropped
    /\ UNCHANGED <<sweeping, gen, built, leaf, gaveUp, crashes, cancels>>

\* build spawns its next actor, or the spawn raises on a name that is taken.
Spawn ==
    /\ at = "building" /\ built < Leaves /\ ~Taken(built + 1)
    /\ leaf' = [leaf EXCEPT ![gen][built + 1] = "up"]
    /\ built' = built + 1
    /\ UNCHANGED <<at, sweeping, gen, gaveUp, dropped, restarts, crashes, cancels>>
BuildRaises ==
    /\ at = "building"
    /\ Flawed \/ (built < Leaves /\ Taken(built + 1))
    /\ HandleChildCrash
Built ==
    /\ at = "building" /\ built = Leaves
    /\ at' = "waiting"
    /\ UNCHANGED <<sweeping, gen, built, leaf, gaveUp, dropped, restarts, crashes, cancels>>

\* _wait_for_give_up returns.
GivenUp ==
    /\ at = "waiting" /\ gen \in gaveUp
    /\ HandleChildCrash

\* What shutdown() of the child Supervisor cancels: a running actor is to end,
\* one that waits for its restart has ended.
ShutdownNone(g) == leaf
Shutdown(g) ==
    [leaf EXCEPT ![g] = [l \in Leaf |->
        CASE leaf[g][l] = "up" -> "stopping"
          [] leaf[g][l] = "backoff" -> "ended"
          [] OTHER -> leaf[g][l]]]

\* The parent cancels the task, in shutdown() or in _teardown_sibling.  Inside
\* the try the child Supervisor is shut down and awaited; elsewhere the task
\* just ends; a second shutdown() cuts the wait short.
Cancel(sweep) ==
    /\ at # "done" /\ cancels < MaxCancels
    /\ ~sweeping /\ (sweep => at # "closing")
    /\ cancels' = cancels + 1
    /\ sweeping' = sweep
    /\ IF at \in {"building", "waiting"}
       THEN at' = "closing" /\ leaf' = Shutdown(gen)
       ELSE at' = "done" /\ UNCHANGED leaf
    /\ UNCHANGED <<gen, built, gaveUp, dropped, restarts, crashes>>
GatheredAtOnce == TRUE
Gathered == \A l \in Leaf : leaf[gen][l] # "stopping"
Closed ==
    /\ at = "closing" /\ Gathered
    /\ at' = "done"
    /\ UNCHANGED <<sweeping, gen, built, leaf, gaveUp, dropped, restarts, crashes, cancels>>

\* _respawn_child: a new task for the same subtree.
Respawn ==
    /\ at = "done" /\ sweeping
    /\ at' = "new" /\ sweeping' = FALSE
    /\ UNCHANGED <<gen, built, leaf, gaveUp, dropped, restarts, crashes, cancels>>

-----------------------------------------------------------------------------
(* The actors of a generation (one_for_one)                                *)

LeafCrash(g, l) ==
    /\ leaf[g][l] = "up" /\ crashes < MaxCrashes
    /\ crashes' = crashes + 1
    /\ leaf' = [leaf EXCEPT ![g][l] = "backoff"]
    /\ UNCHANGED <<at, sweeping, gen, built, gaveUp, dropped, restarts, cancels>>
LeafRestart(g, l) ==
    /\ leaf[g][l] = "backoff" /\ ~Taken(l)
    /\ leaf' = [leaf EXCEPT ![g][l] = "up"]
    /\ UNCHANGED <<at, sweeping, gen, built, gaveUp, dropped, restarts, crashes, cancels>>

\* Its budget is used up, at last because its name is taken.  The Supervisor
\* gives up with the last of the children it has at that time.
LastOneKept(g, l) == \A m \in Leaf : leaf[g][m] \in {"none", "ended"}
LastOne(g, l) == \A m \in Leaf \ {l} : leaf[g][m] \in {"none", "ended"}
LeafGivesUp(g, l) ==
    /\ leaf[g][l] = "up" \/ (leaf[g][l] = "backoff" /\ Taken(l))
    /\ leaf' = [leaf EXCEPT ![g][l] = "ended"]
    /\ gaveUp' = IF LastOne(g, l) THEN gaveUp \union {g} ELSE gaveUp
    /\ UNCHANGED <<at, sweeping, gen, built, dropped, restarts, crashes, cancels>>
LeafStops(g, l) ==
    /\ leaf[g][l] = "stopping"
    /\ leaf' = [leaf EXCEPT ![g][l] = "ended"]
    /\ UNCHANGED <<at, sweeping, gen, built, gaveUp, dropped, restarts, crashes, cancels>>

-----------------------------------------------------------------------------
Own == Begin \/ Spawn \/ BuildRaises \/ Built \/ GivenUp \/ Closed
LeafStep(g, l) == LeafCrash(g, l) \/ LeafRestart(g, l) \/ LeafGivesUp(g, l) \/ LeafStops(g, l)
Next ==
    \/ Own \/ Respawn
    \/ \E sweep \in BOOLEAN : Cancel(sweep)
    \/ \E g \in Gen, l \in Leaf : LeafStep(g, l)
Spec == Init /\ [][Next]_vars

\* Tasks run when they can, and a cancelled actor ends.
FairSpec ==
    /\ Spec /\ WF_vars(Own) /\ WF_vars(Respawn)
    /\ \A g \in Gen, l \in Leaf : WF_vars(LeafStops(g, l) \/ LeafRestart(g, l))
-----------------------------------------------------------------------------
(* Properties                                                              *)

\* Every actor that runs belongs to the subtree's current generation, and none
\* runs once its task has ended, whether it was shut down, swept, restarted or
\* given up, at any point of its build.  The exceptions, exactly: generations
\* the task left with an actor alive, because build raised half way or because
\* the first actors gave up before it had spawned the others.
NoOrphans ==
    \A g \in Gen : Alive(g) # {} =>
        g \in dropped \/ (g = gen /\ at \in {"building", "waiting"})

\* A generation that ended as it should has freed all of its names by the time
\* the next one builds, even one that was swept with actors still ending: until
\* a generation was dropped, no build fails on a name.
NamesAreFreed ==
    (at = "building" /\ dropped = {}) => \A l \in Leaf : l > built => ~Taken(l)

\* "await ref.task blocks until the whole subtree gives up": a subtree all of
\* whose actors are gone for good does not just sit there.
SubtreeMovesOn ==
    (at = "waiting" /\ \A l \in Leaf : leaf[gen][l] = "ended") ~> at # "waiting"
=============================================================================
