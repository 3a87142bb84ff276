----------------------------- MODULE Supervisor -----------------------------
(***************************************************************************)
(* One lapinbeam Supervisor and the actors it spawned on a node            *)
(* (lapinbeam/supervisor.py), with the part of Node it drives: the name    *)
(* tables and the monitors of a name (lapinbeam/node.py).                  *)
(*                                                                         *)
(* The program runs on one asyncio loop, so an action is everything a task *)
(* does between two awaits.  Each child has a task running                 *)
(* _run_actor_child; pc says where that task is suspended:                 *)
(*   "absent"   not spawned yet          "new"   created, not started      *)
(*   "run"      awaiting its driver      "backoff" sleeping before restart *)
(*   "teardown" awaiting a cancelled sibling in _teardown_sibling          *)
(*   "giveup"   awaiting the gather of _shutdown_except                    *)
(*   "done"     the task has ended                                         *)
(***************************************************************************)
EXTENDS Naturals, Sequences, FiniteSets

CONSTANTS
    Child,        \* the spawn() calls this Supervisor may make
    Name,         \* actor names
    NameOf,       \* actor_name(actor_cls) of each child
    Strategy,     \* restart strategy
    MaxRestarts,  \* max_restarts
    Fragile,      \* children whose __init__ may raise
    Killable,     \* children an exit signal of a link may reach
    Unruly        \* children whose handlers may raise while being cancelled

ASSUME ConstantsAssumption ==
    /\ IsFiniteSet(Child)
    /\ NameOf \in [Child -> Name]
    /\ Strategy \in {"one_for_one", "one_for_all", "rest_for_one"}
    /\ MaxRestarts \in Nat
    /\ Fragile \subseteq Child
    /\ Killable \subseteq Child
    /\ Unruly \subseteq Child

VARIABLES
    children,     \* Supervisor._children, in spawn order
    pc,           \* where the task of each child is suspended
    driver,       \* the _drive task of each child
    mustCancel,   \* a CancelledError is due at the task's next step
    pendingExit,  \* _ActorChild.pending_exit is set
    awaits,       \* the unfinished tasks a "teardown" or "giveup" task awaits
    siblings,     \* the siblings a sweep or a give-up deals with (a local list)
    next,         \* position in siblings after the one being torn down
    restarts,     \* entries of _restart_times inside the window
    givenUp,      \* Supervisor._given_up is set
    mailboxes,    \* children whose mailbox Node._mailboxes holds
    live,         \* children Node._live_children holds
    watched,      \* names with an entry in Node._monitor_watchers
    held,         \* children whose frame holds watchers it has not told yet
    stopping,     \* children the current shutdown() set out to stop
    stopAwaits    \* the tasks of them it still awaits

supVars == <<children, restarts, givenUp>>
nodeVars == <<mailboxes, live, watched, held>>
sweepVars == <<siblings, next>>
stopVars == <<stopping, stopAwaits>>
vars == <<children, pc, driver, mustCancel, pendingExit, awaits, siblings,
          next, restarts, givenUp, mailboxes, live, watched, held, stopping,
          stopAwaits>>

PC == {"absent", "new", "run", "backoff", "teardown", "giveup", "done"}
Driver == {"none", "live", "cancelling", "raised", "cancelled"}

TypeOK ==
    /\ children \in Seq(Child)
    /\ pc \in [Child -> PC]
    /\ driver \in [Child -> Driver]
    /\ mustCancel \in [Child -> BOOLEAN]
    /\ pendingExit \in [Child -> BOOLEAN]
    /\ awaits \in [Child -> SUBSET Child]
    /\ siblings \in [Child -> Seq(Child)]
    /\ next \in [Child -> Nat \ {0}]
    /\ restarts \in 0..MaxRestarts
    /\ givenUp \in BOOLEAN
    /\ mailboxes \subseteq Child
    /\ live \subseteq Child
    /\ watched \subseteq Name
    /\ held \subseteq Child
    /\ stopping \subseteq Child
    /\ stopAwaits \subseteq stopping

Init ==
    /\ children = << >>
    /\ pc = [c \in Child |-> "absent"]
    /\ driver = [c \in Child |-> "none"]
    /\ mustCancel = [c \in Child |-> FALSE]
    /\ pendingExit = [c \in Child |-> FALSE]
    /\ awaits = [c \in Child |-> {}]
    /\ siblings = [c \in Child |-> << >>]
    /\ next = [c \in Child |-> 1]
    /\ restarts = 0
    /\ givenUp = FALSE
    /\ mailboxes = {}
    /\ live = {}
    /\ watched = {}
    /\ held = {}
    /\ stopping = {}
    /\ stopAwaits = {}

\* The list s without the child c, which is at most once in it.
Position(s, c) == CHOOSE i \in 1..Len(s) : s[i] = c
Without(s, c) ==
    IF \E i \in 1..Len(s) : s[i] = c
    THEN [i \in 1..(Len(s) - 1) |-> IF i < Position(s, c) THEN s[i] ELSE s[i + 1]]
    ELSE s

Members == {children[i] : i \in 1..Len(children)}
Named(n) == {c \in Child : NameOf[c] = n}
Homonyms(c) == Named(NameOf[c])
Ended == {"raised", "cancelled"}

\* Node.register_actor: the same mailbox may register again, another one may
\* not take the name.
NameFree(c) == mailboxes \intersect Homonyms(c) \subseteq {c}
RegisterActorUnchecked(c) ==
    mailboxes' = mailboxes \union {c}
RegisterActorNoop(c) ==
    NameFree(c) /\ mailboxes' = mailboxes
RegisterActor(c) ==
    /\ NameFree(c)
    /\ mailboxes' = mailboxes \union {c}

-----------------------------------------------------------------------------
(* asyncio (external): Task.cancel() and what a finished task wakes.       *)

\* The tasks cancel() reaches from the tasks in D when aw says who awaits
\* whom: cancelling a task that awaits another one cancels that one instead.
CancelReaches(D, aw) ==
    {c \in Child : \A S \in SUBSET Child :
        (D \subseteq S /\ \A x \in S : aw[x] \subseteq S) => c \in S}

\* Task.cancel() of every task of R, for tasks at p with drivers d: a driver
\* in progress is cancelled in the place of the task that awaits it.
DriversCancelled(R, p, d) ==
    [c \in Child |-> IF c \in R /\ p[c] = "run" /\ d[c] = "live"
                     THEN "cancelling" ELSE d[c]]

\* ...and the tasks that get the CancelledError themselves.  A task that
\* awaits an unfinished sibling only passes the request on.
CancelsDue(R, p, d, m, aw) ==
    [c \in Child |->
        \/ m[c]
        \/ /\ c \in R
           /\ \/ p[c] \in {"new", "backoff", "giveup"}
              \/ p[c] = "run" /\ d[c] \in Ended
              \/ p[c] = "teardown" /\ aw[c] = {}]

\* aw once the task of c has finished.
Released(c, aw) == [x \in Child |-> aw[x] \ {c}]

-----------------------------------------------------------------------------
(* _allow_restart, _handle_child_crash                                     *)

\* The local list of siblings the task of c works through from now on.
Dealing(c, sibs) ==
    /\ siblings' = [siblings EXCEPT ![c] = sibs]
    /\ next' = [next EXCEPT ![c] = 1]

\* Variant: nobody is told.
EndUntold(c, p, d, m, h) ==
    /\ Dealing(c, << >>)
    /\ pc' = [p EXCEPT ![c] = "done"]
    /\ driver' = d
    /\ mustCancel' = m
    /\ awaits' = Released(c, awaits)
    /\ stopAwaits' = stopAwaits \ {c}
    /\ held' = h
    /\ UNCHANGED stopping

\* The end of c's task, its watchers told: _notify_links, _notify_monitors.
TellAndEnd(c, p, d, m, h) ==
    /\ Dealing(c, << >>)
    /\ pc' = [p EXCEPT ![c] = "done"]
    /\ driver' = d
    /\ mustCancel' = m
    /\ awaits' = Released(c, awaits)
    /\ stopAwaits' = stopAwaits \ {c}
    /\ held' = h \ {c}
    /\ UNCHANGED stopping

\* one_for_one without budget: only c goes; the Supervisor has given up once
\* nothing is left under it.
GiveUpAlone(c, p, d, m, h) ==
    /\ Strategy = "one_for_one"
    /\ children' = Without(children, c)
    /\ givenUp' = (givenUp \/ children' = << >>)
    /\ TellAndEnd(c, p, d, m, h)

\* The children _shutdown_except(c) deals with.
OthersAndItself(c) == Members
Others(c) == Members \ {c}

\* The other strategies: _shutdown_except(c) cancels every other child and
\* awaits them all.  Without another child nothing is awaited.
GiveUpGroup(c, p, d, m, h) ==
    LET others == Others(c)
        aw == [awaits EXCEPT ![c] = {x \in others : p[x] # "done"}]
        R == CancelReaches(others, aw) \ {c}
    IN  /\ Strategy # "one_for_one"
        /\ UNCHANGED children
        /\ \/ /\ others = {}
              /\ givenUp' = TRUE
              /\ TellAndEnd(c, p, d, m, h)
           \/ /\ others # {}
              /\ Dealing(c, Without(children, c))
              /\ pc' = [p EXCEPT ![c] = "giveup"]
              /\ driver' = DriversCancelled(R, p, d)
              /\ mustCancel' = CancelsDue(R, p, d, m, aw)
              /\ awaits' = aw
              /\ held' = h
              /\ UNCHANGED <<givenUp, stopVars>>

\* _allow_restart grants a restart while fewer than max_restarts entries are
\* left in the window.
AllowRestart(kept) == kept < MaxRestarts

\* _allow_restart first keeps the entries still inside the window: any number
\* of them, since time is not modelled here (see RestartBudget).
Crash(c, p, d, m, h) ==
    \E kept \in 0..restarts :
        \/ /\ AllowRestart(kept)
           /\ restarts' = kept + 1
           /\ Dealing(c, << >>)
           /\ pc' = [p EXCEPT ![c] = "backoff"]
           /\ driver' = d
           /\ mustCancel' = m
           /\ held' = h
           /\ UNCHANGED <<children, givenUp, awaits, stopVars>>
        \/ /\ ~AllowRestart(kept)
           /\ restarts' = kept
           /\ GiveUpAlone(c, p, d, m, h) \/ GiveUpGroup(c, p, d, m, h)

-----------------------------------------------------------------------------
(* _run_actor_child                                                        *)

\* What every end of a generation does to the node, by name: unregister the
\* mailbox, forget the live child, take the watchers out of the table.
EndGeneration(c) ==
    /\ mailboxes' = mailboxes \ Homonyms(c)
    /\ live' = live \ Homonyms(c)
    /\ watched' = watched \ {NameOf[c]}

\* The watchers the generation's frame holds from then on.
Holding(c) == IF NameOf[c] \in watched THEN held \union {c} ELSE held \ {c}

\* A new generation: instance built, mailbox registered, driver started.
BootRuns(c, p, d, m) ==
    /\ RegisterActor(c)
    /\ Dealing(c, << >>)
    /\ live' = (live \ Homonyms(c)) \union {c}
    /\ pc' = [p EXCEPT ![c] = "run"]
    /\ driver' = [d EXCEPT ![c] = "live"]
    /\ mustCancel' = m
    /\ held' = held \ {c}
    /\ UNCHANGED <<supVars, awaits, watched, stopVars>>

\* __init__ raised, or register_actor found another mailbox under the name.
BootFails(c, p, d, m) ==
    /\ c \in Fragile \/ ~NameFree(c)
    /\ EndGeneration(c)
    /\ Crash(c, p, d, m, Holding(c))

Boot(c, p, d, m) == BootRuns(c, p, d, m) \/ BootFails(c, p, d, m)

\* The first step of a task.  A task cancelled before it started never runs
\* a line of _run_actor_child.
Start(c) ==
    /\ pc[c] = "new"
    /\ UNCHANGED pendingExit
    /\ \/ /\ mustCancel[c]
          /\ pc' = [pc EXCEPT ![c] = "done"]
          /\ mustCancel' = [mustCancel EXCEPT ![c] = FALSE]
          /\ awaits' = Released(c, awaits)
          /\ stopAwaits' = stopAwaits \ {c}
          /\ UNCHANGED <<driver, supVars, nodeVars, sweepVars, stopping>>
       \/ /\ ~mustCancel[c]
          /\ Boot(c, pc, driver, mustCancel)

\* A CancelledError is a link's kill, not a shutdown, if pending_exit is set.
KilledAlways(c) == TRUE
Killed(c) == pendingExit[c]

\* `await child.driver` ends: CancelledError with pending_exit or any other
\* exception is a crash, CancelledError alone is a shutdown.
DriverEnds(c) ==
    LET cancelled == mustCancel[c] \/ driver[c] = "cancelled"
        m == [mustCancel EXCEPT ![c] = FALSE]
    IN  /\ pc[c] = "run"
        /\ driver[c] \in Ended
        /\ EndGeneration(c)
        /\ \/ /\ cancelled /\ ~Killed(c)
              /\ TellAndEnd(c, pc, driver, m, Holding(c))
              /\ UNCHANGED <<supVars, pendingExit>>
           \/ /\ cancelled /\ Killed(c)
              /\ pendingExit' = [pendingExit EXCEPT ![c] = FALSE]
              /\ Crash(c, pc, driver, m, Holding(c))
           \/ /\ ~cancelled
              /\ UNCHANGED pendingExit
              /\ Crash(c, pc, driver, m, Holding(c))

\* A CancelledError inside _handle_child_crash leaves _run_actor_child from
\* its except block: nobody is told.
CancelEscapes(c) ==
    /\ mustCancel[c]
    /\ pc' = [pc EXCEPT ![c] = "done"]
    /\ mustCancel' = [mustCancel EXCEPT ![c] = FALSE]
    /\ awaits' = Released(c, awaits)
    /\ stopAwaits' = stopAwaits \ {c}
    /\ UNCHANGED <<driver, pendingExit, supVars, nodeVars, sweepVars, stopping>>

-----------------------------------------------------------------------------
(* The sweep of a group restart                                            *)

\* _affected_children without the crashed child.
AffectedAlways(c) == Without(children, c)
Affected(c) ==
    CASE Strategy = "one_for_one" -> << >>
      [] Strategy = "one_for_all" -> Without(children, c)
      [] Strategy = "rest_for_one" ->
            SubSeq(children, Position(children, c) + 1, Len(children))

\* _teardown_sibling of the first sibling from position i on whose task has
\* not finished: cancel it and await it.
TearDown(c, sibs, i) ==
    \E j \in i..Len(sibs) :
        LET s == sibs[j]
            aw == [awaits EXCEPT ![c] = {s}]
            R == CancelReaches({s}, aw) \ {c}
            m == [mustCancel EXCEPT ![c] = FALSE]
        IN  /\ pc[s] # "done"
            /\ \A k \in i..(j - 1) : pc[sibs[k]] = "done"
            /\ pc' = [pc EXCEPT ![c] = "teardown"]
            /\ siblings' = [siblings EXCEPT ![c] = sibs]
            /\ next' = [next EXCEPT ![c] = j + 1]
            /\ awaits' = aw
            /\ driver' = DriversCancelled(R, pc, driver)
            /\ mustCancel' = CancelsDue(R, pc, driver, m, aw)
            /\ UNCHANGED <<pendingExit, supVars, nodeVars, stopVars>>

\* Every sibling from position i on is down.
AllDownUnawaited(sibs, i) == TRUE
AllDown(sibs, i) == \A k \in i..Len(sibs) : pc[sibs[k]] = "done"

\* Every sibling is down: _respawn_child each of them, then the crashed
\* child's own loop continues with a new generation.
RespawnAll(c, sibs, i) ==
    LET swept == {sibs[j] : j \in 1..Len(sibs)}
    IN  /\ AllDown(sibs, i)
        /\ UNCHANGED pendingExit
        /\ Boot(c, [x \in Child |-> IF x \in swept THEN "new" ELSE pc[x]],
                   [x \in Child |-> IF x \in swept THEN "none" ELSE driver[x]],
                   [x \in Child |-> mustCancel[x] /\ x \notin swept \union {c}])

\* The sleep ends, by itself or by a cancel().
BackoffOver(c) ==
    /\ pc[c] = "backoff"
    /\ \/ CancelEscapes(c)
       \/ /\ ~mustCancel[c]
          /\ TearDown(c, Affected(c), 1) \/ RespawnAll(c, Affected(c), 1)

\* The awaited sibling has finished.  Whatever `await child.task` raises,
\* a CancelledError for c itself included, is swallowed.
SweepOn(c) ==
    /\ pc[c] = "teardown"
    /\ awaits[c] = {}
    /\ \/ TearDown(c, siblings[c], next[c])
       \/ RespawnAll(c, siblings[c], next[c])

\* Every task the gather of _shutdown_except awaits has finished.
GatheredUnawaited(c) == TRUE
Gathered(c) == awaits[c] = {}

\* The gather of a giving-up child is over.
GiveUpOver(c) ==
    /\ pc[c] = "giveup"
    /\ Gathered(c)
    /\ \/ CancelEscapes(c)
       \/ /\ ~mustCancel[c]
          /\ givenUp' = TRUE
          /\ TellAndEnd(c, pc, driver, mustCancel, held)
          /\ UNCHANGED <<children, restarts, mailboxes, live, watched,
                         pendingExit>>

-----------------------------------------------------------------------------
(* The callers                                                             *)

\* Supervisor.spawn: raises, changing nothing, while the name is taken.
Spawn(c) ==
    /\ pc[c] = "absent"
    /\ RegisterActor(c)
    /\ children' = Append(children, c)
    /\ pc' = [pc EXCEPT ![c] = "new"]
    /\ UNCHANGED <<driver, mustCancel, pendingExit, awaits, sweepVars, restarts,
                   givenUp, live, watched, held, stopVars>>

\* Supervisor.shutdown (and, on a node with this one Supervisor, the first
\* half of Node.stop): cancel every child, await them all.
Shutdown ==
    LET R == CancelReaches(Members, awaits)
    IN  /\ stopping = {}
        /\ Members # {}
        /\ stopping' = Members
        /\ stopAwaits' = {c \in Members : pc[c] # "done"}
        /\ driver' = DriversCancelled(R, pc, driver)
        /\ mustCancel' = CancelsDue(R, pc, driver, mustCancel, awaits)
        /\ UNCHANGED <<pc, pendingExit, awaits, sweepVars, supVars, nodeVars>>

ShutdownReturnsUnawaited ==
    /\ stopping # {}
    /\ stopping' = {} /\ stopAwaits' = {}
    /\ UNCHANGED <<pc, driver, mustCancel, pendingExit, awaits, sweepVars,
                   supVars, nodeVars>>
ShutdownReturns ==
    /\ stopping # {}
    /\ stopAwaits = {}
    /\ stopping' = {}
    /\ UNCHANGED <<pc, driver, mustCancel, pendingExit, awaits, stopAwaits,
                   sweepVars, supVars, nodeVars>>

\* Node._deliver_exit to an actor that does not trap exits.
DeliverExit(c) ==
    /\ c \in Killable
    /\ c \in live
    /\ driver[c] \in {"live", "cancelling"}
    /\ pendingExit' = [pendingExit EXCEPT ![c] = TRUE]
    /\ driver' = [driver EXCEPT ![c] = "cancelling"]
    /\ UNCHANGED <<pc, mustCancel, awaits, sweepVars, supVars, nodeVars, stopVars>>

\* A handler raises, and _drive with it.
HandlerRaises(c) ==
    /\ driver[c] = "live" \/ (driver[c] = "cancelling" /\ c \in Unruly)
    /\ driver' = [driver EXCEPT ![c] = "raised"]
    /\ UNCHANGED <<pc, mustCancel, pendingExit, awaits, sweepVars, supVars,
                   nodeVars, stopVars>>

\* A cancelled handler has unwound, and _drive with it.
HandlerUnwinds(c) ==
    /\ driver[c] = "cancelling"
    /\ driver' = [driver EXCEPT ![c] = "cancelled"]
    /\ UNCHANGED <<pc, mustCancel, pendingExit, awaits, sweepVars, supVars,
                   nodeVars, stopVars>>

\* monitor() of a name on this node by some other actor.
Monitor(n) ==
    /\ \E c \in mailboxes : NameOf[c] = n
    /\ watched' = watched \union {n}
    /\ UNCHANGED <<pc, driver, mustCancel, pendingExit, awaits, sweepVars,
                   supVars, mailboxes, live, held, stopVars>>

-----------------------------------------------------------------------------
TaskStep(c) ==
    \/ Start(c) \/ DriverEnds(c) \/ BackoffOver(c) \/ SweepOn(c)
    \/ GiveUpOver(c)

Next ==
    \/ \E c \in Child :
        \/ Spawn(c) \/ TaskStep(c)
        \/ HandlerRaises(c) \/ HandlerUnwinds(c) \/ DeliverExit(c)
    \/ \E n \in Name : Monitor(n)
    \/ Shutdown \/ ShutdownReturns

Spec == Init /\ [][Next]_vars

\* asyncio runs every task that is ready, and a cancelled handler unwinds.
\* Nothing is assumed of crashes, kills, spawns or calls of shutdown.
FairSpec ==
    /\ Spec
    /\ \A c \in Child : WF_vars(TaskStep(c)) /\ WF_vars(HandlerUnwinds(c))
    /\ WF_vars(ShutdownReturns)
-----------------------------------------------------------------------------
(* Properties                                                              *)

\* A child whose generation is running owns its name: mail sent to the name
\* reaches its mailbox and an exit signal for the name reaches its driver
\* (Node.register_actor promises that nothing else can take the name).
RunningIsReachable ==
    \A c \in Child : pc[c] = "run" => c \in mailboxes /\ c \in live

\* A name belongs to one mailbox at a time, whatever order generations end,
\* boot, and are spawned in (the collision check of Node.register_actor).
OneMailboxPerName ==
    \A c, d \in mailboxes : NameOf[c] = NameOf[d] => c = d

\* _respawn_child only replaces a task that has finished: no sweep, however
\* it overlaps another, leaves a generation running that its child lost.
NoOrphanGeneration ==
    [][\A c \in Child :
        pc'[c] = "new" /\ pc[c] # "new" => pc[c] \in {"absent", "done"}]_vars

\* When shutdown() returns, every child has stopped and none was brought back
\* by a restart it raced with, unless one was spawned in the meantime.
ShutdownIsComplete ==
    [][stopping = Members /\ stopping' = {} =>
        \A c \in stopping : pc[c] = "done"]_vars

\* Under one_for_one a step of one child's task, a crash, a restart or a
\* give-up, leaves every child with another name exactly where it was.
SiblingsUnaffected ==
    [][\A c, d \in Child :
        (Strategy = "one_for_one" /\ TaskStep(c) /\ NameOf[c] # NameOf[d] /\ pc[c] # pc'[c]) =>
            /\ pc'[d] = pc[d] /\ driver'[d] = driver[d]
            /\ d \in mailboxes => d \in mailboxes'
            /\ d \in live => d \in live']_vars

\* A group that gives up goes down whole: when _given_up is set, every child
\* there was when the budget ran out has ended, and none is to be restarted.
GroupGivesUpWhole ==
    [][\A c \in Child :
        (pc[c] = "giveup" /\ givenUp' /\ ~givenUp) =>
            \A i \in 1..Len(siblings[c]) : pc[siblings[c][i]] = "done"]_vars

\* A child that ends has told the actors watching it, whether it gave up or
\* was shut down; the one exit that leaves them waiting for a Down is a
\* shutdown that finds the child in the sleep of _handle_child_crash.
WatchersTold ==
    [][\A c \in Child :
        (pc[c] # "done" /\ pc'[c] = "done" /\ c \in held') =>
            pc[c] = "backoff" /\ c \in stopAwaits]_vars

\* A crashed child does not stay between generations: it runs again or its
\* task ends.  In particular no two tasks of a group await each other, and
\* none awaits itself, in _teardown_sibling and _shutdown_except.
CrashIsResolved ==
    \A c \in Child :
        pc[c] \in {"new", "backoff", "teardown", "giveup"}
            ~> pc[c] \in {"run", "done"}

\* shutdown() "waits for them to stop", and comes back.
ShutdownComesBack == (stopping # {}) ~> (stopping = {})
=============================================================================
