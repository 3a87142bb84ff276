-------------------------------- MODULE Exits --------------------------------
(***************************************************************************)
(* Links and monitors between actors of two nodes: lapinbeam/links.py,     *)
(* lapinbeam/monitors.py, and the tables, deliveries and the               *)
(* peer_disconnected cascade of lapinbeam/node.py.  How a Supervisor gets  *)
(* to restart an actor or to give it up is module Supervisor's; here it    *)
(* just does, and the node's tables follow.                                *)
(*                                                                         *)
(* Messages of one kind between two nodes stay in order.  The events of a  *)
(* node's core reach its loop by a path of their own, so that data sent    *)
(* before a break may be handled after the peer_disconnected of it.        *)
(***************************************************************************)
EXTENDS Naturals, Sequences, FiniteSets

CONSTANTS
    Node, Actor, NodeOf,  \* the two nodes, and the actors on them
    Ref, Watcher, Target, \* the monitor() calls that may be made
    Linkable,             \* pairs <<a, b>> such that a links to and unlinks b
    Trapping,             \* actors that may call trap_exit
    Fragile,              \* bound: actors that may crash, once, within budget
    MaxCalls,             \* bound: calls of link, unlink, monitor and the like
    MaxBreaks,            \* bound: how often the connection breaks
    LateEvents            \* an event may reach the loop after later data

ASSUME ExitsAssumption ==
    /\ NodeOf \in [Actor -> Node]
    /\ Watcher \in [Ref -> Actor] /\ Target \in [Ref -> Actor]
    /\ Linkable \subseteq Actor \X Actor /\ Trapping \subseteq Actor
    /\ Fragile \subseteq Actor
    /\ MaxCalls \in Nat /\ MaxBreaks \in Nat
    /\ LateEvents \in BOOLEAN

VARIABLES
    up,        \* "up", "backoff" between two generations, or "gone" for good
    killed,    \* actors with pending_exit set: their driver is cancelled
    restarted, \* actors that crashed within their budget
    calls,     \* how many calls the actors made
    links,     \* Node._links of each actor's node, by actor
    trap,      \* Node._trap_exit
    monitors,  \* the refs in Node._monitors of their watcher's node
    watchers,  \* the refs in Node._monitor_watchers of their target's node
    refs,      \* how far each ref is, for its watcher
    told,      \* history: <<a, b>> if, since a's last link to b, a had b's exit
               \* or the exception of a link() that could not be sent
    tasks,     \* deliveries and notifications created and not run yet
    wire,      \* per node: messages for its link and its monitor actor
    breaks,    \* how often the connection broke; odd while it is down
    events     \* peer_disconnected events each node's loop has not handled
vars == <<up, killed, restarted, calls, links, trap, monitors, watchers, refs, told,
          tasks, wire, breaks, events>>
actorVars == <<up, killed, restarted>>
linkVars == <<links, trap, told>>
monitorVars == <<monitors, watchers, refs>>
netVars == <<wire, breaks, events>>

LinkMsg == [op : {"link", "unlink", "exit"}, x : Actor, y : Actor]
MonitorMsg == [op : {"monitor", "demonitor", "down"}, ref : Ref]
Task == [op : {"exit", "remote_exit"}, x : Actor, y : Actor]
            \union [op : {"down", "remote_down"}, ref : Ref]

TypeOK ==
    /\ up \in [Actor -> {"up", "backoff", "gone"}]
    /\ killed \subseteq {a \in Actor : up[a] = "up"}
    /\ restarted \subseteq Fragile
    /\ calls \in 0..MaxCalls
    /\ links \in [Actor -> SUBSET Actor]
    /\ trap \subseteq {a \in Actor : up[a] = "up"}
    /\ monitors \subseteq Ref /\ watchers \subseteq Ref
    /\ refs \in [Ref -> {"unused", "active", "raised", "down", "cancelled"}]
    /\ told \subseteq Actor \X Actor
    /\ tasks \subseteq Task
    /\ \A n \in Node : wire[n].l \in Seq(LinkMsg) /\ wire[n].m \in Seq(MonitorMsg)
    /\ breaks \in 0..(2 * MaxBreaks)
    /\ events \in [Node -> Nat]

Init ==
    /\ up = [a \in Actor |-> "up"]
    /\ killed = {}
    /\ restarted = {}
    /\ calls = 0
    /\ links = [a \in Actor |-> {}]
    /\ trap = {}
    /\ monitors = {} /\ watchers = {}
    /\ refs = [r \in Ref |-> "unused"]
    /\ told = {}
    /\ tasks = {}
    /\ wire = [n \in Node |-> [l |-> << >>, m |-> << >>]]
    /\ breaks = 0
    /\ events = [n \in Node |-> 0]

Connected == breaks % 2 = 0
Local(a, b) == NodeOf[a] = NodeOf[b]

\* Actor a is handling a message and calls the API.
Calls(a) ==
    /\ up[a] = "up" /\ a \notin killed
    /\ calls < MaxCalls /\ calls' = calls + 1

\* RemoteRef.send to the link or the monitor actor of node n.
SendLink(n, msg) == wire' = [wire EXCEPT ![n].l = Append(@, msg)]
SendMonitor(n, msg) == wire' = [wire EXCEPT ![n].m = Append(@, msg)]

-----------------------------------------------------------------------------
(* Links                                                                   *)

\* _deliver_exit to y: an Exit message if it traps exits, else a kill.
DeliverExit(x, y) ==
    /\ told' = IF up[y] = "up" THEN told \union {<<y, x>>} ELSE told
    /\ killed' = IF up[y] = "up" /\ y \notin trap THEN killed \union {y} ELSE killed

\* link: both sides on one node, with the noproc exit at once; own side and a
\* message otherwise.  Without a connection the send raises, after the entry.
Link(a, b) ==
    /\ Calls(a) /\ <<a, b>> \in Linkable
    /\ \/ /\ Local(a, b)
          /\ links' = [links EXCEPT ![a] = @ \union {b}, ![b] = @ \union {a}]
          /\ IF up[b] = "up" THEN told' = told \ {<<a, b>>} /\ UNCHANGED killed
             ELSE DeliverExit(b, a)
          /\ UNCHANGED wire
       \/ /\ ~Local(a, b)
          /\ links' = [links EXCEPT ![a] = @ \union {b}]
          /\ IF Connected
             THEN /\ SendLink(NodeOf[b], [op |-> "link", x |-> a, y |-> b])
                  /\ told' = told \ {<<a, b>>}
             ELSE told' = told \union {<<a, b>>} /\ UNCHANGED wire
          /\ UNCHANGED killed
    /\ UNCHANGED <<up, restarted, trap, monitorVars, tasks, breaks, events>>

Unlink(a, b) ==
    /\ Calls(a) /\ b \in links[a] /\ <<a, b>> \in Linkable
    /\ \/ /\ Local(a, b)
          /\ links' = [links EXCEPT ![a] = @ \ {b}, ![b] = @ \ {a}]
          /\ UNCHANGED wire
       \/ /\ ~Local(a, b)
          /\ links' = [links EXCEPT ![a] = @ \ {b}]
          /\ IF Connected THEN SendLink(NodeOf[b], [op |-> "unlink", x |-> a, y |-> b])
             ELSE UNCHANGED wire
    /\ UNCHANGED <<actorVars, trap, told, monitorVars, tasks, breaks, events>>

\* trap_exit(True), and trap_exit(False) once it traps.
TrapExit(a) ==
    /\ Calls(a) /\ a \in Trapping
    /\ trap' = IF a \in trap THEN trap \ {a} ELSE trap \union {a}
    /\ UNCHANGED <<actorVars, links, told, monitorVars, tasks, netVars>>

\* _LinkActor.receive.  If the noproc answer cannot be sent it raises, and the
\* link actor is restarted by its Supervisor; the entry is already there.
LinkActor(n) ==
    /\ wire[n].l # << >>
    /\ LET msg == Head(wire[n].l)
           rest == [wire EXCEPT ![n].l = Tail(@)]
           noproc == msg.op = "link" /\ up[msg.y] # "up" /\ Connected
       IN  /\ links' = CASE msg.op = "link" -> [links EXCEPT ![msg.y] = @ \union {msg.x}]
                         [] msg.op = "unlink" -> [links EXCEPT ![msg.y] = @ \ {msg.x}]
                         [] msg.op = "exit" -> links
           /\ wire' = IF noproc
                      THEN [rest EXCEPT ![NodeOf[msg.x]].l =
                                Append(@, [op |-> "exit", x |-> msg.y, y |-> msg.x])]
                      ELSE rest
           /\ IF msg.op = "exit" THEN DeliverExit(msg.x, msg.y)
              ELSE UNCHANGED <<told, killed>>
    /\ UNCHANGED <<calls, up, restarted, trap, monitorVars, tasks, breaks, events>>

-----------------------------------------------------------------------------
(* Monitors                                                                *)

\* _deliver_down: the ref is forgotten whatever the reason, and its watcher,
\* if it is there, gets a Down.  An unknown ref is ignored.
DeliverDownKeep(r) ==
    /\ monitors' = monitors
    /\ refs' = IF r \in monitors \/ refs[r] = "cancelled"
               THEN [refs EXCEPT ![r] = "down"] ELSE refs
DeliverDown(r) ==
    /\ monitors' = monitors \ {r}
    /\ refs' = IF r \in monitors THEN [refs EXCEPT ![r] = "down"] ELSE refs

\* monitor: the ref is recorded first.  A local target that is not there means
\* a Down at once; without a connection the send raises and the ref stays.
Monitor(r) ==
    /\ Calls(Watcher[r]) /\ refs[r] = "unused"
    /\ \/ /\ Local(Watcher[r], Target[r])
          /\ watchers' = watchers \union {r}
          /\ \/ /\ up[Target[r]] = "up"
                /\ monitors' = monitors \union {r}
                /\ refs' = [refs EXCEPT ![r] = "active"]
             \/ /\ up[Target[r]] # "up"
                /\ refs' = [refs EXCEPT ![r] = "down"]
                /\ UNCHANGED monitors
          /\ UNCHANGED wire
       \/ /\ ~Local(Watcher[r], Target[r])
          /\ monitors' = monitors \union {r}
          /\ IF Connected
             THEN /\ SendMonitor(NodeOf[Target[r]], [op |-> "monitor", ref |-> r])
                  /\ refs' = [refs EXCEPT ![r] = "active"]
             ELSE refs' = [refs EXCEPT ![r] = "raised"] /\ UNCHANGED wire
          /\ UNCHANGED watchers
    /\ UNCHANGED <<actorVars, linkVars, tasks, breaks, events>>

Demonitor(r) ==
    /\ Calls(Watcher[r]) /\ r \in monitors /\ refs[r] = "active"
    /\ monitors' = monitors \ {r}
    /\ refs' = [refs EXCEPT ![r] = "cancelled"]
    /\ IF Local(Watcher[r], Target[r])
       THEN watchers' = watchers \ {r} /\ UNCHANGED wire
       ELSE /\ UNCHANGED watchers
            /\ IF Connected
               THEN SendMonitor(NodeOf[Target[r]], [op |-> "demonitor", ref |-> r])
               ELSE UNCHANGED wire
    /\ UNCHANGED <<actorVars, linkVars, tasks, breaks, events>>

\* _MonitorActor.receive.  A target that is not there is answered at once; the
\* watcher's entry stays behind all the same.
Noproc(r) == up[Target[r]] # "up" /\ Connected
MonitorActor(n) ==
    /\ wire[n].m # << >>
    /\ LET msg == Head(wire[n].m)
           rest == [wire EXCEPT ![n].m = Tail(@)]
       IN  /\ watchers' = CASE msg.op = "monitor" -> watchers \union {msg.ref}
                            [] msg.op = "demonitor" -> watchers \ {msg.ref}
                            [] msg.op = "down" -> watchers
           /\ wire' = IF msg.op = "monitor" /\ Noproc(msg.ref)
                      THEN [rest EXCEPT ![NodeOf[Watcher[msg.ref]]].m =
                                Append(@, [op |-> "down", ref |-> msg.ref])]
                      ELSE rest
           /\ IF msg.op = "down" THEN DeliverDown(msg.ref)
              ELSE UNCHANGED <<monitors, refs>>
    /\ UNCHANGED <<calls, actorVars, linkVars, tasks, breaks, events>>

-----------------------------------------------------------------------------
(* Generations: _run_actor_child's calls of the node                       *)

\* _clear_links and _clear_monitors, at every end of a generation.
Cleared(a) ==
    /\ links' = [links EXCEPT ![a] = {}]
    /\ trap' = trap \ {a}
    /\ watchers' = {r \in watchers : Target[r] # a}
    /\ killed' = killed \ {a}

\* A crash within budget: nobody is told.
Crash(a) ==
    /\ up[a] = "up" /\ a \in Fragile \ restarted
    /\ up' = [up EXCEPT ![a] = "backoff"]
    /\ restarted' = restarted \union {a}
    /\ Cleared(a)
    /\ UNCHANGED <<calls, told, monitors, refs, tasks, netVars>>

Restart(a) ==
    /\ up[a] = "backoff"
    /\ up' = [up EXCEPT ![a] = "up"]
    /\ UNCHANGED <<calls, killed, restarted, linkVars, monitorVars, tasks, netVars>>

\* Shut down in its backoff: nothing catches the cancellation there, and the
\* tables are cleared already, so that nobody is told.
CancelledInBackoff(a) ==
    /\ up[a] = "backoff"
    /\ up' = [up EXCEPT ![a] = "gone"]
    /\ UNCHANGED <<calls, killed, restarted, linkVars, monitorVars, tasks, netVars>>

\* _notify_links, _notify_monitors: a task for each target and each watcher.
ExitTasksNear(a) == {[op |-> "exit", x |-> a, y |-> b] : b \in {q \in links[a] : Local(a, q)}}
ExitTasks(a) ==
    {[op |-> IF Local(a, b) THEN "exit" ELSE "remote_exit", x |-> a, y |-> b] :
        b \in links[a]}
DownTasks(a) ==
    {[op |-> IF Local(Watcher[r], a) THEN "down" ELSE "remote_down", ref |-> r] :
        r \in {q \in watchers : Target[q] = a}}

\* Gone for good: given up, shut down or returned.
GiveUp(a) ==
    /\ up[a] = "up"
    /\ up' = [up EXCEPT ![a] = "gone"]
    /\ tasks' = tasks \union ExitTasks(a) \union DownTasks(a)
    /\ Cleared(a)
    /\ UNCHANGED <<calls, restarted, told, monitors, refs, netVars>>

\* A task runs: _deliver_exit, _deliver_down, _notify_remote_exit or
\* _notify_remote_down.  What cannot be sent is dropped.
RunTask(t) ==
    /\ t \in tasks
    /\ tasks' = tasks \ {t}
    /\ \/ /\ t.op = "exit"
          /\ DeliverExit(t.x, t.y)
          /\ UNCHANGED <<monitors, refs, wire>>
       \/ /\ t.op = "down"
          /\ DeliverDown(t.ref)
          /\ UNCHANGED <<told, killed, wire>>
       \/ /\ t.op = "remote_exit"
          /\ IF Connected THEN SendLink(NodeOf[t.y], [op |-> "exit", x |-> t.x, y |-> t.y])
             ELSE UNCHANGED wire
          /\ UNCHANGED <<told, killed, monitors, refs>>
       \/ /\ t.op = "remote_down"
          /\ IF Connected
             THEN SendMonitor(NodeOf[Watcher[t.ref]], [op |-> "down", ref |-> t.ref])
             ELSE UNCHANGED wire
          /\ UNCHANGED <<told, killed, monitors, refs>>
    /\ UNCHANGED <<calls, up, restarted, links, trap, watchers, breaks, events>>

-----------------------------------------------------------------------------
(* The connection                                                          *)

\* It breaks (external: see Transport).  Of what was sent the receivers have
\* all, or only the first part.
Break ==
    /\ Connected /\ breaks < 2 * MaxBreaks
    /\ breaks' = breaks + 1
    /\ events' = [n \in Node |-> events[n] + 1]
    /\ \E keep \in BOOLEAN :
        wire' = IF keep THEN wire ELSE [n \in Node |-> [l |-> << >>, m |-> << >>]]
    /\ UNCHANGED <<calls, actorVars, linkVars, monitorVars, tasks>>
Reconnect ==
    /\ ~Connected
    /\ LateEvents \/ \A n \in Node : events[n] = 0
    /\ breaks' = breaks + 1
    /\ UNCHANGED <<calls, actorVars, linkVars, monitorVars, tasks, wire, events>>

\* The refs whose watcher a peer_disconnected on node n owes a Down.
OwedNone(n) == {}
Owed(n) == {r \in monitors : NodeOf[Watcher[r]] = n /\ NodeOf[Target[r]] # n}

\* _on_core_event, peer_disconnected: links to the peer are dropped with a
\* noconnection exit, watchers on it are forgotten, and every monitor of one
\* of its actors gets a Down.
PeerDisconnected(n) ==
    LET far(a) == {b \in links[a] : NodeOf[b] # n}
        here == {a \in Actor : NodeOf[a] = n}
    IN  /\ events[n] > 0
        /\ events' = [events EXCEPT ![n] = @ - 1]
        /\ links' = [a \in Actor |-> IF a \in here THEN links[a] \ far(a) ELSE links[a]]
        /\ watchers' = {r \in watchers : NodeOf[Target[r]] # n \/ NodeOf[Watcher[r]] = n}
        /\ tasks' = tasks
              \union (UNION {{[op |-> "exit", x |-> b, y |-> a] : b \in far(a)} : a \in here})
              \union {[op |-> "down", ref |-> r] : r \in Owed(n)}
        /\ UNCHANGED <<calls, actorVars, trap, told, monitors, refs, wire, breaks>>

-----------------------------------------------------------------------------
NodeStep(n) == LinkActor(n) \/ MonitorActor(n) \/ PeerDisconnected(n)
Next ==
    \/ \E a, b \in Actor : Link(a, b) \/ Unlink(a, b)
    \/ \E a \in Actor : TrapExit(a) \/ Crash(a) \/ Restart(a)
                         \/ CancelledInBackoff(a) \/ GiveUp(a)
    \/ \E r \in Ref : Monitor(r) \/ Demonitor(r)
    \/ \E n \in Node : NodeStep(n)
    \/ \E t \in tasks : RunTask(t)
    \/ Break \/ Reconnect
Spec == Init /\ [][Next]_vars

\* The loops run what is ready, and a cancelled driver ends.
FairSpec ==
    /\ Spec
    /\ \A n \in Node : WF_vars(LinkActor(n)) /\ WF_vars(MonitorActor(n))
                        /\ WF_vars(PeerDisconnected(n))
    /\ WF_vars(\E t \in tasks : RunTask(t))
    /\ \A a \in Actor : WF_vars(Restart(a) \/ CancelledInBackoff(a))
                        /\ WF_vars(a \in killed /\ (Crash(a) \/ GiveUp(a)))
-----------------------------------------------------------------------------
(* Properties                                                              *)

\* A monitor fires at most once and never after demonitor() returned, though
\* a noproc, a down and a noconnection for the same ref may all be under way:
\* _deliver_down forgets the ref first.
DownOnce ==
    [][\A r \in Ref :
        /\ refs[r] \in {"down", "cancelled"} => refs'[r] = refs[r]
        /\ refs'[r] = "down" => r \notin monitors']_vars

\* "If the monitored actor exits for good, the watcher receives a Down", also
\* if a break swallows the monitor, the down or the noproc message: then the
\* noconnection of peer_disconnected stands in for it.  (A target that has
\* restarted since has forgotten the monitor, as monitors.py documents.)
DownArrives ==
    \A r \in Ref :
        (refs[r] = "active" /\ up[Target[r]] = "gone" /\ Target[r] \notin restarted)
            ~> refs[r] # "active"

\* "if either one exits for good, the other receives an exit signal too", also
\* for a link whose messages a break has swallowed: an actor that has recorded
\* a link to one that is gone is told, or ends or unlinks before.
ExitArrives ==
    \A a, b \in Actor :
        (<<a, b>> \in Linkable /\ b \in links[a] /\ up[b] = "gone" /\ b \notin restarted)
            ~> (<<a, b>> \in told \/ b \notin links[a])
=============================================================================
