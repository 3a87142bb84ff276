------------------------------ MODULE Discovery ------------------------------
(***************************************************************************)
(* One node's way into a cluster: Node.start, connect_peer with its        *)
(* waiters, forget_peer and stop of lapinbeam/node.py, and the seed        *)
(* discovery of lapinbeam/discovery.py on top of them.  The connections    *)
(* are made and broken by the core at any time (module Transport); its     *)
(* events are handled by the loop later, in order.                         *)
(***************************************************************************)
EXTENDS Naturals, Sequences, FiniteSets

CONSTANTS
    Self, Peer,       \* this node and the others
    Knows,            \* what each other node answers to WHO_DO_YOU_KNOW
    Reachable,        \* the peers that can be connected
    Joiner, Seeds,    \* the calls of join_via_seeds, and their seeds
    MaxBreaks         \* bound: connections that break or are forgotten

ASSUME DiscoveryAssumption ==
    /\ Self \notin Peer /\ Reachable \subseteq Peer
    /\ Knows \in [Peer -> SUBSET (Peer \union {Self})]
    /\ Seeds \in [Joiner -> SUBSET (Peer \union {Self})]
    /\ MaxBreaks \in Nat

VARIABLES
    node,    \* "new", "started", "stopping" (stop awaits the actors), "stopped"
    link,    \* the peers the core has
    events,  \* events not handled yet
    known,   \* the set register_discovery shares with its actor
    join,    \* the locals of each join_via_seeds
    fut,     \* what became of the future each caller of connect_peer awaits
    waiters, \* Node._peer_waiters: the callers listed under their peer
    breaks
vars == <<node, link, events, known, join, fut, waiters, breaks>>

Id == Peer \union {Self}
TypeOK ==
    /\ node \in {"new", "started", "stopping", "stopped"}
    /\ link \subseteq Peer /\ known \subseteq Id
    /\ events \in Seq([kind : {"peer_connected", "peer_disconnected"}, peer : Peer])
    /\ join \in [Joiner -> [at : {"idle", "connecting", "asking", "done", "raised"},
                            peer : Id, connected : SUBSET Peer, visited : SUBSET Id,
                            frontier : SUBSET Id, next : SUBSET Id]]
    /\ fut \in [Joiner -> {"none", "pending", "set", "failed"}]
    /\ waiters \subseteq {j \in Joiner : join[j].at = "connecting"}
    /\ breaks \in 0..MaxBreaks

Init ==
    /\ node = "new"
    /\ link = {} /\ known = {Self}
    /\ events = << >>
    /\ join = [j \in Joiner |-> [at |-> "idle", peer |-> Self, connected |-> {},
                                 visited |-> {}, frontier |-> {}, next |-> {}]]
    /\ fut = [j \in Joiner |-> "none"]
    /\ waiters = {}
    /\ breaks = 0

HasCore == node \in {"started", "stopping"}

-----------------------------------------------------------------------------
(* join_via_seeds, from one await to the next                              *)

\* The peers left in this round, or those of the next one.  Sets stand for the
\* code's lists: what is listed twice is skipped as visited.
TodoRound(r) == r.frontier \ r.visited
Todo(r) == IF r.frontier \subseteq r.visited THEN r.next \ r.visited
           ELSE r.frontier \ r.visited

\* visited.add, before anything can fail.
VisitedNever(r, p) == r.visited
Visited(r, p) == r.visited \union {p}

\* The finally block of connect_peer.
Unlisted(j) == waiters \ {j}

\* The loop goes on with record r: connect_peer of one more peer, and the ask
\* if it is there already; or the call returns.  Without a core it raises.
Continue(j, r) ==
    \/ /\ Todo(r) = {}
       /\ join' = [join EXCEPT ![j] = [r EXCEPT !.at = "done"]]
       /\ fut' = [fut EXCEPT ![j] = "none"]
       /\ waiters' = Unlisted(j)
    \/ \E p \in Todo(r) :
        LET asked == [r EXCEPT !.peer = p, !.visited = Visited(r, p), !.frontier = Todo(r),
                               !.next = IF r.frontier \subseteq r.visited THEN {} ELSE @]
            wait == HasCore /\ p \notin link
        IN  /\ join' = [join EXCEPT ![j] =
                  [asked EXCEPT !.at = CASE ~HasCore -> "raised"
                                         [] wait -> "connecting"
                                         [] OTHER -> "asking"]]
            /\ fut' = [fut EXCEPT ![j] = IF wait THEN "pending" ELSE "none"]
            /\ waiters' = IF wait THEN waiters \union {j} ELSE Unlisted(j)

Start(j) ==
    /\ join[j].at = "idle" /\ node # "new"
    /\ Continue(j, [join[j] EXCEPT !.visited = {Self}, !.frontier = Seeds[j]])
    /\ UNCHANGED <<node, link, events, known, breaks>>

\* connect_peer returns; the ask is sent, and raises a ValueError, which the
\* loop does not catch, if the connection has gone again.
Resume(j) ==
    /\ join[j].at = "connecting" /\ fut[j] = "set"
    /\ join' = [join EXCEPT ![j].at =
                  IF HasCore /\ join[j].peer \in link THEN "asking" ELSE "raised"]
    /\ fut' = [fut EXCEPT ![j] = "none"]
    /\ waiters' = Unlisted(j)
    /\ UNCHANGED <<node, link, events, known, breaks>>

\* connect_peer raises ConnectionError, after its timeout or by stop.
ConnectFails(j) ==
    /\ join[j].at = "connecting" /\ fut[j] \in {"pending", "failed"}
    /\ Continue(j, join[j])
    /\ UNCHANGED <<node, link, events, known, breaks>>

\* The answer, or none in time.
Answered(j) ==
    /\ join[j].at = "asking" /\ HasCore
    /\ Continue(j, [join[j] EXCEPT !.connected = @ \union {join[j].peer},
                                   !.next = @ \union (Knows[join[j].peer] \ join[j].visited)])
    /\ UNCHANGED <<node, link, events, known, breaks>>
AskTimesOut(j) ==
    /\ join[j].at = "asking"
    /\ Continue(j, join[j])
    /\ UNCHANGED <<node, link, events, known, breaks>>

-----------------------------------------------------------------------------
(* The node                                                                *)

NodeStart ==
    /\ node = "new" /\ node' = "started"
    /\ UNCHANGED <<link, events, known, join, fut, waiters, breaks>>

\* stop cancels the actors and waits for them ...
NodeStop ==
    /\ node = "started" /\ node' = "stopping"
    /\ UNCHANGED <<link, events, known, join, fut, waiters, breaks>>

\* ... then drops the core and fails whoever waits for a connection.
ReleasedNone == {}
Released == waiters
NodeStopped ==
    /\ node = "stopping" /\ node' = "stopped"
    /\ link' = {} /\ events' = << >>
    /\ fut' = [j \in Joiner |->
                 IF j \in Released /\ fut[j] = "pending" THEN "failed" ELSE fut[j]]
    /\ waiters' = {}
    /\ UNCHANGED <<known, join, breaks>>

\* _on_core_event with the listener of register_discovery.
WokenOne(p) == IF waiters = {} THEN {} ELSE {CHOOSE j \in waiters : TRUE}
Woken(p) == {j \in waiters : join[j].peer = p}
OnCoreEvent ==
    LET e == Head(events)
    IN  /\ events # << >> /\ events' = Tail(events)
        /\ \/ /\ e.kind = "peer_connected"
              /\ fut' = [j \in Joiner |->
                    IF j \in Woken(e.peer) /\ fut[j] = "pending" THEN "set" ELSE fut[j]]
              /\ known' = known \union {e.peer}
           \/ /\ e.kind = "peer_disconnected"
              /\ known' = known \ {e.peer}
              /\ UNCHANGED fut
        /\ UNCHANGED <<node, link, join, waiters, breaks>>

\* The core (external).
PeerConnected(p) ==
    /\ HasCore /\ p \in Reachable \ link
    /\ link' = link \union {p}
    /\ events' = Append(events, [kind |-> "peer_connected", peer |-> p])
    /\ UNCHANGED <<node, known, join, fut, waiters, breaks>>

\* It breaks, or forget_peer drops it.
PeerDisconnected(p) ==
    /\ p \in link /\ breaks < MaxBreaks
    /\ breaks' = breaks + 1
    /\ link' = link \ {p}
    /\ events' = Append(events, [kind |-> "peer_disconnected", peer |-> p])
    /\ UNCHANGED <<node, known, join, fut, waiters>>

JoinStep(j) == Resume(j) \/ ConnectFails(j) \/ Answered(j) \/ AskTimesOut(j)
Next ==
    \/ NodeStart \/ NodeStop \/ NodeStopped \/ OnCoreEvent
    \/ \E p \in Peer : PeerConnected(p) \/ PeerDisconnected(p)
    \/ \E j \in Joiner : Start(j) \/ JoinStep(j)
Spec == Init /\ [][Next]_vars

\* A caller goes on: connect_peer and ask both have a timeout.
FairSpec == Spec /\ \A j \in Joiner : WF_vars(JoinStep(j))
-----------------------------------------------------------------------------
(* Properties                                                              *)

\* "transitively connects to (and asks) everything each newly-reached node
\* reports knowing about, until a full pass finds nothing new": when it
\* returns, whatever failed on the way, it has tried exactly the seeds and all
\* that the peers it reports back had told it of.
JoinIsClosed ==
    \A j \in Joiner : join[j].at = "done" =>
        join[j].visited = {Self} \union Seeds[j] \union UNION {Knows[p] : p \in join[j].connected}

\* stop leaves nobody to its connect timeout, though connect_peer may still be
\* called while stop waits for the actors: no future is pending without a core,
\* and a future that is pending is listed, so that an event or stop finds it.
WaitersAreReleased ==
    \A j \in Joiner : fut[j] = "pending" => HasCore /\ j \in waiters

\* A connection wakes everybody who waits for it: with no event left to handle,
\* a caller awaits only a peer that is not there, and the discovery actor
\* answers exactly the connected peers and itself.
EventsAreApplied ==
    (HasCore /\ events = << >>) =>
        /\ known = link \union {Self}
        /\ \A j \in Joiner : fut[j] = "pending" => join[j].peer \notin link

\* "until a full pass finds nothing new" comes to an end, though nodes know each
\* other in circles and peers come and go.
JoinReturns ==
    \A j \in Joiner : join[j].at \in {"connecting", "asking"} ~> join[j].at \in {"done", "raised"}
=============================================================================
