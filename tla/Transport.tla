------------------------------ MODULE Transport ------------------------------
(***************************************************************************)
(* The peer tables of the nodes of a cluster (src/transport/mod.rs):       *)
(* dials, inbound handshakes, the tiebreak of simultaneous dials, the read *)
(* loops and their cleanup, forget_peer, and automatic reconnection.       *)
(*                                                                         *)
(* The tasks of a node run on a multi-threaded tokio runtime and share     *)
(* `peers` and `desired` behind locks, so an action is what a task does    *)
(* under one lock, or between two awaits.  A connection k has an "out"     *)
(* end, at the node that dials it, and an "in" end; at[<<k, e>>] is        *)
(*   out:  "free"      no such connection     "begin"  dial() called       *)
(*         "checked"   has_peer was false     "tcp"    TcpStream::connect  *)
(*         "made"      stream open            "inserted"  in `peers`       *)
(*         "greeted"   handshake sent, read_loop not started               *)
(*   in:   "none"      not accepted           "handshake"  read_loop waits *)
(*                                            for the handshake frame      *)
(*   both: "reading"   read_loop, registered  "closing"  loop left         *)
(*         "removed"   entry removed, PeerDisconnected not yet sent        *)
(*         "closed"    both halves of the stream dropped                   *)
(***************************************************************************)
EXTENDS Naturals, Sequences, FiniteSets

CONSTANTS
    Node,         \* the nodes, by their full ids
    Rank,         \* the lexicographic order of the full ids
    Conn,         \* identities of TCP connections, used again once closed
    From,         \* the node that dials a connection
    To,           \* the node it dials
    NoConn,       \* no entry in `peers`
    MaxAttempts,  \* reconnect_max_attempts
    EventBuffer,  \* capacity of the `events` broadcast channel
    Forgetful,    \* nodes whose application calls forget_peer
    MaxCalls      \* bound: calls of the application, restarts, faults and
                  \* dials of reconnect_loops

ASSUME TransportAssumption ==
    /\ Rank \in [Node -> Nat]
    /\ \A n, m \in Node : Rank[n] = Rank[m] => n = m
    /\ From \in [Conn -> Node]
    /\ To \in [Conn -> Node]
    /\ \A k \in Conn : From[k] # To[k]
    /\ NoConn \notin Conn
    /\ MaxAttempts \in Nat \ {0}
    /\ EventBuffer \in Nat \ {0}
    /\ Forgetful \subseteq Node
    /\ MaxCalls \in Nat

VARIABLES
    at,        \* the two ends of every connection
    attempt,   \* the dial is the i-th try of a reconnect_loop; 0: connect()
    greeted,   \* connections whose handshake frame is in flight
    broken,    \* connections the network has cut
    told,      \* ends whose read_loop has an unread PeerDisconnected(peer)
    forget,    \* how far a forget_peer(m) of node n is
    peers,     \* Transport.peers: the connection a node uses to a peer
    desired,   \* Transport.desired
    loops,     \* <<n, m, i>>: reconnect_loops sleeping before their i-th try
    events,    \* what reconnect_supervisor has not read: a node for its
               \* PeerDisconnected, NoConn for any other event
    lagged,    \* nodes whose reconnect_supervisor missed an event
    forgotten, \* history: <<n, m>> if n last asked to forget m, not to connect
    calls      \* how many of those so far

tableVars == <<peers, desired>>
eventVars == <<told, forget, events, lagged>>
vars == <<at, attempt, greeted, broken, told, forget, peers, desired, loops,
          events, lagged, forgotten, calls>>

Side == {"out", "in"}
End == Conn \X Side
State == {"free", "begin", "checked", "tcp", "made", "inserted", "greeted",
          "none", "handshake", "reading", "closing", "removed", "closed"}
Pair == Node \X Node
Loop == Node \X Node \X (1..MaxAttempts)

TypeOK ==
    /\ at \in [End -> State]
    /\ attempt \in [Conn -> 0..MaxAttempts]
    /\ greeted \subseteq Conn
    /\ broken \subseteq Conn
    /\ told \subseteq End
    /\ forget \in [Pair -> {"no", "drop", "tell"}]
    /\ peers \in [Pair -> Conn \union {NoConn}]
    /\ desired \in [Node -> SUBSET Node]
    /\ loops \in [Loop -> Nat]
    /\ events \in [Node -> Seq(Node \union {NoConn})]
    /\ \A n \in Node : Len(events[n]) <= EventBuffer
    /\ lagged \subseteq Node
    /\ forgotten \subseteq Pair
    /\ calls \in 0..MaxCalls

Init ==
    /\ at = [x \in End |-> IF x[2] = "out" THEN "free" ELSE "none"]
    /\ attempt = [k \in Conn |-> 0]
    /\ greeted = {}
    /\ broken = {}
    /\ told = {}
    /\ forget = [p \in Pair |-> "no"]
    /\ peers = [p \in Pair |-> NoConn]
    /\ desired = [n \in Node |-> {}]
    /\ loops = [l \in Loop |-> 0]
    /\ events = [n \in Node |-> << >>]
    /\ lagged = {}
    /\ forgotten = {}
    /\ calls = 0

Out(k) == at[<<k, "out">>]
In(k) == at[<<k, "in">>]
Local(x) == IF x[2] = "out" THEN From[x[1]] ELSE To[x[1]]
Remote(x) == IF x[2] = "out" THEN To[x[1]] ELSE From[x[1]]
Other(x) == <<x[1], IF x[2] = "out" THEN "in" ELSE "out">>
Table(x) == <<Local(x), Remote(x)>>      \* where an end is listed in `peers`
HasPeer(n, m) == peers[<<n, m>>] # NoConn
Call == calls < MaxCalls /\ calls' = calls + 1

-----------------------------------------------------------------------------
(* Sockets and the broadcast channel (external: tokio)                     *)

\* A connection with both ends closed is gone, and its identity free again.
Dead(f) == {k \in Conn : f[<<k, "out">>] \in {"free", "closed"}
                         /\ f[<<k, "in">>] \in {"none", "closed"}}
Move(f, g) ==
    /\ at' = [x \in End |-> IF x[1] \notin Dead(f) THEN f[x]
                            ELSE IF x[2] = "out" THEN "free" ELSE "none"]
    /\ greeted' = g \ Dead(f)
    /\ broken' = broken \ Dead(f)

\* events.send at node n, as reconnect_supervisor sees it: when the buffer
\* is full it loses the oldest event, and its next recv() says Lagged.
Send(n, event) ==
    IF n \in lagged \/ Len(events[n]) = EventBuffer
    THEN /\ events' = [events EXCEPT ![n] = << >>]
         /\ lagged' = lagged \union {n}
    ELSE /\ events' = [events EXCEPT ![n] = Append(@, event)]
         /\ UNCHANGED lagged

\* The read loops of n for connections to m: an inbound one subscribes when
\* it starts, before the handshake; an outbound one when its task first runs.
Subscribed(f, n, m) ==
    {x \in End : /\ Table(x) = <<n, m>>
                 /\ f[x] \in {"handshake", "reading"}}

\* PeerDisconnected(m) at node n, with the ends then as in f.
SendDisconnected(n, m, f) ==
    /\ told' = told \union Subscribed(f, n, m)
    /\ Send(n, m)
-----------------------------------------------------------------------------
(* dial, connect                                                           *)

\* connection_wins_tiebreak: the node with the smaller id is the dialer.
WinsTiebreak(k) == Rank[From[k]] < Rank[To[k]]

\* Both table insertions: an entry stays unless the new connection wins.
Yields(k, p) == peers[p] # NoConn /\ ~WinsTiebreak(k)

\* connect() is called: a dial() task starts.
Connect(k) ==
    /\ Call
    /\ Out(k) = "free"
    /\ Move([at EXCEPT ![<<k, "out">>] = "begin"], greeted)
    /\ attempt' = [attempt EXCEPT ![k] = 0]
    /\ forgotten' = forgotten \ {<<From[k], To[k]>>}
    /\ UNCHANGED <<tableVars, eventVars, loops>>

\* dial() returns at once when the peer is connected.
DialBegin(k) ==
    LET next == IF HasPeer(From[k], To[k]) THEN "closed" ELSE "checked"
    IN  /\ Out(k) = "begin"
        /\ Move([at EXCEPT ![<<k, "out">>] = next], greeted)
        /\ UNCHANGED <<attempt, tableVars, eventVars, loops, forgotten, calls>>

\* Else the peer becomes desired, under another lock.
DialWants(k) ==
    /\ Out(k) = "checked"
    /\ Move([at EXCEPT ![<<k, "out">>] = "tcp"], greeted)
    /\ desired' = [desired EXCEPT ![From[k]] = @ \union {To[k]}]
    /\ UNCHANGED <<attempt, peers, eventVars, loops, forgotten, calls>>

\* The stream opens; the accept loop of the peer starts a read_loop.
TcpOpens(k) ==
    /\ Out(k) = "tcp"
    /\ Move([at EXCEPT ![<<k, "out">>] = "made", ![<<k, "in">>] = "handshake"],
            greeted)
    /\ UNCHANGED <<attempt, tableVars, eventVars, loops, forgotten, calls>>

\* Variant: connect() does not retry a first dial that failed.
DialFailsForGood(k) ==
    /\ Out(k) = "tcp"
    /\ Move([at EXCEPT ![<<k, "out">>] = "closed"], greeted)
    /\ UNCHANGED <<attempt, tableVars, eventVars, loops, forgotten, calls>>

\* The stream does not open; or the timeout of reconnect_loop drops dial()
\* while it waits for anything.  connect() leaves the peer to a new
\* reconnect_loop; a reconnect_loop tries again, up to max_attempts times.
DialFails(k) ==
    LET n == From[k]
        m == To[k]
        i == attempt[k]
    IN  /\ \/ Out(k) = "tcp"
           \/ i > 0 /\ Out(k) \in {"begin", "checked", "made"}
        /\ Move([at EXCEPT ![<<k, "out">>] = "closed"], greeted)
        /\ attempt' = [attempt EXCEPT ![k] = 0]
        /\ \/ /\ i < MaxAttempts
              /\ loops' = [loops EXCEPT ![<<n, m, i + 1>>] = @ + 1]
              /\ UNCHANGED <<desired, eventVars>>
           \/ /\ i = MaxAttempts
              /\ desired' = [desired EXCEPT ![n] = @ \ {m}]
              /\ Send(n, NoConn)
              /\ UNCHANGED <<loops, told, forget>>
        /\ UNCHANGED <<peers, forgotten, calls>>

\* Under the lock of `peers`: enter the table, or drop the stream.
DialInsert(k) ==
    LET p == <<From[k], To[k]>>
    IN  /\ Out(k) = "made"
        /\ attempt' = [attempt EXCEPT ![k] = 0]
        /\ \/ /\ Yields(k, p)
              /\ Move([at EXCEPT ![<<k, "out">>] = "closed"], greeted)
              /\ UNCHANGED peers
           \/ /\ ~Yields(k, p)
              /\ Move([at EXCEPT ![<<k, "out">>] = "inserted"], greeted)
              /\ peers' = [peers EXCEPT ![p] = k]
        /\ UNCHANGED <<desired, eventVars, loops, forgotten, calls>>

\* The handshake is sent, PeerConnected too.
DialGreets(k) ==
    /\ Out(k) = "inserted"
    /\ Move([at EXCEPT ![<<k, "out">>] = "greeted"],
            IF In(k) = "handshake" THEN greeted \union {k} ELSE greeted)
    /\ Send(From[k], NoConn)
    /\ UNCHANGED <<attempt, tableVars, told, forget, loops, forgotten, calls>>

\* The task of the read_loop starts, and subscribes to the events.
DialReads(k) ==
    /\ Out(k) = "greeted"
    /\ Move([at EXCEPT ![<<k, "out">>] = "reading"], greeted)
    /\ UNCHANGED <<attempt, tableVars, eventVars, loops, forgotten, calls>>

-----------------------------------------------------------------------------
(* read_loop                                                               *)

\* The handshake frame arrives: enter the table, or drop the stream.
Register(k) ==
    LET p == <<To[k], From[k]>>
    IN  /\ In(k) = "handshake"
        /\ k \in greeted
        /\ \/ /\ Yields(k, p)
              /\ Move([at EXCEPT ![<<k, "in">>] = "closed"], greeted \ {k})
              /\ told' = told \ {<<k, "in">>}
              /\ UNCHANGED <<peers, events, lagged>>
           \/ /\ ~Yields(k, p)
              /\ Move([at EXCEPT ![<<k, "in">>] = "reading"], greeted \ {k})
              /\ peers' = [peers EXCEPT ![p] = k]
              /\ Send(To[k], NoConn)
              /\ UNCHANGED told
        /\ UNCHANGED <<attempt, desired, forget, loops, forgotten, calls>>

\* EOF, an error or silence before any handshake: nothing to clean up.
InboundDropped(k) ==
    /\ In(k) = "handshake"
    /\ k \in broken \/ (Out(k) = "closed" /\ k \notin greeted)
    /\ Move([at EXCEPT ![<<k, "in">>] = "closed"], greeted \ {k})
    /\ told' = told \ {<<k, "in">>}
    /\ UNCHANGED <<attempt, tableVars, forget, events, lagged, loops,
                   forgotten, calls>>

\* Variant: heartbeats go out on every open connection.
SilentWhenCut(x) == x[1] \in broken \/ at[Other(x)] = "closed"

\* Variant: an end of file goes unnoticed.
SilentIfBroken(x) == x[1] \in broken

\* Nothing more will be read at end x: the stream was cut, the other end
\* closed it, or the peer uses another connection, so that no heartbeat comes
\* on this one within peer_timeout.
Silent(x) ==
    \/ x[1] \in broken
    \/ at[Other(x)] = "closed"
    \/ at[Other(x)] = "reading" /\ peers[Table(Other(x))] # x[1]

\* Variant: the loop is left by return, past the cleanup.
ReadEndsReturns(x) ==
    /\ at[x] = "reading"
    /\ Silent(x)
    /\ Move([at EXCEPT ![x] = "closed"], greeted)
    /\ told' = told \ {x}
    /\ UNCHANGED <<attempt, tableVars, forget, events, lagged, loops,
                   forgotten, calls>>

ReadEnds(x) ==
    /\ at[x] = "reading"
    /\ Silent(x)
    /\ Move([at EXCEPT ![x] = "closing"], greeted)
    /\ told' = told \ {x}
    /\ UNCHANGED <<attempt, tableVars, forget, events, lagged, loops,
                   forgotten, calls>>

\* A PeerDisconnected of its own peer ends a registered read_loop.
Notified(x) ==
    /\ at[x] = "reading"
    /\ x \in told
    /\ Move([at EXCEPT ![x] = "closing"], greeted)
    /\ told' = told \ {x}
    /\ UNCHANGED <<attempt, tableVars, forget, events, lagged, loops,
                   forgotten, calls>>

\* Variant: whatever entry the peer has is removed.
CleanupAny(x) ==
    /\ at[x] = "closing"
    /\ peers' = [peers EXCEPT ![Table(x)] = NoConn]
    /\ Move([at EXCEPT ![x] = "removed"], greeted)
    /\ UNCHANGED <<attempt, desired, eventVars, loops, forgotten, calls>>

\* Under the lock of `peers`: remove the entry if it is this connection's.
Cleanup(x) ==
    /\ at[x] = "closing"
    /\ \/ /\ peers[Table(x)] = x[1]
          /\ peers' = [peers EXCEPT ![Table(x)] = NoConn]
          /\ Move([at EXCEPT ![x] = "removed"], greeted)
       \/ /\ peers[Table(x)] # x[1]
          /\ Move([at EXCEPT ![x] = "closed"], greeted)
          /\ UNCHANGED peers
    /\ UNCHANGED <<attempt, desired, eventVars, loops, forgotten, calls>>

\* The lock is released, the event sent, the stream dropped.
CleanupTells(x) ==
    /\ at[x] = "removed"
    /\ SendDisconnected(Local(x), Remote(x), at)
    /\ Move([at EXCEPT ![x] = "closed"], greeted)
    /\ UNCHANGED <<attempt, tableVars, forget, loops, forgotten, calls>>

-----------------------------------------------------------------------------
(* forget_peer, reconnect_supervisor, reconnect_loop                       *)

\* Three steps: the lock of `desired`, the lock of `peers`, the event.
ForgetPeer(n, m) ==
    /\ Call
    /\ n \in Forgetful /\ m # n
    /\ forget[<<n, m>>] = "no"
    /\ forget' = [forget EXCEPT ![<<n, m>>] = "drop"]
    /\ desired' = [desired EXCEPT ![n] = @ \ {m}]
    /\ forgotten' = forgotten \union {<<n, m>>}
    /\ UNCHANGED <<at, attempt, greeted, broken, told, peers, events, lagged,
                   loops>>

ForgetDrops(n, m) ==
    /\ forget[<<n, m>>] = "drop"
    /\ forget' = [forget EXCEPT ![<<n, m>>] = IF HasPeer(n, m) THEN "tell" ELSE "no"]
    /\ peers' = [peers EXCEPT ![<<n, m>>] = NoConn]
    /\ UNCHANGED <<at, attempt, greeted, broken, told, desired, events, lagged,
                   loops, forgotten, calls>>

ForgetTells(n, m) ==
    /\ forget[<<n, m>>] = "tell"
    /\ forget' = [forget EXCEPT ![<<n, m>>] = "no"]
    /\ SendDisconnected(n, m, at)
    /\ UNCHANGED <<at, attempt, greeted, broken, tableVars, loops, forgotten,
                   calls>>

\* reconnect_supervisor reads one event.  Lagged ends it for good.
SupervisorReads(n) ==
    LET m == Head(events[n])
    IN  /\ n \notin lagged
        /\ events[n] # << >>
        /\ events' = [events EXCEPT ![n] = Tail(@)]
        /\ loops' = IF m \in desired[n]
                    THEN [loops EXCEPT ![<<n, m, 1>>] = @ + 1] ELSE loops
        /\ UNCHANGED <<at, attempt, greeted, broken, told, forget, tableVars,
                       lagged, forgotten, calls>>

\* A reconnect_loop wakes up: nothing left to do, or dial(), which tests
\* has_peer once more.
LoopEnds(n, m, i) ==
    /\ loops[<<n, m, i>>] > 0
    /\ m \notin desired[n] \/ HasPeer(n, m)
    /\ loops' = [loops EXCEPT ![<<n, m, i>>] = @ - 1]
    /\ UNCHANGED <<at, attempt, greeted, broken, tableVars, eventVars,
                   forgotten, calls>>

\* Variant: a reconnect_loop does not look at `desired` again.
LoopDialsAlways(k, i) ==
    LET n == From[k]
        m == To[k]
    IN  /\ Call
        /\ loops[<<n, m, i>>] > 0
        /\ Out(k) = "free"
        /\ Move([at EXCEPT ![<<k, "out">>] = "begin"], greeted)
        /\ attempt' = [attempt EXCEPT ![k] = i]
        /\ loops' = [loops EXCEPT ![<<n, m, i>>] = @ - 1]
        /\ UNCHANGED <<tableVars, eventVars, forgotten>>

LoopDials(k, i) ==
    LET n == From[k]
        m == To[k]
    IN  /\ Call
        /\ loops[<<n, m, i>>] > 0
        /\ m \in desired[n]
        /\ Out(k) = "free"
        /\ Move([at EXCEPT ![<<k, "out">>] = "begin"], greeted)
        /\ attempt' = [attempt EXCEPT ![k] = i]
        /\ loops' = [loops EXCEPT ![<<n, m, i>>] = @ - 1]
        /\ UNCHANGED <<tableVars, eventVars, forgotten>>

-----------------------------------------------------------------------------
(* The environment                                                         *)

\* The network cuts a connection.
NetBreaks(k) ==
    /\ Call
    /\ Out(k) = "reading" \/ In(k) \in {"handshake", "reading"}
    /\ k \notin broken
    /\ broken' = broken \union {k}
    /\ UNCHANGED <<at, attempt, greeted, tableVars, eventVars, loops,
                   forgotten>>

\* Traffic makes the transport send another event (MailboxFull,
\* ErrorReceived).
OtherEvent(n) ==
    /\ Call
    /\ Send(n, NoConn)
    /\ UNCHANGED <<at, attempt, greeted, broken, told, forget, tableVars,
                   loops, forgotten>>

\* The node stops (its runtime and sockets go) and starts again with its id.
Restart(n) ==
    LET mine == {x \in End : Local(x) = n}
    IN  /\ Call
        /\ Move([x \in End |-> IF x \in mine /\ at[x] \notin {"free", "none"}
                               THEN "closed" ELSE at[x]],
                {k \in greeted : To[k] # n})
        /\ attempt' = [k \in Conn |-> IF From[k] = n THEN 0 ELSE attempt[k]]
        /\ told' = told \ mine
        /\ forget' = [p \in Pair |-> IF p[1] = n THEN "no" ELSE forget[p]]
        /\ peers' = [p \in Pair |-> IF p[1] = n THEN NoConn ELSE peers[p]]
        /\ desired' = [desired EXCEPT ![n] = {}]
        /\ loops' = [l \in Loop |-> IF l[1] = n THEN 0 ELSE loops[l]]
        /\ events' = [events EXCEPT ![n] = << >>]
        /\ lagged' = lagged \ {n}
        /\ forgotten' = {p \in forgotten : p[1] # n}
-----------------------------------------------------------------------------
DialStep(k) ==
    \/ DialBegin(k) \/ DialWants(k) \/ TcpOpens(k) \/ DialInsert(k)
    \/ DialGreets(k) \/ DialReads(k)

ReadStep(x) == ReadEnds(x) \/ Notified(x) \/ Cleanup(x) \/ CleanupTells(x)

Next ==
    \/ \E k \in Conn :
        \/ Connect(k) \/ DialStep(k) \/ DialFails(k)
        \/ Register(k) \/ InboundDropped(k) \/ NetBreaks(k)
        \/ \E i \in 1..MaxAttempts : LoopDials(k, i)
    \/ \E x \in End : ReadStep(x)
    \/ \E n \in Node : SupervisorReads(n) \/ OtherEvent(n) \/ Restart(n)
    \/ \E n, m \in Node :
        \/ ForgetPeer(n, m) \/ ForgetDrops(n, m) \/ ForgetTells(n, m)
        \/ \E i \in 1..MaxAttempts : LoopEnds(n, m, i)

Spec == Init /\ [][Next]_vars

\* Tokio runs every ready task, peer_timeout ends a silent read, and a TCP
\* connect either fails or succeeds in the end; the application owes nothing.
FairSpec ==
    /\ Spec
    /\ \A k \in Conn : WF_vars(DialStep(k)) /\ WF_vars(Register(k) \/ InboundDropped(k))
    /\ \A x \in End : WF_vars(ReadStep(x))
    /\ \A n \in Node : WF_vars(SupervisorReads(n))
    /\ \A n, m \in Node : WF_vars(ForgetDrops(n, m) \/ ForgetTells(n, m))
-----------------------------------------------------------------------------
(* Properties                                                              *)

\* An end whose read_loop runs or is about to start.
Serving == {"inserted", "greeted", "reading", "closing"}

\* An entry of `peers` always has a read_loop (started or about to start) that
\* will take it out when the connection ends: no way out of read_loop leaves
\* a peer listed as connected for ever.
TableIsServed ==
    \A n, m \in Node : HasPeer(n, m) =>
        \E x \in End : /\ x[1] = peers[<<n, m>>]
                       /\ Table(x) = <<n, m>>
                       /\ at[x] \in Serving

\* An entry leaves the table only through its own read_loop, or through
\* forget_peer or a stop of the node: the cleanup of a superseded connection
\* never evicts the connection that replaced it.
CleanupStep ==
    \A x \in End :
        (peers[Table(x)] = x[1] /\ peers'[Table(x)] = NoConn) =>
            \/ at[x] = "closing"
            \/ forget[Table(x)] = "drop"
            \/ at'[x] \in {"closed", "free", "none"}
OwnCleanupOnly == [][CleanupStep]_vars

\* Somebody will bring a desired peer back: it is connected, or being
\* dialed, or a reconnect_loop sleeps for it, or the PeerDisconnected that
\* starts one is about to be sent or waits for the reconnect_supervisor.
Dialing(n, m) ==
    \E k \in Conn : /\ From[k] = n /\ To[k] = m
                    /\ Out(k) \in {"begin", "checked", "tcp", "made"}
Sleeping(n, m) == \E i \in 1..MaxAttempts : loops[<<n, m, i>>] > 0
Leaving(n, m) ==
    \/ forget[<<n, m>>] = "tell"
    \/ \E x \in End : Table(x) = <<n, m>> /\ at[x] = "removed"
Waiting(n, m) == \E i \in 1..Len(events[n]) : events[n][i] = m
Pursued(n, m) ==
    \/ HasPeer(n, m)
    \/ Dialing(n, m) \/ Sleeping(n, m)
    \/ Leaving(n, m) \/ Waiting(n, m)

\* While its reconnect_supervisor has missed no event, no desired peer of a
\* node is left without anyone to reconnect it.
DesiredIsPursued ==
    \A n \in Node \ lagged : \A m \in desired[n] : Pursued(n, m)

\* A connection that another one has replaced at a node does not stay there
\* for ever: heartbeats stop on it, and its read_loop times out.
SupersededCloses ==
    \A x \in End :
        (at[x] = "reading" /\ peers[Table(x)] # x[1]) ~> (at[x] # "reading")

\* The tiebreak and the cleanups bring the two tables of a pair of nodes
\* together: in the end each uses the connection the other uses, or neither
\* lists the other.
TablesAgree ==
    <>[](\A n, m \in Node : peers[<<n, m>>] = peers[<<m, n>>])

\* n has forgotten m, and no dial of m that n began earlier can still enter m
\* into `desired`.
AtRest(p) ==
    /\ p \in forgotten
    /\ p[2] \notin desired[p[1]]
    /\ \A k \in Conn : <<From[k], To[k]>> = p => Out(k) \notin {"begin", "checked"}

\* forget_peer "stops treating peer as desired - no further auto-reconnect":
\* once the dials under way when it was called are over, no reconnect_loop
\* dials the peer again and nothing but a new connect() makes it desired.
ForgetStep ==
    \A p \in Pair : AtRest(p) /\ p \in forgotten' => AtRest(p)'
ForgetSticks == [][ForgetStep]_vars
=============================================================================
