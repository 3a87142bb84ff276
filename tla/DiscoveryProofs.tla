--------------------------- MODULE DiscoveryProofs ---------------------------
(***************************************************************************)
(* Joining a cluster, for every set of peers and every way they know each  *)
(* other.                                                                  *)
(***************************************************************************)
EXTENDS Discovery, TLAPS

Rec == [at : {"idle", "connecting", "asking", "done", "raised"},
        peer : Id, connected : SUBSET Peer, visited : SUBSET Id,
        frontier : SUBSET Id, next : SUBSET Id]

\* All that a join of j has heard of, when the peers in c have answered it.
Heard(j, c) == {Self} \union Seeds[j] \union UNION {Knows[p] : p \in c}

\* The loop of join_via_seeds loses nothing: what it has heard of was visited
\* or is still listed, in this round or for the next.
Covers(j, r) ==
    /\ Self \in r.visited
    /\ r.visited \union r.frontier \union r.next = Heard(j, r.connected)

JoinInv(j) ==
    /\ join[j].at = "idle" => join[j].connected = {} /\ join[j].next = {}
    /\ join[j].at \in {"connecting", "asking"} =>
          join[j].peer \in Peer /\ Covers(j, join[j])
    /\ join[j].at = "done" => join[j].visited = Heard(j, join[j].connected)

\* A turn of the loop leaves j with record q, future f and waiters w.
Turn(j, q, f, w) ==
    /\ join' = [join EXCEPT ![j] = q]
    /\ fut' = [fut EXCEPT ![j] = f]
    /\ waiters' = w
    /\ w \subseteq waiters \union {j} /\ waiters \ {j} \subseteq w
    /\ j \in w => q.at = "connecting"
    /\ f = "pending" => HasCore /\ j \in w /\ q.peer \notin link
    /\ q.at # "idle"
    /\ q.at \in {"connecting", "asking"} => q.peer \in Peer /\ Covers(j, q)
    /\ q.at = "done" => q.visited = Heard(j, q.connected)

IInv == TypeOK /\ WaitersAreReleased /\ \A j \in Joiner : JoinInv(j)

-----------------------------------------------------------------------------
LEMMA InitIInv == Init => IInv
  <1> SUFFICES ASSUME Init PROVE IInv
    OBVIOUS
  <1>1. TypeOK
    <2>1. join \in [Joiner -> Rec] /\ events \in Seq([kind : {"peer_connected", "peer_disconnected"}, peer : Peer])
      BY DEF Init, Rec, Id
    <2> QED
      BY <2>1, DiscoveryAssumption DEF Init, TypeOK, Rec, Id
  <1>2. WaitersAreReleased
    BY DEF Init, WaitersAreReleased
  <1>3. \A j \in Joiner : JoinInv(j)
    BY DEF Init, JoinInv
  <1> QED
    BY <1>1, <1>2, <1>3 DEF IInv

\* What the loop takes next was heard of and is new.
LEMMA TodoFacts ==
    ASSUME NEW j \in Joiner, NEW r \in Rec, Covers(j, r)
    PROVE  /\ Todo(r) \subseteq Peer
           /\ Todo(r) \intersect r.visited = {}
           /\ Todo(r) = {} => r.visited = Heard(j, r.connected)
  BY DEF Todo, Covers, Rec, Id

\* One more turn of the loop.
LEMMA ContinueKeeps ==
    ASSUME IInv, NEW j \in Joiner, NEW r \in Rec, Covers(j, r), Continue(j, r)
    PROVE  /\ join' \in [Joiner -> Rec]
           /\ fut' \in [Joiner -> {"none", "pending", "set", "failed"}]
           /\ waiters' \subseteq {i \in Joiner : join'[i].at = "connecting"}
           /\ \A i \in Joiner : JoinInv(i)'
           /\ \A i \in Joiner : fut'[i] = "pending" => HasCore /\ i \in waiters'
           /\ fut'[j] = "pending" => join'[j].peer \notin link
           /\ \A i \in Joiner \ {j} : join'[i] = join[i] /\ fut'[i] = fut[i]
  <1>0. /\ join \in [Joiner -> Rec]
        /\ fut \in [Joiner -> {"none", "pending", "set", "failed"}]
        /\ waiters \subseteq {i \in Joiner : join[i].at = "connecting"}
        /\ \A i \in Joiner : JoinInv(i)
        /\ \A i \in Joiner : fut[i] = "pending" => HasCore /\ i \in waiters
    BY DEF IInv, TypeOK, Rec, WaitersAreReleased
  <1>1. /\ Todo(r) \subseteq Peer
        /\ Todo(r) = {} => r.visited = Heard(j, r.connected)
    BY TodoFacts, Zenon
  <1>2. PICK q \in Rec, f \in {"none", "pending"}, w \in SUBSET Joiner : Turn(j, q, f, w)
    <2>1. CASE /\ Todo(r) = {}
               /\ join' = [join EXCEPT ![j] = [r EXCEPT !.at = "done"]]
               /\ fut' = [fut EXCEPT ![j] = "none"]
               /\ waiters' = Unlisted(j)
      <3> DEFINE q == [r EXCEPT !.at = "done"]
      <3>1. /\ q \in Rec /\ q.at = "done" /\ q.visited = r.visited
            /\ q.connected = r.connected
        BY DEF Rec
      <3>2. waiters \ {j} \in SUBSET Joiner
        BY <1>0
      <3> HIDE DEF q
      <3>3. join' = [join EXCEPT ![j] = q] /\ waiters' = waiters \ {j}
        BY <2>1 DEF q, Unlisted
      <3> QED
        BY <1>1, <2>1, <3>1, <3>2, <3>3 DEF Turn
    <2>2. ASSUME NEW p \in Todo(r),
                 LET asked == [r EXCEPT !.peer = p, !.visited = Visited(r, p),
                                        !.frontier = Todo(r),
                                        !.next = IF r.frontier \subseteq r.visited THEN {} ELSE @]
                     wait == HasCore /\ p \notin link
                 IN  /\ join' = [join EXCEPT ![j] =
                           [asked EXCEPT !.at = CASE ~HasCore -> "raised"
                                                  [] wait -> "connecting"
                                                  [] OTHER -> "asking"]]
                     /\ fut' = [fut EXCEPT ![j] = IF wait THEN "pending" ELSE "none"]
                     /\ waiters' = IF wait THEN waiters \union {j} ELSE Unlisted(j)
          PROVE  \E q \in Rec, f \in {"none", "pending"}, w \in SUBSET Joiner : Turn(j, q, f, w)
      <3> DEFINE asked == [r EXCEPT !.peer = p, !.visited = Visited(r, p),
                                    !.frontier = Todo(r),
                                    !.next = IF r.frontier \subseteq r.visited THEN {} ELSE @]
                 wait == HasCore /\ p \notin link
                 s == CASE ~HasCore -> "raised" [] wait -> "connecting" [] OTHER -> "asking"
                 q == [asked EXCEPT !.at = s]
                 f == IF wait THEN "pending" ELSE "none"
                 w == IF wait THEN waiters \union {j} ELSE waiters \ {j}
      <3>1. p \in Peer
        BY <1>1
      <3>2. asked \in Rec
        BY <1>1, <3>1 DEF Rec, Visited, Id
      <3>3. asked.peer = p /\ Covers(j, asked)
        <4>1. /\ asked.visited = r.visited \union {p} /\ asked.frontier = Todo(r)
              /\ asked.connected = r.connected /\ asked.peer = p
              /\ asked.next = IF r.frontier \subseteq r.visited THEN {} ELSE r.next
          BY DEF Rec, Visited
        <4> HIDE DEF asked
        <4> QED
          BY <4>1 DEF Covers, Todo
      <3>4. s \in {"raised", "connecting", "asking"} /\ (wait => s = "connecting")
        OBVIOUS
      <3>5. /\ q \in Rec /\ q.at = s /\ q.peer = p /\ q.visited = asked.visited
            /\ q.frontier = asked.frontier /\ q.next = asked.next
            /\ q.connected = asked.connected
        <4> HIDE DEF asked, s
        <4> QED
          BY <3>2, <3>3, <3>4 DEF Rec
      <3>6. Covers(j, q)
        BY <3>3, <3>5 DEF Covers
      <3>7. /\ f \in {"none", "pending"} /\ w \in SUBSET Joiner
            /\ w \subseteq waiters \union {j} /\ waiters \ {j} \subseteq w
            /\ j \in w => wait
            /\ f = "pending" => HasCore /\ j \in w /\ p \notin link
        BY <1>0
      <3>8. /\ join' = [join EXCEPT ![j] = q]
            /\ fut' = [fut EXCEPT ![j] = f]
            /\ waiters' = w
        BY <2>2 DEF Unlisted
      <3> HIDE DEF q, f, w, s, wait
      <3> QED
        BY <3>1, <3>4, <3>5, <3>6, <3>7, <3>8 DEF Turn
    <2> QED
      BY <2>1, <2>2 DEF Continue
  <1>3. /\ join'[j] = q /\ \A i \in Joiner \ {j} : join'[i] = join[i]
        /\ fut'[j] = f /\ \A i \in Joiner \ {j} : fut'[i] = fut[i]
    BY <1>0, <1>2 DEF Turn
  <1>4. join' \in [Joiner -> Rec] /\ fut' \in [Joiner -> {"none", "pending", "set", "failed"}]
    BY <1>0, <1>2 DEF Turn
  <1>5. waiters' \subseteq {i \in Joiner : join'[i].at = "connecting"}
    BY <1>0, <1>2, <1>3 DEF Turn
  <1>6. ASSUME NEW i \in Joiner PROVE JoinInv(i)'
    BY <1>0, <1>2, <1>3 DEF JoinInv, Turn
  <1>7. ASSUME NEW i \in Joiner, fut'[i] = "pending" PROVE HasCore /\ i \in waiters'
    BY <1>0, <1>2, <1>3, <1>7 DEF Turn
  <1>8. fut'[j] = "pending" => join'[j].peer \notin link
    BY <1>2, <1>3 DEF Turn
  <1> QED
    BY <1>3, <1>4, <1>5, <1>6, <1>7, <1>8

\* A call of join_via_seeds goes on.  It starts to wait only for a peer that is
\* not there.
LEMMA JoinKeeps ==
    ASSUME IInv, NEW j \in Joiner, Start(j) \/ JoinStep(j)
    PROVE  /\ IInv'
           /\ fut'[j] = "pending" => join'[j].peer \notin link
           /\ \A i \in Joiner \ {j} : join'[i] = join[i] /\ fut'[i] = fut[i]
  <1>0. /\ join \in [Joiner -> Rec]
        /\ JoinInv(j)
        /\ WaitersAreReleased
        /\ UNCHANGED <<node, link, events, known, breaks>>
    BY DEF IInv, TypeOK, Rec, Start, JoinStep, Resume, ConnectFails, Answered, AskTimesOut
  <1>1. SUFFICES
           /\ join' \in [Joiner -> Rec]
           /\ fut' \in [Joiner -> {"none", "pending", "set", "failed"}]
           /\ waiters' \subseteq {i \in Joiner : join'[i].at = "connecting"}
           /\ \A i \in Joiner : JoinInv(i)'
           /\ \A i \in Joiner : fut'[i] = "pending" => HasCore /\ i \in waiters'
           /\ fut'[j] = "pending" => join'[j].peer \notin link
           /\ \A i \in Joiner \ {j} : join'[i] = join[i] /\ fut'[i] = fut[i]
    BY <1>0 DEF IInv, TypeOK, Rec, WaitersAreReleased, HasCore
  <1>2. CASE Start(j)
    <2> DEFINE r == [join[j] EXCEPT !.visited = {Self}, !.frontier = Seeds[j]]
    <2>1. r \in Rec
      BY <1>0, DiscoveryAssumption DEF Rec, Id
    <2>2. /\ r.visited = {Self} /\ r.frontier = Seeds[j]
          /\ r.connected = {} /\ r.next = {}
      BY <1>0, <1>2 DEF Start, JoinInv, Rec
    <2>3. Continue(j, r)
      BY <1>2 DEF Start
    <2> HIDE DEF r
    <2>4. Covers(j, r)
      BY <2>2 DEF Covers, Heard
    <2> QED
      BY <2>1, <2>3, <2>4, ContinueKeeps
  <1>3. CASE ConnectFails(j) \/ AskTimesOut(j)
    <2>1. join[j] \in Rec /\ Covers(j, join[j]) /\ Continue(j, join[j])
      BY <1>0, <1>3 DEF ConnectFails, AskTimesOut, JoinInv
    <2> QED
      BY <2>1, ContinueKeeps
  <1>4. CASE Answered(j)
    <2> DEFINE p == join[j].peer
               r == [join[j] EXCEPT !.connected = @ \union {p},
                                    !.next = @ \union (Knows[p] \ join[j].visited)]
    <2>1. p \in Peer /\ Covers(j, join[j]) /\ Continue(j, r)
      BY <1>0, <1>4 DEF Answered, JoinInv
    <2>2. /\ r.visited = join[j].visited /\ r.frontier = join[j].frontier
          /\ r.connected = join[j].connected \union {p}
          /\ r.next = join[j].next \union (Knows[p] \ join[j].visited)
      BY <1>0 DEF Rec
    <2>3. r \in Rec
      BY <1>0, <2>1, DiscoveryAssumption DEF Rec, Id
    <2> HIDE DEF r, p
    <2>4. Heard(j, r.connected) = Heard(j, join[j].connected) \union Knows[p]
      BY <2>2 DEF Heard
    <2>5. Covers(j, r)
      BY <2>1, <2>2, <2>4 DEF Covers
    <2> QED
      BY <2>1, <2>3, <2>5, ContinueKeeps
  <1>5. CASE Resume(j)
    <2>1. PICK s \in {"asking", "raised"} : join' = [join EXCEPT ![j].at = s]
      BY <1>5 DEF Resume
    <2>2. /\ join[j].at = "connecting" /\ fut' = [fut EXCEPT ![j] = "none"]
          /\ waiters' = waiters \ {j}
      BY <1>5 DEF Resume, Unlisted
    <2>3. /\ join' \in [Joiner -> Rec]
          /\ \A i \in Joiner \ {j} : join'[i] = join[i]
          /\ join'[j].at = s /\ join'[j].peer = join[j].peer
          /\ join'[j].visited = join[j].visited /\ join'[j].frontier = join[j].frontier
          /\ join'[j].next = join[j].next /\ join'[j].connected = join[j].connected
      BY <1>0, <2>1 DEF Rec
    <2>4. ASSUME NEW i \in Joiner PROVE JoinInv(i)'
      BY <1>0, <2>2, <2>3 DEF JoinInv, Covers, IInv
    <2> QED
      BY <1>0, <2>2, <2>3, <2>4 DEF IInv, TypeOK, WaitersAreReleased
  <1> QED
    BY <1>2, <1>3, <1>4, <1>5 DEF JoinStep

\* The node and the core leave the locals of every call alone.
LEMMA NodeKeeps ==
    ASSUME IInv,
           \/ NodeStart \/ NodeStop \/ NodeStopped \/ OnCoreEvent
           \/ \E p \in Peer : PeerConnected(p) \/ PeerDisconnected(p)
    PROVE  IInv'
  <1> DEFINE Event == [kind : {"peer_connected", "peer_disconnected"}, peer : Peer]
  <1>0. /\ join' = join /\ events \in Seq(Event)
        /\ \A j \in Joiner : JoinInv(j)
    BY DEF IInv, TypeOK, NodeStart, NodeStop, NodeStopped, OnCoreEvent, PeerConnected,
           PeerDisconnected
  <1>1. \A j \in Joiner : JoinInv(j)'
    BY <1>0 DEF JoinInv, Covers
  <1>2. CASE NodeStart \/ NodeStop
    BY <1>1, <1>2 DEF NodeStart, NodeStop, IInv, TypeOK, WaitersAreReleased, HasCore
  <1>3. CASE NodeStopped
    <2>1. /\ node' = "stopped" /\ link' = {} /\ events' = << >> /\ waiters' = {}
          /\ UNCHANGED <<known, join, breaks>>
          /\ fut' \in [Joiner -> {"none", "pending", "set", "failed"}]
          /\ \A j \in Joiner : fut'[j] # "pending"
      BY <1>3 DEF NodeStopped, Released, IInv, TypeOK, WaitersAreReleased
    <2> QED
      BY <1>1, <2>1 DEF IInv, TypeOK, WaitersAreReleased
  <1>4. CASE OnCoreEvent
    <2>0. events # << >>
      BY <1>4 DEF OnCoreEvent
    <2>1. Head(events) \in Event /\ Tail(events) \in Seq(Event)
      <3> HIDE DEF Event
      <3> QED
        BY <1>0, <2>0
    <2>2. /\ fut' \in [Joiner -> {"none", "pending", "set", "failed"}]
          /\ \A j \in Joiner : fut'[j] = "pending" => fut[j] = "pending"
      BY <1>4 DEF OnCoreEvent, IInv, TypeOK
    <2>3. known' \subseteq Id
      BY <1>4, <2>1 DEF OnCoreEvent, IInv, TypeOK, Id
    <2>4. events' = Tail(events) /\ UNCHANGED <<node, link, join, waiters, breaks>>
      BY <1>4 DEF OnCoreEvent
    <2> QED
      BY <1>1, <2>1, <2>2, <2>3, <2>4 DEF IInv, TypeOK, WaitersAreReleased, HasCore
  <1>5. ASSUME NEW p \in Peer, PeerConnected(p) \/ PeerDisconnected(p) PROVE IInv'
    <2>0. PICK e \in Event : events' = Append(events, e)
      BY <1>5 DEF PeerConnected, PeerDisconnected
    <2>1. events' \in Seq(Event)
      <3> HIDE DEF Event
      <3> QED
        BY <1>0, <2>0
    <2>2. link' \subseteq Peer /\ breaks' \in 0..MaxBreaks
      BY <1>5, DiscoveryAssumption DEF PeerConnected, PeerDisconnected, IInv, TypeOK
    <2>3. UNCHANGED <<node, known, join, fut, waiters>>
      BY <1>5 DEF PeerConnected, PeerDisconnected
    <2> QED
      BY <1>1, <2>1, <2>2, <2>3 DEF IInv, TypeOK, WaitersAreReleased, HasCore
  <1> QED
    BY <1>2, <1>3, <1>4, <1>5

LEMMA AlwaysIInv == Spec => []IInv
  <1>1. IInv /\ [Next]_vars => IInv'
    <2>1. ASSUME IInv, UNCHANGED vars PROVE IInv'
      <3>1. \A j \in Joiner : JoinInv(j)'
        BY <2>1 DEF IInv, vars, JoinInv, Covers
      <3> QED
        BY <2>1, <3>1 DEF IInv, vars, TypeOK, WaitersAreReleased, HasCore
    <2> QED
      BY <2>1, JoinKeeps, NodeKeeps DEF Next
  <1> QED
    BY <1>1, InitIInv, PTL DEF Spec

\* The node, its waiters and every join_via_seeds keep their types; whoever is
\* listed in _peer_waiters is inside connect_peer.
THEOREM DiscoveryTypeCorrect == Spec => []TypeOK
  <1>1. IInv => TypeOK
    BY DEF IInv
  <1> QED
    BY <1>1, AlwaysIInv, PTL

\* stop, timeouts and events release every caller of connect_peer: none is left
\* pending without a core, or unlisted.
THEOREM WaitersTheorem == Spec => []WaitersAreReleased
  <1>1. IInv => WaitersAreReleased
    BY DEF IInv
  <1> QED
    BY <1>1, AlwaysIInv, PTL

\* A join_via_seeds that returns has tried the seeds and all that the peers it
\* returns told it of, whatever graph the cluster is and whatever failed.
THEOREM ClosedTheorem == Spec => []JoinIsClosed
  <1>1. IInv => JoinIsClosed
    BY DEF IInv, JoinInv, JoinIsClosed, Heard
  <1> QED
    BY <1>1, AlwaysIInv, PTL

-----------------------------------------------------------------------------
(* Events                                                                  *)

\* The last event about p that waits says whether the core has it; without one,
\* the discovery actor has heard so already.
Told(p) ==
    /\ \A i \in 1..Len(events) :
          (events[i].peer = p /\ \A k \in 1..Len(events) : k > i => events[k].peer # p) =>
              (events[i].kind = "peer_connected" <=> p \in link)
    /\ (\A i \in 1..Len(events) : events[i].peer # p) => (p \in known <=> p \in link)

\* A caller that awaits a peer the core has by now will be woken.
WakesUp(j) ==
    (fut[j] = "pending" /\ join[j].peer \in link) =>
        \E i \in 1..Len(events) :
            events[i].kind = "peer_connected" /\ events[i].peer = join[j].peer

EventsInv ==
    node # "stopped" =>
        /\ Self \in known
        /\ \A p \in Peer : Told(p)
        /\ \A j \in Joiner : WakesUp(j)

LEMMA TailAt ==
    ASSUME NEW S, NEW s \in Seq(S), s # << >>
    PROVE  \E n \in Nat : /\ Len(s) = n + 1 /\ Len(Tail(s)) = n
                          /\ Head(s) = s[1] /\ s[1] \in S
                          /\ \A i \in 1..n : Tail(s)[i] = s[i + 1]
  <1>1. /\ Len(s) \in Nat \ {0} /\ Len(Tail(s)) = Len(s) - 1 /\ Head(s) = s[1] /\ s[1] \in S
        /\ \A i \in 1..(Len(s) - 1) : Tail(s)[i] = s[i + 1]
    OBVIOUS
  <1>2. \A m \in Nat \ {0} : m - 1 \in Nat /\ m = (m - 1) + 1
    OBVIOUS
  <1> QED
    BY <1>1, <1>2

LEMMA AppendAt ==
    ASSUME NEW S, NEW s \in Seq(S), NEW e \in S
    PROVE  \E n \in Nat : /\ Len(s) = n /\ Len(Append(s, e)) = n + 1
                          /\ Append(s, e)[n + 1] = e
                          /\ \A i \in 1..n : Append(s, e)[i] = s[i]
  <1>1. /\ Len(Append(s, e)) = Len(s) + 1 /\ Append(s, e)[Len(s) + 1] = e
        /\ \A i \in 1..Len(s) : Append(s, e)[i] = s[i]
    OBVIOUS
  <1>2. PICK n \in Nat : n = Len(s)
    OBVIOUS
  <1> QED
    BY <1>1, <1>2

\* Steps of the callers: no event, no connection.
LEMMA JoinEvents ==
    ASSUME IInv, EventsInv, NEW j \in Joiner, Start(j) \/ JoinStep(j)
    PROVE  EventsInv'
  <1>0. UNCHANGED <<node, link, events, known>>
    BY DEF Start, JoinStep, Resume, ConnectFails, Answered, AskTimesOut
  <1>1. /\ fut'[j] = "pending" => join'[j].peer \notin link
        /\ \A i \in Joiner \ {j} : fut'[i] = fut[i] /\ join'[i] = join[i]
    BY JoinKeeps
  <1>2. ASSUME node # "stopped", NEW i \in Joiner PROVE WakesUp(i)'
    BY <1>0, <1>1, <1>2 DEF EventsInv, WakesUp
  <1>3. ASSUME node # "stopped", NEW p \in Peer PROVE Told(p)'
    BY <1>0, <1>3 DEF EventsInv, Told
  <1> QED
    BY <1>0, <1>2, <1>3 DEF EventsInv

\* _on_core_event takes the oldest event.
LEMMA CoreEventApplied ==
    ASSUME IInv, EventsInv, OnCoreEvent
    PROVE  EventsInv'
  <1> DEFINE Event == [kind : {"peer_connected", "peer_disconnected"}, peer : Peer]
  <1>0. /\ events \in Seq(Event) /\ events # << >> /\ events' = Tail(events)
        /\ UNCHANGED <<node, link, join, waiters>>
    BY DEF IInv, TypeOK, OnCoreEvent
  <1>1. PICK n \in Nat, e \in Event :
          /\ Len(events) = n + 1 /\ Len(events') = n /\ e = Head(events) /\ e = events[1]
          /\ \A i \in 1..n : events'[i] = events[i + 1]
    <2> HIDE DEF Event
    <2> QED
      BY <1>0, TailAt
  <1>2. /\ 1 \in 1..(n + 1) /\ \A i \in 1..n : i + 1 \in 1..(n + 1) /\ i + 1 > 1
        /\ \A i \in 1..(n + 1) : i = 1 \/ (i - 1 \in 1..n /\ i = (i - 1) + 1)
        /\ \A i, k \in 1..n : k + 1 > i + 1 => k > i
    OBVIOUS
  <1>3. /\ e.kind = "peer_connected" => known' = known \union {e.peer}
        /\ e.kind = "peer_disconnected" => known' = known \ {e.peer} /\ fut' = fut
        /\ e.kind \in {"peer_connected", "peer_disconnected"} /\ e.peer \in Peer
    BY <1>1 DEF OnCoreEvent
  <1>4. ASSUME NEW j \in Joiner, fut'[j] = "pending"
        PROVE  fut[j] = "pending" /\ (e.kind = "peer_connected" => join[j].peer # e.peer)
    BY <1>1, <1>3, <1>4 DEF OnCoreEvent, Woken, IInv, WaitersAreReleased
  <1>5. ASSUME node # "stopped", NEW p \in Peer PROVE Told(p)'
    <2>1. ASSUME NEW i \in 1..n, events'[i].peer = p,
                 \A k \in 1..n : k > i => events'[k].peer # p
          PROVE  events'[i].kind = "peer_connected" <=> p \in link'
      <3>1. events[i + 1].peer = p /\ events[i + 1] = events'[i] /\ i + 1 \in 1..(n + 1)
        BY <1>1, <1>2, <2>1
      <3>2. ASSUME NEW k \in 1..(n + 1), k > i + 1 PROVE events[k].peer # p
        <4>1. k - 1 \in 1..n /\ k = (k - 1) + 1 /\ k - 1 > i
          BY <3>2
        <4>2. events'[k - 1] = events[k]
          BY <1>1, <4>1
        <4> QED
          BY <2>1, <4>1, <4>2
      <3>3. events[i + 1].kind = "peer_connected" <=> p \in link
        BY <1>1, <1>5, <3>1, <3>2 DEF EventsInv, Told
      <3> QED
        BY <1>0, <3>1, <3>3
    <2>2. ASSUME \A i \in 1..n : events'[i].peer # p
          PROVE  p \in known' <=> p \in link'
      <3>1. \A i \in 1..(n + 1) : i = 1 \/ events[i].peer # p
        BY <1>1, <1>2, <2>2
      <3>2. CASE e.peer = p
        <4>1. \A k \in 1..(n + 1) : k > 1 => events[k].peer # p
          BY <3>1
        <4>2. e.kind = "peer_connected" <=> p \in link
          BY <1>1, <1>2, <1>5, <3>2, <4>1 DEF EventsInv, Told
        <4> QED
          BY <1>0, <1>3, <3>2, <4>2
      <3>3. CASE e.peer # p
        <4>1. \A i \in 1..(n + 1) : events[i].peer # p
          BY <1>1, <3>1, <3>3
        <4>2. p \in known <=> p \in link
          BY <1>1, <1>5, <4>1 DEF EventsInv, Told
        <4> QED
          BY <1>0, <1>3, <3>3, <4>2
      <3> QED
        BY <3>2, <3>3
    <2> QED
      BY <1>1, <2>1, <2>2 DEF Told
  <1>6. ASSUME node # "stopped", NEW j \in Joiner PROVE WakesUp(j)'
    <2> SUFFICES ASSUME fut'[j] = "pending", join[j].peer \in link
                 PROVE  \E i \in 1..n : /\ events'[i].kind = "peer_connected"
                                        /\ events'[i].peer = join[j].peer
      BY <1>0, <1>1 DEF WakesUp
    <2>1. PICK i \in 1..(n + 1) :
             events[i].kind = "peer_connected" /\ events[i].peer = join[j].peer
      BY <1>1, <1>4, <1>6 DEF EventsInv, WakesUp
    <2>2. i # 1
      BY <1>1, <1>4, <2>1
    <2>3. i - 1 \in 1..n /\ events'[i - 1] = events[i]
      BY <1>1, <1>2, <2>2
    <2> QED
      BY <2>1, <2>3
  <1>7. node # "stopped" => Self \in known'
    BY <1>3, DiscoveryAssumption DEF EventsInv
  <1> QED
    BY <1>0, <1>5, <1>6, <1>7 DEF EventsInv

\* The core connects or loses a peer and appends the event of it.
LEMMA CoreTells ==
    ASSUME IInv, EventsInv, NEW q \in Peer, PeerConnected(q) \/ PeerDisconnected(q)
    PROVE  EventsInv'
  <1> DEFINE Event == [kind : {"peer_connected", "peer_disconnected"}, peer : Peer]
  <1>1. PICK e \in Event :
          /\ e.peer = q /\ events' = Append(events, e)
          /\ e.kind = "peer_connected" <=> q \in link'
          /\ \A p \in Peer \ {q} : p \in link' <=> p \in link
          /\ q \in link' => e.kind = "peer_connected"
    BY DEF PeerConnected, PeerDisconnected
  <1>2. PICK n \in Nat : /\ Len(events) = n /\ Len(events') = n + 1 /\ events'[n + 1] = e
                         /\ \A i \in 1..n : events'[i] = events[i]
    <2>1. events \in Seq(Event)
      BY DEF IInv, TypeOK
    <2> HIDE DEF Event
    <2> QED
      BY <1>1, <2>1, AppendAt
  <1>3. /\ n + 1 \in 1..(n + 1) /\ \A i \in 1..n : i \in 1..(n + 1) /\ n + 1 > i
        /\ \A i \in 1..(n + 1) : i \in 1..n \/ i = n + 1
        /\ \A i \in 1..(n + 1) : ~(i > n + 1)
    OBVIOUS
  <1>4. UNCHANGED <<node, known, join, fut>>
    BY DEF PeerConnected, PeerDisconnected
  <1>5. ASSUME node # "stopped", NEW p \in Peer PROVE Told(p)'
    <2>1. CASE p = q
      BY <1>1, <1>2, <1>3, <2>1 DEF Told
    <2>2. CASE p # q
      <3>0. Told(p) /\ (p \in link' <=> p \in link) /\ e.peer # p
        BY <1>1, <1>5, <2>2 DEF EventsInv
      <3>1. ASSUME NEW i \in 1..(n + 1), events'[i].peer = p,
                   \A k \in 1..(n + 1) : k > i => events'[k].peer # p
            PROVE  events'[i].kind = "peer_connected" <=> p \in link'
        <4>1. i \in 1..n /\ events[i] = events'[i]
          BY <1>2, <1>3, <3>0, <3>1
        <4>2. \A k \in 1..n : k > i => events[k].peer # p
          BY <1>2, <1>3, <3>1
        <4> QED
          BY <1>2, <3>0, <3>1, <4>1, <4>2 DEF Told
      <3>2. ASSUME \A i \in 1..(n + 1) : events'[i].peer # p
            PROVE  p \in known' <=> p \in link'
        BY <1>2, <1>3, <1>4, <3>0, <3>2 DEF Told
      <3> QED
        BY <1>2, <3>1, <3>2 DEF Told
    <2> QED
      BY <2>1, <2>2
  <1>6. ASSUME node # "stopped", NEW j \in Joiner PROVE WakesUp(j)'
    <2> SUFFICES ASSUME fut[j] = "pending", join[j].peer \in link'
                 PROVE  \E i \in 1..(n + 1) : /\ events'[i].kind = "peer_connected"
                                              /\ events'[i].peer = join[j].peer
      BY <1>2, <1>4 DEF WakesUp
    <2>1. CASE join[j].peer = q
      BY <1>1, <1>2, <1>3, <2>1
    <2>2. CASE join[j].peer # q
      <3>1. join[j].peer \in link
        BY <2>2 DEF PeerConnected, PeerDisconnected
      <3> QED
        BY <1>2, <1>3, <1>6, <3>1 DEF EventsInv, WakesUp
    <2> QED
      BY <2>1, <2>2
  <1> QED
    BY <1>4, <1>5, <1>6 DEF EventsInv

\* EventsAreApplied: whatever the order of connections, breaks and callers, once
\* _on_core_event has taken every event the discovery actor knows exactly the
\* connected peers, and nobody waits in connect_peer for one of them.
THEOREM EventsTheorem == Spec => []EventsAreApplied
  <1>1. Init => EventsInv
    <2> SUFFICES ASSUME Init PROVE EventsInv
      OBVIOUS
    <2>1. /\ link = {} /\ known = {Self} /\ events = << >>
          /\ \A j \in Joiner : fut[j] = "none"
      BY DEF Init
    <2>2. \A p \in Peer : Told(p)
      BY <2>1, DiscoveryAssumption DEF Told
    <2> QED
      BY <2>1, <2>2 DEF EventsInv, WakesUp
  <1>2. IInv /\ EventsInv /\ [Next]_vars => EventsInv'
    <2>1. ASSUME EventsInv, UNCHANGED <<link, events, known, join, fut>>,
                 node' # "stopped" => node # "stopped"
          PROVE  EventsInv'
      BY <2>1 DEF EventsInv, Told, WakesUp
    <2>2. ASSUME EventsInv, NodeStart \/ NodeStop \/ UNCHANGED vars PROVE EventsInv'
      BY <2>1, <2>2 DEF NodeStart, NodeStop, vars
    <2>3. ASSUME NodeStopped PROVE EventsInv'
      BY <2>3 DEF NodeStopped, EventsInv
    <2> QED
      BY <2>2, <2>3, JoinEvents, CoreEventApplied, CoreTells DEF Next
  <1>3. IInv /\ EventsInv => EventsAreApplied
    <2> SUFFICES ASSUME IInv, EventsInv, HasCore, events = << >>
                 PROVE  /\ known = link \union {Self}
                        /\ \A j \in Joiner : fut[j] = "pending" => join[j].peer \notin link
      BY DEF EventsAreApplied
    <2>1. node # "stopped" /\ link \subseteq Peer /\ known \subseteq Peer \union {Self}
      BY DEF HasCore, IInv, TypeOK, Id
    <2>2. \A i \in 1..Len(events) : FALSE
      OBVIOUS
    <2>3. \A p \in Peer : p \in known <=> p \in link
      BY <2>1, <2>2 DEF EventsInv, Told
    <2>4. \A j \in Joiner : fut[j] = "pending" => join[j].peer \notin link
      BY <2>1, <2>2 DEF EventsInv, WakesUp
    <2>5. Self \in known
      BY <2>1 DEF EventsInv
    <2> QED
      BY <2>1, <2>3, <2>4, <2>5
  <1> QED
    BY <1>1, <1>2, <1>3, AlwaysIInv, PTL DEF Spec

-----------------------------------------------------------------------------
(* The loop of join_via_seeds comes to an end                              *)

\* What a step may do to a join that runs: leave it, end it, go from the
\* connection to the ask of the same peer, or turn to a peer it never tried.
Onward(j) ==
    \/ join'[j] = join[j]
    \/ join'[j].at \in {"done", "raised"}
    \/ /\ join[j].at = "connecting" /\ join'[j].at = "asking"
       /\ join'[j].visited = join[j].visited
    \/ \E p \in Id : p \notin join[j].visited /\ join'[j].visited = join[j].visited \union {p}

\* A join that has begun only goes onward, and one that has ended stays so.
JoinGoesOnward ==
    [][\A j \in Joiner :
        /\ join[j].at \in {"connecting", "asking"} => Onward(j)
        /\ join[j].at \in {"done", "raised"} => join'[j] = join[j]]_vars

LEMMA ContinueOnward ==
    ASSUME NEW j \in Joiner, join \in [Joiner -> Rec], NEW r \in Rec,
           r.visited = join[j].visited, Continue(j, r)
    PROVE  Onward(j) /\ \A i \in Joiner \ {j} : join'[i] = join[i]
  <1>1. PICK q : /\ join' = [join EXCEPT ![j] = q]
                 /\ \/ q.at = "done"
                    \/ \E p \in Todo(r) : q.visited = r.visited \union {p}
    <2>1. CASE join' = [join EXCEPT ![j] = [r EXCEPT !.at = "done"]]
      <3>1. [r EXCEPT !.at = "done"].at = "done"
        BY DEF Rec
      <3> QED BY <2>1, <3>1
    <2>2. ASSUME NEW p \in Todo(r),
                 join' = [join EXCEPT ![j] =
                     [[r EXCEPT !.peer = p, !.visited = Visited(r, p), !.frontier = Todo(r),
                                !.next = IF r.frontier \subseteq r.visited THEN {} ELSE @]
                         EXCEPT !.at = CASE ~HasCore -> "raised"
                                         [] HasCore /\ p \notin link -> "connecting"
                                         [] OTHER -> "asking"]]
          PROVE  \E q : /\ join' = [join EXCEPT ![j] = q]
                        /\ \/ q.at = "done"
                           \/ \E x \in Todo(r) : q.visited = r.visited \union {x}
      <3> DEFINE asked == [r EXCEPT !.peer = p, !.visited = Visited(r, p), !.frontier = Todo(r),
                                    !.next = IF r.frontier \subseteq r.visited THEN {} ELSE @]
                 s == CASE ~HasCore -> "raised"
                        [] HasCore /\ p \notin link -> "connecting"
                        [] OTHER -> "asking"
                 q == [asked EXCEPT !.at = s]
      <3>1. asked.visited = r.visited \union {p}
        BY DEF Rec, Visited
      <3>2. q.visited = asked.visited
        OBVIOUS
      <3>3. join' = [join EXCEPT ![j] = q]
        BY <2>2
      <3> HIDE DEF asked, q
      <3> QED BY <3>1, <3>2, <3>3
    <2> QED BY <2>1, <2>2 DEF Continue
  <1>2. join'[j] = q /\ \A i \in Joiner \ {j} : join'[i] = join[i]
    BY <1>1
  <1>3. \A p \in Todo(r) : p \in Id /\ p \notin r.visited
    BY DEF Todo, Rec
  <1> QED BY <1>1, <1>2, <1>3, Zenon DEF Onward

\* "until a full pass finds nothing new": every step of a running join ends it,
\* asks the peer it has just connected to, or tries a peer it has not tried,
\* though peers know each other in circles, fail and come back.  With the type
\* of `visited` that is the variant of the loop: at most two steps for each
\* node there is.
THEOREM OnwardTheorem == Spec => JoinGoesOnward
  <1>1. IInv /\ [Next]_vars => [\A j \in Joiner :
            /\ join[j].at \in {"connecting", "asking"} => Onward(j)
            /\ join[j].at \in {"done", "raised"} => join'[j] = join[j]]_vars
    <2> SUFFICES ASSUME IInv, Next, NEW j \in Joiner
                 PROVE  /\ join[j].at \in {"connecting", "asking"} => Onward(j)
                        /\ join[j].at \in {"done", "raised"} => join'[j] = join[j]
      OBVIOUS
    <2>0. join \in [Joiner -> Rec]
      BY DEF IInv, TypeOK, Rec
    <2>1. CASE join' = join
      BY <2>1 DEF Onward
    <2>2. ASSUME NEW i \in Joiner, Start(i) \/ JoinStep(i), i # j PROVE join'[j] = join[j]
      BY <2>2, JoinKeeps
    <2>3. CASE Start(j)
      BY <2>3 DEF Start
    <2>4. CASE ConnectFails(j) \/ AskTimesOut(j)
      <3>1. join[j] \in Rec /\ Continue(j, join[j]) /\ join[j].at \in {"connecting", "asking"}
        BY <2>0, <2>4 DEF ConnectFails, AskTimesOut
      <3> QED BY <2>0, <3>1, ContinueOnward
    <2>5. CASE Answered(j)
      <3> DEFINE p == join[j].peer
                 r == [join[j] EXCEPT !.connected = @ \union {p},
                                      !.next = @ \union (Knows[p] \ join[j].visited)]
      <3>1. p \in Peer /\ Continue(j, r) /\ join[j].at = "asking"
        BY <2>5 DEF Answered, IInv, JoinInv
      <3>2. r.visited = join[j].visited
        BY <2>0 DEF Rec
      <3>3. r \in Rec
        BY <2>0, <3>1, DiscoveryAssumption DEF Rec, Id
      <3> HIDE DEF r, p
      <3> QED BY <2>0, <3>1, <3>2, <3>3, ContinueOnward
    <2>6. CASE Resume(j)
      <3>1. PICK s \in {"asking", "raised"} : join' = [join EXCEPT ![j].at = s]
        BY <2>6 DEF Resume
      <3>2. join'[j].at = s /\ join'[j].visited = join[j].visited
        BY <2>0, <3>1 DEF Rec
      <3> QED BY <2>6, <3>1, <3>2 DEF Onward, Resume
    <2>7. CASE \/ NodeStart \/ NodeStop \/ NodeStopped \/ OnCoreEvent
               \/ \E p \in Peer : PeerConnected(p) \/ PeerDisconnected(p)
      <3>1. join' = join
        BY <2>7 DEF NodeStart, NodeStop, NodeStopped, OnCoreEvent, PeerConnected, PeerDisconnected
      <3> QED BY <2>1, <3>1
    <2>8. ASSUME NEW i \in Joiner, Start(i) \/ JoinStep(i), i # j
          PROVE  /\ join[j].at \in {"connecting", "asking"} => Onward(j)
                 /\ join[j].at \in {"done", "raised"} => join'[j] = join[j]
      BY <2>2, <2>8 DEF Onward
    <2> QED BY <2>3, <2>4, <2>5, <2>6, <2>7, <2>8 DEF Next, JoinStep
  <1> QED BY <1>1, AlwaysIInv, PTL DEF Spec, JoinGoesOnward
=============================================================================
