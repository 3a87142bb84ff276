--------------------------- MODULE TransportProofs ---------------------------
(* Proofs about Transport, for any nodes, connections and bounds.          *)
EXTENDS Transport, TLAPS

\* Most leaves are first-order: only those that say so go to the SMT solver.
USE Zenon

\* States of an end with work left: Move never resets them.
Idle == {"free", "none", "closed"}
Early == {"free", "begin", "checked", "tcp"}

\* A connection that is not open yet has no other end.
Fresh == \A k \in Conn : Out(k) \in Early => In(k) = "none"

\* The facts about f that Move turns into facts about at'.
Shape(f) ==
    /\ f \in [End -> State]
    /\ \A k \in Conn : f[<<k, "out">>] \in Early => f[<<k, "in">>] = "none"

-----------------------------------------------------------------------------
(* The ends of a connection                                                *)

\* The two ends of a connection, and where each is listed.
LEMMA EndFacts ==
    ASSUME NEW x \in End
    PROVE  /\ x[1] \in Conn
           /\ x = <<x[1], "out">> \/ x = <<x[1], "in">>
           /\ x[2] = "out" \/ x[2] = "in"
           /\ Other(x) \in End
           /\ Local(x) \in Node /\ Remote(x) \in Node
           /\ Table(x) \in Pair
           /\ Table(x) = <<Local(x), Remote(x)>>
  BY TransportAssumption, SMT DEF End, Side, Other, Local, Remote, Table, Pair

\* An end is known by its connection and its place in a table.
LEMMA EndUnique ==
    ASSUME NEW x \in End, NEW y \in End, x[1] = y[1], Table(x) = Table(y)
    PROVE  x = y
  BY TransportAssumption, SMT DEF End, Side, Local, Remote, Table

\* The ends of connection k, and their tables.
LEMMA EndsOf ==
    ASSUME NEW k \in Conn
    PROVE  /\ <<k, "out">> \in End /\ <<k, "in">> \in End
           /\ <<k, "out">> # <<k, "in">>
           /\ From[k] \in Node /\ To[k] \in Node
           /\ <<From[k], To[k]>> \in Pair /\ <<To[k], From[k]>> \in Pair
           /\ Table(<<k, "out">>) = <<From[k], To[k]>>
           /\ Table(<<k, "in">>) = <<To[k], From[k]>>
  BY TransportAssumption DEF End, Side, Local, Remote, Table, Pair

\* Closing connections that are done with loses nothing else.
LEMMA MoveFacts ==
    ASSUME NEW STATE f, NEW STATE g, Move(f, g), Shape(f),
           g \subseteq Conn, broken \subseteq Conn
    PROVE  /\ at' \in [End -> State]
           /\ greeted' \subseteq Conn /\ broken' \subseteq Conn
           /\ \A x \in End : f[x] \notin Idle => at'[x] = f[x]
           /\ \A x \in End : at'[x] \in Idle \/ at'[x] = f[x]
           /\ Fresh'
<1>1. at' \in [End -> State]
  BY DEF Move, Shape, State
<1>2. greeted' \subseteq Conn /\ broken' \subseteq Conn
  BY DEF Move
<1>3. ASSUME NEW x \in End, f[x] \notin Idle PROVE at'[x] = f[x]
  BY <1>3, EndFacts DEF Move, Dead, Idle
<1>4. ASSUME NEW x \in End PROVE at'[x] \in Idle \/ at'[x] = f[x]
  BY <1>4 DEF Move, Idle
<1>5. ASSUME NEW k \in Conn, at'[<<k, "out">>] \in Early
      PROVE  at'[<<k, "in">>] = "none"
  <2>1. CASE k \in Dead(f)
    BY <2>1, EndsOf DEF Move
  <2>2. CASE k \notin Dead(f)
    BY <1>5, <2>2, EndsOf DEF Move, Shape
  <2> QED BY <2>1, <2>2
<1> QED BY <1>1, <1>2, <1>3, <1>4, <1>5 DEF Fresh, Out, In
-----------------------------------------------------------------------------
(* Type correctness                                                        *)

TypeInv == TypeOK /\ Fresh

\* The next values of the ends that the actions hand to Move.
LEMMA OneEnd ==
    ASSUME TypeInv, NEW x \in End, NEW s \in State,
           x[2] = "in" => at[Other(x)] \notin Early,
           (x[2] = "out" /\ s \in Early) => at[x] \in Early
    PROVE  Shape([at EXCEPT ![x] = s])
<1>1. [at EXCEPT ![x] = s] \in [End -> State]
  BY DEF TypeInv, TypeOK
<1>2. ASSUME NEW k \in Conn, [at EXCEPT ![x] = s][<<k, "out">>] \in Early
      PROVE  [at EXCEPT ![x] = s][<<k, "in">>] = "none"
  <2>1. CASE x = <<k, "out">>
    <3>1. at[x] \in Early
      BY <1>2, <2>1, EndsOf DEF TypeInv, TypeOK
    <3> QED BY <3>1, <2>1, EndsOf DEF TypeInv, TypeOK, Fresh, Out, In
  <2>2. CASE x = <<k, "in">>
    <3>1. at[<<k, "out">>] \in Early
      BY <1>2, <2>2, EndsOf DEF TypeInv, TypeOK
    <3>2. Other(x) = <<k, "out">> /\ x[2] = "in"
      BY <2>2 DEF Other
    <3> QED BY <3>1, <3>2
  <2>3. CASE x # <<k, "out">> /\ x # <<k, "in">>
    BY <1>2, <2>3, EndsOf DEF TypeInv, TypeOK, Fresh, Out, In
  <2> QED BY <2>1, <2>2, <2>3
<1> QED BY <1>1, <1>2 DEF Shape

\* Sending an event keeps the queue of reconnect_supervisor well formed.
LEMMA SendType ==
    ASSUME TypeOK, NEW n \in Node, NEW e \in Node \union {NoConn}, Send(n, e)
    PROVE  /\ events' \in [Node -> Seq(Node \union {NoConn})]
           /\ \A i \in Node : Len(events'[i]) <= EventBuffer
           /\ lagged' \subseteq Node
           /\ lagged \subseteq lagged'
<1>1. CASE n \in lagged \/ Len(events[n]) = EventBuffer
  <2>1. events' = [events EXCEPT ![n] = << >>] /\ lagged' = lagged \union {n}
    BY <1>1 DEF Send
  <2> QED BY <2>1, TransportAssumption, SMT DEF TypeOK
<1>2. CASE ~(n \in lagged \/ Len(events[n]) = EventBuffer)
  <2>1. events' = [events EXCEPT ![n] = Append(@, e)] /\ lagged' = lagged
    BY <1>2 DEF Send
  <2>2. Append(events[n], e) \in Seq(Node \union {NoConn})
        /\ Len(Append(events[n], e)) = Len(events[n]) + 1
    BY SMT DEF TypeOK
  <2>3. Len(events[n]) \in Nat /\ Len(events[n]) < EventBuffer
    BY <1>2, TransportAssumption, SMT DEF TypeOK
  <2> QED BY <2>1, <2>2, <2>3, TransportAssumption, SMT DEF TypeOK
<1> QED BY <1>1, <1>2
\* What a step that moves one end x to state s does to the ends.
Moved(x, s) ==
    /\ at' \in [End -> State]
    /\ greeted' \subseteq Conn
    /\ broken' \subseteq Conn
    /\ Fresh'
    /\ s \notin Idle => at'[x] = s
    /\ \A y \in End : (y # x /\ at[y] \notin Idle) => at'[y] = at[y]
    /\ \A y \in End : at'[y] \in Idle \/ (y = x /\ at'[y] = s) \/ at'[y] = at[y]

\* Move of one end, in a state where that is a step of the protocol.
LEMMA MoveOne ==
    ASSUME TypeInv, NEW x \in End, NEW s \in State,
           x[2] = "in" => at[Other(x)] \notin Early,
           (x[2] = "out" /\ s \in Early) => at[x] \in Early,
           NEW STATE g, g \subseteq Conn,
           Move([at EXCEPT ![x] = s], g)
    PROVE  Moved(x, s)
<1> DEFINE f == [at EXCEPT ![x] = s]
<1>1. Shape(f)
  BY OneEnd
<1>2. f[x] = s /\ \A y \in End : y # x => f[y] = at[y]
  BY DEF TypeInv, TypeOK
<1>3. Move(f, g) /\ broken \subseteq Conn
  BY DEF TypeInv, TypeOK
<1> HIDE DEF f
<1>4. /\ at' \in [End -> State]
      /\ greeted' \subseteq Conn /\ broken' \subseteq Conn
      /\ \A y \in End : f[y] \notin Idle => at'[y] = f[y]
      /\ \A y \in End : at'[y] \in Idle \/ at'[y] = f[y]
      /\ Fresh'
  BY <1>1, <1>3, MoveFacts
<1> QED BY <1>2, <1>4 DEF Moved

\* The same for an outbound end.
LEMMA MoveOut ==
    ASSUME TypeInv, NEW k \in Conn, NEW s \in State,
           s \in Early => Out(k) \in Early,
           NEW STATE g, g \subseteq Conn,
           Move([at EXCEPT ![<<k, "out">>] = s], g)
    PROVE  Moved(<<k, "out">>, s)
  BY MoveOne, EndsOf DEF Out

\* The same for an inbound end: it is in use, so the dial has gone through.
LEMMA MoveIn ==
    ASSUME TypeInv, NEW k \in Conn, NEW s \in State, In(k) # "none",
           NEW STATE g, g \subseteq Conn,
           Move([at EXCEPT ![<<k, "in">>] = s], g)
    PROVE  Moved(<<k, "in">>, s)
<1>1. <<k, "in">> \in End /\ Other(<<k, "in">>) = <<k, "out">>
  BY EndsOf DEF Other
<1>2. at[<<k, "out">>] \notin Early
  BY DEF TypeInv, Fresh, Out, In
<1> QED BY <1>1, <1>2, MoveOne

\* The same for an end of either kind in a state of its read_loop.
LEMMA MoveReader ==
    ASSUME TypeInv, NEW x \in End, NEW s \in State \ Early,
           at[x] \in {"reading", "closing", "removed"},
           NEW STATE g, g \subseteq Conn,
           Move([at EXCEPT ![x] = s], g)
    PROVE  Moved(x, s)
<1>1. CASE x[2] = "out"
  BY <1>1, MoveOne
<1>2. CASE x[2] = "in"
  <2>1. x = <<x[1], "in">> /\ x[1] \in Conn /\ Other(x) = <<x[1], "out">>
    BY <1>2, EndFacts DEF Other
  <2>2. at[Other(x)] \notin Early
    BY <2>1 DEF TypeInv, Fresh, Out, In
  <2> QED BY <1>2, <2>2, MoveOne
<1> QED BY <1>1, <1>2, EndFacts

\* A stream opens: the outbound end goes on, the inbound one starts.
LEMMA MoveOpen ==
    ASSUME TypeInv, NEW k \in Conn, TcpOpens(k)
    PROVE  /\ at' \in [End -> State] /\ greeted' \subseteq Conn
           /\ broken' \subseteq Conn /\ Fresh'
           /\ at'[<<k, "out">>] = "made"
           /\ \A y \in End : (y[1] # k /\ at[y] \notin Idle) => at'[y] = at[y]
           /\ at[<<k, "in">>] = "none"
<1> DEFINE f == [at EXCEPT ![<<k, "out">>] = "made", ![<<k, "in">>] = "handshake"]
<1>1. f \in [End -> State]
  BY DEF TypeInv, TypeOK, State
<1>2. /\ f[<<k, "out">>] = "made"
      /\ \A y \in End : y[1] # k => f[y] = at[y]
  <2>1. at \in [End -> State] /\ <<k, "out">> \in End /\ <<k, "out">> # <<k, "in">>
    BY EndsOf DEF TypeInv, TypeOK, State
  <2>2. \A y \in End : y[1] # k => y # <<k, "out">> /\ y # <<k, "in">>
    BY SMT
  <2> QED BY <2>1, <2>2
<1>3. Shape(f)
  <2>1. ASSUME NEW j \in Conn, f[<<j, "out">>] \in Early
        PROVE  f[<<j, "in">>] = "none"
    <3>1. j # k
      BY <2>1, <1>2 DEF Early
    <3> HIDE DEF f
    <3>2. f[<<j, "out">>] = at[<<j, "out">>] /\ f[<<j, "in">>] = at[<<j, "in">>]
      BY <3>1, <1>2, EndsOf
    <3> QED BY <3>2, <2>1 DEF TypeInv, Fresh, Out, In
  <2> QED BY <1>1, <2>1 DEF Shape
<1>4. Move(f, greeted) /\ broken \subseteq Conn /\ greeted \subseteq Conn
  BY DEF TcpOpens, TypeInv, TypeOK
<1> HIDE DEF f
<1>5. /\ at' \in [End -> State]
      /\ greeted' \subseteq Conn /\ broken' \subseteq Conn
      /\ \A y \in End : f[y] \notin Idle => at'[y] = f[y]
      /\ Fresh'
  BY <1>3, <1>4, MoveFacts
<1>6. at[<<k, "in">>] = "none"
  BY DEF TcpOpens, TypeInv, Fresh, Out, In, Early
<1> QED BY <1>2, <1>5, <1>6, EndsOf DEF Idle

\* A node stops: all its ends close, the ends of the others stay as they are.
LEMMA MoveRestart ==
    ASSUME TypeInv, NEW n \in Node, Restart(n)
    PROVE  /\ at' \in [End -> State] /\ greeted' \subseteq Conn
           /\ broken' \subseteq Conn /\ Fresh'
           /\ \A y \in End : (Local(y) # n /\ at[y] \notin Idle) => at'[y] = at[y]
<1> DEFINE f == [x \in End |-> IF x \in {y \in End : Local(y) = n}
                                  /\ at[x] \notin {"free", "none"}
                               THEN "closed" ELSE at[x]]
           g == {k \in greeted : To[k] # n}
<1>1. f \in [End -> State]
  BY DEF TypeInv, TypeOK, State
<1>2. Shape(f)
  <2>1. ASSUME NEW j \in Conn, f[<<j, "out">>] \in Early
        PROVE  f[<<j, "in">>] = "none"
    <3>1. f[<<j, "out">>] = at[<<j, "out">>]
      BY <2>1, EndsOf DEF Early
    <3>2. at[<<j, "in">>] = "none"
      BY <3>1, <2>1 DEF TypeInv, Fresh, Out, In
    <3> QED BY <3>2, EndsOf
  <2> QED BY <1>1, <2>1 DEF Shape
<1>3. \A y \in End : Local(y) # n => f[y] = at[y]
  OBVIOUS
<1>4. Move(f, g) /\ broken \subseteq Conn /\ g \subseteq Conn
  BY DEF Restart, TypeInv, TypeOK
<1> HIDE DEF f, g
<1>5. /\ at' \in [End -> State]
      /\ greeted' \subseteq Conn /\ broken' \subseteq Conn
      /\ \A y \in End : f[y] \notin Idle => at'[y] = f[y]
      /\ Fresh'
  BY <1>2, <1>4, MoveFacts
<1> QED BY <1>3, <1>5
\* The initial tables and ends are well typed.
LEMMA InitTypeInv == Init => TypeInv
<1> SUFFICES ASSUME Init PROVE TypeInv
  OBVIOUS
<1>1. at \in [End -> State] /\ Fresh
  BY EndsOf DEF Init, State, Fresh, Out, In
<1>2. events \in [Node -> Seq(Node \union {NoConn})]
  <2>1. PICK e : e = << >>
    OBVIOUS
  <2>2. e \in Seq(Node \union {NoConn})
    BY <2>1, SMT
  <2>3. events = [n \in Node |-> e]
    BY <2>1 DEF Init
  <2> QED BY <2>2, <2>3
<1>3. \A n \in Node : Len(events[n]) <= EventBuffer
  BY TransportAssumption, SMT DEF Init
<1>4. attempt \in [Conn -> 0..MaxAttempts] /\ loops \in [Loop -> Nat]
      /\ calls \in 0..MaxCalls
  BY TransportAssumption, SMT DEF Init
<1>5. /\ greeted \subseteq Conn /\ broken \subseteq Conn /\ told \subseteq End
      /\ lagged \subseteq Node
  BY DEF Init
<1>6. /\ forget \in [Pair -> {"no", "drop", "tell"}]
      /\ peers \in [Pair -> Conn \union {NoConn}]
      /\ desired \in [Node -> SUBSET Node]
      /\ forgotten \subseteq Pair
  BY DEF Init
<1> QED BY <1>1, <1>2, <1>3, <1>4, <1>5, <1>6 DEF TypeInv, TypeOK

\* The part of TypeOK that an action with a Move leaves to the other variables.
RestOK ==
    /\ attempt \in [Conn -> 0..MaxAttempts]
    /\ told \subseteq End
    /\ forget \in [Pair -> {"no", "drop", "tell"}]
    /\ peers \in [Pair -> Conn \union {NoConn}]
    /\ desired \in [Node -> SUBSET Node]
    /\ loops \in [Loop -> Nat]
    /\ events \in [Node -> Seq(Node \union {NoConn})]
    /\ \A n \in Node : Len(events[n]) <= EventBuffer
    /\ lagged \subseteq Node
    /\ forgotten \subseteq Pair
    /\ calls \in 0..MaxCalls

\* The calls counter stays within its bound.
LEMMA CallType ==
    ASSUME TypeOK, Call PROVE calls' \in 0..MaxCalls
  BY TransportAssumption, SMT DEF TypeOK, Call

\* Together with what Move does, RestOK' is all of TypeInv'.
LEMMA TypeParts ==
    ASSUME at' \in [End -> State], greeted' \subseteq Conn,
           broken' \subseteq Conn, Fresh', RestOK'
    PROVE  TypeInv'
  BY DEF TypeInv, TypeOK, RestOK
-----------------------------------------------------------------------------
(* What a step keeps of the two invariants                                 *)

IInv == TypeInv /\ TableIsServed /\ DesiredIsPursued

\* A table entry stays served while its end does, or is a new one's.
LEMMA ServedFrame ==
    ASSUME TypeInv, TableIsServed,
           \A y \in End : at[y] \in Serving =>
               at'[y] \in Serving \/ peers'[Table(y)] # y[1],
           \A p \in Pair :
               \/ peers'[p] = peers[p]
               \/ peers'[p] = NoConn
               \/ \E y \in End : y[1] = peers'[p] /\ Table(y) = p /\ at'[y] \in Serving
    PROVE  TableIsServed'
<1> SUFFICES ASSUME NEW n \in Node, NEW m \in Node, peers'[<<n, m>>] # NoConn
             PROVE  \E x \in End : /\ x[1] = peers'[<<n, m>>]
                                   /\ Table(x) = <<n, m>>
                                   /\ at'[x] \in Serving
  BY DEF TableIsServed, HasPeer, Table, Local, Remote
<1>1. <<n, m>> \in Pair
  BY DEF Pair
<1>2. CASE peers'[<<n, m>>] = peers[<<n, m>>]
  <2>1. PICK x \in End : /\ x[1] = peers[<<n, m>>]
                         /\ Table(x) = <<n, m>>
                         /\ at[x] \in Serving
    BY <1>2 DEF TableIsServed, HasPeer
  <2> QED BY <1>2, <2>1
<1> QED BY <1>1, <1>2

\* A step of one end leaves the other ends that serve an entry as they are.
LEMMA MovedServing ==
    ASSUME TypeInv, TableIsServed, NEW x \in End, NEW s, Moved(x, s),
           peers' = peers,
           at[x] \in Serving => s \in Serving
    PROVE  TableIsServed'
<1>1. \A y \in End : at[y] \in Serving => at'[y] \in Serving
  BY DEF Moved, Serving, Idle
<1> QED BY <1>1, ServedFrame

\* A step of one end stops no dial but its own.
LEMMA MovedDialing ==
    ASSUME NEW x \in End, NEW s, Moved(x, s), NEW n, NEW m, Dialing(n, m),
           \/ s \in {"begin", "checked", "tcp", "made"}
           \/ Table(x) # <<n, m>>
           \/ at[x] \notin {"begin", "checked", "tcp", "made"}
    PROVE  Dialing(n, m)'
<1>1. PICK k \in Conn : /\ From[k] = n /\ To[k] = m
                        /\ at[<<k, "out">>] \in {"begin", "checked", "tcp", "made"}
  BY DEF Dialing, Out
<1>2. <<k, "out">> \in End /\ Table(<<k, "out">>) = <<n, m>>
  BY <1>1, EndsOf
<1>3. at'[<<k, "out">>] \in {"begin", "checked", "tcp", "made"}
  BY <1>1, <1>2 DEF Moved, Idle
<1> QED BY <1>1, <1>3 DEF Dialing, Out

\* A step of one end takes back no announcement but its own.
LEMMA MovedLeaving ==
    ASSUME NEW x \in End, NEW s, Moved(x, s), NEW n, NEW m, Leaving(n, m),
           forget' = forget, at[x] # "removed"
    PROVE  Leaving(n, m)'
<1>1. CASE forget[<<n, m>>] = "tell"
  BY <1>1 DEF Leaving
<1>2. ASSUME NEW y \in End, Table(y) = <<n, m>>, at[y] = "removed"
      PROVE  Leaving(n, m)'
  <2>1. at'[y] = "removed"
    BY <1>2 DEF Moved, Idle
  <2> QED BY <1>2, <2>1 DEF Leaving, Table, Local, Remote
<1> QED BY <1>1, <1>2 DEF Leaving

\* An event is not lost to a reconnect_supervisor that has not lagged.
LEMMA SendKeeps ==
    ASSUME TypeOK, NEW i \in Node, NEW e \in Node \union {NoConn}, Send(i, e),
           NEW n \in Node, n \notin lagged'
    PROVE  /\ \A m \in Node : Waiting(n, m) => Waiting(n, m)'
           /\ n = i /\ e \in Node => Waiting(n, e)'
<1>1. CASE n # i
  <2>1. events'[n] = events[n]
    BY <1>1 DEF Send, TypeOK
  <2> QED BY <1>1, <2>1 DEF Waiting
<1>2. CASE n = i
  <2>1. events' = [events EXCEPT ![n] = Append(@, e)]
    BY <1>2 DEF Send
  <2>2. events[n] \in Seq(Node \union {NoConn})
    BY DEF TypeOK
  <2>3. events'[n] = Append(events[n], e)
    BY <2>1 DEF TypeOK
  <2>4. Len(events'[n]) = Len(events[n]) + 1 /\ Len(events[n]) \in Nat
    BY <2>2, <2>3, SMT
  <2>5. \A j \in 1..Len(events[n]) : events'[n][j] = events[n][j]
    BY <2>2, <2>3, SMT
  <2>6. events'[n][Len(events[n]) + 1] = e
    BY <2>2, <2>3, SMT
  <2>7. ASSUME NEW m \in Node, Waiting(n, m) PROVE Waiting(n, m)'
    BY <2>4, <2>5, <2>7, SMT DEF Waiting
  <2>8. Waiting(n, e)'
    BY <2>4, <2>6, SMT DEF Waiting
  <2> QED BY <2>7, <2>8
<1> QED BY <1>1, <1>2
\* Nobody who pursues a peer stops at a step of one end x, if the end is not
\* announcing a disconnect and a dial that it ends leaves the peer connected.
LEMMA MovedPursued ==
    ASSUME TypeInv, DesiredIsPursued, NEW x \in End, NEW s, Moved(x, s),
           \A n, m \in Node : HasPeer(n, m) => HasPeer(n, m)',
           loops' = loops, forget' = forget, desired' = desired,
           lagged \subseteq lagged',
           \A n \in Node \ lagged' : \A m \in Node : Waiting(n, m) => Waiting(n, m)',
           at[x] # "removed",
           \/ s \in {"begin", "checked", "tcp", "made"}
           \/ at[x] \notin {"begin", "checked", "tcp", "made"}
           \/ peers'[Table(x)] # NoConn
    PROVE  DesiredIsPursued'
<1> SUFFICES ASSUME NEW n \in Node \ lagged', NEW m \in desired[n]
             PROVE  Pursued(n, m)'
  BY DEF DesiredIsPursued
<1>1. m \in Node /\ Pursued(n, m)
  BY DEF DesiredIsPursued, TypeInv, TypeOK
<1>2. CASE HasPeer(n, m)
  BY <1>1, <1>2 DEF Pursued
<1>3. CASE Dialing(n, m)
  <2>1. CASE Table(x) = <<n, m>> /\ peers'[Table(x)] # NoConn
    BY <2>1 DEF Pursued, HasPeer
  <2>2. CASE ~(Table(x) = <<n, m>> /\ peers'[Table(x)] # NoConn)
    BY <1>3, <2>2, MovedDialing DEF Pursued
  <2> QED BY <2>1, <2>2
<1>4. CASE Sleeping(n, m)
  BY <1>4 DEF Pursued, Sleeping
<1>5. CASE Leaving(n, m)
  BY <1>5, MovedLeaving DEF Pursued
<1>6. CASE Waiting(n, m)
  BY <1>1, <1>6 DEF Pursued
<1> QED BY <1>1, <1>2, <1>3, <1>4, <1>5, <1>6 DEF Pursued

-----------------------------------------------------------------------------
(* dial, connect: one lemma per action                                     *)

\* A call of connect() starts a dial and changes no table.
LEMMA ConnectKeeps ==
    ASSUME IInv, NEW k \in Conn, Connect(k)
    PROVE  IInv'
<1>0. <<k, "out">> \in End /\ TypeInv /\ TypeOK
  BY EndsOf DEF IInv, TypeInv
<1>1. Moved(<<k, "out">>, "begin")
  BY <1>0, MoveOut DEF Connect, Early, State, TypeOK
<1>2. RestOK'
  <2>1. calls' \in 0..MaxCalls
    BY <1>0, CallType DEF Connect
  <2>2. attempt' \in [Conn -> 0..MaxAttempts]
    BY <1>0, TransportAssumption, SMT DEF Connect, TypeOK
  <2> QED BY <1>0, <2>1, <2>2, EndsOf DEF Connect, RestOK, TypeOK, tableVars, eventVars
<1>3. TypeInv'
  BY <1>1, <1>2, TypeParts DEF Moved
<1>4. at[<<k, "out">>] = "free"
  BY DEF Connect, Out
<1>5. TableIsServed'
  BY <1>0, <1>1, <1>4, MovedServing DEF IInv, Connect, tableVars, Serving
<1>6. DesiredIsPursued'
  BY <1>0, <1>1, <1>4, MovedPursued DEF IInv, Connect, tableVars, eventVars, HasPeer, Waiting
<1> QED BY <1>3, <1>5, <1>6 DEF IInv

\* dial() goes on, unless the peer is connected.
LEMMA DialBeginKeeps ==
    ASSUME IInv, NEW k \in Conn, DialBegin(k)
    PROVE  IInv'
<1>0. <<k, "out">> \in End /\ TypeInv /\ TypeOK
  BY EndsOf DEF IInv, TypeInv
<1> DEFINE s == IF HasPeer(From[k], To[k]) THEN "closed" ELSE "checked"
<1>1. Moved(<<k, "out">>, s)
  <2>1. s \in State /\ (s \in Early => Out(k) \in Early)
    BY DEF DialBegin, Early, State
  <2>2. Move([at EXCEPT ![<<k, "out">>] = s], greeted) /\ greeted \subseteq Conn
    BY <1>0 DEF DialBegin, TypeOK
  <2> HIDE DEF s
  <2> QED BY <1>0, <2>1, <2>2, MoveOut
<1>2. RestOK'
  BY <1>0 DEF DialBegin, RestOK, TypeOK, tableVars, eventVars
<1>3. TypeInv'
  BY <1>1, <1>2, TypeParts DEF Moved
<1>4. at[<<k, "out">>] = "begin" /\ peers' = peers
  BY DEF DialBegin, Out, tableVars
<1>5. TableIsServed'
  BY <1>0, <1>1, <1>4, MovedServing DEF IInv, Serving
<1>6. s = "checked" \/ peers'[Table(<<k, "out">>)] # NoConn
  BY <1>4, EndsOf DEF HasPeer
<1> HIDE DEF s
<1>7. DesiredIsPursued'
  BY <1>0, <1>1, <1>4, <1>6, MovedPursued
     DEF IInv, DialBegin, tableVars, eventVars, HasPeer, Waiting
<1> QED BY <1>3, <1>5, <1>7 DEF IInv

\* The peer becomes desired while it is being dialed.
LEMMA DialWantsKeeps ==
    ASSUME IInv, NEW k \in Conn, DialWants(k)
    PROVE  IInv'
<1>0. <<k, "out">> \in End /\ TypeInv /\ TypeOK
  BY EndsOf DEF IInv, TypeInv
<1>1. Moved(<<k, "out">>, "tcp")
  BY <1>0, MoveOut DEF DialWants, Early, State, TypeOK
<1>2. RestOK'
  BY <1>0, EndsOf DEF DialWants, RestOK, TypeOK, eventVars
<1>3. TypeInv'
  BY <1>1, <1>2, TypeParts DEF Moved
<1>4. at[<<k, "out">>] = "checked"
  BY DEF DialWants, Out
<1>5. TableIsServed'
  BY <1>0, <1>1, <1>4, MovedServing DEF IInv, DialWants, Serving
<1>6. ASSUME NEW n \in Node \ lagged', NEW m \in desired'[n] PROVE Pursued(n, m)'
  <2>1. CASE n = From[k] /\ m = To[k]
    <3>1. at'[<<k, "out">>] = "tcp"
      BY <1>1 DEF Moved, Idle
    <3> QED BY <2>1, <3>1 DEF Pursued, Dialing, Out
  <2>2. CASE ~(n = From[k] /\ m = To[k])
    <3>1. m \in desired[n] /\ n \notin lagged
      BY <1>0, <2>2 DEF DialWants, eventVars, TypeOK
    <3>2. Pursued(n, m)
      BY <3>1 DEF IInv, DesiredIsPursued
    <3>3. Dialing(n, m) => Dialing(n, m)'
      BY <1>0, <1>1, MovedDialing
    <3>4. Leaving(n, m) => Leaving(n, m)'
      BY <1>0, <1>1, <1>4, MovedLeaving DEF DialWants, eventVars
    <3> QED BY <3>2, <3>3, <3>4
            DEF Pursued, DialWants, eventVars, HasPeer, Waiting, Sleeping
  <2> QED BY <2>1, <2>2
<1> QED BY <1>3, <1>5, <1>6 DEF IInv, DesiredIsPursued
\* The stream opens; nothing was at its other end.
LEMMA TcpOpensKeeps ==
    ASSUME IInv, NEW k \in Conn, TcpOpens(k)
    PROVE  IInv'
<1>0. <<k, "out">> \in End /\ TypeInv /\ TypeOK
  BY EndsOf DEF IInv, TypeInv
<1>1. /\ at' \in [End -> State] /\ greeted' \subseteq Conn
      /\ broken' \subseteq Conn /\ Fresh'
      /\ at'[<<k, "out">>] = "made"
      /\ \A y \in End : (y[1] # k /\ at[y] \notin Idle) => at'[y] = at[y]
      /\ at[<<k, "in">>] = "none"
  BY <1>0, MoveOpen
<1>2. RestOK'
  BY <1>0 DEF TcpOpens, RestOK, TypeOK, tableVars, eventVars
<1>3. TypeInv'
  BY <1>1, <1>2, TypeParts
<1>4. at[<<k, "out">>] = "tcp" /\ peers' = peers
  BY DEF TcpOpens, Out, tableVars
<1>5. \A y \in End : at[y] \in Serving \union {"removed"} => at'[y] = at[y]
  BY <1>1, <1>4, EndFacts DEF Serving, Idle
<1>6. TableIsServed'
  BY <1>0, <1>4, <1>5, ServedFrame DEF IInv
<1>7. ASSUME NEW n \in Node \ lagged', NEW m \in desired'[n] PROVE Pursued(n, m)'
  <2>1. Pursued(n, m)
    BY <1>0 DEF IInv, DesiredIsPursued, TcpOpens, tableVars, eventVars
  <2>2. ASSUME Dialing(n, m) PROVE Dialing(n, m)'
    <3>1. PICK j \in Conn : /\ From[j] = n /\ To[j] = m
                            /\ at[<<j, "out">>] \in {"begin", "checked", "tcp", "made"}
      BY <2>2 DEF Dialing, Out
    <3>2. at'[<<j, "out">>] \in {"begin", "checked", "tcp", "made"}
      BY <1>1, <3>1, EndsOf DEF Idle
    <3> QED BY <3>1, <3>2 DEF Dialing, Out
  <2>3. Leaving(n, m) => Leaving(n, m)'
    BY <1>5 DEF Leaving, TcpOpens, eventVars, Table, Local, Remote
  <2> QED BY <2>1, <2>2, <2>3, <1>4
          DEF Pursued, TcpOpens, eventVars, HasPeer, Waiting, Sleeping
<1> QED BY <1>3, <1>6, <1>7 DEF IInv, DesiredIsPursued

\* A failed dial leaves the peer to a reconnect_loop, or undesired.
LEMMA DialFailsKeeps ==
    ASSUME IInv, NEW k \in Conn, DialFails(k)
    PROVE  IInv'
<1>0. <<k, "out">> \in End /\ TypeInv /\ TypeOK
  BY EndsOf DEF IInv, TypeInv
<1>k. From[k] \in Node /\ To[k] \in Node
  BY EndsOf
<1>1. Moved(<<k, "out">>, "closed")
  BY <1>0, MoveOut DEF DialFails, Early, State, TypeOK
<1>2. at[<<k, "out">>] \in {"begin", "checked", "tcp", "made"} /\ peers' = peers
  BY DEF DialFails, Out
<1>3. TableIsServed'
  BY <1>0, <1>1, <1>2, MovedServing DEF IInv, Serving
<1>4. attempt' \in [Conn -> 0..MaxAttempts] /\ attempt[k] \in 0..MaxAttempts
  BY <1>0, TransportAssumption, SMT DEF DialFails, TypeOK
<1>5. ASSUME NEW n \in Node, n \notin lagged, NEW m \in desired[n],
             ~(n = From[k] /\ m = To[k]), lagged \subseteq lagged', forget' = forget,
             \A i \in 1..MaxAttempts : loops'[<<n, m, i>>] = loops[<<n, m, i>>],
             Waiting(n, m) => Waiting(n, m)'
      PROVE  Pursued(n, m)'
  <2>1. Pursued(n, m)
    BY <1>5 DEF IInv, DesiredIsPursued
  <2>2. Dialing(n, m) => Dialing(n, m)'
    <3>1. Table(<<k, "out">>) = <<From[k], To[k]>>
      BY EndsOf
    <3>2. Table(<<k, "out">>) # <<n, m>>
      BY <1>5, <3>1, SMT
    <3> QED BY <1>0, <1>1, <3>2, MovedDialing
  <2>3. Leaving(n, m) => Leaving(n, m)'
    BY <1>0, <1>1, <1>2, <1>5, MovedLeaving
  <2> QED BY <1>2, <1>5, <2>1, <2>2, <2>3 DEF Pursued, HasPeer, Sleeping
<1>6. CASE attempt[k] < MaxAttempts
  <2> DEFINE l == <<From[k], To[k], attempt[k] + 1>>
  <2>1. /\ loops' = [loops EXCEPT ![l] = @ + 1]
        /\ UNCHANGED <<desired, told, forget, events, lagged, forgotten, calls>>
    BY <1>6, <1>4, SMT DEF DialFails, eventVars
  <2>2. l \in Loop /\ attempt[k] + 1 \in 1..MaxAttempts
    BY <1>4, <1>6, <1>k, TransportAssumption, SMT DEF Loop
  <2>3. loops' \in [Loop -> Nat] /\ loops'[l] > 0
    BY <1>0, <2>1, <2>2, SMT DEF TypeOK
  <2>4. RestOK'
    BY <1>0, <1>2, <1>4, <2>1, <2>3 DEF RestOK, TypeOK
  <2>5. ASSUME NEW n \in Node \ lagged', NEW m \in desired'[n] PROVE Pursued(n, m)'
    <3>1. CASE n = From[k] /\ m = To[k]
      BY <2>2, <2>3, <3>1 DEF Pursued, Sleeping
    <3>2. CASE ~(n = From[k] /\ m = To[k])
      <4>1. m \in Node
        BY <1>0, <2>1 DEF TypeOK
      <4>2. \A i \in 1..MaxAttempts : loops'[<<n, m, i>>] = loops[<<n, m, i>>]
        BY <1>0, <2>1, <3>2, <4>1 DEF TypeOK, Loop
      <4> QED BY <1>5, <2>1, <3>2, <4>2 DEF Waiting
    <3> QED BY <3>1, <3>2
  <2> QED BY <1>1, <1>3, <2>4, <2>5, TypeParts DEF IInv, DesiredIsPursued, Moved
<1>7. CASE attempt[k] = MaxAttempts
  <2>1. /\ desired' = [desired EXCEPT ![From[k]] = @ \ {To[k]}]
        /\ Send(From[k], NoConn)
        /\ UNCHANGED <<loops, told, forget, forgotten, calls>>
    BY <1>7, <1>4, TransportAssumption, SMT DEF DialFails
  <2>2. /\ events' \in [Node -> Seq(Node \union {NoConn})]
        /\ \A i \in Node : Len(events'[i]) <= EventBuffer
        /\ lagged' \subseteq Node /\ lagged \subseteq lagged'
    BY <1>0, <1>k, <2>1, SendType
  <2>3. RestOK'
    BY <1>0, <1>2, <1>4, <1>k, <2>1, <2>2 DEF RestOK, TypeOK
  <2>4. ASSUME NEW n \in Node \ lagged', NEW m \in desired'[n] PROVE Pursued(n, m)'
    <3>1. m \in desired[n] /\ m \in Node /\ ~(n = From[k] /\ m = To[k]) /\ n \notin lagged
      BY <1>0, <2>1, <2>2 DEF TypeOK
    <3>2. Waiting(n, m) => Waiting(n, m)'
      BY <1>0, <1>k, <2>1, <3>1, SendKeeps
    <3> QED BY <1>5, <2>1, <2>2, <3>1, <3>2
  <2> QED BY <1>1, <1>3, <2>3, <2>4, TypeParts DEF IInv, DesiredIsPursued, Moved
<1> QED BY <1>4, <1>6, <1>7, TransportAssumption, SMT
\* The dial enters the table or yields to the entry there.
LEMMA DialInsertKeeps ==
    ASSUME IInv, NEW k \in Conn, DialInsert(k)
    PROVE  IInv'
<1> DEFINE x == <<k, "out">>
           p == <<From[k], To[k]>>
<1>0. x \in End /\ TypeInv /\ TypeOK /\ Table(x) = p /\ p \in Pair /\ x[1] = k
  BY EndsOf DEF IInv, TypeInv
<1>1. at[x] = "made"
  BY DEF DialInsert, Out
<1>2. attempt' \in [Conn -> 0..MaxAttempts]
  BY <1>0, TransportAssumption, SMT DEF DialInsert, TypeOK
<1>3. UNCHANGED <<desired, told, forget, events, lagged, loops, forgotten, calls>>
  BY DEF DialInsert, eventVars
<1>4. CASE Yields(k, p)
  <2>1. peers' = peers /\ peers[p] # NoConn /\ Moved(x, "closed")
    BY <1>0, <1>4, MoveOut DEF DialInsert, Yields, Early, State, TypeOK
  <2>2. RestOK'
    BY <1>0, <1>2, <1>3, <2>1 DEF RestOK, TypeOK
  <2>3. TableIsServed'
    BY <1>0, <1>1, <2>1, MovedServing DEF IInv, Serving
  <2> HIDE DEF x, p
  <2>4. DesiredIsPursued'
    BY <1>0, <1>1, <1>3, <2>1, MovedPursued DEF IInv, HasPeer, Waiting
  <2> QED BY <2>1, <2>2, <2>3, <2>4, TypeParts DEF IInv, Moved
<1>5. CASE ~Yields(k, p)
  <2>1. peers' = [peers EXCEPT ![p] = k] /\ Moved(x, "inserted")
    BY <1>0, <1>5, MoveOut DEF DialInsert, Early, State, TypeOK
  <2> HIDE DEF x, p
  <2>2. peers' \in [Pair -> Conn \union {NoConn}] /\ peers'[p] = k
        /\ \A q \in Pair : q # p => peers'[q] = peers[q]
    BY <1>0, <2>1 DEF TypeOK
  <2>3. RestOK'
    BY <1>0, <1>2, <1>3, <2>2 DEF RestOK, TypeOK
  <2>4. at'[x] \in Serving
    BY <2>1 DEF Moved, Idle, Serving
  <2>5. \A y \in End : at[y] \in Serving => at'[y] \in Serving
    BY <1>1, <2>1 DEF Moved, Idle, Serving
  <2>6. TableIsServed'
    BY <1>0, <2>2, <2>4, <2>5, ServedFrame DEF IInv
  <2>7. k # NoConn
    BY TransportAssumption
  <2>8. \A n, m \in Node : HasPeer(n, m) => HasPeer(n, m)'
    BY <2>2, <2>7 DEF HasPeer, Pair
  <2>9. DesiredIsPursued'
    BY <1>0, <1>1, <1>3, <2>1, <2>2, <2>7, <2>8, MovedPursued DEF IInv, Waiting
  <2> QED BY <2>1, <2>3, <2>6, <2>9, TypeParts DEF IInv, Moved
<1> QED BY <1>4, <1>5

\* The handshake is sent on a connection that is in the table.
LEMMA DialGreetsKeeps ==
    ASSUME IInv, NEW k \in Conn, DialGreets(k)
    PROVE  IInv'
<1> DEFINE g == IF In(k) = "handshake" THEN greeted \union {k} ELSE greeted
<1>0. <<k, "out">> \in End /\ TypeInv /\ TypeOK /\ From[k] \in Node
  BY EndsOf DEF IInv, TypeInv
<1>1. Moved(<<k, "out">>, "greeted")
  <2>1. g \subseteq Conn /\ Move([at EXCEPT ![<<k, "out">>] = "greeted"], g)
    BY <1>0 DEF DialGreets, TypeOK
  <2> HIDE DEF g
  <2> QED BY <1>0, <2>1, MoveOut DEF Early, State
<1>2. /\ events' \in [Node -> Seq(Node \union {NoConn})]
      /\ \A i \in Node : Len(events'[i]) <= EventBuffer
      /\ lagged' \subseteq Node /\ lagged \subseteq lagged'
  BY <1>0, SendType DEF DialGreets
<1>3. RestOK'
  BY <1>0, <1>2 DEF DialGreets, RestOK, TypeOK, tableVars
<1>4. at[<<k, "out">>] = "inserted" /\ peers' = peers
  BY DEF DialGreets, Out, tableVars
<1>5. TableIsServed'
  BY <1>0, <1>1, <1>4, MovedServing DEF IInv, Serving
<1>6. \A n \in Node \ lagged' : \A m \in Node : Waiting(n, m) => Waiting(n, m)'
  BY <1>0, SendKeeps DEF DialGreets
<1>7. DesiredIsPursued'
  BY <1>0, <1>1, <1>2, <1>4, <1>6, MovedPursued DEF IInv, DialGreets, tableVars, HasPeer
<1> QED BY <1>1, <1>3, <1>5, <1>7, TypeParts DEF IInv, Moved

\* The read_loop of a dial starts.
LEMMA DialReadsKeeps ==
    ASSUME IInv, NEW k \in Conn, DialReads(k)
    PROVE  IInv'
<1>0. <<k, "out">> \in End /\ TypeInv /\ TypeOK
  BY EndsOf DEF IInv, TypeInv
<1>1. Moved(<<k, "out">>, "reading")
  BY <1>0, MoveOut DEF DialReads, Early, State, TypeOK
<1>2. RestOK'
  BY <1>0 DEF DialReads, RestOK, TypeOK, tableVars, eventVars
<1>3. at[<<k, "out">>] = "greeted" /\ peers' = peers
  BY DEF DialReads, Out, tableVars
<1>4. TableIsServed'
  BY <1>0, <1>1, <1>3, MovedServing DEF IInv, Serving
<1>5. DesiredIsPursued'
  BY <1>0, <1>1, <1>3, MovedPursued DEF IInv, DialReads, tableVars, eventVars, HasPeer, Waiting
<1> QED BY <1>1, <1>2, <1>4, <1>5, TypeParts DEF IInv, Moved

-----------------------------------------------------------------------------
(* read_loop: one lemma per action                                         *)

\* The handshake arrives: the connection enters the table, or yields.
LEMMA RegisterKeeps ==
    ASSUME IInv, NEW k \in Conn, Register(k)
    PROVE  IInv'
<1> DEFINE x == <<k, "in">>
           p == <<To[k], From[k]>>
<1>0. /\ x \in End /\ TypeInv /\ TypeOK /\ Table(x) = p /\ p \in Pair /\ x[1] = k
      /\ To[k] \in Node
  BY EndsOf DEF IInv, TypeInv
<1>1. at[x] = "handshake" /\ In(k) # "none"
  BY DEF Register, In
<1>2. UNCHANGED <<attempt, desired, forget, loops, forgotten, calls>>
  BY DEF Register
<1>g. greeted \ {k} \subseteq Conn
  BY <1>0 DEF TypeOK
<1>3. CASE Yields(k, p)
  <2>1. peers' = peers /\ events' = events /\ lagged' = lagged /\ Moved(x, "closed")
        /\ told' \subseteq End
    BY <1>0, <1>1, <1>3, <1>g, MoveIn DEF Register, State, TypeOK
  <2>2. RestOK'
    BY <1>0, <1>2, <2>1 DEF RestOK, TypeOK
  <2>3. TableIsServed'
    BY <1>0, <1>1, <2>1, MovedServing DEF IInv, Serving
  <2> HIDE DEF x, p
  <2>4. DesiredIsPursued'
    BY <1>0, <1>1, <1>2, <2>1, MovedPursued DEF IInv, HasPeer, Waiting
  <2> QED BY <2>1, <2>2, <2>3, <2>4, TypeParts DEF IInv, Moved
<1>4. CASE ~Yields(k, p)
  <2>1. peers' = [peers EXCEPT ![p] = k] /\ Moved(x, "reading") /\ told' = told
        /\ Send(To[k], NoConn)
    BY <1>0, <1>1, <1>4, <1>g, MoveIn DEF Register, State
  <2> HIDE DEF x, p
  <2>2. peers' \in [Pair -> Conn \union {NoConn}] /\ peers'[p] = k
        /\ \A q \in Pair : q # p => peers'[q] = peers[q]
    BY <1>0, <2>1 DEF TypeOK
  <2>3. /\ events' \in [Node -> Seq(Node \union {NoConn})]
        /\ \A i \in Node : Len(events'[i]) <= EventBuffer
        /\ lagged' \subseteq Node /\ lagged \subseteq lagged'
    BY <1>0, <2>1, SendType
  <2>4. RestOK'
    BY <1>0, <1>2, <2>1, <2>2, <2>3 DEF RestOK, TypeOK
  <2>5. at'[x] \in Serving
    BY <2>1 DEF Moved, Idle, Serving
  <2>6. \A y \in End : at[y] \in Serving => at'[y] \in Serving
    BY <1>1, <2>1 DEF Moved, Idle, Serving
  <2>7. TableIsServed'
    BY <1>0, <2>2, <2>5, <2>6, ServedFrame DEF IInv
  <2>8. \A n, m \in Node : HasPeer(n, m) => HasPeer(n, m)'
    BY <2>2, TransportAssumption DEF HasPeer, Pair
  <2>9. \A n \in Node \ lagged' : \A m \in Node : Waiting(n, m) => Waiting(n, m)'
    BY <1>0, <2>1, SendKeeps
  <2>10. DesiredIsPursued'
    BY <1>0, <1>1, <1>2, <2>1, <2>3, <2>8, <2>9, MovedPursued DEF IInv
  <2> QED BY <2>1, <2>4, <2>7, <2>10, TypeParts DEF IInv, Moved
<1> QED BY <1>3, <1>4
\* A stream that ends before its handshake was in no table.
LEMMA InboundDroppedKeeps ==
    ASSUME IInv, NEW k \in Conn, InboundDropped(k)
    PROVE  IInv'
<1>0. <<k, "in">> \in End /\ TypeInv /\ TypeOK
  BY EndsOf DEF IInv, TypeInv
<1>1. at[<<k, "in">>] = "handshake" /\ In(k) # "none" /\ peers' = peers
  BY DEF InboundDropped, In, tableVars
<1>2. Moved(<<k, "in">>, "closed")
  <2>1. greeted \ {k} \subseteq Conn
    BY <1>0 DEF TypeOK
  <2> QED BY <1>0, <1>1, <2>1, MoveIn DEF InboundDropped, State
<1>3. RestOK'
  BY <1>0 DEF InboundDropped, RestOK, TypeOK, tableVars
<1>4. TableIsServed'
  BY <1>0, <1>1, <1>2, MovedServing DEF IInv, Serving
<1>5. DesiredIsPursued'
  BY <1>0, <1>1, <1>2, MovedPursued DEF IInv, InboundDropped, tableVars, HasPeer, Waiting
<1> QED BY <1>2, <1>3, <1>4, <1>5, TypeParts DEF IInv, Moved

\* The two ways out of a registered read_loop both lead to the cleanup.
LEMMA ReaderLeavesKeeps ==
    ASSUME IInv, NEW x \in End, ReadEnds(x) \/ Notified(x)
    PROVE  IInv'
<1>0. TypeInv /\ TypeOK
  BY DEF IInv, TypeInv
<1>1. /\ at[x] = "reading"
      /\ Move([at EXCEPT ![x] = "closing"], greeted)
      /\ told' = told \ {x}
      /\ UNCHANGED <<attempt, peers, desired, forget, events, lagged, loops, forgotten, calls>>
  BY DEF ReadEnds, Notified, tableVars
<1>2. Moved(x, "closing")
  BY <1>0, <1>1, MoveReader DEF TypeOK, State, Early
<1>3. RestOK'
  BY <1>0, <1>1 DEF RestOK, TypeOK
<1>4. TableIsServed'
  BY <1>0, <1>1, <1>2, MovedServing DEF IInv, Serving
<1>5. DesiredIsPursued'
  BY <1>0, <1>1, <1>2, MovedPursued DEF IInv, HasPeer, Waiting
<1> QED BY <1>2, <1>3, <1>4, <1>5, TypeParts DEF IInv, Moved

\* The cleanup of a read_loop: its own entry goes, and will be announced.
LEMMA CleanupKeeps ==
    ASSUME IInv, NEW x \in End, Cleanup(x)
    PROVE  IInv'
<1>0. TypeInv /\ TypeOK /\ x[1] \in Conn /\ Table(x) \in Pair
  BY EndFacts DEF IInv, TypeInv
<1>1. /\ at[x] = "closing"
      /\ UNCHANGED <<attempt, desired, told, forget, events, lagged, loops, forgotten, calls>>
  BY DEF Cleanup, eventVars
<1>2. CASE peers[Table(x)] = x[1]
  <2>1. peers' = [peers EXCEPT ![Table(x)] = NoConn]
        /\ Move([at EXCEPT ![x] = "removed"], greeted)
    BY <1>2 DEF Cleanup
  <2>2. Moved(x, "removed")
    BY <1>0, <1>1, <2>1, MoveReader DEF TypeOK, State, Early
  <2>3. /\ peers' \in [Pair -> Conn \union {NoConn}]
        /\ peers'[Table(x)] = NoConn
        /\ \A p \in Pair : p # Table(x) => peers'[p] = peers[p]
    BY <1>0, <2>1 DEF TypeOK
  <2>4. RestOK'
    BY <1>0, <1>1, <2>3 DEF RestOK, TypeOK
  <2>5. \A y \in End : at[y] \in Serving =>
            at'[y] \in Serving \/ peers'[Table(y)] # y[1]
    BY <1>0, <2>2, <2>3, TransportAssumption DEF Moved, Idle, Serving
  <2>6. TableIsServed'
    BY <1>0, <2>3, <2>5, ServedFrame DEF IInv
  <2>7. ASSUME NEW n \in Node \ lagged', NEW m \in desired'[n] PROVE Pursued(n, m)'
    <3>1. CASE Table(x) = <<n, m>>
      <4>1. at'[x] = "removed"
        BY <2>2 DEF Moved, Idle
      <4> QED BY <3>1, <4>1 DEF Pursued, Leaving, Table, Local, Remote
    <3>2. CASE Table(x) # <<n, m>>
      <4>1. Pursued(n, m) /\ m \in Node
        BY <1>0, <1>1 DEF IInv, DesiredIsPursued, TypeOK
      <4>2. Dialing(n, m) => Dialing(n, m)'
        BY <2>2, <3>2, MovedDialing
      <4>3. Leaving(n, m) => Leaving(n, m)'
        BY <1>1, <2>2, MovedLeaving
      <4>4. peers'[<<n, m>>] = peers[<<n, m>>]
        BY <2>3, <3>2, <4>1 DEF Pair
      <4> QED BY <1>1, <4>1, <4>2, <4>3, <4>4 DEF Pursued, HasPeer, Waiting, Sleeping
    <3> QED BY <3>1, <3>2
  <2> QED BY <2>2, <2>4, <2>6, <2>7, TypeParts DEF IInv, DesiredIsPursued, Moved
<1>3. CASE peers[Table(x)] # x[1]
  <2>1. peers' = peers /\ Move([at EXCEPT ![x] = "closed"], greeted)
    BY <1>3 DEF Cleanup
  <2>2. Moved(x, "closed")
    BY <1>0, <1>1, <2>1, MoveReader DEF TypeOK, State, Early
  <2>3. RestOK'
    BY <1>0, <1>1, <2>1 DEF RestOK, TypeOK
  <2>4. \A y \in End : at[y] \in Serving =>
            at'[y] \in Serving \/ peers'[Table(y)] # y[1]
    BY <1>3, <2>1, <2>2 DEF Moved, Idle, Serving
  <2>5. TableIsServed'
    BY <1>0, <2>1, <2>4, ServedFrame DEF IInv
  <2>6. DesiredIsPursued'
    BY <1>0, <1>1, <2>1, <2>2, MovedPursued DEF IInv, HasPeer, Waiting
  <2> QED BY <2>2, <2>3, <2>5, <2>6, TypeParts DEF IInv, Moved
<1> QED BY <1>2, <1>3

\* The disconnect is announced: it waits for reconnect_supervisor.
LEMMA CleanupTellsKeeps ==
    ASSUME IInv, NEW x \in End, CleanupTells(x)
    PROVE  IInv'
<1>0. /\ TypeInv /\ TypeOK /\ Local(x) \in Node /\ Remote(x) \in Node
      /\ Table(x) = <<Local(x), Remote(x)>>
  BY EndFacts DEF IInv, TypeInv
<1>1. /\ at[x] = "removed"
      /\ Move([at EXCEPT ![x] = "closed"], greeted)
      /\ Send(Local(x), Remote(x))
      /\ told' \subseteq End
      /\ UNCHANGED <<attempt, peers, desired, forget, loops, forgotten, calls>>
  BY <1>0 DEF CleanupTells, SendDisconnected, Subscribed, tableVars, TypeOK
<1>2. Moved(x, "closed")
  BY <1>0, <1>1, MoveReader DEF TypeOK, State, Early
<1>3. /\ events' \in [Node -> Seq(Node \union {NoConn})]
      /\ \A i \in Node : Len(events'[i]) <= EventBuffer
      /\ lagged' \subseteq Node /\ lagged \subseteq lagged'
  BY <1>0, <1>1, SendType
<1>4. RestOK'
  BY <1>0, <1>1, <1>3 DEF RestOK, TypeOK
<1>5. TableIsServed'
  BY <1>0, <1>1, <1>2, MovedServing DEF IInv, Serving
<1>6. ASSUME NEW n \in Node \ lagged', NEW m \in desired'[n] PROVE Pursued(n, m)'
  <2>1. Pursued(n, m) /\ m \in Node
    BY <1>0, <1>1, <1>3 DEF IInv, DesiredIsPursued, TypeOK
  <2>2. /\ Waiting(n, m) => Waiting(n, m)'
        /\ n = Local(x) => Waiting(n, Remote(x))'
    BY <1>0, <1>1, <2>1, SendKeeps
  <2>3. Dialing(n, m) => Dialing(n, m)'
    BY <1>1, <1>2, MovedDialing
  <2>4. ASSUME Leaving(n, m) PROVE Leaving(n, m)' \/ Waiting(n, m)'
    <3>1. CASE forget[<<n, m>>] = "tell"
      BY <1>1, <3>1 DEF Leaving
    <3>2. ASSUME NEW y \in End, Table(y) = <<n, m>>, at[y] = "removed"
          PROVE  Leaving(n, m)' \/ Waiting(n, m)'
      <4>1. CASE y = x
        <5>1. n = Local(x) /\ m = Remote(x)
          BY <1>0, <3>2, <4>1, SMT
        <5> QED BY <2>2, <5>1
      <4>2. CASE y # x
        <5>1. at'[y] = "removed"
          BY <1>2, <3>2, <4>2 DEF Moved, Idle
        <5> QED BY <3>2, <5>1 DEF Leaving, Table, Local, Remote
      <4> QED BY <4>1, <4>2
    <3> QED BY <2>4, <3>1, <3>2 DEF Leaving
  <2> QED BY <1>1, <2>1, <2>2, <2>3, <2>4 DEF Pursued, HasPeer, Sleeping
<1> QED BY <1>2, <1>4, <1>5, <1>6, TypeParts DEF IInv, DesiredIsPursued, Moved
-----------------------------------------------------------------------------
(* forget_peer, reconnection and the environment: one lemma per action     *)

\* Steps that move no end: what stays of the invariants by itself.
LEMMA StillKeeps ==
    ASSUME IInv, at' = at, greeted' = greeted, broken' \subseteq Conn, RestOK'
    PROVE  /\ TypeInv'
           /\ peers' = peers => TableIsServed'
           /\ \A n, m \in Node : Dialing(n, m) => Dialing(n, m)'
<1>1. Fresh'
  BY DEF IInv, TypeInv, Fresh, Out, In
<1>2. TypeInv'
  BY <1>1, TypeParts DEF IInv, TypeInv, TypeOK
<1>3. peers' = peers => TableIsServed'
  BY ServedFrame DEF IInv
<1>4. \A n, m \in Node : Dialing(n, m) => Dialing(n, m)'
  BY DEF Dialing, Out
<1> QED BY <1>2, <1>3, <1>4

\* forget_peer first makes the peer undesired.
LEMMA ForgetPeerKeeps ==
    ASSUME IInv, NEW n \in Node, NEW m \in Node, ForgetPeer(n, m)
    PROVE  IInv'
<1>0. TypeOK /\ <<n, m>> \in Pair
  BY DEF IInv, TypeInv, Pair
<1>1. /\ UNCHANGED <<at, attempt, greeted, broken, told, peers, events, lagged, loops>>
      /\ forget[<<n, m>>] = "no"
      /\ forget' = [forget EXCEPT ![<<n, m>>] = "drop"]
      /\ desired' = [desired EXCEPT ![n] = @ \ {m}]
  BY DEF ForgetPeer
<1>2. calls' \in 0..MaxCalls
  BY <1>0, CallType DEF ForgetPeer
<1>3. RestOK'
  BY <1>0, <1>1, <1>2 DEF RestOK, TypeOK, ForgetPeer
<1>4. /\ TypeInv' /\ TableIsServed'
      /\ \A i, j \in Node : Dialing(i, j) => Dialing(i, j)'
  BY <1>0, <1>1, <1>3, StillKeeps DEF TypeOK
<1>5. ASSUME NEW i \in Node \ lagged', NEW j \in desired'[i] PROVE Pursued(i, j)'
  <2>1. j \in desired[i] /\ j \in Node /\ i \notin lagged /\ ~(i = n /\ j = m)
    BY <1>0, <1>1 DEF TypeOK
  <2>2. Pursued(i, j)
    BY <2>1 DEF IInv, DesiredIsPursued
  <2>3. forget'[<<i, j>>] = forget[<<i, j>>]
    BY <1>0, <1>1, <2>1 DEF TypeOK, Pair
  <2>4. Leaving(i, j) => Leaving(i, j)'
    BY <1>1, <2>3 DEF Leaving, Table, Local, Remote
  <2> QED BY <1>1, <1>4, <2>1, <2>2, <2>4 DEF Pursued, HasPeer, Waiting, Sleeping
<1> QED BY <1>4, <1>5 DEF IInv, DesiredIsPursued

\* Then it takes the entry out, which it will announce.
LEMMA ForgetDropsKeeps ==
    ASSUME IInv, NEW n \in Node, NEW m \in Node, ForgetDrops(n, m)
    PROVE  IInv'
<1>0. TypeOK /\ <<n, m>> \in Pair /\ TypeInv
  BY DEF IInv, TypeInv, Pair
<1>1. /\ UNCHANGED <<at, attempt, greeted, broken, told, desired, events, lagged,
                     loops, forgotten, calls>>
      /\ forget[<<n, m>>] = "drop"
      /\ forget' = [forget EXCEPT ![<<n, m>>] = IF HasPeer(n, m) THEN "tell" ELSE "no"]
      /\ peers' = [peers EXCEPT ![<<n, m>>] = NoConn]
  BY DEF ForgetDrops
<1>2. /\ forget' \in [Pair -> {"no", "drop", "tell"}]
      /\ HasPeer(n, m) => forget'[<<n, m>>] = "tell"
      /\ \A p \in Pair : p # <<n, m>> => forget'[p] = forget[p] /\ peers'[p] = peers[p]
      /\ peers' \in [Pair -> Conn \union {NoConn}]
      /\ peers'[<<n, m>>] = NoConn
  BY <1>0, <1>1 DEF TypeOK
<1>3. RestOK'
  BY <1>0, <1>1, <1>2 DEF RestOK, TypeOK
<1>4. /\ TypeInv'
      /\ \A i, j \in Node : Dialing(i, j) => Dialing(i, j)'
  BY <1>0, <1>1, <1>3, StillKeeps DEF TypeOK
<1>5. TableIsServed'
  BY <1>0, <1>1, <1>2, ServedFrame DEF IInv
<1>6. ASSUME NEW i \in Node \ lagged', NEW j \in desired'[i] PROVE Pursued(i, j)'
  <2>1. j \in Node /\ Pursued(i, j) /\ <<i, j>> \in Pair
    BY <1>0, <1>1 DEF TypeOK, IInv, DesiredIsPursued, Pair
  <2>2. HasPeer(i, j) => HasPeer(i, j)' \/ Leaving(i, j)'
    BY <1>2, <2>1 DEF HasPeer, Leaving
  <2>3. Leaving(i, j) => Leaving(i, j)'
    <3>1. forget[<<i, j>>] = "tell" => forget'[<<i, j>>] = "tell"
      BY <1>1, <1>2, <2>1
    <3> QED BY <1>1, <3>1 DEF Leaving, Table, Local, Remote
  <2> QED BY <1>1, <1>4, <2>1, <2>2, <2>3 DEF Pursued, Waiting, Sleeping
<1> QED BY <1>4, <1>5, <1>6 DEF IInv, DesiredIsPursued

\* And announces it.
LEMMA ForgetTellsKeeps ==
    ASSUME IInv, NEW n \in Node, NEW m \in Node, ForgetTells(n, m)
    PROVE  IInv'
<1>0. TypeOK /\ <<n, m>> \in Pair
  BY DEF IInv, TypeInv, Pair
<1>1. /\ UNCHANGED <<at, attempt, greeted, broken, peers, desired, loops, forgotten, calls>>
      /\ forget' = [forget EXCEPT ![<<n, m>>] = "no"]
      /\ Send(n, m)
      /\ told' \subseteq End
  BY <1>0 DEF ForgetTells, SendDisconnected, Subscribed, tableVars, TypeOK
<1>2. /\ events' \in [Node -> Seq(Node \union {NoConn})]
      /\ \A i \in Node : Len(events'[i]) <= EventBuffer
      /\ lagged' \subseteq Node /\ lagged \subseteq lagged'
  BY <1>0, <1>1, SendType
<1>3. RestOK'
  BY <1>0, <1>1, <1>2 DEF RestOK, TypeOK
<1>4. /\ TypeInv' /\ TableIsServed'
      /\ \A i, j \in Node : Dialing(i, j) => Dialing(i, j)'
  BY <1>0, <1>1, <1>3, StillKeeps DEF TypeOK
<1>5. ASSUME NEW i \in Node \ lagged', NEW j \in desired'[i] PROVE Pursued(i, j)'
  <2>1. j \in Node /\ Pursued(i, j) /\ <<i, j>> \in Pair
    BY <1>0, <1>1, <1>2 DEF TypeOK, IInv, DesiredIsPursued, Pair
  <2>2. /\ Waiting(i, j) => Waiting(i, j)'
        /\ i = n => Waiting(i, m)'
    BY <1>0, <1>1, <2>1, SendKeeps
  <2>3. Leaving(i, j) => Leaving(i, j)' \/ Waiting(i, j)'
    <3>1. CASE i = n /\ j = m
      BY <2>2, <3>1
    <3>2. CASE ~(i = n /\ j = m)
      <4>1. forget'[<<i, j>>] = forget[<<i, j>>]
        BY <1>0, <1>1, <2>1, <3>2 DEF TypeOK
      <4> QED BY <1>1, <4>1 DEF Leaving, Table, Local, Remote
    <3> QED BY <3>1, <3>2
  <2> QED BY <1>1, <1>4, <2>1, <2>2, <2>3 DEF Pursued, HasPeer, Sleeping
<1> QED BY <1>4, <1>5 DEF IInv, DesiredIsPursued
\* reconnect_supervisor takes up the disconnect of a desired peer.
LEMMA SupervisorReadsKeeps ==
    ASSUME IInv, NEW n \in Node, SupervisorReads(n)
    PROVE  IInv'
<1> DEFINE h == Head(events[n])
<1>0. TypeOK
  BY DEF IInv, TypeInv
<1>1. /\ n \notin lagged /\ events[n] # << >>
      /\ events' = [events EXCEPT ![n] = Tail(@)]
      /\ loops' = IF h \in desired[n]
                  THEN [loops EXCEPT ![<<n, h, 1>>] = @ + 1] ELSE loops
      /\ UNCHANGED <<at, attempt, greeted, broken, told, forget, peers, desired,
                     lagged, forgotten, calls>>
  BY DEF SupervisorReads, tableVars
<1>2. /\ events[n] \in Seq(Node \union {NoConn})
      /\ Len(events[n]) \in Nat \ {0}
      /\ h = events[n][1]
      /\ Tail(events[n]) \in Seq(Node \union {NoConn})
      /\ Len(Tail(events[n])) = Len(events[n]) - 1
      /\ \A i \in 1..(Len(events[n]) - 1) : Tail(events[n])[i] = events[n][i + 1]
  <2>1. events[n] \in Seq(Node \union {NoConn})
    BY <1>0 DEF TypeOK
  <2> DEFINE q == events[n]
  <2>2. q \in Seq(Node \union {NoConn}) /\ q # << >>
    BY <1>1, <2>1
  <2> HIDE DEF q
  <2>3. Len(q) \in Nat \ {0}
    BY <2>2, SMT
  <2>4. Head(q) = q[1]
    BY <2>2, SMT
  <2>5. Tail(q) \in Seq(Node \union {NoConn}) /\ Len(Tail(q)) = Len(q) - 1
    BY <2>2, SMT
  <2>6. \A i \in 1..(Len(q) - 1) : Tail(q)[i] = q[i + 1]
    BY <2>2, SMT
  <2> QED BY <2>1, <2>3, <2>4, <2>5, <2>6 DEF q
<1> HIDE DEF h
<1>3. /\ events' \in [Node -> Seq(Node \union {NoConn})]
      /\ events'[n] = Tail(events[n])
      /\ \A i \in Node \ {n} : events'[i] = events[i]
  BY <1>0, <1>1, <1>2 DEF TypeOK
<1>4. \A i \in Node : Len(events'[i]) <= EventBuffer
  <2>1. Len(events[n]) <= EventBuffer /\ Len(events[n]) - 1 <= EventBuffer
    BY <1>0, <1>2, TransportAssumption, SMT DEF TypeOK
  <2> QED BY <1>0, <1>2, <1>3, <2>1 DEF TypeOK
<1>5. h \in desired[n] => <<n, h, 1>> \in Loop
  BY <1>0, TransportAssumption, SMT DEF TypeOK, Loop
<1>6. /\ loops' \in [Loop -> Nat]
      /\ \A l \in Loop : loops[l] > 0 => loops'[l] > 0
      /\ h \in desired[n] => loops'[<<n, h, 1>>] > 0
  <2>1. CASE h \notin desired[n]
    BY <1>0, <1>1, <2>1 DEF TypeOK
  <2>2. CASE h \in desired[n]
    <3>1. loops' = [loops EXCEPT ![<<n, h, 1>>] = @ + 1] /\ loops \in [Loop -> Nat]
      BY <1>0, <1>1, <2>2 DEF TypeOK
    <3> QED BY <1>5, <2>2, <3>1, SMT
  <2> QED BY <2>1, <2>2
<1>7. RestOK'
  BY <1>0, <1>1, <1>3, <1>4, <1>6 DEF RestOK, TypeOK
<1>8. /\ TypeInv' /\ TableIsServed'
      /\ \A i, j \in Node : Dialing(i, j) => Dialing(i, j)'
  BY <1>0, <1>1, <1>7, StillKeeps DEF TypeOK
<1>9. ASSUME NEW i \in Node \ lagged', NEW j \in desired'[i] PROVE Pursued(i, j)'
  <2>1. j \in Node /\ Pursued(i, j) /\ j \in desired[i]
    BY <1>0, <1>1 DEF TypeOK, IInv, DesiredIsPursued
  <2>2. Sleeping(i, j) => Sleeping(i, j)'
    BY <1>6, <2>1 DEF Sleeping, Loop
  <2>3. Leaving(i, j) => Leaving(i, j)'
    BY <1>1 DEF Leaving, Table, Local, Remote
  <2>4. Waiting(i, j) => Waiting(i, j)' \/ Sleeping(i, j)'
    <3>1. CASE i # n
      BY <1>3, <3>1 DEF Waiting
    <3>2. ASSUME i = n, NEW t \in 1..Len(events[i]), events[i][t] = j
          PROVE  Waiting(i, j)' \/ Sleeping(i, j)'
      <4>1. CASE t = 1
        <5>1. h = j /\ 1 \in 1..MaxAttempts
          BY <1>2, <3>2, <4>1, TransportAssumption, SMT
        <5> QED BY <1>6, <2>1, <3>2, <5>1 DEF Sleeping
      <4>2. CASE t # 1
        <5>1. t - 1 \in 1..(Len(events[n]) - 1) /\ (t - 1) + 1 = t
          BY <1>2, <3>2, <4>2, SMT
        <5>2. events'[n][t - 1] = j /\ t - 1 \in 1..Len(events'[n])
          BY <1>2, <1>3, <3>2, <5>1
        <5> QED BY <3>2, <5>2 DEF Waiting
      <4> QED BY <4>1, <4>2
    <3> QED BY <3>1, <3>2 DEF Waiting
  <2> QED BY <1>1, <1>8, <2>1, <2>2, <2>3, <2>4 DEF Pursued, HasPeer
<1> QED BY <1>8, <1>9 DEF IInv, DesiredIsPursued

\* A reconnect_loop ends when there is nothing left to do for it.
LEMMA LoopEndsKeeps ==
    ASSUME IInv, NEW n \in Node, NEW m \in Node, NEW i \in 1..MaxAttempts,
           LoopEnds(n, m, i)
    PROVE  IInv'
<1>0. TypeOK /\ <<n, m, i>> \in Loop
  BY DEF IInv, TypeInv, Loop
<1>1. /\ loops[<<n, m, i>>] > 0
      /\ m \notin desired[n] \/ HasPeer(n, m)
      /\ loops' = [loops EXCEPT ![<<n, m, i>>] = @ - 1]
      /\ UNCHANGED <<at, attempt, greeted, broken, peers, desired, told, forget,
                     events, lagged, forgotten, calls>>
  BY DEF LoopEnds, tableVars, eventVars
<1>2. loops' \in [Loop -> Nat] /\ \A l \in Loop : l # <<n, m, i>> => loops'[l] = loops[l]
  BY <1>0, <1>1, SMT DEF TypeOK
<1>3. RestOK'
  BY <1>0, <1>1, <1>2 DEF RestOK, TypeOK
<1>4. /\ TypeInv' /\ TableIsServed'
      /\ \A a, b \in Node : Dialing(a, b) => Dialing(a, b)'
  BY <1>0, <1>1, <1>3, StillKeeps DEF TypeOK
<1>5. ASSUME NEW a \in Node \ lagged', NEW b \in desired'[a] PROVE Pursued(a, b)'
  <2>1. b \in Node /\ Pursued(a, b) /\ b \in desired[a]
    BY <1>0, <1>1 DEF TypeOK, IInv, DesiredIsPursued
  <2>2. CASE a = n /\ b = m
    BY <1>1, <2>1, <2>2 DEF Pursued, HasPeer
  <2>3. CASE ~(a = n /\ b = m)
    <3>1. Sleeping(a, b) => Sleeping(a, b)'
      BY <1>2, <2>1, <2>3 DEF Sleeping, Loop
    <3>2. Leaving(a, b) => Leaving(a, b)'
      BY <1>1 DEF Leaving, Table, Local, Remote
    <3> QED BY <1>1, <1>4, <2>1, <3>1, <3>2 DEF Pursued, HasPeer, Waiting
  <2> QED BY <2>2, <2>3
<1> QED BY <1>4, <1>5 DEF IInv, DesiredIsPursued

\* Or it dials.
LEMMA LoopDialsKeeps ==
    ASSUME IInv, NEW k \in Conn, NEW i \in 1..MaxAttempts, LoopDials(k, i)
    PROVE  IInv'
<1> DEFINE n == From[k]
           m == To[k]
<1>0. TypeOK /\ TypeInv /\ <<n, m, i>> \in Loop /\ <<k, "out">> \in End
  BY EndsOf DEF IInv, TypeInv, Loop
<1>1. /\ loops[<<n, m, i>>] > 0
      /\ loops' = [loops EXCEPT ![<<n, m, i>>] = @ - 1]
      /\ attempt' = [attempt EXCEPT ![k] = i]
      /\ UNCHANGED <<peers, desired, told, forget, events, lagged, forgotten>>
      /\ at[<<k, "out">>] = "free"
  BY DEF LoopDials, tableVars, eventVars, Out
<1>2. Moved(<<k, "out">>, "begin")
  BY <1>0, MoveOut DEF LoopDials, Early, State, TypeOK
<1>3. /\ loops' \in [Loop -> Nat]
      /\ \A l \in Loop : l # <<n, m, i>> => loops'[l] = loops[l]
  BY <1>0, <1>1, SMT DEF TypeOK
<1>4. RestOK'
  <2>1. calls' \in 0..MaxCalls
    BY <1>0, CallType DEF LoopDials
  <2>2. attempt' \in [Conn -> 0..MaxAttempts]
    BY <1>0, <1>1, TransportAssumption, SMT DEF TypeOK
  <2> QED BY <1>0, <1>1, <1>3, <2>1, <2>2 DEF RestOK, TypeOK
<1>5. TypeInv'
  BY <1>2, <1>4, TypeParts DEF Moved
<1>6. TableIsServed'
  BY <1>0, <1>1, <1>2, MovedServing DEF IInv, Serving
<1>7. ASSUME NEW a \in Node \ lagged', NEW b \in desired'[a] PROVE Pursued(a, b)'
  <2>1. b \in Node /\ Pursued(a, b)
    BY <1>0, <1>1 DEF TypeOK, IInv, DesiredIsPursued
  <2>2. CASE a = n /\ b = m
    <3>1. at'[<<k, "out">>] = "begin"
      BY <1>2 DEF Moved, Idle
    <3> QED BY <2>2, <3>1 DEF Pursued, Dialing, Out
  <2>3. CASE ~(a = n /\ b = m)
    <3>1. Sleeping(a, b) => Sleeping(a, b)'
      BY <1>3, <2>1, <2>3 DEF Sleeping, Loop
    <3>2. Leaving(a, b) => Leaving(a, b)'
      BY <1>0, <1>1, <1>2, MovedLeaving
    <3>3. Dialing(a, b) => Dialing(a, b)'
      BY <1>0, <1>1, <1>2, MovedDialing
    <3> QED BY <1>1, <2>1, <3>1, <3>2, <3>3 DEF Pursued, HasPeer, Waiting
  <2> QED BY <2>2, <2>3
<1> QED BY <1>5, <1>6, <1>7 DEF IInv, DesiredIsPursued
\* The environment cuts connections and sends other events.
LEMMA EnvironmentKeeps ==
    ASSUME IInv, (\E k \in Conn : NetBreaks(k)) \/ (\E n \in Node : OtherEvent(n))
    PROVE  IInv'
<1>0. TypeOK
  BY DEF IInv, TypeInv
<1>1. /\ UNCHANGED <<at, attempt, greeted, told, forget, peers, desired, loops, forgotten>>
      /\ broken' \subseteq Conn
      /\ Call
  BY <1>0 DEF NetBreaks, OtherEvent, tableVars, eventVars, TypeOK
<1>2. /\ events' \in [Node -> Seq(Node \union {NoConn})]
      /\ \A i \in Node : Len(events'[i]) <= EventBuffer
      /\ lagged' \subseteq Node /\ lagged \subseteq lagged'
      /\ \A n \in Node \ lagged' : \A m \in Node : Waiting(n, m) => Waiting(n, m)'
  <2>1. CASE \E k \in Conn : NetBreaks(k)
    <3>1. events' = events /\ lagged' = lagged
      BY <2>1 DEF NetBreaks, eventVars
    <3> QED BY <1>0, <3>1 DEF TypeOK, Waiting
  <2>2. CASE \E n \in Node : OtherEvent(n)
    <3>1. PICK n \in Node : Send(n, NoConn)
      BY <2>2 DEF OtherEvent
    <3> QED BY <1>0, <3>1, SendType, SendKeeps
  <2> QED BY <2>1, <2>2
<1>3. RestOK'
  BY <1>0, <1>1, <1>2, CallType DEF RestOK, TypeOK
<1>4. /\ TypeInv' /\ TableIsServed'
      /\ \A i, j \in Node : Dialing(i, j) => Dialing(i, j)'
  BY <1>0, <1>1, <1>3, StillKeeps DEF TypeOK
<1>5. ASSUME NEW i \in Node \ lagged', NEW j \in desired'[i] PROVE Pursued(i, j)'
  <2>1. j \in Node /\ Pursued(i, j)
    BY <1>0, <1>1, <1>2 DEF TypeOK, IInv, DesiredIsPursued
  <2>2. Leaving(i, j) => Leaving(i, j)'
    BY <1>1 DEF Leaving, Table, Local, Remote
  <2> QED BY <1>1, <1>2, <1>4, <2>1, <2>2 DEF Pursued, HasPeer, Sleeping
<1> QED BY <1>4, <1>5 DEF IInv, DesiredIsPursued

\* A node that restarts loses its own entries, and no other's.
LEMMA RestartKeeps ==
    ASSUME IInv, NEW r \in Node, Restart(r)
    PROVE  IInv'
<1>0. TypeOK /\ TypeInv
  BY DEF IInv, TypeInv
<1>1. /\ at' \in [End -> State] /\ greeted' \subseteq Conn
      /\ broken' \subseteq Conn /\ Fresh'
      /\ \A y \in End : (Local(y) # r /\ at[y] \notin Idle) => at'[y] = at[y]
  BY <1>0, MoveRestart
<1>2. /\ attempt' = [k \in Conn |-> IF From[k] = r THEN 0 ELSE attempt[k]]
      /\ told' \subseteq told
      /\ forget' = [p \in Pair |-> IF p[1] = r THEN "no" ELSE forget[p]]
      /\ peers' = [p \in Pair |-> IF p[1] = r THEN NoConn ELSE peers[p]]
      /\ desired' = [desired EXCEPT ![r] = {}]
      /\ loops' = [l \in Loop |-> IF l[1] = r THEN 0 ELSE loops[l]]
      /\ events' = [events EXCEPT ![r] = << >>]
      /\ lagged' = lagged \ {r}
      /\ forgotten' = {p \in forgotten : p[1] # r}
      /\ Call
  BY DEF Restart
<1>3. RestOK'
  <2>1. /\ attempt' \in [Conn -> 0..MaxAttempts] /\ loops' \in [Loop -> Nat]
    BY <1>0, <1>2, TransportAssumption, SMT DEF TypeOK
  <2>2. /\ told' \subseteq End /\ lagged' \subseteq Node
        /\ desired' \in [Node -> SUBSET Node]
    BY <1>0, <1>2 DEF TypeOK
  <2>3. /\ forget' \in [Pair -> {"no", "drop", "tell"}]
        /\ forgotten' \subseteq Pair
        /\ peers' \in [Pair -> Conn \union {NoConn}]
    BY <1>0, <1>2 DEF TypeOK
  <2>4. /\ events' \in [Node -> Seq(Node \union {NoConn})]
        /\ \A i \in Node : Len(events'[i]) <= EventBuffer
    BY <1>0, <1>2, TransportAssumption, SMT DEF TypeOK
  <2>5. calls' \in 0..MaxCalls
    BY <1>0, <1>2, CallType
  <2> QED BY <2>1, <2>2, <2>3, <2>4, <2>5 DEF RestOK
<1>4. TypeInv'
  BY <1>1, <1>3, TypeParts
<1>5. TableIsServed'
  <2>1. ASSUME NEW y \in End, at[y] \in Serving
        PROVE  at'[y] \in Serving \/ peers'[Table(y)] # y[1]
    <3>1. CASE Local(y) # r
      BY <1>1, <2>1, <3>1 DEF Serving, Idle
    <3>2. CASE Local(y) = r
      <4>1. Table(y) \in Pair /\ Table(y)[1] = r /\ y[1] \in Conn
        BY <3>2, EndFacts, SMT
      <4> QED BY <1>2, <4>1, TransportAssumption
    <3> QED BY <3>1, <3>2
  <2>2. \A p \in Pair : peers'[p] = peers[p] \/ peers'[p] = NoConn
    BY <1>2
  <2> QED BY <1>0, <2>1, <2>2, ServedFrame DEF IInv
<1>6. ASSUME NEW i \in Node \ lagged', NEW j \in desired'[i] PROVE Pursued(i, j)'
  <2>1. i # r /\ j \in desired[i] /\ j \in Node /\ i \notin lagged
    BY <1>0, <1>2 DEF TypeOK
  <2>2. Pursued(i, j)
    BY <2>1 DEF IInv, DesiredIsPursued
  <2>3. Dialing(i, j) => Dialing(i, j)'
    <3>1. ASSUME NEW k \in Conn, From[k] = i, To[k] = j,
                 at[<<k, "out">>] \in {"begin", "checked", "tcp", "made"}
          PROVE  Dialing(i, j)'
      <4>1. <<k, "out">> \in End /\ Local(<<k, "out">>) = i
        BY <3>1, EndsOf DEF Local
      <4>2. at'[<<k, "out">>] = at[<<k, "out">>]
        BY <1>1, <2>1, <3>1, <4>1 DEF Idle
      <4> QED BY <3>1, <4>2 DEF Dialing, Out
    <3> QED BY <3>1 DEF Dialing, Out
  <2>4. Leaving(i, j) => Leaving(i, j)'
    <3>1. forget'[<<i, j>>] = forget[<<i, j>>]
      BY <1>2, <2>1 DEF Pair
    <3>2. ASSUME NEW y \in End, Table(y) = <<i, j>>, at[y] = "removed"
          PROVE  at'[y] = "removed"
      BY <1>1, <2>1, <3>2, EndFacts, SMT DEF Idle
    <3> QED BY <3>1, <3>2 DEF Leaving, Table, Local, Remote
  <2>5. peers'[<<i, j>>] = peers[<<i, j>>] /\ events'[i] = events[i]
    BY <1>0, <1>2, <2>1 DEF Pair, TypeOK
  <2>6. Sleeping(i, j) => Sleeping(i, j)'
    BY <1>2, <2>1 DEF Sleeping, Loop
  <2> QED BY <2>2, <2>3, <2>4, <2>5, <2>6 DEF Pursued, HasPeer, Waiting
<1> QED BY <1>4, <1>5, <1>6 DEF IInv, DesiredIsPursued
-----------------------------------------------------------------------------
(* The theorems                                                            *)

\* At first no table has an entry and no peer is desired.
LEMMA InitIInv == Init => IInv
<1> SUFFICES ASSUME Init PROVE IInv
  OBVIOUS
<1>1. TypeInv
  BY InitTypeInv
<1>2. TableIsServed
  BY DEF Init, TableIsServed, HasPeer, Pair
<1>3. DesiredIsPursued
  BY DEF Init, DesiredIsPursued
<1> QED BY <1>1, <1>2, <1>3 DEF IInv

\* Every step of a node or of the environment keeps the invariant.
LEMMA NextIInv == IInv /\ [Next]_vars => IInv'
<1> SUFFICES ASSUME IInv, [Next]_vars PROVE IInv'
  OBVIOUS
<1>1. ASSUME NEW k \in Conn,
             \/ Connect(k) \/ DialStep(k) \/ DialFails(k)
             \/ Register(k) \/ InboundDropped(k)
      PROVE  IInv'
  BY <1>1, ConnectKeeps, DialBeginKeeps, DialWantsKeeps, TcpOpensKeeps,
     DialInsertKeeps, DialGreetsKeeps, DialReadsKeeps, DialFailsKeeps,
     RegisterKeeps, InboundDroppedKeeps DEF DialStep
<1>2. ASSUME NEW k \in Conn, NEW i \in 1..MaxAttempts, LoopDials(k, i)
      PROVE  IInv'
  BY <1>2, LoopDialsKeeps
<1>3. ASSUME NEW x \in End, ReadStep(x) PROVE IInv'
  BY <1>3, ReaderLeavesKeeps, CleanupKeeps, CleanupTellsKeeps DEF ReadStep
<1>4. ASSUME NEW n \in Node, SupervisorReads(n) \/ Restart(n) PROVE IInv'
  BY <1>4, SupervisorReadsKeeps, RestartKeeps
<1>5. ASSUME NEW n \in Node, NEW m \in Node,
             ForgetPeer(n, m) \/ ForgetDrops(n, m) \/ ForgetTells(n, m)
      PROVE  IInv'
  BY <1>5, ForgetPeerKeeps, ForgetDropsKeeps, ForgetTellsKeeps
<1>6. ASSUME NEW n \in Node, NEW m \in Node, NEW i \in 1..MaxAttempts, LoopEnds(n, m, i)
      PROVE  IInv'
  BY <1>6, LoopEndsKeeps
<1>7. CASE UNCHANGED vars
  <2> USE <1>7 DEF vars, IInv
  <2>1. TypeInv'
    BY DEF TypeInv, TypeOK, Fresh, Out, In
  <2>2. TableIsServed'
    BY DEF TableIsServed, Serving, HasPeer
  <2>3. DesiredIsPursued'
    <3> SUFFICES ASSUME NEW n \in Node \ lagged, NEW m \in desired[n]
                 PROVE  Pursued(n, m)'
      BY DEF DesiredIsPursued
    <3>1. Pursued(n, m)
      BY DEF DesiredIsPursued
    <3>2. (HasPeer(n, m) => HasPeer(n, m)') /\ (Dialing(n, m) => Dialing(n, m)')
      BY DEF HasPeer, Dialing, Out
    <3>3. (Sleeping(n, m) => Sleeping(n, m)') /\ (Leaving(n, m) => Leaving(n, m)')
      BY DEF Sleeping, Leaving
    <3>4. Waiting(n, m) => Waiting(n, m)'
      BY DEF Waiting
    <3> QED BY <3>1, <3>2, <3>3, <3>4 DEF Pursued
  <2> QED BY <2>1, <2>2, <2>3
<1> QED BY <1>1, <1>2, <1>3, <1>4, <1>5, <1>6, <1>7, EnvironmentKeeps DEF Next

\* The invariant the theorems rest on.
LEMMA AlwaysIInv == Spec => []IInv
  BY InitIInv, NextIInv, PTL DEF Spec

\* The variables of the transport keep their types, and the event queue its
\* bound, for any nodes, connections and numbers of calls.
THEOREM TransportTypeCorrect == Spec => []TypeOK
<1>1. IInv => TypeOK
  BY DEF IInv, TypeInv
<1> QED BY <1>1, AlwaysIInv, PTL

\* No entry of `peers` is ever left without a read_loop that will remove it,
\* however dials, handshakes, cleanups, forget_peer and restarts interleave.
THEOREM ServedTheorem == Spec => []TableIsServed
<1>1. IInv => TableIsServed
  BY DEF IInv
<1> QED BY <1>1, AlwaysIInv, PTL

\* A desired peer always has somebody to reconnect it, at every node whose
\* reconnect_supervisor has missed no event.
THEOREM PursuedTheorem == Spec => []DesiredIsPursued
<1>1. IInv => DesiredIsPursued
  BY DEF IInv
<1> QED BY <1>1, AlwaysIInv, PTL

\* A step that clears an entry is its own read_loop's, forget_peer's, or the
\* end of the node.
LEMMA NextCleanup == IInv /\ [Next]_vars => CleanupStep
<1> SUFFICES ASSUME IInv, [Next]_vars, NEW x \in End,
                    peers[Table(x)] = x[1], peers'[Table(x)] = NoConn
             PROVE  \/ at[x] = "closing"
                    \/ forget[Table(x)] = "drop"
                    \/ at'[x] \in {"closed", "free", "none"}
  BY DEF CleanupStep
<1>0. /\ TypeOK /\ TypeInv /\ x[1] \in Conn /\ Table(x) \in Pair
      /\ Table(x) = <<Local(x), Remote(x)>> /\ Local(x) \in Node
      /\ peers'[Table(x)] # peers[Table(x)]
  BY EndFacts, TransportAssumption DEF IInv, TypeInv
<1>1. ASSUME NEW k \in Conn, DialInsert(k) \/ Register(k) PROVE FALSE
  <2>1. k # NoConn
    BY TransportAssumption
  <2>2. \E p \in Pair : peers' = peers \/ peers' = [peers EXCEPT ![p] = k]
    BY <1>1, EndsOf DEF DialInsert, Register
  <2> QED BY <1>0, <2>1, <2>2 DEF TypeOK
<1>2. ASSUME NEW y \in End, Cleanup(y) PROVE at[x] = "closing"
  <2>1. /\ peers[Table(y)] = y[1] /\ at[y] = "closing"
        /\ peers' = [peers EXCEPT ![Table(y)] = NoConn]
    BY <1>0, <1>2 DEF Cleanup
  <2>2. Table(x) = Table(y)
    BY <1>0, <2>1 DEF TypeOK
  <2>3. x = y
    BY <2>1, <2>2, EndUnique
  <2> QED BY <2>1, <2>3
<1>3. ASSUME NEW n \in Node, NEW m \in Node, ForgetDrops(n, m)
      PROVE  forget[Table(x)] = "drop"
  <2>1. forget[<<n, m>>] = "drop" /\ peers' = [peers EXCEPT ![<<n, m>>] = NoConn]
    BY <1>3 DEF ForgetDrops
  <2> QED BY <1>0, <2>1 DEF TypeOK
<1>4. ASSUME NEW r \in Node, Restart(r)
      PROVE  at'[x] \in {"closed", "free", "none"}
  <2>1. peers' = [p \in Pair |-> IF p[1] = r THEN NoConn ELSE peers[p]]
    BY <1>4 DEF Restart
  <2>2. Local(x) = r
    BY <1>0, <2>1
  <2> DEFINE f == [y \in End |-> IF y \in {z \in End : Local(z) = r}
                                    /\ at[y] \notin {"free", "none"}
                                 THEN "closed" ELSE at[y]]
  <2>3. f[x] \in {"closed", "free", "none"}
    BY <2>2
  <2>4. Move(f, {k \in greeted : To[k] # r})
    BY <1>4 DEF Restart
  <2> HIDE DEF f
  <2> QED BY <2>3, <2>4 DEF Move
<1>5. ASSUME NEW k \in Conn,
             \/ Connect(k) \/ DialBegin(k) \/ DialWants(k) \/ TcpOpens(k)
             \/ DialGreets(k) \/ DialReads(k) \/ DialFails(k)
             \/ InboundDropped(k) \/ NetBreaks(k)
             \/ \E i \in 1..MaxAttempts : LoopDials(k, i)
      PROVE  peers' = peers
  BY <1>5 DEF Connect, DialBegin, DialWants, TcpOpens, DialGreets, DialReads,
     DialFails, InboundDropped, NetBreaks, LoopDials, tableVars
<1>6. ASSUME NEW y \in End, ReadEnds(y) \/ Notified(y) \/ CleanupTells(y)
      PROVE  peers' = peers
  BY <1>6 DEF ReadEnds, Notified, CleanupTells, tableVars
<1>7. ASSUME NEW n \in Node, SupervisorReads(n) \/ OtherEvent(n)
      PROVE  peers' = peers
  BY <1>7 DEF SupervisorReads, OtherEvent, tableVars
<1>8. ASSUME NEW n \in Node, NEW m \in Node,
             \/ ForgetPeer(n, m) \/ ForgetTells(n, m)
             \/ \E i \in 1..MaxAttempts : LoopEnds(n, m, i)
      PROVE  peers' = peers
  BY <1>8 DEF ForgetPeer, ForgetTells, LoopEnds, tableVars
<1>9. CASE UNCHANGED vars
  BY <1>0, <1>9 DEF vars
<1> QED BY <1>0, <1>1, <1>2, <1>3, <1>4, <1>5, <1>6, <1>7, <1>8, <1>9
        DEF Next, DialStep, ReadStep

\* The cleanup of a stale connection never evicts the one that replaced it.
THEOREM OwnCleanupTheorem == Spec => OwnCleanupOnly
  BY AlwaysIInv, NextCleanup, PTL DEF Spec, OwnCleanupOnly

\* Move only sends an end where f says, or back to its first state.
LEMMA MoveSends ==
    ASSUME NEW STATE f, NEW STATE g, Move(f, g), NEW x \in End
    PROVE  at'[x] = f[x] \/ at'[x] \in {"free", "none"}
  BY DEF Move

\* A step that makes no end of p's connections begin a dial, and p's peer not
\* desired, leaves p at rest.
LEMMA RestFrame ==
    ASSUME NEW p \in Pair, AtRest(p), p \in forgotten',
           p[2] \notin desired'[p[1]],
           \A k \in Conn : <<From[k], To[k]>> = p =>
               \/ at'[<<k, "out">>] = at[<<k, "out">>]
               \/ at'[<<k, "out">>] \notin {"begin", "checked"}
    PROVE  AtRest(p)'
  BY DEF AtRest, Out

\* A step of one end x of a connection.
LEMMA RestMove ==
    ASSUME TypeOK, NEW p \in Pair, AtRest(p), p \in forgotten',
           p[2] \notin desired'[p[1]],
           NEW x \in End, NEW s \in State, NEW STATE g,
           Move([at EXCEPT ![x] = s], g),
           \/ s \notin {"begin", "checked"}
           \/ <<From[x[1]], To[x[1]]>> # p
    PROVE  AtRest(p)'
<1> DEFINE f == [at EXCEPT ![x] = s]
<1>1. ASSUME NEW k \in Conn, <<From[k], To[k]>> = p
      PROVE  \/ f[<<k, "out">>] = at[<<k, "out">>]
             \/ f[<<k, "out">>] \notin {"begin", "checked"}
  BY <1>1, EndsOf, EndFacts DEF TypeOK
<1>2. \A k \in Conn : \/ at'[<<k, "out">>] = f[<<k, "out">>]
                      \/ at'[<<k, "out">>] \in {"free", "none"}
  BY MoveSends, EndsOf
<1> HIDE DEF f
<1> QED BY <1>1, <1>2, RestFrame

\* A forgotten peer at rest stays at rest until connect() asks for it again.
LEMMA NextForget == IInv /\ [Next]_vars => ForgetStep
<1> SUFFICES ASSUME IInv, [Next]_vars, NEW p \in Pair, AtRest(p), p \in forgotten'
             PROVE  AtRest(p)'
  BY DEF ForgetStep
<1>0. /\ TypeOK /\ p[1] \in Node /\ p[2] \in Node /\ p[2] \notin desired[p[1]]
      /\ p = <<p[1], p[2]>>
  BY SMT DEF IInv, TypeInv, AtRest, Pair
<1>1. ASSUME NEW k \in Conn, Connect(k) PROVE AtRest(p)'
  <2>1. <<From[k], To[k]>> # p
    BY <1>1 DEF Connect
  <2>2. desired' = desired /\ Move([at EXCEPT ![<<k, "out">>] = "begin"], greeted)
    BY <1>1 DEF Connect, tableVars
  <2> QED BY <1>0, <2>1, <2>2, RestMove, EndsOf DEF State
<1>2. ASSUME NEW k \in Conn, DialBegin(k) PROVE AtRest(p)'
  <2>1. <<From[k], To[k]>> # p
    BY <1>2 DEF DialBegin, AtRest
  <2>2. PICK s \in {"closed", "checked"} : Move([at EXCEPT ![<<k, "out">>] = s], greeted)
    BY <1>2 DEF DialBegin
  <2>3. desired' = desired
    BY <1>2 DEF DialBegin, tableVars
  <2> QED BY <1>0, <2>1, <2>2, <2>3, RestMove, EndsOf DEF State
<1>3. ASSUME NEW k \in Conn, DialWants(k) PROVE AtRest(p)'
  <2>1. <<From[k], To[k]>> # p
    BY <1>3 DEF DialWants, AtRest
  <2>2. /\ Move([at EXCEPT ![<<k, "out">>] = "tcp"], greeted)
        /\ desired' = [desired EXCEPT ![From[k]] = @ \union {To[k]}]
    BY <1>3 DEF DialWants
  <2>3. p[2] \notin desired'[p[1]]
    BY <1>0, <2>1, <2>2, EndsOf DEF TypeOK
  <2> QED BY <1>0, <2>2, <2>3, RestMove, EndsOf DEF State
<1>4. ASSUME NEW k \in Conn, NEW i \in 1..MaxAttempts, LoopDials(k, i)
      PROVE  AtRest(p)'
  <2>1. <<From[k], To[k]>> # p
    BY <1>0, <1>4, SMT DEF LoopDials
  <2>2. desired' = desired /\ Move([at EXCEPT ![<<k, "out">>] = "begin"], greeted)
    BY <1>4 DEF LoopDials, tableVars
  <2> QED BY <1>0, <2>1, <2>2, RestMove, EndsOf DEF State
<1>5. ASSUME NEW k \in Conn, TcpOpens(k) PROVE AtRest(p)'
  <2> DEFINE f == [at EXCEPT ![<<k, "out">>] = "made", ![<<k, "in">>] = "handshake"]
  <2>1. desired' = desired /\ Move(f, greeted)
    BY <1>5 DEF TcpOpens, tableVars
  <2>2. \A j \in Conn : \/ f[<<j, "out">>] = at[<<j, "out">>]
                        \/ f[<<j, "out">>] \notin {"begin", "checked"}
    BY <1>0, EndsOf DEF TypeOK
  <2> HIDE DEF f
  <2>3. \A j \in Conn : \/ at'[<<j, "out">>] = f[<<j, "out">>]
                        \/ at'[<<j, "out">>] \in {"free", "none"}
    BY <2>1, MoveSends, EndsOf
  <2> QED BY <1>0, <2>1, <2>2, <2>3, RestFrame
<1>6. ASSUME NEW k \in Conn, DialFails(k) PROVE AtRest(p)'
  <2>1. /\ Move([at EXCEPT ![<<k, "out">>] = "closed"], greeted)
        /\ \/ desired' = desired
           \/ desired' = [desired EXCEPT ![From[k]] = @ \ {To[k]}]
    BY <1>6 DEF DialFails
  <2>2. p[2] \notin desired'[p[1]]
    <3>1. desired'[p[1]] \subseteq desired[p[1]]
      <4>1. CASE desired' = desired
        BY <4>1
      <4>2. CASE desired' = [desired EXCEPT ![From[k]] = @ \ {To[k]}]
        BY <1>0, <4>2, EndsOf DEF TypeOK
      <4> QED BY <2>1, <4>1, <4>2
    <3> QED BY <1>0, <3>1
  <2> QED BY <1>0, <2>1, <2>2, RestMove, EndsOf DEF State
<1>7. ASSUME NEW k \in Conn,
             DialInsert(k) \/ DialGreets(k) \/ DialReads(k)
      PROVE  AtRest(p)'
  <2>1. desired' = desired
    BY <1>7 DEF DialInsert, DialGreets, DialReads, tableVars
  <2>2. \E s \in {"closed", "inserted", "greeted", "reading"} :
            \E g \in {greeted, greeted \union {k}} :
                Move([at EXCEPT ![<<k, "out">>] = s], g)
    BY <1>7 DEF DialInsert, DialGreets, DialReads
  <2> QED BY <1>0, <2>1, <2>2, RestMove, EndsOf DEF State
<1>8. ASSUME NEW k \in Conn, Register(k) \/ InboundDropped(k) PROVE AtRest(p)'
  <2>1. desired' = desired
    BY <1>8 DEF Register, InboundDropped, tableVars
  <2>2. \E s \in {"closed", "reading"} :
            Move([at EXCEPT ![<<k, "in">>] = s], greeted \ {k})
    BY <1>8 DEF Register, InboundDropped
  <2> QED BY <1>0, <2>1, <2>2, RestMove, EndsOf DEF State
<1>9. ASSUME NEW x \in End, ReadStep(x) PROVE AtRest(p)'
  <2>1. desired' = desired
    BY <1>9 DEF ReadStep, ReadEnds, Notified, Cleanup, CleanupTells, tableVars
  <2>2. \E s \in {"closing", "removed", "closed"} :
            Move([at EXCEPT ![x] = s], greeted)
    BY <1>9 DEF ReadStep, ReadEnds, Notified, Cleanup, CleanupTells
  <2> QED BY <1>0, <2>1, <2>2, RestMove DEF State
<1>10. ASSUME NEW n \in Node, Restart(n) PROVE AtRest(p)'
  <2> DEFINE f == [x \in End |-> IF x \in {y \in End : Local(y) = n}
                                    /\ at[x] \notin {"free", "none"}
                                 THEN "closed" ELSE at[x]]
  <2>1. Move(f, {k \in greeted : To[k] # n})
    BY <1>10 DEF Restart
  <2>2. p[2] \notin desired'[p[1]]
    BY <1>0, <1>10 DEF Restart, TypeOK
  <2>3. \A j \in Conn : \/ f[<<j, "out">>] = at[<<j, "out">>]
                        \/ f[<<j, "out">>] \notin {"begin", "checked"}
    BY EndsOf
  <2> HIDE DEF f
  <2>4. \A j \in Conn : \/ at'[<<j, "out">>] = f[<<j, "out">>]
                        \/ at'[<<j, "out">>] \in {"free", "none"}
    BY <2>1, MoveSends, EndsOf
  <2> QED BY <2>2, <2>3, <2>4, RestFrame
<1>11. ASSUME NEW n \in Node, NEW m \in Node, ForgetPeer(n, m) PROVE AtRest(p)'
  <2>1. at' = at /\ desired' = [desired EXCEPT ![n] = @ \ {m}]
    BY <1>11 DEF ForgetPeer
  <2>2. p[2] \notin desired'[p[1]]
    BY <1>0, <2>1 DEF TypeOK
  <2> QED BY <2>1, <2>2, RestFrame
<1>12. CASE at' = at /\ desired' = desired
  BY <1>0, <1>12, RestFrame
<1>13. ASSUME NEW k \in Conn, NetBreaks(k) PROVE at' = at /\ desired' = desired
  BY <1>13 DEF NetBreaks, tableVars
<1>14. ASSUME NEW n \in Node, SupervisorReads(n) \/ OtherEvent(n)
       PROVE  at' = at /\ desired' = desired
  BY <1>14 DEF SupervisorReads, OtherEvent, tableVars
<1>15. ASSUME NEW n \in Node, NEW m \in Node,
              \/ ForgetDrops(n, m) \/ ForgetTells(n, m)
              \/ \E i \in 1..MaxAttempts : LoopEnds(n, m, i)
       PROVE  at' = at /\ desired' = desired
  BY <1>15 DEF ForgetDrops, ForgetTells, LoopEnds, tableVars
<1>16. ASSUME UNCHANGED vars PROVE at' = at /\ desired' = desired
  BY <1>16 DEF vars
<1> QED BY <1>1, <1>2, <1>3, <1>4, <1>5, <1>6, <1>7, <1>8, <1>9, <1>10, <1>11,
           <1>12, <1>13, <1>14, <1>15, <1>16 DEF Next, DialStep

\* A forgotten peer with no dial under way is neither dialed nor desired again
\* until connect() is called.
THEOREM ForgetTheorem == Spec => ForgetSticks
  BY AlwaysIInv, NextForget, PTL DEF Spec, ForgetSticks
-----------------------------------------------------------------------------
(* Where the tables come to rest                                           *)

\* An outbound end that has sent its handshake and is not closed.
Greeting == {"greeted", "reading", "closing", "removed"}

\* The states of an inbound end.
Inbound == {"none", "handshake", "reading", "closing", "removed", "closed"}

\* The two ends of a connection fit together: it is accepted when it opens,
\* the handshake an inbound end waits for is in flight once it was sent, and
\* nothing is left of a connection that both ends closed.
Coupled ==
    \A k \in Conn :
        /\ In(k) \in Inbound
        /\ In(k) = "none" => Out(k) \in Early
        /\ In(k) = "closed" => Out(k) # "closed"
        /\ (In(k) = "handshake" /\ Out(k) \in Greeting) => k \in greeted

\* No task of a connection has a step to take: no dial is under way, no inbound
\* end has a handshake or an end of file to read, no read_loop is on its way
\* out or has anything that makes it leave.
Settled ==
    /\ \A k \in Conn : Out(k) \in {"free", "reading", "closed"}
    /\ \A k \in Conn : In(k) = "handshake" =>
          k \notin greeted /\ k \notin broken /\ Out(k) # "closed"
    /\ \A x \in End : at[x] \notin {"closing", "removed"}
    /\ \A x \in End : at[x] = "reading" => ~Silent(x) /\ x \notin told

\* Both ends of k read, and both nodes use it.
InUse(k) ==
    /\ Out(k) = "reading" /\ In(k) = "reading"
    /\ peers[<<From[k], To[k]>>] = k /\ peers[<<To[k], From[k]>>] = k

\* Two nodes whose connections have come to rest list the same connection for
\* each other, or none; and there are no others: each connection that is left
\* is in use on both sides.
SettledTablesAgree ==
    Settled =>
        /\ \A n, m \in Node : peers[<<n, m>>] = peers[<<m, n>>]
        /\ \A k \in Conn : InUse(k) \/ (Out(k) = "free" /\ In(k) = "none")

\* What Move makes of ends that fit together, closed ones aside.
LEMMA MoveCoupled ==
    ASSUME NEW STATE f, NEW STATE g, Move(f, g),
           \A k \in Conn :
               /\ f[<<k, "in">>] \in Inbound
               /\ f[<<k, "in">>] = "none" => f[<<k, "out">>] \in Early \union {"closed"}
               /\ (f[<<k, "in">>] = "handshake" /\ f[<<k, "out">>] \in Greeting) => k \in g
    PROVE  Coupled'
<1> SUFFICES ASSUME NEW k \in Conn
             PROVE  /\ at'[<<k, "in">>] \in Inbound
                    /\ at'[<<k, "in">>] = "none" => at'[<<k, "out">>] \in Early
                    /\ at'[<<k, "in">>] = "closed" => at'[<<k, "out">>] # "closed"
                    /\ (at'[<<k, "in">>] = "handshake" /\ at'[<<k, "out">>] \in Greeting)
                          => k \in greeted'
  BY DEF Coupled, In, Out
<1>1. CASE k \in Dead(f)
  <2>1. at'[<<k, "out">>] = "free" /\ at'[<<k, "in">>] = "none"
    BY <1>1, EndsOf DEF Move
  <2> QED BY <2>1 DEF Early, Inbound
<1>2. CASE k \notin Dead(f)
  <2>1. at'[<<k, "out">>] = f[<<k, "out">>] /\ at'[<<k, "in">>] = f[<<k, "in">>]
    BY <1>2, EndsOf DEF Move
  <2>2. f[<<k, "in">>] \in {"none", "closed"} => f[<<k, "out">>] # "closed"
    BY <1>2 DEF Dead
  <2>3. k \in g => k \in greeted'
    BY <1>2 DEF Move
  <2> QED BY <2>1, <2>2, <2>3
<1> QED BY <1>1, <1>2

\* A step of an outbound end.
LEMMA CoupledOut ==
    ASSUME TypeOK, Coupled, NEW k \in Conn, NEW s \in State, NEW STATE g,
           Move([at EXCEPT ![<<k, "out">>] = s], g), greeted \subseteq g,
           In(k) = "none" => s \in Early \union {"closed"},
           (In(k) = "handshake" /\ s \in Greeting) => Out(k) \in Greeting \/ k \in g
    PROVE  Coupled'
<1> DEFINE f == [at EXCEPT ![<<k, "out">>] = s]
<1>1. f[<<k, "out">>] = s /\ f[<<k, "in">>] = In(k)
  BY EndsOf DEF TypeOK, In
<1>2. \A j \in Conn \ {k} : f[<<j, "out">>] = Out(j) /\ f[<<j, "in">>] = In(j)
  BY EndsOf DEF TypeOK, In, Out
<1>3. Move(f, g)
  OBVIOUS
<1> HIDE DEF f
<1>4. ASSUME NEW j \in Conn
      PROVE  /\ f[<<j, "in">>] \in Inbound
             /\ f[<<j, "in">>] = "none" => f[<<j, "out">>] \in Early \union {"closed"}
             /\ (f[<<j, "in">>] = "handshake" /\ f[<<j, "out">>] \in Greeting) => j \in g
  <2>1. CASE j = k
    BY <1>1, <2>1 DEF Coupled
  <2>2. CASE j # k
    BY <1>2, <2>2 DEF Coupled
  <2> QED BY <2>1, <2>2
<1> QED BY <1>3, <1>4, MoveCoupled

\* A step of an inbound end.
LEMMA CoupledIn ==
    ASSUME TypeOK, Coupled, NEW k \in Conn, NEW s \in Inbound \ {"none", "handshake"}, NEW STATE g,
           Move([at EXCEPT ![<<k, "in">>] = s], g), greeted \ {k} \subseteq g
    PROVE  Coupled'
<1> DEFINE f == [at EXCEPT ![<<k, "in">>] = s]
<1>1. f[<<k, "in">>] = s
  BY EndsOf DEF TypeOK
<1>2. \A j \in Conn \ {k} : f[<<j, "out">>] = Out(j) /\ f[<<j, "in">>] = In(j)
  BY EndsOf DEF TypeOK, In, Out
<1>3. Move(f, g)
  OBVIOUS
<1> HIDE DEF f
<1>4. ASSUME NEW j \in Conn
      PROVE  /\ f[<<j, "in">>] \in Inbound
             /\ f[<<j, "in">>] = "none" => f[<<j, "out">>] \in Early \union {"closed"}
             /\ (f[<<j, "in">>] = "handshake" /\ f[<<j, "out">>] \in Greeting) => j \in g
  <2>1. CASE j = k
    BY <1>1, <2>1
  <2>2. CASE j # k
    BY <1>2, <2>2 DEF Coupled
  <2> QED BY <2>1, <2>2
<1> QED BY <1>3, <1>4, MoveCoupled

\* The step of a read_loop, at either end.
LEMMA CoupledReader ==
    ASSUME TypeOK, Coupled, NEW x \in End, at[x] \in {"reading", "closing", "removed"},
           NEW s \in {"closing", "removed", "closed"}, Move([at EXCEPT ![x] = s], greeted)
    PROVE  Coupled'
<1>1. PICK k \in Conn : x = <<k, "out">> \/ x = <<k, "in">>
  BY EndFacts
<1>2. CASE x = <<k, "out">>
  <2>1. Out(k) \in Greeting /\ Out(k) \notin Early
    BY <1>2 DEF Out, Greeting, Early
  <2> QED BY <1>2, <2>1, CoupledOut DEF Coupled, State
<1>3. CASE x = <<k, "in">>
  BY <1>3, CoupledIn DEF Inbound
<1> QED BY <1>1, <1>2, <1>3

\* A step that leaves the sockets alone.
LEMMA CoupledFrame ==
    ASSUME Coupled, UNCHANGED <<at, greeted>>
    PROVE  Coupled'
  BY DEF Coupled, In, Out

\* A stream opens, and is accepted with it.
LEMMA TcpOpensCoupled ==
    ASSUME TypeOK, Coupled, NEW k \in Conn, TcpOpens(k)
    PROVE  Coupled'
<1> DEFINE f == [at EXCEPT ![<<k, "out">>] = "made", ![<<k, "in">>] = "handshake"]
<1>1. f[<<k, "out">>] = "made" /\ f[<<k, "in">>] = "handshake"
  BY EndsOf DEF TypeOK
<1>2. \A j \in Conn \ {k} : f[<<j, "out">>] = Out(j) /\ f[<<j, "in">>] = In(j)
  BY EndsOf DEF TypeOK, In, Out
<1>3. Move(f, greeted)
  BY DEF TcpOpens
<1> HIDE DEF f
<1>4. ASSUME NEW j \in Conn
      PROVE  /\ f[<<j, "in">>] \in Inbound
             /\ f[<<j, "in">>] = "none" => f[<<j, "out">>] \in Early \union {"closed"}
             /\ (f[<<j, "in">>] = "handshake" /\ f[<<j, "out">>] \in Greeting) => j \in greeted
  <2>1. CASE j = k
    BY <1>1, <2>1 DEF Greeting, Inbound
  <2>2. CASE j # k
    BY <1>2, <2>2 DEF Coupled
  <2> QED BY <2>1, <2>2
<1> QED BY <1>3, <1>4, MoveCoupled

\* A node stops: its own ends close, and with them the frames it has not read.
LEMMA RestartCoupled ==
    ASSUME TypeOK, Coupled, NEW n \in Node, Restart(n)
    PROVE  Coupled'
<1> DEFINE f == [x \in End |-> IF x \in {y \in End : Local(y) = n}
                                  /\ at[x] \notin {"free", "none"}
                               THEN "closed" ELSE at[x]]
           g == {k \in greeted : To[k] # n}
<1>1. ASSUME NEW x \in End
      PROVE  \/ f[x] = at[x] /\ (Local(x) = n => at[x] \in {"free", "none"})
             \/ f[x] = "closed" /\ at[x] \notin {"free", "none"}
  OBVIOUS
<1>2. Move(f, g)
  BY DEF Restart
<1> HIDE DEF f
<1>3. ASSUME NEW j \in Conn
      PROVE  /\ f[<<j, "in">>] \in Inbound
             /\ f[<<j, "in">>] = "none" => f[<<j, "out">>] \in Early \union {"closed"}
             /\ (f[<<j, "in">>] = "handshake" /\ f[<<j, "out">>] \in Greeting) => j \in g
  <2>1. f[<<j, "out">>] = Out(j) \/ f[<<j, "out">>] = "closed"
    BY <1>1, EndsOf DEF Out
  <2>2. f[<<j, "in">>] # "closed" =>
           f[<<j, "in">>] = In(j) /\ (To[j] = n => In(j) \in {"free", "none"})
    <3>1. Local(<<j, "in">>) = To[j]
      BY DEF Local
    <3> QED BY <1>1, <3>1, EndsOf DEF In
  <2>3. f[<<j, "in">>] = "none" => f[<<j, "out">>] \in Early \union {"closed"}
    BY <2>1, <2>2 DEF Coupled
  <2>4. ASSUME f[<<j, "in">>] = "handshake", f[<<j, "out">>] \in Greeting PROVE j \in g
    <3>1. In(j) = "handshake" /\ To[j] # n
      BY <2>2, <2>4
    <3>2. Out(j) \in Greeting
      BY <2>1, <2>4 DEF Greeting
    <3> QED BY <3>1, <3>2 DEF Coupled
  <2>5. f[<<j, "in">>] \in Inbound
    BY <2>2 DEF Coupled, Inbound
  <2> QED BY <2>3, <2>4, <2>5
<1> QED BY <1>2, <1>3, MoveCoupled

\* Every step keeps the ends of a connection coupled.
LEMMA NextCoupled == TypeOK /\ Coupled /\ [Next]_vars => Coupled'
<1> SUFFICES ASSUME TypeOK, Coupled, [Next]_vars PROVE Coupled'
  OBVIOUS
<1>1. ASSUME NEW k \in Conn, Connect(k) \/ \E i \in 1..MaxAttempts : LoopDials(k, i)
      PROVE  Coupled'
  <2>1. Move([at EXCEPT ![<<k, "out">>] = "begin"], greeted)
    BY <1>1 DEF Connect, LoopDials
  <2> QED BY <2>1, CoupledOut DEF State, Early, Greeting
<1>2. ASSUME NEW k \in Conn, DialBegin(k) \/ DialWants(k) PROVE Coupled'
  <2>1. PICK s \in {"closed", "checked", "tcp"} : Move([at EXCEPT ![<<k, "out">>] = s], greeted)
    BY <1>2 DEF DialBegin, DialWants
  <2> QED BY <2>1, CoupledOut DEF State, Early, Greeting
<1>3. ASSUME NEW k \in Conn, TcpOpens(k) PROVE Coupled'
  BY <1>3, TcpOpensCoupled
<1>4. ASSUME NEW k \in Conn, DialFails(k) PROVE Coupled'
  <2>1. Move([at EXCEPT ![<<k, "out">>] = "closed"], greeted)
    BY <1>4 DEF DialFails
  <2> QED BY <2>1, CoupledOut DEF State, Early, Greeting
<1>5. ASSUME NEW k \in Conn, DialInsert(k) PROVE Coupled'
  <2>1. PICK s \in {"closed", "inserted"} : Move([at EXCEPT ![<<k, "out">>] = s], greeted)
    BY <1>5 DEF DialInsert
  <2>2. In(k) # "none"
    BY <1>5 DEF DialInsert, Coupled, Early
  <2> QED BY <2>1, <2>2, CoupledOut DEF State, Greeting
<1>6. ASSUME NEW k \in Conn, DialGreets(k) PROVE Coupled'
  <2>1. PICK g : /\ Move([at EXCEPT ![<<k, "out">>] = "greeted"], g)
                 /\ g = IF In(k) = "handshake" THEN greeted \union {k} ELSE greeted
    BY <1>6 DEF DialGreets
  <2>2. In(k) # "none"
    BY <1>6 DEF DialGreets, Coupled, Early
  <2> QED BY <1>6, <2>2, CoupledOut DEF DialGreets, State
<1>7. ASSUME NEW k \in Conn, DialReads(k) PROVE Coupled'
  <2>1. Move([at EXCEPT ![<<k, "out">>] = "reading"], greeted)
    BY <1>7 DEF DialReads
  <2>2. In(k) # "none" /\ Out(k) \in Greeting
    BY <1>7 DEF DialReads, Coupled, Early, Greeting
  <2> QED BY <2>1, <2>2, CoupledOut DEF State
<1>8. ASSUME NEW k \in Conn, Register(k) \/ InboundDropped(k) PROVE Coupled'
  <2>1. PICK s \in {"closed", "reading"} : Move([at EXCEPT ![<<k, "in">>] = s], greeted \ {k})
    BY <1>8 DEF Register, InboundDropped
  <2> QED BY <2>1, CoupledIn DEF Inbound
<1>9. ASSUME NEW x \in End, ReadStep(x) PROVE Coupled'
  <2>1. /\ at[x] \in {"reading", "closing", "removed"}
        /\ \E s \in {"closing", "removed", "closed"} : Move([at EXCEPT ![x] = s], greeted)
    BY <1>9 DEF ReadStep, ReadEnds, Notified, Cleanup, CleanupTells
  <2> QED BY <2>1, CoupledReader
<1>10. ASSUME NEW n \in Node, Restart(n) PROVE Coupled'
  BY <1>10, RestartCoupled
<1>11. ASSUME NEW k \in Conn, NetBreaks(k) PROVE Coupled'
  BY <1>11, CoupledFrame DEF NetBreaks
<1>12. ASSUME NEW n \in Node, SupervisorReads(n) \/ OtherEvent(n) PROVE Coupled'
  BY <1>12, CoupledFrame DEF SupervisorReads, OtherEvent
<1>13. ASSUME NEW n \in Node, NEW m \in Node,
              \/ ForgetPeer(n, m) \/ ForgetDrops(n, m) \/ ForgetTells(n, m)
              \/ \E i \in 1..MaxAttempts : LoopEnds(n, m, i)
       PROVE  Coupled'
  BY <1>13, CoupledFrame DEF ForgetPeer, ForgetDrops, ForgetTells, LoopEnds
<1>14. CASE UNCHANGED vars
  BY <1>14, CoupledFrame DEF vars
<1> QED
  BY <1>1, <1>2, <1>3, <1>4, <1>5, <1>6, <1>7, <1>8, <1>9, <1>10, <1>11, <1>12,
     <1>13, <1>14 DEF Next, DialStep

\* A reading end of a settled state has a reading other end, and that one is
\* listed: the handshake would have been read, a closed end noticed.
LEMMA SettledReads ==
    ASSUME TypeInv, Coupled, Settled, NEW x \in End, at[x] = "reading"
    PROVE  at[Other(x)] = "reading" /\ peers[Table(Other(x))] = x[1]
<1>1. PICK k \in Conn : x[1] = k /\ (x = <<k, "out">> \/ x = <<k, "in">>)
  BY EndFacts
<1>2. at[Other(x)] # "closed" /\ (at[Other(x)] = "reading" => peers[Table(Other(x))] = k)
  BY <1>1 DEF Settled, Silent
<1>3. CASE x = <<k, "out">>
  <2>1. Other(x) = <<k, "in">> /\ Out(k) = "reading"
    BY <1>3 DEF Other, Out
  <2>2. In(k) # "none" /\ (In(k) = "handshake" => k \in greeted)
    BY <2>1 DEF Coupled, Early, Greeting
  <2>3. In(k) \notin {"handshake", "closing", "removed", "closed", "none"}
    BY <1>2, <2>1, <2>2, EndsOf DEF Settled, In
  <2>4. In(k) = "reading"
    BY <2>3 DEF Coupled, Inbound
  <2> QED BY <1>1, <1>2, <2>1, <2>4 DEF In
<1>4. CASE x = <<k, "in">>
  <2>1. Other(x) = <<k, "out">> /\ In(k) = "reading"
    BY <1>4 DEF Other, In
  <2>2. Out(k) \notin Early
    BY <2>1 DEF TypeInv, Fresh
  <2>3. Out(k) = "reading"
    BY <1>2, <2>1, <2>2 DEF Settled, Early, Out
  <2> QED BY <1>1, <1>2, <2>1, <2>3 DEF Out
<1> QED BY <1>1, <1>3, <1>4

\* In a settled state every connection is in use or gone.
LEMMA SettledConnections ==
    ASSUME TypeInv, Coupled, Settled, NEW k \in Conn
    PROVE  InUse(k) \/ (Out(k) = "free" /\ In(k) = "none")
<1>0. /\ <<k, "out">> \in End /\ <<k, "in">> \in End
      /\ Other(<<k, "out">>) = <<k, "in">> /\ Other(<<k, "in">>) = <<k, "out">>
      /\ Table(<<k, "out">>) = <<From[k], To[k]>> /\ Table(<<k, "in">>) = <<To[k], From[k]>>
  BY EndsOf DEF Other
<1>1. CASE Out(k) = "reading" \/ In(k) = "reading"
  <2>1. Out(k) = "reading" /\ In(k) = "reading"
    BY <1>0, <1>1, SettledReads DEF Out, In
  <2>2. peers[<<To[k], From[k]>>] = k
    <3>1. peers[Table(Other(<<k, "out">>))] = <<k, "out">>[1]
      BY <1>0, <2>1, SettledReads DEF Out
    <3> QED BY <1>0, <3>1
  <2>3. peers[<<From[k], To[k]>>] = k
    <3>1. peers[Table(Other(<<k, "in">>))] = <<k, "in">>[1]
      BY <1>0, <2>1, SettledReads DEF In
    <3> QED BY <1>0, <3>1
  <2> QED BY <2>1, <2>2, <2>3 DEF InUse
<1>2. CASE Out(k) = "free"
  BY <1>2 DEF TypeInv, Fresh, Early
<1>3. CASE Out(k) = "closed" /\ In(k) # "reading"
  <2>1. In(k) \in {"none", "closed"}
    BY <1>0, <1>3 DEF Coupled, Inbound, Settled, In
  <2> QED BY <1>3, <2>1 DEF Coupled, Early
<1> QED BY <1>1, <1>2, <1>3 DEF Settled

\* In a settled state two nodes list the same connection.
LEMMA SettledAgree ==
    ASSUME TypeInv, TableIsServed, Coupled, Settled, NEW n \in Node, NEW m \in Node, HasPeer(n, m)
    PROVE  peers[<<m, n>>] = peers[<<n, m>>]
<1>1. PICK x \in End : x[1] = peers[<<n, m>>] /\ Table(x) = <<n, m>> /\ at[x] \in Serving
  BY DEF TableIsServed
<1>2. at[x] = "reading"
  <2>1. PICK k \in Conn : x = <<k, "out">> \/ x = <<k, "in">>
    BY EndFacts
  <2>2. x = <<k, "out">> => at[x] \in {"free", "reading", "closed"}
    BY DEF Settled, Out
  <2>3. x = <<k, "in">> => at[x] \in Inbound
    BY DEF Coupled, In
  <2>4. at[x] \notin {"closing", "removed"}
    BY DEF Settled
  <2> QED BY <1>1, <2>1, <2>2, <2>3, <2>4 DEF Serving, Inbound
<1>3. peers[Table(Other(x))] = x[1]
  BY <1>2, SettledReads
<1>4. Table(Other(x)) = <<m, n>>
  BY <1>1, EndFacts, SMT DEF Table, Local, Remote, Other
<1> QED BY <1>1, <1>3, <1>4

\* The safe half of TablesAgree and of SupersededCloses, for any nodes and
\* connections and whatever dials crossed, broke or were forgotten: once the
\* dials, handshakes and read_loops have nothing left to do, the peer tables of
\* any two nodes agree, and no connection is open that they do not use.
THEOREM SettledTheorem == Spec => []SettledTablesAgree
<1>1. Init => Coupled
  <2> SUFFICES ASSUME Init, NEW k \in Conn PROVE Out(k) = "free" /\ In(k) = "none"
    BY DEF Coupled, Inbound, Early
  <2> QED BY EndsOf DEF Init, In, Out
<1>2. IInv /\ Coupled /\ [Next]_vars => Coupled'
  BY NextCoupled DEF IInv, TypeInv
<1>3. IInv /\ Coupled => SettledTablesAgree
  <2> SUFFICES ASSUME IInv, Coupled, Settled
               PROVE  /\ \A n, m \in Node : peers[<<n, m>>] = peers[<<m, n>>]
                      /\ \A k \in Conn : InUse(k) \/ (Out(k) = "free" /\ In(k) = "none")
    BY DEF SettledTablesAgree
  <2>1. ASSUME NEW n \in Node, NEW m \in Node PROVE peers[<<n, m>>] = peers[<<m, n>>]
    <3>1. HasPeer(n, m) \/ HasPeer(m, n) => peers[<<n, m>>] = peers[<<m, n>>]
      BY SettledAgree DEF IInv
    <3> QED BY <3>1 DEF HasPeer
  <2>2. \A k \in Conn : InUse(k) \/ (Out(k) = "free" /\ In(k) = "none")
    BY SettledConnections DEF IInv
  <2> QED BY <2>1, <2>2
<1> QED BY <1>1, <1>2, <1>3, AlwaysIInv, PTL DEF Spec

=============================================================================
