--------------------------- MODULE DirectoryProofs ---------------------------
(***************************************************************************)
(* The replicated directories, for every number of nodes and owners and    *)
(* any order of events and data.                                           *)
(***************************************************************************)
EXTENDS Directory, FiniteSetTheorems, TLAPS

\* Most leaves are first-order: only those that say so go to the SMT solver.
USE Zenon

\* What node n queues and sends: only a release of an owner of its own ...
Task(n) == {t \in Send : t.op = "leave" => Home[t.o] = n}
\* ... and, for a name, at most one owner.
Msg(d, p) ==
    {m \in Message :
        /\ m.op = "leave" => Home[m.o] = p[1]
        /\ (d = "name" /\ m.op = "snapshot") => \A o, q \in m.all : o = q}
Ev(n) == {e \in Event : e.peer # n}

\* The tables, and the rest of the state.
TablesOK ==
    /\ table \in [Dir -> [Node -> SUBSET Owner]]
    /\ \A n \in Node, d \in Dir \cap {"name"} : \A o, p \in table[d][n] : o = p
    /\ owned \in [Dir -> SUBSET Owner]
TasksOK == tasks \in [Node -> Seq(Send)] /\ \A n \in Node : tasks[n] \in Seq(Task(n))
WireOK ==
    /\ wire \in [Dir -> [Pair -> Seq(Message)]]
    /\ \A d \in Dir, p \in Pair : wire[d][p] \in Seq(Msg(d, p))
EventsOK == events \in [Node -> Seq(Event)] /\ \A n \in Node : events[n] \in Seq(Ev(n))
OthersOK ==
    /\ peers \in [Node -> SUBSET Node]
    /\ conflicts \subseteq Node \X Owner
    /\ conn \subseteq Pair
    /\ calls \in 0..MaxCalls /\ breaks \in 0..MaxBreaks

IInv == TablesOK /\ TasksOK /\ WireOK /\ EventsOK /\ OthersOK /\ OwnEntryKept

-----------------------------------------------------------------------------
(* Sequences of a set, one element of a nested function                    *)

LEMMA SeqMono ==
    ASSUME NEW S, NEW T, S \subseteq T, NEW s \in Seq(S)
    PROVE  s \in Seq(T)
  BY SMT

LEMMA SeqOps ==
    ASSUME NEW S, NEW s \in Seq(S)
    PROVE  /\ << >> \in Seq(S)
           /\ s # << >> => Head(s) \in S /\ Tail(s) \in Seq(S)
           /\ \A e \in S : Append(s, e) \in Seq(S)
           /\ \A t \in Seq(S) : s \o t \in Seq(S)
  BY SMT

\* A value in one place of a table.
LEMMA At ==
    ASSUME NEW A, NEW B, NEW V, NEW f \in [A -> [B -> V]], NEW a \in A, NEW b \in B,
           NEW v \in V
    PROVE  /\ [f EXCEPT ![a][b] = v] \in [A -> [B -> V]]
           /\ [f EXCEPT ![a][b] = v][a][b] = v
           /\ \A x \in A, y \in B : x # a \/ y # b =>
                 [f EXCEPT ![a][b] = v][x][y] = f[x][y]
  OBVIOUS

\* The tasks of node n become t.
LEMMA TasksTo ==
    ASSUME TasksOK, NEW n \in Node, NEW t \in Seq(Task(n)),
           tasks' = [tasks EXCEPT ![n] = t]
    PROVE  TasksOK'
  <1>1. t \in Seq(Send)
    BY SeqMono DEF Task
  <1> QED
    BY <1>1 DEF TasksOK, Task

\* The messages of directory d under way over p become m.
LEMMA WireTo ==
    ASSUME WireOK, NEW d \in Dir, NEW p \in Pair, NEW m \in Seq(Msg(d, p)),
           wire' = [wire EXCEPT ![d][p] = m]
    PROVE  WireOK'
  <1>1. m \in Seq(Message)
    BY SeqMono DEF Msg
  <1>2. /\ wire' \in [Dir -> [Pair -> Seq(Message)]]
        /\ wire'[d][p] = m
        /\ \A x \in Dir, y \in Pair : x # d \/ y # p => wire'[x][y] = wire[x][y]
    BY <1>1 DEF WireOK
  <1>3. ASSUME NEW x \in Dir, NEW y \in Pair PROVE wire'[x][y] \in Seq(Msg(x, y))
    <2>1. CASE x = d /\ y = p
      BY <1>2, <2>1
    <2>2. CASE x # d \/ y # p
      BY <1>2, <2>2 DEF WireOK
    <2> QED
      BY <2>1, <2>2
  <1> QED
    BY <1>2, <1>3 DEF WireOK, Msg
-----------------------------------------------------------------------------
LEMMA InitIInv == Init => IInv
  <1> SUFFICES ASSUME Init PROVE IInv
    OBVIOUS
  <1>1. TablesOK /\ OwnEntryKept
    BY DEF Init, TablesOK, OwnEntryKept
  <1>2. \A S : << >> \in Seq(S)
    BY SMT
  <1>3. TasksOK /\ EventsOK /\ WireOK
    BY <1>2 DEF Init, TasksOK, EventsOK, WireOK
  <1>4. OthersOK
    BY DirectoryAssumption, SMT DEF Init, OthersOK
  <1> QED
    BY <1>1, <1>3, <1>4 DEF IInv

\* The loop over the peers of n: one task for each.
LEMMA ListedTasks ==
    ASSUME OthersOK, NEW n \in Node, NEW s \in Listed(peers[n]),
           NEW op \in {"join", "leave"}, NEW d \in Dir, NEW o \in Owner, Home[o] = n
    PROVE  [i \in DOMAIN s |-> [op |-> op, d |-> d, o |-> o, to |-> s[i]]] \in Seq(Task(n))
  <1>1. peers[n] \subseteq Node
    BY DEF OthersOK
  <1>2. Cardinality(peers[n]) \in Nat
    BY <1>1, DirectoryAssumption, FS_Subset, FS_CardinalityType
  <1>3. DOMAIN s = 1..Cardinality(peers[n]) /\ \A i \in DOMAIN s : s[i] \in Node
    BY <1>1 DEF Listed
  <1>4. \A i \in DOMAIN s : [op |-> op, d |-> d, o |-> o, to |-> s[i]] \in Task(n)
    BY <1>3 DEF Task, Send
  <1> HIDE DEF Task
  <1> QED
    BY <1>2, <1>3, <1>4, SMT
\* _broadcast.
LEMMA BroadcastTasks ==
    ASSUME IInv, NEW op \in {"join", "leave"}, NEW d \in Dir, NEW o \in Owner,
           Broadcast(Home[o], op, d, o)
    PROVE  TasksOK'
  <1>0. Home[o] \in Node /\ TasksOK /\ OthersOK
    BY DirectoryAssumption DEF IInv
  <1>1. PICK s \in Listed(peers[Home[o]]) :
            tasks' = [tasks EXCEPT ![Home[o]] =
                @ \o [i \in DOMAIN s |-> [op |-> op, d |-> d, o |-> o, to |-> s[i]]]]
    BY DEF Broadcast
  <1> DEFINE new == [i \in DOMAIN s |-> [op |-> op, d |-> d, o |-> o, to |-> s[i]]]
  <1>2. new \in Seq(Task(Home[o]))
    BY <1>0, ListedTasks
  <1> HIDE DEF new
  <1>3. tasks[Home[o]] \o new \in Seq(Task(Home[o]))
    BY <1>0, <1>2, SeqOps DEF TasksOK
  <1>4. tasks' = [tasks EXCEPT ![Home[o]] = tasks[Home[o]] \o new]
    BY <1>1 DEF new
  <1> QED
    BY <1>0, <1>3, <1>4, TasksTo

LEMMA JoinKeeps ==
    ASSUME IInv, NEW d \in Dir, NEW o \in Owner, Join(d, o)
    PROVE  IInv'
  <1> DEFINE n == Home[o]
             X == table[d][n] \union {o}
  <1>0. /\ n \in Node /\ X \in SUBSET Owner
        /\ table' = [table EXCEPT ![d][n] = X]
        /\ owned' = [owned EXCEPT ![d] = @ \union {o}]
        /\ UNCHANGED <<peers, wire, conflicts, conn, events, breaks>>
        /\ calls' \in 0..MaxCalls
    BY DirectoryAssumption, SMT DEF Join, Called, IInv, TablesOK, OthersOK
  <1>1. TasksOK'
    BY BroadcastTasks DEF Join
  <1>2. d = "name" => \A p, q \in X : p = q
    BY DEF Join
  <1>3. o \in X /\ table[d][n] \subseteq X
    OBVIOUS
  <1> HIDE DEF X
  <1>4. /\ table' \in [Dir -> [Node -> SUBSET Owner]]
        /\ table'[d][n] = X
        /\ \A x \in Dir, y \in Node : x # d \/ y # n => table'[x][y] = table[x][y]
    BY <1>0, At, SMT DEF IInv, TablesOK
  <1>5. TablesOK'
    BY <1>0, <1>2, <1>4, SMT DEF IInv, TablesOK
  <1>6. \A x \in Dir, y \in Node : table[x][y] \subseteq table'[x][y]
    BY <1>3, <1>4
  <1>7. OwnEntryKept'
    BY <1>0, <1>3, <1>4, <1>6, DirectoryAssumption, SMT DEF IInv, OwnEntryKept, TablesOK
  <1>8. WireOK' /\ EventsOK' /\ OthersOK'
    BY <1>0 DEF IInv, WireOK, EventsOK, OthersOK, Msg, Ev
  <1> QED
    BY <1>1, <1>5, <1>7, <1>8 DEF IInv

LEMMA LeaveKeeps ==
    ASSUME IInv, NEW d \in Dir, NEW o \in Owner, Leave(d, o)
    PROVE  IInv'
  <1> DEFINE n == Home[o]
             X == table[d][n] \ {o}
  <1>0. /\ n \in Node /\ X \in SUBSET Owner
        /\ table' = [table EXCEPT ![d][n] = X]
        /\ owned' = [owned EXCEPT ![d] = @ \ {o}]
        /\ UNCHANGED <<peers, wire, conflicts, conn, events, breaks>>
        /\ calls' \in 0..MaxCalls
    BY DirectoryAssumption, SMT DEF Leave, Called, IInv, TablesOK, OthersOK
  <1>1. TasksOK'
    BY BroadcastTasks DEF Leave
  <1>2. \A p \in table[d][n] : p \in X \/ p = o
    OBVIOUS
  <1>3. X \subseteq table[d][n]
    OBVIOUS
  <1> HIDE DEF X
  <1>4. /\ table' \in [Dir -> [Node -> SUBSET Owner]]
        /\ table'[d][n] = X
        /\ \A x \in Dir, y \in Node : x # d \/ y # n => table'[x][y] = table[x][y]
    BY <1>0, At, SMT DEF IInv, TablesOK
  <1>5. TablesOK'
    BY <1>0, <1>3, <1>4, SMT DEF IInv, TablesOK
  <1>6. ASSUME NEW x \in Dir, NEW q \in owned'[x] PROVE q \in table'[x][Home[q]]
    <2>1. q \in owned[x] /\ (x = d => q # o) /\ q \in Owner /\ Home[q] \in Node
      BY <1>0, <1>6, DirectoryAssumption DEF IInv, TablesOK
    <2>2. q \in table[x][Home[q]]
      BY <2>1 DEF IInv, OwnEntryKept
    <2> QED
      BY <1>2, <1>4, <2>1, <2>2
  <1>7. OwnEntryKept'
    BY <1>6 DEF OwnEntryKept
  <1>8. WireOK' /\ EventsOK' /\ OthersOK'
    BY <1>0 DEF IInv, WireOK, EventsOK, OthersOK, Msg, Ev
  <1> QED
    BY <1>1, <1>5, <1>7, <1>8 DEF IInv

LEMMA ClearKeeps ==
    ASSUME IInv, NEW o \in Owner, Clear(o)
    PROVE  IInv'
  <1> DEFINE n == Home[o]
             in == {d \in Dir : o \in table[d][n]}
             leaves(s, d) == [i \in DOMAIN s |-> [op |-> "leave", d |-> d, o |-> o, to |-> s[i]]]
  <1>0. /\ n \in Node
        /\ table' = [d \in Dir |-> [table[d] EXCEPT ![n] = @ \ {o}]]
        /\ owned' = [d \in Dir |-> owned[d] \ {o}]
        /\ UNCHANGED <<peers, wire, conflicts, conn, events, breaks>>
        /\ calls' \in 0..MaxCalls
    BY DirectoryAssumption, SMT DEF Clear, Called, IInv, OthersOK
  <1>1. TasksOK'
    <2>1. PICK s \in Listed(peers[n]) :
             tasks' = [tasks EXCEPT ![n] =
                 @ \o (IF "group" \in in THEN leaves(s, "group") ELSE << >>)
                   \o (IF "name" \in in THEN leaves(s, "name") ELSE << >>)]
      BY DEF Clear
    <2> DEFINE t1 == IF "group" \in in THEN leaves(s, "group") ELSE << >>
               t2 == IF "name" \in in THEN leaves(s, "name") ELSE << >>
    <2>2. \A d \in Dir : leaves(s, d) \in Seq(Task(n))
      BY <1>0, ListedTasks DEF IInv
    <2>3. in \subseteq Dir
      OBVIOUS
    <2>4. t1 \in Seq(Task(n)) /\ t2 \in Seq(Task(n))
      <3> HIDE DEF in, leaves, n
      <3> QED
        BY <2>2, <2>3, SMT
    <2> HIDE DEF t1, t2
    <2>5. (tasks[n] \o t1) \o t2 \in Seq(Task(n))
      BY <1>0, <2>4, SeqOps DEF IInv, TasksOK
    <2>6. tasks' = [tasks EXCEPT ![n] = (tasks[n] \o t1) \o t2]
      BY <2>1 DEF t1, t2
    <2> QED
      BY <1>0, <2>5, <2>6, TasksTo DEF IInv
  <1>2. /\ table' \in [Dir -> [Node -> SUBSET Owner]]
        /\ \A x \in Dir, y \in Node : /\ table'[x][y] \subseteq table[x][y]
                                      /\ table[x][y] \ {o} \subseteq table'[x][y]
    BY <1>0, SMT DEF IInv, TablesOK
  <1>3. TablesOK'
    BY <1>0, <1>2 DEF IInv, TablesOK
  <1>4. ASSUME NEW x \in Dir, NEW q \in owned'[x] PROVE q \in table'[x][Home[q]]
    <2>1. q \in owned[x] /\ q # o /\ q \in Owner /\ Home[q] \in Node
      BY <1>0, <1>4, DirectoryAssumption DEF IInv, TablesOK
    <2>2. q \in table[x][Home[q]]
      BY <2>1 DEF IInv, OwnEntryKept
    <2> QED
      BY <1>2, <2>1, <2>2
  <1>5. OwnEntryKept'
    BY <1>4 DEF OwnEntryKept
  <1>6. WireOK' /\ EventsOK' /\ OthersOK'
    BY <1>0 DEF IInv, WireOK, EventsOK, OthersOK, Msg, Ev
  <1> QED
    BY <1>1, <1>3, <1>5, <1>6 DEF IInv
LEMMA RunTaskKeeps ==
    ASSUME IInv, NEW n \in Node, RunTask(n)
    PROVE  IInv'
  <1> DEFINE t == Head(tasks[n])
             msg == IF t.op = "snapshot" THEN [op |-> t.op, all |-> table[t.d][n]]
                    ELSE [op |-> t.op, o |-> t.o]
  <1>0. /\ tasks[n] # << >> /\ tasks[n] \in Seq(Task(n))
        /\ tasks' = [tasks EXCEPT ![n] = Tail(tasks[n])]
        /\ UNCHANGED <<table, owned, peers, conflicts, conn, events, calls, breaks>>
        /\ wire' = wire \/ (<<n, t.to>> \in conn
              /\ wire' = [wire EXCEPT ![t.d][<<n, t.to>>] = Append(@, msg)])
    BY DEF RunTask, IInv, TasksOK
  <1>1. t \in Task(n) /\ Tail(tasks[n]) \in Seq(Task(n))
    BY <1>0, SeqOps
  <1>2. TasksOK'
    BY <1>0, <1>1, TasksTo DEF IInv
  <1>3. WireOK'
    <2>1. CASE wire' = wire
      BY <2>1 DEF IInv, WireOK, Msg
    <2>2. CASE /\ <<n, t.to>> \in conn
               /\ wire' = [wire EXCEPT ![t.d][<<n, t.to>>] = Append(@, msg)]
      <3> DEFINE p == <<n, t.to>>
      <3>1. p \in Pair /\ p[1] = n
        BY <2>2 DEF IInv, OthersOK
      <3>2. t.d \in Dir
        BY <1>1 DEF Task, Send
      <3>3. msg \in Msg(t.d, p)
        <4>1. CASE t.op = "snapshot"
          <5>1. table[t.d][n] \subseteq Owner
            BY <3>2, SMT DEF IInv, TablesOK
          <5>2. t.d = "name" => \A o, q \in table[t.d][n] : o = q
            BY <3>2 DEF IInv, TablesOK
          <5>3. msg = [op |-> "snapshot", all |-> table[t.d][n]]
            BY <4>1
          <5> HIDE DEF msg, p
          <5> QED
            BY <5>1, <5>2, <5>3 DEF Msg, Message
        <4>2. CASE t.op # "snapshot"
          <5>1. /\ t.op \in {"join", "leave"} /\ t.o \in Owner
                /\ t.op = "leave" => Home[t.o] = n
            BY <1>1, <4>2 DEF Task, Send
          <5>2. msg = [op |-> t.op, o |-> t.o]
            BY <4>2
          <5> HIDE DEF msg, p, t
          <5> QED
            BY <3>1, <5>1, <5>2 DEF Msg, Message
        <4> QED
          BY <4>1, <4>2
      <3> HIDE DEF t, msg, p
      <3>4. Append(wire[t.d][p], msg) \in Seq(Msg(t.d, p))
        BY <3>1, <3>2, <3>3, SeqOps DEF IInv, WireOK
      <3>5. wire' = [wire EXCEPT ![t.d][p] = Append(wire[t.d][p], msg)]
        BY <2>2 DEF p
      <3> QED
        BY <3>1, <3>2, <3>4, <3>5, WireTo DEF IInv
    <2> QED
      BY <1>0, <2>1, <2>2
  <1>4. TablesOK' /\ EventsOK' /\ OthersOK' /\ OwnEntryKept'
    BY <1>0 DEF IInv, TablesOK, EventsOK, OthersOK, OwnEntryKept, Ev
  <1> QED
    BY <1>2, <1>3, <1>4 DEF IInv

\* A message never takes an owner out of the table of its own node, and never
\* brings a second owner of a name.
LEMMA ReceiveKeeps ==
    ASSUME IInv, NEW d \in Dir, NEW p \in Pair, Receive(d, p)
    PROVE  IInv'
  <1> DEFINE n == p[2]
             msg == Head(wire[d][p])
             new == IF msg.op = "join" THEN {msg.o} ELSE msg.all
             ok == {o \in new : Accepts(d, n, o)}
  <1>0. /\ wire[d][p] # << >> /\ wire[d][p] \in Seq(Msg(d, p))
        /\ wire' = [wire EXCEPT ![d][p] = Tail(wire[d][p])]
        /\ UNCHANGED <<owned, peers, tasks, conn, events, calls, breaks>>
        /\ n \in Node /\ p[1] \in Node /\ p[1] # n
    BY DEF Receive, IInv, WireOK, Pair
  <1>1. msg \in Msg(d, p) /\ Tail(wire[d][p]) \in Seq(Msg(d, p))
    BY <1>0, SeqOps
  <1>2. WireOK'
    BY <1>0, <1>1, WireTo DEF IInv
  <1>3. \E X \in SUBSET Owner :
           /\ table' = [table EXCEPT ![d][n] = X]
           /\ d = "name" => \A o, q \in X : o = q
           /\ \A o \in table[d][n] : Home[o] = n => o \in X
    <2>1. table[d][n] \subseteq Owner /\ (d = "name" => \A o, q \in table[d][n] : o = q)
      BY <1>0, SMT DEF IInv, TablesOK
    <2>2. CASE msg.op = "leave" /\ table' = [table EXCEPT ![d][n] = @ \ {msg.o}]
      <3>1. Home[msg.o] = p[1]
        BY <1>1, <2>2 DEF Msg
      <3> QED
        BY <1>0, <2>1, <2>2, <3>1, ZenonT(30)
    <2>3. CASE msg.op # "leave" /\ table' = [table EXCEPT ![d][n] = @ \union ok]
      <3>1. new \subseteq Owner /\ (d = "name" => \A o, q \in new : o = q)
        BY <1>1, <2>3 DEF Msg, Message
      <3>2. ok \subseteq new /\ (d = "name" => \A o \in ok : table[d][n] \subseteq {o})
        BY DEF Accepts
      <3> HIDE DEF new, ok
      <3>3. /\ table[d][n] \union ok \in SUBSET Owner
            /\ d = "name" => \A o, q \in table[d][n] \union ok : o = q
        BY <2>1, <3>1, <3>2
      <3> QED
        BY <2>3, <3>3
    <2> QED
      BY <2>2, <2>3 DEF Receive
  <1>4. PICK X \in SUBSET Owner :
           /\ table' = [table EXCEPT ![d][n] = X]
           /\ d = "name" => \A o, q \in X : o = q
           /\ \A o \in table[d][n] : Home[o] = n => o \in X
    BY <1>3
  <1>5. /\ table' \in [Dir -> [Node -> SUBSET Owner]]
        /\ table'[d][n] = X
        /\ \A x \in Dir, y \in Node : x # d \/ y # n => table'[x][y] = table[x][y]
    BY <1>0, <1>4, At, SMT DEF IInv, TablesOK
  <1>6. TablesOK'
    BY <1>0, <1>4, <1>5, SMT DEF IInv, TablesOK
  <1>7. OwnEntryKept'
    BY <1>0, <1>4, <1>5, DirectoryAssumption, SMT DEF IInv, OwnEntryKept, TablesOK
  <1>8. conflicts' \subseteq Node \X Owner
    <2>1. CASE msg.op = "leave"
      BY <2>1 DEF Receive, IInv, OthersOK
    <2>2. CASE msg.op # "leave"
      <3>1. new \subseteq Owner
        BY <1>1, <2>2 DEF Msg, Message
      <3>2. conflicts' = conflicts \union {<<n, o>> : o \in new \ ok}
        BY <2>2 DEF Receive
      <3> HIDE DEF new, ok, n
      <3> QED
        BY <1>0, <3>1, <3>2, SMT DEF IInv, OthersOK
    <2> QED
      BY <2>1, <2>2
  <1>9. TasksOK' /\ EventsOK' /\ OthersOK'
    BY <1>0, <1>8 DEF IInv, TasksOK, EventsOK, OthersOK, Task, Ev
  <1> QED
    BY <1>2, <1>6, <1>7, <1>9 DEF IInv

\* The listeners: a snapshot for a new peer, the entries of one that has gone.
LEMMA PeerEventKeeps ==
    ASSUME IInv, NEW n \in Node, PeerEvent(n)
    PROVE  IInv'
  <1> DEFINE e == Head(events[n])
  <1>0. /\ events[n] # << >> /\ events[n] \in Seq(Ev(n))
        /\ events' = [events EXCEPT ![n] = Tail(events[n])]
        /\ UNCHANGED <<owned, wire, conflicts, conn, calls, breaks>>
    BY DEF PeerEvent, IInv, EventsOK
  <1>1. e \in Ev(n) /\ Tail(events[n]) \in Seq(Ev(n))
    BY <1>0, SeqOps
  <1>2. e.peer \in Node /\ e.peer # n
    BY <1>1 DEF Ev, Event
  <1>3. EventsOK'
    <2>1. Tail(events[n]) \in Seq(Event)
      BY <1>1, SeqMono DEF Ev
    <2> QED
      BY <1>0, <1>1, <2>1 DEF IInv, EventsOK, Ev
  <1>4. OthersOK'
    <2>1. \/ peers' = [peers EXCEPT ![n] = @ \union {e.peer}]
          \/ peers' = [peers EXCEPT ![n] = @ \ {e.peer}]
      BY DEF PeerEvent
    <2> HIDE DEF e
    <2>2. peers' \in [Node -> SUBSET Node]
      BY <1>2, <2>1, SMT DEF IInv, OthersOK
    <2> QED
      BY <1>0, <2>2 DEF IInv, OthersOK
  <1>5. TasksOK'
    <2>1. CASE e.kind = "peer_connected"
      <3>1. \A d \in Dir : [op |-> "snapshot", d |-> d, to |-> e.peer] \in Task(n)
        BY <1>2 DEF Task, Send
      <3> DEFINE q == e.peer
      <3>2. Snapshots(q) \in Seq(Task(n))
        <4> HIDE DEF q, Task
        <4>1. \A d \in Dir : <<[op |-> "snapshot", d |-> d, to |-> q]>> \in Seq(Task(n))
          BY <3>1, SMT DEF q
        <4> DEFINE t1 == IF "group" \in Dir THEN <<[op |-> "snapshot", d |-> "group", to |-> q]>> ELSE << >>
                   t2 == IF "name" \in Dir THEN <<[op |-> "snapshot", d |-> "name", to |-> q]>> ELSE << >>
        <4>2. t1 \in Seq(Task(n)) /\ t2 \in Seq(Task(n))
          BY <4>1, SMT
        <4>3. Snapshots(q) = t1 \o t2
          BY DEF Snapshots
        <4> HIDE DEF t1, t2
        <4> QED
          BY <4>2, <4>3, SeqOps
      <3>3. tasks' = [tasks EXCEPT ![n] = tasks[n] \o Snapshots(q)]
        BY <2>1 DEF PeerEvent
      <3> HIDE DEF q
      <3>4. tasks[n] \o Snapshots(q) \in Seq(Task(n))
        BY <3>2, SeqOps DEF IInv, TasksOK
      <3> QED
        BY <3>3, <3>4, TasksTo DEF IInv
    <2>2. CASE e.kind # "peer_connected"
      BY <2>2 DEF PeerEvent, IInv, TasksOK, Task
    <2> QED
      BY <2>1, <2>2
  <1>6. /\ table' \in [Dir -> [Node -> SUBSET Owner]]
        /\ \A d \in Dir, m \in Node : table'[d][m] \subseteq table[d][m]
        /\ \A d \in Dir, m \in Node : \A o \in table[d][m] : Home[o] = m => o \in table'[d][m]
    <2>1. CASE table' = table
      BY <2>1 DEF IInv, TablesOK
    <2>2. CASE table' = Drop(n, e.peer)
      BY <1>2, <2>2, SMT DEF IInv, TablesOK, Drop
    <2> QED
      BY <2>1, <2>2 DEF PeerEvent
  <1>7. TablesOK'
    BY <1>0, <1>6 DEF IInv, TablesOK
  <1>8. OwnEntryKept'
    BY <1>0, <1>6, DirectoryAssumption DEF IInv, OwnEntryKept, TablesOK
  <1>9. WireOK'
    BY <1>0 DEF IInv, WireOK, Msg
  <1> QED
    BY <1>3, <1>4, <1>5, <1>7, <1>8, <1>9 DEF IInv

\* Connections come and go.
LEMMA ConnectionKeeps ==
    ASSUME IInv, NEW p \in Pair, Connect(p) \/ Break(p)
    PROVE  IInv'
  <1>0. /\ UNCHANGED <<table, owned, peers, tasks, conflicts, calls>>
        /\ p[1] \in Node /\ p[2] \in Node /\ p[1] # p[2] /\ p = <<p[1], p[2]>>
        /\ <<p[2], p[1]>> \in Pair
    BY SMT DEF Connect, Break, Pair
  <1>1. PICK kind \in {"peer_connected", "peer_disconnected"} : Notify(p, kind)
    BY DEF Connect, Break
  <1>2. EventsOK'
    <2> DEFINE e(n) == [kind |-> kind, peer |-> IF n = p[1] THEN p[2] ELSE p[1]]
    <2>1. \A n \in {p[1], p[2]} : e(n) \in Ev(n)
      BY <1>0 DEF Ev, Event
    <2>2. events' = [n \in Node |-> IF n \in {p[1], p[2]} THEN Append(events[n], e(n))
                                    ELSE events[n]]
      BY <1>1 DEF Notify
    <2> HIDE DEF e
    <2>3. \A n \in Node : events'[n] \in Seq(Ev(n))
      BY <2>1, <2>2, SeqOps DEF IInv, EventsOK
    <2>4. \A n \in Node : events'[n] \in Seq(Event)
      BY <2>3, SeqMono DEF Ev
    <2> QED
      BY <2>2, <2>3, <2>4 DEF EventsOK, Ev
  <1>3. WireOK'
    <2>1. CASE wire' = wire
      BY <2>1 DEF IInv, WireOK, Msg
    <2>2. CASE wire' = [d \in Dir |-> [q \in Pair |->
                          IF q \in {p, <<p[2], p[1]>>} THEN << >> ELSE wire[d][q]]]
      <3>1. \A S : << >> \in Seq(S)
        BY SMT
      <3> QED
        BY <2>2, <3>1 DEF IInv, WireOK, Msg
    <2> QED
      BY <2>1, <2>2 DEF Connect, Break
  <1>4. OthersOK'
    BY <1>0, DirectoryAssumption, SMT DEF Connect, Break, IInv, OthersOK
  <1>5. TablesOK' /\ TasksOK' /\ OwnEntryKept'
    BY <1>0 DEF IInv, TablesOK, TasksOK, OwnEntryKept, Task
  <1> QED
    BY <1>2, <1>3, <1>4, <1>5 DEF IInv

LEMMA AlwaysIInv == Spec => []IInv
  <1>1. IInv /\ [Next]_vars => IInv'
    <2>1. ASSUME IInv, UNCHANGED vars PROVE IInv'
      <3>1. TablesOK' /\ OthersOK' /\ OwnEntryKept'
        BY <2>1 DEF vars, IInv, TablesOK, OthersOK, OwnEntryKept
      <3>2. TasksOK' /\ EventsOK'
        BY <2>1 DEF vars, IInv, TasksOK, EventsOK, Task, Ev
      <3>3. WireOK'
        BY <2>1 DEF vars, IInv, WireOK, Msg
      <3> QED
        BY <3>1, <3>2, <3>3 DEF IInv
    <2> QED
      BY <2>1, JoinKeeps, LeaveKeeps, ClearKeeps, RunTaskKeeps, ReceiveKeeps,
         PeerEventKeeps, ConnectionKeeps DEF Next
  <1> QED
    BY <1>1, InitIInv, PTL DEF Spec

\* The directories keep their types, and no node ever lists two owners of a name.
THEOREM DirectoryTypeCorrect == Spec => []TypeOK
  <1>1. IInv => TypeOK
    BY DEF IInv, TablesOK, TasksOK, WireOK, EventsOK, OthersOK, TypeOK
  <1> QED
    BY <1>1, AlwaysIInv, PTL

\* A member or owner that has not left is listed on its own node, whatever its
\* peers send, however late, and whoever disconnects.
THEOREM OwnEntryTheorem == Spec => []OwnEntryKept
  <1>1. IInv => OwnEntryKept
    BY DEF IInv
  <1> QED
    BY <1>1, AlwaysIInv, PTL

-----------------------------------------------------------------------------
(* Entries arrive                                                          *)

\* Nothing in L is in the queue s; and something in C is, with nothing in L
\* after it.
Clean(s, L) == \A j \in 1..Len(s) : s[j] \notin L
Pending(s, C, L) ==
    \E i \in 1..Len(s) : s[i] \in C /\ \A j \in (i + 1)..Len(s) : s[j] \notin L

LEMMA CleanTail ==
    ASSUME NEW S, NEW s \in Seq(S), s # << >>, NEW C, NEW L
    PROVE  /\ Clean(s, L) <=> Head(s) \notin L /\ Clean(Tail(s), L)
           /\ Pending(s, C, L) =>
                 Pending(Tail(s), C, L) \/ (Head(s) \in C /\ Clean(Tail(s), L))
  <1>1. PICK k \in Nat : Len(s) = k + 1
    <2>1. PICK n \in Nat : n = Len(s)
      BY SMT
    <2>2. n # 0
      BY <2>1, SMT
    <2>3. n - 1 \in Nat /\ n = (n - 1) + 1
      BY <2>2, SMT
    <2> QED BY <2>1, <2>3
  <1>2. Len(Tail(s)) = k /\ Head(s) = s[1] /\ \A i \in 1..k : Tail(s)[i] = s[i + 1]
    BY <1>1, SMT
  <1>3. \A i \in 1..(k + 1) : i = 1 \/ (i - 1 \in 1..k /\ (i - 1) + 1 = i)
    BY SMT
  <1>4. 1 \in 1..(k + 1) /\ \A i \in 1..k : i + 1 \in 1..(k + 1)
    BY SMT
  <1>5. Clean(s, L) <=> Head(s) \notin L /\ Clean(Tail(s), L)
    BY <1>1, <1>2, <1>3, <1>4 DEF Clean
  <1>6. ASSUME Pending(s, C, L)
        PROVE  Pending(Tail(s), C, L) \/ (Head(s) \in C /\ Clean(Tail(s), L))
    <2>1. PICK i \in 1..(k + 1) : s[i] \in C /\ \A j \in (i + 1)..(k + 1) : s[j] \notin L
      BY <1>1, <1>6 DEF Pending
    <2>2. CASE i = 1
      <3>1. \A j \in 1..k : j + 1 \in (1 + 1)..(k + 1)
        BY SMT
      <3> QED BY <1>2, <2>1, <2>2, <3>1 DEF Clean
    <2>3. CASE i # 1
      <3>1. i - 1 \in 1..k /\ (i - 1) + 1 = i
        BY <2>3, SMT
      <3>2. \A j \in ((i - 1) + 1)..k : j \in 1..k /\ j + 1 \in (i + 1)..(k + 1)
        BY <3>1, SMT
      <3>3. Tail(s)[i - 1] \in C /\ \A j \in ((i - 1) + 1)..k : Tail(s)[j] \notin L
        BY <1>2, <2>1, <3>1, <3>2
      <3> QED BY <1>2, <3>1, <3>3 DEF Pending
    <2> QED BY <2>2, <2>3
  <1> QED BY <1>5, <1>6

LEMMA CleanConcat ==
    ASSUME NEW S, NEW s \in Seq(S), NEW t \in Seq(S), NEW C, NEW L
    PROVE  /\ Clean(s \o t, L) <=> Clean(s, L) /\ Clean(t, L)
           /\ Pending(s, C, L) /\ Clean(t, L) => Pending(s \o t, C, L)
           /\ Pending(t, C, L) => Pending(s \o t, C, L)
  <1>1. PICK a \in Nat, b \in Nat : a = Len(s) /\ b = Len(t)
    BY SMT
  <1>2. /\ Len(s \o t) = a + b
        /\ \A i \in 1..a : (s \o t)[i] = s[i]
        /\ \A i \in 1..b : (s \o t)[a + i] = t[i]
    BY <1>1, SMT
  <1>3. /\ \A i \in 1..(a + b) : i \in 1..a \/ (i - a \in 1..b /\ a + (i - a) = i)
        /\ \A i \in 1..a : i \in 1..(a + b)
        /\ \A i \in 1..b : a + i \in 1..(a + b)
    BY SMT
  <1>4. Clean(s \o t, L) <=> Clean(s, L) /\ Clean(t, L)
    BY <1>1, <1>2, <1>3 DEF Clean
  <1>5. ASSUME Pending(s, C, L), Clean(t, L) PROVE Pending(s \o t, C, L)
    <2>1. PICK i \in 1..a : s[i] \in C /\ \A j \in (i + 1)..a : s[j] \notin L
      BY <1>1, <1>5 DEF Pending
    <2>2. \A j \in (i + 1)..(a + b) : (j \in (i + 1)..a /\ j \in 1..a) \/ (j - a \in 1..b /\ a + (j - a) = j)
      BY SMT
    <2>3. \A j \in (i + 1)..(a + b) : (s \o t)[j] \notin L
      BY <1>1, <1>2, <1>5, <2>1, <2>2, SMT DEF Clean
    <2> QED BY <1>2, <1>3, <2>1, <2>3 DEF Pending
  <1>6. ASSUME Pending(t, C, L) PROVE Pending(s \o t, C, L)
    <2>1. PICK i \in 1..b : t[i] \in C /\ \A j \in (i + 1)..b : t[j] \notin L
      BY <1>1, <1>6 DEF Pending
    <2>2. \A j \in ((a + i) + 1)..(a + b) : j - a \in 1..b /\ j - a \in (i + 1)..b /\ a + (j - a) = j
      BY SMT
    <2>3. \A j \in ((a + i) + 1)..(a + b) : (s \o t)[j] \notin L
      BY <1>2, <2>1, <2>2
    <2> QED BY <1>2, <1>3, <2>1, <2>3 DEF Pending
  <1> QED BY <1>4, <1>5, <1>6

LEMMA CleanAppend ==
    ASSUME NEW S, NEW s \in Seq(S), NEW e \in S, NEW C, NEW L
    PROVE  /\ Clean(Append(s, e), L) <=> Clean(s, L) /\ e \notin L
           /\ Pending(s, C, L) /\ e \notin L => Pending(Append(s, e), C, L)
           /\ e \in C => Pending(Append(s, e), C, L)
  <1>1. Append(s, e) = s \o <<e>> /\ <<e>> \in Seq(S)
    BY SMT
  <1>2. Clean(<<e>>, L) <=> e \notin L
    BY SMT DEF Clean
  <1>3. e \in C => Pending(<<e>>, C, L)
    BY SMT DEF Pending
  <1> QED BY <1>1, <1>2, <1>3, CleanConcat

\* Tasks that bring an owner to n, or that take it away there, and messages
\* that do.
Bringing(d, o, n) ==
    {t \in Send : t.d = d /\ t.to = n /\ (t.op = "snapshot" \/ (t.op = "join" /\ t.o = o))}
Taking(d, o, n) == {t \in Send : t.d = d /\ t.to = n /\ t.op = "leave" /\ t.o = o}
Telling(o) == {m \in Message : (m.op = "join" /\ m.o = o) \/ (m.op = "snapshot" /\ o \in m.all)}
Retracting(o) == {m \in Message : m.op = "leave" /\ m.o = o}

\* Owner o is listed at n, or about to be, given the tasks T and messages W
\* for n of its node and the table X of n.
OnItsWay(d, o, n, T, W, X) ==
    \/ Pending(T, Bringing(d, o, n), Taking(d, o, n))
    \/ /\ Clean(T, Taking(d, o, n))
       /\ \/ Pending(W, Telling(o), Retracting(o))
          \/ Clean(W, Retracting(o)) /\ o \in X

\* The node of o has still to tell n of everything it lists, or n has reported
\* a conflict.
Up(n) == {e \in Event : e.kind = "peer_connected" /\ e.peer = n}
Down(n) == {e \in Event : e.kind = "peer_disconnected" /\ e.peer = n}
Excused(d, o, n) ==
    \/ ~Clean(events[Home[o]], Up(n))
    \/ d = "name" /\ <<n, o>> \in conflicts

\* A connection has two ends; at each its break is not heard of yet, and the
\* peer is known or its peer_connected is to come.
LinkInv ==
    \A h, n \in Node : <<h, n>> \in conn =>
        /\ <<n, h>> \in conn
        /\ Clean(events[h], Down(n))
        /\ n \in peers[h] \/ ~Clean(events[h], Up(n))

\* The inductive invariant of EntriesArrive.
Arrives(d, o, n) ==
    \/ Excused(d, o, n)
    \/ OnItsWay(d, o, n, tasks[Home[o]], wire[d][<<Home[o], n>>], table[d][n])
Concerned(d, o, n) == o \in owned[d] /\ <<Home[o], n>> \in conn
ArriveInv == \A d \in Dir, o \in Owner, n \in Node : Concerned(d, o, n) => Arrives(d, o, n)

\* More tasks, none of which takes o away from n.
LEMMA MoreTasks ==
    ASSUME NEW d, NEW o, NEW n, NEW T \in Seq(Send), NEW t \in Seq(Send), NEW W, NEW X, NEW Y,
           OnItsWay(d, o, n, T, W, X), Clean(t, Taking(d, o, n)), o \in X => o \in Y
    PROVE  OnItsWay(d, o, n, T \o t, W, Y)
  BY CleanConcat DEF OnItsWay

\* A task runs: what it sends to n is what it is for.
LEMMA TaskRuns ==
    ASSUME NEW d, NEW o, NEW n, NEW T \in Seq(Send), NEW W \in Seq(Message), NEW V, NEW X,
           OnItsWay(d, o, n, T, W, X), T # << >>,
           \/ V = W /\ Head(T) \notin Bringing(d, o, n)
           \/ \E m \in Message :
                 /\ V = Append(W, m)
                 /\ Head(T) \in Bringing(d, o, n) => m \in Telling(o)
                 /\ m \in Retracting(o) => Head(T) \in Taking(d, o, n)
    PROVE  OnItsWay(d, o, n, Tail(T), V, X)
  <1>1. /\ Clean(T, Taking(d, o, n)) =>
              Head(T) \notin Taking(d, o, n) /\ Clean(Tail(T), Taking(d, o, n))
        /\ Pending(T, Bringing(d, o, n), Taking(d, o, n)) =>
              \/ Pending(Tail(T), Bringing(d, o, n), Taking(d, o, n))
              \/ Head(T) \in Bringing(d, o, n) /\ Clean(Tail(T), Taking(d, o, n))
    BY CleanTail
  <1>2. ASSUME NEW m \in Message
        PROVE  /\ Clean(Append(W, m), Retracting(o)) <=> Clean(W, Retracting(o)) /\ m \notin Retracting(o)
               /\ Pending(W, Telling(o), Retracting(o)) /\ m \notin Retracting(o) =>
                     Pending(Append(W, m), Telling(o), Retracting(o))
               /\ m \in Telling(o) => Pending(Append(W, m), Telling(o), Retracting(o))
    BY CleanAppend
  <1> QED BY <1>1, <1>2 DEF OnItsWay

\* A message is handled at n.
LEMMA MessageHandled ==
    ASSUME NEW d, NEW o, NEW n, NEW T, NEW W \in Seq(Message), NEW X, NEW Y,
           OnItsWay(d, o, n, T, W, X), W # << >>,
           Head(W) \in Telling(o) => o \in Y,
           o \in X /\ Head(W) \notin Retracting(o) => o \in Y
    PROVE  OnItsWay(d, o, n, T, Tail(W), Y)
  <1>1. /\ Clean(W, Retracting(o)) => Head(W) \notin Retracting(o) /\ Clean(Tail(W), Retracting(o))
        /\ Pending(W, Telling(o), Retracting(o)) =>
              \/ Pending(Tail(W), Telling(o), Retracting(o))
              \/ Head(W) \in Telling(o) /\ Clean(Tail(W), Retracting(o))
    BY CleanTail
  <1> QED BY <1>1 DEF OnItsWay

\* What Notify adds to the events of node h.
LEMMA Notified ==
    ASSUME IInv, NEW p \in Pair, NEW kind \in {"peer_connected", "peer_disconnected"},
           Notify(p, kind), NEW h \in Node
    PROVE  \/ h \notin {p[1], p[2]} /\ events'[h] = events[h]
           \/ \E e \in Event :
                 /\ events'[h] = Append(events[h], e) /\ e.kind = kind
                 /\ \/ h = p[1] /\ e.peer = p[2]
                    \/ h = p[2] /\ e.peer = p[1]
  <1>1. CASE h \notin {p[1], p[2]}
    BY <1>1 DEF Notify
  <1>2. CASE h \in {p[1], p[2]}
    <2> DEFINE e == [kind |-> kind, peer |-> IF h = p[1] THEN p[2] ELSE p[1]]
    <2>1. e \in Event /\ e.kind = kind /\ e.peer = IF h = p[1] THEN p[2] ELSE p[1]
      BY DEF Event, Pair
    <2>2. events'[h] = Append(events[h], e)
      BY <1>2 DEF Notify
    <2> HIDE DEF e
    <2> QED BY <1>2, <2>1, <2>2
  <1> QED BY <1>1, <1>2

LEMMA NextLinks ==
    ASSUME ~LateEvents, IInv, LinkInv, [Next]_vars
    PROVE  LinkInv'
  <1> SUFFICES ASSUME NEW h \in Node, NEW n \in Node, <<h, n>> \in conn'
               PROVE  /\ <<n, h>> \in conn'
                      /\ Clean(events'[h], Down(n))
                      /\ n \in peers'[h] \/ ~Clean(events'[h], Up(n))
    BY DEF LinkInv
  <1> DEFINE Goal == /\ <<n, h>> \in conn'
                     /\ Clean(events'[h], Down(n))
                     /\ n \in peers'[h] \/ ~Clean(events'[h], Up(n))
  <1>0. /\ events[h] \in Seq(Event) /\ peers[h] \subseteq Node /\ DOMAIN peers = Node
        /\ DOMAIN events = Node
    BY DEF IInv, EventsOK, OthersOK
  <1>1. ASSUME UNCHANGED <<conn, events, peers>> PROVE Goal
    BY <1>1 DEF LinkInv
  <1>2. ASSUME NEW m \in Node, PeerEvent(m) PROVE Goal
    <2>1. /\ <<h, n>> \in conn /\ conn' = conn
          /\ events' = [events EXCEPT ![m] = Tail(events[m])] /\ events[m] # << >>
      BY <1>2 DEF PeerEvent
    <2>2. /\ <<n, h>> \in conn /\ Clean(events[h], Down(n))
          /\ n \in peers[h] \/ ~Clean(events[h], Up(n))
      BY <2>1 DEF LinkInv
    <2>3. CASE m # h
      <3>1. events'[h] = events[h] /\ peers'[h] = peers[h]
        BY <1>0, <1>2, <2>1, <2>3 DEF PeerEvent
      <3> QED BY <2>1, <2>2, <3>1
    <2>4. CASE m = h
      <3>1. PICK e \in Event : e = Head(events[h])
        BY <1>0, <2>1, <2>4, SeqOps
      <3>2. events'[h] = Tail(events[h])
        BY <1>0, <2>1, <2>4
      <3>3. /\ e \notin Down(n) /\ Clean(events'[h], Down(n))
            /\ ~Clean(events[h], Up(n)) => e \in Up(n) \/ ~Clean(events'[h], Up(n))
        BY <1>0, <2>1, <2>2, <2>4, <3>1, <3>2, CleanTail
      <3>4. \/ e.kind = "peer_connected" /\ peers' = [peers EXCEPT ![h] = @ \union {e.peer}]
            \/ e.kind = "peer_disconnected" /\ peers' = [peers EXCEPT ![h] = @ \ {e.peer}]
        BY <1>2, <2>4, <3>1 DEF PeerEvent
      <3>5. e \in Up(n) => n \in peers'[h]
        BY <1>0, <3>4 DEF Up
      <3>6. n \in peers[h] => n \in peers'[h]
        BY <1>0, <3>3, <3>4 DEF Down
      <3> QED BY <2>1, <2>2, <3>3, <3>5, <3>6
    <2> QED BY <2>3, <2>4
  <1>3. ASSUME NEW p \in Pair, Connect(p) PROVE Goal
    <2>1. /\ conn' = conn \union {p, <<p[2], p[1]>>} /\ peers' = peers
          /\ \A m \in {p[1], p[2]} : events[m] = << >>
          /\ Notify(p, "peer_connected") /\ p = <<p[1], p[2]>>
      BY <1>3, SMT DEF Connect, Pair
    <2>2. \/ h \notin {p[1], p[2]} /\ events'[h] = events[h]
          \/ \E e \in Event :
                /\ events'[h] = Append(events[h], e) /\ e.kind = "peer_connected"
                /\ \/ h = p[1] /\ e.peer = p[2]
                   \/ h = p[2] /\ e.peer = p[1]
      BY <2>1, Notified
    <2>3. CASE h \notin {p[1], p[2]}
      BY <2>1, <2>2, <2>3, SMT DEF LinkInv
    <2>4. CASE h \in {p[1], p[2]}
      <3>1. PICK e \in Event : /\ events'[h] = Append(events[h], e) /\ e.kind = "peer_connected"
                               /\ \/ h = p[1] /\ e.peer = p[2]
                                  \/ h = p[2] /\ e.peer = p[1]
        BY <2>2, <2>4
      <3>2. \A L : Clean(events[h], L)
        BY <2>1, <2>4, SMT DEF Clean
      <3>3. \A L : Clean(events'[h], L) <=> e \notin L
        BY <1>0, <3>1, <3>2, CleanAppend, SMT
      <3>4. Clean(events'[h], Down(n))
        BY <3>1, <3>3 DEF Down
      <3>5. CASE <<h, n>> \in conn
        BY <2>1, <3>2, <3>4, <3>5 DEF LinkInv
      <3>6. CASE <<h, n>> \in {p, <<p[2], p[1]>>}
        <4>1. p[1] # p[2]
          BY DEF Pair
        <4>2. e.peer = n /\ <<n, h>> \in {p, <<p[2], p[1]>>}
          BY <2>1, <3>1, <3>6, <4>1, SMT
        <4>3. e \in Up(n)
          BY <3>1, <4>2 DEF Up
        <4> QED BY <2>1, <3>3, <3>4, <4>2, <4>3
      <3> QED BY <2>1, <3>5, <3>6
    <2> QED BY <2>3, <2>4
  <1>4. ASSUME NEW p \in Pair, Break(p) PROVE Goal
    <2>1. /\ conn' = conn \ {p, <<p[2], p[1]>>} /\ peers' = peers
          /\ Notify(p, "peer_disconnected") /\ p = <<p[1], p[2]>>
      BY <1>4, SMT DEF Break, Pair
    <2>2. /\ <<n, h>> \in conn /\ Clean(events[h], Down(n))
          /\ n \in peers[h] \/ ~Clean(events[h], Up(n))
      BY <2>1 DEF LinkInv
    <2>3. <<n, h>> \in conn'
      BY <2>1, <2>2, SMT
    <2>4. \/ events'[h] = events[h]
          \/ \E e \in Event : events'[h] = Append(events[h], e) /\ e \notin Down(n)
      <3>1. \/ events'[h] = events[h]
            \/ \E e \in Event :
                  /\ events'[h] = Append(events[h], e)
                  /\ \/ h = p[1] /\ e.peer = p[2]
                     \/ h = p[2] /\ e.peer = p[1]
        BY <2>1, Notified
      <3> QED BY <2>1, <3>1 DEF Down
    <2>5. ASSUME NEW e \in Event, events'[h] = Append(events[h], e), e \notin Down(n) PROVE Goal
      <3>1. \A L : Clean(events'[h], L) <=> Clean(events[h], L) /\ e \notin L
        BY <1>0, <2>5, CleanAppend, SMT
      <3> QED BY <2>1, <2>2, <2>3, <2>5, <3>1
    <2> QED BY <2>1, <2>2, <2>3, <2>4, <2>5
  <1>5. ASSUME NEW o \in Owner, Clear(o) \/ \E d \in Dir : Join(d, o) \/ Leave(d, o) PROVE Goal
    BY <1>1, <1>5 DEF Clear, Join, Leave
  <1>6. ASSUME NEW m \in Node, RunTask(m) PROVE Goal
    BY <1>1, <1>6 DEF RunTask
  <1>7. ASSUME NEW p \in Pair, NEW d \in Dir, Receive(d, p) PROVE Goal
    BY <1>1, <1>7 DEF Receive
  <1> QED BY <1>1, <1>2, <1>3, <1>4, <1>5, <1>6, <1>7 DEF Next, vars

-----------------------------------------------------------------------------
\* The loop over the peers reaches every one of them.
LEMMA ListedAll ==
    ASSUME NEW S, IsFiniteSet(S), NEW s \in Listed(S), NEW n \in S
    PROVE  \E i \in DOMAIN s : s[i] = n
  <1>1. PICK k \in Nat : k = Cardinality(S)
    BY FS_CardinalityType
  <1>2. s \in Injection(1..k, S)
    BY <1>1 DEF Listed, Injection, IsInjective
  <1>3. Cardinality(1..k) = k
    BY FS_Interval, SMT
  <1>4. s \in Surjection(1..k, S)
    BY <1>1, <1>2, <1>3, FS_Injection
  <1> QED BY <1>4 DEF Surjection

\* The tasks that _broadcast adds.
DeltasTo(s, op, d, o) == [i \in DOMAIN s |-> [op |-> op, d |-> d, o |-> o, to |-> s[i]]]
Deltas(t, op, d, o) == \A i \in 1..Len(t) : t[i].op = op /\ t[i].d = d /\ t[i].o = o

LEMMA DeltaTasks ==
    ASSUME IInv, NEW h \in Node, NEW s \in Listed(peers[h]),
           NEW op \in {"join", "leave"}, NEW d \in Dir, NEW o \in Owner, Home[o] = h
    PROVE  LET t == DeltasTo(s, op, d, o)
           IN  /\ t \in Seq(Send) /\ Deltas(t, op, d, o)
               /\ \A n \in peers[h] : \E i \in 1..Len(t) : t[i].to = n
  <1> DEFINE t == DeltasTo(s, op, d, o)
  <1>1. peers[h] \subseteq Node /\ IsFiniteSet(peers[h])
    BY DirectoryAssumption, FS_Subset DEF IInv, OthersOK
  <1>2. PICK k \in Nat : DOMAIN s = 1..k
    BY <1>1, FS_CardinalityType DEF Listed
  <1>3. t \in Seq(Send)
    <2>1. t \in Seq(Task(h))
      BY ListedTasks DEF IInv, DeltasTo
    <2> HIDE DEF t
    <2> QED BY <2>1, SeqMono DEF Task
  <1>4. Len(t) = k
    BY <1>2, SMT DEF DeltasTo
  <1>5. \A i \in 1..k : t[i] = [op |-> op, d |-> d, o |-> o, to |-> s[i]]
    BY <1>2 DEF DeltasTo
  <1>6. \A n \in peers[h] : \E i \in 1..k : s[i] = n
    BY <1>1, <1>2, ListedAll, SMT
  <1> HIDE DEF t
  <1>7. Deltas(t, op, d, o) /\ \A n \in peers[h] : \E i \in 1..Len(t) : t[i].to = n
    BY <1>4, <1>5, <1>6, SMT DEF Deltas
  <1> QED BY <1>3, <1>7 DEF t

\* Of these, only a release of o itself takes it away.
LEMMA DeltasClean ==
    ASSUME NEW t, NEW op, NEW d, NEW o, Deltas(t, op, d, o),
           NEW x, NEW p, NEW n, op = "leave" => x # d \/ p # o
    PROVE  Clean(t, Taking(x, p, n))
  BY DEF Deltas, Clean, Taking

\* Node h has more to do, nothing that takes o away from n.
LEMMA QueueGrows ==
    ASSUME IInv, ArriveInv, NEW d \in Dir, NEW o \in Owner, NEW n \in Node, Concerned(d, o, n),
           NEW h \in Node, NEW t \in Seq(Send), tasks' = [tasks EXCEPT ![h] = tasks[h] \o t],
           Clean(t, Taking(d, o, n)), UNCHANGED <<wire, conflicts, events>>,
           o \in table[d][n] => o \in table'[d][n]
    PROVE  Arrives(d, o, n)'
  <1>1. Arrives(d, o, n) /\ Home[o] \in Node /\ tasks \in [Node -> Seq(Send)]
    BY DirectoryAssumption DEF ArriveInv, IInv, TasksOK
  <1>2. CASE Excused(d, o, n)
    BY <1>2 DEF Arrives, Excused
  <1>3. CASE OnItsWay(d, o, n, tasks[Home[o]], wire[d][<<Home[o], n>>], table[d][n])
    <2>1. CASE h = Home[o]
      <3>1. tasks'[Home[o]] = tasks[Home[o]] \o t
        BY <1>1, <2>1
      <3>2. OnItsWay(d, o, n, tasks[Home[o]] \o t, wire[d][<<Home[o], n>>], table'[d][n])
        BY <1>1, <1>3, MoreTasks
      <3> QED BY <3>1, <3>2 DEF Arrives
    <2>2. CASE h # Home[o]
      <3>1. tasks'[Home[o]] = tasks[Home[o]]
        BY <1>1, <2>2
      <3> QED BY <1>3, <3>1 DEF Arrives, OnItsWay
    <2> QED BY <2>1, <2>2
  <1> QED BY <1>1, <1>2, <1>3 DEF Arrives

\* join_group and register_name tell every peer the node knows.
LEMMA JoinArrives ==
    ASSUME IInv, LinkInv, ArriveInv, NEW x \in Dir, NEW p \in Owner, Join(x, p)
    PROVE  ArriveInv'
  <1> SUFFICES ASSUME NEW d \in Dir, NEW o \in Owner, NEW n \in Node, Concerned(d, o, n)'
               PROVE  Arrives(d, o, n)'
    BY DEF ArriveInv
  <1>1. Home[p] \in Node /\ Home[o] \in Node /\ tasks \in [Node -> Seq(Send)]
    BY DirectoryAssumption DEF IInv, TasksOK
  <1>2. /\ UNCHANGED <<wire, conflicts, events, conn>>
        /\ o \in table[d][n] => o \in table'[d][n]
        /\ o \in owned[d] \/ (d = x /\ o = p)
    BY <1>1, SMT DEF Join, IInv, TablesOK, Concerned
  <1>3. PICK s \in Listed(peers[Home[p]]) :
            tasks' = [tasks EXCEPT ![Home[p]] = @ \o DeltasTo(s, "join", x, p)]
    BY DEF Join, Broadcast, DeltasTo
  <1> DEFINE t == DeltasTo(s, "join", x, p)
  <1>4. /\ t \in Seq(Send) /\ Deltas(t, "join", x, p)
        /\ \A m \in peers[Home[p]] : \E i \in 1..Len(t) : t[i].to = m
    BY <1>1, DeltaTasks
  <1>5. tasks' = [tasks EXCEPT ![Home[p]] = tasks[Home[p]] \o t]
    BY <1>3
  <1> HIDE DEF t
  <1>6. Clean(t, Taking(d, o, n))
    BY <1>4, DeltasClean, SMT
  <1>7. CASE o \in owned[d]
    BY <1>1, <1>2, <1>4, <1>5, <1>6, <1>7, QueueGrows DEF Concerned
  <1>8. CASE d = x /\ o = p
    <2>1. n \in peers[Home[o]] \/ ~Clean(events[Home[o]], Up(n))
      BY <1>1, <1>2 DEF LinkInv, Concerned
    <2>2. CASE ~Clean(events[Home[o]], Up(n))
      BY <1>2, <2>2 DEF Arrives, Excused
    <2>3. CASE n \in peers[Home[o]]
      <3>1. PICK i \in 1..Len(t) : t[i].to = n
        BY <1>4, <1>8, <2>3
      <3>2. t[i] \in Bringing(d, o, n)
        BY <1>4, <1>8, <3>1, SMT DEF Deltas, Bringing
      <3>3. \A j \in (i + 1)..Len(t) : j \in 1..Len(t)
        <4>1. PICK k \in Nat : k = Len(t)
          BY <1>4, SMT
        <4> QED BY <3>1, <4>1, SMT
      <3>4. Pending(t, Bringing(d, o, n), Taking(d, o, n))
        BY <1>6, <3>2, <3>3 DEF Pending, Clean
      <3>5. Pending(tasks[Home[o]] \o t, Bringing(d, o, n), Taking(d, o, n))
        BY <1>1, <1>4, <3>4, CleanConcat
      <3>6. tasks'[Home[o]] = tasks[Home[o]] \o t
        BY <1>1, <1>5, <1>8
      <3> QED BY <3>5, <3>6 DEF Arrives, OnItsWay
    <2> QED BY <2>1, <2>2, <2>3
  <1> QED BY <1>2, <1>7, <1>8

\* leave_group, unregister_name and the end of an actor concern nobody else.
LEMMA LeaveArrives ==
    ASSUME IInv, ArriveInv, NEW x \in Dir, NEW p \in Owner, Leave(x, p)
    PROVE  ArriveInv'
  <1> SUFFICES ASSUME NEW d \in Dir, NEW o \in Owner, NEW n \in Node, Concerned(d, o, n)'
               PROVE  Arrives(d, o, n)'
    BY DEF ArriveInv
  <1>1. Home[p] \in Node
    BY DirectoryAssumption
  <1>2. /\ UNCHANGED <<wire, conflicts, events, conn>>
        /\ o \in owned[d] /\ (d # x \/ o # p)
        /\ o \in table[d][n] => o \in table'[d][n]
    BY <1>1, SMT DEF Leave, IInv, TablesOK, Concerned
  <1>3. PICK s \in Listed(peers[Home[p]]) :
            tasks' = [tasks EXCEPT ![Home[p]] = @ \o DeltasTo(s, "leave", x, p)]
    BY DEF Leave, Broadcast, DeltasTo
  <1> DEFINE t == DeltasTo(s, "leave", x, p)
  <1>4. t \in Seq(Send) /\ Deltas(t, "leave", x, p)
    BY <1>1, DeltaTasks
  <1>5. tasks' = [tasks EXCEPT ![Home[p]] = tasks[Home[p]] \o t]
    BY <1>3
  <1> HIDE DEF t
  <1>6. Clean(t, Taking(d, o, n))
    BY <1>2, <1>4, DeltasClean, SMT
  <1> QED BY <1>1, <1>2, <1>4, <1>5, <1>6, QueueGrows DEF Concerned

LEMMA ClearArrives ==
    ASSUME IInv, ArriveInv, NEW p \in Owner, Clear(p)
    PROVE  ArriveInv'
  <1> SUFFICES ASSUME NEW d \in Dir, NEW o \in Owner, NEW n \in Node, Concerned(d, o, n)'
               PROVE  Arrives(d, o, n)'
    BY DEF ArriveInv
  <1>1. Home[p] \in Node
    BY DirectoryAssumption
  <1>2. /\ UNCHANGED <<wire, conflicts, events, conn>>
        /\ o \in owned[d] /\ o # p
        /\ o \in table[d][n] => o \in table'[d][n]
    BY <1>1, SMT DEF Clear, IInv, TablesOK, Concerned
  <1> DEFINE in == {x \in Dir : p \in table[x][Home[p]]}
  <1>3. PICK s \in Listed(peers[Home[p]]) :
            tasks' = [tasks EXCEPT ![Home[p]] =
                @ \o (IF "group" \in in THEN DeltasTo(s, "leave", "group", p) ELSE << >>)
                  \o (IF "name" \in in THEN DeltasTo(s, "leave", "name", p) ELSE << >>)]
    BY DEF Clear, DeltasTo
  <1> DEFINE t1 == IF "group" \in in THEN DeltasTo(s, "leave", "group", p) ELSE << >>
             t2 == IF "name" \in in THEN DeltasTo(s, "leave", "name", p) ELSE << >>
  <1>4. ASSUME NEW x \in Dir
        PROVE  /\ DeltasTo(s, "leave", x, p) \in Seq(Send)
               /\ Clean(DeltasTo(s, "leave", x, p), Taking(d, o, n))
    <2>1. /\ DeltasTo(s, "leave", x, p) \in Seq(Send)
          /\ Deltas(DeltasTo(s, "leave", x, p), "leave", x, p)
      BY <1>1, DeltaTasks
    <2> QED BY <1>2, <2>1, DeltasClean
  <1>5. << >> \in Seq(Send) /\ Clean(<< >>, Taking(d, o, n))
    BY SMT DEF Clean
  <1>6. /\ t1 \in Seq(Send) /\ Clean(t1, Taking(d, o, n))
        /\ t2 \in Seq(Send) /\ Clean(t2, Taking(d, o, n))
    BY <1>4, <1>5
  <1>7. tasks' = [tasks EXCEPT ![Home[p]] = (tasks[Home[p]] \o t1) \o t2]
    BY <1>3
  <1> HIDE DEF t1, t2
  <1>8. tasks[Home[p]] \in Seq(Send)
    BY <1>1 DEF IInv, TasksOK
  <1>9. (tasks[Home[p]] \o t1) \o t2 = tasks[Home[p]] \o (t1 \o t2)
    <2>1. PICK q \in Seq(Send), u \in Seq(Send), v \in Seq(Send) :
              q = tasks[Home[p]] /\ u = t1 /\ v = t2
      BY <1>6, <1>8
    <2>2. (q \o u) \o v = q \o (u \o v)
      BY SMT
    <2> QED BY <2>1, <2>2
  <1>10. t1 \o t2 \in Seq(Send) /\ Clean(t1 \o t2, Taking(d, o, n))
    BY <1>6, SeqOps, CleanConcat
  <1>11. tasks' = [tasks EXCEPT ![Home[p]] = tasks[Home[p]] \o (t1 \o t2)]
    BY <1>7, <1>9
  <1> QED BY <1>1, <1>2, <1>10, <1>11, QueueGrows DEF Concerned

\* _send_delta and _send_snapshot: a snapshot has every owner of the node.
LEMMA RunTaskArrives ==
    ASSUME IInv, ArriveInv, NEW h \in Node, RunTask(h)
    PROVE  ArriveInv'
  <1> SUFFICES ASSUME NEW d \in Dir, NEW o \in Owner, NEW n \in Node, Concerned(d, o, n)'
               PROVE  Arrives(d, o, n)'
    BY DEF ArriveInv
  <1> DEFINE T == tasks[h]
             W == wire[d][<<Home[o], n>>]
  <1>1. /\ UNCHANGED <<table, owned, conflicts, conn, events>> /\ T # << >>
        /\ tasks' = [tasks EXCEPT ![h] = Tail(T)]
    BY DEF RunTask
  <1>2. /\ Home[o] \in Node /\ T \in Seq(Send) /\ tasks \in [Node -> Seq(Send)]
        /\ <<Home[o], n>> \in conn /\ <<Home[o], n>> \in Pair /\ W \in Seq(Message)
        /\ wire \in [Dir -> [Pair -> Seq(Message)]]
    BY <1>1, DirectoryAssumption DEF IInv, TasksOK, OthersOK, WireOK, Concerned
  <1>3. PICK t \in Send : t = Head(T)
    BY <1>1, <1>2, SeqOps
  <1> DEFINE msg == IF t.op = "snapshot" THEN [op |-> t.op, all |-> table[t.d][h]]
                    ELSE [op |-> t.op, o |-> t.o]
  <1>4. wire' = IF <<h, t.to>> \in conn /\ (t.op = "snapshot" => table[t.d][h] # {})
                THEN [wire EXCEPT ![t.d][<<h, t.to>>] = Append(@, msg)]
                ELSE wire
    BY <1>3 DEF RunTask
  <1>5. t.d \in Dir
    BY DEF Send
  <1>6. Arrives(d, o, n)
    BY <1>1 DEF ArriveInv, Concerned
  <1>7. CASE Excused(d, o, n)
    BY <1>1, <1>7 DEF Arrives, Excused
  <1>8. CASE /\ OnItsWay(d, o, n, tasks[Home[o]], W, table[d][n])
             /\ t.d = d /\ t.to = n /\ h = Home[o]
    <2>1. o \in table[d][h]
      BY <1>1, <1>8 DEF IInv, OwnEntryKept, Concerned
    <2>2. wire'[d][<<Home[o], n>>] = Append(W, msg)
      <3> HIDE DEF msg
      <3> QED BY <1>2, <1>4, <1>8, <2>1
    <2>3. /\ msg \in Message
          /\ t \in Bringing(d, o, n) => msg \in Telling(o)
          /\ msg \in Retracting(o) => t \in Taking(d, o, n)
      <3>1. CASE t.op = "snapshot"
        <4>1. table[d][h] \subseteq Owner
          BY SMT DEF IInv, TablesOK
        <4>2. msg = [op |-> "snapshot", all |-> table[d][h]]
          BY <1>8, <3>1
        <4> HIDE DEF msg
        <4> QED BY <2>1, <4>1, <4>2 DEF Message, Telling, Retracting
      <3>2. CASE t.op # "snapshot"
        <4>1. t.op \in {"join", "leave"} /\ t.o \in Owner
          BY <3>2 DEF Send
        <4>2. msg = [op |-> t.op, o |-> t.o]
          BY <3>2
        <4>3. t \in Bringing(d, o, n) => t.op = "join" /\ t.o = o
          BY <3>2 DEF Bringing
        <4>4. t.op = "leave" /\ t.o = o => t \in Taking(d, o, n)
          BY <1>8 DEF Taking
        <4> HIDE DEF msg
        <4> QED BY <4>1, <4>2, <4>3, <4>4 DEF Message, Telling, Retracting
      <3> QED BY <3>1, <3>2
    <2> HIDE DEF msg
    <2>4. OnItsWay(d, o, n, Tail(T), Append(W, msg), table[d][n])
      BY <1>1, <1>2, <1>3, <1>8, <2>3, TaskRuns
    <2>5. tasks'[Home[o]] = Tail(T)
      BY <1>1, <1>2, <1>8
    <2> QED BY <1>1, <2>2, <2>4, <2>5 DEF Arrives
  <1>9. CASE /\ OnItsWay(d, o, n, tasks[Home[o]], W, table[d][n])
             /\ ~(t.d = d /\ t.to = n /\ h = Home[o])
    <2>1. wire'[d][<<Home[o], n>>] = W
      <3> HIDE DEF msg
      <3>1. t.d # d \/ <<h, t.to>> # <<Home[o], n>>
        BY <1>9
      <3>2. <<h, t.to>> \in conn => <<h, t.to>> \in Pair
        BY DEF IInv, OthersOK
      <3> QED BY <1>2, <1>4, <1>5, <3>1, <3>2
    <2>2. CASE h = Home[o]
      <3>1. t \notin Bringing(d, o, n)
        BY <1>9, <2>2 DEF Bringing
      <3>2. OnItsWay(d, o, n, Tail(T), W, table[d][n])
        BY <1>1, <1>2, <1>3, <1>9, <2>2, <3>1, TaskRuns
      <3>3. tasks'[Home[o]] = Tail(T)
        BY <1>1, <1>2, <2>2
      <3> QED BY <1>1, <2>1, <3>2, <3>3 DEF Arrives
    <2>3. CASE h # Home[o]
      <3>1. tasks'[Home[o]] = tasks[Home[o]]
        BY <1>1, <1>2, <2>3
      <3> QED BY <1>1, <1>9, <2>1, <3>1 DEF Arrives
    <2> QED BY <2>2, <2>3
  <1> QED BY <1>6, <1>7, <1>8, <1>9 DEF Arrives

\* _GroupsActor.receive and _RegistryActor.receive: an owner that n does not
\* list is a conflict reported there.
LEMMA ReceiveArrives ==
    ASSUME IInv, ArriveInv, NEW x \in Dir, NEW p \in Pair, Receive(x, p)
    PROVE  ArriveInv'
  <1> SUFFICES ASSUME NEW d \in Dir, NEW o \in Owner, NEW n \in Node, Concerned(d, o, n)'
               PROVE  Arrives(d, o, n)'
    BY DEF ArriveInv
  <1> DEFINE W == wire[d][<<Home[o], n>>]
             msg == Head(wire[x][p])
             new == IF msg.op = "join" THEN {msg.o} ELSE msg.all
             ok == {q \in new : Accepts(x, p[2], q)}
  <1>1. /\ UNCHANGED <<owned, tasks, conn, events>> /\ wire[x][p] # << >>
        /\ wire' = [wire EXCEPT ![x][p] = Tail(wire[x][p])]
        /\ conflicts \subseteq conflicts'
    BY DEF Receive
  <1>2. /\ <<Home[o], n>> \in conn /\ <<Home[o], n>> \in Pair /\ W \in Seq(Message)
        /\ wire \in [Dir -> [Pair -> Seq(Message)]] /\ wire[x][p] \in Seq(Msg(x, p))
        /\ p[2] \in Node /\ p = <<p[1], p[2]>> /\ table \in [Dir -> [Node -> SUBSET Owner]]
    <2>1. <<Home[o], n>> \in conn /\ <<Home[o], n>> \in Pair
      BY <1>1 DEF IInv, OthersOK, Concerned
    <2>2. p[2] \in Node /\ p = <<p[1], p[2]>>
      BY SMT DEF Pair
    <2> QED BY <2>1, <2>2 DEF IInv, WireOK, TablesOK
  <1>3. msg \in Msg(x, p) /\ msg \in Message
    <2>1. msg \in Msg(x, p)
      BY <1>1, <1>2, SeqOps
    <2> QED BY <2>1 DEF Msg
  <1>4. \/ msg.op = "leave" /\ table' = [table EXCEPT ![x][p[2]] = @ \ {msg.o}]
        \/ /\ msg.op # "leave" /\ table' = [table EXCEPT ![x][p[2]] = @ \union ok]
           /\ conflicts' = conflicts \union {<<p[2], q>> : q \in new \ ok}
    BY DEF Receive
  <1>5. Arrives(d, o, n)
    BY <1>1 DEF ArriveInv, Concerned
  <1>6. CASE Excused(d, o, n)
    BY <1>1, <1>6 DEF Arrives, Excused
  <1>7. CASE OnItsWay(d, o, n, tasks[Home[o]], W, table[d][n]) /\ d = x /\ p = <<Home[o], n>>
    <2>1. p[2] = n /\ wire'[d][<<Home[o], n>>] = Tail(W) /\ W # << >>
      BY <1>1, <1>2, <1>7
    <2>2. CASE msg.op = "leave"
      <3>1. table'[d][n] = table[d][n] \ {msg.o}
        <4> HIDE DEF msg
        <4> QED BY <1>2, <1>4, <1>7, <2>1, <2>2, SMT
      <3>2. msg \notin Telling(o) /\ (msg \notin Retracting(o) => msg.o # o)
        BY <1>3, <2>2 DEF Telling, Retracting
      <3>3. OnItsWay(d, o, n, tasks[Home[o]], Tail(W), table'[d][n])
        BY <1>2, <1>7, <2>1, <3>1, <3>2, MessageHandled
      <3> QED BY <1>1, <2>1, <3>3 DEF Arrives
    <2>3. CASE msg.op # "leave"
      <3>1. table'[d][n] = table[d][n] \union ok
        <4> HIDE DEF ok
        <4> QED BY <1>2, <1>4, <1>7, <2>1, <2>3, SMT
      <3>2. msg \in Telling(o) => o \in new
        BY <1>3, <2>3 DEF Telling
      <3>3. CASE o \in new /\ o \notin ok
        <4>1. d = "name"
          BY <1>7, <3>3 DEF Accepts
        <4>2. <<n, o>> \in conflicts'
          <5> HIDE DEF ok, new
          <5> QED BY <1>4, <2>1, <2>3, <3>3
        <4> QED BY <4>1, <4>2 DEF Arrives, Excused
      <3>4. CASE o \in new => o \in ok
        <4> HIDE DEF ok, new
        <4>1. OnItsWay(d, o, n, tasks[Home[o]], Tail(W), table'[d][n])
          BY <1>2, <1>7, <2>1, <3>1, <3>2, <3>4, MessageHandled
        <4> QED BY <1>1, <2>1, <4>1 DEF Arrives
      <3> QED BY <3>3, <3>4
    <2> QED BY <2>2, <2>3
  <1>8. CASE OnItsWay(d, o, n, tasks[Home[o]], W, table[d][n]) /\ ~(d = x /\ p = <<Home[o], n>>)
    <2>1. wire'[d][<<Home[o], n>>] = W
      BY <1>1, <1>2, <1>8
    <2>2. o \in table[d][n] => o \in table'[d][n]
      <3>1. msg.op = "leave" => Home[msg.o] = p[1]
        BY <1>3 DEF Msg
      <3>2. d = x /\ n = p[2] => p[1] # Home[o]
        BY <1>2, <1>8
      <3> HIDE DEF ok, msg
      <3> QED BY <1>2, <1>4, <3>1, <3>2, SMT
    <2> QED BY <1>1, <1>8, <2>1, <2>2 DEF Arrives, OnItsWay
  <1> QED BY <1>5, <1>6, <1>7, <1>8 DEF Arrives

\* The snapshots of a new peer bring it whatever is listed.
LEMMA SnapshotsBring ==
    ASSUME NEW d \in Dir, NEW o \in Owner, NEW n \in Node, NEW q \in Node
    PROVE  /\ Snapshots(q) \in Seq(Send) /\ Clean(Snapshots(q), Taking(d, o, n))
           /\ q = n => Pending(Snapshots(q), Bringing(d, o, n), Taking(d, o, n))
  <1> DEFINE B == Bringing(d, o, n)
             L == Taking(d, o, n)
             task(x) == [op |-> "snapshot", d |-> x, to |-> q]
             one(x) == IF x \in Dir THEN <<task(x)>> ELSE << >>
  <1>1. ASSUME NEW x
        PROVE  one(x) \in Seq(Send) /\ Clean(one(x), L) /\ (x = d /\ q = n => Pending(one(x), B, L))
    <2>1. CASE x \in Dir
      <3>1. task(x) \in Send /\ task(x) \notin L /\ (x = d /\ q = n => task(x) \in B)
        BY <2>1 DEF Send, Taking, Bringing
      <3>2. one(x) = <<task(x)>>
        BY <2>1
      <3> HIDE DEF one, task, B, L
      <3>3. Clean(<<task(x)>>, L) /\ (task(x) \in B => Pending(<<task(x)>>, B, L))
        BY <3>1, SMT DEF Clean, Pending
      <3> QED BY <3>1, <3>2, <3>3, SMT
    <2>2. CASE x \notin Dir
      BY <2>2, SMT DEF Clean
    <2> QED BY <2>1, <2>2
  <1>2. Snapshots(q) = one("group") \o one("name")
    BY DEF Snapshots
  <1>3. d = "group" \/ d = "name"
    BY DirectoryAssumption
  <1> HIDE DEF one, B, L
  <1>4. Snapshots(q) \in Seq(Send) /\ Clean(Snapshots(q), L)
    <2>1. one("group") \in Seq(Send) /\ one("name") \in Seq(Send)
      BY <1>1
    <2>2. one("group") \o one("name") \in Seq(Send)
      BY <2>1, SeqOps
    <2>3. Clean(one("group") \o one("name"), L)
      BY <1>1, <2>1, CleanConcat
    <2> QED BY <1>2, <2>2, <2>3
  <1>5. ASSUME q = n PROVE Pending(Snapshots(q), B, L)
    BY <1>1, <1>2, <1>3, <1>5, CleanConcat
  <1> QED BY <1>4, <1>5 DEF B, L

\* The listeners: the peer_connected of a connection makes its snapshots, and
\* the entries that a peer_disconnected drops are of a peer that is gone.
LEMMA PeerEventArrives ==
    ASSUME IInv, LinkInv, ArriveInv, NEW m \in Node, PeerEvent(m)
    PROVE  ArriveInv'
  <1> SUFFICES ASSUME NEW d \in Dir, NEW o \in Owner, NEW n \in Node, Concerned(d, o, n)'
               PROVE  Arrives(d, o, n)'
    BY DEF ArriveInv
  <1> DEFINE h == Home[o]
  <1>1. /\ UNCHANGED <<owned, wire, conflicts, conn>> /\ events[m] # << >>
        /\ events' = [events EXCEPT ![m] = Tail(events[m])]
    BY DEF PeerEvent
  <1>2. /\ h \in Node /\ <<h, n>> \in conn /\ <<n, h>> \in conn
        /\ events \in [Node -> Seq(Event)] /\ tasks \in [Node -> Seq(Send)]
        /\ table \in [Dir -> [Node -> SUBSET Owner]]
        /\ Clean(events[n], Down(h)) /\ Arrives(d, o, n)
    BY <1>1, DirectoryAssumption
    DEF IInv, EventsOK, TasksOK, TablesOK, Concerned, LinkInv, ArriveInv
  <1>3. PICK e \in Event : e = Head(events[m])
    BY <1>1, <1>2, SeqOps
  <1>4. \/ /\ e.kind = "peer_connected" /\ table' = table
           /\ tasks' = [tasks EXCEPT ![m] = tasks[m] \o Snapshots(e.peer)]
        \/ e.kind = "peer_disconnected" /\ tasks' = tasks /\ table' = Drop(m, e.peer)
    BY <1>3 DEF PeerEvent
  <1>5. \A L : Clean(events[m], L) <=> e \notin L /\ Clean(Tail(events[m]), L)
    BY <1>1, <1>2, <1>3, CleanTail
  <1>6. o \in table[d][n] => o \in table'[d][n]
    <2>1. CASE table' = table
      BY <2>1
    <2>2. CASE e.kind = "peer_disconnected" /\ table' = Drop(m, e.peer)
      <3>1. m = n => e.peer # h
        BY <1>2, <1>5, <2>2, SMT DEF Down
      <3> QED BY <1>2, <2>2, <3>1 DEF Drop
    <2> QED BY <1>4, <2>1, <2>2
  <1>7. e.peer \in Node
    BY DEF Event
  <1>8. CASE m = h /\ e \in Up(n)
    <2>1. e.kind = "peer_connected" /\ e.peer = n
      BY <1>8 DEF Up
    <2>2. tasks'[h] = tasks[h] \o Snapshots(n)
      BY <1>2, <1>4, <1>8, <2>1
    <2>3. Pending(tasks'[h], Bringing(d, o, n), Taking(d, o, n))
      BY <1>2, <2>2, SnapshotsBring, CleanConcat
    <2> QED BY <2>3 DEF Arrives, OnItsWay
  <1>9. CASE ~(m = h /\ e \in Up(n)) /\ Excused(d, o, n)
    <2>1. ~Clean(events[h], Up(n)) => ~Clean(events'[h], Up(n))
      BY <1>1, <1>2, <1>5, <1>9
    <2> QED BY <1>1, <1>9, <2>1 DEF Arrives, Excused
  <1>10. CASE OnItsWay(d, o, n, tasks[h], wire[d][<<h, n>>], table[d][n])
    <2>1. \/ tasks'[h] = tasks[h]
          \/ tasks'[h] = tasks[h] \o Snapshots(e.peer)
      BY <1>2, <1>4
    <2>2. CASE tasks'[h] = tasks[h]
      BY <1>1, <1>6, <1>10, <2>2 DEF Arrives, OnItsWay
    <2>3. CASE tasks'[h] = tasks[h] \o Snapshots(e.peer)
      <3>1. OnItsWay(d, o, n, tasks[h] \o Snapshots(e.peer), wire[d][<<h, n>>], table'[d][n])
        BY <1>2, <1>6, <1>7, <1>10, SnapshotsBring, MoreTasks
      <3> QED BY <1>1, <2>3, <3>1 DEF Arrives
    <2> QED BY <2>1, <2>2, <2>3
  <1> QED BY <1>2, <1>8, <1>9, <1>10 DEF Arrives

\* A connection is announced to both of its ends, and a break costs no other
\* connection anything.
LEMMA ConnectionArrives ==
    ASSUME IInv, ArriveInv, NEW p \in Pair, Connect(p) \/ Break(p)
    PROVE  ArriveInv'
  <1> SUFFICES ASSUME NEW d \in Dir, NEW o \in Owner, NEW n \in Node, Concerned(d, o, n)'
               PROVE  Arrives(d, o, n)'
    BY DEF ArriveInv
  <1> DEFINE h == Home[o]
  <1>1. /\ UNCHANGED <<table, owned, tasks, conflicts>>
        /\ p[1] # p[2] /\ p = <<p[1], p[2]>>
    BY SMT DEF Connect, Break, Pair
  <1>2. h \in Node /\ <<h, n>> \in conn' /\ events[h] \in Seq(Event)
    BY DirectoryAssumption DEF Concerned, IInv, EventsOK
  <1>3. CASE <<h, n>> \in conn
    <2>1. Arrives(d, o, n)
      BY <1>1, <1>3 DEF ArriveInv, Concerned
    <2>2. wire'[d][<<h, n>>] = wire[d][<<h, n>>]
      <3>1. <<h, n>> \in Pair
        BY <1>3 DEF IInv, OthersOK
      <3> QED BY <1>2, <3>1 DEF Connect, Break
    <2>3. ~Clean(events[h], Up(n)) => ~Clean(events'[h], Up(n))
      <3>1. PICK kind \in {"peer_connected", "peer_disconnected"} : Notify(p, kind)
        BY DEF Connect, Break
      <3>2. events'[h] = events[h] \/ \E e \in Event : events'[h] = Append(events[h], e)
        BY <1>2, <3>1, Notified
      <3>3. ASSUME NEW e \in Event PROVE Clean(Append(events[h], e), Up(n)) => Clean(events[h], Up(n))
        BY <1>2, CleanAppend
      <3> QED BY <3>2, <3>3
    <2>4. CASE Excused(d, o, n)
      BY <1>1, <2>3, <2>4 DEF Arrives, Excused
    <2>5. CASE OnItsWay(d, o, n, tasks[h], wire[d][<<h, n>>], table[d][n])
      BY <1>1, <2>2, <2>5 DEF Arrives
    <2> QED BY <2>1, <2>4, <2>5 DEF Arrives
  <1>4. CASE <<h, n>> \notin conn
    <2>1. Notify(p, "peer_connected") /\ <<h, n>> \in {p, <<p[2], p[1]>>}
      BY <1>2, <1>4 DEF Connect, Break
    <2>2. h \in {p[1], p[2]}
      BY <1>1, <2>1, SMT
    <2>3. PICK e \in Event : /\ events'[h] = Append(events[h], e) /\ e.kind = "peer_connected"
                             /\ \/ h = p[1] /\ e.peer = p[2]
                                \/ h = p[2] /\ e.peer = p[1]
      BY <1>2, <2>1, <2>2, Notified
    <2>4. e.peer = n
      BY <1>1, <2>1, <2>3, SMT
    <2>5. e \in Up(n)
      BY <2>3, <2>4 DEF Up
    <2>6. ~Clean(events'[h], Up(n))
      <3>1. Clean(Append(events[h], e), Up(n)) => e \notin Up(n)
        BY <1>2, CleanAppend
      <3> QED BY <2>3, <2>5, <3>1
    <2> QED BY <2>6 DEF Arrives, Excused
  <1> QED BY <1>3, <1>4

\* As long as a node hears of a connection before any data of it, whatever
\* joins, breaks and reconnects in between: once all nodes are connected and
\* have nothing left to do, every group member is listed on every node, and
\* every owner of a name too, or the conflict was reported there.
THEOREM EntriesTheorem == ~LateEvents => (Spec => []EntriesArrive)
  <1> SUFFICES ASSUME ~LateEvents PROVE Spec => []EntriesArrive
    OBVIOUS
  <1>1. Init => LinkInv /\ ArriveInv
    BY DEF Init, LinkInv, ArriveInv, Concerned
  <1>2. IInv /\ LinkInv /\ [Next]_vars => LinkInv'
    BY NextLinks
  <1>3. IInv /\ LinkInv /\ ArriveInv /\ [Next]_vars => ArriveInv'
    <2>1. ASSUME ArriveInv, UNCHANGED vars PROVE ArriveInv'
      BY <2>1 DEF vars, ArriveInv, Concerned, Arrives, Excused
    <2> QED BY <2>1, JoinArrives, LeaveArrives, ClearArrives, RunTaskArrives, ReceiveArrives,
               PeerEventArrives, ConnectionArrives DEF Next
  <1>4. IInv /\ ArriveInv => EntriesArrive
    <2> SUFFICES ASSUME IInv, ArriveInv, Quiescent,
                        NEW d \in Dir, NEW o \in owned[d], NEW n \in Node
                 PROVE  o \in table[d][n] \/ (d = "name" /\ <<n, o>> \in conflicts)
      BY DEF EntriesArrive
    <2>1. o \in Owner /\ Home[o] \in Node
      BY DirectoryAssumption DEF IInv, TablesOK
    <2>2. CASE n = Home[o]
      BY <2>2 DEF IInv, OwnEntryKept
    <2>3. CASE n # Home[o]
      <3>1. <<Home[o], n>> \in Pair
        BY <2>1, <2>3 DEF Pair
      <3>2. Arrives(d, o, n)
        BY <2>1, <3>1 DEF ArriveInv, Concerned, Quiescent
      <3>3. /\ events[Home[o]] = << >> /\ tasks[Home[o]] = << >>
            /\ wire[d][<<Home[o], n>>] = << >>
        BY <2>1, <3>1 DEF Quiescent
      <3>4. \A C, L : Clean(<< >>, L) /\ ~Pending(<< >>, C, L)
        BY SMT DEF Clean, Pending
      <3> QED BY <3>2, <3>3, <3>4 DEF Arrives, Excused, OnItsWay
    <2> QED BY <2>2, <2>3
  <1> QED BY <1>1, <1>2, <1>3, <1>4, AlwaysIInv, PTL DEF Spec
=============================================================================
