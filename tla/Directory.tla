------------------------------ MODULE Directory ------------------------------
(***************************************************************************)
(* The two replicated directories: process groups (lapinbeam/groups.py)    *)
(* and the name registry (lapinbeam/registry.py).  They are the same       *)
(* protocol, a delta to every known peer for each change and a snapshot    *)
(* to each new peer, over a different table: one group is a set of         *)
(* members, one name a set of at most one owner, kept on conflict.         *)
(*                                                                         *)
(* A node's loop runs the tasks it created in order.  Messages of one      *)
(* directory from one node to another stay in order.  The events of a      *)
(* node's core come by a path of their own, so data sent before a break    *)
(* may be handled after the peer_disconnected of it.                       *)
(***************************************************************************)
EXTENDS Naturals, Sequences, FiniteSets

CONSTANTS
    Dir,        \* of {"group", "name"}: one group, one registered name
    Node,
    Owner, Home, \* the actors that join or register, and the node of each
    MaxCalls,   \* bound: calls of join, leave and the like
    MaxBreaks,  \* bound: how many connections break
    LateEvents  \* an event may reach the loop after data of a later connection

ASSUME DirectoryAssumption ==
    /\ Dir \subseteq {"group", "name"}
    /\ IsFiniteSet(Node)
    /\ Home \in [Owner -> Node]
    /\ MaxCalls \in Nat /\ MaxBreaks \in Nat /\ LateEvents \in BOOLEAN

VARIABLES
    table,     \* Node._groups and Node._registry: what each node has listed
    owned,     \* history: who has joined or claimed, and not left since
    peers,     \* Node._group_peers and Node._registry_peers
    tasks,     \* per node: _send_delta and _send_snapshot not run yet
    wire,      \* messages to each node's directory actors
    conflicts, \* history: <<node, owner>> of the registry_conflict events
    conn,      \* the pairs of nodes that are connected
    events,    \* per node: events its loop has not handled
    calls, breaks
vars == <<table, owned, peers, tasks, wire, conflicts, conn, events, calls, breaks>>

Pair == {p \in Node \X Node : p[1] # p[2]}
Send == [op : {"join", "leave"}, d : Dir, o : Owner, to : Node]
           \union [op : {"snapshot"}, d : Dir, to : Node]
Message == [op : {"join", "leave"}, o : Owner]
              \union [op : {"snapshot"}, all : SUBSET Owner]
Event == [kind : {"peer_connected", "peer_disconnected"}, peer : Node]

TypeOK ==
    /\ table \in [Dir -> [Node -> SUBSET Owner]]
    /\ \A n \in Node, d \in Dir \cap {"name"} :
          \A o, p \in table[d][n] : o = p
    /\ owned \in [Dir -> SUBSET Owner]
    /\ peers \in [Node -> SUBSET Node]
    /\ tasks \in [Node -> Seq(Send)]
    /\ wire \in [Dir -> [Pair -> Seq(Message)]]
    /\ conflicts \subseteq Node \X Owner
    /\ conn \subseteq Pair
    /\ events \in [Node -> Seq(Event)]
    /\ calls \in 0..MaxCalls /\ breaks \in 0..MaxBreaks

Init ==
    /\ table = [d \in Dir |-> [n \in Node |-> {}]]
    /\ owned = [d \in Dir |-> {}]
    /\ peers = [n \in Node |-> {}]
    /\ tasks = [n \in Node |-> << >>]
    /\ wire = [d \in Dir |-> [p \in Pair |-> << >>]]
    /\ conflicts = {}
    /\ conn = {}
    /\ events = [n \in Node |-> << >>]
    /\ calls = 0 /\ breaks = 0

\* One element after another, in any order (the loops over sets of the code).
Listed(S) == {s \in [1..Cardinality(S) -> S] : \A i, j \in DOMAIN s : s[i] = s[j] => i = j}

-----------------------------------------------------------------------------
(* The calls                                                               *)

\* _broadcast: one task for every known peer.
Broadcast(n, op, d, o) ==
    \E s \in Listed(peers[n]) :
        tasks' = [tasks EXCEPT ![n] =
            @ \o [i \in DOMAIN s |-> [op |-> op, d |-> d, o |-> o, to |-> s[i]]]]

Called == calls < MaxCalls /\ calls' = calls + 1

\* join_group and register_name, which raises if another owner is known.
Join(d, o) ==
    /\ Called
    /\ d = "name" => table[d][Home[o]] \subseteq {o}
    /\ table' = [table EXCEPT ![d][Home[o]] = @ \union {o}]
    /\ owned' = [owned EXCEPT ![d] = @ \union {o}]
    /\ Broadcast(Home[o], "join", d, o)
    /\ UNCHANGED <<peers, wire, conflicts, conn, events, breaks>>

\* leave_group, which tells the peers whatever is listed, and unregister_name,
\* a no-op for anyone but the listed owner.
Leave(d, o) ==
    /\ Called
    /\ d = "name" => o \in table[d][Home[o]]
    /\ table' = [table EXCEPT ![d][Home[o]] = @ \ {o}]
    /\ owned' = [owned EXCEPT ![d] = @ \ {o}]
    /\ Broadcast(Home[o], "leave", d, o)
    /\ UNCHANGED <<peers, wire, conflicts, conn, events, breaks>>

\* _clear_groups and _clear_registry when a generation of o ends: it leaves
\* everything its node has it listed in, the group first.
Clear(o) ==
    LET in == {d \in Dir : o \in table[d][Home[o]]}
        leave(d, n) == [op |-> "leave", d |-> d, o |-> o, to |-> n]
    IN  /\ Called
        /\ in # {}
        /\ table' = [d \in Dir |-> [table[d] EXCEPT ![Home[o]] = @ \ {o}]]
        /\ owned' = [d \in Dir |-> owned[d] \ {o}]
        /\ \E s \in Listed(peers[Home[o]]) :
              tasks' = [tasks EXCEPT ![Home[o]] =
                  @ \o (IF "group" \in in THEN [i \in DOMAIN s |-> leave("group", s[i])] ELSE << >>)
                    \o (IF "name" \in in THEN [i \in DOMAIN s |-> leave("name", s[i])] ELSE << >>)]
        /\ UNCHANGED <<peers, wire, conflicts, conn, events, breaks>>

-----------------------------------------------------------------------------
(* The loop                                                                *)

\* _send_delta, _send_snapshot: what is listed when the task runs, if anything;
\* lost without a connection.
RunTask(n) ==
    /\ tasks[n] # << >>
    /\ tasks' = [tasks EXCEPT ![n] = Tail(@)]
    /\ LET t == Head(tasks[n])
           msg == IF t.op = "snapshot" THEN [op |-> t.op, all |-> table[t.d][n]]
                  ELSE [op |-> t.op, o |-> t.o]
       IN  wire' = IF <<n, t.to>> \in conn /\ (t.op = "snapshot" => table[t.d][n] # {})
                   THEN [wire EXCEPT ![t.d][<<n, t.to>>] = Append(@, msg)]
                   ELSE wire
    /\ UNCHANGED <<table, owned, peers, conflicts, conn, events, calls, breaks>>

\* Whether node n lists o when told of it: a name keeps the owner it has.
AcceptsAny(d, n, o) == TRUE
Accepts(d, n, o) == d = "name" => table[d][n] \subseteq {o}

\* _GroupsActor.receive and _RegistryActor.receive.
Receive(d, p) ==
    LET n == p[2]
        msg == Head(wire[d][p])
        new == IF msg.op = "join" THEN {msg.o} ELSE msg.all
        ok == {o \in new : Accepts(d, n, o)}
    IN  /\ wire[d][p] # << >>
        /\ wire' = [wire EXCEPT ![d][p] = Tail(@)]
        /\ \/ /\ msg.op = "leave"
              /\ table' = [table EXCEPT ![d][n] = @ \ {msg.o}]
              /\ UNCHANGED conflicts
           \/ /\ msg.op # "leave"
              /\ table' = [table EXCEPT ![d][n] = @ \union ok]
              /\ conflicts' = conflicts \union {<<n, o>> : o \in new \ ok}
        /\ UNCHANGED <<owned, peers, tasks, conn, events, calls, breaks>>

\* The listeners of register_groups and register_registry.
SnapshotsNone(q) == << >>
Snapshots(q) ==
    (IF "group" \in Dir THEN <<[op |-> "snapshot", d |-> "group", to |-> q]>> ELSE << >>)
    \o (IF "name" \in Dir THEN <<[op |-> "snapshot", d |-> "name", to |-> q]>> ELSE << >>)

\* _drop_peer_members and _drop_peer_names.
DropAll(n, q) == [d \in Dir |-> [table[d] EXCEPT ![n] = {}]]
Drop(n, q) == [d \in Dir |-> [table[d] EXCEPT ![n] = {o \in @ : Home[o] # q}]]

PeerEvent(n) ==
    LET e == Head(events[n])
    IN  /\ events[n] # << >>
        /\ events' = [events EXCEPT ![n] = Tail(@)]
        /\ \/ /\ e.kind = "peer_connected"
              /\ peers' = [peers EXCEPT ![n] = @ \union {e.peer}]
              /\ tasks' = [tasks EXCEPT ![n] = @ \o Snapshots(e.peer)]
              /\ UNCHANGED table
           \/ /\ e.kind = "peer_disconnected"
              /\ peers' = [peers EXCEPT ![n] = @ \ {e.peer}]
              /\ table' = Drop(n, e.peer)
              /\ UNCHANGED tasks
        /\ UNCHANGED <<owned, wire, conflicts, conn, calls, breaks>>

-----------------------------------------------------------------------------
(* The connections (external: see Transport)                               *)

Notify(p, kind) ==
    events' = [n \in Node |->
        IF n \in {p[1], p[2]}
        THEN Append(events[n], [kind |-> kind, peer |-> IF n = p[1] THEN p[2] ELSE p[1]])
        ELSE events[n]]

Connect(p) ==
    /\ p \notin conn
    /\ LateEvents \/ \A n \in {p[1], p[2]} : events[n] = << >>
    /\ conn' = conn \union {p, <<p[2], p[1]>>}
    /\ Notify(p, "peer_connected")
    /\ UNCHANGED <<table, owned, peers, tasks, wire, conflicts, calls, breaks>>

\* Of what is under way the receivers have got all, or nothing.
Break(p) ==
    /\ p \in conn /\ breaks < MaxBreaks
    /\ breaks' = breaks + 1
    /\ conn' = conn \ {p, <<p[2], p[1]>>}
    /\ Notify(p, "peer_disconnected")
    /\ \/ UNCHANGED wire
       \/ wire' = [d \in Dir |-> [q \in Pair |->
                      IF q \in {p, <<p[2], p[1]>>} THEN << >> ELSE wire[d][q]]]
    /\ UNCHANGED <<table, owned, peers, tasks, conflicts, calls>>

Next ==
    \/ \E o \in Owner : Clear(o) \/ \E d \in Dir : Join(d, o) \/ Leave(d, o)
    \/ \E n \in Node : RunTask(n) \/ PeerEvent(n)
    \/ \E p \in Pair : Connect(p) \/ Break(p) \/ \E d \in Dir : Receive(d, p)
Spec == Init /\ [][Next]_vars
-----------------------------------------------------------------------------
(* Properties                                                              *)

\* Nothing an owner did not do unlists it on its own node: neither a break, nor
\* a peer's snapshot or claim, nor a late release of an earlier claim.
OwnEntryKept == \A d \in Dir : \A o \in owned[d] : o \in table[d][Home[o]]

\* All is said and done: every node is connected and has nothing left to do.
Quiescent ==
    /\ conn = Pair
    /\ \A n \in Node : tasks[n] = << >> /\ events[n] = << >>
    /\ \A d \in Dir, p \in Pair : wire[d][p] = << >>

\* "Visible to every connected node via members(), including ones that join
\* the cluster later", whichever of deltas, snapshots, breaks and events came
\* first; and a name is claimed on every node or its conflict was reported
\* there: "rejected with an on_event(kind="registry_conflict") instead of
\* being silently overwritten".
EntriesArrive ==
    Quiescent =>
        \A d \in Dir : \A o \in owned[d], n \in Node :
            o \in table[d][n] \/ (d = "name" /\ <<n, o>> \in conflicts)
=============================================================================
