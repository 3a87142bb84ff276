---------------------------- MODULE ExitsProofs ----------------------------
(***************************************************************************)
(* For every set of nodes, actors, monitors and links, and whatever the    *)
(* connection does: a monitor fires at most once, and the Down or the exit *)
(* signal of an actor that is gone is under way until it is delivered.     *)
(* The first invariant ties the table Node._monitors to what the watchers  *)
(* have seen: a ref that fired, was cancelled or was never used is not in  *)
(* it, so that a Down that is still under way for such a ref finds         *)
(* nothing.  The others follow an owed Down and an owed exit through       *)
(* tasks, queues and peer_disconnected events.                             *)
(***************************************************************************)
EXTENDS Exits, TLAPS

\* Most leaves are first-order: only those that say so go to the SMT solver.
USE Zenon

Settled == {"unused", "down", "cancelled"}

\* The inductive invariant.
IInv ==
    /\ refs \in [Ref -> {"unused", "active", "raised", "down", "cancelled"}]
    /\ monitors \subseteq Ref
    /\ \A r \in Ref : refs[r] \in Settled => r \notin monitors

\* What a step may do to the refs.
Once ==
    \A r \in Ref :
        /\ refs[r] \in {"down", "cancelled"} => refs'[r] = refs[r]
        /\ refs'[r] = "down" => r \notin monitors'

LEMMA InitIInv == Init => IInv
BY DEF Init, IInv, Settled

\* _deliver_down, of whatever ref.
LEMMA DeliverDownOnce ==
    ASSUME NEW r, IInv, DeliverDown(r)
    PROVE  IInv' /\ Once
<1>1. CASE r \in monitors
    <2>1. /\ r \in Ref
          /\ monitors' = monitors \ {r}
          /\ refs' = [refs EXCEPT ![r] = "down"]
        BY <1>1 DEF IInv, DeliverDown
    <2>2. IInv'
        BY <2>1 DEF IInv, Settled
    <2>3. Once
        BY <2>1, <1>1 DEF IInv, Settled, Once
    <2> QED BY <2>2, <2>3
<1>2. CASE r \notin monitors
    <2>1. monitors' = monitors /\ refs' = refs
        BY <1>2 DEF IInv, DeliverDown
    <2> QED BY <2>1 DEF IInv, Settled, Once
<1> QED BY <1>1, <1>2

LEMMA UnchangedOnce ==
    ASSUME IInv, UNCHANGED <<monitors, refs>>
    PROVE  IInv' /\ Once
BY DEF IInv, Settled, Once

LEMMA NextOnce ==
    ASSUME IInv, [Next]_vars
    PROVE  IInv' /\ Once
<1>1. ASSUME NEW r \in Ref, Monitor(r) PROVE IInv' /\ Once
    <2>1. refs[r] = "unused" /\ r \notin monitors
        BY <1>1 DEF Monitor, IInv, Settled
    <2>2. \/ /\ monitors' = monitors \union {r}
             /\ \/ refs' = [refs EXCEPT ![r] = "active"]
                \/ refs' = [refs EXCEPT ![r] = "raised"]
          \/ /\ monitors' = monitors
             /\ refs' = [refs EXCEPT ![r] = "down"]
        BY <1>1 DEF Monitor
    <2>3. IInv'
        BY <1>1, <2>1, <2>2 DEF IInv, Settled
    <2>4. Once
        BY <1>1, <2>1, <2>2 DEF IInv, Settled, Once
    <2> QED BY <2>3, <2>4
<1>2. ASSUME NEW r \in Ref, Demonitor(r) PROVE IInv' /\ Once
    <2>1. /\ r \in monitors /\ refs[r] = "active"
          /\ monitors' = monitors \ {r}
          /\ refs' = [refs EXCEPT ![r] = "cancelled"]
        BY <1>2 DEF Demonitor
    <2> QED BY <1>2, <2>1 DEF IInv, Settled, Once
<1>3. ASSUME NEW n \in Node, MonitorActor(n) PROVE IInv' /\ Once
    <2>1. \/ DeliverDown(Head(wire[n].m).ref)
          \/ UNCHANGED <<monitors, refs>>
        BY <1>3 DEF MonitorActor
    <2> QED BY <2>1, DeliverDownOnce, UnchangedOnce
<1>4. ASSUME NEW t \in tasks, RunTask(t) PROVE IInv' /\ Once
    <2>1. DeliverDown(t.ref) \/ UNCHANGED <<monitors, refs>>
        BY <1>4 DEF RunTask
    <2> QED BY <2>1, DeliverDownOnce, UnchangedOnce
<1>5. ASSUME NEW a \in Actor, NEW b \in Actor,
             Link(a, b) \/ Unlink(a, b) \/ TrapExit(a) \/ Crash(a)
                \/ Restart(a) \/ CancelledInBackoff(a) \/ GiveUp(a)
      PROVE  IInv' /\ Once
    <2>1. UNCHANGED <<monitors, refs>>
        BY <1>5 DEF Link, Unlink, TrapExit, Crash, Restart, CancelledInBackoff, GiveUp,
            monitorVars
    <2> QED BY <2>1, UnchangedOnce
<1>6. ASSUME NEW n \in Node, LinkActor(n) \/ PeerDisconnected(n)
      PROVE  IInv' /\ Once
    <2>1. UNCHANGED <<monitors, refs>>
        BY <1>6 DEF LinkActor, PeerDisconnected, monitorVars
    <2> QED BY <2>1, UnchangedOnce
<1>7. ASSUME Break \/ Reconnect \/ UNCHANGED vars PROVE IInv' /\ Once
    <2>1. UNCHANGED <<monitors, refs>>
        BY <1>7 DEF Break, Reconnect, vars, monitorVars
    <2> QED BY <2>1, UnchangedOnce
<1> QED BY <1>1, <1>2, <1>3, <1>4, <1>5, <1>6, <1>7 DEF Next, NodeStep

\* DownOnce: however many Downs, noprocs and noconnections of one monitor are
\* under way, _deliver_down hands its watcher at most one, and none after
\* demonitor() returned.
THEOREM DownOnceTheorem == Spec => DownOnce
<1>1. IInv /\ [Next]_vars => IInv'
    BY NextOnce
<1>2. IInv /\ [Next]_vars =>
        [\A r \in Ref :
            /\ refs[r] \in {"down", "cancelled"} => refs'[r] = refs[r]
            /\ refs'[r] = "down" => r \notin monitors']_vars
    BY NextOnce DEF Once
<1> QED BY InitIInv, <1>1, <1>2, PTL DEF Spec, DownOnce

-----------------------------------------------------------------------------
(* Types                                                                   *)

Wire == [Node -> [l : Seq(LinkMsg), m : Seq(MonitorMsg)]]
ActorTypes ==
    /\ up \in [Actor -> {"up", "backoff", "gone"}]
    /\ killed \subseteq {a \in Actor : up[a] = "up"}
    /\ restarted \subseteq Fragile
    /\ trap \subseteq {a \in Actor : up[a] = "up"}
TableTypes ==
    /\ calls \in 0..MaxCalls
    /\ links \in [Actor -> SUBSET Actor]
    /\ monitors \subseteq Ref /\ watchers \subseteq Ref
    /\ refs \in [Ref -> {"unused", "active", "raised", "down", "cancelled"}]
    /\ told \subseteq Actor \X Actor
NetTypes ==
    /\ tasks \subseteq Task
    /\ wire \in Wire
    /\ breaks \in 0..(2 * MaxBreaks)
    /\ events \in [Node -> Nat]
TypeInv == ActorTypes /\ TableTypes /\ NetTypes

\* What is in a queue.
Elements(s) == {s[i] : i \in 1..Len(s)}

LEMMA TailElements ==
    ASSUME NEW S, NEW s \in Seq(S), s # << >>
    PROVE  /\ Head(s) \in S /\ Tail(s) \in Seq(S)
           /\ Elements(s) = {Head(s)} \union Elements(Tail(s))
  <1>1. PICK n \in Nat : n = Len(s) /\ n > 0
    BY SMT
  <1>2. /\ Tail(s) \in Seq(S) /\ Len(Tail(s)) = n - 1 /\ Head(s) = s[1] /\ s[1] \in S
        /\ \A i \in 1..(n - 1) : Tail(s)[i] = s[i + 1]
    BY <1>1, SMT
  <1>3. ASSUME NEW i \in 1..n PROVE s[i] \in {Head(s)} \union Elements(Tail(s))
    <2>1. CASE i = 1
      BY <1>2, <2>1
    <2>2. CASE i # 1
      <3>1. i - 1 \in 1..(n - 1) /\ (i - 1) + 1 = i
        BY <1>1, <2>2, SMT
      <3>2. Tail(s)[i - 1] = s[i]
        BY <1>2, <3>1
      <3> QED BY <1>2, <3>1, <3>2 DEF Elements
    <2> QED BY <2>1, <2>2
  <1>4. 1 \in 1..n /\ \A i \in 1..(n - 1) : i + 1 \in 1..n
    BY <1>1, SMT
  <1>5. ASSUME NEW i \in 1..(n - 1) PROVE Tail(s)[i] \in Elements(s)
    BY <1>1, <1>2, <1>4 DEF Elements
  <1>6. Head(s) \in Elements(s)
    BY <1>1, <1>2, <1>4 DEF Elements
  <1> QED BY <1>1, <1>2, <1>3, <1>5, <1>6 DEF Elements

LEMMA AppendElements ==
    ASSUME NEW S, NEW s \in Seq(S), NEW e \in S
    PROVE  Append(s, e) \in Seq(S) /\ Elements(Append(s, e)) = Elements(s) \union {e}
  <1>1. PICK n \in Nat : n = Len(s)
    BY SMT
  <1>2. /\ Append(s, e) \in Seq(S) /\ Len(Append(s, e)) = n + 1 /\ Append(s, e)[n + 1] = e
        /\ \A i \in 1..n : Append(s, e)[i] = s[i]
    BY <1>1, SMT
  <1>3. \A i \in 1..(n + 1) : i \in 1..n \/ i = n + 1
    BY <1>1, SMT
  <1>4. n + 1 \in 1..(n + 1) /\ \A i \in 1..n : i \in 1..(n + 1)
    BY <1>1, SMT
  <1> QED BY <1>1, <1>2, <1>3, <1>4, Zenon DEF Elements

LEMMA QueueTypes ==
    ASSUME NEW w \in Wire, NEW n \in Node
    PROVE  /\ w[n] \in [l : Seq(LinkMsg), m : Seq(MonitorMsg)]
           /\ w[n].l \in Seq(LinkMsg) /\ w[n].m \in Seq(MonitorMsg)
  BY DEF Wire

\* A message is put into a queue, or taken out of it.
AddLink(w, n, msg) == [w EXCEPT ![n].l = Append(@, msg)]
AddMonitor(w, n, msg) == [w EXCEPT ![n].m = Append(@, msg)]
TakeLink(w, n) == [w EXCEPT ![n].l = Tail(@)]
TakeMonitor(w, n) == [w EXCEPT ![n].m = Tail(@)]

LEMMA SentLink ==
    ASSUME NEW w \in Wire, NEW n \in Node, NEW msg \in LinkMsg
    PROVE  /\ AddLink(w, n, msg) \in Wire /\ AddLink(w, n, msg)[n].l = Append(w[n].l, msg)
           /\ \A x \in Node : /\ AddLink(w, n, msg)[x].m = w[x].m
                              /\ x # n => AddLink(w, n, msg)[x].l = w[x].l
  <1>1. w[n] \in [l : Seq(LinkMsg), m : Seq(MonitorMsg)]
    BY QueueTypes
  <1>2. Append(w[n].l, msg) \in Seq(LinkMsg)
    BY <1>1, SMT
  <1>3. AddLink(w, n, msg) = [w EXCEPT ![n] = [w[n] EXCEPT !.l = Append(w[n].l, msg)]]
    BY <1>1 DEF Wire, AddLink
  <1> QED BY <1>1, <1>2, <1>3 DEF Wire

LEMMA SentMonitor ==
    ASSUME NEW w \in Wire, NEW n \in Node, NEW msg \in MonitorMsg
    PROVE  /\ AddMonitor(w, n, msg) \in Wire /\ AddMonitor(w, n, msg)[n].m = Append(w[n].m, msg)
           /\ \A x \in Node : /\ AddMonitor(w, n, msg)[x].l = w[x].l
                              /\ x # n => AddMonitor(w, n, msg)[x].m = w[x].m
  <1>1. w[n] \in [l : Seq(LinkMsg), m : Seq(MonitorMsg)]
    BY QueueTypes
  <1>2. Append(w[n].m, msg) \in Seq(MonitorMsg)
    BY <1>1, SMT
  <1>3. AddMonitor(w, n, msg) = [w EXCEPT ![n] = [w[n] EXCEPT !.m = Append(w[n].m, msg)]]
    BY <1>1 DEF Wire, AddMonitor
  <1> QED BY <1>1, <1>2, <1>3 DEF Wire

LEMMA TakenLink ==
    ASSUME NEW w \in Wire, NEW n \in Node, w[n].l # << >>
    PROVE  /\ Head(w[n].l) \in LinkMsg /\ TakeLink(w, n) \in Wire /\ TakeLink(w, n)[n].l = Tail(w[n].l)
           /\ \A x \in Node : /\ TakeLink(w, n)[x].m = w[x].m
                              /\ x # n => TakeLink(w, n)[x].l = w[x].l
  <1>1. w[n] \in [l : Seq(LinkMsg), m : Seq(MonitorMsg)]
    BY QueueTypes
  <1>2. Tail(w[n].l) \in Seq(LinkMsg) /\ Head(w[n].l) \in LinkMsg
    BY <1>1, TailElements
  <1>3. TakeLink(w, n) = [w EXCEPT ![n] = [w[n] EXCEPT !.l = Tail(w[n].l)]]
    BY <1>1 DEF Wire, TakeLink
  <1> QED BY <1>1, <1>2, <1>3 DEF Wire

LEMMA TakenMonitor ==
    ASSUME NEW w \in Wire, NEW n \in Node, w[n].m # << >>
    PROVE  /\ Head(w[n].m) \in MonitorMsg /\ TakeMonitor(w, n) \in Wire /\ TakeMonitor(w, n)[n].m = Tail(w[n].m)
           /\ \A x \in Node : /\ TakeMonitor(w, n)[x].l = w[x].l
                              /\ x # n => TakeMonitor(w, n)[x].m = w[x].m
  <1>1. w[n] \in [l : Seq(LinkMsg), m : Seq(MonitorMsg)]
    BY QueueTypes
  <1>2. Tail(w[n].m) \in Seq(MonitorMsg) /\ Head(w[n].m) \in MonitorMsg
    BY <1>1, TailElements
  <1>3. TakeMonitor(w, n) = [w EXCEPT ![n] = [w[n] EXCEPT !.m = Tail(w[n].m)]]
    BY <1>1 DEF Wire, TakeMonitor
  <1> QED BY <1>1, <1>2, <1>3 DEF Wire

LEMMA InitTypes == Init => TypeInv
  <1> SUFFICES ASSUME Init PROVE TypeInv
    OBVIOUS
  <1>1. ActorTypes
    BY DEF Init, ActorTypes
  <1>2. TableTypes
    BY ExitsAssumption, SMT DEF Init, TableTypes
  <1>3. NetTypes
    <2>1. [l |-> << >>, m |-> << >>] \in [l : Seq(LinkMsg), m : Seq(MonitorMsg)]
      BY SMT
    <2>2. wire \in Wire
      BY <2>1, Zenon DEF Init, Wire
    <2> QED BY <2>2, ExitsAssumption, SMT DEF Init, NetTypes
  <1> QED BY <1>1, <1>2, <1>3 DEF TypeInv

\* The calls of an actor.
LEMMA CallTypes ==
    ASSUME TypeInv, NEW a \in Actor, Calls(a)
    PROVE  calls' \in 0..MaxCalls /\ up[a] = "up"
  BY ExitsAssumption, SMT DEF Calls, TypeInv, TableTypes

LEMMA DeliverExitTypes ==
    ASSUME TypeInv, NEW x \in Actor, NEW y \in Actor, DeliverExit(x, y)
    PROVE  told' \subseteq Actor \X Actor /\ killed' \subseteq {a \in Actor : up[a] = "up"}
  BY SMT DEF DeliverExit, TypeInv, ActorTypes, TableTypes

LEMMA DeliverDownTypes ==
    ASSUME TypeInv, NEW r \in Ref, DeliverDown(r)
    PROVE  /\ monitors' \subseteq Ref
           /\ refs' \in [Ref -> {"unused", "active", "raised", "down", "cancelled"}]
  BY DEF DeliverDown, TypeInv, TableTypes

LEMMA LinkTypes ==
    ASSUME TypeInv, NEW a \in Actor, NEW b \in Actor, Link(a, b) \/ Unlink(a, b)
    PROVE  TypeInv'
  <1>0. calls' \in 0..MaxCalls /\ up[a] = "up"
    BY CallTypes DEF Link, Unlink
  <1>1. /\ links' \in [Actor -> SUBSET Actor]
        /\ told' \subseteq Actor \X Actor /\ killed' \subseteq {x \in Actor : up[x] = "up"}
    <2>1. CASE Link(a, b)
      <3>1. links' \in [Actor -> SUBSET Actor]
        BY <2>1, SMT DEF Link, TypeInv, TableTypes
      <3>2. \/ DeliverExit(b, a)
            \/ UNCHANGED killed /\ (told' = told \ {<<a, b>>} \/ told' = told \union {<<a, b>>})
        BY <2>1 DEF Link
      <3> QED BY <3>1, <3>2, DeliverExitTypes, SMT DEF TypeInv, TableTypes, ActorTypes
    <2>2. CASE Unlink(a, b)
      BY <2>2, SMT DEF Unlink, TypeInv, TableTypes, ActorTypes, actorVars
    <2> QED BY <2>1, <2>2
  <1>2. wire' \in Wire
    <2>1. NodeOf[b] \in Node
      BY ExitsAssumption
    <2>2. /\ [op |-> "link", x |-> a, y |-> b] \in LinkMsg
          /\ [op |-> "unlink", x |-> a, y |-> b] \in LinkMsg
      BY DEF LinkMsg
    <2>3. \/ wire' = wire
          \/ \E msg \in LinkMsg : wire' = AddLink(wire, NodeOf[b], msg)
      BY <2>2, Zenon DEF Link, Unlink, SendLink, AddLink
    <2> QED BY <2>1, <2>3, SentLink DEF TypeInv, NetTypes
  <1>3. UNCHANGED <<up, restarted, trap, monitors, watchers, refs, tasks, breaks, events>>
    BY DEF Link, Unlink, monitorVars, actorVars
  <1> QED BY <1>0, <1>1, <1>2, <1>3 DEF TypeInv, ActorTypes, TableTypes, NetTypes

LEMMA MonitorTypes ==
    ASSUME TypeInv, NEW r \in Ref, Monitor(r) \/ Demonitor(r)
    PROVE  TypeInv'
  <1>0. calls' \in 0..MaxCalls
    BY CallTypes, ExitsAssumption DEF Monitor, Demonitor
  <1>1. /\ monitors' \subseteq Ref /\ watchers' \subseteq Ref
        /\ refs' \in [Ref -> {"unused", "active", "raised", "down", "cancelled"}]
    BY DEF Monitor, Demonitor, TypeInv, TableTypes
  <1>2. wire' \in Wire
    <2>1. NodeOf[Target[r]] \in Node
      BY ExitsAssumption
    <2>2. /\ [op |-> "monitor", ref |-> r] \in MonitorMsg
          /\ [op |-> "demonitor", ref |-> r] \in MonitorMsg
      BY DEF MonitorMsg
    <2>3. \/ wire' = wire
          \/ \E msg \in MonitorMsg : wire' = AddMonitor(wire, NodeOf[Target[r]], msg)
      BY <2>2, Zenon DEF Monitor, Demonitor, SendMonitor, AddMonitor
    <2> QED BY <2>1, <2>3, SentMonitor DEF TypeInv, NetTypes
  <1>3. UNCHANGED <<up, killed, restarted, links, trap, told, tasks, breaks, events>>
    BY DEF Monitor, Demonitor, linkVars, actorVars
  <1> QED BY <1>0, <1>1, <1>2, <1>3 DEF TypeInv, ActorTypes, TableTypes, NetTypes

LEMMA LinkActorTypes ==
    ASSUME TypeInv, NEW n \in Node, LinkActor(n)
    PROVE  TypeInv'
  <1>0. wire \in Wire /\ wire[n].l # << >>
    BY DEF LinkActor, TypeInv, NetTypes
  <1>1. PICK msg \in LinkMsg : msg = Head(wire[n].l)
    BY <1>0, TakenLink
  <1>2. msg.x \in Actor /\ msg.y \in Actor /\ msg.op \in {"link", "unlink", "exit"}
    BY DEF LinkMsg
  <1>3. links' \in [Actor -> SUBSET Actor]
    BY <1>1, <1>2 DEF LinkActor, TypeInv, TableTypes
  <1>4. told' \subseteq Actor \X Actor /\ killed' \subseteq {x \in Actor : up[x] = "up"}
    <2>1. DeliverExit(msg.x, msg.y) \/ UNCHANGED <<told, killed>>
      BY <1>1 DEF LinkActor
    <2> QED BY <1>2, <2>1, DeliverExitTypes DEF TypeInv, TableTypes, ActorTypes
  <1>5. wire' \in Wire
    <2>1. PICK ans \in LinkMsg : ans = [op |-> "exit", x |-> msg.y, y |-> msg.x]
      BY <1>2 DEF LinkMsg
    <2>2. \/ wire' = TakeLink(wire, n)
          \/ wire' = AddLink(TakeLink(wire, n), NodeOf[msg.x], ans)
      BY <1>1, <2>1, Zenon DEF LinkActor, AddLink, TakeLink
    <2>3. NodeOf[msg.x] \in Node
      BY <1>2, ExitsAssumption
    <2> QED BY <1>0, <2>2, <2>3, TakenLink, SentLink, SMT
  <1>6. UNCHANGED <<calls, up, restarted, trap, monitors, watchers, refs, tasks, breaks, events>>
    BY DEF LinkActor, monitorVars
  <1> QED BY <1>3, <1>4, <1>5, <1>6 DEF TypeInv, ActorTypes, TableTypes, NetTypes

LEMMA MonitorActorTypes ==
    ASSUME TypeInv, NEW n \in Node, MonitorActor(n)
    PROVE  TypeInv'
  <1>0. wire \in Wire /\ wire[n].m # << >>
    BY DEF MonitorActor, TypeInv, NetTypes
  <1>1. PICK msg \in MonitorMsg : msg = Head(wire[n].m)
    BY <1>0, TakenMonitor
  <1>2. msg.ref \in Ref /\ msg.op \in {"monitor", "demonitor", "down"}
    BY DEF MonitorMsg
  <1>3. watchers' \subseteq Ref
    BY <1>1, <1>2 DEF MonitorActor, TypeInv, TableTypes
  <1>4. /\ monitors' \subseteq Ref
        /\ refs' \in [Ref -> {"unused", "active", "raised", "down", "cancelled"}]
    <2>1. DeliverDown(msg.ref) \/ UNCHANGED <<monitors, refs>>
      BY <1>1 DEF MonitorActor
    <2> QED BY <1>2, <2>1, DeliverDownTypes DEF TypeInv, TableTypes
  <1>5. wire' \in Wire
    <2>1. PICK ans \in MonitorMsg : ans = [op |-> "down", ref |-> msg.ref]
      BY <1>2 DEF MonitorMsg
    <2>2. \/ wire' = TakeMonitor(wire, n)
          \/ wire' = AddMonitor(TakeMonitor(wire, n), NodeOf[Watcher[msg.ref]], ans)
      BY <1>1, <2>1, Zenon DEF MonitorActor, AddMonitor, TakeMonitor
    <2>3. NodeOf[Watcher[msg.ref]] \in Node
      BY <1>2, ExitsAssumption
    <2> QED BY <1>0, <2>2, <2>3, TakenMonitor, SentMonitor, SMT
  <1>6. UNCHANGED <<calls, up, killed, restarted, links, trap, told, tasks, breaks, events>>
    BY DEF MonitorActor, actorVars, linkVars
  <1> QED BY <1>3, <1>4, <1>5, <1>6 DEF TypeInv, ActorTypes, TableTypes, NetTypes

\* The ends and the beginnings of a generation.
LEMMA GenerationTypes ==
    ASSUME TypeInv, NEW a \in Actor,
           TrapExit(a) \/ Crash(a) \/ Restart(a) \/ CancelledInBackoff(a) \/ GiveUp(a)
    PROVE  TypeInv'
  <1>1. ActorTypes'
    <2>1. CASE TrapExit(a)
      BY <2>1 DEF TrapExit, Calls, TypeInv, ActorTypes, actorVars
    <2>2. CASE Crash(a) \/ GiveUp(a)
      BY <2>2 DEF Crash, GiveUp, Cleared, TypeInv, ActorTypes
    <2>3. CASE Restart(a) \/ CancelledInBackoff(a)
      BY <2>3 DEF Restart, CancelledInBackoff, TypeInv, ActorTypes, linkVars
    <2> QED BY <2>1, <2>2, <2>3
  <1>2. TableTypes'
    <2>1. calls' \in 0..MaxCalls
      BY CallTypes DEF TrapExit, Crash, Restart, CancelledInBackoff, GiveUp, TypeInv, TableTypes
    <2>2. links' \in [Actor -> SUBSET Actor] /\ watchers' \subseteq Ref
      BY DEF TrapExit, Crash, Restart, CancelledInBackoff, GiveUp, Cleared, TypeInv,
             TableTypes, linkVars, monitorVars
    <2>3. UNCHANGED <<monitors, refs, told>>
      BY DEF TrapExit, Crash, Restart, CancelledInBackoff, GiveUp, linkVars, monitorVars
    <2> QED BY <2>1, <2>2, <2>3 DEF TypeInv, TableTypes
  <1>3. NetTypes'
    <2>1. ExitTasks(a) \subseteq Task /\ DownTasks(a) \subseteq Task
      BY SMT DEF ExitTasks, DownTasks, Task, TypeInv, TableTypes
    <2>2. UNCHANGED <<wire, breaks, events>>
      BY DEF TrapExit, Crash, Restart, CancelledInBackoff, GiveUp, netVars
    <2>3. tasks' \subseteq Task
      BY <2>1 DEF TrapExit, Crash, Restart, CancelledInBackoff, GiveUp, TypeInv, NetTypes
    <2> QED BY <2>2, <2>3 DEF TypeInv, NetTypes
  <1> QED BY <1>1, <1>2, <1>3 DEF TypeInv

LEMMA TaskFields ==
    ASSUME NEW t \in Task
    PROVE  /\ t.op \in {"exit", "remote_exit"} => t.x \in Actor /\ t.y \in Actor
           /\ t.op \in {"down", "remote_down"} => t.ref \in Ref
  BY DEF Task

LEMMA RunTaskTypes ==
    ASSUME TypeInv, NEW t \in tasks, RunTask(t)
    PROVE  TypeInv'
  <1>0. wire \in Wire /\ t \in Task /\ tasks' \subseteq Task
    BY DEF RunTask, TypeInv, NetTypes
  <1>1. told' \subseteq Actor \X Actor /\ killed' \subseteq {x \in Actor : up[x] = "up"}
    <2>1. (t.op = "exit" /\ DeliverExit(t.x, t.y)) \/ UNCHANGED <<told, killed>>
      BY DEF RunTask
    <2> QED BY <1>0, <2>1, TaskFields, DeliverExitTypes DEF TypeInv, TableTypes, ActorTypes
  <1>2. /\ monitors' \subseteq Ref
        /\ refs' \in [Ref -> {"unused", "active", "raised", "down", "cancelled"}]
    <2>1. (t.op = "down" /\ DeliverDown(t.ref)) \/ UNCHANGED <<monitors, refs>>
      BY DEF RunTask
    <2> QED BY <1>0, <2>1, TaskFields, DeliverDownTypes DEF TypeInv, TableTypes
  <1>3. wire' \in Wire
    <2>1. CASE wire' = wire
      BY <1>0, <2>1
    <2>2. CASE /\ t.op = "remote_exit"
               /\ wire' = AddLink(wire, NodeOf[t.y], [op |-> "exit", x |-> t.x, y |-> t.y])
      <3>1. [op |-> "exit", x |-> t.x, y |-> t.y] \in LinkMsg /\ NodeOf[t.y] \in Node
        BY <1>0, <2>2, TaskFields, ExitsAssumption DEF LinkMsg
      <3> QED BY <1>0, <2>2, <3>1, SentLink
    <2>3. CASE /\ t.op = "remote_down"
               /\ wire' = AddMonitor(wire, NodeOf[Watcher[t.ref]], [op |-> "down", ref |-> t.ref])
      <3>1. [op |-> "down", ref |-> t.ref] \in MonitorMsg /\ NodeOf[Watcher[t.ref]] \in Node
        BY <1>0, <2>3, TaskFields, ExitsAssumption DEF MonitorMsg
      <3> QED BY <1>0, <2>3, <3>1, SentMonitor
    <2> QED BY <2>1, <2>2, <2>3, Zenon DEF RunTask, SendLink, SendMonitor, AddLink, AddMonitor
  <1>4. UNCHANGED <<calls, up, restarted, links, trap, watchers, breaks, events>>
    BY DEF RunTask
  <1> QED BY <1>0, <1>1, <1>2, <1>3, <1>4 DEF TypeInv, ActorTypes, TableTypes, NetTypes

LEMMA ConnectionTypes ==
    ASSUME TypeInv, Break \/ Reconnect
    PROVE  TypeInv'
  <1>1. wire' \in Wire
    <2>1. [l |-> << >>, m |-> << >>] \in [l : Seq(LinkMsg), m : Seq(MonitorMsg)]
      BY SMT
    <2>2. wire' = wire \/ wire' = [n \in Node |-> [l |-> << >>, m |-> << >>]]
      BY DEF Break, Reconnect
    <2> QED BY <2>1, <2>2, Zenon DEF TypeInv, NetTypes, Wire
  <1>2. breaks' \in 0..(2 * MaxBreaks)
    <2>1. PICK k \in Nat : k = MaxBreaks
      BY ExitsAssumption
    <2>2. breaks \in 0..(2 * k) /\ breaks' = breaks + 1
          /\ (breaks < 2 * k \/ breaks % 2 # 0)
      BY <2>1 DEF Break, Reconnect, Connected, TypeInv, NetTypes
    <2>3. breaks # 2 * k
      BY <2>2, SMT
    <2> QED BY <2>1, <2>2, <2>3, SMT
  <1>3. events' \in [Node -> Nat]
    BY SMT DEF Break, Reconnect, TypeInv, NetTypes
  <1>4. UNCHANGED <<calls, up, killed, restarted, links, trap, told, monitors, watchers, refs, tasks>>
    BY DEF Break, Reconnect, actorVars, linkVars, monitorVars
  <1> QED BY <1>1, <1>2, <1>3, <1>4 DEF TypeInv, ActorTypes, TableTypes, NetTypes

LEMMA PeerDisconnectedTypes ==
    ASSUME TypeInv, NEW n \in Node, PeerDisconnected(n)
    PROVE  TypeInv'
  <1>1. links' \in [Actor -> SUBSET Actor] /\ watchers' \subseteq Ref
    BY DEF PeerDisconnected, TypeInv, TableTypes
  <1>2. events' \in [Node -> Nat]
    BY SMT DEF PeerDisconnected, TypeInv, NetTypes
  <1>3. tasks' \subseteq Task
    <2>1. \A a \in Actor : links[a] \subseteq Actor
      BY DEF TypeInv, TableTypes
    <2>2. monitors \subseteq Ref
      BY DEF TypeInv, TableTypes
    <2> DEFINE far(a) == {b \in links[a] : NodeOf[b] # n}
               here == {a \in Actor : NodeOf[a] = n}
               E == UNION {{[op |-> "exit", x |-> b, y |-> a] : b \in far(a)} : a \in here}
               D == {[op |-> "down", ref |-> r] : r \in Owed(n)}
    <2>3. tasks' = tasks \union E \union D
      BY DEF PeerDisconnected
    <2>4. ASSUME NEW t \in E PROVE t \in Task
      <3>1. PICK a \in here : t \in {[op |-> "exit", x |-> b, y |-> a] : b \in far(a)}
        OBVIOUS
      <3>2. PICK b \in far(a) : t = [op |-> "exit", x |-> b, y |-> a]
        BY <3>1
      <3> QED BY <2>1, <3>2 DEF Task
    <2>5. ASSUME NEW t \in D PROVE t \in Task
      BY <2>2, SMT DEF Owed, Task
    <2> HIDE DEF E, D
    <2> QED BY <2>3, <2>4, <2>5 DEF TypeInv, NetTypes
  <1>4. UNCHANGED <<calls, up, killed, restarted, trap, told, monitors, refs, wire, breaks>>
    BY DEF PeerDisconnected, actorVars
  <1> QED BY <1>1, <1>2, <1>3, <1>4 DEF TypeInv, ActorTypes, TableTypes, NetTypes

LEMMA NextTypes == TypeInv /\ [Next]_vars => TypeInv'
  <1> SUFFICES ASSUME TypeInv, [Next]_vars PROVE TypeInv'
    OBVIOUS
  <1>1. CASE UNCHANGED vars
    BY <1>1 DEF vars, TypeInv, ActorTypes, TableTypes, NetTypes
  <1> QED BY <1>1, LinkTypes, MonitorTypes, LinkActorTypes, MonitorActorTypes,
             GenerationTypes, RunTaskTypes, ConnectionTypes, PeerDisconnectedTypes
          DEF Next, NodeStep

\* Among others, only an actor that runs is killed by a link or traps exits:
\* nothing of that survives into its next generation.
THEOREM ExitsTypeCorrect == Spec => []TypeOK
  <1>1. TypeInv => TypeOK
    BY QueueTypes DEF TypeInv, ActorTypes, TableTypes, NetTypes, TypeOK
  <1> QED BY <1>1, InitTypes, NextTypes, PTL DEF Spec

-----------------------------------------------------------------------------
(* A Down that is owed is under way                                        *)

Far(r) == ~Local(Watcher[r], Target[r])
Down(r) == [op |-> "down", ref |-> r]
RemoteDown(r) == [op |-> "remote_down", ref |-> r]
Queued(n, op, r) == [op |-> op, ref |-> r] \in Elements(wire[n].m)

\* What will tell the watcher of r: a task on its node, the peer_disconnected it
\* has not handled; or, while the connection is up, the answer to the monitor
\* message, or the down of the target, not sent yet or on its way.
Coming(r) ==
    \/ Down(r) \in tasks
    \/ Far(r) /\ events[NodeOf[Watcher[r]]] > 0
    \/ /\ Far(r) /\ Connected
       /\ \/ RemoteDown(r) \in tasks
          \/ Queued(NodeOf[Target[r]], "monitor", r)
          \/ Queued(NodeOf[Watcher[r]], "down", r)

\* A monitor whose target is gone for good has its Down under way, whatever the
\* connection has swallowed.
DownIsUnderWay ==
    \A r \in Ref :
        (refs[r] = "active" /\ up[Target[r]] = "gone" /\ Target[r] \notin restarted) => Coming(r)

\* Its target is up and has it listed: the down will be sent, as long as the
\* connection lasts.
Listed(r) == r \in watchers /\ up[Target[r]] = "up" /\ (Far(r) => Connected)

\* The inductive invariant.
DownInv ==
    /\ Connected => \A n \in Node : events[n] = 0
    /\ \A a \in Actor : up[a] = "backoff" => a \in restarted
    /\ \A r \in Ref : refs[r] = "active" => r \in monitors
    /\ \A n \in Node, r \in Ref : Queued(n, "demonitor", r) => refs[r] = "cancelled"
    /\ \A r \in Ref : (refs[r] = "active" /\ Target[r] \notin restarted) => Coming(r) \/ Listed(r)

\* A step that takes nothing away from the monitor r.
Spares(r) ==
    /\ Down(r) \in tasks => Down(r) \in tasks'
    /\ RemoteDown(r) \in tasks => RemoteDown(r) \in tasks'
    /\ \A n \in Node : events[n] > 0 => events'[n] > 0
    /\ Connected => Connected'
    /\ \A n \in Node, op \in {"monitor", "down"} : Queued(n, op, r) => Queued(n, op, r)'
    /\ r \in watchers => r \in watchers'
    /\ up[Target[r]] = "up" => up'[Target[r]] = "up"

LEMMA SparesOwed ==
    ASSUME NEW r \in Ref, Spares(r), Coming(r) \/ Listed(r)
    PROVE  (Coming(r) \/ Listed(r))'
  <1>1. NodeOf[Watcher[r]] \in Node /\ NodeOf[Target[r]] \in Node
    BY ExitsAssumption
  <1> QED BY <1>1 DEF Spares, Coming, Listed, Far

\* Most steps leave the monitors and their targets alone.
LEMMA DownFrame ==
    ASSUME DownInv, refs' = refs, monitors' = monitors, Connected' = Connected, events' = events,
           \A n \in Node : Elements(wire'[n].m) = Elements(wire[n].m),
           \A a \in Actor : up'[a] = "backoff" => a \in restarted',
           restarted \subseteq restarted',
           \A r \in Ref : Target[r] \in restarted' \/ Spares(r)
    PROVE  DownInv'
  <1>1. \A n \in Node, r \in Ref, op \in {"monitor", "demonitor", "down"} :
            Queued(n, op, r)' <=> Queued(n, op, r)
    BY DEF Queued
  <1>2. \A n \in Node, r \in Ref : Queued(n, "demonitor", r)' => refs'[r] = "cancelled"
    BY <1>1 DEF DownInv
  <1>3. ASSUME NEW r \in Ref, refs'[r] = "active", Target[r] \notin restarted'
        PROVE  (Coming(r) \/ Listed(r))'
    BY <1>3, SparesOwed DEF DownInv
  <1>4. /\ Connected' => \A n \in Node : events'[n] = 0
        /\ \A r \in Ref : refs'[r] = "active" => r \in monitors'
    BY DEF DownInv
  <1> QED BY <1>2, <1>3, <1>4 DEF DownInv

\* Links, and the generations of actors whose exit nobody is told of.
LEMMA LinkDown ==
    ASSUME TypeInv, DownInv, NEW a \in Actor, NEW b \in Actor, Link(a, b) \/ Unlink(a, b)
    PROVE  DownInv'
  <1>1. /\ UNCHANGED <<up, restarted, monitors, watchers, refs, tasks, breaks, events>>
        /\ wire' = wire \/ \E msg \in LinkMsg : wire' = AddLink(wire, NodeOf[b], msg)
    <2>1. /\ [op |-> "link", x |-> a, y |-> b] \in LinkMsg
          /\ [op |-> "unlink", x |-> a, y |-> b] \in LinkMsg
      BY DEF LinkMsg
    <2> QED BY <2>1, Zenon DEF Link, Unlink, SendLink, AddLink, actorVars, monitorVars
  <1>2. \A n \in Node : wire'[n].m = wire[n].m
    <2>1. wire \in Wire /\ NodeOf[b] \in Node
      BY ExitsAssumption DEF TypeInv, NetTypes
    <2>2. ASSUME NEW msg \in LinkMsg, wire' = AddLink(wire, NodeOf[b], msg), NEW k \in Node
          PROVE  wire'[k].m = wire[k].m
      <3>1. AddLink(wire, NodeOf[b], msg)[k].m = wire[k].m
        BY <2>1, SentLink
      <3> QED BY <2>2, <3>1
    <2> QED BY <1>1, <2>2
  <1>3. \A r \in Ref : Spares(r)
    BY <1>1, <1>2 DEF Spares, Queued, Connected
  <1> QED BY <1>1, <1>2, <1>3, DownFrame DEF DownInv, Connected

LEMMA LinkActorDown ==
    ASSUME TypeInv, DownInv, NEW n \in Node, LinkActor(n)
    PROVE  DownInv'
  <1>1. UNCHANGED <<up, restarted, monitors, watchers, refs, tasks, breaks, events>>
    BY DEF LinkActor, monitorVars
  <1>2. \A k \in Node : wire'[k].m = wire[k].m
    <2>0. wire \in Wire /\ wire[n].l # << >>
      BY DEF LinkActor, TypeInv, NetTypes
    <2>1. PICK msg \in LinkMsg : msg = Head(wire[n].l)
      BY <2>0, TakenLink
    <2>2. NodeOf[msg.x] \in Node /\ [op |-> "exit", x |-> msg.y, y |-> msg.x] \in LinkMsg
      BY ExitsAssumption DEF LinkMsg
    <2>3. \/ wire' = TakeLink(wire, n)
          \/ \E ans \in LinkMsg : wire' = AddLink(TakeLink(wire, n), NodeOf[msg.x], ans)
      BY <2>1, <2>2, Zenon DEF LinkActor, AddLink, TakeLink
    <2>4. TakeLink(wire, n) \in Wire /\ \A k \in Node : TakeLink(wire, n)[k].m = wire[k].m
      BY <2>0, TakenLink
    <2>5. ASSUME NEW ans \in LinkMsg, wire' = AddLink(TakeLink(wire, n), NodeOf[msg.x], ans),
                 NEW k \in Node
          PROVE  wire'[k].m = wire[k].m
      <3>1. AddLink(TakeLink(wire, n), NodeOf[msg.x], ans)[k].m = TakeLink(wire, n)[k].m
        BY <2>2, <2>4, SentLink
      <3> QED BY <2>4, <2>5, <3>1
    <2> QED BY <2>3, <2>4, <2>5
  <1>3. \A r \in Ref : Spares(r)
    BY <1>1, <1>2 DEF Spares, Queued, Connected
  <1> QED BY <1>1, <1>2, <1>3, DownFrame DEF DownInv, Connected

LEMMA GenerationDown ==
    ASSUME TypeInv, DownInv, NEW a \in Actor,
           TrapExit(a) \/ Crash(a) \/ Restart(a) \/ CancelledInBackoff(a)
    PROVE  DownInv'
  <1>1. UNCHANGED <<monitors, refs, tasks, wire, breaks, events>>
    BY DEF TrapExit, Crash, Restart, CancelledInBackoff, monitorVars, netVars
  <1>2. restarted \subseteq restarted' /\ \A x \in Actor : up'[x] = "backoff" => x \in restarted'
    BY DEF TrapExit, Crash, Restart, CancelledInBackoff, actorVars, TypeInv, ActorTypes, DownInv
  <1>3. \A r \in Ref : Target[r] \in restarted' \/
                          /\ r \in watchers => r \in watchers'
                          /\ up[Target[r]] = "up" => up'[Target[r]] = "up"
    BY ExitsAssumption DEF TrapExit, Crash, Restart, CancelledInBackoff, Cleared, actorVars,
           monitorVars, TypeInv, ActorTypes
  <1>4. \A r \in Ref : Target[r] \in restarted' \/ Spares(r)
    BY <1>1, <1>3 DEF Spares, Queued, Connected
  <1> QED BY <1>1, <1>2, <1>4, DownFrame DEF Connected

\* An actor that is gone for good notifies the watchers it has listed.
LEMMA GiveUpDown ==
    ASSUME TypeInv, DownInv, NEW a \in Actor, GiveUp(a)
    PROVE  DownInv'
  <1>1. /\ UNCHANGED <<restarted, monitors, refs, wire, breaks, events>>
        /\ up' = [up EXCEPT ![a] = "gone"] /\ tasks \union DownTasks(a) \subseteq tasks'
        /\ watchers' = {r \in watchers : Target[r] # a}
    BY DEF GiveUp, Cleared, netVars
  <1>2. /\ Connected' => \A n \in Node : events'[n] = 0
        /\ \A x \in Actor : up'[x] = "backoff" => x \in restarted'
        /\ \A r \in Ref : refs'[r] = "active" => r \in monitors'
        /\ \A n \in Node, r \in Ref : Queued(n, "demonitor", r)' => refs'[r] = "cancelled"
    BY <1>1 DEF DownInv, Connected, Queued, TypeInv, ActorTypes
  <1>3. ASSUME NEW r \in Ref, refs'[r] = "active", Target[r] \notin restarted'
        PROVE  (Coming(r) \/ Listed(r))'
    <2>0. Coming(r) \/ Listed(r)
      BY <1>1, <1>3 DEF DownInv
    <2>1. CASE Target[r] # a
      <3>1. Spares(r)
        BY <1>1, <2>1, ExitsAssumption DEF Spares, Queued, Connected, TypeInv, ActorTypes
      <3> QED BY <2>0, <3>1, SparesOwed
    <2>2. CASE Coming(r)
      BY <1>1, <2>2 DEF Coming, Connected, Queued
    <2>3. CASE Listed(r) /\ Target[r] = a
      <3>1. (IF Far(r) THEN RemoteDown(r) ELSE Down(r)) \in DownTasks(a)
        BY <2>3 DEF Listed, DownTasks, Far, RemoteDown, Down
      <3>2. Far(r) => Connected'
        BY <1>1, <2>3 DEF Listed, Connected
      <3> QED BY <1>1, <3>1, <3>2 DEF Coming
    <2> QED BY <2>0, <2>1, <2>2, <2>3
  <1> QED BY <1>2, <1>3 DEF DownInv

\* What a message put into a queue, or taken out of it, leaves there.
LEMMA AddedMonitor ==
    ASSUME NEW w \in Wire, NEW n \in Node, NEW msg \in MonitorMsg, NEW k \in Node
    PROVE  /\ k = n => Elements(AddMonitor(w, n, msg)[k].m) = Elements(w[k].m) \union {msg}
           /\ k # n => Elements(AddMonitor(w, n, msg)[k].m) = Elements(w[k].m)
  <1>1. w[k].m \in Seq(MonitorMsg)
    BY QueueTypes
  <1>2. Elements(Append(w[k].m, msg)) = Elements(w[k].m) \union {msg}
    BY <1>1, AppendElements, SMT
  <1>3. /\ k = n => AddMonitor(w, n, msg)[k].m = Append(w[k].m, msg)
        /\ k # n => AddMonitor(w, n, msg)[k].m = w[k].m
    BY SentMonitor, SMT
  <1> QED BY <1>2, <1>3

LEMMA RemovedMonitor ==
    ASSUME NEW w \in Wire, NEW n \in Node, w[n].m # << >>, NEW k \in Node
    PROVE  /\ k = n => Elements(w[k].m) = {Head(w[n].m)} \union Elements(TakeMonitor(w, n)[k].m)
           /\ k # n => Elements(w[k].m) = Elements(TakeMonitor(w, n)[k].m)
  <1>1. w[n].m \in Seq(MonitorMsg)
    BY QueueTypes
  <1>2. Elements(w[n].m) = {Head(w[n].m)} \union Elements(Tail(w[n].m))
    BY <1>1, TailElements
  <1>3. /\ k = n => TakeMonitor(w, n)[k].m = Tail(w[k].m)
        /\ k # n => TakeMonitor(w, n)[k].m = w[k].m
    BY TakenMonitor, SMT
  <1> QED BY <1>2, <1>3

\* monitor() and demonitor().
LEMMA MonitorDown ==
    ASSUME TypeInv, DownInv, NEW r \in Ref, Monitor(r) \/ Demonitor(r)
    PROVE  DownInv'
  <1> DEFINE to == NodeOf[Target[r]]
  <1>0. /\ wire \in Wire /\ to \in Node
        /\ [op |-> "monitor", ref |-> r] \in MonitorMsg
        /\ [op |-> "demonitor", ref |-> r] \in MonitorMsg
    BY ExitsAssumption DEF TypeInv, NetTypes, MonitorMsg
  <1>1. UNCHANGED <<up, restarted, tasks, breaks, events>>
    BY DEF Monitor, Demonitor, actorVars
  <1>2. /\ \A q \in Ref : q # r => /\ refs'[q] = refs[q]
                                   /\ q \in monitors => q \in monitors'
                                   /\ q \in watchers => q \in watchers'
        /\ refs[r] \in {"unused", "active"}
        /\ refs'[r] = "active" => r \in monitors'
    BY DEF Monitor, Demonitor, TypeInv, TableTypes
  <1>3. \/ wire' = wire
        \/ Monitor(r) /\ wire' = AddMonitor(wire, to, [op |-> "monitor", ref |-> r])
        \/ /\ Demonitor(r) /\ refs'[r] = "cancelled"
           /\ wire' = AddMonitor(wire, to, [op |-> "demonitor", ref |-> r])
    BY DEF Monitor, Demonitor, SendMonitor, AddMonitor, TypeInv, TableTypes
  <1>4. \A k \in Node : \/ Elements(wire'[k].m) = Elements(wire[k].m)
                        \/ Elements(wire'[k].m) = Elements(wire[k].m) \union
                                                  {[op |-> "monitor", ref |-> r]}
                        \/ /\ Elements(wire'[k].m) = Elements(wire[k].m) \union
                                                     {[op |-> "demonitor", ref |-> r]}
                           /\ refs'[r] = "cancelled"
    <2> HIDE DEF to
    <2>1. CASE wire' = wire
      BY <2>1
    <2>2. CASE wire' = AddMonitor(wire, to, [op |-> "monitor", ref |-> r])
      BY <1>0, <2>2, AddedMonitor, SMT
    <2>3. CASE /\ wire' = AddMonitor(wire, to, [op |-> "demonitor", ref |-> r])
               /\ refs'[r] = "cancelled"
      BY <1>0, <2>3, AddedMonitor, SMT
    <2> QED BY <1>3, <2>1, <2>2, <2>3
  <1>5. \A n \in Node, q \in Ref : Queued(n, "demonitor", q)' => refs'[q] = "cancelled"
    BY <1>2, <1>4, SMT DEF Queued, DownInv
  <1>6. ASSUME NEW q \in Ref, refs'[q] = "active", Target[q] \notin restarted'
        PROVE  (Coming(q) \/ Listed(q))'
    <2>1. CASE q # r
      <3>1. Coming(q) \/ Listed(q)
        BY <1>1, <1>2, <1>6, <2>1 DEF DownInv
      <3>2. Spares(q)
        BY <1>1, <1>2, <1>4, <2>1 DEF Spares, Queued, Connected
      <3> QED BY <3>1, <3>2, SparesOwed
    <2>2. CASE q = r
      <3>1. Monitor(r)
        BY <1>6, <2>2 DEF Demonitor, TypeInv, TableTypes
      <3>2. CASE Far(r)
        <4>1. Connected /\ wire' = AddMonitor(wire, to, [op |-> "monitor", ref |-> r])
          BY <1>6, <2>2, <3>1, <3>2 DEF Monitor, Far, SendMonitor, AddMonitor, TypeInv, TableTypes
        <4>2. [op |-> "monitor", ref |-> r] \in Elements(wire'[to].m)
          <5> HIDE DEF to
          <5> QED BY <1>0, <4>1, AddedMonitor, SMT
        <4> QED BY <1>1, <2>2, <3>2, <4>1, <4>2 DEF Coming, Queued, Connected
      <3>3. CASE ~Far(r)
        BY <1>1, <1>6, <2>2, <3>1, <3>3 DEF Monitor, Far, Listed, TypeInv, TableTypes
      <3> QED BY <3>2, <3>3
    <2> QED BY <2>1, <2>2
  <1>7. \A q \in Ref : refs'[q] = "active" => q \in monitors'
    BY <1>2 DEF DownInv
  <1> QED BY <1>1, <1>5, <1>6, <1>7 DEF DownInv, Connected

\* A Down that is delivered settles its ref, and leaves the others as they are.
LEMMA DeliverDownSettles ==
    ASSUME TypeInv, DownInv, NEW q \in Ref, DeliverDown(q) \/ UNCHANGED <<monitors, refs>>
    PROVE  /\ DeliverDown(q) => refs'[q] # "active"
           /\ \A r \in Ref : refs'[r] = "active" => refs[r] = "active" /\ r \in monitors'
           /\ \A r \in Ref : refs[r] = "cancelled" /\ (r \in monitors => r # q) =>
                                refs'[r] = "cancelled"
  <1>1. CASE DeliverDown(q) /\ q \in monitors
    BY <1>1 DEF DeliverDown, DownInv, TypeInv, TableTypes
  <1>2. CASE DeliverDown(q) /\ q \notin monitors
    BY <1>2 DEF DeliverDown, DownInv
  <1>3. CASE ~DeliverDown(q)
    BY <1>3 DEF DownInv
  <1> QED BY <1>1, <1>2, <1>3

\* _MonitorActor.receive.
LEMMA MonitorActorDown ==
    ASSUME TypeInv, IInv, DownInv, NEW n \in Node, MonitorActor(n)
    PROVE  DownInv'
  <1>0. wire \in Wire /\ wire[n].m # << >>
    BY DEF MonitorActor, TypeInv, NetTypes
  <1>1. PICK msg \in MonitorMsg : msg = Head(wire[n].m)
    BY <1>0, TakenMonitor
  <1>2. msg.ref \in Ref /\ msg = [op |-> msg.op, ref |-> msg.ref]
        /\ msg.op \in {"monitor", "demonitor", "down"}
    BY DEF MonitorMsg
  <1>3. /\ UNCHANGED <<up, restarted, tasks, breaks, events>>
        /\ msg.op = "monitor" => watchers' = watchers \union {msg.ref}
        /\ msg.op = "demonitor" => watchers' = watchers \ {msg.ref}
        /\ msg.op = "down" => watchers' = watchers /\ DeliverDown(msg.ref)
        /\ DeliverDown(msg.ref) \/ UNCHANGED <<monitors, refs>>
    BY <1>1 DEF MonitorActor, actorVars
  <1> DEFINE back == NodeOf[Watcher[msg.ref]]
             ans == [op |-> "down", ref |-> msg.ref]
             noproc == msg.op = "monitor" /\ Noproc(msg.ref)
  <1>4. /\ back \in Node /\ ans \in MonitorMsg
        /\ noproc => wire' = AddMonitor(TakeMonitor(wire, n), back, ans)
        /\ ~noproc => wire' = TakeMonitor(wire, n)
    <2>1. back \in Node /\ ans \in MonitorMsg
      BY <1>2, ExitsAssumption DEF MonitorMsg
    <2>2. /\ noproc => wire' = AddMonitor(TakeMonitor(wire, n), back, ans)
          /\ ~noproc => wire' = TakeMonitor(wire, n)
      BY <1>1 DEF MonitorActor, AddMonitor, TakeMonitor
    <2> QED BY <2>1, <2>2
  <1> HIDE DEF back, ans, noproc
  <1>5. ASSUME NEW k \in Node
        PROVE  /\ Elements(wire[k].m) \subseteq Elements(wire'[k].m) \union
                                                (IF k = n THEN {msg} ELSE {})
               /\ Elements(wire'[k].m) \subseteq Elements(wire[k].m) \union {ans}
               /\ noproc /\ k = back => ans \in Elements(wire'[k].m)
    <2>1. TakeMonitor(wire, n) \in Wire
      BY <1>0, TakenMonitor
    <2>2. /\ k = n => Elements(wire[k].m) = {msg} \union Elements(TakeMonitor(wire, n)[k].m)
          /\ k # n => Elements(wire[k].m) = Elements(TakeMonitor(wire, n)[k].m)
      BY <1>0, <1>1, RemovedMonitor
    <2>3. LET v == AddMonitor(TakeMonitor(wire, n), back, ans)
          IN  /\ k = back => Elements(v[k].m) = Elements(TakeMonitor(wire, n)[k].m) \union {ans}
              /\ k # back => Elements(v[k].m) = Elements(TakeMonitor(wire, n)[k].m)
      BY <1>4, <2>1, AddedMonitor, SMT
    <2> QED BY <1>4, <2>2, <2>3
  <1>6. \A k \in Node, r \in Ref : Queued(k, "demonitor", r)' => refs'[r] = "cancelled"
    <2> SUFFICES ASSUME NEW k \in Node, NEW r \in Ref, Queued(k, "demonitor", r)'
                 PROVE  refs'[r] = "cancelled"
      OBVIOUS
    <2>1. Queued(k, "demonitor", r)
      BY <1>5 DEF Queued, ans
    <2>2. refs[r] = "cancelled" /\ r \notin monitors
      BY <2>1 DEF DownInv, IInv, Settled
    <2> QED BY <1>2, <1>3, <2>2, DeliverDownSettles
  <1>7. ASSUME NEW r \in Ref, refs'[r] = "active", Target[r] \notin restarted'
        PROVE  (Coming(r) \/ Listed(r))'
    <2>1. refs[r] = "active" /\ (Coming(r) \/ Listed(r))
      BY <1>2, <1>3, <1>7, DeliverDownSettles DEF DownInv
    <2>2. msg # [op |-> "down", ref |-> r]
      BY <1>2, <1>3, <1>7, DeliverDownSettles, SMT
    <2>3. msg # [op |-> "demonitor", ref |-> r]
      <3>1. Elements(wire[n].m) = {msg} \union Elements(TakeMonitor(wire, n)[n].m)
        BY <1>0, <1>1, RemovedMonitor
      <3> QED BY <2>1, <3>1 DEF DownInv, Queued
    <2>4. r \in watchers => r \in watchers'
      BY <1>2, <1>3, <2>3
    <2>5. NodeOf[Target[r]] \in Node /\ NodeOf[Watcher[r]] \in Node /\ Target[r] \in Actor
      BY ExitsAssumption
    <2>6. CASE /\ Far(r) /\ Connected
               /\ Queued(NodeOf[Target[r]], "monitor", r)
               /\ msg = [op |-> "monitor", ref |-> r]
      <3>1. msg.op = "monitor" /\ msg.ref = r
        BY <2>6
      <3>2. r \in watchers'
        BY <1>3, <3>1
      <3>3. CASE up[Target[r]] = "up"
        BY <1>3, <2>6, <3>2, <3>3 DEF Listed, Connected
      <3>4. CASE up[Target[r]] # "up"
        <4>1. noproc /\ ans = [op |-> "down", ref |-> r] /\ back = NodeOf[Watcher[r]]
          BY <2>6, <3>1, <3>4 DEF noproc, ans, back, Noproc
        <4>2. Queued(NodeOf[Watcher[r]], "down", r)'
          BY <1>5, <2>5, <4>1 DEF Queued
        <4> QED BY <1>3, <2>6, <4>2 DEF Coming, Connected
      <3> QED BY <3>3, <3>4
    <2>7. CASE /\ Far(r) /\ Connected
               /\ Queued(NodeOf[Target[r]], "monitor", r)
               /\ msg # [op |-> "monitor", ref |-> r]
      BY <1>3, <1>5, <2>5, <2>7 DEF Coming, Queued, Connected
    <2>8. CASE Far(r) /\ Connected /\ Queued(NodeOf[Watcher[r]], "down", r)
      BY <1>3, <1>5, <2>2, <2>5, <2>8 DEF Coming, Queued, Connected
    <2>9. CASE \/ Down(r) \in tasks
               \/ Far(r) /\ events[NodeOf[Watcher[r]]] > 0
               \/ Far(r) /\ Connected /\ RemoteDown(r) \in tasks
      BY <1>3, <2>9 DEF Coming, Connected
    <2>10. CASE Listed(r)
      BY <1>3, <2>4, <2>10 DEF Listed, Connected
    <2> QED BY <2>1, <2>6, <2>7, <2>8, <2>9, <2>10 DEF Coming
  <1>8. \A r \in Ref : refs'[r] = "active" => r \in monitors'
    BY <1>2, <1>3, DeliverDownSettles
  <1> QED BY <1>3, <1>6, <1>7, <1>8 DEF DownInv, Connected

\* _deliver_down and _notify_remote_down on their own tasks.
LEMMA RunTaskDown ==
    ASSUME TypeInv, IInv, DownInv, NEW t \in tasks, RunTask(t)
    PROVE  DownInv'
  <1>0. wire \in Wire /\ t \in Task
    BY DEF TypeInv, NetTypes
  <1>1. /\ UNCHANGED <<up, restarted, watchers, breaks, events>>
        /\ tasks' = tasks \ {t}
        /\ (t.op = "down" /\ DeliverDown(t.ref)) \/ UNCHANGED <<monitors, refs>>
        /\ t.op = "down" => DeliverDown(t.ref)
    BY DEF RunTask
  <1>2. \A r \in Ref : refs'[r] = "active" =>
                          refs[r] = "active" /\ r \in monitors' /\ t # Down(r)
    <2>1. CASE t.op = "down"
      BY <1>0, <1>1, <2>1, TaskFields, DeliverDownSettles, SMT DEF Down
    <2>2. CASE t.op # "down"
      BY <1>1, <2>2, SMT DEF DownInv, Down
    <2> QED BY <2>1, <2>2
  <1>3. \A r \in Ref : refs[r] = "cancelled" => refs'[r] = "cancelled"
    <2>1. \A r \in Ref : refs[r] = "cancelled" => r \notin monitors
      BY DEF IInv, Settled
    <2>2. CASE t.op = "down"
      BY <1>0, <1>1, <2>1, <2>2, TaskFields, DeliverDownSettles
    <2>3. CASE t.op # "down"
      BY <1>1, <2>3
    <2> QED BY <2>2, <2>3
  <1>4. ASSUME NEW k \in Node
        PROVE  /\ Elements(wire[k].m) \subseteq Elements(wire'[k].m)
               /\ \A msg \in Elements(wire'[k].m) \ Elements(wire[k].m) : msg.op = "down"
               /\ \A r \in Ref : t = RemoteDown(r) /\ Connected /\ k = NodeOf[Watcher[r]] =>
                                    Down(r) \in Elements(wire'[k].m)
    <2>1. CASE t.op = "remote_down" /\ Connected
      <3>1. t.ref \in Ref /\ NodeOf[Watcher[t.ref]] \in Node /\ Down(t.ref) \in MonitorMsg
        BY <1>0, <2>1, TaskFields, ExitsAssumption DEF MonitorMsg, Down
      <3>2. wire' = AddMonitor(wire, NodeOf[Watcher[t.ref]], Down(t.ref))
        BY <2>1 DEF RunTask, SendMonitor, AddMonitor, Down
      <3>3. /\ k = NodeOf[Watcher[t.ref]] => Elements(wire'[k].m) = Elements(wire[k].m) \union {Down(t.ref)}
            /\ k # NodeOf[Watcher[t.ref]] => Elements(wire'[k].m) = Elements(wire[k].m)
        BY <1>0, <3>1, <3>2, AddedMonitor, SMT
      <3>4. \A r \in Ref : t = RemoteDown(r) => t.ref = r
        BY SMT DEF RemoteDown
      <3> QED BY <3>3, <3>4, SMT DEF Down
    <2>2. CASE t.op = "remote_exit" /\ Connected
      <3>1. [op |-> "exit", x |-> t.x, y |-> t.y] \in LinkMsg /\ NodeOf[t.y] \in Node
        BY <1>0, <2>2, TaskFields, ExitsAssumption DEF LinkMsg
      <3>2. wire' = AddLink(wire, NodeOf[t.y], [op |-> "exit", x |-> t.x, y |-> t.y])
        BY <2>2 DEF RunTask, SendLink, AddLink
      <3>3. wire'[k].m = wire[k].m
        BY <1>0, <3>1, <3>2, SentLink
      <3> QED BY <2>2, <3>3, SMT DEF RemoteDown
    <2>3. CASE t.op \in {"exit", "down"} \/ ~Connected
      <3>1. wire' = wire
        BY <2>3 DEF RunTask
      <3> QED BY <2>3, <3>1, SMT DEF RemoteDown
    <2> QED BY <2>1, <2>2, <2>3 DEF RunTask
  <1>5. \A k \in Node, r \in Ref : Queued(k, "demonitor", r)' => refs'[r] = "cancelled"
    BY <1>3, <1>4, SMT DEF DownInv, Queued
  <1>6. ASSUME NEW r \in Ref, refs'[r] = "active", Target[r] \notin restarted'
        PROVE  (Coming(r) \/ Listed(r))'
    <2>1. refs[r] = "active" /\ t # Down(r) /\ (Coming(r) \/ Listed(r))
      BY <1>1, <1>2, <1>6 DEF DownInv
    <2>2. NodeOf[Watcher[r]] \in Node /\ NodeOf[Target[r]] \in Node
      BY ExitsAssumption
    <2>3. CASE Listed(r) \/ Down(r) \in tasks \/ (Far(r) /\ events[NodeOf[Watcher[r]]] > 0)
      BY <1>1, <2>1, <2>3 DEF Coming, Listed, Connected
    <2>4. CASE Far(r) /\ Connected /\ RemoteDown(r) \in tasks
      <3>1. CASE t = RemoteDown(r)
        BY <1>1, <1>4, <2>2, <2>4, <3>1 DEF Coming, Queued, Down, Connected
      <3>2. CASE t # RemoteDown(r)
        BY <1>1, <2>4, <3>2 DEF Coming, Connected
      <3> QED BY <3>1, <3>2
    <2>5. CASE /\ Far(r) /\ Connected
               /\ Queued(NodeOf[Target[r]], "monitor", r) \/ Queued(NodeOf[Watcher[r]], "down", r)
      BY <1>1, <1>4, <2>2, <2>5 DEF Coming, Queued, Connected
    <2> QED BY <2>1, <2>3, <2>4, <2>5 DEF Coming
  <1> QED BY <1>1, <1>2, <1>5, <1>6 DEF DownInv, Connected

\* A break takes the messages under way with it, and every node is told; what
\* was owed before a reconnection is owed by a task.
LEMMA ConnectionDown ==
    ASSUME TypeInv, DownInv, ~LateEvents, Break \/ Reconnect
    PROVE  DownInv'
  <1>0. /\ breaks \in Nat /\ breaks' = breaks + 1
        /\ events \in [Node -> Nat]
        /\ UNCHANGED <<up, restarted, monitors, watchers, refs, tasks>>
    BY ExitsAssumption, SMT DEF Break, Reconnect, TypeInv, NetTypes, actorVars, monitorVars
  <1>1. Connected' = ~Connected
    BY <1>0, SMT DEF Connected
  <1>2. \A n \in Node : Elements(wire'[n].m) \subseteq Elements(wire[n].m)
    BY SMT DEF Break, Reconnect, Elements
  <1>3. \A n \in Node, r \in Ref : Queued(n, "demonitor", r)' => refs'[r] = "cancelled"
    BY <1>0, <1>2 DEF DownInv, Queued
  <1>4. Connected' => \A n \in Node : events'[n] = 0
    BY <1>1 DEF Break, Reconnect
  <1>5. ASSUME NEW r \in Ref, refs'[r] = "active", Target[r] \notin restarted'
        PROVE  (Coming(r) \/ Listed(r))'
    <2>1. Coming(r) \/ Listed(r)
      BY <1>0, <1>5 DEF DownInv
    <2>2. NodeOf[Watcher[r]] \in Node
      BY ExitsAssumption
    <2>3. CASE Break /\ Far(r)
      <3>1. events'[NodeOf[Watcher[r]]] > 0
        BY <1>0, <2>2, <2>3, SMT DEF Break
      <3> QED BY <2>3, <3>1 DEF Coming
    <2>4. CASE ~Far(r)
      BY <1>0, <2>1, <2>4 DEF Coming, Listed
    <2>5. CASE Reconnect /\ Far(r)
      BY <1>0, <2>1, <2>2, <2>5 DEF Coming, Listed, Reconnect
    <2> QED BY <2>3, <2>4, <2>5
  <1>6. /\ \A a \in Actor : up'[a] = "backoff" => a \in restarted'
        /\ \A r \in Ref : refs'[r] = "active" => r \in monitors'
    BY <1>0 DEF DownInv
  <1> QED BY <1>3, <1>4, <1>5, <1>6 DEF DownInv

\* A peer_disconnected gives every monitor across the connection a Down.
LEMMA PeerDisconnectedDown ==
    ASSUME TypeInv, DownInv, NEW n \in Node, PeerDisconnected(n)
    PROVE  DownInv'
  <1>0. /\ UNCHANGED <<up, restarted, monitors, refs, wire, breaks>>
        /\ events \in [Node -> Nat] /\ events[n] > 0 /\ ~Connected
        /\ events' = [events EXCEPT ![n] = @ - 1]
        /\ watchers' = {r \in watchers : NodeOf[Target[r]] # n \/ NodeOf[Watcher[r]] = n}
        /\ tasks \subseteq tasks'
        /\ \A r \in Owed(n) : Down(r) \in tasks'
    <2>1. /\ UNCHANGED <<up, restarted, monitors, refs, wire, breaks>>
          /\ events[n] > 0 /\ events' = [events EXCEPT ![n] = @ - 1]
          /\ watchers' = {r \in watchers : NodeOf[Target[r]] # n \/ NodeOf[Watcher[r]] = n}
      BY DEF PeerDisconnected, actorVars
    <2>2. tasks \subseteq tasks' /\ \A r \in Owed(n) : Down(r) \in tasks'
      BY Zenon DEF PeerDisconnected, Down
    <2>3. events \in [Node -> Nat] /\ ~Connected
      BY <2>1, SMT DEF TypeInv, NetTypes, DownInv
    <2> QED BY <2>1, <2>2, <2>3
  <1>1. ASSUME NEW r \in Ref, refs'[r] = "active", Target[r] \notin restarted'
        PROVE  (Coming(r) \/ Listed(r))'
    <2>1. r \in monitors /\ (Coming(r) \/ Listed(r))
      BY <1>0, <1>1 DEF DownInv
    <2>2. NodeOf[Watcher[r]] \in Node
      BY ExitsAssumption
    <2>3. CASE ~Far(r)
      BY <1>0, <2>1, <2>3 DEF Coming, Listed, Far, Local
    <2>4. CASE Far(r) /\ NodeOf[Watcher[r]] = n
      BY <1>0, <2>1, <2>4 DEF Coming, Far, Local, Owed
    <2>5. CASE Far(r) /\ NodeOf[Watcher[r]] # n
      BY <1>0, <2>1, <2>2, <2>5 DEF Coming, Listed
    <2> QED BY <2>3, <2>4, <2>5
  <1>2. /\ Connected' => \A k \in Node : events'[k] = 0
        /\ \A a \in Actor : up'[a] = "backoff" => a \in restarted'
        /\ \A r \in Ref : refs'[r] = "active" => r \in monitors'
        /\ \A k \in Node, r \in Ref : Queued(k, "demonitor", r)' => refs'[r] = "cancelled"
    BY <1>0 DEF DownInv, Connected, Queued
  <1> QED BY <1>1, <1>2 DEF DownInv

LEMMA NextDown == ~LateEvents /\ TypeInv /\ IInv /\ DownInv /\ [Next]_vars => DownInv'
  <1> SUFFICES ASSUME ~LateEvents, TypeInv, IInv, DownInv, [Next]_vars PROVE DownInv'
    OBVIOUS
  <1>1. CASE UNCHANGED vars
    BY <1>1 DEF vars, DownInv, Coming, Listed, Queued, Connected
  <1> QED BY <1>1, LinkDown, LinkActorDown, GenerationDown, GiveUpDown, MonitorDown,
             MonitorActorDown, RunTaskDown, ConnectionDown, PeerDisconnectedDown
          DEF Next, NodeStep

LEMMA InitDown == Init => DownInv
  BY SMT DEF Init, DownInv, Queued, Elements

\* "If the monitored actor exits for good, the watcher receives a Down": from
\* the moment the target is gone a step that tells its watcher is pending, on
\* every path of breaks, reconnections and crossing messages, for any actors on
\* any nodes, if a peer_disconnected is handled before the peer is back.
THEOREM DownsTheorem == ~LateEvents => (Spec => []DownIsUnderWay)
  <1> SUFFICES ASSUME ~LateEvents PROVE Spec => []DownIsUnderWay
    OBVIOUS
  <1>1. DownInv => DownIsUnderWay
    BY DEF DownInv, DownIsUnderWay, Listed
  <1>2. TypeInv /\ IInv /\ DownInv /\ [Next]_vars => DownInv'
    BY NextDown
  <1> QED BY <1>1, <1>2, InitDown, InitTypes, NextTypes, InitIInv, NextOnce, PTL DEF Spec

-----------------------------------------------------------------------------
(* An exit signal that is owed is under way                                *)

LinkOf(a, b) == [op |-> "link", x |-> a, y |-> b]
UnlinkOf(a, b) == [op |-> "unlink", x |-> a, y |-> b]
ExitOf(a, b) == [op |-> "exit", x |-> a, y |-> b]
RemoteExit(a, b) == [op |-> "remote_exit", x |-> a, y |-> b]

\* A queue that leaves the link of a to b recorded: no unlink comes after it.
Leaves(s, a, b) ==
    \E i \in 1..Len(s) : s[i] = LinkOf(a, b) /\ \A j \in 1..Len(s) : j > i => s[j] # UnlinkOf(a, b)

\* What will tell a of the end of b: a delivery on its node, or the
\* peer_disconnected it has not handled; or, while the connection is up, the
\* exit of b, not sent yet or on its way, or the answer to the link message.
ExitComing(a, b) ==
    \/ ExitOf(b, a) \in tasks
    \/ ~Local(a, b) /\ events[NodeOf[a]] > 0
    \/ /\ ~Local(a, b) /\ Connected
       /\ \/ RemoteExit(b, a) \in tasks
          \/ ExitOf(b, a) \in Elements(wire[NodeOf[a]].l)
          \/ Leaves(wire[NodeOf[b]].l, a, b)

\* a has recorded a link to b, and was told of nothing since.
Trusts(a, b) ==
    <<a, b>> \in Linkable /\ b \in links[a] /\ b \notin restarted /\ <<a, b>> \notin told

\* An actor that has recorded a link to one that is gone has an exit signal
\* under way, whatever the connection has swallowed.
ExitIsUnderWay ==
    \A a, b \in Actor : Trusts(a, b) /\ up[b] = "gone" => ExitComing(a, b)

\* b is up and has the link, with no unlink on its way to remove it.
Held(a, b) ==
    /\ a \in links[b] /\ up[b] = "up"
    /\ ~Local(a, b) => Connected /\ UnlinkOf(a, b) \notin Elements(wire[NodeOf[b]].l)

\* The inductive invariant, with DownInv.  Only an actor that runs has recorded
\* a link of its own.
ExitInv ==
    /\ \A n \in Node : \A msg \in Elements(wire[n].l) :
          msg.op \in {"link", "unlink"} =>
              <<msg.x, msg.y>> \in Linkable /\ NodeOf[msg.y] = n /\ ~Local(msg.x, msg.y)
    /\ \A a, b \in Actor : <<a, b>> \in Linkable /\ b \in links[a] => up[a] = "up"
    /\ \A a, b \in Actor : Trusts(a, b) => ExitComing(a, b) \/ Held(a, b)

\* Of two actors only one makes and ends the link between them.
OneSided == \A a, b \in Actor : <<a, b>> \in Linkable => <<b, a>> \notin Linkable

\* What is left of a link message when the queue moves on.
LEMMA LeavesTail ==
    ASSUME NEW s \in Seq(LinkMsg), s # << >>, NEW a, NEW b, Leaves(s, a, b)
    PROVE  \/ Leaves(Tail(s), a, b)
           \/ Head(s) = LinkOf(a, b) /\ UnlinkOf(a, b) \notin Elements(Tail(s))
  <1>1. PICK n \in Nat : n = Len(s) /\ n > 0
    BY SMT
  <1>2. /\ Len(Tail(s)) = n - 1 /\ Head(s) = s[1]
        /\ \A i \in 1..(n - 1) : Tail(s)[i] = s[i + 1]
    BY <1>1, SMT
  <1>3. PICK i \in 1..n : s[i] = LinkOf(a, b) /\ \A j \in 1..n : j > i => s[j] # UnlinkOf(a, b)
    BY <1>1 DEF Leaves
  <1>4. \A j \in 1..(n - 1) : j + 1 \in 1..n /\ (j + 1 > i \/ j < i)
    BY <1>1, SMT
  <1>5. CASE i = 1
    <2>1. \A j \in 1..(n - 1) : j + 1 \in 1..n /\ j + 1 > i
      BY <1>1, <1>5, SMT
    <2>2. \A j \in 1..(n - 1) : Tail(s)[j] # UnlinkOf(a, b)
      BY <1>2, <1>3, <2>1
    <2> QED BY <1>2, <1>3, <1>5, <2>2 DEF Elements
  <1>6. CASE i # 1
    <2>1. /\ i - 1 \in 1..(n - 1) /\ (i - 1) + 1 = i
          /\ \A j \in 1..(n - 1) : j > i - 1 => j + 1 \in 1..n /\ j + 1 > i
      BY <1>1, <1>6, SMT
    <2>2. Tail(s)[i - 1] = LinkOf(a, b)
      BY <1>2, <1>3, <2>1
    <2>3. \A j \in 1..(n - 1) : j > i - 1 => Tail(s)[j] # UnlinkOf(a, b)
      BY <1>2, <1>3, <2>1
    <2> QED BY <1>2, <2>1, <2>2, <2>3 DEF Leaves
  <1> QED BY <1>5, <1>6

LEMMA LeavesAppend ==
    ASSUME NEW s \in Seq(LinkMsg), NEW msg \in LinkMsg, NEW a, NEW b,
           msg = LinkOf(a, b) \/ (Leaves(s, a, b) /\ msg # UnlinkOf(a, b))
    PROVE  Leaves(Append(s, msg), a, b)
  <1>1. PICK n \in Nat : n = Len(s)
    BY SMT
  <1>2. /\ Len(Append(s, msg)) = n + 1 /\ Append(s, msg)[n + 1] = msg
        /\ \A i \in 1..n : Append(s, msg)[i] = s[i]
    BY <1>1, SMT
  <1>3. CASE msg = LinkOf(a, b)
    <2>1. n + 1 \in 1..(n + 1) /\ \A j \in 1..(n + 1) : ~(j > n + 1)
      BY SMT
    <2> QED BY <1>2, <1>3, <2>1 DEF Leaves
  <1>4. CASE Leaves(s, a, b) /\ msg # UnlinkOf(a, b)
    <2>1. PICK i \in 1..n : s[i] = LinkOf(a, b) /\ \A j \in 1..n : j > i => s[j] # UnlinkOf(a, b)
      BY <1>1, <1>4 DEF Leaves
    <2>2. i \in 1..(n + 1) /\ \A j \in 1..(n + 1) : j \in 1..n \/ j = n + 1
      BY SMT
    <2>3. \A j \in 1..(n + 1) : j > i => Append(s, msg)[j] # UnlinkOf(a, b)
      BY <1>2, <1>4, <2>1, <2>2
    <2>4. Append(s, msg)[i] = LinkOf(a, b)
      BY <1>2, <2>1
    <2> QED BY <1>2, <2>2, <2>3, <2>4 DEF Leaves
  <1> QED BY <1>3, <1>4

LEMMA AddedLink ==
    ASSUME NEW w \in Wire, NEW n \in Node, NEW msg \in LinkMsg, NEW k \in Node
    PROVE  /\ k = n => Elements(AddLink(w, n, msg)[k].l) = Elements(w[k].l) \union {msg}
           /\ k # n => AddLink(w, n, msg)[k].l = w[k].l
           /\ k = n => \A a, b : msg = LinkOf(a, b) => Leaves(AddLink(w, n, msg)[k].l, a, b)
           /\ \A a, b : Leaves(w[k].l, a, b) /\ msg # UnlinkOf(a, b) =>
                            Leaves(AddLink(w, n, msg)[k].l, a, b)
  <1>1. w[k].l \in Seq(LinkMsg)
    BY QueueTypes
  <1>2. Elements(Append(w[k].l, msg)) = Elements(w[k].l) \union {msg}
    BY <1>1, AppendElements, SMT
  <1>3. /\ k = n => AddLink(w, n, msg)[k].l = Append(w[k].l, msg)
        /\ k # n => AddLink(w, n, msg)[k].l = w[k].l
    BY SentLink, SMT
  <1>4. ASSUME NEW a, NEW b, msg = LinkOf(a, b) \/ (Leaves(w[k].l, a, b) /\ msg # UnlinkOf(a, b))
        PROVE  Leaves(Append(w[k].l, msg), a, b)
    BY <1>1, <1>4, LeavesAppend
  <1> QED BY <1>2, <1>3, <1>4

LEMMA RemovedLink ==
    ASSUME NEW w \in Wire, NEW n \in Node, w[n].l # << >>, NEW k \in Node
    PROVE  /\ k = n => Elements(w[k].l) = {Head(w[n].l)} \union Elements(TakeLink(w, n)[k].l)
           /\ k # n => TakeLink(w, n)[k].l = w[k].l
           /\ \A a, b : Leaves(w[k].l, a, b) =>
                  \/ Leaves(TakeLink(w, n)[k].l, a, b)
                  \/ /\ k = n /\ Head(w[n].l) = LinkOf(a, b)
                     /\ UnlinkOf(a, b) \notin Elements(TakeLink(w, n)[k].l)
  <1>1. w[n].l \in Seq(LinkMsg)
    BY QueueTypes
  <1>2. Elements(w[n].l) = {Head(w[n].l)} \union Elements(Tail(w[n].l))
    BY <1>1, TailElements
  <1>3. TakeLink(w, n)[n].l = Tail(w[n].l) /\ (k # n => TakeLink(w, n)[k].l = w[k].l)
    BY TakenLink
  <1>4. ASSUME NEW a, NEW b, Leaves(w[k].l, a, b), k = n
        PROVE  \/ Leaves(TakeLink(w, n)[k].l, a, b)
               \/ /\ Head(w[n].l) = LinkOf(a, b)
                  /\ UnlinkOf(a, b) \notin Elements(TakeLink(w, n)[k].l)
    BY <1>1, <1>3, <1>4, LeavesTail
  <1> QED BY <1>2, <1>3, <1>4

\* A step that takes nothing away from the link of a to b.
SparesLink(a, b) ==
    /\ ExitOf(b, a) \in tasks => ExitOf(b, a) \in tasks'
    /\ RemoteExit(b, a) \in tasks => RemoteExit(b, a) \in tasks'
    /\ events[NodeOf[a]] > 0 => events'[NodeOf[a]] > 0
    /\ Connected => Connected'
    /\ ExitOf(b, a) \in Elements(wire[NodeOf[a]].l) => ExitOf(b, a) \in Elements(wire'[NodeOf[a]].l)
    /\ Leaves(wire[NodeOf[b]].l, a, b) => Leaves(wire'[NodeOf[b]].l, a, b)
    /\ UnlinkOf(a, b) \in Elements(wire'[NodeOf[b]].l) => UnlinkOf(a, b) \in Elements(wire[NodeOf[b]].l)
    /\ a \in links[b] => a \in links'[b]
    /\ up[b] = "up" => up'[b] = "up"

LEMMA SparesLinkOwed ==
    ASSUME NEW a \in Actor, NEW b \in Actor, SparesLink(a, b), ExitComing(a, b) \/ Held(a, b)
    PROVE  (ExitComing(a, b) \/ Held(a, b))'
  BY DEF SparesLink, ExitComing, Held, Local

\* Most steps send no link messages.
LEMMA ExitFrame ==
    ASSUME ExitInv, \A n \in Node : wire'[n].l = wire[n].l,
           \A a, b \in Actor : <<a, b>> \in Linkable /\ b \in links'[a] => up'[a] = "up",
           \A a, b \in Actor : Trusts(a, b)' => Trusts(a, b) /\ SparesLink(a, b)
    PROVE  ExitInv'
  BY SparesLinkOwed DEF ExitInv, Local

\* Monitors leave the links alone.
LEMMA MonitorsExit ==
    ASSUME TypeInv, ExitInv,
           UNCHANGED <<up, restarted, links, told, tasks, breaks, events>>,
           \A n \in Node : wire'[n].l = wire[n].l
    PROVE  ExitInv'
  <1>1. \A a, b \in Actor : SparesLink(a, b) /\ (Trusts(a, b)' => Trusts(a, b))
    BY ExitsAssumption DEF SparesLink, Connected, Trusts
  <1> QED BY <1>1, ExitFrame DEF ExitInv

LEMMA MonitorExit ==
    ASSUME TypeInv, ExitInv, NEW r \in Ref, Monitor(r) \/ Demonitor(r)
    PROVE  ExitInv'
  <1>0. wire \in Wire /\ NodeOf[Target[r]] \in Node
    BY ExitsAssumption DEF TypeInv, NetTypes
  <1>1. /\ UNCHANGED <<up, restarted, links, told, tasks, breaks, events>>
        /\ wire' = wire \/ \E msg \in MonitorMsg : wire' = AddMonitor(wire, NodeOf[Target[r]], msg)
    <2>1. [op |-> "monitor", ref |-> r] \in MonitorMsg /\ [op |-> "demonitor", ref |-> r] \in MonitorMsg
      BY DEF MonitorMsg
    <2> QED BY <2>1 DEF Monitor, Demonitor, SendMonitor, AddMonitor, actorVars, linkVars
  <1>2. \A n \in Node : wire'[n].l = wire[n].l
    <2>1. \A msg \in MonitorMsg, k \in Node :
              AddMonitor(wire, NodeOf[Target[r]], msg)[k].l = wire[k].l
      BY <1>0, SentMonitor
    <2> QED BY <1>1, <2>1
  <1> QED BY <1>1, <1>2, MonitorsExit

LEMMA MonitorActorExit ==
    ASSUME TypeInv, ExitInv, NEW n \in Node, MonitorActor(n)
    PROVE  ExitInv'
  <1>0. wire \in Wire /\ wire[n].m # << >>
    BY DEF MonitorActor, TypeInv, NetTypes
  <1>1. PICK msg \in MonitorMsg : msg = Head(wire[n].m)
    BY <1>0, TakenMonitor
  <1>2. NodeOf[Watcher[msg.ref]] \in Node /\ Down(msg.ref) \in MonitorMsg
    BY ExitsAssumption DEF MonitorMsg, Down
  <1>3. /\ UNCHANGED <<up, restarted, links, told, tasks, breaks, events>>
        /\ \/ wire' = TakeMonitor(wire, n)
           \/ wire' = AddMonitor(TakeMonitor(wire, n), NodeOf[Watcher[msg.ref]], Down(msg.ref))
    BY <1>1 DEF MonitorActor, AddMonitor, TakeMonitor, Down, actorVars, linkVars
  <1>4. TakeMonitor(wire, n) \in Wire /\ \A k \in Node : TakeMonitor(wire, n)[k].l = wire[k].l
    BY <1>0, TakenMonitor
  <1>5. \A k \in Node : wire'[k].l = wire[k].l
    <2>1. \A k \in Node : AddMonitor(TakeMonitor(wire, n), NodeOf[Watcher[msg.ref]], Down(msg.ref))[k].l
                              = TakeMonitor(wire, n)[k].l
      BY <1>2, <1>4, SentMonitor
    <2> QED BY <1>3, <1>4, <2>1
  <1> QED BY <1>3, <1>5, MonitorsExit

\* The link of an actor that crashes goes with its table, and its peers are not
\* told of a restart.
LEMMA GenerationExit ==
    ASSUME TypeInv, DownInv, ExitInv, NEW p \in Actor,
           TrapExit(p) \/ Crash(p) \/ Restart(p) \/ CancelledInBackoff(p)
    PROVE  ExitInv'
  <1>1. UNCHANGED <<told, tasks, wire, breaks, events>>
    BY DEF TrapExit, Crash, Restart, CancelledInBackoff, linkVars, netVars
  <1>2. CASE UNCHANGED <<links, restarted>> /\ \A x \in Actor : up[x] = "up" => up'[x] = "up"
    <2>1. \A a, b \in Actor : SparesLink(a, b) /\ (Trusts(a, b)' => Trusts(a, b))
      BY <1>1, <1>2 DEF SparesLink, Connected, Trusts
    <2>2. \A a, b \in Actor : <<a, b>> \in Linkable /\ b \in links'[a] => up'[a] = "up"
      BY <1>2 DEF ExitInv
    <2> QED BY <1>1, <2>1, <2>2, ExitFrame
  <1>3. CASE Crash(p)
    <2>1. /\ links' = [links EXCEPT ![p] = {}] /\ up' = [up EXCEPT ![p] = "backoff"]
          /\ restarted' = restarted \union {p}
      BY <1>3 DEF Crash, Cleared
    <2>2. \A a \in Actor : /\ a = p => links'[a] = {}
                           /\ a # p => links'[a] = links[a] /\ up'[a] = up[a]
      BY <2>1 DEF TypeInv, ActorTypes, TableTypes
    <2>3. ASSUME NEW a \in Actor, NEW b \in Actor, Trusts(a, b)'
          PROVE  Trusts(a, b) /\ SparesLink(a, b)
      <3>1. a # p /\ b # p
        BY <2>1, <2>2, <2>3 DEF Trusts
      <3> QED BY <1>1, <2>1, <2>2, <2>3, <3>1 DEF Trusts, SparesLink, Connected
    <2>4. \A a, b \in Actor : <<a, b>> \in Linkable /\ b \in links'[a] => up'[a] = "up"
      BY <2>2 DEF ExitInv
    <2> QED BY <1>1, <2>3, <2>4, ExitFrame
  <1>4. TrapExit(p) => UNCHANGED <<links, up, restarted>>
    BY DEF TrapExit, actorVars
  <1>5. ASSUME Restart(p) \/ CancelledInBackoff(p)
        PROVE  UNCHANGED <<links, restarted>> /\ \A x \in Actor : up[x] = "up" => up'[x] = "up"
    BY <1>5, SMT DEF Restart, CancelledInBackoff, linkVars, TypeInv, ActorTypes
  <1> QED BY <1>2, <1>3, <1>4, <1>5

\* An actor that is gone for good tells the peers it has links with.
LEMMA GiveUpExit ==
    ASSUME TypeInv, ExitInv, NEW p \in Actor, GiveUp(p)
    PROVE  ExitInv'
  <1>1. /\ UNCHANGED <<told, restarted, wire, breaks, events>>
        /\ up' = [up EXCEPT ![p] = "gone"] /\ links' = [links EXCEPT ![p] = {}]
        /\ tasks \union ExitTasks(p) \subseteq tasks'
    BY DEF GiveUp, Cleared, netVars
  <1>2. \A a \in Actor : /\ a = p => links'[a] = {}
                         /\ a # p => links'[a] = links[a] /\ up'[a] = up[a]
    BY <1>1 DEF TypeInv, ActorTypes, TableTypes
  <1>3. \A a, b \in Actor : <<a, b>> \in Linkable /\ b \in links'[a] => up'[a] = "up"
    BY <1>2 DEF ExitInv
  <1>4. ASSUME NEW a \in Actor, NEW b \in Actor, Trusts(a, b)'
        PROVE  (ExitComing(a, b) \/ Held(a, b))'
    <2>1. a # p /\ Trusts(a, b) /\ (ExitComing(a, b) \/ Held(a, b))
      BY <1>1, <1>2, <1>4 DEF Trusts, ExitInv
    <2>2. CASE b # p
      <3>1. SparesLink(a, b)
        BY <1>1, <1>2, <2>2 DEF SparesLink, Connected
      <3> QED BY <2>1, <3>1, SparesLinkOwed
    <2>3. CASE ExitComing(a, b)
      BY <1>1, <2>3 DEF ExitComing, Connected, Local
    <2>4. CASE Held(a, b) /\ b = p
      <3>1. /\ Local(a, b) => ExitOf(b, a) \in ExitTasks(p)
            /\ ~Local(a, b) => RemoteExit(b, a) \in ExitTasks(p)
        BY <2>4 DEF Held, ExitTasks, ExitOf, RemoteExit, Local
      <3>2. ~Local(a, b) => Connected'
        BY <1>1, <2>4 DEF Held, Connected
      <3> QED BY <1>1, <3>1, <3>2 DEF ExitComing, Local
    <2> QED BY <2>1, <2>2, <2>3, <2>4
  <1> QED BY <1>1, <1>3, <1>4 DEF ExitInv, Local

\* At most one link message is sent.
LEMMA QueueGrows ==
    ASSUME wire \in Wire, NEW n \in Node, NEW msg \in LinkMsg,
           wire' = wire \/ wire' = AddLink(wire, n, msg), NEW k \in Node
    PROVE  /\ Elements(wire[k].l) \subseteq Elements(wire'[k].l)
           /\ Elements(wire'[k].l) \subseteq Elements(wire[k].l) \union {msg}
           /\ k # n => wire'[k].l = wire[k].l
           /\ \A a, b : Leaves(wire[k].l, a, b) /\ msg # UnlinkOf(a, b) => Leaves(wire'[k].l, a, b)
  <1>1. CASE wire' = wire
    BY <1>1
  <1>2. CASE wire' = AddLink(wire, n, msg)
    <2> DEFINE w == AddLink(wire, n, msg)
    <2>1. /\ k = n => Elements(w[k].l) = Elements(wire[k].l) \union {msg}
          /\ k # n => w[k].l = wire[k].l
          /\ \A a, b : Leaves(wire[k].l, a, b) /\ msg # UnlinkOf(a, b) => Leaves(w[k].l, a, b)
      BY AddedLink, SMT
    <2> QED BY <1>2, <2>1
  <1> QED BY <1>1, <1>2

\* link(): the caller's side is recorded, and with it the other side, the
\* message for it, the noproc exit or the exception.
LEMMA LinkExit ==
    ASSUME OneSided, TypeInv, ExitInv, NEW p \in Actor, NEW q \in Actor, Link(p, q)
    PROVE  ExitInv'
  <1>0. /\ wire \in Wire /\ NodeOf[q] \in Node /\ LinkOf(p, q) \in LinkMsg
        /\ <<p, q>> \in Linkable /\ <<q, p>> \notin Linkable /\ p # q /\ up[p] = "up"
    BY ExitsAssumption DEF TypeInv, NetTypes, LinkMsg, LinkOf, OneSided, Link, Calls
  <1>1. /\ UNCHANGED <<up, restarted, tasks, breaks, events>>
        /\ ~Local(p, q) /\ Connected => wire' = AddLink(wire, NodeOf[q], LinkOf(p, q))
        /\ ~(~Local(p, q) /\ Connected) => wire' = wire
    BY DEF Link, SendLink, AddLink, LinkOf
  <1>2. ASSUME NEW a \in Actor
        PROVE  /\ links[a] \subseteq links'[a]
               /\ links'[a] \subseteq links[a] \union (IF a = p THEN {q} ELSE {})
                                               \union (IF a = q THEN {p} ELSE {})
               /\ Local(p, q) /\ a = q => p \in links'[a]
    BY <1>0, SMT DEF Link, TypeInv, TableTypes
  <1>3. ASSUME NEW a \in Actor, NEW b \in Actor, <<a, b>> \in Linkable, b \in links'[a]
        PROVE  b \in links[a] \/ (a = p /\ b = q)
    BY <1>0, <1>2, <1>3
  <1>4. ASSUME NEW n \in Node, NEW msg \in Elements(wire'[n].l), msg.op \in {"link", "unlink"}
        PROVE  <<msg.x, msg.y>> \in Linkable /\ NodeOf[msg.y] = n /\ ~Local(msg.x, msg.y)
    <2>1. CASE msg \in Elements(wire[n].l)
      BY <1>4, <2>1 DEF ExitInv
    <2>2. CASE msg \notin Elements(wire[n].l)
      <3>1. ~Local(p, q) /\ Connected /\ n = NodeOf[q] /\ msg = LinkOf(p, q)
        BY <1>0, <1>1, <2>2, QueueGrows, SMT
      <3>2. msg.x = p /\ msg.y = q
        BY <3>1 DEF LinkOf
      <3> QED BY <1>0, <3>1, <3>2
    <2> QED BY <2>1, <2>2
  <1>5. \A a, b \in Actor : <<a, b>> \in Linkable /\ b \in links'[a] => up'[a] = "up"
    BY <1>0, <1>1, <1>3 DEF ExitInv
  <1>6. ASSUME NEW a \in Actor, NEW b \in Actor, Trusts(a, b)'
        PROVE  (ExitComing(a, b) \/ Held(a, b))'
    <2>0. <<a, b>> \in Linkable /\ b \in links'[a] /\ b \notin restarted /\ <<a, b>> \notin told'
      BY <1>1, <1>6 DEF Trusts
    <2>1. CASE a = p /\ b = q
      <3>1. CASE Local(p, q)
        <4>1. up[q] = "up"
          BY <1>0, <2>0, <2>1, <3>1 DEF Link, DeliverExit
        <4> QED BY <1>1, <1>2, <2>1, <3>1, <4>1 DEF Held, Local
      <3>2. CASE ~Local(p, q)
        <4>1. Connected
          BY <2>0, <2>1, <3>2 DEF Link
        <4>2. wire' = AddLink(wire, NodeOf[q], LinkOf(p, q))
          BY <1>1, <3>2, <4>1
        <4>3. Leaves(AddLink(wire, NodeOf[q], LinkOf(p, q))[NodeOf[q]].l, p, q)
          BY <1>0, AddedLink
        <4> QED BY <1>1, <2>1, <3>2, <4>1, <4>2, <4>3 DEF ExitComing, Connected, Local
      <3> QED BY <3>1, <3>2
    <2>2. CASE ~(a = p /\ b = q)
      <3>1. <<a, b>> # <<p, q>>
        BY <2>2, SMT
      <3>2. <<a, b>> \notin told
        BY <2>0, <3>1 DEF Link, DeliverExit
      <3>3. Trusts(a, b)
        BY <1>3, <2>0, <2>2, <3>2 DEF Trusts
      <3>4. NodeOf[a] \in Node /\ NodeOf[b] \in Node
        BY ExitsAssumption
      <3>5. \A k \in Node : /\ Elements(wire[k].l) \subseteq Elements(wire'[k].l)
                            /\ Elements(wire'[k].l) \subseteq Elements(wire[k].l) \union {LinkOf(p, q)}
        BY <1>0, <1>1, QueueGrows
      <3>6. LinkOf(p, q) # UnlinkOf(a, b)
        BY DEF LinkOf, UnlinkOf
      <3>7. Leaves(wire[NodeOf[b]].l, a, b) => Leaves(wire'[NodeOf[b]].l, a, b)
        BY <1>0, <1>1, <3>4, <3>6, QueueGrows, SMT
      <3>8. SparesLink(a, b)
        BY <1>1, <1>2, <3>4, <3>5, <3>6, <3>7 DEF SparesLink, Connected
      <3> QED BY <3>3, <3>8, SparesLinkOwed DEF ExitInv
    <2> QED BY <2>1, <2>2
  <1> QED BY <1>4, <1>5, <1>6 DEF ExitInv, Local

\* unlink(): the caller's link is gone, and no other is touched.
LEMMA UnlinkExit ==
    ASSUME OneSided, TypeInv, ExitInv, NEW p \in Actor, NEW q \in Actor, Unlink(p, q)
    PROVE  ExitInv'
  <1>0. /\ wire \in Wire /\ NodeOf[q] \in Node /\ UnlinkOf(p, q) \in LinkMsg
        /\ <<p, q>> \in Linkable /\ <<q, p>> \notin Linkable /\ p # q
    BY ExitsAssumption DEF TypeInv, NetTypes, LinkMsg, UnlinkOf, OneSided, Unlink
  <1>1. /\ UNCHANGED <<up, restarted, told, tasks, breaks, events>>
        /\ ~Local(p, q) /\ Connected => wire' = AddLink(wire, NodeOf[q], UnlinkOf(p, q))
        /\ ~(~Local(p, q) /\ Connected) => wire' = wire
    BY DEF Unlink, SendLink, AddLink, UnlinkOf, actorVars
  <1>2. ASSUME NEW a \in Actor
        PROVE  /\ links'[a] \subseteq links[a]
               /\ links[a] \subseteq links'[a] \union (IF a = p THEN {q} ELSE {})
                                               \union (IF a = q THEN {p} ELSE {})
               /\ a = p => q \notin links'[a]
    BY <1>0, SMT DEF Unlink, TypeInv, TableTypes
  <1>4. ASSUME NEW n \in Node, NEW msg \in Elements(wire'[n].l), msg.op \in {"link", "unlink"}
        PROVE  <<msg.x, msg.y>> \in Linkable /\ NodeOf[msg.y] = n /\ ~Local(msg.x, msg.y)
    <2>1. CASE msg \in Elements(wire[n].l)
      BY <1>4, <2>1 DEF ExitInv
    <2>2. CASE msg \notin Elements(wire[n].l)
      <3>1. ~Local(p, q) /\ Connected /\ n = NodeOf[q] /\ msg = UnlinkOf(p, q)
        BY <1>0, <1>1, <2>2, QueueGrows, SMT
      <3>2. msg.x = p /\ msg.y = q
        BY <3>1 DEF UnlinkOf
      <3> QED BY <1>0, <3>1, <3>2
    <2> QED BY <2>1, <2>2
  <1>5. \A a, b \in Actor : <<a, b>> \in Linkable /\ b \in links'[a] => up'[a] = "up"
    BY <1>1, <1>2 DEF ExitInv
  <1>6. ASSUME NEW a \in Actor, NEW b \in Actor, Trusts(a, b)'
        PROVE  (ExitComing(a, b) \/ Held(a, b))'
    <2>1. Trusts(a, b) /\ <<a, b>> \in Linkable /\ ~(a = p /\ b = q) /\ ~(a = q /\ b = p)
      BY <1>0, <1>1, <1>2, <1>6 DEF Trusts
    <2>2. NodeOf[a] \in Node /\ NodeOf[b] \in Node
      BY ExitsAssumption
    <2>3. UnlinkOf(p, q) # UnlinkOf(a, b)
      BY <2>1, SMT DEF UnlinkOf
    <2>4. \A k \in Node : /\ Elements(wire[k].l) \subseteq Elements(wire'[k].l)
                          /\ Elements(wire'[k].l) \subseteq Elements(wire[k].l) \union {UnlinkOf(p, q)}
      BY <1>0, <1>1, QueueGrows
    <2>5. Leaves(wire[NodeOf[b]].l, a, b) => Leaves(wire'[NodeOf[b]].l, a, b)
      BY <1>0, <1>1, <2>2, <2>3, QueueGrows, SMT
    <2>6. a \in links[b] => a \in links'[b]
      BY <1>2, <2>1
    <2>7. SparesLink(a, b)
      BY <1>1, <2>2, <2>3, <2>4, <2>5, <2>6 DEF SparesLink, Connected
    <2> QED BY <2>1, <2>7, SparesLinkOwed DEF ExitInv
  <1> QED BY <1>4, <1>5, <1>6 DEF ExitInv, Local

\* _LinkActor.receive.
LEMMA LinkActorExit ==
    ASSUME OneSided, TypeInv, ExitInv, NEW n \in Node, LinkActor(n)
    PROVE  ExitInv'
  <1>0. wire \in Wire /\ wire[n].l # << >>
    BY DEF LinkActor, TypeInv, NetTypes
  <1>1. PICK msg \in LinkMsg : msg = Head(wire[n].l)
    BY <1>0, TakenLink
  <1>2. /\ msg.x \in Actor /\ msg.y \in Actor /\ msg.op \in {"link", "unlink", "exit"}
        /\ msg = [op |-> msg.op, x |-> msg.x, y |-> msg.y]
    BY DEF LinkMsg
  <1> DEFINE back == NodeOf[msg.x]
             ans == ExitOf(msg.y, msg.x)
             noproc == msg.op = "link" /\ up[msg.y] # "up" /\ Connected
             rest == TakeLink(wire, n)
  <1>3. /\ back \in Node /\ ans \in LinkMsg /\ rest \in Wire
        /\ noproc => wire' = AddLink(rest, back, ans)
        /\ ~noproc => wire' = rest
    <2>1. back \in Node /\ ans \in LinkMsg /\ rest \in Wire
      BY <1>0, <1>2, TakenLink, ExitsAssumption DEF LinkMsg, ExitOf
    <2>2. /\ noproc => wire' = AddLink(rest, back, ans)
          /\ ~noproc => wire' = rest
      BY <1>1 DEF LinkActor, AddLink, TakeLink, ExitOf
    <2> QED BY <2>1, <2>2
  <1>4. /\ UNCHANGED <<up, restarted, tasks, breaks, events>>
        /\ msg.op = "exit" => links' = links /\ DeliverExit(msg.x, msg.y)
        /\ msg.op = "link" => links' = [links EXCEPT ![msg.y] = @ \union {msg.x}] /\ told' = told
        /\ msg.op = "unlink" => links' = [links EXCEPT ![msg.y] = @ \ {msg.x}] /\ told' = told
    BY <1>1 DEF LinkActor
  <1>5. told \subseteq told'
    BY <1>2, <1>4 DEF DeliverExit
  <1> HIDE DEF back, ans, noproc, rest
  <1>6. ASSUME NEW k \in Node
        PROVE  /\ k = n => Elements(wire[k].l) = {msg} \union Elements(rest[k].l)
               /\ k # n => rest[k].l = wire[k].l
               /\ Elements(rest[k].l) \subseteq Elements(wire'[k].l)
               /\ Elements(wire'[k].l) \subseteq Elements(rest[k].l) \union {ans}
               /\ noproc /\ k = back => ans \in Elements(wire'[k].l)
    <2>1. /\ k = n => Elements(wire[k].l) = {msg} \union Elements(rest[k].l)
          /\ k # n => rest[k].l = wire[k].l
      BY <1>0, <1>1, RemovedLink, SMT DEF rest
    <2>2. /\ k = back => Elements(AddLink(rest, back, ans)[k].l) = Elements(rest[k].l) \union {ans}
          /\ k # back => AddLink(rest, back, ans)[k].l = rest[k].l
      BY <1>3, AddedLink, SMT
    <2> QED BY <1>3, <2>1, <2>2
  <1>7. ASSUME NEW k \in Node, NEW a, NEW b, Leaves(wire[k].l, a, b)
        PROVE  \/ Leaves(wire'[k].l, a, b)
               \/ k = n /\ msg = LinkOf(a, b) /\ UnlinkOf(a, b) \notin Elements(rest[k].l)
    <2>1. \/ Leaves(rest[k].l, a, b)
          \/ k = n /\ msg = LinkOf(a, b) /\ UnlinkOf(a, b) \notin Elements(rest[k].l)
      BY <1>0, <1>1, <1>7, RemovedLink, SMT DEF rest
    <2>2. ans # UnlinkOf(a, b)
      BY DEF ans, ExitOf, UnlinkOf
    <2>3. Leaves(rest[k].l, a, b) => Leaves(AddLink(rest, back, ans)[k].l, a, b)
      BY <1>3, <2>2, AddedLink, SMT
    <2> QED BY <1>3, <2>1, <2>3
  <1>8. msg \in Elements(wire[n].l)
    BY <1>6
  <1>9. ASSUME NEW k \in Node, NEW e \in Elements(wire'[k].l), e.op \in {"link", "unlink"}
        PROVE  e \in Elements(wire[k].l)
    <2>1. e # ans
      BY <1>9, SMT DEF ans, ExitOf
    <2> QED BY <1>6, <1>9, <2>1
  <1>10. ASSUME NEW a \in Actor, NEW b \in Actor, <<a, b>> \in Linkable, b \in links'[a]
         PROVE  b \in links[a]
    <2>1. CASE msg.op = "link"
      <3>1. <<msg.x, msg.y>> \in Linkable
        BY <1>8, <2>1 DEF ExitInv
      <3>2. ~(a = msg.y /\ b = msg.x)
        BY <1>2, <1>10, <3>1 DEF OneSided
      <3> QED BY <1>2, <1>4, <1>10, <2>1, <3>2, SMT DEF TypeInv, TableTypes
    <2>2. CASE msg.op # "link"
      BY <1>2, <1>4, <1>10, <2>2, SMT DEF TypeInv, TableTypes
    <2> QED BY <2>1, <2>2
  <1>11. ASSUME NEW a \in Actor, NEW b \in Actor, Trusts(a, b)'
         PROVE  (ExitComing(a, b) \/ Held(a, b))'
    <2>1. /\ Trusts(a, b) /\ (ExitComing(a, b) \/ Held(a, b))
          /\ up[a] = "up" /\ <<a, b>> \notin told'
      BY <1>4, <1>5, <1>10, <1>11 DEF Trusts, ExitInv
    <2>2. NodeOf[a] \in Node /\ NodeOf[b] \in Node
      BY ExitsAssumption
    <2>3. msg # ExitOf(b, a)
      <3>1. msg = ExitOf(b, a) => msg.op = "exit" /\ msg.x = b /\ msg.y = a
        BY SMT DEF ExitOf
      <3> QED BY <1>4, <2>1, <3>1 DEF DeliverExit
    <2>4. CASE \/ ExitOf(b, a) \in tasks
               \/ ~Local(a, b) /\ events[NodeOf[a]] > 0
               \/ ~Local(a, b) /\ Connected /\ RemoteExit(b, a) \in tasks
      BY <1>4, <2>4 DEF ExitComing, Connected, Local
    <2>5. CASE ~Local(a, b) /\ Connected /\ ExitOf(b, a) \in Elements(wire[NodeOf[a]].l)
      <3>1. ExitOf(b, a) \in Elements(wire'[NodeOf[a]].l)
        BY <1>6, <2>2, <2>3, <2>5
      <3> QED BY <1>4, <2>5, <3>1 DEF ExitComing, Connected, Local
    <2>6. CASE ~Local(a, b) /\ Connected /\ Leaves(wire[NodeOf[b]].l, a, b)
      <3>1. CASE Leaves(wire'[NodeOf[b]].l, a, b)
        BY <1>4, <2>6, <3>1 DEF ExitComing, Connected, Local
      <3>2. CASE /\ NodeOf[b] = n /\ msg = LinkOf(a, b)
                 /\ UnlinkOf(a, b) \notin Elements(rest[NodeOf[b]].l)
        <4>1. msg.op = "link" /\ msg.x = a /\ msg.y = b
          BY <3>2 DEF LinkOf
        <4>2. CASE up[b] = "up"
          <5>1. a \in links'[b]
            BY <1>4, <4>1, SMT DEF TypeInv, TableTypes
          <5>2. UnlinkOf(a, b) # ans
            BY DEF UnlinkOf, ans, ExitOf
          <5>3. UnlinkOf(a, b) \notin Elements(wire'[NodeOf[b]].l)
            BY <1>6, <2>2, <3>2, <5>2
          <5> QED BY <1>4, <2>6, <4>2, <5>1, <5>3 DEF Held, Connected, Local
        <4>3. CASE up[b] # "up"
          <5>1. noproc /\ ans = ExitOf(b, a) /\ back = NodeOf[a]
            BY <2>6, <4>1, <4>3 DEF noproc, ans, back
          <5>2. ExitOf(b, a) \in Elements(wire'[NodeOf[a]].l)
            BY <1>6, <2>2, <5>1
          <5> QED BY <1>4, <2>6, <5>2 DEF ExitComing, Connected, Local
        <4> QED BY <4>2, <4>3
      <3> QED BY <1>7, <2>2, <2>6, <3>1, <3>2
    <2>7. CASE Held(a, b)
      <3>1. msg # UnlinkOf(a, b)
        <4>1. SUFFICES ASSUME msg = UnlinkOf(a, b) PROVE FALSE
          OBVIOUS
        <4>2. msg.op = "unlink" /\ msg.x = a /\ msg.y = b
          BY <4>1 DEF UnlinkOf
        <4>3. NodeOf[b] = n /\ ~Local(a, b)
          BY <1>8, <4>2 DEF ExitInv
        <4> QED BY <1>8, <2>7, <4>1, <4>3 DEF Held
      <3>2. ~(msg.op = "unlink" /\ msg.x = a /\ msg.y = b)
        BY <1>2, <3>1 DEF UnlinkOf
      <3>3. a \in links'[b]
        BY <1>2, <1>4, <2>7, <3>2, SMT DEF Held, TypeInv, TableTypes
      <3>4. UnlinkOf(a, b).op = "unlink"
        BY DEF UnlinkOf
      <3>5. UnlinkOf(a, b) \in Elements(wire'[NodeOf[b]].l) => UnlinkOf(a, b) \in Elements(wire[NodeOf[b]].l)
        BY <1>9, <2>2, <3>4
      <3> QED BY <1>4, <2>7, <3>3, <3>5 DEF Held, Connected, Local
    <2> QED BY <2>1, <2>4, <2>5, <2>6, <2>7 DEF ExitComing
  <1>12. \A a, b \in Actor : <<a, b>> \in Linkable /\ b \in links'[a] => up'[a] = "up"
    BY <1>4, <1>10 DEF ExitInv
  <1> QED BY <1>9, <1>11, <1>12 DEF ExitInv, Local

\* _deliver_exit and _notify_remote_exit on their own tasks.
LEMMA RunTaskExit ==
    ASSUME TypeInv, ExitInv, NEW t \in tasks, RunTask(t)
    PROVE  ExitInv'
  <1>0. wire \in Wire /\ t \in Task
    BY DEF TypeInv, NetTypes
  <1>1. /\ UNCHANGED <<up, restarted, links, breaks, events>>
        /\ tasks' = tasks \ {t}
        /\ t.op = "exit" => DeliverExit(t.x, t.y)
        /\ t.op # "exit" => told' = told
    BY DEF RunTask
  <1>2. told \subseteq told'
    BY <1>1 DEF DeliverExit
  <1>3. ASSUME NEW k \in Node
        PROVE  /\ Elements(wire[k].l) \subseteq Elements(wire'[k].l)
               /\ \A e \in Elements(wire'[k].l) \ Elements(wire[k].l) : e.op = "exit"
               /\ \A a, b : Leaves(wire[k].l, a, b) => Leaves(wire'[k].l, a, b)
    <2>1. CASE t.op = "remote_exit" /\ Connected
      <3> DEFINE msg == ExitOf(t.x, t.y)
      <3>1. msg \in LinkMsg /\ NodeOf[t.y] \in Node /\ msg.op = "exit"
        BY <1>0, <2>1, TaskFields, ExitsAssumption, SMT DEF LinkMsg, ExitOf
      <3>2. wire' = AddLink(wire, NodeOf[t.y], msg)
        BY <2>1 DEF RunTask, SendLink, AddLink, ExitOf
      <3>3. \A a, b : msg # UnlinkOf(a, b)
        BY SMT DEF ExitOf, UnlinkOf
      <3> HIDE DEF msg
      <3> QED BY <1>0, <3>1, <3>2, <3>3, QueueGrows, SMT
    <2>2. CASE t.op = "remote_down" /\ Connected
      <3>1. Down(t.ref) \in MonitorMsg /\ NodeOf[Watcher[t.ref]] \in Node
        BY <1>0, <2>2, TaskFields, ExitsAssumption, SMT DEF MonitorMsg, Down
      <3>2. wire' = AddMonitor(wire, NodeOf[Watcher[t.ref]], Down(t.ref))
        BY <2>2 DEF RunTask, SendMonitor, AddMonitor, Down
      <3>3. AddMonitor(wire, NodeOf[Watcher[t.ref]], Down(t.ref))[k].l = wire[k].l
        BY <1>0, <3>1, SentMonitor
      <3> QED BY <3>2, <3>3
    <2>3. CASE t.op \in {"exit", "down"} \/ ~Connected
      <3>1. wire' = wire
        BY <2>3 DEF RunTask
      <3> QED BY <3>1
    <2> QED BY <2>1, <2>2, <2>3 DEF RunTask
  <1>4. ASSUME NEW a \in Actor, NEW b \in Actor, t = RemoteExit(b, a), Connected
        PROVE  ExitOf(b, a) \in Elements(wire'[NodeOf[a]].l)
    <2>1. t.op = "remote_exit" /\ t.x = b /\ t.y = a
      BY <1>4, SMT DEF RemoteExit
    <2>2. PICK msg \in LinkMsg : msg = ExitOf(b, a)
      <3>1. ExitOf(b, a) \in LinkMsg
        BY SMT DEF LinkMsg, ExitOf
      <3> QED BY <3>1
    <2>3. PICK k \in Node : k = NodeOf[a]
      BY ExitsAssumption
    <2>4. wire' = AddLink(wire, k, msg)
      BY <1>4, <2>1, <2>2, <2>3 DEF RunTask, SendLink, AddLink, ExitOf
    <2>5. Elements(AddLink(wire, k, msg)[k].l) = Elements(wire[k].l) \union {msg}
      BY <1>0, AddedLink, SMT
    <2> QED BY <2>2, <2>3, <2>4, <2>5
  <1>5. ASSUME NEW a \in Actor, NEW b \in Actor, Trusts(a, b)'
        PROVE  (ExitComing(a, b) \/ Held(a, b))'
    <2>1. /\ Trusts(a, b) /\ (ExitComing(a, b) \/ Held(a, b))
          /\ up[a] = "up" /\ <<a, b>> \notin told'
      BY <1>1, <1>2, <1>5 DEF Trusts, ExitInv
    <2>2. NodeOf[a] \in Node /\ NodeOf[b] \in Node
      BY ExitsAssumption
    <2>3. t # ExitOf(b, a)
      <3>1. t = ExitOf(b, a) => t.op = "exit" /\ t.x = b /\ t.y = a
        BY SMT DEF ExitOf
      <3> QED BY <1>1, <2>1, <3>1 DEF DeliverExit
    <2>4. CASE t = RemoteExit(b, a) /\ ~Local(a, b) /\ Connected
      BY <1>1, <1>4, <2>4 DEF ExitComing, Connected, Local
    <2>5. CASE t = RemoteExit(b, a) /\ (Local(a, b) \/ ~Connected)
      BY <1>1, <2>1, <2>3, <2>5 DEF ExitComing, Held, Connected, Local
    <2>6. CASE t # RemoteExit(b, a)
      <3>1. UnlinkOf(a, b).op # "exit"
        BY DEF UnlinkOf
      <3>2. SparesLink(a, b)
        BY <1>1, <1>3, <2>2, <2>3, <2>6, <3>1 DEF SparesLink, Connected
      <3> QED BY <2>1, <3>2, SparesLinkOwed
    <2> QED BY <2>4, <2>5, <2>6
  <1>6. \A k \in Node : \A e \in Elements(wire'[k].l) :
            e.op \in {"link", "unlink"} => e \in Elements(wire[k].l)
    BY <1>3
  <1> QED BY <1>1, <1>5, <1>6 DEF ExitInv, Local

\* A break is an event on every node, and while it lasts only tasks deliver.
LEMMA ConnectionExit ==
    ASSUME TypeInv, DownInv, ExitInv, ~LateEvents, Break \/ Reconnect
    PROVE  ExitInv'
  <1>0. /\ breaks \in Nat /\ breaks' = breaks + 1
        /\ events \in [Node -> Nat]
        /\ UNCHANGED <<up, restarted, links, told, tasks>>
    BY ExitsAssumption, SMT DEF Break, Reconnect, TypeInv, NetTypes, actorVars, linkVars
  <1>1. \A n \in Node : Elements(wire'[n].l) \subseteq Elements(wire[n].l)
    BY SMT DEF Break, Reconnect, Elements
  <1>2. ASSUME NEW a \in Actor, NEW b \in Actor, Trusts(a, b)'
        PROVE  (ExitComing(a, b) \/ Held(a, b))'
    <2>1. ExitComing(a, b) \/ Held(a, b)
      BY <1>0, <1>2 DEF ExitInv, Trusts
    <2>2. NodeOf[a] \in Node
      BY ExitsAssumption
    <2>3. CASE Break /\ ~Local(a, b)
      <3>1. events'[NodeOf[a]] > 0
        BY <1>0, <2>2, <2>3, SMT DEF Break
      <3> QED BY <2>3, <3>1 DEF ExitComing, Local
    <2>4. CASE Local(a, b)
      BY <1>0, <2>1, <2>4 DEF ExitComing, Held, Local
    <2>5. CASE Reconnect /\ ~Local(a, b)
      <3>1. ExitOf(b, a) \in tasks
        BY <2>1, <2>2, <2>5, SMT DEF ExitComing, Held, Reconnect
      <3> QED BY <1>0, <3>1 DEF ExitComing
    <2> QED BY <2>3, <2>4, <2>5
  <1> QED BY <1>0, <1>1, <1>2 DEF ExitInv, Local

\* A peer_disconnected leaves no link across the connection on its node.
LEMMA PeerDisconnectedExit ==
    ASSUME TypeInv, DownInv, ExitInv, NEW n \in Node, PeerDisconnected(n)
    PROVE  ExitInv'
  <1>0. /\ UNCHANGED <<up, restarted, told, wire, breaks>>
        /\ events \in [Node -> Nat] /\ events' = [events EXCEPT ![n] = @ - 1] /\ ~Connected
    BY SMT DEF PeerDisconnected, TypeInv, NetTypes, actorVars, DownInv
  <1>1. tasks \subseteq tasks'
    BY DEF PeerDisconnected
  <1>2. \A a \in Actor : /\ links'[a] \subseteq links[a]
                         /\ NodeOf[a] = n => \A b \in links'[a] : NodeOf[b] = n
                         /\ \A b \in links[a] : Local(a, b) => b \in links'[a]
    BY SMT DEF PeerDisconnected, TypeInv, TableTypes, Local
  <1>3. ASSUME NEW a \in Actor, NEW b \in Actor, Trusts(a, b)'
        PROVE  (ExitComing(a, b) \/ Held(a, b))'
    <2>1. Trusts(a, b) /\ (ExitComing(a, b) \/ Held(a, b))
      BY <1>0, <1>2, <1>3 DEF Trusts, ExitInv
    <2>2. NodeOf[a] \in Node
      BY ExitsAssumption
    <2>3. CASE Local(a, b)
      BY <1>0, <1>1, <1>2, <2>1, <2>3 DEF ExitComing, Held, Local
    <2>4. CASE ~Local(a, b)
      <3>1. NodeOf[a] # n
        BY <1>2, <1>3, <2>4 DEF Trusts, Local
      <3>2. events'[NodeOf[a]] = events[NodeOf[a]]
        BY <1>0, <2>2, <3>1
      <3> QED BY <1>0, <1>1, <2>1, <2>4, <3>2 DEF ExitComing, Held, Local
    <2> QED BY <2>3, <2>4
  <1> QED BY <1>0, <1>2, <1>3 DEF ExitInv, Local

LEMMA NextExit ==
    OneSided /\ ~LateEvents /\ TypeInv /\ DownInv /\ ExitInv /\ [Next]_vars => ExitInv'
  <1> SUFFICES ASSUME OneSided, ~LateEvents, TypeInv, DownInv, ExitInv, [Next]_vars
               PROVE  ExitInv'
    OBVIOUS
  <1>1. CASE UNCHANGED vars
    BY <1>1 DEF vars, ExitInv, ExitComing, Held, Trusts, Connected, Local
  <1> QED BY <1>1, LinkExit, UnlinkExit, LinkActorExit, GenerationExit, GiveUpExit, MonitorExit,
             MonitorActorExit, RunTaskExit, ConnectionExit, PeerDisconnectedExit
          DEF Next, NodeStep

\* "if either one exits for good, the other receives an exit signal too": from
\* the moment b is gone, a step that tells a, which recorded the link, is
\* pending, though link, unlink, exit and noproc messages cross and breaks
\* swallow them; for any actors on any nodes, if of two actors one makes and
\* ends their link, and a peer_disconnected is handled before the peer is back.
THEOREM ExitsTheorem == OneSided /\ ~LateEvents => (Spec => []ExitIsUnderWay)
  <1> SUFFICES ASSUME OneSided, ~LateEvents PROVE Spec => []ExitIsUnderWay
    OBVIOUS
  <1>1. Init => ExitInv
    <2>1. ASSUME Init, NEW n \in Node PROVE Elements(wire[n].l) = {}
      BY <2>1, SMT DEF Init, Elements
    <2> QED BY <2>1 DEF Init, ExitInv, Trusts
  <1>2. ExitInv => ExitIsUnderWay
    BY DEF ExitInv, ExitIsUnderWay, Held
  <1>3. TypeInv /\ IInv /\ DownInv /\ ExitInv /\ [Next]_vars => DownInv' /\ ExitInv'
    BY NextDown, NextExit
  <1> QED BY <1>1, <1>2, <1>3, InitDown, InitTypes, NextTypes, InitIInv, NextOnce, PTL DEF Spec
=============================================================================
