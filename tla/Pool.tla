-------------------------------- MODULE Pool --------------------------------
(***************************************************************************)
(* A worker pool: Supervisor.spawn_pool with its dispatcher and workers    *)
(* (lapinbeam/supervisor.py) and PoolRef (lapinbeam/refs.py), answering    *)
(* the calls of module Ask.  The name asked is the dispatcher's.           *)
(*                                                                         *)
(* Every actor of the pool is one task; state says where it is:            *)
(*   "none" not spawned        "new"  spawned, no turn on the loop yet     *)
(*   "idle" serving            "busy" a worker inside the handler          *)
(*   "deaf" a worker whose generation has had no start message             *)
(*   "done" ended                                                          *)
(***************************************************************************)
EXTENDS Ask

CONSTANTS
    NoCall,         \* not a call
    Worker,         \* the pool's workers
    Sharded,        \* spawn_pool was given key=
    Shard,          \* hash(key(msg)) % n_workers of each call
    BadKey,         \* calls key() may raise on
    QueueCapacity,  \* queue_capacity
    MaxItems,       \* bound: items a handler sends with reply_stream
    MaxSpawns,      \* bound: calls of spawn_pool
    MaxSweeps       \* bound: group restarts the pool is swept into

ASSUME PoolAssumption ==
    /\ Actors = Worker \union {Target} /\ Target \notin Worker
    /\ NoCall \notin Call
    /\ Sharded \in BOOLEAN
    /\ Shard \in [Call -> Worker]
    /\ BadKey \subseteq Call
    /\ QueueCapacity \in Nat \ {0}
    /\ MaxItems \in Nat /\ MaxSpawns \in Nat /\ MaxSweeps \in Nat

VARIABLES
    state,    \* where the task of each actor is
    start,    \* workers whose mailbox holds the start message
    queue,    \* the queue of each worker; all the same one without key
    item,     \* the message each worker handles
    meta,     \* current_message() in each worker's task
    sent,     \* answers the handler in each worker has given
    stop,     \* PoolRef.stop: "no", "cancelled" or "returned"
    spawns, sweeps,
    turned,   \* history: the actors of this pool that had a turn on the loop
    begun     \* history: <<call, worker>> of every handler run, in order
poolVars == <<state, start, queue, item, meta, sent, stop, spawns,
              sweeps, turned, begun>>
vars == <<askVars, poolVars>>
taskVars == <<start, item, meta, sent>>
countVars == <<stop, spawns, sweeps, turned>>

TypeOK ==
    /\ AskTypeOK
    /\ state \in [Actors -> {"none", "new", "idle", "busy", "deaf", "done"}]
    /\ start \subseteq Worker
    /\ queue \in [Worker -> Seq(Call)]
    /\ \A w \in Worker : Len(queue[w]) <= QueueCapacity
    /\ item \in [Worker -> Call \union {NoCall}]
    /\ meta \in [Worker -> Call \union {NoCall}]
    /\ sent \in [Worker -> 0..(MaxItems + 1)]
    /\ stop \in {"no", "cancelled", "returned"}
    /\ spawns \in 0..MaxSpawns
    /\ sweeps \in 0..MaxSweeps
    /\ turned \subseteq Actors
    /\ begun \in Seq(Call \X Worker)

Init ==
    /\ AskInit
    /\ state = [a \in Actors |-> "none"]
    /\ start = {}
    /\ queue = [w \in Worker |-> << >>]
    /\ item = [w \in Worker |-> NoCall]
    /\ meta = [w \in Worker |-> NoCall]
    /\ sent = [w \in Worker |-> 0]
    /\ stop = "no"
    /\ spawns = 0
    /\ sweeps = 0
    /\ turned = {}
    /\ begun = << >>

\* _spawn_pool: new queues, the dispatcher, then each worker with its start
\* message; nothing in it waits.  spawn raises ValueError on the first name
\* that is taken, before the actors that follow: the dispatcher's, since the
\* actors of an earlier pool have left all of their names or none.
SpawnPool ==
    /\ spawns < MaxSpawns
    /\ spawns = 0 \/ stop = "returned"
    /\ spawns' = spawns + 1
    /\ \/ /\ Target \in names
          /\ UNCHANGED <<names, inbox, state, queue, taskVars, stop, turned>>
       \/ /\ Target \notin names
          /\ names' = Actors
          /\ inbox' = << >>
          /\ state' = [a \in Actors |-> "new"]
          /\ start' = Worker
          /\ queue' = [w \in Worker |-> << >>]
          /\ stop' = "no"
          /\ turned' = {}
          /\ UNCHANGED <<item, meta, sent>>
    /\ UNCHANGED <<call, box, got, out, back, drops, sweeps, begun>>

\* The first turn of a task.  A worker only leaves its mailbox for the loop
\* over the queue when it is sent a message: the start message is the one.
FirstTurn(a) ==
    /\ stop = "no"
    /\ state[a] = "new"
    /\ names' = names \union {a}
    /\ state' = [state EXCEPT ![a] =
                    IF a \in Worker /\ a \notin start THEN "deaf" ELSE "idle"]
    /\ start' = start \ {a}
    /\ turned' = turned \union {a}
    /\ UNCHANGED <<call, box, got, inbox, out, back, drops, queue, item, meta,
                   sent, stop, spawns, sweeps, begun>>

\* The queue the dispatcher puts a message on: without key, everyone's.
ShardsOfNext(c) == {w \in Worker : w # Shard[c]}
ShardsOf(c) == IF Sharded THEN {Shard[c]} ELSE Worker

\* _Dispatcher.receive: route the message with its metadata.  It is dropped,
\* with an event, if key() raises or the queue is full.
Dispatch ==
    LET c == Head(inbox)
    IN  /\ stop = "no"
        /\ state[Target] = "idle"
        /\ inbox # << >>
        /\ inbox' = Tail(inbox)
        /\ \/ /\ Sharded /\ c \in BadKey
              /\ UNCHANGED queue
           \/ queue' = [w \in Worker |->
                            IF w \in ShardsOf(c)
                            THEN PutNowait(queue[w], c, QueueCapacity)
                            ELSE queue[w]]
        /\ UNCHANGED <<call, box, got, names, out, back, drops, state, taskVars,
                       countVars, begun>>

\* The queues once w has taken the next item from its own.
TakenTwice(w) == queue
Taken(w) == [v \in Worker |-> IF ~Sharded \/ v = w THEN Tail(queue[v]) ELSE queue[v]]

\* A worker takes the next item and binds its metadata for the handler.
BindFirst(w) == IF begun = << >> THEN Head(queue[w]) ELSE begun[1][1]
Bind(w) == Head(queue[w])
Take(w) ==
    /\ stop = "no"
    /\ state[w] = "idle"
    /\ queue[w] # << >>
    /\ queue' = Taken(w)
    /\ state' = [state EXCEPT ![w] = "busy"]
    /\ item' = [item EXCEPT ![w] = Head(queue[w])]
    /\ meta' = [meta EXCEPT ![w] = Bind(w)]
    /\ sent' = [sent EXCEPT ![w] = 0]
    /\ begun' = Append(begun, <<Head(queue[w]), w>>)
    /\ UNCHANGED <<askVars, start, countVars>>

\* Where a worker is when the handler has returned or raised: an exception is
\* reported and the worker goes on.
CaughtInside == "busy"
Caught == "idle"

\* ...its metadata unbound.
Rest(w) ==
    /\ item' = [item EXCEPT ![w] = NoCall]
    /\ meta' = [meta EXCEPT ![w] = NoCall]
    /\ sent' = [sent EXCEPT ![w] = 0]

\* The handler answers: items and a final answer for a stream, else a plain
\* one (with executor=, the handler's result).  An answer that cannot be sent
\* raises and ends the handler.
Give(w, kind) ==
    /\ stop = "no"
    /\ state[w] = "busy"
    /\ CASE kind = "item" -> item[w] \in Stream /\ sent[w] < MaxItems
         [] kind = "final" -> item[w] \in Stream /\ sent[w] <= MaxItems
         [] kind = "plain" -> sent[w] = 0
    /\ \/ /\ Reply(meta[w], [re |-> item[w], n |-> sent[w] + 1, kind |-> kind])
          /\ sent' = [sent EXCEPT ![w] = IF kind = "item" THEN @ + 1 ELSE MaxItems + 1]
          /\ UNCHANGED <<state, item, meta>>
       \/ /\ ReplyRaises(meta[w])
          /\ state' = [state EXCEPT ![w] = Caught]
          /\ Rest(w)
          /\ UNCHANGED askVars
    /\ UNCHANGED <<start, queue, countVars, begun>>

\* The handler returns, or raises for a reason of its own.
Finish(w) ==
    /\ stop = "no"
    /\ state[w] = "busy"
    /\ state' = [state EXCEPT ![w] = Caught]
    /\ Rest(w)
    /\ UNCHANGED <<askVars, start, queue, countVars, begun>>

\* The tasks of a pool are created in one stretch, so that no other task runs
\* between their first turns.
Together ==
    \/ \A a \in Actors : state[a] = "new"
    \/ \A a \in Actors : state[a] \notin {"none", "new"}

\* PoolRef.stop: cancel the task of every actor of the pool and await them.
\* From then on each of them only unwinds.
Stop ==
    /\ stop = "no"
    /\ Together
    /\ stop' = "cancelled"
    /\ UNCHANGED <<askVars, state, queue, taskVars, spawns, sweeps, turned,
                   begun>>

\* A cancelled task ends.  One that had a turn unregisters its name, inside a
\* handler too; one that had none runs no line of _run_actor_child.
FreesName(a) == state[a] # "new"
End(a) ==
    /\ stop = "cancelled"
    /\ state[a] # "done"
    /\ names' = IF FreesName(a) THEN names \ {a} ELSE names
    /\ state' = [state EXCEPT ![a] = "done"]
    /\ IF a \in Worker THEN Rest(a) ELSE UNCHANGED <<item, meta, sent>>
    /\ UNCHANGED <<call, box, got, inbox, out, back, drops, start, queue,
                   countVars, begun>>

\* gather returns, and the children are discarded from the Supervisor.
StopReturnsEarly == stop = "cancelled" /\ state[Target] = "done"
StopReturnsLast == stop = "cancelled" /\ \A a \in Actors : state[a] = "done"
StopReturns ==
    /\ StopReturnsLast
    /\ stop' = "returned"
    /\ UNCHANGED <<askVars, state, queue, taskVars, spawns, sweeps, turned,
                   begun>>

\* Another child of a one_for_all Supervisor crashed: it tears down the pool's
\* tasks one after the other and starts a new one for each (see Supervisor;
\* the tear-down is one step here).  Mailboxes, queues and what an actor was
\* sent stay; what it was handling is lost.
Sweep ==
    /\ sweeps < MaxSweeps
    /\ stop = "no" /\ Together
    /\ sweeps' = sweeps + 1
    /\ names' = {a \in names : state[a] = "new"}
    /\ state' = [a \in Actors |-> "new"]
    /\ item' = [w \in Worker |-> NoCall]
    /\ meta' = [w \in Worker |-> NoCall]
    /\ sent' = [w \in Worker |-> 0]
    /\ UNCHANGED <<call, box, got, inbox, out, back, drops, start, queue, stop,
                   spawns, turned, begun>>

WorkerNext(w) == Take(w) \/ Finish(w) \/ \E k \in {"item", "final", "plain"} : Give(w, k)
PoolNext ==
    \/ SpawnPool \/ Dispatch \/ Stop \/ StopReturns \/ Sweep
    \/ \E a \in Actors : FirstTurn(a) \/ End(a)
    \/ \E w \in Worker : WorkerNext(w)
Next == PoolNext \/ (AskNext /\ UNCHANGED poolVars)
Spec == Init /\ [][Next]_vars

\* asyncio runs every ready task, and a handler returns in the end.
FairSpec ==
    /\ Spec
    /\ WF_vars(Dispatch) /\ WF_vars(StopReturns)
    /\ \A a \in Actors : WF_vars(FirstTurn(a)) /\ WF_vars(End(a))
    /\ \A w \in Worker : WF_vars(Take(w)) /\ WF_vars(Finish(w))
-----------------------------------------------------------------------------
(* Properties                                                              *)

\* A message is handled at most once, however the workers race for it, and is
\* not handled while it still waits anywhere.
HandledOnce ==
    /\ \A i, j \in 1..Len(begun) : begun[i][1] = begun[j][1] => i = j
    /\ \A i \in 1..Len(begun) : \A w \in Worker : \A k \in 1..Len(queue[w]) :
        queue[w][k] # begun[i][1]

\* "every message with the same key is always handled by the same worker, in
\* the order it arrived": a worker takes such messages one at a time, and the
\* one it takes is the oldest of its key that is waiting.
KeyOrder ==
    [][Sharded => \A w \in Worker : Take(w) =>
        LET c == Head(queue[w])
        IN  /\ w = Shard[c]
            /\ \A v \in Worker : \A k \in 1..Len(queue[v]) :
                Shard[queue[v][k]] = Shard[c] => v = w
            /\ \A v \in Worker : state[v] = "busy" => Shard[item[v]] # Shard[c]]_vars

\* After stop() "send/ask/ask_stream fail" and the name is free for reuse: once
\* it returns nothing of the pool runs, and no actor that ever had a turn on
\* the loop has left its name behind.
StopIsComplete ==
    stop = "returned" =>
        (\A a \in Actors : state[a] = "done") /\ names \intersect turned = {}

\* What the dispatcher queued is handled, as long as the pool is not stopped
\* and a worker of that queue has a start message or serves: an exception in
\* a handler or in an answer does not end a worker.
Queued(c) == \E w \in Worker : \E k \in 1..Len(queue[w]) : queue[w][k] = c
QueuedIsHandled ==
    \A c \in Call :
        Queued(c) ~> \/ ~Queued(c)
                     \/ stop # "no"
                     \/ \A w \in ShardsOf(c) : state[w] = "deaf"
=============================================================================
