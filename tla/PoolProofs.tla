----------------------------- MODULE PoolProofs -----------------------------
(***************************************************************************)
(* For every pool, every set of calls and every capacity: no reply mailbox *)
(* outlives its call, PoolRef.stop leaves nothing behind, a message is     *)
(* handled once and by the worker of its key, and a caller is handed the   *)
(* answers to its own message in order.  The last section is about what a  *)
(* call to another node carries, which for Ask is a model value: a message *)
(* that arrives is the one that was sent.                                  *)
(***************************************************************************)
EXTENDS Pool, Codec, TLAPS

\* Most leaves are first-order: only those that say so go to the SMT solver.
USE Zenon

-----------------------------------------------------------------------------
(* Reply mailboxes                                                         *)

\* The inductive invariant of the calls.
MailboxInv ==
    /\ DOMAIN call = Call
    /\ NoStrayMailbox

\* A step that ends the wait of c, if c waited, and takes its mailbox away.
LEMMA CallEnds ==
    ASSUME MailboxInv, NEW c \in Call, NEW how \in {"ok", "error", "timeout"},
           call' = [call EXCEPT ![c] = how], box' = Unregister(c)
    PROVE  MailboxInv'
BY DEF MailboxInv, NoStrayMailbox, Unregister

\* An answer that arrives, or an item that is taken, adds and removes none.
LEMMA SameMailboxes ==
    ASSUME MailboxInv, call' = call, DOMAIN box' = DOMAIN box
    PROVE  MailboxInv'
BY DEF MailboxInv, NoStrayMailbox

LEMMA AskMailboxes ==
    ASSUME MailboxInv, AskNext
    PROVE  MailboxInv'
<1>1. ASSUME NEW c \in Call, Ask(c) PROVE MailboxInv'
    <2>1. call[c] = "idle"
        BY <1>1 DEF Ask
    <2>2. CASE call' = [call EXCEPT ![c] = "error"] /\ box' = box
        BY <2>1, <2>2 DEF MailboxInv, NoStrayMailbox
    <2>3. CASE call' = [call EXCEPT ![c] = "sent"] /\ box' = box
        BY <2>1, <2>3 DEF MailboxInv, NoStrayMailbox
    <2>4. CASE /\ call' = [call EXCEPT ![c] = "waiting"]
               /\ box' = [d \in DOMAIN box \union {c} |->
                            IF d = c THEN << >> ELSE box[d]]
        BY <2>1, <2>4 DEF MailboxInv, NoStrayMailbox
    <2> QED BY <1>1, <2>2, <2>3, <2>4 DEF Ask
<1>2. ASSUME NEW c \in Call, Receive(c) PROVE MailboxInv'
    <2>1. \/ call' = call /\ box' = [box EXCEPT ![c] = Tail(@)]
          \/ call' = [call EXCEPT ![c] = "error"] /\ box' = Unregister(c)
          \/ call' = [call EXCEPT ![c] = "ok"] /\ box' = Unregister(c)
        BY <1>2 DEF Receive
    <2> QED BY <2>1, CallEnds, SameMailboxes
<1>3. ASSUME NEW c \in Call, Timeout(c) PROVE MailboxInv'
    BY <1>3, CallEnds DEF Timeout
<1>4. ASSUME DeliverMessage \/ Break PROVE MailboxInv'
    BY <1>4, SameMailboxes DEF DeliverMessage, Break
<1>5. ASSUME DeliverReply PROVE MailboxInv'
    <2>1. call' = call /\ DOMAIN box' = DOMAIN box
        BY <1>5 DEF DeliverReply, Arrive
    <2> QED BY <2>1, SameMailboxes
<1> QED BY <1>1, <1>2, <1>3, <1>4, <1>5 DEF AskNext

LEMMA PoolMailboxes ==
    ASSUME MailboxInv, PoolNext
    PROVE  MailboxInv'
<1>1. ASSUME NEW w \in Worker, NEW k, Give(w, k) PROVE MailboxInv'
    <2>1. call' = call /\ DOMAIN box' = DOMAIN box
        BY <1>1 DEF Give, Reply, Arrive, askVars
    <2> QED BY <2>1, SameMailboxes
<1>2. ASSUME SpawnPool \/ Dispatch \/ Stop \/ StopReturns \/ Sweep
      PROVE  MailboxInv'
    BY <1>2, SameMailboxes DEF SpawnPool, Dispatch, Stop, StopReturns, Sweep, askVars
<1>3. ASSUME NEW a \in Actors, FirstTurn(a) \/ End(a) PROVE MailboxInv'
    BY <1>3, SameMailboxes DEF FirstTurn, End
<1>4. ASSUME NEW w \in Worker, Take(w) \/ Finish(w) PROVE MailboxInv'
    BY <1>4, SameMailboxes DEF Take, Finish, askVars
<1> QED BY <1>1, <1>2, <1>3, <1>4 DEF PoolNext, WorkerNext

\* NoStrayMailbox: whether it is answered, times out or raises, a call takes
\* its hidden mailbox with it (the `finally` of _ask and _ask_stream).
THEOREM MailboxTheorem == Spec => []NoStrayMailbox
<1>1. Init => MailboxInv
    BY SMT DEF Init, AskInit, MailboxInv, NoStrayMailbox
<1>2. MailboxInv /\ [Next]_vars => MailboxInv'
    <2>1. ASSUME MailboxInv, UNCHANGED vars PROVE MailboxInv'
        BY <2>1, SameMailboxes DEF vars, askVars
    <2> QED BY <2>1, AskMailboxes, PoolMailboxes DEF Next
<1>3. MailboxInv => NoStrayMailbox
    BY DEF MailboxInv
<1> QED BY <1>1, <1>2, <1>3, PTL DEF Spec

-----------------------------------------------------------------------------
(* PoolRef.stop                                                            *)

\* The inductive invariant: an actor that has ended, or that waits for the
\* first turn of a new generation, has no name left from an earlier one.
StopInv ==
    /\ state \in [Actors -> {"none", "new", "idle", "busy", "deaf", "done"}]
    /\ stop = "returned" => \A a \in Actors : state[a] = "done"
    /\ turned \subseteq Actors
    /\ \A a \in Actors : state[a] \in {"none", "new", "done"} => a \notin names \intersect turned

LEMMA StopFrame ==
    ASSUME StopInv, UNCHANGED <<state, stop, names, turned>>
    PROVE  StopInv'
BY DEF StopInv

LEMMA NextStop ==
    ASSUME StopInv, [Next]_vars
    PROVE  StopInv'
<1> USE PoolAssumption
<1>1. ASSUME SpawnPool PROVE StopInv'
    <2>1. CASE UNCHANGED <<state, stop, names, turned>>
        BY <2>1, StopFrame
    <2>2. CASE state' = [a \in Actors |-> "new"] /\ stop' = "no" /\ turned' = {}
        BY <2>2 DEF StopInv
    <2> QED BY <1>1, <2>1, <2>2 DEF SpawnPool
<1>2. ASSUME NEW a \in Actors, FirstTurn(a) PROVE StopInv'
    BY <1>2 DEF FirstTurn, StopInv
<1>3. ASSUME NEW a \in Actors, End(a) PROVE StopInv'
    BY <1>3 DEF End, FreesName, StopInv, countVars
<1>4. ASSUME NEW w \in Worker, Take(w) \/ Finish(w) \/ \E k : Give(w, k)
      PROVE  StopInv'
    <2>1. /\ stop = "no" /\ state[w] \in {"idle", "busy"} /\ w \in Actors
          /\ UNCHANGED <<names, turned, stop>>
          /\ \/ state' = state
             \/ state' = [state EXCEPT ![w] = "busy"]
             \/ state' = [state EXCEPT ![w] = "idle"]
        BY <1>4 DEF Take, Finish, Give, Reply, Caught, askVars, countVars
    <2> QED BY <2>1 DEF StopInv
<1>5. ASSUME Stop \/ StopReturns PROVE StopInv'
    BY <1>5 DEF Stop, StopReturns, StopReturnsLast, StopInv, askVars
<1>6. ASSUME Sweep PROVE StopInv'
    BY <1>6 DEF Sweep, StopInv
<1>7. ASSUME Dispatch PROVE StopInv'
    BY <1>7, StopFrame DEF Dispatch, countVars
<1>8. ASSUME AskNext /\ UNCHANGED poolVars PROVE StopInv'
    BY <1>8, StopFrame
        DEF AskNext, Ask, Receive, Timeout, DeliverMessage, DeliverReply, Break, poolVars
<1>9. ASSUME UNCHANGED vars PROVE StopInv'
    BY <1>9, StopFrame DEF vars, askVars, poolVars
<1> QED
    BY <1>1, <1>2, <1>3, <1>4, <1>5, <1>6, <1>7, <1>8, <1>9
        DEF Next, PoolNext, WorkerNext

\* StopIsComplete: when PoolRef.stop returns every task of the pool has ended
\* and no actor that had a turn keeps its name, group restarts included.
THEOREM StopTheorem == Spec => []StopIsComplete
<1>1. Init => StopInv
    BY DEF Init, AskInit, StopInv
<1>2. StopInv /\ [Next]_vars => StopInv'
    BY NextStop
<1>3. StopInv => StopIsComplete
    BY DEF StopInv, StopIsComplete
<1> QED BY <1>1, <1>2, <1>3, PTL DEF Spec
-----------------------------------------------------------------------------
(* Mailboxes and queues                                                    *)

\* c is somewhere in the sequence s; nothing is in it twice.
In(c, s) == \E i \in 1..Len(s) : s[i] = c
Distinct(s) == \A i, j \in 1..Len(s) : s[i] = s[j] => i = j

\* Appending to and taking from a mailbox or a queue.
LEMMA AppendFacts ==
    ASSUME NEW S, NEW s \in Seq(S), NEW x \in S
    PROVE  /\ Append(s, x) \in Seq(S) /\ Len(Append(s, x)) = Len(s) + 1
           /\ \A i \in 1..Len(s) : Append(s, x)[i] = s[i]
           /\ Append(s, x)[Len(s) + 1] = x
           /\ \A c : In(c, Append(s, x)) <=> In(c, s) \/ c = x
           /\ (Distinct(s) /\ ~In(x, s)) => Distinct(Append(s, x))
<1> DEFINE t == Append(s, x)
<1>1. t \in Seq(S) /\ Len(t) = Len(s) + 1 /\ Len(s) \in Nat
    BY SMT
<1>2. /\ \A i \in 1..Len(s) : t[i] = s[i]
      /\ t[Len(s) + 1] = x
    BY SMT
<1> HIDE DEF t
<1>3. ASSUME NEW c PROVE In(c, t) <=> In(c, s) \/ c = x
    <2>1. In(c, s) => In(c, t)
        BY <1>1, <1>2, SMT DEF In
    <2>2. c = x => In(c, t)
        BY <1>1, <1>2, SMT DEF In
    <2>3. In(c, t) => In(c, s) \/ c = x
        BY <1>1, <1>2, SMT DEF In
    <2> QED BY <2>1, <2>2, <2>3
<1>4. (Distinct(s) /\ ~In(x, s)) => Distinct(t)
    BY <1>1, <1>2, SMT DEF Distinct, In
<1> QED BY <1>1, <1>2, <1>3, <1>4 DEF t

LEMMA TailFacts ==
    ASSUME NEW S, NEW s \in Seq(S), s # << >>
    PROVE  /\ Tail(s) \in Seq(S) /\ Head(s) \in S /\ Len(Tail(s)) = Len(s) - 1
           /\ Len(s) \in Nat \ {0} /\ Head(s) = s[1]
           /\ \A i \in 1..Len(Tail(s)) : i + 1 \in 1..Len(s) /\ Tail(s)[i] = s[i + 1]
           /\ In(Head(s), s)
           /\ \A c : In(c, Tail(s)) => In(c, s)
           /\ Distinct(s) => Distinct(Tail(s)) /\ ~In(Head(s), Tail(s))
<1> DEFINE t == Tail(s)
<1>1. /\ t \in Seq(S) /\ Head(s) \in S /\ Len(t) = Len(s) - 1
      /\ Len(s) \in Nat \ {0} /\ Head(s) = s[1]
    BY SMT
<1>2. \A i \in 1..Len(t) : i + 1 \in 1..Len(s) /\ t[i] = s[i + 1]
    BY SMT
<1> HIDE DEF t
<1>3. In(Head(s), s) /\ \A c : In(c, t) => In(c, s)
    BY <1>1, <1>2, SMT DEF In
<1>4. Distinct(s) => Distinct(t) /\ ~In(Head(s), t)
    BY <1>1, <1>2, SMT DEF In, Distinct
<1> QED BY <1>1, <1>2, <1>3, <1>4 DEF t

\* put_nowait appends, or leaves a full mailbox as it is.
LEMMA PutFacts ==
    ASSUME NEW S, NEW s \in Seq(S), NEW x \in S, NEW capacity \in Nat
    PROVE  LET t == PutNowait(s, x, capacity)
           IN  /\ t \in Seq(S)
               /\ Len(s) <= capacity => Len(t) <= capacity
               /\ \A c : In(c, s) => In(c, t)
               /\ \A c : In(c, t) => In(c, s) \/ c = x
               /\ (Distinct(s) /\ ~In(x, s)) => Distinct(t)
<1>1. CASE Len(s) < capacity
    BY <1>1, AppendFacts, SMT DEF PutNowait
<1>2. CASE ~(Len(s) < capacity)
    BY <1>2 DEF PutNowait
<1> QED BY <1>1, <1>2

-----------------------------------------------------------------------------
(* Where a message is                                                      *)

\* The calls handled so far.
Handled == [i \in 1..Len(begun) |-> begun[i][1]]

\* A message is in one place at most: on its way, in the dispatcher's mailbox,
\* queued or handled; and nowhere before its call was made.
OnePlace(c) ==
    /\ call[c] = "idle" => ~In(c, out) /\ ~In(c, inbox) /\ ~Queued(c) /\ ~In(c, Handled)
    /\ In(c, out) => ~In(c, inbox) /\ ~Queued(c) /\ ~In(c, Handled)
    /\ In(c, inbox) => ~Queued(c) /\ ~In(c, Handled)
    /\ Queued(c) => ~In(c, Handled)

\* With key= a queue holds the messages of its own shard; without, every worker
\* sees the one queue.
QueuesFit ==
    /\ Sharded => \A w \in Worker : \A k \in 1..Len(queue[w]) : Shard[queue[w][k]] = w
    /\ ~Sharded => \A v, w \in Worker : queue[v] = queue[w]

\* A busy worker handles a message of its own, under that message's metadata.
WorkersFit ==
    /\ \A w \in Worker : state[w] = "busy" =>
          /\ item[w] \in Call /\ meta[w] = item[w] /\ In(item[w], Handled)
          /\ Sharded => Shard[item[w]] = w
    /\ \A v, w \in Worker :
          (state[v] = "busy" /\ state[w] = "busy" /\ item[v] = item[w]) => v = w

PlacesInv ==
    /\ TypeOK /\ MailboxInv
    /\ Distinct(out) /\ Distinct(inbox) /\ Distinct(Handled)
    /\ \A w \in Worker : Distinct(queue[w])
    /\ \A c \in Call : OnePlace(c)
    /\ QueuesFit
    /\ WorkersFit

-----------------------------------------------------------------------------
(* Types                                                                   *)

\* An answer that arrives leaves the mailboxes well formed.
LEMMA ArriveTypes ==
    ASSUME AskTypeOK, NEW c \in Call, NEW ans \in Answer
    PROVE  /\ DOMAIN Arrive(c, ans) = DOMAIN box
           /\ \A d \in DOMAIN box : Arrive(c, ans)[d] \in Seq(Answer)
<1>1. CASE c \notin DOMAIN box
    BY <1>1 DEF Arrive, AskTypeOK
<1>2. CASE c \in DOMAIN box
    <2>1. box[c] \in Seq(Answer) /\ ReplyCapacity(c) \in Nat
        BY <1>2, SMT DEF AskTypeOK, ReplyCapacity
    <2>2. PutNowait(box[c], ans, ReplyCapacity(c)) \in Seq(Answer)
        BY <2>1, PutFacts
    <2> QED BY <1>2, <2>2 DEF Arrive, AskTypeOK
<1> QED BY <1>1, <1>2

LEMMA AskTypes ==
    ASSUME AskTypeOK, MailboxInv, AskNext
    PROVE  AskTypeOK'
<1> USE AskAssumption
<1>0. DOMAIN box \subseteq Call /\ got \in [Call -> Seq(Answer)]
    BY DEF AskTypeOK
<1>1. ASSUME NEW c \in Call, Ask(c) PROVE AskTypeOK'
    <2>1. call' \in [Call -> {"idle", "sent", "waiting", "ok", "timeout", "error"}]
        BY <1>1 DEF Ask, AskTypeOK
    <2>2. DOMAIN box' \subseteq Call /\ \A d \in DOMAIN box' : box'[d] \in Seq(Answer)
        <3>1. CASE box' = box
            BY <3>1 DEF AskTypeOK
        <3>2. CASE box' = [d \in DOMAIN box \union {c} |-> IF d = c THEN << >> ELSE box[d]]
            BY <3>2, SMT DEF AskTypeOK
        <3> QED BY <1>1, <3>1, <3>2 DEF Ask
    <2>3. /\ out' \in Seq(Remote)
          /\ inbox' \in Seq(Call) /\ Len(inbox') <= MailboxCapacity
        <3>1. CASE c \in Remote /\ out' = Append(out, c) /\ inbox' = inbox
            BY <3>1, SMT DEF AskTypeOK
        <3>2. CASE inbox' = PutNowait(inbox, c, MailboxCapacity) /\ out' = out
            <4>1. inbox \in Seq(Call) /\ Len(inbox) <= MailboxCapacity /\ MailboxCapacity \in Nat
                BY DEF AskTypeOK
            <4>2. /\ PutNowait(inbox, c, MailboxCapacity) \in Seq(Call)
                  /\ Len(PutNowait(inbox, c, MailboxCapacity)) <= MailboxCapacity
                BY <4>1, PutFacts
            <4> QED BY <3>2, <4>2 DEF AskTypeOK
        <3>3. CASE UNCHANGED <<inbox, out>>
            BY <3>3 DEF AskTypeOK
        <3> QED BY <1>1, <3>1, <3>2, <3>3 DEF Ask, Send
    <2>4. UNCHANGED <<got, names, back, drops>>
        BY <1>1 DEF Ask
    <2> QED BY <2>1, <2>2, <2>3, <2>4 DEF AskTypeOK
<1>2. ASSUME NEW c \in Call, Receive(c) PROVE AskTypeOK'
    <2>1. c \in DOMAIN box /\ box[c] \in Seq(Answer) /\ box[c] # << >>
        BY <1>2 DEF Receive, MailboxInv, NoStrayMailbox, AskTypeOK
    <2>2. Head(box[c]) \in Answer /\ Tail(box[c]) \in Seq(Answer)
        BY <2>1, TailFacts
    <2>3. got' \in [Call -> Seq(Answer)]
        <3>1. got' = got \/ got' = [got EXCEPT ![c] = Append(@, Head(box[c]))]
            BY <1>2 DEF Receive
        <3>2. Append(got[c], Head(box[c])) \in Seq(Answer)
            BY <2>2, SMT DEF AskTypeOK
        <3> QED BY <1>0, <3>1, <3>2
    <2>4. DOMAIN box' \subseteq Call /\ \A d \in DOMAIN box' : box'[d] \in Seq(Answer)
        <3>1. box' = [box EXCEPT ![c] = Tail(@)] \/ box' = Unregister(c)
            BY <1>2 DEF Receive
        <3> QED BY <2>2, <3>1 DEF AskTypeOK, Unregister
    <2>5. call' \in [Call -> {"idle", "sent", "waiting", "ok", "timeout", "error"}]
        BY <1>2 DEF Receive, AskTypeOK
    <2>6. UNCHANGED <<names, inbox, out, back, drops>>
        BY <1>2 DEF Receive
    <2> QED BY <2>3, <2>4, <2>5, <2>6 DEF AskTypeOK
<1>3. ASSUME NEW c \in Call, Timeout(c) PROVE AskTypeOK'
    BY <1>3 DEF Timeout, Unregister, AskTypeOK
<1>4. ASSUME DeliverMessage PROVE AskTypeOK'
    <2>1. out \in Seq(Remote) /\ out # << >> /\ inbox \in Seq(Call)
        BY <1>4 DEF DeliverMessage, AskTypeOK
    <2>2. Tail(out) \in Seq(Remote) /\ Head(out) \in Call
        BY <2>1, TailFacts
    <2>3. /\ PutNowait(inbox, Head(out), MailboxCapacity) \in Seq(Call)
          /\ Len(inbox) <= MailboxCapacity =>
                Len(PutNowait(inbox, Head(out), MailboxCapacity)) <= MailboxCapacity
        BY <2>1, <2>2, PutFacts
    <2> QED BY <1>4, <2>2, <2>3 DEF DeliverMessage, AskTypeOK
<1>5. ASSUME DeliverReply PROVE AskTypeOK'
    <2> DEFINE Replies == [to : Remote, ans : Answer]
    <2>1. back \in Seq(Replies) /\ back # << >>
        BY <1>5 DEF DeliverReply, AskTypeOK
    <2>2. Tail(back) \in Seq(Replies) /\ Head(back) \in Replies
        <3> HIDE DEF Replies
        <3> QED BY <2>1, TailFacts
    <2>3. Head(back).to \in Call /\ Head(back).ans \in Answer
        BY <2>2
    <2>4. DOMAIN box' = DOMAIN box /\ \A d \in DOMAIN box : box'[d] \in Seq(Answer)
        BY <1>5, <2>3, ArriveTypes DEF DeliverReply
    <2> QED BY <1>5, <2>2, <2>4 DEF DeliverReply, AskTypeOK
<1>6. ASSUME Break PROVE AskTypeOK'
    <2>1. drops' \in 0..(2 * MaxDrops)
        <3>1. drops \in 0..(2 * MaxDrops) /\ drops < 2 * MaxDrops /\ drops' = drops + 1
            BY <1>6 DEF Break, AskTypeOK
        <3>2. 2 * MaxDrops \in Nat
            BY SMT
        <3> QED BY <3>1, <3>2, SMT
    <2>2. \/ out' = out /\ back' = back
          \/ out' = << >> /\ back' = << >>
        BY <1>6 DEF Break
    <2>3. out' \in Seq(Remote) /\ back' \in Seq([to : Remote, ans : Answer])
        <3>1. \A S : << >> \in Seq(S)
            BY SMT
        <3>2. out \in Seq(Remote) /\ back \in Seq([to : Remote, ans : Answer])
            BY DEF AskTypeOK
        <3> QED BY <2>2, <3>1, <3>2
    <2> QED BY <1>6, <2>1, <2>3 DEF Break, AskTypeOK
<1> QED BY <1>1, <1>2, <1>3, <1>4, <1>5, <1>6 DEF AskNext

\* What an answer does to the reply mailboxes and the wire.
LEMMA ReplyTypes ==
    ASSUME AskTypeOK, NEW c \in Call, NEW ans \in Answer, Reply(c, ans)
    PROVE  AskTypeOK'
<1>1. CASE c \in Remote
    <2> DEFINE Replies == [to : Remote, ans : Answer]
    <2>1. /\ back' = Append(back, [to |-> c, ans |-> ans])
          /\ UNCHANGED <<call, box, got, names, inbox, out, drops>>
        BY <1>1 DEF Reply
    <2>2. [to |-> c, ans |-> ans] \in Replies /\ back \in Seq(Replies)
        BY <1>1 DEF AskTypeOK
    <2>3. back' \in Seq(Replies)
        <3> HIDE DEF Replies
        <3> QED BY <2>1, <2>2, SMT
    <2> QED BY <2>1, <2>3 DEF AskTypeOK
<1>2. CASE c \notin Remote
    <2>1. box' = Arrive(c, ans) /\ UNCHANGED <<call, got, names, inbox, out, back, drops>>
        BY <1>2 DEF Reply
    <2>2. DOMAIN box' = DOMAIN box /\ \A d \in DOMAIN box : box'[d] \in Seq(Answer)
        BY <2>1, ArriveTypes
    <2> QED BY <2>1, <2>2 DEF AskTypeOK
<1> QED BY <1>1, <1>2

LEMMA PoolTypes ==
    ASSUME PlacesInv, PoolNext
    PROVE  TypeOK'
<1> USE AskAssumption, PoolAssumption
<1>0. TypeOK /\ AskTypeOK /\ QueuesFit /\ WorkersFit
    BY <1>0 DEF PlacesInv, TypeOK
<1>1. ASSUME SpawnPool PROVE TypeOK'
    <2>1. spawns' \in 0..MaxSpawns /\ UNCHANGED <<call, box, got, out, back, drops, sweeps, begun>>
        BY <1>0, <1>1, SMT DEF SpawnPool, TypeOK
    <2>2. CASE UNCHANGED <<names, inbox, state, queue, taskVars, stop, turned>>
        BY <1>0, <2>1, <2>2 DEF TypeOK, AskTypeOK, taskVars
    <2>3. CASE /\ names' = Actors /\ inbox' = << >>
               /\ state' = [a \in Actors |-> "new"] /\ start' = Worker
               /\ queue' = [w \in Worker |-> << >>] /\ stop' = "no" /\ turned' = {}
               /\ UNCHANGED <<item, meta, sent>>
        BY <1>0, <2>1, <2>3, SMT DEF TypeOK, AskTypeOK
    <2> QED BY <1>1, <2>2, <2>3 DEF SpawnPool
<1>2. ASSUME Dispatch PROVE TypeOK'
    <2> DEFINE c == Head(inbox)
    <2>1. inbox \in Seq(Call) /\ inbox # << >> /\ Len(inbox) <= MailboxCapacity
        BY <1>0, <1>2 DEF Dispatch, AskTypeOK
    <2>2. /\ Tail(inbox) \in Seq(Call) /\ c \in Call
          /\ Len(Tail(inbox)) = Len(inbox) - 1 /\ Len(inbox) \in Nat
        BY <2>1, TailFacts
    <2>3. AskTypeOK'
        BY <1>0, <1>2, <2>1, <2>2, SMT DEF Dispatch, AskTypeOK
    <2>4. queue' \in [Worker -> Seq(Call)] /\ \A w \in Worker : Len(queue'[w]) <= QueueCapacity
        <3>1. CASE queue' = queue
            BY <1>0, <3>1 DEF TypeOK
        <3>2. CASE queue' = [w \in Worker |-> IF w \in ShardsOf(c)
                                THEN PutNowait(queue[w], c, QueueCapacity) ELSE queue[w]]
            <4>1. ASSUME NEW w \in Worker
                  PROVE  /\ PutNowait(queue[w], c, QueueCapacity) \in Seq(Call)
                         /\ Len(PutNowait(queue[w], c, QueueCapacity)) <= QueueCapacity
                <5>1. queue[w] \in Seq(Call) /\ Len(queue[w]) <= QueueCapacity
                    BY <1>0 DEF TypeOK
                <5> QED BY <2>2, <5>1, PutFacts
            <4>2. \A w \in Worker : queue[w] \in Seq(Call) /\ Len(queue[w]) <= QueueCapacity
                BY <1>0 DEF TypeOK
            <4> HIDE DEF c
            <4> QED BY <3>2, <4>1, <4>2
        <3> QED BY <1>2, <3>1, <3>2 DEF Dispatch
    <2>5. UNCHANGED <<state, taskVars, countVars, begun>>
        BY <1>2 DEF Dispatch
    <2> QED BY <1>0, <2>3, <2>4, <2>5 DEF TypeOK, taskVars, countVars
<1>3. ASSUME Stop \/ StopReturns PROVE TypeOK'
    BY <1>0, <1>3 DEF Stop, StopReturns, TypeOK, AskTypeOK, askVars, taskVars
<1>4. ASSUME Sweep PROVE TypeOK'
    BY <1>0, <1>4, SMT DEF Sweep, TypeOK, AskTypeOK
<1>5. ASSUME NEW a \in Actors, FirstTurn(a) PROVE TypeOK'
    BY <1>0, <1>5 DEF FirstTurn, TypeOK, AskTypeOK
<1>6. ASSUME NEW a \in Actors, End(a) PROVE TypeOK'
    <2>1. /\ item' \in [Worker -> Call \union {NoCall}] /\ meta' \in [Worker -> Call \union {NoCall}]
          /\ sent' \in [Worker -> 0..(MaxItems + 1)]
        <3>1. 0 \in 0..(MaxItems + 1)
            BY SMT
        <3>2. CASE a \in Worker
            <4>1. /\ item' = [item EXCEPT ![a] = NoCall] /\ meta' = [meta EXCEPT ![a] = NoCall]
                  /\ sent' = [sent EXCEPT ![a] = 0]
                BY <1>6, <3>2 DEF End, Rest
            <4> QED BY <1>0, <3>1, <4>1 DEF TypeOK
        <3>3. CASE a \notin Worker
            BY <1>0, <1>6, <3>3 DEF End, TypeOK
        <3> QED BY <3>2, <3>3
    <2>2. /\ names' \subseteq Actors
          /\ state' \in [Actors -> {"none", "new", "idle", "busy", "deaf", "done"}]
          /\ UNCHANGED <<call, box, got, inbox, out, back, drops, start, queue, countVars, begun>>
        BY <1>0, <1>6 DEF End, TypeOK, AskTypeOK
    <2> QED BY <1>0, <2>1, <2>2 DEF TypeOK, AskTypeOK, countVars
<1>7. ASSUME NEW w \in Worker, Take(w) PROVE TypeOK'
    <2>1. queue[w] \in Seq(Call) /\ queue[w] # << >>
        BY <1>0, <1>7 DEF Take, TypeOK
    <2>2. Head(queue[w]) \in Call
        BY <2>1, TailFacts
    <2>3. queue' \in [Worker -> Seq(Call)] /\ \A v \in Worker : Len(queue'[v]) <= QueueCapacity
        <3>1. ASSUME NEW v \in Worker, ~Sharded \/ v = w
              PROVE  Tail(queue[v]) \in Seq(Call) /\ Len(Tail(queue[v])) <= QueueCapacity
            <4>1. queue[v] \in Seq(Call) /\ Len(queue[v]) <= QueueCapacity /\ queue[v] # << >>
                BY <1>0, <2>1, <3>1 DEF TypeOK, QueuesFit
            <4> QED BY <4>1, TailFacts, SMT
        <3> QED BY <1>0, <1>7, <3>1 DEF Take, Taken, TypeOK
    <2>4. begun' \in Seq(Call \X Worker)
        <3>1. begun \in Seq(Call \X Worker) /\ <<Head(queue[w]), w>> \in Call \X Worker
            BY <1>0, <2>2 DEF TypeOK
        <3>2. begun' = Append(begun, <<Head(queue[w]), w>>)
            BY <1>7 DEF Take
        <3> QED BY <3>1, <3>2, SMT
    <2>5. /\ state' \in [Actors -> {"none", "new", "idle", "busy", "deaf", "done"}]
          /\ item' \in [Worker -> Call \union {NoCall}] /\ meta' \in [Worker -> Call \union {NoCall}]
        BY <1>0, <1>7, <2>2 DEF Take, Bind, TypeOK
    <2>6. sent' \in [Worker -> 0..(MaxItems + 1)]
        BY <1>0, <1>7, SMT DEF Take, TypeOK
    <2> QED
        BY <1>0, <1>7, <2>3, <2>4, <2>5, <2>6 DEF Take, TypeOK, AskTypeOK, askVars, countVars
<1>8. ASSUME NEW w \in Worker, Finish(w) PROVE TypeOK'
    BY <1>0, <1>8, SMT DEF Finish, Rest, Caught, TypeOK, AskTypeOK, askVars, countVars
<1>9. ASSUME NEW w \in Worker, NEW kind \in {"item", "final", "plain"}, Give(w, kind)
      PROVE  TypeOK'
    <2> DEFINE ans == [re |-> item[w], n |-> sent[w] + 1, kind |-> kind]
    <2>1. CASE /\ Reply(meta[w], ans)
               /\ sent' = [sent EXCEPT ![w] = IF kind = "item" THEN @ + 1 ELSE MaxItems + 1]
               /\ UNCHANGED <<state, item, meta>>
        <3>1. ans \in Answer /\ meta[w] \in Call
            BY <1>0, <1>9, SMT DEF Give, WorkersFit, TypeOK, Answer
        <3>2. AskTypeOK'
            <4> HIDE DEF ans
            <4> QED BY <1>0, <2>1, <3>1, ReplyTypes
        <3>3. sent' \in [Worker -> 0..(MaxItems + 1)]
            <4>1. kind = "item" => sent[w] < MaxItems
                BY <1>9 DEF Give
            <4> QED BY <1>0, <2>1, <4>1, SMT DEF TypeOK
        <3> QED BY <1>0, <1>9, <2>1, <3>2, <3>3 DEF Give, TypeOK, countVars
    <2>2. CASE /\ state' = [state EXCEPT ![w] = Caught]
               /\ Rest(w)
               /\ UNCHANGED askVars
        <3>1. AskTypeOK'
            BY <1>0, <2>2 DEF AskTypeOK, askVars
        <3>2. state' \in [Actors -> {"none", "new", "idle", "busy", "deaf", "done"}]
            BY <1>0, <2>2 DEF Caught, TypeOK
        <3>3. /\ item' \in [Worker -> Call \union {NoCall}]
              /\ meta' \in [Worker -> Call \union {NoCall}]
              /\ sent' \in [Worker -> 0..(MaxItems + 1)]
            BY <1>0, <2>2, SMT DEF Rest, TypeOK
        <3>4. UNCHANGED <<start, queue, stop, spawns, sweeps, turned, begun>>
            BY <1>9 DEF Give, countVars
        <3> QED BY <1>0, <3>1, <3>2, <3>3, <3>4 DEF TypeOK
    <2> QED BY <1>9, <2>1, <2>2 DEF Give
<1> QED
    BY <1>1, <1>2, <1>3, <1>4, <1>5, <1>6, <1>7, <1>8, <1>9 DEF PoolNext, WorkerNext

-----------------------------------------------------------------------------
(* A message is handled once, by the worker of its key                     *)

LEMMA HandledType ==
    ASSUME TypeOK
    PROVE  Handled \in Seq(Call) /\ Len(Handled) = Len(begun)
<1>1. begun \in Seq(Call \X Worker)
    BY DEF TypeOK
<1>2. \A i \in 1..Len(begun) : begun[i][1] \in Call
    BY <1>1, SMT
<1>3. Len(begun) \in Nat
    BY <1>1, SMT
<1> QED BY <1>2, <1>3, SMT DEF Handled

\* One more handler run.
LEMMA HandledAppend ==
    ASSUME TypeOK, NEW c \in Call, NEW w \in Worker, begun' = Append(begun, <<c, w>>)
    PROVE  Handled' = Append(Handled, c) /\ \A d : In(d, Handled') <=> In(d, Handled) \/ d = c
<1>1. begun \in Seq(Call \X Worker) /\ <<c, w>> \in Call \X Worker
    BY DEF TypeOK
<1>2. Len(begun') = Len(begun) + 1
    BY <1>1, SMT
<1>3. /\ \A i \in 1..Len(begun) : begun'[i] = begun[i]
      /\ begun'[Len(begun) + 1] = <<c, w>> /\ Len(begun) \in Nat
    BY <1>1, SMT
<1>4. Handled \in Seq(Call) /\ Len(Handled) = Len(begun)
    BY HandledType
<1>5. /\ \A i \in 1..Len(begun) : Append(Handled, c)[i] = Handled[i]
      /\ Append(Handled, c)[Len(begun) + 1] = c
      /\ Append(Handled, c) = [i \in 1..(Len(begun) + 1) |-> Append(Handled, c)[i]]
    <2>1. \A t \in Seq(Call) : t = [i \in 1..Len(t) |-> t[i]]
        BY SMT
    <2>2. /\ Append(Handled, c) \in Seq(Call) /\ Len(Append(Handled, c)) = Len(Handled) + 1
          /\ \A i \in 1..Len(Handled) : Append(Handled, c)[i] = Handled[i]
          /\ Append(Handled, c)[Len(Handled) + 1] = c
        BY <1>4, AppendFacts, SMT
    <2> QED BY <1>4, <2>1, <2>2
<1>6. Handled' = [i \in 1..(Len(begun) + 1) |-> begun'[i][1]]
    BY <1>2 DEF Handled
<1>7. \A i \in 1..(Len(begun) + 1) : begun'[i][1] = Append(Handled, c)[i]
    BY <1>3, <1>5, SMT DEF Handled
<1>8. Handled' = Append(Handled, c)
    BY <1>5, <1>6, <1>7
<1> QED BY <1>4, <1>8, AppendFacts, SMT

\* The pool is not involved in sending, receiving and delivering.
LEMMA AskPlaces ==
    ASSUME PlacesInv, AskNext, UNCHANGED poolVars
    PROVE  PlacesInv'
<1> USE AskAssumption
<1>0. /\ TypeOK /\ AskTypeOK /\ MailboxInv /\ \A c \in Call : OnePlace(c)
      /\ Distinct(out) /\ Distinct(inbox)
    BY DEF PlacesInv, TypeOK
<1>1. TypeOK' /\ MailboxInv'
    BY <1>0, AskTypes, AskMailboxes DEF TypeOK, poolVars
<1>2. /\ Handled' = Handled /\ \A c : Queued(c)' <=> Queued(c)
      /\ queue' = queue /\ QueuesFit' /\ WorkersFit'
    BY DEF PlacesInv, poolVars, Handled, Queued, QueuesFit, WorkersFit
<1>3. Distinct(Handled)' /\ \A w \in Worker : Distinct(queue'[w])
    BY <1>2 DEF PlacesInv
<1> SUFFICES Distinct(out') /\ Distinct(inbox') /\ \A c \in Call : OnePlace(c)'
    BY <1>1, <1>2, <1>3 DEF PlacesInv
<1>4. ASSUME out' = out, inbox' = inbox, \A c \in Call : call'[c] = "idle" => call[c] = "idle"
      PROVE  Distinct(out') /\ Distinct(inbox') /\ \A c \in Call : OnePlace(c)'
    BY <1>0, <1>2, <1>4 DEF OnePlace
<1>5. ASSUME NEW c \in Call, Ask(c)
      PROVE  Distinct(out') /\ Distinct(inbox') /\ \A d \in Call : OnePlace(d)'
    <2>1. /\ call[c] = "idle" /\ call'[c] # "idle"
          /\ \A d \in Call \ {c} : call'[d] = call[d]
        BY <1>0, <1>5 DEF Ask, AskTypeOK
    <2>2. ~In(c, out) /\ ~In(c, inbox) /\ ~Queued(c) /\ ~In(c, Handled)
        BY <1>0, <2>1 DEF OnePlace
    <2>3. CASE UNCHANGED <<inbox, out>>
        BY <1>4, <2>1, <2>3
    <2>4. CASE c \in Remote /\ out' = Append(out, c) /\ inbox' = inbox
        <3>1. out \in Seq(Remote)
            BY <1>0 DEF AskTypeOK
        <3>2. Distinct(out') /\ \A d : In(d, out') <=> In(d, out) \/ d = c
            BY <1>0, <2>2, <2>4, <3>1, AppendFacts, SMT
        <3> QED BY <1>0, <1>2, <2>1, <2>2, <2>4, <3>2 DEF OnePlace
    <2>5. CASE inbox' = PutNowait(inbox, c, MailboxCapacity) /\ out' = out
        <3>1. inbox \in Seq(Call)
            BY <1>0 DEF AskTypeOK
        <3>2. Distinct(inbox') /\ \A d : In(d, inbox') => In(d, inbox) \/ d = c
            BY <1>0, <2>2, <2>5, <3>1, PutFacts
        <3> QED BY <1>0, <1>2, <2>1, <2>2, <2>5, <3>2 DEF OnePlace
    <2> QED BY <1>5, <2>3, <2>4, <2>5 DEF Ask, Send
<1>6. ASSUME NEW c \in Call, Receive(c) \/ Timeout(c)
      PROVE  Distinct(out') /\ Distinct(inbox') /\ \A d \in Call : OnePlace(d)'
    <2>1. out' = out /\ inbox' = inbox /\ \A d \in Call : call'[d] = "idle" => call[d] = "idle"
        BY <1>0, <1>6 DEF Receive, Timeout, AskTypeOK
    <2> QED BY <1>4, <2>1
<1>7. ASSUME DeliverMessage
      PROVE  Distinct(out') /\ Distinct(inbox') /\ \A d \in Call : OnePlace(d)'
    <2> DEFINE c == Head(out)
    <2>1. out \in Seq(Remote) /\ inbox \in Seq(Call) /\ out # << >>
        BY <1>0, <1>7 DEF AskTypeOK, DeliverMessage
    <2>2. /\ c \in Remote /\ In(c, out)
          /\ Distinct(Tail(out)) /\ ~In(c, Tail(out)) /\ \A d : In(d, Tail(out)) => In(d, out)
        BY <1>0, <2>1, TailFacts
    <2> HIDE DEF c
    <2>3. ~In(c, inbox) /\ ~Queued(c) /\ ~In(c, Handled)
        BY <1>0, <2>2 DEF OnePlace
    <2>4. /\ Distinct(PutNowait(inbox, c, MailboxCapacity))
          /\ \A d : In(d, PutNowait(inbox, c, MailboxCapacity)) => In(d, inbox) \/ d = c
        BY <1>0, <2>1, <2>2, <2>3, PutFacts
    <2>5. /\ out' = Tail(out) /\ call' = call
          /\ inbox' = inbox \/ inbox' = PutNowait(inbox, c, MailboxCapacity)
        BY <1>7 DEF DeliverMessage, c
    <2>6. /\ Distinct(out') /\ Distinct(inbox')
          /\ \A d : In(d, out') => In(d, out) /\ d # c
          /\ \A d : In(d, inbox') => In(d, inbox) \/ d = c
        BY <1>0, <2>2, <2>4, <2>5
    <2>7. ASSUME NEW d \in Call PROVE OnePlace(d)'
        <3>1. CASE d = c
            <4>1. call[c] # "idle"
                BY <1>0, <2>2 DEF OnePlace
            <4> QED BY <1>2, <2>3, <2>5, <2>6, <3>1, <4>1 DEF OnePlace
        <3>2. CASE d # c
            BY <1>0, <1>2, <2>5, <2>6, <3>2 DEF OnePlace
        <3> QED BY <3>1, <3>2
    <2> QED BY <2>6, <2>7
<1>8. ASSUME DeliverReply \/ Break
      PROVE  Distinct(out') /\ Distinct(inbox') /\ \A d \in Call : OnePlace(d)'
    <2>1. /\ out' = out \/ out' = << >>
          /\ inbox' = inbox /\ call' = call
        BY <1>8 DEF DeliverReply, Break
    <2>2. Distinct(<< >>) /\ \A d : ~In(d, << >>)
        BY SMT DEF Distinct, In
    <2> QED BY <1>0, <1>2, <2>1, <2>2 DEF OnePlace
<1> QED BY <1>5, <1>6, <1>7, <1>8 DEF AskNext

\* Steps of the pool that move no message: what is busy afterwards was busy
\* before, with the same message.
LEMMA PlacesFrame ==
    ASSUME PlacesInv, TypeOK', MailboxInv', UNCHANGED <<call, out, inbox, queue, begun>>,
           \A w \in Worker : state'[w] = "busy" =>
              state[w] = "busy" /\ item'[w] = item[w] /\ meta'[w] = meta[w]
    PROVE  PlacesInv'
<1>1. Handled' = Handled /\ \A c : Queued(c)' <=> Queued(c)
    BY DEF Handled, Queued
<1>2. \A c \in Call : OnePlace(c)'
    BY <1>1 DEF PlacesInv, OnePlace
<1>3. QueuesFit' /\ WorkersFit'
    BY <1>1 DEF PlacesInv, QueuesFit, WorkersFit
<1> QED BY <1>1, <1>2, <1>3 DEF PlacesInv

\* The dispatcher moves a message from its mailbox to the queue of its key.
LEMMA DispatchPlaces ==
    ASSUME PlacesInv, TypeOK', MailboxInv', Dispatch
    PROVE  PlacesInv'
<1> DEFINE c == Head(inbox)
<1> USE AskAssumption, PoolAssumption
<1>0. /\ TypeOK /\ AskTypeOK /\ QueuesFit /\ WorkersFit /\ \A d \in Call : OnePlace(d)
      /\ Distinct(out) /\ Distinct(inbox) /\ Distinct(Handled)
      /\ \A w \in Worker : Distinct(queue[w])
    BY DEF PlacesInv, TypeOK
<1>1. /\ inbox \in Seq(Call) /\ inbox # << >> /\ inbox' = Tail(inbox)
      /\ UNCHANGED <<call, out, state, item, meta, begun>>
    BY <1>0 DEF AskTypeOK, Dispatch, taskVars
<1>2. /\ c \in Call /\ In(c, inbox) /\ Distinct(inbox') /\ ~In(c, inbox')
      /\ \A d : In(d, inbox') => In(d, inbox)
    BY <1>0, <1>1, TailFacts
<1>3. \/ queue' = queue
      \/ queue' = [w \in Worker |-> IF w \in ShardsOf(c)
                      THEN PutNowait(queue[w], c, QueueCapacity) ELSE queue[w]]
    BY DEF Dispatch
<1> HIDE DEF c
<1>4. /\ call[c] # "idle" /\ ~In(c, out) /\ ~Queued(c) /\ ~In(c, Handled)
    BY <1>0, <1>2 DEF OnePlace
<1>5. ASSUME NEW w \in Worker
      PROVE  /\ Distinct(queue'[w])
             /\ \A d : In(d, queue'[w]) => In(d, queue[w]) \/ (d = c /\ w \in ShardsOf(c))
    <2>1. queue[w] \in Seq(Call) /\ ~In(c, queue[w])
        BY <1>0, <1>4 DEF TypeOK, Queued, In
    <2>2. /\ Distinct(PutNowait(queue[w], c, QueueCapacity))
          /\ \A d : In(d, PutNowait(queue[w], c, QueueCapacity)) => In(d, queue[w]) \/ d = c
        BY <1>0, <1>2, <2>1, PutFacts, SMT
    <2> QED BY <1>0, <1>3, <2>2
<1>6. Handled' = Handled /\ \A d : Queued(d)' => Queued(d) \/ d = c
    <2>1. \A d : Queued(d) <=> \E w \in Worker : In(d, queue[w])
        BY DEF Queued, In
    <2>2. \A d : Queued(d)' <=> \E w \in Worker : In(d, queue'[w])
        BY DEF Queued, In
    <2>3. ASSUME NEW d, Queued(d)' PROVE Queued(d) \/ d = c
        <3>1. PICK w \in Worker : In(d, queue'[w])
            BY <2>2, <2>3
        <3> QED BY <1>5, <2>1, <3>1, SMT
    <2> QED BY <1>1, <2>3 DEF Handled
<1>7. ASSUME NEW d \in Call PROVE OnePlace(d)'
    <2>1. CASE d = c
        BY <1>1, <1>2, <1>4, <1>6, <2>1 DEF OnePlace
    <2>2. CASE d # c
        BY <1>0, <1>1, <1>2, <1>6, <2>2 DEF OnePlace
    <2> QED BY <2>1, <2>2
<1>8. QueuesFit'
    <2>1. ASSUME Sharded, NEW w \in Worker, NEW k \in 1..Len(queue'[w])
          PROVE  Shard[queue'[w][k]] = w
        <3>1. In(queue'[w][k], queue[w]) \/ (queue'[w][k] = c /\ w \in ShardsOf(c))
            BY <1>5 DEF In
        <3> QED BY <1>0, <2>1, <3>1, SMT DEF In, ShardsOf, QueuesFit
    <2>2. ASSUME ~Sharded, NEW v \in Worker, NEW w \in Worker PROVE queue'[v] = queue'[w]
        BY <1>0, <1>3, <2>2, SMT DEF ShardsOf, QueuesFit
    <2> QED BY <2>1, <2>2 DEF QueuesFit
<1>9. WorkersFit'
    BY <1>0, <1>1, <1>6 DEF WorkersFit
<1> QED BY <1>0, <1>1, <1>2, <1>5, <1>6, <1>7, <1>8, <1>9 DEF PlacesInv

\* A worker moves a message from its queue into its handler.
LEMMA TakePlaces ==
    ASSUME PlacesInv, TypeOK', MailboxInv', NEW w \in Worker, Take(w)
    PROVE  PlacesInv'
<1> DEFINE c == Head(queue[w])
<1> USE PoolAssumption
<1>0. /\ TypeOK /\ QueuesFit /\ WorkersFit /\ \A d \in Call : OnePlace(d)
      /\ Distinct(out) /\ Distinct(inbox) /\ Distinct(Handled)
      /\ \A v \in Worker : Distinct(queue[v])
    BY DEF PlacesInv
<1>1. /\ state[w] = "idle" /\ queue[w] \in Seq(Call) /\ queue[w] # << >>
      /\ queue' = Taken(w) /\ begun' = Append(begun, <<c, w>>)
      /\ state' = [state EXCEPT ![w] = "busy"]
      /\ item' = [item EXCEPT ![w] = c] /\ meta' = [meta EXCEPT ![w] = c]
      /\ UNCHANGED <<call, out, inbox>>
    BY <1>0 DEF Take, Bind, TypeOK, askVars
<1>2. c \in Call /\ In(c, queue[w]) /\ c = queue[w][1] /\ 1 \in 1..Len(queue[w])
    BY <1>1, TailFacts, SMT
<1> HIDE DEF c
<1>3. Queued(c) /\ ~In(c, Handled) /\ call[c] # "idle" /\ ~In(c, out) /\ ~In(c, inbox)
    <2>1. Queued(c)
        BY <1>2 DEF Queued, In
    <2> QED BY <1>0, <1>2, <2>1 DEF OnePlace
<1>4. Handled' = Append(Handled, c)
    BY <1>0, <1>1, <1>2, HandledAppend
<1>5. Distinct(Handled') /\ \A d : In(d, Handled') <=> In(d, Handled) \/ d = c
    BY <1>0, <1>2, <1>3, <1>4, HandledType, AppendFacts, SMT
<1>6. ASSUME NEW v \in Worker
      PROVE  /\ Distinct(queue'[v])
             /\ \A d : In(d, queue'[v]) => In(d, queue[v]) /\ d # c
    <2>1. queue[v] \in Seq(Call)
        BY <1>0 DEF TypeOK
    <2>2. CASE ~Sharded \/ v = w
        <3>1. queue[v] = queue[w] /\ queue'[v] = Tail(queue[v])
            BY <1>0, <1>1, <2>2 DEF QueuesFit, Taken
        <3> QED BY <1>0, <1>1, <2>1, <3>1, TailFacts, SMT DEF c
    <2>3. CASE Sharded /\ v # w
        <3>1. queue'[v] = queue[v]
            BY <1>1, <2>3 DEF Taken
        <3>2. Shard[c] = w /\ \A k \in 1..Len(queue[v]) : Shard[queue[v][k]] = v
            BY <1>0, <1>2, <2>3 DEF QueuesFit
        <3> QED BY <1>0, <2>3, <3>1, <3>2 DEF In
    <2> QED BY <2>2, <2>3
<1>7. \A d : Queued(d)' => Queued(d) /\ d # c
    <2>1. \A d : Queued(d) <=> \E v \in Worker : In(d, queue[v])
        BY DEF Queued, In
    <2>2. \A d : Queued(d)' <=> \E v \in Worker : In(d, queue'[v])
        BY DEF Queued, In
    <2> QED BY <1>6, <2>1, <2>2
<1>8. ASSUME NEW d \in Call PROVE OnePlace(d)'
    <2>1. CASE d = c
        BY <1>1, <1>3, <1>7, <2>1 DEF OnePlace
    <2>2. CASE d # c
        BY <1>0, <1>1, <1>5, <1>7, <2>2 DEF OnePlace
    <2> QED BY <2>1, <2>2
<1>9. QueuesFit'
    <2>1. ASSUME Sharded, NEW v \in Worker, NEW k \in 1..Len(queue'[v])
          PROVE  Shard[queue'[v][k]] = v
        <3>1. In(queue'[v][k], queue[v])
            BY <1>6 DEF In
        <3>2. PICK i \in 1..Len(queue[v]) : queue[v][i] = queue'[v][k]
            BY <3>1 DEF In
        <3> QED BY <1>0, <2>1, <3>2, SMT DEF QueuesFit
    <2>2. ASSUME ~Sharded, NEW u \in Worker, NEW v \in Worker PROVE queue'[u] = queue'[v]
        BY <1>0, <1>1, <2>2 DEF Taken, QueuesFit
    <2> QED BY <2>1, <2>2 DEF QueuesFit
<1>10. WorkersFit'
    <2>1. Sharded => Shard[c] = w
        BY <1>0, <1>2 DEF QueuesFit
    <2>2. ASSUME NEW v \in Worker, v # w
          PROVE  state'[v] = state[v] /\ item'[v] = item[v] /\ meta'[v] = meta[v]
        BY <1>0, <1>1, <2>2 DEF TypeOK
    <2>3. state'[w] = "busy" /\ item'[w] = c /\ meta'[w] = c
        BY <1>0, <1>1 DEF TypeOK
    <2> QED BY <1>0, <1>2, <1>3, <1>5, <2>1, <2>2, <2>3, SMT DEF WorkersFit
<1> QED BY <1>0, <1>1, <1>5, <1>6, <1>8, <1>9, <1>10 DEF PlacesInv

LEMMA PoolPlaces ==
    ASSUME PlacesInv, PoolNext
    PROVE  PlacesInv'
<1> USE PoolAssumption
<1>0. TypeOK /\ TypeOK' /\ MailboxInv'
    BY PoolTypes, PoolMailboxes DEF PlacesInv
<1>1. ASSUME SpawnPool PROVE PlacesInv'
    <2>1. CASE UNCHANGED <<inbox, state, queue, taskVars>>
        BY <1>0, <1>1, <2>1, PlacesFrame DEF SpawnPool, taskVars
    <2>2. CASE /\ inbox' = << >> /\ queue' = [w \in Worker |-> << >>]
               /\ state' = [a \in Actors |-> "new"]
        <3>1. UNCHANGED <<call, out, begun>>
            BY <1>1 DEF SpawnPool
        <3>2. Distinct(<< >>) /\ \A d : ~In(d, << >>)
            BY SMT DEF Distinct, In
        <3>3. Handled' = Handled /\ \A d : ~Queued(d)'
            BY <2>2, <3>1, SMT DEF Handled, Queued
        <3>4. \A d \in Call : OnePlace(d)'
            BY <2>2, <3>1, <3>2, <3>3 DEF PlacesInv, OnePlace
        <3>5. QueuesFit' /\ WorkersFit'
            BY <2>2, SMT DEF QueuesFit, WorkersFit
        <3> QED BY <1>0, <2>2, <3>1, <3>2, <3>3, <3>4, <3>5 DEF PlacesInv
    <2> QED BY <1>1, <2>1, <2>2 DEF SpawnPool
<1>2. ASSUME Dispatch PROVE PlacesInv'
    BY <1>0, <1>2, DispatchPlaces
<1>3. ASSUME Stop \/ StopReturns PROVE PlacesInv'
    BY <1>0, <1>3, PlacesFrame DEF Stop, StopReturns, askVars, taskVars
<1>4. ASSUME Sweep PROVE PlacesInv'
    BY <1>0, <1>4, PlacesFrame DEF Sweep
<1>5. ASSUME NEW a \in Actors, FirstTurn(a) PROVE PlacesInv'
    BY <1>0, <1>5, PlacesFrame DEF FirstTurn, TypeOK
<1>6. ASSUME NEW a \in Actors, End(a) PROVE PlacesInv'
    <2>1. \A w \in Worker : state'[w] = "busy" =>
              state[w] = "busy" /\ item'[w] = item[w] /\ meta'[w] = meta[w]
        BY <1>0, <1>6 DEF End, Rest, TypeOK
    <2> QED BY <1>0, <1>6, <2>1, PlacesFrame DEF End
<1>7. ASSUME NEW w \in Worker, Take(w) PROVE PlacesInv'
    BY <1>0, <1>7, TakePlaces
<1>8. ASSUME NEW w \in Worker, Finish(w) \/ \E kind : Give(w, kind) PROVE PlacesInv'
    <2>1. /\ UNCHANGED <<call, out, inbox, queue, begun>>
          /\ \/ UNCHANGED <<state, item, meta>>
             \/ state' = [state EXCEPT ![w] = "idle"] /\ Rest(w)
        BY <1>8 DEF Finish, Give, Reply, Caught, askVars
    <2>2. \A v \in Worker : state'[v] = "busy" =>
              state[v] = "busy" /\ item'[v] = item[v] /\ meta'[v] = meta[v]
        BY <1>0, <2>1 DEF Rest, TypeOK
    <2> QED BY <1>0, <2>1, <2>2, PlacesFrame
<1> QED BY <1>1, <1>2, <1>3, <1>4, <1>5, <1>6, <1>7, <1>8 DEF PoolNext, WorkerNext

LEMMA AlwaysPlaces == Spec => []PlacesInv
<1>1. Init => PlacesInv
    <2> SUFFICES ASSUME Init PROVE PlacesInv
        OBVIOUS
    <2>1. TypeOK
        BY AskAssumption, PoolAssumption, SMT DEF Init, AskInit, TypeOK, AskTypeOK
    <2>2. Handled = << >> /\ \A c : ~Queued(c)
        BY SMT DEF Init, Handled, Queued
    <2>3. Distinct(<< >>) /\ \A c : ~In(c, << >>)
        BY SMT DEF Distinct, In
    <2>4. \A c \in Call : OnePlace(c)
        BY <2>2, <2>3 DEF Init, AskInit, OnePlace
    <2>5. MailboxInv
        BY SMT DEF Init, AskInit, MailboxInv, NoStrayMailbox
    <2>6. QueuesFit /\ WorkersFit
        BY PoolAssumption, SMT DEF Init, QueuesFit, WorkersFit
    <2> QED BY <2>1, <2>2, <2>3, <2>4, <2>5, <2>6 DEF PlacesInv, Init, AskInit
<1>2. PlacesInv /\ [Next]_vars => PlacesInv'
    <2>1. ASSUME PlacesInv, UNCHANGED vars PROVE PlacesInv'
        <3>1. TypeOK' /\ MailboxInv'
            BY <2>1 DEF PlacesInv, vars, askVars, poolVars, TypeOK, AskTypeOK, MailboxInv,
                        NoStrayMailbox
        <3> QED BY <2>1, <3>1, PlacesFrame DEF vars, askVars, poolVars
    <2> QED BY <2>1, AskPlaces, PoolPlaces DEF Next
<1> QED BY <1>1, <1>2, PTL DEF Spec

\* The calls, their mailboxes and the queues and tasks of the pool keep their
\* types; no mailbox and no queue of the pool outgrows its capacity.
THEOREM PoolTypeCorrect == Spec => []TypeOK
<1>1. PlacesInv => TypeOK
    BY DEF PlacesInv
<1> QED BY <1>1, AlwaysPlaces, PTL

\* HandledOnce: no two workers, and no two turns of one, handle the same
\* message, and none is queued once it was taken (spawn_pool's worker loop).
THEOREM HandledTheorem == Spec => []HandledOnce
<1>1. PlacesInv => HandledOnce
    <2> SUFFICES ASSUME PlacesInv PROVE HandledOnce
        OBVIOUS
    <2>1. TypeOK /\ Len(Handled) = Len(begun) /\ begun \in Seq(Call \X Worker)
        BY HandledType DEF PlacesInv, TypeOK
    <2>2. \A i \in 1..Len(begun) : Handled[i] = begun[i][1] /\ begun[i][1] \in Call
        BY <2>1, SMT DEF Handled
    <2>3. \A i, j \in 1..Len(begun) : begun[i][1] = begun[j][1] => i = j
        BY <2>1, <2>2, SMT DEF PlacesInv, Distinct
    <2>4. ASSUME NEW i \in 1..Len(begun), NEW w \in Worker, NEW k \in 1..Len(queue[w])
          PROVE  queue[w][k] # begun[i][1]
        <3> DEFINE c == begun[i][1]
        <3>1. c \in Call /\ In(c, Handled)
            BY <2>1, <2>2 DEF In
        <3>2. ~Queued(c)
            BY <3>1 DEF PlacesInv, OnePlace
        <3> QED BY <3>2 DEF Queued
    <2> QED BY <2>3, <2>4 DEF HandledOnce
<1> QED BY <1>1, AlwaysPlaces, PTL

\* KeyOrder: with key=, only the worker of its key takes a message, no other
\* queue holds one of that key, and no worker is inside a handler with one.
THEOREM KeyOrderTheorem == Spec => KeyOrder
<1> DEFINE Ordered ==
        Sharded => \A w \in Worker : Take(w) =>
            LET c == Head(queue[w])
            IN  /\ w = Shard[c]
                /\ \A v \in Worker : \A k \in 1..Len(queue[v]) :
                    Shard[queue[v][k]] = Shard[c] => v = w
                /\ \A v \in Worker : state[v] = "busy" => Shard[item[v]] # Shard[c]
<1>1. PlacesInv /\ [Next]_vars => [Ordered]_vars
    <2> SUFFICES ASSUME PlacesInv, Sharded, NEW w \in Worker, Take(w)
                 PROVE  /\ w = Shard[Head(queue[w])]
                        /\ \A v \in Worker : \A k \in 1..Len(queue[v]) :
                            Shard[queue[v][k]] = Shard[Head(queue[w])] => v = w
                        /\ \A v \in Worker : state[v] = "busy" =>
                            Shard[item[v]] # Shard[Head(queue[w])]
        OBVIOUS
    <2>1. queue[w] \in Seq(Call) /\ queue[w] # << >> /\ state[w] = "idle"
        BY DEF PlacesInv, TypeOK, Take
    <2>2. Head(queue[w]) = queue[w][1] /\ 1 \in 1..Len(queue[w])
        BY <2>1, TailFacts, SMT
    <2>3. Shard[Head(queue[w])] = w
        BY <2>2 DEF PlacesInv, QueuesFit
    <2> QED BY <2>1, <2>3 DEF PlacesInv, QueuesFit, WorkersFit
<1> QED BY <1>1, AlwaysPlaces, PTL DEF Spec, KeyOrder

-----------------------------------------------------------------------------
(* Where an answer is                                                      *)

\* The answers in s, all to c, come in the order they were given.
InOrder(c, s) ==
    /\ \A i \in 1..Len(s) : s[i].re = c
    /\ \A i, j \in 1..Len(s) : i < j => s[i].n < s[j].n

\* Every answer in s was given before every one in t.
Before(s, t) == \A i \in 1..Len(s), j \in 1..Len(t) : s[i].n < t[j].n

\* The same for answers on the wire to the caller of c.
BackInOrder ==
    /\ \A i \in 1..Len(back) : back[i].ans.re = back[i].to
    /\ \A i, j \in 1..Len(back) :
          (i < j /\ back[i].to = back[j].to) => back[i].ans.n < back[j].ans.n
BeforeBack(c, s) ==
    \A i \in 1..Len(s), j \in 1..Len(back) : back[j].to = c => s[i].n < back[j].ans.n

\* No answer to c has a number above n.
UpTo(c, n) ==
    /\ \A i \in 1..Len(got[c]) : got[c][i].n <= n
    /\ c \in DOMAIN box => \A i \in 1..Len(box[c]) : box[c][i].n <= n
    /\ \A i \in 1..Len(back) : back[i].to = c => back[i].ans.n <= n

\* On one node nothing is lost: what was handed over and what waits are the
\* first answers, all of them as long as the handler may give more.
NoGap(c) ==
    /\ \A i \in 1..Len(got[c]) : got[c][i].n = i
    /\ c \in DOMAIN box =>
          /\ \A i \in 1..Len(box[c]) : box[c][i].n = Len(got[c]) + i
          /\ \A w \in Worker : (state[w] = "busy" /\ item[w] = c /\ sent[w] <= MaxItems) =>
                sent[w] = Len(got[c]) + Len(box[c])
          /\ ~In(c, Handled) => box[c] = << >>

AnswersTo(c) ==
    /\ InOrder(c, got[c]) /\ BeforeBack(c, got[c])
    /\ c \in DOMAIN box =>
          InOrder(c, box[c]) /\ Before(got[c], box[c]) /\ BeforeBack(c, box[c])
    /\ \A w \in Worker : (state[w] = "busy" /\ item[w] = c) => UpTo(c, sent[w])
    /\ ~In(c, Handled) => UpTo(c, 0)
    /\ c \notin Remote => NoGap(c)

AnswersInv == BackInOrder /\ \A c \in Call : AnswersTo(c)

-----------------------------------------------------------------------------
(* A caller is handed the answers to its own message, in order             *)

\* One more answer after all the others.
LEMMA OrderAppend ==
    ASSUME NEW c, NEW s \in Seq(Answer), NEW a \in Answer, InOrder(c, s), a.re = c,
           \A i \in 1..Len(s) : s[i].n < a.n
    PROVE  InOrder(c, Append(s, a))
<1> DEFINE t == Append(s, a)
<1>1. /\ Len(t) = Len(s) + 1 /\ Len(s) \in Nat /\ t[Len(s) + 1] = a
      /\ \A i \in 1..Len(s) : t[i] = s[i]
    BY AppendFacts, SMT
<1> HIDE DEF t
<1>2. InOrder(c, t)
    BY <1>1, SMT DEF InOrder
<1> QED BY <1>2 DEF t

\* The first of several answers.
LEMMA OrderTail ==
    ASSUME NEW c, NEW s \in Seq(Answer), s # << >>, InOrder(c, s)
    PROVE  /\ InOrder(c, Tail(s)) /\ Head(s).re = c
           /\ \A i \in 1..Len(Tail(s)) : Head(s).n < Tail(s)[i].n
<1> DEFINE t == Tail(s)
           h == Head(s)
<1>1. /\ Len(t) = Len(s) - 1 /\ Len(s) \in Nat \ {0} /\ h = s[1]
      /\ \A i \in 1..Len(t) : i + 1 \in 1..Len(s) /\ t[i] = s[i + 1]
    BY TailFacts, SMT
<1> HIDE DEF t, h
<1>2. InOrder(c, t) /\ h.re = c /\ \A i \in 1..Len(t) : h.n < t[i].n
    BY <1>1, SMT DEF InOrder
<1> QED BY <1>2 DEF t, h

\* A step that gives, delivers and hands over no answer to d.
LEMMA AnswersOther ==
    ASSUME NEW d \in Call, AnswersTo(d), got'[d] = got[d],
           d \in DOMAIN box' => d \in DOMAIN box /\ box'[d] = box[d],
           \A j \in 1..Len(back') : back'[j].to = d => \E i \in 1..Len(back) : back[i] = back'[j],
           \A w \in Worker : (state'[w] = "busy" /\ item'[w] = d) =>
              state[w] = "busy" /\ item[w] = d /\ sent'[w] = sent[w],
           In(d, Handled) => In(d, Handled')
    PROVE  AnswersTo(d)'
<1>1. InOrder(d, got[d])' /\ BeforeBack(d, got[d])'
    <2>1. InOrder(d, got[d])'
        BY DEF AnswersTo, InOrder
    <2>2. BeforeBack(d, got[d])'
        BY DEF AnswersTo, BeforeBack
    <2> QED BY <2>1, <2>2
<1>2. ASSUME d \in DOMAIN box'
      PROVE  InOrder(d, box[d])' /\ Before(got[d], box[d])' /\ BeforeBack(d, box[d])'
    <2>1. InOrder(d, box[d])' /\ Before(got[d], box[d])'
        BY <1>2 DEF AnswersTo, InOrder, Before
    <2>2. BeforeBack(d, box[d])'
        BY <1>2 DEF AnswersTo, BeforeBack
    <2> QED BY <2>1, <2>2
<1>3. ASSUME NEW n, UpTo(d, n) PROVE UpTo(d, n)'
    BY <1>3 DEF UpTo
<1>4. ASSUME NEW w \in Worker, state'[w] = "busy", item'[w] = d PROVE UpTo(d, sent[w])'
    BY <1>3, <1>4 DEF AnswersTo, UpTo
<1>5. ~In(d, Handled') => UpTo(d, 0)'
    BY <1>3 DEF AnswersTo
<1>6. d \notin Remote => NoGap(d)'
    BY DEF AnswersTo, NoGap
<1> QED BY <1>1, <1>2, <1>4, <1>5, <1>6 DEF AnswersTo

\* A step that gives, delivers and hands over no answer at all.
LEMMA AnswersFrame ==
    ASSUME AnswersInv, UNCHANGED <<got, back, begun>>,
           \A d \in Call : d \in DOMAIN box' => d \in DOMAIN box /\ box'[d] = box[d],
           \A w \in Worker : state'[w] = "busy" =>
              state[w] = "busy" /\ item'[w] = item[w] /\ sent'[w] = sent[w]
    PROVE  AnswersInv'
<1>1. Handled' = Handled /\ BackInOrder'
    BY DEF AnswersInv, Handled, BackInOrder
<1>2. ASSUME NEW d \in Call PROVE AnswersTo(d)'
    BY <1>1, AnswersOther DEF AnswersInv
<1> QED BY <1>1, <1>2 DEF AnswersInv

\* A worker takes c: nothing was answered to it yet.
LEMMA TakeAnswers ==
    ASSUME PlacesInv, PlacesInv', AnswersInv, NEW w \in Worker, Take(w)
    PROVE  AnswersInv'
<1>1. TypeOK /\ TypeOK' /\ queue[w] \in Seq(Call) /\ queue[w] # << >>
    BY DEF PlacesInv, TypeOK, Take
<1>2. PICK c \in Call : c = Head(queue[w]) /\ Queued(c)
    BY <1>1, TailFacts, SMT DEF Queued, In
<1>3. ~In(c, Handled)
    BY <1>2 DEF PlacesInv, OnePlace
<1>4. /\ begun' = Append(begun, <<c, w>>) /\ UNCHANGED <<box, got, back>>
      /\ state' = [state EXCEPT ![w] = "busy"] /\ item' = [item EXCEPT ![w] = c]
      /\ sent' = [sent EXCEPT ![w] = 0]
    BY <1>2 DEF Take, askVars
<1>5. /\ state'[w] = "busy" /\ item'[w] = c /\ sent'[w] = 0
      /\ \A v \in Worker \ {w} : state'[v] = state[v] /\ item'[v] = item[v] /\ sent'[v] = sent[v]
    BY <1>1, <1>4, PoolAssumption DEF TypeOK
<1>6. \A d : In(d, Handled) => In(d, Handled')
    BY <1>1, <1>2, <1>4, HandledAppend
<1>7. BackInOrder'
    BY <1>4 DEF AnswersInv, BackInOrder
<1>8. ASSUME NEW d \in Call, d # c PROVE AnswersTo(d)'
    BY <1>4, <1>5, <1>6, <1>8, AnswersOther DEF AnswersInv
<1>9. AnswersTo(c)'
    <2>1. AnswersTo(c) /\ UpTo(c, 0)
        BY <1>2, <1>3 DEF AnswersInv, AnswersTo
    <2>2. got[c] = << >> /\ (c \in DOMAIN box => box[c] = << >>)
        <3>1. \A s \in Seq(Answer) : (\A i \in 1..Len(s) : s[i].n <= 0) => s = << >>
            <4> SUFFICES ASSUME NEW s \in Seq(Answer), s # << >>
                         PROVE  \E i \in 1..Len(s) : ~(s[i].n <= 0)
                OBVIOUS
            <4>1. s[1] \in Answer /\ 1 \in 1..Len(s)
                BY TailFacts, SMT
            <4> QED BY <4>1, SMT DEF Answer
        <3>2. got[c] \in Seq(Answer) /\ (c \in DOMAIN box => box[c] \in Seq(Answer))
            BY <1>1, <1>2 DEF TypeOK, AskTypeOK
        <3> QED BY <2>1, <3>1, <3>2 DEF UpTo
    <2>3. UpTo(c, 0)'
        BY <1>4, <2>1 DEF UpTo
    <2>4. /\ InOrder(c, got[c])' /\ BeforeBack(c, got[c])'
          /\ c \in DOMAIN box' =>
                InOrder(c, box[c])' /\ Before(got[c], box[c])' /\ BeforeBack(c, box[c])'
        BY <1>4, <2>1 DEF AnswersTo, InOrder, Before, BeforeBack
    <2>5. ASSUME NEW v \in Worker, state'[v] = "busy", item'[v] = c PROVE v = w
        BY <1>5, <2>5 DEF PlacesInv, WorkersFit
    <2>6. NoGap(c)'
        <3>1. Len(<< >>) = 0
            OBVIOUS
        <3> QED BY <1>4, <1>5, <2>2, <2>5, <3>1, SMT DEF NoGap
    <2>7. ASSUME NEW v \in Worker, state'[v] = "busy", item'[v] = c PROVE UpTo(c, sent[v])'
        BY <1>5, <2>3, <2>5, <2>7 DEF UpTo
    <2> QED BY <2>3, <2>4, <2>6, <2>7 DEF AnswersTo
<1> QED BY <1>7, <1>8, <1>9 DEF AnswersInv

\* The handler in w gives an answer that can be sent.
Gives(w, kind) ==
    /\ Give(w, kind)
    /\ Reply(meta[w], [re |-> item[w], n |-> sent[w] + 1, kind |-> kind])
    /\ sent' = [sent EXCEPT ![w] = IF kind = "item" THEN @ + 1 ELSE MaxItems + 1]
    /\ UNCHANGED <<state, item, meta>>

\* Its number is the one after the last: it comes after all the others.
LEMMA GiveAnswers ==
    ASSUME PlacesInv, PlacesInv', AnswersInv, NEW w \in Worker,
           NEW kind \in {"item", "final", "plain"}, Gives(w, kind)
    PROVE  AnswersInv'
<1>0. TypeOK /\ AskTypeOK /\ WorkersFit /\ UNCHANGED <<got, begun, state, item, meta>>
    BY DEF PlacesInv, TypeOK, Gives, Give, Reply
<1>1. PICK c \in Call : c = item[w] /\ c = meta[w] /\ In(c, Handled)
    BY <1>0 DEF WorkersFit, Gives, Give
<1>2. PICK ans \in Answer : ans = [re |-> c, n |-> sent[w] + 1, kind |-> kind]
    <2>1. sent[w] + 1 \in Nat \ {0}
        BY <1>0, PoolAssumption, SMT DEF TypeOK
    <2>2. [re |-> c, n |-> sent[w] + 1, kind |-> kind] \in Answer
        BY <2>1 DEF Answer
    <2> QED BY <2>2
<1>3. ans.re = c /\ ans.n = sent[w] + 1 /\ Reply(c, ans)
    BY <1>1, <1>2 DEF Gives
<1>4. /\ sent[w] \in Nat /\ sent'[w] \in Nat /\ sent[w] <= MaxItems
      /\ sent[w] + 1 <= sent'[w] /\ (sent'[w] <= MaxItems => sent'[w] = sent[w] + 1)
      /\ (c \notin Stream => sent[w] = 0)
    <2>1. sent[w] \in 0..(MaxItems + 1)
        BY <1>0 DEF TypeOK
    <2>2. sent'[w] = IF kind = "item" THEN sent[w] + 1 ELSE MaxItems + 1
        BY <1>0 DEF TypeOK, Gives
    <2>3. \/ kind = "item" /\ c \in Stream /\ sent[w] < MaxItems
          \/ kind = "final" /\ c \in Stream /\ sent[w] <= MaxItems
          \/ kind = "plain" /\ sent[w] = 0
        BY <1>1 DEF Gives, Give
    <2> QED BY <2>1, <2>2, <2>3, PoolAssumption, SMT
<1>5. state[w] = "busy" /\ AnswersTo(c) /\ UpTo(c, sent[w])
    BY <1>1 DEF Gives, Give, AnswersInv, AnswersTo
<1>6. Handled' = Handled
    BY <1>0 DEF Handled
<1>7. /\ \A v \in Worker : (state'[v] = "busy" /\ item'[v] = c) => v = w
      /\ \A v \in Worker \ {w} : sent'[v] = sent[v]
    BY <1>0, <1>1, <1>5, PoolAssumption DEF Gives, WorkersFit, TypeOK
<1>8. ASSUME NEW d \in Call \ {c},
             d \in DOMAIN box' => d \in DOMAIN box /\ box'[d] = box[d],
             \A j \in 1..Len(back') : back'[j].to = d => \E i \in 1..Len(back) : back[i] = back'[j]
      PROVE  AnswersTo(d)'
    BY <1>0, <1>1, <1>6, <1>7, <1>8, AnswersOther DEF AnswersInv
<1>9. CASE c \in Remote
    <2> DEFINE m == [to |-> c, ans |-> ans]
               Replies == [to : Remote, ans : Answer]
    <2>1. back' = Append(back, m) /\ box' = box /\ m \in Replies /\ back \in Seq(Replies)
        BY <1>0, <1>3, <1>9 DEF Reply, AskTypeOK
    <2>2. /\ Len(back') = Len(back) + 1 /\ Len(back) \in Nat /\ back'[Len(back) + 1] = m
          /\ \A i \in 1..Len(back) : back'[i] = back[i]
        <3> HIDE DEF m, Replies
        <3> QED BY <2>1, AppendFacts, SMT
    <2>3. \A i \in 1..Len(back) : back[i].to = c => back[i].ans.n <= sent[w]
        BY <1>5 DEF UpTo
    <2>4. \A i \in 1..Len(back) : back[i].ans.n \in Nat
        <3>1. \A i \in 1..Len(back) : back[i] \in Replies
            <4> HIDE DEF Replies
            <4> QED BY <2>1, SMT
        <3> QED BY <3>1 DEF Answer
    <2>5. BackInOrder'
        <3>1. \A i \in 1..Len(back') : back'[i].ans.re = back'[i].to
            BY <1>3, <2>2, SMT DEF AnswersInv, BackInOrder
        <3>2. ASSUME NEW i \in 1..Len(back'), NEW j \in 1..Len(back'), i < j, back'[i].to = back'[j].to
              PROVE  back'[i].ans.n < back'[j].ans.n
            <4>1. CASE j \in 1..Len(back)
                <5>1. i \in 1..Len(back) /\ back'[i] = back[i] /\ back'[j] = back[j]
                    BY <2>2, <3>2, <4>1, SMT
                <5> QED BY <3>2, <4>1, <5>1 DEF AnswersInv, BackInOrder
            <4>2. CASE j = Len(back) + 1
                <5>1. i \in 1..Len(back) /\ back'[i] = back[i] /\ back'[j] = m
                    BY <2>2, <3>2, <4>2, SMT
                <5> QED BY <1>3, <1>4, <2>3, <2>4, <3>2, <5>1, SMT
            <4> QED BY <2>2, <4>1, <4>2, SMT
        <3> QED BY <3>1, <3>2 DEF BackInOrder
    <2>6. AnswersTo(c)'
        <3>1. got[c] \in Seq(Answer) /\ (c \in DOMAIN box => box[c] \in Seq(Answer))
            BY <1>0, <1>1 DEF AskTypeOK
        <3>2. ASSUME NEW s \in Seq(Answer), BeforeBack(c, s), \A i \in 1..Len(s) : s[i].n <= sent[w]
              PROVE  \A i \in 1..Len(s), j \in 1..Len(back') : back'[j].to = c => s[i].n < back'[j].ans.n
            <4> SUFFICES ASSUME NEW i \in 1..Len(s), NEW j \in 1..Len(back'), back'[j].to = c
                         PROVE  s[i].n < back'[j].ans.n
                OBVIOUS
            <4>1. s[i].n \in Nat /\ s[i].n <= sent[w]
                <5>1. s[i] \in Answer
                    BY SMT
                <5> QED BY <3>2, <5>1 DEF Answer
            <4>2. CASE j \in 1..Len(back)
                BY <2>2, <3>2, <4>2 DEF BeforeBack
            <4>3. CASE j = Len(back) + 1
                BY <1>3, <1>4, <2>2, <4>1, <4>3, SMT
            <4> QED BY <2>2, <4>2, <4>3, SMT
        <3>3. InOrder(c, got[c])' /\ BeforeBack(c, got[c])'
            BY <1>0, <1>5, <3>1, <3>2 DEF AnswersTo, InOrder, UpTo, BeforeBack
        <3>4. ASSUME c \in DOMAIN box'
              PROVE  InOrder(c, box[c])' /\ Before(got[c], box[c])' /\ BeforeBack(c, box[c])'
            BY <1>0, <1>5, <2>1, <3>1, <3>2, <3>4 DEF AnswersTo, InOrder, Before, UpTo, BeforeBack
        <3>5. UpTo(c, sent[w])'
            <4>1. \A s \in Seq(Answer) : (\A i \in 1..Len(s) : s[i].n <= sent[w]) =>
                      \A i \in 1..Len(s) : s[i].n <= sent'[w]
                <5> SUFFICES ASSUME NEW s \in Seq(Answer), NEW i \in 1..Len(s), s[i].n <= sent[w]
                             PROVE  s[i].n <= sent'[w]
                    OBVIOUS
                <5>1. s[i] \in Answer
                    BY SMT
                <5>2. s[i].n \in Nat
                    BY <5>1 DEF Answer
                <5> QED BY <1>4, <5>2, SMT
            <4>2. \A i \in 1..Len(got'[c]) : got'[c][i].n <= sent'[w]
                BY <1>0, <1>5, <3>1, <4>1 DEF UpTo
            <4>3. c \in DOMAIN box' => \A i \in 1..Len(box'[c]) : box'[c][i].n <= sent'[w]
                BY <1>5, <2>1, <3>1, <4>1 DEF UpTo
            <4>4. \A i \in 1..Len(back') : back'[i].to = c => back'[i].ans.n <= sent'[w]
                BY <1>3, <1>4, <2>2, <2>3, <2>4, SMT
            <4> QED BY <4>2, <4>3, <4>4 DEF UpTo
        <3>6. ASSUME NEW v \in Worker, state'[v] = "busy", item'[v] = c PROVE UpTo(c, sent[v])'
            BY <1>7, <3>5, <3>6
        <3> QED BY <1>1, <1>6, <1>9, <3>3, <3>4, <3>6 DEF AnswersTo
    <2>7. ASSUME NEW d \in Call \ {c} PROVE AnswersTo(d)'
        BY <1>8, <2>1, <2>2, SMT
    <2> QED BY <2>5, <2>6, <2>7 DEF AnswersInv
<1>10. CASE c \notin Remote
    <2>1. box' = Arrive(c, ans) /\ back' = back /\ c \in DOMAIN box
        BY <1>3, <1>10 DEF Reply, ReplyRaises
    <2>2. got[c] \in Seq(Answer) /\ box[c] \in Seq(Answer) /\ NoGap(c)
        BY <1>0, <1>1, <1>5, <1>10, <2>1 DEF AskTypeOK, AnswersTo
    <2>3. PICK g \in Nat, b \in Nat :
              /\ Len(got[c]) = g /\ Len(box[c]) = b
              /\ sent[w] = g + b /\ ans.n = g + b + 1
        <3>1. Len(got[c]) \in Nat /\ Len(box[c]) \in Nat
            BY <2>2, SMT
        <3>2. sent[w] = Len(got[c]) + Len(box[c])
            BY <1>1, <1>4, <1>5, <2>1, <2>2 DEF NoGap
        <3> QED BY <1>3, <3>1, <3>2
    <2>4. /\ \A i \in 1..b : box[c][i].n = g + i
          /\ \A i \in 1..g : got[c][i].n = i
        BY <2>1, <2>2, <2>3 DEF NoGap
    <2>5. /\ DOMAIN box' = DOMAIN box /\ box'[c] = Append(box[c], ans)
          /\ \A d \in DOMAIN box \ {c} : box'[d] = box[d]
        <3>1. Len(box[c]) < ReplyCapacity(c)
            BY <1>4, <2>3, SMT DEF ReplyCapacity
        <3> QED BY <2>1, <3>1 DEF Arrive, PutNowait
    <2>6. /\ Len(box'[c]) = b + 1 /\ Len(got'[c]) = g
          /\ box'[c][b + 1] = ans
          /\ \A i \in 1..b : box'[c][i] = box[c][i]
        <3>1. /\ Len(Append(box[c], ans)) = Len(box[c]) + 1
              /\ Append(box[c], ans)[Len(box[c]) + 1] = ans
              /\ \A i \in 1..Len(box[c]) : Append(box[c], ans)[i] = box[c][i]
            BY <1>2, <2>2, AppendFacts, SMT
        <3> QED BY <1>0, <2>3, <2>5, <3>1
    <2>7. /\ \A i \in 1..(b + 1) : box'[c][i].n = g + i
          /\ \A i \in 1..g : got'[c][i].n = i
        <3>1. box'[c][b + 1].n = g + (b + 1)
            BY <2>3, <2>6, SMT
        <3>2. \A i \in 1..b : box'[c][i].n = g + i
            BY <2>4, <2>6
        <3>3. \A i \in 1..g : got'[c][i].n = i
            BY <1>0, <2>4
        <3> QED BY <3>1, <3>2, <3>3, SMT
    <2>8. InOrder(c, box[c])'
        <3>1. \A i \in 1..Len(box[c]) : box[c][i].n < ans.n
            BY <2>3, <2>4, SMT
        <3>2. InOrder(c, Append(box[c], ans))
            BY <1>3, <1>5, <2>1, <2>2, <3>1, OrderAppend DEF AnswersTo
        <3> QED BY <2>5, <3>2 DEF InOrder
    <2>9. InOrder(c, got[c])' /\ BeforeBack(c, got[c])' /\ BackInOrder'
        BY <1>0, <1>5, <2>1 DEF AnswersTo, AnswersInv, InOrder, BeforeBack, BackInOrder
    <2>10. Before(got[c], box[c])'
        BY <2>6, <2>7, SMT DEF Before
    <2>11. \A i \in 1..Len(back) : back[i].to # c
        <3> DEFINE Replies == [to : Remote, ans : Answer]
        <3>1. back \in Seq(Replies)
            BY <1>0 DEF AskTypeOK
        <3>2. \A i \in 1..Len(back) : back[i] \in Replies
            <4> HIDE DEF Replies
            <4> QED BY <3>1, SMT
        <3> QED BY <1>10, <3>2
    <2>12. BeforeBack(c, box[c])'
        BY <2>1, <2>11 DEF BeforeBack
    <2>13. UpTo(c, sent[w])'
        <3>1. g + b + 1 <= sent'[w] /\ sent'[w] \in Nat
            BY <1>4, <2>3
        <3>2. \A i \in 1..Len(got'[c]) : got'[c][i].n <= sent'[w]
            BY <2>6, <2>7, <3>1, SMT
        <3>3. \A i \in 1..Len(box'[c]) : box'[c][i].n <= sent'[w]
            BY <2>6, <2>7, <3>1, SMT
        <3> QED BY <2>1, <2>11, <3>2, <3>3 DEF UpTo
    <2>14. NoGap(c)'
        <3>1. \A i \in 1..Len(box'[c]) : box'[c][i].n = Len(got'[c]) + i
            BY <2>6, <2>7
        <3>2. ASSUME NEW v \in Worker, state'[v] = "busy", item'[v] = c, sent'[v] <= MaxItems
              PROVE  sent'[v] = Len(got'[c]) + Len(box'[c])
            <4>1. sent'[v] = sent[w] + 1
                BY <1>4, <1>7, <3>2
            <4> QED BY <2>3, <2>6, <4>1, SMT
        <3>3. \A i \in 1..Len(got'[c]) : got'[c][i].n = i
            BY <2>6, <2>7
        <3> QED BY <1>1, <1>6, <3>1, <3>2, <3>3 DEF NoGap
    <2>15. ASSUME NEW v \in Worker, state'[v] = "busy", item'[v] = c PROVE UpTo(c, sent[v])'
        BY <1>7, <2>13, <2>15
    <2>16. AnswersTo(c)'
        BY <1>1, <1>6, <2>8, <2>9, <2>10, <2>12, <2>14, <2>15 DEF AnswersTo
    <2>17. ASSUME NEW d \in Call \ {c} PROVE AnswersTo(d)'
        BY <1>8, <2>1, <2>5
    <2> QED BY <2>9, <2>16, <2>17 DEF AnswersInv
<1> QED BY <1>9, <1>10

\* An answer arrives: everything the caller has came before it, everything
\* behind it on the wire comes after.
LEMMA DeliverAnswers ==
    ASSUME PlacesInv, AnswersInv, DeliverReply, UNCHANGED poolVars
    PROVE  AnswersInv'
<1> DEFINE Replies == [to : Remote, ans : Answer]
<1>0. TypeOK /\ AskTypeOK /\ back \in Seq(Replies) /\ back # << >>
    BY DEF PlacesInv, TypeOK, AskTypeOK, DeliverReply
<1>1. /\ back' = Tail(back) /\ UNCHANGED <<call, got, names, inbox, out, drops>>
      /\ UNCHANGED <<state, item, sent, begun>>
      /\ box' = Arrive(Head(back).to, Head(back).ans)
    BY DEF DeliverReply, poolVars
<1>2. /\ Head(back) = back[1] /\ Head(back) \in Replies /\ 1 \in 1..Len(back)
      /\ \A i \in 1..Len(back') : i + 1 \in 1..Len(back) /\ back'[i] = back[i + 1] /\ 1 < i + 1
    <2> HIDE DEF Replies
    <2>1. /\ Head(back) = back[1] /\ Head(back) \in Replies /\ Len(back) \in Nat \ {0}
          /\ \A i \in 1..Len(back') : i + 1 \in 1..Len(back) /\ back'[i] = back[i + 1]
        BY <1>0, <1>1, TailFacts, SMT
    <2>2. \A i \in 1..Len(back') : 1 < i + 1
        BY <1>1, SMT
    <2>3. 1 \in 1..Len(back)
        BY <1>0, TailFacts, SMT
    <2> QED BY <2>1, <2>2, <2>3
<1>3. PICK c \in Call, ans \in Answer : c = back[1].to /\ ans = back[1].ans /\ c \in Remote
    BY <1>2, AskAssumption
<1>4. /\ box' = Arrive(c, ans) /\ ans.re = c
      /\ \A i \in 1..Len(back') : back'[i].to = c => ans.n < back'[i].ans.n
    <2>1. BackInOrder
        BY DEF AnswersInv
    <2> QED BY <1>1, <1>2, <1>3, <2>1 DEF BackInOrder
<1>5. Handled' = Handled /\ \A w \in Worker : sent'[w] = sent[w]
    BY <1>1 DEF Handled
<1>6. BackInOrder'
    <2>1. BackInOrder
        BY DEF AnswersInv
    <2>2. \A i \in 1..Len(back') : back'[i].ans.re = back'[i].to
        BY <1>2, <2>1 DEF BackInOrder
    <2>3. ASSUME NEW i \in 1..Len(back'), NEW j \in 1..Len(back'), i < j, back'[i].to = back'[j].to
          PROVE  back'[i].ans.n < back'[j].ans.n
        <3>1. i + 1 < j + 1 /\ back'[i] = back[i + 1] /\ back'[j] = back[j + 1]
            BY <1>2, <2>3, SMT
        <3> QED BY <1>2, <2>1, <2>3, <3>1 DEF BackInOrder
    <2> QED BY <2>2, <2>3 DEF BackInOrder
<1>7. ASSUME NEW d \in Call, d \in DOMAIN box' => d \in DOMAIN box /\ box'[d] = box[d]
      PROVE  AnswersTo(d)'
    BY <1>1, <1>2, <1>5, <1>7, AnswersOther DEF AnswersInv
<1>8. DOMAIN box' = DOMAIN box /\ \A d \in DOMAIN box \ {c} : box'[d] = box[d]
    BY <1>4 DEF Arrive
<1>9. CASE c \in DOMAIN box => box'[c] = box[c]
    BY <1>6, <1>7, <1>8, <1>9 DEF AnswersInv
<1>10. CASE c \in DOMAIN box /\ box'[c] = Append(box[c], ans)
    <2>1. /\ got[c] \in Seq(Answer) /\ box[c] \in Seq(Answer) /\ AnswersTo(c)
        BY <1>0, <1>10 DEF AskTypeOK, AnswersInv
    <2>2. /\ \A i \in 1..Len(got[c]) : got[c][i].n < ans.n
          /\ \A i \in 1..Len(box[c]) : box[c][i].n < ans.n
        BY <1>2, <1>3, <1>10, <2>1 DEF AnswersTo, BeforeBack
    <2>3. PICK b \in Nat :
              /\ Len(box[c]) = b /\ Len(box'[c]) = b + 1 /\ box'[c][b + 1] = ans
              /\ \A i \in 1..b : box'[c][i] = box[c][i]
        BY <1>10, <2>1, AppendFacts, SMT
    <2>4. InOrder(c, box[c])'
        <3>1. InOrder(c, Append(box[c], ans))
            BY <1>4, <1>10, <2>1, <2>2, OrderAppend DEF AnswersTo
        <3> QED BY <1>10, <3>1 DEF InOrder
    <2>5. Before(got[c], box[c])'
        BY <1>1, <1>10, <2>1, <2>2, <2>3, SMT DEF AnswersTo, Before
    <2>6. BeforeBack(c, box[c])'
        <3> SUFFICES ASSUME NEW i \in 1..(b + 1), NEW j \in 1..Len(back'), back'[j].to = c
                     PROVE  box'[c][i].n < back'[j].ans.n
            BY <2>3 DEF BeforeBack
        <3>1. CASE i = b + 1
            BY <1>4, <2>3, <3>1
        <3>2. CASE i \in 1..b
            BY <1>2, <1>10, <2>1, <2>3, <3>2 DEF AnswersTo, BeforeBack
        <3> QED BY <3>1, <3>2, SMT
    <2>7. InOrder(c, got[c])' /\ BeforeBack(c, got[c])'
        BY <1>1, <1>2, <2>1 DEF AnswersTo, InOrder, BeforeBack
    <2>8. ASSUME NEW n, UpTo(c, n) PROVE UpTo(c, n)'
        <3>1. ans.n <= n /\ \A i \in 1..b : box'[c][i].n <= n
            BY <1>2, <1>3, <1>10, <2>3, <2>8 DEF UpTo
        <3>2. \A i \in 1..Len(box'[c]) : box'[c][i].n <= n
            BY <2>3, <3>1, SMT
        <3> QED BY <1>1, <1>2, <2>8, <3>2 DEF UpTo
    <2>9. ASSUME NEW w \in Worker, state'[w] = "busy", item'[w] = c PROVE UpTo(c, sent[w])'
        <3>1. UpTo(c, sent[w])
            BY <1>1, <2>1, <2>9 DEF AnswersTo
        <3> QED BY <1>5, <2>8, <3>1 DEF UpTo
    <2>10. ~In(c, Handled') => UpTo(c, 0)'
        BY <1>5, <2>1, <2>8 DEF AnswersTo
    <2>11. AnswersTo(c)'
        BY <1>3, <2>4, <2>5, <2>6, <2>7, <2>9, <2>10 DEF AnswersTo
    <2>12. ASSUME NEW d \in Call, d # c PROVE AnswersTo(d)'
        BY <1>7, <1>8, <2>12
    <2> QED BY <1>6, <2>11, <2>12 DEF AnswersInv
<1>11. c \in DOMAIN box => box'[c] = box[c] \/ box'[c] = Append(box[c], ans)
    BY <1>4 DEF Arrive, PutNowait
<1> QED BY <1>9, <1>10, <1>11

\* The caller takes the first answer of its mailbox, or leaves with it.
LEMMA ReceiveAnswers ==
    ASSUME PlacesInv, AnswersInv, NEW c \in Call, Receive(c), UNCHANGED poolVars
    PROVE  AnswersInv'
<1>0. TypeOK /\ AskTypeOK /\ MailboxInv
    BY DEF PlacesInv, TypeOK
<1>1. /\ c \in DOMAIN box /\ box[c] \in Seq(Answer) /\ box[c] # << >>
      /\ got \in [Call -> Seq(Answer)] /\ AnswersTo(c)
    BY <1>0 DEF Receive, MailboxInv, NoStrayMailbox, AskTypeOK, AnswersInv
<1>2. UNCHANGED <<back, state, item, sent, begun>>
    BY DEF Receive, poolVars
<1>3. \/ got' = got /\ box' = Unregister(c)
      \/ /\ got' = [got EXCEPT ![c] = Append(@, Head(box[c]))]
         /\ box' = Unregister(c) \/ box' = [box EXCEPT ![c] = Tail(@)]
    BY DEF Receive
<1>4. Handled' = Handled /\ BackInOrder'
    BY <1>2 DEF Handled, AnswersInv, BackInOrder
<1>5. \A d \in DOMAIN box' : d \in DOMAIN box /\ (d # c => box'[d] = box[d])
    BY <1>3 DEF Unregister
<1>6. ASSUME NEW d \in Call, d # c PROVE AnswersTo(d)'
    <2>1. got'[d] = got[d]
        BY <1>1, <1>3, <1>6
    <2> QED BY <1>2, <1>4, <1>5, <1>6, <2>1, AnswersOther DEF AnswersInv
<1>7. CASE got' = got /\ box' = Unregister(c)
    <2>1. c \notin DOMAIN box'
        BY <1>7 DEF Unregister
    <2>2. AnswersTo(c)'
        BY <1>1, <1>2, <1>4, <1>7, <2>1, AnswersOther
    <2> QED BY <1>4, <1>6, <2>2 DEF AnswersInv
<1>8. CASE /\ got' = [got EXCEPT ![c] = Append(@, Head(box[c]))]
           /\ box' = Unregister(c) \/ box' = [box EXCEPT ![c] = Tail(@)]
    <2>0. got[c] \in Seq(Answer) /\ got'[c] = Append(got[c], Head(box[c]))
        BY <1>1, <1>8
    <2>1. PICK ans \in Answer : ans = Head(box[c]) /\ ans = box[c][1]
        BY <1>1, TailFacts
    <2>2. PICK g \in Nat, b \in Nat :
              /\ Len(got[c]) = g /\ Len(got'[c]) = g + 1 /\ Len(box[c]) = b + 1
              /\ got'[c][g + 1] = ans /\ \A i \in 1..g : got'[c][i] = got[c][i]
        <3>1. Len(box[c]) \in Nat \ {0}
            BY <1>1, TailFacts
        <3>2. Len(got[c]) \in Nat
            BY <2>0, SMT
        <3>3. /\ Len(got'[c]) = Len(got[c]) + 1 /\ got'[c][Len(got[c]) + 1] = ans
              /\ \A i \in 1..Len(got[c]) : got'[c][i] = got[c][i]
            BY <2>0, <2>1, AppendFacts, SMT
        <3>4. PICK n \in Nat : Len(box[c]) = n + 1
            <4>1. \A m \in Nat \ {0} : m - 1 \in Nat /\ m = (m - 1) + 1
                BY SMT
            <4> QED BY <3>1, <4>1
        <3> QED BY <3>2, <3>3, <3>4
    <2>3. /\ \A i \in 1..(g + 1) : i \in 1..g \/ i = g + 1
          /\ 1 \in 1..(b + 1) /\ \A i \in 1..b : i + 1 \in 1..(b + 1) /\ 1 < i + 1
          /\ \A i, j \in 1..b : i < j => i + 1 < j + 1
        BY SMT
    <2>4. c \in DOMAIN box' =>
            /\ Len(box'[c]) = b
            /\ \A i \in 1..b : box'[c][i] = box[c][i + 1]
        <3>1. c \in DOMAIN box' => box'[c] = Tail(box[c])
            BY <1>8 DEF Unregister
        <3>2. Len(Tail(box[c])) = b /\ \A i \in 1..b : Tail(box[c])[i] = box[c][i + 1]
            <4>1. /\ Len(Tail(box[c])) = Len(box[c]) - 1
                  /\ \A i \in 1..Len(Tail(box[c])) : Tail(box[c])[i] = box[c][i + 1]
                BY <1>1, TailFacts, SMT
            <4> QED BY <2>2, <4>1, SMT
        <3> QED BY <3>1, <3>2
    <2>5. /\ InOrder(c, got[c]) /\ BeforeBack(c, got[c])
          /\ InOrder(c, box[c]) /\ Before(got[c], box[c]) /\ BeforeBack(c, box[c])
        BY <1>1 DEF AnswersTo
    <2>6. InOrder(c, got[c])'
        <3>1. ans.re = c /\ \A i \in 1..Len(got[c]) : got[c][i].n < ans.n
            BY <1>1, <2>1, <2>2, <2>5, SMT DEF InOrder, Before
        <3>2. InOrder(c, Append(got[c], ans))
            BY <2>0, <2>5, <3>1, OrderAppend
        <3> QED BY <2>0, <2>1, <3>2 DEF InOrder
    <2>7. BeforeBack(c, got[c])'
        <3>1. \A j \in 1..Len(back) : back[j].to = c => ans.n < back[j].ans.n
            BY <2>1, <2>2, <2>5, SMT DEF BeforeBack
        <3>2. \A i \in 1..g, j \in 1..Len(back) : back[j].to = c => got'[c][i].n < back[j].ans.n
            BY <2>2, <2>5 DEF BeforeBack
        <3> QED BY <1>2, <2>2, <2>3, <3>1, <3>2 DEF BeforeBack
    <2>8. ASSUME c \in DOMAIN box'
          PROVE  InOrder(c, box[c])' /\ Before(got[c], box[c])' /\ BeforeBack(c, box[c])'
        <3>0. /\ \A i \in 1..(b + 1) : box[c][i].re = c
              /\ \A i, j \in 1..(b + 1) : i < j => box[c][i].n < box[c][j].n
              /\ \A i \in 1..(b + 1), j \in 1..Len(back) :
                    back[j].to = c => box[c][i].n < back[j].ans.n
            BY <2>2, <2>5 DEF InOrder, BeforeBack
        <3>1. InOrder(c, box[c])'
            <4>1. \A i \in 1..b : box'[c][i].re = c
                BY <2>3, <2>4, <2>8, <3>0
            <4>2. \A i, j \in 1..b : i < j => box'[c][i].n < box'[c][j].n
                BY <2>3, <2>4, <2>8, <3>0
            <4> QED BY <2>4, <2>8, <4>1, <4>2 DEF InOrder
        <3>2. Before(got[c], box[c])'
            <4>1. \A j \in 1..b : ans.n < box'[c][j].n
                BY <2>1, <2>3, <2>4, <2>8, <3>0
            <4>2. \A i \in 1..g, j \in 1..b : got'[c][i].n < box'[c][j].n
                BY <2>2, <2>3, <2>4, <2>5, <2>8 DEF Before
            <4> QED BY <2>2, <2>4, <2>8, <4>1, <4>2, SMT DEF Before
        <3>3. BeforeBack(c, box[c])'
            <4>1. \A i \in 1..b, j \in 1..Len(back) :
                      back[j].to = c => box'[c][i].n < back[j].ans.n
                BY <2>3, <2>4, <2>8, <3>0
            <4> QED BY <1>2, <2>4, <2>8, <4>1 DEF BeforeBack
        <3> QED BY <3>1, <3>2, <3>3
    <2>9. ASSUME NEW n, UpTo(c, n) PROVE UpTo(c, n)'
        <3>1. \A i \in 1..Len(got'[c]) : got'[c][i].n <= n
            BY <1>1, <2>1, <2>2, <2>3, <2>9 DEF UpTo
        <3>2. c \in DOMAIN box' => \A i \in 1..Len(box'[c]) : box'[c][i].n <= n
            BY <1>1, <2>2, <2>4, <2>9, SMT DEF UpTo
        <3> QED BY <1>2, <2>9, <3>1, <3>2 DEF UpTo
    <2>10. ASSUME NEW w \in Worker, state'[w] = "busy", item'[w] = c PROVE UpTo(c, sent[w])'
        <3>1. UpTo(c, sent[w])
            BY <1>1, <1>2, <2>10 DEF AnswersTo
        <3> QED BY <1>2, <2>9, <3>1 DEF UpTo
    <2>11. ~In(c, Handled') => UpTo(c, 0)'
        BY <1>1, <1>4, <2>9 DEF AnswersTo
    <2>12. c \notin Remote => NoGap(c)'
        <3> SUFFICES ASSUME NoGap(c), c \notin Remote PROVE NoGap(c)'
            BY <1>1 DEF AnswersTo
        <3>1. /\ \A i \in 1..g : got[c][i].n = i
              /\ \A i \in 1..(b + 1) : box[c][i].n = g + i
            BY <1>1, <2>2 DEF NoGap
        <3>2. ans.n = g + 1
            BY <2>1, <2>2, <3>1, SMT
        <3>3. \A i \in 1..Len(got'[c]) : got'[c][i].n = i
            BY <2>2, <2>3, <3>1, <3>2
        <3>4. ASSUME c \in DOMAIN box'
              PROVE  \A i \in 1..Len(box'[c]) : box'[c][i].n = Len(got'[c]) + i
            <4>1. \A i \in 1..b : box'[c][i].n = (g + 1) + i
                BY <2>3, <2>4, <3>1, <3>4, SMT
            <4> QED BY <2>2, <2>4, <3>4, <4>1
        <3>5. ASSUME c \in DOMAIN box', NEW w \in Worker, state'[w] = "busy", item'[w] = c,
                     sent'[w] <= MaxItems
              PROVE  sent'[w] = Len(got'[c]) + Len(box'[c])
            <4>1. sent[w] = Len(got[c]) + Len(box[c])
                BY <1>1, <1>2, <3>5 DEF NoGap
            <4> QED BY <1>2, <2>2, <2>4, <3>5, <4>1, SMT
        <3>6. In(c, Handled)
            <4>1. ~In(c, Handled) => box[c] = << >>
                BY <1>1 DEF NoGap
            <4> QED BY <1>1, <4>1
        <3> QED BY <1>4, <3>3, <3>4, <3>5, <3>6 DEF NoGap
    <2>13. AnswersTo(c)'
        BY <2>6, <2>7, <2>8, <2>10, <2>11, <2>12 DEF AnswersTo
    <2> QED BY <1>4, <1>6, <2>13 DEF AnswersInv
<1> QED BY <1>3, <1>7, <1>8

\* A call opens an empty mailbox before anyone has seen its message.
LEMMA AskAnswers ==
    ASSUME PlacesInv, AnswersInv, AskNext, UNCHANGED poolVars
    PROVE  AnswersInv'
<1>0. UNCHANGED <<state, item, sent, begun>> /\ Handled' = Handled
    BY DEF poolVars, Handled
<1>1. ASSUME NEW c \in Call, Ask(c) PROVE AnswersInv'
    <2>1. UNCHANGED <<got, back>> /\ call[c] = "idle"
        BY <1>1 DEF Ask
    <2>2. CASE UNCHANGED box
        BY <1>0, <2>1, <2>2, AnswersFrame
    <2>3. CASE box' = [d \in DOMAIN box \union {c} |-> IF d = c THEN << >> ELSE box[d]]
        <3>1. ~In(c, Handled) /\ \A w \in Worker : state[w] = "busy" => item[w] # c
            BY <2>1 DEF PlacesInv, OnePlace, WorkersFit
        <3>2. AnswersTo(c) /\ UpTo(c, 0) /\ BackInOrder' /\ c \notin DOMAIN box
            BY <2>1, <3>1 DEF AnswersInv, AnswersTo, BackInOrder, PlacesInv, MailboxInv,
                              NoStrayMailbox
        <3>3. /\ c \in DOMAIN box' /\ box'[c] = << >> /\ Len(box'[c]) = 0
            BY <2>3
        <3>4. \A i \in 1..Len(box'[c]) : FALSE
            BY <3>3, SMT
        <3>5. InOrder(c, got[c])' /\ BeforeBack(c, got[c])' /\ UpTo(c, 0)'
            BY <2>1, <3>2, <3>4 DEF AnswersTo, InOrder, BeforeBack, UpTo
        <3>6. InOrder(c, box[c])' /\ Before(got[c], box[c])' /\ BeforeBack(c, box[c])'
            BY <3>4 DEF InOrder, Before, BeforeBack
        <3>7. c \notin Remote => NoGap(c)'
            <4>1. c \notin Remote => \A i \in 1..Len(got[c]) : got[c][i].n = i
                BY <3>2 DEF AnswersTo, NoGap
            <4> QED BY <1>0, <2>1, <3>1, <3>3, <3>4, <4>1 DEF NoGap
        <3>8. AnswersTo(c)'
            BY <1>0, <3>1, <3>5, <3>6, <3>7 DEF AnswersTo
        <3>9. ASSUME NEW d \in Call, d # c PROVE AnswersTo(d)'
            BY <1>0, <2>1, <2>3, <3>9, AnswersOther DEF AnswersInv
        <3> QED BY <3>2, <3>8, <3>9 DEF AnswersInv
    <2> QED BY <1>1, <2>2, <2>3 DEF Ask
<1>2. ASSUME NEW c \in Call, Receive(c) PROVE AnswersInv'
    BY <1>2, ReceiveAnswers
<1>3. ASSUME NEW c \in Call, Timeout(c) PROVE AnswersInv'
    BY <1>0, <1>3, AnswersFrame DEF Timeout, Unregister
<1>4. ASSUME DeliverMessage PROVE AnswersInv'
    BY <1>0, <1>4, AnswersFrame DEF DeliverMessage
<1>5. ASSUME DeliverReply PROVE AnswersInv'
    BY <1>5, DeliverAnswers
<1>6. ASSUME Break PROVE AnswersInv'
    <2>1. UNCHANGED <<box, got>> /\ (UNCHANGED back \/ back' = << >>)
        BY <1>6 DEF Break
    <2>2. CASE UNCHANGED back
        BY <1>0, <2>1, <2>2, AnswersFrame
    <2>3. CASE back' = << >>
        <3>1. BackInOrder' /\ \A i \in 1..Len(back') : FALSE
            BY <2>3, SMT DEF BackInOrder
        <3>2. ASSUME NEW d \in Call PROVE AnswersTo(d)'
            BY <1>0, <2>1, <3>1, AnswersOther DEF AnswersInv
        <3> QED BY <3>1, <3>2 DEF AnswersInv
    <2> QED BY <2>1, <2>2, <2>3
<1> QED BY <1>1, <1>2, <1>3, <1>4, <1>5, <1>6 DEF AskNext

\* Of the pool's steps, only a handler's answers and the start of a handler
\* matter to the callers.
LEMMA PoolAnswers ==
    ASSUME PlacesInv, PlacesInv', AnswersInv, PoolNext
    PROVE  AnswersInv'
<1> USE PoolAssumption
<1>0. TypeOK
    BY DEF PlacesInv
<1>1. ASSUME SpawnPool PROVE AnswersInv'
    <2>1. /\ UNCHANGED <<box, got, back, begun, item, sent>>
          /\ UNCHANGED state \/ state' = [a \in Actors |-> "new"]
        BY <1>1 DEF SpawnPool, taskVars
    <2> QED BY <2>1, AnswersFrame
<1>2. ASSUME Dispatch \/ Stop \/ StopReturns PROVE AnswersInv'
    BY <1>2, AnswersFrame DEF Dispatch, Stop, StopReturns, askVars, taskVars
<1>3. ASSUME Sweep PROVE AnswersInv'
    BY <1>3, AnswersFrame DEF Sweep
<1>4. ASSUME NEW a \in Actors, FirstTurn(a) PROVE AnswersInv'
    BY <1>0, <1>4, AnswersFrame DEF FirstTurn, TypeOK
<1>5. ASSUME NEW a \in Actors, End(a) PROVE AnswersInv'
    <2>1. \A w \in Worker : state'[w] = "busy" =>
              state[w] = "busy" /\ item'[w] = item[w] /\ sent'[w] = sent[w]
        BY <1>0, <1>5 DEF End, Rest, TypeOK
    <2> QED BY <1>5, <2>1, AnswersFrame DEF End
<1>6. ASSUME NEW w \in Worker, Take(w) PROVE AnswersInv'
    BY <1>6, TakeAnswers
<1>7. ASSUME NEW w \in Worker, state' = [state EXCEPT ![w] = Caught], Rest(w),
             UNCHANGED <<askVars, begun>>
      PROVE  AnswersInv'
    <2>1. \A v \in Worker : state'[v] = "busy" =>
              state[v] = "busy" /\ item'[v] = item[v] /\ sent'[v] = sent[v]
        BY <1>0, <1>7 DEF Caught, Rest, TypeOK
    <2> QED BY <1>7, <2>1, AnswersFrame DEF askVars
<1>8. ASSUME NEW w \in Worker, Finish(w) PROVE AnswersInv'
    BY <1>7, <1>8 DEF Finish
<1>9. ASSUME NEW w \in Worker, NEW kind \in {"item", "final", "plain"}, Give(w, kind)
      PROVE  AnswersInv'
    <2>1. \/ Gives(w, kind)
          \/ state' = [state EXCEPT ![w] = Caught] /\ Rest(w) /\ UNCHANGED <<askVars, begun>>
        BY <1>9 DEF Give, Gives
    <2> QED BY <1>7, <2>1, GiveAnswers
<1> QED BY <1>1, <1>2, <1>3, <1>4, <1>5, <1>6, <1>8, <1>9 DEF PoolNext, WorkerNext

\* AnswersAreOwn: whoever asks, streams, times out or is on the other side of a
\* connection that breaks, a reply mailbox only ever yields the answers to its
\* own message, in order, and on the caller's own node without a gap (_ask,
\* _ask_stream, MessageMeta.reply, the contextvar the worker loop binds).
THEOREM AnswersTheorem == Spec => []AnswersAreOwn
<1>1. Init => AnswersInv
    <2> SUFFICES ASSUME Init PROVE AnswersInv
        OBVIOUS
    <2>1. /\ back = << >> /\ box = << >> /\ DOMAIN box = {} /\ Handled = << >>
          /\ \A c \in Call : got[c] = << >>
          /\ \A w \in Worker : state[w] # "busy"
        <3>1. /\ back = << >> /\ box = << >> /\ begun = << >>
              /\ \A c \in Call : got[c] = << >>
            BY DEF Init, AskInit
        <3>2. \A w \in Worker : state[w] # "busy"
            BY PoolAssumption DEF Init
        <3>3. DOMAIN box = {} /\ Handled = << >>
            BY <3>1, SMT DEF Handled
        <3> QED BY <3>1, <3>2, <3>3
    <2>2. /\ \A i \in 1..Len(back) : FALSE
          /\ \A c \in Call : \A i \in 1..Len(got[c]) : FALSE
        BY <2>1, SMT
    <2>3. BackInOrder
        BY <2>2, Zenon DEF BackInOrder
    <2>4. ASSUME NEW c \in Call PROVE AnswersTo(c)
        BY <2>1, <2>2, Zenon DEF AnswersTo, InOrder, BeforeBack, UpTo, NoGap
    <2> QED BY <2>3, <2>4 DEF AnswersInv
<1>2. PlacesInv /\ PlacesInv' /\ AnswersInv /\ [Next]_vars => AnswersInv'
    <2>1. ASSUME AnswersInv, UNCHANGED vars PROVE AnswersInv'
        BY <2>1, AnswersFrame DEF vars, askVars, poolVars
    <2> QED BY <2>1, AskAnswers, PoolAnswers DEF Next
<1>3. AnswersInv => AnswersAreOwn
    BY DEF AnswersInv, AnswersTo, InOrder, NoGap, AnswersAreOwn
<1> QED BY <1>1, <1>2, <1>3, AlwaysPlaces, PTL DEF Spec
-----------------------------------------------------------------------------
(* Queued messages                                                         *)

\* A pool that was not stopped has all of its tasks or none, and only a group
\* restart takes the start message from a worker.
ServedInv ==
    /\ \/ stop = "no" /\ (\A a \in Actors : state[a] = "none")
          /\ (\A w \in Worker : queue[w] = << >>)
       \/ \A a \in Actors : state[a] # "none"
    /\ stop = "no" => \A a \in Actors : state[a] # "done"
    /\ \A w \in Worker : state[w] = "deaf" => sweeps > 0
    /\ \A w \in Worker : state[w] = "new" => w \in start \/ sweeps > 0

LEMMA ServedFrame ==
    ASSUME ServedInv, UNCHANGED <<state, start, queue, stop, sweeps>>
    PROVE  ServedInv'
BY DEF ServedInv

LEMMA NextServed ==
    ASSUME TypeOK, ServedInv, [Next]_vars
    PROVE  ServedInv'
<1> USE PoolAssumption
<1>0. state \in [Actors -> {"none", "new", "idle", "busy", "deaf", "done"}] /\ sweeps \in Nat
    BY SMT DEF TypeOK
<1>1. ASSUME SpawnPool PROVE ServedInv'
    <2>1. CASE UNCHANGED <<names, inbox, state, queue, taskVars, stop, turned>>
        BY <1>1, <2>1, ServedFrame DEF SpawnPool, taskVars
    <2>2. CASE /\ state' = [a \in Actors |-> "new"] /\ start' = Worker
        BY <2>2 DEF ServedInv
    <2> QED BY <1>1, <2>1, <2>2 DEF SpawnPool
<1>2. ASSUME NEW a \in Actors, FirstTurn(a) PROVE ServedInv'
    <2>1. /\ stop = "no" /\ state[a] = "new" /\ start' = start \ {a}
          /\ state' = [state EXCEPT ![a] = IF a \in Worker /\ a \notin start THEN "deaf" ELSE "idle"]
          /\ UNCHANGED <<queue, stop, sweeps>>
        BY <1>2 DEF FirstTurn
    <2>2. \A b \in Actors : state[b] # "none"
        BY <2>1 DEF ServedInv
    <2>3. state'[a] \in {"deaf", "idle"} /\ \A b \in Actors \ {a} : state'[b] = state[b]
        BY <1>0, <2>1
    <2>4. a \in Worker /\ state'[a] = "deaf" => sweeps > 0
        BY <1>0, <2>1 DEF ServedInv
    <2> QED BY <2>1, <2>2, <2>3, <2>4 DEF ServedInv
<1>3. ASSUME NEW a \in Actors, End(a) PROVE ServedInv'
    BY <1>0, <1>3 DEF End, ServedInv, countVars
<1>4. ASSUME NEW w \in Worker, Take(w) \/ Finish(w) \/ \E k : Give(w, k)
      PROVE  ServedInv'
    <2>1. /\ stop = "no" /\ state[w] \in {"idle", "busy"} /\ w \in Actors
          /\ UNCHANGED <<start, stop, sweeps>>
          /\ \/ state' = state
             \/ state' = [state EXCEPT ![w] = "busy"]
             \/ state' = [state EXCEPT ![w] = "idle"]
        BY <1>4 DEF Take, Finish, Give, Reply, Caught, askVars, countVars
    <2>2. \A b \in Actors : state[b] # "none"
        BY <2>1 DEF ServedInv
    <2> QED BY <1>0, <2>1, <2>2 DEF ServedInv
<1>5. ASSUME Stop PROVE ServedInv'
    BY <1>5 DEF Stop, Together, ServedInv, taskVars
<1>6. ASSUME StopReturns PROVE ServedInv'
    BY <1>6 DEF StopReturns, StopReturnsLast, ServedInv, taskVars
<1>7. ASSUME Sweep PROVE ServedInv'
    <2>1. sweeps' > 0 /\ state' = [a \in Actors |-> "new"]
        BY <1>0, <1>7, SMT DEF Sweep
    <2> QED BY <2>1 DEF ServedInv
<1>8. ASSUME Dispatch PROVE ServedInv'
    BY <1>8 DEF Dispatch, ServedInv, taskVars, countVars
<1>9. ASSUME UNCHANGED poolVars PROVE ServedInv'
    BY <1>9, ServedFrame DEF poolVars
<1> QED
    BY <1>1, <1>2, <1>3, <1>4, <1>5, <1>6, <1>7, <1>8, <1>9
        DEF Next, PoolNext, WorkerNext, vars

\* A message on a queue of a pool that was not stopped is on the queue of a
\* worker that will get to it: one with a first turn ahead, in its loop or in a
\* handler; or none of its workers listens, and a group restart did that.
QueuedIsServed ==
    \A c \in Call : Queued(c) /\ stop = "no" =>
        \/ \E w \in ShardsOf(c) : In(c, queue[w]) /\ state[w] \in {"new", "idle", "busy"}
        \/ sweeps > 0 /\ \A w \in ShardsOf(c) : state[w] = "deaf"

\* The safe half of QueuedIsHandled, with and without key=, for any workers,
\* calls and capacity: no exception, in key(), in a handler or in an answer,
\* leaves a queued message without a worker (_Dispatcher and _Worker.receive).
THEOREM QueuedIsServedTheorem == Spec => []QueuedIsServed
<1>1. Init => ServedInv
    BY PoolAssumption DEF Init, ServedInv
<1>2. PlacesInv /\ ServedInv /\ [Next]_vars => ServedInv'
    BY NextServed DEF PlacesInv
<1>3. PlacesInv /\ ServedInv => QueuedIsServed
    <2> SUFFICES ASSUME PlacesInv, ServedInv, NEW c \in Call, Queued(c), stop = "no"
                 PROVE  \/ \E w \in ShardsOf(c) : /\ In(c, queue[w])
                                                  /\ state[w] \in {"new", "idle", "busy"}
                        \/ sweeps > 0 /\ \A w \in ShardsOf(c) : state[w] = "deaf"
        BY DEF QueuedIsServed
    <2>1. PICK v \in Worker : In(c, queue[v])
        BY DEF Queued, In
    <2>2. v \in ShardsOf(c) /\ \A w \in ShardsOf(c) : w \in Worker /\ In(c, queue[w])
        <3>1. CASE Sharded
            <4>1. Shard[c] = v
                BY <2>1, <3>1 DEF PlacesInv, QueuesFit, In
            <4> QED BY <2>1, <3>1, <4>1 DEF ShardsOf
        <3>2. CASE ~Sharded
            BY <2>1, <3>2 DEF ShardsOf, PlacesInv, QueuesFit
        <3> QED BY <3>1, <3>2
    <2>3. queue[v] # << >>
        BY <2>1, SMT DEF In
    <2>4. \A w \in Worker : state[w] \in {"new", "idle", "busy", "deaf"}
        <3>1. \A a \in Actors : state[a] \in {"none", "new", "idle", "busy", "deaf", "done"}
            BY DEF PlacesInv, TypeOK
        <3>2. \A a \in Actors : state[a] \notin {"none", "done"}
            BY <2>3 DEF ServedInv
        <3> QED BY <3>1, <3>2, PoolAssumption
    <2>5. CASE \A w \in ShardsOf(c) : state[w] = "deaf"
        BY <2>2, <2>5 DEF ServedInv
    <2>6. CASE \E w \in ShardsOf(c) : state[w] # "deaf"
        BY <2>2, <2>4, <2>6
    <2> QED BY <2>5, <2>6
<1> QED BY <1>1, <1>2, <1>3, AlwaysPlaces, PTL DEF Spec

-----------------------------------------------------------------------------
(* What a call carries                                                     *)

\* Where the message is on its way, and what has become of it there.
CodecInv ==
    /\ message \in Payload
    /\ stage = "sent" => payload = message
    /\ stage = "encoded" => payload = EncodeObj(message)
    /\ stage = "refused" => ~IsJson(EncodeObj(message))
    /\ stage = "wire" => payload = Json(EncodeObj(message))
    /\ stage = "decode_error" => ~Decodes(Json(EncodeObj(message)))
    /\ stage \in {"decoded", "handled", "crash"} => payload = DecodeObj(Json(EncodeObj(message)))
    /\ stage \in {"wire", "decoded", "decode_error", "handled", "crash"} =>
          IsJson(EncodeObj(message))
    /\ stage = "handled" => Handler(decl, payload[<< >>].c) # "TypeError"
    /\ stage = "crash" => Handler(decl, payload[<< >>].c) = "TypeError"

\* Each step applies the next of the code's functions: encode_payload, the JSON
\* conversion of send_data, decode_payload, the choice of a handler.
THEOREM AlwaysCodecInv == CodecSpec => []CodecInv
<1>1. CodecInit => CodecInv
  BY DEF CodecInit, CodecInv
<1>2. CodecInv /\ [CodecNext]_codecVars => CodecInv'
  <2> SUFFICES ASSUME CodecInv, [CodecNext]_codecVars PROVE CodecInv'
    OBVIOUS
  <2>1. CASE Encode
    BY <2>1 DEF Encode, Step, CodecInv
  <2>2. CASE SendData
    BY <2>2 DEF SendData, Step, CodecInv
  <2>3. CASE Decode
    BY <2>3 DEF Decode, Step, CodecInv
  <2>4. CASE Drive
    BY <2>4 DEF Drive, Step, CodecInv
  <2>5. CASE UNCHANGED codecVars
    BY <2>5 DEF codecVars, CodecInv
  <2> QED BY <2>1, <2>2, <2>3, <2>4, <2>5 DEF CodecNext
<1> QED BY <1>1, <1>2, PTL DEF CodecSpec

\* The labels of a payload.
LEMMA LabelFacts ==
    ASSUME NEW v \in Payload
    PROVE  /\ << >> \in DOMAIN v
           /\ \A p \in DOMAIN v : v[p] \in Label
<1>1. PICK s \in Shape : v \in [s -> Label]
  BY DEF Payload
<1>2. << >> \in s
  BY CodecAssumption
<1> QED BY <1>1, <1>2

LEMMA LabelCases ==
    ASSUME NEW l \in Label
    PROVE  \/ l.tag = NoTag /\ l = Plain(l.c) /\ l.c \in {"int", "huge", "list", "tuple"} \union Class
           \/ l.c = "dict" /\ l = Dict(l.tag) /\ l.tag \in {NoTag} \union Class
  BY SMT DEF Label, Plain, Dict

\* _encode_obj reaches every typed object of a supported message, and its
\* outcome is JSON.
LEMMA SupportedEncodes ==
    ASSUME NEW v \in Payload, Supported(v), NEW p \in DOMAIN v
    PROVE  /\ v[p].c \in Class => EncodeReaches(v, p)
           /\ EncodeObj(v)[p] = IF v[p].c \in Class THEN Dict(v[p].c) ELSE v[p]
           /\ EncodeObj(v)[p].c \in JsonType
<1>1. ASSUME v[p].c \in Class, NEW q \in Above(v, p)
      PROVE  v[q].c \in {"dict", "list", "tuple"} \union Dataclass
  <2>1. q \in DOMAIN v
    BY DEF Above
  <2>2. v[q].c \notin {"int", "huge"} \union Codecs \union Opaque
    BY <1>1, <2>1 DEF Supported, Payload
  <2> QED BY <2>1, <2>2, LabelFacts, LabelCases DEF Class
<1>2. v[p].c \in Class => EncodeReaches(v, p)
  BY <1>1 DEF EncodeReaches
<1>3. v[p].c \notin Opaque \union {"huge"}
  BY DEF Supported
<1>4. EncodeObj(v)[p] = IF v[p].c \in Class THEN Dict(v[p].c) ELSE v[p]
  BY <1>2, <1>3 DEF EncodeObj, Class
<1>5. EncodeObj(v)[p].c \in JsonType
  BY <1>3, <1>4, LabelFacts, LabelCases, SMT DEF JsonType, Dict
<1> QED BY <1>2, <1>4, <1>5

\* What is sent for a supported message.
LEMMA SupportedWire ==
    ASSUME NEW v \in Payload, Supported(v)
    PROVE  LET w == Json(EncodeObj(v))
           IN  /\ DOMAIN w = DOMAIN v
               /\ \A p \in DOMAIN v :
                     /\ v[p].c \in Class => w[p] = Dict(v[p].c) /\ DecodeReaches(w, p)
                     /\ v[p].c \notin Class => w[p] = Same(v)[p] /\ w[p].tag = NoTag
<1> DEFINE e == EncodeObj(v)
           w == Json(e)
<1>1. DOMAIN e = DOMAIN v /\ DOMAIN w = DOMAIN v
  BY DEF EncodeObj, Json
<1>2. ASSUME NEW p \in DOMAIN v, v[p].c \in Class PROVE w[p] = Dict(v[p].c)
  <2>1. e[p] = Dict(v[p].c)
    BY <1>2, SupportedEncodes
  <2> QED BY <1>1, <2>1, SMT DEF Json, Dict
<1>3. ASSUME NEW p \in DOMAIN v, v[p].c \notin Class PROVE w[p] = Same(v)[p] /\ w[p].tag = NoTag
  <2>1. e[p] = v[p]
    BY <1>3, SupportedEncodes
  <2>2. v[p].tag = NoTag
    BY DEF Supported
  <2>3. v[p].c = "tuple" <=> v[p] = Plain("tuple")
    BY <2>2, LabelFacts, LabelCases, SMT DEF Plain
  <2> QED BY <1>1, <2>1, <2>2, <2>3 DEF Json, Same, Plain
<1>4. ASSUME NEW p \in DOMAIN v, v[p].c \in Class PROVE DecodeReaches(w, p)
  <2> SUFFICES ASSUME NEW q \in Above(v, p) PROVE w[q].tag \notin Codecs
    BY <1>1 DEF DecodeReaches, Above
  <2>1. q \in DOMAIN v
    BY DEF Above
  <2>2. v[q].c \notin Codecs
    BY <1>4 DEF Supported
  <2>3. w[q].tag = v[q].c \/ w[q].tag = NoTag
    <3>1. Dict(v[q].c).tag = v[q].c
      BY SMT DEF Dict
    <3> QED BY <1>2, <1>3, <2>1, <3>1
  <2> QED BY <2>2, <2>3, CodecAssumption DEF Class
<1> HIDE DEF w
<1>5. \A p \in DOMAIN v :
        /\ v[p].c \in Class => w[p] = Dict(v[p].c) /\ DecodeReaches(w, p)
        /\ v[p].c \notin Class => w[p] = Same(v)[p] /\ w[p].tag = NoTag
  BY <1>2, <1>3, <1>4
<1> QED BY <1>1, <1>5 DEF w

\* For any classes and a payload of any depth: what the receiver of a supported
\* message is handed is the message, tuples aside.
LEMMA SupportedDecodes ==
    ASSUME NEW v \in Payload, Supported(v)
    PROVE  /\ DecodeObj(Json(EncodeObj(v))) = Same(v)
           /\ ~Decodes(Json(EncodeObj(v))) => \E p \in DOMAIN v : v[p].c \in Absent
<1>1. PICK w : w = Json(EncodeObj(v))
  OBVIOUS
<1>2. /\ DOMAIN w = DOMAIN v
      /\ \A p \in DOMAIN v :
            /\ v[p].c \in Class => w[p] = Dict(v[p].c) /\ DecodeReaches(w, p)
            /\ v[p].c \notin Class => w[p] = Same(v)[p] /\ w[p].tag = NoTag
  BY <1>1, SupportedWire
<1>3. ASSUME NEW p \in DOMAIN v PROVE DecodeObj(w)[p] = Same(v)[p]
  <2>1. CASE v[p].c \in Class
    <3>1. w[p].tag = v[p].c /\ v[p].c # NoTag
      BY <1>2, <2>1, CodecAssumption, SMT DEF Dict
    <3>2. DecodeObj(w)[p] = Plain(v[p].c)
      BY <1>2, <2>1, <3>1 DEF DecodeObj
    <3>3. v[p] = Plain(v[p].c)
      BY <2>1, LabelFacts, LabelCases, CodecAssumption
    <3>4. v[p] # Plain("tuple")
      BY <2>1, CodecAssumption, SMT DEF Plain
    <3> QED BY <3>2, <3>3, <3>4 DEF Same
  <2>2. CASE v[p].c \notin Class
    BY <1>2, <2>2 DEF DecodeObj
  <2> QED BY <2>1, <2>2
<1>4. DecodeObj(w) = Same(v)
  BY <1>2, <1>3 DEF DecodeObj, Same
<1>5. ASSUME ~Decodes(w) PROVE \E p \in DOMAIN v : v[p].c \in Absent
  <2>1. PICK p \in DOMAIN v : w[p].tag \in Opaque \union Absent
    BY <1>2, <1>5 DEF Decodes
  <2>2. w[p].tag # NoTag
    BY <2>1, CodecAssumption DEF Class, Codecs
  <2>3. w[p].tag = v[p].c
    BY <1>2, <2>2, SMT DEF Dict
  <2> QED BY <2>1, <2>3 DEF Supported
<1> QED BY <1>1, <1>4, <1>5

\* For any classes, declarations and payloads of any depth: a supported message
\* arrives as it was sent, tuples aside, or the receiver lacks one of its classes.
THEOREM RoundTripTheorem == CodecSpec => []RoundTrip
<1>1. CodecInv => RoundTrip
  <2> SUFFICES ASSUME CodecInv, Supported(message)
               PROVE  /\ stage # "refused"
                      /\ stage = "decode_error" =>
                            \E p \in DOMAIN message : message[p].c \in Absent
                      /\ stage \in {"decoded", "handled", "crash"} => payload = Same(message)
                      /\ message[<< >>].c # "tuple" =>
                            /\ stage = "handled" => Handler(decl, message[<< >>].c) # "TypeError"
                            /\ stage = "crash" => Handler(decl, message[<< >>].c) = "TypeError"
    BY DEF RoundTrip
  <2>1. message \in Payload
    BY DEF CodecInv
  <2>2. IsJson(EncodeObj(message))
    <3>1. DOMAIN EncodeObj(message) = DOMAIN message
      BY DEF EncodeObj
    <3> QED BY <2>1, <3>1, SupportedEncodes DEF IsJson
  <2>3. stage # "refused"
    BY <2>2 DEF CodecInv
  <2>4. stage = "decode_error" => \E p \in DOMAIN message : message[p].c \in Absent
    BY <2>1, SupportedDecodes DEF CodecInv
  <2>5. stage \in {"decoded", "handled", "crash"} => payload = Same(message)
    BY <2>1, SupportedDecodes DEF CodecInv
  <2>6. message[<< >>].c # "tuple" => Same(message)[<< >>] = message[<< >>]
    BY <2>1, LabelFacts, SMT DEF Same, Plain
  <2>7. ASSUME message[<< >>].c # "tuple", stage \in {"handled", "crash"}
        PROVE  payload[<< >>].c = message[<< >>].c
    BY <2>5, <2>6, <2>7
  <2> QED BY <2>3, <2>4, <2>5, <2>7 DEF CodecInv
<1> QED BY <1>1, AlwaysCodecInv, PTL

\* For any classes and payloads of any depth: what py_to_json lets through is
\* supported, or uses the reserved key.
THEOREM RefusedTheorem == CodecSpec => []RefusedAtSender
<1>1. ASSUME NEW v \in Payload, IsJson(EncodeObj(v)), ~Tagged(v) PROVE Supported(v)
  <2> SUFFICES ASSUME NEW p \in DOMAIN v
               PROVE  /\ v[p].c \notin {"huge"} \union Opaque
                      /\ v[p].c \in Class => \A q \in Above(v, p) : v[q].c \notin Codecs
    BY <1>1 DEF Supported, Tagged
  <2>1. EncodeObj(v)[p].c \in JsonType
    BY <1>1 DEF IsJson, EncodeObj
  <2>2. v[p].c \notin JsonType => v[p].c \in Dataclass \union Codecs /\ EncodeReaches(v, p)
    BY <2>1 DEF EncodeObj
  <2>3. v[p].c \in Class => v[p].c \notin JsonType
    BY CodecAssumption DEF JsonType
  <2>4. v[p].c \notin {"huge"} \union Opaque
    BY <2>2, <2>3, CodecAssumption DEF Class, JsonType
  <2>5. v[p].c \in Class => \A q \in Above(v, p) : v[q].c \notin Codecs
    BY <2>2, <2>3, CodecAssumption DEF EncodeReaches, Class
  <2> QED BY <2>4, <2>5
<1>2. CodecInv => RefusedAtSender
  BY <1>1 DEF CodecInv, RefusedAtSender
<1> QED BY <1>2, AlwaysCodecInv, PTL
=============================================================================
