--------------------------------- MODULE Ask ---------------------------------
(***************************************************************************)
(* Calls to one actor and their answers: ActorRef and RemoteRef send, ask  *)
(* and ask_stream (lapinbeam/refs.py), MessageMeta.reply, reply_stream and *)
(* reply_final (lapinbeam/context.py), and the mailboxes of Node they go   *)
(* through (lapinbeam/node.py).  The actor asked and the local callers are *)
(* on the home node; the remote callers are on another node, behind a      *)
(* connection that delivers in order and may break.                        *)
(*                                                                         *)
(* A call is a model value: it stands for its message and for the hidden,  *)
(* never reused name __lapinbeam_ask_n__ of its reply mailbox.             *)
(***************************************************************************)
EXTENDS Naturals, Sequences, FiniteSets

CONSTANTS
    Call,             \* the calls that may be made
    Fire,             \* those made with send: no reply address
    Stream,           \* those made with ask_stream; the others use ask
    Remote,           \* those made on the other node, through a RemoteRef
    Malformed,        \* those whose payload may not decode
    Actors,           \* actor names of the home node
    Target,           \* the one that is asked
    MailboxCapacity,  \* Node.mailbox_capacity
    MaxDrops          \* bound: how often the connection breaks

ASSUME AskAssumption ==
    /\ Fire \subseteq Call /\ Stream \subseteq Call \ Fire
    /\ Remote \subseteq Call /\ Malformed \subseteq Remote
    /\ Target \in Actors
    /\ MailboxCapacity \in Nat \ {0}
    /\ MaxDrops \in Nat

VARIABLES
    call,   \* how far each call is
    box,    \* the reply mailboxes that are registered
    got,    \* what the caller was handed: an answer, the items of a stream
    names,  \* the names of Actors in Node._mailboxes
    inbox,  \* the mailbox of Target
    out,    \* messages on their way to the home node
    back,   \* answers on their way from it
    drops   \* how often the connection broke; odd while it is down
askVars == <<call, box, got, names, inbox, out, back, drops>>

\* The answer with number n that the handler of call c gives.
Answer == [re : Call, n : Nat \ {0}, kind : {"plain", "item", "final"}]

AskTypeOK ==
    /\ call \in [Call -> {"idle", "sent", "waiting", "ok", "timeout", "error"}]
    /\ DOMAIN box \subseteq Call
    /\ \A c \in DOMAIN box : box[c] \in Seq(Answer)
    /\ got \in [Call -> Seq(Answer)]
    /\ names \subseteq Actors
    /\ inbox \in Seq(Call) /\ Len(inbox) <= MailboxCapacity
    /\ out \in Seq(Remote)
    /\ back \in Seq([to : Remote, ans : Answer])
    /\ drops \in 0..(2 * MaxDrops)

AskInit ==
    /\ call = [c \in Call |-> "idle"]
    /\ box = << >>
    /\ got = [c \in Call |-> << >>]
    /\ names = {}
    /\ inbox = << >>
    /\ out = << >>
    /\ back = << >>
    /\ drops = 0

Connected == drops % 2 = 0

\* put_nowait on a mailbox that holds q: QueueFull drops the message and is
\* only reported as an event.
PutNowait(q, x, capacity) == IF Len(q) < capacity THEN Append(q, x) ELSE q

\* unregister_actor of a reply mailbox, in the `finally` of _ask/_ask_stream.
UnregisterNoop(c) == box
Unregister(c) == [d \in DOMAIN box \ {c} |-> box[d]]

\* ref.send of the message: _send_local raises without a mailbox of that
\* name, _send_remote without a connection.
SendRaises(c) == IF c \in Remote THEN ~Connected ELSE Target \notin names
Send(c) ==
    IF c \in Remote
    THEN out' = Append(out, c) /\ UNCHANGED inbox
    ELSE inbox' = PutNowait(inbox, c, MailboxCapacity) /\ UNCHANGED out

\* send, ask or ask_stream up to the first wait for an answer.
Ask(c) ==
    /\ call[c] = "idle"
    /\ UNCHANGED <<got, names, back, drops>>
    /\ \/ /\ SendRaises(c)
          /\ call' = [call EXCEPT ![c] = "error"]
          /\ UNCHANGED <<box, inbox, out>>
       \/ /\ ~SendRaises(c)
          /\ Send(c)
          /\ IF c \in Fire
             THEN call' = [call EXCEPT ![c] = "sent"] /\ UNCHANGED box
             ELSE /\ call' = [call EXCEPT ![c] = "waiting"]
                  /\ box' = [d \in DOMAIN box \union {c} |->
                                IF d = c THEN << >> ELSE box[d]]

\* The callback of register_actor on the home node.  The message is dropped
\* if no such actor is there, if it does not decode, or if the mailbox is
\* full; the caller learns of none of the three.
DeliverMessage ==
    /\ out # << >>
    /\ out' = Tail(out)
    /\ \/ /\ Head(out) \in Malformed \/ Target \notin names
          /\ inbox' = inbox
       \/ /\ Target \in names
          /\ inbox' = PutNowait(inbox, Head(out), MailboxCapacity)
    /\ UNCHANGED <<call, box, got, names, back, drops>>

\* The reply mailbox of ask holds one message, the one of ask_stream any.
ReplyCapacity(c) == IF c \in Stream THEN Len(box[c]) + 1 ELSE 1

\* An answer arrives where the caller is: without the mailbox it is dropped.
Arrive(c, ans) ==
    IF c \in DOMAIN box
    THEN [box EXCEPT ![c] = PutNowait(@, ans, ReplyCapacity(c))] ELSE box

\* MessageMeta.reply, reply_stream and reply_final to the call c, and when
\* they raise inside the handler: no reply address, no mailbox of that name
\* on this node any more, or no connection to the caller's node.
ReplyRaises(c) ==
    \/ c \in Fire
    \/ c \notin Remote /\ c \notin DOMAIN box
    \/ c \in Remote /\ ~Connected
Reply(c, ans) ==
    /\ ~ReplyRaises(c)
    /\ IF c \in Remote
       THEN back' = Append(back, [to |-> c, ans |-> ans]) /\ UNCHANGED box
       ELSE box' = Arrive(c, ans) /\ UNCHANGED back
    /\ UNCHANGED <<call, got, names, inbox, out, drops>>

DeliverReply ==
    /\ back # << >>
    /\ back' = Tail(back)
    /\ box' = Arrive(Head(back).to, Head(back).ans)
    /\ UNCHANGED <<call, got, names, inbox, out, drops>>

\* The caller takes an answer.  ask returns it; ask_stream yields an item and
\* goes on, ends with a final one and raises on a plain reply.
Receive(c) ==
    /\ call[c] = "waiting" /\ box[c] # << >>
    /\ LET ans == Head(box[c])
           bad == c \in Stream /\ ans.kind = "plain"
           more == c \in Stream /\ ans.kind = "item"
       IN  /\ got' = IF bad THEN got ELSE [got EXCEPT ![c] = Append(@, ans)]
           /\ call' = IF more THEN call
                      ELSE [call EXCEPT ![c] = IF bad THEN "error" ELSE "ok"]
           /\ box' = IF more THEN [box EXCEPT ![c] = Tail(@)] ELSE Unregister(c)
    /\ UNCHANGED <<names, inbox, out, back, drops>>

\* wait_for runs out, or the caller is cancelled.  An answer may be in the
\* mailbox by then: it goes with it.
Timeout(c) ==
    /\ call[c] = "waiting"
    /\ call' = [call EXCEPT ![c] = "timeout"]
    /\ box' = Unregister(c)
    /\ UNCHANGED <<got, names, inbox, out, back, drops>>

\* The connection breaks, with what it carried, or is there again (external:
\* see Transport).
Break ==
    /\ drops < 2 * MaxDrops
    /\ drops' = drops + 1
    /\ IF Connected THEN out' = << >> /\ back' = << >> ELSE UNCHANGED <<out, back>>
    /\ UNCHANGED <<call, box, got, names, inbox>>

AskNext ==
    \/ \E c \in Call : Ask(c) \/ Receive(c) \/ Timeout(c)
    \/ DeliverMessage \/ DeliverReply \/ Break
-----------------------------------------------------------------------------
(* Properties                                                              *)

\* _ask and _ask_stream clean up on every way out: the hidden reply mailboxes
\* on the nodes are exactly those of the calls that still wait.
NoStrayMailbox == DOMAIN box = {c \in Call : call[c] = "waiting"}

\* A caller is only handed answers to its own message, in the order they were
\* given and none twice; on its own node a stream has no gaps either.
AnswersAreOwn ==
    \A c \in Call :
        /\ \A i \in 1..Len(got[c]) : got[c][i].re = c
        /\ \A i, j \in 1..Len(got[c]) : i < j => got[c][i].n < got[c][j].n
        /\ c \notin Remote =>
            \A i \in 1..Len(got[c]) : got[c][i].n = i
=============================================================================
