-------------------------------- MODULE Codec --------------------------------
(***************************************************************************)
(* A message on its way to a remote actor: lapinbeam/codec.py, the JSON    *)
(* conversion of the core, and the choice of an @on handler                *)
(* (lapinbeam/actor.py, Supervisor._drive).                                *)
(*                                                                         *)
(* A payload is a tree: a function from the paths of a Shape to labels.    *)
(* The root is << >>, and the items, values or fields of the object at p   *)
(* are at Append(p, 1), Append(p, 2) and so on.  A label is the class c of *)
(* the object and, for a dict, its entry tag under the reserved key        *)
(* __lb_type__.  The fields of a Pydantic or a registered class are what   *)
(* its own model_dump or encode returns.                                   *)
(*                                                                         *)
(* The functions of codec.py recurse into the items of what they walk      *)
(* into: they reach p when they walk into every object above p.            *)
(***************************************************************************)
EXTENDS Naturals, Sequences

CONSTANTS
    Dataclass, Model, Custom, \* classes: @dataclass, Pydantic, register_codec
    Opaque,                   \* other classes
    Absent,                   \* classes the receiver cannot import
    Shape,                    \* the sets of paths that payloads have
    Decl                      \* the @on types declared by actors; see BuildMetadata

Codecs == Model \union Custom
Class == Dataclass \union Codecs \union Opaque
NoTag == "none"

\* Class is partitioned by the branch of _encode_obj that an instance takes.
ASSUME CodecAssumption ==
    /\ {"int", "huge", "dict", "list", "tuple", "default", NoTag} \intersect Class = {}
    /\ Dataclass \intersect Codecs = {} /\ Model \intersect Custom = {}
    /\ Opaque \intersect (Dataclass \union Codecs) = {}
    /\ Absent \subseteq Dataclass \union Model
    /\ \A s \in Shape : s \subseteq Seq(Nat) /\ << >> \in s

Plain(c) == [c |-> c, tag |-> NoTag]
Dict(tag) == [c |-> "dict", tag |-> tag]
Label == {Plain(c) : c \in {"int", "huge", "list", "tuple"} \union Class}
         \union {Dict(t) : t \in {NoTag} \union Class}

\* The objects that contain the one at p.
Above(v, p) == {q \in DOMAIN v : Len(q) < Len(p) /\ q = SubSeq(p, 1, Len(q))}

\* Integers contain nothing.
Payload ==
    UNION {{v \in [s -> Label] :
              \A p \in s : \A q \in Above(v, p) : v[q].c \notin {"int", "huge"}} : s \in Shape}

VARIABLES
    decl,    \* the declaration of the receiving actor's class
    message, \* what was sent
    payload, \* what has become of it
    stage    \* "sent", "encoded", "wire", "decoded", "handled", or where it
             \* ended: "refused" at its sender, "decode_error" or "crash" there
codecVars == <<decl, message, payload, stage>>

-----------------------------------------------------------------------------
(* codec.py                                                                *)

\* _encode_obj.  That a container without a change is not copied makes no
\* difference to its value.
EncodeReaches(v, p) ==
    \A q \in Above(v, p) : v[q].c \in {"dict", "list", "tuple"} \union Dataclass
EncodeObj(v) ==
    [p \in DOMAIN v |->
        IF v[p].c \in Dataclass \union Codecs /\ EncodeReaches(v, p) THEN Dict(v[p].c) ELSE v[p]]

\* py_to_json and its inverse (external): tuples become lists, and whatever is
\* not JSON is refused.
JsonType == {"int", "dict", "list", "tuple"}
IsJsonOutside(v) == v[<< >>].c \in JsonType
IsJson(v) == \A p \in DOMAIN v : v[p].c \in JsonType
Json(v) == [p \in DOMAIN v |-> IF v[p].c = "tuple" THEN Plain("list") ELSE v[p]]

\* _decode_obj and _rebuild, which raises for a class it has no codec for or
\* cannot import, and leaves the fields of Codecs to them.
DecodeReaches(v, p) == \A q \in Above(v, p) : v[q].tag \notin Codecs
Decodes(v) ==
    \A p \in DOMAIN v : DecodeReaches(v, p) => v[p].tag \notin Opaque \union Absent
DecodeTop(v) ==
    [p \in DOMAIN v |-> IF v[p].tag # NoTag /\ p = << >> THEN Plain(v[p].tag) ELSE v[p]]
DecodeObj(v) ==
    [p \in DOMAIN v |->
        IF v[p].tag # NoTag /\ DecodeReaches(v, p) THEN Plain(v[p].tag) ELSE v[p]]

-----------------------------------------------------------------------------
(* actor.py                                                                *)

\* _build_metadata: no type twice, and one default at most.
BuildMetadata(d) == \A i, j \in 1..Len(d) : d[i] = d[j] => i = j

\* _drive: the handler of exactly the message's type, else the default one; a
\* class without any @on has receive.  No handler is a TypeError.
Handler(d, type) ==
    LET types == {d[i] : i \in 1..Len(d)}
    IN  CASE types = {} -> "receive"
          [] type \in types -> type
          [] types # {} /\ type \notin types /\ "default" \in types -> "default"
          [] OTHER -> "TypeError"

-----------------------------------------------------------------------------
CodecInit ==
    /\ decl \in {d \in Decl : BuildMetadata(d)}
    /\ message \in Payload
    /\ payload = message /\ stage = "sent"

Step(from, to, v) ==
    stage = from /\ stage' = to /\ payload' = v /\ UNCHANGED <<decl, message>>

Encode == Step("sent", "encoded", EncodeObj(payload))
SendData == IF IsJson(payload) THEN Step("encoded", "wire", Json(payload))
            ELSE Step("encoded", "refused", payload)
Decode == IF Decodes(payload) THEN Step("wire", "decoded", DecodeObj(payload))
          ELSE Step("wire", "decode_error", payload)
Drive ==
    LET handler == Handler(decl, payload[<< >>].c)
    IN  Step("decoded", IF handler = "TypeError" THEN "crash" ELSE "handled", payload)

CodecNext == Encode \/ SendData \/ Decode \/ Drive
CodecSpec == CodecInit /\ [][CodecNext]_codecVars
-----------------------------------------------------------------------------
(* Properties                                                              *)

\* The value itself, but for its tuples, which arrive as lists.
Same(v) == [p \in DOMAIN v |-> IF v[p] = Plain("tuple") THEN Plain("list") ELSE v[p]]

\* What the module documents as supported, all the way down; the dict that a
\* codec returns is "JSON-compatible", with no typed object in it.
Supported(v) ==
    \A p \in DOMAIN v :
        /\ v[p].c \notin {"huge"} \union Opaque
        /\ v[p].tag = NoTag
        /\ v[p].c \in Class => \A q \in Above(v, p) : v[q].c \notin Codecs

\* "Type-preserving codecs for wire payloads": a supported message is never
\* refused, arrives with its classes at every depth if the receiver has them,
\* and is handled, or crashes the actor for want of a handler, just as it would
\* if it were sent locally.
RoundTrip ==
    Supported(message) =>
        /\ stage # "refused"
        /\ stage = "decode_error" => \E p \in DOMAIN message : message[p].c \in Absent
        /\ stage \in {"decoded", "handled", "crash"} => payload = Same(message)
        /\ message[<< >>].c # "tuple" =>
              /\ stage = "handled" => Handler(decl, message[<< >>].c) # "TypeError"
              /\ stage = "crash" => Handler(decl, message[<< >>].c) = "TypeError"

\* A message that is not supported never arrives as something it is not, except
\* through the reserved key: an object without a codec anywhere in it, or an
\* integer out of range, is refused by the sender's own send().
Tagged(v) == \E p \in DOMAIN v : v[p].tag # NoTag
RefusedAtSender ==
    stage \in {"wire", "decoded", "decode_error", "handled", "crash"} =>
        Supported(message) \/ Tagged(message)
=============================================================================
