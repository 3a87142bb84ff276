------------------------------ MODULE MCCodec ------------------------------
(* An instance of Codec.                                                    *)
EXTENDS Codec, SequencesExt

\* Up to three levels below the root, and up to two objects beside each other.
Chain(n) == {[i \in 1..k |-> 1] : k \in 0..n}
Shapes == {Chain(n) : n \in 0..3} \union {Chain(1) \union {<<2>>}, Chain(2) \union {<<2>>}}

Declarations == {<< >>, <<"default">>, <<"Task">>, <<"Task", "default">>, <<"dict", "Task">>,
                 <<"Task", "Task">>, <<"list">>}

\* EncodeReaches and DecodeReaches say where the recursion of _encode_obj and
\* _decode_obj gets to, which at p goes on with the items of p.
RECURSIVE Walk(_, _, _)
Walk(v, p, into) ==
    {p} \union IF v[p] \notin into THEN {}
               ELSE UNION {Walk(v, q, into) :
                              q \in {q \in DOMAIN v : IsPrefix(p, q) /\ Len(q) = Len(p) + 1}}
ASSUME ReachesIsRecursion ==
    LET encodes == {l \in Label : l.c \in {"dict", "list", "tuple"} \union Dataclass}
        decodes == {l \in Label : l.tag \notin Codecs}
    IN  \A v \in Payload :
            /\ Walk(v, << >>, encodes) = {p \in DOMAIN v : EncodeReaches(v, p)}
            /\ Walk(v, << >>, decodes) = {p \in DOMAIN v : DecodeReaches(v, p)}
=============================================================================
