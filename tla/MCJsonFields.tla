---------------------------- MODULE MCJsonFields ----------------------------
(* Documents for JsonFields: up to three members, some of them objects, one *)
(* level deeper than MaxDepth, with keys that come again, keys that spell   *)
(* another's number or path, and the empty key.                             *)
EXTENDS JsonFields

Value(kind, members) ==
    LET below == UNION {{<<i>> \o p : p \in DOMAIN members[i]} : i \in DOMAIN members}
    IN  [p \in below \cup {<<>>} |->
            IF p = <<>> THEN [key |-> <<>>, kind |-> kind, size |-> Len(members)]
            ELSE members[p[1]][Tail(p)]]
At(key, value) == [value EXCEPT ![<<>>].key = key]

Digits == Value("digits", <<>>)
Word == Value("scalar", <<>>)
List == Value("list", <<>>)
Object(members) == Value("object", members)

MCPieces == {"user", "m", "p", "x", "name", "port", "#", ".", "1"}

K == [c \in {"user", "m", "p", "x"} |-> <<c>>]

\* m is a field of its own name, as "message" is; p is a port.
MCFieldOf == (K["user"] :> <<"name">>) @@ (K["m"] :> K["m"]) @@ (K["p"] :> <<"port">>)
MCPorts == {<<"port">>}

Odd == {<<"m", "#", "1", "1">>, <<"m", ".", "x">>, <<>>}
Some == {K[c] : c \in DOMAIN K} \cup Odd

Inner ==
    {Object(<<>>)}
    \cup {Object(<<At(k, v)>>) : k \in {K["m"], K["x"], <<>>},
              v \in {Digits, List, Object(<<>>),
                     Object(<<At(K["m"], Digits), At(K["m"], Digits)>>),
                     Object(<<At(K["m"], Object(<<At(K["x"], Digits)>>))>>)}}
    \cup {Object(<<At(k, Digits), At(j, Digits)>>) : k, j \in {K["m"], K["x"]}}

Full == {Digits, Word, List} \cup Inner
Few == {Digits, List, Object(<<At(K["m"], Digits)>>), Object(<<At(K["x"], Digits)>>)}

MCDocuments ==
    {<<>>, Digits, List, Object(<<>>)}
    \cup {Object(<<At(k, v), At(j, w)>>) : k, j \in Some, v \in Full, w \in Few}
    \cup {Object(<<At(ks[1], v), At(ks[2], w), At(ks[3], u)>>) :
              ks \in [1..3 -> Some \ {K["p"], K["x"]}], v, w, u \in Few}

=============================================================================
