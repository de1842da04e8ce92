-------------------------- MODULE MCStructuredData --------------------------
(* Messages with up to two short elements, and short texts of any kind. *)
EXTENDS StructuredData

Texts(chars, n) == UNION {[1..k -> chars] : k \in 0..n}

MCElements ==
    {[id |-> <<"a">>, params |-> p] :
        p \in {<<>>} \cup {<<[name |-> <<"k">>, val |-> v]>> :
                              v \in Texts({"x", Quote, Escape, Open, Close}, 1)}}

MCMessages == Texts({"x", Blank, Open, Close}, 2)

MCNoise == Texts({"x", Blank, Nil, Open, Close}, 5)

=============================================================================
