---------------------------- MODULE MCKeyValues ----------------------------
(* Texts for KeyValues: short ones of any characters, what senders and    *)
(* QRadarTarget write of values with every kind of punctuation in them,   *)
(* and lists in which keys and aliases come again.                        *)
EXTENDS KeyValues

CONSTANT MaxNoise   \* bound: the length of a text of any characters

MCLetters == {"h", "l", "m", "n", "p", "u", "x", "t"}
MCDigits == {"1"}

Key(c) == <<c>>

MCHeaderKey == Key("h")
MCUnpairedKey == Key("u")
MCLogidKey == Key("l")
MCSevKey == Key("l")
MCSrcKey == Key("m")
MCRawKey == Key("x")

\* LEEF 2.0 may name any character.
MCDelims == {Tab, Escape}

\* p is a numeric key, m and n are aliases of each other, h is spelled "header", u
\* "unpaired_0", and l is FortiGate's logid; FortiGate has no aliases.
MCFieldOf ==
    LET common == (Key("p") :> "port") @@ (Key("m") :> "name")
    IN  [f \in Formats |-> IF f = "fortigate" THEN common @@ (Key("l") :> "logid")
                           ELSE common @@ (Key("n") :> "name")]

Texts(chars, n) == UNION {[1..k -> chars] : k \in 0..n}

MCNoise == Texts({"p", "1", "=", Blank, Quote, Escape, Tab, LineFeed}, MaxNoise)

\* A value with any three characters, between a logid and a second pair.
Values == Texts({"x", "=", Blank, Quote, Escape, Tab, LineFeed}, 3)
Short == {<<>>, <<"1">>, <<"x">>}

MCLists ==
    {<<Pair(Key("l"), <<"1">>), Pair(Key("m"), v), Pair(Key(k), w)>> :
        v \in Values, k \in {"m", "x"}, w \in Short}
    \cup {[i \in 1..4 |-> IF i = 1 THEN Pair(Key("l"), <<"1">>)
                          ELSE Pair(ks[i - 1], vs[i - 1])] :
            ks \in [1..3 -> {Key("p"), Key("m"), Key("n"), Key("h"), Key("u")}],
            vs \in [1..3 -> {<<"1">>, <<"x">>}]}

MCEvents ==
    [severity : {<<"1">>}, source : {<<>>, <<"x">>, <<"x", Tab, "x">>}, raw : Texts({"x", "=", Blank, Tab, Escape, LineFeed}, 3),
     unknown : {<<>>, <<Pair(<<"x", "#">>, <<Tab>>), Pair(<<"x", " ">>, <<"1">>)>>}]

=============================================================================
