---------------------------- MODULE MCResolution ----------------------------
(* Detection and resolution on small instances, for TLC. *)
EXTENDS Resolution

\* Every body on its own, in each kind of header, and relayed once more.
Plain == {<<>>} \cup {<<b>> : b \in Bodies}
Enveloped == {<<h>> : h \in Headers} \cup {<<h, b>> : h \in Headers, b \in Bodies}
Relayed == {<<h, g, b>> : h \in {"5424", "3164 tag"}, g \in Full5424 \cup {"3164", "3164 tag"},
                          b \in {"cef", "json", "pairs", "words"}}

AllTexts == Plain \cup Enveloped \cup Relayed

\* Any event first, one of these second: counters carry over from one event to the next.
SecondIsShort == finished # <<>> => event.text \in {<<>>, <<"words">>, <<"5424", "cef cut">>}

From(ip) == [transport |-> "udp", peer_ip |-> ip, local_port |-> 514, file_path |-> "none"]
FourPeers == {From(ip) : ip \in {"firewall", "router", "relay", "stranger"}}

\* The router is matched by two definitions; the last one has no anchor.
Definitions ==
    << [anchors |-> [peer_ip |-> "firewall"], hint |-> "cisco_asa"],
       [anchors |-> [transport |-> "udp", peer_ip |-> "router"], hint |-> "json"],
       [anchors |-> [peer_ip |-> "router"], hint |-> "no_such_parser"],
       [anchors |-> [transport |-> "udp", peer_ip |-> "relay"], hint |-> "rfc3164"],
       [anchors |-> [a \in {} |-> ""], hint |-> "cef"] >>

=============================================================================
