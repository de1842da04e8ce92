----------------------------- MODULE MCRuntime -----------------------------
(* The process on small instances, for TLC. *)
EXTENDS Runtime

CONSTANTS e1, e2, e3

TwoEvents == {e1, e2}
ThreeEvents == {e1, e2, e3}
None == {}

\* One TCP collector with two connections; no TCP collector.
TwoConnections == [c \in {"tcp"} |-> {"first", "second"}]
NoConnections == [c \in {} |-> {}]

=============================================================================
