----------------------------- MODULE MCDelivery -----------------------------
(* The delivery manager on small instances, for TLC. *)
EXTENDS Delivery

CONSTANTS e1, e2, e3, s1, s2

MCEvents == {e1, e2, e3}
OneSubmitter == {s1}
TwoSubmitters == {s1, s2}

\* e3 came from a JSON text with an escaped lone surrogate, e2, where it is one of
\* them, from a file with a byte that is not UTF-8.
None == {}
OnlyE3 == {e3}
E2AndE3 == {e2, e3}

=============================================================================
