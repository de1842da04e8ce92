----------------------------- MODULE MCListener -----------------------------
(* A small instance of Listener for TLC: more clients than places. *)
EXTENDS Listener, TLC

CONSTANTS c1, c2, c3

MCConns == {c1, c2, c3}

=============================================================================
