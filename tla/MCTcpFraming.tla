---------------------------- MODULE MCTcpFraming ----------------------------
(* One connection with short messages and small limits, for TLC. *)
EXTENDS TcpFraming

x == 120
two == 50

\* A message that fits, one that reads as an octet frame, one with a space, one of
\* two lines and one above the limit.
MCMessages == {<<x>>, <<two, SP, x>>, <<x, SP, x>>, <<x, LF, x>>, <<x, x, x, x>>}

=============================================================================
