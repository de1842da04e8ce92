--------------------------- MODULE MessageStream ---------------------------
(***************************************************************************)
(* What a framed connection promises: the messages of the peer come out    *)
(* whole, in the order they were sent and at most once.  Messages above    *)
(* the limit are passed over, and when the connection ends the messages    *)
(* that did not come out yet never do.                                     *)
(***************************************************************************)
EXTENDS Naturals, Sequences

CONSTANTS
    Message,
    Fits(_)     \* is a message within the limit?

VARIABLES
    sent,       \* the messages of the peer
    got,        \* those that came out
    skipped,    \* how many were passed over
    ended

stream == <<sent, got, skipped, ended>>

NextUp == Len(got) + skipped + 1

Init ==
    /\ sent = <<>>
    /\ got = <<>>
    /\ skipped = 0
    /\ ended = FALSE

Send(m) ==
    /\ sent' = Append(sent, m)
    /\ UNCHANGED <<got, skipped, ended>>

Pass ==
    /\ ~ended
    /\ NextUp <= Len(sent)
    /\ Fits(sent[NextUp])
    /\ got' = Append(got, sent[NextUp])
    /\ UNCHANGED <<sent, skipped, ended>>

Skip ==
    /\ ~ended
    /\ NextUp <= Len(sent)
    /\ ~Fits(sent[NextUp])
    /\ skipped' = skipped + 1
    /\ UNCHANGED <<sent, got, ended>>

End ==
    /\ ~ended
    /\ ended' = TRUE
    /\ UNCHANGED <<sent, got, skipped>>

Next == (\E m \in Message : Send(m)) \/ Pass \/ Skip \/ End

Spec == Init /\ [][Next]_stream

=============================================================================
