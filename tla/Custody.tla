------------------------------ MODULE Custody ------------------------------
(***************************************************************************)
(* What the delivery manager promises to those that hand it events (the    *)
(* "no silent loss" rules of delivery.py and docs/DELIVERY.md): an event   *)
(* that was accepted gets one verdict, which never changes, and REJECTED   *)
(* is the verdict of hopeless events only.  An event without a verdict is  *)
(* gone only through a fault of the disk or with the process.              *)
(***************************************************************************)
CONSTANTS
    Events,
    Hopeless,   \* events no UTF-8 file can hold
    Faulty      \* may the disk fail?

VARIABLES
    accepted,   \* events handed over
    verdict,    \* a function from the events that have one to their verdict
    gone,       \* events lost without a verdict
    over        \* the process has ended

custody == <<accepted, verdict, gone, over>>

Waiting == accepted \ (DOMAIN verdict \cup gone)

VerdictsFor(e) ==
    {"DELIVERED", "SPOOLED"} \cup (IF e \in Hopeless THEN {"REJECTED"} ELSE {})

Init ==
    /\ accepted = {}
    /\ verdict = [e \in {} |-> "DELIVERED"]
    /\ gone = {}
    /\ over = FALSE

Accept(e) ==
    /\ ~over
    /\ e \in Events \ accepted
    /\ accepted' = accepted \cup {e}
    /\ UNCHANGED <<verdict, gone, over>>

Settle(S) ==
    /\ ~over
    /\ S \subseteq Waiting
    /\ DOMAIN verdict' = DOMAIN verdict \cup S
    /\ verdict' = [e \in DOMAIN verdict' |-> verdict'[e]]
    /\ \A e \in DOMAIN verdict : verdict'[e] = verdict[e]
    /\ \A e \in S : verdict'[e] \in VerdictsFor(e)
    /\ UNCHANGED <<accepted, gone, over>>

Lose(S) ==
    /\ ~over
    /\ Faulty
    /\ S \subseteq Waiting
    /\ gone' = gone \cup S
    /\ UNCHANGED <<accepted, verdict, over>>

End ==
    /\ ~over
    /\ over' = TRUE
    /\ gone' = gone \cup Waiting
    /\ UNCHANGED <<accepted, verdict>>

Next ==
    \/ \E e \in Events : Accept(e)
    \/ \E S \in SUBSET Events : Settle(S) \/ Lose(S)
    \/ End

Spec == Init /\ [][Next]_custody

=============================================================================
