---------------------------- MODULE MessageFifo ----------------------------
(***************************************************************************)
(* What sender and receiver promise together: messages come out whole, in  *)
(* the order they were put in, each exactly once.                          *)
(***************************************************************************)
EXTENDS Sequences

CONSTANT Contents     \* what a message can carry

VARIABLES inFlight, delivered

vars == <<inFlight, delivered>>

Init == inFlight = <<>> /\ delivered = <<>>

Accept ==
    /\ \E c \in Contents : inFlight' = Append(inFlight, c)
    /\ UNCHANGED delivered

Deliver ==
    /\ inFlight # <<>>
    /\ delivered' = Append(delivered, inFlight[1])
    /\ inFlight' = Tail(inFlight)

Next == Accept \/ Deliver
Spec == Init /\ [][Next]_vars
=============================================================================
