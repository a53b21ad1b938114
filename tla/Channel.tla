------------------------------ MODULE Channel ------------------------------
(***************************************************************************)
(* What every thread of Mercury expects from the queue it is fed through:  *)
(* elements come out one at a time, each once, in the order of their       *)
(* arrival.  The n-th element that arrives is the number n.                *)
(***************************************************************************)
EXTENDS Naturals, Sequences

VARIABLES
    chan,   \* the elements that have arrived and were not delivered yet
    sent,   \* how many elements have arrived
    last    \* the element delivered last, 0 before the first

chanVars == <<chan, sent, last>>

Init ==
    /\ chan = <<>>
    /\ sent = 0
    /\ last = 0

Send ==
    /\ sent' = sent + 1
    /\ chan' = Append(chan, sent + 1)
    /\ UNCHANGED last

\* A delivery hands out the oldest element and forgets it in the same step.
Deliver ==
    /\ chan # <<>>
    /\ last' = Head(chan)
    /\ chan' = Tail(chan)
    /\ UNCHANGED sent

Next == Send \/ Deliver

Spec == Init /\ [][Next]_chanVars
=============================================================================
