------------------------------ MODULE NewsReader ------------------------------
(***************************************************************************)
(* What a subscriber promises about the news it is sent: each recv         *)
(* completes some of them, one of the complete ones is shown, in order and *)
(* whole.  This is Subscriber!Read of one process.                         *)
(***************************************************************************)
EXTENDS Integers, Sequences

CONSTANTS
    News,
    RecvNews        \* most news one recv can complete

VARIABLES
    toClient,   \* sent, not complete at the subscriber
    buffer_r,   \* complete, not shown
    shown

vars == <<toClient, buffer_r, shown>>

Init == toClient = <<>> /\ buffer_r = <<>> /\ shown = <<>>

Send ==
    /\ \E x \in News : toClient' = Append(toClient, x)
    /\ UNCHANGED <<buffer_r, shown>>

Read ==
    \E n \in 0 .. RecvNews :
        /\ n <= Len(toClient)
        /\ LET whole == buffer_r \o SubSeq(toClient, 1, n)
           IN  IF whole = <<>> THEN UNCHANGED <<buffer_r, shown>>
               ELSE shown' = Append(shown, Head(whole)) /\ buffer_r' = Tail(whole)
        /\ toClient' = SubSeq(toClient, n + 1, Len(toClient))

Next == Send \/ Read

Spec == Init /\ [][Next]_vars
=============================================================================
