------------------------------- MODULE MCPubSub -------------------------------
(***************************************************************************)
(* Values for TLC.                                                         *)
(***************************************************************************)
EXTENDS PubSub, TLC

CONSTANTS p1, p2, p3, a, b, t

\* One user with two processes, and a second user.
OneUser == [p \in Proc |-> a]
TwoUsers == (p3 :> b) @@ [p \in Proc |-> a]

\* How many lines the processes are given.
NoCommands == [p \in Proc |-> 0]
OneCommand == [p \in Proc |-> 1]
TwoCommands == [p \in Proc |-> 2]
ThreeCommands == [p \in Proc |-> 3]
OnlySecond == (p2 :> 1) @@ [p \in Proc |-> 0]
OnlyFirst == (p1 :> 1) @@ [p \in Proc |-> 0]
OnlyFirstTwice == (p1 :> 2) @@ [p \in Proc |-> 0]

\* Processes of the same user are interchangeable.
SameUser == Permutations({p1, p2})
=============================================================================
