----------------------------- MODULE LossyQueue -----------------------------
(***************************************************************************)
(* What the queue between the threads of a player promises: an offered     *)
(* action is put into the queue or lost, and what is put in comes out once *)
(* and in order.  Actions are lost only when the queue is full, or full    *)
(* but for the place the receiver is about to give back.                   *)
(***************************************************************************)
EXTENDS Naturals, Sequences

CONSTANTS Size, Values, Exit

VARIABLES
  pending,  \* how many actions are offered and neither put in nor lost
  q,        \* the actions that can be received
  got,      \* the last one received
  stopping  \* the receiver was asked to stop
vars == <<pending, q, got, stopping>>

Init == pending = 0 /\ q = <<>> /\ got = Exit /\ stopping = FALSE

Offer == pending' = pending + 1 /\ UNCHANGED <<q, got, stopping>>

Put(a) ==
  /\ pending > 0 /\ Len(q) < Size
  /\ pending' = pending - 1 /\ q' = Append(q, a)
  /\ UNCHANGED <<got, stopping>>

Lose ==
  /\ pending > 0 /\ Len(q) >= Size - 1
  /\ pending' = pending - 1
  /\ UNCHANGED <<q, got, stopping>>

Get  == q # <<>> /\ got' = Head(q) /\ q' = Tail(q) /\ UNCHANGED <<pending, stopping>>

Ask  == stopping' = TRUE /\ UNCHANGED <<pending, q, got>>
Stop == stopping /\ got' = Exit /\ UNCHANGED <<pending, q, stopping>>

Next == Offer \/ (\E a \in Values : Put(a)) \/ Lose \/ Get \/ Ask \/ Stop

Spec == Init /\ [][Next]_vars
=============================================================================
