---------------------------- MODULE IdAllocator ----------------------------
(***************************************************************************)
(* What a pool of N numbered objects promises its callers: an id that is   *)
(* given out is not in use, and a request fails only when all are.         *)
(***************************************************************************)
EXTENDS Integers

CONSTANT N
VARIABLES used, result

Ids  == 0 .. N - 1
NoId == -1

Init == used = {} /\ result = NoId

Allocate ==
  \E id \in Ids \ used : used' = used \cup {id} /\ result' = id

Refuse == used = Ids /\ result' = NoId /\ UNCHANGED used

Release(id) == used' = used \ {id} /\ UNCHANGED result

ReleaseAll == used' = {} /\ UNCHANGED result

Next == Allocate \/ Refuse \/ (\E id \in Ids : Release(id)) \/ ReleaseAll

Spec == Init /\ [][Next]_<<used, result>>
=============================================================================
