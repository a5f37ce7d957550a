----------------------------- MODULE JobService -----------------------------
(***************************************************************************)
(* What the asynchronous loader promises the scripts: each job gets one    *)
(* outcome and keeps it, jobs of one kind are done in the order in which   *)
(* they were submitted, and a job that was asked to end while it was       *)
(* pending ends as cancelled.                                              *)
(***************************************************************************)
EXTENDS Integers

CONSTANT Jobs   \* numbered in the order of their submission
VARIABLES
  outcome,   \* of each job: none before it is submitted, pending until it ends
  asked,     \* the pending jobs somebody cancelled
  resources  \* the jobs that make a resource; the others read a file

Kept(j) == outcome[j] = "pending" /\ j \notin asked

Init == outcome = [j \in Jobs |-> "none"] /\ asked = {} /\ resources = {}

\* A job that cannot be taken has failed from the start.
Submit(j) ==
  /\ \A k \in Jobs : outcome[k] = "none" <=> k >= j
  /\ \E s \in {"pending", "Failed"} : outcome' = [outcome EXCEPT ![j] = s]
  /\ resources' \in {resources, resources \cup {j}}
  /\ UNCHANGED asked

\* Some of the cancelled jobs end at once, the others when their turn comes.
Cancel(S) ==
  LET pending == {j \in S : outcome[j] = "pending"}
  IN /\ asked' = asked \cup pending
     /\ \E T \in SUBSET pending :
          outcome' = [j \in Jobs |-> IF j \in T THEN "Cancelled" ELSE outcome[j]]
     /\ UNCHANGED resources

Done(j) ==
  /\ Kept(j)
  /\ \A k \in Jobs : Kept(k) /\ (k \in resources <=> j \in resources) => k >= j
  /\ outcome' = [outcome EXCEPT ![j] = "Done"]
  /\ UNCHANGED <<asked, resources>>

Fail(j) ==
  /\ Kept(j)
  /\ outcome' = [outcome EXCEPT ![j] = "Failed"]
  /\ UNCHANGED <<asked, resources>>

Drop(j) ==
  /\ outcome[j] = "pending" /\ j \in asked
  /\ outcome' = [outcome EXCEPT ![j] = "Cancelled"]
  /\ UNCHANGED <<asked, resources>>

Next == \/ \E j \in Jobs : Submit(j) \/ Done(j) \/ Fail(j) \/ Drop(j)
        \/ \E S \in SUBSET Jobs : Cancel(S)

Spec == Init /\ [][Next]_<<outcome, asked, resources>>
=============================================================================
