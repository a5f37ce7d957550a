-------------------------- MODULE FixedObjectPool --------------------------
(***************************************************************************)
(* core::FixedObjectPool: a fixed array of objects, a stack of the free    *)
(* ids and a flag per id.  The game object manager takes its objects from  *)
(* it.  IdAllocator says what it promises.                                 *)
(***************************************************************************)
EXTENDS Integers, FiniteSets

CONSTANT N   \* the capacity (32768 game objects in the engine)
ASSUME CapacityAssumption == N \in Nat

Ids  == 0 .. N - 1
NoId == -1

VARIABLES
  m_free_count,
  m_free_indices,  \* the free ids are its first m_free_count entries
  m_used,          \* the ids whose flag is set
  result           \* the id the last alloc gave out
vars == <<m_free_count, m_free_indices, m_used, result>>

\* The ids in falling order, so that they are given out in rising order.
Linear == [i \in Ids |-> (N - 1) - i]

Init ==
  /\ m_free_count = N
  /\ m_free_indices = Linear
  /\ m_used = {}
  /\ result = NoId

alloc ==
  /\ m_free_count > 0
  /\ m_free_count' = m_free_count - 1
  /\ result' = m_free_indices[m_free_count - 1]
  /\ m_used' = m_used \cup {m_free_indices[m_free_count - 1]}
  /\ m_free_indices' = [m_free_indices EXCEPT ![m_free_count - 1] = NoId]

\* Mutant of allocFail: one id is kept back.
allocFailEarly ==
  /\ m_free_count <= 1
  /\ result' = NoId
  /\ UNCHANGED <<m_free_count, m_free_indices, m_used>>

allocFail ==
  /\ m_free_count = 0
  /\ result' = NoId
  /\ UNCHANGED <<m_free_count, m_free_indices, m_used>>

\* Mutant of free: the flag is not taken back.
freeKeepsFlag(id) ==
  /\ IF id < N /\ id \in m_used
     THEN /\ m_free_indices' = [m_free_indices EXCEPT ![m_free_count] = id]
          /\ m_free_count' = m_free_count + 1
     ELSE UNCHANGED <<m_free_indices, m_free_count>>
  /\ UNCHANGED <<m_used, result>>

\* An id out of range, or one that is free already, is ignored.
free(id) ==
  /\ IF id < N /\ id \in m_used
     THEN /\ m_used' = m_used \ {id}
          /\ m_free_indices' = [m_free_indices EXCEPT ![m_free_count] = id]
          /\ m_free_count' = m_free_count + 1
     ELSE UNCHANGED <<m_used, m_free_indices, m_free_count>>
  /\ UNCHANGED result

clear ==
  /\ m_free_count' = N
  /\ m_free_indices' = Linear
  /\ m_used' = {}
  /\ UNCHANGED result

\* Callers may pass any number as an id; N stands for those out of range.
Next == alloc \/ allocFail \/ (\E id \in 0 .. N : free(id)) \/ clear

Spec == Init /\ [][Next]_vars

-----------------------------------------------------------------------------
\* Types; the stack never grows beyond the array.
TypeOK ==
  /\ m_free_count \in 0 .. N
  /\ m_free_indices \in [Ids -> Ids \cup {NoId}]
  /\ m_used \in SUBSET Ids
  /\ result \in Ids \cup {NoId}

\* After any sequence of calls the entries below m_free_count are exactly the
\* unused ids, and none is there twice. (The run has the calls of the manager;
\* double and foreign frees are covered by the theorems.)
StackIsFreeIds ==
  /\ \A i \in 0 .. m_free_count - 1 : m_free_indices[i] \in Ids \ m_used
  /\ \A i, k \in 0 .. m_free_count - 1 : m_free_indices[i] = m_free_indices[k] => i = k
  /\ \A id \in Ids \ m_used : \E i \in 0 .. m_free_count - 1 : m_free_indices[i] = id

\* size() is the number of objects in use.
SizeIsUsed == m_free_count + Cardinality(m_used) = N

IndInv == TypeOK /\ StackIsFreeIds /\ SizeIsUsed

\* The stack gives out what IdAllocator may give out, and fails only when
\* every id is in use.
Allocator == INSTANCE IdAllocator WITH used <- m_used
AllocatorSpec == Allocator!Spec
=============================================================================
