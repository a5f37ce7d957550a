------------------------ MODULE GameObjectLinkedList ------------------------
(***************************************************************************)
(* The intrusive doubly linked lists of the game object manager: the       *)
(* update list is one list, the detect lists are one per group and share   *)
(* the link fields of the objects.  ListSequences says what they promise.  *)
(***************************************************************************)
EXTENDS Integers, Sequences, FiniteSets

CONSTANTS
  Objects,
  Lists,   \* the lists that share one pair of link fields
  None     \* the null pointer

VARIABLES
  m_first, m_last,  \* of each list
  previous, next,   \* the link fields of each object
  where,            \* the list the manager has put an object in
  ret               \* what the last remove returned
vars == <<m_first, m_last, previous, next, where, ret>>

Pointers == Objects \cup {None}

\* GameObject::Reset clears the links before an object is first added.
Init ==
  /\ m_first = [l \in Lists |-> None] /\ m_last = [l \in Lists |-> None]
  /\ previous = [o \in Objects |-> None] /\ next = [o \in Objects |-> None]
  /\ where = [o \in Objects |-> None]
  /\ ret = None

empty(l) == m_first[l] = None /\ m_last[l] = None

\* An added object's own next link is not written when the list is not empty.
add(l, o) ==
  /\ where[o] = None
  /\ where' = [where EXCEPT ![o] = l]
  /\ m_last' = [m_last EXCEPT ![l] = o]
  /\ IF empty(l)
     THEN /\ m_first' = [m_first EXCEPT ![l] = o]
          /\ previous' = [previous EXCEPT ![o] = None]
          /\ next' = [next EXCEPT ![o] = None]
     ELSE /\ next' = [next EXCEPT ![m_last[l]] = o]
          /\ previous' = [previous EXCEPT ![o] = m_last[l]]
          /\ UNCHANGED m_first
  /\ UNCHANGED ret

IsSole(l, o) == m_first[l] = o /\ m_last[l] = o

\* Mutant of removeOther: the links of the removed object stay.
removeKeepsLinks(l, o) ==
  LET p == previous[o]
      n == next[o]
  IN /\ next' = [x \in Objects |-> IF x = p THEN n ELSE next[x]]
     /\ previous' = [x \in Objects |-> IF x = n THEN p ELSE previous[x]]
     /\ m_first' = [m_first EXCEPT ![l] = IF @ = o THEN n ELSE @]
     /\ m_last' = [m_last EXCEPT ![l] = IF @ = o THEN p ELSE @]
     /\ ret' = n

\* remove of an object that is not the only one.
removeOther(l, o) ==
  LET p == previous[o]
      n == next[o]
  IN /\ next' = [x \in Objects |-> IF x = o THEN None ELSE IF x = p THEN n ELSE next[x]]
     /\ previous' = [x \in Objects |-> IF x = o THEN None ELSE IF x = n THEN p ELSE previous[x]]
     /\ m_first' = [m_first EXCEPT ![l] = IF @ = o THEN n ELSE @]
     /\ m_last' = [m_last EXCEPT ![l] = IF @ = o THEN p ELSE @]
     /\ ret' = n

\* The only object of a list takes its links along as they are.
remove(l, o) ==
  /\ where[o] = l
  /\ where' = [where EXCEPT ![o] = None]
  /\ IF IsSole(l, o)
     THEN /\ m_first' = [m_first EXCEPT ![l] = None]
          /\ m_last' = [m_last EXCEPT ![l] = None]
          /\ ret' = None
          /\ UNCHANGED <<previous, next>>
     ELSE removeOther(l, o)

\* The objects met from o on along the links f; they stop after as many steps
\* as there are objects, should the links run in a circle.
Chain(f, o) ==
  LET n == Cardinality(Objects)
      at[i \in 1 .. n] == IF i = 1 THEN o ELSE IF at[i - 1] = None THEN None ELSE f[at[i - 1]]
  IN [i \in 1 .. Cardinality({k \in 1 .. n : at[k] # None}) |-> at[i]]

\* clear: unlinks the objects and leaves m_first and m_last as they are.  The
\* manager calls it in ResetPool, when every object has been removed.
clear(l) ==
  LET members == {Chain(next, m_first[l])[i] : i \in 1 .. Len(Chain(next, m_first[l]))}
  IN /\ \A o \in Objects : where[o] = None
     /\ next' = [o \in Objects |-> IF o \in members THEN None ELSE next[o]]
     /\ previous' = [o \in Objects |-> IF o \in members THEN None ELSE previous[o]]
     /\ UNCHANGED <<m_first, m_last, where, ret>>

Next ==
  \E l \in Lists : clear(l) \/ \E o \in Objects : add(l, o) \/ remove(l, o)

Spec == Init /\ [][Next]_vars

-----------------------------------------------------------------------------
\* Types of the pointers.
TypeOK ==
  /\ m_first \in [Lists -> Pointers] /\ m_last \in [Lists -> Pointers]
  /\ previous \in [Objects -> Pointers] /\ next \in [Objects -> Pointers]
  /\ where \in [Objects -> Lists \cup {None}] /\ ret \in Pointers

\* The first object of a list is the one without a previous one, the last the
\* one without a next one; any two neighbours name each other and are in the
\* same list: no link leads into another list.
LinksAgree ==
  /\ \A l \in Lists :
       /\ m_first[l] = None <=> m_last[l] = None
       /\ m_first[l] # None => where[m_first[l]] = l /\ where[m_last[l]] = l
  /\ \A o \in Objects : where[o] # None =>
       /\ IF m_first[where[o]] = o
          THEN previous[o] = None
          ELSE /\ previous[o] # None
               /\ where[previous[o]] = where[o] /\ next[previous[o]] = o
       /\ IF m_last[where[o]] = o
          THEN next[o] = None
          ELSE /\ next[o] # None
               /\ where[next[o]] = where[o] /\ previous[next[o]] = o

\* An object that is in no list has no links (add relies on it, and a walk
\* that stands on a removed object ends), and neither has the only object of a
\* list (remove asserts it).
NoStaleLinks ==
  \A o \in Objects :
    where[o] = None \/ (\E l \in Lists : IsSole(l, o))
      => previous[o] = None /\ next[o] = None

\* The pointers implement sequences.
AsSequences == INSTANCE ListSequences WITH q <- [l \in Lists |-> Chain(next, m_first[l])]
SequencesSpec == AsSequences!Spec
=============================================================================
