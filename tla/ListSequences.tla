--------------------------- MODULE ListSequences ---------------------------
(***************************************************************************)
(* What a family of intrusive lists promises: each list is a sequence, an  *)
(* object is added at the end, and removing one returns its successor.     *)
(***************************************************************************)
EXTENDS Integers, Sequences

CONSTANTS Objects, Lists, None
VARIABLES q, ret

InList(l, o) == \E i \in 1 .. Len(q[l]) : q[l][i] = o

\* The object after o, null after the last one.
After(s, o) ==
  LET at == {i \in 1 .. Len(s) - 1 : s[i] = o}
  IN IF at = {} THEN None ELSE s[(CHOOSE i \in at : TRUE) + 1]

\* s without o, which is in it once.
Dropped(s, o) ==
  LET at == CHOOSE i \in 1 .. Len(s) : s[i] = o
  IN [i \in 1 .. Len(s) - 1 |-> IF i < at THEN s[i] ELSE s[i + 1]]

Init == q = [l \in Lists |-> <<>>] /\ ret = None

Add(l, o) ==
  /\ \A k \in Lists : ~InList(k, o)
  /\ q' = [q EXCEPT ![l] = Append(@, o)]
  /\ UNCHANGED ret

Remove(l, o) ==
  /\ InList(l, o)
  /\ ret' = After(q[l], o)
  /\ q' = [q EXCEPT ![l] = Dropped(@, o)]

Next == \E l \in Lists, o \in Objects : Add(l, o) \/ Remove(l, o)

Spec == Init /\ [][Next]_<<q, ret>>
=============================================================================
