--------------------- MODULE GameObjectLinkedListProofs ---------------------
(* Proofs that the intrusive lists keep their links straight, for any       *)
(* number of objects and of lists that share link fields, and that they     *)
(* implement sequences.                                                     *)
EXTENDS GameObjectLinkedList, FiniteSetTheorems, WellFoundedInduction, TLAPS

NullIsNothing == None \notin Objects /\ None \notin Lists

ListInv == TypeOK /\ LinksAgree /\ NoStaleLinks

LEMMA InitList ==
  ASSUME NullIsNothing, Init
  PROVE  ListInv
<1>1. TypeOK
  BY DEF Init, TypeOK, Pointers
<1>2. LinksAgree
  BY NullIsNothing DEF Init, LinksAgree, NullIsNothing
<1>3. NoStaleLinks
  BY DEF Init, NoStaleLinks
<1> QED BY <1>1, <1>2, <1>3 DEF ListInv

\* An object that is in no list can be added to any.
LEMMA AddKeeps ==
  ASSUME NullIsNothing, ListInv, NEW l \in Lists, NEW o \in Objects, add(l, o)
  PROVE  ListInv'
<1> USE DEF NullIsNothing
<1>0. TypeOK /\ LinksAgree /\ NoStaleLinks /\ where[o] = None
  BY DEF ListInv, add
<1>1. previous[o] = None /\ next[o] = None
  BY <1>0 DEF NoStaleLinks
<1>2. CASE empty(l)
  <2>1. /\ where' = [where EXCEPT ![o] = l] /\ m_last' = [m_last EXCEPT ![l] = o]
        /\ m_first' = [m_first EXCEPT ![l] = o]
        /\ previous' = [previous EXCEPT ![o] = None] /\ next' = [next EXCEPT ![o] = None]
        /\ ret' = ret /\ m_first[l] = None /\ m_last[l] = None
    BY <1>2 DEF add, empty
  <2>2. TypeOK'
    BY <1>0, <2>1 DEF TypeOK, Pointers
  <2>3. LinksAgree'
    BY <1>0, <1>1, <2>1 DEF TypeOK, Pointers, LinksAgree
  <2>4. NoStaleLinks'
    BY <1>0, <1>1, <2>1 DEF TypeOK, Pointers, LinksAgree, NoStaleLinks, IsSole
  <2> QED BY <2>2, <2>3, <2>4 DEF ListInv
<1>3. CASE ~empty(l)
  <2> DEFINE t == m_last[l]
  <2>1. /\ where' = [where EXCEPT ![o] = l] /\ m_last' = [m_last EXCEPT ![l] = o]
        /\ m_first' = m_first /\ previous' = [previous EXCEPT ![o] = t]
        /\ next' = [next EXCEPT ![t] = o] /\ ret' = ret
    BY <1>3 DEF add
  <2>2. t \in Objects /\ where[t] = l /\ t # o /\ m_first[l] # None
    BY <1>0, <1>3 DEF TypeOK, Pointers, LinksAgree, empty
  <2> HIDE DEF t
  <2>3. TypeOK'
    BY <1>0, <2>1, <2>2 DEF TypeOK, Pointers
  <2>4. LinksAgree'
    BY <1>0, <1>1, <2>1, <2>2 DEF TypeOK, Pointers, LinksAgree, t
  <2>5. NoStaleLinks'
    BY <1>0, <1>1, <2>1, <2>2 DEF TypeOK, Pointers, LinksAgree, NoStaleLinks, IsSole, t
  <2> QED BY <2>3, <2>4, <2>5 DEF ListInv
<1> QED BY <1>2, <1>3

\* Removing an object closes the gap, wherever in its list it is.
LEMMA RemoveKeeps ==
  ASSUME NullIsNothing, ListInv, NEW l \in Lists, NEW o \in Objects, remove(l, o)
  PROVE  ListInv'
<1> USE DEF NullIsNothing
<1>0. TypeOK /\ LinksAgree /\ NoStaleLinks /\ where[o] = l
      /\ where' = [where EXCEPT ![o] = None]
  BY DEF ListInv, remove
<1>1. CASE IsSole(l, o)
  <2>1. /\ m_first' = [m_first EXCEPT ![l] = None] /\ m_last' = [m_last EXCEPT ![l] = None]
        /\ ret' = None /\ previous' = previous /\ next' = next
    BY <1>1 DEF remove
  <2>2. m_first[l] = o /\ m_last[l] = o /\ previous[o] = None /\ next[o] = None
    BY <1>0, <1>1 DEF NoStaleLinks, IsSole
  <2>3. TypeOK'
    BY <1>0, <2>1 DEF TypeOK, Pointers
  <2>4. LinksAgree'
    BY <1>0, <2>1, <2>2 DEF TypeOK, Pointers, LinksAgree
  <2>5. NoStaleLinks'
    BY <1>0, <2>1, <2>2 DEF TypeOK, Pointers, NoStaleLinks, IsSole
  <2> QED BY <2>3, <2>4, <2>5 DEF ListInv
<1>2. CASE ~IsSole(l, o)
  <2> DEFINE p == previous[o]
             n == next[o]
  <2>1. /\ next' = [x \in Objects |-> IF x = o THEN None ELSE IF x = p THEN n ELSE next[x]]
        /\ previous' = [x \in Objects |-> IF x = o THEN None ELSE IF x = n THEN p ELSE previous[x]]
        /\ m_first' = [m_first EXCEPT ![l] = IF @ = o THEN n ELSE @]
        /\ m_last' = [m_last EXCEPT ![l] = IF @ = o THEN p ELSE @]
        /\ ret' = n
    BY <1>2 DEF remove, removeOther
  <2>2. /\ p \in Pointers /\ n \in Pointers
        /\ IF m_first[l] = o THEN p = None
           ELSE p \in Objects /\ where[p] = l /\ next[p] = o
        /\ IF m_last[l] = o THEN n = None
           ELSE n \in Objects /\ where[n] = l /\ previous[n] = o
        /\ ~(m_first[l] = o /\ m_last[l] = o)
    BY <1>0, <1>2 DEF TypeOK, Pointers, LinksAgree, IsSole
  <2> HIDE DEF p, n
  <2>3. p = o <=> n = o
    BY <1>0, <2>2 DEF TypeOK, Pointers, LinksAgree, p, n
  <2>4. TypeOK'
    BY <1>0, <2>1, <2>2 DEF TypeOK, Pointers
  <2>5. LinksAgree'
    BY <1>0, <2>1, <2>2, <2>3 DEF TypeOK, Pointers, LinksAgree, p, n
  <2>6. NoStaleLinks'
    BY <1>0, <2>1, <2>2, <2>3 DEF TypeOK, Pointers, LinksAgree, NoStaleLinks, IsSole, p, n
  <2> QED BY <2>4, <2>5, <2>6 DEF ListInv
<1> QED BY <1>1, <1>2

\* Where no object is in a list, every pointer is null.
LEMMA NothingLinked ==
  ASSUME NullIsNothing, ListInv, \A o \in Objects : where[o] = None
  PROVE  /\ \A l \in Lists : m_first[l] = None /\ m_last[l] = None
         /\ \A o \in Objects : previous[o] = None /\ next[o] = None
BY DEF ListInv, TypeOK, Pointers, LinksAgree, NoStaleLinks, NullIsNothing

\* clear is called when all lists are empty, and then changes nothing.
LEMMA ClearKeeps ==
  ASSUME NullIsNothing, ListInv, NEW l \in Lists, clear(l)
  PROVE  ListInv' /\ UNCHANGED <<m_first, m_last, previous, next, where, ret>>
<1> DEFINE members == {Chain(next, m_first[l])[i] : i \in 1 .. Len(Chain(next, m_first[l]))}
<1>1. /\ \A o \in Objects : where[o] = None
      /\ next' = [o \in Objects |-> IF o \in members THEN None ELSE next[o]]
      /\ previous' = [o \in Objects |-> IF o \in members THEN None ELSE previous[o]]
      /\ UNCHANGED <<m_first, m_last, where, ret>>
  BY DEF clear
<1> HIDE DEF members
<1>2. \A o \in Objects : previous[o] = None /\ next[o] = None
  BY <1>1, NothingLinked
<1>3. next' = next /\ previous' = previous
  BY <1>1, <1>2 DEF ListInv, TypeOK
<1> QED BY <1>1, <1>3 DEF ListInv, TypeOK, LinksAgree, NoStaleLinks, IsSole

LEMMA ListStep == NullIsNothing /\ ListInv /\ [Next]_vars => ListInv'
<1> SUFFICES ASSUME NullIsNothing, ListInv, [Next]_vars PROVE ListInv'
  OBVIOUS
<1>1. CASE UNCHANGED vars
  BY <1>1 DEF vars, ListInv, TypeOK, LinksAgree, NoStaleLinks, IsSole
<1>2. ASSUME NEW l \in Lists, clear(l) PROVE ListInv'
  BY <1>2, ClearKeeps
<1>3. ASSUME NEW l \in Lists, NEW o \in Objects, add(l, o) PROVE ListInv'
  BY <1>3, AddKeeps
<1>4. ASSUME NEW l \in Lists, NEW o \in Objects, remove(l, o) PROVE ListInv'
  BY <1>4, RemoveKeeps
<1> QED BY <1>1, <1>2, <1>3, <1>4 DEF Next

\* GameObjectLinkedList: however objects are added, removed and moved between
\* lists, neighbours name each other and no link is left behind.
THEOREM LinksStayExact == NullIsNothing /\ Spec => [](LinksAgree /\ NoStaleLinks)
<1>1. NullIsNothing /\ Init => ListInv
  BY InitList
<1>2. ListInv => LinksAgree /\ NoStaleLinks
  BY DEF ListInv
<1>3. NullIsNothing => NullIsNothing'
  BY DEF NullIsNothing
<1> QED BY <1>1, <1>2, <1>3, ListStep, PTL DEF Spec

-----------------------------------------------------------------------------
(* The sequence a list is. *)

\* A set of numbers has a smallest one.
LEMMA SmallestNumber ==
  ASSUME NEW T, T \subseteq Nat, T # {}
  PROVE  \E x \in T : \A y \in T : x <= y
<1> DEFINE R == {p \in Nat \X Nat : p[1] < p[2]}
<1>1. IsWellFoundedOn(R, Nat)
  <2>1. R = OpToRel(<, Nat)
    BY DEF OpToRel
  <2> QED BY <2>1, NatLessThanWellFounded, Zenon
<1>2. PICK x \in T : \A y \in T : ~(<<y, x>> \in R)
  BY <1>1, WFMin
<1>3. ASSUME NEW y \in T PROVE x <= y
  <2>1. x \in Nat /\ y \in Nat /\ ~(<<y, x>> \in R)
    BY <1>2
  <2>2. <<y, x>> \in Nat \X Nat /\ <<y, x>>[1] = y /\ <<y, x>>[2] = x
    BY <2>1
  <2>3. ~(<<y, x>>[1] < <<y, x>>[2])
    BY <2>1, <2>2
  <2> QED BY <2>1, <2>2, <2>3
<1> QED BY <1>3

\* s names objects, each once.
Distinct(s) == s \in Seq(Objects) /\ \A i, j \in 1 .. Len(s) : s[i] = s[j] => i = j

\* The links f lead along s, and end where it ends.
Leads(f, s) == \A i \in 1 .. Len(s) : f[s[i]] = IF i < Len(s) THEN s[i + 1] ELSE None

Head1(s) == IF s = <<>> THEN None ELSE s[1]

\* No list can be longer than there are objects.
LEMMA NotLonger ==
  ASSUME IsFiniteSet(Objects), NEW s, Distinct(s)
  PROVE  Len(s) \in Nat /\ Cardinality(Objects) \in Nat /\ Len(s) <= Cardinality(Objects)
<1>1. Len(s) \in Nat /\ s \in [1 .. Len(s) -> Objects]
  BY DEF Distinct
<1>2. s \in Injection(1 .. Len(s), Objects)
  BY <1>1 DEF Distinct, Injection, IsInjective
<1>3. IsFiniteSet(1 .. Len(s)) /\ Cardinality(1 .. Len(s)) = Len(s)
  <2>1. 1 \in Int /\ Len(s) \in Int
    BY <1>1
  <2>2. /\ IsFiniteSet(1 .. Len(s))
        /\ Cardinality(1 .. Len(s)) = IF 1 > Len(s) THEN 0 ELSE Len(s) - 1 + 1
    BY <2>1, FS_Interval
  <2> QED BY <1>1, <2>2
<1>4. Cardinality(1 .. Len(s)) <= Cardinality(Objects)
  BY <1>2, FS_Injection DEF ExistsInjection
<1> QED BY <1>1, <1>3, <1>4, FS_CardinalityType

\* Following the links from the first object gives the sequence they lead along.
LEMMA ChainIs ==
  ASSUME IsFiniteSet(Objects), None \notin Objects, NEW f, NEW s, Distinct(s), Leads(f, s)
  PROVE  Chain(f, Head1(s)) = s
<1> DEFINE n == Cardinality(Objects)
           o == Head1(s)
           Follows(at) == at = [i \in 1 .. n |-> IF i = 1 THEN o
                                                 ELSE IF at[i - 1] = None THEN None
                                                 ELSE f[at[i - 1]]]
           h == [i \in 1 .. n |-> IF i <= Len(s) THEN s[i] ELSE None]
<1>1. Len(s) \in Nat /\ n \in Nat /\ Len(s) <= n /\ \A i \in 1 .. Len(s) : s[i] \in Objects
  BY NotLonger DEF Distinct
<1> HIDE DEF n
<1>2. Follows(h)
  <2> SUFFICES ASSUME NEW i \in 1 .. n
               PROVE  h[i] = IF i = 1 THEN o ELSE IF h[i - 1] = None THEN None ELSE f[h[i - 1]]
    OBVIOUS
  <2>1. CASE i = 1
    <3>1. s = <<>> <=> Len(s) = 0
      BY DEF Distinct
    <3> QED BY <1>1, <2>1, <3>1 DEF Head1
  <2>2. CASE i # 1
    <3>1. i - 1 \in 1 .. n /\ i - 1 + 1 = i
      BY <1>1, <2>2
    <3>2. h[i] = IF i <= Len(s) THEN s[i] ELSE None
      BY <1>1
    <3>3. h[i - 1] = IF i - 1 <= Len(s) THEN s[i - 1] ELSE None
      BY <1>1, <3>1
    <3>4. CASE i - 1 <= Len(s)
      <4>1. i - 1 \in 1 .. Len(s) /\ h[i - 1] = s[i - 1] /\ h[i - 1] # None
        BY <1>1, <3>1, <3>3, <3>4
      <4>2. f[h[i - 1]] = IF i - 1 < Len(s) THEN s[i] ELSE None
        BY <3>1, <4>1 DEF Leads
      <4>3. i - 1 < Len(s) <=> i <= Len(s)
        BY <1>1
      <4> QED BY <2>2, <3>2, <4>1, <4>2, <4>3
    <3>5. CASE ~(i - 1 <= Len(s))
      BY <1>1, <2>2, <3>2, <3>3, <3>5
    <3> QED BY <3>4, <3>5
  <2> QED BY <2>1, <2>2
<1>3. PICK at : at = CHOOSE x : Follows(x)
  OBVIOUS
<1>4. Follows(at)
  BY <1>2, <1>3
<1>5. Chain(f, o) = [i \in 1 .. Cardinality({k \in 1 .. n : at[k] # None}) |-> at[i]]
  BY <1>3 DEF Chain, n
<1>6. at = h
  <2> DEFINE D == {i \in 1 .. n : at[i] # h[i]}
  <2>1. D = {}
    <3> SUFFICES ASSUME D # {} PROVE FALSE
      OBVIOUS
    <3>1. D \subseteq Nat
      OBVIOUS
    <3>2. PICK m \in D : \A y \in D : m <= y
      BY <3>1, SmallestNumber
    <3>3. m \in 1 .. n /\ at[m] # h[m]
      OBVIOUS
    <3>4. /\ at[m] = IF m = 1 THEN o ELSE IF at[m - 1] = None THEN None ELSE f[at[m - 1]]
      BY <1>4, <3>3
    <3>5. /\ h[m] = IF m = 1 THEN o ELSE IF h[m - 1] = None THEN None ELSE f[h[m - 1]]
      BY <1>2, <3>3
    <3>6. m # 1
      BY <3>3, <3>4, <3>5
    <3>7. m - 1 \in 1 .. n /\ ~(m <= m - 1)
      BY <1>1, <3>3, <3>6
    <3>8. at[m - 1] = h[m - 1]
      BY <3>2, <3>7
    <3> HIDE DEF h
    <3> QED BY <3>3, <3>4, <3>5, <3>6, <3>8
  <2>2. DOMAIN at = 1 .. n /\ at = [i \in 1 .. n |-> at[i]]
    BY <1>4
  <2> QED BY <2>1, <2>2
<1>7. {k \in 1 .. n : at[k] # None} = 1 .. Len(s)
  BY <1>1, <1>6
<1>8. Cardinality(1 .. Len(s)) = Len(s)
  <2>1. 1 \in Int /\ Len(s) \in Int
    BY <1>1
  <2>2. Cardinality(1 .. Len(s)) = IF 1 > Len(s) THEN 0 ELSE Len(s) - 1 + 1
    BY <2>1, FS_Interval
  <2> QED BY <1>1, <2>2
<1>9. Chain(f, o) = [i \in 1 .. Len(s) |-> s[i]]
  <2>1. \A i \in 1 .. Len(s) : at[i] = s[i]
    BY <1>1, <1>6
  <2> QED BY <1>5, <1>7, <1>8, <2>1
<1> QED BY <1>9 DEF Distinct

\* List l, given the first objects, the next links and the places, is s.
Threads(s, l, first, nxt, wh) ==
  /\ Distinct(s) /\ Leads(nxt, s) /\ first[l] = Head1(s)
  /\ \A o \in Objects : wh[o] = l <=> \E i \in 1 .. Len(s) : s[i] = o

\* What AsSequences takes a list for.
Contents(l) == Chain(next, m_first[l])

SeqInv == \A l \in Lists : Threads(Contents(l), l, m_first, next, where)

LEMMA ThreadsContents ==
  ASSUME IsFiniteSet(Objects), NullIsNothing,
         NEW l, NEW s, NEW first, NEW nxt, NEW wh, Threads(s, l, first, nxt, wh)
  PROVE  Chain(nxt, first[l]) = s
BY ChainIs DEF Threads, NullIsNothing

\* A list whose objects keep their next links is what it was.
LEMMA OthersStay ==
  ASSUME SeqInv, NEW k \in Lists, m_first'[k] = m_first[k],
         \A x \in Objects : /\ where'[x] = k <=> where[x] = k
                            /\ where[x] = k => next'[x] = next[x]
  PROVE  Threads(Contents(k), k, m_first', next', where')
<1> DEFINE s == Contents(k)
<1>1. /\ Distinct(s) /\ Leads(next, s) /\ m_first[k] = Head1(s)
      /\ \A o \in Objects : where[o] = k <=> \E i \in 1 .. Len(s) : s[i] = o
  BY DEF SeqInv, Threads
<1> HIDE DEF s
<1>2. \A i \in 1 .. Len(s) : s[i] \in Objects /\ next'[s[i]] = next[s[i]]
  BY <1>1 DEF Distinct
<1>3. Leads(next', s)
  BY <1>1, <1>2 DEF Leads
<1>4. Threads(s, k, m_first', next', where')
  BY <1>1, <1>3 DEF Threads
<1> QED BY <1>4 DEF s

\* The last object of a list is the end of its sequence.
LEMMA LastIs ==
  ASSUME NullIsNothing, ListInv, SeqInv, NEW l \in Lists
  PROVE  /\ Contents(l) = <<>> <=> m_first[l] = None
         /\ Contents(l) # <<>> => /\ Len(Contents(l)) \in 1 .. Len(Contents(l))
                                  /\ m_last[l] = Contents(l)[Len(Contents(l))]
<1> DEFINE s == Contents(l)
<1>1. /\ Distinct(s) /\ Leads(next, s) /\ m_first[l] = Head1(s)
      /\ \A o \in Objects : where[o] = l <=> \E i \in 1 .. Len(s) : s[i] = o
  BY DEF SeqInv, Threads
<1> HIDE DEF s
<1>2. /\ Len(s) \in Nat /\ \A i \in 1 .. Len(s) : s[i] \in Objects
      /\ s = <<>> <=> Len(s) = 0
  BY <1>1 DEF Distinct
<1>3. s = <<>> <=> m_first[l] = None
  BY <1>1, <1>2 DEF Head1, NullIsNothing
<1>4. ASSUME s # <<>> PROVE Len(s) \in 1 .. Len(s) /\ m_last[l] = s[Len(s)]
  <2>1. Len(s) \in 1 .. Len(s)
    BY <1>2, <1>4
  <2>2. /\ s[Len(s)] \in Objects /\ where[s[Len(s)]] = l
    BY <1>1, <1>2, <2>1
  <2>3. next[s[Len(s)]] = None
    BY <1>1, <1>2, <2>1 DEF Leads
  <2> QED BY <2>1, <2>2, <2>3 DEF ListInv, LinksAgree, NullIsNothing
<1> QED BY <1>3, <1>4 DEF s

\* add puts an object at the end of the sequence, and touches no other list.
LEMMA AddThreads ==
  ASSUME IsFiniteSet(Objects), NullIsNothing, ListInv, SeqInv,
         NEW l \in Lists, NEW o \in Objects, add(l, o)
  PROVE  SeqInv' /\ AsSequences!Add(l, o)
<1> DEFINE s == Contents(l)
           t == Append(s, o)
<1>0. /\ Distinct(s) /\ Leads(next, s) /\ m_first[l] = Head1(s)
      /\ \A x \in Objects : where[x] = l <=> \E i \in 1 .. Len(s) : s[i] = x
  BY DEF SeqInv, Threads
<1>1. /\ where[o] = None /\ where' = [where EXCEPT ![o] = l] /\ ret' = ret
      /\ where \in [Objects -> Lists \cup {None}] /\ next \in [Objects -> Pointers]
      /\ m_first \in [Lists -> Pointers] /\ None \notin Objects /\ None \notin Lists
      /\ next[o] = None
  BY DEF add, ListInv, TypeOK, NoStaleLinks, NullIsNothing
<1>2. /\ s = <<>> <=> m_first[l] = None
      /\ s # <<>> => Len(s) \in 1 .. Len(s) /\ m_last[l] = s[Len(s)]
  BY LastIs
<1> HIDE DEF s
<1>3. /\ Len(s) \in Nat /\ \A i \in 1 .. Len(s) : s[i] \in Objects /\ s[i] # o
      /\ s = <<>> <=> Len(s) = 0 
      /\ s \in Seq(Objects) /\ \A i, j \in 1 .. Len(s) : s[i] = s[j] => i = j
  BY <1>0, <1>1 DEF Distinct
<1>4. /\ t \in Seq(Objects) /\ Len(t) = Len(s) + 1 /\ t[Len(s) + 1] = o /\ t # <<>>
      /\ \A i \in 1 .. Len(s) : t[i] = s[i]
  BY <1>3
<1> HIDE DEF t
<1>5. Distinct(t)
  <2> SUFFICES ASSUME NEW i \in 1 .. Len(t), NEW j \in 1 .. Len(t), t[i] = t[j] PROVE i = j
    BY <1>4 DEF Distinct
  <2>1. (i \in 1 .. Len(s) \/ i = Len(s) + 1) /\ (j \in 1 .. Len(s) \/ j = Len(s) + 1)
    BY <1>3, <1>4
  <2> QED BY <1>3, <1>4, <2>1
<1>6. \A x \in Objects : where'[x] = l <=> \E i \in 1 .. Len(t) : t[i] = x
  <2>1. \A i \in 1 .. Len(t) : i \in 1 .. Len(s) \/ i = Len(s) + 1
    BY <1>3, <1>4
  <2>2. Len(s) + 1 \in 1 .. Len(t) /\ \A i \in 1 .. Len(s) : i \in 1 .. Len(t)
    BY <1>3, <1>4
  <2>3. ASSUME NEW x \in Objects, where'[x] = l PROVE \E i \in 1 .. Len(t) : t[i] = x
    <3>1. x = o \/ where[x] = l
      BY <1>1, <2>3
    <3> QED BY <1>0, <1>4, <2>2, <3>1
  <2>4. ASSUME NEW i \in 1 .. Len(t) PROVE where'[t[i]] = l
    <3>1. CASE i = Len(s) + 1
      BY <1>1, <1>4, <3>1
    <3>2. CASE i \in 1 .. Len(s)
      BY <1>0, <1>1, <1>3, <1>4, <3>2
    <3> QED BY <2>1, <3>1, <3>2
  <2> QED BY <2>3, <2>4
<1>7. /\ Leads(next', t) /\ m_first'[l] = Head1(t)
      /\ \A k \in Lists \ {l} : m_first'[k] = m_first[k]
      /\ \A x \in Objects : where[x] # l => next'[x] = next[x]
  <2>1. CASE empty(l)
    <3>1. /\ m_first' = [m_first EXCEPT ![l] = o] /\ next' = [next EXCEPT ![o] = None] /\ s = <<>>
      BY <1>2, <2>1 DEF add, empty
    <3>2. next' = next
      BY <1>1, <3>1
    <3>3. Len(t) = 1 /\ t[1] = o
      BY <1>3, <1>4, <3>1
    <3>4. Leads(next', t) /\ m_first'[l] = Head1(t)
      BY <1>1, <1>4, <3>1, <3>2, <3>3 DEF Leads, Head1
    <3> QED BY <1>1, <3>1, <3>2, <3>4
  <2>2. CASE ~empty(l)
    <3> DEFINE last == m_last[l]
    <3>1. /\ next' = [next EXCEPT ![last] = o] /\ m_first' = m_first
      BY <2>2 DEF add
    <3>2. s # <<>>
      BY <1>2, <2>2 DEF empty, ListInv, LinksAgree
    <3>3. /\ last = s[Len(s)] /\ Len(s) \in 1 .. Len(s) /\ last \in Objects
          /\ where[last] = l /\ last # o
      BY <1>0, <1>2, <1>3, <3>2
    <3> HIDE DEF last
    <3>4. ASSUME NEW i \in 1 .. Len(t)
          PROVE  next'[t[i]] = IF i < Len(t) THEN t[i + 1] ELSE None
      <4>1. CASE i = Len(s) + 1
        BY <1>1, <1>4, <3>1, <3>3, <4>1
      <4>2. CASE i = Len(s)
        BY <1>1, <1>3, <1>4, <3>1, <3>3, <4>2
      <4>3. CASE i # Len(s) + 1 /\ i # Len(s)
        <5>1. i \in 1 .. Len(s) /\ i < Len(s) /\ i + 1 \in 1 .. Len(s) /\ i < Len(t)
          BY <1>3, <1>4, <4>3
        <5>2. t[i] = s[i] /\ t[i + 1] = s[i + 1] /\ s[i] # last /\ s[i] \in Objects
          BY <1>3, <1>4, <3>3, <5>1
        <5>3. next[s[i]] = s[i + 1]
          BY <1>0, <5>1 DEF Leads
        <5> QED BY <1>1, <3>1, <5>1, <5>2, <5>3
      <4> QED BY <4>1, <4>2, <4>3
    <3>5. m_first'[l] = Head1(t)
      BY <1>0, <1>3, <1>4, <3>1, <3>2, <3>3 DEF Head1
    <3> QED BY <1>1, <3>1, <3>3, <3>4, <3>5 DEF Leads
  <2> QED BY <2>1, <2>2
<1>8. Threads(t, l, m_first', next', where')
  BY <1>5, <1>6, <1>7 DEF Threads
<1>9. ASSUME NEW k \in Lists, k # l PROVE Threads(Contents(k), k, m_first', next', where')
  <2>1. \A x \in Objects : where'[x] = k <=> where[x] = k
    BY <1>1, <1>9
  <2>2. \A x \in Objects : where[x] = k => next'[x] = next[x]
    BY <1>7, <1>9
  <2> QED BY <1>7, <1>9, <2>1, <2>2, OthersStay
<1>10. Contents(l)' = t /\ \A k \in Lists : k # l => Contents(k)' = Contents(k)
  BY <1>8, <1>9, ThreadsContents DEF Contents
<1>11. SeqInv'
  BY <1>8, <1>9, <1>10 DEF SeqInv
<1>12. ASSUME NEW k \in Lists PROVE ~AsSequences!InList(k, o)
  BY <1>1 DEF SeqInv, Threads, AsSequences!InList, Contents
<1>13. [k \in Lists |-> Chain(next, m_first[k])]'
         = [[k \in Lists |-> Chain(next, m_first[k])] EXCEPT ![l] = Append(@, o)]
  BY <1>10 DEF Contents, t, s
<1> QED BY <1>1, <1>11, <1>12, <1>13 DEF AsSequences!Add

\* remove takes an object out of the sequence, wherever it is in it, and
\* returns the one after it.
LEMMA RemoveThreads ==
  ASSUME IsFiniteSet(Objects), NullIsNothing, ListInv, SeqInv,
         NEW l \in Lists, NEW o \in Objects, remove(l, o)
  PROVE  SeqInv' /\ AsSequences!Remove(l, o)
<1> DEFINE s == Contents(l)
           at == CHOOSE i \in 1 .. Len(s) : s[i] = o
           t == [i \in 1 .. Len(s) - 1 |-> IF i < at THEN s[i] ELSE s[i + 1]]
<1>0. /\ Distinct(s) /\ Leads(next, s) /\ m_first[l] = Head1(s)
      /\ \A x \in Objects : where[x] = l <=> \E i \in 1 .. Len(s) : s[i] = x
  BY DEF SeqInv, Threads
<1>1. /\ where[o] = l /\ where' = [where EXCEPT ![o] = None]
      /\ where \in [Objects -> Lists \cup {None}] /\ next \in [Objects -> Pointers]
      /\ m_first \in [Lists -> Pointers] /\ None \notin Objects /\ None \notin Lists
  BY DEF remove, ListInv, TypeOK, NullIsNothing
<1>2. s # <<>> => Len(s) \in 1 .. Len(s) /\ m_last[l] = s[Len(s)]
  BY LastIs
<1> HIDE DEF s
<1>3. /\ Len(s) \in Nat /\ \A i \in 1 .. Len(s) : s[i] \in Objects
      /\ s = <<>> <=> Len(s) = 0
      /\ s \in Seq(Objects) /\ \A i, j \in 1 .. Len(s) : s[i] = s[j] => i = j
  BY <1>0 DEF Distinct
<1>4. at \in 1 .. Len(s) /\ s[at] = o
  BY <1>0, <1>1
<1> HIDE DEF at
<1>5. /\ s # <<>> /\ Len(s) - 1 \in Nat /\ m_last[l] = s[Len(s)] /\ m_first[l] = s[1]
      /\ m_first[l] = o <=> at = 1
      /\ m_last[l] = o <=> at = Len(s)
  BY <1>0, <1>2, <1>3, <1>4 DEF Head1
<1>6. /\ t \in Seq(Objects) /\ Len(t) = Len(s) - 1
      /\ \A i \in 1 .. Len(s) - 1 : t[i] = IF i < at THEN s[i] ELSE s[i + 1]
  <2>1. \A i \in 1 .. Len(s) - 1 : i \in 1 .. Len(s) /\ i + 1 \in 1 .. Len(s)
    BY <1>3
  <2>2. \A i \in 1 .. Len(s) - 1 : (IF i < at THEN s[i] ELSE s[i + 1]) \in Objects
    BY <1>3, <2>1
  <2> QED BY <1>5, <2>2
<1> HIDE DEF t
<1>7. Distinct(t)
  <2> SUFFICES ASSUME NEW i \in 1 .. Len(t), NEW j \in 1 .. Len(t), t[i] = t[j] PROVE i = j
    BY <1>6 DEF Distinct
  <2> DEFINE Old(x) == IF x < at THEN x ELSE x + 1
  <2>1. \A x \in 1 .. Len(t) : Old(x) \in 1 .. Len(s) /\ t[x] = s[Old(x)]
    BY <1>3, <1>6
  <2>2. Old(i) = Old(j)
    <3> HIDE DEF Old
    <3> QED BY <1>3, <2>1
  <2> QED BY <1>3, <1>4, <1>6, <2>2
<1>8. \A x \in Objects : where'[x] = l <=> \E i \in 1 .. Len(t) : t[i] = x
  <2>1. ASSUME NEW x \in Objects, where'[x] = l PROVE \E i \in 1 .. Len(t) : t[i] = x
    <3>1. x # o /\ where[x] = l
      BY <1>1, <2>1
    <3>2. PICK i \in 1 .. Len(s) : s[i] = x
      BY <1>0, <3>1
    <3>3. CASE i < at
      BY <1>3, <1>4, <1>6, <3>2, <3>3
    <3>4. CASE ~(i < at)
      <4>1. i # at /\ i - 1 \in 1 .. Len(t) /\ ~(i - 1 < at) /\ i - 1 + 1 = i
        BY <1>3, <1>4, <1>6, <3>1, <3>2, <3>4
      <4>2. t[i - 1] = s[i]
        BY <1>6, <4>1
      <4> QED BY <3>2, <4>1, <4>2
    <3> QED BY <3>3, <3>4
  <2>2. ASSUME NEW i \in 1 .. Len(t) PROVE where'[t[i]] = l
    <3>1. PICK j \in 1 .. Len(s) : t[i] = s[j] /\ j # at
      <4>1. CASE i < at
        BY <1>3, <1>4, <1>6, <4>1
      <4>2. CASE ~(i < at)
        <5>1. i + 1 \in 1 .. Len(s) /\ i + 1 # at
          BY <1>3, <1>4, <1>6, <4>2
        <5> QED BY <1>6, <4>2, <5>1
      <4> QED BY <4>1, <4>2
    <3>2. s[j] \in Objects /\ s[j] # o /\ where[s[j]] = l
      BY <1>0, <1>3, <1>4, <3>1
    <3> QED BY <1>1, <3>1, <3>2
  <2> QED BY <2>1, <2>2
<1>9. /\ next[o] = IF at < Len(s) THEN s[at + 1] ELSE None
      /\ at > 1 => next[s[at - 1]] = o
  <2>1. at > 1 => at - 1 \in 1 .. Len(s) /\ at - 1 < Len(s) /\ at - 1 + 1 = at
    BY <1>3, <1>4
  <2> QED BY <1>0, <1>4, <2>1 DEF Leads
<1>10. previous[o] = IF at = 1 THEN None ELSE s[at - 1]
  <2>1. CASE at = 1
    BY <1>1, <1>5, <2>1 DEF ListInv, LinksAgree
  <2>2. CASE at # 1
    <3>1. at - 1 \in 1 .. Len(s) /\ at > 1
      BY <1>3, <1>4, <2>2
    <3>2. s[at - 1] \in Objects /\ where[s[at - 1]] = l /\ next[s[at - 1]] = o /\ o # None
      BY <1>0, <1>1, <1>3, <1>9, <3>1
    <3>3. previous[o] = s[at - 1]
      BY <1>1, <3>2 DEF ListInv, LinksAgree
    <3> QED BY <2>2, <3>3
  <2> QED BY <2>1, <2>2
<1>11. /\ Leads(next', t) /\ m_first'[l] = Head1(t) /\ ret' = next[o]
       /\ \A k \in Lists \ {l} : m_first'[k] = m_first[k]
       /\ \A x \in Objects : where[x] # l => next'[x] = next[x]
  <2>1. CASE IsSole(l, o)
    <3>1. /\ m_first' = [m_first EXCEPT ![l] = None] /\ ret' = None /\ next' = next
      BY <2>1 DEF remove
    <3>2. Len(s) = 1 /\ next[o] = None
      <4>1. at = 1 /\ at = Len(s)
        BY <1>5, <2>1 DEF IsSole
      <4>2. Len(s) = 1
        BY <4>1
      <4>3. ~(at < Len(s))
        BY <4>1, <4>2
      <4> QED BY <1>9, <4>2, <4>3
    <3>3. t = <<>> /\ Len(t) = 0
      BY <1>6, <3>2
    <3> QED BY <1>1, <3>1, <3>2, <3>3 DEF Leads, Head1
  <2>2. CASE ~IsSole(l, o)
    <3> DEFINE p == previous[o]
               n == next[o]
    <3>1. /\ next' = [x \in Objects |-> IF x = o THEN None ELSE IF x = p THEN n ELSE next[x]]
          /\ m_first' = [m_first EXCEPT ![l] = IF @ = o THEN n ELSE @]
          /\ ret' = n
      BY <2>2 DEF remove, removeOther
    <3>2. p = IF at = 1 THEN None ELSE s[at - 1]
      BY <1>10
    <3>3. n = IF at < Len(s) THEN s[at + 1] ELSE None
      BY <1>9
    <3> HIDE DEF p, n
    <3>4. ASSUME NEW i \in 1 .. Len(t)
          PROVE  next'[t[i]] = IF i < Len(t) THEN t[i + 1] ELSE None
      <4>1. CASE i < at - 1
        <5>1. /\ i \in 1 .. Len(s) /\ at - 1 \in 1 .. Len(s) /\ i # at /\ i # at - 1 /\ i < Len(s)
              /\ i < Len(t) /\ i < at /\ i + 1 < at /\ i + 1 \in 1 .. Len(s) - 1 /\ at # 1
          BY <1>3, <1>4, <1>6, <4>1
        <5>2. t[i] = s[i] /\ t[i + 1] = s[i + 1] /\ s[i] # o /\ s[i] # p /\ s[i] \in Objects
          BY <1>3, <1>4, <1>6, <3>2, <5>1
        <5>3. next[s[i]] = s[i + 1]
          BY <1>0, <5>1 DEF Leads
        <5> QED BY <3>1, <5>1, <5>2, <5>3
      <4>2. CASE i = at - 1
        <5>1. /\ i \in 1 .. Len(s) /\ i # at /\ i < at /\ at # 1 /\ i + 1 = at
              /\ at < Len(s) <=> i < Len(t)
              /\ i < Len(t) => i + 1 \in 1 .. Len(s) - 1 /\ ~(i + 1 < at)
          BY <1>3, <1>4, <1>6, <4>2
        <5>2. t[i] = s[i] /\ s[i] # o /\ s[i] = p /\ s[i] \in Objects
          BY <1>3, <1>4, <1>6, <3>2, <4>2, <5>1
        <5>3. i < Len(t) => t[i + 1] = s[at + 1]
          BY <1>6, <5>1
        <5> QED BY <3>1, <3>3, <5>1, <5>2, <5>3
      <4>3. CASE i >= at
        <5>1. /\ i + 1 \in 1 .. Len(s) /\ i + 1 # at /\ i + 1 # at - 1 /\ ~(i < at)
              /\ i + 1 < Len(s) <=> i < Len(t)
              /\ i < Len(t) => i + 1 \in 1 .. Len(s) - 1 /\ ~(i + 1 < at)
          BY <1>3, <1>4, <1>6, <4>3
        <5>2. t[i] = s[i + 1] /\ s[i + 1] # o /\ s[i + 1] \in Objects
          BY <1>3, <1>4, <1>6, <5>1
        <5>3. s[i + 1] # p
          <6>1. at # 1 => at - 1 \in 1 .. Len(s)
            BY <1>3, <1>4
          <6> QED BY <1>1, <1>3, <3>2, <5>1, <5>2, <6>1
        <5>4. next[s[i + 1]] = IF i + 1 < Len(s) THEN s[i + 1 + 1] ELSE None
          BY <1>0, <5>1 DEF Leads
        <5>5. i < Len(t) => t[i + 1] = s[i + 1 + 1]
          BY <1>6, <5>1
        <5> QED BY <3>1, <5>1, <5>2, <5>3, <5>4, <5>5
      <4> QED BY <1>3, <1>4, <1>6, <4>1, <4>2, <4>3
    <3>5. m_first'[l] = Head1(t)
      <4>1. m_first'[l] = IF at = 1 THEN n ELSE s[1]
        BY <1>1, <1>5, <3>1
      <4>2. t = <<>> <=> Len(t) = 0
        BY <1>6
      <4>3. ~(at = 1 /\ at = Len(s))
        BY <1>5, <2>2 DEF IsSole
      <4> QED BY <1>3, <1>4, <1>6, <3>3, <4>1, <4>2, <4>3 DEF Head1
    <3>6. \A x \in Objects : where[x] # l => next'[x] = next[x]
      <4>1. at # 1 => at - 1 \in 1 .. Len(s)
        BY <1>3, <1>4
      <4>2. p # None => where[p] = l
        BY <1>0, <1>3, <3>2, <4>1
      <4>3. None \notin Objects /\ where[o] = l
        BY <1>1
      <4> QED BY <3>1, <4>2, <4>3
    <3> QED BY <1>1, <3>1, <3>4, <3>5, <3>6 DEF Leads, n
  <2> QED BY <2>1, <2>2
<1>12. Threads(t, l, m_first', next', where')
  BY <1>7, <1>8, <1>11 DEF Threads
<1>13. ASSUME NEW k \in Lists, k # l PROVE Threads(Contents(k), k, m_first', next', where')
  <2>1. \A x \in Objects : where'[x] = k <=> where[x] = k
    BY <1>1, <1>13
  <2>2. \A x \in Objects : where[x] = k => next'[x] = next[x]
    BY <1>11, <1>13
  <2> QED BY <1>11, <1>13, <2>1, <2>2, OthersStay
<1>14. Contents(l)' = t /\ \A k \in Lists : k # l => Contents(k)' = Contents(k)
  BY <1>12, <1>13, ThreadsContents DEF Contents
<1>15. SeqInv'
  BY <1>12, <1>13, <1>14 DEF SeqInv
<1>16. AsSequences!InList(l, o)
  BY <1>4 DEF AsSequences!InList, Contents, s
<1>17. t = AsSequences!Dropped(s, o)
  BY DEF AsSequences!Dropped, t, at
<1>18. ret' = AsSequences!After(s, o)
  <2> DEFINE A == {i \in 1 .. Len(s) - 1 : s[i] = o}
  <2>1. A = IF at < Len(s) THEN {at} ELSE {}
    <3>1. \A i \in 1 .. Len(s) - 1 : i \in 1 .. Len(s) /\ i < Len(s)
      BY <1>3
    <3>2. at < Len(s) => at \in 1 .. Len(s) - 1
      BY <1>3, <1>4
    <3> QED BY <1>3, <1>4, <3>1, <3>2
  <2>2. AsSequences!After(s, o) = IF A = {} THEN None ELSE s[(CHOOSE i \in A : TRUE) + 1]
    BY DEF AsSequences!After
  <2>3. (CHOOSE i \in {at} : TRUE) = at
    OBVIOUS
  <2> HIDE DEF A
  <2> QED BY <1>9, <1>11, <2>1, <2>2, <2>3
<1>19. [k \in Lists |-> Chain(next, m_first[k])]'
         = [[k \in Lists |-> Chain(next, m_first[k])]
              EXCEPT ![l] = AsSequences!Dropped(@, o)]
  BY <1>14, <1>17 DEF Contents, s
<1> QED BY <1>15, <1>16, <1>18, <1>19 DEF AsSequences!Remove, s, Contents

\* clear is called when every list is empty: it is no step of the sequences.
LEMMA SequenceStep ==
  ASSUME IsFiniteSet(Objects), NullIsNothing, ListInv, SeqInv, [Next]_vars
  PROVE  SeqInv' /\ [AsSequences!Next]_<<[l \in Lists |-> Chain(next, m_first[l])], ret>>
<1>1. ASSUME UNCHANGED <<m_first, next, where, ret>>
      PROVE  /\ SeqInv'
             /\ UNCHANGED <<[l \in Lists |-> Chain(next, m_first[l])], ret>>
  <2>1. \A l \in Lists : Contents(l)' = Contents(l)
    BY <1>1 DEF Contents
  <2>2. SeqInv'
    BY <1>1, <2>1 DEF SeqInv
  <2> QED BY <1>1, <2>2
<1>2. CASE UNCHANGED vars
  BY <1>1, <1>2 DEF vars
<1>3. ASSUME NEW l \in Lists, clear(l) PROVE UNCHANGED <<m_first, next, where, ret>>
  BY <1>3, ClearKeeps
<1>4. ASSUME NEW l \in Lists, NEW o \in Objects, add(l, o)
      PROVE  SeqInv' /\ AsSequences!Next
  BY <1>4, AddThreads DEF AsSequences!Next
<1>5. ASSUME NEW l \in Lists, NEW o \in Objects, remove(l, o)
      PROVE  SeqInv' /\ AsSequences!Next
  BY <1>5, RemoveThreads DEF AsSequences!Next
<1> QED BY <1>1, <1>2, <1>3, <1>4, <1>5 DEF Next

LEMMA SequenceInit ==
  ASSUME IsFiniteSet(Objects), NullIsNothing, Init
  PROVE  SeqInv /\ AsSequences!Init
<1>1. ASSUME NEW l \in Lists PROVE Threads(<<>>, l, m_first, next, where)
  BY <1>1 DEF Init, NullIsNothing, Threads, Distinct, Leads, Head1
<1>2. ASSUME NEW l \in Lists PROVE Contents(l) = <<>>
  BY <1>1, ThreadsContents DEF Contents
<1>3. SeqInv
  BY <1>1, <1>2 DEF SeqInv
<1> QED BY <1>2, <1>3 DEF AsSequences!Init, Init, Contents

\* GameObjectLinkedList: the pointers of any lists over finitely many objects
\* implement sequences. What one meets along the next links is what was added
\* and not removed, in the order of the additions, and remove returns the
\* object after the one it takes out.
THEOREM ListsAreSequences == IsFiniteSet(Objects) /\ NullIsNothing /\ Spec => SequencesSpec
<1> DEFINE Given == IsFiniteSet(Objects) /\ NullIsNothing
<1>1. Given /\ Init => ListInv /\ SeqInv /\ AsSequences!Init
  BY InitList, SequenceInit
<1>2. Given /\ ListInv /\ SeqInv /\ [Next]_vars
        => SeqInv' /\ [AsSequences!Next]_<<[l \in Lists |-> Chain(next, m_first[l])], ret>>
  BY SequenceStep
<1>3. Given /\ ListInv /\ [Next]_vars => ListInv'
  BY ListStep
<1>4. Given => Given'
  BY DEF NullIsNothing
<1> HIDE DEF Given
<1>5. Given /\ Spec => SequencesSpec
  BY <1>1, <1>2, <1>3, <1>4, PTL DEF Spec, SequencesSpec, AsSequences!Spec
<1> QED BY <1>5 DEF Given
=============================================================================
