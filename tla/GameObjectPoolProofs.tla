------------------------ MODULE GameObjectPoolProofs ------------------------
(* Proofs, for every size of the pool and whatever scripts do in callbacks,  *)
(* that object tables never alias, that the lists stay exact, that what      *)
(* BoundCheck(2) and CollisionCheck{...} found is what they call back for,   *)
(* and that the walks read objects in use.  As long as callbacks free        *)
(* nothing and leave groups (and places) alone, also that a collision        *)
(* callback is given objects of the groups asked for and that no walk misses *)
(* an object or meets one twice; and, for scripts without bad calls of _New  *)
(* or without errors in callbacks, that freeing does not crash and that the  *)
(* flags of the walks are reset.                                             *)
EXTENDS GameObjectPool, FiniteSetTheorems, WellFoundedInduction, TLAPS

\* HandlesAreFresh is inductive once the names of the object tables are known
\* to be uids that were given out before.
HandleInv ==
  /\ status \in [Slots -> Status]
  /\ table \in [Slots -> Uids \cup {NoUid}] /\ ptr \in [Uids -> Objects]
  /\ iUid \in Uids
  /\ \A h \in Uids : ptr[h] # None => h < iUid
  /\ \A o \in Slots : table[o] # NoUid => table[o] < iUid
  /\ HandlesAreFresh

\* A step that leaves the Lua tables alone and frees nothing is harmless.
LEMMA NothingFreed ==
  ASSUME HandleInv, UNCHANGED <<table, ptr>>,
         status' \in [Slots -> Status],
         \A o \in Slots : status[o] # "Free" => status'[o] # "Free",
         iUid' \in Uids, iUid <= iUid'
  PROVE  HandleInv'
<1> USE SizesAssumption DEF HandleInv, HandlesAreFresh, Live, Uids, Objects
<1>1. \A h \in Uids : ptr'[h] # None => h < iUid'
  BY DEF NoUid
<1>2. \A o \in Slots : table'[o] # NoUid => table'[o] < iUid'
  BY DEF NoUid
<1>3. HandlesAreFresh'
  OBVIOUS
<1>4. QED BY <1>1, <1>2, <1>3

\* Allocating a slot, with or without a new object table for it.
LEMMA AllocateType ==
  ASSUME HandleInv, NEW o \in Slots, Allocate(o)
  PROVE  /\ status' = [status EXCEPT ![o] = "Active"] /\ status' \in [Slots -> Status]
         /\ iUid \in Uids /\ iUid' = iUid + 1 /\ iUid' \in Uids
         /\ status[o] = "Free" /\ table[o] = NoUid /\ ptr[iUid] = None
<1>1. /\ status' = [status EXCEPT ![o] = "Active"] /\ iUid' = iUid + 1 /\ status[o] = "Free"
      /\ iUid < MaxUid
  BY DEF Allocate
<1>2. status' \in [Slots -> Status]
  BY <1>1 DEF HandleInv, Status
<1>3. iUid \in Uids /\ iUid' \in Uids
  BY <1>1, SizesAssumption DEF HandleInv, Uids
<1>4. table[o] = NoUid
  BY <1>1 DEF HandleInv, HandlesAreFresh, Live
<1>5. ptr[iUid] = None
  BY <1>3, SizesAssumption DEF HandleInv, Uids
<1>6. QED BY <1>1, <1>2, <1>3, <1>4, <1>5

\* A new object gets a table of its own.
LEMMA NewInv ==
  ASSUME HandleInv, NEW o \in Slots, New(o)
  PROVE  HandleInv'
<1>1. Allocate(o) /\ table' = [table EXCEPT ![o] = iUid] /\ ptr' = [ptr EXCEPT ![iUid] = o]
  BY DEF New
<1>2. /\ status' = [status EXCEPT ![o] = "Active"] /\ status' \in [Slots -> Status]
      /\ iUid \in Uids /\ iUid' = iUid + 1 /\ iUid' \in Uids
      /\ status[o] = "Free" /\ table[o] = NoUid /\ ptr[iUid] = None
  BY <1>1, AllocateType
<1>3. table' \in [Slots -> Uids \cup {NoUid}] /\ ptr' \in [Uids -> Objects]
  BY <1>1, <1>2 DEF HandleInv, Objects
<1>4. /\ table'[o] = iUid /\ ptr'[iUid] = o
      /\ \A x \in Slots : x # o => table'[x] = table[x]
      /\ \A h \in Uids : h # iUid => ptr'[h] = ptr[h]
      /\ \A x \in Slots : x \in Live' <=> x = o \/ x \in Live
  BY <1>1, <1>2 DEF HandleInv, Live
<1>5. ASSUME NEW h \in Uids, ptr'[h] # None
      PROVE  h < iUid' /\ ptr'[h] \in Live' /\ table'[ptr'[h]] = h
  <2>1. CASE h = iUid
    BY <1>2, <1>4, <2>1, SizesAssumption DEF Uids, Live
  <2>2. CASE h # iUid
    <3>1. ptr[h] \in Live /\ table[ptr[h]] = h /\ h < iUid
      BY <1>4, <1>5, <2>2 DEF HandleInv, HandlesAreFresh
    <3>2. ptr[h] # o /\ ptr[h] \in Slots
      BY <1>2, <3>1 DEF Live
    <3>3. QED BY <1>2, <1>4, <2>2, <3>1, <3>2, SizesAssumption DEF Uids
  <2>3. QED BY <2>1, <2>2
<1>6. ASSUME NEW x \in Slots, table'[x] # NoUid
      PROVE  table'[x] < iUid' /\ x \in Live' /\ ptr'[table'[x]] = x
  <2>1. CASE x = o
    BY <1>2, <1>4, <2>1, SizesAssumption DEF Uids
  <2>2. CASE x # o
    <3>1. x \in Live /\ ptr[table[x]] = x /\ table[x] < iUid /\ table[x] \in Uids
      BY <1>4, <1>6, <2>2 DEF HandleInv, HandlesAreFresh
    <3>2. QED BY <1>2, <1>4, <2>2, <3>1, SizesAssumption DEF Uids
  <2>3. QED BY <2>1, <2>2
<1>7. QED BY <1>2, <1>3, <1>5, <1>6 DEF HandleInv, HandlesAreFresh

\* Freeing objects cuts off exactly their tables.
LEMMA FreeInv ==
  ASSUME HandleInv, NEW S \in SUBSET Slots, freeWithCallbacks(S), iUid' = iUid
  PROVE  HandleInv'
<1>1. /\ status' = [o \in Slots |-> IF o \in S THEN "Free" ELSE status[o]]
      /\ table' = [o \in Slots |-> IF o \in S THEN NoUid ELSE table[o]]
      /\ ptr' = [h \in Uids |-> IF \E o \in S : table[o] = h THEN None ELSE ptr[h]]
  BY DEF freeWithCallbacks
<1>2. /\ status' \in [Slots -> Status] /\ iUid' \in Uids
      /\ table' \in [Slots -> Uids \cup {NoUid}] /\ ptr' \in [Uids -> Objects]
  BY <1>1 DEF HandleInv, Status, Objects
<1>3. ASSUME NEW h \in Uids, ptr'[h] # None
      PROVE  h < iUid' /\ ptr'[h] \in Live' /\ table'[ptr'[h]] = h
  <2>1. ptr'[h] = ptr[h] /\ ~ \E o \in S : table[o] = h
    BY <1>1, <1>3
  <2>2. ptr[h] \in Live /\ table[ptr[h]] = h /\ h < iUid
    BY <1>3, <2>1 DEF HandleInv, HandlesAreFresh
  <2>3. ptr[h] \notin S /\ ptr[h] \in Slots
    BY <2>1, <2>2 DEF Live
  <2>4. QED BY <1>1, <2>1, <2>2, <2>3 DEF Live
<1>4. ASSUME NEW x \in Slots, table'[x] # NoUid
      PROVE  table'[x] < iUid' /\ x \in Live' /\ ptr'[table'[x]] = x
  <2>1. x \notin S /\ table'[x] = table[x]
    BY <1>1, <1>4
  <2>2. x \in Live /\ ptr[table[x]] = x /\ table[x] < iUid /\ table[x] \in Uids
    BY <1>4, <2>1 DEF HandleInv, HandlesAreFresh
  <2>3. ~ \E o \in S : table[o] = table[x]
    BY <2>1, <2>2 DEF HandleInv, HandlesAreFresh, NoUid, Uids
  <2>4. QED BY <1>1, <2>1, <2>2, <2>3 DEF Live
<1>5. QED BY <1>2, <1>3, <1>4 DEF HandleInv, HandlesAreFresh

\* What scripts do preserves the invariant.
LEMMA ScriptInv == HandleInv /\ Script => HandleInv'
<1> SUFFICES ASSUME HandleInv, Script PROVE HandleInv'
  OBVIOUS
<1>0. /\ status \in [Slots -> Status] /\ iUid \in Uids
      /\ \A o \in Slots : Reachable(o) => status[o] # "Free"
  BY SizesAssumption DEF HandleInv, HandlesAreFresh, Reachable, Live, Objects
<1>1. ASSUME NEW o \in Slots, New(o) PROVE HandleInv'
  BY <1>1, NewInv
<1>2. ASSUME NEW o \in Slots, NewInvalid(o) PROVE HandleInv'
  <2>1. Allocate(o) /\ UNCHANGED <<table, ptr>>
    BY <1>2 DEF NewInvalid, luaVars
  <2>2. /\ status' = [status EXCEPT ![o] = "Active"] /\ status' \in [Slots -> Status]
        /\ iUid' = iUid + 1 /\ iUid' \in Uids
    BY <2>1, AllocateType
  <2>3. iUid <= iUid'
    BY <1>0, <2>2, SizesAssumption DEF Uids
  <2>4. QED BY <1>0, <2>1, <2>2, <2>3, NothingFreed
<1>3. ASSUME NEW o \in Slots, NEW s \in Status \ {"Free"}, QueueToFree(o, s) \/ SetStatus(o, s)
      PROVE HandleInv'
  <2>1. status' = [status EXCEPT ![o] = s] /\ UNCHANGED <<table, ptr, iUid>>
    BY <1>3 DEF QueueToFree, SetStatus, luaVars
  <2>2. status' \in [Slots -> Status] /\ \A x \in Slots : status[x] # "Free" => status'[x] # "Free"
    BY <1>0, <2>1
  <2>3. iUid' \in Uids /\ iUid <= iUid'
    BY <1>0, <2>1, SizesAssumption DEF Uids
  <2>4. QED BY <2>1, <2>2, <2>3, NothingFreed
<1>4. ASSUME NEW o \in Slots, DirtResetObject(o) PROVE HandleInv'
  <2>1. UNCHANGED <<status, table, ptr>> /\ iUid' = iUid + 1 /\ iUid < MaxUid
    BY <1>4 DEF DirtResetObject, luaVars
  <2>2. iUid' \in Uids /\ iUid <= iUid'
    BY <1>0, <2>1, SizesAssumption DEF Uids
  <2>3. QED BY <1>0, <2>1, <2>2, NothingFreed
<1>5. CASE UNCHANGED <<status, table, ptr, iUid>>
  <2>1. iUid' \in Uids /\ iUid <= iUid'
    BY <1>0, <1>5, SizesAssumption DEF Uids
  <2>2. QED BY <1>0, <1>5, <2>1, NothingFreed
<1>6. ASSUME NEW o \in Slots,
             \/ \E g \in Groups : SetGroup(o, g)
             \/ \E l \in Layers : SetLayer(o, l)
             \/ SetIgnore(o)
      PROVE  UNCHANGED <<status, table, ptr, iUid>>
  BY <1>6 DEF SetGroup, SetLayer, SetIgnore, luaVars
<1>7. ASSUME NEW t \in -1 .. MaxPause, SetNextFrameSuperPauseTime(t)
      PROVE  UNCHANGED <<status, table, ptr, iUid>>
  BY <1>7 DEF SetNextFrameSuperPauseTime, luaVars, objVars
<1>8. QED BY <1>1, <1>2, <1>3, <1>4, <1>5, <1>6, <1>7 DEF Script, Status

\* So does every batch operation that a script begins.
LEMMA BeginInv == HandleInv /\ Begin => HandleInv'
<1> SUFFICES ASSUME HandleInv, Begin PROVE HandleInv'
  OBVIOUS
<1>0. status \in [Slots -> Status] /\ iUid \in Uids
  BY DEF HandleInv
<1>1. ASSUME NEW v \in {1, 2}, UpdateNext(v) PROVE HandleInv'
  <2>1. PICK S \in SUBSET Slots : freeWithCallbacks(S)
    BY <1>1 DEF UpdateNext, Free, Live
  <2>2. QED BY <1>1, <2>1, FreeInv DEF UpdateNext
<1>2. CASE ResetPool
  <2>1. freeWithCallbacks(Live) /\ Live \in SUBSET Slots
    BY <1>2 DEF ResetPool, Free, Live
  <2>2. QED BY <1>2, <2>1, FreeInv DEF ResetPool
<1>3. CASE BoundCheck
  <2>1. PICK out \in SUBSET Live :
          status' = [o \in Slots |-> IF o \in out THEN "Dead" ELSE status[o]]
    BY <1>3 DEF BoundCheck
  <2>2. /\ status' \in [Slots -> Status]
        /\ \A o \in Slots : status[o] # "Free" => status'[o] # "Free"
    BY <1>0, <2>1 DEF Status
  <2>3. UNCHANGED <<table, ptr>> /\ iUid' \in Uids /\ iUid <= iUid'
    BY <1>0, <1>3, SizesAssumption DEF BoundCheck, luaVars, Uids
  <2>4. QED BY <2>2, <2>3, NothingFreed
<1>4. CASE UNCHANGED <<status, table, ptr, iUid>>
  <2>1. iUid' \in Uids /\ iUid <= iUid'
    BY <1>0, <1>4, SizesAssumption DEF Uids
  <2>2. QED BY <1>0, <1>4, <2>1, NothingFreed
<1>5. ASSUME NEW v \in {1, 2}, ObjFrame(v) PROVE UNCHANGED <<status, table, ptr, iUid>>
  BY <1>5 DEF ObjFrame, objVars, luaVars
<1>6. ASSUME BoundCheckLegacy \/ ObjRender PROVE UNCHANGED <<status, table, ptr, iUid>>
  BY <1>6 DEF BoundCheckLegacy, ObjRender, objVars, luaVars
<1>7. ASSUME NEW g1 \in Groups, NEW g2 \in Groups, CollisionCheckLegacy(g1, g2)
      PROVE  UNCHANGED <<status, table, ptr, iUid>>
  BY <1>7 DEF CollisionCheckLegacy, objVars, luaVars
<1>8. ASSUME NEW P, CollisionCheck(P) PROVE UNCHANGED <<status, table, ptr, iUid>>
  BY <1>8 DEF CollisionCheck, objVars, luaVars
<1>9. QED BY <1>1, <1>2, <1>3, <1>4, <1>5, <1>6, <1>7, <1>8 DEF Begin

\* And every step of a walk.
LEMMA WalkInv == HandleInv /\ Walk => HandleInv'
<1> SUFFICES ASSUME HandleInv, Walk PROVE HandleInv'
  OBVIOUS
<1>0. status \in [Slots -> Status] /\ iUid \in Uids
  BY DEF HandleInv
<1>1. CASE BoundVisit
  <2>1. status' = status \/ status' = [status EXCEPT ![cur] = "Dead"]
    BY <1>1 DEF BoundVisit
  <2>2. /\ status' \in [Slots -> Status]
        /\ \A o \in Slots : status[o] # "Free" => status'[o] # "Free"
    BY <1>0, <2>1 DEF Status
  <2>3. UNCHANGED <<table, ptr>> /\ iUid' \in Uids /\ iUid <= iUid'
    BY <1>0, <1>1, SizesAssumption DEF BoundVisit, luaVars, Uids
  <2>4. QED BY <2>2, <2>3, NothingFreed
<1>2. CASE UNCHANGED <<status, table, ptr, iUid>>
  <2>1. iUid' \in Uids /\ iUid <= iUid'
    BY <1>0, <1>2, SizesAssumption DEF Uids
  <2>2. QED BY <1>0, <1>2, <2>1, NothingFreed
<1>3. ASSUME UpdateVisit \/ UpdateReturn \/ UpdateEnd PROVE UNCHANGED <<status, table, ptr, iUid>>
  BY <1>3 DEF UpdateVisit, UpdateReturn, UpdateEnd, objVars, luaVars
<1>4. ASSUME BoundReturn \/ BoundEnd PROVE UNCHANGED <<status, table, ptr, iUid>>
  BY <1>4 DEF BoundReturn, BoundEnd, objVars, luaVars
<1>5. ASSUME BoundCall \/ BoundCallReturn \/ BoundCallEnd
      PROVE  UNCHANGED <<status, table, ptr, iUid>>
  BY <1>5 DEF BoundCall, BoundCallReturn, BoundCallEnd, objVars, luaVars
<1>6. ASSUME CollideOuter \/ CollideInner \/ CollideReturn \/ CollideEnd
      PROVE  UNCHANGED <<status, table, ptr, iUid>>
  BY <1>6 DEF CollideOuter, CollideInner, CollideReturn, CollideEnd, objVars, luaVars
<1>7. ASSUME CollideCall \/ CollideCallReturn \/ CollideCallEnd
      PROVE  UNCHANGED <<status, table, ptr, iUid>>
  BY <1>7 DEF CollideCall, CollideCallReturn, CollideCallEnd, objVars, luaVars
<1>8. ASSUME RenderVisit \/ RenderReturn \/ RenderEnd PROVE UNCHANGED <<status, table, ptr, iUid>>
  BY <1>8 DEF RenderVisit, RenderReturn, RenderEnd, objVars, luaVars
<1>9. ASSUME Fail PROVE UNCHANGED <<status, table, ptr, iUid>>
  BY <1>9 DEF Fail, objVars, luaVars
<1> QED BY <1>1, <1>2, <1>3, <1>4, <1>5, <1>6, <1>7, <1>8, <1>9 DEF Walk

\* For every pool, and whatever scripts do inside and outside callbacks, an
\* object table points at the object it was made for or at nothing.
THEOREM HandlesStayFresh == Spec => []HandlesAreFresh
<1>1. Init => HandleInv
  BY SizesAssumption DEF Init, HandleInv, HandlesAreFresh, Status, Uids, Objects, Live
<1>2. HandleInv /\ [Next]_vars => HandleInv'
  <2> SUFFICES ASSUME HandleInv, [Next]_vars PROVE HandleInv'
    OBVIOUS
  <2>1. CASE UNCHANGED vars
    BY <2>1 DEF vars, HandleInv, HandlesAreFresh, Live
  <2>2. QED BY <2>1, ScriptInv, BeginInv, WalkInv DEF Next
<1>3. HandleInv => HandlesAreFresh
  BY DEF HandleInv
<1>4. QED BY <1>1, <1>2, <1>3, PTL DEF Spec

-----------------------------------------------------------------------------
(* Sequences that hold every element of a set once. *)

Once(q, S) ==
  /\ q \in Seq(S)
  /\ \A i, j \in 1 .. Len(q) : q[i] = q[j] => i = j
  /\ \A o \in S : \E i \in 1 .. Len(q) : q[i] = o

LEMMA Counting ==
  ASSUME NEW n \in Nat
  PROVE  IsFiniteSet(1 .. n) /\ Cardinality(1 .. n) = n
<1>1. 1 \in Int /\ n \in Int
  OBVIOUS
<1>2. IsFiniteSet(1 .. n) /\ Cardinality(1 .. n) = IF 1 > n THEN 0 ELSE n - 1 + 1
  BY <1>1, FS_Interval
<1> QED BY <1>2

\* Counting is another way to say the same.
LEMMA OnceLists ==
  ASSUME NEW S, NEW q, Once(q, S)
  PROVE  Lists(q, S)
<1>1. q \in [1 .. Len(q) -> S] /\ Len(q) \in Nat
  BY DEF Once
<1>2. q \in Bijection(1 .. Len(q), S)
  <2>1. q \in Injection(1 .. Len(q), S)
    BY <1>1 DEF Once, Injection, IsInjective
  <2>2. q \in Surjection(1 .. Len(q), S)
    BY <1>1 DEF Once, Surjection
  <2> QED BY <2>1, <2>2 DEF Bijection
<1>3. IsFiniteSet(1 .. Len(q)) /\ Cardinality(1 .. Len(q)) = Len(q)
  BY <1>1, Counting
<1>4. Cardinality(S) = Len(q)
  BY <1>2, <1>3, FS_Bijection DEF ExistsBijection
<1>5. {q[i] : i \in 1 .. Len(q)} = S
  BY <1>1 DEF Once
<1> QED BY <1>4, <1>5 DEF Lists

LEMMA OnceAppend ==
  ASSUME NEW S, NEW q, Once(q, S), NEW o, o \notin S
  PROVE  Once(Append(q, o), S \cup {o})
<1>1. Append(q, o) \in Seq(S \cup {o}) /\ Len(Append(q, o)) = Len(q) + 1 /\ Len(q) \in Nat
  BY DEF Once
<1>2. /\ Append(q, o)[Len(q) + 1] = o
      /\ \A i \in 1 .. Len(q) : Append(q, o)[i] = q[i] /\ q[i] \in S
  BY DEF Once
<1>3. \A i, j \in 1 .. Len(q) + 1 : Append(q, o)[i] = Append(q, o)[j] => i = j
  <2> SUFFICES ASSUME NEW i \in 1 .. Len(q) + 1, NEW j \in 1 .. Len(q) + 1,
                      Append(q, o)[i] = Append(q, o)[j], i # j
               PROVE  FALSE
    OBVIOUS
  <2>1. CASE i \in 1 .. Len(q) /\ j \in 1 .. Len(q)
    BY <1>2, <2>1 DEF Once
  <2>2. CASE i = Len(q) + 1 \/ j = Len(q) + 1
    BY <1>1, <1>2, <2>2
  <2> QED BY <1>1, <2>1, <2>2
<1>4. \A x \in S \cup {o} : \E i \in 1 .. Len(q) + 1 : Append(q, o)[i] = x
  <2> SUFFICES ASSUME NEW x \in S \cup {o} PROVE \E i \in 1 .. Len(q) + 1 : Append(q, o)[i] = x
    OBVIOUS
  <2>1. CASE x = o
    BY <1>1, <1>2, <2>1
  <2>2. CASE x \in S
    <3>1. PICK i \in 1 .. Len(q) : q[i] = x
      BY <2>2 DEF Once
    <3> QED BY <1>1, <1>2, <3>1
  <2> QED BY <2>1, <2>2
<1> QED BY <1>1, <1>3, <1>4 DEF Once

\* What is left of a sequence: its elements that are not removed, in order.
LEMMA WithoutIs ==
  ASSUME NEW T, NEW q \in Seq(T), NEW S
  PROVE  LET w == Without(q, S)
         IN  /\ w \in Seq(T) /\ Len(w) \in Nat
             /\ \E f \in [1 .. Len(w) -> 1 .. Len(q)] :
                  /\ \A k \in 1 .. Len(w) : w[k] = q[f[k]] /\ q[f[k]] \notin S
                  /\ \A k, l \in 1 .. Len(w) : k < l => f[k] < f[l]
                  /\ \A i \in 1 .. Len(q) : q[i] \notin S => \E k \in 1 .. Len(w) : f[k] = i
<1> DEFINE kept == {i \in DOMAIN q : q[i] \notin S}
           Upto(i) == {j \in kept : j <= i}
           place == [i \in kept |-> Cardinality(Upto(i))]
           n == Cardinality(kept)
           at(k) == CHOOSE i \in kept : place[i] = k
           f == [k \in 1 .. n |-> at(k)]
           w == Without(q, S)
<1>1. kept \subseteq 1 .. Len(q) /\ Len(q) \in Nat /\ DOMAIN q = 1 .. Len(q)
  OBVIOUS
<1>2. IsFiniteSet(kept) /\ n \in Nat
  <2>1. IsFiniteSet(1 .. Len(q))
    BY <1>1, Counting
  <2>2. IsFiniteSet(kept)
    BY <1>1, <2>1, FS_Subset
  <2> QED BY <2>2, FS_CardinalityType
<1>3. ASSUME NEW i \in kept
      PROVE  IsFiniteSet(Upto(i)) /\ place[i] \in 1 .. n
  <2>1. IsFiniteSet(Upto(i)) /\ Cardinality(Upto(i)) <= n /\ Cardinality(Upto(i)) \in Nat
    BY <1>2, FS_Subset, FS_CardinalityType
  <2>2. i \in Upto(i)
    BY <1>1
  <2>3. Cardinality(Upto(i)) # 0
    BY <2>1, <2>2, FS_EmptySet
  <2> QED BY <2>1, <2>3, <1>2
<1>4. ASSUME NEW i \in kept, NEW j \in kept, i < j PROVE place[i] < place[j]
  <2>1. Upto(i) \in SUBSET Upto(j) /\ j \in Upto(j) /\ j \notin Upto(i)
    BY <1>1, <1>4
  <2>2. Cardinality(Upto(i)) <= Cardinality(Upto(j)) /\ Cardinality(Upto(i)) # Cardinality(Upto(j))
    BY <1>3, <2>1, FS_Subset
  <2>3. place[i] = Cardinality(Upto(i)) /\ place[j] = Cardinality(Upto(j))
    OBVIOUS
  <2>4. place[i] \in 1 .. n /\ place[j] \in 1 .. n
    BY <1>3
  <2>5. Cardinality(Upto(i)) <= Cardinality(Upto(j)) => place[i] <= place[j]
    BY <2>3, Zenon
  <2>6. place[i] # place[j]
    BY <2>2, <2>3, Zenon
  <2> HIDE DEF place, kept, n
  <2>7. place[i] \in Int /\ place[j] \in Int
    BY <1>2, <2>4
  <2>8. place[i] <= place[j]
    BY <2>2, <2>5, Zenon
  <2> QED BY <2>6, <2>7, <2>8
<1>5. place \in Injection(kept, 1 .. n)
  <2>1. place \in [kept -> 1 .. n]
    BY <1>3
  <2>2. ASSUME NEW i \in kept, NEW j \in kept, place[i] = place[j] PROVE i = j
    <3> HIDE DEF kept, place, n
    <3>1. i \in Int /\ j \in Int /\ place[i] \in Int /\ place[j] \in Int
      BY <1>1, <1>2, <2>1
    <3> QED BY <1>4, <2>2, <3>1
  <2> HIDE DEF place, kept, n
  <2> QED BY <2>1, <2>2 DEF Injection, IsInjective
<1>6. place \in Surjection(kept, 1 .. n)
  <2>1. IsFiniteSet(1 .. n) /\ Cardinality(1 .. n) = n
    BY <1>2, Counting
  <2>2. n = Cardinality(kept)
    OBVIOUS
  <2> HIDE DEF place, kept, n
  <2> QED BY <1>5, <2>1, <2>2, FS_Injection
<1>7. ASSUME NEW k \in 1 .. n PROVE f[k] \in kept /\ place[f[k]] = k
  <2>1. \E i \in kept : place[i] = k
    BY <1>6 DEF Surjection
  <2> HIDE DEF place, kept
  <2> QED BY <2>1
<1>8. ASSUME NEW k \in 1 .. n, NEW l \in 1 .. n, k < l PROVE f[k] < f[l]
  <2>1. f[k] \in kept /\ f[l] \in kept /\ place[f[k]] = k /\ place[f[l]] = l
    BY <1>7
  <2>2. f[k] \in Int /\ f[l] \in Int
    BY <1>1, <2>1
  <2> HIDE DEF f, kept, place
  <2>3. CASE f[l] < f[k]
    BY <1>4, <1>8, <2>1, <2>3
  <2> QED BY <1>8, <2>1, <2>2, <2>3
<1>9. ASSUME NEW i \in kept PROVE place[i] \in 1 .. n /\ f[place[i]] = i
  <2>1. place[i] \in 1 .. n /\ f[place[i]] \in kept /\ place[f[place[i]]] = place[i]
    BY <1>3, <1>7
  <2> HIDE DEF f, kept, place, n
  <2> QED BY <1>5, <2>1 DEF Injection, IsInjective
<1>10. w = [k \in 1 .. n |-> q[f[k]]]
  <2>1. w = [k \in 1 .. n |-> q[CHOOSE i \in kept : Cardinality(Upto(i)) = k]]
    BY DEF Without
  <2>2. ASSUME NEW k \in 1 .. n PROVE f[k] = CHOOSE i \in kept : Cardinality(Upto(i)) = k
    <3>1. \A i \in kept : place[i] = Cardinality(Upto(i))
      OBVIOUS
    <3>2. f[k] = CHOOSE i \in kept : place[i] = k
      OBVIOUS
    <3> QED BY <3>1, <3>2
  <2> HIDE DEF f, n
  <2> QED BY <2>1, <2>2
<1>11. w \in Seq(T) /\ Len(w) = n
  <2>1. \A i \in kept : q[i] \in T
    BY <1>1
  <2>2. \A k \in 1 .. n : q[f[k]] \in T
    BY <1>7, <2>1
  <2> HIDE DEF f, n
  <2> QED BY <1>2, <1>10, <2>2
<1>12. f \in [1 .. n -> 1 .. Len(q)] /\ \A k \in 1 .. n : w[k] = q[f[k]] /\ q[f[k]] \notin S
  <2>1. \A k \in 1 .. n : f[k] \in kept
    BY <1>7
  <2>2. \A k \in 1 .. n : w[k] = q[f[k]]
    <3> HIDE DEF f, n
    <3> QED BY <1>10
  <2>3. \A k \in 1 .. n : f[k] \in 1 .. Len(q) /\ q[f[k]] \notin S
    BY <1>1, <2>1
  <2> HIDE DEF n, at
  <2>4. f \in [1 .. n -> 1 .. Len(q)]
    BY <2>3
  <2> HIDE DEF f
  <2> QED BY <2>2, <2>3, <2>4
<1> HIDE DEF w, n
<1>13. \A i \in 1 .. Len(q) : q[i] \notin S => \E k \in 1 .. n : f[k] = i
  BY <1>1, <1>9
<1> HIDE DEF f
<1>14. \E g \in [1 .. Len(w) -> 1 .. Len(q)] :
          /\ \A k \in 1 .. Len(w) : w[k] = q[g[k]] /\ q[g[k]] \notin S
          /\ \A k, l \in 1 .. Len(w) : k < l => g[k] < g[l]
          /\ \A i \in 1 .. Len(q) : q[i] \notin S => \E k \in 1 .. Len(w) : g[k] = i
  <2>1. Len(w) = n
    BY <1>11
  <2>2. f \in [1 .. Len(w) -> 1 .. Len(q)]
    BY <1>12, <2>1
  <2>3. /\ \A k \in 1 .. Len(w) : w[k] = q[f[k]] /\ q[f[k]] \notin S
        /\ \A k, l \in 1 .. Len(w) : k < l => f[k] < f[l]
        /\ \A i \in 1 .. Len(q) : q[i] \notin S => \E k \in 1 .. Len(w) : f[k] = i
    BY <1>8, <1>12, <1>13, <2>1
  <2> QED BY <2>2, <2>3
<1>15. w \in Seq(T) /\ Len(w) \in Nat
  BY <1>2, <1>11
<1> QED BY <1>14, <1>15 DEF w

LEMMA OnceWithout ==
  ASSUME NEW S, NEW q, Once(q, S), NEW D
  PROVE  Once(Without(q, D), S \ D)
<1> DEFINE w == Without(q, D)
<1>1. q \in Seq(S)
  BY DEF Once
<1>2. w \in Seq(S) /\ Len(w) \in Nat
  BY <1>1, WithoutIs
<1>3. PICK f \in [1 .. Len(w) -> 1 .. Len(q)] :
        /\ \A k \in 1 .. Len(w) : w[k] = q[f[k]] /\ q[f[k]] \notin D
        /\ \A k, l \in 1 .. Len(w) : k < l => f[k] < f[l]
        /\ \A i \in 1 .. Len(q) : q[i] \notin D => \E k \in 1 .. Len(w) : f[k] = i
  BY <1>1, WithoutIs
<1> HIDE DEF w
<1>4. w \in Seq(S \ D)
  <2>1. ASSUME NEW k \in 1 .. Len(w) PROVE w[k] \in S \ D
    <3>1. f[k] \in 1 .. Len(q)
      OBVIOUS
    <3>2. q[f[k]] \in S
      BY <1>1, <3>1
    <3> QED BY <1>3, <3>2
  <2> QED BY <1>2, <2>1
<1>5. ASSUME NEW k \in 1 .. Len(w), NEW l \in 1 .. Len(w), w[k] = w[l] PROVE k = l
  <2>1. q[f[k]] = q[f[l]] /\ f[k] \in 1 .. Len(q) /\ f[l] \in 1 .. Len(q)
    BY <1>3, <1>5
  <2>2. f[k] = f[l]
    BY <2>1 DEF Once
  <2>3. ~(k < l) /\ ~(l < k)
    BY <1>2, <1>3, <2>1, <2>2
  <2> QED BY <1>2, <2>3
<1>6. ASSUME NEW o \in S \ D PROVE \E k \in 1 .. Len(w) : w[k] = o
  <2>1. PICK i \in 1 .. Len(q) : q[i] = o
    BY DEF Once
  <2>2. PICK k \in 1 .. Len(w) : f[k] = i
    BY <1>3, <2>1
  <2> QED BY <1>3, <2>1, <2>2
<1>7. Once(w, S \ D)
  BY <1>4, <1>5, <1>6 DEF Once
<1> QED BY <1>7 DEF w

\* The objects of q come in the order of the uids u.
Increasing(q, u) == \A i, j \in 1 .. Len(q) : i < j => u[q[i]] < u[q[j]]

LEMMA IncreasingWithout ==
  ASSUME NEW T, NEW q \in Seq(T), NEW u, Increasing(q, u), NEW D
  PROVE  Increasing(Without(q, D), u)
<1> DEFINE w == Without(q, D)
<1>1. PICK f \in [1 .. Len(w) -> 1 .. Len(q)] :
        /\ \A k \in 1 .. Len(w) : w[k] = q[f[k]]
        /\ \A k, l \in 1 .. Len(w) : k < l => f[k] < f[l]
  BY WithoutIs
<1> HIDE DEF w
<1>2. Increasing(w, u)
  BY <1>1 DEF Increasing
<1> QED BY <1>2 DEF w

LEMMA IncreasingAppend ==
  ASSUME NEW T, NEW q \in Seq(T), NEW u, Increasing(q, u), NEW o,
         \A i \in 1 .. Len(q) : u[q[i]] < u[o]
  PROVE  Increasing(Append(q, o), u)
<1>1. /\ Len(q) \in Nat /\ Len(Append(q, o)) = Len(q) + 1 /\ Append(q, o)[Len(q) + 1] = o
      /\ \A i \in 1 .. Len(q) : Append(q, o)[i] = q[i]
  OBVIOUS
<1> SUFFICES ASSUME NEW i \in 1 .. Len(q) + 1, NEW j \in 1 .. Len(q) + 1, i < j
             PROVE  u[Append(q, o)[i]] < u[Append(q, o)[j]]
  BY <1>1 DEF Increasing
<1>2. i \in 1 .. Len(q)
  BY <1>1
<1>3. CASE j = Len(q) + 1
  BY <1>1, <1>2, <1>3
<1>4. CASE j \in 1 .. Len(q)
  BY <1>1, <1>2, <1>4 DEF Increasing
<1> QED BY <1>1, <1>3, <1>4

\* Only the uids of the objects in the list matter.
LEMMA IncreasingSame ==
  ASSUME NEW T, NEW q \in Seq(T), NEW u, NEW v, Increasing(q, u), \A o \in T : v[o] = u[o]
  PROVE  Increasing(q, v)
<1>1. \A i \in 1 .. Len(q) : q[i] \in T
  OBVIOUS
<1> QED BY <1>1 DEF Increasing

-----------------------------------------------------------------------------
(* The lists of the pool. *)

Members(g) == {o \in Live : group[o] = g}

\* What the lists hold, counted by position instead of by size.
PoolInv ==
  /\ status \in [Slots -> Status] /\ uid \in [Slots -> Uids] /\ group \in [Slots -> Groups]
  /\ iUid \in Uids
  /\ Once(ulist, Live) /\ rset = Live
  /\ dlist \in [Groups -> Seq(Slots)] /\ \A g \in Groups : Once(dlist[g], Members(g))
  /\ Increasing(ulist, uid)
  /\ \A o \in Live : uid[o] < iUid

\* A step that moves nothing between the lists.
LEMMA ListsSame ==
  ASSUME PoolInv, UNCHANGED <<uid, group, iUid, ulist, rset, dlist>>,
         status' \in [Slots -> Status], Live' = Live
  PROVE  PoolInv'
<1>1. \A g \in Groups : Members(g)' = Members(g)
  BY DEF Members
<1> QED BY <1>1 DEF PoolInv, Increasing

LEMMA ListsAllocate ==
  ASSUME PoolInv, NEW o \in Slots, Allocate(o)
  PROVE  PoolInv'
<1> DEFINE N(g) == IF g = 0 THEN Members(g) \cup {o} ELSE Members(g)
<1>0. /\ status' = [status EXCEPT ![o] = "Active"] /\ status[o] = "Free"
      /\ uid' = [uid EXCEPT ![o] = iUid] /\ group' = [group EXCEPT ![o] = 0]
      /\ iUid' = iUid + 1 /\ iUid \in Uids /\ iUid < MaxUid
      /\ ulist' = Append(ulist, o) /\ rset' = rset \cup {o}
      /\ dlist' = [dlist EXCEPT ![0] = Append(@, o)]
  BY DEF PoolInv, Allocate
<1>1. status' \in [Slots -> Status] /\ o \notin Live /\ Live' = Live \cup {o}
  BY <1>0 DEF PoolInv, Live, Status
<1>2. 0 \in Groups /\ group' \in [Slots -> Groups]
  BY <1>0, SizesAssumption DEF PoolInv, Groups
<1>3. /\ iUid' \in Uids /\ uid' \in [Slots -> Uids]
      /\ uid'[o] = iUid /\ \A x \in Live : uid'[x] = uid[x]
  BY <1>0, <1>1, SizesAssumption DEF PoolInv, Uids, Live
<1>4. Once(ulist', Live')
  BY <1>0, <1>1, OnceAppend DEF PoolInv
<1>5. dlist' \in [Groups -> Seq(Slots)]
  BY <1>0, <1>2 DEF PoolInv
<1>6. ASSUME NEW g \in Groups PROVE Once(dlist[g], Members(g))'
  <2>1. Members(g)' = N(g)
    BY <1>0, <1>1, <1>2 DEF Members, PoolInv, Live
  <2>2. dlist'[g] = IF g = 0 THEN Append(dlist[g], o) ELSE dlist[g]
    BY <1>0 DEF PoolInv
  <2>3. Once(dlist[g], Members(g)) /\ o \notin Members(g)
    BY <1>1 DEF PoolInv, Members
  <2>4. Once(dlist'[g], N(g))
    BY <2>2, <2>3, OnceAppend
  <2> QED BY <2>1, <2>4 DEF Once
<1>7. Increasing(ulist', uid')
  <2>1. ulist \in Seq(Live) /\ Increasing(ulist, uid)
    BY DEF PoolInv, Once
  <2>2. Increasing(ulist, uid')
    BY <1>3, <2>1, IncreasingSame
  <2>3. \A i \in 1 .. Len(ulist) : uid'[ulist[i]] < uid'[o]
    BY <1>3, <2>1 DEF PoolInv
  <2> QED BY <1>0, <2>1, <2>2, <2>3, IncreasingAppend
<1>8. \A x \in Live' : uid'[x] < iUid'
  BY <1>0, <1>1, <1>3, SizesAssumption DEF PoolInv, Uids, Live
<1> QED BY <1>0, <1>1, <1>2, <1>3, <1>4, <1>5, <1>6, <1>7, <1>8 DEF PoolInv, Increasing

\* lstg.ResetObject moves an object to the ends of its lists.
LEMMA ListsReset ==
  ASSUME PoolInv, NEW o \in Live, DirtResetObject(o)
  PROVE  PoolInv'
<1>0. /\ uid' = [uid EXCEPT ![o] = iUid] /\ iUid' = iUid + 1 /\ iUid \in Uids /\ iUid < MaxUid
      /\ UNCHANGED <<status, group, rset>> /\ Live' = Live /\ o \in Slots
      /\ ulist' = Append(Without(ulist, {o}), o)
      /\ dlist' = [dlist EXCEPT ![group[o]] = Append(Without(@, {o}), o)]
  BY DEF PoolInv, DirtResetObject, Live
<1>1. /\ iUid' \in Uids /\ uid' \in [Slots -> Uids]
      /\ uid'[o] = iUid /\ \A x \in Live \ {o} : uid'[x] = uid[x]
  BY <1>0, SizesAssumption DEF PoolInv, Uids, Live
<1>2. ASSUME NEW S, NEW q, Once(q, S), o \in S PROVE Once(Append(Without(q, {o}), o), S)
  <2>1. Once(Without(q, {o}), S \ {o}) /\ o \notin S \ {o} /\ (S \ {o}) \cup {o} = S
    BY <1>2, OnceWithout
  <2> QED BY <2>1, OnceAppend
<1>3. Once(ulist', Live')
  BY <1>0, <1>2 DEF PoolInv
<1>4. ASSUME NEW g \in Groups
      PROVE  dlist'[g] \in Seq(Slots) /\ Once(dlist[g], Members(g))'
  <2>1. Members(g)' = Members(g) /\ Once(dlist[g], Members(g)) /\ Members(g) \subseteq Slots
    BY <1>0 DEF PoolInv, Members, Live
  <2>2. dlist'[g] = IF g = group[o] THEN Append(Without(dlist[g], {o}), o) ELSE dlist[g]
    BY <1>0 DEF PoolInv
  <2>3. Once(dlist'[g], Members(g))
    BY <1>2, <2>1, <2>2 DEF Members
  <2> QED BY <2>1, <2>3 DEF Once
<1>5. dlist' \in [Groups -> Seq(Slots)]
  <2>1. DOMAIN dlist' = Groups /\ dlist' = [g \in DOMAIN dlist' |-> dlist'[g]]
    BY <1>0 DEF PoolInv
  <2> QED BY <1>4, <2>1
<1>6. Increasing(ulist', uid')
  <2> DEFINE w == Without(ulist, {o})
  <2>1. Once(w, Live \ {o}) /\ Increasing(w, uid)
    <3>1. Once(ulist, Live) /\ ulist \in Seq(Live) /\ Increasing(ulist, uid)
      BY DEF PoolInv, Once
    <3> QED BY <3>1, OnceWithout, IncreasingWithout
  <2> HIDE DEF w
  <2>2. w \in Seq(Live \ {o})
    BY <2>1 DEF Once
  <2>3. Increasing(w, uid')
    BY <1>1, <2>1, <2>2, IncreasingSame
  <2>4. \A i \in 1 .. Len(w) : w[i] \in Live \ {o}
    BY <2>2
  <2>5. \A i \in 1 .. Len(w) : uid'[w[i]] < uid'[o]
    BY <1>1, <2>4 DEF PoolInv
  <2>6. Increasing(Append(w, o), uid')
    BY <2>2, <2>3, <2>5, IncreasingAppend
  <2> QED BY <1>0, <2>6 DEF w
<1>7. \A x \in Live' : uid'[x] < iUid'
  BY <1>0, <1>1, SizesAssumption DEF PoolInv, Uids, Live
<1> QED BY <1>0, <1>1, <1>3, <1>4, <1>5, <1>6, <1>7 DEF PoolInv, Increasing

\* obj.group moves an object from one detect list to another.
LEMMA ListsGroup ==
  ASSUME PoolInv, NEW o \in Live, NEW h \in Groups, SetGroup(o, h)
  PROVE  PoolInv'
<1>0. /\ UNCHANGED <<uid, iUid, status, ulist, rset>> /\ Live' = Live /\ o \in Slots
      /\ group' = [group EXCEPT ![o] = h] /\ group[o] # h /\ group[o] \in Groups
      /\ dlist' = [dlist EXCEPT ![group[o]] = Without(@, {o}), ![h] = Append(@, o)]
  BY DEF PoolInv, SetGroup, Live
<1>1. group' \in [Slots -> Groups]
  BY <1>0 DEF PoolInv
<1>2. ASSUME NEW g \in Groups
      PROVE  dlist'[g] \in Seq(Slots) /\ Once(dlist[g], Members(g))'
  <2>1. Once(dlist[g], Members(g)) /\ Members(g)' \subseteq Slots
    BY <1>0 DEF PoolInv, Members, Live
  <2>2. CASE g = group[o]
    <3>1. dlist'[g] = Without(dlist[g], {o})
      BY <1>0, <2>2 DEF PoolInv
    <3>2. Members(g)' = Members(g) \ {o}
      BY <1>0, <2>2 DEF PoolInv, Members, Live
    <3>3. Once(dlist'[g], Members(g) \ {o})
      BY <2>1, <3>1, OnceWithout
    <3> QED BY <2>1, <3>2, <3>3 DEF Once
  <2>3. CASE g = h
    <3>1. dlist'[g] = Append(dlist[g], o)
      BY <1>0, <2>3 DEF PoolInv
    <3>2. Members(g)' = Members(g) \cup {o} /\ o \notin Members(g)
      BY <1>0, <2>3 DEF PoolInv, Members, Live
    <3>3. Once(dlist'[g], Members(g) \cup {o})
      BY <2>1, <3>1, <3>2, OnceAppend
    <3> QED BY <2>1, <3>2, <3>3 DEF Once
  <2>4. CASE g # group[o] /\ g # h
    <3>1. dlist'[g] = dlist[g] /\ Members(g)' = Members(g)
      BY <1>0, <2>4 DEF PoolInv, Members
    <3> QED BY <2>1, <3>1 DEF Once
  <2> QED BY <2>2, <2>3, <2>4
<1>3. dlist' \in [Groups -> Seq(Slots)]
  <2>1. DOMAIN dlist' = Groups /\ dlist' = [g \in DOMAIN dlist' |-> dlist'[g]]
    BY <1>0 DEF PoolInv
  <2> QED BY <1>2, <2>1
<1> QED BY <1>0, <1>1, <1>2, <1>3 DEF PoolInv, Increasing

\* Freeing takes exactly the freed objects out of every list.
LEMMA ListsFree ==
  ASSUME PoolInv, NEW S \in SUBSET Live, freeWithCallbacks(S), UNCHANGED <<uid, group, iUid>>
  PROVE  PoolInv'
<1>0. /\ status' = [o \in Slots |-> IF o \in S THEN "Free" ELSE status[o]]
      /\ ulist' = Without(ulist, S) /\ rset' = rset \ S
      /\ dlist' = [g \in Groups |-> Without(dlist[g], S)]
  BY DEF freeWithCallbacks
<1>1. status' \in [Slots -> Status] /\ Live' = Live \ S
  BY <1>0 DEF PoolInv, Live, Status
<1>2. Once(ulist', Live') /\ rset' = Live'
  BY <1>0, <1>1, OnceWithout DEF PoolInv
<1>3. ASSUME NEW g \in Groups
      PROVE  dlist'[g] \in Seq(Slots) /\ Once(dlist[g], Members(g))'
  <2>1. Members(g)' = Members(g) \ S /\ Members(g) \subseteq Slots
    BY <1>1 DEF Members, Live
  <2>2. Once(dlist'[g], Members(g) \ S)
    BY <1>0, OnceWithout DEF PoolInv
  <2> QED BY <2>1, <2>2 DEF Once
<1>4. dlist' \in [Groups -> Seq(Slots)]
  BY <1>0, <1>3
<1>5. Increasing(ulist', uid')
  <2>1. ulist \in Seq(Live) /\ Increasing(ulist, uid)
    BY DEF PoolInv, Once
  <2> QED BY <1>0, <2>1, IncreasingWithout
<1> QED BY <1>1, <1>2, <1>3, <1>4, <1>5 DEF PoolInv, Increasing

-----------------------------------------------------------------------------
(* Where the walks stand.  A callback that frees objects (AfterFrame and     *)
(* ResetPool are refused nowhere) may free what the walk it runs under has in *)
(* its hands; without such callbacks a walk stands on live objects.  What a   *)
(* failed callback leaves locked may be freed, but then m_is_detecting_       *)
(* intersect is left as well, and no collision check begins.                  *)

CallbacksFreeNothing == CallbackOps \cap {"AfterFrame", "ResetPool"} = {}

\* What a walk may have in its hands.
Held == IF CallbacksFreeNothing THEN Live ELSE Slots

Entries(S) == [a : S, b : S, uidA : Uids, uidB : Uids,
               tabA : Uids \cup {NoUid}, tabB : Uids \cup {NoUid}]

PlaceInv ==
  /\ phase \in {"script", "crashed"} => ~inCb
  /\ phase = "bound" => cur \in Held \cup {None} /\ (~inCb => cur \in Live \cup {None})
  /\ phase = "collide" => /\ ptrA \in Held \cup {None} /\ ptrB \in Held \cup {None}
                          /\ ptrB # None => cur \in Held
  /\ phase \notin {"collide", "crashed"} => ptrB = None
  /\ phase \in {"update", "bound"} /\ inCb => cur # None
  /\ phase \in {"boundCall", "collideCall"} => cache \in Seq(Entries(Held))
  /\ phase \in {"boundCall", "collideCall"} /\ inCb => cache # <<>>
  /\ grp \in Groups \X Groups
  /\ lock \in Objects \X Objects
  /\ phase \in {"collide", "collideCall"} => detecting
  /\ \A k \in {1, 2} :
       lock[k] # None =>
         /\ detecting
         /\ phase \in {"collide", "collideCall"} => lock[k] \in Held /\ inCb

ListInv == HandleInv /\ PoolInv /\ PlaceInv

\* Nobody is taken away from a walk that goes on as it is.
LEMMA PlaceSame ==
  ASSUME PlaceInv, UNCHANGED <<phase, ptrA, ptrB, grp, cache, inCb, lock, detecting>>,
         cur' = cur \/ phase = "render", Live \subseteq Live'
  PROVE  PlaceInv'
<1>1. Held \subseteq Held'
  BY DEF Held, Live
<1>2. phase \in {"boundCall", "collideCall"} => cache' \in Seq(Entries(Held'))
  <2> SUFFICES ASSUME phase \in {"boundCall", "collideCall"} PROVE cache \in Seq(Entries(Held'))
    OBVIOUS
  <2>1. cache \in Seq(Entries(Held))
    BY DEF PlaceInv
  <2>2. Entries(Held) \subseteq Entries(Held')
    BY <1>1 DEF Entries
  <2> QED BY <2>1, <2>2
<1>3. phase \in {"bound", "collide"} => cur' = cur
  OBVIOUS
<1> HIDE DEF Live
<1> QED BY <1>1, <1>2, <1>3 DEF PlaceInv

\* A batch operation that frees objects: what it frees stays in the hands of the
\* walk whose callback called it.
LEMMA PlaceFree ==
  ASSUME PlaceInv, MayDo("AfterFrame") \/ MayDo("ResetPool"),
         \/ phase' = phase /\ inCb' = inCb
         \/ phase' = "crashed" /\ ~inCb',
         cur' = cur \/ phase = "render",
         UNCHANGED <<ptrA, ptrB, grp, cache, detecting>>,
         lock' = lock \/ lock' = <<None, None>>
  PROVE  PlaceInv'
<1>1. lock' \in Objects \X Objects /\ \A k \in {1, 2} : lock'[k] # None => lock'[k] = lock[k]
  BY DEF PlaceInv, Objects
<1>2. CASE phase' = "crashed"
  BY <1>1, <1>2 DEF PlaceInv
<1>3. CASE phase' = phase /\ inCb' = inCb /\ phase = "script"
  BY <1>1, <1>3 DEF PlaceInv
<1>4. CASE phase' = phase /\ inCb' = inCb /\ phase # "script"
  <2>1. inCb /\ Held = Slots /\ Held' = Slots
    BY <1>4 DEF MayDo, Held, CallbacksFreeNothing
  <2>2. phase \in {"bound", "collide"} => cur' = cur
    OBVIOUS
  <2> QED BY <1>1, <1>4, <2>1, <2>2 DEF PlaceInv
<1> QED BY <1>2, <1>3, <1>4

\* What the walks take out of a list of live objects.
LEMMA ListElements ==
  ASSUME NEW S, NEW q \in Seq(S)
  PROVE  /\ First(q) \in S \cup {None}
         /\ \A o : Successor(q, o) \in S \cup {None}
<1>1. First(q) \in S \cup {None}
  BY DEF First
<1>2. ASSUME NEW o PROVE Successor(q, o) \in S \cup {None}
  <2> DEFINE at == {i \in 1 .. Len(q) - 1 : q[i] = o}
  <2>1. Successor(q, o) = IF at = {} THEN None ELSE q[(CHOOSE i \in at : TRUE) + 1]
    BY DEF Successor
  <2>2. CASE at # {}
    <3>1. PICK i : i = CHOOSE x \in at : TRUE
      OBVIOUS
    <3>2. i \in at
      BY <2>2, <3>1
    <3>3. i + 1 \in 1 .. Len(q)
      BY <3>2
    <3> QED BY <2>1, <2>2, <3>1, <3>3
  <2> QED BY <2>1, <2>2
<1> QED BY <1>1, <1>2

LEMMA DivMod ==
  ASSUME NEW m \in Nat, NEW n \in Nat, NEW k \in 1 .. m * n
  PROVE  (k - 1) \div n \in 0 .. m - 1 /\ (k - 1) % n \in 0 .. n - 1
<1>1. n # 0 /\ m * n \in Int /\ k \in Int /\ 1 <= k /\ k <= m * n
  <2>1. m * n \in Int
    OBVIOUS
  <2>2. n = 0 => m * n = 0
    OBVIOUS
  <2> QED BY <2>1, <2>2
<1>2. PICK q \in Int : q = (k - 1) \div n
  BY <1>1
<1>3. PICK r \in Int : r = (k - 1) % n
  BY <1>1
<1>4. k - 1 = n * q + r /\ r \in 0 .. n - 1
  BY <1>1, <1>2, <1>3
<1>5. q >= 0
  <2> SUFFICES ASSUME q <= -1 PROVE FALSE
    OBVIOUS
  <2>1. n * q <= n * (-1)
    BY <1>1
  <2> QED BY <1>1, <1>4, <2>1
<1>6. q <= m - 1
  <2> SUFFICES ASSUME q >= m PROVE FALSE
    OBVIOUS
  <2>1. n * q >= m * n
    BY <1>1
  <2> QED BY <1>1, <1>4, <2>1
<1> QED BY <1>2, <1>3, <1>4, <1>5, <1>6

\* Every pair the nested loops of detectIntersection look at is one of live objects.
LEMMA ProductElements ==
  ASSUME PoolInv, NEW p \in Groups \X Groups
  PROVE  Product(p) \in Seq(Live \X Live)
<1> DEFINE A == dlist[p[1]]
           B == dlist[p[2]]
<1>1. A \in Seq(Live) /\ B \in Seq(Live) /\ Len(A) \in Nat /\ Len(B) \in Nat
  <2>1. A \in Seq(Members(p[1])) /\ B \in Seq(Members(p[2]))
    BY DEF PoolInv, Once
  <2>2. Members(p[1]) \subseteq Live /\ Members(p[2]) \subseteq Live
    BY DEF Members
  <2> HIDE DEF A, B
  <2> QED BY <2>1, <2>2
<1> HIDE DEF A, B
<1>2. ASSUME NEW k \in 1 .. Len(A) * Len(B)
      PROVE  <<A[((k - 1) \div Len(B)) + 1], B[((k - 1) % Len(B)) + 1]>> \in Live \X Live
  <2>1. (k - 1) \div Len(B) \in 0 .. Len(A) - 1 /\ (k - 1) % Len(B) \in 0 .. Len(B) - 1
    BY <1>1, DivMod
  <2> DEFINE i == (k - 1) \div Len(B)
             j == (k - 1) % Len(B)
  <2>2. i \in 0 .. Len(A) - 1 /\ j \in 0 .. Len(B) - 1
    BY <2>1
  <2> HIDE DEF i, j
  <2>3. A[i + 1] \in Live /\ B[j + 1] \in Live
    BY <1>1, <2>2
  <2> QED BY <2>3 DEF i, j
<1>3. Len(A) * Len(B) \in Nat
  BY <1>1
<1>4. PICK n \in Nat : n = Len(A) * Len(B)
  BY <1>3
<1>5. Product(p) = [k \in 1 .. n |-> <<A[((k - 1) \div Len(B)) + 1], B[((k - 1) % Len(B)) + 1]>>]
  BY <1>4 DEF Product, A, B
<1>6. Product(p) \in [1 .. n -> Live \X Live]
  BY <1>2, <1>4, <1>5
<1> QED BY <1>6

\* What the batch operations with a cache find: live objects, as they are.
Found == {Entry(x[1], x[2]) : x \in Live \X Live}

LEMMA FoundAreEntries ==
  ASSUME HandleInv, PoolInv
  PROVE  Found \subseteq Entries(Live)
<1>1. table \in [Slots -> Uids \cup {NoUid}] /\ uid \in [Slots -> Uids]
  BY DEF HandleInv, PoolInv
<1>2. ASSUME NEW x \in Live, NEW y \in Live PROVE Entry(x, y) \in Entries(Live)
  BY <1>1 DEF Entry, Entries, Live
<1> HIDE DEF Live
<1> QED BY <1>2 DEF Found

LEMMA FoundByBoundCheck ==
  ASSUME PoolInv, BoundCheck
  PROVE  cache' \in Seq(Found)
<1>1. PICK calls \in SUBSET Live :
        LET todo == Without(ulist, Slots \ calls)
        IN  cache' = [i \in 1 .. Len(todo) |-> Entry(todo[i], todo[i])]
  BY DEF BoundCheck
<1> DEFINE todo == Without(ulist, Slots \ calls)
<1>2. todo \in Seq(Live)
  <2>1. ulist \in Seq(Live)
    BY DEF PoolInv, Once
  <2> HIDE DEF Live
  <2> QED BY <2>1, WithoutIs
<1>3. cache' = [i \in 1 .. Len(todo) |-> Entry(todo[i], todo[i])]
  BY <1>1
<1> HIDE DEF todo
<1>4. \A i \in 1 .. Len(todo) : Entry(todo[i], todo[i]) \in Found
  <2> SUFFICES ASSUME NEW i \in 1 .. Len(todo) PROVE Entry(todo[i], todo[i]) \in Found
    OBVIOUS
  <2>1. <<todo[i], todo[i]>> \in Live \X Live
    BY <1>2
  <2> QED BY <2>1 DEF Found
<1>5. Len(todo) \in Nat
  BY <1>2
<1> HIDE DEF Live
<1> QED BY <1>3, <1>4, <1>5

LEMMA FoundByCollisionCheck ==
  ASSUME PoolInv, NEW p \in Groups \X Groups, NEW q \in Groups \X Groups,
         NEW P, P = <<p>> \/ P = <<p, q>>, CollisionCheck(P)
  PROVE  cache' \in Seq(Found)
<1> DEFINE todo == IF Len(P) = 1 THEN Product(P[1]) ELSE Product(P[1]) \o Product(P[2])
<1>1. todo \in Seq(Live \X Live)
  <2>1. Product(p) \in Seq(Live \X Live) /\ Product(q) \in Seq(Live \X Live)
    BY ProductElements
  <2> HIDE DEF Live
  <2> QED BY <2>1
<1>2. PICK i, j \in 0 .. Len(todo) :
        cache' = (IF i = 0 THEN <<>> ELSE <<Entry(todo[i][1], todo[i][2])>>)
                 \o (IF j = 0 THEN <<>> ELSE <<Entry(todo[j][1], todo[j][2])>>)
  BY DEF CollisionCheck
<1> HIDE DEF todo
<1>3. ASSUME NEW k \in 0 .. Len(todo)
      PROVE  (IF k = 0 THEN <<>> ELSE <<Entry(todo[k][1], todo[k][2])>>) \in Seq(Found)
  <2>1. CASE k = 0
    BY <2>1
  <2>2. CASE k # 0
    <3>1. k \in 1 .. Len(todo)
      BY <1>1, <2>2
    <3>2. todo[k] \in Live \X Live
      BY <1>1, <3>1
    <3>3. Entry(todo[k][1], todo[k][2]) \in Found
      BY <3>2 DEF Found
    <3> QED BY <2>2, <3>3
  <2> QED BY <2>1, <2>2
<1> QED BY <1>2, <1>3

\* What scripts do keeps the lists exact.
LEMMA ListScript == ListInv /\ Script => PoolInv' /\ PlaceInv'
<1> SUFFICES ASSUME ListInv, Script PROVE PoolInv' /\ PlaceInv'
  OBVIOUS
<1>0. /\ PoolInv /\ PlaceInv /\ status \in [Slots -> Status]
      /\ \A o \in Slots : Reachable(o) => o \in Live
  BY SizesAssumption DEF ListInv, HandleInv, HandlesAreFresh, PoolInv, Reachable
<1>1. ASSUME NEW o \in Slots, New(o) \/ NewInvalid(o) PROVE PoolInv' /\ PlaceInv'
  <2>1. Allocate(o) /\ UNCHANGED <<phase, ptrA, ptrB, grp, cache, inCb, lock, detecting, cur>>
    BY <1>1 DEF New, NewInvalid, flagVars, walkVars
  <2>2. Live \subseteq Live'
    BY <1>0, <2>1 DEF Allocate, Live
  <2> QED BY <1>0, <2>1, <2>2, ListsAllocate, PlaceSame
<1>2. ASSUME NEW o \in Slots, NEW s \in Status \ {"Free"}, QueueToFree(o, s) \/ SetStatus(o, s)
      PROVE  PoolInv' /\ PlaceInv'
  <2>1. /\ status' = [status EXCEPT ![o] = s] /\ o \in Live
        /\ UNCHANGED <<uid, group, iUid, ulist, rset, dlist>>
        /\ UNCHANGED <<phase, ptrA, ptrB, grp, cache, inCb, lock, detecting, cur>>
    BY <1>0, <1>2 DEF QueueToFree, SetStatus, listVars, flagVars, walkVars
  <2>2. status' \in [Slots -> Status] /\ Live' = Live
    BY <1>0, <2>1 DEF Live
  <2> QED BY <1>0, <2>1, <2>2, ListsSame, PlaceSame
<1>3. ASSUME NEW o \in Slots, DirtResetObject(o) PROVE PoolInv' /\ PlaceInv'
  <2>1. o \in Live /\ UNCHANGED <<phase, ptrA, ptrB, grp, cache, inCb, lock, detecting>> /\ Live' = Live
    BY <1>0, <1>3 DEF DirtResetObject, flagVars, Live
  <2>2. cur' = cur \/ phase = "render"
    BY <1>3 DEF DirtResetObject
  <2> QED BY <1>0, <1>3, <2>1, <2>2, ListsReset, PlaceSame
<1>4. ASSUME NEW o \in Slots, NEW g \in Groups, SetGroup(o, g) PROVE PoolInv' /\ PlaceInv'
  <2>1. o \in Live /\ UNCHANGED <<phase, ptrA, ptrB, grp, cache, inCb, lock, detecting, cur>> /\ Live' = Live
    BY <1>0, <1>4 DEF SetGroup, flagVars, walkVars, Live
  <2> QED BY <1>0, <1>4, <2>1, ListsGroup, PlaceSame
<1>5. ASSUME NEW o \in Slots, (\E l \in Layers : SetLayer(o, l)) \/ SetIgnore(o)
      PROVE  PoolInv' /\ PlaceInv'
  <2>1. /\ UNCHANGED <<uid, group, iUid, ulist, rset, dlist>> /\ UNCHANGED status
        /\ UNCHANGED <<phase, ptrA, ptrB, grp, cache, inCb, lock, detecting, cur>>
    BY <1>5 DEF SetLayer, SetIgnore, listVars, flagVars, walkVars
  <2>2. Live' = Live
    BY <2>1 DEF Live
  <2> QED BY <1>0, <2>1, <2>2, ListsSame, PlaceSame
<1>6. ASSUME NEW t \in -1 .. MaxPause, SetNextFrameSuperPauseTime(t) PROVE PoolInv' /\ PlaceInv'
  <2>1. /\ UNCHANGED <<uid, group, iUid, ulist, rset, dlist>> /\ UNCHANGED status
        /\ UNCHANGED <<phase, ptrA, ptrB, grp, cache, inCb, lock, detecting, cur>>
    BY <1>6 DEF SetNextFrameSuperPauseTime, objVars, listVars, walkVars
  <2>2. Live' = Live
    BY <2>1 DEF Live
  <2> QED BY <1>0, <2>1, <2>2, ListsSame, PlaceSame
<1> QED BY <1>1, <1>2, <1>3, <1>4, <1>5, <1>6 DEF Script, Status

\* So does every batch operation when it begins, the freeing ones included.
LEMMA ListBegin == ListInv /\ Begin => PoolInv' /\ PlaceInv'
<1> SUFFICES ASSUME ListInv, Begin PROVE PoolInv' /\ PlaceInv'
  OBVIOUS
<1>0. PoolInv /\ PlaceInv /\ status \in [Slots -> Status] /\ ulist \in Seq(Live)
  BY DEF ListInv, PoolInv, Once
<1>s. ASSUME phase = "script"
      PROVE  ~inCb /\ ptrB = None /\ (~detecting => \A k \in {1, 2} : lock[k] = None)
  BY <1>0, <1>s DEF PlaceInv
<1>h. \A q : q \in Seq(Found) => q \in Seq(Entries(Held))
  <2>1. Found \subseteq Entries(Live) /\ Entries(Live) \subseteq Entries(Held)
    BY FoundAreEntries DEF ListInv, Held, Live, Entries
  <2> HIDE DEF Live, Held, Entries, Found
  <2> QED BY <2>1
<1>1. ASSUME NEW v \in {1, 2}, UpdateNext(v) PROVE PoolInv' /\ PlaceInv'
  <2>1. PICK S \in SUBSET Live : Free(S)
    BY <1>1 DEF UpdateNext
  <2>2. freeWithCallbacks(S) /\ UNCHANGED <<uid, group, iUid>>
    BY <1>1, <2>1 DEF UpdateNext, Free
  <2>3. (phase' = phase /\ inCb' = inCb) \/ (phase' = "crashed" /\ ~inCb')
    BY <2>1 DEF Free
  <2>6. cur' = cur \/ phase = "render"
    BY <2>1 DEF Free
  <2>4. MayDo("AfterFrame") /\ UNCHANGED <<lock, detecting, ptrA, ptrB, grp, cache>>
    BY <1>1 DEF UpdateNext
  <2>5. PlaceInv'
    BY <1>0, <2>3, <2>4, <2>6, PlaceFree
  <2> QED BY <1>0, <2>2, <2>5, ListsFree
<1>2. CASE ResetPool
  <2>1. freeWithCallbacks(Live) /\ UNCHANGED <<uid, group, iUid>>
    BY <1>2 DEF ResetPool, Free
  <2>2. (phase' = phase /\ inCb' = inCb) \/ (phase' = "crashed" /\ ~inCb')
    BY <1>2 DEF ResetPool, Free
  <2>5. cur' = cur \/ phase = "render"
    BY <1>2 DEF ResetPool, Free
  <2>3. MayDo("ResetPool") /\ lock' = <<None, None>> /\ UNCHANGED <<detecting, ptrA, ptrB, grp, cache>>
    BY <1>2 DEF ResetPool
  <2>4. PlaceInv'
    BY <1>0, <2>2, <2>3, <2>5, PlaceFree
  <2> QED BY <1>0, <2>1, <2>4, ListsFree
<1>3. CASE BoundCheck
  <2>1. PICK out \in SUBSET Live :
          status' = [o \in Slots |-> IF o \in out THEN "Dead" ELSE status[o]]
    BY <1>3 DEF BoundCheck
  <2>2. status' \in [Slots -> Status] /\ Live' = Live
    BY <1>0, <2>1 DEF Status, Live
  <2>3. /\ UNCHANGED <<uid, group, iUid, ulist, rset, dlist>>
        /\ UNCHANGED <<lock, detecting, inCb, ptrB, grp>>
        /\ phase = "script" /\ phase' = "boundCall"
    BY <1>3 DEF BoundCheck, BeginWalk, listVars, flagVars
  <2>6. cache' \in Seq(Entries(Held))
    BY <1>0, <1>3, <1>h, FoundByBoundCheck
  <2>7. cache' \in Seq(Entries(Held))'
    BY <2>2, <2>6 DEF Held, Entries
  <2>8. PlaceInv'
    BY <1>0, <1>s, <2>3, <2>7 DEF PlaceInv
  <2> QED BY <1>0, <2>2, <2>3, <2>8, ListsSame
<1>4. ASSUME UNCHANGED <<objVars, listVars, lock>>, phase = "script",
             phase' \notin {"script", "boundCall", "crashed"},
             UNCHANGED <<inCb, ptrB>>, grp' \in Groups \X Groups,
             detecting' = detecting \/ (detecting' /\ ~detecting),
             phase' \in {"collide", "collideCall"} => detecting' /\ ~detecting,
             phase' = "bound" => cur' \in Live \cup {None},
             phase' = "collide" => ptrA' \in Live \cup {None},
             phase' = "collideCall" => cache' \in Seq(Found)
      PROVE  PoolInv' /\ PlaceInv'
  <2>1. Live' = Live /\ UNCHANGED <<uid, group, iUid, ulist, rset, dlist, status>>
    BY <1>4 DEF objVars, listVars, Live
  <2>2. Held' = Held /\ Live \subseteq Held /\ phase' # "boundCall"
    BY <1>4, <2>1 DEF Held, Live
  <2>3. phase' = "collideCall" => cache' \in Seq(Entries(Held'))
    BY <1>4, <1>h, <2>2 DEF Entries
  <2> HIDE DEF Live
  <2>4. PlaceInv'
    BY <1>0, <1>4, <1>s, <2>1, <2>2, <2>3 DEF PlaceInv
  <2> QED BY <1>0, <2>1, <2>4, ListsSame
<1>5. ASSUME NEW v \in {1, 2}, ObjFrame(v) PROVE PoolInv' /\ PlaceInv'
  BY <1>0, <1>4, <1>5 DEF ObjFrame, BeginWalk, PlaceInv
<1>6. CASE ObjRender
  BY <1>0, <1>4, <1>6 DEF ObjRender, BeginWalk, PlaceInv
<1>7. CASE BoundCheckLegacy
  <2>1. cur' \in Live \cup {None}
    BY <1>0, <1>7, ListElements DEF BoundCheckLegacy
  <2> QED BY <1>0, <1>4, <1>7, <2>1 DEF BoundCheckLegacy, BeginWalk, flagVars, PlaceInv
<1>8. ASSUME NEW g1 \in Groups, NEW g2 \in Groups, CollisionCheckLegacy(g1, g2)
      PROVE  PoolInv' /\ PlaceInv'
  <2>1. dlist[g1] \in Seq(Members(g1)) /\ Members(g1) \subseteq Live
    BY <1>0 DEF PoolInv, Once, Members
  <2>2. ptrA' \in Live \cup {None}
    BY <1>8, <2>1, ListElements DEF CollisionCheckLegacy
  <2> QED BY <1>4, <1>8, <2>2 DEF CollisionCheckLegacy, BeginWalk
<1>9. ASSUME NEW P, NEW p \in Groups \X Groups, NEW q \in Groups \X Groups,
             P = <<p>> \/ P = <<p, q>>, CollisionCheck(P)
      PROVE  PoolInv' /\ PlaceInv'
  <2>1. cache' \in Seq(Found)
    BY <1>0, <1>9, FoundByCollisionCheck
  <2> QED BY <1>0, <1>4, <1>9, <2>1 DEF CollisionCheck, BeginWalk, PlaceInv
<1> QED BY <1>1, <1>2, <1>3, <1>5, <1>6, <1>7, <1>8, <1>9 DEF Begin

\* And every step of a walk.
LEMMA ListWalk == ListInv /\ Walk => PoolInv' /\ PlaceInv'
<1> SUFFICES ASSUME ListInv, Walk PROVE PoolInv' /\ PlaceInv'
  OBVIOUS
<1>0. PoolInv /\ PlaceInv /\ status \in [Slots -> Status] /\ ulist \in Seq(Live)
  BY DEF ListInv, PoolInv, Once
<1>1. ASSUME UNCHANGED <<objVars, listVars>>
      PROVE  PoolInv' /\ Live' = Live /\ Held' = Held
  <2>1. Live' = Live /\ UNCHANGED <<uid, group, iUid, ulist, rset, dlist, status>>
    BY <1>1 DEF objVars, listVars, Live
  <2> QED BY <1>0, <2>1, ListsSame DEF Held
<1>h. Live \subseteq Held /\ Held \subseteq Slots
  BY DEF Held, Live
<1>2. \A o : Successor(ulist, o) \in Live \cup {None}
  BY <1>0, ListElements
<1>3. ASSUME NEW o \in Held PROVE DetectNext(o) \in Held \cup {None}
  <2>1. group[o] \in Groups
    BY <1>0, <1>h DEF PoolInv
  <2>2. dlist[group[o]] \in Seq(Members(group[o])) /\ Members(group[o]) \subseteq Live
    BY <1>0, <2>1 DEF PoolInv, Once, Members
  <2>3. DetectNext(o) \in Members(group[o]) \cup {None}
    BY <2>2, ListElements DEF DetectNext
  <2> HIDE DEF Live
  <2> QED BY <1>h, <2>2, <2>3
<1>4. CASE UpdateVisit \/ UpdateReturn \/ UpdateEnd
  <2>1. PoolInv' /\ Live' = Live /\ Held' = Held
    BY <1>1, <1>4 DEF UpdateVisit, UpdateReturn, UpdateEnd
  <2>2. PlaceInv'
    BY <1>0, <1>4, <2>1 DEF PlaceInv, UpdateVisit, UpdateReturn, UpdateEnd, EndWalk, flagVars
  <2> QED BY <2>1, <2>2
<1>5. CASE BoundVisit
  <2>1. cur \in Live /\ phase = "bound" /\ (cur' = cur \/ cur' = Successor(ulist, cur))
    BY <1>0, <1>5 DEF PlaceInv, BoundVisit, Advance
  <2>2. status' \in [Slots -> Status] /\ Live' = Live /\ Held' = Held
    BY <1>0, <1>5, <2>1 DEF BoundVisit, Status, Live, Held
  <2>3. PoolInv'
    BY <1>0, <1>5, <2>2, ListsSame DEF BoundVisit, listVars
  <2>4. PlaceInv'
    BY <1>0, <1>2, <1>5, <1>h, <2>1, <2>2 DEF PlaceInv, BoundVisit, flagVars
  <2> QED BY <2>3, <2>4
<1>6. CASE BoundReturn \/ BoundEnd
  <2>1. PoolInv' /\ Live' = Live /\ Held' = Held
    BY <1>1, <1>6 DEF BoundReturn, BoundEnd
  <2>2. PlaceInv'
    BY <1>0, <1>2, <1>6, <1>h, <2>1 DEF PlaceInv, BoundReturn, BoundEnd, EndWalk, Advance, flagVars
  <2> QED BY <2>1, <2>2
<1>7. CASE BoundCall \/ BoundCallReturn \/ BoundCallEnd
  <2>1. PoolInv' /\ Live' = Live /\ Held' = Held
    BY <1>1, <1>7 DEF BoundCall, BoundCallReturn, BoundCallEnd
  <2>2. phase = "boundCall" /\ cache \in Seq(Entries(Held))
    BY <1>0, <1>7 DEF PlaceInv, BoundCall, BoundCallReturn, BoundCallEnd
  <2>3. cache # <<>> => Tail(cache) \in Seq(Entries(Held))
    BY <2>2
  <2>4. ASSUME BoundCall \/ BoundCallReturn PROVE PlaceInv'
    <3>1. /\ cache # <<>> /\ phase' = "boundCall" /\ UNCHANGED <<ptrB, grp, lock, detecting>>
          /\ cache' = cache \/ (cache' = Tail(cache) /\ ~inCb')
      BY <1>0, <2>4 DEF PlaceInv, BoundCall, BoundCallReturn, flagVars
    <3> QED BY <1>0, <2>1, <2>2, <2>3, <3>1 DEF PlaceInv
  <2>5. ASSUME BoundCallEnd PROVE PlaceInv'
    BY <1>0, <2>1, <2>2, <2>5 DEF PlaceInv, BoundCallEnd, EndWalk, flagVars
  <2> QED BY <1>7, <2>1, <2>4, <2>5
<1>8. CASE CollideOuter
  <2>1. PoolInv' /\ Live' = Live /\ Held' = Held
    BY <1>1, <1>8 DEF CollideOuter
  <2>2. ptrA \in Held /\ grp[2] \in Groups /\ phase = "collide" /\ ~inCb
    BY <1>0, <1>8 DEF PlaceInv, CollideOuter
  <2>3. dlist[grp[2]] \in Seq(Members(grp[2])) /\ Members(grp[2]) \subseteq Live
    BY <1>0, <2>2 DEF PoolInv, Once, Members
  <2>s. First(dlist[grp[2]]) \in Members(grp[2]) \cup {None}
    BY <2>3, ListElements
  <2> HIDE DEF Live, Held
  <2>4. cur' \in Held /\ ptrA' \in Held \cup {None} /\ ptrB' \in Held \cup {None}
    BY <1>3, <1>8, <1>h, <2>2, <2>3, <2>s DEF CollideOuter
  <2>5. PlaceInv'
    BY <1>0, <1>8, <2>1, <2>2, <2>4 DEF PlaceInv, CollideOuter, flagVars
  <2> QED BY <2>1, <2>5
<1>9. CASE CollideInner
  <2>1. PoolInv' /\ Live' = Live /\ Held' = Held
    BY <1>1, <1>9 DEF CollideInner
  <2>2. ptrB \in Held /\ cur \in Held /\ phase = "collide" /\ ~inCb /\ Held \subseteq Objects
    BY <1>0, <1>9, <1>h DEF PlaceInv, CollideInner, Objects
  <2>3. ptrB' \in Held \cup {None}
    BY <1>3, <1>9, <2>2 DEF CollideInner
  <2> HIDE DEF Live, Held
  <2>4. PlaceInv'
    BY <1>0, <1>9, <2>1, <2>2, <2>3 DEF PlaceInv, CollideInner
  <2> QED BY <2>1, <2>4
<1>10. CASE CollideReturn \/ CollideEnd
  <2>1. PoolInv' /\ Live' = Live /\ Held' = Held
    BY <1>1, <1>10 DEF CollideReturn, CollideEnd
  <2>2. 0 \in Groups
    BY SizesAssumption DEF Groups
  <2>3. PlaceInv'
    BY <1>0, <1>10, <2>1, <2>2 DEF PlaceInv, CollideReturn, CollideEnd, EndWalk, Objects
  <2> QED BY <2>1, <2>3
<1>11. CASE CollideCall
  <2>1. PoolInv' /\ Live' = Live /\ Held' = Held
    BY <1>1, <1>11 DEF CollideCall
  <2>2. cache \in Seq(Entries(Held)) /\ cache # <<>> /\ phase = "collideCall" /\ ~inCb
    BY <1>0, <1>11 DEF PlaceInv, CollideCall
  <2>3. Head(cache) \in Entries(Held) /\ Tail(cache) \in Seq(Entries(Held))
    BY <2>2
  <2>4. Head(cache).a \in Held /\ Head(cache).b \in Held /\ Held \subseteq Objects
    BY <1>h, <2>3 DEF Entries, Objects
  <2>5. /\ UNCHANGED <<phase, ptrB, grp, detecting>>
        /\ \/ inCb' = TRUE /\ lock' = <<Head(cache).a, Head(cache).b>> /\ cache' = cache
           \/ cache' = Tail(cache) /\ UNCHANGED <<inCb, lock>>
    BY <1>11 DEF CollideCall
  <2> HIDE DEF Live, Held
  <2>6. CASE inCb' = TRUE /\ lock' = <<Head(cache).a, Head(cache).b>> /\ cache' = cache
    <3>1. lock' \in Objects \X Objects /\ \A k \in {1, 2} : lock'[k] \in Held
      BY <2>4, <2>6
    <3> QED BY <1>0, <2>1, <2>2, <2>5, <2>6, <3>1 DEF PlaceInv
  <2>7. CASE cache' = Tail(cache) /\ UNCHANGED <<inCb, lock>>
    BY <1>0, <2>1, <2>2, <2>3, <2>5, <2>7 DEF PlaceInv
  <2> QED BY <2>1, <2>5, <2>6, <2>7
<1>12. CASE CollideCallReturn \/ CollideCallEnd
  <2>1. PoolInv' /\ Live' = Live /\ Held' = Held
    BY <1>1, <1>12 DEF CollideCallReturn, CollideCallEnd
  <2>2. cache \in Seq(Entries(Held)) /\ (cache # <<>> => Tail(cache) \in Seq(Entries(Held)))
    <3>1. cache \in Seq(Entries(Held))
      BY <1>0, <1>12 DEF PlaceInv, CollideCallReturn, CollideCallEnd
    <3> QED BY <3>1
  <2>3. ASSUME CollideCallReturn PROVE PlaceInv'
    <3>1. cache # <<>> /\ phase' = "collideCall"
      BY <1>0, <2>3 DEF PlaceInv, CollideCallReturn
    <3> QED BY <1>0, <2>1, <2>2, <2>3, <3>1 DEF PlaceInv, CollideCallReturn, Objects
  <2>4. ASSUME CollideCallEnd PROVE PlaceInv'
    BY <1>0, <2>1, <2>4 DEF PlaceInv, CollideCallEnd, EndWalk
  <2> QED BY <1>12, <2>1, <2>3, <2>4
<1>13. CASE RenderVisit \/ RenderReturn \/ RenderEnd
  <2>1. PoolInv' /\ Live' = Live /\ Held' = Held
    BY <1>1, <1>13 DEF RenderVisit, RenderReturn, RenderEnd
  <2>2. PlaceInv'
    BY <1>0, <1>13, <2>1 DEF PlaceInv, RenderVisit, RenderReturn, RenderEnd, EndWalk, flagVars
  <2> QED BY <2>1, <2>2
<1>14. CASE Fail
  <2>1. PoolInv' /\ 0 \in Groups
    BY <1>1, <1>14, SizesAssumption DEF Fail, Groups
  <2>2. PlaceInv'
    BY <1>0, <1>14, <2>1 DEF PlaceInv, Fail, EndWalk, flagVars
  <2> QED BY <2>1, <2>2
<1> QED BY <1>4, <1>5, <1>6, <1>7, <1>8, <1>9, <1>10, <1>11, <1>12, <1>13, <1>14 DEF Walk

LEMMA ListInvariantStep == ListInv /\ [Next]_vars => ListInv'
<1> SUFFICES ASSUME ListInv, [Next]_vars PROVE ListInv'
  OBVIOUS
<1>1. CASE UNCHANGED vars
  <2>1. HandleInv'
    BY <1>1 DEF ListInv, vars, HandleInv, HandlesAreFresh, Live
  <2>2. UNCHANGED <<status, uid, group, iUid, ulist, rset, dlist>> /\ Live' = Live
    BY <1>1 DEF vars, Live
  <2>3. PoolInv'
    BY <2>2, ListsSame DEF ListInv, PoolInv
  <2>4. PlaceInv'
    BY <1>1, <2>2, PlaceSame DEF ListInv, vars
  <2> QED BY <2>1, <2>3, <2>4 DEF ListInv
<1> QED BY <1>1, ScriptInv, BeginInv, WalkInv, ListScript, ListBegin, ListWalk DEF Next, ListInv

LEMMA ListInvariant == Spec => []ListInv
<1>1. Init => HandleInv
  BY SizesAssumption DEF Init, HandleInv, HandlesAreFresh, Status, Uids, Objects, Live
<1>2. Init => PoolInv /\ PlaceInv
  <2> SUFFICES ASSUME Init PROVE PoolInv /\ PlaceInv
    OBVIOUS
  <2>1. Live = {} /\ 0 \in Groups /\ 0 \in Uids
    BY SizesAssumption DEF Init, Live, Groups, Uids
  <2>2. PoolInv
    BY <2>1 DEF Init, PoolInv, Once, Members, Increasing, Status
  <2>3. PlaceInv
    BY <2>1 DEF Init, PlaceInv, Objects
  <2> QED BY <2>2, <2>3
<1>3. Init => ListInv
  BY <1>1, <1>2 DEF ListInv
<1> QED BY <1>3, ListInvariantStep, PTL DEF Spec

\* For every pool: whatever callbacks create, delete, reset and move, every
\* live object stays in the update list, the render set and the detect list of
\* its group, once, the update list in the order of the uids.
THEOREM ListsStayExact == Spec => []ListsExact
<1>1. ListInv => ListsExact
  <2> SUFFICES ASSUME ListInv PROVE ListsExact
    OBVIOUS
  <2>1. PoolInv
    BY DEF ListInv
  <2>2. Lists(ulist, Live) /\ \A g \in Groups : Lists(dlist[g], Members(g))
    BY <2>1, OnceLists DEF PoolInv
  <2> QED BY <2>1, <2>2 DEF PoolInv, ListsExact, Members, Increasing
<1> QED BY <1>1, ListInvariant, PTL

-----------------------------------------------------------------------------
(* What is found first and called later. *)

\* The object that had uid u and table t when it was found: its slot has it still
\* if the uid is the same, in use or freed.
StillThere(o, u, t) ==
  /\ u < iUid
  /\ uid[o] = u => table[o] \in {t, NoUid} /\ (status[o] # "Free" => table[o] = t)

CacheInv ==
  phase \in {"boundCall", "collideCall"} =>
    \A i \in 1 .. Len(cache) : /\ StillThere(cache[i].a, cache[i].uidA, cache[i].tabA)
                               /\ StillThere(cache[i].b, cache[i].uidB, cache[i].tabB)

\* New uids were never given out before: no step takes the slot of an object
\* and gives it the uid that object had.
LEMMA StillThereStep ==
  ASSUME ListInv, [Next]_vars, NEW o \in Slots, NEW u \in Uids, NEW t, StillThere(o, u, t)
  PROVE  StillThere(o, u, t)'
<1>0. /\ status \in [Slots -> Status] /\ uid \in [Slots -> Uids]
      /\ table \in [Slots -> Uids \cup {NoUid}] /\ iUid \in Int /\ u \in Int
      /\ \A x \in Slots : Reachable(x) => x \in Live
  BY SizesAssumption DEF ListInv, HandleInv, HandlesAreFresh, PoolInv, Reachable, Uids
<1>1. ASSUME uid'[o] = uid[o], table'[o] = table[o], iUid' = iUid \/ iUid' = iUid + 1,
             status'[o] # "Free" => status[o] # "Free"
      PROVE  StillThere(o, u, t)'
  BY <1>0, <1>1 DEF StillThere
<1>2. ASSUME uid'[o] = iUid, iUid' = iUid + 1 PROVE StillThere(o, u, t)'
  BY <1>0, <1>2 DEF StillThere
<1>3. ASSUME NEW x \in Slots, New(x) \/ NewInvalid(x) PROVE StillThere(o, u, t)'
  <2>1. /\ uid' = [uid EXCEPT ![x] = iUid] /\ iUid' = iUid + 1
        /\ status' = [status EXCEPT ![x] = "Active"]
        /\ table' = table \/ table' = [table EXCEPT ![x] = iUid]
    BY <1>3 DEF New, NewInvalid, Allocate, luaVars
  <2>2. CASE x = o
    BY <1>0, <1>2, <2>1, <2>2
  <2>3. CASE x # o
    BY <1>0, <1>1, <2>1, <2>3
  <2> QED BY <2>2, <2>3
<1>4. ASSUME NEW x \in Slots, DirtResetObject(x) PROVE StillThere(o, u, t)'
  <2>1. uid' = [uid EXCEPT ![x] = iUid] /\ iUid' = iUid + 1 /\ UNCHANGED <<status, table>>
    BY <1>4 DEF DirtResetObject, luaVars
  <2>2. CASE x = o
    BY <1>0, <1>2, <2>1, <2>2
  <2>3. CASE x # o
    BY <1>0, <1>1, <2>1, <2>3
  <2> QED BY <2>2, <2>3
<1>5. ASSUME NEW S \in SUBSET Slots, freeWithCallbacks(S), UNCHANGED <<uid, iUid>>
      PROVE  StillThere(o, u, t)'
  <2>1. /\ status'[o] = IF o \in S THEN "Free" ELSE status[o]
        /\ table'[o] = IF o \in S THEN NoUid ELSE table[o]
    BY <1>5 DEF freeWithCallbacks
  <2> QED BY <1>0, <1>5, <2>1 DEF StillThere
<1>6. ASSUME UNCHANGED <<uid, table, iUid>>, NEW x \in Live, NEW s, status' = [status EXCEPT ![x] = s]
      PROVE  StillThere(o, u, t)'
  BY <1>0, <1>1, <1>6 DEF Live
<1>7. ASSUME UNCHANGED <<uid, table, iUid, status>> PROVE StillThere(o, u, t)'
  BY <1>1, <1>7
<1>8. CASE Script
  <2>1. ASSUME NEW x \in Slots, NEW s \in Status, QueueToFree(x, s) \/ SetStatus(x, s)
        PROVE  StillThere(o, u, t)'
    BY <1>0, <1>6, <2>1 DEF QueueToFree, SetStatus, luaVars
  <2>2. ASSUME NEW x \in Slots,
               SetIgnore(x) \/ (\E g \in Groups : SetGroup(x, g)) \/ (\E l \in Layers : SetLayer(x, l))
        PROVE  StillThere(o, u, t)'
    BY <1>7, <2>2 DEF SetIgnore, SetGroup, SetLayer, luaVars
  <2>3. ASSUME NEW n \in -1 .. MaxPause, SetNextFrameSuperPauseTime(n) PROVE StillThere(o, u, t)'
    BY <1>7, <2>3 DEF SetNextFrameSuperPauseTime, objVars, luaVars
  <2> QED BY <1>3, <1>4, <1>8, <2>1, <2>2, <2>3 DEF Script, Status
<1>9. CASE Begin
  <2>1. ASSUME NEW v \in {1, 2}, UpdateNext(v) PROVE StillThere(o, u, t)'
    <3>1. PICK S \in SUBSET Slots : freeWithCallbacks(S)
      BY <2>1 DEF UpdateNext, Free, Live
    <3> QED BY <1>5, <2>1, <3>1 DEF UpdateNext
  <2>2. CASE ResetPool
    BY <1>5, <2>2 DEF ResetPool, Free, Live
  <2>3. CASE BoundCheck
    <3>1. PICK out \in SUBSET Live :
            status' = [x \in Slots |-> IF x \in out THEN "Dead" ELSE status[x]]
      BY <2>3 DEF BoundCheck
    <3>2. status'[o] # "Free" => status[o] # "Free"
      BY <3>1 DEF Live
    <3> QED BY <1>1, <2>3, <3>2 DEF BoundCheck, luaVars
  <2>4. ASSUME NEW v \in {1, 2}, ObjFrame(v) PROVE StillThere(o, u, t)'
    BY <1>7, <2>4 DEF ObjFrame, objVars, luaVars
  <2>5. CASE BoundCheckLegacy \/ ObjRender
    BY <1>7, <2>5 DEF BoundCheckLegacy, ObjRender, objVars, luaVars
  <2>6. ASSUME NEW g1 \in Groups, NEW g2 \in Groups, CollisionCheckLegacy(g1, g2)
        PROVE  StillThere(o, u, t)'
    BY <1>7, <2>6 DEF CollisionCheckLegacy, objVars, luaVars
  <2>7. ASSUME NEW P, CollisionCheck(P) PROVE StillThere(o, u, t)'
    BY <1>7, <2>7 DEF CollisionCheck, objVars, luaVars
  <2> QED BY <1>9, <2>1, <2>2, <2>3, <2>4, <2>5, <2>6, <2>7 DEF Begin
<1>10. CASE BoundVisit
  <2>1. cur \in Live
    BY <1>10 DEF BoundVisit, ListInv, PlaceInv
  <2>2. /\ status' = status \/ status' = [status EXCEPT ![cur] = "Dead"]
        /\ UNCHANGED <<uid, table, iUid>>
    BY <1>10 DEF BoundVisit, luaVars
  <2> QED BY <1>6, <1>7, <2>1, <2>2
<1>11. CASE Walk /\ ~BoundVisit
  BY <1>7, <1>11 DEF Walk, UpdateVisit, UpdateReturn, UpdateEnd, BoundReturn, BoundEnd, BoundCall,
     BoundCallReturn, BoundCallEnd, CollideOuter, CollideInner, CollideReturn, CollideEnd,
     CollideCall, CollideCallReturn, CollideCallEnd, RenderVisit, RenderReturn, RenderEnd, Fail,
     objVars, luaVars
<1>12. CASE UNCHANGED vars
  BY <1>7, <1>12 DEF vars
<1> QED BY <1>8, <1>9, <1>10, <1>11, <1>12 DEF Next

\* What a step leaves in the cache, or what it begins with.
LEMMA CacheIs ==
  ASSUME ListInv, [Next]_vars, phase' \in {"boundCall", "collideCall"}
  PROVE  \/ phase' = phase /\ (cache' = cache \/ (cache # <<>> /\ cache' = Tail(cache)))
         \/ cache' \in Seq(Found) /\ UNCHANGED <<uid, table, iUid>>
<1> DEFINE Goal == \/ phase' = phase /\ (cache' = cache \/ (cache # <<>> /\ cache' = Tail(cache)))
                   \/ cache' \in Seq(Found) /\ UNCHANGED <<uid, table, iUid>>
<1>0. PoolInv /\ PlaceInv
  BY DEF ListInv
<1>1. CASE Script
  <2>1. phase' = phase /\ cache' = cache
    BY <1>1 DEF Script, New, NewInvalid, QueueToFree, SetStatus, DirtResetObject, SetGroup,
       SetLayer, SetIgnore, SetNextFrameSuperPauseTime, walkVars
  <2> QED BY <2>1
<1>2. CASE Begin
  <2>1. ASSUME NEW v \in {1, 2}, UpdateNext(v) PROVE Goal
    BY <2>1 DEF UpdateNext, Free
  <2>2. ResetPool => Goal
    BY DEF ResetPool, Free
  <2>3. BoundCheck => Goal
    BY <1>0, FoundByBoundCheck DEF BoundCheck, luaVars
  <2>4. ASSUME NEW v \in {1, 2}, ObjFrame(v) PROVE FALSE
    BY <2>4 DEF ObjFrame, BeginWalk
  <2>5. ~BoundCheckLegacy /\ ~ObjRender
    BY DEF BoundCheckLegacy, ObjRender, BeginWalk
  <2>6. ASSUME NEW g1 \in Groups, NEW g2 \in Groups, CollisionCheckLegacy(g1, g2) PROVE FALSE
    BY <2>6 DEF CollisionCheckLegacy, BeginWalk
  <2>7. ASSUME NEW p \in Groups \X Groups, NEW q \in Groups \X Groups, NEW P,
               P = <<p>> \/ P = <<p, q>>, CollisionCheck(P)
        PROVE  Goal
    <3>1. cache' \in Seq(Found)
      BY <1>0, <2>7, FoundByCollisionCheck
    <3>2. UNCHANGED <<uid, table, iUid>>
      BY <2>7 DEF CollisionCheck, objVars, luaVars
    <3> QED BY <3>1, <3>2
  <2>8. Goal
    <3> HIDE DEF Goal
    <3> QED BY <1>2, <2>1, <2>2, <2>3, <2>4, <2>5, <2>6, <2>7 DEF Begin
  <2> QED BY <2>8
<1>3. CASE Walk
  <2>1. /\ phase' = phase
        /\ cache' = cache \/ (cache # <<>> /\ cache' = Tail(cache))
    BY <1>0, <1>3 DEF PlaceInv, Walk, UpdateVisit, UpdateReturn, UpdateEnd, BoundVisit, BoundReturn,
       BoundEnd, BoundCall, BoundCallReturn, BoundCallEnd, CollideOuter, CollideInner,
       CollideReturn, CollideEnd, CollideCall, CollideCallReturn, CollideCallEnd, RenderVisit,
       RenderReturn, RenderEnd, Fail, EndWalk
  <2> QED BY <2>1
<1>4. CASE UNCHANGED vars
  BY <1>4 DEF vars
<1> QED BY <1>1, <1>2, <1>3, <1>4 DEF Next

LEMMA CacheStep ==
  ASSUME ListInv, CacheInv, [Next]_vars
  PROVE  CacheInv'
<1> SUFFICES ASSUME phase' \in {"boundCall", "collideCall"},
                    NEW i \in 1 .. Len(cache'), NEW e, e = cache'[i]
             PROVE  StillThere(e.a, e.uidA, e.tabA)' /\ StillThere(e.b, e.uidB, e.tabB)'
  BY DEF CacheInv, StillThere
<1>1. CASE phase' = phase /\ (cache' = cache \/ (cache # <<>> /\ cache' = Tail(cache)))
  <2>1. cache \in Seq(Entries(Slots))
    <3>1. cache \in Seq(Entries(Held))
      BY <1>1 DEF ListInv, PlaceInv
    <3>2. Entries(Held) \subseteq Entries(Slots)
      BY DEF Held, Live, Entries
    <3> HIDE DEF Held, Entries
    <3> QED BY <3>1, <3>2
  <2>2. PICK k \in 1 .. Len(cache) : e = cache[k]
    <3>1. CASE cache' = cache
      BY <3>1
    <3>2. CASE cache # <<>> /\ cache' = Tail(cache)
      <4>1. i + 1 \in 1 .. Len(cache) /\ cache'[i] = cache[i + 1]
        BY <2>1, <3>2
      <4> QED BY <4>1
    <3> QED BY <1>1, <3>1, <3>2
  <2>3. e \in Entries(Slots)
    <3> HIDE DEF Entries
    <3> QED BY <2>1, <2>2
  <2>4. e.a \in Slots /\ e.b \in Slots /\ e.uidA \in Uids /\ e.uidB \in Uids
    BY <2>3 DEF Entries
  <2>5. StillThere(e.a, e.uidA, e.tabA) /\ StillThere(e.b, e.uidB, e.tabB)
    BY <1>1, <2>2 DEF CacheInv
  <2> QED BY <2>4, <2>5, StillThereStep
<1>2. CASE cache' \in Seq(Found) /\ UNCHANGED <<uid, table, iUid>>
  <2>1. e \in Found
    BY <1>2
  <2>2. PICK x \in Live \X Live : e = Entry(x[1], x[2])
    BY <2>1 DEF Found
  <2>3. PICK a, b \in Live : e = Entry(a, b)
    BY <2>2
  <2>4. uid[a] < iUid /\ uid[b] < iUid
    BY DEF ListInv, PoolInv
  <2>5. e.a = a /\ e.b = b /\ e.uidA = uid[a] /\ e.uidB = uid[b] /\ e.tabA = table[a] /\ e.tabB = table[b]
    BY <2>3 DEF Entry
  <2> QED BY <1>2, <2>4, <2>5 DEF StillThere
<1> QED BY <1>1, <1>2, CacheIs

\* For every pool, whatever callbacks do, freeing objects and using their slots
\* again included: BoundCheck(2) and CollisionCheck{...} call back for the objects
\* they found and for no others.
THEOREM BatchCallsWhatItFound == Spec => CallsWhatItFound
<1> DEFINE Good == ~inCb /\ inCb' /\ phase \in {"boundCall", "collideCall"} => CalledIsFound(Head(cache))
<1>1. Init => CacheInv
  BY DEF Init, CacheInv
<1>2. ListInv /\ CacheInv /\ [Next]_vars => CacheInv'
  BY CacheStep
<1>3. ASSUME ListInv, CacheInv, [Next]_vars PROVE [Good]_vars
  <2> SUFFICES ASSUME ~inCb, inCb', phase \in {"boundCall", "collideCall"}, Next
               PROVE  CalledIsFound(Head(cache))
    BY <1>3 DEF vars
  <2>1. ~Script
    BY DEF Script, New, NewInvalid, QueueToFree, SetStatus, DirtResetObject, SetGroup, SetLayer,
       SetIgnore, SetNextFrameSuperPauseTime, MayDo
  <2>2. ~Begin
    <3>1. phase # "script" /\ ~MayDo("AfterFrame") /\ ~MayDo("ResetPool")
      BY DEF MayDo
    <3>2. \A v : ~UpdateNext(v)
      BY <3>1 DEF UpdateNext
    <3>3. ~ResetPool
      BY <3>1 DEF ResetPool
    <3>4. \A v : ~ObjFrame(v)
      BY <3>1 DEF ObjFrame, BeginWalk
    <3>5. ~BoundCheckLegacy /\ ~BoundCheck /\ ~ObjRender
      BY <3>1 DEF BoundCheckLegacy, BoundCheck, ObjRender, BeginWalk
    <3>6. /\ \A g1, g2 : ~CollisionCheckLegacy(g1, g2)
          /\ \A P : ~CollisionCheck(P)
      BY <3>1 DEF CollisionCheckLegacy, CollisionCheck, BeginWalk
    <3> QED BY <3>2, <3>3, <3>4, <3>5, <3>6 DEF Begin
  <2>3. BoundCall \/ CollideCall
    BY <2>1, <2>2 DEF Next, Walk, UpdateVisit, UpdateReturn, UpdateEnd, BoundVisit, BoundReturn,
       BoundEnd, BoundCallReturn, BoundCallEnd, CollideOuter, CollideInner, CollideReturn,
       CollideEnd, CollideCallReturn, CollideCallEnd, RenderVisit, RenderReturn, RenderEnd, Fail
  <2>4. cache # <<>> /\ SameObjects(Head(cache)) /\ HasCallbacks(Head(cache).a)
    BY <2>3 DEF BoundCall, CollideCall
  <2>5. 1 \in 1 .. Len(cache) /\ Head(cache) = cache[1]
    <3>1. cache \in Seq(Entries(Held))
      BY <1>3 DEF ListInv, PlaceInv
    <3> QED BY <2>4, <3>1
  <2>6. /\ StillThere(Head(cache).a, Head(cache).uidA, Head(cache).tabA)
        /\ StillThere(Head(cache).b, Head(cache).uidB, Head(cache).tabB)
    BY <1>3, <2>5 DEF CacheInv
  <2> QED BY <2>4, <2>6 DEF StillThere, SameObjects, HasCallbacks, CalledIsFound
<1>4. Spec => [][Good]_vars
  <2> HIDE DEF Good
  <2> QED BY <1>1, <1>2, <1>3, ListInvariant, PTL DEF Spec
<1> QED BY <1>4, PTL DEF CallsWhatItFound

-----------------------------------------------------------------------------
(* Batch operations, when callbacks free nothing. *)

\* Then each begins where no other is under way.
LEMMA BeginIs ==
  ASSUME CallbacksFreeNothing, PlaceInv, Begin
  PROVE  /\ phase = "script" /\ ~inCb /\ ~inCb'
         /\ UNCHANGED <<ptrB, seen, again, layer, ignore, uid>>
         /\ phase' = "collide" => \E g1, g2 \in Groups : CollisionCheckLegacy(g1, g2)
<1> DEFINE Kept == phase = "script" /\ ~inCb' /\ UNCHANGED <<ptrB, seen, again, layer, ignore, uid>>
<1>0. (MayDo("AfterFrame") \/ MayDo("ResetPool") => phase = "script") /\ (phase = "script" => ~inCb)
  BY DEF MayDo, CallbacksFreeNothing, PlaceInv
<1>1. ASSUME NEW v \in {1, 2}, UpdateNext(v) PROVE Kept /\ phase' # "collide"
  BY <1>0, <1>1 DEF UpdateNext, Free, ghostVars
<1>2. ASSUME NEW v \in {1, 2}, ObjFrame(v) PROVE Kept /\ phase' # "collide"
  BY <1>0, <1>2 DEF ObjFrame, BeginWalk, objVars
<1>3. ResetPool => Kept /\ phase' # "collide"
  BY <1>0 DEF ResetPool, Free, ghostVars
<1>4. BoundCheckLegacy => Kept /\ phase' # "collide"
  BY <1>0 DEF BoundCheckLegacy, BeginWalk, objVars
<1>5. BoundCheck => Kept /\ phase' # "collide"
  BY <1>0 DEF BoundCheck, BeginWalk
<1>6. ObjRender => Kept /\ phase' # "collide"
  BY <1>0 DEF ObjRender, BeginWalk, objVars
<1>7. ASSUME NEW g1 \in Groups, NEW g2 \in Groups, CollisionCheckLegacy(g1, g2) PROVE Kept
  BY <1>0, <1>7 DEF CollisionCheckLegacy, BeginWalk, objVars
<1>8. ASSUME NEW P, CollisionCheck(P) PROVE Kept /\ phase' # "collide"
  <2>1. /\ phase = "script" /\ phase' = "collideCall"
        /\ UNCHANGED <<objVars, inCb, ptrB, seen, again>>
    BY <1>8 DEF CollisionCheck, BeginWalk
  <2> QED BY <1>0, <2>1 DEF objVars
<1> HIDE DEF Kept
<1> DEFINE Goal == Kept /\ (phase' = "collide" => \E g1, g2 \in Groups : CollisionCheckLegacy(g1, g2))
<1>9. Goal
  <2>1. ASSUME NEW v \in {1, 2}, UpdateNext(v) \/ ObjFrame(v) PROVE Goal
    BY <1>1, <1>2, <2>1
  <2>2. ASSUME NEW g1 \in Groups, NEW g2 \in Groups, CollisionCheckLegacy(g1, g2) PROVE Goal
    BY <1>7, <2>2
  <2>3. ASSUME NEW P, CollisionCheck(P) PROVE Goal
    BY <1>8, <2>3
  <2>4. CASE ResetPool \/ BoundCheckLegacy \/ BoundCheck \/ ObjRender
    BY <1>3, <1>4, <1>5, <1>6, <2>4
  <2> HIDE DEF Goal
  <2> QED BY <2>1, <2>2, <2>3, <2>4 DEF Begin
<1> QED BY <1>0, <1>9 DEF Kept

-----------------------------------------------------------------------------
(* The groups of a collision walk. *)

GroupInv ==
  phase = "collide" =>
    /\ ptrA # None => group[ptrA] = grp[1]
    /\ ptrB # None => group[cur] = grp[1] /\ group[ptrB] = grp[2]
    /\ inCb => /\ lock[1] \in Live /\ group[lock[1]] = grp[1]
               /\ lock[2] \in Live /\ group[lock[2]] = grp[2]

\* Outside of SetGroup a live object keeps its group.
LEMMA ScriptKeepsGroups ==
  ASSUME ListInv, Script, phase = "collide", "Group" \notin CallbackOps
  PROVE  /\ \A o \in Live : o \in Live' /\ group'[o] = group[o]
         /\ UNCHANGED <<phase, cur, inCb, ptrA, ptrB, grp, lock>>
<1>0. PoolInv /\ PlaceInv /\ \A o \in Slots : Reachable(o) => o \in Live
  BY SizesAssumption DEF ListInv, HandleInv, HandlesAreFresh, Reachable
<1> DEFINE Goal == /\ \A o \in Live : o \in Live' /\ group'[o] = group[o]
                   /\ UNCHANGED <<phase, cur, inCb, ptrA, ptrB, grp, lock>>
<1>1. ASSUME NEW o \in Slots, New(o) \/ NewInvalid(o) PROVE Goal
  BY <1>0, <1>1 DEF New, NewInvalid, Allocate, PoolInv, Live, flagVars, walkVars
<1>2. ASSUME NEW o \in Slots, NEW s \in Status \ {"Free"}, QueueToFree(o, s) \/ SetStatus(o, s)
      PROVE  Goal
  BY <1>0, <1>2 DEF QueueToFree, SetStatus, PoolInv, Live, flagVars, walkVars
<1>3. ASSUME NEW o \in Slots, DirtResetObject(o) PROVE Goal
  BY <1>0, <1>3 DEF DirtResetObject, Live, flagVars
<1>4. ASSUME NEW o \in Slots, NEW g \in Groups, SetGroup(o, g) PROVE Goal
  BY <1>4 DEF SetGroup, MayDo
<1>5. ASSUME NEW o \in Slots, (\E l \in Layers : SetLayer(o, l)) \/ SetIgnore(o) PROVE Goal
  BY <1>5 DEF SetLayer, SetIgnore, Live, flagVars, walkVars
<1>6. ASSUME NEW t \in -1 .. MaxPause, SetNextFrameSuperPauseTime(t) PROVE Goal
  BY <1>6 DEF SetNextFrameSuperPauseTime, Live, objVars, walkVars
<1> QED BY <1>1, <1>2, <1>3, <1>4, <1>5, <1>6 DEF Script, Status

LEMMA GroupStep ==
  ASSUME CallbacksFreeNothing, "Group" \notin CallbackOps, ListInv, GroupInv, [Next]_vars
  PROVE  GroupInv'
<1>0. PoolInv /\ PlaceInv /\ Held = Live
  BY DEF ListInv, Held
<1>1. CASE Script
  <2>1. CASE phase = "collide"
    <3>1. /\ \A o \in Live : o \in Live' /\ group'[o] = group[o]
          /\ UNCHANGED <<phase, cur, inCb, ptrA, ptrB, grp, lock>>
      BY <1>1, <2>1, ScriptKeepsGroups
    <3>2. /\ ptrA \in Live \cup {None} /\ ptrB \in Live \cup {None}
          /\ ptrB # None => cur \in Live
      BY <1>0, <2>1 DEF PlaceInv
    <3> HIDE DEF Live
    <3> QED BY <2>1, <3>1, <3>2 DEF GroupInv
  <2>2. CASE phase # "collide"
    <3>1. phase' = phase
      BY <1>1 DEF Script, New, NewInvalid, QueueToFree, SetStatus, DirtResetObject, SetGroup,
         SetLayer, SetIgnore, SetNextFrameSuperPauseTime, walkVars
    <3> QED BY <2>2, <3>1 DEF GroupInv
  <2> QED BY <2>1, <2>2
<1>2. ASSUME NEW g \in Groups PROVE First(dlist[g]) = None \/ group[First(dlist[g])] = g
  <2>1. First(dlist[g]) \in Members(g) \cup {None}
    BY <1>0, ListElements DEF PoolInv, Once
  <2> QED BY <2>1 DEF Members
<1>3. ASSUME NEW o \in Live PROVE DetectNext(o) = None \/ group[DetectNext(o)] = group[o]
  <2>1. group[o] \in Groups
    BY <1>0 DEF PoolInv, Live
  <2>2. DetectNext(o) \in Members(group[o]) \cup {None}
    BY <1>0, <2>1, ListElements DEF PoolInv, Once, DetectNext
  <2> QED BY <2>2 DEF Members
<1>4. CASE Begin
  <2>1. phase = "script" /\ ptrB = None /\ ~inCb
    BY <1>0, <1>4, BeginIs DEF PlaceInv
  <2>2. ASSUME NEW g1 \in Groups, NEW g2 \in Groups, CollisionCheckLegacy(g1, g2) PROVE GroupInv'
    BY <1>2, <2>1, <2>2 DEF CollisionCheckLegacy, GroupInv, objVars
  <2>3. ASSUME ~ \E g1, g2 \in Groups : CollisionCheckLegacy(g1, g2) PROVE phase' # "collide"
    BY <1>0, <1>4, <2>3, BeginIs
  <2> QED BY <2>2, <2>3 DEF GroupInv
<1>5. CASE CollideOuter
  <2>1. ptrA \in Live /\ group[ptrA] = grp[1] /\ grp \in Groups \X Groups /\ ~inCb
    BY <1>0, <1>5 DEF PlaceInv, GroupInv, CollideOuter
  <2>2. /\ ptrA' = None \/ group[ptrA'] = grp[1]
        /\ ptrB' = None \/ group[ptrB'] = grp[2]
    BY <1>2, <1>3, <1>5, <2>1 DEF CollideOuter
  <2> QED BY <1>5, <2>1, <2>2 DEF GroupInv, CollideOuter, objVars
<1>6. CASE CollideInner
  <2>1. /\ ptrB \in Live /\ cur \in Live /\ group[cur] = grp[1] /\ group[ptrB] = grp[2]
        /\ ~inCb /\ phase = "collide"
    BY <1>0, <1>6 DEF PlaceInv, GroupInv, CollideInner
  <2>2. (ptrB' = None \/ group[ptrB'] = grp[2]) /\ Live' = Live
    BY <1>3, <1>6, <2>1 DEF CollideInner, objVars, Live
  <2>3. UNCHANGED <<group, grp, cur, ptrA>>
    BY <1>6 DEF CollideInner, objVars
  <2>4. inCb' => lock' = <<cur, ptrB>>
    BY <1>6, <2>1 DEF CollideInner
  <2> HIDE DEF Live
  <2> QED BY <2>1, <2>2, <2>3, <2>4 DEF GroupInv
<1>7. CASE CollideReturn
  BY <1>7 DEF GroupInv, CollideReturn, objVars
<1>8. ASSUME Walk, ~CollideOuter, ~CollideInner, ~CollideReturn PROVE phase' # "collide"
  BY <1>8 DEF Walk, UpdateVisit, UpdateReturn, UpdateEnd, BoundVisit, BoundReturn, BoundEnd,
     BoundCall, BoundCallReturn, BoundCallEnd, CollideEnd, CollideCall, CollideCallReturn,
     CollideCallEnd, RenderVisit, RenderReturn, RenderEnd, Fail, EndWalk
<1>9. CASE UNCHANGED vars
  BY <1>9 DEF vars, GroupInv, Live
<1>10. phase' # "collide" => GroupInv'
  BY DEF GroupInv
<1> QED BY <1>1, <1>4, <1>5, <1>6, <1>7, <1>8, <1>9, <1>10 DEF Next

\* As long as callbacks move nobody to another group and do not call AfterFrame
\* or ResetPool, CollisionCheck(g1, g2) hands its callback an object of group g1
\* and one of g2, whatever else the callbacks do; that the condition on groups is
\* needed is what a run shows.
THEOREM CallbackSeesItsGroups ==
  ASSUME CallbacksFreeNothing, "Group" \notin CallbackOps
  PROVE  Spec => []TriggerInGroups
<1>1. Init => GroupInv
  BY DEF Init, GroupInv
<1>2. ListInv /\ GroupInv /\ [Next]_vars => GroupInv'
  BY GroupStep
<1>3. GroupInv => TriggerInGroups
  BY DEF GroupInv, TriggerInGroups
<1> QED BY <1>1, <1>2, <1>3, ListInvariant, PTL DEF Spec

-----------------------------------------------------------------------------
(* The order of a walk: places in a list, or layers and uids. *)

\* x stands before y in q.
Comes(q, x, y) == \E i, j \in 1 .. Len(q) : i < j /\ q[i] = x /\ q[j] = y

\* In a list that holds each element once that is a strict order.
LEMMA ComesOrder ==
  ASSUME NEW S, NEW q, Once(q, S)
  PROVE  /\ \A x : ~Comes(q, x, x)
         /\ \A x, y, z : Comes(q, x, y) /\ Comes(q, y, z) => Comes(q, x, z)
         /\ \A x, y : Comes(q, x, y) => x \in S /\ y \in S
<1>1. /\ Len(q) \in Nat /\ \A i \in 1 .. Len(q) : q[i] \in S
      /\ \A i, j \in 1 .. Len(q) : q[i] = q[j] => i = j
  BY DEF Once
<1>2. ASSUME NEW x, Comes(q, x, x) PROVE FALSE
  BY <1>1, <1>2 DEF Comes
<1>3. ASSUME NEW x, NEW y, NEW z, Comes(q, x, y), Comes(q, y, z) PROVE Comes(q, x, z)
  <2>1. PICK i, j \in 1 .. Len(q) : i < j /\ q[i] = x /\ q[j] = y
    BY <1>3 DEF Comes
  <2>2. PICK k, l \in 1 .. Len(q) : k < l /\ q[k] = y /\ q[l] = z
    BY <1>3 DEF Comes
  <2>3. j = k /\ i < l
    BY <1>1, <2>1, <2>2
  <2> QED BY <2>1, <2>2, <2>3 DEF Comes
<1>4. ASSUME NEW x, NEW y, Comes(q, x, y) PROVE x \in S /\ y \in S
  BY <1>1, <1>4 DEF Comes
<1> QED BY <1>2, <1>3, <1>4

\* A walk begins with the first of a list ...
LEMMA ComesFirst ==
  ASSUME NEW S \in SUBSET Slots, NEW q, Once(q, S)
  PROVE  /\ First(q) \in S \cup {None}
         /\ \A x \in S : First(q) # None /\ (x = First(q) \/ Comes(q, First(q), x))
<1>1. /\ q \in Seq(S) /\ Len(q) \in Nat /\ \A i \in 1 .. Len(q) : q[i] \in S
      /\ First(q) \in S \cup {None}
  BY ListElements DEF Once
<1>2. ASSUME NEW x \in S PROVE First(q) # None /\ (x = First(q) \/ Comes(q, First(q), x))
  <2>1. PICK i \in 1 .. Len(q) : q[i] = x
    BY DEF Once
  <2>2. 1 \in 1 .. Len(q) /\ q # <<>> /\ First(q) = q[1] /\ q[1] \in Slots
    BY <1>1, <2>1 DEF First
  <2>3. CASE i = 1
    BY <2>1, <2>2, <2>3, SizesAssumption
  <2>4. CASE i # 1
    <3>1. 1 < i
      BY <2>4
    <3> QED BY <2>1, <2>2, <3>1, SizesAssumption DEF Comes
  <2> QED BY <2>3, <2>4
<1> QED BY <1>1, <1>2

\* ... and goes on to the next, passing over nobody.
LEMMA ComesNext ==
  ASSUME NEW S \in SUBSET Slots, NEW q, Once(q, S), NEW o \in S
  PROVE  LET s == Successor(q, o)
         IN  /\ s \in S \cup {None}
             /\ s # None => Comes(q, o, s)
             /\ \A x : Comes(q, o, x) => s # None /\ (x = s \/ Comes(q, s, x))
<1> DEFINE s == Successor(q, o)
           at == {i \in 1 .. Len(q) - 1 : q[i] = o}
<1>1. /\ Len(q) \in Nat /\ \A i \in 1 .. Len(q) : q[i] \in S
      /\ \A i, j \in 1 .. Len(q) : q[i] = q[j] => i = j
  BY DEF Once
<1>2. s = IF at = {} THEN None ELSE q[(CHOOSE i \in at : TRUE) + 1]
  BY DEF Successor
<1>3. CASE at = {}
  <2>1. s = None
    BY <1>2, <1>3
  <2>2. \A x : ~Comes(q, o, x)
    BY <1>1, <1>3 DEF Comes
  <2> QED BY <2>1, <2>2
<1>4. CASE at # {}
  <2>1. PICK i : i = CHOOSE x \in at : TRUE
    OBVIOUS
  <2>2. i \in at
    BY <1>4, <2>1
  <2>3. /\ i \in 1 .. Len(q) /\ i + 1 \in 1 .. Len(q) /\ q[i] = o /\ i < i + 1
        /\ s = q[i + 1] /\ s \in S /\ s # None
    BY <1>1, <1>2, <1>4, <2>1, <2>2, SizesAssumption
  <2>4. Comes(q, o, s)
    BY <2>3 DEF Comes
  <2>5. ASSUME NEW x, Comes(q, o, x) PROVE x = s \/ Comes(q, s, x)
    <3>1. PICK k, j \in 1 .. Len(q) : k < j /\ q[k] = o /\ q[j] = x
      BY <2>5 DEF Comes
    <3>2. k = i /\ (j = i + 1 \/ i + 1 < j)
      BY <1>1, <2>3, <3>1
    <3> QED BY <2>3, <3>1, <3>2 DEF Comes
  <2> QED BY <2>3, <2>4, <2>5
<1> QED BY <1>3, <1>4

\* What is added at the end changes nothing before it.
LEMMA ComesAppend ==
  ASSUME NEW S, NEW q \in Seq(S), NEW o, NEW x, NEW y, Comes(q, x, y)
  PROVE  Comes(Append(q, o), x, y)
<1>1. /\ Len(q) \in Nat /\ Len(Append(q, o)) = Len(q) + 1
      /\ \A i \in 1 .. Len(q) : Append(q, o)[i] = q[i] /\ i \in 1 .. Len(q) + 1
  OBVIOUS
<1> QED BY <1>1 DEF Comes

\* A set of numbers has a smallest one.
LEMMA SmallestNumber ==
  ASSUME NEW T, T \subseteq Nat, T # {}
  PROVE  \E x \in T : \A y \in T : x <= y
<1> DEFINE R == {p \in Nat \X Nat : p[1] < p[2]}
<1>1. IsWellFoundedOn(R, Nat)
  <2>1. R = OpToRel(<, Nat)
    BY DEF OpToRel
  <2> QED BY <2>1, NatLessThanWellFounded, Zenon
<1>2. PICK x \in T : \A y \in T : ~(<<y, x>> \in R)
  BY <1>1, WFMin
<1>3. ASSUME NEW y \in T PROVE x <= y
  <2>1. x \in Nat /\ y \in Nat /\ ~(<<y, x>> \in R)
    BY <1>2
  <2>2. <<y, x>> \in Nat \X Nat /\ <<y, x>>[1] = y /\ <<y, x>>[2] = x
    BY <2>1
  <2>3. ~(<<y, x>>[1] < <<y, x>>[2])
    BY <2>1, <2>2
  <2> QED BY <2>1, <2>2, <2>3
<1> QED BY <1>3

\* GameObjectLayerComparer orders live objects: uids tell those of a layer apart.
LEMMA BeforeOrder ==
  ASSUME PoolInv, layer \in [Slots -> Int]
  PROVE  /\ \A x \in Live : ~Before(x, x)
         /\ \A x, y, z \in Live : Before(x, y) /\ Before(y, z) => Before(x, z)
         /\ \A x, y \in Live : x = y \/ Before(x, y) \/ Before(y, x)
<1>1. \A x \in Live : uid[x] \in Int /\ layer[x] \in Int
  BY DEF PoolInv, Live, Uids
<1>2. ASSUME NEW x \in Live, NEW y \in Live, uid[x] = uid[y] PROVE x = y
  <2>1. PICK i \in 1 .. Len(ulist) : ulist[i] = x
    BY DEF PoolInv, Once
  <2>2. PICK j \in 1 .. Len(ulist) : ulist[j] = y
    BY DEF PoolInv, Once
  <2>3. ~(i < j) /\ ~(j < i)
    <3>1. /\ i < j => uid[x] < uid[y]
          /\ j < i => uid[y] < uid[x]
      BY <2>1, <2>2 DEF PoolInv, Increasing
    <3> QED BY <1>1, <1>2, <3>1
  <2> QED BY <2>1, <2>2, <2>3
<1>3. \A x \in Live : ~Before(x, x)
  BY <1>1 DEF Before
<1>4. \A x, y, z \in Live : Before(x, y) /\ Before(y, z) => Before(x, z)
  BY <1>1 DEF Before
<1>5. \A x, y \in Live : x = y \/ Before(x, y) \/ Before(y, x)
  BY <1>1, <1>2 DEF Before
<1> QED BY <1>3, <1>4, <1>5

\* The render set is walked from the least object to the next.
LEMMA LeastIs ==
  ASSUME PoolInv, layer \in [Slots -> Int], NEW S \in SUBSET Live
  PROVE  /\ Least(S) \in S \cup {None}
         /\ \A x \in S : Least(S) # None /\ (x = Least(S) \/ Before(Least(S), x))
<1>1. CASE S = {}
  BY <1>1 DEF Least
<1>2. CASE S # {}
  <2> DEFINE Under(a) == {b \in S : Before(b, a)}
             rank == [a \in S |-> Cardinality(Under(a))]
             T == {rank[a] : a \in S}
  <2>1. IsFiniteSet(S) /\ S \subseteq Slots
    BY FS_Subset, SizesAssumption DEF Live
  <2>2. \A a \in S : IsFiniteSet(Under(a)) /\ rank[a] = Cardinality(Under(a)) /\ rank[a] \in Nat
    <3> SUFFICES ASSUME NEW a \in S
                 PROVE  IsFiniteSet(Under(a)) /\ Cardinality(Under(a)) \in Nat
      OBVIOUS
    <3>1. Under(a) \in SUBSET S
      OBVIOUS
    <3> QED BY <2>1, <3>1, FS_Subset, FS_CardinalityType
  <2>3. T \subseteq Nat /\ T # {}
    BY <1>2, <2>2
  <2>4. PICK m \in T : \A y \in T : m <= y
    BY <2>3, SmallestNumber
  <2>5. PICK a \in S : rank[a] = m
    BY <2>4
  <2>6. ASSUME NEW b \in S \ {a} PROVE Before(a, b)
    <3> SUFFICES ASSUME ~Before(a, b) PROVE FALSE
      OBVIOUS
    <3>1. a \in Live /\ b \in Live /\ Before(b, a)
      BY BeforeOrder
    <3>2. Under(b) \subseteq Under(a)
      <4> SUFFICES ASSUME NEW c \in S, Before(c, b) PROVE Before(c, a)
        OBVIOUS
      <4>1. c \in Live
        OBVIOUS
      <4> QED BY <3>1, <4>1, BeforeOrder
    <3>3. b \in Under(a) /\ b \notin Under(b)
      BY <3>1, BeforeOrder
    <3>4. Cardinality(Under(b)) < Cardinality(Under(a))
      <4>1. Under(b) \in SUBSET Under(a) /\ Under(b) # Under(a)
        BY <3>2, <3>3
      <4>2. /\ Cardinality(Under(b)) <= Cardinality(Under(a))
            /\ Cardinality(Under(a)) = Cardinality(Under(b)) => Under(a) = Under(b)
        BY <2>2, <4>1, FS_Subset
      <4>3. Cardinality(Under(b)) \in Nat /\ Cardinality(Under(a)) \in Nat
        BY <2>2, FS_CardinalityType
      <4> QED BY <4>1, <4>2, <4>3
    <3>5. rank[a] <= rank[b]
      BY <2>4, <2>5
    <3>6. rank[a] = Cardinality(Under(a)) /\ rank[b] = Cardinality(Under(b))
      OBVIOUS
    <3>7. Cardinality(Under(a)) \in Nat /\ Cardinality(Under(b)) \in Nat
      BY <2>2, FS_CardinalityType
    <3> HIDE DEF Under, rank, T
    <3> QED BY <3>4, <3>5, <3>6, <3>7
  <2> HIDE DEF Under, rank, T
  <2>7. Least(S) = CHOOSE x \in S : \A b \in S \ {x} : Before(x, b)
    BY <1>2 DEF Least
  <2>8. Least(S) \in S /\ \A b \in S \ {Least(S)} : Before(Least(S), b)
    BY <2>6, <2>7
  <2> QED BY <2>1, <2>8, SizesAssumption
<1> QED BY <1>1, <1>2

-----------------------------------------------------------------------------
(* What a walk has seen. *)

\* What callbacks must not do for a walk to see everything once: move an object
\* to the end of its lists, to another group, or in and out of the super pause,
\* or free it.
CallbacksLeavePlaces ==
  CallbackOps \cap {"Reset", "Group", "Ignore", "AfterFrame", "ResetPool"} = {}

OneByOne == {"update", "bound", "render"}

\* The order in which a walk gets to the objects.
Precedes(x, y) == IF phase = "render" THEN Before(x, y) ELSE Comes(ulist, x, y)

\* A walk has seen only what is behind it, and what it was to see is seen or
\* in front of it.
SightInv ==
  /\ layer \in [Slots -> Int] /\ ignore \in [Slots -> BOOLEAN] /\ again = FALSE
  /\ phase \notin OneByOne \cup {"collide"} => seen = {}
  /\ phase = "render" => rendering
  /\ phase \in OneByOne =>
       /\ cur \in Live \cup {None}
       /\ inCb => cur # None
       /\ \A x \in begun \cup seen : x[1] \in Live /\ x = <<x[1], None>>
       /\ \A x \in seen : cur # None => Precedes(x[1], cur) \/ (inCb /\ x[1] = cur)
       /\ \A x \in begun : \/ x \in seen
                           \/ cur # None /\ (Precedes(cur, x[1]) \/ (x[1] = cur /\ ~inCb))
  /\ phase = "update" => \A x \in begun : ~Paused(x[1], time)

\* The same for the two loops of CollisionCheck(g1, g2), which stand between
\* cur and ptrA, and before ptrB.
PairInv ==
  phase = "collide" =>
    /\ ptrA # None => ptrA \in Members(grp[1])
    /\ ptrB # None => ptrB \in Members(grp[2]) /\ cur \in Members(grp[1])
    /\ ptrA # None /\ ptrB # None => Comes(dlist[grp[1]], cur, ptrA)
    /\ \A x \in begun \cup seen :
         x = <<x[1], x[2]>> /\ x[1] \in Members(grp[1]) /\ x[2] \in Members(grp[2])
    /\ \A x \in seen : ptrA # None => Comes(dlist[grp[1]], x[1], ptrA)
    /\ \A x \in seen : ptrB # None => \/ Comes(dlist[grp[1]], x[1], cur)
                                      \/ x[1] = cur /\ Comes(dlist[grp[2]], x[2], ptrB)
    /\ \A x \in begun :
         \/ x \in seen
         \/ ptrA # None /\ (x[1] = ptrA \/ Comes(dlist[grp[1]], ptrA, x[1]))
         \/ ptrB # None /\ x[1] = cur /\ (x[2] = ptrB \/ Comes(dlist[grp[2]], ptrB, x[2]))

\* The order is one.
LEMMA PrecedesOrder ==
  ASSUME ListInv, SightInv
  PROVE  /\ \A x \in Live : ~Precedes(x, x)
         /\ \A x, y, z \in Live : Precedes(x, y) /\ Precedes(y, z) => Precedes(x, z)
<1>1. PoolInv /\ Once(ulist, Live) /\ layer \in [Slots -> Int]
  BY DEF ListInv, PoolInv, SightInv
<1>2. /\ \A x \in Live : ~Comes(ulist, x, x)
      /\ \A x, y, z \in Live : Comes(ulist, x, y) /\ Comes(ulist, y, z) => Comes(ulist, x, z)
  BY <1>1, ComesOrder
<1> QED BY <1>1, <1>2, BeforeOrder DEF Precedes

\* c is where a walk goes from o.
Follower(c, o) ==
  /\ c \in Live \cup {None}
  /\ c # None => Precedes(o, c)
  /\ \A x \in Live : Precedes(o, x) => c # None /\ (x = c \/ Precedes(c, x))

LEMMA NextIs ==
  ASSUME ListInv, SightInv, cur \in Live
  PROVE  /\ phase # "render" => Follower(Successor(ulist, cur), cur)
         /\ phase = "render" => Follower(Least({o \in rset : Before(cur, o)}), cur)
<1>1. PoolInv /\ Once(ulist, Live) /\ layer \in [Slots -> Int] /\ rset = Live
  BY DEF ListInv, PoolInv, SightInv
<1>2. ASSUME phase # "render" PROVE Follower(Successor(ulist, cur), cur)
  <2>1. Live \in SUBSET Slots
    BY DEF Live
  <2> HIDE DEF Live
  <2> QED BY <1>1, <1>2, <2>1, ComesNext DEF Follower, Precedes
<1>3. ASSUME phase = "render" PROVE Follower(Least({o \in rset : Before(cur, o)}), cur)
  <2> DEFINE S == {o \in Live : Before(cur, o)}
  <2>1. S \in SUBSET Live /\ \A x \in Live : x \in S <=> Before(cur, x)
    OBVIOUS
  <2>2. None \notin Live
    BY SizesAssumption DEF Live
  <2> HIDE DEF S, Live
  <2>3. /\ Least(S) \in S \cup {None}
        /\ \A x \in S : Least(S) # None /\ (x = Least(S) \/ Before(Least(S), x))
    BY <1>1, <2>1, LeastIs
  <2>4. Follower(Least(S), cur)
    BY <1>3, <2>1, <2>2, <2>3 DEF Follower, Precedes
  <2> QED BY <1>1, <2>4 DEF S
<1> QED BY <1>2, <1>3

\* A walk goes on from cur once cur is dealt with.
LEMMA SightOn ==
  ASSUME ListInv, SightInv, phase \in OneByOne, cur \in Live, Live' = Live,
         UNCHANGED <<phase, ulist, uid, layer, ignore, time, rendering, begun, again>>,
         Follower(cur', cur), inCb' = FALSE,
         seen \subseteq seen', seen' \subseteq seen \cup {<<cur, None>>},
         <<cur, None>> \in begun => <<cur, None>> \in seen'
  PROVE  SightInv'
<1>1. \A x, y : Precedes(x, y)' <=> Precedes(x, y)
  BY DEF Precedes, Before
<1>2. /\ \A x \in Live : ~Precedes(x, x)
      /\ \A x, y, z \in Live : Precedes(x, y) /\ Precedes(y, z) => Precedes(x, z)
  BY PrecedesOrder
<1>3. None \notin Live
  BY SizesAssumption DEF Live
<1> HIDE DEF Live
<1>4. /\ \A x \in begun \cup seen : x[1] \in Live /\ x = <<x[1], None>>
      /\ \A x \in seen : Precedes(x[1], cur) \/ x[1] = cur
      /\ \A x \in begun : x \in seen \/ Precedes(cur, x[1]) \/ x[1] = cur
  BY <1>3 DEF SightInv
<1>5. /\ \A x \in begun' \cup seen' : x[1] \in Live /\ x = <<x[1], None>>
      /\ \A x \in seen' : Precedes(x[1], cur) \/ x[1] = cur
      /\ \A x \in begun' : x \in seen' \/ Precedes(cur, x[1])
  BY <1>4
<1>6. \A x \in seen' : cur' # None => Precedes(x[1], cur')
  BY <1>2, <1>5 DEF Follower
<1>7. \A x \in begun' : x \in seen' \/ (cur' # None /\ (Precedes(cur', x[1]) \/ x[1] = cur'))
  <2> SUFFICES ASSUME NEW x \in begun', x \notin seen'
               PROVE  cur' # None /\ (Precedes(cur', x[1]) \/ x[1] = cur')
    OBVIOUS
  <2>1. x[1] \in Live /\ Precedes(cur, x[1])
    BY <1>5
  <2> QED BY <2>1 DEF Follower
<1>8. phase' = "update" => \A x \in begun' : ~Paused(x[1], time)'
  BY DEF SightInv, Paused
<1>9. cur' \in Live' \cup {None}
  BY DEF Follower
<1> QED BY <1>1, <1>5, <1>6, <1>7, <1>8, <1>9 DEF SightInv, OneByOne

\* Or it stops at cur for a callback, and has seen it.
LEMMA SightStops ==
  ASSUME ListInv, SightInv, phase \in OneByOne, cur \in Live, Live' = Live, ~inCb,
         UNCHANGED <<phase, ulist, uid, layer, ignore, time, rendering, begun, again, cur>>,
         inCb' = TRUE, seen' = seen \cup {<<cur, None>>}
  PROVE  SightInv'
<1>1. \A x, y : Precedes(x, y)' <=> Precedes(x, y)
  BY DEF Precedes, Before
<1>2. None \notin Live
  BY SizesAssumption DEF Live
<1> HIDE DEF Live
<1>3. /\ \A x \in begun \cup seen : x[1] \in Live /\ x = <<x[1], None>>
      /\ \A x \in seen : Precedes(x[1], cur)
      /\ \A x \in begun : x \in seen \/ Precedes(cur, x[1]) \/ x[1] = cur
  BY <1>2 DEF SightInv
<1>4. /\ \A x \in begun' \cup seen' : x[1] \in Live /\ x = <<x[1], None>>
      /\ \A x \in seen' : Precedes(x[1], cur) \/ x[1] = cur
      /\ \A x \in begun' : x \in seen' \/ Precedes(cur, x[1])
  BY <1>3
<1>5. phase' = "update" => \A x \in begun' : ~Paused(x[1], time)'
  BY DEF SightInv, Paused
<1> QED BY <1>1, <1>2, <1>4, <1>5 DEF SightInv, OneByOne

\* No object is looked at again.
LEMMA NotAgain ==
  ASSUME ListInv, SightInv, phase \in OneByOne, cur \in Live, ~inCb, LookAt(<<cur, None>>)
  PROVE  /\ UNCHANGED <<again, begun>> /\ seen' = seen \cup {<<cur, None>>}
<1>1. <<cur, None>> \notin seen
  <2> SUFFICES ASSUME <<cur, None>> \in seen PROVE FALSE
    OBVIOUS
  <2>1. cur # None /\ ~Precedes(cur, cur)
    BY PrecedesOrder, SizesAssumption DEF Live
  <2> QED BY <2>1 DEF SightInv
<1> QED BY <1>1 DEF LookAt, SightInv

\* The steps of the walks that take one object at a time.
LEMMA SightWalk ==
  ASSUME ListInv, SightInv, Walk, phase \in OneByOne
  PROVE  SightInv'
<1>0. /\ PoolInv /\ PlaceInv /\ rset = Live
      /\ cur \in Live \cup {None}
      /\ inCb => cur # None
  BY DEF ListInv, PoolInv, SightInv
<1>1. UNCHANGED objVars => Live' = Live /\ UNCHANGED <<uid, layer, ignore>>
  BY DEF objVars, Live
<1>2. /\ \A c : c = Successor(ulist, cur) /\ cur \in Live /\ phase # "render" => Follower(c, cur)
      /\ \A c : c = Least({o \in rset : Before(cur, o)}) /\ cur \in Live /\ phase = "render"
                  => Follower(c, cur)
  BY NextIs
<1>3. CASE UpdateVisit
  <2>1. /\ phase = "update" /\ cur \in Live /\ ~inCb
        /\ UNCHANGED <<objVars, listVars, flagVars, phase, time>>
    BY <1>0, <1>3 DEF UpdateVisit
  <2>2. Live' = Live /\ UNCHANGED <<uid, layer, ignore, ulist, time, rendering>>
    BY <1>1, <2>1 DEF listVars, flagVars
  <2>3. CASE Paused(cur, time)
    <3>1. Advance /\ inCb' = FALSE /\ UNCHANGED <<begun, seen, again>>
      BY <1>3, <2>1, <2>3 DEF UpdateVisit, ghostVars, PlaceInv
    <3>2. Follower(cur', cur)
      BY <1>2, <2>1, <3>1 DEF Advance
    <3>3. <<cur, None>> \notin begun
      BY <2>1, <2>3 DEF SightInv
    <3> QED BY <2>1, <2>2, <3>1, <3>2, <3>3, SightOn
  <2>4. CASE ~Paused(cur, time)
    <3>1. /\ LookAt(<<cur, None>>)
          /\ \/ inCb' = TRUE /\ cur' = cur
             \/ Advance /\ inCb' = inCb
      BY <1>3, <2>4 DEF UpdateVisit
    <3>2. UNCHANGED <<again, begun>> /\ seen' = seen \cup {<<cur, None>>}
      BY <2>1, <3>1, NotAgain
    <3>3. CASE inCb' = TRUE /\ cur' = cur
      BY <2>1, <2>2, <3>2, <3>3, SightStops
    <3>4. CASE Advance /\ inCb' = inCb
      <4>1. Follower(cur', cur) /\ inCb' = FALSE
        BY <1>2, <2>1, <3>4 DEF Advance, PlaceInv
      <4> QED BY <2>1, <2>2, <3>2, <4>1, SightOn
    <3> QED BY <3>1, <3>3, <3>4
  <2> QED BY <2>3, <2>4
<1>4. CASE BoundVisit
  <2>1. /\ phase = "bound" /\ cur \in Live /\ ~inCb
        /\ UNCHANGED <<phase, uid, layer, ignore, ulist, time, rendering>>
        /\ LookAt(<<cur, None>>)
        /\ \/ Advance /\ inCb' = inCb
           \/ inCb' = TRUE /\ cur' = cur
    BY <1>0, <1>4 DEF BoundVisit, listVars, flagVars
  <2>2. Live' = Live
    BY <1>0, <1>4, <2>1 DEF BoundVisit, Live, PoolInv
  <2>3. UNCHANGED <<again, begun>> /\ seen' = seen \cup {<<cur, None>>}
    BY <2>1, NotAgain
  <2>4. CASE inCb' = TRUE /\ cur' = cur
    BY <2>1, <2>2, <2>3, <2>4, SightStops
  <2>5. CASE Advance /\ inCb' = inCb
    <3>1. Follower(cur', cur) /\ inCb' = FALSE
      BY <1>2, <2>1, <2>5 DEF Advance
    <3> QED BY <2>1, <2>2, <2>3, <3>1, SightOn
  <2> QED BY <2>1, <2>4, <2>5
<1>5. CASE RenderVisit
  <2>1. /\ phase = "render" /\ cur \in Live /\ ~inCb
        /\ UNCHANGED <<objVars, listVars, flagVars, phase, time>>
        /\ LookAt(<<cur, None>>)
        /\ \/ RenderAdvance /\ inCb' = inCb
           \/ inCb' = TRUE /\ cur' = cur
    BY <1>0, <1>5 DEF RenderVisit
  <2>2. Live' = Live /\ UNCHANGED <<uid, layer, ignore, ulist, time, rendering>>
    BY <1>1, <2>1 DEF listVars, flagVars
  <2>3. UNCHANGED <<again, begun>> /\ seen' = seen \cup {<<cur, None>>}
    BY <2>1, NotAgain
  <2>4. CASE inCb' = TRUE /\ cur' = cur
    BY <2>1, <2>2, <2>3, <2>4, SightStops
  <2>5. CASE RenderAdvance /\ inCb' = inCb
    <3>1. Follower(cur', cur) /\ inCb' = FALSE
      BY <1>2, <2>1, <2>5 DEF RenderAdvance
    <3> QED BY <2>1, <2>2, <2>3, <3>1, SightOn
  <2> QED BY <2>1, <2>4, <2>5
<1>6. CASE UpdateReturn \/ BoundReturn \/ RenderReturn
  <2>1. /\ cur \in Live /\ inCb /\ inCb' = FALSE
        /\ UNCHANGED <<objVars, listVars, flagVars, phase, time, begun, seen, again>>
        /\ phase # "render" => Advance
        /\ phase = "render" => RenderAdvance
    BY <1>0, <1>6 DEF UpdateReturn, BoundReturn, RenderReturn, ghostVars
  <2>2. Live' = Live /\ UNCHANGED <<uid, layer, ignore, ulist, time, rendering>>
    BY <1>1, <2>1 DEF listVars, flagVars
  <2>3. Follower(cur', cur)
    BY <1>2, <2>1 DEF Advance, RenderAdvance
  <2>4. <<cur, None>> \in begun => <<cur, None>> \in seen
    <3>1. ~Precedes(cur, cur)
      BY <2>1, PrecedesOrder
    <3>2. \A x \in begun : x \in seen \/ Precedes(cur, x[1])
      BY <2>1 DEF SightInv
    <3> QED BY <3>1, <3>2
  <2> QED BY <2>1, <2>2, <2>3, <2>4, SightOn
<1>7. ASSUME EndWalk, UNCHANGED objVars PROVE SightInv'
  <2>1. phase' = "script" /\ seen' = {} /\ again' = FALSE /\ UNCHANGED <<layer, ignore>>
    BY <1>7 DEF EndWalk, objVars
  <2> QED BY <2>1 DEF SightInv, OneByOne
<1>8. CASE UpdateEnd \/ BoundEnd \/ RenderEnd \/ Fail
  BY <1>7, <1>8 DEF UpdateEnd, BoundEnd, RenderEnd, Fail
<1> QED BY <1>3, <1>4, <1>5, <1>6, <1>8
        DEF Walk, OneByOne, BoundCall, BoundCallReturn, BoundCallEnd, CollideOuter, CollideInner,
            CollideReturn, CollideEnd, CollideCall, CollideCallReturn, CollideCallEnd

\* Batch operations begin with nothing seen and everything in front.
LEMMA SightBegin ==
  ASSUME CallbacksFreeNothing, ListInv, SightInv, Begin
  PROVE  SightInv' /\ PairInv'
<1>0. /\ PoolInv /\ Once(ulist, Live) /\ rset = Live /\ \A g \in Groups : Once(dlist[g], Members(g))
      /\ phase = "script" /\ seen = {} /\ again = FALSE
      /\ layer \in [Slots -> Int] /\ ignore \in [Slots -> BOOLEAN]
      /\ ~inCb /\ ~inCb' /\ ptrB = None /\ UNCHANGED <<ptrB, seen, again, layer, ignore, uid>>
  <2>1. phase = "script" /\ ~inCb /\ ~inCb' /\ UNCHANGED <<ptrB, seen, again, layer, ignore, uid>>
    BY BeginIs DEF ListInv
  <2> QED BY <2>1 DEF ListInv, PoolInv, PlaceInv, SightInv, OneByOne
<1>1. ASSUME phase' \notin OneByOne \cup {"collide"} PROVE SightInv' /\ PairInv'
  BY <1>0, <1>1 DEF SightInv, PairInv, OneByOne
<1>2. ASSUME UNCHANGED <<status, ulist>> PROVE Live' = Live
  BY <1>2 DEF Live
<1>3. ASSUME phase' \in {"update", "bound"}, UNCHANGED <<status, ulist>>, cur' = First(ulist),
             \A x \in begun' : x[1] \in Live /\ x = <<x[1], None>>,
             phase' = "update" => \A x \in begun' : ~Paused(x[1], time)'
      PROVE  SightInv' /\ PairInv'
  <2>1. /\ First(ulist) \in Live \cup {None}
        /\ \A x \in Live : First(ulist) # None
                           /\ (x = First(ulist) \/ Comes(ulist, First(ulist), x))
    <3>1. Live \in SUBSET Slots
      BY DEF Live
    <3> HIDE DEF Live
    <3> QED BY <1>0, <3>1, ComesFirst
  <2>2. \A x, y : Precedes(x, y)' <=> Comes(ulist, x, y)
    BY <1>3 DEF Precedes
  <2>3. Live' = Live
    BY <1>2, <1>3
  <2> HIDE DEF Live
  <2>4. \A x \in begun' : cur' # None /\ (Precedes(cur, x[1])' \/ x[1] = cur')
    BY <1>3, <2>1, <2>2
  <2>5. cur' \in Live' \cup {None}
    BY <1>3, <2>1, <2>3
  <2>6. \A x \in begun' \cup seen' : x[1] \in Live' /\ x = <<x[1], None>>
    BY <1>0, <1>3, <2>3
  <2> QED BY <1>0, <1>3, <2>4, <2>5, <2>6 DEF SightInv, PairInv, OneByOne
<1>4. ASSUME NEW v \in {1, 2}, ObjFrame(v) PROVE SightInv' /\ PairInv'
  <2>1. /\ phase' = "update" /\ cur' = First(ulist) /\ UNCHANGED <<status, ulist, ignore>>
        /\ time' = pause'
        /\ begun' = {<<o, None>> : o \in {x \in Live : ~Paused(x, pause')}}
    BY <1>4 DEF ObjFrame, BeginWalk, objVars, listVars
  <2>2. \A x \in begun' : x[1] \in Live /\ x = <<x[1], None>> /\ ~Paused(x[1], time')
    BY <2>1
  <2>3. \A x \in begun' : ~Paused(x[1], time)'
    BY <2>1, <2>2 DEF Paused
  <2> HIDE DEF Live
  <2> QED BY <1>3, <2>1, <2>2, <2>3
<1>5. CASE BoundCheckLegacy
  <2>1. /\ phase' = "bound" /\ cur' = First(ulist) /\ UNCHANGED <<status, ulist>>
        /\ begun' = {<<o, None>> : o \in Live}
    BY <1>5 DEF BoundCheckLegacy, BeginWalk, objVars, listVars
  <2>2. \A x \in begun' : x[1] \in Live /\ x = <<x[1], None>>
    BY <2>1
  <2> HIDE DEF Live
  <2> QED BY <1>3, <2>1, <2>2
<1>6. CASE ObjRender
  <2>1. /\ phase' = "render" /\ rendering' = TRUE /\ cur' = Least(rset)
        /\ UNCHANGED <<status, ulist, uid, layer>> /\ begun' = {<<o, None>> : o \in Live}
    BY <1>6 DEF ObjRender, BeginWalk, objVars, listVars
  <2>2. \A x \in begun' : x[1] \in Live /\ x = <<x[1], None>>
    BY <2>1
  <2>3. \A x, y : Precedes(x, y)' <=> Before(x, y)
    BY <2>1 DEF Precedes, Before
  <2>4. Live' = Live
    BY <1>2, <2>1
  <2> HIDE DEF Live
  <2>5. /\ Least(rset) \in Live \cup {None}
        /\ \A x \in Live : Least(rset) # None /\ (x = Least(rset) \/ Before(Least(rset), x))
    BY <1>0, LeastIs
  <2>6. \A x \in begun' : cur' # None /\ (Precedes(cur, x[1])' \/ x[1] = cur')
    BY <2>1, <2>2, <2>3, <2>5
  <2>7. cur' \in Live' \cup {None} /\ \A x \in begun' \cup seen' : x[1] \in Live' /\ x = <<x[1], None>>
    BY <1>0, <2>1, <2>2, <2>4, <2>5
  <2> QED BY <1>0, <2>1, <2>6, <2>7 DEF SightInv, PairInv, OneByOne
<1>7. ASSUME NEW g1 \in Groups, NEW g2 \in Groups, CollisionCheckLegacy(g1, g2)
      PROVE  SightInv' /\ PairInv'
  <2>1. /\ phase' = "collide" /\ grp' = <<g1, g2>> /\ ptrA' = First(dlist[g1])
        /\ UNCHANGED <<status, group, dlist>>
        /\ begun' = {x \in Live \X Live : group[x[1]] = g1 /\ group[x[2]] = g2}
    BY <1>7 DEF CollisionCheckLegacy, BeginWalk, objVars, listVars
  <2>2. \A g \in Groups : Members(g)' = Members(g)
    BY <2>1 DEF Members, Live
  <2>3. grp'[1] = g1 /\ grp'[2] = g2
    BY <2>1
  <2>4. \A x \in begun' : x = <<x[1], x[2]>> /\ x[1] \in Members(g1) /\ x[2] \in Members(g2)
    BY <2>1 DEF Members
  <2>5. Members(g1) \in SUBSET Slots /\ Once(dlist[g1], Members(g1))
    BY <1>0 DEF Members, Live
  <2>6. /\ First(dlist[g1]) \in Members(g1) \cup {None}
        /\ \A x \in Members(g1) : First(dlist[g1]) # None
                     /\ (x = First(dlist[g1]) \/ Comes(dlist[g1], First(dlist[g1]), x))
    BY <2>5, ComesFirst
  <2>7. /\ SightInv'
    BY <1>0, <2>1 DEF SightInv, OneByOne
  <2>8. \A x \in begun' : ptrA' # None /\ (x[1] = ptrA' \/ Comes(dlist'[grp'[1]], ptrA', x[1]))
    BY <2>1, <2>3, <2>4, <2>6
  <2>9. ptrA' # None => ptrA' \in Members(grp[1])'
    BY <2>1, <2>2, <2>3, <2>6 DEF Members, Live
  <2>10. \A x \in begun' : x = <<x[1], x[2]>> /\ x[1] \in Members(grp[1])' /\ x[2] \in Members(grp[2])'
    BY <2>1, <2>3, <2>4 DEF Members, Live
  <2> QED BY <1>0, <2>7, <2>8, <2>9, <2>10 DEF PairInv
<1>8. ASSUME \/ \E v \in {1, 2} : UpdateNext(v)
             \/ ResetPool \/ BoundCheck
             \/ \E p, q \in Groups \X Groups : CollisionCheck(<<p>>) \/ CollisionCheck(<<p, q>>)
      PROVE  phase' \notin OneByOne \cup {"collide"}
  <2>1. ASSUME NEW S, Free(S) PROVE phase' \in {"script", "crashed"}
    BY <1>0, <2>1 DEF Free
  <2>2. ASSUME NEW P, CollisionCheck(P) PROVE phase' = "collideCall"
    BY <2>2 DEF CollisionCheck, BeginWalk
  <2>3. BoundCheck => phase' = "boundCall"
    BY DEF BoundCheck, BeginWalk
  <2> QED BY <1>0, <1>8, <2>1, <2>2, <2>3 DEF UpdateNext, ResetPool, OneByOne
<1> QED BY <1>1, <1>4, <1>5, <1>6, <1>7, <1>8 DEF Begin

\* Another member comes after o exactly where the detect list goes on from o.
LEMMA DetectNextIs ==
  ASSUME ListInv, NEW g \in Groups, NEW o \in Members(g)
  PROVE  /\ DetectNext(o) \in Members(g) \cup {None}
         /\ DetectNext(o) # None => Comes(dlist[g], o, DetectNext(o))
         /\ \A x : Comes(dlist[g], o, x) =>
              DetectNext(o) # None /\ (x = DetectNext(o) \/ Comes(dlist[g], DetectNext(o), x))
<1>1. /\ Members(g) \in SUBSET Slots /\ Once(dlist[g], Members(g))
      /\ DetectNext(o) = Successor(dlist[g], o)
  BY DEF ListInv, PoolInv, Members, Live, DetectNext
<1> HIDE DEF Members
<1> QED BY <1>1, ComesNext

\* The steps of the two loops, and of the walks over what was cached.
LEMMA PairWalk ==
  ASSUME ListInv, SightInv, PairInv, Walk, phase \notin OneByOne
  PROVE  SightInv' /\ PairInv'
<1> DEFINE A == dlist[grp[1]]
           B == dlist[grp[2]]
           MA == Members(grp[1])
           MB == Members(grp[2])
<1>0. /\ grp[1] \in Groups /\ grp[2] \in Groups
      /\ Once(A, MA) /\ Once(B, MB) /\ MA \in SUBSET Slots /\ MB \in SUBSET Slots
  BY DEF ListInv, PoolInv, PlaceInv, Members, Live
<1>1. /\ \A x : ~Comes(A, x, x) /\ ~Comes(B, x, x)
      /\ \A x, y, z : Comes(A, x, y) /\ Comes(A, y, z) => Comes(A, x, z)
      /\ \A x, y, z : Comes(B, x, y) /\ Comes(B, y, z) => Comes(B, x, z)
  BY <1>0, ComesOrder
<1>2. ASSUME phase' = "collide", phase = "collide",
             UNCHANGED <<status, group, layer, ignore, dlist, grp>>, again' = FALSE
      PROVE  /\ SightInv' /\ Members(grp[1])' = MA /\ Members(grp[2])' = MB
             /\ dlist'[grp'[1]] = A /\ dlist'[grp'[2]] = B
  BY <1>2 DEF SightInv, OneByOne, Members, Live
<1> HIDE DEF MA, MB, A, B
<1>3. CASE CollideOuter
  <2>1. /\ phase = "collide" /\ phase' = "collide" /\ ptrB = None /\ ptrA \in MA
        /\ cur' = ptrA /\ ptrA' = DetectNext(ptrA) /\ ptrB' = First(B)
        /\ UNCHANGED <<status, group, layer, ignore, dlist, grp, begun, seen, again>> /\ again = FALSE
    BY <1>3 DEF CollideOuter, PairInv, SightInv, objVars, listVars, ghostVars, MA, B
  <2>2. /\ SightInv' /\ Members(grp[1])' = MA /\ Members(grp[2])' = MB
        /\ dlist'[grp'[1]] = A /\ dlist'[grp'[2]] = B
    BY <1>2, <2>1
  <2>3. /\ ptrA' \in MA \cup {None}
        /\ ptrA' # None => Comes(A, ptrA, ptrA')
        /\ \A x : Comes(A, ptrA, x) => ptrA' # None /\ (x = ptrA' \/ Comes(A, ptrA', x))
    BY <1>0, <2>1, DetectNextIs DEF MA, A
  <2>4. /\ ptrB' \in MB \cup {None}
        /\ \A x \in MB : ptrB' # None /\ (x = ptrB' \/ Comes(B, ptrB', x))
    BY <1>0, <2>1, ComesFirst
  <2>5. /\ \A x \in begun \cup seen : x = <<x[1], x[2]>> /\ x[1] \in MA /\ x[2] \in MB
        /\ \A x \in seen : Comes(A, x[1], ptrA)
        /\ \A x \in begun : x \in seen \/ x[1] = ptrA \/ Comes(A, ptrA, x[1])
    BY <1>0, <2>1, SizesAssumption DEF PairInv, MA, MB, A, B
  <2>6. \A x \in seen : ptrA' # None => Comes(A, x[1], ptrA')
    BY <1>1, <2>3, <2>5
  <2>7. \A x \in begun : \/ x \in seen
                         \/ ptrA' # None /\ (x[1] = ptrA' \/ Comes(A, ptrA', x[1]))
                         \/ ptrB' # None /\ x[1] = cur' /\ (x[2] = ptrB' \/ Comes(B, ptrB', x[2]))
    BY <2>1, <2>3, <2>4, <2>5
  <2> QED BY <2>1, <2>2, <2>3, <2>4, <2>5, <2>6, <2>7 DEF PairInv
<1>4. CASE CollideInner
  <2>1. /\ phase = "collide" /\ phase' = "collide" /\ ptrB # None /\ ptrB \in MB /\ cur \in MA
        /\ LookAt(<<cur, ptrB>>) /\ ptrB' = DetectNext(ptrB)
        /\ UNCHANGED <<status, group, layer, ignore, dlist, grp, cur, ptrA>>
        /\ again = FALSE
    BY <1>4 DEF CollideInner, PairInv, SightInv, objVars, listVars, MA, MB
  <2>2. /\ ptrA # None => ptrA \in MA /\ Comes(A, cur, ptrA)
        /\ \A x \in begun \cup seen : x = <<x[1], x[2]>> /\ x[1] \in MA /\ x[2] \in MB
        /\ \A x \in seen : ptrA # None => Comes(A, x[1], ptrA)
        /\ \A x \in seen : Comes(A, x[1], cur) \/ (x[1] = cur /\ Comes(B, x[2], ptrB))
        /\ \A x \in begun :
             \/ x \in seen
             \/ ptrA # None /\ (x[1] = ptrA \/ Comes(A, ptrA, x[1]))
             \/ x[1] = cur /\ (x[2] = ptrB \/ Comes(B, ptrB, x[2]))
    BY <2>1 DEF PairInv, MA, MB, A, B
  <2>3. <<cur, ptrB>> \notin seen
    <3> SUFFICES ASSUME <<cur, ptrB>> \in seen PROVE FALSE
      OBVIOUS
    <3> QED BY <1>1, <2>2
  <2>4. again' = FALSE /\ seen' = seen \cup {<<cur, ptrB>>} /\ begun' = begun
    BY <2>1, <2>3 DEF LookAt
  <2>5. /\ SightInv' /\ Members(grp[1])' = MA /\ Members(grp[2])' = MB
        /\ dlist'[grp'[1]] = A /\ dlist'[grp'[2]] = B
    BY <1>2, <2>1, <2>4
  <2>6. /\ ptrB' \in MB \cup {None}
        /\ ptrB' # None => Comes(B, ptrB, ptrB')
        /\ \A x : Comes(B, ptrB, x) => ptrB' # None /\ (x = ptrB' \/ Comes(B, ptrB', x))
    BY <1>0, <2>1, DetectNextIs DEF MB, B
  <2>7. /\ \A x \in begun' \cup seen' : x = <<x[1], x[2]>> /\ x[1] \in MA /\ x[2] \in MB
        /\ \A x \in seen' : ptrA' # None => Comes(A, x[1], ptrA')
    BY <2>1, <2>2, <2>4
  <2>8. \A x \in seen' : ptrB' # None => \/ Comes(A, x[1], cur')
                                         \/ x[1] = cur' /\ Comes(B, x[2], ptrB')
    BY <1>1, <2>1, <2>2, <2>4, <2>6
  <2>9. \A x \in begun' : \/ x \in seen'
                          \/ ptrA' # None /\ (x[1] = ptrA' \/ Comes(A, ptrA', x[1]))
                          \/ ptrB' # None /\ x[1] = cur' /\ (x[2] = ptrB' \/ Comes(B, ptrB', x[2]))
    BY <2>1, <2>2, <2>4, <2>6
  <2> QED BY <2>1, <2>2, <2>5, <2>6, <2>7, <2>8, <2>9 DEF PairInv
<1>5. CASE CollideReturn
  <2>1. /\ phase = "collide" /\ phase' = "collide" /\ again = FALSE
        /\ UNCHANGED <<status, group, layer, ignore, dlist, grp, cur, ptrA, ptrB, begun, seen, again>>
    BY <1>5 DEF CollideReturn, SightInv, objVars, listVars, ghostVars
  <2>2. /\ SightInv' /\ Members(grp[1])' = MA /\ Members(grp[2])' = MB
        /\ dlist'[grp'[1]] = A /\ dlist'[grp'[2]] = B
    BY <1>2, <2>1
  <2> QED BY <2>1, <2>2 DEF PairInv, MA, MB, A, B
<1>6. ASSUME phase' \notin OneByOne \cup {"collide"}, seen' = {}, again' = FALSE, UNCHANGED <<layer, ignore>>
      PROVE  SightInv' /\ PairInv'
  BY <1>6 DEF SightInv, PairInv, OneByOne
<1>7. CASE \/ BoundCall \/ BoundCallReturn \/ CollideCall \/ CollideCallReturn
  <2>1. /\ phase' = phase /\ phase \in {"boundCall", "collideCall"}
        /\ UNCHANGED <<seen, again, layer, ignore>>
    BY <1>7 DEF BoundCall, BoundCallReturn, CollideCall, CollideCallReturn, objVars, ghostVars
  <2>2. seen = {} /\ again = FALSE
    BY <2>1 DEF SightInv, OneByOne
  <2> QED BY <1>6, <2>1, <2>2 DEF OneByOne
<1>8. CASE BoundCallEnd \/ CollideEnd \/ CollideCallEnd \/ Fail
  <2>1. EndWalk /\ UNCHANGED <<layer, ignore>>
    BY <1>8 DEF BoundCallEnd, CollideEnd, CollideCallEnd, Fail, objVars
  <2> QED BY <1>6, <2>1 DEF EndWalk, OneByOne
<1> QED BY <1>3, <1>4, <1>5, <1>7, <1>8
        DEF Walk, OneByOne, UpdateVisit, UpdateReturn, UpdateEnd, BoundVisit, BoundReturn,
            BoundEnd, RenderVisit, RenderReturn, RenderEnd

-----------------------------------------------------------------------------
(* What scripts do to a walk. *)

\* A script moves no walk on, and a layer is always one of the layers.
LEMMA ScriptMovesNoWalk ==
  ASSUME SightInv, Script
  PROVE  /\ UNCHANGED <<phase, inCb, ptrA, ptrB, grp, begun, seen, again, time, rendering>>
         /\ layer' \in [Slots -> Int] /\ ignore' \in [Slots -> BOOLEAN]
         /\ (phase = "script" \/ inCb)
<1>0. layer \in [Slots -> Int] /\ ignore \in [Slots -> BOOLEAN] /\ 0 \in Int /\ \A l \in Layers : l \in Int
  BY LayersAssumption DEF SightInv
<1> DEFINE Goal == /\ UNCHANGED <<phase, inCb, ptrA, ptrB, grp, begun, seen, again, time,
                                  rendering>>
                   /\ layer' \in [Slots -> Int] /\ ignore' \in [Slots -> BOOLEAN]
                   /\ (phase = "script" \/ inCb)
<1>1. ASSUME NEW o \in Slots, New(o) \/ NewInvalid(o) PROVE Goal
  <2>1. layer' = [layer EXCEPT ![o] = 0] /\ ignore' = [ignore EXCEPT ![o] = FALSE]
    BY <1>1 DEF New, NewInvalid, Allocate
  <2> QED BY <1>0, <1>1, <2>1 DEF New, NewInvalid, MayDo, flagVars, walkVars, ghostVars
<1>2. ASSUME NEW o \in Slots, NEW s \in Status, QueueToFree(o, s) \/ SetStatus(o, s) PROVE Goal
  BY <1>0, <1>2 DEF QueueToFree, SetStatus, MayDo, flagVars, walkVars, ghostVars
<1>3. ASSUME NEW o \in Slots, DirtResetObject(o) PROVE Goal
  BY <1>0, <1>3 DEF DirtResetObject, MayDo, flagVars, ghostVars
<1>4. ASSUME NEW o \in Slots, NEW g \in Groups, SetGroup(o, g) PROVE Goal
  BY <1>0, <1>4 DEF SetGroup, MayDo, flagVars, walkVars, ghostVars
<1>5. ASSUME NEW o \in Slots, NEW l \in Layers, SetLayer(o, l) PROVE Goal
  <2>1. layer' = [layer EXCEPT ![o] = l]
    BY <1>5 DEF SetLayer
  <2> QED BY <1>0, <1>5, <2>1 DEF SetLayer, MayDo, flagVars, walkVars, ghostVars
<1>6. ASSUME NEW o \in Slots, SetIgnore(o) PROVE Goal
  BY <1>0, <1>6 DEF SetIgnore, MayDo, flagVars, walkVars, ghostVars
<1>7. ASSUME NEW t \in -1 .. MaxPause, SetNextFrameSuperPauseTime(t) PROVE Goal
  BY <1>0, <1>7 DEF SetNextFrameSuperPauseTime, MayDo, objVars, walkVars, ghostVars
<1> QED BY <1>1, <1>2, <1>3, <1>4, <1>5, <1>6, <1>7 DEF Script, Status

\* A callback that leaves places alone: who was in front of another stays so.
LEMMA CallbackKeepsPlaces ==
  ASSUME CallbacksLeavePlaces, ListInv, SightInv, Script, inCb
  PROVE  /\ cur' = cur
         /\ \A o \in Live : /\ o \in Live' /\ group'[o] = group[o] /\ ignore'[o] = ignore[o]
                            /\ uid'[o] = uid[o] /\ (rendering => layer'[o] = layer[o])
         /\ \A x, y : Comes(ulist, x, y) => Comes(ulist', x, y)
         /\ \A g \in Groups : \A x, y : Comes(dlist[g], x, y) => Comes(dlist'[g], x, y)
<1>0. /\ PoolInv /\ PlaceInv /\ phase # "script" /\ layer \in [Slots -> Int]
      /\ ignore \in [Slots -> BOOLEAN]
      /\ uid \in [Slots -> Uids] /\ group \in [Slots -> Groups]
      /\ \A o \in Slots : Reachable(o) => o \in Live
      /\ "Reset" \notin CallbackOps /\ "Group" \notin CallbackOps /\ "Ignore" \notin CallbackOps
  BY SizesAssumption DEF ListInv, PlaceInv, HandleInv, HandlesAreFresh, Reachable, SightInv,
     CallbacksLeavePlaces, PoolInv
<1> DEFINE Kept(o) == /\ o \in Live' /\ group'[o] = group[o] /\ ignore'[o] = ignore[o]
                      /\ uid'[o] = uid[o] /\ (rendering => layer'[o] = layer[o])
           Goal == /\ cur' = cur /\ (\A o \in Live : Kept(o))
                   /\ \A x, y : Comes(ulist, x, y) => Comes(ulist', x, y)
                   /\ \A g \in Groups : \A x, y : Comes(dlist[g], x, y) => Comes(dlist'[g], x, y)
<1>1. ASSUME NEW o \in Slots, New(o) \/ NewInvalid(o) PROVE Goal
  <2>1. Allocate(o) /\ cur' = cur
    BY <1>1 DEF New, NewInvalid, walkVars
  <2>2. \A x \in Live : x # o
    BY <2>1 DEF Allocate, Live
  <2>3. \A x \in Live : x \in Slots /\ x \in Live'
    BY <1>0, <2>1 DEF Allocate, Live, PoolInv
  <2>4. \A x \in Live : Kept(x)
    <3>1. /\ group' = [group EXCEPT ![o] = 0] /\ ignore' = [ignore EXCEPT ![o] = FALSE]
          /\ uid' = [uid EXCEPT ![o] = iUid] /\ layer' = [layer EXCEPT ![o] = 0]
      BY <2>1 DEF Allocate
    <3> HIDE DEF Live
    <3> QED BY <1>0, <2>2, <2>3, <3>1
  <2>5. /\ ulist \in Seq(Live) /\ ulist' = Append(ulist, o)
        /\ dlist' = [dlist EXCEPT ![0] = Append(@, o)] /\ dlist \in [Groups -> Seq(Slots)]
    BY <1>0, <2>1 DEF Allocate, PoolInv, Once
  <2>6. \A x, y : Comes(ulist, x, y) => Comes(ulist', x, y)
    BY <2>5, ComesAppend
  <2>7. ASSUME NEW g \in Groups, NEW x, NEW y, Comes(dlist[g], x, y) PROVE Comes(dlist'[g], x, y)
    <3>1. dlist'[g] = dlist[g] \/ dlist'[g] = Append(dlist[g], o)
      BY <2>5
    <3>2. dlist[g] \in Seq(Slots)
      BY <2>5
    <3>3. CASE dlist'[g] = Append(dlist[g], o)
      BY <2>7, <3>2, <3>3, ComesAppend
    <3> QED BY <2>7, <3>1, <3>3
  <2> QED BY <2>1, <2>4, <2>6, <2>7
<1>2. ASSUME NEW o \in Slots, NEW s \in Status \ {"Free"}, QueueToFree(o, s) \/ SetStatus(o, s)
      PROVE  Goal
  <2>1. /\ status' = [status EXCEPT ![o] = s]
        /\ UNCHANGED <<uid, group, layer, ignore, ulist, dlist, cur>>
    BY <1>2 DEF QueueToFree, SetStatus, listVars, walkVars
  <2>2. \A x \in Live : x \in Live'
    BY <1>0, <2>1 DEF Live, PoolInv
  <2> QED BY <2>1, <2>2
<1>3. ASSUME NEW o \in Slots, DirtResetObject(o) \/ SetIgnore(o) \/ (\E g \in Groups : SetGroup(o, g))
      PROVE  FALSE
  BY <1>0, <1>3 DEF DirtResetObject, SetIgnore, SetGroup, MayDo
<1>4. ASSUME NEW o \in Slots, NEW l \in Layers, SetLayer(o, l) PROVE Goal
  BY <1>4 DEF SetLayer, isRendering, Live, listVars, walkVars
<1>5. ASSUME NEW t \in -1 .. MaxPause, SetNextFrameSuperPauseTime(t) PROVE Goal
  BY <1>5 DEF SetNextFrameSuperPauseTime, Live, objVars, listVars, walkVars
<1> QED BY <1>1, <1>2, <1>3, <1>4, <1>5 DEF Script, Status

LEMMA SightScript ==
  ASSUME CallbacksLeavePlaces, ListInv, SightInv, PairInv, Script
  PROVE  SightInv' /\ PairInv'
<1>0. /\ UNCHANGED <<phase, inCb, ptrA, ptrB, grp, begun, seen, again, time, rendering>>
      /\ layer' \in [Slots -> Int] /\ ignore' \in [Slots -> BOOLEAN]
  BY ScriptMovesNoWalk
<1>1. CASE phase \notin OneByOne \cup {"collide"}
  BY <1>0, <1>1 DEF SightInv, PairInv, OneByOne
<1>2. CASE phase \in OneByOne \cup {"collide"}
  <2>1. inCb
    BY <1>2, ScriptMovesNoWalk DEF OneByOne
  <2>2. /\ cur' = cur
        /\ \A o \in Live : /\ o \in Live' /\ group'[o] = group[o] /\ ignore'[o] = ignore[o]
                           /\ uid'[o] = uid[o] /\ (rendering => layer'[o] = layer[o])
        /\ \A x, y : Comes(ulist, x, y) => Comes(ulist', x, y)
        /\ \A g \in Groups : \A x, y : Comes(dlist[g], x, y) => Comes(dlist'[g], x, y)
    BY <2>1, CallbackKeepsPlaces
  <2>3. grp[1] \in Groups /\ grp[2] \in Groups
    BY DEF ListInv, PlaceInv
  <2>4. \A g, o : o \in Members(g) => o \in Members(g)'
    BY <2>2 DEF Members
  <2> HIDE DEF Live
  <2>5. PairInv'
    BY <1>0, <2>2, <2>3, <2>4 DEF PairInv
  <2>6. \A x, y \in Live : Precedes(x, y) => Precedes(x, y)'
    BY <1>0, <2>2 DEF Precedes, Before, SightInv
  <2>7. phase \in OneByOne =>
          /\ cur' \in Live' \cup {None}
          /\ \A x \in begun' \cup seen' : x[1] \in Live' /\ x = <<x[1], None>>
          /\ \A x \in seen' : cur' # None => Precedes(x[1], cur)' \/ (inCb' /\ x[1] = cur')
          /\ \A x \in begun' : \/ x \in seen'
                               \/ cur' # None /\ (Precedes(cur, x[1])' \/ (x[1] = cur' /\ ~inCb'))
    BY <1>0, <2>2, <2>6 DEF SightInv
  <2>8. phase = "update" => \A x \in begun' : ~Paused(x[1], time)'
    BY <1>0, <2>2 DEF SightInv, Paused, OneByOne
  <2> QED BY <1>0, <2>5, <2>7, <2>8, <2>2 DEF SightInv
<1> QED BY <1>1, <1>2

LEMMA SightStep ==
  ASSUME CallbacksLeavePlaces, ListInv, SightInv, PairInv, [Next]_vars
  PROVE  SightInv' /\ PairInv'
<1>1. CASE Walk /\ phase \in OneByOne
  <2>1. phase' # "collide"
    BY <1>1 DEF Walk, OneByOne, UpdateVisit, UpdateReturn, UpdateEnd, BoundVisit, BoundReturn,
       BoundEnd, BoundCall, BoundCallReturn, BoundCallEnd, CollideOuter, CollideInner,
       CollideReturn, CollideEnd, CollideCall, CollideCallReturn, CollideCallEnd, RenderVisit,
       RenderReturn, RenderEnd, Fail, EndWalk
  <2> QED BY <1>1, <2>1, SightWalk DEF PairInv
<1>2. CASE UNCHANGED vars
  <2>1. /\ Live' = Live /\ \A g : Members(g)' = Members(g)
        /\ \A x, y : (Before(x, y)' <=> Before(x, y)) /\ (Precedes(x, y)' <=> Precedes(x, y))
        /\ \A x, t : Paused(x, t)' <=> Paused(x, t')
    BY <1>2 DEF vars, Live, Members, Before, Precedes, Paused
  <2>2. SightInv'
    BY <1>2, <2>1 DEF vars, SightInv, Paused
  <2>3. PairInv'
    BY <1>2, <2>1 DEF vars, PairInv
  <2> QED BY <2>2, <2>3
<1>3. CallbacksFreeNothing
  BY DEF CallbacksLeavePlaces, CallbacksFreeNothing
<1> QED BY <1>1, <1>2, <1>3, SightScript, SightBegin, PairWalk DEF Next

\* ObjFrame, BoundCheck and ObjRender look at every object that was there when
\* they began, and CollisionCheck(g1, g2) at every pair, and at none twice,
\* although each reads the link to go on by from an object a callback had in
\* its hands: as long as callbacks reset no object (lstg.ResetObject puts it at
\* the end of the lists), move none to another group, do not change nopause and
\* free none (AfterFrame, ResetPool).
\* They may create, delete, kill and revive objects, change layers outside of
\* ObjRender, ask for a super pause, and raise errors.
THEOREM WalksAreExact ==
  ASSUME CallbacksLeavePlaces
  PROVE  Spec => []WalkIsExact
<1>1. Init => SightInv /\ PairInv
  <2> SUFFICES ASSUME Init PROVE SightInv /\ PairInv
    OBVIOUS
  <2>1. phase = "script" /\ seen = {} /\ again = FALSE
        /\ layer \in [Slots -> Int] /\ ignore \in [Slots -> BOOLEAN]
    BY DEF Init
  <2> QED BY <2>1 DEF SightInv, PairInv, OneByOne
<1>2. ListInv /\ SightInv /\ PairInv /\ [Next]_vars => SightInv' /\ PairInv'
  BY SightStep
<1>3. SightInv /\ PairInv => WalkIsExact
  BY DEF SightInv, PairInv, OneByOne, WalkIsExact, WalkIsOver
<1> QED BY <1>1, <1>2, <1>3, ListInvariant, PTL DEF Spec

-----------------------------------------------------------------------------
(* What the walks stand on. *)

\* Whatever callbacks do, freeing the object they were called for included: where
\* the update, bound and render walks read the object they stand on, it is in
\* use. That objects outlive the callbacks, that both loops of CollisionCheck
\* keep to objects in use, that what BoundCheck(2) and CollisionCheck{...} cached
\* is in use when they get to it, and that the locked pair is, takes callbacks
\* that call neither AfterFrame nor ResetPool. (This is about the objects: the tree
\* node under the render walk is another matter, see DirtResetObject.)
WalksStandOnLive ==
  /\ phase \in OneByOne /\ ~inCb => cur \in Live \cup {None}
  /\ CallbacksFreeNothing =>
       /\ phase \in OneByOne => cur \in Live \cup {None}
       /\ phase = "collide" => /\ ptrA \in Live \cup {None} /\ ptrB \in Live \cup {None}
                               /\ ptrB # None => cur \in Live
       /\ phase \in {"boundCall", "collideCall"} =>
            \A i \in 1 .. Len(cache) : cache[i].a \in Live /\ cache[i].b \in Live
       /\ phase \in {"collide", "collideCall"} => \A k \in {1, 2} : lock[k] # None => lock[k] \in Live

LEMMA ScriptFreesNothing ==
  ASSUME ListInv, Script, NEW o \in Live
  PROVE  o \in Live'
<1>0. status \in [Slots -> Status] /\ o \in Slots /\ status[o] # "Free"
  BY DEF ListInv, HandleInv, Live
<1>1. ASSUME NEW x \in Slots, New(x) \/ NewInvalid(x) PROVE status'[o] # "Free"
  BY <1>0, <1>1 DEF New, NewInvalid, Allocate
<1>2. ASSUME NEW x \in Slots, NEW s \in Status \ {"Free"}, QueueToFree(x, s) \/ SetStatus(x, s)
      PROVE  status'[o] # "Free"
  BY <1>0, <1>2 DEF QueueToFree, SetStatus
<1>3. ASSUME NEW x \in Slots,
             \/ DirtResetObject(x) \/ SetIgnore(x)
             \/ (\E g \in Groups : SetGroup(x, g)) \/ (\E l \in Layers : SetLayer(x, l))
      PROVE  status'[o] # "Free"
  BY <1>0, <1>3 DEF DirtResetObject, SetIgnore, SetGroup, SetLayer
<1>4. ASSUME NEW t \in -1 .. MaxPause, SetNextFrameSuperPauseTime(t) PROVE status'[o] # "Free"
  BY <1>0, <1>4 DEF SetNextFrameSuperPauseTime, objVars
<1>5. status'[o] # "Free"
  BY <1>1, <1>2, <1>3, <1>4 DEF Script, Status
<1> QED BY <1>0, <1>5 DEF Live

LEMMA WalkFreesNothing ==
  ASSUME ListInv, Walk
  PROVE  Live' = Live /\ UNCHANGED <<layer, ulist, rset>>
<1>1. status \in [Slots -> Status]
  BY DEF ListInv, HandleInv
<1>2. CASE BoundVisit
  <2>1. status' = status \/ status' = [status EXCEPT ![cur] = "Dead"]
    BY <1>2 DEF BoundVisit
  <2>2. cur \in Live
    BY <1>2 DEF BoundVisit, ListInv, PlaceInv
  <2>3. Live' = Live
    BY <1>1, <2>1, <2>2 DEF Live
  <2> QED BY <1>2, <2>3 DEF BoundVisit, listVars
<1>3. CASE ~BoundVisit
  <2>1. UNCHANGED <<status, layer, ulist, rset>>
    BY <1>3 DEF Walk, UpdateVisit, UpdateReturn, UpdateEnd, BoundReturn, BoundEnd,
         BoundCall, BoundCallReturn, BoundCallEnd, CollideOuter, CollideInner, CollideReturn,
         CollideEnd, CollideCall, CollideCallReturn, CollideCallEnd, RenderVisit, RenderReturn,
         RenderEnd, Fail, objVars, listVars
  <2> QED BY <2>1 DEF Live
<1> QED BY <1>2, <1>3

LEMMA FreeingFrees ==
  ASSUME ListInv, NEW S \in SUBSET Live, freeWithCallbacks(S)
  PROVE  Live' = Live \ S
<1>1. status' = [o \in Slots |-> IF o \in S THEN "Free" ELSE status[o]]
  BY DEF freeWithCallbacks
<1> QED BY <1>1 DEF Live

\* The update and render walks, of which PlaceInv says nothing.
StandInv ==
  /\ layer \in [Slots -> Int]
  /\ phase = "update" => cur \in Held \cup {None} /\ (~inCb => cur \in Live \cup {None})
  /\ phase = "render" => cur \in Live \cup {None}

LEMMA ScriptKeepsStand == ASSUME ListInv, StandInv, Script PROVE StandInv'
<1>0. /\ layer \in [Slots -> Int] /\ 0 \in Int /\ \A l \in Layers : l \in Int
      /\ rset = Live
  BY LayersAssumption DEF StandInv, ListInv, PoolInv
<1>1. (\A o \in Live : o \in Live') /\ Held \subseteq Held'
  BY ScriptFreesNothing DEF Held
<1> DEFINE Goal == /\ layer' \in [Slots -> Int] /\ phase' = phase /\ inCb' = inCb
                   /\ cur' = cur \/ (phase = "render" /\ cur' \in rset \cup {None})
<1>2. ASSUME NEW o \in Slots, New(o) \/ NewInvalid(o) PROVE Goal
  <2>1. layer' = [layer EXCEPT ![o] = 0]
    BY <1>2 DEF New, NewInvalid, Allocate
  <2> QED BY <1>0, <1>2, <2>1 DEF New, NewInvalid, walkVars
<1>3. ASSUME NEW o \in Slots, NEW s \in Status, QueueToFree(o, s) \/ SetStatus(o, s) PROVE Goal
  BY <1>0, <1>3 DEF QueueToFree, SetStatus, walkVars
<1>4. ASSUME NEW o \in Slots, DirtResetObject(o) PROVE Goal
  BY <1>0, <1>4 DEF DirtResetObject
<1>5. ASSUME NEW o \in Slots, (\E g \in Groups : SetGroup(o, g)) \/ SetIgnore(o) PROVE Goal
  BY <1>0, <1>5 DEF SetGroup, SetIgnore, walkVars
<1>6. ASSUME NEW o \in Slots, NEW l \in Layers, SetLayer(o, l) PROVE Goal
  <2>1. layer' = [layer EXCEPT ![o] = l]
    BY <1>6 DEF SetLayer
  <2> QED BY <1>0, <1>6, <2>1 DEF SetLayer, walkVars
<1>7. ASSUME NEW t \in -1 .. MaxPause, SetNextFrameSuperPauseTime(t) PROVE Goal
  BY <1>0, <1>7 DEF SetNextFrameSuperPauseTime, objVars, walkVars
<1>8. Goal
  <2> HIDE DEF Goal
  <2> QED BY <1>2, <1>3, <1>4, <1>5, <1>6, <1>7 DEF Script, Status
<1> HIDE DEF Live
<1> QED BY <1>0, <1>1, <1>8 DEF StandInv

\* What AfterFrame and ResetPool free under a walk leaves it where it stood, or
\* the render walk anywhere in its tree.
LEMMA FreeKeepsStand ==
  ASSUME ListInv, StandInv, NEW S \in SUBSET Live, Free(S), MayDo("AfterFrame") \/ MayDo("ResetPool"),
         layer' = layer
  PROVE  StandInv'
<1>0. PlaceInv /\ rset = Live /\ Live' = Live \ S
  BY FreeingFrees DEF ListInv, PoolInv, Free
<1>1. (phase' = phase /\ inCb' = inCb) \/ phase' = "crashed"
  BY DEF Free
<1>2. ASSUME phase' = "update" PROVE cur' \in Held' \cup {None} /\ inCb'
  <2>1. phase = "update" /\ inCb' = inCb
    BY <1>1, <1>2
  <2>2. inCb /\ Held = Slots /\ Held' = Slots
    BY <2>1 DEF MayDo, Held, CallbacksFreeNothing
  <2>3. cur' = cur
    BY <2>1 DEF Free
  <2> QED BY <2>1, <2>2, <2>3 DEF StandInv
<1>3. ASSUME phase' = "render" PROVE cur' \in Live' \cup {None}
  <2>1. phase = "render" /\ cur \in Live \cup {None}
    BY <1>1, <1>3 DEF StandInv
  <2>2. IF cur \in S THEN cur' \in (rset \ S) \cup {None} ELSE cur' = cur
    BY <2>1 DEF Free
  <2> HIDE DEF Live
  <2> QED BY <1>0, <2>1, <2>2
<1> QED BY <1>2, <1>3 DEF StandInv

LEMMA BeginKeepsStand == ASSUME ListInv, StandInv, Begin PROVE StandInv'
<1>0. PoolInv /\ ulist \in Seq(Live) /\ rset = Live /\ layer \in [Slots -> Int]
  BY DEF ListInv, PoolInv, Once, StandInv
<1>2. ASSUME NEW v \in {1, 2}, UpdateNext(v) PROVE StandInv'
  <2>1. PICK S \in SUBSET Live : Free(S)
    BY <1>2 DEF UpdateNext
  <2> QED BY <1>2, <2>1, FreeKeepsStand DEF UpdateNext
<1>3. CASE ResetPool
  <2>1. CASE phase' = "crashed"
    BY <1>0, <1>3, <2>1 DEF ResetPool, StandInv
  <2>2. CASE phase' # "crashed"
    <3>1. Free(Live) /\ MayDo("ResetPool") /\ layer' = layer
      BY <1>3, <2>2 DEF ResetPool
    <3> QED BY <3>1, FreeKeepsStand
  <2> QED BY <2>1, <2>2
<1>4. ASSUME NEW v \in {1, 2}, ObjFrame(v) PROVE StandInv'
  <2>1. /\ cur' \in Live' \cup {None} /\ Live' = Live /\ layer' = layer /\ phase' = "update"
    BY <1>0, <1>4, ListElements DEF ObjFrame, BeginWalk, objVars, Live
  <2>2. Live' \subseteq Held'
    BY DEF Held, Live
  <2> HIDE DEF Live
  <2> QED BY <1>0, <2>1, <2>2 DEF StandInv
<1>5. CASE ObjRender
  <2>1. cur' \in Live \cup {None} /\ Live' = Live /\ layer' = layer /\ phase' = "render"
    BY <1>0, <1>5, LeastIs DEF ObjRender, BeginWalk, objVars, Live
  <2> QED BY <1>0, <2>1 DEF StandInv
<1>6. ASSUME phase' \notin {"update", "render"}, layer' = layer PROVE StandInv'
  BY <1>0, <1>6 DEF StandInv
<1>7. CASE BoundCheckLegacy \/ BoundCheck
  BY <1>6, <1>7 DEF BoundCheckLegacy, BoundCheck, BeginWalk, objVars
<1>8. ASSUME NEW g1 \in Groups, NEW g2 \in Groups, CollisionCheckLegacy(g1, g2) PROVE StandInv'
  BY <1>6, <1>8 DEF CollisionCheckLegacy, BeginWalk, objVars
<1>9. ASSUME NEW P, CollisionCheck(P) PROVE StandInv'
  <2>1. phase' = "collideCall" /\ layer' = layer
    BY <1>9 DEF CollisionCheck, BeginWalk, objVars
  <2> QED BY <1>6, <2>1
<1> QED BY <1>2, <1>3, <1>4, <1>5, <1>7, <1>8, <1>9 DEF Begin

LEMMA WalkKeepsStand == ASSUME ListInv, StandInv, Walk PROVE StandInv'
<1>0. PoolInv /\ ulist \in Seq(Live) /\ rset = Live /\ layer \in [Slots -> Int]
  BY DEF ListInv, PoolInv, Once, StandInv
<1>1. Live' = Live /\ UNCHANGED <<layer, ulist, rset>> /\ Live \subseteq Held'
  BY WalkFreesNothing DEF Held, Live
<1>2. Successor(ulist, cur) \in Live \cup {None}
  BY <1>0, ListElements
<1>3. Least({o \in rset : Before(cur, o)}) \in Live \cup {None}
  <2> DEFINE S == {o \in rset : Before(cur, o)}
  <2>1. S \in SUBSET Live
    BY <1>0
  <2> HIDE DEF S
  <2>2. Least(S) \in S \cup {None}
    BY <1>0, <2>1, LeastIs
  <2>3. Least(S) \in Live \cup {None}
    BY <2>1, <2>2
  <2> QED BY <2>3 DEF S
<1> HIDE DEF Live
<1>4. ASSUME UpdateVisit \/ UpdateReturn, phase = "update" PROVE cur' \in Live \cup {None}
  BY <1>2, <1>4 DEF UpdateVisit, UpdateReturn, Advance, StandInv
<1>5. ASSUME RenderVisit \/ RenderReturn, phase = "render" PROVE cur' \in Live \cup {None}
  BY <1>3, <1>5 DEF RenderVisit, RenderReturn, RenderAdvance, StandInv
<1>6. phase' \in {"update", "render"}
        => \/ (UpdateVisit \/ UpdateReturn) /\ phase = "update"
           \/ (RenderVisit \/ RenderReturn) /\ phase = "render"
  BY DEF Walk, UpdateVisit, UpdateReturn, UpdateEnd, BoundVisit, BoundReturn, BoundEnd,
     BoundCall, BoundCallReturn, BoundCallEnd, CollideOuter, CollideInner, CollideReturn,
     CollideEnd, CollideCall, CollideCallReturn, CollideCallEnd, RenderVisit, RenderReturn,
     RenderEnd, Fail, EndWalk
<1> QED BY <1>0, <1>1, <1>4, <1>5, <1>6 DEF StandInv

LEMMA StandAlways == Spec => []StandInv
<1>1. Init => StandInv
  BY DEF Init, StandInv
<1>2. ListInv /\ StandInv /\ [Next]_vars => StandInv'
  <2> SUFFICES ASSUME ListInv, StandInv, [Next]_vars PROVE StandInv'
    OBVIOUS
  <2>1. CASE UNCHANGED vars
    BY <2>1 DEF vars, StandInv, Held, Live
  <2> QED BY <2>1, ScriptKeepsStand, BeginKeepsStand, WalkKeepsStand DEF Next
<1> QED BY <1>1, <1>2, ListInvariant, PTL DEF Spec

\* For every pool, and whatever callbacks create, delete, reset, move, raise and,
\* where the property does not exclude it, free.
THEOREM WalksNeverDangle == Spec => []WalksStandOnLive
<1>1. ListInv /\ StandInv => WalksStandOnLive
  <2> SUFFICES ASSUME ListInv, StandInv PROVE WalksStandOnLive
    OBVIOUS
  <2>1. PlaceInv
    BY DEF ListInv
  <2>2. phase \in OneByOne /\ ~inCb => cur \in Live \cup {None}
    BY <2>1 DEF PlaceInv, StandInv, OneByOne
  <2>3. CallbacksFreeNothing /\ phase \in OneByOne => cur \in Live \cup {None}
    BY <2>1 DEF PlaceInv, StandInv, OneByOne, Held
  <2>4. CallbacksFreeNothing /\ phase \in {"boundCall", "collideCall"}
          => \A i \in 1 .. Len(cache) : cache[i].a \in Live /\ cache[i].b \in Live
    <3> SUFFICES ASSUME CallbacksFreeNothing, phase \in {"boundCall", "collideCall"},
                        NEW i \in 1 .. Len(cache)
                 PROVE  cache[i].a \in Live /\ cache[i].b \in Live
      OBVIOUS
    <3>1. cache \in Seq(Entries(Live))
      BY <2>1 DEF PlaceInv, Held
    <3> HIDE DEF Live
    <3>2. cache[i] \in Entries(Live)
      BY <3>1
    <3> QED BY <3>2 DEF Entries
  <2> HIDE DEF Live
  <2> QED BY <2>1, <2>2, <2>3, <2>4 DEF PlaceInv, WalksStandOnLive, Held
<1> QED BY <1>1, ListInvariant, StandAlways, PTL

-----------------------------------------------------------------------------
(* Two promises that hold as long as scripts behave *)

\* Every live object has its table: onDestroy has one to write into.
TablesInv == \A o \in Live : table[o] # NoUid

NeverCrashes == phase # "crashed"

LEMMA TablesStep ==
  ASSUME "BadNew" \notin Ops, "ResetPool" \notin CallbackOps, ListInv, TablesInv, NeverCrashes, [Next]_vars
  PROVE  TablesInv' /\ NeverCrashes'
<1>0. /\ status \in [Slots -> Status] /\ table \in [Slots -> Uids \cup {NoUid}] /\ iUid \in Uids
      /\ NoUid \notin Uids
  BY SizesAssumption DEF ListInv, HandleInv, Uids, NoUid
<1>1. CASE Script
  <2>1. ASSUME NEW o \in Slots, New(o) PROVE TablesInv' /\ NeverCrashes'
    <3>1. /\ status' = [status EXCEPT ![o] = "Active"] /\ table' = [table EXCEPT ![o] = iUid]
          /\ phase' = phase
      BY <2>1 DEF New, Allocate, walkVars
    <3>2. \A x \in Slots : status'[x] # "Free" => table'[x] # NoUid
      BY <1>0, <3>1 DEF TablesInv, Live
    <3> QED BY <3>1, <3>2 DEF TablesInv, NeverCrashes, Live
  <2>2. ASSUME NEW o \in Slots, NewInvalid(o) PROVE FALSE
    BY <2>2, OpsAssumption DEF NewInvalid, MayDo
  <2>3. ASSUME NEW o \in Slots, NEW s \in Status, QueueToFree(o, s) \/ SetStatus(o, s)
        PROVE  TablesInv' /\ NeverCrashes'
    <3>1. /\ status' = [status EXCEPT ![o] = s] /\ status[o] # "Free"
          /\ UNCHANGED <<table, phase>>
      <4>1. Reachable(o) => status[o] # "Free"
        BY SizesAssumption DEF ListInv, HandleInv, HandlesAreFresh, Reachable, Live, Objects
      <4> QED BY <2>3, <4>1 DEF QueueToFree, SetStatus, luaVars, walkVars
    <3>2. \A x \in Slots : status'[x] # "Free" => status[x] # "Free"
      BY <1>0, <3>1
    <3> QED BY <3>1, <3>2 DEF TablesInv, NeverCrashes, Live
  <2>4. ASSUME NEW o \in Slots,
               \/ DirtResetObject(o) \/ SetIgnore(o)
               \/ (\E g \in Groups : SetGroup(o, g)) \/ (\E l \in Layers : SetLayer(o, l))
        PROVE  TablesInv' /\ NeverCrashes'
    <3>1. UNCHANGED <<status, table, phase>>
      BY <2>4 DEF DirtResetObject, SetIgnore, SetGroup, SetLayer, luaVars, walkVars
    <3> QED BY <3>1 DEF TablesInv, NeverCrashes, Live
  <2>5. ASSUME NEW t \in -1 .. MaxPause, SetNextFrameSuperPauseTime(t)
        PROVE  TablesInv' /\ NeverCrashes'
    <3>1. UNCHANGED <<status, table, phase>>
      BY <2>5 DEF SetNextFrameSuperPauseTime, objVars, luaVars, walkVars
    <3> QED BY <3>1 DEF TablesInv, NeverCrashes, Live
  <2> QED BY <1>1, <2>1, <2>2, <2>3, <2>4, <2>5 DEF Script, Status
<1>2. ASSUME NEW S \in SUBSET Live, Free(S) PROVE TablesInv' /\ NeverCrashes'
  <2>1. \A o \in S : table[o] # NoUid
    BY DEF TablesInv
  <2>2. phase' = phase
    BY <1>2, <2>1 DEF Free
  <2>3. /\ status' = [o \in Slots |-> IF o \in S THEN "Free" ELSE status[o]]
        /\ table' = [o \in Slots |-> IF o \in S THEN NoUid ELSE table[o]]
    BY <1>2 DEF Free, freeWithCallbacks
  <2>4. \A o \in Slots : status'[o] # "Free" => status[o] # "Free" /\ table'[o] = table[o]
    BY <2>3
  <2> QED BY <2>2, <2>4 DEF TablesInv, NeverCrashes, Live
<1>3. CASE Begin
  <2>1. ASSUME NEW v \in {1, 2}, UpdateNext(v) PROVE TablesInv' /\ NeverCrashes'
    <3>1. PICK S \in SUBSET Live : Free(S)
      BY <2>1 DEF UpdateNext
    <3> QED BY <1>2, <3>1
  <2>2. CASE ResetPool
    <3>1. phase = "script"
      BY <2>2 DEF ResetPool, MayDo
    <3>2. Free(Live)
      BY <2>2, <3>1 DEF ResetPool
    <3> QED BY <1>2, <3>2
  <2>3. ASSUME Live' = Live, table' = table, phase' # "crashed" PROVE TablesInv' /\ NeverCrashes'
    BY <2>3 DEF TablesInv, NeverCrashes
  <2>4. CASE BoundCheck
    <3>1. PICK out \in SUBSET Live :
            status' = [o \in Slots |-> IF o \in out THEN "Dead" ELSE status[o]]
      BY <2>4 DEF BoundCheck
    <3>2. Live' = Live
      BY <3>1 DEF Live
    <3> QED BY <2>3, <2>4, <3>2 DEF BoundCheck, BeginWalk, luaVars
  <2>5. ASSUME NEW v \in {1, 2}, ObjFrame(v) PROVE TablesInv' /\ NeverCrashes'
    BY <2>3, <2>5 DEF ObjFrame, BeginWalk, objVars, luaVars, Live
  <2>6. CASE BoundCheckLegacy \/ ObjRender
    BY <2>3, <2>6 DEF BoundCheckLegacy, ObjRender, BeginWalk, objVars, luaVars, Live
  <2>7. ASSUME NEW g1 \in Groups, NEW g2 \in Groups, CollisionCheckLegacy(g1, g2)
        PROVE  TablesInv' /\ NeverCrashes'
    BY <2>3, <2>7 DEF CollisionCheckLegacy, BeginWalk, objVars, luaVars, Live
  <2>8. ASSUME NEW P, CollisionCheck(P) PROVE TablesInv' /\ NeverCrashes'
    <3>1. UNCHANGED <<objVars, luaVars>> /\ phase' = "collideCall"
      BY <2>8 DEF CollisionCheck, BeginWalk
    <3> QED BY <2>3, <3>1 DEF objVars, luaVars, Live
  <2> QED BY <1>3, <2>1, <2>2, <2>4, <2>5, <2>6, <2>7, <2>8 DEF Begin
<1>4. CASE Walk
  <2>1. Live' = Live
    BY <1>4, WalkFreesNothing
  <2>2. table' = table /\ phase' \in {phase, "script"}
    BY <1>4 DEF Walk, UpdateVisit, UpdateReturn, UpdateEnd, BoundVisit, BoundReturn, BoundEnd,
         BoundCall, BoundCallReturn, BoundCallEnd, CollideOuter, CollideInner, CollideReturn,
         CollideEnd, CollideCall, CollideCallReturn, CollideCallEnd, RenderVisit, RenderReturn,
         RenderEnd, Fail, EndWalk, luaVars
  <2> QED BY <2>1, <2>2 DEF TablesInv, NeverCrashes
<1>5. CASE UNCHANGED vars
  BY <1>5 DEF vars, TablesInv, NeverCrashes, Live
<1> QED BY <1>1, <1>3, <1>4, <1>5 DEF Next

\* As long as no script calls lstg._New with what is no class, no call of
\* AfterFrame or ResetPool meets an object without a table: the call that raises
\* its error too late is the only way to that crash. The other crash takes a
\* callback that calls ResetPool.
THEOREM PoolNeverCrashes ==
  ASSUME "BadNew" \notin Ops, "ResetPool" \notin CallbackOps
  PROVE  Spec => []NeverCrashes
<1>1. Init => TablesInv /\ NeverCrashes
  BY DEF Init, TablesInv, NeverCrashes, Live
<1>2. ListInv /\ TablesInv /\ NeverCrashes /\ [Next]_vars => TablesInv' /\ NeverCrashes'
  BY TablesStep
<1> QED BY <1>1, <1>2, ListInvariant, PTL DEF Spec

\* The flags that refuse a collision check inside another and a change of layer
\* under ObjRender, and the pair whose groups are locked, are those of the
\* operation that runs.
FlagsFollowWalk ==
  phase # "crashed" =>
    /\ detecting <=> phase \in {"collide", "collideCall"}
    /\ rendering <=> phase = "render"
    /\ lock # <<None, None>> => inCb /\ phase \in {"collide", "collideCall"}

LEMMA FlagsStep ==
  ASSUME "Fail" \notin CallbackOps, ListInv, FlagsFollowWalk, [Next]_vars
  PROVE  FlagsFollowWalk'
<1>0. PlaceInv
  BY DEF ListInv
<1>1. CASE Script
  <2>1. UNCHANGED <<phase, inCb, lock, detecting, rendering>>
    BY <1>1 DEF Script, New, NewInvalid, QueueToFree, SetStatus, DirtResetObject, SetGroup,
       SetLayer, SetIgnore, SetNextFrameSuperPauseTime, walkVars, flagVars
  <2> QED BY <2>1 DEF FlagsFollowWalk
<1>f. ASSUME NEW v \in {1, 2}, UpdateNext(v) \/ ResetPool PROVE FlagsFollowWalk'
  <2>1. (phase' = phase /\ inCb' = inCb) \/ phase' = "crashed"
    BY <1>f DEF UpdateNext, ResetPool, Free
  <2>2. UNCHANGED <<detecting, rendering>> /\ (lock' = lock \/ lock' = <<None, None>>)
    BY <1>f DEF UpdateNext, ResetPool
  <2> QED BY <2>1, <2>2 DEF FlagsFollowWalk
<1>2. ASSUME Begin, ~ResetPool, ~ \E v \in {1, 2} : UpdateNext(v) PROVE FlagsFollowWalk'
  <2>1. phase = "script" /\ ~inCb
    <3>1. ASSUME phase # "script" PROVE FALSE
      <4>1. \A v : ~ObjFrame(v)
        BY <3>1 DEF ObjFrame, BeginWalk
      <4>2. ~BoundCheckLegacy /\ ~BoundCheck /\ ~ObjRender
        BY <3>1 DEF BoundCheckLegacy, BoundCheck, ObjRender, BeginWalk
      <4>3. /\ \A g1, g2 : ~CollisionCheckLegacy(g1, g2)
            /\ \A P : ~CollisionCheck(P)
        BY <3>1 DEF CollisionCheckLegacy, CollisionCheck, BeginWalk
      <4> QED BY <1>2, <4>1, <4>2, <4>3 DEF Begin
    <3> QED BY <1>0, <3>1 DEF PlaceInv
  <2>2. ~detecting /\ ~rendering /\ lock = <<None, None>>
    BY <2>1 DEF FlagsFollowWalk
  <2> DEFINE Goal == /\ detecting' <=> phase' \in {"collide", "collideCall"}
                     /\ rendering' <=> phase' = "render"
                     /\ lock' = <<None, None>>
  <2>3. ASSUME NEW v \in {1, 2}, ObjFrame(v) PROVE Goal
    <3>1. phase' = "update" /\ UNCHANGED <<lock, detecting, rendering>>
      BY <2>3 DEF ObjFrame, BeginWalk
    <3> QED BY <2>2, <3>1
  <2>5. ASSUME BoundCheckLegacy \/ BoundCheck PROVE Goal
    <3>1. phase' \in {"bound", "boundCall"} /\ UNCHANGED flagVars
      <4>1. CASE BoundCheckLegacy
        BY <4>1 DEF BoundCheckLegacy, BeginWalk
      <4>2. CASE BoundCheck
        BY <4>2 DEF BoundCheck, BeginWalk
      <4> QED BY <2>5, <4>1, <4>2
    <3>2. ~detecting' /\ ~rendering' /\ lock' = <<None, None>>
      BY <2>2, <3>1 DEF flagVars
    <3> QED BY <3>1, <3>2
  <2>r. ASSUME ObjRender PROVE Goal
    <3>1. phase' = "render" /\ rendering'
      BY <2>r DEF ObjRender, BeginWalk
    <3>2. ~detecting' /\ lock' = <<None, None>>
      BY <2>2, <2>r DEF ObjRender
    <3> QED BY <3>1, <3>2
  <2>6. ASSUME NEW g1 \in Groups, NEW g2 \in Groups, CollisionCheckLegacy(g1, g2) PROVE Goal
    BY <2>2, <2>6 DEF CollisionCheckLegacy, BeginWalk
  <2>7. ASSUME NEW P, CollisionCheck(P) PROVE Goal
    <3>1. phase' = "collideCall" /\ detecting' /\ UNCHANGED <<lock, rendering>>
      BY <2>7 DEF CollisionCheck, BeginWalk
    <3> QED BY <2>2, <3>1
  <2>8. Goal
    <3> HIDE DEF Goal
    <3> QED BY <1>2, <2>3, <2>5, <2>r, <2>6, <2>7 DEF Begin
  <2> QED BY <2>8 DEF FlagsFollowWalk
<1>3. CASE UpdateVisit \/ UpdateReturn \/ UpdateEnd \/ BoundVisit \/ BoundReturn \/ BoundEnd
           \/ BoundCall \/ BoundCallReturn \/ BoundCallEnd
  <2>1. /\ phase \in {"update", "bound", "boundCall"} /\ phase' \in {phase, "script"}
        /\ UNCHANGED <<lock, detecting, rendering>>
    BY <1>3 DEF UpdateVisit, UpdateReturn, UpdateEnd, BoundVisit, BoundReturn, BoundEnd,
       BoundCall, BoundCallReturn, BoundCallEnd, EndWalk, flagVars
  <2> QED BY <2>1 DEF FlagsFollowWalk
<1>4. CASE RenderVisit \/ RenderReturn
  <2>1. phase = "render" /\ phase' = phase /\ UNCHANGED <<lock, detecting, rendering>>
    BY <1>4 DEF RenderVisit, RenderReturn, flagVars
  <2> QED BY <2>1 DEF FlagsFollowWalk
<1>5. CASE RenderEnd
  BY <1>5 DEF RenderEnd, EndWalk, FlagsFollowWalk
<1>6. CASE CollideOuter \/ CollideInner \/ CollideReturn \/ CollideCall \/ CollideCallReturn
  <2>1. /\ phase \in {"collide", "collideCall"} /\ phase' = phase
        /\ UNCHANGED <<detecting, rendering>>
        /\ UNCHANGED <<lock, inCb>> \/ inCb' \/ lock' = <<None, None>>
    BY <1>6 DEF CollideOuter, CollideInner, CollideReturn, CollideCall, CollideCallReturn, flagVars
  <2> QED BY <2>1 DEF FlagsFollowWalk
<1>7. CASE CollideEnd \/ CollideCallEnd
  <2>1. ~inCb
    BY <1>0, <1>7 DEF CollideEnd, CollideCallEnd, PlaceInv
  <2>2. /\ phase \in {"collide", "collideCall"} /\ phase' = "script"
        /\ ~detecting' /\ UNCHANGED <<lock, rendering>>
    BY <1>7 DEF CollideEnd, CollideCallEnd, EndWalk
  <2> QED BY <2>1, <2>2 DEF FlagsFollowWalk
<1>8. ~Fail
  <2>1. inCb => phase # "script"
    BY <1>0 DEF PlaceInv
  <2> QED BY <2>1 DEF Fail, MayDo
<1>9. CASE UNCHANGED vars
  BY <1>9 DEF vars, FlagsFollowWalk
<1> QED BY <1>1, <1>2, <1>f, <1>3, <1>4, <1>5, <1>6, <1>7, <1>8, <1>9 DEF Next, Walk

\* As long as callbacks raise no errors: only then does m_is_detecting_intersect
\* stay set when the check is over, so that no check is let in any more.
THEOREM FlagsAreReset ==
  ASSUME "Fail" \notin CallbackOps
  PROVE  Spec => []FlagsFollowWalk
<1>1. Init => FlagsFollowWalk
  BY DEF Init, FlagsFollowWalk
<1>2. ListInv /\ FlagsFollowWalk /\ [Next]_vars => FlagsFollowWalk'
  BY FlagsStep
<1> QED BY <1>1, <1>2, ListInvariant, PTL DEF Spec
=============================================================================
