----------------------- MODULE GameObjectStorageProofs -----------------------
(* Proofs that the pool keeps its free ids straight and implements          *)
(* IdAllocator for every capacity, that the manager's calls keep slots,     *)
(* update list and detect lists in step for any number of groups, and that  *)
(* both families of lists stay sequences whatever the manager calls.        *)
EXTENDS GameObjectStorage, FiniteSetTheorems, TLAPS

-----------------------------------------------------------------------------
(* The pool alone *)

\* The pool can hold at most N ids.
LEMMA UsedIsFinite ==
  ASSUME NEW S \in SUBSET Ids
  PROVE  IsFiniteSet(S) /\ Cardinality(S) \in Nat
<1>1. IsFiniteSet(Ids)
  BY CapacityAssumption, FS_Interval DEF Ids
<1>2. IsFiniteSet(S)
  BY <1>1, FS_Subset
<1>3. QED BY <1>2, FS_CardinalityType

\* The entries of the freshly cleared stack are all the ids.
LEMMA LinearIsAll ==
  /\ Linear \in [Ids -> Ids]
  /\ \A i, k \in Ids : Linear[i] = Linear[k] => i = k
  /\ \A id \in Ids : \E i \in 0 .. N - 1 : Linear[i] = id
<1>1. Linear \in [Ids -> Ids]
  BY CapacityAssumption DEF Linear, Ids
<1>2. \A i, k \in Ids : Linear[i] = Linear[k] => i = k
  BY CapacityAssumption DEF Linear, Ids
<1>3. ASSUME NEW id \in Ids PROVE \E i \in 0 .. N - 1 : Linear[i] = id
  <2>1. (N - 1) - id \in Ids /\ (N - 1) - ((N - 1) - id) = id
    BY CapacityAssumption DEF Ids
  <2>2. Linear[(N - 1) - id] = id
    BY <2>1 DEF Linear
  <2>3. QED BY <2>1, <2>2 DEF Ids
<1>4. QED BY <1>1, <1>2, <1>3

\* A cleared pool satisfies the invariant.
LEMMA ClearedInv ==
  ASSUME m_free_count = N, m_free_indices = Linear, m_used = {}, result \in Ids \cup {NoId}
  PROVE  IndInv
<1>1. TypeOK
  BY CapacityAssumption, LinearIsAll DEF TypeOK
<1>2. StackIsFreeIds
  BY CapacityAssumption, LinearIsAll DEF StackIsFreeIds, Ids
<1>3. SizeIsUsed
  BY CapacityAssumption, FS_EmptySet DEF SizeIsUsed
<1>4. QED BY <1>1, <1>2, <1>3 DEF IndInv

\* alloc takes an unused id off the stack.
LEMMA AllocInv == IndInv /\ alloc => IndInv'
<1> SUFFICES ASSUME IndInv, alloc PROVE IndInv'
  OBVIOUS
<1> DEFINE top == m_free_count - 1
           id  == m_free_indices[top]
<1>0. TypeOK /\ StackIsFreeIds /\ SizeIsUsed
  BY DEF IndInv
<1>1. /\ top \in 0 .. m_free_count - 1 /\ top \in Ids
      /\ id \in Ids /\ id \notin m_used
  BY <1>0, CapacityAssumption DEF alloc, TypeOK, StackIsFreeIds, Ids
<1>2. /\ m_free_count' = top /\ m_used' = m_used \cup {id} /\ result' = id
      /\ m_free_indices' = [m_free_indices EXCEPT ![top] = NoId]
  BY DEF alloc
<1>3. TypeOK'
  <2>1. m_free_count' \in 0 .. N
    BY <1>0, <1>1, <1>2, CapacityAssumption DEF TypeOK
  <2>2. m_free_indices' \in [Ids -> Ids \cup {NoId}]
    BY <1>0, <1>1, <1>2 DEF TypeOK
  <2>3. m_used' \in SUBSET Ids /\ result' \in Ids \cup {NoId}
    BY <1>0, <1>1, <1>2 DEF TypeOK
  <2>4. QED BY <2>1, <2>2, <2>3 DEF TypeOK
<1>4. \A i \in 0 .. top - 1 : /\ i \in 0 .. m_free_count - 1 /\ i # top
                              /\ m_free_indices'[i] = m_free_indices[i]
  BY <1>0, <1>1, <1>2, CapacityAssumption DEF TypeOK, Ids
<1>5. StackIsFreeIds'
  <2>1. ASSUME NEW i \in 0 .. top - 1 PROVE m_free_indices'[i] \in Ids \ m_used'
    BY <1>0, <1>1, <1>2, <1>4 DEF StackIsFreeIds
  <2>2. ASSUME NEW i \in 0 .. top - 1, NEW k \in 0 .. top - 1,
               m_free_indices'[i] = m_free_indices'[k]
        PROVE  i = k
    BY <1>0, <1>4, <2>2 DEF StackIsFreeIds
  <2>3. ASSUME NEW x \in Ids \ m_used'
        PROVE  \E i \in 0 .. top - 1 : m_free_indices'[i] = x
    <3>1. PICK i \in 0 .. m_free_count - 1 : m_free_indices[i] = x
      BY <1>0, <1>2, <2>3 DEF StackIsFreeIds
    <3>2. i # top
      BY <1>2, <2>3, <3>1
    <3>3. i \in 0 .. top - 1
      BY <1>0, <1>1, <3>2 DEF TypeOK
    <3>4. QED BY <1>4, <3>1, <3>3
  <2>4. QED BY <1>2, <2>1, <2>2, <2>3 DEF StackIsFreeIds
<1>6. SizeIsUsed'
  <2>1. Cardinality(m_used') = Cardinality(m_used) + 1
    BY <1>0, <1>1, <1>2, UsedIsFinite, FS_AddElement DEF TypeOK
  <2>2. Cardinality(m_used) \in Nat
    BY <1>0, UsedIsFinite DEF TypeOK
  <2>3. QED BY <1>0, <1>2, <2>1, <2>2, CapacityAssumption DEF SizeIsUsed, TypeOK
<1>7. QED BY <1>3, <1>5, <1>6 DEF IndInv

\* free pushes an id that was in use, and there is room for it.
LEMMA FreeInv == ASSUME NEW id \in 0 .. N, IndInv, free(id) PROVE IndInv'
<1>0. TypeOK /\ StackIsFreeIds /\ SizeIsUsed
  BY DEF IndInv
<1>1. CASE ~(id < N /\ id \in m_used)
  BY <1>0, <1>1 DEF free, IndInv, TypeOK, StackIsFreeIds, SizeIsUsed
<1>2. CASE id < N /\ id \in m_used
  <2> DEFINE top == m_free_count
  <2>1. /\ m_free_count' = top + 1 /\ m_used' = m_used \ {id} /\ result' = result
        /\ m_free_indices' = [m_free_indices EXCEPT ![top] = id]
        /\ id \in Ids
    BY <1>2, CapacityAssumption DEF free, Ids
  <2>2. /\ Cardinality(m_used') = Cardinality(m_used) - 1
        /\ Cardinality(m_used) \in Nat /\ Cardinality(m_used') \in Nat
    <3>1. m_used' \in SUBSET Ids
      BY <1>0, <2>1 DEF TypeOK
    <3>2. Cardinality(m_used') \in Nat /\ Cardinality(m_used) \in Nat /\ IsFiniteSet(m_used)
      BY <1>0, <3>1, UsedIsFinite DEF TypeOK
    <3>3. QED BY <1>2, <2>1, <3>2, FS_RemoveElement
  <2>3. top \in Ids /\ top \in 0 .. N - 1
    BY <1>0, <2>2, CapacityAssumption DEF SizeIsUsed, TypeOK, Ids
  <2>4. TypeOK'
    BY <1>0, <2>1, <2>3, CapacityAssumption DEF TypeOK, Ids
  <2>5. /\ m_free_indices'[top] = id
        /\ \A i \in 0 .. top - 1 : m_free_indices'[i] = m_free_indices[i]
        /\ \A i \in 0 .. (top + 1) - 1 : i \in 0 .. top - 1 \/ i = top
        /\ \A i \in 0 .. top - 1 : i \in 0 .. (top + 1) - 1
        /\ top \in 0 .. (top + 1) - 1
    BY <1>0, <2>1, <2>3, CapacityAssumption DEF TypeOK, Ids
  <2>6. \A i \in 0 .. top - 1 : m_free_indices[i] # id
    BY <1>0, <1>2 DEF StackIsFreeIds
  <2>7. StackIsFreeIds'
    <3>1. ASSUME NEW i \in 0 .. (top + 1) - 1 PROVE m_free_indices'[i] \in Ids \ m_used'
      BY <1>0, <2>1, <2>5 DEF StackIsFreeIds
    <3>2. ASSUME NEW i \in 0 .. (top + 1) - 1, NEW k \in 0 .. (top + 1) - 1,
                 m_free_indices'[i] = m_free_indices'[k]
          PROVE  i = k
      BY <1>0, <2>5, <2>6, <3>2 DEF StackIsFreeIds
    <3>3. ASSUME NEW x \in Ids \ m_used'
          PROVE  \E i \in 0 .. (top + 1) - 1 : m_free_indices'[i] = x
      <4>1. CASE x = id
        BY <2>5, <4>1
      <4>2. CASE x # id
        BY <1>0, <2>1, <2>5, <3>3, <4>2 DEF StackIsFreeIds
      <4>3. QED BY <4>1, <4>2
    <3>4. QED BY <2>1, <3>1, <3>2, <3>3 DEF StackIsFreeIds
  <2>8. SizeIsUsed'
    BY <1>0, <2>1, <2>2, CapacityAssumption DEF SizeIsUsed, TypeOK
  <2>9. QED BY <2>4, <2>7, <2>8 DEF IndInv
<1>3. QED BY <1>1, <1>2

\* Every call preserves the invariant.
LEMMA PoolStep == IndInv /\ [Next]_vars => IndInv'
<1> SUFFICES ASSUME IndInv, [Next]_vars PROVE IndInv'
  OBVIOUS
<1>1. CASE alloc
  BY <1>1, AllocInv
<1>2. CASE allocFail
  BY <1>2 DEF allocFail, IndInv, TypeOK, StackIsFreeIds, SizeIsUsed
<1>3. ASSUME NEW id \in 0 .. N, free(id) PROVE IndInv'
  BY <1>3, FreeInv
<1>4. CASE clear
  <2>1. /\ m_free_count' = N /\ m_free_indices' = Linear /\ m_used' = {}
        /\ result' \in Ids \cup {NoId}
    BY <1>4 DEF clear, IndInv, TypeOK
  <2>2. TypeOK'
    BY <2>1, CapacityAssumption, LinearIsAll DEF TypeOK
  <2>3. StackIsFreeIds'
    BY <2>1, CapacityAssumption, LinearIsAll DEF StackIsFreeIds, Ids
  <2>4. SizeIsUsed'
    BY <2>1, CapacityAssumption, FS_EmptySet DEF SizeIsUsed
  <2>5. QED BY <2>2, <2>3, <2>4 DEF IndInv
<1>5. CASE UNCHANGED vars
  BY <1>5 DEF vars, IndInv, TypeOK, StackIsFreeIds, SizeIsUsed
<1>6. QED BY <1>1, <1>2, <1>3, <1>4, <1>5 DEF Next

\* For every capacity and every sequence of calls the stack holds exactly the
\* unused ids, each once, never outgrows its array, and size() is right.
THEOREM PoolInvariant == Spec => [](TypeOK /\ StackIsFreeIds /\ SizeIsUsed)
<1>1. Init => IndInv
  BY ClearedInv DEF Init
<1>2. QED BY <1>1, PoolStep, PTL DEF Spec, IndInv

\* For every capacity the pool implements IdAllocator: what alloc gives out was
\* not in use, it fails only when everything is, and only free and clear give
\* ids back.
THEOREM PoolImplementsAllocator == Spec => AllocatorSpec
<1>1. Init => Allocator!Init
  BY DEF Init, Allocator!Init, NoId, Allocator!NoId
<1>2. IndInv /\ [Next]_vars => [Allocator!Next]_<<m_used, result>>
  <2> SUFFICES ASSUME IndInv, [Next]_vars PROVE [Allocator!Next]_<<m_used, result>>
    OBVIOUS
  <2>0. TypeOK /\ StackIsFreeIds
    BY DEF IndInv
  <2>i. Allocator!Ids = Ids /\ Allocator!NoId = NoId
    BY DEF Allocator!Ids, Ids, Allocator!NoId, NoId
  <2>s. ASSUME vars' = vars PROVE <<m_used, result>>' = <<m_used, result>>
    BY <2>s DEF vars
  <2>1. CASE alloc
    <3>1. m_free_indices[m_free_count - 1] \in Ids \ m_used
      BY <2>0, <2>1 DEF alloc, TypeOK, StackIsFreeIds
    <3>2. Allocator!Allocate
      BY <2>1, <2>i, <3>1 DEF alloc, Allocator!Allocate
    <3>3. QED BY <3>2 DEF Allocator!Next
  <2>2. CASE allocFail
    <3>1. Ids \ m_used = {}
      BY <2>0, <2>2 DEF allocFail, StackIsFreeIds
    <3>2. m_used = Ids
      BY <2>0, <3>1 DEF TypeOK
    <3>3. Allocator!Refuse
      BY <2>2, <2>i, <3>2 DEF allocFail, Allocator!Refuse
    <3>4. QED BY <3>3 DEF Allocator!Next
  <2>3. ASSUME NEW id \in 0 .. N, free(id) PROVE [Allocator!Next]_<<m_used, result>>
    <3>1. CASE id < N /\ id \in m_used
      <4>1. id \in Ids
        BY <2>0, <3>1 DEF TypeOK
      <4>2. Allocator!Release(id)
        BY <2>3, <3>1 DEF free, Allocator!Release
      <4>3. QED BY <2>i, <4>1, <4>2 DEF Allocator!Next
    <3>2. CASE ~(id < N /\ id \in m_used)
      BY <2>3, <3>2 DEF free
    <3>3. QED BY <3>1, <3>2
  <2>4. CASE clear
    BY <2>4 DEF clear, Allocator!Next, Allocator!ReleaseAll
  <2>q. QED BY <2>s, <2>1, <2>2, <2>3, <2>4 DEF Next
<1>3. Init => IndInv
  BY ClearedInv DEF Init
<1>4. QED BY <1>1, <1>2, <1>3, PoolStep, PTL DEF Spec, AllocatorSpec, Allocator!Spec

-----------------------------------------------------------------------------
(* The calls of the manager *)

UpdateP == INSTANCE GameObjectLinkedListProofs WITH
  Objects <- Ids, Lists <- {UpdateList}, None <- NoId,
  m_first <- u_first, m_last <- u_last, previous <- u_previous, next <- u_next,
  where <- u_where, ret <- u_ret

DetectP == INSTANCE GameObjectLinkedListProofs WITH
  Objects <- Ids, Lists <- Groups, None <- NoId,
  m_first <- d_first, m_last <- d_last, previous <- d_previous, next <- d_next,
  where <- d_where, ret <- d_ret

UInv == Update!TypeOK /\ Update!LinksAgree /\ Update!NoStaleLinks
DInv == Detect!TypeOK /\ Detect!LinksAgree /\ Detect!NoStaleLinks

LEMMA NullIsNoObject == UpdateP!NullIsNothing /\ DetectP!NullIsNothing
BY GroupsAssumption, CapacityAssumption
   DEF UpdateP!NullIsNothing, DetectP!NullIsNothing, Ids, NoId, UpdateList

LEMMA UInvIs == UInv <=> UpdateP!ListInv
BY DEF UInv, UpdateP!ListInv, Update!TypeOK, UpdateP!TypeOK, Update!LinksAgree,
       UpdateP!LinksAgree, Update!NoStaleLinks, UpdateP!NoStaleLinks, Update!IsSole,
       UpdateP!IsSole, Update!Pointers, UpdateP!Pointers

LEMMA DInvIs == DInv <=> DetectP!ListInv
BY DEF DInv, DetectP!ListInv, Detect!TypeOK, DetectP!TypeOK, Detect!LinksAgree,
       DetectP!LinksAgree, Detect!NoStaleLinks, DetectP!NoStaleLinks, Detect!IsSole,
       DetectP!IsSole, Detect!Pointers, DetectP!Pointers

\* The calls on the update list, and those on a detect list, keep its links.
LEMMA UAdd == ASSUME NEW o \in Ids, UInv, Update!add(UpdateList, o) PROVE UInv'
<1>1. UpdateP!add(UpdateList, o)
  BY DEF Update!add, UpdateP!add, Update!empty, UpdateP!empty
<1>2. UpdateP!ListInv'
  BY <1>1, UInvIs, NullIsNoObject, UpdateP!AddKeeps
<1> QED BY <1>2, UInvIs, PTL

LEMMA URemove == ASSUME NEW o \in Ids, UInv, Update!remove(UpdateList, o) PROVE UInv'
<1>1. UpdateP!remove(UpdateList, o)
  BY DEF Update!remove, UpdateP!remove, Update!IsSole, UpdateP!IsSole,
         Update!removeOther, UpdateP!removeOther
<1>2. UpdateP!ListInv'
  BY <1>1, UInvIs, NullIsNoObject, UpdateP!RemoveKeeps
<1> QED BY <1>2, UInvIs, PTL

LEMMA DAdd ==
  ASSUME NEW g \in Groups, NEW o \in Ids, DInv, Detect!add(g, o) PROVE DInv'
<1>1. DetectP!add(g, o)
  BY DEF Detect!add, DetectP!add, Detect!empty, DetectP!empty
<1>2. DetectP!ListInv'
  BY <1>1, DInvIs, NullIsNoObject, DetectP!AddKeeps
<1> QED BY <1>2, DInvIs, PTL

LEMMA DRemove ==
  ASSUME NEW g \in Groups, NEW o \in Ids, DInv, Detect!remove(g, o) PROVE DInv'
<1>1. DetectP!remove(g, o)
  BY DEF Detect!remove, DetectP!remove, Detect!IsSole, DetectP!IsSole,
         Detect!removeOther, DetectP!removeOther
<1>2. DetectP!ListInv'
  BY <1>1, DInvIs, NullIsNoObject, DetectP!RemoveKeeps
<1> QED BY <1>2, DInvIs, PTL

\* A family that is left alone keeps its links.
LEMMA USame == ASSUME UInv, UNCHANGED updateVars PROVE UInv'
BY DEF UInv, updateVars, Update!TypeOK, Update!LinksAgree, Update!NoStaleLinks, Update!IsSole

LEMMA DSame == ASSUME DInv, UNCHANGED detectVars PROVE DInv'
BY DEF DInv, detectVars, Detect!TypeOK, Detect!LinksAgree, Detect!NoStaleLinks, Detect!IsSole

\* Reset writes the links of an object that is in no list, which are null.
LEMMA ResetChangesNothing ==
  ASSUME UInv, DInv, object \in Ids, u_where[object] = NoId, d_where[object] = NoId, Reset
  PROVE  UNCHANGED <<updateVars, detectVars>>
<1>1. u_previous[object] = NoId /\ u_next[object] = NoId
  BY DEF UInv, Update!NoStaleLinks
<1>2. d_previous[object] = NoId /\ d_next[object] = NoId
  BY DEF DInv, Detect!NoStaleLinks
<1>3. u_previous' = u_previous /\ u_next' = u_next
  BY <1>1 DEF Reset, UInv, Update!TypeOK
<1>4. d_previous' = d_previous /\ d_next' = d_next
  BY <1>2 DEF Reset, DInv, Detect!TypeOK
<1> QED BY <1>3, <1>4 DEF Reset, updateVars, detectVars

-----------------------------------------------------------------------------
\* Every call is a call of the pool, or leaves it alone.
LEMMA StorageIsPool ==
  ASSUME object \in Ids \cup {NoId}, [StorageNext]_storageVars
  PROVE  [Next]_vars
<1>1. ASSUME NEW o \in Ids, Release(o) PROVE Next
  <2>1. free(o)
    BY <1>1 DEF Release
  <2>2. o \in 0 .. N
    BY CapacityAssumption DEF Ids
  <2> QED BY <2>1, <2>2 DEF Next
<1>2. CASE Allocate
  BY <1>2 DEF Allocate, Next
<1>3. CASE Reset \/ Insert \/ EnterGroup \/ ResetPool \/ resetGameObjectLists
  BY <1>3 DEF Reset, Insert, EnterGroup, ResetPool, resetGameObjectLists
<1>4. ASSUME NEW o \in Ids, NEW g \in Groups, DirtResetObject(o) \/ LeaveGroup(o, g)
      PROVE  [Next]_vars
  BY <1>4 DEF DirtResetObject, LeaveGroup
<1>5. ASSUME NEW o \in Ids, freeWithCallbacks(o) PROVE [Next]_vars
  BY <1>5, <1>1 DEF freeWithCallbacks
<1>6. CASE ClearPool
  BY <1>6 DEF ClearPool, Next
<1>7. CASE FreeFirst
  BY <1>7, <1>1 DEF FreeFirst
<1>8. CASE UNCHANGED storageVars
  BY <1>8 DEF storageVars
<1> QED
  BY <1>2, <1>3, <1>4, <1>5, <1>6, <1>7, <1>8, GroupsAssumption DEF StorageNext
\* Where each object is at each place of a call.
InBetween == pc \in {"reset", "insert"}
Members ==
  /\ pc \in {"idle", "reset", "insert", "enter", "freeing", "clear"}
  /\ object \in Ids \cup {NoId}
  /\ group \in [Ids -> Groups]
  /\ pc \in {"reset", "insert", "enter"} => object \in m_used
  /\ pc = "clear" => m_used = {}
  /\ \A o \in Ids :
       /\ u_where[o] = IF o \in m_used /\ ~(InBetween /\ o = object) THEN UpdateList ELSE NoId
       /\ d_where[o] = IF o \in m_used /\ ~((InBetween \/ pc = "enter") /\ o = object)
                       THEN group[o] ELSE NoId

StorageInv == IndInv /\ UInv /\ DInv /\ Members

\* An object that is released leaves all three structures at once.
LEMMA ReleaseKeeps ==
  ASSUME StorageInv, NEW o \in Ids, Release(o), pc \in {"idle", "freeing"}
  PROVE  /\ UInv' /\ DInv' /\ m_used' = m_used \ {o} /\ group' = group
         /\ u_where' = [u_where EXCEPT ![o] = NoId] /\ d_where' = [d_where EXCEPT ![o] = NoId]
         /\ u_ret' \in Ids \cup {NoId}
<1>1. Update!remove(UpdateList, o) /\ Detect!remove(group[o], o) /\ free(o) /\ group' = group
  BY DEF Release
<1>2. group[o] \in Groups
  BY DEF StorageInv, Members
<1>3. UInv' /\ DInv'
  BY <1>1, <1>2, URemove, DRemove DEF StorageInv
<1>4. u_where[o] = UpdateList
  BY <1>1 DEF Update!remove
<1>5. o \in m_used
  BY <1>4 DEF StorageInv, Members, UpdateList, NoId
<1>6. m_used' = m_used \ {o}
  BY <1>1, <1>5, CapacityAssumption DEF free, Ids
<1>7. u_ret' \in Ids \cup {NoId}
  BY <1>3 DEF UInv, Update!TypeOK, Update!Pointers
<1> QED BY <1>1, <1>3, <1>6, <1>7 DEF Update!remove, Detect!remove

LEMMA StorageInit_Inv == StorageInit => StorageInv
<1> SUFFICES ASSUME StorageInit PROVE StorageInv
  OBVIOUS
<1>1. IndInv
  BY ClearedInv DEF StorageInit, Init
<1>2. UInv
  <2>1. UpdateP!Init
    BY DEF StorageInit, Update!Init, UpdateP!Init
  <2> QED BY <2>1, NullIsNoObject, UpdateP!InitList, UInvIs
<1>3. DInv
  <2>1. DetectP!Init
    BY DEF StorageInit, Detect!Init, DetectP!Init
  <2> QED BY <2>1, NullIsNoObject, DetectP!InitList, DInvIs
<1>4. Members
  BY GroupsAssumption DEF StorageInit, Init, Update!Init, Detect!Init, Members, InBetween
<1> QED BY <1>1, <1>2, <1>3, <1>4 DEF StorageInv
\* What the parts of the invariant say about the types of what Members mentions.
LEMMA Types ==
  ASSUME StorageInv
  PROVE  /\ TypeOK /\ StackIsFreeIds /\ UInv /\ DInv /\ Members /\ m_used \in SUBSET Ids
         /\ u_where \in [Ids -> {UpdateList, NoId}] /\ d_where \in [Ids -> Groups \cup {NoId}]
BY DEF StorageInv, IndInv, TypeOK, UInv, DInv, Update!TypeOK, Detect!TypeOK

\* The calls that leave the lists alone.
LEMMA QuietCallsKeep ==
  ASSUME StorageInv, Allocate \/ ResetPool \/ ClearPool \/ UNCHANGED storageVars
  PROVE  UInv' /\ DInv' /\ Members'
<1>0. /\ TypeOK /\ StackIsFreeIds /\ UInv /\ DInv /\ Members /\ m_used \in SUBSET Ids
      /\ u_where \in [Ids -> {UpdateList, NoId}] /\ d_where \in [Ids -> Groups \cup {NoId}]
  BY Types
<1>1. UNCHANGED <<updateVars, detectVars, group>>
  BY DEF Allocate, ResetPool, ClearPool, storageVars
<1>2. UInv' /\ DInv'
  BY <1>0, <1>1, USame, DSame
<1>3. u_where' = u_where /\ d_where' = d_where /\ group' = group
  BY <1>1 DEF updateVars, detectVars
<1>4. ASSUME alloc, pc = "idle", object' = result', pc' = "reset" PROVE Members'
  <2>1. result' \in Ids \ m_used /\ m_used' = m_used \cup {result'}
    BY <1>0, <1>4 DEF alloc, TypeOK, StackIsFreeIds
  <2> QED BY <1>0, <1>3, <1>4, <2>1 DEF Members, InBetween
<1>5. ASSUME m_used' = m_used, object' = object, pc' = pc PROVE Members'
  BY <1>0, <1>3, <1>5 DEF Members, InBetween
<1>6. CASE Allocate
  BY <1>2, <1>4, <1>5, <1>6 DEF Allocate, allocFail
<1>7. CASE ResetPool
  <2>1. object' \in Ids \cup {NoId}
    BY <1>0, <1>7 DEF ResetPool, UInv, Update!TypeOK, Update!Pointers
  <2>2. pc = "idle" /\ pc' = "freeing" /\ m_used' = m_used
    BY <1>7 DEF ResetPool, vars
  <2>3. Members'
    BY <1>0, <1>3, <2>1, <2>2 DEF Members, InBetween
  <2> QED BY <1>2, <2>3
<1>8. CASE ClearPool
  <2>1. pc = "clear" /\ pc' = "idle" /\ m_used' = {} /\ object' = object
    BY <1>8 DEF ClearPool, clear
  <2>2. Members'
    BY <1>0, <1>3, <2>1 DEF Members, InBetween
  <2> QED BY <1>2, <2>2
<1>9. CASE UNCHANGED storageVars
  BY <1>2, <1>5, <1>9 DEF storageVars, vars
<1> QED BY <1>2, <1>6, <1>7, <1>8, <1>9

LEMMA ResetKeeps == ASSUME StorageInv, Reset PROVE UInv' /\ DInv' /\ Members'
<1>0. /\ UInv /\ DInv /\ Members /\ m_used \in SUBSET Ids
      /\ u_where \in [Ids -> {UpdateList, NoId}] /\ d_where \in [Ids -> Groups \cup {NoId}]
  BY Types
<1>1. object \in Ids /\ u_where[object] = NoId /\ d_where[object] = NoId
  BY <1>0 DEF Reset, Members, InBetween
<1>2. UNCHANGED <<updateVars, detectVars>>
  BY <1>0, <1>1, ResetChangesNothing
<1>3. UInv' /\ DInv'
  BY <1>0, <1>2, USame, DSame
<1>4. /\ pc = "reset" /\ pc' = "insert" /\ m_used' = m_used /\ object' = object
      /\ group' = [group EXCEPT ![object] = 0] /\ u_where' = u_where /\ d_where' = d_where
  BY <1>2 DEF Reset, vars, updateVars, detectVars
<1>5. Members'
  BY <1>0, <1>1, <1>4, GroupsAssumption DEF Members, InBetween
<1> QED BY <1>3, <1>5

\* An object enters both lists, or the list of its group.
LEMMA EnteringKeeps ==
  ASSUME StorageInv, Insert \/ EnterGroup PROVE UInv' /\ DInv' /\ Members'
<1>0. /\ UInv /\ DInv /\ Members /\ m_used \in SUBSET Ids
      /\ u_where \in [Ids -> {UpdateList, NoId}] /\ d_where \in [Ids -> Groups \cup {NoId}]
  BY Types
<1>1. /\ object \in m_used /\ object \in Ids /\ group[object] \in Groups
      /\ group' = group /\ m_used' = m_used /\ pc' = "idle" /\ object' = NoId
  BY <1>0 DEF Insert, EnterGroup, Members, vars
<1>2. CASE Insert
  <2>1. UInv' /\ DInv'
    BY <1>0, <1>1, <1>2, UAdd, DAdd DEF Insert
  <2>2. /\ u_where' = [u_where EXCEPT ![object] = UpdateList]
        /\ d_where' = [d_where EXCEPT ![object] = group[object]] /\ pc = "insert"
    BY <1>2 DEF Insert, Update!add, Detect!add
  <2>3. Members'
    BY <1>0, <1>1, <2>2 DEF Members, InBetween
  <2> QED BY <2>1, <2>3
<1>3. CASE EnterGroup
  <2>1. UInv' /\ DInv'
    BY <1>0, <1>1, <1>3, USame, DAdd DEF EnterGroup
  <2>2. /\ u_where' = u_where
        /\ d_where' = [d_where EXCEPT ![object] = group[object]] /\ pc = "enter"
    BY <1>3 DEF EnterGroup, Detect!add, updateVars
  <2>3. Members'
    BY <1>0, <1>1, <2>2 DEF Members, InBetween
  <2> QED BY <2>1, <2>3
<1> QED BY <1>2, <1>3

\* An object in use leaves the list of its group, or both lists.
LEMMA LeavingKeeps ==
  ASSUME StorageInv, NEW o \in Ids, NEW g \in Groups, LeaveGroup(o, g) \/ DirtResetObject(o)
  PROVE  UInv' /\ DInv' /\ Members'
<1>0. /\ UInv /\ DInv /\ Members /\ m_used \in SUBSET Ids
      /\ u_where \in [Ids -> {UpdateList, NoId}] /\ d_where \in [Ids -> Groups \cup {NoId}]
  BY Types
<1>1. /\ o \in m_used /\ group[o] \in Groups /\ m_used' = m_used /\ object' = o /\ pc = "idle"
  BY <1>0 DEF LeaveGroup, DirtResetObject, Members, vars
<1>2. CASE LeaveGroup(o, g)
  <2>1. UInv' /\ DInv'
    BY <1>0, <1>1, <1>2, USame, DRemove DEF LeaveGroup
  <2>2. /\ u_where' = u_where /\ d_where' = [d_where EXCEPT ![o] = NoId]
        /\ pc' = "enter" /\ group' = [group EXCEPT ![o] = g]
    BY <1>2 DEF LeaveGroup, Detect!remove, updateVars
  <2>3. Members'
    BY <1>0, <1>1, <2>2 DEF Members, InBetween
  <2> QED BY <2>1, <2>3
<1>3. CASE DirtResetObject(o)
  <2>1. UInv' /\ DInv'
    BY <1>0, <1>1, <1>3, URemove, DRemove DEF DirtResetObject
  <2>2. /\ u_where' = [u_where EXCEPT ![o] = NoId] /\ d_where' = [d_where EXCEPT ![o] = NoId]
        /\ pc' = "insert" /\ group' = group
    BY <1>3 DEF DirtResetObject, Update!remove, Detect!remove
  <2>3. Members'
    BY <1>0, <1>1, <2>2 DEF Members, InBetween
  <2> QED BY <2>1, <2>3
<1> QED BY <1>2, <1>3

\* ResetPool and freeWithCallbacks: one object fewer.
LEMMA FreeingKeeps ==
  ASSUME StorageInv, NEW o \in Ids, freeWithCallbacks(o) \/ (FreeFirst /\ o = object)
  PROVE  UInv' /\ DInv' /\ Members'
<1>0. /\ Members /\ m_used \in SUBSET Ids
      /\ u_where \in [Ids -> {UpdateList, NoId}] /\ d_where \in [Ids -> Groups \cup {NoId}]
  BY Types
<1>1. Release(o) /\ pc \in {"idle", "freeing"} /\ pc' = pc /\ object' \in {object, u_ret'}
  BY DEF freeWithCallbacks, FreeFirst
<1>2. /\ UInv' /\ DInv' /\ m_used' = m_used \ {o} /\ group' = group
      /\ u_where' = [u_where EXCEPT ![o] = NoId] /\ d_where' = [d_where EXCEPT ![o] = NoId]
      /\ u_ret' \in Ids \cup {NoId}
  BY <1>1, ReleaseKeeps
<1>3. object' \in Ids \cup {NoId}
  BY <1>0, <1>1, <1>2 DEF Members
<1>4. Members'
  BY <1>0, <1>1, <1>2, <1>3 DEF Members, InBetween
<1> QED BY <1>2, <1>4

\* resetGameObjectLists runs when every object has been released, and then
\* clear finds all links null.
LEMMA ClearListsKeeps ==
  ASSUME StorageInv, resetGameObjectLists
  PROVE  UInv' /\ DInv' /\ Members' /\ UNCHANGED <<updateVars, detectVars>>
<1>0. /\ UInv /\ DInv /\ Members /\ m_used \in SUBSET Ids
      /\ u_where \in [Ids -> {UpdateList, NoId}] /\ d_where \in [Ids -> Groups \cup {NoId}]
  BY Types
<1>1. \A o \in Ids : u_where[o] = NoId
  BY DEF resetGameObjectLists, Update!clear
<1>2. \A o \in Ids : u_previous[o] = NoId /\ u_next[o] = NoId
  BY <1>0, <1>1 DEF UInv, Update!NoStaleLinks
<1>3. UNCHANGED updateVars
  <2> DEFINE members == {Update!Chain(u_next, u_first[UpdateList])[i] :
                           i \in 1 .. Len(Update!Chain(u_next, u_first[UpdateList]))}
  <2>1. /\ u_next' = [o \in Ids |-> IF o \in members THEN NoId ELSE u_next[o]]
        /\ u_previous' = [o \in Ids |-> IF o \in members THEN NoId ELSE u_previous[o]]
        /\ UNCHANGED <<u_first, u_last, u_where, u_ret>>
    BY DEF resetGameObjectLists, Update!clear
  <2> HIDE DEF members
  <2>2. u_next' = u_next /\ u_previous' = u_previous
    BY <1>0, <1>2, <2>1 DEF UInv, Update!TypeOK
  <2> QED BY <2>1, <2>2 DEF updateVars
<1>4. pc = "freeing" /\ pc' = "clear" /\ object' = object /\ group' = group /\ m_used' = m_used
  BY DEF resetGameObjectLists, vars
<1>5. m_used = {}
  BY <1>0, <1>1, <1>4 DEF Members, InBetween, UpdateList, NoId
<1>6. \A o \in Ids : d_where[o] = NoId
  BY <1>0, <1>5 DEF Members
<1>7. \A o \in Ids : d_previous[o] = NoId /\ d_next[o] = NoId
  BY <1>0, <1>6 DEF DInv, Detect!NoStaleLinks
<1>8. UNCHANGED detectVars
  <2> DEFINE members == UNION {{Detect!Chain(d_next, d_first[g])[i] :
                                  i \in DOMAIN Detect!Chain(d_next, d_first[g])} : g \in Groups}
  <2>1. /\ d_next' = [o \in Ids |-> IF o \in members THEN NoId ELSE d_next[o]]
        /\ d_previous' = [o \in Ids |-> IF o \in members THEN NoId ELSE d_previous[o]]
        /\ UNCHANGED <<d_first, d_last, d_where, d_ret>>
    BY DEF resetGameObjectLists
  <2> HIDE DEF members
  <2>2. d_next' = d_next /\ d_previous' = d_previous
    BY <1>0, <1>7, <2>1 DEF DInv, Detect!TypeOK
  <2> QED BY <2>1, <2>2 DEF detectVars
<1>9. UInv' /\ DInv'
  BY <1>0, <1>3, <1>8, USame, DSame
<1>10. u_where' = u_where /\ d_where' = d_where
  BY <1>3, <1>8 DEF updateVars, detectVars
<1>11. Members'
  BY <1>0, <1>4, <1>5, <1>10 DEF Members, InBetween
<1> QED BY <1>3, <1>8, <1>9, <1>11

LEMMA StorageStep == StorageInv /\ [StorageNext]_storageVars => StorageInv'
<1> SUFFICES ASSUME StorageInv, [StorageNext]_storageVars PROVE StorageInv'
  OBVIOUS
<1>0. IndInv /\ object \in Ids \cup {NoId}
  BY DEF StorageInv, Members
<1>1. IndInv'
  BY <1>0, StorageIsPool, PoolStep
<1>2. UInv' /\ DInv' /\ Members'
  <2>1. CASE FreeFirst
    <3>1. object \in Ids
      BY <1>0, <2>1 DEF FreeFirst
    <3> QED BY <2>1, <3>1, FreeingKeeps
  <2>2. ASSUME NEW o \in Ids, \/ DirtResetObject(o) \/ freeWithCallbacks(o)
                              \/ \E g \in Groups : LeaveGroup(o, g)
        PROVE  UInv' /\ DInv' /\ Members'
    BY <2>2, GroupsAssumption, LeavingKeeps, FreeingKeeps
  <2>3. CASE resetGameObjectLists
    BY <2>3, ClearListsKeeps
  <2> QED BY <2>1, <2>2, <2>3, QuietCallsKeep, ResetKeeps, EnteringKeeps DEF StorageNext
<1> QED BY <1>1, <1>2 DEF StorageInv
-----------------------------------------------------------------------------
LEMMA StorageInvariant == StorageSpec => []StorageInv
BY StorageInit_Inv, StorageStep, PTL DEF StorageSpec

\* GameObjectPool: for any number of objects and groups, and after any calls,
\* the used slots, the update list and the detect lists of the groups agree,
\* and no link leads to an object of another list or to one that is in none.
THEOREM StorageStaysInAgreement == StorageSpec => []StorageAgrees
<1>1. StorageInv => StorageAgrees
  <2> SUFFICES ASSUME StorageInv PROVE StorageAgrees
    OBVIOUS
  <2>1. UInv /\ DInv /\ Members
    BY Types
  <2>2. Update!LinksAgree /\ Update!NoStaleLinks /\ Detect!LinksAgree /\ Detect!NoStaleLinks
    BY <2>1 DEF UInv, DInv
  <2>3. ASSUME pc \in {"idle", "freeing", "clear"}, NEW o \in Ids
        PROVE  IF o \in m_used THEN u_where[o] = UpdateList /\ d_where[o] = group[o]
                               ELSE u_where[o] = NoId /\ d_where[o] = NoId
    BY <2>1, <2>3 DEF Members, InBetween
  <2> QED BY <2>2, <2>3 DEF StorageAgrees
<1> QED BY <1>1, StorageInvariant, PTL

\* FixedObjectPool keeps its promises however the manager calls it: the free
\* ids are exactly those of no object.
THEOREM StorageKeepsPool == StorageSpec => []StackIsFreeIds /\ AllocatorSpec
<1>1. StorageInit => Init
  BY DEF StorageInit
<1>2. StorageInv /\ [StorageNext]_storageVars => [Next]_vars
  BY StorageIsPool, Types DEF Members
<1>3. StorageSpec => Spec
  BY <1>1, <1>2, StorageInvariant, PTL DEF StorageSpec, Spec
<1>4. StorageInv => StackIsFreeIds
  BY Types
<1> QED BY <1>3, <1>4, StorageInvariant, PoolImplementsAllocator, PTL

\* ResetPool leaves the storage as it was constructed: when clear puts the ids
\* in order, nothing is in use and every pointer of both families is null.
THEOREM ResetPoolStartsOver == StorageSpec => ResetPoolRestores
<1> DEFINE Restored ==
      /\ m_used' = {} /\ m_free_indices' = Linear /\ m_free_count' = N
      /\ u_first'[UpdateList] = NoId /\ u_last'[UpdateList] = NoId
      /\ \A g \in Groups : d_first'[g] = NoId /\ d_last'[g] = NoId
      /\ \A o \in Ids : {u_previous'[o], u_next'[o], d_previous'[o], d_next'[o]} = {NoId}
<1>1. ASSUME StorageInv, [StorageNext]_storageVars, pc = "clear", pc' = "idle" PROVE Restored
  <2>0. UInv /\ DInv /\ Members
    BY <1>1, Types
  <2>1. ClearPool
    BY <1>1 DEF StorageNext, Allocate, Reset, Insert, EnterGroup, DirtResetObject, LeaveGroup,
                freeWithCallbacks, ResetPool, FreeFirst, resetGameObjectLists, storageVars
  <2>2. \A o \in Ids : u_where[o] = NoId /\ d_where[o] = NoId
    BY <1>1, <2>0 DEF Members
  <2>3. /\ u_first[UpdateList] = NoId /\ u_last[UpdateList] = NoId
        /\ \A o \in Ids : u_previous[o] = NoId /\ u_next[o] = NoId
    BY <2>0, <2>2, UInvIs, NullIsNoObject, UpdateP!NothingLinked
  <2>4. /\ \A g \in Groups : d_first[g] = NoId /\ d_last[g] = NoId
        /\ \A o \in Ids : d_previous[o] = NoId /\ d_next[o] = NoId
    BY <2>0, <2>2, DInvIs, NullIsNoObject, DetectP!NothingLinked
  <2>5. m_used' = {} /\ m_free_indices' = Linear /\ m_free_count' = N
    BY <2>1 DEF ClearPool, clear
  <2>6. /\ u_first' = u_first /\ u_last' = u_last /\ u_previous' = u_previous /\ u_next' = u_next
        /\ d_first' = d_first /\ d_last' = d_last /\ d_previous' = d_previous /\ d_next' = d_next
    BY <2>1 DEF ClearPool, updateVars, detectVars
  <2> QED BY <2>3, <2>4, <2>5, <2>6
<1>2. StorageInv /\ [StorageNext]_storageVars
        => [pc = "clear" /\ pc' = "idle" => Restored]_storageVars
  BY <1>1
<1> QED BY <1>2, StorageInvariant, PTL DEF StorageSpec, ResetPoolRestores

-----------------------------------------------------------------------------
(* The calls of the manager as calls of the two families of lists *)

LEMMA StorageIsLists ==
  ASSUME StorageInv, [StorageNext]_storageVars
  PROVE  [UpdateP!Next]_(UpdateP!vars) /\ [DetectP!Next]_(DetectP!vars)
<1>0. /\ UInv /\ DInv /\ Members /\ m_used \in SUBSET Ids
      /\ u_where \in [Ids -> {UpdateList, NoId}] /\ d_where \in [Ids -> Groups \cup {NoId}]
  BY Types
<1>1. UNCHANGED updateVars => UNCHANGED UpdateP!vars
  BY DEF updateVars, UpdateP!vars
<1>2. UNCHANGED detectVars => UNCHANGED DetectP!vars
  BY DEF detectVars, DetectP!vars
<1>3. ASSUME NEW o \in Ids, Update!add(UpdateList, o) \/ Update!remove(UpdateList, o)
      PROVE  UpdateP!Next
  BY <1>3 DEF Update!add, Update!remove, Update!removeOther, Update!empty, Update!IsSole,
              UpdateP!add, UpdateP!remove, UpdateP!removeOther, UpdateP!empty, UpdateP!IsSole,
              UpdateP!Next
<1>4. ASSUME NEW g \in Groups, NEW o \in Ids, Detect!add(g, o) \/ Detect!remove(g, o)
      PROVE  DetectP!Next
  BY <1>4 DEF Detect!add, Detect!remove, Detect!removeOther, Detect!empty, Detect!IsSole,
              DetectP!add, DetectP!remove, DetectP!removeOther, DetectP!empty, DetectP!IsSole,
              DetectP!Next
<1>5. \A o \in Ids : group[o] \in Groups
  BY <1>0 DEF Members
<1>6. ASSUME NEW o \in Ids, Release(o) PROVE UpdateP!Next /\ DetectP!Next
  BY <1>3, <1>4, <1>5, <1>6 DEF Release
<1>7. CASE Allocate \/ ResetPool \/ ClearPool \/ UNCHANGED storageVars
  BY <1>1, <1>2, <1>7 DEF Allocate, ResetPool, ClearPool, storageVars
<1>8. CASE Reset
  <2>1. object \in Ids /\ u_where[object] = NoId /\ d_where[object] = NoId
    BY <1>0, <1>8 DEF Reset, Members, InBetween
  <2> QED BY <1>0, <1>1, <1>2, <1>8, <2>1, ResetChangesNothing
<1>9. CASE Insert
  <2>1. object \in Ids
    BY <1>0, <1>9 DEF Insert, Members
  <2> QED BY <1>3, <1>4, <1>5, <1>9, <2>1 DEF Insert
<1>10. CASE EnterGroup
  <2>1. object \in Ids
    BY <1>0, <1>10 DEF EnterGroup, Members
  <2> QED BY <1>1, <1>4, <1>5, <1>10, <2>1 DEF EnterGroup
<1>11. ASSUME NEW o \in Ids, NEW g \in Groups, LeaveGroup(o, g)
       PROVE  [UpdateP!Next]_(UpdateP!vars) /\ [DetectP!Next]_(DetectP!vars)
  BY <1>1, <1>4, <1>5, <1>11 DEF LeaveGroup
<1>12. ASSUME NEW o \in Ids, DirtResetObject(o) PROVE UpdateP!Next /\ DetectP!Next
  BY <1>3, <1>4, <1>5, <1>12 DEF DirtResetObject
<1>13. ASSUME NEW o \in Ids, freeWithCallbacks(o) PROVE UpdateP!Next /\ DetectP!Next
  BY <1>6, <1>13 DEF freeWithCallbacks
<1>14. CASE FreeFirst
  <2>1. object \in Ids
    BY <1>0, <1>14 DEF FreeFirst, Members
  <2> QED BY <1>6, <1>14, <2>1 DEF FreeFirst
<1>15. CASE resetGameObjectLists
  BY <1>1, <1>2, <1>15, ClearListsKeeps
<1> QED BY <1>7, <1>8, <1>9, <1>10, <1>11, <1>12, <1>13, <1>14, <1>15 DEF StorageNext

\* The lists as sequences are the same, whether the lemmas name them or the model.
LEMMA CountsAgree ==
  \A S : /\ Update!Cardinality(S) = UpdateP!Cardinality(S)
         /\ Detect!Cardinality(S) = DetectP!Cardinality(S)
BY Zenon DEF Update!Cardinality, UpdateP!Cardinality, Detect!Cardinality, DetectP!Cardinality

LEMMA UpdateChainIs == ASSUME NEW f, NEW o PROVE Update!Chain(f, o) = UpdateP!Chain(f, o)
<1> DEFINE Follows(at, n) == at = [i \in 1 .. n |-> IF i = 1 THEN o
                                                    ELSE IF at[i - 1] = NoId THEN NoId
                                                    ELSE f[at[i - 1]]]
           n == Update!Cardinality(Ids)
           m == UpdateP!Cardinality(Ids)
           a == CHOOSE at : Follows(at, n)
           b == CHOOSE at : Follows(at, m)
<1>1. n = m
  BY CountsAgree
<1>2. a = b
  <2> HIDE DEF n, m, Follows
  <2> QED BY <1>1, Zenon
<1>3. Update!Chain(f, o) = [i \in 1 .. Update!Cardinality({k \in 1 .. n : a[k] # NoId}) |-> a[i]]
  BY DEF Update!Chain
<1>4. UpdateP!Chain(f, o) = [i \in 1 .. UpdateP!Cardinality({k \in 1 .. m : b[k] # NoId}) |-> b[i]]
  BY DEF UpdateP!Chain
<1> HIDE DEF n, m, a, b
<1> QED BY <1>1, <1>2, <1>3, <1>4, CountsAgree, Zenon

LEMMA UpdateAfterIs ==
  ASSUME NEW s, NEW o PROVE UpdateP!AsSequences!After(s, o) = Update!AsSequences!After(s, o)
BY Zenon DEF UpdateP!AsSequences!After, Update!AsSequences!After

LEMMA UpdateDroppedIs ==
  ASSUME NEW s, NEW o PROVE UpdateP!AsSequences!Dropped(s, o) = Update!AsSequences!Dropped(s, o)
BY Zenon DEF UpdateP!AsSequences!Dropped, Update!AsSequences!Dropped

LEMMA UpdateSequences == UpdateP!SequencesSpec => Update!SequencesSpec
<1> DEFINE Q == [l \in {UpdateList} |-> UpdateP!Chain(u_next, u_first[l])]
           R == [l \in {UpdateList} |-> Update!Chain(u_next, u_first[l])]
<1>0. Q = R /\ Q' = R'
  BY UpdateChainIs
<1>1. UpdateP!AsSequences!Init => Update!AsSequences!Init
  BY UpdateChainIs DEF UpdateP!AsSequences!Init, Update!AsSequences!Init
<1>2. ASSUME NEW l \in {UpdateList}, NEW o \in Ids, UpdateP!AsSequences!Add(l, o)
      PROVE  Update!AsSequences!Add(l, o)
  BY <1>2, UpdateChainIs
     DEF UpdateP!AsSequences!Add, Update!AsSequences!Add,
         UpdateP!AsSequences!InList, Update!AsSequences!InList
<1>3. ASSUME NEW l \in {UpdateList}, NEW o \in Ids, UpdateP!AsSequences!Remove(l, o)
      PROVE  Update!AsSequences!Remove(l, o)
  <2>1. UpdateP!AsSequences!InList(l, o) /\ u_ret' = UpdateP!AsSequences!After(Q[l], o)
    BY <1>3 DEF UpdateP!AsSequences!Remove
  <2>2. Update!AsSequences!InList(l, o)
    BY <2>1, UpdateChainIs DEF UpdateP!AsSequences!InList, Update!AsSequences!InList
  <2>3. u_ret' = Update!AsSequences!After(R[l], o)
    <3> HIDE DEF Q, R
    <3> QED BY <1>0, <2>1, UpdateAfterIs
  <2>4. Q' = [Q EXCEPT ![l] = UpdateP!AsSequences!Dropped(@, o)]
    BY <1>3 DEF UpdateP!AsSequences!Remove
  <2>5. R' = [R EXCEPT ![l] = Update!AsSequences!Dropped(@, o)]
    <3>1. UpdateP!AsSequences!Dropped(Q[l], o) = Update!AsSequences!Dropped(R[l], o)
      <4> HIDE DEF Q, R
      <4> QED BY <1>0, UpdateDroppedIs
    <3> HIDE DEF Q, R
    <3> QED BY <1>0, <2>4, <3>1, Zenon
  <2> QED BY <2>2, <2>3, <2>5 DEF Update!AsSequences!Remove
<1>4. [UpdateP!AsSequences!Next]_<<Q, u_ret>> => [Update!AsSequences!Next]_<<R, u_ret>>
  <2>1. UpdateP!AsSequences!Next => Update!AsSequences!Next
    BY <1>2, <1>3 DEF UpdateP!AsSequences!Next, Update!AsSequences!Next
  <2> HIDE DEF Q, R
  <2> QED BY <1>0, <2>1
<1> QED BY <1>1, <1>4, PTL DEF UpdateP!SequencesSpec, Update!SequencesSpec,
           UpdateP!AsSequences!Spec, Update!AsSequences!Spec

LEMMA DetectChainIs == ASSUME NEW f, NEW o PROVE Detect!Chain(f, o) = DetectP!Chain(f, o)
<1> DEFINE Follows(at, n) == at = [i \in 1 .. n |-> IF i = 1 THEN o
                                                    ELSE IF at[i - 1] = NoId THEN NoId
                                                    ELSE f[at[i - 1]]]
           n == Detect!Cardinality(Ids)
           m == DetectP!Cardinality(Ids)
           a == CHOOSE at : Follows(at, n)
           b == CHOOSE at : Follows(at, m)
<1>1. n = m
  BY CountsAgree
<1>2. a = b
  <2> HIDE DEF n, m, Follows
  <2> QED BY <1>1, Zenon
<1>3. Detect!Chain(f, o) = [i \in 1 .. Detect!Cardinality({k \in 1 .. n : a[k] # NoId}) |-> a[i]]
  BY DEF Detect!Chain
<1>4. DetectP!Chain(f, o) = [i \in 1 .. DetectP!Cardinality({k \in 1 .. m : b[k] # NoId}) |-> b[i]]
  BY DEF DetectP!Chain
<1> HIDE DEF n, m, a, b
<1> QED BY <1>1, <1>2, <1>3, <1>4, CountsAgree, Zenon

LEMMA DetectAfterIs ==
  ASSUME NEW s, NEW o PROVE DetectP!AsSequences!After(s, o) = Detect!AsSequences!After(s, o)
BY Zenon DEF DetectP!AsSequences!After, Detect!AsSequences!After

LEMMA DetectDroppedIs ==
  ASSUME NEW s, NEW o PROVE DetectP!AsSequences!Dropped(s, o) = Detect!AsSequences!Dropped(s, o)
BY Zenon DEF DetectP!AsSequences!Dropped, Detect!AsSequences!Dropped

LEMMA DetectSequences == DetectP!SequencesSpec => Detect!SequencesSpec
<1> DEFINE Q == [l \in Groups |-> DetectP!Chain(d_next, d_first[l])]
           R == [l \in Groups |-> Detect!Chain(d_next, d_first[l])]
<1>0. Q = R /\ Q' = R'
  BY DetectChainIs
<1>1. DetectP!AsSequences!Init => Detect!AsSequences!Init
  BY DetectChainIs DEF DetectP!AsSequences!Init, Detect!AsSequences!Init
<1>2. ASSUME NEW l \in Groups, NEW o \in Ids, DetectP!AsSequences!Add(l, o)
      PROVE  Detect!AsSequences!Add(l, o)
  BY <1>2, DetectChainIs
     DEF DetectP!AsSequences!Add, Detect!AsSequences!Add,
         DetectP!AsSequences!InList, Detect!AsSequences!InList
<1>3. ASSUME NEW l \in Groups, NEW o \in Ids, DetectP!AsSequences!Remove(l, o)
      PROVE  Detect!AsSequences!Remove(l, o)
  <2>1. DetectP!AsSequences!InList(l, o) /\ d_ret' = DetectP!AsSequences!After(Q[l], o)
    BY <1>3 DEF DetectP!AsSequences!Remove
  <2>2. Detect!AsSequences!InList(l, o)
    BY <2>1, DetectChainIs DEF DetectP!AsSequences!InList, Detect!AsSequences!InList
  <2>3. d_ret' = Detect!AsSequences!After(R[l], o)
    <3> HIDE DEF Q, R
    <3> QED BY <1>0, <2>1, DetectAfterIs
  <2>4. Q' = [Q EXCEPT ![l] = DetectP!AsSequences!Dropped(@, o)]
    BY <1>3 DEF DetectP!AsSequences!Remove
  <2>5. R' = [R EXCEPT ![l] = Detect!AsSequences!Dropped(@, o)]
    <3>1. DetectP!AsSequences!Dropped(Q[l], o) = Detect!AsSequences!Dropped(R[l], o)
      <4> HIDE DEF Q, R
      <4> QED BY <1>0, DetectDroppedIs
    <3> HIDE DEF Q, R
    <3> QED BY <1>0, <2>4, <3>1, Zenon
  <2> QED BY <2>2, <2>3, <2>5 DEF Detect!AsSequences!Remove
<1>4. [DetectP!AsSequences!Next]_<<Q, d_ret>> => [Detect!AsSequences!Next]_<<R, d_ret>>
  <2>1. DetectP!AsSequences!Next => Detect!AsSequences!Next
    BY <1>2, <1>3 DEF DetectP!AsSequences!Next, Detect!AsSequences!Next
  <2> HIDE DEF Q, R
  <2> QED BY <1>0, <2>1
<1> QED BY <1>1, <1>4, PTL DEF DetectP!SequencesSpec, Detect!SequencesSpec,
           DetectP!AsSequences!Spec, Detect!AsSequences!Spec

\* Both families of lists are sequences to the manager: whatever it calls, for
\* any number of objects and groups, an update or detect list read along its
\* next links is the objects that entered it and have not left, in the order
\* they entered, and what freeWithCallbacks returns is the successor.
THEOREM StorageIsSequences == StorageSpec => SequencesSpec
<1>1. IsFiniteSet(Ids)
  BY UsedIsFinite
<1>2. UpdateP!IsFiniteSet(Ids) /\ DetectP!IsFiniteSet(Ids)
  BY <1>1, Zenon DEF UpdateP!IsFiniteSet, DetectP!IsFiniteSet, IsFiniteSet
<1>3. StorageInit => UpdateP!Init /\ DetectP!Init
  BY DEF StorageInit, Update!Init, UpdateP!Init, Detect!Init, DetectP!Init
<1>4. StorageInv /\ [StorageNext]_storageVars
        => [UpdateP!Next]_(UpdateP!vars) /\ [DetectP!Next]_(DetectP!vars)
  BY StorageIsLists
<1>5. StorageSpec => UpdateP!Spec /\ DetectP!Spec
  BY <1>3, <1>4, StorageInvariant, PTL DEF StorageSpec, UpdateP!Spec, DetectP!Spec
<1>6. UpdateP!Spec => UpdateP!SequencesSpec
  BY <1>2, NullIsNoObject, UpdateP!ListsAreSequences
<1>7. DetectP!Spec => DetectP!SequencesSpec
  BY <1>2, NullIsNoObject, DetectP!ListsAreSequences
<1> QED BY <1>5, <1>6, <1>7, UpdateSequences, DetectSequences DEF SequencesSpec
=============================================================================
