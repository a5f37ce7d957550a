------------------------- MODULE GameObjectStorage -------------------------
(***************************************************************************)
(* How GameObjectPool keeps its objects: the slots of a FixedObjectPool,   *)
(* all used ones chained in the update list and each in the detect list of *)
(* its group.  The three structures know nothing of each other; this       *)
(* module composes them as the manager's calls do, with a step wherever a  *)
(* link field is written twice in one call.                                *)
(***************************************************************************)
EXTENDS FixedObjectPool, Sequences

CONSTANT Groups
ASSUME GroupsAssumption == 0 \in Groups /\ NoId \notin Groups

UpdateList == 0   \* the one list of its family

VARIABLES
  u_first, u_last, u_previous, u_next, u_where, u_ret,  \* m_update_list
  d_first, d_last, d_previous, d_next, d_where, d_ret,  \* m_detect_lists
  group,   \* the group of each object
  object,  \* the object a call works on, and the cursor of ResetPool
  pc       \* the place in that call
updateVars  == <<u_first, u_last, u_previous, u_next, u_where, u_ret>>
detectVars  == <<d_first, d_last, d_previous, d_next, d_where, d_ret>>
storageVars == <<vars, updateVars, detectVars, group, object, pc>>

Update == INSTANCE GameObjectLinkedList WITH
  Objects <- Ids, Lists <- {UpdateList}, None <- NoId,
  m_first <- u_first, m_last <- u_last, previous <- u_previous, next <- u_next,
  where <- u_where, ret <- u_ret

Detect == INSTANCE GameObjectLinkedList WITH
  Objects <- Ids, Lists <- Groups, None <- NoId,
  m_first <- d_first, m_last <- d_last, previous <- d_previous, next <- d_next,
  where <- d_where, ret <- d_ret

StorageInit ==
  /\ Init /\ Update!Init /\ Detect!Init
  /\ group = [o \in Ids |-> 0] /\ object = NoId /\ pc = "idle"

-----------------------------------------------------------------------------
\* Allocation: a slot is taken, then Reset writes the links of both families,
\* then the object enters its lists.
Allocate ==
  /\ pc = "idle"
  /\ \/ alloc /\ object' = result' /\ pc' = "reset"
     \/ allocFail /\ UNCHANGED <<object, pc>>
  /\ UNCHANGED <<updateVars, detectVars, group>>

Reset ==
  /\ pc = "reset" /\ pc' = "insert"
  /\ u_previous' = [u_previous EXCEPT ![object] = NoId]
  /\ u_next' = [u_next EXCEPT ![object] = NoId]
  /\ d_previous' = [d_previous EXCEPT ![object] = NoId]
  /\ d_next' = [d_next EXCEPT ![object] = NoId]
  /\ group' = [group EXCEPT ![object] = 0]
  /\ UNCHANGED <<vars, u_first, u_last, u_where, u_ret, d_first, d_last, d_where, d_ret, object>>

Insert ==
  /\ pc = "insert" /\ pc' = "idle" /\ object' = NoId
  /\ Update!add(UpdateList, object)
  /\ Detect!add(group[object], object)
  /\ UNCHANGED <<vars, group>>

\* An object changes its group: out of the old list, into the new one.
LeaveGroup(o, g) ==
  /\ pc = "idle" /\ o \in m_used
  /\ pc' = "enter" /\ object' = o
  /\ Detect!remove(group[o], o)
  /\ group' = [group EXCEPT ![o] = g]
  /\ UNCHANGED <<vars, updateVars>>

EnterGroup ==
  /\ pc = "enter" /\ pc' = "idle" /\ object' = NoId
  /\ Detect!add(group[object], object)
  /\ UNCHANGED <<vars, updateVars, group>>

\* DirtResetObject: out of both lists, then back at their ends.
DirtResetObject(o) ==
  /\ pc = "idle" /\ o \in m_used
  /\ pc' = "insert" /\ object' = o
  /\ Update!remove(UpdateList, o)
  /\ Detect!remove(group[o], o)
  /\ UNCHANGED <<vars, group>>

\* Mutant of Release: the slot is given back, the detect list not told.
ReleaseButDetect(o) ==
  /\ Update!remove(UpdateList, o) /\ free(o)
  /\ UNCHANGED <<detectVars, group>>

\* What a freed object leaves: both lists and its slot.  Its successor in the
\* update list is what freeWithCallbacks returns.
Release(o) ==
  /\ Update!remove(UpdateList, o)
  /\ Detect!remove(group[o], o)
  /\ free(o)
  /\ UNCHANGED group

freeWithCallbacks(o) ==
  /\ pc = "idle" /\ o \in m_used
  /\ Release(o)
  /\ UNCHANGED <<object, pc>>

-----------------------------------------------------------------------------
\* ResetPool follows the successors freeWithCallbacks returns, clears the
\* lists, and puts the slots in their first order.
ResetPool ==
  /\ pc = "idle" /\ pc' = "freeing"
  /\ object' = u_first[UpdateList]
  /\ UNCHANGED <<vars, updateVars, detectVars, group>>

FreeFirst ==
  /\ pc = "freeing" /\ object # NoId
  /\ Release(object)
  /\ object' = u_ret'
  /\ UNCHANGED pc

resetGameObjectLists ==
  /\ pc = "freeing" /\ object = NoId /\ pc' = "clear"
  /\ Update!clear(UpdateList)
  /\ LET members == UNION {{Detect!Chain(d_next, d_first[g])[i] :
                              i \in DOMAIN Detect!Chain(d_next, d_first[g])} : g \in Groups}
     IN /\ d_next' = [o \in Ids |-> IF o \in members THEN NoId ELSE d_next[o]]
        /\ d_previous' = [o \in Ids |-> IF o \in members THEN NoId ELSE d_previous[o]]
  /\ UNCHANGED <<vars, d_first, d_last, d_where, d_ret, group, object>>

\* Mutant of ClearPool: the slots stay in the order they were freed in.
ClearPoolNot ==
  /\ pc = "clear" /\ pc' = "idle"
  /\ UNCHANGED <<vars, updateVars, detectVars, group, object>>

ClearPool ==
  /\ pc = "clear" /\ pc' = "idle"
  /\ clear
  /\ UNCHANGED <<updateVars, detectVars, group, object>>

StorageNext ==
  \/ Allocate \/ Reset \/ Insert \/ EnterGroup
  \/ \E o \in Ids :
       \/ DirtResetObject(o) \/ freeWithCallbacks(o)
       \/ \E g \in Groups : LeaveGroup(o, g)
  \/ ResetPool \/ FreeFirst \/ resetGameObjectLists \/ ClearPool

StorageSpec == StorageInit /\ [][StorageNext]_storageVars
-----------------------------------------------------------------------------
\* Both families implement sequences, whatever the manager's calls do to them.
SequencesSpec == Update!SequencesSpec /\ Detect!SequencesSpec

\* The three structures agree.  In both families neighbours name each other and
\* are in the same list, and an object in no list, or alone in one, has no
\* links.  Between two calls, and between two objects ResetPool frees, the used
\* slots are the update list, and each is in the detect list of its group
\* (freeWithCallbacks removes it from the list of object->group unseen).
StorageAgrees ==
  /\ Update!LinksAgree /\ Update!NoStaleLinks
  /\ Detect!LinksAgree /\ Detect!NoStaleLinks
  /\ pc \in {"idle", "freeing", "clear"}
       => \A o \in Ids :
            IF o \in m_used THEN u_where[o] = UpdateList /\ d_where[o] = group[o]
                            ELSE u_where[o] = NoId /\ d_where[o] = NoId

\* ResetPool leaves the storage as it was constructed: nothing in use, ids
\* given out from 0 again, and lists whose ends are null although clear()
\* of a list never writes m_first and m_last.
ResetPoolRestores ==
  [][pc = "clear" /\ pc' = "idle"
       => /\ m_used' = {} /\ m_free_indices' = Linear /\ m_free_count' = N
          /\ u_first'[UpdateList] = NoId /\ u_last'[UpdateList] = NoId
          /\ \A g \in Groups : d_first'[g] = NoId /\ d_last'[g] = NoId
          /\ \A o \in Ids : {u_previous'[o], u_next'[o], d_previous'[o], d_next'[o]} = {NoId}]_storageVars
=============================================================================
