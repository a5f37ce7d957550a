--------------------------- MODULE GameObjectPool ---------------------------
(***************************************************************************)
(* The game object manager and its Lua binding.                            *)
(*                                                                         *)
(* One thread runs, but control changes hands all the time: a batch        *)
(* operation (ObjFrame, BoundCheck, CollisionCheck, ObjRender) walks a     *)
(* list and calls a script function for an object, and that function may   *)
(* create, delete, re-group, re-layer or reset objects, i.e. edit the      *)
(* lists under the walk.  A step is what happens between two points where  *)
(* a script runs.                                                          *)
(*                                                                         *)
(* The intrusive lists are sequences here (GameObjectLinkedList shows that *)
(* the pointers implement them); an object that is in no list has no       *)
(* successor.  Whether a class has a callback, whether two objects touch   *)
(* and whether one has left the bound is chosen freely at every look.      *)
(***************************************************************************)
EXTENDS Integers, Sequences, FiniteSets

CONSTANTS
  Slots,        \* the objects of the pool (LOBJPOOL_SIZE, 32768 in the engine)
  None,         \* the null pointer
  NGroup,       \* LOBJPOOL_GROUPN (16 in the engine)
  Layers,       \* the layers scripts use; 0 is the default
  MaxUid,       \* bound: value m_iUid may reach
  MaxPause,     \* bound: longest super pause a script asks for
  Ops,          \* what scripts do at all ...
  CallbackOps   \* ... and what they do while a batch operation runs

ASSUME SizesAssumption ==
  /\ IsFiniteSet(Slots) /\ None \notin Slots
  /\ NGroup \in Nat \ {0} /\ MaxUid \in Nat /\ MaxPause \in Nat
ASSUME LayersAssumption == 0 \in Layers /\ Layers \subseteq Int
ASSUME OpsAssumption ==
  /\ CallbackOps \subseteq Ops
  /\ Ops \subseteq {"New", "BadNew", "Del", "Status", "Reset", "Group", "Layer", "Pause",
                    "Ignore", "Fail", "AfterFrame", "ResetPool"}

Groups == 0 .. NGroup - 1
Uids   == 0 .. MaxUid
NoUid  == -1
Status == {"Free", "Active", "Dead", "Killed"}

VARIABLES
  \* GameObject
  status, uid, group, layer, ignore,
  \* GameObjectPool
  iUid,       \* m_iUid
  ulist,      \* m_update_list
  rset,       \* m_render_list, ordered by GameObjectLayerComparer
  dlist,      \* m_detect_lists
  lock,       \* m_LockObjectA and m_LockObjectB
  rendering,  \* m_is_rendering
  detecting,  \* m_is_detecting_intersect
  pause, nextPause,   \* m_superpause and m_nextsuperpause
  \* the Lua side: the table of objects, and where each object table points
  \* (object[3]); an object table is named by the uid its object had at birth
  table, ptr,
  \* the batch operation that runs, and its local variables; time is ObjFrame's
  \* super_pause_time
  phase, time, cur, inCb, ptrA, ptrB, grp, cache,
  \* history: what this walk was to look at when it began, what it has looked
  \* at, and whether it looked at something again; an object is <<o, None>>
  begun, seen, again

objVars   == <<status, uid, group, layer, ignore, iUid>>
listVars  == <<ulist, rset, dlist>>
flagVars  == <<lock, rendering, detecting, pause, nextPause>>
luaVars   == <<table, ptr>>
walkVars  == <<phase, time, cur, inCb, ptrA, ptrB, grp, cache>>
ghostVars == <<begun, seen, again>>
vars == <<status, uid, group, layer, ignore, iUid, ulist, rset, dlist, lock, rendering,
          detecting, pause, nextPause, table, ptr, phase, time, cur, inCb, ptrA, ptrB, grp,
          cache, begun, seen, again>>

Phases == {"script", "update", "bound", "boundCall", "collide", "collideCall", "render",
           "crashed"}

Live == {o \in Slots : status[o] # "Free"}

\* The elements of q that are not in S, in their order.
Without(q, S) ==
  LET kept == {i \in DOMAIN q : q[i] \notin S}
      Place(i) == Cardinality({j \in kept : j <= i})
  IN [k \in 1 .. Cardinality(kept) |-> q[CHOOSE i \in kept : Place(i) = k]]

First(q) == IF q = <<>> THEN None ELSE Head(q)

\* The link to the next element; null for an object that is not in the list.
Successor(q, o) ==
  LET at == {i \in 1 .. Len(q) - 1 : q[i] = o}
  IN IF at = {} THEN None ELSE q[(CHOOSE i \in at : TRUE) + 1]

Init ==
  /\ status = [o \in Slots |-> "Free"]
  /\ uid = [o \in Slots |-> 0] /\ group = [o \in Slots |-> 0]
  /\ layer = [o \in Slots |-> 0] /\ ignore = [o \in Slots |-> FALSE]
  /\ iUid = 0
  /\ ulist = <<>> /\ rset = {} /\ dlist = [g \in Groups |-> <<>>]
  /\ lock = <<None, None>> /\ rendering = FALSE /\ detecting = FALSE
  /\ pause = 0 /\ nextPause = 0
  /\ table = [o \in Slots |-> NoUid] /\ ptr = [h \in Uids |-> None]
  /\ phase = "script" /\ time = 0 /\ cur = None /\ inCb = FALSE
  /\ ptrA = None /\ ptrB = None /\ grp = <<0, 0>> /\ cache = <<>>
  /\ begun = {} /\ seen = {} /\ again = FALSE

-----------------------------------------------------------------------------
(* What a script does, between batch operations or inside a callback. *)

MayDo(op) == \/ phase = "script" /\ op \in Ops
             \/ inCb /\ op \in CallbackOps

\* `as`: some object table of the script still points at the slot.
Reachable(o) == \E h \in Uids : ptr[h] = o

\* allocateWithCallbacks, after FixedObjectPool::alloc picked a slot: Reset,
\* a new uid, and the tail of every list.
Allocate(o) ==
  /\ iUid < MaxUid
  /\ status[o] = "Free"
  /\ status' = [status EXCEPT ![o] = "Active"]
  /\ uid' = [uid EXCEPT ![o] = iUid]
  /\ group' = [group EXCEPT ![o] = 0]
  /\ layer' = [layer EXCEPT ![o] = 0]
  /\ ignore' = [ignore EXCEPT ![o] = FALSE]
  /\ iUid' = iUid + 1
  /\ ulist' = Append(ulist, o)
  /\ rset' = rset \cup {o}
  /\ dlist' = [dlist EXCEPT ![0] = Append(@, o)]

\* allocateAndManage (lstg._New)
New(o) ==
  /\ MayDo("New")
  /\ Allocate(o)
  /\ table' = [table EXCEPT ![o] = iUid]
  /\ ptr' = [ptr EXCEPT ![iUid] = o]
  /\ UNCHANGED <<flagVars, walkVars, ghostVars>>

\* allocateAndManage with a first argument that is no class: the error is
\* raised after the object was allocated and before it has an object table.
NewInvalid(o) ==
  /\ MayDo("BadNew")
  /\ Allocate(o)
  /\ UNCHANGED <<flagVars, luaVars, walkVars, ghostVars>>

\* queueToFree (lstg._Del and lstg._Kill)
QueueToFree(o, s) ==
  /\ MayDo("Del") /\ Reachable(o)
  /\ status[o] = "Active"
  /\ status' = [status EXCEPT ![o] = s]
  /\ UNCHANGED <<uid, group, layer, ignore, iUid, listVars, flagVars, luaVars, walkVars,
                 ghostVars>>

\* obj.status = 'normal', 'del' or 'kill': also revives.
SetStatus(o, s) ==
  /\ MayDo("Status") /\ Reachable(o)
  /\ status' = [status EXCEPT ![o] = s]
  /\ UNCHANGED <<uid, group, layer, ignore, iUid, listVars, flagVars, luaVars, walkVars,
                 ghostVars>>

\* lstg.ResetObject: out of every list and back at the end, with a new uid.
\* In ObjRender it erases the tree node the walk stands on, and the walk goes
\* on from a freed node: to any node, or to the end.
DirtResetObject(o) ==
  /\ MayDo("Reset") /\ Reachable(o)
  /\ iUid < MaxUid
  /\ uid' = [uid EXCEPT ![o] = iUid]
  /\ iUid' = iUid + 1
  /\ ulist' = Append(Without(ulist, {o}), o)
  /\ dlist' = [dlist EXCEPT ![group[o]] = Append(Without(@, {o}), o)]
  /\ IF phase = "render" /\ o = cur THEN cur' \in rset \cup {None} ELSE UNCHANGED cur
  /\ UNCHANGED <<status, group, layer, ignore, rset, flagVars, luaVars, phase, time, inCb,
                 ptrA, ptrB, grp, cache, ghostVars>>

isLockedByDetectIntersection(o) == o \in {lock[1], lock[2]}

\* obj.group = g
SetGroup(o, g) ==
  /\ MayDo("Group") /\ Reachable(o)
  /\ ~isLockedByDetectIntersection(o)
  /\ group[o] # g
  /\ dlist' = [dlist EXCEPT ![group[o]] = Without(@, {o}), ![g] = Append(@, o)]
  /\ group' = [group EXCEPT ![o] = g]
  /\ UNCHANGED <<status, uid, layer, ignore, iUid, ulist, rset, flagVars, luaVars, walkVars,
                 ghostVars>>

\* Mutant of isRendering: the flag is not looked at.
NeverRendering == FALSE

isRendering == rendering

\* obj.layer = l
SetLayer(o, l) ==
  /\ MayDo("Layer") /\ Reachable(o)
  /\ ~isRendering
  /\ layer[o] # l
  /\ layer' = [layer EXCEPT ![o] = l]
  /\ UNCHANGED <<status, uid, group, ignore, iUid, listVars, flagVars, luaVars, walkVars,
                 ghostVars>>

\* obj.nopause (ignore_super_pause)
SetIgnore(o) ==
  /\ MayDo("Ignore") /\ Reachable(o)
  /\ ignore' = [ignore EXCEPT ![o] = ~@]
  /\ UNCHANGED <<status, uid, group, layer, iUid, listVars, flagVars, luaVars, walkVars,
                 ghostVars>>

SetNextFrameSuperPauseTime(t) ==
  /\ MayDo("Pause")
  /\ nextPause' = t
  /\ UNCHANGED <<objVars, listVars, lock, rendering, detecting, pause, luaVars, walkVars,
                 ghostVars>>

-----------------------------------------------------------------------------
(* Freeing: no script runs inside AfterFrame and ResetPool, but a callback may *)
(* call them: the bindings refuse neither.                                     *)

\* Mutant of UpdateSuperPause: the remaining time is not counted down.
SuperPauseStays ==
  /\ pause' = nextPause
  /\ nextPause' = nextPause

UpdateSuperPause ==
  /\ pause' = nextPause
  /\ nextPause' = IF nextPause > 0 THEN nextPause - 1 ELSE nextPause

Paused(o, t) == t > 0 /\ ~ignore[o]

\* Mutant of freeWithCallbacks: the object stays in its detect list.
freeButDetect(S) ==
  /\ status' = [o \in Slots |-> IF o \in S THEN "Free" ELSE status[o]]
  /\ ulist' = Without(ulist, S)
  /\ rset' = rset \ S
  /\ dlist' = dlist
  /\ table' = [o \in Slots |-> IF o \in S THEN NoUid ELSE table[o]]
  /\ ptr' = [h \in Uids |-> IF \E o \in S : table[o] = h THEN None ELSE ptr[h]]

\* Mutant of freeWithCallbacks: object[3] is not cleared.
freeButHandle(S) ==
  /\ status' = [o \in Slots |-> IF o \in S THEN "Free" ELSE status[o]]
  /\ ulist' = Without(ulist, S)
  /\ rset' = rset \ S
  /\ dlist' = [g \in Groups |-> Without(dlist[g], S)]
  /\ table' = [o \in Slots |-> IF o \in S THEN NoUid ELSE table[o]]
  /\ ptr' = ptr

\* freeWithCallbacks for each object of S: the object table found in the
\* table of objects is cut off, and the object leaves every list.
freeWithCallbacks(S) ==
  /\ status' = [o \in Slots |-> IF o \in S THEN "Free" ELSE status[o]]
  /\ ulist' = Without(ulist, S)
  /\ rset' = rset \ S
  /\ dlist' = [g \in Groups |-> Without(dlist[g], S)]
  /\ table' = [o \in Slots |-> IF o \in S THEN NoUid ELSE table[o]]
  /\ ptr' = [h \in Uids |-> IF \E o \in S : table[o] = h THEN None ELSE ptr[h]]

\* onDestroy writes into the object table it finds; it finds none for an
\* object that NewInvalid left behind. Inside ObjRender the tree node the walk
\* stands on may be erased (see DirtResetObject).
Free(S) ==
  /\ freeWithCallbacks(S)
  /\ IF \E o \in S : table[o] = NoUid
     THEN phase' = "crashed" /\ inCb' = FALSE
     ELSE UNCHANGED <<phase, inCb>>
  /\ IF phase = "render" /\ cur \in S THEN cur' \in (rset \ S) \cup {None} ELSE UNCHANGED cur

\* updateNextLegacy and updateNext (lstg.AfterFrame): version 2 begins with
\* the new super pause time.
UpdateNext(v) ==
  /\ MayDo("AfterFrame")
  /\ IF v = 2 THEN UpdateSuperPause ELSE UNCHANGED <<pause, nextPause>>
  /\ Free({o \in Live : ~Paused(o, pause') /\ status[o] # "Active"})
  /\ UNCHANGED <<uid, group, layer, ignore, iUid, lock, rendering, detecting, time, ptrA, ptrB,
                 grp, cache, ghostVars>>

\* lstg.ResetPool releases the pool's memory at the end, and with it what the
\* two batch operations with a cache iterate over: they find it as it was, or crash.
ResetPool ==
  /\ MayDo("ResetPool")
  /\ \/ Free(Live)
     \/ /\ phase \in {"boundCall", "collideCall"} /\ freeWithCallbacks(Live)
        /\ phase' = "crashed" /\ inCb' = FALSE /\ UNCHANGED cur
  /\ lock' = <<None, None>> /\ pause' = 0 /\ nextPause' = 0
  /\ UNCHANGED <<uid, group, layer, ignore, iUid, rendering, detecting, time, ptrA, ptrB, grp,
                 cache, ghostVars>>

-----------------------------------------------------------------------------
(* The walks.  cur is the object the walk stands on, inCb says that a       *)
(* script function it called is running.                                    *)

BeginWalk(ph, t, S) ==
  /\ phase = "script" /\ phase' = ph /\ time' = t
  /\ begun' = S
  /\ UNCHANGED <<seen, again>>

LookAt(x) == seen' = seen \cup {x} /\ again' = (again \/ x \in seen) /\ UNCHANGED begun

EndWalk == phase' = "script" /\ time' = 0 /\ begun' = {} /\ seen' = {} /\ again' = FALSE

\* p = p->update_list_next, read after the callback has returned.
Advance == cur' = Successor(ulist, cur)

\* updateMovementsLegacy and updateMovements (lstg.ObjFrame): version 1
\* begins with the new super pause time.
ObjFrame(v) ==
  /\ IF v = 1 THEN UpdateSuperPause ELSE UNCHANGED <<pause, nextPause>>
  /\ BeginWalk("update", pause', {<<o, None>> : o \in {x \in Live : ~Paused(x, pause')}})
  /\ cur' = First(ulist)
  /\ UNCHANGED <<objVars, listVars, lock, rendering, detecting, luaVars, inCb, ptrA, ptrB,
                 grp, cache>>

\* One round: a paused object is passed over, another gets its callback if
\* its class has one.
UpdateVisit ==
  /\ phase = "update" /\ cur # None /\ ~inCb
  /\ IF Paused(cur, time)
     THEN Advance /\ UNCHANGED <<inCb, ghostVars>>
     ELSE /\ LookAt(<<cur, None>>)
          /\ \/ inCb' = TRUE /\ UNCHANGED cur
             \/ Advance /\ UNCHANGED inCb
  /\ UNCHANGED <<objVars, listVars, flagVars, luaVars, phase, time, ptrA, ptrB, grp, cache>>

UpdateReturn ==
  /\ phase = "update" /\ inCb
  /\ inCb' = FALSE /\ Advance
  /\ UNCHANGED <<objVars, listVars, flagVars, luaVars, phase, time, ptrA, ptrB, grp, cache,
                 ghostVars>>

\* Version 2 moves the objects now, in a loop that calls no script.
UpdateEnd ==
  /\ phase = "update" /\ cur = None
  /\ EndWalk
  /\ UNCHANGED <<objVars, listVars, flagVars, luaVars, cur, inCb, ptrA, ptrB, grp,
                 cache>>

\* detectOutOfWorldBoundLegacy (lstg.BoundCheck)
BoundCheckLegacy ==
  /\ BeginWalk("bound", 0, {<<o, None>> : o \in Live})
  /\ cur' = First(ulist)
  /\ UNCHANGED <<objVars, listVars, flagVars, luaVars, inCb, ptrA, ptrB, grp, cache>>

BoundVisit ==
  /\ phase = "bound" /\ cur # None /\ ~inCb
  /\ LookAt(<<cur, None>>)
  /\ \/ Advance /\ UNCHANGED <<status, inCb>>
     \/ /\ status' = [status EXCEPT ![cur] = "Dead"]
        /\ \/ inCb' = TRUE /\ UNCHANGED cur
           \/ Advance /\ UNCHANGED inCb
  /\ UNCHANGED <<uid, group, layer, ignore, iUid, listVars, flagVars, luaVars, phase, time,
                 ptrA, ptrB, grp, cache>>

BoundReturn ==
  /\ phase = "bound" /\ inCb
  /\ inCb' = FALSE /\ Advance
  /\ UNCHANGED <<objVars, listVars, flagVars, luaVars, phase, time, ptrA, ptrB, grp, cache,
                 ghostVars>>

BoundEnd ==
  /\ phase = "bound" /\ cur = None
  /\ EndWalk
  /\ UNCHANGED <<objVars, listVars, flagVars, luaVars, cur, inCb, ptrA, ptrB, grp,
                 cache>>

\* detectOutOfWorldBound (lstg.BoundCheck(2)): mark first, call later.
\* (tabA and tabB are history: the object tables the two had.)
Entry(a, b) == [a |-> a, b |-> b, uidA |-> uid[a], uidB |-> uid[b],
                tabA |-> table[a], tabB |-> table[b]]

BoundCheck ==
  /\ BeginWalk("boundCall", 0, {})
  /\ \E out \in SUBSET Live : \E calls \in SUBSET out :
       /\ status' = [o \in Slots |-> IF o \in out THEN "Dead" ELSE status[o]]
       /\ LET todo == Without(ulist, Slots \ calls)
          IN cache' = [i \in 1 .. Len(todo) |-> Entry(todo[i], todo[i])]
  /\ UNCHANGED <<uid, group, layer, ignore, iUid, listVars, flagVars, luaVars, cur, inCb,
                 ptrA, ptrB, grp>>

\* Mutant of SameObjects: the uids are not compared.
AnyObjects(e) == TRUE

\* The objects are still the ones that were cached.
SameObjects(e) == uid[e.a] = e.uidA /\ uid[e.b] = e.uidB

\* An object that was freed meanwhile has its uid still, but no callbacks.
HasCallbacks(o) == status[o] # "Free"

BoundCall ==
  /\ phase = "boundCall" /\ cache # <<>> /\ ~inCb
  /\ IF SameObjects(Head(cache)) /\ HasCallbacks(Head(cache).a)
     THEN inCb' = TRUE /\ UNCHANGED cache
     ELSE cache' = Tail(cache) /\ UNCHANGED inCb
  /\ UNCHANGED <<objVars, listVars, flagVars, luaVars, phase, time, cur, ptrA, ptrB, grp,
                 ghostVars>>

BoundCallReturn ==
  /\ phase = "boundCall" /\ inCb
  /\ inCb' = FALSE /\ cache' = Tail(cache)
  /\ UNCHANGED <<objVars, listVars, flagVars, luaVars, phase, time, cur, ptrA, ptrB, grp,
                 ghostVars>>

BoundCallEnd ==
  /\ phase = "boundCall" /\ cache = <<>>
  /\ EndWalk
  /\ UNCHANGED <<objVars, listVars, flagVars, luaVars, cur, inCb, ptrA, ptrB, grp,
                 cache>>

\* The links of the detect list an object is in now.
DetectNext(o) == Successor(dlist[group[o]], o)

\* detectIntersectionLegacy (lstg.CollisionCheck(group1, group2)): both loops
\* read the next object before they look at the present one.
CollisionCheckLegacy(g1, g2) ==
  /\ ~detecting
  /\ BeginWalk("collide", 0, {x \in Live \X Live : group[x[1]] = g1 /\ group[x[2]] = g2})
  /\ detecting' = TRUE /\ grp' = <<g1, g2>>
  /\ ptrA' = First(dlist[g1])
  /\ UNCHANGED <<objVars, listVars, lock, rendering, pause, nextPause, luaVars, cur, inCb,
                 ptrB, cache>>

\* Mutant of CollideOuter: the inner loop walks the first group.
CollideOuterSame ==
  /\ phase = "collide" /\ ~inCb /\ ptrB = None /\ ptrA # None
  /\ cur' = ptrA /\ ptrA' = DetectNext(ptrA)
  /\ ptrB' = First(dlist[grp[1]])
  /\ UNCHANGED <<objVars, listVars, flagVars, luaVars, phase, time, inCb, grp, cache,
                 ghostVars>>

CollideOuter ==
  /\ phase = "collide" /\ ~inCb /\ ptrB = None /\ ptrA # None
  /\ cur' = ptrA /\ ptrA' = DetectNext(ptrA)
  /\ ptrB' = First(dlist[grp[2]])
  /\ UNCHANGED <<objVars, listVars, flagVars, luaVars, phase, time, inCb, grp, cache,
                 ghostVars>>

\* One pair; the callback runs when the two touch, with both locked.
CollideInner ==
  /\ phase = "collide" /\ ~inCb /\ ptrB # None
  /\ LookAt(<<cur, ptrB>>)
  /\ ptrB' = DetectNext(ptrB)
  /\ \/ UNCHANGED <<lock, inCb>>
     \/ HasCallbacks(cur) /\ lock' = <<cur, ptrB>> /\ inCb' = TRUE
  /\ UNCHANGED <<objVars, listVars, rendering, detecting, pause, nextPause, luaVars, phase,
                 time, cur, ptrA, grp, cache>>

CollideReturn ==
  /\ phase = "collide" /\ inCb
  /\ inCb' = FALSE /\ lock' = <<None, None>>
  /\ UNCHANGED <<objVars, listVars, rendering, detecting, pause, nextPause, luaVars, phase,
                 time, cur, ptrA, ptrB, grp, cache, ghostVars>>

CollideEnd ==
  /\ phase = "collide" /\ ~inCb /\ ptrA = None /\ ptrB = None
  /\ EndWalk
  /\ detecting' = FALSE /\ cur' = None /\ grp' = <<0, 0>>
  /\ UNCHANGED <<objVars, listVars, lock, rendering, pause, nextPause, luaVars, inCb,
                 ptrA, ptrB, cache>>

\* The pairs the nested loops of detectIntersection look at, in their order.
Product(p) ==
  LET n == Len(dlist[p[2]])
  IN [k \in 1 .. Len(dlist[p[1]]) * n |->
        <<dlist[p[1]][((k - 1) \div n) + 1], dlist[p[2]][((k - 1) % n) + 1]>>]

\* detectIntersection (lstg.CollisionCheck{ {g1, g2}, ... }): find first, call
\* later.  Bound: at most two group pairs, and at most two pairs that touch.
CollisionCheck(P) ==
  /\ ~detecting
  /\ BeginWalk("collideCall", 0, {})
  /\ detecting' = TRUE
  /\ LET todo == IF Len(P) = 1 THEN Product(P[1]) ELSE Product(P[1]) \o Product(P[2])
     IN \E i, j \in 0 .. Len(todo) :
          /\ i <= j /\ (i = j => i = 0)
          /\ cache' = (IF i = 0 THEN <<>> ELSE <<Entry(todo[i][1], todo[i][2])>>)
                      \o (IF j = 0 THEN <<>> ELSE <<Entry(todo[j][1], todo[j][2])>>)
  /\ UNCHANGED <<objVars, listVars, lock, rendering, pause, nextPause, luaVars, cur, inCb,
                 ptrA, ptrB, grp>>

CollideCall ==
  /\ phase = "collideCall" /\ cache # <<>> /\ ~inCb
  /\ IF SameObjects(Head(cache)) /\ HasCallbacks(Head(cache).a)
     THEN inCb' = TRUE /\ lock' = <<Head(cache).a, Head(cache).b>> /\ UNCHANGED cache
     ELSE cache' = Tail(cache) /\ UNCHANGED <<inCb, lock>>
  /\ UNCHANGED <<objVars, listVars, rendering, detecting, pause, nextPause, luaVars, phase,
                 time, cur, ptrA, ptrB, grp, ghostVars>>

CollideCallReturn ==
  /\ phase = "collideCall" /\ inCb
  /\ inCb' = FALSE /\ lock' = <<None, None>> /\ cache' = Tail(cache)
  /\ UNCHANGED <<objVars, listVars, rendering, detecting, pause, nextPause, luaVars, phase,
                 time, cur, ptrA, ptrB, grp, ghostVars>>

CollideCallEnd ==
  /\ phase = "collideCall" /\ cache = <<>>
  /\ EndWalk
  /\ detecting' = FALSE
  /\ UNCHANGED <<objVars, listVars, lock, rendering, pause, nextPause, luaVars, cur,
                 inCb, ptrA, ptrB, grp, cache>>

\* GameObjectLayerComparer
Before(a, b) == layer[a] < layer[b] \/ (layer[a] = layer[b] /\ uid[a] < uid[b])

Least(S) == IF S = {} THEN None ELSE CHOOSE a \in S : \A b \in S \ {a} : Before(a, b)

\* render (lstg.ObjRender)
ObjRender ==
  /\ BeginWalk("render", 0, {<<o, None>> : o \in Live})
  /\ rendering' = TRUE
  /\ cur' = Least(rset)
  /\ UNCHANGED <<objVars, listVars, lock, detecting, pause, nextPause, luaVars, inCb, ptrA,
                 ptrB, grp, cache>>

RenderAdvance == cur' = Least({o \in rset : Before(cur, o)})

RenderVisit ==
  /\ phase = "render" /\ cur # None /\ ~inCb
  /\ LookAt(<<cur, None>>)
  /\ \/ RenderAdvance /\ UNCHANGED inCb
     \/ inCb' = TRUE /\ UNCHANGED cur
  /\ UNCHANGED <<objVars, listVars, flagVars, luaVars, phase, time, ptrA, ptrB, grp, cache>>

\* The walk may have lost its place (DirtResetObject).
RenderReturn ==
  /\ phase = "render" /\ inCb
  /\ inCb' = FALSE
  /\ IF cur = None THEN UNCHANGED cur ELSE RenderAdvance
  /\ UNCHANGED <<objVars, listVars, flagVars, luaVars, phase, time, ptrA, ptrB, grp, cache,
                 ghostVars>>

RenderEnd ==
  /\ phase = "render" /\ cur = None /\ ~inCb
  /\ EndWalk
  /\ rendering' = FALSE
  /\ UNCHANGED <<objVars, listVars, lock, detecting, pause, nextPause, luaVars, cur,
                 inCb, ptrA, ptrB, grp, cache>>

\* A script function raises an error, and the script that called the batch
\* operation catches it: the walk is unwound.  The locked pair stays, and so does
\* the flag: m_is_rendering until the next ObjRender has ended, but with
\* m_is_detecting_intersect no CollisionCheck is let in again to reset it.
Fail ==
  /\ inCb /\ MayDo("Fail")
  /\ EndWalk
  /\ inCb' = FALSE /\ cur' = None /\ ptrA' = None /\ ptrB' = None
  /\ grp' = <<0, 0>> /\ cache' = <<>>
  /\ UNCHANGED <<objVars, listVars, flagVars, luaVars>>

-----------------------------------------------------------------------------
Script ==
  \/ \E o \in Slots :
       \/ New(o) \/ NewInvalid(o)
       \/ \E s \in {"Dead", "Killed"} : QueueToFree(o, s)
       \/ \E s \in Status \ {"Free"} : SetStatus(o, s)
       \/ DirtResetObject(o)
       \/ \E g \in Groups : SetGroup(o, g)
       \/ \E l \in Layers : SetLayer(o, l)
       \/ SetIgnore(o)
  \/ \E t \in -1 .. MaxPause : SetNextFrameSuperPauseTime(t)

Begin ==
  \/ \E v \in {1, 2} : UpdateNext(v) \/ ObjFrame(v)
  \/ ResetPool \/ BoundCheckLegacy \/ BoundCheck \/ ObjRender
  \/ \E g1, g2 \in Groups : CollisionCheckLegacy(g1, g2)
  \/ \E p, q \in Groups \X Groups : CollisionCheck(<<p>>) \/ CollisionCheck(<<p, q>>)

Walk ==
  \/ UpdateVisit \/ UpdateReturn \/ UpdateEnd
  \/ BoundVisit \/ BoundReturn \/ BoundEnd
  \/ BoundCall \/ BoundCallReturn \/ BoundCallEnd
  \/ CollideOuter \/ CollideInner \/ CollideReturn \/ CollideEnd
  \/ CollideCall \/ CollideCallReturn \/ CollideCallEnd
  \/ RenderVisit \/ RenderReturn \/ RenderEnd
  \/ Fail

Next == Script \/ Begin \/ Walk

Spec == Init /\ [][Next]_vars

\* Scripts return from their callbacks or fail, and the frame function calls
\* AfterFrame(2) once a frame, whatever else it calls.
FairSpec == Spec /\ WF_vars(Walk) /\ SF_vars(UpdateNext(2))

-----------------------------------------------------------------------------
(* Properties *)

Objects == Slots \cup {None}

\* Types of the objects, the lists, the Lua tables and the walk.
TypeOK ==
  /\ status \in [Slots -> Status] /\ uid \in [Slots -> Uids]
  /\ group \in [Slots -> Groups] /\ layer \in [Slots -> Layers]
  /\ ignore \in [Slots -> BOOLEAN] /\ iUid \in Uids
  /\ ulist \in Seq(Slots) /\ rset \subseteq Slots /\ dlist \in [Groups -> Seq(Slots)]
  /\ lock \in Objects \X Objects /\ rendering \in BOOLEAN /\ detecting \in BOOLEAN
  /\ pause \in -1 .. MaxPause /\ nextPause \in -1 .. MaxPause
  /\ table \in [Slots -> Uids \cup {NoUid}] /\ ptr \in [Uids -> Objects]
  /\ phase \in Phases /\ time \in -1 .. MaxPause /\ cur \in Objects /\ inCb \in BOOLEAN
  /\ ptrA \in Objects /\ ptrB \in Objects /\ grp \in Groups \X Groups
  /\ cache \in Seq([a : Slots, b : Slots, uidA : Uids, uidB : Uids,
                    tabA : Uids \cup {NoUid}, tabB : Uids \cup {NoUid}])
  /\ begun \subseteq Slots \X Objects /\ seen \subseteq Slots \X Objects /\ again \in BOOLEAN

\* q holds every element of S, and each once.
Lists(q, S) == Len(q) = Cardinality(S) /\ {q[i] : i \in 1 .. Len(q)} = S

\* Whatever callbacks do to the lists, every live object is in the update list
\* once, in the render set, and in the detect list of its own group once; no
\* freed object is left in any of them. The update list is in the order of the
\* uids, and uids are distinct: the render set, which drops an object that
\* compares equal to another, loses none.
ListsExact ==
  /\ Lists(ulist, Live)
  /\ rset = Live
  /\ \A g \in Groups : Lists(dlist[g], {o \in Live : group[o] = g})
  /\ \A i, j \in 1 .. Len(ulist) : i < j => uid[ulist[i]] < uid[ulist[j]]
  /\ \A o \in Live : uid[o] < iUid

\* An object table that outlived its object never points at the object that
\* has the slot now.
HandlesAreFresh ==
  /\ \A h \in Uids : ptr[h] # None => ptr[h] \in Live /\ table[ptr[h]] = h
  /\ \A o \in Slots : table[o] # NoUid => o \in Live /\ ptr[table[o]] = o

\* A call from the cache: the object it is for is the one that was found, and
\* what the script is given with it is the other one, or nil.
CalledIsFound(e) == table[e.a] = e.tabA /\ table[e.b] \in {e.tabB, NoUid}

\* BoundCheck(2) and CollisionCheck{...} find first and call later, and meanwhile a
\* callback may free what they found (AfterFrame, ResetPool) and give the slot to a
\* new object: a callback is run only for an object that was found, and never
\* with another than the one it was found to touch.
CallsWhatItFound ==
  [][~inCb /\ inCb' /\ phase \in {"boundCall", "collideCall"} => CalledIsFound(Head(cache))]_vars

WalkIsOver ==
  \/ phase \in {"update", "bound", "render"} /\ cur = None /\ ~inCb
  \/ phase = "collide" /\ ptrA = None /\ ptrB = None /\ ~inCb

\* When a walk that calls while it looks ends, it has been to everything that was
\* there when it began, although callbacks created, deleted and revived objects
\* under it; and it never gets to the same object, or the same pair, twice.
\* (CallsWhatItFound is about the two operations that find first and call later.)
WalkIsExact == (WalkIsOver => begun \subseteq seen) /\ ~again

\* CollisionCheck(g1, g2) calls back for an object of group g1 and one of g2.
TriggerInGroups ==
  phase = "collide" /\ inCb => group[lock[1]] = grp[1] /\ group[lock[2]] = grp[2]

\* Once scripts stop asking for more super pause, an object that was deleted
\* or killed is freed, unless a script revives it.
DeadIsFreed ==
  <>[][nextPause' <= nextPause]_vars
    => \A o \in Slots : (status[o] \in {"Dead", "Killed"}) ~> (status[o] \in {"Free", "Active"})
=============================================================================
