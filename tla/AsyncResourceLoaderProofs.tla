--------------------- MODULE AsyncResourceLoaderProofs ---------------------
(***************************************************************************)
(* The safety properties of the asynchronous loader for any number of      *)
(* jobs, pools, generations and names.                                     *)
(***************************************************************************)
EXTENDS AsyncResourceLoader, FiniteSetTheorems, TLAPS

USE BoundsAssumption, LimitsAssumption

\* Sequences, requests and pool contents keep their types.
LEMMA AppendType ==
  ASSUME NEW S, NEW q \in Seq(S), NEW x \in S PROVE Append(q, x) \in Seq(S)
  OBVIOUS
LEMMA TailType ==
  ASSUME NEW S, NEW q \in Seq(S), q # <<>> PROVE Tail(q) \in Seq(S) /\ Head(q) \in S
  OBVIOUS
LEMMA AppendElems ==
  ASSUME NEW S, NEW q \in Seq(S), NEW x
  PROVE  /\ Len(Append(q, x)) = Len(q) + 1
         /\ Append(q, x)[Len(q) + 1] = x
         /\ \A i \in 1 .. Len(q) : Append(q, x)[i] = q[i]
         /\ \A i \in 1 .. Len(Append(q, x)) : i \in 1 .. Len(q) \/ i = Len(q) + 1
  OBVIOUS
LEMMA TailElems ==
  ASSUME NEW S, NEW q \in Seq(S), q # <<>>
  PROVE  /\ Head(q) = q[1] /\ 1 \in 1 .. Len(q)
         /\ \A i \in 1 .. Len(Tail(q)) :
              i + 1 \in 2 .. Len(q) /\ i + 1 \in 1 .. Len(q) /\ Tail(q)[i] = q[i + 1] /\ i \in Int
  OBVIOUS
LEMMA NoRequestType == NoRequest \in Requests
  BY DEF NoRequest, Requests
LEMMA RequestType ==
  ASSUME NEW t \in ResourceTypes, NEW p \in PoolIds, NEW g \in Nat, NEW n \in Names
  PROVE  [type |-> t, pool |-> p, gen |-> g, name |-> n] \in Requests
  BY DEF Requests
LEMMA ContentType ==
  ASSUME NEW K, NEW c \in [PoolIds -> SUBSET K], NEW p \in PoolIds, NEW S \in SUBSET K
  PROVE  [c EXCEPT ![p] = S] \in [PoolIds -> SUBSET K]
  OBVIOUS

\* addHistory keeps the history a sequence of jobs.
LEMMA HistoryType ==
  ASSUME history \in Seq(Jobs), NEW j \in Jobs, addHistory(j) PROVE history' \in Seq(Jobs)
<1> DEFINE h == IF Len(history) = HistoryLimit THEN Tail(history) ELSE history
<1>1. h \in Seq(Jobs)
  <2>1. CASE Len(history) = HistoryLimit
    <3>1. history # <<>> BY <2>1
    <3>2. QED BY <2>1, <3>1, TailType
  <2>2. CASE Len(history) # HistoryLimit
    BY <2>2
  <2>3. QED BY <2>1, <2>2
<1>2. history' = Append(h, j)
  BY DEF addHistory
<1>3. QED BY <1>1, <1>2, AppendType

\* Cancelling submitted jobs keeps requests and states in agreement.
LEMMA CancelStep ==
  ASSUME NEW S, \A j \in S : state[j] # NoState, cancel(S), CancelInv, TypeOK
  PROVE  CancelInv'
<1> SUFFICES ASSUME NEW j \in Jobs
             PROVE  /\ cancelReq'[j] => state'[j] \in {"Running", "Cancelled"}
                    /\ state'[j] = "Cancelled" => cancelReq'[j]
  BY DEF CancelInv
<1>1. cancelReq'[j] = (cancelReq[j] \/ (j \in S /\ ~isTerminal(state[j])))
  BY DEF cancel
<1>2. state'[j] = IF j \in S /\ state[j] \in {"Queued", "Ready"} THEN "Cancelled" ELSE state[j]
  BY DEF cancel
<1>3. state[j] \in States \cup {NoState}
  BY DEF TypeOK
<1>4. QED BY <1>1, <1>2, <1>3 DEF CancelInv, isTerminal, Terminal, States

\* A round of update changes no pool but the live one its job was meant for.
LEMMA UpdateContent ==
  ASSUME UpdateStep
  PROVE  \/ content' = content
         \/ /\ req[Head(ready)].pool \in pools
            /\ content' = [content EXCEPT ![req[Head(ready)].pool] =
                             content[req[Head(ready)].pool] \cup {Key(Head(ready))}]
<1> DEFINE j == Head(ready)
<1>1. CASE isFinished(j) \/ isCancelled(j)
  BY <1>1 DEF UpdateStep
<1>2. CASE ~(isFinished(j) \/ isCancelled(j))
  <2>1. PICK ok \in finalize(j) :
          IF ok
          THEN content' = [content EXCEPT ![req[j].pool] = content[req[j].pool] \cup {Key(j)}]
          ELSE content' = content
    BY <1>2 DEF UpdateStep
  <2>2. ok => req[j].pool \in pools
    BY <2>1 DEF finalize
  <2>3. QED BY <2>1, <2>2
<1>3. QED BY <1>1, <1>2

\* Cancelling only ends queued and ready jobs and withdraws no request.
LEMMA CancelEffect ==
  ASSUME NEW S, cancel(S), TypeOK
  PROVE  /\ \A k \in Jobs : \/ state'[k] = state[k]
                            \/ state[k] \in {"Queued", "Ready"} /\ state'[k] = "Cancelled"
         /\ \A k \in Jobs : cancelReq[k] => cancelReq'[k]
<1>1. ASSUME NEW k \in Jobs
      PROVE  \/ state'[k] = state[k]
             \/ state[k] \in {"Queued", "Ready"} /\ state'[k] = "Cancelled"
  BY DEF cancel
<1>2. ASSUME NEW k \in Jobs, cancelReq[k] PROVE cancelReq'[k]
  <2>1. cancelReq'[k] = (cancelReq[k] \/ (k \in S /\ ~isTerminal(state[k])))
    BY DEF cancel
  <2>2. QED BY <1>2, <2>1
<1>3. QED BY <1>1, <1>2

\* The initial state satisfies the inductive invariant.
LEMMA InitInv == Init => IndInv
<1> SUFFICES ASSUME Init PROVE IndInv
  OBVIOUS
<1>1. TypeOK
  <2>1. state \in [Jobs -> States \cup {NoState}] /\ req \in [Jobs -> Requests]
    BY NoRequestType DEF Init
  <2>2. content \in [PoolIds -> SUBSET Keys] /\ gen \in [PoolIds -> Nat]
    BY DEF Init
  <2>3. data \in [Jobs -> BOOLEAN] /\ cancelReq \in [Jobs -> BOOLEAN]
    BY DEF Init
  <2>4. queue \in Seq(Jobs) /\ ready \in Seq(Jobs) /\ history \in Seq(Jobs)
    BY DEF Init
  <2>5. luaRef \subseteq Jobs /\ mjobs \subseteq Jobs /\ exit \in BOOLEAN
    BY DEF Init
  <2>6. wpc \in WorkerPC /\ wjob \in Jobs \cup {NoJob} /\ mpc \in MainPC
    BY DEF Init, WorkerPC, MainPC
  <2>7. count \in 0 .. UpdateMax /\ cursor \in Nat /\ nextPool \in Nat /\ pools \subseteq PoolIds
    BY DEF Init
  <2>8. QED BY <2>1, <2>2, <2>3, <2>4, <2>5, <2>6, <2>7 DEF TypeOK
<1>2. CancelInv /\ QueueInv /\ ReadyInv /\ WorkerInv /\ DataInv /\ ListedInv /\ StopInv
  BY DEF Init, CancelInv, QueueInv, ReadyInv, WorkerInv, DataInv, ListedInv, StopInv, NoState, Pending,
         NoJob
<1>3. TargetIsFresh
  BY DEF Init, TargetIsFresh, NoState, Pending
<1>4. QED BY <1>1, <1>2, <1>3 DEF IndInv

\* Every step preserves the types.
LEMMA TypeStep == IndInv /\ [Next]_vars => TypeOK'
<1> SUFFICES ASSUME IndInv, [Next]_vars PROVE TypeOK'
  OBVIOUS
<1>0. TypeOK /\ WorkerInv
  BY DEF IndInv
<1> USE DEF TypeOK, NoState, States, WorkerPC, MainPC, NoJob
<1>1. ASSUME NEW j \in Jobs, SubmitFileRead(j) PROVE TypeOK'
  <2>1. Append(queue, j) \in Seq(Jobs)
    BY <1>0, AppendType
  <2>2. QED BY <1>0, <1>1, <2>1, NoRequestType DEF SubmitFileRead, NewJob, Enqueue, poolVars
<1>2. ASSUME NEW j \in Jobs, LuaCancel(j) PROVE TypeOK'
  BY <1>0, <1>2 DEF LuaCancel, cancel, workerVars, poolVars
<1>3. ASSUME NEW j \in Jobs, LuaRelease(j) PROVE TypeOK'
  BY <1>0, <1>3 DEF LuaRelease, jobVars, workerVars, poolVars
<1>4. ASSUME NEW j \in Jobs, NEW t \in ResourceTypes, NEW p \in PoolIds, NEW n \in Names,
             SubmitResource(j, t, p, n)
      PROVE TypeOK'
  <2>1. Append(queue, j) \in Seq(Jobs)
    BY <1>0, AppendType
  <2>2. history' \in Seq(Jobs)
    BY <1>0, <1>4, HistoryType DEF SubmitResource
  <2>3. req' \in [Jobs -> Requests]
    <3>1. (IF p \in pools THEN gen[p] ELSE 0) \in Nat BY <1>0
    <3>2. QED BY <1>0, <1>4, <3>1, RequestType DEF SubmitResource, NewJob
  <2>4. QED
    BY <1>0, <1>4, <2>1, <2>2, <2>3 DEF SubmitResource, NewJob, Enqueue, poolVars
<1>5. ASSUME CreateResourcePool PROVE TypeOK'
  BY <1>0, <1>5 DEF CreateResourcePool, jobVars, workerVars, PoolIds
<1>6. ASSUME NEW p \in PoolIds, DestroyResourcePool(p) \/ ClearPool(p) PROVE TypeOK'
  <2>1. state' \in [Jobs -> States \cup {NoState}] /\ cancelReq' \in [Jobs -> BOOLEAN]
    BY <1>0, <1>6 DEF DestroyResourcePool, ClearPool, cancelPool, cancel
  <2>2. content' \in [PoolIds -> SUBSET Keys]
    <3>1. content' = [content EXCEPT ![p] = {}]
      BY <1>6 DEF DestroyResourcePool, ClearPool
    <3>2. QED BY <1>0, <3>1, ContentType
  <2>3. gen' \in [PoolIds -> Nat]
    <3>1. gen' = gen \/ gen' = [gen EXCEPT ![p] = gen[p] + 1]
      BY <1>6 DEF DestroyResourcePool, ClearPool
    <3>2. gen \in [PoolIds -> Nat]
      BY <1>0
    <3> QED BY <3>1, <3>2
  <2>4. QED
    BY <1>0, <1>6, <2>1, <2>2, <2>3 DEF DestroyResourcePool, ClearPool, workerVars
<1>7. ASSUME NEW p \in PoolIds, NEW t \in ResourceTypes, NEW n \in Names,
             LoadNow(p, t, n) \/ RemoveResource(p, t, n)
      PROVE TypeOK'
  <2> DEFINE k == <<t, n>>
  <2>0. k \in Keys
    BY DEF Keys
  <2>1. content' \in [PoolIds -> SUBSET Keys]
    <3> HIDE DEF k
    <3>1. content' = [content EXCEPT ![p] = content[p] \cup {k}]
          \/ content' = [content EXCEPT ![p] = content[p] \ {k}]
      BY <1>7 DEF LoadNow, RemoveResource, k
    <3>2. content[p] \cup {k} \in SUBSET Keys /\ content[p] \ {k} \in SUBSET Keys
      BY <1>0, <2>0
    <3>3. content \in [PoolIds -> SUBSET Keys]
      BY <1>0
    <3>4. QED BY <3>1, <3>2, <3>3, ContentType
  <2>2. QED BY <1>0, <1>7, <2>1 DEF LoadNow, RemoveResource, jobVars, workerVars
<1>8. CASE StopCancelAll \/ StopExit \/ StopNotify \/ StopJoin
  BY <1>0, <1>8 DEF StopCancelAll, StopExit, StopNotify, StopJoin, cancelAll, cancel,
     notify_one, jobVars, workerVars, poolVars
<1>9. CASE Notify \/ UpdateBegin \/ UpdateLoopEnd \/ PruneEnd
  BY <1>0, <1>9 DEF Notify, UpdateBegin, UpdateLoopEnd, PruneEnd, notify_one, jobVars,
     workerVars, poolVars
<1>10. CASE UpdateStep
  <2> DEFINE j == Head(ready)
  <2>1. j \in Jobs /\ Tail(ready) \in Seq(Jobs)
    BY <1>0, <1>10, TailType DEF UpdateStep, UpdateMore
  <2>2. state' \in [Jobs -> States \cup {NoState}]
    BY <1>0, <1>10, <2>1 DEF UpdateStep, setState, finish, fail, isTerminal
  <2>3. content' \in [PoolIds -> SUBSET Keys]
    <3> DEFINE p == req[j].pool
               k == Key(j)
    <3>1. k \in Keys
      <4>1. IsResource(j) /\ req[j] \in Requests
        BY <1>0, <1>10, <2>1 DEF IndInv, DataInv, UpdateStep, UpdateMore
      <4>2. QED BY <4>1 DEF Key, Keys, IsResource, Requests
    <3>2. \/ content' = content
          \/ p \in pools /\ content' = [content EXCEPT ![p] = content[p] \cup {k}]
      BY <1>10, UpdateContent
    <3> HIDE DEF p, k
    <3>3. content \in [PoolIds -> SUBSET Keys] /\ pools \subseteq PoolIds
      BY <1>0
    <3>4. p \in pools => content[p] \cup {k} \in SUBSET Keys
      BY <3>1, <3>3
    <3>5. QED BY <3>2, <3>3, <3>4, ContentType
  <2>4. count' \in 0 .. UpdateMax
    BY <1>0, <1>10 DEF UpdateStep, UpdateMore
  <2>5. QED BY <1>0, <1>10, <2>1, <2>2, <2>3, <2>4 DEF UpdateStep, workerVars
<1>11. ASSUME NEW j \in Jobs, PruneStep(j) PROVE TypeOK'
  <2>1. history' \in Seq(Jobs)
    BY <1>0, <1>11, HistoryType DEF PruneStep
  <2>2. cursor' \in Nat
    BY <1>0, <1>11 DEF PruneStep, Jobs
  <2>4. mjobs' \subseteq Jobs
    BY <1>0, <1>11 DEF PruneStep
  <2>3. QED BY <1>0, <1>11, <2>1, <2>2, <2>4 DEF PruneStep, jobVars, workerVars, poolVars
<1>12. CASE Worker \/ SpuriousWake
  <2> USE DEF jobVars, mainVars, poolVars, WorkerInv
  <2>1. CASE WorkerWait \/ SpuriousWake
    <3>1. queue # <<>> => Tail(queue) \in Seq(Jobs) /\ Head(queue) \in Jobs
      BY <1>0, TailType
    <3>2. QED BY <1>0, <2>1, <3>1 DEF WorkerWait, SpuriousWake
  <2>2. CASE WorkerCheck \/ WorkerStarted
    BY <1>0, <2>2 DEF WorkerCheck, WorkerStarted, CancelledOr, NextJob, setState
  <2>3. CASE WorkerStart \/ WorkerPublish
    BY <1>0, <2>3 DEF WorkerStart, WorkerPublish, setState
  <2>4. CASE WorkerRead
    BY <1>0, <2>4 DEF WorkerRead, fail, NextJob
  <2>5. CASE WorkerLoaded
    BY <1>0, <2>5 DEF WorkerLoaded, CancelledOr, finish, setState, NextJob
  <2>6. CASE WorkerPublished
    BY <1>0, <2>6 DEF WorkerPublished, NextJob
  <2>7. CASE WorkerEnqueue
    <3>1. Append(ready, wjob) \in Seq(Jobs)
      BY <1>0, <2>7, AppendType DEF WorkerEnqueue
    <3>2. QED BY <1>0, <2>7, <3>1 DEF WorkerEnqueue, NextJob
  <2>8. QED BY <1>12, <2>1, <2>2, <2>3, <2>4, <2>5, <2>6, <2>7 DEF Worker
<1>13. CASE UNCHANGED vars
  BY <1>0, <1>13 DEF vars
<1>14. QED
  BY <1>1, <1>2, <1>3, <1>4, <1>5, <1>6, <1>7, <1>8, <1>9, <1>10, <1>11, <1>12, <1>13
     DEF Next, Script, Main

\* What a submission of job j leaves of the data and of the cancel requests.
LEMMA DataOfOthers ==
  ASSUME DataInv, NEW j, j # wjob, ready' = ready, wjob' = wjob, wpc' = wpc, data' = data,
         \A i \in 1 .. Len(ready) : ready[i] \in Jobs /\ ready[i] # j,
         wpc \in {"loaded", "publish", "published", "enqueue"} => wjob \in Jobs,
         \A k \in Jobs : k # j => state'[k] = state[k] /\ req'[k] = req[k],
         state'[j] # "Done"
  PROVE  DataInv'
<1>1. wpc \in {"loaded", "publish", "published", "enqueue"} => req'[wjob] = req[wjob]
  OBVIOUS
<1>2. \A i \in 1 .. Len(ready) : req'[ready[i]] = req[ready[i]]
  OBVIOUS
<1>3. /\ wpc \in {"loaded", "publish", "published", "enqueue"} /\ req'[wjob].type # Sprite
           => data[wjob]
      /\ wpc \in {"publish", "published", "enqueue"} => IsResource(wjob)'
  BY <1>1 DEF DataInv, IsResource
<1>4. \A i \in 1 .. Len(ready) :
        IsResource(ready[i])' /\ (req'[ready[i]].type = Texture => data[ready[i]])
  BY <1>2 DEF DataInv, IsResource
<1>5. \A k \in Jobs : req'[k].type = FileRead /\ state'[k] = "Done" => data[k]
  <2> SUFFICES ASSUME NEW k \in Jobs, req'[k].type = FileRead, state'[k] = "Done" PROVE data[k]
    OBVIOUS
  <2>1. req'[k] = req[k] /\ state'[k] = state[k]
    OBVIOUS
  <2> QED BY <2>1 DEF DataInv
<1> QED BY <1>3, <1>4, <1>5 DEF DataInv, IsResource

LEMMA CancelOfOthers ==
  ASSUME CancelInv, NEW j \in Jobs, state[j] = NoState, cancelReq' = cancelReq,
         \A k \in Jobs : k # j => state'[k] = state[k],
         state'[j] \in {"Queued", "Failed"}
  PROVE  CancelInv'
<1>1. ~cancelReq[j]
  BY DEF CancelInv, NoState
<1>2. ASSUME NEW k \in Jobs
      PROVE  /\ cancelReq[k] => state'[k] \in {"Running", "Cancelled"}
             /\ state'[k] = "Cancelled" => cancelReq[k]
  BY <1>1 DEF CancelInv
<1> QED BY <1>2 DEF CancelInv

\* Every step preserves the rest of the inductive invariant.
LEMMA InvStep == IndInv /\ [Next]_vars => IndInv'
<1> SUFFICES ASSUME IndInv, [Next]_vars PROVE IndInv'
  OBVIOUS
<1> DEFINE Rest == CancelInv /\ QueueInv /\ ReadyInv /\ WorkerInv /\ DataInv /\ ListedInv
                   /\ StopInv /\ TargetIsFresh
<1>0. /\ TypeOK /\ TypeOK'
      /\ CancelInv /\ QueueInv /\ ReadyInv /\ WorkerInv /\ DataInv /\ ListedInv
      /\ StopInv /\ TargetIsFresh
  BY TypeStep DEF IndInv
<1> SUFFICES Rest'
  BY <1>0 DEF IndInv
<1>a. /\ \A i \in 1 .. Len(queue) : queue[i] \in Jobs
      /\ \A i \in 1 .. Len(ready) : ready[i] \in Jobs
      /\ NoJob \notin Jobs
  <2>1. NoJob \notin Jobs
    BY DEF NoJob, Jobs
  <2>2. queue \in Seq(Jobs) /\ ready \in Seq(Jobs)
    BY <1>0 DEF TypeOK
  <2>3. QED BY <2>1, <2>2
<1>b. FileRead \notin ResourceTypes /\ Texture # Sprite /\ FileRead # Sprite
  BY TypesAssumption DEF FileRead, Texture, Sprite
<1> USE DEF TypeOK, Pending, NoState, NoJob, IsResource, Terminal, isTerminal
<1>1. ASSUME NEW j \in Jobs, SubmitFileRead(j) PROVE Rest'
  <2>0. /\ state[j] = "none" /\ j # wjob
        /\ \A k \in 1 .. Len(queue) : queue[k] # j
        /\ \A k \in 1 .. Len(ready) : ready[k] # j
    <3>1. state[j] = "none" /\ j # wjob
      BY <1>0, <1>a, <1>1 DEF SubmitFileRead, NewJob, WorkerInv, WorkerPC
    <3>2. QED BY <1>0, <1>a, <3>1 DEF QueueInv, ReadyInv
  <2>a. /\ ready' = ready /\ wjob' = wjob /\ wpc' = wpc /\ data' = data /\ mjobs \subseteq mjobs'
        /\ \A k \in Jobs : k # j => state'[k] = state[k] /\ req'[k] = req[k]
        /\ state'[j] \in {"Queued", "Failed"}
    <3>1. ready' = ready /\ wjob' = wjob /\ wpc' = wpc /\ data' = data
      BY <1>1 DEF SubmitFileRead
    <3>2. mjobs \subseteq mjobs' /\ req' = [req EXCEPT ![j] = req'[j]]
      BY <1>0, <1>1 DEF SubmitFileRead, NewJob, Enqueue
    <3>3. \/ state' = [state EXCEPT ![j] = "Queued"]
          \/ state' = [state EXCEPT ![j] = "Failed"]
      BY <1>1 DEF SubmitFileRead, Enqueue
    <3>4. QED BY <1>0, <3>1, <3>2, <3>3
  <2>1. CancelInv'
    <3>1. cancelReq' = cancelReq
      BY <1>1 DEF SubmitFileRead
    <3> QED BY <1>0, <2>0, <2>a, <3>1, CancelOfOthers
  <2>2. QueueInv'
    <3>1. CASE queue' = queue /\ mjobs' = mjobs
      BY <1>0, <1>a, <2>0, <1>1, <3>1 DEF SubmitFileRead, NewJob, poolVars, QueueInv, Enqueue
    <3>2. CASE queue' = Append(queue, j)
      <4>1. /\ \A k \in 1 .. Len(queue) : queue[k] # j
            /\ \A k \in 1 .. Len(ready) : ready[k] # j
        BY <1>0, <1>a, <2>0 DEF QueueInv, ReadyInv
      <4>2. /\ ready' = ready /\ wjob' = wjob /\ mjobs \subseteq mjobs'
            /\ \A k \in Jobs : k # j => state'[k] = state[k]
        BY <1>0, <1>1 DEF SubmitFileRead, NewJob, Enqueue
      <4>3. j \in mjobs' /\ state'[j] = "Queued"
        BY <1>0, <1>1, <3>2, <4>1, AppendElems DEF SubmitFileRead, NewJob, Enqueue
      <4>4. QED BY <1>0, <1>a, <2>0, <3>2, <4>1, <4>2, <4>3, AppendElems DEF QueueInv
    <3>3. QED BY <1>1, <3>1, <3>2 DEF SubmitFileRead, Enqueue
  <2>3. ReadyInv'
    BY <1>0, <1>a, <2>0, <2>a DEF ReadyInv
  <2>4. WorkerInv'
    BY <1>0, <1>a, <1>b, <2>0, <1>1 DEF SubmitFileRead, NewJob, Enqueue, NoRequest, poolVars, Scripting, WorkerInv
  <2>5. DataInv'
    <3>1. wpc \in {"loaded", "publish", "published", "enqueue"} => wjob \in Jobs
      BY <1>0 DEF WorkerInv
    <3>2. QED BY <1>0, <1>a, <2>0, <2>a, <3>1, DataOfOthers
  <2>6. ListedInv'
    <3>1. luaRef' = luaRef \cup {j} /\ mjobs' \subseteq mjobs \cup {j}
      BY <1>1 DEF SubmitFileRead, NewJob, Enqueue
    <3>2. state'[j] = "Queued" => j \in mjobs'
      BY <1>0, <1>1 DEF SubmitFileRead, Enqueue
    <3>3. QED BY <1>0, <2>0, <2>a, <3>1, <3>2 DEF ListedInv
  <2>7. StopInv'
    BY <1>0, <1>a, <1>b, <2>0, <1>1 DEF SubmitFileRead, NewJob, Enqueue, NoRequest, poolVars, Scripting, StopInv
  <2>8. TargetIsFresh'
    BY <1>0, <1>a, <1>b, <2>0, <1>1 DEF SubmitFileRead, NewJob, Enqueue, NoRequest, poolVars, Scripting, TargetIsFresh
  <2>9. QED BY <2>1, <2>2, <2>3, <2>4, <2>5, <2>6, <2>7, <2>8
<1>2. ASSUME NEW j \in Jobs, LuaCancel(j) PROVE Rest'
  <2>a. /\ \A k \in Jobs : \/ state'[k] = state[k]
                           \/ state[k] \in {"Queued", "Ready"} /\ state'[k] = "Cancelled"
        /\ \A k \in Jobs : cancelReq[k] => cancelReq'[k]
    BY <1>0, <1>2, CancelEffect DEF LuaCancel
  <2>1. CancelInv'
    BY <1>0, <1>2, CancelStep DEF LuaCancel, ListedInv
  <2>2. QueueInv'
    BY <1>0, <1>a, <1>2, <2>a DEF LuaCancel, workerVars, poolVars, QueueInv
  <2>3. ReadyInv'
    BY <1>0, <1>a, <1>2, <2>a DEF LuaCancel, workerVars, poolVars, ReadyInv
  <2>4. WorkerInv'
    BY <1>0, <1>a, <1>2, <2>a DEF LuaCancel, workerVars, poolVars, WorkerInv
  <2>5. DataInv'
    BY <1>0, <1>a, <1>2, <2>a DEF LuaCancel, workerVars, poolVars, DataInv
  <2>6. ListedInv'
    BY <1>0, <1>a, <1>2, <2>a DEF LuaCancel, workerVars, poolVars, ListedInv
  <2>7. StopInv'
    BY <1>0, <1>a, <1>2, <2>a DEF LuaCancel, workerVars, poolVars, StopInv
  <2>8. TargetIsFresh'
    BY <1>0, <1>a, <1>2, <2>a DEF LuaCancel, workerVars, poolVars, TargetIsFresh
  <2>9. QED BY <2>1, <2>2, <2>3, <2>4, <2>5, <2>6, <2>7, <2>8
<1>3. ASSUME NEW j \in Jobs, LuaRelease(j) PROVE Rest'
  BY <1>0, <1>3 DEF LuaRelease, jobVars, workerVars, poolVars, CancelInv, QueueInv, ReadyInv, WorkerInv,
     DataInv, ListedInv, StopInv, TargetIsFresh
<1>4. ASSUME NEW j \in Jobs, NEW t \in ResourceTypes, NEW p \in PoolIds, NEW n \in Names,
             SubmitResource(j, t, p, n)
      PROVE Rest'
  <2>0. /\ state[j] = "none" /\ j # wjob
        /\ \A k \in 1 .. Len(queue) : queue[k] # j
        /\ \A k \in 1 .. Len(ready) : ready[k] # j
    <3>1. state[j] = "none" /\ j # wjob
      BY <1>0, <1>a, <1>4 DEF SubmitResource, NewJob, WorkerInv, WorkerPC
    <3>2. QED BY <1>0, <1>a, <3>1 DEF QueueInv, ReadyInv
  <2>a. /\ ready' = ready /\ wjob' = wjob /\ wpc' = wpc /\ data' = data /\ mjobs \subseteq mjobs'
        /\ \A k \in Jobs : k # j => state'[k] = state[k] /\ req'[k] = req[k]
        /\ state'[j] \in {"Queued", "Failed"}
    <3>1. ready' = ready /\ wjob' = wjob /\ wpc' = wpc /\ data' = data
      BY <1>4 DEF SubmitResource
    <3>2. mjobs \subseteq mjobs' /\ req' = [req EXCEPT ![j] = req'[j]]
      BY <1>0, <1>4 DEF SubmitResource, NewJob, Enqueue
    <3>3. \/ state' = [state EXCEPT ![j] = "Queued"]
          \/ state' = [state EXCEPT ![j] = "Failed"]
      BY <1>4 DEF SubmitResource, Enqueue
    <3>4. QED BY <1>0, <3>1, <3>2, <3>3
  <2>1. CancelInv'
    <3>1. cancelReq' = cancelReq
      BY <1>4 DEF SubmitResource
    <3> QED BY <1>0, <2>0, <2>a, <3>1, CancelOfOthers
  <2>2. QueueInv'
    <3>1. CASE queue' = queue /\ mjobs' = mjobs
      BY <1>0, <1>a, <2>0, <1>4, <3>1 DEF SubmitResource, NewJob, poolVars, QueueInv, Enqueue
    <3>2. CASE queue' = Append(queue, j)
      <4>1. /\ \A k \in 1 .. Len(queue) : queue[k] # j
            /\ \A k \in 1 .. Len(ready) : ready[k] # j
        BY <1>0, <1>a, <2>0 DEF QueueInv, ReadyInv
      <4>2. /\ ready' = ready /\ wjob' = wjob /\ mjobs \subseteq mjobs'
            /\ \A k \in Jobs : k # j => state'[k] = state[k]
        BY <1>0, <1>4 DEF SubmitResource, NewJob, Enqueue
      <4>3. j \in mjobs' /\ state'[j] = "Queued"
        BY <1>0, <1>4, <3>2, <4>1, AppendElems DEF SubmitResource, NewJob, Enqueue
      <4>4. QED BY <1>0, <1>a, <2>0, <3>2, <4>1, <4>2, <4>3, AppendElems DEF QueueInv
    <3>3. QED BY <1>4, <3>1, <3>2 DEF SubmitResource, Enqueue
  <2>3. ReadyInv'
    BY <1>0, <1>a, <2>0, <2>a DEF ReadyInv
  <2>4. WorkerInv'
    BY <1>0, <1>a, <1>b, <2>0, <1>4 DEF SubmitResource, NewJob, Enqueue, poolVars, Scripting, WorkerInv
  <2>5. DataInv'
    <3>1. wpc \in {"loaded", "publish", "published", "enqueue"} => wjob \in Jobs
      BY <1>0 DEF WorkerInv
    <3>2. QED BY <1>0, <1>a, <2>0, <2>a, <3>1, DataOfOthers
  <2>6. ListedInv'
    <3>1. luaRef' = luaRef \cup {j} /\ mjobs' \subseteq mjobs \cup {j}
      BY <1>4 DEF SubmitResource, NewJob, Enqueue
    <3>2. state'[j] = "Queued" => j \in mjobs'
      BY <1>0, <1>4 DEF SubmitResource, Enqueue
    <3>3. QED BY <1>0, <2>0, <2>a, <3>1, <3>2 DEF ListedInv
  <2>7. StopInv'
    BY <1>0, <1>a, <1>b, <2>0, <1>4 DEF SubmitResource, NewJob, Enqueue, poolVars, Scripting, StopInv
  <2>8. TargetIsFresh'
    BY <1>0, <1>a, <1>b, <2>0, <1>4 DEF SubmitResource, NewJob, Enqueue, poolVars, Scripting, TargetIsFresh
  <2>9. QED BY <2>1, <2>2, <2>3, <2>4, <2>5, <2>6, <2>7, <2>8
<1>5. CASE CreateResourcePool
  BY <1>0, <1>5 DEF CreateResourcePool, jobVars, workerVars, CancelInv, QueueInv, ReadyInv, WorkerInv,
     DataInv, ListedInv, StopInv, TargetIsFresh
<1>6. ASSUME NEW p \in PoolIds, DestroyResourcePool(p) \/ ClearPool(p) PROVE Rest'
  <2>a. /\ \A k \in Jobs : \/ state'[k] = state[k]
                           \/ state[k] \in {"Queued", "Ready"} /\ state'[k] = "Cancelled"
        /\ \A k \in Jobs : cancelReq[k] => cancelReq'[k]
    BY <1>0, <1>6, CancelEffect DEF DestroyResourcePool, ClearPool, cancelPool
  <2>1. CancelInv'
    <3>1. \A j \in mjobs : state[j] # NoState
      BY <1>0 DEF ListedInv
    <3>2. QED BY <1>0, <1>6, <3>1, CancelStep DEF DestroyResourcePool, ClearPool, cancelPool
  <2>2. QueueInv'
    BY <1>0, <1>a, <1>6, <2>a DEF DestroyResourcePool, ClearPool, workerVars, QueueInv
  <2>3. ReadyInv'
    BY <1>0, <1>a, <1>6, <2>a DEF DestroyResourcePool, ClearPool, workerVars, ReadyInv
  <2>4. WorkerInv'
    BY <1>0, <1>a, <1>6, <2>a DEF DestroyResourcePool, ClearPool, workerVars, WorkerInv
  <2>5. DataInv'
    BY <1>0, <1>a, <1>6, <2>a DEF DestroyResourcePool, ClearPool, workerVars, DataInv
  <2>6. ListedInv'
    BY <1>0, <1>a, <1>6, <2>a DEF DestroyResourcePool, ClearPool, workerVars, ListedInv
  <2>7. StopInv'
    BY <1>0, <1>a, <1>6, <2>a DEF DestroyResourcePool, ClearPool, workerVars, StopInv
  <2>8. TargetIsFresh'
    <3> SUFFICES ASSUME NEW j \in Jobs, state'[j] \in Pending, ~cancelReq'[j],
                        IsResource(j)'
                 PROVE  req'[j].pool \in pools' /\ gen'[req'[j].pool] = req'[j].gen
      BY DEF TargetIsFresh
    <3>1. req' = req
      BY <1>6 DEF DestroyResourcePool, ClearPool
    <3>2. state[j] \in Pending /\ ~cancelReq[j] /\ j \in mjobs
      BY <1>0, <1>6 DEF DestroyResourcePool, ClearPool, cancelPool, cancel, ListedInv
    <3>3. req[j].pool # p
      BY <1>0, <1>6, <3>1, <3>2 DEF DestroyResourcePool, ClearPool, cancelPool, cancel
    <3>4. req[j].pool \in pools /\ gen[req[j].pool] = req[j].gen
      BY <1>0, <3>1, <3>2 DEF TargetIsFresh
    <3>5. QED BY <1>0, <1>6, <3>1, <3>3, <3>4 DEF DestroyResourcePool, ClearPool
  <2>9. QED BY <2>1, <2>2, <2>3, <2>4, <2>5, <2>6, <2>7, <2>8
<1>7. ASSUME NEW p \in PoolIds, NEW t \in ResourceTypes, NEW n \in Names,
             LoadNow(p, t, n) \/ RemoveResource(p, t, n)
      PROVE Rest'
  BY <1>0, <1>7 DEF LoadNow, RemoveResource, jobVars, workerVars, CancelInv, QueueInv, ReadyInv, WorkerInv,
     DataInv, ListedInv, StopInv, TargetIsFresh
<1>8. CASE StopCancelAll
  <2>a. /\ \A k \in Jobs : \/ state'[k] = state[k]
                           \/ state[k] \in {"Queued", "Ready"} /\ state'[k] = "Cancelled"
        /\ \A k \in Jobs : cancelReq[k] => cancelReq'[k]
    BY <1>0, <1>8, CancelEffect DEF StopCancelAll, cancelAll
  <2>1. CancelInv'
    <3>1. \A j \in mjobs : state[j] # NoState
      BY <1>0 DEF ListedInv
    <3>2. QED BY <1>0, <1>8, <3>1, CancelStep DEF StopCancelAll, cancelAll
  <2>2. QueueInv'
    BY <1>0, <1>a, <1>8, <2>a DEF StopCancelAll, workerVars, poolVars, QueueInv
  <2>3. ReadyInv'
    BY <1>0, <1>a, <1>8, <2>a DEF StopCancelAll, workerVars, poolVars, ReadyInv
  <2>4. WorkerInv'
    BY <1>0, <1>a, <1>8, <2>a DEF StopCancelAll, workerVars, poolVars, WorkerInv
  <2>5. DataInv'
    BY <1>0, <1>a, <1>8, <2>a DEF StopCancelAll, workerVars, poolVars, DataInv
  <2>6. ListedInv'
    BY <1>0, <1>a, <1>8, <2>a DEF StopCancelAll, workerVars, poolVars, ListedInv
  <2>7. StopInv'
    BY <1>0, <1>8 DEF StopCancelAll, cancelAll, cancel, StopInv, ListedInv, workerVars, poolVars
  <2>8. TargetIsFresh'
    BY <1>0, <1>a, <1>8, <2>a DEF StopCancelAll, workerVars, poolVars, TargetIsFresh
  <2>9. QED BY <2>1, <2>2, <2>3, <2>4, <2>5, <2>6, <2>7, <2>8
<1>9. CASE StopExit \/ StopNotify \/ StopJoin
  <2>1. CancelInv'
    BY <1>0, <1>a, <1>b, <1>9 DEF StopExit, StopNotify, StopJoin, notify_one, jobVars, workerVars, poolVars, CancelInv
  <2>2. QueueInv'
    BY <1>0, <1>a, <1>b, <1>9 DEF StopExit, StopNotify, StopJoin, notify_one, jobVars, workerVars, poolVars, QueueInv
  <2>3. ReadyInv'
    BY <1>0, <1>a, <1>b, <1>9 DEF StopExit, StopNotify, StopJoin, notify_one, jobVars, workerVars, poolVars, ReadyInv
  <2>4. WorkerInv'
    BY <1>0, <1>a, <1>b, <1>9 DEF StopExit, StopNotify, StopJoin, notify_one, jobVars, workerVars, poolVars, WorkerInv
  <2>5. DataInv'
    BY <1>0, <1>a, <1>b, <1>9 DEF StopExit, StopNotify, StopJoin, notify_one, jobVars, workerVars, poolVars, DataInv
  <2>6. ListedInv'
    BY <1>0, <1>a, <1>b, <1>9 DEF StopExit, StopNotify, StopJoin, notify_one, jobVars, workerVars, poolVars, ListedInv
  <2>7. StopInv'
    BY <1>0, <1>a, <1>b, <1>9 DEF StopExit, StopNotify, StopJoin, notify_one, jobVars, workerVars, poolVars, StopInv, WorkerInv
  <2>8. TargetIsFresh'
    BY <1>0, <1>a, <1>b, <1>9 DEF StopExit, StopNotify, StopJoin, notify_one, jobVars, workerVars, poolVars, TargetIsFresh, StopInv
  <2>9. QED BY <2>1, <2>2, <2>3, <2>4, <2>5, <2>6, <2>7, <2>8
<1>10. CASE Notify \/ UpdateBegin \/ UpdateLoopEnd \/ PruneEnd
  BY <1>0, <1>10 DEF Notify, UpdateBegin, UpdateLoopEnd, PruneEnd, notify_one,
     jobVars, workerVars, poolVars, CancelInv, QueueInv, ReadyInv, WorkerInv,
     DataInv, ListedInv, StopInv, TargetIsFresh
<1>11. CASE UpdateStep
  <2>0. /\ Head(ready) \in Jobs /\ Head(ready) # wjob
        /\ state[Head(ready)] \in {"Ready", "Cancelled"}
        /\ IsResource(Head(ready))
    BY <1>0, <1>a, <1>11, TailElems DEF UpdateStep, UpdateMore, ReadyInv, DataInv
  <2>1. CancelInv'
    BY <1>0, <1>a, <1>b, <2>0, <1>11 DEF UpdateStep, isFinished, isCancelled, setState, finish, fail, workerVars, CancelInv
  <2>2. QueueInv'
    BY <1>0, <1>a, <1>b, <2>0, <1>11 DEF UpdateStep, isFinished, isCancelled, setState, finish, fail, workerVars, QueueInv
  <2>3. ReadyInv'
    BY <1>0, <1>a, <1>b, <2>0, <1>11 DEF UpdateStep, isFinished, isCancelled, setState, finish, fail, workerVars, ReadyInv
  <2>4. WorkerInv'
    BY <1>0, <1>a, <1>b, <2>0, <1>11 DEF UpdateStep, isFinished, isCancelled, setState, finish, fail, workerVars, WorkerInv, ReadyInv
  <2>5. DataInv'
    BY <1>0, <1>a, <1>b, <2>0, TailElems, <1>11 DEF UpdateStep, isFinished, isCancelled, setState, finish, fail, workerVars, DataInv, ReadyInv
  <2>6. ListedInv'
    BY <1>0, <1>a, <1>b, <2>0, <1>11 DEF UpdateStep, isFinished, isCancelled, setState, finish, fail, workerVars, ListedInv
  <2>7. StopInv'
    BY <1>0, <1>a, <1>b, <2>0, <1>11 DEF UpdateStep, isFinished, isCancelled, setState, finish, fail, workerVars, StopInv
  <2>8. TargetIsFresh'
    BY <1>0, <1>a, <1>b, <2>0, <1>11 DEF UpdateStep, isFinished, isCancelled, setState, finish, fail, workerVars, TargetIsFresh
  <2>9. QED BY <2>1, <2>2, <2>3, <2>4, <2>5, <2>6, <2>7, <2>8
<1>12. ASSUME NEW j \in Jobs, PruneStep(j) PROVE Rest'
  <2>1. CancelInv'
    BY <1>0, <1>a, <1>b, <1>12 DEF PruneStep, Unreferenced, isFinished, jobVars, workerVars, poolVars, CancelInv
  <2>2. QueueInv'
    BY <1>0, <1>a, <1>b, <1>12 DEF PruneStep, Unreferenced, isFinished, jobVars, workerVars, poolVars, QueueInv
  <2>3. ReadyInv'
    BY <1>0, <1>a, <1>b, <1>12 DEF PruneStep, Unreferenced, isFinished, jobVars, workerVars, poolVars, ReadyInv
  <2>4. WorkerInv'
    BY <1>0, <1>a, <1>b, <1>12 DEF PruneStep, Unreferenced, isFinished, jobVars, workerVars, poolVars, WorkerInv
  <2>5. DataInv'
    BY <1>0, <1>a, <1>b, <1>12 DEF PruneStep, Unreferenced, isFinished, jobVars, workerVars, poolVars, DataInv
  <2>6. ListedInv'
    BY <1>0, <1>a, <1>b, <1>12 DEF PruneStep, Unreferenced, isFinished, jobVars, workerVars, poolVars, ListedInv
  <2>7. StopInv'
    BY <1>0, <1>a, <1>b, <1>12 DEF PruneStep, Unreferenced, isFinished, jobVars, workerVars, poolVars, StopInv
  <2>8. TargetIsFresh'
    BY <1>0, <1>a, <1>b, <1>12 DEF PruneStep, Unreferenced, isFinished, jobVars, workerVars, poolVars, TargetIsFresh
  <2>9. QED BY <2>1, <2>2, <2>3, <2>4, <2>5, <2>6, <2>7, <2>8
<1>13. CASE Worker \/ SpuriousWake
  <2> USE DEF jobVars, mainVars, poolVars, mutexFree
  <2>1. CASE WorkerWait \/ SpuriousWake
    <3>1. CancelInv'
      BY <1>0, <1>a, <1>b, <2>1 DEF WorkerWait, SpuriousWake, CancelInv, WorkerInv
    <3>2. QueueInv'
      <4>1. CASE queue' = queue /\ wjob' = wjob
        BY <1>0, <2>1, <4>1 DEF WorkerWait, SpuriousWake, QueueInv
      <4>2. CASE queue # <<>> /\ queue' = Tail(queue) /\ wjob' = Head(queue)
        <5>1. /\ ready' = ready /\ state' = state /\ mjobs' = mjobs
          BY <2>1 DEF WorkerWait, SpuriousWake
        <5>2. queue \in Seq(Jobs)
          BY <1>0
        <5>3. /\ wjob' = queue[1] /\ 1 \in 1 .. Len(queue)
              /\ \A i \in 1 .. Len(queue') :
                   i \in Int /\ i + 1 \in 1 .. Len(queue) /\ i + 1 # 1 /\ queue'[i] = queue[i + 1]
          BY <4>2, <5>2, TailElems
        <5> SUFFICES ASSUME NEW i \in 1 .. Len(queue')
                     PROVE  /\ queue'[i] \in mjobs /\ queue'[i] # wjob'
                            /\ state[queue'[i]] \in {"Queued", "Cancelled"}
                            /\ \A k \in 1 .. Len(queue') : queue'[i] = queue'[k] => i = k
                            /\ \A k \in 1 .. Len(ready) : queue'[i] # ready[k]
          BY <5>1 DEF QueueInv
        <5>4. /\ queue[i + 1] \in mjobs /\ queue[i + 1] # queue[1]
              /\ state[queue[i + 1]] \in {"Queued", "Cancelled"}
              /\ \A k \in 1 .. Len(ready) : queue[i + 1] # ready[k]
          BY <1>0, <5>3 DEF QueueInv
        <5>5. ASSUME NEW k \in 1 .. Len(queue'), queue'[i] = queue'[k] PROVE i = k
          <6>1. /\ i + 1 \in 1 .. Len(queue) /\ k + 1 \in 1 .. Len(queue)
                /\ queue[i + 1] = queue[k + 1] /\ i \in Int /\ k \in Int
            BY <5>3, <5>5
          <6>2. i + 1 = k + 1
            BY <1>0, <6>1 DEF QueueInv
          <6>3. QED BY <6>1, <6>2
        <5>6. QED BY <5>3, <5>4, <5>5
      <4>3. QED BY <2>1, <4>1, <4>2 DEF WorkerWait, SpuriousWake
    <3>3. ReadyInv'
      BY <1>0, <1>a, <1>b, TailElems, <2>1 DEF WorkerWait, SpuriousWake, ReadyInv, WorkerInv, QueueInv
    <3>4. WorkerInv'
      BY <1>0, <1>a, <1>b, TailElems, <2>1 DEF WorkerWait, SpuriousWake, WorkerInv, QueueInv
    <3>5. DataInv'
      BY <1>0, <1>a, <1>b, TailElems, <2>1 DEF WorkerWait, SpuriousWake, DataInv
    <3>6. ListedInv'
      BY <1>0, <1>a, <1>b, <2>1 DEF WorkerWait, SpuriousWake, ListedInv, WorkerInv
    <3>7. StopInv'
      BY <1>0, <1>a, <1>b, <2>1 DEF WorkerWait, SpuriousWake, StopInv, WorkerInv, CancelInv
    <3>8. TargetIsFresh'
      BY <1>0, <1>a, <1>b, <2>1 DEF WorkerWait, SpuriousWake, TargetIsFresh, WorkerInv, CancelInv
    <3>9. QED BY <3>1, <3>2, <3>3, <3>4, <3>5, <3>6, <3>7, <3>8
  <2>2. CASE WorkerCheck \/ WorkerStarted
    <3>1. CancelInv'
      BY <1>0, <1>a, <1>b, <2>2 DEF WorkerCheck, WorkerStarted, CancelledOr, NextJob, setState, isCancelled, CancelInv, WorkerInv
    <3>2. QueueInv'
      BY <1>0, <1>a, <1>b, <2>2 DEF WorkerCheck, WorkerStarted, CancelledOr, NextJob, setState, isCancelled, QueueInv, WorkerInv, CancelInv
    <3>3. ReadyInv'
      BY <1>0, <1>a, <1>b, <2>2 DEF WorkerCheck, WorkerStarted, CancelledOr, NextJob, setState, isCancelled, ReadyInv, WorkerInv, CancelInv
    <3>4. WorkerInv'
      BY <1>0, <1>a, <1>b, <2>2 DEF WorkerCheck, WorkerStarted, CancelledOr, NextJob, setState, isCancelled, WorkerInv
    <3>5. DataInv'
      BY <1>0, <1>a, <1>b, <2>2 DEF WorkerCheck, WorkerStarted, CancelledOr, NextJob, setState, isCancelled, DataInv, WorkerInv, ReadyInv
    <3>6. ListedInv'
      BY <1>0, <1>a, <1>b, <2>2 DEF WorkerCheck, WorkerStarted, CancelledOr, NextJob, setState, isCancelled, ListedInv, WorkerInv
    <3>7. StopInv'
      BY <1>0, <1>a, <1>b, <2>2 DEF WorkerCheck, WorkerStarted, CancelledOr, NextJob, setState, isCancelled, StopInv, WorkerInv, CancelInv
    <3>8. TargetIsFresh'
      BY <1>0, <1>a, <1>b, <2>2 DEF WorkerCheck, WorkerStarted, CancelledOr, NextJob, setState, isCancelled, TargetIsFresh, WorkerInv, CancelInv
    <3>9. QED BY <3>1, <3>2, <3>3, <3>4, <3>5, <3>6, <3>7, <3>8
  <2>3. CASE WorkerStart
    <3>1. CancelInv'
      BY <1>0, <1>a, <1>b, <2>3 DEF WorkerStart, setState, CancelInv, WorkerInv
    <3>2. QueueInv'
      BY <1>0, <1>a, <1>b, <2>3 DEF WorkerStart, setState, QueueInv, WorkerInv, CancelInv
    <3>3. ReadyInv'
      BY <1>0, <1>a, <1>b, <2>3 DEF WorkerStart, setState, ReadyInv, WorkerInv, CancelInv
    <3>4. WorkerInv'
      BY <1>0, <1>a, <1>b, <2>3 DEF WorkerStart, setState, WorkerInv
    <3>5. DataInv'
      BY <1>0, <1>a, <1>b, <2>3 DEF WorkerStart, setState, DataInv, WorkerInv, ReadyInv
    <3>6. ListedInv'
      BY <1>0, <1>a, <1>b, <2>3 DEF WorkerStart, setState, ListedInv, WorkerInv
    <3>7. StopInv'
      BY <1>0, <1>a, <1>b, <2>3 DEF WorkerStart, setState, StopInv, WorkerInv, CancelInv
    <3>8. TargetIsFresh'
      BY <1>0, <1>a, <1>b, <2>3 DEF WorkerStart, setState, TargetIsFresh, WorkerInv, CancelInv
    <3>9. QED BY <3>1, <3>2, <3>3, <3>4, <3>5, <3>6, <3>7, <3>8
  <2>4. CASE WorkerPublish
    <3>1. CancelInv'
      BY <1>0, <1>a, <1>b, <2>4 DEF WorkerPublish, setState, CancelInv, WorkerInv
    <3>2. QueueInv'
      BY <1>0, <1>a, <1>b, <2>4 DEF WorkerPublish, setState, QueueInv, WorkerInv, CancelInv
    <3>3. ReadyInv'
      BY <1>0, <1>a, <1>b, <2>4 DEF WorkerPublish, setState, ReadyInv, WorkerInv, CancelInv
    <3>4. WorkerInv'
      BY <1>0, <1>a, <1>b, <2>4 DEF WorkerPublish, setState, WorkerInv
    <3>5. DataInv'
      BY <1>0, <1>a, <1>b, <2>4 DEF WorkerPublish, setState, DataInv, WorkerInv, ReadyInv
    <3>6. ListedInv'
      BY <1>0, <1>a, <1>b, <2>4 DEF WorkerPublish, setState, ListedInv, WorkerInv
    <3>7. StopInv'
      BY <1>0, <1>a, <1>b, <2>4 DEF WorkerPublish, setState, StopInv, WorkerInv, CancelInv
    <3>8. TargetIsFresh'
      BY <1>0, <1>a, <1>b, <2>4 DEF WorkerPublish, setState, TargetIsFresh, WorkerInv, CancelInv
    <3>9. QED BY <3>1, <3>2, <3>3, <3>4, <3>5, <3>6, <3>7, <3>8
  <2>5. CASE WorkerRead
    <3>1. CancelInv'
      BY <1>0, <1>a, <1>b, <2>5 DEF WorkerRead, fail, NextJob, CancelInv, WorkerInv
    <3>2. QueueInv'
      BY <1>0, <1>a, <1>b, <2>5 DEF WorkerRead, fail, NextJob, QueueInv, WorkerInv, CancelInv
    <3>3. ReadyInv'
      BY <1>0, <1>a, <1>b, <2>5 DEF WorkerRead, fail, NextJob, ReadyInv, WorkerInv, CancelInv
    <3>4. WorkerInv'
      BY <1>0, <1>a, <1>b, <2>5 DEF WorkerRead, fail, NextJob, WorkerInv
    <3>5. DataInv'
      BY <1>0, <1>a, <1>b, <2>5 DEF WorkerRead, fail, NextJob, DataInv, WorkerInv, ReadyInv
    <3>6. ListedInv'
      BY <1>0, <1>a, <1>b, <2>5 DEF WorkerRead, fail, NextJob, ListedInv, WorkerInv
    <3>7. StopInv'
      BY <1>0, <1>a, <1>b, <2>5 DEF WorkerRead, fail, NextJob, StopInv, WorkerInv, CancelInv
    <3>8. TargetIsFresh'
      BY <1>0, <1>a, <1>b, <2>5 DEF WorkerRead, fail, NextJob, TargetIsFresh, WorkerInv, CancelInv
    <3>9. QED BY <3>1, <3>2, <3>3, <3>4, <3>5, <3>6, <3>7, <3>8
  <2>6. CASE WorkerLoaded
    <3>1. CancelInv'
      BY <1>0, <1>a, <1>b, <2>6 DEF WorkerLoaded, CancelledOr, finish, setState, NextJob,
        isCancelled, CancelInv, WorkerInv
    <3>2. QueueInv'
      BY <1>0, <1>a, <1>b, <2>6 DEF WorkerLoaded, CancelledOr, finish, setState, NextJob,
        isCancelled, QueueInv, WorkerInv, CancelInv
    <3>3. ReadyInv'
      BY <1>0, <1>a, <1>b, <2>6 DEF WorkerLoaded, CancelledOr, finish, setState, NextJob,
        isCancelled, ReadyInv, WorkerInv, CancelInv
    <3>4. WorkerInv'
      BY <1>0, <1>a, <1>b, <2>6 DEF WorkerLoaded, CancelledOr, finish, setState, NextJob,
        isCancelled, WorkerInv
    <3>5. DataInv'
      <4>1. CASE req[wjob].type = FileRead
        BY <1>0, <1>a, <1>b, <2>6, <4>1 DEF WorkerLoaded, finish, NextJob, DataInv, WorkerInv
      <4>2. CASE req[wjob].type # FileRead
        <5>1. IsResource(wjob)
          BY <1>0, <4>2, <2>6 DEF WorkerInv, Requests, WorkerLoaded
        <5>2. QED
          BY <1>0, <1>a, <1>b, <2>6, <4>2, <5>1 DEF WorkerLoaded, CancelledOr, setState, NextJob,
             isCancelled, DataInv, WorkerInv
      <4>3. QED BY <4>1, <4>2
    <3>6. ListedInv'
      BY <1>0, <1>a, <1>b, <2>6 DEF WorkerLoaded, CancelledOr, finish, setState, NextJob,
        isCancelled, ListedInv, WorkerInv
    <3>7. StopInv'
      BY <1>0, <1>a, <1>b, <2>6 DEF WorkerLoaded, CancelledOr, finish, setState, NextJob,
        isCancelled, StopInv, WorkerInv, CancelInv
    <3>8. TargetIsFresh'
      BY <1>0, <1>a, <1>b, <2>6 DEF WorkerLoaded, CancelledOr, finish, setState, NextJob,
        isCancelled, TargetIsFresh, WorkerInv, CancelInv
    <3>9. QED BY <3>1, <3>2, <3>3, <3>4, <3>5, <3>6, <3>7, <3>8
  <2>7. CASE WorkerPublished
    <3>1. CancelInv'
      BY <1>0, <1>a, <1>b, <2>7 DEF WorkerPublished, NextJob, CancelInv, WorkerInv
    <3>2. QueueInv'
      BY <1>0, <1>a, <1>b, <2>7 DEF WorkerPublished, NextJob, QueueInv, WorkerInv, CancelInv
    <3>3. ReadyInv'
      BY <1>0, <1>a, <1>b, <2>7 DEF WorkerPublished, NextJob, ReadyInv, WorkerInv, CancelInv
    <3>4. WorkerInv'
      BY <1>0, <1>a, <1>b, <2>7 DEF WorkerPublished, NextJob, WorkerInv
    <3>5. DataInv'
      BY <1>0, <1>a, <1>b, <2>7 DEF WorkerPublished, NextJob, DataInv, WorkerInv, ReadyInv
    <3>6. ListedInv'
      BY <1>0, <1>a, <1>b, <2>7 DEF WorkerPublished, NextJob, ListedInv, WorkerInv
    <3>7. StopInv'
      BY <1>0, <1>a, <1>b, <2>7 DEF WorkerPublished, NextJob, StopInv, WorkerInv, CancelInv
    <3>8. TargetIsFresh'
      BY <1>0, <1>a, <1>b, <2>7 DEF WorkerPublished, NextJob, TargetIsFresh, WorkerInv, CancelInv
    <3>9. QED BY <3>1, <3>2, <3>3, <3>4, <3>5, <3>6, <3>7, <3>8
  <2>8. CASE WorkerEnqueue
    <3>1. CancelInv'
      BY <1>0, <1>a, <1>b, <2>8 DEF WorkerEnqueue, NextJob, CancelInv, WorkerInv
    <3>2. QueueInv'
      BY <1>0, <1>a, <1>b, AppendElems, <2>8 DEF WorkerEnqueue, NextJob, QueueInv, WorkerInv
    <3>3. ReadyInv'
      BY <1>0, <1>a, <1>b, AppendElems, <2>8 DEF WorkerEnqueue, NextJob, ReadyInv, WorkerInv, QueueInv
    <3>4. WorkerInv'
      BY <1>0, <1>a, <1>b, <2>8 DEF WorkerEnqueue, NextJob, WorkerInv
    <3>5. DataInv'
      BY <1>0, <1>a, <1>b, AppendElems, <2>8 DEF WorkerEnqueue, NextJob, DataInv, WorkerInv
    <3>6. ListedInv'
      BY <1>0, <1>a, <1>b, <2>8 DEF WorkerEnqueue, NextJob, ListedInv, WorkerInv
    <3>7. StopInv'
      BY <1>0, <1>a, <1>b, <2>8 DEF WorkerEnqueue, NextJob, StopInv, WorkerInv, CancelInv
    <3>8. TargetIsFresh'
      BY <1>0, <1>a, <1>b, <2>8 DEF WorkerEnqueue, NextJob, TargetIsFresh, WorkerInv, CancelInv
    <3>9. QED BY <3>1, <3>2, <3>3, <3>4, <3>5, <3>6, <3>7, <3>8
  <2>9. QED BY <1>13, <2>1, <2>2, <2>3, <2>4, <2>5, <2>6, <2>7, <2>8 DEF Worker
<1>14. CASE UNCHANGED vars
  BY <1>0, <1>14 DEF vars, CancelInv, QueueInv, ReadyInv, WorkerInv,
     DataInv, ListedInv, StopInv, TargetIsFresh
<1>15. QED
  BY <1>1, <1>2, <1>3, <1>4, <1>5, <1>6, <1>7, <1>8, <1>9, <1>10, <1>11, <1>12, <1>13, <1>14
     DEF Next, Script, Main

\* The inductive invariant holds in every reachable state.
THEOREM LoaderInvariant == Spec => []IndInv
<1>1. Init => IndInv
  BY InitInv
<1>2. IndInv /\ [Next]_vars => IndInv'
  BY InvStep
<1>3. QED BY <1>1, <1>2, PTL DEF Spec

\* The state of loader, worker and pools keeps its type.
THEOREM LoaderTypes == Spec => []TypeOK
<1>1. IndInv => TypeOK
  BY DEF IndInv
<1>2. QED BY <1>1, LoaderInvariant, PTL

\* A cancelled job is never reported done or failed.
THEOREM LoaderCancel == Spec => []CancelHonoured
<1>1. IndInv => CancelHonoured
  BY DEF IndInv, CancelInv, CancelHonoured
<1>2. QED BY <1>1, LoaderInvariant, PTL

\* finalize always finds the pool and the generation the job was made for.
THEOREM LoaderTarget == Spec => []TargetIsFresh
<1>1. IndInv => TargetIsFresh
  BY DEF IndInv
<1>2. QED BY <1>1, LoaderInvariant, PTL

\* The worker never holds the last reference to a job.
THEOREM LoaderLifetime == Spec => []WorkerNeverDestroys
<1>1. ASSUME IndInv PROVE WorkerNeverDestroys
  <2>1. DOMAIN queue = 1 .. Len(queue) /\ DOMAIN ready = 1 .. Len(ready)
    BY <1>1 DEF IndInv, TypeOK
  <2>2. \A j \in Jobs : InSeq(j, queue) \/ InSeq(j, ready) => j \in mjobs
    BY <1>1, <2>1 DEF IndInv, QueueInv, ReadyInv, InSeq
  <2>3. wjob # NoJob => wjob \in mjobs
    BY <1>1 DEF IndInv, WorkerInv
  <2>4. QED BY <2>2, <2>3 DEF WorkerNeverDestroys
<1>2. QED BY <1>1, LoaderInvariant, PTL

\* The main thread only looks at data the worker has finished writing.
THEOREM LoaderData == Spec => []DataPublished
<1>1. ASSUME IndInv PROVE DataPublished
  <2> SUFFICES ASSUME NEW j \in Jobs,
                      \/ req[j].type = FileRead /\ state[j] = "Done"
                      \/ req[j].type = Texture /\ InSeq(j, ready)
               PROVE  data[j] /\ ~(wjob = j /\ wpc = "read")
    BY DEF DataPublished
  <2>1. CASE req[j].type = FileRead /\ state[j] = "Done"
    BY <1>1, <2>1 DEF IndInv, DataInv, WorkerInv
  <2>2. CASE req[j].type = Texture /\ InSeq(j, ready)
    <3>1. PICK i \in 1 .. Len(ready) : ready[i] = j
      BY <1>1, <2>2 DEF IndInv, TypeOK, InSeq
    <3>2. QED BY <1>1, <2>2, <3>1 DEF IndInv, DataInv, ReadyInv
  <2>3. QED BY <2>1, <2>2
<1>2. QED BY <1>1, LoaderInvariant, PTL

\* When stop returns the worker is gone and no job is unfinished.
THEOREM LoaderStop == Spec => []StopLeavesNothing
<1>1. ASSUME IndInv PROVE StopLeavesNothing
  <2> SUFFICES ASSUME mpc = "stopped", NEW j \in Jobs, state[j] \in Pending PROVE FALSE
    BY <1>1 DEF IndInv, StopInv, StopLeavesNothing
  <2>1. wpc = "exited" /\ cancelReq[j]
    BY <1>1 DEF IndInv, StopInv
  <2>2. wjob = j
    BY <1>1, <2>1 DEF IndInv, CancelInv, ListedInv, Pending
  <2>3. wjob = NoJob
    BY <1>1, <2>1 DEF IndInv, WorkerInv
  <2>4. QED BY <2>2, <2>3 DEF Jobs, NoJob
<1>2. QED BY <1>1, LoaderInvariant, PTL

\* A finished job keeps its outcome in every step of either thread.
THEOREM LoaderOutcome == Spec => TerminalIsFinal
<1>1. ASSUME IndInv, [Next]_vars
      PROVE  \A j \in Jobs : isTerminal(state[j]) => state'[j] = state[j]
  <2> SUFFICES ASSUME NEW k \in Jobs, isTerminal(state[k]) PROVE state'[k] = state[k]
    OBVIOUS
  <2>0. TypeOK /\ CancelInv /\ ReadyInv /\ WorkerInv
    BY <1>1 DEF IndInv
  <2> USE DEF TypeOK, isTerminal, Terminal
  <2>1. ASSUME NEW j \in Jobs,
               \/ SubmitFileRead(j)
               \/ \E t \in ResourceTypes, p \in PoolIds, n \in Names : SubmitResource(j, t, p, n)
        PROVE state'[k] = state[k]
    BY <2>0, <2>1 DEF SubmitFileRead, SubmitResource, NewJob, Enqueue, NoState
  <2>2. ASSUME NEW S, cancel(S) PROVE state'[k] = state[k]
    BY <2>0, <2>2 DEF cancel
  <2>3. ASSUME UpdateStep PROVE state'[k] = state[k]
    <3>1. Head(ready) \in Jobs /\ state[Head(ready)] \in {"Ready", "Cancelled"}
      BY <2>0, <2>3, TailElems DEF UpdateStep, UpdateMore, ReadyInv
    <3>2. QED BY <2>0, <2>3, <3>1 DEF UpdateStep, isFinished, isCancelled, setState, finish, fail
  <2>4. CASE Worker
    <3> USE DEF WorkerInv, jobVars
    <3>1. CASE WorkerWait \/ WorkerPublished \/ WorkerEnqueue
      BY <3>1 DEF WorkerWait, WorkerPublished, WorkerEnqueue
    <3>2. CASE WorkerCheck \/ WorkerStarted
      BY <2>0, <3>2 DEF WorkerCheck, WorkerStarted, CancelledOr, isCancelled, setState, CancelInv
    <3>3. CASE WorkerStart \/ WorkerPublish
      BY <2>0, <3>3 DEF WorkerStart, WorkerPublish, setState, CancelInv
    <3>4. CASE WorkerRead \/ WorkerLoaded
      BY <2>0, <3>4 DEF WorkerRead, WorkerLoaded, CancelledOr, isCancelled, setState, fail, finish
    <3>5. QED BY <2>4, <3>1, <3>2, <3>3, <3>4 DEF Worker
  <2>5. CASE \E j \in Jobs : LuaCancel(j)
    BY <2>2, <2>5 DEF LuaCancel
  <2>6. CASE StopCancelAll \/ \E p \in PoolIds : DestroyResourcePool(p) \/ ClearPool(p)
    BY <2>2, <2>6 DEF StopCancelAll, cancelAll, DestroyResourcePool, ClearPool, cancelPool
  <2>7. CASE \/ \E j \in Jobs : LuaRelease(j) \/ PruneStep(j)
             \/ \E p \in PoolIds, t \in ResourceTypes, n \in Names :
                  LoadNow(p, t, n) \/ RemoveResource(p, t, n)
             \/ CreateResourcePool \/ Notify \/ UpdateBegin \/ UpdateLoopEnd \/ PruneEnd
             \/ StopExit \/ StopNotify \/ StopJoin \/ SpuriousWake \/ UNCHANGED vars
    BY <2>7 DEF LuaRelease, PruneStep, LoadNow, RemoveResource, CreateResourcePool, Notify,
       UpdateBegin, UpdateLoopEnd, PruneEnd, StopExit, StopNotify, StopJoin, SpuriousWake, vars,
       jobVars
  <2>8. QED BY <1>1, <2>1, <2>3, <2>4, <2>5, <2>6, <2>7 DEF Next, Script, Main
<1>2. QED BY <1>1, LoaderInvariant, PTL DEF Spec, TerminalIsFinal

-----------------------------------------------------------------------------
(* No job is lost or overtaken on its way through the loader. *)

\* Submitted jobs have the lowest numbers, and stand in order in m_ready, the
\* worker's hands and m_queue.
OrderInv ==
  /\ \A j, k \in Jobs : j < k /\ state[k] # NoState => state[j] # NoState
  /\ \A i, k \in 1 .. Len(queue) : i < k => queue[i] < queue[k]
  /\ \A i, k \in 1 .. Len(ready) : i < k => ready[i] < ready[k]
  /\ \A i \in 1 .. Len(ready), k \in 1 .. Len(queue) : ready[i] < queue[k]
  /\ wjob # NoJob => /\ \A k \in 1 .. Len(queue) : wjob < queue[k]
                     /\ \A i \in 1 .. Len(ready) : ready[i] < wjob

IsPlaced(j) ==
  \/ \E i \in 1 .. Len(queue) : queue[i] = j
  \/ \E i \in 1 .. Len(ready) : ready[i] = j
  \/ wjob = j
PlacedInv == \A j \in Jobs : state[j] \in Pending => IsPlaced(j)

\* What a step does to a job's way: a job sets out, the worker takes it, hands
\* it on, update loads it, or nothing moves but a job that is finished with.
NobodyNew ==
  \A k \in Jobs : /\ state'[k] = NoState <=> state[k] = NoState
                  /\ state'[k] \in Pending => state[k] \in Pending
Submits(j) ==
  /\ state[j] = NoState /\ state'[j] # NoState
  /\ \A k \in Jobs : k < j => state[k] # NoState
  /\ \A k \in Jobs : k # j => state'[k] = state[k]
  /\ ready' = ready /\ wjob' = wjob
  /\ queue' = Append(queue, j) \/ (queue' = queue /\ state'[j] \notin Pending)
Takes ==
  /\ queue # <<>> /\ wjob = NoJob
  /\ wjob' = Head(queue) /\ queue' = Tail(queue) /\ ready' = ready /\ state' = state
HandsOn ==
  /\ wjob # NoJob /\ wjob' = NoJob
  /\ ready' = Append(ready, wjob) /\ queue' = queue /\ state' = state
Loads ==
  /\ ready # <<>> /\ ready' = Tail(ready) /\ queue' = queue /\ wjob' = wjob
  /\ NobodyNew /\ state'[Head(ready)] \notin Pending
Stays ==
  /\ queue' = queue /\ ready' = ready /\ NobodyNew
  /\ wjob' = wjob \/ (wjob # NoJob /\ wjob' = NoJob /\ state'[wjob] \notin Pending)

LEMMA CancelNobodyNew == ASSUME NEW S, cancel(S), TypeOK PROVE NobodyNew
BY CancelEffect DEF NobodyNew, Pending, NoState

LEMMA Moves ==
  ASSUME IndInv, [Next]_vars
  PROVE  Takes \/ HandsOn \/ Loads \/ Stays \/ \E j \in Jobs : Submits(j)
<1>0. TypeOK /\ CancelInv /\ ReadyInv /\ WorkerInv
  BY DEF IndInv
<1>1. ASSUME NEW j \in Jobs,
             \/ SubmitFileRead(j)
             \/ \E t \in ResourceTypes, p \in PoolIds, n \in Names : SubmitResource(j, t, p, n)
      PROVE  Submits(j)
  <2>1. /\ state[j] = NoState /\ ready' = ready /\ wjob' = wjob
        /\ \A k \in 1 .. (j - 1) : state[k] # NoState
    BY <1>1 DEF SubmitFileRead, SubmitResource, NewJob
  <2>2. \A k \in Jobs : k < j => state[k] # NoState
    BY <2>1 DEF Jobs
  <2>3. \/ state' = [state EXCEPT ![j] = "Queued"] /\ queue' = Append(queue, j)
        \/ state' = [state EXCEPT ![j] = "Failed"] /\ queue' = queue
    BY <1>1 DEF SubmitFileRead, SubmitResource, Enqueue
  <2> QED BY <1>0, <2>1, <2>2, <2>3 DEF Submits, TypeOK, NoState, Pending
<1>2. ASSUME NEW S, cancel(S), queue' = queue, ready' = ready, wjob' = wjob PROVE Stays
  BY <1>0, <1>2, CancelNobodyNew DEF Stays
<1>3. ASSUME state' = state, queue' = queue, ready' = ready, wjob' = wjob PROVE Stays
  BY <1>3 DEF Stays, NobodyNew
<1>4. CASE UpdateStep
  <2> DEFINE j == Head(ready)
  <2>1. ready # <<>> /\ ready' = Tail(ready) /\ queue' = queue /\ wjob' = wjob
    BY <1>4 DEF UpdateStep, UpdateMore, workerVars
  <2>2. j \in Jobs /\ state[j] \in {"Ready", "Cancelled"}
    BY <1>0, <2>1, TailElems, TailType DEF TypeOK, ReadyInv
  <2>3. \/ state[j] = "Cancelled" /\ state' = state
        \/ \E s \in {"Cancelled", "Done", "Failed"} : state' = [state EXCEPT ![j] = s]
    BY <1>0, <1>4, <2>2 DEF UpdateStep, isFinished, isTerminal, Terminal, setState, finish, fail
  <2> HIDE DEF j
  <2>4. NobodyNew /\ state'[j] \notin Pending
    BY <1>0, <2>2, <2>3 DEF NobodyNew, TypeOK, NoState, Pending
  <2> QED BY <2>1, <2>4 DEF Loads, j
<1>5. CASE WorkerWait
  BY <1>0, <1>3, <1>5 DEF WorkerWait, jobVars, Takes, WorkerInv
<1>6. CASE WorkerEnqueue
  BY <1>0, <1>6 DEF WorkerEnqueue, NextJob, jobVars, HandsOn, WorkerInv
<1>7. CASE WorkerCheck \/ WorkerStart \/ WorkerStarted \/ WorkerRead \/ WorkerLoaded
             \/ WorkerPublish \/ WorkerPublished
  <2>1. queue' = queue /\ ready' = ready
    BY <1>7 DEF WorkerCheck, WorkerStart, WorkerStarted, WorkerRead, WorkerLoaded,
                WorkerPublish, WorkerPublished
  <2>2. wjob \in Jobs /\ state[wjob] \in Pending \cup {"Cancelled"}
    BY <1>0, <1>7 DEF WorkerInv, TypeOK, Pending, WorkerCheck, WorkerStart, WorkerStarted,
                      WorkerRead, WorkerLoaded, WorkerPublish, WorkerPublished
  <2>3. \/ wjob' = wjob /\ state' = state
        \/ wjob' = wjob /\ \E s \in {"Running", "Ready", "Cancelled"} :
             state' = [state EXCEPT ![wjob] = s] /\ (s # "Cancelled" => state[wjob] \in Pending)
        \/ wjob' = NoJob /\ \E s \in {"Cancelled", "Done", "Failed"} :
             state' = [state EXCEPT ![wjob] = s]
        \/ wjob' = NoJob /\ state' = state /\ state[wjob] = "Cancelled"
    <3>1. CASE WorkerCheck \/ WorkerStarted
      BY <1>0, <3>1 DEF WorkerCheck, WorkerStarted, CancelledOr, NextJob, setState, isTerminal,
                        Terminal
    <3>2. CASE WorkerStart \/ WorkerPublish
      BY <1>0, <2>2, <3>2 DEF WorkerStart, WorkerPublish, setState, isTerminal, Terminal,
                              CancelInv, Pending
    <3>3. CASE WorkerRead
      BY <3>3 DEF WorkerRead, fail, NextJob
    <3>4. CASE WorkerLoaded
      BY <3>4 DEF WorkerLoaded, finish, CancelledOr, NextJob, setState, isTerminal, Terminal
    <3>5. CASE WorkerPublished
      BY <1>0, <3>5 DEF WorkerPublished, NextJob, jobVars, WorkerInv
    <3> QED BY <1>7, <3>1, <3>2, <3>3, <3>4, <3>5
  <2> QED BY <1>0, <2>1, <2>2, <2>3
          DEF Stays, NobodyNew, TypeOK, Pending, NoState, NoJob, Jobs
<1>8. CASE \E j \in Jobs : LuaCancel(j)
  BY <1>2, <1>8 DEF LuaCancel, workerVars
<1>9. CASE StopCancelAll \/ \E p \in PoolIds : DestroyResourcePool(p) \/ ClearPool(p)
  BY <1>2, <1>9 DEF StopCancelAll, cancelAll, DestroyResourcePool, ClearPool, cancelPool,
                    workerVars
<1>10. CASE \/ \E j \in Jobs : LuaRelease(j) \/ PruneStep(j)
            \/ \E p \in PoolIds, t \in ResourceTypes, n \in Names :
                 LoadNow(p, t, n) \/ RemoveResource(p, t, n)
            \/ CreateResourcePool \/ Notify \/ UpdateBegin \/ UpdateLoopEnd \/ PruneEnd
            \/ StopExit \/ StopNotify \/ StopJoin \/ SpuriousWake \/ UNCHANGED vars
  BY <1>3, <1>10 DEF LuaRelease, PruneStep, LoadNow, RemoveResource, CreateResourcePool, Notify,
     UpdateBegin, UpdateLoopEnd, PruneEnd, StopExit, StopNotify, StopJoin, SpuriousWake, vars,
     jobVars, workerVars
<1> QED
  BY <1>1, <1>4, <1>5, <1>6, <1>7, <1>8, <1>9, <1>10 DEF Next, Script, Main, Worker

LEMMA OrderStep == ASSUME IndInv, OrderInv, [Next]_vars PROVE OrderInv'
<1>0. /\ queue \in Seq(Jobs) /\ ready \in Seq(Jobs) /\ wjob \in Jobs \cup {NoJob}
      /\ \A j \in Jobs : j \in Int /\ j # NoJob
  BY DEF IndInv, TypeOK, Jobs, NoJob
<1>1. /\ \A i \in 1 .. Len(queue) : queue[i] \in Jobs /\ state[queue[i]] # NoState
      /\ \A i \in 1 .. Len(ready) : ready[i] \in Jobs /\ state[ready[i]] # NoState
      /\ wjob # NoJob => state[wjob] # NoState
  BY <1>0 DEF IndInv, QueueInv, ReadyInv, WorkerInv, TypeOK, WorkerPC, NoState
<1>2. ASSUME NEW j \in Jobs, Submits(j) PROVE OrderInv'
  <2>1. /\ \A i \in 1 .. Len(queue) : queue[i] < j
        /\ \A i \in 1 .. Len(ready) : ready[i] < j
        /\ wjob # NoJob => wjob < j
    <3>1. j \in Int /\ state[j] = NoState
      BY <1>0, <1>2 DEF Submits
    <3>2. \A k \in Jobs : j < k => state[k] = NoState
      BY <3>1 DEF OrderInv
    <3>3. \A k \in Jobs : state[k] # NoState => k < j
      BY <1>0, <3>1, <3>2
    <3> QED BY <1>0, <1>1, <3>3
  <2>2. \A a, b \in Jobs : a < b /\ state'[b] # NoState => state'[a] # NoState
    BY <1>2 DEF Submits, OrderInv
  <2>3. CASE queue' = queue
    BY <1>2, <2>2, <2>3 DEF Submits, OrderInv
  <2>4. CASE queue' = Append(queue, j)
    BY <1>0, <1>1, <1>2, <2>1, <2>2, <2>4, AppendElems DEF Submits, OrderInv
  <2> QED BY <1>2, <2>3, <2>4 DEF Submits
<1>3. CASE Takes
  <2>1. /\ Head(queue) = queue[1] /\ 1 \in 1 .. Len(queue)
        /\ \A i \in 1 .. Len(queue') :
             i + 1 \in 2 .. Len(queue) /\ i + 1 \in 1 .. Len(queue)
             /\ queue'[i] = queue[i + 1] /\ i \in Int
    BY <1>0, <1>3, TailElems DEF Takes
  <2>2. /\ \A i, k \in 1 .. Len(queue') : i < k => queue'[i] < queue'[k]
        /\ \A k \in 1 .. Len(queue') : wjob' < queue'[k]
    BY <1>3, <2>1 DEF Takes, OrderInv
  <2>3. \A i \in 1 .. Len(ready) : ready[i] < wjob' /\ \A k \in 1 .. Len(queue') : ready[i] < queue'[k]
    BY <1>3, <2>1 DEF Takes, OrderInv
  <2> QED BY <1>3, <2>2, <2>3 DEF Takes, OrderInv
<1>4. CASE HandsOn
  <2>1. \A i \in 1 .. Len(ready) : ready[i] < wjob
    BY <1>4 DEF HandsOn, OrderInv
  <2>2. /\ Len(ready') = Len(ready) + 1 /\ ready'[Len(ready) + 1] = wjob
        /\ \A i \in 1 .. Len(ready) : ready'[i] = ready[i]
        /\ \A i \in 1 .. Len(ready') : i \in 1 .. Len(ready) \/ i = Len(ready) + 1
    BY <1>0, <1>4, AppendElems DEF HandsOn
  <2>3. \A i, k \in 1 .. Len(ready') : i < k => ready'[i] < ready'[k]
    BY <1>0, <2>1, <2>2 DEF OrderInv
  <2>4. \A i \in 1 .. Len(ready'), k \in 1 .. Len(queue) : ready'[i] < queue[k]
    BY <1>4, <2>2 DEF OrderInv, HandsOn
  <2> QED BY <1>4, <2>3, <2>4 DEF HandsOn, OrderInv
<1>5. CASE Loads
  <2>1. \A i \in 1 .. Len(ready') : i + 1 \in 1 .. Len(ready) /\ ready'[i] = ready[i + 1] /\ i \in Int
    BY <1>0, <1>5, TailElems DEF Loads
  <2>2. \A i, k \in 1 .. Len(ready') : i < k => ready'[i] < ready'[k]
    BY <2>1 DEF OrderInv
  <2> QED BY <1>5, <2>1, <2>2 DEF Loads, NobodyNew, OrderInv
<1>6. CASE Stays
  BY <1>6 DEF Stays, NobodyNew, OrderInv
<1> QED BY <1>2, <1>3, <1>4, <1>5, <1>6, Moves

LEMMA PlacedStep == ASSUME IndInv, PlacedInv, [Next]_vars PROVE PlacedInv'
<1>0. queue \in Seq(Jobs) /\ ready \in Seq(Jobs)
  BY DEF IndInv, TypeOK
<1> SUFFICES ASSUME NEW j \in Jobs, state'[j] \in Pending PROVE IsPlaced(j)'
  BY DEF PlacedInv
<1>1. ASSUME NEW k \in Jobs, Submits(k) PROVE IsPlaced(j)'
  <2>1. CASE queue' = queue
    BY <1>1, <2>1 DEF Submits, PlacedInv, IsPlaced
  <2>2. CASE queue' = Append(queue, k)
    <3>1. /\ Len(queue) + 1 \in 1 .. Len(queue') /\ queue'[Len(queue) + 1] = k
          /\ \A i \in 1 .. Len(queue) : i \in 1 .. Len(queue') /\ queue'[i] = queue[i]
      BY <1>0, <2>2, AppendElems
    <3> QED BY <1>1, <3>1 DEF Submits, PlacedInv, IsPlaced
  <2> QED BY <1>1, <2>1, <2>2 DEF Submits
<1>2. CASE Takes
  <2>1. /\ Head(queue) = queue[1]
        /\ \A i \in 1 .. Len(queue) : i = 1 \/ (i - 1 \in 1 .. Len(queue') /\ queue'[i - 1] = queue[i])
    BY <1>0, <1>2 DEF Takes
  <2> QED BY <1>2, <2>1 DEF Takes, PlacedInv, IsPlaced, NoJob, Jobs
<1>3. CASE HandsOn
  <2>1. /\ Len(ready) + 1 \in 1 .. Len(ready') /\ ready'[Len(ready) + 1] = wjob
        /\ \A i \in 1 .. Len(ready) : i \in 1 .. Len(ready') /\ ready'[i] = ready[i]
    BY <1>0, <1>3, AppendElems DEF HandsOn
  <2> QED BY <1>3, <2>1 DEF HandsOn, PlacedInv, IsPlaced
<1>4. CASE Loads
  <2>1. /\ Head(ready) = ready[1]
        /\ \A i \in 1 .. Len(ready) : i = 1 \/ (i - 1 \in 1 .. Len(ready') /\ ready'[i - 1] = ready[i])
    BY <1>0, <1>4 DEF Loads
  <2> QED BY <1>4, <2>1 DEF Loads, NobodyNew, PlacedInv, IsPlaced
<1>5. CASE Stays
  BY <1>5 DEF Stays, NobodyNew, PlacedInv, IsPlaced, NoJob, Jobs
<1> QED BY <1>1, <1>2, <1>3, <1>4, <1>5, Moves

LEMMA ConcatAt ==
  ASSUME NEW S, NEW r \in Seq(S), NEW q \in Seq(S)
  PROVE  /\ r \o q \in Seq(S) /\ Len(r) \in Nat /\ Len(q) \in Nat
         /\ Len(r \o q) = Len(r) + Len(q)
         /\ \A x \in 1 .. Len(r) + Len(q) :
              (r \o q)[x] = IF x <= Len(r) THEN r[x] ELSE q[x - Len(r)]
OBVIOUS

\* Jobs are worked on and loaded in the order of their submission, whatever is
\* cancelled on the way.
THEOREM LoaderOrder == Spec => []SubmissionOrder
<1>1. Init => OrderInv
  BY DEF Init, OrderInv, NoState, NoJob
<1>2. ASSUME IndInv, OrderInv PROVE SubmissionOrder
  <2> DEFINE hand == IF wjob = NoJob THEN <<>> ELSE <<wjob>>
             line == ready \o hand \o queue
  <2>1. ready \in Seq(Jobs) /\ hand \in Seq(Jobs) /\ queue \in Seq(Jobs)
    BY <1>2 DEF IndInv, TypeOK
  <2> SUFFICES ASSUME NEW a \in DOMAIN line, NEW b \in DOMAIN line, a < b PROVE line[a] < line[b]
    BY DEF SubmissionOrder
  <2>2. a \in 1 .. Len(line) /\ b \in 1 .. Len(line) /\ Len(hand) \in {0, 1}
    BY <2>1
  <2> HIDE DEF hand
  <2>3. \A x \in 1 .. Len(line) :
          \/ x \in 1 .. Len(ready) /\ line[x] = ready[x]
          \/ /\ x = Len(ready) + 1 /\ Len(hand) = 1 /\ line[x] = hand[1]
          \/ /\ x - Len(ready) - Len(hand) \in 1 .. Len(queue)
             /\ line[x] = queue[x - Len(ready) - Len(hand)]
    <3>1. /\ ready \o hand \in Seq(Jobs) /\ Len(ready \o hand) = Len(ready) + Len(hand)
          /\ Len(ready) \in Nat /\ Len(hand) \in Nat
          /\ \A x \in 1 .. Len(ready) + Len(hand) :
               (ready \o hand)[x] = IF x <= Len(ready) THEN ready[x] ELSE hand[x - Len(ready)]
      BY <2>1, ConcatAt
    <3>2. /\ Len(line) = Len(ready) + Len(hand) + Len(queue) /\ Len(queue) \in Nat
          /\ \A x \in 1 .. Len(line) :
               line[x] = IF x <= Len(ready) + Len(hand) THEN (ready \o hand)[x]
                         ELSE queue[x - (Len(ready) + Len(hand))]
      BY <2>1, <3>1, ConcatAt
    <3> HIDE DEF line
    <3> TAKE x \in 1 .. Len(line)
    <3>3. CASE x <= Len(ready)
      BY <3>1, <3>2, <3>3
    <3>4. CASE x > Len(ready) /\ x <= Len(ready) + Len(hand)
      <4>1. x = Len(ready) + 1 /\ Len(hand) = 1
        BY <2>2, <3>1, <3>4
      <4>2. line[x] = hand[x - Len(ready)] /\ x - Len(ready) = 1
        BY <3>1, <3>2, <3>4, <4>1
      <4> QED BY <4>1, <4>2
    <3>5. CASE x > Len(ready) + Len(hand)
      <4>1. x - Len(ready) - Len(hand) = x - (Len(ready) + Len(hand))
        BY <3>1
      <4> QED BY <3>1, <3>2, <3>5, <4>1
    <3> QED BY <3>1, <3>3, <3>4, <3>5
  <2>4. Len(hand) = 1 => hand[1] = wjob /\ wjob # NoJob
    BY DEF hand
  <2>5. a \in Int /\ b \in Int /\ Len(ready) \in Nat /\ Len(queue) \in Nat
    BY <2>1, <2>2
  <2> HIDE DEF line
  <2>6. CASE a \in 1 .. Len(ready)
    <3>1. CASE b \in 1 .. Len(ready)
      BY <1>2, <2>3, <2>6, <3>1, <2>2, <2>5 DEF OrderInv
    <3>2. CASE b = Len(ready) + 1 /\ Len(hand) = 1 /\ line[b] = hand[1]
      BY <1>2, <2>3, <2>4, <2>6, <3>2, <2>2, <2>5 DEF OrderInv
    <3>3. CASE /\ b - Len(ready) - Len(hand) \in 1 .. Len(queue)
               /\ line[b] = queue[b - Len(ready) - Len(hand)]
      <4> DEFINE k == b - Len(ready) - Len(hand)
      <4>1. line[a] = ready[a] /\ line[b] = queue[k] /\ k \in 1 .. Len(queue)
        <5>1. a # Len(ready) + 1 /\ ~(a - Len(ready) - Len(hand) \in 1 .. Len(queue))
          BY <2>2, <2>5, <2>6
        <5> QED BY <2>2, <2>3, <3>3, <5>1
      <4> HIDE DEF k
      <4> QED BY <1>2, <2>6, <4>1 DEF OrderInv
    <3> QED BY <2>2, <2>3, <3>1, <3>2, <3>3
  <2>7. CASE a = Len(ready) + 1 /\ Len(hand) = 1 /\ line[a] = hand[1]
    <3>1. /\ b - Len(ready) - Len(hand) \in 1 .. Len(queue)
          /\ line[b] = queue[b - Len(ready) - Len(hand)]
      <4>1. ~(b \in 1 .. Len(ready)) /\ b # Len(ready) + 1
        BY <2>2, <2>5, <2>7
      <4> QED BY <2>2, <2>3, <4>1
    <3>2. wjob < queue[b - Len(ready) - Len(hand)]
      BY <1>2, <2>4, <2>7, <3>1 DEF OrderInv
    <3> QED BY <2>4, <2>7, <3>1, <3>2
  <2>8. CASE /\ a - Len(ready) - Len(hand) \in 1 .. Len(queue)
             /\ line[a] = queue[a - Len(ready) - Len(hand)]
    <3>1. /\ b - Len(ready) - Len(hand) \in 1 .. Len(queue)
          /\ line[b] = queue[b - Len(ready) - Len(hand)]
      <4>1. ~(b \in 1 .. Len(ready)) /\ b # Len(ready) + 1
        BY <2>2, <2>5, <2>8
      <4> QED BY <2>2, <2>3, <4>1
    <3>2. a - Len(ready) - Len(hand) < b - Len(ready) - Len(hand)
      BY <2>2, <2>5
    <3> DEFINE i == a - Len(ready) - Len(hand)
               k == b - Len(ready) - Len(hand)
    <3>3. i \in 1 .. Len(queue) /\ k \in 1 .. Len(queue) /\ i < k
          /\ line[a] = queue[i] /\ line[b] = queue[k]
      BY <2>8, <3>1, <3>2
    <3> HIDE DEF i, k
    <3> QED BY <1>2, <3>3 DEF OrderInv
  <2> QED BY <2>2, <2>3, <2>6, <2>7, <2>8
<1> QED BY <1>1, <1>2, LoaderInvariant, OrderStep, PTL DEF Spec

\* An unfinished job is in m_queue, in the worker's hands or in m_ready, in one
\* of them and once: somebody will move it on.
THEOREM LoaderLosesNothing == Spec => []NothingLost
<1>1. Init => PlacedInv
  BY DEF Init, PlacedInv, Pending, NoState
<1>2. ASSUME IndInv, PlacedInv PROVE NothingLost
  <2> SUFFICES ASSUME NEW j \in Jobs, state[j] \in Pending
               PROVE  /\ j \in mjobs
                      /\ Cardinality({i \in DOMAIN queue : queue[i] = j})
                         + Cardinality({i \in DOMAIN ready : ready[i] = j})
                         + (IF wjob = j THEN 1 ELSE 0) = 1
    BY DEF NothingLost
  <2> DEFINE Q == {i \in DOMAIN queue : queue[i] = j}
             R == {i \in DOMAIN ready : ready[i] = j}
  <2>1. DOMAIN queue = 1 .. Len(queue) /\ DOMAIN ready = 1 .. Len(ready) /\ j \in mjobs
    BY <1>2 DEF IndInv, TypeOK, ListedInv
  <2>2. \/ (\E i : Q = {i}) /\ R = {} /\ wjob # j
        \/ (\E i : R = {i}) /\ Q = {} /\ wjob # j
        \/ Q = {} /\ R = {} /\ wjob = j
    <3>0. QueueInv /\ ReadyInv
      BY <1>2 DEF IndInv
    <3>1. ASSUME NEW i \in 1 .. Len(queue), queue[i] = j PROVE Q = {i} /\ R = {} /\ wjob # j
      BY <2>1, <3>0, <3>1 DEF QueueInv
    <3>2. ASSUME NEW i \in 1 .. Len(ready), ready[i] = j PROVE R = {i} /\ Q = {} /\ wjob # j
      BY <2>1, <3>0, <3>2 DEF QueueInv, ReadyInv
    <3>3. CASE wjob = j
      BY <2>1, <3>0, <3>3 DEF QueueInv, ReadyInv
    <3> QED BY <1>2, <3>1, <3>2, <3>3 DEF PlacedInv, IsPlaced
  <2>3. Cardinality({}) = 0 /\ \A i : Cardinality({i}) = 1
    BY FS_EmptySet, FS_Singleton
  <2> HIDE DEF Q, R
  <2>4. \/ Cardinality(Q) = 1 /\ Cardinality(R) = 0 /\ wjob # j
        \/ Cardinality(R) = 1 /\ Cardinality(Q) = 0 /\ wjob # j
        \/ Cardinality(Q) = 0 /\ Cardinality(R) = 0 /\ wjob = j
    BY <2>2, <2>3, Zenon
  <2>5. Cardinality(Q) + Cardinality(R) + (IF wjob = j THEN 1 ELSE 0) = 1
    BY <2>4
  <2> QED BY <2>1, <2>5 DEF Q, R
<1> QED BY <1>1, <1>2, LoaderInvariant, PlacedStep, PTL DEF Spec

-----------------------------------------------------------------------------
\* A script that sees a resource job done finds the resource in the pool it
\* asked for, under a name that was free; and a frame's update puts nothing into
\* a pool but the resources of jobs that become done.
THEOREM LoaderStoresWhatIsDone == Spec => DoneStoresResource
<1> DEFINE Stored(j) == /\ Key(j) \notin content[req[j].pool]
                        /\ Key(j) \in content'[req[j].pool]
           Becomes(j) == state[j] # "Done" /\ state'[j] = "Done"
           Added == \A p \in PoolIds : \A k \in content'[p] \ content[p] :
                      \E j \in Jobs : /\ state[j] = "Ready" /\ state'[j] = "Done"
                                      /\ req[j].pool = p /\ Key(j) = k
           Good == /\ \A j \in Jobs : IsResource(j) /\ Becomes(j) => Stored(j)
                   /\ mpc = "update" => Added
<1>1. ASSUME IndInv, [Next]_vars
      PROVE  Good
  <2>0. TypeOK /\ CancelInv /\ ReadyInv /\ WorkerInv
    BY <1>1 DEF IndInv
  <2>1. ASSUME \A j \in Jobs : ~Becomes(j), mpc # "update" \/ content' = content
        PROVE  Good
    BY <2>1
  <2>2. CASE \/ \E j \in Jobs : SubmitFileRead(j)
             \/ \E j \in Jobs, t \in ResourceTypes, p \in PoolIds, n \in Names :
                  SubmitResource(j, t, p, n)
    <3>1. mpc # "update"
      BY <2>2 DEF SubmitFileRead, SubmitResource, NewJob, Scripting
    <3>2. \A j \in Jobs : ~Becomes(j)
      BY <2>0, <2>2 DEF TypeOK, SubmitFileRead, SubmitResource, NewJob, Enqueue
    <3> QED BY <2>1, <3>1, <3>2
  <2>3. CASE \/ StopCancelAll \/ (\E j \in Jobs : LuaCancel(j))
             \/ \E p \in PoolIds : DestroyResourcePool(p) \/ ClearPool(p)
    <3>1. ASSUME NEW S, cancel(S) PROVE \A j \in Jobs : ~Becomes(j)
      BY <2>0, <3>1 DEF TypeOK, cancel
    <3>2. mpc # "update" /\ \E S : cancel(S)
      BY <2>3 DEF StopCancelAll, LuaCancel, DestroyResourcePool, ClearPool, cancelPool, cancelAll,
                  Scripting
    <3> QED BY <2>1, <3>1, <3>2
  <2>4. CASE UpdateStep
    <3> DEFINE h == Head(ready)
    <3>1. /\ h \in Jobs /\ state[h] \in {"Ready", "Cancelled"} /\ req' = req
          /\ pools \subseteq PoolIds /\ content \in [PoolIds -> SUBSET Keys]
          /\ state \in [Jobs -> States \cup {NoState}]
      BY <2>0, <2>4, TailElems DEF TypeOK, UpdateStep, UpdateMore, ReadyInv
    <3>2. CASE isFinished(h) \/ isCancelled(h)
      <4>1. content' = content /\ \A j \in Jobs : ~Becomes(j)
        BY <2>4, <3>1, <3>2 DEF UpdateStep, setState, isFinished, isTerminal, Terminal
      <4> QED BY <2>1, <4>1
    <3>3. CASE ~isFinished(h) /\ ~isCancelled(h)
      <4>1. state[h] = "Ready" /\ ~cancelReq[h]
        BY <3>1, <3>3 DEF isFinished, isTerminal, Terminal, isCancelled
      <4>2. PICK ok \in finalize(h) :
              IF ok THEN /\ content' = [content EXCEPT ![req[h].pool] = @ \cup {Key(h)}]
                         /\ finish(h)
                    ELSE fail(h) /\ UNCHANGED content
        BY <2>4, <3>3 DEF UpdateStep
      <4>3. CASE ~ok
        <5>1. content' = content /\ \A j \in Jobs : ~Becomes(j)
          BY <3>1, <4>1, <4>2, <4>3 DEF fail
        <5> QED BY <2>1, <5>1
      <4>4. CASE ok
        <5>1. req[h].pool \in PoolIds /\ Key(h) \notin content[req[h].pool]
          BY <3>1, <4>2, <4>4 DEF finalize
        <5>2. state' = [state EXCEPT ![h] = "Done"]
          BY <4>1, <4>2, <4>4 DEF finish
        <5>3. Stored(h)
          BY <3>1, <4>2, <4>4, <5>1
        <5>4. \A j \in Jobs : Becomes(j) => j = h
          BY <3>1, <5>2
        <5>5. Added
          <6> SUFFICES ASSUME NEW p \in PoolIds, NEW k \in content'[p] \ content[p]
                       PROVE  p = req[h].pool /\ k = Key(h)
            BY <3>1, <4>1, <5>2
          <6> QED BY <3>1, <4>2, <4>4
        <5> QED BY <5>3, <5>4, <5>5
      <4> QED BY <4>3, <4>4
    <3> QED BY <3>2, <3>3
  <2>5. CASE Worker
    <3> USE DEF WorkerInv, jobVars, mainVars, poolVars
    <3>1. content' = content
      BY <2>5 DEF Worker, WorkerWait, WorkerPublished, WorkerEnqueue, WorkerCheck, WorkerStarted,
                  WorkerStart, WorkerPublish, WorkerRead, WorkerLoaded
    <3>2. \A j \in Jobs : IsResource(j) => ~Becomes(j)
      <4>1. CASE WorkerWait \/ WorkerPublished \/ WorkerEnqueue
        BY <4>1 DEF WorkerWait, WorkerPublished, WorkerEnqueue
      <4>2. CASE WorkerStart \/ WorkerPublish
        BY <2>0, <4>2 DEF TypeOK, WorkerStart, WorkerPublish, setState, isTerminal, Terminal
      <4>3. CASE WorkerRead
        BY <2>0, <4>3 DEF TypeOK, WorkerRead, fail
      <4>4. ASSUME NEW next, CancelledOr(next) PROVE \A j \in Jobs : ~Becomes(j)
        BY <2>0, <4>4 DEF TypeOK, CancelledOr, setState, isTerminal, Terminal
      <4>5. CASE WorkerCheck \/ WorkerStarted
        BY <4>4, <4>5 DEF WorkerCheck, WorkerStarted
      <4>6. CASE WorkerLoaded
        <5>1. CASE req[wjob].type = FileRead
          <6>1. ~IsResource(wjob)
            BY <5>1, TypesAssumption DEF IsResource, FileRead, Texture, Sprite
          <6> QED BY <2>0, <4>6, <5>1, <6>1 DEF TypeOK, WorkerLoaded, finish
        <5>2. CASE req[wjob].type # FileRead
          BY <4>4, <4>6, <5>2 DEF WorkerLoaded
        <5> QED BY <5>1, <5>2
      <4> QED BY <2>5, <4>1, <4>2, <4>3, <4>5, <4>6 DEF Worker
    <3> QED BY <3>1, <3>2
  <2>6. CASE \/ \E j \in Jobs : LuaRelease(j) \/ PruneStep(j)
             \/ \E p \in PoolIds, t \in ResourceTypes, n \in Names :
                  LoadNow(p, t, n) \/ RemoveResource(p, t, n)
             \/ CreateResourcePool \/ Notify \/ UpdateBegin \/ UpdateLoopEnd \/ PruneEnd
             \/ StopExit \/ StopNotify \/ StopJoin \/ SpuriousWake \/ UNCHANGED vars
    <3>0. state' = state
      BY <2>6 DEF LuaRelease, PruneStep, LoadNow, RemoveResource, CreateResourcePool, Notify,
         UpdateBegin, UpdateLoopEnd, PruneEnd, StopExit, StopNotify, StopJoin, SpuriousWake, vars,
         jobVars, mainVars, poolVars
    <3>1. mpc # "update" \/ content' = content
      BY <2>6 DEF LuaRelease, PruneStep, LoadNow, RemoveResource, CreateResourcePool, Notify,
         UpdateBegin, UpdateLoopEnd, PruneEnd, StopExit, StopNotify, StopJoin, SpuriousWake, vars,
         jobVars, mainVars, poolVars, Scripting
    <3> QED BY <2>1, <3>0, <3>1
  <2> QED BY <1>1, <2>2, <2>3, <2>4, <2>5, <2>6 DEF Next, Script, Main
<1> DEFINE Step == /\ \A j \in Jobs :
                        IsResource(j) /\ state[j] # "Done" /\ state'[j] = "Done"
                          => /\ Key(j) \notin content[req[j].pool]
                             /\ Key(j) \in content'[req[j].pool]
                   /\ mpc = "update"
                        => \A p \in PoolIds : \A k \in content'[p] \ content[p] :
                             \E j \in Jobs : /\ state[j] = "Ready" /\ state'[j] = "Done"
                                             /\ req[j].pool = p /\ Key(j) = k
<1>2. ASSUME IndInv, [Next]_vars PROVE [Step]_vars
  BY <1>1, <1>2
<1>3. Spec => [][Step]_vars
  <2> HIDE DEF Step
  <2> QED BY <1>2, LoaderInvariant, PTL DEF Spec
<1> QED BY <1>3, PTL DEF DoneStoresResource

-----------------------------------------------------------------------------
(* What the scripts are promised. *)

Outcomes  == [j \in Jobs |-> IF state[j] \in Pending THEN "pending" ELSE state[j]]
Asked     == {j \in Jobs : cancelReq[j]}
Resources == {j \in Jobs : state[j] # NoState /\ IsResource(j)}
Promised  == [Service!Next]_<<Outcomes, Asked, Resources>>

\* A step that moves jobs on without ending one is none for the scripts.
LEMMA GoesOn ==
  ASSUME \A j \in Jobs : \/ state'[j] = state[j]
                         \/ state[j] \in Pending /\ state'[j] \in Pending,
         cancelReq' = cancelReq, req' = req
  PROVE  Promised
<1>1. Outcomes' = Outcomes
  BY DEF Outcomes
<1>2. Asked' = Asked /\ Resources' = Resources
  BY DEF Asked, Resources, IsResource, Pending, NoState
<1> QED BY <1>1, <1>2 DEF Promised

\* cancel, for one job, for those of a pool, or for all.
LEMMA CancelIsPromised ==
  ASSUME TypeOK, NEW S \in SUBSET Jobs, \A j \in S : state[j] # NoState, cancel(S), req' = req
  PROVE  Promised
<1> DEFINE T == {j \in S : state[j] \in {"Queued", "Ready"}}
           P == {j \in S : Outcomes[j] = "pending"}
<1>1. P = {j \in S : state[j] \in Pending} /\ T \in SUBSET P
  BY DEF Outcomes, Pending, TypeOK, States, NoState
<1>2. Asked' = Asked \cup P
  <2>1. \A j \in Jobs : cancelReq'[j] = (cancelReq[j] \/ (j \in S /\ ~isTerminal(state[j])))
    BY DEF cancel
  <2>2. \A j \in S : ~isTerminal(state[j]) <=> state[j] \in Pending
    BY DEF isTerminal, Terminal, Pending, TypeOK, States
  <2> QED BY <1>1, <2>1, <2>2 DEF Asked
<1>3. Outcomes' = [j \in Jobs |-> IF j \in T THEN "Cancelled" ELSE Outcomes[j]]
  <2>1. \A j \in Jobs : state'[j] = IF j \in T THEN "Cancelled" ELSE state[j]
    BY DEF cancel
  <2> QED BY <2>1 DEF Outcomes, Pending
<1>4. Resources' = Resources
  BY CancelNobodyNew DEF Resources, IsResource, NobodyNew
<1>5. Service!Cancel(S)
  <2> HIDE DEF T
  <2> QED BY <1>1, <1>2, <1>3, <1>4 DEF Service!Cancel, Outcomes, Asked, Resources
<1> QED BY <1>5 DEF Promised, Service!Next

\* The end of a job that was pending.
LEMMA EndIsPromised ==
  ASSUME TypeOK, NEW j \in Jobs, state[j] \in Pending, NEW s \in Terminal,
         state' = [state EXCEPT ![j] = s], cancelReq' = cancelReq, req' = req,
         s = "Cancelled" <=> cancelReq[j],
         s = "Done" => \A k \in Jobs : /\ state[k] \in Pending /\ ~cancelReq[k]
                                       /\ (IsResource(k) <=> IsResource(j))
                                       => k >= j
  PROVE  Promised
<1>1. Outcomes' = [Outcomes EXCEPT ![j] = s] /\ Outcomes[j] = "pending"
  BY DEF Outcomes, TypeOK, Terminal, Pending
<1>2. Asked' = Asked /\ Resources' = Resources
  BY DEF Asked, Resources, IsResource, TypeOK, Terminal, Pending, NoState
<1>3. \A k \in Jobs : Service!Kept(k) <=> state[k] \in Pending /\ ~cancelReq[k]
  BY DEF Service!Kept, TypeOK, States, NoState, Pending
<1>4. CASE s = "Cancelled"
  BY <1>1, <1>2, <1>4 DEF Service!Drop, Service!Next, Promised, Outcomes, Asked, Resources
<1>5. CASE s = "Failed"
  BY <1>1, <1>2, <1>3, <1>5
     DEF Service!Fail, Service!Next, Promised, Outcomes, Asked, Resources
<1>6. CASE s = "Done"
  <2>1. \A k \in Jobs : state[k] \in Pending => (k \in Resources <=> IsResource(k))
    BY DEF Resources, Pending, NoState
  <2>2. \A k \in Jobs : Service!Kept(k) /\ (k \in Resources <=> j \in Resources) => k >= j
    BY <1>3, <1>6, <2>1
  <2>3. Service!Kept(j)
    BY <1>3, <1>6
  <2>4. Service!Done(j)
    BY <1>1, <1>2, <1>6, <2>2, <2>3 DEF Service!Done, Outcomes, Asked, Resources
  <2> QED BY <2>4 DEF Service!Next, Promised
<1> QED BY <1>4, <1>5, <1>6 DEF Terminal

LEMMA SubmitIsPromised ==
  ASSUME IndInv, OrderInv, NEW j \in Jobs,
         \/ SubmitFileRead(j)
         \/ \E t \in ResourceTypes, p \in PoolIds, n \in Names : SubmitResource(j, t, p, n)
  PROVE  Promised
<1>0. TypeOK
  BY DEF IndInv
<1>1. /\ state[j] = NoState /\ cancelReq' = cancelReq
      /\ \A k \in 1 .. (j - 1) : state[k] # NoState
      /\ \E r : req' = [req EXCEPT ![j] = r]
      /\ \E s \in {"Queued", "Failed"} : state' = [state EXCEPT ![j] = s]
  BY DEF SubmitFileRead, SubmitResource, NewJob, Enqueue
<1>2. \A k \in Jobs : state[k] = NoState <=> k >= j
  BY <1>1 DEF OrderInv, Jobs
<1>3. \A k \in Jobs : Outcomes[k] = "none" <=> k >= j
  BY <1>0, <1>2 DEF Outcomes, NoState, Pending
<1>4. \E s \in {"pending", "Failed"} : Outcomes' = [Outcomes EXCEPT ![j] = s]
  <2>1. CASE state' = [state EXCEPT ![j] = "Queued"]
    <3>1. Outcomes' = [Outcomes EXCEPT ![j] = "pending"]
      BY <1>0, <2>1 DEF Outcomes, Pending, TypeOK
    <3> QED BY <3>1
  <2>2. CASE state' = [state EXCEPT ![j] = "Failed"]
    <3>1. Outcomes' = [Outcomes EXCEPT ![j] = "Failed"]
      BY <1>0, <2>2 DEF Outcomes, Pending, TypeOK
    <3> QED BY <3>1
  <2> QED BY <1>1, <2>1, <2>2
<1>5. Resources' \in {Resources, Resources \cup {j}}
  <2>1. \A k \in Jobs : k # j => (k \in Resources' <=> k \in Resources)
    BY <1>0, <1>1 DEF Resources, IsResource, TypeOK
  <2>2. j \notin Resources
    BY <1>1 DEF Resources
  <2> QED BY <2>1, <2>2 DEF Resources
<1>6. Asked' = Asked
  BY <1>1 DEF Asked
<1>7. Service!Submit(j)
  BY <1>3, <1>4, <1>5, <1>6 DEF Service!Submit, Outcomes, Asked, Resources
<1> QED BY <1>7 DEF Promised, Service!Next

\* Whoever ends a job comes to it in the order of submission among its kind:
\* what is pending stands behind it, or is cancelled.
LEMMA FirstOfItsKind ==
  ASSUME IndInv, OrderInv, PlacedInv, NEW k \in Jobs, state[k] \in Pending
  PROVE  /\ ready # <<>> /\ IsResource(k) => k >= Head(ready)
         /\ wjob # NoJob /\ ~IsResource(k) => k >= wjob
<1>0. /\ queue \in Seq(Jobs) /\ ready \in Seq(Jobs) /\ wjob \in Jobs \cup {NoJob}
      /\ \A j \in Jobs : j \in Int /\ j # NoJob
  BY DEF IndInv, TypeOK, Jobs, NoJob
<1>1. ready # <<>> => 1 \in 1 .. Len(ready) /\ Head(ready) = ready[1] /\ ready[1] \in Jobs
  BY <1>0
<1>2. CASE \E i \in 1 .. Len(queue) : queue[i] = k
  <2>1. /\ \A i \in 1 .. Len(ready) : ready[i] < k
        /\ wjob # NoJob => wjob < k
    BY <1>2 DEF OrderInv
  <2> QED BY <1>0, <1>1, <2>1
<1>3. CASE \E i \in 1 .. Len(ready) : ready[i] = k
  <2>1. IsResource(k)
    BY <1>3 DEF IndInv, DataInv
  <2>2. ready # <<>> => k = ready[1] \/ ready[1] < k
    <3>1. PICK i \in 1 .. Len(ready) : ready[i] = k
      BY <1>3
    <3> QED BY <1>0, <1>1, <3>1 DEF OrderInv
  <2> QED BY <1>0, <1>1, <2>1, <2>2
<1>4. CASE wjob = k
  <2>1. \A i \in 1 .. Len(ready) : ready[i] < k
    BY <1>0, <1>4 DEF OrderInv
  <2> QED BY <1>0, <1>1, <1>4, <2>1
<1> QED BY <1>2, <1>3, <1>4 DEF PlacedInv, IsPlaced

LEMMA UpdateIsPromised ==
  ASSUME IndInv, OrderInv, PlacedInv, UpdateStep
  PROVE  Promised
<1> DEFINE h == Head(ready)
<1>0. TypeOK /\ CancelInv /\ ReadyInv /\ DataInv
  BY DEF IndInv
<1>1. /\ h \in Jobs /\ state[h] \in {"Ready", "Cancelled"} /\ IsResource(h)
      /\ req' = req /\ cancelReq' = cancelReq
  BY <1>0, TailElems DEF TypeOK, UpdateStep, UpdateMore, ReadyInv, DataInv
<1>2. CASE state[h] = "Cancelled"
  <2>1. state' = state
    BY <1>2 DEF UpdateStep, isFinished, isTerminal, Terminal
  <2> QED BY <1>1, <2>1, GoesOn
<1>3. CASE state[h] = "Ready"
  <2>1. ~cancelReq[h]
    BY <1>0, <1>1, <1>3 DEF CancelInv
  <2>2. \E s \in {"Done", "Failed"} : state' = [state EXCEPT ![h] = s]
    BY <1>3, <2>1 DEF UpdateStep, isFinished, isTerminal, Terminal, isCancelled, finish, fail
  <2>3. \A k \in Jobs : state[k] \in Pending /\ IsResource(k) => k >= h
    BY FirstOfItsKind DEF UpdateStep, UpdateMore
  <2>4. PICK s \in {"Done", "Failed"} : state' = [state EXCEPT ![h] = s]
    BY <2>2
  <2>5. state[h] \in Pending /\ s \in Terminal /\ s # "Cancelled"
    BY <1>3 DEF Pending, Terminal
  <2> HIDE DEF h
  <2> QED BY <1>0, <1>1, <2>1, <2>3, <2>4, <2>5, EndIsPromised
<1> QED BY <1>1, <1>2, <1>3

LEMMA WorkerIsPromised ==
  ASSUME IndInv, OrderInv, PlacedInv, Worker
  PROVE  Promised
<1>0. TypeOK /\ CancelInv /\ WorkerInv /\ DataInv
  BY DEF IndInv
<1>1. req' = req /\ cancelReq' = cancelReq
  BY DEF Worker, WorkerWait, WorkerPublished, WorkerEnqueue, WorkerCheck, WorkerStarted,
         WorkerStart, WorkerPublish, WorkerRead, WorkerLoaded, jobVars
<1>2. ASSUME state' = state PROVE Promised
  BY <1>1, <1>2, GoesOn
<1>3. ASSUME wjob \in Jobs, state[wjob] \in Pending, cancelReq[wjob],
             state' = [state EXCEPT ![wjob] = "Cancelled"]
      PROVE  Promised
  BY <1>0, <1>1, <1>3, EndIsPromised DEF Terminal
<1>4. ASSUME NEW next, wjob \in Jobs, CancelledOr(next) PROVE Promised
  <2>1. CASE state' = state
    BY <1>2, <2>1
  <2>2. CASE state' # state
    <3>1. state' = [state EXCEPT ![wjob] = "Cancelled"] /\ (cancelReq[wjob] \/ state[wjob] = "Cancelled")
      BY <1>4, <2>2 DEF CancelledOr, isCancelled, setState, isTerminal, Terminal
    <3>2. state[wjob] # "Cancelled"
      BY <1>0, <2>2, <3>1 DEF TypeOK
    <3>3. cancelReq[wjob] /\ state[wjob] \in Pending
      BY <1>0, <1>4, <3>1, <3>2 DEF CancelInv, Pending
    <3> QED BY <1>3, <1>4, <3>1, <3>3
  <2> QED BY <2>1, <2>2
<1>5. CASE WorkerWait \/ WorkerPublished \/ WorkerEnqueue
  BY <1>2, <1>5 DEF WorkerWait, WorkerPublished, WorkerEnqueue, jobVars
<1>6. ASSUME wpc # "wait", wpc # "asleep", wpc # "exited" PROVE wjob \in Jobs
  BY <1>0, <1>6 DEF WorkerInv, TypeOK
<1>7. CASE WorkerCheck \/ WorkerStarted
  BY <1>4, <1>6, <1>7 DEF WorkerCheck, WorkerStarted
<1>8. CASE WorkerStart \/ WorkerPublish
  <2>1. wjob \in Jobs /\ state[wjob] \in {"Queued", "Running", "Cancelled"}
    BY <1>0, <1>6, <1>8 DEF WorkerStart, WorkerPublish, WorkerInv
  <2>2. PICK s \in {"Running", "Ready"} :
          state' = [state EXCEPT ![wjob] = IF cancelReq[wjob] THEN "Cancelled" ELSE s]
    BY <1>8 DEF WorkerStart, WorkerPublish, setState, isTerminal, Terminal
  <2>3. CASE ~cancelReq[wjob]
    <3>1. state[wjob] \in Pending
      BY <1>0, <2>1, <2>3 DEF CancelInv, Pending
    <3>2. \A j \in Jobs : state'[j] = state[j] \/ (state[j] \in Pending /\ state'[j] \in Pending)
      BY <1>0, <2>1, <2>2, <2>3, <3>1 DEF TypeOK, Pending
    <3> QED BY <1>1, <3>2, GoesOn
  <2>4. CASE cancelReq[wjob] /\ state[wjob] = "Cancelled"
    BY <1>0, <1>2, <2>1, <2>2, <2>4 DEF TypeOK
  <2>5. CASE cancelReq[wjob] /\ state[wjob] # "Cancelled"
    BY <1>3, <2>1, <2>2, <2>5 DEF Pending
  <2> QED BY <2>3, <2>4, <2>5
<1>9. ASSUME wpc \in {"read", "loaded"}, NEW s \in {"Done", "Failed"},
             state' = [state EXCEPT ![wjob] = IF cancelReq[wjob] THEN "Cancelled" ELSE s],
             s = "Done" => ~IsResource(wjob)
      PROVE  Promised
  <2>1. wjob \in Jobs /\ state[wjob] \in Pending /\ wjob # NoJob
    BY <1>0, <1>6, <1>9 DEF WorkerInv, Pending
  <2>2. \A k \in Jobs : state[k] \in Pending /\ ~IsResource(k) => k >= wjob
    BY <2>1, FirstOfItsKind
  <2>3. CASE cancelReq[wjob]
    BY <1>3, <1>9, <2>1, <2>3
  <2>4. CASE ~cancelReq[wjob]
    BY <1>0, <1>1, <1>9, <2>1, <2>2, <2>4, EndIsPromised DEF Terminal
  <2> QED BY <2>3, <2>4
<1>10. CASE WorkerRead
  BY <1>2, <1>9, <1>10 DEF WorkerRead, fail
<1>11. CASE WorkerLoaded
  <2>1. CASE req[wjob].type = FileRead
    <3>1. ~IsResource(wjob)
      BY <2>1, TypesAssumption DEF IsResource, FileRead, Texture, Sprite
    <3> QED BY <1>9, <1>11, <2>1, <3>1 DEF WorkerLoaded, finish
  <2>2. CASE req[wjob].type # FileRead
    BY <1>4, <1>6, <1>11, <2>2 DEF WorkerLoaded
  <2> QED BY <2>1, <2>2
<1> QED BY <1>5, <1>7, <1>8, <1>10, <1>11 DEF Worker

\* The loader, its worker and all cancellations keep what scripts are promised:
\* every job has one outcome, which stays; of the jobs that read files, and of
\* those that make resources, each is done after the earlier ones have ended or
\* were cancelled; and who cancels a pending job, be it the script, a pool that
\* is cleared or destroyed, or stop, gets no other outcome than Cancelled.
THEOREM LoaderKeepsPromises == Spec => JobServiceSpec
<1>1. Init => OrderInv /\ PlacedInv
  BY DEF Init, OrderInv, PlacedInv, Pending, NoState, NoJob
<1>2. Init => Service!Init
  BY DEF Init, Service!Init, Pending, NoState
<1>3. ASSUME IndInv, OrderInv, PlacedInv, [Next]_vars PROVE Promised
  <2>0. TypeOK /\ ListedInv
    BY <1>3 DEF IndInv
  <2>1. ASSUME NEW S \in SUBSET (mjobs \cup luaRef), cancel(S), req' = req PROVE Promised
    BY <2>0, <2>1, CancelIsPromised DEF TypeOK, ListedInv
  <2>2. CASE \E j \in Jobs : LuaCancel(j)
    BY <2>1, <2>2 DEF LuaCancel
  <2>3. CASE StopCancelAll \/ \E p \in PoolIds : DestroyResourcePool(p) \/ ClearPool(p)
    BY <2>1, <2>3 DEF StopCancelAll, cancelAll, DestroyResourcePool, ClearPool, cancelPool
  <2>4. CASE \/ \E j \in Jobs : LuaRelease(j) \/ PruneStep(j)
             \/ \E p \in PoolIds, t \in ResourceTypes, n \in Names :
                  LoadNow(p, t, n) \/ RemoveResource(p, t, n)
             \/ CreateResourcePool \/ Notify \/ UpdateBegin \/ UpdateLoopEnd \/ PruneEnd
             \/ StopExit \/ StopNotify \/ StopJoin \/ SpuriousWake \/ UNCHANGED vars
    <3>1. state' = state /\ cancelReq' = cancelReq /\ req' = req
      BY <2>4 DEF LuaRelease, PruneStep, LoadNow, RemoveResource, CreateResourcePool, Notify,
         UpdateBegin, UpdateLoopEnd, PruneEnd, StopExit, StopNotify, StopJoin, SpuriousWake, vars,
         jobVars
    <3> QED BY <3>1, GoesOn
  <2>5. CASE \/ \E j \in Jobs : SubmitFileRead(j)
             \/ \E j \in Jobs, t \in ResourceTypes, p \in PoolIds, n \in Names :
                  SubmitResource(j, t, p, n)
    BY <1>3, <2>5, SubmitIsPromised
  <2> QED BY <1>3, <2>2, <2>3, <2>4, <2>5, UpdateIsPromised, WorkerIsPromised
          DEF Next, Script, Main
<1>4. IndInv /\ OrderInv /\ PlacedInv /\ [Next]_vars
        => [Service!Next]_<<Outcomes, Asked, Resources>>
  BY <1>3 DEF Promised
<1> QED BY <1>1, <1>2, <1>4, LoaderInvariant, OrderStep, PlacedStep, PTL
        DEF Spec, JobServiceSpec, Service!Spec, Outcomes, Asked, Resources

-----------------------------------------------------------------------------
(* The worker's sleep *)

\* A worker that waits on m_cv while there is a job for it, or while stop has
\* told it to leave, is about to be notified: the notification that m_mutex is
\* released for is still to come.  And stop never joins a sleeping worker, or
\* one that was not told.
NoLostNotification ==
  /\ wpc = "asleep" => /\ queue # <<>> => mpc = "notify"
                       /\ exit => mpc = "stopNotify"
  /\ mpc \in {"stopNotify", "stopJoin"} => exit
  /\ mpc = "stopJoin" => wpc # "asleep"

\* The script gives the worker something to do only by way of "notify".
LEMMA ScriptNotifies ==
  ASSUME Script
  PROVE  /\ mpc \in {"frame", "stopped"} /\ UNCHANGED <<wpc, exit>>
         /\ \/ queue' = queue /\ mpc' \in {mpc, "stopExit"}
            \/ ~exit /\ mpc' = "notify"
<1>1. ASSUME NEW j \in Jobs, SubmitFileRead(j)
      PROVE  /\ mpc \in {"frame", "stopped"} /\ UNCHANGED <<wpc, exit>>
             /\ (queue' = queue /\ mpc' = mpc) \/ (~exit /\ mpc' = "notify")
  BY <1>1 DEF SubmitFileRead, NewJob, Scripting, Enqueue
<1>2. ASSUME NEW j \in Jobs, NEW t, NEW p, NEW n, SubmitResource(j, t, p, n)
      PROVE  /\ mpc \in {"frame", "stopped"} /\ UNCHANGED <<wpc, exit>>
             /\ (queue' = queue /\ mpc' = mpc) \/ (~exit /\ mpc' = "notify")
  BY <1>2 DEF SubmitResource, NewJob, Scripting, Enqueue
<1>3. ASSUME NEW j \in Jobs, LuaCancel(j) \/ LuaRelease(j)
      PROVE  mpc \in {"frame", "stopped"} /\ UNCHANGED <<wpc, exit, queue, mpc>>
  BY <1>3 DEF LuaCancel, LuaRelease, Scripting, workerVars
<1>4. ASSUME NEW p, DestroyResourcePool(p) \/ ClearPool(p)
      PROVE  mpc = "frame" /\ UNCHANGED <<wpc, exit, queue, mpc>>
  BY <1>4 DEF DestroyResourcePool, ClearPool, workerVars
<1>5. ASSUME NEW p, NEW t, NEW n, LoadNow(p, t, n) \/ RemoveResource(p, t, n)
      PROVE  mpc = "frame" /\ UNCHANGED <<wpc, exit, queue, mpc>>
  BY <1>5 DEF LoadNow, RemoveResource, workerVars
<1>6. CreateResourcePool => mpc = "frame" /\ UNCHANGED <<wpc, exit, queue, mpc>>
  BY DEF CreateResourcePool, workerVars
<1>7. StopCancelAll => mpc = "frame" /\ mpc' = "stopExit" /\ UNCHANGED <<wpc, exit, queue>>
  BY DEF StopCancelAll, workerVars
<1> QED BY <1>1, <1>2, <1>3, <1>4, <1>5, <1>6, <1>7 DEF Script

\* Of the main thread's other steps, stop alone sets m_exit, and a notification
\* leaves nobody asleep.
LEMMA MainNotifies ==
  ASSUME Main
  PROVE  \/ UNCHANGED <<wpc, exit, queue>>
            /\ mpc \notin {"notify", "stopNotify"} /\ mpc' \notin {"stopNotify", "stopJoin"}
         \/ mpc = "stopExit" /\ mpc' = "stopNotify" /\ exit' /\ UNCHANGED <<wpc, queue>>
         \/ /\ mpc \in {"notify", "stopNotify"} /\ wpc' # "asleep" /\ exit' = exit
            /\ mpc' \in {"stopNotify", "stopJoin"} => mpc = "stopNotify"
<1>1. CASE Notify \/ StopNotify
  BY <1>1 DEF Notify, StopNotify, notify_one
<1>2. UpdateBegin \/ UpdateLoopEnd \/ PruneEnd
        => /\ UNCHANGED <<wpc, exit, queue>>
           /\ mpc \notin {"notify", "stopNotify"} /\ mpc' \notin {"stopNotify", "stopJoin"}
  BY DEF UpdateBegin, UpdateLoopEnd, PruneEnd, workerVars
<1>3. UpdateStep
        => /\ UNCHANGED <<wpc, exit, queue>>
           /\ mpc \notin {"notify", "stopNotify"} /\ mpc' \notin {"stopNotify", "stopJoin"}
  BY DEF UpdateStep, workerVars
<1>4. ASSUME NEW j, PruneStep(j)
      PROVE  /\ UNCHANGED <<wpc, exit, queue>>
             /\ mpc \notin {"notify", "stopNotify"} /\ mpc' \notin {"stopNotify", "stopJoin"}
  BY <1>4 DEF PruneStep, workerVars
<1>5. StopExit => mpc = "stopExit" /\ mpc' = "stopNotify" /\ exit' /\ UNCHANGED <<wpc, queue>>
  BY DEF StopExit, workerVars
<1>6. StopJoin => /\ UNCHANGED <<wpc, exit, queue>>
                  /\ mpc \notin {"notify", "stopNotify"} /\ mpc' \notin {"stopNotify", "stopJoin"}
  BY DEF StopJoin, workerVars
<1> QED BY <1>1, <1>2, <1>3, <1>4, <1>5, <1>6 DEF Main

\* The worker looks at m_exit and m_queue under m_mutex before it sleeps.
LEMMA WorkerSleeps ==
  ASSUME Worker
  PROVE  /\ mpc' = mpc /\ exit' = exit /\ wpc # "asleep"
         /\ wpc' = "asleep" => queue = <<>> /\ queue' = queue /\ ~exit
<1>1. CASE WorkerWait
  BY <1>1 DEF WorkerWait, mainVars
<1>2. CASE WorkerCheck \/ WorkerStart \/ WorkerStarted
  BY <1>2 DEF WorkerCheck, WorkerStart, WorkerStarted, CancelledOr, NextJob, mainVars
<1>3. CASE WorkerRead \/ WorkerLoaded
  BY <1>3 DEF WorkerRead, WorkerLoaded, CancelledOr, NextJob, mainVars
<1>4. CASE WorkerPublish \/ WorkerPublished \/ WorkerEnqueue
  BY <1>4 DEF WorkerPublish, WorkerPublished, WorkerEnqueue, NextJob, mainVars
<1> QED BY <1>1, <1>2, <1>3, <1>4 DEF Worker

\* For any number of jobs no notification is lost: the half of "every job
\* finishes" and "stop returns" that is not about fairness.
THEOREM LoaderNotifies == Spec => []NoLostNotification
<1>1. Init => NoLostNotification
  BY DEF Init, NoLostNotification
<1>2. NoLostNotification /\ [Next]_vars => NoLostNotification'
  <2> SUFFICES ASSUME NoLostNotification, [Next]_vars PROVE NoLostNotification'
    OBVIOUS
  <2>1. CASE Script
    <3>1. mpc \in {"frame", "stopped"} /\ wpc' = wpc /\ exit' = exit
      BY <2>1, ScriptNotifies
    <3>2. wpc = "asleep" => queue = <<>> /\ ~exit
      BY <3>1 DEF NoLostNotification
    <3>3. CASE queue' = queue /\ mpc' \in {mpc, "stopExit"}
      BY <3>1, <3>2, <3>3 DEF NoLostNotification
    <3>4. CASE ~exit /\ mpc' = "notify"
      BY <3>1, <3>4 DEF NoLostNotification
    <3> QED BY <2>1, <3>3, <3>4, ScriptNotifies
  <2>2. CASE Main
    BY <2>2, MainNotifies DEF NoLostNotification
  <2>3. CASE Worker
    BY <2>3, WorkerSleeps DEF NoLostNotification
  <2>4. CASE SpuriousWake
    BY <2>4 DEF SpuriousWake, mainVars, NoLostNotification
  <2>5. CASE UNCHANGED vars
    BY <2>5 DEF vars, NoLostNotification
  <2> QED BY <2>1, <2>2, <2>3, <2>4, <2>5 DEF Next
<1> QED BY <1>1, <1>2, PTL DEF Spec
=============================================================================
