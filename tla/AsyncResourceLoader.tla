------------------------ MODULE AsyncResourceLoader ------------------------
(***************************************************************************)
(* The asynchronous resource loader: Lua submits jobs on the main thread,  *)
(* one worker thread reads and decodes files, and the main thread turns    *)
(* finished reads into resources of a pool, at most UpdateMax per frame.   *)
(*                                                                         *)
(* Two threads run.  A step is one critical section: the loader's m_mutex  *)
(* guards m_queue, m_ready, m_jobs, m_history and m_exit; each job's own   *)
(* mutex guards m_state and m_cancel_requested.  cancelAll and             *)
(* cancel(pool) hold m_mutex and take the job mutexes one by one; the      *)
(* worker cannot pop meanwhile and every worker step between two of them   *)
(* touches one job, so it commutes to the front or the back of the loop    *)
(* and the loop is one step.                                               *)
(*                                                                         *)
(* Jobs are numbered in the order of their submission.                     *)
(***************************************************************************)
EXTENDS Integers, Sequences, FiniteSets

CONSTANTS
  MaxJob,       \* bound: number of jobs submitted in a behaviour
  MaxPool,      \* bound: number of pool ids CreateResourcePool hands out
  MaxGen,       \* bound: number of Clear calls on one pool
  Names,        \* resource names
  ResourceTypes,\* request types of resource jobs, out of Texture and Sprite
  UpdateMax,    \* max_count of update (8 in the engine)
  HistoryLimit  \* history_limit of addHistory (128 in the engine)

ASSUME BoundsAssumption == MaxJob \in Nat /\ MaxPool \in Nat /\ MaxGen \in Nat
ASSUME LimitsAssumption == UpdateMax \in Nat \ {0} /\ HistoryLimit \in Nat \ {0}

Jobs    == 1 .. MaxJob
PoolIds == 1 .. MaxPool
NoJob   == 0

\* One request type per way a job runs: a plain file read; a resource the
\* worker reads (Texture, Video, FX, Model, Sound, Music, fonts, particles
\* from a file); one it has nothing to read for (Sprite, Animation).
FileRead == "FileRead"
Texture  == "Texture"
Sprite   == "Sprite"
ASSUME TypesAssumption == ResourceTypes \subseteq {Texture, Sprite}

States   == {"Queued", "Running", "Ready", "Done", "Failed", "Cancelled"}
Terminal == {"Done", "Failed", "Cancelled"}
NoState  == "none"

Requests == [type : {FileRead} \cup ResourceTypes, pool : PoolIds \cup {0},
             gen : Nat, name : Names \cup {""}]
Keys == ResourceTypes \X (Names \cup {""})   \* what a pool's dictionaries are indexed by
NoRequest == [type |-> FileRead, pool |-> 0, gen |-> 0, name |-> ""]

VARIABLES
  \* the jobs
  state,     \* AsyncResourceJob::m_state
  cancelReq, \* AsyncResourceJob::m_cancel_requested
  req,       \* AsyncResourceJob::m_kind and m_request
  data,      \* m_data and what is decoded from it are complete
  luaRef,    \* jobs a Lua handle still refers to
  \* the loader
  mjobs, queue, ready, history, exit,
  \* the worker thread: program counter, local `job`, asleep in m_cv
  wpc, wjob,
  \* the main thread: program counter, `count` and the iterator of update
  mpc, count, cursor,
  \* the resource manager and its pools
  nextPool, pools, gen, content

jobVars    == <<state, cancelReq, req, data>>
workerVars == <<wpc, wjob>>
poolVars   == <<nextPool, pools, gen, content>>
vars == <<state, cancelReq, req, data, luaRef, mjobs, queue, ready, history,
          exit, wpc, wjob, mpc, count, cursor, nextPool, pools, gen, content>>

WorkerPC == {"wait", "asleep", "check", "start", "started", "read", "loaded",
             "publish", "published", "enqueue", "exited"}
MainPC   == {"frame", "notify", "update", "prune", "stopExit", "stopNotify",
             "stopJoin", "stopped"}

Init ==
  /\ state = [j \in Jobs |-> NoState]
  /\ cancelReq = [j \in Jobs |-> FALSE]
  /\ req = [j \in Jobs |-> NoRequest]
  /\ data = [j \in Jobs |-> FALSE]
  /\ luaRef = {}
  /\ mjobs = {} /\ queue = <<>> /\ ready = <<>> /\ history = <<>>
  /\ exit = FALSE
  /\ wpc = "wait" /\ wjob = NoJob
  /\ mpc = "frame" /\ count = 0 /\ cursor = 0
  /\ nextPool = 1 /\ pools = {}
  /\ gen = [p \in PoolIds |-> 0]
  /\ content = [p \in PoolIds |-> {}]

-----------------------------------------------------------------------------
(* AsyncResourceJob: every operator below is one section of the job mutex. *)

IsResource(j) == req[j].type \in ResourceTypes
Key(j) == <<req[j].type, req[j].name>>

isTerminal(s) == s \in Terminal
isFinished(j) == isTerminal(state[j])
isCancelled(j) == cancelReq[j] \/ state[j] = "Cancelled"

\* Mutant of cancel: a job that is ready stays ready.
cancelQueuedOnly(S) ==
  /\ cancelReq' = [j \in Jobs |-> cancelReq[j] \/ (j \in S /\ ~isTerminal(state[j]))]
  /\ state' = [j \in Jobs |-> IF j \in S /\ state[j] = "Queued"
                              THEN "Cancelled" ELSE state[j]]

\* AsyncResourceJob::cancel applied to each job of S.
cancel(S) ==
  /\ cancelReq' = [j \in Jobs |-> cancelReq[j] \/ (j \in S /\ ~isTerminal(state[j]))]
  /\ state' = [j \in Jobs |-> IF j \in S /\ state[j] \in {"Queued", "Ready"}
                              THEN "Cancelled" ELSE state[j]]

\* Mutant of setState: a pending cancellation is overwritten.
setStateAlways(j, s) == state' = [state EXCEPT ![j] = s]

setState(j, s) ==
  state' = [state EXCEPT ![j] =
              IF cancelReq[j] /\ ~isTerminal(s) THEN "Cancelled" ELSE s]

fail(j) ==
  state' = [state EXCEPT ![j] = IF cancelReq[j] THEN "Cancelled" ELSE "Failed"]

finish(j) ==
  state' = [state EXCEPT ![j] = IF cancelReq[j] THEN "Cancelled" ELSE "Done"]

-----------------------------------------------------------------------------
(* The history kept for the debug window. *)

\* The oldest entry makes room.
addHistory(j) ==
  history' = Append(IF Len(history) = HistoryLimit THEN Tail(history) ELSE history, j)

-----------------------------------------------------------------------------
(* Lua on the main thread, between two calls of update (or after stop). *)

Scripting == mpc \in {"frame", "stopped"}

NewJob(j, r) ==
  /\ Scripting
  /\ \A k \in 1 .. (j - 1) : state[k] # NoState   \* numbered by submission
  /\ state[j] = NoState
  /\ req' = [req EXCEPT ![j] = r]
  /\ luaRef' = luaRef \cup {j}

\* Mutant of Enqueue: the newest job is put in front.
EnqueueFront(j) ==
  IF exit
  THEN /\ state' = [state EXCEPT ![j] = "Failed"]
       /\ UNCHANGED <<mjobs, queue, mpc>>
  ELSE /\ state' = [state EXCEPT ![j] = "Queued"]
       /\ mjobs' = mjobs \cup {j}
       /\ queue' = <<j>> \o queue
       /\ mpc' = "notify"

\* The common part of submitFileRead and submitResource: one section of
\* m_mutex, then notify_one after it is released.
Enqueue(j) ==
  IF exit
  THEN /\ state' = [state EXCEPT ![j] = "Failed"]
       /\ UNCHANGED <<mjobs, queue, mpc>>
  ELSE /\ state' = [state EXCEPT ![j] = "Queued"]
       /\ mjobs' = mjobs \cup {j}
       /\ queue' = Append(queue, j)
       /\ mpc' = "notify"

SubmitFileRead(j) ==
  /\ NewJob(j, NoRequest)
  /\ Enqueue(j)
  /\ UNCHANGED <<cursor, cancelReq, data, ready, history, exit, wpc, wjob, count, poolVars>>

\* ResourceMgr::SubmitAsyncResource captures the generation of the pool, or
\* records a failed job when the pool does not exist.
SubmitResource(j, t, p, n) ==
  /\ NewJob(j, [type |-> t, pool |-> p, gen |-> IF p \in pools THEN gen[p] ELSE 0,
                name |-> n])
  /\ IF p \in pools
     THEN Enqueue(j) /\ UNCHANGED history
     ELSE /\ state' = [state EXCEPT ![j] = "Failed"]
          /\ addHistory(j)
          /\ UNCHANGED <<mjobs, queue, mpc>>
  /\ UNCHANGED <<cursor, cancelReq, data, ready, exit, wpc, wjob, count, poolVars>>

\* Mutant of notify_one: the call is missing.
notify_none == wpc' = wpc

\* m_cv.notify_one() wakes the worker if it is waiting, else it is lost.
notify_one == wpc' = IF wpc = "asleep" THEN "wait" ELSE wpc

Notify ==
  /\ mpc = "notify"
  /\ notify_one
  /\ mpc' = "frame"
  /\ UNCHANGED <<cursor, jobVars, luaRef, mjobs, queue, ready, history, exit, wjob, count, poolVars>>

\* job:cancel() in Lua.
LuaCancel(j) ==
  /\ Scripting /\ j \in luaRef
  /\ cancel({j})
  /\ UNCHANGED <<cursor, req, data, luaRef, mjobs, queue, ready, history, exit, workerVars,
                 mpc, count, poolVars>>

\* The garbage collector drops Lua's handle.
LuaRelease(j) ==
  /\ Scripting /\ j \in luaRef
  /\ luaRef' = luaRef \ {j}
  /\ UNCHANGED <<cursor, jobVars, mjobs, queue, ready, history, exit, workerVars, mpc, count,
                 poolVars>>

-----------------------------------------------------------------------------
(* The resource manager's pools, also driven by Lua on the main thread. *)

CreateResourcePool ==
  /\ mpc = "frame" /\ nextPool \in PoolIds
  /\ pools' = pools \cup {nextPool}
  /\ nextPool' = nextPool + 1
  /\ UNCHANGED <<cursor, jobVars, luaRef, mjobs, queue, ready, history, exit, workerVars,
                 mpc, count, gen, content>>

\* Mutant of cancelPool: only what is still in the queue is cancelled.
cancelPoolQueued(p) ==
  cancel({j \in mjobs : IsResource(j) /\ req[j].pool = p /\ state[j] = "Queued"})

\* AsyncResourceLoader::cancel(pool_id): the jobs the loader still lists.
cancelPool(p) == cancel({j \in mjobs : IsResource(j) /\ req[j].pool = p})

DestroyResourcePool(p) ==
  /\ mpc = "frame" /\ p \in pools
  /\ cancelPool(p)
  /\ pools' = pools \ {p}
  /\ content' = [content EXCEPT ![p] = {}]
  /\ UNCHANGED <<cursor, req, data, luaRef, mjobs, queue, ready, history, exit, workerVars,
                 mpc, count, nextPool, gen>>

\* ResourcePool::Clear
ClearPool(p) ==
  /\ mpc = "frame" /\ p \in pools /\ gen[p] < MaxGen
  /\ cancelPool(p)
  /\ gen' = [gen EXCEPT ![p] = @ + 1]
  /\ content' = [content EXCEPT ![p] = {}]
  /\ UNCHANGED <<cursor, req, data, luaRef, mjobs, queue, ready, history, exit, workerVars,
                 mpc, count, nextPool, pools>>

\* A synchronous load (LoadTexture with a path, CreateSprite, ...): a name
\* that is taken is refused.
LoadNow(p, t, n) ==
  /\ mpc = "frame" /\ p \in pools
  /\ <<t, n>> \notin content[p]
  /\ content' = [content EXCEPT ![p] = @ \cup {<<t, n>>}]
  /\ UNCHANGED <<cursor, jobVars, luaRef, mjobs, queue, ready, history, exit, workerVars,
                 mpc, count, nextPool, pools, gen>>

RemoveResource(p, t, n) ==
  /\ mpc = "frame" /\ p \in pools
  /\ <<t, n>> \in content[p]
  /\ content' = [content EXCEPT ![p] = @ \ {<<t, n>>}]
  /\ UNCHANGED <<cursor, jobVars, luaRef, mjobs, queue, ready, history, exit, workerVars,
                 mpc, count, nextPool, pools, gen>>

-----------------------------------------------------------------------------
(* AsyncResourceLoader::update, called once per frame before the script. *)

\* Mutant of finalize: a name that is taken is not refused.
finalizeOverwrites(j) ==
  IF req[j].pool \in pools /\ gen[req[j].pool] = req[j].gen
  THEN BOOLEAN ELSE {FALSE}

\* What finalize may return: the pool must still be there, uncleared and
\* without a resource of that name; then loading can still fail.
finalize(j) ==
  IF /\ req[j].pool \in pools
     /\ gen[req[j].pool] = req[j].gen
     /\ Key(j) \notin content[req[j].pool]
  THEN BOOLEAN ELSE {FALSE}

UpdateBegin ==
  /\ mpc = "frame"
  /\ mpc' = "update" /\ count' = 0
  /\ UNCHANGED <<cursor, jobVars, luaRef, mjobs, queue, ready, history, exit, workerVars, poolVars>>

\* The loop's condition and the break inside it.
UpdateMore == count < UpdateMax /\ ready # <<>>

\* One round of the loop.  Once queued in m_ready a job is the main
\* thread's alone, so the round is one step.
UpdateStep ==
  /\ mpc = "update" /\ UpdateMore
  /\ ready' = Tail(ready)
  /\ LET j == Head(ready) IN
       IF isFinished(j)
       THEN UNCHANGED <<state, content, count>>
       ELSE IF isCancelled(j)
       THEN setState(j, "Cancelled") /\ UNCHANGED <<content, count>>
       ELSE /\ \E ok \in finalize(j) :
                 IF ok
                 THEN /\ content' = [content EXCEPT ![req[j].pool] = @ \cup {Key(j)}]
                      /\ finish(j)
                 ELSE fail(j) /\ UNCHANGED content
            /\ count' = count + 1
  /\ UNCHANGED <<cursor, cancelReq, req, data, luaRef, mjobs, queue, history, exit, workerVars,
                 mpc, nextPool, pools, gen>>

UpdateLoopEnd ==
  /\ mpc = "update" /\ ~UpdateMore
  /\ mpc' = "prune" /\ count' = 0
  /\ UNCHANGED <<cursor, jobVars, luaRef, mjobs, queue, ready, history, exit, workerVars, poolVars>>

\* Mutant of Unreferenced: only Lua's handles are looked at.
UnreferencedByLua(j) == j \notin luaRef

\* use_count() = 1: nobody but m_jobs refers to the job.
Unreferenced(j) ==
  /\ j \notin luaRef
  /\ j # wjob
  /\ \A i \in DOMAIN queue : queue[i] # j
  /\ \A i \in DOMAIN ready : ready[i] # j

\* The loop over m_jobs, in their order, with m_mutex held to its end; the
\* worker drops its reference to a job without the lock.
PruneStep(j) ==
  /\ mpc = "prune" /\ j \in mjobs /\ j > cursor
  /\ \A k \in mjobs : k > cursor => j <= k
  /\ cursor' = j
  /\ IF Unreferenced(j) /\ isFinished(j)
     THEN mjobs' = mjobs \ {j} /\ addHistory(j)
     ELSE UNCHANGED <<mjobs, history>>
  /\ UNCHANGED <<jobVars, luaRef, queue, ready, exit, workerVars, mpc, count, poolVars>>

PruneEnd ==
  /\ mpc = "prune" /\ \A k \in mjobs : k <= cursor
  /\ mpc' = "frame" /\ cursor' = 0
  /\ UNCHANGED <<jobVars, luaRef, mjobs, queue, ready, history, exit, workerVars, count,
                 poolVars>>

-----------------------------------------------------------------------------
(* ResourceMgr::ClearAllResource at shutdown: stop the loader, then drop    *)
(* every pool.                                                              *)

\* Mutant of cancelAll: jobs that wait in m_ready are left alone.
cancelAllButReady == cancel({j \in mjobs : state[j] # "Ready"})

cancelAll == cancel(mjobs)

StopCancelAll ==
  /\ mpc = "frame"
  /\ cancelAll
  /\ mpc' = "stopExit"
  /\ UNCHANGED <<cursor, req, data, luaRef, mjobs, queue, ready, history, exit, workerVars,
                 count, poolVars>>

StopExit ==
  /\ mpc = "stopExit"
  /\ exit' = TRUE
  /\ mpc' = "stopNotify"
  /\ UNCHANGED <<cursor, jobVars, luaRef, mjobs, queue, ready, history, workerVars, count, poolVars>>

StopNotify ==
  /\ mpc = "stopNotify"
  /\ notify_one
  /\ mpc' = "stopJoin"
  /\ UNCHANGED <<cursor, jobVars, luaRef, mjobs, queue, ready, history, exit, wjob, count, poolVars>>

StopJoin ==
  /\ mpc = "stopJoin" /\ wpc = "exited"
  /\ mpc' = "stopped"
  /\ pools' = {}
  /\ content' = [p \in PoolIds |-> {}]
  /\ UNCHANGED <<cursor, jobVars, luaRef, mjobs, queue, ready, history, exit, workerVars, count,
                 nextPool, gen>>

-----------------------------------------------------------------------------
(* The worker thread: workerMain and process. *)

\* Only the pruning loop holds m_mutex over several steps.
mutexFree == mpc # "prune"

mainVars == <<luaRef, mpc, count, cursor, mjobs, history, exit, poolVars>>

\* Mutant of WorkerWait: m_exit is only looked at when the queue is empty,
\* and not before going to sleep.
WorkerWaitQueueOnly ==
  /\ wpc = "wait"
  /\ IF queue = <<>>
     THEN wpc' = "asleep" /\ UNCHANGED <<wjob, queue>>
     ELSE wpc' = "check" /\ wjob' = Head(queue) /\ queue' = Tail(queue)
  /\ UNCHANGED <<jobVars, ready, mainVars>>

\* The predicate of m_cv.wait and, when it holds, the pop.
WorkerWait ==
  /\ wpc = "wait" /\ mutexFree
  /\ IF exit
     THEN wpc' = "exited" /\ UNCHANGED <<wjob, queue>>
     ELSE IF queue = <<>>
     THEN wpc' = "asleep" /\ UNCHANGED <<wjob, queue>>
     ELSE wpc' = "check" /\ wjob' = Head(queue) /\ queue' = Tail(queue)
  /\ UNCHANGED <<jobVars, ready, mainVars>>

\* A condition variable may wake without a notification.
SpuriousWake ==
  /\ wpc = "asleep" /\ wpc' = "wait"
  /\ UNCHANGED <<jobVars, wjob, queue, ready, mainVars>>

\* The end of the loop body: the worker's reference to the job is dropped.
NextJob == wpc' = "wait" /\ wjob' = NoJob

\* isCancelled() then setState(Cancelled); a cancelled job stays cancelled,
\* so the two sections are one step.
CancelledOr(next) ==
  IF isCancelled(wjob)
  THEN setState(wjob, "Cancelled") /\ NextJob
  ELSE wpc' = next /\ UNCHANGED <<wjob, state>>

WorkerCheck ==
  /\ wpc = "check" /\ CancelledOr("start")
  /\ UNCHANGED <<cancelReq, req, data, queue, ready, mainVars>>

WorkerStart ==
  /\ wpc = "start" /\ setState(wjob, "Running") /\ wpc' = "started"
  /\ UNCHANGED <<cancelReq, req, data, wjob, queue, ready, mainVars>>

WorkerStarted ==
  /\ wpc = "started" /\ CancelledOr("read")
  /\ UNCHANGED <<cancelReq, req, data, queue, ready, mainVars>>

\* Mutant of WorkerRead: the result of readFile is not tested.
WorkerReadUnchecked ==
  /\ wpc = "read"
  /\ \/ UNCHANGED data
     \/ data' = [data EXCEPT ![wjob] = TRUE]
  /\ wpc' = "loaded"
  /\ UNCHANGED <<state, wjob, cancelReq, req, queue, ready, mainVars>>

\* Reading and decoding touch fields of the job that no mutex guards.
WorkerRead ==
  /\ wpc = "read"
  /\ IF req[wjob].type = Sprite
     THEN wpc' = "loaded" /\ UNCHANGED <<state, data, wjob>>
     ELSE \/ fail(wjob) /\ NextJob /\ UNCHANGED data
          \/ /\ data' = [data EXCEPT ![wjob] = TRUE]
             /\ wpc' = "loaded" /\ UNCHANGED <<state, wjob>>
  /\ UNCHANGED <<cancelReq, req, queue, ready, mainVars>>

WorkerLoaded ==
  /\ wpc = "loaded"
  /\ IF req[wjob].type = FileRead THEN finish(wjob) /\ NextJob ELSE CancelledOr("publish")
  /\ UNCHANGED <<cancelReq, req, data, queue, ready, mainVars>>

WorkerPublish ==
  /\ wpc = "publish" /\ setState(wjob, "Ready") /\ wpc' = "published"
  /\ UNCHANGED <<cancelReq, req, data, wjob, queue, ready, mainVars>>

\* Mutant of WorkerPublished: the kind test is inverted.
WorkerPublishedDropped ==
  /\ wpc = "published" /\ NextJob
  /\ UNCHANGED <<jobVars, queue, ready, mainVars>>

WorkerPublished ==
  /\ wpc = "published"
  /\ IF state[wjob] = "Ready" THEN wpc' = "enqueue" /\ UNCHANGED wjob ELSE NextJob
  /\ UNCHANGED <<jobVars, queue, ready, mainVars>>

\* queueReady
WorkerEnqueue ==
  /\ wpc = "enqueue" /\ mutexFree
  /\ ready' = Append(ready, wjob)
  /\ NextJob
  /\ UNCHANGED <<jobVars, queue, mainVars>>

-----------------------------------------------------------------------------
Script ==
  \/ \E j \in Jobs :
       \/ SubmitFileRead(j) \/ LuaCancel(j) \/ LuaRelease(j)
       \/ \E t \in ResourceTypes, p \in PoolIds, n \in Names : SubmitResource(j, t, p, n)
  \/ CreateResourcePool
  \/ \E p \in PoolIds :
       \/ DestroyResourcePool(p) \/ ClearPool(p)
       \/ \E t \in ResourceTypes, n \in Names : LoadNow(p, t, n) \/ RemoveResource(p, t, n)
  \/ StopCancelAll

Main == Notify \/ UpdateBegin \/ UpdateStep \/ UpdateLoopEnd \/ (\E j \in Jobs : PruneStep(j)) \/ PruneEnd
        \/ StopExit \/ StopNotify \/ StopJoin

Worker == WorkerWait \/ WorkerCheck \/ WorkerStart \/ WorkerStarted \/ WorkerRead
          \/ WorkerLoaded \/ WorkerPublish \/ WorkerPublished \/ WorkerEnqueue

Next == Script \/ Main \/ Worker \/ SpuriousWake

Spec == Init /\ [][Next]_vars

\* The operating system runs the worker, and the frame loop returns from the
\* script and calls update again.  m_mutex is free for most of every frame, so
\* a worker that wants it gets it although update takes it again and again.
FairSpec == /\ Spec /\ WF_vars(Worker) /\ WF_vars(Main)
            /\ SF_vars(WorkerWait) /\ SF_vars(WorkerEnqueue)

-----------------------------------------------------------------------------
(* Properties *)

Pending == {"Queued", "Running", "Ready"}
InSeq(j, q) == \E i \in DOMAIN q : q[i] = j

\* Types of the loader's, the worker's and the pools' state.
TypeOK ==
  /\ state \in [Jobs -> States \cup {NoState}]
  /\ cancelReq \in [Jobs -> BOOLEAN]
  /\ req \in [Jobs -> Requests]
  /\ data \in [Jobs -> BOOLEAN]
  /\ luaRef \subseteq Jobs /\ mjobs \subseteq Jobs
  /\ queue \in Seq(Jobs) /\ ready \in Seq(Jobs) /\ history \in Seq(Jobs)
  /\ exit \in BOOLEAN
  /\ wpc \in WorkerPC /\ wjob \in Jobs \cup {NoJob}
  /\ mpc \in MainPC /\ count \in 0 .. UpdateMax /\ cursor \in Nat
  /\ nextPool \in Nat /\ pools \subseteq PoolIds
  /\ gen \in [PoolIds -> Nat]
  /\ content \in [PoolIds -> SUBSET Keys]

\* A job a script saw finished (isDone) never changes its outcome, whatever
\* the worker was about to write when the job was cancelled.
TerminalIsFinal ==
  [][\A j \in Jobs : isTerminal(state[j]) => state'[j] = state[j]]_vars

\* Once cancel() returned true the job ends as cancelled: it is never
\* reported done or failed, and never waits in a state update would load.
CancelHonoured ==
  \A j \in Jobs : cancelReq[j] => state[j] \in {"Running", "Cancelled"}

\* A job nobody cancelled still has the pool it was submitted for, with the
\* generation it captured: Destroy and Clear cancel every job they outdate,
\* so the two tests at the top of finalize never fail.
TargetIsFresh ==
  \A j \in Jobs :
    state[j] \in Pending /\ ~cancelReq[j] /\ IsResource(j)
      => req[j].pool \in pools /\ gen[req[j].pool] = req[j].gen

\* A resource job becomes done in the step that stores its resource under a
\* free name of its own pool, and update stores nothing else.
DoneStoresResource ==
  [][/\ \A j \in Jobs :
          IsResource(j) /\ state[j] # "Done" /\ state'[j] = "Done"
            => /\ Key(j) \notin content[req[j].pool]
               /\ Key(j) \in content'[req[j].pool]
     /\ mpc = "update"
          => \A p \in PoolIds : \A k \in content'[p] \ content[p] :
               \E j \in Jobs : /\ state[j] = "Ready" /\ state'[j] = "Done"
                               /\ req[j].pool = p /\ Key(j) = k]_vars

\* Every unfinished job is listed in m_jobs and is in exactly one place from
\* which somebody will move it on: m_queue, the worker's hands, or m_ready.
NothingLost ==
  \A j \in Jobs :
    state[j] \in Pending
      => /\ j \in mjobs
         /\ Cardinality({i \in DOMAIN queue : queue[i] = j})
            + Cardinality({i \in DOMAIN ready : ready[i] = j})
            + (IF wjob = j THEN 1 ELSE 0) = 1

\* The loader's list keeps every job the worker or a queue refers to, so the
\* worker never drops the last reference (a job owns textures and sprites
\* that belong to the main thread).
WorkerNeverDestroys ==
  /\ wjob # NoJob => wjob \in mjobs
  /\ \A j \in Jobs : InSeq(j, queue) \/ InSeq(j, ready) => j \in mjobs

\* What the main thread may look at is complete, and the worker is not
\* writing it: file data of a done read, everything of a job in m_ready.
DataPublished ==
  \A j \in Jobs :
    \/ req[j].type = FileRead /\ state[j] = "Done"
    \/ req[j].type = Texture /\ InSeq(j, ready)
    => data[j] /\ ~(wjob = j /\ wpc = "read")

\* Jobs are worked on and loaded in the order of their submission.
SubmissionOrder ==
  LET line == ready \o (IF wjob = NoJob THEN <<>> ELSE <<wjob>>) \o queue
  IN \A a, b \in DOMAIN line : a < b => line[a] < line[b]

\* After stop() has joined the worker nothing is left unfinished, although
\* jobs were queued, running and ready when it was called.
StopLeavesNothing ==
  mpc = "stopped" => wpc = "exited" /\ \A j \in Jobs : state[j] \notin Pending

\* What scripts see of their jobs, whatever the two threads are doing with them:
\* an outcome that stays, outcomes of one kind in the order of submission, and
\* no outcome but Cancelled for a job that cancel, Clear or stop found pending.
Service == INSTANCE JobService WITH
  outcome   <- [j \in Jobs |-> IF state[j] \in Pending THEN "pending" ELSE state[j]],
  asked     <- {j \in Jobs : cancelReq[j]},
  resources <- {j \in Jobs : state[j] # NoState /\ IsResource(j)}
JobServiceSpec == Service!Spec

\* Every submitted job finishes, and without a call of cancel from the script.
EveryJobFinishes ==
  \A j \in Jobs : (state[j] = "Queued") ~> isTerminal(state[j])

\* stop() returns: the worker, asleep or busy, notices m_exit.
StopReturns == (mpc = "stopExit") ~> (mpc = "stopped")

-----------------------------------------------------------------------------
(* The strengthening that makes the safety properties inductive. *)

\* A request to cancel and the state it leads to agree.
CancelInv ==
  \A j \in Jobs :
    /\ cancelReq[j] => state[j] \in {"Running", "Cancelled"}
    /\ state[j] = "Cancelled" => cancelReq[j]

\* A job waits in at most one place, in a state that fits the place, and is
\* listed in m_jobs.
QueueInv ==
  \A i \in 1 .. Len(queue) :
    /\ queue[i] \in mjobs /\ queue[i] # wjob
    /\ state[queue[i]] \in {"Queued", "Cancelled"}
    /\ \A k \in 1 .. Len(queue) : queue[i] = queue[k] => i = k
    /\ \A k \in 1 .. Len(ready) : queue[i] # ready[k]
ReadyInv ==
  \A i \in 1 .. Len(ready) :
    /\ ready[i] \in mjobs /\ ready[i] # wjob
    /\ state[ready[i]] \in {"Ready", "Cancelled"}
    /\ \A k \in 1 .. Len(ready) : ready[i] = ready[k] => i = k

\* The worker's program counter tells the state of its job.
WorkerInv ==
  /\ wjob = NoJob <=> wpc \in {"wait", "asleep", "exited"}
  /\ wjob # NoJob => wjob \in mjobs
  /\ wpc \in {"check", "start"} => state[wjob] \in {"Queued", "Cancelled"}
  /\ wpc = "started" => state[wjob] \in {"Running", "Cancelled"}
  /\ wpc \in {"read", "loaded", "publish"} => state[wjob] = "Running"
  /\ wpc \in {"published", "enqueue"} => state[wjob] \in {"Ready", "Cancelled"}

\* The worker hands over complete data, and only resource jobs for m_ready.
DataInv ==
  /\ wpc \in {"loaded", "publish", "published", "enqueue"} /\ req[wjob].type # Sprite
       => data[wjob]
  /\ wpc \in {"publish", "published", "enqueue"} => IsResource(wjob)
  /\ \A i \in 1 .. Len(ready) :
       IsResource(ready[i]) /\ (req[ready[i]].type = Texture => data[ready[i]])
  /\ \A j \in Jobs : req[j].type = FileRead /\ state[j] = "Done" => data[j]

\* Only the worker runs a job, an unfinished job is listed, and what is listed
\* or held by Lua was submitted.
ListedInv ==
  \A j \in Jobs :
    /\ state[j] = "Running" => wjob = j
    /\ state[j] \in Pending => j \in mjobs
    /\ j \in mjobs \cup luaRef => state[j] # NoState

\* From cancelAll on nothing unfinished escapes the cancellation.
StopInv ==
  /\ mpc \in {"stopNotify", "stopJoin", "stopped"} => exit
  /\ mpc \in {"stopExit", "stopNotify", "stopJoin", "stopped"}
       => \A j \in Jobs : state[j] \in Pending => cancelReq[j]
  /\ mpc = "stopped" => wpc = "exited"

IndInv == TypeOK /\ CancelInv /\ QueueInv /\ ReadyInv /\ WorkerInv /\ DataInv
          /\ ListedInv /\ StopInv /\ TargetIsFresh
=============================================================================
