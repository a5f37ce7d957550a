# A TLA+ model of LuaSTG Retro

LuaSTG Retro is an engine for bullet-hell games: a C++ program that runs Lua
scripts once per frame. This directory models the parts of it whose
correctness depends on the *order* in which things happen: threads that share
queues, script callbacks that edit the lists a loop is walking over, objects
that are freed and reused. The models are checked with TLC on small instances,
and some results are proved with TLAPS for all sizes. `PROJECT.json` lists
every definition with the source lines it stands for, every run, mutant,
hazard, finding and theorem.

## 1. Inventory

One *main thread* runs the frame loop (`AppFrame::onUpdate`, `onRender`) and
every Lua script. Other threads are the loader's worker, one decoding thread
per music player and per video, one watcher per watched directory, and the
threads of XAudio2 that run voice callbacks. Everything else is sequential, but a batch
operation on game objects hands control to scripts in the middle of its loop,
which is as hard as concurrency.

| Component | State | Operations | Interaction | Hard because | Correct when |
|---|---|---|---|---|---|
| Asynchronous resource loader (`AsyncResourceLoader.cpp`) | three queues of jobs, job states, debug history | submit, cancel, update, stop; worker loop | scripts hold jobs; worker reads files; `ResourceMgr` clears and destroys pools; `AppFrame` calls update each frame | a thread, cancellation and pools that change under a job | no job lost, order kept, cancelled jobs have no effect, stop terminates |
| Game object manager (`GameObjectPool.cpp`, `LuaBinding/modern/GameObject.cpp`) | objects, update list, render set, detect lists, locks, uids, super pause, Lua tables | New, Del, Kill, ResetObject, property writes, ObjFrame, BoundCheck, CollisionCheck, ObjRender, AfterFrame, ResetPool | callbacks run scripts in the middle of walks | lists are edited under the walk; slots are reused | lists exact, walks complete and without repetition, handles never stale |
| Intrusive lists (`GameObjectPool.h`) | first, last, links in the objects | add, remove, clear | detect lists share link fields | a stale link leads into another list | they are sequences |
| `FixedObjectPool` | stack of free ids, used flags | alloc, free, clear | slots of the manager | full pool, double free | ids are given out once |
| Stream audio player (`StreamAudioPlayerXAudio2.cpp`) | state, action queue, voice, two buffers, position, loop | play, pause, resume, stop, setLoop, endpoint change, destructor; worker; OnBufferEnd | engine, XAudio2 and decoding thread | three threads, bounded queue with a timeout, a voice that comes and goes | buffers make their round, the voice follows the state, the destructor returns |
| Resource manager and pools | active pool, four pools, generation | create, destroy, clear, load, find | loader | pools disappear under jobs | lookup order, no stale store |
| Application frame, application model, frame rate controller | initialisation state, message loop, timing | Init, Run, Shutdown, onUpdate, onRender | everything | partial initialisation, nested message loops | shutdown undoes what was set up |
| File system manager, archives | mounted archives, search paths | add, remove, resolve, enumerate | scripts and the loader's worker | enumerators keep a lock | first match wins |
| Video player (`ResourceVideoImpl.cpp`) | clock, state, queue of decoded frames, requests and their serial | play, pause, resume, stop, seek, Update, destructor; worker | engine and decoding thread, Media Foundation | results that arrive after the place they were decoded for is no longer wanted | the picture follows the last request and moves forward, requests are answered, the worker is joined |
| File system watcher (`FileSystemWatcher.cpp`) | changes recorded by Windows, two events, queue | open, read, decode, destructor; worker | Windows and the owner of the queue | overlapped reads, a bounded record of changes | a change is reported unless it was lost in a known way; exit returns |
| Lua hot reload (`LuaHotReload.cpp`) | modules with signatures, pending changes, watched directories | enable, disable, update, reload, shutdown | watcher, `package.loaded`, files | bursts of changes, a file read three times that changes in between | a module runs what its file contains when nothing is on its way |
| Audio engine, sound effect players | listeners, voices | create, destroy, play | XAudio2 | listeners removed while dispatching | no dangling listener |
| Reference counting, weak references, fixed queues | counts | retain, release, lock; push, pop | all | count reaching zero on another thread | freed once |
| Other Lua bindings | none of their own | conversion of arguments | the components behind them | — | out of scope |
| Window, swap chain, renderer, models, text | handles of Win32 and Direct3D | create, resize, draw | frame loop | state lives in the system libraries | not expressible here |
| Bent laser, particles, intersection tests, movement | floating point numbers | update, test | game objects | numeric | not expressible here |
| Configuration, logging, strings, UUID, clipboard, configurer, tools | — | conversions, single calls | — | — | out of scope |

## 2. Modules

| Module | Models |
|---|---|
| `AsyncResourceLoader`, `JobService`, `AsyncResourceLoaderProofs` | the loader, the jobs a script holds, and the pools the jobs target; and what scripts are promised of their jobs |
| `FixedObjectPool`, `IdAllocator` | the pool of object slots and what it promises |
| `GameObjectLinkedList`, `ListSequences`, `GameObjectLinkedListProofs` | the intrusive lists, pointer by pointer, and the sequences they implement |
| `GameObjectStorage`, `GameObjectStorageProofs` | the pool of slots and both families of lists, composed as the manager's calls use them; the proofs about the pool, and about the composition |
| `GameObjectPool`, `MCGameObjectPool`, `GameObjectPoolProofs` | the game object manager with the scripts that run inside its walks |
| `ActionQueue`, `LossyQueue`, `ActionQueueProofs` | the ring between a music player's threads, what it promises, and the proofs about it |
| `StreamAudioPlayer`, `MCStreamAudioPlayer`, `StreamAudioPlayerProofs` | the music player over a `LossyQueue` |
| `ResourceVideo`, `MCResourceVideo`, `ResourceVideoProofs` | the video player and its worker |
| `FileSystemWatcher` | the thread that reads directory changes; it has no specification of its own |
| `LuaHotReload`, `MCLuaHotReload`, `LuaHotReloadProofs` | hot reload, composed with one watcher, the disk and the scripts |

There are four towers. The game object manager uses sequences where the code
has intrusive lists and a free slot where it asks `FixedObjectPool`;
`GameObjectStorage` instantiates the pool once and the list module twice, and
shows that this is justified. The player uses the contract `LossyQueue`, of
which `ActionQueue` is the implementation. `LuaHotReload` extends
`FileSystemWatcher` and runs its worker. The loader and the video stand alone.

### 2.1 AsyncResourceLoader

A step is one critical section or one access to an atomic. The worker's place
in `workerMain` and `process` is `wpc`: it waits (or sleeps) for a job, tests
for cancellation, writes `Running`, tests again, reads, tests, publishes
`Ready`, and enters the ready queue. The main thread's place is `mpc`: between
two steps of the frame it may submit, cancel, drop a job (`LuaRelease`), load
or remove a resource, create, clear or destroy a pool, run `update`
(`UpdateStep` finalizes one job, `PruneStep` looks at one listed job while
`m_mutex` is held), or stop (cancel all, set the flag, notify, join, clear).
Jobs are numbered in order of submission. A request is a file read, a resource
that reads a file (`Texture`) or one that does not (`Sprite`). A pool has a
generation, which `Clear` and destruction raise, and the set of names it
holds. `SpuriousWake` is the condition variable's right to wake up for nothing.

`JobService` is what scripts see of this: outcomes, who was cancelled, and which
jobs make resources. A job that is queued, running or ready is just pending
there. Jobs are done in the order of submission within their kind only: a file
read is done by the worker while an earlier resource waits for `update`.

`finalize` tests that the pool exists and has the job's generation. The proof
of `TargetIsFresh` shows these tests never fail: `Clear` and `Destroy` cancel
the jobs of the pool first. They are a second line of defence.

### 2.2 GameObjectPool

A step is what happens between two points where a script may run. `AfterFrame`
and `ResetPool` run no script and are one step each. A walk keeps its cursor
(`cur`, or `ptrA` and `ptrB`), and `inCb` says that a callback is running; then
every script operation named in `CallbackOps` is possible. `AfterFrame` and
`ResetPool` are among these: the binding refuses neither inside a callback, so
that what a walk stands on may be freed, and its slot be in use again, when the
callback returns. `time` is the copy of the super pause that `ObjFrame` works
with, which a nested `AfterFrame(2)` does not change. Whether a class has
a callback, whether objects touch and whether one is outside is chosen freely
each time. `begun`, `seen` and `again` are history variables of a walk; the
fields `tabA` and `tabB` of a cached pair are history too: the object tables the
two had when they were found.
`Fail` is a Lua error in a callback that the script which called the batch
operation catches: the walk and its locals are gone, while the flags and the
locked pair stay as they were (section 5).

`Ops` and `CallbackOps` say which operations scripts use at all and inside
callbacks. They state the conditions under which a property holds, and the
runs differ in them (section 3).

Abstractions: positions, colliders and statistics are left out; a batch
collision check has at most two group pairs and two hits; walks are not begun
inside the callback of another walk; uids stop at `MaxUid` before the modulus at
2^48 - 1. `ResetObject` on the object being rendered, or freeing it, erases the
tree node the loop stands on: the cursor becomes any object or none. `ResetPool`
in a callback of `BoundCheck(2)` or `CollisionCheck{...}` releases the memory the
loop iterates over: the loop finds it as it was, or the model stops. An object left by a `New` with a bad
class has no object table; when it is freed the code writes into nil and the
model stops in phase `crashed`.

### 2.3 ActionQueue and StreamAudioPlayer

`ActionQueue` has one step per operation on shared memory: acquire a place,
reserve an index, write, announce; test the exit flag, acquire an action, copy,
give the place back. Both waits have the timeout of one second, which may fire
whenever the semaphore is empty.

`StreamAudioPlayer` has the engine's thread (`epc`, and `todo`, the actions
it still has to send), XAudio2's thread (`acb`, the callback that is running)
and the decoding thread (`wpc`). Only `destroy` keeps `m_voice_lock` over more
than one step, while `DestroyVoice` waits for the callback. The voice is
external: it plays its buffers in order, reports flushed buffers as ended, runs
one callback at a time and starts none while it is being destroyed. The decoder
refuses positions behind the end and reads all or fails. `parked`, `missed`
and `reopened` are history: buffers nobody will announce again, a command that
was lost, and that the endpoint was changed.

### 2.4 GameObjectStorage

A call of the manager that writes a link field twice is split there: allocation
is `Allocate`, `Reset` (which writes the links of both families) and `Insert`;
a change of group leaves one list and enters another; `DirtResetObject` leaves
both lists and goes through `Insert`. `freeWithCallbacks` is one step, and
returns the successor `ResetPool` goes on with. `pc` is the place in the call
and `object` the object it works on. `where` and `ret` of a list are history:
the list an object is in, and what `remove` returned. The last object of a
`clear` is not touched by the code beyond its links; `m_first` and `m_last` of
the lists are not written at all. That `ResetPool` nevertheless leaves all ends
null (`ResetPoolRestores`) holds because it frees every object first.

### 2.5 ResourceVideo

`pc` is the engine thread's place in a call: `Play`, `Stop` and `Update` enter
the mutex more than once, and the worker runs in between. `worker` is the
worker's place in its loop: it waits or sleeps, seeks and decodes or decodes on
without the lock, and publishes. `m_worker_serial` counts requests; a task and
a result carry the serial they were made for. The decoder is external: `seek`
goes to the last key frame before the time or fails, `readFrame` yields the next
frame, the end, or an error. `decoder.serial` and a frame's serial are history:
which request put the decoder where it read that frame. Time is counted in
frames, frame *i* having timestamp *i*.

### 2.6 FileSystemWatcher and LuaHotReload

Windows (`Changed`, `Complete`) records changes from the first read on and gives
all of them to the pending read; when there are more than fit it forgets them
all and completes the read with nothing. The worker asks for a read, waits for
the exit event or the end of the read, and decodes one record per step. Any read
may fail, and then the worker ends without telling anybody.

`LuaHotReload` adds the disk (`file`: the content of each module), Lua (`loaded`,
and `active`: what each module was made from), the manager's `m_modules`
(`tracked`, `enabled`, `sig`, `state`) and `m_pending`, and the engine's thread
(`pc`): an update collects changes, looks at each file that has rested
(`processChange`), and reloads in two reads, one for the signature
(`ReloadSigns`) and one to run the code (`stageAndCommit`); a third read is the
one of `processChange`. `Closed` is the return of the destructor that waits for
the worker. `stale` is history: a change of this module went unnoticed, for one
of the reasons named at `RestsMeansCurrent`. Every action that may lose a change
states which ones it loses, and nothing else sets `stale`.

Abstractions: one watched directory; staged code is one step that calls nothing
of the engine; patching the new table into the old one is a change of content;
`applied` and `rejected` are states no code asks for and count as `idle`.

## 3. Runs

All bounds appear as constants in the `.cfg` files.

| Run | Bounds | Shows |
|---|---|---|
| `async_loader` | 2 jobs, 2 pools of up to 2 generations, 1 name; one finalized per frame, history of 1 | no job falls between the three queues (`NothingLost`); jobs are served in order; stop leaves none unfinished; cancellation is honoured at every point of the worker; a resource is stored only in the pool and generation it was meant for, in the step that makes its job done and under a name that was free (`DoneStoresResource`); the worker never holds the last reference; `m_data` is read only after it was published; the whole refines `JobService` |
| `async_live` | 2 jobs, 1 pool | every job finishes, stop returns |
| `object_lists` | 2 slots, 4 uids; create (also with a bad class), delete, revive, reset, re-group and free (`AfterFrame`, `ResetPool`), in callbacks too, which may fail | the update list, the render set and the detect lists hold exactly what they should, each once and in uid order (`ListsExact`); a handle never points at a reused slot; what `BoundCheck(2)` and `CollisionCheck{...}` cached is called for only if it is still the object that was found, although callbacks may have freed it and given its slot to another (`CallsWhatItFound`) |
| `object_walks` | 3 slots, 2 groups, 2 layers; callbacks create, delete, revive, re-layer | each walk that calls while it looks (`ObjFrame`, `BoundCheck`, `CollisionCheck(g1, g2)`, `ObjRender`) meets everything that was there exactly once (`WalkIsExact`; the calls from a cache are the matter of `object_lists`); collision callbacks get objects of the groups asked for |
| `object_pause` | 2 slots, pauses up to 2, callbacks may fail | deleted objects are freed once the pause is not extended |
| `storage` | 3 slots, 2 groups | pool and both families of lists agree after every call; refines `IdAllocator` and, twice, `ListSequences`; `ResetPool` restores the first state |
| `action_queue` | 1 sender, 3 places, 8 sends (more than two rounds) | refines `LossyQueue`; senders return although the receiver is gone and announced actions are received (`QueueMovesOn`) |
| `stream_player` | 3 calls, queue of 3, music of 3 units, buffers of 2 | see below |
| `video` | 3 frames of which 2 are key frames, length known or not, queue of 2, 2 requests, seeks before the start, inside and behind the end | see below |
| `hot_reload` | 1 module and 1 other file, 2 records, 2 good contents and 1 bad one, 2 writes | see below |
| `group_moves_walk` | violation | see section 5 |
| `action_queue_race` | violation | see section 5 |

Two slots suffice for reuse (one is freed and given out while the other is
walked); a third is needed for a walk to lose an object between its cursor and
the end. Two jobs give one that is finished or ready while
the other is queued, read or cancelled, which is what order, loss and limits of
a frame are about; the proofs cover any number. A queue of three places holds exactly what `create` sends, so that one late
callback overflows it. Two calls before an endpoint change are enough to have
the player looping or playing when it happens.

Three frames with a key frame in the middle give a seek that lands before, on
and behind what is queued, and a queue of two is full while a third frame is
decoded. Two writes give a change while an earlier one is decoded, pending or
staged; two records are the least that overflow, and the least for a name to run
into the next record.

`stream_player`: until the endpoint is changed, a buffer is in one place at a
time (`BuffersAccounted`) and what the voice has queued is contiguous
(`HeldIsContiguous`); when all commands are carried out and none was lost, the
voice runs exactly if `getState` says playing, endpoint changes included
(`StateFollowsVoice`); the destructor returns and leaves no thread behind
(`DestructorReturns`); music none of whose buffers was given up goes on
(`PlayingGoesOn`).

`video`: frames, ends and errors that come late are never taken for answers to
the last request (`NothingStale`); from the frame on the screen to the one the
decoder reads next nothing is missing or doubled (`NoFrameSkipped`), and the
picture never moves back within a request or to an earlier one
(`PictureMovesForward`); a worker that sleeps has nothing to do, although
`Pause` and the updates of a still video do not notify it (`NoLostWakeup`);
every request is answered on the screen (`SeekIsShown`); a video that does not
loop plays to its end (`PlaysToItsEnd`); the destructor returns.

`hot_reload`: when no change of a module is recorded, queued, pending or being
worked on, the module runs what its file contains, unless staging rejected it or
the change was lost in a named way (`RestsMeansCurrent`); a recorded change is
dealt with (`ChangesAreHandled`); turning hot reload off returns
(`DisableReturns`).

Deadlock checking is off where the system may rest: a stopped loader, a queue
whose senders have made their calls, a player or a video that was destroyed, hot
reload that is off, and (in
`object_lists`) the crash after a bad `New` or a `ResetPool` under a cache, or uids
that are used up.

Symmetry is used for the slots in the runs without liveness; slots are never
compared or ordered, so permutations are sound.

### Fairness

- Loader: weak fairness for the worker and for the frame loop in progress: the
  operating system schedules both, and `AppFrame` calls update every frame.
  Strong fairness for the worker's two acquisitions of `m_mutex`, which the
  main thread takes again and again but always releases.
- Game objects: scripts return from callbacks or fail (weak, on `Walk`), and the frame
  function calls `AfterFrame(2)` again and again (strong, since other calls come
  in between). A script that never returns hangs the engine; nothing is claimed
  about it.
- Queue and player: weak fairness per thread. Nobody is obliged to call.
- Video: weak fairness for the worker, for an engine call in progress and for
  `Update`, which the frame loop calls for every video; strong fairness for an
  `Update` with a positive delta, because frames take time but not every frame
  is measured to. Nobody is obliged to call or to destroy.
- Hot reload: weak fairness for the watcher's thread and for a reload in
  progress; strong fairness for the update at the start of a frame, since
  scripts call other things in between, and for the 150 ms a file has to rest,
  since further changes start them anew. Nobody has to change a file.

## 4. Proofs

Every theorem holds for all values of the constants that satisfy the named
`ASSUME`s: sizes are natural numbers, sets are finite where they are counted,
null is no object, `Exit` is no value that is sent, and so on. The assumptions a
single theorem adds are in its statement.

| Theorems | Statement | Argument |
|---|---|---|
| `AsyncResourceLoaderProofs!LoaderTypes`, `LoaderCancel`, `LoaderTarget`, `LoaderLifetime`, `LoaderData`, `LoaderStop`, `LoaderOutcome` | the loader's types, `CancelHonoured`, `TargetIsFresh`, `WorkerNeverDestroys`, `DataPublished`, `StopLeavesNothing`, `TerminalIsFinal` | `IndInv` (`LoaderInvariant`): types, and what holds of cancellation, queues, the ready queue, the worker's job, its data, listed jobs and shutdown at each place of the worker. The parts need each other: that cancellation is honoured needs to know which jobs the worker can still touch, and that a target is fresh needs that clearing a pool cancels every job that is not finished. `TerminalIsFinal`, that a finished job keeps its outcome, is in no run of its own: `JobServiceSpec` contains it |
| `LoaderOrder`, `LoaderLosesNothing`, `LoaderStoresWhatIsDone` | `SubmissionOrder`, `NothingLost`, `DoneStoresResource` | on top of `IndInv`: `OrderInv`, that queue, worker's job and ready queue together are increasing, and `PlacedInv`, that every unfinished job is in one of them |
| `LoaderKeepsPromises` | `JobServiceSpec`, the refinement of `JobService`, for any number of jobs, pools and names | step by step under the three invariants: a step ends at most one job, unless it is a `cancel`; and whoever ends one, `update` at the head of `m_ready` or the worker with a file read, has no uncancelled job of that kind before it (`FirstOfItsKind`): such a job would be in one of the three places (`PlacedInv`), and they are in order (`OrderInv`) |
| `LoaderNotifies` | `NoLostNotification`: a worker that sleeps although a job is queued, or although it was told to leave, is about to be notified by the engine's thread; `stop` joins no worker that sleeps or was not told | inductive with `IndInv`: the worker goes to sleep only where it has just found the queue empty and `exit` unset under `m_mutex`, and whoever changes either goes to its notification next |
| `GameObjectStorageProofs!PoolInvariant` | the first `m_free_count` entries of the stack are the unused ids, each once, under double and foreign frees too | inductive as stated together with the types |
| `GameObjectStorageProofs!PoolImplementsAllocator` | refinement of `IdAllocator` | step simulation under the invariant: the popped id is unused, and an empty stack means all are used |
| `GameObjectLinkedListProofs!LinksStayExact` | links agree in both directions and an object outside all lists has none, for any set of lists and objects | inductive with the types |
| `GameObjectLinkedListProofs!ListsAreSequences` | the lists refine `ListSequences` for any finite set of objects | `SeqInv`: what one meets along the `next` links of a list is a sequence of distinct objects, and they are the list's members. `ChainIs` carries it: a walk along links that thread a sequence of distinct objects returns that sequence, since a sequence longer than the number of objects would repeat one. From it, `add` appends (its only new link leaves the last object) and `remove` closes one gap |
| `GameObjectStorageProofs!StorageStaysInAgreement`, `StorageKeepsPool`, `ResetPoolStartsOver` | `StorageAgrees`, `StackIsFreeIds`, `ResetPoolRestores` for any number of slots and groups | `StorageInv`: the pool's invariant, the list invariant of each family (the lemmas of `GameObjectLinkedListProofs` are used through its two instances), and membership at each place of a call |
| `GameObjectStorageProofs!StorageIsSequences` | `SequencesSpec`: both families refine `ListSequences` under the manager's calls, for any number of slots and groups | `StorageIsLists`: under `StorageInv` every step of the manager is, for each family, a step of `GameObjectLinkedList` or changes nothing in it. `Reset` writes links that are null already, and `resetGameObjectLists` meets empty lists. The rest is `ListsAreSequences` |
| `GameObjectPoolProofs!HandlesStayFresh` | an object table points at the object it was made for or at nothing, for any pool and any script | strengthened with: every table is named by a uid below `iUid`, so that a new object never takes a name in use |
| `ListsStayExact`, `CallbackSeesItsGroups` | `ListsExact`, whatever callbacks do, freeing included; `TriggerInGroups` provided that callbacks do not move objects to other groups and do not call `AfterFrame` or `ResetPool` | `ListInv`: handles, the lists counted by position with each object once (`PoolInv`), and what a walk has in its hands (`PlaceInv`): slots, which are objects in use as long as callbacks free nothing; a pair left behind by an error comes with a set `m_is_detecting_intersect`. `GroupInv` adds the groups of the saved pair. Leaving a list is described by ranks, the number of kept positions up to a place, since a proof cannot use induction over sequences |
| `BatchCallsWhatItFound` | `CallsWhatItFound`, for any pool and whatever callbacks do, freeing everything and using the slots again included | `CacheInv`: each cached object has a uid that was given out, and as long as its slot has that uid the slot has the table it had, or is freed and has none. It is kept because a step that gives a slot to a new object, or resets it, gives it a uid never used before (`StillThereStep`). So the comparison of the uids, with the callbacks a freed object has no more, lets no other object through |
| `WalksNeverDangle` | `WalksStandOnLive`: where the update, bound and render walks read the object they stand on it is in use, even if the callback before freed it; and if callbacks call neither `AfterFrame` nor `ResetPool`, so is whatever a walk stands on, goes on to, has cached or has locked | `ListInv`, and `StandInv` for the cursors of the update and render walks: the next object is taken from a list all of whose members are in use, and a freed object has no successor. The tree node under the render walk, which is no object, is not covered; nor do both loops of `CollisionCheck(g1, g2)` keep to objects in use when callbacks free: they go on from what they saved |
| `PoolNeverCrashes`, `FlagsAreReset` | `AfterFrame` and `ResetPool` never meet an object without a table, and nothing crashes, provided that no script calls `lstg._New` with what is no class and no callback calls `ResetPool`; `FlagsFollowWalk`: `m_is_detecting_intersect`, the locked pair and `m_is_rendering` are set exactly while their walk runs (as long as nothing crashed), provided that callbacks raise no errors | every live object has a table (`TablesInv`). The conditions are needed: the error that `_New` raises after it took a slot leaves an object without a table, and an error in a collision callback leaves the flag set |
| `GameObjectPoolProofs!WalksAreExact` | `WalkIsExact`, provided that callbacks do not reset objects, move them to other groups, change nopause or free objects (`CallbacksLeavePlaces`; the operations of `object_walks` satisfy it) | `SightInv` for the three walks over single objects and `PairInv` for `CollisionCheck`: what was seen lies behind the cursor, what was there and was not seen lies at it or in front of it, in the order of the walk. The order is the one of the list for updates, bounds and pairs and the one of the render set for `ObjRender`; it survives callbacks because new objects enter at the end, deleted ones stay in the lists until `AfterFrame`, and layers are fixed while rendering. Each excluded operation breaks it: `ResetObject` moves an object to the end, so that it is seen twice or the walk ends early; a change of group takes the pair walk into another list; nopause decides whether `ObjFrame` skips an object; a freed object has no successor for the walk to go on to |
| `ActionQueueProofs!PlacesStayAccounted` | places are counted once, the writer is at most a round ahead, for any number of senders | strengthened with how far the writer is ahead: placed, announced and claimed actions; sets of senders grow and shrink by one |
| `ActionQueueProofs!RingIsAQueue` | with one sender the ring refines `LossyQueue`, for any size | `OneInv`: the sender's place is the last one reserved and holds its action once written; indices less than a round apart are different places, so it meets none that is announced. With two senders it does not hold (section 5) |
| `ResourceVideoProofs!VideoInvariant`, `VideoTypes`, `VideoNeverStale` | `NothingStale` for any video, queue and sequence of calls | `VideoInv`: until the worker takes a request all it does belongs to an earlier one and the queue is empty (`RequestInv`); what a result may be at each place of the worker (`TaskInv`) |
| `VideoSkipsNothing`, `VideoMovesForward`, `VideoWakesItsWorker` | `NoFrameSkipped`, `PictureMovesForward`, `NoLostWakeup` | `PipeInv` states the distance between any two places on the way from the decoder to the screen; `WakeInv` what a sleeping worker knows while a call is between two regions of the mutex |
| `NobodyOutlivesVideo`, `VideoJoinsAwakeWorker` | `NothingAfterGone`: no step once the destructor has returned; `JoinsAwakeWorker`: the worker it joins was told to leave and does not sleep | `LeaveInv`: the exit flag is set exactly from the destructor on, a worker leaves only when it is set, and the destructor returns only when the worker has left; `WakeInv` for the sleep |
| `LuaHotReloadProofs!HotReloadStaysCurrent` | `RestsMeansCurrent` for any number of modules, contents and records | `HotInv`: types, the watcher's places, what the engine's thread works on, and (`Settled`) that a module's signature is that of what runs or of what staging rejected, and between the two reads of a reload that of its file: this is why a file that has the signature may be left alone |
| `HotReloadOffIsOff`, `HotReloadClosingIsTold` | `OffIsOff`: when hot reload is off and the call that turned it off has returned, no thread watches, no change is recorded, reported or pending, and neither an update nor an automatic reload goes on; `ClosingIsTold`: that call waits only for a thread whose exit event is set | `SwitchInv`: a directory without a watcher has nothing recorded or queued (`DeafInv`), and the parts that are on are on because the switch is (`OffInv`) |
| `StreamAudioPlayerProofs!PlayerTypeCorrect`, `EveryBufferAccounted` | the player's types; `BuffersAccounted` for any music, queue and calls | `PlayerInv`: types, what the engine's and the decoding thread know of each other at each place (`EngineInv`), the count itself (`OnePlaceEach`), and the two below. Counting is by lemmas about how often a value is in a sequence: concatenation adds, `Append`, `Head` and `Tail` move one, a full queue drops one, which is then `parked` |
| `HeldContiguous` | `HeldIsContiguous` | `HeldInv` adds the decoder's side: the buffer it is about to submit follows the last one the voice holds, and otherwise the position goes on where that one ends, or is behind the end of the music. It needs the count: a buffer in the decoder's hands is not held by the voice, so that writing it changes no neighbour |
| `StateIsTheVoices` | `StateFollowsVoice`, endpoint changes included | `StateInv`: the last voice command on its way, in `todo`, else in the queue, else in the decoder's hands, is the one that leads to `m_state`; when there is none, the voice is there already. That no command was lost (`missed`) is part of the statement |
| `NobodyOutlivesPlayer`, `DecoderWritesAlone` | `NothingAfterGone`: no step of the decoding thread or of the voice once the destructor has returned; `DecoderAvoidsVoice`: until the endpoint is changed, the decoding thread writes only a buffer the voice neither holds, plays nor reports | `VoiceIsGone` with `EngineInv`; the second from the count of `EveryBufferAccounted`: the buffer in the decoder's hands is nowhere else |

Only model-checked: everything about fairness (`EveryJobFinishes`,
`StopReturns`, `DeadIsFreed`, `QueueMovesOn`, `DestructorReturns`,
`PlayingGoesOn`, `SeekIsShown`, `PlaysToItsEnd`, `ChangesAreHandled`,
`DisableReturns`), which the proof system does not reach, and what the two runs
that expect a violation refute. Every invariant, action property and refinement
that holds in a run is a theorem.

The theorems that state no property of a run (`LoaderNotifies`,
`NobodyOutlivesPlayer`, `NobodyOutlivesVideo`, `VideoJoinsAwakeWorker`,
`HotReloadClosingIsTold` and others) are mostly the safety halves of those
liveness properties: what fairness is owed is a step that is there, and these
say that it is: no notification is lost, no thread is joined that sleeps or was
not told to leave, and nobody is left who uses what is gone. Their definitions
are in the proof modules; before they were proved TLC confirmed them on the
instances of the runs.

Induction on numbers is done by least counterexample: the smallest number for
which a claim fails (`SmallestNumber`, from the well-foundedness of < on `Nat`)
is refuted. This replaces the induction theorems, which the provers cannot
instantiate, where links are followed step by step.

## 5. Where the code and its comments disagree

- `group_moves_walk`: the message in the binding says that a group should not
  be modified in `CollisionCheck`, but only the pair of the running callback is
  refused. `detectIntersectionLegacy` has saved the next object; when the
  callback moves that one to another group, the walk goes on in the other list
  and calls back for objects of a group nobody asked for.
- `action_queue_race`: the comments of `ActionQueue` allow
  `notifyBufferAvailable` on any thread. It calls `sendAction`, which reserves
  a place and writes it later. With two senders the second may announce while
  the first has not written, and the decoding thread copies a zeroed action,
  whose type is `exit`: it ends, and the player is silent from then on. This
  needs the engine to send a command in the few instructions in which a buffer
  ends.

Limits of passing runs that come from the code, not from the model:

- With `ResetObject` in callbacks a walk is not complete: the object the walk
  stands on moves to the end of the list, and the walk ends there. The object
  also gets a new uid (a comment in `GameObjectPool.h` says it keeps it), and
  the binding does not keep it from the locked pair, which an assertion forbids.
  `object_walks` therefore leaves `Reset` out of its operations.
- When a collision callback fails and the script that called `CollisionCheck`
  catches the error, nothing resets `m_is_detecting_intersect`, `ResetPool`
  included: every later `CollisionCheck` is refused. The pair stays locked until
  `ResetPool`, also for objects that get its slots later. When a render callback
  fails, layer changes are refused until the next `ObjRender` has ended.
- Nothing keeps a callback from calling `AfterFrame` or `ResetPool`. When it frees
  the object it was called for, `ObjFrame` and `BoundCheck` end there, since a
  freed object has no successor (or go on behind the new object that has the slot,
  at the end of the list), and `CollisionCheck(g1, g2)` goes on with the objects it
  had saved. `ResetPool` also releases the memory in which
  `BoundCheck(2)` and `CollisionCheck{...}` keep what they found.
  `object_walks` therefore leaves both out of callbacks, `object_lists` has them.
- After an endpoint change a buffer can be announced twice: once by the old
  voice, still in the queue, and once by `create`. The decoder then writes into
  a buffer the new voice plays. `BuffersAccounted` and `HeldIsContiguous` are
  claimed up to the first change.
- At the end of music that does not loop each buffer is dropped, and a later
  `play` only brings back buffers the voice holds. Music that has ended cannot
  be started again without an endpoint change. `PlayingGoesOn` is claimed for
  music none of whose buffers was dropped.
- A command that finds the queue full for a second is lost although the call
  returns true, and `getState` differs from the voice until the next command.
- A script that calls `Play` on every frame withdraws a decoding error before
  `Update` sees it; `PlaysToItsEnd` counts an error as an answer.
- Hot reload misses a change, and the module keeps running old code, when
  Windows recorded more than the watcher's buffer holds (it answers with zero
  bytes, which the worker takes for nothing); when the name in a record is
  directly followed by the next record, since the worker reads the name up to
  the next zero; when a read fails, after which the worker is gone; and when a
  file is changed back to the content its entry has the signature of, although
  another one runs: that happens when the first change fell between the read for
  the signature and the one that is run, or when the module was required again
  in the frame it was unloaded, so that its entry was never dropped. These are
  the ways `stale` names, besides switching hot reload or the module off.

## 6. Not modelled

Graphics, windows, text and fonts (state of system libraries); movement,
lasers, particles and intersection (floating point); decoders and archive
formats (data formats); configuration, logging, strings, tools (conversions
without state); vendored code. These are most of the repository's lines, and a
state machine has nothing to say about them.

A callback that starts another walk (`ObjFrame`, `BoundCheck`, `ObjRender`) would
need a stack of walks. A module under reload that turns hot reload off clears the map
its caller iterates; the model runs staged code in one step. Multi-world support
is compiled out in this build.

## 7. What could come next

1. `FileSystemManager` with its enumerators and search order; `ResourceManager`
   (lookup order of pools); `AppFrame` (initialisation that fails half-way,
   shutdown order); `AudioEngine` (listeners removed while an event is
   dispatched); the callback array of a game object.
2. `implement/WeakReference.hpp`: two concurrent `resolve` calls can see each
   other's transient count, and the decrement of a query that failed can be the
   last one without deleting anything. Only its own test uses the class so far.
3. Walks begun inside callbacks in `GameObjectPool`.
4. Proofs of what is left when the conditions of a theorem are given up: which
   buffers may be in two places after an endpoint change, and what a walk still
   meets when callbacks reset objects.
