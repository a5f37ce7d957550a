--------------------------- MODULE ResourceVideo ----------------------------
(***************************************************************************)
(* ResourceVideoImpl, a texture that shows a video.  The engine thread     *)
(* plays, seeks and shows the frames that are due; a worker thread of each *)
(* video decodes ahead of it into a short queue.  They share the queue and *)
(* a few flags under m_worker_mutex; the decoder itself is used by the     *)
(* worker without a lock, so that a result may come after the engine       *)
(* thread asked for another place.  m_worker_serial counts those requests. *)
(*                                                                         *)
(* Times are counted in frames: frame i has timestamp i.  A region under   *)
(* the mutex is one step, with the notification that follows it: what the  *)
(* worker finds between the two, it also finds after them.                 *)
(***************************************************************************)
EXTENDS Integers, Sequences

CONSTANTS
  Frames,      \* number of frames of the video
  KeyFrames,   \* frames the decoder can be positioned at
  Durations,   \* what the container says of the length; 0 where it says nothing
  QueueSize,   \* max_queued_frames
  Seconds,     \* where scripts seek to
  Deltas,      \* what the frame loop says has passed
  MaxCalls,    \* bound: requests of scripts that move the video
  MaxSerial    \* bound: these and the returns to the start of a looping video

ASSUME FramesAssumption ==
  /\ Frames \in Nat \ {0} /\ KeyFrames \subseteq 0 .. Frames - 1 /\ 0 \in KeyFrames
  /\ Durations \subseteq Nat /\ QueueSize \in Nat \ {0}
ASSUME InputAssumption ==
  /\ Seconds \subseteq Int /\ Deltas \subseteq Int
  /\ MaxCalls \in Nat /\ MaxSerial \in Nat

Frame == [timestamp : 0 .. Frames - 1, serial : Int]

VARIABLES
  \* the engine thread's alone
  m_state, m_time, m_duration, m_loop,
  shown,               \* the frame in m_texture
  pc, rewind,          \* where it is, and should_request_loop_seek of Update
  \* under m_worker_mutex
  m_frame_queue, m_worker_exit, m_worker_decode_enabled, m_worker_seek_requested,
  m_worker_seek_time, m_worker_eof, m_worker_error, m_force_upload_next_frame,
  m_worker_serial,
  \* the worker's alone
  worker, task, result,
  decoder              \* the frame that comes next, and the request that placed it there

clockVars  == <<m_state, m_time, m_duration, m_loop, shown>>
engineVars == <<m_state, m_time, m_duration, m_loop, shown, pc, rewind>>
seekVars   == <<m_worker_seek_requested, m_worker_seek_time, m_force_upload_next_frame,
                m_worker_serial>>
sharedVars == <<m_frame_queue, m_worker_exit, m_worker_decode_enabled, m_worker_eof,
                m_worker_error, seekVars>>
taskVars   == <<task, result, decoder>>
vars == <<engineVars, sharedVars, worker, taskVars>>

NoTask   == [kind |-> "none", serial |-> 0, time |-> 0]
NoResult == [kind |-> "none"]
MinOf(a, b) == IF a < b THEN a ELSE b

\* initialize() has shown the first frame and gone back to it, or failed to.
Init ==
  /\ m_state = "Stopped" /\ m_time = 0 /\ m_duration \in Durations /\ m_loop \in BOOLEAN
  /\ shown = [timestamp |-> 0, serial |-> -1] /\ pc = "idle" /\ rewind = FALSE
  /\ m_frame_queue = <<>> /\ m_worker_exit = FALSE /\ m_worker_decode_enabled = FALSE
  /\ m_worker_seek_requested = FALSE /\ m_worker_seek_time = 0
  /\ m_worker_eof = FALSE /\ m_worker_error = FALSE
  /\ m_force_upload_next_frame = FALSE /\ m_worker_serial = 0
  /\ worker = "wait" /\ task = NoTask /\ result = NoResult
  /\ \E first \in {0, 1} : decoder = [next |-> first, serial |-> 0]

-----------------------------------------------------------------------------
(* What the engine thread's calls have in common *)

\* m_worker_cv.notify_one()
Notify == worker' = IF worker = "asleep" THEN "wait" ELSE worker

\* The fields requestWorkerSeek sets besides the serial
SeekFields(seconds) ==
  /\ m_frame_queue' = <<>>
  /\ m_worker_seek_time' = seconds
  /\ m_worker_seek_requested' = TRUE
  /\ m_worker_eof' = FALSE
  /\ m_worker_error' = FALSE
  /\ m_force_upload_next_frame' = TRUE
  /\ UNCHANGED <<m_worker_exit, taskVars>>

\* Mutant of RequestWorkerSeek: the request is not counted.
RequestUncounted(seconds) ==
  SeekFields(seconds) /\ UNCHANGED m_worker_serial /\ Notify

\* Mutant of RequestWorkerSeek: the worker is not notified.
RequestSilently(seconds) ==
  SeekFields(seconds) /\ m_worker_serial' = m_worker_serial + 1 /\ UNCHANGED worker

\* requestWorkerSeek: every caller also asks for one frame to be decoded.
RequestWorkerSeek(seconds) ==
  SeekFields(seconds) /\ m_worker_serial' = m_worker_serial + 1 /\ Notify

\* normalize_time
Normalized(seconds) ==
  LET positive == IF seconds < 0 THEN 0 ELSE seconds
  IN  IF m_duration > 0 THEN MinOf(positive, m_duration) ELSE MinOf(positive, Frames)

CallsLeft == pc = "idle" /\ m_worker_serial < MaxCalls

-----------------------------------------------------------------------------
(* Scripts *)

\* Play(restart), when it goes back to the start first
PlayFromStart ==
  /\ CallsLeft
  /\ m_time' = 0 /\ pc' = "play"
  /\ RequestWorkerSeek(0)
  /\ UNCHANGED <<m_state, m_duration, m_loop, shown, rewind, m_worker_decode_enabled>>

\* Mutant of PlayGoesOn: the worker is not notified.
PlaySilently ==
  /\ pc = "play" \/ (pc = "idle" /\ m_state # "Ended")
  /\ m_state' = "Playing" /\ pc' = "idle"
  /\ m_worker_decode_enabled' = TRUE /\ m_worker_error' = FALSE
  /\ UNCHANGED <<m_time, m_duration, m_loop, shown, rewind, m_frame_queue, m_worker_exit,
                 m_worker_eof, seekVars, worker, taskVars>>

\* The second half of Play, or all of it when it goes on from where it is
PlayGoesOn ==
  /\ pc = "play" \/ (pc = "idle" /\ m_state # "Ended")
  /\ m_state' = "Playing" /\ pc' = "idle"
  /\ m_worker_decode_enabled' = TRUE /\ m_worker_error' = FALSE
  /\ Notify
  /\ UNCHANGED <<m_time, m_duration, m_loop, shown, rewind, m_frame_queue, m_worker_exit,
                 m_worker_eof, seekVars, taskVars>>

Pause ==
  /\ pc = "idle"
  /\ m_state' = IF m_state = "Playing" THEN "Paused" ELSE m_state
  /\ m_worker_decode_enabled' = FALSE
  /\ UNCHANGED <<m_time, m_duration, m_loop, shown, pc, rewind, m_frame_queue, m_worker_exit,
                 m_worker_eof, m_worker_error, seekVars, worker, taskVars>>

Resume ==
  /\ pc = "idle"
  /\ m_state' = IF m_state = "Paused" THEN "Playing" ELSE m_state
  /\ m_worker_decode_enabled' = TRUE
  /\ Notify
  /\ UNCHANGED <<m_time, m_duration, m_loop, shown, pc, rewind, m_frame_queue, m_worker_exit,
                 m_worker_eof, m_worker_error, seekVars, taskVars>>

Stop ==
  /\ CallsLeft
  /\ m_state' = "Stopped" /\ m_time' = 0 /\ pc' = "stop"
  /\ m_worker_decode_enabled' = FALSE
  /\ UNCHANGED <<m_duration, m_loop, shown, rewind, m_frame_queue, m_worker_exit,
                 m_worker_eof, m_worker_error, seekVars, worker, taskVars>>

StopGoesBack ==
  /\ pc = "stop" /\ pc' = "idle"
  /\ RequestWorkerSeek(0)
  /\ UNCHANGED <<clockVars, rewind, m_worker_decode_enabled>>

Seek(seconds) ==
  /\ CallsLeft
  /\ m_time' = Normalized(seconds)
  /\ RequestWorkerSeek(m_time')
  /\ UNCHANGED <<m_state, m_duration, m_loop, shown, pc, rewind, m_worker_decode_enabled>>

-----------------------------------------------------------------------------
(* Update, once a frame *)

\* The last n frames at the head of the queue are taken; the last one is shown.
\* m_texture may refuse it, which changes nothing else.
TakeFrames(n) ==
  /\ m_frame_queue' = SubSeq(m_frame_queue, n + 1, Len(m_frame_queue))
  /\ shown' = IF n = 0 THEN shown ELSE m_frame_queue[n]
  /\ m_force_upload_next_frame' = (m_force_upload_next_frame /\ n = 0)

\* Not playing: one frame, after a request.
UpdateStill ==
  /\ pc = "idle" /\ m_state # "Playing"
  /\ m_force_upload_next_frame /\ m_frame_queue # <<>>
  /\ TakeFrames(1)
  /\ UNCHANGED <<m_state, m_time, m_duration, m_loop, pc, rewind, m_worker_exit,
                 m_worker_decode_enabled, m_worker_seek_requested, m_worker_seek_time,
                 m_worker_eof, m_worker_error, m_worker_serial, worker, taskVars>>

IsDue(i, time) ==
  m_frame_queue[i].timestamp <= time \/ (i = 1 /\ m_force_upload_next_frame)

\* The frames the loop of Update takes: while the first one is due.
TakeDue(time) ==
  \E n \in 0 .. Len(m_frame_queue) :
    /\ \A i \in 1 .. n : IsDue(i, time)
    /\ n < Len(m_frame_queue) => ~IsDue(n + 1, time)
    /\ TakeFrames(n)

\* Playing, up to the end of the region under the mutex.  A video that says
\* nothing of its length goes on counting; nothing is later than Frames.
UpdatePlaying(delta) ==
  LET time == m_time + (IF delta < 0 THEN 0 ELSE delta)
      over == m_duration > 0 /\ time >= m_duration
      back == over /\ m_loop
  IN  /\ pc = "idle" /\ m_state = "Playing"
      /\ back => m_worker_serial < MaxSerial
      /\ m_time' = IF back THEN time % m_duration
                   ELSE IF over THEN m_duration
                   ELSE IF m_duration = 0 THEN MinOf(time, Frames) ELSE time
      /\ IF back
         THEN UNCHANGED <<m_frame_queue, shown, m_force_upload_next_frame>>
         ELSE TakeDue(m_time')
      /\ m_state' = IF \/ over /\ ~m_loop
                       \/ m_worker_error
                       \/ ~back /\ m_worker_eof /\ m_frame_queue' = <<>> /\ m_duration = 0
                    THEN "Ended" ELSE "Playing"
      /\ rewind' = back
      /\ pc' = IF m_state' = "Ended" THEN "disable" ELSE "finish"
      /\ UNCHANGED <<m_duration, m_loop, m_worker_exit, m_worker_decode_enabled,
                     m_worker_seek_requested, m_worker_seek_time, m_worker_eof,
                     m_worker_error, m_worker_serial, worker, taskVars>>

UpdateDisables ==
  /\ pc = "disable" /\ pc' = "finish"
  /\ m_worker_decode_enabled' = FALSE
  /\ UNCHANGED <<clockVars, rewind, m_frame_queue, m_worker_exit, m_worker_eof,
                 m_worker_error, seekVars, worker, taskVars>>

\* Mutant of UpdateFinishes: only a video that goes back wakes the worker.
UpdateFinishesSilently ==
  /\ pc = "finish" /\ pc' = "idle" /\ rewind' = FALSE
  /\ UNCHANGED <<clockVars, m_worker_decode_enabled>>
  /\ \/ rewind /\ RequestWorkerSeek(m_time)
     \/ ~rewind /\ UNCHANGED <<m_frame_queue, m_worker_exit, m_worker_eof, m_worker_error,
                              seekVars, worker, taskVars>>

UpdateFinishes ==
  /\ pc = "finish" /\ pc' = "idle" /\ rewind' = FALSE
  /\ UNCHANGED <<clockVars, m_worker_decode_enabled>>
  /\ \/ /\ rewind
        /\ RequestWorkerSeek(m_time)
     \/ /\ ~rewind
        /\ Notify
        /\ UNCHANGED <<m_frame_queue, m_worker_exit, m_worker_eof, m_worker_error, seekVars,
                       taskVars>>

-----------------------------------------------------------------------------
(* The destructor, when the last reference to the resource is dropped *)

\* Mutant of Destroy: the worker is not notified.
DestroySilently ==
  /\ pc = "idle" /\ pc' = "joining"
  /\ m_worker_exit' = TRUE
  /\ UNCHANGED <<clockVars, rewind, m_frame_queue, m_worker_decode_enabled, m_worker_eof,
                 m_worker_error, seekVars, worker, taskVars>>

Destroy ==
  /\ pc = "idle" /\ pc' = "joining"
  /\ m_worker_exit' = TRUE
  /\ Notify
  /\ UNCHANGED <<clockVars, rewind, m_frame_queue, m_worker_decode_enabled, m_worker_eof,
                 m_worker_error, seekVars, taskVars>>

Joined ==
  /\ pc = "joining" /\ worker = "done" /\ pc' = "gone"
  /\ UNCHANGED <<clockVars, rewind, sharedVars, worker, taskVars>>

-----------------------------------------------------------------------------
(* The worker *)

\* Mutant of MayDecode: one frame more than the queue holds.
MayDecodeFull ==
  /\ m_worker_decode_enabled
  /\ ~m_worker_eof /\ ~m_worker_error
  /\ Len(m_frame_queue) <= QueueSize

MayDecode ==
  /\ m_worker_decode_enabled
  /\ ~m_worker_eof /\ ~m_worker_error
  /\ Len(m_frame_queue) < QueueSize

\* The region that begins with m_worker_cv.wait: leave, take a request, decode
\* on, or go to sleep.
WorkerLeaves ==
  /\ worker = "wait" /\ m_worker_exit
  /\ worker' = "done"
  /\ UNCHANGED <<engineVars, sharedVars, taskVars>>

WorkerTakesSeek ==
  /\ worker = "wait" /\ ~m_worker_exit /\ m_worker_seek_requested
  /\ worker' = "seek"
  /\ task' = [kind |-> "seek", serial |-> m_worker_serial, time |-> m_worker_seek_time]
  /\ m_worker_seek_requested' = FALSE
  /\ m_frame_queue' = <<>>
  /\ m_worker_eof' = FALSE /\ m_worker_error' = FALSE
  /\ UNCHANGED <<engineVars, m_worker_exit, m_worker_decode_enabled, m_worker_seek_time,
                 m_force_upload_next_frame, m_worker_serial, result, decoder>>

WorkerDecodesOn ==
  /\ worker = "wait" /\ ~m_worker_exit /\ ~m_worker_seek_requested /\ MayDecode
  /\ worker' = "read"
  /\ task' = [kind |-> "read", serial |-> m_worker_serial, time |-> 0]
  /\ UNCHANGED <<engineVars, sharedVars, result, decoder>>

WorkerSleeps ==
  /\ worker = "wait" /\ ~m_worker_exit /\ ~m_worker_seek_requested /\ ~MayDecode
  /\ worker' = "asleep"
  /\ UNCHANGED <<engineVars, sharedVars, taskVars>>

\* IVideoDecoder::readFrame at position p, reached by a request; an error leaves
\* the position alone.
ReadFrame(p, request) ==
  \/ /\ p < Frames
     /\ result' = [kind |-> "Frame", frame |-> [timestamp |-> p, serial |-> request]]
     /\ decoder' = [next |-> p + 1, serial |-> request]
  \/ /\ p = Frames
     /\ result' = [kind |-> "End"]
     /\ decoder' = [next |-> p, serial |-> request]
  \/ /\ result' = [kind |-> "Error"]
     /\ decoder' = [next |-> p, serial |-> request]

\* IVideoDecoder::seek goes to the last key frame up to the time, or behind the
\* last frame.
SeekPositions(t) ==
  {k \in KeyFrames : k <= t /\ \A j \in KeyFrames : j <= t => j <= k}
    \cup (IF t >= Frames THEN {Frames} ELSE {})

\* Without the lock: seek and decode one frame.  A seek that fails leaves the
\* decoder where it is.
WorkerSeeks ==
  /\ worker = "seek" /\ worker' = "publish"
  /\ \/ \E p \in SeekPositions(task.time) : ReadFrame(p, task.serial)
     \/ /\ result' = [kind |-> "Error"]
        /\ decoder' = [decoder EXCEPT !.serial = task.serial]
  /\ UNCHANGED <<engineVars, sharedVars, task>>

\* Without the lock: decode the next frame.
WorkerReads ==
  /\ worker = "read" /\ worker' = "publish"
  /\ ReadFrame(decoder.next, decoder.serial)
  /\ UNCHANGED <<engineVars, sharedVars, task>>

\* Mutant of Wanted: the serial is not compared.
WantedLate ==
  task.kind = "read" => ~m_worker_seek_requested /\ Len(m_frame_queue) < QueueSize

\* A frame is kept when it still is what the engine thread wants; one that was
\* decoded on must not meet a request, nor a full queue.
Wanted ==
  /\ task.serial = m_worker_serial
  /\ task.kind = "read" => ~m_worker_seek_requested /\ Len(m_frame_queue) < QueueSize

WorkerPublishes ==
  /\ worker = "publish" /\ worker' = "wait"
  /\ task' = NoTask /\ result' = NoResult
  /\ m_frame_queue' = IF result.kind = "Frame" /\ Wanted
                      THEN Append(m_frame_queue, result.frame) ELSE m_frame_queue
  /\ m_worker_eof' = (m_worker_eof \/ (result.kind = "End" /\ task.serial = m_worker_serial))
  /\ m_worker_error' = (m_worker_error
                         \/ (result.kind = "Error" /\ task.serial = m_worker_serial))
  /\ UNCHANGED <<engineVars, m_worker_exit, m_worker_decode_enabled, seekVars, decoder>>

-----------------------------------------------------------------------------
Script ==
  \/ PlayFromStart \/ Pause \/ Resume \/ Stop
  \/ (pc = "idle" /\ PlayGoesOn)
  \/ \E seconds \in Seconds : Seek(seconds)

Update == UpdateStill \/ \E delta \in Deltas : UpdatePlaying(delta)
EngineGoesOn ==
  (pc = "play" /\ PlayGoesOn) \/ StopGoesBack \/ UpdateDisables \/ UpdateFinishes \/ Joined

Worker ==
  \/ WorkerLeaves \/ WorkerTakesSeek \/ WorkerDecodesOn \/ WorkerSleeps
  \/ WorkerSeeks \/ WorkerReads \/ WorkerPublishes

Next == Script \/ Update \/ EngineGoesOn \/ Destroy \/ Worker
Spec == Init /\ [][Next]_vars

\* The worker is a thread of its own.  The frame loop updates every video, and
\* again and again some time has passed since the last update.
FairSpec ==
  /\ Spec
  /\ WF_vars(Worker)
  /\ WF_vars(EngineGoesOn)
  /\ WF_vars(Update)
  /\ SF_vars(\E delta \in Deltas : delta > 0 /\ UpdatePlaying(delta))

-----------------------------------------------------------------------------
(* Properties *)

States    == {"Stopped", "Playing", "Paused", "Ended"}
Places    == {"idle", "play", "stop", "disable", "finish", "joining", "gone"}
Tasks     == [kind : {"none", "seek", "read"}, serial : Nat, time : Nat]
Results   == [kind : {"none", "End", "Error"}] \cup [kind : {"Frame"}, frame : Frame]
Positions == [next : 0 .. Frames, serial : Nat]

EngineTypes ==
  /\ m_state \in States /\ m_time \in Nat /\ m_duration \in Durations /\ m_loop \in BOOLEAN
  /\ shown \in Frame /\ rewind \in BOOLEAN /\ pc \in Places
SharedTypes ==
  /\ m_worker_exit \in BOOLEAN /\ m_worker_decode_enabled \in BOOLEAN
  /\ m_worker_seek_requested \in BOOLEAN /\ m_worker_seek_time \in Nat
  /\ m_worker_eof \in BOOLEAN /\ m_worker_error \in BOOLEAN
  /\ m_force_upload_next_frame \in BOOLEAN /\ m_worker_serial \in Nat
WorkerTypes ==
  /\ worker \in {"wait", "asleep", "seek", "read", "publish", "done"}
  /\ task \in Tasks /\ result \in Results /\ decoder \in Positions

\* No variable leaves its range, and the queue never holds more than
\* max_queued_frames: one frame of a request, or what was decoded on.
TypeOK ==
  /\ EngineTypes /\ SharedTypes /\ WorkerTypes
  /\ m_frame_queue \in Seq(Frame) /\ Len(m_frame_queue) <= QueueSize

\* A frame, or the end of the video, that the worker met before the engine
\* thread asked for another place never reaches the new place: what waits to be
\* shown, and the end the worker reports, belong to the last request.
NothingStale ==
  /\ \A i \in 1 .. Len(m_frame_queue) : m_frame_queue[i].serial = m_worker_serial
  /\ m_worker_eof => decoder = [next |-> Frames, serial |-> m_worker_serial]

\* The frames of a request: the one shown, those in the queue, the one the worker
\* is about to hand over.
Shown    == IF shown.serial = m_worker_serial THEN <<shown>> ELSE <<>>
InFlight == IF worker = "publish" /\ result.kind = "Frame" /\ task.serial = m_worker_serial
            THEN <<result.frame>> ELSE <<>>
Pipeline == Shown \o m_frame_queue \o InFlight

\* From the frame on the screen to the one the decoder reads next nothing is
\* missing and nothing comes twice, however decoding and showing interleave.
NoFrameSkipped ==
  /\ \A i \in 1 .. Len(Pipeline) - 1 :
       Pipeline[i + 1].timestamp = Pipeline[i].timestamp + 1
  /\ Pipeline # <<>> /\ decoder.serial = m_worker_serial
       => decoder.next = Pipeline[Len(Pipeline)].timestamp + 1

\* No wake-up is lost: while a video plays, a worker that sleeps has nothing to
\* do, although Pause and the updates of a still video do not notify it.
NoLostWakeup ==
  worker = "asleep" /\ pc = "idle"
    => /\ ~m_worker_exit /\ ~m_worker_seek_requested
       /\ m_state = "Playing" => ~MayDecode

\* The picture never goes back: not to an earlier frame of a request, and not to
\* the frames of an earlier request.
PictureMovesForward ==
  [][\/ shown'.serial > shown.serial
     \/ shown'.serial = shown.serial /\ shown'.timestamp >= shown.timestamp]_vars

\* A request is answered on the screen, whether the video plays, is paused or
\* stopped: a frame is shown unless decoding failed or met the end, or another
\* request or the destructor came.
SeekIsShown ==
  \A s \in 0 .. MaxSerial :
    (m_worker_seek_requested /\ m_worker_serial = s)
      ~> \/ ~m_force_upload_next_frame \/ m_worker_serial # s
         \/ m_worker_error \/ m_worker_eof \/ pc \in {"joining", "gone"}

\* A video that does not loop, or whose length is not known, plays to its end:
\* Update goes on finding frames, or the end of the video, unless decoding fails.
\* (Play withdraws an error, so a script that plays on every frame may hide it.)
PlaysToItsEnd ==
  (m_state = "Playing" /\ (~m_loop \/ m_duration = 0))
    ~> (m_state # "Playing" \/ m_worker_error \/ pc \in {"joining", "gone"})

\* The destructor returns: the worker leaves whatever it was doing.
DestructorReturns == (pc = "joining") ~> (pc = "gone")

-----------------------------------------------------------------------------
(* Why nothing stale reaches the queue *)

Busy == worker \in {"seek", "read", "publish"}

\* Until the worker takes a request, what it does belongs to an earlier one and
\* the queue is empty; afterwards the decoder is where the request wants it, or
\* the worker is about to move it there.
RequestInv ==
  /\ task.serial <= m_worker_serial
  /\ m_worker_seek_requested
       => /\ m_frame_queue = <<>> /\ ~m_worker_eof
          /\ Busy => task.serial < m_worker_serial
  /\ ~m_worker_seek_requested
       => IF worker = "seek" THEN task.serial = m_worker_serial
          ELSE decoder.serial = m_worker_serial

\* What the worker does, and what it is about to hand over
TaskInv ==
  /\ worker = "seek" => task.kind = "seek"
  /\ worker = "read" => task.kind = "read"
  /\ worker = "publish" => task.kind \in {"seek", "read"}
  /\ Busy /\ task.kind = "seek" => m_frame_queue = <<>>
  /\ worker \in {"seek", "read"} => ~m_worker_eof
  /\ worker = "publish" /\ task.serial = m_worker_serial
       => /\ result.kind = "Frame" => result.frame.serial = m_worker_serial
          /\ result.kind = "End" => decoder.next = Frames
  /\ worker = "publish" => result.kind \in {"Frame", "End", "Error"} /\ ~m_worker_eof

VideoInv == TypeOK /\ NothingStale /\ RequestInv /\ TaskInv
=============================================================================
