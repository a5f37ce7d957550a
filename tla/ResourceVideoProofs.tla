------------------------ MODULE ResourceVideoProofs -------------------------
(***************************************************************************)
(* Proofs about ResourceVideo, for videos, queues and inputs of any size.  *)
(***************************************************************************)
EXTENDS ResourceVideo, TLAPS, SequenceTheorems

\* Dropping n entries from the head of a queue of frames leaves frames of the
\* queue, and the last one dropped is a frame as well.
LEMMA DroppedFrames ==
  ASSUME NEW n \in 0 .. Len(m_frame_queue), m_frame_queue \in Seq(Frame), TakeFrames(n)
  PROVE  /\ m_frame_queue' \in Seq(Frame)
         /\ Len(m_frame_queue') = Len(m_frame_queue) - n
         /\ \A i \in 1 .. Len(m_frame_queue') : m_frame_queue'[i] = m_frame_queue[i + n]
         /\ n # 0 => shown' \in Frame
         /\ n = 0 => shown' = shown
         /\ m_force_upload_next_frame' = (m_force_upload_next_frame /\ n = 0)
<1>1. \A i \in 1 .. Len(m_frame_queue) : m_frame_queue[i] \in Frame
  BY ElementOfSeq
<1>2. /\ SubSeq(m_frame_queue, n + 1, Len(m_frame_queue)) \in Seq(Frame)
      /\ Len(SubSeq(m_frame_queue, n + 1, Len(m_frame_queue))) = Len(m_frame_queue) - n
      /\ \A i \in 1 .. Len(m_frame_queue) - n :
           SubSeq(m_frame_queue, n + 1, Len(m_frame_queue))[i] = m_frame_queue[i + n]
  BY <1>1, SMT
<1> QED BY <1>1, <1>2 DEF TakeFrames

\* What an update takes from the queue, whichever frames are due
LEMMA UpdateTakes ==
  ASSUME m_frame_queue \in Seq(Frame), shown \in Frame,
         m_force_upload_next_frame \in BOOLEAN,
         UpdateStill \/ \E delta \in Deltas : UpdatePlaying(delta)
  PROVE  /\ m_frame_queue' \in Seq(Frame) /\ Len(m_frame_queue') <= Len(m_frame_queue)
         /\ \A i \in 1 .. Len(m_frame_queue') :
              \E k \in 1 .. Len(m_frame_queue) : m_frame_queue'[i] = m_frame_queue[k]
         /\ shown' \in Frame /\ m_force_upload_next_frame' \in BOOLEAN
<1> DEFINE Taken(n) == n \in 0 .. Len(m_frame_queue) /\ TakeFrames(n)
<1>1. ASSUME NEW n, Taken(n)
      PROVE  /\ m_frame_queue' \in Seq(Frame) /\ Len(m_frame_queue') <= Len(m_frame_queue)
             /\ \A i \in 1 .. Len(m_frame_queue') :
                  \E k \in 1 .. Len(m_frame_queue) : m_frame_queue'[i] = m_frame_queue[k]
             /\ shown' \in Frame /\ m_force_upload_next_frame' \in BOOLEAN
  <2>1. n \in 0 .. Len(m_frame_queue) /\ Len(m_frame_queue) \in Nat
    BY <1>1
  <2>2. /\ m_frame_queue' \in Seq(Frame)
        /\ Len(m_frame_queue') = Len(m_frame_queue) - n
        /\ \A i \in 1 .. Len(m_frame_queue') : m_frame_queue'[i] = m_frame_queue[i + n]
        /\ n # 0 => shown' \in Frame
        /\ n = 0 => shown' = shown
        /\ m_force_upload_next_frame' = (m_force_upload_next_frame /\ n = 0)
    BY <1>1, DroppedFrames
  <2>3. \A i \in 1 .. Len(m_frame_queue') :
          i + n \in 1 .. Len(m_frame_queue) /\ m_frame_queue'[i] = m_frame_queue[i + n]
    BY <2>1, <2>2
  <2>4. m_force_upload_next_frame' \in BOOLEAN
    BY <2>2, Zenon
  <2>5. Len(m_frame_queue') <= Len(m_frame_queue)
    BY <2>1, <2>2
  <2>6. \A i \in 1 .. Len(m_frame_queue') :
          \E k \in 1 .. Len(m_frame_queue) : m_frame_queue'[i] = m_frame_queue[k]
    BY <2>3, Zenon
  <2>7. shown' \in Frame
    BY <2>2, Zenon
  <2> HIDE DEF Taken
  <2> QED BY <2>2, <2>4, <2>5, <2>6, <2>7, Zenon
<1>2. CASE UpdateStill
  <2>1. Taken(1)
    BY <1>2 DEF UpdateStill
  <2> QED BY <1>1, <2>1
<1>3. ASSUME NEW delta \in Deltas, UpdatePlaying(delta)
      PROVE  \/ UNCHANGED <<m_frame_queue, shown, m_force_upload_next_frame>>
             \/ \E n : Taken(n)
  BY <1>3 DEF UpdatePlaying, TakeDue
<1> QED BY <1>1, <1>2, <1>3

\* Requests are positions in the video, whatever number a script passes.
LEMMA NormalizedIsNat ==
  ASSUME NEW seconds \in Int, m_duration \in Nat
  PROVE  Normalized(seconds) \in Nat
BY FramesAssumption DEF Normalized, MinOf

LEMMA RemainderIsNat ==
  ASSUME NEW a \in Nat, NEW b \in Nat, b > 0
  PROVE  a % b \in Nat
BY SMT

\* What reading a frame yields
LEMMA ReadTypes ==
  ASSUME NEW p \in 0 .. Frames, NEW request \in Nat, ReadFrame(p, request)
  PROVE  /\ result' \in Results /\ decoder' \in Positions
         /\ decoder'.serial = request
         /\ result'.kind \in {"Frame", "End", "Error"}
         /\ result'.kind = "Frame" => result'.frame.serial = request
         /\ result'.kind = "End" => decoder'.next = Frames
BY FramesAssumption DEF ReadFrame, Frame, Results, Positions

LEMMA SeekPositionsTypes == \A t \in Nat : SeekPositions(t) \subseteq 0 .. Frames
<1> TAKE t \in Nat
<1>1. KeyFrames \subseteq 0 .. Frames /\ Frames \in 0 .. Frames
  BY FramesAssumption
<1> QED BY <1>1 DEF SeekPositions

LEMMA InitVideoInv == Init => VideoInv
<1> SUFFICES ASSUME Init PROVE VideoInv
  OBVIOUS
<1>1. <<>> \in Seq(Frame) /\ Len(<<>>) = 0
  BY EmptySeq
<1>a. shown \in Frame
  BY FramesAssumption DEF Init, Frame
<1>b. decoder \in Positions
  BY FramesAssumption DEF Init, Positions
<1>c. task \in Tasks /\ result \in Results
  BY DEF Init, NoTask, NoResult, Tasks, Results
<1>d. EngineTypes /\ SharedTypes
  BY <1>a DEF Init, EngineTypes, SharedTypes, States, Places
<1>2. TypeOK
  BY <1>1, <1>b, <1>c, <1>d, FramesAssumption DEF Init, TypeOK, WorkerTypes
<1>3. NothingStale /\ RequestInv /\ TaskInv
  BY <1>1 DEF Init, NothingStale, RequestInv, TaskInv, Busy, NoTask, NoResult
<1> QED BY <1>2, <1>3 DEF VideoInv

\* What a request changes, in Play, Stop, Seek and in an update that goes back
LEMMA RequestKeepsInv ==
  ASSUME VideoInv, NEW seconds \in Nat, RequestWorkerSeek(seconds),
         EngineTypes', m_worker_decode_enabled' \in BOOLEAN
  PROVE  VideoInv'
<1> USE DEF RequestWorkerSeek, SeekFields, Notify, VideoInv, taskVars
<1>1. m_frame_queue' = <<>> /\ <<>> \in Seq(Frame) /\ Len(<<>>) = 0
  BY EmptySeq
<1>2. /\ worker \in {"seek", "read", "publish"} => worker' = worker
      /\ worker' \in {"seek", "read", "publish"} => worker' = worker
      /\ task' = task /\ result' = result /\ decoder' = decoder
  OBVIOUS
<1>3. SharedTypes'
  <2>1. m_worker_serial' \in Nat /\ m_worker_seek_time' \in Nat
    BY DEF TypeOK, SharedTypes
  <2> QED BY <2>1, Zenon DEF TypeOK, SharedTypes
<1>4. WorkerTypes'
  BY DEF TypeOK, WorkerTypes
<1>5. TypeOK'
  BY <1>1, <1>3, <1>4, FramesAssumption DEF TypeOK
<1>6. NothingStale'
  BY <1>1 DEF NothingStale
<1>7. task.serial \in Nat /\ m_worker_serial \in Nat
  BY DEF TypeOK, SharedTypes, WorkerTypes, Tasks
<1>8. RequestInv'
  BY <1>1, <1>2, <1>7 DEF RequestInv, Busy
<1>9. TaskInv'
  BY <1>1, <1>2, <1>7 DEF TaskInv, RequestInv, Busy
<1> QED BY <1>5, <1>6, <1>8, <1>9
\* Steps of the engine thread that touch neither the queue nor a request
LEMMA FlagsKeepInv ==
  ASSUME VideoInv, EngineTypes', SharedTypes',
         UNCHANGED <<m_frame_queue, m_worker_seek_requested, m_worker_seek_time,
                     m_worker_eof, m_worker_serial, taskVars>>,
         worker' = worker \/ Notify
  PROVE  VideoInv'
<1> USE DEF VideoInv, taskVars, Notify
<1>1. /\ worker \in {"seek", "read", "publish"} => worker' = worker
      /\ worker' \in {"seek", "read", "publish"} => worker' = worker
  OBVIOUS
<1>2. TypeOK'
  BY DEF TypeOK, WorkerTypes
<1>3. NothingStale' /\ RequestInv' /\ TaskInv'
  BY <1>1 DEF NothingStale, RequestInv, TaskInv, Busy
<1> QED BY <1>2, <1>3

\* What an update takes leaves the rest in order.
LEMMA TakeKeepsInv ==
  ASSUME VideoInv, Update
  PROVE  VideoInv'
<1> USE DEF VideoInv, taskVars
<1>1. /\ m_frame_queue' \in Seq(Frame) /\ Len(m_frame_queue') <= Len(m_frame_queue)
      /\ \A i \in 1 .. Len(m_frame_queue') :
           \E k \in 1 .. Len(m_frame_queue) : m_frame_queue'[i] = m_frame_queue[k]
      /\ shown' \in Frame /\ m_force_upload_next_frame' \in BOOLEAN
  BY UpdateTakes DEF Update, TypeOK, EngineTypes, SharedTypes
<1>2. /\ UNCHANGED <<m_duration, m_loop, m_worker_exit, m_worker_decode_enabled,
                     m_worker_seek_requested, m_worker_seek_time, m_worker_eof,
                     m_worker_error, m_worker_serial, worker, taskVars>>
  BY DEF Update, UpdateStill, UpdatePlaying
<1>3. m_time' \in Nat
  <2>1. CASE UpdateStill
    BY <2>1 DEF UpdateStill, TypeOK, EngineTypes
  <2>2. ASSUME NEW delta \in Deltas, UpdatePlaying(delta)
        PROVE  m_time' \in Nat
    <3> DEFINE time == m_time + (IF delta < 0 THEN 0 ELSE delta)
    <3>1. time \in Nat /\ m_duration \in Nat /\ Frames \in Nat
      BY InputAssumption, FramesAssumption DEF TypeOK, EngineTypes
    <3>2. m_duration > 0 => time % m_duration \in Nat
      BY <3>1, RemainderIsNat
    <3>3. \/ m_duration > 0 /\ m_time' = time % m_duration
          \/ m_time' = m_duration \/ m_time' = MinOf(time, Frames) \/ m_time' = time
      BY <2>2 DEF UpdatePlaying
    <3> QED BY <3>1, <3>2, <3>3 DEF MinOf
  <2> QED BY <2>1, <2>2 DEF Update
<1>4. m_state' \in States /\ pc' \in Places /\ rewind' \in BOOLEAN
  <2>1. CASE UpdateStill
    BY <2>1 DEF UpdateStill, TypeOK, EngineTypes
  <2>2. ASSUME NEW delta \in Deltas, UpdatePlaying(delta)
        PROVE  m_state' \in {"Ended", "Playing"} /\ pc' \in {"disable", "finish"}
               /\ rewind' \in BOOLEAN
    BY <2>2 DEF UpdatePlaying
  <2> QED BY <2>1, <2>2 DEF Update, States, Places
<1>5. EngineTypes' /\ SharedTypes' /\ WorkerTypes'
  BY <1>1, <1>2, <1>3, <1>4 DEF TypeOK, EngineTypes, SharedTypes, WorkerTypes
<1>6. TypeOK'
  BY <1>1, <1>5, FramesAssumption DEF TypeOK
<1>7. NothingStale'
  BY <1>1, <1>2 DEF NothingStale
<1>8. m_frame_queue = <<>> => m_frame_queue' = <<>>
  BY <1>1, EmptySeq DEF TypeOK
<1>9. RequestInv' /\ TaskInv'
  BY <1>2, <1>8 DEF RequestInv, TaskInv, Busy
<1> QED BY <1>6, <1>7, <1>9
\* The worker takes a request, goes on, leaves or goes to sleep.
LEMMA WaitKeepsInv ==
  ASSUME VideoInv, WorkerLeaves \/ WorkerTakesSeek \/ WorkerDecodesOn \/ WorkerSleeps
  PROVE  VideoInv'
<1> USE DEF VideoInv, taskVars, engineVars, sharedVars, seekVars
<1>1. EngineTypes'
  BY DEF WorkerLeaves, WorkerTakesSeek, WorkerDecodesOn, WorkerSleeps, TypeOK, EngineTypes
<1>2. CASE WorkerLeaves \/ WorkerSleeps
  BY <1>1, <1>2 DEF WorkerLeaves, WorkerSleeps, TypeOK, SharedTypes, WorkerTypes,
                    NothingStale, RequestInv, TaskInv, Busy
<1>3. CASE WorkerTakesSeek
  <2>1. m_frame_queue' = <<>> /\ <<>> \in Seq(Frame) /\ Len(<<>>) = 0
    BY <1>3, EmptySeq DEF WorkerTakesSeek
  <2>2. task' \in Tasks /\ task'.serial = m_worker_serial /\ task'.kind = "seek"
    BY <1>3 DEF WorkerTakesSeek, TypeOK, SharedTypes, Tasks
  <2>3. TypeOK'
    <3>1. SharedTypes' /\ WorkerTypes'
      BY <1>3, <2>2 DEF WorkerTakesSeek, TypeOK, SharedTypes, WorkerTypes
    <3> QED BY <1>1, <2>1, <3>1, FramesAssumption DEF TypeOK
  <2>4. NothingStale' /\ RequestInv' /\ TaskInv'
    BY <1>3, <2>1, <2>2 DEF WorkerTakesSeek, NothingStale, RequestInv, TaskInv, Busy,
                            TypeOK, SharedTypes
  <2> QED BY <2>3, <2>4
<1>4. CASE WorkerDecodesOn
  <2>1. task' \in Tasks /\ task'.serial = m_worker_serial /\ task'.kind = "read"
    BY <1>4 DEF WorkerDecodesOn, TypeOK, SharedTypes, Tasks
  <2>2. TypeOK'
    BY <1>1, <1>4, <2>1 DEF WorkerDecodesOn, TypeOK, SharedTypes, WorkerTypes
  <2>3. NothingStale' /\ RequestInv' /\ TaskInv'
    BY <1>4, <2>1 DEF WorkerDecodesOn, MayDecode, NothingStale, RequestInv, TaskInv, Busy,
                      TypeOK, SharedTypes
  <2> QED BY <2>2, <2>3
<1> QED BY <1>2, <1>3, <1>4

\* The decoder works without the lock: it leaves what the threads share alone.
LEMMA DecoderKeepsInv ==
  ASSUME VideoInv, WorkerSeeks \/ WorkerReads
  PROVE  VideoInv'
<1> USE DEF VideoInv, engineVars, sharedVars, seekVars
<1>1. /\ UNCHANGED <<engineVars, sharedVars, task>> /\ worker' = "publish"
      /\ worker \in {"seek", "read"}
  BY DEF WorkerSeeks, WorkerReads
<1>2. task.serial \in Nat /\ task.time \in Nat /\ decoder.serial \in Nat
      /\ decoder.next \in 0 .. Frames
  BY DEF TypeOK, WorkerTypes, Tasks, Positions
<1>3. /\ result' \in Results /\ decoder' \in Positions
      /\ result'.kind \in {"Frame", "End", "Error"}
      /\ result'.kind = "End" => decoder'.next = Frames
      /\ decoder'.serial = IF worker = "seek" THEN task.serial ELSE decoder.serial
      /\ result'.kind = "Frame" => result'.frame.serial = decoder'.serial
  <2>1. CASE WorkerReads
    BY <2>1, <1>2, ReadTypes DEF WorkerReads
  <2>2. ASSUME WorkerSeeks, NEW p \in SeekPositions(task.time), ReadFrame(p, task.serial)
        PROVE  <1>3!1 /\ <1>3!2 /\ <1>3!3 /\ <1>3!4 /\ <1>3!5
    <3>1. p \in 0 .. Frames
      BY <1>2, <2>2, SeekPositionsTypes
    <3> QED BY <1>2, <2>2, <3>1, ReadTypes DEF WorkerSeeks
  <2>3. CASE /\ WorkerSeeks /\ result' = [kind |-> "Error"]
             /\ decoder' = [decoder EXCEPT !.serial = task.serial]
    BY <2>3, <1>2 DEF WorkerSeeks, TypeOK, WorkerTypes, Results, Positions
  <2> QED BY <2>1, <2>2, <2>3 DEF WorkerSeeks
<1>4. TypeOK'
  BY <1>1, <1>3 DEF TypeOK, EngineTypes, SharedTypes, WorkerTypes
<1>5. NothingStale' /\ RequestInv' /\ TaskInv'
  BY <1>1, <1>2, <1>3 DEF NothingStale, RequestInv, TaskInv, Busy, TypeOK, SharedTypes
<1> QED BY <1>4, <1>5

\* A result is kept only under the serial it was asked for.
LEMMA PublishKeepsInv ==
  ASSUME VideoInv, WorkerPublishes
  PROVE  VideoInv'
<1> USE DEF VideoInv, WorkerPublishes, engineVars, seekVars
<1>1. result.kind = "Frame" => result.frame \in Frame
  BY DEF TypeOK, WorkerTypes, Results
<1>2. task.serial \in Nat /\ m_worker_serial \in Nat /\ QueueSize \in Nat \ {0}
  BY FramesAssumption DEF TypeOK, WorkerTypes, SharedTypes, Tasks
<1>3. /\ m_frame_queue' \in Seq(Frame) /\ Len(m_frame_queue') <= QueueSize
      /\ \A i \in 1 .. Len(m_frame_queue') : m_frame_queue'[i].serial = m_worker_serial
      /\ m_worker_seek_requested => m_frame_queue' = <<>>
  <2>1. CASE m_frame_queue' = m_frame_queue
    BY <2>1 DEF TypeOK, NothingStale, RequestInv
  <2>2. CASE /\ result.kind = "Frame" /\ Wanted
             /\ m_frame_queue' = Append(m_frame_queue, result.frame)
    <3>1. /\ task.serial = m_worker_serial /\ ~m_worker_seek_requested
          /\ result.frame.serial = m_worker_serial
      BY <1>2, <2>2 DEF Wanted, RequestInv, TaskInv, Busy
    <3>2. Len(m_frame_queue) < QueueSize
      <4>1. task.kind = "read" \/ m_frame_queue = <<>>
        BY DEF TaskInv, Busy
      <4> QED BY <1>2, <2>2, <4>1, EmptySeq DEF Wanted
    <3>3. /\ m_frame_queue' \in Seq(Frame) /\ Len(m_frame_queue') = Len(m_frame_queue) + 1
          /\ \A i \in 1 .. Len(m_frame_queue) : m_frame_queue'[i] = m_frame_queue[i]
          /\ m_frame_queue'[Len(m_frame_queue) + 1] = result.frame
      BY <1>1, <2>2, AppendProperties DEF TypeOK
    <3>4. Len(m_frame_queue) \in Nat
      BY LenProperties DEF TypeOK
    <3> QED BY <1>2, <3>1, <3>2, <3>3, <3>4 DEF NothingStale
  <2> QED BY <2>1, <2>2
<1>4. m_worker_eof' => decoder = [next |-> Frames, serial |-> m_worker_serial]
  <2>1. SUFFICES ASSUME m_worker_eof'
                 PROVE  decoder = [next |-> Frames, serial |-> m_worker_serial]
    OBVIOUS
  <2>2. result.kind = "End" /\ task.serial = m_worker_serial
    BY <2>1 DEF TaskInv
  <2>3. decoder.next = Frames /\ decoder.serial = m_worker_serial
    BY <1>2, <2>2 DEF TaskInv, RequestInv, Busy
  <2> QED BY <2>3 DEF TypeOK, WorkerTypes, Positions
<1>5. m_worker_seek_requested => ~m_worker_eof'
  <2>1. m_worker_seek_requested => task.serial # m_worker_serial
    BY <1>2 DEF RequestInv, Busy
  <2>2. m_worker_eof' => task.serial = m_worker_serial
    BY DEF TaskInv
  <2> QED BY <2>1, <2>2
<1>6. m_worker_eof' \in BOOLEAN /\ m_worker_error' \in BOOLEAN
  BY Zenon
<1>7. task' \in Tasks /\ result' \in Results /\ task'.serial = 0 /\ worker' = "wait"
  BY DEF NoTask, NoResult, Tasks, Results
<1>8. EngineTypes' /\ SharedTypes' /\ WorkerTypes'
  BY <1>6, <1>7 DEF TypeOK, EngineTypes, SharedTypes, WorkerTypes
<1>9. TypeOK' /\ NothingStale'
  BY <1>3, <1>4, <1>8 DEF TypeOK, NothingStale
<1>10. RequestInv' /\ TaskInv'
  BY <1>2, <1>3, <1>5, <1>7 DEF RequestInv, TaskInv, Busy
<1> QED BY <1>9, <1>10
\* Every step of the program keeps the invariant.
LEMMA NextKeepsInv == VideoInv /\ [Next]_vars => VideoInv'
<1> SUFFICES ASSUME VideoInv, [Next]_vars PROVE VideoInv'
  OBVIOUS
<1> USE DEF VideoInv
<1>1. TypeOK /\ EngineTypes /\ SharedTypes /\ m_duration \in Nat
  BY FramesAssumption DEF TypeOK, EngineTypes
<1>2. CASE PlayFromStart
  BY <1>1, <1>2, RequestKeepsInv DEF PlayFromStart, EngineTypes, SharedTypes, Places
<1>3. CASE PlayGoesOn
  <2>1. EngineTypes' /\ SharedTypes'
    BY <1>1, <1>3 DEF PlayGoesOn, EngineTypes, SharedTypes, States, Places, seekVars
  <2> QED BY <1>3, <2>1, FlagsKeepInv DEF PlayGoesOn, seekVars
<1>4. CASE Pause
  <2>1. EngineTypes' /\ SharedTypes'
    BY <1>1, <1>4 DEF Pause, EngineTypes, SharedTypes, States, Places, seekVars
  <2> QED BY <1>4, <2>1, FlagsKeepInv DEF Pause, seekVars
<1>5. CASE Resume
  <2>1. EngineTypes' /\ SharedTypes'
    BY <1>1, <1>5 DEF Resume, EngineTypes, SharedTypes, States, Places, seekVars
  <2> QED BY <1>5, <2>1, FlagsKeepInv DEF Resume, seekVars
<1>6. CASE Stop
  <2>1. EngineTypes' /\ SharedTypes'
    BY <1>1, <1>6 DEF Stop, EngineTypes, SharedTypes, States, Places, seekVars
  <2> QED BY <1>6, <2>1, FlagsKeepInv DEF Stop, seekVars
<1>7. CASE StopGoesBack
  BY <1>1, <1>7, RequestKeepsInv DEF StopGoesBack, EngineTypes, SharedTypes, Places, clockVars
<1>8. ASSUME NEW seconds \in Seconds, Seek(seconds)
      PROVE  VideoInv'
  <2>1. m_time' \in Nat
    BY <1>1, <1>8, NormalizedIsNat, InputAssumption DEF Seek
  <2>2. EngineTypes' /\ m_worker_decode_enabled' \in BOOLEAN
    BY <1>1, <1>8, <2>1 DEF Seek, EngineTypes, SharedTypes
  <2>3. RequestWorkerSeek(m_time')
    BY <1>8 DEF Seek
  <2> QED BY <2>1, <2>2, <2>3, RequestKeepsInv
<1>9. CASE Update
  BY <1>9, TakeKeepsInv
<1>10. CASE UpdateDisables
  <2>1. EngineTypes' /\ SharedTypes'
    BY <1>1, <1>10 DEF UpdateDisables, EngineTypes, SharedTypes, Places, clockVars, seekVars
  <2> QED BY <1>10, <2>1, FlagsKeepInv DEF UpdateDisables, seekVars
<1>11. CASE UpdateFinishes
  <2>1. EngineTypes' /\ m_worker_decode_enabled' \in BOOLEAN /\ m_time \in Nat
    BY <1>1, <1>11 DEF UpdateFinishes, EngineTypes, SharedTypes, Places, clockVars
  <2>2. CASE RequestWorkerSeek(m_time)
    BY <2>1, <2>2, RequestKeepsInv
  <2>3. CASE /\ Notify
             /\ UNCHANGED <<m_frame_queue, m_worker_exit, m_worker_eof, m_worker_error,
                            seekVars, taskVars>>
    <3>1. SharedTypes'
      BY <1>1, <1>11, <2>3 DEF UpdateFinishes, SharedTypes, seekVars
    <3> QED BY <2>1, <2>3, <3>1, FlagsKeepInv DEF seekVars
  <2> QED BY <1>11, <2>2, <2>3 DEF UpdateFinishes
<1>12. CASE Destroy
  <2>1. EngineTypes' /\ SharedTypes'
    BY <1>1, <1>12 DEF Destroy, EngineTypes, SharedTypes, Places, clockVars, seekVars
  <2> QED BY <1>12, <2>1, FlagsKeepInv DEF Destroy, seekVars
<1>13. CASE Joined
  <2>1. EngineTypes' /\ SharedTypes'
    BY <1>1, <1>13 DEF Joined, EngineTypes, SharedTypes, Places, clockVars, sharedVars, seekVars
  <2> QED BY <1>13, <2>1, FlagsKeepInv DEF Joined, sharedVars, seekVars
<1>14. CASE Worker
  BY <1>14, WaitKeepsInv, DecoderKeepsInv, PublishKeepsInv DEF Worker
<1>15. CASE vars' = vars
  <2>1. EngineTypes' /\ SharedTypes'
    BY <1>1, <1>15 DEF vars, engineVars, sharedVars, seekVars, EngineTypes, SharedTypes
  <2> QED BY <1>15, <2>1, FlagsKeepInv DEF vars, sharedVars, seekVars
<1> QED BY <1>2, <1>3, <1>4, <1>5, <1>6, <1>7, <1>8, <1>9, <1>10, <1>11, <1>12, <1>13, <1>14,
           <1>15 DEF Next, Script, EngineGoesOn

THEOREM VideoInvariant == Spec => []VideoInv
BY InitVideoInv, NextKeepsInv, PTL DEF Spec

\* The variables keep their types, and the queue of decoded frames never grows
\* beyond max_queued_frames.
THEOREM VideoTypes == Spec => []TypeOK
<1>1. VideoInv => TypeOK
  BY DEF VideoInv
<1> QED BY <1>1, VideoInvariant, PTL

\* Whatever the worker was doing when a script sought, stopped or restarted the
\* video: no frame and no end of an earlier place is taken for the new one.
THEOREM VideoNeverStale == Spec => []NothingStale
<1>1. VideoInv => NothingStale
  BY DEF VideoInv
<1> QED BY <1>1, VideoInvariant, PTL

-----------------------------------------------------------------------------
(* Why nothing is skipped and nothing comes twice *)

Ready == worker = "publish" /\ result.kind = "Frame" /\ task.serial = m_worker_serial

\* Until the worker takes a request, and until it has followed it, neither the
\* screen nor the decoder has anything of that request; and what the worker
\* decodes on finds room in the queue.
PlaceInv ==
  /\ shown.serial <= m_worker_serial /\ decoder.serial <= m_worker_serial
  /\ m_worker_seek_requested
       => shown.serial # m_worker_serial /\ decoder.serial # m_worker_serial
  /\ worker = "seek" => shown.serial # m_worker_serial
  /\ Busy /\ ~m_worker_seek_requested => task.serial = m_worker_serial
  /\ Busy /\ task.kind = "read" => Len(m_frame_queue) < QueueSize

\* The frames of a request are numbered through, from the screen over the queue
\* and the hands of the worker to the decoder.  Distances are stated between
\* all places, not only neighbours, so that any number may be taken at once.
NumberedInv ==
  LET n    == Len(m_frame_queue)
      T(i) == m_frame_queue[i].timestamp
  IN  /\ \A i, j \in 1 .. n : T(j) = T(i) + (j - i)
      /\ shown.serial = m_worker_serial => \A i \in 1 .. n : T(i) = shown.timestamp + i
      /\ Ready => /\ \A i \in 1 .. n : result.frame.timestamp = T(i) + (n + 1 - i)
                  /\ shown.serial = m_worker_serial
                       => result.frame.timestamp = shown.timestamp + n + 1
                  /\ decoder.next = result.frame.timestamp + 1
      /\ ~Ready /\ decoder.serial = m_worker_serial
           => /\ \A i \in 1 .. n : decoder.next = T(i) + (n + 1 - i)
              /\ shown.serial = m_worker_serial => decoder.next = shown.timestamp + n + 1

PipeInv == VideoInv /\ PlaceInv /\ NumberedInv

\* While it sleeps the worker is wanted by nobody, or an update of a video that
\* plays is about to notify it.
WakeInv ==
  worker = "asleep"
    => /\ ~m_worker_exit /\ ~m_worker_seek_requested
       /\ m_state = "Playing" /\ MayDecode => pc \in {"disable", "finish"}

LEMMA PipeTypes ==
  ASSUME VideoInv
  PROVE  /\ Len(m_frame_queue) \in Nat /\ m_worker_serial \in Nat
         /\ \A i \in 1 .. Len(m_frame_queue) :
              m_frame_queue[i].timestamp \in Int /\ m_frame_queue[i].serial = m_worker_serial
         /\ shown.timestamp \in Int /\ shown.serial \in Int
         /\ decoder.next \in Int /\ decoder.serial \in Nat
         /\ task.serial \in Nat /\ task.serial <= m_worker_serial
         /\ result.kind = "Frame" => result.frame.timestamp \in Int
<1>1. /\ m_frame_queue \in Seq(Frame) /\ shown \in Frame /\ decoder \in Positions
      /\ task \in Tasks /\ result \in Results /\ m_worker_serial \in Nat
  BY DEF VideoInv, TypeOK, EngineTypes, SharedTypes, WorkerTypes
<1>2. \A i \in 1 .. Len(m_frame_queue) : m_frame_queue[i] \in Frame
  BY <1>1, ElementOfSeq
<1>3. Len(m_frame_queue) \in Nat
  BY <1>1, LenProperties
<1>4. \A f \in Frame : f.timestamp \in Int /\ f.serial \in Int
  BY FramesAssumption DEF Frame
<1>5. result.kind = "Frame" => result.frame \in Frame
  BY <1>1 DEF Results
<1>6. decoder.next \in Int /\ decoder.serial \in Nat /\ task.serial \in Nat
  BY <1>1, FramesAssumption DEF Positions, Tasks
<1> QED BY <1>1, <1>2, <1>3, <1>4, <1>5, <1>6 DEF VideoInv, NothingStale, RequestInv

LEMMA InitPipeInv == Init => PipeInv
<1> SUFFICES ASSUME Init PROVE PipeInv
  OBVIOUS
<1>1. VideoInv /\ Len(<<>>) = 0
  BY InitVideoInv, EmptySeq
<1>2. m_frame_queue = <<>> /\ shown.serial = -1 /\ m_worker_serial = 0 /\ worker = "wait"
      /\ ~m_worker_seek_requested /\ decoder.serial = 0
  BY DEF Init
<1> QED BY <1>1, <1>2 DEF PipeInv, PlaceInv, NumberedInv, Ready, Busy

\* After a request nothing of it is anywhere yet.
LEMMA RequestKeepsPipe ==
  ASSUME PipeInv, NEW seconds, RequestWorkerSeek(seconds), shown' = shown
  PROVE  PlaceInv' /\ NumberedInv'
<1>1. /\ m_frame_queue' = <<>> /\ Len(<<>>) = 0 /\ m_worker_seek_requested'
      /\ m_worker_serial' = m_worker_serial + 1
      /\ UNCHANGED <<task, result, decoder>>
      /\ worker' = worker \/ worker' = "wait"
  BY EmptySeq DEF RequestWorkerSeek, SeekFields, Notify, taskVars
<1>2. /\ m_worker_serial \in Nat /\ shown.serial \in Int /\ decoder.serial \in Nat
      /\ task.serial \in Nat /\ task.serial <= m_worker_serial
      /\ shown.serial <= m_worker_serial /\ decoder.serial <= m_worker_serial
  BY PipeTypes DEF PipeInv, PlaceInv
<1>3. PlaceInv'
  BY <1>1, <1>2, FramesAssumption DEF PlaceInv, Busy
<1>4. ~Ready' /\ shown'.serial # m_worker_serial' /\ decoder'.serial # m_worker_serial'
  BY <1>1, <1>2 DEF Ready
<1> QED BY <1>1, <1>3, <1>4 DEF NumberedInv

\* Steps of the engine thread that take nothing and ask for nothing
LEMMA FlagsKeepPipe ==
  ASSUME PipeInv,
         UNCHANGED <<shown, m_frame_queue, m_worker_seek_requested, m_worker_serial, taskVars>>,
         worker' = worker \/ Notify
  PROVE  PlaceInv' /\ NumberedInv'
<1>1. worker' = worker \/ (~Busy /\ ~Busy' /\ ~Ready /\ ~Ready' /\ worker' # "seek")
  BY DEF Notify, Busy, Ready
<1>2. Ready' <=> Ready
  BY <1>1 DEF Ready, taskVars
<1>3. NumberedInv'
  BY <1>2 DEF PipeInv, NumberedInv, taskVars
<1>4. PlaceInv'
  BY <1>1 DEF PipeInv, PlaceInv, Busy, taskVars
<1> QED BY <1>3, <1>4

\* The last frame an update takes becomes the one on the screen.
LEMMA TakeKeepsPipe ==
  ASSUME PipeInv, NEW n \in 0 .. Len(m_frame_queue), TakeFrames(n),
         UNCHANGED <<m_worker_seek_requested, m_worker_serial, worker, taskVars>>
  PROVE  /\ PlaceInv' /\ NumberedInv'
         /\ \/ shown' = shown
            \/ shown'.serial = m_worker_serial
               /\ (shown.serial = m_worker_serial => shown'.timestamp = shown.timestamp + n)
<1> DEFINE q == m_frame_queue
<1>1. /\ Len(q) \in Nat /\ m_worker_serial \in Nat
      /\ \A i \in 1 .. Len(q) : q[i].timestamp \in Int /\ q[i].serial = m_worker_serial
      /\ shown.timestamp \in Int /\ shown.serial \in Int
      /\ decoder.next \in Int /\ decoder.serial \in Nat
      /\ result.kind = "Frame" => result.frame.timestamp \in Int
  BY PipeTypes DEF PipeInv
<1>2. /\ Len(q') = Len(q) - n /\ \A i \in 1 .. Len(q') : q'[i] = q[i + n]
      /\ n = 0 => shown' = shown
  BY DroppedFrames DEF PipeInv, VideoInv, TypeOK
<1>3. CASE n = 0
  <2>1. q' = q
    BY <1>1, <1>3 DEF TakeFrames, PipeInv, VideoInv, TypeOK
  <2>2. UNCHANGED <<shown, m_frame_queue, m_worker_seek_requested, m_worker_serial, worker,
                    taskVars>>
    BY <1>2, <1>3, <2>1
  <2> QED BY <2>2, FlagsKeepPipe
<1>4. CASE n # 0
  <2>1. n \in 1 .. Len(q) /\ shown' = q[n] /\ shown'.serial = m_worker_serial
        /\ shown'.timestamp \in Int
    BY <1>1, <1>4 DEF TakeFrames
  <2>2. ~m_worker_seek_requested /\ worker # "seek" /\ (Busy => task.kind # "seek")
    <3>1. q # <<>>
      BY <2>1, EmptySeq
    <3> QED BY <3>1 DEF PipeInv, VideoInv, RequestInv, TaskInv, Busy
  <2>3. PlaceInv'
    BY <1>1, <1>2, <2>1, <2>2, FramesAssumption DEF PipeInv, PlaceInv, Busy, taskVars
  <2>4. (Ready' <=> Ready) /\ UNCHANGED <<result, decoder, m_worker_serial>>
    BY DEF Ready, taskVars
  <2>5. \A i \in 1 .. Len(q') : i + n \in 1 .. Len(q) /\ q'[i] = q[i + n]
    BY <1>1, <1>2, <2>1
  <2>6. /\ \A i, j \in 1 .. Len(q) : q[j].timestamp = q[i].timestamp + (j - i)
        /\ shown.serial = m_worker_serial => q[n].timestamp = shown.timestamp + n
    BY <2>1 DEF PipeInv, NumberedInv
  <2>7. ASSUME NEW i \in 1 .. Len(q'), NEW j \in 1 .. Len(q')
        PROVE  q'[j].timestamp = q'[i].timestamp + (j - i)
    <3>1. q[j + n].timestamp = q[i + n].timestamp + ((j + n) - (i + n))
      BY <2>5, <2>6
    <3>2. (j + n) - (i + n) = j - i
      BY <1>1
    <3> QED BY <2>5, <3>1, <3>2
  <2>8. ASSUME NEW i \in 1 .. Len(q')
        PROVE  q'[i].timestamp = shown'.timestamp + i
    <3>1. q[i + n].timestamp = q[n].timestamp + ((i + n) - n)
      BY <2>1, <2>5, <2>6
    <3>2. (i + n) - n = i
      BY <1>1
    <3> QED BY <2>1, <2>5, <3>1, <3>2
  <2>9. Ready => /\ \A i \in 1 .. Len(q') :
                       result.frame.timestamp = q'[i].timestamp + (Len(q') + 1 - i)
                 /\ result.frame.timestamp = shown'.timestamp + Len(q') + 1
                 /\ decoder.next = result.frame.timestamp + 1
    <3> SUFFICES ASSUME Ready
                 PROVE  /\ \A i \in 1 .. Len(q') :
                             result.frame.timestamp = q'[i].timestamp + (Len(q') + 1 - i)
                        /\ result.frame.timestamp = shown'.timestamp + Len(q') + 1
                        /\ decoder.next = result.frame.timestamp + 1
      OBVIOUS
    <3>1. /\ \A i \in 1 .. Len(q) : result.frame.timestamp = q[i].timestamp + (Len(q) + 1 - i)
          /\ decoder.next = result.frame.timestamp + 1
      BY DEF PipeInv, NumberedInv
    <3>2. result.frame.timestamp = q[n].timestamp + (Len(q) + 1 - n)
      BY <2>1, <3>1
    <3>3. ASSUME NEW i \in 1 .. Len(q')
          PROVE  result.frame.timestamp = q'[i].timestamp + (Len(q') + 1 - i)
      <4>1. result.frame.timestamp = q[i + n].timestamp + (Len(q) + 1 - (i + n))
        BY <2>5, <3>1
      <4>2. Len(q) + 1 - (i + n) = Len(q') + 1 - i
        BY <1>1, <1>2
      <4> QED BY <2>5, <4>1, <4>2
    <3>4. Len(q) + 1 - n = Len(q') + 1
      BY <1>1, <1>2
    <3>5. result.frame.timestamp = shown'.timestamp + Len(q') + 1
      BY <1>1, <1>2, <2>1, <3>2, <3>4 DEF Ready
    <3> QED BY <3>1, <3>3, <3>5
  <2>10. ~Ready /\ decoder.serial = m_worker_serial
           => /\ \A i \in 1 .. Len(q') : decoder.next = q'[i].timestamp + (Len(q') + 1 - i)
              /\ decoder.next = shown'.timestamp + Len(q') + 1
    <3> SUFFICES ASSUME ~Ready, decoder.serial = m_worker_serial
                 PROVE  /\ \A i \in 1 .. Len(q') :
                             decoder.next = q'[i].timestamp + (Len(q') + 1 - i)
                        /\ decoder.next = shown'.timestamp + Len(q') + 1
      OBVIOUS
    <3>1. \A i \in 1 .. Len(q) : decoder.next = q[i].timestamp + (Len(q) + 1 - i)
      BY DEF PipeInv, NumberedInv
    <3>2. decoder.next = q[n].timestamp + (Len(q) + 1 - n)
      BY <2>1, <3>1
    <3>3. ASSUME NEW i \in 1 .. Len(q')
          PROVE  decoder.next = q'[i].timestamp + (Len(q') + 1 - i)
      <4>1. decoder.next = q[i + n].timestamp + (Len(q) + 1 - (i + n))
        BY <2>5, <3>1
      <4>2. Len(q) + 1 - (i + n) = Len(q') + 1 - i
        BY <1>1, <1>2
      <4> QED BY <2>5, <4>1, <4>2
    <3>4. Len(q) + 1 - n = Len(q') + 1
      BY <1>1, <1>2
    <3>5. decoder.next = shown'.timestamp + Len(q') + 1
      BY <1>1, <1>2, <2>1, <3>2, <3>4
    <3> QED BY <3>3, <3>5
  <2>11. NumberedInv'
    BY <2>4, <2>7, <2>8, <2>9, <2>10 DEF NumberedInv
  <2> QED BY <2>1, <2>3, <2>6, <2>11
<1> QED BY <1>3, <1>4

LEMMA UpdateKeepsPipe ==
  ASSUME PipeInv, Update
  PROVE  /\ PlaceInv' /\ NumberedInv'
         /\ \/ shown' = shown
            \/ shown'.serial = m_worker_serial
               /\ (shown.serial = m_worker_serial => shown'.timestamp >= shown.timestamp)
<1> DEFINE Taken(n) == n \in 0 .. Len(m_frame_queue) /\ TakeFrames(n)
<1>1. UNCHANGED <<m_worker_seek_requested, m_worker_serial, worker, taskVars>>
  BY DEF Update, UpdateStill, UpdatePlaying, taskVars
<1>2. \/ UNCHANGED <<m_frame_queue, shown>>
      \/ \E n : Taken(n)
  <2>1. CASE UpdateStill
    <3>1. 1 \in 0 .. Len(m_frame_queue)
      BY <2>1 DEF UpdateStill, PipeInv, VideoInv, TypeOK
    <3> QED BY <2>1, <3>1 DEF UpdateStill
  <2>2. ASSUME NEW delta \in Deltas, UpdatePlaying(delta)
        PROVE  UNCHANGED <<m_frame_queue, shown>> \/ \E n : Taken(n)
    BY <2>2 DEF UpdatePlaying, TakeDue
  <2> QED BY <2>1, <2>2 DEF Update
<1>3. CASE UNCHANGED <<m_frame_queue, shown>>
  BY <1>1, <1>3, FlagsKeepPipe
<1>4. ASSUME NEW n, Taken(n)
      PROVE  /\ PlaceInv' /\ NumberedInv'
             /\ \/ shown' = shown
                \/ shown'.serial = m_worker_serial
                   /\ (shown.serial = m_worker_serial => shown'.timestamp >= shown.timestamp)
  <2>1. n \in 0 .. Len(m_frame_queue) /\ TakeFrames(n)
    BY <1>4
  <2>2. /\ PlaceInv' /\ NumberedInv'
        /\ \/ shown' = shown
           \/ shown'.serial = m_worker_serial
              /\ (shown.serial = m_worker_serial => shown'.timestamp = shown.timestamp + n)
    BY <1>1, <2>1, TakeKeepsPipe
  <2>3. n >= 0 /\ n \in Int /\ shown.timestamp \in Int
    BY <2>1, PipeTypes DEF PipeInv
  <2> HIDE DEF Taken
  <2> QED BY <2>2, <2>3
<1> QED BY <1>2, <1>3, <1>4

LEMMA WaitKeepsPipe ==
  ASSUME PipeInv, WorkerLeaves \/ WorkerTakesSeek \/ WorkerDecodesOn \/ WorkerSleeps
  PROVE  PlaceInv' /\ NumberedInv'
<1> USE DEF engineVars, sharedVars, seekVars, taskVars
<1>1. /\ worker = "wait" /\ ~Ready /\ ~Ready' /\ ~Busy
      /\ UNCHANGED <<shown, m_worker_serial, decoder>>
  BY DEF WorkerLeaves, WorkerTakesSeek, WorkerDecodesOn, WorkerSleeps, Ready, Busy
<1>2. CASE WorkerLeaves \/ WorkerSleeps
  <2>1. UNCHANGED <<m_frame_queue, m_worker_seek_requested, task, result>>
        /\ worker' \in {"done", "asleep"}
    BY <1>2 DEF WorkerLeaves, WorkerSleeps
  <2> QED BY <1>1, <2>1 DEF PipeInv, PlaceInv, NumberedInv, Busy
<1>3. CASE WorkerTakesSeek
  <2>1. /\ m_frame_queue' = <<>> /\ Len(<<>>) = 0 /\ m_worker_seek_requested
        /\ ~m_worker_seek_requested' /\ worker' = "seek"
        /\ task'.serial = m_worker_serial /\ task'.kind = "seek"
    BY <1>3, EmptySeq DEF WorkerTakesSeek
  <2> QED BY <1>1, <2>1 DEF PipeInv, PlaceInv, NumberedInv, Busy
<1>4. CASE WorkerDecodesOn
  <2>1. /\ UNCHANGED <<m_frame_queue, m_worker_seek_requested>> /\ ~m_worker_seek_requested
        /\ worker' = "read" /\ task'.serial = m_worker_serial /\ Len(m_frame_queue) < QueueSize
    BY <1>4 DEF WorkerDecodesOn, MayDecode
  <2> QED BY <1>1, <2>1 DEF PipeInv, PlaceInv, NumberedInv, Busy
<1> QED BY <1>2, <1>3, <1>4

\* What a read yields is the frame that comes next, or leaves the place alone.
LEMMA ReadResult ==
  ASSUME NEW p \in Int, NEW request, ReadFrame(p, request)
  PROVE  /\ decoder'.serial = request
         /\ IF result'.kind = "Frame"
            THEN result'.frame.timestamp = p /\ decoder'.next = p + 1
            ELSE decoder'.next = p
BY DEF ReadFrame

LEMMA DecoderKeepsPipe ==
  ASSUME PipeInv, WorkerSeeks \/ WorkerReads
  PROVE  PlaceInv' /\ NumberedInv'
<1>1. /\ UNCHANGED <<shown, m_frame_queue, m_worker_seek_requested, m_worker_serial, task>>
      /\ worker \in {"seek", "read"} /\ worker' = "publish" /\ Busy /\ Busy' /\ ~Ready
  BY DEF WorkerSeeks, WorkerReads, engineVars, sharedVars, seekVars, Ready, Busy
<1>2. /\ decoder.next \in Int /\ decoder.serial \in Nat /\ task.serial \in Nat
      /\ m_worker_serial \in Nat /\ task.serial <= m_worker_serial /\ task.time \in Nat
      /\ decoder \in Positions
  BY PipeTypes DEF PipeInv, VideoInv, TypeOK, WorkerTypes, Tasks
<1>3. CASE WorkerReads
  <2>1. /\ decoder'.serial = decoder.serial
        /\ IF result'.kind = "Frame"
           THEN result'.frame.timestamp = decoder.next /\ decoder'.next = decoder.next + 1
           ELSE decoder'.next = decoder.next
    BY <1>2, <1>3, ReadResult DEF WorkerReads
  <2>2. PlaceInv'
    BY <1>1, <2>1 DEF PipeInv, PlaceInv
  <2>3. Ready' => decoder.serial = m_worker_serial
    <3>1. worker = "read" /\ (Ready' => task.serial = m_worker_serial)
      BY <1>1, <1>3 DEF Ready, WorkerReads
    <3>2. m_worker_seek_requested => task.serial < m_worker_serial
      BY <1>1 DEF PipeInv, VideoInv, RequestInv
    <3> QED BY <1>2, <3>1, <3>2 DEF PipeInv, VideoInv, RequestInv
  <2>4. decoder.serial = m_worker_serial => (~Ready' => result'.kind # "Frame")
    <3>1. decoder.serial = m_worker_serial => task.serial = m_worker_serial
      BY <1>1 DEF PipeInv, PlaceInv
    <3> QED BY <1>1, <3>1 DEF Ready
  <2>5. Ready' => result'.kind = "Frame"
    BY DEF Ready
  <2>6. NumberedInv'
    BY <1>1, <1>2, <2>1, <2>3, <2>4, <2>5 DEF PipeInv, NumberedInv
  <2> QED BY <2>2, <2>6
<1>4. CASE WorkerSeeks
  <2>1. worker = "seek" /\ m_frame_queue = <<>> /\ Len(<<>>) = 0
    BY <1>1, <1>4, EmptySeq DEF WorkerSeeks, PipeInv, VideoInv, TaskInv
  <2>2. shown.serial # m_worker_serial
    BY <2>1 DEF PipeInv, PlaceInv
  <2>3. /\ decoder'.serial = task.serial
        /\ result'.kind = "Frame" => decoder'.next = result'.frame.timestamp + 1
    <3>1. ASSUME NEW p \in SeekPositions(task.time), ReadFrame(p, task.serial)
          PROVE  /\ decoder'.serial = task.serial
                 /\ result'.kind = "Frame" => decoder'.next = result'.frame.timestamp + 1
      <4>1. p \in Int
        BY <1>2, SeekPositionsTypes, FramesAssumption
      <4> QED BY <3>1, <4>1, ReadResult
    <3>2. CASE /\ result' = [kind |-> "Error"]
               /\ decoder' = [decoder EXCEPT !.serial = task.serial]
      BY <1>2, <3>2 DEF Positions
    <3> QED BY <1>4, <3>1, <3>2 DEF WorkerSeeks
  <2>4. m_worker_seek_requested => task.serial # m_worker_serial
    BY <1>1, <1>2 DEF PipeInv, VideoInv, RequestInv
  <2>5. PlaceInv'
    BY <1>1, <1>2, <2>2, <2>3, <2>4 DEF PipeInv, PlaceInv
  <2>6. Ready' => result'.kind = "Frame"
    BY DEF Ready
  <2>7. NumberedInv'
    BY <1>1, <2>1, <2>2, <2>3, <2>6 DEF NumberedInv
  <2> QED BY <2>5, <2>7
<1> QED BY <1>3, <1>4

\* What is handed over under the serial of the last request is always wanted.
LEMMA PublishKeepsPipe ==
  ASSUME PipeInv, WorkerPublishes
  PROVE  PlaceInv' /\ NumberedInv'
<1> DEFINE q == m_frame_queue
<1>1. /\ UNCHANGED <<shown, m_worker_seek_requested, m_worker_serial, decoder>>
      /\ worker = "publish" /\ Busy /\ worker' = "wait" /\ ~Busy' /\ ~Ready'
  BY DEF WorkerPublishes, engineVars, seekVars, Ready, Busy
<1>2. /\ Len(q) \in Nat /\ m_worker_serial \in Nat /\ QueueSize \in Nat \ {0}
      /\ \A i \in 1 .. Len(q) : q[i].timestamp \in Int
      /\ shown.timestamp \in Int /\ shown.serial \in Int
      /\ task.serial \in Nat /\ task.serial <= m_worker_serial
  BY PipeTypes, FramesAssumption DEF PipeInv
<1>3. PlaceInv'
  BY <1>1 DEF PipeInv, PlaceInv
<1>4. CASE Ready
  <2>1. Wanted
    <3>1. ~m_worker_seek_requested
      BY <1>1, <1>2, <1>4 DEF Ready, PipeInv, VideoInv, RequestInv
    <3> QED BY <1>1, <1>4, <3>1 DEF Ready, Wanted, PipeInv, PlaceInv
  <2>2. q' = Append(q, result.frame)
    BY <1>4, <2>1 DEF Ready, WorkerPublishes
  <2>3. result.frame \in Frame /\ result.frame.timestamp \in Int
    BY <1>4, FramesAssumption DEF Ready, PipeInv, VideoInv, TypeOK, WorkerTypes, Results, Frame
  <2>4. /\ Len(q') = Len(q) + 1 /\ q'[Len(q) + 1] = result.frame
        /\ \A i \in 1 .. Len(q) : q'[i] = q[i]
    BY <2>2, <2>3, AppendProperties DEF PipeInv, VideoInv, TypeOK
  <2>5. /\ \A i, j \in 1 .. Len(q) : q[j].timestamp = q[i].timestamp + (j - i)
        /\ shown.serial = m_worker_serial
             => /\ \A i \in 1 .. Len(q) : q[i].timestamp = shown.timestamp + i
                /\ result.frame.timestamp = shown.timestamp + Len(q) + 1
        /\ \A i \in 1 .. Len(q) : result.frame.timestamp = q[i].timestamp + (Len(q) + 1 - i)
        /\ decoder.next = result.frame.timestamp + 1
    BY <1>4 DEF PipeInv, NumberedInv
  <2>6. ASSUME NEW i \in 1 .. Len(q')
        PROVE  /\ q'[i].timestamp \in Int
               /\ decoder'.next = q'[i].timestamp + (Len(q') + 1 - i)
               /\ shown.serial = m_worker_serial => q'[i].timestamp = shown.timestamp + i
    <3>1. CASE i \in 1 .. Len(q)
      <4>1. q'[i] = q[i] /\ q[i].timestamp \in Int
        BY <1>2, <2>4, <3>1
      <4>2. result.frame.timestamp = q[i].timestamp + (Len(q) + 1 - i)
        BY <2>5, <3>1
      <4>3. decoder.next = q[i].timestamp + (Len(q) + 1 + 1 - i)
        <5>1. decoder.next = q[i].timestamp + (Len(q) + 1 - i) + 1
          BY <2>5, <4>2
        <5>2. Len(q) \in Int /\ i \in Int
          BY <1>2, <3>1
        <5> QED BY <4>1, <5>1, <5>2
      <4>4. shown.serial = m_worker_serial => q[i].timestamp = shown.timestamp + i
        BY <2>5, <3>1
      <4> QED BY <1>1, <2>4, <4>1, <4>3, <4>4
    <3>2. CASE i = Len(q) + 1
      <4>1. q'[i] = result.frame /\ Len(q') + 1 - i = 1
        BY <1>2, <2>4, <3>2
      <4>2. shown.serial = m_worker_serial => result.frame.timestamp = shown.timestamp + i
        <5>1. shown.serial = m_worker_serial
                => result.frame.timestamp = shown.timestamp + Len(q) + 1
          BY <2>5
        <5>2. Len(q) \in Int /\ shown.timestamp \in Int
          BY <1>2
        <5>3. shown.timestamp + Len(q) + 1 = shown.timestamp + (Len(q) + 1)
          BY <5>2
        <5> QED BY <3>2, <5>1, <5>3
      <4> QED BY <1>1, <2>3, <2>5, <4>1, <4>2
    <3> QED BY <1>2, <2>4, <3>1, <3>2
  <2>7. \A i, j \in 1 .. Len(q') : q'[j].timestamp = q'[i].timestamp + (j - i)
    <3> TAKE i, j \in 1 .. Len(q')
    <3>1. /\ decoder'.next = q'[i].timestamp + (Len(q') + 1 - i) /\ q'[i].timestamp \in Int
          /\ decoder'.next = q'[j].timestamp + (Len(q') + 1 - j) /\ q'[j].timestamp \in Int
      BY <2>6
    <3>2. Len(q') \in Int
      BY <1>2, <2>4
    <3> QED BY <3>1, <3>2
  <2>8. shown.serial = m_worker_serial => decoder'.next = shown.timestamp + Len(q') + 1
    <3>1. shown.serial = m_worker_serial
            => decoder.next = shown.timestamp + Len(q) + 1 + 1
      BY <2>5
    <3>2. Len(q') = Len(q) + 1 /\ Len(q) \in Int /\ shown.timestamp \in Int
      BY <1>2, <2>4
    <3> QED BY <1>1, <3>1, <3>2
  <2> QED BY <1>1, <1>3, <2>6, <2>7, <2>8 DEF NumberedInv
<1>5. CASE ~Ready
  <2>1. q' = q
    BY <1>1, <1>5 DEF WorkerPublishes, Wanted, Ready
  <2> QED BY <1>1, <1>3, <1>5, <2>1 DEF PipeInv, NumberedInv
<1> QED BY <1>4, <1>5

LEMMA NextKeepsPipe == PipeInv /\ [Next]_vars => PipeInv'
<1> SUFFICES ASSUME PipeInv, [Next]_vars PROVE PlaceInv' /\ NumberedInv'
  BY NextKeepsInv DEF PipeInv
<1>1. CASE PlayFromStart
  BY <1>1, RequestKeepsPipe DEF PlayFromStart
<1>2. CASE PlayGoesOn
  BY <1>2, FlagsKeepPipe DEF PlayGoesOn, seekVars
<1>3. CASE Pause
  BY <1>3, FlagsKeepPipe DEF Pause, seekVars
<1>4. CASE Resume
  BY <1>4, FlagsKeepPipe DEF Resume, seekVars
<1>5. CASE Stop
  BY <1>5, FlagsKeepPipe DEF Stop, seekVars
<1>6. CASE StopGoesBack
  BY <1>6, RequestKeepsPipe DEF StopGoesBack, clockVars
<1>7. ASSUME NEW seconds \in Seconds, Seek(seconds)
      PROVE  PlaceInv' /\ NumberedInv'
  BY <1>7, RequestKeepsPipe DEF Seek
<1>8. CASE Update
  BY <1>8, UpdateKeepsPipe
<1>9. CASE UpdateDisables
  BY <1>9, FlagsKeepPipe DEF UpdateDisables, clockVars, seekVars
<1>10. CASE UpdateFinishes
  <2>1. shown' = shown
    BY <1>10 DEF UpdateFinishes, clockVars
  <2>2. CASE RequestWorkerSeek(m_time)
    BY <2>1, <2>2, RequestKeepsPipe
  <2>3. CASE /\ Notify
             /\ UNCHANGED <<m_frame_queue, m_worker_exit, m_worker_eof, m_worker_error,
                            seekVars, taskVars>>
    BY <2>1, <2>3, FlagsKeepPipe DEF seekVars
  <2> QED BY <1>10, <2>2, <2>3 DEF UpdateFinishes
<1>11. CASE Destroy
  BY <1>11, FlagsKeepPipe DEF Destroy, clockVars, seekVars
<1>12. CASE Joined
  BY <1>12, FlagsKeepPipe DEF Joined, clockVars, sharedVars, seekVars
<1>13. CASE Worker
  BY <1>13, WaitKeepsPipe, DecoderKeepsPipe, PublishKeepsPipe DEF Worker
<1>14. CASE vars' = vars
  BY <1>14, FlagsKeepPipe DEF vars, engineVars, sharedVars, seekVars
<1> QED BY <1>1, <1>2, <1>3, <1>4, <1>5, <1>6, <1>7, <1>8, <1>9, <1>10, <1>11, <1>12, <1>13,
           <1>14 DEF Next, Script, EngineGoesOn

\* The pipeline, place by place
LEMMA PipelineAt ==
  ASSUME VideoInv
  PROVE  LET s == IF shown.serial = m_worker_serial THEN 1 ELSE 0
             n == Len(m_frame_queue)
             r == IF Ready THEN 1 ELSE 0
         IN  /\ Pipeline \in Seq(Frame) /\ Len(Pipeline) = s + n + r
             /\ \A i \in 1 .. s + n + r :
                  Pipeline[i] = IF i <= s THEN shown
                                ELSE IF i <= s + n THEN m_frame_queue[i - s] ELSE result.frame
<1> DEFINE n == Len(m_frame_queue)
<1>1. shown \in Frame /\ m_frame_queue \in Seq(Frame) /\ (Ready => result.frame \in Frame)
  BY DEF VideoInv, TypeOK, EngineTypes, WorkerTypes, Results, Ready
<1>2. /\ Shown \in Seq(Frame) /\ Len(Shown) = IF shown.serial = m_worker_serial THEN 1 ELSE 0
      /\ \A i \in 1 .. Len(Shown) : Shown[i] = shown
  BY <1>1 DEF Shown
<1>3. /\ InFlight \in Seq(Frame) /\ Len(InFlight) = IF Ready THEN 1 ELSE 0
      /\ \A i \in 1 .. Len(InFlight) : InFlight[i] = result.frame
  BY <1>1 DEF InFlight, Ready
<1>4. /\ Shown \o m_frame_queue \in Seq(Frame) /\ n \in Nat
      /\ Len(Shown \o m_frame_queue) = Len(Shown) + n
      /\ \A i \in 1 .. Len(Shown) + n :
           (Shown \o m_frame_queue)[i]
             = IF i <= Len(Shown) THEN Shown[i] ELSE m_frame_queue[i - Len(Shown)]
  BY <1>1, <1>2, ConcatProperties, LenProperties
<1>5. /\ Pipeline \in Seq(Frame) /\ Len(Pipeline) = Len(Shown) + n + Len(InFlight)
      /\ \A i \in 1 .. Len(Shown) + n + Len(InFlight) :
           Pipeline[i] = IF i <= Len(Shown) + n THEN (Shown \o m_frame_queue)[i]
                         ELSE InFlight[i - (Len(Shown) + n)]
  <2> DEFINE front == Shown \o m_frame_queue
  <2>1. Pipeline = front \o InFlight
    BY DEF Pipeline
  <2>2. front \in Seq(Frame) /\ Len(front) = Len(Shown) + n
    BY <1>4
  <2> HIDE DEF front
  <2>3. /\ front \o InFlight \in Seq(Frame)
        /\ Len(front \o InFlight) = Len(front) + Len(InFlight)
        /\ \A i \in 1 .. Len(front) + Len(InFlight) :
             (front \o InFlight)[i]
               = IF i <= Len(front) THEN front[i] ELSE InFlight[i - Len(front)]
    BY <1>3, <2>2, ConcatProperties
  <2> QED BY <2>1, <2>2, <2>3 DEF front
<1> HIDE DEF n
<1> DEFINE s == IF shown.serial = m_worker_serial THEN 1 ELSE 0
           r == IF Ready THEN 1 ELSE 0
<1>6. s = Len(Shown) /\ r = Len(InFlight) /\ s \in Nat /\ r \in Nat /\ n \in Nat
  BY <1>2, <1>3, <1>4
<1> HIDE DEF s, r
<1>7. ASSUME NEW i \in 1 .. s + n + r
      PROVE  Pipeline[i] = IF i <= s THEN shown
                           ELSE IF i <= s + n THEN m_frame_queue[i - s] ELSE result.frame
  <2>1. CASE i <= s
    <3>1. Pipeline[i] = (Shown \o m_frame_queue)[i] /\ i \in 1 .. s
      BY <1>5, <1>6, <2>1
    <3>2. (Shown \o m_frame_queue)[i] = Shown[i]
      BY <1>4, <1>6, <3>1
    <3> QED BY <1>2, <1>6, <2>1, <3>1, <3>2
  <2>2. CASE i > s /\ i <= s + n
    <3>0. i \in 1 .. s + n /\ i \in 1 .. Len(Shown) + n + Len(InFlight) /\ i <= Len(Shown) + n
      BY <1>6, <2>2
    <3>1. Pipeline[i] = (Shown \o m_frame_queue)[i]
      BY <1>5, <3>0
    <3>2. (Shown \o m_frame_queue)[i] = m_frame_queue[i - s]
      BY <1>4, <1>6, <2>2, <3>0
    <3>3. ~(i <= s)
      BY <1>6, <2>2
    <3> QED BY <2>2, <3>1, <3>2, <3>3
  <2>3. CASE i > s + n
    <3>1. Pipeline[i] = InFlight[i - (s + n)] /\ i - (s + n) \in 1 .. r
      BY <1>5, <1>6, <2>3
    <3> QED BY <1>3, <1>6, <2>3, <3>1
  <2> QED BY <1>6, <2>1, <2>2, <2>3
<1>8. Pipeline \in Seq(Frame) /\ Len(Pipeline) = s + n + r
  BY <1>5, <1>6
<1> QED BY <1>7, <1>8 DEF n, s, r

LEMMA PipeSkipsNothing == PipeInv => NoFrameSkipped
<1> SUFFICES ASSUME PipeInv PROVE NoFrameSkipped
  OBVIOUS
<1> DEFINE s == IF shown.serial = m_worker_serial THEN 1 ELSE 0
           n == Len(m_frame_queue)
           r == IF Ready THEN 1 ELSE 0
           At(i) == IF i <= s THEN shown
                    ELSE IF i <= s + n THEN m_frame_queue[i - s] ELSE result.frame
<1>1. /\ Len(Pipeline) = s + n + r /\ Pipeline \in Seq(Frame)
      /\ \A i \in 1 .. s + n + r : Pipeline[i] = At(i)
  BY PipelineAt DEF PipeInv
<1>2. /\ n \in Nat /\ s \in {0, 1} /\ r \in {0, 1}
      /\ \A i \in 1 .. n : m_frame_queue[i].timestamp \in Int
      /\ shown.timestamp \in Int /\ decoder.next \in Int
      /\ r = 1 => result.frame.timestamp \in Int
  BY PipeTypes DEF PipeInv, Ready
<1>3. /\ \A i, j \in 1 .. n : m_frame_queue[j].timestamp = m_frame_queue[i].timestamp + (j - i)
      /\ s = 1 => \A i \in 1 .. n : m_frame_queue[i].timestamp = shown.timestamp + i
      /\ r = 1 => /\ \A i \in 1 .. n :
                       result.frame.timestamp = m_frame_queue[i].timestamp + (n + 1 - i)
                  /\ s = 1 => result.frame.timestamp = shown.timestamp + n + 1
                  /\ decoder.next = result.frame.timestamp + 1
      /\ r = 0 /\ decoder.serial = m_worker_serial
           => /\ \A i \in 1 .. n : decoder.next = m_frame_queue[i].timestamp + (n + 1 - i)
              /\ s = 1 => decoder.next = shown.timestamp + n + 1
  BY DEF PipeInv, NumberedInv
<1> HIDE DEF s, n, r
<1>4. ASSUME NEW i \in 1 .. s + n + r - 1
      PROVE  At(i + 1).timestamp = At(i).timestamp + 1
  <2>1. CASE i <= s
    <3>1. i = 1 /\ s = 1
      BY <1>2, <2>1
    <3>2. CASE n = 0
      <4>1. r = 1 /\ At(i + 1) = result.frame /\ At(i) = shown
        BY <1>2, <3>1, <3>2
      <4> QED BY <1>2, <1>3, <3>1, <3>2, <4>1
    <3>3. CASE n # 0
      <4>1. 1 \in 1 .. n /\ At(i + 1) = m_frame_queue[1] /\ At(i) = shown
        BY <1>2, <3>1, <3>3
      <4> QED BY <1>2, <1>3, <3>1, <4>1
    <3> QED BY <3>2, <3>3
  <2>2. CASE i > s /\ i + 1 <= s + n
    <3>1. /\ i - s \in 1 .. n /\ i + 1 - s \in 1 .. n /\ (i + 1 - s) - (i - s) = 1
          /\ At(i) = m_frame_queue[i - s] /\ At(i + 1) = m_frame_queue[i + 1 - s]
      BY <1>2, <2>2
    <3> QED BY <1>3, <3>1
  <2>3. CASE i > s /\ i + 1 > s + n
    <3>1. /\ i = s + n /\ r = 1 /\ n \in 1 .. n /\ At(i) = m_frame_queue[n]
          /\ At(i + 1) = result.frame /\ n + 1 - n = 1
      BY <1>2, <2>3
    <3> QED BY <1>3, <3>1
  <2> QED BY <1>2, <2>1, <2>2, <2>3
<1>5. ASSUME s + n + r # 0, decoder.serial = m_worker_serial
      PROVE  decoder.next = At(s + n + r).timestamp + 1
  <2>1. CASE r = 1
    <3>1. At(s + n + r) = result.frame
      BY <1>2, <2>1
    <3> QED BY <1>3, <2>1, <3>1
  <2>2. CASE r = 0 /\ n # 0
    <3>1. At(s + n + r) = m_frame_queue[n] /\ n \in 1 .. n /\ n + 1 - n = 1
      BY <1>2, <2>2
    <3> QED BY <1>3, <1>5, <2>2, <3>1
  <2>3. CASE r = 0 /\ n = 0
    <3>1. At(s + n + r) = shown /\ s = 1
      BY <1>2, <1>5, <2>3
    <3> QED BY <1>2, <1>3, <1>5, <2>3, <3>1
  <2> QED BY <1>2, <2>1, <2>2, <2>3
<1> HIDE DEF At
<1>6. \A i \in 1 .. Len(Pipeline) - 1 :
        /\ i \in 1 .. s + n + r /\ i + 1 \in 1 .. s + n + r /\ i \in 1 .. s + n + r - 1
  BY <1>1, <1>2
<1>7. Pipeline # <<>> => Len(Pipeline) # 0 /\ Len(Pipeline) \in 1 .. s + n + r
  <2>1. Pipeline # <<>> => Len(Pipeline) # 0
    BY <1>1, EmptySeq
  <2> QED BY <1>1, <1>2, <2>1
<1>8. \A i \in 1 .. Len(Pipeline) - 1 : Pipeline[i + 1].timestamp = Pipeline[i].timestamp + 1
  BY <1>1, <1>4, <1>6
<1>9. Pipeline # <<>> /\ decoder.serial = m_worker_serial
        => decoder.next = Pipeline[Len(Pipeline)].timestamp + 1
  BY <1>1, <1>5, <1>7
<1> QED BY <1>8, <1>9 DEF NoFrameSkipped

\* From the screen to the decoder no frame of a request is missing or doubled,
\* whatever the size of the queue and however the two threads take turns.
THEOREM VideoSkipsNothing == Spec => []NoFrameSkipped
BY InitPipeInv, NextKeepsPipe, PipeSkipsNothing, PTL DEF Spec

\* No step of either thread puts an earlier frame on the screen, nor one of an
\* earlier request.
THEOREM VideoMovesForward == Spec => PictureMovesForward
<1>1. ASSUME PipeInv, [Next]_vars
      PROVE  [\/ shown'.serial > shown.serial
              \/ shown'.serial = shown.serial /\ shown'.timestamp >= shown.timestamp]_vars
  <2>1. /\ shown.serial \in Int /\ shown.timestamp \in Int /\ m_worker_serial \in Nat
        /\ shown.serial <= m_worker_serial
    BY <1>1, PipeTypes DEF PipeInv, PlaceInv
  <2>2. CASE shown' = shown
    BY <2>1, <2>2
  <2>3. CASE Update
    <3>1. \/ shown' = shown
          \/ shown'.serial = m_worker_serial
             /\ (shown.serial = m_worker_serial => shown'.timestamp >= shown.timestamp)
      BY <1>1, <2>3, UpdateKeepsPipe
    <3> QED BY <2>1, <3>1
  <2>4. shown' = shown \/ Update
    <3>1. CASE Script
      BY <3>1 DEF Script, PlayFromStart, PlayGoesOn, Pause, Resume, Stop, Seek
    <3>2. CASE EngineGoesOn \/ Destroy
      BY <3>2 DEF EngineGoesOn, PlayGoesOn, StopGoesBack, UpdateDisables, UpdateFinishes,
                  Joined, Destroy, clockVars
    <3>3. CASE Worker
      BY <3>3 DEF Worker, WorkerLeaves, WorkerTakesSeek, WorkerDecodesOn, WorkerSleeps,
                  WorkerSeeks, WorkerReads, WorkerPublishes, engineVars
    <3>4. CASE vars' = vars
      BY <3>4 DEF vars, engineVars
    <3> QED BY <1>1, <3>1, <3>2, <3>3, <3>4 DEF Next
  <2> QED BY <2>2, <2>3, <2>4
<1> QED BY <1>1, InitPipeInv, NextKeepsPipe, PTL DEF Spec, PictureMovesForward

-----------------------------------------------------------------------------
LEMMA NextKeepsWake == WakeInv /\ [Next]_vars => WakeInv'
<1> SUFFICES ASSUME WakeInv, [Next]_vars PROVE WakeInv'
  OBVIOUS
<1> USE DEF WakeInv, MayDecode
<1>1. CASE Script
  BY <1>1 DEF Script, PlayFromStart, PlayGoesOn, Pause, Resume, Stop, Seek, RequestWorkerSeek,
              SeekFields, Notify, seekVars, taskVars
<1>2. CASE UpdateStill
  BY <1>2 DEF UpdateStill
<1>3. ASSUME NEW delta \in Deltas, UpdatePlaying(delta)
      PROVE  WakeInv'
  <2>1. /\ UNCHANGED <<m_worker_exit, m_worker_seek_requested, worker>>
        /\ pc' \in {"disable", "finish"}
    BY <1>3 DEF UpdatePlaying
  <2> QED BY <2>1
<1>4. CASE EngineGoesOn \/ Destroy
  BY <1>4 DEF EngineGoesOn, PlayGoesOn, StopGoesBack, UpdateDisables, UpdateFinishes, Joined,
              Destroy, RequestWorkerSeek, SeekFields, Notify, clockVars, sharedVars, seekVars,
              taskVars
<1>5. CASE Worker
  BY <1>5 DEF Worker, WorkerLeaves, WorkerTakesSeek, WorkerDecodesOn, WorkerSleeps,
              WorkerSeeks, WorkerReads, WorkerPublishes, engineVars, sharedVars, seekVars
<1>6. CASE vars' = vars
  BY <1>6 DEF vars, engineVars, sharedVars, seekVars
<1> QED BY <1>1, <1>2, <1>3, <1>4, <1>5, <1>6 DEF Next, Update

\* While a video plays the worker never sleeps through anything it has to do:
\* every change that gives it work is followed by a notification before the
\* engine thread's call returns.
THEOREM VideoWakesItsWorker == Spec => []NoLostWakeup
<1>1. Init => WakeInv
  BY DEF Init, WakeInv
<1>2. WakeInv => NoLostWakeup
  BY DEF WakeInv, NoLostWakeup
<1> QED BY <1>1, <1>2, NextKeepsWake, PTL DEF Spec

-----------------------------------------------------------------------------
(* The destructor *)

\* The exit flag is the destructor's; the worker leaves only when it is set, and
\* the destructor returns only when the worker has left.
LeaveInv ==
  /\ m_worker_exit <=> pc \in {"joining", "gone"}
  /\ worker = "done" => m_worker_exit
  /\ pc = "gone" => worker = "done"

\* When the destructor has returned nobody uses the video: the worker takes no
\* further step, although it may have been decoding when it was told to leave.
NothingAfterGone == [][pc # "gone"]_vars

\* The destructor never waits for a worker that sleeps: the flag is set and
\* notified before join, and a worker that finds it set does not go to sleep.
JoinsAwakeWorker == pc = "joining" => m_worker_exit /\ worker # "asleep"

LEMMA NobodyIsLeft == ASSUME LeaveInv, pc = "gone", Next PROVE FALSE
<1>1. worker = "done"
  BY DEF LeaveInv
<1>2. ~Script
  BY DEF Script, CallsLeft, PlayFromStart, Pause, Resume, Stop, Seek
<1>3. ~Update /\ ~EngineGoesOn /\ ~Destroy
  BY DEF Update, UpdateStill, UpdatePlaying, EngineGoesOn, StopGoesBack, UpdateDisables,
         UpdateFinishes, Joined, Destroy
<1>4. ~Worker
  BY <1>1 DEF Worker, WorkerLeaves, WorkerTakesSeek, WorkerDecodesOn, WorkerSleeps,
              WorkerSeeks, WorkerReads, WorkerPublishes
<1> QED BY <1>2, <1>3, <1>4 DEF Next

LEMMA NextKeepsLeave == ASSUME LeaveInv, [Next]_vars PROVE LeaveInv'
<1>1. CASE Script
  <2>1. /\ m_worker_exit' = m_worker_exit /\ worker' \in {worker, "wait"} /\ pc = "idle"
        /\ pc' \in {"idle", "play", "stop"}
    BY <1>1 DEF Script, CallsLeft, PlayFromStart, PlayGoesOn, Pause, Resume, Stop, Seek,
                RequestWorkerSeek, SeekFields, Notify
  <2> QED BY <2>1 DEF LeaveInv
<1>2. CASE Update
  <2>1. UNCHANGED <<m_worker_exit, worker>> /\ pc = "idle" /\ pc' \in {"idle", "disable", "finish"}
    BY <1>2 DEF Update, UpdateStill, UpdatePlaying
  <2> QED BY <2>1 DEF LeaveInv
<1>3. CASE EngineGoesOn /\ ~Joined
  <2>1. /\ m_worker_exit' = m_worker_exit /\ worker' \in {worker, "wait"}
        /\ pc \in {"play", "stop", "disable", "finish"} /\ pc' \in {"idle", "finish"}
    BY <1>3 DEF EngineGoesOn, PlayGoesOn, StopGoesBack, UpdateDisables, UpdateFinishes,
                RequestWorkerSeek, SeekFields, Notify
  <2> QED BY <2>1 DEF LeaveInv
<1>4. CASE Joined
  BY <1>4 DEF Joined, sharedVars, LeaveInv
<1>5. CASE Destroy
  BY <1>5 DEF Destroy, Notify, LeaveInv
<1>6. CASE Worker
  <2>1. UNCHANGED <<pc, m_worker_exit>> /\ worker # "done"
    BY <1>6 DEF Worker, WorkerLeaves, WorkerTakesSeek, WorkerDecodesOn, WorkerSleeps,
                WorkerSeeks, WorkerReads, WorkerPublishes, engineVars, sharedVars
  <2>2. worker' = "done" => m_worker_exit
    BY <1>6 DEF Worker, WorkerLeaves, WorkerTakesSeek, WorkerDecodesOn, WorkerSleeps,
                WorkerSeeks, WorkerReads, WorkerPublishes
  <2> QED BY <2>1, <2>2 DEF LeaveInv
<1>7. CASE UNCHANGED vars
  BY <1>7 DEF vars, engineVars, sharedVars, LeaveInv
<1> QED BY <1>1, <1>2, <1>3, <1>4, <1>5, <1>6, <1>7 DEF Next

LEMMA LeavesAlways == Spec => []LeaveInv
<1>1. Init => LeaveInv
  BY DEF Init, LeaveInv
<1>2. LeaveInv /\ [Next]_vars => LeaveInv'
  BY NextKeepsLeave
<1> QED BY <1>1, <1>2, PTL DEF Spec

\* For any video, any queue and any number of calls the destructor leaves no
\* thread behind that still uses the video.
THEOREM NobodyOutlivesVideo == Spec => NothingAfterGone
<1>1. LeaveInv /\ [Next]_vars => [pc # "gone"]_vars
  BY NobodyIsLeft
<1> QED BY <1>1, LeavesAlways, PTL DEF Spec, NothingAfterGone

\* However the destructor meets the worker, the worker it joins is awake or has
\* left: this is what its return, checked as a liveness property, rests on.
THEOREM VideoJoinsAwakeWorker == Spec => []JoinsAwakeWorker
<1>1. Init => WakeInv
  BY DEF Init, WakeInv
<1>2. WakeInv /\ LeaveInv => JoinsAwakeWorker
  BY DEF WakeInv, LeaveInv, JoinsAwakeWorker
<1> QED BY <1>1, <1>2, NextKeepsWake, LeavesAlways, PTL DEF Spec
=============================================================================
