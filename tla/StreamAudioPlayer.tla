------------------------- MODULE StreamAudioPlayer --------------------------
(***************************************************************************)
(* StreamAudioPlayerXAudio2, the player of music.  Three threads share it: *)
(* the engine's (play, pause, ..., a change of the audio endpoint, the     *)
(* destructor), XAudio2's (it plays buffers and calls OnBufferEnd) and the *)
(* decoding thread, which takes actions from a queue.  The queue behaves   *)
(* as LossyQueue says (ActionQueue is its implementation).                 *)
(*                                                                         *)
(* A buffer makes a round: available, decoded into, submitted to the       *)
(* voice, played, available.  Positions in the music are counted in units  *)
(* of which a buffer holds MaxSamples.                                     *)
(***************************************************************************)
EXTENDS Integers, Sequences, FiniteSets

CONSTANTS
  QueueSize,   \* places in the action queue (64 in the engine)
  FrameCount,  \* length of the music
  MaxSamples,  \* what a buffer holds
  Positions,   \* where scripts start to play
  Loops,       \* loop settings scripts make
  MaxCalls     \* bound: calls the engine thread makes

ASSUME SizesAssumption ==
  /\ QueueSize \in Nat \ {0} /\ FrameCount \in Nat \ {0} /\ MaxSamples \in Nat \ {0}
  /\ MaxCalls \in Nat
ASSUME InputAssumption ==
  /\ Positions \subseteq Nat
  /\ Loops \subseteq [on : BOOLEAN, start : Nat, length : Nat]

Buffers  == {0, 1}
NoBuffer == 2

VARIABLES
  m_state, m_event_exit,
  epc, todo,        \* the engine thread, and the actions it still has to send
  m_queue,          \* m_action_queue
  voice,            \* m_voice: none, stopped or started
  held, ended,      \* buffers in the voice, and flushed ones that it has to report
  acb,              \* the buffer whose OnBufferEnd is running
  wpc, action,      \* the decoding thread and its action
  m_current_sample, loop,
  content,          \* what the buffers hold
  calls,
  \* history: buffers that nobody will make available again, whether a command
  \* was lost, and whether the endpoint was changed
  parked, missed, reopened

vars == <<m_state, m_event_exit, epc, todo, m_queue, voice, held, ended, acb, wpc, action,
          m_current_sample, loop, content, calls, parked, missed, reopened>>
engineVars == <<m_state, m_event_exit, epc, todo, calls, reopened>>
voiceVars  == <<voice, held, ended, acb>>
workerVars == <<wpc, action, m_current_sample, loop, content>>

Act(t)       == [type |-> t, buffer |-> NoBuffer, start |-> 0, length |-> 0]
Available(b) == [Act("buffer_available") EXCEPT !.buffer = b]

Min2(a, b) == IF a < b THEN a ELSE b

\* The player after its decoding thread was started; create() comes next.
Init ==
  /\ m_state = "stopped" /\ m_event_exit = FALSE
  /\ epc = "create" /\ todo = <<>> /\ m_queue = <<>>
  /\ voice = "none" /\ held = <<>> /\ ended = <<>> /\ acb = NoBuffer
  /\ wpc = "test" /\ action = Act("exit")
  /\ m_current_sample = 0 /\ loop = [on |-> FALSE, start |-> 0, count |-> 0]
  /\ content = [b \in Buffers |-> [from |-> 0, to |-> 0, jump |-> FALSE]]
  /\ calls = 0 /\ parked = Buffers /\ missed = FALSE /\ reopened = FALSE

-----------------------------------------------------------------------------
(* sendAction, as LossyQueue has it *)

Put(a) == Len(m_queue) < QueueSize /\ m_queue' = Append(m_queue, a) /\ UNCHANGED <<parked, missed>>

\* The second is over: a lost buffer is never filled again, a lost command
\* never carried out.
Lose(a) ==
  /\ Len(m_queue) >= QueueSize - 1
  /\ IF a.buffer = NoBuffer THEN missed' = TRUE /\ UNCHANGED parked
                            ELSE parked' = parked \cup {a.buffer} /\ UNCHANGED missed
  /\ UNCHANGED m_queue

SendAction(a) == Put(a) \/ Lose(a)

-----------------------------------------------------------------------------
(* The engine's thread *)

Command(s, a) ==
  /\ epc = "idle" /\ calls < MaxCalls
  /\ calls' = calls + 1
  /\ m_state' = s
  /\ epc' = "send" /\ todo' = <<a>>
  /\ UNCHANGED <<m_event_exit, reopened, m_queue, voiceVars, workerVars, parked, missed>>

play(t)    == Command("playing", [Act("play") EXCEPT !.start = t])
pause      == m_state = "playing" /\ Command("paused", Act("pause"))
resume     == m_state = "paused" /\ Command("playing", Act("resume"))
stop       == Command("stopped", Act("stop"))
setLoop(l) ==
  Command(m_state, [Act(IF l.on THEN "loop" ELSE "unloop")
                      EXCEPT !.start = l.start, !.length = l.length])

SendNext ==
  /\ epc = "send"
  /\ SendAction(Head(todo))
  /\ todo' = Tail(todo)
  /\ epc' = IF Len(todo) = 1 THEN "idle" ELSE "send"
  /\ UNCHANGED <<m_state, m_event_exit, calls, reopened, voiceVars, workerVars>>

\* setAudioEndpoint: onAudioEngineDestroy, then onAudioEngineCreate.
setAudioEndpoint ==
  /\ epc = "idle" /\ calls < MaxCalls
  /\ calls' = calls + 1 /\ reopened' = TRUE
  /\ epc' = "destroy"
  /\ UNCHANGED <<m_state, m_event_exit, todo, m_queue, voiceVars, workerVars, parked, missed>>

\* destroy() holds m_voice_lock while DestroyVoice waits for the callback that
\* is running; the voice forgets its buffers.
lockFree == epc \notin {"destroy", "final"}

destroy(after) ==
  /\ acb = NoBuffer
  /\ voice' = "none" /\ held' = <<>> /\ ended' = <<>>
  /\ parked' = parked \cup {b \in Buffers : \E i \in 1 .. Len(held \o ended) : (held \o ended)[i] = b}
  /\ epc' = after
  /\ UNCHANGED <<m_state, m_event_exit, todo, calls, reopened, m_queue, acb, workerVars, missed>>

Destroy == epc = "destroy" /\ destroy("create")

\* Mutant of Restore: a player that was playing is not resumed.
RestoreSilent == <<Available(0), Available(1)>>

\* Mutant of Restore: one buffer is forgotten.
RestoreOne == <<Available(0)>> \o (IF m_state = "playing" THEN <<Act("resume")>> ELSE <<>>)

Restore ==
  <<Available(0), Available(1)>> \o (IF m_state = "playing" THEN <<Act("resume")>> ELSE <<>>)

\* create(): a new voice is stopped and empty.  It fails without a voice, or,
\* when the voice refuses its settings, with one that is never given a buffer.
create ==
  /\ epc = "create"
  /\ \/ /\ voice' = "stopped" /\ todo' = Restore /\ epc' = "send"
        /\ parked' = {} /\ UNCHANGED missed
     \/ /\ voice' \in {"none", "stopped"} /\ epc' = "idle"
        /\ missed' = (missed \/ voice' = "stopped") /\ UNCHANGED <<todo, parked>>
  /\ UNCHANGED <<m_state, m_event_exit, calls, reopened, m_queue, held, ended, acb, workerVars>>

\* The destructor: the exit flag, join, destroy.
Destruct ==
  /\ epc = "idle"
  /\ m_event_exit' = TRUE /\ epc' = "join"
  /\ UNCHANGED <<m_state, todo, calls, reopened, m_queue, voiceVars, workerVars, parked, missed>>

Join ==
  /\ epc = "join" /\ wpc = "exited" /\ epc' = "final"
  /\ UNCHANGED <<m_state, m_event_exit, todo, calls, reopened, m_queue, voiceVars, workerVars,
                 parked, missed>>

DestroyLast == epc = "final" /\ destroy("gone")

-----------------------------------------------------------------------------
(* XAudio2's thread: one callback at a time, none begins while DestroyVoice *)
(* waits. *)

VoicePlays ==
  /\ voice = "started" /\ acb = NoBuffer /\ lockFree
  /\ ended = <<>> /\ held # <<>>
  /\ acb' = Head(held) /\ held' = Tail(held)
  /\ UNCHANGED <<engineVars, m_queue, voice, ended, workerVars, parked, missed>>

VoiceReports ==
  /\ voice # "none" /\ acb = NoBuffer /\ lockFree
  /\ ended # <<>>
  /\ acb' = Head(ended) /\ ended' = Tail(ended)
  /\ UNCHANGED <<engineVars, m_queue, voice, held, workerVars, parked, missed>>

\* Mutant of OnBufferEnd: the callback is not implemented.
OnBufferEndIgnored ==
  /\ acb # NoBuffer
  /\ acb' = NoBuffer
  /\ UNCHANGED <<engineVars, m_queue, voice, held, ended, workerVars, parked, missed>>

OnBufferEnd ==
  /\ acb # NoBuffer
  /\ SendAction(Available(acb))
  /\ acb' = NoBuffer
  /\ UNCHANGED <<engineVars, voice, held, ended, workerVars>>

-----------------------------------------------------------------------------
(* The decoding thread *)

\* receiveAction looks at the exit flag before it waits ...
ReceiveTest ==
  /\ wpc = "test"
  /\ wpc' = IF m_event_exit THEN "exit" ELSE "wait"
  /\ UNCHANGED <<engineVars, m_queue, voiceVars, action, m_current_sample, loop, content,
                 parked, missed>>

\* Mutant of ReceiveWait: waits for an action without a limit.
ReceiveWaitForever ==
  /\ wpc = "wait" /\ m_queue # <<>>
  /\ action' = Head(m_queue) /\ m_queue' = Tail(m_queue) /\ wpc' = Head(m_queue).type
  /\ UNCHANGED <<engineVars, voiceVars, m_current_sample, loop, content, parked, missed>>

\* ... and again after a second without an action.
ReceiveWait ==
  /\ wpc = "wait"
  /\ IF m_queue # <<>>
     THEN action' = Head(m_queue) /\ m_queue' = Tail(m_queue) /\ wpc' = Head(m_queue).type
     ELSE wpc' = "test" /\ UNCHANGED <<action, m_queue>>
  /\ UNCHANGED <<engineVars, voiceVars, m_current_sample, loop, content, parked, missed>>

loopEnd == loop.start + loop.count

\* Where on_buffer_available reads from, and how much it asks for.  A position
\* behind the end, which seek refuses, would ask for a full buffer (unsigned).
AtLoopEnd == loop.on /\ m_current_sample >= loopEnd
From      == IF AtLoopEnd THEN loop.start ELSE m_current_sample
Asked     ==
  Min2(MaxSamples, CASE AtLoopEnd -> loop.count
                     [] loop.on /\ ~AtLoopEnd -> loopEnd - From
                     [] ~loop.on /\ From <= FrameCount -> FrameCount - From
                     [] OTHER -> MaxSamples)

\* seek refuses positions behind the end; read fails or reads what is asked for.
onBufferAvailable ==
  /\ wpc = "buffer_available"
  /\ m_current_sample' \in {From} \cup {p \in {From + Asked} : From <= FrameCount}
  /\ IF m_current_sample' = From
     THEN /\ parked' = parked \cup {action.buffer}
          /\ wpc' = "test" /\ UNCHANGED content
     ELSE /\ content' = [content EXCEPT ![action.buffer] =
                           [from |-> From, to |-> m_current_sample', jump |-> AtLoopEnd]]
          /\ wpc' = "submit" /\ UNCHANGED parked
  /\ UNCHANGED <<engineVars, m_queue, voiceVars, action, loop, missed>>

\* lock_voice: nothing happens when there is no voice.
Submit ==
  /\ wpc = "submit" /\ lockFree
  /\ IF voice = "none" THEN parked' = parked \cup {action.buffer} /\ UNCHANGED held
                       ELSE held' = Append(held, action.buffer) /\ UNCHANGED parked
  /\ wpc' = "test"
  /\ UNCHANGED <<engineVars, m_queue, voice, ended, acb, action, m_current_sample, loop,
                 content, missed>>

VoiceStops  == voice' = IF voice = "none" THEN "none" ELSE "stopped"
VoiceStarts == voice' = IF voice = "none" THEN "none" ELSE "started"

\* A refused seek leaves the voice stopped and the buffers in it.
onPlay ==
  /\ wpc = "play" /\ lockFree
  /\ VoiceStops
  /\ m_current_sample' = action.start
  /\ IF action.start > FrameCount THEN wpc' = "test" /\ missed' = TRUE
                                  ELSE wpc' = "start" /\ UNCHANGED missed
  /\ UNCHANGED <<engineVars, m_queue, held, ended, acb, action, loop, content, parked>>

\* Mutant of onPlayStart: the voice goes on with the buffers it has.
onPlayStartUnflushed ==
  /\ wpc = "start" /\ lockFree
  /\ VoiceStarts /\ wpc' = "test"
  /\ UNCHANGED <<engineVars, m_queue, held, ended, acb, action, m_current_sample, loop,
                 content, parked, missed>>

\* FlushSourceBuffers makes the voice report every buffer as ended.
onPlayStart ==
  /\ wpc = "start" /\ lockFree
  /\ ended' = ended \o held /\ held' = <<>>
  /\ VoiceStarts /\ wpc' = "test"
  /\ UNCHANGED <<engineVars, m_queue, acb, action, m_current_sample, loop, content, parked,
                 missed>>

onPauseOrStop ==
  /\ wpc \in {"pause", "stop"} /\ lockFree
  /\ VoiceStops /\ wpc' = "test"
  /\ UNCHANGED <<engineVars, m_queue, held, ended, acb, action, m_current_sample, loop,
                 content, parked, missed>>

onResume ==
  /\ wpc = "resume" /\ lockFree
  /\ VoiceStarts /\ wpc' = "test"
  /\ UNCHANGED <<engineVars, m_queue, held, ended, acb, action, m_current_sample, loop,
                 content, parked, missed>>

LoopRange(s, n) ==
  LET from == Min2(s, FrameCount)
  IN [on |-> TRUE, start |-> from, count |-> Min2(n, FrameCount - from)]

onUpdateLoop ==
  /\ wpc \in {"loop", "unloop"}
  /\ loop' = IF wpc = "loop" THEN LoopRange(action.start, action.length)
                             ELSE [on |-> FALSE, start |-> 0, count |-> FrameCount]
  /\ wpc' = "test"
  /\ UNCHANGED <<engineVars, m_queue, voiceVars, action, m_current_sample, content, parked,
                 missed>>

onExit ==
  /\ wpc = "exit" /\ lockFree
  /\ ended' = ended \o held /\ held' = <<>>
  /\ VoiceStops /\ wpc' = "exited"
  /\ UNCHANGED <<engineVars, m_queue, acb, action, m_current_sample, loop, content, parked,
                 missed>>

-----------------------------------------------------------------------------
Calls ==
  \/ \E t \in Positions : play(t)
  \/ pause \/ resume \/ stop
  \/ \E l \in Loops : setLoop(l)
  \/ setAudioEndpoint
  \/ Destruct

Engine  == SendNext \/ Destroy \/ create \/ Join \/ DestroyLast
XAudio2 == VoicePlays \/ VoiceReports \/ OnBufferEnd
Worker  ==
  \/ ReceiveTest \/ ReceiveWait
  \/ onBufferAvailable \/ Submit \/ onPlay \/ onPlayStart \/ onPauseOrStop \/ onResume
  \/ onUpdateLoop \/ onExit

Next == Calls \/ Engine \/ XAudio2 \/ Worker

Spec == Init /\ [][Next]_vars

\* The three threads go on.  Nobody has to call a function of the player.
FairSpec == Spec /\ WF_vars(Engine) /\ WF_vars(XAudio2) /\ WF_vars(Worker)

-----------------------------------------------------------------------------
ActionType == {"exit", "buffer_available", "play", "pause", "resume", "stop", "loop", "unloop"}

\* Types; the loop range lies inside the music.
TypeOK ==
  /\ m_state \in {"stopped", "playing", "paused"} /\ m_event_exit \in BOOLEAN
  /\ epc \in {"create", "idle", "send", "destroy", "join", "final", "gone"}
  /\ \A i \in 1 .. Len(m_queue) : m_queue[i].type \in ActionType
  /\ Len(m_queue) <= QueueSize
  /\ voice \in {"none", "stopped", "started"} /\ acb \in Buffers \cup {NoBuffer}
  /\ wpc \in ActionType \cup {"test", "wait", "submit", "start", "exited"}
  /\ loop.start + loop.count <= FrameCount
  /\ \A b \in Buffers : content[b].to <= FrameCount

Times(q, b) == Cardinality({i \in 1 .. Len(q) : q[i] = b})
TimesSent(q, b) == Cardinality({i \in 1 .. Len(q) : q[i] = Available(b)})

\* The buffer the decoding thread has in its hands.
InHand == IF wpc \in {"buffer_available", "submit"} THEN <<action.buffer>> ELSE <<>>

\* Until the endpoint is changed a buffer is in one place at a time, so that
\* the decoder never writes into one the voice plays, and none goes astray but
\* those given up at the end of the music or when the queue was full.
BuffersAccounted ==
  ~reopened => \A b \in Buffers :
    Times(held \o ended \o InHand \o <<acb>>, b) + TimesSent(todo \o m_queue, b)
      + (IF b \in parked THEN 1 ELSE 0) = 1

\* What the voice plays next follows what it plays now, or is the start of the
\* loop: after play() nothing of the old position is heard.
HeldIsContiguous ==
  ~reopened => \A i \in 1 .. Len(held) - 1 :
    LET x == content[held[i]]
        y == content[held[i + 1]]
    IN y.jump \/ y.from = x.to

\* When all commands are carried out the voice runs if and only if getState
\* says so, although voices come and go with the endpoint.
StateFollowsVoice ==
  /\ epc = "idle" /\ m_queue = <<>> /\ wpc \in {"test", "wait"} /\ voice # "none" /\ ~missed
    => (voice = "started") = (m_state = "playing")

\* The destructor returns, although DestroyVoice waits for a callback that
\* waits for the queue of a thread that is gone; and then no thread uses the
\* player any more.
DestructorReturns ==
  (epc = "join") ~> (epc = "gone" /\ wpc = "exited" /\ acb = NoBuffer /\ voice = "none")

\* The music goes on as long as the voice runs and no buffer was given up.
PlayingGoesOn == <>[](voice = "started" /\ parked = {}) => []<><<VoicePlays>>_vars
=============================================================================
