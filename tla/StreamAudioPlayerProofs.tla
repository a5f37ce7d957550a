----------------------- MODULE StreamAudioPlayerProofs -----------------------
(* Proofs about the music player, for every length of the music, of a       *)
(* buffer and of the queue, and for any number of calls.                    *)
EXTENDS StreamAudioPlayer, FiniteSetTheorems, FunctionTheorems, SequenceTheorems, TLAPS

VoiceCommands == {"play", "pause", "resume", "stop"}
LoopCommands  == {"loop", "unloop"}

\* What is ever sent: a free buffer, or a command.
Sent ==
  {Available(b) : b \in Buffers}
    \cup [type : VoiceCommands \cup LoopCommands, buffer : {NoBuffer}, start : Nat, length : Nat]

LEMMA SentIs ==
  /\ \A b \in Buffers : /\ Available(b) \in Sent /\ Available(b).type = "buffer_available"
                        /\ Available(b).buffer = b
  /\ \A x \in Sent :
       /\ x.type \in ActionType \ {"exit"} /\ x.start \in Nat /\ x.length \in Nat
       /\ IF x.type = "buffer_available" THEN x.buffer \in Buffers /\ x = Available(x.buffer)
                                         ELSE x.buffer = NoBuffer
BY DEF Sent, Available, Act, ActionType, VoiceCommands, LoopCommands, Buffers, NoBuffer

-----------------------------------------------------------------------------
(* How often a value is in a sequence *)

One(p) == IF p THEN 1 ELSE 0

At(q, v) == {i \in 1 .. Len(q) : q[i] = v}

LEMMA AtIsFinite ==
  ASSUME NEW S, NEW q \in Seq(S), NEW v
  PROVE  IsFiniteSet(At(q, v)) /\ Cardinality(At(q, v)) \in Nat
<1>1. IsFiniteSet(1 .. Len(q))
  BY LenProperties, FS_Interval
<1>2. At(q, v) \in SUBSET (1 .. Len(q))
  BY DEF At
<1> QED BY <1>1, <1>2, FS_Subset, FS_CardinalityType

LEMMA TimesIs ==
  ASSUME NEW S, NEW q \in Seq(S), NEW v
  PROVE  Times(q, v) = Cardinality(At(q, v)) /\ Times(q, v) \in Nat
BY AtIsFinite DEF Times, At

LEMMA TimesSentIs ==
  ASSUME NEW q \in Seq(Sent), NEW b
  PROVE  TimesSent(q, b) = Times(q, Available(b)) /\ TimesSent(q, b) \in Nat
BY TimesIs DEF Times, TimesSent

LEMMA TimesEmpty == \A v : Times(<<>>, v) = 0
<1> SUFFICES ASSUME NEW v PROVE Times(<<>>, v) = 0
  OBVIOUS
<1>1. {i \in 1 .. Len(<<>>) : <<>>[i] = v} = {}
  OBVIOUS
<1> QED BY <1>1, FS_EmptySet DEF Times

\* The places of v in s \o t are those in s and, moved on, those in t.
LEMMA TimesConcat ==
  ASSUME NEW S, NEW s \in Seq(S), NEW t \in Seq(S), NEW v
  PROVE  Times(s \o t, v) = Times(s, v) + Times(t, v)
<1> DEFINE n == Len(s)
           U == {i \in n + 1 .. n + Len(t) : t[i - n] = v}
           f == [i \in At(t, v) |-> i + n]
<1>1. /\ n \in Nat /\ Len(t) \in Nat /\ s \o t \in Seq(S) /\ Len(s \o t) = n + Len(t)
      /\ \A i \in 1 .. n + Len(t) : (s \o t)[i] = IF i <= n THEN s[i] ELSE t[i - n]
  BY LenProperties, ConcatProperties
<1>2. At(s \o t, v) = At(s, v) \cup U /\ At(s, v) \cap U = {}
  BY <1>1 DEF At
<1>3. ExistsBijection(At(t, v), U)
  <2>1. \A i \in At(t, v) : i + n \in U
    BY <1>1 DEF At
  <2>2. ASSUME NEW j \in U PROVE \E i \in At(t, v) : f[i] = j
    <3>1. j \in Int /\ j - n \in 1 .. Len(t) /\ t[j - n] = v /\ (j - n) + n = j
      BY <1>1
    <3>2. j - n \in At(t, v)
      BY <3>1 DEF At
    <3> QED BY <3>1, <3>2
  <2>3. \A i, k \in At(t, v) : f[i] = f[k] => i = k
    BY <1>1 DEF At
  <2>4. f \in [At(t, v) -> U]
    BY <2>1
  <2>5. f \in Bijection(At(t, v), U)
    BY <2>2, <2>3, <2>4, Fun_IsBij
  <2> QED BY <2>5 DEF ExistsBijection
<1>4. IsFiniteSet(U) /\ Cardinality(U) = Cardinality(At(t, v))
  BY <1>3, AtIsFinite, FS_Bijection
<1>5. Cardinality(At(s \o t, v)) = Cardinality(At(s, v)) + Cardinality(U)
  <2>1. /\ IsFiniteSet(At(s, v)) /\ Cardinality(At(s, v)) \in Nat
        /\ Cardinality(U) \in Nat
    BY <1>4, AtIsFinite
  <2>2. Cardinality(At(s, v) \cap U) = 0
    BY <1>2, FS_EmptySet
  <2>3. Cardinality(At(s, v) \cup U)
          = Cardinality(At(s, v)) + Cardinality(U) - Cardinality(At(s, v) \cap U)
    BY <1>4, <2>1, FS_Union
  <2> HIDE DEF U
  <2> QED BY <1>2, <2>1, <2>2, <2>3
<1> QED BY <1>1, <1>4, <1>5, TimesIs

LEMMA TimesOne == \A x, v : Times(<<x>>, v) = One(x = v)
<1> SUFFICES ASSUME NEW x, NEW v PROVE Times(<<x>>, v) = One(x = v)
  OBVIOUS
<1>1. {i \in 1 .. Len(<<x>>) : <<x>>[i] = v} = IF x = v THEN {1} ELSE {}
  OBVIOUS
<1> QED BY <1>1, FS_EmptySet, FS_Singleton DEF Times, One

LEMMA TimesAppend ==
  ASSUME NEW S, NEW q \in Seq(S), NEW x \in S, NEW v
  PROVE  Times(Append(q, x), v) = Times(q, v) + One(x = v)
<1>1. Append(q, x) = q \o <<x>> /\ <<x>> \in Seq(S)
  BY AppendIsConcat
<1>2. Times(q \o <<x>>, v) = Times(q, v) + Times(<<x>>, v)
  BY <1>1, TimesConcat
<1> QED BY <1>1, <1>2, TimesOne

LEMMA TimesTail ==
  ASSUME NEW S, NEW q \in Seq(S), q # <<>>, NEW v
  PROVE  Times(q, v) = One(Head(q) = v) + Times(Tail(q), v)
<1> DEFINE all == <<Head(q)>> \o Tail(q)
<1>1. Head(q) \in S /\ Tail(q) \in Seq(S) /\ <<Head(q)>> \in Seq(S)
  OBVIOUS
<1>2. q = all
  OBVIOUS
<1>3. Times(all, v) = Times(<<Head(q)>>, v) + Times(Tail(q), v)
  BY <1>1, TimesConcat
<1> HIDE DEF all
<1>4. Times(q, v) = Times(all, v)
  BY <1>2, Zenon
<1> QED BY <1>3, <1>4, TimesOne

\* Never, and at most once.
LEMMA TimesZero ==
  ASSUME NEW S, NEW q \in Seq(S), NEW v
  PROVE  Times(q, v) = 0 <=> \A i \in 1 .. Len(q) : q[i] # v
<1>1. Times(q, v) = 0 <=> At(q, v) = {}
  BY TimesIs, AtIsFinite, FS_EmptySet
<1> QED BY <1>1 DEF At

LEMMA TimesTwice ==
  ASSUME NEW S, NEW q \in Seq(S), NEW v, NEW i \in 1 .. Len(q), NEW k \in 1 .. Len(q),
         q[i] = v, q[k] = v, Times(q, v) <= 1
  PROVE  i = k
<1>1. Cardinality(At(q, v)) = 1
  BY TimesIs, TimesZero
<1>2. PICK x : At(q, v) = {x}
  BY <1>1, AtIsFinite, FS_Singleton
<1> QED BY <1>2 DEF At

-----------------------------------------------------------------------------
(* Types *)

Taken == {"buffer_available", "submit"}

\* Types of all that the threads share, and of what they have in their hands.
PlayerTypes ==
  /\ m_state \in {"stopped", "playing", "paused"} /\ m_event_exit \in BOOLEAN
  /\ epc \in {"create", "idle", "send", "destroy", "join", "final", "gone"}
  /\ todo \in Seq(Sent)
  /\ m_queue \in Seq(Sent) /\ Len(m_queue) <= QueueSize
  /\ voice \in {"none", "stopped", "started"}
  /\ held \in Seq(Buffers) /\ ended \in Seq(Buffers) /\ acb \in Buffers \cup {NoBuffer}
  /\ wpc \in ActionType \cup {"test", "wait", "submit", "start", "exited"}
  /\ action \in Sent \cup {Act("exit")}
  /\ wpc \in Taken => action.buffer \in Buffers
  /\ m_current_sample \in Nat
  /\ loop \in [on : BOOLEAN, start : Nat, count : Nat]
  /\ loop.start + loop.count <= FrameCount
  /\ content \in [Buffers -> [from : Nat, to : Nat, jump : BOOLEAN]]
  /\ \A b \in Buffers : content[b].to <= FrameCount
  /\ parked \subseteq Buffers /\ missed \in BOOLEAN /\ reopened \in BOOLEAN

LEMMA TypesSuffice == PlayerTypes => TypeOK
<1> SUFFICES ASSUME PlayerTypes PROVE TypeOK
  OBVIOUS
<1>1. \A i \in 1 .. Len(m_queue) : m_queue[i] \in Sent
  BY DEF PlayerTypes
<1> QED BY <1>1, SentIs DEF PlayerTypes, TypeOK

\* A sent action ends up in the queue, or it is lost: then a buffer is parked,
\* and a command is missed.
LEMMA SendIs ==
  ASSUME PlayerTypes, NEW a \in Sent, SendAction(a)
  PROVE  /\ m_queue' \in Seq(Sent) /\ Len(m_queue') <= QueueSize
         /\ parked' \subseteq Buffers /\ missed' \in BOOLEAN
         /\ \/ m_queue' = Append(m_queue, a) /\ parked' = parked /\ missed' = missed
            \/ /\ m_queue' = m_queue
               /\ IF a.buffer = NoBuffer THEN missed' = TRUE /\ parked' = parked
                                         ELSE /\ a.buffer \in Buffers /\ missed' = missed
                                              /\ parked' = parked \cup {a.buffer}
<1>1. CASE Put(a)
  <2>1. Append(m_queue, a) \in Seq(Sent) /\ Len(Append(m_queue, a)) = Len(m_queue) + 1
    BY DEF PlayerTypes
  <2> QED BY <1>1, <2>1, SizesAssumption DEF Put, PlayerTypes
<1>2. CASE Lose(a)
  <2>1. a.buffer = NoBuffer \/ a.buffer \in Buffers
    BY SentIs
  <2>2. m_queue' = m_queue /\ m_queue \in Seq(Sent) /\ Len(m_queue) <= QueueSize
        /\ parked \subseteq Buffers /\ missed \in BOOLEAN
    BY <1>2 DEF Lose, PlayerTypes
  <2>3. CASE a.buffer = NoBuffer
    BY <1>2, <2>2, <2>3 DEF Lose
  <2>4. CASE a.buffer # NoBuffer
    BY <1>2, <2>1, <2>2, <2>4 DEF Lose
  <2> QED BY <2>3, <2>4
<1> QED BY <1>1, <1>2 DEF SendAction

\* Commands are actions that may be sent.
LEMMA CommandsAreSent ==
  /\ \A t \in Positions : [Act("play") EXCEPT !.start = t] \in Sent
  /\ Act("pause") \in Sent /\ Act("resume") \in Sent /\ Act("stop") \in Sent
  /\ \A l \in Loops : [Act(IF l.on THEN "loop" ELSE "unloop")
                        EXCEPT !.start = l.start, !.length = l.length] \in Sent
BY InputAssumption DEF Act, Sent, VoiceCommands, LoopCommands

LEMMA CommandTypes ==
  ASSUME PlayerTypes, NEW s \in {"stopped", "playing", "paused"}, NEW a \in Sent, Command(s, a)
  PROVE  PlayerTypes'
BY DEF Command, PlayerTypes, voiceVars, workerVars

LEMMA CallTypes == ASSUME PlayerTypes, Calls PROVE PlayerTypes'
<1>1. ASSUME NEW t \in Positions, play(t) PROVE PlayerTypes'
  BY <1>1, CommandsAreSent, CommandTypes DEF play
<1>2. CASE pause
  BY <1>2, CommandsAreSent, CommandTypes DEF pause
<1>3. CASE resume
  BY <1>3, CommandsAreSent, CommandTypes DEF resume
<1>4. CASE stop
  BY <1>4, CommandsAreSent, CommandTypes DEF stop
<1>5. ASSUME NEW l \in Loops, setLoop(l) PROVE PlayerTypes'
  <2>1. m_state \in {"stopped", "playing", "paused"}
    BY DEF PlayerTypes
  <2> QED BY <1>5, <2>1, CommandsAreSent, CommandTypes DEF setLoop
<1>6. CASE setAudioEndpoint
  BY <1>6 DEF setAudioEndpoint, PlayerTypes, voiceVars, workerVars
<1>7. CASE Destruct
  BY <1>7 DEF Destruct, PlayerTypes, voiceVars, workerVars
<1> QED BY <1>1, <1>2, <1>3, <1>4, <1>5, <1>6, <1>7 DEF Calls

LEMMA RestoreType == Restore \in Seq(Sent) /\ Restore # <<>>
<1> DEFINE first == <<Available(0), Available(1)>>
           rest  == IF m_state = "playing" THEN <<Act("resume")>> ELSE <<>>
<1>1. Available(0) \in Sent /\ Available(1) \in Sent /\ Act("resume") \in Sent
  BY SentIs, CommandsAreSent DEF Buffers
<1>2. first \in Seq(Sent) /\ Len(first) = 2
  BY <1>1
<1>3. rest \in Seq(Sent)
  BY <1>1
<1> HIDE DEF first, rest
<1>4. Restore = first \o rest
  BY DEF Restore, first, rest
<1>5. first \o rest \in Seq(Sent) /\ Len(first \o rest) = Len(first) + Len(rest)
  BY <1>2, <1>3, ConcatProperties
<1>6. Len(rest) \in Nat
  BY <1>3, LenProperties
<1> QED BY <1>2, <1>4, <1>5, <1>6

LEMMA DestroyTypes ==
  ASSUME PlayerTypes, NEW e \in {"create", "gone"}, destroy(e) PROVE PlayerTypes'
BY DEF destroy, PlayerTypes, workerVars

LEMMA EngineTypes ==
  ASSUME PlayerTypes, epc = "send" => todo # <<>>, Engine PROVE PlayerTypes'
<1>1. CASE SendNext
  <2>1. Head(todo) \in Sent /\ Tail(todo) \in Seq(Sent)
    BY <1>1 DEF PlayerTypes, SendNext
  <2>2. SendAction(Head(todo))
    BY <1>1 DEF SendNext
  <2>3. /\ m_queue' \in Seq(Sent) /\ Len(m_queue') <= QueueSize
        /\ parked' \subseteq Buffers /\ missed' \in BOOLEAN
    BY <2>1, <2>2, SendIs
  <2>4. /\ todo' \in Seq(Sent) /\ epc' \in {"idle", "send"}
        /\ UNCHANGED <<m_state, m_event_exit, calls, reopened, voiceVars, workerVars>>
    BY <1>1, <2>1 DEF SendNext
  <2> QED BY <2>3, <2>4 DEF PlayerTypes, voiceVars, workerVars
<1>2. CASE Destroy
  BY <1>2, DestroyTypes DEF Destroy
<1>3. CASE create
  <2>1. /\ todo' \in Seq(Sent) /\ epc' \in {"idle", "send"}
        /\ voice' \in {"none", "stopped"} /\ parked' \subseteq Buffers /\ missed' \in BOOLEAN
    BY <1>3, RestoreType DEF create, PlayerTypes
  <2>2. UNCHANGED <<m_state, m_event_exit, calls, reopened, m_queue, held, ended, acb, workerVars>>
    BY <1>3 DEF create
  <2> QED BY <2>1, <2>2 DEF PlayerTypes, workerVars
<1>4. CASE Join
  BY <1>4 DEF Join, PlayerTypes, voiceVars, workerVars
<1>5. CASE DestroyLast
  BY <1>5, DestroyTypes DEF DestroyLast
<1> QED BY <1>1, <1>2, <1>3, <1>4, <1>5 DEF Engine

LEMMA XAudio2Types == ASSUME PlayerTypes, XAudio2 PROVE PlayerTypes'
<1>1. CASE VoicePlays
  <2>1. Head(held) \in Buffers /\ Tail(held) \in Seq(Buffers)
    BY <1>1 DEF VoicePlays, PlayerTypes
  <2> QED BY <1>1, <2>1 DEF VoicePlays, PlayerTypes, engineVars, workerVars
<1>2. CASE VoiceReports
  <2>1. Head(ended) \in Buffers /\ Tail(ended) \in Seq(Buffers)
    BY <1>2 DEF VoiceReports, PlayerTypes
  <2> QED BY <1>2, <2>1 DEF VoiceReports, PlayerTypes, engineVars, workerVars
<1>3. CASE OnBufferEnd
  <2>1. acb \in Buffers /\ SendAction(Available(acb)) /\ Available(acb) \in Sent
    BY <1>3, SentIs DEF OnBufferEnd, PlayerTypes
  <2>2. /\ m_queue' \in Seq(Sent) /\ Len(m_queue') <= QueueSize
        /\ parked' \subseteq Buffers /\ missed' \in BOOLEAN
    BY <2>1, SendIs
  <2>3. acb' = NoBuffer /\ UNCHANGED <<engineVars, voice, held, ended, workerVars>>
    BY <1>3 DEF OnBufferEnd
  <2> QED BY <2>2, <2>3 DEF PlayerTypes, engineVars, workerVars
<1> QED BY <1>1, <1>2, <1>3 DEF XAudio2

\* The decoder reads inside the music.
LEMMA ReadsInside ==
  ASSUME PlayerTypes
  PROVE  /\ From \in Nat /\ Asked \in Nat
         /\ From <= FrameCount => From + Asked <= FrameCount
<1> DEFINE left == CASE AtLoopEnd -> loop.count
                  [] loop.on /\ ~AtLoopEnd -> loopEnd - From
                  [] ~loop.on /\ From <= FrameCount -> FrameCount - From
                  [] OTHER -> MaxSamples
<1>1. /\ m_current_sample \in Nat /\ loop.start \in Nat /\ loop.count \in Nat
      /\ loop.start + loop.count <= FrameCount /\ FrameCount \in Nat /\ MaxSamples \in Nat
  BY SizesAssumption DEF PlayerTypes
<1>2. loopEnd \in Nat /\ loop.start + loop.count = loopEnd /\ loopEnd <= FrameCount
  BY <1>1 DEF loopEnd
<1>3. From \in Nat /\ left \in Nat /\ (From <= FrameCount => From + left <= FrameCount)
  <2>1. CASE AtLoopEnd
    <3>1. From = loop.start /\ left = loop.count
      BY <2>1 DEF From, AtLoopEnd
    <3> QED BY <1>1, <3>1
  <2>2. CASE loop.on /\ ~AtLoopEnd
    <3>1. From = m_current_sample /\ left = loopEnd - From /\ ~(From >= loopEnd)
      BY <2>2 DEF From, AtLoopEnd
    <3> QED BY <1>1, <1>2, <3>1
  <2>3. CASE ~loop.on
    <3>1. ~AtLoopEnd /\ From = m_current_sample
      BY <2>3 DEF From, AtLoopEnd
    <3>2. left = IF From <= FrameCount THEN FrameCount - From ELSE MaxSamples
      BY <2>3, <3>1
    <3> QED BY <1>1, <3>1, <3>2
  <2> QED BY <2>1, <2>2, <2>3
<1>4. Asked = Min2(MaxSamples, left)
  BY DEF Asked
<1> HIDE DEF left
<1>5. Asked \in Nat /\ Asked <= left
  BY <1>1, <1>3, <1>4 DEF Min2
<1> QED BY <1>1, <1>3, <1>5

LEMMA LoopIsInside ==
  \A s, n \in Nat : /\ LoopRange(s, n) \in [on : BOOLEAN, start : Nat, count : Nat]
                   /\ LoopRange(s, n).start + LoopRange(s, n).count <= FrameCount
BY SizesAssumption DEF LoopRange, Min2

LEMMA WorkerTypes == ASSUME PlayerTypes, Worker PROVE PlayerTypes'
<1>1. CASE ReceiveTest
  BY <1>1 DEF ReceiveTest, PlayerTypes, engineVars, voiceVars, ActionType, Taken
<1>2. CASE ReceiveWait
  <2>1. CASE m_queue # <<>>
    <3>1. Head(m_queue) \in Sent /\ Tail(m_queue) \in Seq(Sent)
          /\ Len(Tail(m_queue)) = Len(m_queue) - 1
      BY <2>1 DEF PlayerTypes
    <3>2. /\ action' = Head(m_queue) /\ m_queue' = Tail(m_queue) /\ wpc' = Head(m_queue).type
          /\ UNCHANGED <<engineVars, voiceVars, m_current_sample, loop, content, parked, missed>>
      BY <1>2, <2>1 DEF ReceiveWait
    <3>3. /\ wpc' \in ActionType /\ action' \in Sent
          /\ wpc' \in Taken => action'.buffer \in Buffers
      BY <3>1, <3>2, SentIs DEF Taken, ActionType
    <3> QED BY <3>1, <3>2, <3>3, SizesAssumption DEF PlayerTypes, engineVars, voiceVars
  <2>2. CASE m_queue = <<>>
    BY <1>2, <2>2 DEF ReceiveWait, PlayerTypes, engineVars, voiceVars, ActionType, Taken
  <2> QED BY <2>1, <2>2
<1>3. CASE onBufferAvailable
  <2>1. /\ From \in Nat /\ Asked \in Nat
        /\ From <= FrameCount => From + Asked <= FrameCount
        /\ action.buffer \in Buffers /\ AtLoopEnd \in BOOLEAN
    BY <1>3, ReadsInside DEF onBufferAvailable, PlayerTypes, Taken, AtLoopEnd
  <2>2. m_current_sample' \in Nat
        /\ (m_current_sample' # From => m_current_sample' <= FrameCount)
    <3>1. m_current_sample' \in {From} \cup {p \in {From + Asked} : From <= FrameCount}
      BY <1>3 DEF onBufferAvailable
    <3> QED BY <2>1, <3>1
  <2>3. UNCHANGED <<engineVars, m_queue, voiceVars, action, loop, missed>>
    BY <1>3 DEF onBufferAvailable
  <2>4. CASE m_current_sample' = From
    <3>1. parked' = parked \cup {action.buffer} /\ wpc' = "test" /\ content' = content
      BY <1>3, <2>4 DEF onBufferAvailable
    <3> QED BY <2>1, <2>2, <2>3, <3>1
            DEF PlayerTypes, engineVars, voiceVars, ActionType, Taken
  <2>5. CASE m_current_sample' # From
    <3> DEFINE read == [from |-> From, to |-> m_current_sample', jump |-> AtLoopEnd]
    <3>1. content' = [content EXCEPT ![action.buffer] = read] /\ wpc' = "submit"
          /\ parked' = parked
      BY <1>3, <2>5 DEF onBufferAvailable
    <3>2. read \in [from : Nat, to : Nat, jump : BOOLEAN] /\ read.to <= FrameCount
      <4>1. \A x, y \in Nat, j \in BOOLEAN :
              [from |-> x, to |-> y, jump |-> j] \in [from : Nat, to : Nat, jump : BOOLEAN]
        OBVIOUS
      <4> QED BY <2>1, <2>2, <2>5, <4>1
    <3> HIDE DEF read
    <3>3. /\ content' \in [Buffers -> [from : Nat, to : Nat, jump : BOOLEAN]]
          /\ \A b \in Buffers : content'[b].to <= FrameCount
      BY <2>1, <3>1, <3>2 DEF PlayerTypes
    <3>4. wpc' \in ActionType \cup {"test", "wait", "submit", "start", "exited"}
          /\ action' = action /\ parked' = parked /\ UNCHANGED <<engineVars, m_queue, voiceVars,
                                                               loop, missed>>
      BY <2>3, <3>1
    <3> QED BY <2>1, <2>2, <3>3, <3>4 DEF PlayerTypes, engineVars, voiceVars
  <2> QED BY <2>4, <2>5
<1>4. CASE Submit
  <2>1. action.buffer \in Buffers /\ held \in Seq(Buffers) /\ parked \subseteq Buffers
    BY <1>4 DEF Submit, PlayerTypes, Taken
  <2>2. Append(held, action.buffer) \in Seq(Buffers)
    BY <2>1
  <2>3. held' \in Seq(Buffers) /\ parked' \subseteq Buffers
    BY <1>4, <2>1, <2>2 DEF Submit
  <2>4. /\ wpc' = "test"
        /\ UNCHANGED <<engineVars, m_queue, voice, ended, acb, action, m_current_sample, loop,
                       content, missed>>
    BY <1>4 DEF Submit
  <2> QED BY <2>3, <2>4 DEF PlayerTypes, engineVars, Taken
<1>5. CASE onPlay
  <2>1. /\ action.start \in Nat
        /\ wpc' \in {"test", "start"} /\ missed' \in BOOLEAN /\ voice' \in {"none", "stopped"}
    <3>1. action.start \in Nat
      BY SentIs DEF PlayerTypes, Act
    <3> QED BY <1>5, <3>1 DEF onPlay, VoiceStops, PlayerTypes
  <2>2. /\ m_current_sample' = action.start
        /\ UNCHANGED <<engineVars, m_queue, held, ended, acb, action, loop, content, parked>>
    BY <1>5 DEF onPlay
  <2> QED BY <2>1, <2>2 DEF PlayerTypes, engineVars, Taken
<1>6. CASE onPlayStart
  <2>1. ended \o held \in Seq(Buffers) /\ voice' \in {"none", "started"}
    BY <1>6 DEF onPlayStart, PlayerTypes, VoiceStarts
  <2> QED BY <1>6, <2>1 DEF onPlayStart, PlayerTypes, engineVars, Taken
<1>7. CASE onPauseOrStop
  BY <1>7 DEF onPauseOrStop, VoiceStops, PlayerTypes, engineVars, Taken
<1>8. CASE onResume
  BY <1>8 DEF onResume, VoiceStarts, PlayerTypes, engineVars, Taken
<1>9. CASE onUpdateLoop
  <2>1. action.start \in Nat /\ action.length \in Nat
    BY <1>9, SentIs DEF PlayerTypes, Act
  <2>2. /\ loop' \in [on : BOOLEAN, start : Nat, count : Nat]
        /\ loop'.start + loop'.count <= FrameCount
    <3>1. CASE wpc = "loop"
      BY <1>9, <2>1, <3>1, LoopIsInside DEF onUpdateLoop
    <3>2. CASE wpc = "unloop"
      BY <1>9, <3>2, SizesAssumption DEF onUpdateLoop
    <3> QED BY <1>9, <3>1, <3>2 DEF onUpdateLoop
  <2>3. wpc' = "test"
        /\ UNCHANGED <<engineVars, m_queue, voiceVars, action, m_current_sample, content, parked,
                       missed>>
    BY <1>9 DEF onUpdateLoop
  <2> QED BY <2>2, <2>3 DEF PlayerTypes, engineVars, voiceVars, Taken
<1>10. CASE onExit
  <2>1. ended \o held \in Seq(Buffers) /\ voice' \in {"none", "stopped"}
    BY <1>10 DEF onExit, PlayerTypes, VoiceStops
  <2> QED BY <1>10, <2>1 DEF onExit, PlayerTypes, engineVars, Taken
<1> QED BY <1>1, <1>2, <1>3, <1>4, <1>5, <1>6, <1>7, <1>8, <1>9, <1>10 DEF Worker

-----------------------------------------------------------------------------
(* Where the threads are *)

\* The engine's thread has something to send while it sends.  The decoding
\* thread ends only when it is told to, and the player is freed only after that.
\* Until the endpoint is changed create() runs once, and first.
EngineInv ==
  /\ epc = "send" <=> todo # <<>>
  /\ m_event_exit <=> epc \in {"join", "final", "gone"}
  /\ wpc \in {"exit", "exited"} => m_event_exit
  /\ epc \in {"final", "gone"} => wpc = "exited"
  /\ ~reopened => epc # "destroy" /\ (epc = "create" => parked = Buffers)

LEMMA InitTypes == Init => PlayerTypes /\ EngineInv
<1> SUFFICES ASSUME Init PROVE PlayerTypes /\ EngineInv
  OBVIOUS
<1>1. /\ \A S : <<>> \in Seq(S)
      /\ Len(<<>>) <= QueueSize /\ 0 <= FrameCount
  BY SizesAssumption
<1>2. /\ todo \in Seq(Sent) /\ m_queue \in Seq(Sent) /\ Len(m_queue) <= QueueSize
      /\ held \in Seq(Buffers) /\ ended \in Seq(Buffers)
  BY <1>1, Zenon DEF Init
<1>3. /\ loop \in [on : BOOLEAN, start : Nat, count : Nat]
      /\ loop.start + loop.count <= FrameCount
  BY SizesAssumption DEF Init
<1>4. /\ content \in [Buffers -> [from : Nat, to : Nat, jump : BOOLEAN]]
      /\ \A b \in Buffers : content[b].to <= FrameCount
  BY SizesAssumption DEF Init
<1>5. action \in Sent \cup {Act("exit")} /\ acb \in Buffers \cup {NoBuffer}
  BY DEF Init
<1>6. PlayerTypes
  BY <1>2, <1>3, <1>4, <1>5 DEF Init, PlayerTypes, Taken
<1> QED BY <1>6 DEF Init, EngineInv

LEMMA TypeStep == ASSUME PlayerTypes, EngineInv, [Next]_vars PROVE PlayerTypes'
<1>1. CASE UNCHANGED vars
  BY <1>1 DEF vars, PlayerTypes
<1>2. CASE Engine
  BY <1>2, EngineTypes DEF EngineInv
<1> QED BY <1>1, <1>2, CallTypes, XAudio2Types, WorkerTypes DEF Next

LEMMA CommandEngine ==
  ASSUME PlayerTypes, EngineInv, NEW s, NEW a, Command(s, a) PROVE EngineInv'
BY DEF Command, EngineInv, workerVars, voiceVars

LEMMA EngineStep == ASSUME PlayerTypes, EngineInv, [Next]_vars PROVE EngineInv'
<1>0. PlayerTypes'
  BY TypeStep
<1>1. CASE Calls
  <2>1. CASE setAudioEndpoint
    BY <2>1 DEF setAudioEndpoint, EngineInv, workerVars
  <2>2. CASE Destruct
    BY <2>2 DEF Destruct, EngineInv, workerVars
  <2> QED BY <1>1, <2>1, <2>2, CommandEngine DEF Calls, play, pause, resume, stop, setLoop
<1>2. CASE SendNext
  <2>1. /\ todo # <<>> /\ todo' = Tail(todo) /\ epc' = IF Len(todo) = 1 THEN "idle" ELSE "send"
        /\ epc = "send" /\ UNCHANGED <<m_event_exit, reopened, wpc>>
    BY <1>2 DEF SendNext, EngineInv, workerVars
  <2>2. Tail(todo) = <<>> <=> Len(todo) = 1
    <3>1. todo \in Seq(Sent)
      BY DEF PlayerTypes
    <3>2. Tail(todo) \in Seq(Sent) /\ Len(Tail(todo)) = Len(todo) - 1
      BY <2>1, <3>1
    <3> QED BY <3>1, <3>2, EmptySeq, LenProperties
  <2> QED BY <2>1, <2>2 DEF EngineInv
<1>3. CASE Destroy
  BY <1>3 DEF Destroy, destroy, EngineInv, workerVars
<1>4. CASE create
  BY <1>4, RestoreType DEF create, EngineInv, workerVars
<1>5. CASE Join
  BY <1>5 DEF Join, EngineInv, workerVars
<1>6. CASE DestroyLast
  BY <1>6 DEF DestroyLast, destroy, EngineInv, workerVars
<1>7. CASE XAudio2
  <2>1. UNCHANGED <<epc, todo, m_event_exit, reopened, wpc>>
    BY <1>7 DEF XAudio2, VoicePlays, VoiceReports, OnBufferEnd, engineVars, workerVars
  <2>2. parked \subseteq parked'
    BY <1>7 DEF XAudio2, VoicePlays, VoiceReports, OnBufferEnd, SendAction, Put, Lose
  <2> QED BY <1>0, <2>1, <2>2 DEF EngineInv, PlayerTypes
<1>8. CASE Worker
  <2>1. UNCHANGED <<epc, todo, m_event_exit, reopened>>
    BY <1>8 DEF Worker, ReceiveTest, ReceiveWait, onBufferAvailable, Submit, onPlay, onPlayStart,
                onPauseOrStop, onResume, onUpdateLoop, onExit, engineVars
  <2>2. parked \subseteq parked'
    BY <1>8 DEF Worker, ReceiveTest, ReceiveWait, onBufferAvailable, Submit, onPlay, onPlayStart,
                onPauseOrStop, onResume, onUpdateLoop, onExit
  <2>3. wpc # "exited" /\ (wpc' \in {"exit", "exited"} => m_event_exit)
    <3>1. CASE ReceiveWait
      <4>1. m_queue # <<>> => Head(m_queue).type \notin {"exit", "exited"}
        <5>1. m_queue # <<>> => Head(m_queue) \in Sent
          BY DEF PlayerTypes
        <5>2. \A x \in Sent : x.type \notin {"exit", "exited"}
          BY SentIs DEF ActionType
        <5> QED BY <5>1, <5>2
      <4> QED BY <3>1, <4>1 DEF ReceiveWait
    <3> QED BY <1>8, <3>1
            DEF Worker, ReceiveTest, onBufferAvailable, Submit, onPlay, onPlayStart,
                onPauseOrStop, onResume, onUpdateLoop, onExit, EngineInv
  <2> QED BY <1>0, <2>1, <2>2, <2>3 DEF EngineInv, PlayerTypes
<1>9. CASE UNCHANGED vars
  BY <1>9 DEF vars, EngineInv
<1> QED BY <1>1, <1>2, <1>3, <1>4, <1>5, <1>6, <1>7, <1>8, <1>9 DEF Next, Engine

-----------------------------------------------------------------------------
(* Where the buffers are *)

\* The places a buffer can be in, counted one by one.
Places(b) ==
  Times(held, b) + Times(ended, b) + One(wpc \in Taken /\ action.buffer = b) + One(acb = b)
    + TimesSent(todo, b) + TimesSent(m_queue, b) + One(b \in parked)

OnePlaceEach == ~reopened => \A b \in Buffers : Places(b) = 1

\* Places are numbers.
LEMMA PlacesAreNumbers ==
  ASSUME PlayerTypes, NEW b
  PROVE  /\ Times(held, b) \in Nat /\ Times(ended, b) \in Nat
         /\ TimesSent(todo, b) \in Nat /\ TimesSent(m_queue, b) \in Nat
BY TimesIs, TimesSentIs DEF PlayerTypes

\* The invariant counts what BuffersAccounted counts.
LEMMA PlacesCountAll ==
  ASSUME PlayerTypes, NEW b \in Buffers
  PROVE  Places(b) = Times(held \o ended \o InHand \o <<acb>>, b) + TimesSent(todo \o m_queue, b)
                       + One(b \in parked)
<1> DEFINE S == Buffers \cup {NoBuffer}
<1>1. /\ held \in Seq(S) /\ ended \in Seq(S) /\ <<acb>> \in Seq(S) /\ InHand \in Seq(S)
      /\ Times(InHand, b) = One(wpc \in Taken /\ action.buffer = b)
  <2>1. /\ held \in Seq(S) /\ ended \in Seq(S)
    BY SeqMonotonic DEF PlayerTypes
  <2>2. CASE wpc \in Taken
    BY <2>2, TimesOne DEF InHand, Taken, One, PlayerTypes
  <2>3. CASE wpc \notin Taken
    <3>1. InHand = <<>> /\ Times(<<>>, b) = 0 /\ <<>> \in Seq(S)
      BY <2>3, TimesEmpty DEF InHand, Taken
    <3> QED BY <2>1, <2>3, <3>1 DEF One, PlayerTypes
  <2> QED BY <2>1, <2>2, <2>3 DEF PlayerTypes, InHand, Taken
<1> HIDE DEF S
<1>2. held \o ended \in Seq(S) /\ held \o ended \o InHand \in Seq(S)
  BY <1>1, ConcatProperties
<1>3. /\ Times(held \o ended, b) = Times(held, b) + Times(ended, b)
      /\ Times(held \o ended \o InHand, b) = Times(held \o ended, b) + Times(InHand, b)
      /\ Times(held \o ended \o InHand \o <<acb>>, b)
           = Times(held \o ended \o InHand, b) + Times(<<acb>>, b)
  <2>1. Times(held \o ended, b) = Times(held, b) + Times(ended, b)
    BY <1>1, TimesConcat
  <2> DEFINE voiced == held \o ended
  <2>2. voiced \in Seq(S) /\ voiced \o InHand \in Seq(S)
    BY <1>2
  <2> HIDE DEF voiced
  <2>3. Times(voiced \o InHand, b) = Times(voiced, b) + Times(InHand, b)
    BY <1>1, <2>2, TimesConcat
  <2> DEFINE taken == voiced \o InHand
  <2>4. taken \in Seq(S)
    BY <2>2
  <2> HIDE DEF taken
  <2>5. Times(taken \o <<acb>>, b) = Times(taken, b) + Times(<<acb>>, b)
    BY <1>1, <2>4, TimesConcat
  <2> QED BY <2>1, <2>3, <2>5 DEF taken, voiced
<1>4. Times(<<acb>>, b) = One(acb = b)
  BY TimesOne
<1>5. TimesSent(todo \o m_queue, b) = TimesSent(todo, b) + TimesSent(m_queue, b)
  <2>1. /\ todo \in Seq(Sent) /\ m_queue \in Seq(Sent) /\ todo \o m_queue \in Seq(Sent)
    BY ConcatProperties DEF PlayerTypes
  <2>2. /\ TimesSent(todo \o m_queue, b) = Times(todo \o m_queue, Available(b))
        /\ TimesSent(todo, b) = Times(todo, Available(b))
        /\ TimesSent(m_queue, b) = Times(m_queue, Available(b))
    BY <2>1, TimesSentIs
  <2>3. Times(todo \o m_queue, Available(b))
          = Times(todo, Available(b)) + Times(m_queue, Available(b))
    BY <2>1, TimesConcat
  <2> QED BY <2>2, <2>3
<1> QED BY <1>1, <1>3, <1>4, <1>5, PlacesAreNumbers DEF Places, One

LEMMA PlacesSuffice == ASSUME PlayerTypes PROVE OnePlaceEach <=> BuffersAccounted
BY PlacesCountAll DEF OnePlaceEach, BuffersAccounted, One

LEMMA SentBuffer ==
  ASSUME NEW a \in Sent, NEW b \in Buffers PROVE a = Available(b) <=> a.buffer = b
<1>1. NoBuffer \notin Buffers
  BY DEF NoBuffer, Buffers
<1> QED BY <1>1, SentIs

\* A buffer that is sent goes to the queue, or is parked.
LEMMA SentMoves ==
  ASSUME PlayerTypes, NEW a \in Sent, SendAction(a), NEW b \in Buffers,
         ~(b \in parked /\ a.buffer = b)
  PROVE  TimesSent(m_queue', b) + One(b \in parked')
           = TimesSent(m_queue, b) + One(b \in parked) + One(a.buffer = b)
<1>1. /\ m_queue \in Seq(Sent) /\ m_queue' \in Seq(Sent)
      /\ \/ m_queue' = Append(m_queue, a) /\ parked' = parked
         \/ /\ m_queue' = m_queue
            /\ parked' = IF a.buffer = NoBuffer THEN parked ELSE parked \cup {a.buffer}
  BY SendIs DEF PlayerTypes
<1>2. CASE m_queue' = Append(m_queue, a) /\ parked' = parked
  <2>1. TimesSent(m_queue', b) = TimesSent(m_queue, b) + One(a = Available(b))
    <3>1. /\ TimesSent(m_queue', b) = Times(m_queue', Available(b))
          /\ TimesSent(m_queue, b) = Times(m_queue, Available(b))
      BY <1>1, TimesSentIs
    <3>2. Times(Append(m_queue, a), Available(b))
            = Times(m_queue, Available(b)) + One(a = Available(b))
      BY <1>1, TimesAppend
    <3> QED BY <1>2, <3>1, <3>2
  <2> QED BY <1>1, <1>2, <2>1, SentBuffer, TimesSentIs DEF One
<1>3. CASE /\ m_queue' = m_queue
           /\ parked' = IF a.buffer = NoBuffer THEN parked ELSE parked \cup {a.buffer}
  <2>1. a.buffer = b => a.buffer # NoBuffer
    BY DEF Buffers, NoBuffer
  <2> QED BY <1>1, <1>3, <2>1, TimesSentIs DEF One
<1> QED BY <1>1, <1>2, <1>3

LEMMA SendNextPlaces ==
  ASSUME PlayerTypes, EngineInv, SendNext, NEW b \in Buffers, Places(b) = 1 PROVE Places(b)' = 1
<1> DEFINE a == Head(todo)
<1>1. /\ todo # <<>> /\ SendAction(a) /\ todo' = Tail(todo)
      /\ UNCHANGED <<held, ended, acb, wpc, action>>
  BY DEF SendNext, EngineInv, voiceVars, workerVars
<1>2. todo \in Seq(Sent) /\ a \in Sent /\ todo' \in Seq(Sent)
  BY <1>1 DEF PlayerTypes
<1> HIDE DEF a
<1>3. TimesSent(todo, b) = One(a.buffer = b) + TimesSent(todo', b)
  <2>1. Times(todo, Available(b)) = One(a = Available(b)) + Times(Tail(todo), Available(b))
    BY <1>1, <1>2, TimesTail DEF a
  <2>2. /\ TimesSent(todo, b) = Times(todo, Available(b))
        /\ TimesSent(todo', b) = Times(todo', Available(b))
    BY <1>2, TimesSentIs
  <2> QED BY <1>1, <1>2, <2>1, <2>2, SentBuffer
<1>4. TimesSent(todo', b) \in Nat
  BY <1>2, TimesSentIs
<1>5. ~(b \in parked /\ a.buffer = b)
  BY <1>3, <1>4, PlacesAreNumbers DEF Places, One
<1>6. TimesSent(m_queue', b) + One(b \in parked')
        = TimesSent(m_queue, b) + One(b \in parked) + One(a.buffer = b)
  BY <1>1, <1>2, <1>5, SentMoves
<1>7. TimesSent(m_queue', b) \in Nat
  BY <1>1, <1>2, SendIs, TimesSentIs
<1>8. Places(b)' = Times(held, b) + Times(ended, b) + One(wpc \in Taken /\ action.buffer = b)
                     + One(acb = b) + TimesSent(todo', b) + TimesSent(m_queue', b)
                     + One(b \in parked')
  BY <1>1 DEF Places
<1>9. /\ One(wpc \in Taken /\ action.buffer = b) \in Nat /\ One(acb = b) \in Nat
      /\ One(b \in parked) \in Nat /\ One(b \in parked') \in Nat /\ One(a.buffer = b) \in Nat
  BY DEF One
<1> QED BY <1>3, <1>4, <1>6, <1>7, <1>8, <1>9, PlacesAreNumbers DEF Places

LEMMA createPlaces ==
  ASSUME PlayerTypes, EngineInv, ~reopened, create, NEW b \in Buffers, Places(b) = 1
  PROVE  Places(b)' = 1
<1>1. /\ epc = "create" /\ todo = <<>> /\ parked = Buffers
      /\ UNCHANGED <<m_queue, held, ended, acb, wpc, action>>
  BY DEF create, EngineInv, workerVars
<1>2. CASE todo' = Restore /\ parked' = {}
  <2> DEFINE first == <<Available(0), Available(1)>>
             rest  == IF m_state = "playing" THEN <<Act("resume")>> ELSE <<>>
  <2>1. /\ <<Available(0)>> \in Seq(Sent) /\ Available(1) \in Sent /\ first \in Seq(Sent)
        /\ first = Append(<<Available(0)>>, Available(1))
    BY SentIs DEF Buffers
  <2>2. rest \in Seq(Sent) /\ Times(rest, Available(b)) = 0
    <3>1. Act("resume") \in Sent /\ Act("resume") # Available(b)
      BY CommandsAreSent DEF Act, Available
    <3> QED BY <3>1, TimesOne, TimesEmpty DEF One
  <2>3. Restore = first \o rest
    BY DEF Restore
  <2>4. Times(first, Available(b)) = 1
    <3> DEFINE one == <<Available(0)>>
               v   == Available(1)
    <3>0. one \in Seq(Sent) /\ v \in Sent /\ first = Append(one, v)
      BY <2>1
    <3> HIDE DEF one, v, first
    <3>4. Times(first, Available(b)) = Times(one, Available(b)) + One(v = Available(b))
      BY <3>0, TimesAppend
    <3>1. Times(first, Available(b)) = Times(<<Available(0)>>, Available(b))
                                         + One(Available(1) = Available(b))
      BY <3>4 DEF one, v
    <3>2. Times(<<Available(0)>>, Available(b)) = One(Available(0) = Available(b))
      BY TimesOne
    <3>3. \A x, y : Available(x) = Available(y) <=> x = y
      BY DEF Available, Act
    <3>5. (Available(0) = Available(b) <=> b = 0) /\ (Available(1) = Available(b) <=> b = 1)
      BY <3>3
    <3>6. b = 0 \/ b = 1
      BY DEF Buffers
    <3>7. /\ One(Available(0) = Available(b)) = IF b = 0 THEN 1 ELSE 0
          /\ One(Available(1) = Available(b)) = IF b = 1 THEN 1 ELSE 0
      BY <3>5 DEF One
    <3> QED BY <3>1, <3>2, <3>6, <3>7
  <2> HIDE DEF first, rest
  <2>5. Times(todo', Available(b)) = 1
    <3>1. Times(first \o rest, Available(b)) = Times(first, Available(b))
                                                  + Times(rest, Available(b))
      <4>1. first \in Seq(Sent) /\ rest \in Seq(Sent)
        BY <2>1, <2>2
      <4> QED BY <4>1, TimesConcat
    <3> QED BY <1>2, <2>2, <2>3, <2>4, <3>1
  <2>6. TimesSent(todo', b) = 1 /\ TimesSent(todo, b) = 0
    <3>1. todo' \in Seq(Sent) /\ <<>> \in Seq(Sent)
      BY <1>2, RestoreType
    <3>2. TimesSent(todo', b) = Times(todo', Available(b))
      BY <3>1, TimesSentIs
    <3>3. TimesSent(<<>>, b) = Times(<<>>, Available(b))
      BY <3>1, TimesSentIs
    <3> QED BY <1>1, <2>5, <3>2, <3>3, TimesEmpty
  <2> QED BY <1>1, <1>2, <2>6, PlacesAreNumbers DEF Places, One
<1>3. CASE UNCHANGED <<todo, parked>>
  BY <1>1, <1>3 DEF Places
<1> QED BY <1>2, <1>3 DEF create

LEMMA destroyPlaces ==
  ASSUME PlayerTypes, NEW e, destroy(e), NEW b \in Buffers, Places(b) = 1 PROVE Places(b)' = 1
<1> DEFINE all == held \o ended
<1>1. /\ held' = <<>> /\ ended' = <<>>
      /\ parked' = parked \cup {x \in Buffers : \E i \in 1 .. Len(all) : all[i] = x}
      /\ UNCHANGED <<todo, m_queue, acb, wpc, action>>
  BY DEF destroy, workerVars
<1>2. all \in Seq(Buffers) /\ Times(all, b) = Times(held, b) + Times(ended, b)
  BY ConcatProperties, TimesConcat DEF PlayerTypes
<1> HIDE DEF all
<1>3. Times(all, b) = 0 <=> ~\E i \in 1 .. Len(all) : all[i] = b
  BY <1>2, TimesZero
<1>4. Times(held', b) = 0 /\ Times(ended', b) = 0
  BY <1>1, TimesEmpty
<1> DEFINE rest == One(wpc \in Taken /\ action.buffer = b) + One(acb = b) + TimesSent(todo, b)
                     + TimesSent(m_queue, b)
<1>5. /\ Times(held, b) \in Nat /\ Times(ended, b) \in Nat /\ TimesSent(todo, b) \in Nat
      /\ TimesSent(m_queue, b) \in Nat /\ \A x : One(x) \in Nat
  BY PlacesAreNumbers DEF One
<1>6. rest \in Nat /\ Places(b) = Times(all, b) + rest + One(b \in parked)
  BY <1>2, <1>5 DEF Places
<1>7. /\ Times(held', b) = 0 /\ Times(ended', b) = 0 /\ One(b \in parked') \in Nat
      /\ One(wpc' \in Taken /\ action'.buffer = b) = One(wpc \in Taken /\ action.buffer = b)
      /\ One(acb' = b) = One(acb = b)
      /\ TimesSent(todo', b) = TimesSent(todo, b) /\ TimesSent(m_queue', b) = TimesSent(m_queue, b)
  BY <1>1, <1>4, <1>5
<1>9. Places(b)' = rest + One(b \in parked')
  BY <1>5, <1>7 DEF Places
<1>8. (b \in parked') = (b \in parked \/ Times(all, b) # 0)
  BY <1>1, <1>3
<1> HIDE DEF rest
<1> QED BY <1>2, <1>5, <1>6, <1>8, <1>9 DEF One

LEMMA XAudio2Places ==
  ASSUME PlayerTypes, XAudio2, NEW b \in Buffers, Places(b) = 1 PROVE Places(b)' = 1
<1>0. NoBuffer \notin Buffers /\ PlayerTypes'
  BY XAudio2Types DEF NoBuffer, Buffers
<1>1. CASE VoicePlays
  <2>1. /\ acb = NoBuffer /\ held # <<>> /\ acb' = Head(held) /\ held' = Tail(held)
        /\ UNCHANGED <<ended, todo, m_queue, wpc, action, parked>>
    BY <1>1 DEF VoicePlays, engineVars, workerVars
  <2>2. Times(held, b) = One(acb' = b) + Times(held', b)
    BY <2>1, TimesTail DEF PlayerTypes
  <2>3. Times(held', b) \in Nat
    BY <1>0, TimesIs DEF PlayerTypes
  <2> QED BY <1>0, <2>1, <2>2, <2>3, PlacesAreNumbers DEF Places, One
<1>2. CASE VoiceReports
  <2>1. /\ acb = NoBuffer /\ ended # <<>> /\ acb' = Head(ended) /\ ended' = Tail(ended)
        /\ UNCHANGED <<held, todo, m_queue, wpc, action, parked>>
    BY <1>2 DEF VoiceReports, engineVars, workerVars
  <2>2. Times(ended, b) = One(acb' = b) + Times(ended', b)
    BY <2>1, TimesTail DEF PlayerTypes
  <2>3. Times(ended', b) \in Nat
    BY <1>0, TimesIs DEF PlayerTypes
  <2> QED BY <1>0, <2>1, <2>2, <2>3, PlacesAreNumbers DEF Places, One
<1>3. CASE OnBufferEnd
  <2>1. /\ acb \in Buffers /\ acb' = NoBuffer /\ SendAction(Available(acb))
        /\ UNCHANGED <<held, ended, todo, wpc, action>>
    BY <1>3 DEF OnBufferEnd, PlayerTypes, engineVars, workerVars
  <2>2. ~(b \in parked /\ acb = b)
    BY PlacesAreNumbers DEF Places, One
  <2>3. TimesSent(m_queue', b) + One(b \in parked')
          = TimesSent(m_queue, b) + One(b \in parked) + One(acb = b)
    BY <2>1, <2>2, SentIs, SentMoves
  <2>4. TimesSent(m_queue', b) \in Nat
    BY <1>0, TimesSentIs DEF PlayerTypes
  <2> QED BY <1>0, <2>1, <2>3, <2>4, PlacesAreNumbers DEF Places, One
<1> QED BY <1>1, <1>2, <1>3 DEF XAudio2

\* A flushed buffer is one the voice has to report.
LEMMA FlushPlaces ==
  ASSUME PlayerTypes, ended' = ended \o held, held' = <<>>, NEW b
  PROVE  Times(held', b) + Times(ended', b) = Times(held, b) + Times(ended, b)
BY TimesConcat, TimesEmpty, PlacesAreNumbers DEF PlayerTypes

LEMMA WorkerPlaces ==
  ASSUME PlayerTypes, Worker, NEW b \in Buffers, Places(b) = 1 PROVE Places(b)' = 1
<1> USE DEF Taken
<1>1. CASE ReceiveTest
  BY <1>1 DEF ReceiveTest, Places, engineVars, voiceVars, One
<1>2. CASE ReceiveWait
  <2>1. CASE m_queue # <<>>
    <3> DEFINE a == Head(m_queue)
    <3>1. /\ wpc = "wait" /\ action' = a /\ m_queue' = Tail(m_queue) /\ wpc' = a.type
          /\ UNCHANGED <<held, ended, acb, todo, parked>>
      BY <1>2, <2>1 DEF ReceiveWait, engineVars, voiceVars
    <3>2. a \in Sent /\ m_queue \in Seq(Sent) /\ m_queue' \in Seq(Sent)
      BY <2>1, <3>1 DEF PlayerTypes
    <3> HIDE DEF a
    <3>3. TimesSent(m_queue, b) = One(a.buffer = b) + TimesSent(m_queue', b)
      <4>1. Times(m_queue, Available(b))
              = One(a = Available(b)) + Times(Tail(m_queue), Available(b))
        BY <2>1, <3>2, TimesTail DEF a
      <4>2. /\ TimesSent(m_queue, b) = Times(m_queue, Available(b))
            /\ TimesSent(m_queue', b) = Times(m_queue', Available(b))
        BY <3>2, TimesSentIs
      <4> QED BY <3>1, <3>2, <4>1, <4>2, SentBuffer
    <3>4. (wpc' \in Taken /\ action'.buffer = b) <=> a.buffer = b
      BY <3>1, <3>2, SentIs DEF ActionType, Buffers, NoBuffer
    <3>5. TimesSent(m_queue', b) \in Nat
      BY <3>2, TimesSentIs
    <3> QED BY <3>1, <3>3, <3>4, <3>5, PlacesAreNumbers DEF Places, One
  <2>2. CASE m_queue = <<>>
    BY <1>2, <2>2 DEF ReceiveWait, Places, engineVars, voiceVars, One
  <2> QED BY <2>1, <2>2
<1>3. CASE onBufferAvailable
  <2>1. /\ UNCHANGED <<held, ended, acb, todo, m_queue, action>> /\ wpc = "buffer_available"
        /\ \/ parked' = parked \cup {action.buffer} /\ wpc' = "test"
           \/ wpc' = "submit" /\ parked' = parked
    BY <1>3 DEF onBufferAvailable, engineVars, voiceVars
  <2> QED BY <2>1, PlacesAreNumbers DEF Places, One
<1>4. CASE Submit
  <2>1. /\ UNCHANGED <<ended, acb, todo, m_queue, action>> /\ wpc = "submit" /\ wpc' = "test"
        /\ \/ parked' = parked \cup {action.buffer} /\ held' = held
           \/ held' = Append(held, action.buffer) /\ parked' = parked
    BY <1>4 DEF Submit, engineVars
  <2>2. Times(Append(held, action.buffer), b) = Times(held, b) + One(action.buffer = b)
    BY <2>1, TimesAppend DEF PlayerTypes
  <2>3. CASE parked' = parked \cup {action.buffer} /\ held' = held
    BY <2>1, <2>3, PlacesAreNumbers DEF Places, One
  <2>4. CASE held' = Append(held, action.buffer) /\ parked' = parked
    <3>1. Times(held', b) = Times(held, b) + One(action.buffer = b)
      BY <2>2, <2>4
    <3> QED BY <2>1, <2>4, <3>1, PlacesAreNumbers DEF Places, One
  <2> QED BY <2>1, <2>3, <2>4
<1>5. CASE onPlay
  BY <1>5 DEF onPlay, Places, engineVars, One
<1>6. CASE onPlayStart
  <2>1. UNCHANGED <<acb, todo, m_queue, action, parked>> /\ wpc = "start" /\ wpc' = "test"
    BY <1>6 DEF onPlayStart, engineVars
  <2>2. Times(held', b) + Times(ended', b) = Times(held, b) + Times(ended, b)
    BY <1>6, FlushPlaces DEF onPlayStart
  <2> QED BY <2>1, <2>2 DEF Places, One
<1>7. CASE onPauseOrStop
  BY <1>7 DEF onPauseOrStop, Places, engineVars, One
<1>8. CASE onResume
  BY <1>8 DEF onResume, Places, engineVars, One
<1>9. CASE onUpdateLoop
  BY <1>9 DEF onUpdateLoop, Places, engineVars, voiceVars, One
<1>10. CASE onExit
  <2>1. UNCHANGED <<acb, todo, m_queue, action, parked>> /\ wpc = "exit" /\ wpc' = "exited"
    BY <1>10 DEF onExit, engineVars
  <2>2. Times(held', b) + Times(ended', b) = Times(held, b) + Times(ended, b)
    BY <1>10, FlushPlaces DEF onExit
  <2> QED BY <2>1, <2>2 DEF Places, One
<1> QED BY <1>1, <1>2, <1>3, <1>4, <1>5, <1>6, <1>7, <1>8, <1>9, <1>10 DEF Worker

\* Calls send commands, which are no buffers.
LEMMA CommandPlaces ==
  ASSUME PlayerTypes, EngineInv, NEW s, NEW a \in Sent, a.buffer = NoBuffer, Command(s, a),
         NEW b \in Buffers, Places(b) = 1
  PROVE  Places(b)' = 1 /\ reopened' = reopened
<1>1. /\ todo = <<>> /\ todo' = <<a>> /\ reopened' = reopened
      /\ UNCHANGED <<m_queue, held, ended, acb, wpc, action, parked>>
  BY DEF Command, EngineInv, voiceVars, workerVars
<1>2. TimesSent(todo', b) = 0 /\ TimesSent(todo, b) = 0
  <2>1. <<a>> \in Seq(Sent) /\ <<>> \in Seq(Sent) /\ a # Available(b)
    BY SentBuffer DEF Buffers, NoBuffer
  <2>2. TimesSent(<<a>>, b) = Times(<<a>>, Available(b)) /\ TimesSent(<<>>, b) = Times(<<>>, Available(b))
    BY <2>1, TimesSentIs
  <2>3. Times(<<a>>, Available(b)) = 0 /\ Times(<<>>, Available(b)) = 0
    BY <2>1, TimesOne, TimesEmpty DEF One
  <2> QED BY <1>1, <2>2, <2>3
<1> QED BY <1>1, <1>2 DEF Places

\* The actions of calls, as a quantity that all of them share.
LEMMA CallIs ==
  ASSUME PlayerTypes, Calls
  PROVE  \/ \E s \in {"stopped", "playing", "paused"}, a \in Sent :
              /\ a.buffer = NoBuffer /\ Command(s, a)
              /\ IF a.type \in VoiceCommands THEN a.type \in {"play", "resume"} <=> s = "playing"
                                             ELSE s = m_state
         \/ setAudioEndpoint
         \/ Destruct
<1> DEFINE Goal == \E s \in {"stopped", "playing", "paused"}, a \in Sent :
              /\ a.buffer = NoBuffer /\ Command(s, a)
              /\ IF a.type \in VoiceCommands THEN a.type \in {"play", "resume"} <=> s = "playing"
                                             ELSE s = m_state
<1>1. ASSUME NEW t \in Positions, play(t) PROVE Goal
  <2> DEFINE a == [Act("play") EXCEPT !.start = t]
  <2>1. a \in Sent /\ a.buffer = NoBuffer /\ a.type = "play"
    BY CommandsAreSent DEF Act
  <2> QED BY <1>1, <2>1 DEF play, VoiceCommands
<1>2. CASE pause
  BY <1>2, CommandsAreSent DEF pause, Act, VoiceCommands
<1>3. CASE resume
  BY <1>3, CommandsAreSent DEF resume, Act, VoiceCommands
<1>4. CASE stop
  BY <1>4, CommandsAreSent DEF stop, Act, VoiceCommands
<1>5. ASSUME NEW l \in Loops, setLoop(l) PROVE Goal
  <2> DEFINE a == [Act(IF l.on THEN "loop" ELSE "unloop")
                     EXCEPT !.start = l.start, !.length = l.length]
  <2>1. a \in Sent /\ a.buffer = NoBuffer /\ a.type \in {"loop", "unloop"}
    BY CommandsAreSent DEF Act
  <2>2. m_state \in {"stopped", "playing", "paused"} /\ Command(m_state, a)
    BY <1>5 DEF setLoop, PlayerTypes
  <2> HIDE DEF a
  <2> QED BY <2>1, <2>2 DEF VoiceCommands
<1> QED BY <1>1, <1>2, <1>3, <1>4, <1>5 DEF Calls

LEMMA InitPlaces == Init => OnePlaceEach
<1> SUFFICES ASSUME Init, NEW b \in Buffers PROVE Places(b) = 1
  BY DEF OnePlaceEach
<1>1. <<>> \in Seq(Sent)
  OBVIOUS
<1>2. TimesSent(<<>>, b) = Times(<<>>, Available(b))
  BY <1>1, TimesSentIs
<1>3. Times(<<>>, b) = 0 /\ TimesSent(<<>>, b) = 0
  BY <1>2, TimesEmpty
<1> QED BY <1>3 DEF Init, Places, One, Taken, Buffers, NoBuffer

LEMMA PlacesStep ==
  ASSUME PlayerTypes, EngineInv, OnePlaceEach, [Next]_vars PROVE OnePlaceEach'
<1> SUFFICES ASSUME ~reopened', NEW b \in Buffers PROVE Places(b)' = 1
  BY DEF OnePlaceEach
<1>1. CASE Calls
  <2>1. ~setAudioEndpoint
    BY DEF setAudioEndpoint
  <2>2. CASE Destruct
    <3>1. UNCHANGED <<reopened, todo, m_queue, held, ended, acb, wpc, action, parked>>
      BY <2>2 DEF Destruct, voiceVars, workerVars
    <3> QED BY <3>1 DEF OnePlaceEach, Places
  <2>3. ASSUME NEW s, NEW a \in Sent, a.buffer = NoBuffer, Command(s, a) PROVE Places(b)' = 1
    BY <2>3, CommandPlaces DEF OnePlaceEach, Command
  <2> QED BY <1>1, <2>1, <2>2, <2>3, CallIs
<1>2. CASE Engine
  <2>1. ~reopened
    BY <1>2 DEF Engine, SendNext, Destroy, create, Join, DestroyLast, destroy
  <2>2. CASE Join
    <3>1. UNCHANGED <<todo, m_queue, held, ended, acb, wpc, action, parked>>
      BY <2>2 DEF Join, voiceVars, workerVars
    <3> QED BY <2>1, <3>1 DEF OnePlaceEach, Places
  <2> QED BY <1>2, <2>1, <2>2, SendNextPlaces, createPlaces, destroyPlaces
          DEF Engine, Destroy, DestroyLast, OnePlaceEach
<1>3. CASE XAudio2
  <2>1. ~reopened
    BY <1>3 DEF XAudio2, VoicePlays, VoiceReports, OnBufferEnd, engineVars
  <2> QED BY <1>3, <2>1, XAudio2Places DEF OnePlaceEach
<1>4. CASE Worker
  <2>1. ~reopened
    BY <1>4 DEF Worker, ReceiveTest, ReceiveWait, onBufferAvailable, Submit, onPlay, onPlayStart,
                onPauseOrStop, onResume, onUpdateLoop, onExit, engineVars
  <2> QED BY <1>4, <2>1, WorkerPlaces DEF OnePlaceEach
<1>5. CASE UNCHANGED vars
  BY <1>5 DEF vars, OnePlaceEach, Places
<1> QED BY <1>1, <1>2, <1>3, <1>4, <1>5 DEF Next

-----------------------------------------------------------------------------
(* What the voice plays *)

Last(q) == q[Len(q)]

Follows(y, x) == content[y].jump \/ content[y].from = content[x].to

\* The buffer in hand goes on where the voice's last one ends, and so will the
\* next one to be decoded, unless it is refused for its position.
HeldInv ==
  ~reopened =>
    /\ \A i \in 1 .. Len(held) - 1 : Follows(held[i + 1], held[i])
    /\ wpc = "submit" => content[action.buffer].to = m_current_sample
    /\ wpc = "submit" /\ held # <<>> => Follows(action.buffer, Last(held))
    /\ wpc \notin {"submit", "start"} /\ parked = {} /\ held # <<>>
         => content[Last(held)].to = m_current_sample \/ m_current_sample > FrameCount

\* A buffer in the decoder's hands is in no other place; nor are both in the
\* voice then, and if one is, none is parked.
LEMMA OnlyPlace ==
  ASSUME PlayerTypes, OnePlaceEach, ~reopened, NEW b \in Buffers
  PROVE  /\ Times(held, b) \in Nat
         /\ Times(held, b) > 0 => b \notin parked /\ ~(wpc \in Taken /\ action.buffer = b)
         /\ b \in parked => ~(wpc \in Taken /\ action.buffer = b)
<1>1. Places(b) = 1
  BY DEF OnePlaceEach
<1>2. /\ Times(held, b) \in Nat /\ Times(ended, b) \in Nat
      /\ TimesSent(todo, b) \in Nat /\ TimesSent(m_queue, b) \in Nat
  BY PlacesAreNumbers
<1> QED BY <1>1, <1>2 DEF Places, One

LEMMA HeldCounts ==
  ASSUME PlayerTypes, NEW i \in 1 .. Len(held)
  PROVE  held[i] \in Buffers /\ Times(held, held[i]) > 0
<1>1. held \in Seq(Buffers) /\ held[i] \in Buffers
  BY DEF PlayerTypes
<1>2. Times(held, held[i]) # 0 /\ Times(held, held[i]) \in Nat
  BY <1>1, TimesZero, TimesIs
<1> QED BY <1>1, <1>2

LEMMA HandIsAlone ==
  ASSUME PlayerTypes, OnePlaceEach, ~reopened, wpc \in Taken
  PROVE  /\ \A i \in 1 .. Len(held) : held[i] # action.buffer
         /\ parked # {} => held = <<>>
<1>1. /\ action.buffer \in Buffers
      /\ \A b \in Buffers : Times(held, b) > 0 => b # action.buffer /\ b \notin parked
      /\ \A b \in parked : b # action.buffer
  BY OnlyPlace DEF PlayerTypes
<1>2. \A i \in 1 .. Len(held) : held[i] \in Buffers /\ Times(held, held[i]) > 0
  BY HeldCounts
<1>3. ASSUME parked # {}, held # <<>> PROVE FALSE
  <2>1. PICK p \in parked : TRUE
    BY <1>3
  <2>2. 1 \in 1 .. Len(held)
    BY <1>3 DEF PlayerTypes
  <2> QED BY <1>1, <1>2, <2>1, <2>2 DEF PlayerTypes, Buffers
<1> QED BY <1>1, <1>2, <1>3

\* A buffer that is parked is not in the voice.
LEMMA AllParked ==
  ASSUME PlayerTypes, OnePlaceEach, ~reopened, parked = Buffers PROVE held = <<>>
<1> SUFFICES ASSUME held # <<>> PROVE FALSE
  OBVIOUS
<1>1. 1 \in 1 .. Len(held)
  BY DEF PlayerTypes
<1> QED BY <1>1, HeldCounts, OnlyPlace

LEMMA LastOf ==
  /\ \A q \in Seq(Buffers) : q # <<>> => Last(q) \in Buffers /\ Len(q) \in 1 .. Len(q)
  /\ \A q \in Seq(Buffers) : q # <<>> /\ Tail(q) # <<>> => Last(Tail(q)) = Last(q)
  /\ \A q \in Seq(Buffers), b \in Buffers : Last(Append(q, b)) = b
<1>1. ASSUME NEW q \in Seq(Buffers), q # <<>> PROVE Last(q) \in Buffers /\ Len(q) \in 1 .. Len(q)
  <2>1. Len(q) \in Nat \ {0}
    BY <1>1, EmptySeq
  <2> QED BY <2>1, ElementOfSeq DEF Last
<1>2. ASSUME NEW q \in Seq(Buffers), q # <<>>, Tail(q) # <<>> PROVE Last(Tail(q)) = Last(q)
  <2>1. Tail(q) \in Seq(Buffers) /\ Len(Tail(q)) = Len(q) - 1
        /\ \A i \in 1 .. Len(Tail(q)) : Tail(q)[i] = q[i + 1]
    BY <1>2, HeadTailProperties
  <2>2. Len(q) \in Nat /\ Len(Tail(q)) \in Nat \ {0}
    BY <1>2, <2>1, EmptySeq, LenProperties
  <2> QED BY <2>1, <2>2 DEF Last
<1>3. ASSUME NEW q \in Seq(Buffers), NEW b \in Buffers PROVE Last(Append(q, b)) = b
  BY DEF Last
<1> QED BY <1>1, <1>2, <1>3

\* Steps that leave the voice's buffers and their contents alone, and do not
\* take up or put down a buffer.
LEMMA HeldStays ==
  ASSUME HeldInv, ~reopened, UNCHANGED <<held, content, m_current_sample, action>>,
         parked \subseteq parked', wpc' = wpc \/ {wpc, wpc'} \cap {"submit", "start"} = {}
  PROVE  HeldInv'
BY DEF HeldInv, Follows, Last

LEMMA HeldStep ==
  ASSUME PlayerTypes, EngineInv, OnePlaceEach, HeldInv, [Next]_vars PROVE HeldInv'
<1> SUFFICES ASSUME ~reopened' PROVE HeldInv'
  BY DEF HeldInv
<1>1. CASE Calls
  <2>1. ~setAudioEndpoint
    BY DEF setAudioEndpoint
  <2>2. UNCHANGED <<reopened, held, content, m_current_sample, action, parked, wpc>>
    BY <1>1, <2>1 DEF Calls, play, pause, resume, stop, setLoop, Command, Destruct, voiceVars,
                      workerVars
  <2> QED BY <2>2, HeldStays
<1>2. CASE SendNext
  <2>1. parked \subseteq parked' /\ UNCHANGED <<reopened, held, content, m_current_sample, action, wpc>>
    BY <1>2 DEF SendNext, SendAction, Put, Lose, voiceVars, workerVars
  <2> QED BY <2>1, HeldStays
<1>3. CASE create
  <2>1. ~reopened /\ epc = "create" /\ held' = held /\ held = <<>>
        /\ UNCHANGED <<content, m_current_sample, action, wpc>>
    BY <1>3, AllParked DEF create, EngineInv, workerVars
  <2> QED BY <2>1 DEF HeldInv
<1>4. CASE Destroy \/ DestroyLast
  <2>1. ~reopened /\ held' = <<>> /\ UNCHANGED <<content, m_current_sample, action, wpc>>
    BY <1>4 DEF Destroy, DestroyLast, destroy, workerVars
  <2> QED BY <2>1 DEF HeldInv
<1>5. CASE Join
  <2>1. UNCHANGED <<reopened, held, content, m_current_sample, action, parked, wpc>>
    BY <1>5 DEF Join, voiceVars, workerVars
  <2> QED BY <2>1, HeldStays
<1>6. CASE VoicePlays
  <2>1. held # <<>> /\ held' = Tail(held) /\ held \in Seq(Buffers)
        /\ UNCHANGED <<reopened, content, m_current_sample, action, parked, wpc>>
    BY <1>6 DEF VoicePlays, engineVars, workerVars, PlayerTypes
  <2>2. Len(held') = Len(held) - 1 /\ \A i \in 1 .. Len(held') : held'[i] = held[i + 1]
    BY <2>1
  <2>3. \A i \in 1 .. Len(held') - 1 : Follows(held'[i + 1], held'[i])
    <3> SUFFICES ASSUME NEW i \in 1 .. Len(held') - 1 PROVE Follows(held'[i + 1], held'[i])
      OBVIOUS
    <3>1. i + 1 \in 1 .. Len(held) - 1 /\ held'[i] = held[i + 1] /\ held'[i + 1] = held[i + 1 + 1]
      BY <2>1, <2>2
    <3> QED BY <2>1, <3>1 DEF HeldInv
  <2>4. held' # <<>> => Last(held') = Last(held)
    BY <2>1, LastOf
  <2> QED BY <2>1, <2>3, <2>4 DEF HeldInv, Follows
<1>7. CASE VoiceReports \/ OnBufferEnd
  <2>1. parked \subseteq parked' /\ UNCHANGED <<reopened, held, content, m_current_sample, action, wpc>>
    BY <1>7 DEF VoiceReports, OnBufferEnd, SendAction, Put, Lose, engineVars, workerVars
  <2> QED BY <2>1, HeldStays
<1>8. CASE ReceiveTest
  <2>1. UNCHANGED <<reopened, held, content, m_current_sample, action, parked>>
        /\ {wpc, wpc'} \cap {"submit", "start"} = {}
    BY <1>8 DEF ReceiveTest, engineVars, voiceVars
  <2> QED BY <2>1, HeldStays
<1>9. CASE ReceiveWait
  <2>1. m_queue # <<>> => Head(m_queue).type \in ActionType
    <3>1. m_queue # <<>> => Head(m_queue) \in Sent
      BY DEF PlayerTypes
    <3> QED BY <3>1, SentIs
  <2>2. UNCHANGED <<reopened, held, content, m_current_sample, parked>>
        /\ {wpc, wpc'} \cap {"submit", "start"} = {}
    BY <1>9, <2>1 DEF ReceiveWait, engineVars, voiceVars, ActionType
  <2> QED BY <2>2 DEF HeldInv, Follows, Last
<1>10. CASE onBufferAvailable
  <2>1. /\ UNCHANGED <<reopened, held, action>> /\ wpc = "buffer_available"
        /\ m_current_sample' \in {From} \cup {p \in {From + Asked} : From <= FrameCount}
    BY <1>10 DEF onBufferAvailable, engineVars, voiceVars
  <2>2. CASE m_current_sample' = From
    <3>1. content' = content /\ wpc' = "test" /\ parked' # {}
      BY <1>10, <2>2 DEF onBufferAvailable
    <3> QED BY <2>1, <3>1 DEF HeldInv, Follows
  <2>3. CASE m_current_sample' # From
    <3> DEFINE h == action.buffer
    <3>1. /\ wpc' = "submit" /\ parked' = parked /\ From <= FrameCount
          /\ content' = [content EXCEPT ![h] =
                           [from |-> From, to |-> m_current_sample', jump |-> AtLoopEnd]]
      BY <1>10, <2>1, <2>3 DEF onBufferAvailable
    <3>2. /\ h \in Buffers /\ content'[h].from = From /\ content'[h].to = m_current_sample'
          /\ content'[h].jump = AtLoopEnd
          /\ \A b \in Buffers : b # h => content'[b] = content[b]
      BY <2>1, <3>1 DEF PlayerTypes, Taken
    <3>3. /\ \A i \in 1 .. Len(held) : held[i] \in Buffers /\ held[i] # h
          /\ parked # {} => held = <<>>
      BY <2>1, HandIsAlone DEF PlayerTypes, Taken
    <3> HIDE DEF h
    <3>4. \A i \in 1 .. Len(held) : content'[held[i]] = content[held[i]]
      BY <3>2, <3>3
    <3>5. \A i \in 1 .. Len(held') - 1 : Follows(held[i + 1], held[i])'
      <4> SUFFICES ASSUME NEW i \in 1 .. Len(held) - 1 PROVE Follows(held[i + 1], held[i])'
        BY <2>1
      <4>1. i \in 1 .. Len(held) /\ i + 1 \in 1 .. Len(held)
        BY DEF PlayerTypes
      <4>2. Follows(held[i + 1], held[i])
        BY <2>1 DEF HeldInv
      <4> QED BY <2>1, <3>4, <4>1, <4>2 DEF Follows
    <3>6. held # <<>> => Follows(h, Last(held))'
      <4> SUFFICES ASSUME held # <<>> PROVE Follows(h, Last(held))'
        OBVIOUS
      <4>1. Last(held) \in Buffers /\ Last(held) # h /\ parked = {}
            /\ content'[Last(held)] = content[Last(held)]
        BY <3>3, <3>4, LastOf DEF Last, PlayerTypes
      <4>2. content[Last(held)].to = m_current_sample \/ m_current_sample > FrameCount
        BY <2>1, <4>1 DEF HeldInv
      <4>3. CASE AtLoopEnd
        BY <3>2, <4>3, <2>1 DEF Follows, h
      <4>4. CASE ~AtLoopEnd
        <5>1. From = m_current_sample /\ m_current_sample \in Nat
          BY <4>4 DEF From, PlayerTypes
        <5>2. content[Last(held)].to = From
          BY <3>1, <4>2, <5>1, SizesAssumption
        <5> QED BY <2>1, <3>2, <4>1, <5>2 DEF Follows, h, Last
      <4> QED BY <4>3, <4>4
    <3> QED BY <2>1, <3>1, <3>2, <3>5, <3>6 DEF HeldInv, h, Last
  <2> QED BY <2>2, <2>3
<1>11. CASE Submit
  <2>1. /\ UNCHANGED <<reopened, action, content, m_current_sample>>
        /\ wpc = "submit" /\ wpc' = "test" /\ action.buffer \in Buffers /\ held \in Seq(Buffers)
    BY <1>11 DEF Submit, engineVars, PlayerTypes, Taken
  <2>2. CASE voice = "none"
    BY <1>11, <2>1, <2>2 DEF Submit, HeldInv, Follows
  <2>3. CASE voice # "none"
    <3>1. held' = Append(held, action.buffer) /\ parked' = parked
      BY <1>11, <2>3 DEF Submit
    <3>2. Len(held') = Len(held) + 1 /\ Last(held') = action.buffer
          /\ \A i \in 1 .. Len(held) : held'[i] = held[i]
      BY <2>1, <3>1, LastOf
    <3>3. \A i \in 1 .. Len(held') - 1 : Follows(held'[i + 1], held'[i])
      <4> SUFFICES ASSUME NEW i \in 1 .. Len(held) PROVE Follows(held'[i + 1], held'[i])
        BY <2>1, <3>2
      <4>1. CASE i = Len(held)
        <5>1. held'[i + 1] = action.buffer /\ held'[i] = Last(held) /\ held # <<>>
          BY <2>1, <3>2, <4>1 DEF Last
        <5> QED BY <2>1, <5>1 DEF HeldInv
      <4>2. CASE i # Len(held)
        <5>1. i \in 1 .. Len(held) - 1 /\ held'[i] = held[i] /\ held'[i + 1] = held[i + 1]
          BY <2>1, <3>2, <4>2
        <5> QED BY <2>1, <5>1 DEF HeldInv
      <4> QED BY <4>1, <4>2
    <3> QED BY <2>1, <3>2, <3>3 DEF HeldInv, Follows
  <2> QED BY <2>2, <2>3
<1>12. CASE onPlay
  <2>1. /\ UNCHANGED <<reopened, held, content, action, parked>> /\ wpc = "play"
        /\ m_current_sample' = action.start
        /\ IF action.start > FrameCount THEN wpc' = "test" ELSE wpc' = "start"
    BY <1>12 DEF onPlay, engineVars
  <2> QED BY <2>1 DEF HeldInv, Follows
<1>13. CASE onPlayStart \/ onExit
  <2>1. UNCHANGED <<reopened, content, action, m_current_sample>> /\ held' = <<>>
        /\ wpc' # "submit"
    BY <1>13 DEF onPlayStart, onExit, engineVars
  <2> QED BY <2>1 DEF HeldInv
<1>14. CASE onPauseOrStop \/ onResume \/ onUpdateLoop
  <2>1. UNCHANGED <<reopened, held, content, m_current_sample, action, parked>>
        /\ {wpc, wpc'} \cap {"submit", "start"} = {}
    BY <1>14 DEF onPauseOrStop, onResume, onUpdateLoop, engineVars, voiceVars
  <2> QED BY <2>1, HeldStays
<1>15. CASE UNCHANGED vars
  BY <1>15, HeldStays DEF vars
<1> QED BY <1>1, <1>2, <1>3, <1>4, <1>5, <1>6, <1>7, <1>8, <1>9, <1>10, <1>11, <1>12, <1>13, <1>14,
           <1>15 DEF Next, Engine, XAudio2, Worker

-----------------------------------------------------------------------------
(* Commands and the state *)

\* No command for the voice behind place n of q.
Quiet(q, n) == \A j \in n + 1 .. Len(q) : q[j].type \notin VoiceCommands

\* The voice runs after a command c if and only if it should in state s.
Agrees(c, s) == c \in {"play", "resume"} <=> s = "playing"

\* The last command for the voice in q leads to s.
LastAgrees(q, s) ==
  \A i \in 1 .. Len(q) : q[i].type \in VoiceCommands /\ Quiet(q, i) => Agrees(q[i].type, s)

\* The command that is being carried out.
Present == IF wpc = "start" THEN "play" ELSE wpc

\* The last command of all, wherever it is, leads to m_state; without any the
\* voice is there already.
StateInv ==
  ~missed /\ ~m_event_exit =>
    /\ LastAgrees(todo, m_state)
    /\ Quiet(todo, 0) => LastAgrees(m_queue, m_state)
    /\ Quiet(todo, 0) /\ Quiet(m_queue, 0) /\ Present \in VoiceCommands => Agrees(Present, m_state)
    /\ Quiet(todo, 0) /\ Quiet(m_queue, 0) /\ Present \notin VoiceCommands /\ voice # "none"
         => (voice = "started") = (m_state = "playing")

LEMMA QuietEmpty == \A s : Quiet(<<>>, 0) /\ LastAgrees(<<>>, s)
BY DEF Quiet, LastAgrees

LEMMA QuietTail ==
  ASSUME NEW q \in Seq(Sent), q # <<>>, NEW s
  PROVE  /\ Quiet(q, 0) <=> Head(q).type \notin VoiceCommands /\ Quiet(Tail(q), 0)
         /\ LastAgrees(q, s) => LastAgrees(Tail(q), s)
         /\ LastAgrees(q, s) /\ Quiet(Tail(q), 0) /\ Head(q).type \in VoiceCommands
              => Agrees(Head(q).type, s)
<1>1. /\ Len(q) \in Nat \ {0} /\ Len(Tail(q)) = Len(q) - 1 /\ Head(q) = q[1]
      /\ \A i \in 1 .. Len(Tail(q)) : Tail(q)[i] = q[i + 1]
  BY EmptySeq, HeadTailProperties
<1>2. \A i \in 1 .. Len(q) : i = 1 \/ (i - 1 \in 1 .. Len(Tail(q)) /\ q[i] = Tail(q)[i - 1])
  BY <1>1
<1>3. \A n \in 0 .. Len(Tail(q)) : Quiet(Tail(q), n) <=> Quiet(q, n + 1)
  <2> SUFFICES ASSUME NEW n \in 0 .. Len(Tail(q)) PROVE Quiet(Tail(q), n) <=> Quiet(q, n + 1)
    OBVIOUS
  <2>1. ASSUME Quiet(q, n + 1), NEW j \in n + 1 .. Len(Tail(q))
        PROVE  Tail(q)[j].type \notin VoiceCommands
    <3>1. j + 1 \in n + 1 + 1 .. Len(q) /\ Tail(q)[j] = q[j + 1]
      BY <1>1
    <3> QED BY <2>1, <3>1 DEF Quiet
  <2>2. ASSUME Quiet(Tail(q), n), NEW j \in n + 1 + 1 .. Len(q)
        PROVE  q[j].type \notin VoiceCommands
    <3>1. j - 1 \in n + 1 .. Len(Tail(q)) /\ q[j] = Tail(q)[j - 1]
      BY <1>1, <1>2
    <3> QED BY <2>2, <3>1 DEF Quiet
  <2> QED BY <2>1, <2>2 DEF Quiet
<1>4. Quiet(Tail(q), 0) <=> Quiet(q, 1)
  BY <1>1, <1>3
<1>5. Quiet(q, 0) <=> Head(q).type \notin VoiceCommands /\ Quiet(q, 1)
  BY <1>1 DEF Quiet
<1>6. ASSUME LastAgrees(q, s), NEW i \in 1 .. Len(Tail(q)), Tail(q)[i].type \in VoiceCommands,
             Quiet(Tail(q), i)
      PROVE  Agrees(Tail(q)[i].type, s)
  <2>1. i + 1 \in 1 .. Len(q) /\ q[i + 1] = Tail(q)[i] /\ Quiet(q, i + 1)
    BY <1>1, <1>3, <1>6
  <2> QED BY <1>6, <2>1 DEF LastAgrees
<1>7. ASSUME LastAgrees(q, s), Quiet(q, 1), Head(q).type \in VoiceCommands
      PROVE  Agrees(Head(q).type, s)
  BY <1>1, <1>7 DEF LastAgrees
<1>8. LastAgrees(q, s) => LastAgrees(Tail(q), s)
  BY <1>6 DEF LastAgrees
<1> QED BY <1>4, <1>5, <1>7, <1>8

LEMMA QuietAppend ==
  ASSUME NEW q \in Seq(Sent), NEW a \in Sent, NEW s
  PROVE  /\ Append(q, a) \in Seq(Sent)
         /\ Quiet(Append(q, a), 0) <=> Quiet(q, 0) /\ a.type \notin VoiceCommands
         /\ a.type \in VoiceCommands /\ Agrees(a.type, s) => LastAgrees(Append(q, a), s)
         /\ a.type \notin VoiceCommands /\ LastAgrees(q, s) => LastAgrees(Append(q, a), s)
<1> DEFINE r == Append(q, a)
<1>1. /\ Len(q) \in Nat /\ Len(r) = Len(q) + 1 /\ r[Len(q) + 1] = a /\ r \in Seq(Sent)
      /\ \A i \in 1 .. Len(q) : r[i] = q[i]
  BY LenProperties
<1> HIDE DEF r
<1>2. \A n \in 0 .. Len(q) : Quiet(r, n) <=> Quiet(q, n) /\ a.type \notin VoiceCommands
  BY <1>1 DEF Quiet
<1>3. ASSUME NEW i \in 1 .. Len(r), r[i].type \in VoiceCommands, Quiet(r, i)
      PROVE  \/ i = Len(q) + 1
             \/ i \in 1 .. Len(q) /\ q[i].type \in VoiceCommands /\ Quiet(q, i)
                /\ a.type \notin VoiceCommands
  BY <1>1, <1>2, <1>3
<1>4. ASSUME a.type \in VoiceCommands, Agrees(a.type, s) PROVE LastAgrees(r, s)
  BY <1>1, <1>3, <1>4 DEF LastAgrees
<1>5. ASSUME a.type \notin VoiceCommands, LastAgrees(q, s) PROVE LastAgrees(r, s)
  BY <1>1, <1>3, <1>5 DEF LastAgrees
<1> QED BY <1>1, <1>2, <1>4, <1>5 DEF r

\* A sent action is in the queue, or it is a buffer, or a command is missed.
LEMMA SendState ==
  ASSUME PlayerTypes, NEW a \in Sent, SendAction(a), ~missed', NEW s,
         LastAgrees(m_queue, s) \/ a.type \in VoiceCommands,
         a.type \in VoiceCommands => Agrees(a.type, s)
  PROVE  /\ ~missed /\ LastAgrees(m_queue', s)
         /\ Quiet(m_queue', 0) <=> Quiet(m_queue, 0) /\ a.type \notin VoiceCommands
<1>1. m_queue \in Seq(Sent)
  BY DEF PlayerTypes
<1>2. CASE m_queue' = Append(m_queue, a) /\ missed' = missed
  BY <1>1, <1>2, QuietAppend
<1>3. CASE m_queue' = m_queue /\ a.buffer # NoBuffer /\ missed' = missed
  <2>1. a.type \notin VoiceCommands
    BY <1>3, SentIs DEF VoiceCommands
  <2> QED BY <1>3, <2>1
<1> QED BY <1>2, <1>3, SendIs

LEMMA ConcatOne ==
  ASSUME NEW S, NEW q \in Seq(S), NEW x \in S PROVE q \o <<x>> = Append(q, x) /\ q \o <<>> = q
<1>1. q \o <<x>> = Append(q, x)
  BY AppendIsConcat
<1>2. q \o <<>> = q
  BY ConcatEmptySeq
<1> QED BY <1>1, <1>2

LEMMA RestoreState ==
  /\ LastAgrees(Restore, m_state)
  /\ Quiet(Restore, 0) <=> m_state # "playing"
<1> DEFINE one == <<Available(0)>>
           two == <<Available(0), Available(1)>>
           all == Append(two, Act("resume"))
<1>2. /\ Available(0) \in Sent /\ Available(0).type \notin VoiceCommands
      /\ Available(1) \in Sent /\ Available(1).type \notin VoiceCommands
  BY SentIs DEF Buffers, VoiceCommands
<1>3. Act("resume") \in Sent /\ Act("resume").type = "resume"
  BY CommandsAreSent DEF Act
<1>4. /\ <<>> \in Seq(Sent) /\ one \in Seq(Sent) /\ two \in Seq(Sent)
      /\ one = Append(<<>>, Available(0)) /\ two = Append(one, Available(1))
  BY <1>2
<1>1. Restore = IF m_state = "playing" THEN all ELSE two
  <2>1. Restore = two \o (IF m_state = "playing" THEN <<Act("resume")>> ELSE <<>>)
    BY DEF Restore
  <2> HIDE DEF two
  <2>2. two \in Seq(Sent) /\ Act("resume") \in Sent
    BY <1>3, <1>4
  <2>3. two \o <<Act("resume")>> = Append(two, Act("resume")) /\ two \o <<>> = two
    BY <2>2, ConcatOne
  <2> QED BY <2>1, <2>3
<1> HIDE DEF one, two
<1>5. one \in Seq(Sent) /\ Quiet(one, 0) /\ LastAgrees(one, m_state)
  BY <1>2, <1>4, QuietEmpty, QuietAppend
<1>6. two \in Seq(Sent) /\ Quiet(two, 0) /\ LastAgrees(two, m_state)
  BY <1>2, <1>4, <1>5, QuietAppend
<1>7. ~Quiet(all, 0) /\ (m_state = "playing" => LastAgrees(all, m_state))
  BY <1>3, <1>6, QuietAppend DEF Agrees, VoiceCommands
<1> QED BY <1>1, <1>6, <1>7

\* No command is un-missed, and the exit flag stays.
LEMMA MissedStays ==
  ASSUME PlayerTypes, [Next]_vars PROVE (missed => missed') /\ (m_event_exit => m_event_exit')
<1>0. missed \in BOOLEAN /\ m_event_exit \in BOOLEAN
  BY DEF PlayerTypes
<1>1. CASE Calls
  <2>1. ASSUME NEW s, NEW a, Command(s, a) PROVE UNCHANGED <<missed, m_event_exit>>
    BY <2>1 DEF Command
  <2> QED BY <1>0, <1>1, <2>1, CallIs DEF setAudioEndpoint, Destruct
<1>2. CASE Engine
  <2>1. CASE SendNext
    BY <2>1 DEF SendNext, SendAction, Put, Lose
  <2>2. CASE create
    BY <1>0, <2>2 DEF create
  <2> QED BY <1>2, <2>1, <2>2 DEF Engine, Destroy, DestroyLast, destroy, Join
<1>3. CASE XAudio2
  BY <1>3 DEF XAudio2, VoicePlays, VoiceReports, OnBufferEnd, SendAction, Put, Lose, engineVars
<1>4. CASE Worker
  BY <1>4 DEF Worker, ReceiveTest, ReceiveWait, onBufferAvailable, Submit, onPlay, onPlayStart,
              onPauseOrStop, onResume, onUpdateLoop, onExit, engineVars
<1> QED BY <1>1, <1>2, <1>3, <1>4 DEF Next, vars

\* Steps that do not touch commands, and take the voice at most away.
LEMMA StateStays ==
  ASSUME StateInv, ~missed, ~m_event_exit, UNCHANGED <<m_state, todo, m_queue>>,
         Present' = Present \/ {Present, Present'} \cap VoiceCommands = {},
         voice' \in {voice, "none"}
  PROVE  StateInv'
BY DEF StateInv

LEMMA StateStep == ASSUME PlayerTypes, EngineInv, StateInv, [Next]_vars PROVE StateInv'
<1> SUFFICES ASSUME ~missed', ~m_event_exit' PROVE StateInv'
  BY DEF StateInv
<1>0. ~missed /\ ~m_event_exit
  BY MissedStays
<1>1. CASE Calls
  <2>1. CASE setAudioEndpoint
    BY <1>0, <2>1, StateStays DEF setAudioEndpoint, voiceVars, workerVars, Present
  <2>2. ~Destruct
    BY DEF Destruct
  <2>3. ASSUME NEW s \in {"stopped", "playing", "paused"}, NEW a \in Sent, Command(s, a),
               IF a.type \in VoiceCommands THEN a.type \in {"play", "resume"} <=> s = "playing"
                                           ELSE s = m_state
        PROVE  StateInv'
    <3>1. /\ todo = <<>> /\ todo' = <<a>> /\ m_state' = s
          /\ UNCHANGED <<m_queue, wpc, voice>>
      BY <2>3 DEF Command, EngineInv, voiceVars, workerVars
    <3>2. todo' = Append(<<>>, a) /\ <<>> \in Seq(Sent)
      BY <3>1
    <3>3. /\ LastAgrees(todo', s) /\ Quiet(todo, 0)
          /\ Quiet(todo', 0) <=> a.type \notin VoiceCommands
      <4>1. Quiet(<<>>, 0) /\ LastAgrees(<<>>, s)
        BY QuietEmpty
      <4>2. a.type \in VoiceCommands => Agrees(a.type, s)
        BY <2>3 DEF Agrees
      <4> QED BY <2>3, <3>1, <3>2, <4>1, <4>2, QuietAppend
    <3> QED BY <1>0, <2>3, <3>1, <3>3 DEF StateInv, Present
  <2> QED BY <1>1, <2>1, <2>2, <2>3, CallIs
<1>2. CASE SendNext
  <2> DEFINE a == Head(todo)
  <2>1. /\ todo # <<>> /\ SendAction(a) /\ todo' = Tail(todo)
        /\ UNCHANGED <<m_state, wpc, voice>>
    BY <1>2 DEF SendNext, EngineInv, voiceVars, workerVars
  <2>2. todo \in Seq(Sent) /\ a \in Sent
    BY <2>1 DEF PlayerTypes
  <2>3. /\ Quiet(todo, 0) <=> a.type \notin VoiceCommands /\ Quiet(todo', 0)
        /\ LastAgrees(todo', m_state)
        /\ Quiet(todo', 0) /\ a.type \in VoiceCommands => Agrees(a.type, m_state)
    BY <1>0, <2>1, <2>2, QuietTail DEF StateInv
  <2> HIDE DEF a
  <2>4. CASE Quiet(todo', 0)
    <3>1. LastAgrees(m_queue, m_state) \/ a.type \in VoiceCommands
      BY <1>0, <2>3, <2>4 DEF StateInv
    <3>2. /\ LastAgrees(m_queue', m_state)
          /\ Quiet(m_queue', 0) <=> Quiet(m_queue, 0) /\ a.type \notin VoiceCommands
      BY <2>1, <2>2, <2>3, <2>4, <3>1, SendState
    <3> QED BY <1>0, <2>1, <2>3, <2>4, <3>2 DEF StateInv, Present
  <2>5. CASE ~Quiet(todo', 0)
    BY <2>1, <2>3, <2>5 DEF StateInv
  <2> QED BY <2>4, <2>5
<1>3. CASE create
  <2>1. todo = <<>> /\ UNCHANGED <<m_state, m_queue, wpc>>
    BY <1>3 DEF create, EngineInv, workerVars
  <2>2. CASE voice' = "stopped" /\ todo' = Restore
    BY <1>0, <2>1, <2>2, RestoreState, QuietEmpty DEF StateInv, Present
  <2>3. CASE voice' = "none" /\ todo' = todo
    BY <1>0, <2>1, <2>3, StateStays DEF Present
  <2> QED BY <1>3, <2>2, <2>3 DEF create
<1>4. CASE Destroy \/ DestroyLast
  BY <1>0, <1>4, StateStays DEF Destroy, DestroyLast, destroy, workerVars, Present
<1>5. CASE Join
  BY <1>0, <1>5, StateStays DEF Join, voiceVars, workerVars, Present
<1>6. CASE VoicePlays \/ VoiceReports
  BY <1>0, <1>6, StateStays DEF VoicePlays, VoiceReports, engineVars, workerVars, Present
<1>7. CASE OnBufferEnd
  <2> DEFINE a == Available(acb)
  <2>1. /\ SendAction(a) /\ acb \in Buffers /\ UNCHANGED <<m_state, todo, wpc, voice>>
    BY <1>7 DEF OnBufferEnd, PlayerTypes, engineVars, workerVars
  <2>2. a \in Sent /\ a.type \notin VoiceCommands
    BY <2>1, SentIs DEF VoiceCommands
  <2> HIDE DEF a
  <2>3. CASE Quiet(todo, 0)
    <3>1. LastAgrees(m_queue, m_state)
      BY <1>0, <2>3 DEF StateInv
    <3>2. LastAgrees(m_queue', m_state) /\ (Quiet(m_queue', 0) <=> Quiet(m_queue, 0))
      BY <2>1, <2>2, <3>1, SendState
    <3> QED BY <1>0, <2>1, <2>3, <3>2 DEF StateInv, Present
  <2>4. CASE ~Quiet(todo, 0)
    BY <1>0, <2>1, <2>4 DEF StateInv
  <2> QED BY <2>3, <2>4
<1>8. CASE ReceiveTest \/ onBufferAvailable \/ Submit \/ onUpdateLoop
  <2>1. UNCHANGED <<m_state, todo, m_queue, voice>>
    BY <1>8 DEF ReceiveTest, onBufferAvailable, Submit, onUpdateLoop, engineVars, voiceVars
  <2>2. {Present, Present'} \cap VoiceCommands = {}
    BY <1>8 DEF ReceiveTest, onBufferAvailable, Submit, onUpdateLoop, Present, VoiceCommands
  <2> QED BY <1>0, <2>1, <2>2, StateStays
<1>9. CASE ReceiveWait
  <2>1. CASE m_queue # <<>>
    <3>1. /\ m_queue' = Tail(m_queue) /\ wpc = "wait" /\ wpc' = Head(m_queue).type
          /\ UNCHANGED <<m_state, todo, voice>>
      BY <1>9, <2>1 DEF ReceiveWait, engineVars, voiceVars
    <3>2. m_queue \in Seq(Sent) /\ Head(m_queue) \in Sent
      BY <2>1 DEF PlayerTypes
    <3>3. Present \notin VoiceCommands /\ Present' = Head(m_queue).type
      BY <3>1, <3>2, SentIs DEF Present, VoiceCommands, ActionType
    <3>4. /\ Quiet(m_queue, 0)
               <=> Head(m_queue).type \notin VoiceCommands /\ Quiet(m_queue', 0)
          /\ LastAgrees(m_queue, m_state) => LastAgrees(m_queue', m_state)
          /\ LastAgrees(m_queue, m_state) /\ Quiet(m_queue', 0)
               /\ Head(m_queue).type \in VoiceCommands
               => Agrees(Head(m_queue).type, m_state)
      BY <2>1, <3>1, <3>2, QuietTail
    <3> QED BY <1>0, <3>1, <3>3, <3>4 DEF StateInv
  <2>2. CASE m_queue = <<>>
    <3>1. UNCHANGED <<m_state, todo, m_queue, voice>> /\ wpc = "wait" /\ wpc' = "test"
      BY <1>9, <2>2 DEF ReceiveWait, engineVars, voiceVars
    <3>2. {Present, Present'} \cap VoiceCommands = {}
      BY <3>1 DEF Present, VoiceCommands
    <3> QED BY <1>0, <3>1, <3>2, StateStays
  <2> QED BY <2>1, <2>2
<1>10. CASE onPlay
  <2>1. /\ UNCHANGED <<m_state, todo, m_queue>> /\ Present = "play" /\ Present' = "play"
    BY <1>10 DEF onPlay, engineVars, Present
  <2> QED BY <1>0, <2>1 DEF StateInv, VoiceCommands
<1>11. CASE onPlayStart \/ onResume
  <2>1. /\ UNCHANGED <<m_state, todo, m_queue>> /\ Present \in {"play", "resume"}
        /\ Present' = "test" /\ voice' = IF voice = "none" THEN "none" ELSE "started"
    BY <1>11 DEF onPlayStart, onResume, engineVars, Present, VoiceStarts
  <2> QED BY <1>0, <2>1 DEF StateInv, VoiceCommands, Agrees
<1>12. CASE onPauseOrStop
  <2>1. /\ UNCHANGED <<m_state, todo, m_queue>> /\ Present \in {"pause", "stop"}
        /\ Present' = "test" /\ voice' = IF voice = "none" THEN "none" ELSE "stopped"
    BY <1>12 DEF onPauseOrStop, engineVars, Present, VoiceStops
  <2> QED BY <1>0, <2>1 DEF StateInv, VoiceCommands, Agrees
<1>13. CASE onExit
  BY <1>0, <1>13 DEF onExit, EngineInv
<1>14. CASE UNCHANGED vars
  BY <1>0, <1>14, StateStays DEF vars, Present
<1> QED BY <1>1, <1>2, <1>3, <1>4, <1>5, <1>6, <1>7, <1>8, <1>9, <1>10, <1>11, <1>12, <1>13, <1>14
        DEF Next, Engine, XAudio2, Worker

-----------------------------------------------------------------------------
(* The theorems *)

PlayerInv == PlayerTypes /\ EngineInv /\ OnePlaceEach /\ HeldInv /\ StateInv

LEMMA PlayerInit == Init => PlayerInv
<1> SUFFICES ASSUME Init PROVE PlayerInv
  OBVIOUS
<1>1. PlayerTypes /\ EngineInv /\ OnePlaceEach
  BY InitTypes, InitPlaces
<1>2. HeldInv
  BY DEF Init, HeldInv
<1>3. StateInv
  BY QuietEmpty DEF Init, StateInv, Present, VoiceCommands
<1> QED BY <1>1, <1>2, <1>3 DEF PlayerInv

LEMMA PlayerStep == PlayerInv /\ [Next]_vars => PlayerInv'
BY TypeStep, EngineStep, PlacesStep, HeldStep, StateStep DEF PlayerInv

LEMMA PlayerAlways == Spec => []PlayerInv
<1> QED BY PlayerInit, PlayerStep, PTL DEF Spec

\* Types of all that the player's threads share: the queue never holds more
\* than its places, the loop range stays inside the music, and so does what
\* on_buffer_available reads.
THEOREM PlayerTypeCorrect == Spec => []TypeOK
<1>1. PlayerInv => TypeOK
  BY TypesSuffice DEF PlayerInv
<1> QED BY <1>1, PlayerAlways, PTL

\* Until the endpoint is changed each of the two buffers is in exactly one
\* place, so that the decoder never writes into a buffer the voice plays, and
\* OnBufferEnd reports every buffer once: any number of calls, any queue.
THEOREM EveryBufferAccounted == Spec => []BuffersAccounted
<1>1. PlayerInv => BuffersAccounted
  BY PlacesSuffice DEF PlayerInv
<1> QED BY <1>1, PlayerAlways, PTL

\* The buffers that on_buffer_available submits follow one another, also over
\* play(), which flushes those of the old position, and over changes of the loop.
THEOREM HeldContiguous == Spec => []HeldIsContiguous
<1>1. PlayerInv => HeldIsContiguous
  BY DEF PlayerInv, HeldInv, HeldIsContiguous, Follows
<1> QED BY <1>1, PlayerAlways, PTL

\* When no command is on its way and none was lost, the voice runs if and only
\* if getState says "playing", also after onAudioEngineDestroy and
\* onAudioEngineCreate put another voice in its place.
THEOREM StateIsTheVoices == Spec => []StateFollowsVoice
<1>1. ASSUME PlayerInv PROVE StateFollowsVoice
  <2> SUFFICES ASSUME epc = "idle", m_queue = <<>>, wpc \in {"test", "wait"}, voice # "none", ~missed
               PROVE  (voice = "started") = (m_state = "playing")
    BY DEF StateFollowsVoice
  <2>1. todo = <<>> /\ ~m_event_exit
    BY <1>1 DEF PlayerInv, EngineInv
  <2>2. Present \notin VoiceCommands
    BY DEF Present, VoiceCommands
  <2> QED BY <1>1, <2>1, <2>2, QuietEmpty DEF PlayerInv, StateInv
<1> QED BY <1>1, PlayerAlways, PTL

-----------------------------------------------------------------------------
(* What the threads leave alone *)

\* Once destroy() has run for the last time the voice and its callbacks are gone.
VoiceIsGone ==
  epc = "gone" => voice = "none" /\ held = <<>> /\ ended = <<>> /\ acb = NoBuffer

\* When the destructor has returned nobody uses the player: neither the decoding
\* thread nor a callback of the voice takes another step, and what was still
\* queued stays there.
NothingAfterGone == [][epc # "gone"]_vars

LEMMA NobodyIsLeft ==
  ASSUME PlayerTypes, EngineInv, VoiceIsGone, epc = "gone", Next PROVE FALSE
<1>1. wpc = "exited" /\ voice = "none" /\ acb = NoBuffer
  BY DEF EngineInv, VoiceIsGone
<1>2. ~Calls
  BY DEF Calls, play, pause, resume, stop, setLoop, Command, setAudioEndpoint, Destruct
<1>3. ~Engine
  BY DEF Engine, SendNext, Destroy, create, Join, DestroyLast
<1>4. ~XAudio2
  BY <1>1 DEF XAudio2, VoicePlays, VoiceReports, OnBufferEnd
<1>5. ~Worker
  BY <1>1 DEF Worker, ReceiveTest, ReceiveWait, onBufferAvailable, Submit, onPlay, onPlayStart,
     onPauseOrStop, onResume, onUpdateLoop, onExit
<1> QED BY <1>2, <1>3, <1>4, <1>5 DEF Next

LEMMA OthersKeepPlace == XAudio2 \/ Worker => epc' = epc
<1>1. XAudio2 => epc' = epc
  BY DEF XAudio2, VoicePlays, VoiceReports, OnBufferEnd, engineVars
<1>2. Worker => epc' = epc
  BY DEF Worker, ReceiveTest, ReceiveWait, onBufferAvailable, Submit, onPlay, onPlayStart,
         onPauseOrStop, onResume, onUpdateLoop, onExit, engineVars
<1> QED BY <1>1, <1>2

\* Only destroy() gets there, and it takes the voice away.
LEMMA GoneStep ==
  ASSUME PlayerTypes, EngineInv, VoiceIsGone, [Next]_vars PROVE VoiceIsGone'
<1>1. ASSUME Next, epc' = "gone" PROVE DestroyLast
  <2>1. ~Calls
    BY <1>1 DEF Calls, play, pause, resume, stop, setLoop, Command, setAudioEndpoint, Destruct
  <2>2. CASE Engine
    BY <1>1, <2>2 DEF Engine, SendNext, Destroy, destroy, create, Join
  <2>3. CASE XAudio2 \/ Worker
    <3>1. epc' = epc
      BY <2>3, OthersKeepPlace
    <3>2. epc = "gone"
      BY <1>1, <3>1
    <3> QED BY <1>1, <3>2, NobodyIsLeft
  <2> QED BY <1>1, <2>1, <2>2, <2>3 DEF Next
<1>2. CASE DestroyLast
  BY <1>2 DEF DestroyLast, destroy, VoiceIsGone
<1>3. CASE UNCHANGED vars
  BY <1>3 DEF vars, VoiceIsGone
<1> QED BY <1>1, <1>2, <1>3 DEF VoiceIsGone

\* For any number of calls and any music the destructor leaves no thread behind.
THEOREM NobodyOutlivesPlayer == Spec => NothingAfterGone
<1>1. Init => VoiceIsGone
  BY DEF Init, VoiceIsGone
<1>2. PlayerInv /\ VoiceIsGone /\ [Next]_vars => VoiceIsGone'
  BY GoneStep DEF PlayerInv
<1>3. PlayerInv /\ VoiceIsGone /\ [Next]_vars => [epc # "gone"]_vars
  BY NobodyIsLeft DEF PlayerInv
<1> QED BY <1>1, <1>2, <1>3, PlayerAlways, PTL DEF Spec, NothingAfterGone

\* Until the endpoint is changed the decoder never writes into a buffer that the
\* voice has, plays or reports.
DecoderAvoidsVoice ==
  [][\A b \in Buffers :
       ~reopened /\ content'[b] # content[b]
         => /\ b # acb /\ \A i \in 1 .. Len(held) : held[i] # b
            /\ \A i \in 1 .. Len(ended) : ended[i] # b]_vars

\* Nobody writes into a buffer but onBufferAvailable, and into that of its action.
LEMMA OnlyDecoderWrites ==
  ASSUME PlayerTypes, [Next]_vars, NEW b \in Buffers, content'[b] # content[b]
  PROVE  wpc = "buffer_available" /\ action.buffer = b
<1>1. CASE content' = content
  BY <1>1
<1>2. CASE onBufferAvailable
  <2>1. wpc = "buffer_available" /\ content \in [Buffers -> [from : Nat, to : Nat, jump : BOOLEAN]]
    BY <1>2 DEF onBufferAvailable, PlayerTypes
  <2>2. \/ content' = content
        \/ content' = [content EXCEPT ![action.buffer] =
                         [from |-> From, to |-> m_current_sample', jump |-> AtLoopEnd]]
    BY <1>2 DEF onBufferAvailable
  <2> QED BY <2>1, <2>2
<1>3. Calls \/ Engine => content' = content
  BY DEF Calls, play, pause, resume, stop, setLoop, Command, setAudioEndpoint, Destruct,
         Engine, SendNext, Destroy, DestroyLast, destroy, create, Join, workerVars
<1>4. XAudio2 => content' = content
  BY DEF XAudio2, VoicePlays, VoiceReports, OnBufferEnd, workerVars
<1>5. Worker => content' = content \/ onBufferAvailable
  BY DEF Worker, ReceiveTest, ReceiveWait, Submit, onPlay, onPlayStart, onPauseOrStop,
         onResume, onUpdateLoop, onExit
<1>6. UNCHANGED vars => content' = content
  BY DEF vars
<1> QED BY <1>1, <1>2, <1>3, <1>4, <1>5, <1>6 DEF Next

\* For any music, loop range and calls the decoder and the voice never share a
\* buffer, until the endpoint is changed.
THEOREM DecoderWritesAlone == Spec => DecoderAvoidsVoice
<1> DEFINE Apart == \A b \in Buffers :
                      ~reopened /\ content'[b] # content[b]
                        => /\ b # acb /\ \A i \in 1 .. Len(held) : held[i] # b
                           /\ \A i \in 1 .. Len(ended) : ended[i] # b
<1>1. ASSUME PlayerInv, [Next]_vars PROVE Apart
  <2> SUFFICES ASSUME NEW b \in Buffers, ~reopened, content'[b] # content[b]
               PROVE  /\ b # acb /\ \A i \in 1 .. Len(held) : held[i] # b
                      /\ \A i \in 1 .. Len(ended) : ended[i] # b
    OBVIOUS
  <2>1. PlayerTypes /\ Places(b) = 1
    BY <1>1 DEF PlayerInv, OnePlaceEach
  <2>2. One(wpc \in Taken /\ action.buffer = b) = 1
    BY <1>1, <2>1, OnlyDecoderWrites DEF Taken, One
  <2>3. Times(held, b) = 0 /\ Times(ended, b) = 0 /\ One(acb = b) = 0
    <3>1. /\ Times(held, b) \in Nat /\ Times(ended, b) \in Nat /\ One(acb = b) \in Nat
          /\ TimesSent(todo, b) \in Nat /\ TimesSent(m_queue, b) \in Nat
          /\ One(b \in parked) \in Nat
      BY <2>1, PlacesAreNumbers DEF One
    <3>2. Times(held, b) + Times(ended, b) + 1 + One(acb = b) + TimesSent(todo, b)
            + TimesSent(m_queue, b) + One(b \in parked) = 1
      BY <2>1, <2>2 DEF Places
    <3> QED BY <3>1, <3>2
  <2>4. held \in Seq(Buffers) /\ ended \in Seq(Buffers)
    BY <2>1 DEF PlayerTypes
  <2>5. b # acb
    BY <2>3 DEF One
  <2> QED BY <2>3, <2>4, <2>5, TimesZero
<1>2. ASSUME PlayerInv, [Next]_vars PROVE [Apart]_vars
  BY <1>1, <1>2
<1>3. Spec => [][Apart]_vars
  <2> HIDE DEF Apart
  <2> QED BY <1>2, PlayerAlways, PTL DEF Spec
<1> QED BY <1>3, PTL DEF DecoderAvoidsVoice
=============================================================================
