---------------------------- MODULE ActionQueue -----------------------------
(***************************************************************************)
(* StreamAudioPlayerXAudio2::ActionQueue, a ring of actions between the    *)
(* threads that send (the engine's and XAudio2's) and the decoding thread. *)
(* Two semaphores count places and actions, two indices run for ever.      *)
(* Each step is one operation on shared memory.                            *)
(***************************************************************************)
EXTENDS Integers, Sequences, FiniteSets

CONSTANTS
  Senders,   \* the threads that send
  Size,      \* places in m_data (64 in the engine)
  Values,    \* the actions that are sent
  Exit,      \* the exit action: also what a zeroed Action means
  MaxSent    \* bound: how often sendAction is called

ASSUME SizesAssumption == Size \in Nat \ {0} /\ MaxSent \in Nat /\ IsFiniteSet(Senders)
ASSUME ExitAssumption == Exit \notin Values

VARIABLES
  m_data, m_writer_index, m_reader_index,
  m_semaphore_space, m_semaphore_data,
  m_event_exit,
  calls,           \* how often sendAction was called
  spc, sval, sidx, \* the senders: where they are, their action and place
  rpc, v           \* the receiver, and the action it was given
memVars  == <<m_data, m_writer_index, m_reader_index>>
semVars  == <<m_semaphore_space, m_semaphore_data>>
sendVars == <<calls, spc, sval, sidx>>
vars == <<m_data, m_writer_index, m_reader_index, m_semaphore_space, m_semaphore_data,
          m_event_exit, calls, spc, sval, sidx, rpc, v>>

Places == 0 .. Size - 1
Actions == Values \cup {Exit}

Init ==
  /\ m_data = [i \in Places |-> Exit]
  /\ m_writer_index = 0 /\ m_reader_index = 0
  /\ m_semaphore_space = Size /\ m_semaphore_data = 0
  /\ m_event_exit = FALSE
  /\ calls = 0
  /\ spc = [s \in Senders |-> "idle"] /\ sval = [s \in Senders |-> Exit]
  /\ sidx = [s \in Senders |-> 0]
  /\ rpc = "test" /\ v = Exit

-----------------------------------------------------------------------------
(* sendAction *)

Send(s, a) ==
  /\ spc[s] = "idle" /\ calls < MaxSent
  /\ calls' = calls + 1
  /\ spc' = [spc EXCEPT ![s] = "acquire"] /\ sval' = [sval EXCEPT ![s] = a]
  /\ UNCHANGED <<memVars, semVars, m_event_exit, sidx, rpc, v>>

\* m_semaphore_space.try_acquire_for(1 s)
Acquire(s) ==
  /\ spc[s] = "acquire" /\ m_semaphore_space > 0
  /\ m_semaphore_space' = m_semaphore_space - 1
  /\ spc' = [spc EXCEPT ![s] = "reserve"]
  /\ UNCHANGED <<memVars, m_semaphore_data, m_event_exit, calls, sval, sidx, rpc, v>>

\* Mutant of GiveUp: goes on without a place.
GiveUpIgnored(s) ==
  /\ spc[s] = "acquire" /\ m_semaphore_space = 0
  /\ spc' = [spc EXCEPT ![s] = "reserve"]
  /\ UNCHANGED <<memVars, semVars, m_event_exit, calls, sval, sidx, rpc, v>>

\* Mutant of GiveUp: waits without a limit.
GiveUpNever(s) == FALSE

\* The second has passed: the action is lost.
GiveUp(s) ==
  /\ spc[s] = "acquire" /\ m_semaphore_space = 0
  /\ spc' = [spc EXCEPT ![s] = "idle"]
  /\ UNCHANGED <<memVars, semVars, m_event_exit, calls, sval, sidx, rpc, v>>

\* m_writer_index.fetch_add(1)
Reserve(s) ==
  /\ spc[s] = "reserve"
  /\ sidx' = [sidx EXCEPT ![s] = m_writer_index % Size]
  /\ m_writer_index' = m_writer_index + 1
  /\ spc' = [spc EXCEPT ![s] = "write"]
  /\ UNCHANGED <<m_data, m_reader_index, semVars, m_event_exit, calls, sval, rpc, v>>

\* Mutant of Write: the action is announced before it is written.
WriteLate(s) ==
  \/ /\ spc[s] = "write"
     /\ m_semaphore_data' = m_semaphore_data + 1
     /\ spc' = [spc EXCEPT ![s] = "release"]
     /\ UNCHANGED <<memVars, m_semaphore_space, m_event_exit, calls, sval, sidx, rpc, v>>
  \/ /\ spc[s] = "release"
     /\ m_data' = [m_data EXCEPT ![sidx[s]] = sval[s]]
     /\ spc' = [spc EXCEPT ![s] = "idle"]
     /\ UNCHANGED <<m_writer_index, m_reader_index, semVars, m_event_exit, calls, sval,
                    sidx, rpc, v>>

Write(s) ==
  /\ spc[s] = "write"
  /\ m_data' = [m_data EXCEPT ![sidx[s]] = sval[s]]
  /\ spc' = [spc EXCEPT ![s] = "release"]
  /\ UNCHANGED <<m_writer_index, m_reader_index, semVars, m_event_exit, calls, sval, sidx,
                 rpc, v>>

\* m_semaphore_data.release()
Release(s) ==
  /\ spc[s] = "release"
  /\ m_semaphore_data' = m_semaphore_data + 1
  /\ spc' = [spc EXCEPT ![s] = "idle"]
  /\ UNCHANGED <<memVars, m_semaphore_space, m_event_exit, calls, sval, sidx, rpc, v>>

notifyExit ==
  /\ ~m_event_exit
  /\ m_event_exit' = TRUE
  /\ UNCHANGED <<memVars, semVars, sendVars, rpc, v>>

-----------------------------------------------------------------------------
(* receiveAction, called by the decoding thread again and again until it is *)
(* given the exit action. *)

Test ==
  /\ rpc = "test"
  /\ IF m_event_exit THEN rpc' = "exited" /\ v' = Exit ELSE rpc' = "wait" /\ UNCHANGED v
  /\ UNCHANGED <<memVars, semVars, m_event_exit, sendVars>>

\* m_semaphore_data.try_acquire_for(1 s)
WaitData ==
  /\ rpc = "wait" /\ m_semaphore_data > 0
  /\ m_semaphore_data' = m_semaphore_data - 1
  /\ rpc' = "copy"
  /\ UNCHANGED <<memVars, m_semaphore_space, m_event_exit, sendVars, v>>

WaitTimeout ==
  /\ rpc = "wait" /\ m_semaphore_data = 0
  /\ rpc' = "test"
  /\ UNCHANGED <<memVars, semVars, m_event_exit, sendVars, v>>

\* v = m_data[m_reader_index.fetch_add(1) % m_data.size()]
Copy ==
  /\ rpc = "copy"
  /\ v' = m_data[m_reader_index % Size]
  /\ m_reader_index' = m_reader_index + 1
  /\ rpc' = "free"
  /\ UNCHANGED <<m_data, m_writer_index, semVars, m_event_exit, sendVars>>

\* m_semaphore_space.release(); the worker handles the action and comes back.
FreePlace ==
  /\ rpc = "free"
  /\ m_semaphore_space' = m_semaphore_space + 1
  /\ rpc' = IF v = Exit THEN "exited" ELSE "test"
  /\ UNCHANGED <<memVars, m_semaphore_data, m_event_exit, sendVars, v>>

-----------------------------------------------------------------------------
Sender(s) == Acquire(s) \/ GiveUp(s) \/ Reserve(s) \/ Write(s) \/ Release(s)
Receiver  == Test \/ WaitData \/ WaitTimeout \/ Copy \/ FreePlace

Next ==
  \/ \E s \in Senders : (\E a \in Values : Send(s, a)) \/ Sender(s)
  \/ notifyExit
  \/ Receiver

Spec == Init /\ [][Next]_vars

\* The threads go on; nobody has to call sendAction or notifyExit.
FairSpec == Spec /\ WF_vars(Receiver) /\ \A s \in Senders : WF_vars(Sender(s))

-----------------------------------------------------------------------------
\* Types of the ring, its semaphores and the threads.
TypeOK ==
  /\ m_data \in [Places -> Actions]
  /\ m_writer_index \in Nat /\ m_reader_index \in Nat
  /\ m_semaphore_space \in 0 .. Size /\ m_semaphore_data \in 0 .. Size
  /\ m_event_exit \in BOOLEAN /\ calls \in 0 .. MaxSent
  /\ spc \in [Senders -> {"idle", "acquire", "reserve", "write", "release"}]
  /\ sval \in [Senders -> Actions] /\ sidx \in [Senders -> Places]
  /\ rpc \in {"test", "wait", "copy", "free", "exited"} /\ v \in Actions

\* The senders that have taken a place and not announced its action yet.
Filling == {s \in Senders : spc[s] \in {"reserve", "write", "release"}}

\* Every place is free, being filled, announced, or being emptied; the writer
\* is never more than a round ahead of the reader, so that it overwrites
\* nothing that was not read.
PlacesAccounted ==
  /\ m_semaphore_space + Cardinality(Filling) + m_semaphore_data
       + (IF rpc \in {"copy", "free"} THEN 1 ELSE 0) = Size
  /\ m_reader_index <= m_writer_index
  /\ m_writer_index - m_reader_index <= Size

\* The announced actions, the one the receiver has a claim on included.
Announced ==
  [i \in 1 .. m_semaphore_data + (IF rpc = "copy" THEN 1 ELSE 0) |->
     m_data[(m_reader_index + i - 1) % Size]]

\* With one sender the ring and its semaphores are a queue that loses actions
\* only when it is full: sendAction offers an action, which is in the queue
\* once it is announced.
Queue == INSTANCE LossyQueue WITH
  pending <- Cardinality({s \in Senders : spc[s] # "idle"}),
  q <- Announced, got <- v, stopping <- m_event_exit
QueueSpec == Queue!Spec

\* sendAction returns although the decoding thread may be gone, and what was
\* announced is received, unless the decoding thread was told to exit.
QueueMovesOn ==
  /\ \A s \in Senders : (spc[s] = "acquire") ~> (spc[s] = "idle")
  /\ (m_semaphore_data > 0) ~> (m_semaphore_data = 0 \/ m_event_exit)

\* The decoding thread exits only when it was told to by notifyExit.
ExitsWhenTold == rpc = "exited" => m_event_exit
=============================================================================
