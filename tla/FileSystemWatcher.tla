------------------------- MODULE FileSystemWatcher -------------------------
(***************************************************************************)
(* core::MessageQueueBasedFileSystemWatcher: a thread that asks Windows    *)
(* for the changes under a directory, one read after the other, and a      *)
(* queue from which the owner takes them.  Windows records changes from    *)
(* the first read on, between two reads as well, up to a limit; reads that *)
(* are pending when their thread ends are given up.                        *)
(***************************************************************************)
EXTENDS Integers, Sequences, FiniteSets, SequencesExt

CONSTANTS
  Names,       \* the files under the directory
  EvenNames,   \* those whose name has an even number of UTF-16 units
  Records,     \* as many changes Windows can record between two reads
  Garbled      \* a name that is no name of a Lua file

ASSUME WatcherAssumption ==
  EvenNames \subseteq Names /\ Records \in Nat \ {0} /\ Garbled \notin Names

VARIABLES
  recorded,    \* the changes Windows has recorded for the next read
  overflown,   \* it recorded more than it can, and forgot them all
  m_complete,  \* m_complete_event
  m_exit,      \* m_exit_event
  buffer,      \* the records the worker has read and not decoded
  m_notify,    \* the queue of the owner
  wpc          \* the worker: no thread, before a read, waiting, decoding, ended

watcherVars == <<recorded, overflown, m_complete, m_exit, buffer, m_notify, wpc>>

WatcherInit ==
  /\ recorded = <<>> /\ overflown = FALSE /\ m_complete = FALSE /\ m_exit = FALSE
  /\ buffer = <<>> /\ m_notify = <<>> /\ wpc = "none"

\* The thread starts; opening an event or the directory may fail.
open ==
  /\ wpc = "none"
  /\ m_exit' = FALSE /\ m_complete' = FALSE
  /\ wpc' \in {"start", "none"}
  /\ UNCHANGED <<recorded, overflown, buffer, m_notify>>

\* Windows keeps a record for a reader that has read at least once.
IsListening == wpc \in {"read", "wait", "decode"}

\* A file changes on disk.  How many records fit depends on their names.
Changed(name) ==
  /\ \/ /\ IsListening /\ ~overflown
        /\ recorded' = Append(recorded, name) /\ UNCHANGED overflown
     \/ /\ IsListening /\ Len(recorded) >= Records
        /\ recorded' = <<>> /\ overflown' = TRUE
     \/ /\ ~IsListening \/ overflown
        /\ UNCHANGED <<recorded, overflown>>
  /\ UNCHANGED <<m_complete, m_exit, buffer, m_notify, wpc>>

\* The names of which a change is forgotten when this one changes.
Forgotten(name) ==
  IF Len(recorded') > Len(recorded) THEN {} ELSE ToSet(recorded) \cup {name}

-----------------------------------------------------------------------------
WorkerEnds ==
  /\ wpc' = "ended"
  /\ recorded' = <<>> /\ overflown' = FALSE /\ buffer' = <<>>
  /\ UNCHANGED <<m_complete, m_exit, m_notify>>

\* A read is asked for.  It may fail, and then nobody is told.
ReadDirectoryChanges ==
  /\ wpc \in {"start", "read"}
  /\ \/ /\ wpc' = "wait" /\ m_complete' = FALSE
        /\ UNCHANGED <<recorded, overflown, m_exit, buffer, m_notify>>
     \/ WorkerEnds

\* Windows answers the pending read with all it has recorded; after an
\* overflow that is nothing.
Complete ==
  /\ wpc = "wait" /\ ~m_complete
  /\ recorded # <<>> \/ overflown
  /\ m_complete' = TRUE
  /\ buffer' = recorded /\ recorded' = <<>> /\ overflown' = FALSE
  /\ UNCHANGED <<m_exit, m_notify, wpc>>

\* Mutant of WaitForEvents: only the end of a read wakes the worker.
WaitForComplete ==
  /\ wpc = "wait" /\ m_complete
  /\ wpc' = "decode"
  /\ UNCHANGED <<recorded, overflown, m_complete, m_exit, buffer, m_notify>>

\* The exit event comes first in the list of events and wins.
WaitForEvents ==
  /\ wpc = "wait"
  /\ \/ m_exit /\ WorkerEnds
     \/ /\ ~m_exit /\ m_complete
        /\ wpc' = "decode"
        /\ UNCHANGED <<recorded, overflown, m_complete, m_exit, buffer, m_notify>>

\* The name of the first record.  The code reads it up to the next zero, and a
\* name of an even number of units is followed by the next record at once: by
\* the offset in it, which is zero in the last record only.
DecodedName ==
  IF Len(buffer) > 2 /\ Head(buffer) \in EvenNames THEN Garbled ELSE Head(buffer)

\* Mutant of Decode: the records after the first are not looked at.
DecodeFirst ==
  /\ wpc = "decode"
  /\ IF buffer = <<>>
     THEN wpc' = "read" /\ UNCHANGED <<buffer, m_notify>>
     ELSE /\ m_notify' = Append(m_notify, DecodedName)
          /\ buffer' = <<>>
          /\ UNCHANGED wpc
  /\ UNCHANGED <<recorded, overflown, m_complete, m_exit>>

Decode ==
  /\ wpc = "decode"
  /\ IF buffer = <<>>
     THEN wpc' = "read" /\ UNCHANGED <<buffer, m_notify>>
     ELSE /\ m_notify' = Append(m_notify, DecodedName)
          /\ buffer' = Tail(buffer)
          /\ UNCHANGED wpc
  /\ UNCHANGED <<recorded, overflown, m_complete, m_exit>>

\* What a step of the worker loses: a name it cannot read, or all when it ends.
LostByWorker ==
  IF wpc' = "ended" THEN ToSet(recorded) \cup ToSet(buffer)
  ELSE IF wpc = "decode" /\ buffer # <<>> /\ DecodedName = Garbled THEN {Head(buffer)}
  ELSE {}

WatcherWorker == ReadDirectoryChanges \/ WaitForEvents \/ Decode

-----------------------------------------------------------------------------
\* The destructor: tells the worker, and waits for it.
SetExit ==
  /\ m_exit' = TRUE
  /\ UNCHANGED <<recorded, overflown, m_complete, buffer, m_notify, wpc>>

Joined ==
  /\ wpc \in {"ended", "none"}
  /\ wpc' = "none" /\ m_notify' = <<>>
  /\ m_complete' = FALSE /\ m_exit' = FALSE
  /\ UNCHANGED <<recorded, overflown, buffer>>

\* Changes that are on their way to the owner.
InFlight == ToSet(recorded) \cup ToSet(buffer) \cup (ToSet(m_notify) \ {Garbled})
=============================================================================
