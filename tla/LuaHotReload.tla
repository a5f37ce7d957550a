---------------------------- MODULE LuaHotReload ----------------------------
(***************************************************************************)
(* LuaHotReloadManager: once per frame it takes the changes its watcher    *)
(* has queued, waits until a file has rested for a moment, and runs the    *)
(* changed file again in place of the loaded module.  Files are read three *)
(* times on the way and may change in between.  A module is a file of the  *)
(* watched directory; what runs is what was in the file.                   *)
(***************************************************************************)
EXTENDS FileSystemWatcher

CONSTANTS
  Modules,   \* the files that are Lua modules; changes of others are ignored
  Good,      \* contents that load and return a table
  Bad,       \* contents that staging rejects
  Absent,    \* no file
  MaxWrites, \* bound on how often modules change
  MaxTouches \* and on how often other files do

ASSUME ReloadAssumption ==
  Modules \subseteq Names /\ Absent \notin Good \cup Bad /\ Good \cap Bad = {}
  /\ {MaxWrites, MaxTouches} \subseteq Nat

NoSignature == Absent
NoModule == Garbled

VARIABLES
  file, writes, touches,       \* the disk, and how often it was changed
  loaded, active,              \* package.loaded, and the content each module was made from
  m_enabled, hasRoot,          \* hot reload is on; the directory is in m_watch_roots
  tracked,                     \* m_modules: the entries with a path;
  enabled, sig,                \* their fields, those of a new entry where there is none;
  state,                       \* applied and rejected count as idle: no code asks for them
  m_pending,                   \* no change, one that is fresh, one that has rested
  due,                         \* of an update: pending changes it still has to look at
  pc, module, auto,            \* the engine's thread; the module it reloads, for an update or a script
  stale                        \* history: a change of this loaded module went unnoticed

diskVars   == <<file, writes, touches>>
luaVars    == <<loaded, active>>
moduleVars == <<tracked, enabled, sig, state>>
engineVars == <<due, pc, module, auto>>
vars == <<watcherVars, diskVars, luaVars, m_enabled, hasRoot, moduleVars, m_pending, engineVars, stale>>

Init ==
  /\ WatcherInit
  /\ file \in [Modules -> Good] /\ writes = 0 /\ touches = 0
  /\ loaded = {} /\ active = [m \in Modules |-> Absent]
  /\ m_enabled = FALSE /\ hasRoot = FALSE
  /\ tracked = {} /\ enabled = [m \in Modules |-> TRUE]
  /\ sig = [m \in Modules |-> NoSignature] /\ state = [m \in Modules |-> "idle"]
  /\ m_pending = [m \in Modules |-> "none"]
  /\ due = {} /\ pc = "idle" /\ module = NoModule /\ auto = FALSE
  /\ stale = [m \in Modules |-> FALSE]

MarkStale(lost) == stale' = [m \in Modules |-> stale[m] \/ m \in lost \cap loaded]

-----------------------------------------------------------------------------
(* The disk and the clock *)

\* An editor writes, creates or removes a file.  A change between the two reads
\* of a reload leaves the signature of one content with another one.
Write(m, c) ==
  /\ writes < MaxWrites /\ c # file[m]
  /\ file' = [file EXCEPT ![m] = c] /\ writes' = writes + 1
  /\ Changed(m) /\ MarkStale(Forgotten(m) \cup {x \in {m} : pc = "stage" /\ module = x})
  /\ UNCHANGED <<touches, luaVars, m_enabled, hasRoot, moduleVars, m_pending, engineVars>>

\* Any other file under the directory changes.
Touch(name) ==
  /\ touches < MaxTouches /\ name \notin Modules
  /\ touches' = touches + 1
  /\ Changed(name) /\ MarkStale(Forgotten(name))
  /\ UNCHANGED <<file, writes, luaVars, m_enabled, hasRoot, moduleVars, m_pending, engineVars>>

\* 150 ms go by without another change.
Rest(m) ==
  /\ m_pending[m] = "fresh"
  /\ m_pending' = [m_pending EXCEPT ![m] = "rested"]
  /\ UNCHANGED <<watcherVars, diskVars, luaVars, m_enabled, hasRoot, moduleVars, engineVars, stale>>

\* The watcher's steps.  What it forgets or garbles is noted.
WatcherStep ==
  /\ Complete \/ WatcherWorker
  /\ MarkStale(LostByWorker)
  /\ UNCHANGED <<diskVars, luaVars, m_enabled, hasRoot, moduleVars, m_pending, engineVars>>

-----------------------------------------------------------------------------
(* Scripts *)

\* require of a module that is not loaded reads its file.  Its entry in
\* m_modules, if a frame has not passed since it was unloaded, still holds the
\* signature of an earlier content.
Require(m) ==
  /\ pc = "idle" /\ m \notin loaded /\ file[m] \in Good
  /\ loaded' = loaded \cup {m}
  /\ active' = [active EXCEPT ![m] = file[m]]
  /\ stale' = [stale EXCEPT ![m] = sig[m] \notin {NoSignature, file[m]}]
  /\ UNCHANGED <<watcherVars, diskVars, m_enabled, hasRoot, moduleVars, m_pending, engineVars>>

\* package.loaded[m] = nil
Unload(m) ==
  /\ pc = "idle" /\ m \in loaded
  /\ loaded' = loaded \ {m}
  /\ active' = [active EXCEPT ![m] = Absent]
  /\ stale' = [stale EXCEPT ![m] = FALSE]
  /\ UNCHANGED <<watcherVars, diskVars, m_enabled, hasRoot, moduleVars, m_pending, engineVars>>

\* Opening the directory adds it to the roots whether or not it succeeds.
openWatchRoot ==
  IF hasRoot THEN UNCHANGED <<watcherVars, hasRoot>> ELSE open /\ hasRoot' = TRUE

\* Roots from the configuration are opened at once, if it names the directory.
Enable ==
  /\ pc = "idle" /\ ~m_enabled
  /\ m_enabled' = TRUE
  /\ openWatchRoot \/ UNCHANGED <<watcherVars, hasRoot>>
  /\ UNCHANGED <<diskVars, luaVars, moduleVars, m_pending, engineVars, stale>>

\* Turning hot reload off forgets the pending changes and destroys the watcher.
Disable ==
  /\ pc = "idle" /\ m_enabled
  /\ m_enabled' = FALSE
  /\ m_pending' = [m \in Modules |-> "none"]
  /\ SetExit
  /\ MarkStale({m \in Modules : m_pending[m] # "none"} \cup InFlight)
  /\ pc' = "closing"
  /\ UNCHANGED <<diskVars, luaVars, hasRoot, moduleVars, due, module, auto>>

Closed ==
  /\ pc = "closing" /\ pc' = "idle"
  /\ hasRoot' = FALSE
  /\ Joined
  /\ MarkStale(InFlight \ InFlight')
  /\ UNCHANGED <<diskVars, luaVars, m_enabled, moduleVars, m_pending, due, module, auto>>

setModuleEnabled(m, on) ==
  /\ pc = "idle"
  /\ enabled' = [enabled EXCEPT ![m] = on]
  /\ state' = [state EXCEPT ![m] = IF ~on THEN "disabled" ELSE IF @ = "disabled" THEN "idle" ELSE @]
  /\ UNCHANGED <<watcherVars, diskVars, luaVars, m_enabled, hasRoot, tracked, sig, m_pending,
                 engineVars, stale>>

\* The engine is bound anew: nothing is kept, and scripts start over.
shutdown ==
  /\ pc = "idle" /\ pc' = "closing"
  /\ m_enabled' = FALSE /\ SetExit
  /\ m_pending' = [m \in Modules |-> "none"]
  /\ tracked' = {} /\ enabled' = [m \in Modules |-> TRUE]
  /\ sig' = [m \in Modules |-> NoSignature] /\ state' = [m \in Modules |-> "idle"]
  /\ loaded' = {} /\ active' = [m \in Modules |-> Absent]
  /\ stale' = [m \in Modules |-> FALSE]
  /\ UNCHANGED <<diskVars, hasRoot, due, module, auto>>

-----------------------------------------------------------------------------
(* Reloading *)

\* A field of every entry, with new entries for those that lose theirs.
Kept(field, new) == [m \in Modules |-> IF m \in tracked \ loaded THEN new ELSE field[m]]

\* Every loaded module has an entry, entries of unloaded ones are dropped.
refreshModules ==
  /\ tracked' = loaded
  /\ enabled' = Kept(enabled, TRUE)
  /\ sig' = Kept(sig, NoSignature)

NeedsRoot == m_enabled /\ loaded # {} /\ ~hasRoot

showWindow ==
  /\ pc = "idle"
  /\ refreshModules /\ state' = Kept(state, "idle")
  /\ IF NeedsRoot THEN openWatchRoot ELSE UNCHANGED <<watcherVars, hasRoot>>
  /\ UNCHANGED <<diskVars, luaVars, m_enabled, m_pending, engineVars, stale>>

\* ReloadLuaModule of a script, or the button of the window.
ReloadLuaModule(m) ==
  /\ pc = "idle"
  /\ refreshModules
  /\ IF NeedsRoot THEN openWatchRoot ELSE UNCHANGED <<watcherVars, hasRoot>>
  /\ IF m \in loaded
     THEN /\ pc' = "sign" /\ module' = m /\ auto' = FALSE
          /\ state' = Kept(state, "idle")
     ELSE /\ state' = [Kept(state, "idle") EXCEPT ![m] = "idle"]
          /\ UNCHANGED <<pc, module, auto>>
  /\ UNCHANGED <<diskVars, luaVars, m_enabled, m_pending, due, stale>>

\* Mutant of collectChanges: every frame makes the files that wait wait anew.
collectAlways ==
  m_pending' = [m \in Modules |->
    IF m \in ToSet(m_notify) \/ m_pending[m] # "none" THEN "fresh" ELSE "none"]

\* Each change makes the file wait anew.
collectChanges ==
  m_pending' = [m \in Modules |-> IF m \in ToSet(m_notify) THEN "fresh" ELSE m_pending[m]]

\* The frame's update looks at what has rested; a directory it opens itself
\* has reported nothing yet.
UpdateBegins ==
  /\ pc = "idle" /\ m_enabled /\ pc' = "update"
  /\ refreshModules /\ state' = Kept(state, "idle")
  /\ IF NeedsRoot
     THEN openWatchRoot
     ELSE /\ m_notify' = <<>>
          /\ UNCHANGED <<recorded, overflown, m_complete, m_exit, buffer, wpc, hasRoot>>
  /\ collectChanges
  /\ due' = {m \in Modules : m_pending'[m] = "rested"}
  /\ UNCHANGED <<diskVars, luaVars, m_enabled, module, auto, stale>>

UpdateEnds ==
  /\ pc = "update" /\ due = {} /\ pc' = "idle"
  /\ UNCHANGED <<watcherVars, diskVars, luaVars, m_enabled, hasRoot, moduleVars, m_pending, due,
                 module, auto, stale>>

\* What a read of a file may yield: its content, or nothing.
Reads(m) == {file[m], Absent}

ReloadNext(m) == pc' = "sign" /\ module' = m /\ auto' = TRUE

\* The source is gone: the module stays, and the next content is new.
SourceMissing(m) ==
  /\ sig' = [sig EXCEPT ![m] = IF state[m] = "missing" THEN @ ELSE NoSignature]
  /\ state' = [state EXCEPT ![m] = "missing"]
  /\ stale' = [stale EXCEPT ![m] = sig'[m] # NoSignature /\ @]
  /\ UNCHANGED <<pc, module, auto>>

\* The same content as at the last attempt is left alone.
SourceRead(m, c) ==
  /\ IF c # Absent /\ c = sig[m]
     THEN UNCHANGED <<sig, pc, module, auto>>
     ELSE /\ sig' = [sig EXCEPT ![m] = IF c = Absent THEN @ ELSE c]
          /\ ReloadNext(m)
  /\ UNCHANGED <<state, stale>>

\* Modules that were switched off, or are not loaded, pay no attention.
processChange(m) ==
  /\ pc = "update" /\ m \in due
  /\ due' = due \ {m} /\ m_pending' = [m_pending EXCEPT ![m] = "none"]
  /\ IF m \notin loaded THEN UNCHANGED <<moduleVars, pc, module, auto, stale>>
     ELSE /\ tracked' = tracked \cup {m}
          /\ UNCHANGED enabled
          /\ \/ /\ ~enabled[m]
                /\ state' = [state EXCEPT ![m] = "disabled"]
                /\ stale' = [stale EXCEPT ![m] = TRUE]
                /\ UNCHANGED <<sig, pc, module, auto>>
             \/ enabled[m] /\ file[m] = Absent /\ SourceMissing(m)
             \/ enabled[m] /\ file[m] # Absent /\ \E c \in Reads(m) : SourceRead(m, c)
  /\ UNCHANGED <<watcherVars, diskVars, luaVars, m_enabled, hasRoot>>

\* reloadModule reads the file for its signature, which it keeps when it can,
ReloadSigns ==
  /\ pc = "sign" /\ pc' = "stage"
  /\ \E c \in Reads(module) :
       /\ sig' = [sig EXCEPT ![module] = IF c = Absent THEN @ ELSE c]
       /\ stale' = [stale EXCEPT ![module] = c = Absent /\ sig[module] # NoSignature]
  /\ UNCHANGED <<watcherVars, diskVars, luaVars, m_enabled, hasRoot, tracked, enabled, state,
                 m_pending, due, module, auto>>

\* and again to run it.  What fails in staging leaves the module as it is.
stageAndCommit ==
  /\ pc = "stage" /\ pc' = IF auto THEN "update" ELSE "idle"
  /\ \E c \in Reads(module) :
       /\ active' = [active EXCEPT ![module] = IF c \in Good THEN c ELSE @]
       /\ state' = [state EXCEPT ![module] = "idle"]
       /\ stale' = [stale EXCEPT ![module] =
            @ \/ (c = Absent /\ (file[module] # Absent \/ sig[module] # NoSignature))]
  /\ module' = NoModule /\ auto' = FALSE
  /\ UNCHANGED <<watcherVars, diskVars, loaded, m_enabled, hasRoot, tracked, enabled, sig,
                 m_pending, due>>

-----------------------------------------------------------------------------
Environment ==
  \/ \E name \in Names \ Modules : Touch(name)
  \/ \E m \in Modules : Rest(m) \/ \E c \in Good \cup Bad \cup {Absent} : Write(m, c)

Script ==
  \/ Enable \/ Disable \/ shutdown \/ showWindow
  \/ \E m \in Modules :
       \/ Require(m) \/ Unload(m) \/ ReloadLuaModule(m)
       \/ \E on \in BOOLEAN : setModuleEnabled(m, on)

Reloading ==
  \/ UpdateEnds \/ (\E m \in Modules : processChange(m)) \/ ReloadSigns \/ stageAndCommit \/ Closed

Next == Environment \/ WatcherStep \/ Script \/ UpdateBegins \/ Reloading

Spec == Init /\ [][Next]_vars

\* Time passes, the watcher's thread runs, calls go on until they return, and
\* scripts begin every frame with NewFrame.  Nobody has to change a file.
FairSpec ==
  /\ Spec
  /\ WF_vars(WatcherStep) /\ WF_vars(Reloading)
  /\ SF_vars(UpdateBegins) /\ \A m \in Modules : SF_vars(Rest(m))

-----------------------------------------------------------------------------
\* Types.
TypeOK ==
  /\ recorded \in Seq(Names) /\ buffer \in Seq(Names) /\ m_notify \in Seq(Names \cup {Garbled})
  /\ {overflown, m_complete, m_exit, m_enabled, hasRoot, auto} \subseteq BOOLEAN
  /\ wpc \in {"none", "start", "read", "wait", "decode", "ended"}
  /\ file \in [Modules -> Good \cup Bad \cup {Absent}] /\ writes \in 0 .. MaxWrites /\ touches \in 0 .. MaxTouches
  /\ loaded \subseteq Modules /\ active \in [Modules -> Good \cup {Absent}]
  /\ tracked \subseteq Modules /\ enabled \in [Modules -> BOOLEAN]
  /\ sig \in [Modules -> Good \cup Bad \cup {NoSignature}]
  /\ state \in [Modules -> {"idle", "missing", "disabled"}]
  /\ m_pending \in [Modules -> {"none", "fresh", "rested"}]
  /\ due \subseteq Modules /\ pc \in {"idle", "closing", "update", "sign", "stage"}
  /\ module \in Modules \cup {NoModule} /\ stale \in [Modules -> BOOLEAN]

\* No change of m is on its way to its module.
AtRest(m) == m \notin InFlight /\ m_pending[m] = "none" /\ module # m

\* When no change is on its way a loaded module runs what its file contains,
\* unless staging rejected that; and only a change that went unnoticed (stale)
\* excuses it: the watcher was off, overflowed, garbled the name or died, the
\* module was switched off, or the file changed between two reads of a reload.
RestsMeansCurrent ==
  \A m \in loaded : AtRest(m) /\ ~stale[m] => active[m] = file[m] \/ file[m] \in Bad \cup {Absent}

\* A change is noticed and dealt with, unless hot reload is turned off.
ChangesAreHandled ==
  \A m \in Modules : (m \in InFlight /\ m_enabled) ~> (AtRest(m) \/ ~m_enabled)

\* Turning hot reload off returns, although it waits for the watcher's thread.
DisableReturns == (pc = "closing") ~> (pc = "idle")
=============================================================================
