------------------------- MODULE LuaHotReloadProofs -------------------------
(* Proof that hot reload leaves no loaded module behind its file, for any   *)
(* number of files and any capacity of the watcher, but where a change was  *)
(* lost in one of the ways the module names; and that turning it off leaves *)
(* nothing of it behind.                                                    *)
EXTENDS LuaHotReload, TLAPS

USE WatcherAssumption, ReloadAssumption

LEMMA EmptyHasNone == ToSet(<<>>) = {}
BY DEF ToSet

LEMMA AppendedSet ==
  ASSUME NEW S, NEW s \in Seq(S), NEW x \in S
  PROVE  Append(s, x) \in Seq(S) /\ ToSet(Append(s, x)) = ToSet(s) \cup {x}
<1>1. /\ Append(s, x) \in Seq(S) /\ DOMAIN s = 1 .. Len(s)
      /\ DOMAIN Append(s, x) = 1 .. Len(s) + 1 /\ Len(s) \in Nat
      /\ \A i \in 1 .. Len(s) : Append(s, x)[i] = s[i]
      /\ Append(s, x)[Len(s) + 1] = x
  OBVIOUS
<1> QED BY <1>1 DEF ToSet

LEMMA SplitSet ==
  ASSUME NEW S, NEW s \in Seq(S), s # <<>>
  PROVE  /\ ToSet(s) = {Head(s)} \cup ToSet(Tail(s))
         /\ Tail(s) \in Seq(S) /\ Head(s) \in S
<1>1. /\ Len(s) \in Nat \ {0} /\ DOMAIN s = 1 .. Len(s) /\ Head(s) = s[1] /\ Head(s) \in S
      /\ Tail(s) \in Seq(S) /\ DOMAIN Tail(s) = 1 .. Len(s) - 1
      /\ \A i \in 1 .. Len(s) - 1 : Tail(s)[i] = s[i + 1]
  OBVIOUS
<1>2. ASSUME NEW i \in 1 .. Len(s) PROVE s[i] \in {Head(s)} \cup ToSet(Tail(s))
  <2>1. CASE i = 1
    BY <1>1, <2>1
  <2>2. CASE i # 1
    <3>1. i - 1 \in 1 .. Len(s) - 1 /\ (i - 1) + 1 = i
      BY <1>1, <2>2
    <3> QED BY <1>1, <3>1 DEF ToSet
  <2> QED BY <2>1, <2>2
<1>3. ASSUME NEW i \in 1 .. Len(s) - 1 PROVE Tail(s)[i] \in ToSet(s)
  <2>1. i + 1 \in 1 .. Len(s)
    BY <1>1
  <2> QED BY <1>1, <2>1 DEF ToSet
<1>4. Head(s) \in ToSet(s)
  BY <1>1 DEF ToSet
<1> QED BY <1>1, <1>2, <1>3, <1>4 DEF ToSet

-----------------------------------------------------------------------------
(* The watcher: a change stays on its way, or is among those said to be lost *)

\* The buffer is only filled for the worker to decode it.
WatcherInv ==
  /\ recorded \in Seq(Names) /\ buffer \in Seq(Names)
  /\ m_notify \in Seq(Names \cup {Garbled})
  /\ buffer = <<>> \/ wpc = "decode" \/ (wpc = "wait" /\ m_complete)

LEMMA ChangedKeeps ==
  ASSUME WatcherInv, NEW name \in Names, Changed(name)
  PROVE  WatcherInv' /\ InFlight \cup {name} \subseteq InFlight' \cup Forgotten(name)
<1>0. buffer' = buffer /\ m_notify' = m_notify /\ wpc' = wpc /\ m_complete' = m_complete
  BY DEF Changed
<1>1. CASE recorded' = Append(recorded, name)
  <2>1. recorded' \in Seq(Names) /\ ToSet(recorded') = ToSet(recorded) \cup {name}
    BY <1>1, AppendedSet DEF WatcherInv
  <2>2. WatcherInv'
    BY <1>0, <2>1 DEF WatcherInv
  <2>3. InFlight \cup {name} = InFlight'
    BY <1>0, <2>1 DEF InFlight
  <2> QED BY <2>2, <2>3
<1>2. CASE recorded' \in {recorded, <<>>}
  <2>0. recorded \in Seq(Names) /\ Len(recorded) \in Nat
    BY DEF WatcherInv
  <2>1. recorded' \in Seq(Names) /\ Len(recorded') <= Len(recorded)
    <3>1. CASE recorded' = recorded
      BY <2>0, <3>1
    <3>2. CASE recorded' = <<>>
      BY <2>0, <3>2
    <3> QED BY <1>2, <3>1, <3>2
  <2>2. Forgotten(name) = ToSet(recorded) \cup {name}
    <3>1. Len(recorded') \in Nat
      BY <2>1
    <3> QED BY <2>0, <2>1, <3>1 DEF Forgotten
  <2>3. WatcherInv'
    BY <1>0, <2>1 DEF WatcherInv
  <2>4. InFlight \subseteq InFlight' \cup ToSet(recorded)
    BY <1>0 DEF InFlight
  <2> QED BY <2>2, <2>3, <2>4
<1> QED BY <1>1, <1>2 DEF Changed

LEMMA WorkerKeeps ==
  ASSUME WatcherInv, Complete \/ WatcherWorker
  PROVE  WatcherInv' /\ InFlight \subseteq InFlight' \cup LostByWorker
<1>0. Garbled \notin Names
  OBVIOUS
<1>1. ASSUME WorkerEnds PROVE WatcherInv' /\ InFlight \subseteq InFlight' \cup LostByWorker
  BY <1>1 DEF WorkerEnds, WatcherInv, InFlight, LostByWorker
<1>2. CASE Complete
  <2>1. buffer = <<>>
    BY <1>2 DEF Complete, WatcherInv
  <2> QED BY <1>2, <2>1, EmptyHasNone DEF Complete, WatcherInv, InFlight
<1>3. CASE ReadDirectoryChanges
  BY <1>1, <1>3 DEF ReadDirectoryChanges, WatcherInv, InFlight
<1>4. CASE WaitForEvents
  BY <1>1, <1>4 DEF WaitForEvents, WatcherInv, InFlight
<1>5. CASE Decode
  <2>0. recorded' = recorded /\ m_complete' = m_complete /\ wpc = "decode"
    BY <1>5 DEF Decode
  <2>1. CASE buffer = <<>>
    BY <1>5, <2>0, <2>1 DEF Decode, WatcherInv, InFlight
  <2>2. CASE buffer # <<>>
    <3>1. /\ m_notify' = Append(m_notify, DecodedName) /\ buffer' = Tail(buffer) /\ wpc' = wpc
      BY <1>5, <2>2 DEF Decode
    <3>2. /\ Head(buffer) \in Names /\ buffer' \in Seq(Names)
          /\ ToSet(buffer) = {Head(buffer)} \cup ToSet(buffer')
      BY <2>2, <3>1, SplitSet DEF WatcherInv
    <3>3. DecodedName \in {Head(buffer), Garbled}
      BY DEF DecodedName
    <3>4. /\ m_notify' \in Seq(Names \cup {Garbled})
          /\ ToSet(m_notify') = ToSet(m_notify) \cup {DecodedName}
      <4>1. m_notify \in Seq(Names \cup {Garbled}) /\ DecodedName \in Names \cup {Garbled}
        BY <3>2, <3>3 DEF WatcherInv
      <4> QED BY <3>1, <4>1, AppendedSet
    <3>5. WatcherInv'
      BY <2>0, <3>1, <3>2, <3>4 DEF WatcherInv
    <3>6. DecodedName = Garbled => LostByWorker = {Head(buffer)}
      <4>1. wpc' # "ended"
        BY <2>0, <3>1
      <4> QED BY <2>0, <2>2, <4>1 DEF LostByWorker
    <3>7. InFlight \subseteq InFlight' \cup {Head(buffer)}
      BY <2>0, <3>2, <3>4 DEF InFlight
    <3>8. DecodedName # Garbled => Head(buffer) \in InFlight'
      BY <1>0, <3>2, <3>3, <3>4 DEF InFlight
    <3> QED BY <3>5, <3>6, <3>7, <3>8
  <2> QED BY <2>1, <2>2
<1> QED BY <1>2, <1>3, <1>4, <1>5 DEF WatcherWorker

\* Opening a directory, and asking the worker to leave, lose nothing.
LEMMA OpeningKeeps ==
  ASSUME WatcherInv, open \/ SetExit \/ UNCHANGED watcherVars
  PROVE  WatcherInv' /\ InFlight' = InFlight
BY DEF open, SetExit, watcherVars, WatcherInv, InFlight

LEMMA JoinedKeeps == ASSUME WatcherInv, Joined PROVE WatcherInv'
BY DEF Joined, WatcherInv

-----------------------------------------------------------------------------
(* The invariant *)

Types ==
  /\ file \in [Modules -> Good \cup Bad \cup {Absent}]
  /\ loaded \subseteq Modules /\ active \in [Modules -> Good \cup {Absent}]
  /\ sig \in [Modules -> Good \cup Bad \cup {NoSignature}]
  /\ m_pending \in [Modules -> {"none", "fresh", "rested"}]
  /\ stale \in [Modules -> BOOLEAN]
  /\ module \in Modules \cup {NoModule}

\* A module is being reloaded in the two steps of a reload.
Place == module # NoModule <=> pc \in {"sign", "stage"}

\* RestsMeansCurrent, of one module.
Current(m) ==
  m \in loaded /\ AtRest(m) /\ ~stale[m] => active[m] = file[m] \/ file[m] \in Bad \cup {Absent}

\* The signature is that of what runs, or of what staging rejected: this is
\* why a file that has the signature can be left alone.
Signed(m) ==
  m \in loaded /\ module # m /\ ~stale[m] /\ sig[m] # NoSignature
    => active[m] = sig[m] \/ sig[m] \in Bad

\* Between the two reads of a reload the signature is that of the file.
Staging(m) ==
  m \in loaded /\ module = m /\ pc = "stage" /\ ~stale[m] => sig[m] \in {file[m], NoSignature}

Settled(m) == Current(m) /\ Signed(m) /\ Staging(m)

HotInv == WatcherInv /\ Types /\ Place /\ \A m \in Modules : Settled(m)

\* Nothing happens to m that could make it fall behind.
Quiet(m) ==
  m \in loaded' =>
    /\ m \in loaded /\ active'[m] = active[m] /\ file'[m] = file[m] /\ sig'[m] = sig[m]
    /\ stale[m] => stale'[m]
    /\ AtRest(m)' /\ ~stale'[m] => AtRest(m)
    /\ module = m => module' = m
    /\ pc' = "stage" /\ module' = m => pc = "stage" /\ module = m

LEMMA QuietKeeps ==
  ASSUME NEW m \in Modules, Settled(m), Types, Types', Quiet(m)
  PROVE  Settled(m)'
<1>0. stale[m] \in BOOLEAN /\ stale'[m] \in BOOLEAN
  BY DEF Types
<1>1. Current(m)'
  BY <1>0 DEF Quiet, Settled, Current
<1>2. Signed(m)'
  BY <1>0 DEF Quiet, Settled, Signed
<1>3. Staging(m)'
  BY <1>0 DEF Quiet, Settled, Staging
<1> QED BY <1>1, <1>2, <1>3 DEF Settled

LEMMA ModuleNames == NoModule \notin Modules /\ NoSignature \notin Good \cup Bad
BY DEF NoModule, NoSignature

LEMMA HotInit == Init => HotInv
<1> SUFFICES ASSUME Init PROVE HotInv
  OBVIOUS
<1>1. WatcherInv
  BY DEF Init, WatcherInit, WatcherInv
<1>2. Types /\ Place
  BY DEF Init, Types, Place, NoSignature
<1>3. \A m \in Modules : Settled(m)
  BY ModuleNames DEF Init, Settled, Current, Signed, Staging
<1> QED BY <1>1, <1>2, <1>3 DEF HotInv

-----------------------------------------------------------------------------
(* The disk, the clock and the watcher *)

LEMMA WriteKeeps ==
  ASSUME HotInv, NEW w \in Modules, NEW c \in Good \cup Bad \cup {Absent}, Write(w, c)
  PROVE  HotInv'
<1>1. /\ Types /\ Place /\ WatcherInv /\ w \in Names
      /\ Changed(w) /\ file' = [file EXCEPT ![w] = c]
      /\ MarkStale(Forgotten(w) \cup {x \in {w} : pc = "stage" /\ module = x})
      /\ UNCHANGED <<loaded, active, sig, m_pending, module, pc>>
  BY DEF HotInv, Write, luaVars, moduleVars, engineVars
<1>2. WatcherInv' /\ InFlight \cup {w} \subseteq InFlight' \cup Forgotten(w)
  BY <1>1, ChangedKeeps
<1>3. /\ stale' \in [Modules -> BOOLEAN]
      /\ \A m \in Modules : stale[m] => stale'[m]
      /\ \A m \in loaded : m \in Forgotten(w) => stale'[m]
      /\ w \in loaded /\ pc = "stage" /\ module = w => stale'[w]
  BY <1>1 DEF MarkStale, Types
<1>4. Types' /\ Place'
  BY <1>1, <1>3 DEF Types, Place
<1>5. ASSUME NEW m \in Modules PROVE Settled(m)'
  <2>0. Settled(m) /\ stale[m] \in BOOLEAN /\ stale'[m] \in BOOLEAN
    BY <1>3, <1>1 DEF HotInv, Types
  <2>1. CASE m = w
    <3>1. Current(m)'
      BY <1>1, <1>2, <1>3, <2>1 DEF Current, AtRest
    <3>2. Signed(m)'
      BY <1>1, <1>3, <2>0 DEF Settled, Signed
    <3>3. Staging(m)'
      BY <1>1, <1>3, <2>1 DEF Staging
    <3> QED BY <3>1, <3>2, <3>3 DEF Settled
  <2>2. CASE m # w
    <3>1. file'[m] = file[m]
      BY <1>1, <2>2 DEF Types
    <3>2. AtRest(m)' /\ ~stale'[m] /\ m \in loaded => AtRest(m)
      BY <1>1, <1>2, <1>3 DEF AtRest
    <3>3. Quiet(m)
      BY <1>1, <1>3, <3>1, <3>2 DEF Quiet
    <3> QED BY <1>1, <1>4, <2>0, <3>3, QuietKeeps
  <2> QED BY <2>1, <2>2
<1> QED BY <1>2, <1>4, <1>5 DEF HotInv

LEMMA TouchKeeps ==
  ASSUME HotInv, NEW name \in Names, Touch(name)
  PROVE  HotInv'
<1>1. /\ Types /\ Place /\ WatcherInv /\ Changed(name) /\ MarkStale(Forgotten(name))
      /\ UNCHANGED <<file, loaded, active, sig, m_pending, module, pc>>
  BY DEF HotInv, Touch, luaVars, moduleVars, engineVars
<1>2. WatcherInv' /\ InFlight \subseteq InFlight' \cup Forgotten(name)
  BY <1>1, ChangedKeeps
<1>3. /\ stale' \in [Modules -> BOOLEAN]
      /\ \A m \in Modules : stale[m] => stale'[m]
      /\ \A m \in loaded : m \in Forgotten(name) => stale'[m]
  BY <1>1 DEF MarkStale, Types
<1>4. Types' /\ Place'
  BY <1>1, <1>3 DEF Types, Place
<1>5. ASSUME NEW m \in Modules PROVE Settled(m)'
  <2>1. AtRest(m)' /\ ~stale'[m] /\ m \in loaded => AtRest(m)
    BY <1>1, <1>2, <1>3 DEF AtRest
  <2>2. Quiet(m) /\ Settled(m)
    BY <1>1, <1>3, <2>1 DEF Quiet, HotInv
  <2> QED BY <1>1, <1>4, <2>2, QuietKeeps
<1> QED BY <1>2, <1>4, <1>5 DEF HotInv

LEMMA WatcherStepKeeps == ASSUME HotInv, WatcherStep PROVE HotInv'
<1>1. /\ Types /\ Place /\ WatcherInv /\ (Complete \/ WatcherWorker) /\ MarkStale(LostByWorker)
      /\ UNCHANGED <<file, loaded, active, sig, m_pending, module, pc>>
  BY DEF HotInv, WatcherStep, diskVars, luaVars, moduleVars, engineVars
<1>2. WatcherInv' /\ InFlight \subseteq InFlight' \cup LostByWorker
  BY <1>1, WorkerKeeps
<1>3. /\ stale' \in [Modules -> BOOLEAN]
      /\ \A m \in Modules : stale[m] => stale'[m]
      /\ \A m \in loaded : m \in LostByWorker => stale'[m]
  BY <1>1 DEF MarkStale, Types
<1>4. Types' /\ Place'
  BY <1>1, <1>3 DEF Types, Place
<1>5. ASSUME NEW m \in Modules PROVE Settled(m)'
  <2>1. AtRest(m)' /\ ~stale'[m] /\ m \in loaded => AtRest(m)
    BY <1>1, <1>2, <1>3 DEF AtRest
  <2>2. Quiet(m) /\ Settled(m)
    BY <1>1, <1>3, <2>1 DEF Quiet, HotInv
  <2> QED BY <1>1, <1>4, <2>2, QuietKeeps
<1> QED BY <1>2, <1>4, <1>5 DEF HotInv

\* A change that waits goes on waiting, whether or not it has rested.
LEMMA RestKeeps == ASSUME HotInv, NEW r \in Modules, Rest(r) PROVE HotInv'
<1>1. /\ Types /\ Place /\ WatcherInv /\ m_pending[r] # "none"
      /\ m_pending' = [m_pending EXCEPT ![r] = "rested"]
      /\ UNCHANGED <<file, loaded, active, sig, stale, module, pc>> /\ UNCHANGED watcherVars
  BY DEF HotInv, Rest, diskVars, luaVars, moduleVars, engineVars
<1>2. WatcherInv' /\ InFlight' = InFlight
  BY <1>1, OpeningKeeps
<1>3. Types' /\ Place'
  BY <1>1 DEF Types, Place
<1>4. ASSUME NEW m \in Modules PROVE Settled(m)'
  <2>1. m_pending'[m] = "none" => m_pending[m] = "none"
    BY <1>1 DEF Types
  <2>2. AtRest(m)' => AtRest(m)
    BY <1>1, <1>2, <2>1 DEF AtRest
  <2>3. Quiet(m) /\ Settled(m)
    BY <1>1, <2>2 DEF Quiet, HotInv
  <2> QED BY <1>1, <1>3, <2>3, QuietKeeps
<1> QED BY <1>2, <1>3, <1>4 DEF HotInv

-----------------------------------------------------------------------------
(* Scripts *)

LEMMA RootKeeps ==
  ASSUME WatcherInv, openWatchRoot \/ UNCHANGED watcherVars
  PROVE  WatcherInv' /\ InFlight' = InFlight
BY OpeningKeeps DEF openWatchRoot

LEMMA RequireKeeps == ASSUME HotInv, NEW r \in Modules, Require(r) PROVE HotInv'
<1>1. /\ Types /\ Place /\ WatcherInv /\ pc = "idle" /\ file[r] \in Good
      /\ loaded' = loaded \cup {r} /\ active' = [active EXCEPT ![r] = file[r]]
      /\ stale' = [stale EXCEPT ![r] = sig[r] \notin {NoSignature, file[r]}]
      /\ UNCHANGED <<file, sig, m_pending, module, pc>> /\ UNCHANGED watcherVars
  BY DEF HotInv, Require, diskVars, moduleVars, engineVars
<1>2. WatcherInv' /\ InFlight' = InFlight
  BY <1>1, OpeningKeeps
<1>3. Types' /\ Place'
  BY <1>1 DEF Types, Place
<1>4. ASSUME NEW m \in Modules PROVE Settled(m)'
  <2>1. CASE m = r
    BY <1>1, <2>1 DEF Types, Settled, Current, Signed, Staging
  <2>2. CASE m # r
    <3>1. AtRest(m)' => AtRest(m)
      BY <1>1, <1>2 DEF AtRest
    <3>2. Quiet(m) /\ Settled(m)
      BY <1>1, <2>2, <3>1 DEF Types, Quiet, HotInv
    <3> QED BY <1>1, <1>3, <3>2, QuietKeeps
  <2> QED BY <2>1, <2>2
<1> QED BY <1>2, <1>3, <1>4 DEF HotInv

LEMMA UnloadKeeps == ASSUME HotInv, NEW r \in Modules, Unload(r) PROVE HotInv'
<1>1. /\ Types /\ Place /\ WatcherInv /\ loaded' = loaded \ {r}
      /\ active' = [active EXCEPT ![r] = Absent] /\ stale' = [stale EXCEPT ![r] = FALSE]
      /\ UNCHANGED <<file, sig, m_pending, module, pc>> /\ UNCHANGED watcherVars
  BY DEF HotInv, Unload, diskVars, moduleVars, engineVars
<1>2. WatcherInv' /\ InFlight' = InFlight
  BY <1>1, OpeningKeeps
<1>3. Types' /\ Place'
  BY <1>1 DEF Types, Place
<1>4. ASSUME NEW m \in Modules PROVE Settled(m)'
  <2>1. AtRest(m)' => AtRest(m)
    BY <1>1, <1>2 DEF AtRest
  <2>2. Quiet(m) /\ Settled(m)
    BY <1>1, <2>1 DEF Types, Quiet, HotInv
  <2> QED BY <1>1, <1>3, <2>2, QuietKeeps
<1> QED BY <1>2, <1>3, <1>4 DEF HotInv

LEMMA EnableKeeps == ASSUME HotInv, Enable PROVE HotInv'
<1>1. /\ Types /\ Place /\ WatcherInv
      /\ UNCHANGED <<file, loaded, active, sig, stale, m_pending, module, pc>>
      /\ openWatchRoot \/ UNCHANGED watcherVars
  BY DEF HotInv, Enable, diskVars, luaVars, moduleVars, engineVars
<1>2. WatcherInv' /\ InFlight' = InFlight
  BY <1>1, RootKeeps
<1>3. Types' /\ Place'
  BY <1>1 DEF Types, Place
<1>4. ASSUME NEW m \in Modules PROVE Settled(m)'
  <2>1. AtRest(m)' => AtRest(m)
    BY <1>1, <1>2 DEF AtRest
  <2>2. Quiet(m) /\ Settled(m)
    BY <1>1, <2>1 DEF Quiet, HotInv
  <2> QED BY <1>1, <1>3, <2>2, QuietKeeps
<1> QED BY <1>2, <1>3, <1>4 DEF HotInv

LEMMA DisableKeeps == ASSUME HotInv, Disable PROVE HotInv'
<1>1. /\ Types /\ Place /\ WatcherInv /\ SetExit /\ pc = "idle" /\ pc' = "closing"
      /\ m_pending' = [m \in Modules |-> "none"]
      /\ MarkStale({m \in Modules : m_pending[m] # "none"} \cup InFlight)
      /\ UNCHANGED <<file, loaded, active, sig, module>>
  BY DEF HotInv, Disable, diskVars, luaVars, moduleVars
<1>2. WatcherInv' /\ InFlight' = InFlight
  BY <1>1, OpeningKeeps
<1>3. /\ stale' \in [Modules -> BOOLEAN]
      /\ \A m \in Modules : stale[m] => stale'[m]
      /\ \A m \in loaded : m_pending[m] # "none" \/ m \in InFlight => stale'[m]
  BY <1>1 DEF MarkStale, Types
<1>4. Types' /\ Place'
  BY <1>1, <1>3 DEF Types, Place
<1>5. ASSUME NEW m \in Modules PROVE Settled(m)'
  <2>1. AtRest(m)' /\ ~stale'[m] /\ m \in loaded => AtRest(m)
    BY <1>1, <1>3 DEF AtRest
  <2>2. Quiet(m) /\ Settled(m)
    BY <1>1, <1>3, <2>1 DEF Quiet, HotInv
  <2> QED BY <1>1, <1>4, <2>2, QuietKeeps
<1> QED BY <1>2, <1>4, <1>5 DEF HotInv

LEMMA ClosedKeeps == ASSUME HotInv, Closed PROVE HotInv'
<1>1. /\ Types /\ Place /\ WatcherInv /\ Joined /\ MarkStale(InFlight \ InFlight')
      /\ pc = "closing" /\ pc' = "idle"
      /\ UNCHANGED <<file, loaded, active, sig, m_pending, module>>
  BY DEF HotInv, Closed, diskVars, luaVars, moduleVars
<1>2. WatcherInv'
  BY <1>1, JoinedKeeps
<1>3. /\ stale' \in [Modules -> BOOLEAN]
      /\ \A m \in Modules : stale[m] => stale'[m]
      /\ \A m \in loaded : m \in InFlight \ InFlight' => stale'[m]
  BY <1>1 DEF MarkStale, Types
<1>4. Types' /\ Place'
  BY <1>1, <1>3 DEF Types, Place
<1>5. ASSUME NEW m \in Modules PROVE Settled(m)'
  <2>1. AtRest(m)' /\ ~stale'[m] /\ m \in loaded => AtRest(m)
    BY <1>1, <1>3 DEF AtRest
  <2>2. Quiet(m) /\ Settled(m)
    BY <1>1, <1>3, <2>1 DEF Quiet, HotInv
  <2> QED BY <1>1, <1>4, <2>2, QuietKeeps
<1> QED BY <1>2, <1>4, <1>5 DEF HotInv

LEMMA SwitchKeeps ==
  ASSUME HotInv, NEW r \in Modules, NEW on \in BOOLEAN, setModuleEnabled(r, on)
  PROVE  HotInv'
<1>1. /\ Types /\ Place /\ WatcherInv
      /\ UNCHANGED <<file, loaded, active, sig, stale, m_pending, module, pc>>
      /\ UNCHANGED watcherVars
  BY DEF HotInv, setModuleEnabled, diskVars, luaVars, engineVars
<1>2. WatcherInv' /\ InFlight' = InFlight
  BY <1>1, OpeningKeeps
<1>3. Types' /\ Place'
  BY <1>1 DEF Types, Place
<1>4. ASSUME NEW m \in Modules PROVE Settled(m)'
  <2>1. AtRest(m)' => AtRest(m)
    BY <1>1, <1>2 DEF AtRest
  <2>2. Quiet(m) /\ Settled(m)
    BY <1>1, <2>1 DEF Quiet, HotInv
  <2> QED BY <1>1, <1>3, <2>2, QuietKeeps
<1> QED BY <1>2, <1>3, <1>4 DEF HotInv

LEMMA ShutdownKeeps == ASSUME HotInv, shutdown PROVE HotInv'
<1>1. /\ Types /\ Place /\ WatcherInv /\ SetExit /\ pc = "idle" /\ pc' = "closing"
      /\ m_pending' = [m \in Modules |-> "none"] /\ sig' = [m \in Modules |-> NoSignature]
      /\ loaded' = {} /\ active' = [m \in Modules |-> Absent]
      /\ stale' = [m \in Modules |-> FALSE]
      /\ UNCHANGED <<file, module>>
  BY DEF HotInv, shutdown, diskVars
<1>2. WatcherInv'
  BY <1>1, OpeningKeeps
<1>3. Types' /\ Place'
  BY <1>1 DEF Types, Place
<1>4. \A m \in Modules : Settled(m)'
  BY <1>1 DEF Settled, Current, Signed, Staging
<1> QED BY <1>2, <1>3, <1>4 DEF HotInv

-----------------------------------------------------------------------------
(* Reloading *)

\* A loaded module keeps its entry.
LEMMA RefreshKeeps ==
  ASSUME Types, refreshModules
  PROVE  /\ sig' \in [Modules -> Good \cup Bad \cup {NoSignature}]
         /\ \A m \in loaded : sig'[m] = sig[m]
BY DEF Types, refreshModules, Kept

LEMMA ShowKeeps == ASSUME HotInv, showWindow PROVE HotInv'
<1>1. /\ Types /\ Place /\ WatcherInv /\ refreshModules
      /\ UNCHANGED <<file, loaded, active, stale, m_pending, module, pc>>
      /\ openWatchRoot \/ UNCHANGED watcherVars
  BY DEF HotInv, showWindow, diskVars, luaVars, engineVars
<1>2. WatcherInv' /\ InFlight' = InFlight
  BY <1>1, RootKeeps
<1>3. Types' /\ Place' /\ \A m \in loaded : sig'[m] = sig[m]
  BY <1>1, RefreshKeeps DEF Types, Place
<1>4. ASSUME NEW m \in Modules PROVE Settled(m)'
  <2>1. AtRest(m)' => AtRest(m)
    BY <1>1, <1>2 DEF AtRest
  <2>2. Quiet(m) /\ Settled(m)
    BY <1>1, <1>3, <2>1 DEF Quiet, HotInv
  <2> QED BY <1>1, <1>3, <2>2, QuietKeeps
<1> QED BY <1>2, <1>3, <1>4 DEF HotInv

LEMMA ReloadKeeps == ASSUME HotInv, NEW r \in Modules, ReloadLuaModule(r) PROVE HotInv'
<1>1. /\ Types /\ Place /\ WatcherInv /\ refreshModules /\ pc = "idle"
      /\ UNCHANGED <<file, loaded, active, stale, m_pending>>
      /\ openWatchRoot \/ UNCHANGED watcherVars
      /\ (pc' = "sign" /\ module' = r) \/ UNCHANGED <<pc, module>>
  BY DEF HotInv, ReloadLuaModule, diskVars, luaVars
<1>2. WatcherInv' /\ InFlight' = InFlight
  BY <1>1, RootKeeps
<1>3. module = NoModule
  BY <1>1 DEF Place
<1>4. Types' /\ Place' /\ \A m \in loaded : sig'[m] = sig[m]
  BY <1>1, RefreshKeeps, ModuleNames DEF Types, Place
<1>5. ASSUME NEW m \in Modules PROVE Settled(m)'
  <2>1. AtRest(m)' => AtRest(m)
    BY <1>1, <1>2, <1>3, ModuleNames DEF AtRest
  <2>2. Quiet(m) /\ Settled(m)
    BY <1>1, <1>3, <1>4, <2>1, ModuleNames DEF Quiet, HotInv
  <2> QED BY <1>1, <1>4, <2>2, QuietKeeps
<1> QED BY <1>2, <1>4, <1>5 DEF HotInv

\* What the update takes from the queue waits.
LEMMA UpdateBeginsKeeps == ASSUME HotInv, UpdateBegins PROVE HotInv'
<1>1. /\ Types /\ Place /\ WatcherInv /\ refreshModules /\ collectChanges
      /\ pc = "idle" /\ pc' = "update"
      /\ UNCHANGED <<file, loaded, active, stale, module>>
      /\ \/ openWatchRoot \/ UNCHANGED watcherVars
         \/ m_notify' = <<>> /\ UNCHANGED <<recorded, overflown, m_complete, m_exit, buffer, wpc>>
  BY DEF HotInv, UpdateBegins, diskVars, luaVars
<1>2. /\ m_pending' \in [Modules -> {"none", "fresh", "rested"}]
      /\ \A m \in Modules : m_pending'[m] = "none"
           => m_pending[m] = "none" /\ m \notin ToSet(m_notify)
  BY <1>1 DEF collectChanges, Types
<1>3. WatcherInv' /\ InFlight \subseteq InFlight' \cup ToSet(m_notify)
  <2>1. CASE openWatchRoot \/ UNCHANGED watcherVars
    BY <1>1, <2>1, RootKeeps
  <2>2. CASE m_notify' = <<>> /\ UNCHANGED <<recorded, overflown, m_complete, m_exit, buffer, wpc>>
    BY <1>1, <2>2 DEF WatcherInv, InFlight
  <2> QED BY <1>1, <2>1, <2>2
<1>4. Types' /\ Place' /\ \A m \in loaded : sig'[m] = sig[m]
  BY <1>1, <1>2, RefreshKeeps DEF Types, Place
<1>5. ASSUME NEW m \in Modules PROVE Settled(m)'
  <2>1. AtRest(m)' => AtRest(m)
    BY <1>1, <1>2, <1>3 DEF AtRest
  <2>2. Quiet(m) /\ Settled(m)
    BY <1>1, <1>4, <2>1 DEF Quiet, HotInv
  <2> QED BY <1>1, <1>4, <2>2, QuietKeeps
<1> QED BY <1>3, <1>4, <1>5 DEF HotInv

LEMMA UpdateEndsKeeps == ASSUME HotInv, UpdateEnds PROVE HotInv'
<1>1. /\ Types /\ Place /\ WatcherInv /\ pc = "update" /\ pc' = "idle"
      /\ UNCHANGED <<file, loaded, active, sig, stale, m_pending, module>>
      /\ UNCHANGED watcherVars
  BY DEF HotInv, UpdateEnds, diskVars, luaVars, moduleVars
<1>2. WatcherInv' /\ InFlight' = InFlight
  BY <1>1, OpeningKeeps
<1>3. Types' /\ Place'
  BY <1>1 DEF Types, Place
<1>4. ASSUME NEW m \in Modules PROVE Settled(m)'
  <2>1. AtRest(m)' => AtRest(m)
    BY <1>1, <1>2 DEF AtRest
  <2>2. Quiet(m) /\ Settled(m)
    BY <1>1, <2>1 DEF Quiet, HotInv
  <2> QED BY <1>1, <1>3, <2>2, QuietKeeps
<1> QED BY <1>2, <1>3, <1>4 DEF HotInv

\* A change is left alone only if the module was switched off, the file is
\* gone or unreadable, or the signature says that it was dealt with.
LEMMA ProcessKeeps == ASSUME HotInv, NEW r \in Modules, processChange(r) PROVE HotInv'
<1> DEFINE Same == UNCHANGED <<pc, module>>
           Off     == stale' = [stale EXCEPT ![r] = TRUE] /\ sig' = sig /\ Same
           Gone    == /\ file[r] = Absent /\ Same
                      /\ sig' = sig \/ sig' = [sig EXCEPT ![r] = NoSignature]
                      /\ stale' = [stale EXCEPT ![r] = sig'[r] # NoSignature /\ @]
           Known   == file[r] # Absent /\ file[r] = sig[r] /\ sig' = sig /\ stale' = stale /\ Same
           Fresh   == /\ \E c \in {file[r], Absent} :
                           sig' = [sig EXCEPT ![r] = IF c = Absent THEN @ ELSE c]
                      /\ stale' = stale /\ pc' = "sign" /\ module' = r
           Idle    == r \notin loaded /\ UNCHANGED <<sig, stale>> /\ Same
<1>1. /\ Types /\ Place /\ WatcherInv /\ pc = "update"
      /\ m_pending' = [m_pending EXCEPT ![r] = "none"]
      /\ UNCHANGED <<file, loaded, active>> /\ UNCHANGED watcherVars
  BY DEF HotInv, processChange, diskVars, luaVars
<1>2. module = NoModule
  BY <1>1 DEF Place
<1>3. Idle \/ Off \/ Gone \/ Known \/ Fresh
  <2>1. CASE r \notin loaded
    BY <2>1 DEF processChange, moduleVars
  <2>2. CASE r \in loaded /\ ~enabled[r]
    BY <2>2 DEF processChange
  <2>3. CASE r \in loaded /\ enabled[r] /\ file[r] = Absent
    <3>1. SourceMissing(r)
      BY <2>3 DEF processChange
    <3>2. sig' = sig \/ sig' = [sig EXCEPT ![r] = NoSignature]
      BY <1>1, <3>1 DEF SourceMissing, Types
    <3> QED BY <2>3, <3>1, <3>2 DEF SourceMissing
  <2>4. CASE r \in loaded /\ enabled[r] /\ file[r] # Absent
    <3>1. PICK c \in {file[r], Absent} : SourceRead(r, c)
      BY <2>4 DEF processChange, Reads
    <3> QED BY <2>4, <3>1 DEF SourceRead, ReloadNext
  <2> QED BY <2>1, <2>2, <2>3, <2>4
<1>4. WatcherInv' /\ InFlight' = InFlight
  BY <1>1, OpeningKeeps
<1>5. Types' /\ Place'
  <2>1. m_pending' \in [Modules -> {"none", "fresh", "rested"}]
    BY <1>1 DEF Types
  <2>2. stale' \in [Modules -> BOOLEAN]
    BY <1>1, <1>3 DEF Types
  <2>3. sig' \in [Modules -> Good \cup Bad \cup {NoSignature}]
    BY <1>1, <1>3 DEF Types, NoSignature
  <2>4. Place' /\ module' \in Modules \cup {NoModule}
    BY <1>1, <1>2, <1>3, ModuleNames DEF Types, Place
  <2> QED BY <1>1, <2>1, <2>2, <2>3, <2>4 DEF Types
<1>6. ASSUME NEW m \in Modules, m # r PROVE Settled(m)'
  <2>1. sig'[m] = sig[m] /\ stale'[m] = stale[m] /\ m_pending'[m] = m_pending[m]
    BY <1>1, <1>3, <1>6 DEF Types
  <2>2. module' \in {NoModule, r} /\ (module' = module => pc' = pc)
    BY <1>2, <1>3, ModuleNames
  <2>3. AtRest(m)' => AtRest(m)
    BY <1>2, <1>4, <2>1, ModuleNames DEF AtRest
  <2>4. Quiet(m) /\ Settled(m)
    BY <1>1, <1>2, <1>6, <2>1, <2>2, <2>3, ModuleNames DEF Quiet, HotInv
  <2> QED BY <1>1, <1>5, <2>4, QuietKeeps
<1>7. Settled(r)'
  <2>0. Signed(r) /\ Types /\ r # NoModule
    BY <1>1, ModuleNames DEF HotInv, Settled
  <2>1. Staging(r)'
    BY <1>1, <1>2, <1>3, <2>0 DEF Staging
  <2>2. Current(r)' /\ Signed(r)'
    <3>1. CASE Idle
      BY <1>1, <3>1 DEF Current, Signed
    <3>2. CASE Off
      BY <1>1, <3>2 DEF Current, Signed, Types
    <3>3. CASE Gone
      <4>1. Current(r)'
        BY <1>1, <3>3 DEF Current
      <4>2. sig'[r] # NoSignature => sig'[r] = sig[r] /\ stale'[r] = stale[r]
        BY <1>1, <3>3 DEF Types
      <4> QED BY <1>1, <1>2, <2>0, <3>3, <4>1, <4>2 DEF Signed
    <3>4. CASE Known
      BY <1>1, <1>2, <2>0, <3>4 DEF Current, Signed, NoSignature
    <3>5. CASE Fresh
      BY <3>5 DEF Current, Signed, AtRest
    <3> QED BY <1>3, <3>1, <3>2, <3>3, <3>4, <3>5
  <2> QED BY <2>1, <2>2 DEF Settled
<1> QED BY <1>4, <1>5, <1>6, <1>7 DEF HotInv

\* A signature the reload cannot read leaves an old one behind, and is noted.
LEMMA SignsKeeps == ASSUME HotInv, ReloadSigns PROVE HotInv'
<1>1. /\ Types /\ Place /\ WatcherInv /\ pc = "sign" /\ pc' = "stage"
      /\ UNCHANGED <<file, loaded, active, m_pending, module>> /\ UNCHANGED watcherVars
  BY DEF HotInv, ReloadSigns, diskVars, luaVars
<1>2. PICK c \in {file[module], Absent} :
        /\ sig' = [sig EXCEPT ![module] = IF c = Absent THEN @ ELSE c]
        /\ stale' = [stale EXCEPT ![module] = c = Absent /\ sig[module] # NoSignature]
  BY DEF ReloadSigns, Reads
<1>3. module \in Modules
  BY <1>1 DEF Types, Place
<1>4. WatcherInv' /\ InFlight' = InFlight
  BY <1>1, OpeningKeeps
<1>5. Types' /\ Place'
  <2>1. sig' \in [Modules -> Good \cup Bad \cup {NoSignature}] /\ stale' \in [Modules -> BOOLEAN]
    BY <1>1, <1>2, <1>3 DEF Types, NoSignature
  <2> QED BY <1>1, <2>1 DEF Types, Place
<1>6. ASSUME NEW m \in Modules, m # module PROVE Settled(m)'
  <2>1. sig'[m] = sig[m] /\ stale'[m] = stale[m]
    BY <1>1, <1>2, <1>6 DEF Types
  <2>2. AtRest(m)' => AtRest(m)
    BY <1>1, <1>4 DEF AtRest
  <2>3. Quiet(m) /\ Settled(m)
    BY <1>1, <1>6, <2>1, <2>2 DEF Quiet, HotInv
  <2> QED BY <1>1, <1>5, <2>3, QuietKeeps
<1>7. Settled(module)'
  <2>1. Staging(module)'
    BY <1>1, <1>2, <1>3 DEF Staging, Types, NoSignature
  <2>2. Current(module)' /\ Signed(module)'
    BY <1>1 DEF Current, Signed, AtRest
  <2> QED BY <2>1, <2>2 DEF Settled
<1> QED BY <1>4, <1>5, <1>6, <1>7, <1>1 DEF HotInv

\* The second read sees what the first one saw, or what it could not see is noted.
LEMMA StageKeeps == ASSUME HotInv, stageAndCommit PROVE HotInv'
<1>1. /\ Types /\ Place /\ WatcherInv /\ pc = "stage" /\ pc' \in {"update", "idle"}
      /\ module' = NoModule
      /\ UNCHANGED <<file, loaded, sig, m_pending>> /\ UNCHANGED watcherVars
  BY DEF HotInv, stageAndCommit, diskVars
<1>2. PICK c \in {file[module], Absent} :
        /\ active' = [active EXCEPT ![module] = IF c \in Good THEN c ELSE @]
        /\ stale' = [stale EXCEPT ![module] =
             @ \/ (c = Absent /\ (file[module] # Absent \/ sig[module] # NoSignature))]
  BY DEF stageAndCommit, Reads
<1>3. module \in Modules
  BY <1>1 DEF Types, Place
<1>4. WatcherInv' /\ InFlight' = InFlight
  BY <1>1, OpeningKeeps
<1>5. Types' /\ Place'
  <2>1. active' \in [Modules -> Good \cup {Absent}] /\ stale' \in [Modules -> BOOLEAN]
    BY <1>1, <1>2, <1>3 DEF Types
  <2> QED BY <1>1, <2>1 DEF Types, Place
<1>6. ASSUME NEW m \in Modules, m # module PROVE Settled(m)'
  <2>1. active'[m] = active[m] /\ stale'[m] = stale[m]
    BY <1>1, <1>2, <1>6 DEF Types
  <2>2. AtRest(m)' => AtRest(m)
    BY <1>1, <1>4, <1>6 DEF AtRest
  <2>3. Quiet(m) /\ Settled(m)
    BY <1>1, <1>6, <2>1, <2>2 DEF Quiet, HotInv
  <2> QED BY <1>1, <1>5, <2>3, QuietKeeps
<1>7. ASSUME NEW m \in Modules, m = module PROVE Settled(m)'
  <2>1. /\ file[m] \in Good \cup Bad \cup {Absent} /\ stale[m] \in BOOLEAN
        /\ m \in loaded /\ ~stale[m] => sig[m] \in {file[m], NoSignature}
    BY <1>1, <1>7 DEF HotInv, Settled, Staging, Types
  <2>2. /\ ~stale'[m] => ~stale[m] /\ (c = file[m] \/ (file[m] = Absent /\ sig[m] = NoSignature))
        /\ c = file[m] /\ c \in Good => active'[m] = file[m]
    BY <1>1, <1>2, <1>7, <2>1 DEF Types
  <2>3. Current(m)'
    BY <1>1, <2>1, <2>2 DEF Current
  <2>4. Signed(m)'
    BY <1>1, <2>1, <2>2, ModuleNames DEF Signed, NoSignature
  <2>5. Staging(m)'
    BY <1>1 DEF Staging
  <2> QED BY <2>3, <2>4, <2>5 DEF Settled
<1> QED BY <1>4, <1>5, <1>6, <1>7 DEF HotInv

-----------------------------------------------------------------------------
LEMMA HotStep == ASSUME HotInv, [Next]_vars PROVE HotInv'
<1>1. CASE Environment
  BY <1>1, TouchKeeps, RestKeeps, WriteKeeps DEF Environment
<1>2. CASE WatcherStep
  BY <1>2, WatcherStepKeeps
<1>3. CASE Script
  BY <1>3, EnableKeeps, DisableKeeps, ShutdownKeeps, ShowKeeps, RequireKeeps, UnloadKeeps,
     ReloadKeeps, SwitchKeeps DEF Script
<1>4. CASE UpdateBegins
  BY <1>4, UpdateBeginsKeeps
<1>5. CASE Reloading
  BY <1>5, UpdateEndsKeeps, ProcessKeeps, SignsKeeps, StageKeeps, ClosedKeeps DEF Reloading
<1>6. CASE UNCHANGED vars
  <2>1. /\ UNCHANGED <<file, loaded, active, sig, stale, m_pending, module, pc>>
        /\ UNCHANGED watcherVars
    BY <1>6 DEF vars, diskVars, luaVars, moduleVars, engineVars
  <2>2. WatcherInv' /\ InFlight' = InFlight
    BY <2>1, OpeningKeeps DEF HotInv
  <2> QED BY <2>1, <2>2 DEF HotInv, Types, Place, Settled, Current, Signed, Staging, AtRest
<1> QED BY <1>1, <1>2, <1>3, <1>4, <1>5, <1>6 DEF Next

\* Whatever the order of writes, records, frames, reloads and calls of scripts,
\* and for any capacity of the watcher: a loaded module of which no change is on
\* its way runs what is in its file, unless staging rejected it or a change was
\* lost in one of the ways the module names.
THEOREM HotReloadStaysCurrent == Spec => []RestsMeansCurrent
<1>1. HotInv => RestsMeansCurrent
  <2> SUFFICES ASSUME HotInv, NEW m \in loaded
               PROVE  AtRest(m) /\ ~stale[m] => active[m] = file[m] \/ file[m] \in Bad \cup {Absent}
    BY DEF RestsMeansCurrent
  <2>1. m \in Modules
    BY DEF HotInv, Types
  <2> QED BY <2>1 DEF HotInv, Settled, Current
<1> QED BY <1>1, HotInit, HotStep, PTL DEF Spec

-----------------------------------------------------------------------------
(* Turning hot reload off *)

\* A worker that does not listen has nothing in its hands; what it reported
\* before it ended is forgotten when the watcher is destroyed.
DeafInv ==
  /\ wpc \in {"none", "start", "ended"} => recorded = <<>> /\ ~overflown /\ buffer = <<>>
  /\ wpc = "none" => m_notify = <<>>

\* Only hot reload that is on, or is being turned off, has a watcher; what an
\* update began, a reload of its own included, ends before a script can turn it off.
OffInv ==
  /\ wpc # "none" => hasRoot
  /\ hasRoot => m_enabled \/ pc = "closing"
  /\ pc = "closing" => ~m_enabled /\ m_exit
  /\ pc = "update" \/ auto => m_enabled
  /\ auto => pc \in {"sign", "stage"}
  /\ ~m_enabled => \A m \in Modules : m_pending[m] = "none"

SwitchInv == DeafInv /\ OffInv

\* Hot reload that is off is off altogether: no thread watches, no change is
\* recorded, reported or pending, and nothing is reloaded but for a script.
OffIsOff ==
  ~m_enabled /\ pc # "closing"
    => /\ wpc = "none" /\ ~overflown /\ InFlight = {}
       /\ \A m \in Modules : m_pending[m] = "none"
       /\ pc # "update" /\ ~auto

\* Turning it off never waits for a watcher's thread that was not told to leave.
ClosingIsTold == pc = "closing" => m_exit

LEMMA OpeningKeepsSwitch ==
  ASSUME DeafInv, OffInv, openWatchRoot \/ UNCHANGED <<watcherVars, hasRoot>>, m_enabled'
  PROVE  /\ DeafInv' /\ (wpc' # "none" => hasRoot')
         /\ m_exit' = m_exit \/ wpc = "none"
<1>1. CASE UNCHANGED <<watcherVars, hasRoot>>
  BY <1>1 DEF watcherVars, DeafInv, OffInv
<1>2. CASE open /\ hasRoot'
  BY <1>2 DEF open, DeafInv
<1> QED BY <1>1, <1>2 DEF openWatchRoot

LEMMA WatcherKeepsSwitch ==
  ASSUME DeafInv, Complete \/ WatcherWorker
  PROVE  DeafInv' /\ m_exit' = m_exit /\ wpc # "none" /\ wpc' # "none"
<1>1. CASE Complete
  BY <1>1 DEF Complete, DeafInv
<1>2. ASSUME WorkerEnds PROVE DeafInv' /\ m_exit' = m_exit /\ wpc' # "none"
  BY <1>2 DEF WorkerEnds, DeafInv
<1>3. CASE ReadDirectoryChanges
  BY <1>2, <1>3 DEF ReadDirectoryChanges, DeafInv
<1>4. CASE WaitForEvents
  BY <1>2, <1>4 DEF WaitForEvents, DeafInv
<1>5. CASE Decode
  BY <1>5 DEF Decode, DeafInv
<1> QED BY <1>1, <1>3, <1>4, <1>5 DEF WatcherWorker

LEMMA SwitchInit == Init => SwitchInv
BY DEF Init, WatcherInit, SwitchInv, DeafInv, OffInv

LEMMA EnvironmentKeepsSwitch == ASSUME HotInv, SwitchInv, Environment PROVE SwitchInv'
<1>1. CASE \E name \in Names \ Modules : Touch(name)
  <2>1. /\ UNCHANGED <<wpc, m_exit, buffer, m_notify, hasRoot, m_enabled, pc, auto, m_pending>>
        /\ wpc \in {"none", "start", "ended"} => recorded' = recorded /\ overflown' = overflown
    BY <1>1 DEF Touch, Changed, IsListening, SwitchInv, DeafInv, engineVars
  <2> QED BY <2>1 DEF SwitchInv, DeafInv, OffInv
<1>2. CASE \E m \in Modules : \E c \in Good \cup Bad \cup {Absent} : Write(m, c)
  <2>1. /\ UNCHANGED <<wpc, m_exit, buffer, m_notify, hasRoot, m_enabled, pc, auto, m_pending>>
        /\ wpc \in {"none", "start", "ended"} => recorded' = recorded /\ overflown' = overflown
    BY <1>2 DEF Write, Changed, IsListening, SwitchInv, DeafInv, engineVars
  <2> QED BY <2>1 DEF SwitchInv, DeafInv, OffInv
<1>3. CASE \E m \in Modules : Rest(m)
  <2>1. PICK m \in Modules : Rest(m)
    BY <1>3
  <2>2. m_enabled
    BY <2>1 DEF Rest, SwitchInv, OffInv
  <2>3. UNCHANGED watcherVars /\ UNCHANGED <<hasRoot, m_enabled, pc, auto>>
    BY <2>1 DEF Rest, engineVars
  <2> QED BY <2>2, <2>3 DEF watcherVars, SwitchInv, DeafInv, OffInv
<1> QED BY <1>1, <1>2, <1>3 DEF Environment

LEMMA ScriptKeepsSwitch == ASSUME HotInv, SwitchInv, Script PROVE SwitchInv'
<1>0. pc = "idle" /\ ~auto
  <2>1. pc = "idle"
    BY DEF Script, Enable, Disable, shutdown, showWindow, Require, Unload, ReloadLuaModule,
           setModuleEnabled
  <2> QED BY <2>1 DEF SwitchInv, OffInv
<1>1. CASE Enable
  <2>1. UNCHANGED <<pc, auto, m_pending>> /\ m_enabled'
        /\ (openWatchRoot \/ UNCHANGED <<watcherVars, hasRoot>>)
    BY <1>1 DEF Enable, engineVars
  <2> QED BY <1>0, <2>1, OpeningKeepsSwitch DEF SwitchInv, OffInv
<1>2. CASE Disable \/ shutdown
  <2>1. /\ ~m_enabled' /\ SetExit /\ pc' = "closing" /\ UNCHANGED <<hasRoot, auto>>
        /\ m_pending' = [m \in Modules |-> "none"]
    BY <1>2 DEF Disable, shutdown
  <2>2. DeafInv'
    BY <2>1 DEF SetExit, SwitchInv, DeafInv
  <2>3. wpc' = wpc /\ m_exit'
    BY <2>1 DEF SetExit
  <2> QED BY <1>0, <2>1, <2>2, <2>3 DEF SwitchInv, OffInv
<1>3. CASE showWindow \/ \E m \in Modules : ReloadLuaModule(m)
  <2>1. /\ UNCHANGED <<m_enabled, m_pending>> /\ pc' \in {"idle", "sign"} /\ ~auto'
        /\ (NeedsRoot /\ openWatchRoot) \/ UNCHANGED <<watcherVars, hasRoot>>
    BY <1>0, <1>3 DEF showWindow, ReloadLuaModule, engineVars
  <2>2. CASE m_enabled
    BY <2>1, <2>2, OpeningKeepsSwitch DEF SwitchInv, OffInv
  <2>3. CASE ~m_enabled
    <3>1. UNCHANGED <<watcherVars, hasRoot>>
      BY <2>1, <2>3 DEF NeedsRoot
    <3> QED BY <1>0, <2>1, <2>3, <3>1 DEF watcherVars, SwitchInv, DeafInv, OffInv
  <2> QED BY <2>2, <2>3
<1>4. CASE \E m \in Modules : \/ Require(m) \/ Unload(m)
                              \/ \E on \in BOOLEAN : setModuleEnabled(m, on)
  <2>1. UNCHANGED watcherVars /\ UNCHANGED <<m_enabled, hasRoot, m_pending, pc, auto>>
    BY <1>4 DEF Require, Unload, setModuleEnabled, engineVars
  <2> QED BY <2>1 DEF watcherVars, SwitchInv, DeafInv, OffInv
<1> QED BY <1>1, <1>2, <1>3, <1>4 DEF Script

LEMMA UpdateKeepsSwitch == ASSUME HotInv, SwitchInv, UpdateBegins PROVE SwitchInv'
<1>1. /\ m_enabled /\ m_enabled' /\ pc' = "update" /\ auto' = auto /\ pc = "idle"
      /\ \/ openWatchRoot
         \/ m_notify' = <<>> /\ UNCHANGED <<recorded, overflown, m_exit, buffer, wpc, hasRoot>>
  BY DEF UpdateBegins
<1>2. CASE openWatchRoot
  BY <1>1, <1>2, OpeningKeepsSwitch DEF SwitchInv, OffInv
<1>3. CASE m_notify' = <<>> /\ UNCHANGED <<recorded, overflown, m_exit, buffer, wpc, hasRoot>>
  BY <1>1, <1>3 DEF SwitchInv, DeafInv, OffInv
<1> QED BY <1>1, <1>2, <1>3

LEMMA ReloadingKeepsSwitch == ASSUME HotInv, SwitchInv, Reloading PROVE SwitchInv'
<1>1. CASE UpdateEnds
  BY <1>1 DEF UpdateEnds, watcherVars, SwitchInv, DeafInv, OffInv
<1>2. CASE \E m \in Modules : processChange(m)
  <2>1. PICK m \in Modules : processChange(m)
    BY <1>2
  <2>2. /\ UNCHANGED watcherVars /\ UNCHANGED <<m_enabled, hasRoot>> /\ pc = "update"
        /\ UNCHANGED <<pc, auto>> \/ pc' = "sign"
    BY <2>1 DEF processChange, SourceMissing, SourceRead, ReloadNext
  <2>3. m_enabled
    BY <2>2 DEF SwitchInv, OffInv
  <2> QED BY <2>2, <2>3 DEF watcherVars, SwitchInv, DeafInv, OffInv
<1>3. CASE ReloadSigns
  BY <1>3 DEF ReloadSigns, watcherVars, SwitchInv, DeafInv, OffInv
<1>4. CASE stageAndCommit
  <2>1. /\ UNCHANGED watcherVars /\ UNCHANGED <<m_enabled, hasRoot, m_pending>>
        /\ pc = "stage" /\ ~auto' /\ pc' = IF auto THEN "update" ELSE "idle"
    BY <1>4 DEF stageAndCommit
  <2> QED BY <2>1 DEF watcherVars, SwitchInv, DeafInv, OffInv
<1>5. CASE Closed
  <2>1. /\ wpc \in {"ended", "none"} /\ wpc' = "none" /\ m_notify' = <<>>
        /\ UNCHANGED <<recorded, overflown, buffer, m_enabled, m_pending, auto>>
        /\ pc = "closing" /\ pc' = "idle" /\ ~hasRoot'
    BY <1>5 DEF Closed, Joined
  <2> QED BY <2>1 DEF SwitchInv, DeafInv, OffInv
<1> QED BY <1>1, <1>2, <1>3, <1>4, <1>5 DEF Reloading

LEMMA SwitchStep == ASSUME HotInv, SwitchInv, [Next]_vars PROVE SwitchInv'
<1>1. CASE WatcherStep
  <2>1. UNCHANGED <<m_enabled, hasRoot, m_pending, pc, auto>> /\ (Complete \/ WatcherWorker)
    BY <1>1 DEF WatcherStep, engineVars
  <2>2. DeafInv' /\ m_exit' = m_exit /\ wpc # "none" /\ wpc' # "none"
    BY <2>1, WatcherKeepsSwitch DEF SwitchInv
  <2> QED BY <2>1, <2>2 DEF SwitchInv, OffInv
<1>2. CASE UNCHANGED vars
  BY <1>2 DEF vars, watcherVars, engineVars, SwitchInv, DeafInv, OffInv
<1> QED BY <1>1, <1>2, EnvironmentKeepsSwitch, ScriptKeepsSwitch, UpdateKeepsSwitch,
           ReloadingKeepsSwitch DEF Next

LEMMA SwitchAlways == Spec => []SwitchInv
BY HotInit, HotStep, SwitchInit, SwitchStep, PTL DEF Spec

\* Whenever a script turns hot reload off, and whatever the watcher's thread, an
\* update or a reload was doing before: once the call has returned nothing of it
\* is left.
THEOREM HotReloadOffIsOff == Spec => []OffIsOff
<1>1. SwitchInv => OffIsOff
  BY EmptyHasNone DEF SwitchInv, DeafInv, OffInv, OffIsOff, InFlight
<1> QED BY <1>1, SwitchAlways, PTL

\* The call that turns hot reload off waits only for a thread that finds the
\* exit event set: its return, checked as a liveness property, rests on this.
THEOREM HotReloadClosingIsTold == Spec => []ClosingIsTold
<1>1. SwitchInv => ClosingIsTold
  BY DEF SwitchInv, OffInv, ClosingIsTold
<1> QED BY <1>1, SwitchAlways, PTL
=============================================================================
