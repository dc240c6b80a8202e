------------------------ MODULE ConfigReload_proofs ------------------------
(***************************************************************************)
(* Proofs about ConfigReload, for every set of classes and contents of the *)
(* ConfigMap and any number of edits, removals included.                   *)
(***************************************************************************)
EXTENDS ConfigReload, TLAPS

\* A process that has not loaded its configuration runs no sync loop.
LoopInv == TypeOK /\ (main # "up" => loop = "none")

\* LoadProvisionerConfigs lays files over a configuration and keeps its type.
LEMMA MergedType ==
  ASSUME TypeOK, NEW c \in Configuration
  PROVE  /\ Merged(c) \in Configuration
         /\ Follow(c) \in Configuration
  BY DEF TypeOK, Merged, Follow, File, Configuration

\* The end of the process leaves nothing of it.
LEMMA DieInv ==
  ASSUME LoopInv, Die
  PROVE  LoopInv'
<1>1. NoConfig \in Configuration
  BY DEF NoConfig, Configuration
<1> QED
  BY <1>1 DEF LoopInv, TypeOK, Die

\* main and the ConfigWatcher.
LEMMA LoadingInv ==
  ASSUME LoopInv, (\E f \in Files : Edit(f)) \/ Main \/ Watcher
  PROVE  LoopInv'
<1> USE DEF LoopInv
<1>1. CASE \E f \in Files : Edit(f)
  BY <1>1, ReloadAssumption
  DEF TypeOK, Edit, watcherVars, managerVars, loopVars
<1>2. CASE MainReads
  BY <1>2 DEF TypeOK, MainReads, watcherVars, managerVars, loopVars
<1>3. CASE MainFails \/ WatcherFails
  BY <1>3, DieInv DEF MainFails, WatcherFails
<1>4. CASE MainStarts
  <2>1. Merged(NoConfig) \in Configuration
    BY MergedType DEF NoConfig, Configuration
  <2> QED
    BY <1>4, <2>1 DEF TypeOK, MainStarts, managerVars
<1>5. CASE WatcherReads
  BY <1>5 DEF TypeOK, WatcherReads, managerVars, loopVars
<1>6. CASE WatcherLoads
  <2>1. /\ Merged(loaded) \in Configuration
        /\ Follow(lastApplied) \in Configuration /\ Follow(update) \in Configuration
    BY MergedType DEF TypeOK
  <2>2. Follow(applied) \in Configuration
    BY MergedType DEF TypeOK
  <2>3. applied' \in Configuration
    BY <1>6, <2>2 DEF WatcherLoads, TypeOK
  <2> QED
    BY <1>6, <2>1, <2>3 DEF TypeOK, WatcherLoads
<1> QED
  BY <1>1, <1>2, <1>3, <1>4, <1>5, <1>6 DEF Main, Watcher

\* RunLocalController and the sync loop.
LEMMA RunningInv ==
  ASSUME LoopInv, ManagerReceives \/ Loop
  PROVE  LoopInv'
<1> USE DEF LoopInv
<1>1. CASE ManagerReceives
  BY <1>1 DEF TypeOK, ManagerReceives, loopVars
<1>2. CASE LoopStops
  BY <1>2 DEF TypeOK, LoopStops, watcherVars
<1>3. CASE LoopStarts
  BY <1>3 DEF TypeOK, LoopStarts, watcherVars, managerVars
<1>4. CASE LoopPanics
  BY <1>4, DieInv DEF LoopPanics
<1>5. CASE LoopBeginsPass
  BY <1>5 DEF TypeOK, LoopBeginsPass, watcherVars, managerVars
<1>6. ASSUME NEW ok \in BOOLEAN, NEW accepted \in BOOLEAN, LoopEndsPass(ok, accepted)
      PROVE  LoopInv'
  <2>1. taint' \in BOOLEAN /\ taintRemoved' \in BOOLEAN
    BY <1>6 DEF TypeOK, LoopEndsPass, RemoveTaintWithBackoff
  <2> QED
    BY <1>6, <2>1 DEF TypeOK, LoopEndsPass, watcherVars, managerVars
<1> QED
  BY <1>1, <1>2, <1>3, <1>4, <1>5, <1>6 DEF Loop

\* The configuration that is loaded, sent and applied always has its type, and
\* a sync loop runs only in a process that is up.
THEOREM LoopInvariant == Spec => []LoopInv
<1>1. Init => LoopInv
  <2> SUFFICES ASSUME Init PROVE LoopInv
    OBVIOUS
  <2>1. NoConfig \in Configuration
    BY DEF NoConfig, Configuration
  <2>2. file \in File /\ read \in File /\ edits \in 0..MaxEdits
    BY ReloadAssumption DEF Init
  <2>3. {shared, handler, ready, taintRemoved, taint} \subseteq BOOLEAN
    BY DEF Init
  <2> QED
    BY <2>1, <2>2, <2>3 DEF Init, LoopInv, TypeOK
<1>2. LoopInv /\ UNCHANGED vars => LoopInv'
  BY DEF LoopInv, TypeOK, vars, watcherVars, managerVars, loopVars
<1>3. LoopInv /\ [Next]_vars => LoopInv'
  BY <1>2, LoadingInv, RunningInv DEF Next
<1> QED
  BY <1>1, <1>3, PTL DEF Spec

\* Who has the map that the ConfigWatcher loads into: nobody else before the
\* first change is sent, then the manager, then the sync loop that is started
\* for the second time.
HandoverInv ==
    /\ main # "up" => watcher = "sleep" /\ manager = "wait" /\ ~shared
    /\ manager = "stop" => shared
    /\ loop \in {"idle", "pass"} => handler
    /\ shared /\ manager = "wait" => loop = "setup" /\ handler
    /\ LastAppliedIsApplied

\* main and the ConfigWatcher keep it; a load changes all that share the map.
LEMMA LoadingHandover ==
  ASSUME LoopInv, HandoverInv, (\E f \in Files : Edit(f)) \/ Main \/ Watcher
  PROVE  HandoverInv'
<1> USE DEF HandoverInv, LastAppliedIsApplied
<1>1. CASE \E f \in Files : Edit(f)
  BY <1>1 DEF Edit, watcherVars, managerVars, loopVars
<1>2. CASE MainReads
  BY <1>2 DEF MainReads, watcherVars, managerVars, loopVars
<1>3. CASE MainFails \/ WatcherFails
  BY <1>3 DEF MainFails, WatcherFails, Die
<1>4. CASE MainStarts
  BY <1>4 DEF MainStarts, managerVars, LoopInv
<1>5. CASE WatcherReads
  BY <1>5 DEF WatcherReads, managerVars, loopVars
<1>6. CASE WatcherLoads
  <2>1. CASE ~shared
    BY <1>6, <2>1 DEF WatcherLoads, Follow, LoopInv, TypeOK
  <2>2. CASE shared
    BY <1>6, <2>2 DEF WatcherLoads, LoopInv, TypeOK
  <2> QED
    BY <2>1, <2>2
<1> QED
  BY <1>1, <1>2, <1>3, <1>4, <1>5, <1>6 DEF Main, Watcher

\* RunLocalController and the sync loop keep it.
LEMMA RunningHandover ==
  ASSUME LoopInv, HandoverInv, ManagerReceives \/ Loop
  PROVE  HandoverInv'
<1> USE DEF HandoverInv, LastAppliedIsApplied
<1>1. CASE ManagerReceives
  BY <1>1 DEF ManagerReceives, loopVars
<1>2. CASE LoopStops
  BY <1>2 DEF LoopStops, watcherVars
<1>3. CASE LoopStarts
  BY <1>3 DEF LoopStarts, watcherVars, managerVars
<1>4. CASE LoopPanics
  BY <1>4 DEF LoopPanics, Die
<1>5. CASE LoopBeginsPass
  BY <1>5 DEF LoopBeginsPass, watcherVars, managerVars
<1>6. ASSUME NEW ok \in BOOLEAN, NEW accepted \in BOOLEAN, LoopEndsPass(ok, accepted)
      PROVE  HandoverInv'
  BY <1>6 DEF LoopEndsPass, watcherVars, managerVars
<1> QED
  BY <1>1, <1>2, <1>3, <1>4, <1>5, <1>6 DEF Loop

\* What the ConfigWatcher compares with is what the sync loop works with, or
\* will work with once it has been stopped, for any edits and removals and
\* although the watcher goes on loading into a map it has handed over.
THEOREM LastAppliedIsTrue == Spec => []LastAppliedIsApplied
<1>1. Init => HandoverInv
  BY DEF Init, HandoverInv, LastAppliedIsApplied
<1>2. HandoverInv /\ UNCHANGED vars => HandoverInv'
  BY DEF HandoverInv, LastAppliedIsApplied, vars, watcherVars, managerVars, loopVars
<1>3. LoopInv /\ HandoverInv /\ [Next]_vars => HandoverInv'
  BY <1>2, LoadingHandover, RunningHandover DEF Next
<1>4. HandoverInv => LastAppliedIsApplied
  BY DEF HandoverInv
<1> QED
  BY <1>1, <1>3, <1>4, LoopInvariant, PTL DEF Spec

\* No change of the ConfigMap to contents that can be loaded ends a pass of
\* the sync loop before its time: RunLocalController waits for its end.
THEOREM PassesAreCompleted == Spec => PassesComplete
<1> DEFINE Kept == loop = "pass" /\ loop' # "pass" => loop' = "idle" \/ ~read.valid
<1>1. LoopInv /\ [Next]_vars => [Kept]_vars
  <2> SUFFICES ASSUME LoopInv, Next, loop = "pass", loop' # "pass"
               PROVE  loop' = "idle" \/ ~read.valid
    OBVIOUS
  <2>1. main = "up"
    BY DEF LoopInv
  <2>2. CASE (\E f \in Files : Edit(f)) \/ MainReads \/ MainFails \/ MainStarts
    BY <2>1, <2>2 DEF Edit, MainReads, MainFails, MainStarts, loopVars
  <2>3. CASE Watcher \/ ManagerReceives
    BY <2>3 DEF Watcher, WatcherReads, WatcherFails, WatcherLoads, ManagerReceives, loopVars
  <2>4. CASE Loop
    BY <2>4 DEF Loop, LoopStops, LoopStarts, LoopPanics, LoopBeginsPass, LoopEndsPass
  <2> QED
    BY <2>2, <2>3, <2>4 DEF Next, Main
<1> QED
  BY <1>1, LoopInvariant, PTL DEF Spec, PassesComplete
=============================================================================
