----------------------------- MODULE ConfigReload -----------------------------
(***************************************************************************)
(* How the provisioner comes by its configuration: main loads the files of *)
(* the mounted ConfigMap and starts two goroutines, the ConfigWatcher      *)
(* (pkg/watcher), which loads them again and again and sends what it finds *)
(* changed, and RunLocalController (pkg/controller), which answers by      *)
(* stopping the sync loop and starting it anew.  The end of a pass of the  *)
(* loop is where readiness is decided and the node's taint is taken care   *)
(* of (pkg/discovery, pkg/node-taint).  What a pass does to volumes is     *)
(* module Provisioner's subject; to it a reload is a Crash and a Start.    *)
(***************************************************************************)
EXTENDS Integers

CONSTANTS
    Classes,      \* storage classes
    Files,        \* contents the ConfigMap may be given, a subset of File
    Removals,     \* whether an edit may remove what the ConfigMap says
    RemoveTaint,  \* removeNodeNotReadyTaint
    MaxEdits      \* bound: edits of the ConfigMap

\* A key of the ConfigMap is a file of its own: storageClassMap and, standing
\* for the other keys, useJobForCleaning, which may be left out.
File == [classes : SUBSET Classes, useJob : {"unset", "true", "false"}, valid : BOOLEAN]

\* ProvisionerConfiguration.
Configuration == [classes : SUBSET Classes, useJob : BOOLEAN]
NoConfig == [classes |-> {}, useJob |-> FALSE]

ASSUME ReloadAssumption ==
    /\ Files \subseteq File
    /\ \E f \in Files : f.valid
    /\ Removals \in BOOLEAN /\ RemoveTaint \in BOOLEAN
    /\ MaxEdits \in Nat

VARIABLES
    file,         \* the ConfigMap as it is mounted
    edits,        \* edits made so far
    main,         \* the process: not running, loading its configuration, up
    read,         \* the storageClassMap file as a load in progress read it
    watcher,      \* ConfigWatcher: waiting, in the middle of a load, sending
    loaded,       \* ConfigWatcher: provisionerConfig, reused by every load
    lastApplied,  \* ConfigWatcher: lastAppliedConfig
    shared,       \* lastAppliedConfig and provisionerConfig hold the same map
    manager,      \* RunLocalController: waiting, or in s.stop()
    update,       \* RunLocalController: newConfig
    loop,         \* StartLocalController: setting up, between passes, in a pass
    applied,      \* the configuration the loop was started with
    handler,      \* "/ready" is registered with http.DefaultServeMux
    ready,        \* Readyz.ready of the loop's discoverer
    taintRemoved, \* of the loop's Remover
    taint         \* the node has the not-ready taint

watcherVars == <<watcher, loaded, lastApplied, shared>>
managerVars == <<manager, update>>
loopVars == <<loop, applied, handler, ready, taintRemoved>>
vars == <<file, edits, main, read, watcherVars, managerVars, loopVars, taint>>

TypeOK ==
    /\ file \in File /\ read \in File /\ edits \in 0..MaxEdits
    /\ main \in {"down", "loading", "up"}
    /\ watcher \in {"sleep", "load", "send"}
    /\ loaded \in Configuration /\ lastApplied \in Configuration
    /\ manager \in {"wait", "stop"} /\ update \in Configuration
    /\ loop \in {"none", "setup", "idle", "pass"} /\ applied \in Configuration
    /\ {shared, handler, ready, taintRemoved, taint} \subseteq BOOLEAN

Init ==
    /\ file \in {f \in Files : f.valid} /\ read = file /\ edits = 0
    /\ main = "down" /\ watcher = "sleep" /\ manager = "wait" /\ loop = "none"
    /\ loaded = NoConfig /\ lastApplied = NoConfig /\ update = NoConfig /\ applied = NoConfig
    /\ shared = FALSE /\ handler = FALSE /\ ready = FALSE /\ taintRemoved = FALSE
    /\ taint \in BOOLEAN

-----------------------------------------------------------------------------
(* LoadProvisionerConfigs.  It reads one file after the other, so an edit  *)
(* may come between two of them, and unmarshals what it read over what the *)
(* configuration already says: yaml.Unmarshal adds to an existing map and  *)
(* leaves alone what the files do not mention.                             *)

Merged(c) ==
    [classes |-> c.classes \cup read.classes,
     useJob  |-> IF file.useJob = "unset" THEN c.useJob ELSE file.useJob = "true"]

\* What an empty configuration becomes when the files are loaded at rest.
Meaning(f) == [classes |-> f.classes, useJob |-> f.useJob = "true"]

-----------------------------------------------------------------------------
Edit(f) ==
    /\ edits < MaxEdits /\ f # file
    /\ ~Removals =>
           file.classes \subseteq f.classes /\ (f.useJob = "unset" => file.useJob = "unset")
    /\ file' = f
    /\ edits' = edits + 1
    /\ UNCHANGED <<main, read, watcherVars, managerVars, loopVars, taint>>

\* The process ends, with all its goroutines.
Die ==
    /\ main' = "down" /\ watcher' = "sleep" /\ manager' = "wait" /\ loop' = "none"
    /\ loaded' = NoConfig /\ lastApplied' = NoConfig /\ update' = NoConfig
    /\ applied' = NoConfig /\ shared' = FALSE /\ handler' = FALSE /\ ready' = FALSE
    /\ taintRemoved' = FALSE
    /\ UNCHANGED <<file, edits, read, taint>>

\* The kubelet starts the container and main begins to load.
MainReads ==
    /\ main = "down"
    /\ main' = "loading"
    /\ read' = file
    /\ UNCHANGED <<file, edits, watcherVars, managerVars, loopVars, taint>>

MainFails == main = "loading" /\ ~read.valid /\ Die

MainStarts ==
    /\ main = "loading" /\ read.valid
    /\ main' = "up" /\ loop' = "setup"
    /\ applied' = Merged(NoConfig) /\ lastApplied' = Merged(NoConfig)
    /\ UNCHANGED <<file, edits, read, watcher, loaded, shared, managerVars, handler, ready,
                   taintRemoved, taint>>

-----------------------------------------------------------------------------
(* ConfigWatcher.Run.                                                      *)

WatcherReads ==
    /\ main = "up" /\ watcher = "sleep"
    /\ watcher' = "load"
    /\ read' = file
    /\ UNCHANGED <<file, edits, main, loaded, lastApplied, shared, managerVars, loopVars, taint>>

WatcherFails == main = "up" /\ watcher = "load" /\ ~read.valid /\ Die

\* A configuration that shares its map with provisionerConfig changes with it.
Follow(c) == IF shared THEN [c EXCEPT !.classes = @ \cup read.classes] ELSE c

\* Mutant: only the classes are compared.
Differs_ClassesOnly(c, d) == c.classes # d.classes

\* reflect.DeepEqual says no.
Differs(c, d) == c # d

\* Mutant: a change is noted as applied when it is found, not when it is sent.
WatcherLoads_NotesEarly ==
    /\ main = "up" /\ watcher = "load" /\ read.valid
    /\ loaded' = Merged(loaded) /\ lastApplied' = loaded'
    /\ watcher' = IF Differs(lastApplied, loaded') THEN "send" ELSE "sleep"
    /\ UNCHANGED <<file, edits, main, read, shared, managerVars, loopVars, taint>>

\* A sync loop that is started for the second time has the map too.
WatcherLoads ==
    /\ main = "up" /\ watcher = "load" /\ read.valid
    /\ loaded' = Merged(loaded)
    /\ lastApplied' = Follow(lastApplied)
    /\ update' = Follow(update)
    /\ applied' = IF loop = "setup" /\ handler THEN Follow(applied) ELSE applied
    /\ watcher' = IF Differs(lastApplied', loaded') THEN "send" ELSE "sleep"
    /\ UNCHANGED <<file, edits, main, read, shared, manager, loop, handler, ready, taintRemoved,
                   taint>>

-----------------------------------------------------------------------------
(* RunLocalController.                                                     *)

\* Mutant: the new loop is started before the old one has stopped.
ManagerReceives_NoStop == watcher = "send" /\ manager = "wait" /\ Die

\* The unbuffered channel hands the configuration over; the manager enters
\* s.stop(), and the watcher notes what it sent, map included.
ManagerReceives ==
    /\ watcher = "send" /\ manager = "wait"
    /\ manager' = "stop" /\ update' = loaded
    /\ watcher' = "sleep" /\ lastApplied' = loaded /\ shared' = TRUE
    /\ UNCHANGED <<file, edits, main, read, loaded, loopVars, taint>>

\* Between two passes the loop hears of s.stop(), stops its informers and
\* answers; the manager starts a new loop.
LoopStops ==
    /\ loop = "idle" /\ manager = "stop"
    /\ manager' = "wait"
    /\ loop' = "setup" /\ applied' = update
    /\ UNCHANGED <<file, edits, main, read, watcherVars, update, handler, ready, taintRemoved,
                   taint>>

-----------------------------------------------------------------------------
(* StartLocalController.                                                   *)

LoopStarts ==
    /\ loop = "setup" /\ ~handler
    /\ handler' = TRUE
    /\ loop' = "idle" /\ ready' = FALSE /\ taintRemoved' = FALSE
    /\ UNCHANGED <<file, edits, main, read, watcherVars, managerVars, applied, taint>>

\* DefaultServeMux panics when a pattern is registered a second time.
LoopPanics == loop = "setup" /\ handler /\ Die

LoopBeginsPass ==
    /\ loop = "idle" /\ manager = "wait"
    /\ loop' = "pass"
    /\ UNCHANGED <<file, edits, main, read, watcherVars, managerVars, applied, handler, ready,
                   taintRemoved, taint>>

ShouldRemoveTaint == ~taintRemoved /\ RemoveTaint

\* RemoveTaintWithBackoff; the update of the node may fail three times.
RemoveTaintWithBackoff(accepted) ==
    IF ShouldRemoveTaint /\ taint /\ accepted
    THEN taint' = FALSE /\ taintRemoved' = TRUE
    ELSE UNCHANGED <<taint, taintRemoved>>

\* DiscoverLocalVolumes ends; ok says that no class had an error.
LoopEndsPass(ok, accepted) ==
    /\ loop = "pass"
    /\ loop' = "idle"
    /\ ready' = ok
    /\ IF ~ShouldRemoveTaint /\ ok THEN RemoveTaintWithBackoff(accepted)
       ELSE UNCHANGED <<taint, taintRemoved>>
    /\ UNCHANGED <<file, edits, main, read, watcherVars, managerVars, applied, handler>>

-----------------------------------------------------------------------------
Main == MainReads \/ MainFails \/ MainStarts
Watcher == WatcherReads \/ WatcherFails \/ WatcherLoads
Loop ==
    \/ LoopStops \/ LoopStarts \/ LoopPanics \/ LoopBeginsPass
    \/ \E ok, accepted \in BOOLEAN : LoopEndsPass(ok, accepted)

Next == (\E f \in Files : Edit(f)) \/ Main \/ Watcher \/ ManagerReceives \/ Loop

Spec == Init /\ [][Next]_vars

(***************************************************************************)
(* Fairness.  The kubelet restarts the container, no goroutine stops for   *)
(* good (WF), and discovery and the API server do not fail for ever (SF).  *)
(***************************************************************************)
Fairness ==
    /\ WF_vars(Main) /\ WF_vars(Watcher) /\ WF_vars(ManagerReceives) /\ WF_vars(Loop)
    /\ SF_vars(LoopEndsPass(TRUE, TRUE))

FairSpec == Spec /\ Fairness

-----------------------------------------------------------------------------
(* Properties.                                                             *)

\* What the ConfigMap says in the end is what the sync loop works with in
\* the end: "If a difference between the configs is detected, it will signal
\* to the sync loop to restart."
ConfigTakesEffect ==
    <>[](file.valid => main = "up" /\ applied = Meaning(file))

\* What ConfigWatcher compares with, lastAppliedConfig, is the configuration
\* the sync loop was started with or, while RunLocalController stops the loop,
\* the one it will start the next with, although the watcher goes on loading
\* into a map that all of them may share: no change is taken for applied that
\* was never handed over, and none that was handed over is sent again.
LastAppliedIsApplied ==
    main = "up" => lastApplied = (IF manager = "stop" THEN update ELSE applied)

\* A change of the ConfigMap never ends a pass of the sync loop before its
\* time: the loop is stopped between passes.  Only a configuration that
\* cannot be loaded ends the process whatever it is doing.
PassesComplete ==
    [][loop = "pass" /\ loop' # "pass" => loop' = "idle" \/ ~read.valid]_vars

\* The process outlives every change to a valid configuration: "Provisioner
\* supports reloading updated ConfigMap without needing to restart the pod."
ReloadsInPlace == [][main = "up" /\ main' # "up" => ~read.valid]_vars

\* The taint that keeps pods off the node is removed once discovery is ready.
TaintIsRemoved == RemoveTaint /\ taint ~> ~taint
=============================================================================
