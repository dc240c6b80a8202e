# A TLA+ model of the local static provisioner

This directory models the concurrent core of
`sig-storage-local-static-provisioner`: the provisioner that offers, cleans and
re-offers the local volumes of a node, what its PV objects say and what becomes
of that, the way it reloads its configuration, the tool that migrates PVs, and
the node-cleanup controller that tidies up after nodes that are gone. TLC checks
the modules on small instances, and TLAPS proves the main safety results for
every value of the constants.

## The system and its parts

| Part | State | Operations | Module |
| --- | --- | --- | --- |
| Process table (`pkg/deleter/proctable.go`) | one entry per PV under a mutex | `MarkRunning`, `markStatus`, `RemoveEntry`, `IsRunning` | `ProcTable` |
| Deleter (`pkg/deleter/deleter.go`) | goroutines that clean, the list of the pass | `DeletePVs`, `deletePV`, `runProcess`, `asyncCleanPV`, `runJob` | `Provisioner` |
| Cleaning (`asyncCleanPV` to `execScript`, `DeleteContents`) | a goroutine, two readers, pipes and a child process | `cleanFilePV`, `cleanBlockPV`, `execScript`, `DeleteContents` | `Cleaner`, `VolumeCleaning` |
| Two provisioners on a node | two of the processes above | | `TwoProvisioners` |
| Job controller (`pkg/deleter/jobcontroller.go`) | Job lister | `IsCleaningJobRunning`, `RemoveJob` | `Provisioner` |
| Cache and populator (`pkg/cache`, `pkg/populator`) | map from PV names to PVs | `handlePVUpdate`, `handlePVDelete`, `LookupPVsByPath` | `Provisioner` |
| Discoverer (`pkg/discovery`) | readiness | `DiscoverLocalVolumes`, `createPV` | `Provisioner`, `ConfigReload`, `VolumeObjects` |
| PV objects (`pkg/common`, `pkg/discovery`) | path, capacity and node affinity; the configuration they came from | `ConfigMapDataToVolumeConfig`, `CreateLocalPVSpec`, `GetContainerPath`, `NewCleanupJob` | `VolumeObjects` |
| `update-pv-to-beta` (`cmd/utils`) | a list of PVs | `startSwitchingLocalPVAlphaAnn`, `updateLocalPVAlphaAnn` | `VolumeObjects` |
| Local controller (`pkg/controller`) | the sync loop, the stop signal | `RunLocalController`, `StartLocalController` | `Provisioner`, `ConfigReload` |
| Config watcher (`pkg/watcher`) | the last applied configuration | `Run` | `ConfigReload` |
| Taint remover (`pkg/node-taint`) | whether the taint was removed | `ShouldRemoveTaint`, `RemoveTaintWithBackoff` | `ConfigReload` |
| Node cleanup controller (`pkg/node-cleanup/controller`) | a delaying queue of PVs | `nodeDeleted`, `syncHandler`, `deletePVC` | `NodeCleanup` |
| Node cleanup deleter (`pkg/node-cleanup/deleter`) | the list of the pass | `DeletePVs`, `deletePV` | `NodeCleanup` |

The parts of the provisioner meet at the API server and at the process table.
The sync loop sees the cluster through two informers, for PVs and for Jobs,
which lag independently. It decides from what they show and acts on what is
really there. In the node-cleanup controller two actors do the same with three
informers.

What makes this hard: decisions on stale views, names that are used again for a
new PV, Job or claim, goroutines that outlive the pass that started them, Jobs
that outlive the process, crashes between two requests that belong together,
and requests that fail. `hazards` in `PROJECT.json` lists these by source line.
A note there says which part of a hazard no passing run covers: mostly a case in
which the property fails, listed under "Further disagreements".

## The modules

**`ProcTable`** gives the operations of the table as functions of its value.

**`VolumeLifecycle`** is the abstract specification, what the users of a volume
are promised: it is offered clean, bound, used, released, wiped and withdrawn,
and not wiped while it is on offer or in use.

**`Provisioner`** is one provisioner process, the API server, the two watches
and the users. An action is a piece of code between two points where others can
interfere: a lock, a read of a shared store or a request. `pc`, `todo` and `cur`
are the place of the sync loop, its list and the volume it works on. A pass is
`ListPVs`, then for each volume `SkipReclaim` or `BeginReclaim`, `TakeStatus`,
and `DeletePV`, `RunProcess` or `RunJob`; then `ListFiles`, and for each file
`SkipFile` or `BeginCreate`, `ForgetStatus`, `CreatePV`; then `EndPass`. Beside
it run `CleanSucceeds` and `CleanFails` (the goroutines), `DeliverPVEvent` and
`DeliverJobEvent` (the informers), and the cluster. `Faults` says what may go
wrong in an instance.

A configuration also says how the process calls itself (`nodeNameOnly`, and
the UID of the Node object, which changes when the node is created anew) and
whether it labels its PVs with the host name; `Adopts` is the test by which the
populator finds its own PVs among all.

**`TwoProvisioners`** runs two instances of `Provisioner` over the same PVs,
Jobs and disks. A step of one is a step of `Provisioner`, and the other hears of
what it wrote on its own watches.

**`Cleaner`** opens up what `Provisioner` has as one step, a cleaning that
succeeds or fails. `at` is the place of the goroutine. A file system is emptied
by `ReadDir`, `RemoveAll` for each entry, `Removed`. A block device goes through
`StdoutPipe`, `StderrPipe` (each starts a reader), `Start`, `WgWait` and
`CmdWait`, beside a script that writes, closes its streams and exits, and that
blocks on a full pipe. The sync loop around it is reduced to requests that
succeed.

**`VolumeCleaning`** is the abstract specification of `Cleaner`, what the sync
loop takes a cleaning for: begun for a released volume, one at a time, it
wipes the volume while it runs and reports once, and success is reported only of
a volume that is wiped.

**`VolumeObjects`** is about what PVs say. `Deploy` loads a configuration,
with its defaults and errors; `CreatePV` gives a PV the path, rounded capacity
and affinity of the moment; `DeletePV` maps the path into the container by the
configuration of another moment and wipes what is behind it, in the process or
by a Job; `Mount` and `Unmount` are the administrator. The `Tool...` actions are
`update-pv-to-beta`; `since` says whether a PV it has listed was written to or
deleted, which is what the resource version tells the API server.

**`ConfigReload`** is main, the config watcher, the manager of the sync loop and
the loop itself, of which only the start, the stop and the end of a pass matter.
To `Provisioner` a reload is a `Crash` followed by a `Start`. That is what it
is today, because the second sync loop panics (see the findings). If that is
repaired, the process table and its goroutines survive a reload (main creates
the table), and `Provisioner` needs a reload action of its own.

**`NodeCleanup`** is the node-cleanup process with the cluster around it. The
decision to delete a claim or a PV, and the arrival of the request, are separate
steps (`victim`, `doomed`). Timers count ticks; `goneFor` is the clock a
property needs, and no code reads it.

`MC*.tla` give small values to the constants. `*_proofs.tla` hold the proofs.

### Abstractions

- A disk is clean or dirty, except in `Cleaner`, where it has entries. In
  `Provisioner` a volume's name stands for its file, node and class.
- The hash in a PV's name is taken to be injective. Paths are absolute, clean
  sequences of elements, and the platform is Linux. `NamePrefix` tells which
  elements are string prefixes of others, because `cleanPV` compares characters.
- In `VolumeObjects` a pass and a cleaning are one step each. Pods never run on
  a volume whose disk is not mounted.
- A line of output is short or longer than a `bufio.Scanner` takes. A wiped
  device is one the script has exited from with 0.
- Deleting a PV takes two steps (the request, then the pv-protection finalizer),
  and so does deleting a Job (foreground deletion). A claim is deleted at once;
  its own finalizer is not modelled.
- Discovery's reads for one file are one step. No order of them matters more,
  because a name that is taken makes `CreatePV` fail.
- Informers do not resync, which would only repeat what they delivered.
- A node is known by its host name label, which equals its name. `AnyNodeExists`
  tries both.
- A back-off of the node-cleanup queue lasts up to `Delay` ticks, where the rate
  limiter goes up to 1000 s. A longer one only makes the controller later.
- A script leaves no process behind that keeps its streams open. `execScript`
  would wait for such a process at `wg.Wait`.
- The three attempts to remove a taint are one choice of success or failure.
- Without `watchLag` a pass of the provisioner starts only when all events are
  delivered, and without `slowJobGC` only when deleted Jobs are gone; within a
  pass both may be late all the same. In `NodeCleanup` an informer that is synced
  sees a write at once unless there is `watchLag`.

## What the runs check

Runs that pass:

| Run | Distinct states | Shows |
| --- | --- | --- |
| `process` | 675,070 | Two volumes cleaned in the process, with crashes, restarts with other classes and names or as another Node object, errors and late events: never offered while cleaned (`NoPVWhileCleaning`), clean when offered (`CleanWhenOffered`), the abstract specification implemented, and two invariants of the proofs (`ProcessInv`, `CacheInv`) |
| `edited` | 776,380 | Every fault at once, edits by hand and switches of the cleaning mode included: only a Job that is finished is ever deleted (`OnlyFinishedJobsDeleted`, with the invariant of its proof), the table's rules are kept (`ProcTableProtocol`) and the cache is right once events are handled (`CacheConverges`) |
| `jobs` | 21,236 | Cleaning by Jobs keeps the promises to users, with timely events and garbage collection; `TimelyInv` is the invariant of the proof |
| `recycling` | 7,162 | A released volume is offered again (`Recycled`), in both cleaning modes and across switches between them |
| `cleaner` | 512 | A cleaning recorded as succeeded has wiped the volume (`SucceededMeansWiped`), no script outlives its report (`NoScriptAfterReport`), no output is lost (`OutputIsLogged`), what the sync loop relies on is implemented (`ImplementsCleaning`), every cleaning ends (`CleaningEnds`) and a released volume is wiped at last (`WipedAtLast`), with errors at every call and crashes |
| `volumes` | 13,472 | Across four deployments that differ in `hostDir` and `mountDir`, in the volume mode and the affinity's form: a PV's volume is wiped before it is offered (`OfferedWiped`), and no other (`WipesOwnVolume`); capacities are honest (`CapacityHonest`); each PV has its own class's selector (`OwnSelector`) in one form (`OneAffinity`); the tool's success is true (`SuccessMeansBeta`); `ObjectsInv` and `WipedInv` are the invariants of the proofs |
| `cleanup` | 1,503,336 | A claim that is created again under the same name, and may be bound to the other PV, is never deleted in place of the stranded one (`OnlyTheBoundClaim`), and none before the delay (`WaitsTheDelay`), with late events, restarts, errors and lost answers; `DelayInv` is the invariant of its proof. Nodes do not return |
| `cleanup_fair` | 36,407 | PVs are deleted only for nodes that are gone (`OnlyStalePVs`); a node that returns saves its claims (`SparedIfNodeReturned`); stale PVs and stranded claims are deleted at last, with timely events |
| `reload` | 10,450 | Edits that add or change take effect (`ConfigTakesEffect`), what the watcher compares with is what the loop works with (`LastAppliedIsApplied`), and passes are not cut short (`PassesComplete`) except by a configuration that cannot be loaded |

Runs that end in a violation, each of a statement in a doc or a comment that is
quoted in `PROJECT.json`:

| Run | Shows |
| --- | --- |
| `two_provisioners` | With two provisioners on a node, one starts a Job for a PV the other has just deleted, and the other offers the volume anew while the Job runs. No fault is needed, only events that are late within a pass |
| `reload_in_place` | The second sync loop panics when it registers `/ready` |
| `volumes_unmounted` | A disk that is unmounted before its PV is deleted counts as cleaned, and is offered with its data when it is mounted again |

### Further disagreements

TLC finds these too. They are not kept as runs; each needs only other values of
the constants, given here, with the faults that are not named left out.

| Statement | What the model does | Instance |
| --- | --- | --- |
| The provisioner "will clean up the volume, and recreate the PV" (`docs/provisioner.md:9`) | A Job that lingers after its deletion passes for the cleaning of the next claim | `CleanWhenOffered`, one block volume, `JobConfigs`, `slowJobGC` |
| "so the provisioner can remove a startup node taint once discovery is ready" (`CHANGELOG/CHANGELOG-2.9.md:12`) | Never: the condition at `controller.go:181` is inverted | `TaintIsRemoved`, `FairSpec`, `RemoveTaint = TRUE` |
| The deleter "looks for Local PVs with a NodeAffinity to deleted Nodes" (`docs/node-cleanup-controller.md:40`) | It runs before nodes are listed, and then every node seems deleted | `OnlyStalePVs`, `restart` |
| "Make absolutely sure here that we are not deleting anything outside of mounted dir" (`deleter.go:252`) | The prefix is one of characters: `hostDir` changed from `/data/m12` to `/data/m1` leads from `/mnt/m1` to `/mnt/m12` | `WipesOwnVolume`, `NamePrefix = {<<"m1", "m12">>}` |
| "do not retry here, let users set their Job configuration restart policy" (`update_pv_na_to_beta.go:107`) | A failed List counts as an empty one, and the tool ends with success | PVs of the alpha form remain after `ToolListFails` |
| "we don't accidentally create a new PV when a cleaning job is in progress" (`deleter.go:347`) | PV and Job events that are late let a pass create both | `NoPVWhileCleaning`, one block volume, `JobConfigs`, `watchLag` |
| "Even if a user accidentally deletes the PV, the presence of the cleaning job would prevent the provisioner from attempting to re-create it" (`deleter.go:348`) | Not if the lister does not show the Job yet | the same with `adminDelete` in place of `watchLag` |
| `useJobForCleaning` is "Effective on clean up" (`docs/provisioner.md:158`) | Switched off, it forgets a Job that is running | `NoPVWhileCleaning`, `EitherModeConfigs`, `crash` |
| "Check that the local filePath is not already in use in any other local volume" (`discovery.go:275`) | The cache does not have the PV created a moment before | `NoPVWhileCleaning`, `TwoClasses`, `OnePath`, `TwoClassConfigs` |
| "Duration, in seconds, to wait after Node deletion" (`docs/node-cleanup-controller.md:21`) | The timer of an earlier deletion still runs | `WaitsTheDelay`, one node, `nodeReturns`, `MaxLag = 2` |
| "nil is returned if the PV does not have any specific node affinity" (`volume_util.go:82`) | An empty list is returned, and the PV passes for one of a deleted node | `OnlyStalePVs`, an affinity with a zone expression only |
| "Once a Node is deleted, if there was a PVC associated with that Node, a timer is started" (`node-cleanup/controller/controller.go:46`) | Not if the PV informer shows the binding later | `StrandedClaimDeleted`, `FairSpec`, `watchLag` |
| "If a difference between the configs is detected, it will signal to the sync loop" (`watcher/config.go:31`) | A key or class that is removed stays in the struct every load reuses | `ConfigTakesEffect`, `FairSpec`, `Removals = TRUE` |

Three more come without a statement they contradict. `CleaningEnds` fails with
`longLines`: a line longer than 64 KiB ends the reader, the script blocks on the
full pipe and the volume is being cleaned for ever. With `pipeErrors` a reader of
stdout can be left behind. And when `hostDir` changes while the base name of the
`mountDir` equals that of the old `hostDir`, a volume of the new directory is
wiped for a PV of the old one; `docs/upgrading.md` allows changes of `mountDir` and
`blockCleanerCommand` only.

The node-cleanup deleter also judges a PV by the phase in a list that may be
older than the PV's binding and its node's deletion.

All of these are statements about the model. Each trace was compared with the
source, and none was reproduced on a cluster. How likely they are differs
widely: the panic and the taint need nothing unusual, while the lingering Job
has to take more than a discovery period (10 s by default) to be collected. `CleanWhenOffered` is not claimed when administrators
delete PVs, which `docs/faqs.md` tells them not to do.

### Bounds

- Volumes: two where volumes might influence each other (one sync loop and one
  event stream serve both), otherwise one. One is enough to use a name again.
- `MaxLag = 3` undelivered events: a PV's whole life (available, bound,
  released) can be on its way while the loop runs.
- Two PVs, one claim name and two UIDs: a claim can be deleted, created again and
  bound elsewhere. The second PV is not a local one, which keeps the instance
  small with late events. `Delay = 2` leaves a tick in which a node can come back.
- `cleaner`: one volume, since cleanings share only the table; two entries, so
  that one can fail and a later one succeed; `PipeCapacity = 2`, so that a
  pipe can be full and a line can follow another.
- `volumes`: two classes with one file each. The four deployments move a class to
  another `mountDir`, then to a `hostDir` from which its old paths lead into the
  other class's mount, and include one that does not load. `MiB = 10` and
  `GiB = 100` bring both branches of the rounding and sizes that are not whole
  units.
- `two_provisioners`: one volume and `MaxLag = 2`.
- `MaxEdits = 2`: one edit can come while another is being loaded or sent.

Nothing is reduced by symmetry. Deadlock is checked in every run.

### Fairness

Goroutines are scheduled, informers deliver, the kubelet restarts the container
and the cluster's controllers act: weak fairness. What the code tries again in
every pass or through its rate-limited queue succeeds at last if it is tried
for ever: strong fairness of those requests, cleanings and reads. Crashes and
restarts end at last (`<>[][~Crash]_vars`), for no code can finish a cleaning in
a process that is always killed. A script is assumed to end, and to succeed at last
if it is run for ever; a reader is scheduled while it scans. An administrator removes a Job that has failed
for good; without that the volume stays, because a failed Job counts as running.

## What is proved

For every value of the constants that the named `ASSUME`s of the modules allow:
any number of volumes, PVs, nodes, claims, entries and edits, any lag and any
set of faults. Where a theorem needs more, the table says what.

| Theorem | Statement | Assumes |
| --- | --- | --- |
| *Provisioner* | | |
| `TypeCorrect` | `Spec => []TypeOK` | |
| `TableProtocolKept` | `Spec => []ProcTableProtocol` | |
| `CacheInvariant`, `CacheIsTruthful` | `Spec => []CacheInv`, `Spec => []CacheConverges` | |
| `JobsInvariant`, `RunningJobsAreKept` | `Spec => []JobsInv`, `Spec => []OnlyFinishedJobsDeleted` | |
| `ProcessInvariant` | `Spec => []ProcessInv` | `ProcessMode` |
| `NeverCleanedInUse`, `OfferedClean` | `Spec => []NoPVWhileCleaning`, `Spec => []CleanWhenOffered` | `ProcessMode` |
| `Refinement` | `Spec => ImplementsLifecycle` | `ProcessMode` |
| `TimelyInvariant` | `Spec => []TimelyInv` | `TimelyMode` |
| `NeverCleanedInUseByJobs`, `OfferedCleanByJobs` | `Spec => []NoPVWhileCleaning`, `Spec => []CleanWhenOffered` | `TimelyMode` |
| `RefinementByJobs` | `Spec => ImplementsLifecycle` | `TimelyMode` |
| *Cleaner* | | |
| `CleanerInvariant`, `TypeCorrect` | `Spec => []CleanerInv`, `Spec => []TypeOK` | |
| `ReportsAreTrue`, `ScriptsAreWaitedFor` | `Spec => []SucceededMeansWiped`, `Spec => []NoScriptAfterReport` | |
| `OutputIsKept` | `Spec => OutputIsLogged` | no line is too long |
| `CleaningRefinement` | `Spec => ImplementsCleaning` | |
| *VolumeObjects* | | |
| `ObjectsInvariant`, `TypeCorrect` | `Spec => []ObjectsInv`, `Spec => []TypeOK` | |
| `CapacityIsHonest` | `Spec => []CapacityHonest` | |
| `SelectorIsOwn`, `AffinityIsInOnePlace` | `Spec => []OwnSelector`, `Spec => []OneAffinity` | |
| `ToolReportsTruly` | `Spec => []SuccessMeansBeta` | |
| `PathsInvariant` | `Spec => [](DeployedInv /\ PathsInv)` | `StableHostDirs` |
| `WipesNoOtherVolume` | `Spec => WipesOwnVolume` | `StableHostDirs`, `DisjointMounts` |
| `WipedInvariant`, `OfferedIsWiped` | `Spec => []WipedInv`, `Spec => []OfferedWiped` | the same, and no disk in use is unmounted |
| *NodeCleanup* | | |
| `TypeCorrect` | `Spec => []TypeOK` | |
| `ClaimsInvariant`, `NoOtherClaimDeleted` | `Spec => [](ClaimsInv /\ DoomedInv)`, `Spec => OnlyTheBoundClaim` | |
| `NodeView` | `Spec => []NodeViewInv` | `NodesKnown` |
| `ReturnedNodeSpares` | `Spec => SparedIfNodeReturned` | `NodesKnown`, `NamesNodes` |
| `DeleterSparesLiveNodes` | `Spec => OnlyStalePVs` | the same, no restart |
| `DelayInvariant`, `DelayIsKept` | `Spec => []DelayInv`, `Spec => WaitsTheDelay` | no node returns |
| *ConfigReload* | | |
| `LoopInvariant` | `Spec => []LoopInv` | |
| `LastAppliedIsTrue` | `Spec => []LastAppliedIsApplied` | |
| `PassesAreCompleted` | `Spec => PassesComplete` | |

TLC finds a violation without each of these assumptions, in a run or a row of
"Further disagreements", but for `DisjointMounts`: which of two nested mounts a
container sees is not this code's business, so `VolumeObjects` leaves it open.

### The provisioner, cleaning in the process

`ProcessMode`: no configuration cleans a block volume by a Job, volumes have
disjoint paths, and no administrator edits PVs. Crashes, restarts with other
configurations, errors and late events are all allowed.

`NoPVWhileCleaning` is not inductive, since a stale view can start a cleaning
later. `ProcessInv` adds what excludes it:

- `TableInv`: a goroutine runs exactly when the table says so, and an entry
  means the volume is not usable;
- `ViewInv`: a view of a PV as released, in the cache or on its way there, does
  not outlive that PV. The last event about a released PV says that it is being
  deleted or is gone, events are handled in order, and the discoverer does not
  create a PV while the cache still has one;
- `LoopInv`: the same for the list of the pass and the volume in hand;
- `DataInv`: where a volume must be clean;
- `DownInv`, `ObjectInv`: what a stopped process and the API server hold.

`ViewInv` is the heart of it: it is why a cache without any version check is
enough for cleaning in the process. Jobs have no such argument, because the Job
lister is a second view that is not ordered with the first.

`Provisioner_proofs` has the type lemmas, the table's protocol, which needs no
assumption, and `LifecycleStep`: from `LifecyclePromise`, which says of each
volume what an offer, a deletion and a cleaning need, every action is a step of
`VolumeLifecycle` or a stutter. The two refinement theorems differ only in how
they come by `LifecyclePromise`. `ProvisionerSafety_proofs` has one lemma for
each action on `ProcessInv`.

### The provisioner, cleaning by Jobs

With late events the promises to users do not hold when Jobs clean. Two things
are proved instead.

First, in every mode and with every fault, the provisioner deletes only Jobs
that are finished (administrators are assumed to delete Jobs that have failed,
and no others). `RemoveJob` deletes by name what the lister shows as succeeded,
so the danger is a view of an earlier Job's success while a later Job runs.
`JobViewInv` excludes it:

- while a Job is active or has failed, no view shows a success;
- if the lister has yet to hear of a success, the Job that succeeded is still
  there and nobody has asked for its deletion;
- if a success has been followed by something else, the Job is gone;
- when the loop is about to create a Job, a success in sight means that the old
  one still holds the name, so the creation fails.

The last two are what a second provisioner breaks: in `two_provisioners` one
process deletes the Job that the other has just created.

Second, the promises hold in `TimelyMode`: watches and the garbage collection of
Jobs catch up between two passes (`Timely`), `useJobForCleaning` is not switched
(`OneMode`), paths are disjoint and nobody edits PVs. Within a pass events may
still be late, and crashes, errors and failing Jobs are allowed. `TimelyInv` says of each volume that what is being
cleaned, or waits to be, has a PV to be reclaimed; that it is clean where it
counts as wiped; and that a success the deleter has yet to take in this pass is
that of the Job which is there, not of one before it. The step that needs
`Timely` is the start of a pass: it reads a cache which `CacheIsTruthful` says
is right and a lister without deleted Jobs, and nothing that happens later in
the pass adds a reclaimable volume to the list. `JobsInv`, `CacheConverges` and
`ProcTableProtocol` come as theorems of their own.

### The cache

`CacheConverges` holds with every fault, restarts under another name included.
It is not enough that the newest event says how the PV is now: an update that
shows a PV of another provisioner is ignored by `handlePVUpdate`, so an entry of
the PV's predecessor would stay. `CacheViewInv` says why it does not: between a
view of an own PV and one of a foreign PV of the same name comes a deletion,
which is handled whosever the PV is.

### Reload

`PassesComplete` needs only that a process that is still loading has no sync loop
(`LoopInv`, which has `TypeOK` as a part). `LastAppliedIsApplied` is about three
goroutines and one map: the watcher sends a copy of the struct it loads into, and
the copy has the same map. `HandoverInv` says who has that map: nobody else before
the first change is sent, then the manager, then the loop that is started for the
second time. So a load changes what is compared and what it is compared with
alike. Both theorems hold with removals too, where `ConfigTakesEffect` fails:
what is wrong there is what is loaded, not what is handed over.

### Cleaning

`CleanerInv` holds for any volumes, entries, pipe capacity and faults; its part
`StreamInv` is claimed only when no line is too long. `VolumeInv` says for each
place of the goroutine what is true of the volume: while entries are removed, what is left on the volume is still to be
tried, or an error is noted; a script is alive only between `Start` and the
report, and a volume marked as cleaned holds nothing. `StreamInv` ties readers,
pipes and the script's open streams together: a reader that has left has read
everything. `SucceededMeansWiped` needs the first, `OutputIsLogged` the second.
Each action's proof is about its own volume; `OneVolume` does the others.

The refinement maps a volume with entries to a dirty one. The steps that take
something away (`RemoveAll`, the script's exit) wipe the abstract volume when
nothing is left, and are stutters otherwise; returns from the goroutine are
reports. `CleanerInv` is needed twice: a script or an entry in hand means that
the table has the volume as running, and success is returned only when nothing
is left.

### PV objects

`ObjectsInv` adds to the properties that the selectors of the loaded
configuration were deployed (`SelectorInv`) and what the tool knows (`ToolInv`): an
item it has not come to is the PV as it is, or was written to since and will be a
conflict. `CapacityIsHonest` rests on a lemma about `RoundDownCapacityPretty` for
every size and any two units. It needs the bound of ten units that the code has:
with a smaller one the loss can be more than a tenth.

Whose volume is wiped depends on three computations on paths: the PV's path is
its file in the class's `hostDir`, `GetContainerPath` moves it to the
`mountDir`, and the container's mounts lead back to the host. `PathsInv` keeps
the first true across deployments, and lemmas on sequences (`EntryOfMount`,
`PrefixOfEntry`) show that the other two cancel. A class may be mounted
elsewhere, but must keep its `hostDir` (`StableHostDirs`), as `docs/upgrading.md`
asks: otherwise the relative path may climb out of the new `hostDir` and into a
mount. `WipedInv` then says that no two PVs share a path, and that data of a
former claim is at the path of a released PV where it can be reached. The
latter is what `volumes_unmounted` breaks.

### Node cleanup

`ClaimsInv` says that what any view knows of a claim (API server, informer, the
events between them and the controller's hand) is a fact about that UID: a UID
is given once, and its PV does not change. Views may be as old as they like.
So the UID precondition of the request is enough, without any freshness.

`NodeViewInv` says that a node the synced lister lacks does not exist. It holds
with late events as long as no node returns (`NodesKnown`), since events on
their way are deletions then. With it, and for PVs whose affinity names nodes
(`NamesNodes`), whoever decides against a PV or a claim is right about its
nodes. The deleter needs one thing more, that the process is not restarted,
because it alone does not wait for its informers.

`DelayInv` follows the delay through timers, queue and workers: `GoneIn(p, t)`
says that each node of `p` is gone and will have been gone for the delay in `t`
ticks. A timer of `t` ticks keeps that promise as the clock runs, `AddAfter`
keeps the earlier of two timers, which is safe only because both do, and a
back-off starts from a promise already fulfilled. A restart forgets timers and
starts the delay anew, which is later, never earlier.

### Only model-checked

- Liveness, which is out of the prover's reach: `Recycled`, `CleaningEnds`,
  `WipedAtLast`, `StalePVDeleted`, `StrandedClaimDeleted`, `ConfigTakesEffect`.
- `OfferedWiped` and `WipesOwnVolume` for deployments that move a `hostDir`. They
  hold for the ones of the instance and not for all, so there is no theorem.
- `OnlyStalePVs`, `SparedIfNodeReturned` and `WaitsTheDelay` outside the
  assumptions above, where they fail.

Every other invariant and action property of a passing run is a theorem. `TypeOK` of
`Provisioner`, `Cleaner` and `VolumeObjects` is checked as a part of `JobsInv`,
`CleanerInv` and `ObjectsInv`; `LoopInv` and `NodeViewInv` are proved and not kept
in a run.

## What is not modelled

- Labels other than the host name, mount options, owner references and access modes of PVs, the pod
  template of a Job apart from its mounts: copied fields that no step reads.
- The system calls behind sizes, devices, mount tables and directories, seen as
  their results; the CSI proxy of Windows and the fakes for tests.
- Metrics, which nothing reads; charts, deployment files and tests.
- `update-helm-values-pre-v2.2.0`, a sequential rewrite of one YAML file from a
  table of renames. Its model would be the table again.
- A reload that keeps the process table, which today's code cannot reach.
- The finalizer of a claim, which only delays what the controller asked for.
