----------------------------- MODULE Provisioner -----------------------------
(***************************************************************************)
(* One local-volume-provisioner process on one node, the API server it     *)
(* talks to and the users of its volumes.                                  *)
(*                                                                         *)
(* The process runs one sync loop (pkg/controller): a deleter pass over a  *)
(* snapshot of the volume cache, then a discovery pass over the files of   *)
(* the discovery directories.  Beside it run the event handlers of the     *)
(* PersistentVolume informer (pkg/populator), the Job informer             *)
(* (pkg/deleter/jobcontroller.go) and one goroutine per volume cleaned in  *)
(* the process (pkg/deleter/deleter.go).  The loop sees the cluster only   *)
(* through the cache and the Job lister, which lag behind the API server   *)
(* independently of each other.                                            *)
(***************************************************************************)
EXTENDS Integers, Sequences, FiniteSets, Functions, ProcTable

CONSTANTS
    Volumes,    \* PV names: generatePVName gives one per (file, node, class)
    NoVolume,   \* the sync loop works on no volume
    Classes,    \* storage classes
    Paths,      \* places on the host's disks
    ClassOf,    \* [Volumes -> Classes]
    PathOf,     \* [Volumes -> Paths], hostDir of the class joined with the file
    ModeOf,     \* [Volumes -> Modes], what GetVolumeMode finds at the path
    PolicyOf,   \* [Classes -> Policies], reclaimPolicy of the StorageClass
    Configs,    \* the configurations the process may be (re)started with
    Faults,     \* what else may happen, a subset of AllFaults
    MaxLag      \* bound: undelivered events before the environment waits

Modes == {"Filesystem", "Block"}
Policies == {"Retain", "Delete", "Recycle"}
Phases == {"Absent", "Available", "Bound", "Released"}

\* The shapes of the provisioner's name: without the UID of the node, or with
\* the UID of one of two Node objects the node is registered as in turn.
UIDNames == {"node-uid1", "node-uid2"}
Names == UIDNames \cup {"node"}

\* Of a ProvisionerConfiguration: useJobForCleaning, useNodeNameOnly, whether
\* nodeLabelsForPV has the host name, the keys of storageClassMap; and the
\* name the Node object of that start makes with its UID.
Configuration ==
    [useJob : BOOLEAN, nodeNameOnly : BOOLEAN, hostLabel : BOOLEAN,
     uidName : UIDNames, classes : SUBSET Classes]

AdminFaults == {"adminDelete", "adminPolicy", "adminReuse"}

AllFaults ==
    AdminFaults \cup
    { "crash",      \* the process dies and the kubelet restarts it
      "apiErrors",  \* requests to the API server fail
      "ioErrors",   \* directories, devices and mounts cannot be examined
      "watchLag",   \* events may be late by more than a sync period
      "slowJobGC",  \* a deleted Job may linger for more than a sync period
      "jobFails"    \* a Job gives up, and an administrator removes it
    }

ASSUME ConstantsAssumption ==
    /\ IsFiniteSet(Volumes) /\ Cardinality(Volumes) \in Nat
    /\ NoVolume \notin Volumes
    /\ ClassOf \in [Volumes -> Classes]
    /\ PathOf \in [Volumes -> Paths]
    /\ ModeOf \in [Volumes -> Modes]
    /\ PolicyOf \in [Classes -> Policies]
    /\ Configs \subseteq Configuration
    /\ Faults \subseteq AllFaults
    /\ MaxLag \in Nat

VARIABLES
    pvs,        \* API server: the PersistentVolume objects
    jobs,       \* API server: the cleaning Jobs, named after their PV
    data,       \* host: whether a path holds data of a claim
    pvEvents,   \* PV informer: events not yet handled, oldest first
    jobEvents,  \* Job informer: events not yet in the lister's store
    cache,      \* VolumeCache
    jobLister,  \* store of the Job informer
    procTable,  \* ProcTable
    cleaning,   \* number of asyncCleanPV goroutines of each volume
    config,     \* the configuration the process was started with
    pc,         \* sync loop: what it does next
    todo,       \* sync loop: volumes left in the current pass
    cur         \* sync loop: the volume it is working on

clusterVars == <<pvs, jobs, data, pvEvents, jobEvents>>
processVars == <<cache, jobLister, procTable, cleaning, config>>
loopVars == <<pc, todo, cur>>
vars == <<clusterVars, processVars, loopVars>>

\* owner is the annotation provisioned-by, labelled says whether the label
\* kubernetes.io/hostname is there.
PV == [phase : Phases, policy : Policies, deleting : BOOLEAN,
       owner : Names, labelled : BOOLEAN]
NoPV == [phase |-> "Absent", policy |-> "Delete", deleting |-> FALSE,
         owner |-> "node", labelled |-> FALSE]

\* status "active" and "failed" both mean Status.Succeeded = 0.
Job == [status : {"absent", "active", "failed", "succeeded"}, deleting : BOOLEAN]
NoJob == [status |-> "absent", deleting |-> FALSE]

DeletePCs == {"delete", "removeStatus", "deletePV", "startCleaning"}
DiscoverPCs == {"discover", "forgetStatus", "createPV"}
BusyPCs == {"removeStatus", "deletePV", "startCleaning", "forgetStatus", "createPV"}
PCs == {"down", "idle"} \cup DeletePCs \cup DiscoverPCs

TypeOK ==
    /\ pvs \in [Volumes -> PV]
    /\ jobs \in [Volumes -> Job]
    /\ data \in [Paths -> {"clean", "dirty"}]
    /\ pvEvents \in Seq([name : Volumes, pv : PV])
    /\ jobEvents \in Seq([name : Volumes, job : Job])
    /\ cache \in [Volumes -> PV]
    /\ jobLister \in [Volumes -> Job]
    /\ procTable \in [Volumes -> CleanupState]
    /\ cleaning \in [Volumes -> Nat]
    /\ config \in Configuration
    /\ pc \in PCs
    /\ todo \in SUBSET Volumes
    /\ cur \in IF pc \in BusyPCs THEN Volumes ELSE {NoVolume}

Init ==
    /\ pvs = [v \in Volumes |-> NoPV]
    /\ jobs = [v \in Volumes |-> NoJob]
    /\ data = [p \in Paths |-> "clean"]
    /\ pvEvents = <<>>
    /\ jobEvents = <<>>
    /\ cache = [v \in Volumes |-> NoPV]
    /\ jobLister = [v \in Volumes |-> NoJob]
    /\ procTable = EmptyProcTable(Volumes)
    /\ cleaning = [v \in Volumes |-> 0]
    /\ config \in Configs
    /\ pc = "down"
    /\ todo = {}
    /\ cur = NoVolume

-----------------------------------------------------------------------------
(* Writing to the API server.  A write is reported on the watch of every   *)
(* informer that runs; a restarted process lists the objects instead.      *)

Up == pc # "down"

PutPV(v, pv) ==
    /\ pvs' = [pvs EXCEPT ![v] = pv]
    /\ pvEvents' = IF Up THEN Append(pvEvents, [name |-> v, pv |-> pv]) ELSE pvEvents

PutJob(v, job) ==
    /\ jobs' = [jobs EXCEPT ![v] = job]
    /\ jobEvents' = IF Up /\ config.useJob
                    THEN Append(jobEvents, [name |-> v, job |-> job])
                    ELSE jobEvents

\* A PV is protected by a finalizer: deleting it marks it, and PVProtection
\* below removes it once no claim holds it.
RequestPVDeletion(v) ==
    IF pvs[v] = NoPV \/ pvs[v].deleting
    THEN UNCHANGED <<pvs, pvEvents>>
    ELSE PutPV(v, [pvs[v] EXCEPT !.deleting = TRUE])

-----------------------------------------------------------------------------
(* The users of the volumes, the cluster's own controllers and             *)
(* administrators.                                                         *)

CaughtUp == Len(pvEvents) < MaxLag /\ Len(jobEvents) < MaxLag

UserStep == UNCHANGED <<jobs, jobEvents, processVars, loopVars>>

Bind(v) ==
    /\ CaughtUp
    /\ pvs[v].phase = "Available" /\ ~pvs[v].deleting
    /\ PutPV(v, [pvs[v] EXCEPT !.phase = "Bound"])
    /\ UserStep /\ UNCHANGED data

UserWrites(v) ==
    /\ pvs[v].phase = "Bound"
    /\ data' = [data EXCEPT ![PathOf[v]] = "dirty"]
    /\ UserStep /\ UNCHANGED <<pvs, pvEvents>>

\* The claim is deleted.
Release(v) ==
    /\ CaughtUp
    /\ pvs[v].phase = "Bound"
    /\ PutPV(v, [pvs[v] EXCEPT !.phase = "Released"])
    /\ UserStep /\ UNCHANGED data

PVProtection(v) ==
    /\ CaughtUp
    /\ pvs[v].deleting /\ pvs[v].phase # "Bound"
    /\ PutPV(v, NoPV)
    /\ UserStep /\ UNCHANGED data

AdminDeletesPV(v) ==
    /\ "adminDelete" \in Faults /\ CaughtUp
    /\ pvs[v] # NoPV /\ ~pvs[v].deleting
    /\ RequestPVDeletion(v)
    /\ UserStep /\ UNCHANGED data

AdminSetsPolicy(v, policy) ==
    /\ "adminPolicy" \in Faults /\ CaughtUp
    /\ pvs[v] # NoPV /\ pvs[v].policy # policy
    /\ PutPV(v, [pvs[v] EXCEPT !.policy = policy])
    /\ UserStep /\ UNCHANGED data

\* The claimRef of a released PV is removed by hand.
AdminReusesPV(v) ==
    /\ "adminReuse" \in Faults /\ CaughtUp
    /\ pvs[v].phase = "Released" /\ ~pvs[v].deleting
    /\ PutPV(v, [pvs[v] EXCEPT !.phase = "Available"])
    /\ UserStep /\ UNCHANGED data

JobStep == UNCHANGED <<pvs, pvEvents, processVars, loopVars>>

\* The pod of a Job wipes the volume and exits with success.
JobSucceeds(v) ==
    /\ CaughtUp
    /\ jobs[v].status = "active"
    /\ data' = [data EXCEPT ![PathOf[v]] = "clean"]
    /\ PutJob(v, [jobs[v] EXCEPT !.status = "succeeded"])
    /\ JobStep

\* The retries of a Job are used up; it stays for an administrator to see.
JobFails(v) ==
    /\ "jobFails" \in Faults /\ CaughtUp
    /\ jobs[v].status = "active"
    /\ PutJob(v, [jobs[v] EXCEPT !.status = "failed"])
    /\ JobStep /\ UNCHANGED data

AdminDeletesJob(v) ==
    /\ "jobFails" \in Faults /\ CaughtUp
    /\ jobs[v].status = "failed" /\ ~jobs[v].deleting
    /\ PutJob(v, [jobs[v] EXCEPT !.deleting = TRUE])
    /\ JobStep /\ UNCHANGED data

\* Foreground deletion ends when the garbage collector has seen the pods go.
JobCollected(v) ==
    /\ CaughtUp
    /\ jobs[v].deleting
    /\ PutJob(v, NoJob)
    /\ JobStep /\ UNCHANGED data

-----------------------------------------------------------------------------
(* The life of the process.                                                *)

ProvisionerName == IF config.nodeNameOnly THEN "node" ELSE config.uidName

\* What the PV informer finds when it lists the PVs.
ListedPVs == {[name |-> v, pv |-> pvs[v]] : v \in {w \in Volumes : pvs[w] # NoPV}}

\* StartLocalController, up to the first pass of the loop.  The PV informer's
\* store is synced by then, but its handlers fill the cache later, one event
\* at a time and in any order.  The Job lister reads the store itself.
Start ==
    /\ pc = "down"
    /\ config' \in Configs
    /\ \E n \in 0..Cardinality(Volumes) : pvEvents' \in Bijection(1..n, ListedPVs)
    /\ jobLister' = IF config'.useJob THEN jobs ELSE [v \in Volumes |-> NoJob]
    /\ pc' = "idle"
    /\ UNCHANGED <<pvs, jobs, data, jobEvents, cache, procTable, cleaning, todo, cur>>

\* The process dies with everything it keeps in memory, and so do its
\* cleaning goroutines and their child processes.  Jobs live on.
Crash ==
    /\ "crash" \in Faults
    /\ Up
    /\ cache' = [v \in Volumes |-> NoPV]
    /\ jobLister' = [v \in Volumes |-> NoJob]
    /\ procTable' = EmptyProcTable(Volumes)
    /\ cleaning' = [v \in Volumes |-> 0]
    /\ pvEvents' = <<>>
    /\ jobEvents' = <<>>
    /\ pc' = "down"
    /\ todo' = {}
    /\ cur' = NoVolume
    /\ UNCHANGED <<pvs, jobs, data, config>>

-----------------------------------------------------------------------------
(* The informers.                                                          *)

\* A PV that is not cached is added only when this provisioner created it, or
\* when it goes by node name only and the PV, by its label, is of this node
\* and was created under a name with a UID.
Adopts(pv) ==
    \/ pv.owner = ProvisionerName
    \/ config.nodeNameOnly /\ pv.labelled /\ pv.owner \in UIDNames

\* Mutant: deletions are not handled, and a PV stays cached for ever.
Handled_IgnoresDeletes(v, pv) ==
    IF pv # NoPV /\ (cache[v] # NoPV \/ Adopts(pv)) THEN [cache EXCEPT ![v] = pv] ELSE cache

\* handlePVUpdate and handlePVDelete.
Handled(v, pv) ==
    IF pv = NoPV \/ cache[v] # NoPV \/ Adopts(pv)
    THEN [cache EXCEPT ![v] = pv]
    ELSE cache

DeliverPVEvent ==
    /\ Up
    /\ pvEvents # <<>>
    /\ cache' = Handled(Head(pvEvents).name, Head(pvEvents).pv)
    /\ pvEvents' = Tail(pvEvents)
    /\ UNCHANGED <<pvs, jobs, data, jobEvents, jobLister, procTable, cleaning, config, loopVars>>

\* The handlers of the Job informer only log; the lister is what is used.
DeliverJobEvent ==
    /\ Up
    /\ jobEvents # <<>>
    /\ jobLister' = [jobLister EXCEPT ![Head(jobEvents).name] = Head(jobEvents).job]
    /\ jobEvents' = Tail(jobEvents)
    /\ UNCHANGED <<pvs, jobs, data, pvEvents, cache, procTable, cleaning, config, loopVars>>

-----------------------------------------------------------------------------
(* CleanupStatusTracker: the process table or the Job controller.          *)

\* shouldRunJob, and usejob of discoverVolumesAtPath.
RunsJob(v) == ModeOf[v] = "Block" /\ config.useJob

IsCleaningJobRunning(v) == jobLister[v].status \in {"active", "failed"}

InProgress(v) == IF RunsJob(v) THEN IsCleaningJobRunning(v) ELSE IsRunning(procTable, v)

\* DeleteJob by name, with foreground propagation.
RequestJobDeletion(v) ==
    IF jobs[v].deleting
    THEN UNCHANGED <<jobs, jobEvents>>
    ELSE PutJob(v, [jobs[v] EXCEPT !.deleting = TRUE])

\* Mutant: RemoveJob does not look at the status of the Job it deletes.
RemoveJob_AnyJob(v, result) ==
    \/ /\ jobLister[v] = NoJob
       /\ result = "CSNotFound"
       /\ UNCHANGED <<jobs, jobEvents>>
    \/ /\ jobLister[v] # NoJob /\ jobs[v] # NoJob
       /\ result = "CSSucceeded"
       /\ RequestJobDeletion(v)
    \/ /\ jobLister[v] # NoJob /\ jobs[v] = NoJob
       /\ result = "error"
       /\ UNCHANGED <<jobs, jobEvents>>

\* RemoveJob returns result.  A request that fails may have taken effect.
RemoveJob(v, result) ==
    \/ /\ jobLister[v] = NoJob
       /\ result = "CSNotFound"
       /\ UNCHANGED <<jobs, jobEvents>>
    \/ /\ IsCleaningJobRunning(v)
       /\ result = "error"
       /\ UNCHANGED <<jobs, jobEvents>>
    \/ /\ jobLister[v].status = "succeeded"
       /\ jobs[v] # NoJob
       /\ result = "CSSucceeded" \/ ("apiErrors" \in Faults /\ result = "error")
       /\ RequestJobDeletion(v)
    \/ /\ jobLister[v].status = "succeeded"
       /\ jobs[v] = NoJob \/ "apiErrors" \in Faults
       /\ result = "error"
       /\ UNCHANGED <<jobs, jobEvents>>

RemoveStatus(v, result) ==
    \/ /\ RunsJob(v)
       /\ RemoveJob(v, result)
       /\ UNCHANGED procTable
    \/ /\ ~RunsJob(v)
       /\ result = RemoveEntryResult(procTable, v)
       /\ procTable' = RemoveEntry(procTable, v)
       /\ UNCHANGED <<jobs, jobEvents>>

RemoveResults == CleanupState \cup {"error"}

-----------------------------------------------------------------------------
(* The deleter's half of the sync loop.                                    *)

\* Mutant: the phase of the PV is not looked at.
Reclaimable_AnyPhase(pv) == pv # NoPV /\ ~pv.deleting /\ pv.policy = "Delete"

\* The conditions DeletePVs puts on a PV of its snapshot.
Reclaimable(pv) == pv.phase = "Released" /\ ~pv.deleting /\ pv.policy = "Delete"

\* The loop wakes up and DeletePVs takes its snapshot of the cache.  Unless
\* the faults say so, a sync period is long enough for the watches and the
\* garbage collector to catch up.
ListPVs ==
    /\ pc = "idle"
    /\ "watchLag" \in Faults \/ (pvEvents = <<>> /\ jobEvents = <<>>)
    /\ "slowJobGC" \in Faults \/ \A v \in Volumes : ~jobs[v].deleting
    /\ pc' = "delete"
    /\ todo' = {v \in Volumes : Reclaimable(cache[v])}
    /\ UNCHANGED <<clusterVars, processVars, cur>>

\* deletePV returns before it changes anything: the class is not configured,
\* the path cannot be examined or the volume is still being cleaned.
SkipReclaim(v) ==
    /\ pc = "delete" /\ v \in todo
    /\ ClassOf[v] \notin config.classes \/ "ioErrors" \in Faults \/ InProgress(v)
    /\ todo' = todo \ {v}
    /\ UNCHANGED <<clusterVars, processVars, pc, cur>>

\* deletePV finds that no cleaning is in progress.
BeginReclaim(v) ==
    /\ pc = "delete" /\ v \in todo
    /\ ClassOf[v] \in config.classes /\ ~InProgress(v)
    /\ todo' = todo \ {v}
    /\ cur' = v
    /\ pc' = "removeStatus"
    /\ UNCHANGED <<clusterVars, processVars>>

\* Mutant: a cleaning that failed counts as done.
TakeStatus_FailedIsDone(result) ==
    /\ pc = "removeStatus"
    /\ RemoveStatus(cur, result)
    /\ pc' = CASE result = "error"      -> "delete"
               [] result = "CSNotFound" -> "startCleaning"
               [] OTHER                 -> "deletePV"
    /\ cur' = IF result = "error" THEN NoVolume ELSE cur
    /\ UNCHANGED <<pvs, data, pvEvents, cache, jobLister, cleaning, config, todo>>

\* Mutant: no trace of a cleaning counts as one that was done long ago.
TakeStatus_NoTraceIsDone(result) ==
    /\ pc = "removeStatus"
    /\ RemoveStatus(cur, result)
    /\ pc' = CASE result = "error"    -> "delete"
               [] result = "CSFailed" -> "startCleaning"
               [] OTHER               -> "deletePV"
    /\ cur' = IF result = "error" THEN NoVolume ELSE cur
    /\ UNCHANGED <<pvs, data, pvEvents, cache, jobLister, cleaning, config, todo>>

\* deletePV takes the status of a finished cleaning and decides by it.
TakeStatus(result) ==
    /\ pc = "removeStatus"
    /\ RemoveStatus(cur, result)
    /\ pc' = CASE result = "error"       -> "delete"
               [] result = "CSSucceeded" -> "deletePV"
               [] OTHER                  -> "startCleaning"
    /\ cur' = IF result = "error" THEN NoVolume ELSE cur
    /\ UNCHANGED <<pvs, data, pvEvents, cache, jobLister, cleaning, config, todo>>

NextReclaim == pc' = "delete" /\ cur' = NoVolume /\ UNCHANGED todo

\* The request is carried out.  deletePV returns whether or not it hears so.
DeletePV ==
    /\ pc = "deletePV"
    /\ RequestPVDeletion(cur)
    /\ NextReclaim
    /\ UNCHANGED <<jobs, data, jobEvents, processVars>>

DeletePVFails ==
    /\ pc = "deletePV" /\ "apiErrors" \in Faults
    /\ NextReclaim
    /\ UNCHANGED <<clusterVars, processVars>>

\* runProcess.
RunProcess ==
    /\ pc = "startCleaning" /\ ~RunsJob(cur)
    /\ procTable' = MarkRunning(procTable, cur)
    /\ cleaning' = IF MarkRunningAccepts(procTable, cur)
                   THEN [cleaning EXCEPT ![cur] = @ + 1] ELSE cleaning
    /\ NextReclaim
    /\ UNCHANGED <<clusterVars, cache, jobLister, config>>

\* runJob: creating a Job fails when one of that name exists.
RunJob ==
    /\ pc = "startCleaning" /\ RunsJob(cur)
    /\ IF jobs[cur] = NoJob
       THEN PutJob(cur, [status |-> "active", deleting |-> FALSE])
       ELSE UNCHANGED <<jobs, jobEvents>>
    /\ NextReclaim
    /\ UNCHANGED <<pvs, data, pvEvents, processVars>>

RunJobFails ==
    /\ pc = "startCleaning" /\ RunsJob(cur) /\ "apiErrors" \in Faults
    /\ NextReclaim
    /\ UNCHANGED <<clusterVars, processVars>>

\* asyncCleanPV: cleanPV returns and the outcome goes into the table.
CleanSucceeds(v) ==
    /\ cleaning[v] > 0
    /\ data' = [data EXCEPT ![PathOf[v]] = "clean"]
    /\ procTable' = MarkStatus(procTable, v, "CSSucceeded")
    /\ cleaning' = [cleaning EXCEPT ![v] = @ - 1]
    /\ UNCHANGED <<pvs, jobs, pvEvents, jobEvents, cache, jobLister, config, loopVars>>

CleanFails(v) ==
    /\ cleaning[v] > 0 /\ "ioErrors" \in Faults
    /\ procTable' = MarkStatus(procTable, v, "CSFailed")
    /\ cleaning' = [cleaning EXCEPT ![v] = @ - 1]
    /\ UNCHANGED <<clusterVars, cache, jobLister, config, loopVars>>

-----------------------------------------------------------------------------
(* The discoverer's half of the sync loop.                                 *)

\* A class is discovered when it is configured and its policy is supported.
Discoverable(v) ==
    ClassOf[v] \in config.classes /\ PolicyOf[ClassOf[v]] \in {"Retain", "Delete"}

ListFiles ==
    /\ pc = "delete" /\ todo = {}
    /\ pc' = "discover"
    /\ todo' = {v \in Volumes : Discoverable(v)}
    /\ UNCHANGED <<clusterVars, processVars, cur>>

LookupPVsByPath(path) == {v \in Volumes : cache[v] # NoPV /\ PathOf[v] = path}

\* discoverVolumesAtPath goes on to create a PV for a file.
Undiscovered(v) ==
    /\ cache[v] = NoPV
    /\ LookupPVsByPath(PathOf[v]) = {}
    /\ ~InProgress(v)

SkipFile(v) ==
    /\ pc = "discover" /\ v \in todo
    /\ "ioErrors" \in Faults \/ ~Undiscovered(v)
    /\ todo' = todo \ {v}
    /\ UNCHANGED <<clusterVars, processVars, pc, cur>>

BeginCreate(v) ==
    /\ pc = "discover" /\ v \in todo
    /\ Undiscovered(v)
    /\ todo' = todo \ {v}
    /\ cur' = v
    /\ pc' = "forgetStatus"
    /\ UNCHANGED <<clusterVars, processVars>>

\* "remove old cleanup status", whatever it says.
ForgetStatus(result) ==
    /\ pc = "forgetStatus"
    /\ RemoveStatus(cur, result)
    /\ pc' = IF result = "error" THEN "discover" ELSE "createPV"
    /\ cur' = IF result = "error" THEN NoVolume ELSE cur
    /\ UNCHANGED <<pvs, data, pvEvents, cache, jobLister, cleaning, config, todo>>

NextFile == pc' = "discover" /\ cur' = NoVolume /\ UNCHANGED todo

CreatedPV(v) ==
    [phase |-> "Available", policy |-> PolicyOf[ClassOf[v]],
     deleting |-> FALSE, owner |-> ProvisionerName, labelled |-> config.hostLabel]

\* createPV: the API server refuses a PV whose name exists.
CreatePV ==
    /\ pc = "createPV"
    /\ IF pvs[cur] = NoPV THEN PutPV(cur, CreatedPV(cur)) ELSE UNCHANGED <<pvs, pvEvents>>
    /\ NextFile
    /\ UNCHANGED <<jobs, data, jobEvents, processVars>>

\* Mount options, mount point or capacity unknown, or the request fails.
CreatePVFails ==
    /\ pc = "createPV" /\ Faults \cap {"apiErrors", "ioErrors"} # {}
    /\ NextFile
    /\ UNCHANGED <<clusterVars, processVars>>

\* DiscoverLocalVolumes returns and the loop goes to sleep.
EndPass ==
    /\ pc = "discover" /\ todo = {}
    /\ pc' = "idle"
    /\ UNCHANGED <<clusterVars, processVars, todo, cur>>

-----------------------------------------------------------------------------
SyncLoop ==
    \/ ListPVs \/ DeletePV \/ DeletePVFails \/ RunProcess \/ RunJob \/ RunJobFails
    \/ ListFiles \/ CreatePV \/ CreatePVFails \/ EndPass
    \/ \E v \in Volumes :
           SkipReclaim(v) \/ BeginReclaim(v) \/ SkipFile(v) \/ BeginCreate(v)
    \/ \E result \in RemoveResults : TakeStatus(result) \/ ForgetStatus(result)

Environment ==
    \E v \in Volumes :
        \/ Bind(v) \/ UserWrites(v) \/ Release(v) \/ PVProtection(v)
        \/ AdminDeletesPV(v) \/ AdminReusesPV(v)
        \/ \E policy \in Policies : AdminSetsPolicy(v, policy)
        \/ JobSucceeds(v) \/ JobFails(v) \/ AdminDeletesJob(v) \/ JobCollected(v)

Next ==
    \/ SyncLoop \/ Environment
    \/ Start \/ Crash
    \/ DeliverPVEvent \/ DeliverJobEvent
    \/ \E v \in Volumes : CleanSucceeds(v) \/ CleanFails(v)

Spec == Init /\ [][Next]_vars

(***************************************************************************)
(* Fairness.  The loop runs in a goroutine that never blocks for good      *)
(* (WF on SyncLoop), the informers deliver and the cluster's controllers   *)
(* act (WF).  Errors come and go: what is tried again and again succeeds   *)
(* at last (SF on the branches a retry can take), and the process is not   *)
(* killed for ever.                                                        *)
(***************************************************************************)
Fairness ==
    /\ WF_vars(Start) /\ WF_vars(SyncLoop)
    /\ WF_vars(DeliverPVEvent) /\ WF_vars(DeliverJobEvent)
    /\ SF_vars(DeletePV) /\ SF_vars(CreatePV) /\ SF_vars(RunJob)
    /\ SF_vars(TakeStatus("CSSucceeded")) /\ SF_vars(ForgetStatus("CSSucceeded"))
    /\ \A v \in Volumes :
           /\ WF_vars(PVProtection(v)) /\ WF_vars(JobCollected(v))
           /\ SF_vars(CleanSucceeds(v)) /\ SF_vars(JobSucceeds(v))
           /\ SF_vars(BeginReclaim(v)) /\ SF_vars(BeginCreate(v))
           /\ WF_vars(AdminDeletesJob(v))
    /\ <>[][~Crash]_vars

FairSpec == Spec /\ Fairness

-----------------------------------------------------------------------------
(* Properties.                                                             *)

Usable(v) == pvs[v].phase \in {"Available", "Bound"}

BeingCleaned(path) ==
    \E v \in Volumes :
        PathOf[v] = path /\ (cleaning[v] > 0 \/ jobs[v].status = "active")

\* While a goroutine or a Job is cleaning a volume, no PV offers that volume
\* to users or is bound to a claim: a claim's fresh data is never wiped.  The
\* deleter starts a cleaning only for a released PV, and the discoverer asks
\* InProgress before it creates one.
NoPVWhileCleaning ==
    \A v \in Volumes : Usable(v) => ~BeingCleaned(PathOf[v])

\* A volume that is on offer holds no data of an earlier claim: the PV of a
\* released volume is deleted, and a new one created, only after a cleaning
\* that succeeded since the release.
CleanWhenOffered ==
    \A v \in Volumes : pvs[v].phase = "Available" => data[PathOf[v]] = "clean"

\* The callers of the process table keep its rules, so none of the errors it
\* says "should never happen" does: MarkRunning finds no entry, markStatus
\* finds the entry of the goroutine that calls it, which is the only one of
\* its volume, and RemoveEntry finds no running entry.
ProcTableProtocol ==
    /\ pc = "startCleaning" /\ ~RunsJob(cur) => MarkRunningAccepts(procTable, cur)
    /\ \A v \in Volumes :
           cleaning[v] = IF IsRunning(procTable, v) THEN 1 ELSE 0
    /\ pc \in {"removeStatus", "forgetStatus"} /\ ~RunsJob(cur)
           => ~IsRunning(procTable, cur)

\* Once the handlers of the populator have seen every event, the cache holds
\* exactly the PVs that belong to this provisioner, as the API server does.
CacheConverges ==
    Up /\ pvEvents = <<>> =>
        \A v \in Volumes : cache[v] = IF Adopts(pvs[v]) THEN pvs[v] ELSE NoPV

\* RemoveJob, which deletes by name what a lagging lister shows it, never
\* deletes a Job whose pod may still be writing.
OnlyFinishedJobsDeleted ==
    \A v \in Volumes : jobs[v].deleting => jobs[v].status \in {"succeeded", "failed"}

\* A view of v's Job, in the lister or on its way there, says it succeeded.
Succeeded(i, v) == jobEvents[i].name = v /\ jobEvents[i].job.status = "succeeded"
Unfinished(i, v) == jobEvents[i].name = v /\ jobEvents[i].job.status # "succeeded"
SeesSuccess(v) ==
    jobLister[v].status = "succeeded" \/ \E i \in 1..Len(jobEvents) : Succeeded(i, v)

\* A Job that has succeeded and that nobody has deleted.
Done == [status |-> "succeeded", deleting |-> FALSE]

\* What a view of success says about the Job that is there now: it is not a
\* later one that still runs.  Nobody deletes a Job before its success is in
\* the lister, and no Job is created while such a view is left.
JobViewInv(v) ==
    LET events == 1..Len(jobEvents)
    IN  /\ jobs[v].status \in {"active", "failed"} => ~SeesSuccess(v)
        /\ \A j \in events :
               /\ Succeeded(j, v)
               /\ jobLister[v].status # "succeeded" \/ \E i \in events : i < j /\ Unfinished(i, v)
               => jobs[v] = Done
        /\ \A j \in events :
               /\ Unfinished(j, v)
               /\ jobLister[v].status = "succeeded" \/ \E i \in events : i < j /\ Succeeded(i, v)
               => jobs[v] = NoJob
        /\ pc = "startCleaning" /\ cur = v /\ RunsJob(v) /\ SeesSuccess(v) => jobs[v] = Done

\* The inductive invariant behind OnlyFinishedJobsDeleted, in every mode and
\* with every fault.
JobsInv ==
    /\ TypeOK /\ OnlyFinishedJobsDeleted
    /\ \A v \in Volumes : JobViewInv(v)
    /\ ~(Up /\ config.useJob) => jobEvents = <<>> /\ jobLister = [v \in Volumes |-> NoJob]

\* What the cache and the events on their way say of the PV of v: the newest
\* event says how it is now, and between a view of a PV of this provisioner
\* and one of a PV that is not its own comes the deletion of the first.
CacheViewInv(v) ==
    LET events == {i \in 1..Len(pvEvents) : pvEvents[i].name = v}
        own(pv) == pv # NoPV /\ Adopts(pv)
        foreign(pv) == pv # NoPV /\ ~Adopts(pv)
        gone == {i \in events : pvEvents[i].pv = NoPV}
    IN  /\ ~foreign(cache[v])
        /\ events = {} => cache[v] = IF Adopts(pvs[v]) THEN pvs[v] ELSE NoPV
        /\ \A i \in events : (\A j \in events : j <= i) => pvEvents[i].pv = pvs[v]
        /\ own(cache[v]) =>
               /\ ~own(pvs[v]) => gone # {}
               /\ \A j \in events : foreign(pvEvents[j].pv) => \E k \in gone : k < j
        /\ \A i \in events : own(pvEvents[i].pv) =>
               /\ ~own(pvs[v]) => \E k \in gone : i < k
               /\ \A j \in events :
                      i < j /\ foreign(pvEvents[j].pv) => \E k \in gone : i < k /\ k < j

\* The inductive invariant behind CacheConverges, in every mode and with
\* every fault.
CacheInv ==
    /\ TypeOK
    /\ Up => \A v \in Volumes : CacheViewInv(v)
    /\ ~Up => pvEvents = <<>> /\ cache = [v \in Volumes |-> NoPV]

\* The system as its users see it behaves as VolumeLifecycle says.
Lifecycle ==
    INSTANCE VolumeLifecycle WITH
        phase <- [v \in Volumes |-> pvs[v].phase],
        data <- [v \in Volumes |-> data[PathOf[v]]]

\* Every step of the process, the informers and the cluster is a step of the
\* abstract life of one volume or leaves it alone.
ImplementsLifecycle == Lifecycle!Spec

\* A released volume whose policy is Delete is cleaned, deleted and offered
\* again: "clean up the volume, and recreate the PV".
Recycled ==
    \A v \in Volumes :
        Reclaimable(pvs[v]) ~> pvs[v].phase = "Available"

-----------------------------------------------------------------------------
(***************************************************************************)
(* Why cleaning in the process is safe: the inductive invariant behind     *)
(* NoPVWhileCleaning, CleanWhenOffered and ImplementsLifecycle when no     *)
(* volume is cleaned by a Job, discovery directories do not overlap and    *)
(* no administrator edits PVs by hand.                                     *)
(***************************************************************************)
ProcessModeOnly == \A v \in Volumes, c \in Configs : ModeOf[v] = "Block" => ~c.useJob
NoAdmin == Faults \cap AdminFaults = {}
DisjointPaths == \A v, w \in Volumes : PathOf[v] = PathOf[w] => v = w

\* The deleter holds v, or will come to it in this pass.
InSnapshot(v) == pc \in DeletePCs /\ (v \in todo \/ v = cur)

\* The PV of v is gone, going, or may be deleted in this pass.
Dying(v) == pvs[v] = NoPV \/ pvs[v].deleting \/ InSnapshot(v)

DownInv ==
    ~Up => /\ pvEvents = <<>>
           /\ cache = [v \in Volumes |-> NoPV]
           /\ procTable = EmptyProcTable(Volumes)
           /\ cleaning = [v \in Volumes |-> 0]

ObjectInv ==
    \A v \in Volumes :
        /\ jobs[v] = NoJob
        /\ pvs[v].phase = "Absent" => pvs[v] = NoPV
        /\ pvs[v].deleting => pvs[v].phase = "Released"

TableInv ==
    \A v \in Volumes :
        /\ cleaning[v] = IF IsRunning(procTable, v) THEN 1 ELSE 0
        /\ procTable[v] # "CSNotFound" => ~Usable(v)

DataInv ==
    \A v \in Volumes :
        \/ pvs[v].phase \in {"Absent", "Available"}
        \/ pvs[v].deleting
        \/ procTable[v] = "CSSucceeded"
        \/ pc = "deletePV" /\ v = cur
        => data[PathOf[v]] = "clean"

LoopInv ==
    /\ \A v \in Volumes : InSnapshot(v) => ~Usable(v)
    /\ pc \in {"removeStatus", "forgetStatus"} => ~IsRunning(procTable, cur)
    /\ pc \in {"startCleaning", "createPV"} => procTable[cur] = "CSNotFound"
    /\ pc \in {"forgetStatus", "createPV"} /\ Dying(cur) => ~Reclaimable(cache[cur])

\* No view of a PV as reclaimable, in the cache or on its way there, outlives
\* the PV: it is on its way once, and gone before the name is used again.
ViewInv ==
    /\ \A v \in Volumes : Reclaimable(cache[v]) => ~Usable(v)
    /\ \A i \in DOMAIN pvEvents :
           Reclaimable(pvEvents[i].pv) =>
               /\ ~Usable(pvEvents[i].name)
               /\ ~Dying(pvEvents[i].name)
               /\ ~Reclaimable(cache[pvEvents[i].name])
    /\ \A i, j \in DOMAIN pvEvents :
           Reclaimable(pvEvents[i].pv) /\ Reclaimable(pvEvents[j].pv)
               /\ pvEvents[i].name = pvEvents[j].name => i = j

\* What the process knows never contradicts the cluster in a way that makes
\* the deleter clean, or the discoverer offer, a volume too early: see the
\* conjuncts above.
ProcessInv ==
    /\ TypeOK
    /\ config \in Configs
    /\ DownInv /\ ObjectInv /\ TableInv /\ DataInv /\ LoopInv /\ ViewInv

-----------------------------------------------------------------------------
(***************************************************************************)
(* Why cleaning by Jobs is safe as well, when a sync period is long enough *)
(* for the watches and the garbage collector to catch up and               *)
(* useJobForCleaning is not switched between two starts.                   *)
(***************************************************************************)
Timely == Faults \cap {"watchLag", "slowJobGC"} = {}
OneMode == \A c, d \in Configs : c.useJob = d.useJob

\* A goroutine or a Job cleans v, the outcome waits to be taken, or the
\* deleter has v in its snapshot.
Attended(v) ==
    \/ procTable[v] # "CSNotFound"
    \/ jobs[v].status \in {"active", "failed"} \/ jobs[v] = Done
    \/ InSnapshot(v)

\* The deleter has still to ask for the status of v in this pass.
Undecided(v) == pc \in DeletePCs /\ (v \in todo \/ (pc = "removeStatus" /\ v = cur))

\* A volume without a PV or with one on offer, one whose PV is being deleted
\* or about to be, and one whose cleaning has succeeded.
Wiped(v) ==
    \/ pvs[v].phase \in {"Absent", "Available"} \/ pvs[v].deleting
    \/ procTable[v] = "CSSucceeded" \/ jobs[v] = Done
    \/ pc = "deletePV" /\ v = cur

\* A volume that is attended to has a PV to be reclaimed, one that counts as
\* wiped is clean, and a success that the deleter will take for v is that of
\* the Job which is there.
VolumeInv(v) ==
    /\ IF RunsJob(v) THEN procTable[v] = "CSNotFound" ELSE jobs[v] = NoJob
    /\ pvs[v].phase = "Absent" => pvs[v] = NoPV
    /\ pvs[v].deleting => pvs[v].phase = "Released"
    /\ Attended(v) => Reclaimable(pvs[v])
    /\ Wiped(v) => data[PathOf[v]] = "clean"
    /\ Undecided(v) /\ SeesSuccess(v) => jobs[v] \in {Done, NoJob}

\* With JobsInv, CacheInv and ProcTableProtocol, the inductive invariant
\* behind NoPVWhileCleaning, CleanWhenOffered and ImplementsLifecycle.
TimelyInv ==
    /\ config \in Configs
    /\ cur \notin todo
    /\ pc = "deletePV" => /\ procTable[cur] = "CSNotFound" /\ jobs[cur] # Done
                          /\ jobs[cur].status \notin {"active", "failed"}
    /\ \A v \in Volumes : VolumeInv(v)
=============================================================================
