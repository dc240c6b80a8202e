---------------------- MODULE ProvisionerTimely_proofs ----------------------
(***************************************************************************)
(* Why cleaning by Jobs is safe, and cleaning in the process beside it,    *)
(* when a sync period is long enough for the watches and the garbage       *)
(* collector: TimelyInv is kept, given what ProvisionerViews_proofs says   *)
(* of the cache and of the Job lister.                                     *)
(***************************************************************************)
EXTENDS ProvisionerViews_proofs

TimelyMode == Timely /\ OneMode /\ NoAdmin /\ DisjointPaths

\* What holds before each step.
Before == TypeOK /\ JobsInv /\ CacheConverges /\ ProcTableProtocol /\ TimelyInv

\* The invariant but for the volumes.
LoopRules ==
    /\ config \in Configs
    /\ cur \notin todo
    /\ pc = "deletePV" => /\ procTable[cur] = "CSNotFound" /\ jobs[cur] # Done
                          /\ jobs[cur].status \notin {"active", "failed"}

-----------------------------------------------------------------------------
(* What the steps have in common.                                          *)

\* A volume whose objects a step leaves alone.
LEMMA SameVolume ==
  ASSUME NEW v \in Volumes, VolumeInv(v), config'.useJob = config.useJob,
         pvs'[v] = pvs[v], jobs'[v] = jobs[v], procTable'[v] = procTable[v],
         data[PathOf[v]] = "clean" => data'[PathOf[v]] = "clean",
         InSnapshot(v)' => InSnapshot(v),
         pc' = "deletePV" /\ cur' = v => pc = "deletePV" /\ cur = v,
         Undecided(v)' /\ SeesSuccess(v)' => Undecided(v) /\ SeesSuccess(v)
  PROVE  VolumeInv(v)'
<1>1. RunsJob(v)' <=> RunsJob(v)
  BY DEF RunsJob
<1>2. Attended(v)' => Attended(v)
  BY DEF Attended
<1>3. Wiped(v)' => Wiped(v)
  BY DEF Wiped
<1>4. Reclaimable(pvs[v])' <=> Reclaimable(pvs[v])
  BY DEF Reclaimable
<1> QED
  BY <1>1, <1>2, <1>3, <1>4 DEF VolumeInv

\* A volume nobody attends to, whose PV a step changes.
LEMMA UnattendedVolume ==
  ASSUME NEW v \in Volumes, VolumeInv(v), ~Attended(v), config' = config,
         jobs'[v] = jobs[v], procTable'[v] = procTable[v], ~InSnapshot(v)',
         pvs'[v].phase = "Absent" => pvs'[v] = NoPV,
         ~pvs'[v].deleting,
         pvs'[v].phase \in {"Absent", "Available"} => data'[PathOf[v]] = "clean",
         ~Undecided(v)'
  PROVE  VolumeInv(v)'
<1>1. RunsJob(v)' <=> RunsJob(v)
  BY DEF RunsJob
<1>2. ~Attended(v)'
  BY DEF Attended
<1>3. Wiped(v)' => pvs'[v].phase \in {"Absent", "Available"}
  <2>1. ~(pc' = "deletePV" /\ v = cur')
    BY DEF InSnapshot, DeletePCs
  <2>2. procTable'[v] = "CSNotFound" /\ jobs'[v] # Done
    BY DEF Attended
  <2> QED
    BY <2>1, <2>2 DEF Wiped
<1> QED
  BY <1>1, <1>2, <1>3 DEF VolumeInv

\* What is seen of the other Jobs when one is written, and of all Jobs when
\* it is not a success.
LEMMA PutJobSeen ==
  ASSUME TypeOK, NEW v \in Volumes, NEW new \in Job, PutJob(v, new), UNCHANGED jobLister,
         NEW u \in Volumes, u # v \/ new.status # "succeeded"
  PROVE  SeesSuccess(u)' => SeesSuccess(u)
<1> DEFINE T == [name : Volumes, job : Job]
           e == [name |-> v, job |-> new]
<1>1. jobEvents \in Seq(T) /\ e \in T /\ e.name = v /\ e.job = new
  BY DEF TypeOK
<1>2. jobEvents' = Append(jobEvents, e) \/ jobEvents' = jobEvents
  BY DEF PutJob
<1> HIDE DEF T, e
<1>3. CASE jobEvents' = Append(jobEvents, e)
  <2>1. /\ Len(jobEvents') = Len(jobEvents) + 1 /\ Len(jobEvents) \in Nat
        /\ \A i \in 1..Len(jobEvents) : jobEvents'[i] = jobEvents[i]
        /\ jobEvents'[Len(jobEvents) + 1] = e
    BY <1>1, <1>3, AppendedEvent
  <2>2. \A i \in 1..Len(jobEvents') : Succeeded(i, u)' => i \in 1..Len(jobEvents) /\ Succeeded(i, u)
    BY <1>1, <2>1 DEF Succeeded
  <2> QED
    BY <2>2 DEF SeesSuccess
<1>4. CASE jobEvents' = jobEvents
  BY <1>4 DEF SeesSuccess, Succeeded
<1> QED
  BY <1>2, <1>3, <1>4

\* The oldest event adds nothing to what is seen.
LEMMA DeliverySeen ==
  ASSUME TypeOK, DeliverJobEvent, NEW u \in Volumes
  PROVE  SeesSuccess(u)' => SeesSuccess(u)
<1> DEFINE T == [name : Volumes, job : Job]
<1>1. /\ jobEvents # <<>> /\ jobEvents' = Tail(jobEvents)
      /\ jobLister' = [jobLister EXCEPT ![Head(jobEvents).name] = Head(jobEvents).job]
  BY DEF DeliverJobEvent
<1>2. jobEvents \in Seq(T) /\ jobLister \in [Volumes -> Job]
  BY DEF TypeOK
<1> HIDE DEF T
<1>3. /\ Len(jobEvents) \in Nat /\ Len(jobEvents) >= 1 /\ Len(jobEvents') = Len(jobEvents) - 1
      /\ Head(jobEvents) = jobEvents[1]
      /\ \A i \in 1..Len(jobEvents') : jobEvents'[i] = jobEvents[i + 1] /\ i + 1 \in 1..Len(jobEvents)
  BY <1>1, <1>2
<1>4. jobLister'[u] = IF jobEvents[1].name = u THEN jobEvents[1].job ELSE jobLister[u]
  BY <1>1, <1>2, <1>3
<1>5. 1 \in 1..Len(jobEvents)
  BY <1>3
<1> QED
  BY <1>3, <1>4, <1>5 DEF SeesSuccess, Succeeded

\* A step that changes only where the loop is, and not towards the deletion
\* of a PV or the decision about another one.
LEMMA LoopMoves ==
  ASSUME Before, config' \in Configs, config'.useJob = config.useJob,
         UNCHANGED <<pvs, jobs, procTable>>, data' = data,
         cur' \notin todo',
         pc' = "deletePV" => pc = "deletePV" /\ cur' = cur,
         \A v \in Volumes : InSnapshot(v)' => InSnapshot(v),
         \A v \in Volumes : Undecided(v)' /\ SeesSuccess(v)' => Undecided(v) /\ SeesSuccess(v)
  PROVE  TimelyInv'
<1>1. \A v \in Volumes : VolumeInv(v)'
  <2> SUFFICES ASSUME NEW v \in Volumes PROVE VolumeInv(v)'
    OBVIOUS
  <2>1. VolumeInv(v)
    BY DEF Before, TimelyInv
  <2> QED
    BY <2>1, SameVolume
<1>2. LoopRules'
  BY DEF LoopRules, Before, TimelyInv
<1> QED
  BY <1>1, <1>2 DEF TimelyInv, LoopRules

-----------------------------------------------------------------------------
(* The steps.                                                              *)

\* The cluster runs a Job or removes it.
LEMMA JobStepsTimely ==
  ASSUME TimelyMode, Before, JobsInv', NEW v \in Volumes,
         JobSucceeds(v) \/ JobFails(v) \/ AdminDeletesJob(v) \/ JobCollected(v)
  PROVE  TimelyInv'
<1>0. TypeOK /\ VolumeInv(v) /\ LoopRules /\ jobs[v] \in Job
  BY DEF Before, TimelyInv, LoopRules, TypeOK
<1>1. UNCHANGED <<pvs, config, procTable, jobLister, pc, todo, cur>>
  BY DEF JobSucceeds, JobFails, AdminDeletesJob, JobCollected, JobStep, processVars, loopVars
<1>2. PICK new \in Job :
        /\ PutJob(v, new)
        /\ \/ new.status = "succeeded" /\ new.deleting = jobs[v].deleting
              /\ jobs[v].status = "active" /\ data' = [data EXCEPT ![PathOf[v]] = "clean"]
           \/ new.status = "failed" /\ jobs[v].status \in {"active", "failed"} /\ data' = data
           \/ new = NoJob /\ jobs[v].deleting /\ data' = data
  <2>1. \A status \in {"succeeded", "failed"} :
            LET new == [jobs[v] EXCEPT !.status = status]
            IN  new \in Job /\ new.status = status /\ new.deleting = jobs[v].deleting
    BY <1>0 DEF Job
  <2>2. [jobs[v] EXCEPT !.deleting = TRUE] \in Job
        /\ [jobs[v] EXCEPT !.deleting = TRUE].status = jobs[v].status
    BY <1>0 DEF Job
  <2>3. CASE JobSucceeds(v)
    BY <2>1, <2>3 DEF JobSucceeds
  <2>4. CASE JobFails(v)
    BY <2>1, <2>4 DEF JobFails
  <2>5. CASE AdminDeletesJob(v)
    BY <2>2, <2>5 DEF AdminDeletesJob
  <2>6. CASE JobCollected(v)
    BY <2>6, NoObjects DEF JobCollected
  <2> QED
    BY <2>3, <2>4, <2>5, <2>6
<1>3. jobs'[v] = new /\ \A u \in Volumes \ {v} : jobs'[u] = jobs[u]
  BY <1>0, <1>2 DEF PutJob, TypeOK
<1>4. jobs[v] # NoJob
  BY <1>2 DEF NoJob
<1>5. RunsJob(v) /\ RunsJob(v)' /\ procTable'[v] = "CSNotFound"
  BY <1>0, <1>1, <1>4 DEF VolumeInv, RunsJob
<1>6. jobs[v].deleting => jobs[v].status \in {"succeeded", "failed"}
  BY DEF Before, JobsInv, OnlyFinishedJobsDeleted
<1>7. Attended(v)' => Attended(v)
  <2>1. new.status = "absent" => new # Done
    BY DEF Done
  <2>2. new = NoJob => new.status = "absent"
    BY DEF NoJob
  <2>3. new.status \in {"active", "failed"} \/ new = Done => jobs[v].status \in {"active", "failed"}
    BY <1>2, <2>1, <2>2
  <2> QED
    BY <1>1, <1>3, <2>3 DEF Attended, InSnapshot
<1>8. Wiped(v)' => data'[PathOf[v]] = "clean"
  <2>1. CASE data' = [data EXCEPT ![PathOf[v]] = "clean"]
    BY <1>0, <2>1, ConstantsAssumption DEF TypeOK
  <2>2. CASE data' = data /\ new # Done
    BY <1>0, <1>1, <1>3, <2>2 DEF Wiped, VolumeInv
  <2> QED
    BY <1>2, <2>1, <2>2 DEF Done, NoJob
<1>9. SeesSuccess(v)' => new = Done \/ new = NoJob
  <2>1. new.status \in {"active", "failed"} => ~SeesSuccess(v)'
    BY <1>3 DEF JobsInv, JobViewInv
  <2>2. new.status = "succeeded" => new = Done
    <3>1. new.status = "succeeded" => new.deleting = FALSE
      BY <1>0, <1>2, <1>6 DEF NoJob, Job
    <3> QED
      BY <3>1 DEF Job, Done
  <2> QED
    BY <1>2, <2>1, <2>2
<1>10. VolumeInv(v)'
  <2>1. Reclaimable(pvs[v])' <=> Reclaimable(pvs[v])
    BY <1>1 DEF Reclaimable
  <2> QED
    BY <1>0, <1>1, <1>3, <1>5, <1>7, <1>8, <1>9, <2>1 DEF VolumeInv
<1>11. ASSUME NEW u \in Volumes, u # v PROVE VolumeInv(u)'
  <2>1. VolumeInv(u)
    BY DEF Before, TimelyInv
  <2>2. SeesSuccess(u)' => SeesSuccess(u)
    BY <1>0, <1>1, <1>2, <1>11, PutJobSeen
  <2>3. data'[PathOf[u]] = data[PathOf[u]]
    BY <1>0, <1>2, <1>11, ConstantsAssumption DEF TypeOK, TimelyMode, DisjointPaths
  <2>4. (InSnapshot(u)' <=> InSnapshot(u)) /\ (Undecided(u)' <=> Undecided(u))
    BY <1>1 DEF InSnapshot, Undecided
  <2> QED
    BY <1>1, <1>3, <1>11, <2>1, <2>2, <2>3, <2>4, SameVolume
<1>12. LoopRules'
  <2>1. CASE pc = "deletePV"
    <3>1. cur \in Volumes
      BY <1>0, <2>1 DEF TypeOK, BusyPCs
    <3>2. CASE cur = v
      <4>1. new = NoJob
        BY <1>0, <1>2, <1>6, <2>1, <3>2 DEF LoopRules
      <4> QED
        BY <1>0, <1>1, <1>3, <2>1, <3>2, <4>1 DEF LoopRules, NoJob, Done
    <3>3. CASE cur # v
      BY <1>0, <1>1, <1>3, <2>1, <3>1, <3>3 DEF LoopRules
    <3> QED
      BY <3>2, <3>3
  <2>2. CASE pc # "deletePV"
    BY <1>0, <1>1, <2>2 DEF LoopRules
  <2> QED
    BY <2>1, <2>2
<1> QED
  BY <1>10, <1>11, <1>12 DEF TimelyInv, LoopRules

\* Users bind, write and release; the cluster removes a deleted PV.
LEMMA UserStepsTimely ==
  ASSUME TimelyMode, Before, NEW v \in Volumes,
         Bind(v) \/ UserWrites(v) \/ Release(v) \/ PVProtection(v)
  PROVE  TimelyInv'
<1>0. TypeOK /\ VolumeInv(v) /\ LoopRules /\ pvs[v] \in PV
  BY DEF Before, TimelyInv, LoopRules, TypeOK
<1>1. UNCHANGED <<jobs, jobEvents, jobLister, config, procTable, pc, todo, cur>>
  BY DEF Bind, UserWrites, Release, PVProtection, UserStep, processVars, loopVars
<1>2. ~Reclaimable(pvs[v])
  BY DEF Bind, UserWrites, Release, PVProtection, Reclaimable
<1>3. ~Attended(v)
  BY <1>0, <1>2 DEF VolumeInv
<1>4. /\ ~InSnapshot(v)' /\ ~Undecided(v)'
      /\ \A u \in Volumes : /\ InSnapshot(u)' <=> InSnapshot(u)
                            /\ Undecided(u)' <=> Undecided(u)
                            /\ SeesSuccess(u)' <=> SeesSuccess(u)
  <2>1. ~InSnapshot(v) /\ ~Undecided(v)
    BY <1>3 DEF Attended, InSnapshot, Undecided
  <2> QED
    BY <1>1, <2>1 DEF InSnapshot, Undecided, SeesSuccess, Succeeded
<1>5. LoopRules'
  BY <1>0, <1>1 DEF LoopRules
<1>6. ASSUME NEW new \in PV, PutPV(v, new), data' = data,
             new = NoPV \/ new.phase \in {"Bound", "Released"},
             ~new.deleting, new = NoPV => pvs[v].deleting
      PROVE  TimelyInv'
  <2>1. pvs'[v] = new /\ \A u \in Volumes \ {v} : pvs'[u] = pvs[u]
    BY <1>0, <1>6 DEF PutPV, TypeOK
  <2>2. VolumeInv(v)'
    <3>1. new.phase = "Absent" => new = NoPV
      BY <1>6
    <3>2. new.phase \in {"Absent", "Available"} => data'[PathOf[v]] = "clean"
      BY <1>0, <1>6 DEF VolumeInv, Wiped
    <3> QED
      BY <1>0, <1>1, <1>3, <1>4, <1>6, <2>1, <3>1, <3>2, UnattendedVolume
  <2>3. ASSUME NEW u \in Volumes, u # v PROVE VolumeInv(u)'
    <3>1. VolumeInv(u)
      BY DEF Before, TimelyInv
    <3> QED
      BY <1>1, <1>4, <1>6, <2>1, <2>3, <3>1, SameVolume
  <2> QED
    BY <1>5, <2>2, <2>3 DEF TimelyInv, LoopRules
<1>7. \A phase \in Phases :
          LET new == [pvs[v] EXCEPT !.phase = phase]
          IN  \/ phase = "Absent"
              \/ new \in PV /\ new.phase = phase /\ new.deleting = pvs[v].deleting /\ new # NoPV
  BY <1>0 DEF PV, NoPV
<1>8. CASE Bind(v)
  <2> DEFINE new == [pvs[v] EXCEPT !.phase = "Bound"]
  <2>1. new \in PV /\ new.phase = "Bound" /\ ~new.deleting /\ new # NoPV
    BY <1>7, <1>8 DEF Bind, Phases
  <2> HIDE DEF new
  <2>2. PutPV(v, new) /\ data' = data
    BY <1>8 DEF Bind, new
  <2> QED
    BY <1>6, <2>1, <2>2
<1>9. CASE Release(v)
  <2> DEFINE new == [pvs[v] EXCEPT !.phase = "Released"]
  <2>1. new \in PV /\ new.phase = "Released" /\ new.deleting = pvs[v].deleting /\ new # NoPV
    BY <1>7 DEF Phases
  <2>2. ~pvs[v].deleting
    BY <1>0, <1>9 DEF VolumeInv, Release
  <2> HIDE DEF new
  <2>3. PutPV(v, new) /\ data' = data
    BY <1>9 DEF Release, new
  <2> QED
    BY <1>6, <2>1, <2>2, <2>3
<1>10. CASE PVProtection(v)
  <2>1. PutPV(v, NoPV) /\ data' = data /\ pvs[v].deleting /\ ~NoPV.deleting
    BY <1>10 DEF PVProtection, NoPV
  <2> QED
    BY <1>6, <2>1, NoObjects
<1>11. CASE UserWrites(v)
  <2>1. pvs' = pvs /\ pvs[v].phase = "Bound" /\ data' = [data EXCEPT ![PathOf[v]] = "dirty"]
    BY <1>11 DEF UserWrites
  <2>2. VolumeInv(v)'
    <3>1. ~pvs'[v].deleting /\ pvs'[v].phase \notin {"Absent", "Available"}
      BY <1>0, <2>1 DEF VolumeInv
    <3> QED
      BY <1>0, <1>1, <1>3, <1>4, <3>1, UnattendedVolume
  <2>3. ASSUME NEW u \in Volumes, u # v PROVE VolumeInv(u)'
    <3>1. VolumeInv(u)
      BY DEF Before, TimelyInv
    <3>2. data'[PathOf[u]] = data[PathOf[u]]
      BY <1>0, <2>1, <2>3, ConstantsAssumption DEF TypeOK, TimelyMode, DisjointPaths
    <3> QED
      BY <1>1, <1>4, <2>1, <3>1, <3>2, SameVolume
  <2> QED
    BY <1>5, <2>2, <2>3 DEF TimelyInv, LoopRules
<1> QED
  BY <1>8, <1>9, <1>10, <1>11

\* A goroutine ends.
LEMMA GoroutinesTimely ==
  ASSUME TimelyMode, Before, NEW v \in Volumes, CleanSucceeds(v) \/ CleanFails(v)
  PROVE  TimelyInv'
<1>0. TypeOK /\ VolumeInv(v) /\ LoopRules
  BY DEF Before, TimelyInv, LoopRules
<1>1. UNCHANGED <<pvs, jobs, jobEvents, jobLister, config, pc, todo, cur>>
  BY DEF CleanSucceeds, CleanFails, clusterVars, loopVars
<1>2. procTable[v] = "CSRunning"
  <2>1. cleaning[v] > 0
    BY DEF CleanSucceeds, CleanFails
  <2> QED
    BY <2>1 DEF Before, ProcTableProtocol, IsRunning
<1>3. /\ \/ procTable' = [procTable EXCEPT ![v] = "CSFailed"] /\ data' = data
         \/ procTable' = [procTable EXCEPT ![v] = "CSSucceeded"]
            /\ data' = [data EXCEPT ![PathOf[v]] = "clean"]
  BY <1>2 DEF CleanSucceeds, CleanFails, MarkStatus, clusterVars
<1>4. procTable'[v] \in {"CSFailed", "CSSucceeded"} /\ \A u \in Volumes \ {v} : procTable'[u] = procTable[u]
  BY <1>0, <1>3 DEF TypeOK
<1>5. \A u \in Volumes : /\ InSnapshot(u)' <=> InSnapshot(u)
                         /\ Undecided(u)' <=> Undecided(u)
                         /\ SeesSuccess(u)' <=> SeesSuccess(u)
  BY <1>1 DEF InSnapshot, Undecided, SeesSuccess, Succeeded
<1>6. VolumeInv(v)'
  <2>1. ~RunsJob(v) /\ ~RunsJob(v)' /\ Reclaimable(pvs[v]) /\ Reclaimable(pvs[v])'
    BY <1>0, <1>1, <1>2 DEF VolumeInv, Attended, RunsJob, Reclaimable
  <2>2. Wiped(v)' => data'[PathOf[v]] = "clean"
    <3>1. CASE data' = [data EXCEPT ![PathOf[v]] = "clean"]
      BY <1>0, <3>1, ConstantsAssumption DEF TypeOK
    <3>2. CASE data' = data /\ procTable' = [procTable EXCEPT ![v] = "CSFailed"]
      <4>1. procTable'[v] = "CSFailed"
        BY <1>0, <3>2 DEF TypeOK
      <4> QED
        BY <1>0, <1>1, <3>2, <4>1 DEF Wiped, VolumeInv
    <3> QED
      BY <1>3, <3>1, <3>2
  <2> QED
    BY <1>0, <1>1, <1>5, <2>1, <2>2 DEF VolumeInv
<1>7. ASSUME NEW u \in Volumes, u # v PROVE VolumeInv(u)'
  <2>1. VolumeInv(u)
    BY DEF Before, TimelyInv
  <2>2. data'[PathOf[u]] = data[PathOf[u]]
    BY <1>0, <1>3, <1>7, ConstantsAssumption DEF TypeOK, TimelyMode, DisjointPaths
  <2> QED
    BY <1>1, <1>4, <1>5, <1>7, <2>1, <2>2, SameVolume
<1>8. LoopRules'
  <2>1. pc = "deletePV" => cur \in Volumes /\ cur # v
    BY <1>0, <1>2 DEF LoopRules, TypeOK, BusyPCs
  <2> QED
    BY <1>0, <1>1, <1>4, <2>1 DEF LoopRules
<1> QED
  BY <1>6, <1>7, <1>8 DEF TimelyInv, LoopRules

\* The status of an earlier cleaning is taken.
LEMMA StatusStepsTimely ==
  ASSUME TimelyMode, Before, NEW result, TakeStatus(result) \/ ForgetStatus(result)
  PROVE  TimelyInv'
<1>p. PICK v \in Volumes : v = cur
  BY DEF Before, TypeOK, BusyPCs, TakeStatus, ForgetStatus
<1>0. v = cur /\ TypeOK /\ VolumeInv(v) /\ LoopRules /\ v \notin todo
  BY <1>p DEF Before, TimelyInv, LoopRules
<1>1. /\ UNCHANGED <<pvs, data, jobLister, config, todo>> /\ RemoveStatus(v, result)
      /\ pc \in {"removeStatus", "forgetStatus"} /\ cur' \in {v, NoVolume}
      /\ pc' \in IF pc = "removeStatus" THEN {"delete", "deletePV", "startCleaning"}
                                       ELSE {"discover", "createPV"}
      /\ pc' \in {"delete", "discover"} => cur' = NoVolume
      /\ pc' = "deletePV" => result = "CSSucceeded" /\ cur' = v
  BY <1>0 DEF TakeStatus, ForgetStatus
<1>2. \A u \in Volumes : /\ InSnapshot(u)' => InSnapshot(u)
                         /\ Undecided(u)' => Undecided(u) /\ u # v
  BY <1>0, <1>1, ConstantsAssumption DEF InSnapshot, Undecided, DeletePCs
<1>3. NoVolume \notin todo
  BY <1>0, ConstantsAssumption DEF TypeOK
<1>4. CASE ~RunsJob(v)
  <2>1. /\ UNCHANGED <<jobs, jobEvents>> /\ jobs[v] = NoJob
        /\ result = RemoveEntryResult(procTable, v) /\ procTable' = RemoveEntry(procTable, v)
    BY <1>0, <1>1, <1>4 DEF RemoveStatus, VolumeInv
  <2>2. procTable[v] # "CSRunning"
    BY <1>0, <1>1, <1>4 DEF Before, ProcTableProtocol, IsRunning
  <2>3. /\ result = procTable[v] /\ procTable'[v] = "CSNotFound"
        /\ \A u \in Volumes \ {v} : procTable'[u] = procTable[u]
    BY <1>0, <2>1, <2>2 DEF RemoveEntryResult, RemoveEntry, IsRunning, TypeOK
  <2>4. \A u \in Volumes : SeesSuccess(u)' <=> SeesSuccess(u)
    BY <1>1, <2>1 DEF SeesSuccess, Succeeded
  <2>5. LoopRules'
    <3>1. config' \in Configs /\ cur' \notin todo'
      BY <1>0, <1>1, <1>3 DEF LoopRules
    <3>2. NoJob # Done /\ NoJob.status \notin {"active", "failed"}
      BY DEF NoJob, Done
    <3>3. pc' = "deletePV" => cur' = v /\ procTable'[v] = "CSNotFound" /\ jobs'[v] = NoJob
      BY <1>1, <2>1, <2>3
    <3> QED
      BY <3>1, <3>2, <3>3 DEF LoopRules
  <2>6. VolumeInv(v)'
    <3>1. Wiped(v)' => Wiped(v)
      BY <1>1, <2>1, <2>3 DEF Wiped
    <3>2. Attended(v)' => Attended(v)
      BY <1>0, <1>1, <1>2, <2>1, <2>3 DEF Attended
    <3>3. ~RunsJob(v)' /\ ~Undecided(v)' /\ (Reclaimable(pvs[v])' <=> Reclaimable(pvs[v]))
      BY <1>0, <1>1, <1>2, <1>4 DEF RunsJob, Reclaimable
    <3> QED
      BY <1>0, <1>1, <2>1, <3>1, <3>2, <3>3 DEF VolumeInv
  <2>7. ASSUME NEW u \in Volumes, u # v PROVE VolumeInv(u)'
    <3>1. VolumeInv(u)
      BY DEF Before, TimelyInv
    <3> QED
      BY <1>1, <1>2, <2>1, <2>3, <2>4, <2>7, <3>1, SameVolume
  <2> QED
    BY <2>5, <2>6, <2>7 DEF TimelyInv, LoopRules
<1>5. CASE RunsJob(v)
  <2>1. RemoveJob(v, result) /\ UNCHANGED procTable /\ procTable[v] = "CSNotFound"
    BY <1>0, <1>1, <1>5 DEF RemoveStatus, VolumeInv
  <2>2. jobLister[v].status = "succeeded" => jobs[v].status \notin {"active", "failed"}
    BY <1>0 DEF Before, JobsInv, JobViewInv, SeesSuccess
  <2>3. jobs[v] \in Job
    BY <1>0 DEF TypeOK
  <2>4. PICK new \in Job :
          /\ (new = jobs[v] /\ UNCHANGED <<jobs, jobEvents>>) \/ PutJob(v, new)
          /\ new = jobs[v] \/ (new.deleting /\ new.status = "succeeded")
    <3>1. CASE UNCHANGED <<jobs, jobEvents>>
      BY <2>3, <3>1
    <3>2. CASE ~UNCHANGED <<jobs, jobEvents>>
      <4> DEFINE new == [jobs[v] EXCEPT !.deleting = TRUE]
      <4>1. jobLister[v].status = "succeeded" /\ jobs[v] # NoJob /\ ~jobs[v].deleting /\ PutJob(v, new)
        BY <2>1, <3>2 DEF RemoveJob, RequestJobDeletion
      <4>2. jobs[v].status = "succeeded"
        BY <2>2, <2>3, <4>1 DEF Job, NoJob
      <4>3. new \in Job /\ new.deleting /\ new.status = "succeeded"
        BY <2>3, <4>2 DEF Job
      <4> QED
        BY <4>1, <4>3
    <3> QED
      BY <3>1, <3>2
  <2>5. jobs'[v] = new /\ \A u \in Volumes \ {v} : jobs'[u] = jobs[u]
    BY <1>0, <2>4 DEF PutJob, TypeOK
  <2>6. \A u \in Volumes \ {v} : SeesSuccess(u)' => SeesSuccess(u)
    <3>1. CASE PutJob(v, new)
      BY <1>0, <1>1, <3>1, PutJobSeen
    <3>2. CASE UNCHANGED <<jobs, jobEvents>>
      BY <1>1, <3>2 DEF SeesSuccess, Succeeded
    <3> QED
      BY <2>4, <3>1, <3>2
  <2>7. pc' = "deletePV" => jobs[v] = Done /\ new.deleting /\ new.status = "succeeded"
    <3> SUFFICES ASSUME pc' = "deletePV"
                 PROVE  jobs[v] = Done /\ new.deleting /\ new.status = "succeeded"
      OBVIOUS
    <3>1. result = "CSSucceeded" /\ pc = "removeStatus"
      BY <1>1
    <3>2. jobLister[v].status = "succeeded" /\ jobs[v] # NoJob /\ RequestJobDeletion(v)
      BY <2>1, <3>1 DEF RemoveJob
    <3>3. jobs[v] = Done
      BY <1>0, <3>1, <3>2 DEF VolumeInv, Undecided, SeesSuccess, DeletePCs
    <3>4. jobs'[v].deleting
      <4>1. PutJob(v, [jobs[v] EXCEPT !.deleting = TRUE])
        BY <3>2, <3>3 DEF RequestJobDeletion, Done
      <4> QED
        BY <1>0, <2>3, <4>1 DEF PutJob, TypeOK, Job
    <3> QED
      BY <2>4, <2>5, <3>3, <3>4 DEF Done
  <2>8. LoopRules'
    BY <1>0, <1>1, <1>3, <2>1, <2>5, <2>7 DEF LoopRules, Done
  <2>9. VolumeInv(v)'
    <3>1. new # jobs[v] => new # Done /\ new.status \notin {"active", "failed"}
      <4>1. ~Done.deleting
        BY DEF Done
      <4>2. new # jobs[v] => new.deleting /\ new.status = "succeeded"
        BY <2>4
      <4> QED
        BY <4>1, <4>2
    <3>2. Wiped(v)' => Wiped(v)
      BY <1>1, <2>1, <2>5, <2>7, <3>1 DEF Wiped
    <3>3. Attended(v)' => Attended(v)
      BY <1>0, <1>2, <2>1, <2>5, <3>1 DEF Attended
    <3>4. RunsJob(v)' /\ ~Undecided(v)' /\ (Reclaimable(pvs[v])' <=> Reclaimable(pvs[v]))
      BY <1>0, <1>1, <1>2, <1>5 DEF RunsJob, Reclaimable
    <3> QED
      BY <1>0, <1>1, <2>1, <3>2, <3>3, <3>4 DEF VolumeInv
  <2>10. ASSUME NEW u \in Volumes, u # v PROVE VolumeInv(u)'
    <3>1. VolumeInv(u)
      BY DEF Before, TimelyInv
    <3> QED
      BY <1>1, <1>2, <2>1, <2>5, <2>6, <2>10, <3>1, SameVolume
  <2> QED
    BY <2>8, <2>9, <2>10 DEF TimelyInv, LoopRules
<1> QED
  BY <1>4, <1>5

\* The PV of a volume that is wiped is deleted.
LEMMA DeletePVTimely ==
  ASSUME TimelyMode, Before, DeletePV
  PROVE  TimelyInv'
<1>p. PICK v \in Volumes : v = cur
  BY DEF Before, TypeOK, BusyPCs, DeletePV
<1>0. v = cur /\ TypeOK /\ VolumeInv(v) /\ LoopRules /\ v \notin todo /\ pc = "deletePV"
  BY <1>p DEF Before, TimelyInv, LoopRules, DeletePV
<1>1. /\ UNCHANGED <<jobs, data, jobEvents, jobLister, config, procTable, todo>>
      /\ pc' = "delete" /\ cur' = NoVolume /\ RequestPVDeletion(v)
  BY <1>0 DEF DeletePV, NextReclaim, processVars
<1>2. Reclaimable(pvs[v]) /\ data[PathOf[v]] = "clean" /\ pvs[v] \in PV
  BY <1>0 DEF VolumeInv, Attended, InSnapshot, Wiped, DeletePCs, TypeOK
<1>3. PICK new \in PV : PutPV(v, new) /\ new.phase = "Released" /\ new.deleting
  <2>1. PutPV(v, [pvs[v] EXCEPT !.deleting = TRUE])
    BY <1>1, <1>2 DEF RequestPVDeletion, Reclaimable, NoPV
  <2>2. /\ [pvs[v] EXCEPT !.deleting = TRUE] \in PV
        /\ [pvs[v] EXCEPT !.deleting = TRUE].phase = "Released"
        /\ [pvs[v] EXCEPT !.deleting = TRUE].deleting
    BY <1>2 DEF PV, Reclaimable
  <2> QED
    BY <2>1, <2>2
<1>4. pvs'[v] = new /\ \A u \in Volumes \ {v} : pvs'[u] = pvs[u]
  BY <1>0, <1>3 DEF PutPV, TypeOK
<1>5. \A u \in Volumes : /\ InSnapshot(u)' => InSnapshot(u) /\ u # v
                         /\ Undecided(u)' => Undecided(u) /\ u # v
                         /\ SeesSuccess(u)' <=> SeesSuccess(u)
  BY <1>0, <1>1, ConstantsAssumption DEF InSnapshot, Undecided, DeletePCs, SeesSuccess, Succeeded
<1>6. LoopRules'
  BY <1>0, <1>1, ConstantsAssumption DEF LoopRules, TypeOK
<1>7. VolumeInv(v)'
  <2>1. ~Attended(v)'
    BY <1>0, <1>1, <1>5 DEF Attended, LoopRules
  <2>2. RunsJob(v)' <=> RunsJob(v)
    BY <1>1 DEF RunsJob
  <2> QED
    BY <1>0, <1>1, <1>2, <1>3, <1>4, <1>5, <2>1, <2>2 DEF VolumeInv
<1>8. ASSUME NEW u \in Volumes, u # v PROVE VolumeInv(u)'
  <2>1. VolumeInv(u)
    BY DEF Before, TimelyInv
  <2> QED
    BY <1>1, <1>4, <1>5, <1>8, <2>1, SameVolume
<1> QED
  BY <1>6, <1>7, <1>8 DEF TimelyInv, LoopRules

\* A cleaning is started, as a goroutine or as a Job.
LEMMA CleaningStartsTimely ==
  ASSUME TimelyMode, Before, RunProcess \/ RunJob
  PROVE  TimelyInv'
<1>p. PICK v \in Volumes : v = cur
  BY DEF Before, TypeOK, BusyPCs, RunProcess, RunJob
<1>0. v = cur /\ TypeOK /\ VolumeInv(v) /\ LoopRules /\ v \notin todo /\ pc = "startCleaning"
  BY <1>p DEF Before, TimelyInv, LoopRules, RunProcess, RunJob
<1>1. /\ UNCHANGED <<pvs, data, jobLister, config, todo>>
      /\ pc' = "delete" /\ cur' = NoVolume
  BY DEF RunProcess, RunJob, NextReclaim, clusterVars, processVars
<1>2. \A u \in Volumes : /\ InSnapshot(u)' => InSnapshot(u) /\ u # v
                         /\ Undecided(u)' => Undecided(u) /\ u # v
  BY <1>0, <1>1, ConstantsAssumption DEF InSnapshot, Undecided, DeletePCs
<1>3. Reclaimable(pvs[v])' /\ (RunsJob(v)' <=> RunsJob(v))
  BY <1>0, <1>1 DEF VolumeInv, Attended, InSnapshot, DeletePCs, Reclaimable, RunsJob
<1>4. LoopRules'
  BY <1>0, <1>1, ConstantsAssumption DEF LoopRules, TypeOK
<1>5. CASE RunProcess
  <2>1. ~RunsJob(v) /\ jobs[v] = NoJob /\ UNCHANGED <<jobs, jobEvents>>
    BY <1>0, <1>5 DEF RunProcess, VolumeInv, clusterVars
  <2>2. procTable'[v] = "CSRunning" /\ \A u \in Volumes \ {v} : procTable'[u] = procTable[u]
    <3>1. procTable[v] = "CSNotFound"
      BY <1>0, <2>1 DEF Before, ProcTableProtocol, MarkRunningAccepts
    <3> QED
      BY <1>0, <1>5, <3>1 DEF RunProcess, MarkRunning, MarkRunningAccepts, TypeOK
  <2>3. \A u \in Volumes : SeesSuccess(u)' <=> SeesSuccess(u)
    BY <1>1, <2>1 DEF SeesSuccess, Succeeded
  <2>4. Wiped(v)' => Wiped(v)
    BY <1>1, <2>1, <2>2 DEF Wiped
  <2>5. VolumeInv(v)'
    BY <1>0, <1>1, <1>2, <1>3, <2>1, <2>4 DEF VolumeInv
  <2>6. ASSUME NEW u \in Volumes, u # v PROVE VolumeInv(u)'
    <3>1. VolumeInv(u)
      BY DEF Before, TimelyInv
    <3> QED
      BY <1>1, <1>2, <2>1, <2>2, <2>3, <2>6, <3>1, SameVolume
  <2> QED
    BY <1>4, <2>5, <2>6 DEF TimelyInv, LoopRules
<1>6. CASE RunJob
  <2> DEFINE new == [status |-> "active", deleting |-> FALSE]
  <2>1. /\ RunsJob(v) /\ UNCHANGED procTable /\ procTable[v] = "CSNotFound"
        /\ UNCHANGED <<jobs, jobEvents>> \/ PutJob(v, new)
    BY <1>0, <1>6 DEF RunJob, VolumeInv, processVars
  <2>2. new \in Job /\ new.status = "active" /\ new # Done
    BY DEF Job, Done
  <2> HIDE DEF new
  <2>3. jobs'[v] \in {jobs[v], new} /\ \A u \in Volumes \ {v} : jobs'[u] = jobs[u]
    BY <1>0, <2>1 DEF PutJob, TypeOK
  <2>4. \A u \in Volumes : SeesSuccess(u)' => SeesSuccess(u)
    <3>1. CASE UNCHANGED <<jobs, jobEvents>>
      BY <1>1, <3>1 DEF SeesSuccess, Succeeded
    <3>2. CASE PutJob(v, new)
      BY <1>0, <1>1, <2>2, <3>2, PutJobSeen
    <3> QED
      BY <2>1, <3>1, <3>2
  <2>5. Wiped(v)' => Wiped(v)
    BY <1>1, <2>1, <2>2, <2>3 DEF Wiped
  <2>6. VolumeInv(v)'
    BY <1>0, <1>1, <1>2, <1>3, <2>1, <2>5 DEF VolumeInv
  <2>7. ASSUME NEW u \in Volumes, u # v PROVE VolumeInv(u)'
    <3>1. VolumeInv(u)
      BY DEF Before, TimelyInv
    <3> QED
      BY <1>1, <1>2, <2>1, <2>3, <2>4, <2>7, <3>1, SameVolume
  <2> QED
    BY <1>4, <2>6, <2>7 DEF TimelyInv, LoopRules
<1> QED
  BY <1>5, <1>6

\* A PV is created for a volume that has none.
LEMMA CreatePVTimely ==
  ASSUME TimelyMode, Before, CreatePV
  PROVE  TimelyInv'
<1>p. PICK v \in Volumes : v = cur
  BY DEF Before, TypeOK, BusyPCs, CreatePV
<1>0. v = cur /\ TypeOK /\ VolumeInv(v) /\ LoopRules /\ v \notin todo /\ pc = "createPV"
  BY <1>p DEF Before, TimelyInv, LoopRules, CreatePV
<1>1. /\ UNCHANGED <<jobs, data, jobEvents, jobLister, config, procTable, todo>>
      /\ pc' = "discover" /\ cur' = NoVolume
  BY DEF CreatePV, NextFile, processVars
<1>2. \A u \in Volumes : /\ ~InSnapshot(u)' /\ ~Undecided(u)'
                         /\ SeesSuccess(u)' <=> SeesSuccess(u)
  BY <1>1 DEF InSnapshot, Undecided, DeletePCs, SeesSuccess, Succeeded
<1>3. cur' \notin todo'
  BY <1>0, <1>1, ConstantsAssumption DEF TypeOK
<1>4. CASE pvs[v] # NoPV
  <2>1. pvs' = pvs
    BY <1>0, <1>4 DEF CreatePV
  <2> QED
    BY <1>0, <1>1, <1>2, <1>3, <2>1, LoopMoves DEF LoopRules
<1>5. CASE pvs[v] = NoPV
  <2>1. PutPV(v, CreatedPV(v)) /\ CreatedPV(v) \in PV
    BY <1>0, <1>5, CreatedPVType DEF CreatePV
  <2>2. pvs'[v] = CreatedPV(v) /\ \A u \in Volumes \ {v} : pvs'[u] = pvs[u]
    BY <1>0, <2>1 DEF PutPV, TypeOK
  <2>3. CreatedPV(v).phase = "Available" /\ ~CreatedPV(v).deleting
    BY DEF CreatedPV
  <2>4. ~Attended(v) /\ data[PathOf[v]] = "clean"
    BY <1>0, <1>5 DEF VolumeInv, Reclaimable, Wiped, NoPV
  <2>5. VolumeInv(v)'
    BY <1>0, <1>1, <1>2, <2>2, <2>3, <2>4, UnattendedVolume
  <2>6. ASSUME NEW u \in Volumes, u # v PROVE VolumeInv(u)'
    <3>1. VolumeInv(u)
      BY DEF Before, TimelyInv
    <3> QED
      BY <1>1, <1>2, <2>2, <2>6, <3>1, SameVolume
  <2>7. LoopRules'
    BY <1>0, <1>1, <1>3 DEF LoopRules
  <2> QED
    BY <2>5, <2>6, <2>7 DEF TimelyInv, LoopRules
<1> QED
  BY <1>4, <1>5

\* The deleter takes its snapshot of a cache, and will ask a lister, that are
\* up to date.
LEMMA ListPVsTimely ==
  ASSUME TimelyMode, Before, ListPVs
  PROVE  TimelyInv'
<1>1. /\ UNCHANGED <<pvs, jobs, data, jobEvents, jobLister, config, procTable, cur>>
      /\ pc = "idle" /\ pc' = "delete" /\ todo' = {v \in Volumes : Reclaimable(cache[v])}
      /\ pvEvents = <<>> /\ jobEvents = <<>> /\ \A v \in Volumes : ~jobs[v].deleting
  BY DEF ListPVs, TimelyMode, Timely, clusterVars, processVars
<1>2. TypeOK /\ LoopRules /\ cur = NoVolume
  BY <1>1 DEF Before, TimelyInv, LoopRules, TypeOK, BusyPCs
<1>3. LoopRules'
  BY <1>1, <1>2, ConstantsAssumption DEF LoopRules
<1>4. ASSUME NEW v \in Volumes PROVE VolumeInv(v)'
  <2>0. VolumeInv(v) /\ jobs[v] \in Job
    BY <1>2 DEF Before, TimelyInv, TypeOK
  <2>1. InSnapshot(v)' => Reclaimable(pvs[v])
    <3>1. cache[v] = IF Adopts(pvs[v]) THEN pvs[v] ELSE NoPV
      BY <1>1 DEF Before, CacheConverges, Up
    <3>2. InSnapshot(v)' => Reclaimable(cache[v])
      BY <1>1, <1>2, ConstantsAssumption DEF InSnapshot
    <3>3. ~Reclaimable(NoPV)
      BY DEF Reclaimable, NoPV
    <3> QED
      BY <3>1, <3>2, <3>3
  <2>2. SeesSuccess(v)' => jobs[v] \in {Done, NoJob}
    <3>1. SeesSuccess(v)' => SeesSuccess(v)
      BY <1>1 DEF SeesSuccess, Succeeded
    <3>2. SeesSuccess(v) => jobs[v].status \notin {"active", "failed"}
      BY DEF Before, JobsInv, JobViewInv
    <3>3. jobs[v].deleting = FALSE
      BY <1>1, <2>0 DEF Job
    <3>4. jobs[v].status \notin {"active", "failed"} => jobs[v] \in {Done, NoJob}
      BY <2>0, <3>3 DEF Job, Done, NoJob
    <3> QED
      BY <3>1, <3>2, <3>4
  <2>3. Attended(v)' => Attended(v) \/ InSnapshot(v)'
    BY <1>1 DEF Attended
  <2>4. Wiped(v)' => Wiped(v)
    BY <1>1 DEF Wiped
  <2>5. (RunsJob(v)' <=> RunsJob(v)) /\ (Reclaimable(pvs[v])' <=> Reclaimable(pvs[v]))
    BY <1>1 DEF RunsJob, Reclaimable
  <2> QED
    BY <1>1, <2>0, <2>1, <2>2, <2>3, <2>4, <2>5 DEF VolumeInv
<1> QED
  BY <1>3, <1>4 DEF TimelyInv, LoopRules

\* A process that dies leaves Jobs and PVs behind; the next one runs in the
\* same mode.
LEMMA LifeStepsTimely ==
  ASSUME TimelyMode, Before, Start \/ Crash
  PROVE  TimelyInv'
<1>1. /\ UNCHANGED <<pvs, jobs, data>> /\ config' \in Configs /\ config \in Configs
      /\ cur' \notin todo' /\ pc' \notin DeletePCs
      /\ procTable' \in {procTable, EmptyProcTable(Volumes)}
  BY DEF Before, TimelyInv, Start, Crash, DeletePCs
<1>2. config'.useJob = config.useJob
  BY <1>1 DEF TimelyMode, OneMode
<1>3. ASSUME NEW v \in Volumes PROVE VolumeInv(v)'
  <2>1. VolumeInv(v)
    BY DEF Before, TimelyInv
  <2>2. procTable'[v] \in {procTable[v], "CSNotFound"}
    BY <1>1 DEF EmptyProcTable
  <2>3. ~InSnapshot(v)' /\ ~Undecided(v)' /\ pc' # "deletePV"
    BY <1>1 DEF InSnapshot, Undecided, DeletePCs
  <2>4. (Attended(v)' => Attended(v)) /\ (Wiped(v)' => Wiped(v))
    BY <1>1, <2>2, <2>3 DEF Attended, Wiped
  <2>5. (RunsJob(v)' <=> RunsJob(v)) /\ (Reclaimable(pvs[v])' <=> Reclaimable(pvs[v]))
    BY <1>1, <1>2 DEF RunsJob, Reclaimable
  <2> QED
    BY <1>1, <2>1, <2>2, <2>3, <2>4, <2>5 DEF VolumeInv
<1> QED
  BY <1>1, <1>3 DEF TimelyInv, DeletePCs

\* The other steps of the loop.
LEMMA LoopStepsTimely ==
  ASSUME TimelyMode, Before,
         \/ DeletePVFails \/ RunJobFails \/ ListFiles \/ CreatePVFails \/ EndPass
         \/ \E v \in Volumes :
                SkipReclaim(v) \/ BeginReclaim(v) \/ SkipFile(v) \/ BeginCreate(v)
  PROVE  TimelyInv'
<1>0. TypeOK /\ LoopRules
  BY DEF Before, TimelyInv, LoopRules
<1>1. UNCHANGED <<pvs, jobs, data, jobEvents, jobLister, config, procTable>>
  BY DEF DeletePVFails, RunJobFails, ListFiles, CreatePVFails, EndPass, SkipReclaim,
         BeginReclaim, SkipFile, BeginCreate, clusterVars, processVars
<1>2. \A u \in Volumes : SeesSuccess(u)' <=> SeesSuccess(u)
  BY <1>1 DEF SeesSuccess, Succeeded
<1>3. pc \notin BusyPCs => cur = NoVolume
  BY <1>0 DEF TypeOK
<1>4. pc' # "deletePV" /\ cur' \notin todo'
  BY <1>0, <1>3, ConstantsAssumption
  DEF LoopRules, TypeOK, BusyPCs, DeletePVFails, RunJobFails, ListFiles, CreatePVFails, EndPass,
      SkipReclaim, BeginReclaim, SkipFile, BeginCreate, NextReclaim, NextFile
<1>5. \A u \in Volumes : (InSnapshot(u)' => InSnapshot(u)) /\ (Undecided(u)' => Undecided(u))
  BY <1>3, ConstantsAssumption
  DEF InSnapshot, Undecided, DeletePCs, DiscoverPCs, BusyPCs, DeletePVFails, RunJobFails,
      ListFiles, CreatePVFails, EndPass, SkipReclaim, BeginReclaim, SkipFile, BeginCreate,
      NextReclaim, NextFile
<1> QED
  BY <1>0, <1>1, <1>2, <1>4, <1>5, LoopMoves DEF LoopRules

\* The informers, and steps that change nothing.
LEMMA InformersTimely ==
  ASSUME TimelyMode, Before, DeliverPVEvent \/ DeliverJobEvent \/ UNCHANGED vars
  PROVE  TimelyInv'
<1>0. TypeOK /\ LoopRules
  BY DEF Before, TimelyInv, LoopRules
<1>1. UNCHANGED <<pvs, jobs, data, config, procTable, pc, todo, cur>>
  BY DEF DeliverPVEvent, DeliverJobEvent, vars, clusterVars, processVars, loopVars
<1>2. \A u \in Volumes : SeesSuccess(u)' => SeesSuccess(u)
  <2>1. CASE DeliverJobEvent
    BY <1>0, <2>1, DeliverySeen
  <2>2. CASE UNCHANGED <<jobEvents, jobLister>>
    BY <2>2 DEF SeesSuccess, Succeeded
  <2> QED
    BY <2>1, <2>2 DEF DeliverPVEvent, vars, clusterVars, processVars
<1>3. \A u \in Volumes : (InSnapshot(u)' => InSnapshot(u)) /\ (Undecided(u)' => Undecided(u))
  BY <1>1 DEF InSnapshot, Undecided
<1> QED
  BY <1>0, <1>1, <1>2, <1>3, LoopMoves DEF LoopRules

-----------------------------------------------------------------------------
(* The theorems.                                                           *)

\* Only a volume whose PV is to be reclaimed is ever cleaned, or taken as
\* cleaned, by the deleter, its goroutines and its Jobs.
THEOREM TimelyInvariant ==
  ASSUME TimelyMode
  PROVE  Spec => []TimelyInv
<1>1. Init => TimelyInv
  <2> SUFFICES ASSUME Init PROVE TimelyInv
    OBVIOUS
  <2>1. ASSUME NEW v \in Volumes PROVE VolumeInv(v)
    <3>1. /\ pvs[v] = NoPV /\ jobs[v] = NoJob /\ procTable[v] = "CSNotFound" /\ pc = "down"
          /\ data[PathOf[v]] = "clean"
      BY ConstantsAssumption DEF Init, EmptyProcTable
    <3>2. ~Attended(v) /\ ~Undecided(v)
      BY <3>1 DEF Attended, Undecided, InSnapshot, DeletePCs, NoJob, Done
    <3> QED
      BY <3>1, <3>2 DEF VolumeInv, NoPV
  <2> QED
    BY <2>1 DEF Init, TimelyInv
<1>2. Before /\ JobsInv' /\ [Next]_vars => TimelyInv'
  <2> SUFFICES ASSUME Before, JobsInv', [Next]_vars PROVE TimelyInv'
    OBVIOUS
  <2>1. ~\E v \in Volumes : \/ AdminDeletesPV(v) \/ AdminReusesPV(v)
                            \/ \E policy \in Policies : AdminSetsPolicy(v, policy)
    BY DEF TimelyMode, NoAdmin, AdminFaults, AdminDeletesPV, AdminReusesPV, AdminSetsPolicy
  <2> QED
    BY <2>1, JobStepsTimely, UserStepsTimely, GoroutinesTimely, StatusStepsTimely, DeletePVTimely,
       CleaningStartsTimely, CreatePVTimely, ListPVsTimely, LifeStepsTimely, LoopStepsTimely,
       InformersTimely, Zenon
    DEF Next, SyncLoop, Environment
<1>3. JobsInv /\ CacheConverges /\ ProcTableProtocol /\ TimelyInv => Before
  BY DEF Before, JobsInv
<1> QED
  BY <1>1, <1>2, <1>3, JobsInvariant, CacheIsTruthful, TableProtocolKept, PTL DEF Spec

\* While a goroutine or a Job cleans a volume, nobody is offered or uses it,
\* also when Jobs outlive the process that created them.
THEOREM NeverCleanedInUseByJobs ==
  ASSUME TimelyMode
  PROVE  Spec => []NoPVWhileCleaning
<1>1. TimelyInv /\ ProcTableProtocol => NoPVWhileCleaning
  <2> SUFFICES ASSUME TimelyInv, ProcTableProtocol, NEW v \in Volumes, NEW w \in Volumes,
                      Usable(v), PathOf[w] = PathOf[v],
                      cleaning[w] > 0 \/ jobs[w].status = "active"
               PROVE  FALSE
    BY DEF NoPVWhileCleaning, BeingCleaned
  <2>1. w = v
    BY DEF TimelyMode, DisjointPaths
  <2>2. cleaning[v] > 0 => procTable[v] = "CSRunning"
    BY DEF ProcTableProtocol, IsRunning
  <2>3. Attended(v)
    BY <2>1, <2>2 DEF Attended
  <2> QED
    BY <2>3 DEF TimelyInv, VolumeInv, Reclaimable, Usable
<1> QED
  BY <1>1, TimelyInvariant, TableProtocolKept, PTL

\* A PV on offer stands for a volume without data of an earlier claim, also
\* when Jobs clean it.
THEOREM OfferedCleanByJobs ==
  ASSUME TimelyMode
  PROVE  Spec => []CleanWhenOffered
<1>1. TimelyInv => CleanWhenOffered
  BY DEF TimelyInv, VolumeInv, Wiped, CleanWhenOffered
<1> QED
  BY <1>1, TimelyInvariant, PTL

\* With Jobs, too, the provisioner, the API server and the users implement
\* the abstract life of each volume.
THEOREM RefinementByJobs ==
  ASSUME TimelyMode
  PROVE  Spec => ImplementsLifecycle
<1>1. TimelyInv /\ ProcTableProtocol => LifecyclePromise
  <2> SUFFICES ASSUME TimelyInv, ProcTableProtocol, NEW v \in Volumes
               PROVE  /\ pvs[v].deleting => pvs[v].phase = "Released" /\ data[PathOf[v]] = "clean"
                      /\ pvs[v] = NoPV => data[PathOf[v]] = "clean"
                      /\ cleaning[v] > 0 \/ jobs[v].status = "active" => ~Usable(v)
    BY DEF LifecyclePromise
  <2>1. VolumeInv(v)
    BY DEF TimelyInv
  <2>2. cleaning[v] > 0 => procTable[v] = "CSRunning"
    BY DEF ProcTableProtocol, IsRunning
  <2>3. cleaning[v] > 0 \/ jobs[v].status = "active" => ~Usable(v)
    BY <2>1, <2>2 DEF VolumeInv, Attended, Reclaimable, Usable
  <2>4. pvs[v].deleting => pvs[v].phase = "Released" /\ data[PathOf[v]] = "clean"
    BY <2>1 DEF VolumeInv, Wiped
  <2>5. pvs[v] = NoPV => data[PathOf[v]] = "clean"
    <3>1. NoPV.phase = "Absent"
      BY DEF NoPV
    <3> QED
      BY <2>1, <3>1 DEF VolumeInv, Wiped
  <2> QED
    BY <2>3, <2>4, <2>5
<1>2. TypeOK /\ TimelyInv /\ ProcTableProtocol /\ [Next]_vars
          => [Lifecycle!Next]_(Lifecycle!vars)
  <2> SUFFICES ASSUME TypeOK, TimelyInv, ProcTableProtocol, [Next]_vars
               PROVE  [Lifecycle!Next]_(Lifecycle!vars)
    OBVIOUS
  <2>1. NoAdmin /\ DisjointPaths /\ LifecyclePromise
    BY <1>1 DEF TimelyMode
  <2> QED
    BY <2>1, LifecycleStep
<1> QED
  BY <1>2, LifecycleInit, TypeCorrect, TimelyInvariant, TableProtocolKept, PTL
  DEF Spec, ImplementsLifecycle, Lifecycle!Spec
=============================================================================
