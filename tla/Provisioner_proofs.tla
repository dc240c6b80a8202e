------------------------- MODULE Provisioner_proofs -------------------------
(***************************************************************************)
(* Proofs about Provisioner, for every set of volumes, classes and         *)
(* configurations.                                                         *)
(***************************************************************************)
EXTENDS Provisioner, TLAPS

-----------------------------------------------------------------------------
(* The objects written to the API server have their types.                 *)

\* The constants that stand for "no object" are values of the object types.
LEMMA NoObjects == NoPV \in PV /\ NoJob \in Job
  BY DEF NoPV, PV, Phases, Policies, Names, NoJob, Job

\* createPV gives a PV the name of this provisioner, whichever shape it has,
\* and the policy of its class.
LEMMA CreatedPVType ==
  ASSUME TypeOK, NEW v \in Volumes
  PROVE  CreatedPV(v) \in PV
<1>1. ProvisionerName \in Names /\ config.hostLabel \in BOOLEAN
  BY DEF TypeOK, Configuration, ProvisionerName, Names
<1>2. PolicyOf[ClassOf[v]] \in Policies
  BY ConstantsAssumption
<1> QED
  BY <1>1, <1>2 DEF CreatedPV, PV, Phases

\* PutPV keeps the types of what it writes, for a well-typed PV.
LEMMA PutPVType ==
  ASSUME TypeOK, NEW v \in Volumes, NEW pv \in PV, PutPV(v, pv)
  PROVE  pvs' \in [Volumes -> PV] /\ pvEvents' \in Seq([name : Volumes, pv : PV])
<1> DEFINE T == [name : Volumes, pv : PV]
           e == [name |-> v, pv |-> pv]
<1>1. pvs' \in [Volumes -> PV]
  BY DEF TypeOK, PutPV
<1>2. pvEvents \in Seq(T) /\ (pvEvents' = Append(pvEvents, e) \/ pvEvents' = pvEvents)
  BY DEF TypeOK, PutPV
<1>3. e \in T
  OBVIOUS
<1> HIDE DEF T, e
<1>4. pvEvents' \in Seq(T)
  BY <1>2, <1>3
<1> QED
  BY <1>1, <1>4 DEF T

\* PutJob keeps the types of what it writes, for a well-typed Job.
LEMMA PutJobType ==
  ASSUME TypeOK, NEW v \in Volumes, NEW job \in Job, PutJob(v, job)
  PROVE  jobs' \in [Volumes -> Job] /\ jobEvents' \in Seq([name : Volumes, job : Job])
<1> DEFINE T == [name : Volumes, job : Job]
           e == [name |-> v, job |-> job]
<1>1. jobs' \in [Volumes -> Job]
  BY DEF TypeOK, PutJob
<1>2. jobEvents \in Seq(T) /\ (jobEvents' = Append(jobEvents, e) \/ jobEvents' = jobEvents)
  BY DEF TypeOK, PutJob
<1>3. e \in T
  OBVIOUS
<1> HIDE DEF T, e
<1>4. jobEvents' \in Seq(T)
  BY <1>2, <1>3
<1> QED
  BY <1>1, <1>4 DEF T

\* Marking a PV as deleted keeps the types.
LEMMA RequestPVDeletionType ==
  ASSUME TypeOK, NEW v \in Volumes, RequestPVDeletion(v)
  PROVE  pvs' \in [Volumes -> PV] /\ pvEvents' \in Seq([name : Volumes, pv : PV])
<1>1. CASE pvs[v] = NoPV \/ pvs[v].deleting
  BY <1>1 DEF RequestPVDeletion, TypeOK
<1>2. CASE ~(pvs[v] = NoPV \/ pvs[v].deleting)
  <2>1. [pvs[v] EXCEPT !.deleting = TRUE] \in PV
    <3>1. pvs[v] \in PV
      BY DEF TypeOK
    <3> QED
      BY <3>1 DEF PV
  <2>2. PutPV(v, [pvs[v] EXCEPT !.deleting = TRUE])
    BY <1>2 DEF RequestPVDeletion
  <2> QED
    BY <2>1, <2>2, PutPVType, Zenon
<1> QED
  BY <1>1, <1>2

\* Marking a Job as deleted keeps the types.
LEMMA RequestJobDeletionType ==
  ASSUME TypeOK, NEW v \in Volumes, RequestJobDeletion(v)
  PROVE  jobs' \in [Volumes -> Job] /\ jobEvents' \in Seq([name : Volumes, job : Job])
<1>1. CASE jobs[v].deleting
  BY <1>1 DEF RequestJobDeletion, TypeOK
<1>2. CASE ~jobs[v].deleting
  <2>1. [jobs[v] EXCEPT !.deleting = TRUE] \in Job
    <3>1. jobs[v] \in Job
      BY DEF TypeOK
    <3> QED
      BY <3>1 DEF Job
  <2>2. PutJob(v, [jobs[v] EXCEPT !.deleting = TRUE])
    BY <1>2 DEF RequestJobDeletion
  <2> QED
    BY <2>1, <2>2, PutJobType, Zenon
<1> QED
  BY <1>1, <1>2

\* RemoveStatus keeps the types of the table, the Jobs and their events.
LEMMA RemoveStatusType ==
  ASSUME TypeOK, NEW v \in Volumes, NEW result, RemoveStatus(v, result)
  PROVE  /\ jobs' \in [Volumes -> Job]
         /\ jobEvents' \in Seq([name : Volumes, job : Job])
         /\ procTable' \in [Volumes -> CleanupState]
<1>1. CASE RunsJob(v) /\ RemoveJob(v, result) /\ UNCHANGED procTable
  BY <1>1, RequestJobDeletionType, Zenon DEF RemoveJob, TypeOK
<1>2. CASE ~RunsJob(v) /\ procTable' = RemoveEntry(procTable, v) /\ UNCHANGED <<jobs, jobEvents>>
  BY <1>2 DEF RemoveEntry, CleanupState, TypeOK
<1> QED
  BY <1>1, <1>2 DEF RemoveStatus

\* What a write to a PV changes: that PV, and one event at the end.
LEMMA PVWritten ==
  ASSUME TypeOK, NEW v \in Volumes, NEW pv \in PV, PutPV(v, pv)
  PROVE  /\ pvs'[v] = pv
         /\ \A w \in Volumes : w # v => pvs'[w] = pvs[w]
         /\ ~Up => pvEvents' = pvEvents
         /\ \A i \in DOMAIN pvEvents' :
               \/ i \in DOMAIN pvEvents /\ pvEvents'[i] = pvEvents[i]
               \/ /\ i = Len(pvEvents) + 1 /\ i \notin DOMAIN pvEvents
                  /\ pvEvents'[i].name = v /\ pvEvents'[i].pv = pv
<1> DEFINE T == [name : Volumes, pv : PV]
           e == [name |-> v, pv |-> pv]
<1>1. pvs'[v] = pv /\ \A w \in Volumes : w # v => pvs'[w] = pvs[w]
  BY DEF TypeOK, PutPV
<1>2. e.name = v /\ e.pv = pv
  OBVIOUS
<1>3. pvEvents \in Seq(T) /\ pvEvents' = IF Up THEN Append(pvEvents, e) ELSE pvEvents
  BY DEF TypeOK, PutPV
<1> HIDE DEF T, e
<1>4. \A i \in DOMAIN pvEvents' :
         \/ i \in DOMAIN pvEvents /\ pvEvents'[i] = pvEvents[i]
         \/ i = Len(pvEvents) + 1 /\ i \notin DOMAIN pvEvents /\ pvEvents'[i] = e
  BY <1>3
<1> QED
  BY <1>1, <1>2, <1>3, <1>4

\* The names of queued events are volumes.
LEMMA EventNames ==
  ASSUME TypeOK
  PROVE  \A i \in DOMAIN pvEvents : pvEvents[i].name \in Volumes /\ pvEvents[i].pv \in PV
<1> DEFINE T == [name : Volumes, pv : PV]
<1>1. pvEvents \in Seq(T)
  BY DEF TypeOK
<1>2. \A i \in DOMAIN pvEvents : pvEvents[i] \in T
  <2> HIDE DEF T
  <2> QED
    BY <1>1
<1> QED
  BY <1>2

\* The events of the initial list are the PVs of the API server, each once.
LEMMA Listed ==
  ASSUME TypeOK, NEW n \in 0..Cardinality(Volumes), NEW listed \in Bijection(1..n, ListedPVs)
  PROVE  /\ listed \in Seq([name : Volumes, pv : PV])
         /\ DOMAIN listed = 1..Len(listed) /\ Len(listed) \in Nat
         /\ \A i \in DOMAIN listed :
               /\ listed[i].name \in Volumes
               /\ listed[i].pv = pvs[listed[i].name]
               /\ listed[i].pv # NoPV
         /\ \A i, j \in DOMAIN listed : listed[i].name = listed[j].name => i = j
         /\ \A v \in Volumes : pvs[v] # NoPV => \E i \in DOMAIN listed : listed[i].name = v
<1> DEFINE T == [name : Volumes, pv : PV]
<1>1. n \in Nat
  BY ConstantsAssumption
<1>2. ListedPVs \subseteq T
  BY DEF ListedPVs, TypeOK
<1>3. \A e \in ListedPVs : /\ e.name \in Volumes /\ e.pv = pvs[e.name] /\ e.pv # NoPV
                           /\ e = [name |-> e.name, pv |-> pvs[e.name]]
  BY DEF ListedPVs
<1>4. /\ listed \in [1..n -> ListedPVs]
      /\ \A i, j \in 1..n : listed[i] = listed[j] => i = j
      /\ \A e \in ListedPVs : \E i \in 1..n : listed[i] = e
  BY DEF Bijection, Injection, Surjection, IsInjective
<1> HIDE DEF T
<1>5. listed \in Seq(T) /\ DOMAIN listed = 1..n /\ Len(listed) = n
  BY <1>1, <1>2, <1>4
<1>6. ASSUME NEW i \in 1..n, NEW j \in 1..n, listed[i].name = listed[j].name
      PROVE  i = j
  BY <1>3, <1>4, <1>6
<1>7. ASSUME NEW v \in Volumes, pvs[v] # NoPV
      PROVE  \E i \in 1..n : listed[i].name = v
  <2>1. PICK e \in ListedPVs : e = [name |-> v, pv |-> pvs[v]]
    BY <1>7 DEF ListedPVs
  <2>2. e.name = v
    BY <2>1
  <2> QED
    BY <1>4, <2>2
<1> QED
  BY <1>1, <1>3, <1>4, <1>5, <1>6, <1>7 DEF T

-----------------------------------------------------------------------------
(* Type correctness.                                                       *)

\* Every step keeps the types: of the objects, of the two event queues, of
\* the process's memory and of the volume the loop works on, which is a
\* volume exactly in the states that use it.
LEMMA TypeStep == TypeOK /\ [Next]_vars => TypeOK'
<1> SUFFICES ASSUME TypeOK, [Next]_vars PROVE TypeOK'
  OBVIOUS
<1> USE ConstantsAssumption
<1>0. CASE UNCHANGED vars
  BY <1>0 DEF TypeOK, vars, clusterVars, processVars, loopVars
<1>1. ASSUME NEW v \in Volumes, NEW pv \in PV, PutPV(v, pv), UserStep, UNCHANGED data
      PROVE  TypeOK'
  BY <1>1, PutPVType, Zenon DEF TypeOK, UserStep, processVars, loopVars
<1>2. ASSUME NEW v \in Volumes, NEW job \in Job, PutJob(v, job), JobStep,
             data' \in [Paths -> {"clean", "dirty"}]
      PROVE  TypeOK'
  <2>1. jobs' \in [Volumes -> Job] /\ jobEvents' \in Seq([name : Volumes, job : Job])
    BY <1>2, PutJobType, Zenon
  <2> QED
    BY <1>2, <2>1 DEF TypeOK, JobStep, processVars, loopVars
<1>3. CASE Environment
  <2>1. PICK v \in Volumes :
          \/ Bind(v) \/ UserWrites(v) \/ Release(v) \/ PVProtection(v)
          \/ AdminDeletesPV(v) \/ AdminReusesPV(v)
          \/ \E policy \in Policies : AdminSetsPolicy(v, policy)
          \/ JobSucceeds(v) \/ JobFails(v) \/ AdminDeletesJob(v) \/ JobCollected(v)
    BY <1>3 DEF Environment
  <2> pvs[v] \in PV /\ jobs[v] \in Job
    BY DEF TypeOK
  <2>2. \A phase \in Phases : [pvs[v] EXCEPT !.phase = phase] \in PV
    BY DEF PV
  <2>3. \A policy \in Policies : [pvs[v] EXCEPT !.policy = policy] \in PV
    BY DEF PV
  <2>4. [jobs[v] EXCEPT !.deleting = TRUE] \in Job
    BY DEF Job
  <2>5. \A status \in {"failed", "succeeded"} : [jobs[v] EXCEPT !.status = status] \in Job
    BY DEF Job
  <2>6. data \in [Paths -> {"clean", "dirty"}]
    BY DEF TypeOK
  <2>7. CASE Bind(v)
    BY <1>1, <2>2, <2>7 DEF Bind, Phases
  <2>8. CASE UserWrites(v)
    BY <2>8 DEF UserWrites, UserStep, TypeOK, processVars, loopVars
  <2>9. CASE Release(v)
    BY <1>1, <2>2, <2>9 DEF Release, Phases
  <2>10. CASE PVProtection(v)
    BY <1>1, <2>10, NoObjects DEF PVProtection
  <2>11. CASE AdminDeletesPV(v)
    <3>1. pvs' \in [Volumes -> PV] /\ pvEvents' \in Seq([name : Volumes, pv : PV])
      BY <2>11, RequestPVDeletionType, Zenon DEF AdminDeletesPV
    <3> QED
      BY <2>11, <3>1 DEF AdminDeletesPV, UserStep, TypeOK, processVars, loopVars
  <2>12. CASE AdminReusesPV(v)
    BY <1>1, <2>2, <2>12 DEF AdminReusesPV, Phases
  <2>13. ASSUME NEW policy \in Policies, AdminSetsPolicy(v, policy)
         PROVE  TypeOK'
    BY <1>1, <2>3, <2>13 DEF AdminSetsPolicy
  <2>14. CASE JobSucceeds(v)
    BY <1>2, <2>5, <2>6, <2>14 DEF JobSucceeds
  <2>15. CASE JobFails(v)
    BY <1>2, <2>5, <2>6, <2>15 DEF JobFails
  <2>16. CASE AdminDeletesJob(v)
    BY <1>2, <2>4, <2>6, <2>16 DEF AdminDeletesJob
  <2>17. CASE JobCollected(v)
    BY <1>2, <2>6, <2>17, NoObjects DEF JobCollected
  <2> QED
    BY <2>1, <2>7, <2>8, <2>9, <2>10, <2>11, <2>12, <2>13, <2>14, <2>15, <2>16, <2>17
<1>4. CASE Start
  <2>1. config' \in Configuration
    BY <1>4 DEF Start
  <2>2. pvEvents' \in Seq([name : Volumes, pv : PV])
    BY <1>4, Listed, Zenon DEF Start
  <2>3. jobLister' \in [Volumes -> Job]
    BY <1>4, NoObjects DEF Start, TypeOK
  <2> QED
    BY <1>4, <2>1, <2>2, <2>3 DEF Start, TypeOK, PCs, BusyPCs
<1>5. CASE Crash
  <2>1. pvEvents' \in Seq([name : Volumes, pv : PV])
    BY <1>5 DEF Crash
  <2>2. jobEvents' \in Seq([name : Volumes, job : Job])
    BY <1>5 DEF Crash
  <2> QED
    BY <1>5, <2>1, <2>2, NoObjects
    DEF Crash, TypeOK, PCs, BusyPCs, EmptyProcTable, CleanupState
<1>6. CASE DeliverPVEvent
  <2> DEFINE T == [name : Volumes, pv : PV]
  <2>1. pvEvents \in Seq(T) /\ pvEvents # <<>>
    BY <1>6 DEF DeliverPVEvent, TypeOK
  <2>2. Head(pvEvents) \in T /\ Tail(pvEvents) \in Seq(T)
    <3> HIDE DEF T
    <3> QED
      BY <2>1
  <2>3. Head(pvEvents).name \in Volumes /\ Head(pvEvents).pv \in PV
    BY <2>2
  <2>4. cache' \in [Volumes -> PV]
    BY <1>6, <2>3 DEF DeliverPVEvent, Handled, TypeOK
  <2> QED
    BY <1>6, <2>2, <2>4 DEF DeliverPVEvent, TypeOK, loopVars
<1>7. CASE DeliverJobEvent
  <2> DEFINE T == [name : Volumes, job : Job]
  <2>1. jobEvents \in Seq(T) /\ jobEvents # <<>>
    BY <1>7 DEF DeliverJobEvent, TypeOK
  <2>2. Head(jobEvents) \in T /\ Tail(jobEvents) \in Seq(T)
    <3> HIDE DEF T
    <3> QED
      BY <2>1
  <2>3. Head(jobEvents).name \in Volumes /\ Head(jobEvents).job \in Job
    BY <2>2
  <2>4. jobLister' \in [Volumes -> Job]
    BY <1>7, <2>3 DEF DeliverJobEvent, TypeOK
  <2> QED
    BY <1>7, <2>2, <2>4 DEF DeliverJobEvent, TypeOK, loopVars
<1>8. ASSUME NEW v \in Volumes, CleanSucceeds(v) \/ CleanFails(v)
      PROVE  TypeOK'
  <2>1. data' \in [Paths -> {"clean", "dirty"}]
    BY <1>8 DEF CleanSucceeds, CleanFails, TypeOK, clusterVars
  <2>2. cleaning' \in [Volumes -> Nat]
    <3>1. cleaning \in [Volumes -> Nat]
      BY DEF TypeOK
    <3>2. cleaning[v] > 0 /\ cleaning' = [cleaning EXCEPT ![v] = @ - 1]
      BY <1>8 DEF CleanSucceeds, CleanFails
    <3>3. cleaning[v] - 1 \in Nat
      BY <3>1, <3>2
    <3> QED
      BY <3>1, <3>2, <3>3
  <2>3. procTable' \in [Volumes -> CleanupState]
    <3>1. procTable \in [Volumes -> CleanupState]
      BY DEF TypeOK
    <3>2. PICK status \in {"CSSucceeded", "CSFailed"} : procTable' = MarkStatus(procTable, v, status)
      BY <1>8 DEF CleanSucceeds, CleanFails
    <3> QED
      BY <3>1, <3>2 DEF MarkStatus, CleanupState
  <2> QED
    BY <1>8, <2>1, <2>2, <2>3 DEF CleanSucceeds, CleanFails, TypeOK, clusterVars, loopVars
<1>9. CASE SyncLoop
  <2>1. CASE ListPVs \/ ListFiles \/ EndPass
    BY <2>1 DEF ListPVs, ListFiles, EndPass, TypeOK, clusterVars, processVars,
                PCs, BusyPCs, DeletePCs, DiscoverPCs
  <2>2. ASSUME NEW v \in Volumes, SkipReclaim(v) \/ SkipFile(v)
        PROVE  TypeOK'
    BY <2>2 DEF SkipReclaim, SkipFile, TypeOK, clusterVars, processVars
  <2>3. ASSUME NEW v \in Volumes, BeginReclaim(v) \/ BeginCreate(v)
        PROVE  TypeOK'
    BY <2>3 DEF BeginReclaim, BeginCreate, TypeOK, clusterVars, processVars,
                PCs, BusyPCs, DeletePCs, DiscoverPCs
  <2>4. ASSUME NEW result \in RemoveResults, TakeStatus(result) \/ ForgetStatus(result)
        PROVE  TypeOK'
    <3>1. cur \in Volumes /\ RemoveStatus(cur, result)
      BY <2>4 DEF TakeStatus, ForgetStatus, TypeOK, BusyPCs
    <3>2. /\ jobs' \in [Volumes -> Job]
          /\ jobEvents' \in Seq([name : Volumes, job : Job])
          /\ procTable' \in [Volumes -> CleanupState]
      BY <3>1, RemoveStatusType, Zenon
    <3>3. pc' \in PCs /\ cur' \in IF pc' \in BusyPCs THEN Volumes ELSE {NoVolume}
      BY <2>4, <3>1 DEF TakeStatus, ForgetStatus, PCs, BusyPCs, DeletePCs, DiscoverPCs
    <3> QED
      BY <2>4, <3>2, <3>3 DEF TakeStatus, ForgetStatus, TypeOK
  <2>5. CASE DeletePV
    <3>1. cur \in Volumes
      BY <2>5 DEF DeletePV, TypeOK, BusyPCs
    <3>2. pvs' \in [Volumes -> PV] /\ pvEvents' \in Seq([name : Volumes, pv : PV])
      BY <2>5, <3>1, RequestPVDeletionType, Zenon DEF DeletePV
    <3> QED
      BY <2>5, <3>2 DEF DeletePV, NextReclaim, TypeOK, processVars, PCs, BusyPCs, DeletePCs
  <2>6. CASE DeletePVFails \/ RunJobFails \/ CreatePVFails
    BY <2>6 DEF DeletePVFails, RunJobFails, CreatePVFails, NextReclaim, NextFile, TypeOK,
                clusterVars, processVars, PCs, BusyPCs, DeletePCs, DiscoverPCs
  <2>7. CASE RunProcess
    BY <2>7 DEF RunProcess, MarkRunning, MarkRunningAccepts, CleanupState, NextReclaim,
                TypeOK, clusterVars, PCs, BusyPCs, DeletePCs
  <2>8. CASE RunJob
    <3>1. cur \in Volumes
      BY <2>8 DEF RunJob, TypeOK, BusyPCs
    <3>2. [status |-> "active", deleting |-> FALSE] \in Job
      BY DEF Job
    <3>3. jobs' \in [Volumes -> Job] /\ jobEvents' \in Seq([name : Volumes, job : Job])
      <4>1. CASE jobs[cur] = NoJob
        BY <2>8, <3>1, <3>2, <4>1, PutJobType, Zenon DEF RunJob
      <4>2. CASE jobs[cur] # NoJob
        BY <2>8, <4>2 DEF RunJob, TypeOK
      <4> QED
        BY <4>1, <4>2
    <3> QED
      BY <2>8, <3>3 DEF RunJob, NextReclaim, TypeOK, processVars, PCs, BusyPCs, DeletePCs
  <2>9. CASE CreatePV
    <3>1. cur \in Volumes
      BY <2>9 DEF CreatePV, TypeOK, BusyPCs
    <3>2. CreatedPV(cur) \in PV
      BY <3>1, CreatedPVType
    <3>3. pvs' \in [Volumes -> PV] /\ pvEvents' \in Seq([name : Volumes, pv : PV])
      <4>1. CASE pvs[cur] = NoPV
        BY <2>9, <3>1, <3>2, <4>1, PutPVType, Zenon DEF CreatePV
      <4>2. CASE pvs[cur] # NoPV
        BY <2>9, <4>2 DEF CreatePV, TypeOK
      <4> QED
        BY <4>1, <4>2
    <3> QED
      BY <2>9, <3>3 DEF CreatePV, NextFile, TypeOK, processVars, PCs, BusyPCs, DiscoverPCs
  <2> QED
    BY <1>9, <2>1, <2>2, <2>3, <2>4, <2>5, <2>6, <2>7, <2>8, <2>9 DEF SyncLoop
<1> QED
  BY <1>0, <1>3, <1>4, <1>5, <1>6, <1>7, <1>8, <1>9 DEF Next

\* The variables of the provisioner, its informers and the API server always
\* have their types, under every combination of faults and configurations.
THEOREM TypeCorrect == Spec => []TypeOK
<1>1. Init => TypeOK
  BY ConstantsAssumption, NoObjects
  DEF Init, TypeOK, PCs, BusyPCs, EmptyProcTable, CleanupState
<1> QED
  BY <1>1, TypeStep, PTL DEF Spec
-----------------------------------------------------------------------------
(* The process table.                                                      *)

\* A step that takes no status, starts or ends no cleaning and does not bring
\* the loop to a place that uses the table.
LEMMA TableAlone ==
  ASSUME TypeOK, ProcTableProtocol, UNCHANGED <<procTable, cleaning, config>>,
         \/ UNCHANGED <<pc, cur>>
         \/ pc' \notin {"startCleaning", "removeStatus", "forgetStatus"}
  PROVE  ProcTableProtocol'
BY DEF ProcTableProtocol, RunsJob

\* Every step keeps the rules of the table: the deleter asks InProgress before
\* it takes a status and takes the status before it starts a cleaning, and
\* the discoverer asks before it forgets one.
LEMMA TableStep == TypeOK /\ ProcTableProtocol /\ [Next]_vars => ProcTableProtocol'
<1> SUFFICES ASSUME TypeOK, ProcTableProtocol, [Next]_vars PROVE ProcTableProtocol'
  OBVIOUS
<1> USE DEF ProcTableProtocol, IsRunning, MarkRunningAccepts
<1>0. procTable \in [Volumes -> CleanupState] /\ cleaning \in [Volumes -> Nat]
  BY DEF TypeOK
<1>1. CASE UNCHANGED vars \/ Environment \/ DeliverPVEvent \/ DeliverJobEvent
  <2>1. UNCHANGED <<procTable, cleaning, config, pc, cur>>
    BY <1>1 DEF vars, Environment, DeliverPVEvent, DeliverJobEvent, Bind, UserWrites, Release,
                PVProtection, AdminDeletesPV, AdminReusesPV, AdminSetsPolicy, JobSucceeds,
                JobFails, AdminDeletesJob, JobCollected, UserStep, JobStep, processVars, loopVars
  <2> QED
    BY <2>1, TableAlone
<1>2. CASE Start
  BY <1>2 DEF Start
<1>3. CASE Crash
  BY <1>3 DEF Crash, EmptyProcTable
<1>4. ASSUME NEW v \in Volumes, CleanSucceeds(v) \/ CleanFails(v)
      PROVE  ProcTableProtocol'
  <2>1. UNCHANGED <<pc, cur, config>>
    BY <1>4 DEF CleanSucceeds, CleanFails, loopVars
  <2>2. procTable[v] = "CSRunning" /\ cleaning[v] = 1
    BY <1>4 DEF CleanSucceeds, CleanFails
  <2>3. PICK status \in {"CSSucceeded", "CSFailed"} :
            procTable' = [procTable EXCEPT ![v] = status]
    BY <1>4, <2>2 DEF CleanSucceeds, CleanFails, MarkStatus
  <2>4. cleaning' = [cleaning EXCEPT ![v] = 0]
    BY <1>0, <1>4, <2>2 DEF CleanSucceeds, CleanFails
  <2> QED
    BY <1>0, <2>1, <2>2, <2>3, <2>4 DEF RunsJob
<1>5. CASE \/ ListPVs \/ DeletePV \/ DeletePVFails \/ RunJob \/ RunJobFails
           \/ ListFiles \/ CreatePV \/ CreatePVFails \/ EndPass
           \/ \E v \in Volumes : SkipReclaim(v) \/ SkipFile(v)
  <2>1. UNCHANGED <<procTable, cleaning, config>>
    BY <1>5 DEF ListPVs, DeletePV, DeletePVFails, RunJob, RunJobFails, ListFiles, CreatePV,
                CreatePVFails, EndPass, SkipReclaim, SkipFile, processVars
  <2>2. pc' \in {"delete", "discover", "idle"}
    BY <1>5 DEF ListPVs, DeletePV, DeletePVFails, RunJob, RunJobFails, ListFiles, CreatePV,
                CreatePVFails, EndPass, SkipReclaim, SkipFile, NextReclaim, NextFile
  <2> QED
    BY <2>1, <2>2, TableAlone
<1>6. ASSUME NEW v \in Volumes, BeginReclaim(v) \/ BeginCreate(v)
      PROVE  ProcTableProtocol'
  <2>1. UNCHANGED <<procTable, cleaning, config>> /\ ~InProgress(v) /\ cur' = v
        /\ pc' \in {"removeStatus", "forgetStatus"}
    BY <1>6 DEF BeginReclaim, BeginCreate, Undiscovered, processVars
  <2> QED
    BY <2>1 DEF InProgress, RunsJob
<1>7. ASSUME NEW result, TakeStatus(result) \/ ForgetStatus(result)
      PROVE  ProcTableProtocol'
  <2>1. /\ cur \in Volumes /\ RemoveStatus(cur, result) /\ UNCHANGED <<cleaning, config>>
        /\ pc \in {"removeStatus", "forgetStatus"}
        /\ pc' \notin {"removeStatus", "forgetStatus"}
        /\ pc' = "startCleaning" => cur' = cur /\ result # "error"
    BY <1>7 DEF TakeStatus, ForgetStatus, TypeOK, BusyPCs
  <2>2. CASE RunsJob(cur)
    BY <2>1, <2>2 DEF RemoveStatus, RunsJob
  <2>3. CASE ~RunsJob(cur)
    <3>1. procTable[cur] # "CSRunning" /\ procTable' = RemoveEntry(procTable, cur)
      BY <2>1, <2>3 DEF RemoveStatus
    <3>2. procTable' = [procTable EXCEPT ![cur] = "CSNotFound"]
      BY <1>0, <3>1 DEF RemoveEntry
    <3> QED
      BY <1>0, <2>1, <3>1, <3>2 DEF RunsJob
  <2> QED
    BY <2>2, <2>3
<1>8. CASE RunProcess
  <2>1. /\ cur \in Volumes /\ procTable[cur] = "CSNotFound" /\ pc' = "delete"
        /\ procTable' = [procTable EXCEPT ![cur] = "CSRunning"]
        /\ cleaning' = [cleaning EXCEPT ![cur] = @ + 1]
    BY <1>8 DEF RunProcess, NextReclaim, TypeOK, BusyPCs, MarkRunning
  <2> QED
    BY <1>0, <2>1
<1> QED
  BY <1>1, <1>2, <1>3, <1>4, <1>5, <1>6, <1>7, <1>8 DEF Next, SyncLoop

\* The sync loop and the goroutines keep the rules of the process table, in
\* every cleaning mode, with every fault and whatever administrators do: the
\* errors that MarkRunning, markStatus and RemoveEntry log never occur.
THEOREM TableProtocolKept == Spec => []ProcTableProtocol
<1>1. Init => ProcTableProtocol
  BY DEF Init, ProcTableProtocol, EmptyProcTable, IsRunning
<1> QED
  BY <1>1, TypeCorrect, TableStep, PTL DEF Spec

-----------------------------------------------------------------------------
(* The abstract life of a volume.                                          *)

\* What the abstract life of a volume asks of the state: a PV is deleted, and
\* a volume without one found, only when it is wiped, and a volume is cleaned
\* only while nobody can use it.
LifecyclePromise ==
    \A v \in Volumes :
        /\ pvs[v].deleting => pvs[v].phase = "Released" /\ data[PathOf[v]] = "clean"
        /\ pvs[v] = NoPV => data[PathOf[v]] = "clean"
        /\ cleaning[v] > 0 \/ jobs[v].status = "active" => ~Usable(v)

\* Then every step is a step of the abstract life of a volume, or changes
\* nothing in it.
LEMMA LifecycleStep ==
  ASSUME TypeOK, NoAdmin, DisjointPaths, LifecyclePromise, [Next]_vars
  PROVE  [Lifecycle!Next]_(Lifecycle!vars)
<1> DEFINE phase == [v \in Volumes |-> pvs[v].phase]
           disk == [v \in Volumes |-> data[PathOf[v]]]
<1>1. ASSUME pvs' = pvs, data' = data
      PROVE  UNCHANGED Lifecycle!vars
  BY <1>1 DEF Lifecycle!vars
<1>2. ASSUME NEW v \in Volumes, NEW pv \in PV, PutPV(v, pv)
      PROVE  phase' = [phase EXCEPT ![v] = pv.phase]
  BY <1>2, Zenon DEF PutPV, TypeOK
<1>3. ASSUME NEW v \in Volumes, NEW x, data' = [data EXCEPT ![PathOf[v]] = x]
      PROVE  disk' = [disk EXCEPT ![v] = x]
  BY <1>3, ConstantsAssumption, Zenon DEF TypeOK, DisjointPaths
<1>4. ASSUME NEW v \in Volumes
      PROVE  \A x \in Phases : [pvs[v] EXCEPT !.phase = x] \in PV /\ [pvs[v] EXCEPT !.phase = x].phase = x
  <2>1. pvs[v] \in PV
    BY DEF TypeOK
  <2> QED
    BY <2>1 DEF PV
<1>5. ASSUME NEW v \in Volumes, Bind(v)
      PROVE  Lifecycle!Bind(v)
  <2> DEFINE pv == [pvs[v] EXCEPT !.phase = "Bound"]
  <2>1. pv \in PV /\ pv.phase = "Bound"
    BY <1>4, Zenon DEF Phases
  <2>2. PutPV(v, pv)
    BY <1>5 DEF Bind
  <2>3. phase' = [phase EXCEPT ![v] = "Bound"]
    <3> HIDE DEF pv, phase
    <3> QED
      BY <1>2, <2>1, <2>2
  <2> QED
    BY <1>5, <2>3 DEF Bind, Lifecycle!Bind
<1>6. ASSUME NEW v \in Volumes, Release(v)
      PROVE  Lifecycle!Release(v)
  <2> DEFINE pv == [pvs[v] EXCEPT !.phase = "Released"]
  <2>1. pv \in PV /\ pv.phase = "Released"
    BY <1>4, Zenon DEF Phases
  <2>2. PutPV(v, pv)
    BY <1>6 DEF Release
  <2>3. phase' = [phase EXCEPT ![v] = "Released"]
    <3> HIDE DEF pv, phase
    <3> QED
      BY <1>2, <2>1, <2>2
  <2> QED
    BY <1>6, <2>3 DEF Release, Lifecycle!Release
<1>7. ASSUME NEW v \in Volumes, UserWrites(v)
      PROVE  Lifecycle!Use(v)
  <2>1. disk' = [disk EXCEPT ![v] = "dirty"]
    BY <1>3, <1>7, Zenon DEF UserWrites
  <2> QED
    BY <1>7, <2>1 DEF UserWrites, Lifecycle!Use
<1>8. ASSUME NEW v \in Volumes, PVProtection(v)
      PROVE  Lifecycle!Withdraw(v)
  <2>1. pvs[v].phase = "Released" /\ data[PathOf[v]] = "clean"
    BY <1>8 DEF PVProtection, LifecyclePromise
  <2>2. phase' = [phase EXCEPT ![v] = "Absent"]
    BY <1>2, <1>8, NoObjects DEF PVProtection, NoPV
  <2> QED
    BY <1>8, <2>1, <2>2 DEF PVProtection, Lifecycle!Withdraw
<1>9. ASSUME NEW v \in Volumes, CleanSucceeds(v) \/ JobSucceeds(v)
      PROVE  Lifecycle!Wipe(v)
  <2>1. ~Usable(v) /\ pvs[v] \in PV
    BY <1>9 DEF CleanSucceeds, JobSucceeds, LifecyclePromise, TypeOK
  <2>2. pvs[v].phase \in {"Absent", "Released"}
    BY <2>1 DEF Usable, PV, Phases
  <2>3. disk' = [disk EXCEPT ![v] = "clean"]
    BY <1>3, <1>9, Zenon DEF CleanSucceeds, JobSucceeds
  <2>4. pvs' = pvs
    BY <1>9 DEF CleanSucceeds, JobSucceeds, JobStep
  <2> QED
    BY <2>2, <2>3, <2>4 DEF Lifecycle!Wipe
<1>10. CASE CreatePV
  <2>1. cur \in Volumes
    BY <1>10 DEF CreatePV, TypeOK, BusyPCs
  <2>2. CASE pvs[cur] # NoPV
    BY <1>1, <1>10, <2>2 DEF CreatePV
  <2>3. CASE pvs[cur] = NoPV
    <3>0. pvs[cur].phase = "Absent"
      BY <2>3 DEF NoPV
    <3>1. data[PathOf[cur]] = "clean"
      BY <2>1, <2>3 DEF LifecyclePromise
    <3>2. CreatedPV(cur) \in PV /\ CreatedPV(cur).phase = "Available"
      BY <2>1, CreatedPVType DEF CreatedPV
    <3>3. PICK v \in Volumes : v = cur
      BY <2>1
    <3>4. phase' = [phase EXCEPT ![v] = "Available"]
      BY <1>2, <1>10, <2>3, <3>2, <3>3 DEF CreatePV
    <3>5. Lifecycle!Offer(v)
      BY <1>10, <3>0, <3>1, <3>3, <3>4 DEF CreatePV, Lifecycle!Offer
    <3> QED
      BY <3>5 DEF Lifecycle!Next
  <2> QED
    BY <2>2, <2>3
<1>11. CASE DeletePV
  <2>1. phase' = phase
    <3>1. cur \in Volumes /\ pvs[cur] \in PV
      BY <1>11 DEF DeletePV, TypeOK, BusyPCs
    <3>2. CASE pvs' = pvs
      BY <3>2
    <3>3. CASE PutPV(cur, [pvs[cur] EXCEPT !.deleting = TRUE])
      <4>1. [pvs[cur] EXCEPT !.deleting = TRUE] \in PV
            /\ [pvs[cur] EXCEPT !.deleting = TRUE].phase = pvs[cur].phase
        BY <3>1, Zenon DEF PV
      <4>2. phase' = [phase EXCEPT ![cur] = pvs[cur].phase]
        BY <1>2, <3>1, <3>3, <4>1, Zenon
      <4> QED
        BY <3>1, <4>2, Zenon
    <3> QED
      BY <1>11, <3>2, <3>3 DEF DeletePV, RequestPVDeletion
  <2> QED
    BY <1>11, <2>1 DEF DeletePV, Lifecycle!vars
<1>12. CASE UNCHANGED <<pvs, data>>
  BY <1>1, <1>12
<1>13. \/ UNCHANGED <<pvs, data>> \/ CreatePV \/ DeletePV
       \/ \E v \in Volumes : \/ Bind(v) \/ Release(v) \/ UserWrites(v) \/ PVProtection(v)
                             \/ CleanSucceeds(v) \/ JobSucceeds(v)
  <2>1. CASE UNCHANGED vars \/ Start \/ Crash \/ DeliverPVEvent \/ DeliverJobEvent
    BY <2>1, Zenon DEF vars, clusterVars, Start, Crash, DeliverPVEvent, DeliverJobEvent
  <2>2. CASE SyncLoop
    BY <2>2
    DEF SyncLoop, ListPVs, DeletePVFails, RunProcess, RunJob, RunJobFails, ListFiles,
        CreatePVFails, EndPass, SkipReclaim, BeginReclaim, SkipFile, BeginCreate, TakeStatus,
        ForgetStatus, clusterVars
  <2>3. CASE Environment
    <3>1. ~\E v \in Volumes : \/ AdminDeletesPV(v) \/ AdminReusesPV(v)
                              \/ \E policy \in Policies : AdminSetsPolicy(v, policy)
      BY DEF NoAdmin, AdminFaults, AdminDeletesPV, AdminReusesPV, AdminSetsPolicy
    <3>2. ASSUME NEW v \in Volumes, JobFails(v) \/ AdminDeletesJob(v) \/ JobCollected(v)
          PROVE  UNCHANGED <<pvs, data>>
      BY <3>2 DEF JobFails, AdminDeletesJob, JobCollected, JobStep
    <3> QED
      BY <2>3, <3>1, <3>2, Zenon DEF Environment
  <2>4. ASSUME NEW v \in Volumes, CleanSucceeds(v) \/ CleanFails(v)
        PROVE  UNCHANGED <<pvs, data>> \/ CleanSucceeds(v)
    BY <2>4 DEF CleanFails, clusterVars
  <2> QED
    BY <2>1, <2>2, <2>3, <2>4 DEF Next
<1> QED
  BY <1>5, <1>6, <1>7, <1>8, <1>9, <1>10, <1>11, <1>12, <1>13 DEF Lifecycle!Next

\* The initial states are initial states of the abstract life.
LEMMA LifecycleInit == Init => Lifecycle!Init
BY ConstantsAssumption DEF Init, Lifecycle!Init, NoPV
=============================================================================
