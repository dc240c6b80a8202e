---------------------- MODULE ProvisionerSafety_proofs ----------------------
(***************************************************************************)
(* Why cleaning in the process is safe.  ProcessInv is inductive when no   *)
(* volume is handed to a Job, directories do not overlap and no            *)
(* administrator edits PVs; the properties of Provisioner follow from it.  *)
(***************************************************************************)
EXTENDS Provisioner_proofs

ProcessMode == ProcessModeOnly /\ NoAdmin /\ DisjointPaths

\* In process mode no volume is handed to a Job.
LEMMA NoJobRuns ==
  ASSUME ProcessMode, config \in Configs, NEW v \in Volumes
  PROVE  ~RunsJob(v)
  BY DEF ProcessMode, ProcessModeOnly, RunsJob

-----------------------------------------------------------------------------
(* Steps that write to a PV.                                               *)

\* A claim binds an offered PV.
LEMMA BindStep ==
  ASSUME ProcessMode, ProcessInv, TypeOK', NEW v \in Volumes, Bind(v)
  PROVE  ProcessInv'
<1> DEFINE pv == [pvs[v] EXCEPT !.phase = "Bound"]
<1>1. pvs[v] \in PV /\ pvs[v].phase = "Available" /\ ~pvs[v].deleting
  BY DEF ProcessInv, TypeOK, Bind
<1>2. pv \in PV /\ pv.phase = "Bound" /\ ~pv.deleting /\ ~Reclaimable(pv) /\ pv # NoPV
  BY <1>1 DEF PV, Phases, Reclaimable, NoPV
<1>3. PutPV(v, pv) /\ TypeOK
  BY DEF Bind, ProcessInv
<1> HIDE DEF pv
<1>4. UNCHANGED <<jobs, data, cache, procTable, cleaning, config, pc, todo, cur>>
  BY DEF Bind, UserStep, processVars, loopVars
<1>5. /\ pvs'[v] = pv
      /\ \A w \in Volumes : w # v => pvs'[w] = pvs[w]
      /\ ~Up => pvEvents' = pvEvents
      /\ \A i \in DOMAIN pvEvents' :
            \/ i \in DOMAIN pvEvents /\ pvEvents'[i] = pvEvents[i]
            \/ /\ i = Len(pvEvents) + 1 /\ i \notin DOMAIN pvEvents
               /\ pvEvents'[i].name = v /\ pvEvents'[i].pv = pv
  BY <1>2, <1>3, PVWritten
<1>6. \A w \in Volumes : (Usable(w)' <=> Usable(w)) /\ (Dying(w)' <=> Dying(w)) /\ InSnapshot(w)' = InSnapshot(w)
  BY <1>1, <1>2, <1>4, <1>5 DEF Usable, Dying, InSnapshot, NoPV
<1>7. DownInv'
  BY <1>4, <1>5 DEF ProcessInv, DownInv, Up
<1>8. ObjectInv'
  BY <1>2, <1>4, <1>5 DEF ProcessInv, ObjectInv
<1>9. TableInv'
  BY <1>4, <1>6 DEF ProcessInv, TableInv
<1>10. DataInv'
  BY <1>1, <1>2, <1>4, <1>5 DEF ProcessInv, DataInv
<1>11. LoopInv'
  BY <1>4, <1>6, <1>3 DEF ProcessInv, LoopInv, TypeOK, BusyPCs
<1>12. ViewInv'
  BY <1>2, <1>3, <1>4, <1>5, <1>6, EventNames DEF ProcessInv, ViewInv
<1> QED
  BY <1>4, <1>7, <1>8, <1>9, <1>10, <1>11, <1>12 DEF ProcessInv

\* A claim releases its PV: the one event that may make the PV reclaimable.
LEMMA ReleaseStep ==
  ASSUME ProcessMode, ProcessInv, TypeOK', NEW v \in Volumes, Release(v)
  PROVE  ProcessInv'
<1> DEFINE pv == [pvs[v] EXCEPT !.phase = "Released"]
<1>1. pvs[v] \in PV /\ pvs[v].phase = "Bound" /\ ~pvs[v].deleting
  BY DEF ProcessInv, TypeOK, Release, ObjectInv
<1>2. pv \in PV /\ pv.phase = "Released" /\ ~pv.deleting /\ pv # NoPV
  BY <1>1 DEF PV, Phases, NoPV
<1>3. PutPV(v, pv) /\ TypeOK
  BY DEF Release, ProcessInv
<1> HIDE DEF pv
<1>4. UNCHANGED <<jobs, data, cache, procTable, cleaning, config, pc, todo, cur>>
  BY DEF Release, UserStep, processVars, loopVars
<1>5. /\ pvs'[v] = pv
      /\ \A w \in Volumes : w # v => pvs'[w] = pvs[w]
      /\ ~Up => pvEvents' = pvEvents
      /\ \A i \in DOMAIN pvEvents' :
            \/ i \in DOMAIN pvEvents /\ pvEvents'[i] = pvEvents[i]
            \/ /\ i = Len(pvEvents) + 1 /\ i \notin DOMAIN pvEvents
               /\ pvEvents'[i].name = v /\ pvEvents'[i].pv = pv
  BY <1>2, <1>3, PVWritten
<1>6. /\ Usable(v) /\ ~Usable(v)' /\ ~Dying(v)' /\ ~InSnapshot(v) /\ ~Reclaimable(cache[v])
      /\ \A w \in Volumes : /\ w # v => Usable(w)' = Usable(w)
                            /\ Dying(w)' = Dying(w)
                            /\ InSnapshot(w)' = InSnapshot(w)
  <2>1. Usable(v) /\ ~Usable(v)'
    BY <1>1, <1>2, <1>5 DEF Usable
  <2>2. ~InSnapshot(v) /\ ~Reclaimable(cache[v])
    BY <2>1 DEF ProcessInv, LoopInv, ViewInv
  <2>3. pvs[v] # NoPV
    BY <1>1 DEF NoPV
  <2> QED
    BY <1>1, <1>2, <1>4, <1>5, <2>1, <2>2, <2>3 DEF Usable, Dying, InSnapshot
<1>7. DownInv'
  BY <1>4, <1>5 DEF ProcessInv, DownInv, Up
<1>8. ObjectInv'
  BY <1>2, <1>4, <1>5 DEF ProcessInv, ObjectInv
<1>9. TableInv'
  BY <1>4, <1>6 DEF ProcessInv, TableInv
<1>10. DataInv'
  <2>1. procTable[v] # "CSSucceeded" /\ ~(pc = "deletePV" /\ v = cur)
    BY <1>6 DEF ProcessInv, TableInv, InSnapshot, DeletePCs
  <2> QED
    BY <1>2, <1>4, <1>5, <2>1 DEF ProcessInv, DataInv
<1>11. LoopInv'
  BY <1>3, <1>4, <1>6 DEF ProcessInv, LoopInv, TypeOK, BusyPCs
<1>12. ViewInv'
  BY <1>2, <1>3, <1>4, <1>5, <1>6, EventNames DEF ProcessInv, ViewInv
<1> QED
  BY <1>4, <1>7, <1>8, <1>9, <1>10, <1>11, <1>12 DEF ProcessInv

\* The finalizer of a deleted PV is removed, and the PV with it.
LEMMA PVProtectionStep ==
  ASSUME ProcessMode, ProcessInv, TypeOK', NEW v \in Volumes, PVProtection(v)
  PROVE  ProcessInv'
<1> DEFINE pv == NoPV
<1>1. pvs[v].phase = "Released" /\ pvs[v].deleting
  BY DEF ProcessInv, PVProtection, ObjectInv
<1>2. pv \in PV /\ pv = NoPV /\ pv.phase = "Absent" /\ ~pv.deleting /\ ~Reclaimable(pv)
  BY NoObjects DEF NoPV, Reclaimable
<1>3. PutPV(v, pv) /\ TypeOK
  BY DEF PVProtection, ProcessInv
<1> HIDE DEF pv
<1>4. UNCHANGED <<jobs, data, cache, procTable, cleaning, config, pc, todo, cur>>
  BY DEF PVProtection, UserStep, processVars, loopVars
<1>5. /\ pvs'[v] = pv
      /\ \A w \in Volumes : w # v => pvs'[w] = pvs[w]
      /\ ~Up => pvEvents' = pvEvents
      /\ \A i \in DOMAIN pvEvents' :
            \/ i \in DOMAIN pvEvents /\ pvEvents'[i] = pvEvents[i]
            \/ /\ i = Len(pvEvents) + 1 /\ i \notin DOMAIN pvEvents
               /\ pvEvents'[i].name = v /\ pvEvents'[i].pv = pv
  BY <1>2, <1>3, PVWritten
<1>6. \A w \in Volumes : /\ Usable(w)' = Usable(w)
                         /\ Dying(w)' = Dying(w)
                         /\ InSnapshot(w)' = InSnapshot(w)
  BY <1>1, <1>2, <1>4, <1>5 DEF Usable, Dying, InSnapshot
<1>7. DownInv'
  BY <1>4, <1>5 DEF ProcessInv, DownInv, Up
<1>8. ObjectInv'
  BY <1>2, <1>4, <1>5 DEF ProcessInv, ObjectInv
<1>9. TableInv'
  BY <1>4, <1>6 DEF ProcessInv, TableInv
<1>10. DataInv'
  BY <1>1, <1>2, <1>4, <1>5 DEF ProcessInv, DataInv
<1>11. LoopInv'
  BY <1>3, <1>4, <1>6 DEF ProcessInv, LoopInv, TypeOK, BusyPCs
<1>12. ViewInv'
  BY <1>2, <1>3, <1>4, <1>5, <1>6, EventNames DEF ProcessInv, ViewInv
<1> QED
  BY <1>4, <1>7, <1>8, <1>9, <1>10, <1>11, <1>12 DEF ProcessInv

\* The deleter deletes the PV of a volume whose cleaning succeeded.
LEMMA DeletePVStep ==
  ASSUME ProcessMode, ProcessInv, TypeOK', DeletePV
  PROVE  ProcessInv'
<1> DEFINE v == cur
           pv == [pvs[v] EXCEPT !.deleting = TRUE]
<1>0. v \in Volumes /\ pvs[v] \in PV /\ TypeOK /\ pc = "deletePV" /\ cur = v
  BY DEF ProcessInv, TypeOK, DeletePV, BusyPCs
<1>1. ~Usable(v) /\ InSnapshot(v) /\ data[PathOf[v]] = "clean"
  BY <1>0 DEF ProcessInv, LoopInv, DataInv, InSnapshot, DeletePCs
<1>2. UNCHANGED <<jobs, data, cache, procTable, cleaning, config, todo>>
      /\ pc' = "delete" /\ cur' = NoVolume /\ NoVolume \notin Volumes
  BY ConstantsAssumption DEF DeletePV, NextReclaim, processVars
<1>3. /\ \A w \in Volumes : w # v => pvs'[w] = pvs[w]
      /\ pvs'[v].phase = pvs[v].phase
      /\ pvs'[v] = NoPV \/ pvs'[v].deleting
      /\ pvs'[v] = NoPV <=> pvs[v] = NoPV
      /\ \A i \in DOMAIN pvEvents' :
            \/ i \in DOMAIN pvEvents /\ pvEvents'[i] = pvEvents[i]
            \/ /\ i = Len(pvEvents) + 1 /\ i \notin DOMAIN pvEvents
               /\ pvEvents'[i].name = v /\ ~Reclaimable(pvEvents'[i].pv)
  <2>1. CASE pvs[v] = NoPV \/ pvs[v].deleting
    BY <2>1 DEF DeletePV, RequestPVDeletion
  <2>2. CASE ~(pvs[v] = NoPV \/ pvs[v].deleting)
    <3>1. pv \in PV /\ pv.deleting /\ pv.phase = pvs[v].phase /\ pv # NoPV /\ ~Reclaimable(pv)
      BY <1>0, Zenon DEF PV, NoPV, Reclaimable
    <3>2. PutPV(v, pv)
      BY <2>2 DEF DeletePV, RequestPVDeletion
    <3> HIDE DEF pv, v
    <3> QED
      BY <1>0, <2>2, <3>1, <3>2, PVWritten
  <2> QED
    BY <2>1, <2>2
<1> HIDE DEF v, pv
<1>4. pvs[v].phase = "Absent" => pvs[v] = NoPV
  BY <1>0 DEF ProcessInv, ObjectInv
<1>5. pvs[v] \in PV /\ pvs[v].phase \in {"Absent", "Released"} /\ ~NoPV.deleting
  BY <1>0, <1>1 DEF Usable, PV, Phases, NoPV
<1>6. \A w \in Volumes : /\ Usable(w)' = Usable(w)
                         /\ Dying(w)' = Dying(w)
                         /\ InSnapshot(w)' => InSnapshot(w)
  BY <1>0, <1>1, <1>2, <1>3 DEF Usable, Dying, InSnapshot, DeletePCs
<1>7. DownInv'
  BY <1>2 DEF DownInv, Up
<1>8. ObjectInv'
  BY <1>2, <1>3, <1>4, <1>5 DEF ProcessInv, ObjectInv
<1>9. TableInv'
  BY <1>2, <1>6 DEF ProcessInv, TableInv
<1>10. DataInv'
  BY <1>0, <1>1, <1>2, <1>3 DEF ProcessInv, DataInv
<1>11. LoopInv'
  BY <1>0, <1>2, <1>6 DEF ProcessInv, LoopInv
<1>12. ViewInv'
  BY <1>0, <1>2, <1>3, <1>6, EventNames DEF ProcessInv, ViewInv
<1> QED
  BY <1>2, <1>7, <1>8, <1>9, <1>10, <1>11, <1>12 DEF ProcessInv

\* The discoverer creates the PV of a volume, unless the name is taken.
LEMMA CreatePVStep ==
  ASSUME ProcessMode, ProcessInv, TypeOK', CreatePV
  PROVE  ProcessInv'
<1> DEFINE v == cur
           pv == CreatedPV(v)
<1>0. v \in Volumes /\ pvs[v] \in PV /\ TypeOK /\ pc = "createPV" /\ cur = v
  BY DEF ProcessInv, TypeOK, CreatePV, BusyPCs
<1>1. procTable[v] = "CSNotFound" /\ (Dying(v) => ~Reclaimable(cache[v]))
  BY <1>0 DEF ProcessInv, LoopInv
<1>2. UNCHANGED <<jobs, data, cache, procTable, cleaning, config, todo>>
      /\ pc' = "discover" /\ cur' = NoVolume
  BY DEF CreatePV, NextFile, processVars
<1>3. CASE pvs[v] # NoPV
  <2>1. UNCHANGED <<pvs, pvEvents>>
    BY <1>3 DEF CreatePV
  <2>2. \A w \in Volumes : /\ Usable(w)' = Usable(w)
                           /\ Dying(w)' = Dying(w)
                           /\ ~InSnapshot(w)'
    BY <1>0, <1>2, <2>1 DEF Usable, Dying, InSnapshot, DeletePCs
  <2>3. DownInv' /\ ObjectInv' /\ TableInv' /\ DataInv'
    BY <1>0, <1>2, <2>1, <2>2 DEF ProcessInv, DownInv, Up, ObjectInv, TableInv, DataInv
  <2>4. LoopInv' /\ ViewInv'
    BY <1>0, <1>2, <2>1, <2>2, EventNames DEF ProcessInv, LoopInv, ViewInv
  <2> QED
    BY <1>2, <2>3, <2>4 DEF ProcessInv
<1>4. CASE pvs[v] = NoPV
  <2>1. PutPV(v, pv)
    BY <1>4 DEF CreatePV
  <2>2. pv \in PV /\ pv.phase = "Available" /\ ~pv.deleting /\ ~Reclaimable(pv) /\ pv # NoPV
    BY <1>0, CreatedPVType DEF ProcessInv, CreatedPV, Reclaimable, NoPV
  <2> HIDE DEF v, pv
  <2>3. /\ pvs'[v] = pv
        /\ \A w \in Volumes : w # v => pvs'[w] = pvs[w]
        /\ \A i \in DOMAIN pvEvents' :
              \/ i \in DOMAIN pvEvents /\ pvEvents'[i] = pvEvents[i]
              \/ /\ i = Len(pvEvents) + 1 /\ i \notin DOMAIN pvEvents
                 /\ pvEvents'[i].name = v /\ pvEvents'[i].pv = pv
    BY <1>0, <2>1, <2>2, PVWritten
  <2>4. pvs[v].phase = "Absent" /\ Dying(v)
    BY <1>4 DEF NoPV, Dying
  <2>5. \A w \in Volumes : /\ w # v => Usable(w)' = Usable(w) /\ Dying(w)' = Dying(w)
                           /\ ~InSnapshot(w)'
    BY <1>0, <1>2, <2>3 DEF Usable, Dying, InSnapshot, DeletePCs
  <2>6. DownInv'
    BY <1>2 DEF DownInv, Up
  <2>7. ObjectInv'
    BY <1>2, <2>2, <2>3 DEF ProcessInv, ObjectInv
  <2>8. TableInv'
    BY <1>1, <1>2, <2>5 DEF ProcessInv, TableInv
  <2>9. DataInv'
    BY <1>0, <1>2, <2>3, <2>4 DEF ProcessInv, DataInv
  <2>10. LoopInv'
    BY <1>2, <2>5 DEF LoopInv
  <2>11. ViewInv'
    BY <1>0, <1>1, <1>2, <2>2, <2>3, <2>4, <2>5, EventNames DEF ProcessInv, ViewInv
  <2> QED
    BY <1>2, <2>6, <2>7, <2>8, <2>9, <2>10, <2>11 DEF ProcessInv
<1> QED
  BY <1>3, <1>4

-----------------------------------------------------------------------------
(* Steps of the users, the informers and the cleaning goroutines.          *)

\* A claim writes to its volume, whose path no other volume shares.
LEMMA UserWritesStep ==
  ASSUME ProcessMode, ProcessInv, TypeOK', NEW v \in Volumes, UserWrites(v)
  PROVE  ProcessInv'
<1>1. UNCHANGED <<pvs, jobs, pvEvents, cache, procTable, cleaning, config, pc, todo, cur>>
  BY DEF UserWrites, UserStep, processVars, loopVars
<1>2. pvs[v].phase = "Bound" /\ data' = [data EXCEPT ![PathOf[v]] = "dirty"]
  BY DEF UserWrites
<1>3. Usable(v) /\ ~pvs[v].deleting
  BY <1>2 DEF ProcessInv, ObjectInv, Usable
<1>4. procTable[v] = "CSNotFound" /\ ~(pc = "deletePV" /\ v = cur)
  BY <1>3 DEF ProcessInv, TableInv, LoopInv, InSnapshot, DeletePCs
<1>5. \A w \in Volumes : w # v => data'[PathOf[w]] = data[PathOf[w]]
  BY <1>2, ConstantsAssumption DEF ProcessMode, DisjointPaths, ProcessInv, TypeOK
<1>6. DataInv'
  BY <1>1, <1>2, <1>3, <1>4, <1>5 DEF ProcessInv, DataInv
<1>7. DownInv' /\ ObjectInv' /\ TableInv'
  BY <1>1 DEF ProcessInv, DownInv, Up, ObjectInv, TableInv, Usable
<1>8. LoopInv' /\ ViewInv'
  BY <1>1 DEF ProcessInv, LoopInv, ViewInv, Usable, Dying, InSnapshot
<1> QED
  BY <1>1, <1>6, <1>7, <1>8 DEF ProcessInv

\* The populator takes the next event into the cache.
LEMMA DeliverPVEventStep ==
  ASSUME ProcessMode, ProcessInv, TypeOK', DeliverPVEvent
  PROVE  ProcessInv'
<1> DEFINE T == [name : Volumes, pv : PV]
           v == pvEvents[1].name
           pv == pvEvents[1].pv
<1>1. UNCHANGED <<pvs, jobs, data, procTable, cleaning, config, pc, todo, cur>> /\ Up /\ TypeOK
  BY DEF DeliverPVEvent, loopVars, ProcessInv
<1>2. pvEvents \in Seq(T) /\ pvEvents # <<>> /\ pvEvents' = Tail(pvEvents)
  BY DEF ProcessInv, TypeOK, DeliverPVEvent
<1>3. /\ 1 \in DOMAIN pvEvents /\ Head(pvEvents) = pvEvents[1]
      /\ \A i \in DOMAIN pvEvents' :
            i + 1 \in DOMAIN pvEvents /\ i \in Nat \ {0} /\ pvEvents'[i] = pvEvents[i + 1]
  <2> HIDE DEF T
  <2> QED
    BY <1>2
<1>4. v \in Volumes /\ pv \in PV
  BY <1>1, <1>3, EventNames
<1>5. /\ cache'[v] = pv \/ cache'[v] = cache[v]
      /\ \A w \in Volumes : w # v => cache'[w] = cache[w]
  BY <1>1, <1>3, <1>4 DEF DeliverPVEvent, Handled, TypeOK
<1>6. Reclaimable(pv) => /\ ~Usable(v) /\ ~Dying(v)
                         /\ \A i \in DOMAIN pvEvents' :
                               pvEvents'[i].name = v => ~Reclaimable(pvEvents'[i].pv)
  BY <1>3 DEF ProcessInv, ViewInv
<1> HIDE DEF v, pv
<1>7. \A w \in Volumes : /\ Usable(w)' = Usable(w)
                         /\ Dying(w)' = Dying(w)
                         /\ InSnapshot(w)' = InSnapshot(w)
  BY <1>1 DEF Usable, Dying, InSnapshot
<1>8. DownInv' /\ ObjectInv' /\ TableInv' /\ DataInv'
  BY <1>1 DEF ProcessInv, DownInv, Up, ObjectInv, TableInv, DataInv, Usable
<1>9. LoopInv'
  BY <1>1, <1>4, <1>5, <1>6, <1>7, Zenon DEF ProcessInv, LoopInv, TypeOK, BusyPCs
<1>10. ViewInv'
  <2>1. \A i \in DOMAIN pvEvents' : pvEvents'[i].name \in Volumes
    BY <1>1, <1>3, EventNames
  <2>2. \A w \in Volumes : Reclaimable(cache'[w]) => ~Usable(w)'
    BY <1>4, <1>5, <1>6, <1>7 DEF ProcessInv, ViewInv
  <2>3. \A i \in DOMAIN pvEvents' :
           Reclaimable(pvEvents'[i].pv) =>
               /\ ~Usable(pvEvents[i].name)'
               /\ ~Dying(pvEvents[i].name)'
               /\ ~Reclaimable(cache'[pvEvents'[i].name])
    <3>1. \A i \in DOMAIN pvEvents' :
             Reclaimable(pvEvents'[i].pv) =>
                 /\ ~Usable(pvEvents'[i].name)
                 /\ ~Dying(pvEvents'[i].name)
                 /\ ~Reclaimable(cache[pvEvents'[i].name])
      BY <1>3 DEF ProcessInv, ViewInv
    <3> QED
      BY <1>5, <1>6, <1>7, <2>1, <3>1
  <2>4. \A i, j \in DOMAIN pvEvents' :
           Reclaimable(pvEvents'[i].pv) /\ Reclaimable(pvEvents'[j].pv)
               /\ pvEvents'[i].name = pvEvents'[j].name => i = j
    BY <1>3 DEF ProcessInv, ViewInv
  <2> QED
    BY <2>2, <2>3, <2>4 DEF ViewInv
<1> QED
  BY <1>1, <1>8, <1>9, <1>10 DEF ProcessInv

\* A cleaning goroutine ends: it has an entry, and its PV is not in use.
LEMMA CleanStep ==
  ASSUME ProcessMode, ProcessInv, TypeOK', NEW v \in Volumes, CleanSucceeds(v) \/ CleanFails(v)
  PROVE  ProcessInv'
<1>1. UNCHANGED <<pvs, jobs, pvEvents, cache, config, pc, todo, cur>> /\ TypeOK
  BY DEF CleanSucceeds, CleanFails, loopVars, clusterVars, ProcessInv
<1>2. cleaning[v] = 1 /\ procTable[v] = "CSRunning" /\ ~Usable(v)
  BY DEF CleanSucceeds, CleanFails, ProcessInv, TableInv, IsRunning
<1>3. cleaning' = [cleaning EXCEPT ![v] = 0]
  BY <1>2 DEF CleanSucceeds, CleanFails
<1>4. Up
  BY <1>2 DEF ProcessInv, DownInv, EmptyProcTable
<1>5. \/ /\ procTable' = [procTable EXCEPT ![v] = "CSSucceeded"]
         /\ data' = [data EXCEPT ![PathOf[v]] = "clean"]
      \/ procTable' = [procTable EXCEPT ![v] = "CSFailed"] /\ data' = data
  BY <1>2 DEF CleanSucceeds, CleanFails, MarkStatus, clusterVars
<1>6. \A w \in Volumes : /\ Usable(w)' = Usable(w)
                         /\ Dying(w)' = Dying(w)
                         /\ InSnapshot(w)' = InSnapshot(w)
  BY <1>1 DEF Usable, Dying, InSnapshot
<1>7. DownInv' /\ ObjectInv'
  BY <1>1, <1>4 DEF ProcessInv, DownInv, Up, ObjectInv
<1>8. TableInv'
  BY <1>1, <1>2, <1>3, <1>5, <1>6 DEF ProcessInv, TableInv, TypeOK, IsRunning
<1>9. \A w \in Volumes : data[PathOf[w]] = "clean" => data'[PathOf[w]] = "clean"
  BY <1>1, <1>5, ConstantsAssumption DEF TypeOK
<1>10. procTable'[v] = "CSSucceeded" => data'[PathOf[v]] = "clean"
  BY <1>1, <1>5, ConstantsAssumption DEF TypeOK
<1>11. DataInv'
  BY <1>1, <1>5, <1>9, <1>10 DEF ProcessInv, DataInv, TypeOK
<1>12. LoopInv'
  <2>1. \A w \in Volumes : procTable[w] # "CSRunning" => procTable'[w] = procTable[w]
    BY <1>1, <1>2, <1>5 DEF TypeOK
  <2> QED
    BY <1>1, <1>6, <2>1 DEF ProcessInv, LoopInv, TypeOK, BusyPCs, IsRunning
<1>13. ViewInv'
  BY <1>1, <1>6, EventNames DEF ProcessInv, ViewInv
<1> QED
  BY <1>1, <1>7, <1>8, <1>11, <1>12, <1>13 DEF ProcessInv

\* A new process finds the PVs of the API server in its first list.
LEMMA StartStep ==
  ASSUME ProcessMode, ProcessInv, TypeOK', Start
  PROVE  ProcessInv'
<1>1. /\ UNCHANGED <<pvs, jobs, data, cache, procTable, cleaning, todo, cur>>
      /\ pc = "down" /\ pc' = "idle" /\ config' \in Configs /\ TypeOK
  BY DEF Start, ProcessInv
<1>2. /\ \A i \in DOMAIN pvEvents' :
            /\ pvEvents'[i].name \in Volumes
            /\ pvEvents'[i].pv = pvs[pvEvents'[i].name]
            /\ pvEvents'[i].pv # NoPV
      /\ \A i, j \in DOMAIN pvEvents' : pvEvents'[i].name = pvEvents'[j].name => i = j
  BY <1>1, Listed DEF Start
<1>3. \A w \in Volumes : ~Reclaimable(cache[w])
  BY <1>1 DEF ProcessInv, DownInv, Up, NoPV, Reclaimable
<1>4. \A w \in Volumes : /\ Usable(w)' = Usable(w)
                         /\ Reclaimable(pvs[w]) => ~Usable(w) /\ ~pvs[w].deleting
                         /\ Dying(w)' <=> (pvs[w] = NoPV \/ pvs[w].deleting)
                         /\ ~InSnapshot(w)'
  BY <1>1 DEF Usable, Dying, InSnapshot, DeletePCs, Reclaimable
<1>5. DownInv' /\ ObjectInv' /\ TableInv' /\ DataInv'
  BY <1>1 DEF ProcessInv, DownInv, Up, ObjectInv, TableInv, DataInv, Usable
<1>6. LoopInv'
  BY <1>1, <1>4 DEF LoopInv
<1>7. ViewInv'
  BY <1>1, <1>2, <1>3, <1>4 DEF ViewInv
<1> QED
  BY <1>1, <1>5, <1>6, <1>7 DEF ProcessInv

\* The process dies.
LEMMA CrashStep ==
  ASSUME ProcessMode, ProcessInv, TypeOK', Crash
  PROVE  ProcessInv'
<1>1. /\ UNCHANGED <<pvs, jobs, data, config>> /\ pc' = "down" /\ TypeOK
      /\ cache' = [v \in Volumes |-> NoPV] /\ procTable' = EmptyProcTable(Volumes)
      /\ cleaning' = [v \in Volumes |-> 0] /\ pvEvents' = <<>>
  BY DEF Crash, ProcessInv
<1>2. \A v \in Volumes : procTable'[v] = "CSNotFound" /\ ~Reclaimable(cache'[v])
  BY <1>1 DEF EmptyProcTable, Reclaimable, NoPV
<1>3. DownInv' /\ ObjectInv'
  BY <1>1 DEF ProcessInv, DownInv, ObjectInv
<1>4. TableInv' /\ DataInv'
  BY <1>1, <1>2 DEF ProcessInv, TableInv, DataInv, IsRunning
<1>5. LoopInv'
  BY <1>1 DEF LoopInv, InSnapshot, DeletePCs
<1>6. ViewInv'
  <2>1. DOMAIN pvEvents' = {}
    BY <1>1
  <2> QED
    BY <1>2, <2>1, Zenon DEF ViewInv
<1> QED
  BY <1>1, <1>3, <1>4, <1>5, <1>6 DEF ProcessInv

-----------------------------------------------------------------------------
(* Steps of the sync loop that write nothing to the API server.            *)

\* A step that changes only the loop's own variables, leaves no volume
\* offered in the deleter's hands, and keeps what the loop's states promise.
LEMMA LoopOnlyStep ==
  ASSUME ProcessInv, TypeOK', UNCHANGED <<clusterVars, processVars>>, Up, pc' # "down",
         ~(pc' = "deletePV"), LoopInv',
         \A i \in DOMAIN pvEvents : Reclaimable(pvEvents[i].pv) => ~InSnapshot(pvEvents[i].name)'
  PROVE  ProcessInv'
<1>1. UNCHANGED <<pvs, jobs, data, pvEvents, cache, procTable, cleaning, config>>
  BY DEF clusterVars, processVars
<1>2. DownInv' /\ ObjectInv' /\ TableInv' /\ DataInv'
  BY <1>1 DEF ProcessInv, DownInv, Up, ObjectInv, TableInv, DataInv, Usable
<1>3. ViewInv'
  BY <1>1 DEF ProcessInv, ViewInv, Usable, Dying
<1> QED
  BY <1>1, <1>2, <1>3 DEF ProcessInv

\* The deleter takes its snapshot of the cache.
LEMMA ListPVsStep ==
  ASSUME ProcessMode, ProcessInv, TypeOK', ListPVs
  PROVE  ProcessInv'
<1>1. /\ UNCHANGED <<clusterVars, processVars, cur>> /\ pc = "idle" /\ pc' = "delete"
      /\ todo' = {v \in Volumes : Reclaimable(cache[v])} /\ cur \notin Volumes /\ TypeOK
  BY ConstantsAssumption DEF ListPVs, ProcessInv, TypeOK, BusyPCs
<1>2. UNCHANGED <<pvs, cache, pvEvents, cur>>
  BY <1>1 DEF clusterVars, processVars
<1>3. \A v \in Volumes : InSnapshot(v)' <=> Reclaimable(cache[v])
  BY <1>1, <1>2 DEF InSnapshot, DeletePCs
<1>4. LoopInv'
  BY <1>1, <1>2, <1>3 DEF ProcessInv, LoopInv, ViewInv, Usable
<1>5. \A i \in DOMAIN pvEvents : Reclaimable(pvEvents[i].pv) => ~InSnapshot(pvEvents[i].name)'
  BY <1>1, <1>2, <1>3, EventNames DEF ProcessInv, ViewInv
<1> QED
  BY <1>1, <1>4, <1>5, LoopOnlyStep DEF Up

\* The loop lists the files, goes to sleep, or goes on with the next volume.
LEMMA NextVolumeStep ==
  ASSUME ProcessMode, ProcessInv, TypeOK',
         \/ ListFiles \/ EndPass \/ DeletePVFails \/ CreatePVFails
         \/ \E v \in Volumes : SkipReclaim(v) \/ SkipFile(v)
  PROVE  ProcessInv'
<1>1. /\ UNCHANGED <<clusterVars, processVars>> /\ Up
      /\ pc' \in {"idle", "delete", "discover"} /\ cur' = NoVolume
      /\ pc' = "delete" => pc \in DeletePCs /\ todo' \subseteq todo
      /\ NoVolume \notin Volumes /\ TypeOK
  BY ConstantsAssumption
  DEF ListFiles, EndPass, DeletePVFails, CreatePVFails, SkipReclaim, SkipFile,
      NextReclaim, NextFile, ProcessInv, TypeOK, BusyPCs, DeletePCs, Up
<1>2. UNCHANGED <<pvs, cache, pvEvents>>
  BY <1>1 DEF clusterVars, processVars
<1>3. \A v \in Volumes : InSnapshot(v)' => InSnapshot(v)
  BY <1>1 DEF InSnapshot, DeletePCs
<1>4. LoopInv'
  BY <1>1, <1>2, <1>3 DEF ProcessInv, LoopInv, Usable
<1>5. \A i \in DOMAIN pvEvents : Reclaimable(pvEvents[i].pv) => ~InSnapshot(pvEvents[i].name)'
  BY <1>1, <1>2, <1>3, EventNames DEF ProcessInv, ViewInv, Dying
<1> QED
  BY <1>1, <1>4, <1>5, LoopOnlyStep

\* The deleter comes to a volume that is not being cleaned.
LEMMA BeginReclaimStep ==
  ASSUME ProcessMode, ProcessInv, TypeOK', NEW v \in Volumes, BeginReclaim(v)
  PROVE  ProcessInv'
<1>1. /\ UNCHANGED <<clusterVars, processVars>> /\ pc = "delete" /\ pc' = "removeStatus"
      /\ cur' = v /\ v \in todo /\ todo' \subseteq todo /\ TypeOK /\ config \in Configs
  BY DEF BeginReclaim, ProcessInv
<1>2. UNCHANGED <<pvs, cache, pvEvents, procTable>>
  BY <1>1 DEF clusterVars, processVars
<1>3. ~IsRunning(procTable, v)
  BY <1>1, NoJobRuns DEF BeginReclaim, InProgress
<1>4. \A w \in Volumes : InSnapshot(w)' => InSnapshot(w)
  BY <1>1 DEF InSnapshot, DeletePCs
<1>5. LoopInv'
  BY <1>1, <1>2, <1>3, <1>4 DEF ProcessInv, LoopInv, Usable
<1>6. \A i \in DOMAIN pvEvents : Reclaimable(pvEvents[i].pv) => ~InSnapshot(pvEvents[i].name)'
  BY <1>1, <1>2, <1>4, EventNames DEF ProcessInv, ViewInv, Dying
<1> QED
  BY <1>1, <1>5, <1>6, LoopOnlyStep DEF Up

\* The discoverer comes to a file that has no PV in the cache.
LEMMA BeginCreateStep ==
  ASSUME ProcessMode, ProcessInv, TypeOK', NEW v \in Volumes, BeginCreate(v)
  PROVE  ProcessInv'
<1>1. /\ UNCHANGED <<clusterVars, processVars>> /\ pc = "discover" /\ pc' = "forgetStatus"
      /\ cur' = v /\ TypeOK /\ config \in Configs /\ cache[v] = NoPV
  BY DEF BeginCreate, ProcessInv, Undiscovered
<1>2. UNCHANGED <<pvs, cache, pvEvents, procTable>>
  BY <1>1 DEF clusterVars, processVars
<1>3. ~IsRunning(procTable, v)
  BY <1>1, NoJobRuns DEF BeginCreate, Undiscovered, InProgress
<1>4. \A w : ~InSnapshot(w)'
  BY <1>1 DEF InSnapshot, DeletePCs
<1>5. ~Reclaimable(cache[v])
  BY <1>1 DEF NoPV, Reclaimable
<1>6. LoopInv'
  BY <1>1, <1>2, <1>3, <1>4, <1>5 DEF LoopInv
<1>7. \A i \in DOMAIN pvEvents : Reclaimable(pvEvents[i].pv) => ~InSnapshot(pvEvents[i].name)'
  BY <1>1 DEF InSnapshot, DeletePCs
<1> QED
  BY <1>1, <1>6, <1>7, LoopOnlyStep DEF Up

\* A finished entry leaves the process table.
LEMMA RemoveStatusStep ==
  ASSUME ProcessMode, ProcessInv, TypeOK', NEW result \in RemoveResults,
         TakeStatus(result) \/ ForgetStatus(result)
  PROVE  ProcessInv'
<1> DEFINE v == cur
<1>0. v \in Volumes /\ cur = v /\ TypeOK /\ config \in Configs
  BY DEF TakeStatus, ForgetStatus, ProcessInv, TypeOK, BusyPCs
<1>1. ~RunsJob(v) /\ procTable[v] # "CSRunning"
  BY <1>0, NoJobRuns DEF TakeStatus, ForgetStatus, ProcessInv, LoopInv, IsRunning
<1>2. /\ procTable' = [procTable EXCEPT ![v] = "CSNotFound"]
      /\ result = procTable[v] /\ result # "error" /\ UNCHANGED jobs
  <2>1. RemoveStatus(v, result)
    BY <1>0 DEF TakeStatus, ForgetStatus
  <2>2. /\ result = RemoveEntryResult(procTable, v) /\ procTable' = RemoveEntry(procTable, v)
        /\ UNCHANGED jobs
    BY <1>1, <2>1 DEF RemoveStatus
  <2>3. procTable[v] \in CleanupState
    BY <1>0 DEF TypeOK
  <2> QED
    BY <1>1, <2>2, <2>3 DEF RemoveEntryResult, RemoveEntry, IsRunning, CleanupState
<1>3. UNCHANGED <<pvs, data, pvEvents, cache, cleaning, config, todo>>
  BY DEF TakeStatus, ForgetStatus
<1>4. /\ cur' = v
      /\ \/ pc = "removeStatus" /\ pc' = "deletePV" /\ result = "CSSucceeded"
         \/ pc = "removeStatus" /\ pc' = "startCleaning"
         \/ pc = "forgetStatus" /\ pc' = "createPV"
  BY <1>2 DEF TakeStatus, ForgetStatus
<1> HIDE DEF v
<1>5. \A w \in Volumes : /\ Usable(w)' = Usable(w)
                         /\ Dying(w)' = Dying(w)
                         /\ InSnapshot(w)' = InSnapshot(w)
  BY <1>0, <1>3, <1>4 DEF Usable, Dying, InSnapshot, DeletePCs
<1>6. DownInv' /\ ObjectInv'
  BY <1>2, <1>3, <1>4 DEF ProcessInv, DownInv, Up, ObjectInv
<1>7. TableInv'
  BY <1>0, <1>1, <1>2, <1>3, <1>5 DEF ProcessInv, TableInv, TypeOK, IsRunning
<1>8. DataInv'
  BY <1>0, <1>2, <1>3, <1>4 DEF ProcessInv, DataInv, TypeOK
<1>9. LoopInv'
  BY <1>0, <1>2, <1>3, <1>4, <1>5 DEF ProcessInv, LoopInv, TypeOK
<1>10. ViewInv'
  BY <1>0, <1>3, <1>5, EventNames, Zenon DEF ProcessInv, ViewInv
<1> QED
  BY <1>3, <1>6, <1>7, <1>8, <1>9, <1>10 DEF ProcessInv

\* The deleter starts a goroutine for a volume that has no entry.
LEMMA RunProcessStep ==
  ASSUME ProcessMode, ProcessInv, TypeOK', RunProcess
  PROVE  ProcessInv'
<1> DEFINE v == cur
<1>0. v \in Volumes /\ cur = v /\ TypeOK /\ pc = "startCleaning" /\ NoVolume \notin Volumes
  BY ConstantsAssumption DEF RunProcess, ProcessInv, TypeOK, BusyPCs
<1>1. procTable[v] = "CSNotFound" /\ InSnapshot(v) /\ ~Usable(v) /\ cleaning[v] = 0
  BY <1>0 DEF ProcessInv, LoopInv, TableInv, InSnapshot, DeletePCs, IsRunning
<1>2. /\ procTable' = [procTable EXCEPT ![v] = "CSRunning"]
      /\ cleaning' = [cleaning EXCEPT ![v] = 1]
  BY <1>0, <1>1 DEF RunProcess, MarkRunning, MarkRunningAccepts
<1>3. /\ UNCHANGED <<pvs, jobs, data, pvEvents, cache, config, todo>>
      /\ pc' = "delete" /\ cur' = NoVolume
  BY DEF RunProcess, NextReclaim, clusterVars
<1> HIDE DEF v
<1>4. \A w \in Volumes : /\ Usable(w)' = Usable(w)
                         /\ Dying(w)' => Dying(w)
                         /\ InSnapshot(w)' => InSnapshot(w)
  BY <1>0, <1>3 DEF Usable, Dying, InSnapshot, DeletePCs
<1>5. DownInv' /\ ObjectInv'
  BY <1>3 DEF ProcessInv, DownInv, Up, ObjectInv
<1>6. TableInv'
  BY <1>0, <1>1, <1>2, <1>4 DEF ProcessInv, TableInv, TypeOK, IsRunning
<1>7. DataInv'
  BY <1>0, <1>2, <1>3 DEF ProcessInv, DataInv, TypeOK
<1>8. LoopInv'
  BY <1>3, <1>4 DEF ProcessInv, LoopInv
<1>9. ViewInv'
  BY <1>0, <1>3, <1>4, EventNames DEF ProcessInv, ViewInv
<1> QED
  BY <1>3, <1>5, <1>6, <1>7, <1>8, <1>9 DEF ProcessInv

-----------------------------------------------------------------------------
(* The theorems.                                                           *)

\* In process mode the steps that need a Job or an administrator never occur.
LEMMA ImpossibleSteps ==
  ASSUME ProcessMode, ProcessInv
  PROVE  /\ ~RunJob /\ ~RunJobFails
         /\ \A v \in Volumes :
               /\ ~AdminDeletesPV(v) /\ ~AdminReusesPV(v)
               /\ \A policy \in Policies : ~AdminSetsPolicy(v, policy)
               /\ ~JobSucceeds(v) /\ ~JobFails(v) /\ ~AdminDeletesJob(v) /\ ~JobCollected(v)
<1>1. ~RunJob /\ ~RunJobFails
  BY NoJobRuns DEF RunJob, RunJobFails, ProcessInv, TypeOK, BusyPCs
<1>2. ASSUME NEW v \in Volumes
      PROVE  /\ ~AdminDeletesPV(v) /\ ~AdminReusesPV(v)
             /\ \A policy \in Policies : ~AdminSetsPolicy(v, policy)
  BY DEF ProcessMode, NoAdmin, AdminFaults, AdminDeletesPV, AdminReusesPV, AdminSetsPolicy
<1>3. ASSUME NEW v \in Volumes
      PROVE  ~JobSucceeds(v) /\ ~JobFails(v) /\ ~AdminDeletesJob(v) /\ ~JobCollected(v)
  <2>1. jobs[v].status = "absent" /\ ~jobs[v].deleting
    BY DEF ProcessInv, ObjectInv, NoJob
  <2> QED
    BY <2>1 DEF JobSucceeds, JobFails, AdminDeletesJob, JobCollected
<1> QED
  BY <1>1, <1>2, <1>3

\* ProcessInv is preserved by every step.
LEMMA ProcessStep ==
  ASSUME ProcessMode, ProcessInv, [Next]_vars
  PROVE  ProcessInv'
<1> TypeOK'
  BY TypeStep DEF ProcessInv
<1>1. CASE UNCHANGED vars
  BY <1>1, Zenon DEF vars, clusterVars, processVars, loopVars, ProcessInv, DownInv, Up, ObjectInv,
              TableInv, DataInv, LoopInv, ViewInv, Usable, Dying, InSnapshot
<1>2. CASE SyncLoop
  BY <1>2, ImpossibleSteps, ListPVsStep, NextVolumeStep, BeginReclaimStep, BeginCreateStep,
     RemoveStatusStep, DeletePVStep, RunProcessStep, CreatePVStep
  DEF SyncLoop
<1>3. CASE Environment
  BY <1>3, ImpossibleSteps, BindStep, UserWritesStep, ReleaseStep, PVProtectionStep
  DEF Environment
<1>4. CASE Start
  BY <1>4, StartStep
<1>5. CASE Crash
  BY <1>5, CrashStep
<1>6. CASE DeliverPVEvent
  BY <1>6, DeliverPVEventStep
<1>7. CASE DeliverJobEvent
  BY <1>7, Zenon DEF DeliverJobEvent, loopVars, ProcessInv, DownInv, Up, ObjectInv,
              TableInv, DataInv, LoopInv, ViewInv, Usable, Dying, InSnapshot
<1>8. ASSUME NEW v \in Volumes, CleanSucceeds(v) \/ CleanFails(v)
      PROVE  ProcessInv'
  BY <1>8, CleanStep
<1> QED
  BY <1>1, <1>2, <1>3, <1>4, <1>5, <1>6, <1>7, <1>8 DEF Next

\* ProcessInv holds at all times: the deleter's snapshot, the cache and the
\* events on their way there never show as reclaimable a PV that is in use.
THEOREM ProcessInvariant ==
  ASSUME ProcessMode
  PROVE  Spec => []ProcessInv
<1>1. Init => ProcessInv
  <2> SUFFICES ASSUME Init PROVE ProcessInv
    OBVIOUS
  <2>1. TypeOK
    BY ConstantsAssumption, NoObjects
    DEF Init, TypeOK, PCs, BusyPCs, EmptyProcTable, CleanupState
  <2>2. \A v \in Volumes : /\ pvs[v] = NoPV /\ NoPV.phase = "Absent" /\ ~NoPV.deleting
                           /\ procTable[v] = "CSNotFound" /\ cleaning[v] = 0
                           /\ cache[v] = NoPV /\ ~Reclaimable(NoPV) /\ jobs[v] = NoJob
    BY DEF Init, EmptyProcTable, NoPV, Reclaimable
  <2>3. data = [p \in Paths |-> "clean"] /\ pc = "down" /\ pvEvents = <<>> /\ config \in Configs
    BY DEF Init
  <2>4. DownInv /\ ObjectInv /\ TableInv
    BY <2>2, <2>3 DEF Init, DownInv, ObjectInv, TableInv, IsRunning
  <2>5. DataInv /\ LoopInv
    BY <2>2, <2>3, ConstantsAssumption DEF DataInv, LoopInv, InSnapshot, DeletePCs
  <2>6. ViewInv
    <3>1. DOMAIN pvEvents = {}
      BY <2>3
    <3> QED
      BY <2>2, <3>1, Zenon DEF ViewInv
  <2> QED
    BY <2>1, <2>3, <2>4, <2>5, <2>6 DEF ProcessInv
<1>2. ProcessInv /\ [Next]_vars => ProcessInv'
  BY ProcessStep
<1> QED
  BY <1>1, <1>2, PTL DEF Spec

\* No PV is on offer or bound while a goroutine of asyncCleanPV cleans its
\* volume: whatever the watch shows late, and however often the process dies.
THEOREM NeverCleanedInUse ==
  ASSUME ProcessMode
  PROVE  Spec => []NoPVWhileCleaning
<1>1. ProcessInv => NoPVWhileCleaning
  <2> SUFFICES ASSUME ProcessInv, NEW v \in Volumes, Usable(v), NEW w \in Volumes,
                      PathOf[w] = PathOf[v], cleaning[w] > 0 \/ jobs[w].status = "active"
               PROVE  FALSE
    BY DEF NoPVWhileCleaning, BeingCleaned
  <2>1. w = v
    BY DEF ProcessMode, DisjointPaths
  <2>2. jobs[v].status # "active"
    BY DEF ProcessInv, ObjectInv, NoJob
  <2> QED
    BY <2>1, <2>2 DEF ProcessInv, TableInv, IsRunning
<1> QED
  BY <1>1, ProcessInvariant, PTL

\* A PV on offer stands for a volume without data of an earlier claim.
THEOREM OfferedClean ==
  ASSUME ProcessMode
  PROVE  Spec => []CleanWhenOffered
<1>1. ProcessInv => CleanWhenOffered
  BY DEF ProcessInv, DataInv, CleanWhenOffered
<1> QED
  BY <1>1, ProcessInvariant, PTL

\* The provisioner, the API server and the users together implement the
\* abstract life of each volume: offered clean, used, released, wiped only
\* when nobody uses it, withdrawn only when clean.
THEOREM Refinement ==
  ASSUME ProcessMode
  PROVE  Spec => ImplementsLifecycle
<1>1. ProcessInv => LifecyclePromise
  <2> SUFFICES ASSUME ProcessInv, NEW v \in Volumes
               PROVE  /\ pvs[v].deleting => pvs[v].phase = "Released" /\ data[PathOf[v]] = "clean"
                      /\ pvs[v] = NoPV => data[PathOf[v]] = "clean"
                      /\ cleaning[v] > 0 \/ jobs[v].status = "active" => ~Usable(v)
    BY DEF LifecyclePromise
  <2>1. pvs[v].deleting => pvs[v].phase = "Released" /\ data[PathOf[v]] = "clean"
    BY DEF ProcessInv, ObjectInv, DataInv
  <2>2. pvs[v] = NoPV => data[PathOf[v]] = "clean"
    BY DEF ProcessInv, DataInv, NoPV
  <2>3. jobs[v].status # "active"
    BY DEF ProcessInv, ObjectInv, NoJob
  <2>4. cleaning[v] > 0 => ~Usable(v)
    BY DEF ProcessInv, TableInv, IsRunning
  <2> QED
    BY <2>1, <2>2, <2>3, <2>4
<1>2. ProcessInv /\ [Next]_vars => [Lifecycle!Next]_(Lifecycle!vars)
  <2> SUFFICES ASSUME ProcessInv, [Next]_vars PROVE [Lifecycle!Next]_(Lifecycle!vars)
    OBVIOUS
  <2>1. TypeOK /\ NoAdmin /\ DisjointPaths /\ LifecyclePromise
    BY <1>1 DEF ProcessInv, ProcessMode
  <2> QED
    BY <2>1, LifecycleStep
<1> QED
  BY <1>2, LifecycleInit, ProcessInvariant, PTL DEF Spec, ImplementsLifecycle, Lifecycle!Spec
=============================================================================
