--------------------------- MODULE TwoProvisioners ---------------------------
(***************************************************************************)
(* Two provisioner processes on one node, which "can sometimes happen as   *)
(* the Daemonset controller follows 'at least one' semantics"              *)
(* (pkg/deleter/deleter.go).  They share the PVs, the Jobs and the disks.  *)
(* Each has its own informers, cache, process table and sync loop.         *)
(***************************************************************************)
EXTENDS Sequences

CONSTANTS Volumes, NoVolume, Classes, Paths, ClassOf, PathOf, ModeOf, PolicyOf,
          Configs, Faults, MaxLag

VARIABLES
    pvs, jobs, data,
    pvEventsA, jobEventsA, cacheA, jobListerA, procTableA, cleaningA, configA,
    pcA, todoA, curA,
    pvEventsB, jobEventsB, cacheB, jobListerB, procTableB, cleaningB, configB,
    pcB, todoB, curB

A == INSTANCE Provisioner WITH
         pvEvents <- pvEventsA, jobEvents <- jobEventsA, cache <- cacheA,
         jobLister <- jobListerA, procTable <- procTableA, cleaning <- cleaningA,
         config <- configA, pc <- pcA, todo <- todoA, cur <- curA

B == INSTANCE Provisioner WITH
         pvEvents <- pvEventsB, jobEvents <- jobEventsB, cache <- cacheB,
         jobLister <- jobListerB, procTable <- procTableB, cleaning <- cleaningB,
         config <- configB, pc <- pcB, todo <- todoB, cur <- curB

processA == <<cacheA, jobListerA, procTableA, cleaningA, configA, pcA, todoA, curA>>
processB == <<cacheB, jobListerB, procTableB, cleaningB, configB, pcB, todoB, curB>>
vars == <<pvs, jobs, data, pvEventsA, jobEventsA, processA, pvEventsB, jobEventsB, processB>>

Init == A!Init /\ B!Init

-----------------------------------------------------------------------------
(* A step of one process, of its informers or of the cluster is a step of  *)
(* Provisioner.  The other process hears of the write on its own watches.  *)

\* The event about the PV or the Job a step has written, if it has.
PVNews == {[name |-> v, pv |-> pvs'[v]] : v \in {u \in Volumes : pvs'[u] # pvs[u]}}
JobNews == {[name |-> v, job |-> jobs'[v]] : v \in {u \in Volumes : jobs'[u] # jobs[u]}}

Heard(events, listening, news) ==
    IF listening /\ news # {} THEN Append(events, CHOOSE e \in news : TRUE) ELSE events

AHears ==
    /\ pvEventsA' = Heard(pvEventsA, A!Up, PVNews)
    /\ jobEventsA' = Heard(jobEventsA, A!Up /\ configA.useJob, JobNews)
    /\ UNCHANGED processA

BHears ==
    /\ pvEventsB' = Heard(pvEventsB, B!Up, PVNews)
    /\ jobEventsB' = Heard(jobEventsB, B!Up /\ configB.useJob, JobNews)
    /\ UNCHANGED processB

Cluster == A!Environment /\ B!CaughtUp /\ BHears

StepOfA ==
    /\ \/ A!SyncLoop \/ A!Start \/ A!Crash \/ A!DeliverPVEvent \/ A!DeliverJobEvent
       \/ \E v \in Volumes : A!CleanSucceeds(v) \/ A!CleanFails(v)
    /\ BHears

StepOfB ==
    /\ \/ B!SyncLoop \/ B!Start \/ B!Crash \/ B!DeliverPVEvent \/ B!DeliverJobEvent
       \/ \E v \in Volumes : B!CleanSucceeds(v) \/ B!CleanFails(v)
    /\ AHears

Next == Cluster \/ StepOfA \/ StepOfB

Spec == Init /\ [][Next]_vars

-----------------------------------------------------------------------------
(* Properties.                                                             *)

\* "We don't accidentally create a new PV when a cleaning job is in progress
\* ... even if the Daemonset had two provisioners running on the same host":
\* no PV offers a volume, or is bound, while a Job or a goroutine of either
\* process cleans it (runJob, discoverVolumesAtPath).
NoPVWhileEitherCleans == A!NoPVWhileCleaning /\ B!NoPVWhileCleaning
=============================================================================
