---------------------- MODULE ProvisionerViews_proofs -----------------------
(***************************************************************************)
(* What the process sees of the cluster, in every cleaning mode and with   *)
(* every fault: the Job lister never makes it delete a Job that may still  *)
(* be writing, and the volume cache comes to hold its PVs as they are.     *)
(***************************************************************************)
EXTENDS Provisioner_proofs

-----------------------------------------------------------------------------
(* JobViewInv as a fact about a Job, the lister's view of it and the       *)
(* events on their way; starting says that the loop is about to create it. *)

Good(e, v) == e.name = v /\ e.job.status = "succeeded"
Other(e, v) == e.name = v /\ e.job.status # "succeeded"
Sees(v, seen, events) ==
    seen.status = "succeeded" \/ \E i \in 1..Len(events) : Good(events[i], v)

Facts(v, job, seen, events, starting) ==
    /\ job.status \in {"active", "failed"} => ~Sees(v, seen, events)
    /\ \A j \in 1..Len(events) :
           /\ Good(events[j], v)
           /\ seen.status # "succeeded" \/ \E i \in 1..Len(events) : i < j /\ Other(events[i], v)
           => job = Done
    /\ \A j \in 1..Len(events) :
           /\ Other(events[j], v)
           /\ seen.status = "succeeded" \/ \E i \in 1..Len(events) : i < j /\ Good(events[i], v)
           => job = NoJob
    /\ starting /\ Sees(v, seen, events) => job = Done

\* The loop has found no cleaning of v and is about to create a Job.
Starting(v) == pc = "startCleaning" /\ cur = v /\ RunsJob(v)

\* The two forms say the same.
LEMMA SameFacts ==
  \A v \in Volumes :
      JobViewInv(v) <=> Facts(v, jobs[v], jobLister[v], jobEvents, Starting(v))
BY DEF JobViewInv, Facts, Starting, SeesSuccess, Sees, Succeeded, Unfinished, Good, Other, Done

\* So they do after a step.
LEMMA SameFactsNext ==
  \A v \in Volumes :
      JobViewInv(v)' <=> Facts(v, jobs[v], jobLister[v], jobEvents, Starting(v))'
<1>1. (\A v \in Volumes :
          JobViewInv(v) <=> Facts(v, jobs[v], jobLister[v], jobEvents, Starting(v)))'
  BY SameFacts, PTL
<1> QED
  BY <1>1

\* The events of a volume and of the others.
LEMMA AppendedEvent ==
  ASSUME NEW T, NEW events \in Seq(T), NEW e \in T
  PROVE  /\ Len(Append(events, e)) = Len(events) + 1
         /\ Len(events) \in Nat
         /\ \A i \in 1..Len(events) : Append(events, e)[i] = events[i]
         /\ Append(events, e)[Len(events) + 1] = e
  OBVIOUS

\* An event about another volume changes nothing for this one.
LEMMA AnotherEvent ==
  ASSUME NEW T, NEW events \in Seq(T), NEW e \in T, NEW v, NEW job, NEW seen,
         NEW starting \in BOOLEAN, e.name # v, Facts(v, job, seen, events, starting)
  PROVE  Facts(v, job, seen, Append(events, e), starting)
<1> DEFINE after == Append(events, e)
           n == Len(events)
<1>1. Len(after) = n + 1 /\ n \in Nat /\ (\A i \in 1..n : after[i] = events[i]) /\ after[n + 1] = e
  BY AppendedEvent
<1> HIDE DEF after
<1>2. \A i \in 1..(n + 1) :
          Good(after[i], v) \/ Other(after[i], v) => i \in 1..n /\ after[i] = events[i]
  BY <1>1 DEF Good, Other
<1>3. \A i \in 1..n : i \in 1..(n + 1)
  BY <1>1
<1>4. Sees(v, seen, after) => Sees(v, seen, events)
  BY <1>1, <1>2 DEF Sees
<1>5. ASSUME NEW j \in 1..(n + 1), Good(after[j], v),
             seen.status # "succeeded" \/ \E i \in 1..(n + 1) : i < j /\ Other(after[i], v)
      PROVE  job = Done
  <2>1. j \in 1..n /\ Good(events[j], v)
    BY <1>2, <1>5
  <2>2. seen.status # "succeeded" \/ \E i \in 1..n : i < j /\ Other(events[i], v)
    BY <1>2, <1>5
  <2> QED
    BY <2>1, <2>2 DEF Facts
<1>6. ASSUME NEW j \in 1..(n + 1), Other(after[j], v),
             seen.status = "succeeded" \/ \E i \in 1..(n + 1) : i < j /\ Good(after[i], v)
      PROVE  job = NoJob
  <2>1. j \in 1..n /\ Other(events[j], v)
    BY <1>2, <1>6
  <2>2. seen.status = "succeeded" \/ \E i \in 1..n : i < j /\ Good(events[i], v)
    BY <1>2, <1>6
  <2> QED
    BY <2>1, <2>2 DEF Facts
<1>7. /\ job.status \in {"active", "failed"} => ~Sees(v, seen, after)
      /\ starting /\ Sees(v, seen, after) => job = Done
  BY <1>4 DEF Facts
<1> QED
  BY <1>1, <1>5, <1>6, <1>7 DEF Facts, after

\* What may be written to a Job, given what is seen of it: anything but a
\* deleted success while no success is seen; its end when it is deleted; and
\* its deletion once the success is in the lister.
MayPut(v, job, seen, events, starting, new) ==
    \/ ~Sees(v, seen, events) /\ (new.status = "succeeded" => new = Done)
    \/ job.status = "succeeded" /\ job.deleting /\ new = NoJob
    \/ /\ seen.status = "succeeded" /\ job.status = "succeeded" /\ ~starting
       /\ new.status = "succeeded"

\* A write of that kind, which is reported, keeps the facts.
LEMMA OwnEvent ==
  ASSUME NEW T, NEW events \in Seq(T), NEW v, NEW new, [name |-> v, job |-> new] \in T,
         NEW job, NEW seen, NEW starting \in BOOLEAN,
         Facts(v, job, seen, events, starting), MayPut(v, job, seen, events, starting, new)
  PROVE  Facts(v, new, seen, Append(events, [name |-> v, job |-> new]), starting)
<1> DEFINE e == [name |-> v, job |-> new]
           after == Append(events, e)
           n == Len(events)
<1>1. Len(after) = n + 1 /\ n \in Nat /\ (\A i \in 1..n : after[i] = events[i]) /\ after[n + 1] = e
  BY AppendedEvent
<1>2. e.name = v /\ e.job = new
  OBVIOUS
<1> HIDE DEF after, e
<1>3. \A i \in 1..(n + 1) : i \in 1..n \/ i = n + 1
  BY <1>1
<1>4. (Good(e, v) <=> new.status = "succeeded") /\ (Other(e, v) <=> new.status # "succeeded")
  BY <1>2 DEF Good, Other
<1>5. CASE ~Sees(v, seen, events) /\ (new.status = "succeeded" => new = Done)
  <2>1. \A i \in 1..(n + 1) : Good(after[i], v) => i = n + 1 /\ new = Done
    BY <1>1, <1>3, <1>4, <1>5 DEF Sees
  <2>2. seen.status # "succeeded"
    BY <1>5 DEF Sees
  <2>3. Sees(v, seen, after) => new = Done
    BY <1>1, <2>1, <2>2 DEF Sees
  <2>4. \A i, j \in 1..(n + 1) : i < j => ~Good(after[i], v)
    BY <1>1, <2>1
  <2>5. Done.status = "succeeded"
    BY DEF Done
  <2> QED
    BY <1>1, <2>1, <2>2, <2>3, <2>4, <2>5 DEF Facts, after, e
<1>6. CASE job.status = "succeeded" /\ job.deleting /\ new = NoJob
  <2>1. job # Done /\ job # NoJob /\ new.status = "absent"
    BY <1>6 DEF Done, NoJob
  <2>2. ~Good(e, v)
    BY <1>4, <2>1
  <2>3. ~(starting /\ Sees(v, seen, after))
    BY <1>1, <1>3, <2>1, <2>2 DEF Facts, Sees
  <2>4. ASSUME NEW j \in 1..(n + 1), Good(after[j], v),
               seen.status # "succeeded" \/ \E i \in 1..(n + 1) : i < j /\ Other(after[i], v)
        PROVE  FALSE
    <3>1. j \in 1..n /\ Good(events[j], v)
      BY <1>1, <1>3, <2>2, <2>4
    <3>2. seen.status # "succeeded" \/ \E i \in 1..n : i < j /\ Other(events[i], v)
      BY <1>1, <1>3, <2>4, <3>1
    <3> QED
      BY <2>1, <3>1, <3>2 DEF Facts
  <2> QED
    BY <1>1, <1>6, <2>1, <2>3, <2>4 DEF Facts, after, e
<1>7. CASE /\ seen.status = "succeeded" /\ job.status = "succeeded" /\ ~starting
           /\ new.status = "succeeded"
  <2>1. job # NoJob
    BY <1>7 DEF NoJob
  <2>2. \A i \in 1..n : ~Other(events[i], v)
    BY <1>7, <2>1 DEF Facts
  <2>3. \A i \in 1..(n + 1) : ~Other(after[i], v)
    BY <1>1, <1>3, <1>4, <1>7, <2>2
  <2> QED
    BY <1>1, <1>7, <2>3 DEF Facts, after, e
<1> QED
  BY <1>5, <1>6, <1>7 DEF MayPut

\* The oldest event reaches the lister.
LEMMA Delivered ==
  ASSUME NEW T, NEW events \in Seq(T), events # <<>>, NEW v, NEW job, NEW seen,
         NEW starting \in BOOLEAN, Facts(v, job, seen, events, starting)
  PROVE  Facts(v, job, IF Head(events).name = v THEN Head(events).job ELSE seen,
               Tail(events), starting)
<1> DEFINE after == Tail(events)
           n == Len(events)
           sees == IF Head(events).name = v THEN Head(events).job ELSE seen
<1>1. /\ n \in Nat /\ n >= 1 /\ Len(after) = n - 1 /\ Head(events) = events[1]
      /\ \A i \in 1..(n - 1) : after[i] = events[i + 1] /\ i + 1 \in 1..n
  OBVIOUS
<1> HIDE DEF after
<1>2. /\ sees.status = "succeeded" => Good(events[1], v) \/ seen.status = "succeeded"
      /\ sees.status # "succeeded" => Other(events[1], v) \/ seen.status # "succeeded"
  BY <1>1 DEF Good, Other
<1>3. 1 \in 1..n /\ \A i \in 1..(n - 1) : 1 < i + 1
  BY <1>1
<1> HIDE DEF sees
<1>4. Sees(v, sees, after) => Sees(v, seen, events)
  BY <1>1, <1>2, <1>3 DEF Sees
<1>5. ASSUME NEW j \in 1..(n - 1), Good(after[j], v),
             sees.status # "succeeded" \/ \E i \in 1..(n - 1) : i < j /\ Other(after[i], v)
      PROVE  job = Done
  <2>1. j + 1 \in 1..n /\ Good(events[j + 1], v)
    BY <1>1, <1>5
  <2>2. seen.status # "succeeded" \/ \E i \in 1..n : i < j + 1 /\ Other(events[i], v)
    <3>1. CASE sees.status # "succeeded"
      BY <1>2, <1>3, <3>1
    <3>2. CASE \E i \in 1..(n - 1) : i < j /\ Other(after[i], v)
      <4>1. PICK i \in 1..(n - 1) : i < j /\ Other(after[i], v)
        BY <3>2
      <4>2. i + 1 \in 1..n /\ i + 1 < j + 1 /\ Other(events[i + 1], v)
        BY <1>1, <4>1
      <4> QED
        BY <4>2
    <3> QED
      BY <1>5, <3>1, <3>2
  <2> QED
    BY <2>1, <2>2 DEF Facts
<1>6. ASSUME NEW j \in 1..(n - 1), Other(after[j], v),
             sees.status = "succeeded" \/ \E i \in 1..(n - 1) : i < j /\ Good(after[i], v)
      PROVE  job = NoJob
  <2>1. j + 1 \in 1..n /\ Other(events[j + 1], v)
    BY <1>1, <1>6
  <2>2. seen.status = "succeeded" \/ \E i \in 1..n : i < j + 1 /\ Good(events[i], v)
    <3>1. CASE sees.status = "succeeded"
      BY <1>2, <1>3, <3>1
    <3>2. CASE \E i \in 1..(n - 1) : i < j /\ Good(after[i], v)
      <4>1. PICK i \in 1..(n - 1) : i < j /\ Good(after[i], v)
        BY <3>2
      <4>2. i + 1 \in 1..n /\ i + 1 < j + 1 /\ Good(events[i + 1], v)
        BY <1>1, <4>1
      <4> QED
        BY <4>2
    <3> QED
      BY <1>6, <3>1, <3>2
  <2> QED
    BY <2>1, <2>2 DEF Facts
<1>7. /\ job.status \in {"active", "failed"} => ~Sees(v, sees, after)
      /\ starting /\ Sees(v, sees, after) => job = Done
  BY <1>4 DEF Facts
<1>8. Facts(v, job, sees, after, starting)
  BY <1>1, <1>5, <1>6, <1>7 DEF Facts
<1> QED
  BY <1>8 DEF after, sees

\* Without a view of a Job, or with the present one only, the facts hold.
LEMMA NoEvents ==
  ASSUME NEW v, NEW job, NEW starting \in BOOLEAN
  PROVE  Facts(v, job, NoJob, <<>>, starting) /\ Facts(v, job, job, <<>>, FALSE)
<1>1. \A i \in 1..Len(<<>>) : FALSE
  OBVIOUS
<1>2. /\ Sees(v, NoJob, <<>>) <=> NoJob.status = "succeeded"
      /\ Sees(v, job, <<>>) <=> job.status = "succeeded"
  BY <1>1, Zenon DEF Sees
<1>3. NoJob.status = "absent"
  BY DEF NoJob
<1>4. ~Sees(v, NoJob, <<>>) /\ (job.status \in {"active", "failed"} => ~Sees(v, job, <<>>))
  BY <1>2, <1>3
<1> QED
  BY <1>1, <1>4, Zenon DEF Facts

\* A loop that creates a Job has found none in the lister.
LEMMA StartingFacts ==
  ASSUME NEW v, NEW job, NEW seen, NEW events, NEW starting \in BOOLEAN, NEW next \in BOOLEAN,
         Facts(v, job, seen, events, starting), next => starting \/ seen = NoJob
  PROVE  Facts(v, job, seen, events, next)
<1>1. CASE next => starting
  BY <1>1 DEF Facts
<1>2. CASE seen = NoJob
  BY <1>2 DEF Facts, Sees, NoJob
<1> QED
  BY <1>1, <1>2

-----------------------------------------------------------------------------
(* The steps on Jobs.                                                      *)

\* The invariant but for the types.
JobFacts ==
    /\ OnlyFinishedJobsDeleted
    /\ \A v \in Volumes : JobViewInv(v)
    /\ ~(Up /\ config.useJob) => jobEvents = <<>> /\ jobLister = [v \in Volumes |-> NoJob]

\* The step creates no Job, unless for a volume of which the lister has none.
KeepsStarting == \A v \in Volumes : Starting(v)' => Starting(v) \/ jobLister[v] = NoJob

\* A step that leaves Jobs and what is seen of them alone.
LEMMA JobsAlone ==
  ASSUME JobsInv, UNCHANGED <<jobs, jobEvents, jobLister, config>>, Up' = Up, KeepsStarting
  PROVE  JobFacts'
<1>1. ASSUME NEW v \in Volumes PROVE JobViewInv(v)'
  <2>1. Facts(v, jobs[v], jobLister[v], jobEvents, Starting(v))
    BY SameFacts DEF JobsInv
  <2>2. Starting(v) \in BOOLEAN /\ Starting(v)' \in BOOLEAN
    BY DEF Starting
  <2>3. Facts(v, jobs[v], jobLister[v], jobEvents, Starting(v)')
    BY <2>1, <2>2, StartingFacts DEF KeepsStarting
  <2>4. Facts(v, jobs'[v], jobLister'[v], jobEvents', Starting(v)')
    BY <2>3
  <2> QED
    BY <2>4, SameFactsNext
<1>2. OnlyFinishedJobsDeleted'
  BY DEF JobsInv, OnlyFinishedJobsDeleted
<1>3. (~(Up /\ config.useJob) => jobEvents = <<>> /\ jobLister = [v \in Volumes |-> NoJob])'
  BY DEF JobsInv
<1> QED
  BY <1>1, <1>2, <1>3 DEF JobFacts

\* A write of a Job that its views allow.
LEMMA JobWritten ==
  ASSUME JobsInv, NEW v \in Volumes, NEW new \in Job, PutJob(v, new),
         MayPut(v, jobs[v], jobLister[v], jobEvents, Starting(v), new),
         new.deleting => new.status \in {"succeeded", "failed"},
         UNCHANGED <<jobLister, config>>, Up' = Up,
         \A u \in Volumes : Starting(u)' => Starting(u)
  PROVE  JobFacts'
<1> DEFINE T == [name : Volumes, job : Job]
           e == [name |-> v, job |-> new]
<1>1. jobEvents \in Seq(T) /\ e \in T /\ e.name = v /\ e.job = new
  BY DEF JobsInv, TypeOK
<1>2. jobs'[v] = new /\ \A u \in Volumes \ {v} : jobs'[u] = jobs[u]
  BY DEF JobsInv, TypeOK, PutJob
<1>3. jobEvents' = IF Up /\ config.useJob THEN Append(jobEvents, e) ELSE jobEvents
  BY DEF PutJob
<1> HIDE DEF T
<1>4. ASSUME NEW u \in Volumes PROVE JobViewInv(u)'
  <2>1. Facts(u, jobs[u], jobLister[u], jobEvents, Starting(u))
    BY SameFacts DEF JobsInv
  <2>2. Starting(u) \in BOOLEAN /\ Starting(u)' \in BOOLEAN
    BY DEF Starting
  <2>3. Facts(u, jobs'[u], jobLister[u], jobEvents', Starting(u))
    <3>1. CASE Up /\ config.useJob /\ u = v
      BY <1>1, <1>2, <1>3, <2>1, <2>2, <3>1, OwnEvent
    <3>2. CASE Up /\ config.useJob /\ u # v
      <4>1. e.name # u /\ jobs'[u] = jobs[u] /\ jobEvents' = Append(jobEvents, e)
        BY <1>1, <1>2, <1>3, <3>2
      <4>2. Facts(u, jobs[u], jobLister[u], Append(jobEvents, e), Starting(u))
        <5> HIDE DEF e
        <5> QED BY <1>1, <2>1, <2>2, <4>1, AnotherEvent
      <4> QED
        BY <4>1, <4>2
    <3>3. CASE ~(Up /\ config.useJob)
      BY <1>3, <2>2, <3>3, NoEvents DEF JobsInv
    <3> QED
      BY <3>1, <3>2, <3>3
  <2>4. Facts(u, jobs'[u], jobLister'[u], jobEvents', Starting(u)')
    BY <2>2, <2>3, StartingFacts
  <2> QED
    BY <2>4, SameFactsNext
<1>5. OnlyFinishedJobsDeleted'
  BY <1>2 DEF JobsInv, OnlyFinishedJobsDeleted
<1>6. (~(Up /\ config.useJob) => jobEvents = <<>> /\ jobLister = [u \in Volumes |-> NoJob])'
  BY <1>3 DEF JobsInv
<1> QED
  BY <1>4, <1>5, <1>6 DEF JobFacts

\* A Job's pod, an administrator or the garbage collector changes a Job.
LEMMA ClusterWrites ==
  ASSUME JobsInv, NEW v \in Volumes,
         JobSucceeds(v) \/ JobFails(v) \/ AdminDeletesJob(v) \/ JobCollected(v)
  PROVE  JobFacts'
<1>1. /\ UNCHANGED <<jobLister, config>> /\ Up' = Up
      /\ \A u \in Volumes : Starting(u)' => Starting(u)
  BY DEF JobSucceeds, JobFails, AdminDeletesJob, JobCollected, JobStep, processVars, loopVars,
         Up, Starting, RunsJob
<1>2. Facts(v, jobs[v], jobLister[v], jobEvents, Starting(v))
  BY SameFacts DEF JobsInv
<1>3. jobs[v] \in Job /\ (jobs[v].deleting => jobs[v].status \in {"succeeded", "failed"})
  BY DEF JobsInv, TypeOK, OnlyFinishedJobsDeleted
<1>4. jobs[v].status \in {"active", "failed"} => ~Sees(v, jobLister[v], jobEvents)
  BY <1>2 DEF Facts
<1>5. CASE JobSucceeds(v)
  <2>1. jobs[v].status = "active" /\ PutJob(v, Done)
    <3>1. jobs[v].status = "active" /\ PutJob(v, [jobs[v] EXCEPT !.status = "succeeded"])
      BY <1>5 DEF JobSucceeds
    <3>2. jobs[v].deleting = FALSE
      BY <1>3, <3>1 DEF Job
    <3>3. [jobs[v] EXCEPT !.status = "succeeded"] = Done
      <4> DEFINE new == [jobs[v] EXCEPT !.status = "succeeded"]
      <4>1. new \in Job /\ new.status = "succeeded" /\ new.deleting = jobs[v].deleting
        BY <1>3 DEF Job
      <4>2. new = [status |-> new.status, deleting |-> new.deleting]
        BY <4>1 DEF Job
      <4> HIDE DEF new
      <4>3. new = Done
        BY <3>2, <4>1, <4>2 DEF Done
      <4> QED
        BY <4>3 DEF new
    <3> QED
      BY <3>1, <3>3
  <2>2. Done \in Job /\ ~Done.deleting
    BY DEF Done, Job
  <2>3. MayPut(v, jobs[v], jobLister[v], jobEvents, Starting(v), Done)
    BY <1>4, <2>1 DEF MayPut
  <2> QED
    BY <1>1, <2>1, <2>2, <2>3, JobWritten
<1>6. CASE JobFails(v) \/ AdminDeletesJob(v)
  <2>1. PICK new \in Job : new.status = "failed" /\ PutJob(v, new)
    <3>1. [jobs[v] EXCEPT !.status = "failed"] \in Job /\ [jobs[v] EXCEPT !.deleting = TRUE] \in Job
      BY <1>3 DEF Job
    <3>2. /\ [jobs[v] EXCEPT !.status = "failed"].status = "failed"
          /\ [jobs[v] EXCEPT !.deleting = TRUE].status = jobs[v].status
      BY <1>3 DEF Job
    <3> QED
      BY <1>6, <3>1, <3>2 DEF JobFails, AdminDeletesJob
  <2>2. jobs[v].status \in {"active", "failed"}
    BY <1>6 DEF JobFails, AdminDeletesJob
  <2>3. MayPut(v, jobs[v], jobLister[v], jobEvents, Starting(v), new)
    BY <1>4, <2>1, <2>2 DEF MayPut
  <2> QED
    BY <1>1, <2>1, <2>3, JobWritten
<1>7. CASE JobCollected(v)
  <2>1. jobs[v].deleting /\ PutJob(v, NoJob) /\ NoJob.status = "absent" /\ ~NoJob.deleting
    BY <1>7 DEF JobCollected, NoJob
  <2>2. MayPut(v, jobs[v], jobLister[v], jobEvents, Starting(v), NoJob)
    <3>1. CASE jobs[v].status = "succeeded"
      BY <2>1, <3>1 DEF MayPut
    <3>2. CASE jobs[v].status \in {"active", "failed"}
      BY <1>4, <2>1, <3>2 DEF MayPut
    <3> QED
      BY <1>3, <2>1, <3>1, <3>2
  <2> QED
    BY <1>1, <2>1, <2>2, NoObjects, JobWritten
<1> QED
  BY <1>5, <1>6, <1>7

\* RemoveJob deletes only what it sees as succeeded.
LEMMA StatusTaken ==
  ASSUME JobsInv, NEW v \in Volumes, NEW result, RemoveStatus(v, result),
         pc \in {"removeStatus", "forgetStatus"},
         UNCHANGED <<jobLister, config>>, Up' = Up, KeepsStarting,
         result # "CSNotFound" => \A u \in Volumes : RunsJob(v) => ~Starting(u)'
  PROVE  JobFacts'
<1>1. CASE UNCHANGED <<jobs, jobEvents>>
  BY <1>1, JobsAlone
<1>2. CASE ~UNCHANGED <<jobs, jobEvents>>
  <2> DEFINE new == [jobs[v] EXCEPT !.deleting = TRUE]
  <2>1. /\ RunsJob(v) /\ jobLister[v].status = "succeeded" /\ jobs[v] # NoJob
        /\ result \in {"CSSucceeded", "error"} /\ ~jobs[v].deleting
        /\ PutJob(v, new)
    BY <1>2 DEF RemoveStatus, RemoveJob, RequestJobDeletion
  <2>2. Facts(v, jobs[v], jobLister[v], jobEvents, Starting(v))
    BY SameFacts DEF JobsInv
  <2>3. jobs[v] \in Job
    BY DEF JobsInv, TypeOK
  <2>4. jobs[v].status \notin {"active", "failed"}
    BY <2>1, <2>2 DEF Facts, Sees
  <2>5. jobs[v].status # "absent"
    <3>1. jobs[v].deleting = FALSE
      BY <2>1, <2>3 DEF Job
    <3> QED
      BY <2>1, <2>3, <3>1 DEF Job, NoJob
  <2>6. jobs[v].status = "succeeded" /\ new \in Job /\ new.status = "succeeded"
    BY <2>3, <2>4, <2>5 DEF Job
  <2>7. ~Starting(v) /\ \A u \in Volumes : Starting(u)' => Starting(u)
    BY <2>1 DEF Starting
  <2>8. MayPut(v, jobs[v], jobLister[v], jobEvents, Starting(v), new)
    BY <2>1, <2>6, <2>7 DEF MayPut
  <2> HIDE DEF new
  <2> QED
    BY <2>1, <2>6, <2>7, <2>8, JobWritten
<1> QED
  BY <1>1, <1>2

\* deletePV and createPV take the status of an earlier cleaning.
LEMMA StatusSteps ==
  ASSUME JobsInv, NEW result, TakeStatus(result) \/ ForgetStatus(result)
  PROVE  JobFacts'
<1>1. cur \in Volumes /\ pc \in {"removeStatus", "forgetStatus"} /\ RemoveStatus(cur, result)
  BY DEF JobsInv, TypeOK, BusyPCs, TakeStatus, ForgetStatus
<1>2. UNCHANGED <<jobLister, config>>
  BY DEF TakeStatus, ForgetStatus
<1>3. Up' = Up
  BY <1>1 DEF TakeStatus, ForgetStatus, Up
<1>4. /\ pc' = "startCleaning" => result \notin {"error", "CSSucceeded"}
      /\ cur' # NoVolume => cur' = cur
  BY DEF TakeStatus, ForgetStatus
<1>5. RunsJob(cur) => \/ result = "CSNotFound" /\ jobLister[cur] = NoJob
                      \/ result \in {"error", "CSSucceeded"}
  BY <1>1 DEF RemoveStatus, RemoveJob
<1>6. ASSUME NEW u \in Volumes, Starting(u)'
      PROVE  u = cur /\ RunsJob(cur) /\ result = "CSNotFound" /\ jobLister[cur] = NoJob
  BY <1>2, <1>4, <1>5, <1>6, ConstantsAssumption DEF Starting, RunsJob
<1>7. KeepsStarting
  BY <1>6 DEF KeepsStarting
<1>8. result # "CSNotFound" => \A u \in Volumes : RunsJob(cur) => ~Starting(u)'
  BY <1>6
<1> QED
  BY <1>1, <1>2, <1>3, <1>7, <1>8, StatusTaken

\* runJob creates a Job only when no success of an earlier one is in sight.
LEMMA RunJobStep ==
  ASSUME JobsInv, RunJob
  PROVE  JobFacts'
<1>1. /\ cur \in Volumes /\ Starting(cur) /\ UNCHANGED <<jobLister, config>>
      /\ Up' = Up /\ \A u \in Volumes : ~Starting(u)'
  BY DEF JobsInv, TypeOK, BusyPCs, RunJob, Starting, NextReclaim, Up, processVars
<1>2. CASE jobs[cur] = NoJob
  <2> DEFINE new == [status |-> "active", deleting |-> FALSE]
  <2>1. PutJob(cur, new)
    BY <1>2 DEF RunJob
  <2>2. new \in Job /\ new.status = "active" /\ ~new.deleting
    BY DEF Job
  <2>3. Facts(cur, jobs[cur], jobLister[cur], jobEvents, Starting(cur))
    BY <1>1, SameFacts DEF JobsInv
  <2>4. ~Sees(cur, jobLister[cur], jobEvents)
    BY <1>1, <1>2, <2>3 DEF Facts, NoJob, Done
  <2> HIDE DEF new
  <2>5. MayPut(cur, jobs[cur], jobLister[cur], jobEvents, Starting(cur), new)
    BY <2>2, <2>4 DEF MayPut
  <2> QED
    BY <1>1, <2>1, <2>2, <2>5, JobWritten
<1>3. CASE jobs[cur] # NoJob
  <2>1. UNCHANGED <<jobs, jobEvents>> /\ KeepsStarting
    BY <1>1, <1>3 DEF RunJob, KeepsStarting
  <2> QED
    BY <1>1, <2>1, JobsAlone
<1> QED
  BY <1>2, <1>3

\* The Job informer puts the oldest event into its store.
LEMMA JobDelivered ==
  ASSUME JobsInv, DeliverJobEvent
  PROVE  JobFacts'
<1> DEFINE T == [name : Volumes, job : Job]
<1>1. /\ jobEvents # <<>> /\ jobEvents' = Tail(jobEvents)
      /\ jobLister' = [jobLister EXCEPT ![Head(jobEvents).name] = Head(jobEvents).job]
      /\ UNCHANGED <<jobs, config, pc, cur>>
  BY DEF DeliverJobEvent, loopVars
<1>2. jobEvents \in Seq(T) /\ jobLister \in [Volumes -> Job]
  BY DEF JobsInv, TypeOK
<1> HIDE DEF T
<1>3. ASSUME NEW u \in Volumes PROVE JobViewInv(u)'
  <2>1. Facts(u, jobs[u], jobLister[u], jobEvents, Starting(u))
    BY SameFacts DEF JobsInv
  <2>2. Starting(u) \in BOOLEAN /\ Starting(u)' = Starting(u)
    BY <1>1 DEF Starting, RunsJob
  <2>3. Facts(u, jobs[u], IF Head(jobEvents).name = u THEN Head(jobEvents).job ELSE jobLister[u],
              Tail(jobEvents), Starting(u))
    BY <1>1, <1>2, <2>1, <2>2, Delivered
  <2>4. jobLister'[u] = IF Head(jobEvents).name = u THEN Head(jobEvents).job ELSE jobLister[u]
    BY <1>1, <1>2
  <2>5. Facts(u, jobs'[u], jobLister'[u], jobEvents', Starting(u)')
    BY <1>1, <2>2, <2>3, <2>4
  <2> QED
    BY <2>5, SameFactsNext
<1>4. OnlyFinishedJobsDeleted'
  BY <1>1 DEF JobsInv, OnlyFinishedJobsDeleted
<1>5. (Up /\ config.useJob)'
  BY <1>1 DEF JobsInv, Up
<1> QED
  BY <1>3, <1>4, <1>5 DEF JobFacts

\* A process that starts lists the Jobs; one that dies forgets them.
LEMMA LifeSteps ==
  ASSUME JobsInv, Start \/ Crash
  PROVE  JobFacts'
<1>1. /\ UNCHANGED jobs /\ jobEvents' = <<>> /\ \A u \in Volumes : ~Starting(u)'
      /\ \/ jobLister' = [u \in Volumes |-> NoJob]
         \/ jobLister' = jobs /\ config'.useJob /\ Up'
  BY DEF JobsInv, Start, Crash, Up, Starting
<1>2. ASSUME NEW u \in Volumes PROVE JobViewInv(u)'
  <2>1. Facts(u, jobs[u], NoJob, <<>>, FALSE) /\ Facts(u, jobs[u], jobs[u], <<>>, FALSE)
    BY NoEvents
  <2>2. jobLister'[u] = NoJob \/ jobLister'[u] = jobs[u]
    BY <1>1
  <2>3. Starting(u)' = FALSE
    BY <1>1 DEF Starting
  <2>4. Facts(u, jobs'[u], jobLister'[u], jobEvents', Starting(u)')
    BY <1>1, <2>1, <2>2, <2>3
  <2> QED
    BY <2>4, SameFactsNext
<1>3. OnlyFinishedJobsDeleted'
  BY <1>1 DEF JobsInv, OnlyFinishedJobsDeleted
<1>4. (~(Up /\ config.useJob) => jobEvents = <<>> /\ jobLister = [v \in Volumes |-> NoJob])'
  BY <1>1
<1> QED
  BY <1>2, <1>3, <1>4 DEF JobFacts

\* The other steps of the loop.
LEMMA LoopSteps ==
  ASSUME JobsInv,
         \/ ListPVs \/ DeletePV \/ DeletePVFails \/ RunProcess \/ RunJobFails
         \/ ListFiles \/ CreatePV \/ CreatePVFails \/ EndPass
         \/ \E v \in Volumes :
                SkipReclaim(v) \/ BeginReclaim(v) \/ SkipFile(v) \/ BeginCreate(v)
  PROVE  JobFacts'
<1>1. UNCHANGED <<jobs, jobEvents, jobLister, config>>
  BY DEF ListPVs, DeletePV, DeletePVFails, RunProcess, RunJobFails, ListFiles, CreatePV,
         CreatePVFails, EndPass, SkipReclaim, BeginReclaim, SkipFile, BeginCreate,
         clusterVars, processVars
<1>2. pc # "down" /\ pc' # "down" /\ pc' # "startCleaning"
  BY DEF ListPVs, DeletePV, DeletePVFails, RunProcess, RunJobFails, ListFiles, CreatePV,
         CreatePVFails, EndPass, SkipReclaim, BeginReclaim, SkipFile, BeginCreate,
         NextReclaim, NextFile
<1>3. Up' = Up /\ KeepsStarting
  BY <1>2 DEF Up, KeepsStarting, Starting
<1> QED
  BY <1>1, <1>3, JobsAlone

\* Users, administrators of PVs, the PV informer and the goroutines.
LEMMA OtherSteps ==
  ASSUME JobsInv,
         \/ \E v \in Volumes :
                \/ Bind(v) \/ UserWrites(v) \/ Release(v) \/ PVProtection(v)
                \/ AdminDeletesPV(v) \/ AdminReusesPV(v)
                \/ \E policy \in Policies : AdminSetsPolicy(v, policy)
                \/ CleanSucceeds(v) \/ CleanFails(v)
         \/ DeliverPVEvent \/ UNCHANGED vars
  PROVE  JobFacts'
<1>1. UNCHANGED <<jobs, jobEvents, jobLister, config, pc, cur>>
  BY DEF Bind, UserWrites, Release, PVProtection, AdminDeletesPV, AdminReusesPV,
         AdminSetsPolicy, CleanSucceeds, CleanFails, DeliverPVEvent, UserStep, vars,
         clusterVars, processVars, loopVars
<1>2. Up' = Up /\ KeepsStarting
  BY <1>1 DEF Up, KeepsStarting, Starting, RunsJob
<1> QED
  BY <1>1, <1>2, JobsAlone

-----------------------------------------------------------------------------
(* The theorems on Jobs.                                                   *)

\* Views of Jobs are never so old that they show the success of an earlier
\* Job while a later one runs (IsCleaningJobRunning, RemoveJob, runJob).
THEOREM JobsInvariant == Spec => []JobsInv
<1>1. Init => JobsInv
  <2> SUFFICES ASSUME Init PROVE JobsInv
    OBVIOUS
  <2>1. TypeOK
    BY ConstantsAssumption, NoObjects
    DEF Init, TypeOK, PCs, BusyPCs, EmptyProcTable, CleanupState
  <2>2. ASSUME NEW v \in Volumes PROVE JobViewInv(v)
    <3>1. Starting(v) \in BOOLEAN /\ jobLister[v] = NoJob /\ jobEvents = <<>>
      BY DEF Starting, Init
    <3> QED
      BY <3>1, NoEvents, SameFacts
  <2>3. OnlyFinishedJobsDeleted
    BY DEF Init, OnlyFinishedJobsDeleted, NoJob
  <2> QED
    BY <2>1, <2>2, <2>3 DEF Init, JobsInv
<1>2. JobsInv /\ [Next]_vars => JobsInv'
  <2> SUFFICES ASSUME JobsInv, [Next]_vars PROVE JobsInv'
    OBVIOUS
  <2>1. TypeOK'
    BY TypeStep DEF JobsInv
  <2>2. JobFacts'
    BY ClusterWrites, StatusSteps, RunJobStep, JobDelivered, LifeSteps, LoopSteps, OtherSteps, Zenon
    DEF Next, SyncLoop, Environment
  <2> QED
    BY <2>1, <2>2 DEF JobsInv, JobFacts
<1> QED
  BY <1>1, <1>2, PTL DEF Spec

\* RemoveJob never deletes a Job whose pod may still be writing, although it
\* deletes by name what a lagging lister shows it.
THEOREM RunningJobsAreKept == Spec => []OnlyFinishedJobsDeleted
<1>1. JobsInv => OnlyFinishedJobsDeleted
  BY DEF JobsInv
<1> QED
  BY <1>1, JobsInvariant, PTL
-----------------------------------------------------------------------------
(* CacheViewInv as a fact about a PV, what the cache holds of it and the   *)
(* events on their way, for a provisioner that adopts the PVs in mine.     *)

Own(pv, mine) == pv # NoPV /\ pv \in mine
Foreign(pv, mine) == pv # NoPV /\ pv \notin mine
About(v, events) == {i \in 1..Len(events) : events[i].name = v}
Gone(v, events) == {i \in About(v, events) : events[i].pv = NoPV}

CacheFacts(v, pv, held, events, mine) ==
    /\ ~Foreign(held, mine)
    /\ About(v, events) = {} => held = IF pv \in mine THEN pv ELSE NoPV
    /\ \A i \in About(v, events) :
           (\A j \in About(v, events) : j <= i) => events[i].pv = pv
    /\ Own(held, mine) =>
           /\ ~Own(pv, mine) => Gone(v, events) # {}
           /\ \A j \in About(v, events) :
                  Foreign(events[j].pv, mine) => \E k \in Gone(v, events) : k < j
    /\ \A i \in About(v, events) : Own(events[i].pv, mine) =>
           /\ ~Own(pv, mine) => \E k \in Gone(v, events) : i < k
           /\ \A j \in About(v, events) :
                  i < j /\ Foreign(events[j].pv, mine)
                      => \E k \in Gone(v, events) : i < k /\ k < j

\* The PVs that this provisioner adopts.
Mine == {pv \in PV : Adopts(pv)}

\* The two forms say the same.
LEMMA SameCacheFacts ==
  TypeOK => \A v \in Volumes :
      CacheViewInv(v) <=> CacheFacts(v, pvs[v], cache[v], pvEvents, Mine)
<1> SUFFICES ASSUME TypeOK, NEW v \in Volumes
             PROVE  CacheViewInv(v) <=> CacheFacts(v, pvs[v], cache[v], pvEvents, Mine)
  OBVIOUS
<1>1. pvs[v] \in PV /\ cache[v] \in PV
  BY DEF TypeOK
<1>2. \A i \in About(v, pvEvents) : pvEvents[i].pv \in PV
  BY EventNames DEF About, TypeOK
<1>3. \A pv \in PV : Adopts(pv) <=> pv \in Mine
  BY DEF Mine
<1>4. {i \in 1..Len(pvEvents) : pvEvents[i].name = v} = About(v, pvEvents)
  BY DEF About
<1>5. Gone(v, pvEvents) = {i \in About(v, pvEvents) : pvEvents[i].pv = NoPV}
  BY DEF Gone
<1> QED
  BY <1>1, <1>2, <1>3, <1>4, <1>5 DEF CacheViewInv, CacheFacts, Own, Foreign

\* So they do after a step.
LEMMA SameCacheFactsNext ==
  TypeOK' => \A v \in Volumes :
      CacheViewInv(v)' <=> CacheFacts(v, pvs[v], cache[v], pvEvents, Mine)'
<1>1. (TypeOK => \A v \in Volumes :
          CacheViewInv(v) <=> CacheFacts(v, pvs[v], cache[v], pvEvents, Mine))'
  BY SameCacheFacts, PTL
<1> QED
  BY <1>1

\* An event about another volume changes nothing for this one.
LEMMA AnotherPVEvent ==
  ASSUME NEW T, NEW events \in Seq(T), NEW e \in T, NEW v, NEW pv, NEW held, NEW mine,
         e.name # v, CacheFacts(v, pv, held, events, mine)
  PROVE  CacheFacts(v, pv, held, Append(events, e), mine)
<1> DEFINE after == Append(events, e)
           n == Len(events)
<1>1. Len(after) = n + 1 /\ n \in Nat /\ (\A i \in 1..n : after[i] = events[i]) /\ after[n + 1] = e
  BY AppendedEvent
<1> HIDE DEF after
<1>2. About(v, after) = About(v, events)
  BY <1>1 DEF About
<1>3. \A i \in About(v, events) : after[i] = events[i]
  BY <1>1 DEF About
<1>4. Gone(v, after) = Gone(v, events)
  BY <1>2, <1>3 DEF Gone
<1>5. CacheFacts(v, pv, held, after, mine)
  BY <1>2, <1>3, <1>4 DEF CacheFacts
<1> QED
  BY <1>5 DEF after

\* A write to a PV, which is reported: it creates the PV, removes it or
\* leaves it with its owner.
LEMMA OwnPVEvent ==
  ASSUME NEW T, NEW events \in Seq(T), NEW v, NEW new, [name |-> v, pv |-> new] \in T,
         NEW pv, NEW held, NEW mine, CacheFacts(v, pv, held, events, mine),
         pv = NoPV \/ new = NoPV \/ (new \in mine <=> pv \in mine)
  PROVE  CacheFacts(v, new, held, Append(events, [name |-> v, pv |-> new]), mine)
<1> DEFINE e == [name |-> v, pv |-> new]
           after == Append(events, e)
           n == Len(events)
           A == About(v, events)
           G == Gone(v, events)
<1>1. Len(after) = n + 1 /\ n \in Nat /\ (\A i \in 1..n : after[i] = events[i]) /\ after[n + 1] = e
  BY AppendedEvent
<1>2. e.name = v /\ e.pv = new
  OBVIOUS
<1> HIDE DEF after, e
<1>3. About(v, after) = A \cup {n + 1}
  BY <1>1, <1>2 DEF About
<1>4. A \subseteq 1..n /\ \A i \in A : i < n + 1 /\ after[i] = events[i]
  BY <1>1 DEF About
<1>5. Gone(v, after) = IF new = NoPV THEN G \cup {n + 1} ELSE G
  BY <1>1, <1>2, <1>3, <1>4 DEF Gone
<1>6. G \subseteq A
  BY DEF Gone
<1>7. Own(new, mine) \/ Foreign(new, mine) \/ new = NoPV
  BY DEF Own, Foreign
<1>8. Foreign(new, mine) => ~Own(pv, mine) /\ new # NoPV
  BY DEF Own, Foreign
<1>9. ~Own(new, mine) => new = NoPV \/ ~Own(pv, mine)
  BY <1>7, <1>8
<1>10. after[n + 1].pv = new
  BY <1>1, <1>2
<1> HIDE DEF A, G
<1>11. ASSUME NEW i \in A \cup {n + 1}, \A j \in A \cup {n + 1} : j <= i
       PROVE  after[i].pv = new
  BY <1>1, <1>4, <1>10, <1>11
<1>12. ASSUME Own(held, mine)
       PROVE  /\ ~Own(new, mine) => Gone(v, after) # {}
              /\ \A j \in A \cup {n + 1} :
                     Foreign(after[j].pv, mine) => \E k \in Gone(v, after) : k < j
  <2>1. ~Own(new, mine) => Gone(v, after) # {}
    BY <1>5, <1>9, <1>12 DEF CacheFacts, G
  <2>2. \A j \in A : Foreign(after[j].pv, mine) => \E k \in G : k < j
    BY <1>4, <1>12 DEF CacheFacts, A, G
  <2>3. Foreign(new, mine) => \E k \in G : k < n + 1
    <3>1. Foreign(new, mine) => G # {}
      BY <1>8, <1>12 DEF CacheFacts, G
    <3> QED
      BY <1>4, <1>6, <3>1
  <2> QED
    BY <1>5, <1>10, <2>1, <2>2, <2>3
<1>13. ASSUME NEW i \in A, Own(after[i].pv, mine)
       PROVE  /\ ~Own(new, mine) => \E k \in Gone(v, after) : i < k
              /\ \A j \in A \cup {n + 1} : i < j /\ Foreign(after[j].pv, mine)
                     => \E k \in Gone(v, after) : i < k /\ k < j
  <2>0. Own(events[i].pv, mine)
    BY <1>4, <1>13
  <2>1. ~Own(pv, mine) => \E k \in G : i < k
    BY <1>13, <2>0 DEF CacheFacts, A, G
  <2>2. ~Own(new, mine) => \E k \in Gone(v, after) : i < k
    BY <1>4, <1>5, <1>9, <1>13, <2>1
  <2>3. \A j \in A : i < j /\ Foreign(after[j].pv, mine) => \E k \in G : i < k /\ k < j
    BY <1>4, <1>13, <2>0 DEF CacheFacts, A, G
  <2>4. Foreign(new, mine) => \E k \in G : i < k /\ k < n + 1
    BY <1>4, <1>6, <1>8, <2>1
  <2> QED
    BY <1>5, <1>10, <2>2, <2>3, <2>4
<1>14. \A j \in A \cup {n + 1} : ~(n + 1 < j)
  <2>1. \A j \in A : j \in Nat /\ j < n + 1
    BY <1>1, <1>4
  <2> QED
    BY <1>1, <2>1
<1>15. ~Foreign(held, mine) /\ About(v, after) # {}
  BY <1>3 DEF CacheFacts
<1>16. ASSUME NEW i \in A \cup {n + 1}, Own(after[i].pv, mine)
       PROVE  /\ ~Own(new, mine) => \E k \in Gone(v, after) : i < k
              /\ \A j \in A \cup {n + 1} : i < j /\ Foreign(after[j].pv, mine)
                     => \E k \in Gone(v, after) : i < k /\ k < j
  <2>1. CASE i = n + 1
    BY <1>10, <1>14, <1>16, <2>1
  <2>2. CASE i \in A
    BY <1>13, <1>16, <2>2, Zenon
  <2> QED
    BY <2>1, <2>2
<1>17. CacheFacts(v, new, held, after, mine)
  BY <1>3, <1>11, <1>12, <1>15, <1>16, Zenon DEF CacheFacts
<1> QED
  BY <1>17 DEF after, e

\* The handlers take the oldest event.
LEMMA DeliveredPV ==
  ASSUME NEW T, NEW events \in Seq(T), events # <<>>, NEW v, NEW pv, NEW held, NEW mine,
         CacheFacts(v, pv, held, events, mine)
  PROVE  LET e == Head(events)
         IN  CacheFacts(v, pv,
                 IF e.name = v /\ (e.pv = NoPV \/ held # NoPV \/ e.pv \in mine) THEN e.pv ELSE held,
                 Tail(events), mine)
<1> DEFINE after == Tail(events)
           n == Len(events)
           first == events[1]
           holds == IF first.name = v /\ (first.pv = NoPV \/ held # NoPV \/ first.pv \in mine)
                    THEN first.pv ELSE held
           A == About(v, events)
           G == Gone(v, events)
           B == About(v, after)
           H == Gone(v, after)
<1>1. /\ n \in Nat /\ n >= 1 /\ Len(after) = n - 1 /\ Head(events) = first
      /\ \A i \in 1..(n - 1) : after[i] = events[i + 1] /\ i + 1 \in 1..n
  OBVIOUS
<1> HIDE DEF after
<1>2. A \subseteq 1..n /\ G \subseteq A
  BY DEF About, Gone
<1>3. \A i \in B : i \in Nat /\ i >= 1 /\ i + 1 \in A /\ after[i] = events[i + 1]
  BY <1>1 DEF About
<1>4. \A i \in A : i > 1 => i - 1 \in B
  <2>1. \A i \in A : i \in 1..n /\ events[i].name = v
    BY DEF About
  <2>2. ASSUME NEW i \in A, i > 1
        PROVE  i - 1 \in 1..(n - 1) /\ after[i - 1] = events[i]
    BY <1>1, <2>1, <2>2
  <2> QED
    BY <1>1, <2>1, <2>2 DEF About
<1>5. \A k \in G : k > 1 => k - 1 \in H
  <2>1. \A k \in G : k > 1 => k - 1 \in B /\ after[k - 1] = events[k] /\ events[k].pv = NoPV
    <3>1. \A k \in G : k \in 1..n /\ k \in A /\ events[k].pv = NoPV
      BY DEF About, Gone
    <3>2. ASSUME NEW k \in G, k > 1
          PROVE  k - 1 \in B /\ after[k - 1] = events[k]
      BY <1>1, <1>4, <3>1, <3>2
    <3> QED
      BY <3>1, <3>2
  <2> QED
    BY <2>1 DEF Gone
<1>6. 1 \in A <=> first.name = v
  BY <1>1 DEF About
<1>7. 1 \in G <=> first.name = v /\ first.pv = NoPV
  BY <1>6 DEF Gone
<1> HIDE DEF A, B, G, H, first
<1>8. first.name = v /\ first.pv # NoPV /\ held # NoPV => first.pv \in mine
  <2> SUFFICES ASSUME first.name = v, first.pv # NoPV, held # NoPV, first.pv \notin mine
               PROVE  FALSE
    OBVIOUS
  <2>1. Own(held, mine) /\ Foreign(first.pv, mine)
    BY DEF CacheFacts, Own, Foreign
  <2>2. \E k \in G : k < 1
    BY <1>6, <2>1 DEF CacheFacts, A, G, first
  <2> QED
    BY <1>1, <1>2, <2>2
<1>9. ~Foreign(holds, mine)
  BY <1>8 DEF CacheFacts, Foreign
<1>10. ASSUME B = {}
       PROVE  holds = IF pv \in mine THEN pv ELSE NoPV
  <2>1. \A i \in A : i = 1
    BY <1>1, <1>2, <1>4, <1>10
  <2>2. CASE 1 \in A
    <3>1. first.pv = pv
      BY <2>1, <2>2 DEF CacheFacts, A, first
    <3> QED
      BY <1>6, <1>8, <2>2, <3>1
  <2>3. CASE 1 \notin A
    BY <1>6, <2>1, <2>3 DEF CacheFacts, A
  <2> QED
    BY <2>2, <2>3
<1>11. ASSUME NEW i \in B, \A j \in B : j <= i
       PROVE  after[i].pv = pv
  <2>1. \A j \in A : j <= i + 1
    BY <1>1, <1>2, <1>3, <1>4, <1>11
  <2> QED
    BY <1>3, <1>11, <2>1 DEF CacheFacts, A
<1>12. ASSUME NEW x \in Nat, \E k \in G : x < k, x >= 1
       PROVE  \E k \in H : x < k + 1
  BY <1>1, <1>2, <1>5, <1>12
<1>13. ASSUME NEW x \in Nat, NEW j \in B, \E k \in G : x < k /\ k < j + 1, x >= 1
       PROVE  \E k \in H : x < k + 1 /\ k < j
  BY <1>1, <1>2, <1>3, <1>5, <1>13
<1>14. ASSUME NEW i \in A, Own(events[i].pv, mine)
       PROVE  /\ ~Own(pv, mine) => \E k \in H : i < k + 1
              /\ \A j \in B : i < j + 1 /\ Foreign(after[j].pv, mine)
                     => \E k \in H : i < k + 1 /\ k < j
  <2>1. i \in Nat /\ i >= 1
    BY <1>1, <1>2
  <2>2. ~Own(pv, mine) => \E k \in G : i < k
    BY <1>14 DEF CacheFacts, A, G
  <2>3. \A j \in A : i < j /\ Foreign(events[j].pv, mine) => \E k \in G : i < k /\ k < j
    BY <1>14 DEF CacheFacts, A, G
  <2>4. \A j \in B : i < j + 1 /\ Foreign(after[j].pv, mine) => \E k \in G : i < k /\ k < j + 1
    BY <1>3, <2>3
  <2> QED
    BY <1>12, <1>13, <2>1, <2>2, <2>4
<1>15. ASSUME Own(holds, mine)
       PROVE  /\ ~Own(pv, mine) => H # {}
              /\ \A j \in B : Foreign(after[j].pv, mine) => \E k \in H : k < j
  <2>1. CASE 1 \in A /\ holds = first.pv
    <3>1. \A j \in B : 1 < j + 1
      BY <1>3
    <3> QED
      BY <1>14, <1>15, <2>1, <3>1 DEF first
  <2>2. CASE ~(1 \in A /\ holds = first.pv)
    <3>1. holds = held /\ 1 \notin G
      BY <1>6, <1>7, <2>2
    <3>2. \A k \in G : k \in Nat /\ k > 1
      BY <1>1, <1>2, <3>1
    <3>3. ~Own(pv, mine) => G # {}
      BY <1>15, <3>1 DEF CacheFacts, G
    <3>4. \A j \in B : Foreign(after[j].pv, mine) => \E k \in G : k < j + 1
      BY <1>3, <1>15, <3>1 DEF CacheFacts, A, G
    <3> QED
      BY <1>3, <1>5, <3>2, <3>3, <3>4
  <2> QED
    BY <2>1, <2>2
<1>16. ASSUME NEW i \in B, Own(after[i].pv, mine)
       PROVE  /\ ~Own(pv, mine) => \E k \in H : i < k
              /\ \A j \in B : i < j /\ Foreign(after[j].pv, mine)
                     => \E k \in H : i < k /\ k < j
  <2>1. i + 1 \in A /\ Own(events[i + 1].pv, mine)
    BY <1>3, <1>16
  <2>2. H \subseteq B
    BY DEF H, B, Gone
  <2>3. \A k \in B : k \in Nat /\ (i < k <=> i + 1 < k + 1)
    BY <1>3
  <2> QED
    BY <1>14, <2>1, <2>2, <2>3
<1>17. CacheFacts(v, pv, holds, after, mine)
  BY <1>9, <1>10, <1>11, <1>15, <1>16 DEF CacheFacts, B, H
<1> QED
  BY <1>1, <1>17 DEF after

-----------------------------------------------------------------------------
(* The steps on PVs.                                                       *)

\* The invariant but for the types.
CacheOK ==
    /\ Up => \A v \in Volumes : CacheViewInv(v)
    /\ ~Up => pvEvents = <<>> /\ cache = [v \in Volumes |-> NoPV]

\* A step that leaves PVs and what is seen of them alone.
LEMMA PVsAlone ==
  ASSUME CacheInv, TypeOK', UNCHANGED <<pvs, pvEvents, cache, config>>, Up' = Up
  PROVE  CacheOK'
<1>1. Mine' = Mine
  BY DEF Mine, Adopts, ProvisionerName
<1>2. ASSUME NEW v \in Volumes, Up PROVE CacheViewInv(v)'
  <2>1. CacheFacts(v, pvs[v], cache[v], pvEvents, Mine)
    BY <1>2, SameCacheFacts DEF CacheInv
  <2>2. CacheFacts(v, pvs[v], cache[v], pvEvents, Mine)'
    BY <1>1, <2>1
  <2> QED
    BY <2>2, SameCacheFactsNext
<1> QED
  BY <1>2 DEF CacheInv, CacheOK

\* A write that creates a PV, removes it or leaves it with its owner.
LEMMA PVPut ==
  ASSUME CacheInv, TypeOK', NEW v \in Volumes, NEW new \in PV, PutPV(v, new),
         UNCHANGED <<cache, config>>, Up' = Up,
         pvs[v] = NoPV \/ new = NoPV \/ (Adopts(new) <=> Adopts(pvs[v]))
  PROVE  CacheOK'
<1> DEFINE T == [name : Volumes, pv : PV]
           e == [name |-> v, pv |-> new]
<1>1. pvEvents \in Seq(T) /\ e \in T /\ e.name = v
  BY DEF CacheInv, TypeOK
<1>2. pvs'[v] = new /\ \A u \in Volumes \ {v} : pvs'[u] = pvs[u]
  BY DEF CacheInv, TypeOK, PutPV
<1>3. pvEvents' = IF Up THEN Append(pvEvents, e) ELSE pvEvents
  BY DEF PutPV
<1>4. Mine' = Mine
  BY DEF Mine, Adopts, ProvisionerName
<1>5. pvs[v] = NoPV \/ new = NoPV \/ (new \in Mine <=> pvs[v] \in Mine)
  BY DEF Mine, CacheInv, TypeOK
<1> HIDE DEF T
<1>6. ASSUME NEW u \in Volumes, Up PROVE CacheViewInv(u)'
  <2>1. CacheFacts(u, pvs[u], cache[u], pvEvents, Mine)
    BY <1>6, SameCacheFacts DEF CacheInv
  <2>2. pvEvents' = Append(pvEvents, e)
    BY <1>3, <1>6
  <2>3. CacheFacts(u, pvs'[u], cache[u], Append(pvEvents, e), Mine)
    <3>1. CASE u = v
      BY <1>1, <1>2, <1>5, <2>1, <3>1, OwnPVEvent
    <3>2. CASE u # v
      <4>1. e.name # u /\ pvs'[u] = pvs[u]
        BY <1>1, <1>2, <3>2
      <4> HIDE DEF e
      <4>2. CacheFacts(u, pvs[u], cache[u], Append(pvEvents, e), Mine)
        BY <1>1, <2>1, <4>1, AnotherPVEvent
      <4> QED
        BY <4>1, <4>2
    <3> QED
      BY <3>1, <3>2
  <2>4. CacheFacts(u, pvs[u], cache[u], pvEvents, Mine)'
    BY <1>4, <2>2, <2>3
  <2> QED
    BY <2>4, SameCacheFactsNext
<1> QED
  BY <1>3, <1>6 DEF CacheInv, CacheOK

\* A change of a PV that leaves its annotations and labels alone.
LEMMA SameOwner ==
  ASSUME NEW pv, NEW new, new.owner = pv.owner, new.labelled = pv.labelled
  PROVE  Adopts(new) <=> Adopts(pv)
BY DEF Adopts

\* Users, the cluster's controllers and administrators change a PV.
LEMMA UserPuts ==
  ASSUME CacheInv, TypeOK', NEW v \in Volumes,
         \/ Bind(v) \/ Release(v) \/ PVProtection(v) \/ AdminDeletesPV(v) \/ AdminReusesPV(v)
         \/ \E policy \in Policies : AdminSetsPolicy(v, policy)
  PROVE  CacheOK'
<1>1. UNCHANGED <<cache, config>> /\ Up' = Up
  BY DEF Bind, Release, PVProtection, AdminDeletesPV, AdminReusesPV, AdminSetsPolicy, UserStep,
         processVars, loopVars, Up
<1>2. pvs[v] \in PV
  BY DEF CacheInv, TypeOK
<1>3. /\ \A phase \in Phases :
             LET new == [pvs[v] EXCEPT !.phase = phase]
             IN  new \in PV /\ new.owner = pvs[v].owner /\ new.labelled = pvs[v].labelled
      /\ \A policy \in Policies :
             LET new == [pvs[v] EXCEPT !.policy = policy]
             IN  new \in PV /\ new.owner = pvs[v].owner /\ new.labelled = pvs[v].labelled
      /\ LET new == [pvs[v] EXCEPT !.deleting = TRUE]
         IN  new \in PV /\ new.owner = pvs[v].owner /\ new.labelled = pvs[v].labelled
  BY <1>2 DEF PV
<1>4. \/ PutPV(v, NoPV)
      \/ \E phase \in Phases : PutPV(v, [pvs[v] EXCEPT !.phase = phase])
      \/ \E policy \in Policies : PutPV(v, [pvs[v] EXCEPT !.policy = policy])
      \/ PutPV(v, [pvs[v] EXCEPT !.deleting = TRUE])
  BY DEF Bind, Release, PVProtection, AdminDeletesPV, AdminReusesPV, AdminSetsPolicy,
         RequestPVDeletion, Phases
<1>5. PICK new \in PV : PutPV(v, new) /\ (new = NoPV \/ (new.owner = pvs[v].owner
                                                         /\ new.labelled = pvs[v].labelled))
  BY <1>3, <1>4, NoObjects, Zenon
<1> QED
  BY <1>1, <1>5, SameOwner, PVPut

\* The deleter asks for the deletion of a PV; the discoverer creates one.
LEMMA LoopPuts ==
  ASSUME CacheInv, TypeOK', DeletePV \/ CreatePV
  PROVE  CacheOK'
<1>1. UNCHANGED <<cache, config>> /\ Up' = Up
  BY DEF DeletePV, CreatePV, NextReclaim, NextFile, processVars, Up
<1>2. cur \in Volumes
  BY DEF CacheInv, TypeOK, BusyPCs, DeletePV, CreatePV
<1>3. CASE UNCHANGED <<pvs, pvEvents>>
  BY <1>1, <1>3, PVsAlone
<1>4. CASE PutPV(cur, [pvs[cur] EXCEPT !.deleting = TRUE])
  <2> DEFINE new == [pvs[cur] EXCEPT !.deleting = TRUE]
  <2>1. new \in PV /\ new.owner = pvs[cur].owner /\ new.labelled = pvs[cur].labelled
    <3>1. pvs[cur] \in PV
      BY <1>2 DEF CacheInv, TypeOK
    <3> QED
      BY <3>1 DEF PV
  <2> HIDE DEF new
  <2>2. PutPV(cur, new)
    BY <1>4 DEF new
  <2> QED
    BY <1>1, <1>2, <2>1, <2>2, SameOwner, PVPut
<1>5. CASE pvs[cur] = NoPV /\ PutPV(cur, CreatedPV(cur))
  <2>1. CreatedPV(cur) \in PV
    BY <1>2, CreatedPVType DEF CacheInv
  <2> QED
    BY <1>1, <1>2, <1>5, <2>1, PVPut
<1> QED
  BY <1>3, <1>4, <1>5 DEF DeletePV, CreatePV, RequestPVDeletion

\* The handlers of the populator take an event.
LEMMA PVDelivered ==
  ASSUME CacheInv, TypeOK', DeliverPVEvent
  PROVE  CacheOK'
<1> DEFINE T == [name : Volumes, pv : PV]
           e == Head(pvEvents)
<1>1. /\ Up /\ Up' /\ pvEvents # <<>> /\ pvEvents' = Tail(pvEvents)
      /\ cache' = Handled(e.name, e.pv) /\ UNCHANGED <<pvs, config>>
  BY DEF DeliverPVEvent, loopVars, Up
<1>2. pvEvents \in Seq(T) /\ cache \in [Volumes -> PV]
  BY DEF CacheInv, TypeOK
<1>3. e \in T
  <2> HIDE DEF T
  <2> QED
    BY <1>1, <1>2
<1>4. e.name \in Volumes /\ (Adopts(e.pv) <=> e.pv \in Mine)
  BY <1>3 DEF Mine
<1>5. Mine' = Mine
  BY <1>1 DEF Mine, Adopts, ProvisionerName
<1> HIDE DEF T, e
<1>6. ASSUME NEW v \in Volumes PROVE CacheViewInv(v)'
  <2> DEFINE holds == IF e.name = v /\ (e.pv = NoPV \/ cache[v] # NoPV \/ e.pv \in Mine)
                      THEN e.pv ELSE cache[v]
  <2>1. CacheFacts(v, pvs[v], cache[v], pvEvents, Mine)
    BY <1>1, SameCacheFacts DEF CacheInv
  <2>2. CacheFacts(v, pvs[v], holds, Tail(pvEvents), Mine)
    BY <1>1, <1>2, <2>1, DeliveredPV DEF e
  <2>3. cache'[v] = holds
    BY <1>1, <1>2, <1>4 DEF Handled
  <2>4. CacheFacts(v, pvs[v], cache[v], pvEvents, Mine)'
    BY <1>1, <1>5, <2>2, <2>3
  <2> QED
    BY <2>4, SameCacheFactsNext
<1> QED
  BY <1>1, <1>6 DEF CacheOK

\* A process that starts has an empty cache and the list of all PVs before
\* it.
LEMMA PVsListed ==
  ASSUME CacheInv, TypeOK', Start
  PROVE  CacheOK'
<1>1. Up' /\ UNCHANGED <<pvs, cache>> /\ cache = [v \in Volumes |-> NoPV]
  BY DEF CacheInv, Start, Up
<1>2. PICK n \in 0..Cardinality(Volumes) : pvEvents' \in Bijection(1..n, ListedPVs)
  BY DEF Start
<1>3. PICK listed \in Bijection(1..n, ListedPVs) : pvEvents' = listed
  BY <1>2
<1>4. /\ DOMAIN listed = 1..Len(listed) /\ Len(listed) \in Nat
      /\ \A i \in DOMAIN listed : listed[i].pv = pvs[listed[i].name] /\ listed[i].pv # NoPV
      /\ \A i, j \in DOMAIN listed : listed[i].name = listed[j].name => i = j
      /\ \A v \in Volumes : pvs[v] # NoPV => \E i \in DOMAIN listed : listed[i].name = v
  BY Listed, Zenon DEF CacheInv
<1>5. ASSUME NEW v \in Volumes, NEW mine PROVE CacheFacts(v, pvs[v], NoPV, listed, mine)
  <2>1. \A i \in About(v, listed) : listed[i].pv = pvs[v] /\ i \in DOMAIN listed
    BY <1>4 DEF About
  <2>2. \A i, j \in About(v, listed) : i = j
    BY <1>4 DEF About
  <2>3. About(v, listed) = {} => pvs[v] = NoPV
    BY <1>4 DEF About
  <2>4. About(v, listed) \subseteq Nat
    BY <1>4 DEF About
  <2>5. \A i, j \in About(v, listed) : ~(i < j)
    BY <2>2, <2>4
  <2> QED
    BY <2>1, <2>3, <2>5 DEF CacheFacts, Own, Foreign
<1>6. ASSUME NEW v \in Volumes PROVE CacheViewInv(v)'
  <2>1. CacheFacts(v, pvs[v], NoPV, listed, Mine')
    BY <1>5
  <2>2. cache[v] = NoPV
    BY <1>1
  <2>3. CacheFacts(v, pvs[v], cache[v], pvEvents, Mine)'
    BY <1>1, <1>3, <2>1, <2>2
  <2> QED
    BY <2>3, SameCacheFactsNext
<1> QED
  BY <1>1, <1>6 DEF CacheOK

\* The other steps.
LEMMA OtherPVSteps ==
  ASSUME CacheInv, TypeOK',
         \/ ListPVs \/ DeletePVFails \/ RunProcess \/ RunJob \/ RunJobFails
         \/ ListFiles \/ CreatePVFails \/ EndPass
         \/ \E v \in Volumes :
                \/ SkipReclaim(v) \/ BeginReclaim(v) \/ SkipFile(v) \/ BeginCreate(v)
                \/ UserWrites(v) \/ JobSucceeds(v) \/ JobFails(v) \/ AdminDeletesJob(v)
                \/ JobCollected(v) \/ CleanSucceeds(v) \/ CleanFails(v)
         \/ \E result \in RemoveResults : TakeStatus(result) \/ ForgetStatus(result)
         \/ DeliverJobEvent \/ UNCHANGED vars
  PROVE  CacheOK'
<1>1. UNCHANGED <<pvs, pvEvents, cache, config>>
  BY DEF ListPVs, DeletePVFails, RunProcess, RunJob, RunJobFails, ListFiles, CreatePVFails,
         EndPass, SkipReclaim, BeginReclaim, SkipFile, BeginCreate, UserWrites, JobSucceeds,
         JobFails, AdminDeletesJob, JobCollected, CleanSucceeds, CleanFails, TakeStatus,
         ForgetStatus, DeliverJobEvent, UserStep, JobStep, vars, clusterVars, processVars
<1>2. Up' = Up
  <2>1. CASE \/ ListPVs \/ DeletePVFails \/ RunProcess \/ RunJob \/ RunJobFails
             \/ ListFiles \/ CreatePVFails \/ EndPass
             \/ \E v \in Volumes :
                    SkipReclaim(v) \/ BeginReclaim(v) \/ SkipFile(v) \/ BeginCreate(v)
             \/ \E result \in RemoveResults : TakeStatus(result) \/ ForgetStatus(result)
    BY <2>1 DEF ListPVs, DeletePVFails, RunProcess, RunJob, RunJobFails, ListFiles,
                CreatePVFails, EndPass, SkipReclaim, BeginReclaim, SkipFile, BeginCreate,
                TakeStatus, ForgetStatus, NextReclaim, NextFile, Up
  <2>2. CASE \/ \E v \in Volumes :
                    \/ UserWrites(v) \/ JobSucceeds(v) \/ JobFails(v) \/ AdminDeletesJob(v)
                    \/ JobCollected(v) \/ CleanSucceeds(v) \/ CleanFails(v)
             \/ DeliverJobEvent \/ UNCHANGED vars
    BY <2>2 DEF UserWrites, JobSucceeds, JobFails, AdminDeletesJob, JobCollected,
                CleanSucceeds, CleanFails, DeliverJobEvent, UserStep, JobStep, vars, loopVars, Up
  <2> QED
    BY <2>1, <2>2
<1> QED
  BY <1>1, <1>2, PVsAlone

\* The cache and the events before it never mislead for good: see
\* CacheViewInv.  This holds in every mode and with every fault.
THEOREM CacheInvariant == Spec => []CacheInv
<1>1. Init => CacheInv
  <2>1. Init => TypeOK
    BY ConstantsAssumption, NoObjects
    DEF Init, TypeOK, PCs, BusyPCs, EmptyProcTable, CleanupState
  <2> QED
    BY <2>1 DEF Init, CacheInv, Up
<1>2. CacheInv /\ [Next]_vars => CacheInv'
  <2> SUFFICES ASSUME CacheInv, [Next]_vars PROVE CacheInv'
    OBVIOUS
  <2>1. TypeOK'
    BY TypeStep DEF CacheInv
  <2>2. CASE Crash
    BY <2>1, <2>2 DEF Crash, CacheInv, Up
  <2>3. CASE ~Crash
    <3>1. CacheOK'
      BY <2>1, <2>3, UserPuts, LoopPuts, PVDelivered, PVsListed, OtherPVSteps, Zenon
      DEF Next, SyncLoop, Environment
    <3> QED
      BY <2>1, <3>1 DEF CacheInv, CacheOK
  <2> QED
    BY <2>2, <2>3
<1> QED
  BY <1>1, <1>2, PTL DEF Spec

\* Whenever the populator's handlers have seen every event, the cache holds
\* the PVs of this provisioner as the API server does, whatever names and
\* classes earlier processes ran with.
THEOREM CacheIsTruthful == Spec => []CacheConverges
<1>1. CacheInv => CacheConverges
  <2> SUFFICES ASSUME CacheInv, Up, pvEvents = <<>>, NEW v \in Volumes
               PROVE  cache[v] = IF Adopts(pvs[v]) THEN pvs[v] ELSE NoPV
    BY DEF CacheConverges
  <2>1. {i \in 1..Len(pvEvents) : pvEvents[i].name = v} = {}
    OBVIOUS
  <2> QED
    BY <2>1 DEF CacheInv, CacheViewInv
<1> QED
  BY <1>1, CacheInvariant, PTL
=============================================================================
