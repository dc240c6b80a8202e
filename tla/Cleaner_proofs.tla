--------------------------- MODULE Cleaner_proofs ---------------------------
(***************************************************************************)
(* Proofs about Cleaner, for every number of volumes, entries and lines:   *)
(* the inductive invariant, what follows from it, and the refinement of    *)
(* VolumeCleaning, action by action.                                       *)
(***************************************************************************)
EXTENDS Cleaner, TLAPS

-----------------------------------------------------------------------------
(* A step of the goroutine or the script of one volume leaves the other    *)
(* volumes as they are.                                                    *)

\* The step changes nothing of the volume.
Untouched(v) ==
    /\ (v \in released') <=> (v \in released)
    /\ contents'[v] = contents[v] /\ table'[v] = table[v] /\ at'[v] = at[v]
    /\ left'[v] = left[v] /\ errList'[v] = errList[v] /\ script'[v] = script[v]
    /\ open'[v] = open[v] /\ pipe'[v] = pipe[v] /\ reader'[v] = reader[v]

\* What the invariant says of a volume depends on that volume alone.
LEMMA UntouchedInv ==
  ASSUME NEW v \in Volumes, Untouched(v)
  PROVE  (VolumeInv(v) => VolumeInv(v)') /\ (StreamInv(v) => StreamInv(v)')
  BY DEF Untouched, VolumeInv, StreamInv, IsRunning

\* So a step has to be looked at for its own volume only.
LEMMA OneVolume ==
  ASSUME CleanerInv, NEW v \in Volumes, TypeOK',
         \A w \in Volumes \ {v} : Untouched(w),
         VolumeInv(v)', "longLines" \notin Faults => StreamInv(v)'
  PROVE  CleanerInv'
<1>1. ASSUME NEW w \in Volumes PROVE VolumeInv(w)'
  BY <1>1, UntouchedInv DEF CleanerInv
<1>2. ASSUME NEW w \in Volumes, "longLines" \notin Faults PROVE StreamInv(w)'
  BY <1>2, UntouchedInv DEF CleanerInv
<1> QED
  BY <1>1, <1>2 DEF CleanerInv

\* The users and the sync loop.
LEMMA SyncLoopInv ==
  ASSUME CleanerInv, NEW v \in Volumes,
         \/ UseAndRelease(v)
         \/ DeletePV(v)
         \/ RunProcess(v)
  PROVE  CleanerInv'
<1> USE CleanerAssumption DEF CleanerInv
<1>1. ASSUME UseAndRelease(v) PROVE CleanerInv'
  <2>1. TypeOK'
    BY <1>1 DEF UseAndRelease, cleaningVars, TypeOK, Points, ScriptStates, Streams
  <2>2. \A w \in Volumes \ {v} : Untouched(w)
    BY <1>1 DEF UseAndRelease, cleaningVars, Untouched, TypeOK
  <2>3. VolumeInv(v)'
    BY <1>1 DEF UseAndRelease, cleaningVars, VolumeInv, TypeOK, Streams, IsRunning
  <2>4. "longLines" \notin Faults => StreamInv(v)'
    BY <1>1 DEF UseAndRelease, cleaningVars, VolumeInv, StreamInv, TypeOK, Streams
  <2> QED
    BY <2>1, <2>2, <2>3, <2>4, OneVolume
<1>2. ASSUME DeletePV(v) PROVE CleanerInv'
  <2>1. TypeOK'
    BY <1>2 DEF DeletePV, cleaningVars, RemoveEntry, RemoveEntryResult, IsRunning, TypeOK, Points,
                ScriptStates, Streams, CleanupState
  <2>2. \A w \in Volumes \ {v} : Untouched(w)
    BY <1>2 DEF DeletePV, cleaningVars, RemoveEntry, RemoveEntryResult, IsRunning, Untouched, TypeOK
  <2>3. VolumeInv(v)'
    BY <1>2 DEF DeletePV, cleaningVars, RemoveEntry, RemoveEntryResult, VolumeInv, TypeOK, Streams,
                IsRunning
  <2>4. "longLines" \notin Faults => StreamInv(v)'
    BY <1>2 DEF DeletePV, cleaningVars, RemoveEntry, RemoveEntryResult, VolumeInv, StreamInv,
                TypeOK, Streams
  <2> QED
    BY <2>1, <2>2, <2>3, <2>4, OneVolume
<1>3. ASSUME RunProcess(v) PROVE CleanerInv'
  <2>1. TypeOK'
    BY <1>3 DEF RunProcess, RemoveEntry, RemoveEntryResult, IsRunning, MarkRunning,
                MarkRunningAccepts, TypeOK, Points, ScriptStates, Streams, CleanupState
  <2>2. \A w \in Volumes \ {v} : Untouched(w)
    BY <1>3 DEF RunProcess, RemoveEntry, RemoveEntryResult, IsRunning, MarkRunning,
                MarkRunningAccepts, Untouched, TypeOK
  <2>3. VolumeInv(v)'
    BY <1>3 DEF RunProcess, RemoveEntry, RemoveEntryResult, MarkRunning, MarkRunningAccepts,
                VolumeInv, TypeOK, Streams, IsRunning
  <2>4. "longLines" \notin Faults => StreamInv(v)'
    BY <1>3 DEF RunProcess, RemoveEntry, RemoveEntryResult, MarkRunning, MarkRunningAccepts,
                VolumeInv, StreamInv, TypeOK, Streams
  <2> QED
    BY <2>1, <2>2, <2>3, <2>4, OneVolume
<1> QED
  BY <1>1, <1>2, <1>3

\* DeleteContents.
LEMMA DeleteContentsInv ==
  ASSUME CleanerInv, NEW v \in Volumes,
         \/ ReadDir(v)
         \/ ReadDirFails(v)
         \/ (\E e \in Entries : RemoveAll(v, e))
         \/ (\E e \in Entries : RemoveAllFails(v, e))
         \/ Removed(v)
  PROVE  CleanerInv'
<1> USE CleanerAssumption DEF CleanerInv
<1>1. ASSUME ReadDir(v) PROVE CleanerInv'
  <2>1. TypeOK'
    BY <1>1 DEF ReadDir, TypeOK, Points, ScriptStates, Streams
  <2>2. \A w \in Volumes \ {v} : Untouched(w)
    BY <1>1 DEF ReadDir, Untouched, TypeOK
  <2>3. VolumeInv(v)'
    BY <1>1 DEF ReadDir, VolumeInv, TypeOK, Streams, IsRunning
  <2>4. "longLines" \notin Faults => StreamInv(v)'
    BY <1>1 DEF ReadDir, VolumeInv, StreamInv, TypeOK, Streams
  <2> QED
    BY <2>1, <2>2, <2>3, <2>4, OneVolume
<1>2. ASSUME ReadDirFails(v) PROVE CleanerInv'
  <2>1. TypeOK'
    BY <1>2 DEF ReadDirFails, Return, MarkStatus, IsRunning, TypeOK, Points, ScriptStates, Streams,
                CleanupState
  <2>2. \A w \in Volumes \ {v} : Untouched(w)
    BY <1>2 DEF ReadDirFails, Return, MarkStatus, IsRunning, Untouched, TypeOK
  <2>3. VolumeInv(v)'
    BY <1>2 DEF ReadDirFails, Return, MarkStatus, VolumeInv, TypeOK, Streams, IsRunning
  <2>4. "longLines" \notin Faults => StreamInv(v)'
    BY <1>2 DEF ReadDirFails, Return, MarkStatus, VolumeInv, StreamInv, TypeOK, Streams
  <2> QED
    BY <2>1, <2>2, <2>3, <2>4, OneVolume
<1>3. ASSUME NEW e \in Entries, RemoveAll(v, e) PROVE CleanerInv'
  <2>1. TypeOK'
    BY <1>3 DEF RemoveAll, TypeOK, Points, ScriptStates, Streams
  <2>2. \A w \in Volumes \ {v} : Untouched(w)
    BY <1>3 DEF RemoveAll, Untouched, TypeOK
  <2>3. VolumeInv(v)'
    BY <1>3 DEF RemoveAll, VolumeInv, TypeOK, Streams, IsRunning
  <2>4. "longLines" \notin Faults => StreamInv(v)'
    BY <1>3 DEF RemoveAll, VolumeInv, StreamInv, TypeOK, Streams
  <2> QED
    BY <2>1, <2>2, <2>3, <2>4, OneVolume
<1>4. ASSUME NEW e \in Entries, RemoveAllFails(v, e) PROVE CleanerInv'
  <2>1. TypeOK'
    BY <1>4 DEF RemoveAllFails, TypeOK, Points, ScriptStates, Streams
  <2>2. \A w \in Volumes \ {v} : Untouched(w)
    BY <1>4 DEF RemoveAllFails, Untouched, TypeOK
  <2>3. VolumeInv(v)'
    BY <1>4 DEF RemoveAllFails, VolumeInv, TypeOK, Streams, IsRunning
  <2>4. "longLines" \notin Faults => StreamInv(v)'
    BY <1>4 DEF RemoveAllFails, VolumeInv, StreamInv, TypeOK, Streams
  <2> QED
    BY <2>1, <2>2, <2>3, <2>4, OneVolume
<1>5. ASSUME Removed(v) PROVE CleanerInv'
  <2>1. TypeOK'
    BY <1>5 DEF Removed, Return, MarkStatus, IsRunning, TypeOK, Points, ScriptStates, Streams,
                CleanupState
  <2>2. \A w \in Volumes \ {v} : Untouched(w)
    BY <1>5 DEF Removed, Return, MarkStatus, IsRunning, Untouched, TypeOK
  <2>3. VolumeInv(v)'
    BY <1>5 DEF Removed, Return, MarkStatus, VolumeInv, TypeOK, Streams, IsRunning
  <2>4. "longLines" \notin Faults => StreamInv(v)'
    BY <1>5 DEF Removed, Return, MarkStatus, VolumeInv, StreamInv, TypeOK, Streams
  <2> QED
    BY <2>1, <2>2, <2>3, <2>4, OneVolume
<1> QED
  BY <1>1, <1>2, <1>3, <1>4, <1>5

\* execScript and its two readers.
LEMMA ExecScriptInv ==
  ASSUME CleanerInv, NEW v \in Volumes,
         \/ StdoutPipe(v)
         \/ StderrPipe(v)
         \/ PipeFails(v)
         \/ Start(v)
         \/ StartFails(v)
         \/ (\E s \in Streams : Scan(v, s))
         \/ (\E s \in Streams : ScanEnds(v, s))
         \/ WgWait(v)
         \/ CmdWait(v)
  PROVE  CleanerInv'
<1> USE CleanerAssumption DEF CleanerInv
<1>1. ASSUME StdoutPipe(v) PROVE CleanerInv'
  <2>1. TypeOK'
    BY <1>1 DEF StdoutPipe, TypeOK, Points, ScriptStates, Streams, Lines
  <2>2. \A w \in Volumes \ {v} : Untouched(w)
    BY <1>1 DEF StdoutPipe, Untouched, TypeOK
  <2>3. VolumeInv(v)'
    BY <1>1 DEF StdoutPipe, VolumeInv, TypeOK, Streams, IsRunning
  <2>4. "longLines" \notin Faults => StreamInv(v)'
    <3> SUFFICES ASSUME "longLines" \notin Faults PROVE StreamInv(v)'
      OBVIOUS
    <3>1. /\ at[v] = "stdoutPipe" /\ at'[v] = "stderrPipe"
          /\ script'[v] = script[v] /\ open'[v] = open[v] /\ pipe'[v] = pipe[v]
          /\ reader'[v]["stdout"] = "scanning" /\ reader'[v]["stderr"] = reader[v]["stderr"]
      BY <1>1 DEF StdoutPipe, TypeOK, Streams
    <3> QED
      BY <3>1 DEF StreamInv, Streams
  <2> QED
    BY <2>1, <2>2, <2>3, <2>4, OneVolume
<1>2. ASSUME StderrPipe(v) PROVE CleanerInv'
  <2>1. TypeOK'
    BY <1>2 DEF StderrPipe, TypeOK, Points, ScriptStates, Streams, Lines
  <2>2. \A w \in Volumes \ {v} : Untouched(w)
    BY <1>2 DEF StderrPipe, Untouched, TypeOK
  <2>3. VolumeInv(v)'
    BY <1>2 DEF StderrPipe, VolumeInv, TypeOK, Streams, IsRunning
  <2>4. "longLines" \notin Faults => StreamInv(v)'
    BY <1>2 DEF StderrPipe, VolumeInv, StreamInv, TypeOK, Streams
  <2> QED
    BY <2>1, <2>2, <2>3, <2>4, OneVolume
<1>3. ASSUME PipeFails(v) PROVE CleanerInv'
  <2>1. TypeOK'
    BY <1>3 DEF PipeFails, Return, MarkStatus, IsRunning, TypeOK, Points, ScriptStates, Streams,
                CleanupState, Lines
  <2>2. \A w \in Volumes \ {v} : Untouched(w)
    BY <1>3 DEF PipeFails, Return, MarkStatus, IsRunning, Untouched, TypeOK
  <2>3. VolumeInv(v)'
    BY <1>3 DEF PipeFails, Return, MarkStatus, VolumeInv, TypeOK, Streams, IsRunning
  <2>4. "longLines" \notin Faults => StreamInv(v)'
    BY <1>3 DEF PipeFails, Return, MarkStatus, VolumeInv, StreamInv, TypeOK, Streams
  <2> QED
    BY <2>1, <2>2, <2>3, <2>4, OneVolume
<1>4. ASSUME Start(v) PROVE CleanerInv'
  <2>1. TypeOK'
    BY <1>4 DEF Start, TypeOK, Points, ScriptStates, Streams, Lines
  <2>2. \A w \in Volumes \ {v} : Untouched(w)
    BY <1>4 DEF Start, Untouched, TypeOK
  <2>3. VolumeInv(v)'
    BY <1>4 DEF Start, VolumeInv, TypeOK, Streams, IsRunning
  <2>4. "longLines" \notin Faults => StreamInv(v)'
    BY <1>4 DEF Start, VolumeInv, StreamInv, TypeOK, Streams
  <2> QED
    BY <2>1, <2>2, <2>3, <2>4, OneVolume
<1>5. ASSUME StartFails(v) PROVE CleanerInv'
  <2>1. TypeOK'
    BY <1>5 DEF StartFails, Return, MarkStatus, IsRunning, TypeOK, Points, ScriptStates, Streams,
                CleanupState, Lines
  <2>2. \A w \in Volumes \ {v} : Untouched(w)
    BY <1>5 DEF StartFails, Return, MarkStatus, IsRunning, Untouched, TypeOK
  <2>3. VolumeInv(v)'
    BY <1>5 DEF StartFails, Return, MarkStatus, VolumeInv, TypeOK, Streams, IsRunning
  <2>4. "longLines" \notin Faults => StreamInv(v)'
    BY <1>5 DEF StartFails, Return, MarkStatus, VolumeInv, StreamInv, TypeOK, Streams
  <2> QED
    BY <2>1, <2>2, <2>3, <2>4, OneVolume
<1>6. ASSUME NEW s \in Streams, Scan(v, s) PROVE CleanerInv'
  <2>1. TypeOK'
    BY <1>6 DEF Scan, TypeOK, Points, ScriptStates, Streams, Lines
  <2>2. \A w \in Volumes \ {v} : Untouched(w)
    BY <1>6 DEF Scan, Untouched, TypeOK
  <2>3. VolumeInv(v)'
    BY <1>6 DEF Scan, VolumeInv, TypeOK, Streams, IsRunning
  <2>4. "longLines" \notin Faults => StreamInv(v)'
    <3> SUFFICES ASSUME "longLines" \notin Faults PROVE StreamInv(v)'
      OBVIOUS
    <3>1. StreamInv(v) /\ pipe[v][s] \in Seq({"line"}) /\ pipe[v][s] # <<>>
      BY <1>6 DEF Scan, StreamInv, CleanerInv
    <3>2. Head(pipe[v][s]) = "line" /\ Tail(pipe[v][s]) \in Seq({"line"})
      BY <3>1
    <3>3. /\ UNCHANGED <<script, open, at>> /\ reader[v][s] = "scanning"
          /\ \A t \in Streams : /\ reader'[v][t] = reader[v][t]
                                 /\ pipe'[v][t] = IF t = s THEN Tail(pipe[v][s]) ELSE pipe[v][t]
      BY <1>6, <3>2 DEF Scan, TypeOK
    <3>4. ASSUME NEW t \in Streams
          PROVE  /\ pipe'[v][t] \in Seq({"line"})
                 /\ reader'[v][t] = "done" =>
                        at'[v] \in {"wgWait", "cmdWait"} /\ t \notin open'[v] /\ pipe'[v][t] = <<>>
      <4>1. CASE t = s
        <5>1. reader'[v][t] = "scanning" /\ pipe'[v][t] = Tail(pipe[v][s])
          BY <3>3, <4>1
        <5> QED
          BY <3>2, <5>1
      <4>2. CASE t # s
        <5>1. reader'[v][t] = reader[v][t] /\ pipe'[v][t] = pipe[v][t]
          BY <3>3, <4>2
        <5>2. /\ pipe[v][t] \in Seq({"line"})
              /\ reader[v][t] = "done" =>
                     at[v] \in {"wgWait", "cmdWait"} /\ t \notin open[v] /\ pipe[v][t] = <<>>
          BY <3>1, Zenon DEF StreamInv
        <5>3. at' = at /\ open' = open
          BY <3>3
        <5> QED
          BY <5>1, <5>2, <5>3
      <4> QED
        BY <4>1, <4>2
    <3>5. /\ at'[v] = "stderrPipe" => reader'[v]["stdout"] = "scanning"
          /\ at'[v] = "start" => \A t \in Streams : reader'[v][t] = "scanning"
          /\ at'[v] = "cmdWait" => \A t \in Streams : reader'[v][t] = "done"
      BY <3>1, <3>3 DEF StreamInv, Streams
    <3>6. /\ script'[v] \in {"none", "exit0", "exit1"} => open'[v] = {}
          /\ script'[v] \in Streams => script'[v] \in open'[v]
      BY <3>1, <3>3 DEF StreamInv
    <3> QED
      BY <3>4, <3>5, <3>6 DEF StreamInv
  <2> QED
    BY <2>1, <2>2, <2>3, <2>4, OneVolume
<1>7. ASSUME NEW s \in Streams, ScanEnds(v, s) PROVE CleanerInv'
  <2>1. TypeOK'
    BY <1>7 DEF ScanEnds, TypeOK, Points, ScriptStates, Streams, Lines
  <2>2. \A w \in Volumes \ {v} : Untouched(w)
    BY <1>7 DEF ScanEnds, Untouched, TypeOK
  <2>3. VolumeInv(v)'
    BY <1>7 DEF ScanEnds, VolumeInv, TypeOK, Streams, IsRunning
  <2>4. "longLines" \notin Faults => StreamInv(v)'
    BY <1>7 DEF ScanEnds, VolumeInv, StreamInv, TypeOK, Streams
  <2> QED
    BY <2>1, <2>2, <2>3, <2>4, OneVolume
<1>8. ASSUME WgWait(v) PROVE CleanerInv'
  <2>1. TypeOK'
    BY <1>8 DEF WgWait, TypeOK, Points, ScriptStates, Streams, Lines
  <2>2. \A w \in Volumes \ {v} : Untouched(w)
    BY <1>8 DEF WgWait, Untouched, TypeOK
  <2>3. VolumeInv(v)'
    BY <1>8 DEF WgWait, VolumeInv, TypeOK, Streams, IsRunning
  <2>4. "longLines" \notin Faults => StreamInv(v)'
    BY <1>8 DEF WgWait, VolumeInv, StreamInv, TypeOK, Streams
  <2> QED
    BY <2>1, <2>2, <2>3, <2>4, OneVolume
<1>9. ASSUME CmdWait(v) PROVE CleanerInv'
  <2>1. TypeOK'
    BY <1>9 DEF CmdWait, Return, MarkStatus, IsRunning, TypeOK, Points, ScriptStates, Streams,
                CleanupState, Lines
  <2>2. \A w \in Volumes \ {v} : Untouched(w)
    BY <1>9 DEF CmdWait, Return, MarkStatus, IsRunning, Untouched, TypeOK
  <2>3. VolumeInv(v)'
    BY <1>9 DEF CmdWait, Return, MarkStatus, VolumeInv, TypeOK, Streams, IsRunning
  <2>4. "longLines" \notin Faults => StreamInv(v)'
    BY <1>9 DEF CmdWait, Return, MarkStatus, VolumeInv, StreamInv, TypeOK, Streams
  <2> QED
    BY <2>1, <2>2, <2>3, <2>4, OneVolume
<1> QED
  BY <1>1, <1>2, <1>3, <1>4, <1>5, <1>6, <1>7, <1>8, <1>9

\* The script.
LEMMA ScriptInv ==
  ASSUME CleanerInv, NEW v \in Volumes,
         \/ (\E s \in Streams : ScriptOutput(v, s))
         \/ (\E line \in Lines : ScriptWrites(v, line))
         \/ (\E s \in Streams : ScriptCloses(v, s))
         \/ ScriptSucceeds(v)
         \/ ScriptFails(v)
  PROVE  CleanerInv'
<1> USE CleanerAssumption DEF CleanerInv
<1>1. ASSUME NEW s \in Streams, ScriptOutput(v, s) PROVE CleanerInv'
  <2>1. TypeOK'
    BY <1>1 DEF ScriptOutput, scriptUnchanged, TypeOK, Points, ScriptStates, Streams, Lines
  <2>2. \A w \in Volumes \ {v} : Untouched(w)
    BY <1>1 DEF ScriptOutput, scriptUnchanged, Untouched, TypeOK
  <2>3. VolumeInv(v)'
    BY <1>1 DEF ScriptOutput, scriptUnchanged, VolumeInv, TypeOK, Streams, IsRunning
  <2>4. "longLines" \notin Faults => StreamInv(v)'
    BY <1>1 DEF ScriptOutput, scriptUnchanged, VolumeInv, StreamInv, TypeOK, Streams
  <2> QED
    BY <2>1, <2>2, <2>3, <2>4, OneVolume
<1>2. ASSUME NEW line \in Lines, ScriptWrites(v, line) PROVE CleanerInv'
  <2>1. TypeOK'
    BY <1>2 DEF ScriptWrites, scriptUnchanged, TypeOK, Points, ScriptStates, Streams, Lines
  <2>2. \A w \in Volumes \ {v} : Untouched(w)
    BY <1>2 DEF ScriptWrites, scriptUnchanged, Untouched, TypeOK
  <2>3. VolumeInv(v)'
    BY <1>2 DEF ScriptWrites, scriptUnchanged, VolumeInv, TypeOK, Streams, IsRunning
  <2>4. "longLines" \notin Faults => StreamInv(v)'
    <3> SUFFICES ASSUME "longLines" \notin Faults PROVE StreamInv(v)'
      OBVIOUS
    <3> DEFINE s == script[v]
    <3>1. /\ line = "line" /\ s \in Streams /\ script'[v] = "running"
          /\ at'[v] = at[v] /\ open'[v] = open[v] /\ reader'[v] = reader[v]
          /\ pipe'[v][s] = Append(pipe[v][s], line)
          /\ \A t \in Streams \ {s} : pipe'[v][t] = pipe[v][t]
      BY <1>2 DEF ScriptWrites, scriptUnchanged, TypeOK, Lines
    <3>2. StreamInv(v) /\ s \in open[v] /\ reader[v][s] # "done"
      BY <3>1 DEF StreamInv
    <3>3. pipe'[v][s] \in Seq({"line"})
      <4>1. pipe[v][s] \in Seq({"line"})
        BY <3>1, <3>2 DEF StreamInv
      <4> QED
        BY <3>1, <4>1
    <3>4. "running" \notin Streams
      BY DEF Streams
    <3>5. ASSUME NEW t \in Streams
          PROVE  /\ pipe'[v][t] \in Seq({"line"})
                 /\ reader'[v][t] = "done" =>
                        at'[v] \in {"wgWait", "cmdWait"} /\ t \notin open'[v] /\ pipe'[v][t] = <<>>
      <4>1. CASE t = s
        BY <3>1, <3>2, <3>3, <4>1
      <4>2. CASE t # s
        BY <3>1, <3>2, <4>2 DEF StreamInv
      <4> QED
        BY <4>1, <4>2
    <3> HIDE DEF s
    <3> QED
      BY <3>1, <3>2, <3>4, <3>5 DEF StreamInv
  <2> QED
    BY <2>1, <2>2, <2>3, <2>4, OneVolume
<1>3. ASSUME NEW s \in Streams, ScriptCloses(v, s) PROVE CleanerInv'
  <2>1. TypeOK'
    BY <1>3 DEF ScriptCloses, scriptUnchanged, TypeOK, Points, ScriptStates, Streams, Lines
  <2>2. \A w \in Volumes \ {v} : Untouched(w)
    BY <1>3 DEF ScriptCloses, scriptUnchanged, Untouched, TypeOK
  <2>3. VolumeInv(v)'
    BY <1>3 DEF ScriptCloses, scriptUnchanged, VolumeInv, TypeOK, Streams, IsRunning
  <2>4. "longLines" \notin Faults => StreamInv(v)'
    BY <1>3 DEF ScriptCloses, scriptUnchanged, VolumeInv, StreamInv, TypeOK, Streams
  <2> QED
    BY <2>1, <2>2, <2>3, <2>4, OneVolume
<1>4. ASSUME ScriptSucceeds(v) PROVE CleanerInv'
  <2>1. TypeOK'
    BY <1>4 DEF ScriptSucceeds, scriptUnchanged, TypeOK, Points, ScriptStates, Streams, Lines
  <2>2. \A w \in Volumes \ {v} : Untouched(w)
    BY <1>4 DEF ScriptSucceeds, scriptUnchanged, Untouched, TypeOK
  <2>3. VolumeInv(v)'
    BY <1>4 DEF ScriptSucceeds, scriptUnchanged, VolumeInv, TypeOK, Streams, IsRunning
  <2>4. "longLines" \notin Faults => StreamInv(v)'
    BY <1>4 DEF ScriptSucceeds, scriptUnchanged, VolumeInv, StreamInv, TypeOK, Streams
  <2> QED
    BY <2>1, <2>2, <2>3, <2>4, OneVolume
<1>5. ASSUME ScriptFails(v) PROVE CleanerInv'
  <2>1. TypeOK'
    BY <1>5 DEF ScriptFails, scriptUnchanged, TypeOK, Points, ScriptStates, Streams, Lines
  <2>2. \A w \in Volumes \ {v} : Untouched(w)
    BY <1>5 DEF ScriptFails, scriptUnchanged, Untouched, TypeOK
  <2>3. VolumeInv(v)'
    BY <1>5 DEF ScriptFails, scriptUnchanged, VolumeInv, TypeOK, Streams, IsRunning
  <2>4. "longLines" \notin Faults => StreamInv(v)'
    BY <1>5 DEF ScriptFails, scriptUnchanged, VolumeInv, StreamInv, TypeOK, Streams
  <2> QED
    BY <2>1, <2>2, <2>3, <2>4, OneVolume
<1> QED
  BY <1>1, <1>2, <1>3, <1>4, <1>5

\* The provisioner starts again and knows of no cleaning.
LEMMA CrashInv ==
  ASSUME CleanerInv, Crash
  PROVE  CleanerInv'
<1> USE DEF CleanerInv
<1>1. TypeOK'
  BY DEF Crash, TypeOK, EmptyProcTable, CleanupState, Points, ScriptStates
<1>2. \A v \in Volumes : /\ table'[v] = "CSNotFound" /\ at'[v] = "none" /\ script'[v] = "none"
                         /\ open'[v] = {}
                         /\ \A s \in Streams : pipe'[v][s] = <<>> /\ reader'[v][s] = "none"
  BY DEF Crash, EmptyProcTable
<1>3. \A v \in Volumes : VolumeInv(v)'
  BY <1>2 DEF VolumeInv, IsRunning
<1>4. \A v \in Volumes : StreamInv(v)'
  <2> TAKE v \in Volumes
  <2>1. <<>> \in Seq({"line"}) /\ "none" \notin Streams
    BY DEF Streams
  <2>2. /\ at'[v] = "none" /\ script'[v] = "none" /\ open'[v] = {}
        /\ \A s \in Streams : pipe'[v][s] = <<>> /\ reader'[v][s] = "none"
    BY <1>2
  <2>3. \A s \in Streams :
            pipe'[v][s] \in Seq({"line"}) /\ reader'[v][s] # "done"
    BY <2>1, <2>2
  <2>4. /\ open'[v] = {} /\ script'[v] \notin Streams
        /\ at'[v] # "stderrPipe" /\ at'[v] # "start" /\ at'[v] # "cmdWait"
    BY <2>1, <2>2
  <2> QED
    BY <2>3, <2>4, Zenon DEF StreamInv
<1> QED
  BY <1>1, <1>3, <1>4

-----------------------------------------------------------------------------
(* The theorems.                                                           *)

\* The invariant holds in every state, with any number of cleanings at work
\* (asyncCleanPV, DeleteContents, execScript).
THEOREM CleanerInvariant == Spec => []CleanerInv
<1>1. Init => CleanerInv
  <2> SUFFICES ASSUME Init PROVE CleanerInv
    OBVIOUS
  <2>1. TypeOK
    BY DEF Init, TypeOK, EmptyProcTable, CleanupState, Points, ScriptStates
  <2>2. \A v \in Volumes : VolumeInv(v)
    BY DEF Init, EmptyProcTable, VolumeInv, IsRunning
  <2>3. \A v \in Volumes : StreamInv(v)
    BY DEF Init, StreamInv, Streams
  <2> QED
    BY <2>1, <2>2, <2>3 DEF CleanerInv
<1>2. CleanerInv /\ [Next]_vars => CleanerInv'
  <2> SUFFICES ASSUME CleanerInv, [Next]_vars PROVE CleanerInv'
    OBVIOUS
  <2>1. CASE UNCHANGED vars
    BY <2>1 DEF vars, cleaningVars, CleanerInv, TypeOK, VolumeInv, StreamInv, IsRunning
  <2>2. CASE Crash
    BY <2>2, CrashInv
  <2>3. ASSUME NEW v \in Volumes,
               \/ UseAndRelease(v) \/ DeletePV(v) \/ RunProcess(v)
               \/ Goroutine(v) \/ Script(v)
               \/ \E s \in Streams : Scan(v, s) \/ ScanEnds(v, s)
        PROVE  CleanerInv'
    BY <2>3, SyncLoopInv, DeleteContentsInv, ExecScriptInv, ScriptInv DEF Goroutine, Script
  <2> QED
    BY <2>1, <2>2, <2>3 DEF Next
<1> QED
  BY <1>1, <1>2, PTL DEF Spec

\* A report of success is true: nothing is left on the volume (DeleteContents,
\* cmd.Wait).
THEOREM ReportsAreTrue == Spec => []SucceededMeansWiped
<1>1. CleanerInv => SucceededMeansWiped
  BY DEF CleanerInv, VolumeInv, SucceededMeansWiped
<1> QED
  BY <1>1, CleanerInvariant, PTL

\* No script outlives the goroutine that started it (execScript).
THEOREM ScriptsAreWaitedFor == Spec => []NoScriptAfterReport
<1>1. CleanerInv => NoScriptAfterReport
  BY DEF CleanerInv, VolumeInv, NoScriptAfterReport
<1> QED
  BY <1>1, CleanerInvariant, PTL

\* No line a script wrote is lost, as long as a Scanner takes it (execScript).
THEOREM OutputIsKept ==
  ASSUME "longLines" \notin Faults
  PROVE  Spec => OutputIsLogged
<1>1. CleanerInv => \A v \in Volumes, s \in Streams :
                        at[v] = "cmdWait" => pipe[v][s] = <<>>
  BY DEF CleanerInv, StreamInv
<1>2. CleanerInv /\ [Next]_vars =>
        [\A v \in Volumes, s \in Streams :
            at[v] = "cmdWait" /\ at'[v] = "none" => pipe[v][s] = <<>>]_vars
  BY <1>1
<1> QED
  BY <1>2, CleanerInvariant, PTL DEF Spec, OutputIsLogged

\* Every variable keeps its type, whatever fails.
THEOREM TypeCorrect == Spec => []TypeOK
<1>1. CleanerInv => TypeOK
  BY DEF CleanerInv
<1> QED
  BY <1>1, CleanerInvariant, PTL

-----------------------------------------------------------------------------
(* The refinement.                                                         *)

\* The disks as VolumeCleaning sees them.
Data == [v \in Volumes |-> IF contents[v] = {} THEN "clean" ELSE "dirty"]

\* A step that takes something off one volume, or nothing, while its cleaning
\* runs: the volume is wiped, or nothing is seen of the step.
LEMMA ShrinkIsWipe ==
  ASSUME TypeOK, NEW v \in Volumes, NEW rest \in SUBSET contents[v], table[v] = "CSRunning",
         contents' = [contents EXCEPT ![v] = rest], UNCHANGED <<released, table>>
  PROVE  [Cleaning!Next]_(Cleaning!vars)
<1>1. CASE rest = {}
  <2>1. Data' = [Data EXCEPT ![v] = "clean"]
    BY <1>1 DEF Data, TypeOK
  <2>2. Cleaning!Wipe(v)
    BY <2>1 DEF Cleaning!Wipe, Data
  <2> QED
    BY <2>2 DEF Cleaning!Next
<1>2. CASE rest # {}
  <2>1. Data' = Data
    BY <1>2 DEF Data, TypeOK
  <2> QED
    BY <2>1 DEF Cleaning!vars, Data
<1> QED
  BY <1>1, <1>2

\* What a goroutine returns is reported, and is true.
LEMMA ReturnIsReport ==
  ASSUME TypeOK, NEW v \in Volumes, NEW outcome \in {"CSSucceeded", "CSFailed"},
         table[v] = "CSRunning", outcome = "CSSucceeded" => contents[v] = {},
         Return(v, outcome), UNCHANGED <<released, contents>>
  PROVE  [Cleaning!Next]_(Cleaning!vars)
<1>1. table' = [table EXCEPT ![v] = outcome] /\ Data' = Data
  BY DEF Return, MarkStatus, Data
<1>2. outcome = "CSSucceeded" => Data[v] = "clean"
  BY DEF Data
<1>3. Cleaning!Succeed(v) \/ Cleaning!Fail(v)
  BY <1>1, <1>2 DEF Cleaning!Succeed, Cleaning!Fail, Data
<1> QED
  BY <1>3 DEF Cleaning!Next

\* Steps of which nothing is seen.
LEMMA UnseenStep ==
  ASSUME UNCHANGED <<released, contents, table>>
  PROVE  [Cleaning!Next]_(Cleaning!vars)
  BY DEF Cleaning!vars

\* The users, the sync loop and the end of the process.
LEMMA LoopRefines ==
  ASSUME CleanerInv, Crash \/ \E v \in Volumes : UseAndRelease(v) \/ DeletePV(v) \/ RunProcess(v)
  PROVE  [Cleaning!Next]_(Cleaning!vars)
<1> USE DEF CleanerInv
<1>1. CASE Crash
  <2>1. Cleaning!Forget
    BY <1>1 DEF Crash, Cleaning!Forget, EmptyProcTable
  <2> QED
    BY <2>1 DEF Cleaning!Next
<1>2. ASSUME NEW v \in Volumes, UseAndRelease(v) PROVE [Cleaning!Next]_(Cleaning!vars)
  <2>1. PICK d \in {"clean", "dirty"} : Data' = [Data EXCEPT ![v] = d]
    <3>1. CASE Entries = {}
      BY <1>2, <3>1 DEF UseAndRelease, Data, TypeOK
    <3>2. CASE Entries # {}
      BY <1>2, <3>2 DEF UseAndRelease, Data, TypeOK
    <3> QED
      BY <3>1, <3>2
  <2>2. Cleaning!UseAndRelease(v)
    BY <1>2, <2>1 DEF UseAndRelease, Cleaning!UseAndRelease, Data
  <2> QED
    BY <2>2 DEF Cleaning!Next
<1>3. ASSUME NEW v \in Volumes, DeletePV(v) PROVE [Cleaning!Next]_(Cleaning!vars)
  <2>1. /\ v \in released /\ table[v] = "CSSucceeded" /\ table' = [table EXCEPT ![v] = "CSNotFound"]
        /\ released' = released \ {v} /\ contents' = contents
    BY <1>3 DEF DeletePV, RemoveEntryResult, RemoveEntry, IsRunning
  <2>2. Data[v] = "clean" /\ Data' = Data
    BY <2>1 DEF VolumeInv, Data
  <2>3. Cleaning!Withdraw(v)
    BY <2>1, <2>2 DEF Cleaning!Withdraw, Data
  <2> QED
    BY <2>3 DEF Cleaning!Next
<1>4. ASSUME NEW v \in Volumes, RunProcess(v) PROVE [Cleaning!Next]_(Cleaning!vars)
  <2>1. table' = [table EXCEPT ![v] = "CSRunning"] /\ table[v] \in {"CSNotFound", "CSFailed"}
    BY <1>4 DEF RunProcess, RemoveEntryResult, RemoveEntry, MarkRunning, MarkRunningAccepts,
                IsRunning, TypeOK
  <2>2. Cleaning!Begin(v)
    BY <1>4, <2>1 DEF RunProcess, Cleaning!Begin
  <2> QED
    BY <2>2 DEF Cleaning!Next
<1> QED
  BY <1>1, <1>2, <1>3, <1>4

\* The goroutine, the readers and the script.
LEMMA GoroutineRefines ==
  ASSUME CleanerInv, NEW v \in Volumes,
         Goroutine(v) \/ Script(v) \/ \E s \in Streams : Scan(v, s) \/ ScanEnds(v, s)
  PROVE  [Cleaning!Next]_(Cleaning!vars)
<1>0. TypeOK /\ VolumeInv(v) /\ contents[v] \in SUBSET Entries
  BY DEF CleanerInv, TypeOK
<1>1. at[v] # "none" \/ script[v] # "none" => table[v] = "CSRunning"
  BY <1>0 DEF VolumeInv, IsRunning
<1>2. CASE \/ ReadDir(v) \/ StdoutPipe(v) \/ StderrPipe(v) \/ Start(v) \/ WgWait(v)
           \/ \E e \in Entries : RemoveAllFails(v, e)
           \/ \E s \in Streams : \/ Scan(v, s) \/ ScanEnds(v, s)
                                 \/ ScriptOutput(v, s) \/ ScriptCloses(v, s)
           \/ \E line \in Lines : ScriptWrites(v, line)
  <2>1. UNCHANGED <<released, contents, table>>
    BY <1>2 DEF ReadDir, StdoutPipe, StderrPipe, Start, WgWait, RemoveAllFails, Scan, ScanEnds,
                ScriptOutput, ScriptCloses, ScriptWrites, scriptUnchanged
  <2> QED
    BY <2>1, UnseenStep
<1>3. ASSUME NEW e \in Entries, RemoveAll(v, e) PROVE [Cleaning!Next]_(Cleaning!vars)
  <2>1. /\ table[v] = "CSRunning" /\ UNCHANGED <<released, table>>
        /\ contents' = [contents EXCEPT ![v] = contents[v] \ {e}]
        /\ contents[v] \ {e} \in SUBSET contents[v]
    BY <1>1, <1>3 DEF RemoveAll
  <2> QED
    BY <1>0, <2>1, ShrinkIsWipe
<1>4. CASE ScriptSucceeds(v) \/ ScriptFails(v)
  <2>1. table[v] = "CSRunning" /\ UNCHANGED <<released, table>>
    BY <1>1, <1>4 DEF ScriptSucceeds, ScriptFails, scriptUnchanged
  <2>2. PICK rest \in SUBSET contents[v] : contents' = [contents EXCEPT ![v] = rest]
    BY <1>4 DEF ScriptSucceeds, ScriptFails
  <2> QED
    BY <1>0, <2>1, <2>2, ShrinkIsWipe
<1>5. CASE ReadDirFails(v) \/ PipeFails(v) \/ StartFails(v)
  <2>1. Return(v, "CSFailed") /\ at[v] # "none" /\ UNCHANGED <<released, contents>>
    BY <1>5 DEF ReadDirFails, PipeFails, StartFails
  <2> QED
    BY <1>0, <1>1, <2>1, ReturnIsReport
<1>6. CASE Removed(v) \/ CmdWait(v)
  <2>1. PICK outcome \in {"CSSucceeded", "CSFailed"} :
          Return(v, outcome) /\ (outcome = "CSSucceeded" => contents[v] = {})
    <3>1. CASE Removed(v)
      BY <1>0, <3>1 DEF Removed, VolumeInv
    <3>2. CASE CmdWait(v)
      BY <1>0, <3>2 DEF CmdWait, VolumeInv
    <3> QED
      BY <1>6, <3>1, <3>2
  <2>2. at[v] # "none" /\ UNCHANGED <<released, contents>>
    BY <1>6 DEF Removed, CmdWait
  <2> QED
    BY <1>0, <1>1, <2>1, <2>2, ReturnIsReport
<1>7. CASE Goroutine(v)
  <2>1. CASE \E e \in Entries : RemoveAll(v, e) \/ RemoveAllFails(v, e)
    BY <1>2, <1>3, <2>1, Zenon
  <2>2. CASE ~\E e \in Entries : RemoveAll(v, e) \/ RemoveAllFails(v, e)
    <3>1. \/ ReadDir(v) \/ StdoutPipe(v) \/ StderrPipe(v) \/ Start(v) \/ WgWait(v)
          \/ ReadDirFails(v) \/ PipeFails(v) \/ StartFails(v) \/ Removed(v) \/ CmdWait(v)
      BY <1>7, <2>2, Zenon DEF Goroutine
    <3> QED
      BY <1>2, <1>5, <1>6, <3>1, Zenon
  <2> QED
    BY <2>1, <2>2
<1>8. CASE Script(v)
  BY <1>2, <1>4, <1>8, Zenon DEF Script
<1>9. CASE \E s \in Streams : Scan(v, s) \/ ScanEnds(v, s)
  BY <1>2, <1>9, Zenon
<1> QED
  BY <1>7, <1>8, <1>9

\* A goroutine with its directory entries, pipes, readers and child process
\* implements what the sync loop takes a cleaning for.
THEOREM CleaningRefinement == Spec => ImplementsCleaning
<1>1. Init => Cleaning!Init
  BY DEF Init, Cleaning!Init, EmptyProcTable
<1>2. CleanerInv /\ [Next]_vars => [Cleaning!Next]_(Cleaning!vars)
  <2> SUFFICES ASSUME CleanerInv, [Next]_vars PROVE [Cleaning!Next]_(Cleaning!vars)
    OBVIOUS
  <2>1. CASE UNCHANGED vars
    BY <2>1, UnseenStep DEF vars
  <2> QED
    BY <2>1, LoopRefines, GoroutineRefines DEF Next
<1> QED
  BY <1>1, <1>2, CleanerInvariant, PTL DEF Spec, ImplementsCleaning, Cleaning!Spec
=============================================================================
