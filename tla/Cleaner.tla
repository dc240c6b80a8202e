------------------------------- MODULE Cleaner -------------------------------
(***************************************************************************)
(* What one cleaning goroutine does (asyncCleanPV, pkg/deleter).  A file   *)
(* system volume is emptied entry by entry (DeleteContents, pkg/util).     *)
(* For a block volume a script is run in a child process, and two more     *)
(* goroutines log what it writes (execScript).  Provisioner has all of     *)
(* this as one step that succeeds or fails; what it has of the sync loop   *)
(* and of failing requests is here a step that succeeds.                   *)
(***************************************************************************)
EXTENDS Integers, Sequences, FiniteSets, ProcTable

CONSTANTS
    Volumes,       \* PV names
    Entries,       \* what users may leave on a volume
    PipeCapacity,  \* bound: lines the kernel keeps for a reader
    Faults         \* what may go wrong, a subset of AllFaults

AllFaults ==
    { "removeErrors",  \* directories cannot be read, entries not removed
      "scriptFails",   \* the script exits with an error
      "pipeErrors",    \* a pipe or the process cannot be created
      "longLines",     \* the script writes a line longer than a Scanner takes
      "crash"          \* the provisioner dies, and its children with it
    }

ASSUME CleanerAssumption ==
    /\ PipeCapacity \in Nat \ {0}
    /\ Faults \subseteq AllFaults

VARIABLES
    volMode,   \* whether a PV is a file system or a block device
    released,  \* volumes whose PV is released and not yet deleted
    contents,  \* what is on each volume
    table,     \* the process table
    at,        \* the goroutine of a volume: what it does next
    left,      \* DeleteContents: entries listed and not yet come to
    errList,   \* DeleteContents: whether an error was appended
    script,    \* the child process of a volume
    open,      \* streams the child process has not closed
    pipe,      \* lines on their way from the child to a reader
    reader     \* the goroutines that scan stdout and stderr

cleaningVars == <<at, left, errList, script, open, pipe, reader>>
vars == <<volMode, released, contents, table, cleaningVars>>

Streams == {"stdout", "stderr"}
Lines == {"line", "long"}
Points == {"none", "readDir", "remove", "stdoutPipe", "stderrPipe", "start", "wgWait", "cmdWait"}

\* A script that is about to write to a stream goes on when there is room.
ScriptStates == {"none", "running", "exit0", "exit1"} \cup Streams

TypeOK ==
    /\ volMode \in [Volumes -> {"Filesystem", "Block"}]
    /\ released \subseteq Volumes
    /\ contents \in [Volumes -> SUBSET Entries]
    /\ table \in [Volumes -> CleanupState]
    /\ at \in [Volumes -> Points]
    /\ left \in [Volumes -> SUBSET Entries]
    /\ errList \in [Volumes -> BOOLEAN]
    /\ script \in [Volumes -> ScriptStates]
    /\ open \in [Volumes -> SUBSET Streams]
    /\ pipe \in [Volumes -> [Streams -> Seq(Lines)]]
    /\ reader \in [Volumes -> [Streams -> {"none", "scanning", "done"}]]

Init ==
    /\ volMode \in [Volumes -> {"Filesystem", "Block"}]
    /\ released = {}
    /\ contents = [v \in Volumes |-> {}]
    /\ table = EmptyProcTable(Volumes)
    /\ at = [v \in Volumes |-> "none"]
    /\ left = [v \in Volumes |-> {}]
    /\ errList = [v \in Volumes |-> FALSE]
    /\ script = [v \in Volumes |-> "none"]
    /\ open = [v \in Volumes |-> {}]
    /\ pipe = [v \in Volumes |-> [s \in Streams |-> <<>>]]
    /\ reader = [v \in Volumes |-> [s \in Streams |-> "none"]]

-----------------------------------------------------------------------------
(* The users, the sync loop and the process as a whole.                    *)

\* A claim is bound, writes and is deleted.
UseAndRelease(v) ==
    /\ v \notin released
    /\ released' = released \cup {v}
    /\ contents' = [contents EXCEPT ![v] = Entries]
    /\ UNCHANGED <<volMode, table, cleaningVars>>

\* deletePV of a volume that was cleaned: the PV is deleted, and with it
\* the volume is free to be offered again.
DeletePV(v) ==
    /\ v \in released
    /\ RemoveEntryResult(table, v) = "CSSucceeded"
    /\ table' = RemoveEntry(table, v)
    /\ released' = released \ {v}
    /\ UNCHANGED <<volMode, contents, cleaningVars>>

\* deletePV and runProcess of a volume that was not cleaned, or in vain.
RunProcess(v) ==
    /\ v \in released /\ ~IsRunning(table, v)
    /\ RemoveEntryResult(table, v) \in {"CSNotFound", "CSFailed"}
    /\ table' = MarkRunning(RemoveEntry(table, v), v)
    /\ at' = [at EXCEPT ![v] = IF volMode[v] = "Block" THEN "stdoutPipe" ELSE "readDir"]
    /\ UNCHANGED <<volMode, released, contents, left, errList, script, open, pipe, reader>>

Crash ==
    /\ "crash" \in Faults
    /\ table' = EmptyProcTable(Volumes)
    /\ at' = [v \in Volumes |-> "none"]
    /\ left' = [v \in Volumes |-> {}]
    /\ errList' = [v \in Volumes |-> FALSE]
    /\ script' = [v \in Volumes |-> "none"]
    /\ open' = [v \in Volumes |-> {}]
    /\ pipe' = [v \in Volumes |-> [s \in Streams |-> <<>>]]
    /\ reader' = [v \in Volumes |-> [s \in Streams |-> "none"]]
    /\ UNCHANGED <<volMode, released, contents>>

\* asyncCleanPV: what cleanPV returns goes into the table.
Return(v, status) ==
    /\ table' = MarkStatus(table, v, status)
    /\ at' = [at EXCEPT ![v] = "none"]

-----------------------------------------------------------------------------
(* DeleteContents.                                                         *)

ReadDir(v) ==
    /\ at[v] = "readDir"
    /\ left' = [left EXCEPT ![v] = contents[v]]
    /\ errList' = [errList EXCEPT ![v] = FALSE]
    /\ at' = [at EXCEPT ![v] = "remove"]
    /\ UNCHANGED <<volMode, released, contents, table, script, open, pipe, reader>>

ReadDirFails(v) ==
    /\ at[v] = "readDir" /\ "removeErrors" \in Faults
    /\ Return(v, "CSFailed")
    /\ UNCHANGED <<volMode, released, contents, left, errList, script, open, pipe, reader>>

\* Mutant: only the error of the last entry is kept.
RemoveAllFails_LastError(v, e) ==
    /\ at[v] = "remove" /\ e \in left[v] /\ "removeErrors" \in Faults
    /\ left' = [left EXCEPT ![v] = @ \ {e}]
    /\ errList' = [errList EXCEPT ![v] = left'[v] = {}]
    /\ UNCHANGED <<volMode, released, contents, table, at, script, open, pipe, reader>>

RemoveAll(v, e) ==
    /\ at[v] = "remove" /\ e \in left[v]
    /\ left' = [left EXCEPT ![v] = @ \ {e}]
    /\ contents' = [contents EXCEPT ![v] = @ \ {e}]
    /\ UNCHANGED <<volMode, released, table, at, errList, script, open, pipe, reader>>

\* The error is appended, and the loop goes on with the next entry.
RemoveAllFails(v, e) ==
    /\ at[v] = "remove" /\ e \in left[v] /\ "removeErrors" \in Faults
    /\ left' = [left EXCEPT ![v] = @ \ {e}]
    /\ errList' = [errList EXCEPT ![v] = TRUE]
    /\ UNCHANGED <<volMode, released, contents, table, at, script, open, pipe, reader>>

\* NewAggregate of an empty list is nil.
Removed(v) ==
    /\ at[v] = "remove" /\ left[v] = {}
    /\ Return(v, IF errList[v] THEN "CSFailed" ELSE "CSSucceeded")
    /\ UNCHANGED <<volMode, released, contents, left, errList, script, open, pipe, reader>>

-----------------------------------------------------------------------------
(* execScript.                                                             *)

StdoutPipe(v) ==
    /\ at[v] = "stdoutPipe"
    /\ reader' = [reader EXCEPT ![v]["stdout"] = "scanning"]
    /\ at' = [at EXCEPT ![v] = "stderrPipe"]
    /\ UNCHANGED <<volMode, released, contents, table, left, errList, script, open, pipe>>

\* Mutant: nobody reads what the script writes to stderr.
StderrPipe_NoReader(v) ==
    /\ at[v] = "stderrPipe"
    /\ reader' = [reader EXCEPT ![v]["stderr"] = "done"]
    /\ at' = [at EXCEPT ![v] = "start"]
    /\ UNCHANGED <<volMode, released, contents, table, left, errList, script, open, pipe>>

StderrPipe(v) ==
    /\ at[v] = "stderrPipe"
    /\ reader' = [reader EXCEPT ![v]["stderr"] = "scanning"]
    /\ at' = [at EXCEPT ![v] = "start"]
    /\ UNCHANGED <<volMode, released, contents, table, left, errList, script, open, pipe>>

\* When the second pipe fails, the reader of the first is left behind: its
\* pipe is never closed.
PipeFails(v) ==
    /\ at[v] \in {"stdoutPipe", "stderrPipe"} /\ "pipeErrors" \in Faults
    /\ Return(v, "CSFailed")
    /\ UNCHANGED <<volMode, released, contents, left, errList, script, open, pipe, reader>>

Start(v) ==
    /\ at[v] = "start"
    /\ script' = [script EXCEPT ![v] = "running"]
    /\ open' = [open EXCEPT ![v] = Streams]
    /\ at' = [at EXCEPT ![v] = "wgWait"]
    /\ UNCHANGED <<volMode, released, contents, table, left, errList, pipe, reader>>

\* Start closes both pipes when it fails, which ends the readers.
StartFails(v) ==
    /\ at[v] = "start" /\ "pipeErrors" \in Faults
    /\ Return(v, "CSFailed")
    /\ reader' = [reader EXCEPT ![v] = [s \in Streams |-> "none"]]
    /\ UNCHANGED <<volMode, released, contents, left, errList, script, open, pipe>>

\* outScanner.Scan and errScanner.Scan: a line that is too long ends them.
Scan(v, s) ==
    /\ reader[v][s] = "scanning" /\ pipe[v][s] # <<>>
    /\ pipe' = [pipe EXCEPT ![v][s] = Tail(@)]
    /\ reader' = [reader EXCEPT ![v][s] = IF Head(pipe[v][s]) = "long" THEN "done" ELSE @]
    /\ UNCHANGED <<volMode, released, contents, table, at, left, errList, script, open>>

ScanEnds(v, s) ==
    /\ reader[v][s] = "scanning" /\ pipe[v][s] = <<>>
    /\ at[v] = "wgWait" /\ s \notin open[v]
    /\ reader' = [reader EXCEPT ![v][s] = "done"]
    /\ UNCHANGED <<volMode, released, contents, table, at, left, errList, script, open, pipe>>

\* Mutant: wg.Add(1).
WgWait_OneReader(v) ==
    /\ at[v] = "wgWait"
    /\ \E s \in Streams : reader[v][s] = "done"
    /\ at' = [at EXCEPT ![v] = "cmdWait"]
    /\ UNCHANGED <<volMode, released, contents, table, left, errList, script, open, pipe, reader>>

WgWait(v) ==
    /\ at[v] = "wgWait"
    /\ \A s \in Streams : reader[v][s] = "done"
    /\ at' = [at EXCEPT ![v] = "cmdWait"]
    /\ UNCHANGED <<volMode, released, contents, table, left, errList, script, open, pipe, reader>>

\* Mutant: the end of the output is taken for the end of the script.
CmdWait_NotForExit(v) ==
    /\ at[v] = "cmdWait"
    /\ Return(v, IF script[v] = "exit1" THEN "CSFailed" ELSE "CSSucceeded")
    /\ UNCHANGED <<volMode, released, contents, left, errList, script, open, pipe, reader>>

\* cmd.Wait: the script has exited, and the pipes are closed.
CmdWait(v) ==
    /\ at[v] = "cmdWait" /\ script[v] \in {"exit0", "exit1"}
    /\ Return(v, IF script[v] = "exit0" THEN "CSSucceeded" ELSE "CSFailed")
    /\ script' = [script EXCEPT ![v] = "none"]
    /\ pipe' = [pipe EXCEPT ![v] = [s \in Streams |-> <<>>]]
    /\ reader' = [reader EXCEPT ![v] = [s \in Streams |-> "none"]]
    /\ UNCHANGED <<volMode, released, contents, left, errList, open>>

-----------------------------------------------------------------------------
(* The script: it writes lines, may close a stream early, and exits with   *)
(* success only when the device is wiped.                                  *)

scriptUnchanged == UNCHANGED <<volMode, released, table, at, left, errList, reader>>

ScriptOutput(v, s) ==
    /\ script[v] = "running" /\ s \in open[v]
    /\ script' = [script EXCEPT ![v] = s]
    /\ scriptUnchanged /\ UNCHANGED <<contents, open, pipe>>

ScriptWrites(v, line) ==
    /\ script[v] \in Streams /\ Len(pipe[v][script[v]]) < PipeCapacity
    /\ line = "long" => "longLines" \in Faults
    /\ pipe' = [pipe EXCEPT ![v][script[v]] = Append(@, line)]
    /\ script' = [script EXCEPT ![v] = "running"]
    /\ scriptUnchanged /\ UNCHANGED <<contents, open>>

ScriptCloses(v, s) ==
    /\ script[v] = "running" /\ s \in open[v]
    /\ open' = [open EXCEPT ![v] = @ \ {s}]
    /\ scriptUnchanged /\ UNCHANGED <<contents, script, pipe>>

ScriptSucceeds(v) ==
    /\ script[v] = "running"
    /\ contents' = [contents EXCEPT ![v] = {}]
    /\ script' = [script EXCEPT ![v] = "exit0"]
    /\ open' = [open EXCEPT ![v] = {}]
    /\ scriptUnchanged /\ UNCHANGED pipe

\* It may have wiped a part.
ScriptFails(v) ==
    /\ script[v] = "running" /\ "scriptFails" \in Faults
    /\ \E rest \in SUBSET contents[v] : contents' = [contents EXCEPT ![v] = rest]
    /\ script' = [script EXCEPT ![v] = "exit1"]
    /\ open' = [open EXCEPT ![v] = {}]
    /\ scriptUnchanged /\ UNCHANGED pipe

-----------------------------------------------------------------------------
\* The goroutine of a volume.
Goroutine(v) ==
    \/ ReadDir(v) \/ ReadDirFails(v) \/ Removed(v)
    \/ \E e \in Entries : RemoveAll(v, e) \/ RemoveAllFails(v, e)
    \/ StdoutPipe(v) \/ StderrPipe(v) \/ PipeFails(v) \/ Start(v) \/ StartFails(v)
    \/ WgWait(v) \/ CmdWait(v)

Script(v) ==
    \/ \E s \in Streams : ScriptOutput(v, s) \/ ScriptCloses(v, s)
    \/ \E line \in Lines : ScriptWrites(v, line)
    \/ ScriptSucceeds(v) \/ ScriptFails(v)

Next ==
    \/ Crash
    \/ \E v \in Volumes :
           \/ UseAndRelease(v) \/ DeletePV(v) \/ RunProcess(v)
           \/ Goroutine(v) \/ Script(v)
           \/ \E s \in Streams : Scan(v, s) \/ ScanEnds(v, s)

Spec == Init /\ [][Next]_vars

(***************************************************************************)
(* Fairness.  Goroutines and the script are scheduled (WF).  An entry that *)
(* is tried again and again is removed at last, and so with the script     *)
(* (SF).  The process is not killed for ever.                              *)
(***************************************************************************)
Fairness ==
    /\ \A v \in Volumes :
           /\ WF_vars(DeletePV(v) \/ RunProcess(v)) /\ WF_vars(Goroutine(v))
           /\ \A s \in Streams : WF_vars(Scan(v, s) \/ ScanEnds(v, s))
           /\ SF_vars(ReadDir(v) \/ StdoutPipe(v)) /\ SF_vars(StderrPipe(v)) /\ SF_vars(Start(v))
           /\ \A e \in Entries : SF_vars(RemoveAll(v, e))
           /\ WF_vars(Script(v)) /\ SF_vars(ScriptSucceeds(v))
    /\ <>[][~Crash]_vars

FairSpec == Spec /\ Fairness

-----------------------------------------------------------------------------
(* Properties.                                                             *)

\* The table says CSSucceeded only of a volume on which nothing is left:
\* DeleteContents goes on after an error but does not forget it, and a crash
\* or a failure half-way leaves no such entry.
SucceededMeansWiped ==
    \A v \in Volumes : table[v] = "CSSucceeded" => contents[v] = {}

\* When a cleaning is reported, its script has exited: no script is writing
\* to a device whose volume is offered again, or cleaned a second time.
NoScriptAfterReport ==
    \A v \in Volumes : at[v] = "none" => script[v] = "none"

\* No line the script wrote is thrown away: cmd.Wait closes the pipes only
\* after both readers have seen the end of theirs.
OutputIsLogged ==
    [][\A v \in Volumes, s \in Streams :
           at[v] = "cmdWait" /\ at'[v] = "none" => pipe[v][s] = <<>>]_vars

\* A cleaning that runs ends: the script is never left blocked on a pipe that
\* nobody reads, nor the readers on a pipe that nobody closes.
CleaningEnds ==
    \A v \in Volumes : IsRunning(table, v) ~> ~IsRunning(table, v)

\* A released volume is wiped and its PV deleted at last, although every
\* attempt may fail at some entry: what an attempt removes stays removed.
WipedAtLast ==
    \A v \in Volumes : v \in released ~> v \notin released

\* Entry by entry, line by line and with a child process, a goroutine does
\* what the sync loop takes it for: asyncCleanPV runs once at a time for a
\* volume, touches no volume but while it is marked as running, and what it
\* reports is true.
Cleaning ==
    INSTANCE VolumeCleaning WITH
        status <- table,
        data <- [v \in Volumes |-> IF contents[v] = {} THEN "clean" ELSE "dirty"]

ImplementsCleaning == Cleaning!Spec

(***************************************************************************)
(* The inductive invariant behind the first three.                         *)
(***************************************************************************)

\* What a goroutine has reached, and what that says of the volume.
VolumeInv(v) ==
    /\ IsRunning(table, v) <=> at[v] # "none"
    /\ at[v] # "none" \/ table[v] = "CSSucceeded" => v \in released
    /\ table[v] = "CSSucceeded" => contents[v] = {}
    /\ at[v] = "remove" => contents[v] \subseteq left[v] \/ errList[v]
    /\ script[v] # "none" => at[v] \in {"wgWait", "cmdWait"}
    /\ script[v] = "exit0" => contents[v] = {}

\* What is on the way from the script to the log, when no line is too long.
StreamInv(v) ==
    /\ script[v] \in {"none", "exit0", "exit1"} => open[v] = {}
    /\ script[v] \in Streams => script[v] \in open[v]
    /\ at[v] = "stderrPipe" => reader[v]["stdout"] = "scanning"
    /\ at[v] = "start" => \A s \in Streams : reader[v][s] = "scanning"
    /\ at[v] = "cmdWait" => \A s \in Streams : reader[v][s] = "done"
    /\ \A s \in Streams :
           /\ pipe[v][s] \in Seq({"line"})
           /\ reader[v][s] = "done" =>
                  at[v] \in {"wgWait", "cmdWait"} /\ s \notin open[v] /\ pipe[v][s] = <<>>

\* The two together: a report in the table is true because of where its
\* goroutine and its script were.
CleanerInv ==
    /\ TypeOK
    /\ \A v \in Volumes : VolumeInv(v)
    /\ "longLines" \notin Faults => \A v \in Volumes : StreamInv(v)
=============================================================================
