------------------------------ MODULE ProcTable ------------------------------
(***************************************************************************)
(* The cleanup process table (pkg/deleter/proctable.go): one entry per PV  *)
(* name whose cleanup was started in this process.  Every method holds the *)
(* table's mutex from its first to its last line, so each is a function of *)
(* the table.  A table is a function from PV names to cleanup states, and  *)
(* "CSNotFound" stands for a name that has no entry.                       *)
(***************************************************************************)

\* The states an entry takes.  CSUnknown is never stored by any method.
CleanupState == {"CSNotFound", "CSRunning", "CSFailed", "CSSucceeded"}

\* The table made by NewProcTable for the names in S.
EmptyProcTable(S) == [v \in S |-> "CSNotFound"]

IsRunning(table, v) == table[v] = "CSRunning"

\* MarkRunning returns an error, and leaves the table alone, when the name
\* has an entry of any state.
MarkRunningAccepts(table, v) == table[v] = "CSNotFound"

MarkRunning(table, v) ==
    IF MarkRunningAccepts(table, v) THEN [table EXCEPT ![v] = "CSRunning"] ELSE table

\* Mutant: a cleaning that fails returns without MarkFailed.
MarkStatus_OnlySuccess(table, v, status) ==
    IF status = "CSFailed" THEN table ELSE [table EXCEPT ![v] = status]

\* markStatus, through MarkFailed and MarkSucceeded: an error, and no change,
\* when the name has no entry.
MarkStatus(table, v, status) ==
    IF table[v] = "CSNotFound" THEN table ELSE [table EXCEPT ![v] = status]

\* The state RemoveEntry returns; "error" for an entry that is still running.
RemoveEntryResult(table, v) == IF IsRunning(table, v) THEN "error" ELSE table[v]

\* Mutant: RemoveEntry reports the entry and forgets to delete it.
RemoveEntry_KeepsEntry(table, v) == table

RemoveEntry(table, v) ==
    IF IsRunning(table, v) THEN table ELSE [table EXCEPT ![v] = "CSNotFound"]
=============================================================================
