---------------------------- MODULE VolumeCleaning ----------------------------
(***************************************************************************)
(* What the sync loop takes the cleaning of volumes for: it is started for *)
(* a released volume, one at a time, wipes the volume while it runs and    *)
(* reports in the end, and a report of success may be relied on.           *)
(***************************************************************************)
CONSTANT Volumes

VARIABLES
    released,  \* volumes whose PV is released and not yet deleted
    status,    \* of the last cleaning of each volume, in the process table
    data       \* whether the disk of each volume holds data of a claim

vars == <<released, status, data>>

Init ==
    /\ released = {}
    /\ status = [v \in Volumes |-> "CSNotFound"]
    /\ data = [v \in Volumes |-> "clean"]

\* A claim is bound, may write, and is deleted.
UseAndRelease(v) ==
    /\ v \notin released
    /\ released' = released \cup {v}
    /\ \E d \in {"clean", "dirty"} : data' = [data EXCEPT ![v] = d]
    /\ UNCHANGED status

Begin(v) ==
    /\ v \in released /\ status[v] \in {"CSNotFound", "CSFailed"}
    /\ status' = [status EXCEPT ![v] = "CSRunning"]
    /\ UNCHANGED <<released, data>>

Wipe(v) ==
    /\ status[v] = "CSRunning"
    /\ data' = [data EXCEPT ![v] = "clean"]
    /\ UNCHANGED <<released, status>>

\* Success is reported of a volume that is wiped.
Succeed(v) ==
    /\ status[v] = "CSRunning" /\ data[v] = "clean"
    /\ status' = [status EXCEPT ![v] = "CSSucceeded"]
    /\ UNCHANGED <<released, data>>

Fail(v) ==
    /\ status[v] = "CSRunning"
    /\ status' = [status EXCEPT ![v] = "CSFailed"]
    /\ UNCHANGED <<released, data>>

\* The PV of a volume that is wiped is deleted, and the report with it.
Withdraw(v) ==
    /\ v \in released /\ status[v] = "CSSucceeded" /\ data[v] = "clean"
    /\ released' = released \ {v}
    /\ status' = [status EXCEPT ![v] = "CSNotFound"]
    /\ UNCHANGED data

\* The process ends, with all cleanings and all reports.
Forget ==
    /\ status' = [v \in Volumes |-> "CSNotFound"]
    /\ UNCHANGED <<released, data>>

Next ==
    \/ Forget
    \/ \E v \in Volumes :
           UseAndRelease(v) \/ Begin(v) \/ Wipe(v) \/ Succeed(v) \/ Fail(v) \/ Withdraw(v)

Spec == Init /\ [][Next]_vars
=============================================================================
