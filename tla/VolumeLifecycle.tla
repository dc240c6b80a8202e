--------------------------- MODULE VolumeLifecycle ---------------------------
(***************************************************************************)
(* What the provisioner promises the users of a node's local volumes: a    *)
(* volume is offered, used by one claim, released, wiped, withdrawn and    *)
(* offered again.  A volume on offer holds nobody's data, and nothing is   *)
(* wiped from the moment it is offered until its claim is gone.            *)
(***************************************************************************)
CONSTANT Volumes

VARIABLES
    phase,  \* phase of the PersistentVolume object of each volume
    data    \* whether the disk of each volume holds data of a claim

vars == <<phase, data>>

Init ==
    /\ phase = [v \in Volumes |-> "Absent"]
    /\ data = [v \in Volumes |-> "clean"]

\* The provisioner offers a volume, and only one that is clean.
Offer(v) ==
    /\ phase[v] = "Absent"
    /\ data[v] = "clean"
    /\ phase' = [phase EXCEPT ![v] = "Available"]
    /\ UNCHANGED data

Bind(v) ==
    /\ phase[v] = "Available"
    /\ phase' = [phase EXCEPT ![v] = "Bound"]
    /\ UNCHANGED data

Use(v) ==
    /\ phase[v] = "Bound"
    /\ data' = [data EXCEPT ![v] = "dirty"]
    /\ UNCHANGED phase

Release(v) ==
    /\ phase[v] = "Bound"
    /\ phase' = [phase EXCEPT ![v] = "Released"]
    /\ UNCHANGED data

\* A wipe never touches a volume that is on offer or in use.
Wipe(v) ==
    /\ phase[v] \in {"Absent", "Released"}
    /\ data' = [data EXCEPT ![v] = "clean"]
    /\ UNCHANGED phase

\* The PV of a released volume goes away once the volume is clean.
Withdraw(v) ==
    /\ phase[v] = "Released"
    /\ data[v] = "clean"
    /\ phase' = [phase EXCEPT ![v] = "Absent"]
    /\ UNCHANGED data

Next ==
    \E v \in Volumes :
        Offer(v) \/ Bind(v) \/ Use(v) \/ Release(v) \/ Wipe(v) \/ Withdraw(v)

Spec == Init /\ [][Next]_vars
=============================================================================
