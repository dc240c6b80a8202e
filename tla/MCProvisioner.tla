---------------------------- MODULE MCProvisioner ----------------------------
(***************************************************************************)
(* Small instances of Provisioner.                                         *)
(***************************************************************************)
EXTENDS Provisioner, TLC

CONSTANTS v1, v2, c1, c2, p1, p2

\* One class for every volume, or a class for each of two volumes.
OneClass == [v \in Volumes |-> c1]
TwoClasses == (v1 :> c1) @@ (v2 :> c2)

\* A directory entry of its own for every volume, or one for both.
OnePath == [v \in Volumes |-> p1]
OwnPaths == (v1 :> p1) @@ (v2 :> p2)

AllFilesystem == [v \in Volumes |-> "Filesystem"]
AllBlock == [v \in Volumes |-> "Block"]
FilesystemAndBlock == (v1 :> "Filesystem") @@ (v2 :> "Block")

AllDelete == [c \in Classes |-> "Delete"]

Config(job, classes) ==
    [useJob |-> job, nodeNameOnly |-> FALSE, hostLabel |-> TRUE,
     uidName |-> "node-uid1", classes |-> classes]

ProcessConfigs == {Config(FALSE, {c1})}
JobConfigs == {Config(TRUE, {c1})}

\* useJobForCleaning is switched between two starts.
EitherModeConfigs == ProcessConfigs \cup JobConfigs

\* A class comes and goes, the Node object is created again, and the UID in
\* the provisioner's name is switched off and on.
ChangingConfigs ==
    UNION {{c, [c EXCEPT !.nodeNameOnly = TRUE],
            [c EXCEPT !.uidName = "node-uid2", !.hostLabel = FALSE]} :
               c \in {Config(FALSE, {c1}), Config(FALSE, {c1, c2})}}

\* Two classes whose hostDir is the same directory.
TwoClassConfigs == {Config(FALSE, {c1, c2})}
=============================================================================
