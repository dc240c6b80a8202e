-------------------------- MODULE MCVolumeObjects --------------------------
(***************************************************************************)
(* Small instances of VolumeObjects: two classes, a file system and a      *)
(* device, each the only entry of its directory.                           *)
(***************************************************************************)
EXTENDS VolumeObjects

CONSTANTS a, b, zone

H1 == <<"data", "h1">>
H2 == <<"data", "h2">>
H3 == <<"data", "h3">>
TheVolumes == {Append(H1, "f"), Append(H2, "f")}
TheDevice == {Append(H2, "f")}

\* MiB = 10 and GiB = 100: sizes that are not whole units, just above ten of
\* the larger one and below it.
Sizes == (Append(H1, "f") :> 199) @@ (Append(H2, "f") :> 1099)

Mounts(hostDir, mountDir, mode, selector) ==
    [hostDir |-> hostDir, mountDir |-> mountDir, volumeMode |-> mode,
     blockCleanerCommand |-> "nil", namePattern |-> {}, selector |-> selector]

Deploys(alpha, job, ofA, ofB) ==
    [useAlphaAPI |-> alpha, useJob |-> job, classes |-> (a :> ofA) @@ (b :> ofB)]

ClassA == Mounts(H1, <<"mnt", "m1">>, "", {})
ClassB == Mounts(H2, <<"mnt", "m2">>, "Block", {zone})

\* Class a is moved to another mountDir, then to another hostDir: a path of
\* its old PVs leads from its mountDir to the mount of class b.
Moved == [ClassA EXCEPT !.mountDir = <<"srv", "disks", "m1">>]
Elsewhere == [ClassA EXCEPT !.hostDir = H3]
AtH1 == [ClassB EXCEPT !.mountDir = <<"mnt", "h1">>]

Wrong == [ClassA EXCEPT !.volumeMode = "Raw"]

TheDeployments ==
    { Deploys(TRUE, FALSE, ClassA, ClassB),
      Deploys(FALSE, TRUE, Moved, ClassB),
      Deploys(FALSE, FALSE, Elsewhere, AtH1),
      Deploys(FALSE, FALSE, Wrong, ClassB) }
=============================================================================
