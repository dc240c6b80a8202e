---------------------------- MODULE VolumeObjects ----------------------------
(***************************************************************************)
(* What a PV object says about a volume, and whether that is still true    *)
(* when it is used.  Provisioner knows volumes by name only.  Here a PV    *)
(* has the path, capacity and node affinity that discovery gave it, and    *)
(* they outlive the configuration they came from: the deleter maps the     *)
(* path into the container by the configuration of the day, disks are      *)
(* mounted and unmounted, and the update-pv-to-beta tool moves affinities. *)
(* Passes and cleanings are single steps (see Provisioner and Cleaner).    *)
(***************************************************************************)
EXTENDS Integers, Sequences, SequencesExt

CONSTANTS
    Classes,      \* storage classes
    Files,        \* names of directory entries
    Deployments,  \* what the administrator deploys
    HostVolumes,  \* host paths at which there is a directory or a device
    DeviceAt,     \* those that are devices
    BytesOf,      \* the size of the file system or device at each of them
    RootBytes,    \* the size of the file system the directories are on
    NamePrefix,   \* pairs of path elements, the first a string prefix of the second
    HostTerm,     \* the selector term for the host name of the node
    Terms,        \* other selector terms, which classes may add
    MiB, GiB,     \* esUtil.MiB, esUtil.GiB
    Faults        \* a subset of AllFaults

AllFaults ==
    { "unmountUsed",   \* a file system with data is unmounted
      "listErrors",    \* the tool's List fails
      "updateErrors"   \* the tool's Update fails
    }

\* Absolute paths are sequences of elements; the empty one stands for "".
Unset == <<>>
MountConfig ==
    [hostDir : Seq(STRING), mountDir : Seq(STRING), volumeMode : STRING,
     blockCleanerCommand : {"nil", "empty", "default", "given"},
     namePattern : SUBSET Files,   \* the names it matches, {} for ""
     selector : SUBSET Terms]
IsDeployment(d) ==
    /\ d.useAlphaAPI \in BOOLEAN /\ d.useJob \in BOOLEAN
    /\ DOMAIN d.classes \subseteq Classes
    /\ \A k \in DOMAIN d.classes : d.classes[k] \in MountConfig

ASSUME VolumeObjectsAssumption ==
    /\ MiB \in Nat \ {0} /\ GiB \in Nat \ {0} /\ MiB <= GiB
    /\ \A d \in Deployments : IsDeployment(d)
    /\ DeviceAt \subseteq HostVolumes
    /\ BytesOf \in [HostVolumes -> Nat] /\ RootBytes \in Nat
    /\ HostTerm \notin Terms
    /\ Faults \subseteq AllFaults

\* generatePVName: a hash of the class, the file and the node.
PVNames == Classes \X Files

VARIABLES
    config,        \* the configuration the process has loaded
    nodeSelector,  \* Discoverer.nodeSelector
    pvs,           \* the PVs on the API server
    mounted,       \* host paths at which a file system is mounted
    dirty,         \* host paths of volumes with the data of a former claim
    tool,          \* update-pv-to-beta
    items,         \* its list of PVs: those it has not come to
    since,         \* what happened to each PV since the tool listed them
    updateFailed   \* its result

provisionerVars == <<config, nodeSelector>>
toolVars == <<tool, items, updateFailed>>
vars == <<provisionerVars, pvs, mounted, dirty, toolVars, since>>

PV == [phase : {"Available", "Released"}, path : HostVolumes, capacity : Nat,
       annotation : SUBSET (Terms \cup {HostTerm}), affinity : SUBSET (Terms \cup {HostTerm})]
NoPV == [phase |-> "None", path |-> Unset, capacity |-> 0, annotation |-> {}, affinity |-> {}]

\* A process that could not load its configuration ends.
NotLoaded == [useAlphaAPI |-> FALSE, useJob |-> FALSE, classes |-> <<>>]

\* What a loaded configuration has of a class.
Loaded(mc) ==
    /\ mc.volumeMode \in {"Block", "Filesystem"} /\ mc.blockCleanerCommand \in {"default", "given"}
    /\ mc.selector \subseteq Terms

TypeOK ==
    /\ \A k \in DOMAIN config.classes : k \in Classes /\ Loaded(config.classes[k])
    /\ nodeSelector \subseteq Terms \cup {HostTerm}
    /\ pvs \in [PVNames -> PV \cup {NoPV}]
    /\ mounted \subseteq HostVolumes
    /\ dirty \subseteq HostVolumes
    /\ tool \in {"idle", "updating", "succeeded", "failed"}
    /\ items \in [PVNames -> PV \cup {NoPV}]
    /\ since \in [PVNames -> {"unchanged", "written", "gone"}]
    /\ updateFailed \in BOOLEAN

NoItems == [n \in PVNames |-> NoPV]

Init ==
    /\ config = NotLoaded
    /\ nodeSelector = {HostTerm}
    /\ pvs = [n \in PVNames |-> NoPV]
    /\ mounted = {}
    /\ dirty = {}
    /\ tool = "idle"
    /\ items = NoItems
    /\ since = [n \in PVNames |-> "gone"]
    /\ updateFailed = FALSE

PutPV(n, pv) ==
    /\ pvs' = [pvs EXCEPT ![n] = pv]
    /\ since' = [since EXCEPT ![n] = IF pv = NoPV \/ @ = "gone" THEN "gone" ELSE "written"]

-----------------------------------------------------------------------------
(* Paths.                                                                  *)

\* filepath.Rel: up from base as far as the two differ, and down to target.
Rel(base, target) ==
    LET common == Len(LongestCommonPrefix({base, target}))
    IN  [up |-> Len(base) - common, down |-> SubSeq(target, common + 1, Len(target))]

\* filepath.Join, which resolves "..", at the root to the root.
Join(dir, rel) ==
    LET kept == Len(dir) - rel.up
    IN  (IF kept > 0 THEN SubSeq(dir, 1, kept) ELSE <<>>) \o rel.down

GetContainerPath(pv, mc) == Join(mc.mountDir, Rel(mc.hostDir, pv.path))

\* Mutant: no check.
HasPrefix_Always(path, dir) == TRUE

\* strings.HasPrefix(path, dir), by characters and not by elements.
HasPrefix(path, dir) ==
    \/ IsPrefix(dir, path)
    \/ /\ Len(dir) <= Len(path) /\ dir # <<>>
       /\ IsPrefix(Front(dir), path)
       /\ <<Last(dir), path[Len(dir)]>> \in NamePrefix

\* The host path behind a path in a container with the mounts of some classes.
Behind(path, classes) ==
    {config.classes[k].hostDir \o SubSeq(path, Len(config.classes[k].mountDir) + 1, Len(path)) :
         k \in {k \in classes : IsPrefix(config.classes[k].mountDir, path)}}

-----------------------------------------------------------------------------
(* Configuration.                                                          *)

\* The errors of ConfigMapDataToVolumeConfig.
ValidMountConfig(mc) ==
    /\ mc.blockCleanerCommand # "empty"
    /\ mc.mountDir # Unset /\ mc.hostDir # Unset
    /\ mc.volumeMode \in {"", "Block", "Filesystem"}

WithDefaults(mc) ==
    [mc EXCEPT !.blockCleanerCommand = IF @ = "nil" THEN "default" ELSE @,
               !.volumeMode = IF @ = "" THEN "Filesystem" ELSE @,
               !.namePattern = IF @ = {} THEN Files ELSE @]

\* A ConfigMap and a pod template are applied, and the pod starts with them:
\* LoadProvisionerConfigs, UserConfigFromProvisionerConfig, NewDiscoverer.
Deploy(d) ==
    /\ config' = IF \A k \in DOMAIN d.classes : ValidMountConfig(d.classes[k])
                 THEN [useAlphaAPI |-> d.useAlphaAPI, useJob |-> d.useJob,
                       classes |-> [k \in DOMAIN d.classes |-> WithDefaults(d.classes[k])]]
                 ELSE NotLoaded
    /\ nodeSelector' = {HostTerm}
    /\ UNCHANGED <<pvs, mounted, dirty, toolVars, since>>

-----------------------------------------------------------------------------
(* Discovery.                                                              *)

\* Mutant: a unit is enough when there is one of it.
RoundDownCapacityPretty_One(bytes) ==
    IF bytes \div GiB >= 1 THEN (bytes \div GiB) * GiB
    ELSE IF bytes \div MiB >= 1 THEN (bytes \div MiB) * MiB
    ELSE bytes

RoundDownCapacityPretty(bytes) ==
    IF bytes \div GiB >= 10 THEN (bytes \div GiB) * GiB
    ELSE IF bytes \div MiB >= 10 THEN (bytes \div MiB) * MiB
    ELSE bytes

\* GetVolumeMode, for a path that exists.
GetVolumeMode(path) == IF path \in DeviceAt THEN "Block" ELSE "Filesystem"

IsLikelyMountPoint(path) == path \in mounted

\* GetBlockCapacityByte and GetFsCapacityByte.
CapacityByte(path) ==
    IF GetVolumeMode(path) = "Block" \/ path \in mounted THEN BytesOf[path] ELSE RootBytes

\* What discoverVolumesAtPath asks before createPV.
Discoverable(k, file) ==
    LET mc == config.classes[k]
        outsidePath == Append(mc.hostDir, file)
    IN  /\ outsidePath \in HostVolumes /\ file \in mc.namePattern
        /\ pvs[<<k, file>>] = NoPV
        /\ \A n \in PVNames : pvs[n].path # outsidePath
        /\ GetVolumeMode(outsidePath) = "Filesystem"
               => mc.volumeMode # "Block" /\ IsLikelyMountPoint(outsidePath)

\* CreateLocalPVSpec: the affinity is an annotation in the alpha API.
LocalPVSpec(path, selector) ==
    [phase |-> "Available", path |-> path,
     capacity |-> RoundDownCapacityPretty(CapacityByte(path)),
     annotation |-> IF config.useAlphaAPI THEN selector ELSE {},
     affinity |-> IF config.useAlphaAPI THEN {} ELSE selector]

\* Mutant: the class's terms are appended to those of the Discoverer.
CreatePV_Appends(k, file) ==
    /\ k \in DOMAIN config.classes /\ Discoverable(k, file)
    /\ nodeSelector' = nodeSelector \cup config.classes[k].selector
    /\ PutPV(<<k, file>>, LocalPVSpec(Append(config.classes[k].hostDir, file), nodeSelector'))
    /\ UNCHANGED <<config, mounted, dirty, toolVars>>

CreatePV(k, file) ==
    /\ k \in DOMAIN config.classes /\ Discoverable(k, file)
    /\ LET mc == config.classes[k]
       IN  PutPV(<<k, file>>, LocalPVSpec(Append(mc.hostDir, file), nodeSelector \cup mc.selector))
    /\ UNCHANGED <<provisionerVars, mounted, dirty, toolVars>>

-----------------------------------------------------------------------------
(* The cluster.                                                            *)

\* A claim is bound, writes to the volume and is deleted.  Pods that start
\* where nothing is mounted are left out.
UseAndRelease(n) ==
    /\ pvs[n].phase = "Available" /\ pvs[n].path \in mounted \cup DeviceAt
    /\ PutPV(n, [pvs[n] EXCEPT !.phase = "Released"])
    /\ dirty' = dirty \cup {pvs[n].path}
    /\ UNCHANGED <<provisionerVars, mounted, toolVars>>

Mount(path) ==
    /\ path \notin mounted \cup DeviceAt
    /\ mounted' = mounted \cup {path}
    /\ UNCHANGED <<provisionerVars, pvs, dirty, toolVars, since>>

Unmount(path) ==
    /\ path \in mounted
    /\ path \in dirty => "unmountUsed" \in Faults
    /\ mounted' = mounted \ {path}
    /\ UNCHANGED <<provisionerVars, pvs, dirty, toolVars, since>>

-----------------------------------------------------------------------------
(* Deletion.                                                               *)

\* deletePV and what it starts: the path is mapped into the container, the
\* volume there is cleaned and the PV deleted.  A Job sees only the mount of
\* the PV's class, and cleanPV's check of the path is not made for it.  In a
\* directory where nothing is mounted there is nothing to delete.
DeletePV(n) ==
    LET k == n[1]
        mc == config.classes[k]
        mountPath == GetContainerPath(pvs[n], mc)
    IN  /\ pvs[n].phase = "Released"
        /\ k \in DOMAIN config.classes
        /\ \E path \in Behind(mountPath, DOMAIN config.classes) \cap HostVolumes :
               /\ IF GetVolumeMode(path) = "Block" /\ config.useJob
                  THEN path \in Behind(mountPath, {k})
                  ELSE HasPrefix(mountPath, mc.mountDir)
               /\ dirty' = IF path \in mounted \cup DeviceAt THEN dirty \ {path} ELSE dirty
        /\ PutPV(n, NoPV)
        /\ UNCHANGED <<provisionerVars, mounted, toolVars>>

-----------------------------------------------------------------------------
(* update-pv-to-beta.                                                      *)

\* List.
ToolLists ==
    /\ tool = "idle"
    /\ tool' = "updating"
    /\ items' = pvs
    /\ since' = [n \in PVNames |-> IF pvs[n] = NoPV THEN "gone" ELSE "unchanged"]
    /\ updateFailed' = FALSE
    /\ UNCHANGED <<provisionerVars, pvs, mounted, dirty>>

\* An error is logged, the list is empty, and that is a success.
ToolListFails ==
    /\ tool = "idle" /\ "listErrors" \in Faults
    /\ tool' = "succeeded"
    /\ items' = NoItems
    /\ since' = [n \in PVNames |-> "gone"]
    /\ UNCHANGED <<provisionerVars, pvs, mounted, dirty, updateFailed>>

\* Mutant: the annotation is left.
CloneAndUpdatePV_KeepsAnnotation(pv) == [pv EXCEPT !.affinity = pv.annotation]

CloneAndUpdatePV(pv) == [pv EXCEPT !.annotation = {}, !.affinity = pv.annotation]

\* Mutant: a conflict is passed over like a PV that is not found.
Conflicts_PassedOver(n) == FALSE

\* The update carries the version of the PV that was listed.
Conflicts(n) == items[n].annotation # {} /\ since[n] # "unchanged" /\ pvs[n] # NoPV

\* updateLocalPVAlphaAnn: a PV that is not found is left out, and one that
\* is not annotated is not touched.
ToolUpdates(n) ==
    /\ tool = "updating" /\ items[n] # NoPV
    /\ items' = [items EXCEPT ![n] = NoPV]
    /\ IF items[n].annotation # {} /\ since[n] = "unchanged"
       THEN pvs' = [pvs EXCEPT ![n] = CloneAndUpdatePV(items[n])]
       ELSE UNCHANGED pvs
    /\ updateFailed' = (updateFailed \/ Conflicts(n))
    /\ UNCHANGED <<provisionerVars, mounted, dirty, tool, since>>

ToolUpdateFails(n) ==
    /\ tool = "updating" /\ items[n].annotation # {} /\ "updateErrors" \in Faults
    /\ items' = [items EXCEPT ![n] = NoPV]
    /\ updateFailed' = TRUE
    /\ UNCHANGED <<provisionerVars, pvs, mounted, dirty, tool, since>>

\* TooManyRequests.
ToolIsThrottled(n) ==
    /\ tool = "updating" /\ items[n].annotation # {} /\ "updateErrors" \in Faults
    /\ tool' = "failed" /\ items' = NoItems
    /\ UNCHANGED <<provisionerVars, pvs, mounted, dirty, updateFailed, since>>

ToolEnds ==
    /\ tool = "updating" /\ items = NoItems
    /\ tool' = IF updateFailed THEN "failed" ELSE "succeeded"
    /\ UNCHANGED <<provisionerVars, pvs, mounted, dirty, items, updateFailed, since>>

\* The Job restarts a tool that failed; an administrator may run it again.
ToolStarts ==
    /\ tool \in {"failed", "succeeded"}
    /\ tool' = "idle"
    /\ UNCHANGED <<provisionerVars, pvs, mounted, dirty, items, updateFailed, since>>

-----------------------------------------------------------------------------
Tool ==
    \/ ToolLists \/ ToolListFails \/ ToolEnds \/ ToolStarts
    \/ \E n \in PVNames : ToolUpdates(n) \/ ToolUpdateFails(n) \/ ToolIsThrottled(n)

Next ==
    \/ \E d \in Deployments : Deploy(d)
    \/ \E k \in Classes, file \in Files : CreatePV(k, file)
    \/ \E n \in PVNames : UseAndRelease(n) \/ DeletePV(n)
    \/ \E path \in HostVolumes : Mount(path) \/ Unmount(path)
    \/ Tool

Spec == Init /\ [][Next]_vars

-----------------------------------------------------------------------------
(* Properties.                                                             *)

\* A volume on offer has no data of a former claim (deletePV, createPV),
\* although it was mounted elsewhere in the container since it was last used.
\* This is said of classes that keep their hostDir, and of the deployments of
\* MCVolumeObjects, which change it; not of every change of a hostDir.
OfferedWiped ==
    \A n \in PVNames : pvs[n].phase = "Available" => pvs[n].path \notin dirty

\* Only the volume at the path of the PV that is being deleted is wiped, also
\* when the mountDir of its class has changed since the PV was created
\* (GetContainerPath, cleanPV).  When the hostDir has changed, this is said of
\* the deployments of MCVolumeObjects only: names that are prefixes of others,
\* and a mountDir named like the old hostDir, lead to another volume.
WipesOwnVolume ==
    [][\A path \in dirty \ dirty' :
           \E n \in PVNames : pvs[n].path = path /\ pvs'[n] = NoPV]_vars

\* A PV promises no more than its own disk has, and less by a tenth at most
\* (roundDownCapacityPretty, and discovery's check for a mount point).
CapacityHonest ==
    \A n \in PVNames : pvs[n] # NoPV =>
        LET bytes == BytesOf[pvs[n].path]
        IN  pvs[n].capacity <= bytes /\ 10 * (bytes - pvs[n].capacity) <= bytes

\* A PV is bound to its node and to the terms of its own class, not to those
\* of a class that was discovered before it (createPV).
OwnSelector ==
    \A n \in PVNames : pvs[n] # NoPV =>
        LET terms == pvs[n].annotation \cup pvs[n].affinity
        IN  /\ HostTerm \in terms
            /\ \E d \in Deployments :
                   n[1] \in DOMAIN d.classes /\ terms = {HostTerm} \cup d.classes[n[1]].selector

\* A PV has its affinity in one place, the annotation or the spec, while the
\* tool works on PVs that are deleted, created anew and written to meanwhile
\* (CreateLocalPVSpec, cloneAndUpdatePV).
OneAffinity ==
    \A n \in PVNames : pvs[n] # NoPV => (pvs[n].annotation = {} <=> pvs[n].affinity # {})

\* When the tool reports success, the PVs that it listed and that are still
\* there have the beta form, although PVs were written to, deleted and
\* created meanwhile (startSwitchingLocalPVAlphaAnn).
SuccessMeansBeta ==
    tool = "succeeded" =>
        \A n \in PVNames : since[n] # "gone" => pvs[n].annotation = {}

\* What the tool knows of the PVs it has listed: an item it has not come to is
\* the PV as it is, or the PV was written to since, which will be a conflict;
\* and a PV it has come to has the beta form, or a failure is noted.
ToolInv ==
    /\ \A n \in PVNames : since[n] # "gone" => pvs[n] # NoPV
    /\ tool = "updating" =>
           \A n \in PVNames :
               /\ since[n] = "unchanged" /\ items[n] # NoPV => items[n] = pvs[n]
               /\ since[n] # "gone" /\ items[n].annotation = {}
                      => pvs[n].annotation = {} \/ updateFailed

\* The selectors of a loaded configuration are those that were deployed.
SelectorInv ==
    /\ nodeSelector = {HostTerm}
    /\ \A k \in DOMAIN config.classes :
           \E d \in Deployments :
               k \in DOMAIN d.classes /\ config.classes[k].selector = d.classes[k].selector

\* The inductive invariant behind what PVs promise and the tool reports.
ObjectsInv ==
    /\ TypeOK /\ SelectorInv /\ ToolInv
    /\ CapacityHonest /\ OwnSelector /\ OneAffinity /\ SuccessMeansBeta

\* Why a volume on offer is wiped: no two PVs are at the same path, and the
\* data of a former claim is at the path of a released PV, where it can be
\* reached (createPV's check of existing PVs, deletePV).
WipedInv ==
    /\ \A n, m \in PVNames :
           pvs[n] # NoPV /\ pvs[m] # NoPV /\ pvs[n].path = pvs[m].path => n = m
    /\ \A path \in dirty :
           /\ path \in mounted \cup DeviceAt
           /\ \E n \in PVNames : pvs[n].phase = "Released" /\ pvs[n].path = path
=============================================================================
