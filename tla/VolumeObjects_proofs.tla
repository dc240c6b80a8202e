------------------------ MODULE VolumeObjects_proofs ------------------------
(***************************************************************************)
(* Proofs about VolumeObjects, for every set of classes, files, paths,     *)
(* deployments and sizes, and for every size of the two units.             *)
(***************************************************************************)
EXTENDS VolumeObjects, TLAPS

-----------------------------------------------------------------------------
(* Capacity.                                                               *)

\* Rounding down to a unit of which there are ten loses a tenth at most.
LEMMA TenUnits ==
  ASSUME NEW u \in Nat \ {0}, NEW b \in Nat, b \div u >= 10
  PROVE  /\ (b \div u) * u \in Nat
         /\ (b \div u) * u <= b
         /\ 10 * (b - (b \div u) * u) <= b
<1> DEFINE q == b \div u
           r == b % u
<1>1. q \in Nat /\ r \in Nat /\ r < u /\ b = u * q + r
  BY SMT
<1>2. q >= 10
  OBVIOUS
<1> HIDE DEF q, r
<1> DEFINE p == u * q
<1>3. p \in Nat /\ p = q * u /\ p >= 10 * u
  <2>1. PICK t \in Nat : q = 10 + t
    <3> q - 10 \in Nat /\ q = 10 + (q - 10)
      BY <1>1, <1>2
    <3> QED
      OBVIOUS
  <2>2. u * q = u * 10 + u * t /\ u * t \in Nat
    BY <1>1, <2>1, SMT
  <2>3. q * u = u * q
    BY <1>1, SMT
  <2> QED
    BY <1>1, <2>2, <2>3
<1>4. b = p + r
  BY <1>1
<1> HIDE DEF p
<1>5. p <= b /\ 10 * (b - p) <= b
  BY <1>1, <1>3, <1>4
<1> QED
  BY <1>3, <1>5 DEF q

\* What a PV may promise of a volume of b bytes.
Honest(c, b) == c \in Nat /\ c <= b /\ 10 * (b - c) <= b

\* roundDownCapacityPretty is honest about every capacity.
LEMMA RoundingHonest ==
  ASSUME NEW b \in Nat
  PROVE  Honest(RoundDownCapacityPretty(b), b)
<1>1. CASE b \div GiB >= 10
  BY <1>1, TenUnits, VolumeObjectsAssumption DEF RoundDownCapacityPretty, Honest
<1>2. CASE ~(b \div GiB >= 10) /\ b \div MiB >= 10
  BY <1>2, TenUnits, VolumeObjectsAssumption DEF RoundDownCapacityPretty, Honest
<1>3. CASE ~(b \div GiB >= 10) /\ ~(b \div MiB >= 10)
  BY <1>3 DEF RoundDownCapacityPretty, Honest
<1> QED
  BY <1>1, <1>2, <1>3

-----------------------------------------------------------------------------
(* PVs.                                                                    *)

\* What the invariant says of one PV.
Good(n, pv) ==
    /\ pv \in PV
    /\ Honest(pv.capacity, BytesOf[pv.path])
    /\ HostTerm \in pv.annotation \cup pv.affinity
    /\ \E d \in Deployments :
           /\ n[1] \in DOMAIN d.classes
           /\ pv.annotation \cup pv.affinity = {HostTerm} \cup d.classes[n[1]].selector
    /\ pv.annotation = {} <=> pv.affinity # {}

\* Every PV on the API server is good.
AllGood == pvs \in [PVNames -> PV \cup {NoPV}] /\ \A n \in PVNames : pvs[n] # NoPV => Good(n, pvs[n])

\* The value for "no PV" is not a PV, and has no affinity and no path.
LEMMA NoPVIsNone == NoPV \notin PV /\ NoPV.annotation = {} /\ NoPV.path = Unset
  BY DEF NoPV, PV

\* The parts of the invariant that are about single PVs.
LEMMA GoodIsEnough ==
  ASSUME BytesOf \in [HostVolumes -> Nat]
  PROVE  AllGood <=> /\ pvs \in [PVNames -> PV \cup {NoPV}]
                     /\ CapacityHonest /\ OwnSelector /\ OneAffinity
<1>1. ASSUME NEW n \in PVNames, pvs \in [PVNames -> PV \cup {NoPV}], pvs[n] # NoPV
      PROVE  pvs[n] \in PV /\ pvs[n].capacity \in Nat
  BY <1>1 DEF PV
<1> QED
  BY <1>1 DEF AllGood, Good, Honest, CapacityHonest, OwnSelector, OneAffinity

\* createPV writes a good PV.
LEMMA CreatesGood ==
  ASSUME TypeOK, SelectorInv, NEW k \in DOMAIN config.classes, NEW file \in Files,
         Discoverable(k, file)
  PROVE  LET mc == config.classes[k]
         IN  /\ <<k, file>> \in PVNames /\ pvs[<<k, file>>] = NoPV
             /\ Good(<<k, file>>, LocalPVSpec(Append(mc.hostDir, file), nodeSelector \cup mc.selector))
<1> DEFINE mc == config.classes[k]
           path == Append(mc.hostDir, file)
           terms == nodeSelector \cup mc.selector
           spec == LocalPVSpec(path, terms)
<1>1. /\ <<k, file>> \in PVNames /\ pvs[<<k, file>>] = NoPV
      /\ path \in HostVolumes
      /\ path \in DeviceAt \/ path \in mounted
  BY DEF TypeOK, PVNames, Discoverable, GetVolumeMode, IsLikelyMountPoint
<1>2. /\ terms \subseteq Terms \cup {HostTerm} /\ HostTerm \in terms
      /\ \E d \in Deployments : k \in DOMAIN d.classes /\ terms = {HostTerm} \cup d.classes[k].selector
  BY DEF TypeOK, Loaded, SelectorInv
<1> HIDE DEF path, terms
<1>3. CapacityByte(path) = BytesOf[path] /\ BytesOf[path] \in Nat
  BY <1>1, VolumeObjectsAssumption DEF CapacityByte, GetVolumeMode
<1>4. Honest(RoundDownCapacityPretty(CapacityByte(path)), BytesOf[path])
  BY <1>3, RoundingHonest
<1>5. /\ spec.path = path /\ spec.phase = "Available"
      /\ spec.capacity = RoundDownCapacityPretty(CapacityByte(path))
      /\ \/ spec.annotation = terms /\ spec.affinity = {}
         \/ spec.annotation = {} /\ spec.affinity = terms
  BY DEF LocalPVSpec
<1>6. spec \in PV
  BY <1>1, <1>2, <1>4 DEF LocalPVSpec, PV, Honest
<1>7. Good(<<k, file>>, spec)
  BY <1>2, <1>4, <1>5, <1>6 DEF Good
<1> QED
  BY <1>1, <1>7 DEF path, terms

\* A step that writes one PV and keeps the rest keeps all of them good.
LEMMA WritesGood ==
  ASSUME AllGood, NEW n \in PVNames, NEW pv, pv = NoPV \/ Good(n, pv),
         pvs' = [pvs EXCEPT ![n] = pv]
  PROVE  AllGood'
  BY DEF AllGood, Good

-----------------------------------------------------------------------------
(* The invariant, with what it says of single PVs gathered in AllGood.     *)

Inv == TypeOK /\ SelectorInv /\ ToolInv /\ AllGood /\ SuccessMeansBeta

\* The form of ObjectsInv that the lemmas below preserve says the same.
LEMMA InvIsObjectsInv == Inv <=> ObjectsInv
  BY GoodIsEnough, VolumeObjectsAssumption DEF Inv, ObjectsInv, TypeOK

\* It holds before anything is deployed.
LEMMA InitInv == Init => Inv
<1> SUFFICES ASSUME Init PROVE Inv
  OBVIOUS
<1>1. pvs \in [PVNames -> PV \cup {NoPV}] /\ items \in [PVNames -> PV \cup {NoPV}]
  BY DEF Init, NoItems
<1>2. config.classes = <<>> /\ DOMAIN config.classes = {}
  BY DEF Init, NotLoaded
<1>3. TypeOK
  BY <1>1, <1>2 DEF Init, TypeOK
<1>4. SelectorInv
  BY <1>2 DEF Init, SelectorInv
<1>5. ToolInv /\ SuccessMeansBeta /\ AllGood
  BY <1>1 DEF Init, ToolInv, SuccessMeansBeta, AllGood
<1> QED
  BY <1>3, <1>4, <1>5 DEF Inv

\* A deployment changes the configuration only.
LEMMA DeployInv ==
  ASSUME Inv, NEW d \in Deployments, Deploy(d)
  PROVE  Inv'
<1>1. IsDeployment(d)
  BY VolumeObjectsAssumption
<1>2. /\ \A k \in DOMAIN config'.classes : k \in Classes /\ Loaded(config'.classes[k])
      /\ \A k \in DOMAIN config'.classes :
             k \in DOMAIN d.classes /\ config'.classes[k].selector = d.classes[k].selector
  <2>1. CASE \A k \in DOMAIN d.classes : ValidMountConfig(d.classes[k])
    <3>1. config'.classes = [k \in DOMAIN d.classes |-> WithDefaults(d.classes[k])]
      BY <2>1 DEF Deploy
    <3>2. ASSUME NEW k \in DOMAIN d.classes
          PROVE  /\ k \in Classes /\ Loaded(WithDefaults(d.classes[k]))
                 /\ WithDefaults(d.classes[k]).selector = d.classes[k].selector
      BY <1>1, <2>1 DEF IsDeployment, MountConfig, ValidMountConfig, WithDefaults, Loaded
    <3> QED
      BY <3>1, <3>2
  <2>2. CASE ~ \A k \in DOMAIN d.classes : ValidMountConfig(d.classes[k])
    <3>1. config'.classes = <<>> /\ DOMAIN config'.classes = {}
      BY <2>2 DEF Deploy, NotLoaded
    <3> QED
      BY <3>1
  <2> QED
    BY <2>1, <2>2
<1>3. TypeOK'
  BY <1>2 DEF Inv, TypeOK, Deploy, toolVars
<1>4. SelectorInv'
  BY <1>2 DEF SelectorInv, Deploy
<1>5. (ToolInv /\ AllGood /\ SuccessMeansBeta)'
  BY DEF Inv, Deploy, toolVars, ToolInv, AllGood, Good, SuccessMeansBeta
<1> QED
  BY <1>3, <1>4, <1>5 DEF Inv

\* A write to a PV by others than the tool: the object keeps the form of its
\* affinity, or there was none before, or there is none after.
LEMMA PutPVInv ==
  ASSUME Inv, NEW n \in PVNames, NEW pv, pv = NoPV \/ Good(n, pv), PutPV(n, pv),
         pv = NoPV \/ pvs[n] = NoPV \/ pv.annotation = pvs[n].annotation,
         dirty' \subseteq HostVolumes,
         UNCHANGED <<provisionerVars, mounted, toolVars>>
  PROVE  Inv'
<1>1. AllGood'
  BY WritesGood DEF Inv, PutPV
<1>2. /\ since' \in [PVNames -> {"unchanged", "written", "gone"}]
      /\ since'[n] \in {"written", "gone"}
      /\ since'[n] # "gone" => pv # NoPV /\ since[n] # "gone"
      /\ \A other \in PVNames \ {n} : since'[other] = since[other]
  BY DEF Inv, TypeOK, PutPV
<1>3. /\ pvs'[n] = pv
      /\ \A other \in PVNames \ {n} : pvs'[other] = pvs[other]
  BY DEF Inv, TypeOK, PutPV
<1>4. since'[n] # "gone" => pvs'[n] # NoPV /\ pvs'[n].annotation = pvs[n].annotation
  BY <1>2, <1>3 DEF Inv, ToolInv
<1>5. TypeOK' /\ SelectorInv'
  BY <1>1, <1>2 DEF Inv, TypeOK, SelectorInv, AllGood, provisionerVars, toolVars
<1>6. ToolInv' /\ SuccessMeansBeta'
  BY <1>2, <1>3, <1>4 DEF Inv, ToolInv, SuccessMeansBeta, toolVars
<1> QED
  BY <1>1, <1>5, <1>6 DEF Inv

\* createPV, the life of a claim and deletePV.
LEMMA VolumeStepInv ==
  ASSUME Inv
  PROVE  /\ \A k \in Classes, file \in Files : CreatePV(k, file) => Inv'
         /\ \A n \in PVNames : UseAndRelease(n) \/ DeletePV(n) => Inv'
         /\ \A path \in HostVolumes : Mount(path) \/ Unmount(path) => Inv'
<1>1. ASSUME NEW k \in Classes, NEW file \in Files, CreatePV(k, file) PROVE Inv'
  <2> DEFINE pv == LocalPVSpec(Append(config.classes[k].hostDir, file),
                               nodeSelector \cup config.classes[k].selector)
  <2>1. <<k, file>> \in PVNames /\ pvs[<<k, file>>] = NoPV /\ Good(<<k, file>>, pv)
    BY <1>1, CreatesGood DEF Inv, CreatePV
  <2>2. /\ PutPV(<<k, file>>, pv) /\ dirty' \subseteq HostVolumes
        /\ UNCHANGED <<provisionerVars, mounted, toolVars>>
    BY <1>1 DEF CreatePV, Inv, TypeOK
  <2> HIDE DEF pv
  <2> QED
    BY <2>1, <2>2, PutPVInv
<1>2. ASSUME NEW n \in PVNames, UseAndRelease(n) PROVE Inv'
  <2> DEFINE pv == [pvs[n] EXCEPT !.phase = "Released"]
  <2>1. pvs[n] # NoPV
    BY <1>2 DEF UseAndRelease, NoPV
  <2>2. pvs[n] \in PV /\ Good(n, pvs[n])
    BY <2>1 DEF Inv, AllGood, Good
  <2>3. /\ pv \in PV /\ pv.capacity = pvs[n].capacity /\ pv.path = pvs[n].path
        /\ pv.annotation = pvs[n].annotation /\ pv.affinity = pvs[n].affinity
    BY <2>2 DEF PV
  <2>4. /\ PutPV(n, pv) /\ dirty' \subseteq HostVolumes
        /\ UNCHANGED <<provisionerVars, mounted, toolVars>>
    BY <1>2, <2>2 DEF UseAndRelease, Inv, TypeOK, PV
  <2> HIDE DEF pv
  <2>5. Good(n, pv)
    BY <2>2, <2>3 DEF Good
  <2> QED
    BY <2>3, <2>4, <2>5, PutPVInv
<1>3. ASSUME NEW n \in PVNames, DeletePV(n) PROVE Inv'
  <2>1. /\ PutPV(n, NoPV) /\ dirty' \subseteq HostVolumes
        /\ UNCHANGED <<provisionerVars, mounted, toolVars>>
    BY <1>3 DEF DeletePV, Inv, TypeOK
  <2> QED
    BY <2>1, PutPVInv
<1>4. ASSUME NEW path \in HostVolumes, Mount(path) \/ Unmount(path) PROVE Inv'
  <2>1. /\ mounted' \subseteq HostVolumes
        /\ UNCHANGED <<config, nodeSelector, pvs, dirty, tool, items, updateFailed, since>>
    BY <1>4 DEF Mount, Unmount, Inv, TypeOK, provisionerVars, toolVars
  <2>2. TypeOK' /\ SelectorInv'
    BY <2>1 DEF Inv, TypeOK, SelectorInv
  <2>3. ToolInv' /\ SuccessMeansBeta'
    BY <2>1 DEF Inv, ToolInv, SuccessMeansBeta
  <2>4. AllGood'
    BY <2>1 DEF Inv, AllGood, Good
  <2> QED
    BY <2>2, <2>3, <2>4 DEF Inv
<1> QED
  BY <1>1, <1>2, <1>3, <1>4

\* A step of update-pv-to-beta keeps it: an item that was not written to since
\* it was listed is the PV itself, and a conflict makes the tool fail.
LEMMA ToolStepInv ==
  ASSUME Inv, Tool
  PROVE  Inv'
<1> USE DEF Inv
<1>0. NoItems \in [PVNames -> PV \cup {NoPV}]
  BY DEF NoItems
<1>1. CASE ToolLists
  <2>1. TypeOK' /\ SelectorInv' /\ AllGood' /\ SuccessMeansBeta'
    BY <1>1 DEF ToolLists, TypeOK, SelectorInv, AllGood, Good, SuccessMeansBeta, provisionerVars
  <2>2. ToolInv'
    BY <1>1 DEF ToolLists, ToolInv, TypeOK
  <2> QED
    BY <2>1, <2>2
<1>2. CASE ToolListFails
  BY <1>0, <1>2 DEF ToolListFails, TypeOK, SelectorInv, AllGood, Good, ToolInv, SuccessMeansBeta,
                    provisionerVars
<1>3. CASE ToolEnds
  <2>1. TypeOK' /\ SelectorInv' /\ AllGood'
    BY <1>3 DEF ToolEnds, TypeOK, SelectorInv, AllGood, Good, provisionerVars
  <2>2. ToolInv'
    BY <1>3 DEF ToolEnds, ToolInv
  <2>3. SuccessMeansBeta'
    <3> SUFFICES ASSUME tool' = "succeeded", NEW n \in PVNames, since'[n] # "gone"
                 PROVE  pvs'[n].annotation = {}
      BY DEF SuccessMeansBeta
    <3>1. tool = "updating" /\ ~updateFailed /\ since[n] # "gone" /\ items[n].annotation = {}
      BY <1>3, NoPVIsNone DEF ToolEnds, NoItems
    <3> QED
      BY <1>3, <3>1 DEF ToolEnds, ToolInv
  <2> QED
    BY <2>1, <2>2, <2>3
<1>4. CASE ToolStarts
  BY <1>4 DEF ToolStarts, TypeOK, SelectorInv, AllGood, Good, ToolInv, SuccessMeansBeta,
              provisionerVars
<1>5. ASSUME NEW n \in PVNames, ToolUpdates(n) PROVE Inv'
  <2>1. /\ items[n] \in PV /\ items' \in [PVNames -> PV \cup {NoPV}]
        /\ items'[n].annotation = {} /\ items'[n] = NoPV
        /\ \A other \in PVNames \ {n} : items'[other] = items[other]
    BY <1>5, NoPVIsNone DEF ToolUpdates, TypeOK
  <2>2. CASE items[n].annotation # {} /\ since[n] = "unchanged"
    <3> DEFINE pv == CloneAndUpdatePV(items[n])
    <3>1. items[n] = pvs[n] /\ Good(n, items[n])
      BY <1>5, <2>2 DEF ToolUpdates, ToolInv, AllGood
    <3>2. /\ pv \in PV /\ pv.annotation = {} /\ pv.affinity = items[n].annotation
          /\ pv.capacity = items[n].capacity /\ pv.path = items[n].path
      BY <2>1 DEF CloneAndUpdatePV, PV
    <3>3. /\ pvs' = [pvs EXCEPT ![n] = pv]
          /\ updateFailed => updateFailed'
      BY <1>5, <2>2 DEF ToolUpdates
    <3> HIDE DEF pv
    <3>4. Good(n, pv)
      BY <2>2, <3>1, <3>2 DEF Good
    <3>5. AllGood'
      BY <3>3, <3>4, WritesGood
    <3>6. /\ pvs'[n] = pv /\ pvs'[n] # NoPV
          /\ \A other \in PVNames \ {n} : pvs'[other] = pvs[other]
      BY <3>2, <3>3, NoPVIsNone DEF TypeOK
    <3>7. TypeOK' /\ SelectorInv'
      BY <1>5, <2>1, <3>5 DEF ToolUpdates, TypeOK, AllGood, SelectorInv, provisionerVars
    <3>8. ToolInv' /\ SuccessMeansBeta'
      BY <1>5, <2>1, <3>2, <3>3, <3>6 DEF ToolUpdates, ToolInv, SuccessMeansBeta
    <3> QED
      BY <3>5, <3>7, <3>8
  <2>3. CASE ~(items[n].annotation # {} /\ since[n] = "unchanged")
    <3>1. /\ pvs' = pvs /\ tool = "updating" /\ tool' = "updating" /\ since' = since
          /\ updateFailed => updateFailed'
          /\ items[n].annotation # {} /\ since[n] # "gone" => updateFailed'
      BY <1>5, <2>3 DEF ToolUpdates, Conflicts, ToolInv
    <3>2. TypeOK' /\ SelectorInv' /\ AllGood' /\ SuccessMeansBeta'
      BY <1>5, <2>1, <3>1 DEF ToolUpdates, TypeOK, SelectorInv, AllGood, Good, SuccessMeansBeta,
                              provisionerVars
    <3>3. ToolInv'
      BY <2>1, <3>1 DEF ToolInv
    <3> QED
      BY <3>2, <3>3
  <2> QED
    BY <2>2, <2>3
<1>6. ASSUME NEW n \in PVNames, ToolUpdateFails(n) PROVE Inv'
  <2>1. /\ items' \in [PVNames -> PV \cup {NoPV}] /\ items'[n] = NoPV
        /\ \A other \in PVNames \ {n} : items'[other] = items[other]
    BY <1>6 DEF ToolUpdateFails, TypeOK
  <2>2. TypeOK' /\ SelectorInv' /\ AllGood' /\ SuccessMeansBeta'
    BY <1>6, <2>1 DEF ToolUpdateFails, TypeOK, SelectorInv, AllGood, Good, SuccessMeansBeta,
                      provisionerVars
  <2>3. ToolInv'
    BY <1>6, <2>1 DEF ToolUpdateFails, ToolInv
  <2> QED
    BY <2>2, <2>3
<1>7. ASSUME NEW n \in PVNames, ToolIsThrottled(n) PROVE Inv'
  BY <1>0, <1>7 DEF ToolIsThrottled, TypeOK, SelectorInv, AllGood, Good, ToolInv, SuccessMeansBeta,
                    provisionerVars
<1> QED
  BY <1>1, <1>2, <1>3, <1>4, <1>5, <1>6, <1>7 DEF Tool

-----------------------------------------------------------------------------
(* The theorems.                                                           *)

\* The invariant is inductive, whatever is deployed and whatever fails.
THEOREM ObjectsInvariant == Spec => []ObjectsInv
<1>1. Init => ObjectsInv
  BY InitInv, InvIsObjectsInv
<1>2. Inv /\ [Next]_vars => Inv'
  <2> SUFFICES ASSUME Inv, [Next]_vars PROVE Inv'
    OBVIOUS
  <2>1. CASE UNCHANGED vars
    BY <2>1 DEF vars, provisionerVars, toolVars, Inv, TypeOK, SelectorInv, ToolInv, AllGood, Good,
                SuccessMeansBeta
  <2>2. CASE Next
    BY <2>2, DeployInv, VolumeStepInv, ToolStepInv DEF Next
  <2> QED
    BY <2>1, <2>2
<1>3. ObjectsInv /\ [Next]_vars => ObjectsInv'
  <2>1. (Inv <=> ObjectsInv) /\ (Inv' <=> ObjectsInv')
    BY InvIsObjectsInv, PTL
  <2> QED
    BY <1>2, <2>1
<1> QED
  BY <1>1, <1>3, PTL DEF Spec

\* A PV never promises more than its disk has, nor less by more than a tenth
\* (roundDownCapacityPretty, createPV).
THEOREM CapacityIsHonest == Spec => []CapacityHonest
<1>1. ObjectsInv => CapacityHonest
  BY DEF ObjectsInv
<1> QED
  BY <1>1, ObjectsInvariant, PTL

\* Every variable keeps its type; in particular, no deployment loads a volume
\* mode or a cleaner command that ConfigMapDataToVolumeConfig refuses.
THEOREM TypeCorrect == Spec => []TypeOK
<1>1. ObjectsInv => TypeOK
  BY DEF ObjectsInv
<1> QED
  BY <1>1, ObjectsInvariant, PTL

\* A PV has the terms of its node and its own class (createPV).
THEOREM SelectorIsOwn == Spec => []OwnSelector
<1>1. ObjectsInv => OwnSelector
  BY DEF ObjectsInv
<1> QED
  BY <1>1, ObjectsInvariant, PTL

\* A PV has its affinity in one place (CreateLocalPVSpec, cloneAndUpdatePV).
THEOREM AffinityIsInOnePlace == Spec => []OneAffinity
<1>1. ObjectsInv => OneAffinity
  BY DEF ObjectsInv
<1> QED
  BY <1>1, ObjectsInvariant, PTL

\* When update-pv-to-beta reports success, no PV it listed and that is still
\* there has the alpha form (startSwitchingLocalPVAlphaAnn).
THEOREM ToolReportsTruly == Spec => []SuccessMeansBeta
<1>1. ObjectsInv => SuccessMeansBeta
  BY DEF ObjectsInv
<1> QED
  BY <1>1, ObjectsInvariant, PTL

-----------------------------------------------------------------------------
(* Paths.                                                                  *)

\* An entry of a directory has the directory in common with it.
LEMMA CommonPart ==
  ASSUME NEW S, NEW h \in Seq(S), NEW f \in S
  PROVE  Len(LongestCommonPrefix({h, Append(h, f)})) = Len(h)
<1> DEFINE t == Append(h, f)
           C == CommonPrefixes({h, t})
<1>1. t \in Seq(S) /\ Len(t) = Len(h) + 1 /\ \A i \in 1..Len(h) : t[i] = h[i]
  OBVIOUS
<1>2. SubSeq(h, 1, Len(h)) = h /\ SubSeq(t, 1, Len(h)) = h
  BY <1>1
<1>3. h \in C
  <2>1. h \in Prefixes(h)
    <3>1. Len(h) \in 0..Len(h)
      OBVIOUS
    <3> QED
      BY <1>2, <3>1 DEF Prefixes
  <2>2. IsPrefix(h, h) /\ IsPrefix(h, t)
    BY <1>1, <1>2 DEF IsPrefix
  <2> QED
    BY <2>1, <2>2 DEF CommonPrefixes
<1>4. \A p \in C : Len(p) <= Len(h)
  BY DEF CommonPrefixes, IsPrefix
<1>5. \A p \in C : Len(p) \in Int
  <2>1. \A p \in C : p \in Prefixes(h) \/ p \in Prefixes(t)
    BY DEF CommonPrefixes
  <2>2. \A p \in Prefixes(h) \cup Prefixes(t) : p \in Seq(S)
    BY <1>1 DEF Prefixes
  <2> QED
    BY <2>1, <2>2
<1> DEFINE L == LongestCommonPrefix({h, t})
<1>6. L \in C /\ \A p \in C : Len(p) <= Len(L)
  <2> HIDE DEF C
  <2>1. \E l \in C : \A p \in C : Len(p) <= Len(l)
    BY <1>3, <1>4
  <2>2. L = CHOOSE l \in C : \A p \in C : Len(p) <= Len(l)
    BY DEF LongestCommonPrefix, C
  <2> HIDE DEF L
  <2> QED
    BY <2>1, <2>2
<1> HIDE DEF C, L
<1>7. Len(L) = Len(h)
  BY <1>3, <1>4, <1>5, <1>6
<1> QED
  BY <1>7 DEF L

\* What follows the directory in the path of its entry.
LEMMA LastOfEntry ==
  ASSUME NEW S, NEW h \in Seq(S), NEW f \in S
  PROVE  SubSeq(Append(h, f), Len(h) + 1, Len(Append(h, f))) = <<f>>
<1> DEFINE t == Append(h, f)
           one == SubSeq(t, Len(h) + 1, Len(h) + 1)
<1>1. t \in Seq(S) /\ Len(t) = Len(h) + 1 /\ t[Len(h) + 1] = f
  OBVIOUS
<1> HIDE DEF t
<1>2. one \in Seq(S) /\ Len(one) = 1 /\ one[1] = f
  BY <1>1
<1>3. SubSeq(t, Len(h) + 1, Len(t)) = one
  BY <1>1
<1> HIDE DEF one
<1>4. one = <<one[1]>>
  BY <1>2
<1> QED
  BY <1>2, <1>3, <1>4 DEF t

\* An entry of hostDir is the entry of that name of mountDir.
LEMMA EntryOfMount ==
  ASSUME NEW S, NEW h \in Seq(S), NEW m \in Seq(S), NEW f \in S
  PROVE  Join(m, Rel(h, Append(h, f))) = Append(m, f)
<1> DEFINE t == Append(h, f)
           r == Rel(h, t)
<1>1. r.up = 0 /\ r.down = SubSeq(t, Len(h) + 1, Len(t))
  <2>1. Len(LongestCommonPrefix({h, t})) = Len(h)
    BY CommonPart
  <2>2. Len(h) - Len(h) = 0
    OBVIOUS
  <2> QED
    BY <2>1, <2>2 DEF Rel
<1>2. r.down = <<f>>
  BY <1>1, LastOfEntry
<1> HIDE DEF r
<1>3. (IF Len(m) - 0 > 0 THEN SubSeq(m, 1, Len(m) - 0) ELSE <<>>) = m
  <2>1. SubSeq(m, 1, Len(m)) = m /\ (Len(m) = 0 => m = <<>>) /\ Len(m) \in Nat
    OBVIOUS
  <2> QED
    BY <2>1
<1>4. Join(m, r) = m \o <<f>>
  BY <1>1, <1>2, <1>3 DEF Join
<1>5. m \o <<f>> = Append(m, f)
  OBVIOUS
<1> QED
  BY <1>4, <1>5 DEF r

\* A directory that holds an entry of m is m, or above m, or the entry itself.
LEMMA PrefixOfEntry ==
  ASSUME NEW S, NEW l \in Seq(S), NEW m \in Seq(S), NEW f \in S, IsPrefix(l, Append(m, f))
  PROVE  IsPrefix(l, m) \/ IsPrefix(m, l)
<1> DEFINE t == Append(m, f)
<1>1. t \in Seq(S) /\ Len(t) = Len(m) + 1 /\ \A i \in 1..Len(m) : t[i] = m[i]
  OBVIOUS
<1> HIDE DEF t
<1>2. Len(l) <= Len(m) + 1 /\ \A i \in 1..Len(l) : l[i] = t[i]
  <2>1. Len(l) <= Len(t) /\ SubSeq(l, 1, Len(l)) = SubSeq(t, 1, Len(l))
    BY DEF IsPrefix, t
  <2>2. \A i \in 1..Len(l) : SubSeq(l, 1, Len(l))[i] = l[i] /\ SubSeq(t, 1, Len(l))[i] = t[i]
    BY <1>1, <2>1
  <2> QED
    BY <1>1, <2>1, <2>2
<1>3. CASE Len(l) <= Len(m)
  <2>1. \A i \in 1..Len(l) : l[i] = m[i]
    BY <1>1, <1>2, <1>3
  <2>2. SubSeq(l, 1, Len(l)) = SubSeq(m, 1, Len(l))
    BY <1>3, <2>1
  <2> QED
    BY <1>3, <2>2 DEF IsPrefix
<1>4. CASE Len(l) > Len(m)
  <2>1. \A i \in 1..Len(m) : l[i] = m[i]
    BY <1>1, <1>2, <1>4
  <2>2. SubSeq(m, 1, Len(m)) = SubSeq(l, 1, Len(m))
    BY <1>4, <2>1
  <2> QED
    BY <1>4, <2>2 DEF IsPrefix
<1> QED
  BY <1>3, <1>4

-----------------------------------------------------------------------------
(* Whose volume is wiped.  A class may get another mountDir, but keeps its *)
(* hostDir: the path of a PV outlives the configuration, and relative to a *)
(* new hostDir it may lead to another volume's mount.  And no mountDir of  *)
(* a deployment lies in another.                                           *)

StableHostDirs ==
    \A d, e \in Deployments : \A k \in DOMAIN d.classes \cap DOMAIN e.classes :
        d.classes[k].hostDir = e.classes[k].hostDir

DisjointMounts ==
    \A d \in Deployments : \A j, k \in DOMAIN d.classes :
        j # k => ~IsPrefix(d.classes[j].mountDir, d.classes[k].mountDir)

\* The directories of a loaded configuration are those of a deployment.
DeployedInv ==
    \/ DOMAIN config.classes = {}
    \/ \E d \in Deployments :
           /\ DOMAIN config.classes = DOMAIN d.classes
           /\ \A k \in DOMAIN d.classes : /\ config.classes[k].hostDir = d.classes[k].hostDir
                                          /\ config.classes[k].mountDir = d.classes[k].mountDir

\* A PV is at the path of its file in the directory of its class.
PathsInv ==
    \A n \in PVNames : \A d \in Deployments :
        pvs[n] # NoPV /\ n[1] \in DOMAIN d.classes
            => pvs[n].path = Append(d.classes[n[1]].hostDir, n[2])

\* Loading adds defaults and keeps the directories.
LEMMA DeployedKept ==
  ASSUME DeployedInv, [Next]_vars
  PROVE  DeployedInv'
<1>1. ASSUME NEW d \in Deployments, Deploy(d) PROVE DeployedInv'
  <2>1. CASE config' = NotLoaded
    <3>1. DOMAIN config'.classes = {}
      BY <2>1 DEF NotLoaded
    <3> QED
      BY <3>1 DEF DeployedInv
  <2>2. CASE config' = [useAlphaAPI |-> d.useAlphaAPI, useJob |-> d.useJob,
                        classes |-> [k \in DOMAIN d.classes |-> WithDefaults(d.classes[k])]]
    <3>1. /\ DOMAIN config'.classes = DOMAIN d.classes
          /\ \A k \in DOMAIN d.classes : config'.classes[k] = WithDefaults(d.classes[k])
      BY <2>2
    <3>2. ASSUME NEW mc \in MountConfig
          PROVE  WithDefaults(mc).hostDir = mc.hostDir /\ WithDefaults(mc).mountDir = mc.mountDir
      BY DEF WithDefaults, MountConfig
    <3>3. \A k \in DOMAIN d.classes : d.classes[k] \in MountConfig
      BY VolumeObjectsAssumption DEF IsDeployment
    <3> QED
      BY <3>1, <3>2, <3>3 DEF DeployedInv
  <2> QED
    BY <1>1, <2>1, <2>2 DEF Deploy
<1>2. CASE UNCHANGED config
  BY <1>2 DEF DeployedInv
<1>3. UNCHANGED config \/ \E d \in Deployments : Deploy(d)
  BY DEF Next, CreatePV, UseAndRelease, DeletePV, Mount, Unmount, Tool, ToolLists, ToolListFails,
         ToolEnds, ToolStarts, ToolUpdates, ToolUpdateFails, ToolIsThrottled, provisionerVars, vars
<1> QED
  BY <1>1, <1>2, <1>3

\* deletePV reaches no volume but the one at the path of the PV.
LEMMA DeletesOwn ==
  ASSUME StableHostDirs, DisjointMounts, DeployedInv, PathsInv, NEW n \in PVNames, DeletePV(n)
  PROVE  /\ pvs[n].phase = "Released" /\ PutPV(n, NoPV) /\ UNCHANGED mounted
         /\ dirty' = IF pvs[n].path \in mounted \cup DeviceAt THEN dirty \ {pvs[n].path} ELSE dirty
<1> DEFINE k == n[1]
           f == n[2]
           mc == config.classes[k]
           S == STRING \cup Files
           mountPath == GetContainerPath(pvs[n], mc)
<1>1. /\ pvs[n].phase = "Released" /\ k \in DOMAIN config.classes /\ PutPV(n, NoPV)
      /\ UNCHANGED mounted
      /\ \E path \in Behind(mountPath, DOMAIN config.classes) :
             dirty' = IF path \in mounted \cup DeviceAt THEN dirty \ {path} ELSE dirty
  BY DEF DeletePV
<1>2. PICK d \in Deployments :
        /\ DOMAIN config.classes = DOMAIN d.classes
        /\ \A j \in DOMAIN d.classes : /\ config.classes[j].hostDir = d.classes[j].hostDir
                                       /\ config.classes[j].mountDir = d.classes[j].mountDir
  BY <1>1 DEF DeployedInv
<1>3. f \in S /\ \A j \in DOMAIN d.classes :
                    config.classes[j].hostDir \in Seq(S) /\ config.classes[j].mountDir \in Seq(S)
  <2>1. \A j \in DOMAIN d.classes : d.classes[j].hostDir \in Seq(STRING) /\ d.classes[j].mountDir \in Seq(STRING)
    BY VolumeObjectsAssumption DEF IsDeployment, MountConfig
  <2>2. Seq(STRING) \subseteq Seq(S)
    OBVIOUS
  <2>3. f \in Files
    BY DEF PVNames
  <2> QED
    BY <1>2, <2>1, <2>2, <2>3
<1>4. pvs[n].path = Append(mc.hostDir, f)
  <2>1. pvs[n] # NoPV
    BY <1>1 DEF NoPV
  <2> QED
    BY <1>1, <1>2, <2>1 DEF PathsInv
<1>5. mountPath = Append(mc.mountDir, f)
  <2> HIDE DEF S
  <2>1. Join(mc.mountDir, Rel(mc.hostDir, Append(mc.hostDir, f))) = Append(mc.mountDir, f)
    <3>1. mc.hostDir \in Seq(S) /\ mc.mountDir \in Seq(S) /\ f \in S
      BY <1>1, <1>2, <1>3
    <3> HIDE DEF mc, f
    <3> QED
      BY <3>1, EntryOfMount, Zenon
  <2> QED
    BY <1>4, <2>1 DEF GetContainerPath
<1>6. ASSUME NEW j \in DOMAIN config.classes, IsPrefix(config.classes[j].mountDir, mountPath)
      PROVE  j = k
  <2> HIDE DEF S
  <2>1. \/ IsPrefix(config.classes[j].mountDir, mc.mountDir)
        \/ IsPrefix(mc.mountDir, config.classes[j].mountDir)
    <3>1. /\ config.classes[j].mountDir \in Seq(S) /\ mc.mountDir \in Seq(S) /\ f \in S
          /\ IsPrefix(config.classes[j].mountDir, Append(mc.mountDir, f))
      BY <1>1, <1>2, <1>3, <1>5, <1>6
    <3> HIDE DEF mc, f
    <3> QED
      BY <3>1, PrefixOfEntry, Zenon
  <2> QED
    BY <1>1, <1>2, <2>1 DEF DisjointMounts
<1>7. mc.hostDir \o SubSeq(mountPath, Len(mc.mountDir) + 1, Len(mountPath)) = pvs[n].path
  <2> DEFINE h == mc.hostDir
             m == mc.mountDir
             t == Append(m, f)
  <2>1. h \in Seq(S) /\ m \in Seq(S)
    BY <1>1, <1>2, <1>3
  <2> HIDE DEF S, h, m
  <2>2. SubSeq(t, Len(m) + 1, Len(t)) = <<f>>
    BY <1>3, <2>1, LastOfEntry
  <2>3. h \o <<f>> = Append(h, f)
    BY <1>3, <2>1
  <2> QED
    BY <1>4, <1>5, <2>2, <2>3 DEF h, m
<1>8. \A path \in Behind(mountPath, DOMAIN config.classes) : path = pvs[n].path
  <2> HIDE DEF mountPath
  <2> QED
    BY <1>6, <1>7 DEF Behind
<1> QED
  BY <1>1, <1>8

\* The tool writes a PV back as it is, but for the affinity.
LEMMA ToolKeepsPlace ==
  ASSUME ObjectsInv, NEW n \in PVNames, ToolUpdates(n)
  PROVE  \/ UNCHANGED pvs
         \/ \E pv \in PV : /\ pvs' = [pvs EXCEPT ![n] = pv] /\ pvs[n] # NoPV
                           /\ pv.path = pvs[n].path /\ pv.phase = pvs[n].phase
<1>1. CASE items[n].annotation # {} /\ since[n] = "unchanged"
  <2>1. items[n] = pvs[n] /\ items[n] # NoPV /\ tool = "updating"
    BY <1>1 DEF ToolUpdates, ObjectsInv, ToolInv
  <2>2. items[n] \in PV
    BY <2>1 DEF ObjectsInv, TypeOK
  <2> DEFINE pv == CloneAndUpdatePV(items[n])
  <2>3. pv \in PV /\ pv.path = items[n].path /\ pv.phase = items[n].phase
    BY <2>2 DEF CloneAndUpdatePV, PV
  <2>4. pvs' = [pvs EXCEPT ![n] = pv]
    BY <1>1 DEF ToolUpdates
  <2> HIDE DEF pv
  <2> QED
    BY <2>1, <2>3, <2>4
<1>2. CASE ~(items[n].annotation # {} /\ since[n] = "unchanged")
  BY <1>2 DEF ToolUpdates
<1> QED
  BY <1>1, <1>2

\* PVs are written where their class's directory says, and stay there.
LEMMA PathsKept ==
  ASSUME StableHostDirs, ObjectsInv, DeployedInv, PathsInv, [Next]_vars
  PROVE  PathsInv'
<1>0. pvs \in [PVNames -> PV \cup {NoPV}]
  BY DEF ObjectsInv, TypeOK
<1>1. ASSUME NEW n \in PVNames, NEW pv, pvs' = [pvs EXCEPT ![n] = pv],
             pv = NoPV \/ (pvs[n] # NoPV /\ pv.path = pvs[n].path)
      PROVE  PathsInv'
  BY <1>0, <1>1 DEF PathsInv
<1>2. ASSUME NEW k \in Classes, NEW file \in Files, CreatePV(k, file) PROVE PathsInv'
  <2> DEFINE n == <<k, file>>
             pv == LocalPVSpec(Append(config.classes[k].hostDir, file),
                               nodeSelector \cup config.classes[k].selector)
  <2>1. /\ n \in PVNames /\ pvs' = [pvs EXCEPT ![n] = pv] /\ k \in DOMAIN config.classes
        /\ pv.path = Append(config.classes[k].hostDir, file) /\ n[1] = k /\ n[2] = file
    BY <1>2 DEF CreatePV, PutPV, LocalPVSpec, PVNames
  <2>2. \A d \in Deployments : k \in DOMAIN d.classes => d.classes[k].hostDir = config.classes[k].hostDir
    BY <2>1 DEF DeployedInv, StableHostDirs
  <2> HIDE DEF n, pv
  <2> QED
    BY <1>0, <2>1, <2>2 DEF PathsInv
<1>3. ASSUME NEW n \in PVNames, UseAndRelease(n) \/ DeletePV(n) PROVE PathsInv'
  <2>1. CASE UseAndRelease(n)
    <3>1. pvs[n] # NoPV /\ pvs[n] \in PV
      BY <1>0, <2>1 DEF UseAndRelease, NoPV
    <3> DEFINE pv == [pvs[n] EXCEPT !.phase = "Released"]
    <3>2. pv.path = pvs[n].path /\ pvs' = [pvs EXCEPT ![n] = pv]
      BY <2>1, <3>1 DEF PV, UseAndRelease, PutPV
    <3> HIDE DEF pv
    <3> QED
      BY <1>1, <3>1, <3>2
  <2>2. CASE DeletePV(n)
    BY <1>1, <2>2 DEF DeletePV, PutPV
  <2> QED
    BY <1>3, <2>1, <2>2
<1>4. ASSUME NEW n \in PVNames, ToolUpdates(n) PROVE PathsInv'
  BY <1>0, <1>1, <1>4, ToolKeepsPlace DEF PathsInv
<1>5. CASE UNCHANGED pvs
  BY <1>5 DEF PathsInv
<1>6. \/ UNCHANGED pvs
      \/ \E k \in Classes, file \in Files : CreatePV(k, file)
      \/ \E n \in PVNames : UseAndRelease(n) \/ DeletePV(n) \/ ToolUpdates(n)
  BY DEF Next, Deploy, Mount, Unmount, Tool, ToolLists, ToolListFails, ToolEnds, ToolStarts,
         ToolUpdateFails, ToolIsThrottled, vars
<1> QED
  BY <1>2, <1>3, <1>4, <1>5, <1>6

\* Data of a former claim stays at the path of a released PV until it is
\* wiped there.
LEMMA WipedKept ==
  ASSUME StableHostDirs, DisjointMounts, "unmountUsed" \notin Faults,
         ObjectsInv, DeployedInv, PathsInv, WipedInv, [Next]_vars
  PROVE  WipedInv'
<1>0. /\ pvs \in [PVNames -> PV \cup {NoPV}] /\ dirty \subseteq HostVolumes
      /\ \A n \in PVNames : pvs[n].phase \in {"Available", "Released"} => pvs[n] # NoPV
  BY DEF ObjectsInv, TypeOK, NoPV
<1>1. ASSUME NEW n \in PVNames, NEW pv \in PV, pvs' = [pvs EXCEPT ![n] = pv], pvs[n] # NoPV,
             pv.path = pvs[n].path, pv.phase \in {pvs[n].phase, "Released"},
             UNCHANGED mounted,
             dirty' = dirty \/ (/\ dirty' = dirty \cup {pv.path} /\ pv.phase = "Released"
                               /\ pv.path \in mounted \cup DeviceAt)
      PROVE  WipedInv'
  BY <1>0, <1>1, NoPVIsNone DEF WipedInv
<1>2. ASSUME NEW k \in Classes, NEW file \in Files, CreatePV(k, file) PROVE WipedInv'
  <2> DEFINE n == <<k, file>>
             pv == LocalPVSpec(Append(config.classes[k].hostDir, file),
                               nodeSelector \cup config.classes[k].selector)
  <2>1. /\ n \in PVNames /\ pvs' = [pvs EXCEPT ![n] = pv] /\ pvs[n] = NoPV
        /\ \A m \in PVNames : pvs[m].path # pv.path
        /\ UNCHANGED <<mounted, dirty>>
    BY <1>2 DEF CreatePV, PutPV, LocalPVSpec, PVNames, Discoverable
  <2> HIDE DEF n, pv
  <2>2. pvs'[n] = pv /\ \A m \in PVNames \ {n} : pvs'[m] = pvs[m]
    BY <1>0, <2>1
  <2>3. \A m \in PVNames : pvs[m].phase = "Released" => m # n
    BY <1>0, <2>1
  <2> QED
    BY <2>1, <2>2, <2>3 DEF WipedInv
<1>3. ASSUME NEW n \in PVNames, UseAndRelease(n) PROVE WipedInv'
  <2>1. pvs[n] # NoPV /\ pvs[n] \in PV
    BY <1>0, <1>3 DEF UseAndRelease, NoPV
  <2> DEFINE pv == [pvs[n] EXCEPT !.phase = "Released"]
  <2>2. /\ pv \in PV /\ pv.path = pvs[n].path /\ pv.phase = "Released"
        /\ pvs' = [pvs EXCEPT ![n] = pv] /\ dirty' = dirty \cup {pvs[n].path}
        /\ pvs[n].path \in mounted \cup DeviceAt /\ UNCHANGED mounted
    BY <1>3, <2>1 DEF PV, UseAndRelease, PutPV
  <2> HIDE DEF pv
  <2> QED
    BY <1>1, <2>1, <2>2
<1>4. ASSUME NEW n \in PVNames, DeletePV(n) PROVE WipedInv'
  <2>1. /\ pvs[n].phase = "Released" /\ PutPV(n, NoPV) /\ UNCHANGED mounted
        /\ dirty' = IF pvs[n].path \in mounted \cup DeviceAt THEN dirty \ {pvs[n].path} ELSE dirty
    BY <1>4, DeletesOwn
  <2>2. pvs'[n] = NoPV /\ \A m \in PVNames \ {n} : pvs'[m] = pvs[m]
    BY <1>0, <2>1 DEF PutPV
  <2>3. \A path \in dirty' : path \in dirty /\ path # pvs[n].path
    BY <2>1 DEF WipedInv
  <2> QED
    BY <2>1, <2>2, <2>3 DEF WipedInv
<1>5. ASSUME NEW n \in PVNames, ToolUpdates(n) PROVE WipedInv'
  <2>1. UNCHANGED <<mounted, dirty>>
    BY <1>5 DEF ToolUpdates
  <2>2. CASE UNCHANGED pvs
    BY <2>1, <2>2 DEF WipedInv
  <2> QED
    BY <1>1, <1>5, <2>1, <2>2, ToolKeepsPlace
<1>6. ASSUME NEW path \in HostVolumes, Mount(path) \/ Unmount(path) PROVE WipedInv'
  BY <1>6 DEF Mount, Unmount, WipedInv
<1>7. CASE UNCHANGED <<pvs, mounted, dirty>>
  BY <1>7 DEF WipedInv
<1>8. \/ UNCHANGED <<pvs, mounted, dirty>>
      \/ \E k \in Classes, file \in Files : CreatePV(k, file)
      \/ \E n \in PVNames : UseAndRelease(n) \/ DeletePV(n) \/ ToolUpdates(n)
      \/ \E path \in HostVolumes : Mount(path) \/ Unmount(path)
  BY DEF Next, Deploy, Tool, ToolLists, ToolListFails, ToolEnds, ToolStarts,
         ToolUpdateFails, ToolIsThrottled, vars
<1> QED
  BY <1>2, <1>3, <1>4, <1>5, <1>6, <1>7, <1>8

\* Every PV is where its class says, in whatever is deployed.
THEOREM PathsInvariant ==
  ASSUME StableHostDirs
  PROVE  Spec => [](DeployedInv /\ PathsInv)
<1>1. Init => DeployedInv /\ PathsInv
  BY DEF Init, DeployedInv, PathsInv, NotLoaded
<1>2. ObjectsInv /\ DeployedInv /\ PathsInv /\ [Next]_vars => DeployedInv' /\ PathsInv'
  BY DeployedKept, PathsKept
<1> QED
  BY <1>1, <1>2, ObjectsInvariant, PTL DEF Spec

\* Data of a former claim is always at the path of a released PV of its own,
\* where a cleaning reaches it.
THEOREM WipedInvariant ==
  ASSUME StableHostDirs, DisjointMounts, "unmountUsed" \notin Faults
  PROVE  Spec => []WipedInv
<1>1. Init => WipedInv
  BY DEF Init, WipedInv
<1>2. ObjectsInv /\ DeployedInv /\ PathsInv /\ WipedInv /\ [Next]_vars => WipedInv'
  BY WipedKept
<1> QED
  BY <1>1, <1>2, ObjectsInvariant, PathsInvariant, PTL DEF Spec

\* No PV is on offer for a volume with the data of a former claim, whatever is
\* redeployed, mounted and moved to the beta API meanwhile.
THEOREM OfferedIsWiped ==
  ASSUME StableHostDirs, DisjointMounts, "unmountUsed" \notin Faults
  PROVE  Spec => []OfferedWiped
<1>1. WipedInv => OfferedWiped
  <2> SUFFICES ASSUME WipedInv, NEW n \in PVNames, pvs[n].phase = "Available",
                      pvs[n].path \in dirty
               PROVE  FALSE
    BY DEF OfferedWiped
  <2>1. PICK m \in PVNames : pvs[m].phase = "Released" /\ pvs[m].path = pvs[n].path
    BY DEF WipedInv
  <2>2. pvs[n] # NoPV /\ pvs[m] # NoPV
    BY <2>1 DEF NoPV
  <2> QED
    BY <2>1, <2>2 DEF WipedInv
<1> QED
  BY <1>1, WipedInvariant, PTL

\* A cleaning wipes the volume of the PV that is deleted, and no other, under
\* whatever mount directory the class has by then; with or without Jobs, and
\* wherever file systems are mounted.
THEOREM WipesNoOtherVolume ==
  ASSUME StableHostDirs, DisjointMounts
  PROVE  Spec => WipesOwnVolume
<1>1. ASSUME ObjectsInv, DeployedInv, PathsInv, [Next]_vars, NEW path \in dirty \ dirty'
      PROVE  \E n \in PVNames : pvs[n].path = path /\ pvs'[n] = NoPV
  <2>1. PICK n \in PVNames : DeletePV(n)
    BY <1>1 DEF Next, Deploy, CreatePV, UseAndRelease, Mount, Unmount, Tool, ToolLists,
                ToolListFails, ToolEnds, ToolStarts, ToolUpdates, ToolUpdateFails,
                ToolIsThrottled, vars
  <2>2. PutPV(n, NoPV) /\ path = pvs[n].path
    BY <1>1, <2>1, DeletesOwn
  <2>3. pvs'[n] = NoPV
    BY <1>1, <2>2 DEF PutPV, ObjectsInv, TypeOK
  <2> QED
    BY <2>2, <2>3
<1>2. ObjectsInv /\ DeployedInv /\ PathsInv /\ [Next]_vars =>
        [\A path \in dirty \ dirty' :
             \E n \in PVNames : pvs[n].path = path /\ pvs'[n] = NoPV]_vars
  BY <1>1
<1> QED
  BY <1>2, ObjectsInvariant, PathsInvariant, PTL DEF Spec, WipesOwnVolume
=============================================================================
