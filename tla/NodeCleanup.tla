----------------------------- MODULE NodeCleanup -----------------------------
(***************************************************************************)
(* The node-cleanup controller: one process per cluster that removes the   *)
(* local PVs of nodes that are gone, and the claims bound to them.         *)
(*                                                                         *)
(* Its CleanupController (pkg/node-cleanup/controller) starts a timer for  *)
(* a bound PV when its node is deleted and deletes the claim when the      *)
(* timer ends and the node has not come back.  Its Deleter                 *)
(* (pkg/node-cleanup/deleter) runs beside it and periodically deletes the  *)
(* PVs of deleted nodes that no claim uses.  Both read three informers     *)
(* (nodes, PVs, claims) whose watches are independent of each other.       *)
(***************************************************************************)
EXTENDS Integers, Sequences, FiniteSets, FiniteSetsExt

CONSTANTS
    Nodes,      \* node names
    PVNames,    \* names of PVs
    Claims,     \* names of claims
    NoName,     \* not a name
    AffinityOf, \* [PVNames -> Affinity], the nodeAffinity of the PV
    Eligible,   \* the local PVs of the classes in --storageclass-names
    PolicyOf,   \* [PVNames -> {"Retain", "Delete"}], reclaim policy of the PV
    Delay,      \* --pvc-deletion-delay, in ticks of the clock
    Faults,     \* what else may happen, a subset of AllFaults
    MaxUID,     \* bound: claims created in a run
    MaxLag      \* bound: undelivered events of a kind, nodeDeleted calls to come

\* A match expression either is "kubernetes.io/hostname In values" or says
\* nothing about host names.
Expression == [byHostname : BOOLEAN, values : SUBSET Nodes]
Affinity == [required : BOOLEAN, terms : SUBSET SUBSET Expression]

AllFaults ==
    { "nodeReturns",  \* a deleted node may register again
      "apiErrors",    \* requests to the API server fail
      "watchLag",     \* events reach the informers late
      "restart"       \* the process dies and is started again
    }

ASSUME CleanupAssumption ==
    /\ NoName \notin PVNames \cup Claims
    /\ AffinityOf \in [PVNames -> Affinity]
    /\ Eligible \subseteq PVNames
    /\ PolicyOf \in [PVNames -> {"Retain", "Delete"}]
    /\ Delay \in Nat \ {0} /\ MaxUID \in Nat /\ MaxLag \in Nat \ {0}
    /\ Faults \subseteq AllFaults

VARIABLES
    nodes,       \* API server: the Node objects
    pvs,         \* API server: the PersistentVolume objects
    claims,      \* API server: the PersistentVolumeClaim objects
    uids,        \* API server: UIDs given to claims so far
    nodeEvents, pvEvents, claimEvents,   \* watches: events on their way
    nodeLister, pvLister, claimLister,   \* stores of the informers
    synced,      \* informers whose first list is complete
    notices,     \* calls of nodeDeleted that the node informer owes
    running,     \* Run has passed WaitForCacheSync and made its scan
    timers,      \* pvQueue: ticks until a waiting PV is added, or NoTimer
    dirty,       \* pvQueue: PVs to be handled
    victim,      \* workers: the claim syncHandler is about to delete for a PV
    snapshot,    \* Deleter: PVs of its list it has not come to yet
    doomed,      \* Deleter: the PV it is about to delete
    goneFor      \* clock: ticks since a node was deleted, up to Delay

apiVars == <<nodes, pvs, claims, uids>>
informerVars == <<nodeEvents, pvEvents, claimEvents, nodeLister, pvLister, claimLister,
                  synced, notices>>
queueVars == <<timers, dirty, victim>>
deleterVars == <<snapshot, doomed>>
vars == <<apiVars, informerVars, running, queueVars, deleterVars, goneFor>>

UIDs == 0..MaxUID
NoTimer == -1
Kinds == {"node", "pv", "claim"}
Workload == {"Absent", "Available", "Bound", "Released"}

\* claim and uid are the claimRef.
PV == [phase : Workload, claim : Claims \cup {NoName}, uid : UIDs, deleting : BOOLEAN]
NoPV == [phase |-> "Absent", claim |-> NoName, uid |-> 0, deleting |-> FALSE]
NewPV == [NoPV EXCEPT !.phase = "Available"]

\* uid is 0 when there is no claim of that name.
Claim == [uid : UIDs, volume : PVNames \cup {NoName}]
NoClaim == [uid |-> 0, volume |-> NoName]

Victim == [claim : Claims \cup {NoName}, uid : UIDs]
NoVictim == [claim |-> NoName, uid |-> 0]

TypeOK ==
    /\ nodes \subseteq Nodes /\ pvs \in [PVNames -> PV] /\ claims \in [Claims -> Claim]
    /\ uids \in UIDs
    /\ nodeEvents \in Seq([node : Nodes, exists : BOOLEAN])
    /\ pvEvents \in Seq([name : PVNames, pv : PV])
    /\ claimEvents \in Seq([name : Claims, claim : Claim])
    /\ nodeLister \subseteq Nodes
    /\ pvLister \in [PVNames -> PV] /\ claimLister \in [Claims -> Claim]
    /\ synced \subseteq Kinds /\ notices \in Nat /\ running \in BOOLEAN
    /\ timers \in [PVNames -> (0..Delay) \cup {NoTimer}] /\ dirty \subseteq PVNames
    /\ victim \in [PVNames -> Victim]
    /\ snapshot \in [PVNames -> PV] /\ doomed \in PVNames \cup {NoName}
    /\ goneFor \in [Nodes -> 0..Delay]

\* A cluster whose nodes are up and whose informers are synced.
Init ==
    /\ nodes = Nodes /\ nodeLister = Nodes
    /\ pvs = [p \in PVNames |-> NewPV] /\ pvLister = pvs
    /\ claims = [c \in Claims |-> NoClaim] /\ claimLister = claims /\ uids = 0
    /\ nodeEvents = <<>> /\ pvEvents = <<>> /\ claimEvents = <<>>
    /\ synced = Kinds /\ notices = 0 /\ running = TRUE
    /\ timers = [p \in PVNames |-> NoTimer] /\ dirty = {}
    /\ victim = [p \in PVNames |-> NoVictim]
    /\ snapshot = [p \in PVNames |-> NoPV] /\ doomed = NoName
    /\ goneFor = [n \in Nodes |-> 0]

-----------------------------------------------------------------------------
(* Writing to the API server.  An informer that is synced hears of a write *)
(* at once or, with watchLag, later.                                       *)

Lags == "watchLag" \in Faults

PutNode(n, exists) ==
    /\ nodes' = IF exists THEN nodes \cup {n} ELSE nodes \ {n}
    /\ IF "node" \in synced /\ ~Lags
       THEN /\ nodeLister' = nodes'
            /\ notices' = IF exists THEN notices ELSE notices + 1
            /\ UNCHANGED nodeEvents
       ELSE /\ nodeEvents' = IF "node" \in synced
                             THEN Append(nodeEvents, [node |-> n, exists |-> exists])
                             ELSE nodeEvents
            /\ UNCHANGED <<nodeLister, notices>>
    /\ UNCHANGED synced

PutPV(p, pv) ==
    /\ pvs' = [pvs EXCEPT ![p] = pv]
    /\ pvLister' = IF "pv" \in synced /\ ~Lags THEN pvs' ELSE pvLister
    /\ pvEvents' = IF "pv" \in synced /\ Lags
                   THEN Append(pvEvents, [name |-> p, pv |-> pv]) ELSE pvEvents

PutClaim(c, claim) ==
    /\ claims' = [claims EXCEPT ![c] = claim]
    /\ claimLister' = IF "claim" \in synced /\ ~Lags THEN claims' ELSE claimLister
    /\ claimEvents' = IF "claim" \in synced /\ Lags
                      THEN Append(claimEvents, [name |-> c, claim |-> claim])
                      ELSE claimEvents

\* A PV is protected by a finalizer: deleting it marks it, and PVProtection
\* below removes it once no claim holds it.
RequestPVDeletion(p) ==
    IF pvs[p] = NoPV \/ pvs[p].deleting
    THEN UNCHANGED <<pvs, pvLister, pvEvents>>
    ELSE PutPV(p, [pvs[p] EXCEPT !.deleting = TRUE])

nodeVars == <<nodes, nodeEvents, nodeLister, notices, synced>>
pvVars == <<pvs, pvEvents, pvLister>>
claimVars == <<claims, claimEvents, claimLister>>

-----------------------------------------------------------------------------
(* util.GetLocalPersistentVolumeNodeNames and what is asked of it.         *)

\* A term names the nodes that all of its host name expressions allow.
TermNodes(term) ==
    LET named == {e \in term : e.byHostname}
    IN  IF named = {} THEN {} ELSE {n \in Nodes : \A e \in named : n \in e.values}

NodeNames(p) == UNION {TermNodes(term) : term \in AffinityOf[p].terms}

\* The nil it returns; a PV whose terms name no node gets an empty slice.
NodeNamesIsNil(p) == ~AffinityOf[p].required

\* Mutant: every node of the PV has to exist.
AnyNodeExists_All(p) == NodeNames(p) \subseteq nodeLister

AnyNodeExists(p) == NodeNames(p) \cap nodeLister # {}

\* The PV belongs to a node that is gone: the cluster as it is, not as the
\* informers show it.
NodeGone(p) == NodeNames(p) # {} /\ NodeNames(p) \cap nodes = {}

-----------------------------------------------------------------------------
(* The cluster.                                                            *)

ProcessUnchanged == UNCHANGED <<running, queueVars, deleterVars>>

Room == Len(nodeEvents) < MaxLag /\ Len(pvEvents) < MaxLag /\ Len(claimEvents) < MaxLag

DeleteNode(n) ==
    /\ Room /\ notices + Len(nodeEvents) < MaxLag
    /\ n \in nodes
    /\ PutNode(n, FALSE)
    /\ goneFor' = [goneFor EXCEPT ![n] = 0]
    /\ ProcessUnchanged /\ UNCHANGED <<pvVars, claimVars, uids>>

NodeReturns(n) ==
    /\ "nodeReturns" \in Faults /\ Room
    /\ n \notin nodes
    /\ PutNode(n, TRUE)
    /\ goneFor' = [goneFor EXCEPT ![n] = 0]
    /\ ProcessUnchanged /\ UNCHANGED <<pvVars, claimVars, uids>>

\* A node that the PV's affinity allows is up, or it asks for none.
Reachable(p) == NodeNamesIsNil(p) \/ NodeNames(p) \cap nodes # {}

\* The provisioner of a node that is up, or of a network file system, offers
\* a volume again.
CreatePV(p) ==
    /\ Room /\ pvs[p] = NoPV /\ Reachable(p)
    /\ PutPV(p, NewPV)
    /\ ProcessUnchanged /\ UNCHANGED <<nodeVars, claimVars, uids, goneFor>>

\* A StatefulSet creates its claim, again under the same name.
CreateClaim(c) ==
    /\ Room /\ claims[c] = NoClaim /\ uids < MaxUID
    /\ uids' = uids + 1
    /\ PutClaim(c, [uid |-> uids + 1, volume |-> NoName])
    /\ ProcessUnchanged /\ UNCHANGED <<nodeVars, pvVars, goneFor>>

\* A pod that uses the claim is scheduled to a node of the PV.
Bind(c, p) ==
    /\ Room /\ Reachable(p)
    /\ claims[c].uid # 0 /\ claims[c].volume = NoName
    /\ pvs[p].phase = "Available" /\ ~pvs[p].deleting
    /\ PutPV(p, [pvs[p] EXCEPT !.phase = "Bound", !.claim = c, !.uid = claims[c].uid])
    /\ PutClaim(c, [claims[c] EXCEPT !.volume = p])
    /\ ProcessUnchanged /\ UNCHANGED <<nodeVars, uids, goneFor>>

UserDeletesClaim(c) ==
    /\ Room /\ claims[c] # NoClaim
    /\ PutClaim(c, NoClaim)
    /\ ProcessUnchanged /\ UNCHANGED <<nodeVars, pvVars, uids, goneFor>>

ReleasePV(p) ==
    /\ Room /\ pvs[p].phase = "Bound" /\ claims[pvs[p].claim].uid # pvs[p].uid
    /\ PutPV(p, [pvs[p] EXCEPT !.phase = "Released"])
    /\ ProcessUnchanged /\ UNCHANGED <<nodeVars, claimVars, uids, goneFor>>

\* The provisioner of a node that is up reclaims the PV.
ReclaimPV(p) ==
    /\ Room /\ Reachable(p)
    /\ pvs[p].phase = "Released" /\ PolicyOf[p] = "Delete" /\ ~pvs[p].deleting
    /\ RequestPVDeletion(p)
    /\ ProcessUnchanged /\ UNCHANGED <<nodeVars, claimVars, uids, goneFor>>

PVProtection(p) ==
    /\ Room /\ pvs[p].deleting /\ pvs[p].phase # "Bound"
    /\ PutPV(p, NoPV)
    /\ ProcessUnchanged /\ UNCHANGED <<nodeVars, claimVars, uids, goneFor>>

-----------------------------------------------------------------------------
(* The informers, and the life of the process.                             *)

\* nodeDeleted is called for a deletion after the store has it.
DeliverNode ==
    /\ nodeEvents # <<>>
    /\ nodeLister' = IF Head(nodeEvents).exists THEN nodeLister \cup {Head(nodeEvents).node}
                     ELSE nodeLister \ {Head(nodeEvents).node}
    /\ notices' = IF Head(nodeEvents).exists THEN notices ELSE notices + 1
    /\ nodeEvents' = Tail(nodeEvents)
    /\ ProcessUnchanged /\ UNCHANGED <<apiVars, pvVars, claimVars, synced, goneFor>>

DeliverPV ==
    /\ pvEvents # <<>>
    /\ pvLister' = [pvLister EXCEPT ![Head(pvEvents).name] = Head(pvEvents).pv]
    /\ pvEvents' = Tail(pvEvents)
    /\ ProcessUnchanged /\ UNCHANGED <<apiVars, nodeVars, claimVars, goneFor>>

DeliverClaim ==
    /\ claimEvents # <<>>
    /\ claimLister' = [claimLister EXCEPT ![Head(claimEvents).name] = Head(claimEvents).claim]
    /\ claimEvents' = Tail(claimEvents)
    /\ ProcessUnchanged /\ UNCHANGED <<apiVars, nodeVars, pvVars, goneFor>>

\* The process dies; main starts the informers, the Deleter and the
\* controller again.
Restart ==
    /\ "restart" \in Faults
    /\ synced' = {} /\ notices' = 0 /\ running' = FALSE
    /\ nodeLister' = {} /\ pvLister' = [p \in PVNames |-> NoPV]
    /\ claimLister' = [c \in Claims |-> NoClaim]
    /\ nodeEvents' = <<>> /\ pvEvents' = <<>> /\ claimEvents' = <<>>
    /\ timers' = [p \in PVNames |-> NoTimer] /\ dirty' = {}
    /\ victim' = [p \in PVNames |-> NoVictim]
    /\ snapshot' = [p \in PVNames |-> NoPV] /\ doomed' = NoName
    /\ UNCHANGED <<apiVars, goneFor>>

\* The informers list their objects, each in its own time.
SyncInformer(kind) ==
    /\ kind \notin synced
    /\ synced' = synced \cup {kind}
    /\ nodeLister' = IF kind = "node" THEN nodes ELSE nodeLister
    /\ pvLister' = IF kind = "pv" THEN pvs ELSE pvLister
    /\ claimLister' = IF kind = "claim" THEN claims ELSE claimLister
    /\ ProcessUnchanged
    /\ UNCHANGED <<apiVars, nodeEvents, pvEvents, claimEvents, notices, goneFor>>

-----------------------------------------------------------------------------
(* The CleanupController.                                                  *)

\* Mutant: a second call puts the time off.
AddAfter_Extends(p, ticks) == IF timers[p] = NoTimer THEN ticks ELSE timers[p] + ticks

\* The delaying queue keeps the earlier of two times for the same item.
AddAfter(p, ticks) == IF timers[p] = NoTimer THEN ticks ELSE Min({timers[p], ticks})

\* Mutant: the deletion of any node starts the timer.
ShouldEnqueueEntry_AnyNode(p) == pvLister[p].claim # NoName

ShouldEnqueueEntry(p) == pvLister[p].claim # NoName /\ ~AnyNodeExists(p)

\* startCleanupTimersIfNeeded.
StartCleanupTimersIfNeeded ==
    timers' = [p \in PVNames |->
                  IF /\ pvLister[p] # NoPV /\ p \in Eligible
                     /\ ~NodeNamesIsNil(p) /\ ShouldEnqueueEntry(p)
                  THEN AddAfter(p, Delay) ELSE timers[p]]

\* Run, once the caches are synced.
Run ==
    /\ ~running /\ synced = Kinds
    /\ running' = TRUE
    /\ StartCleanupTimersIfNeeded
    /\ UNCHANGED <<apiVars, informerVars, dirty, victim, deleterVars, goneFor>>

NodeDeleted ==
    /\ notices > 0
    /\ notices' = notices - 1
    /\ StartCleanupTimersIfNeeded
    /\ UNCHANGED <<apiVars, nodeEvents, nodeLister, synced, pvVars, claimVars, running,
                   dirty, victim, deleterVars, goneFor>>

\* The clock, and the delaying queue: an item whose time has come is added.
Tick ==
    /\ goneFor' = [n \in Nodes |-> IF n \in nodes THEN 0 ELSE Min({Delay, goneFor[n] + 1})]
    /\ timers' = [p \in PVNames |-> IF timers[p] > 0 THEN timers[p] - 1 ELSE timers[p]]
    /\ UNCHANGED <<apiVars, informerVars, running, dirty, victim, deleterVars>>

TimerEnds(p) ==
    /\ timers[p] = 0
    /\ timers' = [timers EXCEPT ![p] = NoTimer]
    /\ dirty' = dirty \cup {p}
    /\ UNCHANGED <<apiVars, informerVars, running, victim, deleterVars, goneFor>>

\* The claimRef of the PV as the PV lister shows it, and the claim of that
\* name as the claim lister shows it.
ClaimRef(p) == [claim |-> pvLister[p].claim, uid |-> pvLister[p].uid]
ClaimShown(p) == claimLister[pvLister[p].claim]

\* Mutant: syncHandler does not look for the node again.
MustDeleteClaim_NoRecheck(p) ==
    /\ pvLister[p] # NoPV /\ ~NodeNamesIsNil(p)
    /\ pvLister[p].claim # NoName
    /\ ClaimShown(p).volume = p /\ ClaimShown(p).uid = pvLister[p].uid

\* What syncHandler checks before it deletes the claim.
MustDeleteClaim(p) ==
    /\ pvLister[p] # NoPV
    /\ ~NodeNamesIsNil(p)
    /\ ~AnyNodeExists(p)
    /\ pvLister[p].claim # NoName
    /\ ClaimShown(p).uid # 0
    /\ ClaimShown(p).volume = p /\ ClaimShown(p).uid = pvLister[p].uid

\* A worker takes a PV that no other worker handles.
GetItem(p) ==
    /\ running /\ p \in dirty /\ victim[p] = NoVictim
    /\ dirty' = dirty \ {p}

\* syncHandler returns nil and the PV is forgotten.
SyncHandlerReturns(p) ==
    /\ GetItem(p) /\ ~MustDeleteClaim(p)
    /\ UNCHANGED <<apiVars, informerVars, running, timers, victim, deleterVars, goneFor>>

SyncHandlerDeletes(p) ==
    /\ GetItem(p) /\ MustDeleteClaim(p)
    /\ victim' = [victim EXCEPT ![p] = ClaimRef(p)]
    /\ UNCHANGED <<apiVars, informerVars, running, timers, deleterVars, goneFor>>

\* Mutant: the claim is deleted by its name alone.
PreconditionHolds_NameOnly(p) == claims[victim[p].claim] # NoClaim

\* The API server accepts the delete of a claim only under the UID given.
PreconditionHolds(p) == claims[victim[p].claim].uid = victim[p].uid

\* deletePVC succeeds, or finds the claim gone.
DeletePVC(p) ==
    /\ victim[p] # NoVictim
    /\ \/ PreconditionHolds(p) /\ PutClaim(victim[p].claim, NoClaim)
       \/ claims[victim[p].claim] = NoClaim /\ UNCHANGED claimVars
    /\ victim' = [victim EXCEPT ![p] = NoVictim]
    /\ UNCHANGED <<nodeVars, pvVars, uids, running, timers, dirty, deleterVars, goneFor>>

\* Mutant: a PV whose claim could not be deleted is forgotten.
DeletePVCFails_Forgets(p) ==
    /\ victim[p] # NoVictim /\ "apiErrors" \in Faults
    /\ victim' = [victim EXCEPT ![p] = NoVictim]
    /\ UNCHANGED <<apiVars, informerVars, running, timers, dirty, deleterVars, goneFor>>

\* deletePVC fails, because of the precondition or otherwise (the request or
\* only its answer is lost), and the PV is added again after a back-off.
DeletePVCFails(p) ==
    /\ victim[p] # NoVictim
    /\ \/ "apiErrors" \in Faults /\ UNCHANGED claimVars
       \/ "apiErrors" \in Faults /\ PreconditionHolds(p) /\ PutClaim(victim[p].claim, NoClaim)
       \/ ~PreconditionHolds(p) /\ claims[victim[p].claim] # NoClaim /\ UNCHANGED claimVars
    /\ \E backoff \in 1..Delay :
           timers' = [timers EXCEPT ![p] = AddAfter(p, backoff)]
    /\ victim' = [victim EXCEPT ![p] = NoVictim]
    /\ UNCHANGED <<nodeVars, pvVars, uids, running, dirty, deleterVars, goneFor>>

-----------------------------------------------------------------------------
(* The Deleter.  It does not wait for the informers.                       *)

BeginPass ==
    /\ doomed = NoName /\ \A p \in PVNames : snapshot[p] = NoPV
    /\ snapshot' = pvLister
    /\ UNCHANGED <<apiVars, informerVars, running, queueVars, doomed, goneFor>>

ReferencesNonExistentNode(p) == ~NodeNamesIsNil(p) /\ ~AnyNodeExists(p)

\* Mutant: only released PVs are deleted.
MustDeletePV_Released(p) ==
    /\ p \in Eligible /\ ReferencesNonExistentNode(p)
    /\ snapshot[p].phase = "Released" /\ PolicyOf[p] = "Delete"

\* What DeletePVs asks of a PV of its list before it deletes it.
MustDeletePV(p) ==
    /\ p \in Eligible
    /\ ReferencesNonExistentNode(p)
    /\ \/ snapshot[p].phase = "Released" /\ PolicyOf[p] = "Delete"
       \/ snapshot[p].phase = "Available"

JudgePV(p) ==
    /\ doomed = NoName /\ snapshot[p] # NoPV
    /\ snapshot' = [snapshot EXCEPT ![p] = NoPV]
    /\ doomed' = IF MustDeletePV(p) THEN p ELSE NoName
    /\ UNCHANGED <<apiVars, informerVars, running, queueVars, goneFor>>

\* The request is carried out, whether or not the Deleter hears so.
DeletePV ==
    /\ doomed # NoName
    /\ RequestPVDeletion(doomed)
    /\ doomed' = NoName
    /\ UNCHANGED <<nodeVars, claimVars, uids, running, queueVars, snapshot, goneFor>>

DeletePVFails ==
    /\ doomed # NoName /\ "apiErrors" \in Faults
    /\ doomed' = NoName
    /\ UNCHANGED <<apiVars, informerVars, running, queueVars, snapshot, goneFor>>

-----------------------------------------------------------------------------
Cluster ==
    \/ \E n \in Nodes : DeleteNode(n) \/ NodeReturns(n)
    \/ \E p \in PVNames : CreatePV(p) \/ ReleasePV(p) \/ ReclaimPV(p) \/ PVProtection(p)
    \/ \E c \in Claims : CreateClaim(c) \/ UserDeletesClaim(c) \/ \E p \in PVNames : Bind(c, p)

Informers ==
    \/ DeliverNode \/ DeliverPV \/ DeliverClaim
    \/ \E kind \in Kinds : SyncInformer(kind)

Controller ==
    \/ Run \/ NodeDeleted \/ Tick
    \/ \E p \in PVNames : \/ TimerEnds(p) \/ SyncHandlerReturns(p) \/ SyncHandlerDeletes(p)
                          \/ DeletePVC(p) \/ DeletePVCFails(p)

Deleter == BeginPass \/ DeletePV \/ DeletePVFails \/ \E p \in PVNames : JudgePV(p)

Next == Cluster \/ Informers \/ Controller \/ Deleter \/ Restart

Spec == Init /\ [][Next]_vars

(***************************************************************************)
(* Fairness.  Informers deliver, the clock runs, a worker takes what is in *)
(* the queue and the Deleter's loop goes on (WF).  A request that is made  *)
(* again and again succeeds at last (SF), and the process is not killed    *)
(* for ever.                                                               *)
(***************************************************************************)
Fairness ==
    /\ WF_vars(Informers) /\ WF_vars(Tick) /\ WF_vars(Run) /\ WF_vars(NodeDeleted)
    /\ WF_vars(Deleter) /\ SF_vars(DeletePV)
    /\ \A p \in PVNames :
           /\ WF_vars(TimerEnds(p)) /\ WF_vars(SyncHandlerReturns(p) \/ SyncHandlerDeletes(p))
           /\ WF_vars(DeletePVC(p) \/ DeletePVCFails(p)) /\ SF_vars(DeletePVC(p))
           /\ WF_vars(PVProtection(p))
    /\ <>[][~Restart]_vars

FairSpec == Spec /\ Fairness

-----------------------------------------------------------------------------
(* Properties.                                                             *)

\* The claim the controller deletes is bound to the PV whose timer ended.  It
\* is never a later claim of the same name, which may be bound to a PV of a
\* node that is up: syncHandler compares UIDs, and deletePVC passes the UID
\* as a precondition, because both views are old when the request arrives.
OnlyTheBoundClaim ==
    [][\A p \in PVNames, c \in Claims :
           victim[p] # NoVictim /\ victim'[p] = NoVictim /\ claims'[c] # claims[c]
               => claims[c].volume = p /\ claims[c].uid = victim[p].uid]_vars

\* A worker decides to delete a claim only while no node of its PV exists:
\* a node that came back before the timer ended saves the claim.
SparedIfNodeReturned ==
    [][\A p \in PVNames :
           victim[p] = NoVictim /\ victim'[p] # NoVictim => NodeGone(p)]_vars

\* A worker decides to delete a claim no sooner than --pvc-deletion-delay
\* after the deletion of every node of its PV.
WaitsTheDelay ==
    [][\A p \in PVNames :
           victim[p] = NoVictim /\ victim'[p] # NoVictim
               => \A n \in NodeNames(p) : n \notin nodes /\ goneFor[n] >= Delay]_vars

\* The Deleter decides to delete a PV only when the PV has an affinity to
\* nodes that do not exist.
OnlyStalePVs ==
    [][doomed = NoName /\ doomed' # NoName => NodeGone(doomed')]_vars

\* A PV of a deleted node that no claim uses, and whose policy does not say
\* otherwise, is deleted unless a node of it comes back.
StalePVDeleted ==
    \A p \in Eligible :
        /\ NodeGone(p)
        /\ pvs[p].phase = "Available" \/ (pvs[p].phase = "Released" /\ PolicyOf[p] = "Delete")
        ~> pvs[p] = NoPV \/ ~NodeGone(p)

\* A claim bound to a PV of a deleted node is deleted unless a node of the PV
\* comes back: "a timer is started for resource deletion".
StrandedClaimDeleted ==
    \A p \in Eligible, c \in Claims, u \in UIDs \ {0} :
        claims[c].uid = u /\ claims[c].volume = p /\ NodeGone(p)
            ~> claims[c].uid # u \/ ~NodeGone(p)

-----------------------------------------------------------------------------
(* Why the node is gone when its PV or claim is given up: what the node    *)
(* lister, the delaying queue and the workers know.                        *)

\* A node that returns is seen at once, or none returns.
NodesKnown == ~Lags \/ "nodeReturns" \notin Faults

\* Whatever the node lister lacks does not exist: Run waits for the caches,
\* nodeDeleted is called by a synced informer, and the events still to come
\* are deletions.
NodeViewInv ==
    /\ running => synced = Kinds
    /\ ~Lags \/ "node" \notin synced => nodeEvents = <<>>
    /\ "node" \notin synced => notices = 0
    /\ "node" \in synced => nodes \subseteq nodeLister
    /\ \A i \in 1..Len(nodeEvents) : ~nodeEvents[i].exists /\ nodeEvents[i].node \notin nodes

\* No node of the PV exists, and each has been gone for the delay in so many
\* ticks at most.
GoneIn(p, ticks) == \A n \in NodeNames(p) : n \notin nodes /\ goneFor[n] + ticks >= Delay

\* A timer of pvQueue ends no sooner than --pvc-deletion-delay after the
\* deletion of the PV's nodes, and what is in the queue or in the hands of a
\* worker has waited that long, back-offs of deletePVC included.
DelayInv ==
    \A p \in PVNames :
        /\ timers[p] # NoTimer => GoneIn(p, timers[p])
        /\ p \in dirty \/ victim[p] # NoVictim => GoneIn(p, 0)
=============================================================================
