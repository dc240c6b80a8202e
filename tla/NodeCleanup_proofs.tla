------------------------- MODULE NodeCleanup_proofs -------------------------
(***************************************************************************)
(* Proofs about NodeCleanup, for every set of nodes, PVs and claims, every *)
(* delay and every combination of late events, restarts, failing requests  *)
(* and nodes that return.                                                  *)
(*                                                                         *)
(* The controller never deletes a claim other than the one that is bound   *)
(* to the stale PV.  It reads the claim from one lister and the PV from    *)
(* another, and both may be arbitrarily old, so the invariant is about     *)
(* what is in flight: whatever version of a claim an event, a store or a   *)
(* worker holds, it tells the truth about the claim of that UID for as     *)
(* long as that claim exists.                                              *)
(*                                                                         *)
(* Two more arguments follow.  Where no node returns unseen, what the node *)
(* lister lacks does not exist, so a node that is there is not taken for   *)
(* deleted.  And where no node returns at all, an entry of the queue,      *)
(* wherever it is, comes to its claim no sooner than the delay after the   *)
(* nodes of its PV were deleted.                                           *)
(***************************************************************************)
EXTENDS NodeCleanup, TLAPS

-----------------------------------------------------------------------------
(* The invariant.                                                          *)

\* A version of a claim that was on the API server once: a UID is not given
\* twice, and a claim that was bound stays bound to that PV.
Fact(claim, current, lastUID) ==
    /\ claim \in Claim /\ claim.uid <= lastUID
    /\ claim.uid = 0 => claim.volume = NoName
    /\ claim.volume # NoName /\ claim.uid = current.uid => current.volume = claim.volume

ClaimFact(c, claim) == Fact(claim, claims[c], uids)

\* What a worker knows of the claim it is about to delete.
VictimFact(p) ==
    victim[p] # NoVictim =>
        /\ victim[p].claim \in Claims /\ victim[p].uid # 0 /\ victim[p].uid <= uids
        /\ claims[victim[p].claim].uid = victim[p].uid => claims[victim[p].claim].volume = p

PVTypes ==
    /\ pvs \in [PVNames -> PV] /\ pvLister \in [PVNames -> PV]
    /\ pvEvents \in Seq([name : PVNames, pv : PV])

ClaimTypes ==
    /\ uids \in UIDs /\ victim \in [PVNames -> Victim]
    /\ claims \in [Claims -> Claim] /\ claimLister \in [Claims -> Claim]
    /\ claimEvents \in Seq([name : Claims, claim : Claim])

ClaimFacts ==
    /\ \A c \in Claims : ClaimFact(c, claims[c]) /\ ClaimFact(c, claimLister[c])
    /\ \A i \in 1..Len(claimEvents) : ClaimFact(claimEvents[i].name, claimEvents[i].claim)
    /\ \A p \in PVNames : VictimFact(p)

ClaimsInv == PVTypes /\ ClaimTypes /\ ClaimFacts

\* The Deleter is about to delete a PV or none.
DoomedInv == doomed \in PVNames \cup {NoName}

\* What the invariant is about.
claimsVars == <<pvVars, claimVars, uids, victim>>

-----------------------------------------------------------------------------
(* Types.                                                                  *)

\* The values for "no object" are values of the object types.
LEMMA NoObjects == NoPV \in PV /\ NewPV \in PV /\ NoClaim \in Claim /\ NoVictim \in Victim
<1>1. 0 \in UIDs
  BY CleanupAssumption DEF UIDs
<1> QED
  BY <1>1 DEF NoPV, NewPV, PV, Workload, NoClaim, Claim, NoVictim, Victim

\* Writing a PV keeps the types.
LEMMA PutPVTypes ==
  ASSUME PVTypes, NEW p \in PVNames, NEW pv \in PV, PutPV(p, pv)
  PROVE  PVTypes'
<1> DEFINE T == [name : PVNames, pv : PV]
           e == [name |-> p, pv |-> pv]
<1>1. pvs' \in [PVNames -> PV]
  BY DEF PVTypes, PutPV
<1>2. pvLister' \in [PVNames -> PV]
  BY <1>1 DEF PVTypes, PutPV
<1>3. pvEvents \in Seq(T) /\ (pvEvents' = Append(pvEvents, e) \/ pvEvents' = pvEvents)
  BY DEF PVTypes, PutPV
<1>4. e \in T
  OBVIOUS
<1> HIDE DEF T, e
<1>5. pvEvents' \in Seq(T)
  BY <1>3, <1>4
<1> QED
  BY <1>1, <1>2, <1>5 DEF PVTypes, T

\* And so does asking for the deletion of a PV.
LEMMA RequestPVDeletionTypes ==
  ASSUME PVTypes, NEW p \in PVNames, RequestPVDeletion(p)
  PROVE  PVTypes'
<1>1. CASE pvs[p] = NoPV \/ pvs[p].deleting
  BY <1>1 DEF RequestPVDeletion, PVTypes
<1>2. CASE ~(pvs[p] = NoPV \/ pvs[p].deleting)
  <2>1. [pvs[p] EXCEPT !.deleting = TRUE] \in PV
    <3>1. pvs[p] \in PV
      BY DEF PVTypes
    <3> QED
      BY <3>1 DEF PV
  <2>2. PutPV(p, [pvs[p] EXCEPT !.deleting = TRUE])
    BY <1>2 DEF RequestPVDeletion
  <2> QED
    BY <2>1, <2>2, PutPVTypes, Zenon
<1> QED
  BY <1>1, <1>2

-----------------------------------------------------------------------------
(* Writing a claim.                                                        *)

\* A claim is created under a new UID, bound when it was not, or deleted.
Allowed(c, claim) ==
    \/ claim = NoClaim /\ uids' = uids
    \/ claim = [uid |-> uids + 1, volume |-> NoName] /\ uids' = uids + 1
    \/ /\ claims[c].uid # 0 /\ claims[c].volume = NoName /\ uids' = uids
       /\ \E p \in PVNames : claim = [claims[c] EXCEPT !.volume = p]

\* That keeps every version true that was true.
LEMMA FactsStayTrue ==
  ASSUME ClaimTypes, ClaimFacts, NEW c \in Claims, NEW claim \in Claim, Allowed(c, claim),
         uids' \in UIDs, claims' = [claims EXCEPT ![c] = claim]
  PROVE  /\ \A n \in Claims, r \in Claim :
                Fact(r, claims[n], uids) => Fact(r, claims'[n], uids')
         /\ Fact(claim, claims'[c], uids')
<1>1. uids \in Nat /\ uids' \in Nat /\ uids <= uids' /\ claims[c] \in Claim
  BY CleanupAssumption DEF ClaimTypes, UIDs, Allowed
<1>2. claims'[c] = claim /\ \A n \in Claims \ {c} : claims'[n] = claims[n]
  BY DEF ClaimTypes
<1>3. claim.uid \in Nat /\ claims[c].uid \in Nat /\ claims[c].uid <= uids
  BY <1>1, CleanupAssumption DEF Claim, UIDs, ClaimFacts, ClaimFact, Fact
<1>4. \/ claim.uid = 0 /\ claim.volume = NoName
      \/ claim.uid = uids + 1 /\ uids' = uids + 1 /\ claim.volume = NoName
      \/ claim.uid = claims[c].uid /\ claim.uid # 0 /\ claims[c].volume = NoName
  BY <1>1 DEF Allowed, NoClaim, Claim
<1>5. Fact(claim, claims'[c], uids')
  BY <1>1, <1>2, <1>3, <1>4 DEF Fact
<1>6. ASSUME NEW n \in Claims, NEW r \in Claim, Fact(r, claims[n], uids)
      PROVE  Fact(r, claims'[n], uids')
  <2>1. r.uid \in Nat /\ r.uid <= uids'
    BY <1>1, <1>6, CleanupAssumption DEF Fact, Claim, UIDs
  <2>2. CASE n # c
    BY <1>2, <1>6, <2>1, <2>2 DEF Fact
  <2>3. CASE n = c
    <3>1. r.volume # NoName => r.uid # 0 /\ r.uid # uids + 1
      BY <1>1, <1>6, <2>1 DEF Fact
    <3>2. r.volume # NoName /\ r.uid = claims[c].uid => claims[c].volume # NoName
      BY <1>6, <2>3 DEF Fact
    <3>3. ~(r.volume # NoName /\ r.uid = claim.uid)
      BY <1>4, <3>1, <3>2
    <3> QED
      BY <1>2, <1>6, <2>1, <2>3, <3>3 DEF Fact
  <2> QED
    BY <2>2, <2>3
<1> QED
  BY <1>5, <1>6

\* Whatever is written, the stores, the events and the workers keep to it; a
\* worker may have ended.
LEMMA PutClaimInv ==
  ASSUME ClaimTypes, ClaimFacts, NEW c \in Claims, NEW claim \in Claim, Allowed(c, claim),
         uids' \in UIDs, PutClaim(c, claim),
         victim' \in [PVNames -> Victim], \A p \in PVNames : victim'[p] \in {victim[p], NoVictim}
  PROVE  ClaimTypes' /\ ClaimFacts'
<1> DEFINE T == [name : Claims, claim : Claim]
           e == [name |-> c, claim |-> claim]
<1>1. claims' = [claims EXCEPT ![c] = claim] /\ claims' \in [Claims -> Claim]
  BY DEF PutClaim, ClaimTypes
<1>2. /\ \A n \in Claims, r \in Claim : Fact(r, claims[n], uids) => Fact(r, claims'[n], uids')
      /\ Fact(claim, claims'[c], uids')
  BY <1>1, FactsStayTrue
<1>3. claimLister' = claims' \/ claimLister' = claimLister
  BY DEF PutClaim
<1>4. claimEvents \in Seq(T) /\ (claimEvents' = Append(claimEvents, e) \/ claimEvents' = claimEvents)
  BY DEF PutClaim, ClaimTypes
<1>5. e \in T /\ e.name = c /\ e.claim = claim
  OBVIOUS
<1> HIDE DEF T, e
<1>6. \A i \in 1..Len(claimEvents) : claimEvents[i].name \in Claims /\ claimEvents[i].claim \in Claim
  <2>1. \A i \in 1..Len(claimEvents) : claimEvents[i] \in T
    BY <1>4
  <2> QED
    BY <2>1 DEF T
<1>7. claimEvents' \in Seq(T)
  BY <1>4, <1>5
<1>8. ClaimTypes'
  BY <1>1, <1>3, <1>7 DEF ClaimTypes, T
<1>9. ASSUME NEW n \in Claims PROVE ClaimFact(n, claims[n])' /\ ClaimFact(n, claimLister[n])'
  <2>1. /\ Fact(claims[n], claims[n], uids) /\ claims[n] \in Claim
        /\ Fact(claimLister[n], claims[n], uids) /\ claimLister[n] \in Claim
    BY DEF ClaimFacts, ClaimFact, ClaimTypes
  <2>2. (n = c /\ claims'[n] = claim) \/ claims'[n] = claims[n]
    BY <1>1 DEF ClaimTypes
  <2>3. Fact(claims'[n], claims'[n], uids') /\ Fact(claimLister[n], claims'[n], uids')
    BY <1>2, <2>1, <2>2
  <2> QED
    BY <1>3, <2>3 DEF ClaimFact
<1>10. ASSUME NEW i \in 1..Len(claimEvents')
       PROVE  ClaimFact(claimEvents[i].name, claimEvents[i].claim)'
  <2>1. \/ /\ i \in 1..Len(claimEvents) /\ claimEvents'[i] = claimEvents[i]
        \/ claimEvents'[i] = e
    BY <1>4, <1>5
  <2>2. CASE claimEvents'[i] = e
    BY <1>2, <1>5, <2>2 DEF ClaimFact
  <2>3. CASE i \in 1..Len(claimEvents) /\ claimEvents'[i] = claimEvents[i]
    <3> DEFINE n == claimEvents[i].name
               r == claimEvents[i].claim
    <3>1. Fact(r, claims[n], uids) /\ n \in Claims /\ r \in Claim
      BY <1>6, <2>3 DEF ClaimFacts, ClaimFact
    <3>2. claimEvents'[i].name = n /\ claimEvents'[i].claim = r
      BY <2>3
    <3>3. Fact(r, claims'[n], uids')
      BY <1>2, <3>1
    <3> QED
      BY <3>2, <3>3 DEF ClaimFact
  <2> QED
    BY <2>1, <2>2, <2>3
<1>11. ASSUME NEW p \in PVNames PROVE VictimFact(p)'
  <2>1. CASE victim'[p] = NoVictim
    BY <2>1 DEF VictimFact
  <2>2. CASE victim'[p] = victim[p] /\ victim[p] # NoVictim
    <3> DEFINE n == victim[p].claim
               r == [uid |-> victim[p].uid, volume |-> p]
    <3>1. VictimFact(p) /\ n \in Claims /\ victim[p].uid # 0 /\ r \in Claim
      BY <2>2 DEF ClaimFacts, VictimFact, ClaimTypes, Victim, Claim
    <3>2. p # NoName
      BY CleanupAssumption
    <3>3. Fact(r, claims[n], uids)
      BY <2>2, <3>1 DEF VictimFact, Fact
    <3>4. Fact(r, claims'[n], uids')
      BY <1>2, <3>1, <3>3
    <3> QED
      BY <2>2, <3>1, <3>2, <3>4 DEF VictimFact, Fact
  <2> QED
    BY <2>1, <2>2
<1> QED
  BY <1>8, <1>9, <1>10, <1>11 DEF ClaimFacts

-----------------------------------------------------------------------------
(* The steps.                                                              *)

\* Steps that touch neither PVs, claims nor workers.
LEMMA QuietInv ==
  ASSUME ClaimsInv, UNCHANGED claimsVars
  PROVE  ClaimsInv'
  BY DEF claimsVars, pvVars, claimVars, ClaimsInv, PVTypes, ClaimTypes, ClaimFacts, ClaimFact,
         VictimFact

\* Steps that write PVs only.
LEMMA PVStepInv ==
  ASSUME ClaimsInv, PVTypes', UNCHANGED <<claimVars, uids, victim>>
  PROVE  ClaimsInv'
  BY DEF claimVars, ClaimsInv, ClaimTypes, ClaimFacts, ClaimFact, VictimFact

\* The cluster.
LEMMA ClusterInv ==
  ASSUME ClaimsInv, Cluster
  PROVE  ClaimsInv'
<1> USE DEF ClaimsInv
<1>1. ASSUME NEW n \in Nodes, DeleteNode(n) \/ NodeReturns(n) PROVE ClaimsInv'
  BY <1>1, QuietInv DEF DeleteNode, NodeReturns, ProcessUnchanged, queueVars, claimsVars
<1>2. ASSUME NEW p \in PVNames, CreatePV(p) \/ ReleasePV(p) \/ ReclaimPV(p) \/ PVProtection(p)
      PROVE  ClaimsInv'
  <2>1. [pvs[p] EXCEPT !.phase = "Released"] \in PV
    BY DEF PVTypes, PV, Workload
  <2>2. PVTypes'
    BY <1>2, <2>1, NoObjects, PutPVTypes, RequestPVDeletionTypes
    DEF CreatePV, ReleasePV, ReclaimPV, PVProtection
  <2>3. UNCHANGED <<claimVars, uids, victim>>
    BY <1>2 DEF CreatePV, ReleasePV, ReclaimPV, PVProtection, ProcessUnchanged, queueVars
  <2> QED
    BY <2>2, <2>3, PVStepInv
<1>3. ASSUME NEW c \in Claims, CreateClaim(c) PROVE ClaimsInv'
  <2> DEFINE claim == [uid |-> uids + 1, volume |-> NoName]
  <2>1. /\ PutClaim(c, claim) /\ uids' = uids + 1 /\ uids < MaxUID
        /\ UNCHANGED <<pvVars, victim>>
    BY <1>3 DEF CreateClaim, ProcessUnchanged, queueVars
  <2>2. uids' \in UIDs /\ claim \in Claim
    BY <2>1, CleanupAssumption DEF ClaimTypes, UIDs, Claim
  <2>3. Allowed(c, claim)
    BY <2>1 DEF Allowed
  <2>4. ClaimTypes' /\ ClaimFacts'
    <3>1. victim' \in [PVNames -> Victim] /\ \A p \in PVNames : victim'[p] \in {victim[p], NoVictim}
      BY <2>1 DEF ClaimTypes
    <3> HIDE DEF claim
    <3> QED
      BY <2>1, <2>2, <2>3, <3>1, PutClaimInv
  <2>5. PVTypes'
    BY <2>1 DEF PVTypes, pvVars
  <2> QED
    BY <2>4, <2>5
<1>4. ASSUME NEW c \in Claims, UserDeletesClaim(c) PROVE ClaimsInv'
  <2>1. PutClaim(c, NoClaim) /\ UNCHANGED <<pvVars, victim, uids>>
    BY <1>4 DEF UserDeletesClaim, ProcessUnchanged, queueVars
  <2>2. /\ victim' \in [PVNames -> Victim] /\ uids' \in UIDs
        /\ \A p \in PVNames : victim'[p] \in {victim[p], NoVictim}
    BY <2>1 DEF ClaimTypes
  <2>3. ClaimTypes' /\ ClaimFacts'
    BY <2>1, <2>2, NoObjects, PutClaimInv DEF Allowed
  <2>4. PVTypes'
    BY <2>1 DEF PVTypes, pvVars
  <2> QED
    BY <2>3, <2>4
<1>5. ASSUME NEW c \in Claims, NEW p \in PVNames, Bind(c, p) PROVE ClaimsInv'
  <2> DEFINE pv == [pvs[p] EXCEPT !.phase = "Bound", !.claim = c, !.uid = claims[c].uid]
             claim == [claims[c] EXCEPT !.volume = p]
  <2>1. /\ PutPV(p, pv) /\ PutClaim(c, claim) /\ UNCHANGED <<uids, victim>>
        /\ claims[c].uid # 0 /\ claims[c].volume = NoName
    BY <1>5 DEF Bind, ProcessUnchanged, queueVars
  <2>2. claims[c] \in Claim /\ pvs[p] \in PV
    BY DEF ClaimTypes, PVTypes
  <2>3. pv \in PV /\ claim \in Claim
    BY <2>2 DEF PV, Claim, Workload
  <2>4. Allowed(c, claim)
    BY <2>1 DEF Allowed
  <2>5. /\ victim' \in [PVNames -> Victim] /\ uids' \in UIDs
        /\ \A q \in PVNames : victim'[q] \in {victim[q], NoVictim}
    BY <2>1 DEF ClaimTypes
  <2> HIDE DEF pv, claim
  <2>6. ClaimTypes' /\ ClaimFacts'
    BY <2>1, <2>3, <2>4, <2>5, PutClaimInv
  <2>7. PVTypes'
    BY <2>1, <2>3, PutPVTypes
  <2> QED
    BY <2>6, <2>7
<1> QED
  BY <1>1, <1>2, <1>3, <1>4, <1>5 DEF Cluster

\* The informers: a store takes up a version that was in flight, or the
\* claims as they are.
LEMMA InformersInv ==
  ASSUME ClaimsInv, Informers
  PROVE  ClaimsInv'
<1> USE DEF ClaimsInv
<1>1. CASE DeliverNode
  BY <1>1, QuietInv DEF DeliverNode, ProcessUnchanged, queueVars, claimsVars, apiVars, pvVars,
                        claimVars
<1>2. CASE DeliverPV
  <2> DEFINE T == [name : PVNames, pv : PV]
             e == Head(pvEvents)
  <2>1. pvEvents \in Seq(T) /\ pvEvents # <<>>
    BY <1>2 DEF DeliverPV, PVTypes
  <2>2. /\ pvLister' = [pvLister EXCEPT ![e.name] = e.pv] /\ pvEvents' = Tail(pvEvents)
        /\ pvs' = pvs /\ UNCHANGED <<claimVars, uids, victim>>
    BY <1>2 DEF DeliverPV, apiVars, ProcessUnchanged, queueVars
  <2> HIDE DEF T, e
  <2>3. e \in T /\ pvEvents' \in Seq(T)
    BY <2>1, <2>2 DEF e
  <2>4. PVTypes'
    BY <2>2, <2>3 DEF PVTypes, T
  <2> QED
    BY <2>2, <2>4, PVStepInv
<1>3. CASE DeliverClaim
  <2> DEFINE T == [name : Claims, claim : Claim]
             e == Head(claimEvents)
  <2>1. claimEvents \in Seq(T) /\ claimEvents # <<>>
    BY <1>3 DEF DeliverClaim, ClaimTypes
  <2>2. /\ claimLister' = [claimLister EXCEPT ![e.name] = e.claim]
        /\ claimEvents' = Tail(claimEvents)
        /\ UNCHANGED <<claims, uids, victim, pvVars>>
    BY <1>3 DEF DeliverClaim, apiVars, ProcessUnchanged, queueVars
  <2>3. ClaimFact(e.name, e.claim)
    <3>1. 1 \in 1..Len(claimEvents) /\ e = claimEvents[1]
      BY <2>1
    <3> QED
      BY <3>1 DEF ClaimFacts
  <2> HIDE DEF T, e
  <2>4. e \in T /\ claimEvents' \in Seq(T)
    BY <2>1, <2>2 DEF e
  <2>5. \A i \in 1..Len(claimEvents') : i + 1 \in 1..Len(claimEvents) /\ claimEvents'[i] = claimEvents[i + 1]
    BY <2>1, <2>2
  <2>6. ClaimTypes' /\ PVTypes'
    BY <2>2, <2>4 DEF ClaimTypes, PVTypes, pvVars, T
  <2>7. \A c \in Claims : ClaimFact(c, claims[c])' /\ ClaimFact(c, claimLister[c])'
    BY <2>2, <2>3, <2>4 DEF ClaimFacts, ClaimFact, ClaimTypes, T
  <2>8. \A i \in 1..Len(claimEvents') : ClaimFact(claimEvents[i].name, claimEvents[i].claim)'
    BY <2>2, <2>5 DEF ClaimFacts, ClaimFact
  <2>9. \A p \in PVNames : VictimFact(p)'
    BY <2>2 DEF ClaimFacts, VictimFact
  <2> QED
    BY <2>6, <2>7, <2>8, <2>9 DEF ClaimFacts
<1>4. ASSUME NEW kind \in Kinds, SyncInformer(kind) PROVE ClaimsInv'
  <2>1. /\ UNCHANGED <<pvs, claims, uids, pvEvents, claimEvents, victim>>
        /\ pvLister' \in {pvs, pvLister} /\ claimLister' \in {claims, claimLister}
    BY <1>4 DEF SyncInformer, apiVars, ProcessUnchanged, queueVars
  <2>2. PVTypes' /\ ClaimTypes'
    BY <2>1 DEF PVTypes, ClaimTypes
  <2>3. ClaimFacts'
    BY <2>1 DEF ClaimFacts, ClaimFact, VictimFact
  <2> QED
    BY <2>2, <2>3
<1> QED
  BY <1>1, <1>2, <1>3, <1>4 DEF Informers

\* A restart forgets what was in flight.
LEMMA RestartInv ==
  ASSUME ClaimsInv, Restart
  PROVE  ClaimsInv'
<1> USE DEF ClaimsInv
<1>1. PVTypes' /\ ClaimTypes'
  BY NoObjects DEF Restart, apiVars, PVTypes, ClaimTypes
<1>2. \A c \in Claims : claimLister'[c] = NoClaim /\ claims'[c] = claims[c]
  BY DEF Restart, apiVars
<1>3. \A c \in Claims : ClaimFact(c, claims[c])' /\ ClaimFact(c, claimLister[c])'
  <2>1. uids \in Nat /\ uids' = uids /\ claims' = claims
    BY CleanupAssumption DEF ClaimTypes, UIDs, Restart, apiVars
  <2>2. \A c \in Claims : Fact(NoClaim, claims[c], uids)
    BY <2>1, NoObjects DEF Fact, NoClaim
  <2> QED
    BY <1>2, <2>1, <2>2 DEF ClaimFacts, ClaimFact
<1>4. Len(claimEvents') = 0 /\ \A p \in PVNames : VictimFact(p)'
  BY DEF Restart, VictimFact
<1> QED
  BY <1>1, <1>3, <1>4 DEF ClaimFacts

\* The controller and the Deleter.
LEMMA ControllerInv ==
  ASSUME ClaimsInv, DoomedInv, Controller \/ Deleter
  PROVE  ClaimsInv'
<1> USE DEF ClaimsInv
<1>1. CASE Run \/ NodeDeleted \/ Tick \/ BeginPass \/ DeletePVFails \/ \E p \in PVNames : JudgePV(p)
  BY <1>1, QuietInv DEF Run, NodeDeleted, Tick, BeginPass, DeletePVFails, JudgePV, claimsVars,
                        apiVars, informerVars, queueVars, pvVars, claimVars
<1>2. ASSUME NEW p \in PVNames, TimerEnds(p) \/ SyncHandlerReturns(p) PROVE ClaimsInv'
  BY <1>2, QuietInv DEF TimerEnds, SyncHandlerReturns, claimsVars, apiVars, informerVars, pvVars,
                        claimVars
<1>3. ASSUME NEW p \in PVNames, SyncHandlerDeletes(p) PROVE ClaimsInv'
  <2> DEFINE c == pvLister[p].claim
  <2>1. /\ UNCHANGED <<pvVars, claimVars, uids>>
        /\ victim' = [victim EXCEPT ![p] = ClaimRef(p)] /\ MustDeleteClaim(p)
    BY <1>3 DEF SyncHandlerDeletes, apiVars, informerVars, pvVars, claimVars
  <2>2. c \in Claims /\ pvLister[p].uid \in UIDs /\ claimLister[c].uid = pvLister[p].uid
        /\ claimLister[c].uid # 0 /\ claimLister[c].volume = p
    BY <2>1 DEF MustDeleteClaim, ClaimShown, PVTypes, PV
  <2>3. Fact(claimLister[c], claims[c], uids) /\ p # NoName
    BY <2>2, CleanupAssumption DEF ClaimFacts, ClaimFact
  <2>4. /\ ClaimRef(p) \in Victim /\ ClaimRef(p).claim = c /\ ClaimRef(p).uid = claimLister[c].uid
    BY <2>2 DEF ClaimRef, Victim
  <2>5. PVTypes' /\ ClaimTypes'
    BY <2>1, <2>4 DEF PVTypes, ClaimTypes, pvVars, claimVars
  <2>6. \A q \in PVNames : VictimFact(q)'
    <3> TAKE q \in PVNames
    <3>1. CASE q # p
      BY <2>1, <3>1 DEF VictimFact, ClaimFacts, ClaimTypes, claimVars
    <3>2. CASE q = p
      <4>1. victim'[p] = ClaimRef(p) /\ claims' = claims /\ uids' = uids
        BY <2>1 DEF ClaimTypes, claimVars
      <4> QED
        BY <2>2, <2>3, <2>4, <3>2, <4>1 DEF VictimFact, Fact
    <3> QED
      BY <3>1, <3>2
  <2>7. ClaimFacts'
    BY <2>1, <2>6 DEF ClaimFacts, ClaimFact, claimVars
  <2> QED
    BY <2>5, <2>7
<1>4. ASSUME NEW p \in PVNames, DeletePVC(p) \/ DeletePVCFails(p) PROVE ClaimsInv'
  <2>1. /\ victim[p] # NoVictim /\ victim' = [victim EXCEPT ![p] = NoVictim]
        /\ PutClaim(victim[p].claim, NoClaim) \/ UNCHANGED claimVars
        /\ UNCHANGED <<pvVars, uids>>
    BY <1>4 DEF DeletePVC, DeletePVCFails, apiVars, informerVars, claimVars, pvVars
  <2>2. /\ victim' \in [PVNames -> Victim] /\ uids' \in UIDs
        /\ \A q \in PVNames : victim'[q] \in {victim[q], NoVictim}
    BY <2>1, NoObjects DEF ClaimTypes
  <2>3. PVTypes'
    BY <2>1 DEF PVTypes, pvVars
  <2>4. CASE PutClaim(victim[p].claim, NoClaim)
    <3>1. victim[p].claim \in Claims
      BY <2>1 DEF ClaimFacts, VictimFact
    <3>2. ClaimTypes' /\ ClaimFacts'
      BY <2>1, <2>2, <2>4, <3>1, NoObjects, PutClaimInv DEF Allowed
    <3> QED
      BY <2>3, <3>2
  <2>5. CASE UNCHANGED claimVars
    <3>1. ClaimTypes'
      BY <2>1, <2>2, <2>5 DEF ClaimTypes, claimVars
    <3>2. ClaimFacts'
      BY <2>1, <2>2, <2>5 DEF ClaimFacts, ClaimFact, VictimFact, claimVars
    <3> QED
      BY <2>3, <3>1, <3>2
  <2> QED
    BY <2>1, <2>4, <2>5
<1>5. CASE DeletePV
  <2>1. doomed \in PVNames /\ RequestPVDeletion(doomed) /\ UNCHANGED <<claimVars, uids, victim>>
    BY <1>5 DEF DeletePV, DoomedInv, queueVars
  <2> QED
    BY <2>1, RequestPVDeletionTypes, PVStepInv
<1> QED
  BY <1>1, <1>2, <1>3, <1>4, <1>5 DEF Controller, Deleter

\* Every step.
LEMMA NextInv ==
  ASSUME ClaimsInv, DoomedInv, [Next]_vars
  PROVE  ClaimsInv' /\ DoomedInv'
<1>1. CASE UNCHANGED vars
  BY <1>1, QuietInv DEF vars, apiVars, informerVars, queueVars, deleterVars, claimsVars, pvVars,
                        claimVars, DoomedInv
<1>2. CASE Cluster
  <2>1. UNCHANGED doomed
    BY <1>2 DEF Cluster, DeleteNode, NodeReturns, CreatePV, ReleasePV, ReclaimPV, PVProtection,
                CreateClaim, UserDeletesClaim, Bind, ProcessUnchanged, deleterVars
  <2> QED
    BY <1>2, <2>1, ClusterInv DEF DoomedInv
<1>3. CASE Informers
  <2>1. UNCHANGED doomed
    BY <1>3 DEF Informers, DeliverNode, DeliverPV, DeliverClaim, SyncInformer, ProcessUnchanged,
                deleterVars
  <2> QED
    BY <1>3, <2>1, InformersInv DEF DoomedInv
<1>4. CASE Controller
  <2>1. UNCHANGED doomed
    BY <1>4 DEF Controller, Run, NodeDeleted, Tick, TimerEnds, SyncHandlerReturns,
                SyncHandlerDeletes, DeletePVC, DeletePVCFails, deleterVars
  <2> QED
    BY <1>4, <2>1, ControllerInv DEF DoomedInv
<1>5. CASE Deleter
  <2>1. DoomedInv'
    BY <1>5 DEF Deleter, BeginPass, DeletePV, DeletePVFails, JudgePV, DoomedInv
  <2> QED
    BY <1>5, <2>1, ControllerInv
<1>6. CASE Restart
  BY <1>6, RestartInv DEF Restart, DoomedInv
<1> QED
  BY <1>1, <1>2, <1>3, <1>4, <1>5, <1>6 DEF Next

-----------------------------------------------------------------------------
(* The theorems.                                                           *)

\* Whatever is in flight tells the truth about the claim of its UID.
THEOREM ClaimsInvariant == Spec => [](ClaimsInv /\ DoomedInv)
<1>1. Init => ClaimsInv /\ DoomedInv
  <2> SUFFICES ASSUME Init PROVE ClaimsInv /\ DoomedInv
    OBVIOUS
  <2>1. 0 \in UIDs
    BY CleanupAssumption DEF UIDs
  <2>2. PVTypes /\ ClaimTypes /\ DoomedInv
    BY <2>1, NoObjects DEF Init, PVTypes, ClaimTypes, DoomedInv
  <2>3. \A c \in Claims : Fact(NoClaim, NoClaim, 0)
    BY NoObjects DEF Fact, NoClaim
  <2>4. ClaimFacts
    BY <2>3 DEF Init, ClaimFacts, ClaimFact, VictimFact
  <2> QED
    BY <2>2, <2>4 DEF ClaimsInv
<1> QED
  BY <1>1, NextInv, PTL DEF Spec

\* The controller deletes no claim but the one that is bound to the PV whose
\* timer ended, however old the PV and the claim were that it compared
\* (syncHandler, deletePVC).
THEOREM NoOtherClaimDeleted == Spec => OnlyTheBoundClaim
<1>1. ASSUME ClaimsInv, [Next]_vars, NEW p \in PVNames, NEW c \in Claims,
             victim[p] # NoVictim, victim'[p] = NoVictim, claims'[c] # claims[c]
      PROVE  claims[c].volume = p /\ claims[c].uid = victim[p].uid
  <2>1. DeletePVC(p) \/ DeletePVCFails(p)
    <3>1. ~UNCHANGED victim /\ ~UNCHANGED claims
      BY <1>1
    <3>2. ~Cluster /\ ~Informers
      BY <3>1 DEF Cluster, DeleteNode, NodeReturns, CreatePV, ReleasePV, ReclaimPV, PVProtection,
                  CreateClaim, UserDeletesClaim, Bind, Informers, DeliverNode, DeliverPV,
                  DeliverClaim, SyncInformer, ProcessUnchanged, queueVars
    <3>3. ~Deleter /\ ~Restart /\ ~UNCHANGED vars
      BY <3>1 DEF Deleter, BeginPass, DeletePV, DeletePVFails, JudgePV, Restart, vars, queueVars,
                  apiVars
    <3>4. PICK q \in PVNames : DeletePVC(q) \/ DeletePVCFails(q)
      BY <1>1, <3>1, <3>2, <3>3
      DEF Next, Controller, Run, NodeDeleted, Tick, TimerEnds, SyncHandlerReturns,
          SyncHandlerDeletes, apiVars
    <3>5. q = p
      BY <1>1, <3>4 DEF DeletePVC, DeletePVCFails, ClaimsInv, ClaimTypes
    <3> QED
      BY <3>4, <3>5
  <2>2. PreconditionHolds(p) /\ PutClaim(victim[p].claim, NoClaim)
    BY <1>1, <2>1 DEF DeletePVC, DeletePVCFails, claimVars
  <2>3. c = victim[p].claim
    BY <1>1, <2>2 DEF PutClaim, ClaimsInv, ClaimTypes
  <2> QED
    BY <1>1, <2>2, <2>3 DEF PreconditionHolds, ClaimsInv, ClaimFacts, VictimFact
<1>2. ClaimsInv /\ [Next]_vars =>
        [\A p \in PVNames, c \in Claims :
            victim[p] # NoVictim /\ victim'[p] = NoVictim /\ claims'[c] # claims[c]
                => claims[c].volume = p /\ claims[c].uid = victim[p].uid]_vars
  BY <1>1
<1> QED
  BY <1>2, ClaimsInvariant, PTL DEF Spec, OnlyTheBoundClaim

-----------------------------------------------------------------------------
(* Types of the rest of the state.                                         *)

NodeTypes ==
    /\ nodes \subseteq Nodes /\ nodeLister \subseteq Nodes
    /\ nodeEvents \in Seq([node : Nodes, exists : BOOLEAN])
    /\ synced \subseteq Kinds /\ notices \in Nat /\ running \in BOOLEAN

QueueTypes ==
    /\ timers \in [PVNames -> (0..Delay) \cup {NoTimer}] /\ dirty \subseteq PVNames
    /\ goneFor \in [Nodes -> 0..Delay]

SnapshotType == snapshot \in [PVNames -> PV]

\* Min of two numbers.
LEMMA MinOfTwo ==
  ASSUME NEW a \in Int, NEW b \in Int
  PROVE  Min({a, b}) \in {a, b} /\ Min({a, b}) <= a /\ Min({a, b}) <= b
<1>1. \E x \in {a, b} : \A y \in {a, b} : x <= y
  OBVIOUS
<1> QED
  BY <1>1 DEF Min

\* Most steps leave the nodes, and what is known of them, alone.
LEMMA NodesAlone ==
  ASSUME [Next]_vars
  PROVE  \/ UNCHANGED <<nodeVars, running>>
         \/ \E n \in Nodes : DeleteNode(n) \/ NodeReturns(n)
         \/ DeliverNode \/ Restart \/ Run \/ NodeDeleted
         \/ \E kind \in Kinds : SyncInformer(kind)
<1>1. Cluster => \/ UNCHANGED <<nodeVars, running>>
                 \/ \E n \in Nodes : DeleteNode(n) \/ NodeReturns(n)
  BY DEF Cluster, CreatePV, ReleasePV, ReclaimPV, PVProtection, CreateClaim, UserDeletesClaim,
         Bind, ProcessUnchanged
<1>2. DeliverPV \/ DeliverClaim => UNCHANGED <<nodeVars, running>>
  BY DEF DeliverPV, DeliverClaim, ProcessUnchanged
<1>3. Controller => UNCHANGED <<nodeVars, running>> \/ Run \/ NodeDeleted
  BY DEF Controller, Tick, TimerEnds, SyncHandlerReturns, SyncHandlerDeletes, DeletePVC,
         DeletePVCFails, apiVars, informerVars, nodeVars
<1>4. Deleter \/ UNCHANGED vars => UNCHANGED <<nodeVars, running>>
  BY DEF Deleter, BeginPass, DeletePV, DeletePVFails, JudgePV, vars, apiVars, informerVars, nodeVars
<1> QED
  BY <1>1, <1>2, <1>3, <1>4 DEF Next, Informers

\* And most steps leave the queue and the clock alone.
LEMMA QueueAlone ==
  ASSUME [Next]_vars
  PROVE  \/ UNCHANGED <<nodes, goneFor, queueVars>>
         \/ \E n \in Nodes : DeleteNode(n) \/ NodeReturns(n)
         \/ Restart \/ Controller
<1>1. Cluster => \/ UNCHANGED <<nodes, goneFor, queueVars>>
                 \/ \E n \in Nodes : DeleteNode(n) \/ NodeReturns(n)
  BY DEF Cluster, CreatePV, ReleasePV, ReclaimPV, PVProtection, CreateClaim, UserDeletesClaim,
         Bind, ProcessUnchanged, nodeVars
<1>2. Informers => UNCHANGED <<nodes, goneFor, queueVars>>
  BY DEF Informers, DeliverNode, DeliverPV, DeliverClaim, SyncInformer, ProcessUnchanged, apiVars
<1>3. Deleter \/ UNCHANGED vars => UNCHANGED <<nodes, goneFor, queueVars>>
  BY DEF Deleter, BeginPass, DeletePV, DeletePVFails, JudgePV, vars, apiVars, nodeVars
<1> QED
  BY <1>1, <1>2, <1>3 DEF Next

\* What is known of the nodes keeps its types.
LEMMA NodeTypesKept ==
  ASSUME NodeTypes, [Next]_vars
  PROVE  NodeTypes'
<1> DEFINE T == [node : Nodes, exists : BOOLEAN]
<1>1. ASSUME NEW n \in Nodes, DeleteNode(n) \/ NodeReturns(n) PROVE NodeTypes'
  <2>1. PICK exists \in BOOLEAN : PutNode(n, exists) /\ UNCHANGED running
    BY <1>1 DEF DeleteNode, NodeReturns, ProcessUnchanged
  <2> DEFINE e == [node |-> n, exists |-> exists]
  <2>2. nodeEvents \in Seq(T) /\ nodeEvents' \in {nodeEvents, Append(nodeEvents, e)} /\ e \in T
    BY <2>1 DEF PutNode, NodeTypes
  <2>3. nodeEvents' \in Seq(T)
    <3> HIDE DEF T, e
    <3> QED
      BY <2>2
  <2> QED
    BY <2>1, <2>3 DEF PutNode, NodeTypes
<1>2. CASE DeliverNode
  <2>1. nodeEvents \in Seq(T) /\ nodeEvents # <<>> /\ nodeEvents' = Tail(nodeEvents)
    BY <1>2 DEF DeliverNode, NodeTypes
  <2>2. nodeEvents' \in Seq(T) /\ Head(nodeEvents) \in T
    <3> HIDE DEF T
    <3> QED
      BY <2>1
  <2> QED
    BY <1>2, <2>2 DEF DeliverNode, NodeTypes, apiVars, ProcessUnchanged
<1>3. CASE Restart
  <2>1. /\ nodes' = nodes /\ nodeLister' = {} /\ nodeEvents' = <<>> /\ synced' = {} /\ notices' = 0
        /\ running' = FALSE
    BY <1>3 DEF Restart, apiVars
  <2>2. running' \in BOOLEAN
    BY <2>1
  <2> QED
    BY <2>1, <2>2 DEF NodeTypes
<1>4. CASE Run \/ NodeDeleted
  <2>1. /\ UNCHANGED <<nodes, nodeLister, nodeEvents, synced>> /\ running' \in {running, TRUE}
        /\ notices' = notices \/ (notices > 0 /\ notices' = notices - 1)
    BY <1>4 DEF Run, NodeDeleted, apiVars, informerVars
  <2>2. notices' \in Nat
    BY <2>1 DEF NodeTypes
  <2>3. running' \in BOOLEAN
    BY <2>1, Zenon DEF NodeTypes
  <2> QED
    BY <2>1, <2>2, <2>3 DEF NodeTypes
<1>5. ASSUME NEW kind \in Kinds, SyncInformer(kind) PROVE NodeTypes'
  <2>1. /\ UNCHANGED <<nodes, nodeEvents, notices, running>> /\ nodeLister' \in {nodes, nodeLister}
        /\ synced' = synced \cup {kind}
    BY <1>5 DEF SyncInformer, apiVars, ProcessUnchanged
  <2> QED
    BY <2>1 DEF NodeTypes
<1>6. CASE UNCHANGED <<nodeVars, running>>
  BY <1>6 DEF nodeVars, NodeTypes
<1> QED
  BY <1>1, <1>2, <1>3, <1>4, <1>5, <1>6, NodesAlone

\* The delaying queue keeps a time that is no later than either of two.
LEMMA AddAfterType ==
  ASSUME QueueTypes, NEW p \in PVNames, NEW ticks \in 0..Delay
  PROVE  /\ AddAfter(p, ticks) \in 0..Delay
         /\ AddAfter(p, ticks) = ticks \/ (timers[p] # NoTimer /\ AddAfter(p, ticks) = timers[p])
<1>1. timers[p] \in (0..Delay) \cup {NoTimer} /\ Delay \in Nat
  BY CleanupAssumption DEF QueueTypes
<1>2. CASE timers[p] = NoTimer
  BY <1>2 DEF AddAfter
<1>3. CASE timers[p] # NoTimer
  <2>1. Min({timers[p], ticks}) \in {timers[p], ticks}
    <3>1. timers[p] \in Int /\ ticks \in Int
      BY <1>1, <1>3
    <3> QED
      BY <3>1, MinOfTwo, Zenon
  <2> QED
    BY <1>1, <1>3, <2>1 DEF AddAfter
<1> QED
  BY <1>2, <1>3

\* The queue and the clock keep their types.
LEMMA QueueTypesKept ==
  ASSUME QueueTypes, [Next]_vars
  PROVE  QueueTypes'
<1>0. Delay \in Nat /\ Delay \in 0..Delay
  BY CleanupAssumption
<1>1. ASSUME NEW n \in Nodes, DeleteNode(n) \/ NodeReturns(n) PROVE QueueTypes'
  <2>1. UNCHANGED <<timers, dirty>> /\ goneFor' = [goneFor EXCEPT ![n] = 0]
    BY <1>1 DEF DeleteNode, NodeReturns, ProcessUnchanged, queueVars
  <2> QED
    BY <1>0, <2>1 DEF QueueTypes
<1>2. CASE Restart
  BY <1>2 DEF Restart, QueueTypes
<1>3. CASE Run \/ NodeDeleted
  <2>1. StartCleanupTimersIfNeeded /\ UNCHANGED <<dirty, goneFor>>
    BY <1>3 DEF Run, NodeDeleted
  <2>2. \A p \in PVNames : AddAfter(p, Delay) \in 0..Delay
    BY <1>0, AddAfterType
  <2> QED
    BY <2>1, <2>2 DEF StartCleanupTimersIfNeeded, QueueTypes
<1>4. CASE Tick
  <2>1. ASSUME NEW n \in Nodes PROVE Min({Delay, goneFor[n] + 1}) \in 0..Delay
    <3>1. goneFor[n] \in 0..Delay
      BY DEF QueueTypes
    <3>2. /\ Min({Delay, goneFor[n] + 1}) \in {Delay, goneFor[n] + 1}
          /\ Min({Delay, goneFor[n] + 1}) <= Delay
      <4>1. Delay \in Int /\ goneFor[n] + 1 \in Int
        BY <1>0, <3>1
      <4> QED
        BY <4>1, MinOfTwo, Zenon
    <3> QED
      BY <1>0, <3>1, <3>2
  <2>2. goneFor' \in [Nodes -> 0..Delay]
    BY <1>0, <1>4, <2>1 DEF Tick
  <2>3. timers' \in [PVNames -> (0..Delay) \cup {NoTimer}]
    BY <1>0, <1>4 DEF Tick, QueueTypes, NoTimer
  <2> QED
    BY <1>4, <2>2, <2>3 DEF Tick, QueueTypes
<1>5. ASSUME NEW p \in PVNames, \/ TimerEnds(p) \/ SyncHandlerReturns(p) \/ SyncHandlerDeletes(p)
                                \/ DeletePVC(p)
      PROVE  QueueTypes'
  BY <1>5 DEF TimerEnds, SyncHandlerReturns, SyncHandlerDeletes, GetItem, DeletePVC, QueueTypes
<1>6. ASSUME NEW p \in PVNames, DeletePVCFails(p) PROVE QueueTypes'
  <2>1. PICK backoff \in 1..Delay : timers' = [timers EXCEPT ![p] = AddAfter(p, backoff)]
    BY <1>6 DEF DeletePVCFails
  <2>2. AddAfter(p, backoff) \in 0..Delay
    BY <1>0, AddAfterType
  <2> QED
    BY <1>6, <2>1, <2>2 DEF DeletePVCFails, QueueTypes
<1>7. CASE UNCHANGED <<nodes, goneFor, queueVars>>
  BY <1>7 DEF queueVars, QueueTypes
<1> QED
  BY <1>1, <1>2, <1>3, <1>4, <1>5, <1>6, <1>7, QueueAlone DEF Controller

\* Every variable keeps its type, for every combination of faults.
THEOREM TypeCorrect == Spec => []TypeOK
<1>1. Init => NodeTypes /\ QueueTypes /\ SnapshotType
  BY CleanupAssumption, NoObjects DEF Init, NodeTypes, QueueTypes, SnapshotType
<1>2. NodeTypes /\ QueueTypes /\ [Next]_vars => NodeTypes' /\ QueueTypes'
  BY NodeTypesKept, QueueTypesKept
<1>3. PVTypes /\ SnapshotType /\ [Next]_vars => SnapshotType'
  <2> SUFFICES ASSUME PVTypes, SnapshotType, [Next]_vars
               PROVE  SnapshotType'
    OBVIOUS
  <2>1. Cluster \/ Informers \/ Controller \/ UNCHANGED vars => SnapshotType'
    BY DEF SnapshotType, Cluster, DeleteNode, NodeReturns, CreatePV, ReleasePV, ReclaimPV, PVProtection,
           CreateClaim, UserDeletesClaim, Bind, Informers, DeliverNode, DeliverPV, DeliverClaim,
           SyncInformer, ProcessUnchanged, Controller, Run, NodeDeleted, Tick, TimerEnds,
           SyncHandlerReturns, SyncHandlerDeletes, DeletePVC, DeletePVCFails, vars, deleterVars
  <2>2. Deleter \/ Restart => SnapshotType'
    BY NoObjects DEF SnapshotType, PVTypes, Deleter, BeginPass, DeletePV, DeletePVFails, JudgePV, Restart
  <2> QED
    BY <2>1, <2>2 DEF Next
<1>4. /\ ClaimsInv /\ DoomedInv /\ NodeTypes /\ QueueTypes /\ SnapshotType
      => TypeOK
  BY DEF ClaimsInv, PVTypes, ClaimTypes, DoomedInv, NodeTypes, QueueTypes, SnapshotType, TypeOK
<1>5. ClaimsInv => PVTypes
  BY DEF ClaimsInv
<1> QED
  BY <1>1, <1>2, <1>3, <1>4, <1>5, ClaimsInvariant, PTL DEF Spec

-----------------------------------------------------------------------------
(* What the node lister shows.                                             *)

\* A synced node lister has every node there is.
LEMMA NodeViewKept ==
  ASSUME NodesKnown, NodeTypes, NodeViewInv, [Next]_vars
  PROVE  NodeViewInv'
<1> DEFINE T == [node : Nodes, exists : BOOLEAN]
<1>0. nodeEvents \in Seq(T) /\ synced \subseteq Kinds /\ "node" \in Kinds
  BY DEF NodeTypes, Kinds
<1>1. ASSUME NEW n \in Nodes, NEW exists \in BOOLEAN, PutNode(n, exists), UNCHANGED running,
             Lags => ~exists
      PROVE  NodeViewInv'
  <2> DEFINE e == [node |-> n, exists |-> exists]
  <2>1. UNCHANGED synced /\ nodes' = IF exists THEN nodes \cup {n} ELSE nodes \ {n}
    BY <1>1 DEF PutNode
  <2>2. CASE "node" \notin synced
    BY <1>1, <2>1, <2>2 DEF PutNode, NodeViewInv
  <2>3. CASE "node" \in synced /\ ~Lags
    BY <1>1, <2>1, <2>3 DEF PutNode, NodeViewInv
  <2>4. CASE "node" \in synced /\ Lags
    <3>1. /\ nodeEvents' = Append(nodeEvents, e) /\ UNCHANGED <<nodeLister, notices>>
          /\ nodes' = nodes \ {n} /\ e.node = n /\ ~e.exists /\ e \in T
      BY <1>1, <2>1, <2>4 DEF PutNode
    <3>2. \A i \in 1..Len(nodeEvents') :
              \/ i \in 1..Len(nodeEvents) /\ nodeEvents'[i] = nodeEvents[i]
              \/ nodeEvents'[i] = e
      <4> HIDE DEF T, e
      <4> QED
        BY <1>0, <3>1
    <3>3. \A i \in 1..Len(nodeEvents') :
              ~nodeEvents'[i].exists /\ nodeEvents'[i].node \notin nodes'
      <4> HIDE DEF e
      <4> QED
        BY <3>1, <3>2 DEF NodeViewInv
    <3> QED
      BY <1>1, <2>1, <2>4, <3>1, <3>3 DEF NodeViewInv
  <2> QED
    BY <2>2, <2>3, <2>4
<1>2. ASSUME NEW n \in Nodes, DeleteNode(n) \/ NodeReturns(n) PROVE NodeViewInv'
  <2>1. DeleteNode(n) => PutNode(n, FALSE) /\ UNCHANGED running
    BY DEF DeleteNode, ProcessUnchanged
  <2>2. NodeReturns(n) => ~Lags /\ PutNode(n, TRUE) /\ UNCHANGED running
    BY DEF NodeReturns, NodesKnown, ProcessUnchanged
  <2> QED
    BY <1>1, <1>2, <2>1, <2>2
<1>3. CASE DeliverNode
  <2> DEFINE e == Head(nodeEvents)
  <2>1. /\ nodeEvents # <<>> /\ nodeEvents' = Tail(nodeEvents)
        /\ UNCHANGED <<nodes, synced, running>>
        /\ nodeLister' = IF e.exists THEN nodeLister \cup {e.node} ELSE nodeLister \ {e.node}
    BY <1>3 DEF DeliverNode, apiVars, ProcessUnchanged
  <2>2. /\ 1 \in 1..Len(nodeEvents) /\ e = nodeEvents[1]
        /\ \A i \in 1..Len(nodeEvents') :
               i + 1 \in 1..Len(nodeEvents) /\ nodeEvents'[i] = nodeEvents[i + 1]
    <3> HIDE DEF T
    <3> QED
      BY <1>0, <2>1
  <2>3. "node" \in synced /\ Lags /\ e.node \notin nodes
    BY <2>1, <2>2 DEF NodeViewInv
  <2>4. \A i \in 1..Len(nodeEvents') : ~nodeEvents'[i].exists /\ nodeEvents'[i].node \notin nodes
    BY <2>2 DEF NodeViewInv
  <2> HIDE DEF e
  <2> QED
    BY <2>1, <2>3, <2>4 DEF NodeViewInv
<1>4. CASE Restart
  <2>1. Len(nodeEvents') = 0
    BY <1>4 DEF Restart
  <2> QED
    BY <1>4, <2>1 DEF Restart, NodeViewInv
<1>5. CASE Run \/ NodeDeleted
  BY <1>0, <1>5 DEF Run, NodeDeleted, NodeViewInv, NodeTypes, apiVars, informerVars
<1>6. ASSUME NEW kind \in Kinds, SyncInformer(kind) PROVE NodeViewInv'
  <2>1. /\ UNCHANGED <<nodes, nodeEvents, notices, running>> /\ kind \notin synced
        /\ synced' = synced \cup {kind} /\ nodeLister' = IF kind = "node" THEN nodes ELSE nodeLister
    BY <1>6 DEF SyncInformer, apiVars, ProcessUnchanged
  <2>2. ~running
    BY <2>1 DEF NodeViewInv
  <2> QED
    BY <2>1, <2>2 DEF NodeViewInv
<1>7. CASE UNCHANGED <<nodeVars, running>>
  BY <1>7 DEF nodeVars, NodeViewInv
<1> QED
  BY <1>2, <1>3, <1>4, <1>5, <1>6, <1>7, NodesAlone

\* Whatever the node lister of a controller that runs lacks does not exist.
THEOREM NodeView ==
  ASSUME NodesKnown
  PROVE  Spec => []NodeViewInv
<1>1. Init => NodeViewInv
  BY DEF Init, NodeViewInv, Kinds
<1>2. TypeOK => NodeTypes
  BY DEF TypeOK, NodeTypes
<1>3. NodeTypes /\ NodeViewInv /\ [Next]_vars => NodeViewInv'
  BY NodeViewKept
<1> QED
  BY <1>1, <1>2, <1>3, TypeCorrect, PTL DEF Spec

\* A PV that has a required affinity names a node by it, as the PVs that the
\* provisioner creates do.
NamesNodes == \A p \in PVNames : NodeNamesIsNil(p) \/ NodeNames(p) # {}

\* A worker takes up a claim in one step only.
LEMMA VictimChosen ==
  ASSUME ClaimTypes, [Next]_vars, NEW p \in PVNames, victim[p] = NoVictim, victim'[p] # NoVictim
  PROVE  SyncHandlerDeletes(p)
<1>1. ~UNCHANGED victim
  OBVIOUS
<1>2. ~Cluster /\ ~Informers
  BY <1>1 DEF Cluster, DeleteNode, NodeReturns, CreatePV, ReleasePV, ReclaimPV, PVProtection,
              CreateClaim, UserDeletesClaim, Bind, Informers, DeliverNode, DeliverPV,
              DeliverClaim, SyncInformer, ProcessUnchanged, queueVars
<1>3. ~Deleter /\ ~UNCHANGED vars
  BY <1>1 DEF Deleter, BeginPass, DeletePV, DeletePVFails, JudgePV, vars, queueVars
<1>4. ~Restart
  BY DEF Restart
<1>5. PICK q \in PVNames : SyncHandlerDeletes(q) \/ DeletePVC(q) \/ DeletePVCFails(q)
  BY <1>1, <1>2, <1>3, <1>4
  DEF Next, Controller, Run, NodeDeleted, Tick, TimerEnds, SyncHandlerReturns
<1>6. \A v \in Victim : victim' = [victim EXCEPT ![q] = v] => q = p /\ victim'[p] = v
  BY DEF ClaimTypes
<1>7. ~DeletePVC(q) /\ ~DeletePVCFails(q)
  BY <1>6, NoObjects DEF DeletePVC, DeletePVCFails
<1>8. q = p
  BY <1>5, <1>7 DEF SyncHandlerDeletes, ClaimTypes
<1> QED
  BY <1>5, <1>7, <1>8

\* A node that came back before the timer ended saves the claim: syncHandler
\* looks for it again in a lister that has every node.
THEOREM ReturnedNodeSpares ==
  ASSUME NodesKnown, NamesNodes
  PROVE  Spec => SparedIfNodeReturned
<1>1. ASSUME ClaimTypes, NodeViewInv, [Next]_vars, NEW p \in PVNames,
             victim[p] = NoVictim, victim'[p] # NoVictim
      PROVE  NodeGone(p)
  <2>1. running /\ ~NodeNamesIsNil(p) /\ NodeNames(p) \cap nodeLister = {}
    BY <1>1, VictimChosen DEF SyncHandlerDeletes, GetItem, MustDeleteClaim, AnyNodeExists
  <2>2. nodes \subseteq nodeLister
    BY <1>1, <2>1 DEF NodeViewInv, Kinds
  <2> QED
    BY <2>1, <2>2 DEF NodeGone, NamesNodes
<1>2. ClaimTypes /\ NodeViewInv /\ [Next]_vars =>
        [\A p \in PVNames :
             victim[p] = NoVictim /\ victim'[p] # NoVictim => NodeGone(p)]_vars
  BY <1>1
<1>3. TypeOK => ClaimTypes
  BY DEF TypeOK, ClaimTypes
<1> QED
  BY <1>2, <1>3, TypeCorrect, NodeView, PTL DEF Spec, SparedIfNodeReturned

\* The Deleter, which does not wait for its informers, deletes the PVs of
\* deleted nodes only, as long as the process is not started anew.
THEOREM DeleterSparesLiveNodes ==
  ASSUME NodesKnown, NamesNodes, "restart" \notin Faults
  PROVE  Spec => OnlyStalePVs
<1>1. Init => synced = Kinds
  BY DEF Init
<1>2. synced = Kinds /\ [Next]_vars => (synced = Kinds)'
  <2> SUFFICES ASSUME synced = Kinds, [Next]_vars PROVE synced' = Kinds
    OBVIOUS
  <2>1. UNCHANGED <<nodeVars, running>> \/ DeliverNode \/ Run \/ NodeDeleted => UNCHANGED synced
    BY DEF nodeVars, DeliverNode, Run, NodeDeleted, informerVars
  <2>2. \A n \in Nodes : DeleteNode(n) \/ NodeReturns(n) => UNCHANGED synced
    BY DEF DeleteNode, NodeReturns, PutNode
  <2>3. ~Restart /\ \A kind \in Kinds : ~SyncInformer(kind)
    BY DEF Restart, SyncInformer
  <2> QED
    BY <2>1, <2>2, <2>3, NodesAlone
<1>3. ASSUME DoomedInv, NodeViewInv, synced = Kinds, [Next]_vars, doomed = NoName, doomed' # NoName
      PROVE  NodeGone(doomed')
  <2>1. PICK p \in PVNames : doomed' = p /\ MustDeletePV(p)
    <3>1. ~Cluster /\ ~Informers
      BY <1>3 DEF Cluster, DeleteNode, NodeReturns, CreatePV, ReleasePV, ReclaimPV, PVProtection,
                  CreateClaim, UserDeletesClaim, Bind, Informers, DeliverNode, DeliverPV,
                  DeliverClaim, SyncInformer, ProcessUnchanged, deleterVars
    <3>2. ~Controller /\ ~Restart /\ ~UNCHANGED vars
      BY <1>3 DEF Controller, Run, NodeDeleted, Tick, TimerEnds, SyncHandlerReturns,
                  SyncHandlerDeletes, DeletePVC, DeletePVCFails, Restart, vars, deleterVars
    <3> QED
      BY <1>3, <3>1, <3>2 DEF Next, Deleter, BeginPass, DeletePV, DeletePVFails, JudgePV
  <2>2. ~NodeNamesIsNil(p) /\ NodeNames(p) \cap nodeLister = {}
    BY <2>1 DEF MustDeletePV, ReferencesNonExistentNode, AnyNodeExists
  <2>3. nodes \subseteq nodeLister
    BY <1>3 DEF NodeViewInv, Kinds
  <2> QED
    BY <2>1, <2>2, <2>3 DEF NodeGone, NamesNodes
<1>4. DoomedInv /\ NodeViewInv /\ synced = Kinds /\ [Next]_vars =>
        [doomed = NoName /\ doomed' # NoName => NodeGone(doomed')]_vars
  BY <1>3
<1> QED
  BY <1>1, <1>2, <1>4, ClaimsInvariant, NodeView, PTL DEF Spec, OnlyStalePVs

-----------------------------------------------------------------------------
(* The delay.                                                              *)

\* A PV that has waited long enough goes on waiting long enough while its
\* nodes stay away and the clock does not go back.
LEMMA GoneInKept ==
  ASSUME QueueTypes, NEW p \in PVNames, NEW s \in 0..Delay, NEW t \in 0..Delay, GoneIn(p, s),
         s <= t, nodes' \subseteq nodes,
         \A n \in Nodes \ nodes : goneFor'[n] \in Nat /\ goneFor'[n] >= goneFor[n]
  PROVE  GoneIn(p, t)'
<1>1. SUFFICES ASSUME NEW n \in NodeNames(p) PROVE n \notin nodes' /\ goneFor'[n] + t >= Delay
  BY DEF GoneIn, NodeNames
<1>2. n \in Nodes
  BY DEF NodeNames, TermNodes
<1>3. n \notin nodes /\ goneFor[n] + s >= Delay
  BY DEF GoneIn
<1>4. goneFor[n] \in Nat /\ goneFor'[n] \in Nat /\ goneFor'[n] >= goneFor[n] /\ Delay \in Nat
  BY <1>2, <1>3, CleanupAssumption DEF QueueTypes
<1> QED
  BY <1>3, <1>4

\* The steps that move neither a node nor the clock.
LEMMA QueueStepDelay ==
  ASSUME QueueTypes, DelayInv, UNCHANGED <<nodes, goneFor>>, QueueTypes',
         NEW p \in PVNames,
         timers'[p] \notin {timers[p], NoTimer} => GoneIn(p, timers'[p]),
         p \in dirty' \/ victim'[p] # NoVictim => GoneIn(p, 0)
  PROVE  /\ timers'[p] # NoTimer => GoneIn(p, timers[p])'
         /\ p \in dirty' \/ victim'[p] # NoVictim => GoneIn(p, 0)'
  BY DEF DelayInv, GoneIn

\* startCleanupTimersIfNeeded starts timers for PVs none of whose nodes exist.
LEMMA TimersStartDelay ==
  ASSUME QueueTypes, NodeViewInv, DelayInv, Run \/ NodeDeleted, QueueTypes', NodeTypes
  PROVE  DelayInv'
<1>1. /\ StartCleanupTimersIfNeeded /\ UNCHANGED <<nodes, goneFor, dirty, victim>>
      /\ nodes \subseteq nodeLister
  BY DEF Run, NodeDeleted, NodeViewInv, NodeTypes, Kinds, apiVars
<1>2. ASSUME NEW p \in PVNames, timers'[p] \notin {timers[p], NoTimer}
      PROVE  GoneIn(p, timers'[p])
  <2>1. timers'[p] = AddAfter(p, Delay) /\ NodeNames(p) \cap nodeLister = {}
    BY <1>1, <1>2 DEF StartCleanupTimersIfNeeded, ShouldEnqueueEntry, AnyNodeExists
  <2>2. timers'[p] = Delay /\ Delay \in Nat
    <3>1. Delay \in Nat /\ Delay \in 0..Delay
      BY CleanupAssumption
    <3>2. AddAfter(p, Delay) = Delay \/ AddAfter(p, Delay) = timers[p]
      BY <3>1, AddAfterType, Zenon
    <3> QED
      BY <1>2, <2>1, <3>1, <3>2, Zenon
  <2>3. ASSUME NEW n \in NodeNames(p) PROVE n \notin nodes /\ goneFor[n] + Delay >= Delay
    <3>1. n \in Nodes
      BY DEF NodeNames, TermNodes
    <3>2. goneFor[n] \in Nat
      BY <3>1 DEF QueueTypes
    <3> QED
      BY <1>1, <2>1, <2>2, <3>2
  <2> QED
    BY <2>2, <2>3 DEF GoneIn
<1>3. \A p \in PVNames : p \in dirty' \/ victim'[p] # NoVictim => GoneIn(p, 0)
  BY <1>1 DEF DelayInv
<1> QED
  BY <1>1, <1>2, <1>3, QueueStepDelay DEF DelayInv

\* A tick brings each timer nearer by one, and each deletion.
LEMMA TickDelay ==
  ASSUME QueueTypes, DelayInv, Tick
  PROVE  DelayInv'
<1>0. Delay \in Nat /\ 0 \in 0..Delay
  BY CleanupAssumption
<1>1. UNCHANGED <<nodes, dirty, victim>>
  BY DEF Tick, apiVars
<1>2. ASSUME NEW n \in Nodes \ nodes
      PROVE  /\ goneFor'[n] \in Nat /\ goneFor[n] \in 0..Delay /\ goneFor'[n] >= goneFor[n]
             /\ goneFor'[n] = Delay \/ goneFor'[n] = goneFor[n] + 1
  <2>1. goneFor[n] \in 0..Delay /\ goneFor'[n] = Min({Delay, goneFor[n] + 1})
    BY <1>2 DEF Tick, QueueTypes
  <2>2. Delay \in Int /\ goneFor[n] + 1 \in Int
    BY <1>0, <2>1
  <2>3. Min({Delay, goneFor[n] + 1}) \in {Delay, goneFor[n] + 1}
    BY <2>2, MinOfTwo, Zenon
  <2> QED
    BY <1>0, <2>1, <2>3
<1>3. ASSUME NEW p \in PVNames, timers'[p] # NoTimer PROVE GoneIn(p, timers[p])'
  <2>1. /\ timers[p] \in 0..Delay /\ timers'[p] = IF timers[p] > 0 THEN timers[p] - 1 ELSE timers[p]
        /\ GoneIn(p, timers[p])
    BY <1>0, <1>3 DEF Tick, QueueTypes, NoTimer, DelayInv
  <2>2. ASSUME NEW n \in NodeNames(p) PROVE n \notin nodes /\ goneFor'[n] + timers'[p] >= Delay
    <3>1. n \in Nodes /\ n \notin nodes /\ goneFor[n] + timers[p] >= Delay
      BY <2>1 DEF GoneIn, NodeNames, TermNodes
    <3>2. /\ goneFor'[n] \in Nat /\ goneFor[n] \in 0..Delay /\ goneFor'[n] >= goneFor[n]
          /\ goneFor'[n] = Delay \/ goneFor'[n] = goneFor[n] + 1
      BY <1>2, <3>1
    <3> QED
      BY <1>0, <2>1, <3>1, <3>2
  <2> QED
    BY <1>1, <2>2 DEF GoneIn, NodeNames
<1>4. ASSUME NEW p \in PVNames, p \in dirty' \/ victim'[p] # NoVictim PROVE GoneIn(p, 0)'
  <2>1. GoneIn(p, 0)
    BY <1>1, <1>4 DEF DelayInv
  <2> QED
    BY <1>0, <1>1, <1>2, <2>1, GoneInKept
<1> QED
  BY <1>3, <1>4 DEF DelayInv

\* A timer that ends, a worker's steps and its back-off.
LEMMA WorkerStepsDelay ==
  ASSUME QueueTypes, ClaimTypes, DelayInv, QueueTypes', NEW p \in PVNames,
         \/ TimerEnds(p) \/ SyncHandlerReturns(p) \/ SyncHandlerDeletes(p)
         \/ DeletePVC(p) \/ DeletePVCFails(p)
  PROVE  DelayInv'
<1>0. UNCHANGED <<nodes, goneFor>>
  BY DEF TimerEnds, SyncHandlerReturns, SyncHandlerDeletes, DeletePVC, DeletePVCFails, apiVars,
         nodeVars
<1>1. ASSUME NEW q \in PVNames, q # p
      PROVE  timers'[q] = timers[q] /\ victim'[q] = victim[q] /\ (q \in dirty' <=> q \in dirty)
  BY <1>1 DEF TimerEnds, SyncHandlerReturns, SyncHandlerDeletes, GetItem, DeletePVC,
              DeletePVCFails, QueueTypes, ClaimTypes
<1>2. /\ timers'[p] \notin {timers[p], NoTimer} => GoneIn(p, timers'[p])
      /\ p \in dirty' \/ victim'[p] # NoVictim => GoneIn(p, 0)
  <2>0. /\ timers[p] # NoTimer => GoneIn(p, timers[p])
        /\ p \in dirty \/ victim[p] # NoVictim => GoneIn(p, 0)
    BY DEF DelayInv
  <2>1. CASE TimerEnds(p)
    <3>1. timers[p] = 0 /\ timers'[p] = NoTimer
      BY <2>1 DEF TimerEnds, QueueTypes
    <3> QED
      BY <2>0, <3>1 DEF NoTimer
  <2>2. CASE SyncHandlerReturns(p) \/ SyncHandlerDeletes(p)
    BY <2>0, <2>2 DEF SyncHandlerReturns, SyncHandlerDeletes, GetItem
  <2>3. CASE DeletePVC(p)
    BY <2>0, <2>3 DEF DeletePVC, ClaimTypes
  <2>4. CASE DeletePVCFails(p)
    <3>1. GoneIn(p, 0) /\ UNCHANGED dirty /\ victim'[p] = NoVictim
      BY <2>0, <2>4 DEF DeletePVCFails, ClaimTypes
    <3>2. PICK backoff \in 1..Delay : timers'[p] = AddAfter(p, backoff)
      BY <2>4 DEF DeletePVCFails, QueueTypes
    <3>3. timers'[p] # timers[p] => timers'[p] = backoff
      <4>1. backoff \in 0..Delay
        BY CleanupAssumption
      <4>2. AddAfter(p, backoff) = backoff \/ AddAfter(p, backoff) = timers[p]
        BY <4>1, AddAfterType, Zenon
      <4> QED
        BY <3>2, <4>2, Zenon
    <3>4. GoneIn(p, backoff)
      <4>1. \A n \in NodeNames(p) : goneFor[n] \in Nat
        BY DEF QueueTypes, NodeNames, TermNodes
      <4> QED
        BY <3>1, <4>1, CleanupAssumption DEF GoneIn
    <3> QED
      BY <2>0, <3>1, <3>3, <3>4
  <2> QED
    BY <2>1, <2>2, <2>3, <2>4
<1>3. ASSUME NEW q \in PVNames
      PROVE  /\ timers'[q] \notin {timers[q], NoTimer} => GoneIn(q, timers'[q])
             /\ q \in dirty' \/ victim'[q] # NoVictim => GoneIn(q, 0)
  BY <1>1, <1>2 DEF DelayInv
<1> QED
  BY <1>0, <1>3, QueueStepDelay DEF DelayInv

\* Every step, where no node returns: a timer would outlive its cause.
LEMMA DelayKept ==
  ASSUME "nodeReturns" \notin Faults, TypeOK, TypeOK', NodeViewInv, DelayInv, [Next]_vars
  PROVE  DelayInv'
<1>0. QueueTypes /\ QueueTypes' /\ ClaimTypes /\ NodeTypes /\ 0 \in 0..Delay
  BY CleanupAssumption DEF TypeOK, QueueTypes, ClaimTypes, NodeTypes
<1>1. ASSUME NEW n \in Nodes, DeleteNode(n) PROVE DelayInv'
  <2>1. /\ nodes' = nodes \ {n} /\ n \in nodes /\ UNCHANGED <<timers, dirty, victim>>
        /\ goneFor' = [goneFor EXCEPT ![n] = 0]
    BY <1>1 DEF DeleteNode, PutNode, ProcessUnchanged, queueVars
  <2>2. \A m \in Nodes \ nodes : goneFor'[m] \in Nat /\ goneFor'[m] >= goneFor[m]
    BY <1>0, <2>1 DEF QueueTypes
  <2>3. ASSUME NEW p \in PVNames, timers[p] # NoTimer PROVE GoneIn(p, timers[p])'
    <3>1. timers[p] \in 0..Delay /\ timers[p] <= timers[p] /\ GoneIn(p, timers[p])
      BY <1>0, <2>3 DEF QueueTypes, DelayInv
    <3>2. \A t \in 0..Delay : t = timers[p] => GoneIn(p, t)'
      BY <1>0, <2>1, <2>2, <3>1, GoneInKept
    <3> QED
      BY <2>1, <3>1, <3>2 DEF GoneIn
  <2>4. ASSUME NEW p \in PVNames, p \in dirty \/ victim[p] # NoVictim PROVE GoneIn(p, 0)'
    BY <1>0, <2>1, <2>2, <2>4, GoneInKept DEF DelayInv
  <2> QED
    BY <2>1, <2>3, <2>4 DEF DelayInv
<1>2. \A n \in Nodes : ~NodeReturns(n)
  BY DEF NodeReturns
<1>3. CASE Restart
  BY <1>3 DEF Restart, DelayInv
<1>4. CASE UNCHANGED <<nodes, goneFor, queueVars>>
  BY <1>4 DEF queueVars, DelayInv, GoneIn
<1> QED
  BY <1>0, <1>1, <1>2, <1>3, <1>4, QueueAlone, TimersStartDelay, TickDelay, WorkerStepsDelay
  DEF Controller

\* Whatever is in pvQueue waits until the nodes of the PV have been gone for
\* the delay.
THEOREM DelayInvariant ==
  ASSUME "nodeReturns" \notin Faults
  PROVE  Spec => []DelayInv
<1>1. Init => DelayInv
  BY DEF Init, DelayInv
<1>2. NodesKnown
  BY DEF NodesKnown
<1>3. TypeOK /\ TypeOK' /\ NodeViewInv /\ DelayInv /\ [Next]_vars => DelayInv'
  BY DelayKept
<1>4. Spec => []NodeViewInv
  BY <1>2, NodeView
<1> QED
  BY <1>1, <1>3, <1>4, TypeCorrect, PTL DEF Spec

\* No claim is given up sooner than --pvc-deletion-delay after the deletion of
\* every node of its PV, whatever is late, fails or is started anew.
THEOREM DelayIsKept ==
  ASSUME "nodeReturns" \notin Faults
  PROVE  Spec => WaitsTheDelay
<1>1. ASSUME TypeOK, DelayInv, [Next]_vars, NEW p \in PVNames,
             victim[p] = NoVictim, victim'[p] # NoVictim
      PROVE  \A n \in NodeNames(p) : n \notin nodes /\ goneFor[n] >= Delay
  <2>1. ClaimTypes
    BY <1>1 DEF TypeOK, ClaimTypes
  <2>2. p \in dirty
    BY <1>1, <2>1, VictimChosen DEF SyncHandlerDeletes, GetItem
  <2>3. \A n \in NodeNames(p) : goneFor[n] \in Nat
    BY <1>1 DEF TypeOK, NodeNames, TermNodes
  <2> QED
    BY <1>1, <2>2, <2>3 DEF DelayInv, GoneIn
<1>2. TypeOK /\ DelayInv /\ [Next]_vars =>
        [\A p \in PVNames :
             victim[p] = NoVictim /\ victim'[p] # NoVictim
                 => \A n \in NodeNames(p) : n \notin nodes /\ goneFor[n] >= Delay]_vars
  BY <1>1
<1> QED
  BY <1>2, TypeCorrect, DelayInvariant, PTL DEF Spec, WaitsTheDelay
=============================================================================
