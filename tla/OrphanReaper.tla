---------------------------- MODULE OrphanReaper ----------------------------
(***************************************************************************)
(* orphanreaper.Reconciler: the sweep that finds allocated GameServers no  *)
(* lease answers for (an allocation that landed after its attempt was      *)
(* forgotten).  A sweep lists the objects, then the leases; an object      *)
(* whose attempt no lease protects is reclaimed once it has been seen so   *)
(* in two consecutive complete sweeps, a grace apart.                      *)
(*   idle, leases     the object scan, then the lease scan                 *)
(*   reclaim, delete  per orphan: the exact read, the conditional delete   *)
(* A sweep that fails a scan, or its process, forgets every observation.   *)
(***************************************************************************)
EXTENDS Fleet

CONSTANT Reapers    \* Nakama instances that reap

VARIABLES rPc,      \* where each sweep is
          rFound,   \* the candidates of the object scan, then the due ones
          rSeen,    \* unprotected in the last complete sweep
          rAged,    \* those of them observed for the whole grace
          rAim      \* the orphan being deleted, or None

reaperVars == <<rPc, rFound, rSeen, rAged, rAim>>

ReaperPCs == {"idle", "leases", "reclaim", "delete"}

ReaperInit ==
  /\ rPc    = [r \in Reapers |-> "idle"]
  /\ rFound = [r \in Reapers |-> {}]
  /\ rSeen  = [r \in Reapers |-> {}]
  /\ rAged  = [r \in Reapers |-> {}]
  /\ rAim   = [r \in Reapers |-> None]

ReapersTypeOK ==
  /\ rPc \in [Reapers -> ReaperPCs]
  /\ rFound \in [Reapers -> SUBSET Servers]
  /\ rSeen \in [Reapers -> SUBSET Servers]
  /\ rAged \in [Reapers -> SUBSET Servers]
  /\ rAim \in [Reapers -> Servers \cup {None}]
  /\ \A r \in Reapers : rPc[r] = "delete" => rAim[r] # None

ReaperGoto(r, label) == rPc' = [rPc EXCEPT ![r] = label]

\* Only Allocated objects with an attempt label are candidates.
ScanObjects(r) ==
  /\ rPc[r] = "idle"
  /\ rFound' = [rFound EXCEPT ![r] = {s \in Servers : server[s].state = "allocated"}]
  /\ ReaperGoto(r, "leases")
  /\ UNCHANGED <<storeVars, fleetVars, rSeen, rAged, rAim>>

\* Mutant of ProtectedAttempts: a staging lease names no allocation to protect.
AllocatedAttempts == IF lease = None \/ lease.staging THEN {} ELSE {lease.attempt}

\* ProtectedAttempts: every stored lease protects its attempt, whatever its
\* state.
ProtectedAttempts == IF lease = None THEN {} ELSE {lease.attempt}

ScanLeases(r) ==
  /\ rPc[r] = "leases"
  /\ LET orphans == {s \in rFound[r] : server[s].attempt \notin ProtectedAttempts} IN
     /\ rFound' = [rFound EXCEPT ![r] = orphans \cap rSeen[r] \cap rAged[r]]
     /\ rSeen'  = [rSeen EXCEPT ![r] = orphans]
     /\ rAged'  = [rAged EXCEPT ![r] = @ \cap orphans]
  /\ ReaperGoto(r, "reclaim")
  /\ UNCHANGED <<storeVars, fleetVars, rAim>>

\* Done with a candidate; settled: its observation is forgotten as well.
Passes(r, s, settled) ==
  /\ rFound' = [rFound EXCEPT ![r] = @ \ {s}]
  /\ rSeen'  = [rSeen EXCEPT ![r] = IF settled THEN @ \ {s} ELSE @]
  /\ rAged'  = [rAged EXCEPT ![r] = IF settled THEN @ \ {s} ELSE @]

\* The exact read: an object that is gone or no longer Allocated is no concern
\* of the reaper any more.
ReclaimReads(r) ==
  /\ rPc[r] = "reclaim"
  /\ \E s \in rFound[r] :
       \/ /\ server[s].state = "allocated"
          /\ ReaperGoto(r, "delete") /\ rAim' = [rAim EXCEPT ![r] = s]
          /\ UNCHANGED <<rFound, rSeen, rAged>>
       \/ /\ server[s].state # "allocated"
          /\ Passes(r, s, TRUE) /\ UNCHANGED <<rPc, rAim>>
  /\ UNCHANGED <<storeVars, fleetVars>>

\* The delete carries the UID and the resourceVersion just read, so an object
\* that has moved on rejects it.  A rejected or failed delete keeps the
\* observation for the next sweep.
ReclaimDeletes(r) ==
  /\ rPc[r] = "delete"
  /\ ReaperGoto(r, "reclaim") /\ rAim' = [rAim EXCEPT ![r] = None]
  /\ LET s == rAim[r] IN
     \/ /\ server[s].state = "allocated"
        /\ DeleteServer(s) /\ Passes(r, s, TRUE) /\ UNCHANGED faults
     \/ /\ server[s].state # "allocated"
        /\ Passes(r, s, server[s].state = "deleted") /\ UNCHANGED <<server, faults>>
     \/ DeleteFails(s) /\ Passes(r, s, FALSE)
  /\ UNCHANGED <<lease, expired, inflight>>

\* Mutant of SweepEnds: the sweep's observations are not kept for the next one.
SweepForgets(r) ==
  /\ rPc[r] = "reclaim"
  /\ rFound[r] = {}
  /\ ReaperGoto(r, "idle")
  /\ rSeen' = [rSeen EXCEPT ![r] = {}]
  /\ rAged' = [rAged EXCEPT ![r] = {}]
  /\ UNCHANGED <<storeVars, fleetVars, rFound, rAim>>

SweepEnds(r) ==
  /\ rPc[r] = "reclaim"
  /\ rFound[r] = {}
  /\ ReaperGoto(r, "idle")
  /\ UNCHANGED <<storeVars, fleetVars, rFound, rSeen, rAged, rAim>>

\* The grace of an observed candidate elapses.
GraceElapses(r) ==
  /\ \E s \in rSeen[r] \ rAged[r] : rAged' = [rAged EXCEPT ![r] = @ \cup {s}]
  /\ UNCHANGED <<storeVars, fleetVars, rPc, rFound, rSeen, rAim>>

\* A scan is refused, the sweep is cancelled or its process restarts.
ReaperFails(r) ==
  /\ rPc[r] # "idle"
  /\ Fault
  /\ ReaperGoto(r, "idle")
  /\ rFound' = [rFound EXCEPT ![r] = {}]
  /\ rSeen' = [rSeen EXCEPT ![r] = {}]
  /\ rAged' = [rAged EXCEPT ![r] = {}]
  /\ rAim' = [rAim EXCEPT ![r] = None]
  /\ UNCHANGED <<lease, expired, fleetVars>>

ReaperStep(r) ==
  \/ ScanObjects(r) \/ ScanLeases(r) \/ ReclaimReads(r) \/ ReclaimDeletes(r)
  \/ SweepEnds(r)
=============================================================================
