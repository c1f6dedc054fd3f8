--------------------------- MODULE ExpirySweeper ----------------------------
(***************************************************************************)
(* RunExpiryReconciler: each Nakama instance sweeps the lease collection   *)
(* at its interval (Store.ReclaimExpired over Coordinator.releaseResource).*)
(* One iteration over the key:                                             *)
(*   idle     list the collection                                          *)
(*   fence    write the releasing flag over the listed version             *)
(*   check    requireWriterKey before the external cleanup                 *)
(*   list, delete   resources.Release of the fenced lease                  *)
(*   remove   requireWriterKey and the exact-version delete                *)
(***************************************************************************)
EXTENDS Fleet

CONSTANT Sweepers   \* Nakama instances that sweep

VARIABLES swPc,     \* where each sweep is
          swObs,    \* the listed, then the fenced lease; None once cleanup failed
          swDoomed  \* objects the cleanup has left to delete

sweepVars == <<swPc, swObs, swDoomed>>

SweepPCs == {"idle", "fence", "check", "list", "delete", "remove"}

SweepInit ==
  /\ swPc     = [w \in Sweepers |-> "idle"]
  /\ swObs    = [w \in Sweepers |-> None]
  /\ swDoomed = [w \in Sweepers |-> {}]

\* What a sweep at label has in hand: the lease l.
SweepEquipped(label, l) ==
  /\ label \in {"fence", "check", "list", "remove"} => l # None
  /\ label = "fence" => ~l.claimed
  /\ label \in {"check", "list", "delete", "remove"} /\ l # None => l.releasing

SweepersTypeOK ==
  /\ swPc \in [Sweepers -> SweepPCs]
  /\ swObs \in [Sweepers -> StoredLease \cup {None}]
  /\ swDoomed \in [Sweepers -> SUBSET Servers]
  /\ \A w \in Sweepers : SweepEquipped(swPc[w], swObs[w])

\* Mutants of Reclaimable: an expired claim, an unobserved dispatch or a lease
\* whose cleanup was begun and abandoned is judged by its deadline alone.
ReclaimableThoughClaimed(l) == ~Quarantined(l) /\ (l.releasing \/ l.attempt \in expired)
ReclaimableThoughDispatched(l) == ~l.claimed /\ (l.releasing \/ l.attempt \in expired)
ReclaimableOnlyUnfenced(l) ==
  ~l.claimed /\ ~Quarantined(l) /\ ~l.releasing /\ l.attempt \in expired

\* A claimed lease, a dispatch nobody has fenced and a lease that still has
\* time are left alone.
Reclaimable(l) ==
  /\ ~l.claimed
  /\ ~Quarantined(l)
  /\ l.releasing \/ l.attempt \in expired

SweepGoto(w, label) == swPc' = [swPc EXCEPT ![w] = label]
SweepRests(w) ==
  /\ SweepGoto(w, "idle")
  /\ swObs' = [swObs EXCEPT ![w] = None]
  /\ swDoomed' = [swDoomed EXCEPT ![w] = {}]

SweepLists(w) ==
  /\ swPc[w] = "idle"
  /\ lease # None
  /\ Reclaimable(lease)
  /\ swObs' = [swObs EXCEPT ![w] = lease]
  /\ SweepGoto(w, IF lease.releasing THEN "check" ELSE "fence")
  /\ UNCHANGED <<storeVars, fleetVars, swDoomed>>

SweepFences(w) ==
  /\ swPc[w] = "fence"
  /\ \E result \in {"ok", "conflict", "error"} :
       /\ WriteExact(swObs[w], Fenced(swObs[w]), result)
       /\ IF result = "ok"
          THEN /\ SweepGoto(w, "check")
               /\ swObs' = [swObs EXCEPT ![w] = lease']
               /\ UNCHANGED swDoomed
          ELSE SweepRests(w)
  /\ UNCHANGED fleetVars

SweepChecks(w) ==
  /\ swPc[w] = "check"
  /\ LET l == swObs[w] IN
     IF lease # l
     THEN SweepRests(w)
     ELSE /\ SweepGoto(w, IF l.server = None THEN "list" ELSE "delete")
          /\ swDoomed' = [swDoomed EXCEPT ![w] =
               {s \in Servers : s = l.server /\ server[s].attempt = l.attempt}]
          /\ UNCHANGED swObs
  /\ UNCHANGED <<storeVars, fleetVars>>

SweepListsAttempt(w) ==
  /\ swPc[w] = "list"
  /\ swDoomed' = [swDoomed EXCEPT ![w] = Labelled(swObs[w].attempt)]
  /\ SweepGoto(w, "delete")
  /\ UNCHANGED <<storeVars, fleetVars, swObs>>

SweepDeletes(w) ==
  /\ swPc[w] = "delete"
  /\ \E s \in swDoomed[w] :
       /\ swDoomed' = [swDoomed EXCEPT ![w] = @ \ {s}]
       /\ \/ DeleteServer(s) /\ UNCHANGED <<faults, swObs>>
          \/ DeleteFails(s) /\ swObs' = [swObs EXCEPT ![w] = None]
  /\ UNCHANGED <<lease, expired, inflight, swPc>>

SweepCleaned(w) ==
  /\ swPc[w] = "delete"
  /\ swDoomed[w] = {}
  /\ IF swObs[w] = None THEN SweepRests(w)
     ELSE SweepGoto(w, "remove") /\ UNCHANGED <<swObs, swDoomed>>
  /\ UNCHANGED <<storeVars, fleetVars>>

SweepRemoves(w) ==
  /\ swPc[w] = "remove"
  /\ \E result \in {"ok", "conflict", "error"} : WriteExact(swObs[w], None, result)
  /\ SweepRests(w)
  /\ UNCHANGED fleetVars

\* A read fails, the sweep is cancelled or its process restarts.
SweepFails(w) ==
  /\ swPc[w] # "idle"
  /\ Fault
  /\ SweepRests(w)
  /\ UNCHANGED <<lease, expired, fleetVars>>

SweepStep(w) ==
  \/ SweepLists(w) \/ SweepFences(w) \/ SweepChecks(w) \/ SweepListsAttempt(w)
  \/ SweepDeletes(w) \/ SweepCleaned(w) \/ SweepRemoves(w)
=============================================================================
