--------------------------- MODULE HandoffProofs ----------------------------
(***************************************************************************)
(* The safety of the composed handoff, in three parts one upon another.    *)
(*                                                                         *)
(* Types     for any number of calls, sweeps, reapers, sessions, objects   *)
(*           and faults, any attempt IDs (shared or not) and every anomaly *)
(*           of the allocator                                              *)
(* Dispatch  the dispatch barrier and the one answer of an attempt, for    *)
(*           calls with attempt IDs of their own and every anomaly         *)
(* Cleanup   no cleanup deletes an object a live lease is behind, with     *)
(*           requests that land late: an admitted session keeps its lease  *)
(*           and its GameServer until its own end is proved.  With it,     *)
(*           every step of the handoff is a step of the abstract lifecycle *)
(*           of a lease; and as long as no step fails, no retry takes a    *)
(*           published allocation away                                     *)
(***************************************************************************)
EXTENDS HandoffInvariants, FiniteSetTheorems, TLAPS

-----------------------------------------------------------------------------
(***************************************************************************)
(* Types.                                                                  *)
(***************************************************************************)

-----------------------------------------------------------------------------
\* The lease record.

\* The lease constructors build leases: what normalizeLease accepts is what the
\* store's operations write.
LEMMA LeaseShapes ==
  /\ \A l \in Lease : l # None
  /\ \A a \in Attempts : Staged(a) \in Lease /\ WellFormed(Staged(a))
  /\ \A a \in Attempts, s \in Servers :
       Published(a, s) \in Lease /\ WellFormed(Published(a, s))
  /\ \A l \in Lease : WellFormed(l) =>
       /\ \A c \in Callers : l.staging =>
            Dispatched(l, c) \in Lease /\ WellFormed(Dispatched(l, c))
       /\ ~l.claimed => Fenced(l) \in Lease /\ WellFormed(Fenced(l))
       /\ ~l.staging /\ ~l.releasing => Admitted(l) \in Lease /\ WellFormed(Admitted(l))
       /\ l.claimed => Ended(l) \in Lease /\ WellFormed(Ended(l))
BY NoneIsFresh, NoneIsNoLease
   DEF Lease, WellFormed, Staged, Published, Dispatched, Fenced, Admitted, Ended

\* Every update of a lease keeps its attempt, and its allocation.
LEMMA LeaseUpdates ==
  ASSUME NEW l \in Lease
  PROVE  /\ \A c \in Callers :
              LET n == Dispatched(l, c) IN
              n.attempt = l.attempt /\ n.staging = l.staging /\ n.server = l.server
         /\ LET n == Fenced(l) IN
            n.attempt = l.attempt /\ n.server = l.server /\ n.staging = l.staging /\ n.releasing
         /\ LET n == Admitted(l) IN
            /\ n.attempt = l.attempt /\ n.server = l.server
            /\ n.staging = l.staging /\ n.releasing = l.releasing
         /\ LET n == Ended(l) IN
            n.attempt = l.attempt /\ n.server = l.server /\ n.staging = l.staging /\ n.releasing
BY DEF Lease, Dispatched, Fenced, Admitted, Ended

-----------------------------------------------------------------------------
\* The operations of the lease store: each keeps the store well typed, given a
\* well-formed observation, and answers "ok" with a lease in store where its
\* caller goes on with one.

\* A stored lease is not the absence of one, and is well formed.
LEMMA StoredLeases ==
  /\ None \notin StoredLease
  /\ \A l \in StoredLease : l \in Lease /\ WellFormed(l)
BY NoneIsNoLease DEF StoredLease

\* A failed step consumes one of the faults left.
LEMMA FaultTyped == StoreTypeOK /\ Fault => faults' \in 0 .. MaxFaults
BY MaxFaultsIsNat DEF StoreTypeOK, Fault

\* Create: "ok" leaves a lease in store, fresh or that of the same attempt.
LEMMA CreateTyped ==
  ASSUME StoreTypeOK, NEW a \in Attempts, NEW result, Create(a, result)
  PROVE  StoreTypeOK' /\ (result = "ok" => lease' # None)
<1>1. Staged(a) \in StoredLease
  BY LeaseShapes DEF StoredLease
<1> QED  BY <1>1, StoredLeases, FaultTyped
  DEF Create, Commits, StorageFails, Settles, StoreTypeOK

\* Replace: the key passes to a well-formed staging lease.
LEMMA ReplaceTyped ==
  ASSUME StoreTypeOK, NEW observed \in StoredLease, NEW a \in Attempts, NEW result,
         Replace(observed, a, result)
  PROVE  StoreTypeOK' /\ (result = "ok" => lease' # None)
<1>1. Staged(a) \in StoredLease
  BY LeaseShapes DEF StoredLease
<1> QED  BY <1>1, StoredLeases, FaultTyped
  DEF Replace, Commits, StorageFails, Settles, StoreTypeOK, HoldsAttempt

\* BeginDispatch of a staging lease: its winner and its losers see a lease.
LEMMA BeginDispatchTyped ==
  ASSUME StoreTypeOK, NEW observed \in StoredLease, observed.staging, NEW c \in Callers,
         NEW result, BeginDispatch(observed, c, result)
  PROVE  StoreTypeOK' /\ (result \in {"won", "ok"} => lease' # None)
<1>1. Dispatched(observed, c) \in StoredLease
  BY LeaseShapes, StoredLeases DEF StoredLease
<1> QED
  BY <1>1, StoredLeases, FaultTyped
  DEF BeginDispatch, StorageFails, Settles, StoreTypeOK, HoldsAttempt

\* Finalize stores the lease it is given.
LEMMA FinalizeTyped ==
  ASSUME StoreTypeOK, NEW observed, NEW next \in StoredLease, NEW result,
         Finalize(observed, next, result)
  PROVE  StoreTypeOK'
BY FaultTyped DEF Finalize, Commits, StorageFails, Settles, StoreTypeOK

\* BeginRelease: "ok" leaves a lease in store, which its caller reads.
LEMMA BeginReleaseTyped ==
  ASSUME StoreTypeOK, NEW observed \in StoredLease, NEW result, BeginRelease(observed, result)
  PROVE  StoreTypeOK' /\ (result = "ok" => lease' # None)
<1>1. ~observed.claimed => Fenced(observed) \in StoredLease
  BY LeaseShapes, StoredLeases DEF StoredLease
<1> QED
  BY <1>1, StoredLeases, FaultTyped
  DEF BeginRelease, Commits, StorageFails, Settles, StoreTypeOK, HoldsAttempt

\* Release removes the lease or leaves it.
LEMMA ReleaseTyped ==
  ASSUME StoreTypeOK, NEW a, NEW result, Release(a, result)
  PROVE  StoreTypeOK'
BY FaultTyped DEF Release, StorageFails, Settles, StoreTypeOK

\* ClaimByKey of a published, unfenced lease: "ok" means it is admitted.
LEMMA ClaimByKeyTyped ==
  ASSUME StoreTypeOK, NEW observed \in StoredLease, ~observed.staging, ~observed.releasing,
         NEW result, ClaimByKey(observed, result)
  PROVE  StoreTypeOK' /\ (result = "ok" => lease' = Admitted(observed))
<1>1. Admitted(observed) \in StoredLease
  BY LeaseShapes, StoredLeases DEF StoredLease
<1> QED
  BY <1>1, FaultTyped DEF ClaimByKey, Commits, StorageFails, Settles, StoreTypeOK

\* An exact write that answers "ok" has stored what it was given.
LEMMA WriteExactTyped ==
  ASSUME StoreTypeOK, NEW observed, NEW next \in StoredLease \cup {None}, NEW result,
         WriteExact(observed, next, result)
  PROVE  StoreTypeOK' /\ (result = "ok" => lease' = next)
BY FaultTyped DEF WriteExact, Commits, StorageFails, Settles, StoreTypeOK

-----------------------------------------------------------------------------

\* What one call keeps of its own, whatever the others do.
LEMMA CallersUnchanged ==
  CallersTypeOK /\ UNCHANGED callerVars => CallersTypeOK'
BY DEF CallersTypeOK, callerVars

\* So does it leave the sweeps.
LEMMA SweepersUnchanged ==
  SweepersTypeOK /\ UNCHANGED sweepVars => SweepersTypeOK'
BY DEF SweepersTypeOK, sweepVars

\* So does it leave the reapers.
LEMMA ReapersUnchanged ==
  ReapersTypeOK /\ UNCHANGED reaperVars => ReapersTypeOK'
BY DEF ReapersTypeOK, reaperVars

\* So does it leave the sessions.
LEMMA SessionsUnchanged ==
  SessionsTypeOK /\ UNCHANGED sessionVars => SessionsTypeOK'
BY DEF SessionsTypeOK, sessionVars

\* Deletes and faults keep the fleet and the store typed.
LEMMA DeleteTyped ==
  ASSUME StoreTypeOK, FleetTypeOK, NEW s
  PROVE  /\ DeleteServer(s) /\ UNCHANGED inflight => FleetTypeOK'
         /\ DeleteFails(s) /\ UNCHANGED <<lease, expired, inflight>> => StoreTypeOK' /\ FleetTypeOK'
<1>1. DeleteServer(s) => server' \in [Servers -> [state : ServerStates, attempt : Attempts \cup {None}]]
  BY DEF DeleteServer, FleetTypeOK, ServerStates
<1> QED  BY <1>1, FaultTyped DEF FleetTypeOK, StoreTypeOK, DeleteFails

\* A step that leaves the lease alone, whether or not it fails, keeps the store.
LEMMA StoreUnchanged ==
  /\ StoreTypeOK /\ UNCHANGED <<lease, expired, faults>> => StoreTypeOK'
  /\ StoreTypeOK /\ Fault /\ UNCHANGED <<lease, expired>> => StoreTypeOK'
BY FaultTyped DEF StoreTypeOK

\* A step that leaves the objects and the requests alone keeps the fleet.
LEMMA FleetUnchanged == FleetTypeOK /\ UNCHANGED <<server, inflight>> => FleetTypeOK'
BY DEF FleetTypeOK

-----------------------------------------------------------------------------

\* A step of call c that takes it to label with lease l and object s in hand
\* keeps the calls typed if c is equipped for it.
LEMMA MoveTyped ==
  ASSUME CallersTypeOK, NEW c \in Callers, NEW label \in PCs,
         NEW l \in StoredLease \cup {None}, NEW s \in Servers \cup {None},
         Equipped(label, l, s),
         Goto(c, label),
         Hold(c, l) \/ (l = obs[c] /\ UNCHANGED obs),
         Aim(c, s) \/ (s = target[c] /\ UNCHANGED target),
         req' \in [Callers -> Attempts],
         doomed' \in [Callers -> SUBSET Servers],
         after' \in [Callers -> Continuations],
         phase' \in [Callers -> {"allocate", "release"}],
         handed' \subseteq [attempt : Attempts, server : Servers]
  PROVE  CallersTypeOK'
<1>1. pc' \in [Callers -> PCs] /\ pc'[c] = label /\ \A d \in Callers \ {c} : pc'[d] = pc[d]
  BY DEF CallersTypeOK, Goto
<1>2. /\ obs' \in [Callers -> StoredLease \cup {None}] /\ obs'[c] = l
      /\ \A d \in Callers \ {c} : obs'[d] = obs[d]
  BY DEF CallersTypeOK, Hold
<1>3. /\ target' \in [Callers -> Servers \cup {None}] /\ target'[c] = s
      /\ \A d \in Callers \ {c} : target'[d] = target[d]
  BY DEF CallersTypeOK, Aim
<1>4. \A d \in Callers : Equipped(pc'[d], obs'[d], target'[d])
  BY <1>1, <1>2, <1>3 DEF CallersTypeOK
<1> QED  BY <1>1, <1>2, <1>3, <1>4 DEF CallersTypeOK

\* What the calls have in hand is typed, and they are equipped for where they are.
LEMMA CallTyped ==
  ASSUME CallersTypeOK, NEW c \in Callers
  PROVE  /\ pc[c] \in PCs /\ req[c] \in Attempts
         /\ obs[c] \in StoredLease \cup {None}
         /\ target[c] \in Servers \cup {None}
         /\ doomed[c] \in SUBSET Servers
         /\ after[c] \in Continuations
         /\ Equipped(pc[c], obs[c], target[c])
BY DEF CallersTypeOK

\* The labels nothing is needed at.
LEMMA EquippedForNothing ==
  /\ \A label \in {"load", "stage", "observe", "await", "adopt", "progress", "reload",
                   "reconcile", "delete", "remove", "done", "failed"} :
       \A l, s : Equipped(label, l, s)
  /\ \A label \in {"steal", "provision", "rpc", "wait", "unallocated", "fence", "list"} :
       \A l, s : l # None => Equipped(label, l, s)
BY DEF Equipped

-----------------------------------------------------------------------------
\* The outcomes the actions of a call share.

\* CreateHandoff returning an error leaves nothing in hand.
LEMMA RetainTyped ==
  ASSUME CallersTypeOK, NEW c \in Callers, Retain(c)
  PROVE  CallersTypeOK'
<1>1. "failed" \in PCs /\ Equipped("failed", None, None)
  BY EquippedForNothing DEF PCs
<1>2. req' \in [Callers -> Attempts]
  BY AttemptOfIsAFunction DEF Retain, CallersTypeOK
<1> QED
  BY <1>1, <1>2, MoveTyped, CallTyped DEF Retain, Keep, CallersTypeOK

\* Releasing the reservation starts with nothing in hand.
LEMMA FailTyped ==
  ASSUME CallersTypeOK, NEW c \in Callers, Fail(c)
  PROVE  CallersTypeOK'
<1>1. "reconcile" \in PCs /\ Equipped("reconcile", None, None)
  BY EquippedForNothing DEF PCs
<1>2. req' \in [Callers -> Attempts] /\ phase' \in [Callers -> {"allocate", "release"}]
  BY AttemptOfIsAFunction DEF Fail, CallersTypeOK
<1> QED
  BY <1>1, <1>2, MoveTyped DEF Fail, CallersTypeOK

\* Leaving reconcileAttempt, to Allocate or to Release.
LEMMA LeaveReconcileTyped ==
  ASSUME CallersTypeOK, NEW c \in Callers, LeaveReconcile(c)
  PROVE  CallersTypeOK'
BY FailTyped, RetainTyped DEF LeaveReconcile

\* A step that moves call c on and keeps its cleanup and its request.
LEMMA KeepTyped ==
  ASSUME CallersTypeOK, NEW c \in Callers, NEW label \in PCs,
         NEW l \in StoredLease \cup {None}, NEW s \in Servers \cup {None},
         Equipped(label, l, s), Goto(c, label), Keep, UNCHANGED req,
         Hold(c, l) \/ (l = obs[c] /\ UNCHANGED obs),
         Aim(c, s) \/ (s = target[c] /\ UNCHANGED target)
  PROVE  CallersTypeOK'
BY MoveTyped DEF Keep, CallersTypeOK

\* Answering with an allocation takes a published lease.
LEMMA AnswerTyped ==
  ASSUME CallersTypeOK, NEW c \in Callers, NEW l \in StoredLease, ~l.staging, Answer(c, l)
  PROVE  CallersTypeOK'
<1>1. "return" \in PCs /\ Equipped("return", l, None)
  BY StoredLeases DEF PCs, Equipped
<1> QED  BY <1>1, KeepTyped DEF Answer

\* resources.Release starts with the lease it was given.
LEMMA ReleaseResourceTyped ==
  ASSUME CallersTypeOK, NEW c \in Callers, NEW l \in StoredLease, NEW next \in Continuations,
         ReleaseResource(c, l, next), UNCHANGED <<req, target>>
  PROVE  CallersTypeOK'
<1> DEFINE named == {s \in Servers : s = l.server /\ server[s].attempt = l.attempt}
<1>1. {"list", "delete"} \subseteq PCs /\ Equipped("list", l, target[c]) /\ Equipped("delete", l, target[c])
  BY StoredLeases, EquippedForNothing DEF PCs
<1>2. target[c] \in Servers \cup {None}
  BY CallTyped
<1>3. ASSUME NEW label \in {"list", "delete"}, NEW objects \in SUBSET Servers,
             Goto(c, label), Doom(c, objects, next), Hold(c, l)
      PROVE  CallersTypeOK'
  <2>1. doomed' \in [Callers -> SUBSET Servers] /\ after' \in [Callers -> Continuations]
    BY <1>3 DEF Doom, CallersTypeOK
  <2> QED  BY <1>1, <1>2, <1>3, <2>1, MoveTyped DEF Doom, CallersTypeOK
<1>4. \/ Goto(c, "delete") /\ Doom(c, named, next) /\ Hold(c, l)
      \/ Goto(c, "list") /\ Doom(c, {}, next) /\ Hold(c, l)
  BY DEF ReleaseResource
<1>5. named \in SUBSET Servers /\ {} \in SUBSET Servers
  OBVIOUS
<1> HIDE DEF named
<1> QED  BY <1>3, <1>4, <1>5

-----------------------------------------------------------------------------
\* Each action of a call keeps the calls, the store and the fleet typed.
CallTypes == StoreTypeOK /\ FleetTypeOK /\ CallersTypeOK

\* Load and the choice of path: a lease resolved at once is a published one.
LEMMA AllocateLoadsTyped ==
  ASSUME CallTypes, NEW c \in Callers, AllocateLoads(c)
  PROVE  CallTypes'
<1> USE DEF CallTypes
<1>1. StoreTypeOK' /\ FleetTypeOK'
  BY StoreUnchanged, FleetUnchanged DEF AllocateLoads
<1>2. obs[c] \in StoredLease \cup {None} /\ target[c] \in Servers \cup {None}
  BY CallTyped
<1>3. {"stage", "resolve", "observe", "reconcile", "dispatch", "steal"} \subseteq PCs
  BY DEF PCs
<1>4. CASE lease = None
  BY <1>1, <1>2, <1>3, <1>4, KeepTyped, EquippedForNothing DEF AllocateLoads
<1>5. CASE lease # None
  <2>1. lease \in StoredLease /\ lease.attempt \in Attempts
    BY <1>5, StoredLeases DEF StoreTypeOK, Lease
  <2>2. Equipped("observe", lease, target[c]) /\ Equipped("reconcile", lease, target[c])
        /\ Equipped("steal", lease, target[c])
    BY <1>5, EquippedForNothing
  <2>3. lease.staging => Equipped("dispatch", lease, target[c])
    BY <1>5 DEF Equipped
  <2>4. ~lease.staging => Equipped("resolve", lease, target[c])
    BY <1>5 DEF Equipped
  <2>5. ASSUME NEW late, State(lease, late) = "unclaimed" PROVE ~lease.staging
    <3>1. lease.claimed \in BOOLEAN /\ lease.releasing \in BOOLEAN /\ lease.staging \in BOOLEAN
      BY <2>1, StoredLeases DEF Lease
    <3> QED  BY <2>5, <3>1 DEF State
  <2>6. ASSUME NEW label \in {"stage", "resolve", "observe", "reconcile", "dispatch", "steal"},
               Equipped(label, lease, target[c]),
               Goto(c, label), Hold(c, lease), UNCHANGED target, Keep,
               req' \in [Callers -> Attempts]
        PROVE  CallersTypeOK'
    BY <1>2, <1>3, <2>1, <2>6, MoveTyped DEF Keep, CallersTypeOK
  <2>7. PICK late : 
       LET own == lease.attempt = req[c] IN
       \/ Fail(c)
       \/ /\ ~lease.staging
          /\ Goto(c, "resolve") /\ Hold(c, lease) /\ UNCHANGED <<req, target>> /\ Keep
       \/ /\ lease.staging
          /\ Goto(c, IF lease.dispatch # None THEN "observe"
                     ELSE IF late THEN "reconcile" ELSE "dispatch")
          /\ Hold(c, lease) /\ UNCHANGED <<req, target>> /\ Keep
       \/ /\ State(lease, late) = "unclaimed"
          /\ Goto(c, "resolve") /\ Hold(c, lease) /\ UNCHANGED <<req, target>> /\ Keep
       \/ /\ Goto(c, "observe") /\ Hold(c, lease)
          /\ req' = [req EXCEPT ![c] = lease.attempt]
          /\ UNCHANGED target /\ Keep
       \/ Goto(c, "steal") /\ Hold(c, lease) /\ UNCHANGED <<req, target>> /\ Keep
    BY <1>5 DEF AllocateLoads
  <2>8. [req EXCEPT ![c] = lease.attempt] \in [Callers -> Attempts] /\ req \in [Callers -> Attempts]
    BY <2>1 DEF CallersTypeOK
  <2> QED
    BY <1>1, <2>2, <2>3, <2>4, <2>5, <2>6, <2>7, <2>8, FailTyped
<1> QED  BY <1>1, <1>4, <1>5

\* The fence on another attempt: there is a lease to fence and to release.
LEMMA StealFencesTyped ==
  ASSUME CallTypes, NEW c \in Callers, StealFences(c)
  PROVE  CallTypes'
<1> USE DEF CallTypes
<1>1. obs[c] \in StoredLease
  BY CallTyped DEF StealFences, Equipped
<1>2. PICK result : /\ BeginRelease(obs[c], result)
                    /\ IF result = "ok"
                       THEN ReleaseResource(c, lease', "stage") /\ UNCHANGED <<req, target>>
                       ELSE Fail(c)
  BY DEF StealFences
<1>3. StoreTypeOK' /\ (result = "ok" => lease' # None)
  BY <1>1, <1>2, BeginReleaseTyped
<1>4. FleetTypeOK'
  BY FleetUnchanged DEF StealFences
<1>5. result = "ok" => lease' \in StoredLease
  BY <1>3 DEF StoreTypeOK
<1>6. CallersTypeOK'
  BY <1>2, <1>5, ReleaseResourceTyped, FailTyped DEF Continuations
<1> QED  BY <1>3, <1>4, <1>6

\* Create and Replace: what is dispatched next is a staging lease.
LEMMA StageAttemptTyped ==
  ASSUME CallTypes, NEW c \in Callers, StageAttempt(c)
  PROVE  CallTypes'
<1> USE DEF CallTypes
<1>1. obs[c] \in StoredLease \cup {None} /\ req[c] \in Attempts /\ target[c] \in Servers \cup {None}
  BY CallTyped
<1>2. PICK result :
        /\ IF obs[c] = None THEN Create(req[c], result) ELSE Replace(obs[c], req[c], result)
        /\ IF result = "ok"
           THEN /\ Goto(c, IF ~lease'.staging THEN "resolve"
                           ELSE IF lease'.dispatch = None THEN "dispatch" ELSE "observe")
                /\ Hold(c, lease') /\ UNCHANGED <<req, target>> /\ Keep
           ELSE Fail(c)
  BY DEF StageAttempt
<1>3. StoreTypeOK' /\ (result = "ok" => lease' # None)
  BY <1>1, <1>2, CreateTyped, ReplaceTyped
<1>4. FleetTypeOK'
  BY FleetUnchanged DEF StageAttempt
<1>5. CASE result = "ok"
  <2>1. lease' \in StoredLease /\ lease' # None
    BY <1>3, <1>5 DEF StoreTypeOK
  <2> DEFINE label == IF ~lease'.staging THEN "resolve"
                      ELSE IF lease'.dispatch = None THEN "dispatch" ELSE "observe"
  <2>2. label \in PCs /\ Equipped(label, lease', target[c])
    BY <2>1 DEF PCs, Equipped
  <2>3. Goto(c, label) /\ Hold(c, lease') /\ UNCHANGED <<req, target>> /\ Keep
    BY <1>2, <1>5
  <2> HIDE DEF label
  <2>4. CallersTypeOK'
    BY <1>1, <2>1, <2>2, <2>3, KeepTyped
  <2> QED  BY <1>3, <1>4, <2>4
<1>6. CASE result # "ok"
  BY <1>2, <1>3, <1>4, <1>6, FailTyped
<1> QED  BY <1>5, <1>6

\* BeginDispatch: the winner and the others go on with the dispatched lease.
LEMMA DispatchAttemptTyped ==
  ASSUME CallTypes, NEW c \in Callers, DispatchAttempt(c)
  PROVE  CallTypes'
<1> USE DEF CallTypes
<1>1. obs[c] \in StoredLease /\ obs[c].staging /\ target[c] \in Servers \cup {None}
  BY CallTyped DEF DispatchAttempt, Equipped
<1>2. PICK result :
        /\ BeginDispatch(obs[c], c, result)
        /\ IF result \in {"won", "ok"}
           THEN /\ Goto(c, IF MayAllocate(result) THEN "provision" ELSE "observe")
                /\ Hold(c, lease') /\ UNCHANGED <<req, target>> /\ Keep
           ELSE Fail(c)
  BY DEF DispatchAttempt
<1>3. StoreTypeOK' /\ (result \in {"won", "ok"} => lease' # None)
  BY <1>1, <1>2, BeginDispatchTyped
<1>4. FleetTypeOK'
  BY FleetUnchanged DEF DispatchAttempt
<1>5. ASSUME NEW label \in {"provision", "observe"}, lease' # None,
             Goto(c, label), Hold(c, lease'), UNCHANGED <<req, target>>, Keep
      PROVE  CallersTypeOK'
  <2>1. lease' \in StoredLease
    BY <1>3, <1>5 DEF StoreTypeOK
  <2>2. label \in PCs /\ Equipped(label, lease', target[c])
    BY <1>5, EquippedForNothing DEF PCs
  <2> QED  BY <1>1, <1>5, <2>1, <2>2, KeepTyped
<1> QED  BY <1>2, <1>3, <1>4, <1>5, FailTyped

\* adapter.observe: only objects of the fleet are adopted or released.
LEMMA ObserveAttemptTyped ==
  ASSUME CallTypes, NEW c \in Callers, ObserveAttempt(c)
  PROVE  CallTypes'
<1> USE DEF CallTypes
<1>1. StoreTypeOK' /\ FleetTypeOK'
  BY StoreUnchanged, FleetUnchanged DEF ObserveAttempt
<1>2. obs[c] \in StoredLease \cup {None} /\ target[c] \in Servers \cup {None}
      /\ (pc[c] = "provision" => obs[c] # None)
  BY CallTyped DEF Equipped
<1> DEFINE found == AllocatedFor(req[c])
<1>3. found \in SUBSET Servers
  BY DEF AllocatedFor, Labelled
<1>4. UNCHANGED <<req, obs>>
  BY DEF ObserveAttempt
<1>5. \/ /\ Goto(c, IF pc[c] = "provision" THEN "rpc" ELSE "progress")
         /\ UNCHANGED target /\ Keep
      \/ \E s \in found : Aim(c, s) /\ Goto(c, "adopt") /\ Keep
      \/ Goto(c, "delete") /\ Doom(c, found, "progress") /\ UNCHANGED target
  BY DEF ObserveAttempt
<1> HIDE DEF found
<1>6. {"rpc", "progress", "adopt", "delete"} \subseteq PCs
  BY DEF PCs
<1>7. CASE /\ Goto(c, IF pc[c] = "provision" THEN "rpc" ELSE "progress")
           /\ UNCHANGED target /\ Keep
  BY <1>1, <1>2, <1>4, <1>6, <1>7, EquippedForNothing, KeepTyped
<1>8. CASE \E s \in found : Aim(c, s) /\ Goto(c, "adopt") /\ Keep
  BY <1>1, <1>2, <1>3, <1>4, <1>6, <1>8, EquippedForNothing, KeepTyped
<1>9. CASE Goto(c, "delete") /\ Doom(c, found, "progress") /\ UNCHANGED target
  <2>1. doomed' \in [Callers -> SUBSET Servers] /\ after' \in [Callers -> Continuations]
    BY <1>3, <1>9 DEF Doom, CallersTypeOK, Continuations
  <2>2. Equipped("delete", obs[c], target[c])
    BY EquippedForNothing
  <2> QED
    BY <1>1, <1>2, <1>4, <1>6, <1>9, <2>1, <2>2, MoveTyped DEF Doom, CallersTypeOK
<1> QED  BY <1>5, <1>7, <1>8, <1>9

\* The allocation request names an attempt.
LEMMA SendAllocationTyped ==
  ASSUME CallTypes, NEW c \in Callers, SendAllocation(c)
  PROVE  CallTypes'
<1> USE DEF CallTypes
<1>1. StoreTypeOK' /\ FleetTypeOK'
  BY StoreUnchanged, CallTyped DEF SendAllocation, FleetTypeOK
<1>2. /\ obs[c] \in StoredLease \cup {None} /\ target[c] \in Servers \cup {None}
      /\ "wait" \in PCs /\ Equipped("wait", obs[c], target[c])
  BY CallTyped DEF SendAllocation, Equipped, PCs
<1> QED  BY <1>1, <1>2, KeepTyped DEF SendAllocation

\* The object the allocator answered with is one of the fleet.
LEMMA AllocationAnsweredTyped ==
  ASSUME CallTypes, NEW c \in Callers, AllocationAnswered(c)
  PROVE  CallTypes'
<1> USE DEF CallTypes
<1>1. StoreTypeOK' /\ FleetTypeOK'
  BY StoreUnchanged, FleetUnchanged DEF AllocationAnswered
<1>2. PICK s \in Servers : Aim(c, s)
  BY DEF AllocationAnswered
<1>3. obs[c] \in StoredLease \cup {None} /\ "await" \in PCs /\ Equipped("await", obs[c], s)
  BY CallTyped, EquippedForNothing DEF PCs
<1> QED  BY <1>1, <1>2, <1>3, KeepTyped DEF AllocationAnswered

\* A refused request still holds the dispatch it fences next.
LEMMA AllocationRefusedTyped ==
  ASSUME CallTypes, NEW c \in Callers, AllocationRefused(c)
  PROVE  CallTypes'
<1> USE DEF CallTypes
<1>1. StoreTypeOK' /\ FleetTypeOK'
  BY StoreUnchanged DEF AllocationRefused, FleetTypeOK
<1>2. /\ obs[c] \in StoredLease \cup {None} /\ target[c] \in Servers \cup {None}
      /\ "unallocated" \in PCs /\ Equipped("unallocated", obs[c], target[c])
  BY CallTyped DEF AllocationRefused, Equipped, PCs
<1> QED  BY <1>1, <1>2, KeepTyped DEF AllocationRefused

\* observeDispatched: the answered object, or nothing, is kept in hand.
LEMMA ObserveDispatchedTyped ==
  ASSUME CallTypes, NEW c \in Callers, ObserveDispatched(c)
  PROVE  CallTypes'
<1> USE DEF CallTypes
<1>1. StoreTypeOK' /\ FleetTypeOK'
  BY StoreUnchanged, FleetUnchanged DEF ObserveDispatched
<1>2. obs[c] \in StoredLease \cup {None} /\ target[c] \in Servers \cup {None}
  BY CallTyped
<1>3. {"progress", "adopt", "delete"} \subseteq PCs
  BY DEF PCs
<1> DEFINE found == AllocatedFor(req[c])
<1>4. found \in SUBSET Servers
  BY DEF AllocatedFor, Labelled
<1>5. UNCHANGED <<req, obs>>
  BY DEF ObserveDispatched
<1>6. \/ Goto(c, "adopt") /\ UNCHANGED target /\ Keep
      \/ Goto(c, "progress") /\ Aim(c, None) /\ Keep
      \/ Goto(c, "delete") /\ Aim(c, None) /\ Doom(c, found, "progress")
  BY DEF ObserveDispatched
<1> HIDE DEF found
<1>7. CASE \/ Goto(c, "adopt") /\ UNCHANGED target /\ Keep
           \/ Goto(c, "progress") /\ Aim(c, None) /\ Keep
  BY <1>1, <1>2, <1>3, <1>5, <1>7, EquippedForNothing, KeepTyped
<1>8. CASE Goto(c, "delete") /\ Aim(c, None) /\ Doom(c, found, "progress")
  <2>1. doomed' \in [Callers -> SUBSET Servers] /\ after' \in [Callers -> Continuations]
    BY <1>4, <1>8 DEF Doom, CallersTypeOK, Continuations
  <2>2. Equipped("delete", obs[c], None)
    BY EquippedForNothing
  <2> QED
    BY <1>1, <1>2, <1>3, <1>5, <1>8, <2>1, <2>2, MoveTyped DEF Doom, CallersTypeOK
<1> QED  BY <1>6, <1>7, <1>8

\* adapter.adopt: what is finalized is an object.
LEMMA AdoptServerTyped ==
  ASSUME CallTypes, NEW c \in Callers, AdoptServer(c)
  PROVE  CallTypes'
<1> USE DEF CallTypes
<1>1. StoreTypeOK' /\ FleetTypeOK'
  BY StoreUnchanged, FleetUnchanged DEF AdoptServer
<1>2. obs[c] \in StoredLease \cup {None} /\ target[c] \in Servers \cup {None}
  BY CallTyped
<1>3. {"progress", "reconcile", "finalize"} \subseteq PCs
  BY DEF PCs
<1>4. CASE target[c] \in AllocatedFor(req[c])
  <2>1. target[c] # None
    BY <1>4, NoneIsFresh DEF AllocatedFor, Labelled
  <2>2. Equipped("finalize", obs[c], target[c]) /\ Equipped("reconcile", obs[c], target[c])
    BY <2>1 DEF Equipped
  <2> QED  BY <1>1, <1>2, <1>3, <1>4, <2>2, KeepTyped DEF AdoptServer
<1>5. CASE target[c] \notin AllocatedFor(req[c])
  BY <1>1, <1>2, <1>3, <1>5, EquippedForNothing, KeepTyped DEF AdoptServer
<1> QED  BY <1>4, <1>5

\* Finalize: what is published and answered names an object.
LEMMA FinalizeAttemptTyped ==
  ASSUME CallTypes, NEW c \in Callers, FinalizeAttempt(c)
  PROVE  CallTypes'
<1> USE DEF CallTypes
<1> DEFINE l == Published(req[c], target[c])
<1>1. obs[c] \in StoredLease \cup {None} /\ req[c] \in Attempts /\ target[c] \in Servers
  BY CallTyped DEF FinalizeAttempt, Equipped
<1>2. l \in StoredLease /\ ~l.staging
  BY <1>1, LeaseShapes DEF StoredLease, Published
<1>3. PICK result :
        /\ Finalize(obs[c], l, result)
        /\ IF result = "ok" THEN Answer(c, l)
           ELSE Goto(c, "progress") /\ UNCHANGED <<req, obs, target>> /\ Keep
  BY DEF FinalizeAttempt
<1> HIDE DEF l
<1>4. StoreTypeOK'
  BY <1>2, <1>3, FinalizeTyped
<1>5. FleetTypeOK'
  BY FleetUnchanged DEF FinalizeAttempt
<1>6. "progress" \in PCs /\ Equipped("progress", obs[c], target[c])
  BY EquippedForNothing DEF PCs
<1> QED  BY <1>1, <1>2, <1>3, <1>4, <1>5, <1>6, AnswerTyped, KeepTyped

\* progressedAllocationOutcome: a winner is a published lease.
LEMMA CheckProgressTyped ==
  ASSUME CallTypes, NEW c \in Callers, CheckProgress(c)
  PROVE  CallTypes'
<1> USE DEF CallTypes
<1>1. StoreTypeOK' /\ FleetTypeOK'
  BY StoreUnchanged, FleetUnchanged DEF CheckProgress
<1>2. obs[c] \in StoredLease \cup {None} /\ target[c] \in Servers \cup {None}
  BY CallTyped
<1>3. CASE HoldsAttempt(req[c]) /\ ~lease.staging /\ ~lease.releasing
  <2>1. lease \in StoredLease /\ "winner" \in PCs /\ Equipped("winner", lease, target[c])
    BY <1>3, StoredLeases DEF HoldsAttempt, StoreTypeOK, PCs, Equipped
  <2> QED  BY <1>1, <1>2, <1>3, <2>1, KeepTyped DEF CheckProgress
<1>4. CASE ~(HoldsAttempt(req[c]) /\ ~lease.staging /\ ~lease.releasing)
  <2>1. "reconcile" \in PCs /\ Equipped("reconcile", obs[c], target[c])
    BY EquippedForNothing DEF PCs
  <2> QED  BY <1>1, <1>2, <1>4, <2>1, KeepTyped, RetainTyped DEF CheckProgress
<1> QED  BY <1>3, <1>4

\* resolveDurable answers with a published lease.
LEMMA ResolveLeaseTyped ==
  ASSUME CallTypes, NEW c \in Callers, ResolveLease(c)
  PROVE  CallTypes'
<1> USE DEF CallTypes
<1>1. StoreTypeOK' /\ FleetTypeOK'
  BY StoreUnchanged, FleetUnchanged DEF ResolveLease
<1>2. obs[c] \in StoredLease /\ ~obs[c].staging
  BY CallTyped DEF ResolveLease, Equipped
<1> QED  BY <1>1, <1>2, AnswerTyped, FailTyped, RetainTyped DEF ResolveLease

\* releaseUnallocated fences a lease it holds.
LEMMA FenceUnallocatedTyped ==
  ASSUME CallTypes, NEW c \in Callers, FenceUnallocated(c)
  PROVE  CallTypes'
<1> USE DEF CallTypes
<1>1. obs[c] \in StoredLease /\ target[c] \in Servers \cup {None}
  BY CallTyped DEF FenceUnallocated, Equipped
<1>2. PICK result \in {"ok", "conflict", "error"} :
        /\ BeginRelease(obs[c], result)
        /\ Goto(c, CASE result = "ok"       -> "reconcile"
                     [] result = "conflict" -> "progress"
                     [] result = "error"    -> "reload")
        /\ IF result = "ok" THEN Hold(c, None) ELSE UNCHANGED obs
  BY DEF FenceUnallocated
<1>3. StoreTypeOK' /\ FleetTypeOK'
  BY <1>1, <1>2, BeginReleaseTyped, FleetUnchanged DEF FenceUnallocated
<1>4. {"progress", "reconcile", "reload"} \subseteq PCs
  BY DEF PCs
<1>5. UNCHANGED <<req, target>> /\ Keep
  BY DEF FenceUnallocated
<1>6. ASSUME NEW label \in {"progress", "reconcile", "reload"}, NEW l \in {None, obs[c]},
             Goto(c, label), Hold(c, l) \/ (l = obs[c] /\ UNCHANGED obs)
      PROVE  CallersTypeOK'
  BY <1>1, <1>4, <1>5, <1>6, KeepTyped, EquippedForNothing
<1>7. CASE result = "ok"
  BY <1>2, <1>3, <1>6, <1>7
<1>8. CASE result = "conflict"
  BY <1>2, <1>3, <1>6, <1>8
<1>9. CASE result = "error"
  BY <1>2, <1>3, <1>6, <1>9
<1> QED  BY <1>7, <1>8, <1>9

\* The retry of releaseUnallocated goes on with the lease it reloaded.
LEMMA ReloadUnallocatedTyped ==
  ASSUME CallTypes, NEW c \in Callers, ReloadUnallocated(c)
  PROVE  CallTypes'
<1> USE DEF CallTypes
<1>1. StoreTypeOK' /\ FleetTypeOK'
  BY StoreUnchanged, FleetUnchanged DEF ReloadUnallocated
<1>2. obs[c] \in StoredLease \cup {None} /\ target[c] \in Servers \cup {None}
  BY CallTyped
<1>3. CASE HoldsAttempt(req[c]) /\ lease.staging /\ lease.dispatch # None
  <2>1. lease \in StoredLease /\ "unallocated" \in PCs /\ Equipped("unallocated", lease, target[c])
    BY <1>3, EquippedForNothing DEF HoldsAttempt, StoreTypeOK, PCs
  <2> QED  BY <1>1, <1>2, <1>3, <2>1, KeepTyped DEF ReloadUnallocated
<1>4. CASE ~(HoldsAttempt(req[c]) /\ lease.staging /\ lease.dispatch # None)
  <2>1. "progress" \in PCs /\ Equipped("progress", obs[c], target[c])
    BY EquippedForNothing DEF PCs
  <2> QED  BY <1>1, <1>2, <1>4, <2>1, KeepTyped DEF ReloadUnallocated
<1> QED  BY <1>3, <1>4

\* reconcileAttempt, Load: an object in hand is released by name.
LEMMA ReconcileLoadsTyped ==
  ASSUME CallTypes, NEW c \in Callers, ReconcileLoads(c)
  PROVE  CallTypes'
<1> USE DEF CallTypes
<1>1. StoreTypeOK' /\ FleetTypeOK'
  BY StoreUnchanged, FleetUnchanged DEF ReconcileLoads
<1>2. target[c] \in Servers \cup {None} /\ req[c] \in Attempts
  BY CallTyped
<1>3. CASE LeaveReconcile(c)
  BY <1>1, <1>3, LeaveReconcileTyped
<1>4. CASE /\ target[c] # None
           /\ ReleaseResource(c, Published(req[c], target[c]), "leave")
           /\ UNCHANGED <<req, target>>
  <2>1. Published(req[c], target[c]) \in StoredLease
    BY <1>2, <1>4, LeaseShapes DEF StoredLease
  <2> QED  BY <1>1, <1>4, <2>1, ReleaseResourceTyped DEF Continuations
<1>5. CASE /\ HoldsAttempt(req[c])
           /\ Goto(c, "fence") /\ Hold(c, lease) /\ UNCHANGED <<req, target>> /\ Keep
  <2>1. lease \in StoredLease /\ "fence" \in PCs /\ Equipped("fence", lease, target[c])
    BY <1>5, EquippedForNothing DEF HoldsAttempt, StoreTypeOK, PCs
  <2> QED  BY <1>1, <1>2, <1>5, <2>1, KeepTyped
<1> QED  BY <1>3, <1>4, <1>5 DEF ReconcileLoads

\* reconcileAttempt, BeginRelease: the fenced lease leads the cleanup.
LEMMA ReconcileFencesTyped ==
  ASSUME CallTypes, NEW c \in Callers, ReconcileFences(c)
  PROVE  CallTypes'
<1> USE DEF CallTypes
<1>1. obs[c] \in StoredLease /\ target[c] \in Servers \cup {None} /\ req[c] \in Attempts
  BY CallTyped DEF ReconcileFences, Equipped
<1> DEFINE cleaned == IF target[c] = None THEN lease' ELSE Published(req[c], target[c])
<1>2. PICK result :
        /\ BeginRelease(obs[c], result)
        /\ IF result = "ok"
           THEN ReleaseResource(c, cleaned, "remove") /\ UNCHANGED <<req, target>>
           ELSE LeaveReconcile(c)
  BY DEF ReconcileFences
<1>3. StoreTypeOK' /\ (result = "ok" => lease' # None)
  BY <1>1, <1>2, BeginReleaseTyped
<1>4. FleetTypeOK'
  BY FleetUnchanged DEF ReconcileFences
<1>5. result = "ok" => cleaned \in StoredLease
  BY <1>1, <1>3, LeaseShapes DEF StoreTypeOK, StoredLease
<1> HIDE DEF cleaned
<1>6. "remove" \in Continuations
  BY DEF Continuations
<1>7. CallersTypeOK'
  BY <1>2, <1>5, <1>6, ReleaseResourceTyped, LeaveReconcileTyped
<1> QED  BY <1>3, <1>4, <1>7

\* resources.Release lists objects of the fleet.
LEMMA ListAttemptTyped ==
  ASSUME CallTypes, NEW c \in Callers, ListAttempt(c)
  PROVE  CallTypes'
<1> USE DEF CallTypes
<1>1. StoreTypeOK' /\ FleetTypeOK'
  BY StoreUnchanged, FleetUnchanged DEF ListAttempt
<1>2. doomed' \in [Callers -> SUBSET Servers]
  BY DEF ListAttempt, CallersTypeOK, Labelled
<1>3. /\ obs[c] \in StoredLease \cup {None} /\ target[c] \in Servers \cup {None}
      /\ "delete" \in PCs /\ Equipped("delete", obs[c], target[c])
  BY CallTyped, EquippedForNothing DEF PCs
<1> QED  BY <1>1, <1>2, <1>3, MoveTyped DEF ListAttempt, CallersTypeOK

\* A delete, failed or not, keeps the cleanup going.
LEMMA DeleteDoomedTyped ==
  ASSUME CallTypes, NEW c \in Callers, DeleteDoomed(c)
  PROVE  CallTypes'
<1> USE DEF CallTypes
<1>1. PICK s \in doomed[c] :
        /\ doomed' = [doomed EXCEPT ![c] = @ \ {s}]
        /\ \/ DeleteServer(s) /\ UNCHANGED <<faults, after>>
           \/ /\ DeleteFails(s)
              /\ after' = [after EXCEPT ![c] = CASE @ = "stage"  -> "fail"
                                                 [] @ = "remove" -> "leave"
                                                 [] OTHER        -> @]
  BY DEF DeleteDoomed
<1>2. UNCHANGED <<lease, expired, inflight, pc, req, obs, target, phase, handed>>
  BY DEF DeleteDoomed
<1>3. StoreTypeOK' /\ FleetTypeOK'
  BY <1>1, <1>2, DeleteTyped, StoreUnchanged
<1>4. doomed' \in [Callers -> SUBSET Servers]
  BY <1>1 DEF CallersTypeOK
<1>5. after' \in [Callers -> Continuations]
  BY <1>1 DEF CallersTypeOK, Continuations
<1> QED  BY <1>2, <1>3, <1>4, <1>5 DEF CallersTypeOK

\* The end of resources.Release: nothing is needed where the call continues.
LEMMA CleanupReturnsTyped ==
  ASSUME CallTypes, NEW c \in Callers, CleanupReturns(c)
  PROVE  CallTypes'
<1> USE DEF CallTypes
<1>1. StoreTypeOK' /\ FleetTypeOK'
  BY StoreUnchanged, FleetUnchanged DEF CleanupReturns
<1>2. obs[c] \in StoredLease \cup {None} /\ target[c] \in Servers \cup {None}
      /\ after[c] \in Continuations
  BY CallTyped
<1>3. CASE after[c] \in {"stage", "remove", "progress"}
  <2>1. Goto(c, after[c]) /\ UNCHANGED <<req, obs, target>> /\ Keep
    BY <1>3 DEF CleanupReturns
  <2>2. after[c] \in PCs /\ Equipped(after[c], obs[c], target[c])
    BY <1>3, EquippedForNothing DEF PCs
  <2> QED  BY <1>1, <1>2, <2>1, <2>2, KeepTyped
<1>4. CASE after[c] = "leave"
  <2>1. LeaveReconcile(c)
    BY <1>4 DEF CleanupReturns
  <2> QED  BY <1>1, <2>1, LeaveReconcileTyped
<1>5. CASE after[c] = "fail"
  <2>1. Fail(c)
    BY <1>5 DEF CleanupReturns
  <2> QED  BY <1>1, <2>1, FailTyped
<1> QED  BY <1>2, <1>3, <1>4, <1>5 DEF Continuations

\* leases.Release, and the end of the reconciliation.
LEMMA ForgetAttemptTyped ==
  ASSUME CallTypes, NEW c \in Callers, ForgetAttempt(c)
  PROVE  CallTypes'
BY ReleaseTyped, FleetUnchanged, LeaveReconcileTyped DEF CallTypes, ForgetAttempt

\* CreateHandoff hands out an attempt and its object.
LEMMA ReturnHandoffTyped ==
  ASSUME CallTypes, NEW c \in Callers, ReturnHandoff(c)
  PROVE  CallTypes'
<1> USE DEF CallTypes
<1>1. StoreTypeOK' /\ FleetTypeOK'
  BY StoreUnchanged, FleetUnchanged DEF ReturnHandoff
<1>2. CASE obs[c].attempt \in expired
  BY <1>1, <1>2, RetainTyped DEF ReturnHandoff
<1>3. CASE obs[c].attempt \notin expired
  <2>1. obs[c] \in Lease /\ WellFormed(obs[c]) /\ ~obs[c].staging /\ target[c] \in Servers \cup {None}
    BY CallTyped, StoredLeases DEF ReturnHandoff, Equipped
  <2>2. [attempt |-> obs[c].attempt, server |-> obs[c].server] \in [attempt : Attempts, server : Servers]
    BY <2>1 DEF Lease, WellFormed
  <2>3. "done" \in PCs /\ Equipped("done", None, target[c])
    BY EquippedForNothing DEF PCs
  <2>4. handed' \subseteq [attempt : Attempts, server : Servers]
    BY <1>3, <2>2 DEF ReturnHandoff, CallersTypeOK
  <2> QED  BY <1>1, <1>3, <2>1, <2>3, <2>4, MoveTyped DEF ReturnHandoff, CallersTypeOK
<1> QED  BY <1>2, <1>3

\* A failed read or a cancelled call.
LEMMA StepFailsTyped ==
  ASSUME CallTypes, NEW c \in Callers, StepFails(c)
  PROVE  CallTypes'
<1> USE DEF CallTypes
<1>1. StoreTypeOK' /\ FleetTypeOK'
  BY StoreUnchanged, FleetUnchanged DEF StepFails
<1>2. obs[c] \in StoredLease \cup {None} /\ target[c] \in Servers \cup {None}
  BY CallTyped
<1>3. {"progress", "delete"} \subseteq PCs
  BY DEF PCs
<1>4. CASE Fail(c) \/ Retain(c) \/ LeaveReconcile(c)
  BY <1>1, <1>4, FailTyped, RetainTyped, LeaveReconcileTyped
<1>5. CASE Goto(c, "progress") /\ Aim(c, None) /\ UNCHANGED <<req, obs>> /\ Keep
  BY <1>1, <1>2, <1>3, <1>5, KeepTyped, EquippedForNothing
<1>6. CASE Goto(c, "progress") /\ UNCHANGED <<req, obs, target>> /\ Keep
  BY <1>1, <1>2, <1>3, <1>6, KeepTyped, EquippedForNothing
<1>7. CASE /\ Goto(c, "delete")
           /\ after' = [after EXCEPT ![c] = IF @ = "stage" THEN "fail" ELSE "leave"]
           /\ UNCHANGED <<req, obs, target, doomed, phase, handed>>
  <2>1. after' \in [Callers -> Continuations] /\ Equipped("delete", obs[c], target[c])
    BY <1>7, EquippedForNothing DEF CallersTypeOK, Continuations
  <2> QED  BY <1>1, <1>2, <1>3, <1>7, <2>1, MoveTyped DEF CallersTypeOK
<1> QED  BY <1>4, <1>5, <1>6, <1>7 DEF StepFails

\* A crash leaves nothing in hand.
LEMMA CrashTyped ==
  ASSUME CallTypes, NEW c \in Callers, Crash(c)
  PROVE  CallTypes'
<1> USE DEF CallTypes
<1>1. StoreTypeOK' /\ FleetTypeOK'
  BY StoreUnchanged, FleetUnchanged DEF Crash
<1>2. Goto(c, "failed") /\ Hold(c, None) /\ Aim(c, None)
  BY DEF Crash, Goto, Hold, Aim
<1>3. req' \in [Callers -> Attempts] /\ doomed' \in [Callers -> SUBSET Servers]
  BY AttemptOfIsAFunction DEF Crash, CallersTypeOK
<1>4. "failed" \in PCs /\ Equipped("failed", None, None)
  BY EquippedForNothing DEF PCs
<1> QED  BY <1>1, <1>2, <1>3, <1>4, MoveTyped DEF Crash, CallersTypeOK

\* Every step of a call keeps the calls, the store and the fleet typed.
LEMMA CallsTyped ==
  ASSUME CallTypes, NEW c \in Callers, CallerStep(c) \/ StepFails(c) \/ Crash(c)
  PROVE  CallTypes'
BY AllocateLoadsTyped, StealFencesTyped, StageAttemptTyped, DispatchAttemptTyped,
   ObserveAttemptTyped, SendAllocationTyped, AllocationAnsweredTyped, AllocationRefusedTyped,
   ObserveDispatchedTyped, AdoptServerTyped, FinalizeAttemptTyped, CheckProgressTyped,
   ResolveLeaseTyped, FenceUnallocatedTyped, ReloadUnallocatedTyped, ReconcileLoadsTyped,
   ReconcileFencesTyped, ListAttemptTyped, DeleteDoomedTyped, CleanupReturnsTyped,
   ForgetAttemptTyped, ReturnHandoffTyped, StepFailsTyped, CrashTyped
DEF CallerStep

-----------------------------------------------------------------------------
\* The expiry sweep.
SweepTypes == StoreTypeOK /\ FleetTypeOK /\ SweepersTypeOK

\* The sweep's counterpart of MoveTyped.
LEMMA SweepMoveTyped ==
  ASSUME SweepersTypeOK, NEW w \in Sweepers, NEW label \in SweepPCs,
         NEW l \in StoredLease \cup {None}, SweepEquipped(label, l),
         SweepGoto(w, label) \/ (label = swPc[w] /\ UNCHANGED swPc),
         swObs' = [swObs EXCEPT ![w] = l] \/ (l = swObs[w] /\ UNCHANGED swObs),
         swDoomed' \in [Sweepers -> SUBSET Servers]
  PROVE  SweepersTypeOK'
<1>1. swPc' \in [Sweepers -> SweepPCs] /\ swPc'[w] = label
      /\ \A v \in Sweepers \ {w} : swPc'[v] = swPc[v]
  BY DEF SweepersTypeOK, SweepGoto
<1>2. swObs' \in [Sweepers -> StoredLease \cup {None}] /\ swObs'[w] = l
      /\ \A v \in Sweepers \ {w} : swObs'[v] = swObs[v]
  BY DEF SweepersTypeOK
<1>3. \A v \in Sweepers : SweepEquipped(swPc'[v], swObs'[v])
  BY <1>1, <1>2 DEF SweepersTypeOK, SweepEquipped
<1> QED  BY <1>1, <1>2, <1>3 DEF SweepersTypeOK, SweepEquipped

\* The end of an iteration leaves nothing in hand.
LEMMA SweepRestsTyped ==
  ASSUME SweepersTypeOK, NEW w \in Sweepers, SweepRests(w)
  PROVE  SweepersTypeOK'
<1>1. "idle" \in SweepPCs /\ SweepEquipped("idle", None)
  BY DEF SweepPCs, SweepEquipped
<1>2. swDoomed' \in [Sweepers -> SUBSET Servers]
  BY DEF SweepRests, SweepersTypeOK
<1> QED  BY <1>1, <1>2, SweepMoveTyped DEF SweepRests

\* Every step of a sweep: it fences an unclaimed lease and forgets a fenced one.
LEMMA SweepsTyped ==
  ASSUME SweepTypes, NEW w \in Sweepers, SweepStep(w) \/ SweepFails(w)
  PROVE  SweepTypes'
<1> USE DEF SweepTypes
<1>1. /\ swPc[w] \in SweepPCs /\ swObs[w] \in StoredLease \cup {None}
      /\ SweepEquipped(swPc[w], swObs[w]) /\ swDoomed \in [Sweepers -> SUBSET Servers]
  BY DEF SweepersTypeOK, SweepEquipped
<1>2. {"idle", "fence", "check", "list", "delete", "remove"} = SweepPCs
  BY DEF SweepPCs
<1>3. CASE SweepLists(w)
  <2>1. lease \in StoredLease /\ ~lease.claimed /\ lease # None
    BY <1>3 DEF SweepLists, Reclaimable, StoreTypeOK
  <2>2. SweepEquipped(IF lease.releasing THEN "check" ELSE "fence", lease)
    BY <2>1 DEF SweepEquipped
  <2>3. SweepersTypeOK'
    BY <1>1, <1>2, <1>3, <2>1, <2>2, SweepMoveTyped DEF SweepLists
  <2> QED  BY <1>3, <2>3, StoreUnchanged, FleetUnchanged DEF SweepLists, storeVars, fleetVars
<1>4. CASE SweepFences(w)
  <2>1. PICK result :
          /\ WriteExact(swObs[w], Fenced(swObs[w]), result)
          /\ IF result = "ok"
             THEN /\ SweepGoto(w, "check")
                  /\ swObs' = [swObs EXCEPT ![w] = lease']
                  /\ UNCHANGED swDoomed
             ELSE SweepRests(w)
    BY <1>4 DEF SweepFences
  <2>2. swObs[w] \in StoredLease /\ ~swObs[w].claimed
    BY <1>1, <1>4 DEF SweepFences, SweepEquipped
  <2>3. Fenced(swObs[w]) \in StoredLease /\ Fenced(swObs[w]).releasing
    BY <2>2, StoredLeases, LeaseShapes, LeaseUpdates DEF StoredLease
  <2>4. StoreTypeOK' /\ (result = "ok" => lease' = Fenced(swObs[w]))
    BY <2>1, <2>3, WriteExactTyped
  <2>5. SweepEquipped("check", Fenced(swObs[w]))
    BY <2>3, StoredLeases DEF SweepEquipped
  <2>6. SweepersTypeOK'
    BY <1>1, <1>2, <2>1, <2>3, <2>4, <2>5, SweepMoveTyped, SweepRestsTyped
  <2> QED  BY <1>4, <2>4, <2>6, FleetUnchanged DEF SweepFences, fleetVars
<1>5. CASE SweepChecks(w)
  <2>1. swObs[w] # None /\ swObs[w].releasing
    BY <1>1, <1>5 DEF SweepChecks, SweepEquipped
  <2>2. CASE SweepRests(w)
    BY <1>5, <2>2, SweepRestsTyped, StoreUnchanged, FleetUnchanged
    DEF SweepChecks, storeVars, fleetVars
  <2>3. CASE /\ SweepGoto(w, IF swObs[w].server = None THEN "list" ELSE "delete")
             /\ swDoomed' = [swDoomed EXCEPT ![w] =
                  {s \in Servers : s = swObs[w].server /\ server[s].attempt = swObs[w].attempt}]
             /\ UNCHANGED swObs
    <3>1. SweepEquipped("list", swObs[w]) /\ SweepEquipped("delete", swObs[w])
      BY <2>1 DEF SweepEquipped
    <3>2. swDoomed' \in [Sweepers -> SUBSET Servers]
      BY <1>1, <2>3
    <3>3. SweepersTypeOK'
      BY <1>1, <1>2, <2>3, <3>1, <3>2, SweepMoveTyped
    <3> QED  BY <1>5, <3>3, StoreUnchanged, FleetUnchanged DEF SweepChecks, storeVars, fleetVars
  <2> QED  BY <1>5, <2>2, <2>3 DEF SweepChecks
<1>6. CASE SweepListsAttempt(w)
  <2>1. swDoomed' \in [Sweepers -> SUBSET Servers] /\ SweepEquipped("delete", swObs[w])
    BY <1>1, <1>6 DEF SweepListsAttempt, Labelled, SweepEquipped
  <2>2. SweepersTypeOK'
    BY <1>1, <1>2, <1>6, <2>1, SweepMoveTyped DEF SweepListsAttempt
  <2> QED
    BY <1>6, <2>2, StoreUnchanged, FleetUnchanged DEF SweepListsAttempt, storeVars, fleetVars
<1>7. CASE SweepDeletes(w)
  <2>1. PICK s \in swDoomed[w] :
          /\ swDoomed' = [swDoomed EXCEPT ![w] = @ \ {s}]
          /\ \/ DeleteServer(s) /\ UNCHANGED <<faults, swObs>>
             \/ DeleteFails(s) /\ swObs' = [swObs EXCEPT ![w] = None]
    BY <1>7 DEF SweepDeletes
  <2>2. UNCHANGED <<lease, expired, inflight, swPc>> /\ swPc[w] = "delete"
    BY <1>7 DEF SweepDeletes
  <2>3. StoreTypeOK' /\ FleetTypeOK'
    BY <2>1, <2>2, DeleteTyped, StoreUnchanged
  <2>4. swDoomed' \in [Sweepers -> SUBSET Servers]
    BY <1>1, <2>1
  <2>5. SweepEquipped("delete", None) /\ SweepEquipped("delete", swObs[w])
    BY <1>1, <2>2 DEF SweepEquipped
  <2> QED  BY <1>1, <2>1, <2>2, <2>3, <2>4, <2>5, SweepMoveTyped
<1>8. CASE SweepCleaned(w)
  <2>1. StoreTypeOK' /\ FleetTypeOK'
    BY <1>8, StoreUnchanged, FleetUnchanged DEF SweepCleaned, storeVars, fleetVars
  <2>2. CASE SweepRests(w)
    BY <2>1, <2>2, SweepRestsTyped
  <2>3. CASE /\ swObs[w] # None /\ swPc[w] = "delete"
             /\ SweepGoto(w, "remove") /\ UNCHANGED <<swObs, swDoomed>>
    <3>1. swObs[w].releasing
      BY <1>1, <2>3 DEF SweepEquipped
    <3> QED  BY <1>1, <1>2, <2>1, <2>3, <3>1, SweepMoveTyped DEF SweepEquipped
  <2> QED  BY <1>8, <2>2, <2>3 DEF SweepCleaned
<1>9. CASE SweepRemoves(w)
  <2>1. PICK result : WriteExact(swObs[w], None, result)
    BY <1>9 DEF SweepRemoves
  <2>2. StoreTypeOK'
    BY <2>1, WriteExactTyped
  <2> QED  BY <1>9, <2>2, SweepRestsTyped, FleetUnchanged DEF SweepRemoves, fleetVars
<1>10. CASE SweepFails(w)
  BY <1>10, SweepRestsTyped, StoreUnchanged, FleetUnchanged DEF SweepFails, fleetVars
<1> QED
  BY <1>3, <1>4, <1>5, <1>6, <1>7, <1>8, <1>9, <1>10 DEF SweepStep

-----------------------------------------------------------------------------
\* The orphan reaper.
ReapTypes == StoreTypeOK /\ FleetTypeOK /\ ReapersTypeOK

\* Passing a candidate removes it from the sets.
LEMMA PassesTyped ==
  ASSUME ReapersTypeOK, NEW r \in Reapers, NEW s, NEW settled, Passes(r, s, settled)
  PROVE  /\ rFound' \in [Reapers -> SUBSET Servers]
         /\ rSeen' \in [Reapers -> SUBSET Servers]
         /\ rAged' \in [Reapers -> SUBSET Servers]
BY DEF ReapersTypeOK, Passes

\* Every step of a reaper: what it deletes is an object it found.
LEMMA ReapsTyped ==
  ASSUME ReapTypes, NEW r \in Reapers, ReaperStep(r) \/ GraceElapses(r) \/ ReaperFails(r)
  PROVE  ReapTypes'
<1> USE DEF ReapTypes
<1>1. CASE ScanObjects(r)
  <2>1. ReapersTypeOK'
    BY <1>1 DEF ScanObjects, ReaperGoto, ReapersTypeOK, ReaperPCs
  <2> QED  BY <1>1, <2>1, StoreUnchanged, FleetUnchanged DEF ScanObjects, storeVars, fleetVars
<1>2. CASE ScanLeases(r)
  <2>1. ReapersTypeOK'
    BY <1>2 DEF ScanLeases, ReaperGoto, ReapersTypeOK, ReaperPCs
  <2> QED  BY <1>2, <2>1, StoreUnchanged, FleetUnchanged DEF ScanLeases, storeVars, fleetVars
<1>3. CASE ReclaimReads(r)
  <2>1. PICK s \in rFound[r] :
          \/ /\ ReaperGoto(r, "delete") /\ rAim' = [rAim EXCEPT ![r] = s]
             /\ UNCHANGED <<rFound, rSeen, rAged>>
          \/ Passes(r, s, TRUE) /\ UNCHANGED <<rPc, rAim>>
    BY <1>3 DEF ReclaimReads
  <2>2. s \in Servers /\ s # None
    BY NoneIsFresh DEF ReapersTypeOK
  <2>3. ReapersTypeOK'
    BY <2>1, <2>2, PassesTyped DEF ReaperGoto, ReapersTypeOK, ReaperPCs
  <2> QED  BY <1>3, <2>3, StoreUnchanged, FleetUnchanged DEF ReclaimReads, storeVars, fleetVars
<1>4. CASE ReclaimDeletes(r)
  <2>1. \/ DeleteServer(rAim[r]) /\ Passes(r, rAim[r], TRUE) /\ UNCHANGED faults
        \/ Passes(r, rAim[r], server[rAim[r]].state = "deleted") /\ UNCHANGED <<server, faults>>
        \/ DeleteFails(rAim[r]) /\ Passes(r, rAim[r], FALSE)
    BY <1>4 DEF ReclaimDeletes
  <2>2. UNCHANGED <<lease, expired, inflight>>
    BY <1>4 DEF ReclaimDeletes
  <2>3. StoreTypeOK' /\ FleetTypeOK'
    BY <2>1, <2>2, DeleteTyped, StoreUnchanged, FleetUnchanged
  <2>4. /\ rFound' \in [Reapers -> SUBSET Servers]
        /\ rSeen' \in [Reapers -> SUBSET Servers]
        /\ rAged' \in [Reapers -> SUBSET Servers]
    BY <2>1, PassesTyped
  <2>5. ReapersTypeOK'
    BY <1>4, <2>4 DEF ReclaimDeletes, ReaperGoto, ReapersTypeOK, ReaperPCs
  <2> QED  BY <2>3, <2>5
<1>5. CASE SweepEnds(r)
  <2>1. ReapersTypeOK'
    BY <1>5 DEF SweepEnds, ReaperGoto, ReapersTypeOK, ReaperPCs
  <2> QED  BY <1>5, <2>1, StoreUnchanged, FleetUnchanged DEF SweepEnds, storeVars, fleetVars
<1>6. CASE GraceElapses(r)
  <2>1. ReapersTypeOK'
    BY <1>6 DEF GraceElapses, ReapersTypeOK
  <2> QED  BY <1>6, <2>1, StoreUnchanged, FleetUnchanged DEF GraceElapses, storeVars, fleetVars
<1>7. CASE ReaperFails(r)
  <2>1. ReapersTypeOK'
    BY <1>7 DEF ReaperFails, ReaperGoto, ReapersTypeOK, ReaperPCs
  <2> QED  BY <1>7, <2>1, StoreUnchanged, FleetUnchanged DEF ReaperFails, fleetVars
<1> QED  BY <1>1, <1>2, <1>3, <1>4, <1>5, <1>6, <1>7 DEF ReaperStep

-----------------------------------------------------------------------------
\* The zone's sessions.
SessionTypes == StoreTypeOK /\ FleetTypeOK /\ SessionsTypeOK

\* The session's counterpart of MoveTyped.
LEMMA SessionMoveTyped ==
  ASSUME SessionsTypeOK, NEW z \in Sessions, NEW label \in SessionPCs,
         NEW l \in StoredLease \cup {None}, SessionEquipped(label, l),
         SessionGoto(z, label),
         SessionHolds(z, l) \/ (l = sObs[z] /\ UNCHANGED sObs)
  PROVE  SessionsTypeOK'
<1>1. sPc' \in [Sessions -> SessionPCs] /\ sPc'[z] = label
      /\ \A y \in Sessions \ {z} : sPc'[y] = sPc[y]
  BY DEF SessionsTypeOK, SessionGoto
<1>2. sObs' \in [Sessions -> StoredLease \cup {None}] /\ sObs'[z] = l
      /\ \A y \in Sessions \ {z} : sObs'[y] = sObs[y]
  BY DEF SessionsTypeOK, SessionHolds
<1>3. \A y \in Sessions : SessionEquipped(sPc'[y], sObs'[y])
  BY <1>1, <1>2 DEF SessionsTypeOK
<1> QED  BY <1>1, <1>2, <1>3 DEF SessionsTypeOK

\* A refused claim and a finished session hold nothing.
LEMMA SessionLeavesTyped ==
  ASSUME SessionsTypeOK, NEW z \in Sessions, Refuse(z) \/ SessionOver(z)
  PROVE  SessionsTypeOK'
<1>1. {"idle", "over"} \subseteq SessionPCs
      /\ SessionEquipped("idle", None) /\ SessionEquipped("over", None)
  BY DEF SessionPCs, SessionEquipped
<1> QED  BY <1>1, SessionMoveTyped DEF Refuse, SessionOver

\* Every step of a session: it claims a published lease and ends a claimed one.
LEMMA PlaysTyped ==
  ASSUME SessionTypes, NEW z \in Sessions, SessionStep(z, handed) \/ ClaimFails(z)
  PROVE  SessionTypes'
<1> USE DEF SessionTypes
<1>1. /\ sObs[z] \in StoredLease \cup {None}
      /\ SessionEquipped(sPc[z], sObs[z])
  BY DEF SessionsTypeOK
<1>2. SessionPCs = {"idle", "resolve", "claim", "admitted", "ended", "delete", "remove", "over"}
  BY DEF SessionPCs
<1>3. CASE ClaimLoads(z, handed)
  <2>1. lease \in StoredLease /\ SessionEquipped("resolve", lease)
    BY <1>3 DEF ClaimLoads, StoreTypeOK, SessionEquipped
  <2>2. SessionsTypeOK'
    BY <1>2, <1>3, <2>1, SessionMoveTyped DEF ClaimLoads
  <2> QED  BY <1>3, <2>2, StoreUnchanged, FleetUnchanged DEF ClaimLoads, storeVars, fleetVars
<1>4. CASE ClaimResolves(z)
  <2>1. SessionEquipped("claim", sObs[z])
    BY <1>1, <1>4 DEF ClaimResolves, SessionEquipped
  <2>2. SessionsTypeOK'
    BY <1>1, <1>2, <1>4, <2>1, SessionMoveTyped, SessionLeavesTyped DEF ClaimResolves
  <2> QED  BY <1>4, <2>2, StoreUnchanged, FleetUnchanged DEF ClaimResolves, storeVars, fleetVars
<1>5. CASE ClaimWrites(z)
  <2>1. FleetTypeOK'
    BY <1>5, FleetUnchanged DEF ClaimWrites, fleetVars
  <2>2. CASE Refuse(z) /\ UNCHANGED storeVars
    BY <2>1, <2>2, SessionLeavesTyped, StoreUnchanged DEF storeVars
  <2>3. ASSUME NEW result, ClaimByKey(sObs[z], result),
               IF result = "ok" THEN SessionGoto(z, "admitted") /\ SessionHolds(z, lease')
                                ELSE Refuse(z)
        PROVE  SessionTypes'
    <3>1. sObs[z] \in StoredLease /\ ~sObs[z].staging /\ ~sObs[z].releasing
      BY <1>1, <1>5 DEF ClaimWrites, SessionEquipped
    <3>2. StoreTypeOK' /\ (result = "ok" => lease' = Admitted(sObs[z]))
      BY <2>3, <3>1, ClaimByKeyTyped
    <3>3. /\ Admitted(sObs[z]) \in StoredLease
          /\ Admitted(sObs[z]).claimed /\ ~Admitted(sObs[z]).staging
      BY <3>1, LeaseShapes, StoredLeases DEF StoredLease, Admitted, Lease
    <3>4. SessionEquipped("admitted", Admitted(sObs[z]))
      BY <3>3, StoredLeases DEF SessionEquipped
    <3> QED  BY <1>2, <2>1, <2>3, <3>2, <3>3, <3>4, SessionMoveTyped, SessionLeavesTyped
  <2> QED  BY <1>5, <2>2, <2>3 DEF ClaimWrites
<1>6. CASE SessionEnds(z)
  <2>1. SessionEquipped("ended", sObs[z])
    BY <1>1, <1>6 DEF SessionEnds, SessionEquipped
  <2>2. SessionsTypeOK'
    BY <1>1, <1>2, <1>6, <2>1, SessionMoveTyped DEF SessionEnds
  <2> QED  BY <1>6, <2>2, StoreUnchanged, FleetUnchanged DEF SessionEnds, storeVars, fleetVars
<1>7. CASE EndFences(z)
  <2> DEFINE ending == Ended(sObs[z])
  <2>1. sObs[z] \in StoredLease /\ sObs[z].claimed /\ ~sObs[z].staging
    BY <1>1, <1>7 DEF EndFences, SessionEquipped
  <2>2. ending \in StoredLease /\ ending.releasing /\ ~ending.staging
    BY <2>1, LeaseShapes, LeaseUpdates, StoredLeases DEF StoredLease
  <2>3. PICK result : WriteExact(sObs[z], ending, result)
    BY <1>7 DEF EndFences
  <2>4. \/ SessionGoto(z, "delete") /\ SessionHolds(z, ending)
        \/ SessionOver(z)
    BY <1>7 DEF EndFences
  <2> HIDE DEF ending
  <2>5. StoreTypeOK'
    BY <2>2, <2>3, WriteExactTyped
  <2>6. SessionEquipped("delete", ending)
    BY <2>2, StoredLeases DEF SessionEquipped
  <2>7. SessionsTypeOK'
    BY <1>2, <2>2, <2>4, <2>6, SessionMoveTyped, SessionLeavesTyped
  <2> QED  BY <1>7, <2>5, <2>7, FleetUnchanged DEF EndFences, fleetVars
<1>8. CASE EndDeletes(z)
  <2>1. UNCHANGED <<lease, expired, inflight>> /\ sPc[z] = "delete"
    BY <1>8 DEF EndDeletes
  <2>2. \/ DeleteServer(sObs[z].server) /\ SessionGoto(z, "remove") /\ UNCHANGED <<faults, sObs>>
        \/ DeleteFails(sObs[z].server) /\ SessionOver(z)
    BY <1>8 DEF EndDeletes
  <2>3. StoreTypeOK' /\ FleetTypeOK'
    BY <2>1, <2>2, DeleteTyped, StoreUnchanged
  <2>4. SessionEquipped("remove", sObs[z])
    BY <1>1, <2>1 DEF SessionEquipped
  <2> QED  BY <1>1, <1>2, <2>2, <2>3, <2>4, SessionMoveTyped, SessionLeavesTyped
<1>9. CASE EndRemoves(z)
  <2>1. PICK result : WriteExact(sObs[z], None, result)
    BY <1>9 DEF EndRemoves
  <2>2. StoreTypeOK'
    BY <2>1, WriteExactTyped
  <2> QED  BY <1>9, <2>2, SessionLeavesTyped, FleetUnchanged DEF EndRemoves, fleetVars
<1>10. CASE ClaimFails(z)
  BY <1>10, SessionLeavesTyped, StoreUnchanged, FleetUnchanged DEF ClaimFails, fleetVars
<1> QED
  BY <1>3, <1>4, <1>5, <1>6, <1>7, <1>8, <1>9, <1>10 DEF SessionStep

-----------------------------------------------------------------------------
\* Time, the allocator and the fleet's own failures.
LEMMA EnvironmentTyped ==
  ASSUME StoreTypeOK, FleetTypeOK, Environment
  PROVE  StoreTypeOK' /\ FleetTypeOK'
<1>1. CASE Expire /\ UNCHANGED fleetVars
  <2>1. lease.attempt \in Attempts
    BY <1>1, StoredLeases DEF Expire, StoreTypeOK, Lease
  <2> QED  BY <1>1, <2>1, FleetUnchanged DEF Expire, StoreTypeOK, fleetVars
<1>2. ASSUME NEW a \in Attempts, AllocatorCommits(a) \/ AllocatorDrops(a), UNCHANGED storeVars
      PROVE  StoreTypeOK' /\ FleetTypeOK'
  BY <1>2, StoreUnchanged
  DEF AllocatorCommits, AllocatorDrops, FleetTypeOK, ServerStates, storeVars
<1>3. ASSUME NEW s \in Servers, Fault, ServerFails(s), UNCHANGED <<lease, expired>>
      PROVE  StoreTypeOK' /\ FleetTypeOK'
  BY <1>3, StoreUnchanged DEF ServerFails, FleetTypeOK, ServerStates
<1> QED  BY <1>1, <1>2, <1>3 DEF Environment

\* Every lease in store or in hand stays what normalizeLease accepts, and every
\* process has in hand what the place it is at works with: no call fences,
\* dispatches, resolves or finalizes without a lease, and no sweep fences a
\* claimed one.
THEOREM HandoffTypeOK == Spec => []TypeOK
<1>1. Init => TypeOK
  <2> SUFFICES ASSUME Init PROVE TypeOK
    OBVIOUS
  <2>1. StoreTypeOK
    BY MaxFaultsIsNat DEF Init, StoreInit, StoreTypeOK
  <2>2. FleetTypeOK
    BY DEF Init, FleetInit, FleetTypeOK, ServerStates
  <2>3. CallersTypeOK
    BY AttemptOfIsAFunction, EquippedForNothing
    DEF Init, CallerInit, CallersTypeOK, PCs, Continuations
  <2>4. SweepersTypeOK
    BY DEF Init, SweepInit, SweepersTypeOK, SweepPCs, SweepEquipped
  <2>5. ReapersTypeOK
    BY DEF Init, ReaperInit, ReapersTypeOK, ReaperPCs
  <2>6. SessionsTypeOK
    BY DEF Init, SessionInit, SessionsTypeOK, SessionPCs, SessionEquipped
  <2> QED  BY <2>1, <2>2, <2>3, <2>4, <2>5, <2>6 DEF TypeOK
<1>2. TypeOK /\ [Next]_vars => TypeOK'
  <2> SUFFICES ASSUME TypeOK, [Next]_vars PROVE TypeOK'
    OBVIOUS
  <2> USE DEF TypeOK
  <2>1. CASE Calls
    BY <2>1, CallsTyped, SweepersUnchanged, ReapersUnchanged, SessionsUnchanged
    DEF Calls, CallTypes
  <2>2. CASE Sweeps
    BY <2>2, SweepsTyped, CallersUnchanged, ReapersUnchanged, SessionsUnchanged
    DEF Sweeps, SweepTypes
  <2>3. CASE Reaps
    BY <2>3, ReapsTyped, CallersUnchanged, SweepersUnchanged, SessionsUnchanged
    DEF Reaps, ReapTypes
  <2>4. CASE Plays
    BY <2>4, PlaysTyped, CallersUnchanged, SweepersUnchanged, ReapersUnchanged
    DEF Plays, SessionTypes
  <2>5. CASE Environment
    BY <2>5, EnvironmentTyped, CallersUnchanged, SweepersUnchanged, ReapersUnchanged,
       SessionsUnchanged
    DEF Environment
  <2>6. CASE UNCHANGED vars
    BY <2>6, StoreUnchanged, FleetUnchanged, CallersUnchanged, SweepersUnchanged,
       ReapersUnchanged, SessionsUnchanged
    DEF vars, storeVars, fleetVars
  <2> QED  BY <2>1, <2>2, <2>3, <2>4, <2>5, <2>6 DEF Next
<1> QED  BY <1>1, <1>2, PTL DEF Spec

-----------------------------------------------------------------------------
(***************************************************************************)
(* Dispatch.                                                               *)
(***************************************************************************)

\* The ways a step of call c changes the lease.
LeaseMove(c) ==
  \/ lease' = lease
  \/ /\ pc[c] = "stage" /\ lease' = Staged(req[c])
     /\ lease = obs[c] /\ (lease # None => lease.dispatch = None)
  \/ pc[c] = "dispatch" /\ lease = obs[c] /\ lease' = Dispatched(obs[c], c)
  \/ pc[c] = "finalize" /\ lease = obs[c] /\ lease' = Published(req[c], target[c])
  \/ /\ pc[c] \in {"steal", "unallocated", "fence"}
     /\ lease = obs[c] /\ ~lease.releasing /\ ~lease.claimed /\ lease' = Fenced(obs[c])
  \/ pc[c] = "remove" /\ HoldsAttempt(req[c]) /\ ~lease.claimed /\ lease' = None

\* Labels are not given or taken; a step other than the allocator's acquires
\* nothing.
LabelsKept ==
  \A s \in Servers : /\ server'[s].attempt = server[s].attempt
                     /\ server'[s].state = "ready" => server[s].state = "ready"

\* What a step of call c does to everybody else.
OthersKept(c) ==
  \A d \in Callers \ {c} :
    /\ pc'[d] = pc[d] /\ req'[d] = req[d] /\ obs'[d] = obs[d]
    /\ target'[d] = target[d] /\ after'[d] = after[d]

RequestMoves(c) ==
  \/ req'[c] \in {req[c], AttemptOf[c]}
  \/ lease # None /\ req'[c] = lease.attempt

InflightMoves(c) == \A a \in inflight' : a \in inflight \/ (pc[c] = "rpc" /\ a = req[c])

CallFrame(c) ==
  LeaseMove(c) /\ LabelsKept /\ OthersKept(c) /\ RequestMoves(c) /\ InflightMoves(c)

\* The control operators leave the other calls alone.
LEMMA ControlFrame ==
  ASSUME CallersTypeOK, NEW c \in Callers
  PROVE  /\ \A label : Goto(c, label) => \A d \in Callers \ {c} : pc'[d] = pc[d]
         /\ \A l : Hold(c, l) => \A d \in Callers \ {c} : obs'[d] = obs[d]
         /\ \A s : Aim(c, s) => \A d \in Callers \ {c} : target'[d] = target[d]
         /\ Retain(c) => OthersKept(c) /\ RequestMoves(c)
         /\ Fail(c) => OthersKept(c) /\ RequestMoves(c)
         /\ LeaveReconcile(c) => OthersKept(c) /\ RequestMoves(c)
         /\ \A l : Answer(c, l) => OthersKept(c) /\ RequestMoves(c)
         /\ \A l, next : ReleaseResource(c, l, next) /\ UNCHANGED <<req, target>> =>
              OthersKept(c) /\ RequestMoves(c)
BY DEF CallersTypeOK, Goto, Hold, Aim, Retain, Fail, LeaveReconcile, Answer, ReleaseResource,
       Doom, Keep, OthersKept, RequestMoves

\* Deletes and failed deletes give and take no label.
LEMMA FleetFrame ==
  ASSUME FleetTypeOK
  PROVE  /\ UNCHANGED server => LabelsKept
         /\ \A s : DeleteServer(s) => LabelsKept
         /\ \A s : DeleteFails(s) => LabelsKept
BY DEF FleetTypeOK, DeleteServer, DeleteFails, LabelsKept

\* What each store operation does to the lease, as a move of the caller's.
LEMMA StoreFrame ==
  ASSUME NEW c \in Callers, NEW result
  PROVE  /\ pc[c] = "stage" /\ obs[c] = None /\ Create(req[c], result) => LeaseMove(c)
         /\ pc[c] = "stage" /\ obs[c] # None /\ Replace(obs[c], req[c], result) => LeaseMove(c)
         /\ pc[c] = "dispatch" /\ BeginDispatch(obs[c], c, result) => LeaseMove(c)
         /\ pc[c] = "finalize" /\ Finalize(obs[c], Published(req[c], target[c]), result)
              => LeaseMove(c)
         /\ pc[c] \in {"steal", "unallocated", "fence"} /\ BeginRelease(obs[c], result)
              => LeaseMove(c)
         /\ pc[c] = "remove" /\ Release(req[c], result) => LeaseMove(c)
BY DEF LeaseMove, Create, Replace, BeginDispatch, Finalize, BeginRelease, Release,
       Commits, StorageFails, Settles

\* Every step of a call, a failed one and a crash included, stays in its frame.
LEMMA CallFramed ==
  ASSUME CallTypes, NEW c \in Callers, CallerStep(c) \/ StepFails(c) \/ Crash(c)
  PROVE  CallFrame(c)
<1> USE ControlFrame, FleetFrame, StoreFrame DEF CallTypes, CallFrame
<1>1. CASE AllocateLoads(c)
  <2>1. req'[c] \in {req[c], AttemptOf[c]} \/ (lease # None /\ req'[c] = lease.attempt)
    BY <1>1 DEF AllocateLoads, Fail, Keep, CallersTypeOK
  <2>2. OthersKept(c)
    BY <1>1 DEF AllocateLoads, OthersKept, Keep, CallersTypeOK
  <2> QED  BY <1>1, <2>1, <2>2 DEF AllocateLoads, LeaseMove, RequestMoves, InflightMoves
<1>2. CASE StealFences(c)
  BY <1>2 DEF StealFences, InflightMoves
<1>3. CASE StageAttempt(c)
  BY <1>3 DEF StageAttempt, InflightMoves, OthersKept, RequestMoves, Keep
<1>4. CASE DispatchAttempt(c)
  BY <1>4 DEF DispatchAttempt, InflightMoves, OthersKept, RequestMoves, Keep
<1>5. CASE ObserveAttempt(c)
  BY <1>5 DEF ObserveAttempt, InflightMoves, OthersKept, RequestMoves, Keep, Doom, LeaseMove, CallersTypeOK
<1>6. CASE SendAllocation(c)
  BY <1>6 DEF SendAllocation, InflightMoves, OthersKept, RequestMoves, Keep, LeaseMove
<1>7. CASE AllocationAnswered(c)
  BY <1>7 DEF AllocationAnswered, InflightMoves, OthersKept, RequestMoves, Keep, LeaseMove
<1>8. CASE AllocationRefused(c)
  BY <1>8 DEF AllocationRefused, InflightMoves, OthersKept, RequestMoves, Keep, LeaseMove
<1>9. CASE ObserveDispatched(c)
  BY <1>9 DEF ObserveDispatched, InflightMoves, OthersKept, RequestMoves, Keep, Doom, LeaseMove, CallersTypeOK
<1>10. CASE AdoptServer(c)
  BY <1>10 DEF AdoptServer, InflightMoves, OthersKept, RequestMoves, Keep, LeaseMove
<1>11. CASE FinalizeAttempt(c)
  BY <1>11 DEF FinalizeAttempt, InflightMoves, OthersKept, RequestMoves, Keep
<1>12. CASE CheckProgress(c)
  BY <1>12 DEF CheckProgress, InflightMoves, OthersKept, RequestMoves, Keep, LeaseMove
<1>13. CASE ResolveLease(c)
  BY <1>13 DEF ResolveLease, InflightMoves, LeaseMove
<1>14. CASE FenceUnallocated(c)
  BY <1>14 DEF FenceUnallocated, InflightMoves, OthersKept, RequestMoves, Keep
<1>15. CASE ReloadUnallocated(c)
  BY <1>15 DEF ReloadUnallocated, InflightMoves, OthersKept, RequestMoves, Keep, LeaseMove
<1>16. CASE ReconcileLoads(c)
  BY <1>16 DEF ReconcileLoads, InflightMoves, OthersKept, RequestMoves, Keep, LeaseMove
<1>17. CASE ReconcileFences(c)
  BY <1>17 DEF ReconcileFences, InflightMoves
<1>18. CASE ListAttempt(c)
  BY <1>18 DEF ListAttempt, InflightMoves, OthersKept, RequestMoves, LeaseMove
<1>19. CASE DeleteDoomed(c)
  BY <1>19 DEF DeleteDoomed, InflightMoves, OthersKept, RequestMoves, LeaseMove, CallersTypeOK
<1>20. CASE CleanupReturns(c)
  BY <1>20 DEF CleanupReturns, InflightMoves, OthersKept, RequestMoves, Keep, LeaseMove,
       CallersTypeOK, Continuations
<1>21. CASE ForgetAttempt(c)
  BY <1>21 DEF ForgetAttempt, InflightMoves
<1>22. CASE ReturnHandoff(c)
  BY <1>22 DEF ReturnHandoff, InflightMoves, OthersKept, RequestMoves, LeaseMove
<1>23. CASE StepFails(c)
  BY <1>23 DEF StepFails, InflightMoves, OthersKept, RequestMoves, Keep, LeaseMove, CallersTypeOK
<1>24. CASE Crash(c)
  BY <1>24 DEF Crash, InflightMoves, OthersKept, RequestMoves, LeaseMove, CallersTypeOK
<1> QED
  BY <1>1, <1>2, <1>3, <1>4, <1>5, <1>6, <1>7, <1>8, <1>9, <1>10, <1>11, <1>12, <1>13, <1>14,
     <1>15, <1>16, <1>17, <1>18, <1>19, <1>20, <1>21, <1>22, <1>23, <1>24 DEF CallerStep

-----------------------------------------------------------------------------
\* Leases written by a step, as far as the invariant reads them.
LEMMA WrittenLeases ==
  ASSUME StoreTypeOK
  PROVE  /\ \A a \in Attempts : Staged(a).attempt = a /\ Staged(a).dispatch = None
         /\ \A l \in StoredLease, c \in Callers :
              Dispatched(l, c).attempt = l.attempt /\ Dispatched(l, c).releasing = l.releasing
         /\ \A a, s : Published(a, s).attempt = a
         /\ \A l \in StoredLease : Fenced(l).attempt = l.attempt /\ Fenced(l).releasing
BY StoredLeases DEF Staged, Dispatched, Published, Fenced, Lease

\* A step of call c keeps the invariant of every other call.
LEMMA OthersInv ==
  ASSUME FreshAttempts, CallTypes, DispatchInv,
         NEW c \in Callers, NEW d \in Callers \ {c}, CallFrame(c)
  PROVE  CallInv(d)'
<1> USE DEF CallTypes
<1>1. /\ CallInv(c) /\ CallInv(d)
      /\ AttemptOf[c] # AttemptOf[d] /\ AttemptOf[d] \in Attempts /\ AttemptOf[c] \in Attempts
      /\ req[c] \in Attempts /\ req[d] \in Attempts
      /\ obs[c] \in StoredLease \cup {None} /\ target[c] \in Servers \cup {None}
      /\ target[d] \in Servers \cup {None}
  BY AttemptOfIsAFunction, CallTyped DEF FreshAttempts, DispatchInv
<1>2. /\ pc'[d] = pc[d] /\ req'[d] = req[d] /\ obs'[d] = obs[d]
      /\ target'[d] = target[d] /\ after'[d] = after[d]
  BY DEF CallFrame, OthersKept
<1>3. Staging(d)' <=> Staging(d)
  BY <1>2 DEF Staging
<1>4. Removing(d)' <=> Removing(d)
  BY <1>2 DEF Removing
<1>5. lease # None => lease.attempt \in Attempts
  BY StoredLeases DEF StoreTypeOK, Lease
\* What the step may have done to the lease, seen from call d.
<1>6. \/ lease' = lease
      \/ lease' = None
      \/ /\ pc[c] = "stage" /\ lease' # None /\ lease'.attempt = AttemptOf[c]
         /\ (lease # None => lease.dispatch = None)
      \/ /\ lease # None /\ lease' # None /\ lease'.attempt = lease.attempt
         /\ (lease.releasing => lease'.releasing)
  <2>1. CASE pc[c] = "stage" /\ lease' = Staged(req[c]) /\ (lease # None => lease.dispatch = None)
    <3>1. req[c] = AttemptOf[c] /\ Staged(req[c]) # None
      BY <1>1, <2>1, LeaseShapes DEF CallInv, AttemptUnsent, Staging
    <3> QED  BY <1>1, <2>1, <3>1, WrittenLeases
  <2>2. CASE pc[c] = "dispatch" /\ lease = obs[c] /\ lease' = Dispatched(obs[c], c)
    <3>1. obs[c] \in StoredLease /\ obs[c].staging
      BY <1>1, <2>2, CallTyped DEF Equipped
    <3>2. Dispatched(obs[c], c) # None
      BY <3>1, LeaseShapes, StoredLeases
    <3> QED  BY <2>2, <3>1, <3>2, WrittenLeases, StoredLeases
  <2>3. CASE pc[c] = "finalize" /\ lease = obs[c] /\ lease' = Published(req[c], target[c])
    <3>1. obs[c] # None /\ obs[c].attempt = req[c] /\ ~obs[c].releasing /\ target[c] \in Servers
      BY <1>1, <2>3, CallTyped DEF CallInv, LeaseInHand, Equipped
    <3>2. Published(req[c], target[c]) # None
      BY <1>1, <3>1, LeaseShapes
    <3> QED  BY <2>3, <3>1, <3>2, WrittenLeases
  <2>4. CASE /\ pc[c] \in {"steal", "unallocated", "fence"}
             /\ lease = obs[c] /\ ~lease.releasing /\ ~lease.claimed /\ lease' = Fenced(obs[c])
    <3>1. obs[c] \in StoredLease
      BY <1>1, <2>4, CallTyped DEF Equipped
    <3>2. Fenced(obs[c]) # None
      BY <2>4, <3>1, LeaseShapes, StoredLeases
    <3> QED  BY <2>4, <3>1, <3>2, WrittenLeases, StoredLeases
  <2> QED  BY <2>1, <2>2, <2>3, <2>4 DEF CallFrame, LeaseMove
<1>7. AttemptFresh(d)'
  <2> SUFFICES ASSUME Staging(d)
               PROVE  /\ ~HoldsAttempt(AttemptOf[d])'
                      /\ \A e \in Callers \ {d} : req'[e] # AttemptOf[d]
    BY <1>3 DEF AttemptFresh
  <2>1. ~HoldsAttempt(AttemptOf[d]) /\ \A e \in Callers \ {d} : req[e] # AttemptOf[d]
    BY <1>1 DEF CallInv, AttemptFresh
  <2>2. ~HoldsAttempt(AttemptOf[d])'
    BY <1>1, <1>6, <2>1 DEF HoldsAttempt
  <2>3. req'[c] # AttemptOf[d]
    BY <1>1, <2>1 DEF CallFrame, RequestMoves, HoldsAttempt
  <2> QED  BY <2>1, <2>2, <2>3 DEF CallFrame, OthersKept
<1>8. AttemptUnsent(d)'
  <2> SUFFICES ASSUME Staging(d) \/ pc[d] \in {"dispatch", "provision", "rpc"}
               PROVE  /\ req[d] = AttemptOf[d] /\ AttemptOf[d] \notin inflight'
                      /\ \A s \in Servers : server'[s].attempt # AttemptOf[d]
    BY <1>2, <1>3 DEF AttemptUnsent
  <2>1. /\ req[d] = AttemptOf[d] /\ AttemptOf[d] \notin inflight
        /\ \A s \in Servers : server[s].attempt # AttemptOf[d]
    BY <1>1 DEF CallInv, AttemptUnsent
  <2>2. pc[c] = "rpc" => req[c] = AttemptOf[c]
    BY <1>1 DEF CallInv, AttemptUnsent
  <2> QED  BY <1>1, <2>1, <2>2 DEF CallFrame, InflightMoves, LabelsKept
<1>9. RequestOwned(d)'
  <2>1. pc[c] = "rpc" => req[c] = AttemptOf[c]
    BY <1>1 DEF CallInv, AttemptUnsent
  <2> QED  BY <1>1, <1>2, <2>1 DEF CallInv, RequestOwned, CallFrame, InflightMoves
<1>10. LeaseInHand(d)'
  BY <1>1, <1>2 DEF CallInv, LeaseInHand
<1>11. ObjectInHand(d)'
  BY <1>1, <1>2 DEF CallInv, ObjectInHand, CallFrame, LabelsKept
<1>12. RemovedFenced(d)'
  <2> SUFFICES ASSUME Removing(d), HoldsAttempt(req[d])' PROVE lease'.releasing
    BY <1>2, <1>4 DEF RemovedFenced
  <2>1. HoldsAttempt(req[d]) => lease.releasing
    BY <1>1 DEF CallInv, RemovedFenced
  <2>2. pc[c] = "stage" => req[d] # AttemptOf[c]
    BY <1>1 DEF CallInv, AttemptFresh, Staging
  <2> QED  BY <1>2, <1>6, <2>1, <2>2 DEF HoldsAttempt
<1>13. ASSUME pc[d] \in {"provision", "rpc"}, OwnDispatch(d) PROVE OwnDispatch(d)'
  <2>1. /\ req[d] = AttemptOf[d] /\ \A s \in Servers : server[s].attempt # AttemptOf[d]
    BY <1>1, <1>13 DEF CallInv, AttemptUnsent
  <2>2. /\ lease # None /\ lease.attempt = AttemptOf[d] /\ lease.dispatch = d /\ d # None
        /\ lease.staging /\ ~lease.releasing
    BY <1>13, <2>1, NoneIsFresh DEF OwnDispatch, HoldsAttempt, Quarantined
  <2>3. target[c] # None => req[c] # AttemptOf[d]
    BY <1>1, <2>1 DEF CallInv, ObjectInHand
  <2>4. lease' = lease
    <3>1. ~(pc[c] = "stage" /\ (lease # None => lease.dispatch = None))
      BY <2>2
    <3>2. ~(pc[c] = "dispatch" /\ lease = obs[c])
      BY <1>1, <2>2 DEF CallInv, LeaseInHand
    <3>3. ~(pc[c] = "finalize" /\ lease = obs[c])
      BY <1>1, <2>2, <2>3, CallTyped DEF CallInv, LeaseInHand, Equipped
    <3>4. ~(pc[c] = "steal" /\ lease = obs[c])
      BY <1>1, <2>2 DEF CallInv, LeaseInHand
    <3>5. ~(pc[c] = "unallocated" /\ lease = obs[c])
      BY <1>1, <2>2 DEF CallInv, LeaseInHand, RequestOwned
    <3>6. ~(pc[c] = "fence" /\ lease = obs[c])
      <4>1. Quarantined(lease)
        BY <1>13 DEF OwnDispatch
      <4> QED  BY <1>1, <2>2, <2>3, <4>1 DEF CallInv, LeaseInHand
    <3>7. ~(pc[c] = "remove" /\ HoldsAttempt(req[c]))
      BY <1>1, <2>2 DEF CallInv, RemovedFenced, Removing
    <3> QED  BY <3>1, <3>2, <3>3, <3>4, <3>5, <3>6, <3>7 DEF CallFrame, LeaseMove
  <2> QED  BY <1>2, <1>13, <2>4 DEF OwnDispatch, HoldsAttempt
<1> QED
  BY <1>1, <1>2, <1>7, <1>8, <1>9, <1>10, <1>11, <1>12, <1>13 DEF CallInv

-----------------------------------------------------------------------------
\* Where nothing is asked of a call but that its object is the right one.
Resting == {"progress", "resolve", "winner", "reconcile", "return", "done", "failed"}
Rests(label, next) ==
  label \in Resting \/ (label \in {"list", "delete"} /\ next \in {"leave", "fail", "progress"})

\* A call that rests keeps the invariant, if its object still is the right one.
LEMMA RestsInv ==
  ASSUME NEW c \in Callers, Rests(pc'[c], after'[c]), LabelsKept, ObjectInHand(c),
         target'[c] = None \/ (target'[c] = target[c] /\ req'[c] = req[c] /\ target[c] \in Servers)
  PROVE  CallInv(c)'
<1>1. ~Staging(c)' /\ ~Removing(c)'
  BY DEF Rests, Resting, Staging, Removing
<1>2. ObjectInHand(c)'
  BY DEF ObjectInHand, LabelsKept, Rests, Resting
<1> QED
  BY <1>1, <1>2
  DEF CallInv, AttemptFresh, AttemptUnsent, RequestOwned, LeaseInHand, RemovedFenced,
      Rests, Resting

\* The exits of a call rest it.
LEMMA ExitsRest ==
  ASSUME CallersTypeOK, NEW c \in Callers, Retain(c) \/ Fail(c) \/ LeaveReconcile(c)
  PROVE  Rests(pc'[c], after'[c]) /\ target'[c] = None
BY DEF CallersTypeOK, Retain, Fail, LeaveReconcile, Goto, Aim, Rests, Resting

\* A call that returns, fails or leaves its reconciliation keeps the invariant.
LEMMA ExitsInv ==
  ASSUME CallTypes, NEW c \in Callers, CallInv(c), LabelsKept,
         Retain(c) \/ Fail(c) \/ LeaveReconcile(c)
  PROVE  CallInv(c)'
BY ExitsRest, RestsInv DEF CallTypes, CallInv

\* A step within one call's own control: the values it leaves.
LEMMA ControlValues ==
  ASSUME CallersTypeOK, NEW c \in Callers
  PROVE  /\ \A label : Goto(c, label) => pc'[c] = label
         /\ \A l : Hold(c, l) => obs'[c] = l
         /\ \A s : Aim(c, s) => target'[c] = s
         /\ Keep => after' = after
         /\ \A objects, next : Doom(c, objects, next) => after'[c] = next
         /\ \A l : Answer(c, l) => pc'[c] = "return" /\ target'[c] = None
         /\ \A l, next : ReleaseResource(c, l, next) =>
              pc'[c] \in {"list", "delete"} /\ after'[c] = next /\ obs'[c] = l
BY DEF CallersTypeOK, Goto, Hold, Aim, Keep, Doom, Answer, ReleaseResource

\* A call that goes on working for its attempt with its lease.
LEMMA WorksInv ==
  ASSUME NEW c \in Callers,
         pc'[c] \in {"observe", "wait", "await", "adopt", "finalize"},
         pc'[c] = "wait" => req'[c] = AttemptOf[c],
         obs'[c] # None, obs'[c].attempt = req'[c], ~obs'[c].releasing,
         ObjectInHand(c)'
  PROVE  CallInv(c)'
<1>1. ~Staging(c)' /\ ~Removing(c)'
  BY DEF Staging, Removing
<1> QED
  BY <1>1
  DEF CallInv, AttemptFresh, AttemptUnsent, RequestOwned, LeaseInHand, RemovedFenced

\* A call that goes on towards its staging intent.
LEMMA StagesInv ==
  ASSUME NEW c \in Callers, CallInv(c), Staging(c), Staging(c)', pc'[c] # "load",
         pc'[c] = "steal" => obs'[c].dispatch = None,
         \/ lease' = lease
         \/ lease # None /\ lease'.attempt = lease.attempt,
         OthersKept(c), LabelsKept, UNCHANGED inflight,
         req'[c] = req[c], target'[c] = target[c], target[c] \in Servers \cup {None}
  PROVE  CallInv(c)'
<1>1. AttemptFresh(c)'
  BY DEF CallInv, AttemptFresh, HoldsAttempt, OthersKept
<1>2. AttemptUnsent(c)'
  BY DEF CallInv, AttemptUnsent, LabelsKept
<1>3. ObjectInHand(c)'
  BY DEF CallInv, ObjectInHand, LabelsKept
<1>4. ~Removing(c)' /\ pc'[c] \in {"steal", "stage", "list", "delete"}
  BY DEF Staging, Removing
<1> QED
  BY <1>1, <1>2, <1>3, <1>4 DEF CallInv, RequestOwned, LeaseInHand, RemovedFenced

\* A call about to dispatch its own staging lease.
LEMMA DispatchesInv ==
  ASSUME NEW c \in Callers, CallInv(c), Staging(c), pc'[c] = "dispatch",
         lease' # None, obs'[c] = lease', lease'.attempt = req[c],
         ~lease'.releasing, lease'.dispatch = None,
         LabelsKept, UNCHANGED inflight,
         req'[c] = req[c], target'[c] = target[c], target[c] \in Servers \cup {None}
  PROVE  CallInv(c)'
<1>1. AttemptUnsent(c)'
  BY DEF CallInv, AttemptUnsent, LabelsKept
<1>2. ObjectInHand(c)'
  BY DEF CallInv, ObjectInHand, LabelsKept
<1>3. ~Removing(c)' /\ ~Staging(c)'
  BY DEF Staging, Removing
<1> QED
  BY <1>1, <1>2, <1>3 DEF CallInv, AttemptFresh, RequestOwned, LeaseInHand, RemovedFenced

\* Load: a call with no lease of its own stages, dispatches or observes.
LEMMA AllocateLoadsInv ==
  ASSUME CallTypes, NEW c \in Callers, CallInv(c), CallFrame(c), AllocateLoads(c)
  PROVE  CallInv(c)'
<1> USE DEF CallTypes
<1>1. /\ pc[c] = "load" /\ Staging(c) /\ ObjectInHand(c) /\ target[c] = None
      /\ LabelsKept /\ OthersKept(c) /\ UNCHANGED <<lease, inflight>> /\ req[c] = AttemptOf[c]
  BY DEF AllocateLoads, Staging, CallInv, ObjectInHand, AttemptUnsent, CallFrame
<1>2. CASE lease = None
  <2>1. Goto(c, "stage") /\ UNCHANGED <<req, obs, target>> /\ Keep
    BY <1>2 DEF AllocateLoads
  <2>2. pc'[c] = "stage" /\ Staging(c)'
    BY <2>1, ControlValues DEF Staging
  <2> QED  BY <1>1, <2>1, <2>2, StagesInv
<1>3. CASE lease # None
  <2>1. lease \in StoredLease /\ lease \in Lease
    BY <1>3, StoredLeases DEF StoreTypeOK
  <2>2. PICK late \in {FALSE, lease.attempt \in expired} :
       LET own == lease.attempt = req[c] IN
       \/ Fail(c)
       \/ Goto(c, "resolve") /\ Hold(c, lease) /\ UNCHANGED <<req, target>> /\ Keep
       \/ /\ own /\ ~lease.releasing /\ lease.staging
          /\ Goto(c, IF lease.dispatch # None THEN "observe"
                     ELSE IF late THEN "reconcile" ELSE "dispatch")
          /\ Hold(c, lease) /\ UNCHANGED <<req, target>> /\ Keep
       \/ /\ ~own /\ Quarantined(lease)
          /\ Goto(c, "observe") /\ Hold(c, lease)
          /\ req' = [req EXCEPT ![c] = lease.attempt]
          /\ UNCHANGED target /\ Keep
       \/ /\ ~own /\ Replaceable(lease, late)
          /\ Goto(c, "steal") /\ Hold(c, lease) /\ UNCHANGED <<req, target>> /\ Keep
    BY <1>3 DEF AllocateLoads
  <2>3. CASE Fail(c)
    BY <1>1, <2>3, ExitsInv
  <2>4. CASE Goto(c, "resolve") /\ Hold(c, lease) /\ UNCHANGED <<req, target>> /\ Keep
    <3>1. Rests(pc'[c], after'[c])
      BY <2>4, ControlValues DEF Rests, Resting
    <3> QED  BY <1>1, <2>4, <3>1, RestsInv
  <2>5. CASE /\ lease.attempt = req[c] /\ ~lease.releasing /\ lease.staging
             /\ Goto(c, IF lease.dispatch # None THEN "observe"
                        ELSE IF late THEN "reconcile" ELSE "dispatch")
             /\ Hold(c, lease) /\ UNCHANGED <<req, target>> /\ Keep
    <3>1. ~HoldsAttempt(AttemptOf[c])
      BY <1>1 DEF CallInv, AttemptFresh
    <3> QED  BY <1>1, <1>3, <2>5, <3>1 DEF HoldsAttempt
  <2>6. CASE /\ Quarantined(lease)
             /\ Goto(c, "observe") /\ Hold(c, lease)
             /\ req' = [req EXCEPT ![c] = lease.attempt]
             /\ UNCHANGED target /\ Keep
    <3>1. pc'[c] = "observe" /\ obs'[c] = lease /\ req'[c] = lease.attempt
      BY <2>6, ControlValues DEF CallersTypeOK
    <3>2. ~lease.releasing
      BY <2>6 DEF Quarantined
    <3>3. ObjectInHand(c)'
      BY <1>1, <2>6, <3>1 DEF ObjectInHand
    <3> QED  BY <1>3, <3>1, <3>2, <3>3, WorksInv
  <2>7. CASE /\ Replaceable(lease, late)
             /\ Goto(c, "steal") /\ Hold(c, lease) /\ UNCHANGED <<req, target>> /\ Keep
    <3>1. pc'[c] = "steal" /\ obs'[c] = lease /\ Staging(c)' /\ lease.dispatch = None
      BY <2>7, ControlValues DEF Staging, Replaceable
    <3> QED  BY <1>1, <2>7, <3>1, StagesInv
  <2> QED  BY <2>2, <2>3, <2>4, <2>5, <2>6, <2>7
<1> QED  BY <1>2, <1>3

\* The fence on another call's expired attempt is a step towards staging.
LEMMA StealFencesInv ==
  ASSUME CallTypes, NEW c \in Callers, CallInv(c), CallFrame(c), StealFences(c)
  PROVE  CallInv(c)'
<1> USE DEF CallTypes
<1>1. /\ pc[c] = "steal" /\ Staging(c) /\ LabelsKept /\ OthersKept(c) /\ UNCHANGED inflight
      /\ target[c] \in Servers \cup {None}
  BY CallTyped DEF StealFences, Staging, CallFrame
<1>2. CASE Fail(c)
  BY <1>1, <1>2, ExitsInv
<1>3. CASE ReleaseResource(c, lease', "stage") /\ UNCHANGED <<req, target>>
  <2>1. pc'[c] \in {"list", "delete"} /\ after'[c] = "stage"
    BY <1>3, ControlValues
  <2>2. Staging(c)' /\ pc'[c] \notin {"load", "steal"}
    BY <2>1 DEF Staging
  <2>3. lease' = lease \/ (lease # None /\ lease'.attempt = lease.attempt)
    <3>1. obs[c] \in StoredLease
      BY <1>1, CallTyped DEF Equipped
    <3>2. lease' = lease \/ (lease = obs[c] /\ lease' = Fenced(obs[c]))
      BY <1>1 DEF CallFrame, LeaseMove
    <3> QED  BY <3>1, <3>2, WrittenLeases, StoredLeases
  <2> QED  BY <1>1, <1>3, <2>2, <2>3, StagesInv
<1> QED  BY <1>2, <1>3 DEF StealFences

\* Create and Replace: the attempt nobody has met becomes the stored one.
LEMMA StageAttemptInv ==
  ASSUME CallTypes, NEW c \in Callers, CallInv(c), CallFrame(c), StageAttempt(c)
  PROVE  CallInv(c)'
<1> USE DEF CallTypes
<1>1. /\ pc[c] = "stage" /\ Staging(c) /\ LabelsKept /\ UNCHANGED inflight /\ ObjectInHand(c)
      /\ target[c] \in Servers \cup {None} /\ req[c] \in Attempts
      /\ obs[c] \in StoredLease \cup {None}
  BY CallTyped DEF StageAttempt, Staging, CallFrame, CallInv
<1>2. CASE Fail(c)
  BY <1>1, <1>2, ExitsInv
<1>3. ASSUME IF obs[c] = None THEN Create(req[c], "ok") ELSE Replace(obs[c], req[c], "ok"),
             Goto(c, IF ~lease'.staging THEN "resolve"
                     ELSE IF lease'.dispatch = None THEN "dispatch" ELSE "observe"),
             Hold(c, lease'), UNCHANGED <<req, target>>, Keep
      PROVE  CallInv(c)'
  <2>1. lease' # None
    BY <1>1, <1>3, CreateTyped, ReplaceTyped
  <2>2. lease'.attempt = req[c] /\ ~lease'.releasing
    <3>1. Staged(req[c]).attempt = req[c] /\ ~Staged(req[c]).releasing
      BY DEF Staged
    <3> QED
      BY <1>3, <3>1 DEF Create, Replace, Commits, StorageFails, Settles, HoldsAttempt
  <2>3. obs'[c] = lease' /\ after'[c] = after[c]
    BY <1>3, ControlValues
  <2>4. ObjectInHand(c)' \/ pc'[c] = "load"
    BY <1>1, <1>3 DEF ObjectInHand, LabelsKept
  <2>5. CASE ~lease'.staging
    <3>1. Rests(pc'[c], after'[c])
      BY <1>3, <2>5, ControlValues DEF Rests, Resting
    <3> QED  BY <1>1, <1>3, <3>1, RestsInv
  <2>6. CASE lease'.staging /\ lease'.dispatch = None
    <3>1. pc'[c] = "dispatch"
      BY <1>3, <2>6, ControlValues
    <3> QED  BY <1>1, <1>3, <2>1, <2>2, <2>3, <2>6, <3>1, DispatchesInv
  <2>7. CASE lease'.staging /\ lease'.dispatch # None
    <3>1. pc'[c] = "observe"
      BY <1>3, <2>7, ControlValues
    <3> QED  BY <1>3, <2>1, <2>2, <2>3, <2>4, <3>1, WorksInv
  <2> QED  BY <2>5, <2>6, <2>7
<1> QED  BY <1>2, <1>3 DEF StageAttempt

\* BeginDispatch: the winner's dispatch is its own; the others observe.
LEMMA DispatchAttemptInv ==
  ASSUME CallTypes, NEW c \in Callers, CallInv(c), CallFrame(c), DispatchAttempt(c)
  PROVE  CallInv(c)'
<1> USE DEF CallTypes
<1>1. /\ pc[c] = "dispatch" /\ LabelsKept /\ UNCHANGED inflight /\ ObjectInHand(c)
      /\ target[c] \in Servers \cup {None}
      /\ obs[c] \in StoredLease /\ obs[c].staging /\ obs[c].attempt = req[c] /\ ~obs[c].releasing
  BY CallTyped DEF DispatchAttempt, CallFrame, CallInv, LeaseInHand, Equipped
<1>2. CASE Fail(c)
  BY <1>1, <1>2, ExitsInv
<1>3. ASSUME NEW result \in {"won", "ok"}, BeginDispatch(obs[c], c, result),
             Goto(c, IF MayAllocate(result) THEN "provision" ELSE "observe"),
             Hold(c, lease'), UNCHANGED <<req, target>>, Keep
      PROVE  CallInv(c)'
  <2>1. lease' # None /\ obs'[c] = lease'
    BY <1>1, <1>3, BeginDispatchTyped, ControlValues
  <2>2. ObjectInHand(c)' \/ pc'[c] = "load"
    BY <1>1, <1>3 DEF ObjectInHand, LabelsKept
  <2>3. CASE result = "ok"
    <3>1. lease'.attempt = req[c] /\ ~lease'.releasing
      BY <1>1, <1>3, <2>3
      DEF BeginDispatch, StorageFails, Settles, HoldsAttempt, Quarantined
    <3>2. pc'[c] = "observe"
      BY <1>3, <2>3, ControlValues DEF MayAllocate
    <3> QED  BY <1>3, <2>1, <2>2, <3>1, <3>2, WorksInv
  <2>4. CASE result = "won"
    <3>1. lease' = Dispatched(obs[c], c)
      BY <1>3, <2>4 DEF BeginDispatch, StorageFails, Settles
    <3>2. /\ lease'.attempt = req[c] /\ ~lease'.releasing /\ lease'.dispatch = c
          /\ lease'.staging /\ c # None
      BY <1>1, <3>1, StoredLeases, NoneIsFresh DEF Dispatched, Lease
    <3>3. pc'[c] = "provision"
      BY <1>3, <2>4, ControlValues DEF MayAllocate
    <3>4. OwnDispatch(c)'
      BY <1>3, <2>1, <3>2 DEF OwnDispatch, HoldsAttempt, Quarantined
    <3>5. AttemptUnsent(c)'
      BY <1>1, <1>3 DEF CallInv, AttemptUnsent, LabelsKept
    <3>6. ~Staging(c)' /\ ~Removing(c)'
      BY <3>3 DEF Staging, Removing
    <3> QED
      BY <1>3, <2>1, <2>2, <3>2, <3>3, <3>4, <3>5, <3>6
      DEF CallInv, AttemptFresh, RequestOwned, LeaseInHand, RemovedFenced
  <2> QED  BY <2>3, <2>4
<1> QED  BY <1>2, <1>3 DEF DispatchAttempt

\* An observed object carries the attempt it was looked up by.
LEMMA ObserveAttemptInv ==
  ASSUME CallTypes, NEW c \in Callers, CallInv(c), CallFrame(c), ObserveAttempt(c)
  PROVE  CallInv(c)'
<1> USE DEF CallTypes
<1>1. /\ pc[c] \in {"provision", "observe"} /\ LabelsKept /\ ObjectInHand(c)
      /\ UNCHANGED <<lease, server, inflight, req, obs>>
      /\ target[c] \in Servers \cup {None}
      /\ obs[c] # None /\ obs[c].attempt = req[c] /\ ~obs[c].releasing
  BY CallTyped DEF ObserveAttempt, CallFrame, CallInv, LeaseInHand
<1>2. CASE Goto(c, IF pc[c] = "provision" THEN "rpc" ELSE "progress") /\ UNCHANGED target /\ Keep
  <2>1. CASE pc[c] = "observe"
    <3>1. Rests(pc'[c], after'[c])
      BY <1>2, <2>1, ControlValues DEF Rests, Resting
    <3> QED  BY <1>1, <1>2, <3>1, RestsInv
  <2>2. CASE pc[c] = "provision"
    <3>1. pc'[c] = "rpc"
      BY <1>2, <2>2, ControlValues
    <3>2. OwnDispatch(c)'
      BY <1>1, <2>2 DEF CallInv, OwnDispatch, HoldsAttempt
    <3>3. AttemptUnsent(c)' /\ ObjectInHand(c)'
      BY <1>1, <1>2, <2>2, <3>1 DEF CallInv, AttemptUnsent, ObjectInHand
    <3>4. ~Staging(c)' /\ ~Removing(c)'
      BY <3>1 DEF Staging, Removing
    <3> QED
      BY <1>1, <3>1, <3>2, <3>3, <3>4
      DEF CallInv, AttemptFresh, RequestOwned, LeaseInHand, RemovedFenced
  <2> QED  BY <1>1, <2>1, <2>2
<1>3. ASSUME NEW s \in AllocatedFor(req[c]), Aim(c, s), Goto(c, "adopt")
      PROVE  CallInv(c)'
  <2>1. pc'[c] = "adopt" /\ target'[c] = s
    BY <1>3, ControlValues
  <2>2. server[s].attempt = req[c]
    BY <1>3 DEF AllocatedFor, Labelled
  <2>3. ObjectInHand(c)'
    BY <1>1, <2>1, <2>2 DEF ObjectInHand
  <2> QED  BY <1>1, <2>1, <2>3, WorksInv
<1>4. CASE Goto(c, "delete") /\ Doom(c, AllocatedFor(req[c]), "progress") /\ UNCHANGED target
  <2>1. Rests(pc'[c], after'[c])
    BY <1>4, ControlValues DEF Rests
  <2> QED  BY <1>1, <1>4, <2>1, RestsInv
<1> QED  BY <1>2, <1>3, <1>4 DEF ObserveAttempt

\* The request leaves, and its answer names an object of the attempt.
LEMMA AllocationInv ==
  ASSUME CallTypes, NEW c \in Callers, CallInv(c), CallFrame(c),
         SendAllocation(c) \/ AllocationAnswered(c)
  PROVE  CallInv(c)'
<1> USE DEF CallTypes
<1>1. /\ pc[c] \in {"rpc", "wait"} /\ LabelsKept /\ ObjectInHand(c)
      /\ UNCHANGED <<server, req, obs>>
      /\ target[c] \in Servers \cup {None}
      /\ obs[c] # None /\ obs[c].attempt = req[c] /\ ~obs[c].releasing
      /\ pc[c] = "rpc" => req[c] = AttemptOf[c]
  BY CallTyped
  DEF SendAllocation, AllocationAnswered, CallFrame, CallInv, LeaseInHand, AttemptUnsent
<1>2. CASE SendAllocation(c)
  <2>1. pc'[c] = "wait" /\ target' = target /\ pc[c] = "rpc"
    BY <1>2, ControlValues DEF SendAllocation
  <2>2. ObjectInHand(c)'
    BY <1>1, <2>1 DEF ObjectInHand
  <2> QED  BY <1>1, <2>1, <2>2, WorksInv
<1>3. CASE AllocationAnswered(c)
  <2>1. PICK s \in Servers : server[s].attempt = req[c] /\ Aim(c, s)
    BY <1>3 DEF AllocationAnswered
  <2>2. pc'[c] = "await" /\ target'[c] = s
    BY <1>3, <2>1, ControlValues DEF AllocationAnswered
  <2>3. ObjectInHand(c)'
    BY <1>1, <2>1, <2>2 DEF ObjectInHand
  <2> QED  BY <1>1, <2>2, <2>3, WorksInv
<1> QED  BY <1>2, <1>3

\* A call that gives its refused request up.
LEMMA UnallocatedInv ==
  ASSUME NEW c \in Callers, pc'[c] \in {"unallocated", "reload"},
         req'[c] = AttemptOf[c], "late" \notin Anomalies => req'[c] \notin inflight',
         pc'[c] = "unallocated" => obs'[c].attempt = req'[c],
         ObjectInHand(c)'
  PROVE  CallInv(c)'
<1>1. ~Staging(c)' /\ ~Removing(c)'
  BY DEF Staging, Removing
<1> QED
  BY <1>1
  DEF CallInv, AttemptFresh, AttemptUnsent, RequestOwned, LeaseInHand, RemovedFenced

\* A refused request is with nobody when the call gives it up.
LEMMA AllocationRefusedInv ==
  ASSUME CallTypes, NEW c \in Callers, CallInv(c), CallFrame(c), AllocationRefused(c)
  PROVE  CallInv(c)'
<1>1. /\ pc[c] = "wait" /\ UNCHANGED <<server, req, obs, target>>
      /\ inflight' = IF "late" \in Anomalies THEN inflight ELSE inflight \ {req[c]}
      /\ ObjectInHand(c) /\ obs[c].attempt = req[c] /\ req[c] = AttemptOf[c]
  BY DEF AllocationRefused, CallInv, LeaseInHand, RequestOwned
<1>2. pc'[c] = "unallocated"
  BY ControlValues DEF AllocationRefused, CallTypes
<1>3. ObjectInHand(c)'
  BY <1>1, <1>2 DEF ObjectInHand
<1> QED  BY <1>1, <1>2, <1>3, UnallocatedInv

\* The object observed after the dispatch is the one that was answered.
LEMMA ObserveDispatchedInv ==
  ASSUME CallTypes, NEW c \in Callers, CallInv(c), CallFrame(c), ObserveDispatched(c)
  PROVE  CallInv(c)'
<1> USE DEF CallTypes
<1>1. /\ pc[c] = "await" /\ LabelsKept /\ ObjectInHand(c)
      /\ UNCHANGED <<server, req, obs>> /\ target[c] \in Servers \cup {None}
      /\ obs[c] # None /\ obs[c].attempt = req[c] /\ ~obs[c].releasing
  BY CallTyped DEF ObserveDispatched, CallFrame, CallInv, LeaseInHand
<1>2. CASE Goto(c, "adopt") /\ UNCHANGED target /\ Keep
  <2>1. pc'[c] = "adopt"
    BY <1>2, ControlValues
  <2>2. ObjectInHand(c)'
    BY <1>1, <1>2, <2>1 DEF ObjectInHand
  <2> QED  BY <1>1, <2>1, <2>2, WorksInv
<1>3. CASE Goto(c, "progress") /\ Aim(c, None) /\ Keep
  <2>1. Rests(pc'[c], after'[c]) /\ target'[c] = None
    BY <1>3, ControlValues DEF Rests, Resting
  <2> QED  BY <1>1, <2>1, RestsInv
<1>4. CASE Goto(c, "delete") /\ Aim(c, None) /\ Doom(c, AllocatedFor(req[c]), "progress")
  <2>1. Rests(pc'[c], after'[c]) /\ target'[c] = None
    BY <1>4, ControlValues DEF Rests
  <2> QED  BY <1>1, <2>1, RestsInv
<1> QED  BY <1>2, <1>3, <1>4 DEF ObserveDispatched

\* Adopting an object keeps it in hand for Finalize.
LEMMA AdoptServerInv ==
  ASSUME CallTypes, NEW c \in Callers, CallInv(c), CallFrame(c), AdoptServer(c)
  PROVE  CallInv(c)'
<1> USE DEF CallTypes
<1>1. /\ pc[c] = "adopt" /\ LabelsKept /\ ObjectInHand(c)
      /\ UNCHANGED <<server, req, obs>> /\ target[c] \in Servers \cup {None}
      /\ obs[c] # None /\ obs[c].attempt = req[c] /\ ~obs[c].releasing
  BY CallTyped DEF AdoptServer, CallFrame, CallInv, LeaseInHand
<1>2. CASE Goto(c, "progress") /\ Aim(c, None)
  <2>1. Rests(pc'[c], after'[c]) /\ target'[c] = None
    BY <1>2, ControlValues DEF Rests, Resting
  <2> QED  BY <1>1, <2>1, RestsInv
<1>3. CASE Goto(c, "reconcile") /\ UNCHANGED target
  <2>1. Rests(pc'[c], after'[c])
    BY <1>3, ControlValues DEF Rests, Resting
  <2> QED  BY <1>1, <1>3, <2>1, RestsInv
<1>4. CASE Goto(c, "finalize") /\ UNCHANGED target
  <2>1. pc'[c] = "finalize"
    BY <1>4, ControlValues
  <2>2. ObjectInHand(c)'
    BY <1>1, <1>4, <2>1 DEF ObjectInHand
  <2> QED  BY <1>1, <2>1, <2>2, WorksInv
<1> QED  BY <1>2, <1>3, <1>4 DEF AdoptServer

\* Publishing, judging progress, resolving and returning rest the call.
LEMMA OutcomeInv ==
  ASSUME CallTypes, NEW c \in Callers, CallInv(c), CallFrame(c),
         FinalizeAttempt(c) \/ CheckProgress(c) \/ ResolveLease(c) \/ ReturnHandoff(c)
  PROVE  CallInv(c)'
<1> USE DEF CallTypes
<1>1. LabelsKept /\ ObjectInHand(c) /\ target[c] \in Servers \cup {None}
  BY CallTyped DEF CallFrame, CallInv
<1>2. CASE Fail(c) \/ Retain(c)
  BY <1>1, <1>2, ExitsInv
<1>3. ASSUME NEW l, Answer(c, l) PROVE CallInv(c)'
  <2>1. Rests(pc'[c], after'[c]) /\ target'[c] = None
    BY <1>3, ControlValues DEF Rests, Resting
  <2> QED  BY <1>1, <2>1, RestsInv
<1>4. ASSUME NEW label \in {"progress", "winner", "reconcile", "done"}, Goto(c, label),
             UNCHANGED <<req, target>>
      PROVE  CallInv(c)'
  <2>1. Rests(pc'[c], after'[c])
    BY <1>4, ControlValues DEF Rests, Resting
  <2> QED  BY <1>1, <1>4, <2>1, RestsInv
<1>5. CASE FinalizeAttempt(c)
  BY <1>3, <1>4, <1>5 DEF FinalizeAttempt
<1>6. CASE CheckProgress(c)
  BY <1>2, <1>4, <1>6 DEF CheckProgress
<1>7. CASE ResolveLease(c)
  BY <1>2, <1>3, <1>7 DEF ResolveLease
<1>8. CASE ReturnHandoff(c)
  BY <1>2, <1>4, <1>8 DEF ReturnHandoff
<1> QED  BY <1>5, <1>6, <1>7, <1>8

\* releaseUnallocated works with its own attempt's lease until it is settled.
LEMMA ReleaseUnallocatedInv ==
  ASSUME CallTypes, NEW c \in Callers, CallInv(c), CallFrame(c),
         FenceUnallocated(c) \/ ReloadUnallocated(c)
  PROVE  CallInv(c)'
<1> USE DEF CallTypes
<1>1. /\ pc[c] \in {"unallocated", "reload"} /\ LabelsKept /\ ObjectInHand(c)
      /\ UNCHANGED <<server, inflight, req, target>> /\ target[c] \in Servers \cup {None}
      /\ req[c] = AttemptOf[c] /\ ("late" \notin Anomalies => req[c] \notin inflight)
  BY CallTyped
  DEF FenceUnallocated, ReloadUnallocated, CallFrame, CallInv, RequestOwned
<1>2. ASSUME NEW label \in {"reconcile", "progress"}, Goto(c, label) PROVE CallInv(c)'
  <2>1. Rests(pc'[c], after'[c])
    BY <1>2, ControlValues DEF Rests, Resting
  <2> QED  BY <1>1, <2>1, RestsInv
<1>3. ASSUME NEW label \in {"reload", "unallocated"}, Goto(c, label),
             label = "unallocated" => obs'[c].attempt = req[c]
      PROVE  CallInv(c)'
  <2>1. pc'[c] = label
    BY <1>3, ControlValues
  <2>2. ObjectInHand(c)'
    BY <1>1, <1>3, <2>1 DEF ObjectInHand
  <2> QED  BY <1>1, <1>3, <2>1, <2>2, UnallocatedInv
<1>4. CASE FenceUnallocated(c)
  <2>1. PICK result \in {"ok", "conflict", "error"} :
          Goto(c, CASE result = "ok"       -> "reconcile"
                    [] result = "conflict" -> "progress"
                    [] result = "error"    -> "reload")
    BY <1>4 DEF FenceUnallocated
  <2>2. CASE result = "ok"
    BY <1>2, <2>1, <2>2
  <2>3. CASE result = "conflict"
    BY <1>2, <2>1, <2>3
  <2>4. CASE result = "error"
    BY <1>3, <2>1, <2>4
  <2> QED  BY <2>2, <2>3, <2>4
<1>5. CASE ReloadUnallocated(c)
  <2>1. CASE Goto(c, "progress")
    BY <1>2, <2>1
  <2>2. CASE HoldsAttempt(req[c]) /\ Goto(c, "unallocated") /\ Hold(c, lease)
    <3>1. obs'[c] = lease /\ lease.attempt = req[c]
      BY <2>2, ControlValues DEF HoldsAttempt
    <3> QED  BY <1>3, <2>2, <3>1
  <2> QED  BY <1>5, <2>1, <2>2 DEF ReloadUnallocated
<1> QED  BY <1>4, <1>5

\* A reconciliation fences a dispatch only with its object in hand.
LEMMA ReconcileLoadsInv ==
  ASSUME CallTypes, NEW c \in Callers, CallInv(c), CallFrame(c), ReconcileLoads(c)
  PROVE  CallInv(c)'
<1> USE DEF CallTypes
<1>1. /\ LabelsKept /\ ObjectInHand(c) /\ UNCHANGED <<lease, server>>
      /\ target[c] \in Servers \cup {None}
  BY CallTyped DEF ReconcileLoads, CallFrame, CallInv
<1>2. CASE LeaveReconcile(c)
  BY <1>1, <1>2, ExitsInv
<1>3. CASE ReleaseResource(c, Published(req[c], target[c]), "leave") /\ UNCHANGED <<req, target>>
  <2>1. Rests(pc'[c], after'[c])
    BY <1>3, ControlValues DEF Rests
  <2> QED  BY <1>1, <1>3, <2>1, RestsInv
<1>4. CASE /\ HoldsAttempt(req[c]) /\ ~LeftAlone(lease, target[c])
           /\ Goto(c, "fence") /\ Hold(c, lease) /\ UNCHANGED <<req, target>>
  <2>1. pc'[c] = "fence" /\ obs'[c] = lease /\ lease.attempt = req[c]
    BY <1>4, ControlValues DEF HoldsAttempt
  <2>2. target[c] # None \/ ~Quarantined(lease)
    BY <1>4 DEF LeftAlone
  <2>3. ~Staging(c)' /\ ~Removing(c)' /\ ObjectInHand(c)'
    BY <1>1, <1>4, <2>1 DEF Staging, Removing, ObjectInHand
  <2>4. Quarantined(obs'[c]) <=> Quarantined(lease)
    BY <2>1 DEF Quarantined
  <2>5. LeaseInHand(c)'
    BY <1>4, <2>1, <2>2 DEF LeaseInHand, Quarantined
  <2> QED
    BY <1>4, <2>1, <2>3, <2>5
    DEF CallInv, AttemptFresh, AttemptUnsent, RequestOwned, RemovedFenced
<1> QED  BY <1>2, <1>3, <1>4 DEF ReconcileLoads

\* A call on its way to forget a fenced attempt.
LEMMA RemovesInv ==
  ASSUME NEW c \in Callers, Removing(c)', HoldsAttempt(req[c])' => lease'.releasing,
         ObjectInHand(c), LabelsKept, UNCHANGED <<req, target>>,
         target[c] \in Servers \cup {None}
  PROVE  CallInv(c)'
<1>1. pc'[c] \in {"list", "delete", "remove"} /\ ~Staging(c)'
  BY DEF Removing, Staging
<1>2. ObjectInHand(c)'
  BY <1>1 DEF ObjectInHand, LabelsKept
<1>3. RemovedFenced(c)'
  BY DEF RemovedFenced, HoldsAttempt
<1> QED
  BY <1>1, <1>2, <1>3 DEF CallInv, AttemptFresh, AttemptUnsent, RequestOwned, LeaseInHand

\* The attempt a reconciliation goes on to forget is fenced.
LEMMA ReconcileFencesInv ==
  ASSUME CallTypes, NEW c \in Callers, CallInv(c), CallFrame(c), ReconcileFences(c)
  PROVE  CallInv(c)'
<1> USE DEF CallTypes
<1>1. /\ LabelsKept /\ ObjectInHand(c) /\ target[c] \in Servers \cup {None}
      /\ obs[c] \in StoredLease /\ obs[c].attempt = req[c]
  BY CallTyped DEF ReconcileFences, CallFrame, CallInv, LeaseInHand, Equipped
<1>2. CASE LeaveReconcile(c)
  BY <1>1, <1>2, ExitsInv
<1>3. ASSUME NEW l, BeginRelease(obs[c], "ok"), ReleaseResource(c, l, "remove"),
             UNCHANGED <<req, target>>
      PROVE  CallInv(c)'
  <2>1. Removing(c)'
    BY <1>3, ControlValues DEF Removing
  <2>2. lease'.releasing
    BY <1>1, <1>3, WrittenLeases
    DEF BeginRelease, Commits, StorageFails, Settles
  <2> QED  BY <1>1, <1>3, <2>1, <2>2, RemovesInv
<1> QED  BY <1>2, <1>3 DEF ReconcileFences

\* The steps of a cleanup lead on to where it continues.
LEMMA CleanupInv ==
  ASSUME CallTypes, NEW c \in Callers, CallInv(c), CallFrame(c),
         pc[c] \in {"list", "delete"}, pc'[c] = "delete" \/ pc'[c] = after[c],
         after'[c] = after[c] \/ (pc'[c] = "delete" /\ after'[c] \in {"fail", "leave"}),
         pc'[c] # "delete" => after[c] \in {"stage", "remove", "progress"},
         UNCHANGED <<lease, inflight, req, target>>
  PROVE  CallInv(c)'
<1> USE DEF CallTypes
<1>1. /\ LabelsKept /\ OthersKept(c) /\ ObjectInHand(c) /\ target[c] \in Servers \cup {None}
      /\ after[c] \in Continuations
  BY CallTyped DEF CallFrame, CallInv
<1>2. CASE Rests(pc'[c], after'[c])
  BY <1>1, <1>2, RestsInv
<1>3. CASE after[c] = "stage" /\ after'[c] = after[c]
  <2>1. Staging(c) /\ Staging(c)'
    BY <1>3 DEF Staging
  <2> QED  BY <1>1, <1>3, <2>1, StagesInv
<1>4. CASE after[c] = "remove" /\ after'[c] = after[c]
  <2>1. Removing(c) /\ Removing(c)'
    BY <1>4 DEF Removing
  <2>2. HoldsAttempt(req[c])' => lease'.releasing
    BY <2>1 DEF CallInv, RemovedFenced, HoldsAttempt
  <2> QED  BY <1>1, <2>1, <2>2, RemovesInv
<1> QED  BY <1>1, <1>2, <1>3, <1>4 DEF Continuations, Rests, Resting

\* Listing and deleting the objects of an attempt, and where it leads on to.
LEMMA CleanupStepsInv ==
  ASSUME CallTypes, NEW c \in Callers, CallInv(c), CallFrame(c),
         ListAttempt(c) \/ DeleteDoomed(c) \/ CleanupReturns(c)
  PROVE  CallInv(c)'
<1> USE DEF CallTypes
<1>1. after[c] \in Continuations
  BY CallTyped
<1>2. CASE ListAttempt(c)
  BY <1>2, ControlValues, CleanupInv DEF ListAttempt
<1>3. CASE DeleteDoomed(c)
  <2>1. after'[c] \in {after[c], "fail", "leave"}
    BY <1>1, <1>3 DEF DeleteDoomed, CallersTypeOK, Continuations
  <2> QED  BY <1>3, <2>1, CleanupInv DEF DeleteDoomed
<1>4. CASE CleanupReturns(c)
  <2>1. CASE after[c] \in {"stage", "remove", "progress"}
    BY <1>4, <2>1, ControlValues, CleanupInv DEF CleanupReturns, Keep
  <2>2. CASE after[c] = "leave"
    BY <1>4, <2>2, ExitsInv DEF CleanupReturns, CallFrame
  <2>3. CASE after[c] = "fail"
    BY <1>4, <2>3, ExitsInv DEF CleanupReturns, CallFrame
  <2> QED  BY <1>1, <2>1, <2>2, <2>3 DEF Continuations
<1> QED  BY <1>2, <1>3, <1>4

\* Forgetting the attempt, a failed step and a crash.
LEMMA FailuresInv ==
  ASSUME CallTypes, NEW c \in Callers, CallInv(c), CallFrame(c),
         ForgetAttempt(c) \/ StepFails(c) \/ Crash(c)
  PROVE  CallInv(c)'
<1> USE DEF CallTypes
<1>1. /\ LabelsKept /\ ObjectInHand(c) /\ target[c] \in Servers \cup {None}
      /\ after[c] \in Continuations
  BY CallTyped DEF CallFrame, CallInv
<1>2. CASE Fail(c) \/ Retain(c) \/ LeaveReconcile(c)
  BY <1>1, <1>2, ExitsInv
<1>3. CASE Goto(c, "progress") /\ (Aim(c, None) \/ UNCHANGED <<req, target>>)
  <2>1. Rests(pc'[c], after'[c]) /\ (Aim(c, None) => target'[c] = None)
    BY <1>3, ControlValues DEF Rests, Resting
  <2> QED  BY <1>1, <1>3, <2>1, RestsInv
<1>4. CASE /\ Goto(c, "delete")
           /\ after' = [after EXCEPT ![c] = IF @ = "stage" THEN "fail" ELSE "leave"]
           /\ UNCHANGED <<req, target>>
  <2>1. Rests(pc'[c], after'[c])
    BY <1>4, ControlValues DEF Rests, CallersTypeOK
  <2> QED  BY <1>1, <1>4, <2>1, RestsInv
<1>5. CASE Crash(c)
  <2>1. Rests(pc'[c], after'[c]) /\ target'[c] = None
    BY <1>5 DEF Crash, Rests, Resting, CallersTypeOK
  <2> QED  BY <1>1, <2>1, RestsInv
<1> QED  BY <1>2, <1>3, <1>4, <1>5 DEF ForgetAttempt, StepFails

\* A step of a call keeps its own invariant.
LEMMA OwnInv ==
  ASSUME CallTypes, NEW c \in Callers, CallInv(c), CallerStep(c) \/ StepFails(c) \/ Crash(c)
  PROVE  CallInv(c)'
<1>1. CallFrame(c)
  BY CallFramed
<1> QED
  BY <1>1, AllocateLoadsInv, StealFencesInv, StageAttemptInv, DispatchAttemptInv,
     ObserveAttemptInv, AllocationInv, AllocationRefusedInv, ObserveDispatchedInv,
     AdoptServerInv, OutcomeInv, ReleaseUnallocatedInv, ReconcileLoadsInv,
     ReconcileFencesInv, CleanupStepsInv, FailuresInv
  DEF CallerStep

-----------------------------------------------------------------------------
\* What a step that is not a call's does to what the calls rely on: it leaves a
\* quarantined dispatch alone, unfences nothing, stages nothing, and labels
\* objects nobody acquired only.
AsideFrame ==
  /\ UNCHANGED callerVars
  /\ lease # None /\ Quarantined(lease) => lease' = lease
  /\ \/ lease' \in {lease, None}
     \/ /\ lease # None /\ lease'.attempt = lease.attempt
        /\ lease'.server = lease.server /\ lease'.staging = lease.staging
        /\ lease.staging \/ lease.claimed \/ lease.releasing => lease'.releasing
  /\ expired \subseteq expired'
  /\ inflight' \subseteq inflight
  /\ \A s \in Servers :
       \/ /\ server'[s].attempt = server[s].attempt
          /\ server'[s].state = "ready" => server[s].state = "ready"
       \/ /\ server[s].state = "ready" /\ server'[s].state # "ready"
          /\ server'[s].attempt \in inflight

\* A step that is not a call's keeps every call's invariant.
LEMMA AsideInv ==
  ASSUME CallTypes, DispatchInv, AsideFrame
  PROVE  (\A d \in Callers : CallInv(d)') /\ ReadyUnlabelled'
<1>1. UNCHANGED <<pc, req, obs, target, after>>
  BY DEF AsideFrame, callerVars
<1>2. ReadyUnlabelled'
  BY DEF AsideFrame, DispatchInv, ReadyUnlabelled
<1>3. ASSUME NEW d \in Callers PROVE CallInv(d)'
  <2>1. /\ CallInv(d) /\ AttemptOf[d] \in Attempts /\ req[d] \in Attempts
        /\ target[d] \in Servers \cup {None}
    BY AttemptOfIsAFunction, CallTyped DEF DispatchInv, CallTypes
  <2>2. (Staging(d)' <=> Staging(d)) /\ (Removing(d)' <=> Removing(d))
    BY <1>1 DEF Staging, Removing
  <2>3. AttemptFresh(d)'
    BY <1>1, <2>1, <2>2 DEF CallInv, AttemptFresh, AsideFrame, HoldsAttempt
  <2>4. AttemptUnsent(d)'
    BY <1>1, <2>1, <2>2 DEF CallInv, AttemptUnsent, AsideFrame
  <2>5. RequestOwned(d)'
    BY <1>1, <2>1 DEF CallInv, RequestOwned, AsideFrame
  <2>6. LeaseInHand(d)'
    BY <1>1, <2>1 DEF CallInv, LeaseInHand
  <2>7. ObjectInHand(d)'
    BY <1>1, <2>1, NoneIsFresh
    DEF CallInv, ObjectInHand, AsideFrame, DispatchInv, ReadyUnlabelled
  <2>8. RemovedFenced(d)'
    BY <1>1, <2>1, <2>2 DEF CallInv, RemovedFenced, AsideFrame, HoldsAttempt
  <2>9. pc[d] \in {"provision", "rpc"} => OwnDispatch(d)'
    BY <1>1, <2>1 DEF CallInv, OwnDispatch, AsideFrame, HoldsAttempt
  <2> QED
    BY <1>1, <2>3, <2>4, <2>5, <2>6, <2>7, <2>8, <2>9 DEF CallInv
<1> QED  BY <1>2, <1>3

\* Objects that are only deleted, failed or left alone.
LEMMA AsideFleet ==
  ASSUME FleetTypeOK, UNCHANGED inflight,
         \/ UNCHANGED server
         \/ \E s : DeleteServer(s) \/ DeleteFails(s)
         \/ \E s : ServerFails(s)
  PROVE  \A s \in Servers : /\ server'[s].attempt = server[s].attempt
                            /\ server'[s].state = "ready" => server[s].state = "ready"
BY DEF FleetTypeOK, DeleteServer, DeleteFails, ServerFails

\* A sweep spares a quarantined dispatch, whatever happens after it listed it.
LEMMA SweepsAside ==
  ASSUME StoreTypeOK, FleetTypeOK, SweepersTypeOK, SweepsSpareDispatch, Sweeps
  PROVE  AsideFrame /\ SweepsSpareDispatch'
<1>1. PICK w \in Sweepers : SweepStep(w) \/ SweepFails(w)
  BY DEF Sweeps
<1>2. /\ UNCHANGED callerVars
      /\ swObs[w] \in StoredLease \cup {None} /\ SweepEquipped(swPc[w], swObs[w])
      /\ swPc[w] = "fence" => ~Quarantined(swObs[w])
  BY DEF Sweeps, SweepersTypeOK, SweepsSpareDispatch
<1>3. CASE SweepLists(w)
  <2>1. SweepsSpareDispatch'
    BY <1>3
    DEF SweepLists, SweepGoto, SweepersTypeOK, SweepsSpareDispatch, Reclaimable, Quarantined
  <2> QED
    BY <1>2, <1>3, <2>1, AsideFleet
    DEF SweepLists, AsideFrame, storeVars, fleetVars
<1>4. CASE SweepFences(w)
  <2>1. swPc[w] = "fence" /\ swObs[w] \in StoredLease
    BY <1>2, <1>4 DEF SweepFences, SweepEquipped
  <2>2. PICK result : WriteExact(swObs[w], Fenced(swObs[w]), result)
    BY <1>4 DEF SweepFences
  <2>3. /\ lease' = lease \/ (lease = swObs[w] /\ lease' = Fenced(swObs[w]))
        /\ UNCHANGED expired
    BY <2>2 DEF WriteExact, Commits, StorageFails, Settles
  <2>4. SweepsSpareDispatch'
    BY <1>4 DEF SweepFences, SweepGoto, SweepRests, SweepersTypeOK, SweepsSpareDispatch
  <2> QED
    BY <1>2, <1>4, <2>1, <2>3, <2>4, LeaseUpdates, StoredLeases, AsideFleet
    DEF SweepFences, AsideFrame, fleetVars
<1>5. CASE SweepRemoves(w)
  <2>1. swPc[w] = "remove" /\ swObs[w].releasing
    BY <1>2, <1>5 DEF SweepRemoves, SweepEquipped
  <2>2. PICK result : WriteExact(swObs[w], None, result)
    BY <1>5 DEF SweepRemoves
  <2>3. (lease' = lease \/ (lease = swObs[w] /\ lease' = None)) /\ UNCHANGED expired
    BY <2>2 DEF WriteExact, Commits, StorageFails, Settles
  <2>4. SweepsSpareDispatch'
    BY <1>5 DEF SweepRemoves, SweepGoto, SweepRests, SweepersTypeOK, SweepsSpareDispatch
  <2> QED
    BY <1>2, <1>5, <2>1, <2>3, <2>4, AsideFleet
    DEF SweepRemoves, AsideFrame, Quarantined, fleetVars
<1>6. CASE SweepChecks(w) \/ SweepListsAttempt(w) \/ SweepCleaned(w) \/ SweepFails(w)
  <2>1. SweepsSpareDispatch'
    BY <1>6
    DEF SweepChecks, SweepListsAttempt, SweepCleaned, SweepFails, SweepGoto, SweepRests,
        SweepersTypeOK, SweepsSpareDispatch
  <2>2. UNCHANGED <<lease, expired, server, inflight>>
    BY <1>6
    DEF SweepChecks, SweepListsAttempt, SweepCleaned, SweepFails, storeVars, fleetVars
  <2> QED  BY <1>2, <2>1, <2>2, AsideFleet DEF AsideFrame
<1>7. CASE SweepDeletes(w)
  <2>1. SweepsSpareDispatch'
    BY <1>7 DEF SweepDeletes, SweepersTypeOK, SweepsSpareDispatch
  <2> QED  BY <1>2, <1>7, <2>1, AsideFleet DEF SweepDeletes, AsideFrame
<1> QED  BY <1>1, <1>3, <1>4, <1>5, <1>6, <1>7 DEF SweepStep

\* An orphan scan writes no lease.
LEMMA ReapsAside ==
  ASSUME FleetTypeOK, Reaps
  PROVE  AsideFrame
<1>1. PICK r \in Reapers : ReaperStep(r) \/ GraceElapses(r) \/ ReaperFails(r)
  BY DEF Reaps
<1>2. UNCHANGED <<lease, expired, inflight>>
      /\ (UNCHANGED server \/ \E s : DeleteServer(s) \/ DeleteFails(s))
  BY <1>1
  DEF ReaperStep, ScanObjects, ScanLeases, ReclaimReads, ReclaimDeletes, SweepEnds,
      GraceElapses, ReaperFails, storeVars, fleetVars
<1> QED  BY <1>2, AsideFleet DEF AsideFrame, Reaps

\* A session works with published leases only.
LEMMA PlaysAside ==
  ASSUME StoreTypeOK, FleetTypeOK, SessionsTypeOK, Plays
  PROVE  AsideFrame
<1>1. PICK z \in Sessions : SessionStep(z, handed) \/ ClaimFails(z)
  BY DEF Plays
<1>2. /\ UNCHANGED callerVars
      /\ sObs[z] \in StoredLease \cup {None} /\ SessionEquipped(sPc[z], sObs[z])
  BY DEF Plays, SessionsTypeOK
<1>3. CASE ClaimWrites(z)
  <2>1. sObs[z] \in StoredLease /\ ~sObs[z].staging
    BY <1>2, <1>3 DEF ClaimWrites, SessionEquipped
  <2>2. /\ lease' = lease \/ (lease = sObs[z] /\ ~lease.claimed /\ lease' = Admitted(sObs[z]))
        /\ UNCHANGED expired /\ ~sObs[z].releasing
    BY <1>2, <1>3
    DEF ClaimWrites, ClaimByKey, Commits, StorageFails, Settles, storeVars, SessionEquipped
  <2> QED
    BY <1>2, <1>3, <2>1, <2>2, LeaseUpdates, StoredLeases, AsideFleet
    DEF ClaimWrites, AsideFrame, Quarantined, fleetVars
<1>4. CASE EndFences(z)
  <2>1. sObs[z] \in StoredLease /\ ~sObs[z].staging
    BY <1>2, <1>4 DEF EndFences, SessionEquipped
  <2>2. (lease' = lease \/ (lease = sObs[z] /\ lease' = Ended(sObs[z]))) /\ UNCHANGED expired
    BY <1>4 DEF EndFences, WriteExact, Commits, StorageFails, Settles
  <2> QED
    BY <1>2, <1>4, <2>1, <2>2, LeaseUpdates, StoredLeases, AsideFleet
    DEF EndFences, AsideFrame, Quarantined, fleetVars
<1>5. CASE EndRemoves(z)
  <2>1. ~sObs[z].staging
    BY <1>2, <1>5 DEF EndRemoves, SessionEquipped
  <2>2. (lease' = lease \/ (lease = sObs[z] /\ lease' = None)) /\ UNCHANGED expired
    BY <1>5 DEF EndRemoves, WriteExact, Commits, StorageFails, Settles
  <2> QED
    BY <1>2, <1>5, <2>1, <2>2, AsideFleet
    DEF EndRemoves, AsideFrame, Quarantined, fleetVars
<1>6. CASE \/ ClaimLoads(z, handed) \/ ClaimResolves(z) \/ SessionEnds(z)
           \/ EndDeletes(z) \/ ClaimFails(z)
  <2>1. UNCHANGED <<lease, expired, inflight>>
        /\ (UNCHANGED server \/ \E s : DeleteServer(s) \/ DeleteFails(s))
    BY <1>6
    DEF ClaimLoads, ClaimResolves, SessionEnds, EndDeletes, ClaimFails, storeVars, fleetVars
  <2> QED  BY <1>2, <2>1, AsideFleet DEF AsideFrame
<1> QED  BY <1>1, <1>3, <1>4, <1>5, <1>6 DEF SessionStep

\* The allocator labels an object nobody acquired with a request it holds.
LEMMA EnvironmentAside ==
  ASSUME FleetTypeOK, Environment
  PROVE  AsideFrame
<1>1. UNCHANGED <<callerVars, lease>> /\ expired \subseteq expired'
  BY DEF Environment, Expire, storeVars
<1>2. CASE UNCHANGED inflight /\ (UNCHANGED server \/ \E s : ServerFails(s))
  BY <1>1, <1>2, AsideFleet DEF AsideFrame
<1>3. CASE \E a \in Attempts : AllocatorCommits(a) \/ AllocatorDrops(a)
  BY <1>1, <1>3 DEF AllocatorCommits, AllocatorDrops, AsideFrame, FleetTypeOK
<1> QED  BY <1>2, <1>3 DEF Environment, ServerFails, fleetVars

-----------------------------------------------------------------------------
\* At the start no attempt is stored, labelled or with the allocator.
LEMMA DispatchInit == ASSUME FreshAttempts, Init PROVE DispatchInv
<1>1. /\ lease = None /\ inflight = {} /\ pc = [c \in Callers |-> "load"]
      /\ req = AttemptOf /\ target = [c \in Callers |-> None]
      /\ server = [s \in Servers |-> [state |-> "ready", attempt |-> None]]
  BY DEF Init, StoreInit, FleetInit, CallerInit
<1>2. ReadyUnlabelled
  BY <1>1 DEF ReadyUnlabelled
<1>3. SweepsSpareDispatch
  BY DEF Init, SweepInit, SweepsSpareDispatch
<1>4. ASSUME NEW c \in Callers PROVE CallInv(c)
  <2>1. pc[c] = "load" /\ req[c] = AttemptOf[c] /\ target[c] = None /\ AttemptOf[c] # None
    BY <1>1, AttemptOfIsAFunction, NoneIsFresh
  <2>2. AttemptFresh(c)
    BY <1>1 DEF AttemptFresh, HoldsAttempt, FreshAttempts
  <2>3. AttemptUnsent(c)
    BY <1>1, <2>1 DEF AttemptUnsent
  <2>4. ObjectInHand(c)
    BY <2>1 DEF ObjectInHand
  <2> QED
    BY <2>1, <2>2, <2>3, <2>4
    DEF CallInv, RequestOwned, LeaseInHand, RemovedFenced, Removing
<1> QED  BY <1>2, <1>3, <1>4 DEF DispatchInv

\* Every step of the composition keeps the invariant.
LEMMA DispatchStep ==
  ASSUME FreshAttempts, TypeOK, DispatchInv, [Next]_vars
  PROVE  DispatchInv'
<1> USE DEF TypeOK, CallTypes
<1>1. CASE Calls
  <2>1. PICK c \in Callers : CallerStep(c) \/ StepFails(c) \/ Crash(c)
    BY <1>1 DEF Calls
  <2>2. CallInv(c)'
    BY <2>1, OwnInv DEF DispatchInv
  <2>3. CallFrame(c)
    BY <2>1, CallFramed
  <2>4. \A d \in Callers \ {c} : CallInv(d)'
    BY <2>3, OthersInv
  <2>5. ReadyUnlabelled'
    BY <2>3 DEF DispatchInv, ReadyUnlabelled, CallFrame, LabelsKept
  <2>6. SweepsSpareDispatch'
    BY <1>1 DEF Calls, DispatchInv, SweepsSpareDispatch, sweepVars
  <2> QED  BY <2>2, <2>4, <2>5, <2>6 DEF DispatchInv
<1>2. CASE Sweeps
  BY <1>2, SweepsAside, AsideInv DEF DispatchInv
<1>3. ASSUME AsideFrame, UNCHANGED sweepVars PROVE DispatchInv'
  BY <1>3, AsideInv DEF DispatchInv, SweepsSpareDispatch, sweepVars
<1>4. CASE Reaps
  BY <1>3, <1>4, ReapsAside DEF Reaps
<1>5. CASE Plays
  BY <1>3, <1>5, PlaysAside DEF Plays
<1>6. CASE Environment
  BY <1>3, <1>6, EnvironmentAside DEF Environment
<1>7. CASE UNCHANGED vars
  BY <1>3, <1>7 DEF vars, storeVars, fleetVars, AsideFrame
<1> QED  BY <1>1, <1>2, <1>4, <1>5, <1>6, <1>7 DEF Next

\* With attempt IDs of the calls' own, the invariant behind the dispatch barrier
\* holds of every handoff.
THEOREM DispatchHolds == ASSUME FreshAttempts PROVE Spec => []DispatchInv
<1>1. Init => DispatchInv
  BY DispatchInit
<1>2. TypeOK /\ DispatchInv /\ [Next]_vars => DispatchInv'
  BY DispatchStep
<1> QED  BY <1>1, <1>2, HandoffTypeOK, PTL DEF Spec

\* An allocation request leaves only under the calling process's own durable,
\* unfenced dispatch (Allocate, BeginDispatch), in any fleet, with any number of
\* calls, sweeps and faults, and whatever the allocator does.
THEOREM RequestsUnderOwnDispatch == ASSUME FreshAttempts PROVE Spec => []DispatchBarrier
<1>1. DispatchInv => DispatchBarrier
  BY DEF DispatchInv, CallInv, DispatchBarrier
<1> QED  BY <1>1, DispatchHolds, PTL

-----------------------------------------------------------------------------
\* A call gives a quarantined dispatch up for a known outcome only.
LEMMA CallKeepsQuarantine ==
  ASSUME "late" \notin Anomalies, CallTypes, NEW c \in Callers, CallInv(c), CallFrame(c),
         lease # None, Quarantined(lease), lease' # lease
  PROVE  OutcomeKnown
<1> USE DEF CallTypes
<1>1. obs[c] \in StoredLease \cup {None} /\ target[c] \in Servers \cup {None}
      /\ Equipped(pc[c], obs[c], target[c]) /\ lease \in StoredLease
  BY CallTyped DEF StoreTypeOK
<1>2. CASE pc[c] \in {"stage", "dispatch", "steal"}
  <2>1. lease.dispatch # None
    BY DEF Quarantined
  <2> QED  BY <1>2, <2>1 DEF CallFrame, LeaseMove, CallInv, LeaseInHand
<1>3. CASE pc[c] = "finalize"
  <2>1. lease = obs[c] /\ lease' = Published(req[c], target[c])
    BY <1>3 DEF CallFrame, LeaseMove
  <2>2. /\ lease.attempt = req[c] /\ target[c] \in Servers
        /\ server[target[c]].attempt = req[c]
    BY <1>1, <1>3, <2>1 DEF CallInv, LeaseInHand, ObjectInHand, Equipped
  <2> QED  BY <2>1, <2>2 DEF OutcomeKnown, Published
<1>4. CASE pc[c] \in {"unallocated", "fence"}
  <2>1. lease = obs[c] /\ lease' = Fenced(lease)
    BY <1>4 DEF CallFrame, LeaseMove
  <2>2. lease.attempt = req[c]
    BY <1>4, <2>1 DEF CallInv, LeaseInHand
  <2>3. lease.attempt \notin inflight \/ \E s \in Servers : server[s].attempt = lease.attempt
    BY <1>1, <1>4, <2>1, <2>2 DEF CallInv, LeaseInHand, RequestOwned, ObjectInHand
  <2> QED  BY <2>1, <2>3 DEF OutcomeKnown
<1>5. CASE pc[c] = "remove"
  BY <1>5 DEF CallFrame, LeaseMove, CallInv, RemovedFenced, Removing, Quarantined
<1> QED  BY <1>2, <1>3, <1>4, <1>5 DEF CallFrame, LeaseMove

\* A quarantined dispatch is given up for a known outcome only, unless the
\* allocator may still commit what it refused.
THEOREM QuarantineHolds ==
  ASSUME FreshAttempts, "late" \notin Anomalies PROVE Spec => QuarantineKept
<1>1. TypeOK /\ DispatchInv /\ [Next]_vars =>
        [lease # None /\ Quarantined(lease) /\ lease' # lease => OutcomeKnown]_lease
  <2> SUFFICES ASSUME TypeOK, DispatchInv, [Next]_vars,
                      lease # None, Quarantined(lease), lease' # lease
               PROVE  OutcomeKnown
    OBVIOUS
  <2> USE DEF TypeOK, CallTypes
  <2>1. ~AsideFrame
    BY DEF AsideFrame
  <2>2. ~Sweeps /\ ~Reaps /\ ~Plays /\ ~Environment
    BY <2>1, SweepsAside, ReapsAside, PlaysAside, EnvironmentAside DEF DispatchInv
  <2>3. PICK c \in Callers : CallerStep(c) \/ StepFails(c) \/ Crash(c)
    BY <2>2 DEF Next, Calls, vars, storeVars
  <2>4. CallFrame(c)
    BY <2>3, CallFramed
  <2> QED  BY <2>4, CallKeepsQuarantine DEF DispatchInv
<1> QED  BY <1>1, HandoffTypeOK, DispatchHolds, PTL DEF Spec, QuarantineKept
-----------------------------------------------------------------------------
\* A call that has left staging behind does not come back to it; the objects it
\* deletes are its doomed ones.
LEMMA CallMoves ==
  ASSUME CallTypes, NEW c \in Callers, CallerStep(c) \/ StepFails(c) \/ Crash(c)
  PROVE  /\ Staging(c)' => Staging(c)
         /\ UNCHANGED server \/ \E s \in doomed[c] : DeleteServer(s)
         /\ \A d \in Callers \ {c} : doomed'[d] = doomed[d]
<1> USE ControlValues DEF CallTypes, Staging
<1> DEFINE Moves == /\ Staging(c)' => Staging(c)
                    /\ UNCHANGED server \/ \E s \in doomed[c] : DeleteServer(s)
                    /\ \A d \in Callers \ {c} : doomed'[d] = doomed[d]
<1>0. /\ Retain(c) \/ Fail(c) \/ LeaveReconcile(c) =>
           ~Staging(c)' /\ doomed' = doomed
  BY DEF Retain, Fail, LeaveReconcile, Goto, Keep, CallersTypeOK
<1>01. \A objects, next : Doom(c, objects, next) => \A d \in Callers \ {c} : doomed'[d] = doomed[d]
  BY DEF Doom, CallersTypeOK
<1>02. \A l, next : ReleaseResource(c, l, next) => \A d \in Callers \ {c} : doomed'[d] = doomed[d]
  BY <1>01 DEF ReleaseResource
<1>1. CASE AllocateLoads(c)
  BY <1>1, <1>0 DEF AllocateLoads, Keep
<1>2. CASE StealFences(c)
  BY <1>2, <1>0, <1>02 DEF StealFences
<1>3. CASE StageAttempt(c)
  BY <1>3, <1>0 DEF StageAttempt, Keep
<1>4. CASE DispatchAttempt(c)
  BY <1>4, <1>0 DEF DispatchAttempt, Keep, MayAllocate
<1>5. CASE ObserveAttempt(c)
  BY <1>5, <1>01 DEF ObserveAttempt, Keep
<1>6. CASE SendAllocation(c) \/ AllocationAnswered(c) \/ AllocationRefused(c)
  BY <1>6 DEF SendAllocation, AllocationAnswered, AllocationRefused, Keep
<1>9. CASE ObserveDispatched(c)
  BY <1>9, <1>01 DEF ObserveDispatched, Keep
<1>10. CASE AdoptServer(c)
  BY <1>10 DEF AdoptServer, Keep
<1>11. CASE FinalizeAttempt(c)
  BY <1>11 DEF FinalizeAttempt, Answer, Keep
<1>12. CASE CheckProgress(c)
  BY <1>12, <1>0 DEF CheckProgress, Keep
<1>13. CASE ResolveLease(c)
  BY <1>13, <1>0 DEF ResolveLease, Answer, Keep
<1>14. CASE FenceUnallocated(c)
  <2>1. pc'[c] \in {"reconcile", "progress", "reload"}
    BY <1>14 DEF FenceUnallocated
  <2> QED  BY <1>14, <2>1 DEF FenceUnallocated, Keep
<1>15. CASE ReloadUnallocated(c)
  BY <1>15 DEF ReloadUnallocated, Keep
<1>16. CASE ReconcileLoads(c)
  BY <1>16, <1>0, <1>02 DEF ReconcileLoads, Keep
<1>17. CASE ReconcileFences(c)
  BY <1>17, <1>0, <1>02 DEF ReconcileFences
<1>18. CASE ListAttempt(c)
  BY <1>18 DEF ListAttempt, CallersTypeOK
<1>19. CASE DeleteDoomed(c)
  <2>1. PICK s \in doomed[c] :
          /\ doomed' = [doomed EXCEPT ![c] = @ \ {s}]
          /\ \/ DeleteServer(s) /\ UNCHANGED <<faults, after>>
             \/ /\ DeleteFails(s)
                /\ after' = [after EXCEPT ![c] = CASE @ = "stage"  -> "fail"
                                                   [] @ = "remove" -> "leave"
                                                   [] OTHER        -> @]
    BY <1>19 DEF DeleteDoomed
  <2>2. after'[c] \in {after[c], "fail", "leave"} /\ pc[c] = "delete" /\ pc' = pc
    BY <1>19, <2>1 DEF DeleteDoomed, CallersTypeOK
  <2>3. UNCHANGED server \/ DeleteServer(s)
    BY <2>1 DEF DeleteFails
  <2>4. \A d \in Callers \ {c} : doomed'[d] = doomed[d]
    BY <2>1 DEF CallersTypeOK
  <2> QED  BY <2>1, <2>2, <2>3, <2>4
<1>20. CASE CleanupReturns(c)
  BY <1>20, <1>0, CallTyped DEF CleanupReturns, Keep, Continuations
<1>21. CASE ForgetAttempt(c)
  BY <1>21, <1>0 DEF ForgetAttempt
<1>22. CASE ReturnHandoff(c)
  BY <1>22, <1>0 DEF ReturnHandoff
<1>23. CASE StepFails(c)
  BY <1>23, <1>0 DEF StepFails, Keep, CallersTypeOK
<1>24. CASE Crash(c)
  BY <1>24 DEF Crash, CallersTypeOK
<1> QED
  BY <1>1, <1>2, <1>3, <1>4, <1>5, <1>6, <1>9, <1>10, <1>11, <1>12, <1>13, <1>14,
     <1>15, <1>16, <1>17, <1>18, <1>19, <1>20, <1>21, <1>22, <1>23, <1>24 DEF CallerStep

\* What a step of call c may hand out, and what it works under.
CallAnswers(c) ==
  /\ UnderDispatch(c)'
  /\ \A d \in Callers \ {c} : pc'[d] = pc[d] /\ obs'[d] = obs[d]
  /\ handed' = handed \/ (pc[c] = "return" /\ handed' = handed \cup {AnswerOf(obs[c])})
  /\ Answering(c)' =>
       \/ Answering(c) /\ obs'[c] = obs[c]
       \/ lease' # None /\ ~lease'.staging /\ AnswerOf(obs'[c]) = AnswerOf(lease')

\* A call answers with a lease it met, published by it or published before.
LEMMA CallsAnswer ==
  ASSUME CallTypes, NEW c \in Callers, CallInv(c), UnderDispatch(c),
         CallerStep(c) \/ StepFails(c) \/ Crash(c)
  PROVE  CallAnswers(c)
<1> USE ControlValues DEF CallTypes, Answering, UnderDispatch, Working
<1>0. \A d \in Callers \ {c} : pc'[d] = pc[d] /\ obs'[d] = obs[d]
  BY CallFramed DEF CallFrame, OthersKept
<1> DEFINE Met == lease' # None /\ ~lease'.staging /\ AnswerOf(obs'[c]) = AnswerOf(lease')
<1> DEFINE Ok == /\ UnderDispatch(c)'
                 /\ handed' = handed \/ (pc[c] = "return" /\ handed' = handed \cup {AnswerOf(obs[c])})
                 /\ Answering(c)' => (Answering(c) /\ obs'[c] = obs[c]) \/ Met
<1> SUFFICES Ok
  BY <1>0 DEF CallAnswers
<1>01. ASSUME handed' = handed, pc'[c] \in {"stage", "dispatch", "unallocated", "reload", "reconcile",
              "fence", "list", "delete", "remove", "progress", "done", "failed", "steal"}
       PROVE  Ok
  BY <1>01
<1>02. /\ Retain(c) \/ Fail(c) \/ LeaveReconcile(c) => Ok
  BY <1>01 DEF Retain, Fail, LeaveReconcile, Goto, Keep
<1>03. \A l, next : ReleaseResource(c, l, next) => Ok
  BY <1>01 DEF ReleaseResource, Doom
<1>1. CASE AllocateLoads(c)
  <2>1. UNCHANGED lease /\ (Fail(c) \/ handed' = handed)
    BY <1>1 DEF AllocateLoads, Keep
  <2>2. lease # None => lease \in StoredLease
    BY DEF StoreTypeOK
  <2>3. \/ Fail(c)
        \/ pc'[c] \in {"stage", "steal", "reconcile", "dispatch"}
        \/ pc'[c] = "resolve" /\ obs'[c] = lease /\ lease # None /\ ~lease.staging
        \/ pc'[c] = "observe" /\ obs'[c] = lease /\ Quarantined(lease)
    <3>1. \A late : lease # None /\ State(lease, late) = "unclaimed" => ~lease.staging
      BY <2>2, StoredLeases DEF State, Lease
    <3>2. CASE lease = None
      BY <1>1, <3>2 DEF AllocateLoads
    <3>3. CASE lease # None
      BY <1>1, <3>1, <3>3 DEF AllocateLoads, Quarantined
    <3> QED  BY <3>2, <3>3
  <2> QED  BY <2>1, <2>3, <1>01, <1>02
<1>2. CASE StealFences(c)
  BY <1>2, <1>02, <1>03 DEF StealFences
<1>3. CASE StageAttempt(c)
  <2>1. PICK result \in {"ok", "conflict", "error"} :
          /\ IF obs[c] = None THEN Create(req[c], result) ELSE Replace(obs[c], req[c], result)
          /\ IF result = "ok"
             THEN /\ Goto(c, IF ~lease'.staging THEN "resolve"
                             ELSE IF lease'.dispatch = None THEN "dispatch" ELSE "observe")
                  /\ Hold(c, lease') /\ UNCHANGED <<req, target>> /\ Keep
             ELSE Fail(c)
    BY <1>3 DEF StageAttempt
  <2>2. req[c] \in Attempts /\ Staged(req[c]).dispatch = None
    BY CallTyped DEF Staged
  <2>4. result = "ok" => lease' # None /\ (~lease'.releasing \/ lease'.dispatch = None)
    BY <2>1, <2>2, CreateTyped, ReplaceTyped, CallTyped
    DEF Create, Replace, Commits, StorageFails, Settles, HoldsAttempt
  <2>3. CASE result = "ok"
    BY <2>1, <2>3, <2>4 DEF Quarantined, Keep
  <2> QED  BY <2>1, <2>3, <1>02
<1>4. CASE DispatchAttempt(c)
  <2>1. PICK result \in {"won", "ok", "conflict", "error"} :
          /\ BeginDispatch(obs[c], c, result)
          /\ IF result \in {"won", "ok"}
             THEN /\ Goto(c, IF MayAllocate(result) THEN "provision" ELSE "observe")
                  /\ Hold(c, lease') /\ UNCHANGED <<req, target>> /\ Keep
             ELSE Fail(c)
    BY <1>4 DEF DispatchAttempt
  <2>2. obs[c] \in StoredLease /\ obs[c].staging /\ ~obs[c].releasing
    BY <1>4, CallTyped DEF DispatchAttempt, Equipped, CallInv, LeaseInHand
  <2>3. result \in {"won", "ok"} => Quarantined(lease')
    BY <2>1, <2>2, StoredLeases, NoneIsFresh
    DEF BeginDispatch, StorageFails, Settles, Quarantined, Dispatched, Lease
  <2>4. CASE result \in {"won", "ok"}
    BY <2>1, <2>3, <2>4 DEF MayAllocate, Keep
  <2> QED  BY <2>1, <2>4, <1>02
<1>5. CASE ObserveAttempt(c)
  BY <1>5, <1>01 DEF ObserveAttempt, Keep, Doom
<1>6. CASE SendAllocation(c) \/ AllocationAnswered(c) \/ AllocationRefused(c)
  BY <1>6 DEF SendAllocation, AllocationAnswered, AllocationRefused, Keep
<1>9. CASE ObserveDispatched(c)
  BY <1>9, <1>01 DEF ObserveDispatched, Keep, Doom
<1>10. CASE AdoptServer(c)
  BY <1>10 DEF AdoptServer, Keep
<1>11. CASE FinalizeAttempt(c)
  <2>1. PICK result \in {"ok", "conflict", "error"} :
          /\ Finalize(obs[c], Published(req[c], target[c]), result)
          /\ IF result = "ok"
             THEN Answer(c, Published(req[c], target[c]))
             ELSE Goto(c, "progress") /\ UNCHANGED <<req, obs, target>> /\ Keep
    BY <1>11 DEF FinalizeAttempt
  <2>2. req[c] \in Attempts /\ target[c] \in Servers
    BY <1>11, CallTyped DEF FinalizeAttempt, Equipped
  <2>3. result = "ok" =>
          lease' # None /\ SameAllocationOwner(lease', Published(req[c], target[c]))
    BY <2>1, <2>2, LeaseShapes
    DEF Finalize, Commits, StorageFails, Settles, SameAllocationOwner
  <2>4. CASE result = "ok"
    BY <2>1, <2>3, <2>4 DEF Answer, Keep, SameAllocationOwner, Published, AnswerOf
  <2>5. CASE result # "ok"
    BY <2>1, <2>5, <1>01 DEF Keep
  <2> QED  BY <2>4, <2>5
<1>12. CASE CheckProgress(c)
  BY <1>12, <1>01, <1>02 DEF CheckProgress, Keep, HoldsAttempt
<1>13. CASE ResolveLease(c)
  BY <1>13, <1>02 DEF ResolveLease, Answer, Keep
<1>14. CASE FenceUnallocated(c)
  BY <1>14, <1>01 DEF FenceUnallocated, Keep
<1>15. CASE ReloadUnallocated(c)
  BY <1>15 DEF ReloadUnallocated, Keep
<1>16. CASE ReconcileLoads(c)
  BY <1>16, <1>01, <1>02, <1>03 DEF ReconcileLoads, Keep
<1>17. CASE ReconcileFences(c)
  BY <1>17, <1>02, <1>03 DEF ReconcileFences
<1>18. CASE ListAttempt(c)
  BY <1>18 DEF ListAttempt
<1>19. CASE DeleteDoomed(c)
  BY <1>19 DEF DeleteDoomed
<1>20. CASE CleanupReturns(c)
  BY <1>20, <1>01, <1>02, CallTyped DEF CleanupReturns, Keep, Continuations
<1>21. CASE ForgetAttempt(c)
  BY <1>21, <1>02 DEF ForgetAttempt
<1>22. CASE ReturnHandoff(c)
  BY <1>22, <1>02 DEF ReturnHandoff, AnswerOf
<1>23. CASE StepFails(c)
  BY <1>23, <1>01, <1>02 DEF StepFails, Keep
<1>24. CASE Crash(c)
  BY <1>24, <1>01 DEF Crash, CallersTypeOK
<1> QED
  BY <1>1, <1>2, <1>3, <1>4, <1>5, <1>6, <1>9, <1>10, <1>11, <1>12, <1>13, <1>14,
     <1>15, <1>16, <1>17, <1>18, <1>19, <1>20, <1>21, <1>22, <1>23, <1>24 DEF CallerStep

\* An answer stays settled, if nobody stages again and the lease does not come to
\* hold its attempt with anything else.
LEMMA SettledKept ==
  ASSUME NEW a, NEW s, Settled(a, s), \A d \in Callers : Staging(d)' => Staging(d),
         HoldsAttempt(a)' => ~lease'.staging /\ lease'.server = s
  PROVE  Settled(a, s)'
BY DEF Settled, HoldsAttempt

\* A call stages its own fresh attempt only, and publishes what was staged.
LEMMA CallKeepsSettled ==
  ASSUME TypeOK, DispatchInv, NEW c \in Callers, UnderDispatch(c),
         CallerStep(c) \/ StepFails(c) \/ Crash(c), NEW a, NEW s, Settled(a, s)
  PROVE  Settled(a, s)'
<1> USE DEF TypeOK, CallTypes
<1>1. CallFrame(c) /\ CallInv(c) /\ (Staging(c)' => Staging(c))
  BY CallFramed, CallMoves DEF DispatchInv
<1>2. \A d \in Callers : Staging(d)' => Staging(d)
  BY <1>1 DEF CallFrame, OthersKept, Staging
<1>3. /\ obs[c] \in StoredLease \cup {None} /\ req[c] \in Attempts
      /\ target[c] \in Servers \cup {None} /\ Equipped(pc[c], obs[c], target[c])
  BY CallTyped
<1>4. HoldsAttempt(a)' => ~lease'.staging /\ lease'.server = s
  <2>1. CASE lease' = lease
    BY <2>1 DEF Settled, HoldsAttempt
  <2>2. CASE pc[c] = "stage" /\ lease' = Staged(req[c])
    <3>1. req[c] = AttemptOf[c] /\ Staging(c)
      BY <1>1, <2>2 DEF CallInv, AttemptUnsent, Staging
    <3>2. AttemptOf[c] # a
      BY <3>1 DEF Settled
    <3> QED  BY <1>3, <2>2, <3>1, <3>2, WrittenLeases DEF HoldsAttempt
  <2>3. CASE pc[c] = "dispatch" /\ lease = obs[c] /\ lease' = Dispatched(obs[c], c)
    <3>1. obs[c] \in StoredLease /\ lease.staging /\ lease # None
      BY <1>1, <1>3, <2>3 DEF CallInv, LeaseInHand, Equipped
    <3> QED  BY <2>3, <3>1, WrittenLeases DEF Settled, HoldsAttempt
  <2>4. CASE pc[c] = "finalize" /\ lease = obs[c] /\ lease' = Published(req[c], target[c])
    <3>1. lease # None /\ lease.attempt = req[c] /\ lease.staging
      BY <1>1, <2>4 DEF CallInv, LeaseInHand, UnderDispatch, Working, Quarantined
    <3> QED  BY <1>3, <2>4, <3>1, WrittenLeases DEF Settled, HoldsAttempt
  <2>5. CASE /\ pc[c] \in {"steal", "unallocated", "fence"}
             /\ lease = obs[c] /\ lease' = Fenced(obs[c])
    <3>1. obs[c] \in Lease /\ obs[c] # None
      BY <1>3, <2>5, StoredLeases DEF Equipped
    <3> QED  BY <2>5, <3>1, LeaseUpdates DEF Settled, HoldsAttempt
  <2>6. CASE lease' = None
    BY <2>6 DEF HoldsAttempt
  <2> QED  BY <1>1, <2>1, <2>2, <2>3, <2>4, <2>5, <2>6 DEF CallFrame, LeaseMove
<1> QED  BY <1>2, <1>4, SettledKept

\* Nobody else stages, or publishes.
LEMMA AsideKeepsSettled ==
  ASSUME AsideFrame, NEW a, NEW s, Settled(a, s)
  PROVE  Settled(a, s)'
<1>1. \A d \in Callers : Staging(d)' => Staging(d)
  BY DEF AsideFrame, callerVars, Staging
<1>2. HoldsAttempt(a)' => ~lease'.staging /\ lease'.server = s
  BY DEF AsideFrame, Settled, HoldsAttempt
<1> QED  BY <1>1, <1>2, SettledKept

\* Every step of the composition keeps the answers.
LEMMA AnswerStep ==
  ASSUME TypeOK, DispatchInv, DispatchInv', AnswerInv, [Next]_vars
  PROVE  AnswerInv'
<1> USE DEF TypeOK, CallTypes
<1>1. CASE Calls
  <2>1. PICK c \in Callers : CallerStep(c) \/ StepFails(c) \/ Crash(c)
    BY <1>1 DEF Calls
  <2>2. CallAnswers(c)
    BY <2>1, CallsAnswer DEF DispatchInv, AnswerInv
  <2>3. \A d \in Callers : UnderDispatch(d)'
    BY <2>2 DEF CallAnswers, AnswerInv, UnderDispatch
  <2>4. \A h \in Answers : Settled(h.attempt, h.server)'
    BY <2>1, CallKeepsSettled DEF AnswerInv
  <2>5. ASSUME NEW h \in Answers'
        PROVE  h \in Answers \/ (lease' # None /\ ~lease'.staging /\ h = AnswerOf(lease'))
    <3>1. CASE h \in handed'
      BY <2>2, <3>1 DEF CallAnswers, Answers, Answering
    <3>2. CASE \E d \in Callers : Answering(d)' /\ h = AnswerOf(obs'[d])
      BY <2>2, <3>2 DEF CallAnswers, Answers, Answering
    <3> QED  BY <2>5, <3>1, <3>2 DEF Answers, AnswerOf
  <2>6. ASSUME NEW a, HoldsAttempt(a)', ~lease'.staging, NEW s, s = lease'.server
        PROVE  Settled(a, s)'
    BY <2>6 DEF Settled, HoldsAttempt, DispatchInv, CallInv, AttemptFresh
  <2>7. \A h \in Answers' : Settled(h.attempt, h.server)'
    BY <2>4, <2>5, <2>6 DEF AnswerOf, HoldsAttempt
  <2>8. ASSUME NEW h \in Answers', NEW k \in Answers', h.attempt = k.attempt
        PROVE  h.server = k.server
    <3>1. ASSUME NEW x \in Answers', lease' # None, x.attempt = lease'.attempt
          PROVE  x.server = lease'.server
      BY <2>7, <3>1 DEF Settled, HoldsAttempt
    <3>2. CASE h \in Answers /\ k \in Answers
      BY <2>8, <3>2 DEF AnswerInv
    <3>3. CASE lease' # None /\ (h = AnswerOf(lease') \/ k = AnswerOf(lease'))
      BY <2>8, <3>1, <3>3 DEF AnswerOf
    <3> QED  BY <2>5, <2>8, <3>2, <3>3
  <2> QED  BY <2>3, <2>7, <2>8 DEF AnswerInv
<1>2. ASSUME AsideFrame PROVE AnswerInv'
  <2>1. UNCHANGED <<pc, obs, handed>>
    BY <1>2 DEF AsideFrame, callerVars
  <2>2. Answers' = Answers /\ \A d \in Callers : UnderDispatch(d)'
    BY <2>1 DEF Answers, Answering, AnswerOf, AnswerInv, UnderDispatch
  <2> QED  BY <1>2, <2>2, AsideKeepsSettled DEF AnswerInv
<1>3. CASE Sweeps
  BY <1>2, <1>3, SweepsAside DEF DispatchInv
<1>4. CASE Reaps
  BY <1>2, <1>4, ReapsAside
<1>5. CASE Plays
  BY <1>2, <1>5, PlaysAside
<1>6. CASE Environment
  BY <1>2, <1>6, EnvironmentAside
<1>7. CASE UNCHANGED vars
  BY <1>2, <1>7 DEF vars, storeVars, fleetVars, AsideFrame
<1> QED  BY <1>1, <1>3, <1>4, <1>5, <1>6, <1>7 DEF Next

\* An attempt that was answered keeps its object and its answer.
THEOREM AnswersHold == ASSUME FreshAttempts PROVE Spec => []AnswerInv
<1>1. Init => AnswerInv
  <2> SUFFICES ASSUME Init PROVE AnswerInv
    OBVIOUS
  <2>1. pc = [c \in Callers |-> "load"] /\ handed = {}
    BY DEF Init, CallerInit
  <2>2. Answers = {}
    BY <2>1 DEF Answers, Answering
  <2> QED  BY <2>1, <2>2 DEF AnswerInv, UnderDispatch, Working
<1>2. TypeOK /\ DispatchInv /\ DispatchInv' /\ AnswerInv /\ [Next]_vars => AnswerInv'
  BY AnswerStep
<1> QED  BY <1>1, <1>2, HandoffTypeOK, DispatchHolds, PTL DEF Spec

\* However many calls overlap, and whatever copies the allocator left behind or
\* lands late, the player is handed one object of an attempt: a call that answers
\* does so with the lease it found published or published itself (Allocate,
\* Finalize, resolveDurable), and a published lease never changes its object.
THEOREM AnswersAgree == ASSUME FreshAttempts PROVE Spec => []OneAnswerPerAttempt
<1>1. AnswerInv => OneAnswerPerAttempt
  BY DEF AnswerInv, Answers, OneAnswerPerAttempt
<1> QED  BY <1>1, AnswersHold, PTL

-----------------------------------------------------------------------------
(***************************************************************************)
(* Cleanup.                                                                *)
(***************************************************************************)

\* What every step leaves standing: an attempt that is over stays over, labels
\* stay, and an object of an attempt that is not over is not lost.
Steady ==
  /\ \A a : Over(a) => Over(a)'
  /\ \A s \in Servers : server[s].attempt # None => server'[s].attempt = server[s].attempt
  /\ \A s \in Servers : Present(s) /\ ~Over(server[s].attempt) => Present(s)'

\* A stored attempt is staged by nobody; neither is one an object carries.
LEMMA MetAttempts ==
  ASSUME TypeOK, DispatchInv, NEW c \in Callers, Staging(c)
  PROVE  /\ ~HoldsAttempt(AttemptOf[c])
         /\ \A s \in Servers : server[s].attempt # AttemptOf[c]
BY DEF DispatchInv, CallInv, AttemptFresh, AttemptUnsent

\* So a fenced lease's attempt is over, and that of an object which is not stored.
LEMMA OverWhen ==
  ASSUME TypeOK, DispatchInv
  PROVE  /\ lease # None /\ lease.releasing => Over(lease.attempt)
         /\ \A s \in Servers : /\ server[s].attempt # None
                               /\ HoldsAttempt(server[s].attempt) => lease.releasing
                               => Discardable(s)
         /\ \A a : HoldsAttempt(a) /\ ~lease.releasing => ~Over(a)
BY MetAttempts DEF Over, Discardable, HoldsAttempt

\* An attempt that is over stays over, if staging has not begun again and the
\* lease has not come to live for it.
LEMMA OverKept ==
  ASSUME NEW a, Over(a), \A d \in Callers : Staging(d)' => Staging(d),
         HoldsAttempt(a)' => lease'.releasing
  PROVE  Over(a)'
BY DEF Over, HoldsAttempt

\* A call stages its own fresh attempt only, and unfences nothing.
LEMMA CallKeepsOver ==
  ASSUME TypeOK, DispatchInv, NEW c \in Callers,
         CallerStep(c) \/ StepFails(c) \/ Crash(c), NEW a, Over(a)
  PROVE  Over(a)'
<1> USE DEF TypeOK, CallTypes
<1>1. CallFrame(c) /\ CallInv(c) /\ (Staging(c)' => Staging(c))
  BY CallFramed, CallMoves DEF DispatchInv
<1>2. \A d \in Callers : Staging(d)' => Staging(d)
  BY <1>1 DEF CallFrame, OthersKept, Staging
<1>3. /\ obs[c] \in StoredLease \cup {None} /\ req[c] \in Attempts
      /\ target[c] \in Servers \cup {None} /\ Equipped(pc[c], obs[c], target[c])
  BY CallTyped
<1>4. HoldsAttempt(a)' => lease'.releasing
  <2>1. CASE lease' = lease
    BY <2>1 DEF Over, HoldsAttempt
  <2>2. CASE pc[c] = "stage" /\ lease' = Staged(req[c])
    <3>1. req[c] = AttemptOf[c] /\ Staging(c)
      BY <1>1, <2>2 DEF CallInv, AttemptUnsent, Staging
    <3>2. AttemptOf[c] # a
      BY <3>1 DEF Over
    <3> QED  BY <1>3, <2>2, <3>1, <3>2, WrittenLeases DEF HoldsAttempt
  <2>3. CASE pc[c] = "dispatch" /\ lease = obs[c] /\ lease' = Dispatched(obs[c], c)
    <3>1. obs[c] \in StoredLease /\ ~lease.releasing /\ lease # None
      BY <1>1, <1>3, <2>3 DEF CallInv, LeaseInHand, Equipped
    <3> QED  BY <2>3, <3>1, WrittenLeases DEF Over, HoldsAttempt
  <2>4. CASE pc[c] = "finalize" /\ lease = obs[c] /\ lease' = Published(req[c], target[c])
    <3>1. lease # None /\ lease.attempt = req[c] /\ ~lease.releasing
      BY <1>1, <2>4 DEF CallInv, LeaseInHand
    <3> QED  BY <1>3, <2>4, <3>1, WrittenLeases DEF Over, HoldsAttempt
  <2>5. CASE /\ pc[c] \in {"steal", "unallocated", "fence"}
             /\ lease = obs[c] /\ lease' = Fenced(obs[c])
    <3>1. obs[c] \in StoredLease
      BY <1>3, <2>5 DEF Equipped
    <3> QED  BY <2>5, <3>1, WrittenLeases
  <2>6. CASE lease' = None
    BY <2>6 DEF HoldsAttempt
  <2> QED  BY <1>1, <2>1, <2>2, <2>3, <2>4, <2>5, <2>6 DEF CallFrame, LeaseMove
<1> QED  BY <1>2, <1>4, OverKept

\* Nobody else stages, or unfences.
LEMMA AsideKeepsOver ==
  ASSUME AsideFrame, NEW a, Over(a)
  PROVE  Over(a)'
<1>1. \A d \in Callers : Staging(d)' => Staging(d)
  BY DEF AsideFrame, callerVars, Staging
<1>2. HoldsAttempt(a)' => lease'.releasing
  BY DEF AsideFrame, Over, HoldsAttempt
<1> QED  BY <1>1, <1>2, OverKept

\* Deleting an object that may be deleted loses none that is needed.
LEMMA FleetSteady ==
  ASSUME FleetTypeOK, ReadyUnlabelled,
         \/ UNCHANGED server
         \/ \E s \in Servers : Discardable(s) /\ DeleteServer(s)
         \/ \E s \in Servers : ServerFails(s)
         \/ \E a : AllocatorCommits(a)
  PROVE  /\ \A s \in Servers : server[s].attempt # None => server'[s].attempt = server[s].attempt
         /\ \A s \in Servers : Present(s) /\ ~Over(server[s].attempt) => Present(s)'
<1>1. ASSUME NEW t \in Servers, Discardable(t), DeleteServer(t)
      PROVE  \A s \in Servers : /\ server'[s].attempt = server[s].attempt
                                /\ Present(s) /\ ~Over(server[s].attempt) => Present(s)'
  BY <1>1 DEF FleetTypeOK, DeleteServer, Present, Discardable
<1>2. ASSUME NEW t \in Servers, ServerFails(t)
      PROVE  \A s \in Servers : /\ server'[s].attempt = server[s].attempt
                                /\ Present(s) => Present(s)'
  BY <1>2 DEF FleetTypeOK, ServerFails, Present
<1>3. ASSUME NEW a, AllocatorCommits(a)
      PROVE  \A s \in Servers : /\ server[s].attempt # None => server'[s].attempt = server[s].attempt
                                /\ Present(s) => Present(s)'
  BY <1>3 DEF FleetTypeOK, ReadyUnlabelled, AllocatorCommits, Present
<1> QED  BY <1>1, <1>2, <1>3 DEF Present

\* Every object a step deletes may be deleted.
LEMMA FleetMoves ==
  ASSUME TypeOK, DispatchInv, DiscardInv, [Next]_vars
  PROVE  \/ UNCHANGED server
         \/ \E s \in Servers : Discardable(s) /\ DeleteServer(s)
         \/ \E s \in Servers : ServerFails(s)
         \/ \E a : AllocatorCommits(a)
<1> USE DEF TypeOK, CallTypes
<1>1. CASE Calls
  <2>1. PICK c \in Callers : CallerStep(c) \/ StepFails(c) \/ Crash(c)
    BY <1>1 DEF Calls
  <2>2. UNCHANGED server \/ \E s \in doomed[c] : DeleteServer(s)
    BY <2>1, CallMoves
  <2> QED  BY <2>2 DEF DiscardInv, CallDiscards, CallersTypeOK
<1>2. CASE Sweeps
  <2>1. PICK w \in Sweepers : SweepStep(w) \/ SweepFails(w)
    BY <1>2 DEF Sweeps
  <2>2. UNCHANGED server \/ \E s \in swDoomed[w] : DeleteServer(s)
    BY <2>1
    DEF SweepStep, SweepLists, SweepFences, SweepChecks, SweepListsAttempt, SweepDeletes,
        SweepCleaned, SweepRemoves, SweepFails, DeleteFails, fleetVars
  <2> QED  BY <2>2 DEF DiscardInv, SweepDiscards, SweepersTypeOK
<1>3. CASE Reaps
  <2>1. PICK r \in Reapers : ReaperStep(r) \/ GraceElapses(r) \/ ReaperFails(r)
    BY <1>3 DEF Reaps
  <2>2. UNCHANGED server \/ (rPc[r] = "delete" /\ DeleteServer(rAim[r]))
    BY <2>1
    DEF ReaperStep, ScanObjects, ScanLeases, ReclaimReads, ReclaimDeletes, SweepEnds,
        GraceElapses, ReaperFails, DeleteFails, fleetVars
  <2> QED  BY <2>2 DEF DiscardInv, ReaperDiscards, ReapersTypeOK
<1>4. CASE Plays
  <2>1. PICK z \in Sessions : SessionStep(z, handed) \/ ClaimFails(z)
    BY <1>4 DEF Plays
  <2>2. UNCHANGED server \/ (sPc[z] = "delete" /\ DeleteServer(sObs[z].server))
    BY <2>1
    DEF SessionStep, ClaimLoads, ClaimResolves, ClaimWrites, SessionEnds, EndFences,
        EndDeletes, EndRemoves, ClaimFails, DeleteFails, fleetVars
  <2>3. sPc[z] = "delete" => sObs[z] \in StoredLease /\ ~sObs[z].staging
    BY DEF SessionsTypeOK, SessionEquipped
  <2>4. sPc[z] = "delete" =>
          sObs[z].server \in Servers /\ sObs[z].attempt # None /\ sObs[z] # None
    BY <2>3, StoredLeases, NoneIsFresh DEF Lease, WellFormed
  <2>5. sPc[z] = "delete" => Discardable(sObs[z].server)
    BY <2>4 DEF DiscardInv, SessionDiscards, Discardable
  <2> QED  BY <2>2, <2>4, <2>5
<1>5. CASE Environment
  BY <1>5 DEF Environment, fleetVars, AllocatorDrops
<1>6. CASE UNCHANGED vars
  BY <1>6 DEF vars, fleetVars
<1> QED  BY <1>1, <1>2, <1>3, <1>4, <1>5, <1>6 DEF Next

\* Every step is steady.
LEMMA StepSteady ==
  ASSUME TypeOK, DispatchInv, DiscardInv, [Next]_vars
  PROVE  Steady
<1>1. \A a : Over(a) => Over(a)'
  <2>1. SUFFICES ASSUME NEW a, Over(a) PROVE Over(a)'
    OBVIOUS
  <2>2. CASE Calls
    BY <2>1, <2>2, CallKeepsOver DEF Calls
  <2>3. CASE AsideFrame
    BY <2>1, <2>3, AsideKeepsOver
  <2>4. Sweeps \/ Reaps \/ Plays \/ Environment => AsideFrame
    BY SweepsAside, ReapsAside, PlaysAside, EnvironmentAside DEF TypeOK, DispatchInv
  <2>5. CASE UNCHANGED vars
    BY <2>1, <2>5 DEF vars, callerVars, storeVars, Over, HoldsAttempt, Staging
  <2> QED  BY <2>2, <2>3, <2>4, <2>5 DEF Next
<1> QED  BY <1>1, FleetMoves, FleetSteady DEF Steady, TypeOK, DispatchInv

-----------------------------------------------------------------------------
\* Without copies, no object is labelled twice and no request is still held for
\* an attempt that has its object.
LEMMA FleetDiscards ==
  ASSUME "copies" \notin Anomalies, TypeOK, DispatchInv, DiscardInv, [Next]_vars
  PROVE  PresentLabelled' /\ OneObject' /\ InflightUnmet'
<1> USE DEF TypeOK, CallTypes, DiscardInv
<1>1. CASE \E a \in Attempts : AllocatorCommits(a)
  <2>1. PICK a \in Attempts : AllocatorCommits(a)
    BY <1>1
  <2>2. PICK t \in Servers :
          /\ server[t].state = "ready" /\ a \in inflight /\ a # None
          /\ server' = [server EXCEPT ![t] = [state |-> "allocated", attempt |-> a]]
          /\ inflight' = inflight \ {a}
    BY <2>1, NoneIsFresh DEF AllocatorCommits
  <2>3. \A s \in Servers : server'[s] = IF s = t THEN [state |-> "allocated", attempt |-> a]
                                                 ELSE server[s]
    BY <2>2 DEF FleetTypeOK
  <2>4. PresentLabelled'
    BY <2>2, <2>3 DEF PresentLabelled, Present
  <2>5. OneObject'
    BY <2>2, <2>3 DEF OneObject, InflightUnmet
  <2>6. InflightUnmet'
    BY <2>2, <2>3 DEF InflightUnmet
  <2> QED  BY <2>4, <2>5, <2>6
<1>2. ASSUME \A s \in Servers : server'[s].attempt = server[s].attempt
                                /\ (Present(s)' => Present(s)),
             \A a \in inflight' : a \in inflight \/ \A s \in Servers : server[s].attempt # a
      PROVE  PresentLabelled' /\ OneObject' /\ InflightUnmet'
  BY <1>2 DEF PresentLabelled, OneObject, InflightUnmet
<1>3. ASSUME NEW s \in Servers, DeleteServer(s) \/ ServerFails(s)
      PROVE  \A t \in Servers : server'[t].attempt = server[t].attempt
                                /\ (Present(t)' => Present(t))
  BY <1>3 DEF FleetTypeOK, DeleteServer, ServerFails, Present
<1>4. CASE \A a : ~AllocatorCommits(a)
  <2>1. \A t \in Servers : server'[t].attempt = server[t].attempt /\ (Present(t)' => Present(t))
    BY <1>3, <1>4, FleetMoves DEF Present
  <2>2. \A a \in inflight' : a \in inflight \/ \A s \in Servers : server[s].attempt # a
    <3>1. CASE Calls
      <4>1. PICK c \in Callers : CallFrame(c) /\ CallInv(c)
        BY <3>1, CallFramed DEF Calls, DispatchInv
      <4> QED  BY <4>1 DEF CallFrame, InflightMoves, CallInv, AttemptUnsent
    <3>2. CASE AsideFrame
      BY <3>2 DEF AsideFrame
    <3>3. CASE UNCHANGED vars
      BY <3>3 DEF vars, fleetVars
    <3> QED
      BY <3>1, <3>2, <3>3, SweepsAside, ReapsAside, PlaysAside, EnvironmentAside
      DEF DispatchInv, Next
  <2> QED  BY <1>2, <2>1, <2>2
<1>5. CASE \E a : AllocatorCommits(a)
  BY <1>1, <1>5 DEF AllocatorCommits, FleetTypeOK
<1> QED  BY <1>4, <1>5

\* A lease is published with an object of its attempt, which is there.
LEMMA PublishedDiscards ==
  ASSUME TypeOK, DispatchInv, DiscardInv, Steady, [Next]_vars
  PROVE  PublishedNamesObject'
<1> USE DEF TypeOK, CallTypes
<1>1. lease # None => lease \in StoredLease /\ lease \in Lease /\ WellFormed(lease)
  BY StoredLeases DEF StoreTypeOK
<1>2. ASSUME lease # None, ~lease.staging, lease'.attempt = lease.attempt,
             lease'.server = lease.server, lease.releasing => lease'.releasing
      PROVE  PublishedNamesObject'
  <2>1. lease.server \in Servers /\ lease.attempt # None
    BY <1>1, <1>2, NoneIsFresh DEF Lease, WellFormed
  <2>2. ~lease.releasing => ~Over(server[lease.server].attempt)
    BY <1>2, OverWhen DEF DiscardInv, PublishedNamesObject, HoldsAttempt
  <2> QED  BY <1>2, <2>1, <2>2 DEF DiscardInv, PublishedNamesObject, Steady
<1>3. CASE lease' = lease \/ lease' = None
  BY <1>2, <1>3 DEF PublishedNamesObject
<1>4. CASE AsideFrame
  BY <1>2, <1>3, <1>4 DEF AsideFrame, PublishedNamesObject
<1>5. CASE Calls
  <2>1. PICK c \in Callers : CallFrame(c) /\ CallInv(c) /\ CallDiscards(c)
    BY <1>5, CallFramed DEF Calls, DispatchInv, DiscardInv
  <2>2. /\ obs[c] \in StoredLease \cup {None} /\ req[c] \in Attempts
        /\ target[c] \in Servers \cup {None} /\ Equipped(pc[c], obs[c], target[c])
    BY CallTyped
  <2>3. CASE lease' = Staged(req[c])
    BY <2>3 DEF PublishedNamesObject, Staged
  <2>4. CASE pc[c] = "dispatch" /\ lease = obs[c] /\ lease' = Dispatched(obs[c], c)
    <3>1. obs[c] \in Lease /\ obs[c].staging
      BY <2>2, <2>4, StoredLeases DEF Equipped
    <3> QED  BY <2>4, <3>1, LeaseUpdates DEF PublishedNamesObject
  <2>5. CASE pc[c] = "finalize" /\ lease = obs[c] /\ lease' = Published(req[c], target[c])
    <3>1. lease # None /\ lease.attempt = req[c] /\ ~lease.releasing /\ target[c] \in Servers
      BY <2>1, <2>2, <2>5 DEF CallInv, LeaseInHand, Equipped
    <3>2. ~Over(req[c])
      BY <3>1, OverWhen DEF HoldsAttempt
    <3>3. server[target[c]].attempt = req[c] /\ Present(target[c]) /\ req[c] # None
      BY <2>1, <2>2, <2>5, <3>1, <3>2, NoneIsFresh
      DEF CallInv, ObjectInHand, CallDiscards
    <3> QED  BY <2>5, <3>1, <3>2, <3>3 DEF Steady, PublishedNamesObject, Published
  <2>6. CASE /\ pc[c] \in {"steal", "unallocated", "fence"}
             /\ lease = obs[c] /\ lease' = Fenced(obs[c])
    <3>1. lease # None /\ obs[c] \in Lease
      BY <2>2, <2>6, <1>1 DEF Equipped
    <3>2. lease'.staging = lease.staging
      BY <2>6, <3>1, LeaseUpdates
    <3> QED  BY <1>2, <2>6, <3>1, <3>2, LeaseUpdates DEF PublishedNamesObject
  <2> QED  BY <1>3, <2>1, <2>3, <2>4, <2>5, <2>6 DEF CallFrame, LeaseMove
<1>6. CASE UNCHANGED vars
  BY <1>3, <1>6 DEF vars, storeVars
<1> QED
  BY <1>4, <1>5, <1>6, SweepsAside, ReapsAside, PlaysAside, EnvironmentAside
  DEF Next, DispatchInv

-----------------------------------------------------------------------------
\* A step keeps what the calls it leaves alone may delete.
LEMMA OthersDiscard ==
  ASSUME Steady, CallTypes, NEW d \in Callers, CallInv(d), CallDiscards(d),
         pc'[d] = pc[d], req'[d] = req[d], obs'[d] = obs[d], target'[d] = target[d],
         after'[d] = after[d], doomed'[d] = doomed[d]
  PROVE  CallDiscards(d)'
<1>1. doomed[d] \subseteq Servers /\ target[d] \in Servers \cup {None} /\ req[d] \in Attempts
  BY CallTyped DEF CallTypes, CallersTypeOK
<1>2. pc[d] = "finalize" => target[d] \in Servers /\ server[target[d]].attempt = req[d]
  BY <1>1, CallTyped DEF CallTypes, CallInv, ObjectInHand, Equipped
<1>3. \A s \in doomed'[d] : Discardable(s)'
  BY <1>1 DEF CallDiscards, Steady, Discardable
<1>4. (pc[d] = "list" => Over(obs[d].attempt)')
  BY DEF CallDiscards, Steady
<1>5. pc[d] = "finalize" /\ ~Over(req[d])' => Present(target[d])'
  BY <1>2 DEF CallDiscards, Steady
<1>6. pc[d] \in {"provision", "observe", "rpc", "wait", "await", "adopt", "finalize"} =>
        Quarantined(obs'[d])
  BY DEF CallDiscards
<1> QED  BY <1>3, <1>4, <1>5, <1>6 DEF CallDiscards, Quarantined

\* The same of the state a step leads to.
LEMMA OverWhenNext ==
  ASSUME TypeOK', DispatchInv'
  PROVE  \A a : (lease # None /\ lease.attempt = a /\ lease.releasing)' => Over(a)'
BY DEF DispatchInv, CallInv, AttemptFresh, Over, HoldsAttempt

\* Without copies a lookup finds one object at most.
LEMMA OneFound ==
  ASSUME OneObject, NEW a \in Attempts
  PROVE  ~(Cardinality(AllocatedFor(a)) > 1)
<1>1. \A s, t \in AllocatedFor(a) : s = t
  BY NoneIsFresh DEF OneObject, AllocatedFor, Labelled
<1>2. CASE AllocatedFor(a) = {}
  BY <1>2, FS_EmptySet
<1>3. CASE AllocatedFor(a) # {}
  <2>1. PICK s : AllocatedFor(a) = {s}
    BY <1>1, <1>3
  <2>2. Cardinality({s}) = 1
    BY FS_Singleton
  <2> QED  BY <2>1, <2>2
<1> QED  BY <1>2, <1>3

\* Where a call holds no lease to release, to stage upon or to publish.
Idles(label, next) ==
  /\ label \notin {"load", "stage", "list", "provision", "observe", "rpc", "wait", "await",
                   "adopt", "finalize"}
  /\ label = "delete" => next # "stage"

\* A call that idles may delete what it might before.
LEMMA IdlesDiscard ==
  ASSUME Steady, CallTypes, NEW c \in Callers, CallDiscards(c), doomed'[c] \subseteq doomed[c],
         Idles(pc'[c], after'[c])
  PROVE  CallDiscards(c)'
<1>1. doomed[c] \subseteq Servers
  BY DEF CallTypes, CallersTypeOK
<1>2. \A s \in doomed'[c] : Discardable(s)'
  BY <1>1 DEF CallDiscards, Steady, Discardable
<1> QED  BY <1>2 DEF CallDiscards, Idles

\* So may one that goes on towards publishing, with a dispatch in hand.
LEMMA WorksDiscard ==
  ASSUME Steady, CallTypes, NEW c \in Callers, CallDiscards(c), doomed'[c] = doomed[c],
         pc'[c] \in {"provision", "observe", "rpc", "wait", "await", "adopt"},
         Quarantined(obs'[c])
  PROVE  CallDiscards(c)'
<1>1. doomed[c] \subseteq Servers
  BY DEF CallTypes, CallersTypeOK
<1>2. \A s \in doomed'[c] : Discardable(s)'
  BY <1>1 DEF CallDiscards, Steady, Discardable
<1> QED  BY <1>2 DEF CallDiscards, Quarantined

\* The resource of an attempt that is over may be released.
LEMMA ReleaseDiscards ==
  ASSUME CallTypes, NEW c \in Callers, NEW l, NEW next, ReleaseResource(c, l, next),
         UNCHANGED server, l # None, l.attempt # None, Over(l.attempt)',
         next = "stage" => l.releasing
  PROVE  CallDiscards(c)'
<1>1. pc'[c] \in {"list", "delete"} /\ after'[c] = next /\ obs'[c] = l
  BY ControlValues DEF CallTypes
<1>2. doomed'[c] \subseteq {s \in Servers : server[s].attempt = l.attempt}
  BY DEF ReleaseResource, Doom, CallTypes, CallersTypeOK
<1>3. \A s \in doomed'[c] : Discardable(s)'
  BY <1>2 DEF Discardable, Over, HoldsAttempt
<1>4. (pc[c] = "list" => Over(obs[c].attempt))'
  BY <1>1 DEF Over, HoldsAttempt
<1> QED  BY <1>1, <1>3, <1>4 DEF CallDiscards

\* The exits of a call idle.
LEMMA ExitsDiscard ==
  ASSUME Steady, CallTypes, NEW c \in Callers, CallDiscards(c),
         Retain(c) \/ Fail(c) \/ LeaveReconcile(c)
  PROVE  CallDiscards(c)'
<1>1. doomed' = doomed /\ pc'[c] \in {"failed", "reconcile"}
  BY DEF Retain, Fail, LeaveReconcile, Goto, Keep, CallTypes, CallersTypeOK
<1> QED  BY <1>1, IdlesDiscard DEF Idles

\* Load and staging.
LEMMA StagingDiscards ==
  ASSUME Steady, CallTypes, TypeOK', DispatchInv', NEW c \in Callers,
         CallInv(c), CallFrame(c), CallDiscards(c),
         AllocateLoads(c) \/ StealFences(c) \/ StageAttempt(c) \/ DispatchAttempt(c)
  PROVE  CallDiscards(c)'
<1> USE ControlValues DEF CallTypes
<1>1. /\ obs[c] \in StoredLease \cup {None} /\ req[c] \in Attempts
      /\ Equipped(pc[c], obs[c], target[c])
  BY CallTyped
<1>2. CASE Retain(c) \/ Fail(c)
  BY <1>2, ExitsDiscard
<1>3. CASE AllocateLoads(c)
  <2>1. CASE Goto(c, "stage") /\ UNCHANGED <<req, obs, target>> /\ Keep
    <3>1. pc'[c] = "stage" /\ obs'[c] = None /\ doomed' = doomed
      BY <1>3, <2>1 DEF AllocateLoads, CallDiscards, Keep
    <3>2. \A s \in doomed'[c] : Discardable(s)'
      BY <3>1 DEF CallDiscards, Steady, Discardable, CallersTypeOK
    <3> QED  BY <3>1, <3>2 DEF CallDiscards
  <2>2. ASSUME NEW label \in {"resolve", "reconcile", "dispatch", "steal"}, Goto(c, label), Keep
        PROVE  CallDiscards(c)'
    <3>1. pc'[c] = label /\ doomed' = doomed
      BY <2>2 DEF Keep
    <3> QED  BY <3>1, IdlesDiscard DEF Idles
  <2>3. CASE Quarantined(lease) /\ Goto(c, "observe") /\ Hold(c, lease) /\ Keep
    <3>1. pc'[c] = "observe" /\ doomed' = doomed /\ obs'[c] = lease
      BY <2>3 DEF Keep
    <3> QED  BY <2>3, <3>1, WorksDiscard DEF Quarantined
  <2> QED  BY <1>2, <1>3, <2>1, <2>2, <2>3 DEF AllocateLoads, Quarantined
<1>4. CASE StealFences(c)
  <2>1. CASE Fail(c)
    BY <1>2, <2>1
  <2>2. CASE BeginRelease(obs[c], "ok") /\ ReleaseResource(c, lease', "stage")
    <3>1. PICK l : l = lease'
      OBVIOUS
    <3>2. l # None /\ l.releasing /\ l \in StoredLease
      <4>1. obs[c] \in StoredLease
        BY <1>1, <1>4 DEF StealFences, Equipped
      <4> QED
        BY <2>2, <3>1, <4>1, BeginReleaseTyped, WrittenLeases
        DEF BeginRelease, Commits, StorageFails, Settles, StoreTypeOK
    <3>3. l.attempt # None /\ Over(l.attempt)'
      BY <3>1, <3>2, OverWhenNext, StoredLeases, NoneIsFresh DEF Lease
    <3>4. ReleaseResource(c, l, "stage") /\ UNCHANGED server
      BY <1>4, <2>2, <3>1 DEF StealFences
    <3> QED  BY <3>2, <3>3, <3>4, ReleaseDiscards
  <2> QED  BY <1>4, <2>1, <2>2 DEF StealFences
<1>5. CASE StageAttempt(c)
  <2>1. CASE Fail(c)
    BY <1>2, <2>1
  <2>2. CASE /\ IF obs[c] = None THEN Create(req[c], "ok") ELSE Replace(obs[c], req[c], "ok")
             /\ Goto(c, IF ~lease'.staging THEN "resolve"
                        ELSE IF lease'.dispatch = None THEN "dispatch" ELSE "observe")
             /\ Hold(c, lease') /\ Keep
    <3>1. ~lease'.releasing
      BY <2>2 DEF Create, Replace, Commits, StorageFails, Settles, HoldsAttempt, Staged
    <3>2. obs'[c] = lease' /\ doomed' = doomed
      BY <2>2 DEF Keep
    <3>3. pc'[c] \in {"resolve", "dispatch"}
          \/ (pc'[c] = "observe" /\ lease'.staging /\ lease'.dispatch # None)
      BY <2>2
    <3> QED  BY <3>1, <3>2, <3>3, WorksDiscard, IdlesDiscard DEF Quarantined, Idles
  <2> QED  BY <1>5, <2>1, <2>2 DEF StageAttempt
<1>6. CASE DispatchAttempt(c)
  <2>1. CASE Fail(c)
    BY <1>2, <2>1
  <2>2. ASSUME NEW result \in {"won", "ok"}, BeginDispatch(obs[c], c, result),
               Goto(c, IF MayAllocate(result) THEN "provision" ELSE "observe"),
               Hold(c, lease'), Keep
        PROVE  CallDiscards(c)'
    <3>1. obs'[c] = lease' /\ doomed' = doomed /\ pc'[c] \in {"provision", "observe"}
      BY <2>2 DEF Keep
    <3>2. obs[c] \in StoredLease /\ obs[c].staging /\ ~obs[c].releasing
      BY <1>1, <1>6 DEF DispatchAttempt, Equipped, CallInv, LeaseInHand
    <3>3. Quarantined(Dispatched(obs[c], c))
      BY <3>2, StoredLeases, NoneIsFresh DEF Quarantined, Dispatched, Lease
    <3>4. Quarantined(lease')
      BY <2>2, <3>3 DEF BeginDispatch, StorageFails, Settles, Quarantined
    <3> QED  BY <3>1, <3>4, WorksDiscard DEF Quarantined
  <2> QED  BY <1>6, <2>1, <2>2 DEF DispatchAttempt
<1> QED  BY <1>3, <1>4, <1>5, <1>6

\* Looking up, requesting and adopting the object: nothing is doomed.
LEMMA WorkingDiscards ==
  ASSUME Steady, CallTypes, OneObject, NEW c \in Callers, CallInv(c), CallDiscards(c),
         \/ ObserveAttempt(c) \/ SendAllocation(c) \/ AllocationAnswered(c)
         \/ AllocationRefused(c) \/ ObserveDispatched(c) \/ AdoptServer(c)
  PROVE  CallDiscards(c)'
<1> USE ControlValues DEF CallTypes
<1>1. req[c] \in Attempts
  BY CallTyped
<1>2. ~(Cardinality(AllocatedFor(req[c])) > 1)
  BY <1>1, OneFound
<1>3. Quarantined(obs[c]) /\ obs'[c] = obs[c]
  BY DEF ObserveAttempt, SendAllocation, AllocationAnswered, AllocationRefused,
         ObserveDispatched, AdoptServer, CallDiscards
<1>4. doomed' = doomed
  BY <1>2
  DEF ObserveAttempt, SendAllocation, AllocationAnswered, AllocationRefused,
      ObserveDispatched, AdoptServer, Keep
<1>5. CASE pc'[c] \in {"rpc", "wait", "await", "adopt"}
  BY <1>3, <1>4, <1>5, WorksDiscard DEF Quarantined
<1>6. CASE pc'[c] \in {"progress", "unallocated", "reconcile"}
  BY <1>4, <1>6, IdlesDiscard DEF Idles
<1>7. CASE pc'[c] = "finalize"
  <2>1. AdoptServer(c) /\ target[c] \in AllocatedFor(req[c]) /\ UNCHANGED <<target, server, req>>
    BY <1>2, <1>7
    DEF ObserveAttempt, SendAllocation, AllocationAnswered, AllocationRefused,
        ObserveDispatched, AdoptServer
  <2>2. Present(target[c])'
    BY <2>1 DEF AllocatedFor, Labelled, Present
  <2>3. \A s \in doomed'[c] : Discardable(s)'
    BY <1>4 DEF CallDiscards, Steady, Discardable, CallersTypeOK
  <2> QED  BY <1>3, <1>7, <2>2, <2>3 DEF CallDiscards, Quarantined
<1> QED
  BY <1>2, <1>5, <1>6, <1>7
  DEF ObserveAttempt, SendAllocation, AllocationAnswered, AllocationRefused,
      ObserveDispatched, AdoptServer

\* Publishing, judging progress, resolving, returning, giving a request up,
\* forgetting, failing and crashing.
LEMMA IdlingDiscards ==
  ASSUME Steady, CallTypes, NEW c \in Callers, CallDiscards(c),
         \/ FinalizeAttempt(c) \/ CheckProgress(c) \/ ResolveLease(c) \/ ReturnHandoff(c)
         \/ FenceUnallocated(c) \/ ReloadUnallocated(c) \/ ForgetAttempt(c)
         \/ StepFails(c) \/ Crash(c)
  PROVE  CallDiscards(c)'
<1> USE ControlValues DEF CallTypes
<1>1. CASE Retain(c) \/ Fail(c) \/ LeaveReconcile(c)
  BY <1>1, ExitsDiscard
<1>2. ASSUME NEW label, Goto(c, label), doomed' = doomed, Idles(label, after'[c])
      PROVE  CallDiscards(c)'
  <2>1. pc'[c] = label
    BY <1>2
  <2> QED  BY <1>2, <2>1, IdlesDiscard
<1>3. CASE FinalizeAttempt(c)
  BY <1>2, <1>3 DEF FinalizeAttempt, Answer, Keep, Idles
<1>4. CASE CheckProgress(c)
  BY <1>1, <1>2, <1>4 DEF CheckProgress, Keep, Idles
<1>5. CASE ResolveLease(c)
  BY <1>1, <1>2, <1>5 DEF ResolveLease, Answer, Keep, Idles
<1>6. CASE ReturnHandoff(c)
  BY <1>1, <1>2, <1>6 DEF ReturnHandoff, Keep, Idles
<1>7. CASE FenceUnallocated(c)
  <2>1. pc'[c] \in {"reconcile", "progress", "reload"} /\ doomed' = doomed
    BY <1>7 DEF FenceUnallocated, Keep
  <2> QED  BY <2>1, IdlesDiscard DEF Idles
<1>8. CASE ReloadUnallocated(c)
  BY <1>2, <1>8 DEF ReloadUnallocated, Keep, Idles
<1>9. CASE ForgetAttempt(c)
  BY <1>1, <1>9 DEF ForgetAttempt
<1>10. CASE StepFails(c)
  <2>1. CASE Goto(c, "progress") /\ Keep
    BY <1>2, <2>1 DEF Keep, Idles
  <2>2. CASE /\ Goto(c, "delete") /\ UNCHANGED doomed
             /\ after' = [after EXCEPT ![c] = IF @ = "stage" THEN "fail" ELSE "leave"]
    <3>1. after'[c] # "stage"
      BY <2>2 DEF CallersTypeOK
    <3> QED  BY <1>2, <2>2, <3>1 DEF Idles
  <2> QED  BY <1>1, <1>10, <2>1, <2>2 DEF StepFails
<1>11. CASE Crash(c)
  <2>1. pc'[c] = "failed" /\ doomed'[c] = {}
    BY <1>11 DEF Crash, CallersTypeOK
  <2> QED  BY <2>1, IdlesDiscard DEF Idles
<1> QED  BY <1>3, <1>4, <1>5, <1>6, <1>7, <1>8, <1>9, <1>10, <1>11

\* Of an attempt nobody stores and some object carries, nobody stages anything.
LEMMA UnstoredOver ==
  ASSUME TypeOK, DispatchInv, NEW s \in Servers, ~HoldsAttempt(server[s].attempt)
  PROVE  Over(server[s].attempt)
BY MetAttempts DEF Over

\* Cleaning up: what a call dooms belongs to an attempt that is over.
LEMMA CleaningDiscards ==
  ASSUME Steady, TypeOK, DispatchInv, TypeOK', DispatchInv', NEW c \in Callers,
         CallInv(c), CallDiscards(c),
         \/ ReconcileLoads(c) \/ ReconcileFences(c) \/ ListAttempt(c)
         \/ DeleteDoomed(c) \/ CleanupReturns(c)
  PROVE  CallDiscards(c)'
<1> USE ControlValues DEF CallTypes, TypeOK
<1>1. /\ obs[c] \in StoredLease \cup {None} /\ req[c] \in Attempts
      /\ target[c] \in Servers \cup {None} /\ after[c] \in Continuations
      /\ Equipped(pc[c], obs[c], target[c])
  BY CallTyped
<1>2. CASE Retain(c) \/ Fail(c) \/ LeaveReconcile(c)
  BY <1>2, ExitsDiscard
<1>3. /\ Published(req[c], target[c]) # None
      /\ Published(req[c], target[c]).attempt = req[c] /\ req[c] # None
  <2>1. CASE target[c] = None
    <3>1. Published(req[c], target[c]) \in Lease
      BY <1>1, <2>1 DEF Lease, Published
    <3> QED  BY <1>1, <3>1, NoneIsFresh, NoneIsNoLease DEF Published
  <2>2. CASE target[c] # None
    <3>1. Published(req[c], target[c]) \in Lease
      BY <1>1, <2>2 DEF Lease, Published
    <3> QED  BY <1>1, <3>1, NoneIsFresh, NoneIsNoLease DEF Published
  <2> QED  BY <2>1, <2>2
<1>4. CASE ReconcileLoads(c)
  <2>1. CASE ~HoldsAttempt(req[c]) /\ target[c] # None
    <3>1. ReleaseResource(c, Published(req[c], target[c]), "leave") /\ UNCHANGED server
      BY <1>4, <2>1 DEF ReconcileLoads
    <3>2. Over(req[c])
      BY <1>1, <2>1, UnstoredOver DEF CallInv, ObjectInHand
    <3>3. PICK l : l = Published(req[c], target[c])
      OBVIOUS
    <3>4. l.attempt = req[c] /\ l # None /\ Over(l.attempt)'
      <4>1. PICK a : a = req[c]
        OBVIOUS
      <4> QED  BY <1>3, <3>2, <3>3, <4>1 DEF Steady
    <3> QED  BY <1>3, <3>1, <3>3, <3>4, ReleaseDiscards
  <2>2. CASE Goto(c, "fence") /\ Keep
    <3>1. pc'[c] = "fence" /\ doomed' = doomed
      BY <2>2 DEF Keep
    <3> QED  BY <3>1, IdlesDiscard DEF Idles
  <2> QED  BY <1>2, <1>4, <2>1, <2>2 DEF ReconcileLoads
<1>5. CASE ReconcileFences(c)
  <2>1. CASE BeginRelease(obs[c], "ok")
             /\ ReleaseResource(c, IF target[c] = None THEN lease'
                                   ELSE Published(req[c], target[c]), "remove")
    <3>1. obs[c] \in StoredLease /\ obs[c].attempt = req[c]
      BY <1>1, <1>5 DEF ReconcileFences, Equipped, CallInv, LeaseInHand
    <3>2. lease' # None /\ lease'.releasing /\ lease'.attempt = req[c]
      BY <2>1, <3>1, BeginReleaseTyped, WrittenLeases
      DEF BeginRelease, Commits, StorageFails, Settles, HoldsAttempt
    <3>3. PICK l : l = IF target[c] = None THEN lease' ELSE Published(req[c], target[c])
      OBVIOUS
    <3>4. l # None /\ l.attempt = req[c]
      BY <1>3, <3>2, <3>3
    <3>5. PICK a : a = req[c]
      OBVIOUS
    <3>6. Over(l.attempt)'
      BY <3>2, <3>4, <3>5, OverWhenNext
    <3>7. ReleaseResource(c, l, "remove") /\ UNCHANGED server
      BY <1>5, <2>1, <3>3 DEF ReconcileFences
    <3> QED  BY <1>3, <3>4, <3>6, <3>7, ReleaseDiscards
  <2> QED  BY <1>2, <1>5, <2>1 DEF ReconcileFences
<1>6. CASE ListAttempt(c)
  <2>1. pc'[c] = "delete" /\ after' = after /\ obs' = obs /\ UNCHANGED server
    BY <1>6 DEF ListAttempt
  <2>2. PICK a : a = obs[c].attempt
    OBVIOUS
  <2>3. doomed'[c] \subseteq {s \in Servers : server[s].attempt = a}
    BY <1>6, <2>2 DEF ListAttempt, Labelled, CallersTypeOK
  <2>4. a # None /\ Over(a)'
    BY <1>1, <1>6, <2>2, StoredLeases, NoneIsFresh
    DEF ListAttempt, CallDiscards, Steady, Equipped, Lease
  <2>5. \A s \in doomed'[c] : Discardable(s)'
    BY <2>1, <2>3, <2>4 DEF Discardable
  <2> QED  BY <1>6, <2>1, <2>5 DEF CallDiscards, ListAttempt
<1>7. CASE DeleteDoomed(c)
  <2>1. /\ pc'[c] = "delete" /\ obs' = obs /\ doomed'[c] \subseteq doomed[c]
        /\ after'[c] = "stage" => after[c] = "stage"
    BY <1>7 DEF DeleteDoomed, CallersTypeOK
  <2>2. \A s \in doomed'[c] : Discardable(s)'
    BY <2>1 DEF CallDiscards, Steady, Discardable, CallersTypeOK
  <2> QED  BY <1>7, <2>1, <2>2 DEF CallDiscards, DeleteDoomed
<1>8. CASE CleanupReturns(c)
  <2>1. CASE Goto(c, "stage") /\ after[c] = "stage" /\ UNCHANGED obs /\ Keep
    <3>1. pc'[c] = "stage" /\ obs' = obs /\ doomed' = doomed /\ obs[c] # None /\ obs[c].releasing
      BY <1>8, <2>1 DEF CleanupReturns, CallDiscards, Keep
    <3>2. \A s \in doomed'[c] : Discardable(s)'
      BY <3>1 DEF CallDiscards, Steady, Discardable, CallersTypeOK
    <3> QED  BY <3>1, <3>2 DEF CallDiscards
  <2>2. CASE after[c] \in {"remove", "progress"} /\ Goto(c, after[c]) /\ Keep
    <3>1. pc'[c] \in {"remove", "progress"} /\ doomed' = doomed
      BY <2>2 DEF Keep
    <3> QED  BY <3>1, IdlesDiscard DEF Idles
  <2> QED  BY <1>1, <1>2, <1>8, <2>1, <2>2 DEF CleanupReturns, Continuations
<1> QED  BY <1>4, <1>5, <1>6, <1>7, <1>8

\* A step of a call, failures and crashes included, keeps what it may delete.
LEMMA OwnDiscards ==
  ASSUME Steady, TypeOK, DispatchInv, DiscardInv, TypeOK', DispatchInv', NEW c \in Callers,
         CallerStep(c) \/ StepFails(c) \/ Crash(c)
  PROVE  CallDiscards(c)'
<1>1. CallTypes /\ CallInv(c) /\ CallDiscards(c) /\ OneObject
  BY DEF TypeOK, CallTypes, DispatchInv, DiscardInv
<1>2. CallFrame(c)
  BY <1>1, CallFramed
<1> QED
  BY <1>1, <1>2, StagingDiscards, WorkingDiscards, IdlingDiscards, CleaningDiscards DEF CallerStep

\* The other calls keep it too.
LEMMA CallsDiscard ==
  ASSUME Steady, TypeOK, DispatchInv, DiscardInv, TypeOK', DispatchInv', [Next]_vars
  PROVE  \A d \in Callers : CallDiscards(d)'
<1> USE DEF TypeOK, CallTypes, DispatchInv, DiscardInv
<1>1. CASE UNCHANGED callerVars
  BY <1>1, OthersDiscard DEF callerVars
<1>2. CASE Calls
  <2>1. PICK c \in Callers : CallerStep(c) \/ StepFails(c) \/ Crash(c)
    BY <1>2 DEF Calls
  <2>2. CallFrame(c) /\ \A d \in Callers \ {c} : doomed'[d] = doomed[d]
    BY <2>1, CallFramed, CallMoves
  <2>3. \A d \in Callers \ {c} : CallDiscards(d)'
    BY <2>2, OthersDiscard DEF CallFrame, OthersKept
  <2> QED  BY <2>1, <2>3, OwnDiscards
<1> QED  BY <1>1, <1>2 DEF Next, Sweeps, Reaps, Plays, Environment, vars

-----------------------------------------------------------------------------
\* A sweep lists, and deletes, the objects of a lease it met fenced.
LEMMA SweepsDiscard ==
  ASSUME Steady, TypeOK, DispatchInv, DiscardInv, [Next]_vars
  PROVE  \A w \in Sweepers : SweepDiscards(w)'
<1> USE DEF TypeOK, CallTypes
<1>1. ASSUME NEW w \in Sweepers, swDoomed'[w] \subseteq swDoomed[w],
             swPc'[w] = "list" => swPc[w] = "list" /\ swObs'[w] = swObs[w]
      PROVE  SweepDiscards(w)'
  <2>1. \A s \in swDoomed'[w] : Discardable(s)'
    BY <1>1 DEF DiscardInv, SweepDiscards, Steady, Discardable, SweepersTypeOK
  <2>2. PICK a : a = swObs[w].attempt
    OBVIOUS
  <2>3. swPc[w] = "list" => Over(a)'
    BY <2>2 DEF DiscardInv, SweepDiscards, Steady
  <2> QED  BY <1>1, <2>1, <2>2, <2>3 DEF SweepDiscards, Over, HoldsAttempt
<1>2. CASE UNCHANGED sweepVars
  BY <1>1, <1>2 DEF sweepVars
<1>3. CASE Sweeps
  <2>1. PICK w \in Sweepers : SweepStep(w) \/ SweepFails(w)
    BY <1>3 DEF Sweeps
  <2>2. \A v \in Sweepers \ {w} : /\ swPc'[v] = swPc[v] /\ swObs'[v] = swObs[v]
                                  /\ swDoomed'[v] = swDoomed[v]
    BY <2>1
    DEF SweepStep, SweepLists, SweepFences, SweepChecks, SweepListsAttempt, SweepDeletes,
        SweepCleaned, SweepRemoves, SweepFails, SweepRests, SweepGoto, SweepersTypeOK
  <2>3. swObs[w] \in StoredLease \cup {None} /\ SweepEquipped(swPc[w], swObs[w])
    BY DEF SweepersTypeOK
  <2>4. ASSUME NEW a, a # None, Over(a),
               swDoomed'[w] \subseteq {s \in Servers : server[s].attempt = a},
               UNCHANGED server,
               swPc'[w] = "list" => swObs'[w].attempt = a
        PROVE  SweepDiscards(w)'
    <3>1. Over(a)'
      BY <2>4 DEF Steady
    <3>2. \A s \in swDoomed'[w] : Discardable(s)'
      BY <2>4, <3>1 DEF Discardable
    <3> QED  BY <2>4, <3>1, <3>2 DEF SweepDiscards
  <2>5. SweepDiscards(w)'
    <3>1. CASE SweepLists(w) \/ SweepFences(w) \/ SweepRemoves(w) \/ SweepFails(w)
      <4>1. swDoomed'[w] \subseteq swDoomed[w] /\ swPc'[w] # "list"
        BY <3>1
        DEF SweepLists, SweepFences, SweepRemoves, SweepFails, SweepRests, SweepGoto,
            SweepersTypeOK
      <4> QED  BY <1>1, <4>1
    <3>2. CASE SweepChecks(w)
      <4>1. CASE lease = swObs[w]
        <5>1. swObs[w] \in StoredLease /\ lease.releasing /\ lease # None
          BY <2>3, <3>2, <4>1 DEF SweepChecks, SweepEquipped
        <5>2. PICK a : a = swObs[w].attempt
          OBVIOUS
        <5>3. a # None /\ Over(a)
          BY <4>1, <5>1, <5>2, OverWhen, StoredLeases, NoneIsFresh DEF Lease
        <5>4. /\ swDoomed'[w] \subseteq {s \in Servers : server[s].attempt = a}
              /\ UNCHANGED server /\ swObs' = swObs
          BY <3>2, <4>1, <5>2 DEF SweepChecks, fleetVars, SweepersTypeOK
        <5> QED  BY <2>4, <5>2, <5>3, <5>4
      <4>2. CASE lease # swObs[w]
        <5>1. swDoomed'[w] \subseteq swDoomed[w] /\ swPc'[w] # "list"
          BY <3>2, <4>2 DEF SweepChecks, SweepRests, SweepGoto, SweepersTypeOK
        <5> QED  BY <1>1, <5>1
      <4> QED  BY <4>1, <4>2
    <3>3. CASE SweepListsAttempt(w)
      <4>1. PICK a : a = swObs[w].attempt
        OBVIOUS
      <4>2. a # None /\ Over(a) /\ swPc'[w] # "list"
        BY <2>3, <3>3, <4>1, StoredLeases, NoneIsFresh
        DEF SweepListsAttempt, SweepEquipped, DiscardInv, SweepDiscards, Lease, SweepGoto,
            SweepersTypeOK
      <4>3. swDoomed'[w] \subseteq {s \in Servers : server[s].attempt = a} /\ UNCHANGED server
        BY <3>3, <4>1 DEF SweepListsAttempt, Labelled, fleetVars, SweepersTypeOK
      <4> QED  BY <2>4, <4>2, <4>3
    <3>4. CASE SweepDeletes(w) \/ SweepCleaned(w)
      <4>1. swDoomed'[w] \subseteq swDoomed[w] /\ swPc'[w] # "list"
        BY <3>4 DEF SweepDeletes, SweepCleaned, SweepRests, SweepGoto, SweepersTypeOK
      <4> QED  BY <1>1, <4>1
    <3> QED  BY <2>1, <3>1, <3>2, <3>3, <3>4 DEF SweepStep
  <2> QED  BY <1>1, <2>2, <2>5
<1> QED  BY <1>2, <1>3 DEF Next, Calls, Reaps, Plays, Environment, vars

\* An orphan scan takes an object for an orphan when no lease protects it; its
\* attempt is over, because an object's attempt is never staged again.
LEMMA ReapersDiscard ==
  ASSUME Steady, TypeOK, DispatchInv, DiscardInv, [Next]_vars
  PROVE  \A r \in Reapers : ReaperDiscards(r)'
<1> USE DEF TypeOK, CallTypes
<1>1. \A s \in Servers : /\ server[s].attempt # None => server'[s].attempt # None
                         /\ Discardable(s) => Discardable(s)'
  BY DEF Steady, Discardable
<1>0. ASSUME NEW r \in Reapers, NEW aim, aim = rAim'[r],
             aim # None => aim \in Servers /\ Discardable(aim),
             \A s \in rFound'[r] : IF rPc'[r] = "leases" THEN server'[s].attempt # None
                                                        ELSE Discardable(s)'
      PROVE  ReaperDiscards(r)'
  <2>1. aim # None => Discardable(aim)'
    BY <1>0, <1>1
  <2> QED  BY <1>0, <2>1 DEF ReaperDiscards, Discardable, Over, HoldsAttempt
<1>2. ASSUME NEW r \in Reapers, rFound'[r] \subseteq rFound[r],
             rPc[r] = "leases" => rPc'[r] = "leases" \/ rFound'[r] = {},
             rAim'[r] \in {rAim[r], None}
      PROVE  ReaperDiscards(r)'
  <2>1. \A s \in rFound'[r] : IF rPc'[r] = "leases" THEN server'[s].attempt # None
                                                   ELSE Discardable(s)'
    <3>1. SUFFICES ASSUME NEW s \in rFound'[r]
                   PROVE  IF rPc'[r] = "leases" THEN server'[s].attempt # None ELSE Discardable(s)'
      OBVIOUS
    <3>2. s \in Servers /\ s \in rFound[r]
      BY <1>2, <3>1 DEF ReapersTypeOK
    <3>3. IF rPc[r] = "leases" THEN server[s].attempt # None ELSE Discardable(s)
      BY <3>2 DEF DiscardInv, ReaperDiscards
    <3>4. server'[s].attempt # None
      BY <1>1, <3>2, <3>3 DEF Discardable
    <3> QED  BY <1>1, <1>2, <3>1, <3>2, <3>3, <3>4
  <2>2. PICK aim : aim = rAim'[r]
    OBVIOUS
  <2>3. aim # None => aim \in Servers /\ Discardable(aim)
    BY <1>2, <2>2 DEF DiscardInv, ReaperDiscards, ReapersTypeOK
  <2> QED  BY <1>0, <2>1, <2>2, <2>3
<1>3. CASE UNCHANGED reaperVars
  BY <1>2, <1>3 DEF reaperVars
<1>4. CASE Reaps
  <2>1. PICK r \in Reapers : ReaperStep(r) \/ GraceElapses(r) \/ ReaperFails(r)
    BY <1>4 DEF Reaps
  <2>2. \A q \in Reapers \ {r} :
          rPc'[q] = rPc[q] /\ rFound'[q] = rFound[q] /\ rAim'[q] = rAim[q]
    BY <2>1
    DEF ReaperStep, ScanObjects, ScanLeases, ReclaimReads, ReclaimDeletes, SweepEnds, Passes,
        GraceElapses, ReaperFails, ReaperGoto, ReapersTypeOK
  <2>3. PICK aim : aim = rAim'[r]
    OBVIOUS
  <2>4. rAim[r] # None => rAim[r] \in Servers /\ Discardable(rAim[r])
    BY DEF DiscardInv, ReaperDiscards, ReapersTypeOK
  <2>5. ReaperDiscards(r)'
    <3>1. CASE ScanObjects(r)
      <4>1. rPc'[r] = "leases" /\ rAim' = rAim /\ UNCHANGED server
            /\ rFound'[r] = {s \in Servers : server[s].state = "allocated"}
        BY <3>1 DEF ScanObjects, ReaperGoto, fleetVars, ReapersTypeOK
      <4>2. \A s \in rFound'[r] : server'[s].attempt # None
        BY <4>1 DEF DiscardInv, PresentLabelled, Present
      <4> QED  BY <1>0, <2>3, <2>4, <4>1, <4>2
    <3>2. CASE ScanLeases(r)
      <4>1. /\ rAim' = rAim /\ rPc[r] = "leases"
            /\ \A s \in rFound'[r] : s \in rFound[r] /\ server[s].attempt \notin ProtectedAttempts
        BY <3>2 DEF ScanLeases, ReapersTypeOK
      <4>2. \A s \in rFound'[r] : s \in Servers /\ Discardable(s)
        BY <4>1, UnstoredOver
        DEF ProtectedAttempts, HoldsAttempt, DiscardInv, ReaperDiscards, Discardable, ReapersTypeOK
      <4>3. rPc'[r] = "reclaim"
        BY <3>2 DEF ScanLeases, ReaperGoto, ReapersTypeOK
      <4> QED  BY <1>0, <1>1, <2>3, <2>4, <4>1, <4>2, <4>3
    <3>3. CASE ReclaimReads(r)
      <4>1. \/ rFound' = rFound /\ rAim'[r] \in rFound[r]
            \/ rFound'[r] \subseteq rFound[r] /\ rAim' = rAim
        BY <3>3 DEF ReclaimReads, Passes, ReapersTypeOK
      <4>2. rPc[r] # "leases" /\ rFound[r] \subseteq Servers
        BY <3>3 DEF ReclaimReads, ReapersTypeOK
      <4>3. \A s \in rFound[r] : Discardable(s) /\ Discardable(s)'
        BY <1>1, <4>2 DEF DiscardInv, ReaperDiscards
      <4>4. rPc'[r] # "leases"
        BY <3>3, <4>2 DEF ReclaimReads, ReaperGoto, ReapersTypeOK
      <4> QED  BY <1>0, <2>3, <2>4, <4>1, <4>2, <4>3, <4>4
    <3>4. CASE ReclaimDeletes(r) \/ SweepEnds(r) \/ GraceElapses(r) \/ ReaperFails(r)
      <4>1. /\ rFound'[r] \subseteq rFound[r] /\ rAim'[r] \in {rAim[r], None}
            /\ rPc[r] = "leases" => rPc'[r] = "leases" \/ rFound'[r] = {}
        BY <3>4
        DEF ReclaimDeletes, SweepEnds, GraceElapses, ReaperFails, Passes, ReaperGoto,
            ReapersTypeOK
      <4> QED  BY <1>2, <4>1
    <3> QED  BY <2>1, <3>1, <3>2, <3>3, <3>4 DEF ReaperStep
  <2> QED  BY <1>2, <2>2, <2>5
<1> QED  BY <1>3, <1>4 DEF Next, Calls, Sweeps, Plays, Environment, vars

\* A session deletes the object of the lease it has fenced.
LEMMA SessionsDiscard ==
  ASSUME Steady, TypeOK, DispatchInv, DiscardInv, TypeOK', DispatchInv', [Next]_vars
  PROVE  \A z \in Sessions : SessionDiscards(z)'
<1> USE DEF TypeOK, CallTypes
<1>1. \A z \in Sessions : sPc[z] \notin {"idle", "over"} =>
        /\ sObs[z] \in Lease /\ ~sObs[z].staging
        /\ sObs[z].server \in Servers /\ sObs[z].attempt # None
  BY StoredLeases, NoneIsFresh DEF SessionsTypeOK, SessionEquipped, Lease, WellFormed
<1>2. ASSUME NEW z \in Sessions, sPc[z] \notin {"idle", "over"}, NEW l,
             l.server = sObs[z].server, l.attempt = sObs[z].attempt
      PROVE  server'[l.server].attempt = l.attempt
  BY <1>1, <1>2 DEF DiscardInv, SessionDiscards, Steady
<1>3. ASSUME NEW z \in Sessions, sPc'[z] \in {sPc[z], "idle", "over"}, sObs'[z] = sObs[z] \/ sPc'[z] # sPc[z]
      PROVE  SessionDiscards(z)'
  BY <1>2, <1>3 DEF DiscardInv, SessionDiscards, Steady
<1>4. CASE UNCHANGED sessionVars
  BY <1>3, <1>4 DEF sessionVars
<1>5. CASE Plays
  <2>1. PICK z \in Sessions : SessionStep(z, handed) \/ ClaimFails(z)
    BY <1>5 DEF Plays
  <2>2. \A y \in Sessions \ {z} : sPc'[y] = sPc[y] /\ sObs'[y] = sObs[y]
    BY <2>1
    DEF SessionStep, ClaimLoads, ClaimResolves, ClaimWrites, SessionEnds, EndFences, EndDeletes,
        EndRemoves, ClaimFails, SessionGoto, SessionHolds, Refuse, SessionOver, SessionsTypeOK
  <2>3. ASSUME sPc'[z] \in {"idle", "over"}
        PROVE  SessionDiscards(z)'
    BY <2>3 DEF SessionDiscards
  <2>4. SessionDiscards(z)'
    <3>1. CASE ClaimLoads(z, handed)
      <4>1. /\ lease # None /\ ~lease.staging /\ sObs'[z] = lease /\ sPc'[z] = "resolve"
            /\ UNCHANGED server
        BY <3>1 DEF ClaimLoads, SessionHolds, SessionGoto, SessionsTypeOK, fleetVars
      <4> QED  BY <4>1 DEF SessionDiscards, DiscardInv, PublishedNamesObject
    <3>2. CASE /\ ClaimResolves(z) \/ SessionEnds(z) \/ EndDeletes(z)
               /\ sPc'[z] \notin {"idle", "over"}
      <4>1. sObs'[z] = sObs[z] /\ sPc[z] \notin {"idle", "over"} /\ sPc'[z] # "delete"
        BY <3>2
        DEF ClaimResolves, SessionEnds, EndDeletes, Refuse, SessionOver, SessionGoto, SessionsTypeOK
      <4> QED  BY <1>2, <4>1 DEF SessionDiscards
    <3>3. CASE ClaimWrites(z) /\ sPc'[z] \notin {"idle", "over"}
      <4>1. /\ sPc[z] = "claim" /\ sPc'[z] = "admitted" /\ sObs'[z] = lease'
            /\ ClaimByKey(sObs[z], "ok")
        BY <3>3 DEF ClaimWrites, Refuse, SessionGoto, SessionHolds, SessionsTypeOK
      <4>2. sObs[z] \in StoredLease /\ ~sObs[z].staging /\ ~sObs[z].releasing
        BY <4>1 DEF SessionsTypeOK, SessionEquipped
      <4>3. lease' = Admitted(sObs[z])
        BY <4>1, <4>2, ClaimByKeyTyped
      <4>4. PICK l : l = lease'
        OBVIOUS
      <4>5. l.server = sObs[z].server /\ l.attempt = sObs[z].attempt
        BY <1>1, <4>1, <4>3, <4>4, LeaseUpdates
      <4>6. server'[l.server].attempt = l.attempt
        BY <1>2, <4>1, <4>5
      <4> QED  BY <4>1, <4>4, <4>6 DEF SessionDiscards
    <3>4. CASE EndFences(z) /\ sPc'[z] \notin {"idle", "over"}
      <4>1. /\ sPc[z] = "ended" /\ sPc'[z] = "delete"
            /\ lease' = Ended(sObs[z]) /\ sObs'[z] = Ended(sObs[z])
        BY <3>4 DEF EndFences, SessionOver, SessionGoto, SessionHolds, SessionsTypeOK
      <4>2. PICK l : l = Ended(sObs[z])
        OBVIOUS
      <4>3. l.server = sObs[z].server /\ l.attempt = sObs[z].attempt /\ l.releasing
        BY <1>1, <4>1, <4>2, LeaseUpdates
      <4>4. server'[l.server].attempt = l.attempt
        BY <1>2, <4>1, <4>3
      <4>5. l # None
        BY <1>1, <4>1, <4>2, LeaseShapes DEF SessionsTypeOK, SessionEquipped, StoredLease
      <4>6. Over(l.attempt)'
        BY <4>1, <4>2, <4>3, <4>5, OverWhenNext
      <4> QED  BY <4>1, <4>2, <4>4, <4>6 DEF SessionDiscards, Over, HoldsAttempt
    <3>5. CASE EndRemoves(z) \/ ClaimFails(z)
      BY <2>3, <3>5
      DEF EndRemoves, ClaimFails, Refuse, SessionOver, SessionGoto, SessionsTypeOK
    <3> QED  BY <2>1, <2>3, <3>1, <3>2, <3>3, <3>4, <3>5 DEF SessionStep
  <2> QED  BY <1>3, <2>2, <2>4
<1> QED  BY <1>4, <1>5 DEF Next, Calls, Sweeps, Reaps, Environment, vars

-----------------------------------------------------------------------------
\* Initially nothing is stored, acquired or in hand.
LEMMA DiscardInit == ASSUME Init PROVE DiscardInv
BY NoneIsFresh
DEF Init, StoreInit, FleetInit, CallerInit, SweepInit, ReaperInit, SessionInit, DiscardInv,
    PresentLabelled, OneObject, InflightUnmet, PublishedNamesObject, CallDiscards, SweepDiscards,
    ReaperDiscards, SessionDiscards, Present, Quarantined

\* Every step keeps the invariant, and is steady.
LEMMA DiscardStep ==
  ASSUME "copies" \notin Anomalies, TypeOK, DispatchInv, DiscardInv, TypeOK', DispatchInv',
         [Next]_vars
  PROVE  Steady /\ DiscardInv'
<1>1. Steady
  BY StepSteady
<1>2. /\ PresentLabelled' /\ OneObject' /\ InflightUnmet' /\ PublishedNamesObject'
      /\ \A c \in Callers : CallDiscards(c)'
      /\ \A w \in Sweepers : SweepDiscards(w)'
      /\ \A r \in Reapers : ReaperDiscards(r)'
      /\ \A z \in Sessions : SessionDiscards(z)'
  BY <1>1, FleetDiscards, PublishedDiscards, CallsDiscard, SweepsDiscard, ReapersDiscard,
     SessionsDiscard
<1> QED  BY <1>1, <1>2 DEF DiscardInv

\* Whatever a cleanup still has to delete, in whatever order the processes run,
\* belongs to an attempt that is over for good: Allocate's takeover, a
\* reconcileAttempt that outlived its request, ReclaimExpired, the reaper and
\* EndSession act on what they read before.  The allocator may answer a request
\* late, but not twice.
THEOREM DiscardHolds ==
  ASSUME FreshAttempts, "copies" \notin Anomalies PROVE Spec => []DiscardInv
<1>1. Init => DiscardInv
  BY DiscardInit
<1>2. TypeOK /\ DispatchInv /\ DiscardInv /\ TypeOK' /\ DispatchInv' /\ [Next]_vars => DiscardInv'
  BY DiscardStep
<1> QED  BY <1>1, <1>2, HandoffTypeOK, DispatchHolds, PTL DEF Spec

\* While a lease is stored and not fenced, the object of its attempt is not deleted,
\* not even one that landed after its request was given up.  (An attempt has one
\* object here, see SingleObject.)
THEOREM LeasedObjectsKept ==
  ASSUME FreshAttempts, "copies" \notin Anomalies PROVE Spec => LeasedObjectKept
<1>1. TypeOK /\ DispatchInv /\ DiscardInv /\ [Next]_vars =>
        [\A s \in Servers :
           /\ Present(s) /\ HoldsAttempt(server[s].attempt) /\ ~lease.releasing
           /\ \A t \in Servers : server[t].attempt = server[s].attempt => t = s
           => Present(s)']_vars
  <2> SUFFICES ASSUME TypeOK, DispatchInv, DiscardInv, [Next]_vars, NEW s \in Servers,
                      Present(s), HoldsAttempt(server[s].attempt), ~lease.releasing
               PROVE  Present(s)'
    OBVIOUS
  <2>1. Steady /\ ~Over(server[s].attempt)
    BY StepSteady, OverWhen
  <2> QED  BY <2>1 DEF Steady
<1> QED  BY <1>1, HandoffTypeOK, DispatchHolds, DiscardHolds, PTL DEF Spec, LeasedObjectKept

\* However many calls overlap, an attempt has one object at most.
THEOREM SingleObject ==
  ASSUME FreshAttempts, "copies" \notin Anomalies PROVE Spec => []OneObjectPerAttempt
<1>1. TypeOK /\ DiscardInv => OneObjectPerAttempt
  <2> SUFFICES ASSUME OneObject, NEW a \in Attempts PROVE Cardinality(Labelled(a)) <= 1
    BY DEF DiscardInv, OneObjectPerAttempt
  <2>1. \A s, t \in Labelled(a) : s = t
    BY NoneIsFresh DEF OneObject, Labelled
  <2>2. CASE Labelled(a) = {}
    BY <2>2, FS_EmptySet
  <2>3. CASE Labelled(a) # {}
    <3>1. PICK s : Labelled(a) = {s}
      BY <2>1, <2>3
    <3> QED  BY <3>1, FS_Singleton
  <2> QED  BY <2>2, <2>3
<1> QED  BY <1>1, HandoffTypeOK, DiscardHolds, PTL

-----------------------------------------------------------------------------
\* A claimed lease changes only by the end of a session admitted under it.
LEMMA ClaimedKept ==
  ASSUME TypeOK, DispatchInv, DiscardInv, [Next]_vars, lease # None, lease.claimed, lease' # lease
  PROVE  \E y \in Sessions : sPc[y] = "ended" /\ sObs[y] = lease
<1> USE DEF TypeOK, CallTypes
<1>1. ~lease.staging /\ ~lease.releasing
  BY StoredLeases DEF StoreTypeOK, WellFormed
<1>2. CASE Calls
  <2>1. PICK c \in Callers : LeaseMove(c) /\ CallInv(c) /\ CallDiscards(c)
    BY <1>2, CallFramed DEF Calls, DispatchInv, DiscardInv, CallFrame
  <2>2. Equipped(pc[c], obs[c], target[c])
    BY CallTyped
  <2> QED  BY <1>1, <2>1, <2>2 DEF LeaseMove, CallDiscards, Equipped, Quarantined
<1>3. CASE Sweeps
  <2>1. PICK w \in Sweepers : SweepStep(w) \/ SweepFails(w)
    BY <1>3 DEF Sweeps
  <2>2. SweepEquipped(swPc[w], swObs[w])
    BY DEF SweepersTypeOK
  <2> QED
    BY <1>1, <2>1, <2>2
    DEF SweepStep, SweepLists, SweepFences, SweepChecks, SweepListsAttempt, SweepDeletes,
        SweepCleaned, SweepRemoves, SweepFails, WriteExact, Commits, StorageFails, Settles,
        SweepEquipped, storeVars
<1>4. CASE Plays
  <2>1. PICK z \in Sessions : SessionStep(z, handed) \/ ClaimFails(z)
    BY <1>4 DEF Plays
  <2>2. SessionEquipped(sPc[z], sObs[z])
    BY DEF SessionsTypeOK
  <2>3. CASE ClaimWrites(z)
    BY <2>3 DEF ClaimWrites, ClaimByKey, Commits, StorageFails, Settles, storeVars
  <2>4. CASE EndFences(z)
    BY <2>4 DEF EndFences, WriteExact, Commits, StorageFails, Settles
  <2>5. CASE EndRemoves(z)
    BY <1>1, <2>2, <2>5 DEF EndRemoves, WriteExact, Commits, StorageFails, Settles, SessionEquipped
  <2> QED
    BY <2>1, <2>3, <2>4, <2>5
    DEF SessionStep, ClaimLoads, ClaimResolves, SessionEnds, EndDeletes, ClaimFails, storeVars
<1>5. CASE Reaps
  BY <1>5
  DEF Reaps, ReaperStep, ScanObjects, ScanLeases, ReclaimReads, ReclaimDeletes, SweepEnds,
      GraceElapses, ReaperFails, storeVars
<1> QED  BY <1>2, <1>3, <1>4, <1>5 DEF Next, Environment, Expire, storeVars, vars

\* A session is admitted with the claim it wrote, or found written.
LEMMA Admission ==
  ASSUME TypeOK, [Next]_vars, NEW z \in Sessions, sPc'[z] = "admitted"
  PROVE  \/ sPc[z] = "admitted" /\ sObs'[z] = sObs[z]
         \/ sObs'[z] = lease'
<1>1. CASE Plays
  BY <1>1
  DEF Plays, SessionStep, ClaimLoads, ClaimResolves, ClaimWrites, SessionEnds, EndFences,
      EndDeletes, EndRemoves, ClaimFails, SessionGoto, SessionHolds, Refuse, SessionOver,
      TypeOK, SessionsTypeOK
<1> QED  BY <1>1 DEF Next, Calls, Sweeps, Reaps, Environment, sessionVars, vars

\* An admitted session holds the stored lease.
SessionsHold == \A z \in Sessions : sPc[z] = "admitted" => lease = sObs[z]

\* A session the zone admitted owns its allocation until its own end is proved:
\* the lease stays claimed and the GameServer is not deleted under the player,
\* as long as the lease's zone serves one session (its claim gate admits one
\* lifetime, see ZoneLifecycle).
THEOREM AdmittedSessionsKept ==
  ASSUME FreshAttempts, "copies" \notin Anomalies
  PROVE  Spec /\ []ServedAlone => []AdmittedSessionKept
<1>1. Init => SessionsHold
  BY DEF Init, SessionInit, SessionsHold
<1>2. TypeOK /\ DispatchInv /\ DiscardInv /\ ServedAlone /\ SessionsHold /\ [Next]_vars
        => SessionsHold'
  <2> SUFFICES ASSUME TypeOK, DispatchInv, DiscardInv, ServedAlone, SessionsHold, [Next]_vars,
                      NEW z \in Sessions, sPc'[z] = "admitted", sObs'[z] # lease'
               PROVE  FALSE
    BY DEF SessionsHold
  <2>1. sPc[z] = "admitted" /\ sObs'[z] = sObs[z] /\ lease = sObs[z]
    BY Admission DEF SessionsHold
  <2>2. lease # None /\ lease.claimed
    BY <2>1 DEF TypeOK, SessionsTypeOK, SessionEquipped
  <2>3. PICK y \in Sessions : sPc[y] = "ended" /\ sObs[y] = lease
    BY <2>1, <2>2, ClaimedKept
  <2> QED  BY <2>1, <2>3 DEF ServedAlone
<1>3. TypeOK /\ DiscardInv /\ SessionsHold => AdmittedSessionKept
  BY DEF TypeOK, SessionsTypeOK, SessionEquipped, DiscardInv, PublishedNamesObject, Present,
         SessionsHold, AdmittedSessionKept, StoreTypeOK, StoredLease, WellFormed
<1> QED  BY <1>1, <1>2, <1>3, HandoffTypeOK, DispatchHolds, DiscardHolds, PTL DEF Spec

-----------------------------------------------------------------------------
\* The refinement of LeaseLifecycle.

\* The ways a step changes the lease, as the record sees them.
LeaseFollows ==
  \/ lease' = lease
  \/ \E a \in Attempts :
       /\ lease' = Staged(a)
       /\ lease = None \/ (lease # None /\ lease.releasing /\ Purged(lease.attempt, {}))
  \/ \E c \in Callers :
       /\ lease # None /\ lease.staging /\ lease.dispatch = None /\ ~lease.releasing
       /\ lease' = Dispatched(lease, c)
  \/ \E s \in Servers :
       /\ lease # None /\ Quarantined(lease) /\ Present(s) /\ server[s].attempt = lease.attempt
       /\ lease' = Published(lease.attempt, s)
  \/ /\ lease # None /\ ~lease.staging /\ ~lease.releasing
     /\ lease' = Admitted(lease)
  \/ /\ lease # None /\ ~lease.releasing /\ ~lease.claimed
     /\ lease' = Fenced(lease)
  \/ /\ lease # None /\ ~lease.releasing /\ lease.claimed
     /\ lease' = Ended(lease)
  \/ /\ lease # None /\ lease.releasing /\ Purged(lease.attempt, {})
     /\ lease' = None

\* A step of a call.
LEMMA CallFollows ==
  ASSUME "late" \notin Anomalies, CallTypes, DispatchInv, DiscardInv,
         NEW c \in Callers, CallFrame(c), CallPurges(c)
  PROVE  LeaseFollows
<1> USE DEF CallTypes
<1>1. /\ obs[c] \in StoredLease \cup {None} /\ req[c] \in Attempts
      /\ target[c] \in Servers \cup {None} /\ Equipped(pc[c], obs[c], target[c])
      /\ CallInv(c) /\ CallDiscards(c) /\ LeaseMove(c)
  BY CallTyped DEF DispatchInv, DiscardInv, CallFrame
<1>2. CASE pc[c] = "stage" /\ lease' = Staged(req[c]) /\ lease = obs[c]
  BY <1>1, <1>2 DEF LeaseFollows, CallDiscards, CallPurges
<1>3. CASE pc[c] = "dispatch" /\ lease = obs[c] /\ lease' = Dispatched(obs[c], c)
  BY <1>1, <1>3 DEF LeaseFollows, CallInv, LeaseInHand, Equipped
<1>4. CASE pc[c] = "finalize" /\ lease = obs[c] /\ lease' = Published(req[c], target[c])
  <2>1. /\ lease # None /\ Quarantined(lease) /\ lease.attempt = req[c] /\ target[c] \in Servers
        /\ server[target[c]].attempt = req[c]
    BY <1>1, <1>4 DEF CallInv, LeaseInHand, ObjectInHand, CallDiscards, Equipped
  <2>2. ~Over(req[c])
    BY <2>1 DEF Over, HoldsAttempt, Quarantined
  <2>3. Present(target[c])
    BY <1>1, <1>4, <2>2 DEF CallDiscards
  <2> QED  BY <1>4, <2>1, <2>3 DEF LeaseFollows
<1>5. CASE /\ pc[c] \in {"steal", "unallocated", "fence"}
           /\ lease = obs[c] /\ ~lease.releasing /\ ~lease.claimed /\ lease' = Fenced(obs[c])
  BY <1>1, <1>5 DEF LeaseFollows, Equipped
<1>6. CASE pc[c] = "remove" /\ HoldsAttempt(req[c]) /\ ~lease.claimed /\ lease' = None
  BY <1>1, <1>6 DEF LeaseFollows, CallInv, RemovedFenced, Removing, HoldsAttempt, CallPurges
<1> QED  BY <1>1, <1>2, <1>3, <1>4, <1>5, <1>6 DEF LeaseMove, LeaseFollows

\* Fencing a fenced lease changes nothing.
LEMMA FencedTwice == ASSUME NEW l \in Lease, l.releasing PROVE Fenced(l) = l
BY DEF Lease, Fenced

\* A step of a sweep, a session or anything else.
LEMMA AsideFollows ==
  ASSUME TypeOK, RecordInv, Sweeps \/ Reaps \/ Plays \/ Environment \/ UNCHANGED vars
  PROVE  LeaseFollows
<1> USE DEF TypeOK
<1>1. CASE Sweeps
  <2>1. PICK w \in Sweepers : SweepStep(w) \/ SweepFails(w)
    BY <1>1 DEF Sweeps
  <2>2. SweepEquipped(swPc[w], swObs[w]) /\ SweepPurges(w)
    BY DEF SweepersTypeOK, RecordInv
  <2>3. CASE SweepFences(w)
    <3>1. \/ lease' = lease
          \/ /\ lease # None /\ ~lease.claimed /\ lease' = Fenced(lease)
      BY <2>2, <2>3
      DEF SweepFences, WriteExact, Commits, StorageFails, Settles, SweepEquipped
    <3>2. lease # None => lease \in Lease
      BY StoredLeases DEF StoreTypeOK
    <3> QED  BY <3>1, <3>2, FencedTwice DEF LeaseFollows
  <2>4. CASE SweepRemoves(w)
    BY <2>2, <2>4
    DEF SweepRemoves, WriteExact, Commits, StorageFails, Settles, SweepEquipped, SweepPurges,
        LeaseFollows
  <2>5. CASE lease' = lease
    BY <2>5 DEF LeaseFollows
  <2> QED
    BY <2>1, <2>3, <2>4, <2>5
    DEF SweepStep, SweepLists, SweepChecks, SweepListsAttempt, SweepDeletes, SweepCleaned,
        SweepFails, storeVars
<1>2. CASE Plays
  <2>1. PICK z \in Sessions : SessionStep(z, handed) \/ ClaimFails(z)
    BY <1>2 DEF Plays
  <2>2. SessionEquipped(sPc[z], sObs[z]) /\ SessionPurges(z)
    BY DEF SessionsTypeOK, RecordInv
  <2>3. CASE ClaimWrites(z)
    BY <2>2, <2>3
    DEF ClaimWrites, ClaimByKey, Commits, StorageFails, Settles, SessionEquipped, storeVars,
        LeaseFollows
  <2>4. CASE EndFences(z)
    <3>1. \/ lease' = lease
          \/ lease # None /\ lease.claimed /\ lease' = Ended(lease)
      BY <2>2, <2>4
      DEF EndFences, WriteExact, Commits, StorageFails, Settles, SessionEquipped
    <3>2. lease # None => WellFormed(lease)
      BY StoredLeases DEF StoreTypeOK
    <3> QED  BY <3>1, <3>2 DEF LeaseFollows, WellFormed
  <2>5. CASE EndRemoves(z)
    BY <2>2, <2>5
    DEF EndRemoves, WriteExact, Commits, StorageFails, Settles, SessionEquipped, SessionPurges,
        LeaseFollows
  <2>6. CASE lease' = lease
    BY <2>6 DEF LeaseFollows
  <2> QED
    BY <2>1, <2>3, <2>4, <2>5, <2>6
    DEF SessionStep, ClaimLoads, ClaimResolves, SessionEnds, EndDeletes, ClaimFails, storeVars
<1>3. CASE Reaps \/ Environment \/ UNCHANGED vars
  <2>1. lease' = lease
    BY <1>3
    DEF Reaps, ReaperStep, ScanObjects, ScanLeases, ReclaimReads, ReclaimDeletes, SweepEnds,
        GraceElapses, ReaperFails, storeVars, Environment, Expire, vars
  <2> QED  BY <2>1 DEF LeaseFollows
<1> QED  BY <1>1, <1>2, <1>3

\* Every step.
LEMMA StepFollows ==
  ASSUME "late" \notin Anomalies, TypeOK, DispatchInv, DiscardInv, RecordInv, [Next]_vars
  PROVE  LeaseFollows
<1>1. CASE Calls
  <2>1. PICK c \in Callers : CallFrame(c)
    BY <1>1, CallFramed DEF Calls, TypeOK, CallTypes
  <2> QED  BY <2>1, CallFollows DEF TypeOK, CallTypes, RecordInv
<1> QED  BY <1>1, AsideFollows DEF Next

\* The allocator holds the request of the stored dispatch, which keeps the lease.
LEMMA RequestsHeld ==
  ASSUME "late" \notin Anomalies, TypeOK, DispatchInv, DiscardInv, RecordInv, [Next]_vars
  PROVE  InflightQuarantined'
<1> USE DEF TypeOK, CallTypes
<1>1. ASSUME NEW a \in inflight, a \in inflight'
      PROVE  lease' = lease
  <2>1. /\ HoldsAttempt(a) /\ Quarantined(lease)
        /\ \A s \in Servers : server[s].attempt # a
    BY DEF RecordInv, InflightQuarantined, DiscardInv, InflightUnmet
  <2>2. CASE AsideFrame
    BY <2>1, <2>2 DEF AsideFrame, HoldsAttempt
  <2>3. CASE Calls
    <3>1. PICK c \in Callers : CallFrame(c) /\ CallInv(c) /\ c \in Callers
      BY <2>3, CallFramed DEF Calls, DispatchInv
    <3>2. Equipped(pc[c], obs[c], target[c]) /\ target[c] \in Servers \cup {None}
      BY <3>1, CallTyped
    <3>3. CASE pc[c] \in {"stage", "dispatch", "steal"}
      BY <2>1, <3>1, <3>3
      DEF CallFrame, LeaseMove, CallInv, LeaseInHand, Quarantined, HoldsAttempt
    <3>4. CASE pc[c] \in {"finalize", "unallocated", "fence"}
      BY <2>1, <3>1, <3>2, <3>4
      DEF CallFrame, LeaseMove, CallInv, LeaseInHand, ObjectInHand, RequestOwned, Equipped,
          HoldsAttempt
    <3>5. CASE pc[c] = "remove"
      BY <2>1, <3>1, <3>5
      DEF CallFrame, LeaseMove, CallInv, RemovedFenced, Removing, Quarantined, HoldsAttempt
    <3> QED  BY <3>1, <3>3, <3>4, <3>5 DEF CallFrame, LeaseMove
  <2>4. CASE UNCHANGED vars
    BY <2>4 DEF vars, storeVars
  <2> QED
    BY <2>2, <2>3, <2>4, SweepsAside, ReapsAside, PlaysAside, EnvironmentAside
    DEF Next, DispatchInv
<1>2. ASSUME NEW a, a \in inflight', a \notin inflight
      PROVE  lease' = lease /\ HoldsAttempt(a) /\ Quarantined(lease)
  <2>1. ~AsideFrame /\ inflight' # inflight
    BY <1>2 DEF AsideFrame
  <2>2. Calls
    BY <2>1, SweepsAside, ReapsAside, PlaysAside, EnvironmentAside
    DEF Next, DispatchInv, vars, fleetVars
  <2>3. PICK c \in Callers : CallFrame(c) /\ CallInv(c)
    BY <2>2, CallFramed DEF Calls, DispatchInv
  <2>4. pc[c] = "rpc" /\ a = req[c]
    BY <1>2, <2>3 DEF CallFrame, InflightMoves
  <2> QED  BY <2>3, <2>4 DEF CallFrame, LeaseMove, CallInv, OwnDispatch
<1>3. \A a \in inflight' : lease' = lease /\ HoldsAttempt(a) /\ Quarantined(lease)
  BY <1>1, <1>2 DEF RecordInv, InflightQuarantined
<1> QED  BY <1>3 DEF InflightQuarantined, HoldsAttempt, Quarantined

\* No step writes the lease and touches an object.
LEMMA MovesApart == ASSUME [Next]_vars PROVE UNCHANGED lease \/ UNCHANGED server
<1>1. CASE Calls
  BY <1>1
  DEF Calls, CallerStep, AllocateLoads, StealFences, StageAttempt, DispatchAttempt, ObserveAttempt,
      SendAllocation, AllocationAnswered, AllocationRefused, ObserveDispatched, AdoptServer,
      FinalizeAttempt, CheckProgress, ResolveLease, FenceUnallocated, ReloadUnallocated,
      ReconcileLoads, ReconcileFences, ListAttempt, DeleteDoomed, CleanupReturns, ForgetAttempt,
      ReturnHandoff, StepFails, Crash
<1>2. CASE Sweeps
  BY <1>2
  DEF Sweeps, SweepStep, SweepLists, SweepFences, SweepChecks, SweepListsAttempt, SweepDeletes,
      SweepCleaned, SweepRemoves, SweepFails, storeVars, fleetVars
<1>3. CASE Reaps
  BY <1>3
  DEF Reaps, ReaperStep, ScanObjects, ScanLeases, ReclaimReads, ReclaimDeletes, SweepEnds,
      GraceElapses, ReaperFails, storeVars
<1>4. CASE Plays
  BY <1>4
  DEF Plays, SessionStep, ClaimLoads, ClaimResolves, ClaimWrites, SessionEnds, EndFences,
      EndDeletes, EndRemoves, ClaimFails, storeVars, fleetVars
<1> QED  BY <1>1, <1>2, <1>3, <1>4 DEF Next, Environment, Expire, storeVars, vars

-----------------------------------------------------------------------------
\* What an object acquired by a step is acquired for.
LEMMA Acquires ==
  ASSUME TypeOK, DispatchInv, DiscardInv, RecordInv, [Next]_vars,
         NEW s \in Servers, Present(s)'
  PROVE  \/ Present(s) /\ server'[s].attempt = server[s].attempt
         \/ /\ UNCHANGED lease /\ HoldsAttempt(server'[s].attempt) /\ Quarantined(lease)
            /\ server'[s].attempt # None
<1> USE DEF TypeOK
<1>1. ASSUME NEW t \in Servers, DeleteServer(t) \/ ServerFails(t)
      PROVE  Present(s) /\ server'[s].attempt = server[s].attempt
  BY <1>1 DEF FleetTypeOK, DeleteServer, ServerFails, Present
<1>2. ASSUME NEW a, AllocatorCommits(a), ~Present(s)
      PROVE  server'[s].attempt = a /\ a \in inflight /\ server' # server
  BY <1>2 DEF FleetTypeOK, AllocatorCommits, Present
<1>3. ASSUME NEW a, AllocatorCommits(a), Present(s)
      PROVE  server'[s].attempt = server[s].attempt
  BY <1>3 DEF FleetTypeOK, AllocatorCommits, Present
<1>4. \A a \in inflight : HoldsAttempt(a) /\ Quarantined(lease) /\ a # None
  BY NoneIsFresh DEF RecordInv, InflightQuarantined, FleetTypeOK
<1> QED  BY <1>1, <1>2, <1>3, <1>4, FleetMoves, MovesApart DEF Present

\* What is purged stays purged: nothing is acquired for an attempt that is over.
LEMMA PurgedKept ==
  ASSUME TypeOK, DispatchInv, DiscardInv, RecordInv, [Next]_vars, NEW a, NEW left, Purged(a, left)
  PROVE  Purged(a, left)'
<1>1. Over(a)'
  BY StepSteady DEF Purged, Steady
<1>2. ASSUME NEW s \in Servers, Present(s)', server'[s].attempt = a
      PROVE  Present(s) /\ server[s].attempt = a
  BY <1>2, Acquires DEF Purged, Over, HoldsAttempt, Quarantined
<1> QED  BY <1>1, <1>2 DEF Purged

\* A deleted object is not left.
LEMMA PurgedDeleted ==
  ASSUME TypeOK, DispatchInv, DiscardInv, RecordInv, [Next]_vars, NEW a, NEW left, Purged(a, left),
         NEW s \in Servers, DeleteServer(s)
  PROVE  Purged(a, left \ {s})'
<1>1. ~Present(s)'
  BY DEF TypeOK, FleetTypeOK, DeleteServer, Present
<1> QED  BY <1>1, PurgedKept DEF Purged

\* Every object stays on record.
LEMMA RecordKept ==
  ASSUME "late" \notin Anomalies, TypeOK, DispatchInv, DiscardInv, RecordInv, [Next]_vars
  PROVE  ObjectsOnRecord'
<1> SUFFICES ASSUME NEW s \in Servers, Present(s)' PROVE HoldsAttempt(server[s].attempt)'
  BY DEF ObjectsOnRecord
<1>1. CASE UNCHANGED lease /\ HoldsAttempt(server'[s].attempt)
  BY <1>1 DEF HoldsAttempt
<1>2. CASE Present(s) /\ server'[s].attempt = server[s].attempt
  <2>1. lease # None /\ lease.attempt = server[s].attempt /\ ~Purged(lease.attempt, {})
    BY <1>2 DEF RecordInv, ObjectsOnRecord, HoldsAttempt, Purged
  <2>2. LeaseFollows /\ lease \in Lease /\ lease \in StoredLease
    BY <2>1, StepFollows, StoredLeases DEF TypeOK, StoreTypeOK
  <2>3. lease' # None
    <3>1. WellFormed(lease) /\ lease.attempt \in Attempts
      BY <2>2, StoredLeases DEF Lease
    <3> QED  BY <2>1, <2>2, <3>1, LeaseShapes DEF LeaseFollows
  <2>4. lease'.attempt = lease.attempt
    BY <2>1, <2>2, LeaseUpdates DEF LeaseFollows, Published
  <2> QED  BY <1>2, <2>1, <2>3, <2>4 DEF HoldsAttempt
<1> QED  BY <1>1, <1>2, Acquires

-----------------------------------------------------------------------------
\* A call on no way to forgetting or replacing a lease has nothing to purge.
Elsewhere(label, next, l) ==
  /\ label # "remove"
  /\ label \in {"list", "delete"} => next \notin {"stage", "remove"}
  /\ label = "stage" => l = None

\* So nothing is asked of it.
LEMMA ElsewherePurges ==
  ASSUME NEW c \in Callers, Elsewhere(pc'[c], after'[c], obs'[c]) PROVE CallPurges(c)'
BY DEF Elsewhere, CallPurges, Removing

\* Most steps of a call lead elsewhere.
LEMMA MostElsewhere ==
  ASSUME CallTypes, NEW c \in Callers, CallDiscards(c),
         CallerStep(c) \/ StepFails(c) \/ Crash(c)
  PROVE  \/ Elsewhere(pc'[c], after'[c], obs'[c])
         \/ StealFences(c) \/ ReconcileFences(c) \/ ListAttempt(c) \/ DeleteDoomed(c)
         \/ CleanupReturns(c)
<1> USE ControlValues DEF CallTypes, Elsewhere
<1>1. CASE Retain(c) \/ Fail(c) \/ LeaveReconcile(c)
  BY <1>1 DEF Retain, Fail, LeaveReconcile
<1>2. CASE AllocateLoads(c)
  BY <1>1, <1>2 DEF AllocateLoads, CallDiscards
<1>3. CASE StageAttempt(c)
  BY <1>1, <1>3 DEF StageAttempt
<1>4. CASE DispatchAttempt(c)
  BY <1>1, <1>4 DEF DispatchAttempt, MayAllocate
<1>5. CASE ObserveAttempt(c) \/ ObserveDispatched(c)
  BY <1>5 DEF ObserveAttempt, ObserveDispatched
<1>6. CASE SendAllocation(c) \/ AllocationAnswered(c) \/ AllocationRefused(c)
  BY <1>6 DEF SendAllocation, AllocationAnswered, AllocationRefused
<1>7. CASE AdoptServer(c)
  BY <1>7 DEF AdoptServer
<1>8. CASE FinalizeAttempt(c)
  BY <1>8 DEF FinalizeAttempt
<1>9. CASE CheckProgress(c)
  BY <1>1, <1>9 DEF CheckProgress
<1>10. CASE ResolveLease(c)
  BY <1>1, <1>10 DEF ResolveLease
<1>11. CASE FenceUnallocated(c) \/ ReloadUnallocated(c)
  <2>1. pc'[c] \in {"reconcile", "progress", "reload", "unallocated"}
    BY <1>11 DEF FenceUnallocated, ReloadUnallocated
  <2> QED  BY <2>1
<1>12. CASE ReconcileLoads(c)
  BY <1>1, <1>12 DEF ReconcileLoads
<1>13. CASE ForgetAttempt(c)
  BY <1>1, <1>13 DEF ForgetAttempt
<1>14. CASE ReturnHandoff(c)
  BY <1>1, <1>14 DEF ReturnHandoff
<1>15. CASE StepFails(c)
  BY <1>1, <1>15 DEF StepFails, CallersTypeOK
<1>16. CASE Crash(c)
  BY <1>16 DEF Crash, CallersTypeOK
<1> QED
  BY <1>2, <1>3, <1>4, <1>5, <1>6, <1>7, <1>8, <1>9, <1>10, <1>11, <1>12, <1>13, <1>14, <1>15,
     <1>16 DEF CallerStep

\* The resource of a lease is the only object of its attempt.
LEMMA ReleasePurges ==
  ASSUME CallTypes, OneObject, NEW c \in Callers, NEW l \in Lease, NEW next,
         ReleaseResource(c, l, next), UNCHANGED <<server, req>>, Over(l.attempt)',
         l.server # None => server[l.server].attempt = l.attempt,
         next = "remove" => l.attempt = req[c]
  PROVE  CallPurges(c)'
<1> USE ControlValues DEF CallTypes
<1>1. /\ pc'[c] \in {"list", "delete"} /\ after'[c] = next /\ obs'[c] = l
      /\ l # None /\ l.attempt # None
  BY NoneIsNoLease, NoneIsFresh DEF Lease
<1>2. pc'[c] = "delete" =>
        l.server \in Servers /\ doomed'[c] = {s \in Servers : s = l.server /\ server[s].attempt = l.attempt}
  BY DEF ReleaseResource, Doom, CallersTypeOK, Lease
<1>3. pc'[c] = "delete" => \A s \in Servers : server[s].attempt = l.attempt => s \in doomed'[c]
  BY <1>1, <1>2, NoneIsFresh DEF OneObject
<1>4. pc'[c] = "delete" => Purged(obs[c].attempt, doomed[c])'
  BY <1>1, <1>3 DEF Purged, Over, HoldsAttempt
<1>5. (Removing(c) => obs[c] # None /\ obs[c].attempt = req[c])'
  BY <1>1 DEF Removing
<1> QED  BY <1>1, <1>4, <1>5 DEF CallPurges

\* Taking over and reconciling purge the lease they fence.
LEMMA FencingPurges ==
  ASSUME TypeOK, TypeOK', DispatchInv, DispatchInv', DiscardInv, DiscardInv', RecordInv, [Next]_vars,
         NEW c \in Callers, StealFences(c) \/ ReconcileFences(c)
  PROVE  CallPurges(c)'
<1> USE ControlValues DEF TypeOK, CallTypes
<1>1. /\ obs[c] \in StoredLease /\ req[c] \in Attempts /\ target[c] \in Servers \cup {None}
      /\ CallInv(c) /\ OneObject
  BY CallTyped DEF StealFences, ReconcileFences, Equipped, DispatchInv, DiscardInv
<1>2. CASE Fail(c) \/ LeaveReconcile(c)
  <2>1. Elsewhere(pc'[c], after'[c], obs'[c])
    BY <1>2 DEF Fail, LeaveReconcile, Retain, Elsewhere
  <2> QED  BY <2>1, ElsewherePurges
<1>3. CASE BeginRelease(obs[c], "ok") /\ UNCHANGED req
           /\ \/ StealFences(c) /\ ReleaseResource(c, lease', "stage")
              \/ /\ ReconcileFences(c)
                 /\ ReleaseResource(c, IF target[c] = None THEN lease'
                                       ELSE Published(req[c], target[c]), "remove")
  <2>1. /\ lease' # None /\ lease'.releasing /\ lease' \in Lease /\ WellFormed(lease')
        /\ lease'.attempt = obs[c].attempt
    BY <1>1, <1>3, BeginReleaseTyped, WrittenLeases, StoredLeases
    DEF BeginRelease, Commits, StorageFails, Settles, HoldsAttempt, StoreTypeOK
  <2>2. lease'.server # None => server'[lease'.server].attempt = lease'.attempt
    BY <2>1 DEF DiscardInv, PublishedNamesObject, WellFormed
  <2>3. UNCHANGED <<server, req>>
    BY <1>3 DEF StealFences, ReconcileFences
  <2>4. CASE StealFences(c) /\ ReleaseResource(c, lease', "stage")
    <3>1. PICK l : l = lease'
      OBVIOUS
    <3>2. Over(l.attempt)'
      BY <2>1, <3>1, OverWhenNext
    <3> QED  BY <1>1, <2>1, <2>2, <2>3, <2>4, <3>1, <3>2, ReleasePurges
  <2>5. CASE /\ ReconcileFences(c)
             /\ ReleaseResource(c, IF target[c] = None THEN lease'
                                   ELSE Published(req[c], target[c]), "remove")
    <3>1. obs[c].attempt = req[c] /\ (target[c] # None => server[target[c]].attempt = req[c])
      BY <1>1, <2>5 DEF ReconcileFences, CallInv, LeaseInHand, ObjectInHand
    <3>2. PICK l : l = IF target[c] = None THEN lease' ELSE Published(req[c], target[c])
      OBVIOUS
    <3>3. /\ l \in Lease /\ l.attempt = req[c]
          /\ l.server # None => server[l.server].attempt = l.attempt
      BY <1>1, <2>1, <2>2, <2>3, <3>1, <3>2 DEF Published, Lease
    <3>4. PICK a : a = req[c]
      OBVIOUS
    <3>5. Over(a)'
      BY <2>1, <3>1, <3>4, OverWhenNext
    <3>6. Over(l.attempt)'
      BY <3>3, <3>4, <3>5
    <3> QED  BY <1>1, <2>3, <2>5, <3>2, <3>3, <3>6, ReleasePurges
  <2> QED  BY <1>3, <2>4, <2>5
<1> QED  BY <1>2, <1>3 DEF StealFences, ReconcileFences

\* Listing the attempt, deleting its objects one by one and coming to the end.
LEMMA CleaningPurges ==
  ASSUME TypeOK, DispatchInv, DiscardInv, RecordInv, [Next]_vars,
         NEW c \in Callers, ListAttempt(c) \/ DeleteDoomed(c) \/ CleanupReturns(c)
  PROVE  CallPurges(c)'
<1> USE ControlValues DEF TypeOK, CallTypes
<1>1. CallPurges(c) /\ CallDiscards(c)
  BY DEF RecordInv, DiscardInv
<1>2. PICK a, left : a = obs[c].attempt /\ left = doomed[c]
  OBVIOUS
<1>3. CASE ListAttempt(c)
  <2>1. /\ pc[c] = "list" /\ pc'[c] = "delete" /\ doomed'[c] = Labelled(a)
        /\ UNCHANGED <<server, req, obs, after>>
    BY <1>2, <1>3 DEF ListAttempt, CallersTypeOK
  <2>2. Over(a)'
    BY <1>1, <1>2, <2>1, StepSteady DEF CallDiscards, Steady
  <2>3. Purged(obs[c].attempt, doomed[c])'
    BY <1>2, <2>1, <2>2 DEF Purged, Labelled, Present, Over, HoldsAttempt
  <2> QED  BY <1>1, <2>1, <2>3 DEF CallPurges, Removing
<1>4. CASE DeleteDoomed(c)
  <2>1. PICK s \in left :
          /\ doomed' = [doomed EXCEPT ![c] = @ \ {s}]
          /\ \/ DeleteServer(s) /\ UNCHANGED after
             \/ after' = [after EXCEPT ![c] = CASE @ = "stage"  -> "fail"
                                                [] @ = "remove" -> "leave"
                                                [] OTHER        -> @]
    BY <1>2, <1>4 DEF DeleteDoomed
  <2>2. /\ pc[c] = "delete" /\ UNCHANGED <<pc, req, obs>> /\ doomed'[c] = left \ {s}
        /\ s \in Servers
    BY <1>2, <1>4, <2>1 DEF DeleteDoomed, CallersTypeOK
  <2>3. CASE after'[c] \notin {"stage", "remove"}
    BY <2>2, <2>3, ElsewherePurges DEF Elsewhere
  <2>4. CASE DeleteServer(s) /\ UNCHANGED after /\ after[c] \in {"stage", "remove"}
    <3>1. Purged(a, left)
      BY <1>1, <1>2, <2>2, <2>4 DEF CallPurges
    <3>2. Purged(a, left \ {s})'
      BY <2>2, <2>4, <3>1, PurgedDeleted
    <3>3. Purged(obs[c].attempt, doomed[c])'
      BY <1>2, <2>2, <3>2 DEF Purged, Over, HoldsAttempt
    <3> QED  BY <1>1, <2>2, <2>4, <3>3 DEF CallPurges, Removing
  <2>5. after'[c] \in {after[c], "fail", "leave"}
    BY <2>1 DEF CallersTypeOK
  <2>6. (DeleteServer(s) /\ UNCHANGED after) \/ after'[c] \notin {"stage", "remove"}
    BY <2>1 DEF CallersTypeOK
  <2> QED  BY <2>3, <2>4, <2>6
<1>5. CASE CleanupReturns(c)
  <2>1. /\ pc[c] = "delete" /\ left = {} /\ UNCHANGED <<server, lease>>
        /\ after[c] \in Continuations
    BY <1>2, <1>5, CallTyped DEF CleanupReturns
  <2>2. CASE after[c] \in {"stage", "remove"}
    <3>1. pc'[c] = after[c] /\ UNCHANGED <<req, obs>>
      BY <1>5, <2>2 DEF CleanupReturns
    <3>2. Purged(a, {})
      BY <1>1, <1>2, <2>1, <2>2 DEF CallPurges
    <3>3. Purged(a, {})'
      BY <3>2, PurgedKept
    <3>4. Purged(obs[c].attempt, {})'
      BY <1>2, <3>1, <3>3 DEF Purged, Over, HoldsAttempt
    <3> QED  BY <1>1, <2>1, <2>2, <3>1, <3>4 DEF CallPurges, Removing
  <2>3. CASE after[c] \notin {"stage", "remove"}
    <3>1. pc'[c] \in {"progress", "reconcile", "failed"}
      BY <1>5, <2>1, <2>3 DEF CleanupReturns, LeaveReconcile, Retain, Fail, Continuations
    <3> QED  BY <3>1, ElsewherePurges DEF Elsewhere
  <2> QED  BY <2>2, <2>3
<1> QED  BY <1>3, <1>4, <1>5

\* Every call keeps what it has purged.
LEMMA CallsPurge ==
  ASSUME TypeOK, TypeOK', DispatchInv, DispatchInv', DiscardInv, DiscardInv', RecordInv, [Next]_vars
  PROVE  \A d \in Callers : CallPurges(d)'
<1> USE DEF TypeOK, CallTypes
<1>1. ASSUME NEW d \in Callers, pc'[d] = pc[d], req'[d] = req[d], obs'[d] = obs[d],
             after'[d] = after[d], doomed'[d] = doomed[d]
      PROVE  CallPurges(d)'
  <2>1. PICK a, left : a = obs[d].attempt /\ left = doomed[d]
    OBVIOUS
  <2>2. CallPurges(d)
    BY DEF RecordInv
  <2>3. pc[d] = "delete" /\ after[d] \in {"stage", "remove"} => Purged(a, left)'
    BY <2>1, <2>2, PurgedKept DEF CallPurges
  <2>4. pc[d] = "remove" \/ (pc[d] = "stage" /\ obs[d] # None) => Purged(a, {})'
    BY <2>1, <2>2, PurgedKept DEF CallPurges
  <2> QED  BY <1>1, <2>1, <2>2, <2>3, <2>4 DEF CallPurges, Purged, Over, HoldsAttempt, Removing
<1>2. CASE UNCHANGED callerVars
  BY <1>1, <1>2 DEF callerVars
<1>3. CASE Calls
  <2>1. PICK c \in Callers : CallerStep(c) \/ StepFails(c) \/ Crash(c)
    BY <1>3 DEF Calls
  <2>2. CallFrame(c) /\ \A d \in Callers \ {c} : doomed'[d] = doomed[d]
    BY <2>1, CallFramed, CallMoves
  <2>3. \A d \in Callers \ {c} : CallPurges(d)'
    BY <1>1, <2>2 DEF CallFrame, OthersKept
  <2>4. CallPurges(c)'
    BY <2>1, MostElsewhere, ElsewherePurges, FencingPurges, CleaningPurges DEF DiscardInv
  <2> QED  BY <2>3, <2>4
<1> QED  BY <1>2, <1>3 DEF Next, Sweeps, Reaps, Plays, Environment, vars

\* So does every sweep: it deletes the only object of the lease it has checked.
LEMMA SweepsPurge ==
  ASSUME TypeOK, DispatchInv, DiscardInv, RecordInv, [Next]_vars
  PROVE  \A w \in Sweepers : SweepPurges(w)'
<1> USE DEF TypeOK
<1>1. ASSUME NEW w \in Sweepers, swPc'[w] = swPc[w], swObs'[w] = swObs[w], swDoomed'[w] = swDoomed[w]
      PROVE  SweepPurges(w)'
  <2>1. PICK a, left : a = swObs[w].attempt /\ left = swDoomed[w]
    OBVIOUS
  <2>2. /\ swPc[w] = "delete" /\ swObs[w] # None => Purged(a, left)'
        /\ swPc[w] = "remove" => Purged(a, {})'
    BY <2>1, PurgedKept DEF RecordInv, SweepPurges
  <2> QED  BY <1>1, <2>1, <2>2 DEF SweepPurges, Purged, Over, HoldsAttempt
<1>2. CASE UNCHANGED sweepVars
  BY <1>1, <1>2 DEF sweepVars
<1>3. CASE Sweeps
  <2>1. PICK w \in Sweepers : SweepStep(w) \/ SweepFails(w)
    BY <1>3 DEF Sweeps
  <2>2. \A v \in Sweepers \ {w} : /\ swPc'[v] = swPc[v] /\ swObs'[v] = swObs[v]
                                  /\ swDoomed'[v] = swDoomed[v]
    BY <2>1
    DEF SweepStep, SweepLists, SweepFences, SweepChecks, SweepListsAttempt, SweepDeletes,
        SweepCleaned, SweepRemoves, SweepFails, SweepRests, SweepGoto, SweepersTypeOK
  <2>3. ASSUME swPc'[w] \notin {"delete", "remove"}
        PROVE  SweepPurges(w)'
    BY <2>3 DEF SweepPurges
  <2>4. PICK a, left : a = swObs[w].attempt /\ left = swDoomed[w]
    OBVIOUS
  <2>5. SweepEquipped(swPc[w], swObs[w]) /\ SweepPurges(w) /\ SweepDiscards(w)
        /\ swObs[w] \in StoredLease \cup {None}
    BY DEF SweepersTypeOK, RecordInv, DiscardInv
  <2>6. SweepPurges(w)'
    <3>1. CASE SweepLists(w) \/ SweepFences(w) \/ SweepRemoves(w) \/ SweepFails(w)
      <4>1. swPc'[w] \notin {"delete", "remove"}
        BY <3>1
        DEF SweepLists, SweepFences, SweepRemoves, SweepFails, SweepRests, SweepGoto,
            SweepersTypeOK
      <4> QED  BY <2>3, <4>1
    <3>2. CASE SweepChecks(w) /\ swPc'[w] = "delete"
      <4>1. /\ lease = swObs[w] /\ swObs[w].server # None /\ UNCHANGED <<server, swObs>>
            /\ swDoomed'[w] = {s \in Servers : s = lease.server /\ server[s].attempt = a}
            /\ swPc[w] = "check"
        BY <2>4, <3>2 DEF SweepChecks, SweepRests, SweepGoto, SweepersTypeOK, fleetVars
      <4>2. /\ lease # None /\ lease \in Lease /\ WellFormed(lease) /\ lease.releasing
            /\ lease.attempt = a
        BY <2>4, <2>5, <4>1, StoredLeases DEF SweepEquipped
      <4>3. server[lease.server].attempt = a /\ a # None /\ lease.server \in Servers
        BY <4>1, <4>2, NoneIsFresh DEF DiscardInv, PublishedNamesObject, WellFormed, Lease
      <4>4. \A s \in Servers : server[s].attempt = a => s \in swDoomed'[w]
        BY <4>1, <4>3 DEF DiscardInv, OneObject
      <4>5. Over(a)'
        BY <4>2, OverWhen, StepSteady DEF Steady, TypeOK
      <4>6. Purged(swObs[w].attempt, swDoomed[w])'
        BY <2>4, <4>1, <4>4, <4>5 DEF Purged, Over, HoldsAttempt
      <4> QED  BY <3>2, <4>6 DEF SweepPurges
    <3>3. CASE SweepListsAttempt(w)
      <4>1. /\ swPc[w] = "list" /\ swPc'[w] = "delete" /\ UNCHANGED <<server, swObs>>
            /\ swDoomed'[w] = Labelled(a)
        BY <2>4, <3>3 DEF SweepListsAttempt, SweepGoto, SweepersTypeOK, fleetVars
      <4>2. Over(a)'
        BY <2>4, <2>5, <4>1, StepSteady DEF SweepDiscards, Steady
      <4>3. Purged(swObs[w].attempt, swDoomed[w])'
        BY <2>4, <4>1, <4>2 DEF Purged, Labelled, Present, Over, HoldsAttempt
      <4> QED  BY <4>1, <4>3 DEF SweepPurges
    <3>4. CASE SweepDeletes(w)
      <4>1. PICK s \in left :
              /\ swDoomed'[w] = left \ {s} /\ s \in Servers
              /\ (DeleteServer(s) /\ swObs' = swObs) \/ swObs'[w] = None
              /\ swPc[w] = "delete" /\ swPc' = swPc
        BY <2>4, <3>4 DEF SweepDeletes, SweepersTypeOK
      <4>2. CASE DeleteServer(s) /\ swObs' = swObs /\ swObs[w] # None
        <5>1. Purged(a, left \ {s})'
          BY <2>4, <2>5, <4>1, <4>2, PurgedDeleted DEF SweepPurges
        <5> QED  BY <2>4, <4>1, <4>2, <5>1 DEF SweepPurges, Purged, Over, HoldsAttempt
      <4> QED  BY <4>1, <4>2 DEF SweepPurges
    <3>5. CASE SweepCleaned(w) /\ swPc'[w] = "remove"
      <4>1. swPc[w] = "delete" /\ left = {} /\ swObs[w] # None /\ swObs' = swObs
        BY <2>4, <3>5 DEF SweepCleaned, SweepRests, SweepGoto, SweepersTypeOK
      <4>2. Purged(a, {})'
        BY <2>4, <2>5, <4>1, PurgedKept DEF SweepPurges
      <4> QED  BY <2>4, <3>5, <4>1, <4>2 DEF SweepPurges, Purged, Over, HoldsAttempt
    <3>6. CASE SweepChecks(w) \/ SweepCleaned(w)
      <4>1. SweepChecks(w) => swPc'[w] # "remove"
        BY DEF SweepChecks, SweepRests, SweepGoto, SweepersTypeOK
      <4>2. SweepCleaned(w) => swPc'[w] # "delete"
        BY DEF SweepCleaned, SweepRests, SweepGoto, SweepersTypeOK
      <4> QED  BY <2>3, <3>2, <3>5, <3>6, <4>1, <4>2
    <3> QED  BY <2>1, <3>1, <3>3, <3>4, <3>6 DEF SweepStep
  <2> QED  BY <1>1, <2>2, <2>6
<1> QED  BY <1>2, <1>3 DEF Next, Calls, Reaps, Plays, Environment, vars

\* And every session, which deletes the object of the lease it has ended.
LEMMA SessionsPurge ==
  ASSUME TypeOK, DispatchInv, DiscardInv, RecordInv, [Next]_vars
  PROVE  \A z \in Sessions : SessionPurges(z)'
<1> USE DEF TypeOK
<1>1. ASSUME NEW z \in Sessions, sPc'[z] = sPc[z], sObs'[z] = sObs[z]
      PROVE  SessionPurges(z)'
  <2>1. PICK a : a = sObs[z].attempt
    OBVIOUS
  <2>2. sPc[z] = "remove" => Purged(a, {})'
    BY <2>1, PurgedKept DEF RecordInv, SessionPurges
  <2> QED  BY <1>1, <2>1, <2>2 DEF SessionPurges, Purged, Over, HoldsAttempt
<1>2. CASE UNCHANGED sessionVars
  BY <1>1, <1>2 DEF sessionVars
<1>3. CASE Plays
  <2>1. PICK z \in Sessions : SessionStep(z, handed) \/ ClaimFails(z)
    BY <1>3 DEF Plays
  <2>2. \A y \in Sessions \ {z} : sPc'[y] = sPc[y] /\ sObs'[y] = sObs[y]
    BY <2>1
    DEF SessionStep, ClaimLoads, ClaimResolves, ClaimWrites, SessionEnds, EndFences, EndDeletes,
        EndRemoves, ClaimFails, SessionGoto, SessionHolds, Refuse, SessionOver, SessionsTypeOK
  <2>3. CASE sPc'[z] # "remove"
    BY <1>1, <2>2, <2>3 DEF SessionPurges
  <2>4. CASE sPc'[z] = "remove"
    <3>1. /\ sPc[z] = "delete" /\ sObs' = sObs /\ DeleteServer(sObs[z].server)
      BY <2>1, <2>4
      DEF SessionStep, ClaimLoads, ClaimResolves, ClaimWrites, SessionEnds, EndFences, EndDeletes,
          EndRemoves, ClaimFails, SessionGoto, SessionHolds, Refuse, SessionOver, SessionsTypeOK
    <3>2. /\ sObs[z] \in Lease /\ WellFormed(sObs[z]) /\ ~sObs[z].staging
          /\ SessionDiscards(z)
      BY <3>1, StoredLeases DEF SessionsTypeOK, SessionEquipped, DiscardInv
    <3>3. PICK a, t : a = sObs[z].attempt /\ t = sObs[z].server
      OBVIOUS
    <3>4. t \in Servers /\ server[t].attempt = a /\ a # None /\ Over(a)
      BY <3>1, <3>2, <3>3, NoneIsFresh DEF SessionDiscards, WellFormed, Lease
    <3>5. Purged(a, {t})
      BY <3>4 DEF Purged, DiscardInv, OneObject
    <3>6. Purged(a, {t} \ {t})'
      BY <3>1, <3>3, <3>4, <3>5, PurgedDeleted
    <3>7. Purged(sObs[z].attempt, {})'
      BY <3>1, <3>3, <3>6 DEF Purged, Over, HoldsAttempt
    <3>8. SessionPurges(z)'
      BY <3>7 DEF SessionPurges
    <3> QED  BY <1>1, <2>2, <3>8
  <2> QED  BY <2>3, <2>4
<1> QED  BY <1>2, <1>3 DEF Next, Calls, Sweeps, Reaps, Environment, vars

\* Initially there is nothing to put on record.
LEMMA RecordInit == ASSUME Init PROVE RecordInv
BY NoneIsFresh
DEF Init, StoreInit, FleetInit, CallerInit, SweepInit, ReaperInit, SessionInit, RecordInv,
    ObjectsOnRecord, InflightQuarantined, CallPurges, SweepPurges, SessionPurges, Present, Removing

\* Every GameServer the allocator committed is on record, and no lease is
\* forgotten or handed on before its object is gone: resource release precedes
\* lease removal in reconcileAttempt, Allocate's takeover, ReclaimExpired and
\* EndSession, and each of them keeps to it when the others run in between.
THEOREM RecordHolds ==
  ASSUME FreshAttempts, Anomalies = {} PROVE Spec => []RecordInv
<1>1. Init => RecordInv
  BY RecordInit
<1>2. TypeOK /\ DispatchInv /\ DiscardInv /\ TypeOK' /\ DispatchInv' /\ DiscardInv' /\ RecordInv
        /\ [Next]_vars => RecordInv'
  <2> SUFFICES ASSUME TypeOK, DispatchInv, DiscardInv, TypeOK', DispatchInv', DiscardInv', RecordInv,
                      [Next]_vars
               PROVE  RecordInv'
    OBVIOUS
  <2>1. ObjectsOnRecord' /\ InflightQuarantined'
    BY RecordKept, RequestsHeld
  <2>2. /\ \A c \in Callers : CallPurges(c)'
        /\ \A w \in Sweepers : SweepPurges(w)'
        /\ \A z \in Sessions : SessionPurges(z)'
    BY CallsPurge, SweepsPurge, SessionsPurge
  <2> QED  BY <2>1, <2>2 DEF RecordInv
<1>3. "copies" \notin Anomalies
  OBVIOUS
<1> QED  BY <1>1, <1>2, <1>3, HandoffTypeOK, DispatchHolds, DiscardHolds, PTL DEF Spec

-----------------------------------------------------------------------------
\* A change of the lease is a step of its life.
LEMMA LeaseLives ==
  ASSUME TypeOK, DispatchInv, DiscardInv, RecordInv, LeaseFollows, UNCHANGED server, lease' # lease
  PROVE  Lifecycle!Next
<1> USE DEF Lifecycle!Next, Lifecycle!Live, Lifecycle!Held, Present
<1>1. lease = None \/ Purged(lease.attempt, {}) => Lifecycle!Free
  BY DEF Lifecycle!Free, RecordInv, ObjectsOnRecord, HoldsAttempt, Purged
<1>2. CASE \E a \in Attempts :
             /\ lease' = Staged(a)
             /\ lease = None \/ (lease # None /\ lease.releasing /\ Purged(lease.attempt, {}))
  BY <1>1, <1>2 DEF Lifecycle!Stage, Staged, Lifecycle!Staged
<1>3. CASE \E c \in Callers :
             /\ lease # None /\ lease.staging /\ lease.dispatch = None /\ ~lease.releasing
             /\ lease' = Dispatched(lease, c)
  BY <1>3 DEF Lifecycle!Dispatch, Dispatched, Lifecycle!Dispatched
<1>4. CASE \E s \in Servers :
             /\ lease # None /\ Quarantined(lease) /\ Present(s) /\ server[s].attempt = lease.attempt
             /\ lease' = Published(lease.attempt, s)
  BY <1>4
  DEF Lifecycle!Publish, Quarantined, Lifecycle!Quarantined, Published, Lifecycle!Published
<1>5. CASE /\ lease # None /\ ~lease.staging /\ ~lease.releasing
           /\ lease' = Admitted(lease)
  BY <1>5 DEF Lifecycle!Claim, Admitted, Lifecycle!Admitted
<1>6. CASE /\ lease # None /\ ~lease.releasing /\ ~lease.claimed
           /\ lease' = Fenced(lease)
  BY <1>6 DEF Lifecycle!Fence, Fenced, Lifecycle!Fenced
<1>7. CASE /\ lease # None /\ ~lease.releasing /\ lease.claimed
           /\ lease' = Ended(lease)
  BY <1>7 DEF Lifecycle!End, Ended, Lifecycle!Ended
<1>8. CASE /\ lease # None /\ lease.releasing /\ Purged(lease.attempt, {})
           /\ lease' = None
  BY <1>1, <1>8 DEF Lifecycle!Forget
<1> QED  BY <1>2, <1>3, <1>4, <1>5, <1>6, <1>7, <1>8 DEF LeaseFollows

\* So is a change of an object.
LEMMA ObjectLives ==
  ASSUME TypeOK, DispatchInv, DiscardInv, RecordInv, [Next]_vars, UNCHANGED lease, server' # server
  PROVE  Lifecycle!Next
<1> USE DEF Lifecycle!Next, Lifecycle!Held, Present
<1>1. server \in [Servers -> [state : ServerStates, attempt : Attempts \cup {None}]]
  BY DEF TypeOK, FleetTypeOK
<1>2. ASSUME NEW s \in Servers, Discardable(s), DeleteServer(s)
      PROVE  Lifecycle!Next
  <2>1. server[s].state # "deleted"
    BY <1>1, <1>2 DEF DeleteServer
  <2>2. server[s].state # "ready"
    BY <1>2 DEF Discardable, DispatchInv, ReadyUnlabelled
  <2>3. Present(s)
    BY <1>1, <2>1, <2>2 DEF ServerStates
  <2>4. lease # None /\ lease.attempt = server[s].attempt /\ lease.releasing
    BY <1>2, <2>3 DEF RecordInv, ObjectsOnRecord, HoldsAttempt, Discardable, Over
  <2> QED  BY <1>2, <2>3, <2>4 DEF Lifecycle!Discard, DeleteServer
<1>3. ASSUME NEW s \in Servers, ServerFails(s)
      PROVE  Lifecycle!Next
  BY <1>3 DEF ServerFails, Lifecycle!Decay
<1>4. ASSUME NEW a, AllocatorCommits(a)
      PROVE  Lifecycle!Next
  <2>1. PICK s \in Servers :
          /\ server[s].state = "ready" /\ a \in inflight
          /\ server' = [server EXCEPT ![s] = [state |-> "allocated", attempt |-> a]]
    BY <1>4 DEF AllocatorCommits
  <2>2. lease # None /\ lease.attempt = a /\ Quarantined(lease)
    BY <2>1 DEF RecordInv, InflightQuarantined, HoldsAttempt
  <2>3. \A other \in Servers : server[other].attempt # lease.attempt
    BY <2>1, <2>2 DEF DiscardInv, InflightUnmet
  <2> QED  BY <2>1, <2>2, <2>3 DEF Lifecycle!Acquire, Quarantined, Lifecycle!Quarantined
<1> QED  BY <1>2, <1>3, <1>4, FleetMoves

\* The refinement: for any number of calls, sweeps, orphan scans, sessions and
\* faults, the durable lease and the GameServers acquired for it live as
\* LeaseLifecycle promises.
THEOREM LifecycleImplemented ==
  ASSUME FreshAttempts, Anomalies = {} PROVE Spec => ImplementsLifecycle
<1>1. Init => Lifecycle!Init
  BY DEF Init, StoreInit, FleetInit, Lifecycle!Init
<1>2. TypeOK /\ DispatchInv /\ DiscardInv /\ RecordInv /\ [Next]_vars
        => [Lifecycle!Next]_(Lifecycle!lifecycleVars)
  BY StepFollows, MovesApart, LeaseLives, ObjectLives DEF Lifecycle!lifecycleVars
<1>3. "copies" \notin Anomalies
  OBVIOUS
<1> QED
  BY <1>1, <1>2, <1>3, HandoffTypeOK, DispatchHolds, DiscardHolds, RecordHolds, PTL
  DEF Spec, ImplementsLifecycle, Lifecycle!Spec

-----------------------------------------------------------------------------
\* A deadline that passed stays passed, unless the attempt is staged.
LEMMA ExpiredKept ==
  ASSUME NEW c \in Callers, CallerStep(c) \/ StepFails(c) \/ Crash(c), NEW a \in expired
  PROVE  a \in expired' \/ (pc[c] = "stage" /\ a = req[c])
<1>1. CASE StageAttempt(c)
  BY <1>1 DEF StageAttempt, Create, Replace
<1>2. CASE StealFences(c) \/ FenceUnallocated(c) \/ ReconcileFences(c)
  BY <1>2 DEF StealFences, FenceUnallocated, ReconcileFences, BeginRelease
<1>3. CASE DispatchAttempt(c) \/ FinalizeAttempt(c) \/ ForgetAttempt(c)
  BY <1>3 DEF DispatchAttempt, FinalizeAttempt, ForgetAttempt, BeginDispatch, Finalize, Release
<1> QED
  BY <1>1, <1>2, <1>3
  DEF CallerStep, AllocateLoads, ObserveAttempt, SendAllocation, AllocationAnswered,
      AllocationRefused, ObserveDispatched, AdoptServer, CheckProgress, ResolveLease,
      ReloadUnallocated, ReconcileLoads, ListAttempt, DeleteDoomed, CleanupReturns,
      ReturnHandoff, StepFails, Crash

\* An attempt that is spent stays spent.
LEMMA SpentKept ==
  ASSUME TypeOK, DispatchInv, DiscardInv, [Next]_vars, NEW a, Spent(a)
  PROVE  Spent(a)'
<1> USE DEF TypeOK, CallTypes
<1>1. CASE Calls
  <2>1. PICK c \in Callers : CallerStep(c) \/ StepFails(c) \/ Crash(c)
    BY <1>1 DEF Calls
  <2>2. /\ CallFrame(c) /\ CallInv(c) /\ CallDiscards(c)
        /\ \A d \in Callers : Staging(d)' => Staging(d)
    BY <2>1, CallFramed, CallMoves DEF DispatchInv, DiscardInv, CallFrame, OthersKept, Staging
  <2>3. /\ obs[c] \in StoredLease \cup {None} /\ req[c] \in Attempts
        /\ Equipped(pc[c], obs[c], target[c])
        /\ target[c] \in Servers \cup {None}
    BY CallTyped
  <2>4. pc[c] = "stage" => req[c] # a
    BY <2>2 DEF CallInv, AttemptUnsent, Staging, Spent
  <2>5. a \in expired => a \in expired'
    BY <2>1, <2>4, ExpiredKept
  <2>6. HoldsAttempt(a)' => lease'.releasing \/ lease'.claimed \/ a \in expired'
    <3>1. CASE lease' = lease
      BY <2>5, <3>1 DEF Spent, HoldsAttempt
    <3>2. CASE pc[c] = "stage" /\ lease' = Staged(req[c])
      BY <2>3, <2>4, <3>2, WrittenLeases DEF HoldsAttempt
    <3>3. CASE pc[c] = "dispatch" /\ lease = obs[c] /\ lease' = Dispatched(obs[c], c)
      <4>1. /\ obs[c] \in StoredLease /\ WellFormed(lease) /\ lease.staging /\ ~lease.releasing
            /\ lease # None
        BY <2>2, <2>3, <3>3, StoredLeases DEF CallInv, LeaseInHand, Equipped
      <4> QED  BY <2>5, <3>3, <4>1, WrittenLeases DEF Spent, HoldsAttempt, WellFormed
    <3>4. CASE pc[c] = "finalize" /\ lease = obs[c] /\ lease' = Published(req[c], target[c])
      <4>1. /\ lease # None /\ lease.attempt = req[c] /\ Quarantined(lease)
        BY <2>2, <3>4 DEF CallInv, LeaseInHand, CallDiscards
      <4>2. WellFormed(lease)
        BY <4>1, StoredLeases DEF StoreTypeOK
      <4> QED
        BY <2>3, <2>5, <3>4, <4>1, <4>2, WrittenLeases
        DEF Spent, HoldsAttempt, WellFormed, Quarantined
    <3>5. CASE /\ pc[c] \in {"steal", "unallocated", "fence"}
               /\ lease = obs[c] /\ lease' = Fenced(obs[c])
      <4>1. obs[c] \in StoredLease
        BY <2>3, <3>5 DEF Equipped
      <4> QED  BY <3>5, <4>1, WrittenLeases
    <3>6. CASE lease' = None
      BY <3>6 DEF HoldsAttempt
    <3> QED  BY <2>2, <3>1, <3>2, <3>3, <3>4, <3>5, <3>6 DEF CallFrame, LeaseMove
  <2> QED  BY <2>2, <2>6 DEF Spent, HoldsAttempt
<1>2. ASSUME AsideFrame PROVE Spent(a)'
  BY <1>2 DEF AsideFrame, callerVars, Spent, Staging, HoldsAttempt
<1>3. CASE Sweeps
  BY <1>2, <1>3, SweepsAside DEF DispatchInv
<1>4. CASE Reaps
  BY <1>2, <1>4, ReapsAside
<1>5. CASE Plays
  BY <1>2, <1>5, PlaysAside
<1>6. CASE Environment
  BY <1>2, <1>6, EnvironmentAside
<1>7. CASE UNCHANGED vars
  BY <1>2, <1>7 DEF vars, storeVars, fleetVars, AsideFrame
<1> QED  BY <1>1, <1>3, <1>4, <1>5, <1>6, <1>7 DEF Next

\* What nobody stages and nobody stores is spent after a step; so is what is
\* stored and past its deadline, claimed or fenced.
LEMMA SpentNext ==
  ASSUME FreshAttempts, DispatchInv'
  PROVE  /\ \A c \in Callers :
              ~Staging(c)' /\ ~HoldsAttempt(AttemptOf[c])' => Spent(AttemptOf[c])'
         /\ lease' # None /\ (lease'.releasing \/ lease'.claimed \/ lease'.attempt \in expired')
              => Spent(lease.attempt)'
         /\ \A c \in Callers :
              /\ ~Staging(c)'
              /\ HoldsAttempt(req[c])' =>
                   lease'.releasing \/ lease'.claimed \/ req'[c] \in expired'
              => Spent(req[c])'
<1>1. \A d \in Callers : Staging(d)' => ~HoldsAttempt(AttemptOf[d])'
                                        /\ \A c \in Callers \ {d} : req'[c] # AttemptOf[d]
  BY DEF DispatchInv, CallInv, AttemptFresh
<1> QED  BY <1>1 DEF Spent, FreshAttempts, HoldsAttempt

\* A lease that has been taken is not the one a call goes on with, for good.
LEMMA OthersSpare ==
  ASSUME FreshAttempts, TypeOK, DispatchInv, DiscardInv, DispatchInv', \A a : Spent(a) => Spent(a)',
         NEW d \in Callers, CallSpares(d),
         pc'[d] = pc[d], req'[d] = req[d], obs'[d] = obs[d], target'[d] = target[d],
         after'[d] = after[d],
         \/ AsideFrame
         \/ \E c \in Callers \ {d} : CallFrame(c)
  PROVE  CallSpares(d)'
<1> USE DEF TypeOK, CallTypes
<1>1. /\ CallInv(d) /\ CallInv(d)' /\ CallDiscards(d) /\ obs[d] \in StoredLease \cup {None}
      /\ req[d] \in Attempts /\ Equipped(pc[d], obs[d], target[d])
  BY CallTyped DEF DispatchInv, DiscardInv
<1>2. lease # None => lease \in StoredLease
  BY DEF StoreTypeOK
<1>3. ASSUME HoldsAttempt(req[d])', lease' # obs[d], lease' # lease
      PROVE  /\ pc[d] = "dispatch" => lease'.releasing
             /\ pc[d] \in Working => lease'.releasing \/ ~lease'.staging
  <2>1. CASE AsideFrame
    <3>1. lease # None /\ lease'.staging = lease.staging /\ lease'.attempt = lease.attempt
          /\ (lease.staging => lease'.releasing)
      BY <1>3, <2>1 DEF AsideFrame, HoldsAttempt
    <3>2. pc[d] = "dispatch" => lease.staging \/ lease.releasing
      BY <1>1, <1>3, <3>1 DEF CallSpares, HoldsAttempt, Equipped
    <3>3. lease.releasing => lease'.releasing
      BY <1>3, <2>1 DEF AsideFrame, HoldsAttempt
    <3> QED  BY <3>1, <3>2, <3>3
  <2>2. ASSUME NEW c \in Callers \ {d}, CallFrame(c)
        PROVE  /\ pc[d] = "dispatch" => lease'.releasing
               /\ pc[d] \in Working => lease'.releasing \/ ~lease'.staging
    <3>0. /\ CallInv(c) /\ CallDiscards(c) /\ obs[c] \in StoredLease \cup {None}
          /\ req[c] \in Attempts /\ Equipped(pc[c], obs[c], target[c]) /\ LeaseMove(c)
      BY <2>2, CallTyped DEF DispatchInv, DiscardInv, CallFrame
    <3>1. CASE pc[c] = "stage" /\ lease' = Staged(req[c])
      <4>1. req[c] = AttemptOf[c] /\ req[d] # AttemptOf[c]
        BY <3>0, <3>1 DEF CallInv, AttemptFresh, AttemptUnsent, Staging
      <4> QED  BY <1>3, <3>0, <3>1, <4>1, WrittenLeases DEF HoldsAttempt
    <3>2. CASE pc[c] = "dispatch" /\ lease = obs[c] /\ lease' = Dispatched(obs[c], c)
      <4>1. obs[c] \in StoredLease /\ lease # None /\ lease.attempt = req[c] /\ ~lease.releasing
            /\ lease.staging /\ lease.dispatch = None
        BY <3>0, <3>2 DEF CallInv, LeaseInHand, Equipped
      <4>2. HoldsAttempt(req[d]) /\ req[d] = req[c]
        BY <1>3, <3>2, <4>1, WrittenLeases DEF HoldsAttempt
      <4>3. pc[d] \notin Working
        <5>1. pc[d] \in Working => Quarantined(obs[d])
          BY <1>1 DEF CallDiscards, Working
        <5>2. pc[d] \in Working => lease # obs[d]
          BY <4>1, <5>1 DEF Quarantined
        <5> QED  BY <1>1, <4>1, <4>2, <5>2 DEF CallSpares
      <4>4. pc[d] # "dispatch"
        BY <1>1, <3>0, <3>2, <4>2 DEF CallInv, AttemptUnsent, AttemptFresh, FreshAttempts
      <4> QED  BY <4>3, <4>4
    <3>3. CASE pc[c] = "finalize" /\ lease = obs[c] /\ lease' = Published(req[c], target[c])
      <4>1. lease # None /\ lease.attempt = req[c] /\ Quarantined(lease)
        BY <3>0, <3>3 DEF CallInv, LeaseInHand, CallDiscards
      <4>2. HoldsAttempt(req[d])
        BY <1>3, <3>0, <3>3, <4>1, WrittenLeases DEF HoldsAttempt
      <4>3. pc[d] # "dispatch"
        BY <1>1, <4>1, <4>2 DEF CallSpares, CallInv, LeaseInHand, Quarantined
      <4> QED  BY <3>3, <4>3 DEF Published
    <3>4. CASE /\ pc[c] \in {"steal", "unallocated", "fence"}
               /\ lease = obs[c] /\ lease' = Fenced(obs[c])
      <4>1. obs[c] \in StoredLease
        BY <3>0, <3>4 DEF Equipped
      <4> QED  BY <3>4, <4>1, WrittenLeases
    <3> QED  BY <1>3, <3>0, <3>1, <3>2, <3>3, <3>4 DEF LeaseMove, HoldsAttempt
  <2> QED  BY <2>1, <2>2
<1>4. HoldsAttempt(req[d])' /\ lease' # obs[d] =>
        /\ pc[d] = "dispatch" => lease'.releasing
        /\ pc[d] \in Working => lease'.releasing \/ ~lease'.staging
  <2>1. CASE lease' = lease
    BY <1>1, <2>1 DEF CallSpares, HoldsAttempt
  <2> QED  BY <1>3, <2>1
<1>5. Cleaning(d)' <=> Cleaning(d)
  BY DEF Cleaning
<1>6. PICK a, b, o : a = req[d] /\ b = AttemptOf[d] /\ o = obs[d].attempt
  OBVIOUS
<1>7. /\ Spent(req[d]) => Spent(req[d])'
      /\ Spent(AttemptOf[d]) => Spent(AttemptOf[d])'
      /\ Spent(obs[d].attempt) => Spent(obs[d].attempt)'
  BY <1>6 DEF Spent, HoldsAttempt
<1> QED  BY <1>1, <1>4, <1>5, <1>7 DEF CallSpares, Working

\* What a call that takes a step goes by: what it had in hand, that no step fails,
\* and that its attempts stay spent.
CallKnows(c) ==
  /\ CallTypes /\ CallInv(c) /\ CallFrame(c) /\ CallDiscards(c) /\ CallSpares(c) /\ ~Fault
  /\ obs[c] \in StoredLease \cup {None} /\ req[c] \in Attempts
  /\ target[c] \in Servers \cup {None} /\ Equipped(pc[c], obs[c], target[c])
  /\ req'[c] = req[c] /\ Spent(req[c]) => Spent(req[c])'
  /\ Spent(AttemptOf[c]) => Spent(AttemptOf[c])'
  /\ Spent(req[c]) => Spent(AttemptOf[c])'

LEMMA CallsKnow ==
  ASSUME TypeOK, DispatchInv, DiscardInv, Spares, ~Fault, \A a : Spent(a) => Spent(a)',
         NEW c \in Callers, CallerStep(c) \/ StepFails(c) \/ Crash(c)
  PROVE  CallKnows(c)
<1>1. CallTypes /\ CallInv(c) /\ CallFrame(c) /\ CallDiscards(c) /\ CallSpares(c) /\ ~Fault
  BY CallFramed DEF TypeOK, CallTypes, DispatchInv, DiscardInv, Spares
<1>2. /\ obs[c] \in StoredLease \cup {None} /\ req[c] \in Attempts
      /\ target[c] \in Servers \cup {None} /\ Equipped(pc[c], obs[c], target[c])
  BY <1>1, CallTyped DEF CallTypes
<1>3. PICK a, b : a = req[c] /\ b = AttemptOf[c]
  OBVIOUS
<1>4. /\ req'[c] = req[c] /\ Spent(req[c]) => Spent(req[c])'
      /\ Spent(AttemptOf[c]) => Spent(AttemptOf[c])'
  BY <1>3 DEF Spent, HoldsAttempt
<1>5. Spent(req[c]) => Spent(AttemptOf[c])'
  BY <1>1, <1>4 DEF CallSpares, Spent, HoldsAttempt
<1> QED  BY <1>1, <1>2, <1>4, <1>5 DEF CallKnows

\* The exits of a call.
LEMMA ExitsSpare ==
  ASSUME NEW c \in Callers, CallKnows(c),
         \/ Retain(c)
         \/ (Fail(c) \/ LeaveReconcile(c)) /\ Spent(AttemptOf[c])'
  PROVE  CallSpares(c)'
<1>1. /\ pc'[c] \in {"failed", "reconcile"} /\ target'[c] = None /\ req'[c] = AttemptOf[c]
      /\ pc'[c] = "reconcile" => Spent(AttemptOf[c])'
  BY DEF CallKnows, CallTypes, CallersTypeOK, Retain, Fail, LeaveReconcile, Goto, Aim
<1>2. pc'[c] = "reconcile" => Spent(req[c])'
  BY <1>1 DEF Spent, HoldsAttempt
<1> QED  BY <1>1, <1>2 DEF CallSpares, Cleaning, Working

\* A call that goes on for its attempt with what it has in hand.
LEMMA WorksSpare ==
  ASSUME NEW c \in Callers, CallKnows(c), UNCHANGED <<lease, req, obs>>,
         pc'[c] \in Working \cup {"progress", "unallocated", "winner", "return"},
         pc'[c] \in Working \cup {"unallocated"} => pc[c] \in Working,
         target'[c] = None \/ pc'[c] \in {"await", "adopt", "finalize"}
  PROVE  CallSpares(c)'
<1>1. pc'[c] = "unallocated" => obs'[c].staging
  BY DEF CallKnows, CallDiscards, Working, Quarantined
<1> QED  BY <1>1 DEF CallKnows, CallSpares, Cleaning, Working, HoldsAttempt

\* Without a fault, a store operation that is not ok writes nothing.
LEMMA NothingWritten ==
  ASSUME ~Fault, NEW result, result # "ok", result # "won"
  PROVE  /\ \A a : Create(a, result) => UNCHANGED lease
         /\ \A l, a : Replace(l, a, result) => UNCHANGED lease
         /\ \A l, c : BeginDispatch(l, c, result) =>
              /\ UNCHANGED lease
              /\ lease # l /\ ~(HoldsAttempt(l.attempt) /\ Quarantined(lease))
         /\ \A l, n : Finalize(l, n, result) =>
              /\ UNCHANGED <<lease, expired>>
              /\ lease # l
              /\ ~(lease # None /\ ~lease.releasing /\ SameAllocationOwner(lease, n))
         /\ \A l : BeginRelease(l, result) => UNCHANGED lease
BY DEF Create, Replace, BeginDispatch, Finalize, BeginRelease, Commits, StorageFails, Settles

LEMMA StagingSpares ==
  ASSUME FreshAttempts, DispatchInv', NEW c \in Callers, CallKnows(c),
         AllocateLoads(c) \/ StealFences(c) \/ StageAttempt(c) \/ DispatchAttempt(c)
  PROVE  CallSpares(c)'
<1> USE ControlValues DEF CallTypes
<1>1. /\ CallTypes /\ CallInv(c) /\ CallFrame(c) /\ CallDiscards(c) /\ CallSpares(c) /\ ~Fault
      /\ obs[c] \in StoredLease \cup {None} /\ req[c] \in Attempts
      /\ Equipped(pc[c], obs[c], target[c])
  BY DEF CallKnows
<1>2. ASSUME Fail(c), ~HoldsAttempt(AttemptOf[c]), UNCHANGED lease
      PROVE  CallSpares(c)'
  <2>1. ~Staging(c)'
    BY <1>1, <1>2 DEF Fail, Staging
  <2> QED  BY <1>2, <2>1, SpentNext, ExitsSpare DEF HoldsAttempt
<1>3. CASE AllocateLoads(c)
  <2>1. /\ pc[c] = "load" /\ Staging(c) /\ target[c] = None /\ UNCHANGED <<lease, expired>>
        /\ req[c] = AttemptOf[c] /\ ~HoldsAttempt(AttemptOf[c])
    BY <1>1, <1>3 DEF AllocateLoads, Staging, CallInv, AttemptUnsent, AttemptFresh, CallSpares
  <2>2. ~Staging(c)' => Spent(AttemptOf[c])'
    BY <2>1, SpentNext DEF HoldsAttempt
  <2>4. CASE Goto(c, "stage") /\ UNCHANGED <<req, obs, target>>
    BY <1>1, <2>1, <2>4 DEF CallSpares, Cleaning, Working
  <2>5. CASE Goto(c, "resolve") /\ UNCHANGED <<req, target>>
    <3>1. pc'[c] = "resolve" /\ ~Staging(c)'
      BY <1>1, <2>5 DEF Staging
    <3> QED  BY <2>1, <2>2, <2>5, <3>1 DEF CallSpares, Cleaning, Working
  <2>6. CASE Goto(c, "observe") /\ Hold(c, lease) /\ UNCHANGED target
    <3>1. pc'[c] = "observe" /\ ~Staging(c)' /\ obs'[c] = lease' /\ target'[c] = None
      BY <1>1, <2>1, <2>6 DEF Staging
    <3> QED  BY <2>2, <3>1 DEF CallSpares, Cleaning, Working
  <2>7. ASSUME NEW late \in {FALSE, lease.attempt \in expired}, lease # None,
               Replaceable(lease, late), Goto(c, "steal"), Hold(c, lease), UNCHANGED <<req, target>>
        PROVE  CallSpares(c)'
    <3>1. pc'[c] = "steal" /\ obs'[c] = lease' /\ target'[c] = None
      BY <1>1, <2>1, <2>7
    <3>2. lease.staging \/ lease.releasing \/ lease.attempt \in expired
      BY <2>7 DEF Replaceable, State
    <3>3. lease.attempt \in expired => Spent(lease.attempt)'
      BY <2>1, <2>7, SpentNext
    <3>4. Spent(lease.attempt)' => Spent(obs[c].attempt)'
      BY <3>1 DEF Spent, HoldsAttempt
    <3> QED  BY <2>1, <2>7, <3>1, <3>2, <3>3, <3>4 DEF CallSpares, Cleaning, Working
  <2> QED
    BY <1>2, <1>3, <2>1, <2>4, <2>5, <2>6, <2>7 DEF AllocateLoads, HoldsAttempt
<1>4. CASE StealFences(c)
  <2>1. ~HoldsAttempt(AttemptOf[c]) /\ req[c] = AttemptOf[c] /\ target[c] = None
    BY <1>1, <1>4
    DEF StealFences, CallSpares, CallInv, AttemptFresh, AttemptUnsent, Staging
  <2>2. CASE ReleaseResource(c, lease', "stage") /\ UNCHANGED <<req, target>>
    <3>1. pc'[c] \in {"list", "delete"} /\ after'[c] = "stage"
      BY <1>1, <2>2
    <3> QED  BY <2>1, <2>2, <3>1 DEF CallSpares, Cleaning, Working
  <2> QED  BY <1>1, <1>2, <1>4, <2>1, <2>2, NothingWritten DEF StealFences
<1>5. CASE StageAttempt(c)
  <2>1. /\ ~HoldsAttempt(AttemptOf[c]) /\ req[c] = AttemptOf[c] /\ target[c] = None
    BY <1>1, <1>5
    DEF StageAttempt, CallSpares, CallInv, AttemptFresh, AttemptUnsent, Staging
  <2>2. PICK result \in {"ok", "conflict", "error"} :
          /\ IF obs[c] = None THEN Create(req[c], result) ELSE Replace(obs[c], req[c], result)
          /\ IF result = "ok"
             THEN /\ Goto(c, IF ~lease'.staging THEN "resolve"
                             ELSE IF lease'.dispatch = None THEN "dispatch" ELSE "observe")
                  /\ Hold(c, lease') /\ UNCHANGED <<req, target>> /\ Keep
             ELSE Fail(c)
    BY <1>5 DEF StageAttempt
  <2>3. CASE result = "ok"
    <3>1. lease' = Staged(req[c])
      BY <2>1, <2>2, <2>3 DEF Create, Replace, Commits, StorageFails, Settles, HoldsAttempt
    <3>2. pc'[c] = "dispatch" /\ obs'[c] = lease' /\ target'[c] = None /\ req'[c] = AttemptOf[c]
      BY <1>1, <2>1, <2>2, <2>3, <3>1 DEF Staged
    <3> QED  BY <3>2 DEF CallSpares, Cleaning, Working
  <2> QED  BY <1>1, <1>2, <2>1, <2>2, <2>3, NothingWritten
<1>6. CASE DispatchAttempt(c)
  <2>1. pc[c] = "dispatch" /\ req[c] = AttemptOf[c] /\ target[c] = None /\ obs[c].attempt = req[c]
    BY <1>1, <1>6
    DEF DispatchAttempt, CallSpares, CallInv, AttemptUnsent, LeaseInHand
  <2>2. PICK result \in {"won", "ok", "conflict", "error"} :
          /\ BeginDispatch(obs[c], c, result)
          /\ IF result \in {"won", "ok"}
             THEN /\ Goto(c, IF MayAllocate(result) THEN "provision" ELSE "observe")
                  /\ Hold(c, lease') /\ UNCHANGED <<req, target>> /\ Keep
             ELSE Fail(c)
    BY <1>6 DEF DispatchAttempt
  <2>3. CASE result \in {"won", "ok"}
    <3>1. pc'[c] \in {"provision", "observe"} /\ obs'[c] = lease' /\ target'[c] = None
          /\ req'[c] = AttemptOf[c]
      BY <1>1, <2>1, <2>2, <2>3
    <3> QED  BY <3>1 DEF CallSpares, Cleaning, Working
  <2>4. CASE result \notin {"won", "ok"}
    <3>1. Fail(c) /\ UNCHANGED lease /\ lease # obs[c]
      BY <1>1, <2>2, <2>4, NothingWritten
    <3>2. HoldsAttempt(req[c]) => lease.releasing
      BY <1>1, <2>1, <3>1 DEF CallSpares
    <3>3. req'[c] = req[c] /\ ~Staging(c)'
      BY <1>1, <2>1, <3>1 DEF Fail, CallersTypeOK, Staging
    <3>4. Spent(req[c])'
      BY <3>1, <3>2, <3>3, SpentNext DEF HoldsAttempt
    <3>5. Spent(AttemptOf[c])'
      BY <2>1, <3>3, <3>4 DEF Spent, HoldsAttempt
    <3> QED  BY <3>1, <3>5, ExitsSpare
  <2> QED  BY <2>2, <2>3, <2>4
<1> QED  BY <1>3, <1>4, <1>5, <1>6

LEMMA WorkingSpares ==
  ASSUME FreshAttempts, DispatchInv', NEW c \in Callers, CallKnows(c), OneObject,
         PublishedNamesObject, StoreTypeOK,
         \/ ObserveAttempt(c) \/ SendAllocation(c) \/ AllocationAnswered(c) \/ AllocationRefused(c)
         \/ ObserveDispatched(c) \/ AdoptServer(c) \/ FinalizeAttempt(c)
  PROVE  CallSpares(c)'
<1> USE ControlValues DEF CallTypes
<1>1. /\ CallTypes /\ CallInv(c) /\ CallFrame(c) /\ CallDiscards(c) /\ CallSpares(c) /\ ~Fault
      /\ obs[c] \in StoredLease \cup {None} /\ req[c] \in Attempts
      /\ target[c] \in Servers \cup {None} /\ Equipped(pc[c], obs[c], target[c])
      /\ ~(Cardinality(AllocatedFor(req[c])) > 1)
  BY OneFound DEF CallKnows
<1>2. CASE ObserveAttempt(c)
  <2>1. target[c] = None /\ pc[c] \in Working
    BY <1>1, <1>2 DEF ObserveAttempt, CallSpares, Working
  <2>2. UNCHANGED <<lease, req, obs>>
        /\ ((pc'[c] \in {"rpc", "progress"} /\ target' = target) \/ pc'[c] = "adopt")
    BY <1>1, <1>2 DEF ObserveAttempt
  <2> QED  BY <2>1, <2>2, WorksSpare DEF Working
<1>3. CASE SendAllocation(c) \/ AllocationAnswered(c) \/ AllocationRefused(c)
  <2>1. target[c] = None /\ pc[c] \in Working
    BY <1>1, <1>3
    DEF SendAllocation, AllocationAnswered, AllocationRefused, CallSpares, Working
  <2>2. UNCHANGED <<lease, req, obs>>
        /\ ((pc'[c] \in {"wait", "unallocated"} /\ target' = target) \/ pc'[c] = "await")
    BY <1>1, <1>3 DEF SendAllocation, AllocationAnswered, AllocationRefused
  <2> QED  BY <2>1, <2>2, WorksSpare DEF Working
<1>4. CASE ObserveDispatched(c)
  <2>1. /\ UNCHANGED <<lease, req, obs>> /\ pc[c] \in Working
        /\ pc'[c] = "adopt" \/ (pc'[c] = "progress" /\ target'[c] = None)
    BY <1>1, <1>4 DEF ObserveDispatched, Working
  <2> QED  BY <2>1, WorksSpare DEF Working
<1>5. CASE AdoptServer(c)
  <2>1. UNCHANGED <<lease, expired, req, obs>> /\ pc[c] \in Working /\ pc[c] = "adopt"
    BY <1>5 DEF AdoptServer, Working
  <2>2. CASE pc'[c] = "reconcile"
    <3>1. req[c] \in expired /\ ~Staging(c)'
      BY <1>1, <1>5, <2>2 DEF AdoptServer, Staging
    <3>2. Spent(req[c])'
      BY <2>1, <3>1, SpentNext
    <3> QED  BY <1>1, <2>1, <2>2, <3>2 DEF CallSpares, Cleaning, Working, CallKnows
  <2>3. CASE pc'[c] = "finalize" \/ (pc'[c] = "progress" /\ target'[c] = None)
    BY <2>1, <2>3, WorksSpare DEF Working
  <2> QED  BY <1>1, <1>5, <2>2, <2>3 DEF AdoptServer
<1>6. CASE FinalizeAttempt(c)
  <2>1. PICK result \in {"ok", "conflict", "error"} :
          /\ Finalize(obs[c], Published(req[c], target[c]), result)
          /\ IF result = "ok"
             THEN Answer(c, Published(req[c], target[c]))
             ELSE Goto(c, "progress") /\ UNCHANGED <<req, obs, target>> /\ Keep
    BY <1>6 DEF FinalizeAttempt
  <2>2. CASE result = "ok"
    <3>1. pc'[c] = "return" /\ target'[c] = None /\ req' = req
      BY <1>1, <2>1, <2>2 DEF Answer
    <3> QED  BY <3>1 DEF CallKnows, CallSpares, Cleaning, Working
  <2>3. CASE result # "ok"
    <3>1. /\ UNCHANGED <<lease, expired>> /\ lease # obs[c]
          /\ ~(lease # None /\ ~lease.releasing
               /\ SameAllocationOwner(lease, Published(req[c], target[c])))
      BY <1>1, <2>1, <2>3, NothingWritten
    <3>2. pc'[c] = "progress" /\ UNCHANGED <<req, obs, target>> /\ pc[c] = "finalize"
      BY <1>1, <1>6, <2>1, <2>3 DEF FinalizeAttempt
    <3>3. HoldsAttempt(req[c]) => lease.releasing
      <4> SUFFICES ASSUME HoldsAttempt(req[c]), ~lease.releasing PROVE FALSE
        OBVIOUS
      <4>1. ~lease.staging
        BY <1>1, <3>1, <3>2 DEF CallSpares, Working
      <4>2. lease \in StoredLease /\ lease.server \in Servers
        BY <4>1, StoredLeases DEF HoldsAttempt, StoreTypeOK, Lease, WellFormed
      <4>3. target[c] \in Servers /\ server[target[c]].attempt = req[c]
        BY <1>1, <3>2 DEF CallInv, ObjectInHand, Equipped
      <4>4. lease.server = target[c]
        BY <1>1, <4>1, <4>2, <4>3, NoneIsFresh DEF PublishedNamesObject, OneObject, HoldsAttempt
      <4> QED
        BY <3>1, <4>1, <4>2, <4>4, StoredLeases
        DEF HoldsAttempt, SameAllocationOwner, Published, Lease
    <3>4. Spent(req[c])'
      BY <3>1, <3>2, <3>3, SpentNext DEF HoldsAttempt, Staging
    <3> QED  BY <3>2, <3>4 DEF CallKnows, CallSpares, Cleaning, Working
  <2> QED  BY <2>2, <2>3
<1> QED  BY <1>2, <1>3, <1>4, <1>5, <1>6

LEMMA OutcomeSpares ==
  ASSUME FreshAttempts, DispatchInv', NEW c \in Callers, CallKnows(c),
         \/ CheckProgress(c) \/ ResolveLease(c) \/ FenceUnallocated(c) \/ ReloadUnallocated(c)
         \/ ReturnHandoff(c)
  PROVE  CallSpares(c)'
<1> USE ControlValues DEF CallTypes
<1>1. /\ CallTypes /\ CallInv(c) /\ CallFrame(c) /\ CallDiscards(c) /\ CallSpares(c) /\ ~Fault
      /\ obs[c] \in StoredLease \cup {None} /\ req[c] \in Attempts
      /\ target[c] \in Servers \cup {None} /\ Equipped(pc[c], obs[c], target[c])
      /\ req[c] # AttemptOf[c] => Spent(AttemptOf[c])'
  BY DEF CallKnows, CallSpares
<1>2. CASE CheckProgress(c)
  <2>1. CASE Goto(c, "winner") /\ UNCHANGED <<req, target>>
    BY <1>1, <2>1 DEF CallSpares, Cleaning, Working
  <2>2. CASE target[c] # None /\ Goto(c, "reconcile") /\ UNCHANGED <<req, obs, target>>
    BY <1>1, <1>2, <2>2 DEF CheckProgress, CallKnows, CallSpares, Cleaning, Working
  <2> QED  BY <1>1, <1>2, <2>1, <2>2, ExitsSpare DEF CheckProgress
<1>3. CASE ResolveLease(c)
  <2>1. pc[c] = "resolve" => Spent(AttemptOf[c])'
    BY <1>1 DEF CallKnows, CallSpares
  <2>2. CASE Answer(c, obs[c])
    <3>1. pc'[c] = "return" /\ target'[c] = None /\ req' = req
      BY <1>1, <2>2 DEF Answer
    <3> QED  BY <1>1, <3>1 DEF CallSpares, Cleaning, Working
  <2> QED  BY <1>3, <2>1, <2>2, ExitsSpare DEF ResolveLease
<1>4. CASE FenceUnallocated(c)
  <2>1. target'[c] = None /\ req' = req /\ pc[c] = "unallocated" /\ obs[c] \in StoredLease
        /\ obs[c].attempt = req[c]
    BY <1>1, <1>4 DEF FenceUnallocated, CallSpares, CallInv, LeaseInHand, Equipped
  <2>2. CASE pc'[c] = "reconcile" /\ BeginRelease(obs[c], "ok")
    <3>1. lease'.releasing
      BY <1>1, <2>1, <2>2, WrittenLeases
      DEF BeginRelease, Commits, StorageFails, Settles, HoldsAttempt
    <3>2. Spent(req[c])'
      BY <1>1, <2>2, <3>1, SpentNext DEF Staging
    <3> QED  BY <1>1, <2>1, <2>2, <3>2 DEF CallSpares, Cleaning, Working
  <2>3. CASE pc'[c] \in {"progress", "reload"}
    BY <1>1, <2>1, <2>3 DEF CallSpares, Cleaning, Working
  <2> QED  BY <1>1, <1>4, <2>2, <2>3 DEF FenceUnallocated
<1>5. CASE ReloadUnallocated(c)
  <2>1. target'[c] = None /\ req' = req /\ pc'[c] \in {"unallocated", "progress"}
    BY <1>1, <1>5 DEF ReloadUnallocated, CallSpares
  <2>2. pc'[c] = "unallocated" => obs'[c].staging
    BY <1>1, <1>5 DEF ReloadUnallocated
  <2> QED  BY <2>2, <1>1, <2>1 DEF CallSpares, Cleaning, Working
<1>6. CASE ReturnHandoff(c)
  <2>1. CASE Goto(c, "done") /\ UNCHANGED <<req, target>>
    <3>1. target[c] = None /\ pc'[c] = "done"
      BY <1>1, <1>6, <2>1 DEF ReturnHandoff, CallSpares
    <3> QED  BY <1>1, <2>1, <3>1 DEF CallSpares, Cleaning, Working
  <2> QED  BY <1>6, <2>1, ExitsSpare DEF ReturnHandoff
<1> QED  BY <1>2, <1>3, <1>4, <1>5, <1>6

LEMMA CleaningSpares ==
  ASSUME FreshAttempts, DispatchInv', NEW c \in Callers, CallKnows(c),
         \/ ReconcileLoads(c) \/ ReconcileFences(c) \/ ListAttempt(c) \/ DeleteDoomed(c)
         \/ CleanupReturns(c) \/ ForgetAttempt(c)
  PROVE  CallSpares(c)'
<1> USE ControlValues DEF CallTypes
<1>1. /\ CallTypes /\ CallInv(c) /\ CallFrame(c) /\ CallDiscards(c) /\ CallSpares(c) /\ ~Fault
      /\ obs[c] \in StoredLease \cup {None} /\ req[c] \in Attempts
      /\ target[c] \in Servers \cup {None} /\ Equipped(pc[c], obs[c], target[c])
      /\ req[c] # AttemptOf[c] => Spent(AttemptOf[c])'
      /\ Cleaning(c) => Spent(AttemptOf[c])' /\ (req'[c] = req[c] => Spent(req[c])')
  BY DEF CallKnows, CallSpares
<1>2. CASE LeaveReconcile(c) /\ Cleaning(c)
  BY <1>1, <1>2, ExitsSpare
<1>3. ASSUME NEW l, NEW next \in {"leave", "remove"}, ReleaseResource(c, l, next),
             UNCHANGED <<req, target>>, Cleaning(c)
      PROVE  CallSpares(c)'
  <2>1. pc'[c] \in {"list", "delete"} /\ after'[c] = next
    BY <1>1, <1>3
  <2> QED  BY <1>1, <1>3, <2>1 DEF CallSpares, Cleaning, Working
<1>4. CASE ReconcileLoads(c)
  <2>1. Cleaning(c)
    BY <1>4 DEF ReconcileLoads, Cleaning
  <2>2. CASE Goto(c, "fence") /\ UNCHANGED <<req, target>>
    BY <1>1, <2>1, <2>2 DEF CallSpares, Cleaning, Working
  <2> QED  BY <1>2, <1>3, <1>4, <2>1, <2>2 DEF ReconcileLoads
<1>5. CASE ReconcileFences(c)
  <2>1. Cleaning(c)
    BY <1>5 DEF ReconcileFences, Cleaning
  <2> QED  BY <1>2, <1>3, <1>5, <2>1 DEF ReconcileFences
<1>6. CASE ListAttempt(c) \/ DeleteDoomed(c)
  <2>1. /\ pc'[c] = "delete" /\ UNCHANGED <<req, target, after>> /\ pc[c] \in {"list", "delete"}
    BY <1>1, <1>6 DEF ListAttempt, DeleteDoomed, DeleteFails
  <2> QED  BY <1>1, <2>1 DEF CallSpares, Cleaning, Working
<1>7. CASE CleanupReturns(c)
  <2>1. pc[c] = "delete" /\ after[c] \in {"stage", "leave", "remove"}
    BY <1>1, <1>7 DEF CleanupReturns, CallSpares
  <2>2. CASE after[c] = "leave"
    BY <1>2, <1>7, <2>1, <2>2 DEF CleanupReturns, Cleaning
  <2>3. CASE after[c] = "stage" /\ Goto(c, "stage") /\ UNCHANGED <<req, target>>
    BY <1>1, <2>1, <2>3 DEF CallSpares, Cleaning, Working
  <2>4. CASE after[c] = "remove" /\ Goto(c, "remove") /\ UNCHANGED <<req, target>>
    BY <1>1, <2>1, <2>4 DEF CallSpares, Cleaning, Working
  <2> QED  BY <1>7, <2>1, <2>2, <2>3, <2>4 DEF CleanupReturns
<1>8. CASE ForgetAttempt(c)
  BY <1>2, <1>8 DEF ForgetAttempt, Cleaning
<1> QED  BY <1>4, <1>5, <1>6, <1>7, <1>8

\* A step of a call keeps the invariant of every call.
LEMMA CallsSpare ==
  ASSUME FreshAttempts, TypeOK, DispatchInv, DiscardInv, Spares, ~Fault, DispatchInv',
         \A a : Spent(a) => Spent(a)', [Next]_vars
  PROVE  \A d \in Callers : CallSpares(d)'
<1>1. CASE Calls
  <2>1. PICK c \in Callers : CallerStep(c) \/ StepFails(c) \/ Crash(c)
    BY <1>1 DEF Calls
  <2>2. CallKnows(c)
    BY <2>1, CallsKnow
  <2>3. CallerStep(c)
    BY <2>1, <2>2 DEF CallKnows, StepFails, Crash
  <2>4. CallSpares(c)'
    BY <2>2, <2>3, StagingSpares, WorkingSpares, OutcomeSpares, CleaningSpares
    DEF CallerStep, DiscardInv, TypeOK
  <2>5. \A d \in Callers \ {c} : CallSpares(d)'
    BY <2>2, OthersSpare DEF CallKnows, CallFrame, OthersKept, Spares
  <2> QED  BY <2>4, <2>5
<1>2. ASSUME AsideFrame PROVE \A d \in Callers : CallSpares(d)'
  BY <1>2, OthersSpare DEF AsideFrame, callerVars, Spares
<1>3. CASE Sweeps
  BY <1>2, <1>3, SweepsAside DEF DispatchInv, TypeOK
<1>4. CASE Reaps
  BY <1>2, <1>4, ReapsAside DEF TypeOK
<1>5. CASE Plays
  BY <1>2, <1>5, PlaysAside DEF TypeOK
<1>6. CASE Environment
  BY <1>2, <1>6, EnvironmentAside DEF TypeOK
<1>7. CASE UNCHANGED vars
  BY <1>2, <1>7 DEF vars, storeVars, fleetVars, AsideFrame
<1> QED  BY <1>1, <1>3, <1>4, <1>5, <1>6, <1>7 DEF Next

\* A sweep fences what it met fenced, or past its deadline.
LEMMA SweepsSpare ==
  ASSUME FreshAttempts, TypeOK, Spares, DispatchInv', \A a : Spent(a) => Spent(a)', [Next]_vars
  PROVE  \A w \in Sweepers : SweepSpares(w)'
<1>1. ASSUME NEW w \in Sweepers, swPc'[w] # "fence" \/ (swPc[w] = "fence" /\ swObs'[w] = swObs[w])
      PROVE  SweepSpares(w)'
  <2>1. PICK a : a = swObs[w].attempt
    OBVIOUS
  <2>2. CASE swPc[w] = "fence" /\ swObs'[w] = swObs[w]
    BY <1>1, <2>1, <2>2 DEF Spares, SweepSpares, Spent, HoldsAttempt
  <2> QED  BY <1>1, <2>2 DEF SweepSpares
<1>2. CASE UNCHANGED sweepVars
  BY <1>1, <1>2 DEF sweepVars
<1>3. CASE Sweeps
  <2>1. PICK w \in Sweepers : SweepStep(w) \/ SweepFails(w)
    BY <1>3 DEF Sweeps
  <2>2. \A v \in Sweepers \ {w} : swPc'[v] = swPc[v] /\ swObs'[v] = swObs[v]
    BY <2>1
    DEF SweepStep, SweepLists, SweepFences, SweepChecks, SweepListsAttempt, SweepDeletes,
        SweepCleaned, SweepRemoves, SweepFails, SweepGoto, SweepRests, TypeOK, SweepersTypeOK
  <2>3. CASE SweepLists(w)
    <3>1. /\ lease # None /\ Reclaimable(lease) /\ UNCHANGED <<lease, expired>>
          /\ swObs'[w] = lease
      BY <2>3 DEF SweepLists, storeVars, TypeOK, SweepersTypeOK
    <3>2. lease.attempt \in expired => Spent(lease.attempt)'
      BY <3>1, SpentNext
    <3> QED
      BY <1>1, <2>2, <3>1, <3>2 DEF Reclaimable, SweepSpares, Spent, HoldsAttempt
  <2>4. CASE SweepDeletes(w)
    BY <1>1, <2>2, <2>4 DEF SweepDeletes
  <2>5. ASSUME swPc'[w] # "fence" PROVE \A v \in Sweepers : SweepSpares(v)'
    BY <1>1, <2>2, <2>5
  <2> QED
    BY <2>1, <2>3, <2>4, <2>5
    DEF SweepStep, SweepFences, SweepChecks, SweepListsAttempt,
        SweepCleaned, SweepRemoves, SweepFails, SweepGoto, SweepRests, TypeOK, SweepersTypeOK
<1> QED  BY <1>2, <1>3 DEF Next, Calls, Reaps, Plays, Environment, vars

\* A step spends a fault, or leaves them alone.
LEMMA FaultsCounted == ASSUME [Next]_vars PROVE UNCHANGED faults \/ Fault
<1>1. CASE Calls
  <2>1. PICK c \in Callers : CallerStep(c) \/ Fault
    BY <1>1 DEF Calls, StepFails, Crash
  <2>2. CASE StealFences(c) \/ StageAttempt(c) \/ DispatchAttempt(c) \/ FinalizeAttempt(c)
    BY <2>2
    DEF StealFences, StageAttempt, DispatchAttempt, FinalizeAttempt, BeginRelease, Create,
        Replace, BeginDispatch, Finalize, Commits, StorageFails, Settles
  <2>3. CASE FenceUnallocated(c) \/ ReconcileFences(c) \/ ForgetAttempt(c) \/ DeleteDoomed(c)
    BY <2>3
    DEF FenceUnallocated, ReconcileFences, ForgetAttempt, DeleteDoomed, DeleteFails,
        BeginRelease, Release, Commits, StorageFails, Settles
  <2> QED
    BY <2>1, <2>2, <2>3
    DEF CallerStep, AllocateLoads, ObserveAttempt, SendAllocation, AllocationAnswered,
        AllocationRefused, ObserveDispatched, AdoptServer, CheckProgress, ResolveLease,
        ReloadUnallocated, ReconcileLoads, ListAttempt, CleanupReturns, ReturnHandoff
<1>2. CASE Sweeps
  BY <1>2
  DEF Sweeps, SweepStep, SweepLists, SweepFences, SweepChecks, SweepListsAttempt, SweepDeletes,
      SweepCleaned, SweepRemoves, SweepFails, WriteExact, Commits, StorageFails, Settles,
      DeleteFails, storeVars
<1>3. CASE Reaps
  BY <1>3
  DEF Reaps, ReaperStep, ScanObjects, ScanLeases, ReclaimReads, ReclaimDeletes, SweepEnds,
      GraceElapses, ReaperFails, DeleteFails, storeVars
<1>4. CASE Plays
  BY <1>4
  DEF Plays, SessionStep, ClaimLoads, ClaimResolves, ClaimWrites, SessionEnds, EndFences,
      EndDeletes, EndRemoves, ClaimFails, ClaimByKey, WriteExact, Commits, StorageFails, Settles,
      DeleteFails, storeVars
<1> QED
  BY <1>1, <1>2, <1>3, <1>4
  DEF Next, Environment, Expire, storeVars, vars

LEMMA NoFaultYet ==
  ASSUME TypeOK, [Next]_vars, faults' = MaxFaults PROVE faults = MaxFaults /\ ~Fault
<1>1. faults \in 0 .. MaxFaults /\ (UNCHANGED faults \/ Fault)
  BY FaultsCounted DEF TypeOK, StoreTypeOK
<1> QED  BY <1>1, MaxFaultsIsNat DEF Fault

\* Without a failed step, a call tears nothing down but spent attempts, and so
\* does a sweep.
THEOREM SparesHold ==
  ASSUME FreshAttempts, "copies" \notin Anomalies PROVE Spec => []SpareInv
<1>1. Init => SpareInv
  BY DEF Init, StoreInit, CallerInit, SweepInit, SpareInv, Spares, CallSpares, SweepSpares,
         Cleaning, Working, HoldsAttempt
<1>2. TypeOK /\ DispatchInv /\ DispatchInv' /\ DiscardInv /\ SpareInv /\ [Next]_vars => SpareInv'
  <2> SUFFICES ASSUME TypeOK, DispatchInv, DispatchInv', DiscardInv, SpareInv, [Next]_vars,
                      faults' = MaxFaults
               PROVE  Spares'
    BY DEF SpareInv
  <2>0. Spares /\ ~Fault
    BY NoFaultYet DEF SpareInv
  <2>1. \A a : Spent(a) => Spent(a)'
    BY SpentKept
  <2> QED  BY <2>0, <2>1, CallsSpare, SweepsSpare DEF Spares
<1> QED  BY <1>1, <1>2, HandoffTypeOK, DispatchHolds, DiscardHolds, PTL DEF Spec

\* Nothing but a claim, or its deadline, takes a published allocation from the
\* player it was handed to, however many retries overlap and sweeps run: it takes
\* a failed step for a retry to tear it down (the Allocator contract in
\* handoff/service.go, which finding 1 is about).
THEOREM HandedAllocationsKept ==
  ASSUME FreshAttempts, "copies" \notin Anomalies
  PROVE  Spec => RetainedUntilFault
<1>1. TypeOK /\ DispatchInv /\ DiscardInv /\ SpareInv /\ [Next]_vars =>
        [HandedOut /\ faults' = MaxFaults => lease' = Admitted(lease)]_lease
  <2> SUFFICES ASSUME TypeOK, DispatchInv, DiscardInv, SpareInv, [Next]_vars, HandedOut,
                      faults' = MaxFaults, lease' # lease
               PROVE  lease' = Admitted(lease)
    OBVIOUS
  <2>0. Spares
    BY NoFaultYet DEF SpareInv
  <2> USE DEF TypeOK, CallTypes
  <2>1. /\ lease # None /\ ~lease.releasing /\ ~lease.staging /\ ~lease.claimed
        /\ ~Spent(lease.attempt)
    BY DEF HandedOut, Spent, HoldsAttempt
  <2>2. CASE Calls
    <3>1. PICK c \in Callers : /\ CallFrame(c) /\ CallInv(c) /\ CallDiscards(c) /\ CallSpares(c)
      BY <2>0, <2>2, CallFramed DEF Calls, DispatchInv, DiscardInv, Spares
    <3>2. Equipped(pc[c], obs[c], target[c]) /\ LeaseMove(c)
      BY <3>1, CallTyped DEF CallFrame
    <3>3. pc[c] # "fence" \/ lease # obs[c]
      BY <2>1, <3>1 DEF CallInv, LeaseInHand, CallSpares, Cleaning
    <3>4. pc[c] # "unallocated" \/ lease # obs[c]
      BY <2>1, <3>1 DEF CallSpares
    <3> QED
      BY <2>1, <3>1, <3>2, <3>3, <3>4
      DEF LeaseMove, CallDiscards, CallSpares, Equipped, Quarantined, CallInv, RemovedFenced,
          Removing
  <2>3. CASE Sweeps
    <3>1. PICK w \in Sweepers : SweepStep(w) \/ SweepFails(w)
      BY <2>3 DEF Sweeps
    <3>2. SweepEquipped(swPc[w], swObs[w]) /\ SweepSpares(w)
      BY <2>0 DEF SweepersTypeOK, Spares
    <3> QED
      BY <2>1, <3>1, <3>2
      DEF SweepStep, SweepLists, SweepFences, SweepChecks, SweepListsAttempt, SweepDeletes,
          SweepCleaned, SweepRemoves, SweepFails, WriteExact, Commits, StorageFails, Settles,
          SweepEquipped, SweepSpares, storeVars
  <2>4. CASE Plays
    <3>1. PICK z \in Sessions : SessionStep(z, handed) \/ ClaimFails(z)
      BY <2>4 DEF Plays
    <3>2. SessionEquipped(sPc[z], sObs[z])
      BY DEF SessionsTypeOK
    <3>3. CASE ClaimWrites(z)
      BY <3>3 DEF ClaimWrites, ClaimByKey, Commits, StorageFails, Settles, storeVars
    <3>4. CASE EndFences(z)
      BY <2>1, <3>2, <3>4 DEF EndFences, WriteExact, Commits, StorageFails, Settles, SessionEquipped
    <3>5. CASE EndRemoves(z)
      BY <2>1, <3>2, <3>5 DEF EndRemoves, WriteExact, Commits, StorageFails, Settles, SessionEquipped
    <3> QED
      BY <3>1, <3>3, <3>4, <3>5
      DEF SessionStep, ClaimLoads, ClaimResolves, SessionEnds, EndDeletes, ClaimFails, storeVars
  <2>5. CASE Reaps
    BY <2>5
    DEF Reaps, ReaperStep, ScanObjects, ScanLeases, ReclaimReads, ReclaimDeletes, SweepEnds,
        GraceElapses, ReaperFails, storeVars
  <2> QED
    BY <2>2, <2>3, <2>4, <2>5 DEF Next, Environment, Expire, storeVars, vars
<1> QED
  BY <1>1, HandoffTypeOK, DispatchHolds, DiscardHolds, SparesHold, PTL
  DEF Spec, RetainedUntilFault
=============================================================================
