------------------------------ MODULE Handoff -------------------------------
(***************************************************************************)
(* The player handoff, composed: CreateHandoff calls, the expiry sweep,    *)
(* the zone's claims, the storage engine's clock and the Agones fleet, all *)
(* over one lease key.                                                     *)
(***************************************************************************)
EXTENDS Coordinator, ExpirySweeper, OrphanReaper, ZoneSession

vars == <<storeVars, fleetVars, callerVars, sweepVars, reaperVars, sessionVars>>

Init == StoreInit /\ FleetInit /\ CallerInit /\ SweepInit /\ ReaperInit /\ SessionInit

Calls == \E c \in Callers :
  /\ CallerStep(c) \/ StepFails(c) \/ Crash(c)
  /\ UNCHANGED <<sweepVars, reaperVars, sessionVars>>

Sweeps == \E w \in Sweepers :
  /\ SweepStep(w) \/ SweepFails(w)
  /\ UNCHANGED <<callerVars, reaperVars, sessionVars>>

Reaps == \E r \in Reapers :
  /\ ReaperStep(r) \/ GraceElapses(r) \/ ReaperFails(r)
  /\ UNCHANGED <<callerVars, sweepVars, sessionVars>>

Plays == \E z \in Sessions :
  /\ SessionStep(z, handed) \/ ClaimFails(z)
  /\ UNCHANGED <<callerVars, sweepVars, reaperVars>>

Environment ==
  /\ \/ Expire /\ UNCHANGED fleetVars
     \/ \E a \in Attempts : (AllocatorCommits(a) \/ AllocatorDrops(a)) /\ UNCHANGED storeVars
     \/ \E s \in Servers : Fault /\ ServerFails(s) /\ UNCHANGED <<lease, expired>>
  /\ UNCHANGED <<callerVars, sweepVars, reaperVars, sessionVars>>

Next == Calls \/ Sweeps \/ Reaps \/ Plays \/ Environment

Spec == Init /\ [][Next]_vars

\* Types, and what normalizeLease accepts: every lease, stored or in hand, is
\* well formed.
TypeOK ==
  /\ StoreTypeOK /\ FleetTypeOK
  /\ CallersTypeOK /\ SweepersTypeOK /\ ReapersTypeOK /\ SessionsTypeOK
-----------------------------------------------------------------------------
\* The durable lease and the objects acquired for it live as LeaseLifecycle
\* promises: every step of every process is a step of it or leaves both alone.
\* Allocate, reconcileAttempt, ReclaimExpired, ClaimByKey and EndSession each
\* rely on the others' version checks for it.
Lifecycle == INSTANCE LeaseLifecycle WITH lease <- lease, server <- server
ImplementsLifecycle == Lifecycle!Spec

\* The lease is call c's own dispatch, with an outcome nobody has recorded.
OwnDispatch(c) == HoldsAttempt(req[c]) /\ Quarantined(lease) /\ lease.dispatch = c

\* The dispatch barrier: an allocation request leaves only under this call's own
\* durable, unfenced dispatch, so no second call can be sending one and no
\* sweep or retry can have released the attempt behind its back (Allocate,
\* BeginDispatch).
DispatchBarrier == \A c \in Callers : pc[c] \in {"provision", "rpc"} => OwnDispatch(c)

\* However many calls overlap, one attempt never has two objects at once: the
\* callers that did not win the dispatch observe, they do not allocate.
OneObjectPerAttempt == \A a \in Attempts : Cardinality(Labelled(a)) <= 1

\* However many calls overlap, and whatever copies the allocator left behind, the
\* player is never handed two different objects of one attempt (Finalize admits
\* one allocation per staging intent).
OneAnswerPerAttempt ==
  \A h, k \in handed : h.attempt = k.attempt => h.server = k.server

\* While a lease is stored and not fenced, the object of its attempt is not deleted,
\* not even one nobody has observed yet: a cleanup that still runs for an earlier
\* attempt, a sweep and an orphan scan all leave it alone (reconcileAttempt,
\* ReclaimExpired, EndSession, Sweep).  Of copies HandedObjectKept speaks.
LeasedObjectKept ==
  [][\A s \in Servers :
       /\ Present(s) /\ HoldsAttempt(server[s].attempt) /\ ~lease.releasing
       /\ \A t \in Servers : server[t].attempt = server[s].attempt => t = s
       => Present(s)']_vars

\* An admitted session owns its allocation until its own end is proved: the
\* lease stays claimed and the object is not deleted under the player, whatever
\* retries, sweeps and late cleanups do (ClaimByKey against BeginRelease).
AdmittedSessionKept ==
  \A z \in Sessions : sPc[z] = "admitted" =>
    /\ lease = sObs[z]
    /\ lease.claimed
    /\ server[lease.server].state # "deleted"

\* What gives a dispatch up: its object is published, or the fence is put on it
\* when an object has been allocated or no request can allocate one any more.
OutcomeKnown ==
  \/ ~lease'.releasing /\ ~lease'.staging /\ server[lease'.server].attempt = lease.attempt
  \/ /\ lease' = Fenced(lease)
     /\ \/ lease.attempt \notin inflight
        \/ \E s \in Servers : server[s].attempt = lease.attempt

\* A quarantined dispatch, whose allocation may exist unobserved, is given up
\* only for a known outcome (BeginRelease behind releaseUnallocated, and
\* reconcileAttempt, which leaves a dispatch it knows no object of alone).
QuarantineKept ==
  [][lease # None /\ Quarantined(lease) /\ lease' # lease => OutcomeKnown]_lease

\* The stored lease is a published, unexpired, unclaimed allocation that some
\* call has returned to the player.
HandedOut ==
  /\ lease # None
  /\ ~lease.releasing /\ ~lease.staging /\ ~lease.claimed
  /\ lease.attempt \notin expired
  /\ [attempt |-> lease.attempt, server |-> lease.server] \in handed

\* The object of such a lease is not deleted by a call that once saw two of them.
HandedObjectKept == HandedOut => server[lease.server].state # "deleted"

\* Such an allocation is not torn down by an overlapping retry: only its claim
\* changes the lease (the Allocator contract in handoff/service.go).
HandedAllocationRetained == [][HandedOut => lease' = Admitted(lease)]_lease

\* And it is not, whatever overlaps, as long as no step has failed.
RetainedUntilFault ==
  [][HandedOut /\ faults' = MaxFaults => lease' = Admitted(lease)]_lease

-----------------------------------------------------------------------------
\* A reservation that keeps other attempts out though no player and no unknown
\* dispatch is behind it, and an object that no lease leads a cleanup to.
Blocks(a) == HoldsAttempt(a) /\ ~lease.claimed /\ ~Quarantined(lease)
Orphaned(s) == server[s].state = "allocated" /\ ~HoldsAttempt(server[s].attempt)
=============================================================================
