------------------------ MODULE LeaseLifecycleProofs ------------------------
(***************************************************************************)
(* The invariants of the abstract lease lifecycle, for any number of       *)
(* attempts, callers and GameServers.                                      *)
(***************************************************************************)
EXTENDS LeaseLifecycle, TLAPS

\* What each transition writes is a well-formed lease.
LEMMA LeaseShapes ==
  /\ \A a \in Attempts : Staged(a) \in Lease /\ WellFormed(Staged(a))
  /\ \A a \in Attempts, s \in Servers : Published(a, s) \in Lease /\ WellFormed(Published(a, s))
  /\ \A l \in Lease : l # None /\ (WellFormed(l) =>
       /\ \A c \in Callers : l.staging => Dispatched(l, c) \in Lease /\ WellFormed(Dispatched(l, c))
       /\ ~l.claimed => Fenced(l) \in Lease /\ WellFormed(Fenced(l))
       /\ ~l.staging /\ ~l.releasing => Admitted(l) \in Lease /\ WellFormed(Admitted(l))
       /\ l.claimed => Ended(l) \in Lease /\ WellFormed(Ended(l)))
BY NoneIsFresh, NoneIsNoLease
   DEF Lease, WellFormed, Staged, Published, Dispatched, Fenced, Admitted, Ended

\* A lease keeps its attempt and its object as long as it is stored, and a fence is
\* there to stay.
LEMMA LeaseUpdates ==
  ASSUME NEW l \in Lease
  PROVE  /\ \A c \in Callers : Dispatched(l, c).attempt = l.attempt /\ Dispatched(l, c).staging = l.staging
         /\ Admitted(l).attempt = l.attempt /\ Admitted(l).server = l.server
         /\ Fenced(l).attempt = l.attempt /\ Fenced(l).releasing
         /\ Ended(l).attempt = l.attempt /\ Ended(l).releasing
BY DEF Lease, Dispatched, Fenced, Admitted, Ended

\* The type invariant: leases stay well formed (normalizeLease), objects keep
\* their shape.
THEOREM LifecycleTypeOK == Spec => []TypeOK
<1>1. Init => TypeOK
  BY DEF Init, TypeOK
<1>2. TypeOK /\ [Next]_lifecycleVars => TypeOK'
  <2> SUFFICES ASSUME TypeOK, [Next]_lifecycleVars PROVE TypeOK'
    OBVIOUS
  <2>1. ASSUME NEW a \in Attempts, Stage(a) PROVE TypeOK'
    BY <2>1, LeaseShapes DEF TypeOK, Stage
  <2>2. ASSUME NEW c \in Callers, Dispatch(c) PROVE TypeOK'
    BY <2>2, LeaseShapes DEF TypeOK, Dispatch, Live
  <2>3. ASSUME NEW s \in Servers, Acquire(s) PROVE TypeOK'
    <3>1. lease.attempt \in Attempts
      BY <2>3 DEF TypeOK, Acquire, Lease
    <3> QED  BY <2>3, <3>1 DEF TypeOK, Acquire
  <2>4. ASSUME NEW s \in Servers, Publish(s) PROVE TypeOK'
    <3>1. lease.attempt \in Attempts
      BY <2>4 DEF TypeOK, Publish, Lease
    <3> QED  BY <2>4, <3>1, LeaseShapes DEF TypeOK, Publish
  <2>5. ASSUME NEW s \in Servers, Discard(s) PROVE TypeOK'
    BY <2>5 DEF TypeOK, Discard
  <2>6. ASSUME NEW s \in Servers, Decay(s) PROVE TypeOK'
    BY <2>6 DEF TypeOK, Decay
  <2>7. CASE Claim
    BY <2>7, LeaseShapes DEF TypeOK, Claim, Live
  <2>8. CASE Fence
    BY <2>8, LeaseShapes DEF TypeOK, Fence, Live
  <2>9. CASE End
    BY <2>9, LeaseShapes DEF TypeOK, End, Live
  <2>10. CASE Forget
    BY <2>10 DEF TypeOK, Forget
  <2>11. CASE UNCHANGED lifecycleVars
    BY <2>11 DEF TypeOK, lifecycleVars
  <2> QED
    BY <2>1, <2>2, <2>3, <2>4, <2>5, <2>6, <2>7, <2>8, <2>9, <2>10, <2>11 DEF Next
<1> QED  BY <1>1, <1>2, PTL DEF Spec

\* What the three safety invariants need of each other: an object on record is
\* the only one of its attempt, and a published lease points at it.
Inv == TypeOK /\ ObjectsOnRecord /\ SingleAllocation /\ PublishedObjectKept

\* Each step of the lifecycle preserves the invariant.
LEMMA LifecycleStep == Inv /\ TypeOK' /\ [Next]_lifecycleVars => Inv'
<1> SUFFICES ASSUME Inv, TypeOK', [Next]_lifecycleVars PROVE Inv'
  OBVIOUS
<1> USE DEF Inv
<1>1. ASSUME NEW a \in Attempts, Stage(a) PROVE Inv'
  <2>1. ObjectsOnRecord'
    BY <1>1 DEF Stage, Free, Held, ObjectsOnRecord
  <2>2. SingleAllocation'
    BY <1>1 DEF Stage, SingleAllocation
  <2>3. PublishedObjectKept'
    BY <1>1 DEF Stage, PublishedObjectKept, Staged
  <2> QED  BY <2>1, <2>2, <2>3
<1>2. ASSUME NEW c \in Callers, Dispatch(c) PROVE Inv'
  <2>1. lease'.attempt = lease.attempt /\ lease' # None /\ lease'.staging
    BY <1>2, LeaseUpdates, LeaseShapes DEF Dispatch, Live, TypeOK
  <2> QED
    BY <1>2, <2>1
    DEF Dispatch, Held, ObjectsOnRecord, SingleAllocation, PublishedObjectKept
<1>3. ASSUME NEW s \in Servers, Acquire(s) PROVE Inv'
  <2>1. lease # None /\ lease' = lease /\ lease.staging /\ lease.attempt \in Attempts
    BY <1>3 DEF Acquire, Quarantined, TypeOK, Lease
  <2>2. \A t \in Servers : server'[t] =
          IF t = s THEN [state |-> "allocated", attempt |-> lease.attempt] ELSE server[t]
    BY <1>3 DEF Acquire, TypeOK
  <2>3. \A t \in Servers : server[t].attempt # lease.attempt
    BY <1>3 DEF Acquire
  <2>4. ObjectsOnRecord'
    BY <2>1, <2>2 DEF ObjectsOnRecord, Held
  <2>5. SingleAllocation'
    BY <2>2, <2>3 DEF SingleAllocation
  <2>6. PublishedObjectKept'
    BY <2>1 DEF PublishedObjectKept
  <2> QED  BY <2>4, <2>5, <2>6
<1>4. ASSUME NEW s \in Servers, Publish(s) PROVE Inv'
  <2>1. /\ lease'.attempt = lease.attempt /\ lease' # None /\ lease'.server = s
        /\ server' = server
    <3>1. lease.attempt \in Attempts
      BY <1>4 DEF Publish, TypeOK, Lease
    <3>2. Published(lease.attempt, s) # None
      BY <3>1, LeaseShapes
    <3> QED  BY <1>4, <3>2 DEF Publish, Published
  <2> QED
    BY <1>4, <2>1
    DEF Publish, Held, Live, ObjectsOnRecord, SingleAllocation, PublishedObjectKept
<1>5. ASSUME NEW s \in Servers, Discard(s) PROVE Inv'
  <2>1. \A t \in Servers : /\ server'[t].attempt = server[t].attempt
                           /\ server'[t].state = IF t = s THEN "deleted" ELSE server[t].state
    BY <1>5 DEF Discard, TypeOK
  <2>2. lease' = lease /\ lease.releasing
    BY <1>5 DEF Discard
  <2> QED
    BY <2>1, <2>2 DEF Held, Live, ObjectsOnRecord, SingleAllocation, PublishedObjectKept
<1>6. ASSUME NEW s \in Servers, Decay(s) PROVE Inv'
  <2>1. \A t \in Servers : /\ server'[t].attempt = server[t].attempt
                           /\ Held(t)' <=> Held(t)
    BY <1>6 DEF Decay, TypeOK, Held
  <2>2. lease' = lease
    BY <1>6 DEF Decay
  <2>3. lease # None /\ ~lease.staging => lease.server \in Servers
    BY DEF TypeOK, Lease, WellFormed
  <2>4. ObjectsOnRecord' /\ SingleAllocation'
    BY <2>1, <2>2 DEF ObjectsOnRecord, SingleAllocation
  <2>5. PublishedObjectKept'
    BY <2>1, <2>2, <2>3 DEF PublishedObjectKept, Live
  <2> QED  BY <2>4, <2>5
<1>7. CASE Claim
  <2>1. lease'.attempt = lease.attempt /\ lease'.server = lease.server /\ lease' # None
    BY <1>7, LeaseUpdates, LeaseShapes DEF Claim, Live, TypeOK
  <2> QED
    BY <1>7, <2>1
    DEF Claim, Held, Live, ObjectsOnRecord, SingleAllocation, PublishedObjectKept
<1>8. CASE Fence
  <2>1. lease'.attempt = lease.attempt /\ lease'.releasing /\ lease' # None
    BY <1>8, LeaseUpdates, LeaseShapes DEF Fence, Live, TypeOK
  <2> QED
    BY <1>8, <2>1
    DEF Fence, Held, Live, ObjectsOnRecord, SingleAllocation, PublishedObjectKept
<1>9. CASE End
  <2>1. lease'.attempt = lease.attempt /\ lease'.releasing /\ lease' # None
    BY <1>9, LeaseUpdates, LeaseShapes DEF End, Live, TypeOK
  <2> QED
    BY <1>9, <2>1
    DEF End, Held, Live, ObjectsOnRecord, SingleAllocation, PublishedObjectKept
<1>10. CASE Forget
  BY <1>10 DEF Forget, Free, Held, Live, ObjectsOnRecord, SingleAllocation, PublishedObjectKept
<1>11. CASE UNCHANGED lifecycleVars
  BY <1>11
  DEF lifecycleVars, Held, Live, ObjectsOnRecord, SingleAllocation, PublishedObjectKept
<1> QED
  BY <1>1, <1>2, <1>3, <1>4, <1>5, <1>6, <1>7, <1>8, <1>9, <1>10, <1>11 DEF Next

\* The safety of the lifecycle: objects stay on record, an attempt acquires one
\* object, and a published object outlives every cleanup that is not fenced.
THEOREM LifecycleSafe == Spec => [](ObjectsOnRecord /\ SingleAllocation /\ PublishedObjectKept)
<1>1. Init => Inv
  <2> SUFFICES ASSUME Init PROVE Inv
    OBVIOUS
  <2>1. TypeOK
    BY DEF Init, TypeOK
  <2>2. ObjectsOnRecord /\ SingleAllocation /\ PublishedObjectKept
    BY DEF Init, Held, Live, ObjectsOnRecord, SingleAllocation, PublishedObjectKept
  <2> QED  BY <2>1, <2>2 DEF Inv
<1>2. Inv /\ TypeOK' /\ [Next]_lifecycleVars => Inv'
  BY LifecycleStep
<1>3. Inv => ObjectsOnRecord /\ SingleAllocation /\ PublishedObjectKept
  BY DEF Inv
<1> QED  BY <1>1, <1>2, <1>3, LifecycleTypeOK, PTL DEF Spec
=============================================================================
