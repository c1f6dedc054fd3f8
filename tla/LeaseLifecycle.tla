--------------------------- MODULE LeaseLifecycle ---------------------------
(***************************************************************************)
(* What the handoff promises of one reservation key, without its callers,  *)
(* sweeps and failures: the life of the durable lease and of the           *)
(* GameServer objects acquired for it (docs/adr on the dispatch barrier,   *)
(* the comments on Allocator, GameServerResources and Store).              *)
(*                                                                         *)
(*   none -> staged -> dispatched -> published -> claimed                  *)
(*   any of them but none -> releasing -> none, or the next attempt        *)
(*                                                                         *)
(* One object is acquired, for an unfenced dispatch, deleted only under    *)
(* the fence of the lease it belongs to, and gone before the lease is      *)
(* forgotten or its key handed on.                                         *)
(***************************************************************************)
EXTENDS LeaseRecord

VARIABLES lease, server

lifecycleVars == <<lease, server>>

Held(s) == server[s].state \in {"allocated", "unhealthy"}

Init ==
  /\ lease = None
  /\ server = [s \in Servers |-> [state |-> "ready", attempt |-> None]]

Live(l) == l # None /\ ~l.releasing

Free == \A s \in Servers : ~Held(s)

Stage(a) ==
  /\ lease = None \/ (lease # None /\ lease.releasing)
  /\ Free
  /\ lease' = Staged(a)
  /\ UNCHANGED server

Dispatch(c) ==
  /\ Live(lease) /\ lease.staging /\ lease.dispatch = None
  /\ lease' = Dispatched(lease, c)
  /\ UNCHANGED server

Acquire(s) ==
  /\ lease # None /\ Quarantined(lease)
  /\ server[s].state = "ready"
  /\ \A other \in Servers : server[other].attempt # lease.attempt
  /\ server' = [server EXCEPT ![s] = [state |-> "allocated", attempt |-> lease.attempt]]
  /\ UNCHANGED lease

Publish(s) ==
  /\ lease # None /\ Quarantined(lease)
  /\ Held(s) /\ server[s].attempt = lease.attempt
  /\ lease' = Published(lease.attempt, s)
  /\ UNCHANGED server

Claim ==
  /\ Live(lease) /\ ~lease.staging
  /\ lease' = Admitted(lease)
  /\ UNCHANGED server

Fence ==
  /\ Live(lease) /\ ~lease.claimed
  /\ lease' = Fenced(lease)
  /\ UNCHANGED server

End ==
  /\ Live(lease) /\ lease.claimed
  /\ lease' = Ended(lease)
  /\ UNCHANGED server

Discard(s) ==
  /\ lease # None /\ lease.releasing
  /\ Held(s) /\ server[s].attempt = lease.attempt
  /\ server' = [server EXCEPT ![s].state = "deleted"]
  /\ UNCHANGED lease

Forget ==
  /\ lease # None /\ lease.releasing
  /\ Free
  /\ lease' = None
  /\ UNCHANGED server

\* Agones moves an object on by itself.
Decay(s) ==
  /\ server[s].state = "allocated"
  /\ server' = [server EXCEPT ![s].state = "unhealthy"]
  /\ UNCHANGED lease

Next ==
  \/ \E a \in Attempts : Stage(a)
  \/ \E c \in Callers : Dispatch(c)
  \/ \E s \in Servers : Acquire(s) \/ Publish(s) \/ Discard(s) \/ Decay(s)
  \/ Claim \/ Fence \/ End \/ Forget

Spec == Init /\ [][Next]_lifecycleVars

-----------------------------------------------------------------------------
TypeOK ==
  /\ lease \in Lease \cup {None}
  /\ lease # None => WellFormed(lease)
  /\ server \in [Servers -> [state   : {"ready", "allocated", "unhealthy", "deleted"},
                             attempt : Attempts \cup {None}]]

\* An object held for an attempt is on record: the stored lease is that
\* attempt's, so no cleanup can forget it (resource release precedes lease
\* removal in reconcileAttempt, Allocate's takeover and ReclaimExpired).
ObjectsOnRecord ==
  \A s \in Servers : Held(s) => lease # None /\ lease.attempt = server[s].attempt

\* However many calls overlap, an attempt acquires one object: the callers that
\* did not win the dispatch observe, they do not allocate.
SingleAllocation ==
  \A s, t \in Servers :
    server[s].attempt # None /\ server[s].attempt = server[t].attempt => s = t

\* While a published lease is not fenced, no cleanup has deleted its object:
\* a handoff or an admitted session never points at a deleted GameServer.
PublishedObjectKept ==
  Live(lease) /\ ~lease.staging =>
    Held(lease.server) /\ server[lease.server].attempt = lease.attempt
=============================================================================
