----------------------------- MODULE LeaseStore -----------------------------
(***************************************************************************)
(* The compare-and-swap operations of nakamalease.Store on one key.        *)
(*                                                                         *)
(* An operation is an action with a result.  Each write of the code is a   *)
(* version check (requireWriterKey), an exact-version StorageWrite and, on *)
(* rejection, one reload.  The three calls are one action here: the write  *)
(* commits only if the lease is still the observed one, a rejected write   *)
(* changes nothing, and what the reload sees is a state in which the       *)
(* observed lease is gone (a lease content never returns: each operation   *)
(* moves it forward and attempts are fresh), so the result depends on the  *)
(* lease at the reload alone.                                              *)
(*                                                                         *)
(* A version identifies a content: the storage engine's version may be a   *)
(* hash of the value or a counter, both reject every write this model      *)
(* rejects.                                                                *)
(*                                                                         *)
(* Results: "ok" (the lease is then the durable one), "won" (BeginDispatch *)
(* only), "conflict" (the durable lease decides against the caller) and    *)
(* "error" (storage error, timeout or cancellation: the write may or may   *)
(* not have committed).                                                    *)
(***************************************************************************)
EXTENDS LeaseRecord, Naturals

CONSTANT MaxFaults  \* bound: failed storage, API and process steps in a run

ASSUME MaxFaultsIsNat == MaxFaults \in Nat

VARIABLES lease,    \* the stored lease, or None
          expired,  \* attempts whose no-show deadline has passed
          faults    \* faults left to inject

storeVars == <<lease, expired, faults>>

StoreInit ==
  /\ lease = None
  /\ expired = {}
  /\ faults = MaxFaults

StoreTypeOK ==
  /\ lease \in StoredLease \cup {None}
  /\ expired \subseteq Attempts
  /\ faults \in 0 .. MaxFaults

Fault == faults > 0 /\ faults' = faults - 1

HoldsAttempt(a) == lease # None /\ lease.attempt = a

\* The no-show deadline of the stored lease passes.
Expire ==
  /\ lease # None
  /\ lease.attempt \notin expired
  /\ expired' = expired \cup {lease.attempt}
  /\ UNCHANGED <<lease, faults>>

-----------------------------------------------------------------------------
\* Outcomes shared by every write.
Commits(observed, next, result) ==
  /\ lease = observed
  /\ lease' = next
  /\ \/ result = "ok" /\ UNCHANGED faults
     \/ result = "error" /\ Fault           \* acknowledgement lost
StorageFails(result) ==
  /\ Fault
  /\ result = "error"
  /\ UNCHANGED lease
Settles(result, verdict) ==
  /\ result = (IF verdict THEN "ok" ELSE "conflict")
  /\ UNCHANGED <<lease, faults>>

\* Create: a create-only write of a fresh staging lease.  An existing lease of
\* the same attempt is returned unless it is being released.
Create(a, result) ==
  \/ Commits(None, Staged(a), result) /\ expired' = expired \ {a}
  \/ StorageFails(result) /\ UNCHANGED expired
  \/ /\ lease # None
     /\ Settles(result, lease.attempt = a /\ ~lease.releasing)
     /\ UNCHANGED expired

\* Replace: transfers the key to a distinct attempt; a dispatched lease is
\* never replaced.
Replace(observed, a, result) ==
  \/ /\ observed.dispatch = None
     /\ Commits(observed, Staged(a), result)
     /\ expired' = expired \ {a}
  \/ /\ observed.dispatch = None
     /\ StorageFails(result)
     /\ UNCHANGED expired
  \/ /\ observed.dispatch # None \/ lease # observed
     /\ Settles(result, /\ observed.dispatch = None
                        /\ HoldsAttempt(a)
                        /\ ~lease.releasing)
     /\ UNCHANGED expired

\* BeginDispatch: the allocation point of no return.  Only the caller whose own
\* dispatch ID is stored has "won"; "ok" hands back another caller's dispatch.
\* A lost acknowledgement is resolved by a reload, which may fail as well.
BeginDispatch(observed, c, result) ==
  /\ UNCHANGED expired
  /\ \/ /\ lease = observed
        /\ lease' = Dispatched(observed, c)
        /\ \/ result = "won" /\ UNCHANGED faults
           \/ result = "error" /\ Fault
     \/ StorageFails(result)
     \/ /\ lease # observed
        /\ Settles(result, HoldsAttempt(observed.attempt) /\ Quarantined(lease))

\* Finalize: the staging intent becomes the published allocation.
Finalize(observed, next, result) ==
  /\ UNCHANGED expired
  /\ \/ Commits(observed, next, result)
     \/ StorageFails(result)
     \/ /\ lease # observed
        /\ Settles(result, /\ lease # None
                           /\ ~lease.releasing
                           /\ SameAllocationOwner(lease, next))

\* BeginRelease: fences the observed lease against admission.  An observation
\* that is already fenced is only verified against the durable lease.
BeginRelease(observed, result) ==
  /\ UNCHANGED expired
  /\ \/ /\ ~observed.releasing
        /\ ~observed.claimed
        /\ Commits(observed, Fenced(observed), result)
     \/ StorageFails(result)
     \/ /\ observed.releasing
        /\ Settles(result, lease = observed)
     \/ /\ ~observed.releasing
        /\ lease # observed
        /\ Settles(result, HoldsAttempt(observed.attempt) /\ lease.releasing)

\* Release: the conditional delete that forgets an unclaimed attempt.  A delete
\* that reports failure after it committed is resolved by a reload.
Release(a, result) ==
  /\ UNCHANGED expired
  /\ \/ /\ HoldsAttempt(a)
        /\ ~lease.claimed
        /\ lease' = None
        /\ \/ result = "ok" /\ UNCHANGED faults
           \/ result = "error" /\ Fault
     \/ StorageFails(result)
     \/ /\ ~(HoldsAttempt(a) /\ ~lease.claimed)
        /\ Settles(result, lease = None)

\* ClaimByKey: admission of the exact observed lease; a claim of the same
\* allocation that is already durable is accepted again.
ClaimByKey(observed, result) ==
  /\ UNCHANGED expired
  /\ \/ /\ ~observed.claimed
        /\ Commits(observed, Admitted(observed), result)
     \/ StorageFails(result)
     \/ /\ observed.claimed \/ lease # observed
        /\ Settles(result, lease = Admitted(observed))

\* writeKey and StorageDelete without a reload: a rejected write is the end of
\* the matter (the expiry sweep's fence, EndSession's barrier, both deletes).
WriteExact(observed, next, result) ==
  /\ UNCHANGED expired
  /\ \/ Commits(observed, next, result)
     \/ StorageFails(result)
     \/ lease # observed /\ Settles(result, FALSE)
=============================================================================
