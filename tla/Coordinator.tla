---------------------------- MODULE Coordinator ----------------------------
(***************************************************************************)
(* CreateHandoff calls: handoff.Service over handoffalloc.Coordinator over *)
(* the agonesresources.Adapter.  A call is a process whose program counter *)
(* stops at every storage, allocator or Kubernetes call, so two calls (the *)
(* player's retries, of one or several Nakama instances) interleave        *)
(* between any two of them.                                                *)
(*                                                                         *)
(*   load        Allocate reads the lease and chooses its path             *)
(*   steal       BeginRelease of another attempt's stale lease             *)
(*   stage       Create or Replace of the staging intent                   *)
(*   dispatch    BeginDispatch                                             *)
(*   provision   adapter.observe holding the dispatch: list the attempt    *)
(*   observe     adapter.observe without it (Reconcile)                    *)
(*   rpc, wait   the allocation request is sent, its answer awaited        *)
(*   await       observeDispatched: wait for the object answered           *)
(*   adopt       reread the pinned object                                  *)
(*   finalize    publish the allocation                                    *)
(*   progress    progressedAllocationOutcome after a failed step           *)
(*   resolve     resolveDurable of a published lease ("winner": the one    *)
(*               progressedAllocationOutcome found)                        *)
(*   unallocated, reload    releaseUnallocated's fence and its retry loop  *)
(*   reconcile, fence       reconcileAttempt: Load, BeginRelease           *)
(*   list, delete           resources.Release: find, then delete objects   *)
(*   remove      leases.Release                                            *)
(*   return      Allocate returned an allocation to the service            *)
(*   done, failed           CreateHandoff returned                         *)
(***************************************************************************)
EXTENDS Fleet

CONSTANT AttemptOf   \* the attempt ID each call draws

ASSUME AttemptOfIsAFunction == AttemptOf \in [Callers -> Attempts]

VARIABLES pc,       \* where each call is
          req,      \* request.AttemptID: its own, or the adopted dispatch owner's
          obs,      \* the durable record in hand (current, staging, releasing)
          target,   \* the object in hand (answered, adopted, provisioned), or None
          doomed,   \* objects the current cleanup has left to delete
          after,    \* where the current cleanup continues
          phase,    \* "allocate", or "release" once the service cleans up
          handed    \* [attempt, server] of every Handoff returned to the player

callerVars == <<pc, req, obs, target, doomed, after, phase, handed>>

PCs == {"load", "steal", "stage", "dispatch", "provision", "observe", "rpc",
        "wait", "await", "adopt", "finalize", "progress", "resolve", "winner",
        "unallocated", "reload", "reconcile", "fence", "list", "delete",
        "remove", "return", "done", "failed"}

Continuations == {"stage", "remove", "leave", "fail", "progress"}

CallerInit ==
  /\ pc     = [c \in Callers |-> "load"]
  /\ req    = AttemptOf
  /\ obs    = [c \in Callers |-> None]
  /\ target = [c \in Callers |-> None]
  /\ doomed = [c \in Callers |-> {}]
  /\ after  = [c \in Callers |-> "leave"]
  /\ phase  = [c \in Callers |-> "allocate"]
  /\ handed = {}

\* What a call at label has in hand: the lease l and the object s.
Equipped(label, l, s) ==
  /\ label \in {"steal", "dispatch", "provision", "rpc", "wait", "unallocated",
               "fence", "list", "resolve", "winner", "return"} => l # None
  /\ label = "dispatch" => l.staging
  /\ label \in {"resolve", "winner", "return"} => ~l.staging
  /\ label = "finalize" => s # None

CallersTypeOK ==
  /\ pc \in [Callers -> PCs]
  /\ req \in [Callers -> Attempts]
  /\ obs \in [Callers -> StoredLease \cup {None}]
  /\ target \in [Callers -> Servers \cup {None}]
  /\ doomed \in [Callers -> SUBSET Servers]
  /\ after \in [Callers -> Continuations]
  /\ phase \in [Callers -> {"allocate", "release"}]
  /\ handed \subseteq [attempt : Attempts, server : Servers]
  /\ \A c \in Callers : Equipped(pc[c], obs[c], target[c])

-----------------------------------------------------------------------------
\* Control: where a step leaves the call.

Goto(c, label) == pc' = [pc EXCEPT ![c] = label]
Hold(c, l)     == obs' = [obs EXCEPT ![c] = l]
Aim(c, s)      == target' = [target EXCEPT ![c] = s]
Keep           == UNCHANGED <<doomed, after, phase, handed>>

\* CreateHandoff returns an error and keeps every durable outcome.
Retain(c) ==
  /\ Goto(c, "failed") /\ Hold(c, None) /\ Aim(c, None)
  /\ req' = [req EXCEPT ![c] = AttemptOf[c]]
  /\ Keep

\* Allocate returned an error that does not retain the outcome: the service
\* calls Release with the request it made, which is the attempt it drew.
Fail(c) ==
  /\ Goto(c, "reconcile") /\ Hold(c, None) /\ Aim(c, None)
  /\ req' = [req EXCEPT ![c] = AttemptOf[c]]
  /\ phase' = [phase EXCEPT ![c] = "release"]
  /\ UNCHANGED <<doomed, after, handed>>

\* reconcileAttempt returned, to Allocate (which then fails) or to Release.
LeaveReconcile(c) == IF phase[c] = "allocate" THEN Fail(c) ELSE Retain(c)

\* Allocate returns the allocation of lease l.
Answer(c, l) == Goto(c, "return") /\ Hold(c, l) /\ Aim(c, None) /\ UNCHANGED req /\ Keep

\* Begin deleting objects, continuing at next.
Doom(c, objects, next) ==
  /\ doomed' = [doomed EXCEPT ![c] = objects]
  /\ after' = [after EXCEPT ![c] = next]
  /\ UNCHANGED <<phase, handed>>

\* Mutant of ReleaseResource: a lease that names no allocation owns nothing.
ReleaseNamedResource(c, l, next) ==
  /\ Goto(c, "delete")
  /\ Doom(c, {s \in Servers : s = l.server /\ server[s].attempt = l.attempt}, next)
  /\ Hold(c, l)

\* resources.Release(l): the exact object a lease names, else the label's.
ReleaseResource(c, l, next) ==
  /\ IF l.server # None
     THEN /\ Goto(c, "delete")
          /\ Doom(c, {s \in Servers : s = l.server /\ server[s].attempt = l.attempt}, next)
     ELSE Goto(c, "list") /\ Doom(c, {}, next)
  /\ Hold(c, l)

-----------------------------------------------------------------------------
\* Allocate, up to the allocation.

\* Mutant of Replaceable: a fresh attempt takes an unclaimed allocation over.
ReplaceableUnclaimed(l, late) ==
  /\ l.dispatch = None
  /\ State(l, late) \in {"expired", "staging", "releasing", "unclaimed"}

\* Mutant of Replaceable: a dispatch whose outcome is unknown is taken over.
ReplaceableDispatched(l, late) == State(l, late) \in {"expired", "staging", "releasing"}

\* Another attempt's lease that the request fences and replaces.
Replaceable(l, late) ==
  /\ l.dispatch = None
  /\ State(l, late) \in {"expired", "staging", "releasing"}

\* Load and the choice of path.  late: now, read before the load, was already
\* past the stored deadline.
AllocateLoads(c) ==
  /\ pc[c] = "load"
  /\ UNCHANGED <<lease, expired, faults, server, inflight>>
  /\ IF lease = None
     THEN Goto(c, "stage") /\ UNCHANGED <<req, obs, target>> /\ Keep
     ELSE \E late \in {FALSE, lease.attempt \in expired} :
       LET own == lease.attempt = req[c] IN
       \/ /\ own /\ lease.releasing
          /\ Fail(c)
       \/ /\ own /\ ~lease.releasing /\ ~lease.staging
          /\ Goto(c, "resolve") /\ Hold(c, lease) /\ UNCHANGED <<req, target>> /\ Keep
       \/ /\ own /\ ~lease.releasing /\ lease.staging
          /\ Goto(c, IF lease.dispatch # None THEN "observe"
                     ELSE IF late THEN "reconcile" ELSE "dispatch")
          /\ Hold(c, lease) /\ UNCHANGED <<req, target>> /\ Keep
       \/ /\ ~own /\ State(lease, late) = "unclaimed"
          /\ Goto(c, "resolve") /\ Hold(c, lease) /\ UNCHANGED <<req, target>> /\ Keep
       \/ /\ ~own
          /\ \/ lease.staging /\ lease.dispatch # None /\ lease.releasing
             \/ lease.claimed
          /\ Fail(c)
       \/ /\ ~own /\ Quarantined(lease)      \* adopt the dispatch owner
          /\ Goto(c, "observe") /\ Hold(c, lease)
          /\ req' = [req EXCEPT ![c] = lease.attempt]
          /\ UNCHANGED target /\ Keep
       \/ /\ ~own /\ Replaceable(lease, late)
          /\ Goto(c, "steal") /\ Hold(c, lease) /\ UNCHANGED <<req, target>> /\ Keep

\* Fence a stale attempt of the key, then delete its resource.
StealFences(c) ==
  /\ pc[c] = "steal"
  /\ UNCHANGED <<server, inflight>>
  /\ \E result \in {"ok", "conflict", "error"} :
       /\ BeginRelease(obs[c], result)
       /\ IF result = "ok"
          THEN ReleaseResource(c, lease', "stage") /\ UNCHANGED <<req, target>>
          ELSE Fail(c)

\* The staging intent.  A record that another call of the same attempt has
\* already published is resolved instead.
StageAttempt(c) ==
  /\ pc[c] = "stage"
  /\ UNCHANGED <<server, inflight>>
  /\ \E result \in {"ok", "conflict", "error"} :
       /\ IF obs[c] = None THEN Create(req[c], result) ELSE Replace(obs[c], req[c], result)
       /\ IF result = "ok"
          THEN /\ Goto(c, IF ~lease'.staging THEN "resolve"
                          ELSE IF lease'.dispatch = None THEN "dispatch" ELSE "observe")
               /\ Hold(c, lease') /\ UNCHANGED <<req, target>> /\ Keep
          ELSE Fail(c)

\* Mutant of MayAllocate: a dispatch that another call won is allocated again.
MayAllocateAny(result) == result \in {"won", "ok"}

\* Only the call whose own dispatch is durable may send an allocation request.
MayAllocate(result) == result = "won"

DispatchAttempt(c) ==
  /\ pc[c] = "dispatch"
  /\ UNCHANGED <<server, inflight>>
  /\ \E result \in {"won", "ok", "conflict", "error"} :
       /\ BeginDispatch(obs[c], c, result)
       /\ IF result \in {"won", "ok"}
          THEN /\ Goto(c, IF MayAllocate(result) THEN "provision" ELSE "observe")
               /\ Hold(c, lease') /\ UNCHANGED <<req, target>> /\ Keep
          ELSE Fail(c)

\* adapter.observe: one match is adopted, none is dispatched or ambiguous,
\* more are released one by one.
ObserveAttempt(c) ==
  /\ pc[c] \in {"provision", "observe"}
  /\ UNCHANGED <<lease, expired, faults, server, inflight, req, obs>>
  /\ LET found == AllocatedFor(req[c]) IN
     \/ /\ found = {}
        /\ Goto(c, IF pc[c] = "provision" THEN "rpc" ELSE "progress")
        /\ UNCHANGED target /\ Keep
     \/ \E s \in found : found = {s} /\ Aim(c, s) /\ Goto(c, "adopt") /\ Keep
     \/ /\ Cardinality(found) > 1
        /\ Goto(c, "delete") /\ Doom(c, found, "progress") /\ UNCHANGED target

\* Reserve: the one allocation request of the dispatch.
SendAllocation(c) ==
  /\ pc[c] = "rpc"
  /\ inflight' = inflight \cup {req[c]}
  /\ Goto(c, "wait")
  /\ UNCHANGED <<lease, expired, faults, server, req, obs, target>> /\ Keep

AllocationAnswered(c) ==
  /\ pc[c] = "wait"
  /\ \E s \in Servers : server[s].attempt = req[c] /\ Aim(c, s)
  /\ Goto(c, "await")
  /\ UNCHANGED <<lease, expired, faults, server, inflight, req, obs>> /\ Keep

\* The allocator's own answer that it allocated nothing.  An update it saw fail
\* may have committed all the same, or ("late") land afterwards.
AllocationRefused(c) ==
  /\ pc[c] = "wait"
  /\ inflight' = IF "late" \in Anomalies THEN inflight ELSE inflight \ {req[c]}
  /\ Goto(c, "unallocated")
  /\ UNCHANGED <<lease, expired, faults, server, req, obs, target>> /\ Keep

\* observeDispatched: the object answered must become the attempt's only one
\* within the observation budget.
ObserveDispatched(c) ==
  /\ pc[c] = "await"
  /\ UNCHANGED <<lease, expired, faults, server, inflight, req, obs>>
  /\ LET found == AllocatedFor(req[c]) IN
     \/ found = {target[c]} /\ Goto(c, "adopt") /\ UNCHANGED target /\ Keep
     \/ /\ found # {target[c]} /\ Cardinality(found) <= 1
        /\ Goto(c, "progress") /\ Aim(c, None) /\ Keep
     \/ /\ Cardinality(found) > 1
        /\ Goto(c, "delete") /\ Aim(c, None) /\ Doom(c, found, "progress")

\* adapter.adopt, then Allocate's check that the lease has time left.
AdoptServer(c) ==
  /\ pc[c] = "adopt"
  /\ UNCHANGED <<lease, expired, faults, server, inflight, req, obs>>
  /\ IF target[c] \in AllocatedFor(req[c])
     THEN /\ Goto(c, IF req[c] \in expired THEN "reconcile" ELSE "finalize")
          /\ UNCHANGED target
     ELSE Goto(c, "progress") /\ Aim(c, None)
  /\ Keep

FinalizeAttempt(c) ==
  /\ pc[c] = "finalize"
  /\ UNCHANGED <<server, inflight>>
  /\ \E result \in {"ok", "conflict", "error"} :
       /\ Finalize(obs[c], Published(req[c], target[c]), result)
       /\ IF result = "ok"
          THEN Answer(c, Published(req[c], target[c]))
          ELSE Goto(c, "progress") /\ UNCHANGED <<req, obs, target>> /\ Keep

\* Mutant of CheckProgress: an unobserved outcome is observed again, without end.
CheckProgressPolling(c) ==
  /\ pc[c] = "progress"
  /\ UNCHANGED <<lease, expired, faults, server, inflight>>
  /\ IF HoldsAttempt(req[c]) /\ ~lease.staging /\ ~lease.releasing
     THEN Goto(c, "winner") /\ Hold(c, lease) /\ UNCHANGED <<req, target>> /\ Keep
     ELSE /\ Goto(c, IF target[c] = None THEN "observe" ELSE "reconcile")
          /\ UNCHANGED <<req, obs, target>> /\ Keep

\* progressedAllocationOutcome.  A published, unreleased lease of the attempt is
\* the winner to resolve.  Otherwise a failed Provision or Reconcile retains
\* the outcome, and a failed Finalize reconciles the object it holds.
CheckProgress(c) ==
  /\ pc[c] = "progress"
  /\ UNCHANGED <<lease, expired, faults, server, inflight>>
  /\ IF HoldsAttempt(req[c]) /\ ~lease.staging /\ ~lease.releasing
     THEN Goto(c, "winner") /\ Hold(c, lease) /\ UNCHANGED <<req, target>> /\ Keep
     ELSE IF target[c] = None
     THEN Retain(c)
     ELSE Goto(c, "reconcile") /\ UNCHANGED <<req, obs, target>> /\ Keep

\* resolveDurable: the exact object must still be Allocated to the attempt.
ResolveLease(c) ==
  /\ pc[c] \in {"resolve", "winner"}
  /\ UNCHANGED <<lease, expired, faults, server, inflight>>
  /\ IF obs[c].server \in AllocatedFor(obs[c].attempt)
     THEN Answer(c, obs[c])
     ELSE IF pc[c] = "resolve" THEN Fail(c) ELSE Retain(c)

-----------------------------------------------------------------------------
\* releaseUnallocated: fence the exact dispatched version, retrying a storage
\* failure against the reloaded lease.
FenceUnallocated(c) ==
  /\ pc[c] = "unallocated"
  /\ UNCHANGED <<server, inflight, req, target>> /\ Keep
  /\ \E result \in {"ok", "conflict", "error"} :
       /\ BeginRelease(obs[c], result)
       /\ Goto(c, CASE result = "ok"       -> "reconcile"
                    [] result = "conflict" -> "progress"
                    [] result = "error"    -> "reload")
       /\ IF result = "ok" THEN Hold(c, None) ELSE UNCHANGED obs

ReloadUnallocated(c) ==
  /\ pc[c] = "reload"
  /\ UNCHANGED <<lease, expired, faults, server, inflight, req, target>> /\ Keep
  /\ IF HoldsAttempt(req[c]) /\ lease.staging /\ lease.dispatch # None
     THEN Goto(c, "unallocated") /\ Hold(c, lease)
     ELSE Goto(c, "progress") /\ UNCHANGED obs

-----------------------------------------------------------------------------
\* reconcileAttempt, with the provisioned object in target or without one.

\* A cleanup must not touch a claimed lease, nor, with no object in hand, a
\* dispatch whose outcome nobody has observed.
LeftAlone(l, resource) == l.claimed \/ (resource = None /\ Quarantined(l))

\* Load.  A key that is gone or belongs to another attempt leaves only the
\* object in hand to delete; a dispatch nobody observed stays quarantined.
ReconcileLoads(c) ==
  /\ pc[c] = "reconcile"
  /\ UNCHANGED <<lease, expired, faults, server, inflight>>
  /\ \/ /\ ~HoldsAttempt(req[c])
        /\ IF target[c] = None THEN LeaveReconcile(c)
           ELSE /\ ReleaseResource(c, Published(req[c], target[c]), "leave")
                /\ UNCHANGED <<req, target>>
     \/ /\ HoldsAttempt(req[c])
        /\ IF LeftAlone(lease, target[c])
           THEN LeaveReconcile(c)
           ELSE Goto(c, "fence") /\ Hold(c, lease) /\ UNCHANGED <<req, target>> /\ Keep

\* BeginRelease, then resources.Release of the object in hand or of the lease's.
ReconcileFences(c) ==
  /\ pc[c] = "fence"
  /\ UNCHANGED <<server, inflight>>
  /\ \E result \in {"ok", "conflict", "error"} :
       /\ BeginRelease(obs[c], result)
       /\ IF result = "ok"
          THEN /\ ReleaseResource(c, IF target[c] = None THEN lease'
                                     ELSE Published(req[c], target[c]), "remove")
               /\ UNCHANGED <<req, target>>
          ELSE LeaveReconcile(c)

\* resources.Release without an allocation: list the attempt's label.
ListAttempt(c) ==
  /\ pc[c] = "list"
  /\ doomed' = [doomed EXCEPT ![c] = Labelled(obs[c].attempt)]
  /\ Goto(c, "delete")
  /\ UNCHANGED <<lease, expired, faults, server, inflight, req, obs, target,
                 after, phase, handed>>

\* A delete that fails is not retried; the others still run and the caller
\* learns of the failure.
DeleteDoomed(c) ==
  /\ pc[c] = "delete"
  /\ \E s \in doomed[c] :
       /\ doomed' = [doomed EXCEPT ![c] = @ \ {s}]
       /\ \/ DeleteServer(s) /\ UNCHANGED <<faults, after>>
          \/ /\ DeleteFails(s)
             /\ after' = [after EXCEPT ![c] = CASE @ = "stage"  -> "fail"
                                                [] @ = "remove" -> "leave"
                                                [] OTHER        -> @]
  /\ UNCHANGED <<lease, expired, inflight, pc, req, obs, target, phase, handed>>

CleanupReturns(c) ==
  /\ pc[c] = "delete"
  /\ doomed[c] = {}
  /\ UNCHANGED <<lease, expired, faults, server, inflight>>
  /\ CASE after[c] \in {"stage", "remove", "progress"} ->
            Goto(c, after[c]) /\ UNCHANGED <<req, obs, target>> /\ Keep
       [] after[c] = "leave" -> LeaveReconcile(c)
       [] after[c] = "fail"  -> Fail(c)

\* leases.Release forgets the attempt.
ForgetAttempt(c) ==
  /\ pc[c] = "remove"
  /\ UNCHANGED <<server, inflight>>
  /\ \E result \in {"ok", "conflict", "error"} : Release(req[c], result)
  /\ LeaveReconcile(c)

-----------------------------------------------------------------------------
\* CreateHandoff after Allocate: a published allocation is never released,
\* whether or not enough of its lease is left to hand it out.
ReturnHandoff(c) ==
  /\ pc[c] = "return"
  /\ IF obs[c].attempt \in expired
     THEN Retain(c)
     ELSE /\ Goto(c, "done") /\ Hold(c, None)
          /\ handed' = handed \cup {[attempt |-> obs[c].attempt, server |-> obs[c].server]}
          /\ UNCHANGED <<req, target, doomed, after, phase>>
  /\ UNCHANGED <<lease, expired, faults, server, inflight>>

\* A storage, allocator or Kubernetes read fails, or the call is cancelled.
StepFails(c) ==
  /\ Fault
  /\ \/ pc[c] \in {"load", "resolve"} /\ Fail(c)
     \/ pc[c] \in {"progress", "winner"} /\ Retain(c)
     \/ /\ pc[c] \in {"provision", "observe", "wait", "await", "adopt"}
        /\ Goto(c, "progress") /\ Aim(c, None) /\ UNCHANGED <<req, obs>> /\ Keep
     \/ pc[c] = "reload" /\ Goto(c, "progress") /\ UNCHANGED <<req, obs, target>> /\ Keep
     \/ pc[c] = "reconcile" /\ LeaveReconcile(c)
     \/ /\ pc[c] = "list"
        /\ Goto(c, "delete")
        /\ after' = [after EXCEPT ![c] = IF @ = "stage" THEN "fail" ELSE "leave"]
        /\ UNCHANGED <<req, obs, target, doomed, phase, handed>>
  /\ UNCHANGED <<lease, expired, server, inflight>>

\* The Nakama process dies with the call; nothing is cleaned up.
Crash(c) ==
  /\ pc[c] \notin {"done", "failed"}
  /\ Fault
  /\ pc' = [pc EXCEPT ![c] = "failed"]
  /\ obs' = [obs EXCEPT ![c] = None]
  /\ target' = [target EXCEPT ![c] = None]
  /\ doomed' = [doomed EXCEPT ![c] = {}]
  /\ req' = [req EXCEPT ![c] = AttemptOf[c]]
  /\ UNCHANGED <<lease, expired, server, inflight, after, phase, handed>>

CallerStep(c) ==
  \/ AllocateLoads(c) \/ StealFences(c) \/ StageAttempt(c) \/ DispatchAttempt(c)
  \/ ObserveAttempt(c) \/ SendAllocation(c) \/ AllocationAnswered(c) \/ AllocationRefused(c)
  \/ ObserveDispatched(c) \/ AdoptServer(c) \/ FinalizeAttempt(c)
  \/ CheckProgress(c) \/ ResolveLease(c) \/ FenceUnallocated(c)
  \/ ReloadUnallocated(c) \/ ReconcileLoads(c) \/ ReconcileFences(c)
  \/ ListAttempt(c) \/ DeleteDoomed(c) \/ CleanupReturns(c) \/ ForgetAttempt(c)
  \/ ReturnHandoff(c)
=============================================================================
