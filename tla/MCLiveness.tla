----------------------------- MODULE MCLiveness -----------------------------
(***************************************************************************)
(* What must happen in the end, in three settings; a behaviour stays in    *)
(* the setting it starts in and leaves the rest alone.                     *)
(*                                                                         *)
(* calls    two overlapping handoff calls and a sweep, with one failed     *)
(*          step anywhere                                                  *)
(* orphans  one call whose allocation may land after the allocator         *)
(*          answered that it allocated nothing, a sweep and a reaper, with *)
(*          two failed steps                                               *)
(* shared   two calls that repeat one attempt ID, as the Allocator         *)
(*          contract allows, and a session                                 *)
(***************************************************************************)
EXTENDS Integers, FiniteSets

CONSTANTS c1, c2, w1, r1, z1, s1, s2, None

VARIABLES part,
          lease, expired, faults, server, inflight,
          pc, req, obs, target, doomed, after, phase, handed,
          swPc, swObs, swDoomed, rPc, rFound, rSeen, rAged, rAim, sPc, sObs

Both == {c1, c2}
One == {c1}
OwnAttempt == [c \in Both |-> c]
OneAttempt == [c \in Both |-> c1]
Server == {s1}
Spares == {s1, s2}
Sweeper == {w1}
Reaper == {r1}
Session == {z1}
Nobody == {}
Late == {"late"}

Overlap == INSTANCE Handoff WITH
  Callers <- Both, Attempts <- Both, AttemptOf <- OwnAttempt, Servers <- Server,
  Sweepers <- Sweeper, Reapers <- Nobody, Sessions <- Nobody, MaxFaults <- 1, Anomalies <- Nobody
Orphans == INSTANCE Handoff WITH
  Callers <- One, Attempts <- One, AttemptOf <- OwnAttempt, Servers <- Spares,
  Sweepers <- Sweeper, Reapers <- Reaper, Sessions <- Nobody, MaxFaults <- 2, Anomalies <- Late
Shared == INSTANCE Handoff WITH
  Callers <- Both, Attempts <- One, AttemptOf <- OneAttempt, Servers <- Spares,
  Sweepers <- Nobody, Reapers <- Nobody, Sessions <- Session, MaxFaults <- 0, Anomalies <- Nobody

-----------------------------------------------------------------------------
storeVars == <<lease, expired, faults>>
fleetVars == <<server, inflight>>
callerVars == <<pc, req, obs, target, doomed, after, phase, handed>>
sweepVars == <<swPc, swObs, swDoomed>>
reaperVars == <<rPc, rFound, rSeen, rAged, rAim>>
sessionVars == <<sPc, sObs>>
handoffVars == <<storeVars, fleetVars, callerVars, sweepVars, reaperVars, sessionVars>>
vars == <<part, handoffVars>>

Init ==
  \/ part = "calls" /\ Overlap!Init
  \/ part = "orphans" /\ Orphans!Init
  \/ part = "shared" /\ Shared!Init

Next ==
  /\ \/ part = "calls" /\ Overlap!Next
     \/ part = "orphans" /\ Orphans!Next
     \/ part = "shared" /\ Shared!Next
  /\ UNCHANGED part

\* The steps that belong to one process; a behaviour has one part, so one condition
\* serves the second call of the one and the reaper of another.
FirstCall ==
  /\ \/ part = "calls" /\ Overlap!CallerStep(c1)
     \/ part = "orphans" /\ Orphans!CallerStep(c1)
     \/ part = "shared" /\ Shared!CallerStep(c1)
  /\ UNCHANGED <<part, sweepVars, reaperVars, sessionVars>>
SecondProcess ==
  /\ \/ part = "calls" /\ Overlap!CallerStep(c2) /\ UNCHANGED reaperVars
     \/ part = "orphans" /\ Orphans!ReaperStep(r1) /\ UNCHANGED callerVars
     \/ part = "shared" /\ Shared!CallerStep(c2) /\ UNCHANGED reaperVars
  /\ UNCHANGED <<part, sweepVars, sessionVars>>
SweepRuns ==
  /\ \/ part = "calls" /\ Overlap!SweepStep(w1)
     \/ part = "orphans" /\ Orphans!SweepStep(w1)
  /\ UNCHANGED <<part, callerVars, reaperVars, sessionVars>>
TimePasses ==
  /\ \/ part = "calls" /\ Overlap!Expire
     \/ part = "orphans" /\ Orphans!Expire
  /\ UNCHANGED <<part, fleetVars, callerVars, sweepVars, reaperVars, sessionVars>>
GracePasses ==
  /\ part = "orphans" /\ Orphans!GraceElapses(r1)
  /\ UNCHANGED <<part, callerVars, sweepVars, sessionVars>>

\* A call's goroutine and a sweep's loop keep running (the ticker of
\* RunExpiryReconciler re-enters it for ever), and time passes.  Nothing is assumed of
\* the allocator.
Fairness ==
  /\ WF_vars(FirstCall) /\ WF_vars(SecondProcess) /\ WF_vars(SweepRuns)
  /\ WF_vars(TimePasses) /\ WF_vars(GracePasses)

Spec == Init /\ [][Next]_vars /\ Fairness

-----------------------------------------------------------------------------
\* The two calls are alike, and so are the two objects: what holds of c1, its attempt
\* and s1 holds of the others.

\* An attempt that is neither claimed nor quarantined is eventually reclaimed,
\* claimed, or quarantined: no crash, lost acknowledgement or failed cleanup
\* leaves a reservation blocked for good.
UnclaimedAttemptEnds == (part = "calls" /\ Overlap!Blocks(c1)) ~> (part = "calls" => ~Overlap!Blocks(c1))

\* Every CreateHandoff call returns: neither the fence retry of releaseUnallocated
\* nor the takeover of other attempts can loop.
CallsReturn == <>(part # "orphans" => pc[c1] \in {"done", "failed"})

\* An object allocated after its attempt was forgotten does not stay allocated: no
\* lease is left to lead a cleanup to it, the orphan scan finds it, failed and
\* restarted sweeps included.
OrphansReclaimed == (part = "orphans" /\ Orphans!Orphaned(s1)) ~> (part = "orphans" => server[s1].state # "allocated")

\* Calls that repeat one attempt ID have a single GameServer allocated for it: those
\* that did not win the dispatch observe (Allocate).
OneObjectPerAttempt == part = "shared" => Shared!OneObjectPerAttempt
=============================================================================
