---------------------------- MODULE ZoneSession -----------------------------
(***************************************************************************)
(* A player's session on an allocated zone, as the durable lease sees it:  *)
(* claimrpc's claim handler (LoadForClaim, Resolve, ClaimByKey) and the    *)
(* trusted end of the session (claimrpc's completion handler over          *)
(* Store.EndSession).                                                      *)
(*   idle, resolve, claim       the claim handler, restarted by a retry    *)
(*   admitted                   the zone holds the claim's receipt         *)
(*   ended, delete, remove      EndSession's barrier, cleanup and delete   *)
(*   over                       the completion call returned               *)
(***************************************************************************)
EXTENDS Fleet

CONSTANT Sessions   \* zone-side admissions of this reservation's player

VARIABLES sPc,      \* where each session is
          sObs      \* the observed lease, then the claimed or ended one

sessionVars == <<sPc, sObs>>

SessionPCs == {"idle", "resolve", "claim", "admitted", "ended", "delete",
               "remove", "over"}

SessionInit ==
  /\ sPc  = [z \in Sessions |-> "idle"]
  /\ sObs = [z \in Sessions |-> None]

\* What a session at label has in hand: the lease l.
SessionEquipped(label, l) ==
  /\ label \notin {"idle", "over"} => l # None /\ ~l.staging
  /\ label \in {"resolve", "claim"} => ~l.releasing
  /\ label \in {"admitted", "ended"} => l.claimed
  /\ label \in {"delete", "remove"} => l.releasing

SessionsTypeOK ==
  /\ sPc \in [Sessions -> SessionPCs]
  /\ sObs \in [Sessions -> StoredLease \cup {None}]
  /\ \A z \in Sessions : SessionEquipped(sPc[z], sObs[z])

SessionGoto(z, label) == sPc' = [sPc EXCEPT ![z] = label]
SessionHolds(z, l)    == sObs' = [sObs EXCEPT ![z] = l]
Refuse(z)             == SessionGoto(z, "idle") /\ SessionHolds(z, None)
SessionOver(z)        == SessionGoto(z, "over") /\ SessionHolds(z, None)

\* The claim names an allocation of which the player holds a handoff; the
\* stored lease must be that allocation, published, unfenced and unexpired.
ClaimLoads(z, handed) ==
  /\ sPc[z] = "idle"
  /\ lease # None
  /\ ~lease.staging /\ ~lease.releasing
  /\ [attempt |-> lease.attempt, server |-> lease.server] \in handed
  /\ lease.attempt \notin expired
  /\ SessionHolds(z, lease) /\ SessionGoto(z, "resolve")
  /\ UNCHANGED <<storeVars, fleetVars>>

ClaimResolves(z) ==
  /\ sPc[z] = "resolve"
  /\ IF sObs[z].server \in AllocatedFor(sObs[z].attempt)
     THEN SessionGoto(z, "claim") /\ UNCHANGED sObs
     ELSE Refuse(z)
  /\ UNCHANGED <<storeVars, fleetVars>>

ClaimWrites(z) ==
  /\ sPc[z] = "claim"
  /\ IF sObs[z].attempt \in expired
     THEN Refuse(z) /\ UNCHANGED storeVars
     ELSE \E result \in {"ok", "conflict", "error"} :
            /\ ClaimByKey(sObs[z], result)
            /\ IF result = "ok"
               THEN SessionGoto(z, "admitted") /\ SessionHolds(z, lease')
               ELSE Refuse(z)
  /\ UNCHANGED fleetVars

\* The session's termination is proved to the completion handler.
SessionEnds(z) ==
  /\ sPc[z] = "admitted"
  /\ SessionGoto(z, "ended")
  /\ UNCHANGED <<storeVars, fleetVars, sObs>>

\* EndSession clears the claim and fences in one write over the exact claimed
\* version, and goes on only once a reload shows that very lease: a write that
\* was acknowledged with an error may have committed.
EndFences(z) ==
  /\ sPc[z] = "ended"
  /\ LET ending == Ended(sObs[z]) IN
     \E result \in {"ok", "conflict", "error"} :
       /\ WriteExact(sObs[z], ending, result)
       /\ \/ lease' = ending /\ SessionGoto(z, "delete") /\ SessionHolds(z, ending)
          \/ (lease' # ending \/ result = "error") /\ SessionOver(z)
  /\ UNCHANGED fleetVars

EndDeletes(z) ==
  /\ sPc[z] = "delete"
  /\ \/ DeleteServer(sObs[z].server) /\ SessionGoto(z, "remove")
        /\ UNCHANGED <<faults, sObs>>
     \/ DeleteFails(sObs[z].server) /\ SessionOver(z)
  /\ UNCHANGED <<lease, expired, inflight>>

EndRemoves(z) ==
  /\ sPc[z] = "remove"
  /\ \E result \in {"ok", "conflict", "error"} : WriteExact(sObs[z], None, result)
  /\ SessionOver(z)
  /\ UNCHANGED fleetVars

\* A read of the claim handler fails or its call is cancelled.
ClaimFails(z) ==
  /\ sPc[z] \in {"resolve", "claim"}
  /\ Fault
  /\ Refuse(z)
  /\ UNCHANGED <<lease, expired, fleetVars>>

SessionStep(z, handed) ==
  \/ ClaimLoads(z, handed) \/ ClaimResolves(z) \/ ClaimWrites(z)
  \/ SessionEnds(z) \/ EndFences(z) \/ EndDeletes(z) \/ EndRemoves(z)
=============================================================================
