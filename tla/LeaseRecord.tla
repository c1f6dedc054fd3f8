---------------------------- MODULE LeaseRecord ----------------------------
(***************************************************************************)
(* The handoff lease of server/nakamalease: one private Nakama storage     *)
(* object per (user, reservation).  One reservation key is modelled: every *)
(* operation of the code reads and writes a single key, so two keys never  *)
(* meet.                                                                   *)
(*                                                                         *)
(* Data kept: the attempt, the allocated GameServer (allocation ID,        *)
(* observer and secret reference name and pin the same object, so one      *)
(* value stands for the three), the dispatch identity and the three        *)
(* lifecycle flags.  ExpiresAt is modelled by the set of attempts whose    *)
(* deadline has passed (LeaseStore), ClaimedAt by a flag.                  *)
(***************************************************************************)
CONSTANTS Attempts,   \* attempt IDs, one drawn by each CreateHandoff call
          Callers,    \* CreateHandoff calls; a caller stands for its dispatch ID
          Servers,    \* GameServer objects, each with its own UID
          None        \* absence: no lease, no allocation, no dispatch ID

ASSUME NoneIsFresh == None \notin Attempts \cup Callers \cup Servers

Lease == [attempt   : Attempts,
          server    : Servers \cup {None},
          staging   : BOOLEAN,
          dispatch  : Callers \cup {None},
          releasing : BOOLEAN,
          claimed   : BOOLEAN]

ASSUME NoneIsNoLease == None \notin Lease

\* normalizeLease: a staging lease names no allocation and is not claimed, any
\* other names one; only a staging lease is dispatched; a claimed lease is not
\* releasing.
WellFormed(l) ==
  /\ l.staging <=> l.server = None
  /\ l.claimed => ~l.staging /\ ~l.releasing
  /\ l.dispatch # None => l.staging

\* What the store accepts and returns.
StoredLease == {l \in Lease : WellFormed(l)}

Staged(a) == [attempt |-> a, server |-> None, staging |-> TRUE,
              dispatch |-> None, releasing |-> FALSE, claimed |-> FALSE]

\* leaseFromProvisioned: the allocation material replaces the staging intent.
Published(a, s) == [attempt |-> a, server |-> s, staging |-> FALSE,
                    dispatch |-> None, releasing |-> FALSE, claimed |-> FALSE]

Dispatched(l, c) == [l EXCEPT !.dispatch = c]
Fenced(l)        == [l EXCEPT !.releasing = TRUE]
Admitted(l)      == [l EXCEPT !.claimed = TRUE]
\* Mutant of Ended: the claim survives the end of the session.
EndedStillClaimed(l) == [l EXCEPT !.releasing = TRUE]
Ended(l)         == [l EXCEPT !.claimed = FALSE, !.releasing = TRUE]

\* Record.State: claim ownership first, then the fence, then the deadline.
State(l, late) ==
  CASE l.claimed                            -> "claimed"
    [] ~l.claimed /\ l.releasing            -> "releasing"
    [] ~l.claimed /\ ~l.releasing /\ late   -> "expired"
    [] ~l.claimed /\ ~l.releasing /\ ~late  -> IF l.staging THEN "staging" ELSE "unclaimed"

\* A dispatch whose outcome nobody has recorded: the allocation may exist.
Quarantined(l) == l.staging /\ l.dispatch # None /\ ~l.releasing

\* Mutant of SameAllocationOwner: the attempt alone decides.
SameAttemptOnly(l, n) == l.attempt = n.attempt /\ l.staging = n.staging

\* sameAllocationOwner: everything but the claim, dispatch and release flags.
SameAllocationOwner(l, n) ==
  /\ l.attempt = n.attempt
  /\ l.server  = n.server
  /\ l.staging = n.staging
=============================================================================
