------------------------------- MODULE Fleet --------------------------------
(***************************************************************************)
(* External: the Agones allocator and the GameServer objects, modelled     *)
(* from how server/agonesalloc, server/gameserverapi and                   *)
(* server/agonesresources use them.  An allocated object carries the label *)
(* of its attempt until the object is deleted, whatever its state.         *)
(*                                                                         *)
(* Anomalies names what the allocator may do besides committing one        *)
(* allocation per request before it answers: "copies", two objects end up  *)
(* with the attempt label (releaseDuplicates exists for it), and "late", a *)
(* write lands after the allocator answered that it allocated nothing      *)
(* (the comment on GameServerResources).                                   *)
(***************************************************************************)
EXTENDS FiniteSets, LeaseStore

CONSTANT Anomalies

ASSUME AnomaliesAreKnown == Anomalies \subseteq {"copies", "late"}

VARIABLES server,   \* server[s]: the object's state and attempt label
          inflight  \* attempts whose allocation request is with the allocator

fleetVars == <<server, inflight>>

ServerStates == {"ready", "allocated", "unhealthy", "deleted"}

FleetInit ==
  /\ server = [s \in Servers |-> [state |-> "ready", attempt |-> None]]
  /\ inflight = {}

FleetTypeOK ==
  /\ server \in [Servers -> [state : ServerStates, attempt : Attempts \cup {None}]]
  /\ inflight \subseteq Attempts

\* A present object keeps its label when Agones moves it on from Allocated.
Present(s) == server[s].state \in {"allocated", "unhealthy"}

Labelled(a)     == {s \in Servers : server[s].attempt = a /\ Present(s)}
AllocatedFor(a) == {s \in Labelled(a) : server[s].state = "allocated"}

\* The allocator commits an allocation for a request it holds.
AllocatorCommits(a) ==
  /\ a \in inflight
  /\ \E s \in Servers :
       /\ server[s].state = "ready"
       /\ server' = [server EXCEPT ![s] = [state |-> "allocated", attempt |-> a]]
  /\ inflight' = IF /\ "copies" \in Anomalies
                    /\ \A s \in Servers : server[s].attempt # a
                 THEN inflight
                 ELSE inflight \ {a}

\* The allocator gives a request up.
AllocatorDrops(a) ==
  /\ a \in inflight
  /\ inflight' = inflight \ {a}
  /\ UNCHANGED server

\* Agones moves an allocated object on by itself (unhealthy, shut down).
ServerFails(s) ==
  /\ server[s].state = "allocated"
  /\ server' = [server EXCEPT ![s].state = "unhealthy"]
  /\ UNCHANGED inflight

\* A delete with the object's UID as precondition; absence is success.
DeleteServer(s) == server' = [server EXCEPT ![s].state = "deleted"]

\* A delete that reports failure, whether or not it took effect.
DeleteFails(s) == Fault /\ (UNCHANGED server \/ DeleteServer(s))
=============================================================================
