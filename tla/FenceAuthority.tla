--------------------------- MODULE FenceAuthority ---------------------------
(***************************************************************************)
(* The fence reference (internal/fencereference): what a generation of      *)
(* allocators promises.  Attempts are admitted and committed while it is    *)
(* open; once it is fenced the ledger never changes, so whoever holds the   *)
(* receipt may resolve every attempt to an allocation or to none.           *)
(***************************************************************************)
EXTENDS Naturals, FiniteSets

CONSTANTS Attempts, Resources, MaxAttempts

VARIABLES state,        \* "open", "draining", "fenced"
          attempts,     \* admitted attempts
          allocations,  \* set of [attempt, resource]
          revision

authorityVars == <<state, attempts, allocations, revision>>

Init == state = "open" /\ attempts = {} /\ allocations = {} /\ revision = 1

Admit(a) ==
  /\ state = "open" /\ a \notin attempts
  /\ Cardinality(attempts) < MaxAttempts
  /\ attempts' = attempts \cup {a}
  /\ revision' = revision + 1
  /\ UNCHANGED <<state, allocations>>

\* An exact replay succeeds and changes nothing.
Commit(a, r) ==
  /\ state = "open" /\ a \in attempts
  /\ ~\E done \in allocations : done.attempt = a \/ done.resource = r
  /\ allocations' = allocations \cup {[attempt |-> a, resource |-> r]}
  /\ revision' = revision + 1
  /\ UNCHANGED <<state, attempts>>

Drain ==
  /\ state = "open" /\ state' = "draining"
  /\ revision' = revision + 1
  /\ UNCHANGED <<attempts, allocations>>

Fence ==
  /\ state = "draining" /\ state' = "fenced"
  /\ revision' = revision + 1
  /\ UNCHANGED <<attempts, allocations>>

Next == \/ \E a \in Attempts : Admit(a) \/ \E r \in Resources : Commit(a, r)
        \/ Drain \/ Fence

Spec == Init /\ [][Next]_authorityVars
=============================================================================
