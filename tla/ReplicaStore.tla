---------------------------- MODULE ReplicaStore ----------------------------
(***************************************************************************)
(* The replicated table of one observer, on both tiers: the delta the      *)
(* server's tracker derives from two tables (server/sim/snapshot.go) and   *)
(* its fold by the client (client/scripts/replica_store.gd).  Pure         *)
(* operators.  A table maps the replicated entities to their state and     *)
(* their active casts to what is being cast.  The observer is never an     *)
(* entity of its table, and the capacity checks are left out: a zone stays *)
(* far below wire.MaxEntities.                                             *)
(***************************************************************************)
EXTENDS Functions

CONSTANTS Ids,     \* the entities an observer may be told about
          States,  \* EntityState: position and radius
          Casts    \* ActiveCast: what a caster is casting, since when

Tables == UNION {[entities : [present -> States], casts : UNION {[casting -> Casts] : casting \in SUBSET present}] :
                 present \in SUBSET Ids}

Empty == [entities |-> [i \in {} |-> i], casts |-> [i \in {} |-> i]]

\* f, with the entries of g in their place.
Overlay(f, g) == [i \in DOMAIN f \cup DOMAIN g |-> IF i \in DOMAIN g THEN g[i] ELSE f[i]]

New(f, g)     == DOMAIN g \ DOMAIN f
Changed(f, g) == {i \in DOMAIN f \cap DOMAIN g : f[i] # g[i]}

\* SnapshotTracker.Update, from the table it last saw to the world's.
Delta(prev, next) ==
  [entered |-> Restrict(next.entities, New(prev.entities, next.entities)),
   moved   |-> Restrict(next.entities, Changed(prev.entities, next.entities)),
   left    |-> New(next.entities, prev.entities),
   started |-> Restrict(next.casts, New(prev.casts, next.casts) \cup Changed(prev.casts, next.casts)),
   ended   |-> New(next.casts, prev.casts) \cup Changed(prev.casts, next.casts)]

IsEmpty(d) ==
  DOMAIN d.entered \cup DOMAIN d.moved \cup d.left \cup DOMAIN d.started \cup d.ended = {}

\* Mutant of ProjectDelta: the casts are left in.
ProjectNothing(d, legacy) == d

\* What a peer that negotiated the legacy version sees of a delta and a table.
ProjectDelta(d, legacy) ==
  IF legacy THEN [d EXCEPT !.started = Empty.casts, !.ended = {}] ELSE d
ProjectTable(t, legacy) == IF legacy THEN [t EXCEPT !.casts = Empty.casts] ELSE t

\* The checks _apply_delta makes of a whole delta before it touches the table.
Applies(d, t) ==
  /\ DOMAIN d.entered \cap DOMAIN t.entities = {}
  /\ DOMAIN d.moved \cup d.left \subseteq DOMAIN t.entities
  /\ d.ended \subseteq DOMAIN t.casts
  /\ DOMAIN d.started \subseteq DOMAIN d.entered \cup (DOMAIN t.entities \ d.left)
  /\ DOMAIN d.started \cap DOMAIN t.casts \subseteq d.ended
  /\ d.left \cap DOMAIN t.casts \subseteq d.ended

\* The commit of _apply_delta.
Fold(t, d) ==
  LET present == Overlay(Overlay(t.entities, d.entered), d.moved)
  IN  [entities |-> Restrict(present, DOMAIN present \ d.left),
       casts    |-> Overlay(Restrict(t.casts, DOMAIN t.casts \ d.ended), d.started)]
=============================================================================
